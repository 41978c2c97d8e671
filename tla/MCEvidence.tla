----------------------------- MODULE MCEvidence -----------------------------
(* Four representations: one with two resources, whose dependencies may    *)
(* form a chain, a fan or a cycle or may be unresolved, and one that is    *)
(* imported later.  A full aggregate sees every change of a resource; one  *)
(* of a part of it sees none of these.                                     *)
EXTENDS Lineage

CONSTANTS scene, plate, grade, film, x, y, z, w, g, nothing, full, part, same

MCOwner == [i \in {x, y, z, g, w} |->
              CASE i \in {x, y} -> scene [] i = z -> plate [] i = g -> grade [] i = w -> film]

MCReads == [d \in {full, part} |-> [v \in Value |-> IF d = full THEN v ELSE same]]
MCDomains == [q \in Rep |-> IF q = scene THEN {full, part} ELSE {full}]
MCView == Value \cup {same}

Uses(q) == [target |-> q, required |-> TRUE]
MayUse(q) == [target |-> q, required |-> FALSE]

MCExtractions == [q \in Rep |->
    CASE q = scene -> {<<Uses(plate)>>, <<Uses(plate), Uses(grade)>>}
      [] q = plate -> {<<MayUse(film), Uses(scene), Uses(nothing)>>}
      [] OTHER -> {}]

Made(inputs, output) == [inputs |-> inputs, outputs |-> {output}]
MCWorks == {Made({scene}, plate), Made({plate}, grade), Made({plate, grade}, film),
            Made({grade}, scene)}

MCIds == <<plate, scene, film, grade>>
MCReaches == {[depth |-> 2, count |-> 5], [depth |-> 4, count |-> 2]}

Alike == Permutations(Value) \cup Permutations(Activity) \cup Permutations({x, y})
=============================================================================
