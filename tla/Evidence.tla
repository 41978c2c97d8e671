------------------------------ MODULE Evidence ------------------------------
(***************************************************************************)
(* What a production knows about content: recorded fingerprints, markers   *)
(* for representations whose fingerprint must be computed anew, observed   *)
(* dependency sets, activities with the evidence captured when they were   *)
(* recorded, and the state of an artifact that is computed from all this.  *)
(*                                                                         *)
(* Writers are serialized by SQLite and a transaction that fails leaves    *)
(* nothing, so one action is one committed transaction.  What is not       *)
(* serialized is the work of hosts outside their transactions: one loads   *)
(* the recorded fingerprints of a representation and computes an           *)
(* aggregate, one extracts dependencies from what a source contains, and   *)
(* each begins the transaction that records the result afterwards.         *)
(*                                                                         *)
(* A fingerprint belongs to a domain, its algorithm and version, and a     *)
(* representation may have one in each; but only one marker says that they *)
(* must be computed anew.  A Value stands for everything recorded of a     *)
(* resource, in all its domains; Reads says what an aggregate of a domain  *)
(* takes from it.                                                          *)
(***************************************************************************)
EXTENDS Integers, Sequences, FiniteSets

CONSTANTS
    Rep, Resource,
    Owner,                     \* the representation a resource belongs to
    Value, None,               \* contents of a resource; nothing known
    Domain, View,              \* aggregate algorithms; what they read of a resource
    Reads,                     \* the view that a domain takes of a value
    Domains,                   \* the domains in which hosts record a representation
    Activity,
    Works,                     \* what an activity may use and make
    Extractions,               \* edge lists an extractor may find in a source
    Late,                      \* representations that are imported later
    Caller,                    \* hosts that record fingerprints
    MaxDepth, MaxDependencies, \* bounds of a captured dependency closure
    MaxRevisions               \* bound: transactions

Members(q)   == {x \in Resource : Owner[x] = q}
Contents(q)  == [Members(q) -> Value]
Views(q)     == [Members(q) -> View]
Edge         == [target : Rep \cup {None}, required : BOOLEAN]

ASSUME OwnerAssumption == Owner \in [Resource -> Rep]
ASSUME NoneAssumption ==
    /\ None \notin Rep /\ None \notin Value /\ None \notin Resource
    /\ \A q \in Rep : None \notin Views(q)
ASSUME DomainAssumption ==
    Reads \in [Domain -> [Value -> View]] /\ Domains \in [Rep -> SUBSET Domain]
ASSUME WorksAssumption ==
    \A w \in Works : /\ w.inputs \subseteq Rep /\ w.outputs \subseteq Rep
                     /\ w.outputs # {} /\ w.inputs \cap w.outputs = {}
ASSUME ExtractionsAssumption == Extractions \in [Rep -> SUBSET Seq(Edge)]
ASSUME BoundsAssumption ==
    MaxDepth \in Nat /\ MaxDependencies \in Nat /\ MaxRevisions \in Nat

VARIABLES
    present,    \* representations that are in the file
    resPrint,   \* current fingerprint of each resource, or None
    repPrint,   \* current fingerprint of each representation and domain, or None
    dirty,      \* representations marked for recomputation
    renewed,    \* domains recorded since a resource of the representation changed
    deps,       \* dependency set of each representation
    past,       \* the contents that each representation has had on record
    described,  \* the contents of the source that its set was extracted from
    belated,    \* sources that had other contents when their set was recorded
    acts,       \* activities with their edges and captured evidence
    witness,    \* what there was to be captured when an activity was recorded
    caller,     \* the aggregate that each host is about to record
    overlapped, \* an observation was recorded while a host was computing
    revisions

prints  == <<resPrint, repPrint, dirty, renewed, past>>
sources == <<deps, described, belated>>
known   == <<present, prints, sources, acts, witness>>
vars    == <<known, caller, overlapped, revisions>>

NoSet     == [recorded |-> FALSE, current |-> FALSE, edges |-> <<>>]
Observed(edges) == [recorded |-> TRUE, current |-> TRUE, edges |-> edges]
NoCapture == [r \in {} |-> None]
NoPrint   == [d \in Domain |-> None]
Unused    == [inputs |-> {}, outputs |-> {}, prints |-> NoCapture, paths |-> NoCapture]
NoWitness == [needs |-> {}, contents |-> NoCapture, clean |-> FALSE]
Idle      == [busy |-> FALSE, rep |-> None, domain |-> None, resource |-> None,
              value |-> None, print |-> None]

(* The fingerprint of a representation in a domain is a function of its    *)
(* members'.                                                               *)
Aggregate(values, q, d) == [x \in Members(q) |-> Reads[d][values[x]]]
Known(values, q)        == \A x \in Members(q) : values[x] # None

Noted(values, q) == [x \in Members(q) |-> values[x]]
RecordedIn(q)    == {d \in Domain : repPrint[q][d] # None}
-----------------------------------------------------------------------------
(* Required dependencies.                                                  *)

Required(q)  == {i \in DOMAIN deps[q].edges : deps[q].edges[i].required}
Stale(q)     == deps[q].recorded /\ ~deps[q].current
Resolved(edges) == {edges[i].target : i \in DOMAIN edges} \ {None}

(* The closure of a set of representations, as a set.                      *)
Needs(S) ==
    LET closed(T) == \A q \in T : \A i \in Required(q) :
                        deps[q].edges[i].target \in T \cup {None}
    IN {r \in Rep : \A T \in SUBSET Rep : S \subseteq T /\ closed(T) => r \in T}

(* The capture of an activity input walks the same edges depth first, each *)
(* target once, and stores a path for every target: 0 with its fingerprint,*)
(* or why the closure is not known behind it.                              *)
Ok == 0  NeedsExtraction == 1  Unresolved == 2  DepthTruncated == 3
TooMany == 4

Path(status, subject, trail) ==
    [status |-> status, subject |-> subject, trail |-> trail,
     print |-> IF status = Ok THEN repPrint[subject] ELSE NoPrint]

Branches(q, trail) ==
    LET taken == SelectSeq([i \in DOMAIN deps[q].edges |-> i], LAMBDA i : i \in Required(q))
    IN [n \in DOMAIN taken |->
           [source |-> q, position |-> taken[n], edge |-> deps[q].edges[taken[n]],
            before |-> trail]]

Begun(q) ==
    IF Stale(q)
    THEN [todo |-> <<>>, visited |-> {q}, count |-> 0,
          paths |-> <<Path(NeedsExtraction, q, <<>>)>>]
    ELSE [todo |-> Branches(q, <<>>), visited |-> {q}, count |-> 0, paths |-> <<>>]

(* Variant: what does not fit any more is left out.                        *)
Skips_Full(k, target) == target \in k.visited \/ k.count = MaxDependencies

Skips(k, target) == target \in k.visited

Verdict(k, target, trail) ==
    IF target = None THEN Unresolved
    ELSE IF k.count = MaxDependencies THEN TooMany
    ELSE IF Stale(target) THEN NeedsExtraction
    ELSE IF Len(trail) = MaxDepth /\ Required(target) # {} THEN DepthTruncated
    ELSE Ok

(* One edge of the walk: k.todo is what is left of it, in order.           *)
CaptureStep(k) ==
    IF k.todo = <<>> THEN k ELSE
    LET b       == Head(k.todo)
        target  == b.edge.target
        trail   == Append(b.before, [source |-> b.source, position |-> b.position,
                                     edge |-> b.edge])
        verdict == Verdict(k, target, trail)
        subject == IF verdict = Unresolved THEN b.source ELSE target
        visits  == verdict \notin {Unresolved, TooMany}
    IN IF Skips(k, target) THEN [k EXCEPT !.todo = Tail(@)]
       ELSE [todo    |-> (IF verdict = Ok THEN Branches(target, trail) ELSE <<>>)
                            \o Tail(k.todo),
             visited |-> IF visits THEN k.visited \cup {target} ELSE k.visited,
             count   |-> IF visits THEN k.count + 1 ELSE k.count,
             paths   |-> Append(k.paths, Path(verdict, subject, trail))]

(* No edge is taken twice: as many steps as there are required edges.      *)
Captured(q) ==
    LET run[n \in Nat] == IF n = 0 THEN Begun(q) ELSE CaptureStep(run[n - 1])
    IN run[Cardinality(UNION {{r} \X Required(r) : r \in Rep})].paths
-----------------------------------------------------------------------------
(* Provenance.                                                             *)

Children(work, S) ==
    UNION {work[a].outputs : a \in {b \in Activity : work[b].inputs \cap S # {}}}

Descendants(work, S) ==
    {r \in Rep : \A T \in SUBSET Rep : S \subseteq T /\ Children(work, T) \subseteq T => r \in T}

(* Variant: only the activities that use the outputs themselves.           *)
CreatesCycle_Direct(work, a) == Children(work, work[a].outputs) \cap work[a].inputs # {}

CreatesCycle(work, a) == Descendants(work, work[a].outputs) \cap work[a].inputs # {}

(* create_activity: the rows of a refused activity are deleted again.      *)
Recorded(w) ==
    [inputs  |-> w.inputs, outputs |-> w.outputs,
     prints  |-> [q \in w.inputs \cup w.outputs |-> repPrint[q]],
     paths   |-> [q \in w.inputs |-> Captured(q)]]
-----------------------------------------------------------------------------
(* Artifact evaluation.                                                    *)

Current == 0  Indeterminate == 1  StaleArtifact == 2  Diverged == 3

Worst(S) == CHOOSE s \in S : \A t \in S : t <= s

CompareIn(captured, current, changed) ==
    IF captured = None \/ current = None THEN Indeterminate
    ELSE IF captured = current THEN Current ELSE changed

(* In every domain of which there was or is a fingerprint.                 *)
Compare(captured, current, changed) ==
    LET either == {d \in Domain : captured[d] # None \/ current[d] # None}
    IN IF either = {} THEN Indeterminate
       ELSE Worst({CompareIn(captured[d], current[d], changed) : d \in either})

EdgeState(a, q, changed) ==
    IF q \in dirty THEN changed ELSE Compare(acts[a].prints[q], repPrint[q], changed)

SegmentState(g) ==
    IF ~deps[g.source].recorded THEN StaleArtifact
    ELSE IF Stale(g.source) THEN Indeterminate
    ELSE IF /\ g.position \in DOMAIN deps[g.source].edges
            /\ deps[g.source].edges[g.position] = g.edge
         THEN Current ELSE StaleArtifact

(* The first segment that is not as it was decides.                        *)
PathState(p) ==
    LET broken == {i \in DOMAIN p.trail : SegmentState(p.trail[i]) # Current}
    IN IF p.status # Ok THEN Indeterminate
       ELSE IF broken # {}
            THEN SegmentState(p.trail[CHOOSE i \in broken : \A k \in broken : i <= k])
       ELSE IF p.subject \in dirty THEN StaleArtifact
       ELSE Compare(p.print, repPrint[p.subject], StaleArtifact)

Producers(r) == {a \in Activity : r \in acts[a].outputs}

Downstream(s) == IF s \in {StaleArtifact, Diverged} THEN StaleArtifact ELSE s

(* What the edges of activity a say of its output r, and what is known     *)
(* upstream of it.                                                         *)
Evidences(a, r) ==
    {EdgeState(a, r, Diverged)}
        \cup {EdgeState(a, q, StaleArtifact) : q \in acts[a].inputs}
        \cup UNION {{PathState(acts[a].paths[q][i]) : i \in DOMAIN acts[a].paths[q]} :
                       q \in acts[a].inputs}

(* With n generations of activities to look at.                            *)
Knowledge[n \in Nat] ==
    IF n = 0 THEN [r \in Rep |-> Indeterminate]
    ELSE LET upstream == Knowledge[n - 1]
         IN [r \in Rep |->
                IF Cardinality(Producers(r)) # 1 THEN Indeterminate
                ELSE LET a == CHOOSE b \in Activity : b \in Producers(r)
                     IN Worst(Evidences(a, r) \cup
                              {Downstream(upstream[q]) :
                                  q \in {i \in acts[a].inputs : Producers(i) # {}}})]

Evaluate(r) == Knowledge[Cardinality(Rep)][r]
-----------------------------------------------------------------------------
(* A production with everything imported, or everything but the late       *)
(* representations, with a fingerprint in each domain, and the             *)
(* dependencies of some representations extracted.                         *)
Init ==
    /\ present \in {Rep, Rep \ Late}
    /\ \E v \in Value :
          LET values == [x \in Resource |-> v]
          IN /\ resPrint = [x \in Resource |-> IF Owner[x] \in present THEN v ELSE None]
             /\ renewed = [q \in Rep |-> IF q \in present THEN Domains[q] ELSE {}]
             /\ repPrint = [q \in Rep |-> [d \in Domain |->
                               IF d \in renewed[q] THEN Aggregate(values, q, d) ELSE None]]
             /\ described = [q \in Rep |-> [x \in Members(q) |-> v]]
             /\ past = [q \in Rep |-> IF q \in present THEN {described[q]} ELSE {}]
    /\ dirty = {} /\ belated = {}
    /\ deps \in [Rep -> {NoSet} \cup {Observed(e) : e \in UNION {Extractions[q] : q \in Rep}}]
    /\ \A q \in Rep : deps[q] # NoSet => /\ q \in present /\ deps[q].edges \in Extractions[q]
                                         /\ Resolved(deps[q].edges) \subseteq present
    /\ acts = [a \in Activity |-> Unused]
    /\ witness = [a \in Activity |-> NoWitness]
    /\ caller = [c \in Caller |-> Idle]
    /\ overlapped = FALSE /\ revisions = 0

Revise == revisions < MaxRevisions /\ revisions' = revisions + 1

(* An import brings its resources, with fingerprints or without, and       *)
(* aggregates of them in some domains.                                     *)
Import(q) ==
    /\ q \notin present /\ Revise
    /\ present' = present \cup {q}
    /\ \E values \in Contents(q) \cup {[x \in Members(q) |-> None]}, D \in SUBSET Domains[q] :
          /\ D # {} => values \in Contents(q)
          /\ resPrint' = [x \in Resource |-> IF Owner[x] = q THEN values[x] ELSE resPrint[x]]
          /\ repPrint' = [repPrint EXCEPT ![q] =
                             [d \in Domain |-> IF d \in D THEN Aggregate(values, q, d) ELSE None]]
          /\ renewed' = [renewed EXCEPT ![q] = D]
          /\ past' = [past EXCEPT ![q] = {values}]
    /\ UNCHANGED <<dirty, sources, acts, witness, caller, overlapped>>

(* record_resource_fingerprint: a new value marks the owner.               *)
MarkedBy(x, v) == IF resPrint[x] = v THEN dirty ELSE dirty \cup {Owner[x]}

(* A host records what it has read from a file, and leaves the aggregate   *)
(* for later.                                                              *)
ObserveResource(x, v) ==
    /\ Owner[x] \in present /\ resPrint[x] # v /\ Revise
    /\ resPrint' = [resPrint EXCEPT ![x] = v]
    /\ past' = [past EXCEPT ![Owner[x]] = @ \cup {Noted(resPrint', Owner[x])}]
    /\ dirty' = MarkedBy(x, v)
    /\ overlapped' = (overlapped \/ \E c \in Caller : caller[c].busy)
    /\ UNCHANGED <<present, repPrint, renewed, sources, acts, witness, caller>>

(* A host computes an aggregate from the recorded fingerprints, and from   *)
(* what it has just read of one of the resources if there is one.  (Under  *)
(* the bound: nobody computes what could not be recorded any more.)        *)
Load(c, q, d, x, v) ==
    LET values == IF x = None THEN resPrint ELSE [resPrint EXCEPT ![x] = v]
    IN /\ ~caller[c].busy /\ q \in present /\ d \in Domains[q] /\ revisions < MaxRevisions
       /\ x \in Members(q) \cup {None} /\ Known(values, q)
       /\ caller' = [caller EXCEPT ![c] =
                        [busy |-> TRUE, rep |-> q, domain |-> d, resource |-> x, value |-> v,
                         print |-> Aggregate(values, q, d)]]
       /\ overlapped' = (overlapped \/ \E b \in Caller : caller[b].busy)
       /\ UNCHANGED <<known, revisions>>

(* Variant: the dependency set stays as it is.                             *)
RecordPrint_KeepsSet(q, d, p, marks) ==
    IF repPrint[q][d] = p /\ q \notin marks
    THEN dirty' = marks /\ UNCHANGED <<repPrint, deps>>
    ELSE /\ repPrint' = [repPrint EXCEPT ![q][d] = p]
         /\ dirty' = marks \ {q} /\ UNCHANGED deps

(* record_representation_fingerprint, with the markers the transaction has *)
(* left so far.  The marker goes whatever the domain is and whether its    *)
(* fingerprint has changed or not.                                         *)
RecordPrint(q, d, p, marks) ==
    IF repPrint[q][d] = p /\ q \notin marks
    THEN dirty' = marks /\ UNCHANGED <<repPrint, deps>>
    ELSE /\ repPrint' = [repPrint EXCEPT ![q][d] = p]
         /\ dirty' = marks \ {q}
         /\ deps' = [deps EXCEPT ![q].current = FALSE]

(* One transaction: the resource, if there is one, and the aggregate.      *)
Record(c) ==
    LET k == caller[c]
        marks == IF k.resource = None THEN dirty ELSE MarkedBy(k.resource, k.value)
    IN /\ k.busy /\ Revise
       /\ RecordPrint(k.rep, k.domain, k.print, marks)
       /\ resPrint' = IF k.resource = None THEN resPrint
                      ELSE [resPrint EXCEPT ![k.resource] = k.value]
       /\ past' = [past EXCEPT ![k.rep] = @ \cup {Noted(resPrint', k.rep)}]
       /\ renewed' = [renewed EXCEPT ![k.rep] = {k.domain} \cup IF k.rep \in marks THEN {} ELSE @]
       /\ caller' = [caller EXCEPT ![c] = Idle]
       /\ UNCHANGED <<present, described, belated, acts, witness, overlapped>>

(* The host dies, or its transaction is refused.                           *)
GiveUp(c) ==
    /\ caller[c].busy
    /\ caller' = [caller EXCEPT ![c] = Idle]
    /\ UNCHANGED <<known, overlapped, revisions>>

(* record_dependency_set: the same current set again is a no-op, and a     *)
(* target that is not there refuses the whole set.  The host has extracted *)
(* it before its transaction began, from any contents the source has had;  *)
(* nothing is asked about what the source contains by now.                 *)
RecordDependencySet(q, edges, contents) ==
    /\ q \in present /\ Resolved(edges) \subseteq present
    /\ deps[q] # Observed(edges) /\ Revise
    /\ deps' = [deps EXCEPT ![q] = Observed(edges)]
    /\ described' = [described EXCEPT ![q] = contents]
    /\ belated' = IF contents = Noted(resPrint, q) THEN belated \ {q} ELSE belated \cup {q}
    /\ UNCHANGED <<present, prints, acts, witness, caller, overlapped>>

CreateActivity(a, w) ==
    LET needs == Needs(w.inputs)
        shown == needs \cup w.outputs
    IN /\ acts[a] = Unused /\ w.inputs \cup w.outputs \subseteq present /\ Revise
       /\ acts' = [acts EXCEPT ![a] = Recorded(w)]
       /\ ~CreatesCycle(acts', a)
       /\ witness' = [witness EXCEPT ![a] =
                         [needs    |-> needs,
                          contents |-> [q \in shown |-> Noted(resPrint, q)],
                          clean    |-> /\ shown \cap dirty = {}
                                       /\ \A q \in shown : RecordedIn(q) = renewed[q]]]
       /\ UNCHANGED <<present, prints, sources, caller, overlapped>>

Next ==
    \/ \E q \in Rep :
          \/ Import(q)
          \/ \E edges \in Extractions[q], contents \in past[q] :
                RecordDependencySet(q, edges, contents)
    \/ \E x \in Resource, v \in Value : ObserveResource(x, v)
    \/ \E c \in Caller :
          \/ \E q \in Rep, d \in Domain, x \in Resource, v \in Value : Load(c, q, d, x, v)
          \/ \E q \in Rep, d \in Domain : Load(c, q, d, None, None)
          \/ Record(c) \/ GiveUp(c)
    \/ \E a \in Activity, w \in Works : CreateActivity(a, w)

Spec == Init /\ [][Next]_vars
-----------------------------------------------------------------------------
(* The tables; only what is present is recorded about; a set that is not   *)
(* recorded is not current.                                                *)
TypeOK ==
    /\ present \in SUBSET Rep /\ dirty \subseteq present
    /\ resPrint \in [Resource -> Value \cup {None}]
    /\ \A q \in Rep : /\ repPrint[q] \in [Domain -> Views(q) \cup {None}]
                      /\ renewed[q] \subseteq RecordedIn(q)
    /\ belated \subseteq present
    /\ \A q \in Rep : /\ \/ deps[q] = NoSet
                         \/ /\ deps[q].recorded /\ q \in present
                            /\ deps[q].edges \in Extractions[q]
                      /\ Resolved(deps[q].edges) \subseteq present
    /\ \A a \in Activity : acts[a].inputs \cup acts[a].outputs \subseteq present
    /\ \A c \in Caller : caller[c].busy => caller[c].rep \in present
    /\ overlapped \in BOOLEAN /\ revisions \in 0..MaxRevisions

(* No representation descends from itself (ADR 0005), whatever sequence of *)
(* accepted and refused activities has been recorded.                      *)
ProvenanceIsAcyclic ==
    \A r \in Rep : r \notin Descendants(acts, Children(acts, {r}))

(* ADR 0021: callers "cannot mistake an old aggregate digest for current   *)
(* evidence".  Without a marker, the aggregates recorded since the last    *)
(* change are those of what is recorded of the members; and if there is    *)
(* any aggregate, one of them is.  (With one domain that is all there is.  *)
(* With several the rest may be old: the first that is recorded anew takes *)
(* the marker of all.)                                                     *)
AggregateIsCurrent ==
    \A q \in Rep \ dirty :
        /\ RecordedIn(q) # {} => renewed[q] # {}
        /\ \A d \in renewed[q] : repPrint[q][d] = Aggregate(resPrint, q, d)

(* Evidence that bears no mark is evidence of what is recorded now.  An    *)
(* aggregate is, in the sense above, as long as nothing is recorded while  *)
(* a host computes.  A dependency set that says it is current was          *)
(* extracted from these contents (dependencies.md: a new fingerprint marks *)
(* the set, only a new set is current again), whoever overlaps with whom,  *)
(* unless the contents had changed already when the set came to be         *)
(* recorded, which the code does not look for.                             *)
EvidenceIsOfNow ==
    /\ ~overlapped => AggregateIsCurrent
    /\ \A q \in present \ (dirty \cup belated) :
          deps[q].current => described[q] = Noted(resPrint, q)

(* An artifact is reported current only if its inputs, everything they     *)
(* required when its activity was recorded, at whatever depth, and the     *)
(* artifact itself still have the content they had then, as the domains    *)
(* see it that were recorded since the last change.  Out of its reach are  *)
(* hosts that overlap, and an activity recorded while a fingerprint that   *)
(* it captured was marked or old.                                          *)
CurrentIsTrue ==
    \A r \in Rep : \A a \in Producers(r) :
        ~overlapped /\ witness[a].clean /\ Evaluate(r) = Current
            => \A q \in witness[a].needs \cup {r} : \A d \in renewed[q] :
                  Aggregate(resPrint, q, d) = Aggregate(witness[a].contents[q], q, d)
=============================================================================
