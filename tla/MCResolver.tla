----------------------------- MODULE MCResolver -----------------------------
EXTENDS Resolver, TLC

MCSizeOf == [v \in FileVersion |-> CASE v \in {"x", "y"} -> 1 [] v = "z" -> 2 [] OTHER -> 3]
MCDigestOf == [v \in Version |->
    CASE v = "late" -> "long" [] v = "torso" -> "take" [] OTHER -> v]
MCFramesIn == [v \in FolderVersion |->
    CASE v = "take" -> 1..4 [] v = "torso" -> {1, 2, 4} [] v = "reel" -> 5..9]
MCDeclared == [x \in SequenceResource |-> IF x = "seq" THEN 1..4 ELSE 5..9]
MCSampled  == [x \in SequenceResource |-> IF x = "seq" THEN {1, 2, 4} ELSE {5, 7, 9}]
MCMembersOf == [rep \in Representation |-> IF rep = "span" THEN <<"one", "two">> ELSE <<rep>>]
MCUnder == [r \in Root |-> IF r = "day" THEN <<"b">> ELSE <<"a", "b", "e">>]
MCPlaceOrder == <<"a", "b", "c", "d", "e", "f">>
MCResourceOrder == <<"clip", "seq", "one", "two", "reel">>
MCRootOrder == <<"day", "vol">>
MCFirstDisk == [u \in {"a", "b", "c", "d", "f"} |->
    CASE u = "a" -> "z" [] u = "b" -> "y" [] u = "c" -> "late" [] u = "d" -> "take" [] OTHER -> "reel"]
MCFirstPlaces == [x \in {"seq", "one", "two", "reel"} |->
    CASE x = "seq" -> "d" [] x = "one" -> "b" [] x = "two" -> "c" [] OTHER -> "f"]
Identical == Permutations(Searcher)
MCMappings == {Root, {"vol"}}
=============================================================================
