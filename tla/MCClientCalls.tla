---------------------------- MODULE MCClientCalls ----------------------------
(* ClientCalls for TLC.  The followers of the feed: job events, a media     *)
(* root and a link between two objects, alone and together; a consumer of   *)
(* everything, of one type and of two.  The clients that ask: every query,  *)
(* with writers of each detail, while up to four revisions are committed.   *)
EXTENDS ClientCalls

Asset == Id("asset", 1)
Rep(n) == Id("representation", n)
Res(n) == Id("resource", n)
Job == Id("job", 1)
Root == Id("media_root", 1)
E(type, fields) == [f \in DOMAIN fields \cup {"type"} |-> IF f = "type" THEN type ELSE fields[f]]
JobE(type) == <<E(type, [job |-> Job])>>

Requested == E("JobRequested", [job |-> Job])
Disabled  == E("MediaRootEnabledChanged", [media_root |-> Root, enabled |-> FALSE])
Link(n, r, at) == E("RepresentationResourceAdded",
                    [representation |-> Rep(n), resource |-> Res(r), position |-> at])

MCRevision == {<<Requested>>, <<Disabled>>, <<Link(1, 1, 0), Requested>>}
MCFilter == {{}, {"MediaRootEnabledChanged"},
             {"RepresentationResourceAdded", "MediaRootEnabledChanged"}}

(* Revisions as transactions publish them.                                  *)
Added(n) == << E("RepresentationAdded", [asset |-> Asset, representation |-> Rep(n)]),
               E("ResourceAdded", [resource |-> Res(n)]), Link(n, n, 0),
               E("LocatorAdded", [resource |-> Res(n), locator |-> Id("locator", n)]) >>
Import  == <<E("AssetImported", [asset |-> Asset])>> \o Added(1) \o Added(2)
Observed(n, v) ==
    << E("RepresentationFingerprintObserved",
         [representation |-> Rep(n), algorithm |-> "blake3", version |-> v]),
       E("ResourceFingerprintObserved",
         [resource |-> Res(n), algorithm |-> "blake3", version |-> v]) >>
Retired == <<E("LocatorRetired", [resource |-> Res(1), locator |-> Id("locator", 1)])>>
Edge(type, a, n, role) ==
    E(type, [activity |-> Id("activity", a), representation |-> Rep(n), role |-> role])
Worked(a, in, out) ==
    << E("ActivityCreated", [activity |-> Id("activity", a), kind |-> "transcode"]),
       Edge("ActivityInputAdded", a, in, "source"), Edge("ActivityOutputAdded", a, out, Null) >>
Recorded == <<E("DependencySetRecorded", [representation |-> Rep(1)])>>
Succeeded == Added(3) \o Worked(1, 1, 3) \o JobE("JobSucceeded")
RootE(type) == <<E(type, [media_root |-> Root])>>
Named(type, q) == <<E(type, [target |-> Rep(1), scheme |-> "imdb", value |-> "tt1",
                             qualifier |-> q])>>
Noted(type) == <<E(type, [target |-> Asset, vocabulary |-> "core", property |-> "title"])>>

Families == {"assets", "roots", "representations", "identifiers", "found", "metadata",
             "activities", "producing", "jobs", "dependencies", "revisions", "events"}

MCHistory == [f \in Families |->
    CASE f \in {"assets", "revisions"} -> {<<Import, Observed(1, 1)>>}
      [] f = "roots" -> {<<RootE("MediaRootAdded"), <<Disabled>>, RootE("MediaRootRemoved")>>}
      [] f = "representations" ->
            {<<Import, Observed(1, 1), Retired>>, <<Import, Observed(2, 1), Observed(2, 2)>>}
      [] f \in {"identifiers", "found"} ->
            {<<Import, Named("ExternalIdentifierAdded", Null), Named("ExternalIdentifierAdded", "q"),
               Named("ExternalIdentifierRemoved", Null)>>}
      [] f = "metadata" -> {<<Import, Noted("MetadataAddedOrReplaced"), Noted("MetadataRemoved")>>}
      [] f \in {"activities", "producing"} ->
            {<<Import, Worked(1, 1, 2), Observed(1, 1), Worked(2, 1, 2)>>,
             <<Import \o Worked(1, 1, 2) \o Observed(1, 1), Observed(1, 2), Worked(2, 2, 1)>>}
      [] f = "jobs" ->
            {<<Import, <<Requested>>, JobE("JobClaimed"), end>> :
                end \in {JobE("JobClaimRenewed"), JobE("JobClaimReleased"), JobE("JobFailed"),
                         Succeeded}}
            \cup {<<Import, <<Requested>>, JobE("JobCancelled")>>}
      [] f = "dependencies" ->
            {<<Import, Recorded, Observed(1, 1), Recorded>>,
             <<Import \o Recorded, Observed(1, 1) \o Recorded, Observed(1, 2)>>}
      [] f = "events" -> {<<h>> : h \in {Import, Succeeded \o Noted("MetadataRemoved"),
            Observed(1, 1) \o Retired \o <<Disabled>> \o Named("ExternalIdentifierAdded", "q")
            \o Noted("MetadataAddedOrReplaced") \o Recorded \o <<Requested>>}}]

MCSubject(f) ==
    CASE f = "representations" -> Asset       [] f = "identifiers" -> Rep(1)
      [] f = "found" -> <<"imdb", "tt1">>     [] f = "metadata" -> Asset
      [] f = "producing" -> Rep(2)            [] f = "dependencies" -> Rep(1)
      [] f = "revisions" -> 1                 [] f = "events" -> 1
      [] OTHER -> Null

MCCall == {[family |-> f, subject |-> MCSubject(f), details |-> d] :
              f \in Families, d \in {"bare", "full", "odd"}}

(* What the writers enter: text; numbers at and beyond their limits, with   *)
(* trailing zeros and unreduced, in a list at the greatest depth; a         *)
(* structure.  Numbers have four bits.                                      *)
V(kind, value) == [kind |-> kind, value |-> value]
MCWritten(details) ==
    CASE details = "bare" -> V("string", "text")
      [] details = "full" ->
            V("list", <<V("list", <<V("i64", 8), V("i64", -8), V("u64", 15), V("u64", 16),
                                    V("decimal", <<120, 2>>), V("decimal", <<-100, 3>>),
                                    V("decimal", <<0, 5>>), V("decimal", <<100, 0>>)>>),
                        V("list", <<V("rational", <<2, 4>>), V("rational", <<-6, 4>>),
                                    V("rational", <<-8, 8>>), V("rational", <<0, 7>>),
                                    V("rational", <<0, 8>>), V("rational", <<8, 3>>)>>),
                        V("language string", <<"text", "de">>)>>)
      [] OTHER -> V("struct", <<[name |-> "a", value |-> V("reference", Rep(1))],
                                [name |-> "b", value |-> V("list", <<>>)],
                                [name |-> "c", value |-> V("uri", "uri")]>>)

ASSUME WrittenAssumption ==
    /\ \A d \in {"bare", "full", "odd"} : Constructible(MCWritten(d))
    /\ Depth(MCWritten("full")) = MaxNesting
    /\ ~Constructible(V("rational", <<1, 16>>)) /\ ~Constructible(V("decimal", <<1, 4>>))
=============================================================================
