------------------------------ MODULE FfiStaging ------------------------------
(***************************************************************************)
(* What the handles of FfiTransactions collect, and what a commit makes of *)
(* it.  A staging call validates its own arguments only, hands out the     *)
(* identity of what it will create, and appends a mutation; whether the    *)
(* mutation fits the file is found out by the replay.  Completing a job    *)
(* binds an output and an activity that are already in the list, and so    *)
(* takes two mutations out of the list and puts one in.                    *)
(*                                                                         *)
(* A file is a set of facts.  A mutation needs some, must not find others, *)
(* makes some and drops some.  Identities are random in the code: here the *)
(* handle and the number of the call.  Content is left out: a fingerprint  *)
(* recorded is one that differs, a metadata property has values or none.   *)
(***************************************************************************)
EXTENDS FfiTransactions, SequencesExt

CONSTANTS
    Old,        \* the identity of everything the file holds at first
    Kind,       \* kinds of representations
    Instant,    \* times a host may name
    MaxCalls,   \* bound: staging calls, over all handles
    MaxOther    \* bound: those that have no part in a completion

ASSUME InstantAssumption == Instant \subseteq Nat
ASSUME CallBounds == MaxCalls \in Nat /\ MaxOther \in Nat

VARIABLES
    calls,      \* what the host has asked of each handle, in its order
    staged,     \* the mutations of each handle
    store       \* the facts of the file

stagingVars == <<calls, staged, store>>
svars == <<txnVars, stagingVars>>

Identity == {Old} \cup (Txn \X (1..MaxCalls))

Asset(a)    == <<"asset", a>>
Rep(r)      == <<"representation", r>>
Root(r)     == <<"root", r>>
Enabled(r)  == <<"enabled", r>>
Locator(l)  == <<"locator", l>>
Named(x)    == <<"identifier", x>>
Valued(x)   == <<"metadata", x>>
Fingerprint(r) == <<"fingerprint", r>>
Dirty(r)    == <<"recompute", r>>
Depends(r)  == <<"dependency set", r>>
Extracted(r) == <<"dependency set is current", r>>
Activity(a) == <<"activity", a>>
Derived(i, o)  == <<"derived", i, o>>
Captured(a, r) == <<"captured", a, r>>
Unfinished(j)  == <<"unfinished", j>>
Request(j, asset, kind, inputs) == <<"request", j, asset, kind, inputs>>
Holder(j, c)   == <<"holder", j, c>>
Leased(j, now) == <<"leased", j, now>>     \* the claim is valid at this time
Ended(j, how)  == <<"ended", j, how>>
Never          == <<"never">>

(* One asset with a representation, a root, and a job that is claimed.     *)
FirstFacts ==
    {Asset(Old), Rep(Old), Root(Old), Enabled(Old), Locator(Old),
     Request(Old, Old, CHOOSE k \in Kind : TRUE, {Old}), Unfinished(Old),
     Holder(Old, Old), Leased(Old, 0)}

SInit ==
    /\ TxnInit
    /\ calls = [t \in Txn |-> <<>>] /\ staged = [t \in Txn |-> <<>>]
    /\ store = FirstFacts
-----------------------------------------------------------------------------
(* The staging calls.  gives is what the identity handed out names.        *)
Mutation(op, gives, id, about, needs, lacks, makes, drops) ==
    [op |-> op, gives |-> gives, id |-> id, about |-> about,
     needs |-> needs, lacks |-> lacks, makes |-> makes, drops |-> drops]

New(t)       == <<t, Len(calls[t]) + 1>>
Known(t, g)  == {Old} \cup {<<t, i>> : i \in {i \in DOMAIN calls[t] : calls[t][i].gives = g}}
Change(t, op, needs, lacks, makes, drops) ==
    Mutation(op, "nothing", New(t), <<>>, needs, lacks, makes, drops)

ImportMedia(t) ==
    {Mutation("import", "asset", New(t), <<>>, {}, {}, {Asset(New(t)), Rep(New(t))}, {})}

AddRepresentation(t) ==
    {Mutation("representation", "representation", New(t), [asset |-> a, kind |-> k],
              {Asset(a)}, {}, {Rep(New(t))}, {}) : a \in Known(t, "asset"), k \in Kind}

AddSingleFileRepresentation(t)    == AddRepresentation(t)
AddImageSequenceRepresentation(t) == AddRepresentation(t)
AddOrderedPartsRepresentation(t)  == AddRepresentation(t)
AddPackageRepresentation(t)       == AddRepresentation(t)

AddMediaRoot(t) ==
    {Mutation("root", "root", New(t), <<>>, {}, {}, {Root(New(t)), Enabled(New(t))}, {})}

SetMediaRootEnabled(t) ==
    {Change(t, "set root", {Root(r)}, {}, {Enabled(r)} \cap on, {Enabled(r)} \ on) :
        r \in Known(t, "root"), on \in {{}, {Enabled(x) : x \in Known(t, "root")}}}

RemoveMediaRoot(t) ==
    {Change(t, "remove root", {Root(r)}, {}, {}, {Root(r), Enabled(r)}) : r \in Known(t, "root")}

(* Resources and locators are known from queries only.                     *)
ConfirmLocator(t) ==
    {Change(t, "locator", {Rep(Old)}, {}, {Locator(New(t))}, {})}

(* The name of the root is not looked up.                                  *)
ConfirmLocatorUnderRoot(t) ==
    {Change(t, "locator under root", {Rep(Old)}, {}, {Locator(New(t))}, {})}

RetireLocator(t) ==
    {Change(t, "retire", {Locator(Old)}, {}, {}, {Locator(Old)})}

RecordResourceFingerprint(t) ==
    {Change(t, "resource fingerprint", {Rep(Old)}, {}, {Dirty(Old)}, {})}

RecordRepresentationFingerprint(t) ==
    {Change(t, "fingerprint", {Rep(r)}, {}, {Fingerprint(r)}, {Dirty(r), Extracted(r)}) :
        r \in Known(t, "representation")}

RecordDependencySet(t) ==
    {Change(t, "dependencies", {Rep(r), Rep(target)}, {}, {Depends(r), Extracted(r)}, {}) :
        r \in Known(t, "representation"), target \in Known(t, "representation")}

Targets(t) ==
    {Asset(a) : a \in Known(t, "asset")} \cup {Rep(r) : r \in Known(t, "representation")}

AddExternalIdentifier(t) ==
    {Change(t, "identifier", {x}, {Named(x)}, {Named(x)}, {}) : x \in Targets(t)}

RemoveExternalIdentifier(t) ==
    {Change(t, "remove identifier", {Named(x)}, {}, {}, {Named(x)}) : x \in Targets(t)}

AddMetadataValue(t) ==
    {Change(t, "metadata", {x}, {}, {Valued(x)}, {}) : x \in Targets(t)}

RemoveMetadataProperty(t) ==
    {Change(t, "remove metadata", {Valued(x)}, {}, {}, {Valued(x)}) : x \in Targets(t)}

(* A job may name a root its output is to be put under.                    *)
RequestJob(t) ==
    {Mutation("request", "job", New(t), <<>>,
              {Asset(a)} \cup {Rep(r) : r \in inputs} \cup {Root(r) : r \in target}, {},
              {Request(New(t), a, k, inputs), Unfinished(New(t))}, {}) :
        a \in Known(t, "asset"), k \in Kind,
        inputs \in {{}} \cup {{r} : r \in Known(t, "representation")},
        target \in {{}} \cup {{r} : r \in Known(t, "root")}}

Lease(j, until)   == {Leased(j, n) : n \in {n \in Instant : n < until}}
Terms             == {p \in [now : Instant, until : Instant] : p.now < p.until}
Holds(j)          == {Holder(j, c) : c \in Identity} \cup {Leased(j, n) : n \in Instant}

ClaimJob(t) ==
    {Mutation("claim", "claim", New(t), <<>>,
              {Unfinished(j)}, {Leased(j, term.now)},
              {Holder(j, New(t))} \cup Lease(j, term.until), Holds(j)) :
        j \in Known(t, "job"), term \in Terms}

RenewJobClaim(t) ==
    {Change(t, "renew", {Holder(j, c), Leased(j, term.now)}, {Leased(j, term.until - 1)},
            Lease(j, term.until), {}) :
        j \in Known(t, "job"), c \in Known(t, "claim"), term \in Terms}

ReleaseJobClaim(t) ==
    {Change(t, "release", {Holder(j, c)}, {}, {}, Holds(j)) :
        j \in Known(t, "job"), c \in Known(t, "claim")}

FailJob(t) ==
    {Change(t, "fail", {Holder(j, c), Leased(j, now)}, {},
            {Ended(j, "failed")}, Holds(j) \cup {Unfinished(j)}) :
        j \in Known(t, "job"), c \in Known(t, "claim"), now \in Instant}

CancelJob(t) ==
    {Change(t, "cancel", {Unfinished(j)}, {},
            {Ended(j, "cancelled")}, Holds(j) \cup {Unfinished(j)}) : j \in Known(t, "job")}

CreateActivity(t) ==
    {Mutation("activity", "activity", New(t), [inputs |-> inputs, outputs |-> {o}],
              {Rep(r) : r \in inputs \cup {o}}, {},
              {Activity(New(t))} \cup {Derived(i, o) : i \in inputs}, {}) :
        o \in Known(t, "representation"),
        inputs \in {{}} \cup {{r} : r \in Known(t, "representation")}}
-----------------------------------------------------------------------------
(* What completing a job asks of the file besides its two parts.           *)
Completes(j, c, now, output, activity) ==
    {Holder(j, c), Leased(j, now),
     Request(j, output.about.asset, output.about.kind, activity.about.inputs)}
    \cup IF activity.about.outputs = {output.id} THEN {} ELSE {Never}

Bound(j, c, now, output, activity) ==
    Mutation("complete", "nothing", activity.id, activity.about,
             output.needs \cup (activity.needs \ output.makes)
                 \cup Completes(j, c, now, output, activity), {},
             output.makes \cup activity.makes \cup {Ended(j, "succeeded")},
             Holds(j) \cup {Unfinished(j)})

IndexOf(list, op, id) == CHOOSE i \in DOMAIN list : list[i].op = op /\ list[i].id = id
Holding(list, op)     == {list[i].id : i \in {i \in DOMAIN list : list[i].op = op}}

(* Variant: the output is taken out before the activity, whose index is    *)
(* then one too high.                                                      *)
Rebound_OutputFirst(list, output, activity, completion) ==
    LET i == IndexOf(list, "representation", output)
        k == IndexOf(list, "activity", activity)
        rest == RemoveAt(list, i)
    IN InsertAt(IF k \in DOMAIN rest THEN RemoveAt(rest, k) ELSE rest, i, completion)

(* The completion stands where its output stood.                           *)
Rebound(list, output, activity, completion) ==
    LET i == IndexOf(list, "representation", output)
        k == IndexOf(list, "activity", activity)
    IN InsertAt(RemoveAt(RemoveAt(list, k), i), i, completion)
-----------------------------------------------------------------------------
(* What is derived from the members of s, at most three steps on.          *)
Reached(edges, s) ==
    LET After(x) == x \cup {e[3] : e \in {e \in edges : e[2] \in x}}
    IN After(After(After({e[3] : e \in {e \in edges : e[2] \in s}})))

Cyclic(facts) ==
    LET edges == {f \in facts : f[1] = "derived"}
    IN \E e \in edges : e[2] \in Reached(edges, {e[2]})

Captures(m, facts) ==
    IF m.op \notin {"activity", "complete"} THEN {}
    ELSE {Captured(m.id, r) : r \in {r \in m.about.inputs \cup m.about.outputs : Fingerprint(r) \in facts}}

Fits(m, facts) ==
    /\ m.needs \subseteq facts /\ m.lacks \cap facts = {}
    /\ m.op \in {"activity", "complete"} => ~Cyclic(facts \cup m.makes)

Refused == {Never}

(* One mutation after the other; the first that does not fit ends it.      *)
Replay(list, facts) ==
    FoldLeft(LAMBDA s, m : IF s = Refused \/ ~Fits(m, s) THEN Refused
                           ELSE (s \ m.drops) \cup m.makes \cup Captures(m, s),
             facts, list)
-----------------------------------------------------------------------------
Parts == {"representation", "activity", "completion"}
AllCalls == {x \in Txn \X (1..MaxCalls) : x[2] \in DOMAIN calls[x[1]]}
Others   == {x \in AllCalls : calls[x[1]][x[2]].op \notin Parts}

Staging(t) ==
    UNION {ImportMedia(t), AddSingleFileRepresentation(t), AddImageSequenceRepresentation(t),
           AddOrderedPartsRepresentation(t), AddPackageRepresentation(t),
           AddMediaRoot(t), SetMediaRootEnabled(t), RemoveMediaRoot(t),
           ConfirmLocator(t), ConfirmLocatorUnderRoot(t), RetireLocator(t),
           RecordResourceFingerprint(t), RecordRepresentationFingerprint(t),
           RecordDependencySet(t), AddExternalIdentifier(t), RemoveExternalIdentifier(t),
           AddMetadataValue(t), RemoveMetadataProperty(t),
           RequestJob(t), ClaimJob(t), RenewJobClaim(t), ReleaseJobClaim(t),
           FailJob(t), CancelJob(t), CreateActivity(t)}

Asked(t, m) ==
    /\ Cardinality(AllCalls) < MaxCalls
    /\ m.op \notin Parts => Cardinality(Others) < MaxOther
    /\ calls' = [calls EXCEPT ![t] = Append(@, m)]

StageMutation(t) ==
    /\ Stage(t)
    /\ \E m \in Staging(t) :
          /\ Asked(t, m)
          /\ staged' = [staged EXCEPT ![t] = Append(@, m)]
    /\ UNCHANGED store

(* The output must still be in the list, and stand before its activity.    *)
CompleteJob(t) ==
    /\ Bind(t)
    /\ \E output \in Holding(staged[t], "representation"),
          activity \in Holding(staged[t], "activity"),
          j \in Known(t, "job"), c \in Known(t, "claim"), now \in Instant :
          LET i == IndexOf(staged[t], "representation", output)
              k == IndexOf(staged[t], "activity", activity)
              first == staged[t][i]
              last  == staged[t][k]
          IN /\ i < k
             /\ Asked(t, Mutation("completion", "nothing", New(t), last.about,
                                  Completes(j, c, now, first, last), {},
                                  {Ended(j, "succeeded")}, Holds(j) \cup {Unfinished(j)}))
             /\ staged' = [staged EXCEPT ![t] =
                              Rebound(@, output, activity, Bound(j, c, now, first, last))]
    /\ UNCHANGED store

(* A replay that does not fit cannot be stored; one that fits may still be *)
(* refused, by a busy file or at COMMIT.                                   *)
StoreReplay(t) ==
    /\ CommitStored(t)
    /\ Replay(staged[t], store) # Refused
    /\ store' = Replay(staged[t], store)
    /\ UNCHANGED <<calls, staged>>

(* A stored commit and a rollback empty the list, a refused commit leaves  *)
(* it to the release.                                                      *)
Finish(t) ==
    /\ CommitReturn(t) \/ Rollback(t) \/ Release(t)
    /\ staged' = [staged EXCEPT ![t] = IF mutations'[t] = 0 THEN <<>> ELSE @]
    /\ UNCHANGED <<calls, store>>

SNext == \E t \in Txn :
    \/ StageMutation(t) \/ CompleteJob(t) \/ StoreReplay(t) \/ Finish(t)
    \/ (Begin(t) \/ CommitReplay(t) \/ CommitRefused(t) \/ CommitPanics(t)) /\ UNCHANGED stagingVars

SSpec == SInit /\ [][SNext]_svars
-----------------------------------------------------------------------------
Plain(facts) == {f \in facts : f[1] # "captured"}

(* Each completion follows its activity, and that its output, at once.     *)
Together(t) ==
    \A i \in DOMAIN calls[t] : calls[t][i].op = "completion" =>
        /\ i > 2 /\ calls[t][i - 1].op = "activity" /\ calls[t][i - 2].op = "representation"
        /\ calls[t][i - 1].about = calls[t][i].about
        /\ calls[t][i - 1].about.outputs = {calls[t][i - 2].id}

(* The list means what the host said: whatever a commit of it would leave, *)
(* the host's calls would have left in the host's order, and nothing that  *)
(* was asked is lost, doubled or put before what it needs.  A completion   *)
(* stands earlier than the host asked for it, so it may be refused over a  *)
(* call in between, and may capture older fingerprints than the host       *)
(* expects; where nothing stands in between not even that differs.         *)
StagedMeansCalls ==
    \A t \in Txn : life[t] = "open" /\ call[t] # "stored" =>
        LET kept == Replay(staged[t], store)
            said == Replay(calls[t], store)
        IN /\ Len(staged[t]) = mutations[t]
           /\ kept # Refused => said # Refused /\ Plain(kept) = Plain(said)
           /\ Together(t) => kept = said
=============================================================================
