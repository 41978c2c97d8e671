--------------------------- MODULE EvidenceProofs ---------------------------
(***************************************************************************)
(* Proofs about Evidence for every set of representations, resources,      *)
(* activities, hosts and extractors.  Three layers: the tables and what    *)
(* the hosts hold are well formed (Formed); on top of it, what a lone host *)
(* is about to record is the aggregate of what will then be recorded       *)
(* (Lone), which makes EvidenceIsOfNow inductive; and a cycle that a new   *)
(* activity would close passes through that activity, so that the check of *)
(* its own descendants is enough (ProvenanceIsAcyclic).                    *)
(***************************************************************************)
EXTENDS Evidence, TLAPS

(* An aggregate, and what is noted of a representation, depend on the      *)
(* members alone.                                                          *)
LEMMA AggregateLocal ==
    ASSUME NEW q \in Rep, NEW f, NEW g, \A x \in Members(q) : f[x] = g[x]
    PROVE  /\ \A d \in Domain : Aggregate(f, q, d) = Aggregate(g, q, d)
           /\ Noted(f, q) = Noted(g, q)
BY DEF Aggregate, Noted

(* An aggregate of contents is a view of them.                             *)
LEMMA AggregateViews ==
    ASSUME NEW q \in Rep, NEW d \in Domain, NEW f, \A x \in Members(q) : f[x] \in Value
    PROVE  Aggregate(f, q, d) \in Views(q) /\ Aggregate(f, q, d) # None
<1>1. \A v \in Value : Reads[d][v] \in View
  BY DomainAssumption
<1>2. Aggregate(f, q, d) \in Views(q)
  BY <1>1 DEF Aggregate, Views
<1> QED
  BY <1>2, NoneAssumption

(* Nobody owns two: a change of one resource concerns its owner alone.     *)
LEMMA OtherMembers ==
    ASSUME NEW x \in Resource, NEW q \in Rep, q # Owner[x]
    PROVE  x \notin Members(q)
BY DEF Members
-----------------------------------------------------------------------------
(***************************************************************************)
(* The first layer.                                                        *)
(***************************************************************************)

DependencySet == [recorded : BOOLEAN, current : BOOLEAN, edges : Seq(Edge)]

(* What a host is about to record is about a representation that is in the *)
(* file, one of its resources if any, and complete.                        *)
CallOK(k) ==
    k.busy => /\ k.rep \in present
              /\ k.resource \in Members(k.rep) \cup {None}
              /\ k.resource # None => k.value \in Value
              /\ k.domain \in Domain /\ k.print \in Views(k.rep)

Formed ==
    /\ TypeOK
    /\ deps \in [Rep -> DependencySet]
    /\ DOMAIN repPrint = Rep /\ DOMAIN renewed = Rep /\ DOMAIN described = Rep
    /\ DOMAIN acts = Activity /\ DOMAIN caller = Caller
    /\ \A c \in Caller : CallOK(caller[c])

(* The row of one dependency set.                                          *)
SetOK(q) ==
    /\ \/ deps[q] = NoSet
       \/ deps[q].recorded /\ q \in present /\ deps[q].edges \in Extractions[q]
    /\ Resolved(deps[q].edges) \subseteq present

LEMMA SetsFormed == NoSet \in DependencySet /\ Resolved(NoSet.edges) = {}
BY DEF NoSet, DependencySet, Resolved

LEMMA ObservedFormed ==
    ASSUME NEW q \in Rep, NEW edges \in Extractions[q]
    PROVE  /\ Observed(edges) \in DependencySet /\ Observed(edges).recorded
           /\ Observed(edges).edges = edges /\ edges \in Seq(Edge)
BY ExtractionsAssumption DEF Observed, DependencySet

LEMMA FormedInit == Init => Formed
<1> SUFFICES ASSUME Init PROVE Formed
  OBVIOUS
<1> USE BoundsAssumption, OwnerAssumption
<1>1. present \in SUBSET Rep /\ dirty = {} /\ belated = {}
  BY DEF Init
<1>2. PICK v \in Value :
          LET values == [x \in Resource |-> v]
          IN /\ resPrint = [x \in Resource |-> IF Owner[x] \in present THEN v ELSE None]
             /\ renewed = [q \in Rep |-> IF q \in present THEN Domains[q] ELSE {}]
             /\ repPrint = [q \in Rep |-> [d \in Domain |->
                               IF d \in renewed[q] THEN Aggregate(values, q, d) ELSE None]]
             /\ described = [q \in Rep |-> [x \in Members(q) |-> v]]
  BY DEF Init
<1> DEFINE values == [x \in Resource |-> v]
<1>3. ASSUME NEW q \in Rep
      PROVE  repPrint[q] \in [Domain -> Views(q) \cup {None}] /\ renewed[q] \subseteq RecordedIn(q)
  <2>1. \A d \in Domain : Aggregate(values, q, d) \in Views(q) /\ Aggregate(values, q, d) # None
    BY AggregateViews DEF Members
  <2>2. repPrint[q] = [d \in Domain |-> IF d \in renewed[q] THEN Aggregate(values, q, d) ELSE None]
    BY <1>2
  <2>3. renewed[q] \subseteq Domain
    BY <1>2, DomainAssumption
  <2> HIDE DEF values
  <2> QED
    BY <2>1, <2>2, <2>3 DEF RecordedIn
<1>4. resPrint \in [Resource -> Value \cup {None}]
  BY <1>2
<1>5. ASSUME NEW q \in Rep PROVE deps[q] \in DependencySet /\ SetOK(q)
  <2>1. CASE deps[q] = NoSet
    BY <2>1, SetsFormed DEF SetOK
  <2>2. CASE deps[q] # NoSet
    <3>1. /\ q \in present /\ deps[q].edges \in Extractions[q]
          /\ Resolved(deps[q].edges) \subseteq present
      BY <2>2 DEF Init
    <3>2. PICK e \in UNION {Extractions[r] : r \in Rep} : deps[q] = Observed(e)
      BY <2>2 DEF Init
    <3>3. PICK r \in Rep : e \in Extractions[r]
      BY <3>2
    <3> QED
      BY <3>1, <3>2, <3>3, ObservedFormed DEF SetOK
  <2> QED
    BY <2>1, <2>2
<1>6. deps \in [Rep -> {NoSet} \cup {Observed(e) : e \in UNION {Extractions[q] : q \in Rep}}]
  BY Zenon DEF Init
<1>7. deps \in [Rep -> DependencySet]
  BY <1>5, <1>6, Zenon
<1>8. /\ DOMAIN repPrint = Rep /\ DOMAIN renewed = Rep /\ DOMAIN described = Rep
      /\ DOMAIN acts = Activity /\ DOMAIN caller = Caller
  <2>1. acts = [a \in Activity |-> Unused] /\ caller = [c \in Caller |-> Idle]
    BY DEF Init
  <2> QED
    BY <1>2, <2>1
<1>9. \A c \in Caller : caller[c].busy = FALSE
  <2>1. caller = [c \in Caller |-> Idle] /\ Idle.busy = FALSE
    BY DEF Init, Idle
  <2> QED
    BY <2>1
<1>10. \A a \in Activity : acts[a].inputs \cup acts[a].outputs = {}
  <2>1. acts = [a \in Activity |-> Unused] /\ Unused.inputs = {} /\ Unused.outputs = {}
    BY DEF Init, Unused
  <2> QED
    BY <2>1
<1>11. overlapped \in BOOLEAN /\ revisions \in 0..MaxRevisions
  <2>1. overlapped = FALSE /\ revisions = 0
    BY DEF Init
  <2>2. overlapped \in BOOLEAN
    BY <2>1
  <2>3. revisions \in 0..MaxRevisions
    BY <2>1, BoundsAssumption
  <2> QED
    BY <2>2, <2>3
<1>12. TypeOK
  BY <1>1, <1>3, <1>4, <1>5, <1>9, <1>10, <1>11 DEF TypeOK, SetOK
<1> QED
  BY <1>7, <1>8, <1>9, <1>12 DEF Formed, CallOK

(* A transaction is counted.                                               *)
LEMMA Counted ==
    ASSUME Formed, Revise \/ revisions' = revisions
    PROVE  revisions' \in 0..MaxRevisions
BY BoundsAssumption DEF Formed, TypeOK, Revise

LEMMA FormedImport ==
    ASSUME Formed, NEW q \in Rep, Import(q)
    PROVE  Formed'
<1>1. /\ present' = present \cup {q} /\ q \notin present
      /\ UNCHANGED <<dirty, sources, acts, witness, caller, overlapped>>
      /\ revisions' \in 0..MaxRevisions
  BY Counted DEF Import
<1>2. PICK values \in Contents(q) \cup {[x \in Members(q) |-> None]}, D \in SUBSET Domains[q] :
          /\ D # {} => values \in Contents(q)
          /\ resPrint' = [x \in Resource |-> IF Owner[x] = q THEN values[x] ELSE resPrint[x]]
          /\ repPrint' = [repPrint EXCEPT ![q] =
                             [d \in Domain |-> IF d \in D THEN Aggregate(values, q, d) ELSE None]]
          /\ renewed' = [renewed EXCEPT ![q] = D]
  BY DEF Import
<1>3. \A x \in Members(q) : values[x] \in Value \cup {None}
  BY DEF Contents
<1>4. resPrint' \in [Resource -> Value \cup {None}]
  BY <1>2, <1>3 DEF Formed, TypeOK, Members
<1>5. ASSUME NEW r \in Rep
      PROVE  /\ repPrint'[r] \in [Domain -> Views(r) \cup {None}]
             /\ renewed'[r] \subseteq RecordedIn(r)'
  <2>1. CASE r = q
    <3>1. ASSUME NEW d \in D
          PROVE  /\ d \in Domain
                 /\ Aggregate(values, q, d) \in Views(q) /\ Aggregate(values, q, d) # None
      <4>1. d \in Domain /\ \A x \in Members(q) : values[x] \in Value
        BY <1>2, <3>1, DomainAssumption DEF Contents
      <4> QED
        BY <4>1, AggregateViews
    <3>2. /\ repPrint'[q] = [d \in Domain |-> IF d \in D THEN Aggregate(values, q, d) ELSE None]
          /\ renewed'[q] = D
      BY <1>2 DEF Formed
    <3> QED
      BY <2>1, <3>1, <3>2 DEF RecordedIn
  <2>2. CASE r # q
    <3>1. repPrint'[r] = repPrint[r] /\ renewed'[r] = renewed[r]
      BY <1>2, <2>2 DEF Formed
    <3> QED
      BY <3>1 DEF Formed, TypeOK, RecordedIn
  <2> QED
    BY <2>1, <2>2
<1>6. \A c \in Caller : CallOK(caller[c])'
  BY <1>1 DEF Formed, CallOK
<1>7. DOMAIN repPrint' = Rep /\ DOMAIN renewed' = Rep
  BY <1>2 DEF Formed
<1> QED
  BY <1>1, <1>4, <1>5, <1>6, <1>7 DEF Formed, TypeOK, sources

LEMMA FormedObserve ==
    ASSUME Formed, NEW x \in Resource, NEW v \in Value, ObserveResource(x, v)
    PROVE  Formed'
<1>1. /\ Owner[x] \in present
      /\ resPrint' = [resPrint EXCEPT ![x] = v]
      /\ UNCHANGED <<present, repPrint, renewed, deps, described, belated, acts, witness, caller>>
      /\ revisions' \in 0..MaxRevisions
      /\ overlapped' \in BOOLEAN
  BY Counted DEF ObserveResource, sources
<1>2. dirty' \subseteq present'
  BY <1>1 DEF ObserveResource, MarkedBy, Formed, TypeOK
<1>3. resPrint' \in [Resource -> Value \cup {None}]
  BY <1>1 DEF Formed, TypeOK
<1>4. \A c \in Caller : CallOK(caller[c])'
  BY <1>1 DEF Formed, CallOK
<1> QED
  BY <1>1, <1>2, <1>3, <1>4 DEF Formed, TypeOK, RecordedIn

(* What a host loads of one representation.                                *)
LEMMA FormedLoad ==
    ASSUME Formed, NEW c \in Caller, NEW q \in Rep, NEW d \in Domain, NEW x \in Resource \cup {None},
           NEW v, x # None => v \in Value, Load(c, q, d, x, v)
    PROVE  Formed'
<1> DEFINE values == IF x = None THEN resPrint ELSE [resPrint EXCEPT ![x] = v]
           call == [busy |-> TRUE, rep |-> q, domain |-> d, resource |-> x, value |-> v,
                    print |-> Aggregate(values, q, d)]
<1>1. /\ q \in present /\ x \in Members(q) \cup {None} /\ Known(values, q)
      /\ caller' = [caller EXCEPT ![c] = call]
      /\ overlapped' \in BOOLEAN /\ UNCHANGED <<known, revisions>>
  BY DEF Load
<1>2. values \in [Resource -> Value \cup {None}]
  BY DEF Formed, TypeOK
<1> HIDE DEF values
<1>3. Aggregate(values, q, d) \in Views(q)
  <2>1. \A y \in Members(q) : values[y] \in Value
    BY <1>1, <1>2 DEF Known, Members
  <2> QED
    BY <2>1, AggregateViews
<1>4. /\ call.busy /\ call.rep = q /\ call.resource = x /\ call.value = v /\ call.domain = d
      /\ call.print = Aggregate(values, q, d)
  OBVIOUS
<1> HIDE DEF call
<1>5. present' = present
  BY <1>1 DEF known
<1>6. DOMAIN caller' = Caller /\ \A b \in Caller : CallOK(caller[b])'
  BY <1>1, <1>3, <1>4, <1>5 DEF Formed, CallOK
<1>7. \A b \in Caller : caller'[b].busy => caller'[b].rep \in present'
  BY <1>6 DEF CallOK
<1> QED
  BY <1>1, <1>5, <1>6, <1>7 DEF Formed, TypeOK, known, prints, sources, RecordedIn

(* An idle host has nothing to record.                                     *)
LEMMA FormedIdle ==
    ASSUME Formed, NEW c \in Caller, caller' = [caller EXCEPT ![c] = Idle],
           present' = present
    PROVE  /\ DOMAIN caller' = Caller /\ \A d \in Caller : CallOK(caller[d])'
           /\ \A d \in Caller : caller'[d].busy => caller'[d].rep \in present'
<1>1. Idle.busy = FALSE
  BY DEF Idle
<1>2. DOMAIN caller' = Caller /\ \A d \in Caller : CallOK(caller[d])'
  BY <1>1 DEF Formed, CallOK
<1> QED
  BY <1>2 DEF CallOK

(* A set that is no longer current is still the set that was recorded.     *)
LEMMA StaleSets ==
    ASSUME Formed, NEW q \in Rep, present' = present,
           deps' = deps \/ deps' = [deps EXCEPT ![q].current = FALSE]
    PROVE  /\ deps' \in [Rep -> DependencySet]
           /\ \A r \in Rep : SetOK(r)'
<1>1. \A r \in Rep : deps[r] \in DependencySet /\ SetOK(r)
  BY DEF Formed, TypeOK, SetOK
<1>2. CASE deps' = deps
  BY <1>1, <1>2 DEF Formed, SetOK
<1>3. CASE deps' = [deps EXCEPT ![q].current = FALSE]
  <2>1. deps' \in [Rep -> DependencySet]
    BY <1>3 DEF Formed, DependencySet
  <2>2. deps'[q] = [deps[q] EXCEPT !.current = FALSE] /\ \A r \in Rep : r # q => deps'[r] = deps[r]
    BY <1>3 DEF Formed
  <2>3. /\ deps'[q].recorded = deps[q].recorded
        /\ deps'[q].edges = deps[q].edges
    BY <1>1, <2>2 DEF DependencySet
  <2>4. deps[q] = NoSet => deps'[q] = NoSet
    <3>1. ASSUME NEW s \in DependencySet, NEW t \in DependencySet,
                 s.recorded = t.recorded, s.current = t.current, s.edges = t.edges
          PROVE  s = t
      BY <3>1 DEF DependencySet
    <3>2. NoSet.current = FALSE /\ NoSet \in DependencySet
      BY SetsFormed DEF NoSet
    <3>3. /\ deps[q] = NoSet => deps'[q].current = deps[q].current
          /\ deps'[q] \in DependencySet
      BY <1>1, <2>1, <2>2, <3>2 DEF DependencySet
    <3> QED
      BY <2>3, <3>1, <3>2, <3>3
  <2> QED
    BY <1>1, <2>1, <2>2, <2>3, <2>4 DEF SetOK
<1> QED
  BY <1>2, <1>3

(* The two outcomes of recording an aggregate.                             *)
LEMMA PrintRecorded ==
    ASSUME NEW q \in Rep, NEW d \in Domain, NEW p, NEW marks, RecordPrint(q, d, p, marks)
    PROVE  \/ /\ repPrint[q][d] = p /\ q \notin marks
              /\ dirty' = marks /\ repPrint' = repPrint /\ deps' = deps
           \/ /\ repPrint' = [repPrint EXCEPT ![q][d] = p] /\ dirty' = marks \ {q}
              /\ deps' = [deps EXCEPT ![q].current = FALSE]
BY DEF RecordPrint

(* The markers that a transaction has left when it records an aggregate.   *)
Marks(k) == IF k.resource = None THEN dirty ELSE MarkedBy(k.resource, k.value)

(* One recording, seen from the tables: the resource (if any) takes its    *)
(* value and marks its owner, which is the representation recorded.        *)
LEMMA Recording ==
    ASSUME Formed, NEW c \in Caller, Record(c)
    PROVE  LET k == caller[c]
           IN /\ k.busy /\ k.rep \in present /\ k.rep \in Rep
              /\ k.resource \in Members(k.rep) \cup {None}
              /\ k.resource # None => k.value \in Value
              /\ k.domain \in Domain /\ k.print \in Views(k.rep) /\ k.print # None
              /\ RecordPrint(k.rep, k.domain, k.print, Marks(k))
              /\ resPrint' = IF k.resource = None THEN resPrint
                             ELSE [resPrint EXCEPT ![k.resource] = k.value]
              /\ renewed' = [renewed EXCEPT ![k.rep] =
                                {k.domain} \cup IF k.rep \in Marks(k) THEN {} ELSE renewed[k.rep]]
              /\ Marks(k) \in {dirty, dirty \cup {k.rep}}
              /\ k.resource # None /\ k.rep \notin Marks(k) => resPrint[k.resource] = k.value
              /\ caller' = [caller EXCEPT ![c] = Idle]
              /\ UNCHANGED <<present, described, belated, acts, witness, overlapped>>
              /\ Revise
<1> DEFINE k == caller[c]
<1>1. /\ k.busy /\ k.rep \in present /\ k.rep \in Rep
      /\ k.resource \in Members(k.rep) \cup {None}
      /\ k.resource # None => k.value \in Value
      /\ k.domain \in Domain /\ k.print \in Views(k.rep)
  BY DEF Record, Formed, CallOK, TypeOK
<1>2. k.resource # None => Owner[k.resource] = k.rep
  BY <1>1 DEF Members
<1>3. k.print # None
  BY <1>1, NoneAssumption
<1>4. /\ Marks(k) \in {dirty, dirty \cup {k.rep}}
      /\ k.resource # None /\ k.rep \notin Marks(k) => resPrint[k.resource] = k.value
  BY <1>1, <1>2 DEF MarkedBy, Marks
<1>5. renewed' = [renewed EXCEPT ![k.rep] =
                     {k.domain} \cup IF k.rep \in Marks(k) THEN {} ELSE renewed[k.rep]]
  BY <1>1 DEF Record, Marks, Formed
<1> QED
  BY <1>1, <1>3, <1>4, <1>5 DEF Record, Marks

(* A recording leaves rows of fingerprints, and the domain recorded is one *)
(* of those renewed.                                                       *)
LEMMA PrintsFormed ==
    ASSUME Formed, NEW c \in Caller, Record(c), NEW r \in Rep
    PROVE  /\ repPrint'[r] \in [Domain -> Views(r) \cup {None}]
           /\ renewed'[r] \subseteq RecordedIn(r)'
<1> DEFINE k == caller[c]
<1>1. /\ k.rep \in Rep /\ k.domain \in Domain
      /\ k.print \in Views(k.rep) /\ k.print # None
      /\ RecordPrint(k.rep, k.domain, k.print, Marks(k))
      /\ renewed' = [renewed EXCEPT ![k.rep] =
                        {k.domain} \cup IF k.rep \in Marks(k) THEN {} ELSE renewed[k.rep]]
  BY Recording
<1> HIDE DEF k
<1>2. \A q \in Rep : /\ repPrint[q] \in [Domain -> Views(q) \cup {None}]
                     /\ renewed[q] \subseteq RecordedIn(q)
  BY DEF Formed, TypeOK
<1>3. CASE r # k.rep
  <2>1. renewed'[r] = renewed[r] /\ repPrint'[r] = repPrint[r]
    BY <1>1, <1>3, PrintRecorded DEF Formed
  <2> QED
    BY <1>2, <2>1 DEF RecordedIn
<1>4. CASE r = k.rep
  <2>1. renewed'[r] \subseteq {k.domain} \cup renewed[r]
    BY <1>1, <1>4 DEF Formed
  <2>2. repPrint'[r] = [repPrint[r] EXCEPT ![k.domain] = k.print]
    <3>1. CASE repPrint' = [repPrint EXCEPT ![k.rep][k.domain] = k.print]
      BY <1>1, <1>4, <3>1 DEF Formed
    <3>2. CASE repPrint' = repPrint /\ repPrint[k.rep][k.domain] = k.print
      BY <1>1, <1>2, <1>4, <3>2
    <3> QED
      BY <1>1, <3>1, <3>2, PrintRecorded
  <2> QED
    BY <1>1, <1>2, <1>4, <2>1, <2>2 DEF RecordedIn
<1> QED
  BY <1>3, <1>4

LEMMA FormedRecord ==
    ASSUME Formed, NEW c \in Caller, Record(c)
    PROVE  Formed'
<1> DEFINE k == caller[c]
<1>1. /\ k.rep \in present /\ k.rep \in Rep /\ k.domain \in Domain
      /\ k.resource \in Members(k.rep) \cup {None}
      /\ k.resource # None => k.value \in Value
      /\ RecordPrint(k.rep, k.domain, k.print, Marks(k))
      /\ resPrint' = IF k.resource = None THEN resPrint
                     ELSE [resPrint EXCEPT ![k.resource] = k.value]
      /\ Marks(k) \in {dirty, dirty \cup {k.rep}}
      /\ caller' = [caller EXCEPT ![c] = Idle]
      /\ UNCHANGED <<present, described, belated, acts, witness, overlapped>>
      /\ revisions' \in 0..MaxRevisions
      /\ DOMAIN renewed' = Rep
  BY Recording, Counted DEF Formed
<1> HIDE DEF k
<1>2. /\ dirty' \subseteq Marks(k)
      /\ deps' = deps \/ deps' = [deps EXCEPT ![k.rep].current = FALSE]
      /\ DOMAIN repPrint' = Rep
  <2>1. \/ dirty' = Marks(k) /\ repPrint' = repPrint /\ deps' = deps
        \/ /\ repPrint' = [repPrint EXCEPT ![k.rep][k.domain] = k.print]
           /\ dirty' = Marks(k) \ {k.rep}
           /\ deps' = [deps EXCEPT ![k.rep].current = FALSE]
    BY <1>1 DEF RecordPrint
  <2> QED
    BY <2>1 DEF Formed
<1>3. dirty' \subseteq present'
  BY <1>1, <1>2 DEF Formed, TypeOK
<1>4. resPrint' \in [Resource -> Value \cup {None}]
  BY <1>1 DEF Formed, TypeOK, Members
<1>5. \A r \in Rep : /\ repPrint'[r] \in [Domain -> Views(r) \cup {None}]
                     /\ renewed'[r] \subseteq RecordedIn(r)'
  BY PrintsFormed
<1>6. deps' \in [Rep -> DependencySet] /\ \A r \in Rep : SetOK(r)'
  BY <1>1, <1>2, StaleSets
<1>7. /\ DOMAIN caller' = Caller /\ \A d \in Caller : CallOK(caller[d])'
      /\ \A d \in Caller : caller'[d].busy => caller'[d].rep \in present'
  BY <1>1, FormedIdle
<1> QED
  BY <1>1, <1>2, <1>3, <1>4, <1>5, <1>6, <1>7 DEF Formed, TypeOK, SetOK

LEMMA FormedGiveUp ==
    ASSUME Formed, NEW c \in Caller, GiveUp(c)
    PROVE  Formed'
<1>1. /\ caller' = [caller EXCEPT ![c] = Idle] /\ UNCHANGED <<known, overlapped, revisions>>
      /\ present' = present
  BY DEF GiveUp, known
<1>2. /\ DOMAIN caller' = Caller /\ \A d \in Caller : CallOK(caller[d])'
      /\ \A d \in Caller : caller'[d].busy => caller'[d].rep \in present'
  BY <1>1, FormedIdle
<1> QED
  BY <1>1, <1>2 DEF Formed, TypeOK, known, prints, sources, RecordedIn

LEMMA FormedSet ==
    ASSUME Formed, NEW q \in Rep, NEW edges \in Extractions[q], NEW contents,
           RecordDependencySet(q, edges, contents)
    PROVE  Formed'
<1>1. /\ q \in present /\ Resolved(edges) \subseteq present
      /\ deps' = [deps EXCEPT ![q] = Observed(edges)]
      /\ described' = [described EXCEPT ![q] = contents]
      /\ belated' \subseteq belated \cup {q}
      /\ UNCHANGED <<present, resPrint, repPrint, dirty, renewed, acts, witness, caller, overlapped>>
      /\ revisions' \in 0..MaxRevisions
  BY Counted DEF RecordDependencySet, prints
<1>2. deps' \in [Rep -> DependencySet] /\ DOMAIN described' = Rep
  BY <1>1, ObservedFormed DEF Formed
<1>3. \A r \in Rep : SetOK(r)'
  <2> SUFFICES ASSUME NEW r \in Rep PROVE SetOK(r)'
    OBVIOUS
  <2>1. CASE r = q
    <3>1. deps'[r] = Observed(edges)
      BY <1>1, <2>1 DEF Formed
    <3> QED
      BY <1>1, <2>1, <3>1, ObservedFormed DEF SetOK
  <2>2. CASE r # q
    <3>1. deps'[r] = deps[r]
      BY <1>1, <2>2 DEF Formed
    <3> QED
      BY <1>1, <3>1 DEF Formed, TypeOK, SetOK
  <2> QED
    BY <2>1, <2>2
<1>4. \A c \in Caller : CallOK(caller[c])'
  BY <1>1 DEF Formed, CallOK
<1> QED
  BY <1>1, <1>2, <1>3, <1>4 DEF Formed, TypeOK, SetOK, RecordedIn

LEMMA FormedActivity ==
    ASSUME Formed, NEW a \in Activity, NEW w \in Works, CreateActivity(a, w)
    PROVE  Formed'
<1>1. /\ w.inputs \cup w.outputs \subseteq present
      /\ acts' = [acts EXCEPT ![a] = Recorded(w)]
      /\ UNCHANGED <<present, resPrint, repPrint, dirty, renewed, deps, described, belated, caller,
                     overlapped>>
      /\ revisions' \in 0..MaxRevisions
  BY Counted DEF CreateActivity, prints, sources
<1>2. Recorded(w).inputs = w.inputs /\ Recorded(w).outputs = w.outputs
  BY DEF Recorded
<1>3. /\ DOMAIN acts' = Activity
      /\ \A b \in Activity : acts'[b].inputs \cup acts'[b].outputs \subseteq present'
  BY <1>1, <1>2 DEF Formed, TypeOK
<1>4. \A c \in Caller : CallOK(caller[c])'
  BY <1>1 DEF Formed, CallOK
<1> QED
  BY <1>1, <1>3, <1>4 DEF Formed, TypeOK, RecordedIn

LEMMA FormedStep == Formed /\ [Next]_vars => Formed'
<1> SUFFICES ASSUME Formed, [Next]_vars PROVE Formed'
  OBVIOUS
<1>1. CASE UNCHANGED vars
  BY <1>1 DEF vars, known, prints, sources, Formed, TypeOK, CallOK, RecordedIn
<1>2. ASSUME NEW c \in Caller, NEW q \in Rep, NEW d \in Domain, Load(c, q, d, None, None)
      PROVE  Formed'
  BY <1>2, FormedLoad
<1>3. ASSUME NEW c \in Caller, NEW q \in Rep, NEW d \in Domain, NEW x \in Resource,
             NEW v \in Value, Load(c, q, d, x, v)
      PROVE  Formed'
  BY <1>3, FormedLoad
<1> QED
  BY <1>1, <1>2, <1>3, FormedImport, FormedObserve, FormedRecord, FormedGiveUp, FormedSet,
     FormedActivity DEF Next

(* The tables are well formed in every reachable state, and what a host is *)
(* about to record is a complete aggregate of a representation that is in  *)
(* the file.                                                               *)
THEOREM EvidenceIsFormed == Spec => []Formed
BY FormedInit, FormedStep, PTL DEF Spec
-----------------------------------------------------------------------------
(***************************************************************************)
(* The second layer: evidence of now.                                      *)
(***************************************************************************)

(* What the members of k.rep will have recorded after k is.                *)
Upcoming(k) ==
    IF k.resource = None THEN resPrint ELSE [resPrint EXCEPT ![k.resource] = k.value]

(* As long as no two hosts overlap, at most one computes, and nothing has  *)
(* been recorded since it began.                                           *)
Lone ==
    overlapped \/ /\ \A b, c \in Caller : caller[b].busy /\ caller[c].busy => b = c
                  /\ \A c \in Caller : LET k == caller[c]
                        IN k.busy => k.print = Aggregate(Upcoming(k), k.rep, k.domain)

PrintIsNow(q) ==
    q \notin dirty => /\ RecordedIn(q) # {} => renewed[q] # {}
                      /\ \A d \in renewed[q] : repPrint[q][d] = Aggregate(resPrint, q, d)
SetIsNow(q) ==
    q \in present /\ deps[q].current /\ q \notin dirty /\ q \notin belated
        => described[q] = Noted(resPrint, q)

OfNow == /\ overlapped \/ \A q \in Rep : PrintIsNow(q)
         /\ \A q \in Rep : SetIsNow(q)

EInv == Formed /\ Lone /\ OfNow

LEMMA RenewedDomains == Formed => \A q \in Rep : renewed[q] \subseteq Domain
BY DEF Formed, TypeOK, RecordedIn

LEMMA OfNowInit == Init => Lone /\ OfNow
<1> SUFFICES ASSUME Init PROVE Lone /\ OfNow
  OBVIOUS
<1> USE OwnerAssumption
<1>1. \A c \in Caller : caller[c].busy = FALSE
  BY DEF Init, Idle
<1>2. PICK v \in Value :
          LET values == [x \in Resource |-> v]
          IN /\ resPrint = [x \in Resource |-> IF Owner[x] \in present THEN v ELSE None]
             /\ renewed = [q \in Rep |-> IF q \in present THEN Domains[q] ELSE {}]
             /\ repPrint = [q \in Rep |-> [d \in Domain |->
                               IF d \in renewed[q] THEN Aggregate(values, q, d) ELSE None]]
             /\ described = [q \in Rep |-> [x \in Members(q) |-> v]]
  BY DEF Init
<1> DEFINE values == [x \in Resource |-> v]
<1>3. ASSUME NEW q \in Rep, q \in present
      PROVE  /\ \A d \in Domain : Aggregate(resPrint, q, d) = Aggregate(values, q, d)
             /\ Noted(resPrint, q) = [x \in Members(q) |-> v]
  <2>1. \A x \in Members(q) : resPrint[x] = v /\ values[x] = v
    BY <1>2, <1>3 DEF Members
  <2> QED
    BY <2>1, AggregateLocal DEF Noted
<1> HIDE DEF values
<1>4. ASSUME NEW q \in Rep
      PROVE  /\ renewed[q] = IF q \in present THEN Domains[q] ELSE {}
             /\ repPrint[q] = [d \in Domain |->
                                  IF d \in renewed[q] THEN Aggregate(values, q, d) ELSE None]
             /\ described[q] = [x \in Members(q) |-> v]
  BY <1>2 DEF values
<1>5. ASSUME NEW q \in Rep PROVE PrintIsNow(q) /\ SetIsNow(q)
  <2>1. renewed[q] \subseteq Domain
    BY <1>4, DomainAssumption
  <2>2. PrintIsNow(q)
    BY <1>3, <1>4, <2>1 DEF PrintIsNow, RecordedIn
  <2>3. SetIsNow(q)
    BY <1>3, <1>4 DEF SetIsNow
  <2> QED
    BY <2>2, <2>3
<1> QED
  BY <1>1, <1>5 DEF Lone, OfNow

(* An import concerns a representation that nothing was recorded about.    *)
LEMMA OfNowImport ==
    ASSUME EInv, NEW q \in Rep, Import(q)
    PROVE  (Lone /\ OfNow)'
<1> USE OwnerAssumption DEF EInv
<1>1. /\ present' = present \cup {q} /\ q \notin present
      /\ UNCHANGED <<dirty, deps, described, belated, caller, overlapped>>
  BY DEF Import, sources
<1>2. PICK values \in Contents(q) \cup {[x \in Members(q) |-> None]}, D \in SUBSET Domains[q] :
          /\ resPrint' = [x \in Resource |-> IF Owner[x] = q THEN values[x] ELSE resPrint[x]]
          /\ repPrint' = [repPrint EXCEPT ![q] =
                             [d \in Domain |-> IF d \in D THEN Aggregate(values, q, d) ELSE None]]
          /\ renewed' = [renewed EXCEPT ![q] = D]
  BY DEF Import
<1>3. ASSUME NEW r \in Rep, r # q
      PROVE  /\ \A d \in Domain : Aggregate(resPrint', r, d) = Aggregate(resPrint, r, d)
             /\ Noted(resPrint', r) = Noted(resPrint, r)
             /\ repPrint'[r] = repPrint[r] /\ renewed'[r] = renewed[r]
  <2>1. \A x \in Members(r) : resPrint'[x] = resPrint[x]
    BY <1>2, <1>3 DEF Members
  <2>2. repPrint'[r] = repPrint[r] /\ renewed'[r] = renewed[r]
    BY <1>2, <1>3 DEF Formed
  <2> QED
    BY <2>1, <2>2, AggregateLocal
<1>4. \A d \in Domain : Aggregate(resPrint', q, d) = Aggregate(values, q, d)
  <2>1. \A x \in Members(q) : resPrint'[x] = values[x]
    BY <1>2 DEF Members
  <2> QED
    BY <2>1, AggregateLocal
<1>5. Lone'
  <2>1. CASE overlapped
    BY <1>1, <2>1 DEF Lone
  <2>2. ASSUME ~overlapped, NEW c \in Caller, caller[c].busy
        PROVE  caller[c].print = Aggregate(Upcoming(caller[c])', caller[c].rep, caller[c].domain)
    <3> DEFINE k == caller[c]
    <3>1. /\ k.rep \in present /\ k.rep \in Rep /\ k.rep # q /\ k.domain \in Domain
          /\ k.resource \in Members(k.rep) \cup {None}
      BY <1>1, <2>2 DEF Formed, TypeOK, CallOK
    <3>2. \A x \in Members(k.rep) : Upcoming(k)'[x] = Upcoming(k)[x]
      BY <3>1, <1>1, <1>2 DEF Upcoming, Members, Formed, TypeOK
    <3>3. Aggregate(Upcoming(k)', k.rep, k.domain) = Aggregate(Upcoming(k), k.rep, k.domain)
      BY <3>1, <3>2, AggregateLocal
    <3> QED
      BY <2>2, <3>3 DEF Lone
  <2> QED
    BY <1>1, <2>1, <2>2 DEF Lone
<1>6. PrintIsNow(q)' /\ SetIsNow(q)'
  <2>1. PrintIsNow(q)'
    <3>1. /\ renewed'[q] = D /\ D \subseteq Domain
          /\ repPrint'[q] = [d \in Domain |-> IF d \in D THEN Aggregate(values, q, d) ELSE None]
      BY <1>2, DomainAssumption DEF Formed
    <3> QED
      BY <1>4, <3>1 DEF PrintIsNow, RecordedIn
  <2>2. deps[q] = NoSet
    BY <1>1 DEF Formed, TypeOK
  <2> QED
    BY <1>1, <2>1, <2>2 DEF SetIsNow, NoSet
<1>7. ASSUME NEW r \in Rep, r # q
      PROVE  (PrintIsNow(r) => PrintIsNow(r)') /\ (SetIsNow(r) => SetIsNow(r)')
  BY <1>1, <1>3, <1>7, RenewedDomains DEF PrintIsNow, SetIsNow, RecordedIn
<1> QED
  BY <1>1, <1>5, <1>6, <1>7 DEF OfNow

(* A new value marks its owner, whoever computes meanwhile has overlapped. *)
LEMMA OfNowObserve ==
    ASSUME EInv, NEW x \in Resource, NEW v \in Value, ObserveResource(x, v)
    PROVE  (Lone /\ OfNow)'
<1> USE OwnerAssumption DEF EInv
<1>1. /\ resPrint' = [resPrint EXCEPT ![x] = v] /\ dirty' = dirty \cup {Owner[x]}
      /\ overlapped' = (overlapped \/ \E c \in Caller : caller[c].busy)
      /\ UNCHANGED <<present, repPrint, renewed, deps, described, belated, caller>>
      /\ Owner[x] \in Rep
  BY DEF ObserveResource, MarkedBy, sources
<1>2. ASSUME NEW q \in Rep, q # Owner[x]
      PROVE  /\ \A d \in Domain : Aggregate(resPrint', q, d) = Aggregate(resPrint, q, d)
             /\ Noted(resPrint', q) = Noted(resPrint, q)
  <2>1. \A y \in Members(q) : resPrint'[y] = resPrint[y]
    BY <1>1, <1>2 DEF Members, Formed, TypeOK
  <2> QED
    BY <2>1, AggregateLocal
<1>3. ASSUME NEW q \in Rep
      PROVE  (PrintIsNow(q) => PrintIsNow(q)') /\ (SetIsNow(q) => SetIsNow(q)')
  BY <1>1, <1>2, RenewedDomains DEF PrintIsNow, SetIsNow, RecordedIn
<1>4. Lone'
  BY <1>1 DEF Lone
<1> QED
  BY <1>1, <1>3, <1>4 DEF OfNow

LEMMA OfNowLoad ==
    ASSUME EInv, NEW c \in Caller, NEW q \in Rep, NEW d \in Domain, NEW x, NEW v,
           Load(c, q, d, x, v)
    PROVE  (Lone /\ OfNow)'
<1> USE DEF EInv
<1> DEFINE values == IF x = None THEN resPrint ELSE [resPrint EXCEPT ![x] = v]
           call == [busy |-> TRUE, rep |-> q, domain |-> d, resource |-> x, value |-> v,
                    print |-> Aggregate(values, q, d)]
<1>1. /\ caller' = [caller EXCEPT ![c] = call]
      /\ overlapped' = (overlapped \/ \E b \in Caller : caller[b].busy)
      /\ UNCHANGED <<present, resPrint, repPrint, dirty, renewed, deps, described, belated>>
  BY DEF Load, known, prints, sources
<1>2. PICK k : k = call
  OBVIOUS
<1>3. k.print = Aggregate(Upcoming(k), k.rep, k.domain) /\ Upcoming(k)' = Upcoming(k)
  BY <1>1, <1>2 DEF Upcoming
<1> HIDE DEF call, values
<1>4. caller'[c] = k /\ \A b \in Caller : b # c => caller'[b] = caller[b]
  BY <1>1, <1>2 DEF Formed
<1>5. Lone'
  <2>1. CASE overlapped \/ \E b \in Caller : caller[b].busy
    BY <1>1, <2>1 DEF Lone
  <2>2. CASE ~(overlapped \/ \E b \in Caller : caller[b].busy)
    <3>1. \A b \in Caller : caller'[b].busy => b = c
      BY <1>4, <2>2
    <3>2. Upcoming(k)' = Upcoming(caller[c])'
      BY <1>4 DEF Upcoming
    <3>3. (caller[c].print = Aggregate(Upcoming(caller[c]), caller[c].rep, caller[c].domain))'
      BY <1>3, <1>4, <3>2
    <3> QED
      BY <3>1, <3>3 DEF Lone
  <2> QED
    BY <2>1, <2>2
<1>6. OfNow'
  BY <1>1 DEF OfNow, PrintIsNow, SetIsNow, RecordedIn
<1> QED
  BY <1>5, <1>6

(* The aggregate of a lone host is the aggregate of what is recorded with  *)
(* it, and of the other domains those that are still renewed are of this   *)
(* content too; whoever overlaps, a set that is still current is of it.    *)
LEMMA OfNowRecord ==
    ASSUME EInv, NEW c \in Caller, Record(c)
    PROVE  (Lone /\ OfNow)'
<1> USE OwnerAssumption DEF EInv
<1> DEFINE k == caller[c]
           marks == Marks(k)
<1>1. /\ k.busy /\ k.rep \in present /\ k.rep \in Rep
      /\ k.resource \in Members(k.rep) \cup {None}
      /\ k.domain \in Domain
      /\ RecordPrint(k.rep, k.domain, k.print, marks)
      /\ resPrint' = IF k.resource = None THEN resPrint
                     ELSE [resPrint EXCEPT ![k.resource] = k.value]
      /\ renewed' = [renewed EXCEPT ![k.rep] =
                        {k.domain} \cup IF k.rep \in marks THEN {} ELSE renewed[k.rep]]
      /\ marks \in {dirty, dirty \cup {k.rep}}
      /\ k.resource # None /\ k.rep \notin marks => resPrint[k.resource] = k.value
      /\ caller' = [caller EXCEPT ![c] = Idle]
      /\ UNCHANGED <<present, described, belated, overlapped>>
  BY Recording
<1>2. resPrint' = Upcoming(k)
  BY <1>1 DEF Upcoming
<1> HIDE DEF marks
<1>3. \/ /\ repPrint[k.rep][k.domain] = k.print /\ k.rep \notin marks
         /\ dirty' = marks /\ repPrint' = repPrint /\ deps' = deps
      \/ /\ repPrint' = [repPrint EXCEPT ![k.rep][k.domain] = k.print]
         /\ dirty' = marks \ {k.rep}
         /\ deps' = [deps EXCEPT ![k.rep].current = FALSE]
  BY <1>1 DEF RecordPrint
<1>4. /\ \A b \in Caller : caller'[b].busy => b # c /\ caller'[b] = caller[b]
  BY <1>1 DEF Formed, Idle
<1>5. Lone'
  BY <1>1, <1>4 DEF Lone
<1>a. PICK q \in Rep : q = k.rep
  BY <1>1
<1>6. ASSUME NEW r \in Rep, r # q
      PROVE  /\ \A d \in Domain : Aggregate(resPrint', r, d) = Aggregate(resPrint, r, d)
             /\ Noted(resPrint', r) = Noted(resPrint, r)
             /\ repPrint'[r] = repPrint[r] /\ renewed'[r] = renewed[r] /\ deps'[r] = deps[r]
             /\ r \in dirty' <=> r \in dirty
  <2>1. \A x \in Members(r) : resPrint'[x] = resPrint[x]
    BY <1>1, <1>6, <1>a DEF Members, Formed, TypeOK
  <2>2. repPrint'[r] = repPrint[r] /\ renewed'[r] = renewed[r] /\ deps'[r] = deps[r]
    BY <1>1, <1>3, <1>6, <1>a DEF Formed
  <2>3. r \in dirty' <=> r \in dirty
    BY <1>1, <1>3, <1>6, <1>a
  <2> QED
    BY <2>1, <2>2, <2>3, AggregateLocal
<1>7. /\ \A d \in Domain : repPrint'[q][d] = IF d = k.domain THEN k.print ELSE repPrint[q][d]
      /\ renewed'[q] = {k.domain} \cup IF q \in marks THEN {} ELSE renewed[q]
  BY <1>1, <1>3, <1>a DEF Formed, TypeOK
<1>8. overlapped \/ k.print = Aggregate(resPrint', q, k.domain)
  BY <1>1, <1>2, <1>a DEF Lone
<1>u. q \notin marks => resPrint' = resPrint /\ q \notin dirty
  BY <1>1, <1>a DEF Formed, TypeOK, Members
<1>9. overlapped' \/ PrintIsNow(q)'
  <2> SUFFICES ASSUME ~overlapped, NEW d \in renewed'[q]
               PROVE  repPrint'[q][d] = Aggregate(resPrint', q, d)
    BY <1>1, <1>7 DEF PrintIsNow
  <2>1. CASE d = k.domain
    BY <1>1, <1>7, <1>8, <2>1
  <2>2. CASE d # k.domain
    <3>1. q \notin marks /\ d \in renewed[q] /\ d \in Domain
      BY <1>7, <2>2, RenewedDomains
    <3>2. repPrint'[q][d] = repPrint[q][d]
      BY <1>7, <2>2, <3>1
    <3> QED
      BY <1>u, <3>1, <3>2 DEF OfNow, PrintIsNow
  <2> QED
    BY <2>1, <2>2
<1>10. SetIsNow(q)'
  <2>1. CASE /\ k.rep \notin marks
             /\ dirty' = marks /\ repPrint' = repPrint /\ deps' = deps
    BY <1>1, <1>a, <1>u, <2>1 DEF OfNow, SetIsNow
  <2>2. CASE deps' = [deps EXCEPT ![k.rep].current = FALSE]
    <3>1. deps[k.rep] \in DependencySet
      BY <1>1 DEF Formed
    <3>2. deps'[k.rep] = [deps[k.rep] EXCEPT !.current = FALSE]
      BY <1>1, <2>2 DEF Formed
    <3>3. deps'[k.rep].current = FALSE
      BY <3>1, <3>2 DEF DependencySet
    <3> QED
      BY <1>a, <3>3 DEF SetIsNow
  <2> QED
    BY <1>3, <2>1, <2>2
<1>11. ASSUME NEW r \in Rep, r # q
       PROVE  (PrintIsNow(r) => PrintIsNow(r)') /\ (SetIsNow(r) => SetIsNow(r)')
  <2>1. renewed[r] \subseteq Domain
    BY RenewedDomains
  <2>2. RecordedIn(r)' = RecordedIn(r)
    BY <1>6, <1>11 DEF RecordedIn
  <2>3. PrintIsNow(r) => PrintIsNow(r)'
    BY <1>6, <1>11, <2>1, <2>2 DEF PrintIsNow
  <2>4. SetIsNow(r) => SetIsNow(r)'
    BY <1>1, <1>6, <1>11 DEF SetIsNow
  <2> QED
    BY <2>3, <2>4
<1>12. OfNow'
  BY <1>1, <1>9, <1>10, <1>11 DEF OfNow
<1> QED
  BY <1>5, <1>12

LEMMA OfNowGiveUp ==
    ASSUME EInv, NEW c \in Caller, GiveUp(c)
    PROVE  (Lone /\ OfNow)'
<1> USE DEF EInv
<1>1. /\ caller' = [caller EXCEPT ![c] = Idle] /\ overlapped' = overlapped
      /\ UNCHANGED <<present, resPrint, repPrint, dirty, renewed, deps, described, belated>>
  BY DEF GiveUp, known, prints, sources
<1>2. \A b \in Caller : caller'[b].busy => caller'[b] = caller[b]
  BY <1>1 DEF Formed, Idle
<1>3. \A b \in Caller : Upcoming(caller[b])' = IF caller'[b].resource = None THEN resPrint
                            ELSE [resPrint EXCEPT ![caller'[b].resource] = caller'[b].value]
  BY <1>1 DEF Upcoming
<1>4. Lone'
  BY <1>1, <1>2, <1>3 DEF Lone, Upcoming
<1>5. OfNow'
  BY <1>1 DEF OfNow, PrintIsNow, SetIsNow, RecordedIn
<1> QED
  BY <1>4, <1>5

(* A set extracted from other contents than there are now is belated.      *)
LEMMA OfNowSet ==
    ASSUME EInv, NEW q \in Rep, NEW edges \in Extractions[q], NEW contents,
           RecordDependencySet(q, edges, contents)
    PROVE  (Lone /\ OfNow)'
<1> USE DEF EInv
<1>1. /\ deps' = [deps EXCEPT ![q] = Observed(edges)]
      /\ described' = [described EXCEPT ![q] = contents]
      /\ belated' = IF contents = Noted(resPrint, q) THEN belated \ {q} ELSE belated \cup {q}
      /\ UNCHANGED <<present, resPrint, repPrint, dirty, renewed, caller, overlapped>>
  BY DEF RecordDependencySet, prints
<1>2. described'[q] = contents
  BY <1>1 DEF Formed
<1>3. \A r \in Rep : r # q => described'[r] = described[r] /\ deps'[r] = deps[r]
  BY <1>1 DEF Formed
<1>4. \A r \in Rep : SetIsNow(r) => SetIsNow(r)'
  BY <1>1, <1>2, <1>3 DEF SetIsNow
<1>5. \A r \in Rep : PrintIsNow(r) => PrintIsNow(r)'
  BY <1>1 DEF PrintIsNow, RecordedIn
<1>6. Lone'
  BY <1>1 DEF Lone, Upcoming
<1> QED
  BY <1>1, <1>4, <1>5, <1>6 DEF OfNow

LEMMA OfNowStep == EInv /\ [Next]_vars => EInv'
<1> SUFFICES ASSUME EInv, [Next]_vars PROVE (Lone /\ OfNow)'
  BY FormedStep DEF EInv
<1>1. CASE UNCHANGED <<present, resPrint, repPrint, dirty, renewed, deps, described, belated,
                       caller, overlapped>>
  BY <1>1 DEF EInv, Lone, Upcoming, OfNow, PrintIsNow, SetIsNow, RecordedIn
<1>2. CASE \E a \in Activity, w \in Works : CreateActivity(a, w)
  BY <1>1, <1>2 DEF CreateActivity, prints, sources
<1>3. CASE UNCHANGED vars
  BY <1>1, <1>3 DEF vars, known, prints, sources
<1> QED
  BY <1>2, <1>3, OfNowImport, OfNowObserve, OfNowLoad, OfNowRecord, OfNowGiveUp, OfNowSet
     DEF Next

(* Evidence that bears no mark is evidence of what is recorded now: the    *)
(* aggregates recorded since the last change, of which there is one, as    *)
(* long as no two hosts overlap; a current dependency set whoever          *)
(* overlaps, unless its source had changed before it was recorded.  For    *)
(* any number of hosts, resources, domains and observations.               *)
THEOREM EvidenceStaysOfNow == Spec => []EvidenceIsOfNow
<1>1. Init => EInv
  BY FormedInit, OfNowInit DEF EInv
<1>2. EInv => EvidenceIsOfNow
  BY DEF EInv, OfNow, PrintIsNow, SetIsNow, EvidenceIsOfNow, AggregateIsCurrent, Formed, TypeOK
<1> QED
  BY <1>1, <1>2, OfNowStep, PTL DEF Spec
-----------------------------------------------------------------------------
(***************************************************************************)
(* The third layer: provenance.                                            *)
(***************************************************************************)

Closed(work, T) == Children(work, T) \subseteq T

(* The outputs of every activity are representations.                      *)
Made(work) == \A a \in Activity : work[a].outputs \subseteq Rep

Acyclic(work) == \A r \in Rep : r \notin Descendants(work, Children(work, {r}))

LEMMA ChildrenOf ==
    ASSUME NEW work, NEW S, NEW r
    PROVE  r \in Children(work, S) <=>
              \E b \in Activity : work[b].inputs \cap S # {} /\ r \in work[b].outputs
BY DEF Children

(* The children of a set are those of its members.                         *)
LEMMA ChildrenOfMembers ==
    ASSUME NEW work, NEW S
    PROVE  \A r : r \in Children(work, S) <=> \E q \in S : r \in Children(work, {q})
<1> SUFFICES ASSUME NEW r
             PROVE  r \in Children(work, S) <=> \E q \in S : r \in Children(work, {q})
  OBVIOUS
<1>1. ASSUME r \in Children(work, S) PROVE \E q \in S : r \in Children(work, {q})
  <2>1. PICK b \in Activity : work[b].inputs \cap S # {} /\ r \in work[b].outputs
    BY <1>1, ChildrenOf
  <2>2. PICK q \in S : q \in work[b].inputs
    BY <2>1
  <2>3. work[b].inputs \cap {q} # {}
    BY <2>2
  <2>4. r \in Children(work, {q})
    BY <2>1, <2>3, ChildrenOf
  <2> QED
    BY <2>4
<1>2. ASSUME NEW q \in S, r \in Children(work, {q}) PROVE r \in Children(work, S)
  <2>1. PICK b \in Activity : work[b].inputs \cap {q} # {} /\ r \in work[b].outputs
    BY <1>2, ChildrenOf
  <2>2. work[b].inputs \cap S # {}
    BY <2>1
  <2> QED
    BY <2>1, <2>2, ChildrenOf
<1> QED
  BY <1>1, <1>2

LEMMA ChildrenAreMade ==
    ASSUME NEW work, Made(work), NEW S
    PROVE  Children(work, S) \subseteq Rep
BY ChildrenOf DEF Made

(* The descendants of a set are the least closed set above it.             *)
LEMMA DescendantsAreLeast ==
    ASSUME NEW work, Made(work), NEW S \in SUBSET Rep
    PROVE  LET D == Descendants(work, S)
           IN /\ D \in SUBSET Rep /\ S \subseteq D /\ Closed(work, D)
              /\ \A T \in SUBSET Rep : S \subseteq T /\ Closed(work, T) => D \subseteq T
<1> DEFINE D == Descendants(work, S)
<1>1. \A r : r \in D <=>
         r \in Rep /\ \A T \in SUBSET Rep : S \subseteq T /\ Closed(work, T) => r \in T
  BY DEF Descendants, Closed
<1> HIDE DEF D
<1>2. D \in SUBSET Rep /\ S \subseteq D
  BY <1>1
<1>3. \A T \in SUBSET Rep : S \subseteq T /\ Closed(work, T) => D \subseteq T
  BY <1>1
<1>4. Closed(work, D)
  <2> SUFFICES ASSUME NEW r \in Children(work, D) PROVE r \in D
    BY DEF Closed
  <2>1. PICK q \in D : r \in Children(work, {q})
    BY ChildrenOfMembers
  <2>2. r \in Rep
    BY ChildrenAreMade
  <2>3. ASSUME NEW T \in SUBSET Rep, S \subseteq T, Closed(work, T) PROVE r \in T
    <3>1. q \in T
      BY <1>1, <2>3
    <3>2. r \in Children(work, T)
      BY <2>1, <3>1, ChildrenOfMembers
    <3> QED
      BY <2>3, <3>2 DEF Closed
  <2> QED
    BY <1>1, <2>2, <2>3
<1> QED
  BY <1>2, <1>3, <1>4 DEF D

(* What one more activity changes: whoever is not an input of it has no    *)
(* new children, and the new children of an input are its outputs.         *)
LEMMA ChildrenAdded ==
    ASSUME NEW work, NEW more, NEW a \in Activity, \A b \in Activity : b # a => more[b] = work[b],
           NEW q
    PROVE  \A r \in Children(more, {q}) :
              \/ r \in Children(work, {q})
              \/ q \in more[a].inputs /\ r \in more[a].outputs
<1> SUFFICES ASSUME NEW r \in Children(more, {q})
             PROVE  \/ r \in Children(work, {q})
                    \/ q \in more[a].inputs /\ r \in more[a].outputs
  OBVIOUS
<1>1. PICK b \in Activity : more[b].inputs \cap {q} # {} /\ r \in more[b].outputs
  BY ChildrenOf
<1>2. CASE b = a
  BY <1>1, <1>2
<1>3. CASE b # a
  <2>1. work[b].inputs \cap {q} # {} /\ r \in work[b].outputs
    BY <1>1, <1>3
  <2> QED
    BY <2>1, ChildrenOf
<1> QED
  BY <1>2, <1>3

(* The check of a new activity is enough.  A cycle through it would lead   *)
(* from its outputs back to its inputs; a cycle beside it was there        *)
(* before, because what follows from its outputs does not use it.          *)
LEMMA NoCycleAdded ==
    ASSUME NEW work, NEW more, NEW a \in Activity, \A b \in Activity : b # a => more[b] = work[b],
           Made(work), Made(more), Acyclic(work), ~CreatesCycle(more, a)
    PROVE  Acyclic(more)
<1> DEFINE O == more[a].outputs
           I == more[a].inputs
           D == Descendants(more, O)
<1>1. O \in SUBSET Rep
  BY DEF Made
<1>2. D \in SUBSET Rep /\ O \subseteq D /\ Closed(more, D)
  BY <1>1, DescendantsAreLeast
<1>3. D \cap I = {}
  BY DEF CreatesCycle
<1> HIDE DEF D
<1> SUFFICES ASSUME NEW r \in Rep PROVE r \notin Descendants(more, Children(more, {r}))
  BY DEF Acyclic
<1> DEFINE T == Descendants(work, Children(work, {r}))
<1>4. /\ T \in SUBSET Rep /\ Children(work, {r}) \subseteq T /\ Closed(work, T) /\ r \notin T
  <2>1. Children(work, {r}) \in SUBSET Rep
    BY ChildrenAreMade
  <2> QED
    BY <2>1, DescendantsAreLeast DEF Acyclic
<1> HIDE DEF T
<1>5. Children(more, {r}) \in SUBSET Rep
  BY ChildrenAreMade
<1>6. ASSUME NEW q PROVE /\ \A x \in Children(more, {q}) : x \in Children(work, {q}) \/ (q \in I /\ x \in O)
  BY ChildrenAdded
<1>7. CASE r \in D
  <2>1. Children(more, {r}) \subseteq T \cap D
    <3>1. Children(more, {r}) \subseteq T
      BY <1>3, <1>4, <1>6, <1>7
    <3>2. Children(more, {r}) \subseteq D
      BY <1>2, <1>7, ChildrenOfMembers DEF Closed
    <3> QED
      BY <3>1, <3>2
  <2>2. Closed(more, T \cap D)
    <3> SUFFICES ASSUME NEW x \in Children(more, T \cap D) PROVE x \in T \cap D
      BY DEF Closed
    <3>1. PICK q \in T \cap D : x \in Children(more, {q})
      BY ChildrenOfMembers
    <3>2. x \in D
      <4>1. x \in Children(more, D)
        BY <3>1, ChildrenOfMembers
      <4> QED
        BY <4>1, <1>2 DEF Closed
    <3>3. x \in Children(work, {q})
      BY <3>1, <1>3, <1>6
    <3>4. x \in Children(work, T)
      BY <3>1, <3>3, ChildrenOfMembers
    <3> QED
      BY <3>2, <3>4, <1>4 DEF Closed
  <2>3. T \cap D \in SUBSET Rep
    BY <1>2, <1>4
  <2>4. Descendants(more, Children(more, {r})) \subseteq T \cap D
    <3>1. \A U \in SUBSET Rep : Children(more, {r}) \subseteq U /\ Closed(more, U)
             => Descendants(more, Children(more, {r})) \subseteq U
      BY <1>5, DescendantsAreLeast
    <3> QED
      BY <2>1, <2>2, <2>3, <3>1, Zenon
  <2> QED
    BY <2>4, <1>4
<1>8. CASE r \notin D
  <2>1. Children(more, {r}) \subseteq T \cup D
    BY <1>2, <1>4, <1>6
  <2>2. Closed(more, T \cup D)
    <3> SUFFICES ASSUME NEW x \in Children(more, T \cup D) PROVE x \in T \cup D
      BY DEF Closed
    <3>1. PICK q \in T \cup D : x \in Children(more, {q})
      BY ChildrenOfMembers
    <3>2. CASE q \in D
      <4>1. x \in Children(more, D)
        BY <3>1, <3>2, ChildrenOfMembers
      <4> QED
        BY <4>1, <1>2 DEF Closed
    <3>3. CASE q \in T
      <4>1. CASE x \in Children(work, {q})
        <5>1. x \in Children(work, T)
          BY <3>3, <4>1, ChildrenOfMembers
        <5> QED
          BY <5>1, <1>4 DEF Closed
      <4>2. CASE x \in O
        BY <4>2, <1>2
      <4> QED
        BY <3>1, <4>1, <4>2, <1>6
    <3> QED
      BY <3>1, <3>2, <3>3
  <2>3. T \cup D \in SUBSET Rep
    BY <1>2, <1>4
  <2>4. Descendants(more, Children(more, {r})) \subseteq T \cup D
    BY <1>5, <2>1, <2>2, <2>3, DescendantsAreLeast, SMTT(30)
  <2> QED
    BY <2>4, <1>4, <1>8
<1> QED
  BY <1>7, <1>8

LEMMA AcyclicInit == Init => Acyclic(acts)
<1> SUFFICES ASSUME Init, NEW r \in Rep
             PROVE  r \notin Descendants(acts, Children(acts, {r}))
  BY DEF Acyclic
<1>1. \A a \in Activity : acts[a].inputs = {} /\ acts[a].outputs = {}
  <2>1. acts = [a \in Activity |-> Unused] /\ Unused.inputs = {} /\ Unused.outputs = {}
    BY DEF Init, Unused
  <2> QED
    BY <2>1
<1>2. Made(acts)
  BY <1>1 DEF Made
<1>3. \A S : Children(acts, S) = {}
  BY <1>1, ChildrenOf
<1>4. {} \in SUBSET Rep /\ Closed(acts, {})
  BY <1>3 DEF Closed
<1>5. Descendants(acts, {}) \subseteq {}
  BY <1>2, <1>4, DescendantsAreLeast
<1> QED
  BY <1>3, <1>5

LEMMA AcyclicStep == Formed /\ Formed' /\ Acyclic(acts) /\ [Next]_vars => Acyclic(acts')
<1> SUFFICES ASSUME Formed, Formed', Acyclic(acts), [Next]_vars PROVE Acyclic(acts')
  OBVIOUS
<1>1. Made(acts) /\ Made(acts')
  BY DEF Formed, TypeOK, Made
<1>2. CASE acts' = acts
  BY <1>2
<1>3. ASSUME NEW a \in Activity, NEW w \in Works, CreateActivity(a, w) PROVE Acyclic(acts')
  <2>1. acts' = [acts EXCEPT ![a] = Recorded(w)] /\ ~CreatesCycle(acts', a)
    BY <1>3 DEF CreateActivity
  <2>2. \A b \in Activity : b # a => acts'[b] = acts[b]
    BY <2>1 DEF Formed
  <2> QED
    BY <1>1, <2>1, <2>2, NoCycleAdded
<1>4. ASSUME acts' # acts PROVE \E a \in Activity, w \in Works : CreateActivity(a, w)
  <2>1. /\ \A q \in Rep : Import(q) => acts' = acts
        /\ \A q, edges, contents : RecordDependencySet(q, edges, contents) => acts' = acts
        /\ \A x, v : ObserveResource(x, v) => acts' = acts
    BY DEF Import, RecordDependencySet, ObserveResource, sources, prints
  <2>2. /\ \A c, q, d, x, v : Load(c, q, d, x, v) => acts' = acts
        /\ \A c : Record(c) \/ GiveUp(c) => acts' = acts
        /\ UNCHANGED vars => acts' = acts
    BY DEF Load, Record, GiveUp, known, vars
  <2> QED
    BY <1>4, <2>1, <2>2 DEF Next
<1> QED
  BY <1>2, <1>3, <1>4

(* No representation descends from itself, whatever activities are         *)
(* recorded and refused: the check of each new activity alone keeps the    *)
(* whole graph free of cycles, of any length.                              *)
THEOREM ProvenanceStaysAcyclic == Spec => []ProvenanceIsAcyclic
<1>1. Acyclic(acts) <=> ProvenanceIsAcyclic
  BY DEF Acyclic, ProvenanceIsAcyclic
<1>2. Formed /\ Formed' /\ Acyclic(acts) /\ [Next]_vars => Acyclic(acts)'
  BY AcyclicStep
<1> QED
  BY <1>1, <1>2, AcyclicInit, EvidenceIsFormed, PTL DEF Spec
=============================================================================
