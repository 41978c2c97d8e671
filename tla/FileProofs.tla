----------------------------- MODULE FileProofs -----------------------------
(***************************************************************************)
(* Proofs about the files of a production: its database file and the files *)
(* of its media.                                                           *)
(*                                                                         *)
(* ProductionFile, for every set of processes, whatever builds they are of *)
(* and however many faults there are.  The argument: a process that        *)
(* migrates is never more than one ahead of the file, so a migration that  *)
(* was not applied is the next one; and until somebody disturbs it the     *)
(* creator is the only one who migrates the file it has reserved.          *)
(*                                                                         *)
(* Resolver with Inventory and MediaFiles, for every set of files, roots,  *)
(* resources and processes, without a bound on what happens.  The          *)
(* argument: a stamp belongs to one content for good, so an entry of a     *)
(* cache that is whole vouches for whoever has its stamp, however old the  *)
(* cache is.  While no file changes a scan has noted every file in sight   *)
(* or has it still to come, once below every root; a resolution has every  *)
(* place that bears the resource among its matches, its files to compare   *)
(* or what it has still to come past.  What has changed meanwhile shows in *)
(* the number of writes, and nothing is claimed of such a call.            *)
(***************************************************************************)
EXTENDS ProductionFile, Resolver, FiniteSetTheorems, SequenceTheorems, WellFoundedInduction, TLAPS

(* What a creator may rely on until its identity is stored.                *)
Reserved(p) ==
    /\ At(p, "version")  => version = 0
    /\ At(p, "migrate")  => process[p].next = version + 1 /\ version <= Newest[p]
    /\ At(p, "identity") => version = Newest[p]

(* Who migrates has seen a version, and the file only grows; who creates   *)
(* is the one who reserved the file, and works on it alone.                *)
CallOK(p) ==
    /\ At(p, "migrate") => process[p].next <= version + 1
    /\ At(p, "identity") => process[p].creates
    /\ process[p].creates => p = reserver
    /\ process[p].creates /\ ~disturbed /\ identity = None => Reserved(p)

IInv == TypeOK /\ CreatedIsOpenable /\ \A p \in Process : CallOK(p)
-----------------------------------------------------------------------------
(* The list of migrations grows by the next one.                           *)
LEMMA NextMigration ==
    ASSUME NEW v \in Nat, NEW h, h = [k \in 1..v |-> k]
    PROVE  /\ h \in Seq(Nat)
           /\ Append(h, v + 1) = [k \in 1..(v + 1) |-> k]
           /\ \A n \in Nat \ {0} : (\E i \in DOMAIN h : h[i] = n) <=> n <= v
<1>1. h \in [1..v -> Nat]
  OBVIOUS
<1>2. h \in Seq(Nat)
  BY <1>1, SeqDef
<1>3. Len(h) = v /\ DOMAIN h = 1..v
  BY <1>1, <1>2, LenProperties
<1>4. Append(h, v + 1) = [k \in 1..(v + 1) |-> k]
  <2>1. /\ Append(h, v + 1) \in Seq(Nat)
        /\ Len(Append(h, v + 1)) = v + 1
        /\ \A i \in 1..v : Append(h, v + 1)[i] = h[i]
        /\ Append(h, v + 1)[v + 1] = v + 1
    BY <1>2, <1>3, AppendProperties
  <2>2. Append(h, v + 1) \in [1..(v + 1) -> Nat]
    BY <2>1, LenProperties
  <2>3. \A i \in 1..(v + 1) : Append(h, v + 1)[i] = i
    BY <2>1
  <2> QED
    BY <2>2, <2>3
<1> QED
  BY <1>2, <1>3, <1>4

LEMMA FileInit == Init => IInv
<1> SUFFICES ASSUME Init PROVE IInv
  OBVIOUS
<1>1. history = [k \in 1..version |-> k] /\ history \in Seq(Nat)
  BY DEF Init
<1>2. TypeOK
  <2>1. Idle \in [pc : Steps, creates : BOOLEAN, next : Nat \ {0}]
    BY DEF Idle, Call, Steps
  <2>2. process \in [Process -> [pc : Steps, creates : BOOLEAN, next : Nat \ {0}]]
    BY <2>1 DEF Init
  <2>3. \A p \in Process : At(p, "idle")
    BY DEF Init, Idle, Call, At
  <2>4. faults \in 0..MaxFaults /\ version \in Nat /\ record \in Nat
    BY MaxFaultsAssumption DEF Init
  <2>5. exists = FALSE /\ disturbed = FALSE /\ identity = None /\ reserver = None /\ version = 0
    BY DEF Init
  <2> QED
    BY <1>1, <2>2, <2>3, <2>4, <2>5 DEF TypeOK
<1>3. CreatedIsOpenable
  BY <1>1 DEF Init, CreatedIsOpenable, Idle, Call, At
<1>4. ASSUME NEW p \in Process PROVE CallOK(p)
  BY DEF Init, CallOK, Idle, Call, At
<1> QED
  BY <1>2, <1>3, <1>4 DEF IInv
-----------------------------------------------------------------------------
(* Steps that change nothing but one call, and leave the file alone.       *)
LEMMA CallStep ==
    ASSUME IInv, NEW p \in Process, UNCHANGED <<exists, database, reserver, disturbed>>,
           NEW c \in [pc : Steps, creates : BOOLEAN, next : Nat \ {0}],
           process' = [process EXCEPT ![p] = c], faults' \in 0..MaxFaults, exists,
           c.pc = "migrate" => c.next <= version + 1,
           c.pc = "identity" => c.creates,
           c.pc = "opened" => identity # None,
           c.creates => p = reserver,
           c.creates /\ ~disturbed /\ identity = None =>
               /\ c.pc = "version"  => version = 0
               /\ c.pc = "migrate"  => c.next = version + 1 /\ version <= Newest[p]
               /\ c.pc = "identity" => version = Newest[p]
    PROVE  IInv'
<1> USE DEF IInv, TypeOK, database
<1>1. process'[p] = c /\ \A q \in Process \ {p} : process'[q] = process[q]
  OBVIOUS
<1>2. TypeOK'
  BY <1>1 DEF At
<1>3. CreatedIsOpenable'
  BY <1>1 DEF CreatedIsOpenable, At
<1>4. ASSUME NEW q \in Process PROVE CallOK(q)'
  BY <1>1 DEF CallOK, At, Reserved
<1> QED
  BY <1>2, <1>3, <1>4

(* A call that ends, in whatever way, leaves an idle process.              *)
LEMMA IdleCall ==
    /\ Idle \in [pc : Steps, creates : BOOLEAN, next : Nat \ {0}]
    /\ Idle.pc = "idle" /\ Idle.creates = FALSE
BY DEF Idle, Call, Steps

LEMMA FailStep ==
    ASSUME IInv, NEW p \in Process, UNCHANGED <<exists, database, reserver, disturbed>>,
           Fails(p), faults' \in 0..MaxFaults, exists
    PROVE  IInv'
BY IdleCall, CallStep DEF Fails, Become

LEMMA CreateStep ==
    ASSUME IInv, NEW p \in Process, Create(p) PROVE IInv'
<1> USE DEF IInv, TypeOK, database
<1> DEFINE c == Call("version", TRUE)
<1>1. c \in [pc : Steps, creates : BOOLEAN, next : Nat \ {0}] /\ c.pc = "version" /\ c.creates
  BY DEF Call, Steps
<1> HIDE DEF c
<1>2. /\ process' = [process EXCEPT ![p] = c]
      /\ ~exists /\ exists' = TRUE /\ reserver' = p /\ UNCHANGED <<database, disturbed, faults>>
  BY DEF Create, Become, c
<1>3. process'[p] = c /\ \A q \in Process \ {p} : process'[q] = process[q]
  BY <1>2
<1>4. version = 0 /\ identity = None /\ \A q \in Process : At(q, "idle")
  BY <1>2
<1>5. TypeOK'
  BY <1>1, <1>2, <1>3, NoneAssumption
<1>6. CreatedIsOpenable'
  BY <1>1, <1>2, <1>3, <1>4 DEF CreatedIsOpenable, At
<1>7. reserver = None
  BY <1>2
<1>8. ASSUME NEW q \in Process PROVE CallOK(q)'
  <2>1. CASE q = p
    BY <2>1, <1>1, <1>2, <1>3, <1>4 DEF CallOK, At, Reserved
  <2>2. CASE q # p
    <3>1. q # reserver
      BY <1>7, NoneAssumption
    <3>2. ~process[q].creates /\ process[q].pc = "idle"
      BY <3>1, <1>4 DEF CallOK, At
    <3> QED
      BY <2>2, <3>2, <1>2, <1>3 DEF CallOK, At
  <2> QED
    BY <2>1, <2>2
<1> QED
  BY <1>5, <1>6, <1>8

LEMMA OpenStep ==
    ASSUME IInv, NEW p \in Process, Open(p) PROVE IInv'
<1> DEFINE c == Call("version", FALSE)
<1>1. c \in [pc : Steps, creates : BOOLEAN, next : Nat \ {0}] /\ c.pc = "version" /\ ~c.creates
  BY DEF Call, Steps
<1> HIDE DEF c
<1>2. /\ process' = [process EXCEPT ![p] = c] /\ exists
      /\ UNCHANGED <<exists, database, reserver, disturbed, faults>>
  BY DEF Open, Become, c
<1>3. faults' \in 0..MaxFaults
  BY <1>2 DEF IInv, TypeOK
<1> QED
  BY <1>1, <1>2, <1>3, CallStep

(* A process that is not idle has a file.                                  *)
LEMMA FileExists ==
    ASSUME IInv, NEW p \in Process, ~At(p, "idle") PROVE exists
BY DEF IInv, TypeOK

LEMMA ReadVersionStep ==
    ASSUME IInv, NEW p \in Process, ReadVersion(p) PROVE IInv'
<1>1. exists /\ faults' \in 0..MaxFaults
  BY FileExists DEF ReadVersion, At, IInv, TypeOK
<1>2. UNCHANGED <<exists, database, reserver, disturbed>>
  BY DEF ReadVersion
<1>3. CASE version > Newest[p]
  BY <1>1, <1>2, <1>3, FailStep DEF ReadVersion
<1>4. CASE ~(version > Newest[p])
  <2> DEFINE c == [process[p] EXCEPT !.pc = "migrate", !.next = version + 1]
  <2>1. process' = [process EXCEPT ![p] = c]
    BY <1>4 DEF ReadVersion, IInv, TypeOK
  <2>2. /\ c \in [pc : Steps, creates : BOOLEAN, next : Nat \ {0}]
        /\ c.pc = "migrate" /\ c.next = version + 1 /\ c.creates = process[p].creates
    <3>1. /\ process[p] \in [pc : Steps, creates : BOOLEAN, next : Nat \ {0}]
          /\ version + 1 \in Nat \ {0}
      BY DEF IInv, TypeOK
    <3> QED
      BY <3>1 DEF Steps
  <2>3. c.creates => p = reserver
    BY <2>2 DEF IInv, CallOK
  <2>4. c.creates /\ ~disturbed /\ identity = None => version <= Newest[p]
    BY <1>4, NewestAssumption DEF IInv, TypeOK
  <2>5. c.next <= version + 1
    BY <2>2 DEF IInv, TypeOK
  <2> HIDE DEF c
  <2> QED
    BY <1>1, <1>2, <2>1, <2>2, <2>3, <2>4, <2>5, CallStep
<1> QED
  BY <1>3, <1>4

LEMMA MigratedStep ==
    ASSUME IInv, NEW p \in Process, Migrated(p) PROVE IInv'
<1>1. exists /\ faults' \in 0..MaxFaults
  BY FileExists DEF Migrated, At, IInv, TypeOK
<1>2. UNCHANGED <<exists, database, reserver, disturbed>>
  BY DEF Migrated
<1> DEFINE pc == IF process[p].creates THEN "identity" ELSE "load"
           c  == [process[p] EXCEPT !.pc = pc]
<1>3. process' = [process EXCEPT ![p] = c]
  BY DEF Migrated, Goto, IInv, TypeOK
<1>4. /\ c \in [pc : Steps, creates : BOOLEAN, next : Nat \ {0}]
      /\ c.pc = pc /\ c.creates = process[p].creates
  <2>1. pc \in Steps
    BY DEF Steps
  <2>2. process[p] \in [pc : Steps, creates : BOOLEAN, next : Nat \ {0}]
    BY DEF IInv, TypeOK
  <2> QED
    BY <2>1, <2>2
<1>5. c.creates => p = reserver
  BY <1>4 DEF IInv, CallOK
<1>6. c.creates /\ ~disturbed /\ identity = None => version = Newest[p]
  <2> SUFFICES ASSUME c.creates, ~disturbed, identity = None PROVE version = Newest[p]
    OBVIOUS
  <2>1. process[p].next = version + 1 /\ version <= Newest[p]
    BY <1>4 DEF IInv, CallOK, Reserved, Migrated, At
  <2> QED
    BY <2>1, NewestAssumption DEF Migrated, IInv, TypeOK
<1>7. pc \in {"identity", "load"} /\ (pc = "identity" => c.creates)
  BY <1>4
<1> HIDE DEF c, pc
<1> QED
  BY <1>1, <1>2, <1>3, <1>4, <1>5, <1>6, <1>7, CallStep

LEMMA LoadStep ==
    ASSUME IInv, NEW p \in Process, LoadIdentity(p) PROVE IInv'
<1>1. exists /\ faults' \in 0..MaxFaults
  BY FileExists DEF LoadIdentity, At, IInv, TypeOK
<1>2. UNCHANGED <<exists, database, reserver, disturbed>>
  BY DEF LoadIdentity
<1>3. CASE identity = None \/ record # Newest[p]
  BY <1>1, <1>2, <1>3, FailStep DEF LoadIdentity
<1>4. CASE identity # None
  <2> DEFINE c == [process[p] EXCEPT !.pc = "opened"]
  <2>1. process' = [process EXCEPT ![p] = c] \/ Fails(p)
    BY DEF LoadIdentity, Goto, IInv, TypeOK
  <2>2. /\ c \in [pc : Steps, creates : BOOLEAN, next : Nat \ {0}]
        /\ c.pc = "opened" /\ c.creates = process[p].creates
    BY DEF IInv, TypeOK, Steps
  <2>3. c.creates => p = reserver
    BY <2>2 DEF IInv, CallOK
  <2> HIDE DEF c
  <2>4. CASE Fails(p)
    BY <1>1, <1>2, <2>4, FailStep
  <2>5. CASE process' = [process EXCEPT ![p] = c]
    BY <1>1, <1>2, <1>4, <2>2, <2>3, <2>5, CallStep
  <2> QED
    BY <2>1, <2>4, <2>5
<1> QED
  BY <1>3, <1>4

(* A migration that was not applied is the next one.                       *)
LEMMA MigrateStep ==
    ASSUME IInv, NEW p \in Process, Migrate(p) PROVE IInv'
<1> DEFINE k == process[p].next
<1>1. exists /\ faults' \in 0..MaxFaults
  BY FileExists DEF Migrate, At, IInv, TypeOK
<1>2. CASE Applied(k)
  BY <1>1, <1>2, FailStep DEF Migrate, database
<1>3. CASE ~Applied(k)
  <2>1. /\ At(p, "migrate") /\ k <= Newest[p] /\ k \in Nat \ {0} /\ Newest[p] \in Nat
        /\ version \in Nat /\ history = [i \in 1..version |-> i]
    BY NewestAssumption DEF Migrate, IInv, TypeOK, CreatedIsOpenable
  <2>2. k = version + 1
    <3>1. ~(k <= version)
      BY <1>3, <2>1, NextMigration DEF Applied
    <3>2. k <= version + 1
      BY <2>1 DEF IInv, CallOK
    <3> QED
      BY <2>1, <3>1, <3>2
  <2>3. /\ version' = version + 1 /\ history' = Append(history, version + 1)
        /\ record' = IF identity = None THEN record ELSE version + 1
        /\ disturbed' = (disturbed \/ (identity = None /\ ~process[p].creates))
        /\ process' = [process EXCEPT ![p].next = k + 1]
        /\ UNCHANGED <<exists, identity, reserver, faults>>
    BY <1>3, <2>2 DEF Migrate
  <2>4. history' = [i \in 1..version' |-> i] /\ history' \in Seq(Nat)
    <3>1. version + 1 \in Nat /\ history \in Seq(Nat)
      BY <2>1, NextMigration
    <3> QED
      BY <2>1, <2>3, <3>1, NextMigration, AppendProperties
  <2>5. process'[p] = [process[p] EXCEPT !.next = k + 1]
    BY <2>3 DEF IInv, TypeOK
  <2>6. /\ process'[p].pc = "migrate" /\ process'[p].creates = process[p].creates
        /\ process'[p].next = version' + 1
        /\ \A q \in Process \ {p} : process'[q] = process[q]
    BY <2>1, <2>2, <2>3, <2>5 DEF IInv, TypeOK, At
  <2>7. process' \in [Process -> [pc : Steps, creates : BOOLEAN, next : Nat \ {0}]]
    <3>1. k + 1 \in Nat \ {0}
      BY <2>1
    <3>2. process \in [Process -> [pc : Steps, creates : BOOLEAN, next : Nat \ {0}]]
      BY DEF IInv, TypeOK
    <3> HIDE DEF k
    <3> QED
      BY <2>3, <3>1, <3>2
  <2>8. TypeOK'
    BY <1>1, <2>1, <2>3, <2>4, <2>7 DEF IInv, TypeOK
  <2>9. CreatedIsOpenable'
    BY <2>1, <2>3, <2>4, <2>6 DEF IInv, CreatedIsOpenable, At
  <2>10. ASSUME NEW q \in Process PROVE CallOK(q)'
    <3>1. CallOK(q) /\ CallOK(p) /\ process[q] \in [pc : Steps, creates : BOOLEAN, next : Nat \ {0}]
      BY DEF IInv, TypeOK
    <3>2. CASE q = p
      BY <3>1, <3>2, <2>1, <2>2, <2>3, <2>6 DEF CallOK, Reserved, At
    <3>3. CASE q # p
      <4>1. process'[q] = process[q]
        BY <3>3, <2>6
      <4>2. process[q].creates /\ identity = None => ~process[p].creates /\ disturbed'
        BY <3>1, <3>3, <2>3 DEF CallOK
      <4> QED
        BY <3>1, <4>1, <4>2, <2>1, <2>3 DEF CallOK, Reserved, At
    <3> QED
      BY <3>2, <3>3
  <2> QED
    BY <2>8, <2>9, <2>10 DEF IInv
<1> QED
  BY <1>2, <1>3

(* The creator stores the version of its build, and that is the file's.    *)
LEMMA PersistStep ==
    ASSUME IInv, NEW p \in Process, PersistIdentity(p) PROVE IInv'
<1>1. exists /\ faults' \in 0..MaxFaults
  BY FileExists DEF PersistIdentity, At, IInv, TypeOK
<1>2. CASE identity # None
  BY <1>1, <1>2, FailStep DEF PersistIdentity, database
<1>3. CASE identity = None
  <2>1. /\ At(p, "identity") /\ identity' = p /\ record' = Newest[p]
        /\ process' = [process EXCEPT ![p].pc = "opened"]
        /\ UNCHANGED <<exists, version, history, reserver, disturbed, faults>>
    BY <1>3 DEF PersistIdentity, Goto
  <2>2. CallOK(p) /\ process[p] \in [pc : Steps, creates : BOOLEAN, next : Nat \ {0}]
    BY DEF IInv, TypeOK
  <2>3. p = reserver /\ (~disturbed => version = Newest[p])
    BY <1>3, <2>1, <2>2 DEF CallOK, Reserved
  <2>4. /\ process'[p].pc = "opened" /\ process'[p].creates = process[p].creates
        /\ \A q \in Process \ {p} : process'[q] = process[q]
        /\ process' \in [Process -> [pc : Steps, creates : BOOLEAN, next : Nat \ {0}]]
    BY <2>1 DEF IInv, TypeOK, Steps
  <2>5. p # None /\ Newest[p] \in Nat
    BY NoneAssumption, NewestAssumption
  <2>6. TypeOK'
    BY <1>1, <2>1, <2>4, <2>5 DEF IInv, TypeOK
  <2>7. CreatedIsOpenable'
    BY <2>1, <2>3, <2>4, <2>5 DEF IInv, CreatedIsOpenable, At
  <2>8. ASSUME NEW q \in Process PROVE CallOK(q)'
    BY <2>1, <2>2, <2>4, <2>5 DEF IInv, CallOK, At
  <2> QED
    BY <2>6, <2>7, <2>8 DEF IInv
<1> QED
  BY <1>2, <1>3
-----------------------------------------------------------------------------
LEMMA FileStep ==
    ASSUME IInv, [Next]_vars PROVE IInv'
<1>1. ASSUME NEW p \in Process, Step(p) PROVE IInv'
  BY <1>1, ReadVersionStep, MigrateStep, MigratedStep, PersistStep, LoadStep DEF Step
<1>2. ASSUME NEW p \in Process, Close(p) PROVE IInv'
  <2>1. exists /\ faults' \in 0..MaxFaults /\ UNCHANGED <<exists, database, reserver, disturbed>>
    BY <1>2, FileExists DEF Close, At, IInv, TypeOK
  <2> QED
    BY <1>2, <2>1, FailStep DEF Close
<1>3. ASSUME NEW p \in Process, Fault(p) PROVE IInv'
  <2>1. exists /\ faults' \in 0..MaxFaults /\ UNCHANGED <<exists, database, reserver, disturbed>>
    BY <1>3, FileExists, MaxFaultsAssumption DEF Fault, At, IInv, TypeOK
  <2> QED
    BY <1>3, <2>1, FailStep DEF Fault
<1>4. ASSUME UNCHANGED vars PROVE IInv'
  BY <1>4 DEF vars, database, IInv, TypeOK, CreatedIsOpenable, CallOK, Reserved, At
<1> QED
  BY <1>1, <1>2, <1>3, <1>4, CreateStep, OpenStep DEF Next

THEOREM FilesStaySound == Spec => []IInv
BY FileInit, FileStep, PTL DEF Spec

(* A production is the one its creator made, its migrations are applied    *)
(* once and in order whoever runs them, whoever has it open finds its      *)
(* identity, and unless it was migrated by somebody else before it had one *)
(* the version in its row is that of the file.                             *)
THEOREM ProductionsStayOpenable == Spec => []CreatedIsOpenable
<1>1. IInv => CreatedIsOpenable
  BY DEF IInv
<1> QED BY <1>1, FilesStaySound, PTL
-----------------------------------------------------------------------------
(* The media of a production: what holds of the files, the cache and the   *)
(* call of every process between two steps.                                *)

VersionsOf(u) == IF u \in File THEN FileVersion ELSE FolderVersion
ContentOf(x)  == IF x \in SequenceResource THEN FolderVersion ELSE FileVersion

(* Every write leaves a stamp of its own, which moves take along.          *)
WorldInv ==
    /\ disk \in [Place -> [version : Version \cup {Gone}, stamp : Nat]]
    /\ mounted \subseteq Root /\ enabled \subseteq Root /\ writes \in Nat
    /\ original \in [Resource -> Version \cup {Gone}]
    /\ locators \in [Resource -> SUBSET Place]
    /\ \A u \in Place : /\ disk[u].version \in VersionsOf(u) \cup {Gone}
                        /\ disk[u].stamp <= Len(PlaceOrder) + writes
                        /\ disk[u].stamp = 0 <=> disk[u].version = Gone
    /\ \A u, w \in Place : disk[u].stamp = disk[w].stamp => u = w \/ disk[u].stamp = 0
    /\ \A x \in Resource : original[x] \in ContentOf(x) \cup {Gone} /\ locators[x] \subseteq Kind(x)
-----------------------------------------------------------------------------
Digests == {DigestOf[v] : v \in FileVersion} \cup {Gone}
EntryRec == [uri : File, size : {SizeOf[v] : v \in FileVersion}, stamp : Nat, print : Digests,
             whole : BOOLEAN]

(* What an entry vouches for: whoever has its stamp now has that content.  *)
Honest(e) ==
    /\ e.stamp \in 1..(Len(PlaceOrder) + writes)
    /\ e.whole /\ e.print # Gone => \A w \in Place : disk[w].stamp = e.stamp => Digest(w) = e.print

CacheRec == {Absent, Torn} \cup [form : {"cache"}, roots : SUBSET Root, entries : SUBSET EntryRec]
FileOK(file) == file \in CacheRec /\ (file.form = "cache" => \A e \in file.entries : Honest(e))

ScanSteps == {"load", "walk", "read", "create", "write", "rename", "done", "failed"}
ScanRec(c) ==
    [pc : ScanSteps, mapped : SUBSET Root, usable : SUBSET Root, known : SUBSET Imported,
     places : [Resource -> SUBSET Place], cache : SUBSET EntryRec, roots : SUBSET Root,
     todo : Seq(Place), seen : Seq(EntryRec), visited : Nat, items : {c.items},
     target : {"none", "temporary", "cache", "nowhere"}, since : 0..writes]

(* Every visit is of a place below a root of its own.                      *)
Early == {"load", "walk", "read"}
VisitsBy(c, f) ==
    /\ \A i \in DOMAIN c.seen : c.seen[i].uri \in ToSet(Under[f[i]])
    /\ \A i, j \in DOMAIN c.seen : f[i] = f[j] /\ c.seen[i].uri = c.seen[j].uri => i = j
    /\ c.todo # <<>> => \E r \in Root \ c.roots :
          /\ ToSet(c.todo) \subseteq ToSet(Under[r])
          /\ \A i \in DOMAIN c.seen : f[i] = r /\ c.seen[i].uri \in ToSet(c.todo) =>
                c.pc = "read" /\ i = Len(c.seen)
Visits(c) == \E f \in [DOMAIN c.seen -> Root \ c.roots] : VisitsBy(c, f)

ScanOK(c) ==
    /\ "seen" \in DOMAIN c /\ c \in ScanRec(c)
    /\ \A e \in c.cache : Honest(e)
    /\ \A i \in DOMAIN c.seen : Honest(c.seen[i])
    /\ c.roots \subseteq c.usable
    /\ c.pc \in Early => /\ \A t \in c.items : t.kind \in {"root unmapped", "root unavailable"}
                         /\ IsInjective(c.todo) /\ Visits(c)
    /\ c.pc = "load" => c.seen = <<>> /\ c.todo = <<>> /\ c.roots = c.usable
    /\ c.pc = "read" => /\ c.todo # <<>> /\ c.seen # <<>> /\ c.seen[Len(c.seen)].uri = c.todo[1]
                        /\ c.seen[Len(c.seen)].print = Gone

(* While the files do not change.                                          *)
SeenOK(c, i) ==
    LET e == c.seen[i]
        u == e.uri IN
    /\ u \in Sight(c) /\ e.size = Size(u) /\ e.stamp = disk[u].stamp
    /\ \/ Replaced(c, u) \/ (Doubtful(c, u) /\ e.print = Gone)
       \/ (c.pc = "read" /\ i = Len(c.seen))
       \/ e.print = IF Interesting(c, Size(u)) THEN Digest(u) ELSE Gone
ToCome(c) == ToSet(c.todo) \cup UNION {ToSet(Under[r]) : r \in c.roots \cap Searched(c.usable, c.mapped)}

ScanTrue(c) ==
    /\ c.pc \in Early =>
         /\ \A i \in DOMAIN c.seen : SeenOK(c, i)
         /\ \A u \in ToSet(c.todo) : Within(u) \cap Searched(c.usable, c.mapped) # {}
         /\ \A u \in Sight(c) : u \in ToCome(c) \/ \E i \in DOMAIN c.seen : c.seen[i].uri = u
         /\ c.pc = "read" => Interesting(c, Size(c.todo[1]))
    /\ c.pc \in {"create", "write", "rename", "done"} => ReportIsTrue(c)
-----------------------------------------------------------------------------
States == {"online", "exact", "probable", "ambiguous", "offline", "error"}
AnswerRec == [state : States, candidates : SUBSET Place, frames : SUBSET Frame]
ResolutionSteps == {"next", "verify", "walk", "done"}
ResolutionRec(c) ==
    [pc : ResolutionSteps, readsAll : BOOLEAN, verifies : BOOLEAN, mapped : SUBSET Root,
     usable : SUBSET Root, toRead : SUBSET Imported, toResolve : SUBSET Imported,
     places : {c.places}, roots : SUBSET Root, todo : Seq(Place),
     visited : Nat, searched : BOOLEAN, found : SUBSET Place, matches : SUBSET Place,
     frames : SUBSET Frame, answers : {c.answers}, since : 0..writes]

ResolutionOK(c) ==
    /\ "answers" \in DOMAIN c /\ c \in ResolutionRec(c)
    /\ DOMAIN c.places \subseteq Imported
    /\ c.toRead \subseteq c.toResolve /\ c.toRead \cap DOMAIN c.places = {}
    /\ DOMAIN c.answers \subseteq DOMAIN c.places \ c.toResolve
    /\ \A x \in DOMAIN c.places : c.places[x] \subseteq Kind(x)
    /\ \A x \in DOMAIN c.answers :
          c.answers[x] \in AnswerRec /\ c.answers[x].candidates \subseteq Kind(x)
    /\ c.toResolve = {} /\ c.pc = "next" => DOMAIN c.places = {}
    /\ c.pc \in {"verify", "walk"} => /\ c.toResolve # {} /\ Current(c) \in DOMAIN c.places
                                      /\ c.found \cup c.matches \subseteq Kind(Current(c))
    /\ c.pc \in {"next", "verify", "done"} =>
         c.todo = <<>> /\ c.matches = {} /\ c.visited = 0 /\ c.searched = TRUE
    /\ c.pc \in {"next", "done"} => c.found = {} /\ c.frames = {}
    /\ c.pc = "verify" => c.verifies /\ \E u \in Place : c.found = {u}
    /\ c.roots \subseteq c.usable

AnswerTold(c, x) ==
    /\ AnswerIsTrue(c, x)
    /\ c.answers[x].state = "online" /\ x \in SequenceResource =>
          \A u \in c.answers[x].candidates : c.answers[x].frames = Missing(x, u)

(* The known place that is looked at again.                                *)
KnownOK(c, x) ==
    \A u \in c.found : /\ u \in c.places[x] /\ Present(u)
                       /\ c.frames = IF x \in SequenceResource THEN Missing(x, u) ELSE {}

(* What a walk has come past: pairs of a place and a root, and roots.      *)
Counted(c) ==
    \E V \in SUBSET (InSight(c.usable, c.mapped) \X (Root \ c.roots)), W \in SUBSET (Root \ c.roots) :
        /\ Cardinality(V) + Cardinality(W) = c.visited
        /\ c.todo # <<>> => \E r \in Root \ c.roots : \A u \in ToSet(c.todo) : <<u, r>> \notin V

WalkOK(c, x) ==
    /\ \A u \in c.places[x] : ~Present(u)
    /\ c.matches \subseteq Rivals(c, x)
    /\ \A u \in c.found : u \in InSight(c.usable, c.mapped) \cap File
    /\ Rivals(c, x) \subseteq c.matches \cup c.found \cup ToCome(c)
    /\ \A u \in ToSet(c.todo) : Within(u) \cap Searched(c.usable, c.mapped) # {}
    /\ IF c.searched THEN c.usable \ c.roots \subseteq Searched(c.usable, c.mapped)
       ELSE c.usable # Searched(c.usable, c.mapped)
    /\ IsInjective(c.todo) /\ Counted(c)

ResolutionTrue(c) ==
    /\ \A x \in DOMAIN c.answers : AnswerTold(c, x)
    /\ c.pc = "verify" => KnownOK(c, Current(c))
    /\ c.pc = "walk" => WalkOK(c, Current(c))
-----------------------------------------------------------------------------
RecordOK(c) ==
    \/ c = Asleep
    \/ ScanOK(c) /\ (c.since = writes => ScanTrue(c))
    \/ ResolutionOK(c) /\ (c.since = writes => ResolutionTrue(c))

MediaInv == /\ WorldInv /\ FileOK(cacheFile) /\ FileOK(tmpFile)
            /\ DOMAIN call = Searcher /\ \A p \in Searcher : RecordOK(call[p])
-----------------------------------------------------------------------------
(* Numbers, sequences and orders.                                          *)

(* A set of numbers has a least one.                                       *)
LEMMA LeastOf ==
    ASSUME NEW S \in SUBSET Nat, S # {}
    PROVE  \E m \in S : \A n \in S : m <= n
<1>1. PICK m \in S : \A n \in S : ~(<<n, m>> \in OpToRel(<, Nat))
  BY NatLessThanWellFounded, WFMin
<1>2. ASSUME NEW n \in S PROVE m <= n
  <2>1. ~(n < m)
    BY <1>1 DEF OpToRel
  <2> QED
    BY <2>1
<1> QED
  BY <1>2

(* What is first in an order is in the set.                                *)
LEMMA FirstIsIn ==
    ASSUME NEW T, NEW order \in Seq(T), ToSet(order) = T, NEW S \in SUBSET T, S # {}
    PROVE  FirstIn(order, S) \in S
<1> DEFINE at == {i \in DOMAIN order : order[i] \in S}
<1>1. DOMAIN order = 1..Len(order) /\ Len(order) \in Nat
  BY LenProperties
<1>2. at \in SUBSET Nat /\ at # {}
  <2>1. PICK x \in S : x \in ToSet(order)
    OBVIOUS
  <2> QED
    BY <1>1, <2>1 DEF ToSet
<1>3. PICK i \in at : \A j \in at : i <= j
  BY <1>2, LeastOf
<1>4. order[i] \in S /\ \A j \in 1..(i - 1) : order[j] \notin S
  <2>1. ASSUME NEW j \in 1..(i - 1), order[j] \in S PROVE FALSE
    BY <1>1, <1>3, <2>1
  <2> QED
    BY <1>3, <2>1
<1> QED
  BY <1>3, <1>4 DEF FirstIn

LEMMA FirstPlace ==
    ASSUME NEW S \in SUBSET Place, S # {}
    PROVE  FirstOf(S) \in S
BY FirstIsIn, PlacesAssumption DEF FirstOf

(* The first element of a sequence and the others.                         *)
LEMMA HeadAndTail ==
    ASSUME NEW T, NEW s \in Seq(T), s # <<>>
    PROVE  /\ Head(s) = s[1] /\ s[1] \in T /\ s[1] \in ToSet(s) /\ Tail(s) \in Seq(T)
           /\ ToSet(s) = {s[1]} \cup ToSet(Tail(s))
           /\ IsInjective(s) => IsInjective(Tail(s)) /\ s[1] \notin ToSet(Tail(s))
<1>1. DOMAIN s = 1..Len(s) /\ Len(s) \in Nat \ {0}
  BY LenProperties, EmptySeq
<1>2. /\ Tail(s) \in Seq(T) /\ Len(Tail(s)) = Len(s) - 1
      /\ \A i \in 1..Len(Tail(s)) : Tail(s)[i] = s[i + 1]
  BY HeadTailProperties
<1>3. DOMAIN Tail(s) = 1..(Len(s) - 1)
  BY <1>2, LenProperties
<1>4. Head(s) = s[1] /\ s[1] \in T /\ s[1] \in ToSet(s)
  BY <1>1, ElementOfSeq DEF ToSet
<1>5. ToSet(s) = {s[1]} \cup ToSet(Tail(s))
  <2>1. ASSUME NEW i \in 1..Len(s), i # 1
        PROVE  i - 1 \in 1..(Len(s) - 1) /\ Tail(s)[i - 1] = s[i]
    BY <1>1, <1>2, <2>1
  <2>2. ASSUME NEW i \in 1..(Len(s) - 1)
        PROVE  i + 1 \in 1..Len(s) /\ Tail(s)[i] = s[i + 1]
    BY <1>1, <1>2
  <2>3. ASSUME NEW i \in DOMAIN s PROVE s[i] \in {s[1]} \cup ToSet(Tail(s))
    <3>1. CASE i = 1
      BY <3>1
    <3>2. CASE i # 1
      BY <1>1, <1>3, <2>1, <3>2 DEF ToSet
    <3> QED
      BY <3>1, <3>2
  <2>4. ASSUME NEW i \in DOMAIN Tail(s) PROVE Tail(s)[i] \in ToSet(s)
    BY <1>1, <1>3, <2>2 DEF ToSet
  <2>5. ToSet(s) = {s[i] : i \in DOMAIN s} /\ ToSet(Tail(s)) = {Tail(s)[i] : i \in DOMAIN Tail(s)}
    BY DEF ToSet
  <2> QED
    BY <1>4, <2>3, <2>4, <2>5
<1>6. ASSUME IsInjective(s) PROVE IsInjective(Tail(s)) /\ s[1] \notin ToSet(Tail(s))
  <2>1. ASSUME NEW i \in 1..(Len(s) - 1), NEW j \in 1..(Len(s) - 1), Tail(s)[i] = Tail(s)[j]
        PROVE  i = j
    <3>1. i + 1 \in DOMAIN s /\ j + 1 \in DOMAIN s /\ s[i + 1] = s[j + 1]
      BY <1>1, <1>2, <2>1
    <3> QED
      BY <1>6, <3>1 DEF IsInjective
  <2>2. ASSUME NEW i \in 1..(Len(s) - 1), Tail(s)[i] = s[1] PROVE FALSE
    <3>1. i + 1 \in DOMAIN s /\ 1 \in DOMAIN s /\ s[i + 1] = s[1] /\ i + 1 # 1
      BY <1>1, <1>2, <2>2
    <3> QED
      BY <1>6, <3>1 DEF IsInjective
  <2> QED
    BY <1>3, <2>1, <2>2 DEF IsInjective, ToSet
<1> QED
  BY <1>2, <1>4, <1>5, <1>6

LEMMA EmptyTodo == ToSet(<<>>) = {} /\ IsInjective(<<>>)
BY DEF ToSet, IsInjective

(* An element more.                                                        *)
LEMMA OneMore ==
    ASSUME NEW T, NEW s \in Seq(T), NEW e \in T
    PROVE  /\ Append(s, e) \in Seq(T) /\ Append(s, e) # <<>>
           /\ Len(s) \in Nat /\ Len(Append(s, e)) = Len(s) + 1
           /\ DOMAIN s = 1..Len(s) /\ DOMAIN Append(s, e) = 1..(Len(s) + 1)
           /\ \A i \in 1..Len(s) : Append(s, e)[i] = s[i]
           /\ Append(s, e)[Len(s) + 1] = e
BY AppendProperties, LenProperties

(* Another last element.                                                   *)
LEMMA LastChanged ==
    ASSUME NEW T, NEW s \in Seq(T), s # <<>>, NEW e \in T
    PROVE  LET t == Append(Front(s), e) IN
           /\ t \in Seq(T) /\ Len(s) \in Nat \ {0} /\ Len(t) = Len(s)
           /\ DOMAIN s = 1..Len(s) /\ DOMAIN t = 1..Len(s)
           /\ \A i \in 1..(Len(s) - 1) : t[i] = s[i]
           /\ t[Len(s)] = e /\ Last(s) = s[Len(s)] /\ s[Len(s)] \in T
<1>1. DOMAIN s = 1..Len(s) /\ Len(s) \in Nat \ {0}
  BY LenProperties, EmptySeq
<1>2. /\ Front(s) \in Seq(T) /\ Len(Front(s)) = Len(s) - 1
      /\ \A i \in 1..(Len(s) - 1) : Front(s)[i] = s[i]
  <2>1. /\ SubSeq(s, 1, Len(s) - 1) \in Seq(T)
        /\ Len(SubSeq(s, 1, Len(s) - 1)) = Len(s) - 1
        /\ \A i \in 1..(Len(s) - 1) : SubSeq(s, 1, Len(s) - 1)[i] = s[1 + i - 1]
    BY <1>1, SubSeqProperties, Z3
  <2> QED
    BY <1>1, <2>1 DEF Front
<1>3. s[Len(s)] \in T
  BY <1>1, ElementOfSeq
<1> DEFINE t == Append(Front(s), e)
<1>4. /\ t \in Seq(T) /\ Len(t) = Len(Front(s)) + 1
      /\ \A i \in 1..Len(Front(s)) : t[i] = Front(s)[i]
      /\ t[Len(Front(s)) + 1] = e
  BY <1>2, AppendProperties
<1>5. DOMAIN t = 1..Len(t)
  BY <1>4, LenProperties
<1>6. Len(t) = Len(s) /\ t[Len(s)] = e /\ \A i \in 1..(Len(s) - 1) : t[i] = s[i]
  BY <1>1, <1>2, <1>4
<1>7. Last(s) = s[Len(s)]
  BY DEF Last
<1> QED
  BY <1>1, <1>3, <1>4, <1>5, <1>6, <1>7

(* What an order lists is finite.                                          *)
LEMMA PlacesAreFinite == IsFiniteSet(Place) /\ IsFiniteSet(Root)
<1>1. ASSUME NEW T, NEW order \in Seq(T), ToSet(order) = T PROVE IsFiniteSet(T)
  <2>1. order \in [1..Len(order) -> T] /\ Len(order) \in Nat
    BY LenProperties
  <2>2. \A x \in T : \E i \in 1..Len(order) : order[i] = x
    BY <1>1, <2>1 DEF ToSet
  <2>3. order \in Surjection(1..Len(order), T)
    BY <2>1, <2>2 DEF Surjection
  <2>4. IsFiniteSet(1..Len(order))
    BY <2>1, FS_Interval
  <2> QED
    BY <2>3, <2>4, FS_Surjection
<1> QED
  BY <1>1, PlacesAssumption, OrdersAssumption
-----------------------------------------------------------------------------
(* What a step of the world does to what processes know.                   *)
Onward ==
    /\ WorldInv' /\ writes <= writes' /\ (writes' = writes => UNCHANGED files)
    /\ \A e : Honest(e) => Honest(e)'
    /\ \A x \in Imported : x \in Imported' /\ original'[x] = original[x]

(* A step of a process leaves the files and the catalogue alone.           *)
LEMMA SameWorld ==
    ASSUME WorldInv, UNCHANGED world
    PROVE  Onward
<1> USE DEF world, files, catalogue
<1>1. WorldInv'
  BY DEF WorldInv
<1>2. \A e : Honest(e) => Honest(e)'
  BY DEF Honest, Digest
<1>3. \A x \in Imported : x \in Imported' /\ original'[x] = original[x]
  BY DEF Imported
<1>4. writes <= writes'
  BY DEF WorldInv
<1> QED
  BY <1>1, <1>2, <1>3, <1>4 DEF Onward

(* A change to the files: new stamps are new.                              *)
LEMMA FilesChange ==
    ASSUME WorldInv, Touches, UNCHANGED catalogue, mounted' \subseteq Root,
           disk' \in [Place -> [version : Version \cup {Gone}, stamp : Nat]],
           \A u \in Place :
              \/ disk'[u] = Nothing
              \/ \E v \in VersionsOf(u) : disk'[u] = Held(v, Len(PlaceOrder) + writes + 1)
              \/ \E w \in Place : disk'[u] = disk[w] /\ VersionsOf(w) = VersionsOf(u),
           \A u, w \in Place : disk'[u].stamp = disk'[w].stamp => u = w \/ disk'[u].stamp = 0
    PROVE  Onward
<1>1. writes \in Nat /\ writes' = writes + 1 /\ Len(PlaceOrder) \in Nat
  BY PlacesAssumption, LenProperties DEF WorldInv, Touches
<1>2. /\ original' = original /\ locators' = locators /\ enabled' = enabled
  BY DEF catalogue
<1>3. ASSUME NEW u \in Place
      PROVE  /\ disk'[u].version \in VersionsOf(u) \cup {Gone}
             /\ disk'[u].stamp <= Len(PlaceOrder) + writes + 1
             /\ disk'[u].stamp = 0 <=> disk'[u].version = Gone
  <2>1. CASE disk'[u] = Nothing
    BY <1>1, <2>1 DEF Nothing, Held
  <2>2. CASE \E v \in VersionsOf(u) : disk'[u] = Held(v, Len(PlaceOrder) + writes + 1)
    <3>1. PICK v \in VersionsOf(u) : disk'[u] = Held(v, Len(PlaceOrder) + writes + 1)
      BY <2>2
    <3>2. v # Gone
      BY <3>1, KindsAssumption DEF VersionsOf, Version
    <3> QED
      BY <1>1, <3>1, <3>2 DEF Held
  <2>3. CASE \E w \in Place : disk'[u] = disk[w] /\ VersionsOf(w) = VersionsOf(u)
    <3>1. PICK w \in Place : disk'[u] = disk[w] /\ VersionsOf(w) = VersionsOf(u)
      BY <2>3
    <3>2. disk[w].stamp \in Nat
      BY DEF WorldInv
    <3> QED
      BY <1>1, <3>1, <3>2 DEF WorldInv
  <2> QED
    BY <2>1, <2>2, <2>3
<1>4. WorldInv'
  BY <1>1, <1>2, <1>3 DEF WorldInv, VersionsOf, ContentOf, Kind
<1>5. ASSUME NEW e, Honest(e) PROVE Honest(e)'
  <2>1. e.stamp \in 1..(Len(PlaceOrder) + writes)
    BY <1>5 DEF Honest
  <2>2. e.stamp \in 1..(Len(PlaceOrder) + writes + 1) /\ e.stamp # 0
        /\ e.stamp # Len(PlaceOrder) + writes + 1
    BY <1>1, <2>1
  <2>3. ASSUME e.whole, e.print # Gone, NEW u \in Place, disk'[u].stamp = e.stamp
        PROVE  DigestOf[disk'[u].version] = e.print
    <3>1. PICK w \in Place : disk'[u] = disk[w]
      BY <2>2, <2>3 DEF Nothing, Held
    <3> QED
      BY <1>5, <2>3, <3>1 DEF Honest, Digest
  <2> QED
    BY <1>1, <2>2, <2>3 DEF Honest, Digest
<1>6. \A x \in Imported : x \in Imported' /\ original'[x] = original[x]
  BY <1>2 DEF Imported
<1> QED
  BY <1>1, <1>4, <1>5, <1>6 DEF Onward

(* A commit: what was imported before stays what it was.                   *)
LEMMA CatalogueChange ==
    ASSUME WorldInv, UNCHANGED files, enabled' \subseteq Root,
           original' \in [Resource -> Version \cup {Gone}],
           locators' \in [Resource -> SUBSET Place],
           \A x \in Resource : /\ original'[x] \in ContentOf(x) \cup {Gone}
                               /\ locators'[x] \subseteq Kind(x)
                               /\ original[x] # Gone => original'[x] = original[x]
    PROVE  Onward
<1> USE DEF files
<1>1. WorldInv'
  BY DEF WorldInv, VersionsOf, ContentOf, Kind
<1>2. \A e : Honest(e) => Honest(e)'
  BY DEF Honest, Digest
<1>3. \A x \in Imported : x \in Imported' /\ original'[x] = original[x]
  BY DEF Imported
<1>4. writes <= writes'
  BY DEF WorldInv
<1> QED
  BY <1>1, <1>2, <1>3, <1>4 DEF Onward

LEMMA WriteOnward == ASSUME WorldInv, NEW u \in Place, NEW v \in Version, Write(u, v) PROVE Onward
<1>1. /\ Touches /\ UNCHANGED <<mounted, catalogue>> /\ v \in VersionsOf(u)
      /\ disk' = [disk EXCEPT ![u] = Held(v, Len(PlaceOrder) + writes + 1)]
  BY DEF Write, VersionsOf
<1>2. writes \in Nat /\ Len(PlaceOrder) \in Nat
  BY PlacesAssumption, LenProperties DEF WorldInv
<1>3. Held(v, Len(PlaceOrder) + writes + 1) \in [version : Version \cup {Gone}, stamp : Nat]
  BY <1>2 DEF Held
<1>4. disk' \in [Place -> [version : Version \cup {Gone}, stamp : Nat]]
  BY <1>1, <1>3 DEF WorldInv
<1>5. \A w \in Place : disk'[w] = IF w = u THEN Held(v, Len(PlaceOrder) + writes + 1) ELSE disk[w]
  BY <1>1 DEF WorldInv
<1>6. ASSUME NEW a \in Place, NEW b \in Place, disk'[a].stamp = disk'[b].stamp, a # b
      PROVE  disk'[a].stamp = 0
  <2>1. \A w \in Place : disk[w].stamp \in Nat /\ disk[w].stamp # Len(PlaceOrder) + writes + 1
    BY <1>2 DEF WorldInv
  <2>2. Held(v, Len(PlaceOrder) + writes + 1).stamp = Len(PlaceOrder) + writes + 1
    BY DEF Held
  <2> QED
    BY <1>5, <1>6, <2>1, <2>2 DEF WorldInv
<1>7. mounted' \subseteq Root
  BY <1>1 DEF WorldInv
<1> QED
  BY <1>1, <1>4, <1>5, <1>6, <1>7, FilesChange

LEMMA DeleteOnward == ASSUME WorldInv, NEW u \in Place, Delete(u) PROVE Onward
<1>1. Touches /\ UNCHANGED <<mounted, catalogue>> /\ disk' = [disk EXCEPT ![u] = Nothing]
  BY DEF Delete
<1>2. Nothing \in [version : Version \cup {Gone}, stamp : Nat] /\ Nothing.stamp = 0
  BY DEF Nothing, Held
<1>3. disk' \in [Place -> [version : Version \cup {Gone}, stamp : Nat]]
  BY <1>1, <1>2 DEF WorldInv
<1>4. \A w \in Place : disk'[w] = IF w = u THEN Nothing ELSE disk[w]
  BY <1>1 DEF WorldInv
<1>5. mounted' \subseteq Root
  BY <1>1 DEF WorldInv
<1>6. \A a, b \in Place : disk'[a].stamp = disk'[b].stamp => a = b \/ disk'[a].stamp = 0
  BY <1>2, <1>4 DEF WorldInv
<1> QED
  BY <1>1, <1>3, <1>4, <1>5, <1>6, FilesChange

(* A move takes the stamp along: the place it leaves has none.             *)
LEMMA MoveOnward == ASSUME WorldInv, NEW u \in Place, NEW w \in Place, Move(u, w) PROVE Onward
<1>1. /\ Touches /\ UNCHANGED <<mounted, catalogue>> /\ u # w /\ VersionsOf(u) = VersionsOf(w)
      /\ disk' = [disk EXCEPT ![w] = disk[u], ![u] = Nothing]
  BY DEF Move, VersionsOf
<1>2. Nothing \in [version : Version \cup {Gone}, stamp : Nat] /\ Nothing.stamp = 0
  BY DEF Nothing, Held
<1>3. disk' \in [Place -> [version : Version \cup {Gone}, stamp : Nat]]
  BY <1>1, <1>2 DEF WorldInv
<1>4. \A x \in Place : disk'[x] = IF x = u THEN Nothing ELSE IF x = w THEN disk[u] ELSE disk[x]
  BY <1>1 DEF WorldInv
<1>5. mounted' \subseteq Root
  BY <1>1 DEF WorldInv
<1>6. \A a, b \in Place : disk'[a].stamp = disk'[b].stamp => a = b \/ disk'[a].stamp = 0
  BY <1>2, <1>4 DEF WorldInv
<1>7. \A x \in Place : disk'[x] = Nothing \/ \E y \in Place : disk'[x] = disk[y] /\ VersionsOf(y) = VersionsOf(x)
  BY <1>1, <1>4
<1> QED
  BY <1>1, <1>3, <1>5, <1>6, <1>7, FilesChange

LEMMA RemountOnward == ASSUME WorldInv, NEW r \in Root, Remount(r) PROVE Onward
<1>1. Touches /\ UNCHANGED <<disk, catalogue>> /\ mounted' \subseteq Root
  BY DEF Remount, WorldInv, SymDiff
<1>2. /\ disk' \in [Place -> [version : Version \cup {Gone}, stamp : Nat]]
      /\ \A x \in Place : disk'[x] = disk[x]
      /\ \A a, b \in Place : disk'[a].stamp = disk'[b].stamp => a = b \/ disk'[a].stamp = 0
  BY <1>1 DEF WorldInv
<1> QED
  BY <1>1, <1>2, FilesChange

(* A resource keeps what it was imported as.                               *)
LEMMA ImportOnward ==
    ASSUME WorldInv, NEW rep \in Representation, NEW at \in [ToSet(MembersOf[rep]) -> Place],
           Import(rep, at)
    PROVE  Onward
<1> DEFINE new == ToSet(MembersOf[rep])
<1>1. /\ UNCHANGED <<enabled, files>> /\ new \intersect Imported = {}
      /\ \A x \in new : at[x] \in Kind(x) /\ Present(at[x])
      /\ original' = [x \in Resource |-> IF x \in new THEN disk[at[x]].version ELSE original[x]]
      /\ locators' = [x \in Resource |-> IF x \in new THEN {at[x]} ELSE locators[x]]
  BY DEF Import
<1>2. ASSUME NEW x \in new
      PROVE  at[x] \in Place /\ disk[at[x]].version \in ContentOf(x)
  <2>1. at[x] \in Place /\ at[x] \in Kind(x) /\ disk[at[x]].version # Gone
    BY <1>1 DEF Present
  <2>2. VersionsOf(at[x]) = ContentOf(x)
    BY <2>1, KindsAssumption DEF VersionsOf, ContentOf, Kind
  <2> QED
    BY <2>1, <2>2 DEF WorldInv
<1>3. \A x \in Resource : ContentOf(x) \subseteq Version
  BY DEF ContentOf, Version
<1>4. original' \in [Resource -> Version \cup {Gone}] /\ locators' \in [Resource -> SUBSET Place]
  BY <1>1, <1>2, <1>3 DEF WorldInv
<1>5. ASSUME NEW x \in Resource
      PROVE  /\ original'[x] \in ContentOf(x) \cup {Gone} /\ locators'[x] \subseteq Kind(x)
             /\ original[x] # Gone => original'[x] = original[x]
  <2>1. CASE x \in new
    BY <1>1, <1>2, <2>1 DEF Imported
  <2>2. CASE x \notin new
    BY <1>1, <2>2 DEF WorldInv
  <2> QED
    BY <2>1, <2>2
<1>6. enabled' \subseteq Root
  BY <1>1 DEF WorldInv
<1> QED
  BY <1>1, <1>4, <1>5, <1>6, CatalogueChange

LEMMA LocatorsOnward ==
    ASSUME WorldInv, NEW x \in Resource, NEW u \in Place,
           RetireLocator(x, u) \/ (AddLocator(x, u) /\ u \in Kind(x))
    PROVE  Onward
<1>1. UNCHANGED <<original, enabled, files>>
  BY DEF RetireLocator, AddLocator
<1>2. locators' \in [Resource -> SUBSET Place] /\ \A y \in Resource : locators'[y] \subseteq Kind(y)
  <2>1. CASE RetireLocator(x, u)
    BY <2>1 DEF RetireLocator, WorldInv
  <2>2. CASE AddLocator(x, u) /\ u \in Kind(x)
    BY <2>2 DEF AddLocator, WorldInv
  <2> QED
    BY <2>1, <2>2
<1> QED
  BY <1>1, <1>2, CatalogueChange DEF WorldInv

LEMMA EnabledOnward == ASSUME WorldInv, NEW r \in Root, SetRootEnabled(r) PROVE Onward
<1>1. UNCHANGED <<original, locators, files>> /\ enabled' \subseteq Root
  BY DEF SetRootEnabled, WorldInv, SymDiff
<1> QED
  BY <1>1, CatalogueChange DEF WorldInv

(* Whatever others do, what was known before is worth as much.             *)
LEMMA WorldOnward == ASSUME WorldInv, WorldNext PROVE Onward /\ UNCHANGED processes
<1>1. CASE \E u \in Place : Delete(u)
  BY <1>1, DeleteOnward DEF Delete
<1>2. CASE \E u \in Place, v \in Version : Write(u, v)
  BY <1>2, WriteOnward DEF Write
<1>3. CASE \E u, w \in Place : Move(u, w)
  BY <1>3, MoveOnward DEF Move
<1>4. CASE \E r \in Root : Remount(r)
  BY <1>4, RemountOnward DEF Remount
<1>5. CASE \E r \in Root : SetRootEnabled(r)
  BY <1>5, EnabledOnward DEF SetRootEnabled
<1>6. CASE \E rep \in Representation : \E at \in [ToSet(MembersOf[rep]) -> Place] : Import(rep, at)
  BY <1>6, ImportOnward DEF Import
<1>7. CASE \E x \in Imported, u \in Place : RetireLocator(x, u)
  BY <1>7, LocatorsOnward DEF RetireLocator, Imported
<1> QED
  BY <1>1, <1>2, <1>3, <1>4, <1>5, <1>6, <1>7 DEF WorldNext
-----------------------------------------------------------------------------
(* What a record says stays true while the files stay as they are.         *)

(* What is seen of files that do not change.                               *)
LEMMA SameFiles ==
    ASSUME UNCHANGED files
    PROVE  /\ \A u : /\ Present(u)' <=> Present(u)
                     /\ Size(u)' = Size(u) /\ Digest(u)' = Digest(u)
                     /\ \A x : Missing(x, u)' = Missing(x, u)
                     /\ disk'[u] = disk[u]
           /\ \A a, b : Searched(a, b)' = Searched(a, b) /\ InSight(a, b)' = InSight(a, b)
           /\ \A c, u : /\ Replaced(c, u)' <=> Replaced(c, u)
                        /\ Doubtful(c, u)' <=> Doubtful(c, u)
<1>1. \A u : /\ Present(u)' <=> Present(u)
             /\ Size(u)' = Size(u) /\ Digest(u)' = Digest(u)
             /\ \A x : Missing(x, u)' = Missing(x, u)
             /\ disk'[u] = disk[u]
  BY DEF files, Present, Size, Digest, Missing
<1>2. \A r : Reachable(r)' <=> Reachable(r)
  BY DEF files, Reachable
<1>3. \A a, b : Searched(a, b)' = Searched(a, b)
  BY <1>2 DEF Searched
<1>4. \A a, b : InSight(a, b)' = InSight(a, b)
  BY <1>1, <1>3 DEF InSight
<1>5. \A c, u : Fitting(c, u)' = Fitting(c, u)
  BY <1>1 DEF Fitting
<1>6. \A c, u : Replaced(c, u)' <=> Replaced(c, u)
  BY <1>5 DEF Replaced
<1>7. \A c, u : Doubtful(c, u)' <=> Doubtful(c, u)
  BY <1>5, <1>6 DEF Doubtful
<1> QED
  BY <1>1, <1>3, <1>4, <1>6, <1>7

(* A scan that others come between.                                        *)
LEMMA ScanKept ==
    ASSUME Onward, WorldInv, NEW c, ScanOK(c)
    PROVE  ScanOK(c)' /\ (c.since = writes' /\ (c.since = writes => ScanTrue(c)) => ScanTrue(c)')
<1>1. c \in ScanRec(c) /\ c.known \subseteq Imported /\ c.since \in 0..writes
  BY DEF ScanOK, ScanRec
<1>2. Imported \subseteq Imported' /\ 0..writes \subseteq 0..writes'
  BY DEF Onward, WorldInv
<1>3. c \in ScanRec(c)'
  BY <1>1, <1>2 DEF ScanRec
<1>4. ScanOK(c)'
  BY <1>3 DEF ScanOK, Onward
<1>5. ASSUME c.since = writes', c.since = writes => ScanTrue(c) PROVE ScanTrue(c)'
  <2>1. writes' = writes /\ UNCHANGED files
    BY <1>1, <1>5 DEF Onward, WorldInv
  <2>2. ScanTrue(c)
    BY <1>5, <2>1
  <2>3. \A x \in c.known : PrintOf(x)' = PrintOf(x) /\ original'[x] = original[x]
    BY <1>1 DEF Onward, PrintOf
  <2>4. \A size : Interesting(c, size)' <=> Interesting(c, size)
    BY <2>3 DEF Interesting
  <2>5. Sight(c)' = Sight(c) /\ ToCome(c)' = ToCome(c)
    BY <2>1, SameFiles DEF Sight, ToCome
  <2>6. \A i : SeenOK(c, i)' <=> SeenOK(c, i)
    BY <2>1, <2>4, <2>5, SameFiles DEF SeenOK
  <2>7. ReportIsTrue(c)' <=> ReportIsTrue(c)
    <3>1. \A u, x : Shows(c, u, x)' <=> Shows(c, u, x)
      BY <2>1, <2>3, SameFiles DEF Shows
    <3>2. Free(c)' = Free(c)
      BY <2>5 DEF Free, Holders
    <3>3. \A k, x, u : Says(c, k, x, u)' <=> Says(c, k, x, u)
      BY DEF Says, Item, Nil
    <3>4. \A u : Holders(c, u)' = Holders(c, u)
      BY DEF Holders
    <3>5. HeldAreTrue(c)' <=> HeldAreTrue(c)
      BY <2>1, <2>5, <3>1, <3>2, <3>3, <3>4, SameFiles DEF HeldAreTrue
    <3>6. NewAreTrue(c)' <=> NewAreTrue(c)
      BY <2>1, <3>1, <3>2, <3>3, SameFiles DEF NewAreTrue
    <3>7. DuplicatesAreTrue(c)' <=> DuplicatesAreTrue(c)
      BY <2>1, <3>1, <3>2, <3>3, SameFiles DEF DuplicatesAreTrue, Within
    <3>8. MissingAreTrue(c)' <=> MissingAreTrue(c)
      BY <2>1, <3>1, <3>2, <3>3, SameFiles DEF MissingAreTrue
    <3> QED
      BY <3>5, <3>6, <3>7, <3>8 DEF ReportIsTrue
  <2> QED
    BY <2>1, <2>2, <2>4, <2>5, <2>6, <2>7, SameFiles DEF ScanTrue
<1> QED
  BY <1>4, <1>5

(* A resolution that others come between.                                  *)
LEMMA ResolutionKept ==
    ASSUME Onward, WorldInv, NEW c, ResolutionOK(c)
    PROVE  /\ ResolutionOK(c)'
           /\ c.since = writes' /\ (c.since = writes => ResolutionTrue(c)) => ResolutionTrue(c)'
<1>1. /\ c \in ResolutionRec(c) /\ c.since \in 0..writes
      /\ DOMAIN c.answers \subseteq DOMAIN c.places /\ DOMAIN c.places \subseteq Imported
      /\ c.toResolve \subseteq Imported
  BY DEF ResolutionOK, ResolutionRec
<1>2. Imported \subseteq Imported' /\ 0..writes \subseteq 0..writes'
  BY DEF Onward, WorldInv
<1>3. c \in ResolutionRec(c)'
  BY <1>1, <1>2 DEF ResolutionRec
<1>4. ResolutionOK(c)'
  BY <1>2, <1>3 DEF ResolutionOK
<1>5. ASSUME c.since = writes', c.since = writes => ResolutionTrue(c) PROVE ResolutionTrue(c)'
  <2>1. writes' = writes /\ UNCHANGED files
    BY <1>1, <1>5 DEF Onward, WorldInv
  <2>2. ResolutionTrue(c)
    BY <1>5, <2>1
  <2>3. \A x \in Imported : PrintOf(x)' = PrintOf(x) /\ original'[x] = original[x]
    BY DEF Onward, PrintOf
  <2>4. \A x \in Imported : Rivals(c, x)' = Rivals(c, x) /\ \A u : Bears(u, x)' <=> Bears(u, x)
    BY <2>1, <2>3, SameFiles DEF Rivals, Bears, Complete
  <2>5. \A x \in DOMAIN c.answers : AnswerTold(c, x)'
    <3>1. TAKE x \in DOMAIN c.answers
    <3>2. x \in Imported /\ AnswerTold(c, x)
      BY <1>1, <2>2 DEF ResolutionTrue
    <3>3. AnswerIsTrue(c, x)' <=> AnswerIsTrue(c, x)
      BY <2>1, <2>3, <2>4, <3>2, SameFiles DEF AnswerIsTrue
    <3> QED
      BY <2>1, <3>2, <3>3, SameFiles DEF AnswerTold
  <2>6. ASSUME c.pc = "verify" PROVE KnownOK(c, Current(c))'
    BY <2>1, <2>2, <2>6, SameFiles DEF ResolutionTrue, KnownOK
  <2>7. ASSUME c.pc = "walk" PROVE WalkOK(c, Current(c))'
    <3>1. Current(c) \in Imported /\ WalkOK(c, Current(c))
      BY <1>1, <2>2, <2>7 DEF ResolutionTrue, ResolutionOK
    <3>2. ToCome(c)' = ToCome(c)
      BY <2>1, SameFiles DEF ToCome
    <3>3. Counted(c)' <=> Counted(c)
      BY <2>1, SameFiles DEF Counted
    <3> QED
      BY <2>1, <2>4, <3>1, <3>2, <3>3, SameFiles DEF WalkOK
  <2> QED
    BY <2>5, <2>6, <2>7 DEF ResolutionTrue
<1> QED
  BY <1>4, <1>5

LEMMA RecordKept ==
    ASSUME Onward, WorldInv, NEW c, RecordOK(c)
    PROVE  RecordOK(c)'
<1>1. CASE c = Asleep
  BY <1>1 DEF RecordOK
<1>2. CASE ScanOK(c) /\ (c.since = writes => ScanTrue(c))
  BY <1>2, ScanKept DEF RecordOK
<1>3. CASE ResolutionOK(c) /\ (c.since = writes => ResolutionTrue(c))
  BY <1>3, ResolutionKept DEF RecordOK
<1> QED
  BY <1>1, <1>2, <1>3 DEF RecordOK

(* A cache that others come between.                                       *)
LEMMA FileKept ==
    ASSUME Onward, NEW file, FileOK(file)
    PROVE  FileOK(file)'
BY DEF Onward, FileOK

(* A step of one process that leaves it with a sound record.               *)
LEMMA OneRecord ==
    ASSUME MediaInv, Onward, NEW p \in Searcher, NEW d, RecordOK(d),
           call' = [call EXCEPT ![p] = d], UNCHANGED <<cacheFile, tmpFile>>
    PROVE  MediaInv'
<1>1. \A q \in Searcher : call'[q] = IF q = p THEN d ELSE call[q]
  BY DEF MediaInv
<1>2. DOMAIN call' = Searcher
  BY DEF MediaInv
<1>3. ASSUME NEW q \in Searcher PROVE RecordOK(call[q])'
  <2>1. PICK e : e = call'[q]
    OBVIOUS
  <2>2. RecordOK(e)
    BY <1>1, <2>1 DEF MediaInv
  <2>3. RecordOK(e)'
    BY <2>2, RecordKept DEF MediaInv
  <2> QED
    BY <2>1, <2>3
<1>4. FileOK(cacheFile)' /\ FileOK(tmpFile)'
  <2>1. PICK f, g : f = cacheFile /\ g = tmpFile
    OBVIOUS
  <2>2. FileOK(f)' /\ FileOK(g)'
    BY <2>1, FileKept DEF MediaInv
  <2> QED
    BY <2>1, <2>2
<1> QED
  BY <1>2, <1>3, <1>4 DEF MediaInv, Onward
-----------------------------------------------------------------------------
(* The first states, and the first records of a scan.                      *)

(* At the start every place has a stamp of its own.                        *)
LEMMA AgeOf ==
    \A u \in Place : /\ Age(u) \in 1..Len(PlaceOrder) /\ PlaceOrder[Age(u)] = u
<1>1. TAKE u \in Place
<1>2. DOMAIN PlaceOrder = 1..Len(PlaceOrder)
  BY PlacesAssumption, LenProperties
<1>3. \E i \in DOMAIN PlaceOrder : PlaceOrder[i] = u
  BY PlacesAssumption DEF ToSet
<1>4. Age(u) \in DOMAIN PlaceOrder /\ PlaceOrder[Age(u)] = u
  BY <1>3 DEF Age
<1> QED
  BY <1>2, <1>4

LEMMA InitialWorld == MediaInit => WorldInv
<1> SUFFICES ASSUME MediaInit PROVE WorldInv
  OBVIOUS
<1>1. Len(PlaceOrder) \in Nat
  BY PlacesAssumption, LenProperties
<1>2. /\ \A u \in Place : disk[u] = IF u \in DOMAIN FirstDisk THEN Held(FirstDisk[u], Age(u)) ELSE Nothing
      /\ disk = [u \in Place |-> IF u \in DOMAIN FirstDisk THEN Held(FirstDisk[u], Age(u)) ELSE Nothing]
      /\ writes = 0 /\ mounted = Root /\ enabled = Root
  BY DEF MediaInit
<1>3. ASSUME NEW u \in Place
      PROVE  /\ disk[u] \in [version : Version \cup {Gone}, stamp : Nat]
             /\ disk[u].version \in VersionsOf(u) \cup {Gone}
             /\ disk[u].stamp <= Len(PlaceOrder) + writes
             /\ disk[u].stamp = 0 <=> disk[u].version = Gone
             /\ disk[u].stamp = 0 \/ disk[u].stamp = Age(u)
  <2>1. CASE u \in DOMAIN FirstDisk
    <3>1. disk[u] = [version |-> FirstDisk[u], stamp |-> Age(u)]
      BY <1>2, <2>1 DEF Held
    <3>2. FirstDisk[u] \in VersionsOf(u) /\ VersionsOf(u) \subseteq Version
      BY <2>1, FirstAssumption DEF VersionsOf, Version
    <3>3. Age(u) \in Nat \ {0} /\ Age(u) <= Len(PlaceOrder)
      BY <1>1, AgeOf
    <3> QED
      BY <1>1, <1>2, <3>1, <3>2, <3>3, KindsAssumption
  <2>2. CASE u \notin DOMAIN FirstDisk
    BY <1>1, <1>2, <2>2 DEF Nothing, Held
  <2> QED
    BY <2>1, <2>2
<1>4. disk \in [Place -> [version : Version \cup {Gone}, stamp : Nat]]
  BY <1>2, <1>3
<1>5. \A u, w \in Place : disk[u].stamp = disk[w].stamp => u = w \/ disk[u].stamp = 0
  BY <1>3, AgeOf
<1>6. ASSUME NEW x \in Resource
      PROVE  original[x] \in ContentOf(x) \cup {Gone} /\ locators[x] \subseteq Kind(x)
  <2>1. /\ original[x] = IF x \in DOMAIN FirstPlaces THEN FirstDisk[FirstPlaces[x]] ELSE Gone
        /\ locators[x] = IF x \in DOMAIN FirstPlaces THEN {FirstPlaces[x]} ELSE {}
    BY DEF MediaInit
  <2>2. CASE x \in DOMAIN FirstPlaces
    <3> DEFINE u == FirstPlaces[x]
    <3>1. u \in DOMAIN FirstDisk /\ u \in Place /\ (u \in Folder <=> x \in SequenceResource)
      BY <2>2, FirstAssumption
    <3>2. FirstDisk[u] \in (IF u \in File THEN FileVersion ELSE FolderVersion)
      BY <3>1, FirstAssumption
    <3>3. u \in Folder <=> u \notin File
      BY <3>1, KindsAssumption DEF Place
    <3> QED
      BY <2>1, <2>2, <3>1, <3>2, <3>3 DEF ContentOf, Kind, Place
  <2>3. CASE x \notin DOMAIN FirstPlaces
    BY <2>1, <2>3
  <2> QED
    BY <2>2, <2>3
<1>7. original \in [Resource -> Version \cup {Gone}] /\ locators \in [Resource -> SUBSET Place]
  <2>1. \A x \in Resource : ContentOf(x) \subseteq Version /\ Kind(x) \subseteq Place
    BY DEF ContentOf, Version, Kind, Place
  <2>2. /\ original = [x \in Resource |-> IF x \in DOMAIN FirstPlaces THEN FirstDisk[FirstPlaces[x]] ELSE Gone]
        /\ locators = [x \in Resource |-> IF x \in DOMAIN FirstPlaces THEN {FirstPlaces[x]} ELSE {}]
    BY DEF MediaInit
  <2>3. \A x \in Resource : original[x] \in Version \cup {Gone} /\ locators[x] \in SUBSET Place
    BY <1>6, <2>1
  <2> QED
    BY <2>2, <2>3
<1> QED
  BY <1>1, <1>2, <1>3, <1>4, <1>5, <1>6, <1>7 DEF WorldInv

LEMMA MediaStarts == MediaInit => MediaInv
<1> SUFFICES ASSUME MediaInit PROVE MediaInv
  OBVIOUS
<1>1. FileOK(Absent)
  BY DEF FileOK, CacheRec, Absent
<1>2. cacheFile = Absent /\ tmpFile = Absent /\ call = [p \in Searcher |-> Asleep]
  BY DEF MediaInit
<1> QED
  BY <1>1, <1>2, InitialWorld DEF MediaInv, RecordOK
-----------------------------------------------------------------------------
(* What scans and resolutions do to the record of their own call.          *)

LEMMA ScanBegins ==
    ASSUME WorldInv, NEW mapped \in Mappings, NEW d,
           d = [NewScan EXCEPT !.mapped = mapped, !.usable = enabled, !.since = writes,
                               !.known = Imported, !.places = locators, !.roots = enabled]
    PROVE  RecordOK(d)
<1>1. /\ d.pc = "load" /\ d.mapped = mapped /\ d.usable = enabled /\ d.known = Imported
      /\ d.places = locators /\ d.cache = {} /\ d.roots = enabled /\ d.todo = <<>> /\ d.seen = <<>>
      /\ d.visited = 0 /\ d.items = {} /\ d.target = "none" /\ d.since = writes
      /\ "seen" \in DOMAIN d
  BY DEF NewScan
<1>0. d = [pc |-> "load", mapped |-> mapped, usable |-> enabled, known |-> Imported,
           places |-> locators, cache |-> {}, roots |-> enabled, todo |-> <<>>, seen |-> <<>>,
           visited |-> 0, items |-> {}, target |-> "none", since |-> writes]
  BY DEF NewScan
<1>2. /\ mapped \in SUBSET Root /\ enabled \in SUBSET Root /\ writes \in 0..writes
      /\ locators \in [Resource -> SUBSET Place] /\ <<>> \in Seq(Place) /\ <<>> \in Seq(EntryRec)
      /\ <<>> = d.seen /\ DOMAIN d.seen = {}
  <2>1. mapped \in SUBSET Root /\ enabled \in SUBSET Root
    BY MappingsAssumption DEF WorldInv
  <2>2. writes \in 0..writes /\ locators \in [Resource -> SUBSET Place]
    BY DEF WorldInv
  <2>3. <<>> \in Seq(Place) /\ <<>> \in Seq(EntryRec)
    OBVIOUS
  <2>4. d.seen = <<>>
    BY <1>1
  <2>5. DOMAIN <<>> = {}
    OBVIOUS
  <2> QED
    BY <2>1, <2>2, <2>3, <2>4, <2>5
<1>3. d \in ScanRec(d)
  <2>1. /\ d.pc \in ScanSteps /\ d.known \in SUBSET Imported /\ d.cache \in SUBSET EntryRec
        /\ d.todo \in Seq(Place) /\ d.seen \in Seq(EntryRec) /\ d.visited \in Nat
        /\ d.target \in {"none", "temporary", "cache", "nowhere"}
    <3>1. d.todo \in Seq(Place) /\ d.seen \in Seq(EntryRec)
      BY <1>1, <1>2
    <3>2. d.pc \in ScanSteps /\ d.visited \in Nat
      BY <1>1 DEF ScanSteps
    <3>3. d.known \in SUBSET Imported /\ d.cache \in SUBSET EntryRec
      BY <1>1
    <3>4. d.target \in {"none", "temporary", "cache", "nowhere"}
      BY <1>1
    <3> QED
      BY <3>1, <3>2, <3>3, <3>4
  <2> QED
    BY <1>0, <1>1, <1>2, <2>1 DEF NewScan, ScanRec
<1>4. Visits(d)
  <2> DEFINE f == [i \in DOMAIN d.seen |-> Gone]
  <2>1. f \in [DOMAIN d.seen -> Root \ d.roots]
    BY <1>2
  <2> QED
    BY <1>1, <1>2, <2>1 DEF Visits, VisitsBy
<1>5. ScanOK(d)
  BY <1>1, <1>2, <1>3, <1>4, EmptyTodo DEF ScanOK
<1>6. ScanTrue(d)
  <2>1. \A u \in Sight(d) : u \in ToCome(d)
    BY <1>1 DEF Sight, InSight, ToCome, Searched, Within
  <2> QED
    BY <1>1, <1>2, <2>1, EmptyTodo DEF ScanTrue
<1> QED
  BY <1>5, <1>6 DEF RecordOK

(* The entries of a cache that was read are as honest as the file.         *)
LEMMA CacheLoaded ==
    ASSUME WorldInv, FileOK(cacheFile), NEW c, ScanOK(c), c.since = writes => ScanTrue(c),
           c.pc = "load", NEW cache, cache \in {cacheFile.entries, {}},
           cacheFile.form = "cache" \/ cache = {},
           NEW d, d = [c EXCEPT !.pc = "walk", !.cache = cache]
    PROVE  RecordOK(d)
<1>1. cache \subseteq EntryRec /\ \A e \in cache : Honest(e)
  BY DEF FileOK, CacheRec, Absent, Torn
<1>2. c \in ScanRec(c) /\ c.seen = <<>> /\ c.todo = <<>> /\ "seen" \in DOMAIN c
  BY DEF ScanOK
<1>3. d \in ScanRec(d) /\ "seen" \in DOMAIN d
  BY <1>1, <1>2 DEF ScanRec, ScanSteps
<1>4. /\ d.pc = "walk" /\ d.cache = cache /\ d.mapped = c.mapped /\ d.usable = c.usable
      /\ d.known = c.known /\ d.places = c.places /\ d.roots = c.roots /\ d.todo = <<>>
      /\ d.seen = <<>> /\ d.items = c.items /\ d.since = c.since
  BY <1>2 DEF ScanRec
<1>5. Visits(d)
  <2>1. Visits(c)
    BY DEF ScanOK, Early
  <2>2. d.seen = c.seen /\ d.todo = c.todo /\ d.roots = c.roots /\ c.todo = <<>>
    BY <1>2, <1>4
  <2> QED
    BY <2>1, <2>2 DEF Visits, VisitsBy
<1>6. ScanOK(d)
  BY <1>1, <1>2, <1>3, <1>4, <1>5, EmptyTodo DEF ScanOK, Early
<1>7. ASSUME d.since = writes PROVE ScanTrue(d)
  <2>1. ScanTrue(c)
    BY <1>4, <1>7
  <2>2. Sight(d) = Sight(c) /\ ToCome(d) = ToCome(c)
    BY <1>2, <1>4 DEF Sight, ToCome
  <2>3. DOMAIN d.seen = {}
    BY <1>4
  <2> QED
    BY <1>2, <1>4, <2>1, <2>2, <2>3, EmptyTodo DEF ScanTrue, Early
<1> QED
  BY <1>6, <1>7 DEF RecordOK
-----------------------------------------------------------------------------
(* A scan walks the roots.                                                 *)

(* A later record of the same scan.                                        *)
SameScan(c, d) ==
    /\ d \in ScanRec(d) /\ "seen" \in DOMAIN d
    /\ d.mapped = c.mapped /\ d.usable = c.usable /\ d.known = c.known /\ d.places = c.places
    /\ d.cache = c.cache /\ d.since = c.since

(* What two records of one scan look at.                                   *)
LEMMA SameSight ==
    ASSUME NEW c, NEW d, SameScan(c, d)
    PROVE  /\ Sight(d) = Sight(c) /\ Searched(d.usable, d.mapped) = Searched(c.usable, c.mapped)
           /\ InSight(d.usable, d.mapped) = InSight(c.usable, c.mapped)
           /\ \A u : /\ Replaced(d, u) <=> Replaced(c, u)
                     /\ Doubtful(d, u) <=> Doubtful(c, u)
           /\ \A size : Interesting(d, size) <=> Interesting(c, size)
<1>1. \A u : Fitting(d, u) = Fitting(c, u)
  BY DEF SameScan, Fitting
<1>2. \A u : Replaced(d, u) <=> Replaced(c, u)
  BY <1>1 DEF Replaced
<1> QED
  BY <1>1, <1>2 DEF SameScan, Sight, Doubtful, Interesting

(* The next root, or an item about it.                                     *)
LEMMA EnteredRoot ==
    ASSUME WorldInv, NEW c, ScanOK(c), c.since = writes => ScanTrue(c), c.pc = "walk",
           c.todo = <<>>, NEW r \in c.roots, NEW d, SameScan(c, d), d.pc = "walk",
           d.roots = c.roots \ {r}, d.seen = c.seen,
           d.todo = IF r \in c.mapped /\ Reachable(r) THEN Under[r] ELSE <<>>,
           \A t \in d.items : t \in c.items \/ t.kind \in {"root unmapped", "root unavailable"}
    PROVE  RecordOK(d)
<1>1. /\ c.roots \subseteq Root /\ r \in Root /\ c.roots \subseteq c.usable
      /\ c.seen \in Seq(EntryRec)
  BY DEF ScanOK, ScanRec
<1>2. IsInjective(d.todo)
  BY <1>1, PlacesAssumption, EmptyTodo
<1>3. Visits(d)
  <2>1. Visits(c)
    BY DEF ScanOK, Early
  <2>2. PICK f \in [DOMAIN c.seen -> Root \ c.roots] :
           /\ \A i \in DOMAIN c.seen : c.seen[i].uri \in ToSet(Under[f[i]])
           /\ \A i, j \in DOMAIN c.seen : f[i] = f[j] /\ c.seen[i].uri = c.seen[j].uri => i = j
    BY <2>1 DEF Visits, VisitsBy
  <2>3. f \in [DOMAIN d.seen -> Root \ d.roots] /\ \A i \in DOMAIN d.seen : f[i] # r
    OBVIOUS
  <2>4. d.todo # <<>> => \E q \in Root \ d.roots :
           /\ ToSet(d.todo) \subseteq ToSet(Under[q])
           /\ \A i \in DOMAIN d.seen : f[i] = q /\ d.seen[i].uri \in ToSet(d.todo) =>
                 d.pc = "read" /\ i = Len(d.seen)
    <3>1. ASSUME d.todo # <<>>
          PROVE  r \in Root \ d.roots /\ ToSet(d.todo) \subseteq ToSet(Under[r])
      BY <1>1, <3>1
    <3> QED
      BY <2>3, <3>1
  <2>5. /\ \A i \in DOMAIN d.seen : d.seen[i].uri \in ToSet(Under[f[i]])
        /\ \A i, j \in DOMAIN d.seen : f[i] = f[j] /\ d.seen[i].uri = d.seen[j].uri => i = j
    BY <2>2
  <2> QED
    BY <2>3, <2>4, <2>5 DEF Visits, VisitsBy
<1>4. ScanOK(d)
  BY <1>1, <1>2, <1>3 DEF ScanOK, SameScan, Early
<1>5. ASSUME d.since = writes PROVE ScanTrue(d)
  <2>1. ScanTrue(c)
    BY <1>5 DEF SameScan
  <2>0. /\ Sight(d) = Sight(c) /\ Searched(d.usable, d.mapped) = Searched(c.usable, c.mapped)
        /\ \A u : (Replaced(d, u) <=> Replaced(c, u)) /\ (Doubtful(d, u) <=> Doubtful(c, u))
        /\ \A size : Interesting(d, size) <=> Interesting(c, size)
    BY SameSight
  <2>2. \A i \in DOMAIN d.seen : SeenOK(d, i)
    <3>1. \A i \in DOMAIN d.seen : SeenOK(c, i)
      BY <2>1 DEF ScanTrue, Early
    <3>2. TAKE i \in DOMAIN d.seen
    <3>3. SeenOK(c, i) /\ c.pc = "walk"
      BY <3>1
    <3> QED
      BY <2>0, <3>3 DEF SeenOK
  <2>3. \A u \in ToSet(d.todo) : Within(u) \cap Searched(d.usable, d.mapped) # {}
    <3>1. CASE r \in c.mapped /\ Reachable(r)
      <4>1. r \in Searched(d.usable, d.mapped)
        BY <1>1, <3>1, SameSight DEF Searched
      <4> QED
        BY <1>1, <3>1, <4>1 DEF Within
    <3>2. CASE ~(r \in c.mapped /\ Reachable(r))
      BY <3>2, EmptyTodo
    <3> QED
      BY <3>1, <3>2
  <2>4. ToCome(c) \subseteq ToCome(d)
    <3>1. ToSet(c.todo) = {}
      BY EmptyTodo
    <3>2. r \in Searched(c.usable, c.mapped) => d.todo = Under[r]
      BY DEF Searched
    <3>3. \A q \in c.roots : q = r \/ q \in d.roots
      OBVIOUS
    <3>4. ASSUME NEW q \in c.roots \cap Searched(c.usable, c.mapped), NEW u \in ToSet(Under[q])
          PROVE  u \in ToCome(d)
      <4>1. CASE q = r
        BY <3>2, <3>4, <4>1 DEF ToCome
      <4>2. CASE q # r
        BY <2>0, <3>4, <4>2 DEF ToCome
      <4> QED
        BY <4>1, <4>2
    <3>5. \A u \in ToCome(c) : \E q \in c.roots \cap Searched(c.usable, c.mapped) : u \in ToSet(Under[q])
      BY <3>1 DEF ToCome
    <3> QED
      BY <3>4, <3>5
  <2>5. \A u \in Sight(d) : u \in ToCome(d) \/ \E i \in DOMAIN d.seen : d.seen[i].uri = u
    <3>1. \A u \in Sight(c) : u \in ToCome(c) \/ \E i \in DOMAIN c.seen : c.seen[i].uri = u
      BY <2>1 DEF ScanTrue, Early
    <3> QED
      BY <2>0, <2>4, <3>1
  <2> QED
    BY <2>2, <2>3, <2>5 DEF ScanTrue
<1> QED
  BY <1>4, <1>5 DEF RecordOK

(* A place that is not there, or is no file.                               *)
LEMMA SkippedPlace ==
    ASSUME WorldInv, NEW c, ScanOK(c), c.since = writes => ScanTrue(c), c.pc = "walk",
           c.todo # <<>>, ~Present(c.todo[1]) \/ c.todo[1] \in Folder,
           NEW d, SameScan(c, d), d.pc = "walk", d.roots = c.roots, d.seen = c.seen,
           d.todo = Tail(c.todo), d.items = c.items
    PROVE  RecordOK(d)
<1>1. c.todo \in Seq(Place) /\ IsInjective(c.todo)
  BY DEF ScanOK, ScanRec, Early
<1>2. ToSet(c.todo) = {c.todo[1]} \cup ToSet(Tail(c.todo)) /\ IsInjective(Tail(c.todo))
  BY <1>1, HeadAndTail
<1>3. Visits(d)
  <2>1. Visits(c)
    BY DEF ScanOK, Early
  <2>2. PICK f \in [DOMAIN c.seen -> Root \ c.roots] :
           /\ \A i \in DOMAIN c.seen : c.seen[i].uri \in ToSet(Under[f[i]])
           /\ \A i, j \in DOMAIN c.seen : f[i] = f[j] /\ c.seen[i].uri = c.seen[j].uri => i = j
           /\ \E r \in Root \ c.roots :
                /\ ToSet(c.todo) \subseteq ToSet(Under[r])
                /\ \A i \in DOMAIN c.seen : ~(f[i] = r /\ c.seen[i].uri \in ToSet(c.todo))
    BY <2>1 DEF Visits, VisitsBy
  <2> QED
    BY <1>2, <2>2 DEF Visits, VisitsBy
<1>4. ScanOK(d)
  BY <1>2, <1>3 DEF ScanOK, SameScan, Early
<1>5. ASSUME d.since = writes PROVE ScanTrue(d)
  <2>1. ScanTrue(c)
    BY <1>5 DEF SameScan
  <2>2. \A i \in DOMAIN d.seen : SeenOK(d, i)
    <3>1. \A i \in DOMAIN d.seen : SeenOK(c, i)
      BY <2>1 DEF ScanTrue, Early
    <3> QED
      BY <3>1, SameSight DEF SeenOK
  <2>3. c.todo[1] \notin Sight(d)
    BY KindsAssumption DEF Sight, InSight
  <2>4. ToCome(c) = {c.todo[1]} \cup ToCome(d)
    BY <1>2, SameSight DEF ToCome
  <2> QED
    BY <1>2, <2>1, <2>2, <2>3, <2>4, SameSight DEF ScanTrue, Early
<1> QED
  BY <1>4, <1>5 DEF RecordOK

(* A scan that failed says nothing.                                        *)
LEMMA FailedScan ==
    ASSUME NEW c, ScanOK(c), NEW d, SameScan(c, d), d.pc = "failed",
           d.roots = c.roots, d.seen = c.seen
    PROVE  RecordOK(d)
BY DEF RecordOK, ScanOK, ScanTrue, SameScan, Early

(* One visit more, of the next place of the root that is being walked.     *)
LEMMA OneVisitMore ==
    ASSUME NEW c, Visits(c), c.pc = "walk", c.seen \in Seq(EntryRec), c.todo \in Seq(Place),
           IsInjective(c.todo), c.todo # <<>>, NEW e \in EntryRec, e.uri = c.todo[1],
           NEW d, d.roots = c.roots, d.seen = Append(c.seen, e),
           d.todo = Tail(c.todo) \/ (d.todo = c.todo /\ d.pc = "read")
    PROVE  Visits(d)
<1> DEFINE n == Len(c.seen)
<1>1. /\ n \in Nat /\ Len(d.seen) = n + 1 /\ DOMAIN c.seen = 1..n /\ DOMAIN d.seen = 1..(n + 1)
      /\ \A i \in 1..n : d.seen[i] = c.seen[i]
      /\ d.seen[n + 1] = e
  BY OneMore
<1>2. /\ ToSet(c.todo) = {e.uri} \cup ToSet(Tail(c.todo)) /\ e.uri \notin ToSet(Tail(c.todo))
  BY HeadAndTail
<1>8. PICK f \in [DOMAIN c.seen -> Root \ c.roots] : VisitsBy(c, f)
  BY DEF Visits
<1>9. PICK r \in Root \ c.roots :
         /\ ToSet(c.todo) \subseteq ToSet(Under[r])
         /\ \A i \in DOMAIN c.seen : ~(f[i] = r /\ c.seen[i].uri \in ToSet(c.todo))
  BY <1>8 DEF VisitsBy
<1>3. /\ \A i \in DOMAIN c.seen : c.seen[i].uri \in ToSet(Under[f[i]])
      /\ \A i, j \in DOMAIN c.seen : f[i] = f[j] /\ c.seen[i].uri = c.seen[j].uri => i = j
      /\ ToSet(c.todo) \subseteq ToSet(Under[r])
      /\ \A i \in DOMAIN c.seen : ~(f[i] = r /\ c.seen[i].uri \in ToSet(c.todo))
      /\ r \in Root \ c.roots
  BY <1>8, <1>9 DEF VisitsBy
<1> DEFINE g == [i \in DOMAIN d.seen |-> IF i = n + 1 THEN r ELSE f[i]]
<1> HIDE DEF n
<1>4. /\ g \in [DOMAIN d.seen -> Root \ d.roots] /\ g[n + 1] = r
      /\ \A i \in 1..n : g[i] = f[i] /\ i \in DOMAIN d.seen
      /\ \A i \in DOMAIN d.seen : i \in 1..n \/ i = n + 1
  <2>1. \A i \in 1..(n + 1) : i \in 1..n \/ i = n + 1
    BY <1>1
  <2>2. \A i \in 1..n : i \in 1..(n + 1) /\ i # n + 1
    BY <1>1
  <2>3. n + 1 \in 1..(n + 1)
    BY <1>1
  <2>4. \A i \in DOMAIN d.seen : (IF i = n + 1 THEN r ELSE f[i]) \in Root \ d.roots
    BY <1>1, <1>3, <2>1
  <2> QED
    BY <1>1, <2>1, <2>2, <2>3, <2>4
<1> HIDE DEF g
<1>5. \A i \in DOMAIN d.seen : d.seen[i].uri \in ToSet(Under[g[i]])
  BY <1>1, <1>2, <1>3, <1>4
<1>6. ASSUME NEW i \in DOMAIN d.seen, NEW j \in DOMAIN d.seen, g[i] = g[j],
             d.seen[i].uri = d.seen[j].uri
      PROVE  i = j
  <2>1. CASE i \in 1..n /\ j \in 1..n
    BY <1>1, <1>3, <1>4, <1>6, <2>1
  <2>2. CASE i = n + 1 /\ j \in 1..n
    BY <1>1, <1>2, <1>3, <1>4, <1>6, <2>2
  <2>3. CASE j = n + 1 /\ i \in 1..n
    BY <1>1, <1>2, <1>3, <1>4, <1>6, <2>3
  <2> QED
    BY <1>4, <2>1, <2>2, <2>3
<1>7. /\ ToSet(d.todo) \subseteq ToSet(Under[r])
      /\ \A i \in DOMAIN d.seen : g[i] = r /\ d.seen[i].uri \in ToSet(d.todo) =>
            d.pc = "read" /\ i = Len(d.seen)
  <2>1. \A i \in 1..n : ~(g[i] = r /\ d.seen[i].uri \in ToSet(d.todo))
    BY <1>1, <1>2, <1>3, <1>4
  <2>2. d.seen[n + 1].uri \in ToSet(d.todo) => d.pc = "read"
    BY <1>1, <1>2
  <2> QED
    BY <1>1, <1>2, <1>3, <1>4, <2>1, <2>2
<1>10. r \in Root \ d.roots
  BY <1>3
<1>11. d.todo # <<>> => \E q \in Root \ d.roots :
         /\ ToSet(d.todo) \subseteq ToSet(Under[q])
         /\ \A i \in DOMAIN d.seen : g[i] = q /\ d.seen[i].uri \in ToSet(d.todo) =>
               d.pc = "read" /\ i = Len(d.seen)
  BY <1>7, <1>10
<1>12. VisitsBy(d, g)
  BY <1>5, <1>6, <1>11 DEF VisitsBy
<1> QED
  BY <1>4, <1>12 DEF Visits
-----------------------------------------------------------------------------
(* A file is noted, then read.                                             *)

(* An entry noted for good, or until the file has been read.               *)
LEMMA NotedEntry ==
    ASSUME WorldInv, NEW c, ScanOK(c), c.since = writes => ScanTrue(c), c.pc = "walk",
           c.todo # <<>>, NEW e \in EntryRec, Honest(e), e.uri = c.todo[1],
           Present(e.uri), e.size = Size(e.uri), e.stamp = disk[e.uri].stamp,
           NEW d, SameScan(c, d), d.roots = c.roots, d.seen = Append(c.seen, e), d.items = c.items,
           \/ /\ d.pc = "walk" /\ d.todo = Tail(c.todo)
              /\ \/ Replaced(c, e.uri) \/ (Doubtful(c, e.uri) /\ e.print = Gone)
                 \/ e.print = IF Interesting(c, Size(e.uri)) THEN Digest(e.uri) ELSE Gone
           \/ /\ d.pc = "read" /\ d.todo = c.todo
              /\ Interesting(c, Size(e.uri)) /\ e.print = Gone
    PROVE  RecordOK(d)
<1> DEFINE n == Len(c.seen)
           u == e.uri
<1>1. /\ c.todo \in Seq(Place) /\ IsInjective(c.todo) /\ c.seen \in Seq(EntryRec) /\ Visits(c)
      /\ \A i \in DOMAIN c.seen : Honest(c.seen[i])
      /\ \A x \in c.cache : Honest(x)
      /\ c.roots \subseteq c.usable
      /\ \A t \in c.items : t.kind \in {"root unmapped", "root unavailable"}
  BY DEF ScanOK, ScanRec, Early
<1>2. /\ ToSet(c.todo) = {u} \cup ToSet(Tail(c.todo)) /\ IsInjective(Tail(c.todo))
      /\ u \in ToSet(c.todo)
  BY <1>1, HeadAndTail
<1>3. /\ n \in Nat /\ Len(d.seen) = n + 1 /\ DOMAIN c.seen = 1..n /\ DOMAIN d.seen = 1..(n + 1)
      /\ \A i \in 1..n : d.seen[i] = c.seen[i]
      /\ d.seen[n + 1] = e /\ d.seen # <<>>
  <2>1. c.seen \in Seq(EntryRec) /\ d.seen = Append(c.seen, e)
    BY <1>1
  <2> QED
    BY <2>1, OneMore
<1> HIDE DEF n
<1>4. \A i \in DOMAIN d.seen : i \in 1..n \/ i = n + 1
  BY <1>3
<1>5. Visits(d)
  BY <1>1, OneVisitMore
<1>6. /\ d.mapped = c.mapped /\ d.usable = c.usable /\ d.known = c.known /\ d.places = c.places
      /\ d.cache = c.cache /\ d.since = c.since /\ d \in ScanRec(d) /\ "seen" \in DOMAIN d
  BY DEF SameScan
<1>7. IsInjective(d.todo) /\ ToSet(d.todo) \subseteq ToSet(c.todo)
  BY <1>1, <1>2
<1>8. ScanOK(d)
  <2>1. \A i \in DOMAIN d.seen : Honest(d.seen[i])
    BY <1>1, <1>3, <1>4
  <2>2. d.pc = "read" => /\ d.todo # <<>> /\ d.seen # <<>> /\ d.seen[Len(d.seen)].uri = d.todo[1]
                         /\ d.seen[Len(d.seen)].print = Gone
    BY <1>3
  <2>3. d.pc # "load" /\ d.pc \in Early
    BY DEF Early
  <2> QED
    BY <1>1, <1>5, <1>6, <1>7, <2>1, <2>2, <2>3 DEF ScanOK
<1>9. ASSUME d.since = writes PROVE ScanTrue(d)
  <2>1. ScanTrue(c)
    BY <1>6, <1>9
  <2>0. /\ Sight(d) = Sight(c) /\ Searched(d.usable, d.mapped) = Searched(c.usable, c.mapped)
        /\ \A x : (Replaced(d, x) <=> Replaced(c, x)) /\ (Doubtful(d, x) <=> Doubtful(c, x))
        /\ \A size : Interesting(d, size) <=> Interesting(c, size)
    BY SameSight
  <2>2. /\ \A i \in DOMAIN c.seen : SeenOK(c, i)
        /\ \A x \in ToSet(c.todo) : Within(x) \cap Searched(c.usable, c.mapped) # {}
        /\ \A x \in Sight(c) : x \in ToCome(c) \/ \E i \in DOMAIN c.seen : c.seen[i].uri = x
    BY <2>1 DEF ScanTrue, Early
  <2>3. ASSUME NEW i \in 1..n PROVE SeenOK(d, i)
    <3>1. SeenOK(c, i) /\ c.pc = "walk" /\ d.seen[i] = c.seen[i]
      BY <1>3, <2>2
    <3> QED
      BY <2>0, <3>1 DEF SeenOK
  <2>4. SeenOK(d, n + 1)
    <3>1. u \in File /\ u \in Place
      BY DEF EntryRec, Place
    <3>2. u \in Sight(d)
      BY <1>2, <2>0, <2>2, <3>1 DEF Sight, InSight
    <3> QED
      BY <1>3, <2>0, <3>2 DEF SeenOK
  <2>5. \A i \in DOMAIN d.seen : SeenOK(d, i)
    BY <1>4, <2>3, <2>4
  <2>6. \A x \in ToCome(c) : x \in ToCome(d) \/ x = u
    BY <1>2, <1>6, <2>0 DEF ToCome
  <2>7. \A x \in Sight(d) : x \in ToCome(d) \/ \E i \in DOMAIN d.seen : d.seen[i].uri = x
    <3>1. TAKE x \in Sight(d)
    <3>2. CASE x \in ToCome(c)
      <4>1. n + 1 \in DOMAIN d.seen /\ d.seen[n + 1].uri = u
        BY <1>3
      <4> QED
        BY <2>6, <3>2, <4>1
    <3>3. CASE \E i \in DOMAIN c.seen : c.seen[i].uri = x
      <4>1. PICK i \in 1..n : c.seen[i].uri = x
        BY <1>3, <3>3
      <4>2. i \in DOMAIN d.seen /\ d.seen[i].uri = x
        BY <1>3, <4>1
      <4> QED
        BY <4>2
    <3> QED
      BY <2>0, <2>2, <3>2, <3>3
  <2>8. \A x \in ToSet(d.todo) : Within(x) \cap Searched(d.usable, d.mapped) # {}
    BY <1>7, <2>0, <2>2
  <2>9. d.pc = "read" => Interesting(d, Size(d.todo[1]))
    BY <2>0
  <2> QED
    BY <2>5, <2>7, <2>8, <2>9 DEF ScanTrue
<1> QED
  BY <1>8, <1>9 DEF RecordOK

(* The file is read, whatever is there by now.                             *)
LEMMA FileWasRead ==
    ASSUME WorldInv, NEW c, ScanOK(c), c.since = writes => ScanTrue(c), c.pc = "read",
           NEW e, e = c.seen[Len(c.seen)], Present(e.uri),
           NEW f, f = [e EXCEPT !.print = Digest(e.uri), !.whole = disk[e.uri].stamp = e.stamp],
           NEW d, SameScan(c, d), d.roots = c.roots, d.items = c.items, d.pc = "walk",
           d.todo = Tail(c.todo), d.seen = Append(Front(c.seen), f)
    PROVE  RecordOK(d)
<1> DEFINE n == Len(c.seen)
           u == e.uri
<1>1. /\ c.todo \in Seq(Place) /\ IsInjective(c.todo) /\ c.seen \in Seq(EntryRec) /\ Visits(c)
      /\ \A i \in DOMAIN c.seen : Honest(c.seen[i])
      /\ \A x \in c.cache : Honest(x)
      /\ c.roots \subseteq c.usable
      /\ \A t \in c.items : t.kind \in {"root unmapped", "root unavailable"}
      /\ c.todo # <<>> /\ c.seen # <<>> /\ e.uri = c.todo[1]
  BY DEF ScanOK, ScanRec, Early
<1>2. e \in EntryRec /\ Honest(e) /\ u \in File /\ u \in Place
  <2>0. c.seen \in Seq(EntryRec) /\ c.seen # <<>> /\ e = c.seen[Len(c.seen)]
    BY <1>1
  <2>3. DOMAIN c.seen = 1..Len(c.seen) /\ Len(c.seen) \in Nat \ {0}
    BY <2>0, LenProperties, EmptySeq
  <2>1. Len(c.seen) \in DOMAIN c.seen
    BY <2>3
  <2>2. e \in EntryRec
    BY <2>0, <2>3, ElementOfSeq
  <2> QED
    BY <1>1, <2>1, <2>2 DEF EntryRec, Place
<1>3. disk[u].version \in FileVersion /\ disk[u].stamp # 0 /\ disk[u].stamp \in Nat
  BY <1>2 DEF WorldInv, Present, VersionsOf
<1>4. f \in EntryRec /\ f.uri = u /\ f.size = e.size /\ f.stamp = e.stamp /\ f.print = Digest(u)
      /\ f.whole = (disk[u].stamp = e.stamp)
  <2>1. Digest(u) \in Digests
    BY <1>3 DEF Digests, Digest
  <2>2. e = [uri |-> e.uri, size |-> e.size, stamp |-> e.stamp, print |-> e.print, whole |-> e.whole]
    BY <1>2 DEF EntryRec
  <2>3. (disk[u].stamp = e.stamp) \in BOOLEAN
    OBVIOUS
  <2>4. /\ f.uri = u /\ f.size = e.size /\ f.stamp = e.stamp /\ f.print = Digest(u)
        /\ f.whole = (disk[u].stamp = e.stamp)
    BY <2>2
  <2>5. f = [uri |-> e.uri, size |-> e.size, stamp |-> e.stamp, print |-> Digest(u),
             whole |-> disk[u].stamp = e.stamp]
    BY <2>2
  <2>6. f \in EntryRec
    BY <1>2, <2>1, <2>3, <2>5 DEF EntryRec
  <2> QED
    BY <2>4, <2>6
<1>5. Honest(f)
  <2>1. f.stamp \in 1..(Len(PlaceOrder) + writes)
    BY <1>2, <1>4 DEF Honest
  <2>2. ASSUME f.whole, NEW w \in Place, disk[w].stamp = f.stamp PROVE Digest(w) = f.print
    <3>1. disk[u].stamp = disk[w].stamp
      BY <1>4, <2>2
    <3>2. w = u
      BY <1>2, <1>3, <3>1 DEF WorldInv
    <3> QED
      BY <1>4, <3>2
  <2> QED
    BY <2>1, <2>2 DEF Honest
<1>6. /\ n \in Nat \ {0} /\ Len(d.seen) = n /\ DOMAIN c.seen = 1..n /\ DOMAIN d.seen = 1..n
      /\ \A i \in 1..(n - 1) : d.seen[i] = c.seen[i]
      /\ d.seen[n] = f
  <2>1. c.seen \in Seq(EntryRec) /\ c.seen # <<>> /\ f \in EntryRec /\ d.seen = Append(Front(c.seen), f)
    BY <1>1, <1>4
  <2> QED
    BY <2>1, LastChanged
<1>7. /\ ToSet(c.todo) = {u} \cup ToSet(Tail(c.todo)) /\ IsInjective(Tail(c.todo))
      /\ u \in ToSet(c.todo) /\ u \notin ToSet(Tail(c.todo))
  BY <1>1, HeadAndTail
<1>8. c.seen[n] = e
  OBVIOUS
<1> HIDE DEF n
<1>9. \A i \in 1..n : (i \in 1..(n - 1) /\ i # n) \/ i = n
  BY <1>6
<1>10. \A i \in 1..n : d.seen[i].uri = c.seen[i].uri
  BY <1>4, <1>6, <1>8, <1>9
<1>11. Visits(d)
  <2>1. PICK g \in [DOMAIN c.seen -> Root \ c.roots] :
         /\ \A i \in DOMAIN c.seen : c.seen[i].uri \in ToSet(Under[g[i]])
         /\ \A i, j \in DOMAIN c.seen : g[i] = g[j] /\ c.seen[i].uri = c.seen[j].uri => i = j
         /\ \E r \in Root \ c.roots :
               /\ ToSet(c.todo) \subseteq ToSet(Under[r])
               /\ \A i \in DOMAIN c.seen : g[i] = r /\ c.seen[i].uri \in ToSet(c.todo) =>
                     c.pc = "read" /\ i = Len(c.seen)
    BY <1>1 DEF Visits, VisitsBy
  <2>2. PICK r \in Root \ c.roots :
               /\ ToSet(c.todo) \subseteq ToSet(Under[r])
               /\ \A i \in DOMAIN c.seen : g[i] = r /\ c.seen[i].uri \in ToSet(c.todo) => i = Len(c.seen)
    BY <2>1
  <2>3. g \in [DOMAIN d.seen -> Root \ d.roots]
    BY <1>6
  <2>4. \A i \in DOMAIN d.seen : ~(g[i] = r /\ d.seen[i].uri \in ToSet(d.todo))
    <3>1. TAKE i \in DOMAIN d.seen
    <3>2. CASE i = n
      BY <1>4, <1>6, <1>7, <3>2
    <3>3. CASE i # n
      BY <1>6, <1>7, <1>10, <2>2, <3>3 DEF n
    <3> QED
      BY <3>2, <3>3
  <2>5. /\ \A i \in DOMAIN d.seen : d.seen[i].uri \in ToSet(Under[g[i]])
        /\ \A i, j \in DOMAIN d.seen : g[i] = g[j] /\ d.seen[i].uri = d.seen[j].uri => i = j
    <3>1. \A i \in DOMAIN d.seen : i \in DOMAIN c.seen /\ d.seen[i].uri = c.seen[i].uri
      BY <1>6, <1>10
    <3>2. \A i \in DOMAIN d.seen : d.seen[i].uri \in ToSet(Under[g[i]])
      BY <2>1, <3>1
    <3>3. ASSUME NEW i \in DOMAIN d.seen, NEW j \in DOMAIN d.seen, g[i] = g[j],
                 d.seen[i].uri = d.seen[j].uri
          PROVE  i = j
      <4>1. /\ i \in DOMAIN c.seen /\ j \in DOMAIN c.seen
            /\ c.seen[i].uri = c.seen[j].uri
        BY <3>1, <3>3
      <4> QED
        BY <2>1, <3>3, <4>1
    <3> QED
      BY <3>2, <3>3
  <2>6. \E q \in Root \ d.roots :
           /\ ToSet(d.todo) \subseteq ToSet(Under[q])
           /\ \A i \in DOMAIN d.seen : ~(g[i] = q /\ d.seen[i].uri \in ToSet(d.todo))
    BY <1>7, <2>2, <2>4
  <2> QED
    BY <2>3, <2>5, <2>6 DEF Visits, VisitsBy
<1>12. /\ d.mapped = c.mapped /\ d.usable = c.usable /\ d.known = c.known /\ d.places = c.places
       /\ d.cache = c.cache /\ d.since = c.since /\ d \in ScanRec(d) /\ "seen" \in DOMAIN d
  BY DEF SameScan
<1>13. ScanOK(d)
  <2>1. \A i \in DOMAIN d.seen : Honest(d.seen[i])
    BY <1>1, <1>5, <1>6, <1>9
  <2> QED
    BY <1>1, <1>7, <1>11, <1>12, <2>1 DEF ScanOK, Early
<1>14. ASSUME d.since = writes PROVE ScanTrue(d)
  <2>1. ScanTrue(c)
    BY <1>12, <1>14
  <2>0. /\ Sight(d) = Sight(c) /\ Searched(d.usable, d.mapped) = Searched(c.usable, c.mapped)
        /\ \A x : (Replaced(d, x) <=> Replaced(c, x)) /\ (Doubtful(d, x) <=> Doubtful(c, x))
        /\ \A size : Interesting(d, size) <=> Interesting(c, size)
    BY SameSight
  <2>2. /\ \A i \in DOMAIN c.seen : SeenOK(c, i)
        /\ \A x \in ToSet(c.todo) : Within(x) \cap Searched(c.usable, c.mapped) # {}
        /\ \A x \in Sight(c) : x \in ToCome(c) \/ \E i \in DOMAIN c.seen : c.seen[i].uri = x
        /\ Interesting(c, Size(u))
    BY <1>1, <2>1 DEF ScanTrue, Early
  <2>3. ASSUME NEW i \in 1..(n - 1) PROVE SeenOK(d, i)
    <3>1. i \in 1..n /\ i # n
      BY <1>6
    <3>2. SeenOK(c, i) /\ d.seen[i] = c.seen[i] /\ i # Len(c.seen)
      BY <1>6, <2>2, <3>1 DEF n
    <3> QED
      BY <2>0, <3>2 DEF SeenOK
  <2>4. SeenOK(d, n)
    <3>1. SeenOK(c, n)
      BY <1>6, <2>2
    <3>2. u \in Sight(c) /\ e.size = Size(u) /\ e.stamp = disk[u].stamp
      BY <1>8, <3>1 DEF SeenOK
    <3>3. f.print = IF Interesting(c, Size(u)) THEN Digest(u) ELSE Gone
      BY <1>4, <2>2
    <3>4. d.seen[n] = f /\ f.uri = u /\ f.size = Size(u) /\ f.stamp = disk[u].stamp
      BY <1>4, <1>6, <3>2
    <3>5. u \in Sight(d) /\ f.print = IF Interesting(d, Size(u)) THEN Digest(u) ELSE Gone
      BY <2>0, <3>2, <3>3
    <3> QED
      BY <3>4, <3>5 DEF SeenOK
  <2>5. \A i \in DOMAIN d.seen : SeenOK(d, i)
    BY <1>6, <1>9, <2>3, <2>4
  <2>6. \A x \in ToCome(c) : x \in ToCome(d) \/ x = u
    BY <1>7, <1>12, <2>0 DEF ToCome
  <2>7. \A x \in Sight(d) : x \in ToCome(d) \/ \E i \in DOMAIN d.seen : d.seen[i].uri = x
    <3>1. TAKE x \in Sight(d)
    <3>2. CASE x \in ToCome(c)
      <4>1. n \in DOMAIN d.seen /\ d.seen[n].uri = u
        BY <1>4, <1>6
      <4> QED
        BY <2>6, <3>2, <4>1
    <3>3. CASE \E i \in DOMAIN c.seen : c.seen[i].uri = x
      BY <1>6, <1>10, <3>3
    <3> QED
      BY <2>0, <2>2, <3>2, <3>3
  <2>8. \A x \in ToSet(d.todo) : Within(x) \cap Searched(d.usable, d.mapped) # {}
    BY <1>7, <2>0, <2>2
  <2> QED
    BY <2>5, <2>7, <2>8 DEF ScanTrue
<1> QED
  BY <1>13, <1>14 DEF RecordOK
-----------------------------------------------------------------------------
(* The report of a scan against the files.                                 *)

(* A bounded set of numbers has a greatest one.                            *)
LEMMA GreatestOf ==
    ASSUME NEW n \in Nat, NEW S \in SUBSET (1..n), S # {}
    PROVE  \E m \in S : \A i \in S : i <= m
<1> DEFINE back == {n - i : i \in S}
<1>1. back \in SUBSET Nat /\ back # {}
  <2>1. \A i \in 1..n : n - i \in Nat
    OBVIOUS
  <2> QED
    BY <2>1
<1>2. PICK k \in back : \A j \in back : k <= j
  BY <1>1, LeastOf
<1>3. PICK m \in S : k = n - m
  BY <1>2
<1>4. \A i \in S : i <= m
  <2>1. TAKE i \in S
  <2>2. n - m <= n - i /\ i \in Nat /\ m \in Nat
    BY <1>2, <1>3
  <2> QED
    BY <2>2
<1> QED
  BY <1>4

(* What is last in the order of the resources is in the set.               *)
LEMMA LastIsIn ==
    ASSUME NEW S \in SUBSET Resource, S # {}
    PROVE  LastOf(S) \in S
<1> DEFINE n == Len(ResourceOrder)
           at == {i \in DOMAIN ResourceOrder : ResourceOrder[i] \in S}
<1>1. DOMAIN ResourceOrder = 1..n /\ n \in Nat
  BY OrdersAssumption, LenProperties
<1>2. at \in SUBSET (1..n) /\ at # {}
  <2>1. PICK x \in S : x \in ToSet(ResourceOrder)
    BY OrdersAssumption
  <2> QED
    BY <1>1, <2>1 DEF ToSet
<1> HIDE DEF n
<1>3. PICK i \in at : \A j \in at : j <= i
  BY <1>1, <1>2, GreatestOf
<1>4. \A j \in (i + 1)..n : ResourceOrder[j] \notin S
  <2>1. ASSUME NEW j \in (i + 1)..n, ResourceOrder[j] \in S PROVE FALSE
    <3>1. j \in 1..n /\ ~(j <= i)
      BY <1>1, <1>2, <1>3
    <3> QED
      BY <1>1, <1>3, <2>1, <3>1
  <2> QED
    BY <2>1
<1>5. \E k \in DOMAIN ResourceOrder :
         ResourceOrder[k] \in S /\ \A j \in (k + 1)..Len(ResourceOrder) : ResourceOrder[j] \notin S
  BY <1>3, <1>4 DEF n
<1> QED
  BY <1>5 DEF LastOf

LEMMA FiniteUpTo == ASSUME NEW m \in Nat PROVE IsFiniteSet(1..m)
BY FS_Interval

(* What a cardinality says of the elements.                                *)
LEMMA MoreThanOne ==
    ASSUME NEW S, IsFiniteSet(S)
    PROVE  /\ Cardinality(S) > 1 => \A i \in S : \E j \in S : j # i
           /\ \A i, j \in S : i # j => Cardinality(S) > 1
<1>1. Cardinality(S) \in Nat
  BY FS_CardinalityType
<1>2. ASSUME Cardinality(S) > 1, NEW i \in S, \A j \in S : j = i PROVE FALSE
  <2>1. S = {i}
    BY <1>2
  <2>2. Cardinality(S) = 1
    BY <2>1, FS_Singleton
  <2> QED
    BY <1>2, <2>2
<1>3. ASSUME NEW i \in S, NEW j \in S, i # j PROVE Cardinality(S) > 1
  <2>1. IsFiniteSet({i}) /\ Cardinality({i}) = 1
    BY FS_Singleton
  <2>2. Cardinality({i} \cup {j}) = 2 /\ IsFiniteSet({i} \cup {j})
    BY <1>3, <2>1, FS_AddElement
  <2>3. {i} \cup {j} \subseteq S
    BY <1>3
  <2>4. Cardinality({i} \cup {j}) <= Cardinality(S)
    BY <2>3, FS_Subset
  <2> QED
    BY <1>1, <2>2, <2>4
<1> QED
  BY <1>2, <1>3

(* A file has the size of a resource whenever it has its fingerprint.      *)
LEMMA AlikeShows ==
    ASSUME WorldInv, NEW c, ScanOK(c), NEW i \in DOMAIN c.seen, c.pc = "walk", SeenOK(c, i),
           NEW x
    PROVE  LET u == c.seen[i].uri IN
           /\ ~Replaced(c, u) /\ Alike(c, x, c.seen[i]) => Shows(c, u, x)
           /\ ~Doubtful(c, u) /\ Shows(c, u, x) => Alike(c, x, c.seen[i])
<1> DEFINE e == c.seen[i]
           u == e.uri
<1> SUFFICES ASSUME x \in c.known \ SequenceResource
             PROVE  /\ ~Replaced(c, u) /\ Alike(c, x, e) => Shows(c, u, x)
                    /\ ~Doubtful(c, u) /\ Shows(c, u, x) => Alike(c, x, e)
  BY DEF Alike, Shows
<1>1. /\ u \in Sight(c) /\ e.size = Size(u)
      /\ \/ Replaced(c, u) \/ (Doubtful(c, u) /\ e.print = Gone)
         \/ e.print = IF Interesting(c, Size(u)) THEN Digest(u) ELSE Gone
  BY DEF SeenOK
<1>2. x \in Resource /\ original[x] \in FileVersion
  <2>1. x \in Imported
    BY DEF ScanOK, ScanRec
  <2> QED
    BY <2>1 DEF Imported, WorldInv, ContentOf
<1>3. disk[u].version \in FileVersion
  BY <1>1 DEF Sight, InSight, Present, WorldInv, VersionsOf
<1>4. SizeOf[original[x]] = Size(u) => Interesting(c, Size(u))
  BY DEF Interesting
<1>5. Digest(u) = PrintOf(x) => SizeOf[original[x]] = Size(u)
  BY <1>2, <1>3, DigestAssumption DEF Digest, PrintOf, Size
<1>6. PrintOf(x) # Gone
  BY <1>2, DigestAssumption DEF PrintOf
<1>7. ASSUME ~Replaced(c, u), Alike(c, x, e) PROVE Shows(c, u, x)
  <2>1. e.print = PrintOf(x) /\ e.print # Gone
    BY <1>6, <1>7 DEF Alike
  <2>2. e.print = Digest(u)
    BY <1>1, <1>7, <2>1
  <2> QED
    BY <2>1, <2>2 DEF Shows
<1>8. ASSUME ~Doubtful(c, u), Shows(c, u, x) PROVE Alike(c, x, e)
  <2>1. ~Replaced(c, u)
    BY <1>8 DEF Doubtful
  <2> QED
    BY <1>1, <1>4, <1>5, <1>8, <2>1 DEF Alike, Shows
<1> QED
  BY <1>7, <1>8

(* What an item of a report comes from.                                    *)
LEMMA ItemSource ==
    ASSUME NEW c, \A t \in c.items : t.kind \in {"root unmapped", "root unavailable"},
           NEW t, t \in Classified(c),
           t.kind \in {"known online", "changed", "new candidate", "missing", "duplicate"}
    PROVE  \/ \E i \in DOMAIN c.seen : Holders(c, c.seen[i].uri) # {} /\ t = AtLocator(c, c.seen[i])
           \/ \E i \in DOMAIN c.seen : Holders(c, c.seen[i].uri) = {} /\ t \in Elsewhere(c, c.seen[i])
           \/ \E y \in c.known : t \in OfResource(c, y)
<1>1. t \notin c.items
  OBVIOUS
<1>2. \A rep : t \notin OfStructure(c, rep)
  <2> TAKE rep
  <2>1. OfStructure(c, rep) \subseteq {Item("partial", MembersOf[rep][1], Nil), Item("partial", rep, Nil)}
    BY DEF OfStructure
  <2>2. \A y, w : Item("partial", y, w).kind = "partial"
    BY DEF Item
  <2> QED
    BY <2>1, <2>2
<1> DEFINE at == {i \in DOMAIN c.seen : Holders(c, c.seen[i].uri) # {}}
           reps == {rep \in Representation : ToSet(MembersOf[rep]) \subseteq c.known}
           S1 == {AtLocator(c, c.seen[i]) : i \in at}
           S2 == UNION {Elsewhere(c, c.seen[i]) : i \in DOMAIN c.seen \ at}
           S3 == UNION {OfResource(c, y) : y \in c.known}
           S4 == UNION {OfStructure(c, rep) : rep \in reps}
<1>3. Classified(c) = c.items \cup S1 \cup S2 \cup S3 \cup S4
  BY DEF Classified
<1>4. t \in c.items \/ t \in S1 \/ t \in S2 \/ t \in S3 \/ t \in S4
  <2> HIDE DEF S1, S2, S3, S4
  <2> QED
    BY <1>3
<1>5. ASSUME t \in S1
      PROVE  \E i \in DOMAIN c.seen : Holders(c, c.seen[i].uri) # {} /\ t = AtLocator(c, c.seen[i])
  BY <1>5
<1>6. ASSUME t \in S2
      PROVE  \E i \in DOMAIN c.seen : Holders(c, c.seen[i].uri) = {} /\ t \in Elsewhere(c, c.seen[i])
  <2>1. PICK i \in DOMAIN c.seen \ at : t \in Elsewhere(c, c.seen[i])
    BY <1>6
  <2>2. Holders(c, c.seen[i].uri) = {}
    BY <2>1
  <2> QED
    BY <2>1, <2>2
<1>7. ASSUME t \in S3
      PROVE  \E y \in c.known : t \in OfResource(c, y)
  BY <1>7
<1>8. t \notin S4
  BY <1>2
<1> HIDE DEF S1, S2, S3, S4
<1> QED
  BY <1>1, <1>4, <1>5, <1>6, <1>7, <1>8

(* What a report of one kind comes from.                                   *)
LEMMA ReportedBy ==
    ASSUME NEW c, \A t \in c.items : t.kind \in {"root unmapped", "root unavailable"},
           NEW x, NEW u
    PROVE  /\ \A k \in {"known online", "changed"} : Item(k, x, u) \in Classified(c) =>
                 \E i \in DOMAIN c.seen : /\ Holders(c, u) # {} /\ c.seen[i].uri = u
                                          /\ x = LastOf(Holders(c, u))
                                          /\ k = "known online" <=> Alike(c, x, c.seen[i])
           /\ Item("new candidate", x, u) \in Classified(c) =>
                 \E i \in DOMAIN c.seen : /\ Holders(c, c.seen[i].uri) = {}
                                          /\ c.seen[i].uri = u
                                          /\ \A y \in Resource : ~Alike(c, y, c.seen[i])
           /\ Item("missing", x, u) \in Classified(c) =>
                 /\ x \in c.known /\ ~(Cardinality(Candidates(c, x)) > 1) /\ Candidates(c, x) = {}
                 /\ \A w \in c.places[x] : ~Present(w)
           /\ Item("duplicate", x, u) \in Classified(c) =>
                 /\ x \in c.known /\ Cardinality(Candidates(c, x)) > 1
                 /\ \E i \in Candidates(c, x) : c.seen[i].uri = u
<1>1. \A e : AtLocator(c, e).kind \in {"known online", "changed"}
  BY DEF AtLocator, Item
<1>2. \A e : Elsewhere(c, e) \subseteq {Item("new candidate", Nil, e.uri), Item("ambiguous", Nil, e.uri)}
  BY DEF Elsewhere
<1>3. \A e : Item("new candidate", x, u) \in Elsewhere(c, e) =>
                e.uri = u /\ {y \in Resource : Alike(c, y, e)} = {}
  <2>1. TAKE e
  <2>2. PICK matching : matching = {y \in Resource : Alike(c, y, e)}
    OBVIOUS
  <2>3. Elsewhere(c, e) = IF matching = {} THEN {Item("new candidate", Nil, e.uri)}
                          ELSE IF Cardinality(matching) > 1 THEN {Item("ambiguous", Nil, e.uri)} ELSE {}
    BY <2>2 DEF Elsewhere
  <2>4. Item("new candidate", x, u) # Item("ambiguous", Nil, e.uri)
    BY DEF Item
  <2>5. Item("new candidate", x, u) = Item("new candidate", Nil, e.uri) => u = e.uri
    BY DEF Item
  <2> QED
    BY <2>2, <2>3, <2>4, <2>5
<1>4. ASSUME NEW y, NEW k, NEW z, NEW w, Item(k, z, w) \in OfResource(c, y)
      PROVE  /\ z = y
             /\ \/ /\ Cardinality(Candidates(c, y)) > 1
                   /\ k \in {"duplicate", "ambiguous"} /\ \E i \in Candidates(c, y) : c.seen[i].uri = w
                \/ /\ ~(Cardinality(Candidates(c, y)) > 1) /\ k = "missing" /\ Candidates(c, y) = {}
                   /\ \A v \in c.places[y] : ~Present(v)
  <2> DEFINE found == Candidates(c, y)
             both == {Item("duplicate", y, c.seen[i].uri) : i \in found}
                     \union {Item("ambiguous", y, c.seen[i].uri) : i \in found}
  <2>1. OfResource(c, y) =
           IF Cardinality(found) > 1 THEN both
           ELSE IF ~(\E v \in c.places[y] : Present(v) \/ \E i \in DOMAIN c.seen : c.seen[i].uri = v)
                   /\ found = {}
                THEN {Item("missing", y, Nil)} ELSE {}
    BY DEF OfResource
  <2>4. ASSUME NEW s \in both
        PROVE  \E l \in {"duplicate", "ambiguous"}, i \in found : s = Item(l, y, c.seen[i].uri)
    OBVIOUS
  <2> HIDE DEF both, found
  <2>2. CASE Cardinality(found) > 1
    <3>1. Item(k, z, w) \in both
      BY <1>4, <2>1, <2>2
    <3>2. PICK l \in {"duplicate", "ambiguous"}, i \in found : Item(k, z, w) = Item(l, y, c.seen[i].uri)
      BY <2>4, <3>1
    <3>3. k = l /\ z = y /\ w = c.seen[i].uri
      BY <3>2 DEF Item
    <3> QED
      BY <2>2, <3>2, <3>3 DEF found
  <2>3. CASE ~(Cardinality(found) > 1)
    <3>1. /\ Item(k, z, w) = Item("missing", y, Nil) /\ found = {}
          /\ \A v \in c.places[y] : ~Present(v)
      BY <1>4, <2>1, <2>3
    <3>2. k = "missing" /\ z = y
      BY <3>1 DEF Item
    <3> QED
      BY <2>3, <3>1, <3>2 DEF found
  <2> QED
    BY <2>2, <2>3
<1>5. \A k, z, w : Item(k, z, w).kind = k
  BY DEF Item
<1>6. ASSUME NEW k \in {"known online", "changed"}, Item(k, x, u) \in Classified(c)
       PROVE  \E i \in DOMAIN c.seen : /\ Holders(c, u) # {} /\ c.seen[i].uri = u
                                       /\ x = LastOf(Holders(c, u))
                                       /\ k = "known online" <=> Alike(c, x, c.seen[i])
  <2>1. \A y : Item(k, x, u) \notin OfResource(c, y)
    BY <1>4, <1>6
  <2>2. \A e : Item(k, x, u) \notin Elsewhere(c, e)
    <3>1. \A e : Item(k, x, u) # Item("new candidate", Nil, e.uri) /\ Item(k, x, u) # Item("ambiguous", Nil, e.uri)
      BY <1>6 DEF Item
    <3> QED
      BY <1>2, <3>1
  <2>3. PICK i \in DOMAIN c.seen : Holders(c, c.seen[i].uri) # {} /\ Item(k, x, u) = AtLocator(c, c.seen[i])
    <3>1. PICK t : t = Item(k, x, u)
      OBVIOUS
    <3>2. t.kind \in {"known online", "changed"} /\ t \in Classified(c)
      BY <1>5, <1>6, <3>1
    <3>3. /\ \A i \in DOMAIN c.seen : t \notin Elsewhere(c, c.seen[i])
          /\ \A y \in c.known : t \notin OfResource(c, y)
      BY <2>1, <2>2, <3>1
    <3>4. \E i \in DOMAIN c.seen : Holders(c, c.seen[i].uri) # {} /\ t = AtLocator(c, c.seen[i])
      BY <3>2, <3>3, ItemSource
    <3> QED
      BY <3>1, <3>4
  <2>4. /\ k = IF Alike(c, LastOf(Holders(c, c.seen[i].uri)), c.seen[i]) THEN "known online" ELSE "changed"
        /\ x = LastOf(Holders(c, c.seen[i].uri)) /\ u = c.seen[i].uri
    BY <2>3 DEF AtLocator, Item
  <2> QED
    BY <2>3, <2>4
<1>7. ASSUME Item("new candidate", x, u) \in Classified(c)
      PROVE  \E i \in DOMAIN c.seen : /\ Holders(c, c.seen[i].uri) = {} /\ c.seen[i].uri = u
                                      /\ \A y \in Resource : ~Alike(c, y, c.seen[i])
  <2>1. \A y : Item("new candidate", x, u) \notin OfResource(c, y)
    BY <1>4
  <2>2. ASSUME NEW e, Item("new candidate", x, u) = AtLocator(c, e) PROVE FALSE
    <3>1. AtLocator(c, e).kind = "new candidate"
      BY <1>5, <2>2
    <3> QED
      BY <1>1, <3>1
  <2>3. PICK i \in DOMAIN c.seen :
           Holders(c, c.seen[i].uri) = {} /\ Item("new candidate", x, u) \in Elsewhere(c, c.seen[i])
    BY <1>5, <1>7, <2>1, <2>2, ItemSource
  <2> QED
    BY <1>3, <2>3
<1>8. ASSUME NEW k \in {"missing", "duplicate"}, Item(k, x, u) \in Classified(c)
      PROVE  x \in c.known /\ Item(k, x, u) \in OfResource(c, x)
  <2>1. \A e : Item(k, x, u) \notin Elsewhere(c, e)
    <3>1. \A e : Item(k, x, u) # Item("new candidate", Nil, e.uri) /\ Item(k, x, u) # Item("ambiguous", Nil, e.uri)
      BY <1>8 DEF Item
    <3> QED
      BY <1>2, <3>1
  <2>2. ASSUME NEW e, Item(k, x, u) = AtLocator(c, e) PROVE FALSE
    <3>1. Item(k, x, u).kind = k
      BY <1>5
    <3>2. AtLocator(c, e).kind = k
      BY <2>2, <3>1
    <3>3. k \in {"known online", "changed"}
      BY <1>1, <3>2
    <3> QED
      BY <1>8, <3>3
  <2>3. PICK y \in c.known : Item(k, x, u) \in OfResource(c, y)
    BY <1>5, <1>8, <2>1, <2>2, ItemSource
  <2> QED
    BY <1>4, <2>3
<1>9. ASSUME Item("missing", x, u) \in Classified(c)
      PROVE  /\ x \in c.known /\ ~(Cardinality(Candidates(c, x)) > 1) /\ Candidates(c, x) = {}
             /\ \A w \in c.places[x] : ~Present(w)
  <2>1. x \in c.known /\ Item("missing", x, u) \in OfResource(c, x)
    BY <1>8, <1>9
  <2> QED
    BY <1>4, <2>1
<1>10. ASSUME Item("duplicate", x, u) \in Classified(c)
      PROVE  /\ x \in c.known /\ Cardinality(Candidates(c, x)) > 1
             /\ \E i \in Candidates(c, x) : c.seen[i].uri = u
  <2>1. x \in c.known /\ Item("duplicate", x, u) \in OfResource(c, x)
    BY <1>8, <1>10
  <2>2. "duplicate" # "missing"
    OBVIOUS
  <2> QED
    BY <1>4, <2>1, <2>2
<1> QED
  BY <1>7, <1>9, <1>10, <1>6
-----------------------------------------------------------------------------
(* Duplicates and what a scan reports as a whole.                          *)

(* Two visits of one place are of two roots.                               *)
LEMMA TwoRoots ==
    ASSUME NEW c, Visits(c), NEW i \in DOMAIN c.seen, NEW j \in DOMAIN c.seen, i # j,
           c.seen[i].uri = c.seen[j].uri
    PROVE  Cardinality(Within(c.seen[i].uri)) > 1
<1> DEFINE u == c.seen[i].uri
<1>1. PICK f \in [DOMAIN c.seen -> Root \ c.roots] :
         /\ \A k \in DOMAIN c.seen : c.seen[k].uri \in ToSet(Under[f[k]])
         /\ \A k, l \in DOMAIN c.seen : f[k] = f[l] /\ c.seen[k].uri = c.seen[l].uri => k = l
  BY DEF Visits, VisitsBy
<1>2. f[i] \in Within(u) /\ f[j] \in Within(u) /\ f[i] # f[j]
  BY <1>1 DEF Within
<1>3. IsFiniteSet(Within(u))
  <2>1. Within(u) \subseteq Root
    BY DEF Within
  <2> QED
    BY <2>1, PlacesAreFinite, FS_Subset
<1> QED
  BY <1>2, <1>3, MoreThanOne

(* A walk of every root has come past every file in sight, and of each it  *)
(* knows the content, unless the cache was doubtful.                       *)
LEMMA ReportHolds ==
    ASSUME WorldInv, NEW c, ScanOK(c), ScanTrue(c), c.pc = "walk", c.todo = <<>>, c.roots = {},
           NEW d, SameScan(c, d), d.seen = c.seen, d.items = Classified(c)
    PROVE  ReportIsTrue(d)
<1> DEFINE sight == Sight(c)
           UriOf(i) == c.seen[i].uri
<1>1. /\ \A t \in c.items : t.kind \in {"root unmapped", "root unavailable"}
      /\ Visits(c) /\ c.known \subseteq Resource /\ c.places \in [Resource -> SUBSET Place]
      /\ c.seen \in Seq(EntryRec)
  <2>1. c \in ScanRec(c)
    BY DEF ScanOK
  <2>2. c.known \subseteq Resource
    BY <2>1 DEF ScanRec, Imported
  <2> QED
    BY <2>1, <2>2 DEF ScanOK, ScanRec, Early
<1>2. \A i \in DOMAIN c.seen : SeenOK(c, i) /\ UriOf(i) \in sight
  BY DEF ScanTrue, Early, SeenOK
<1>3. \A u \in sight : \E i \in DOMAIN c.seen : UriOf(i) = u
  <2>1. ToCome(c) = {}
    BY EmptyTodo DEF ToCome
  <2> QED
    BY <2>1 DEF ScanTrue, Early
<1>4. /\ Sight(d) = sight /\ d.places = c.places /\ d.known = c.known
      /\ \A u : (Replaced(d, u) <=> Replaced(c, u)) /\ (Doubtful(d, u) <=> Doubtful(c, u))
  BY SameSight DEF SameScan
<1>5. /\ \A u : Holders(d, u) = Holders(c, u)
      /\ \A u, x : Shows(d, u, x) <=> Shows(c, u, x)
      /\ Free(d) = Free(c)
      /\ \A k, x, u : Says(d, k, x, u) <=> Item(k, x, u) \in Classified(c)
  BY <1>4 DEF Holders, Shows, Free, Says
<1>6. \A i \in DOMAIN c.seen : \A x :
         /\ Alike(c, x, c.seen[i]) => Shows(c, UriOf(i), x) \/ Replaced(c, UriOf(i))
         /\ Shows(c, UriOf(i), x) => Alike(c, x, c.seen[i]) \/ Doubtful(c, UriOf(i))
  BY <1>2, AlikeShows
<1>7. ASSUME NEW i \in DOMAIN c.seen, Holders(c, UriOf(i)) # {}
      PROVE  AtLocator(c, c.seen[i]) \in Classified(c)
  BY <1>7 DEF Classified
<1>8. ASSUME NEW i \in DOMAIN c.seen, Holders(c, UriOf(i)) = {}, NEW t \in Elsewhere(c, c.seen[i])
      PROVE  t \in Classified(c)
  BY <1>8 DEF Classified
<1>9. ASSUME NEW x \in c.known, NEW t \in OfResource(c, x) PROVE t \in Classified(c)
  BY <1>9 DEF Classified
<1>10. \A u \in sight \ Free(c) : LastOf(Holders(c, u)) \in Holders(c, u) /\ Holders(c, u) # {}
  BY LastIsIn DEF Holders, Free
<1>11. IsFiniteSet(DOMAIN c.seen) /\ \A x : IsFiniteSet(Candidates(c, x))
  <2>1. PICK m \in Nat : DOMAIN c.seen = 1..m
    BY <1>1, LenProperties
  <2>2. IsFiniteSet(DOMAIN c.seen)
    BY <2>1, FiniteUpTo
  <2>3. \A x : Candidates(c, x) \subseteq DOMAIN c.seen
    BY DEF Candidates
  <2> QED
    BY <2>2, <2>3, FS_Subset
<1>12. \A x, i : i \in Candidates(c, x) <=>
                   i \in DOMAIN c.seen /\ UriOf(i) \in Free(c) /\ Alike(c, x, c.seen[i])
  BY <1>2 DEF Candidates, Free
<1>13. \A i \in DOMAIN c.seen : UriOf(i) \in Place /\ Present(UriOf(i))
  BY <1>2 DEF Sight, InSight
<1> HIDE DEF UriOf, sight
<1>14. HeldAreTrue(d)
  <2>1. ASSUME NEW u \in sight \ Free(c)
        PROVE  \E x \in Holders(c, u) : \/ Item("known online", x, u) \in Classified(c)
                                        \/ Item("changed", x, u) \in Classified(c)
    <3>1. PICK i \in DOMAIN c.seen : UriOf(i) = u
      BY <1>3
    <3>2. AtLocator(c, c.seen[i]) \in Classified(c)
      BY <1>7, <1>10, <3>1
    <3>3. \/ AtLocator(c, c.seen[i]) = Item("known online", LastOf(Holders(c, u)), u)
          \/ AtLocator(c, c.seen[i]) = Item("changed", LastOf(Holders(c, u)), u)
      BY <3>1 DEF AtLocator, UriOf
    <3> QED
      BY <1>10, <3>2, <3>3
  <2>2. ASSUME NEW x \in Resource, NEW u \in Place, NEW k \in {"known online", "changed"},
               Item(k, x, u) \in Classified(c)
        PROVE  /\ u \in sight /\ x \in Holders(c, u)
               /\ k = "known online" => Shows(c, u, x) \/ Replaced(c, u)
               /\ k = "changed" /\ Shows(c, u, x) => Doubtful(c, u)
    <3>1. PICK i \in DOMAIN c.seen : /\ Holders(c, u) # {} /\ c.seen[i].uri = u
                                     /\ x = LastOf(Holders(c, u))
                                     /\ k = "known online" <=> Alike(c, x, c.seen[i])
      BY <1>1, <2>2, ReportedBy
    <3>2. UriOf(i) = u
      BY <3>1 DEF UriOf
    <3>3. u \in sight /\ x \in Holders(c, u)
      BY <1>2, <1>10, <3>1, <3>2 DEF Free
    <3> QED
      BY <1>6, <3>1, <3>2, <3>3
  <2>3. \A u \in Sight(d) \ Free(d) : \E x \in Holders(d, u) :
           Says(d, "known online", x, u) \/ Says(d, "changed", x, u)
    BY <1>4, <1>5, <2>1
  <2>4. \A x \in Resource, u \in Place :
           /\ Says(d, "known online", x, u) =>
                u \in Sight(d) /\ x \in Holders(d, u) /\ (Shows(d, u, x) \/ Replaced(d, u))
           /\ Says(d, "changed", x, u) =>
                u \in Sight(d) /\ x \in Holders(d, u) /\ (Shows(d, u, x) => Doubtful(d, u))
    BY <1>4, <1>5, <2>2
  <2> QED
    BY <2>3, <2>4 DEF HeldAreTrue
<1>15. NewAreTrue(d)
  <2>1. ASSUME NEW u \in Free(c), Item("new candidate", Nil, u) \in Classified(c),
               NEW x \in Resource, Shows(c, u, x)
        PROVE  Doubtful(c, u)
    <3>1. PICK i \in DOMAIN c.seen : c.seen[i].uri = u /\ \A y \in Resource : ~Alike(c, y, c.seen[i])
      BY <1>1, <2>1, ReportedBy
    <3>2. UriOf(i) = u
      BY <3>1 DEF UriOf
    <3> QED
      BY <1>6, <2>1, <3>1, <3>2
  <2>2. ASSUME NEW u \in Free(c), ~Replaced(c, u), \A x \in Resource : ~Shows(c, u, x)
        PROVE  Item("new candidate", Nil, u) \in Classified(c)
    <3>1. PICK i \in DOMAIN c.seen : UriOf(i) = u
      BY <1>3 DEF Free, sight
    <3>2. {x \in Resource : Alike(c, x, c.seen[i])} = {}
      BY <1>6, <2>2, <3>1
    <3>3. Item("new candidate", Nil, u) \in Elsewhere(c, c.seen[i])
      BY <3>1, <3>2 DEF Elsewhere, UriOf
    <3> QED
      BY <1>8, <3>1, <3>3 DEF Free
  <2> QED
    BY <1>4, <1>5, <2>1, <2>2 DEF NewAreTrue
<1>16. DuplicatesAreTrue(d)
  <2>1. ASSUME NEW x \in Resource, NEW u \in Place, Item("duplicate", x, u) \in Classified(c)
        PROVE  /\ u \in Free(c) /\ (Shows(c, u, x) \/ Replaced(c, u))
               /\ \/ Cardinality(Within(u)) > 1
                  \/ \E w \in Free(c) \ {u} : Shows(c, w, x) \/ Replaced(c, w)
    <3>1. /\ Cardinality(Candidates(c, x)) > 1
          /\ \E i \in Candidates(c, x) : c.seen[i].uri = u
      BY <1>1, <2>1, ReportedBy
    <3>2. PICK i \in Candidates(c, x) : UriOf(i) = u
      BY <3>1 DEF UriOf
    <3>3. PICK j \in Candidates(c, x) : j # i
      BY <1>11, <3>1, MoreThanOne
    <3>4. /\ i \in DOMAIN c.seen /\ j \in DOMAIN c.seen /\ u \in Free(c) /\ UriOf(j) \in Free(c)
          /\ Alike(c, x, c.seen[i]) /\ Alike(c, x, c.seen[j])
      BY <1>12, <3>2
    <3>5. CASE UriOf(j) = u
      <4>1. Cardinality(Within(UriOf(i))) > 1
        BY <1>1, <3>2, <3>3, <3>4, <3>5, TwoRoots DEF UriOf
      <4> QED
        BY <1>6, <3>2, <3>4, <4>1
    <3>6. CASE UriOf(j) # u
      BY <1>6, <3>2, <3>4, <3>6
    <3> QED
      BY <3>5, <3>6
  <2>2. ASSUME NEW x \in c.known, NEW u \in Free(c), NEW w \in Free(c), u # w,
               Shows(c, u, x), Shows(c, w, x), ~Doubtful(c, u), ~Doubtful(c, w)
        PROVE  Item("duplicate", x, u) \in Classified(c)
    <3>1. PICK i \in DOMAIN c.seen, j \in DOMAIN c.seen : UriOf(i) = u /\ UriOf(j) = w
      BY <1>3 DEF Free, sight
    <3>2. i \in Candidates(c, x) /\ j \in Candidates(c, x) /\ i # j
      BY <1>6, <1>12, <2>2, <3>1
    <3>3. Cardinality(Candidates(c, x)) > 1
      BY <1>11, <3>2, MoreThanOne
    <3>4. Item("duplicate", x, u) \in OfResource(c, x)
      BY <3>1, <3>2, <3>3 DEF OfResource, UriOf
    <3> QED
      BY <1>9, <3>4
  <2>3. \A x \in Resource, u \in Place : Says(d, "duplicate", x, u) =>
           /\ u \in Free(d) /\ (Shows(d, u, x) \/ Replaced(d, u))
           /\ \/ Cardinality(Within(u)) > 1
              \/ \E w \in Free(d) \ {u} : Shows(d, w, x) \/ Replaced(d, w)
    BY <1>4, <1>5, <2>1
  <2>4. \A x \in d.known, u, w \in Free(d) : Shows(d, u, x) /\ Shows(d, w, x) =>
           u = w \/ Says(d, "duplicate", x, u) \/ Doubtful(d, u) \/ Doubtful(d, w)
    BY <1>4, <1>5, <2>2
  <2> QED
    BY <2>3, <2>4 DEF DuplicatesAreTrue
<1>17. MissingAreTrue(d)
  <2>1. ASSUME NEW x \in c.known, Item("missing", x, Nil) \in Classified(c)
        PROVE  /\ \A u \in c.places[x] : ~Present(u)
               /\ \A u \in Free(c) : Shows(c, u, x) => Doubtful(c, u)
    <3>1. Candidates(c, x) = {} /\ \A u \in c.places[x] : ~Present(u)
      BY <1>1, <2>1, ReportedBy
    <3>2. ASSUME NEW u \in Free(c), Shows(c, u, x) PROVE Doubtful(c, u)
      <4>1. PICK i \in DOMAIN c.seen : UriOf(i) = u
        BY <1>3 DEF Free, sight
      <4>2. ~Alike(c, x, c.seen[i])
        BY <1>12, <3>1, <4>1
      <4> QED
        BY <1>6, <3>2, <4>1, <4>2
    <3> QED
      BY <3>1, <3>2
  <2>2. ASSUME NEW x \in c.known, \A u \in c.places[x] : ~Present(u),
               \A u \in Free(c) : ~Shows(c, u, x) /\ ~Replaced(c, u)
        PROVE  Item("missing", x, Nil) \in Classified(c)
    <3>1. Candidates(c, x) = {}
      BY <1>6, <1>12, <2>2
    <3>2. ~(Cardinality(Candidates(c, x)) > 1)
      BY <3>1, FS_EmptySet
    <3>3. ~(\E u \in c.places[x] : Present(u) \/ \E i \in DOMAIN c.seen : c.seen[i].uri = u)
      BY <1>13, <2>2 DEF UriOf
    <3>4. Item("missing", x, Nil) \in OfResource(c, x)
      BY <3>1, <3>2, <3>3 DEF OfResource
    <3> QED
      BY <1>9, <3>4
  <2>3. ASSUME NEW x \in d.known
        PROVE  /\ Says(d, "missing", x, Nil) =>
                    /\ \A u \in d.places[x] : ~Present(u)
                    /\ \A u \in Free(d) : Shows(d, u, x) => Doubtful(d, u)
               /\ \/ Says(d, "missing", x, Nil) \/ \E u \in d.places[x] : Present(u)
                  \/ \E u \in Free(d) : Shows(d, u, x) \/ Replaced(d, u)
    BY <1>4, <1>5, <2>1, <2>2
  <2> QED
    BY <2>3 DEF MissingAreTrue
<1> QED
  BY <1>14, <1>15, <1>16, <1>17 DEF ReportIsTrue

(* The report that a scan ends with is true of files that did not change.  *)
LEMMA ClassifiedScan ==
    ASSUME WorldInv, NEW c, ScanOK(c), c.since = writes => ScanTrue(c), c.pc = "walk",
           c.todo = <<>>, c.roots = {},
           NEW d, SameScan(c, d), d.roots = {}, d.seen = c.seen, d.items = Classified(c),
           d.pc = "create"
    PROVE  RecordOK(d)
<1>1. ScanOK(d)
  BY DEF ScanOK, SameScan, Early
<1>2. d.since = writes => ScanTrue(d)
  BY ReportHolds DEF ScanTrue, SameScan, Early
<1> QED
  BY <1>1, <1>2 DEF RecordOK

(* The steps that replace the cache leave the report alone.                *)
LEMMA ReportedScan ==
    ASSUME NEW c, ScanOK(c), c.since = writes => ScanTrue(c),
           c.pc \in {"create", "write", "rename"},
           NEW d, SameScan(c, d), d.roots = c.roots, d.seen = c.seen, d.items = c.items,
           d.pc \in {"write", "rename", "done"}
    PROVE  RecordOK(d)
<1>1. ScanOK(d)
  BY DEF ScanOK, SameScan, Early
<1>2. ReportIsTrue(d) <=> ReportIsTrue(c)
  <2>1. /\ Sight(d) = Sight(c) /\ d.places = c.places /\ d.known = c.known
        /\ \A u : (Replaced(d, u) <=> Replaced(c, u)) /\ (Doubtful(d, u) <=> Doubtful(c, u))
    BY SameSight DEF SameScan
  <2>2. /\ \A u : Holders(d, u) = Holders(c, u)
        /\ \A u, x : Shows(d, u, x) <=> Shows(c, u, x)
        /\ \A k, x, u : Says(d, k, x, u) <=> Says(c, k, x, u)
    BY <2>1 DEF Holders, Shows, Says
  <2>3. Free(d) = Free(c)
    BY <2>1, <2>2 DEF Free
  <2>4. HeldAreTrue(d) <=> HeldAreTrue(c)
    BY <2>1, <2>2, <2>3 DEF HeldAreTrue
  <2>5. NewAreTrue(d) <=> NewAreTrue(c)
    BY <2>1, <2>2, <2>3 DEF NewAreTrue
  <2>6. DuplicatesAreTrue(d) <=> DuplicatesAreTrue(c)
    BY <2>1, <2>2, <2>3 DEF DuplicatesAreTrue
  <2>7. MissingAreTrue(d) <=> MissingAreTrue(c)
    BY <2>1, <2>2, <2>3 DEF MissingAreTrue
  <2> QED
    BY <2>4, <2>5, <2>6, <2>7 DEF ReportIsTrue
<1>3. d.since = writes => ScanTrue(d)
  BY <1>2 DEF ScanTrue, SameScan, Early
<1> QED
  BY <1>1, <1>3 DEF RecordOK
-----------------------------------------------------------------------------
(* The steps of a scan.                                                    *)

(* The record of a process that scans.                                     *)
LEMMA IsScan ==
    ASSUME NEW c, RecordOK(c),
           "seen" \in DOMAIN c \/ c.pc \in {"load", "read", "create", "write", "rename"}
    PROVE  ScanOK(c) /\ (c.since = writes => ScanTrue(c))
<1>1. c # Asleep
  BY DEF Asleep
<1>2. ~ResolutionOK(c)
  <2>1. ASSUME ResolutionOK(c) PROVE FALSE
    <3>1. c \in ResolutionRec(c)
      BY <2>1 DEF ResolutionOK
    <3>2. "seen" \notin DOMAIN c
      BY <3>1 DEF ResolutionRec
    <3>3. c.pc \in ResolutionSteps
      BY <3>1 DEF ResolutionRec
    <3> QED
      BY <3>2, <3>3 DEF ResolutionSteps
  <2> QED
    BY <2>1
<1> QED
  BY <1>1, <1>2 DEF RecordOK

(* The record of a process that resolves.                                  *)
LEMMA IsResolution ==
    ASSUME NEW c, RecordOK(c), "answers" \in DOMAIN c \/ c.pc \in {"next", "verify"}
    PROVE  ResolutionOK(c) /\ (c.since = writes => ResolutionTrue(c))
<1>1. c # Asleep
  BY DEF Asleep
<1>2. ~ScanOK(c)
  <2>1. ASSUME ScanOK(c) PROVE FALSE
    <3>1. c \in ScanRec(c)
      BY <2>1 DEF ScanOK
    <3>2. "answers" \notin DOMAIN c
      BY <3>1 DEF ScanRec
    <3>3. c.pc \in ScanSteps
      BY <3>1 DEF ScanRec
    <3> QED
      BY <3>2, <3>3 DEF ScanSteps
  <2> QED
    BY <2>1
<1> QED
  BY <1>1, <1>2 DEF RecordOK

(* A step of a call that changes nothing but what the call knows.          *)
LEMMA Continued ==
    ASSUME MediaInv, NEW p \in Searcher, NEW d, Continue(p, d), RecordOK(d)
    PROVE  MediaInv'
<1>1. Onward
  BY SameWorld DEF Continue, MediaInv
<1> QED
  BY <1>1, OneRecord DEF Continue

LEMMA Begun ==
    ASSUME MediaInv, NEW p \in Searcher, NEW d, Begin(p, d), RecordOK(d)
    PROVE  MediaInv'
<1>1. Onward
  BY SameWorld DEF Begin, MediaInv
<1> QED
  BY <1>1, OneRecord DEF Begin

LEMMA BeginScanStep == ASSUME MediaInv, NEW p \in Searcher, NEW mapped \in Mappings, BeginScan(p, mapped) PROVE MediaInv'
<1>1. PICK d : /\ d = [NewScan EXCEPT !.mapped = mapped, !.usable = enabled, !.since = writes,
                                      !.known = Imported, !.places = locators, !.roots = enabled]
               /\ Begin(p, d)
  BY DEF BeginScan
<1>2. RecordOK(d)
  BY <1>1, ScanBegins DEF MediaInv
<1> QED
  BY <1>1, <1>2, Begun

LEMMA LoadCacheStep == ASSUME MediaInv, NEW p \in Searcher, LoadCache(p) PROVE MediaInv'
<1>1. PICK c : c = call[p]
  OBVIOUS
<1>2. ScanOK(c) /\ (c.since = writes => ScanTrue(c)) /\ c.pc = "load"
  BY <1>1, IsScan DEF LoadCache, Doing, MediaInv
<1>3. PICK cache \in {cacheFile.entries, {}} :
         /\ cacheFile.form = "cache" \/ cache = {}
         /\ Continue(p, [c EXCEPT !.pc = "walk", !.cache = cache])
  BY <1>1 DEF LoadCache
<1>4. PICK d : d = [c EXCEPT !.pc = "walk", !.cache = cache]
  OBVIOUS
<1>5. RecordOK(d)
  BY <1>2, <1>3, <1>4, CacheLoaded DEF MediaInv
<1> QED
  BY <1>3, <1>4, <1>5, Continued

LEMMA EnterRootStep == ASSUME MediaInv, NEW p \in Searcher, EnterRoot(p) PROVE MediaInv'
<1>1. PICK c : c = call[p]
  OBVIOUS
<1>2. /\ ScanOK(c) /\ (c.since = writes => ScanTrue(c)) /\ c.pc = "walk"
      /\ c.todo = <<>> /\ c.roots # {} /\ c \in ScanRec(c)
  BY <1>1, IsScan DEF EnterRoot, Doing, Scanning, MediaInv, ScanOK
<1>3. c.roots \in SUBSET Root /\ c.seen \in Seq(EntryRec) /\ c.visited \in Nat
  BY <1>2 DEF ScanRec
<1>4. PICK r : r = FirstIn(RootOrder, c.roots)
  OBVIOUS
<1>5. r \in c.roots
  BY <1>2, <1>3, <1>4, FirstIsIn, OrdersAssumption
<1>6. PICK t : t = Item(IF r \in c.mapped THEN "root unavailable" ELSE "root unmapped", Nil, r)
  OBVIOUS
<1>7. t.kind \in {"root unmapped", "root unavailable"}
  BY <1>6 DEF Item
<1>8. PICK d1 : d1 = [c EXCEPT !.roots = @ \ {r}, !.items = @ \union {t}]
  OBVIOUS
<1>9. PICK d2 : d2 = [c EXCEPT !.pc = "failed"]
  OBVIOUS
<1>10. PICK d3 : d3 = [c EXCEPT !.roots = @ \ {r}, !.todo = Under[r], !.visited = @ + 1]
  OBVIOUS
<1>11. \/ ~(r \in c.mapped /\ Reachable(r)) /\ Continue(p, d1)
       \/ Continue(p, d2)
       \/ (r \in c.mapped /\ Reachable(r)) /\ Continue(p, d3)
  BY <1>1, <1>4, <1>6, <1>8, <1>9, <1>10 DEF EnterRoot
<1>12. CASE ~(r \in c.mapped /\ Reachable(r)) /\ Continue(p, d1)
  <2>1. /\ "seen" \in DOMAIN d1 /\ d1.pc = "walk" /\ d1.roots = c.roots \ {r} /\ d1.todo = <<>>
        /\ d1.seen = c.seen /\ d1.items = c.items \union {t} /\ d1.mapped = c.mapped
        /\ d1.usable = c.usable /\ d1.known = c.known /\ d1.places = c.places
        /\ d1.cache = c.cache /\ d1.since = c.since
    BY <1>2, <1>8 DEF ScanRec
  <2>2. SameScan(c, d1)
    BY <1>2, <1>3, <1>8, <2>1 DEF ScanRec, SameScan
  <2>3. RecordOK(d1)
    BY <1>2, <1>5, <1>7, <1>12, <2>1, <2>2, EnteredRoot DEF MediaInv
  <2> QED
    BY <1>12, <2>3, Continued
<1>13. CASE Continue(p, d2)
  <2>1. SameScan(c, d2) /\ d2.pc = "failed" /\ d2.roots = c.roots /\ d2.seen = c.seen
    BY <1>2, <1>9 DEF ScanRec, SameScan, ScanSteps
  <2>2. RecordOK(d2)
    BY <1>2, <2>1, FailedScan
  <2> QED
    BY <1>13, <2>2, Continued
<1>14. CASE (r \in c.mapped /\ Reachable(r)) /\ Continue(p, d3)
  <2>1. Under[r] \in Seq(Place) /\ c.visited + 1 \in Nat
    BY <1>3, <1>5, PlacesAssumption
  <2>2. /\ "seen" \in DOMAIN d3 /\ d3.pc = "walk" /\ d3.roots = c.roots \ {r} /\ d3.todo = Under[r]
        /\ d3.seen = c.seen /\ d3.items = c.items /\ d3.mapped = c.mapped
        /\ d3.usable = c.usable /\ d3.known = c.known /\ d3.places = c.places
        /\ d3.cache = c.cache /\ d3.since = c.since
    BY <1>2, <1>10 DEF ScanRec
  <2>3. SameScan(c, d3)
    BY <1>2, <1>3, <1>10, <2>1, <2>2 DEF ScanRec, SameScan
  <2>4. RecordOK(d3)
    BY <1>2, <1>5, <1>14, <2>2, <2>3, EnteredRoot DEF MediaInv
  <2> QED
    BY <1>14, <2>4, Continued
<1> QED
  BY <1>11, <1>12, <1>13, <1>14

(* Every branch of a visit: gone, too many, a directory, not interesting,  *)
(* known, to be read.                                                      *)
LEMMA VisitStep == ASSUME MediaInv, NEW p \in Searcher, Visit(p) PROVE MediaInv'
<1>1. PICK c : c = call[p]
  OBVIOUS
<1>2. /\ ScanOK(c) /\ (c.since = writes => ScanTrue(c)) /\ c.pc = "walk"
      /\ c.todo # <<>> /\ c \in ScanRec(c)
  <2>1. "seen" \in DOMAIN c /\ c.pc = "walk" /\ [c EXCEPT !.visited = @ + 1].todo # <<>>
    BY <1>1 DEF Visit, Doing, Scanning
  <2>2. ScanOK(c) /\ (c.since = writes => ScanTrue(c)) /\ c \in ScanRec(c)
    BY <1>1, <2>1, IsScan DEF MediaInv, ScanOK
  <2>3. c.todo # <<>>
    BY <2>1, <2>2 DEF ScanRec
  <2> QED
    BY <2>1, <2>2, <2>3
<1>3. /\ c.seen \in Seq(EntryRec) /\ c.visited \in Nat /\ c.visited + 1 \in Nat /\ c.todo \in Seq(Place)
      /\ c.roots \in SUBSET Root
  BY <1>2 DEF ScanRec
<1>4. PICK u : u = c.todo[1]
  OBVIOUS
<1>5. u = Head(c.todo) /\ u \in Place /\ Tail(c.todo) \in Seq(Place)
  BY <1>2, <1>3, <1>4, HeadAndTail
<1>6. WorldInv
  BY DEF MediaInv
<1>7. PICK b : b = [c EXCEPT !.visited = @ + 1]
  OBVIOUS
<1>8. b \in ScanRec(b) /\ SameScan(c, b) /\ b.seen = c.seen /\ b.todo = c.todo /\ b.roots = c.roots
      /\ b.pc = "walk" /\ b.items = c.items
  BY <1>2, <1>3, <1>7 DEF ScanRec, SameScan
<1>9. \/ /\ ~Present(u) /\ Continue(p, [c EXCEPT !.todo = Tail(@)])
      \/ Continue(p, [b EXCEPT !.pc = "failed"])
      \/ u \in Folder /\ Continue(p, Passed(c))
      \/ /\ Present(u) /\ u \notin Folder /\ ~Interesting(b, Size(u))
         /\ Continue(p, Noted(b, Entry(u, Size(u), disk[u].stamp, Gone, TRUE)))
      \/ /\ Present(u) /\ u \notin Folder /\ Interesting(b, Size(u)) /\ Hits(b, u) # {}
         /\ Continue(p, Noted(b, CHOOSE e \in Hits(b, u) : TRUE))
      \/ /\ Present(u) /\ u \notin Folder /\ Interesting(b, Size(u))
         /\ Continue(p, [b EXCEPT !.pc = "read",
                 !.seen = Append(@, Entry(u, Size(u), disk[u].stamp, Gone, FALSE))])
  <2>1. u = Head(b.todo)
    BY <1>5, <1>8
  <2> QED
    BY <1>1, <1>7, <2>1 DEF Visit
(* What holds of a file that is there. *)
<1>10. ASSUME Present(u), u \notin Folder
       PROVE  /\ u \in File /\ Size(u) \in {SizeOf[v] : v \in FileVersion}
              /\ disk[u].stamp \in 1..(Len(PlaceOrder) + writes) /\ disk[u].stamp \in Nat
  <2>1. u \in File /\ disk[u].version \in FileVersion
    BY <1>5, <1>6, <1>10 DEF Place, Present, WorldInv, VersionsOf
  <2>2. Len(PlaceOrder) \in Nat
    BY PlacesAssumption, LenProperties
  <2> QED
    BY <1>5, <1>6, <1>10, <2>1, <2>2 DEF Size, Present, WorldInv
<1>11. ASSUME Present(u), u \notin Folder, NEW whole \in BOOLEAN,
              NEW e, e = Entry(u, Size(u), disk[u].stamp, Gone, whole)
       PROVE  /\ e \in EntryRec /\ Honest(e) /\ e.uri = u /\ e.size = Size(u)
              /\ e.stamp = disk[u].stamp /\ e.print = Gone
  <2>1. /\ e.uri = u /\ e.size = Size(u) /\ e.stamp = disk[u].stamp /\ e.print = Gone
    BY <1>11 DEF Entry
  <2>2. e \in EntryRec
    BY <1>10, <1>11 DEF Entry, EntryRec, Digests
  <2>3. Honest(e)
    BY <1>10, <1>11, <2>1 DEF Honest
  <2> QED
    BY <2>1, <2>2, <2>3
<1>12. ASSUME NEW d, d = [c EXCEPT !.todo = Tail(c.todo)] \/ d = Passed(c)
       PROVE  /\ SameScan(c, d) /\ d.pc = "walk" /\ d.roots = c.roots /\ d.seen = c.seen
              /\ d.todo = Tail(c.todo) /\ d.items = c.items
  BY <1>2, <1>3, <1>5, <1>12 DEF ScanRec, SameScan, Passed
<1>13. CASE ~Present(u) /\ Continue(p, [c EXCEPT !.todo = Tail(@)])
  <2>1. PICK d : d = [c EXCEPT !.todo = Tail(c.todo)]
    OBVIOUS
  <2>2. RecordOK(d)
    BY <1>2, <1>4, <1>6, <1>12, <1>13, <2>1, SkippedPlace
  <2> QED
    BY <1>13, <2>1, <2>2, Continued
<1>14. CASE Continue(p, [b EXCEPT !.pc = "failed"])
  <2>1. PICK d : d = [b EXCEPT !.pc = "failed"]
    OBVIOUS
  <2>2. SameScan(c, d) /\ d.pc = "failed" /\ d.roots = c.roots /\ d.seen = c.seen
    BY <1>8, <2>1 DEF ScanRec, SameScan, ScanSteps
  <2>3. RecordOK(d)
    BY <1>2, <2>2, FailedScan
  <2> QED
    BY <1>14, <2>1, <2>3, Continued
<1>15. CASE u \in Folder /\ Continue(p, Passed(c))
  <2>1. PICK d : d = Passed(c)
    OBVIOUS
  <2>2. RecordOK(d)
    BY <1>2, <1>4, <1>6, <1>12, <1>15, <2>1, SkippedPlace
  <2> QED
    BY <1>15, <2>1, <2>2, Continued
<1>16. ASSUME NEW e \in EntryRec, NEW d, d = Noted(b, e)
       PROVE  /\ SameScan(c, d) /\ d.pc = "walk" /\ d.roots = c.roots /\ d.seen = Append(c.seen, e)
              /\ d.todo = Tail(c.todo) /\ d.items = c.items
  <2>1. Append(c.seen, e) \in Seq(EntryRec)
    BY <1>3, OneMore
  <2>2. /\ d.pc = "walk" /\ d.roots = c.roots /\ d.seen = Append(c.seen, e)
        /\ d.todo = Tail(c.todo) /\ d.items = c.items
    BY <1>8, <1>16 DEF ScanRec, Noted
  <2>3. SameScan(c, d)
    BY <1>5, <1>8, <1>16, <2>1, <2>2 DEF ScanRec, SameScan, Noted
  <2> QED
    BY <2>2, <2>3
<1>17. CASE /\ Present(u) /\ u \notin Folder /\ ~Interesting(b, Size(u))
            /\ Continue(p, Noted(b, Entry(u, Size(u), disk[u].stamp, Gone, TRUE)))
  <2>1. PICK e : e = Entry(u, Size(u), disk[u].stamp, Gone, TRUE)
    OBVIOUS
  <2>2. PICK d : d = Noted(b, e)
    OBVIOUS
  <2>3. /\ e \in EntryRec /\ Honest(e) /\ e.uri = u /\ e.size = Size(u)
        /\ e.stamp = disk[u].stamp /\ e.print = Gone
    BY <1>11, <1>17, <2>1
  <2>4. ~Interesting(c, Size(u))
    BY <1>8, <1>17, SameSight
  <2>5. /\ SameScan(c, d) /\ d.pc = "walk" /\ d.roots = c.roots /\ d.seen = Append(c.seen, e)
        /\ d.todo = Tail(c.todo) /\ d.items = c.items
    BY <1>16, <2>2, <2>3
  <2>6. RecordOK(d)
    BY <1>2, <1>4, <1>6, <1>17, <2>3, <2>4, <2>5, NotedEntry
  <2> QED
    BY <1>17, <2>1, <2>2, <2>6, Continued
<1>18. CASE /\ Present(u) /\ u \notin Folder /\ Interesting(b, Size(u)) /\ Hits(b, u) # {}
            /\ Continue(p, Noted(b, CHOOSE e \in Hits(b, u) : TRUE))
  <2>1. PICK e : e = CHOOSE x \in Hits(b, u) : TRUE
    OBVIOUS
  <2>2. PICK d : d = Noted(b, e)
    OBVIOUS
  <2>3. e \in Hits(b, u)
    BY <1>18, <2>1
  <2>4. b.cache = c.cache
    BY <1>8 DEF SameScan
  <2>5. e \in c.cache /\ e.uri = u /\ e.size = Size(u) /\ e.stamp = disk[u].stamp
    BY <2>3, <2>4 DEF Hits
  <2>6. e \in EntryRec /\ Honest(e)
    BY <1>2, <2>5 DEF ScanOK, ScanRec
  <2>7. Interesting(c, Size(u))
    BY <1>8, <1>18, SameSight
  <2>8. Replaced(c, u) \/ (Doubtful(c, u) /\ e.print = Gone) \/ e.print = Digest(u)
    <3>1. (~e.whole => Replaced(c, u)) /\ (e.print = Gone => Doubtful(c, u))
      BY <2>5 DEF Doubtful, Replaced, Fitting
    <3>2. ~(e.print = Gone \/ ~e.whole) => Digest(u) = e.print
      BY <1>5, <2>5, <2>6 DEF Honest
    <3> QED
      BY <3>1, <3>2
  <2>9. /\ SameScan(c, d) /\ d.pc = "walk" /\ d.roots = c.roots /\ d.seen = Append(c.seen, e)
        /\ d.todo = Tail(c.todo) /\ d.items = c.items
    BY <1>16, <2>2, <2>6
  <2>10. RecordOK(d)
    BY <1>2, <1>4, <1>6, <1>18, <2>5, <2>6, <2>7, <2>8, <2>9, NotedEntry
  <2> QED
    BY <1>18, <2>1, <2>2, <2>10, Continued
<1>19. CASE /\ Present(u) /\ u \notin Folder /\ Interesting(b, Size(u))
            /\ Continue(p, [b EXCEPT !.pc = "read",
                 !.seen = Append(@, Entry(u, Size(u), disk[u].stamp, Gone, FALSE))])
  <2>1. PICK e : e = Entry(u, Size(u), disk[u].stamp, Gone, FALSE)
    OBVIOUS
  <2>2. PICK d : d = [b EXCEPT !.pc = "read", !.seen = Append(b.seen, e)]
    OBVIOUS
  <2>3. /\ e \in EntryRec /\ Honest(e) /\ e.uri = u /\ e.size = Size(u)
        /\ e.stamp = disk[u].stamp /\ e.print = Gone
    BY <1>11, <1>19, <2>1
  <2>4. Interesting(c, Size(u))
    BY <1>8, <1>19, SameSight
  <2>5. Append(c.seen, e) \in Seq(EntryRec)
    BY <1>3, <2>3, OneMore
  <2>6. /\ d.pc = "read" /\ d.roots = c.roots /\ d.seen = Append(c.seen, e)
        /\ d.todo = c.todo /\ d.items = c.items
    BY <1>8, <2>2 DEF ScanRec
  <2>7. SameScan(c, d)
    BY <1>8, <2>2, <2>5, <2>6 DEF ScanRec, SameScan, ScanSteps
  <2>8. RecordOK(d)
    BY <1>2, <1>4, <1>6, <1>19, <2>3, <2>4, <2>6, <2>7, NotedEntry
  <2> QED
    BY <1>19, <2>1, <2>2, <2>8, Continued
<1> QED
  BY <1>9, <1>13, <1>14, <1>15, <1>17, <1>18, <1>19

LEMMA ReadFileStep == ASSUME MediaInv, NEW p \in Searcher, ReadFile(p) PROVE MediaInv'
<1>1. PICK c : c = call[p]
  OBVIOUS
<1>2. ScanOK(c) /\ (c.since = writes => ScanTrue(c)) /\ c \in ScanRec(c) /\ c.pc = "read"
  BY <1>1, IsScan DEF ReadFile, Doing, MediaInv, ScanOK
<1>3. /\ c.seen \in Seq(EntryRec) /\ c.seen # <<>> /\ c.todo \in Seq(Place) /\ c.todo # <<>>
      /\ c.roots \in SUBSET Root /\ WorldInv
  BY <1>2 DEF ScanRec, ScanOK, MediaInv
<1>4. PICK e : e = c.seen[Len(c.seen)]
  OBVIOUS
<1>5. e = Last(c.seen)
  BY <1>4 DEF Last
<1>6. PICK f : f = [e EXCEPT !.print = Digest(e.uri), !.whole = disk[e.uri].stamp = e.stamp]
  OBVIOUS
<1>7. CASE /\ Present(e.uri)
           /\ Continue(p, [c EXCEPT !.pc = "walk", !.todo = Tail(@), !.seen = Append(Front(@), f)])
  <2>1. PICK d : d = [c EXCEPT !.pc = "walk", !.todo = Tail(c.todo), !.seen = Append(Front(c.seen), f)]
    OBVIOUS
  <2>2. Tail(c.todo) \in Seq(Place)
    BY <1>3, HeadAndTail
  <2>3. Append(Front(c.seen), f) \in Seq(EntryRec)
    <3>1. e \in EntryRec /\ e.uri \in Place
      <4>1. e \in EntryRec
        BY <1>3, <1>4, LastChanged
      <4> QED
        BY <4>1 DEF EntryRec, Place
    <3>2. disk[e.uri].version \in FileVersion
      BY <1>3, <1>7, <3>1 DEF EntryRec, Present, WorldInv, VersionsOf
    <3>3. Digest(e.uri) \in Digests
      BY <3>2 DEF Digest, Digests
    <3>4. f \in EntryRec
      BY <1>6, <3>1, <3>3 DEF EntryRec
    <3> QED
      BY <1>3, <3>4, LastChanged
  <2>4. /\ d.pc = "walk" /\ d.roots = c.roots /\ d.seen = Append(Front(c.seen), f)
        /\ d.todo = Tail(c.todo) /\ d.items = c.items
    BY <1>2, <2>1 DEF ScanRec
  <2>5. SameScan(c, d)
    BY <1>2, <2>1, <2>2, <2>3, <2>4 DEF ScanRec, SameScan, ScanSteps
  <2>6. RecordOK(d)
    <3>1. ScanOK(c) /\ (c.since = writes => ScanTrue(c)) /\ c.pc = "read" /\ WorldInv
      BY <1>2, <1>3
    <3>2. Present(e.uri)
      BY <1>7
    <3> QED
      BY <1>4, <1>6, <2>4, <2>5, <3>1, <3>2, FileWasRead, ZenonT(60)
  <2> QED
    BY <1>7, <2>1, <2>6, Continued
<1>8. CASE Continue(p, [c EXCEPT !.pc = "failed"])
  <2>1. PICK d : d = [c EXCEPT !.pc = "failed"]
    OBVIOUS
  <2>2. SameScan(c, d) /\ d.pc = "failed" /\ d.roots = c.roots /\ d.seen = c.seen
    BY <1>2, <2>1 DEF ScanRec, SameScan, ScanSteps
  <2>3. RecordOK(d)
    BY <1>2, <2>2, FailedScan
  <2> QED
    BY <1>8, <2>1, <2>3, Continued
<1> QED
  BY <1>1, <1>5, <1>6, <1>7, <1>8 DEF ReadFile

LEMMA ClassifyStep == ASSUME MediaInv, NEW p \in Searcher, Classify(p) PROVE MediaInv'
<1>1. PICK c : c = call[p]
  OBVIOUS
<1>2. /\ ScanOK(c) /\ (c.since = writes => ScanTrue(c)) /\ c \in ScanRec(c) /\ c.pc = "walk"
      /\ c.todo = <<>> /\ c.roots = {} /\ WorldInv
  BY <1>1, IsScan DEF Classify, Doing, Scanning, MediaInv, ScanOK
<1>3. PICK d : d = [c EXCEPT !.pc = "create", !.items = Classified(c)]
  OBVIOUS
<1>4. /\ d.pc = "create" /\ d.roots = {} /\ d.seen = c.seen /\ d.items = Classified(c)
  BY <1>2, <1>3 DEF ScanRec
<1>5. SameScan(c, d)
  BY <1>2, <1>3, <1>4 DEF ScanRec, SameScan, ScanSteps
<1>6. RecordOK(d)
  BY <1>2, <1>4, <1>5, ClassifiedScan
<1> QED
  BY <1>1, <1>3, <1>6, Continued DEF Classify

LEMMA EndStep ==
    ASSUME MediaInv, NEW p \in Searcher, Continue(p, Asleep) PROVE MediaInv'
BY Continued DEF RecordOK

(* A step that leaves every process with a sound record, and sound files.  *)
LEMMA AllRecords ==
    ASSUME MediaInv, Onward, DOMAIN call' = Searcher,
           \A q \in Searcher : \E d : d = call'[q] /\ RecordOK(d),
           NEW f, NEW g, FileOK(f), FileOK(g), cacheFile' = f, tmpFile' = g
    PROVE  MediaInv'
<1>1. ASSUME NEW q \in Searcher PROVE RecordOK(call[q])'
  <2>1. PICK e : e = call'[q] /\ RecordOK(e)
    OBVIOUS
  <2>2. RecordOK(e)'
    BY <2>1, RecordKept DEF MediaInv
  <2> QED
    BY <2>1, <2>2
<1>2. FileOK(cacheFile)' /\ FileOK(tmpFile)'
  <2>1. FileOK(f)' /\ FileOK(g)'
    BY FileKept
  <2> QED
    BY <2>1
<1> QED
  BY <1>1, <1>2 DEF MediaInv, Onward

(* The next step of persist_cache, whatever has become of its file.        *)
LEMMA ReplacesCache ==
    ASSUME NEW c, ScanOK(c), c.since = writes => ScanTrue(c), c.pc \in {"create", "write", "rename"},
           NEW pc \in {"write", "rename", "done"},
           NEW target \in {"none", "temporary", "cache", "nowhere"},
           NEW d, d = [c EXCEPT !.pc = pc, !.target = target]
    PROVE  RecordOK(d)
<1>1. c \in ScanRec(c)
  BY DEF ScanOK
<1>2. /\ d.pc = pc /\ d.roots = c.roots /\ d.seen = c.seen /\ d.items = c.items
  BY <1>1 DEF ScanRec
<1>3. SameScan(c, d)
  BY <1>1, <1>2 DEF ScanRec, SameScan, ScanSteps
<1> QED
  BY <1>2, <1>3, ReportedScan

LEMMA TornIsOK == FileOK(Torn) /\ FileOK(Absent)
BY DEF FileOK, CacheRec, Torn, Absent

(* The temporary file; others may hold one already.                        *)
LEMMA TemporaryStep == ASSUME MediaInv, NEW p \in Searcher, CreateTemporary(p) PROVE MediaInv'
<1>1. PICK c, g : c = call[p] /\ g = cacheFile
  OBVIOUS
<1>2. ScanOK(c) /\ (c.since = writes => ScanTrue(c)) /\ c \in ScanRec(c) /\ c.pc = "create"
  BY <1>1, IsScan DEF CreateTemporary, Doing, MediaInv, ScanOK
<1>3. PICK d : d = [c EXCEPT !.pc = "write", !.target = "temporary"]
  OBVIOUS
<1>4. RecordOK(d)
  BY <1>2, <1>3, ReplacesCache
<1>5. call' = [call EXCEPT ![p] = d] /\ UNCHANGED <<world, cacheFile>> /\ tmpFile' = Torn
  BY <1>1, <1>3 DEF CreateTemporary, MediaInv
<1>6. DOMAIN call' = Searcher /\ \A q \in Searcher : call'[q] = IF q = p THEN d ELSE call[q]
  BY <1>5 DEF MediaInv
<1>7. \A q \in Searcher : \E e : e = call'[q] /\ RecordOK(e)
  BY <1>4, <1>6 DEF MediaInv
<1>8. Onward
  BY <1>5, SameWorld DEF MediaInv
<1>9. FileOK(g) /\ cacheFile' = g
  BY <1>1, <1>5 DEF MediaInv
<1> QED
  BY <1>5, <1>6, <1>7, <1>8, <1>9, TornIsOK, AllRecords

LEMMA WriteStep == ASSUME MediaInv, NEW p \in Searcher, WriteTemporary(p) PROVE MediaInv'
<1>1. PICK c, f, g : c = call[p] /\ f = cacheFile' /\ g = tmpFile'
  OBVIOUS
<1>2. ScanOK(c) /\ (c.since = writes => ScanTrue(c)) /\ c \in ScanRec(c) /\ c.pc = "write"
  BY <1>1, IsScan DEF WriteTemporary, Doing, MediaInv, ScanOK
<1>3. PICK d : d = [c EXCEPT !.pc = "rename"]
  OBVIOUS
<1>4. RecordOK(d)
  <2>1. d = [c EXCEPT !.pc = "rename", !.target = c.target] /\ c.target \in {"none", "temporary", "cache", "nowhere"}
    BY <1>2, <1>3 DEF ScanRec
  <2> QED
    BY <1>2, <2>1, ReplacesCache
<1>5. call' = [call EXCEPT ![p] = d] /\ UNCHANGED world
  BY <1>1, <1>3 DEF WriteTemporary, MediaInv
<1>6. DOMAIN call' = Searcher /\ \A q \in Searcher : call'[q] = IF q = p THEN d ELSE call[q]
  BY <1>5 DEF MediaInv
<1>7. \A q \in Searcher : \E e : e = call'[q] /\ RecordOK(e)
  BY <1>4, <1>6 DEF MediaInv
<1>8. Onward
  BY <1>5, SameWorld DEF MediaInv
<1>9. FileOK(Mine(p))
  <2>1. Mine(p) = Cached(c.usable \cap c.mapped, ToSet(c.seen))
    BY <1>1 DEF Mine, Signature
  <2>2. \A e \in ToSet(c.seen) : e \in EntryRec /\ Honest(e)
    <3>1. c.seen \in Seq(EntryRec) /\ \A i \in DOMAIN c.seen : Honest(c.seen[i])
      BY <1>2 DEF ScanOK, ScanRec
    <3>2. \A i \in DOMAIN c.seen : c.seen[i] \in EntryRec
      BY <3>1, ElementOfSeq, LenProperties
    <3> QED
      BY <3>1, <3>2 DEF ToSet
  <2>3. c.usable \cap c.mapped \in SUBSET Root
    BY <1>2 DEF ScanRec
  <2> QED
    BY <2>1, <2>2, <2>3 DEF FileOK, CacheRec, Cached
<1>10. PICK written \in {Mine(p), Torn} :
          /\ tmpFile'   = IF c.target = "temporary" THEN written ELSE tmpFile
          /\ cacheFile' = IF c.target = "cache" THEN written ELSE cacheFile
  BY <1>1 DEF WriteTemporary
<1>11. FileOK(f) /\ FileOK(g)
  <2>1. FileOK(written)
    BY <1>9, <1>10, TornIsOK
  <2> QED
    BY <1>1, <1>10, <2>1 DEF MediaInv
<1> QED
  BY <1>1, <1>6, <1>7, <1>8, <1>11, AllRecords

(* A rename moves the file that another process is still writing.          *)
LEMMA RenameStep == ASSUME MediaInv, NEW p \in Searcher, RenameTemporary(p) PROVE MediaInv'
<1>1. PICK c, f : c = call[p] /\ f = cacheFile'
  OBVIOUS
<1>2. ScanOK(c) /\ (c.since = writes => ScanTrue(c)) /\ c \in ScanRec(c) /\ c.pc = "rename"
  BY <1>1, IsScan DEF RenameTemporary, Doing, MediaInv, ScanOK
<1>3. /\ UNCHANGED world /\ tmpFile' = Absent /\ f \in {tmpFile, cacheFile} /\ DOMAIN call' = Searcher
  BY <1>1 DEF RenameTemporary
<1>4. ASSUME NEW q \in Searcher PROVE \E d : d = call'[q] /\ RecordOK(d)
  <2>1. PICK d : d = call'[q]
    OBVIOUS
  <2>2. CASE q = p
    <3>1. d = [c EXCEPT !.pc = "done"] \/ d = [c EXCEPT !.pc = "failed"]
      BY <1>1, <2>1, <2>2 DEF RenameTemporary
    <3>2. CASE d = [c EXCEPT !.pc = "done"]
      <4>1. /\ d = [c EXCEPT !.pc = "done", !.target = c.target]
            /\ c.target \in {"none", "temporary", "cache", "nowhere"}
        BY <1>2, <3>2 DEF ScanRec
      <4>2. RecordOK(d)
        BY <1>2, <4>1, ReplacesCache
      <4> QED
        BY <2>1, <4>2
    <3>3. CASE d = [c EXCEPT !.pc = "failed"]
      <4>1. SameScan(c, d) /\ d.pc = "failed" /\ d.roots = c.roots /\ d.seen = c.seen
        BY <1>2, <3>3 DEF ScanRec, SameScan, ScanSteps
      <4>2. RecordOK(d)
        BY <1>2, <4>1, FailedScan
      <4> QED
        BY <2>1, <4>2
    <3> QED
      BY <3>1, <3>2, <3>3
  <2>3. CASE q # p
    <3>1. PICK b : b = call[q]
      OBVIOUS
    <3>2. RecordOK(b)
      BY <3>1 DEF MediaInv
    <3>3. d = b \/ (b.pc = "write" /\ d = [b EXCEPT !.target = MovedOn(@)])
      BY <2>1, <2>3, <3>1 DEF RenameTemporary, Doing
    <3>4. CASE b.pc = "write" /\ d = [b EXCEPT !.target = MovedOn(@)]
      <4>1. ScanOK(b) /\ (b.since = writes => ScanTrue(b)) /\ b \in ScanRec(b)
        BY <3>2, <3>4, IsScan DEF ScanOK
      <4>2. /\ d = [b EXCEPT !.pc = "write", !.target = MovedOn(b.target)]
            /\ MovedOn(b.target) \in {"none", "temporary", "cache", "nowhere"}
        BY <3>4, <4>1 DEF ScanRec, MovedOn
      <4>3. RecordOK(d)
        BY <3>4, <4>1, <4>2, ReplacesCache
      <4> QED
        BY <2>1, <4>3
    <3> QED
      BY <2>1, <3>2, <3>3, <3>4
  <2> QED
    BY <2>2, <2>3
<1>5. Onward
  BY <1>3, SameWorld DEF MediaInv
<1>6. FileOK(f)
  BY <1>3 DEF MediaInv
<1> QED
  BY <1>1, <1>3, <1>4, <1>5, <1>6, TornIsOK, AllRecords

LEMMA DeleteCacheStep == ASSUME MediaInv, DeleteCache PROVE MediaInv'
<1>1. PICK g : g = tmpFile
  OBVIOUS
<1>2. Touches /\ UNCHANGED <<disk, mounted, catalogue, call, tmpFile>> /\ cacheFile' = Absent
  BY DEF DeleteCache
<1>3. WorldInv /\ DOMAIN call = Searcher /\ \A q \in Searcher : RecordOK(call[q])
  BY DEF MediaInv
<1>4. Onward
  <2>1. /\ disk' \in [Place -> [version : Version \cup {Gone}, stamp : Nat]] /\ mounted' \subseteq Root
        /\ \A u \in Place : disk'[u] = disk[u]
        /\ \A u, w \in Place : disk'[u].stamp = disk'[w].stamp => u = w \/ disk'[u].stamp = 0
    BY <1>2, <1>3 DEF WorldInv
  <2> QED
    BY <1>2, <1>3, <2>1, FilesChange
<1>5. DOMAIN call' = Searcher /\ \A q \in Searcher : \E d : d = call'[q] /\ RecordOK(d)
  BY <1>2, <1>3
<1>6. FileOK(g) /\ tmpFile' = g
  BY <1>1, <1>2 DEF MediaInv
<1> QED
  BY <1>2, <1>4, <1>5, <1>6, TornIsOK, AllRecords

LEMMA InventoryStep == MediaInv /\ InventoryNext => MediaInv'
<1> SUFFICES ASSUME MediaInv, InventoryNext PROVE MediaInv'
  OBVIOUS
<1>1. ASSUME NEW p \in Searcher, NEW mapped \in Mappings, BeginScan(p, mapped) PROVE MediaInv'
  BY <1>1, BeginScanStep
<1>2. ASSUME NEW p \in Searcher,
             \/ LoadCache(p) \/ EnterRoot(p) \/ Visit(p) \/ ReadFile(p) \/ Classify(p)
             \/ CreateTemporary(p) \/ WriteTemporary(p) \/ RenameTemporary(p)
      PROVE  MediaInv'
  BY <1>2, LoadCacheStep, EnterRootStep, VisitStep, ReadFileStep, ClassifyStep, TemporaryStep,
     WriteStep, RenameStep
<1>3. ASSUME NEW p \in Searcher, EndScan(p) PROVE MediaInv'
  BY <1>3, EndStep DEF EndScan
<1> QED
  BY <1>1, <1>2, <1>3, DeleteCacheStep DEF InventoryNext

(* Somebody else's step.                                                   *)
LEMMA WorldStep == MediaInv /\ WorldNext => MediaInv'
<1> SUFFICES ASSUME MediaInv, WorldNext PROVE MediaInv'
  OBVIOUS
<1>1. Onward /\ call' = call /\ cacheFile' = cacheFile /\ tmpFile' = tmpFile
  BY WorldOnward DEF MediaInv, processes
<1>2. PICK f, g : f = cacheFile /\ g = tmpFile
  OBVIOUS
<1>3. DOMAIN call' = Searcher /\ \A q \in Searcher : \E d : d = call'[q] /\ RecordOK(d)
  BY <1>1 DEF MediaInv
<1> QED
  BY <1>1, <1>2, <1>3, AllRecords DEF MediaInv
-----------------------------------------------------------------------------
(* A resolution and its answers.                                           *)

(* A later record of the same resolution.                                  *)
SameResolution(c, d) ==
    /\ d \in ResolutionRec(d) /\ "answers" \in DOMAIN d
    /\ d.verifies = c.verifies /\ d.mapped = c.mapped /\ d.usable = c.usable /\ d.since = c.since

LEMMA SameRivals ==
    ASSUME NEW c, NEW d, SameResolution(c, d)
    PROVE  /\ Searched(d.usable, d.mapped) = Searched(c.usable, c.mapped)
           /\ InSight(d.usable, d.mapped) = InSight(c.usable, c.mapped)
           /\ \A x : Rivals(d, x) = Rivals(c, x)
BY DEF SameResolution, Rivals

(* An answer stays true while its resolution goes on.                      *)
LEMMA SameAnswer ==
    ASSUME NEW c, NEW d, SameResolution(c, d), NEW x, d.answers[x] = c.answers[x],
           d.places[x] = c.places[x], AnswerTold(c, x)
    PROVE  AnswerTold(d, x)
<1>1. AnswerIsTrue(d, x) <=> AnswerIsTrue(c, x)
  BY SameRivals DEF SameResolution, AnswerIsTrue
<1> QED
  BY <1>1 DEF AnswerTold

(* The first record of a resolution.                                       *)
LEMMA ResolutionBegins ==
    ASSUME WorldInv, NEW readsAll \in BOOLEAN, NEW verifies \in BOOLEAN, NEW mapped \in Mappings,
           NEW d, d = [NewResolution EXCEPT
               !.readsAll = readsAll, !.verifies = verifies, !.mapped = mapped,
               !.usable = enabled, !.toRead = Imported, !.toResolve = Imported, !.since = writes]
    PROVE  RecordOK(d)
<1>1. /\ d.pc = "next" /\ d.toRead = Imported /\ d.toResolve = Imported /\ d.places = <<>>
      /\ d.answers = <<>> /\ d.todo = <<>> /\ d.roots = {} /\ d.visited = 0 /\ d.searched = TRUE
      /\ d.found = {} /\ d.matches = {} /\ d.frames = {} /\ d.usable = enabled
      /\ "answers" \in DOMAIN d
  BY DEF NewResolution
<1>2. d = [pc |-> "next", readsAll |-> readsAll, verifies |-> verifies, mapped |-> mapped,
           usable |-> enabled, toRead |-> Imported, toResolve |-> Imported, places |-> <<>>,
           roots |-> {}, todo |-> <<>>, visited |-> 0, searched |-> TRUE,
           found |-> {}, matches |-> {}, frames |-> {}, answers |-> <<>>, since |-> writes]
  BY DEF NewResolution
<1>3. mapped \in SUBSET Root /\ enabled \in SUBSET Root /\ writes \in 0..writes
  BY MappingsAssumption DEF WorldInv
<1>4. <<>> \in Seq(Place) /\ DOMAIN <<>> = {} /\ "next" \in ResolutionSteps
  BY DEF ResolutionSteps
<1>5. d \in ResolutionRec(d)
  <2>1. /\ d.pc \in ResolutionSteps /\ d.todo \in Seq(Place) /\ d.visited \in Nat
        /\ d.toRead \in SUBSET Imported /\ d.toResolve \in SUBSET Imported
    <3>1. d.todo \in Seq(Place)
      BY <1>1, <1>4
    <3>2. d.visited \in Nat /\ d.toRead \in SUBSET Imported /\ d.toResolve \in SUBSET Imported
      BY <1>1
    <3>3. d.pc \in ResolutionSteps
      BY <1>1, <1>4
    <3> QED
      BY <3>1, <3>2, <3>3
  <2>2. /\ d.found \in SUBSET Place /\ d.matches \in SUBSET Place /\ d.frames \in SUBSET Frame
        /\ d.roots \in SUBSET Root /\ d.searched \in BOOLEAN
    BY <1>1
  <2> QED
    <3>1. /\ d.readsAll \in BOOLEAN /\ d.verifies \in BOOLEAN /\ d.mapped \in SUBSET Root
          /\ d.usable \in SUBSET Root /\ d.since \in 0..writes
      BY <1>2, <1>3
    <3> QED
      BY <1>2, <2>1, <2>2, <3>1 DEF ResolutionRec
<1>6. DOMAIN d.places = {} /\ DOMAIN d.answers = {}
  BY <1>1, <1>4
<1>8. ResolutionOK(d)
  BY <1>1, <1>5, <1>6 DEF ResolutionOK
<1>9. ResolutionTrue(d)
  BY <1>1, <1>6 DEF ResolutionTrue
<1> QED
  BY <1>8, <1>9 DEF RecordOK

(* The record after one more resource had its locators read.               *)
LEMMA LocatorsRead ==
    ASSUME WorldInv, NEW c, ResolutionOK(c), c.since = writes => ResolutionTrue(c), c.pc = "next",
           NEW x \in c.toRead,
           NEW d, d = [c EXCEPT !.toRead = @ \ {x}, !.places = With(@, x, locators[x])]
    PROVE  RecordOK(d)
<1>1. c \in ResolutionRec(c) /\ x \in Imported /\ x \in Resource /\ x \notin DOMAIN c.places /\ x \in c.toResolve
  BY DEF ResolutionOK, ResolutionRec, Imported
<1>2. PICK places : places = With(c.places, x, locators[x])
  OBVIOUS
<1>3. /\ DOMAIN places = DOMAIN c.places \cup {x} /\ \A y \in DOMAIN c.places : places[y] = c.places[y]
      /\ places[x] = locators[x]
  BY <1>1, <1>2 DEF With
<1>4. /\ d.pc = "next" /\ d.toRead = c.toRead \ {x} /\ d.places = places /\ d.toResolve = c.toResolve
      /\ d.answers = c.answers /\ d.todo = c.todo /\ d.roots = c.roots /\ d.visited = c.visited
      /\ d.searched = c.searched /\ d.found = c.found /\ d.matches = c.matches
      /\ d.frames = c.frames /\ d.usable = c.usable /\ d.mapped = c.mapped /\ d.verifies = c.verifies
      /\ d.since = c.since /\ "answers" \in DOMAIN d
  BY <1>1, <1>2 DEF ResolutionRec
<1>5. d \in ResolutionRec(d)
  BY <1>1, <1>4 DEF ResolutionRec
<1>6. locators[x] \in SUBSET Place /\ locators[x] \subseteq Kind(x)
  BY <1>1 DEF WorldInv
<1>7. \A y \in DOMAIN places : places[y] \subseteq Kind(y)
  <2>1. \A y \in DOMAIN c.places : c.places[y] \subseteq Kind(y)
    BY DEF ResolutionOK
  <2> QED
    BY <1>3, <1>6, <2>1
<1>8. ResolutionOK(d)
  <2>1. DOMAIN d.answers \subseteq DOMAIN d.places \ d.toResolve /\ DOMAIN d.places \subseteq Imported
    BY <1>1, <1>3, <1>4 DEF ResolutionOK
  <2>2. d.toRead \subseteq d.toResolve /\ d.toRead \cap DOMAIN d.places = {}
    BY <1>3, <1>4 DEF ResolutionOK
  <2> QED
    BY <1>1, <1>4, <1>5, <1>7, <2>1, <2>2 DEF ResolutionOK
<1>9. ASSUME d.since = writes PROVE ResolutionTrue(d)
  <2>1. SameResolution(c, d)
    BY <1>4, <1>5 DEF SameResolution
  <2>2. \A y \in DOMAIN c.answers : y \in DOMAIN c.places /\ AnswerTold(c, y)
    BY <1>4, <1>9 DEF ResolutionTrue, ResolutionOK
  <2>3. \A y \in DOMAIN d.answers : AnswerTold(d, y)
    <3>1. TAKE y \in DOMAIN d.answers
    <3>2. d.answers[y] = c.answers[y] /\ y \in DOMAIN c.answers
      BY <1>4
    <3>3. d.places[y] = c.places[y] /\ AnswerTold(c, y)
      BY <1>3, <1>4, <2>2, <3>2
    <3> QED
      BY <2>1, <3>2, <3>3, SameAnswer
  <2> QED
    BY <1>4, <2>3 DEF ResolutionTrue
<1> QED
  BY <1>8, <1>9 DEF RecordOK

(* What settling a resource changes.                                       *)
SettledTo(c, d, answer) ==
    /\ SameResolution(c, d)
    /\ d.toResolve = c.toResolve \ {Current(c)} /\ d.toRead = c.toRead /\ d.places = c.places
    /\ DOMAIN d.answers = DOMAIN c.answers \cup {Current(c)}
    /\ \A y \in DOMAIN c.answers : d.answers[y] = c.answers[y]
    /\ d.answers[Current(c)] = answer
    /\ d.pc = IF c.toResolve = {Current(c)} THEN "done" ELSE "next"
    /\ d.todo = <<>> /\ d.visited = 0 /\ d.searched = TRUE /\ d.found = {} /\ d.matches = {}
    /\ d.frames = {} /\ d.roots \in {c.roots, {}}

(* Settling does that, whether or not a walk is given up for it.           *)
LEMMA SettledFields ==
    ASSUME NEW c, ResolutionOK(c), Current(c) \in c.toResolve, Current(c) \in DOMAIN c.places,
           NEW answer \in AnswerRec,
           NEW d, \/ d = Settle(c, answer) /\ c.todo = <<>>
                  \/ d = [Settle(c, answer) EXCEPT !.todo = <<>>, !.roots = {}]
    PROVE  SettledTo(c, d, answer)
<1> DEFINE x == Current(c)
<1>1. c \in ResolutionRec(c) /\ x \notin DOMAIN c.answers
  BY DEF ResolutionOK
<1>2. PICK answers : answers = With(c.answers, x, answer)
  OBVIOUS
<1>3. /\ DOMAIN answers = DOMAIN c.answers \cup {x} /\ answers[x] = answer
      /\ \A y \in DOMAIN c.answers : answers[y] = c.answers[y]
  BY <1>1, <1>2 DEF With
<1> HIDE DEF x
<1>5. PICK pc \in {"done", "next"} : pc = IF c.toResolve = {x} THEN "done" ELSE "next"
  OBVIOUS
<1>6. PICK s : s = Settle(c, answer)
  OBVIOUS
<1>7. s = [c EXCEPT !.answers = answers, !.toResolve = @ \ {x}, !.pc = pc, !.visited = 0,
                    !.searched = TRUE, !.found = {}, !.matches = {}, !.frames = {}]
  BY <1>2, <1>5, <1>6 DEF Settle, x
<1>8. /\ s.toResolve = c.toResolve \ {x} /\ s.toRead = c.toRead /\ s.places = c.places
      /\ s.answers = answers /\ s.pc = pc /\ s.todo = c.todo /\ s.visited = 0 /\ s.searched = TRUE
      /\ s.found = {} /\ s.matches = {} /\ s.frames = {} /\ s.roots = c.roots
      /\ s.verifies = c.verifies /\ s.mapped = c.mapped /\ s.usable = c.usable /\ s.since = c.since
      /\ "answers" \in DOMAIN s
  BY <1>1, <1>7 DEF ResolutionRec
<1>9. s \in ResolutionRec(s)
  <2>1. /\ s.toResolve \in SUBSET Imported /\ pc \in ResolutionSteps /\ {} \in SUBSET Place
        /\ {} \in SUBSET Frame /\ TRUE \in BOOLEAN /\ 0 \in Nat
    BY <1>1, <1>8 DEF ResolutionRec, ResolutionSteps
  <2>2. c.toResolve \ {x} \in SUBSET Imported
    BY <1>8, <2>1
  <2> QED
    BY <1>1, <1>7, <1>8, <2>1, <2>2 DEF ResolutionRec
<1>10. PICK roots \in {c.roots, {}} : d = [s EXCEPT !.todo = <<>>, !.roots = roots]
  <2>1. CASE d = s /\ c.todo = <<>>
    <3>1. s.todo = <<>> /\ s.roots = c.roots /\ s = [s EXCEPT !.todo = s.todo, !.roots = s.roots]
      BY <1>8, <1>9, <2>1 DEF ResolutionRec
    <3> QED
      BY <2>1, <3>1
  <2>2. CASE d = [s EXCEPT !.todo = <<>>, !.roots = {}]
    BY <2>2
  <2> QED
    BY <1>6, <2>1, <2>2
<1>11. /\ d.toResolve = c.toResolve \ {x} /\ d.toRead = c.toRead /\ d.places = c.places
       /\ d.answers = answers /\ d.pc = pc /\ d.todo = <<>> /\ d.visited = 0 /\ d.searched = TRUE
       /\ d.found = {} /\ d.matches = {} /\ d.frames = {} /\ d.roots = roots
       /\ d.verifies = c.verifies /\ d.mapped = c.mapped /\ d.usable = c.usable /\ d.since = c.since
       /\ "answers" \in DOMAIN d
  BY <1>8, <1>9, <1>10 DEF ResolutionRec
<1>12. d \in ResolutionRec(d)
  <2>1. <<>> \in Seq(Place)
    OBVIOUS
  <2>2. roots \in SUBSET Root
    BY <1>1, <1>10 DEF ResolutionRec
  <2> QED
    BY <1>8, <1>9, <1>10, <1>11, <2>1, <2>2 DEF ResolutionRec
<1> QED
  BY <1>3, <1>5, <1>10, <1>11, <1>12 DEF SameResolution, SettledTo, x

(* An answer that is true can be recorded.                                 *)
LEMMA SettledResource ==
    ASSUME NEW c, ResolutionOK(c), c.since = writes => ResolutionTrue(c),
           Current(c) \in c.toResolve, Current(c) \in DOMAIN c.places,
           NEW answer \in AnswerRec, answer.candidates \subseteq Kind(Current(c)),
           NEW d, SettledTo(c, d, answer), c.since = writes => AnswerTold(d, Current(c))
    PROVE  RecordOK(d)
<1>1. PICK x : x = Current(c)
  OBVIOUS
<1>2. /\ SameResolution(c, d)
      /\ d.toResolve = c.toResolve \ {x} /\ d.toRead = c.toRead /\ d.places = c.places
      /\ DOMAIN d.answers = DOMAIN c.answers \cup {x}
      /\ \A y \in DOMAIN c.answers : d.answers[y] = c.answers[y]
      /\ d.answers[x] = answer
      /\ d.pc = IF c.toResolve = {x} THEN "done" ELSE "next"
      /\ d.todo = <<>> /\ d.visited = 0 /\ d.searched = TRUE /\ d.found = {} /\ d.matches = {}
      /\ d.frames = {} /\ d.roots \in {c.roots, {}}
      /\ x \in c.toResolve /\ x \in DOMAIN c.places /\ answer.candidates \subseteq Kind(x)
  BY <1>1 DEF SettledTo
<1>3. d.usable = c.usable /\ d.since = c.since /\ d \in ResolutionRec(d) /\ "answers" \in DOMAIN d
  BY <1>2 DEF SameResolution
<1>4. /\ DOMAIN d.places \subseteq Imported
      /\ \A y \in DOMAIN d.places : d.places[y] \subseteq Kind(y)
      /\ d.toRead \subseteq d.toResolve /\ d.toRead \cap DOMAIN d.places = {}
      /\ DOMAIN d.answers \subseteq DOMAIN d.places \ d.toResolve /\ d.roots \subseteq d.usable
  BY <1>2, <1>3 DEF ResolutionOK
<1>5. \A y \in DOMAIN d.answers : d.answers[y] \in AnswerRec /\ d.answers[y].candidates \subseteq Kind(y)
  BY <1>2 DEF ResolutionOK
<1>6. d.toResolve = {} => d.pc # "next"
  BY <1>2
<1>7. ResolutionOK(d)
  BY <1>2, <1>3, <1>4, <1>5, <1>6 DEF ResolutionOK
<1>8. ASSUME d.since = writes PROVE ResolutionTrue(d)
  <2>1. \A y \in DOMAIN c.answers : AnswerTold(c, y)
    BY <1>3, <1>8 DEF ResolutionTrue
  <2>2. \A y \in DOMAIN c.answers : AnswerTold(d, y)
    BY <1>2, <2>1, SameAnswer
  <2>3. AnswerTold(d, x)
    BY <1>1, <1>3, <1>8
  <2> QED
    BY <1>2, <2>2, <2>3 DEF ResolutionTrue
<1> QED
  BY <1>7, <1>8 DEF RecordOK

(* The resource that is being resolved.                                    *)
LEMMA CurrentIs ==
    ASSUME WorldInv, NEW c, ResolutionOK(c), c.toResolve # {}
    PROVE  /\ Current(c) \in c.toResolve /\ Current(c) \in Imported /\ Current(c) \in Resource
           /\ original[Current(c)] \in ContentOf(Current(c))
           /\ original[Current(c)] # Gone
<1>1. c.toResolve \in SUBSET Imported
  BY DEF ResolutionOK, ResolutionRec
<1>2. c.toResolve \in SUBSET Resource
  BY <1>1 DEF Imported
<1>3. Current(c) \in c.toResolve
  BY <1>2, FirstIsIn, OrdersAssumption DEF Current
<1> QED
  BY <1>1, <1>2, <1>3 DEF Imported, WorldInv

LEMMA MissingFrames == \A x \in SequenceResource : \A u : Missing(x, u) \in SUBSET Frame
BY FramesAssumption DEF Missing

(* Only a sequence of that many frames can lack that many.                 *)
LEMMA TooManyMissing ==
    ASSUME NEW x \in SequenceResource, NEW u, TooMany(Missing(x, u))
    PROVE  TooMany(Declared[x])
<1>1. Missing(x, u) \subseteq Declared[x] /\ Declared[x] \subseteq Frame
  BY FramesAssumption DEF Missing
<1>2. IsFiniteSet(Declared[x])
  BY <1>1, FramesAssumption, FS_Subset
<1>3. IsFiniteSet(Missing(x, u)) /\ Cardinality(Missing(x, u)) <= Cardinality(Declared[x])
  BY <1>1, <1>2, FS_Subset
<1>4. Cardinality(Missing(x, u)) \in Nat /\ Cardinality(Declared[x]) \in Nat
  BY <1>2, <1>3, FS_CardinalityType
<1> QED
  BY <1>3, <1>4, ExceptionsAssumption DEF TooMany

LEMMA FailedAnswer == Failed \in AnswerRec /\ Failed.candidates = {} /\ Failed.state = "error"
BY DEF Failed, Answer, AnswerRec, States

LEMMA AnswerIs ==
    ASSUME NEW state \in States, NEW named \in SUBSET Place, NEW frames \in SUBSET Frame,
           NEW a, a = Answer(state, named, frames)
    PROVE  a \in AnswerRec /\ a.state = state /\ a.candidates = named /\ a.frames = frames
BY DEF Answer, AnswerRec

(* A search that ends with an error, for one of the reasons there are.     *)
LEMMA StoppedSearch ==
    ASSUME NEW c, ResolutionOK(c), c.since = writes => ResolutionTrue(c),
           NEW x, x = Current(c), x \in c.toResolve, x \in DOMAIN c.places,
           NEW d, d = Stopped(c) \/ (d = Settle(c, Failed) /\ c.todo = <<>>),
           c.since = writes =>
              \/ c.usable # Searched(c.usable, c.mapped)
              \/ (Cardinality(InSight(c.usable, c.mapped)) + 1) * Cardinality(Root) > MaxEntries
              \/ x \in SequenceResource /\ TooMany(Declared[x])
    PROVE  RecordOK(d)
<1>1. d = [Settle(c, Failed) EXCEPT !.todo = <<>>, !.roots = {}] \/ (d = Settle(c, Failed) /\ c.todo = <<>>)
  BY DEF Stopped
<1>2. SettledTo(c, d, Failed)
  BY <1>1, FailedAnswer, SettledFields
<1>3. ASSUME c.since = writes PROVE AnswerTold(d, x)
  <2>1. d.answers[x] = Failed /\ d.usable = c.usable /\ d.mapped = c.mapped
    BY <1>2 DEF SettledTo, SameResolution
  <2> QED
    BY <1>3, <2>1, FailedAnswer DEF AnswerTold, AnswerIsTrue
<1> QED
  BY <1>2, <1>3, FailedAnswer, SettledResource

(* A known place that is there, or the start of a walk.                    *)
LEMMA CheckKnownStep == ASSUME MediaInv, NEW p \in Searcher, CheckKnown(p) PROVE MediaInv'
<1>1. PICK c : c = call[p]
  OBVIOUS
<1>2. PICK x : x = Current(c)
  OBVIOUS
<1>3. /\ ResolutionOK(c) /\ (c.since = writes => ResolutionTrue(c)) /\ c \in ResolutionRec(c)
      /\ c.pc = "next" /\ x \in DOMAIN c.places /\ WorldInv
  BY <1>1, <1>2, IsResolution DEF CheckKnown, Doing, MediaInv, ResolutionOK
<1>4. /\ c.toResolve # {} /\ c.todo = <<>> /\ c.matches = {} /\ c.visited = 0 /\ c.searched = TRUE
      /\ c.found = {} /\ c.frames = {} /\ c.places[x] \subseteq Kind(x)
  BY <1>3 DEF ResolutionOK
<1>5. x \in c.toResolve /\ x \in Imported /\ Kind(x) \subseteq Place
  BY <1>2, <1>3, <1>4, CurrentIs DEF Kind, Place
<1>6. PICK online : online = {u \in c.places[x] : u \in Kind(x) /\ Present(u)}
  OBVIOUS
<1>7. PICK u : u = FirstOf(online)
  OBVIOUS
<1>8. PICK frames : frames = IF x \in SequenceResource THEN Missing(x, u) ELSE {}
  OBVIOUS
<1>9. frames \in SUBSET Frame
  BY <1>8, MissingFrames
<1>10. Continue(p,
         IF online = {} THEN Search(c)
         ELSE IF TooMany(frames) THEN Settle(c, Failed)
         ELSE IF c.verifies THEN [c EXCEPT !.pc = "verify", !.found = {u}, !.frames = frames]
         ELSE Settle(c, Answer("online", {u}, frames)))
  BY <1>1, <1>2, <1>6, <1>7, <1>8 DEF CheckKnown
<1>11. CASE online = {}
  <2>1. PICK d : d = Search(c)
    OBVIOUS
  <2>2. PICK S : S = Searched(c.usable, c.mapped)
    OBVIOUS
  <2>3. S = {r \in c.usable : r \in c.mapped /\ Reachable(r)} /\ S \subseteq c.usable /\ c.usable \subseteq Root
    BY <1>3, <2>2 DEF Searched, ResolutionRec
  <2>4. PICK roots \in {S, c.usable}, searched \in BOOLEAN :
           /\ d = [c EXCEPT !.pc = "walk", !.roots = roots, !.searched = searched]
           /\ searched => roots = c.usable
           /\ ~searched => S # c.usable
    <3>1. CASE x \in SequenceResource
      <4>1. d = [c EXCEPT !.pc = "walk", !.roots = S, !.searched = (S = c.usable)]
        BY <1>2, <2>1, <2>3, <3>1 DEF Search
      <4> QED
        BY <4>1
    <3>2. CASE x \notin SequenceResource
      <4>1. d = [c EXCEPT !.pc = "walk", !.roots = c.usable]
        BY <1>2, <2>1, <3>2 DEF Search
      <4>2. d = [c EXCEPT !.pc = "walk", !.roots = c.usable, !.searched = TRUE]
        BY <1>3, <1>4, <4>1 DEF ResolutionRec
      <4> QED
        BY <4>2
    <3> QED
      BY <3>1, <3>2
  <2>5. /\ d.pc = "walk" /\ d.roots = roots /\ d.searched = searched /\ d.toRead = c.toRead
        /\ d.toResolve = c.toResolve /\ d.places = c.places /\ d.todo = <<>> /\ d.visited = 0
        /\ d.found = {} /\ d.matches = {} /\ d.frames = {} /\ d.answers = c.answers
        /\ d.usable = c.usable /\ d.mapped = c.mapped /\ d.verifies = c.verifies
        /\ d.since = c.since /\ "answers" \in DOMAIN d
    BY <1>3, <1>4, <2>4 DEF ResolutionRec
  <2>6. d \in ResolutionRec(d)
    BY <1>3, <2>3, <2>4, <2>5 DEF ResolutionRec, ResolutionSteps
  <2>7. SameResolution(c, d) /\ Current(d) = x
    BY <1>2, <2>5, <2>6 DEF SameResolution, Current
  <2>8. ResolutionOK(d)
    BY <1>3, <1>4, <2>3, <2>4, <2>5, <2>6, <2>7 DEF ResolutionOK
  <2>9. ASSUME d.since = writes PROVE ResolutionTrue(d)
    <3>1. \A y \in DOMAIN c.answers : AnswerTold(c, y)
      BY <1>3, <2>5, <2>9 DEF ResolutionTrue
    <3>2. \A y \in DOMAIN d.answers : AnswerTold(d, y)
      BY <2>5, <2>7, <3>1, SameAnswer
    <3>3. \A w \in d.places[x] : ~Present(w)
      BY <1>4, <1>6, <1>11, <2>5
    <3>4. ToSet(d.todo) = {} /\ IsInjective(d.todo)
      BY <2>5, EmptyTodo
    <3>5. Searched(d.usable, d.mapped) = S
      BY <2>2, <2>5
    <3>6. ASSUME NEW w \in Rivals(d, x) PROVE w \in ToCome(d)
      <4>2. PICK r \in Within(w) : r \in S
        BY <3>5 DEF Rivals, InSight
      <4>3. r \in roots \cap S /\ w \in ToSet(Under[r])
        BY <2>3, <2>4, <4>2 DEF Within
      <4> QED
        BY <2>5, <3>5, <4>3 DEF ToCome
    <3>7. Counted(d)
      <4>1. /\ {} \in SUBSET (InSight(d.usable, d.mapped) \X (Root \ d.roots))
            /\ {} \in SUBSET (Root \ d.roots) /\ Cardinality({}) = 0 /\ 0 + 0 = 0
        BY FS_EmptySet
      <4> QED
        BY <2>5, <4>1 DEF Counted
    <3>8. IF d.searched THEN d.usable \ d.roots \subseteq Searched(d.usable, d.mapped)
          ELSE d.usable # Searched(d.usable, d.mapped)
      BY <2>4, <2>5, <3>5
    <3>9. WalkOK(d, x)
      BY <2>5, <3>3, <3>4, <3>6, <3>7, <3>8 DEF WalkOK
    <3> QED
      BY <2>5, <2>7, <3>2, <3>9 DEF ResolutionTrue
  <2>10. RecordOK(d)
    BY <2>8, <2>9 DEF RecordOK
  <2> QED
    BY <1>10, <1>11, <2>1, <2>10, Continued
<1>12. ASSUME online # {} PROVE u \in c.places[x] /\ u \in Kind(x) /\ u \in Place /\ Present(u)
  <2>1. online \in SUBSET Place
    BY <1>5, <1>6
  <2>2. u \in online
    BY <1>7, <1>12, <2>1, FirstPlace
  <2> QED
    BY <1>5, <1>6, <2>2
<1>13. CASE online # {} /\ TooMany(frames)
  <2>1. PICK d : d = Settle(c, Failed)
    OBVIOUS
  <2>2. x \in SequenceResource
    <3>1. ~TooMany({})
      BY FS_EmptySet, ExceptionsAssumption DEF TooMany
    <3> QED
      BY <1>8, <1>13, <3>1
  <2>3. TooMany(Declared[x])
    BY <1>8, <1>13, <2>2, TooManyMissing
  <2>4. RecordOK(d)
    BY <1>2, <1>3, <1>4, <1>5, <2>1, <2>2, <2>3, StoppedSearch
  <2> QED
    BY <1>10, <1>13, <2>1, <2>4, Continued
<1>14. CASE online # {} /\ ~TooMany(frames) /\ c.verifies
  <2>1. PICK d : d = [c EXCEPT !.pc = "verify", !.found = {u}, !.frames = frames]
    OBVIOUS
  <2>2. u \in c.places[x] /\ u \in Kind(x) /\ u \in Place /\ Present(u)
    BY <1>12, <1>14
  <2>5. /\ d.pc = "verify" /\ d.roots = c.roots /\ d.searched = TRUE /\ d.toRead = c.toRead
        /\ d.toResolve = c.toResolve /\ d.places = c.places /\ d.todo = <<>> /\ d.visited = 0
        /\ d.found = {u} /\ d.matches = {} /\ d.frames = frames /\ d.answers = c.answers
        /\ d.usable = c.usable /\ d.mapped = c.mapped /\ d.verifies = c.verifies
        /\ d.since = c.since /\ "answers" \in DOMAIN d
    BY <1>3, <1>4, <2>1 DEF ResolutionRec
  <2>6. d \in ResolutionRec(d)
    <3>1. c \in ResolutionRec(c)
      BY <1>3
    <3>2. frames \in SUBSET Frame /\ {u} \in SUBSET Place /\ "verify" \in ResolutionSteps
      BY <1>9, <2>2 DEF ResolutionSteps
    <3>3. d \in ResolutionRec(c)
      BY <2>1, <3>1, <3>2 DEF ResolutionRec
    <3> QED
      BY <2>5, <3>3 DEF ResolutionRec
  <2>7. SameResolution(c, d) /\ Current(d) = x
    BY <1>2, <2>5, <2>6 DEF SameResolution, Current
  <2>8. ResolutionOK(d)
    BY <1>3, <1>4, <1>14, <2>2, <2>5, <2>6, <2>7 DEF ResolutionOK
  <2>9. ASSUME d.since = writes PROVE ResolutionTrue(d)
    <3>1. \A y \in DOMAIN c.answers : AnswerTold(c, y)
      BY <1>3, <2>5, <2>9 DEF ResolutionTrue
    <3>2. \A y \in DOMAIN d.answers : AnswerTold(d, y)
      BY <2>5, <2>7, <3>1, SameAnswer
    <3>3. KnownOK(d, x)
      BY <1>8, <2>2, <2>5 DEF KnownOK
    <3> QED
      BY <2>5, <2>7, <3>2, <3>3 DEF ResolutionTrue
  <2>10. RecordOK(d)
    BY <2>8, <2>9 DEF RecordOK
  <2> QED
    BY <1>10, <1>14, <2>1, <2>10, Continued
<1>15. CASE online # {} /\ ~TooMany(frames) /\ ~c.verifies
  <2>1. PICK a : a = Answer("online", {u}, frames)
    OBVIOUS
  <2>2. PICK d : d = Settle(c, a)
    OBVIOUS
  <2>3. u \in c.places[x] /\ u \in Kind(x) /\ u \in Place /\ Present(u)
    BY <1>12, <1>15
  <2>4. a \in AnswerRec /\ a.state = "online" /\ a.candidates = {u} /\ a.frames = frames
    BY <1>9, <2>1, <2>3, AnswerIs DEF States
  <2>5. SettledTo(c, d, a)
    BY <1>2, <1>3, <1>4, <1>5, <2>2, <2>4, SettledFields
  <2>6. AnswerTold(d, x)
    <3>1. d.answers[x] = a /\ d.places[x] = c.places[x] /\ d.verifies = c.verifies
      BY <1>2, <2>5 DEF SettledTo, SameResolution
    <3>2. AnswerIsTrue(d, x)
      BY <1>15, <2>3, <2>4, <3>1 DEF AnswerIsTrue
    <3> QED
      BY <1>8, <2>4, <3>1, <3>2 DEF AnswerTold
  <2>7. RecordOK(d)
    BY <1>2, <1>3, <1>5, <2>3, <2>4, <2>5, <2>6, SettledResource
  <2> QED
    BY <1>10, <1>15, <2>1, <2>2, <2>7, Continued
<1> QED
  BY <1>11, <1>14, <1>15, <1>13

LEMMA VerifyKnownStep == ASSUME MediaInv, NEW p \in Searcher, VerifyKnown(p) PROVE MediaInv'
<1>1. PICK c : c = call[p]
  OBVIOUS
<1>2. PICK x : x = Current(c)
  OBVIOUS
<1>3. /\ ResolutionOK(c) /\ (c.since = writes => ResolutionTrue(c)) /\ c \in ResolutionRec(c)
      /\ c.pc = "verify" /\ WorldInv
  <2>1. c.pc = "verify"
    BY <1>1 DEF VerifyKnown, Doing
  <2>2. RecordOK(c) /\ WorldInv
    BY <1>1 DEF MediaInv
  <2>3. ResolutionOK(c) /\ (c.since = writes => ResolutionTrue(c))
    BY <2>1, <2>2, IsResolution
  <2> QED
    BY <2>1, <2>2, <2>3 DEF ResolutionOK
<1>4. /\ c.toResolve # {} /\ c.todo = <<>> /\ x \in DOMAIN c.places
      /\ c.found \subseteq Kind(x) /\ c.verifies /\ c.frames \in SUBSET Frame
  BY <1>2, <1>3 DEF ResolutionOK, ResolutionRec
<1>5. x \in c.toResolve
  BY <1>2, <1>3, <1>4, CurrentIs
<1>6. PICK u : u = FirstOf(c.found)
  OBVIOUS
<1>7. c.found = {u} /\ u \in Kind(x) /\ u \in Place
  <2>1. PICK w \in Place : c.found = {w}
    BY <1>3 DEF ResolutionOK
  <2>2. u \in {w}
    BY <1>6, <2>1, FirstPlace
  <2> QED
    BY <1>4, <2>1, <2>2
<1>8. CASE Readable(x, u) /\ Digest(u) = PrintOf(x)
  <2>1. PICK a : a = Answer("online", {u}, c.frames)
    OBVIOUS
  <2>2. PICK d : d = Settle(c, a)
    OBVIOUS
  <2>3. a \in AnswerRec /\ a.state = "online" /\ a.candidates = {u} /\ a.frames = c.frames
    BY <1>4, <1>7, <2>1, AnswerIs DEF States
  <2>4. SettledTo(c, d, a)
    BY <1>2, <1>3, <1>4, <1>5, <2>2, <2>3, SettledFields
  <2>5. ASSUME c.since = writes PROVE AnswerTold(d, x)
    <3>1. d.answers[x] = a /\ d.places[x] = c.places[x]
      BY <1>2, <2>4 DEF SettledTo, SameResolution
    <3>2. u \in c.places[x] /\ Present(u) /\ c.frames = IF x \in SequenceResource THEN Missing(x, u) ELSE {}
      BY <1>2, <1>3, <1>7, <2>5 DEF ResolutionTrue, KnownOK
    <3>3. AnswerIsTrue(d, x)
      BY <1>7, <1>8, <2>3, <3>1, <3>2 DEF AnswerIsTrue, Bears
    <3> QED
      BY <2>3, <3>1, <3>2, <3>3 DEF AnswerTold
  <2>6. RecordOK(d)
    BY <1>2, <1>3, <1>4, <1>5, <1>7, <2>3, <2>4, <2>5, SettledResource
  <2> QED
    BY <1>1, <1>2, <1>6, <1>8, <2>1, <2>2, <2>6, Continued DEF VerifyKnown
<1>9. CASE ~(Readable(x, u) /\ Digest(u) = PrintOf(x))
  <2>1. PICK d : d = Settle(c, Failed)
    OBVIOUS
  <2>2. SettledTo(c, d, Failed)
    BY <1>2, <1>3, <1>4, <1>5, <2>1, FailedAnswer, SettledFields
  <2>3. AnswerTold(d, x)
    <3>1. d.answers[x] = Failed /\ d.verifies
      BY <1>2, <1>4, <2>2 DEF SettledTo, SameResolution
    <3> QED
      BY <3>1, FailedAnswer DEF AnswerTold, AnswerIsTrue
  <2>4. RecordOK(d)
    BY <1>2, <1>3, <1>4, <1>5, <2>2, <2>3, FailedAnswer, SettledResource
  <2> QED
    BY <1>1, <1>2, <1>6, <1>9, <2>1, <2>4, Continued DEF VerifyKnown
<1> QED
  BY <1>8, <1>9
-----------------------------------------------------------------------------
(* The steps of a resolution.                                              *)

LEMMA BeginResolveStep ==
    ASSUME MediaInv, NEW p \in Searcher, NEW readsAll \in BOOLEAN, NEW verifies \in BOOLEAN,
           NEW mapped \in Mappings, BeginResolve(p, readsAll, verifies, mapped)
    PROVE  MediaInv'
<1>1. PICK d : /\ d = [NewResolution EXCEPT
                     !.readsAll = readsAll, !.verifies = verifies, !.mapped = mapped,
                     !.usable = enabled, !.toRead = Imported, !.toResolve = Imported,
                     !.since = writes]
               /\ Begin(p, d)
  BY DEF BeginResolve
<1>2. RecordOK(d)
  BY <1>1, ResolutionBegins DEF MediaInv
<1> QED
  BY <1>1, <1>2, Begun

LEMMA ReadLocatorsStep == ASSUME MediaInv, NEW p \in Searcher, ReadLocators(p) PROVE MediaInv'
<1>1. PICK c : c = call[p]
  OBVIOUS
<1>2. PICK x : x = FirstIn(ResourceOrder, c.toRead)
  OBVIOUS
<1>3. /\ ResolutionOK(c) /\ (c.since = writes => ResolutionTrue(c)) /\ c.pc = "next"
      /\ WorldInv /\ c.toRead # {}
  BY <1>1, IsResolution DEF ReadLocators, Doing, MediaInv
<1>4. c.toRead \in SUBSET Resource
  BY <1>3 DEF ResolutionOK, ResolutionRec, Imported
<1>5. x \in c.toRead
  BY <1>2, <1>3, <1>4, FirstIsIn, OrdersAssumption
<1>6. PICK d : d = [c EXCEPT !.toRead = @ \ {x}, !.places = With(@, x, locators[x])]
  OBVIOUS
<1>7. RecordOK(d)
  BY <1>3, <1>5, <1>6, LocatorsRead
<1> QED
  BY <1>1, <1>2, <1>6, <1>7, Continued DEF ReadLocators

(* What a walk may change.                                                 *)
WalksOn(c, d) ==
    /\ SameResolution(c, d)
    /\ d.pc = "walk" /\ d.toRead = c.toRead /\ d.toResolve = c.toResolve
    /\ d.places = c.places /\ d.answers = c.answers /\ d.roots \subseteq c.roots

(* A walk that goes on.                                                    *)
LEMMA WalkedOn ==
    ASSUME NEW c, ResolutionOK(c), c.since = writes => ResolutionTrue(c), c.pc = "walk",
           NEW d, WalksOn(c, d), d.found \cup d.matches \subseteq Kind(Current(c)),
           c.since = writes => WalkOK(d, Current(c))
    PROVE  RecordOK(d)
<1>1. Current(d) = Current(c) /\ d.since = c.since /\ d.usable = c.usable
  BY DEF WalksOn, SameResolution, Current
<1>2. ResolutionOK(d)
  BY <1>1 DEF ResolutionOK, WalksOn, SameResolution
<1>3. ASSUME d.since = writes PROVE ResolutionTrue(d)
  <2>1. SameResolution(c, d) /\ d.places = c.places /\ d.answers = c.answers /\ d.pc = "walk"
    BY DEF WalksOn
  <2>2. \A y \in DOMAIN c.answers : AnswerTold(c, y)
    BY <1>1, <1>3 DEF ResolutionTrue
  <2>3. \A y \in DOMAIN d.answers : AnswerTold(d, y)
    BY <2>1, <2>2, SameAnswer
  <2> QED
    BY <1>1, <1>3, <2>1, <2>3 DEF ResolutionTrue
<1> QED
  BY <1>2, <1>3 DEF RecordOK

(* What is known of a walk between two steps.                              *)
LEMMA WalkBetween ==
    ASSUME MediaInv, NEW p \in Searcher, Resolving(p), Doing(p, "walk"), NEW c, c = call[p],
           NEW x, x = Current(c)
    PROVE  /\ ResolutionOK(c) /\ (c.since = writes => ResolutionTrue(c) /\ WalkOK(c, x))
           /\ c \in ResolutionRec(c) /\ c.pc = "walk" /\ WorldInv
           /\ c.todo \in Seq(Place) /\ c.visited \in Nat /\ c.usable \subseteq Root
           /\ c.roots \in SUBSET Root /\ c.roots \subseteq c.usable
           /\ x \in c.toResolve /\ x \in DOMAIN c.places /\ x \in Imported /\ x \in Resource
           /\ original[x] \in ContentOf(x) /\ original[x] # Gone
           /\ c.found \cup c.matches \subseteq Kind(x) /\ Kind(x) \subseteq Place
<1>1. /\ ResolutionOK(c) /\ (c.since = writes => ResolutionTrue(c)) /\ c.pc = "walk" /\ WorldInv
  BY IsResolution DEF Resolving, Doing, MediaInv
<1>2. c \in ResolutionRec(c) /\ c.toResolve # {} /\ x \in DOMAIN c.places
      /\ c.found \cup c.matches \subseteq Kind(x) /\ c.roots \subseteq c.usable
  BY <1>1 DEF ResolutionOK
<1>3. /\ x \in c.toResolve /\ x \in Imported /\ x \in Resource
      /\ original[x] \in ContentOf(x) /\ original[x] # Gone
  BY <1>1, <1>2, CurrentIs
<1>4. c.since = writes => WalkOK(c, x)
  BY <1>1 DEF ResolutionTrue
<1>5. c.todo \in Seq(Place) /\ c.visited \in Nat /\ c.usable \subseteq Root /\ c.roots \in SUBSET Root
  BY <1>2 DEF ResolutionRec
<1>6. Kind(x) \subseteq Place
  BY DEF Kind, Place
<1> QED
  BY <1>1, <1>2, <1>3, <1>4, <1>5, <1>6

(* No walk comes past more than this.                                      *)
LEMMA CountIsBounded ==
    ASSUME NEW A \in SUBSET Place, NEW V \in SUBSET (A \X Root), NEW W \in SUBSET Root
    PROVE  /\ IsFiniteSet(V) /\ IsFiniteSet(W) /\ Cardinality(V) \in Nat /\ Cardinality(W) \in Nat
           /\ (Cardinality(A) + 1) * Cardinality(Root) \in Nat
           /\ Cardinality(V) + Cardinality(W) <= (Cardinality(A) + 1) * Cardinality(Root)
<1>1. IsFiniteSet(A) /\ IsFiniteSet(Root)
  BY PlacesAreFinite, FS_Subset
<1>2. IsFiniteSet(A \X Root) /\ Cardinality(A \X Root) = Cardinality(A) * Cardinality(Root)
  BY <1>1, FS_Product
<1>3. /\ IsFiniteSet(V) /\ Cardinality(V) <= Cardinality(A \X Root)
      /\ IsFiniteSet(W) /\ Cardinality(W) <= Cardinality(Root)
  BY <1>1, <1>2, FS_Subset
<1>4. /\ Cardinality(V) \in Nat /\ Cardinality(W) \in Nat
      /\ Cardinality(A) \in Nat /\ Cardinality(Root) \in Nat /\ Cardinality(A \X Root) \in Nat
  BY <1>1, <1>2, <1>3, FS_CardinalityType
<1>5. ASSUME NEW a \in Nat, NEW r \in Nat
      PROVE  (a + 1) * r = a * r + r /\ (a + 1) * r \in Nat
  BY SMT
<1> QED
  BY <1>2, <1>3, <1>4, <1>5

(* A root that is still to be walked has not been counted.                 *)
LEMMA CountedRoot ==
    ASSUME NEW c, Counted(c), c.visited \in Nat, NEW r \in c.roots, c.roots \subseteq Root
    PROVE  LET n == (Cardinality(InSight(c.usable, c.mapped)) + 1) * Cardinality(Root) IN
           /\ n \in Nat /\ c.visited + 1 <= n
           /\ \A d : /\ d.usable = c.usable /\ d.mapped = c.mapped /\ d.roots = c.roots \ {r}
                     /\ d.visited = c.visited + 1
                     => Counted(d)
<1>1. PICK A \in SUBSET Place : A = InSight(c.usable, c.mapped)
  BY DEF InSight
<1>2. PICK V \in SUBSET (A \X (Root \ c.roots)), W \in SUBSET (Root \ c.roots) :
         Cardinality(V) + Cardinality(W) = c.visited
  BY <1>1 DEF Counted
<1>3. PICK U : U = W \cup {r}
  OBVIOUS
<1>4. V \in SUBSET (A \X Root) /\ W \in SUBSET Root /\ U \in SUBSET Root /\ r \notin W
  BY <1>2, <1>3
<1>5. /\ IsFiniteSet(W) /\ Cardinality(V) \in Nat /\ Cardinality(W) \in Nat
      /\ (Cardinality(A) + 1) * Cardinality(Root) \in Nat
      /\ Cardinality(V) + Cardinality(U) <= (Cardinality(A) + 1) * Cardinality(Root)
  BY <1>4, CountIsBounded
<1>6. Cardinality(U) = Cardinality(W) + 1
  BY <1>3, <1>4, <1>5, FS_AddElement
<1>7. Cardinality(V) + Cardinality(U) = c.visited + 1
  BY <1>2, <1>5, <1>6
<1>8. ASSUME NEW d, d.usable = c.usable, d.mapped = c.mapped, d.roots = c.roots \ {r},
             d.visited = c.visited + 1
      PROVE  Counted(d)
  <2>1. V \in SUBSET (InSight(d.usable, d.mapped) \X (Root \ d.roots)) /\ U \in SUBSET (Root \ d.roots)
    BY <1>1, <1>2, <1>3, <1>8
  <2>2. r \in Root \ d.roots /\ \A u : <<u, r>> \notin V
    BY <1>2, <1>8
  <2> QED
    BY <1>7, <1>8, <2>1, <2>2 DEF Counted
<1> QED
  BY <1>1, <1>5, <1>7, <1>8

(* The root that is being walked has not been past its next place.         *)
LEMMA CountedOnce ==
    ASSUME NEW c, Counted(c), c.todo \in Seq(Place), c.todo # <<>>, c.visited \in Nat,
           IsInjective(c.todo), c.todo[1] \in InSight(c.usable, c.mapped)
    PROVE  LET n == (Cardinality(InSight(c.usable, c.mapped)) + 1) * Cardinality(Root) IN
           /\ n \in Nat /\ c.visited + 1 <= n
           /\ \A d : /\ d.usable = c.usable /\ d.mapped = c.mapped /\ d.roots = c.roots
                     /\ d.todo = Tail(c.todo) /\ d.visited = c.visited + 1
                     => Counted(d)
<1>1. PICK u : u = c.todo[1]
  OBVIOUS
<1>2. PICK A \in SUBSET Place : A = InSight(c.usable, c.mapped)
  BY DEF InSight
<1>3. /\ u \in A /\ u \notin ToSet(Tail(c.todo)) /\ ToSet(c.todo) = {u} \cup ToSet(Tail(c.todo))
  BY <1>1, <1>2, HeadAndTail
<1>4. PICK V \in SUBSET (A \X (Root \ c.roots)), W \in SUBSET (Root \ c.roots) :
         /\ Cardinality(V) + Cardinality(W) = c.visited
         /\ \E r \in Root \ c.roots : \A w \in ToSet(c.todo) : <<w, r>> \notin V
  BY <1>2 DEF Counted
<1>5. PICK r \in Root \ c.roots : \A w \in ToSet(c.todo) : <<w, r>> \notin V
  BY <1>4
<1>6. PICK U : U = V \cup {<<u, r>>}
  OBVIOUS
<1>7. U \in SUBSET (A \X (Root \ c.roots)) /\ <<u, r>> \notin V
  BY <1>3, <1>4, <1>5, <1>6
<1>8. U \in SUBSET (A \X Root) /\ V \in SUBSET (A \X Root) /\ W \in SUBSET Root
  BY <1>4, <1>7
<1>9. /\ IsFiniteSet(V) /\ Cardinality(V) \in Nat /\ Cardinality(W) \in Nat
      /\ (Cardinality(A) + 1) * Cardinality(Root) \in Nat
      /\ Cardinality(U) + Cardinality(W) <= (Cardinality(A) + 1) * Cardinality(Root)
  BY <1>8, CountIsBounded
<1>10. Cardinality(U) = Cardinality(V) + 1
  BY <1>6, <1>7, <1>9, FS_AddElement
<1>11. Cardinality(U) + Cardinality(W) = c.visited + 1
  BY <1>4, <1>9, <1>10
<1>12. ASSUME NEW d, d.usable = c.usable, d.mapped = c.mapped, d.roots = c.roots,
              d.todo = Tail(c.todo), d.visited = c.visited + 1
       PROVE  Counted(d)
  <2>1. \A w \in ToSet(d.todo) : <<w, r>> \notin U
    BY <1>3, <1>5, <1>6, <1>12
  <2>2. /\ U \in SUBSET (InSight(d.usable, d.mapped) \X (Root \ d.roots)) /\ r \in Root \ d.roots
        /\ W \in SUBSET (Root \ d.roots)
    BY <1>2, <1>4, <1>7, <1>12
  <2> QED
    BY <1>11, <1>12, <2>1, <2>2 DEF Counted
<1> QED
  BY <1>2, <1>9, <1>11, <1>12

(* The next root: walked, too much, in the way of a sequence, or left out. *)
LEMMA SearchRootStep == ASSUME MediaInv, NEW p \in Searcher, SearchRoot(p) PROVE MediaInv'
<1>1. PICK c, x : c = call[p] /\ x = Current(c)
  OBVIOUS
<1>2. PICK r : r = FirstIn(RootOrder, c.roots)
  OBVIOUS
<1>3. PICK S : S = Searched(c.usable, c.mapped)
  OBVIOUS
<1>4. /\ ResolutionOK(c) /\ (c.since = writes => ResolutionTrue(c) /\ WalkOK(c, x))
      /\ c \in ResolutionRec(c) /\ c.pc = "walk" /\ WorldInv
      /\ c.todo = <<>> /\ c.usable \subseteq Root /\ c.visited \in Nat
      /\ c.roots \in SUBSET Root /\ c.roots \subseteq c.usable /\ c.roots # {}
      /\ x \in c.toResolve /\ x \in DOMAIN c.places
      /\ c.found \cup c.matches \subseteq Kind(x)
  BY <1>1, WalkBetween DEF SearchRoot
<1>5. r \in c.roots /\ r \in Root /\ r \in c.usable
  BY <1>2, <1>4, FirstIsIn, OrdersAssumption
<1>6. r \in S <=> r \in c.mapped /\ Reachable(r)
  BY <1>3, <1>5 DEF Searched
<1>7. Under[r] \in Seq(Place) /\ IsInjective(Under[r]) /\ c.visited + 1 \in Nat
  BY <1>4, <1>5, PlacesAssumption
<1>8. CASE r \in S /\ ~(c.visited + 1 > MaxEntries \/ (x \in SequenceResource /\ TooMany(Declared[x])))
  <2>1. PICK d : d = [c EXCEPT !.roots = @ \ {r}, !.todo = Under[r], !.visited = @ + 1]
    OBVIOUS
  <2>2. /\ d.pc = "walk" /\ d.roots = c.roots \ {r} /\ d.searched = c.searched /\ d.toRead = c.toRead
        /\ d.toResolve = c.toResolve /\ d.places = c.places /\ d.todo = Under[r]
        /\ d.visited = c.visited + 1 /\ d.found = c.found /\ d.matches = c.matches
        /\ d.answers = c.answers /\ d.usable = c.usable /\ d.mapped = c.mapped
        /\ d.verifies = c.verifies /\ d.since = c.since /\ "answers" \in DOMAIN d
    BY <1>4, <2>1 DEF ResolutionRec
  <2>3. d \in ResolutionRec(d)
    BY <1>4, <1>7, <2>1, <2>2 DEF ResolutionRec
  <2>4. WalksOn(c, d)
    BY <2>2, <2>3 DEF WalksOn, SameResolution
  <2>5. ASSUME c.since = writes PROVE WalkOK(d, x)
    <3>1. WalkOK(c, x)
      BY <1>4, <2>5
    <3>2. \A w : w \in Rivals(d, x) <=> w \in Rivals(c, x)
      BY <2>4, SameRivals DEF WalksOn
    <3>3. ASSUME NEW w \in ToCome(c) PROVE w \in ToCome(d)
      <4>1. PICK q \in c.roots \cap S : w \in ToSet(Under[q])
        BY <1>3, <1>4, <3>3, EmptyTodo DEF ToCome
      <4>2. CASE q = r
        BY <2>2, <4>1, <4>2 DEF ToCome
      <4>3. CASE q # r
        BY <1>3, <2>2, <4>1, <4>3 DEF ToCome
      <4> QED
        BY <4>2, <4>3
    <3>4. Rivals(d, x) \subseteq d.matches \cup d.found \cup ToCome(d)
      BY <2>2, <3>1, <3>2, <3>3 DEF WalkOK
    <3>5. \A u \in ToSet(d.todo) : Within(u) \cap Searched(d.usable, d.mapped) # {}
      BY <1>3, <1>5, <1>8, <2>2 DEF Within
    <3>6. IF d.searched THEN d.usable \ d.roots \subseteq Searched(d.usable, d.mapped)
          ELSE d.usable # Searched(d.usable, d.mapped)
      BY <1>3, <1>8, <2>2, <3>1 DEF WalkOK
    <3>7. Counted(d)
      BY <1>4, <1>5, <2>2, <3>1, CountedRoot DEF WalkOK
    <3>8. d.matches \subseteq Rivals(d, x)
      BY <2>2, <3>1, <3>2 DEF WalkOK
    <3> QED
      BY <1>7, <2>2, <3>1, <3>4, <3>5, <3>6, <3>7, <3>8 DEF WalkOK
  <2>6. RecordOK(d)
    BY <1>1, <1>4, <2>2, <2>4, <2>5, WalkedOn
  <2> QED
    BY <1>1, <1>2, <1>6, <1>8, <2>1, <2>6, Continued DEF SearchRoot
<1>9. PICK e : e = Stopped(c)
  OBVIOUS
<1>10. CASE r \notin S /\ x \in SequenceResource
  <2>1. c.usable # Searched(c.usable, c.mapped)
    BY <1>3, <1>5, <1>10
  <2>2. RecordOK(e)
    BY <1>1, <1>4, <1>9, <2>1, StoppedSearch
  <2> QED
    BY <1>1, <1>2, <1>6, <1>9, <1>10, <2>2, Continued DEF SearchRoot
<1>11. CASE r \in S /\ (c.visited + 1 > MaxEntries \/ (x \in SequenceResource /\ TooMany(Declared[x])))
  <2>1. ASSUME c.since = writes, c.visited + 1 > MaxEntries
        PROVE  (Cardinality(InSight(c.usable, c.mapped)) + 1) * Cardinality(Root) > MaxEntries
    <3>1. Counted(c)
      BY <1>4, <2>1 DEF WalkOK
    <3>2. PICK n \in Nat : /\ n = (Cardinality(InSight(c.usable, c.mapped)) + 1) * Cardinality(Root)
                           /\ c.visited + 1 <= n
      BY <1>4, <1>5, <3>1, CountedRoot
    <3>3. n > MaxEntries
      BY <1>4, <2>1, <3>2, EntriesAssumption
    <3> QED
      BY <3>2, <3>3
  <2>2. RecordOK(e)
    BY <1>1, <1>4, <1>9, <1>11, <2>1, StoppedSearch
  <2> QED
    BY <1>1, <1>2, <1>6, <1>9, <1>11, <2>2, Continued DEF SearchRoot
<1>12. CASE r \notin S /\ x \notin SequenceResource
  <2>1. PICK d : d = [c EXCEPT !.roots = @ \ {r}, !.searched = FALSE]
    OBVIOUS
  <2>2. /\ d.pc = "walk" /\ d.roots = c.roots \ {r} /\ d.searched = FALSE /\ d.toRead = c.toRead
        /\ d.toResolve = c.toResolve /\ d.places = c.places /\ d.todo = c.todo
        /\ d.visited = c.visited /\ d.found = c.found /\ d.matches = c.matches
        /\ d.answers = c.answers /\ d.usable = c.usable /\ d.mapped = c.mapped
        /\ d.verifies = c.verifies /\ d.since = c.since /\ "answers" \in DOMAIN d
    BY <1>4, <2>1 DEF ResolutionRec
  <2>3. d \in ResolutionRec(d)
    BY <1>4, <2>1, <2>2 DEF ResolutionRec
  <2>4. WalksOn(c, d)
    BY <2>2, <2>3 DEF WalksOn, SameResolution
  <2>5. ASSUME c.since = writes PROVE WalkOK(d, x)
    <3>1. WalkOK(c, x)
      BY <1>4, <2>5
    <3>2. \A w : w \in Rivals(d, x) <=> w \in Rivals(c, x)
      BY <2>4, SameRivals DEF WalksOn
    <3>3. ASSUME NEW w \in ToCome(c) PROVE w \in ToCome(d)
      <4>1. PICK q \in c.roots \cap S : w \in ToSet(Under[q])
        BY <1>3, <1>4, <3>3, EmptyTodo DEF ToCome
      <4> QED
        BY <1>3, <1>12, <2>2, <4>1 DEF ToCome
    <3>4. Rivals(d, x) \subseteq d.matches \cup d.found \cup ToCome(d)
      BY <2>2, <3>1, <3>2, <3>3 DEF WalkOK
    <3>5. d.usable # Searched(d.usable, d.mapped)
      BY <1>3, <1>5, <1>12, <2>2
    <3>6. Counted(d)
      <4>1. PICK V \in SUBSET (InSight(c.usable, c.mapped) \X (Root \ c.roots)),
                 W \in SUBSET (Root \ c.roots) : Cardinality(V) + Cardinality(W) = c.visited
        BY <3>1 DEF WalkOK, Counted
      <4>2. /\ V \in SUBSET (InSight(d.usable, d.mapped) \X (Root \ d.roots))
            /\ W \in SUBSET (Root \ d.roots)
        BY <2>2, <4>1
      <4> QED
        BY <1>4, <2>2, <4>1, <4>2 DEF Counted
    <3>7. d.matches \subseteq Rivals(d, x)
      BY <2>2, <3>1, <3>2 DEF WalkOK
    <3> QED
      BY <2>2, <3>1, <3>4, <3>5, <3>6, <3>7 DEF WalkOK
  <2>6. RecordOK(d)
    BY <1>1, <1>4, <2>2, <2>4, <2>5, WalkedOn
  <2> QED
    BY <1>1, <1>2, <1>6, <1>12, <2>1, <2>6, Continued DEF SearchRoot
<1> QED
  BY <1>8, <1>12, <1>10, <1>11

(* A file has the size of what it bears.                                   *)
LEMMA BearersHaveTheSize ==
    ASSUME WorldInv, NEW x \in Imported, NEW u \in File, Present(u), Bears(u, x)
    PROVE  /\ x \notin SequenceResource /\ Size(u) = SizeOf[original[x]]
           /\ original[x] \in HashedInFull => disk[u].version = original[x]
<1>1. u \in Kind(x) /\ Digest(u) = PrintOf(x)
  BY DEF Bears
<1>2. x \notin SequenceResource
  BY <1>1, KindsAssumption DEF Kind
<1>3. u \in Place /\ disk[u].version \in FileVersion
  BY DEF WorldInv, VersionsOf, Present, Place
<1>4. original[x] \in FileVersion
  BY <1>2 DEF WorldInv, ContentOf, Imported
<1> QED
  BY <1>1, <1>2, <1>3, <1>4, DigestAssumption DEF Digest, PrintOf, Size

(* A place behind the walk: not there, noted, or not what is looked for.   *)
LEMMA PassedPlace ==
    ASSUME WorldInv, NEW c, NEW x, WalkOK(c, x), c.todo \in Seq(Place), c.todo # <<>>,
           c.visited \in Nat,
           NEW d, WalksOn(c, d), d.roots = c.roots, d.searched = c.searched,
           d.todo = Tail(c.todo),
           \/ d.visited = c.visited /\ ~Present(c.todo[1])
           \/ d.visited = c.visited + 1 /\ Present(c.todo[1]),
           c.found \subseteq d.found, c.matches \subseteq d.matches,
           d.found \ c.found \subseteq {c.todo[1]} \cap File,
           d.matches \ c.matches \subseteq {c.todo[1]} \cap Rivals(c, x),
           d.found \subseteq c.found \/ Present(c.todo[1]),
           c.todo[1] \in Rivals(c, x) => c.todo[1] \in d.found \cup d.matches
    PROVE  WalkOK(d, x)
<1>1. PICK u : u = c.todo[1]
  OBVIOUS
<1>2. PICK A, S : A = InSight(c.usable, c.mapped) /\ S = Searched(c.usable, c.mapped)
  OBVIOUS
<1>3. PICK R : R = Rivals(c, x)
  OBVIOUS
<1>4. InSight(d.usable, d.mapped) = A /\ Searched(d.usable, d.mapped) = S /\ Rivals(d, x) = R
  BY <1>2, <1>3, SameRivals DEF WalksOn
<1>5. d.usable = c.usable /\ d.mapped = c.mapped /\ d.places = c.places
  BY DEF WalksOn, SameResolution
<1>6. /\ u \in Place /\ ToSet(c.todo) = {u} \cup ToSet(d.todo) /\ IsInjective(d.todo)
  BY <1>1, HeadAndTail DEF WalkOK
<1>7. Within(u) \cap S # {} /\ \A w \in ToSet(d.todo) : Within(w) \cap S # {}
  BY <1>2, <1>6 DEF WalkOK
<1>8. Present(u) => u \in A
  BY <1>2, <1>6, <1>7 DEF InSight
<1>9. d.matches \subseteq R
  BY <1>3 DEF WalkOK
<1>10. \A w \in d.found : w \in A \cap File
  BY <1>1, <1>2, <1>8 DEF WalkOK
<1>11. R \subseteq d.matches \cup d.found \cup ToCome(d)
  <2>1. ASSUME NEW w \in R, w \notin d.matches, w \notin d.found PROVE w \in ToCome(d)
    <3>1. w \in ToCome(c) /\ w # u
      BY <1>1, <1>3, <2>1 DEF WalkOK
    <3> QED
      BY <1>5, <1>6, <3>1 DEF ToCome
  <2> QED
    BY <2>1
<1>12. Counted(d)
  <2>1. CASE d.visited = c.visited
    <3>1. PICK V \in SUBSET (A \X (Root \ c.roots)), W \in SUBSET (Root \ c.roots) :
             /\ Cardinality(V) + Cardinality(W) = c.visited
             /\ \E r \in Root \ c.roots : \A w \in ToSet(c.todo) : <<w, r>> \notin V
      BY <1>2 DEF WalkOK, Counted
    <3>2. \E r \in Root \ d.roots : \A w \in ToSet(d.todo) : <<w, r>> \notin V
      BY <1>6, <3>1
    <3> QED
      BY <1>4, <2>1, <3>1, <3>2 DEF Counted
  <2>2. CASE d.visited = c.visited + 1 /\ Present(u)
    <3>1. c.todo[1] \in InSight(c.usable, c.mapped)
      BY <1>1, <1>2, <1>8, <2>2
    <3>2. Counted(c) /\ IsInjective(c.todo)
      BY DEF WalkOK
    <3> QED
      BY <1>5, <2>2, <3>1, <3>2, CountedOnce
  <2> QED
    BY <1>1, <2>1, <2>2
<1>13. IF d.searched THEN d.usable \ d.roots \subseteq S ELSE d.usable # S
  BY <1>2, <1>5 DEF WalkOK
<1>14. \A w \in d.places[x] : ~Present(w)
  BY <1>5 DEF WalkOK
<1> QED
  BY <1>4, <1>6, <1>7, <1>9, <1>10, <1>11, <1>12, <1>13, <1>14 DEF WalkOK

(* Every branch of a visit, the bound of entries among them.               *)
LEMMA VisitPlaceStep == ASSUME MediaInv, NEW p \in Searcher, VisitPlace(p) PROVE MediaInv'
<1>1. PICK c, x : c = call[p] /\ x = Current(c)
  OBVIOUS
<1>2. PICK u : u = c.todo[1]
  OBVIOUS
<1>3. /\ ResolutionOK(c) /\ (c.since = writes => ResolutionTrue(c) /\ WalkOK(c, x))
      /\ c \in ResolutionRec(c) /\ c.pc = "walk" /\ WorldInv
      /\ c.todo \in Seq(Place) /\ c.todo # <<>> /\ c.visited \in Nat
      /\ x \in c.toResolve /\ x \in DOMAIN c.places /\ x \in Imported
      /\ c.found \cup c.matches \subseteq Kind(x) /\ Kind(x) \subseteq Place
  BY <1>1, WalkBetween DEF VisitPlace
<1>4. u = Head(c.todo) /\ u \in Place /\ Tail(c.todo) \in Seq(Place)
  BY <1>2, <1>3, HeadAndTail
<1>5. PICK next : next = [c EXCEPT !.todo = Tail(@), !.visited = @ + 1]
  OBVIOUS
<1>6. next.visited = c.visited + 1
  BY <1>3, <1>5 DEF ResolutionRec
<1>7. Continue(p,
         IF ~Present(u) THEN [c EXCEPT !.todo = Tail(@)]
         ELSE IF next.visited > MaxEntries THEN Stopped(c)
         ELSE IF u \notin Kind(x) THEN next
         ELSE IF u \in File
              THEN IF Size(u) = SizeOf[original[x]] THEN [next EXCEPT !.found = @ \union {u}] ELSE next
         ELSE IF TooMany(Missing(x, u)) THEN Stopped(c)
         ELSE IF Missing(x, u) = {} /\ Digest(u) = PrintOf(x) THEN [next EXCEPT !.matches = @ \union {u}]
         ELSE next)
  BY <1>1, <1>4, <1>5 DEF VisitPlace
(* The record after a place that was passed. *)
<1>8. ASSUME NEW visited \in {c.visited, c.visited + 1}, NEW found \in {c.found, c.found \cup {u}},
             NEW matches \in {c.matches, c.matches \cup {u}},
             visited = c.visited => ~Present(u), visited = c.visited + 1 => Present(u),
             found = c.found \/ (Present(u) /\ u \in File \cap Kind(x)),
             matches = c.matches \/ (u \in Kind(x) /\ (c.since = writes => u \in Rivals(c, x))),
             c.since = writes /\ u \in Rivals(c, x) => u \in found \cup matches,
             NEW d, d = [c EXCEPT !.todo = Tail(c.todo), !.visited = visited, !.found = found,
                                  !.matches = matches]
      PROVE  RecordOK(d)
  <2>1. /\ d.pc = "walk" /\ d.roots = c.roots /\ d.searched = c.searched /\ d.toRead = c.toRead
        /\ d.toResolve = c.toResolve /\ d.places = c.places /\ d.todo = Tail(c.todo)
        /\ d.visited = visited /\ d.found = found /\ d.matches = matches
        /\ d.answers = c.answers /\ d.usable = c.usable /\ d.mapped = c.mapped
        /\ d.verifies = c.verifies /\ d.since = c.since /\ "answers" \in DOMAIN d
    BY <1>3, <1>8 DEF ResolutionRec
  <2>2. visited \in Nat /\ found \in SUBSET Place /\ matches \in SUBSET Place
    BY <1>3, <1>4, <1>8
  <2>3. d \in ResolutionRec(d)
    BY <1>3, <1>4, <1>8, <2>1, <2>2 DEF ResolutionRec
  <2>4. WalksOn(c, d)
    BY <2>1, <2>3 DEF WalksOn, SameResolution
  <2>5. d.found \cup d.matches \subseteq Kind(x)
    BY <1>3, <1>8, <2>1
  <2>6. ASSUME c.since = writes PROVE WalkOK(d, x)
    <3>1. WalkOK(c, x)
      BY <1>3, <2>6
    <3>2. \/ d.visited = c.visited /\ ~Present(u)
          \/ d.visited = c.visited + 1 /\ Present(u)
      BY <1>8, <2>1
    <3>3. /\ c.found \subseteq d.found /\ c.matches \subseteq d.matches
          /\ d.found \ c.found \subseteq {u} \cap File
          /\ d.matches \ c.matches \subseteq {u} \cap Rivals(c, x)
          /\ d.found \subseteq c.found \/ Present(u)
          /\ u \in Rivals(c, x) => u \in d.found \cup d.matches
      BY <1>8, <2>1, <2>6
    <3> QED
      BY <1>2, <1>3, <2>1, <2>4, <3>1, <3>2, <3>3, PassedPlace
  <2> QED
    BY <1>1, <1>3, <2>4, <2>5, <2>6, WalkedOn
<1>9. CASE ~Present(u)
  <2>1. PICK d : d = [c EXCEPT !.todo = Tail(c.todo)]
    OBVIOUS
  <2>2. d = [c EXCEPT !.todo = Tail(c.todo), !.visited = c.visited, !.found = c.found, !.matches = c.matches]
    BY <1>3, <2>1 DEF ResolutionRec
  <2>3. u \notin Rivals(c, x) /\ c.visited # c.visited + 1
    BY <1>3, <1>9 DEF Rivals, InSight
  <2>4. RecordOK(d)
    BY <1>8, <1>9, <2>2, <2>3
  <2> QED
    BY <1>7, <1>9, <2>1, <2>4, Continued
<1>10. CASE Present(u) /\ next.visited > MaxEntries
  <2>1. PICK d : d = Stopped(c)
    OBVIOUS
  <2>2. ASSUME c.since = writes
        PROVE  (Cardinality(InSight(c.usable, c.mapped)) + 1) * Cardinality(Root) > MaxEntries
    <3>1. /\ Counted(c) /\ IsInjective(c.todo)
          /\ \A w \in ToSet(c.todo) : Within(w) \cap Searched(c.usable, c.mapped) # {}
      BY <1>3, <2>2 DEF WalkOK
    <3>2. u \in ToSet(c.todo)
      BY <1>2, <1>3, HeadAndTail
    <3>3. c.todo[1] \in InSight(c.usable, c.mapped)
      BY <1>2, <1>4, <1>10, <3>1, <3>2 DEF InSight
    <3>4. PICK n \in Nat : /\ n = (Cardinality(InSight(c.usable, c.mapped)) + 1) * Cardinality(Root)
                           /\ c.visited + 1 <= n
      BY <1>3, <3>1, <3>3, CountedOnce
    <3>5. n > MaxEntries
      BY <1>3, <1>6, <1>10, <3>4, EntriesAssumption
    <3> QED
      BY <3>4, <3>5
  <2>3. RecordOK(d)
    BY <1>1, <1>3, <2>1, <2>2, StoppedSearch
  <2> QED
    BY <1>7, <1>10, <2>1, <2>3, Continued
<1>11. CASE /\ Present(u) /\ ~(next.visited > MaxEntries) /\ u \in Kind(x) \ File
            /\ TooMany(Missing(x, u))
  <2>1. PICK d : d = Stopped(c)
    OBVIOUS
  <2>2. x \in SequenceResource
    BY <1>11 DEF Kind
  <2>3. TooMany(Declared[x])
    BY <1>11, <2>2, TooManyMissing
  <2>4. RecordOK(d)
    BY <1>1, <1>3, <2>1, <2>2, <2>3, StoppedSearch
  <2> QED
    BY <1>7, <1>11, <2>1, <2>4, Continued
<1>12. next = [c EXCEPT !.todo = Tail(c.todo), !.visited = c.visited + 1, !.found = c.found,
                        !.matches = c.matches]
  BY <1>3, <1>5 DEF ResolutionRec
<1>13. CASE Present(u) /\ ~(next.visited > MaxEntries) /\ u \in Kind(x) \cap File /\ Size(u) = SizeOf[original[x]]
  <2>1. PICK d : d = [next EXCEPT !.found = @ \union {u}]
    OBVIOUS
  <2>2. d = [c EXCEPT !.todo = Tail(c.todo), !.visited = c.visited + 1, !.found = c.found \cup {u},
                      !.matches = c.matches]
    BY <1>3, <1>12, <2>1 DEF ResolutionRec
  <2>3. c.visited # c.visited + 1
    BY <1>3
  <2>4. RecordOK(d)
    BY <1>8, <1>13, <2>2, <2>3
  <2> QED
    BY <1>7, <1>13, <2>1, <2>4, Continued
<1>14. CASE /\ Present(u) /\ ~(next.visited > MaxEntries) /\ u \in Kind(x) \ File
            /\ ~TooMany(Missing(x, u)) /\ Missing(x, u) = {} /\ Digest(u) = PrintOf(x)
  <2>1. PICK d : d = [next EXCEPT !.matches = @ \union {u}]
    OBVIOUS
  <2>2. d = [c EXCEPT !.todo = Tail(c.todo), !.visited = c.visited + 1, !.found = c.found,
                      !.matches = c.matches \cup {u}]
    BY <1>3, <1>12, <2>1 DEF ResolutionRec
  <2>3. c.visited # c.visited + 1
    BY <1>3
  <2>4. ASSUME c.since = writes PROVE u \in Rivals(c, x)
    <3>1. u \in ToSet(c.todo)
      BY <1>2, <1>3, HeadAndTail
    <3>2. u \in InSight(c.usable, c.mapped)
      BY <1>3, <1>4, <1>14, <2>4, <3>1 DEF WalkOK, InSight
    <3> QED
      BY <1>14, <3>2 DEF Rivals, Bears, Complete
  <2>5. RecordOK(d)
    BY <1>8, <1>14, <2>2, <2>3, <2>4
  <2> QED
    BY <1>7, <1>14, <2>1, <2>5, Continued
<1>15. CASE /\ Present(u) /\ ~(next.visited > MaxEntries)
            /\ \/ u \notin Kind(x)
               \/ u \in Kind(x) \cap File /\ Size(u) # SizeOf[original[x]]
               \/ /\ u \in Kind(x) \ File /\ ~TooMany(Missing(x, u))
                  /\ ~(Missing(x, u) = {} /\ Digest(u) = PrintOf(x))
  <2>1. c.visited # c.visited + 1
    BY <1>3
  <2>2. u \notin Rivals(c, x)
    <3>1. CASE u \notin Kind(x)
      BY <3>1 DEF Rivals, Bears
    <3>2. CASE u \in Kind(x) \cap File /\ Size(u) # SizeOf[original[x]]
      <4>1. ~Bears(u, x)
        BY <1>3, <1>15, <3>2, BearersHaveTheSize
      <4> QED
        BY <4>1 DEF Rivals
    <3>3. CASE u \in Kind(x) \ File /\ ~(Missing(x, u) = {} /\ Digest(u) = PrintOf(x))
      <4>1. x \in SequenceResource
        BY <3>3 DEF Kind
      <4> QED
        BY <3>3, <4>1 DEF Rivals, Bears, Complete
    <3> QED
      BY <1>15, <3>1, <3>2, <3>3
  <2>3. PICK d : d = next
    OBVIOUS
  <2>4. RecordOK(d)
    BY <1>8, <1>12, <1>15, <2>1, <2>2, <2>3
  <2> QED
    BY <1>7, <1>15, <2>3, <2>4, Continued
<1> QED
  BY <1>9, <1>10, <1>13, <1>14, <1>15, <1>11

(* One more file of the right size is compared.                            *)
LEMMA CompareStep == ASSUME MediaInv, NEW p \in Searcher, Compare(p) PROVE MediaInv'
<1>1. PICK c, x : c = call[p] /\ x = Current(c)
  OBVIOUS
<1>2. PICK u : u = FirstOf(c.found)
  OBVIOUS
<1>3. /\ ResolutionOK(c) /\ (c.since = writes => ResolutionTrue(c) /\ WalkOK(c, x))
      /\ c \in ResolutionRec(c) /\ c.pc = "walk" /\ WorldInv
      /\ c.todo = <<>> /\ c.roots = {} /\ c.found # {}
      /\ x \in c.toResolve /\ x \in DOMAIN c.places /\ x \in Imported
      /\ c.found \cup c.matches \subseteq Kind(x) /\ Kind(x) \subseteq Place
  BY <1>1, WalkBetween DEF Compare
<1>4. u \in c.found /\ u \in Kind(x) /\ u \in Place
  <2>1. c.found \in SUBSET Place
    BY <1>3
  <2>2. u \in c.found
    BY <1>2, <1>3, <2>1, FirstPlace
  <2> QED
    BY <1>3, <2>2
<1>5. CASE ~Present(u)
  <2>1. PICK d : d = Settle(c, Failed)
    OBVIOUS
  <2>2. SettledTo(c, d, Failed)
    BY <1>1, <1>3, <2>1, FailedAnswer, SettledFields
  <2>3. c.since # writes
    BY <1>3, <1>4, <1>5 DEF WalkOK, InSight
  <2>4. RecordOK(d)
    BY <1>1, <1>3, <2>2, <2>3, FailedAnswer, SettledResource
  <2> QED
    BY <1>1, <1>2, <1>5, <2>1, <2>4, Continued DEF Compare
<1>6. CASE Present(u)
  <2>1. PICK matches \in {c.matches, c.matches \cup {u}} :
           matches = IF Digest(u) = PrintOf(x) THEN c.matches \cup {u} ELSE c.matches
    OBVIOUS
  <2>2. PICK d : d = [c EXCEPT !.found = c.found \ {u}, !.matches = matches]
    OBVIOUS
  <2>3. /\ d.pc = "walk" /\ d.roots = c.roots /\ d.searched = c.searched /\ d.toRead = c.toRead
        /\ d.toResolve = c.toResolve /\ d.places = c.places /\ d.todo = c.todo
        /\ d.visited = c.visited /\ d.found = c.found \ {u} /\ d.matches = matches
        /\ d.answers = c.answers /\ d.usable = c.usable /\ d.mapped = c.mapped
        /\ d.verifies = c.verifies /\ d.since = c.since /\ "answers" \in DOMAIN d
    BY <1>3, <2>2 DEF ResolutionRec
  <2>4. d.found \cup d.matches \subseteq Kind(x) /\ matches \in SUBSET Place /\ c.found \ {u} \in SUBSET Place
    BY <1>3, <1>4, <2>1, <2>3
  <2>5. d \in ResolutionRec(d)
    BY <1>3, <2>2, <2>3, <2>4 DEF ResolutionRec
  <2>6. WalksOn(c, d)
    BY <2>3, <2>5 DEF WalksOn, SameResolution
  <2>7. ASSUME c.since = writes PROVE WalkOK(d, x)
    <3>1. WalkOK(c, x)
      BY <1>3, <2>7
    <3>2. \A w : w \in Rivals(d, x) <=> w \in Rivals(c, x)
      BY <2>6, SameRivals DEF WalksOn
    <3>3. u \in InSight(c.usable, c.mapped) \cap File
      BY <1>4, <3>1 DEF WalkOK
    <3>4. Digest(u) = PrintOf(x) => u \in Rivals(c, x)
      <4>1. x \notin SequenceResource
        BY <1>4, <3>3, KindsAssumption DEF Kind
      <4> QED
        BY <1>4, <3>3, <4>1 DEF Rivals, Bears, Complete
    <3>5. d.matches \subseteq Rivals(d, x)
      BY <2>1, <2>3, <3>1, <3>2, <3>4 DEF WalkOK
    <3>6. u \in Rivals(c, x) => u \in d.matches
      BY <2>1, <2>3 DEF Rivals, Bears
    <3>7. ToCome(d) = ToCome(c)
      BY <2>3 DEF ToCome
    <3>8. Rivals(d, x) \subseteq d.matches \cup d.found \cup ToCome(d)
      <4>1. ASSUME NEW w \in Rivals(c, x), w # u PROVE w \in d.matches \cup d.found \cup ToCome(d)
        BY <2>1, <2>3, <3>1, <3>7, <4>1 DEF WalkOK
      <4> QED
        BY <3>2, <3>6, <4>1
    <3>9. Counted(d)
      BY <2>3, <3>1 DEF WalkOK, Counted
    <3> QED
      BY <2>3, <3>1, <3>5, <3>8, <3>9 DEF WalkOK
  <2>8. RecordOK(d)
    BY <1>1, <1>3, <2>4, <2>6, <2>7, WalkedOn
  <2>9. d = [c EXCEPT !.found = @ \ {u}, !.matches = IF Digest(u) = PrintOf(x) THEN @ \union {u} ELSE @]
    BY <2>1, <2>2
  <2> QED
    BY <1>1, <1>2, <1>6, <2>8, <2>9, Continued DEF Compare
<1> QED
  BY <1>5, <1>6

(* After a walk the matches are exactly the rivals.                        *)
LEMMA VerdictIsTrue ==
    ASSUME WorldInv, NEW c, NEW x \in Imported, WalkOK(c, x), c.todo = <<>>, c.roots = {},
           c.found = {}, NEW a, a = Verdict(c, x),
           NEW d, SameResolution(c, d), d.places = c.places, d.answers[x] = a
    PROVE  AnswerTold(d, x)
<1>1. PICK A, S, R : A = InSight(c.usable, c.mapped) /\ S = Searched(c.usable, c.mapped) /\ R = Rivals(c, x)
  OBVIOUS
<1>2. InSight(d.usable, d.mapped) = A /\ Searched(d.usable, d.mapped) = S /\ Rivals(d, x) = R
  BY <1>1, SameRivals
<1>3. ToCome(c) = {}
  BY EmptyTodo DEF ToCome
<1>4. c.matches = R
  BY <1>1, <1>3 DEF WalkOK
<1>5. IsFiniteSet(R) /\ Cardinality(R) \in Nat
  <2>1. R \subseteq Place
    BY <1>1 DEF Rivals, InSight
  <2> QED
    BY <2>1, PlacesAreFinite, FS_Subset, FS_CardinalityType
<1>6. d.usable = c.usable /\ (c.searched <=> c.usable = S)
  <2>1. S \subseteq c.usable
    BY <1>1 DEF Searched
  <2>2. IF c.searched THEN c.usable \subseteq S ELSE c.usable # S
    BY <1>1 DEF WalkOK
  <2> QED
    BY <2>1, <2>2 DEF SameResolution
<1>7. CASE R = {} /\ c.searched
  <2>1. a.state = "offline"
    BY <1>4, <1>7 DEF Verdict, Answer
  <2>2. \A u \in d.places[x] : ~Present(u)
    BY DEF WalkOK
  <2> QED
    BY <1>2, <1>6, <1>7, <2>1, <2>2 DEF AnswerTold, AnswerIsTrue
<1>8. CASE R = {} /\ ~c.searched
  <2>1. a.state = "error"
    BY <1>4, <1>8, FailedAnswer DEF Verdict
  <2> QED
    BY <1>2, <1>6, <1>8, <2>1 DEF AnswerTold, AnswerIsTrue
<1>9. CASE R # {} /\ Cardinality(R) > 1
  <2>1. a.state = "ambiguous" /\ a.candidates = R
    BY <1>4, <1>9 DEF Verdict, Answer
  <2> QED
    BY <1>2, <1>9, <2>1 DEF AnswerTold, AnswerIsTrue
<1>10. CASE R # {} /\ ~(Cardinality(R) > 1)
  <2>1. PICK u : R = {u}
    <3>1. PICK u \in R : TRUE
      BY <1>10
    <3>2. \A w \in R : w = u
      BY <1>5, <1>10, <3>1, MoreThanOne
    <3> QED
      BY <3>1, <3>2
  <2>2. Cardinality(R) = 1
    BY <2>1, FS_Singleton
  <2>3. a.state = (IF Certain(x) THEN "exact" ELSE "probable") /\ a.candidates = R
    BY <1>4, <1>10 DEF Verdict, Answer
  <2>4. CASE Certain(x)
    <3>1. u \in Place /\ Present(u) /\ Bears(u, x)
      BY <1>1, <2>1 DEF Rivals, InSight
    <3>2. u \in File /\ original[x] \in HashedInFull
      BY <2>4, <3>1 DEF Bears, Kind, Certain
    <3>3. disk[u].version = original[x]
      BY <3>1, <3>2, BearersHaveTheSize
    <3> QED
      BY <1>2, <2>1, <2>3, <2>4, <3>3 DEF AnswerTold, AnswerIsTrue
  <2>5. CASE ~Certain(x)
    BY <1>2, <2>2, <2>3, <2>5 DEF AnswerTold, AnswerIsTrue
  <2> QED
    BY <2>4, <2>5
<1> QED
  BY <1>7, <1>8, <1>9, <1>10

LEMMA VerdictIsAnAnswer ==
    ASSUME NEW c, c.matches \in SUBSET Place, NEW x
    PROVE  Verdict(c, x) \in AnswerRec /\ Verdict(c, x).candidates \subseteq c.matches
<1>1. {} \in SUBSET Frame /\ {} \in SUBSET Place
  OBVIOUS
<1>2. Verdict(c, x) \in {Failed, Answer("offline", {}, {}), Answer("ambiguous", c.matches, {}),
                         Answer("exact", c.matches, {}), Answer("probable", c.matches, {})}
  BY DEF Verdict
<1>3. ASSUME NEW state \in States, NEW named \in {{}, c.matches}, NEW a, a = Answer(state, named, {})
      PROVE  a \in AnswerRec /\ a.candidates \subseteq c.matches
  BY <1>1, <1>3, AnswerIs
<1>4. Failed \in AnswerRec /\ Failed.candidates \subseteq c.matches
  BY FailedAnswer
<1> QED
  BY <1>2, <1>3, <1>4 DEF States

LEMMA ConcludeStep == ASSUME MediaInv, NEW p \in Searcher, Conclude(p) PROVE MediaInv'
<1>1. PICK c, x : c = call[p] /\ x = Current(c)
  OBVIOUS
<1>2. PICK a : a = Verdict(c, x)
  OBVIOUS
<1>3. /\ ResolutionOK(c) /\ (c.since = writes => ResolutionTrue(c) /\ WalkOK(c, x))
      /\ c \in ResolutionRec(c) /\ WorldInv
      /\ c.todo = <<>> /\ c.roots = {} /\ c.found = {}
      /\ x \in c.toResolve /\ x \in DOMAIN c.places /\ x \in Imported
      /\ c.matches \subseteq Kind(x) /\ Kind(x) \subseteq Place
  BY <1>1, WalkBetween DEF Conclude
<1>4. a \in AnswerRec /\ a.candidates \subseteq Kind(x)
  BY <1>2, <1>3, VerdictIsAnAnswer
<1>5. PICK d : d = Settle(c, a)
  OBVIOUS
<1>6. SettledTo(c, d, a)
  BY <1>1, <1>3, <1>4, <1>5, SettledFields
<1>7. c.since = writes => AnswerTold(d, x)
  BY <1>1, <1>2, <1>3, <1>6, VerdictIsTrue DEF SettledTo
<1>8. RecordOK(d)
  BY <1>1, <1>3, <1>4, <1>6, <1>7, SettledResource
<1> QED
  BY <1>1, <1>2, <1>5, <1>8, Continued DEF Conclude

(* A candidate is of the kind of its resource, so it may be recorded.      *)
LEMMA ConfirmStep ==
    ASSUME MediaInv, NEW p \in Searcher, NEW u \in Place, Confirm(p, u) PROVE MediaInv'
<1>1. PICK c : c = call[p]
  OBVIOUS
<1>2. ResolutionOK(c) /\ WorldInv
  BY <1>1, IsResolution DEF Confirm, Resolving, MediaInv
<1>3. PICK x \in DOMAIN c.answers : u \in c.answers[x].candidates /\ AddLocator(x, u)
  BY <1>1 DEF Confirm
<1>4. x \in Resource /\ u \in Kind(x)
  BY <1>2, <1>3 DEF ResolutionOK, Imported
<1>5. Onward
  BY <1>2, <1>3, <1>4, LocatorsOnward
<1> QED
  BY <1>5, OneRecord DEF Confirm, RecordOK

LEMMA ResolveStep == MediaInv /\ ResolveNext => MediaInv'
<1> SUFFICES ASSUME MediaInv, ResolveNext PROVE MediaInv'
  OBVIOUS
<1>1. ASSUME NEW p \in Searcher, NEW readsAll \in BOOLEAN, NEW verifies \in BOOLEAN,
             NEW mapped \in Mappings, BeginResolve(p, readsAll, verifies, mapped)
      PROVE  MediaInv'
  BY <1>1, BeginResolveStep
<1>2. ASSUME NEW p \in Searcher,
             \/ ReadLocators(p) \/ CheckKnown(p) \/ VerifyKnown(p) \/ SearchRoot(p)
             \/ VisitPlace(p) \/ Compare(p) \/ Conclude(p)
      PROVE  MediaInv'
  BY <1>2, ReadLocatorsStep, CheckKnownStep, VerifyKnownStep, SearchRootStep, VisitPlaceStep,
     CompareStep, ConcludeStep
<1>3. ASSUME NEW p \in Searcher, EndResolve(p) PROVE MediaInv'
  BY <1>3, EndStep DEF EndResolve
<1>4. ASSUME NEW p \in Searcher, NEW u \in Place, Confirm(p, u) PROVE MediaInv'
  BY <1>4, ConfirmStep
<1> QED
  BY <1>1, <1>2, <1>3, <1>4 DEF ResolveNext

LEMMA NothingHappens == MediaInv /\ UNCHANGED mediaVars => MediaInv'
<1> SUFFICES ASSUME MediaInv, UNCHANGED mediaVars PROVE MediaInv'
  OBVIOUS
<1>1. UNCHANGED world /\ call' = call /\ cacheFile' = cacheFile /\ tmpFile' = tmpFile
  BY DEF mediaVars, processes
<1>2. Onward
  BY <1>1, SameWorld DEF MediaInv
<1>3. PICK f, g : f = cacheFile /\ g = tmpFile
  OBVIOUS
<1>4. DOMAIN call' = Searcher /\ \A q \in Searcher : \E d : d = call'[q] /\ RecordOK(d)
  BY <1>1 DEF MediaInv
<1> QED
  BY <1>1, <1>2, <1>3, <1>4, AllRecords DEF MediaInv

LEMMA MediaStep == MediaInv /\ [ResolverNext]_mediaVars => MediaInv'
BY WorldStep, InventoryStep, ResolveStep, NothingHappens DEF ResolverNext

(* Whatever happens to the files, the cache and the catalogue between the  *)
(* steps of a scan or a resolution, the record of every process stays      *)
(* sound: the entries that a scan holds and caches vouch for what they say,*)
(* and what a walk has noted and what it has still to come past is         *)
(* everything in sight.                                                    *)
THEOREM MediaStaysSound == ResolverSpec => []MediaInv
<1>1. MediaInit => MediaInv
  BY MediaStarts
<1> QED
  BY <1>1, MediaStep, PTL DEF ResolverSpec

(* media scan, with any number of files, roots, resources and processes:   *)
(* after a scan during which no file changed, every file in sight at a     *)
(* known locator is called online or changed, every other one is a match   *)
(* or called new, matches in two places are called duplicates and a        *)
(* resource is called missing exactly when nothing is at its locators and  *)
(* no file in sight at no known locator has its content.  This excepts     *)
(* what an entry of the cache with the size and stamp of a file does not   *)
(* vouch for: one that was never read hides what the file is, one that was *)
(* read from another file may also make it something else.                 *)
THEOREM ScansAreTruthful == ResolverSpec => []ScanIsTruthful
<1>1. MediaInv => ScanIsTruthful
  <2> SUFFICES ASSUME MediaInv PROVE ScanIsTruthful
    OBVIOUS
  <2>1. ASSUME NEW p \in Searcher, NEW c, c = call[p], "seen" \in DOMAIN c, c.pc = "done",
               c.since = writes
        PROVE  ReportIsTrue(c)
    <3>1. ScanTrue(c)
      BY <2>1, IsScan DEF MediaInv
    <3> QED
      BY <2>1, <3>1 DEF ScanTrue
  <2> QED
    BY <2>1 DEF ScanIsTruthful, Scanning
<1> QED
  BY <1>1, MediaStaysSound, PTL

(* An available representation has its required members.                   *)
LEMMA AvailableIsComplete ==
    ASSUME NEW c, NEW rep \in Representation,
           \A x \in DOMAIN c.answers : c.answers[x] \in AnswerRec /\ AnswerTold(c, x),
           ToSet(MembersOf[rep]) \subseteq DOMAIN c.answers,
           Availability(c.answers, rep) = "online",
           NEW x \in ToSet(MembersOf[rep]) \cap Required
    PROVE  \E u \in c.answers[x].candidates : Present(u) /\ Complete(u, x)
<1>1. PICK a : a = c.answers[x]
  OBVIOUS
<1>2. a \in AnswerRec /\ AnswerTold(c, x) /\ AnswerIsTrue(c, x)
  BY <1>1 DEF AnswerTold
<1>3. /\ a.state \notin {"error", "ambiguous", "offline"} /\ a.frames = {}
  <2>1. PICK required : required = ToSet(MembersOf[rep]) \cap Required
    OBVIOUS
  <2>2. /\ {y \in required : c.answers[y].state \in {"error"}} = {}
        /\ {y \in required : c.answers[y].state \in {"ambiguous"}} = {}
        /\ {y \in required : c.answers[y].state \in {"offline"}} = {}
        /\ ~\E y \in ToSet(MembersOf[rep]) : c.answers[y].frames # {}
    BY <2>1 DEF Availability
  <2> QED
    BY <1>1, <2>1, <2>2
<1>4. a.state \in {"online", "exact", "probable"}
  BY <1>2, <1>3 DEF AnswerRec, States
<1>5. CASE a.state = "online"
  <2>1. PICK u \in c.places[x] : a.candidates = {u} /\ Present(u)
    BY <1>1, <1>2, <1>5 DEF AnswerIsTrue
  <2>2. x \in SequenceResource => Missing(x, u) = {}
    BY <1>1, <1>2, <1>3, <1>5, <2>1 DEF AnswerTold
  <2> QED
    BY <1>1, <2>1, <2>2 DEF Complete
<1>6. CASE a.state = "exact"
  <2>1. PICK u : a.candidates = {u} /\ a.candidates = Rivals(c, x)
    BY <1>1, <1>2, <1>6 DEF AnswerIsTrue
  <2> QED
    BY <1>1, <2>1 DEF Rivals, InSight
<1>7. CASE a.state = "probable"
  <2>1. a.candidates = Rivals(c, x) /\ Cardinality(a.candidates) = 1
    BY <1>1, <1>2, <1>7 DEF AnswerIsTrue
  <2>2. a.candidates # {}
    BY <2>1, FS_EmptySet
  <2> QED
    BY <1>1, <2>1, <2>2 DEF Rivals, InSight
<1> QED
  BY <1>4, <1>5, <1>6, <1>7

(* media resolve: every answer of a resolution during which no file changed*)
(* is true of the files, whatever was committed to the production          *)
(* meanwhile, and a representation that is said to be online has every     *)
(* required member.                                                        *)
THEOREM RelinksAreTruthful == ResolverSpec => []RelinkIsTruthful
<1>1. MediaInv => RelinkIsTruthful
  <2> SUFFICES ASSUME MediaInv PROVE RelinkIsTruthful
    OBVIOUS
  <2>1. ASSUME NEW p \in Searcher, NEW c, c = call[p], "answers" \in DOMAIN c, c.since = writes
        PROVE  /\ \A x \in DOMAIN c.answers : AnswerIsTrue(c, x)
               /\ \A rep \in Representation :
                    /\ ToSet(MembersOf[rep]) \subseteq DOMAIN c.answers
                    /\ Availability(c.answers, rep) = "online"
                    => \A x \in ToSet(MembersOf[rep]) \cap Required :
                          \E u \in c.answers[x].candidates : Present(u) /\ Complete(u, x)
    <3>1. ResolutionOK(c) /\ ResolutionTrue(c)
      BY <2>1, IsResolution DEF MediaInv
    <3>2. \A x \in DOMAIN c.answers : c.answers[x] \in AnswerRec /\ AnswerTold(c, x)
      BY <3>1 DEF ResolutionOK, ResolutionTrue
    <3>3. \A x \in DOMAIN c.answers : AnswerIsTrue(c, x)
      BY <3>2 DEF AnswerTold
    <3> QED
      BY <3>2, <3>3, AvailableIsComplete
  <2> QED
    BY <2>1 DEF RelinkIsTruthful, Resolving
<1> QED
  BY <1>1, MediaStaysSound, PTL
=============================================================================
