--------------------------- MODULE ProductionFile ---------------------------
(***************************************************************************)
(* A production file from its creation through its migrations, with        *)
(* processes of older and newer builds that create and open it at the same *)
(* time, die half way or find it busy.                                     *)
(*                                                                         *)
(* Creating reserves the path, migrates the empty database and stores the  *)
(* identity; opening migrates and loads the identity.  Each migration is a *)
(* transaction of its own, and the schema version that decides which ones  *)
(* are due is read once, before the first of them and outside of it.       *)
(***************************************************************************)
EXTENDS Integers, Sequences

CONSTANTS
    Process, None,
    Newest,      \* the newest schema version each process' build knows
    MaxFaults    \* bound: crashes, and calls that SQLite refuses

ASSUME NoneAssumption == None \notin Process
ASSUME NewestAssumption == Newest \in [Process -> Nat \ {0}]
ASSUME MaxFaultsAssumption == MaxFaults \in Nat

VARIABLES
    exists,      \* the path names a file
    version,     \* PRAGMA user_version, 0 in an empty file
    history,     \* rows of schema_migrations in the order they were added
    identity,    \* the productions row: who stored it, or None
    record,      \* schema_version in that row
    reserver,    \* the process whose create made the file
    process,     \* each process' call
    disturbed,   \* somebody migrated the file between its creation and identity
    faults

vars == <<exists, version, history, identity, record, reserver, process, disturbed, faults>>
database == <<version, history, identity, record>>

Steps == {"idle", "version", "migrate", "identity", "load", "opened"}

(* current is the version the call has read, next the migration it is at.  *)
Call(pc, creates) == [pc |-> pc, creates |-> creates, next |-> 1]
Idle == Call("idle", FALSE)

Init ==
    /\ exists = FALSE /\ version = 0 /\ history = <<>>
    /\ identity = None /\ record = 0 /\ reserver = None
    /\ process = [p \in Process |-> Idle]
    /\ disturbed = FALSE /\ faults = 0
-----------------------------------------------------------------------------
At(p, pc)    == process[p].pc = pc
Become(p, c) == process' = [process EXCEPT ![p] = c]
Goto(p, pc)  == process' = [process EXCEPT ![p].pc = pc]
Fails(p)     == Become(p, Idle)

(* O_EXCL: a path that exists is refused and nothing happens.              *)
Create(p) ==
    /\ At(p, "idle") /\ ~exists
    /\ exists' = TRUE /\ reserver' = p
    /\ Become(p, Call("version", TRUE))
    /\ UNCHANGED <<database, disturbed, faults>>

Open(p) ==
    /\ At(p, "idle") /\ exists
    /\ Become(p, Call("version", FALSE))
    /\ UNCHANGED <<exists, database, reserver, disturbed, faults>>

(* Variant: every migration is due.                                        *)
ReadVersion_AllDue(p) ==
    /\ At(p, "version")
    /\ IF version > Newest[p] THEN Fails(p) ELSE Goto(p, "migrate")
    /\ UNCHANGED <<exists, database, reserver, disturbed, faults>>

(* A newer schema is left alone.                                           *)
ReadVersion(p) ==
    /\ At(p, "version")
    /\ IF version > Newest[p] THEN Fails(p)
       ELSE process' = [process EXCEPT ![p].pc = "migrate", ![p].next = version + 1]
    /\ UNCHANGED <<exists, database, reserver, disturbed, faults>>

(* What makes a migration fail that another process has applied meanwhile: *)
(* the key of schema_migrations, if none of its statements does.           *)
Applied(k) == \E i \in DOMAIN history : history[i] = k

(* Variant: a migration forgets the version in the productions row.        *)
Migrate_KeepsRecord(p) ==
    LET k == process[p].next
    IN /\ At(p, "migrate") /\ k <= Newest[p]
       /\ IF Applied(k) THEN Fails(p) /\ UNCHANGED <<version, history, disturbed>>
          ELSE /\ version' = k /\ history' = Append(history, k)
               /\ disturbed' = (disturbed \/ (identity = None /\ ~process[p].creates))
               /\ process' = [process EXCEPT ![p].next = k + 1]
       /\ UNCHANGED <<exists, identity, record, reserver, faults>>

(* One transaction: the statements, which also set the version of the      *)
(* productions row, the row of the history and the version of the file.    *)
Migrate(p) ==
    LET k == process[p].next
    IN /\ At(p, "migrate") /\ k <= Newest[p]
       /\ IF Applied(k) THEN Fails(p) /\ UNCHANGED <<version, history, record, disturbed>>
          ELSE /\ version' = k /\ history' = Append(history, k)
               /\ record' = IF identity = None THEN record ELSE k
               /\ disturbed' = (disturbed \/ (identity = None /\ ~process[p].creates))
               /\ process' = [process EXCEPT ![p].next = k + 1]
       /\ UNCHANGED <<exists, identity, reserver, faults>>

Migrated(p) ==
    /\ At(p, "migrate") /\ process[p].next > Newest[p]
    /\ Goto(p, IF process[p].creates THEN "identity" ELSE "load")
    /\ UNCHANGED <<exists, database, reserver, disturbed, faults>>

(* The row is stored with the version of the build, not that of the file.  *)
PersistIdentity(p) ==
    /\ At(p, "identity")
    /\ IF identity # None THEN Fails(p) /\ UNCHANGED <<identity, record>>
       ELSE identity' = p /\ record' = Newest[p] /\ Goto(p, "opened")
    /\ UNCHANGED <<exists, version, history, reserver, disturbed, faults>>

LoadIdentity(p) ==
    /\ At(p, "load")
    /\ IF identity = None \/ record # Newest[p] THEN Fails(p) ELSE Goto(p, "opened")
    /\ UNCHANGED <<exists, database, reserver, disturbed, faults>>

Close(p) ==
    /\ At(p, "opened")
    /\ Fails(p)
    /\ UNCHANGED <<exists, database, reserver, disturbed, faults>>

(* The process dies, or SQLite answers busy after its timeout: whatever    *)
(* was under way is undone, and the file stays.                            *)
Fault(p) ==
    /\ process[p].pc \notin {"idle", "opened"} /\ faults < MaxFaults
    /\ faults' = faults + 1
    /\ Fails(p)
    /\ UNCHANGED <<exists, database, reserver, disturbed>>

Step(p) ==
    \/ ReadVersion(p) \/ Migrate(p) \/ Migrated(p) \/ PersistIdentity(p) \/ LoadIdentity(p)

Next == \E p \in Process : Create(p) \/ Open(p) \/ Step(p) \/ Close(p) \/ Fault(p)

Spec == Init /\ [][Next]_vars

(* Hosts that are not done with the file open it again after a failure;    *)
(* nothing is assumed of creators, nor of who closes.                      *)
LiveSpec == Spec /\ \A p \in Process : WF_vars(Open(p) \/ Step(p))
-----------------------------------------------------------------------------
TypeOK ==
    /\ exists \in BOOLEAN /\ disturbed \in BOOLEAN /\ faults \in 0..MaxFaults
    /\ version \in Nat /\ record \in Nat /\ history \in Seq(Nat)
    /\ identity \in Process \cup {None} /\ reserver \in Process \cup {None}
    /\ process \in [Process -> [pc : Steps, creates : BOOLEAN, next : Nat \ {0}]]
    /\ reserver = None <=> ~exists
    /\ ~exists => version = 0 /\ identity = None
    /\ \A p \in Process : ~exists => At(p, "idle")

(* A production is the one its creator made and stays openable: only the   *)
(* process that made the file stores an identity, never twice; whoever has *)
(* it open finds one; and unless somebody else migrated the file before    *)
(* the identity was stored, the row and the file agree on the version, so  *)
(* that a build that knows the version can open it from then on.  Whoever  *)
(* migrates and whoever fails, every "numbered, transactional" migration   *)
(* up to the version (migrations.rs) has been applied once and in order.   *)
CreatedIsOpenable ==
    /\ history = [k \in 1..version |-> k]
    /\ identity \in {None, reserver}
    /\ \A p \in Process : At(p, "opened") => identity # None
    /\ identity # None /\ ~disturbed => record = version

(* Two builds of the newest version that race to migrate an old file hold  *)
(* each other up, but not for ever.                                        *)
OpenersGetThrough ==
    \A p \in Process :
        (identity # None /\ ~disturbed /\ (\A q \in Process : Newest[q] <= Newest[p]))
            ~> At(p, "opened")
=============================================================================
