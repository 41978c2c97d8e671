--------------------------- MODULE CatalogueProofs ---------------------------
(***************************************************************************)
(* Proofs about Catalogue for every set of handles, roots, assets, parts   *)
(* and locators, every page size and any number of calls.  Three things    *)
(* hold of the committed file and of the one the open transaction sees     *)
(* alike: the derived tables are what the rows make them (Follows), what   *)
(* the feed has said or is about to say is what was written (Tells), and a *)
(* traversal has everything up to its cursor that it should have (Walks).  *)
(***************************************************************************)
EXTENDS Catalogue, FiniteSetTheorems, WellFoundedInduction, TLAPS

Files == [assets : SUBSET Asset, reps : SUBSET Rep, resources : SUBSET Resource,
          members : SUBSET (Rep \X Resource),
          locators : [Locator -> Root \cup {NoRoot, Absent}],
          unresolved : SUBSET (Rep \X Resource), under : SUBSET (Root \X Rep \X Locator)]

Follows(c) == c.unresolved = Unresolved(c) /\ c.under = Under(c)
Sound(c)   == c \in Files /\ Follows(c)
-----------------------------------------------------------------------------
(***************************************************************************)
(* The derived tables.                                                     *)
(***************************************************************************)

LEMMA JoinedRow ==
    ASSUME NEW ls, NEW root, NEW ms, NEW u
    PROVE  u \in Joined(ls, root, ms) <=>
              \E l \in ls, m \in ms : /\ root[l] # NoRoot /\ ResourceOf[l] = m[2]
                                      /\ u = <<root[l], m[1], l>>
<1> DEFINE pairs == {p \in ls \X ms : root[p[1]] # NoRoot /\ ResourceOf[p[1]] = p[2][2]}
<1>1. Joined(ls, root, ms) = {<<root[p[1]], p[2][1], p[1]>> : p \in pairs}
  BY DEF Joined
<1>2. ASSUME u \in Joined(ls, root, ms)
      PROVE  \E l \in ls, m \in ms : /\ root[l] # NoRoot /\ ResourceOf[l] = m[2]
                                     /\ u = <<root[l], m[1], l>>
  <2>1. PICK p \in pairs : u = <<root[p[1]], p[2][1], p[1]>>
    BY <1>1, <1>2
  <2>2. p[1] \in ls /\ p[2] \in ms
    BY <2>1
  <2> QED
    BY <2>1, <2>2
<1>3. ASSUME NEW l \in ls, NEW m \in ms, root[l] # NoRoot, ResourceOf[l] = m[2],
             u = <<root[l], m[1], l>>
      PROVE  u \in Joined(ls, root, ms)
  <2>1. <<l, m>> \in pairs /\ <<l, m>>[1] = l /\ <<l, m>>[2] = m
    BY <1>3
  <2> HIDE DEF pairs
  <2> QED
    BY <1>1, <1>3, <2>1
<1> QED
  BY <1>2, <1>3

LEMMA JoinedType ==
    ASSUME NEW ls \in SUBSET Locator, NEW root, NEW ms \in SUBSET (Rep \X Resource),
           \A l \in ls : root[l] \in Root \cup {NoRoot}
    PROVE  Joined(ls, root, ms) \in SUBSET (Root \X Rep \X Locator)
<1> SUFFICES ASSUME NEW u \in Joined(ls, root, ms) PROVE u \in Root \X Rep \X Locator
  OBVIOUS
<1>1. PICK l \in ls, m \in ms : root[l] # NoRoot /\ u = <<root[l], m[1], l>>
  BY JoinedRow
<1>2. root[l] \in Root /\ m[1] \in Rep /\ l \in Locator
  BY <1>1
<1> QED
  BY <1>1, <1>2

(* Who has a locator depends on the locators alone.                        *)
LEMMA SameLocators ==
    ASSUME NEW c, NEW d, d.locators = c.locators
    PROVE  Present(d) = Present(c) /\ \A x : At(d, x) = At(c, x)
BY DEF Present, At

LEMMA SameDerived ==
    ASSUME NEW c, NEW d, Follows(c), d.locators = c.locators, d.members = c.members,
           d.unresolved = c.unresolved, d.under = c.under
    PROVE  Follows(d)
<1>1. Present(d) = Present(c) /\ \A x : At(d, x) = At(c, x)
  BY SameLocators
<1> QED
  BY <1>1 DEF Follows, Unresolved, Under

(* New memberships, with the triggers of their insertion.                  *)
LEMMA MembershipKeeps ==
    ASSUME NEW c, Sound(c), NEW ms \in SUBSET (Rep \X Resource)
    PROVE  LET d == AfterMembership(c, ms)
           IN /\ Sound(d)
              /\ d.assets = c.assets /\ d.reps = c.reps /\ d.resources = c.resources
              /\ d.members = c.members \cup ms /\ d.locators = c.locators
<1> DEFINE d == AfterMembership(c, ms)
           N == {m \in ms : m[2] \notin Optional /\ At(c, m[2]) = {}}
           U == Joined(Present(c), c.locators, ms)
<1>1. c \in Files /\ c.unresolved = Unresolved(c) /\ c.under = Under(c)
  BY DEF Sound, Follows
<1>2. d = [c EXCEPT !.members = @ \cup ms, !.unresolved = @ \cup N, !.under = @ \cup U]
  BY DEF AfterMembership
<1>3. Present(c) \in SUBSET Locator
      /\ \A l \in Present(c) : c.locators[l] \in Root \cup {NoRoot}
  BY <1>1 DEF Files, Present
<1>4. N \in SUBSET (Rep \X Resource) /\ U \in SUBSET (Root \X Rep \X Locator)
  BY <1>3, JoinedType
<1> HIDE DEF d, N, U
<1>5. /\ d.assets = c.assets /\ d.reps = c.reps /\ d.resources = c.resources
      /\ d.members = c.members \cup ms /\ d.locators = c.locators
      /\ d.unresolved = c.unresolved \cup N /\ d.under = c.under \cup U
  BY <1>1, <1>2 DEF Files
<1>6. d \in Files
  BY <1>1, <1>2, <1>4 DEF Files
<1>7. Present(d) = Present(c) /\ \A x : At(d, x) = At(c, x)
  BY <1>5, SameLocators
<1>8. d.unresolved = Unresolved(d)
  BY <1>1, <1>5, <1>7 DEF Unresolved, N
<1>9. d.under = Under(d)
  <2>1. ASSUME NEW u PROVE u \in Joined(Present(c), c.locators, c.members \cup ms) <=>
                              u \in Joined(Present(c), c.locators, c.members) \cup U
    BY JoinedRow DEF U
  <2>2. Joined(Present(c), c.locators, c.members \cup ms)
          = Joined(Present(c), c.locators, c.members) \cup U
    BY <2>1
  <2> QED
    BY <1>1, <1>5, <1>7, <2>2 DEF Under
<1>10. Sound(d)
  BY <1>6, <1>8, <1>9 DEF Sound, Follows
<1> QED
  BY <1>5, <1>10 DEF d

(* New locators, with the triggers of their insertion.                     *)
LEMMA LocatorInsertKeeps ==
    ASSUME NEW c, Sound(c), NEW ls \in SUBSET Locator, NEW root,
           \A l \in ls : c.locators[l] = Absent /\ root[l] \in Root \cup {NoRoot}
    PROVE  LET d == AfterLocatorInsert(c, ls, root)
           IN /\ Sound(d)
              /\ d.assets = c.assets /\ d.reps = c.reps /\ d.resources = c.resources
              /\ d.members = c.members /\ Present(d) = Present(c) \cup ls
<1> DEFINE d == AfterLocatorInsert(c, ls, root)
           L == [l \in Locator |-> IF l \in ls THEN root[l] ELSE c.locators[l]]
           M == {m \in c.unresolved : \A l \in ls : ResourceOf[l] # m[2]}
           U == Joined(ls, root, c.members)
<1>1. c \in Files /\ c.unresolved = Unresolved(c) /\ c.under = Under(c)
  BY DEF Sound, Follows
<1>2. d = [c EXCEPT !.locators = L, !.unresolved = M, !.under = @ \cup U]
  BY DEF AfterLocatorInsert
<1>3. /\ L \in [Locator -> Root \cup {NoRoot, Absent}] /\ M \in SUBSET (Rep \X Resource)
      /\ U \in SUBSET (Root \X Rep \X Locator)
  BY <1>1, JoinedType DEF Files
<1>4. \A l \in Locator : L[l] = IF l \in ls THEN root[l] ELSE c.locators[l]
  OBVIOUS
<1> HIDE DEF d, L, U
<1>5. /\ d.assets = c.assets /\ d.reps = c.reps /\ d.resources = c.resources
      /\ d.members = c.members /\ d.locators = L
      /\ d.unresolved = M /\ d.under = c.under \cup U
  BY <1>1, <1>2 DEF Files
<1>6. d \in Files
  BY <1>1, <1>2, <1>3 DEF Files
<1>7. Present(d) = Present(c) \cup ls
  BY <1>4, <1>5, RootAssumption DEF Present
<1>8. \A x : At(d, x) = At(c, x) \cup {l \in ls : ResourceOf[l] = x}
  BY <1>7 DEF At
<1>9. d.unresolved = Unresolved(d)
  <2>1. ASSUME NEW m \in c.members
        PROVE  m \in M <=> m[2] \notin Optional /\ At(d, m[2]) = {}
    <3>1. m \in c.unresolved <=> m[2] \notin Optional /\ At(c, m[2]) = {}
      BY <1>1 DEF Unresolved
    <3> QED
      BY <1>8, <3>1
  <2>2. M \subseteq c.members
    BY <1>1 DEF Unresolved
  <2>3. M = {m \in c.members : m[2] \notin Optional /\ At(d, m[2]) = {}}
    BY <2>1, <2>2
  <2> QED
    BY <1>5, <2>3 DEF Unresolved
<1>10. d.under = Under(d)
  <2>1. ASSUME NEW u
        PROVE  u \in Joined(Present(c) \cup ls, L, c.members)
                 <=> u \in Joined(Present(c), c.locators, c.members) \cup U
    <3>1. \A l \in Present(c) : L[l] = c.locators[l]
      BY <1>4 DEF Present
    <3>2. \A l \in ls : L[l] = root[l]
      BY <1>4
    <3> QED
      BY <3>1, <3>2, JoinedRow DEF U
  <2>2. Joined(Present(c) \cup ls, L, c.members)
          = Joined(Present(c), c.locators, c.members) \cup U
    BY <2>1
  <2> QED
    BY <1>1, <1>5, <1>7, <2>2 DEF Under
<1>11. Sound(d)
  BY <1>6, <1>9, <1>10 DEF Sound, Follows
<1> QED
  BY <1>5, <1>7, <1>11 DEF d

(* A locator that goes, with the foreign key and the triggers.             *)
LEMMA LocatorDeleteKeeps ==
    ASSUME NEW c, Sound(c), NEW l \in Locator
    PROVE  LET d == AfterLocatorDelete(c, l)
           IN /\ Sound(d)
              /\ d.assets = c.assets /\ d.reps = c.reps /\ d.resources = c.resources
              /\ d.members = c.members /\ Present(d) = Present(c) \ {l}
<1> DEFINE gone == [c EXCEPT !.locators[l] = Absent]
           d == AfterLocatorDelete(c, l)
           N == {m \in c.members : /\ m[2] = ResourceOf[l] /\ m[2] \notin Optional
                                   /\ At(gone, m[2]) = {}}
           U == {u \in c.under : u[3] # l}
<1>1. c \in Files /\ c.unresolved = Unresolved(c) /\ c.under = Under(c)
  BY DEF Sound, Follows
<1>2. gone.locators = [c.locators EXCEPT ![l] = Absent]
      /\ gone = [c EXCEPT !.locators = [c.locators EXCEPT ![l] = Absent]]
  BY <1>1 DEF Files
<1>3. d = [c EXCEPT !.locators = [c.locators EXCEPT ![l] = Absent],
                    !.under = U, !.unresolved = @ \cup N]
  BY <1>1, <1>2 DEF AfterLocatorDelete, Files
<1>4. /\ [c.locators EXCEPT ![l] = Absent] \in [Locator -> Root \cup {NoRoot, Absent}]
      /\ N \in SUBSET (Rep \X Resource) /\ U \in SUBSET (Root \X Rep \X Locator)
  BY <1>1 DEF Files
<1> HIDE DEF d, N, U, gone
<1>5. /\ d.assets = c.assets /\ d.reps = c.reps /\ d.resources = c.resources
      /\ d.members = c.members /\ d.locators = [c.locators EXCEPT ![l] = Absent]
      /\ d.unresolved = c.unresolved \cup N /\ d.under = U
  BY <1>1, <1>3 DEF Files
<1>6. d \in Files
  BY <1>1, <1>3, <1>4 DEF Files
<1>7. Present(d) = Present(c) \ {l} /\ \A x : At(d, x) = At(c, x) \ {l} /\ At(gone, x) = At(d, x)
  <2>1. \A k \in Locator : d.locators[k] = IF k = l THEN Absent ELSE c.locators[k]
    BY <1>1, <1>5 DEF Files
  <2>2. Present(d) = Present(c) \ {l}
    BY <2>1 DEF Present
  <2>3. \A x : At(d, x) = At(c, x) \ {l}
    BY <2>2 DEF At
  <2>4. gone.locators = d.locators
    BY <1>2, <1>5
  <2>5. \A x : At(gone, x) = At(d, x)
    BY <2>4 DEF At, Present
  <2> QED
    BY <2>2, <2>3, <2>5
<1>8. d.unresolved = Unresolved(d)
  <2>1. ASSUME NEW m \in c.members
        PROVE  m \in c.unresolved \cup N <=> m[2] \notin Optional /\ At(d, m[2]) = {}
    <3>1. m \in c.unresolved <=> m[2] \notin Optional /\ At(c, m[2]) = {}
      BY <1>1 DEF Unresolved
    <3>2. m \in N <=> m[2] = ResourceOf[l] /\ m[2] \notin Optional /\ At(d, m[2]) = {}
      BY <1>7 DEF N
    <3>3. m[2] # ResourceOf[l] => At(d, m[2]) = At(c, m[2])
      BY <1>7 DEF At
    <3>4. At(c, m[2]) = {} => At(d, m[2]) = {}
      BY <1>7
    <3> QED
      BY <3>1, <3>2, <3>3, <3>4
  <2>2. c.unresolved \cup N \subseteq c.members
    BY <1>1 DEF Unresolved, N
  <2>3. c.unresolved \cup N = {m \in c.members : m[2] \notin Optional /\ At(d, m[2]) = {}}
    BY <2>1, <2>2
  <2> QED
    BY <1>5, <2>3 DEF Unresolved
<1>9. d.under = Under(d)
  <2>1. ASSUME NEW u
        PROVE  u \in Joined(Present(d), d.locators, c.members) <=> u \in U
    <3>1. \A k \in Present(d) : k \in Present(c) /\ k # l /\ d.locators[k] = c.locators[k]
      BY <1>1, <1>5, <1>7 DEF Files, Present
    <3>2. u \in U <=> u[3] # l /\ u \in Joined(Present(c), c.locators, c.members)
      BY <1>1 DEF U, Under
    <3>3. ASSUME u \in Joined(Present(d), d.locators, c.members) PROVE u \in U
      <4>1. PICK k \in Present(d), m \in c.members :
               /\ d.locators[k] # NoRoot /\ ResourceOf[k] = m[2]
               /\ u = <<d.locators[k], m[1], k>>
        BY <3>3, JoinedRow
      <4>2. u[3] # l /\ u = <<c.locators[k], m[1], k>> /\ c.locators[k] # NoRoot
        BY <3>1, <4>1
      <4> QED
        BY <3>1, <3>2, <4>1, <4>2, JoinedRow
    <3>4. ASSUME u \in U PROVE u \in Joined(Present(d), d.locators, c.members)
      <4>1. PICK k \in Present(c), m \in c.members :
               /\ c.locators[k] # NoRoot /\ ResourceOf[k] = m[2]
               /\ u = <<c.locators[k], m[1], k>>
        BY <3>2, <3>4, JoinedRow
      <4>2. k # l /\ k \in Present(d)
        BY <1>7, <3>2, <3>4, <4>1
      <4> QED
        BY <3>1, <4>1, <4>2, JoinedRow
    <3> QED
      BY <3>3, <3>4
  <2>2. Joined(Present(d), d.locators, c.members) = U
    BY <2>1
  <2> QED
    BY <1>5, <2>2 DEF Under
<1>10. Sound(d)
  BY <1>6, <1>8, <1>9 DEF Sound, Follows
<1> QED
  BY <1>5, <1>7, <1>10 DEF d

(* A media root that goes, with ON DELETE SET NULL and its trigger.        *)
LEMMA RootDeleteKeeps ==
    ASSUME NEW c, Sound(c), NEW r \in Root
    PROVE  LET d == AfterRootDelete(c, r)
           IN /\ Sound(d)
              /\ d.assets = c.assets /\ d.reps = c.reps /\ d.resources = c.resources
              /\ d.members = c.members /\ Present(d) = Present(c)
<1> DEFINE orphans == {l \in Locator : c.locators[l] = r}
           d == AfterRootDelete(c, r)
           L == [l \in Locator |-> IF l \in orphans THEN NoRoot ELSE c.locators[l]]
           U == {u \in c.under : u[1] # r /\ u[3] \notin orphans}
<1>1. c \in Files /\ c.unresolved = Unresolved(c) /\ c.under = Under(c)
  BY DEF Sound, Follows
<1>2. d = [c EXCEPT !.locators = L, !.under = U]
  BY DEF AfterRootDelete
<1>3. /\ L \in [Locator -> Root \cup {NoRoot, Absent}]
      /\ U \in SUBSET (Root \X Rep \X Locator)
  BY <1>1 DEF Files
<1>4. \A l \in Locator : L[l] = IF c.locators[l] = r THEN NoRoot ELSE c.locators[l]
  OBVIOUS
<1>5. \A u : u \in U <=> u \in c.under /\ u[1] # r /\ u[3] \notin orphans
  OBVIOUS
<1>6. \A l \in Locator : l \in orphans <=> c.locators[l] = r
  OBVIOUS
<1> HIDE DEF d, U, L, orphans
<1>7. /\ d.assets = c.assets /\ d.reps = c.reps /\ d.resources = c.resources
      /\ d.members = c.members /\ d.locators = L
      /\ d.unresolved = c.unresolved /\ d.under = U
  BY <1>1, <1>2 DEF Files
<1>8. d \in Files
  BY <1>1, <1>2, <1>3 DEF Files
<1>9. Present(d) = Present(c) /\ \A x : At(d, x) = At(c, x)
  BY <1>4, <1>7, RootAssumption DEF Present, At
<1>10. d.unresolved = Unresolved(d)
  BY <1>1, <1>7, <1>9 DEF Unresolved
<1>11. ASSUME NEW u
       PROVE  u \in Joined(Present(c), L, c.members) <=> u \in U
  <2>1. \A k \in Present(c) : k \in Locator
    BY DEF Present
  <2>2. ASSUME u \in Joined(Present(c), L, c.members) PROVE u \in U
    <3>1. PICK k \in Present(c), m \in c.members :
             L[k] # NoRoot /\ ResourceOf[k] = m[2] /\ u = <<L[k], m[1], k>>
      BY <2>2, JoinedRow
    <3>2. L[k] = c.locators[k] /\ c.locators[k] # r
      BY <1>4, <2>1, <3>1
    <3>3. u[1] # r /\ u[3] \notin orphans /\ u = <<c.locators[k], m[1], k>>
      BY <1>6, <2>1, <3>1, <3>2
    <3>4. u \in c.under
      BY <1>1, <3>1, <3>2, <3>3, JoinedRow DEF Under
    <3> QED
      BY <1>5, <3>3, <3>4
  <2>3. ASSUME u \in U PROVE u \in Joined(Present(c), L, c.members)
    <3>1. PICK k \in Present(c), m \in c.members :
             /\ c.locators[k] # NoRoot /\ ResourceOf[k] = m[2]
             /\ u = <<c.locators[k], m[1], k>>
      BY <1>1, <1>5, <2>3, JoinedRow DEF Under
    <3>2. L[k] = c.locators[k]
      BY <1>4, <1>5, <2>1, <2>3, <3>1
    <3> QED
      BY <3>1, <3>2, JoinedRow
  <2> QED
    BY <2>2, <2>3
<1>12. Joined(Present(c), L, c.members) = U
  BY <1>11
<1>13. Sound(d)
  BY <1>7, <1>8, <1>9, <1>10, <1>12 DEF Sound, Follows, Under
<1> QED
  BY <1>7, <1>9, <1>13 DEF d
-----------------------------------------------------------------------------
(***************************************************************************)
(* What the feed says, and what a call that fails half way leaves.         *)
(***************************************************************************)

ToldType == [assets : SUBSET Asset, reps : SUBSET Rep, resources : SUBSET Resource,
             members : SUBSET (Rep \X Resource), locators : SUBSET Locator]

(* Nothing is said that was not written; all that was written is said when *)
(* no call was left half done (whole), and assets are said in any case.    *)
Tells(t, c, whole) ==
    /\ t \in ToldType
    /\ t.assets = c.assets /\ t.reps \subseteq c.reps /\ t.resources \subseteq c.resources
    /\ t.members \subseteq c.members /\ t.locators \subseteq Present(c)
    /\ whole => /\ t.reps = c.reps /\ t.resources = c.resources
                /\ t.members = c.members /\ t.locators = Present(c)

(* Rows that a representation adds, all of them or some.                   *)
LEMMA PersistedKeeps ==
    ASSUME NEW c, Sound(c), NEW r \in Rep, NEW ls \in Offers(r), NEW large,
           NEW root \in [ls -> Root \cup {NoRoot}]
    PROVE  LET done == Persisted(c, r, ls, root, large)
               d    == done.rows
           IN /\ done.ok \in BOOLEAN
              /\ Sound(d)
              /\ d.assets = c.assets /\ c.reps \subseteq d.reps
              /\ c.resources \subseteq d.resources /\ c.members \subseteq d.members
              /\ Present(c) \subseteq Present(d)
              /\ done.ok => /\ d.reps = c.reps \cup {r}
                            /\ d.resources = c.resources \cup ResourcesOf(r)
                            /\ d.members = c.members \cup {<<r, x>> : x \in ResourcesOf(r)}
                            /\ Present(d) = Present(c) \cup ls
<1> DEFINE rep      == [c EXCEPT !.reps = @ \cup {r}]
           sized    == {x \in ResourcesOf(r) : \A y \in large : x < y}
           media    == [rep EXCEPT !.resources = @ \cup sized]
           ms       == {<<r, x>> : x \in sized}
           members  == AfterMembership(media, ms)
           bad      == {l \in ls : Refused(members, l, root[l], {k \in ls : k < l})}
           inserted == {l \in ls : \A b \in bad : l < b}
           rows     == AfterLocatorInsert(members, inserted, root)
           done     == Persisted(c, r, ls, root, large)
<1>1. done = IF large # {} THEN [ok |-> FALSE, rows |-> media]
             ELSE [ok |-> bad = {}, rows |-> rows]
  BY DEF Persisted
<1>2. ls \in SUBSET Locator /\ sized \in SUBSET Resource /\ sized \subseteq ResourcesOf(r)
      /\ (large = {} => sized = ResourcesOf(r)) /\ inserted \in SUBSET Locator
  BY DEF Offers, LocatorsOf, ResourcesOf
<1>3. /\ Sound(media)
      /\ media.assets = c.assets /\ media.reps = c.reps \cup {r}
      /\ media.resources = c.resources \cup sized
      /\ media.members = c.members /\ media.locators = c.locators
  <2>1. c \in Files
    BY DEF Sound
  <2>2. /\ media.assets = c.assets /\ media.reps = c.reps \cup {r}
        /\ media.resources = c.resources \cup sized
        /\ media.members = c.members /\ media.locators = c.locators
        /\ media.unresolved = c.unresolved /\ media.under = c.under
    BY <2>1 DEF Files
  <2>3. rep \in Files
    BY <2>1 DEF Files
  <2>4. media \in Files
    BY <1>2, <2>3 DEF Files
  <2>5. Follows(media)
    BY <2>2, SameDerived DEF Sound
  <2> QED
    BY <2>2, <2>4, <2>5 DEF Sound
<1>4. ms \in SUBSET (Rep \X Resource)
  <2>1. \A x \in sized : x \in Resource
    BY <1>2
  <2> HIDE DEF sized
  <2>2. \A x \in sized : <<r, x>> \in Rep \X Resource
    BY <2>1
  <2> QED
    BY <2>2
<1> HIDE DEF rep, media, ms, sized
<1>5. /\ Sound(members)
      /\ members.assets = media.assets /\ members.reps = media.reps
      /\ members.resources = media.resources
      /\ members.members = media.members \cup ms /\ members.locators = media.locators
  BY <1>3, <1>4, MembershipKeeps
<1> HIDE DEF members
<1>6. ASSUME NEW l \in inserted
      PROVE  members.locators[l] = Absent /\ root[l] \in Root \cup {NoRoot}
  <2>1. l \in ls /\ l \in Nat
    BY <1>2, IdAssumption
  <2>2. l \notin bad
    BY <2>1
  <2> QED
    BY <2>1, <2>2 DEF Refused
<1>7. bad = {} => inserted = ls
  OBVIOUS
<1> HIDE DEF bad, inserted
<1>8. /\ Sound(rows)
      /\ rows.assets = members.assets /\ rows.reps = members.reps
      /\ rows.resources = members.resources /\ rows.members = members.members
      /\ Present(rows) = Present(members) \cup inserted
  BY <1>2, <1>5, <1>6, LocatorInsertKeeps
<1> HIDE DEF rows
<1>9. Present(media) = Present(c) /\ Present(members) = Present(c)
  BY <1>3, <1>5 DEF Present
<1>10. CASE large # {}
  <2>1. done.ok = FALSE /\ done.rows = media
    BY <1>1, <1>10
  <2> QED
    BY <1>3, <1>9, <2>1 DEF done
<1>11. CASE large = {}
  <2>1. done.ok = (bad = {}) /\ done.rows = rows
    BY <1>1, <1>11
  <2>2. sized = ResourcesOf(r) /\ ms = {<<r, x>> : x \in ResourcesOf(r)}
    BY <1>2, <1>11 DEF ms
  <2>3. /\ done.rows.assets = c.assets /\ c.reps \subseteq done.rows.reps
        /\ c.resources \subseteq done.rows.resources
        /\ c.members \subseteq done.rows.members
        /\ Present(c) \subseteq Present(done.rows)
    BY <1>3, <1>5, <1>8, <1>9, <2>1
  <2>4. done.ok => /\ done.rows.reps = c.reps \cup {r}
                   /\ done.rows.resources = c.resources \cup ResourcesOf(r)
                   /\ done.rows.members = c.members \cup {<<r, x>> : x \in ResourcesOf(r)}
                   /\ Present(done.rows) = Present(c) \cup ls
    BY <1>3, <1>5, <1>7, <1>8, <1>9, <2>1, <2>2
  <2>5. done.ok \in BOOLEAN /\ Sound(done.rows)
    BY <1>8, <2>1
  <2> QED
    BY <2>3, <2>4, <2>5 DEF done
<1> QED
  BY <1>10, <1>11
-----------------------------------------------------------------------------
(***************************************************************************)
(* Traversals.                                                             *)
(***************************************************************************)

(* Keys are numbers.                                                       *)
LEMMA KeysAreNumbers ==
    ASSUME NEW c, Sound(c), NEW q \in Queries
    PROVE  Result(c, q) \in SUBSET (Nat \ {0})
<1>1. c \in Files /\ c.unresolved \in SUBSET (Rep \X Resource)
      /\ c.under \in SUBSET (Root \X Rep \X Locator)
  BY DEF Sound, Files
<1>2. /\ Asset \subseteq Nat \ {0} /\ Rep \subseteq Nat \ {0}
      /\ Resource \subseteq Nat \ {0} /\ Locator \subseteq Nat \ {0}
  BY IdAssumption
<1>3. /\ AssetsPage(c) \subseteq Asset /\ UnresolvedMedia(c) \subseteq Rep
      /\ RepresentationsPage(c, q[2]) \subseteq Rep /\ ResourcesPage(c, q[2]) \subseteq Resource
      /\ LocatorsPage(c, q[2]) \subseteq Locator /\ UnderMediaRoot(c, q[2]) \subseteq Rep
  <2>1. AssetsPage(c) \subseteq Asset /\ RepresentationsPage(c, q[2]) \subseteq Rep
    BY <1>1 DEF AssetsPage, RepresentationsPage, Files
  <2>2. UnresolvedMedia(c) \subseteq Rep
    BY <1>1 DEF UnresolvedMedia
  <2>3. ResourcesPage(c, q[2]) \subseteq Resource
    BY <1>1 DEF ResourcesPage, Files
  <2>4. LocatorsPage(c, q[2]) \subseteq Locator
    BY DEF LocatorsPage, At, Present
  <2>5. UnderMediaRoot(c, q[2]) \subseteq Rep
    BY <1>1 DEF UnderMediaRoot
  <2> QED
    BY <2>1, <2>2, <2>3, <2>4, <2>5
<1>4. q[1] \in {"assets", "unresolved", "representations", "resources", "locators", "under"}
  BY DEF Queries
<1> QED
  BY <1>2, <1>3, <1>4 DEF Result

(* What a page leaves out stands behind all that is on it.                 *)
Below(S, k) == {j \in S : j < k}

LEMMA BelowIsFinite ==
    ASSUME NEW S \in SUBSET Nat, NEW k \in Nat
    PROVE  IsFiniteSet(Below(S, k)) /\ Cardinality(Below(S, k)) \in Nat
<1>1. Below(S, k) \in SUBSET (0..k)
  <2>1. \A j \in Below(S, k) : j \in Nat /\ j < k
    BY DEF Below
  <2>2. \A j \in Below(S, k) : j \in 0..k
    BY <2>1
  <2> QED
    BY <2>2
<1>2. IsFiniteSet(0..k)
  BY FS_Interval
<1> QED
  BY <1>1, <1>2, FS_Subset, FS_CardinalityType

LEMMA BelowGrows ==
    ASSUME NEW S \in SUBSET Nat, NEW j \in S, NEW k \in S
    PROVE  /\ j <= k => Cardinality(Below(S, j)) <= Cardinality(Below(S, k))
           /\ j < k => Cardinality(Below(S, j)) < Cardinality(Below(S, k))
<1>1. /\ IsFiniteSet(Below(S, k)) /\ Cardinality(Below(S, k)) \in Nat
      /\ IsFiniteSet(Below(S, j)) /\ Cardinality(Below(S, j)) \in Nat
  BY BelowIsFinite
<1>2. ASSUME j < k PROVE Cardinality(Below(S, j)) < Cardinality(Below(S, k))
  <2>1. Below(S, j) \in SUBSET Below(S, k)
    <3>1. \A m \in S : m < j => m < k
      BY <1>2
    <3> QED
      BY <3>1 DEF Below
  <2>2. j \in Below(S, k) /\ j \notin Below(S, j)
    <3>1. j \in Nat /\ ~(j < j)
      OBVIOUS
    <3> QED
      BY <1>2, <3>1 DEF Below
  <2>3. QED
    <3>1. Below(S, j) # Below(S, k)
      BY <2>2
    <3>2. /\ Cardinality(Below(S, j)) <= Cardinality(Below(S, k))
          /\ Cardinality(Below(S, j)) # Cardinality(Below(S, k))
      BY <1>1, <2>1, <3>1, FS_Subset
    <3> QED
      BY <1>1, <3>2
<1>3. j = k => Cardinality(Below(S, j)) <= Cardinality(Below(S, k))
  BY <1>1
<1> QED
  BY <1>1, <1>2, <1>3

LEMMA FirstMeans ==
    ASSUME NEW n \in Nat, NEW S \in SUBSET Nat
    PROVE  /\ First(n, S) = {k \in S : Cardinality(Below(S, k)) < n}
           /\ \A k \in First(n, S), j \in S : j <= k => j \in First(n, S)
<1>1. First(n, S) = {k \in S : Cardinality(Below(S, k)) < n}
  BY DEF First, Below
<1>2. ASSUME NEW k \in First(n, S), NEW j \in S, j <= k PROVE j \in First(n, S)
  <2>1. k \in S /\ Cardinality(Below(S, k)) < n
    BY <1>1
  <2>2. Cardinality(Below(S, j)) <= Cardinality(Below(S, k))
    BY <1>2, <2>1, BelowGrows
  <2>3. Cardinality(Below(S, j)) \in Nat /\ Cardinality(Below(S, k)) \in Nat
    BY <2>1, BelowIsFinite
  <2> QED
    BY <1>1, <2>1, <2>2, <2>3
<1> QED
  BY <1>1, <1>2

(* A page that is not empty has a last row.                                *)
LEMMA PageEnds ==
    ASSUME NEW n \in Nat, NEW S \in SUBSET Nat, First(n, S) # {}
    PROVE  \E last \in First(n, S) : \A k \in First(n, S) : k <= last
<1> DEFINE Rank(k) == Cardinality(Below(S, k))
           gaps == {n - Rank(k) : k \in First(n, S)}
<1>1. \A k \in First(n, S) : k \in S /\ Rank(k) \in Nat /\ Rank(k) < n
  BY FirstMeans, BelowIsFinite
<1> HIDE DEF Rank
<1>2. gaps \in SUBSET Nat /\ gaps # {}
  <2>1. \A k \in First(n, S) : n - Rank(k) \in Nat
    BY <1>1
  <2> QED
    BY <2>1
<1>3. PICK g \in gaps : \A h \in gaps : ~(<<h, g>> \in OpToRel(<, Nat))
  BY <1>2, NatLessThanWellFounded, WFMin
<1>4. PICK last \in First(n, S) : g = n - Rank(last)
  BY <1>3
<1>5. ASSUME NEW k \in First(n, S) PROVE k <= last
  <2>1. n - Rank(k) \in gaps /\ n - Rank(k) \in Nat
    BY <1>1
  <2>2. ~(n - Rank(k) < n - Rank(last))
    BY <1>3, <1>4, <1>2, <2>1 DEF OpToRel
  <2>3. ~(Rank(last) < Rank(k))
    BY <1>1, <2>2
  <2>4. k \in S /\ last \in S
    BY <1>1
  <2>5. ~(last < k)
    BY <2>3, <2>4, BelowGrows DEF Rank
  <2> QED
    BY <2>4, <2>5
<1> QED
  BY <1>5

(* The cursor moves to the last row of the page.                           *)
LEMMA CursorMoves ==
    ASSUME NEW S \in SUBSET Nat, NEW n \in Nat, NEW cursor \in Nat, \A k \in S : k > cursor
    PROVE  LET page == First(n, S)
               next == FirstOf({c \in page \cup {cursor} : \A k \in page : k <= c})
           IN next \in page \cup {cursor} /\ \A k \in page : k <= next
<1> DEFINE page == First(n, S)
           ends == {c \in page \cup {cursor} : \A k \in page : k <= c}
<1>1. page \in SUBSET Nat /\ \A k \in page : k > cursor
  BY DEF First
<1>2. PICK last \in page \cup {cursor} : \A k \in page : k <= last
  BY PageEnds
<1>3. ends = {last}
  <2>1. last \in ends
    BY <1>2
  <2>2. ASSUME NEW c \in ends PROVE c = last
    <3>1. c \in page \cup {cursor} /\ \A k \in page : k <= c
      OBVIOUS
    <3> HIDE DEF page, ends
    <3>2. ASSUME NEW k \in page PROVE c # cursor /\ last # cursor
      <4>1. k > cursor /\ k <= c /\ k <= last /\ k \in Nat
        BY <1>1, <1>2, <3>1
      <4> QED
        BY <4>1
    <3>3. page = {} => c = cursor /\ last = cursor
      BY <1>2, <3>1
    <3>4. c \in Nat /\ last \in Nat
      BY <1>1, <1>2, <3>1
    <3> QED
      BY <1>2, <3>1, <3>2, <3>3, <3>4
  <2> QED
    BY <2>1, <2>2
<1>4. last \in Nat
  BY <1>1, <1>2
<1> HIDE DEF page, ends
<1>5. FirstOf(ends) = last
  <2>1. FirstOf(ends) = CHOOSE i \in {last} : \A j \in {last} : i <= j
    BY <1>3 DEF FirstOf
  <2>2. last <= last
    BY <1>4
  <2> QED
    BY <2>1, <2>2
<1> QED
  BY <1>2, <1>5 DEF page, ends
-----------------------------------------------------------------------------
(***************************************************************************)
(* The invariant and the steps that keep it.                               *)
(***************************************************************************)

WalkType == [query : Queries \cup {<<"none">>}, cursor : Nat, got : SUBSET Nat,
             always : SUBSET Nat, done : BOOLEAN]

(* What was there all along has been returned up to the cursor, and is     *)
(* there now.                                                              *)
Walks(w, f) ==
    /\ w \in WalkType
    /\ w.done => w.always \subseteq w.got
    /\ ~w.done => /\ w.query \in Queries /\ w.always \subseteq Result(f, w.query)
                  /\ \A k \in w.always : k <= w.cursor => k \in w.got

CInv ==
    /\ tainted \in BOOLEAN /\ spoiled \in BOOLEAN
    /\ Sound(file) /\ Sound(copy)
    /\ Tells(told, file, ~spoiled)
    /\ Tells(telling, copy, ~spoiled /\ ~tainted)
    /\ Walks(walk, file)

LEMMA CInvInit == CatInit => CInv
<1> SUFFICES ASSUME CatInit PROVE CInv
  OBVIOUS
<1>1. /\ file = Nothing /\ copy = Nothing /\ told = Untold /\ telling = Untold
      /\ tainted = FALSE /\ spoiled = FALSE /\ walk = NoWalk
  BY DEF CatInit
<1>2. Nothing \in Files
  BY DEF Nothing, Files
<1>3. Present(Nothing) = {} /\ Nothing.members = {} /\ Nothing.unresolved = {} /\ Nothing.under = {}
      /\ Nothing.assets = {} /\ Nothing.reps = {} /\ Nothing.resources = {}
  BY DEF Present, Nothing
<1>4. Unresolved(Nothing) = {} /\ Under(Nothing) = {}
  <2>1. \A u : u \notin Under(Nothing)
    BY <1>3, JoinedRow DEF Under
  <2> QED
    BY <1>3, <2>1 DEF Unresolved
<1>5. Sound(Nothing)
  BY <1>2, <1>3, <1>4 DEF Sound, Follows
<1>6. Tells(Untold, Nothing, TRUE)
  BY <1>3 DEF Tells, Untold, ToldType
<1>7. Walks(NoWalk, Nothing)
  BY DEF Walks, NoWalk, WalkType
<1> QED
  BY <1>1, <1>5, <1>6, <1>7 DEF CInv

(* A call changes what the open transaction sees and will say, no more.    *)
LEMMA StoredKeeps ==
    ASSUME CInv, NEW h, NEW c, NEW t, NEW failed \in BOOLEAN, Stored(h, c, t, failed),
           Sound(c), Tells(t, c, ~spoiled /\ ~tainted /\ ~failed)
    PROVE  CInv'
<1>1. /\ copy' = c /\ telling' = t /\ tainted' = (tainted \/ failed)
      /\ file' = file /\ told' = told /\ spoiled' = spoiled /\ walk' = walk
  BY DEF Stored
<1>2. tainted' \in BOOLEAN /\ (~spoiled' /\ ~tainted' => ~spoiled /\ ~tainted /\ ~failed)
  BY <1>1 DEF CInv
<1>3. Tells(telling', copy', ~spoiled' /\ ~tainted')
  BY <1>1, <1>2 DEF Tells
<1> QED
  BY <1>1, <1>2, <1>3 DEF CInv

LEMMA FinishKeeps ==
    ASSUME CInv, NEW h, NEW c, NEW t, Sound(c), Tells(t, c, ~spoiled /\ ~tainted),
           NEW r \in Rep, NEW ls \in Offers(r), NEW large,
           NEW root \in [ls -> Root \cup {NoRoot}], Finish(h, c, t, r, ls, root, large)
    PROVE  CInv'
<1>1. PICK done : done = Persisted(c, r, ls, root, large)
  OBVIOUS
<1>2. PICK news : news = IF done.ok THEN Said(t, r, ls) ELSE t
  OBVIOUS
<1>3. /\ done.ok \in BOOLEAN /\ Sound(done.rows)
      /\ done.rows.assets = c.assets /\ c.reps \subseteq done.rows.reps
      /\ c.resources \subseteq done.rows.resources /\ c.members \subseteq done.rows.members
      /\ Present(c) \subseteq Present(done.rows)
      /\ done.ok => /\ done.rows.reps = c.reps \cup {r}
                    /\ done.rows.resources = c.resources \cup ResourcesOf(r)
                    /\ done.rows.members = c.members \cup {<<r, x>> : x \in ResourcesOf(r)}
                    /\ Present(done.rows) = Present(c) \cup ls
  BY <1>1, PersistedKeeps
<1>4. Stored(h, done.rows, news, ~done.ok)
  BY <1>1, <1>2 DEF Finish
<1>5. Tells(news, done.rows, ~spoiled /\ ~tainted /\ done.ok)
  <2>1. CASE ~done.ok
    BY <1>2, <1>3, <2>1 DEF Tells
  <2>2. CASE done.ok
    <3>1. {<<r, x>> : x \in ResourcesOf(r)} \in SUBSET (Rep \X Resource)
      BY DEF ResourcesOf
    <3>2. ls \in SUBSET Locator /\ ResourcesOf(r) \in SUBSET Resource
      BY DEF Offers, LocatorsOf, ResourcesOf
    <3>3. t \in ToldType
      BY DEF Tells
    <3>4. /\ news.assets = t.assets /\ news.reps = t.reps \cup {r}
          /\ news.resources = t.resources \cup ResourcesOf(r)
          /\ news.members = t.members \cup {<<r, x>> : x \in ResourcesOf(r)}
          /\ news.locators = t.locators \cup ls
      BY <1>2, <2>2, <3>3 DEF Said, ToldType
    <3>5. news \in ToldType
      <4> DEFINE M == {<<r, x>> : x \in ResourcesOf(r)}
      <4>1. news = [t EXCEPT !.reps = @ \cup {r}, !.resources = @ \cup ResourcesOf(r),
                             !.members = @ \cup M, !.locators = @ \cup ls]
        BY <1>2, <2>2 DEF Said
      <4>2. M \in SUBSET (Rep \X Resource)
        BY <3>1
      <4> HIDE DEF M
      <4> QED
        BY <3>2, <3>3, <4>1, <4>2 DEF ToldType
    <3> QED
      BY <1>3, <2>2, <3>4, <3>5 DEF Tells
  <2> QED
    BY <1>3, <2>1, <2>2
<1>6. PICK failed : failed = ~done.ok
  OBVIOUS
<1>7. Stored(h, done.rows, news, failed) /\ failed \in BOOLEAN
  BY <1>3, <1>4, <1>6
<1>8. Tells(news, done.rows, ~spoiled /\ ~tainted /\ ~failed)
  <2>1. CASE done.ok = TRUE
    <3>1. failed = FALSE
      BY <1>6, <2>1
    <3> QED
      BY <1>5, <2>1, <3>1 DEF Tells
  <2>2. CASE done.ok = FALSE
    <3>1. failed = TRUE
      BY <1>6, <2>2
    <3> QED
      BY <1>5, <3>1 DEF Tells
  <2> QED
    BY <1>3, <2>1, <2>2
<1> QED
  BY <1>3, <1>7, <1>8, StoredKeeps

LEMMA ImportKeeps ==
    ASSUME CInv, NEW h, NEW r \in Rep, Import(h, r)
    PROVE  CInv'
<1>1. PICK ls \in Offers(r), large \in {{}} \cup {{x} : x \in ResourcesOf(r)} :
         \E root \in [ls -> Root \cup {NoRoot}] :
            ImportOriginal(h, r, ls, root, large) \/ AddRepresentation(h, r, ls, root, large)
  BY DEF Import
<1>2. PICK root \in [ls -> Root \cup {NoRoot}] :
         ImportOriginal(h, r, ls, root, large) \/ AddRepresentation(h, r, ls, root, large)
  BY <1>1
<1>3. CASE AddRepresentation(h, r, ls, root, large)
  BY <1>3, FinishKeeps DEF AddRepresentation, CInv
<1>4. CASE ImportOriginal(h, r, ls, root, large)
  <2>1. PICK a : a = AssetOf[r]
    OBVIOUS
  <2>2. PICK c : c = [copy EXCEPT !.assets = @ \cup {a}]
    OBVIOUS
  <2>3. PICK t : t = [telling EXCEPT !.assets = @ \cup {a}]
    OBVIOUS
  <2>4. Finish(h, c, t, r, ls, root, large) /\ a \in Asset
    BY <1>4, <2>1, <2>2, <2>3, PartAssumption DEF ImportOriginal
  <2>5. copy \in Files /\ Follows(copy) /\ telling \in ToldType
    BY DEF CInv, Sound, Tells
  <2>6. /\ c \in Files /\ c.assets = copy.assets \cup {a} /\ c.reps = copy.reps
        /\ c.resources = copy.resources /\ c.members = copy.members
        /\ c.locators = copy.locators /\ c.unresolved = copy.unresolved /\ c.under = copy.under
    BY <2>2, <2>4, <2>5 DEF Files
  <2>7. Sound(c)
    BY <2>5, <2>6, SameDerived DEF Sound
  <2>8. /\ t \in ToldType /\ t.assets = telling.assets \cup {a} /\ t.reps = telling.reps
        /\ t.resources = telling.resources /\ t.members = telling.members
        /\ t.locators = telling.locators
    BY <2>3, <2>4, <2>5 DEF ToldType
  <2>9. Tells(t, c, ~spoiled /\ ~tainted)
    <3>1. Present(c) = Present(copy)
      BY <2>6, SameLocators
    <3> QED
      BY <2>6, <2>8, <3>1 DEF CInv, Tells
  <2> QED
    BY <2>4, <2>7, <2>9, FinishKeeps
<1> QED
  BY <1>2, <1>3, <1>4

LEMMA AddLocatorKeeps ==
    ASSUME CInv, NEW h, NEW l \in Locator, NEW root \in Root \cup {NoRoot},
           AddLocator(h, l, root)
    PROVE  CInv'
<1>1. PICK at : at = [k \in {l} |-> root]
  OBVIOUS
<1>2. PICK c : c = AfterLocatorInsert(copy, {l}, at)
  OBVIOUS
<1>3. PICK t : t = [telling EXCEPT !.locators = @ \cup {l}]
  OBVIOUS
<1>4. copy.locators[l] = Absent /\ at[l] = root
  BY <1>1 DEF AddLocator, Refused
<1>5. Sound(copy) /\ Tells(telling, copy, ~spoiled /\ ~tainted)
  BY DEF CInv
<1>6. /\ Sound(c) /\ c.assets = copy.assets /\ c.reps = copy.reps
      /\ c.resources = copy.resources /\ c.members = copy.members
      /\ Present(c) = Present(copy) \cup {l}
  <2>1. PICK ls : ls = {l}
    OBVIOUS
  <2>2. ls \in SUBSET Locator
        /\ \A k \in ls : copy.locators[k] = Absent /\ at[k] \in Root \cup {NoRoot}
    BY <1>4, <2>1
  <2>3. c = AfterLocatorInsert(copy, ls, at)
    BY <1>2, <2>1
  <2> QED
    BY <1>5, <2>1, <2>2, <2>3, LocatorInsertKeeps, SMTT(30)
<1>7. /\ t \in ToldType /\ t.assets = telling.assets /\ t.reps = telling.reps
      /\ t.resources = telling.resources /\ t.members = telling.members
      /\ t.locators = telling.locators \cup {l}
  BY <1>3, <1>5 DEF Tells, ToldType
<1>8. Tells(t, c, ~spoiled /\ ~tainted /\ ~FALSE)
  BY <1>5, <1>6, <1>7 DEF Tells
<1>9. Stored(h, c, t, FALSE)
  BY <1>1, <1>2, <1>3 DEF AddLocator
<1> QED
  BY <1>6, <1>8, <1>9, StoredKeeps

LEMMA RetireLocatorKeeps ==
    ASSUME CInv, NEW h, NEW l \in Locator, RetireLocator(h, l)
    PROVE  CInv'
<1>1. PICK c : c = AfterLocatorDelete(copy, l)
  OBVIOUS
<1>2. PICK t : t = [telling EXCEPT !.locators = @ \ {l}]
  OBVIOUS
<1>3. Sound(copy) /\ Tells(telling, copy, ~spoiled /\ ~tainted)
  BY DEF CInv
<1>4. /\ Sound(c) /\ c.assets = copy.assets /\ c.reps = copy.reps
      /\ c.resources = copy.resources /\ c.members = copy.members
      /\ Present(c) = Present(copy) \ {l}
  BY <1>1, <1>3, LocatorDeleteKeeps
<1>5. /\ t \in ToldType /\ t.assets = telling.assets /\ t.reps = telling.reps
      /\ t.resources = telling.resources /\ t.members = telling.members
      /\ t.locators = telling.locators \ {l}
  BY <1>2, <1>3 DEF Tells, ToldType
<1>6. Tells(t, c, ~spoiled /\ ~tainted /\ ~FALSE)
  BY <1>3, <1>4, <1>5 DEF Tells
<1>7. Stored(h, c, t, FALSE)
  BY <1>1, <1>2 DEF RetireLocator
<1> QED
  BY <1>4, <1>6, <1>7, StoredKeeps

LEMMA RemoveRootKeeps ==
    ASSUME CInv, NEW h, NEW r \in Root, CatRemoveMediaRoot(h, r)
    PROVE  CInv'
<1>1. PICK c : c = AfterRootDelete(copy, r)
  OBVIOUS
<1>2. /\ copy' = c /\ file' = file /\ told' = told /\ telling' = telling
      /\ tainted' = tainted /\ spoiled' = spoiled /\ walk' = walk
  BY <1>1 DEF CatRemoveMediaRoot
<1>3. /\ Sound(c) /\ c.assets = copy.assets /\ c.reps = copy.reps
      /\ c.resources = copy.resources /\ c.members = copy.members
      /\ Present(c) = Present(copy)
  BY <1>1, RootDeleteKeeps DEF CInv
<1>4. Tells(telling', copy', ~spoiled' /\ ~tainted')
  BY <1>2, <1>3 DEF CInv, Tells
<1> QED
  BY <1>2, <1>3, <1>4 DEF CInv

LEMMA CatCommitKeeps ==
    ASSUME CInv, NEW h, CatCommit(h)
    PROVE  CInv'
<1>1. /\ file' = copy /\ copy' = copy /\ told' = telling /\ telling' = telling
      /\ spoiled' = (spoiled \/ tainted) /\ tainted' = FALSE
      /\ walk' = IF walk.done THEN walk ELSE [walk EXCEPT !.always = @ \cap Result(copy, walk.query)]
  BY DEF CatCommit, Watched
<1>2. /\ spoiled' \in BOOLEAN /\ tainted' \in BOOLEAN
      /\ (~spoiled' => ~spoiled /\ ~tainted)
  BY <1>1 DEF CInv
<1>3. Tells(told', file', ~spoiled') /\ Tells(telling', copy', ~spoiled' /\ ~tainted')
  BY <1>1, <1>2 DEF CInv, Tells
<1>4. Walks(walk', file')
  <2>1. CASE walk.done
    BY <1>1, <2>1 DEF CInv, Walks
  <2>2. CASE ~walk.done
    <3>1. PICK S : S = Result(copy, walk.query)
      OBVIOUS
    <3>2. walk' = [walk EXCEPT !.always = @ \cap S] /\ walk \in WalkType
      BY <1>1, <2>2, <3>1 DEF CInv, Walks
    <3>3. /\ walk' \in WalkType /\ walk'.always = walk.always \cap S
          /\ walk'.done = walk.done /\ walk'.query = walk.query
          /\ walk'.cursor = walk.cursor /\ walk'.got = walk.got
      BY <3>2 DEF WalkType
    <3> QED
      BY <1>1, <2>2, <3>1, <3>3 DEF CInv, Walks
  <2> QED
    BY <2>1, <2>2
<1> QED
  BY <1>1, <1>2, <1>3, <1>4 DEF CInv

LEMMA CatAbandonKeeps ==
    ASSUME CInv, NEW h, CatAbandon(h)
    PROVE  CInv'
<1>1. /\ copy' = file /\ telling' = told /\ tainted' = FALSE
      /\ file' = file /\ told' = told /\ spoiled' = spoiled /\ walk' = walk
  BY DEF CatAbandon
<1>2. Tells(telling', copy', ~spoiled' /\ ~tainted')
  BY <1>1 DEF CInv, Tells
<1> QED
  BY <1>1, <1>2 DEF CInv

LEMMA StartWalkKeeps ==
    ASSUME CInv, NEW q \in Queries, StartWalk(q)
    PROVE  CInv'
<1>1. PICK S : S = Result(file, q)
  OBVIOUS
<1>2. /\ walk' = [query |-> q, cursor |-> 0, got |-> {}, always |-> S, done |-> FALSE]
      /\ file' = file /\ copy' = copy /\ told' = told /\ telling' = telling
      /\ tainted' = tainted /\ spoiled' = spoiled
  BY <1>1 DEF StartWalk, catalogue
<1>3. S \in SUBSET (Nat \ {0})
  BY <1>1, KeysAreNumbers DEF CInv
<1>4. Walks(walk', file')
  BY <1>1, <1>2, <1>3 DEF Walks, WalkType
<1> QED
  BY <1>2, <1>4 DEF CInv

LEMMA NextPageKeeps ==
    ASSUME CInv, NextPage
    PROVE  CInv'
<1> DEFINE rows == {k \in Result(file, walk.query) : k > walk.cursor}
           page == First(Limit, rows)
           next == FirstOf({c \in page \cup {walk.cursor} : \A k \in page : k <= c})
<1>1. /\ ~walk.done
      /\ file' = file /\ copy' = copy /\ told' = told /\ telling' = telling
      /\ tainted' = tainted /\ spoiled' = spoiled
  BY DEF NextPage, catalogue
<1>2. \/ walk' = NoWalk
      \/ walk' = [walk EXCEPT !.got = @ \cup page, !.done = (page = rows), !.cursor = next]
  BY DEF NextPage
<1>3. /\ walk \in WalkType /\ walk.cursor \in Nat
      /\ walk.query \in Queries /\ walk.always \subseteq Result(file, walk.query)
      /\ \A k \in walk.always : k <= walk.cursor => k \in walk.got
  BY <1>1 DEF CInv, Walks, WalkType
<1>4. rows \in SUBSET Nat /\ \A k \in rows : k > walk.cursor
  BY <1>3, KeysAreNumbers DEF CInv
<1>5. Result(file, walk.query) \in SUBSET Nat
  BY <1>3, KeysAreNumbers DEF CInv
<1>6. Limit \in Nat
  BY LimitAssumption
<1>7. /\ page \in SUBSET rows
      /\ \A k \in page, j \in rows : j <= k => j \in page
  <2> HIDE DEF rows
  <2>1. page \in SUBSET rows
    BY DEF First
  <2> QED
    BY <1>4, <1>6, <2>1, FirstMeans
<1>8. next \in page \cup {walk.cursor} /\ \A k \in page : k <= next
  BY <1>3, <1>4, <1>6, CursorMoves
<1>9. \A k \in Result(file, walk.query) : k \in rows <=> k > walk.cursor
  OBVIOUS
<1> HIDE DEF rows, page, next
<1>10. CASE walk' = NoWalk
  <2>1. Walks(walk', file')
    BY <1>10 DEF Walks, NoWalk, WalkType
  <2> QED
    BY <1>1, <2>1 DEF CInv
<1>11. CASE walk' = [walk EXCEPT !.got = @ \cup page, !.done = (page = rows), !.cursor = next]
  <2>1. next \in Nat /\ page \in SUBSET Nat /\ (page = rows) \in BOOLEAN
    BY <1>3, <1>4, <1>7, <1>8
  <2>2. /\ walk' \in WalkType
        /\ walk'.got = walk.got \cup page /\ walk'.done = (page = rows)
        /\ walk'.cursor = next /\ walk'.query = walk.query /\ walk'.always = walk.always
    BY <1>3, <1>11, <2>1 DEF WalkType
  <2>3. ASSUME NEW k \in walk.always, k <= next PROVE k \in walk.got \cup page
    <3>1. k \in Result(file, walk.query) /\ k \in Nat
      BY <1>3, <1>5
    <3>2. CASE k <= walk.cursor
      BY <1>3, <3>2
    <3>3. CASE k > walk.cursor
      <4>1. k \in rows
        BY <1>9, <3>1, <3>3
      <4>2. next \in page
        BY <1>3, <1>8, <2>1, <2>3, <3>1, <3>3
      <4> QED
        BY <1>7, <2>3, <4>1, <4>2
    <3> QED
      BY <1>3, <3>1, <3>2, <3>3
  <2>4. ASSUME page = rows, NEW k \in walk.always PROVE k \in walk.got \cup page
    <3>1. k \in Result(file, walk.query) /\ k \in Nat
      BY <1>3, <1>5
    <3>2. k <= walk.cursor \/ k \in rows
      BY <1>3, <1>9, <3>1
    <3> QED
      BY <1>3, <2>4, <3>2
  <2>5. Walks(walk', file')
    BY <1>1, <1>3, <2>2, <2>3, <2>4 DEF Walks
  <2> QED
    BY <1>1, <2>5 DEF CInv
<1> QED
  BY <1>2, <1>10, <1>11

LEMMA CInvStep == CInv /\ [CatNext]_catVars => CInv'
<1> SUFFICES ASSUME CInv, [CatNext]_catVars PROVE CInv'
  OBVIOUS
<1>1. ASSUME UNCHANGED <<catalogue, walk>> PROVE CInv'
  <2>1. /\ file' = file /\ copy' = copy /\ told' = told /\ telling' = telling
        /\ tainted' = tainted /\ spoiled' = spoiled /\ walk' = walk
    BY <1>1 DEF catalogue
  <2> QED
    BY <2>1 DEF CInv
<1>2. CASE UNCHANGED catVars
  BY <1>1, <1>2 DEF catVars
<1>3. ASSUME NEW h \in Handle, RootStep(h) PROVE CInv'
  BY <1>1, <1>3 DEF RootStep
<1>4. ASSUME NEW h \in Handle, CatCommit(h) \/ CatAbandon(h) PROVE CInv'
  BY <1>4, CatCommitKeeps, CatAbandonKeeps
<1>5. ASSUME NEW h \in Handle, NEW r \in Root, CatRemoveMediaRoot(h, r) PROVE CInv'
  BY <1>5, RemoveRootKeeps
<1>6. ASSUME NEW h \in Handle, NEW r \in Rep, Import(h, r) PROVE CInv'
  BY <1>6, ImportKeeps
<1>7. ASSUME NEW h \in Handle, NEW l \in Locator,
             RetireLocator(h, l) \/ \E root \in Root \cup {NoRoot} : AddLocator(h, l, root)
      PROVE  CInv'
  BY <1>7, RetireLocatorKeeps, AddLocatorKeeps
<1>8. CASE NextPage
  BY <1>8, NextPageKeeps
<1>9. ASSUME NEW q \in Queries, StartWalk(q) PROVE CInv'
  BY <1>9, StartWalkKeeps
<1> QED
  BY <1>2, <1>3, <1>4, <1>5, <1>6, <1>7, <1>8, <1>9 DEF CatNext

(* The committed file, the open transaction, what the feed says of either  *)
(* and the reader's traversal stay as described, whatever is imported in   *)
(* part, retired, loses its root, is committed or taken back.              *)
THEOREM CatalogueIsSound == CatSpec => []CInv
BY CInvInit, CInvStep, PTL DEF CatSpec

(* The tables that triggers keep are, after every statement, those that    *)
(* the rows make (012_query_support.sql).                                  *)
THEOREM DerivedTablesAlwaysFollow == CatSpec => []DerivedTablesFollow
<1>1. CInv => DerivedTablesFollow
  BY DEF CInv, Sound, Follows, DerivedTablesFollow
<1> QED
  BY <1>1, CatalogueIsSound, PTL

(* The feed never speaks of what the file does not hold; and it speaks of  *)
(* all of it, unless a host committed what a failed call had left.         *)
THEOREM FeedAlwaysTellsCatalogue == CatSpec => []FeedTellsCatalogue
<1>1. CInv => FeedTellsCatalogue
  <2> SUFFICES ASSUME CInv PROVE FeedTellsCatalogue
    OBVIOUS
  <2>1. Tells(told, file, ~spoiled) /\ told \in ToldType
    BY DEF CInv, Tells
  <2>2. DOMAIN told = {"assets", "reps", "resources", "members", "locators"}
        /\ told = [assets |-> told.assets, reps |-> told.reps, resources |-> told.resources,
                   members |-> told.members, locators |-> told.locators]
    BY <2>1 DEF ToldType
  <2>3. \A part \in DOMAIN told : told[part] \subseteq Rows(file)[part]
    BY <2>1, <2>2 DEF Tells, Rows
  <2>4. ~spoiled => told = Rows(file)
    BY <2>1, <2>2 DEF Tells, Rows
  <2> QED
    BY <2>1, <2>3, <2>4 DEF FeedTellsCatalogue, Tells
<1> QED
  BY <1>1, CatalogueIsSound, PTL

(* A traversal returns everything that matches from its first page to its  *)
(* last, for every query and page size.                                    *)
THEOREM TraversalsAreComplete == CatSpec => []TraversalIsComplete
<1>1. CInv => TraversalIsComplete
  BY DEF CInv, Walks, TraversalIsComplete
<1> QED
  BY <1>1, CatalogueIsSound, PTL

(* The calls on the catalogue share the transactions of the media roots,   *)
(* so that what is proved of MediaRoots holds beside them.                 *)
THEOREM CatalogueSharesTransactions == CatSpec => Spec
<1>1. CatInit => Init
  BY DEF CatInit
<1>2. [CatNext]_catVars => [Next]_vars
  <2> SUFFICES ASSUME [CatNext]_catVars PROVE [Next]_vars
    OBVIOUS
  <2>1. CASE UNCHANGED catVars
    BY <2>1 DEF catVars
  <2>2. ASSUME NEW h \in Handle, RootStep(h) PROVE [Next]_vars
    BY <2>2 DEF RootStep, Next
  <2>3. ASSUME NEW h \in Handle, CatCommit(h) \/ CatAbandon(h) PROVE [Next]_vars
    BY <2>3 DEF CatCommit, CatAbandon, Next
  <2>4. ASSUME NEW h \in Handle, NEW r \in Root, CatRemoveMediaRoot(h, r) PROVE [Next]_vars
    BY <2>4 DEF CatRemoveMediaRoot, Next
  <2>5. ASSUME NEW h \in Handle, NEW r \in Rep, Import(h, r) PROVE [Next]_vars
    BY <2>5 DEF Import, ImportOriginal, AddRepresentation, Finish, Stored
  <2>6. ASSUME NEW h \in Handle, NEW l \in Locator,
               RetireLocator(h, l) \/ \E root \in Root \cup {NoRoot} : AddLocator(h, l, root)
        PROVE  [Next]_vars
    BY <2>6 DEF RetireLocator, AddLocator, Stored
  <2>7. CASE NextPage \/ \E q \in Queries : StartWalk(q)
    BY <2>7 DEF NextPage, StartWalk
  <2> QED
    BY <2>1, <2>2, <2>3, <2>4, <2>5, <2>6, <2>7 DEF CatNext
<1> QED
  BY <1>1, <1>2, PTL DEF CatSpec, Spec
=============================================================================
