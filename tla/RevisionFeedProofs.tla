------------------------- MODULE RevisionFeedProofs -------------------------
(***************************************************************************)
(* Proofs about RevisionFeed for every set of revisions and filters, every *)
(* page size and any number of commits.  The inductive invariant says, for *)
(* each place of the observer thread, how the page it holds lies in the    *)
(* feed: what is still to deliver follows, without a gap, the last         *)
(* revision handed over, and with a filter the page is every matching      *)
(* revision between the cursor and its end.  A traversal of the changed    *)
(* objects has returned what lies behind its position.                     *)
(***************************************************************************)
EXTENDS RevisionFeed, FiniteSetTheorems, SequenceTheorems, WellFoundedInduction, TLAPS

(* A set of numbers below a bound has a smallest and a largest.            *)
LEMMA SmallestOf ==
    ASSUME NEW S \in SUBSET Nat, S # {}
    PROVE  \E m \in S : \A n \in S : m <= n
<1>1. PICK m \in S : \A n \in S : ~(<<n, m>> \in OpToRel(<, Nat))
  BY NatLessThanWellFounded, WFMin
<1>2. ASSUME NEW n \in S PROVE m <= n
  <2>1. ~(n < m)
    BY <1>1 DEF OpToRel
  <2> QED
    BY <2>1
<1> QED
  BY <1>2

LEMMA LargestOf ==
    ASSUME NEW S \in SUBSET Nat, S # {}, NEW bound \in Nat, \A s \in S : s <= bound
    PROVE  \E m \in S : \A n \in S : n <= m
<1> DEFINE gaps == {bound - s : s \in S}
<1>1. gaps \in SUBSET Nat /\ gaps # {}
  <2>1. \A s \in S : bound - s \in Nat
    OBVIOUS
  <2> QED
    BY <2>1
<1>2. PICK g \in gaps : \A h \in gaps : g <= h
  BY <1>1, SmallestOf
<1>3. PICK m \in S : g = bound - m
  BY <1>2
<1>4. ASSUME NEW n \in S PROVE n <= m
  <2>1. bound - n \in gaps
    OBVIOUS
  <2>2. bound - m <= bound - n
    BY <1>2, <1>3, <2>1
  <2> QED
    BY <2>2
<1> QED
  BY <1>4
-----------------------------------------------------------------------------
(***************************************************************************)
(* Pages.                                                                  *)
(***************************************************************************)

(* ORDER BY sequence LIMIT n, spelled out.                                 *)
LEMMA PageMeans ==
    ASSUME NEW rows, NEW keys, NEW n
    PROVE  Page(rows, keys, n) <=>
              /\ rows \subseteq keys
              /\ \A r \in rows, k \in keys : k < r => k \in rows
              /\ Cardinality(rows) <= n
              /\ rows = keys \/ Cardinality(rows) = n
BY DEF Page, PageBy

(* The codes of the table and of the filters tell the types apart.         *)
LEMMA CodesAreTypes ==
    ASSUME NEW type \in EventType
    PROVE  TypeCode[type] \in DOMAIN Types /\ Types[TypeCode[type]] = type
<1>1. \E c \in DOMAIN Types : Types[c] = type
  BY Zenon DEF EventType
<1>2. TypeCode[type] = Code(Types, type)
  BY Zenon DEF TypeCode
<1>3. Code(Types, type) \in DOMAIN Types /\ Types[Code(Types, type)] = type
  BY <1>1, Zenon DEF Code
<1> QED
  BY <1>2, <1>3, Zenon

(* A revision matches exactly when one of the codes asked for is in it.    *)
LEMMA MatchesByCode ==
    ASSUME feed \in Seq(Revision), wanted \in Filter, wanted # {}, NEW s \in DOMAIN feed
    PROVE  Matches(s) <=> \E code \in Asked : Has(s, code)
<1>1. feed[s] \in Revision
  BY LenProperties, ElementOfSeq
<1> DEFINE r == feed[s]
<1>2. \A e \in Range(r) : e.type \in EventType
  BY <1>1, RevisionAssumption DEF IsEvent
<1>3. \A e \in Range(r) : RowOf[e].code = TypeCode[e.type]
  <2> SUFFICES ASSUME NEW e \in Range(r) PROVE RowOf[e].code = TypeCode[e.type]
    OBVIOUS
  <2>1. e \in UNION {Range(q) : q \in Revision}
    BY <1>1
  <2>2. RowOf[e] = Stored(e)
    BY <2>1, Zenon DEF RowOf
  <2>3. Stored(e).code = TypeCode[e.type]
    BY DEF Stored
  <2> QED
    BY <2>2, <2>3
<1>4. \A code : Has(s, code) <=> \E e \in Range(r) : code = TypeCode[e.type]
  <2>1. RowsOf[r] = {RowOf[e] : e \in Range(r)}
    BY <1>1 DEF RowsOf
  <2>2. CodesOf[r] = {row.code : row \in RowsOf[r]}
    BY <1>1 DEF CodesOf
  <2> QED
    BY <1>3, <2>1, <2>2 DEF Has
<1>5. TypesOf[r] = {e.type : e \in Range(r)}
  BY <1>1 DEF TypesOf
<1>6. wanted \subseteq EventType
  BY FilterAssumption
<1>7. \A type \in wanted : StoredCode(FilteredType(FilterCode(type))) = TypeCode[type]
  <2> SUFFICES ASSUME NEW type \in wanted
               PROVE  StoredCode(FilteredType(FilterCode(type))) = TypeCode[type]
    OBVIOUS
  <2>1. Types[TypeCode[type]] = type
    BY <1>6, CodesAreTypes
  <2> QED
    BY <2>1, Zenon DEF StoredCode, FilteredType, FilterCode
<1>8. \A code : code \in Asked <=> \E type \in wanted : code = TypeCode[type]
  BY <1>7, Zenon DEF Asked
<1>9. \A t, u \in EventType : TypeCode[t] = TypeCode[u] => t = u
  BY CodesAreTypes, Zenon
<1> HIDE DEF r
<1>10. Matches(s) <=> \E type \in wanted : type \in TypesOf[r]
  BY Zenon DEF Matches, r
<1>11. ASSUME Matches(s) PROVE \E code \in Asked : Has(s, code)
  <2>1. PICK type \in wanted : type \in TypesOf[r]
    BY <1>10, <1>11
  <2>2. PICK e \in Range(r) : type = e.type
    BY <1>5, <2>1
  <2>3. TypeCode[type] \in Asked /\ Has(s, TypeCode[type])
    BY <1>4, <1>8, <2>1, <2>2
  <2> QED
    BY <2>3
<1>12. ASSUME NEW code \in Asked, Has(s, code) PROVE Matches(s)
  <2>1. PICK type \in wanted : code = TypeCode[type]
    BY <1>8
  <2>2. PICK e \in Range(r) : code = TypeCode[e.type]
    BY <1>4, <1>12
  <2>3. type = e.type
    BY <1>2, <1>6, <1>9, <2>1, <2>2
  <2>4. type \in TypesOf[r]
    BY <1>5, <2>3
  <2> QED
    BY <1>10, <2>1, <2>4
<1> QED
  BY <1>11, <1>12

(* The first page of the union of one bounded range per code is the first  *)
(* page of what matches: a range that was cut short fills the page before  *)
(* anything behind its end could enter it.                                 *)
LEMMA FilteredPage ==
    ASSUME feed \in Seq(Revision), wanted \in Filter, wanted # {}, NEW cursor \in Nat,
           NEW rows, FilteredRows(rows, cursor)
    PROVE  Page(rows, {s \in Matching : s > cursor}, Limit)
<1> DEFINE M == {s \in Matching : s > cursor}
<1>1. PICK branch \in [Asked -> SUBSET After(cursor)] :
         /\ \A code \in Asked : Page(branch[code], OfKind(code, cursor), Limit)
         /\ Page(rows, UNION {branch[code] : code \in Asked}, Limit)
  BY DEF FilteredRows
<1> DEFINE U == UNION {branch[code] : code \in Asked}
<1>2. /\ DOMAIN feed = 1..Len(feed) /\ Len(feed) \in Nat
      /\ After(cursor) \subseteq 1..Len(feed)
  BY LenProperties DEF After
<1>3. \A s : s \in M <=> \E code \in Asked : s \in OfKind(code, cursor)
  BY MatchesByCode DEF Matching, OfKind, After
<1>4. \A code \in Asked :
         /\ branch[code] \subseteq OfKind(code, cursor)
         /\ \A r \in branch[code], k \in OfKind(code, cursor) : k < r => k \in branch[code]
         /\ Cardinality(branch[code]) <= Limit
         /\ branch[code] = OfKind(code, cursor) \/ Cardinality(branch[code]) = Limit
  BY <1>1, PageMeans
<1>5. /\ rows \subseteq U
      /\ \A r \in rows, k \in U : k < r => k \in rows
      /\ Cardinality(rows) <= Limit
      /\ rows = U \/ Cardinality(rows) = Limit
  BY <1>1, PageMeans
<1>6. U \subseteq M /\ M \subseteq 1..Len(feed)
  BY <1>2, <1>3, <1>4 DEF Matching
<1>7. IsFiniteSet(rows) /\ Cardinality(rows) \in Nat
  <2>1. IsFiniteSet(1..Len(feed)) /\ rows \in SUBSET (1..Len(feed))
    BY <1>2, <1>5, <1>6, FS_Interval
  <2>2. IsFiniteSet(rows)
    BY <2>1, FS_Subset
  <2> QED
    BY <2>2, FS_CardinalityType
<1>8. \A u \in U : \E code \in Asked : u \in branch[code]
  OBVIOUS
<1>9. \A code \in Asked : branch[code] \subseteq U
  OBVIOUS
<1> HIDE DEF U, M
<1>11. ASSUME NEW k \in M, k \notin U
       PROVE  \E code \in Asked : /\ Cardinality(branch[code]) = Limit
                                  /\ branch[code] \subseteq U
                                  /\ \A b \in branch[code] : b < k
  <2>1. PICK code \in Asked : k \in OfKind(code, cursor)
    BY <1>3
  <2>2. k \notin branch[code] /\ branch[code] \subseteq U
    BY <1>9, <1>11
  <2>3. Cardinality(branch[code]) = Limit
    BY <1>4, <2>1, <2>2
  <2>4. ASSUME NEW b \in branch[code] PROVE b < k
    <3>1. b # k /\ ~(k < b)
      BY <1>4, <2>1, <2>2
    <3>2. b \in Nat /\ k \in Nat
      BY <1>2, <1>6, <2>2
    <3> QED
      BY <3>1, <3>2
  <2> QED
    BY <2>2, <2>3, <2>4
<1>12. ASSUME NEW r \in rows, NEW k \in M, k < r PROVE k \in rows
  <2>1. CASE k \in U
    BY <1>5, <1>12, <2>1
  <2>2. CASE k \notin U
    <3>1. PICK code \in Asked : /\ Cardinality(branch[code]) = Limit
                                /\ branch[code] \subseteq U
                                /\ \A b \in branch[code] : b < k
      BY <1>11, <2>2
    <3> DEFINE B == branch[code]
    <3>2. r \in Nat /\ k \in Nat /\ B \subseteq Nat
      BY <1>2, <1>5, <1>6, <3>1
    <3>3. \A b \in B : b < r
      BY <1>12, <3>1, <3>2
    <3>4. B \subseteq rows /\ r \notin B
      BY <1>5, <3>1, <3>2, <3>3
    <3>5. IsFiniteSet(B)
      BY <1>7, <3>4, FS_Subset
    <3>6. B = rows
      <4>1. Cardinality(B) <= Cardinality(rows)
        BY <1>7, <3>4, FS_Subset
      <4>2. Cardinality(rows) = Cardinality(B)
        BY <1>5, <1>7, <3>1, <4>1, LimitAssumption
      <4> QED
        BY <1>7, <3>4, <4>2, FS_Subset
    <3> QED
      BY <3>4, <3>6
  <2> QED
    BY <2>1, <2>2
<1>13. rows = M \/ Cardinality(rows) = Limit
  <2> SUFFICES ASSUME rows # M, rows = U PROVE Cardinality(rows) = Limit
    BY <1>5
  <2>1. PICK k \in M : k \notin U
    BY <1>6
  <2>2. PICK code \in Asked : Cardinality(branch[code]) = Limit /\ branch[code] \subseteq U
    BY <1>11, <2>1
  <2>3. Cardinality(branch[code]) <= Cardinality(rows)
    BY <1>7, <2>2, FS_Subset
  <2> QED
    BY <1>5, <1>7, <2>2, <2>3, LimitAssumption
<1>14. rows \subseteq M
  BY <1>5, <1>6
<1>15. Page(rows, M, Limit)
  BY <1>5, <1>12, <1>13, <1>14, PageMeans
<1> QED
  BY <1>15 DEF M
-----------------------------------------------------------------------------
(***************************************************************************)
(* The inductive invariant.                                                *)
(***************************************************************************)

Scan == /\ DOMAIN scan = {"pc", "after", "began", "last", "got"}
        /\ scan.pc \in {"off", "paging", "done"}
        /\ scan.after \in Nat /\ scan.began \in Nat /\ scan.after <= scan.began

Between(a, b) == {s \in Matching : a < s /\ s <= b}

(* What the callback was called with reaches to the last revision handed   *)
(* over, which no cursor has passed.                                       *)
Handed ==
    /\ saved <= observer.cursor /\ observer.cursor <= observer.upto
    /\ observer.upto <= Len(feed)
    /\ \A s \in Matching : s <= observer.upto => s \in told

(* What is still to deliver follows the last revision without a gap.       *)
RestFollows ==
    /\ observer.rest \subseteq Matching
    /\ \A r \in observer.rest : observer.upto < r
    /\ \A r \in observer.rest, k \in Matching : observer.upto < k /\ k < r => k \in observer.rest

(* Before a page is delivered nothing is ahead of the cursor.              *)
Waiting == observer.pc \in {"waiting", "reading", "closing_page"} =>
               observer.upto = observer.cursor

ReadsMatches == observer.pc \in {"reading", "closing_page"} => wanted # {}

(* The rows are the first page of what matched when they were read.        *)
RowsRead ==
    observer.pc = "closing_page" =>
        /\ observer.snapshot <= Len(feed) /\ observer.rest = observer.rows
        /\ Page(observer.rows, Between(observer.cursor, observer.snapshot), Limit)

(* With a filter the page is exact, and what is left of it is known.       *)
PageHeld ==
    observer.pc \in {"delivering", "called"} /\ wanted # {} =>
        /\ observer.cursor <= observer.through /\ observer.through <= Len(feed)
        /\ observer.rows = Between(observer.cursor, observer.through)
        /\ observer.rest = {s \in observer.rows : s > observer.upto}

FInv ==
    /\ TypeOK /\ Scan
    /\ Handed /\ Waiting /\ ReadsMatches
    /\ observer.pc \in {"closing_page", "delivering", "called"} => RestFollows
    /\ RowsRead /\ PageHeld

(* The feed and what matches in it.                                        *)
LEMMA FeedFacts ==
    ASSUME TypeOK
    PROVE  /\ DOMAIN feed = 1..Len(feed) /\ Len(feed) \in Nat
           /\ Matching \subseteq 1..Len(feed)
           /\ wanted = {} => Matching = 1..Len(feed)
           /\ saved \in Nat /\ observer \in Thread
           /\ observer.cursor \in Nat /\ observer.upto \in Nat
           /\ observer.snapshot \in Nat /\ observer.through \in Nat
           /\ observer.rest \subseteq Nat /\ observer.rows \subseteq Nat
<1>1. DOMAIN feed = 1..Len(feed) /\ Len(feed) \in Nat
  BY LenProperties DEF TypeOK
<1>2. observer \in Thread /\ saved \in 0..Len(feed)
  BY DEF TypeOK
<1>3. /\ Matching \subseteq 1..Len(feed)
      /\ wanted = {} => Matching = 1..Len(feed)
  BY <1>1 DEF Matching, Matches
<1>4. /\ observer.cursor \in Nat /\ observer.upto \in Nat
      /\ observer.snapshot \in Nat /\ observer.through \in Nat
      /\ observer.rest \subseteq Nat /\ observer.rows \subseteq Nat
  BY <1>2 DEF Thread
<1> QED
  BY <1>1, <1>2, <1>3, <1>4

(* A thread that begins anew.                                              *)
LEMMA NewThreads ==
    ASSUME NEW pc \in Steps, NEW cursor \in Nat
    PROVE  /\ NewThread(pc, cursor) \in Thread
           /\ NewThread(pc, cursor).pc = pc /\ NewThread(pc, cursor).cursor = cursor
           /\ NewThread(pc, cursor).upto = cursor
BY DEF NewThread, Thread

LEMMA FInvInit == Init => FInv
<1> SUFFICES ASSUME Init PROVE FInv
  OBVIOUS
<1>1. /\ feed = <<>> /\ wanted \in Filter /\ saved = 0 /\ told = {}
      /\ observer = NewThread("off", 0) /\ scan = NoScan
      /\ cancelled = FALSE /\ error = FALSE
  BY DEF Init
<1>2. feed \in Seq(Revision) /\ Len(feed) = 0
  BY <1>1, EmptySeq
<1>3. /\ observer \in Thread /\ observer.pc = "off"
      /\ observer.cursor = 0 /\ observer.upto = 0
  BY <1>1, NewThreads DEF Steps
<1>4. Scan
  BY <1>1 DEF Scan, NoScan
<1>5. saved \in 0..Len(feed) /\ told \subseteq DOMAIN feed
  BY <1>1, <1>2
<1>6. cancelled \in BOOLEAN /\ error \in BOOLEAN
  BY <1>1
<1>7. TypeOK
  BY <1>1, <1>2, <1>3, <1>4, <1>5, <1>6 DEF TypeOK, Scan
<1>8. Matching = {}
  BY <1>2, <1>7, FeedFacts
<1> QED
  BY <1>1, <1>2, <1>3, <1>4, <1>7, <1>8
     DEF FInv, Handed, Waiting, ReadsMatches, RowsRead, PageHeld

(* A commit adds one number at the end, which matches or not.              *)
LEMMA MatchingGrows ==
    ASSUME TypeOK, NEW events \in Revision, Commit(events)
    PROVE  /\ feed' \in Seq(Revision) /\ Len(feed') = Len(feed) + 1
           /\ DOMAIN feed \subseteq DOMAIN feed'
           /\ \A s : s <= Len(feed) => (s \in Matching' <=> s \in Matching)
           /\ Matching' \subseteq Matching \cup {Len(feed) + 1}
           /\ Matching \subseteq Matching'
<1>1. /\ feed \in Seq(Revision) /\ feed' = Append(feed, events) /\ wanted' = wanted
  BY DEF TypeOK, Commit
<1>2. /\ feed' \in Seq(Revision) /\ Len(feed') = Len(feed) + 1
      /\ \A i \in 1..Len(feed) : feed'[i] = feed[i]
  BY <1>1, AppendProperties
<1>3. /\ DOMAIN feed = 1..Len(feed) /\ Len(feed) \in Nat
      /\ DOMAIN feed' = 1..(Len(feed) + 1)
  BY <1>1, <1>2, LenProperties
<1>4. \A s \in 1..Len(feed) : Matches(s)' <=> Matches(s)
  BY <1>1, <1>2 DEF Matches
<1>5. \A s : s \in Matching <=> s \in 1..Len(feed) /\ Matches(s)
  BY <1>3 DEF Matching
<1>6. \A s : s \in Matching' <=> s \in 1..(Len(feed) + 1) /\ Matches(s)'
  BY <1>3 DEF Matching
<1>7. \A s \in 1..(Len(feed) + 1) : s \in 1..Len(feed) \/ s = Len(feed) + 1
  BY <1>3
<1>8. Matching' \subseteq Matching \cup {Len(feed) + 1}
  BY <1>4, <1>5, <1>6, <1>7
<1>9. Matching \subseteq Matching'
  BY <1>3, <1>4, <1>5, <1>6
<1>10. ASSUME NEW s, s <= Len(feed), s \in Matching' PROVE s \in Matching
  BY <1>3, <1>6, <1>8, <1>10
<1> QED
  BY <1>2, <1>3, <1>8, <1>9, <1>10

LEMMA CommitKeeps ==
    ASSUME FInv, NEW events \in Revision, Commit(events)
    PROVE  FInv'
<1>1. /\ DOMAIN feed = 1..Len(feed) /\ Len(feed) \in Nat
      /\ Matching \subseteq 1..Len(feed)
      /\ saved \in Nat /\ observer \in Thread
      /\ observer.cursor \in Nat /\ observer.upto \in Nat
      /\ observer.snapshot \in Nat /\ observer.through \in Nat
  BY FeedFacts DEF FInv
<1>2. /\ feed' \in Seq(Revision) /\ Len(feed') = Len(feed) + 1
      /\ DOMAIN feed \subseteq DOMAIN feed'
      /\ \A s : s <= Len(feed) => (s \in Matching' <=> s \in Matching)
      /\ Matching' \subseteq Matching \cup {Len(feed) + 1}
      /\ Matching \subseteq Matching'
  BY MatchingGrows DEF FInv
<1>3. UNCHANGED <<wanted, cancelled, saved, observer, error, told, scan>>
  BY DEF Commit
<1>4. TypeOK' /\ Scan'
  <2>1. saved' \in 0..Len(feed') /\ told' \subseteq DOMAIN feed'
    BY <1>1, <1>2, <1>3 DEF FInv, TypeOK
  <2> QED
    BY <1>2, <1>3, <2>1 DEF FInv, TypeOK, Scan
<1>5. Handed'
  <2>1. observer.upto <= Len(feed) /\ \A s \in Matching : s <= observer.upto => s \in told
    BY DEF FInv, Handed
  <2>2. ASSUME NEW s \in Matching', s <= observer.upto PROVE s \in told
    <3>1. s <= Len(feed)
      BY <1>1, <1>2, <2>1, <2>2
    <3> QED
      BY <1>2, <2>1, <2>2, <3>1
  <2>3. observer.upto <= Len(feed')
    BY <1>1, <1>2, <2>1
  <2> QED
    BY <1>3, <2>2, <2>3 DEF FInv, Handed
<1>6. (observer.pc \in {"closing_page", "delivering", "called"} => RestFollows)'
  <2> SUFFICES ASSUME RestFollows PROVE RestFollows'
    BY <1>3 DEF FInv
  <2>1. ASSUME NEW r \in observer.rest, NEW k \in Matching', observer.upto < k, k < r
        PROVE  k \in observer.rest
    <3>1. r \in 1..Len(feed)
      BY <1>1 DEF RestFollows
    <3>2. k \in Nat
      BY <1>1, <1>2
    <3>3. k <= Len(feed)
      BY <2>1, <3>1, <3>2, <1>1
    <3> QED
      BY <1>2, <2>1, <3>3 DEF RestFollows
  <2> QED
    BY <1>2, <1>3, <2>1 DEF RestFollows
<1>7. \A a, b : b \in Nat /\ b <= Len(feed) => Between(a, b)' = Between(a, b)
  <2> SUFFICES ASSUME NEW a, NEW b \in Nat, b <= Len(feed)
               PROVE  {s \in Matching' : a < s /\ s <= b} = {s \in Matching : a < s /\ s <= b}
    BY DEF Between
  <2>1. ASSUME NEW s \in Matching', s <= b PROVE s \in Matching
    <3>1. s <= Len(feed)
      BY <1>1, <1>2, <2>1
    <3> QED
      BY <1>2, <3>1
  <2> QED
    BY <1>2, <2>1
<1>8. RowsRead'
  <2> SUFFICES ASSUME observer.pc = "closing_page"
               PROVE  /\ observer.snapshot <= Len(feed') /\ observer.rest = observer.rows
                      /\ Page(observer.rows, Between(observer.cursor, observer.snapshot)', Limit)
    BY <1>3 DEF RowsRead, Between, Page, PageBy
  <2>1. /\ observer.snapshot <= Len(feed) /\ observer.rest = observer.rows
        /\ Page(observer.rows, Between(observer.cursor, observer.snapshot), Limit)
    BY DEF FInv, RowsRead
  <2>2. Between(observer.cursor, observer.snapshot)' = Between(observer.cursor, observer.snapshot)
    BY <1>1, <1>3, <1>7, <2>1
  <2> QED
    BY <1>1, <1>2, <2>1, <2>2
<1>9. PageHeld'
  <2> SUFFICES ASSUME observer.pc \in {"delivering", "called"}, wanted # {}
               PROVE  /\ observer.cursor <= observer.through /\ observer.through <= Len(feed')
                      /\ observer.rows = Between(observer.cursor, observer.through)'
                      /\ observer.rest = {s \in observer.rows : s > observer.upto}
    BY <1>3 DEF PageHeld
  <2>1. /\ observer.cursor <= observer.through /\ observer.through <= Len(feed)
        /\ observer.rows = Between(observer.cursor, observer.through)
        /\ observer.rest = {s \in observer.rows : s > observer.upto}
    BY DEF FInv, PageHeld
  <2>2. Between(observer.cursor, observer.through)' = Between(observer.cursor, observer.through)
    BY <1>1, <1>3, <1>7, <2>1
  <2> QED
    BY <1>1, <1>2, <2>1, <2>2
<1>10. Waiting' /\ ReadsMatches'
  BY <1>3 DEF FInv, Waiting, ReadsMatches
<1> QED
  BY <1>4, <1>5, <1>6, <1>8, <1>9, <1>10 DEF FInv

(* Steps that leave the feed alone.                                        *)
SameFeed == feed' = feed /\ wanted' = wanted
SameScan == scan' = scan \/ Scan'

LEMMA SameMatching ==
    ASSUME SameFeed
    PROVE  Matching' = Matching /\ \A a, b : Between(a, b)' = Between(a, b)
<1>1. Matching' = Matching
  BY DEF SameFeed, Matching, Matches
<1> QED
  BY <1>1 DEF Between

LEMMA SameTypes ==
    ASSUME TypeOK, Scan, SameFeed, SameScan, observer' \in Thread,
           observer'.cursor <= observer'.upto,
           saved' \in Nat, saved' <= Len(feed), told' \subseteq DOMAIN feed,
           cancelled' \in BOOLEAN, error' \in BOOLEAN
    PROVE  TypeOK' /\ Scan'
<1>1. Scan'
  BY DEF SameScan, Scan
<1>2. saved' \in 0..Len(feed')
  BY FeedFacts DEF SameFeed
<1> QED
  BY <1>1, <1>2 DEF TypeOK, SameFeed, Scan

(* A thread that begins anew from a cursor that passes nothing untold.     *)
LEMMA BeginsAnew ==
    ASSUME FInv, SameFeed, SameScan, NEW pc \in {"off", "waiting", "reading", "ended"},
           NEW cursor \in Nat, observer' = NewThread(pc, cursor),
           pc = "reading" => wanted # {},
           saved' \in Nat, saved' <= cursor, cursor <= Len(feed), told' = told,
           \A s \in Matching : s <= cursor => s \in told,
           cancelled' \in BOOLEAN, error' \in BOOLEAN
    PROVE  FInv'
<1>1. /\ observer' \in Thread /\ observer'.pc = pc
      /\ observer'.cursor = cursor /\ observer'.upto = cursor
  BY NewThreads DEF Steps
<1>2. Len(feed) \in Nat /\ told \subseteq DOMAIN feed
  BY FeedFacts DEF FInv, TypeOK
<1>3. saved' <= Len(feed) /\ observer'.cursor <= observer'.upto
  BY <1>1, <1>2
<1>4. TypeOK' /\ Scan'
  BY <1>1, <1>2, <1>3, SameTypes DEF FInv
<1>5. Handed'
  BY <1>1, SameMatching DEF Handed, SameFeed
<1>6. Waiting' /\ ReadsMatches' /\ RowsRead' /\ PageHeld'
  BY <1>1 DEF Waiting, ReadsMatches, RowsRead, PageHeld, SameFeed
<1>7. observer'.pc \notin {"closing_page", "delivering", "called"}
  BY <1>1
<1> QED
  BY <1>4, <1>5, <1>6, <1>7 DEF FInv

(* Steps of the application and of its reader.                             *)
LEMMA ElsewhereKeeps ==
    ASSUME FInv, SameFeed, SameScan, observer' = observer, told' = told,
           saved' = saved \/ saved' = observer.cursor,
           cancelled' \in BOOLEAN, error' \in BOOLEAN
    PROVE  FInv'
<1>1. /\ saved \in Nat /\ observer \in Thread /\ Len(feed) \in Nat
      /\ observer.cursor \in Nat /\ observer.upto \in Nat
  BY FeedFacts DEF FInv
<1>2. saved <= observer.cursor /\ observer.cursor <= observer.upto /\ observer.upto <= Len(feed)
  BY DEF FInv, Handed
<1>3. saved' \in Nat /\ saved' <= observer.cursor /\ saved' <= Len(feed)
  BY <1>1, <1>2
<1>4. TypeOK' /\ Scan'
  BY <1>1, <1>2, <1>3, SameTypes DEF FInv, TypeOK
<1>5. Handed'
  BY <1>3, SameMatching DEF FInv, Handed, SameFeed
<1>6. Waiting' /\ ReadsMatches' /\ (RestFollows => RestFollows')
  BY SameMatching DEF FInv, Waiting, ReadsMatches, RestFollows, SameFeed
<1>7. RowsRead'
  BY SameMatching DEF FInv, RowsRead, SameFeed, Page, PageBy
<1>8. PageHeld'
  BY SameMatching DEF FInv, PageHeld, SameFeed
<1> QED
  BY <1>4, <1>5, <1>6, <1>7, <1>8 DEF FInv

LEMMA StartKeeps == FInv /\ Start => FInv'
<1> SUFFICES ASSUME FInv, Start PROVE FInv'
  OBVIOUS
<1>1. /\ SameFeed /\ scan' = NoScan /\ saved' = saved /\ told' = told
      /\ observer' = NewThread("waiting", saved)
      /\ cancelled' = FALSE /\ error' = FALSE
  BY DEF Start, SameFeed
<1>2. SameScan
  BY <1>1 DEF SameScan, Scan, NoScan
<1>3. /\ saved \in Nat /\ observer.cursor \in Nat /\ observer.upto \in Nat
      /\ Len(feed) \in Nat /\ Matching \subseteq Nat
  BY FeedFacts DEF FInv
<1>4. /\ saved <= observer.cursor /\ observer.cursor <= observer.upto
      /\ observer.upto <= Len(feed)
      /\ \A s \in Matching : s <= observer.upto => s \in told
  BY DEF FInv, Handed
<1>5. saved <= Len(feed) /\ \A s \in Matching : s <= saved => s \in told
  BY <1>3, <1>4
<1>6. cancelled' \in BOOLEAN /\ error' \in BOOLEAN
  BY <1>1
<1> QED
  BY <1>1, <1>2, <1>3, <1>5, <1>6, BeginsAnew

(* The cursor passes nothing untold, and it is in the feed.                *)
LEMMA CursorIsTold ==
    ASSUME FInv
    PROVE  /\ saved \in Nat /\ observer.cursor \in Nat /\ saved <= observer.cursor
           /\ saved <= Len(feed) /\ observer.cursor <= Len(feed)
           /\ \A s \in Matching : s <= observer.cursor => s \in told
           /\ \A s \in Matching : s <= saved => s \in told
<1>1. /\ saved \in Nat /\ observer.cursor \in Nat /\ observer.upto \in Nat
      /\ Len(feed) \in Nat /\ Matching \subseteq Nat
  BY FeedFacts DEF FInv
<1>2. /\ saved <= observer.cursor /\ observer.cursor <= observer.upto
      /\ observer.upto <= Len(feed)
      /\ \A s \in Matching : s <= observer.upto => s \in told
  BY DEF FInv, Handed
<1> QED
  BY <1>1, <1>2

LEMMA RaisesKeeps == FInv /\ Raises => FInv'
<1> SUFFICES ASSUME FInv, Raises PROVE FInv'
  OBVIOUS
<1>1. /\ SameFeed /\ SameScan /\ saved' = saved /\ told' = told
      /\ observer' = NewThread("ended", observer.cursor)
      /\ cancelled' = cancelled /\ error' = TRUE
  BY DEF Raises, Goto, SameFeed, SameScan
<1>2. cancelled' \in BOOLEAN /\ error' \in BOOLEAN
  BY <1>1 DEF FInv, TypeOK
<1> QED
  BY <1>1, <1>2, CursorIsTold, BeginsAnew

LEMMA CrashKeeps == FInv /\ Crash => FInv'
<1> SUFFICES ASSUME FInv, Crash PROVE FInv'
  OBVIOUS
<1>1. /\ SameFeed /\ SameScan /\ saved' = saved /\ told' = told
      /\ observer' = NewThread("off", saved)
      /\ cancelled' = FALSE /\ error' = FALSE
  BY DEF Crash, Goto, SameFeed, SameScan
<1>2. cancelled' \in BOOLEAN /\ error' \in BOOLEAN
  BY <1>1
<1> QED
  BY <1>1, <1>2, CursorIsTold, BeginsAnew

LEMMA ElsewhereSteps == FInv /\ (Stop \/ Store \/ StartScan \/ ScanPage \/ UNCHANGED vars) => FInv'
<1> SUFFICES ASSUME FInv, Stop \/ Store \/ StartScan \/ ScanPage \/ UNCHANGED vars PROVE FInv'
  OBVIOUS
<1>1. cancelled \in BOOLEAN /\ error \in BOOLEAN
  BY DEF FInv, TypeOK
<1>2. CASE Stop
  <2>1. /\ SameFeed /\ SameScan /\ saved' = saved /\ told' = told /\ observer' = observer
        /\ cancelled' = TRUE /\ error' = error
    BY <1>2 DEF Stop, SameFeed, SameScan
  <2>2. cancelled' \in BOOLEAN /\ error' \in BOOLEAN
    BY <1>1, <2>1
  <2> QED
    BY <2>1, <2>2, ElsewhereKeeps
<1>3. CASE Store \/ UNCHANGED vars
  BY <1>1, <1>3, ElsewhereKeeps DEF Store, vars, SameFeed, SameScan
<1>4. CASE StartScan
  <2>1. /\ SameFeed /\ saved' = saved /\ told' = told /\ observer' = observer
        /\ cancelled' = cancelled /\ error' = error
        /\ scan' = [NoScan EXCEPT !.pc = "paging", !.after = saved, !.began = Len(feed)]
    BY <1>4 DEF StartScan, Reader, SameFeed
  <2>2. saved \in Nat /\ Len(feed) \in Nat /\ saved <= Len(feed)
    BY CursorIsTold, FeedFacts DEF FInv
  <2>3. SameScan
    BY <2>1, <2>2 DEF SameScan, Scan, NoScan
  <2> QED
    BY <1>1, <2>1, <2>3, ElsewhereKeeps
<1>5. CASE ScanPage
  <2>1. PICK page \in SUBSET Changed :
           \/ Reader([scan EXCEPT !.pc = "done", !.last = NoTarget,
                                  !.got = @ \cup ObjectsOf(page)])
           \/ Reader([scan EXCEPT !.last = LastOf(page), !.got = @ \cup ObjectsOf(page)])
    BY <1>5 DEF ScanPage
  <2>2. /\ SameFeed /\ saved' = saved /\ told' = told /\ observer' = observer
        /\ cancelled' = cancelled /\ error' = error
    BY <2>1 DEF Reader, SameFeed
  <2>3. SameScan
    BY <2>1 DEF FInv, Reader, SameScan, Scan
  <2> QED
    BY <1>1, <2>2, <2>3, ElsewhereKeeps
<1> QED
  BY <1>2, <1>3, <1>4, <1>5
-----------------------------------------------------------------------------
(***************************************************************************)
(* Steps of the observer thread that keep its page.                        *)
(***************************************************************************)

(* A thread that goes on: its cursor and the last revision handed over do  *)
(* not pass what the callback was called with.                             *)
LEMMA GoesOn ==
    ASSUME FInv, SameFeed, SameScan, observer' \in Thread, saved' = saved,
           observer'.cursor \in {observer.cursor, observer.upto},
           observer'.upto = observer.upto, told' = told,
           cancelled' = cancelled, error' = error
    PROVE  TypeOK' /\ Scan' /\ Handed'
<1>1. /\ saved \in Nat /\ observer \in Thread /\ Len(feed) \in Nat
      /\ observer.cursor \in Nat /\ observer.upto \in Nat
  BY FeedFacts DEF FInv
<1>2. saved <= observer.cursor /\ observer.cursor <= observer.upto /\ observer.upto <= Len(feed)
  BY DEF FInv, Handed
<1>3. saved <= observer'.cursor /\ observer'.cursor <= observer'.upto
  BY <1>1, <1>2
<1>4. TypeOK' /\ Scan'
  BY <1>1, <1>2, <1>3, SameTypes DEF FInv, TypeOK
<1>5. Handed'
  BY <1>2, <1>3, SameMatching DEF FInv, Handed, SameFeed
<1> QED
  BY <1>4, <1>5

(* Without a filter the page of the wait is delivered as it is.            *)
LEMMA UnfilteredPage ==
    ASSUME FInv, At("waiting"), wanted = {}, NEW rows \in SUBSET After(observer.cursor),
           Page(rows, After(observer.cursor), Limit), SameFeed, SameScan, saved' = saved,
           observer' = [observer EXCEPT !.pc = "delivering", !.rest = rows, !.rows = rows],
           told' = told, cancelled' = cancelled, error' = error
    PROVE  FInv'
<1>1. /\ DOMAIN feed = 1..Len(feed) /\ Len(feed) \in Nat /\ Matching = 1..Len(feed)
      /\ observer \in Thread /\ observer.cursor \in Nat
  BY FeedFacts DEF FInv
<1>2. rows \in SUBSET Nat
  BY <1>1 DEF After
<1>3. /\ observer' \in Thread /\ observer'.pc = "delivering"
      /\ observer'.rest = rows /\ observer'.cursor = observer.cursor
      /\ observer'.upto = observer.upto
  BY <1>1, <1>2 DEF Thread, Steps
<1>4. TypeOK' /\ Scan' /\ Handed'
  BY <1>3, GoesOn
<1>5. observer.upto = observer.cursor
  BY DEF FInv, Waiting, At
<1>6. \A s : s \in After(observer.cursor) <=> s \in Matching /\ s > observer.cursor
  BY <1>1 DEF After
<1>7. \A r \in rows, k \in After(observer.cursor) : k < r => k \in rows
  BY PageMeans
<1>8. RestFollows'
  <2>1. /\ rows \subseteq Matching
        /\ \A r \in rows : observer.upto < r
        /\ \A r \in rows, k \in Matching : observer.upto < k /\ k < r => k \in rows
    BY <1>1, <1>5, <1>6, <1>7
  <2> QED
    BY <2>1, <1>3, SameMatching DEF RestFollows
<1>9. Waiting' /\ ReadsMatches' /\ RowsRead' /\ PageHeld'
  BY <1>3 DEF Waiting, ReadsMatches, RowsRead, PageHeld, SameFeed
<1> QED
  BY <1>4, <1>8, <1>9 DEF FInv

LEMMA WaitEndsKeeps == FInv /\ WaitEnds => FInv'
<1> SUFFICES ASSUME FInv, WaitEnds PROVE FInv'
  OBVIOUS
<1>1. /\ At("waiting") /\ SameFeed /\ SameScan /\ saved' = saved /\ told' = told
      /\ cancelled' = cancelled /\ error' = error
      /\ cancelled \in BOOLEAN /\ error \in BOOLEAN
  BY DEF WaitEnds, Goto, SameFeed, SameScan, FInv, TypeOK
<1>2. CASE observer' = NewThread("ended", observer.cursor)
  BY <1>1, <1>2, CursorIsTold, BeginsAnew
<1>3. ASSUME wanted = {}, NEW rows \in SUBSET After(observer.cursor),
             Page(rows, After(observer.cursor), Limit),
             observer' = [observer EXCEPT !.pc = "delivering", !.rest = rows, !.rows = rows]
      PROVE  FInv'
  BY <1>1, <1>3, UnfilteredPage
<1>4. ASSUME wanted # {}, observer' = [observer EXCEPT !.pc = "reading"]
      PROVE  FInv'
  <2>1. /\ observer' \in Thread /\ observer'.pc = "reading"
        /\ observer'.cursor = observer.cursor /\ observer'.upto = observer.upto
    BY <1>4, FeedFacts DEF FInv, Thread, Steps
  <2>2. TypeOK' /\ Scan' /\ Handed'
    BY <1>1, <2>1, GoesOn
  <2>3. Waiting' /\ ReadsMatches' /\ RowsRead' /\ PageHeld'
    BY <1>1, <1>4, <2>1
       DEF FInv, At, Waiting, ReadsMatches, RowsRead, PageHeld, SameFeed
  <2> QED
    BY <2>1, <2>2, <2>3 DEF FInv
<1> QED
  BY <1>2, <1>3, <1>4 DEF WaitEnds, Goto

LEMMA ReadRowsKeeps == FInv /\ ReadRows => FInv'
<1> SUFFICES ASSUME FInv, ReadRows PROVE FInv'
  OBVIOUS
<1>1. PICK rows \in SUBSET After(observer.cursor) :
         /\ FilteredRows(rows, observer.cursor)
         /\ observer' = [observer EXCEPT !.pc = "closing_page", !.rows = rows, !.rest = rows,
                                         !.snapshot = Len(feed)]
  BY DEF ReadRows, Goto
<1>2. /\ At("reading") /\ SameFeed /\ SameScan /\ saved' = saved /\ told' = told
      /\ cancelled' = cancelled /\ error' = error
  BY DEF ReadRows, Goto, SameFeed, SameScan
<1>3. /\ DOMAIN feed = 1..Len(feed) /\ Len(feed) \in Nat /\ Matching \subseteq 1..Len(feed)
      /\ observer \in Thread /\ observer.cursor \in Nat
  BY FeedFacts DEF FInv
<1>4. wanted # {} /\ observer.upto = observer.cursor
  BY <1>2 DEF FInv, ReadsMatches, Waiting, At
<1>5. Page(rows, {s \in Matching : s > observer.cursor}, Limit)
  BY <1>1, <1>3, <1>4, FilteredPage DEF FInv, TypeOK
<1>6. {s \in Matching : s > observer.cursor} = Between(observer.cursor, Len(feed))
  <2>1. \A s \in Matching : s \in Nat /\ s <= Len(feed)
    BY <1>3
  <2>2. \A s \in Matching : s > observer.cursor <=> observer.cursor < s /\ s <= Len(feed)
    BY <1>3, <2>1
  <2> QED
    BY <2>2 DEF Between
<1>7. rows \in SUBSET Nat
  BY <1>3 DEF After
<1>8. /\ observer' \in Thread /\ observer'.pc = "closing_page"
      /\ observer'.rest = rows /\ observer'.rows = rows /\ observer'.snapshot = Len(feed)
      /\ observer'.cursor = observer.cursor /\ observer'.upto = observer.upto
  BY <1>1, <1>3, <1>7 DEF Thread, Steps
<1>9. TypeOK' /\ Scan' /\ Handed'
  BY <1>2, <1>8, GoesOn
<1>10. RowsRead'
  <2>1. PICK from, to : from = observer.cursor /\ to = Len(feed)
    OBVIOUS
  <2>2. Page(rows, Between(from, to), Limit)
    BY <1>5, <1>6, <2>1
  <2>3. Between(from, to)' = Between(from, to)
    BY <1>2, SameMatching
  <2>4. Page(rows, {s \in Matching' : from < s /\ s <= to}, Limit)
    BY <2>2, <2>3 DEF Between
  <2>5. to <= Len(feed')
    BY <1>2, <1>3, <2>1 DEF SameFeed
  <2>6. /\ observer'.rest = rows /\ observer'.rows = rows
        /\ observer'.cursor = from /\ observer'.snapshot = to
    BY <1>8, <2>1
  <2> QED
    BY <2>4, <2>5, <2>6 DEF RowsRead, Between, Page, PageBy
<1>11. RestFollows'
  <2>1. /\ rows \subseteq Between(observer.cursor, Len(feed))
        /\ \A r \in rows, k \in Between(observer.cursor, Len(feed)) : k < r => k \in rows
    BY <1>5, <1>6, PageMeans
  <2>2. /\ rows \subseteq Matching
        /\ \A r \in rows : observer.upto < r
        /\ \A r \in rows, k \in Matching : observer.upto < k /\ k < r => k \in rows
    BY <2>1, <1>3, <1>4 DEF Between
  <2> QED
    BY <2>2, <1>2, <1>8, SameMatching DEF RestFollows
<1>12. Waiting' /\ ReadsMatches' /\ PageHeld'
  BY <1>2, <1>4, <1>8 DEF Waiting, ReadsMatches, PageHeld, SameFeed
<1> QED
  BY <1>9, <1>10, <1>11, <1>12 DEF FInv

(* The end of the page: everything that matched up to it is in the page.   *)
LEMMA PageEnds ==
    ASSUME FInv, At("closing_page"),
           NEW through,
           through = IF Full(observer) THEN Last(observer.rows)
                     ELSE Larger(observer.snapshot, observer.cursor)
    PROVE  /\ through \in Nat /\ observer.cursor <= through /\ through <= Len(feed)
           /\ observer.rows = Between(observer.cursor, through)
<1> DEFINE rows == observer.rows  cursor == observer.cursor  end == observer.snapshot
<1>1. /\ Len(feed) \in Nat /\ Matching \subseteq 1..Len(feed)
      /\ observer \in Thread /\ cursor \in Nat /\ end \in Nat /\ rows \subseteq Nat
  BY FeedFacts DEF FInv
<1>2. /\ end <= Len(feed)
      /\ rows \subseteq Between(cursor, end)
      /\ \A r \in rows, k \in Between(cursor, end) : k < r => k \in rows
      /\ rows = Between(cursor, end) \/ Cardinality(rows) = Limit
  BY PageMeans DEF FInv, RowsRead, At
<1>3. cursor <= Len(feed)
  BY CursorIsTold
<1>4. CASE Full(observer)
  <2>1. rows # {}
    BY <1>4, LimitAssumption, FS_EmptySet DEF Full
  <2>2. \A r \in rows : r <= end
    BY <1>2 DEF Between
  <2>3. \E m \in rows : \A n \in rows : n <= m
    BY <1>1, <2>1, <2>2, LargestOf
  <2>4. through = Last(rows)
    BY <1>4
  <2>5. Last(rows) \in rows /\ \A n \in rows : n <= Last(rows)
    BY <2>3, Zenon DEF Last
  <2> HIDE DEF rows, cursor, end
  <2>6. through \in rows /\ \A n \in rows : n <= through
    BY <2>4, <2>5
  <2>7. through \in Nat /\ cursor < through /\ through <= end
    BY <1>1, <1>2, <2>6 DEF Between
  <2>8. ASSUME NEW s \in Matching, cursor < s, s <= through PROVE s \in rows
    <3>1. s \in Nat /\ s \in Between(cursor, end)
      BY <1>1, <2>7, <2>8 DEF Between
    <3>2. s = through \/ s < through
      BY <3>1, <2>7, <2>8
    <3> QED
      BY <3>1, <3>2, <2>6, <1>2
  <2>9. ASSUME NEW s \in rows PROVE s \in Matching /\ cursor < s /\ s <= through
    BY <1>2, <2>6 DEF Between
  <2>10. rows = Between(cursor, through)
    BY <2>8, <2>9 DEF Between
  <2>11. cursor <= through /\ through <= Len(feed)
    BY <1>1, <1>2, <2>7
  <2> QED
    BY <2>7, <2>10, <2>11 DEF rows, cursor
<1>5. CASE ~Full(observer)
  <2>1. rows = Between(cursor, end)
    BY <1>2, <1>5 DEF Full
  <2>2. through = Larger(end, cursor)
    BY <1>5
  <2> HIDE DEF rows, cursor, end
  <2>3. through \in Nat /\ cursor <= through /\ end <= through /\ through <= Len(feed)
        /\ (through = end \/ (through = cursor /\ end <= cursor))
    BY <1>1, <1>2, <1>3, <2>2 DEF Larger
  <2>4. Between(cursor, through) = Between(cursor, end)
    <3>1. ASSUME NEW s \in Matching, cursor < s PROVE s <= through <=> s <= end
      BY <3>1, <1>1, <2>3
    <3> QED
      BY <3>1 DEF Between
  <2> QED
    BY <2>1, <2>3, <2>4 DEF rows, cursor
<1> QED
  BY <1>4, <1>5

LEMMA ReadThroughKeeps == FInv /\ ReadThrough => FInv'
<1> SUFFICES ASSUME FInv, ReadThrough PROVE FInv'
  OBVIOUS
<1> DEFINE end == IF Full(observer) THEN Last(observer.rows)
                  ELSE Larger(observer.snapshot, observer.cursor)
<1>1. /\ At("closing_page") /\ SameFeed /\ SameScan /\ saved' = saved /\ told' = told
      /\ cancelled' = cancelled /\ error' = error
      /\ observer' = [observer EXCEPT !.pc = "delivering", !.snapshot = 0, !.through = end]
  BY DEF ReadThrough, Goto, SameFeed, SameScan
<1>2. PICK through : through = end
  OBVIOUS
<1>3. /\ through \in Nat /\ observer.cursor <= through /\ through <= Len(feed)
      /\ observer.rows = Between(observer.cursor, through)
  BY <1>1, <1>2, PageEnds
<1> HIDE DEF end
<1>4. observer \in Thread /\ observer.rows \subseteq Nat /\ Len(feed) \in Nat
  BY FeedFacts DEF FInv
<1>5. /\ observer' \in Thread /\ observer'.pc = "delivering" /\ observer'.through = through
      /\ observer'.rest = observer.rest /\ observer'.rows = observer.rows
      /\ observer'.cursor = observer.cursor /\ observer'.upto = observer.upto
  BY <1>1, <1>2, <1>3, <1>4 DEF Thread, Steps
<1>6. TypeOK' /\ Scan' /\ Handed'
  BY <1>1, <1>5, GoesOn
<1>7. RestFollows'
  BY <1>1, <1>5, SameMatching DEF FInv, At, RestFollows
<1>8. PageHeld'
  <2>1. observer.rest = observer.rows /\ observer.upto = observer.cursor
    BY <1>1 DEF FInv, At, RowsRead, Waiting
  <2>2. observer.rest = {s \in observer.rows : s > observer.upto}
    BY <1>3, <1>4, <2>1 DEF Between
  <2> QED
    BY <1>1, <1>3, <1>5, <2>2, SameMatching DEF PageHeld, SameFeed
<1>9. Waiting' /\ ReadsMatches' /\ RowsRead'
  BY <1>5 DEF Waiting, ReadsMatches, RowsRead
<1> QED
  BY <1>6, <1>7, <1>8, <1>9 DEF FInv

(* The oldest revision still to deliver is the next one that matches: with *)
(* it the callback was called with everything up to there.                 *)
LEMMA DeliverKeeps == FInv /\ Deliver => FInv'
<1> SUFFICES ASSUME FInv, Deliver PROVE FInv'
  OBVIOUS
<1>1. PICK s \in observer.rest :
         /\ \A t \in observer.rest : s <= t
         /\ observer' = [observer EXCEPT !.pc = "called", !.rest = @ \ {s}, !.upto = s]
         /\ told' = told \cup {s}
  BY DEF Deliver, Goto
<1>2. /\ At("delivering") /\ SameFeed /\ SameScan /\ saved' = saved
      /\ cancelled' = cancelled /\ error' = error
  BY DEF Deliver, Goto, SameFeed, SameScan
<1>3. /\ DOMAIN feed = 1..Len(feed) /\ Len(feed) \in Nat /\ Matching \subseteq 1..Len(feed)
      /\ observer \in Thread /\ observer.cursor \in Nat /\ observer.upto \in Nat
      /\ observer.rest \subseteq Nat /\ observer.rows \subseteq Nat
  BY FeedFacts DEF FInv
<1>4. /\ saved <= observer.cursor /\ observer.cursor <= observer.upto
      /\ \A k \in Matching : k <= observer.upto => k \in told
  BY DEF FInv, Handed
<1>5. RestFollows
  BY <1>2 DEF FInv, At
<1>6. /\ s \in Matching /\ observer.upto < s /\ s \in 1..Len(feed)
      /\ \A k \in Matching : observer.upto < k /\ k < s => k \in observer.rest
  BY <1>3, <1>5 DEF RestFollows
<1>7. /\ observer' \in Thread /\ observer'.pc = "called" /\ observer'.upto = s
      /\ observer'.rest = observer.rest \ {s} /\ observer'.rows = observer.rows
      /\ observer'.cursor = observer.cursor /\ observer'.through = observer.through
  BY <1>1, <1>3, <1>6 DEF Thread, Steps
<1>8. ASSUME NEW k \in Matching, k <= s PROVE k = s \/ k <= observer.upto
  <2>1. k \in Nat /\ (k < s => ~(observer.upto < k))
    BY <1>1, <1>3, <1>6
  <2> QED
    BY <2>1, <1>3, <1>6, <1>8
<1>9. saved \in Nat /\ saved <= Len(feed) /\ observer.cursor <= s
  BY <1>3, <1>4, <1>6, CursorIsTold
<1>10. TypeOK' /\ Scan'
  <2>1. told' \subseteq DOMAIN feed
    BY <1>1, <1>3, <1>6 DEF FInv, TypeOK
  <2>2. cancelled' \in BOOLEAN /\ error' \in BOOLEAN
    BY <1>2 DEF FInv, TypeOK
  <2> QED
    BY <2>1, <2>2, <1>2, <1>7, <1>9, SameTypes DEF FInv
<1>11. Handed'
  <2>1. \A k \in Matching : k <= s => k \in told'
    BY <1>1, <1>4, <1>8
  <2>2. s <= Len(feed)
    BY <1>3, <1>6
  <2> QED
    BY <2>1, <2>2, <1>2, <1>4, <1>7, <1>9, SameMatching DEF Handed, SameFeed
<1>12. RestFollows'
  <2>1. ASSUME NEW r \in observer.rest \ {s} PROVE r \in Matching /\ s < r
    BY <1>1, <1>3, <1>5, <1>6 DEF RestFollows
  <2>2. ASSUME NEW r \in observer.rest \ {s}, NEW k \in Matching, s < k, k < r
        PROVE  k \in observer.rest \ {s}
    <3>1. k \in Nat /\ k # s /\ observer.upto < k
      BY <1>3, <1>6, <2>2
    <3> QED
      BY <3>1, <2>2, <1>5 DEF RestFollows
  <2> QED
    BY <2>1, <2>2, <1>2, <1>7, SameMatching DEF RestFollows
<1>13. PageHeld'
  <2> SUFFICES ASSUME wanted # {}
               PROVE  /\ observer.cursor <= observer.through /\ observer.through <= Len(feed)
                      /\ observer.rows = Between(observer.cursor, observer.through)
                      /\ observer.rest \ {s} = {k \in observer.rows : k > s}
    BY <1>2, <1>7, SameMatching DEF PageHeld, SameFeed
  <2>1. /\ observer.cursor <= observer.through /\ observer.through <= Len(feed)
        /\ observer.rows = Between(observer.cursor, observer.through)
        /\ observer.rest = {k \in observer.rows : k > observer.upto}
    BY <1>2 DEF FInv, PageHeld, At
  <2>2. ASSUME NEW k \in observer.rest \ {s} PROVE k \in observer.rows /\ k > s
    BY <1>1, <1>3, <2>1
  <2>3. ASSUME NEW k \in observer.rows, k > s PROVE k \in observer.rest \ {s}
    BY <1>3, <1>6, <2>1, <2>3
  <2> QED
    BY <2>1, <2>2, <2>3
<1>14. Waiting' /\ ReadsMatches' /\ RowsRead'
  BY <1>7 DEF Waiting, ReadsMatches, RowsRead
<1> QED
  BY <1>10, <1>11, <1>12, <1>13, <1>14 DEF FInv

(* Only without a filter does the cursor follow the revision.              *)
LEMMA ReturnedKeeps == FInv /\ Returned => FInv'
<1> SUFFICES ASSUME FInv, Returned PROVE FInv'
  OBVIOUS
<1>1. /\ At("called") /\ SameFeed /\ SameScan /\ saved' = saved /\ told' = told
      /\ cancelled' = cancelled /\ error' = error
      /\ observer' = [observer EXCEPT !.pc = "delivering",
                                      !.cursor = IF wanted = {} THEN observer.upto ELSE @]
  BY DEF Returned, Goto, SameFeed, SameScan
<1>2. observer \in Thread /\ observer.cursor \in Nat /\ observer.upto \in Nat
  BY FeedFacts DEF FInv
<1>3. /\ observer' \in Thread /\ observer'.pc = "delivering"
      /\ observer'.cursor = (IF wanted = {} THEN observer.upto ELSE observer.cursor)
      /\ observer'.rest = observer.rest /\ observer'.rows = observer.rows
      /\ observer'.upto = observer.upto /\ observer'.through = observer.through
  BY <1>1, <1>2 DEF Thread, Steps
<1>4. TypeOK' /\ Scan' /\ Handed'
  BY <1>1, <1>3, GoesOn
<1>5. RestFollows'
  BY <1>1, <1>3, SameMatching DEF FInv, At, RestFollows
<1>6. PageHeld'
  <2> SUFFICES ASSUME wanted # {} PROVE PageHeld'
    BY <1>1 DEF PageHeld, SameFeed
  <2>1. observer'.cursor = observer.cursor
    BY <1>3
  <2> QED
    BY <1>1, <1>3, <2>1, SameMatching DEF FInv, At, PageHeld, SameFeed
<1>7. Waiting' /\ ReadsMatches' /\ RowsRead'
  BY <1>3 DEF Waiting, ReadsMatches, RowsRead
<1> QED
  BY <1>4, <1>5, <1>6, <1>7 DEF FInv

(* When the page is delivered, everything up to its end has been told.     *)
LEMMA PageIsTold ==
    ASSUME FInv, At("delivering"), observer.rest = {}, wanted # {}
    PROVE  /\ observer.through \in Nat /\ observer.through <= Len(feed)
           /\ observer.cursor <= observer.through
           /\ \A s \in Matching : s <= observer.through => s \in told /\ s <= observer.upto
<1>1. /\ Matching \subseteq Nat /\ observer.cursor \in Nat /\ observer.upto \in Nat
      /\ observer.through \in Nat /\ Len(feed) \in Nat
  BY FeedFacts DEF FInv
<1>2. /\ observer.cursor <= observer.through /\ observer.through <= Len(feed)
      /\ observer.rows = Between(observer.cursor, observer.through)
      /\ observer.rest = {s \in observer.rows : s > observer.upto}
  BY DEF FInv, PageHeld, At
<1>3. /\ observer.cursor <= observer.upto
      /\ \A s \in Matching : s <= observer.upto => s \in told
  BY DEF FInv, Handed
<1>4. ASSUME NEW s \in Matching, s <= observer.through
      PROVE  s \in told /\ s <= observer.upto
  <2>1. CASE s <= observer.cursor
    BY <2>1, <1>1, <1>3
  <2>2. CASE ~(s <= observer.cursor)
    <3>1. s \in observer.rows
      BY <2>2, <1>1, <1>2, <1>4 DEF Between
    <3>2. ~(s > observer.upto)
      BY <3>1, <1>2
    <3> QED
      BY <3>2, <1>1, <1>3
  <2> QED
    BY <2>1, <2>2
<1> QED
  BY <1>1, <1>2, <1>4

LEMMA PageDoneKeeps == FInv /\ PageDone => FInv'
<1> SUFFICES ASSUME FInv, PageDone PROVE FInv'
  OBVIOUS
<1>1. /\ At("delivering") /\ observer.rest = {}
      /\ SameFeed /\ SameScan /\ saved' = saved /\ told' = told
      /\ cancelled' = cancelled /\ error' = error
      /\ cancelled \in BOOLEAN /\ error \in BOOLEAN
  BY DEF PageDone, Goto, SameFeed, SameScan, FInv, TypeOK
<1>2. CASE wanted = {}
  <2>1. observer' = NewThread("waiting", observer.cursor)
    BY <1>2 DEF PageDone, Goto
  <2> QED
    BY <1>1, <2>1, CursorIsTold, BeginsAnew
<1>3. CASE wanted # {}
  <2>1. PICK pc \in {"waiting", "reading"} : observer' = NewThread(pc, observer.through)
    BY <1>3 DEF PageDone, Goto
  <2>2. /\ observer.through \in Nat /\ observer.through <= Len(feed)
        /\ observer.cursor <= observer.through
        /\ \A s \in Matching : s <= observer.through => s \in told
    BY <1>1, <1>3, PageIsTold
  <2>3. saved \in Nat /\ saved <= observer.through
    BY <2>2, CursorIsTold
  <2> QED
    BY <1>1, <1>3, <2>1, <2>2, <2>3, BeginsAnew
<1> QED
  BY <1>2, <1>3
-----------------------------------------------------------------------------
(***************************************************************************)
(* The theorems.                                                           *)
(***************************************************************************)

(* Every step of any process keeps the invariant.                          *)
LEMMA FInvStep == FInv /\ [Next]_vars => FInv'
<1> SUFFICES ASSUME FInv, [Next]_vars PROVE FInv'
  OBVIOUS
<1>1. ASSUME NEW events \in Revision, Commit(events) PROVE FInv'
  BY <1>1, CommitKeeps
<1>2. CASE Start \/ Raises \/ Crash
  BY <1>2, StartKeeps, RaisesKeeps, CrashKeeps
<1>3. CASE Run
  BY <1>3, WaitEndsKeeps, ReadRowsKeeps, ReadThroughKeeps, DeliverKeeps, ReturnedKeeps,
     PageDoneKeeps DEF Run
<1>4. CASE Stop \/ Store \/ StartScan \/ ScanPage \/ UNCHANGED vars
  BY <1>4, ElsewhereSteps
<1>5. CASE TimesOut
  BY <1>5, ElsewhereSteps DEF TimesOut
<1> QED
  BY <1>1, <1>2, <1>3, <1>4, <1>5 DEF Next

(* The feed, the observer's page and its cursor stay as FInv describes     *)
(* them, whatever the observer, the application and its reader do while    *)
(* other connections commit.                                               *)
THEOREM FeedIsFollowed == Spec => []FInv
<1>1. Init => FInv
  BY FInvInit
<1>2. FInv /\ [Next]_vars => FInv'
  BY FInvStep
<1> QED
  BY <1>1, <1>2, PTL DEF Spec

(* A filtered page holds every matching revision after the cursor and up   *)
(* to its end, and nothing else (changes_since_filtered).                  *)
THEOREM PagesAreExact == Spec => []PageIsExact
<1>1. FInv => PageIsExact
  BY DEF FInv, PageHeld, Between, PageIsExact, At
<1> QED
  BY <1>1, FeedIsFollowed, PTL

(* Neither the observer's cursor nor the one the application has stored    *)
(* passes a matching revision the callback was never called with.          *)
THEOREM NothingIsSkipped == Spec => []NothingSkipped
<1>1. FInv => NothingSkipped
  BY CursorIsTold DEF NothingSkipped
<1> QED
  BY <1>1, FeedIsFollowed, PTL
-----------------------------------------------------------------------------
(***************************************************************************)
(* Following the feed implements the subscription.                         *)
(***************************************************************************)

Handled == {s \in Matching : s <= observer.upto}

(* A step that hands nothing over is one of a consumer that goes back, or  *)
(* changes nothing of what it has seen.                                    *)
LEMMA HandsNothingOver ==
    ASSUME FInv, FInv', SameFeed,
           \A s \in Matching : s <= observer'.upto => s <= observer.upto
    PROVE  Promise!GoBack
<1>1. Matching' = Matching /\ Matching \subseteq Nat
  BY SameMatching, FeedFacts DEF FInv
<1>2. observer'.upto \in Nat
  <2>1. observer' \in Thread
    BY DEF FInv, TypeOK
  <2> QED
    BY <2>1 DEF Thread
<1>3. Handled' = {s \in Matching : s <= observer'.upto}
  BY <1>1 DEF Handled
<1>4. Handled' \subseteq Handled
  BY <1>3 DEF Handled
<1>5. \A s \in Handled', m \in Matching : m < s => m \in Handled'
  BY <1>1, <1>2, <1>3
<1> QED
  BY <1>1, <1>4, <1>5 DEF Promise!GoBack, Handled

(* A commit publishes, if the consumer asked for what it holds.            *)
LEMMA CommitPublishes ==
    ASSUME FInv, NEW events \in Revision, Commit(events)
    PROVE  Promise!Publish \/ UNCHANGED Promise!vars
<1>1. /\ Len(feed) \in Nat /\ Matching \subseteq 1..Len(feed) /\ observer.upto \in Nat
  BY FeedFacts DEF FInv
<1>2. /\ \A s : s <= Len(feed) => (s \in Matching' <=> s \in Matching)
      /\ Matching' \subseteq Matching \cup {Len(feed) + 1}
      /\ Matching \subseteq Matching'
  BY MatchingGrows DEF FInv
<1>3. observer' = observer /\ observer.upto <= Len(feed)
  BY DEF Commit, FInv, Handed
<1>4. Handled' = Handled
  <2>1. Handled' = {s \in Matching' : s <= observer.upto}
    BY <1>3 DEF Handled
  <2>2. ASSUME NEW s \in Matching', s <= observer.upto PROVE s \in Matching
    <3>1. s \in Nat
      BY <1>1, <1>2
    <3>2. s <= Len(feed)
      BY <3>1, <1>1, <1>3, <2>2
    <3> QED
      BY <3>2, <1>2
  <2> QED
    BY <2>1, <2>2, <1>2 DEF Handled
<1>5. CASE Len(feed) + 1 \in Matching'
  <2>1. Matching' = Matching \cup {Len(feed) + 1}
    BY <1>2, <1>5
  <2>2. \A m \in Matching : m < Len(feed) + 1
    BY <1>1
  <2> QED
    BY <1>4, <1>5, <2>1, <2>2 DEF Promise!Publish, Handled
<1>6. CASE Len(feed) + 1 \notin Matching'
  <2>1. Matching' = Matching
    BY <1>2, <1>6
  <2> QED
    BY <1>4, <2>1 DEF Promise!vars, Handled
<1> QED
  BY <1>5, <1>6

(* The callback is called with the oldest revision it has not been called  *)
(* with.                                                                   *)
LEMMA DeliverHandsOver ==
    ASSUME FInv, Deliver
    PROVE  Promise!HandOver
<1>1. PICK s \in observer.rest :
         /\ \A t \in observer.rest : s <= t
         /\ observer' = [observer EXCEPT !.pc = "called", !.rest = @ \ {s}, !.upto = s]
  BY DEF Deliver, Goto
<1>2. At("delivering") /\ SameFeed
  BY DEF Deliver, Goto, SameFeed
<1>3. /\ Matching \subseteq Nat /\ observer \in Thread /\ observer.upto \in Nat
  BY FeedFacts DEF FInv
<1>4. /\ s \in Matching /\ observer.upto < s
      /\ \A k \in Matching : observer.upto < k /\ k < s => k \in observer.rest
  BY <1>2 DEF FInv, At, RestFollows
<1>5. observer'.upto = s
  BY <1>1, <1>3 DEF Thread
<1>6. Matching' = Matching
  BY <1>2, SameMatching
<1>7. ASSUME NEW k \in Matching PROVE k <= s <=> k <= observer.upto \/ k = s
  <2>1. k < s => ~(observer.upto < k)
    BY <1>1, <1>3, <1>4
  <2> QED
    BY <2>1, <1>3, <1>4
<1>8. Handled' = Handled \cup {s}
  BY <1>4, <1>5, <1>6, <1>7 DEF Handled
<1>9. s \in Matching \ Handled /\ \A m \in Matching \ Handled : s <= m
  <2>1. ASSUME NEW m \in Matching, m \notin Handled PROVE s <= m
    <3>1. ~(m <= observer.upto)
      BY <2>1 DEF Handled
    <3>2. m \in Nat /\ s \in Nat /\ (m <= s => m <= observer.upto \/ m = s)
      BY <1>3, <1>4, <1>7, <2>1
    <3> QED
      BY <3>1, <3>2
  <2>2. s \notin Handled
    <3>1. ~(s <= observer.upto)
      BY <1>3, <1>4
    <3> QED
      BY <3>1 DEF Handled
  <2> QED
    BY <1>4, <2>1, <2>2
<1> QED
  BY <1>6, <1>8, <1>9 DEF Promise!HandOver, Handled

(* The other steps hand nothing over: the thread goes on where it was, or  *)
(* begins anew from a cursor.                                              *)
LEMMA OthersHandNothingOver ==
    ASSUME FInv, Next, ~Deliver, \A events \in Revision : ~Commit(events)
    PROVE  SameFeed /\ \A s \in Matching : s <= observer'.upto => s <= observer.upto
<1>1. /\ Matching \subseteq Nat /\ saved \in Nat /\ observer \in Thread
      /\ observer.cursor \in Nat /\ observer.upto \in Nat
  BY FeedFacts DEF FInv
<1>2. saved <= observer.cursor /\ observer.cursor <= observer.upto
  BY DEF FInv, Handed
<1> DEFINE Behind == \A s \in Matching : s <= observer'.upto => s <= observer.upto
<1>3. ASSUME NEW pc, NEW cursor \in {saved, observer.cursor}, observer' = NewThread(pc, cursor)
      PROVE  Behind
  <2>1. observer'.upto = cursor
    BY <1>3 DEF NewThread
  <2> QED
    BY <2>1, <1>1, <1>2
<1>4. ASSUME observer'.upto = observer.upto PROVE Behind
  BY <1>4
<1>5. SameFeed
  BY DEF Next, Start, Stop, Run, WaitEnds, ReadRows, ReadThrough, Returned, PageDone, TimesOut,
         Raises, Store, Crash, StartScan, ScanPage, Goto, Reader, SameFeed, vars
<1>6. CASE Start \/ Raises \/ Crash
  <2>1. \E pc, cursor : cursor \in {saved, observer.cursor} /\ observer' = NewThread(pc, cursor)
    BY <1>6 DEF Start, Raises, Crash, Goto
  <2> QED
    BY <1>3, <1>5, <2>1
<1>7. CASE Stop \/ Store \/ TimesOut \/ StartScan \/ ScanPage
  <2>1. observer' = observer
    BY <1>7 DEF Stop, Store, TimesOut, StartScan, ScanPage, Reader, vars
  <2> QED
    BY <1>4, <1>5, <2>1
<1>8. CASE WaitEnds
  <2>1. \/ observer' = NewThread("ended", observer.cursor)
        \/ \E rows : observer' = [observer EXCEPT !.pc = "delivering", !.rest = rows, !.rows = rows]
        \/ observer' = [observer EXCEPT !.pc = "reading"]
    BY <1>8 DEF WaitEnds, Goto
  <2>2. observer' = NewThread("ended", observer.cursor) \/ observer'.upto = observer.upto
    BY <1>1, <2>1 DEF Thread
  <2> QED
    BY <1>3, <1>4, <1>5, <2>2
<1>9. CASE ReadRows \/ ReadThrough \/ Returned
  <2>1. observer'.upto = observer.upto
    BY <1>1, <1>9 DEF ReadRows, ReadThrough, Returned, Goto, Thread
  <2> QED
    BY <1>4, <1>5, <2>1
<1>10. CASE PageDone
  <2>1. CASE wanted = {}
    <3>1. observer' = NewThread("waiting", observer.cursor)
      BY <1>10, <2>1 DEF PageDone, Goto
    <3> QED
      BY <1>3, <1>5, <3>1
  <2>2. CASE wanted # {}
    <3>1. observer'.upto = observer.through
      BY <1>10, <2>2 DEF PageDone, Goto, NewThread
    <3>2. \A s \in Matching : s <= observer.through => s <= observer.upto
      BY <1>10, <2>2, PageIsTold DEF PageDone
    <3> QED
      BY <1>5, <3>1, <3>2
  <2> QED
    BY <2>1, <2>2
<1> QED
  BY <1>6, <1>7, <1>8, <1>9, <1>10 DEF Next, Run

(* The pages, the thread and the cursors together give the consumer every  *)
(* revision it asked for once, in the order of the commits and without a   *)
(* gap, going back only when it is started again.                          *)
THEOREM FeedImplementsSubscription == Spec => ImplementsSubscription
<1>1. Init => Promise!Init
  <2> SUFFICES ASSUME Init PROVE Promise!Init
    OBVIOUS
  <2>1. FInv /\ feed = <<>>
    BY FInvInit DEF Init
  <2>2. Matching = {}
    BY <2>1, FeedFacts, EmptySeq DEF FInv
  <2> QED
    BY <2>2 DEF Promise!Init
<1>2. FInv /\ FInv' /\ [Next]_vars => [Promise!Next]_(Promise!vars)
  <2> SUFFICES ASSUME FInv, FInv', [Next]_vars PROVE [Promise!Next]_(Promise!vars)
    OBVIOUS
  <2>1. CASE UNCHANGED vars
    <3>1. SameFeed /\ observer' = observer
      BY <2>1 DEF vars, SameFeed
    <3> QED
      BY <3>1, SameMatching DEF Promise!vars
  <2>2. ASSUME NEW events \in Revision, Commit(events) PROVE [Promise!Next]_(Promise!vars)
    BY <2>2, CommitPublishes DEF Promise!Next
  <2>3. CASE Deliver
    BY <2>3, DeliverHandsOver DEF Promise!Next
  <2>4. CASE Next /\ ~Deliver /\ \A events \in Revision : ~Commit(events)
    BY <2>4, OthersHandNothingOver, HandsNothingOver DEF Promise!Next
  <2> QED
    BY <2>1, <2>2, <2>3, <2>4
<1> QED
  BY <1>1, <1>2, FeedIsFollowed, PTL DEF Spec, ImplementsSubscription, Promise!Spec
-----------------------------------------------------------------------------
(***************************************************************************)
(* The traversal of the changed objects.  First every event: the columns   *)
(* that the query reads of its row give, through the binding, the objects  *)
(* it is about.  Then the pages: a full one has a last row, everything     *)
(* behind it has been returned, and rows that commits add count or not.    *)
(***************************************************************************)

(* The pairs of target kind and identity that the changed-object query     *)
(* finds for a revision, the objects they stand for, and the objects that  *)
(* its events are about.                                                   *)
Pair           == (0..5) \X Nat
ObjectAt(pair) == PyObject(AbiObject(Target(pair[1], pair[2])))
PairsAt(s)     == UNION {Touched(row) : row \in RowsOf[feed[s]]}
ObjectsAt(s)   == UNION {Concerns(e) : e \in Range(feed[s])}

(* A set of pairs stands for these objects.                                *)
StandsFor(pairs, objects) ==
    pairs \subseteq Pair /\ IsFiniteSet(pairs) /\ {ObjectAt(pair) : pair \in pairs} = objects

LEMMA CodeOfObject ==
    ASSUME NEW k \in DOMAIN Objects
    PROVE  /\ Code(Objects, Objects[k]) \in DOMAIN Objects
           /\ Objects[Code(Objects, Objects[k])] = Objects[k]
BY Zenon DEF Code

LEMMA SixObjects == DOMAIN Objects = 1..6
BY DEF Objects

(* Through the binding an object comes out with its type and identity.     *)
LEMMA ObjectOfPair ==
    ASSUME NEW k \in 0..5, NEW n
    PROVE  ObjectAt(<<k, n>>) = Id(Objects[k + 1], n)
<1>1. k + 1 \in DOMAIN Objects
  BY SixObjects
<1>2. PICK o : o = Target(k, n)
  OBVIOUS
<1>3. o[1] = Objects[k + 1] /\ Bytes(o) = n
  BY <1>2 DEF Target, Id, Bytes
<1>4. PICK v : v = AbiObject(o)
  OBVIOUS
<1>5. v.kind = Code(Objects, Objects[k + 1]) /\ v.id = n
  BY <1>3, <1>4 DEF AbiObject
<1>6. Objects[v.kind] = Objects[k + 1]
  BY <1>1, <1>5, CodeOfObject
<1>7. PyObject(v) = Id(Objects[k + 1], n)
  BY <1>5, <1>6 DEF PyObject
<1> QED
  BY <1>2, <1>4, <1>7 DEF ObjectAt

LEMMA OnePair ==
    ASSUME NEW k \in 0..5, NEW n \in Nat
    PROVE  StandsFor({<<k, n>>}, {Id(Objects[k + 1], n)})
<1>1. PICK pair : pair = <<k, n>>
  OBVIOUS
<1>2. pair \in Pair
  BY <1>1 DEF Pair
<1>3. ObjectAt(pair) = Id(Objects[k + 1], n)
  BY <1>1, ObjectOfPair
<1>4. IsFiniteSet({pair})
  BY FS_Singleton
<1> QED
  BY <1>1, <1>2, <1>3, <1>4 DEF StandsFor

LEMMA MorePairs ==
    ASSUME NEW P, NEW O, StandsFor(P, O), NEW Q, NEW R, StandsFor(Q, R)
    PROVE  StandsFor(P \cup Q, O \cup R)
<1>1. IsFiniteSet(P \cup Q)
  BY FS_Union DEF StandsFor
<1> QED
  BY <1>1, Zenon DEF StandsFor

(* The names of the types by their codes.                                  *)
LEMMA TypeNames ==
    /\ DOMAIN Types = 1..26
    /\ Types[1] = "AssetImported" /\ Types[2] = "RepresentationAdded"
    /\ Types[3] = "ResourceAdded" /\ Types[4] = "RepresentationResourceAdded"
    /\ Types[5] = "LocatorAdded" /\ Types[6] = "MediaRootAdded"
    /\ Types[7] = "ExternalIdentifierAdded" /\ Types[8] = "ExternalIdentifierRemoved"
    /\ Types[9] = "MetadataAddedOrReplaced" /\ Types[10] = "MetadataRemoved"
    /\ Types[11] = "ActivityCreated" /\ Types[12] = "ActivityInputAdded"
    /\ Types[13] = "ActivityOutputAdded" /\ Types[14] = "LocatorRetired"
    /\ Types[15] = "MediaRootEnabledChanged" /\ Types[16] = "MediaRootRemoved"
    /\ Types[17] = "ResourceFingerprintObserved" /\ Types[18] = "RepresentationFingerprintObserved"
    /\ Types[19] = "DependencySetRecorded" /\ Types[20] = "JobRequested"
    /\ Types[21] = "JobClaimed" /\ Types[22] = "JobClaimRenewed"
    /\ Types[23] = "JobClaimReleased" /\ Types[24] = "JobSucceeded"
    /\ Types[25] = "JobFailed" /\ Types[26] = "JobCancelled"
BY DEF Types

(* The columns of a row that the query looks at.                           *)
LEMMA ColumnsOfEvent ==
    ASSUME NEW e, NEW p, p = PrimaryOf(e.type), NEW q, q = SecondaryOf(e.type)
    PROVE  /\ Stored(e).code = TypeCode[e.type]
           /\ Stored(e).column.primary = Bytes(e[p])
           /\ q # Null => Stored(e).column.secondary = Bytes(e[q])
           /\ p = "target" => Stored(e).column.target_kind = TargetKind(e.target)
<1>1. "primary" \in Columns /\ "secondary" \in Columns /\ "target_kind" \in Columns
  BY DEF Columns
<1>2. Stored(e).code = TypeCode[e.type]
  BY DEF Stored
<1>3. Stored(e).column.primary = Bytes(e[p])
  BY <1>1 DEF Stored
<1>4. q # Null => Stored(e).column.secondary = Bytes(e[q])
  BY <1>1 DEF Stored
<1>5. p = "target" => Stored(e).column.target_kind = TargetKind(e.target)
  BY <1>1 DEF Stored
<1> QED
  BY <1>2, <1>3, <1>4, <1>5

(* The names of the kinds of target by their codes.                        *)
Named(k, name) == k \in 1..5 /\ name = Objects[k + 1]

LEMMA ObjectNames ==
    /\ Objects[1] = "production" /\ Named(1, "asset") /\ Named(2, "representation")
    /\ Named(3, "resource") /\ Named(4, "activity") /\ Named(5, "job")
BY DEF Objects, Named

(* The fields of a type that name objects.                                 *)
ObjectFields(type) ==
    Fields(type) \cap {"target", "asset", "representation", "resource", "activity", "job"}

(* A field that names an object, as the pair of its type and identity.     *)
LEMMA FieldPair ==
    ASSUME NEW e, IsEvent(e), NEW k, NEW f, Named(k, f), f \in DOMAIN e
    PROVE  StandsFor({<<k, Bytes(e[f])>>}, {e[f]})
<1>1. f \in Ids
  <2>1. k = 1 \/ k = 2 \/ k = 3 \/ k = 4 \/ k = 5
    BY DEF Named
  <2>2. f \in {"asset", "representation", "resource", "activity", "job"}
    BY <2>1, ObjectNames DEF Named
  <2> QED
    BY <2>2 DEF Ids
<1>2. e[f] = Id(f, Bytes(e[f])) /\ Bytes(e[f]) \in Nat
  BY <1>1 DEF IsEvent
<1>3. PICK n \in Nat : n = Bytes(e[f])
  BY <1>2
<1>4. k \in 0..5 /\ f = Objects[k + 1]
  BY DEF Named
<1>5. StandsFor({<<k, n>>}, {Id(Objects[k + 1], n)})
  BY <1>4, OnePair
<1> QED
  BY <1>2, <1>3, <1>4, <1>5

(* The fields of an event that are objects.                                *)
LEMMA ConcernsFields ==
    ASSUME NEW e, IsEvent(e), e.type \notin RootEvent
    PROVE  Concerns(e) = {e[f] : f \in ObjectFields(e.type)}
<1>1. DOMAIN e \cap {"target", "asset", "representation", "resource", "activity", "job"} =
      ObjectFields(e.type)
  BY DEF IsEvent, ObjectFields
<1> QED
  BY <1>1 DEF Concerns

LEMMA FieldsIn ==
    ASSUME NEW e, IsEvent(e), NEW f \in ObjectFields(e.type)
    PROVE  f \in DOMAIN e
BY DEF IsEvent, ObjectFields

LEMMA TouchedByOne ==
    ASSUME NEW e, IsEvent(e), NEW k, NEW p, Named(k, p),
           p = PrimaryOf(e.type), e.type \notin RootEvent,
           ObjectFields(e.type) = {p}
    PROVE  StandsFor({<<k, Stored(e).column.primary>>}, Concerns(e))
<1>1. Stored(e).column.primary = Bytes(e[p])
  BY ColumnsOfEvent
<1>2. Concerns(e) = {e[p]}
  BY ConcernsFields
<1>3. p \in DOMAIN e
  BY FieldsIn
<1>4. StandsFor({<<k, Bytes(e[p])>>}, {e[p]})
  BY <1>3, FieldPair
<1> QED
  BY <1>1, <1>2, <1>4

LEMMA TouchedBySecond ==
    ASSUME NEW e, IsEvent(e), NEW k, NEW q, Named(k, q),
           q = SecondaryOf(e.type), q # Null, e.type \notin RootEvent,
           ObjectFields(e.type) = {q}
    PROVE  StandsFor({<<k, Stored(e).column.secondary>>}, Concerns(e))
<1>1. Stored(e).column.secondary = Bytes(e[q])
  BY ColumnsOfEvent
<1>2. Concerns(e) = {e[q]}
  BY ConcernsFields
<1>3. q \in DOMAIN e
  BY FieldsIn
<1>4. StandsFor({<<k, Bytes(e[q])>>}, {e[q]})
  BY <1>3, FieldPair
<1> QED
  BY <1>1, <1>2, <1>4

LEMMA TouchedByBoth ==
    ASSUME NEW e, IsEvent(e), NEW k, NEW m,
           NEW p, Named(k, p), p = PrimaryOf(e.type),
           NEW q, Named(m, q), q = SecondaryOf(e.type), q # Null, e.type \notin RootEvent,
           ObjectFields(e.type) = {p, q}
    PROVE  StandsFor({<<k, Stored(e).column.primary>>, <<m, Stored(e).column.secondary>>}, Concerns(e))
<1>1. Stored(e).column.primary = Bytes(e[p]) /\ Stored(e).column.secondary = Bytes(e[q])
  BY ColumnsOfEvent
<1>2. Concerns(e) = {e[p], e[q]}
  BY ConcernsFields
<1>3. p \in DOMAIN e /\ q \in DOMAIN e
  BY FieldsIn
<1>4. StandsFor({<<k, Bytes(e[p])>>}, {e[p]}) /\ StandsFor({<<m, Bytes(e[q])>>}, {e[q]})
  BY <1>3, FieldPair
<1>5. StandsFor({<<k, Bytes(e[p])>>} \cup {<<m, Bytes(e[q])>>}, {e[p]} \cup {e[q]})
  BY <1>4, MorePairs
<1>6. /\ {<<k, Bytes(e[p])>>} \cup {<<m, Bytes(e[q])>>} = {<<k, Bytes(e[p])>>, <<m, Bytes(e[q])>>}
      /\ {e[p]} \cup {e[q]} = {e[p], e[q]}
  OBVIOUS
<1> QED
  BY <1>1, <1>2, <1>5, <1>6

LEMMA TouchedTarget ==
    ASSUME NEW e, IsEvent(e), PrimaryOf(e.type) = "target", e.type \notin RootEvent,
           ObjectFields(e.type) = {"target"}
    PROVE  StandsFor({<<Stored(e).column.target_kind, Stored(e).column.primary>>}, Concerns(e))
<1>1. /\ Stored(e).column.primary = Bytes(e.target)
      /\ Stored(e).column.target_kind = TargetKind(e.target)
  BY ColumnsOfEvent
<1>2. Concerns(e) = {e.target}
  BY ConcernsFields
<1>3. "target" \in DOMAIN e
  BY FieldsIn
<1>4. PICK c \in DOMAIN Objects : e.target = Id(Objects[c], Bytes(e.target)) /\ Bytes(e.target) \in Nat
  BY <1>3 DEF IsEvent
<1>5. e.target[1] = Objects[c]
  BY <1>4 DEF Id
<1>6. PICK d \in DOMAIN Objects : d = Code(Objects, Objects[c]) /\ Objects[d] = Objects[c]
  BY CodeOfObject
<1>7. PICK k \in 0..5 : k = d - 1 /\ d = k + 1
  BY SixObjects
<1>8. TargetKind(e.target) = k
  BY <1>5, <1>6, <1>7 DEF TargetKind
<1>9. StandsFor({<<k, Bytes(e.target)>>}, {Id(Objects[k + 1], Bytes(e.target))})
  BY <1>4, OnePair
<1>10. Id(Objects[k + 1], Bytes(e.target)) = e.target
  BY <1>4, <1>6, <1>7
<1> QED
  BY <1>1, <1>2, <1>8, <1>9, <1>10

(* What the query makes of a row is what its event is about.               *)
LEMMA RowTouches ==
    ASSUME NEW e, IsEvent(e)
    PROVE  StandsFor(Touched(Stored(e)), Concerns(e))
<1>1. e.type \in EventType
  BY DEF IsEvent
<1>2. PICK c \in 1..26 : c = TypeCode[e.type] /\ Types[c] = e.type
  BY <1>1, CodesAreTypes, TypeNames
<1>3. PICK row : row = Stored(e)
  OBVIOUS
<1>4. row.code = c
  BY <1>2, <1>3, ColumnsOfEvent
<1>n. Null \notin {"asset", "representation", "resource"}
  BY NullIsNoField DEF Ids
<1>5. CASE c = 1
  <2>1. e.type = "AssetImported"
    BY <1>2, <1>5, TypeNames
  <2>2. PrimaryOf(e.type) = "asset" /\ ObjectFields(e.type) = {"asset"} /\ e.type \notin RootEvent
    BY <2>1, <1>n DEF PrimaryOf, SecondaryOf, Fields, ObjectFields, RootEvent, LocatorEvent,
                     EdgeEvent, IdentifierEvent, MetadataEvent
  <2>4. Touched(row) = {<<1, row.column.primary>>}
    BY <1>4, <1>5 DEF Touched
  <2> QED
    BY <2>2, <2>4, <1>3, ObjectNames, TouchedByOne
<1>6. CASE c = 2
  <2>1. e.type = "RepresentationAdded"
    BY <1>2, <1>6, TypeNames
  <2>2. /\ PrimaryOf(e.type) = "representation" /\ SecondaryOf(e.type) = "asset"
        /\ ObjectFields(e.type) = {"representation", "asset"} /\ e.type \notin RootEvent
    BY <2>1, <1>n DEF PrimaryOf, SecondaryOf, Fields, ObjectFields, RootEvent, LocatorEvent,
                     EdgeEvent, IdentifierEvent, MetadataEvent
  <2>4. Touched(row) = {<<2, row.column.primary>>, <<1, row.column.secondary>>}
    BY <1>4, <1>6 DEF Touched
  <2> QED
    BY <2>2, <2>4, <1>3, <1>n, ObjectNames, TouchedByBoth
<1>7. CASE c = 4
  <2>1. e.type = "RepresentationResourceAdded"
    BY <1>2, <1>7, TypeNames
  <2>2. /\ PrimaryOf(e.type) = "representation" /\ SecondaryOf(e.type) = "resource"
        /\ ObjectFields(e.type) = {"representation", "resource"} /\ e.type \notin RootEvent
    BY <2>1, <1>n DEF PrimaryOf, SecondaryOf, Fields, ObjectFields, RootEvent, LocatorEvent,
                     EdgeEvent, IdentifierEvent, MetadataEvent
  <2>4. Touched(row) = {<<2, row.column.primary>>, <<3, row.column.secondary>>}
    BY <1>4, <1>7 DEF Touched
  <2> QED
    BY <2>2, <2>4, <1>3, <1>n, ObjectNames, TouchedByBoth
<1>8. CASE c \in {5, 14}
  <2>1. e.type \in LocatorEvent
    BY <1>2, <1>8, TypeNames DEF LocatorEvent
  <2>2. /\ SecondaryOf(e.type) = "resource"
        /\ ObjectFields(e.type) = {"resource"} /\ e.type \notin RootEvent
    BY <2>1, <1>n DEF PrimaryOf, SecondaryOf, Fields, ObjectFields, RootEvent, LocatorEvent,
                     EdgeEvent, IdentifierEvent, MetadataEvent
  <2>4. Touched(row) = {<<3, row.column.secondary>>}
    BY <1>4, <1>8 DEF Touched
  <2> QED
    BY <2>2, <2>4, <1>3, <1>n, ObjectNames, TouchedBySecond
<1>9. CASE c \in {6, 15, 16}
  <2>1. e.type \in RootEvent
    BY <1>2, <1>9, TypeNames DEF RootEvent
  <2>2. Concerns(e) = {ThisProduction}
    BY <2>1 DEF Concerns
  <2>3. Touched(row) = {<<0, Bytes(ThisProduction)>>}
    BY <1>4, <1>9 DEF Touched
  <2>4. Bytes(ThisProduction) = 1 /\ ThisProduction = Id(Objects[0 + 1], 1)
    BY ObjectNames DEF ThisProduction, Bytes, Id
  <2>5. StandsFor({<<0, 1>>}, {Id(Objects[0 + 1], 1)})
    BY OnePair
  <2> QED
    BY <2>2, <2>3, <2>4, <2>5, <1>3
<1>10. CASE c \in 7..10
  <2>1. e.type \in IdentifierEvent \cup MetadataEvent
    BY <1>2, <1>10, TypeNames DEF IdentifierEvent, MetadataEvent
  <2>2. /\ PrimaryOf(e.type) = "target"
        /\ ObjectFields(e.type) = {"target"} /\ e.type \notin RootEvent
    BY <2>1, <1>n DEF PrimaryOf, SecondaryOf, Fields, ObjectFields, RootEvent, LocatorEvent,
                     EdgeEvent, IdentifierEvent, MetadataEvent
  <2>3. Touched(row) = {<<row.column.target_kind, row.column.primary>>}
    BY <1>4, <1>10 DEF Touched
  <2> QED
    BY <2>2, <2>3, <1>3, TouchedTarget
<1>11. CASE c \in {12, 13}
  <2>1. e.type \in EdgeEvent
    BY <1>2, <1>11, TypeNames DEF EdgeEvent
  <2>2. /\ PrimaryOf(e.type) = "activity" /\ SecondaryOf(e.type) = "representation"
        /\ ObjectFields(e.type) = {"activity", "representation"} /\ e.type \notin RootEvent
    BY <2>1, <1>n DEF PrimaryOf, SecondaryOf, Fields, ObjectFields, RootEvent, LocatorEvent,
                     EdgeEvent, IdentifierEvent, MetadataEvent
  <2>4. Touched(row) = {<<4, row.column.primary>>, <<2, row.column.secondary>>}
    BY <1>4, <1>11 DEF Touched
  <2> QED
    BY <2>2, <2>4, <1>3, <1>n, ObjectNames, TouchedByBoth
<1>12. CASE c = 11
  <2>1. e.type = "ActivityCreated"
    BY <1>2, <1>12, TypeNames
  <2>2. /\ PrimaryOf(e.type) = "activity" /\ ObjectFields(e.type) = {"activity"}
        /\ e.type \notin RootEvent
    BY <2>1, <1>n DEF PrimaryOf, SecondaryOf, Fields, ObjectFields, RootEvent, LocatorEvent,
                     EdgeEvent, IdentifierEvent, MetadataEvent
  <2>4. Touched(row) = {<<4, row.column.primary>>}
    BY <1>4, <1>12 DEF Touched
  <2> QED
    BY <2>2, <2>4, <1>3, ObjectNames, TouchedByOne
<1>13. CASE c \in {3, 17}
  <2>1. e.type \in {"ResourceAdded", "ResourceFingerprintObserved"}
    BY <1>2, <1>13, TypeNames
  <2>2. /\ PrimaryOf(e.type) = "resource" /\ ObjectFields(e.type) = {"resource"}
        /\ e.type \notin RootEvent
    BY <2>1, <1>n DEF PrimaryOf, SecondaryOf, Fields, ObjectFields, RootEvent, LocatorEvent,
                     EdgeEvent, IdentifierEvent, MetadataEvent
  <2>4. Touched(row) = {<<3, row.column.primary>>}
    BY <1>4, <1>13 DEF Touched
  <2> QED
    BY <2>2, <2>4, <1>3, ObjectNames, TouchedByOne
<1>14. CASE c \in {18, 19}
  <2>1. e.type \in {"RepresentationFingerprintObserved", "DependencySetRecorded"}
    BY <1>2, <1>14, TypeNames
  <2>2. /\ PrimaryOf(e.type) = "representation" /\ ObjectFields(e.type) = {"representation"}
        /\ e.type \notin RootEvent
    BY <2>1, <1>n DEF PrimaryOf, SecondaryOf, Fields, ObjectFields, RootEvent, LocatorEvent,
                     EdgeEvent, IdentifierEvent, MetadataEvent
  <2>4. Touched(row) = {<<2, row.column.primary>>}
    BY <1>4, <1>14 DEF Touched
  <2> QED
    BY <2>2, <2>4, <1>3, ObjectNames, TouchedByOne
<1>15. CASE c \in 20..26
  <2>1. e.type \in {"JobRequested", "JobClaimed", "JobClaimRenewed", "JobClaimReleased",
                    "JobSucceeded", "JobFailed", "JobCancelled"}
    <3>1. c = 20 \/ c = 21 \/ c = 22 \/ c = 23 \/ c = 24 \/ c = 25 \/ c = 26
      BY <1>15
    <3> QED
      BY <3>1, <1>2, TypeNames
  <2>2. /\ PrimaryOf(e.type) = "job" /\ ObjectFields(e.type) = {"job"}
        /\ e.type \notin RootEvent
    BY <2>1, <1>n DEF PrimaryOf, SecondaryOf, Fields, ObjectFields, RootEvent, LocatorEvent,
                     EdgeEvent, IdentifierEvent, MetadataEvent
  <2>4. Touched(row) = {<<5, row.column.primary>>}
    BY <1>4, <1>15 DEF Touched
  <2> QED
    BY <2>2, <2>4, <1>3, ObjectNames, TouchedByOne
<1>16. \/ c = 1 \/ c = 2 \/ c = 4 \/ c \in {5, 14} \/ c \in {6, 15, 16} \/ c \in 7..10
       \/ c \in {12, 13} \/ c = 11 \/ c \in {3, 17} \/ c \in {18, 19} \/ c \in 20..26
  OBVIOUS
<1> QED
  BY <1>5, <1>6, <1>7, <1>8, <1>9, <1>10, <1>11, <1>12, <1>13, <1>14, <1>15, <1>16

(* Finitely many finite sets.                                              *)
LEMMA FiniteUnion ==
    ASSUME NEW f, IsFiniteSet(DOMAIN f), \A x \in DOMAIN f : IsFiniteSet(f[x])
    PROVE  IsFiniteSet(UNION {f[x] : x \in DOMAIN f})
<1> DEFINE T == {f[x] : x \in DOMAIN f}
           g == [x \in DOMAIN f |-> f[x]]
<1>1. g \in Surjection(DOMAIN f, T)
  BY DEF Surjection
<1>2. IsFiniteSet(T)
  BY <1>1, FS_Surjection
<1>3. \A t \in T : IsFiniteSet(t)
  OBVIOUS
<1> HIDE DEF T
<1> QED
  BY <1>2, <1>3, FS_UNION DEF T

(* What the query finds for a revision is what its events are about.       *)
LEMMA RevisionTouches ==
    ASSUME TypeOK, NEW s \in DOMAIN feed
    PROVE  StandsFor(PairsAt(s), ObjectsAt(s))
<1>1. feed[s] \in Revision
  BY LenProperties, ElementOfSeq DEF TypeOK
<1>2. PICK r : r = feed[s]
  OBVIOUS
<1>3. /\ r \in Revision /\ r \in Seq(Range(r))
      /\ \A e \in Range(r) : IsEvent(e)
  BY <1>1, <1>2, RevisionAssumption
<1>4. DOMAIN r = 1..Len(r) /\ Len(r) \in Nat
  BY <1>3, LenProperties
<1>5. Range(r) = {r[i] : i \in DOMAIN r}
  BY DEF Range
<1>6. RowsOf[r] = {Stored(e) : e \in Range(r)}
  <2>1. RowsOf[r] = {RowOf[e] : e \in Range(r)}
    BY <1>3 DEF RowsOf
  <2>2. ASSUME NEW e \in Range(r) PROVE RowOf[e] = Stored(e)
    <3>1. e \in UNION {Range(q) : q \in Revision}
      BY <1>3
    <3> QED
      BY <3>1, Zenon DEF RowOf
  <2> QED
    BY <2>1, <2>2
<1>7. PairsAt(s) = UNION {Touched(Stored(e)) : e \in Range(r)}
  BY <1>2, <1>6, Zenon DEF PairsAt
<1>8. ObjectsAt(s) = UNION {Concerns(e) : e \in Range(r)}
  BY <1>2 DEF ObjectsAt
<1>9. \A e \in Range(r) : StandsFor(Touched(Stored(e)), Concerns(e))
  BY <1>3, RowTouches
<1>10. IsFiniteSet(PairsAt(s))
  <2> DEFINE g == [i \in 1..Len(r) |-> Touched(Stored(r[i]))]
  <2>1. IsFiniteSet(DOMAIN g) /\ DOMAIN g = DOMAIN r
    BY <1>4, FS_Interval
  <2>2. \A i \in DOMAIN g : g[i] = Touched(Stored(r[i])) /\ r[i] \in Range(r)
    BY <1>4, <1>5
  <2>3. \A i \in DOMAIN g : IsFiniteSet(g[i])
    BY <2>2, <1>9 DEF StandsFor
  <2>4. {g[i] : i \in DOMAIN g} = {Touched(Stored(e)) : e \in Range(r)}
    <3> HIDE DEF g
    <3>1. ASSUME NEW i \in DOMAIN g PROVE g[i] \in {Touched(Stored(e)) : e \in Range(r)}
      BY <2>2
    <3>2. ASSUME NEW e \in Range(r) PROVE \E i \in DOMAIN g : g[i] = Touched(Stored(e))
      BY <2>1, <2>2, <1>5
    <3> QED
      BY <3>1, <3>2
  <2> HIDE DEF g
  <2>5. IsFiniteSet(UNION {g[i] : i \in DOMAIN g})
    BY <2>1, <2>3, FiniteUnion
  <2> QED
    BY <2>4, <2>5, <1>7
<1>11. PairsAt(s) \subseteq Pair
  BY <1>7, <1>9, Zenon DEF StandsFor
<1>12. {ObjectAt(pair) : pair \in PairsAt(s)} = ObjectsAt(s)
  <2>1. ASSUME NEW pair \in PairsAt(s) PROVE ObjectAt(pair) \in ObjectsAt(s)
    <3>1. PICK e \in Range(r) : pair \in Touched(Stored(e))
      BY <1>7
    <3>2. ObjectAt(pair) \in Concerns(e)
      BY <1>9, <3>1 DEF StandsFor
    <3> QED
      BY <3>2, <1>8
  <2>2. ASSUME NEW o \in ObjectsAt(s) PROVE \E pair \in PairsAt(s) : ObjectAt(pair) = o
    <3>1. PICK e \in Range(r) : o \in Concerns(e)
      BY <1>8
    <3>2. PICK pair \in Touched(Stored(e)) : ObjectAt(pair) = o
      BY <1>9, <3>1 DEF StandsFor
    <3> QED
      BY <3>2, <1>7
  <2> QED
    BY <2>1, <2>2
<1> QED
  BY <1>10, <1>11, <1>12 DEF StandsFor

(* The query behind a sequence, as the revisions there are.                *)
LEMMA TouchedIs ==
    ASSUME TypeOK, NEW a \in Nat
    PROVE  /\ \A pair : pair \in TouchedAfter(a) <=>
                           \E s \in DOMAIN feed : a < s /\ pair \in PairsAt(s)
           /\ TouchedAfter(a) \subseteq Pair /\ IsFiniteSet(TouchedAfter(a))
<1>1. DOMAIN feed = 1..Len(feed) /\ Len(feed) \in Nat
  BY LenProperties DEF TypeOK
<1>2. TouchedAfter(a) = UNION {PairsAt(s) : s \in After(a)}
  BY DEF TouchedAfter, PairsAt
<1>3. \A s : s \in After(a) <=> s \in DOMAIN feed /\ a < s
  BY <1>1 DEF After
<1>4. \A s \in After(a) : PairsAt(s) \subseteq Pair /\ IsFiniteSet(PairsAt(s))
  BY <1>3, RevisionTouches DEF StandsFor
<1>5. IsFiniteSet(TouchedAfter(a))
  <2>1. IsFiniteSet(After(a))
    <3>1. IsFiniteSet(1..Len(feed))
      BY <1>1, FS_Interval
    <3>2. After(a) \in SUBSET (1..Len(feed))
      BY <1>1, <1>3
    <3> QED
      BY <3>1, <3>2, FS_Subset
  <2> DEFINE g == [s \in After(a) |-> PairsAt(s)]
  <2>2. DOMAIN g = After(a) /\ \A s \in DOMAIN g : g[s] = PairsAt(s)
    OBVIOUS
  <2> HIDE DEF g
  <2>3. IsFiniteSet(UNION {g[s] : s \in DOMAIN g})
    BY <2>1, <2>2, <1>4, FiniteUnion
  <2>4. {g[s] : s \in DOMAIN g} = {PairsAt(s) : s \in After(a)}
    BY <2>2, Zenon
  <2> QED
    BY <2>3, <2>4, <1>2
<1> QED
  BY <1>2, <1>3, <1>4, <1>5

(* The order of the pages is total.                                        *)
LEMMA BeforeIsTotal ==
    /\ \A a, b \in Pair : a = b \/ Before(a, b) \/ Before(b, a)
    /\ \A a, b, c \in Pair : Before(a, b) /\ Before(b, c) => Before(a, c)
    /\ \A a \in Pair : Before(NoTarget, a)
<1>1. \A a \in Pair : a[1] \in 0..5 /\ a[2] \in Nat /\ a = <<a[1], a[2]>>
  BY DEF Pair
<1>2. ASSUME NEW a \in Pair, NEW b \in Pair
      PROVE  a = b \/ Before(a, b) \/ Before(b, a)
  BY <1>1 DEF Before
<1>3. ASSUME NEW a \in Pair, NEW b \in Pair, NEW c \in Pair, Before(a, b), Before(b, c)
      PROVE  Before(a, c)
  BY <1>1, <1>3 DEF Before
<1>4. ASSUME NEW a \in Pair PROVE Before(NoTarget, a)
  BY <1>1 DEF Before, NoTarget
<1> QED
  BY <1>2, <1>3, <1>4

(* A page that is not empty has a last row: a set without one, of the      *)
(* smallest size, has one without any of its elements.                     *)
LEMMA PageHasLast ==
    ASSUME NEW page \in SUBSET Pair, IsFiniteSet(page), page # {}
    PROVE  LastOf(page) \in page /\ \A q \in page : q = LastOf(page) \/ Before(q, LastOf(page))
<1> DEFINE HasLast(T) == \E r \in T : \A q \in T : q = r \/ Before(q, r)
           lacking == {n \in Nat : \E T \in SUBSET Pair :
                          IsFiniteSet(T) /\ T # {} /\ Cardinality(T) = n /\ ~HasLast(T)}
<1>1. lacking = {}
  <2> SUFFICES ASSUME lacking # {} PROVE FALSE
    OBVIOUS
  <2>1. PICK n \in lacking : \A m \in lacking : n <= m
    <3>1. lacking \in SUBSET Nat
      OBVIOUS
    <3> HIDE DEF lacking
    <3> QED
      BY <3>1, SmallestOf
  <2>2. PICK T \in SUBSET Pair : IsFiniteSet(T) /\ T # {} /\ Cardinality(T) = n /\ ~HasLast(T)
    BY <2>1
  <2>3. PICK x \in T : TRUE
    BY <2>2
  <2>4. PICK U : U = T \ {x}
    OBVIOUS
  <2>5. /\ IsFiniteSet(U) /\ Cardinality(U) = n - 1
        /\ n \in Nat /\ n - 1 < n /\ U \in SUBSET Pair
    BY <2>2, <2>3, <2>4, FS_RemoveElement
  <2>6. Cardinality(U) \in Nat
    BY <2>5, FS_CardinalityType
  <2>7. CASE U = {}
    <3>1. \A q \in T : q = x
      BY <2>4, <2>7
    <3> QED
      BY <3>1, <2>2, <2>3
  <2>8. CASE U # {}
    <3>1. HasLast(U)
      <4> SUFFICES ASSUME ~HasLast(U) PROVE FALSE
        OBVIOUS
      <4>1. n - 1 \in lacking
        BY <2>5, <2>6, <2>8
      <4> QED
        BY <4>1, <2>1, <2>5
    <3>2. PICK r \in U : \A q \in U : q = r \/ Before(q, r)
      BY <3>1
    <3>3. r \in Pair /\ x \in Pair /\ r \in T
      BY <2>2, <2>3, <2>4, <3>2
    <3>4. CASE Before(x, r)
      <4>1. \A q \in T : q = r \/ Before(q, r)
        BY <2>4, <3>2, <3>4
      <4> QED
        BY <4>1, <3>3, <2>2
    <3>5. CASE Before(r, x)
      <4>1. \A q \in T : q = x \/ Before(q, x)
        <5> SUFFICES ASSUME NEW q \in T, q # x PROVE Before(q, x)
          OBVIOUS
        <5>1. q \in U /\ q \in Pair
          BY <2>4
        <5> QED
          BY <5>1, <3>2, <3>3, <3>5, BeforeIsTotal
      <4> QED
        BY <4>1, <2>2, <2>3
    <3>6. x # r
      BY <2>4, <3>2
    <3> QED
      BY <3>3, <3>4, <3>5, <3>6, BeforeIsTotal
  <2> QED
    BY <2>7, <2>8
<1>2. HasLast(page)
  <2> SUFFICES ASSUME ~HasLast(page) PROVE FALSE
    OBVIOUS
  <2>1. Cardinality(page) \in lacking
    BY FS_CardinalityType
  <2> QED
    BY <2>1, <1>1
<1> QED
  BY <1>2, Zenon DEF LastOf

(* Of a traversal: what lies behind its position has been returned, if a   *)
(* revision that was there when it began has touched it, and nothing was   *)
(* returned that no revision has touched.                                  *)
Returns(began, last) ==
    \A s \in 1..began : scan.after < s =>
        \A pair \in PairsAt(s) : Before(last, pair) \/ ObjectAt(pair) \in scan.got
OnlyTouched == \A o \in scan.got : \E s \in DOMAIN feed : scan.after < s /\ o \in ObjectsAt(s)

Traverses ==
    /\ scan.began <= Len(feed)
    /\ scan.pc = "paging" => scan.last \in Pair \cup {NoTarget} /\ Returns(scan.began, scan.last)
    /\ scan.pc = "done" => \A s \in 1..scan.began : scan.after < s => ObjectsAt(s) \subseteq scan.got
    /\ scan.pc # "off" => OnlyTouched

SInv == FInv /\ Traverses

LEMMA TraversesInit == Init => Traverses
<1> SUFFICES ASSUME Init PROVE Traverses
  OBVIOUS
<1>1. scan = NoScan /\ feed = <<>>
  BY DEF Init
<1>2. Len(feed) = 0
  BY <1>1
<1>3. scan.pc = "off" /\ scan.began = 0
  BY <1>1 DEF NoScan
<1> QED
  BY <1>2, <1>3 DEF Traverses

(* Commits and everything else that is not the reader's.                   *)
LEMMA OthersKeepTraversal ==
    ASSUME SInv, TypeOK', scan' = scan,
           feed' = feed \/ \E events \in Revision : feed' = Append(feed, events)
    PROVE  Traverses'
<1>1. DOMAIN feed = 1..Len(feed) /\ Len(feed) \in Nat /\ scan.began \in Nat
  BY FeedFacts DEF SInv, FInv, Scan
<1>2. /\ Len(feed) <= Len(feed') /\ Len(feed') \in Nat /\ DOMAIN feed \subseteq DOMAIN feed'
      /\ \A s \in DOMAIN feed : feed'[s] = feed[s]
  <2>1. ASSUME NEW events \in Revision, feed' = Append(feed, events)
        PROVE  /\ Len(feed) <= Len(feed') /\ Len(feed') \in Nat /\ DOMAIN feed \subseteq DOMAIN feed'
               /\ \A s \in DOMAIN feed : feed'[s] = feed[s]
    <3>1. PICK J : J = Append(feed, events)
      OBVIOUS
    <3>2. feed \in Seq(Revision)
      BY DEF SInv, FInv, TypeOK
    <3>3. Len(J) = Len(feed) + 1 /\ \A s \in 1..Len(feed) : J[s] = feed[s]
      BY <3>1, <3>2, AppendProperties
    <3>4. J \in Seq(Revision)
      BY <3>1, <3>2, AppendProperties
    <3>5. DOMAIN J = 1..Len(J) /\ Len(J) \in Nat
      BY <3>4, LenProperties
    <3>6. feed' = J
      BY <2>1, <3>1
    <3> QED
      BY <1>1, <3>3, <3>5, <3>6
  <2>2. CASE feed' = feed
    BY <2>2, <1>1
  <2> QED
    BY <2>1, <2>2
<1>3. \A s \in DOMAIN feed : PairsAt(s)' = PairsAt(s) /\ ObjectsAt(s)' = ObjectsAt(s)
  BY <1>2 DEF PairsAt, ObjectsAt
<1>4. scan.began <= Len(feed)
  BY DEF SInv, Traverses
<1>5. \A s \in 1..scan.began : s \in DOMAIN feed
  BY <1>1, <1>4
<1>6. scan'.began <= Len(feed')
  <2>1. PICK n, m : n = Len(feed) /\ m = Len(feed')
    OBVIOUS
  <2>2. n \in Nat /\ m \in Nat /\ n <= m /\ scan.began <= n /\ scan.began \in Nat
    BY <2>1, <1>1, <1>2, <1>4
  <2>3. scan'.began <= m
    BY <2>2
  <2> QED
    BY <2>1, <2>3
<1>7. ASSUME scan'.pc = "paging"
      PROVE  scan'.last \in Pair \cup {NoTarget} /\ Returns(scan.began, scan.last)'
  <2>1. scan.last \in Pair \cup {NoTarget} /\ Returns(scan.began, scan.last)
    BY <1>7 DEF SInv, Traverses
  <2>2. Returns(scan.began, scan.last)'
    BY <2>1, <1>3, <1>5 DEF Returns
  <2> QED
    BY <2>1, <2>2
<1>8. ASSUME scan'.pc = "done", NEW s \in 1..scan'.began, scan'.after < s
      PROVE  ObjectsAt(s)' \subseteq scan'.got
  <2>1. s \in 1..scan.began /\ scan.after < s /\ scan.pc = "done"
    BY <1>8
  <2>2. ObjectsAt(s) \subseteq scan.got
    BY <2>1 DEF SInv, Traverses
  <2> QED
    BY <2>1, <2>2, <1>3, <1>5
<1>9. ASSUME scan'.pc # "off" PROVE OnlyTouched'
  <2>1. OnlyTouched
    BY <1>9 DEF SInv, Traverses
  <2> SUFFICES ASSUME NEW o \in scan.got
               PROVE  \E s \in DOMAIN feed' : scan.after < s /\ o \in ObjectsAt(s)'
    BY DEF OnlyTouched
  <2>2. PICK s \in DOMAIN feed : scan.after < s /\ o \in ObjectsAt(s)
    BY <2>1 DEF OnlyTouched
  <2>3. s \in DOMAIN feed'
    BY <1>2
  <2>4. o \in ObjectsAt(s)'
    BY <1>3, <2>2
  <2> QED
    BY <2>2, <2>3, <2>4
<1> QED
  BY <1>6, <1>7, <1>8, <1>9 DEF Traverses

(* A traversal that begins, or none.                                       *)
LEMMA BeginsTraversal ==
    ASSUME SInv, feed' = feed,
           scan' = NoScan \/ scan' = [NoScan EXCEPT !.pc = "paging", !.after = saved, !.began = Len(feed)]
    PROVE  Traverses'
<1>1. Len(feed) \in Nat /\ DOMAIN feed = 1..Len(feed)
  BY FeedFacts DEF SInv, FInv
<1>2. CASE scan' = NoScan
  <2>1. scan'.pc = "off" /\ scan'.began = 0
    BY <1>2 DEF NoScan
  <2> QED
    BY <2>1, <1>1 DEF Traverses
<1>3. CASE scan' = [NoScan EXCEPT !.pc = "paging", !.after = saved, !.began = Len(feed)]
  <2>1. /\ scan'.pc = "paging" /\ scan'.after = saved /\ scan'.began = Len(feed)
        /\ scan'.last = NoTarget /\ scan'.got = {}
    BY <1>3 DEF NoScan
  <2>2. \A s \in DOMAIN feed : PairsAt(s) \subseteq Pair
    BY RevisionTouches DEF StandsFor, SInv, FInv
  <2>3. \A s \in DOMAIN feed' : \A pair \in PairsAt(s)' : Before(NoTarget, pair)
    BY <2>2, BeforeIsTotal DEF PairsAt
  <2>4. Returns(scan.began, scan.last)'
    BY <2>1, <2>3, <1>1 DEF Returns
  <2>5. OnlyTouched'
    BY <2>1 DEF OnlyTouched
  <2> QED
    BY <2>1, <2>4, <2>5, <1>1 DEF Traverses
<1> QED
  BY <1>2, <1>3

(* One more page: what it does not hold lies behind its last row.          *)
LEMMA ScanPageKeeps ==
    ASSUME SInv, ScanPage
    PROVE  Traverses'
<1>1. PICK page \in SUBSET Changed :
         /\ PageBy(Before, page, Changed, Limit)
         /\ \/ page = Changed /\ Reader([scan EXCEPT !.pc = "done", !.last = NoTarget,
                                                     !.got = @ \cup ObjectsOf(page)])
            \/ page # Changed /\ Reader([scan EXCEPT !.last = LastOf(page),
                                                     !.got = @ \cup ObjectsOf(page)])
  BY DEF ScanPage
<1>2. PICK more : more = ObjectsOf(page)
  OBVIOUS
<1>3. more = {ObjectAt(pair) : pair \in page}
  BY <1>2 DEF ObjectsOf, ObjectAt
<1>4. /\ TypeOK /\ scan.pc = "paging" /\ scan.after \in Nat /\ scan.began \in Nat
      /\ DOMAIN scan = {"pc", "after", "began", "last", "got"}
  BY DEF SInv, FInv, Scan, ScanPage
<1>5. /\ scan.began <= Len(feed) /\ scan.last \in Pair \cup {NoTarget}
      /\ Returns(scan.began, scan.last) /\ OnlyTouched
  BY <1>4 DEF SInv, Traverses
<1>6. Len(feed) \in Nat /\ DOMAIN feed = 1..Len(feed)
  BY <1>4, FeedFacts
<1>7. /\ \A pair : pair \in TouchedAfter(scan.after) <=>
                      \E s \in DOMAIN feed : scan.after < s /\ pair \in PairsAt(s)
      /\ TouchedAfter(scan.after) \subseteq Pair /\ IsFiniteSet(TouchedAfter(scan.after))
  BY <1>4, TouchedIs
<1>8. \A s \in DOMAIN feed : /\ PairsAt(s) \subseteq Pair
                             /\ {ObjectAt(pair) : pair \in PairsAt(s)} = ObjectsAt(s)
  BY <1>4, RevisionTouches DEF StandsFor
<1>9. /\ page \subseteq Changed /\ Cardinality(page) <= Limit
      /\ \A r \in page, k \in Changed : Before(k, r) => k \in page
      /\ page = Changed \/ Cardinality(page) = Limit
  BY <1>1 DEF PageBy
<1>10. \A s \in DOMAIN feed' : PairsAt(s)' = PairsAt(s) /\ ObjectsAt(s)' = ObjectsAt(s)
  BY <1>1 DEF Reader, PairsAt, ObjectsAt
<1>11. page \subseteq TouchedAfter(scan.after) /\ page \subseteq Pair /\ IsFiniteSet(page)
  BY <1>7, <1>9, FS_Subset DEF Changed
<1>12. feed' = feed /\ scan'.got = scan.got \cup more /\ scan'.after = scan.after
       /\ scan'.began = scan.began /\ scan'.pc \in {"paging", "done"}
  BY <1>1, <1>2, <1>4 DEF Reader
<1>13. OnlyTouched'
  <2> SUFFICES ASSUME NEW o \in scan'.got
               PROVE  \E s \in DOMAIN feed : scan.after < s /\ o \in ObjectsAt(s)
    BY <1>10, <1>12 DEF OnlyTouched
  <2>1. CASE o \in scan.got
    BY <2>1, <1>5 DEF OnlyTouched
  <2>2. CASE o \in more
    <3>1. PICK pair \in page : o = ObjectAt(pair)
      BY <2>2, <1>3
    <3>2. PICK s \in DOMAIN feed : scan.after < s /\ pair \in PairsAt(s)
      BY <3>1, <1>7, <1>11
    <3> QED
      BY <3>1, <3>2, <1>8
  <2> QED
    BY <2>1, <2>2, <1>12
<1>14. ASSUME NEW s \in 1..scan.began, scan.after < s, NEW pair \in PairsAt(s),
              ObjectAt(pair) \notin scan'.got
       PROVE  pair \in Changed /\ pair \notin page /\ pair \in Pair
  <2>1. s \in DOMAIN feed
    BY <1>4, <1>5, <1>6
  <2>2. pair \in TouchedAfter(scan.after)
    BY <2>1, <1>7, <1>14
  <2>3. Before(scan.last, pair)
    BY <1>5, <1>12, <1>14 DEF Returns
  <2>4. pair \notin page
    BY <1>3, <1>12, <1>14
  <2> QED
    BY <2>2, <2>3, <2>4, <1>7 DEF Changed
<1>15. CASE page = Changed
  <2>1. scan'.pc = "done"
    BY <1>1, <1>4, <1>15 DEF Reader
  <2>2. ASSUME NEW s \in 1..scan.began, scan.after < s
        PROVE  ObjectsAt(s) \subseteq scan'.got
    <3>1. s \in DOMAIN feed
      BY <1>4, <1>5, <1>6
    <3>2. \A pair \in PairsAt(s) : ObjectAt(pair) \in scan'.got
      BY <1>14, <1>15, <2>2
    <3> QED
      BY <3>1, <3>2, <1>8
  <2>3. \A s \in 1..scan'.began : scan'.after < s => ObjectsAt(s)' \subseteq scan'.got
    <3>1. \A s \in 1..scan.began : s \in DOMAIN feed'
      BY <1>4, <1>5, <1>6, <1>12
    <3> QED
      BY <3>1, <2>2, <1>10, <1>12
  <2> QED
    BY <2>1, <2>3, <1>5, <1>12, <1>13 DEF Traverses
<1>16. CASE page # Changed
  <2>1. scan'.pc = "paging" /\ scan'.last = LastOf(page)
    BY <1>1, <1>4, <1>16 DEF Reader
  <2>2. page # {}
    BY <1>9, <1>16, FS_EmptySet, LimitAssumption
  <2>3. LastOf(page) \in page /\ \A q \in page : q = LastOf(page) \/ Before(q, LastOf(page))
    BY <1>11, <2>2, PageHasLast
  <2>4. PICK last \in Pair : last = LastOf(page) /\ last \in page
    BY <2>3, <1>11
  <2>5. ASSUME NEW s \in 1..scan.began, scan.after < s, NEW pair \in PairsAt(s)
        PROVE  Before(last, pair) \/ ObjectAt(pair) \in scan'.got
    <3> SUFFICES ASSUME ObjectAt(pair) \notin scan'.got PROVE Before(last, pair)
      OBVIOUS
    <3>1. pair \in Changed /\ pair \notin page /\ pair \in Pair
      BY <1>14, <2>5
    <3>2. pair # last /\ ~Before(pair, last)
      BY <3>1, <2>4, <1>9
    <3> QED
      BY <3>1, <3>2, BeforeIsTotal
  <2>6. Returns(scan.began, scan.last)'
    <3>1. \A s \in 1..scan.began : s \in DOMAIN feed'
      BY <1>4, <1>5, <1>6, <1>12
    <3>2. scan'.last = last
      BY <2>1, <2>4
    <3> QED
      BY <3>1, <3>2, <2>5, <1>10, <1>12 DEF Returns
  <2> QED
    BY <2>1, <2>4, <2>6, <1>5, <1>12, <1>13 DEF Traverses
<1> QED
  BY <1>15, <1>16

LEMMA SInvStep == SInv /\ [Next]_vars => SInv'
<1> SUFFICES ASSUME SInv, [Next]_vars PROVE SInv'
  OBVIOUS
<1>1. FInv'
  BY FInvStep DEF SInv
<1>2. TypeOK'
  BY <1>1 DEF FInv
<1>3. ASSUME NEW events \in Revision, Commit(events) PROVE Traverses'
  BY <1>2, <1>3, OthersKeepTraversal DEF Commit
<1>4. ASSUME Start \/ StartScan PROVE Traverses'
  BY <1>4, BeginsTraversal DEF Start, StartScan, Reader
<1>5. ASSUME Stop \/ Run \/ TimesOut \/ Raises \/ Store \/ Crash \/ UNCHANGED vars
      PROVE  Traverses'
  <2>1. feed' = feed /\ scan' = scan
    BY <1>5 DEF Stop, Run, TimesOut, Raises, Store, Crash, vars, WaitEnds, ReadRows, ReadThrough,
                Deliver, Returned, PageDone, Goto
  <2> QED
    BY <1>2, <2>1, OthersKeepTraversal
<1>6. ASSUME ScanPage PROVE Traverses'
  BY <1>6, ScanPageKeeps
<1>7. Traverses'
  BY <1>3, <1>4, <1>5, <1>6 DEF Next
<1> QED
  BY <1>1, <1>7 DEF SInv

(* A traversal of the changed objects (objects_changed_since) that ran to  *)
(* its end has every object a revision after its sequence was about when   *)
(* it began, and none that no revision is about, for every event there is, *)
(* every page size and whatever is committed between two pages.            *)
THEOREM ScansAreComplete == Spec => []ScanIsComplete
<1>1. Init => SInv
  BY FInvInit, TraversesInit DEF SInv
<1>2. SInv /\ [Next]_vars => SInv'
  BY SInvStep
<1>3. SInv => ScanIsComplete
  <2> SUFFICES ASSUME SInv, scan.pc = "done"
               PROVE  /\ ChangedBetween(scan.after, scan.began) \subseteq scan.got
                      /\ scan.got \subseteq ChangedBetween(scan.after, Len(feed))
    BY DEF ScanIsComplete
  <2>1. /\ scan.began <= Len(feed) /\ OnlyTouched
        /\ \A s \in 1..scan.began : scan.after < s => ObjectsAt(s) \subseteq scan.got
    BY DEF SInv, Traverses
  <2>2. Len(feed) \in Nat /\ DOMAIN feed = 1..Len(feed) /\ scan.began \in Nat
    BY FeedFacts DEF SInv, FInv, Scan
  <2>3. \A o, n : o \in ChangedBetween(scan.after, n) <=>
           \E s \in DOMAIN feed : scan.after < s /\ s <= n /\ o \in ObjectsAt(s)
    BY DEF ChangedBetween, ObjectsAt
  <2>4. ChangedBetween(scan.after, scan.began) \subseteq scan.got
    <3> SUFFICES ASSUME NEW o \in ChangedBetween(scan.after, scan.began) PROVE o \in scan.got
      OBVIOUS
    <3>1. PICK s \in DOMAIN feed : scan.after < s /\ s <= scan.began /\ o \in ObjectsAt(s)
      BY <2>3
    <3>2. s \in 1..scan.began
      BY <2>2, <3>1
    <3> QED
      BY <2>1, <3>1, <3>2
  <2>5. scan.got \subseteq ChangedBetween(scan.after, Len(feed))
    <3> SUFFICES ASSUME NEW o \in scan.got PROVE o \in ChangedBetween(scan.after, Len(feed))
      OBVIOUS
    <3>1. PICK s \in DOMAIN feed : scan.after < s /\ o \in ObjectsAt(s)
      BY <2>1 DEF OnlyTouched
    <3>2. s <= Len(feed)
      BY <2>2
    <3> QED
      BY <2>3, <3>1, <3>2
  <2> QED
    BY <2>4, <2>5
<1> QED
  BY <1>1, <1>2, <1>3, PTL DEF Spec
=============================================================================
