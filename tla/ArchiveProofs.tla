--------------------------- MODULE ArchiveProofs ---------------------------
(***************************************************************************)
(* What FetchData reads, and what an archive of it holds: for any          *)
(* documents, page size, trip, keys and number of deliveries, while        *)
(* documents are indexed at any moment.                                    *)
(*                                                                         *)
(* The fetch: every hit read so far is at most as late as search_after     *)
(* (ReadSoFar), so the next page lies after all of them; and a document    *)
(* that was there when the fetch began is read, or still ahead of          *)
(* search_after, or shares its time with the last hit of a full page       *)
(* (Accounted).                                                            *)
(*                                                                         *)
(* The archive: the handler keeps the invariant of the fetch it contains,  *)
(* which it starts afresh with every delivery.                             *)
(***************************************************************************)
EXTENDS Archive, FiniteSetTheorems, TLAPS

----------------------------------------------------------------------------
(* The fetch by itself *)

\* d was cut off from a full page whose last hit has its time.
CutOff(d) ==
  \E i \in DOMAIN pages :
    /\ Cardinality(pages[i]) = PageSize
    /\ d.time \in LastTime(pages[i])

ReadSoFar ==
  /\ after = Null => pages = << >>
  /\ \A i \in DOMAIN pages : \A d \in pages[i] : d.time <= after

Ahead(d) == after # Null => d.time > after

Accounted ==
  /\ \A d \in requested : d \in index /\ d.subject = Device /\ InWindow(d)
  /\ pc = "start" => pages = << >> /\ after = Null
  /\ pc = "search" => \A d \in requested \ Fetched : Ahead(d) \/ CutOff(d)
  /\ pc = "done" => \A d \in requested \ Fetched : CutOff(d)

IInv == TypeOK /\ ReadSoFar /\ InTimeOrder /\ Accounted

----------------------------------------------------------------------------
(* Lemmas *)

\* Leaving out the fraction of a second keeps the order.
LEMMA SecondMonotone ==
  ASSUME NEW a \in Nat, NEW b \in Nat, a <= b
  PROVE  Second(a) <= Second(b)
<1> DEFINE n == PerSecond
<1>1. n \in Nat \ {0}
  BY WindowAssumption
<1> HIDE DEF n
<1>2. /\ a \div n \in Int /\ b \div n \in Int
      /\ a = n * (a \div n) + (a % n) /\ 0 <= a % n /\ a % n < n
      /\ b = n * (b \div n) + (b % n) /\ 0 <= b % n /\ b % n < n
  BY <1>1
<1>3. ASSUME NEW x \in Int, NEW y \in Int, NEW r \in Int, NEW s \in Int,
             a = n * x + r, b = n * y + s, 0 <= r, s < n, x > y
      PROVE  FALSE
  <2>1. n * x >= n * (y + 1)
    BY <1>1, <1>3
  <2>2. n * (y + 1) = n * y + n
    BY <1>1, <1>3
  <2> QED
    BY <1>1, <1>3, <2>1, <2>2
<1>4. a % n \in Int /\ b % n \in Int
  BY <1>1
<1>5. ~(a \div n > b \div n)
  BY <1>2, <1>3, <1>4
<1>6. a \div n <= b \div n
  BY <1>2, <1>5
<1> QED
  BY <1>6 DEF Second, n

LEMMA DocType ==
  ASSUME NEW d \in Docs
  PROVE  d.time \in Nat /\ d.stamp \in Nat
BY DocsAssumption DEF Doc

LEMMA DocTypes ==
  /\ \A d \in Docs : d.time \in Nat /\ d.stamp \in Nat
  /\ Null \notin Nat
BY DocType, DocsAssumption

\* A page is what there is to read, or it is full and nothing left out is
\* earlier than what is in it.
LEMMA PageCut ==
  ASSUME NEW hits \in SUBSET Docs, NEW p \in First(hits)
  PROVE  /\ p \subseteq hits
         /\ p = hits \/ Cardinality(p) = PageSize
         /\ \A d \in p, e \in hits \ p : d.time <= e.time
<1>1. IsFiniteSet(hits) /\ p \in SUBSET hits
  BY DocsAssumption, FS_Subset DEF First
<1>2. Cardinality(hits) = Cardinality(p) => hits = p
  BY <1>1, FS_Subset
<1> QED
  BY <1>1, <1>2 DEF First

LEMMA LastOfPage ==
  ASSUME NEW p \in SUBSET Docs, NEW t \in LastTime(p)
  PROVE  /\ t \in Nat
         /\ \A d \in p : d.time <= t
         /\ \E d \in p : d.time = t
BY DocTypes DEF LastTime

LEMMA AppendPage ==
  ASSUME TypeOK, NEW p \in (SUBSET Docs) \ {{}}, pages' = Append(pages, p)
  PROVE  /\ pages' \in Seq((SUBSET Docs) \ {{}})
         /\ DOMAIN pages' = DOMAIN pages \cup {Len(pages) + 1}
         /\ Len(pages) + 1 \notin DOMAIN pages
         /\ \A i \in DOMAIN pages : pages'[i] = pages[i] /\ i < Len(pages) + 1
         /\ pages'[Len(pages) + 1] = p
         /\ DOMAIN pages \subseteq Nat
BY DEF TypeOK

----------------------------------------------------------------------------
(* The steps *)

LEMMA InitIInv == Init => IInv
BY DEF Init, IInv, TypeOK, ReadSoFar, InTimeOrder, Accounted

LEMMA FetchIInv == ASSUME IInv, FetchData PROVE IInv'
<1> USE DEF FetchData
<1>1. TypeOK'
  BY DEF IInv, TypeOK
<1>2. ReadSoFar' /\ InTimeOrder'
  BY DEF IInv, ReadSoFar, InTimeOrder, LastTime
<1>3. ASSUME NEW d \in requested'
      PROVE  d \in index' /\ d.subject = Device /\ InWindow(d)
  <2>1. d \in Docs /\ Start <= d.stamp /\ d.stamp <= End
    BY <1>3 DEF IInv, TypeOK
  <2>2. Second(Start) <= Second(d.stamp) /\ Second(d.stamp) <= Second(End)
    BY <2>1, SecondMonotone, DocTypes, WindowAssumption
  <2> QED
    BY <1>3, <2>2 DEF InWindow
<1>4. Accounted'
  BY <1>3 DEF IInv, Accounted, Ahead, InWindow
<1> QED
  BY <1>1, <1>2, <1>4 DEF IInv

LEMMA PageIInv ==
  ASSUME IInv, pc = "search", pc' = "search", NEW p \in First(Hits), Hits # {},
         pages' = Append(pages, p), after' \in LastTime(p),
         UNCHANGED <<index, requested>>
  PROVE  IInv'
<1>1. /\ Hits \in SUBSET Docs
      /\ \A d \in Hits : d.time \in Nat /\ (after # Null => d.time > after)
  BY DocTypes DEF IInv, TypeOK, Hits
<1>2. /\ p \subseteq Hits /\ p \in SUBSET Docs
      /\ p = Hits \/ Cardinality(p) = PageSize
      /\ \A d \in p, e \in Hits \ p : d.time <= e.time
  BY <1>1, PageCut
<1>3. /\ after' \in Nat
      /\ \A d \in p : d.time <= after'
      /\ \E d \in p : d.time = after'
  BY <1>2, LastOfPage
<1>4. p \in (SUBSET Docs) \ {{}}
  BY <1>2, <1>3
<1> DEFINE n == Len(pages) + 1
<1>5. /\ pages' \in Seq((SUBSET Docs) \ {{}})
      /\ DOMAIN pages' = DOMAIN pages \cup {n}
      /\ \A i \in DOMAIN pages : pages'[i] = pages[i] /\ i < n
      /\ pages'[n] = p
      /\ DOMAIN pages \subseteq Nat /\ n \in Nat
  BY <1>4, AppendPage DEF IInv, TypeOK
<1> HIDE DEF n
<1>6. TypeOK'
  BY <1>3, <1>5 DEF IInv, TypeOK
<1>7. ASSUME NEW i \in DOMAIN pages, NEW d \in pages[i]
      PROVE  /\ after # Null /\ after \in Nat /\ d.time \in Nat
             /\ d.time <= after
  <2>1. pages # << >> /\ d \in Docs
    BY <1>7 DEF IInv, TypeOK
  <2> QED
    BY <1>7, <2>1, DocTypes DEF IInv, TypeOK, ReadSoFar
<1>8. \A i \in DOMAIN pages : \A d \in pages[i], e \in p : d.time < e.time
  BY <1>1, <1>2, <1>7
<1>9. \A i \in DOMAIN pages : \A d \in pages[i] : d.time <= after'
  BY <1>1, <1>2, <1>3, <1>7
<1>10. ReadSoFar'
  <2>1. \A i \in DOMAIN pages' : \A d \in pages'[i] : d.time <= after'
    BY <1>3, <1>5, <1>9
  <2> QED
    BY <1>3, <2>1, DocTypes DEF ReadSoFar
<1>11. InTimeOrder'
  <2> SUFFICES ASSUME NEW i \in DOMAIN pages', NEW j \in DOMAIN pages', i < j
               PROVE  \A d \in pages'[i], e \in pages'[j] : d.time < e.time
    BY DEF InTimeOrder
  <2>1. i \in DOMAIN pages
    BY <1>5
  <2>2. CASE j = n
    BY <1>5, <1>8, <2>1, <2>2
  <2>3. CASE j \in DOMAIN pages
    BY <1>5, <2>1, <2>3 DEF IInv, InTimeOrder
  <2> QED
    BY <1>5, <2>2, <2>3
<1>12. ASSUME NEW d, CutOff(d)
       PROVE  CutOff(d)'
  BY <1>5, <1>12 DEF CutOff, LastTime
<1>13. ASSUME NEW d \in requested, d \notin Fetched'
       PROVE  Ahead(d)' \/ CutOff(d)'
  <2>1. d \notin Fetched /\ d \notin p
    BY <1>5, <1>13 DEF Fetched
  <2>2. Ahead(d) \/ CutOff(d)
    BY <1>13, <2>1 DEF IInv, Accounted
  <2>3. CASE Ahead(d)
    <3>1. d \in Hits \ p
      BY <1>13, <2>1, <2>3 DEF IInv, Accounted, Ahead, Hits
    <3>2. Cardinality(p) = PageSize
      BY <1>2, <3>1
    <3>3. after' <= d.time /\ d.time \in Nat
      BY <1>1, <1>2, <1>3, <3>1
    <3>4. CASE d.time = after'
      BY <1>5, <3>2, <3>4 DEF CutOff, LastTime
    <3>5. CASE d.time # after'
      BY <1>3, <3>3, <3>5 DEF Ahead
    <3> QED
      BY <3>4, <3>5
  <2> QED
    BY <1>12, <2>2, <2>3
<1>14. Accounted'
  BY <1>13 DEF IInv, Accounted, InWindow
<1> QED
  BY <1>6, <1>10, <1>11, <1>14 DEF IInv

LEMMA SearchIInv == ASSUME IInv, Search PROVE IInv'
<1>1. CASE Hits = {} /\ pc' = "done" /\ UNCHANGED <<pages, after>>
  <2>1. TypeOK' /\ ReadSoFar' /\ InTimeOrder'
    BY <1>1 DEF IInv, TypeOK, ReadSoFar, InTimeOrder, Search
  <2>2. ASSUME NEW d \in requested \ Fetched
        PROVE  CutOff(d)
    <3>1. ~Ahead(d)
      BY <1>1, <2>2 DEF IInv, Accounted, Ahead, Hits
    <3> QED
      BY <2>2, <3>1 DEF IInv, Accounted, Search
  <2>3. Accounted'
    BY <1>1, <2>2 DEF IInv, Accounted, Search, Fetched, CutOff, InWindow
  <2> QED
    BY <2>1, <2>3 DEF IInv
<1>2. CASE Hits # {} /\ pc' = pc /\ \E p \in First(Hits) :
             pages' = Append(pages, p) /\ after' \in LastTime(p)
  BY <1>2, PageIInv DEF Search
<1> QED
  BY <1>1, <1>2 DEF Search

LEMMA FailIInv == ASSUME IInv, SearchFails PROVE IInv'
BY DEF IInv, SearchFails, TypeOK, ReadSoFar, InTimeOrder, Accounted, InWindow

LEMMA IngestIInv == ASSUME IInv, NEW d \in Docs, Ingest(d) PROVE IInv'
BY DEF IInv, Ingest, TypeOK, ReadSoFar, InTimeOrder, Accounted, Ahead, CutOff,
       Fetched, LastTime, InWindow

LEMMA NextIInv == IInv /\ [Next]_vars => IInv'
<1> SUFFICES ASSUME IInv, [Next]_vars PROVE IInv'
  OBVIOUS
<1>1. CASE UNCHANGED vars
  BY <1>1 DEF vars, IInv, TypeOK, ReadSoFar, InTimeOrder, Accounted, Ahead, CutOff,
              Fetched, LastTime, InWindow
<1> QED
  BY <1>1, FetchIInv, SearchIInv, FailIInv, IngestIInv DEF Next

LEMMA Invariance == Spec => []IInv
BY InitIInv, NextIInv, PTL DEF Spec

LEMMA FetchSafe == IInv => TypeOK /\ InTimeOrder /\ OnlyTiesMissed
BY DEF IInv, Accounted, CutOff, OnlyTiesMissed

----------------------------------------------------------------------------
(* Theorems *)

\* Every variable keeps its type.
THEOREM FetchTypeCorrect == Spec => []TypeOK
BY FetchSafe, Invariance, PTL

\* What FetchData writes is in the order of the documents' times, page after
\* page, and nothing twice, whatever is indexed in the meantime.
THEOREM FetchedInTimeOrder == Spec => []InTimeOrder
BY FetchSafe, Invariance, PTL

\* A fetch that succeeds misses nothing that was there when it began but
\* documents that share their time with the last hit of a full page.
THEOREM FetchMissesOnlyTies == Spec => []OnlyTiesMissed
BY FetchSafe, Invariance, PTL

----------------------------------------------------------------------------
(* The handler around it *)

\* The item is made of what this very fetch has read.
Prepared ==
  \E nonce \in Nonces : item = Signed(Seal(key, nonce, Zip(pages)), Tags(nonce))

ArchiveInv ==
  /\ IInv
  /\ stage \in {"idle", "fetch", "upload", "store"}
  /\ stage = "idle" => pc = "start"
  /\ stage \in {"upload", "store"} => pc = "done" /\ Prepared
  /\ stage = "store" => item \in accepted
  /\ ArchivedTrip

LEMMA UnchangedIInv ==
  ASSUME IInv, UNCHANGED fetchVars
  PROVE  IInv'
BY NextIInv DEF fetchVars, vars

LEMMA DoneCovers ==
  ASSUME IInv, pc = "done"
  PROVE  Covers(pages, requested)
BY DEF IInv, Accounted, CutOff, InTimeOrder, Covers, Fetched

\* As long as the row stays, so does what it names.
LEMMA RowStays ==
  ASSUME ArchivedTrip, UNCHANGED <<row, due>>, accepted \subseteq accepted'
  PROVE  ArchivedTrip'
BY DEF ArchivedTrip, Covers, Opens, LastTime

LEMMA ReturnKeeps ==
  ASSUME ArchiveInv, Return, UNCHANGED <<row, due>> \/ ArchivedTrip'
  PROVE  ArchiveInv'
<1>1. IInv'
  BY DEF ArchiveInv, IInv, Return, TypeOK, ReadSoFar, InTimeOrder, Accounted
<1>2. ArchivedTrip'
  BY RowStays DEF ArchiveInv, Return
<1> QED
  BY <1>1, <1>2 DEF ArchiveInv, Return

LEMMA InitArchive == ArchiveInit => ArchiveInv
BY InitIInv DEF ArchiveInit, ArchiveInv, ArchivedTrip, Init

LEMMA NextArchive == ArchiveInv /\ [ArchiveNext]_allVars => ArchiveInv'
<1> SUFFICES ASSUME ArchiveInv, [ArchiveNext]_allVars PROVE ArchiveInv'
  OBVIOUS
<1> USE DEF archiveVars, fetchVars
<1>1. CASE Deliver
  BY <1>1, UnchangedIInv, RowStays DEF Deliver, ArchiveInv
<1>2. CASE Fetch
  <2>1. IInv'
    BY <1>2, FetchIInv, SearchIInv, FailIInv DEF Fetch, ArchiveInv
  <2> QED
    BY <1>2, <2>1, RowStays DEF Fetch, ArchiveInv
<1>3. CASE PrepareData
  <2>1. Prepared'
    BY <1>3 DEF PrepareData, Prepared
  <2> QED
    BY <1>3, <2>1, UnchangedIInv, RowStays DEF PrepareData, ArchiveInv
<1>4. CASE Upload
  <2>1. Prepared'
    BY <1>4 DEF Upload, ArchiveInv, Prepared
  <2> QED
    BY <1>4, <2>1, UnchangedIInv, RowStays DEF Upload, ArchiveInv
<1>5. CASE Store
  <2>1. PICK nonce \in Nonces : item = Signed(Seal(key, nonce, Zip(pages)), Tags(nonce))
    BY <1>5 DEF Store, ArchiveInv, Prepared
  <2>2. /\ item \in accepted' /\ item.id = row'.bundlr
        /\ Opens(row'.key, item) /\ item.data.plain.content = pages
    BY <1>5, <2>1 DEF Store, Return, ArchiveInv, Signed, Seal, Zip, Tags, Opens
  <2>3. Covers(pages, due')
    BY <1>5, DoneCovers DEF Store, ArchiveInv
  <2>4. ArchivedTrip'
    BY <2>2, <2>3 DEF ArchivedTrip, Opens, Covers, LastTime
  <2> QED
    BY <1>5, <2>4, ReturnKeeps DEF Store
<1>6. CASE Stop
  BY <1>6, ReturnKeeps DEF Stop
<1>7. ASSUME NEW d \in Docs, Ingest(d), UNCHANGED archiveVars
      PROVE  ArchiveInv'
  <2>1. IInv'
    BY <1>7, IngestIInv DEF ArchiveInv
  <2>2. Prepared => Prepared'
    BY <1>7 DEF Prepared, Ingest
  <2> QED
    BY <1>7, <2>1, <2>2, RowStays DEF ArchiveInv, Ingest
<1>8. CASE UNCHANGED allVars
  <2>1. Prepared => Prepared'
    BY <1>8 DEF Prepared, allVars
  <2> QED
    BY <1>8, <2>1, UnchangedIInv, RowStays DEF ArchiveInv, allVars
<1> QED
  BY <1>1, <1>2, <1>3, <1>4, <1>5, <1>6, <1>7, <1>8 DEF ArchiveNext

LEMMA AlwaysArchive == ArchiveSpec => []ArchiveInv
BY InitArchive, NextArchive, PTL DEF ArchiveSpec

\* The archive a row names is on the network, opens with the row's key and
\* holds the trip as it was indexed when the handler that stored it began.
THEOREM StoredArchivesComplete == ArchiveSpec => []ArchivedTrip
<1>1. ArchiveInv => ArchivedTrip
  BY DEF ArchiveInv
<1> QED
  BY <1>1, AlwaysArchive, PTL

\* What is true of one fetch is true of each a handler makes.
THEOREM EveryFetch ==
  ArchiveSpec => [](TypeOK /\ InTimeOrder /\ OnlyTiesMissed)
<1>1. ArchiveInv => TypeOK /\ InTimeOrder /\ OnlyTiesMissed
  BY FetchSafe DEF ArchiveInv
<1> QED
  BY <1>1, AlwaysArchive, PTL

----------------------------------------------------------------------------
(* Types: every item carries the id of what was signed *)

WellFormed(i) == i.id = IdOf(i.data, i.tags) /\ i.data.key \in Keys /\ i.tags.nonce \in Nonces

ArchiveTypes ==
  /\ ArchiveTypeOK
  /\ stage # "idle" => key \in Keys

LEMMA WellSigned ==
  ASSUME NEW k \in Keys, NEW nonce \in Nonces, NEW plain
  PROVE  WellFormed(Signed(Seal(k, nonce, plain), Tags(nonce)))
BY DEF WellFormed, Signed, Seal, Tags

LEMMA NextArchiveTypes ==
  ASSUME ArchiveInv, ArchiveInv', ArchiveTypes, [ArchiveNext]_allVars
  PROVE  ArchiveTypes'
<1> USE DEF ArchiveTypes, ArchiveTypeOK
<1>1. TypeOK' /\ requested \subseteq Docs
  BY DEF ArchiveInv, IInv, TypeOK
<1>2. CASE Deliver
  BY <1>1, <1>2, ArchiveAssumption DEF Deliver
<1>3. CASE PrepareData
  <2>1. PICK nonce \in Nonces : item' = Signed(Seal(key, nonce, Zip(pages)), Tags(nonce))
    BY <1>3 DEF PrepareData
  <2>2. WellFormed(item')
    BY <1>3, <2>1, WellSigned DEF PrepareData
  <2> QED
    BY <1>1, <1>3, <2>2 DEF PrepareData, WellFormed
<1>4. CASE Upload
  <2>1. PICK nonce \in Nonces : item = Signed(Seal(key, nonce, Zip(pages)), Tags(nonce))
    BY <1>4 DEF Upload, ArchiveInv, Prepared
  <2>2. WellFormed(item)
    BY <1>4, <2>1, WellSigned DEF Upload
  <2> QED
    BY <1>1, <1>4, <2>2 DEF Upload, WellFormed
<1>5. CASE Store
  BY <1>1, <1>5 DEF Store, Return
<1>6. CASE Stop
  BY <1>1, <1>6 DEF Stop, Return
<1>7. CASE Fetch \/ UNCHANGED allVars \/ \E d \in Docs : Ingest(d) /\ UNCHANGED archiveVars
  BY <1>1, <1>7 DEF Fetch, allVars, archiveVars
<1> QED
  BY <1>2, <1>3, <1>4, <1>5, <1>6, <1>7 DEF ArchiveNext

\* Every item accepted or about to be is signed as it is, under a key and a
\* nonce of its own run, and a row names a key.
THEOREM ArchiveTypeCorrect == ArchiveSpec => []ArchiveTypeOK
<1>1. ArchiveInit => ArchiveTypes
  BY InitIInv, ArchiveAssumption DEF ArchiveInit, ArchiveTypes, ArchiveTypeOK, IInv
<1>2. ArchiveInv /\ ArchiveInv' /\ ArchiveTypes /\ [ArchiveNext]_allVars => ArchiveTypes'
  BY NextArchiveTypes
<1>3. ArchiveTypes => ArchiveTypeOK
  BY DEF ArchiveTypes
<1> QED
  BY <1>1, <1>2, <1>3, AlwaysArchive, PTL DEF ArchiveSpec

=============================================================================
