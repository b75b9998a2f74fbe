------------------------------ MODULE ESFetch ------------------------------
(***************************************************************************)
(* FetchData of internal/services/es: the documents of one trip, read page *)
(* by page with search_after while others go on indexing.                  *)
(*                                                                         *)
(* Times are milliseconds; the bounds of the query are formatted without   *)
(* their fraction, so Elasticsearch compares whole seconds.  A page is the *)
(* set of its hits; the order inside a page, the text written for it and   *)
(* the metrics are left out.                                               *)
(***************************************************************************)
EXTENDS Integers, Sequences, FiniteSets

CONSTANTS Docs,        \* documents that may be in the index
          Device,      \* the subject asked for
          Start, End,  \* the trip, milliseconds
          PerSecond,   \* milliseconds in a second
          PageSize,    \* pageSize
          Null

Doc == [id: Nat, subject: STRING, time: Nat, stamp: Nat]

ASSUME DocsAssumption == Docs \subseteq Doc /\ IsFiniteSet(Docs) /\ Null \notin Nat

ASSUME WindowAssumption ==
  /\ Start \in Nat /\ End \in Nat
  /\ PerSecond \in Nat \ {0}
  /\ PageSize \in Nat \ {0}

VARIABLES index,      \* the documents a search finds
          pc,         \* "start", "search", "done" or "failed"
          pages,      \* the hits written to the buffer, page by page
          after,      \* SearchAfter: the time of the last hit, or Null
          requested   \* the documents of the trip visible when it began

vars == <<index, pc, pages, after, requested>>

Fetched == UNION {pages[i] : i \in DOMAIN pages}

TypeOK ==
  /\ index \subseteq Docs
  /\ pc \in {"start", "search", "done", "failed"}
  /\ pages \in Seq((SUBSET Docs) \ {{}})
  /\ after \in Nat \cup {Null}
  /\ requested \subseteq Docs

Init ==
  /\ index = {}
  /\ pc = "start"
  /\ pages = << >>
  /\ after = Null
  /\ requested = {}

----------------------------------------------------------------------------

Second(t) == t \div PerSecond

\* Mutant: lt instead of lte.
InWindowOpen(d) == Second(Start) <= Second(d.stamp) /\ Second(d.stamp) < Second(End)

\* The range filter on data.timestamp.
InWindow(d) == Second(Start) <= Second(d.stamp) /\ Second(d.stamp) <= Second(End)

Hits ==
  {d \in index : /\ d.subject = Device /\ InWindow(d)
                 /\ after # Null => d.time > after}

\* The pages a search may answer with: the earliest hits, ties cut anywhere.
First(hits) ==
  {p \in SUBSET hits :
     /\ Cardinality(p) = IF Cardinality(hits) < PageSize THEN Cardinality(hits) ELSE PageSize
     /\ \A d \in p, e \in hits \ p : d.time <= e.time}

\* Mutant: the sort value of a page's first hit.
FirstTime(p) == {d.time : d \in {e \in p : \A f \in p : e.time <= f.time}}

\* The sort value of a page's last hit; an empty page has none.
LastTime(p) == {d.time : d \in {e \in p : \A f \in p : f.time <= e.time}}

FetchData ==
  /\ pc = "start"
  /\ pc' = "search"
  /\ requested' = {d \in index : /\ d.subject = Device
                                 /\ Start <= d.stamp /\ d.stamp <= End}
  /\ UNCHANGED <<index, pages, after>>

\* Mutant: the loop is not left on an empty page.
SearchForever ==
  /\ pc = "search"
  /\ \E p \in First(Hits) \ {{}} :
       /\ pages' = Append(pages, p)
       /\ after' \in LastTime(p)
  /\ UNCHANGED <<index, pc, requested>>

Search ==
  /\ pc = "search"
  /\ \/ /\ Hits = {}
        /\ pc' = "done"
        /\ UNCHANGED <<pages, after>>
     \/ /\ Hits # {}
        /\ \E p \in First(Hits) :
             /\ pages' = Append(pages, p)
             /\ after' \in LastTime(p)
        /\ UNCHANGED pc
  /\ UNCHANGED <<index, requested>>

\* Mutant: an error ends the loop as an empty page does.
SearchFailsPartial ==
  /\ pc = "search"
  /\ pc' = "done"
  /\ UNCHANGED <<index, pages, after, requested>>

\* An error discards the buffer.
SearchFails ==
  /\ pc = "search"
  /\ pc' = "failed"
  /\ pages' = << >>
  /\ UNCHANGED <<index, after, requested>>

\* Somebody indexes a document, before, during or after the fetch.
Ingest(d) ==
  /\ d \notin index
  /\ index' = index \cup {d}
  /\ UNCHANGED <<pc, pages, after, requested>>

Next ==
  \/ FetchData
  \/ Search
  \/ SearchFails
  \/ \E d \in Docs : Ingest(d)

Spec == Init /\ [][Next]_vars

----------------------------------------------------------------------------

\* The archive is in the order of the documents' times, and so holds none of
\* them twice, whatever is indexed between two pages.
InTimeOrder ==
  \A i, j \in DOMAIN pages : i < j =>
    \A d \in pages[i], e \in pages[j] : d.time < e.time

\* Of the documents that were there from the beginning, a successful fetch
\* misses only some that share their time with the last one of a full page:
\* the sort has no tie breaker for search_after to go on from.
OnlyTiesMissed ==
  pc = "done" =>
    \A d \in requested \ Fetched :
      \E i \in DOMAIN pages :
        /\ Cardinality(pages[i]) = PageSize
        /\ d.time \in LastTime(pages[i])

\* Every fetch comes to an end.
FetchEnds == pc = "search" ~> pc # "search"

=============================================================================
