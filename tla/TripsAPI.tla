------------------------------ MODULE TripsAPI ------------------------------
(***************************************************************************)
(* GetVehicleTrips of internal/api, called page after page by a client     *)
(* that walks through a vehicle's history while the consumer goes on       *)
(* beginning and completing trips of that vehicle (TripHistory).           *)
(*                                                                         *)
(* A request runs two queries: the count of the vehicle's trips and the    *)
(* page of its completed trips, latest end first.  Nothing holds them      *)
(* together: trips may begin and end between the two.                      *)
(***************************************************************************)
EXTENDS TripHistory, Integers, FiniteSets

CONSTANTS PageSize,   \* pageSize
          IntLimit,   \* an int holds -IntLimit .. IntLimit - 1
          Firsts,     \* the page parameters a client may start with
          MaxEnds,    \* bound: completions stored during a walk
          MaxFails    \* bound: requests that fail

ASSUME PagingAssumption ==
  /\ IsFiniteSet(TripIds) /\ Cardinality(TripIds) < IntLimit  \* totalCount is an int
  /\ Times \subseteq Nat
  /\ PageSize \in Nat \ {0}
  /\ IntLimit \in Nat \ {0} /\ PageSize < IntLimit
  /\ Firsts \subseteq -IntLimit .. IntLimit - 1
  /\ MaxEnds \in Nat /\ MaxFails \in Nat
  /\ Null \notin Times

VARIABLES pc,        \* the next query of the walk: "count" or "list"; or "start", "done", "failed"
          page,      \* p.Page of the request
          total,     \* totalCount of the request
          seen,      \* trips the client has been shown
          wanted,    \* trips that were completed when the walk began
          repeats,   \* trips it has been shown again, but for the tied ones
          tied,      \* trips that shared their end with another since then
          completed, \* completions stored since the walk began
          moves,     \* those of them that moved the end of a completed trip
          rushed,    \* has a trip begun since the last count?
          fails      \* how much of the bound is used

walk == <<pc, page, total, seen, wanted, repeats>>
vars == <<rows, end, pc, page, total, seen, wanted, repeats, tied, completed, moves,
          rushed, fails>>

TypeOK ==
  /\ rows \subseteq TripIds
  /\ end \in [TripIds -> Times \cup {Null}]
  /\ pc \in {"start", "count", "list", "done", "failed"}
  /\ page \in 1 .. IntLimit - 1
  /\ total \in Nat
  /\ seen \subseteq rows
  /\ wanted \subseteq rows
  /\ tied \subseteq rows
  /\ repeats \in Nat /\ completed \in 0..MaxEnds /\ moves \in 0..completed
  /\ rushed \in BOOLEAN
  /\ fails \in 0..MaxFails

Init ==
  /\ HistoryInit
  /\ pc = "start"
  /\ page = 1
  /\ total = 0
  /\ seen = {} /\ wanted = {} /\ tied = {}
  /\ repeats = 0 /\ completed = 0 /\ moves = 0
  /\ rushed = FALSE
  /\ fails = 0

----------------------------------------------------------------------------
(* The queries *)

CompletedTrips == {t \in rows : end[t] # Null}

Ties == {t \in CompletedTrips : \E u \in CompletedTrips : u # t /\ end[u] = end[t]}

\* An int of Go.
Wrapped(n) == ((n + IntLimit) % (2 * IntLimit)) - IntLimit

Offset(p) == Wrapped((p - 1) * PageSize)

\* Hypothesis of NothingMissed: the client begins with the first page, under
\* whatever name, or with one whose offset Postgres refuses.
FromTheFirstPage == \A p \in Firsts : p <= 1 \/ Offset(p) < 0

\* The sets of rows ORDER BY end_time DESC may put first; trips that end at the
\* same instant come in any order, and in another one the next time.
Leading(n) ==
  {s \in SUBSET CompletedTrips :
     /\ Cardinality(s) = n \/ (Cardinality(s) < n /\ s = CompletedTrips)
     /\ \A t \in s, u \in CompletedTrips \ s : end[u] <= end[t]}

\* Mutant: one row too many.
PagesOneMore(p) ==
  {b \ a : a \in Leading(Offset(p)), b \in Leading(Offset(p) + PageSize + 1)}

\* LIMIT pageSize OFFSET (p - 1) * pageSize: what it may return.
Pages(p) ==
  UNION {{b \ a : b \in {c \in Leading(Offset(p) + PageSize) : a \subseteq c}} :
           a \in Leading(Offset(p))}

\* Mutant: trips still open are left out.
CountCompleted == Cardinality(CompletedTrips)

CountTrips == Cardinality(rows)

TotalPages(count) == (count + PageSize - 1) \div PageSize

----------------------------------------------------------------------------
(* The handler and its client *)

\* Mutant: page 0 is taken as it is.
PageUnchecked(p) == p

ValidPage(p) == IF p < 1 THEN 1 ELSE p

\* The client asks for a page, of its choice the first time.
Start ==
  /\ pc = "start"
  /\ \E p \in Firsts : page' = ValidPage(p)
  /\ pc' = "count"
  /\ wanted' = CompletedTrips
  /\ tied' = Ties
  /\ UNCHANGED <<historyVars, total, seen, repeats, completed, moves, rushed, fails>>

Count ==
  /\ pc = "count"
  /\ total' = CountTrips
  /\ rushed' = FALSE
  /\ pc' = "list"
  /\ UNCHANGED <<historyVars, page, seen, wanted, repeats, tied, completed, moves, fails>>

\* The page is answered, and the client asks for the next one until it has
\* the last.
List ==
  /\ pc = "list"
  /\ Offset(page) >= 0
  /\ \E shown \in Pages(page) :
       /\ seen' = seen \cup shown
       /\ repeats' = repeats + Cardinality((shown \cap seen) \ tied)
  /\ IF page < TotalPages(total)
     THEN page' = page + 1 /\ pc' = "count"
     ELSE pc' = "done" /\ UNCHANGED page
  /\ UNCHANGED <<historyVars, total, wanted, tied, completed, moves, rushed, fails>>

\* Postgres refuses a negative offset: 500, and the client gives up.
NegativeOffset ==
  /\ pc = "list"
  /\ Offset(page) < 0
  /\ pc' = "failed"
  /\ UNCHANGED <<historyVars, page, total, seen, wanted, repeats, tied, completed, moves,
                 rushed, fails>>

\* A query fails: 500, and the client asks again.
RequestFails ==
  /\ fails < MaxFails
  /\ fails' = fails + 1
  /\ pc \in {"count", "list"}
  /\ pc' = "count"
  /\ UNCHANGED <<historyVars, page, total, seen, wanted, repeats, tied, completed, moves,
                 rushed>>

----------------------------------------------------------------------------
(* The consumer *)

TripBegins(t) ==
  /\ Begin(t)
  /\ rushed' = TRUE
  /\ UNCHANGED <<walk, tied, completed, moves, fails>>

TripEnds(t, at) ==
  /\ Complete(t, at)
  /\ end[t] # at
  /\ IF pc = "start" THEN UNCHANGED <<completed, moves>>
     ELSE /\ completed < MaxEnds
          /\ completed' = completed + 1
          /\ moves' = moves + IF end[t] # Null THEN 1 ELSE 0
  /\ tied' = tied \cup Ties'
  /\ UNCHANGED <<walk, rushed, fails>>

Next ==
  \/ Start \/ Count \/ List \/ NegativeOffset \/ RequestFails
  \/ \E t \in TripIds : TripBegins(t) \/ \E at \in Times : TripEnds(t, at)

Spec == Init /\ [][Next]_vars

----------------------------------------------------------------------------

\* The walk from the first page shows every trip that was completed when it
\* began, although every completion shifts the pages under it: what leaves a
\* page goes to a later one, and TotalPages, counting the open trips too,
\* leaves room for those that end before the page is read.  What it may miss
\* are trips that end at the same instant as another, one trip for every end
\* that is moved, and, when a trip begins and ends between the two queries of
\* the last request, what that pushes off the last page.
NothingMissed ==
  pc = "done" /\ ~rushed => Cardinality((wanted \ seen) \ tied) <= moves

\* Postgres refuses a request only for a page so far back that its offset is no
\* int any more, and never for a page parameter of 0 or below.
RefusedPastTheIntsOnly == pc = "failed" => (page - 1) * PageSize >= IntLimit

\* A trip is shown twice only if completions have shifted the pages, at most
\* one for every completion.
RepeatsPaidByCompletions == repeats <= completed

=============================================================================
