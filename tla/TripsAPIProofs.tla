--------------------------- MODULE TripsAPIProofs ---------------------------
(***************************************************************************)
(* What a walk through a vehicle's history shows, for any page size, any   *)
(* width of an int, any number of trips and whatever the consumer stores   *)
(* between two queries.                                                    *)
(*                                                                         *)
(* A page is cut by rank: the number of trips that end later.  A trip that *)
(* shares its end with no other is on the page its rank says (LeadingRank) *)
(* and no two such trips have the same rank (RankDistinct), so a completion*)
(* moves at most one of them across the line between the pages read and    *)
(* the pages to come: down, where it will be shown again (Exposed), or up, *)
(* where the walk does not look any more (Behind).                         *)
(***************************************************************************)
EXTENDS TripsAPI, FiniteSetTheorems, TLAPS

----------------------------------------------------------------------------
(* Ints of Go *)

LEMMA WrappedType == ASSUME NEW n \in Nat PROVE Wrapped(n) \in -IntLimit .. IntLimit - 1
BY PagingAssumption DEF Wrapped

LEMMA WrappedSmall ==
  ASSUME NEW n \in 0 .. IntLimit - 1
  PROVE  Wrapped(n) = n
BY PagingAssumption DEF Wrapped

LEMMA WrappedLarge ==
  ASSUME NEW n \in IntLimit .. 2 * IntLimit - 1
  PROVE  Wrapped(n) < 0
<1>1. n + IntLimit = (n - IntLimit) + 2 * IntLimit /\ n - IntLimit \in 0 .. 2 * IntLimit - 1
  BY PagingAssumption
<1>2. (n + IntLimit) % (2 * IntLimit) = n - IntLimit
  BY <1>1, PagingAssumption
<1> QED
  BY <1>2, PagingAssumption DEF Wrapped

LEMMA Remainder ==
  ASSUME NEW n \in Nat, NEW base \in Nat \ {0}
  PROVE  \E q \in Nat : n = base * q + (n % base) /\ n % base \in 0 .. base - 1
<1>1. /\ n \div base \in Nat /\ n % base \in 0 .. base - 1
      /\ n = base * (n \div base) + (n % base)
  OBVIOUS
<1> QED
  BY <1>1

LEMMA RemainderIs ==
  ASSUME NEW base \in Nat \ {0}, NEW q \in Nat, NEW r \in 0 .. base - 1
  PROVE  (base * q + r) % base = r
<1> DEFINE n == base * q + r
<1>1. n \in Nat
  OBVIOUS
<1> HIDE DEF n
<1>2. PICK p \in Nat : n = base * p + (n % base) /\ n % base \in 0 .. base - 1
  BY <1>1, Remainder
<1>3. base * p + (n % base) = base * q + r
  BY <1>2 DEF n
<1>4. p = q
  <2>1. ASSUME p >= q + 1 PROVE FALSE
    <3>1. base * p >= base * (q + 1)
      BY <2>1
    <3>2. base * (q + 1) = base * q + base
      OBVIOUS
    <3> QED
      BY <1>2, <1>3, <3>1, <3>2
  <2>2. ASSUME q >= p + 1 PROVE FALSE
    <3>1. base * q >= base * (p + 1)
      BY <2>2
    <3>2. base * (p + 1) = base * p + base
      OBVIOUS
    <3> QED
      BY <1>2, <1>3, <3>1, <3>2
  <2> QED
    BY <2>1, <2>2
<1> QED
  BY <1>2, <1>3, <1>4 DEF n

\* Of two numbers a page apart, the second wraps to its successor page's
\* offset or to a negative one.
LEMMA WrappedNext ==
  ASSUME NEW n \in Nat, Wrapped(n) >= 0
  PROVE  Wrapped(n + PageSize) = Wrapped(n) + PageSize \/ Wrapped(n + PageSize) < 0
<1>1. PICK base \in Nat \ {0} : base = 2 * IntLimit
  BY PagingAssumption
<1>2. PICK q \in Nat, r \in 0 .. base - 1 :
        n + IntLimit = base * q + r /\ r = (n + IntLimit) % base
  <2>1. n + IntLimit \in Nat
    BY PagingAssumption
  <2>2. PICK m : m = n + IntLimit
    OBVIOUS
  <2>3. \E q \in Nat : m = base * q + (m % base) /\ m % base \in 0 .. base - 1
    BY <2>1, <2>2, Remainder
  <2> QED
    BY <2>2, <2>3
<1>3. r >= IntLimit /\ Wrapped(n) = r - IntLimit
  BY <1>1, <1>2, PagingAssumption DEF Wrapped
<1>4. CASE r + PageSize < base
  <2>1. n + PageSize + IntLimit = base * q + (r + PageSize)
    BY <1>2, PagingAssumption
  <2>2. (n + PageSize + IntLimit) % base = r + PageSize
    <3>1. r + PageSize \in 0 .. base - 1
      BY <1>4, PagingAssumption
    <3> QED
      BY <2>1, <3>1, RemainderIs
  <2> QED
    BY <1>1, <1>3, <2>2, PagingAssumption DEF Wrapped
<1>5. CASE r + PageSize >= base
  <2>1. n + PageSize + IntLimit = base * (q + 1) + (r + PageSize - base)
    BY <1>2, PagingAssumption
  <2>2. r + PageSize - base \in 0 .. base - 1
    BY <1>1, <1>5, PagingAssumption
  <2>3. (n + PageSize + IntLimit) % base = r + PageSize - base
    BY <2>1, <2>2, RemainderIs
  <2>4. r + PageSize - base < IntLimit
    BY <1>1, PagingAssumption
  <2> QED
    BY <1>1, <2>2, <2>3, <2>4, PagingAssumption DEF Wrapped
<1> QED
  BY <1>4, <1>5, PagingAssumption

LEMMA NextOffset ==
  ASSUME NEW p \in Nat \ {0}, Offset(p) >= 0
  PROVE  Offset(p + 1) = Offset(p) + PageSize \/ Offset(p + 1) < 0
<1>1. (p - 1) * PageSize \in Nat /\ (p + 1 - 1) * PageSize = (p - 1) * PageSize + PageSize
  BY PagingAssumption
<1> QED
  BY <1>1, WrappedNext DEF Offset

LEMMA OffsetType == \A p \in Nat \ {0} : Offset(p) \in Int
<1> SUFFICES ASSUME NEW p \in Nat \ {0} PROVE Offset(p) \in Int
  OBVIOUS
<1>1. (p - 1) * PageSize \in Nat
  BY PagingAssumption
<1> QED
  BY <1>1, WrappedType, PagingAssumption DEF Offset

\* The pages TotalPages promises hold all the rows, and there are no more
\* pages than rows.
LEMMA PagesHoldRows ==
  ASSUME NEW count \in Nat
  PROVE  /\ TotalPages(count) \in Nat /\ TotalPages(count) <= count
         /\ count <= TotalPages(count) * PageSize
<1> DEFINE q == (count + PageSize - 1) \div PageSize
           r == (count + PageSize - 1) % PageSize
<1>1. /\ q \in Nat /\ r \in 0 .. PageSize - 1
      /\ count + PageSize - 1 = PageSize * q + r
  BY PagingAssumption
<1>2. count <= q * PageSize
  BY <1>1, PagingAssumption
<1>3. q <= count
  <2> SUFFICES ASSUME q >= count + 1 PROVE FALSE
    BY <1>1
  <2>1. PageSize * q >= PageSize * (count + 1)
    BY <1>1, PagingAssumption
  <2>2. PageSize * (count + 1) = PageSize * count + PageSize /\ PageSize * count >= count
    BY PagingAssumption
  <2> QED
    BY <1>1, <2>1, <2>2, PagingAssumption
<1> QED
  BY <1>1, <1>2, <1>3 DEF TotalPages

----------------------------------------------------------------------------
(* Ranks *)

Later(t) == {u \in CompletedTrips : end[u] > end[t]}

Rank(t) == Cardinality(Later(t))

\* The trips that share their end with no other.
Untied == CompletedTrips \ Ties

HistoryOK ==
  /\ rows \subseteq TripIds
  /\ end \in [TripIds -> Times \cup {Null}]
  /\ \A t \in TripIds : end[t] # Null => t \in rows

LEMMA CardSub ==
  ASSUME NEW S, IsFiniteSet(S), NEW T, T \subseteq S
  PROVE  IsFiniteSet(T) /\ Cardinality(T) \in Nat /\ Cardinality(T) <= Cardinality(S)
         /\ Cardinality(S) \in Nat
BY FS_Subset, FS_CardinalityType

LEMMA CardOneMore ==
  ASSUME NEW S, IsFiniteSet(S), NEW T, \A x, y \in T \ S : x = y
  PROVE  IsFiniteSet(T) /\ Cardinality(T) \in Nat /\ Cardinality(T) <= Cardinality(S) + 1
         /\ Cardinality(S) \in Nat
<1>1. CASE T \ S = {}
  BY <1>1, CardSub
<1>2. CASE T \ S # {}
  <2>1. PICK x : x \in T \ S
    BY <1>2
  <2>2. T \subseteq S \cup {x}
    BY <2>1
  <2>3. /\ IsFiniteSet(S \cup {x}) /\ Cardinality(S) \in Nat
        /\ Cardinality(S \cup {x}) \in {Cardinality(S), Cardinality(S) + 1}
    BY FS_AddElement, FS_CardinalityType
  <2> QED
    BY <2>2, <2>3, CardSub
<1> QED
  BY <1>1, <1>2

\* T leaves out x, which S has.
LEMMA CardOneLess ==
  ASSUME NEW S, IsFiniteSet(S), NEW x \in S, NEW T, T \subseteq S \ {x}
  PROVE  IsFiniteSet(T) /\ Cardinality(T) \in Nat /\ Cardinality(T) < Cardinality(S)
         /\ Cardinality(S) \in Nat
<1>1. /\ IsFiniteSet(S \ {x}) /\ Cardinality(S) \in Nat
      /\ Cardinality(S \ {x}) = Cardinality(S) - 1
  BY FS_RemoveElement, FS_CardinalityType
<1>2. Cardinality(T) <= Cardinality(S \ {x}) /\ IsFiniteSet(T) /\ Cardinality(T) \in Nat
  BY <1>1, CardSub
<1> QED
  BY <1>1, <1>2

LEMMA HistoryTypes ==
  ASSUME HistoryOK
  PROVE  /\ IsFiniteSet(CompletedTrips) /\ CompletedTrips \subseteq TripIds
         /\ \A t \in CompletedTrips : t \in TripIds /\ end[t] \in Times /\ end[t] \in Nat
         /\ \A t : IsFiniteSet(Later(t)) /\ Rank(t) \in Nat
<1>1. CompletedTrips \subseteq TripIds /\ \A t : Later(t) \subseteq CompletedTrips
  BY DEF HistoryOK, CompletedTrips, Later
<1>2. IsFiniteSet(CompletedTrips) /\ \A t : IsFiniteSet(Later(t)) /\ Rank(t) \in Nat
  BY <1>1, CardSub, PagingAssumption DEF Rank
<1> QED
  BY <1>1, <1>2, PagingAssumption DEF HistoryOK, CompletedTrips

LEMMA RankDistinct ==
  ASSUME HistoryOK, NEW t \in Untied, NEW u \in Untied, Rank(t) = Rank(u)
  PROVE  t = u
<1>1. ASSUME NEW x \in Untied, NEW y \in Untied, end[x] > end[y]
      PROVE  Rank(x) < Rank(y)
  <2>1. x \in Later(y) /\ Later(x) \subseteq Later(y) \ {x}
    BY <1>1, HistoryTypes DEF Later, Untied
  <2> QED
    BY <2>1, CardOneLess, HistoryTypes DEF Rank
<1>2. t # u => end[t] # end[u]
  BY DEF Untied, Ties
<1> QED
  BY <1>1, <1>2, HistoryTypes DEF Untied

\* Of any leading rows, a trip without a tie is one exactly if its rank says so.
LEMMA LeadingRank ==
  ASSUME HistoryOK, NEW n \in Nat, NEW s \in Leading(n), NEW t \in Untied
  PROVE  t \in s <=> Rank(t) < n
<1>1. /\ s \subseteq CompletedTrips /\ IsFiniteSet(s) /\ Cardinality(s) \in Nat
      /\ Cardinality(s) <= n
      /\ s = CompletedTrips \/ Cardinality(s) = n
      /\ \A x \in s, y \in CompletedTrips \ s : end[y] <= end[x]
  BY HistoryTypes, CardSub DEF Leading
<1>2. t \in CompletedTrips /\ \A u \in CompletedTrips : u # t => end[u] # end[t]
  BY DEF Untied, Ties
<1>3. CASE t \in s
  <2>1. Later(t) \subseteq s \ {t}
    BY <1>1, <1>2, <1>3, HistoryTypes DEF Later
  <2> QED
    BY <1>1, <1>3, <2>1, CardOneLess DEF Rank
<1>4. CASE t \notin s
  <2>1. s \subseteq Later(t)
    BY <1>1, <1>2, <1>4, HistoryTypes DEF Later
  <2>2. Cardinality(s) = n
    BY <1>1, <1>2, <1>4
  <2>3. n <= Rank(t)
    BY <2>1, <2>2, CardSub, HistoryTypes DEF Rank
  <2> QED
    BY <1>4, <2>3, HistoryTypes
<1> QED
  BY <1>3, <1>4

\* What a page shows of such trips is what has a rank on it.
LEMMA PageRank ==
  ASSUME HistoryOK, NEW p, Offset(p) \in Nat, NEW shown \in Pages(p), NEW t \in Untied
  PROVE  t \in shown <=> Offset(p) <= Rank(t) /\ Rank(t) < Offset(p) + PageSize
<1>1. PICK a \in Leading(Offset(p)), b \in Leading(Offset(p) + PageSize) : shown = b \ a
  BY DEF Pages
<1>2. Offset(p) + PageSize \in Nat
  BY PagingAssumption
<1>3. (t \in a <=> Rank(t) < Offset(p)) /\ (t \in b <=> Rank(t) < Offset(p) + PageSize)
  BY <1>1, <1>2, LeadingRank
<1> QED
  BY <1>1, <1>2, <1>3, HistoryTypes

LEMMA PageCompleted ==
  ASSUME NEW p, NEW shown \in Pages(p)
  PROVE  shown \subseteq CompletedTrips
BY DEF Pages, Leading

----------------------------------------------------------------------------
(* Types: a walk asks for no page the count has not promised *)

Types ==
  /\ TypeOK
  /\ HistoryOK
  /\ seen \cup wanted \subseteq CompletedTrips
  /\ total <= Cardinality(TripIds)

LEMMA CompletionKeeps ==
  ASSUME HistoryOK, NEW t \in TripIds, NEW at \in Times, Complete(t, at)
  PROVE  /\ HistoryOK' /\ rows' = rows /\ t \in rows
         /\ end'[t] = at /\ \A u \in TripIds \ {t} : end'[u] = end[u]
         /\ CompletedTrips' = CompletedTrips \cup {t}
<1>1. /\ HistoryOK' /\ rows' = rows /\ t \in rows
      /\ end'[t] = at /\ \A u \in TripIds \ {t} : end'[u] = end[u]
  BY DEF HistoryOK, Complete
<1>2. at # Null
  BY PagingAssumption
<1> QED
  BY <1>1, <1>2 DEF CompletedTrips, HistoryOK

LEMMA BeginKeeps ==
  ASSUME HistoryOK, NEW t \in TripIds, Begin(t)
  PROVE  /\ HistoryOK' /\ rows \subseteq rows' /\ end' = end
         /\ CompletedTrips' = CompletedTrips /\ Ties' = Ties
         /\ rows' = rows \cup {t} /\ t \notin rows
<1>1. HistoryOK' /\ rows' = rows \cup {t} /\ t \notin rows /\ end' = end
  BY DEF HistoryOK, Begin
<1>2. CompletedTrips' = CompletedTrips
  BY <1>1 DEF CompletedTrips, HistoryOK
<1> QED
  BY <1>1, <1>2 DEF Ties

LEMMA NextPage ==
  ASSUME Types, pc = "list", page < TotalPages(total)
  PROVE  page + 1 \in 1 .. IntLimit - 1
<1>1. page \in Nat /\ total \in Nat /\ total <= Cardinality(TripIds)
  BY PagingAssumption DEF Types, TypeOK
<1>2. TotalPages(total) \in Nat /\ TotalPages(total) <= total
  BY <1>1, PagesHoldRows
<1>3. Cardinality(TripIds) \in Nat /\ Cardinality(TripIds) < IntLimit
  BY PagingAssumption, FS_CardinalityType
<1> QED
  BY <1>1, <1>2, <1>3, PagingAssumption DEF Types, TypeOK

LEMMA NextTypes == Types /\ [Next]_vars => Types'
<1> SUFFICES ASSUME Types, [Next]_vars PROVE Types'
  OBVIOUS
<1> USE DEF Types, historyVars
<1>1. CASE Start
  <2>1. page' \in 1 .. IntLimit - 1
    BY <1>1, PagingAssumption DEF Start, ValidPage
  <2>2. HistoryOK' /\ CompletedTrips' = CompletedTrips
    BY <1>1 DEF Start, HistoryOK, CompletedTrips
  <2>3. CompletedTrips \subseteq rows /\ Ties \subseteq rows
    BY DEF CompletedTrips, Ties
  <2> QED
    BY <1>1, <2>1, <2>2, <2>3 DEF Start, TypeOK
<1>2. CASE Count
  <2>1. CountTrips \in Nat /\ CountTrips <= Cardinality(TripIds)
    BY CardSub, PagingAssumption DEF CountTrips, HistoryOK
  <2> QED
    BY <1>2, <2>1 DEF Count, TypeOK, HistoryOK, CompletedTrips
<1>3. CASE List
  <2>1. PICK shown \in Pages(page) :
          /\ seen' = seen \cup shown
          /\ repeats' = repeats + Cardinality((shown \cap seen) \ tied)
    BY <1>3 DEF List
  <2>2. shown \subseteq CompletedTrips /\ CompletedTrips \subseteq rows
    BY PageCompleted DEF CompletedTrips
  <2>3. repeats' \in Nat
    BY <2>1, <2>2, CardSub, HistoryTypes DEF TypeOK
  <2>4. page' \in 1 .. IntLimit - 1 /\ pc' \in {"count", "done"}
    BY <1>3, NextPage DEF List, TypeOK
  <2>5. HistoryOK' /\ CompletedTrips' = CompletedTrips
    BY <1>3 DEF List, HistoryOK, CompletedTrips
  <2> QED
    BY <1>3, <2>1, <2>2, <2>3, <2>4, <2>5 DEF List, TypeOK
<1>4. CASE NegativeOffset \/ RequestFails \/ UNCHANGED vars
  BY <1>4, PagingAssumption
     DEF NegativeOffset, RequestFails, vars, TypeOK, HistoryOK, CompletedTrips
<1>5. ASSUME NEW t \in TripIds, TripBegins(t)
      PROVE  Types'
  <2>1. HistoryOK' /\ CompletedTrips' = CompletedTrips /\ rows \subseteq rows'
    BY <1>5, BeginKeeps DEF TripBegins
  <2> QED
    BY <1>5, <2>1 DEF TripBegins, TypeOK, walk, HistoryOK
<1>6. ASSUME NEW t \in TripIds, NEW at \in Times, TripEnds(t, at)
      PROVE  Types'
  <2>1. HistoryOK' /\ CompletedTrips \subseteq CompletedTrips' /\ rows' = rows
    BY <1>6, CompletionKeeps DEF TripEnds
  <2>2. Ties' \subseteq rows'
    BY DEF Ties, CompletedTrips
  <2>3. completed' \in 0 .. MaxEnds /\ moves' \in 0 .. completed'
    BY <1>6, PagingAssumption DEF TripEnds, TypeOK
  <2> QED
    BY <1>6, <2>1, <2>2, <2>3 DEF TripEnds, TypeOK, walk, HistoryOK
<1> QED
  BY <1>1, <1>2, <1>3, <1>4, <1>5, <1>6 DEF Next

LEMMA InitTypes == Init => Types
<1> SUFFICES ASSUME Init PROVE Types
  OBVIOUS
<1>1. HistoryOK
  BY DEF Init, HistoryInit, HistoryOK
<1>2. 1 \in 1 .. IntLimit - 1 /\ 0 \in 0 .. MaxEnds /\ 0 \in 0 .. MaxFails /\ 0 \in 0 .. 0
  BY PagingAssumption
<1>3. TypeOK
  BY <1>1, <1>2 DEF Init, TypeOK, HistoryOK
<1>4. 0 <= Cardinality(TripIds)
  BY PagingAssumption, FS_CardinalityType
<1> QED
  BY <1>1, <1>3, <1>4 DEF Init, Types

LEMMA AlwaysTypes == Spec => []Types
BY InitTypes, NextTypes, PTL DEF Spec

\* A walk stays within its types, however often its client asks again: in
\* particular the page it asks for next is an int, whatever page it began with.
THEOREM WalkTypeCorrect == Spec => []TypeOK
BY AlwaysTypes, PTL DEF Types

----------------------------------------------------------------------------
(* A completion moves one trip, and of the others those between its old    *)
(* and its new place by one rank.                                          *)

LEMMA Overtaken ==
  ASSUME HistoryOK, NEW t \in TripIds, NEW at \in Times, Complete(t, at),
         NEW u \in CompletedTrips \ {t}
  PROVE  /\ IsFiniteSet(Later(u)) /\ Rank(u) \in Nat /\ Rank(u)' \in Nat
         /\ Rank(u)' <= Rank(u) + 1 /\ Rank(u) <= Rank(u)' + 1
         /\ end[t] = Null \/ end[t] <= at => Rank(u) <= Rank(u)'
         /\ end[t] # Null /\ at <= end[t] => Rank(u)' <= Rank(u)
<1>1. /\ HistoryOK' /\ u \in TripIds /\ end[u] \in Nat /\ at \in Nat
      /\ end'[t] = at /\ end'[u] = end[u] /\ CompletedTrips' = CompletedTrips \cup {t}
      /\ \A x \in TripIds \ {t} : end'[x] = end[x]
      /\ CompletedTrips \subseteq TripIds
  BY CompletionKeeps, HistoryTypes, PagingAssumption
<1>2. /\ IsFiniteSet(Later(u)) /\ Rank(u) \in Nat
      /\ IsFiniteSet(Later(u)') /\ Rank(u)' \in Nat
  <2>1. IsFiniteSet(CompletedTrips')
    BY <1>1, CardSub, PagingAssumption
  <2>2. IsFiniteSet(Later(u)') /\ Rank(u)' \in Nat
    BY <2>1, CardSub DEF Later, Rank
  <2> QED
    BY <2>2, HistoryTypes
<1>3. Later(u)' \subseteq Later(u) \cup {t} /\ Later(u) \subseteq Later(u)' \cup {t}
  BY <1>1 DEF Later
<1>4. /\ \A x, y \in Later(u)' \ Later(u) : x = y
      /\ \A x, y \in Later(u) \ Later(u)' : x = y
  BY <1>3
<1>5. Rank(u)' <= Rank(u) + 1 /\ Rank(u) <= Rank(u)' + 1
  BY <1>2, <1>4, CardOneMore DEF Rank
<1>6. ASSUME end[t] = Null \/ end[t] <= at
      PROVE  Rank(u) <= Rank(u)'
  <2>1. Later(u) \subseteq Later(u)'
    BY <1>1, <1>6, HistoryTypes DEF Later, CompletedTrips
  <2> QED
    BY <1>2, <2>1, CardSub DEF Rank
<1>7. ASSUME end[t] # Null, at <= end[t]
      PROVE  Rank(u)' <= Rank(u)
  <2>1. t \in CompletedTrips /\ end[t] \in Nat
    BY <1>7, HistoryTypes DEF HistoryOK, CompletedTrips
  <2>2. Later(u)' \subseteq Later(u)
    BY <1>1, <1>7, <2>1, HistoryTypes DEF Later
  <2> QED
    BY <1>2, <2>2, CardSub DEF Rank
<1> QED
  BY <1>2, <1>5, <1>6, <1>7

LEMMA Mover ==
  ASSUME HistoryOK, NEW t \in CompletedTrips, NEW at \in Times, Complete(t, at)
  PROVE  /\ Rank(t) \in Nat /\ Rank(t)' \in Nat /\ end[t] \in Nat /\ at \in Nat
         /\ end[t] <= at => Rank(t)' <= Rank(t)
         /\ at <= end[t] => Rank(t) <= Rank(t)'
<1>1. /\ t \in TripIds /\ end[t] \in Nat /\ at \in Nat /\ end'[t] = at
      /\ CompletedTrips' = CompletedTrips
      /\ \A x \in TripIds \ {t} : end'[x] = end[x]
      /\ CompletedTrips \subseteq TripIds /\ IsFiniteSet(CompletedTrips)
  BY CompletionKeeps, HistoryTypes, PagingAssumption
<1>2. /\ IsFiniteSet(Later(t)) /\ Rank(t) \in Nat
      /\ IsFiniteSet(Later(t)') /\ Rank(t)' \in Nat
  BY <1>1, CardSub, HistoryTypes DEF Later, Rank
<1>3. ASSUME end[t] <= at PROVE Rank(t)' <= Rank(t)
  <2>1. Later(t)' \subseteq Later(t)
    BY <1>1, <1>3, HistoryTypes DEF Later
  <2> QED
    BY <1>2, <2>1, CardSub DEF Rank
<1>4. ASSUME at <= end[t] PROVE Rank(t) <= Rank(t)'
  <2>1. Later(t) \subseteq Later(t)'
    BY <1>1, <1>4, HistoryTypes DEF Later
  <2> QED
    BY <1>2, <2>1, CardSub DEF Rank
<1> QED
  BY <1>1, <1>2, <1>3, <1>4

\* Only trips with neighbours' ranks cross a line, and there is one of a rank.
LEMMA OneMovesDown ==
  ASSUME HistoryOK, NEW t \in TripIds, NEW at \in Times, Complete(t, at), NEW line \in Nat,
         NEW x \in Untied, NEW y \in Untied,
         Rank(x) < line, Rank(x)' >= line, Rank(y) < line, Rank(y)' >= line
  PROVE  x = y
<1>1. x \in CompletedTrips /\ y \in CompletedTrips
  BY DEF Untied
<1>2. CASE t \notin {x, y}
  <2>1. Rank(x) = line - 1 /\ Rank(y) = line - 1
    BY <1>1, <1>2, Overtaken
  <2> QED
    BY <2>1, RankDistinct
<1>3. ASSUME NEW z \in {x, y}, z # t, t \in {x, y}
      PROVE  FALSE
  <2>1. t \in CompletedTrips /\ end[t] # Null /\ end[t] \in Nat /\ at \in Nat
    BY <1>1, <1>3, Mover DEF CompletedTrips
  <2>2. CASE end[t] <= at
    BY <1>3, <2>1, <2>2, Mover
  <2>3. CASE at <= end[t]
    BY <1>1, <1>3, <2>1, <2>3, Overtaken
  <2> QED
    BY <2>1, <2>2, <2>3
<1> QED
  BY <1>2, <1>3

LEMMA OneMovesUp ==
  ASSUME HistoryOK, NEW t \in TripIds, NEW at \in Times, Complete(t, at), NEW line \in Nat,
         NEW x \in Untied, NEW y \in Untied,
         Rank(x) >= line, Rank(x)' < line, Rank(y) >= line, Rank(y)' < line
  PROVE  x = y /\ end[t] # Null
<1>1. x \in CompletedTrips /\ y \in CompletedTrips
  BY DEF Untied
<1>2. CASE t \notin {x, y}
  <2>1. Rank(x) = line /\ Rank(y) = line /\ end[t] # Null
    BY <1>1, <1>2, Overtaken
  <2> QED
    BY <2>1, RankDistinct
<1>3. CASE t \in {x, y}
  <2>1. t \in CompletedTrips /\ end[t] # Null /\ end[t] \in Nat /\ at \in Nat
    BY <1>1, <1>3, Mover DEF CompletedTrips
  <2>2. ASSUME NEW z \in {x, y}, z # t
        PROVE  FALSE
    <3>1. CASE end[t] <= at
      BY <1>1, <2>1, <2>2, <3>1, Overtaken
    <3>2. CASE at <= end[t]
      BY <1>3, <2>1, <3>2, Mover
    <3> QED
      BY <2>1, <3>1, <3>2
  <2> QED
    BY <2>1, <2>2
<1> QED
  BY <1>2, <1>3

----------------------------------------------------------------------------
(* Repeats.  A trip is exposed if it was shown and has a rank on the pages *)
(* to come: the walk will show it again.                                   *)

Walking == pc \in {"count", "list"} /\ Offset(page) >= 0

Exposed == {t \in seen \ tied : Walking /\ Rank(t) >= Offset(page)}

TiesNoted == pc # "start" => Ties \subseteq tied

RepeatInv ==
  /\ TiesNoted
  /\ pc = "start" => seen = {} /\ repeats = 0
  /\ repeats + Cardinality(Exposed) <= completed

LEMMA ExposedType ==
  ASSUME Types
  PROVE  /\ IsFiniteSet(Exposed) /\ Cardinality(Exposed) \in Nat
         /\ repeats \in Nat /\ completed \in Nat /\ page \in Nat \ {0}
         /\ Exposed \subseteq CompletedTrips \ tied
<1>1. Exposed \subseteq CompletedTrips \ tied
  BY DEF Exposed, Types
<1> QED
  BY <1>1, CardSub, HistoryTypes, PagingAssumption DEF Types, TypeOK

LEMMA FewerExposed ==
  ASSUME Types, RepeatInv, Exposed' \subseteq Exposed, repeats' = repeats,
         completed' \in Nat, completed <= completed'
  PROVE  repeats' + Cardinality(Exposed)' <= completed'
<1>1. /\ Cardinality(Exposed') \in Nat
      /\ Cardinality(Exposed') <= Cardinality(Exposed)
  BY ExposedType, CardSub
<1> QED
  BY <1>1, ExposedType DEF RepeatInv

LEMMA ListRepeats ==
  ASSUME Types, RepeatInv, List
  PROVE  RepeatInv'
<1>1. PICK shown \in Pages(page) :
        /\ seen' = seen \cup shown
        /\ repeats' = repeats + Cardinality((shown \cap seen) \ tied)
  BY DEF List
<1>2. /\ pc = "list" /\ UNCHANGED <<rows, end, tied, completed>>
      /\ Offset(page) \in Nat /\ page \in Nat \ {0} /\ HistoryOK
      /\ \/ page' = page + 1 /\ pc' = "count"
         \/ page' = page /\ pc' = "done"
  BY OffsetType, ExposedType DEF List, historyVars, Types
<1>3. /\ CompletedTrips' = CompletedTrips /\ Ties' = Ties
      /\ \A t : Rank(t)' = Rank(t)
  BY <1>2 DEF CompletedTrips, Ties, Later, Rank
<1> DEFINE again == (shown \cap seen) \ tied
<1>4. Ties \subseteq tied /\ \A t \in CompletedTrips \ tied : t \in Untied
  BY <1>2 DEF RepeatInv, TiesNoted, Untied
<1>5. again \subseteq Exposed
  <2> SUFFICES ASSUME NEW t \in again PROVE t \in Exposed
    OBVIOUS
  <2>1. t \in Untied
    BY <1>4, PageCompleted
  <2>2. Offset(page) <= Rank(t)
    BY <1>2, <2>1, PageRank
  <2> QED
    BY <1>2, <2>1, <2>2, HistoryTypes DEF Exposed, Walking
<1>6. Exposed' \subseteq Exposed \ again
  <2> SUFFICES ASSUME NEW t \in Exposed' PROVE t \in Exposed \ again
    OBVIOUS
  <2>1. /\ t \in seen \cup shown /\ t \notin tied
        /\ page' = page + 1 /\ Offset(page + 1) >= 0 /\ Rank(t) >= Offset(page + 1)
    BY <1>1, <1>2, <1>3 DEF Exposed, Walking
  <2>2. t \in Untied
    BY <1>1, <1>4, <2>1, PageCompleted DEF Types
  <2>3. Offset(page + 1) = Offset(page) + PageSize
    BY <1>2, <2>1, NextOffset, OffsetType
  <2>4. ~(Rank(t) < Offset(page) + PageSize) /\ Offset(page) <= Rank(t)
    BY <1>2, <2>1, <2>3, HistoryTypes, PagingAssumption
  <2>5. t \notin shown
    BY <1>2, <2>2, <2>4, PageRank
  <2> QED
    BY <1>2, <2>1, <2>4, <2>5, HistoryTypes DEF Exposed, Walking
<1>7. /\ IsFiniteSet(Exposed) /\ Cardinality(Exposed) \in Nat
      /\ repeats \in Nat /\ completed \in Nat
  BY ExposedType
<1>8. /\ Cardinality(Exposed') \in Nat /\ Cardinality(again) \in Nat
      /\ Cardinality(Exposed') + Cardinality(again) <= Cardinality(Exposed)
  <2>1. IsFiniteSet(again) /\ Cardinality(again) \in Nat
    BY <1>5, <1>7, CardSub
  <2>2. Exposed \cap again = again
    BY <1>5
  <2>3. /\ IsFiniteSet(Exposed \ again)
        /\ Cardinality(Exposed \ again) = Cardinality(Exposed) - Cardinality(again)
    BY <1>7, <2>2, FS_Difference
  <2>4. Cardinality(Exposed') \in Nat /\ Cardinality(Exposed') <= Cardinality(Exposed \ again)
    BY <1>6, <2>3, CardSub
  <2> QED
    BY <1>7, <2>1, <2>3, <2>4
<1>9. repeats' + Cardinality(Exposed') <= completed'
  BY <1>1, <1>2, <1>7, <1>8 DEF RepeatInv
<1> QED
  BY <1>2, <1>3, <1>4, <1>9 DEF RepeatInv, TiesNoted

LEMMA EndRepeats ==
  ASSUME Types, RepeatInv, NEW t \in TripIds, NEW at \in Times, TripEnds(t, at)
  PROVE  RepeatInv'
<1>1. /\ UNCHANGED <<pc, page, seen, repeats>> /\ tied \subseteq tied' /\ Ties' \subseteq tied'
      /\ HistoryOK /\ Complete(t, at)
      /\ pc # "start" => completed' = completed + 1
      /\ pc = "start" => completed' = completed
  BY DEF TripEnds, walk, Types
<1>2. TiesNoted' /\ (pc' = "start" => seen' = {} /\ repeats' = 0)
  BY <1>1 DEF RepeatInv, TiesNoted
<1>3. /\ IsFiniteSet(Exposed) /\ Cardinality(Exposed) \in Nat
      /\ repeats \in Nat /\ completed \in Nat /\ page \in Nat \ {0}
  BY ExposedType
<1>4. CASE pc = "start"
  BY <1>1, <1>2, <1>3, <1>4, FewerExposed DEF RepeatInv, Exposed, Walking
<1>5. CASE pc # "start" /\ ~Walking
  <2>1. Exposed' \subseteq Exposed
    BY <1>1, <1>5 DEF Exposed, Walking
  <2> QED
    BY <1>1, <1>2, <1>3, <1>5, <2>1, FewerExposed DEF RepeatInv
<1>6. CASE Walking
  <2>1. Offset(page) \in Nat
    BY <1>3, <1>6, OffsetType DEF Walking
  <2>2. ASSUME NEW x \in Exposed' \ Exposed
        PROVE  x \in Untied /\ Rank(x) < Offset(page) /\ Rank(x)' >= Offset(page)
    <3>1. x \in seen \ tied /\ Rank(x)' >= Offset(page)
      BY <1>1, <2>2 DEF Exposed
    <3>2. x \in Untied
      BY <1>6, <3>1 DEF Untied, RepeatInv, TiesNoted, Walking, Types
    <3>3. ~(Rank(x) >= Offset(page))
      BY <1>6, <2>2, <3>1 DEF Exposed
    <3> QED
      BY <1>1, <2>1, <3>1, <3>2, <3>3, HistoryTypes
  <2>3. \A x, y \in Exposed' \ Exposed : x = y
    BY <1>1, <2>1, <2>2, OneMovesDown
  <2>4. /\ Cardinality(Exposed') \in Nat
        /\ Cardinality(Exposed') <= Cardinality(Exposed) + 1
    BY <1>3, <2>3, CardOneMore
  <2>5. completed' = completed + 1 /\ repeats' = repeats
    BY <1>1, <1>6 DEF Walking
  <2>6. repeats' + Cardinality(Exposed') <= completed'
    BY <1>3, <2>4, <2>5 DEF RepeatInv
  <2> QED
    BY <1>2, <2>6 DEF RepeatInv
<1> QED
  BY <1>4, <1>5, <1>6

LEMMA NextRepeatInv ==
  ASSUME Types, RepeatInv, [Next]_vars
  PROVE  RepeatInv'
<1>1. CASE List
  BY <1>1, ListRepeats
<1>2. ASSUME NEW t \in TripIds, NEW at \in Times, TripEnds(t, at)
      PROVE  RepeatInv'
  BY <1>2, EndRepeats
<1>3. CASE Start
  <2>1. /\ seen' = {} /\ repeats' = 0 /\ completed' = completed /\ UNCHANGED <<rows, end>>
        /\ tied' = Ties /\ pc' = "count" /\ seen = {} /\ repeats = 0
    BY <1>3 DEF Start, RepeatInv, historyVars
  <2>2. Ties' = Ties /\ Exposed' \subseteq Exposed
    BY <2>1 DEF Ties, CompletedTrips, Exposed
  <2> QED
    BY <2>1, <2>2, ExposedType, FewerExposed DEF RepeatInv, TiesNoted
<1>4. CASE Count \/ NegativeOffset \/ RequestFails \/ UNCHANGED vars
  <2>1. /\ UNCHANGED <<rows, end, page, seen, repeats, tied, completed>>
        /\ Walking' => Walking
        /\ pc' = "start" <=> pc = "start"
    BY <1>4 DEF Count, NegativeOffset, RequestFails, vars, historyVars, Walking
  <2>2. Ties' = Ties /\ \A t : Rank(t)' = Rank(t)
    BY <2>1 DEF Ties, CompletedTrips, Later, Rank
  <2>3. Exposed' \subseteq Exposed
    BY <2>1, <2>2 DEF Exposed
  <2> QED
    BY <2>1, <2>2, <2>3, ExposedType, FewerExposed DEF RepeatInv, TiesNoted
<1>5. ASSUME NEW t \in TripIds, TripBegins(t)
      PROVE  RepeatInv'
  <2>1. /\ UNCHANGED <<pc, page, seen, repeats, tied, completed>>
        /\ CompletedTrips' = CompletedTrips /\ Ties' = Ties /\ end' = end
    BY <1>5, BeginKeeps DEF TripBegins, walk, Types
  <2>2. \A u : Rank(u)' = Rank(u)
    BY <2>1 DEF Later, Rank
  <2>3. Exposed' \subseteq Exposed
    BY <2>1, <2>2 DEF Exposed, Walking
  <2> QED
    BY <2>1, <2>3, ExposedType, FewerExposed DEF RepeatInv, TiesNoted
<1> QED
  BY <1>1, <1>2, <1>3, <1>4, <1>5 DEF Next

LEMMA InitRepeatInv == Init => RepeatInv
<1> SUFFICES ASSUME Init PROVE RepeatInv
  OBVIOUS
<1>1. Exposed = {}
  BY DEF Init, Exposed
<1> QED
  BY <1>1, FS_EmptySet DEF Init, RepeatInv, TiesNoted

\* Whatever page a walk begins with, and even where an offset wraps to that of
\* an earlier page: every repeat of a trip that shares its end with no other is
\* paid for by a completion of its own.
THEOREM RepeatsPaid == Spec => []RepeatsPaidByCompletions
<1>1. Types /\ RepeatInv => RepeatsPaidByCompletions
  BY ExposedType DEF RepeatInv, RepeatsPaidByCompletions
<1> QED
  BY <1>1, AlwaysTypes, InitRepeatInv, NextRepeatInv, PTL DEF Spec

----------------------------------------------------------------------------
(* Nothing missed.  A trip is behind if the client wants it, has not seen  *)
(* it, and its rank is on a page already read.                             *)

Behind == {t \in (wanted \ seen) \ tied : Walking /\ Rank(t) < Offset(page)}

Unseen == (wanted \ seen) \ tied

MissInv ==
  /\ TiesNoted
  /\ pc = "start" => wanted = {}
  /\ Walking => Offset(page) = (page - 1) * PageSize
  /\ pc = "list" /\ ~rushed => total = Cardinality(rows)
  /\ Cardinality(Behind) <= moves
  /\ pc = "done" /\ ~rushed => Cardinality(Unseen) <= moves

LEMMA BehindType ==
  ASSUME Types
  PROVE  /\ IsFiniteSet(Behind) /\ Cardinality(Behind) \in Nat
         /\ IsFiniteSet(Unseen) /\ Cardinality(Unseen) \in Nat
         /\ moves \in Nat /\ page \in Nat \ {0} /\ total \in Nat /\ Offset(page) \in Int
         /\ Behind \subseteq Unseen /\ Unseen \subseteq CompletedTrips \ tied
<1>1. Behind \subseteq Unseen /\ Unseen \subseteq CompletedTrips \ tied
  BY DEF Behind, Unseen, Types
<1>2. moves \in Nat /\ page \in Nat \ {0} /\ total \in Nat
  BY PagingAssumption DEF Types, TypeOK
<1> QED
  BY <1>1, <1>2, CardSub, HistoryTypes, OffsetType DEF Types

LEMMA FewerBehind ==
  ASSUME Types, MissInv, Behind' \subseteq Behind, moves' \in Nat, moves <= moves'
  PROVE  Cardinality(Behind)' <= moves'
<1>1. Cardinality(Behind') \in Nat /\ Cardinality(Behind') <= Cardinality(Behind)
  BY BehindType, CardSub
<1> QED
  BY <1>1, BehindType DEF MissInv

LEMMA StartMisses ==
  ASSUME Types, MissInv, FromTheFirstPage, Start
  PROVE  MissInv'
<1>1. PICK p \in Firsts : page' = ValidPage(p)
  BY DEF Start
<1>2. /\ pc' = "count" /\ tied' = Ties /\ moves' = moves /\ UNCHANGED <<rows, end>>
      /\ p \in Int
  BY PagingAssumption DEF Start, historyVars
<1>3. Ties' = Ties /\ \A t : Rank(t)' = Rank(t)
  BY <1>2 DEF Ties, CompletedTrips, Later, Rank
<1>4. Offset(1) = 0
  BY WrappedSmall, PagingAssumption DEF Offset
<1>5. \/ page' = 1
      \/ Offset(page') < 0
  BY <1>1, <1>2 DEF ValidPage, FromTheFirstPage
<1>6. page' \in Nat \ {0} /\ Offset(page') \in Int
  <2>1. ValidPage(p) \in Nat \ {0}
    BY <1>2 DEF ValidPage
  <2> QED
    BY <1>1, <2>1, OffsetType
<1>7. Walking' => Offset(page') = (page' - 1) * PageSize
  <2>1. (1 - 1) * PageSize = 0
    BY PagingAssumption
  <2> QED
    BY <1>4, <1>5, <1>6, <2>1 DEF Walking
<1>8. Behind' = {}
  <2>1. \A t : Walking' => ~(Rank(t)' < Offset(page'))
    BY <1>3, <1>4, <1>5, <1>6, HistoryTypes DEF Walking, Types
  <2> QED
    BY <2>1 DEF Behind
<1>9. Cardinality(Behind') <= moves'
  BY <1>2, <1>8, FS_EmptySet, BehindType
<1> QED
  BY <1>2, <1>3, <1>7, <1>9 DEF MissInv, TiesNoted

LEMMA ListMisses ==
  ASSUME Types, MissInv, List
  PROVE  MissInv'
<1>1. PICK shown \in Pages(page) : seen' = seen \cup shown
  BY DEF List
<1>2. /\ pc = "list" /\ UNCHANGED <<rows, end, wanted, tied, moves, rushed, total>>
      /\ Offset(page) \in Nat /\ page \in Nat \ {0} /\ HistoryOK
      /\ \/ page < TotalPages(total) /\ page' = page + 1 /\ pc' = "count"
         \/ ~(page < TotalPages(total)) /\ page' = page /\ pc' = "done"
  BY OffsetType, BehindType DEF List, historyVars, Types
<1>3. /\ CompletedTrips' = CompletedTrips /\ Ties' = Ties
      /\ \A t : Rank(t)' = Rank(t)
  BY <1>2 DEF CompletedTrips, Ties, Later, Rank
<1>4. Ties \subseteq tied /\ Offset(page) = (page - 1) * PageSize
  BY <1>2 DEF MissInv, TiesNoted, Walking
<1>5. ASSUME NEW t \in Unseen', Rank(t) < Offset(page) + PageSize
      PROVE  t \in Behind
  <2>1. t \in Unseen /\ t \notin shown
    BY <1>1, <1>2, <1>5 DEF Unseen
  <2>2. t \in Untied
    BY <1>4, <2>1, BehindType DEF Untied
  <2>3. ~(Offset(page) <= Rank(t))
    BY <1>2, <1>5, <2>1, <2>2, PageRank
  <2> QED
    BY <1>2, <2>1, <2>3, HistoryTypes DEF Behind, Unseen, Walking
<1>6. CASE page' = page + 1 /\ pc' = "count"
  <2>1. Walking' => Offset(page') = Offset(page) + PageSize
    BY <1>2, <1>6, NextOffset, OffsetType DEF Walking
  <2>2. (page - 1) * PageSize + PageSize = (page + 1 - 1) * PageSize
    BY <1>2, PagingAssumption
  <2>3. Behind' \subseteq Behind
    BY <1>3, <1>5, <2>1 DEF Behind, Unseen
  <2> QED
    BY <1>2, <1>3, <1>4, <1>6, <2>1, <2>2, <2>3, FewerBehind, BehindType DEF MissInv, TiesNoted
<1>7. CASE ~(page < TotalPages(total)) /\ page' = page /\ pc' = "done"
  <2>1. Behind' \subseteq Behind
    BY <1>7 DEF Behind, Walking
  <2>2. ASSUME ~rushed
        PROVE  Unseen' \subseteq Behind
    <3>1. total = Cardinality(rows) /\ total \in Nat
      BY <1>2, <2>2, BehindType DEF MissInv
    <3>2. total <= Offset(page) + PageSize
      <4>1. TotalPages(total) \in Nat /\ total <= TotalPages(total) * PageSize
        BY <3>1, PagesHoldRows
      <4>2. TotalPages(total) * PageSize <= page * PageSize
        BY <1>2, <1>7, <4>1, PagingAssumption
      <4>3. page * PageSize = Offset(page) + PageSize
        BY <1>2, <1>4, PagingAssumption
      <4> QED
        BY <1>2, <3>1, <4>1, <4>2, <4>3, PagingAssumption
    <3>3. ASSUME NEW t \in CompletedTrips
          PROVE  Rank(t) < Cardinality(rows)
      <4>1. Later(t) \subseteq rows \ {t} /\ t \in rows /\ IsFiniteSet(rows)
        BY <1>2, <3>3, CardSub, HistoryTypes, PagingAssumption
           DEF Later, CompletedTrips, HistoryOK
      <4> QED
        BY <4>1, CardOneLess DEF Rank
    <3>4. ASSUME NEW t \in Unseen'
          PROVE  t \in Behind
      <4>1. t \in CompletedTrips
        BY <1>1, <1>2, <3>4, BehindType DEF Unseen
      <4>2. Rank(t) < Offset(page) + PageSize
        BY <1>2, <3>1, <3>2, <3>3, <4>1, HistoryTypes, PagingAssumption
      <4> QED
        BY <1>5, <4>2
    <3> QED
      BY <3>4
  <2>3. ~rushed => Cardinality(Unseen') <= moves'
    <3>1. ASSUME ~rushed
          PROVE  /\ Cardinality(Unseen') \in Nat
                 /\ Cardinality(Unseen') <= Cardinality(Behind)
      BY <2>2, <3>1, BehindType, CardSub
    <3> QED
      BY <1>2, <3>1, BehindType DEF MissInv
  <2> QED
    BY <1>2, <1>3, <1>4, <1>7, <2>1, <2>3, FewerBehind, BehindType
       DEF MissInv, TiesNoted, Walking
<1> QED
  BY <1>2, <1>6, <1>7

LEMMA EndMisses ==
  ASSUME Types, MissInv, NEW t \in TripIds, NEW at \in Times, TripEnds(t, at)
  PROVE  MissInv'
<1>1. /\ UNCHANGED <<pc, page, total, seen, wanted, rushed, rows>> /\ tied \subseteq tied'
      /\ Ties' \subseteq tied' /\ HistoryOK /\ Complete(t, at)
      /\ pc # "start" => moves' = moves + (IF end[t] # Null THEN 1 ELSE 0)
      /\ pc = "start" => moves' = moves
  BY DEF TripEnds, walk, Types, Complete
<1>2. /\ IsFiniteSet(Behind) /\ Cardinality(Behind) \in Nat
      /\ IsFiniteSet(Unseen) /\ Cardinality(Unseen) \in Nat
      /\ moves \in Nat /\ page \in Nat \ {0}
  BY BehindType
<1>3. moves' \in Nat /\ moves <= moves'
  BY <1>1, <1>2
<1>4. Unseen' \subseteq Unseen
  BY <1>1 DEF Unseen
<1>5. pc' = "done" /\ ~rushed' => Cardinality(Unseen') <= moves'
  <2>1. Cardinality(Unseen') \in Nat /\ Cardinality(Unseen') <= Cardinality(Unseen)
    BY <1>2, <1>4, CardSub
  <2> QED
    BY <1>1, <1>2, <1>3, <2>1 DEF MissInv
<1>6. Cardinality(Behind') <= moves'
  <2>1. CASE ~Walking
    <3>1. Behind' \subseteq Behind
      BY <1>1, <2>1 DEF Behind, Walking
    <3> QED
      BY <1>3, <3>1, FewerBehind
  <2>2. CASE Walking
    <3>1. Offset(page) \in Nat
      BY <1>2, <2>2, OffsetType DEF Walking
    <3>2. ASSUME NEW x \in Behind' \ Behind
          PROVE  x \in Untied /\ Rank(x) >= Offset(page) /\ Rank(x)' < Offset(page)
      <4>1. x \in Unseen /\ Rank(x)' < Offset(page)
        BY <1>1, <3>2 DEF Behind, Unseen
      <4>2. x \in Untied
        BY <2>2, <4>1, BehindType DEF Untied, MissInv, TiesNoted, Walking
      <4>3. ~(Rank(x) < Offset(page))
        BY <2>2, <3>2, <4>1 DEF Behind, Unseen
      <4> QED
        BY <1>1, <3>1, <4>1, <4>2, <4>3, HistoryTypes
    <3>3. CASE Behind' \subseteq Behind
      BY <1>3, <3>3, FewerBehind
    <3>4. CASE ~(Behind' \subseteq Behind)
      <4>1. /\ \A x, y \in Behind' \ Behind : x = y
            /\ end[t] # Null
        BY <1>1, <3>1, <3>2, <3>4, OneMovesUp
      <4>2. /\ Cardinality(Behind') \in Nat
            /\ Cardinality(Behind') <= Cardinality(Behind) + 1
        BY <1>2, <4>1, CardOneMore
      <4>3. moves' = moves + 1
        BY <1>1, <2>2, <4>1 DEF Walking
      <4> QED
        BY <1>2, <4>2, <4>3 DEF MissInv
    <3> QED
      BY <3>3, <3>4
  <2> QED
    BY <2>1, <2>2
<1> QED
  BY <1>1, <1>5, <1>6 DEF MissInv, TiesNoted, Walking

LEMMA NextMissInv ==
  ASSUME Types, MissInv, FromTheFirstPage, [Next]_vars
  PROVE  MissInv'
<1>1. CASE Start
  BY <1>1, StartMisses
<1>2. CASE List
  BY <1>2, ListMisses
<1>3. ASSUME NEW t \in TripIds, NEW at \in Times, TripEnds(t, at)
      PROVE  MissInv'
  BY <1>3, EndMisses
<1>4. CASE Count \/ NegativeOffset \/ RequestFails \/ UNCHANGED vars
  <2>1. /\ UNCHANGED <<rows, end, page, seen, wanted, tied, moves>>
        /\ Walking' => Walking
        /\ pc' = "start" <=> pc = "start"
        /\ pc' = "done" <=> pc = "done"
        /\ \/ total' = Cardinality(rows)
           \/ total' = total /\ rushed' = rushed /\ (pc' = "list" => pc = "list")
        /\ pc' = "done" => rushed' = rushed
    BY <1>4 DEF Count, CountTrips, NegativeOffset, RequestFails, vars, historyVars, Walking
  <2>2. Ties' = Ties /\ \A t : Rank(t)' = Rank(t)
    BY <2>1 DEF Ties, CompletedTrips, Later, Rank
  <2>3. Behind' \subseteq Behind /\ Unseen' = Unseen
    BY <2>1, <2>2 DEF Behind, Unseen
  <2>4. Cardinality(Behind') <= moves'
    BY <2>1, <2>3, FewerBehind, BehindType
  <2> QED
    BY <2>1, <2>2, <2>3, <2>4 DEF MissInv, TiesNoted
<1>5. ASSUME NEW t \in TripIds, TripBegins(t)
      PROVE  MissInv'
  <2>1. /\ UNCHANGED <<pc, page, total, seen, wanted, tied, moves>> /\ rushed' = TRUE
        /\ CompletedTrips' = CompletedTrips /\ Ties' = Ties /\ end' = end
    BY <1>5, BeginKeeps DEF TripBegins, walk, Types
  <2>2. \A u : Rank(u)' = Rank(u)
    BY <2>1 DEF Later, Rank
  <2>3. Behind' \subseteq Behind
    BY <2>1, <2>2 DEF Behind, Walking
  <2> QED
    BY <2>1, <2>3, FewerBehind, BehindType DEF MissInv, TiesNoted, Walking
<1> QED
  BY <1>1, <1>2, <1>3, <1>4, <1>5 DEF Next

LEMMA InitMissInv == Init => MissInv
<1> SUFFICES ASSUME Init PROVE MissInv
  OBVIOUS
<1>1. Behind = {}
  BY DEF Init, Behind
<1> QED
  BY <1>1, FS_EmptySet DEF Init, MissInv, TiesNoted, Walking

\* A walk that begins with the first page and ends before another trip begins
\* shows every trip that was completed when it began and shares its end with no
\* other, but for one trip for every end that was moved meanwhile: whatever else
\* completes between two pages or two queries.
THEOREM NothingIsMissed ==
  ASSUME FromTheFirstPage
  PROVE  Spec => []NothingMissed
<1>1. MissInv => NothingMissed
  BY DEF MissInv, Unseen, NothingMissed
<1> QED
  BY <1>1, AlwaysTypes, InitMissInv, NextMissInv, PTL DEF Spec

----------------------------------------------------------------------------
(* Requests that Postgres refuses *)

RefusedInv == Types /\ RefusedPastTheIntsOnly

LEMMA PastTheInts ==
  ASSUME NEW p \in Nat \ {0}, Offset(p) < 0
  PROVE  (p - 1) * PageSize >= IntLimit
<1>1. (p - 1) * PageSize \in Nat
  BY PagingAssumption
<1> QED
  BY <1>1, WrappedSmall, PagingAssumption DEF Offset

\* Whatever page a client asks for first, zero and below included, a request is
\* refused only if its page is further back than an int can count rows.
THEOREM RefusedPastTheInts == Spec => []RefusedPastTheIntsOnly
<1>1. Init => RefusedInv
  BY InitTypes DEF Init, RefusedInv, RefusedPastTheIntsOnly
<1>2. RefusedInv /\ [Next]_vars => RefusedInv'
  <2> SUFFICES ASSUME RefusedInv, [Next]_vars PROVE RefusedInv'
    OBVIOUS
  <2>1. Types'
    BY NextTypes DEF RefusedInv
  <2>2. CASE NegativeOffset
    <3>1. page' = page /\ page \in Nat \ {0} /\ Offset(page) < 0
      BY <2>2, PagingAssumption DEF NegativeOffset, RefusedInv, Types, TypeOK
    <3> QED
      BY <2>1, <3>1, PastTheInts DEF RefusedInv, RefusedPastTheIntsOnly
  <2>3. CASE ~NegativeOffset
    <3>1. pc' = "failed" => pc = "failed" /\ page' = page
      BY <2>3 DEF Next, Start, Count, List, RequestFails, TripBegins, TripEnds, walk, vars
    <3> QED
      BY <2>1, <3>1 DEF RefusedInv, RefusedPastTheIntsOnly
  <2> QED
    BY <2>2, <2>3
<1>3. RefusedInv => RefusedPastTheIntsOnly
  BY DEF RefusedInv
<1> QED
  BY <1>1, <1>2, <1>3, PTL DEF Spec

=============================================================================
