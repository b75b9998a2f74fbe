---------------------------- MODULE TripHistory ----------------------------
(***************************************************************************)
(* What the consumer does to one vehicle's trips, as far as a reader who   *)
(* lists them by their end can tell: trips come, they end, and a           *)
(* completion that is published again moves the end of a trip.  No trip    *)
(* goes away, and none loses its end.                                      *)
(*                                                                         *)
(* Module Consumer implements this specification for every vehicle, and    *)
(* module TripsAPI reads under it.                                         *)
(***************************************************************************)
CONSTANTS TripIds,
          Times,    \* instants a trip may end at
          Null

VARIABLES rows,  \* the trips of the vehicle
          end    \* end[t]: the end_time of trip t, or Null

historyVars == <<rows, end>>

HistoryInit ==
  /\ rows = {}
  /\ end = [t \in TripIds |-> Null]

Begin(t) ==
  /\ t \notin rows
  /\ rows' = rows \cup {t}
  /\ UNCHANGED end

\* Completions may arrive in any order, and more than once.
Complete(t, at) ==
  /\ t \in rows
  /\ end' = [end EXCEPT ![t] = at]
  /\ UNCHANGED rows

HistoryNext == \E t \in TripIds : Begin(t) \/ \E at \in Times : Complete(t, at)

HistorySpec == HistoryInit /\ [][HistoryNext]_historyVars

=============================================================================
