------------------------------ MODULE TripsDB ------------------------------
(***************************************************************************)
(* The two Postgres tables of trips-api and the SQL the service runs on    *)
(* them, as operators from the contents of a table to a query's result or  *)
(* to the table's next contents.  One operator stands for one SQL          *)
(* statement: Postgres runs it atomically, and nothing larger is atomic,   *)
(* because the service opens no transaction.                               *)
(*                                                                         *)
(*   vehicles[k]  the user_device_id stored under token_id k, or Null      *)
(*   trips[t]     the row of trip id t, or Null                            *)
(*                                                                         *)
(* A function from the primary key is the PRIMARY KEY constraint; the      *)
(* UNIQUE constraint on user_device_id is what UpsertVehicle enforces.     *)
(***************************************************************************)
EXTENDS Naturals

CONSTANTS Devices,    \* user device ids
          Tokens,     \* vehicle token ids
          TripIds,    \* segment ids
          Locations,  \* points (longitude, latitude)
          Times,      \* instants
          Keys,       \* 32-byte AES keys
          Near,       \* pairs of points closer than InterpolationThresholdMiles
          Null        \* SQL NULL, a Go nil, an absent row

\* A Bundlr data item: what its tags say, and the key its payload is sealed
\* with.  The item's id is a hash of its signed contents, which hold a fresh
\* nonce, so the item stands for its own id.
Item == [key: Keys, token: Tokens, start: Times, end: Times]

\* A row of the trips table.
Row == [token: Tokens, startTime: Times, endTime: Times \cup {Null},
        startPos: Locations \cup {Null}, estimate: Locations \cup {Null},
        endPos: Locations \cup {Null}, dropped: BOOLEAN,
        key: Keys \cup {Null}, bundlr: Item \cup {Null}]

Vehicles == [Tokens -> Devices \cup {Null}]
Trips    == [TripIds -> Row \cup {Null}]

ASSUME TimesAssumption == Times \subseteq Nat

ASSUME NullAssumption ==
  /\ Null \notin Devices \cup Tokens \cup Locations \cup Times \cup Keys
  /\ Null \notin Item
  /\ Null \notin Row

\* The distance of a point to itself is 0, below the threshold.
ASSUME NearAssumption ==
  /\ Near \subseteq Locations \X Locations
  /\ \A l \in Locations : <<l, l>> \in Near

----------------------------------------------------------------------------
(* vehicles *)

\* SELECT ... WHERE user_device_id = d.
VehicleOf(vehicles, d) == {k \in Tokens : vehicles[k] = d}

\* Mutant: the schema without the UNIQUE constraint.
DeviceNeverTaken(vehicles, k, d) == FALSE

\* The INSERT finds the device under another token: token_id, the conflict
\* target of StoreVehicle, does not cover this, so the statement fails.
DeviceTaken(vehicles, k, d) == vehicles[k] = Null /\ VehicleOf(vehicles, d) # {}

\* Mutant: ON CONFLICT (token_id) DO UPDATE.
OverwriteVehicle(vehicles, k, d) == [vehicles EXCEPT ![k] = d]

\* INSERT ... ON CONFLICT (token_id) DO NOTHING, when it does not fail.
UpsertVehicle(vehicles, k, d) ==
  IF vehicles[k] = Null THEN [vehicles EXCEPT ![k] = d] ELSE vehicles

----------------------------------------------------------------------------
(* trips *)

Completed(trips, t) == trips[t] # Null /\ trips[t].endTime # Null

\* Mutant: the join to the vehicle is lost.
CompletedOfAll(trips, k) == {t \in TripIds : Completed(trips, t)}

CompletedOf(trips, k) ==
  {t \in TripIds : Completed(trips, t) /\ trips[t].token = k}

\* The rows ORDER BY end_time DESC LIMIT 1 may return: one of the latest.
LastCompleted(trips, k) ==
  {t \in CompletedOf(trips, k) :
     \A u \in CompletedOf(trips, k) : trips[u].endTime <= trips[t].endTime}

\* The end position a load of the vehicle's last trip may yield.  No trip at
\* all and a trip that ended without a position count alike for the callers.
LastEnds(trips, k) ==
  IF CompletedOf(trips, k) = {} THEN {Null}
  ELSE {trips[t].endPos : t \in LastCompleted(trips, k)}

\* INSERT of a whole row; the callers test the primary key first.
InsertTrip(trips, t, row) == [trips EXCEPT ![t] = row]

\* Mutant: bundlr_id is left out of the whitelist.
UpdateWithoutBundlr(trips, t, row) ==
  [trips EXCEPT ![t] =
     [@ EXCEPT !.key = row.key, !.endTime = row.endTime,
               !.endPos = row.endPos, !.estimate = row.estimate]]

\* Mutant: a key once stored is kept.
UpdateKeepingKey(trips, t, row) ==
  [trips EXCEPT ![t] =
     [@ EXCEPT !.key = IF @ = Null THEN row.key ELSE @,
               !.endTime = row.endTime, !.bundlr = row.bundlr,
               !.endPos = row.endPos, !.estimate = row.estimate]]

\* Mutant: end_position is left out of the whitelist.
UpdateWithoutEndPosition(trips, t, row) ==
  [trips EXCEPT ![t] =
     [@ EXCEPT !.key = row.key, !.endTime = row.endTime, !.bundlr = row.bundlr,
               !.estimate = row.estimate]]

\* Mutant: an end time once stored is kept.
UpdateKeepingEndTime(trips, t, row) ==
  [trips EXCEPT ![t] =
     [@ EXCEPT !.key = row.key, !.bundlr = row.bundlr, !.endPos = row.endPos,
               !.endTime = IF @ = Null THEN row.endTime ELSE @,
               !.estimate = row.estimate]]

\* UPDATE of the five columns CompleteSegment whitelists.
UpdateTrip(trips, t, row) ==
  [trips EXCEPT ![t] =
     [@ EXCEPT !.key = row.key, !.endTime = row.endTime, !.bundlr = row.bundlr,
               !.endPos = row.endPos, !.estimate = row.estimate]]

----------------------------------------------------------------------------
(* geo *)

InterpolateTripStart(prevTripEnd, newTripStart) ==
  <<prevTripEnd, newTripStart>> \in Near

=============================================================================
