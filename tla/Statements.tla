----------------------------- MODULE Statements -----------------------------
(***************************************************************************)
(* How the generated models turn a call of Insert, Update or Upsert into a *)
(* SQL statement, and the caches that keep what they built.                *)
(*                                                                         *)
(* An insert names, of the columns that have a default, only those whose   *)
(* value is not zero, so two trips of one process may need different       *)
(* statements.  What was built for one call is kept in a map of the        *)
(* process, shared by every handler, under a text made of column names,    *)
(* and is used again by every call with the same text.                     *)
(*                                                                         *)
(* TripsDB says what the statements are meant to do: InsertTrip, UpdateTrip*)
(* and UpsertVehicle of what the caller holds.                             *)
(***************************************************************************)
EXTENDS TripsDB, SequencesExt

CONSTANTS Workers,
          Calls,     \* the calls the handlers make
          MaxFails   \* bound: statements that fail for no fault of the caller

\* An Insert or Update of a models.Trip; an Upsert of a models.Vehicle.
TripCall    == [op: {"insert", "update"}, id: TripIds, row: Row]
VehicleCall == [op: {"upsert"}, token: Tokens, device: Devices]

ASSUME CallsAssumption ==
  /\ Calls \subseteq TripCall \cup VehicleCall
  /\ Null \notin Calls
  /\ MaxFails \in Nat

VARIABLES vehicles, trips,  \* Postgres (TripsDB)
          cache,            \* tripInsertCache, tripUpdateCache, vehicleUpsertCache
          pc,               \* pc[w]: where in its call w is
          call,             \* call[w]: the call it makes
          stmt,             \* stmt[w]: the statement it has for it
          fails             \* how much of the bound is used

vars == <<vehicles, trips, cache, pc, call, stmt, fails>>

----------------------------------------------------------------------------
(* Columns.  A column goes by its field of Row. *)

columnName ==
  [id |-> "id", startTime |-> "start_time", endTime |-> "end_time",
   token |-> "vehicle_token_id", key |-> "encryption_key", bundlr |-> "bundlr_id",
   startPos |-> "start_position", estimate |-> "start_position_estimate",
   endPos |-> "end_position", dropped |-> "dropped_data",
   token_id |-> "token_id", user_device_id |-> "user_device_id"]

tripColumnsWithoutDefault == <<"id", "startTime", "token">>
tripColumnsWithDefault ==
  <<"endTime", "key", "bundlr", "startPos", "estimate", "endPos", "dropped">>

vehicleAllColumns == <<"token_id", "user_device_id">>

\* Mutant: dropped_data is added without its default.
DefaultNull(column) == Null

Default(column) == IF column = "dropped" THEN FALSE ELSE Null

\* The Go zero value: an invalid null.Time, NullPoint, ... or false.
Zero(column) == IF column = "dropped" THEN FALSE ELSE Null

\* boil.Infer(), and the Whitelist of CompleteSegment.
Infer          == [kind |-> "1", cols |-> <<>>]
CompletionCols == [kind |-> "2", cols |-> <<"key", "endTime", "bundlr", "endPos", "estimate">>]
None           == [kind |-> "0", cols |-> <<>>]

\* queries.NonZeroDefaultSet.
NonZeroDefaultSet(row) ==
  {c \in ToSet(tripColumnsWithDefault) : row[c] # Zero(c)}

\* A set of these columns, as the list the code walks.
Listed(columns) == SelectSeq(tripColumnsWithDefault, LAMBDA c : c \in columns)

----------------------------------------------------------------------------
(* Cache keys: column names one after the other, nothing in between *)

Text(columns) == [i \in DOMAIN columns |-> columnName[columns[i]]]

makeCacheKey(cols, nzDefaults) ==
  FlattenSeq(<<cols.kind>> \o Text(cols.cols)
             \o (IF nzDefaults = <<>> THEN <<>> ELSE <<".">>) \o Text(nzDefaults))

upsertCacheKey(conflict, update, insert) ==
  FlattenSeq(<<"f", ".">> \o Text(conflict) \o <<".", update.kind>> \o Text(update.cols)
             \o <<".", insert.kind>> \o Text(insert.cols) \o <<".">>)

\* Mutant: an insert leaves out of its key which columns are not zero, as an
\* update does.
KeyOfKind(c) ==
  <<c.op, IF c.op = "upsert" THEN upsertCacheKey(<<"token_id">>, None, Infer)
          ELSE makeCacheKey(IF c.op = "insert" THEN Infer ELSE CompletionCols, <<>>)>>

\* The map that keeps the statement, and the key it is kept under.
CacheKey(c) ==
  <<c.op, IF c.op = "insert" THEN makeCacheKey(Infer, Listed(NonZeroDefaultSet(c.row)))
          ELSE IF c.op = "update" THEN makeCacheKey(CompletionCols, <<>>)
          ELSE upsertCacheKey(<<"token_id">>, None, Infer)>>

\* No two sets of columns run together to the same text.  A closed formula:
\* TLC evaluates all of it.
ASSUME KeysTellApart ==
  \A m, n \in SUBSET ToSet(tripColumnsWithDefault) :
    makeCacheKey(Infer, Listed(m)) = makeCacheKey(Infer, Listed(n)) => m = n

----------------------------------------------------------------------------
(* Statements: the columns they set, and the columns whose conflict makes  *)
(* them do nothing.                                                        *)

Statement == [op : {"insert", "update", "upsert"}, cols : SUBSET DOMAIN columnName,
              ignored : SUBSET {"token_id"}]

\* Mutant: only a column without a default is inserted.
WithoutDefault(nzDefaults) == ToSet(tripColumnsWithoutDefault)

\* Columns.InsertColumnSet of boil.Infer().
InsertColumnSet(nzDefaults) == ToSet(tripColumnsWithoutDefault) \cup nzDefaults

Build(c) ==
  [op      |-> c.op,
   cols    |-> IF c.op = "insert" THEN InsertColumnSet(NonZeroDefaultSet(c.row))
               ELSE IF c.op = "update" THEN ToSet(CompletionCols.cols)
               ELSE ToSet(vehicleAllColumns),
   ignored |-> IF c.op = "upsert" THEN {"token_id"} ELSE {}]

\* A column the statement does not name takes its default.
Inserted(s, row) == [f \in DOMAIN row |-> IF f \in s.cols THEN row[f] ELSE Default(f)]

\* A column it does not name stays.
Updated(s, old, row) == [f \in DOMAIN old |-> IF f \in s.cols THEN row[f] ELSE old[f]]

\* Does Postgres refuse the statement?
Refused(s, c) ==
  \/ s.op = "insert" /\ trips[c.id] # Null
  \/ s.op = "upsert" /\ DeviceTaken(vehicles, c.token, c.device)
  \/ s.op = "upsert" /\ vehicles[c.token] # Null /\ "token_id" \notin s.ignored

\* What it does otherwise.
Effect(s, c) ==
  \/ /\ s.op = "insert"
     /\ trips' = [trips EXCEPT ![c.id] = Inserted(s, c.row)]
     /\ UNCHANGED vehicles
  \/ /\ s.op = "update"
     /\ trips' = [trips EXCEPT ![c.id] = Updated(s, @, c.row)]
     /\ UNCHANGED vehicles
  \/ /\ s.op = "upsert"
     /\ vehicles' = [vehicles EXCEPT ![c.token] = IF @ = Null THEN c.device ELSE @]
     /\ UNCHANGED trips

----------------------------------------------------------------------------
(* A call: look the statement up, run it, keep it if it was new *)

Init ==
  /\ vehicles = [k \in Tokens |-> Null]
  /\ trips = [t \in TripIds |-> Null]
  /\ cache = [k \in {} |-> Null]
  /\ pc = [w \in Workers |-> "idle"]
  /\ call = [w \in Workers |-> Null]
  /\ stmt = [w \in Workers |-> Null]
  /\ fails = 0

\* Under the read lock.  The caller of an update has read the trip; the caller
\* of an insert has read the vehicle the new row refers to.
LookUp(w, c) ==
  /\ pc[w] = "idle"
  /\ c.op = "update" => trips[c.id] # Null
  /\ c.op = "insert" => vehicles[c.row.token] # Null
  /\ call' = [call EXCEPT ![w] = c]
  /\ IF CacheKey(c) \in DOMAIN cache
     THEN /\ stmt' = [stmt EXCEPT ![w] = cache[CacheKey(c)]]
          /\ pc' = [pc EXCEPT ![w] = "cached"]
     ELSE /\ stmt' = [stmt EXCEPT ![w] = Build(c)]
          /\ pc' = [pc EXCEPT ![w] = "built"]
  /\ UNCHANGED <<vehicles, trips, cache, fails>>

Return(w) ==
  /\ pc' = [pc EXCEPT ![w] = "idle"]
  /\ call' = [call EXCEPT ![w] = Null]
  /\ stmt' = [stmt EXCEPT ![w] = Null]

Execute(w) ==
  /\ pc[w] \in {"cached", "built"}
  /\ \/ /\ Refused(stmt[w], call[w])
        /\ Return(w)
        /\ UNCHANGED <<vehicles, trips>>
     \/ /\ ~Refused(stmt[w], call[w])
        /\ Effect(stmt[w], call[w])
        /\ IF pc[w] = "cached" THEN Return(w)
           ELSE pc' = [pc EXCEPT ![w] = "store"] /\ UNCHANGED <<call, stmt>>
  /\ UNCHANGED <<cache, fails>>

\* The connection breaks; what Postgres did of the statement, it did.
ExecuteFails(w) ==
  /\ fails < MaxFails
  /\ fails' = fails + 1
  /\ pc[w] \in {"cached", "built"}
  /\ \/ UNCHANGED <<vehicles, trips>>
     \/ ~Refused(stmt[w], call[w]) /\ Effect(stmt[w], call[w])
  /\ Return(w)
  /\ UNCHANGED cache

\* Under the write lock.
Store(w) ==
  /\ pc[w] = "store"
  /\ cache' = [k \in DOMAIN cache \cup {CacheKey(call[w])} |->
                 IF k = CacheKey(call[w]) THEN stmt[w] ELSE cache[k]]
  /\ Return(w)
  /\ UNCHANGED <<vehicles, trips, fails>>

Next == \E w \in Workers :
  \/ \E c \in Calls : LookUp(w, c)
  \/ Execute(w)
  \/ ExecuteFails(w)
  \/ Store(w)

Spec == Init /\ [][Next]_vars

----------------------------------------------------------------------------

TypeOK ==
  /\ vehicles \in Vehicles
  /\ trips \in Trips
  /\ pc \in [Workers -> {"idle", "cached", "built", "store"}]
  /\ call \in [Workers -> Calls \cup {Null}]
  /\ stmt \in [Workers -> Statement \cup {Null}]
  /\ \A w \in Workers : pc[w] # "idle" => call[w] # Null
  /\ fails \in 0..MaxFails

\* A statement out of the cache is the one the call that finds it would have
\* built: whoever stored it, whatever that call's trip had or lacked.
CacheFits ==
  \A c \in Calls : CacheKey(c) \in DOMAIN cache => cache[CacheKey(c)] = Build(c)

\* Whatever a handler's call does to the tables is what TripsDB says of the
\* values the handler holds: no column of its trip is lost to a default, none
\* it did not list is overwritten, no vehicle's device is replaced.
WritesWhatItHolds ==
  [][\A w \in Workers :
       LET c == call[w] IN
       pc[w] \in {"cached", "built"} /\ pc'[w] # pc[w] =>
         /\ c.op = "insert" => trips' \in {trips, InsertTrip(trips, c.id, c.row)}
         /\ c.op = "update" => trips' \in {trips, UpdateTrip(trips, c.id, c.row)}
         /\ c.op = "upsert" =>
              vehicles' \in {vehicles, UpsertVehicle(vehicles, c.token, c.device)}]_vars

=============================================================================
