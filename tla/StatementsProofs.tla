-------------------------- MODULE StatementsProofs --------------------------
(***************************************************************************)
(* That the statement caches never hand a call another call's statement,   *)
(* and so every write is the one TripsDB states, for any number of         *)
(* handlers, any calls and any failures.                                   *)
(***************************************************************************)
EXTENDS Statements, TLAPS

\* What a worker holds is the statement of its call.
HoldsItsOwn == \A w \in Workers : pc[w] # "idle" => stmt[w] = Build(call[w])

\* The trip of a pending update exists: rows are never deleted.
UpdatesExist ==
  \A w \in Workers :
    pc[w] # "idle" /\ call[w].op = "update" => trips[call[w].id] # Null

Inv == TypeOK /\ CacheFits /\ HoldsItsOwn /\ UpdatesExist

\* A call is known by its operation and, if it is an insert, by the columns
\* that are not zero: the same key means the same statement.
LEMMA SameKeySameStatement ==
  ASSUME NEW c \in Calls, NEW d \in Calls, CacheKey(c) = CacheKey(d)
  PROVE  Build(c) = Build(d)
<1>1. c.op \in {"insert", "update", "upsert"} /\ d.op \in {"insert", "update", "upsert"}
  BY CallsAssumption DEF TripCall, VehicleCall
<1>2. c.op = d.op
  BY <1>1 DEF CacheKey
<1>3. CASE c.op = "insert"
  <2>1. makeCacheKey(Infer, Listed(NonZeroDefaultSet(c.row)))
          = makeCacheKey(Infer, Listed(NonZeroDefaultSet(d.row)))
    BY <1>2, <1>3 DEF CacheKey
  <2>2. /\ NonZeroDefaultSet(c.row) \in SUBSET ToSet(tripColumnsWithDefault)
        /\ NonZeroDefaultSet(d.row) \in SUBSET ToSet(tripColumnsWithDefault)
    BY DEF NonZeroDefaultSet
  <2>3. NonZeroDefaultSet(c.row) = NonZeroDefaultSet(d.row)
    BY <2>1, <2>2, KeysTellApart
  <2> QED
    BY <1>2, <1>3, <2>3 DEF Build
<1>4. CASE c.op # "insert"
  BY <1>1, <1>2, <1>4 DEF Build
<1> QED
  BY <1>3, <1>4

\* An insert that names the columns without default and the ones that are not
\* zero stores the whole row: what it leaves out takes a default equal to the
\* zero value it had.
LEMMA InsertsTheRow ==
  ASSUME NEW c \in Calls, c.op = "insert"
  PROVE  c.row \in Row /\ Inserted(Build(c), c.row) = c.row
<1>1. c.row \in Row
  BY CallsAssumption DEF TripCall, VehicleCall
<1>2. Build(c).cols = {"id", "startTime", "token"} \cup NonZeroDefaultSet(c.row)
  BY DEF Build, InsertColumnSet, tripColumnsWithoutDefault, ToSet
<1>3. ToSet(tripColumnsWithDefault)
        = {"endTime", "key", "bundlr", "startPos", "estimate", "endPos", "dropped"}
  BY DEF ToSet, tripColumnsWithDefault
<1>4. DOMAIN c.row = {"token", "startTime", "endTime", "startPos", "estimate",
                      "endPos", "dropped", "key", "bundlr"}
  BY <1>1 DEF Row
<1>5. ASSUME NEW f \in DOMAIN c.row, f \notin Build(c).cols
      PROVE  c.row[f] = Default(f)
  BY <1>2, <1>3, <1>4, <1>5 DEF NonZeroDefaultSet, Zero, Default
<1>6. c.row = [f \in DOMAIN c.row |-> c.row[f]]
  BY <1>1 DEF Row
<1> QED
  BY <1>1, <1>5, <1>6 DEF Inserted

\* An update that names the whitelisted columns is UpdateTrip.
LEMMA UpdatesFiveColumns ==
  ASSUME NEW c \in Calls, c.op = "update", NEW old \in Row
  PROVE  Updated(Build(c), old, c.row)
           = [old EXCEPT !.key = c.row.key, !.endTime = c.row.endTime,
                         !.bundlr = c.row.bundlr, !.endPos = c.row.endPos,
                         !.estimate = c.row.estimate]
<1>1. Build(c).cols = {"key", "endTime", "bundlr", "endPos", "estimate"}
  BY DEF Build, CompletionCols, ToSet
<1>2. DOMAIN old = {"token", "startTime", "endTime", "startPos", "estimate",
                    "endPos", "dropped", "key", "bundlr"}
  BY DEF Row
<1>3. old = [f \in DOMAIN old |-> old[f]]
  BY DEF Row
<1> QED
  BY <1>1, <1>2, <1>3 DEF Updated

\* What a built statement does to the tables is TripsDB's operator.
LEMMA EffectOfBuilt ==
  ASSUME NEW c \in Calls, vehicles \in Vehicles, trips \in Trips,
         c.op = "update" => trips[c.id] # Null,
         ~Refused(Build(c), c), Effect(Build(c), c)
  PROVE  /\ c.op = "insert" => trips' = InsertTrip(trips, c.id, c.row)
         /\ c.op = "update" => trips' = UpdateTrip(trips, c.id, c.row)
         /\ c.op = "upsert" => vehicles' = UpsertVehicle(vehicles, c.token, c.device)
         /\ vehicles' \in Vehicles /\ trips' \in Trips
         /\ \A t \in TripIds : trips[t] # Null => trips'[t] # Null
<1>1. Build(c).op = c.op
  BY DEF Build
<1>2. c \in TripCall \cup VehicleCall
  BY CallsAssumption
<1>3. CASE c.op = "insert"
  <2>1. c.row \in Row /\ c.id \in TripIds /\ Inserted(Build(c), c.row) = c.row
    BY <1>2, <1>3, InsertsTheRow DEF TripCall, VehicleCall
  <2>2. trips' = [trips EXCEPT ![c.id] = Inserted(Build(c), c.row)] /\ vehicles' = vehicles
    BY <1>1, <1>3 DEF Effect
  <2> QED
    BY <1>3, <2>1, <2>2, NullAssumption DEF InsertTrip, Trips
<1>4. CASE c.op = "update"
  <2>1. c.row \in Row /\ c.id \in TripIds
    BY <1>2, <1>4 DEF TripCall, VehicleCall
  <2>2. trips[c.id] \in Row
    BY <1>4, <2>1 DEF Trips
  <2> DEFINE new == [trips[c.id] EXCEPT !.key = c.row.key, !.endTime = c.row.endTime,
                       !.bundlr = c.row.bundlr, !.endPos = c.row.endPos,
                       !.estimate = c.row.estimate]
  <2>3. Updated(Build(c), trips[c.id], c.row) = new
    BY <1>4, <2>2, UpdatesFiveColumns
  <2>4. new \in Row
    BY <2>1, <2>2 DEF Row
  <2>5. trips' = [trips EXCEPT ![c.id] = new] /\ vehicles' = vehicles
    BY <1>1, <1>4, <2>1, <2>3 DEF Effect, Trips
  <2>6. trips' = UpdateTrip(trips, c.id, c.row)
    BY <2>1, <2>5 DEF UpdateTrip, Trips
  <2> QED
    BY <1>4, <2>1, <2>4, <2>5, <2>6, NullAssumption DEF Trips
<1>5. CASE c.op = "upsert"
  <2>1. c.token \in Tokens /\ c.device \in Devices
    BY <1>2, <1>5 DEF TripCall, VehicleCall
  <2>2. /\ vehicles' = [vehicles EXCEPT ![c.token] = IF @ = Null THEN c.device ELSE @]
        /\ trips' = trips
    BY <1>1, <1>5 DEF Effect
  <2> QED
    BY <1>5, <2>1, <2>2 DEF UpsertVehicle, Vehicles
<1> QED
  BY <1>2, <1>3, <1>4, <1>5 DEF TripCall, VehicleCall

\* A statement that runs, whether or not its answer arrives.
LEMMA RunPreserves ==
  ASSUME Inv, NEW w \in Workers, pc[w] \in {"cached", "built"},
         ~Refused(stmt[w], call[w]), Effect(stmt[w], call[w])
  PROVE  /\ vehicles' \in Vehicles /\ trips' \in Trips
         /\ \A t \in TripIds : trips[t] # Null => trips'[t] # Null
         /\ call[w].op = "insert" => trips' = InsertTrip(trips, call[w].id, call[w].row)
         /\ call[w].op = "update" => trips' = UpdateTrip(trips, call[w].id, call[w].row)
         /\ call[w].op = "upsert" =>
              vehicles' = UpsertVehicle(vehicles, call[w].token, call[w].device)
<1>1. call[w] \in Calls /\ stmt[w] = Build(call[w])
  BY CallsAssumption DEF Inv, TypeOK, HoldsItsOwn
<1>2. vehicles \in Vehicles /\ trips \in Trips
  BY DEF Inv, TypeOK
<1>3. call[w].op = "update" => trips[call[w].id] # Null
  BY DEF Inv, UpdatesExist
<1>4. Effect(Build(call[w]), call[w]) /\ ~Refused(Build(call[w]), call[w])
  BY <1>1
<1> QED
  BY <1>1, <1>2, <1>3, <1>4, EffectOfBuilt

LEMMA BuildType == \A c \in Calls : Build(c) \in Statement
<1> SUFFICES ASSUME NEW c \in Calls PROVE Build(c) \in Statement
  OBVIOUS
<1>1. c.op \in {"insert", "update", "upsert"}
  BY CallsAssumption DEF TripCall, VehicleCall
<1>2. /\ NonZeroDefaultSet(c.row) \subseteq DOMAIN columnName
      /\ ToSet(tripColumnsWithoutDefault) \subseteq DOMAIN columnName
      /\ ToSet(CompletionCols.cols) \subseteq DOMAIN columnName
      /\ ToSet(vehicleAllColumns) \subseteq DOMAIN columnName
  BY DEF NonZeroDefaultSet, tripColumnsWithDefault, tripColumnsWithoutDefault,
         CompletionCols, vehicleAllColumns, columnName, ToSet
<1> QED
  BY <1>1, <1>2 DEF Build, InsertColumnSet, Statement

LEMMA InitInv == Init => Inv
  BY CallsAssumption DEF Init, Inv, TypeOK, CacheFits, HoldsItsOwn, UpdatesExist,
                         Vehicles, Trips

\* A call that looks its statement up finds its own, in the cache or built.
LEMMA LookUpInv ==
  ASSUME Inv, NEW w \in Workers, NEW c \in Calls, LookUp(w, c)
  PROVE  Inv'
<1>1. stmt'[w] = Build(c) /\ call'[w] = c /\ pc'[w] \in {"cached", "built"}
  BY DEF Inv, TypeOK, CacheFits, LookUp
<1>2. TypeOK'
  <2>1. stmt' = [stmt EXCEPT ![w] = Build(c)] /\ Build(c) \in Statement
    BY BuildType DEF Inv, CacheFits, LookUp
  <2> QED
    BY <2>1, CallsAssumption DEF Inv, TypeOK, LookUp
<1>3. CacheFits'
  BY DEF Inv, CacheFits, LookUp
<1>4. \A v \in Workers : v # w => stmt'[v] = stmt[v] /\ call'[v] = call[v] /\ pc'[v] = pc[v]
  BY DEF Inv, TypeOK, LookUp
<1>5. HoldsItsOwn'
  BY <1>1, <1>4 DEF Inv, HoldsItsOwn
<1>6. UpdatesExist'
  BY <1>1, <1>4 DEF Inv, UpdatesExist, LookUp
<1> QED
  BY <1>2, <1>3, <1>5, <1>6 DEF Inv

\* A call that returns leaves the others as they are.
LEMMA ReturnInv ==
  ASSUME Inv, NEW w \in Workers, Return(w),
         vehicles' \in Vehicles, trips' \in Trips, fails' \in 0..MaxFails, CacheFits',
         \A t \in TripIds : trips[t] # Null => trips'[t] # Null
  PROVE  Inv'
<1>1. TypeOK'
  BY DEF Inv, TypeOK, Return
<1>2. HoldsItsOwn'
  BY DEF Inv, TypeOK, HoldsItsOwn, Return
<1>3. UpdatesExist'
  <2> SUFFICES ASSUME NEW v \in Workers, pc'[v] # "idle", call'[v].op = "update"
               PROVE  trips'[call'[v].id] # Null
    BY DEF UpdatesExist
  <2>1. pc'[v] = pc[v] /\ call'[v] = call[v]
    BY DEF Inv, TypeOK, Return
  <2>2. call[v].id \in TripIds
    BY <2>1, CallsAssumption DEF Inv, TypeOK, TripCall, VehicleCall
  <2> QED
    BY <2>1, <2>2 DEF Inv, UpdatesExist
<1> QED
  BY <1>1, <1>2, <1>3 DEF Inv

LEMMA ExecuteInv ==
  ASSUME Inv, NEW w \in Workers, Execute(w)
  PROVE  Inv'
<1>1. CacheFits'
  BY DEF Inv, CacheFits, Execute
<1>2. vehicles' \in Vehicles /\ trips' \in Trips /\ fails' \in 0..MaxFails
      /\ \A t \in TripIds : trips[t] # Null => trips'[t] # Null
  BY RunPreserves DEF Inv, TypeOK, Execute
<1>3. CASE Return(w)
  BY <1>1, <1>2, <1>3, ReturnInv
<1>4. CASE pc' = [pc EXCEPT ![w] = "store"] /\ UNCHANGED <<call, stmt>>
  <2>1. TypeOK' /\ HoldsItsOwn'
    BY <1>2, <1>4 DEF Inv, TypeOK, HoldsItsOwn, Execute
  <2>2. UpdatesExist'
    <3> SUFFICES ASSUME NEW v \in Workers, pc'[v] # "idle", call'[v].op = "update"
                 PROVE  trips'[call'[v].id] # Null
      BY DEF UpdatesExist
    <3>1. pc[v] # "idle" /\ call'[v] = call[v]
      BY <1>4 DEF Inv, TypeOK, Execute
    <3>2. call[v].id \in TripIds
      BY <3>1, CallsAssumption DEF Inv, TypeOK, TripCall, VehicleCall
    <3> QED
      BY <1>2, <3>1, <3>2 DEF Inv, UpdatesExist
  <2> QED
    BY <1>1, <2>1, <2>2 DEF Inv
<1> QED
  BY <1>3, <1>4 DEF Execute

LEMMA ExecuteFailsInv ==
  ASSUME Inv, NEW w \in Workers, ExecuteFails(w)
  PROVE  Inv'
<1>1. CacheFits'
  BY DEF Inv, CacheFits, ExecuteFails
<1>2. vehicles' \in Vehicles /\ trips' \in Trips
      /\ \A t \in TripIds : trips[t] # Null => trips'[t] # Null
  BY RunPreserves DEF Inv, TypeOK, ExecuteFails
<1>3. fails' \in 0..MaxFails
  BY CallsAssumption DEF Inv, TypeOK, ExecuteFails
<1> QED
  BY <1>1, <1>2, <1>3, ReturnInv DEF ExecuteFails

\* A statement is kept under the key of the call it was built for; whoever
\* has that key would have built the same.
LEMMA StoreInv ==
  ASSUME Inv, NEW w \in Workers, Store(w)
  PROVE  Inv'
<1>1. call[w] \in Calls /\ stmt[w] = Build(call[w])
  BY DEF Inv, TypeOK, HoldsItsOwn, Store
<1>2. CacheFits'
  <2> SUFFICES ASSUME NEW c \in Calls, CacheKey(c) \in DOMAIN cache'
               PROVE  cache'[CacheKey(c)] = Build(c)
    BY DEF CacheFits
  <2>1. CASE CacheKey(c) = CacheKey(call[w])
    <3>1. Build(c) = Build(call[w])
      BY <1>1, <2>1, SameKeySameStatement
    <3> QED
      BY <1>1, <2>1, <3>1 DEF Store
  <2>2. CASE CacheKey(c) # CacheKey(call[w])
    BY <2>2 DEF Inv, CacheFits, Store
  <2> QED
    BY <2>1, <2>2
<1>3. vehicles' \in Vehicles /\ trips' \in Trips /\ fails' \in 0..MaxFails
      /\ \A t \in TripIds : trips[t] # Null => trips'[t] # Null
  BY DEF Inv, TypeOK, Store
<1> QED
  BY <1>2, <1>3, ReturnInv DEF Store

LEMMA NextInv == Inv /\ [Next]_vars => Inv'
<1> SUFFICES ASSUME Inv, [Next]_vars PROVE Inv'
  OBVIOUS
<1>1. ASSUME NEW w \in Workers, NEW c \in Calls, LookUp(w, c) PROVE Inv'
  BY <1>1, LookUpInv
<1>2. ASSUME NEW w \in Workers, Execute(w) PROVE Inv'
  BY <1>2, ExecuteInv
<1>3. ASSUME NEW w \in Workers, ExecuteFails(w) PROVE Inv'
  BY <1>3, ExecuteFailsInv
<1>4. ASSUME NEW w \in Workers, Store(w) PROVE Inv'
  BY <1>4, StoreInv
<1>5. CASE UNCHANGED vars
  BY <1>5 DEF vars, Inv, TypeOK, CacheFits, HoldsItsOwn, UpdatesExist
<1> QED
  BY <1>1, <1>2, <1>3, <1>4, <1>5 DEF Next

LEMMA AlwaysInv == Spec => []Inv
BY InitInv, NextInv, PTL DEF Spec

----------------------------------------------------------------------------

\* Workers, calls and statements stay of their types, the tables included.
THEOREM StatementsTypeCorrect == Spec => []TypeOK
BY AlwaysInv, PTL DEF Inv

\* A cached statement is the one each call that finds it would have built.
THEOREM CachesFit == Spec => []CacheFits
BY AlwaysInv, PTL DEF Inv

\* One worker at a time runs a statement, and what it does to the tables is
\* TripsDB's operator applied to what the worker's handler holds.
THEOREM WritesAreWhatTheyHold == Spec => WritesWhatItHolds
<1> DEFINE Writes ==
      \A w \in Workers :
        LET c == call[w] IN
        pc[w] \in {"cached", "built"} /\ pc'[w] # pc[w] =>
          /\ c.op = "insert" => trips' \in {trips, InsertTrip(trips, c.id, c.row)}
          /\ c.op = "update" => trips' \in {trips, UpdateTrip(trips, c.id, c.row)}
          /\ c.op = "upsert" =>
               vehicles' \in {vehicles, UpsertVehicle(vehicles, c.token, c.device)}
<1>1. Inv /\ [Next]_vars => [Writes]_vars
  <2> SUFFICES ASSUME Inv, Next, NEW w \in Workers,
                      pc[w] \in {"cached", "built"}, pc'[w] # pc[w]
               PROVE  LET c == call[w] IN
                      /\ c.op = "insert" => trips' \in {trips, InsertTrip(trips, c.id, c.row)}
                      /\ c.op = "update" => trips' \in {trips, UpdateTrip(trips, c.id, c.row)}
                      /\ c.op = "upsert" =>
                           vehicles' \in {vehicles, UpsertVehicle(vehicles, c.token, c.device)}
    OBVIOUS
  <2>1. Execute(w) \/ ExecuteFails(w)
    BY DEF Next, LookUp, Execute, ExecuteFails, Store, Return, Inv, TypeOK
  <2>2. \/ vehicles' = vehicles /\ trips' = trips
        \/ ~Refused(stmt[w], call[w]) /\ Effect(stmt[w], call[w])
    BY <2>1 DEF Execute, ExecuteFails
  <2> QED
    BY <2>2, RunPreserves
<1> QED
  BY <1>1, AlwaysInv, PTL DEF Spec, WritesWhatItHolds

=============================================================================
