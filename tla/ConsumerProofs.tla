--------------------------- MODULE ConsumerProofs ---------------------------
(***************************************************************************)
(* What Consumer guarantees for any set of workers, vehicles, trips and    *)
(* events, any delivery order, any number of faults and either value of    *)
(* every setting.                                                          *)
(*                                                                         *)
(* The argument rests on one observation: the stores only grow.  A pairing *)
(* is never changed, the start of a row is never rewritten and an uploaded *)
(* item is never withdrawn (StoresGrow).  Hence what a handler has read    *)
(* stays true of the stores while others write (Frame), and the inductive  *)
(* invariant IInv has to be checked for the worker that moves only.        *)
(***************************************************************************)
EXTENDS Consumer, TLAPS

----------------------------------------------------------------------------
(* The inductive invariant *)

\* What a completion knows once it has read its trip.
CompletionOK(w) ==
  /\ seg[w] \in Row
  /\ seg[w].key \in Keys
  /\ seg[w].endTime = ev[w].endTime
  /\ seg[w].endPos = ev[w].endLoc
  /\ trips[ev[w].id] # Null
  /\ seg[w].token = trips[ev[w].id].token
  /\ seg[w].startTime = trips[ev[w].id].startTime
  /\ ~DataFetchEnabled => seg[w].bundlr = Null

\* What the handler of w knows at each of its steps.
HandlerOK(w) ==
  /\ pc[w] = "vehicleEvent" => ev[w] \in VehicleEvents
  /\ pc[w] \in BeginSteps => ev[w] \in SegmentEvents /\ ~ev[w].completed
  /\ pc[w] \in CompleteSteps => ev[w] \in SegmentEvents /\ ev[w].completed
  /\ pc[w] \in {"loadLast", "insert", "estLoad"} => veh[w] \in Tokens
  /\ pc[w] \in {"loadLast", "insert"} => vehicles[veh[w]] = ev[w].device
  /\ pc[w] = "insert" =>
       \E last \in Locations \cup {Null} : seg[w] = NewTrip(ev[w], veh[w], last)
  /\ pc[w] \in CompleteSteps \ {"readTrip"} => CompletionOK(w)
  /\ pc[w] \in {"fetch", "upload"} => DataFetchEnabled
  /\ pc[w] = "update" /\ DataFetchEnabled =>
       /\ seg[w].bundlr = PreparedItem(w)
       /\ BundlrEnabled => seg[w].bundlr \in uploaded

\* The row of trip t as TripFromEvents and BundleMatchesTrip want it.
StartReported(t) ==
  \E e \in SegmentEvents :
    /\ e.id = t /\ ~e.completed
    /\ vehicles[trips[t].token] = e.device
    /\ trips[t].startTime = e.startTime
    /\ trips[t].startPos = e.startLoc

EndReported(t) ==
  trips[t].endTime # Null =>
    \E e \in SegmentEvents :
      /\ e.id = t /\ e.completed
      /\ trips[t].endTime = e.endTime
      /\ trips[t].endPos = e.endLoc

BundleOK(t) ==
  /\ ~DataFetchEnabled => trips[t].bundlr = Null
  /\ trips[t].bundlr # Null =>
       /\ trips[t].bundlr = [key |-> trips[t].key, token |-> trips[t].token,
                            start |-> trips[t].startTime, end |-> trips[t].endTime]
       /\ BundlrEnabled => trips[t].bundlr \in uploaded

RowOK(t) == trips[t] # Null => StartReported(t) /\ EndReported(t) /\ BundleOK(t)

IInv ==
  /\ TypeOK
  /\ \A w \in Workers : HandlerOK(w)
  /\ \A t \in TripIds : RowOK(t)

\* What a step never takes back.
VehiclesKept == \A k \in Tokens : vehicles[k] # Null => vehicles'[k] = vehicles[k]

TripsKept ==
  \A t \in TripIds : trips[t] # Null =>
    /\ trips'[t] # Null
    /\ trips'[t].token = trips[t].token
    /\ trips'[t].startTime = trips[t].startTime
    /\ trips'[t].startPos = trips[t].startPos
    /\ trips'[t].dropped = trips[t].dropped
    /\ trips[t].endTime # Null => trips'[t].endTime # Null

StoresGrow == VehiclesKept /\ TripsKept /\ uploaded \subseteq uploaded'

\* The memory of v's handler is as it was.
Untouched(v) ==
  /\ pc'[v] = pc[v]
  /\ ev'[v] = ev[v]
  /\ veh'[v] = veh[v]
  /\ seg'[v] = seg[v]

----------------------------------------------------------------------------
(* The SQL statements *)

LEMMA LastEndsType ==
  ASSUME NEW table \in Trips, NEW k
  PROVE  LastEnds(table, k) \subseteq Locations \cup {Null}
BY DEF LastEnds, LastCompleted, CompletedOf, Completed, Trips, Row

LEMMA NewTripType ==
  ASSUME NEW e \in SegmentEvents, NEW k \in Tokens, NEW last \in Locations \cup {Null}
  PROVE  NewTrip(e, k, last) \in Row
BY EventsAssumption DEF NewTrip, Row, SegmentEvent

LEMMA InsertTripType ==
  ASSUME NEW table \in Trips, NEW t \in TripIds, NEW row \in Row
  PROVE  /\ InsertTrip(table, t, row) \in Trips
         /\ InsertTrip(table, t, row)[t] = row
         /\ \A u \in TripIds \ {t} : InsertTrip(table, t, row)[u] = table[u]
BY DEF InsertTrip, Trips

\* The five columns are the row's, the other four what they were.
LEMMA UpdateTripEffect ==
  ASSUME NEW table \in Trips, NEW t \in TripIds, NEW row \in Row, table[t] # Null
  PROVE  /\ UpdateTrip(table, t, row) \in Trips
         /\ \A u \in TripIds \ {t} : UpdateTrip(table, t, row)[u] = table[u]
         /\ \E new \in Row :
              /\ UpdateTrip(table, t, row)[t] = new
              /\ new.key = row.key /\ new.endTime = row.endTime
              /\ new.bundlr = row.bundlr /\ new.endPos = row.endPos
              /\ new.estimate = row.estimate
              /\ new.token = table[t].token /\ new.startTime = table[t].startTime
              /\ new.startPos = table[t].startPos /\ new.dropped = table[t].dropped
<1>1. table[t] \in Row
  BY DEF Trips
<1> DEFINE new == [table[t] EXCEPT !.key = row.key, !.endTime = row.endTime,
                     !.bundlr = row.bundlr, !.endPos = row.endPos,
                     !.estimate = row.estimate]
<1>2. new \in Row
  BY <1>1 DEF Row
<1>3. /\ new.key = row.key /\ new.endTime = row.endTime
      /\ new.bundlr = row.bundlr /\ new.endPos = row.endPos
      /\ new.estimate = row.estimate
      /\ new.token = table[t].token /\ new.startTime = table[t].startTime
      /\ new.startPos = table[t].startPos /\ new.dropped = table[t].dropped
  BY <1>1 DEF Row
<1>4. UpdateTrip(table, t, row) = [table EXCEPT ![t] = new]
  BY DEF UpdateTrip, Trips
<1> HIDE DEF new
<1>5. /\ UpdateTrip(table, t, row) \in Trips
      /\ UpdateTrip(table, t, row)[t] = new
      /\ \A u \in TripIds \ {t} : UpdateTrip(table, t, row)[u] = table[u]
  BY <1>2, <1>4 DEF Trips
<1> QED
  BY <1>2, <1>3, <1>5

LEMMA UpsertVehicleEffect ==
  ASSUME NEW table \in Vehicles, NEW k \in Tokens, NEW d \in Devices
  PROVE  /\ UpsertVehicle(table, k, d) \in Vehicles
         /\ \A j \in Tokens : table[j] # Null => UpsertVehicle(table, k, d)[j] = table[j]
BY DEF UpsertVehicle, Vehicles

LEMMA FinishedType ==
  ASSUME NEW e \in SegmentEvents, NEW row \in Row, NEW k \in Keys
  PROVE  /\ Finished(e, row, k) \in Row
         /\ Finished(e, row, k).key = k
         /\ Finished(e, row, k).endTime = e.endTime
         /\ Finished(e, row, k).endPos = e.endLoc
         /\ Finished(e, row, k).token = row.token
         /\ Finished(e, row, k).startTime = row.startTime
         /\ Finished(e, row, k).bundlr = row.bundlr
BY EventsAssumption DEF Finished, LateStart, Row, SegmentEvent

----------------------------------------------------------------------------
(* Frames: what a step leaves alone stays true *)

LEMMA EventTypes ==
  /\ \A e \in SegmentEvents :
       /\ e.id \in TripIds /\ e.device \in Devices /\ e.device # Null
       /\ e.startTime \in Times /\ e.endTime \in Times
       /\ e.completed \in BOOLEAN /\ e # Null
  /\ \A e \in VehicleEvents : e.device \in Devices /\ e.token \in Tokens /\ e # Null
BY EventsAssumption, NullAssumption DEF SegmentEvent, VehicleEvent, Events

LEMMA Frame ==
  ASSUME NEW v \in Workers, HandlerOK(v), StoresGrow, Untouched(v)
  PROVE  HandlerOK(v)'
<1> USE DEF Untouched
<1>1. ASSUME pc[v] \in {"loadLast", "insert"}
      PROVE  vehicles'[veh[v]] = vehicles[veh[v]]
  BY <1>1, EventTypes DEF HandlerOK, BeginSteps, StoresGrow, VehiclesKept
<1>2. ASSUME pc[v] \in CompleteSteps \ {"readTrip"}
      PROVE  CompletionOK(v)'
  <2>1. CompletionOK(v) /\ ev[v].id \in TripIds
    BY <1>2, EventTypes DEF HandlerOK
  <2>2. /\ trips'[ev[v].id] # Null
        /\ trips'[ev[v].id].token = trips[ev[v].id].token
        /\ trips'[ev[v].id].startTime = trips[ev[v].id].startTime
    BY <2>1 DEF CompletionOK, StoresGrow, TripsKept
  <2> QED
    BY <2>1, <2>2 DEF CompletionOK
<1>3. PreparedItem(v)' = PreparedItem(v)
  BY DEF PreparedItem
<1> QED
  BY <1>1, <1>2, <1>3 DEF HandlerOK, StoresGrow

LEMMA RowFrame ==
  ASSUME NEW t \in TripIds, RowOK(t), StoresGrow, TypeOK, trips'[t] = trips[t]
  PROVE  RowOK(t)'
<1> SUFFICES ASSUME trips[t] # Null
             PROVE  StartReported(t)' /\ EndReported(t)' /\ BundleOK(t)'
  BY DEF RowOK
<1>1. PICK e \in SegmentEvents :
        /\ e.id = t /\ ~e.completed
        /\ vehicles[trips[t].token] = e.device
        /\ trips[t].startTime = e.startTime
        /\ trips[t].startPos = e.startLoc
  BY DEF RowOK, StartReported
<1>2. trips[t].token \in Tokens
  BY DEF TypeOK, Trips, Row
<1>3. vehicles'[trips[t].token] = e.device
  BY <1>1, <1>2, EventTypes DEF StoresGrow, VehiclesKept
<1>4. StartReported(t)'
  BY <1>1, <1>3 DEF StartReported
<1>5. EndReported(t)' /\ BundleOK(t)'
  BY DEF RowOK, EndReported, BundleOK, StoresGrow
<1> QED
  BY <1>4, <1>5

\* The types of everything but the stores and the budgets.
MemoryType ==
  /\ pending \subseteq Events
  /\ pc \in [Workers -> Steps]
  /\ ev \in [Workers -> Events \cup {Null}]
  /\ owns \in [Workers -> BOOLEAN]
  /\ veh \in [Workers -> Tokens \cup {Null}]
  /\ seg \in [Workers -> Row \cup {Null}]

StoreType == vehicles \in Vehicles /\ trips \in Trips /\ uploaded \subseteq Item

BudgetType == errors \in 0..MaxErrors /\ crashes \in 0..MaxCrashes

LEMMA TypeParts ==
  /\ TypeOK <=> StoreType /\ MemoryType /\ BudgetType
  /\ TypeOK' <=> StoreType' /\ MemoryType' /\ BudgetType'
BY DEF TypeOK, StoreType, MemoryType, BudgetType

\* Nobody but w moves.
OthersUntouched(w) == \A v \in Workers \ {w} : Untouched(v)

\* What a step of worker w has to be shown to do.
GoodStep(w) ==
  /\ TypeOK'
  /\ StoresGrow
  /\ OthersUntouched(w)
  /\ HandlerOK(w)'
  /\ \A t \in TripIds : trips'[t] = trips[t] \/ RowOK(t)'

LEMMA GoodStepKeeps ==
  ASSUME IInv, NEW w \in Workers, GoodStep(w)
  PROVE  IInv' /\ StoresGrow
<1>1. \A v \in Workers : HandlerOK(v)'
  BY Frame DEF IInv, GoodStep, OthersUntouched
<1>2. \A t \in TripIds : RowOK(t)'
  BY RowFrame DEF IInv, GoodStep
<1> QED
  BY <1>1, <1>2 DEF IInv, GoodStep

LEMMA SameStoresGrow ==
  ASSUME UNCHANGED stores
  PROVE  StoresGrow
BY DEF stores, StoresGrow, VehiclesKept, TripsKept

LEMMA ReturnEffect ==
  ASSUME MemoryType, NEW w \in Workers, NEW handled, Return(w, handled)
  PROVE  MemoryType' /\ OthersUntouched(w) /\ HandlerOK(w)'
<1>1. MemoryType' /\ OthersUntouched(w) /\ pc'[w] = "idle"
  BY DEF MemoryType, Return, Clear, OthersUntouched, Untouched, Steps
<1>2. HandlerOK(w)'
  BY <1>1 DEF HandlerOK, BeginSteps, CompleteSteps
<1> QED
  BY <1>1, <1>2

LEMMA GotoEffect ==
  ASSUME MemoryType, NEW w \in Workers, NEW step \in Steps, Goto(w, step)
  PROVE  /\ pc' \in [Workers -> Steps] /\ pc'[w] = step
         /\ \A v \in Workers \ {w} : pc'[v] = pc[v]
         /\ ev' = ev /\ owns' = owns /\ pending' = pending
BY DEF MemoryType, Goto

----------------------------------------------------------------------------
(* One lemma per step of a handler *)

LEMMA ClaimGood ==
  ASSUME IInv, NEW w \in Workers, NEW e \in Events, Claim(w, e)
  PROVE  GoodStep(w)
<1>1. MemoryType' /\ OthersUntouched(w) /\ pc'[w] = FirstStep(e) /\ ev'[w] = e
  BY DEF IInv, TypeOK, MemoryType, Claim, OthersUntouched, Untouched, FirstStep,
         Steps, BeginSteps, CompleteSteps
<1>2. HandlerOK(w)'
  BY <1>1, EventTypes DEF HandlerOK, FirstStep, BeginSteps, CompleteSteps, Events
<1> QED
  BY <1>1, <1>2, TypeParts, SameStoresGrow
     DEF IInv, GoodStep, Claim, stores, budget, StoreType, BudgetType

\* A handler that returns without having written.
LEMMA QuietReturnGood ==
  ASSUME IInv, NEW w \in Workers, NEW handled, Return(w, handled),
         UNCHANGED stores, BudgetType'
  PROVE  GoodStep(w)
<1>1. MemoryType' /\ OthersUntouched(w) /\ HandlerOK(w)'
  BY ReturnEffect, TypeParts DEF IInv
<1> QED
  BY <1>1, TypeParts, SameStoresGrow DEF IInv, GoodStep, stores, StoreType

\* The two writes of a vehicle: a mint handled, and one whose answer is lost.
LEMMA PairGood ==
  ASSUME IInv, NEW w \in Workers, NEW handled, Return(w, handled),
         pc[w] = "vehicleEvent",
         vehicles' = UpsertVehicle(vehicles, ev[w].token, ev[w].device),
         UNCHANGED <<trips, uploaded>>, BudgetType'
  PROVE  GoodStep(w)
<1>1. MemoryType' /\ OthersUntouched(w) /\ HandlerOK(w)'
  BY ReturnEffect, TypeParts DEF IInv
<1>2. ev[w].token \in Tokens /\ ev[w].device \in Devices
  BY EventTypes DEF IInv, HandlerOK
<1>3. StoreType' /\ StoresGrow
  BY <1>2, UpsertVehicleEffect DEF IInv, TypeOK, StoreType, StoresGrow, VehiclesKept, TripsKept
<1> QED
  BY <1>1, <1>3, TypeParts DEF GoodStep

\* The two inserts of a trip.
LEMMA OpenGood ==
  ASSUME IInv, NEW w \in Workers, NEW handled, Return(w, handled),
         pc[w] = "insert", trips[ev[w].id] = Null,
         trips' = InsertTrip(trips, ev[w].id, seg[w]),
         UNCHANGED <<vehicles, uploaded>>, BudgetType'
  PROVE  GoodStep(w)
<1>1. MemoryType' /\ OthersUntouched(w) /\ HandlerOK(w)'
  BY ReturnEffect, TypeParts DEF IInv
<1>2. PICK e \in SegmentEvents, t \in TripIds, k \in Tokens :
        /\ e = ev[w] /\ t = e.id /\ k = veh[w]
        /\ ~e.completed /\ vehicles[k] = e.device
  BY EventTypes DEF IInv, HandlerOK, BeginSteps
<1>3. PICK last \in Locations \cup {Null} : seg[w] = NewTrip(e, k, last)
  BY <1>2 DEF IInv, HandlerOK
<1> DEFINE row == NewTrip(e, k, last)
<1>4. row \in Row /\ row # Null
  BY NewTripType, NullAssumption
<1>5. /\ trips' \in Trips
      /\ trips'[t] = row
      /\ \A u \in TripIds \ {t} : trips'[u] = trips[u]
  BY <1>2, <1>3, <1>4, InsertTripType DEF IInv, TypeOK
<1>6. StoresGrow
  BY <1>2, <1>5 DEF StoresGrow, VehiclesKept, TripsKept
<1>7. RowOK(t)'
  BY <1>2, <1>5 DEF RowOK, StartReported, EndReported, BundleOK, NewTrip
<1>8. TypeOK'
  BY <1>1, <1>5, TypeParts DEF IInv, StoreType
<1>9. \A u \in TripIds : trips'[u] = trips[u] \/ RowOK(u)'
  BY <1>5, <1>7
<1> QED
  BY <1>1, <1>6, <1>8, <1>9 DEF GoodStep

LEMMA PreparedItemType ==
  ASSUME TypeOK, NEW w \in Workers, HandlerOK(w), pc[w] \in {"upload", "update"}
  PROVE  PreparedItem(w) \in Item
BY EventTypes DEF HandlerOK, CompletionOK, CompleteSteps, PreparedItem, Item, Row

\* The two updates of a trip.
LEMMA CloseGood ==
  ASSUME IInv, NEW w \in Workers, NEW handled, Return(w, handled),
         pc[w] = "update", trips' = UpdateTrip(trips, ev[w].id, seg[w]),
         UNCHANGED <<vehicles, uploaded>>, BudgetType'
  PROVE  GoodStep(w)
<1>1. MemoryType' /\ OthersUntouched(w) /\ HandlerOK(w)'
  BY ReturnEffect, TypeParts DEF IInv
<1>2. PICK e \in SegmentEvents, t \in TripIds :
        e = ev[w] /\ t = e.id /\ e.completed /\ e.endTime \in Times
  BY EventTypes DEF IInv, HandlerOK, CompleteSteps
<1>3. /\ seg[w] \in Row /\ trips[t] # Null
      /\ seg[w].endTime = e.endTime /\ seg[w].endPos = e.endLoc
      /\ seg[w].token = trips[t].token /\ seg[w].startTime = trips[t].startTime
      /\ ~DataFetchEnabled => seg[w].bundlr = Null
      /\ DataFetchEnabled => /\ seg[w].bundlr = PreparedItem(w)
                             /\ BundlrEnabled => seg[w].bundlr \in uploaded
  BY <1>2 DEF IInv, HandlerOK, CompletionOK, CompleteSteps
<1>4. /\ trips' \in Trips
      /\ \A u \in TripIds \ {t} : trips'[u] = trips[u]
  <2>1. trips \in Trips /\ trips' = UpdateTrip(trips, t, seg[w])
    BY <1>2 DEF IInv, TypeOK
  <2>2. seg[w] \in Row /\ trips[t] # Null
    BY <1>3
  <2>3. UpdateTrip(trips, t, seg[w]) \in Trips
    BY <2>1, <2>2, UpdateTripEffect
  <2>4. \A u \in TripIds \ {t} : UpdateTrip(trips, t, seg[w])[u] = trips[u]
    BY <2>1, <2>2, UpdateTripEffect
  <2> QED
    BY <2>1, <2>3, <2>4
<1>5. PICK row \in Row :
        /\ trips'[t] = row
        /\ row.token = trips[t].token /\ row.startTime = trips[t].startTime
        /\ row.startPos = trips[t].startPos /\ row.dropped = trips[t].dropped
        /\ row.endTime = e.endTime /\ row.endPos = e.endLoc
        /\ row.key = seg[w].key /\ row.bundlr = seg[w].bundlr
  BY <1>2, <1>3, UpdateTripEffect DEF IInv, TypeOK
<1>6. row # Null /\ row.endTime # Null
  BY <1>2, <1>5, NullAssumption
<1>7. StoresGrow
  BY <1>4, <1>5, <1>6 DEF StoresGrow, VehiclesKept, TripsKept
<1>8. RowOK(t)'
  <2>1. StartReported(t)'
    BY <1>2, <1>3, <1>5 DEF IInv, RowOK, StartReported
  <2>2. EndReported(t)'
    BY <1>2, <1>5 DEF EndReported
  <2>3. BundleOK(t)'
    BY <1>2, <1>3, <1>5 DEF BundleOK, PreparedItem
  <2> QED
    BY <2>1, <2>2, <2>3 DEF RowOK
<1>9. TypeOK'
  BY <1>1, <1>4, TypeParts DEF IInv, StoreType
<1>10. \A u \in TripIds : trips'[u] = trips[u] \/ RowOK(u)'
  BY <1>4, <1>8
<1> QED
  BY <1>1, <1>7, <1>9, <1>10 DEF GoodStep

LEMMA StoreVehicleGood ==
  ASSUME IInv, NEW w \in Workers, StoreVehicle(w)
  PROVE  GoodStep(w)
<1>1. BudgetType'
  BY DEF IInv, TypeOK, StoreVehicle, budget, BudgetType
<1>2. CASE UNCHANGED vehicles /\ (Succeed(w) \/ ReturnErr(w))
  BY <1>1, <1>2, QuietReturnGood DEF StoreVehicle, stores, Succeed, ReturnErr
<1>3. CASE /\ vehicles' = UpsertVehicle(vehicles, ev[w].token, ev[w].device)
           /\ Succeed(w)
  BY <1>1, <1>3, PairGood DEF StoreVehicle, Succeed
<1> QED
  BY <1>2, <1>3 DEF StoreVehicle

LEMMA ReadVehicleGood ==
  ASSUME IInv, NEW w \in Workers, ReadVehicle(w)
  PROVE  GoodStep(w)
<1>1. BudgetType' /\ UNCHANGED stores
  BY DEF IInv, TypeOK, ReadVehicle, budget, BudgetType
<1>2. CASE ReturnErr(w)
  BY <1>1, <1>2, QuietReturnGood DEF ReturnErr
<1>3. CASE \E k \in VehicleOf(vehicles, ev[w].device) :
             /\ veh' = [veh EXCEPT ![w] = k]
             /\ Goto(w, "loadLast")
             /\ UNCHANGED seg
  <2>1. PICK k \in VehicleOf(vehicles, ev[w].device) :
          veh' = [veh EXCEPT ![w] = k] /\ Goto(w, "loadLast") /\ UNCHANGED seg
    BY <1>3
  <2>2. k \in Tokens /\ vehicles[k] = ev[w].device
    BY <2>1 DEF VehicleOf
  <2>3. "loadLast" \in Steps /\ MemoryType
    BY TypeParts DEF Steps, BeginSteps, IInv
  <2>4. MemoryType' /\ OthersUntouched(w) /\ pc'[w] = "loadLast"
        /\ veh'[w] = k /\ ev' = ev
    BY <2>1, <2>2, <2>3, GotoEffect DEF MemoryType, OthersUntouched, Untouched
  <2>5. ev[w] \in SegmentEvents /\ ~ev[w].completed
    BY DEF ReadVehicle, IInv, HandlerOK, BeginSteps
  <2>6. HandlerOK(w)'
    BY <1>1, <2>2, <2>4, <2>5 DEF HandlerOK, BeginSteps, CompleteSteps, stores
  <2> QED
    BY <1>1, <2>4, <2>6, TypeParts, SameStoresGrow DEF IInv, GoodStep, stores, StoreType
<1> QED
  BY <1>2, <1>3 DEF ReadVehicle

LEMMA LoadLastGood ==
  ASSUME IInv, NEW w \in Workers, LoadLast(w)
  PROVE  GoodStep(w)
<1>1. BudgetType' /\ UNCHANGED stores
  BY DEF IInv, TypeOK, LoadLast, budget, BudgetType
<1>2. /\ ev[w] \in SegmentEvents /\ ~ev[w].completed
      /\ veh[w] \in Tokens /\ vehicles[veh[w]] = ev[w].device
  BY DEF LoadLast, IInv, HandlerOK, BeginSteps
<1>3. PICK last \in Locations \cup {Null} :
        seg' = [seg EXCEPT ![w] = NewTrip(ev[w], veh[w], last)]
  BY LastEndsType DEF LoadLast, IInv, TypeOK
<1>4. NewTrip(ev[w], veh[w], last) \in Row
  BY <1>2, NewTripType
<1>5. "insert" \in Steps /\ MemoryType
  BY TypeParts DEF Steps, BeginSteps, IInv
<1>6. /\ MemoryType' /\ OthersUntouched(w) /\ pc'[w] = "insert"
      /\ ev' = ev /\ veh' = veh /\ seg'[w] = NewTrip(ev[w], veh[w], last)
  BY <1>3, <1>4, <1>5, GotoEffect DEF LoadLast, MemoryType, OthersUntouched, Untouched
<1>7. HandlerOK(w)'
  BY <1>1, <1>2, <1>6 DEF HandlerOK, BeginSteps, CompleteSteps, stores
<1> QED
  BY <1>1, <1>6, <1>7, TypeParts, SameStoresGrow DEF IInv, GoodStep, stores, StoreType

LEMMA InsertGood ==
  ASSUME IInv, NEW w \in Workers, Insert(w)
  PROVE  GoodStep(w)
<1>1. BudgetType'
  BY DEF IInv, TypeOK, Insert, budget, BudgetType
<1>2. CASE ReturnErr(w) /\ UNCHANGED trips
  BY <1>1, <1>2, QuietReturnGood DEF Insert, ReturnErr, stores
<1>3. CASE /\ trips[ev[w].id] = Null
           /\ trips' = InsertTrip(trips, ev[w].id, seg[w])
           /\ Succeed(w)
  BY <1>1, <1>3, OpenGood DEF Insert, Succeed
<1> QED
  BY <1>2, <1>3 DEF Insert

\* A completion that goes on, its stores as they were, to a step at which
\* nothing but CompletionOK is to be known.
LEMMA CompletionGoesOn ==
  ASSUME IInv, NEW w \in Workers, NEW step \in {"estVehicle", "fetch", "upload", "update"},
         Goto(w, step), step = "update" => ~DataFetchEnabled,
         step \in {"fetch", "upload"} => DataFetchEnabled,
         UNCHANGED stores, BudgetType',
         ev[w] \in SegmentEvents, ev[w].completed, CompletionOK(w)',
         veh' \in [Workers -> Tokens \cup {Null}], seg' \in [Workers -> Row \cup {Null}],
         \A v \in Workers \ {w} : veh'[v] = veh[v] /\ seg'[v] = seg[v]
  PROVE  GoodStep(w)
<1>1. step \in Steps /\ MemoryType
  BY TypeParts DEF Steps, CompleteSteps, IInv
<1>2. MemoryType' /\ OthersUntouched(w) /\ pc'[w] = step /\ ev' = ev
  BY <1>1, GotoEffect DEF MemoryType, OthersUntouched, Untouched
<1>3. HandlerOK(w)'
  BY <1>2 DEF HandlerOK, BeginSteps, CompleteSteps
<1> QED
  BY <1>2, <1>3, TypeParts, SameStoresGrow DEF IInv, GoodStep, stores, StoreType

LEMMA AfterEstimateStep ==
  /\ AfterEstimate \in {"fetch", "update"}
  /\ AfterEstimate = "update" => ~DataFetchEnabled
  /\ AfterEstimate = "fetch" => DataFetchEnabled
BY DEF AfterEstimate

LEMMA ReadTripGood ==
  ASSUME IInv, NEW w \in Workers, ReadTrip(w)
  PROVE  GoodStep(w)
<1>1. BudgetType' /\ UNCHANGED stores
  BY DEF IInv, TypeOK, ReadTrip, budget, BudgetType
<1>2. CASE ReturnErr(w)
  BY <1>1, <1>2, QuietReturnGood DEF ReturnErr
<1>3. CASE trips[ev[w].id] # Null /\ ~ReturnErr(w)
  <2> DEFINE row == trips[ev[w].id]
  <2>1. PICK k \in FreshKeys : seg' = [seg EXCEPT ![w] = Finished(ev[w], row, k)]
    BY <1>3 DEF ReadTrip
  <2>2. k \in Keys
    BY DEF FreshKeys
  <2>3. ev[w] \in SegmentEvents /\ ev[w].completed /\ ev[w].id \in TripIds
    BY EventTypes DEF ReadTrip, IInv, HandlerOK, CompleteSteps
  <2>4. row \in Row
    BY <1>3, <2>3 DEF IInv, TypeOK, Trips
  <2>5. /\ Goto(w, "estVehicle") \/ Goto(w, AfterEstimate)
        /\ UNCHANGED <<veh, ev>>
    BY <1>3 DEF ReadTrip, Goto
  <2>6. ~DataFetchEnabled => row.bundlr = Null
    BY <1>3, <2>3 DEF IInv, RowOK, BundleOK
  <2>7. Finished(ev[w], row, k) \in Row
    BY <2>2, <2>3, <2>4, FinishedType
  <2>8. /\ seg' \in [Workers -> Row \cup {Null}]
        /\ seg'[w] = Finished(ev[w], row, k)
        /\ \A v \in Workers \ {w} : seg'[v] = seg[v]
    BY <2>1, <2>7 DEF IInv, TypeOK
  <2>9. CompletionOK(w)'
    BY <1>1, <1>3, <2>2, <2>3, <2>4, <2>5, <2>6, <2>7, <2>8, FinishedType
       DEF CompletionOK, stores
  <2> QED
    BY <1>1, <2>3, <2>5, <2>8, <2>9, CompletionGoesOn, AfterEstimateStep
       DEF IInv, TypeOK
<1> QED
  BY <1>2, <1>3 DEF ReadTrip

\* What a completion knows while it works on its estimate and its archive.
LEMMA CompletionKnows ==
  ASSUME IInv, NEW w \in Workers,
         pc[w] \in {"estVehicle", "estLoad", "fetch", "upload", "update"}
  PROVE  /\ ev[w] \in SegmentEvents /\ ev[w].completed /\ ev[w].id \in TripIds
         /\ CompletionOK(w)
BY EventTypes DEF IInv, HandlerOK, CompleteSteps

LEMMA EstVehicleGood ==
  ASSUME IInv, NEW w \in Workers, EstVehicle(w)
  PROVE  GoodStep(w)
<1>1. BudgetType' /\ UNCHANGED stores /\ UNCHANGED <<seg, ev>>
  BY DEF IInv, TypeOK, EstVehicle, budget, BudgetType, Goto
<1>2. ev[w] \in SegmentEvents /\ ev[w].completed /\ CompletionOK(w)
  BY CompletionKnows DEF EstVehicle
<1>3. CompletionOK(w)'
  BY <1>1, <1>2 DEF CompletionOK, stores
<1>4. CASE Goto(w, AfterEstimate) /\ UNCHANGED veh
  BY <1>1, <1>2, <1>3, <1>4, CompletionGoesOn, AfterEstimateStep DEF IInv, TypeOK
<1>5. CASE \E k \in VehicleOf(vehicles, ev[w].device) :
             veh' = [veh EXCEPT ![w] = k] /\ Goto(w, "estLoad")
  <2>1. PICK k \in Tokens : veh' = [veh EXCEPT ![w] = k] /\ Goto(w, "estLoad")
    BY <1>5 DEF VehicleOf
  <2>2. "estLoad" \in Steps /\ MemoryType
    BY TypeParts DEF Steps, CompleteSteps, IInv
  <2>3. MemoryType' /\ OthersUntouched(w) /\ pc'[w] = "estLoad" /\ veh'[w] = k
    BY <1>1, <2>1, <2>2, GotoEffect DEF MemoryType, OthersUntouched, Untouched
  <2>4. HandlerOK(w)'
    BY <1>1, <1>2, <1>3, <2>3 DEF HandlerOK, BeginSteps, CompleteSteps
  <2> QED
    BY <1>1, <2>3, <2>4, TypeParts, SameStoresGrow DEF IInv, GoodStep, stores, StoreType
<1> QED
  BY <1>4, <1>5 DEF EstVehicle

LEMMA EstLoadGood ==
  ASSUME IInv, NEW w \in Workers, EstLoad(w)
  PROVE  GoodStep(w)
<1>1. BudgetType' /\ UNCHANGED stores /\ UNCHANGED <<veh, ev>> /\ Goto(w, AfterEstimate)
  BY DEF IInv, TypeOK, EstLoad, budget, BudgetType, Goto
<1>2. ev[w] \in SegmentEvents /\ ev[w].completed /\ CompletionOK(w)
  BY CompletionKnows DEF EstLoad
<1>3. PICK p \in Locations \cup {Null} : seg' = [seg EXCEPT ![w].estimate = p]
  <2>1. PICK last \in LastEnds(trips, veh[w]) :
          seg' = [seg EXCEPT ![w].estimate =
                    IF last # Null /\ InterpolateTripStart(last, ev[w].startLoc)
                    THEN last ELSE @]
    BY DEF EstLoad
  <2>2. last \in Locations \cup {Null} /\ seg[w].estimate \in Locations \cup {Null}
    BY <1>2, LastEndsType DEF IInv, TypeOK, CompletionOK, Row
  <2> QED
    BY <2>1, <2>2
<1>4. PICK new \in Row :
        /\ seg' = [seg EXCEPT ![w] = new]
        /\ new.key = seg[w].key /\ new.endTime = seg[w].endTime
        /\ new.endPos = seg[w].endPos /\ new.token = seg[w].token
        /\ new.startTime = seg[w].startTime /\ new.bundlr = seg[w].bundlr
  <2> DEFINE new == [seg[w] EXCEPT !.estimate = p]
  <2>1. new \in Row
    BY <1>2, <1>3 DEF CompletionOK, Row
  <2>2. seg' = [seg EXCEPT ![w] = new]
    BY <1>3 DEF IInv, TypeOK
  <2>3. /\ new.key = seg[w].key /\ new.endTime = seg[w].endTime
        /\ new.endPos = seg[w].endPos /\ new.token = seg[w].token
        /\ new.startTime = seg[w].startTime /\ new.bundlr = seg[w].bundlr
    BY <1>2 DEF CompletionOK, Row
  <2> QED
    BY <2>1, <2>2, <2>3
<1>5. /\ seg' \in [Workers -> Row \cup {Null}] /\ seg'[w] = new
      /\ \A v \in Workers \ {w} : seg'[v] = seg[v]
  BY <1>4 DEF IInv, TypeOK
<1>6. CompletionOK(w)'
  BY <1>1, <1>2, <1>4, <1>5 DEF CompletionOK, stores
<1> QED
  BY <1>1, <1>2, <1>5, <1>6, CompletionGoesOn, AfterEstimateStep DEF IInv, TypeOK

LEMMA FetchGood ==
  ASSUME IInv, NEW w \in Workers, Fetch(w)
  PROVE  GoodStep(w)
<1>1. BudgetType' /\ UNCHANGED stores /\ UNCHANGED <<veh, seg, ev>> /\ Goto(w, "upload")
  BY DEF IInv, TypeOK, Fetch, budget, BudgetType, Goto
<1>2. /\ ev[w] \in SegmentEvents /\ ev[w].completed /\ CompletionOK(w)
      /\ DataFetchEnabled
  BY CompletionKnows DEF Fetch, IInv, HandlerOK
<1>3. CompletionOK(w)'
  BY <1>1, <1>2 DEF CompletionOK, stores
<1> QED
  BY <1>1, <1>2, <1>3, CompletionGoesOn DEF IInv, TypeOK

LEMMA UploadGood ==
  ASSUME IInv, NEW w \in Workers, Upload(w)
  PROVE  GoodStep(w)
<1>1. /\ BudgetType' /\ Goto(w, "update") /\ UNCHANGED <<vehicles, trips, veh, ev>>
      /\ pc[w] = "upload"
  BY DEF IInv, TypeOK, Upload, budget, BudgetType, Goto
<1>2. /\ ev[w] \in SegmentEvents /\ ev[w].completed /\ CompletionOK(w)
      /\ ev[w].id \in TripIds
  BY <1>1, CompletionKnows
<1>3. PreparedItem(w) \in Item
  BY <1>1, PreparedItemType DEF IInv
<1>4. PICK new \in Row :
        /\ seg' = [seg EXCEPT ![w] = new]
        /\ new.bundlr = PreparedItem(w)
        /\ new.key = seg[w].key /\ new.endTime = seg[w].endTime
        /\ new.endPos = seg[w].endPos /\ new.token = seg[w].token
        /\ new.startTime = seg[w].startTime
  <2> DEFINE new == [seg[w] EXCEPT !.bundlr = PreparedItem(w)]
  <2>1. new \in Row
    BY <1>2, <1>3 DEF CompletionOK, Row
  <2>2. seg' = [seg EXCEPT ![w] = new]
    BY DEF IInv, TypeOK, Upload
  <2>3. /\ new.bundlr = PreparedItem(w)
        /\ new.key = seg[w].key /\ new.endTime = seg[w].endTime
        /\ new.endPos = seg[w].endPos /\ new.token = seg[w].token
        /\ new.startTime = seg[w].startTime
    BY <1>2 DEF CompletionOK, Row
  <2> QED
    BY <2>1, <2>2, <2>3
<1>5. /\ seg' \in [Workers -> Row \cup {Null}] /\ seg'[w] = new
      /\ \A v \in Workers \ {w} : seg'[v] = seg[v]
  BY <1>4 DEF IInv, TypeOK
<1>6. uploaded' \subseteq Item /\ uploaded \subseteq uploaded'
      /\ (BundlrEnabled => PreparedItem(w) \in uploaded')
  BY <1>3 DEF IInv, TypeOK, Upload
<1>7. "update" \in Steps /\ MemoryType
  BY TypeParts DEF Steps, CompleteSteps, IInv
<1>8. MemoryType' /\ OthersUntouched(w) /\ pc'[w] = "update"
  BY <1>1, <1>5, <1>7, GotoEffect DEF MemoryType, OthersUntouched, Untouched
<1>9. StoreType' /\ StoresGrow
  BY <1>1, <1>6 DEF IInv, TypeOK, StoreType, StoresGrow, VehiclesKept, TripsKept
<1>10. PreparedItem(w)' = PreparedItem(w)
  BY <1>1, <1>4, <1>5 DEF PreparedItem
<1>11. HandlerOK(w)'
  <2>1. DataFetchEnabled
    BY <1>1 DEF IInv, HandlerOK
  <2>2. CompletionOK(w)'
    BY <1>1, <1>2, <1>4, <1>5, <2>1 DEF CompletionOK
  <2> QED
    BY <1>1, <1>2, <1>4, <1>5, <1>6, <1>8, <1>10, <2>1, <2>2
       DEF HandlerOK, BeginSteps, CompleteSteps
<1> QED
  BY <1>1, <1>8, <1>9, <1>11, TypeParts DEF GoodStep

LEMMA UpdateGood ==
  ASSUME IInv, NEW w \in Workers, Update(w)
  PROVE  GoodStep(w)
<1>1. BudgetType'
  BY DEF IInv, TypeOK, Update, budget, BudgetType
<1> QED
  BY <1>1, CloseGood DEF Update, Succeed

LEMMA FaultGood ==
  ASSUME IInv, NEW w \in Workers,
         CallFails(w) \/ EstimateFails(w) \/ AnswerLost(w) \/ Crash(w)
  PROVE  GoodStep(w)
<1>1. BudgetType'
  BY SettingsAssumption DEF IInv, TypeOK, BudgetType, CallFails, EstimateFails, AnswerLost, Crash
<1>2. CASE CallFails(w)
  BY <1>1, <1>2, QuietReturnGood DEF CallFails, ReturnErr
<1>3. CASE EstimateFails(w)
  <2>1. UNCHANGED <<stores, veh, seg, ev>> /\ Goto(w, AfterEstimate)
    BY <1>3 DEF EstimateFails, Goto
  <2>2. ev[w] \in SegmentEvents /\ ev[w].completed /\ CompletionOK(w)
    BY <1>3, CompletionKnows DEF EstimateFails
  <2>3. CompletionOK(w)'
    BY <2>1, <2>2 DEF CompletionOK, stores
  <2> QED
    BY <1>1, <2>1, <2>2, <2>3, CompletionGoesOn, AfterEstimateStep DEF IInv, TypeOK
<1>4. CASE AnswerLost(w)
  <2>1. Return(w, SkipOnError)
    BY <1>4 DEF AnswerLost, ReturnErr
  <2>2. CASE /\ pc[w] = "vehicleEvent"
             /\ vehicles' = UpsertVehicle(vehicles, ev[w].token, ev[w].device)
             /\ UNCHANGED <<trips, uploaded>>
    BY <1>1, <2>1, <2>2, PairGood
  <2>3. CASE /\ pc[w] = "insert" /\ trips[ev[w].id] = Null
             /\ trips' = InsertTrip(trips, ev[w].id, seg[w])
             /\ UNCHANGED <<vehicles, uploaded>>
    BY <1>1, <2>1, <2>3, OpenGood
  <2>4. CASE /\ pc[w] = "upload"
             /\ uploaded' = uploaded \cup {PreparedItem(w)}
             /\ UNCHANGED <<vehicles, trips>>
    <3>1. MemoryType' /\ OthersUntouched(w) /\ HandlerOK(w)'
      BY <2>1, ReturnEffect, TypeParts DEF IInv
    <3>2. PreparedItem(w) \in Item
      BY <2>4, PreparedItemType DEF IInv
    <3>3. StoreType' /\ StoresGrow
      BY <2>4, <3>2 DEF IInv, TypeOK, StoreType, StoresGrow, VehiclesKept, TripsKept
    <3> QED
      BY <1>1, <2>4, <3>1, <3>3, TypeParts DEF GoodStep
  <2>5. CASE /\ pc[w] = "update"
             /\ trips' = UpdateTrip(trips, ev[w].id, seg[w])
             /\ UNCHANGED <<vehicles, uploaded>>
    BY <1>1, <2>1, <2>5, CloseGood
  <2> QED
    BY <1>4, <2>2, <2>3, <2>4, <2>5 DEF AnswerLost
<1>5. CASE Crash(w)
  <2>1. MemoryType' /\ OthersUntouched(w) /\ pc'[w] = "idle"
    BY <1>5, TypeParts DEF IInv, Crash, Clear, MemoryType, OthersUntouched, Untouched, Steps
  <2>2. HandlerOK(w)'
    BY <2>1 DEF HandlerOK, BeginSteps, CompleteSteps
  <2> QED
    BY <1>1, <1>5, <2>1, <2>2, TypeParts, SameStoresGrow
       DEF IInv, Crash, GoodStep, stores, StoreType
<1> QED
  BY <1>2, <1>3, <1>4, <1>5

----------------------------------------------------------------------------
(* Invariance *)

LEMMA HandlerStepGood ==
  ASSUME IInv, NEW w \in Workers, HandlerStep(w)
  PROVE  GoodStep(w)
BY StoreVehicleGood, ReadVehicleGood, LoadLastGood, InsertGood, ReadTripGood,
   EstVehicleGood, EstLoadGood, FetchGood, UploadGood, UpdateGood DEF HandlerStep

\* No memory and no store changes: the partition only changes hands.
LEMMA NobodyMoves ==
  ASSUME IInv, TypeOK', UNCHANGED <<stores, pc, ev, veh, seg>>
  PROVE  IInv' /\ StoresGrow
<1>1. StoresGrow
  BY SameStoresGrow
<1>2. \A v \in Workers : HandlerOK(v)'
  BY <1>1, Frame DEF IInv, Untouched
<1>3. \A t \in TripIds : RowOK(t)'
  BY <1>1, RowFrame DEF IInv, stores
<1> QED
  BY <1>1, <1>2, <1>3 DEF IInv

LEMMA InitIInv == Init => IInv
<1> SUFFICES ASSUME Init PROVE IInv
  OBVIOUS
<1>1. TypeOK
  BY SettingsAssumption, RegisteredAssumption DEF Init, TypeOK, Trips, Steps
<1>2. \A w \in Workers : HandlerOK(w)
  BY DEF Init, HandlerOK, BeginSteps, CompleteSteps
<1>3. \A t \in TripIds : RowOK(t)
  BY DEF Init, RowOK
<1> QED
  BY <1>1, <1>2, <1>3 DEF IInv

LEMMA NextIInv == IInv /\ [Next]_vars => IInv' /\ StoresGrow
<1> SUFFICES ASSUME IInv, [Next]_vars PROVE IInv' /\ StoresGrow
  OBVIOUS
<1>1. ASSUME NEW w \in Workers, NEW e \in Events, Claim(w, e)
      PROVE  IInv' /\ StoresGrow
  BY <1>1, ClaimGood, GoodStepKeeps
<1>2. ASSUME NEW w \in Workers, HandlerStep(w)
      PROVE  IInv' /\ StoresGrow
  BY <1>2, HandlerStepGood, GoodStepKeeps
<1>3. ASSUME NEW w \in Workers,
             CallFails(w) \/ EstimateFails(w) \/ AnswerLost(w) \/ Crash(w)
      PROVE  IInv' /\ StoresGrow
  BY <1>3, FaultGood, GoodStepKeeps
<1>4. ASSUME NEW e \in Events, Rebalance(e)
      PROVE  IInv' /\ StoresGrow
  <2>1. TypeOK'
    BY <1>4, SettingsAssumption DEF IInv, TypeOK, Rebalance, From, stores
  <2> QED
    BY <1>4, <2>1, NobodyMoves DEF Rebalance
<1>5. CASE UNCHANGED vars
  <2>1. TypeOK'
    BY <1>5 DEF IInv, TypeOK, vars
  <2> QED
    BY <1>5, <2>1, NobodyMoves DEF vars, stores
<1> QED
  BY <1>1, <1>2, <1>3, <1>4, <1>5 DEF Next, Quiet

LEMMA Invariance == Spec => []IInv
BY InitIInv, NextIInv, PTL DEF Spec

----------------------------------------------------------------------------
(* Theorems *)

\* Every variable keeps its type.
THEOREM TypeCorrect == Spec => []TypeOK
<1>1. IInv => TypeOK
  BY DEF IInv
<1> QED
  BY <1>1, Invariance, PTL

\* Every stored trip is made of one reported beginning, filed under the
\* vehicle of the device that reported it, and of one reported completion
\* (consumer.go: BeginSegment, CompleteSegment).
THEOREM TripsAsReported == Spec => []TripFromEvents
<1>1. IInv => TripFromEvents
  BY DEF IInv, RowOK, StartReported, EndReported, TripFromEvents
<1> QED
  BY <1>1, Invariance, PTL

\* The stored key and the stored archive id always come from the same run of
\* CompleteSegment, and the archive has been uploaded if uploads are on.
THEOREM BundlesMatch == Spec => []BundleMatchesTrip
<1>1. IInv => BundleMatchesTrip
  BY DEF IInv, RowOK, BundleOK, BundleMatchesTrip
<1> QED
  BY <1>1, Invariance, PTL

\* No step rewrites the start of a trip or reopens one.
THEOREM TripsNeverReset == Spec => TripNeverReset
<1>1. IInv /\ [Next]_vars => [TripsKept]_trips
  BY NextIInv DEF StoresGrow
<1> QED
  BY <1>1, Invariance, PTL DEF Spec, TripNeverReset, TripsKept

\* No step changes a stored pairing of a device and a token.
THEOREM PairingsPermanent == Spec => PairingPermanent
<1>1. IInv /\ [Next]_vars => [VehiclesKept]_vehicles
  BY NextIInv DEF StoresGrow
<1> QED
  BY <1>1, Invariance, PTL DEF Spec, PairingPermanent, VehiclesKept

----------------------------------------------------------------------------
(* Refinement *)

\* The four writes of the consumer are the four actions of TripLifecycle.
LEMMA StoresFrame ==
  ASSUME UNCHANGED stores
  PROVE  UNCHANGED TL!lifecycleVars
BY DEF stores, TL!lifecycleVars

LEMMA PairRefines ==
  ASSUME TypeOK, NEW k \in Tokens, NEW d \in Devices, ~DeviceTaken(vehicles, k, d),
         vehicles' = UpsertVehicle(vehicles, k, d), UNCHANGED <<trips, uploaded>>
  PROVE  [TL!Next]_(TL!lifecycleVars)
<1>1. CASE vehicles[k] = Null
  <2>1. \A j \in Tokens : vehicles[j] # d
    BY <1>1 DEF DeviceTaken, VehicleOf
  <2>2. TL!Pair(k, d)
    BY <1>1, <2>1 DEF TL!Pair, UpsertVehicle
  <2> QED
    BY <2>2 DEF TL!Next
<1>2. CASE vehicles[k] # Null
  BY <1>2, StoresFrame DEF UpsertVehicle, stores
<1> QED
  BY <1>1, <1>2

LEMMA OpenRefines ==
  ASSUME IInv, IInv', NEW w \in Workers, pc[w] = "insert", trips[ev[w].id] = Null,
         trips' = InsertTrip(trips, ev[w].id, seg[w]), UNCHANGED <<vehicles, uploaded>>
  PROVE  [TL!Next]_(TL!lifecycleVars)
<1>1. PICK e \in SegmentEvents, t \in TripIds, k \in Tokens :
        /\ e = ev[w] /\ t = e.id /\ k = veh[w]
        /\ vehicles[k] = e.device /\ vehicles[k] # Null
  BY EventTypes DEF IInv, HandlerOK, BeginSteps
<1>2. PICK last \in Locations \cup {Null} : seg[w] = NewTrip(e, k, last)
  BY <1>1 DEF IInv, HandlerOK
<1>3. PICK row \in Row : row = NewTrip(e, k, last)
  BY NewTripType
<1>4. /\ row # Null /\ row.endTime = Null /\ row.key = Null /\ row.bundlr = Null
      /\ row.token = k
  BY <1>3, NullAssumption DEF NewTrip
<1>5. trips' = [trips EXCEPT ![t] = row] /\ trips[t] = Null /\ trips \in Trips
  BY <1>1, <1>2, <1>3 DEF InsertTrip, IInv, TypeOK
<1>6. TL!Open(t, k)
  BY <1>1, <1>4, <1>5 DEF TL!Open, StatusOf, Cell, Trips
<1> QED
  BY <1>6 DEF TL!Next

LEMMA PublishRefines ==
  ASSUME NEW a \in Item, BundlrEnabled, uploaded' = uploaded \cup {a},
         UNCHANGED <<vehicles, trips>>
  PROVE  [TL!Next]_(TL!lifecycleVars)
<1>1. TL!Publish(a)
  BY DEF TL!Publish
<1> QED
  BY <1>1 DEF TL!Next

LEMMA CloseRefines ==
  ASSUME IInv, NEW w \in Workers, pc[w] = "update",
         trips' = UpdateTrip(trips, ev[w].id, seg[w]), UNCHANGED <<vehicles, uploaded>>
  PROVE  [TL!Next]_(TL!lifecycleVars)
<1>1. PICK e \in SegmentEvents, t \in TripIds, mem \in Row :
        e = ev[w] /\ t = e.id /\ mem = seg[w] /\ e.endTime \in Times
  BY EventTypes DEF IInv, HandlerOK, CompletionOK, CompleteSteps
<1>2. /\ trips \in Trips /\ trips[t] # Null
      /\ mem.key \in Keys /\ mem.endTime = e.endTime
      /\ mem.token = trips[t].token
      /\ ~DataFetchEnabled => mem.bundlr = Null
      /\ DataFetchEnabled => /\ mem.bundlr = PreparedItem(w)
                             /\ BundlrEnabled => mem.bundlr \in uploaded
  BY <1>1 DEF IInv, TypeOK, HandlerOK, CompletionOK, CompleteSteps
<1>3. trips' = UpdateTrip(trips, t, mem)
  BY <1>1
<1>4. trips' \in Trips /\ \A u \in TripIds \ {t} : trips'[u] = trips[u]
  <2>1. UpdateTrip(trips, t, mem) \in Trips
    BY <1>2, UpdateTripEffect
  <2>2. \A u \in TripIds \ {t} : UpdateTrip(trips, t, mem)[u] = trips[u]
    BY <1>2, UpdateTripEffect
  <2> QED
    BY <1>3, <2>1, <2>2
<1>5. PICK row \in Row :
        /\ trips'[t] = row
        /\ row.token = trips[t].token /\ row.endTime = e.endTime
        /\ row.key = mem.key /\ row.bundlr = mem.bundlr
  BY <1>2, <1>3, UpdateTripEffect
<1>6. row # Null /\ row.endTime # Null
  BY <1>1, <1>5, NullAssumption
<1>7. ~DataFetchEnabled => trips[t].bundlr = Null
  BY <1>2 DEF IInv, RowOK, BundleOK
<1>8. DataFetchEnabled =>
        /\ mem.bundlr \in Item
        /\ mem.bundlr.key = mem.key /\ mem.bundlr.token = trips[t].token
  BY <1>1, <1>2, PreparedItemType DEF PreparedItem, IInv
<1> DEFINE Status(tab) == [u \in TripIds |-> StatusOf(tab[u])]
           Col(tab, c) == [u \in TripIds |-> Cell(tab[u], c)]
<1>9. /\ Status(trips)[t] # "none"
      /\ Status(trips') = [Status(trips) EXCEPT ![t] = "closed"]
  BY <1>2, <1>4, <1>5, <1>6 DEF StatusOf
<1>10. /\ Col(trips', "key") = [Col(trips, "key") EXCEPT ![t] = mem.key]
       /\ Col(trips', "bundlr") = [Col(trips, "bundlr") EXCEPT ![t] = mem.bundlr]
       /\ Col(trips', "token") = Col(trips, "token")
       /\ Col(trips, "token")[t] = trips[t].token
       /\ ~DataFetchEnabled => Col(trips', "bundlr") = Col(trips, "bundlr")
  BY <1>2, <1>4, <1>5, <1>6, <1>7 DEF Cell
<1>11. TL!Close(t, mem.key)
  BY <1>2, <1>8, <1>9, <1>10 DEF TL!Close
<1> QED
  BY <1>2, <1>11 DEF TL!Next

LEMMA StepRefines ==
  IInv /\ IInv' /\ [Next]_vars => [TL!Next]_(TL!lifecycleVars)
<1> SUFFICES ASSUME IInv, IInv', [Next]_vars, ~UNCHANGED stores
             PROVE  [TL!Next]_(TL!lifecycleVars)
  BY StoresFrame
<1>1. PICK w \in Workers :
        \/ StoreVehicle(w) \/ Insert(w) \/ Upload(w) \/ Update(w) \/ AnswerLost(w)
  BY DEF Next, HandlerStep, Claim, ReadVehicle, LoadLast, ReadTrip, EstVehicle,
         EstLoad, Fetch, CallFails, EstimateFails, Crash, Rebalance, Quiet, vars, stores
<1>2. CASE /\ pc[w] = "vehicleEvent"
           /\ ~DeviceTaken(vehicles, ev[w].token, ev[w].device)
           /\ vehicles' = UpsertVehicle(vehicles, ev[w].token, ev[w].device)
           /\ UNCHANGED <<trips, uploaded>>
  <2>1. ev[w].token \in Tokens /\ ev[w].device \in Devices
    BY <1>2, EventTypes DEF IInv, HandlerOK
  <2> QED
    BY <1>2, <2>1, PairRefines DEF IInv
<1>3. CASE /\ pc[w] = "insert" /\ trips[ev[w].id] = Null
           /\ trips' = InsertTrip(trips, ev[w].id, seg[w])
           /\ UNCHANGED <<vehicles, uploaded>>
  BY <1>3, OpenRefines
<1>4. CASE /\ pc[w] = "upload" /\ BundlrEnabled
           /\ uploaded' = uploaded \cup {PreparedItem(w)}
           /\ UNCHANGED <<vehicles, trips>>
  <2>1. PreparedItem(w) \in Item
    BY <1>4, PreparedItemType DEF IInv
  <2>2. PICK a \in Item : a = PreparedItem(w)
    BY <2>1
  <2> QED
    BY <1>4, <2>2, PublishRefines
<1>5. CASE /\ pc[w] = "update"
           /\ trips' = UpdateTrip(trips, ev[w].id, seg[w])
           /\ UNCHANGED <<vehicles, uploaded>>
  BY <1>5, CloseRefines
<1>6. StoreVehicle(w) => \/ UNCHANGED stores
                         \/ /\ pc[w] = "vehicleEvent"
                            /\ ~DeviceTaken(vehicles, ev[w].token, ev[w].device)
                            /\ vehicles' = UpsertVehicle(vehicles, ev[w].token, ev[w].device)
                            /\ UNCHANGED <<trips, uploaded>>
  BY DEF StoreVehicle, stores
<1>7. Insert(w) => \/ UNCHANGED stores
                   \/ /\ pc[w] = "insert" /\ trips[ev[w].id] = Null
                      /\ trips' = InsertTrip(trips, ev[w].id, seg[w])
                      /\ UNCHANGED <<vehicles, uploaded>>
  BY DEF Insert, stores
<1>8. Upload(w) => \/ UNCHANGED stores
                   \/ /\ pc[w] = "upload" /\ BundlrEnabled
                      /\ uploaded' = uploaded \cup {PreparedItem(w)}
                      /\ UNCHANGED <<vehicles, trips>>
  BY DEF Upload, stores
<1>9. Update(w) => /\ pc[w] = "update"
                   /\ trips' = UpdateTrip(trips, ev[w].id, seg[w])
                   /\ UNCHANGED <<vehicles, uploaded>>
  BY DEF Update
<1> QED
  BY <1>1, <1>2, <1>3, <1>4, <1>5, <1>6, <1>7, <1>8, <1>9 DEF AnswerLost

\* The consumer implements TripLifecycle: vehicles pair once, trips open once
\* and close under an archive that fits, whatever its handlers do to each other.
THEOREM ImplementsTripLifecycle == Spec => ImplementsLifecycle
<1>1. Init => TL!Init
  BY DEF Init, TL!Init, StatusOf, Cell
<1>2. IInv /\ [Next]_vars => IInv'
  BY NextIInv
<1> QED
  BY <1>1, <1>2, StepRefines, Invariance, PTL DEF Spec, ImplementsLifecycle, TL!Spec

----------------------------------------------------------------------------
(* The histories the API reads *)

LEMMA SameTripsSameHistory ==
  ASSUME NEW k \in Tokens, UNCHANGED trips
  PROVE  UNCHANGED TH(k)!historyVars
BY DEF TH!historyVars, RowsOf

LEMMA OpenFeeds ==
  ASSUME NEW t \in TripIds, NEW row \in Row, NEW k \in Tokens,
         trips \in Trips, trips[t] = Null, row.endTime = Null,
         trips' = InsertTrip(trips, t, row)
  PROVE  TH(k)!HistoryNext \/ UNCHANGED TH(k)!historyVars
<1>1. /\ trips'[t] = row /\ row # Null
      /\ \A u \in TripIds \ {t} : trips'[u] = trips[u]
  BY InsertTripType, NullAssumption
<1> DEFINE End(tab, rows) == [u \in TripIds |-> IF u \in rows THEN tab[u].endTime ELSE Null]
<1>2. CASE row.token = k
  <2>1. t \notin RowsOf(k) /\ RowsOf(k)' = RowsOf(k) \cup {t}
    BY <1>1, <1>2 DEF RowsOf
  <2>2. End(trips', RowsOf(k)') = End(trips, RowsOf(k))
    BY <1>1, <2>1
  <2>3. TH(k)!Begin(t)
    BY <2>1, <2>2 DEF TH!Begin
  <2> QED
    BY <2>3 DEF TH!HistoryNext
<1>3. CASE row.token # k
  <2>1. RowsOf(k)' = RowsOf(k) /\ t \notin RowsOf(k)
    BY <1>1, <1>3 DEF RowsOf
  <2>2. End(trips', RowsOf(k)') = End(trips, RowsOf(k))
    BY <1>1, <2>1
  <2> QED
    BY <2>1, <2>2 DEF TH!historyVars
<1> QED
  BY <1>2, <1>3

LEMMA CloseFeeds ==
  ASSUME NEW t \in TripIds, NEW row \in Row, NEW k \in Tokens,
         trips \in Trips, trips[t] # Null, row.endTime \in Times,
         trips' = UpdateTrip(trips, t, row)
  PROVE  TH(k)!HistoryNext \/ UNCHANGED TH(k)!historyVars
<1>1. PICK new \in Row :
        /\ trips'[t] = new /\ new.endTime = row.endTime /\ new.token = trips[t].token
  BY UpdateTripEffect
<1>2. \A u \in TripIds \ {t} : trips'[u] = trips[u]
  BY UpdateTripEffect
<1>3. RowsOf(k)' = RowsOf(k)
  BY <1>1, <1>2, NullAssumption DEF RowsOf
<1> DEFINE End(tab, rows) == [u \in TripIds |-> IF u \in rows THEN tab[u].endTime ELSE Null]
<1>4. CASE t \in RowsOf(k)
  <2>1. End(trips', RowsOf(k)') = [End(trips, RowsOf(k)) EXCEPT ![t] = row.endTime]
    BY <1>1, <1>2, <1>3, <1>4
  <2>2. TH(k)!Complete(t, row.endTime)
    BY <1>3, <1>4, <2>1 DEF TH!Complete
  <2> QED
    BY <2>2 DEF TH!HistoryNext
<1>5. CASE t \notin RowsOf(k)
  <2>1. End(trips', RowsOf(k)') = End(trips, RowsOf(k))
    BY <1>2, <1>3, <1>5
  <2> QED
    BY <1>3, <2>1 DEF TH!historyVars
<1> QED
  BY <1>4, <1>5

\* Only the two inserts and the two updates touch the trips table.
LEMMA TripWrites ==
  ASSUME IInv, [Next]_vars, trips' # trips
  PROVE  \E t \in TripIds, row \in Row :
           \/ /\ trips[t] = Null /\ row.endTime = Null
              /\ trips' = InsertTrip(trips, t, row)
           \/ /\ trips[t] # Null /\ row.endTime \in Times
              /\ trips' = UpdateTrip(trips, t, row)
<1>1. PICK w \in Workers : Insert(w) \/ Update(w) \/ AnswerLost(w)
  BY DEF Next, HandlerStep, StoreVehicle, Claim, ReadVehicle, LoadLast, ReadTrip,
         EstVehicle, EstLoad, Fetch, Upload, CallFails, EstimateFails, Crash,
         Rebalance, Quiet, vars, stores
<1>2. CASE /\ pc[w] = "insert" /\ trips[ev[w].id] = Null
           /\ trips' = InsertTrip(trips, ev[w].id, seg[w])
  <2>1. PICK e \in SegmentEvents, k \in Tokens : e = ev[w] /\ k = veh[w]
    BY <1>2 DEF IInv, HandlerOK, BeginSteps
  <2>2. PICK last \in Locations \cup {Null} : seg[w] = NewTrip(e, k, last)
    BY <1>2, <2>1 DEF IInv, HandlerOK
  <2>3. PICK row \in Row : row = seg[w]
    BY <2>2, NewTripType
  <2>4. row.endTime = Null /\ e.id \in TripIds
    BY <2>2, <2>3, EventTypes DEF NewTrip
  <2> QED
    BY <1>2, <2>1, <2>3, <2>4
<1>3. CASE pc[w] = "update" /\ trips' = UpdateTrip(trips, ev[w].id, seg[w])
  <2>1. CompletionOK(w) /\ ev[w] \in SegmentEvents
    BY <1>3 DEF IInv, HandlerOK, CompleteSteps
  <2>2. PICK t \in TripIds, row \in Row : t = ev[w].id /\ row = seg[w]
    BY <2>1, EventTypes DEF CompletionOK
  <2>3. trips[t] # Null /\ row.endTime \in Times
    BY <2>1, <2>2, EventTypes DEF CompletionOK
  <2> QED
    BY <1>3, <2>2, <2>3
<1> QED
  BY <1>1, <1>2, <1>3 DEF Insert, Update, AnswerLost

\* Under every vehicle the consumer's writes are steps of TripHistory: what
\* TripsAPI assumes of the table it pages through is what the consumer does.
THEOREM FeedsEveryHistory == Spec => FeedsHistories
<1> DEFINE Step == \A k \in Tokens : TH(k)!HistoryNext \/ UNCHANGED TH(k)!historyVars
<1>1. Init => \A k \in Tokens : TH(k)!HistoryInit
  BY DEF Init, TH!HistoryInit, RowsOf
<1>2. IInv /\ [Next]_vars => [Step]_trips
  BY TripWrites, OpenFeeds, CloseFeeds DEF IInv, TypeOK
<1> QED
  BY <1>1, <1>2, Invariance, PTL DEF Spec, FeedsHistories

=============================================================================
