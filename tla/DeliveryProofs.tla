--------------------------- MODULE DeliveryProofs ---------------------------
(***************************************************************************)
(* What Consumer guarantees about messages that are delivered again: that  *)
(* none is lost, who pays for an archive nobody can open, and under which  *)
(* token the trips of a device are filed.                                  *)
(*                                                                         *)
(* The last two need more than ConsumerProofs knows of a run: whether its  *)
(* worker still owns the event (OwnedOnce), and which trip an upload was   *)
(* made for (ItemsOfTrips).                                                *)
(***************************************************************************)
EXTENDS ConsumerProofs, FiniteSetTheorems

----------------------------------------------------------------------------
(* Ownership *)

\* An event is handled by its owner once at a time, and is not consumed yet.
OwnedOnce ==
  /\ \A w \in Workers : owns[w] => ev[w] \in pending
  /\ \A v, w \in Workers : owns[v] /\ owns[w] /\ ev[v] = ev[w] => v = w

\* As far as deliveries can tell, there are five kinds of steps.
SameRuns == UNCHANGED <<pending, ev, owns>>

LEMMA DeliveryKinds ==
  ASSUME [Next]_vars
  PROVE  \/ SameRuns
         \/ \E w \in Workers, e \in Events : Claim(w, e)
         \/ \E w \in Workers, handled \in BOOLEAN : Return(w, handled)
         \/ \E w \in Workers : Crash(w)
         \/ \E e \in Events : Rebalance(e)
<1>1. CASE \E w \in Workers : HandlerStep(w)
  BY <1>1, SettingsAssumption
     DEF HandlerStep, StoreVehicle, ReadVehicle, LoadLast, Insert, ReadTrip, EstVehicle,
         EstLoad, Fetch, Upload, Update, Succeed, ReturnErr, Goto, SameRuns
<1>2. CASE \E w \in Workers : CallFails(w) \/ EstimateFails(w) \/ AnswerLost(w)
  BY <1>2, SettingsAssumption
     DEF CallFails, EstimateFails, AnswerLost, ReturnErr, Goto, SameRuns
<1>3. CASE Quiet \/ UNCHANGED vars
  BY <1>3 DEF Quiet, vars, SameRuns
<1> QED
  BY <1>1, <1>2, <1>3 DEF Next

\* What each kind does to the run of every worker.
LEMMA ClaimRuns ==
  ASSUME TypeOK, NEW w \in Workers, NEW e \in Events, Claim(w, e)
  PROVE  /\ ev'[w] = e /\ owns'[w] /\ pending' = pending /\ e \in pending
         /\ \A v \in Workers : ~(owns[v] /\ ev[v] = e)
         /\ \A v \in Workers \ {w} : ev'[v] = ev[v] /\ owns'[v] = owns[v]
BY DEF TypeOK, Claim, Claimed

LEMMA ClearRuns ==
  ASSUME TypeOK, NEW w \in Workers, Clear(w)
  PROVE  /\ ev'[w] = Null /\ ~owns'[w]
         /\ \A v \in Workers \ {w} : ev'[v] = ev[v] /\ owns'[v] = owns[v]
BY DEF TypeOK, Clear

LEMMA RebalanceRuns ==
  ASSUME TypeOK, NEW e \in Events, Rebalance(e)
  PROVE  /\ ev' = ev /\ pending \subseteq pending' /\ From(e) \subseteq pending'
         /\ pending' \subseteq pending \cup From(e)
         /\ crashes' = crashes + 1 /\ errors' = errors
         /\ \A v \in Workers : owns'[v] <=> owns[v] /\ ev[v] \notin From(e)
BY DEF TypeOK, Rebalance

LEMMA NextOwnedOnce ==
  ASSUME TypeOK, OwnedOnce, [Next]_vars
  PROVE  OwnedOnce'
<1>1. CASE SameRuns
  BY <1>1 DEF SameRuns, OwnedOnce
<1>2. ASSUME NEW w \in Workers, NEW e \in Events, Claim(w, e)
      PROVE  OwnedOnce'
  BY <1>2, ClaimRuns DEF OwnedOnce
<1>3. ASSUME NEW w \in Workers, NEW handled, Return(w, handled)
      PROVE  OwnedOnce'
  <2>1. /\ ~owns'[w]
        /\ \A v \in Workers \ {w} : ev'[v] = ev[v] /\ owns'[v] = owns[v]
    BY <1>3, ClearRuns DEF Return
  <2>2. pending' = pending \/ (owns[w] /\ pending' = pending \ {ev[w]})
    BY <1>3 DEF Return
  <2> QED
    BY <2>1, <2>2 DEF OwnedOnce
<1>4. ASSUME NEW w \in Workers, Crash(w)
      PROVE  OwnedOnce'
  BY <1>4, ClearRuns DEF OwnedOnce, Crash
<1>5. ASSUME NEW e \in Events, Rebalance(e)
      PROVE  OwnedOnce'
  BY <1>5, RebalanceRuns DEF OwnedOnce
<1> QED
  BY <1>1, <1>2, <1>3, <1>4, <1>5, DeliveryKinds

----------------------------------------------------------------------------
(* Consumed and stored *)

LEMMA TopicsApart == \A e \in SegmentEvents : e \notin VehicleEvents
<1> SUFFICES ASSUME NEW e \in SegmentEvent, e \in VehicleEvent PROVE FALSE
  BY EventsAssumption
<1>1. "id" \in DOMAIN e
  BY DEF SegmentEvent
<1>2. DOMAIN e = {"type", "device", "token"}
  BY DEF VehicleEvent
<1> QED
  BY <1>1, <1>2

LEMMA InEffectStays ==
  ASSUME IInv, [Next]_vars, NEW x, InEffect(x)
  PROVE  InEffect(x)'
BY NextIInv, EventTypes DEF InEffect, Completed, StoresGrow, TripsKept, VehiclesKept

\* Whether or not the row was there before.
LEMMA InsertStores ==
  ASSUME IInv, NEW w \in Workers, Insert(w)
  PROVE  /\ ev[w] \in SegmentEvents /\ ~ev[w].completed
         /\ trips'[ev[w].id] # Null
<1>1. PICK e \in SegmentEvents, k \in Tokens :
        /\ e = ev[w] /\ k = veh[w] /\ e.id \in TripIds /\ ~e.completed
  BY EventTypes DEF Insert, BeginSteps, IInv, HandlerOK
<1>2. CASE trips[e.id] # Null
  BY <1>1, <1>2 DEF Insert
<1>3. CASE trips[e.id] = Null
  <2>1. seg[w] \in Row
    BY <1>1, NewTripType DEF Insert, IInv, HandlerOK
  <2> QED
    BY <1>1, <1>3, <2>1, InsertTripType, NullAssumption DEF Insert, IInv, TypeOK
<1> QED
  BY <1>1, <1>2, <1>3

LEMMA UpdateStores ==
  ASSUME IInv, NEW w \in Workers, Update(w)
  PROVE  /\ ev[w] \in SegmentEvents /\ ev[w].completed
         /\ trips'[ev[w].id] # Null /\ Completed(trips', ev[w].id)
<1>1. PICK e \in SegmentEvents :
        e = ev[w] /\ e.completed /\ e.id \in TripIds /\ CompletionOK(w)
  BY CompletionKnows DEF Update
<1>2. /\ seg[w] \in Row /\ trips[e.id] # Null
      /\ seg[w].endTime = e.endTime /\ e.endTime # Null
  BY <1>1, EventTypes, TimesAssumption, NullAssumption DEF CompletionOK
<1>3. PICK new \in Row : trips'[e.id] = new /\ new.endTime = e.endTime
  BY <1>1, <1>2, UpdateTripEffect DEF Update, IInv, TypeOK
<1>4. new # Null
  BY NullAssumption
<1> QED
  BY <1>1, <1>2, <1>3, <1>4 DEF Completed

\* Only a handler that has done what its message asks for takes it from the
\* queue; one that goes wrong leaves it there.
LEMMA HandlerConsumes ==
  ASSUME IInv, ~SkipOnError, NEW w \in Workers, HandlerStep(w)
  PROVE  \/ pending' = pending
         \/ \E x : pending' = pending \ {x} /\ InEffect(x)'
<1>1. CASE StoreVehicle(w) /\ pending' # pending
  <2>1. PICK x \in VehicleEvents : x = ev[w] /\ x.token \in Tokens /\ x.device \in Devices
    BY <1>1, EventTypes DEF StoreVehicle, IInv, HandlerOK
  <2>2. pending' = pending \ {x}
    BY <1>1, <2>1 DEF StoreVehicle, Succeed, ReturnErr, Return
  <2>3. x.type = "mint" => vehicles'[x.token] # Null
    <3> SUFFICES ASSUME x.type = "mint" PROVE vehicles'[x.token] # Null
      OBVIOUS
    <3>1. vehicles' = UpsertVehicle(vehicles, x.token, x.device)
      BY <1>1, <2>1 DEF StoreVehicle, ReturnErr, Return
    <3>2. x.device # Null
      BY <2>1, NullAssumption
    <3> QED
      BY <2>1, <3>1, <3>2 DEF UpsertVehicle, IInv, TypeOK, Vehicles
  <2>4. x \notin SegmentEvents
    BY <2>1, TopicsApart
  <2> QED
    BY <2>2, <2>3, <2>4 DEF InEffect
<1>2. CASE ReadVehicle(w) \/ ReadTrip(w)
  BY <1>2 DEF ReadVehicle, ReadTrip, ReturnErr, Return, Goto
<1>3. CASE Insert(w) /\ pending' # pending
  <2>1. PICK x \in SegmentEvents :
          x = ev[w] /\ ~x.completed /\ trips'[x.id] # Null
    BY <1>3, InsertStores
  <2>2. pending' = pending \ {x}
    BY <1>3, <2>1 DEF Insert, Succeed, ReturnErr, Return
  <2> QED
    BY <2>1, <2>2, TopicsApart DEF InEffect
<1>4. CASE Update(w) /\ pending' # pending
  <2>1. PICK x \in SegmentEvents :
          x = ev[w] /\ trips'[x.id] # Null /\ Completed(trips', x.id)
    BY <1>4, UpdateStores
  <2>2. pending' = pending \ {x}
    BY <1>4, <2>1 DEF Update, Succeed, Return
  <2> QED
    BY <2>1, <2>2, TopicsApart DEF InEffect, Completed
<1>5. CASE LoadLast(w) \/ EstVehicle(w) \/ EstLoad(w) \/ Fetch(w) \/ Upload(w)
  BY <1>5 DEF LoadLast, EstVehicle, EstLoad, Fetch, Upload, Goto
<1> QED
  BY <1>1, <1>2, <1>3, <1>4, <1>5 DEF HandlerStep

LEMMA NextConsumes ==
  ASSUME IInv, ConsumedIsStored, [Next]_vars
  PROVE  ConsumedIsStored'
<1> SUFFICES ASSUME ~SkipOnError PROVE \A x \in Events \ pending' : InEffect(x)'
  BY DEF ConsumedIsStored
<1>1. \A x \in Events \ pending : InEffect(x)'
  BY InEffectStays DEF ConsumedIsStored
<1>2. CASE pending' = pending
  BY <1>1, <1>2
<1>3. CASE \E w \in Workers : HandlerStep(w)
  BY <1>1, <1>3, HandlerConsumes
<1>4. CASE \E e \in Events : Rebalance(e)
  BY <1>1, <1>4, RebalanceRuns DEF IInv
<1> QED
  BY <1>2, <1>3, <1>4
     DEF Next, Claim, CallFails, EstimateFails, AnswerLost, Crash, Quiet, vars,
         ReturnErr, Return, Goto

\* Where a failed message is delivered again, whatever has been consumed is
\* stored: nothing is lost to a beginning ahead of its mint, to an
\* end ahead of its beginning, or to a fault.
THEOREM ConsumedAreStored == Spec => []ConsumedIsStored
<1>1. Init => ConsumedIsStored
  BY DEF Init, ConsumedIsStored
<1>2. IInv /\ ConsumedIsStored /\ [Next]_vars => ConsumedIsStored'
  BY NextConsumes
<1> QED
  BY <1>1, <1>2, Invariance, PTL DEF Spec

----------------------------------------------------------------------------
(* One token per device *)

\* The UNIQUE constraint on user_device_id.
PairedOnce == \A j, k \in Tokens : vehicles[j] = vehicles[k] => vehicles[k] = Null \/ j = k

LEMMA UpsertPairsOnce ==
  ASSUME PairedOnce, vehicles \in Vehicles, NEW k \in Tokens, NEW d \in Devices,
         ~DeviceTaken(vehicles, k, d), vehicles' = UpsertVehicle(vehicles, k, d)
  PROVE  PairedOnce'
<1>1. CASE vehicles[k] # Null
  BY <1>1 DEF UpsertVehicle, PairedOnce
<1>2. CASE vehicles[k] = Null
  <2>1. \A j \in Tokens : vehicles[j] # d
    BY <1>2 DEF DeviceTaken, VehicleOf
  <2>2. vehicles' = [vehicles EXCEPT ![k] = d]
    BY <1>2 DEF UpsertVehicle
  <2> QED
    BY <2>1, <2>2 DEF PairedOnce, Vehicles
<1> QED
  BY <1>1, <1>2

LEMMA NextPairedOnce ==
  ASSUME IInv, PairedOnce, [Next]_vars
  PROVE  PairedOnce'
<1>1. CASE UNCHANGED vehicles
  BY <1>1 DEF PairedOnce
<1>2. CASE vehicles' # vehicles
  <2>1. PICK w \in Workers : StoreVehicle(w) \/ AnswerLost(w)
    BY <1>2 DEF Next, HandlerStep, Claim, ReadVehicle, LoadLast, Insert, ReadTrip,
       EstVehicle, EstLoad, Fetch, Upload, Update, CallFails, EstimateFails, Crash,
       Rebalance, Quiet, vars, stores
  <2>2. /\ pc[w] = "vehicleEvent"
        /\ ~DeviceTaken(vehicles, ev[w].token, ev[w].device)
        /\ vehicles' = UpsertVehicle(vehicles, ev[w].token, ev[w].device)
    BY <1>2, <2>1 DEF StoreVehicle, AnswerLost
  <2>3. ev[w].token \in Tokens /\ ev[w].device \in Devices
    BY <2>2, EventTypes DEF IInv, HandlerOK
  <2> QED
    BY <2>2, <2>3, UpsertPairsOnce DEF IInv, TypeOK
<1> QED
  BY <1>1, <1>2

\* A stored trip names the device of its beginning by the token paired with it.
LEMMA PairedOnceSuffices ==
  ASSUME IInv, PairedOnce, BegunByOneDevice
  PROVE  DeviceTripsTogether
<1> SUFFICES ASSUME NEW e \in SegmentEvents, NEW f \in SegmentEvents,
                    e.device = f.device, ~e.completed, ~f.completed,
                    trips[e.id] # Null, trips[f.id] # Null
             PROVE  trips[e.id].token = trips[f.id].token
  BY DEF DeviceTripsTogether
<1>1. ASSUME NEW g \in SegmentEvents, ~g.completed, trips[g.id] # Null
      PROVE  trips[g.id].token \in Tokens /\ vehicles[trips[g.id].token] = g.device
  <2>1. g.id \in TripIds
    BY EventTypes
  <2>2. PICK b \in SegmentEvents :
          b.id = g.id /\ ~b.completed /\ vehicles[trips[g.id].token] = b.device
    BY <1>1, <2>1 DEF IInv, RowOK, StartReported
  <2>3. trips[g.id].token \in Tokens
    BY <1>1, <2>1 DEF IInv, TypeOK, Trips, Row
  <2> QED
    BY <1>1, <2>2, <2>3 DEF BegunByOneDevice
<1>2. e.device # Null
  BY EventTypes
<1> QED
  BY <1>1, <1>2 DEF PairedOnce

\* If the beginnings of a trip come from one device, all trips a device begins
\* are filed under one token, whatever is minted, and in whatever order.
THEOREM DeviceTripsFiledTogether ==
  ASSUME BegunByOneDevice
  PROVE  Spec => []DeviceTripsTogether
<1>1. Init => PairedOnce
  BY RegisteredAssumption DEF Init, PairedOnce
<1>2. IInv /\ PairedOnce /\ [Next]_vars => PairedOnce'
  BY NextPairedOnce
<1>3. IInv /\ PairedOnce => DeviceTripsTogether
  BY PairedOnceSuffices
<1> QED
  BY <1>1, <1>2, <1>3, Invariance, PTL DEF Spec

----------------------------------------------------------------------------
(* Who pays for an orphan.  A completion opens the account of its trip with *)
(* one unit: it is due.  What may cost an archive is then a message still   *)
(* due, a run that has lost its event and goes on, and an archive that is   *)
(* stored and may be overwritten; each turns into a lost archive at most    *)
(* once, and only a fault opens a new unit.                                 *)

Completing(w, t) == ev[w] \in SegmentEvents /\ ev[w].completed /\ ev[w].id = t

Carries(t, i) ==
  trips[t] # Null /\ i.token = trips[t].token /\ i.start = trips[t].startTime

\* What the runs that only have their update left will store.
Held == {seg[w].bundlr : w \in {v \in Workers : pc[v] = "update"}}

Lost(t) == {i \in uploaded : Carries(t, i) /\ i # trips[t].bundlr /\ i \notin Held}

Strays(t) == {w \in Workers : Completing(w, t) /\ ~owns[w]}

Due(t) ==
  IF \E e \in SegmentEvents : e \in pending /\ e.completed /\ e.id = t THEN 1 ELSE 0

Stored(t) == IF trips[t] # Null /\ Cell(trips[t], "bundlr") # Null THEN 1 ELSE 0

Open(t) == Cardinality(Strays(t)) + Due(t)

Faults == errors + crashes

Paid(t) ==
  /\ IsFiniteSet(Lost(t)) /\ IsFiniteSet(Strays(t))
  /\ Cardinality(Lost(t)) <= Faults
  /\ Cardinality(Lost(t)) + Open(t) + Stored(t) <= 1 + Faults

\* Every item was uploaded for a trip that is stored.
ItemsOfTrips == \A i \in uploaded : \E t \in TripIds : Carries(t, i)

OrphanInv ==
  /\ IInv
  /\ OwnedOnce
  /\ ItemsOfTrips
  /\ \A t \in TripIds : Paid(t)

LEMMA CardSub ==
  ASSUME NEW S, IsFiniteSet(S), NEW T, T \subseteq S
  PROVE  IsFiniteSet(T) /\ Cardinality(T) \in Nat /\ Cardinality(T) <= Cardinality(S)
         /\ Cardinality(S) \in Nat
BY FS_Subset, FS_CardinalityType

LEMMA CardAdd ==
  ASSUME NEW S, IsFiniteSet(S), NEW x, NEW T, T \subseteq S \cup {x}
  PROVE  IsFiniteSet(T) /\ Cardinality(T) \in Nat /\ Cardinality(T) <= Cardinality(S) + 1
         /\ Cardinality(S) \in Nat
<1>1. /\ IsFiniteSet(S \cup {x}) /\ Cardinality(S) \in Nat
      /\ Cardinality(S \cup {x}) \in {Cardinality(S), Cardinality(S) + 1}
  BY FS_AddElement, FS_CardinalityType
<1> QED
  BY <1>1, CardSub

LEMMA CardDrop ==
  ASSUME NEW S, IsFiniteSet(S), NEW x \in S, NEW T, T \subseteq S \ {x}
  PROVE  IsFiniteSet(T) /\ Cardinality(T) \in Nat /\ Cardinality(T) <= Cardinality(S) - 1
         /\ Cardinality(S) \in Nat
<1>1. /\ IsFiniteSet(S \ {x}) /\ Cardinality(S) \in Nat
      /\ Cardinality(S \ {x}) = Cardinality(S) - 1
  BY FS_RemoveElement, FS_CardinalityType
<1> QED
  BY <1>1, CardSub

----------------------------------------------------------------------------
(* The runs of a completion *)

LEMMA DueType == \A t : Due(t) \in {0, 1} /\ Due(t)' \in {0, 1}
BY DEF Due

\* A handler that returns closes its run, if it was one of t.
LEMMA ReturnCloses ==
  ASSUME TypeOK, OwnedOnce, OneCompletionPerTrip, NEW t, IsFiniteSet(Strays(t)),
         NEW w \in Workers, NEW handled \in BOOLEAN, Return(w, handled)
  PROVE  /\ IsFiniteSet(Strays(t)') /\ Open(t)' <= Open(t)
         /\ handled /\ Completing(w, t) => Open(t)' <= Open(t) - 1
<1>1. /\ ev'[w] = Null /\ ~owns'[w]
      /\ \A v \in Workers \ {w} : ev'[v] = ev[v] /\ owns'[v] = owns[v]
  BY ClearRuns DEF Return
<1>2. Strays(t)' \subseteq Strays(t) \ {w}
  BY <1>1, EventTypes DEF Strays, Completing
<1>3. pending' \subseteq pending /\ Due(t)' <= Due(t)
  BY DEF Return, Due
<1>4. IsFiniteSet(Strays(t)') /\ Open(t)' <= Open(t)
  BY <1>2, <1>3, CardSub, DueType DEF Open
<1>5. ASSUME handled, Completing(w, t)
      PROVE  Open(t)' <= Open(t) - 1
  <2>1. CASE owns[w]
    <3>1. ev[w] \in pending /\ pending' = pending \ {ev[w]}
      BY <1>5, <2>1 DEF Return, OwnedOnce
    <3>2. Due(t) = 1 /\ Due(t)' = 0
      BY <1>5, <3>1 DEF Due, Completing, OneCompletionPerTrip
    <3> QED
      BY <1>2, <3>2, CardSub DEF Open
  <2>2. CASE ~owns[w]
    <3>1. w \in Strays(t)
      BY <1>5, <2>2 DEF Strays
    <3> QED
      BY <1>2, <1>3, <3>1, CardDrop, DueType DEF Open
  <2> QED
    BY <2>1, <2>2
<1> QED
  BY <1>4, <1>5

\* A partition that moves makes one completion of t due again, or a stray of
\* its owner.
LEMMA RebalanceOpens ==
  ASSUME TypeOK, OwnedOnce, OneCompletionPerTrip, NEW t, IsFiniteSet(Strays(t)),
         NEW e \in Events, Rebalance(e)
  PROVE  IsFiniteSet(Strays(t)') /\ Open(t)' <= Open(t) + 1
<1>1. /\ ev' = ev /\ pending \subseteq pending' /\ pending' \subseteq pending \cup From(e)
      /\ \A v \in Workers : owns'[v] <=> owns[v] /\ ev[v] \notin From(e)
  BY RebalanceRuns
<1>2. CASE \E w \in Workers : owns[w] /\ Completing(w, t)
  <2>1. PICK w \in Workers : owns[w] /\ Completing(w, t)
    BY <1>2
  <2>2. \A v \in Workers : owns[v] /\ Completing(v, t) => v = w
    BY <2>1 DEF OwnedOnce, Completing, OneCompletionPerTrip
  <2>3. Strays(t)' \subseteq Strays(t) \cup {w}
    BY <1>1, <2>2 DEF Strays, Completing
  <2>4. Due(t) = 1
    BY <2>1 DEF OwnedOnce, Completing, Due
  <2> QED
    BY <2>3, <2>4, CardAdd, DueType DEF Open
<1>3. CASE \A w \in Workers : ~(owns[w] /\ Completing(w, t))
  <2>1. Strays(t)' \subseteq Strays(t)
    BY <1>1, <1>3 DEF Strays, Completing
  <2> QED
    BY <2>1, CardSub, DueType DEF Open
<1> QED
  BY <1>2, <1>3

LEMMA RunsOfStep ==
  ASSUME TypeOK, OwnedOnce, OneCompletionPerTrip, NEW t, IsFiniteSet(Strays(t)),
         [Next]_vars
  PROVE  /\ IsFiniteSet(Strays(t)')
         /\ \/ Open(t)' <= Open(t)
            \/ (\E e \in Events : Rebalance(e)) /\ Open(t)' <= Open(t) + 1
<1>1. CASE SameRuns
  <2>1. Strays(t)' = Strays(t) /\ Due(t)' = Due(t)
    BY <1>1 DEF SameRuns, Strays, Completing, Due
  <2> QED
    BY <2>1, CardSub, DueType DEF Open
<1>2. ASSUME NEW w \in Workers, NEW e \in Events, Claim(w, e)
      PROVE  IsFiniteSet(Strays(t)') /\ Open(t)' <= Open(t)
  <2>1. Strays(t)' \subseteq Strays(t) /\ Due(t)' = Due(t)
    BY <1>2, ClaimRuns DEF Strays, Completing, Due
  <2> QED
    BY <2>1, CardSub, DueType DEF Open
<1>3. ASSUME NEW w \in Workers, Crash(w)
      PROVE  IsFiniteSet(Strays(t)') /\ Open(t)' <= Open(t)
  <2>1. Strays(t)' \subseteq Strays(t) /\ Due(t)' = Due(t)
    BY <1>3, ClearRuns, EventTypes DEF Crash, Strays, Completing, Due
  <2> QED
    BY <2>1, CardSub, DueType DEF Open
<1> QED
  BY <1>1, <1>2, <1>3, ReturnCloses, RebalanceOpens, DeliveryKinds

----------------------------------------------------------------------------
(* The stores *)

LEMMA HeldKept ==
  ASSUME NEW w \in Workers, OthersUntouched(w)
  PROVE  /\ Held \subseteq Held' \cup {seg[w].bundlr}
         /\ pc[w] # "update" => Held \subseteq Held'
<1>1. ASSUME NEW v \in Workers \ {w}, pc[v] = "update"
      PROVE  seg[v].bundlr \in Held'
  BY <1>1 DEF OthersUntouched, Untouched, Held
<1>2. ASSUME NEW i \in Held
      PROVE  i \in Held' \/ (pc[w] = "update" /\ i = seg[w].bundlr)
  <2>1. PICK v \in Workers : pc[v] = "update" /\ i = seg[v].bundlr
    BY DEF Held
  <2> QED
    BY <1>1, <2>1
<1> QED
  BY <1>2

\* A step that leaves the row of t alone can lose an archive of t that nobody
\* holds any more, or one that has just been uploaded.
LEMMA RowLeftAlone ==
  ASSUME NEW t, trips'[t] = trips[t]
  PROVE  /\ Stored(t)' = Stored(t)
         /\ uploaded' = uploaded /\ Held \subseteq Held' => Lost(t)' \subseteq Lost(t)
         /\ \A x : uploaded' = uploaded /\ Held \subseteq Held' \cup {x} =>
                    Lost(t)' \subseteq Lost(t) \cup {x}
         /\ \A x : uploaded' \subseteq uploaded \cup {x} /\ Held \subseteq Held' =>
                    Lost(t)' \subseteq Lost(t) \cup {x}
         /\ \A x : uploaded' \subseteq uploaded \cup {x} /\ Held \subseteq Held' /\ x \in Held' =>
                    Lost(t)' \subseteq Lost(t)
BY DEF Stored, Cell, Lost, Carries

\* The three ways a step may be paid for.
PaidStep(t) ==
  \/ /\ Lost(t)' \subseteq Lost(t)
     /\ Stored(t)' = Stored(t)
     /\ Faults' \in Nat /\ Faults' >= Faults
     /\ Open(t)' <= Open(t) \/ (Open(t)' <= Open(t) + 1 /\ Faults' = Faults + 1)
  \/ /\ \E x : Lost(t)' \subseteq Lost(t) \cup {x}
     /\ Stored(t)' = Stored(t)
     /\ Open(t)' <= Open(t) /\ Faults' = Faults + 1
  \/ /\ Lost(t)' \subseteq Lost(t) \/ (Stored(t) = 1 /\ \E x : Lost(t)' \subseteq Lost(t) \cup {x})
     /\ \/ Open(t)' <= Open(t) /\ Faults' = Faults + 1
        \/ Open(t)' <= Open(t) - 1 /\ Faults' = Faults

LEMMA PaidStepKeeps ==
  ASSUME NEW t, Paid(t), PaidStep(t), IsFiniteSet(Strays(t)'), Faults \in Nat
  PROVE  Paid(t)'
<1>1. /\ Stored(t) \in {0, 1} /\ Stored(t)' \in {0, 1}
      /\ Due(t) \in {0, 1} /\ Due(t)' \in {0, 1}
  BY DueType DEF Stored
<1>2. /\ Cardinality(Strays(t)) \in Nat /\ Cardinality(Strays(t)') \in Nat
      /\ Cardinality(Lost(t)) \in Nat
  BY FS_CardinalityType DEF Paid
<1>3. Open(t) \in Nat /\ Open(t)' \in Nat
  BY <1>1, <1>2 DEF Open
<1>4. CASE Lost(t)' \subseteq Lost(t)
  <2>1. /\ IsFiniteSet(Lost(t)') /\ Cardinality(Lost(t)') \in Nat
        /\ Cardinality(Lost(t)') <= Cardinality(Lost(t))
    BY <1>4, CardSub DEF Paid
  <2>2. /\ Faults' \in Nat /\ Faults' >= Faults
        /\ \/ Open(t)' + Stored(t)' <= Open(t) + Stored(t)
           \/ Open(t)' + Stored(t)' <= Open(t) + Stored(t) + 1 /\ Faults' = Faults + 1
    BY <1>1, <1>3 DEF PaidStep
  <2> QED
    BY <1>1, <1>2, <1>3, <2>1, <2>2 DEF Paid
<1>5. CASE ~(Lost(t)' \subseteq Lost(t))
  <2>1. PICK x : Lost(t)' \subseteq Lost(t) \cup {x}
    BY <1>5 DEF PaidStep
  <2>2. /\ IsFiniteSet(Lost(t)') /\ Cardinality(Lost(t)') \in Nat
        /\ Cardinality(Lost(t)') <= Cardinality(Lost(t)) + 1
    BY <2>1, CardAdd DEF Paid
  <2>3. \/ Stored(t)' = Stored(t) /\ Open(t)' <= Open(t) /\ Faults' = Faults + 1
        \/ /\ Stored(t) = 1
           /\ \/ Open(t)' <= Open(t) /\ Faults' = Faults + 1
              \/ Open(t)' <= Open(t) - 1 /\ Faults' = Faults
    BY <1>5 DEF PaidStep
  <2> QED
    BY <1>1, <1>2, <1>3, <2>2, <2>3 DEF Paid
<1> QED
  BY <1>4, <1>5

LEMMA FaultsType == TypeOK => errors \in Nat /\ crashes \in Nat /\ Faults \in Nat
BY SettingsAssumption DEF TypeOK, Faults

\* A row with the start and the vehicle of a stored trip is that trip's.
LEMMA OneTripPerStart ==
  ASSUME IInv, OneBeginningAtATime, NEW u \in TripIds, trips[u] # Null,
         NEW e \in SegmentEvents, ~e.completed,
         vehicles[trips[u].token] = e.device, trips[u].startTime = e.startTime
  PROVE  u = e.id
<1>1. PICK f \in SegmentEvents :
        /\ f.id = u /\ ~f.completed
        /\ vehicles[trips[u].token] = f.device /\ trips[u].startTime = f.startTime
  BY DEF IInv, RowOK, StartReported
<1> QED
  BY <1>1 DEF OneBeginningAtATime

LEMMA DistinctStarts ==
  ASSUME IInv, OneBeginningAtATime, NEW t \in TripIds, NEW u \in TripIds,
         trips[t] # Null, trips[u] # Null,
         trips[t].token = trips[u].token, trips[t].startTime = trips[u].startTime
  PROVE  t = u
<1>1. PICK e \in SegmentEvents :
        /\ e.id = t /\ ~e.completed
        /\ vehicles[trips[t].token] = e.device /\ trips[t].startTime = e.startTime
  BY DEF IInv, RowOK, StartReported
<1> QED
  BY <1>1, OneTripPerStart

\* A trip is stored: nothing was uploaded for it before.
LEMMA InsertPays ==
  ASSUME OrphanInv, OneBeginningAtATime, NEW w \in Workers, OthersUntouched(w),
         pc[w] = "insert", trips[ev[w].id] = Null,
         trips' = InsertTrip(trips, ev[w].id, seg[w]), UNCHANGED uploaded, NEW t \in TripIds
  PROVE  Lost(t)' \subseteq Lost(t) /\ Stored(t)' = Stored(t)
<1>1. Held \subseteq Held'
  BY HeldKept
<1>2. PICK e \in SegmentEvents, k \in Tokens :
        /\ e = ev[w] /\ k = veh[w] /\ e.id \in TripIds
        /\ ~e.completed /\ vehicles[k] = e.device
  BY EventTypes DEF OrphanInv, IInv, HandlerOK, BeginSteps
<1>3. PICK last \in Locations \cup {Null} : seg[w] = NewTrip(e, k, last)
  BY <1>2 DEF OrphanInv, IInv, HandlerOK
<1>4. /\ seg[w] \in Row /\ seg[w].token = k /\ seg[w].startTime = e.startTime
      /\ seg[w].bundlr = Null
  BY <1>3, NewTripType DEF NewTrip
<1>5. /\ trips'[e.id] = seg[w]
      /\ \A u \in TripIds \ {e.id} : trips'[u] = trips[u]
  BY <1>2, <1>4, InsertTripType DEF OrphanInv, IInv, TypeOK
<1>6. CASE t # e.id
  BY <1>1, <1>5, <1>6, RowLeftAlone
<1>7. CASE t = e.id
  <2>1. Stored(t)' = 0 /\ Stored(t) = 0
    BY <1>2, <1>4, <1>5, <1>7 DEF Stored, Cell
  <2>2. ASSUME NEW i \in uploaded, i.token = k, i.start = e.startTime
        PROVE  FALSE
    <3>1. PICK u \in TripIds : Carries(u, i)
      BY DEF OrphanInv, ItemsOfTrips
    <3>2. /\ trips[u] # Null /\ vehicles[trips[u].token] = e.device
          /\ trips[u].startTime = e.startTime
      BY <1>2, <2>2, <3>1 DEF Carries
    <3>3. u = e.id
      BY <1>2, <3>2, OneTripPerStart DEF OrphanInv
    <3> QED
      BY <1>2, <3>2, <3>3
  <2>3. Lost(t)' = {}
    BY <1>4, <1>5, <1>7, <2>2 DEF Lost, Carries
  <2> QED
    BY <2>1, <2>3
<1> QED
  BY <1>6, <1>7

\* A trip is completed: at most the archive that was stored before is lost.
LEMMA UpdatePays ==
  ASSUME OrphanInv, OneBeginningAtATime, NEW w \in Workers, OthersUntouched(w),
         pc[w] = "update", trips' = UpdateTrip(trips, ev[w].id, seg[w]),
         UNCHANGED uploaded, NEW t \in TripIds
  PROVE  /\ Completing(w, t) => \/ Lost(t)' \subseteq Lost(t)
                                \/ Stored(t) = 1 /\ \E x : Lost(t)' \subseteq Lost(t) \cup {x}
         /\ ~Completing(w, t) => Lost(t)' \subseteq Lost(t) /\ Stored(t)' = Stored(t)
<1>1. Held \subseteq Held' \cup {seg[w].bundlr}
  BY HeldKept
<1>2. PICK e \in SegmentEvents :
        e = ev[w] /\ e.completed /\ e.id \in TripIds /\ CompletionOK(w)
  BY CompletionKnows DEF OrphanInv
<1>3. /\ seg[w] \in Row /\ trips[e.id] # Null
      /\ seg[w].token = trips[e.id].token /\ seg[w].startTime = trips[e.id].startTime
  BY <1>2 DEF CompletionOK
<1>4. seg[w].bundlr = Null \/ Carries(e.id, seg[w].bundlr)
  <2>1. CASE ~DataFetchEnabled
    BY <1>2, <2>1 DEF CompletionOK
  <2>2. CASE DataFetchEnabled
    <3>1. seg[w].bundlr = PreparedItem(w)
      BY <2>2 DEF OrphanInv, IInv, HandlerOK
    <3>2. PreparedItem(w).token = seg[w].token /\ PreparedItem(w).start = seg[w].startTime
      BY DEF PreparedItem
    <3> QED
      BY <1>3, <3>1, <3>2 DEF Carries
  <2> QED
    BY <2>1, <2>2
<1>5. PICK row \in Row :
        /\ trips'[e.id] = row
        /\ row.token = trips[e.id].token /\ row.startTime = trips[e.id].startTime
        /\ row.bundlr = seg[w].bundlr
  BY <1>2, <1>3, UpdateTripEffect DEF OrphanInv, IInv, TypeOK
<1>6. \A u \in TripIds \ {e.id} : trips'[u] = trips[u]
  BY <1>2, <1>3, UpdateTripEffect DEF OrphanInv, IInv, TypeOK
<1>7. Null \notin uploaded
  BY NullAssumption DEF OrphanInv, IInv, TypeOK
<1>8. CASE t # e.id
  <2>1. \A i \in uploaded : Carries(t, i) => i # seg[w].bundlr
    BY <1>2, <1>3, <1>4, <1>7, <1>8, DistinctStarts DEF OrphanInv, Carries
  <2>2. Lost(t)' \subseteq Lost(t)
    BY <1>1, <1>6, <1>8, <2>1 DEF Lost, Carries
  <2>3. Stored(t)' = Stored(t)
    BY <1>6, <1>8, RowLeftAlone
  <2> QED
    BY <1>2, <1>8, <2>2, <2>3 DEF Completing
<1>9. CASE t = e.id
  <2>1. Lost(t)' \subseteq Lost(t) \cup {trips[t].bundlr}
    BY <1>1, <1>3, <1>5, <1>9 DEF Lost, Carries
  <2>2. CASE trips[t].bundlr = Null
    BY <1>2, <1>7, <1>9, <2>1, <2>2 DEF Completing, Lost
  <2>3. CASE trips[t].bundlr # Null
    BY <1>2, <1>3, <1>9, <2>1, <2>3 DEF Completing, Stored, Cell
  <2> QED
    BY <2>2, <2>3
<1> QED
  BY <1>8, <1>9

LEMMA NextItemsOfTrips ==
  ASSUME IInv, ItemsOfTrips, [Next]_vars
  PROVE  ItemsOfTrips'
<1>1. StoresGrow
  BY NextIInv
<1>2. ASSUME NEW t \in TripIds, NEW i, Carries(t, i)
      PROVE  Carries(t, i)'
  BY <1>1, <1>2 DEF StoresGrow, TripsKept, Carries
<1>3. CASE uploaded' = uploaded
  BY <1>2, <1>3 DEF ItemsOfTrips
<1>4. CASE uploaded' # uploaded
  <2>1. PICK w \in Workers : Upload(w) \/ AnswerLost(w)
    BY <1>4 DEF Next, HandlerStep, StoreVehicle, Claim, ReadVehicle, LoadLast, Insert,
       ReadTrip, EstVehicle, EstLoad, Fetch, Update, CallFails, EstimateFails, Crash,
       Rebalance, Quiet, vars, stores
  <2>2. pc[w] = "upload" /\ uploaded' = uploaded \cup {PreparedItem(w)}
    BY <1>4, <2>1 DEF Upload, AnswerLost
  <2>3. ev[w].id \in TripIds /\ CompletionOK(w)
    BY <2>2, CompletionKnows
  <2>4. PICK i : i = PreparedItem(w)
    OBVIOUS
  <2>5. Carries(ev[w].id, i)
    BY <2>3, <2>4 DEF CompletionOK, PreparedItem, Carries
  <2>6. \A j \in uploaded' : j = i \/ j \in uploaded
    BY <2>2, <2>4
  <2>7. PICK u \in TripIds : u = ev[w].id
    BY <2>3
  <2>8. Carries(u, i)'
    BY <1>2, <2>5, <2>7
  <2> QED
    BY <1>2, <2>6, <2>8 DEF ItemsOfTrips
<1> QED
  BY <1>3, <1>4

LEMMA OpenType ==
  ASSUME NEW t, IsFiniteSet(Strays(t))
  PROVE  Open(t) \in Nat
BY FS_CardinalityType, DueType DEF Open

\* What is left to show of a step of w once its account of runs is known.
LEMMA PaysByRow ==
  ASSUME TypeOK, NEW t, Open(t)' <= Open(t), Faults' \in Nat, Faults' >= Faults,
         Lost(t)' \subseteq Lost(t), Stored(t)' = Stored(t)
  PROVE  PaidStep(t)
BY DEF PaidStep

LEMMA PaysByFault ==
  ASSUME TypeOK, NEW t, Open(t)' <= Open(t), Faults' = Faults + 1,
         NEW x, Lost(t)' \subseteq Lost(t) \cup {x}, Stored(t)' = Stored(t)
  PROVE  PaidStep(t)
BY DEF PaidStep

LEMMA HandlerPays ==
  ASSUME OrphanInv, OneBeginningAtATime, OneCompletionPerTrip, NEW t \in TripIds,
         Open(t)' <= Open(t), NEW w \in Workers,
         HandlerStep(w) \/ \E e \in Events : Claim(w, e)
  PROVE  PaidStep(t)
<1>1. Faults' = Faults /\ Faults \in Nat /\ Faults' >= Faults
  <2>1. UNCHANGED budget
    BY DEF HandlerStep, StoreVehicle, ReadVehicle, LoadLast, Insert, ReadTrip, EstVehicle,
           EstLoad, Fetch, Upload, Update, Claim
  <2> QED
    BY <2>1, FaultsType DEF budget, Faults, OrphanInv, IInv
<1>2. OthersUntouched(w)
  BY ClaimGood, HandlerStepGood DEF OrphanInv, GoodStep
<1>3. CASE UNCHANGED <<trips, uploaded>> /\ pc[w] # "update"
  BY <1>1, <1>2, <1>3, HeldKept, RowLeftAlone, PaysByRow DEF OrphanInv, IInv
<1>4. CASE Insert(w) /\ trips' = InsertTrip(trips, ev[w].id, seg[w]) /\ trips[ev[w].id] = Null
  <2>1. Lost(t)' \subseteq Lost(t) /\ Stored(t)' = Stored(t)
    BY <1>2, <1>4, InsertPays DEF Insert
  <2> QED
    BY <1>1, <2>1, PaysByRow DEF OrphanInv, IInv
<1>5. CASE Upload(w)
  <2>1. /\ pc[w] = "upload" /\ trips' = trips
        /\ seg' = [seg EXCEPT ![w].bundlr = PreparedItem(w)]
        /\ pc' = [pc EXCEPT ![w] = "update"]
    BY <1>5 DEF Upload, Goto
  <2>2. PICK i : i = PreparedItem(w)
    OBVIOUS
  <2>3. uploaded' \subseteq uploaded \cup {i} /\ (uploaded' # uploaded => BundlrEnabled)
    BY <1>5, <2>2 DEF Upload
  <2>4. seg[w] \in Row
    BY <2>1, CompletionKnows DEF OrphanInv, CompletionOK
  <2>5. pc'[w] = "update" /\ seg'[w].bundlr = i
    BY <2>1, <2>2, <2>4 DEF OrphanInv, IInv, TypeOK, Row
  <2>6. Held \subseteq Held' /\ i \in Held'
    BY <1>2, <2>1, <2>5, HeldKept DEF Held
  <2>7. Lost(t)' \subseteq Lost(t) /\ Stored(t)' = Stored(t)
    BY <2>1, <2>3, <2>6, RowLeftAlone
  <2> QED
    BY <1>1, <2>7, PaysByRow DEF OrphanInv, IInv
<1>6. CASE Update(w)
  <2>1. /\ Completing(w, t) => \/ Lost(t)' \subseteq Lost(t)
                               \/ Stored(t) = 1 /\ \E x : Lost(t)' \subseteq Lost(t) \cup {x}
        /\ ~Completing(w, t) => Lost(t)' \subseteq Lost(t) /\ Stored(t)' = Stored(t)
    BY <1>2, <1>6, UpdatePays DEF Update
  <2>2. Completing(w, t) => Open(t)' <= Open(t) - 1
    BY <1>6, ReturnCloses DEF Update, Succeed, OrphanInv, IInv, Paid
  <2> QED
    BY <1>1, <2>1, <2>2, PaysByRow DEF PaidStep, OrphanInv, IInv
<1> QED
  BY <1>3, <1>4, <1>5, <1>6
     DEF HandlerStep, StoreVehicle, ReadVehicle, LoadLast, Insert, ReadTrip, EstVehicle,
         EstLoad, Fetch, Claim, stores

LEMMA FaultPays ==
  ASSUME OrphanInv, OneBeginningAtATime, OneCompletionPerTrip, NEW t \in TripIds,
         Open(t)' <= Open(t), NEW w \in Workers,
         CallFails(w) \/ EstimateFails(w) \/ AnswerLost(w) \/ Crash(w)
  PROVE  PaidStep(t)
<1>1. Faults' = Faults + 1 /\ Faults \in Nat /\ Faults' \in Nat /\ Faults' >= Faults
  BY FaultsType DEF OrphanInv, IInv, Faults, CallFails, EstimateFails, AnswerLost, Crash
<1>2. OthersUntouched(w) /\ TypeOK
  BY FaultGood DEF OrphanInv, GoodStep, IInv
<1>3. Held \subseteq Held' \cup {seg[w].bundlr} /\ (pc[w] # "update" => Held \subseteq Held')
  BY <1>2, HeldKept
<1>4. CASE UNCHANGED <<trips, uploaded>>
  <2>1. Lost(t)' \subseteq Lost(t) \cup {seg[w].bundlr} /\ Stored(t)' = Stored(t)
    BY <1>3, <1>4, RowLeftAlone
  <2> QED
    BY <1>1, <1>2, <2>1, PaysByFault
<1>5. CASE /\ pc[w] = "insert" /\ trips[ev[w].id] = Null
           /\ trips' = InsertTrip(trips, ev[w].id, seg[w])
           /\ UNCHANGED uploaded
  BY <1>1, <1>2, <1>5, InsertPays, PaysByRow
<1>6. CASE pc[w] = "upload" /\ uploaded' = uploaded \cup {PreparedItem(w)} /\ UNCHANGED trips
  <2>1. PICK i : i = PreparedItem(w)
    OBVIOUS
  <2>2. Lost(t)' \subseteq Lost(t) \cup {i} /\ Stored(t)' = Stored(t)
    BY <1>3, <1>6, <2>1, RowLeftAlone
  <2> QED
    BY <1>1, <1>2, <2>2, PaysByFault
<1>7. CASE /\ pc[w] = "update" /\ trips' = UpdateTrip(trips, ev[w].id, seg[w])
           /\ UNCHANGED uploaded
  <2>1. /\ Completing(w, t) => \/ Lost(t)' \subseteq Lost(t)
                               \/ Stored(t) = 1 /\ \E x : Lost(t)' \subseteq Lost(t) \cup {x}
        /\ ~Completing(w, t) => Lost(t)' \subseteq Lost(t) /\ Stored(t)' = Stored(t)
    BY <1>2, <1>7, UpdatePays
  <2> QED
    BY <1>1, <1>2, <2>1, PaysByRow DEF PaidStep
<1> QED
  BY <1>4, <1>5, <1>6, <1>7 DEF CallFails, EstimateFails, AnswerLost, Crash, stores

LEMMA NextPays ==
  ASSUME OrphanInv, OneBeginningAtATime, OneCompletionPerTrip, [Next]_vars,
         NEW t \in TripIds
  PROVE  PaidStep(t) /\ IsFiniteSet(Strays(t)')
<1>1. /\ IsFiniteSet(Strays(t)')
      /\ \/ Open(t)' <= Open(t)
         \/ (\E e \in Events : Rebalance(e)) /\ Open(t)' <= Open(t) + 1
  BY RunsOfStep DEF OrphanInv, IInv, Paid
<1>2. TypeOK /\ errors \in Nat /\ crashes \in Nat /\ Faults \in Nat /\ Open(t) \in Nat
  BY FaultsType, OpenType DEF OrphanInv, IInv, Paid
<1>3. ASSUME NEW e \in Events, Rebalance(e)
      PROVE  PaidStep(t)
  <2>1. Faults' = Faults + 1
    BY <1>2, <1>3 DEF Rebalance, Faults
  <2>2. Held' = Held /\ UNCHANGED <<trips, uploaded>>
    BY <1>3 DEF Rebalance, Held, stores
  <2>3. Lost(t)' \subseteq Lost(t) /\ Stored(t)' = Stored(t)
    BY <2>2, RowLeftAlone
  <2> QED
    BY <1>1, <1>2, <2>1, <2>3 DEF PaidStep
<1>4. CASE Quiet \/ UNCHANGED vars
  <2>1. Faults' = Faults /\ Held' = Held /\ UNCHANGED <<trips, uploaded>>
    BY <1>4 DEF Quiet, vars, Faults, Held
  <2>2. Lost(t)' \subseteq Lost(t) /\ Stored(t)' = Stored(t)
    BY <2>1, RowLeftAlone
  <2>3. Open(t)' = Open(t)
    BY <1>4 DEF Quiet, vars, Open, Strays, Completing, Due
  <2> QED
    BY <1>1, <1>2, <2>1, <2>2, <2>3 DEF PaidStep
<1>5. CASE \E w \in Workers :
             \/ \E e \in Events : Claim(w, e)
             \/ HandlerStep(w) \/ CallFails(w) \/ EstimateFails(w) \/ AnswerLost(w)
             \/ Crash(w)
  BY <1>1, <1>3, <1>5, HandlerPays, FaultPays
<1>6. \/ \E e \in Events : Rebalance(e)
      \/ Quiet \/ UNCHANGED vars
      \/ \E w \in Workers :
           \/ \E e \in Events : Claim(w, e)
           \/ HandlerStep(w) \/ CallFails(w) \/ EstimateFails(w) \/ AnswerLost(w)
           \/ Crash(w)
  BY DEF Next
<1> QED
  BY <1>1, <1>3, <1>4, <1>5, <1>6

LEMMA InitOrphanInv ==
  ASSUME Init, OneCompletionPerTrip
  PROVE  OrphanInv
<1>1. IInv
  BY InitIInv
<1>2. OwnedOnce /\ ItemsOfTrips
  BY DEF Init, OwnedOnce, ItemsOfTrips
<1>3. ASSUME NEW t \in TripIds
      PROVE  Paid(t)
  <2>1. Lost(t) = {} /\ Strays(t) = {} /\ Stored(t) = 0
    BY EventTypes DEF Init, Lost, Strays, Stored, Completing
  <2>2. Faults = 0
    BY DEF Init, Faults
  <2> QED
    BY <2>1, <2>2, FS_EmptySet, DueType DEF Paid, Open
<1> QED
  BY <1>1, <1>2, <1>3 DEF OrphanInv

LEMMA NextOrphanInv ==
  ASSUME OrphanInv, OneBeginningAtATime, OneCompletionPerTrip, [Next]_vars
  PROVE  OrphanInv'
<1>1. IInv' /\ OwnedOnce' /\ ItemsOfTrips'
  BY NextIInv, NextOwnedOnce, NextItemsOfTrips DEF OrphanInv, IInv
<1>2. \A t \in TripIds : Paid(t)'
  BY NextPays, PaidStepKeeps, FaultsType DEF OrphanInv, IInv
<1> QED
  BY <1>1, <1>2 DEF OrphanInv

\* An orphan is a lost archive: nobody at all remembers it.
LEMMA PaidSuffices ==
  ASSUME OrphanInv
  PROVE  OrphansPaidByFaults
<1> SUFFICES ASSUME NEW t \in TripIds, trips[t] # Null
             PROVE  Cardinality(Orphans(t)) <= Faults
  BY DEF OrphansPaidByFaults, Faults
<1>1. \A w \in Workers : pc[w] = "update" => seg[w] # Null
  BY CompletionKnows, NullAssumption DEF OrphanInv, CompletionOK
<1>2. Orphans(t) \subseteq Lost(t)
  BY <1>1 DEF Orphans, Lost, Carries, Held
<1>3. /\ IsFiniteSet(Lost(t)) /\ Cardinality(Lost(t)) <= Faults
      /\ Faults \in Nat
  BY FaultsType DEF OrphanInv, IInv, Paid
<1> QED
  BY <1>2, <1>3, CardSub

\* Where a trip has one completion and a device begins one trip at a time,
\* every archive that nobody can open is due to a fault of its own: a call
\* that failed, an answer that was lost, a replica that died or a partition
\* that moved.  The code never throws one away by itself.
THEOREM OrphansPaid ==
  ASSUME OneBeginningAtATime, OneCompletionPerTrip
  PROVE  Spec => []OrphansPaidByFaults
<1>1. Init => OrphanInv
  BY InitOrphanInv
<1>2. OrphanInv /\ [Next]_vars => OrphanInv'
  BY NextOrphanInv
<1>3. OrphanInv => OrphansPaidByFaults
  BY PaidSuffices
<1> QED
  BY <1>1, <1>2, <1>3, PTL DEF Spec

=============================================================================
