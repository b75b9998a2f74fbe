--------------------------- MODULE EstimateProofs ---------------------------
(***************************************************************************)
(* What Consumer derives from the vehicle's trip before: the start         *)
(* estimate, and the droppedData flag of a beginning.                      *)
(*                                                                         *)
(* An estimate is worked out in the memory of a handler, from what it has  *)
(* read, and stored steps later.  RowEstimates and MemoryEstimates say all *)
(* a step may do to an estimate; each theorem about estimates then follows *)
(* from what is true at the three places where one is made: LoadLast,      *)
(* ReadTrip and EstLoad.  The flag has to be right when it is stored, so   *)
(* there the question is what may happen between LoadLast and Insert.      *)
(***************************************************************************)
EXTENDS DeliveryProofs

\* The steps at which the estimate in memory is one that may be stored.
Estimating == {"insert"} \cup (CompleteSteps \ {"readTrip"})

SameEstimate(new, old) ==
  new.estimate = old.estimate /\ new.token = old.token /\ new.startTime = old.startTime

----------------------------------------------------------------------------
(* What a step does to the estimates *)

LEMMA RowEstimates ==
  ASSUME IInv, [Next]_vars, NEW t \in TripIds, trips'[t] # Null
  PROVE  \/ trips[t] # Null /\ SameEstimate(trips'[t], trips[t])
         \/ \E w \in Workers :
              /\ pc[w] = "update" \/ (pc[w] = "insert" /\ trips[t] = Null)
              /\ ev[w].id = t
              /\ SameEstimate(trips'[t], seg[w])
<1>1. CASE trips' = trips
  BY <1>1 DEF SameEstimate
<1>2. ASSUME NEW w \in Workers, pc[w] = "insert", trips[ev[w].id] = Null,
             trips' = InsertTrip(trips, ev[w].id, seg[w])
      PROVE  \/ trips[t] # Null /\ SameEstimate(trips'[t], trips[t])
             \/ trips[t] = Null /\ ev[w].id = t /\ SameEstimate(trips'[t], seg[w])
  <2>1. PICK e \in SegmentEvents : e = ev[w] /\ e.id \in TripIds /\ seg[w] \in Row
    <3>1. PICK e \in SegmentEvents, k \in Tokens : e = ev[w] /\ k = veh[w] /\ e.id \in TripIds
      BY <1>2, EventTypes DEF IInv, HandlerOK, BeginSteps
    <3> QED
      BY <1>2, <3>1, NewTripType DEF IInv, HandlerOK
  <2>2. /\ trips'[e.id] = seg[w]
        /\ \A u \in TripIds \ {e.id} : trips'[u] = trips[u]
    BY <1>2, <2>1, InsertTripType DEF IInv, TypeOK
  <2> QED
    BY <1>2, <2>1, <2>2 DEF SameEstimate
<1>3. ASSUME NEW w \in Workers, pc[w] = "update",
             trips' = UpdateTrip(trips, ev[w].id, seg[w])
      PROVE  \/ trips[t] # Null /\ SameEstimate(trips'[t], trips[t])
             \/ ev[w].id = t /\ SameEstimate(trips'[t], seg[w])
  <2>1. PICK e \in SegmentEvents : e = ev[w] /\ e.id \in TripIds /\ CompletionOK(w)
    BY <1>3, CompletionKnows
  <2>2. /\ seg[w] \in Row /\ trips[e.id] # Null
        /\ seg[w].token = trips[e.id].token /\ seg[w].startTime = trips[e.id].startTime
    BY <2>1 DEF CompletionOK
  <2>3. \A u \in TripIds \ {e.id} : trips'[u] = trips[u]
    BY <1>3, <2>1, <2>2, UpdateTripEffect DEF IInv, TypeOK
  <2>4. SameEstimate(trips'[e.id], seg[w])
    BY <1>3, <2>1, <2>2, UpdateTripEffect DEF IInv, TypeOK, SameEstimate
  <2> QED
    BY <2>1, <2>3, <2>4 DEF SameEstimate
<1>4. \/ trips' = trips
      \/ \E w \in Workers :
           \/ /\ pc[w] = "insert" /\ trips[ev[w].id] = Null
              /\ trips' = InsertTrip(trips, ev[w].id, seg[w])
           \/ pc[w] = "update" /\ trips' = UpdateTrip(trips, ev[w].id, seg[w])
  BY DEF Next, HandlerStep, StoreVehicle, Claim, ReadVehicle, LoadLast, Insert, ReadTrip,
         EstVehicle, EstLoad, Fetch, Upload, Update, CallFails, EstimateFails, AnswerLost,
         Crash, Rebalance, Quiet, vars, stores
<1> QED
  BY <1>1, <1>2, <1>3, <1>4

\* The run of w as it was, or as LoadLast, ReadTrip or EstLoad has made it.
MemoryMade(w) ==
  \/ /\ pc[w] \in Estimating /\ (pc'[w] = "insert" <=> pc[w] = "insert")
     /\ SameEstimate(seg'[w], seg[w])
  \/ /\ pc[w] = "loadLast" /\ pc'[w] = "insert"
     /\ \E last \in LastEnds(trips, veh[w]) : seg'[w] = NewTrip(ev[w], veh[w], last)
  \/ /\ pc[w] = "readTrip" /\ pc'[w] # "insert" /\ trips[ev[w].id] # Null
     /\ \E k \in Keys : seg'[w] = Finished(ev[w], trips[ev[w].id], k)
  \/ /\ pc[w] = "estLoad" /\ pc'[w] # "insert"
     /\ seg'[w].token = seg[w].token /\ seg'[w].startTime = seg[w].startTime
     /\ \E last \in LastEnds(trips, veh[w]) :
          /\ last # Null /\ InterpolateTripStart(last, ev[w].startLoc)
          /\ seg'[w].estimate = last

LEMMA EstLoadMakes ==
  ASSUME IInv, NEW w \in Workers, EstLoad(w)
  PROVE  MemoryMade(w)
<1>1. /\ pc[w] = "estLoad" /\ seg[w] \in Row /\ seg \in [Workers -> Row \cup {Null}]
      /\ pc'[w] = AfterEstimate
  BY CompletionKnows DEF EstLoad, Goto, CompletionOK, IInv, TypeOK
<1>2. pc[w] \in Estimating /\ pc'[w] # "insert" /\ pc[w] # "insert"
  BY <1>1, AfterEstimateStep DEF Estimating, CompleteSteps
<1>3. PICK last \in LastEnds(trips, veh[w]) :
        seg' = [seg EXCEPT ![w].estimate =
                  IF last # Null /\ InterpolateTripStart(last, ev[w].startLoc)
                  THEN last ELSE @]
  BY DEF EstLoad
<1>4. CASE last # Null /\ InterpolateTripStart(last, ev[w].startLoc)
  <2>1. seg' = [seg EXCEPT ![w].estimate = last]
    BY <1>3, <1>4
  <2>2. /\ seg'[w].estimate = last
        /\ seg'[w].token = seg[w].token /\ seg'[w].startTime = seg[w].startTime
    BY <1>1, <2>1 DEF Row
  <2> QED
    BY <1>1, <1>2, <1>4, <2>2 DEF MemoryMade
<1>5. CASE ~(last # Null /\ InterpolateTripStart(last, ev[w].startLoc))
  <2>1. seg' = [seg EXCEPT ![w].estimate = seg[w].estimate]
    BY <1>3, <1>5
  <2>2. SameEstimate(seg'[w], seg[w])
    BY <1>1, <2>1 DEF Row, SameEstimate
  <2> QED
    BY <1>2, <2>2 DEF MemoryMade
<1> QED
  BY <1>4, <1>5

LEMMA HandlerMakes ==
  ASSUME IInv, NEW w \in Workers, HandlerStep(w), pc'[w] \in Estimating
  PROVE  ev'[w] = ev[w] /\ MemoryMade(w)
<1> USE DEF Estimating, CompleteSteps, IInv, TypeOK
<1>1. ASSUME NEW handled, Return(w, handled)
      PROVE  FALSE
  BY <1>1 DEF Return, Clear
<1>2. ev'[w] = ev[w]
  BY <1>1 DEF HandlerStep, StoreVehicle, ReadVehicle, LoadLast, Insert, ReadTrip, EstVehicle,
         EstLoad, Fetch, Upload, Update, Succeed, ReturnErr, Goto
<1>3. CASE LoadLast(w)
  BY <1>3 DEF LoadLast, Goto, MemoryMade
<1>4. CASE ReadTrip(w)
  BY <1>1, <1>4, AfterEstimateStep DEF ReadTrip, ReturnErr, Goto, MemoryMade, FreshKeys
<1>5. CASE EstLoad(w)
  BY <1>2, <1>5, EstLoadMakes
<1>6. CASE EstVehicle(w) \/ Fetch(w)
  BY <1>6, AfterEstimateStep DEF EstVehicle, Fetch, Goto, MemoryMade, SameEstimate
<1>7. CASE Upload(w)
  <2>1. seg[w] \in Row /\ pc[w] = "upload"
    BY <1>7, CompletionKnows DEF Upload, CompletionOK
  <2>2. SameEstimate(seg'[w], seg[w])
    BY <1>7, <2>1 DEF Upload, Row, SameEstimate
  <2>3. pc'[w] = "update"
    BY <1>7 DEF Upload, Goto
  <2> QED
    BY <1>2, <2>1, <2>2, <2>3 DEF MemoryMade
<1>8. CASE StoreVehicle(w) \/ ReadVehicle(w) \/ Insert(w) \/ Update(w)
  <2>1. pc'[w] = "loadLast"
    BY <1>1, <1>8 DEF StoreVehicle, ReadVehicle, Insert, Update, Succeed, ReturnErr, Goto
  <2> QED
    BY <2>1
<1> QED
  BY <1>2, <1>3, <1>4, <1>5, <1>6, <1>7, <1>8 DEF HandlerStep

LEMMA MemoryEstimates ==
  ASSUME IInv, [Next]_vars, NEW w \in Workers, pc'[w] \in Estimating
  PROVE  ev'[w] = ev[w] /\ MemoryMade(w)
<1>1. CASE Untouched(w)
  BY <1>1 DEF Untouched, MemoryMade, SameEstimate
<1>2. CASE HandlerStep(w)
  BY <1>2, HandlerMakes
<1>3. CASE EstimateFails(w)
  <2>1. /\ pc[w] \in {"estVehicle", "estLoad"} /\ pc'[w] = AfterEstimate
        /\ ev' = ev /\ seg' = seg
    BY <1>3 DEF EstimateFails, Goto, IInv, TypeOK
  <2> QED
    BY <2>1, AfterEstimateStep DEF MemoryMade, SameEstimate, Estimating, CompleteSteps
<1>4. CASE (\E e \in Events : Claim(w, e)) \/ CallFails(w) \/ AnswerLost(w) \/ Crash(w)
  <2>1. pc'[w] \in {"idle", "vehicleEvent", "readTrip", "readVehicle"}
    BY <1>4 DEF Claim, FirstStep, CallFails, AnswerLost, Crash, ReturnErr, Return, Clear,
                IInv, TypeOK
  <2> QED
    BY <2>1 DEF Estimating, CompleteSteps
<1>5. ASSUME NEW v \in Workers \ {w},
             \/ \E e \in Events : Claim(v, e)
             \/ HandlerStep(v) \/ CallFails(v) \/ EstimateFails(v) \/ AnswerLost(v)
             \/ Crash(v)
      PROVE  Untouched(w)
  BY <1>5, ClaimGood, HandlerStepGood, FaultGood DEF GoodStep, OthersUntouched
<1>6. CASE (\E e \in Events : Rebalance(e)) \/ Quiet \/ UNCHANGED vars
  BY <1>1, <1>6 DEF Rebalance, Quiet, vars, Untouched
<1>7. \/ (\E e \in Events : Rebalance(e)) \/ Quiet \/ UNCHANGED vars
      \/ \E v \in Workers :
           \/ \E e \in Events : Claim(v, e)
           \/ HandlerStep(v) \/ CallFails(v) \/ EstimateFails(v) \/ AnswerLost(v)
           \/ Crash(v)
  BY DEF Next
<1> QED
  BY <1>1, <1>2, <1>3, <1>4, <1>5, <1>6, <1>7

----------------------------------------------------------------------------
(* An estimate is near a reported start *)

NearStart(t, p) ==
  p # Null => \E e \in SegmentEvents :
                /\ e.id = t /\ e.startLoc # Null
                /\ InterpolateTripStart(p, e.startLoc)

NearInv ==
  /\ \A t \in TripIds : trips[t] # Null => NearStart(t, trips[t].estimate)
  /\ \A w \in Workers : pc[w] \in Estimating => NearStart(ev[w].id, seg[w].estimate)

LEMMA NewTripNear ==
  ASSUME NEW e \in SegmentEvents, NEW k, NEW last
  PROVE  NearStart(e.id, NewTrip(e, k, last).estimate)
BY DEF NearStart, NewTrip

LEMMA FinishedNear ==
  ASSUME NEW e \in SegmentEvents, NEW row \in Row, NEW k, NearStart(e.id, row.estimate)
  PROVE  NearStart(e.id, Finished(e, row, k).estimate)
<1>1. CASE LateStart(e, row)
  <2>1. e.startLoc # Null /\ e.startLoc \in Locations
    BY <1>1, EventsAssumption DEF LateStart, SegmentEvent
  <2>2. InterpolateTripStart(e.startLoc, e.startLoc)
    BY <2>1, NearAssumption DEF InterpolateTripStart
  <2>3. Finished(e, row, k).estimate = e.startLoc
    BY <1>1 DEF Finished, Row
  <2> QED
    BY <2>1, <2>2, <2>3 DEF NearStart
<1>2. CASE ~LateStart(e, row)
  BY <1>2 DEF Finished, Row
<1> QED
  BY <1>1, <1>2

LEMMA NextNearInv ==
  ASSUME IInv, NearInv, [Next]_vars
  PROVE  NearInv'
<1>1. ASSUME NEW t \in TripIds, trips'[t] # Null
      PROVE  NearStart(t, trips'[t].estimate)
  <2>1. CASE trips[t] # Null /\ SameEstimate(trips'[t], trips[t])
    BY <2>1 DEF NearInv, SameEstimate
  <2>2. ASSUME NEW w \in Workers, pc[w] \in {"insert", "update"}, ev[w].id = t,
               SameEstimate(trips'[t], seg[w])
        PROVE  NearStart(t, trips'[t].estimate)
    BY <2>2 DEF NearInv, SameEstimate, Estimating, CompleteSteps
  <2> QED
    BY <1>1, <2>1, <2>2, RowEstimates
<1>2. ASSUME NEW w \in Workers, pc'[w] \in Estimating
      PROVE  NearStart(ev'[w].id, seg'[w].estimate)
  <2>1. ev'[w] = ev[w] /\ MemoryMade(w)
    BY <1>2, MemoryEstimates
  <2>2. CASE pc[w] \in Estimating /\ SameEstimate(seg'[w], seg[w])
    BY <2>1, <2>2 DEF NearInv, SameEstimate
  <2>3. CASE pc[w] = "loadLast" /\ \E last : seg'[w] = NewTrip(ev[w], veh[w], last)
    <3>1. ev[w] \in SegmentEvents
      BY <2>3 DEF IInv, HandlerOK, BeginSteps
    <3> QED
      BY <2>1, <2>3, <3>1, NewTripNear
  <2>4. CASE /\ pc[w] = "readTrip" /\ trips[ev[w].id] # Null
             /\ \E k : seg'[w] = Finished(ev[w], trips[ev[w].id], k)
    <3>1. ev[w] \in SegmentEvents /\ ev[w].id \in TripIds
      BY <2>4, EventTypes DEF IInv, HandlerOK, CompleteSteps
    <3>2. trips[ev[w].id] \in Row /\ NearStart(ev[w].id, trips[ev[w].id].estimate)
      BY <2>4, <3>1 DEF IInv, TypeOK, Trips, NearInv
    <3> QED
      BY <2>1, <2>4, <3>1, <3>2, FinishedNear
  <2>5. CASE /\ pc[w] = "estLoad"
             /\ \E last : /\ InterpolateTripStart(last, ev[w].startLoc)
                          /\ seg'[w].estimate = last
    <3>1. ev[w] \in SegmentEvents
      BY <2>5, CompletionKnows
    <3>2. ev[w].startLoc # Null
      BY <2>5, NearAssumption, NullAssumption DEF InterpolateTripStart
    <3> QED
      BY <2>1, <2>5, <3>1, <3>2 DEF NearStart
  <2> QED
    BY <2>1, <2>2, <2>3, <2>4, <2>5 DEF MemoryMade
<1> QED
  BY <1>1, <1>2 DEF NearInv, NearStart

\* Whatever overlaps, fails or is delivered again, a stored estimate is within
\* the threshold of a start position reported for that very trip.
THEOREM EstimatesNearStart == Spec => []EstimateNearStart
<1>1. Init => NearInv
  BY DEF Init, NearInv, Estimating, CompleteSteps
<1>2. IInv /\ NearInv /\ [Next]_vars => NearInv'
  BY NextNearInv
<1>3. NearInv => EstimateNearStart
  BY DEF NearInv, NearStart, EstimateNearStart
<1> QED
  BY <1>1, <1>2, <1>3, Invariance, PTL DEF Spec

----------------------------------------------------------------------------
(* Handled once: without a crash or a move, and where a failed message is  *)
(* skipped, an event that is consumed stays so.                            *)

OnceInv ==
  /\ \A w \in Workers : pc[w] # "idle" => owns[w] /\ Pred[ev[w]] \cap pending = {}
  /\ \A x, y \in Events : x \in Pred[y] /\ x \in pending => y \in pending
  /\ \A f \in SegmentEvents : f.completed /\ Completed(trips, f.id) => f \notin pending

LEMMA RunsGoOn ==
  ASSUME TypeOK, OnceInv, UNCHANGED <<pending, ev, owns>>,
         \A w \in Workers : pc'[w] # "idle" => pc[w] # "idle",
         \A t \in TripIds : trips'[t] = trips[t] \/ ~Completed(trips', t)
  PROVE  OnceInv'
BY EventTypes DEF OnceInv, Completed

LEMMA ClaimOnce ==
  ASSUME TypeOK, OnceInv, NEW w \in Workers, NEW e \in Events, Claim(w, e)
  PROVE  OnceInv'
<1>1. /\ pc'[w] # "idle" => owns'[w] /\ Pred[ev'[w]] \cap pending' = {}
      /\ \A v \in Workers \ {w} : pc'[v] = pc[v] /\ ev'[v] = ev[v] /\ owns'[v] = owns[v]
      /\ UNCHANGED <<pending, trips>>
  BY DEF Claim, TypeOK, stores
<1> QED
  BY <1>1 DEF OnceInv

\* A run that ends has consumed its event, and only then may a trip have been
\* completed by it.
LEMMA ReturnOnce ==
  ASSUME TypeOK, OwnedOnce, OnceInv, OneCompletionPerTrip,
         NEW w \in Workers, Return(w, TRUE), pc[w] # "idle",
         \A f \in SegmentEvents : f.completed /\ Completed(trips', f.id) =>
            Completed(trips, f.id) \/ f = ev[w]
  PROVE  OnceInv'
<1>1. /\ pc'[w] = "idle"
      /\ \A v \in Workers \ {w} : pc'[v] = pc[v] /\ ev'[v] = ev[v] /\ owns'[v] = owns[v]
      /\ pending' = pending \ {ev[w]}
  BY DEF Return, Clear, TypeOK, OnceInv
<1>2. Pred[ev[w]] \cap pending = {}
  BY DEF OnceInv
<1> QED
  BY <1>1, <1>2 DEF OnceInv

LEMMA NextOnceInv ==
  ASSUME IInv, OwnedOnce, OnceInv, OneCompletionPerTrip, SkipOnError, [Next]_vars,
         crashes' = 0, crashes \in Nat
  PROVE  OnceInv'
<1> USE DEF IInv
<1>1. ASSUME NEW w \in Workers, Return(w, TRUE), pc[w] # "idle", trips' = trips
      PROVE  OnceInv'
  BY <1>1, ReturnOnce
<1>2. ASSUME NEW w \in Workers, Return(w, TRUE), pc[w] = "insert",
             trips[ev[w].id] = Null, trips' = InsertTrip(trips, ev[w].id, seg[w])
      PROVE  OnceInv'
  <2>1. PICK e \in SegmentEvents, k \in Tokens : e = ev[w] /\ k = veh[w] /\ e.id \in TripIds
    BY <1>2, EventTypes DEF HandlerOK, BeginSteps
  <2>2. seg[w] \in Row /\ seg[w].endTime = Null
    <3>1. PICK last \in Locations \cup {Null} : seg[w] = NewTrip(e, k, last)
      BY <1>2, <2>1 DEF HandlerOK
    <3> QED
      BY <3>1, NewTripType DEF NewTrip
  <2>3. /\ trips'[e.id] = seg[w]
        /\ \A u \in TripIds \ {e.id} : trips'[u] = trips[u]
    BY <1>2, <2>1, <2>2, InsertTripType DEF TypeOK
  <2>4. \A f \in SegmentEvents : Completed(trips', f.id) => Completed(trips, f.id)
    BY <2>2, <2>3, EventTypes DEF Completed
  <2> QED
    BY <1>2, <2>4, ReturnOnce
<1>3. ASSUME NEW w \in Workers, Return(w, TRUE), pc[w] = "update",
             trips' = UpdateTrip(trips, ev[w].id, seg[w])
      PROVE  OnceInv'
  <2>1. PICK e \in SegmentEvents :
          e = ev[w] /\ e.completed /\ e.id \in TripIds /\ CompletionOK(w)
    BY <1>3, CompletionKnows
  <2>2. seg[w] \in Row /\ trips[e.id] # Null
    BY <2>1 DEF CompletionOK
  <2>3. \A u \in TripIds \ {e.id} : trips'[u] = trips[u]
    BY <1>3, <2>1, <2>2, UpdateTripEffect DEF TypeOK
  <2>4. \A f \in SegmentEvents : f.completed /\ Completed(trips', f.id) =>
           Completed(trips, f.id) \/ f = ev[w]
    BY <2>1, <2>3, EventTypes DEF Completed, OneCompletionPerTrip
  <2> QED
    BY <1>3, <2>4, ReturnOnce
<1>4. ASSUME NEW w \in Workers,
             \/ \E step \in Steps : Goto(w, step) /\ pc[w] # "idle" /\ trips' = trips
             \/ \E e \in Events : Claim(w, e)
      PROVE  OnceInv'
  <2>1. CASE \E e \in Events : Claim(w, e)
    BY <2>1, ClaimOnce
  <2>2. CASE \E step \in Steps : Goto(w, step) /\ pc[w] # "idle" /\ trips' = trips
    <3>1. UNCHANGED <<pending, ev, owns, trips>>
      BY <2>2 DEF Goto
    <3>2. \A v \in Workers : pc'[v] # "idle" => pc[v] # "idle"
      BY <2>2 DEF Goto, TypeOK
    <3> QED
      BY <3>1, <3>2, RunsGoOn
  <2> QED
    BY <1>4, <2>1, <2>2
<1>5. CASE Quiet \/ UNCHANGED vars
  BY <1>5, RunsGoOn DEF Quiet, vars
<1>6. ~\E w \in Workers : Crash(w)
  BY DEF Crash
<1>7. ~\E e \in Events : Rebalance(e)
  BY DEF Rebalance
<1>8. ASSUME NEW w \in Workers,
             HandlerStep(w) \/ CallFails(w) \/ EstimateFails(w) \/ AnswerLost(w)
      PROVE  \/ Return(w, TRUE) /\ pc[w] # "idle" /\ trips' = trips
             \/ /\ Return(w, TRUE) /\ pc[w] = "insert"
                /\ trips[ev[w].id] = Null /\ trips' = InsertTrip(trips, ev[w].id, seg[w])
             \/ /\ Return(w, TRUE) /\ pc[w] = "update"
                /\ trips' = UpdateTrip(trips, ev[w].id, seg[w])
             \/ \E step \in Steps : Goto(w, step) /\ pc[w] # "idle" /\ trips' = trips
  <2>1. SkipOnError = TRUE
    BY SettingsAssumption
  <2>2. CASE HandlerStep(w)
    BY <2>1, <2>2, AfterEstimateStep
       DEF HandlerStep, StoreVehicle, ReadVehicle, LoadLast, Insert, ReadTrip, EstVehicle,
           EstLoad, Fetch, Upload, Update, Succeed, ReturnErr, stores, Steps, BeginSteps,
           CompleteSteps
  <2>3. CASE CallFails(w) \/ EstimateFails(w) \/ AnswerLost(w)
    BY <2>1, <2>3, AfterEstimateStep
       DEF CallFails, CallsOut, EstimateFails, AnswerLost, ReturnErr, stores, Steps,
           BeginSteps, CompleteSteps
  <2> QED
    BY <1>8, <2>2, <2>3
<1> QED
  BY <1>1, <1>2, <1>3, <1>4, <1>5, <1>6, <1>7, <1>8 DEF Next

----------------------------------------------------------------------------
(* An estimate is the end of the trip before *)

\* p is reported for trip t itself, or is where another trip of vehicle k had
\* ended by s.
Sourced(t, k, s, p) ==
  \/ p = Null
  \/ \E e \in SegmentEvents : e.id = t /\ e.startLoc = p
  \/ \E u \in TripIds \ {t} :
       /\ Completed(trips, u)
       /\ trips[u].token = k /\ trips[u].endPos = p /\ trips[u].endTime <= s

RowSourced(t) == Sourced(t, trips[t].token, trips[t].startTime, trips[t].estimate)

MemorySourced(w) == Sourced(ev[w].id, seg[w].token, seg[w].startTime, seg[w].estimate)

\* May what w remembers still be stored?
Storable(w) ==
  pc[w] \in Estimating /\ (pc[w] = "insert" => trips[ev[w].id] = Null)

SourceInv ==
  /\ \A t \in TripIds : trips[t] # Null => RowSourced(t)
  /\ \A w \in Workers : Storable(w) => MemorySourced(w)

\* EstLoad loads the last trip of the vehicle the event's device is paired with.
LoadsOwnVehicle == \A w \in Workers : pc[w] = "estLoad" => vehicles[veh[w]] = ev[w].device

LEMMA NextLoadsOwnVehicle ==
  ASSUME IInv, LoadsOwnVehicle, [Next]_vars
  PROVE  LoadsOwnVehicle'
<1> SUFFICES ASSUME NEW w \in Workers, pc'[w] = "estLoad"
             PROVE  vehicles'[veh'[w]] = ev'[w].device
  BY DEF LoadsOwnVehicle
<1>1. ev'[w] = ev[w] /\ MemoryMade(w)
  BY MemoryEstimates DEF Estimating, CompleteSteps
<1>2. CASE EstVehicle(w)
  BY <1>2, AfterEstimateStep DEF EstVehicle, Goto, IInv, TypeOK, VehicleOf, stores
<1>3. CASE ~EstVehicle(w)
  <2>1. pc[w] = "estLoad" /\ veh'[w] = veh[w]
    <3>1. CASE Untouched(w)
      BY <3>1 DEF Untouched
    <3>2. CASE HandlerStep(w)
      BY <1>3, <3>2, AfterEstimateStep
         DEF HandlerStep, StoreVehicle, ReadVehicle, LoadLast, Insert, ReadTrip, EstLoad,
             Fetch, Upload, Update, Succeed, ReturnErr, Return, Clear, Goto, IInv, TypeOK
    <3>3. CASE (\E e \in Events : Claim(w, e)) \/ CallFails(w) \/ EstimateFails(w)
               \/ AnswerLost(w) \/ Crash(w)
      BY <3>3, AfterEstimateStep
         DEF Claim, FirstStep, CallFails, EstimateFails, AnswerLost, Crash, ReturnErr,
             Return, Clear, Goto, IInv, TypeOK
    <3>4. ASSUME NEW v \in Workers \ {w},
                 \/ \E e \in Events : Claim(v, e)
                 \/ HandlerStep(v) \/ CallFails(v) \/ EstimateFails(v) \/ AnswerLost(v)
                 \/ Crash(v)
          PROVE  Untouched(w)
      BY <3>4, ClaimGood, HandlerStepGood, FaultGood DEF GoodStep, OthersUntouched
    <3>5. CASE (\E e \in Events : Rebalance(e)) \/ Quiet \/ UNCHANGED vars
      BY <3>1, <3>5 DEF Rebalance, Quiet, vars, Untouched
    <3>6. \/ (\E e \in Events : Rebalance(e)) \/ Quiet \/ UNCHANGED vars
          \/ \E v \in Workers :
               \/ \E e \in Events : Claim(v, e)
               \/ HandlerStep(v) \/ CallFails(v) \/ EstimateFails(v) \/ AnswerLost(v)
               \/ Crash(v)
      BY DEF Next
    <3> QED
      BY <3>1, <3>2, <3>3, <3>4, <3>5, <3>6
  <2>2. /\ veh[w] \in Tokens /\ vehicles[veh[w]] = ev[w].device /\ ev[w] \in SegmentEvents
    BY <2>1, CompletionKnows DEF LoadsOwnVehicle, IInv, HandlerOK
  <2>3. vehicles'[veh[w]] = vehicles[veh[w]]
    BY <2>2, NextIInv, EventTypes DEF StoresGrow, VehiclesKept
  <2> QED
    BY <1>1, <2>1, <2>2, <2>3
<1> QED
  BY <1>2, <1>3

\* Where and when a trip ended does not change once it is stored.
LEMMA EndsStay ==
  ASSUME IInv, [Next]_vars, OneCompletionPerTrip, NEW u \in TripIds, Completed(trips, u)
  PROVE  /\ Completed(trips', u) /\ trips'[u].token = trips[u].token
         /\ trips'[u].endPos = trips[u].endPos /\ trips'[u].endTime = trips[u].endTime
<1>1. IInv' /\ StoresGrow
  BY NextIInv
<1>2. /\ trips[u] # Null /\ trips[u].endTime # Null
      /\ trips'[u] # Null /\ trips'[u].endTime # Null /\ trips'[u].token = trips[u].token
  BY <1>1 DEF StoresGrow, TripsKept, Completed
<1>3. PICK e \in SegmentEvents :
        /\ e.id = u /\ e.completed
        /\ trips[u].endTime = e.endTime /\ trips[u].endPos = e.endLoc
  BY <1>2 DEF IInv, RowOK, EndReported
<1>4. PICK f \in SegmentEvents :
        /\ f.id = u /\ f.completed
        /\ trips'[u].endTime = f.endTime /\ trips'[u].endPos = f.endLoc
  BY <1>1, <1>2 DEF IInv, RowOK, EndReported
<1>5. e = f
  BY <1>3, <1>4 DEF OneCompletionPerTrip
<1> QED
  BY <1>2, <1>3, <1>4, <1>5 DEF Completed

LEMMA SourcedStays ==
  ASSUME IInv, [Next]_vars, OneCompletionPerTrip,
         NEW t, NEW k, NEW s, NEW p, Sourced(t, k, s, p)
  PROVE  Sourced(t, k, s, p)'
BY EndsStay DEF Sourced

LEMMA LastEndSource ==
  ASSUME NEW table, NEW k, NEW last \in LastEnds(table, k), last # Null
  PROVE  \E u \in CompletedOf(table, k) : table[u].endPos = last
BY DEF LastEnds, LastCompleted

\* The completion behind a completed trip of the vehicle paired with device d.
LEMMA EndOfTrip ==
  ASSUME IInv, OneDevicePerTrip, OnceInv, NEW k \in Tokens, NEW u \in CompletedOf(trips, k)
  PROVE  \E f \in SegmentEvents :
           /\ f.id = u /\ f.completed /\ f \notin pending
           /\ f.device = vehicles[k] /\ trips[u].endTime = f.endTime
<1>1. u \in TripIds /\ Completed(trips, u) /\ trips[u].token = k
  BY DEF CompletedOf
<1>2. PICK f \in SegmentEvents :
        f.id = u /\ f.completed /\ trips[u].endTime = f.endTime
  BY <1>1 DEF IInv, RowOK, EndReported, Completed
<1>3. PICK b \in SegmentEvents : b.id = u /\ vehicles[k] = b.device
  BY <1>1 DEF IInv, RowOK, StartReported, Completed
<1>4. f \notin pending
  BY <1>1, <1>2 DEF OnceInv
<1> QED
  BY <1>2, <1>3, <1>4 DEF OneDevicePerTrip

LEMMA InOrderConsumed ==
  ASSUME OnceInv, InOrderOfDrive, NEW e \in SegmentEvents, NEW f \in SegmentEvents,
         e.device = f.device, e \in pending, f \notin pending
  PROVE  ~(Moment(e) < Moment(f))
BY DEF OnceInv, InOrderOfDrive, Events

\* LoadLast: the vehicle's completed trips had ended when this one began.
LEMMA LoadLastSource ==
  ASSUME IInv, OwnedOnce, OnceInv, OneDevicePerTrip, InOrderOfDrive,
         NEW w \in Workers, pc[w] = "loadLast", trips[ev[w].id] = Null,
         NEW last \in LastEnds(trips, veh[w]),
         seg'[w] = NewTrip(ev[w], veh[w], last), ev'[w] = ev[w]
  PROVE  Sourced(ev[w].id, seg'[w].token, seg'[w].startTime, seg'[w].estimate)
<1>1. PICK b \in SegmentEvents, k \in Tokens :
        /\ b = ev[w] /\ k = veh[w] /\ ~b.completed /\ vehicles[k] = b.device
        /\ b \in pending
  BY DEF IInv, HandlerOK, BeginSteps, OnceInv, OwnedOnce
<1> DEFINE row == NewTrip(b, k, last)
<1>2. row.token = k /\ row.startTime = b.startTime /\ row.estimate \in {last, Null}
  BY DEF NewTrip
<1>3. CASE row.estimate = Null
  BY <1>1, <1>3 DEF Sourced
<1>4. CASE row.estimate = last /\ last # Null
  <2>1. PICK u \in CompletedOf(trips, k) : trips[u].endPos = last
    BY <1>1, <1>4, LastEndSource
  <2>2. u \in TripIds /\ Completed(trips, u) /\ trips[u].token = k
    BY <2>1 DEF CompletedOf
  <2>3. PICK f \in SegmentEvents :
          /\ f.completed /\ f \notin pending
          /\ f.device = b.device /\ trips[u].endTime = f.endTime
    BY <1>1, EndOfTrip
  <2>4. ~(b.startTime < f.endTime)
    BY <1>1, <2>3, InOrderConsumed DEF Moment
  <2>5. trips[u].endTime <= b.startTime
    <3>1. b.startTime \in Nat /\ f.endTime \in Nat
      BY EventTypes, TimesAssumption
    <3> QED
      BY <2>3, <2>4, <3>1
  <2>6. u # b.id
    BY <1>1, <2>2 DEF Completed
  <2> QED
    BY <1>1, <1>2, <1>4, <2>1, <2>2, <2>5, <2>6 DEF Sourced
<1> QED
  BY <1>2, <1>3, <1>4

\* EstLoad: the vehicle's completed trips are others, and had ended, too.
LEMMA EstLoadSource ==
  ASSUME IInv, OwnedOnce, PairedOnce, LoadsOwnVehicle, OnceInv,
         OneDevicePerTrip, InOrderOfDrive, TripsDoNotOverlap,
         NEW w \in Workers, pc[w] = "estLoad",
         NEW last \in LastEnds(trips, veh[w]), last # Null
  PROVE  Sourced(ev[w].id, seg[w].token, seg[w].startTime, last)
<1>1. PICK c \in SegmentEvents, k \in Tokens :
        /\ c = ev[w] /\ k = veh[w] /\ c.completed /\ c.id \in TripIds /\ CompletionOK(w)
        /\ vehicles[k] = c.device /\ c \in pending
  BY CompletionKnows DEF IInv, HandlerOK, OnceInv, OwnedOnce, LoadsOwnVehicle
<1>2. /\ trips[c.id] # Null
      /\ seg[w].token = trips[c.id].token /\ seg[w].startTime = trips[c.id].startTime
  BY <1>1 DEF CompletionOK
<1>3. PICK b \in SegmentEvents :
        /\ b.id = c.id /\ ~b.completed
        /\ vehicles[trips[c.id].token] = b.device /\ trips[c.id].startTime = b.startTime
  BY <1>1, <1>2 DEF IInv, RowOK, StartReported
<1>4. trips[c.id].token = k
  <2>1. trips[c.id].token \in Tokens
    BY <1>1, <1>2 DEF IInv, TypeOK, Trips, Row
  <2>2. vehicles[trips[c.id].token] = vehicles[k] /\ vehicles[k] # Null
    BY <1>1, <1>3, EventTypes DEF OneDevicePerTrip
  <2> QED
    BY <2>1, <2>2 DEF PairedOnce
<1>5. PICK u \in CompletedOf(trips, k) : trips[u].endPos = last
  BY <1>1, LastEndSource
<1>6. u \in TripIds /\ Completed(trips, u) /\ trips[u].token = k
  BY <1>5 DEF CompletedOf
<1>7. PICK f \in SegmentEvents :
        /\ f.id = u /\ f.completed /\ f \notin pending
        /\ f.device = c.device /\ trips[u].endTime = f.endTime
  BY <1>1, EndOfTrip
<1>8. u # c.id
  BY <1>1, <1>6 DEF OnceInv
<1>9. ~(c.endTime < f.endTime)
  BY <1>1, <1>7, InOrderConsumed DEF Moment
<1>10. f.endTime <= b.startTime
  <2>1. f.endTime <= b.startTime \/ f.endTime > c.endTime
    BY <1>1, <1>3, <1>7, <1>8 DEF TripsDoNotOverlap
  <2> QED
    BY <1>9, <2>1, EventTypes, TimesAssumption
<1> QED
  BY <1>1, <1>2, <1>3, <1>4, <1>5, <1>6, <1>7, <1>8, <1>10 DEF Sourced

LEMMA NextSourceInv ==
  ASSUME IInv, OwnedOnce, PairedOnce, LoadsOwnVehicle, OnceInv, SourceInv, [Next]_vars,
         OneDevicePerTrip, OneCompletionPerTrip, InOrderOfDrive, TripsDoNotOverlap
  PROVE  SourceInv'
<1>1. IInv' /\ StoresGrow
  BY NextIInv
<1>2. ASSUME NEW t \in TripIds, trips'[t] # Null
      PROVE  RowSourced(t)'
  <2>1. CASE trips[t] # Null /\ SameEstimate(trips'[t], trips[t])
    BY <2>1, SourcedStays DEF SourceInv, RowSourced, SameEstimate, Sourced
  <2>2. ASSUME NEW w \in Workers, pc[w] = "update" \/ (pc[w] = "insert" /\ trips[t] = Null),
               ev[w].id = t, SameEstimate(trips'[t], seg[w])
        PROVE  RowSourced(t)'
    <3>1. Sourced(t, seg[w].token, seg[w].startTime, seg[w].estimate)
      BY <2>2 DEF SourceInv, MemorySourced, Storable, Estimating, CompleteSteps
    <3> QED
      BY <2>2, <3>1, SourcedStays DEF RowSourced, SameEstimate, Sourced
  <2> QED
    BY <1>2, <2>1, <2>2, RowEstimates
<1>3. ASSUME NEW w \in Workers, Storable(w)'
      PROVE  MemorySourced(w)'
  <2>1. ev'[w] = ev[w] /\ MemoryMade(w) /\ pc'[w] \in Estimating
    BY <1>3, MemoryEstimates DEF Storable
  <2>2. ev[w] \in SegmentEvents /\ ev[w].id \in TripIds
    BY <2>1, EventTypes DEF MemoryMade, Estimating, IInv, HandlerOK, BeginSteps, CompleteSteps
  <2>3. pc'[w] = "insert" => trips[ev[w].id] = Null
    BY <1>1, <1>3, <2>1, <2>2 DEF Storable, StoresGrow, TripsKept
  <2>4. ASSUME Sourced(ev[w].id, seg'[w].token, seg'[w].startTime, seg'[w].estimate)
        PROVE  MemorySourced(w)'
    <3>1. PICK t, k, s, p : t = ev[w].id /\ k = seg'[w].token /\ s = seg'[w].startTime
                            /\ p = seg'[w].estimate
      OBVIOUS
    <3>2. Sourced(t, k, s, p)
      BY <2>4, <3>1
    <3>3. Sourced(t, k, s, p)'
      BY <3>2, SourcedStays
    <3> QED
      BY <2>1, <3>1, <3>3 DEF MemorySourced, Sourced
  <2>5. CASE /\ pc[w] \in Estimating /\ (pc'[w] = "insert" <=> pc[w] = "insert")
             /\ SameEstimate(seg'[w], seg[w])
    BY <2>3, <2>4, <2>5 DEF SourceInv, Storable, MemorySourced, SameEstimate
  <2>6. CASE /\ pc[w] = "loadLast" /\ pc'[w] = "insert"
             /\ \E last \in LastEnds(trips, veh[w]) : seg'[w] = NewTrip(ev[w], veh[w], last)
    <3>1. Sourced(ev[w].id, seg'[w].token, seg'[w].startTime, seg'[w].estimate)
      BY <2>1, <2>3, <2>6, LoadLastSource
    <3> QED
      BY <2>4, <3>1
  <2>7. CASE /\ pc[w] = "readTrip" /\ trips[ev[w].id] # Null
             /\ \E k \in Keys : seg'[w] = Finished(ev[w], trips[ev[w].id], k)
    <3>1. trips[ev[w].id] \in Row /\ RowSourced(ev[w].id)
      BY <2>2, <2>7 DEF IInv, TypeOK, Trips, SourceInv
    <3>2. /\ seg'[w].token = trips[ev[w].id].token
          /\ seg'[w].startTime = trips[ev[w].id].startTime
          /\ seg'[w].estimate \in {trips[ev[w].id].estimate, ev[w].startLoc}
      BY <2>7, <3>1 DEF Finished, Row
    <3>3. Sourced(ev[w].id, seg'[w].token, seg'[w].startTime, seg'[w].estimate)
      BY <2>2, <3>1, <3>2 DEF RowSourced, Sourced
    <3> QED
      BY <2>4, <3>3
  <2>8. CASE /\ pc[w] = "estLoad"
             /\ seg'[w].token = seg[w].token /\ seg'[w].startTime = seg[w].startTime
             /\ \E last \in LastEnds(trips, veh[w]) : last # Null /\ seg'[w].estimate = last
    <3>1. Sourced(ev[w].id, seg'[w].token, seg'[w].startTime, seg'[w].estimate)
      BY <2>8, EstLoadSource
    <3> QED
      BY <2>4, <3>1
  <2> QED
    BY <2>1, <2>5, <2>6, <2>7, <2>8 DEF MemoryMade
<1> QED
  BY <1>2, <1>3 DEF SourceInv

HandledOnceInv ==
  /\ OwnedOnce /\ PairedOnce /\ LoadsOwnVehicle
  /\ crashes = 0 => OnceInv /\ SourceInv

\* Where failed messages are skipped, a device's events come in the order of
\* the drive, a trip has one device and one completion, and the trips of a
\* device do not overlap: as long as no replica dies and no partition moves,
\* an estimate that is not a reported start is where the vehicle's trip before
\* ended.  Calls may fail and answers get lost at any time.
THEOREM EstimatesFromPreviousTrip ==
  ASSUME SkipOnError, OneDevicePerTrip, OneCompletionPerTrip, InOrderOfDrive,
         TripsDoNotOverlap
  PROVE  Spec => []EstimateWhenHandledOnce
<1>1. Init => HandledOnceInv
  <2> SUFFICES ASSUME Init PROVE HandledOnceInv
    OBVIOUS
  <2>1. OwnedOnce /\ PairedOnce /\ LoadsOwnVehicle
    BY RegisteredAssumption DEF Init, OwnedOnce, PairedOnce, LoadsOwnVehicle
  <2>2. OnceInv /\ SourceInv
    BY EventTypes DEF Init, OnceInv, SourceInv, Storable, Estimating, CompleteSteps, Completed
  <2> QED
    BY <2>1, <2>2 DEF HandledOnceInv
<1>2. IInv /\ HandledOnceInv /\ [Next]_vars => HandledOnceInv'
  <2> SUFFICES ASSUME IInv, HandledOnceInv, [Next]_vars PROVE HandledOnceInv'
    OBVIOUS
  <2>1. OwnedOnce' /\ PairedOnce' /\ LoadsOwnVehicle'
    BY NextOwnedOnce, NextPairedOnce, NextLoadsOwnVehicle DEF HandledOnceInv, IInv
  <2>2. crashes \in Nat /\ (crashes' = crashes \/ crashes' = crashes + 1)
    BY FaultsType DEF IInv, Next, HandlerStep, StoreVehicle, Claim, ReadVehicle, LoadLast, Insert,
       ReadTrip, EstVehicle, EstLoad, Fetch, Upload, Update, CallFails, EstimateFails, AnswerLost,
       Crash, Rebalance, Quiet, vars, budget
  <2>3. ASSUME crashes' = 0
        PROVE  OnceInv' /\ SourceInv'
    <3>1. crashes = 0 /\ OnceInv /\ SourceInv
      BY <2>2, <2>3 DEF HandledOnceInv
    <3> QED
      BY <2>2, <2>3, <3>1, NextOnceInv, NextSourceInv DEF HandledOnceInv
  <2> QED
    BY <2>1, <2>3 DEF HandledOnceInv
<1>3. HandledOnceInv => EstimateWhenHandledOnce
  BY DEF HandledOnceInv, SourceInv, RowSourced, Sourced, EstimateWhenHandledOnce,
         EstimateFromPreviousTrip
<1> QED
  BY <1>1, <1>2, <1>3, Invariance, PTL DEF Spec

----------------------------------------------------------------------------
(* The droppedData flag is the one the last trip calls for: a vehicle's    *)
(* last end does not change between LoadLast and Insert, because what      *)
(* could change it, the completion of another trip of the device, is ahead *)
(* of the beginning in its partition or behind it.  If no call fails, what *)
(* is ahead has been stored (AheadDone); if nothing moves, nothing ahead   *)
(* is still running (RunsInOrder).                                         *)

BeginsCurrent ==
  \A w \in Workers : pc[w] = "insert" /\ trips[ev[w].id] = Null =>
    \E last \in LastEnds(trips, veh[w]) : seg[w] = NewTrip(ev[w], veh[w], last)

\* Event x has done what it asks for.
Effective(x) ==
  x \in SegmentEvents => trips[x.id] # Null /\ (x.completed => Completed(trips, x.id))

AheadDone ==
  /\ \A w \in Workers : pc[w] # "idle" => \A x \in Pred[ev[w]] : Effective(x)
  /\ \A x \in Events \ pending : Effective(x)

RunsInOrder == \A w \in Workers : pc[w] # "idle" => owns[w] /\ Pred[ev[w]] \cap pending = {}

AllPaired ==
  \A e \in SegmentEvents : ~e.completed => \E k \in Tokens : vehicles[k] = e.device

LEMMA OnlyClaimsWake ==
  ASSUME TypeOK, [Next]_vars, NEW w \in Workers, pc[w] = "idle", pc'[w] # "idle"
  PROVE  \E e \in Events : Claim(w, e)
BY DEF TypeOK, Next, HandlerStep, StoreVehicle, Claim, ReadVehicle, LoadLast, Insert, ReadTrip,
       EstVehicle, EstLoad, Fetch, Upload, Update, CallFails, CallsOut, EstimateFails, AnswerLost,
       Crash, Rebalance, Quiet, vars, Succeed, ReturnErr, Return, Clear, Goto, BeginSteps

LEMMA NextRunsInOrder ==
  ASSUME TypeOK, RunsInOrder, [Next]_vars, crashes \in Nat, crashes' = 0
  PROVE  RunsInOrder'
<1>1. ASSUME NEW w \in Workers, NEW e \in Events, Claim(w, e)
      PROVE  RunsInOrder'
  <2>1. \A v \in Workers \ {w} : pc'[v] = pc[v]
    BY <1>1 DEF Claim, TypeOK
  <2>2. Pred[e] \cap pending = {}
    BY <1>1 DEF Claim
  <2> QED
    BY <1>1, <2>1, <2>2, ClaimRuns DEF RunsInOrder
<1>2. ASSUME ~\E w \in Workers, e \in Events : Claim(w, e)
      PROVE  RunsInOrder'
  <2>1. \A w \in Workers : pc'[w] # "idle" => pc[w] # "idle"
    BY <1>2, OnlyClaimsWake
  <2>2. CASE SameRuns
    BY <2>1, <2>2 DEF SameRuns, RunsInOrder
  <2>3. ASSUME NEW w \in Workers, NEW handled, Return(w, handled)
        PROVE  RunsInOrder'
    <3>1. /\ pc'[w] = "idle" /\ pending' \subseteq pending
          /\ \A v \in Workers \ {w} : ev'[v] = ev[v] /\ owns'[v] = owns[v]
      BY <2>3 DEF Return, Clear, TypeOK
    <3> QED
      BY <2>1, <3>1 DEF RunsInOrder
  <2>4. ~\E w \in Workers : Crash(w)
    BY DEF Crash
  <2>5. ~\E e \in Events : Rebalance(e)
    BY DEF Rebalance
  <2> QED
    BY <1>2, <2>2, <2>3, <2>4, <2>5, DeliveryKinds
<1> QED
  BY <1>1, <1>2

LEMMA NextAllPaired ==
  ASSUME IInv, AllPaired, [Next]_vars
  PROVE  AllPaired'
BY NextIInv, EventTypes DEF AllPaired, StoresGrow, VehiclesKept

LEMMA EffectiveStays ==
  ASSUME IInv, [Next]_vars, NEW x, Effective(x)
  PROVE  Effective(x)'
BY NextIInv, EventTypes DEF Effective, Completed, StoresGrow, TripsKept

\* A handler that goes wrong without any call failing has found no vehicle, no
\* trip, or the row taken: the first two cannot be, the third is no loss.
LEMMA HandlerEffective ==
  ASSUME IInv, AllPaired, AheadDone, BeginningsFirst, NEW w \in Workers, HandlerStep(w)
  PROVE  \/ pending' = pending
         \/ \E x : pending' = pending \ {x} /\ Effective(x)'
<1> USE DEF IInv, HandlerOK
<1>1. CASE StoreVehicle(w)
  <2>1. ev[w] \in VehicleEvents
    BY <1>1 DEF StoreVehicle
  <2>2. PICK x : x = ev[w]
    OBVIOUS
  <2>3. Effective(x)'
    BY <2>1, <2>2, TopicsApart DEF Effective
  <2> QED
    BY <1>1, <2>2, <2>3 DEF StoreVehicle, Succeed, ReturnErr, Return
<1>2. CASE ReadVehicle(w)
  <2>1. VehicleOf(vehicles, ev[w].device) # {}
    BY <1>2 DEF ReadVehicle, BeginSteps, AllPaired, VehicleOf
  <2> QED
    BY <1>2, <2>1 DEF ReadVehicle, Goto
<1>3. CASE Insert(w)
  <2>1. PICK e \in SegmentEvents, k \in Tokens :
          e = ev[w] /\ k = veh[w] /\ e.id \in TripIds /\ ~e.completed
    BY <1>3, EventTypes DEF Insert, BeginSteps
  <2>2. trips'[e.id] # Null
    BY <1>3, <2>1, InsertStores
  <2>3. Effective(e)'
    BY <2>1, <2>2 DEF Effective
  <2> QED
    BY <1>3, <2>1, <2>3 DEF Insert, Succeed, ReturnErr, Return
<1>4. CASE ReadTrip(w)
  <2>1. ev[w] \in SegmentEvents /\ ev[w].completed /\ pc[w] # "idle"
    BY <1>4 DEF ReadTrip, CompleteSteps
  <2>2. PICK b \in SegmentEvents : b.id = ev[w].id /\ b \in Pred[ev[w]]
    BY <2>1 DEF BeginningsFirst
  <2>3. trips[ev[w].id] # Null
    BY <2>1, <2>2 DEF AheadDone, Effective
  <2> QED
    BY <1>4, <2>3 DEF ReadTrip, Goto
<1>5. CASE Update(w)
  <2>1. PICK e \in SegmentEvents :
          e = ev[w] /\ trips'[e.id] # Null /\ Completed(trips', e.id)
    BY <1>5, UpdateStores
  <2>5. Effective(e)'
    BY <2>1 DEF Effective, Completed
  <2> QED
    BY <1>5, <2>1, <2>5 DEF Update, Succeed, Return
<1>6. CASE LoadLast(w) \/ EstVehicle(w) \/ EstLoad(w) \/ Fetch(w) \/ Upload(w)
  BY <1>6 DEF LoadLast, EstVehicle, EstLoad, Fetch, Upload, Goto
<1> QED
  BY <1>1, <1>2, <1>3, <1>4, <1>5, <1>6 DEF HandlerStep

LEMMA NextAheadDone ==
  ASSUME IInv, AllPaired, AheadDone, BeginningsFirst, [Next]_vars, errors \in Nat, errors' = 0
  PROVE  AheadDone'
<1>1. \A x : Effective(x) => Effective(x)'
  BY EffectiveStays
<1>2. ASSUME NEW w \in Workers, NEW e \in Events, Claim(w, e)
      PROVE  AheadDone'
  <2>1. /\ ev'[w] = e /\ pending' = pending
        /\ \A v \in Workers \ {w} : ev'[v] = ev[v] /\ pc'[v] = pc[v]
    BY <1>2 DEF Claim, IInv, TypeOK
  <2>2. \A x \in Pred[e] : x \in Events \ pending
    BY <1>2, EventsAssumption DEF Claim
  <2> QED
    BY <1>1, <2>1, <2>2 DEF AheadDone
<1>3. ASSUME ~\E w \in Workers, e \in Events : Claim(w, e)
      PROVE  AheadDone'
  <2>1. \A w \in Workers : pc'[w] # "idle" => pc[w] # "idle"
    BY <1>3, OnlyClaimsWake DEF IInv
  <2>2. \A w \in Workers : pc'[w] # "idle" => ev'[w] = ev[w]
    <3>1. ASSUME NEW w \in Workers, Clear(w)
          PROVE  \A v \in Workers : pc'[v] # "idle" => ev'[v] = ev[v]
      BY <3>1 DEF Clear, IInv, TypeOK
    <3> QED
      BY <1>3, <3>1, DeliveryKinds DEF SameRuns, Return, Crash, Rebalance
  <2>3. \A w \in Workers : pc'[w] # "idle" => \A x \in Pred[ev'[w]] : Effective(x)'
    BY <1>1, <2>1, <2>2 DEF AheadDone
  <2>4. \A x \in Events \ pending' : Effective(x)'
    <3>1. CASE \E w \in Workers : HandlerStep(w)
      BY <1>1, <3>1, HandlerEffective DEF AheadDone
    <3>2. CASE (\E w \in Workers : EstimateFails(w) \/ Crash(w)) \/ Quiet \/ UNCHANGED vars
      BY <1>1, <3>2 DEF AheadDone, EstimateFails, Goto, Crash, Quiet, vars
    <3>3. CASE \E e \in Events : Rebalance(e)
      BY <1>1, <3>3, RebalanceRuns DEF AheadDone, IInv
    <3>4. ~\E w \in Workers : CallFails(w) \/ AnswerLost(w)
      BY DEF CallFails, AnswerLost
    <3> QED
      BY <1>3, <3>1, <3>2, <3>3, <3>4 DEF Next
  <2> QED
    BY <2>3, <2>4 DEF AheadDone
<1> QED
  BY <1>2, <1>3

\* A load of the last trip sees the completed trips and their ends only.
LEMMA SameLastEnds ==
  ASSUME NEW old, NEW new, NEW k,
         \A u \in TripIds :
           \/ Completed(old, u) /\ old[u].token = k
           \/ Completed(new, u) /\ new[u].token = k
           => /\ Completed(old, u) /\ Completed(new, u)
              /\ new[u].token = old[u].token
              /\ new[u].endTime = old[u].endTime /\ new[u].endPos = old[u].endPos
  PROVE  LastEnds(new, k) = LastEnds(old, k)
<1>1. CompletedOf(new, k) = CompletedOf(old, k)
  BY DEF CompletedOf
<1>2. \A u \in CompletedOf(old, k) :
        new[u].endTime = old[u].endTime /\ new[u].endPos = old[u].endPos
  BY DEF CompletedOf
<1>3. LastCompleted(new, k) = LastCompleted(old, k)
  BY <1>1, <1>2 DEF LastCompleted
<1>4. LastCompleted(old, k) \subseteq CompletedOf(old, k)
  BY DEF LastCompleted
<1> QED
  BY <1>1, <1>2, <1>3, <1>4 DEF LastEnds

LEMMA RowWrites ==
  ASSUME IInv, [Next]_vars, NEW t \in TripIds, trips'[t] # trips[t]
  PROVE  \E w \in Workers :
           /\ ev[w] \in SegmentEvents /\ ev[w].id = t
           /\ \/ pc[w] = "insert" /\ trips[t] = Null /\ trips'[t] = seg[w]
              \/ pc[w] = "update" /\ trips[t] # Null
<1>1. ASSUME NEW w \in Workers, pc[w] = "insert", trips[ev[w].id] = Null,
             trips' = InsertTrip(trips, ev[w].id, seg[w])
      PROVE  ev[w] \in SegmentEvents /\ ev[w].id = t /\ trips[t] = Null /\ trips'[t] = seg[w]
  <2>1. PICK e \in SegmentEvents, k \in Tokens : e = ev[w] /\ k = veh[w] /\ e.id \in TripIds
    BY <1>1, EventTypes DEF IInv, HandlerOK, BeginSteps
  <2>2. seg[w] \in Row
    BY <1>1, <2>1, NewTripType DEF IInv, HandlerOK
  <2> QED
    BY <1>1, <2>1, <2>2, InsertTripType DEF IInv, TypeOK
<1>2. ASSUME NEW w \in Workers, pc[w] = "update",
             trips' = UpdateTrip(trips, ev[w].id, seg[w])
      PROVE  ev[w] \in SegmentEvents /\ ev[w].id = t /\ trips[t] # Null
  <2>1. PICK e \in SegmentEvents : e = ev[w] /\ e.id \in TripIds /\ CompletionOK(w)
    BY <1>2, CompletionKnows
  <2>2. seg[w] \in Row /\ trips[e.id] # Null
    BY <2>1 DEF CompletionOK
  <2>3. \A u \in TripIds \ {e.id} : trips'[u] = trips[u]
    BY <1>2, <2>1, <2>2, UpdateTripEffect DEF IInv, TypeOK
  <2> QED
    BY <2>1, <2>2, <2>3
<1>3. \E w \in Workers :
        \/ /\ pc[w] = "insert" /\ trips[ev[w].id] = Null
           /\ trips' = InsertTrip(trips, ev[w].id, seg[w])
        \/ pc[w] = "update" /\ trips' = UpdateTrip(trips, ev[w].id, seg[w])
  BY DEF Next, HandlerStep, StoreVehicle, Claim, ReadVehicle, LoadLast, Insert, ReadTrip,
         EstVehicle, EstLoad, Fetch, Upload, Update, CallFails, EstimateFails, AnswerLost,
         Crash, Rebalance, Quiet, vars, stores
<1> QED
  BY <1>1, <1>2, <1>3

LEMMA InsertMade ==
  ASSUME IInv, [Next]_vars, NEW w \in Workers, pc'[w] = "insert"
  PROVE  Untouched(w) \/ LoadLast(w)
<1>1. ASSUME HandlerStep(w), ~LoadLast(w)
      PROVE  FALSE
  BY <1>1, AfterEstimateStep
     DEF HandlerStep, StoreVehicle, ReadVehicle, Insert, ReadTrip, EstVehicle, EstLoad,
         Fetch, Upload, Update, Succeed, ReturnErr, Return, Clear, Goto, IInv, TypeOK
<1>2. ASSUME \/ \E e \in Events : Claim(w, e)
             \/ CallFails(w) \/ EstimateFails(w) \/ AnswerLost(w) \/ Crash(w)
      PROVE  FALSE
  BY <1>2, AfterEstimateStep
     DEF Claim, FirstStep, CallFails, EstimateFails, AnswerLost, Crash, ReturnErr,
         Return, Clear, Goto, IInv, TypeOK
<1>3. ASSUME NEW v \in Workers \ {w},
             \/ \E e \in Events : Claim(v, e)
             \/ HandlerStep(v) \/ CallFails(v) \/ EstimateFails(v) \/ AnswerLost(v)
             \/ Crash(v)
      PROVE  Untouched(w)
  BY <1>3, ClaimGood, HandlerStepGood, FaultGood DEF GoodStep, OthersUntouched
<1>4. CASE (\E e \in Events : Rebalance(e)) \/ Quiet \/ UNCHANGED vars
  BY <1>4 DEF Rebalance, Quiet, vars, Untouched
<1> QED
  BY <1>1, <1>2, <1>3, <1>4 DEF Next

DropInv ==
  /\ OwnedOnce /\ PairedOnce /\ AllPaired
  /\ crashes = 0 => RunsInOrder
  /\ errors = 0 => AheadDone
  /\ errors = 0 \/ crashes = 0 => BeginsCurrent

\* No trip of the device is being completed while a beginning waits to insert.
LEMMA NobodyCompletes ==
  ASSUME IInv, DropInv, errors = 0 \/ crashes = 0, OnePartitionPerDevice, OneDevicePerTrip,
         NEW v \in Workers, pc[v] = "update", ~Completed(trips, ev[v].id),
         NEW w \in Workers, pc[w] = "insert", trips[ev[w].id] = Null
  PROVE  trips[ev[v].id].token # veh[w]
<1> SUFFICES ASSUME trips[ev[v].id].token = veh[w] PROVE FALSE
  OBVIOUS
<1>1. PICK c \in SegmentEvents :
        c = ev[v] /\ c.completed /\ c.id \in TripIds /\ trips[c.id] # Null
  BY CompletionKnows DEF CompletionOK
<1>2. PICK b \in SegmentEvents : b = ev[w] /\ ~b.completed /\ vehicles[veh[w]] = b.device
  BY DEF IInv, HandlerOK, BeginSteps
<1>3. PICK e \in SegmentEvents : e.id = c.id /\ vehicles[trips[c.id].token] = e.device
  BY <1>1 DEF IInv, RowOK, StartReported
<1>4. c.device = b.device /\ c # b
  BY <1>1, <1>2, <1>3 DEF OneDevicePerTrip
<1>5. c \in Pred[b] \/ b \in Pred[c]
  BY <1>4 DEF OnePartitionPerDevice
<1>6. CASE errors = 0
  <2>1. (c \in Pred[b] => Effective(c)) /\ (b \in Pred[c] => Effective(b))
    BY <1>1, <1>2, <1>6 DEF DropInv, AheadDone
  <2> QED
    BY <1>1, <1>2, <1>5, <2>1 DEF Effective
<1>7. CASE crashes = 0
  <2>1. /\ c \in pending /\ b \in pending
        /\ Pred[b] \cap pending = {} /\ Pred[c] \cap pending = {}
    BY <1>1, <1>2, <1>7 DEF DropInv, RunsInOrder, OwnedOnce
  <2> QED
    BY <1>5, <2>1
<1> QED
  BY <1>6, <1>7

LEMMA NextBeginsCurrent ==
  ASSUME IInv, DropInv, errors = 0 \/ crashes = 0, [Next]_vars,
         OnePartitionPerDevice, OneDevicePerTrip, OneCompletionPerTrip
  PROVE  BeginsCurrent'
<1> SUFFICES ASSUME NEW w \in Workers, pc'[w] = "insert", trips'[ev'[w].id] = Null
             PROVE  \E last \in LastEnds(trips', veh'[w]) :
                      seg'[w] = NewTrip(ev'[w], veh'[w], last)
  BY DEF BeginsCurrent
<1>1. CASE LoadLast(w)
  BY <1>1 DEF LoadLast, Goto, stores, IInv, TypeOK
<1>2. CASE Untouched(w)
  <2>1. pc[w] = "insert" /\ ev'[w] = ev[w] /\ veh'[w] = veh[w] /\ seg'[w] = seg[w]
    BY <1>2 DEF Untouched
  <2>2. trips[ev[w].id] = Null
    BY <2>1, NextIInv, EventTypes
       DEF IInv, HandlerOK, BeginSteps, StoresGrow, TripsKept
  <2>3. PICK k : k = veh[w]
    OBVIOUS
  <2>4. ASSUME NEW u \in TripIds, Completed(trips', u), ~Completed(trips, u)
        PROVE  trips'[u].token # k
    <3>1. PICK v \in Workers :
            /\ ev[v] \in SegmentEvents /\ ev[v].id = u
            /\ \/ pc[v] = "insert" /\ trips[u] = Null /\ trips'[u] = seg[v]
               \/ pc[v] = "update" /\ trips[u] # Null
      BY <2>4, RowWrites DEF Completed
    <3>2. CASE pc[v] = "insert" /\ trips'[u] = seg[v]
      <4>1. PICK last : seg[v] = NewTrip(ev[v], veh[v], last)
        BY <3>2 DEF IInv, HandlerOK
      <4>2. seg[v].endTime = Null
        BY <4>1 DEF NewTrip
      <4> QED
        BY <2>4, <3>2, <4>2 DEF Completed
    <3>3. CASE pc[v] = "update" /\ trips[u] # Null
      <4>1. trips'[u].token = trips[u].token
        BY <3>3, NextIInv DEF StoresGrow, TripsKept
      <4> QED
        BY <2>1, <2>2, <2>3, <2>4, <3>1, <3>3, <4>1, NobodyCompletes
    <3> QED
      BY <3>1, <3>2, <3>3
  <2>5. LastEnds(trips', k) = LastEnds(trips, k)
    <3>1. \A u \in TripIds :
            \/ Completed(trips, u) /\ trips[u].token = k
            \/ Completed(trips', u) /\ trips'[u].token = k
            => Completed(trips, u)
      BY <2>4
    <3> QED
      BY <3>1, EndsStay, SameLastEnds
  <2> QED
    BY <2>1, <2>2, <2>3, <2>5 DEF DropInv, BeginsCurrent
<1> QED
  BY <1>1, <1>2, InsertMade

LEMMA NextDropInv ==
  ASSUME IInv, DropInv, [Next]_vars,
         OnePartitionPerDevice, OneDevicePerTrip, OneCompletionPerTrip, BeginningsFirst
  PROVE  /\ DropInv'
         /\ errors' = 0 \/ crashes' = 0 => errors = 0 \/ crashes = 0
<1>1. /\ crashes \in Nat /\ (crashes' = crashes \/ crashes' = crashes + 1)
      /\ errors \in Nat /\ (errors' = errors \/ errors' = errors + 1)
  BY FaultsType DEF IInv, Next, HandlerStep, StoreVehicle, Claim, ReadVehicle, LoadLast, Insert,
     ReadTrip, EstVehicle, EstLoad, Fetch, Upload, Update, CallFails, EstimateFails, AnswerLost,
     Crash, Rebalance, Quiet, vars, budget
<1>2. (crashes' = 0 => crashes = 0) /\ (errors' = 0 => errors = 0)
  BY <1>1
<1>3. OwnedOnce' /\ PairedOnce' /\ AllPaired'
  BY NextOwnedOnce, NextPairedOnce, NextAllPaired DEF DropInv, IInv
<1>4. crashes' = 0 => RunsInOrder'
  BY <1>1, <1>2, NextRunsInOrder DEF DropInv, IInv
<1>5. errors' = 0 => AheadDone'
  BY <1>1, <1>2, NextAheadDone DEF DropInv
<1>6. errors' = 0 \/ crashes' = 0 => BeginsCurrent'
  BY <1>2, NextBeginsCurrent
<1> QED
  BY <1>2, <1>3, <1>4, <1>5, <1>6 DEF DropInv

\* Where the events of a device share a partition, a trip has one device, one
\* completion and its beginning ahead of that, and the vehicles were minted
\* before they set out: as long as only calls fail, or only replicas die and
\* partitions move, the flag and the estimate a beginning stores are those the
\* vehicle's last trip calls for at the very moment the row is written.
THEOREM DroppedDataIsCurrent ==
  ASSUME OnePartitionPerDevice, OneDevicePerTrip, OneCompletionPerTrip, BeginningsFirst,
         AllRegistered
  PROVE  Spec => DroppedDataCurrent
<1> DEFINE Current ==
      \A t \in TripIds :
        trips[t] = Null /\ trips'[t] # Null /\ (errors' = 0 \/ crashes' = 0) =>
        \E e \in SegmentEvents, last \in LastEnds(trips, trips'[t].token) :
          /\ e.id = t
          /\ trips'[t] = NewTrip(e, trips'[t].token, last)
<1>1. Init => DropInv
  BY RegisteredAssumption
     DEF Init, DropInv, OwnedOnce, PairedOnce, AllPaired, AllRegistered, RunsInOrder,
         AheadDone, BeginsCurrent
<1>2. IInv /\ DropInv /\ [Next]_vars => DropInv'
  BY NextDropInv
<1>3. IInv /\ DropInv /\ [Next]_vars => [Current]_trips
  <2> SUFFICES ASSUME IInv, DropInv, [Next]_vars, NEW t \in TripIds,
                      trips[t] = Null, trips'[t] # Null, errors' = 0 \/ crashes' = 0
               PROVE  \E e \in SegmentEvents, last \in LastEnds(trips, trips'[t].token) :
                        /\ e.id = t
                        /\ trips'[t] = NewTrip(e, trips'[t].token, last)
    OBVIOUS
  <2>1. PICK w \in Workers :
          ev[w] \in SegmentEvents /\ ev[w].id = t /\ pc[w] = "insert" /\ trips'[t] = seg[w]
    BY RowWrites
  <2>2. BeginsCurrent
    BY NextDropInv DEF DropInv
  <2>3. PICK last \in LastEnds(trips, veh[w]) : seg[w] = NewTrip(ev[w], veh[w], last)
    BY <2>1, <2>2 DEF BeginsCurrent
  <2>4. trips'[t].token = veh[w]
    BY <2>1, <2>3 DEF NewTrip
  <2> QED
    BY <2>1, <2>3, <2>4
<1> QED
  BY <1>1, <1>2, <1>3, Invariance, PTL DEF Spec, DroppedDataCurrent

=============================================================================
