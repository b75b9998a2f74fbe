------------------------------ MODULE Consumer ------------------------------
(***************************************************************************)
(* The event consumer (internal/services/consumer) at work: the handlers   *)
(* of vehicle mints, trip beginnings and trip completions, run by any      *)
(* number of workers in any number of replicas against one Postgres        *)
(* database, the Elasticsearch index and the Bundlr network.               *)
(*                                                                         *)
(* A worker is one Kafka partition claim of one replica.  A handler is cut *)
(* into one action per call it makes to the outside (a SQL statement, an   *)
(* Elasticsearch fetch, a Bundlr upload): between two of them every other  *)
(* worker may run, and the replica may die.                                *)
(***************************************************************************)
EXTENDS TripsDB, FiniteSets

CONSTANTS Workers,
          SegmentEvents,     \* published on the trip event topic
          VehicleEvents,     \* published on the general event topic
          Pred,              \* Pred[e]: the events ahead of e in its partition
          Registered,        \* the vehicles table when the replicas start
          DataFetchEnabled,  \* settings
          BundlrEnabled,
          SkipOnError,       \* is a message whose handler failed skipped, or
                             \* delivered again? (the Kafka library decides)
          MaxErrors,         \* bound: calls that fail or whose answer is lost
          MaxCrashes         \* bound: replica deaths and partition moves

Events == SegmentEvents \cup VehicleEvents

SegmentEvent == [id: TripIds, device: Devices, completed: BOOLEAN,
                 startTime: Times, startLoc: Locations \cup {Null},
                 endTime: Times, endLoc: Locations \cup {Null}]

\* A CloudEvent of the general topic; only mints carry the data we read.
VehicleEvent == [type: {"mint", "other"}, device: Devices, token: Tokens]

ASSUME EventsAssumption ==
  /\ SegmentEvents \subseteq SegmentEvent
  /\ VehicleEvents \subseteq VehicleEvent
  /\ Null \notin Events
  /\ Pred \in [Events -> SUBSET Events]

ASSUME RegisteredAssumption ==
  /\ Registered \in Vehicles
  /\ \A j, k \in Tokens : Registered[j] = Registered[k] => Registered[k] = Null \/ j = k

ASSUME SettingsAssumption ==
  /\ DataFetchEnabled \in BOOLEAN
  /\ BundlrEnabled \in BOOLEAN
  /\ SkipOnError \in BOOLEAN
  /\ MaxErrors \in Nat
  /\ MaxCrashes \in Nat

VARIABLES
  vehicles, trips,   \* Postgres (TripsDB)
  uploaded,          \* the items the Bundlr network has accepted
  pending,           \* events not yet marked as consumed in Kafka
  pc,                \* pc[w]: the next step of w's handler
  ev,                \* ev[w]: the event it handles
  owns,              \* owns[w]: does w still own that event's partition?
  veh,               \* veh[w]: the token id of the vehicle it loaded
  seg,               \* seg[w]: its in-memory models.Trip
  errors, crashes    \* how much of the bounds is used

stores  == <<vehicles, trips, uploaded>>
handler == <<pc, ev, owns, veh, seg>>
budget  == <<errors, crashes>>
vars    == <<vehicles, trips, uploaded, pending, pc, ev, owns, veh, seg,
             errors, crashes>>

BeginSteps    == {"readVehicle", "loadLast", "insert"}
CompleteSteps == {"readTrip", "estVehicle", "estLoad", "fetch", "upload", "update"}
Steps         == {"idle", "vehicleEvent"} \cup BeginSteps \cup CompleteSteps

TypeOK ==
  /\ vehicles \in Vehicles
  /\ trips \in Trips
  /\ uploaded \subseteq Item
  /\ pending \subseteq Events
  /\ pc \in [Workers -> Steps]
  /\ ev \in [Workers -> Events \cup {Null}]
  /\ owns \in [Workers -> BOOLEAN]
  /\ veh \in [Workers -> Tokens \cup {Null}]
  /\ seg \in [Workers -> Row \cup {Null}]
  /\ errors \in 0..MaxErrors
  /\ crashes \in 0..MaxCrashes

Init ==
  /\ vehicles = Registered
  /\ trips = [t \in TripIds |-> Null]
  /\ uploaded = {}
  /\ pending = Events
  /\ pc = [w \in Workers |-> "idle"]
  /\ ev = [w \in Workers |-> Null]
  /\ owns = [w \in Workers |-> FALSE]
  /\ veh = [w \in Workers |-> Null]
  /\ seg = [w \in Workers |-> Null]
  /\ errors = 0
  /\ crashes = 0

----------------------------------------------------------------------------
(* Delivery (the Kafka consumer group, outside this repository). *)

\* Is e being handled by the worker that owns its partition?
Claimed(e) == \E w \in Workers : owns[w] /\ ev[w] = e

\* ProcessSegmentEvent's dispatch, and VehicleEvent for the other topic.
FirstStep(e) ==
  IF e \in VehicleEvents THEN "vehicleEvent"
  ELSE IF e.completed THEN "readTrip" ELSE "readVehicle"

\* A partition is consumed one message at a time and in order; partitions
\* are consumed side by side.
Claim(w, e) ==
  /\ pc[w] = "idle"
  /\ e \in pending
  /\ Pred[e] \cap pending = {}
  /\ ~Claimed(e)
  /\ pc' = [pc EXCEPT ![w] = FirstStep(e)]
  /\ ev' = [ev EXCEPT ![w] = e]
  /\ owns' = [owns EXCEPT ![w] = TRUE]
  /\ UNCHANGED <<stores, pending, veh, seg, budget>>

\* The handler of w is over and its memory gone.
Clear(w) ==
  /\ pc' = [pc EXCEPT ![w] = "idle"]
  /\ ev' = [ev EXCEPT ![w] = Null]
  /\ owns' = [owns EXCEPT ![w] = FALSE]
  /\ veh' = [veh EXCEPT ![w] = Null]
  /\ seg' = [seg EXCEPT ![w] = Null]

\* The handler returns.  Only the owner of the partition can mark the message.
Return(w, handled) ==
  /\ Clear(w)
  /\ pending' = IF owns[w] /\ handled THEN pending \ {ev[w]} ELSE pending

Succeed(w)   == Return(w, TRUE)
ReturnErr(w) == Return(w, SkipOnError)

Goto(w, step) ==
  /\ pc' = [pc EXCEPT ![w] = step]
  /\ UNCHANGED <<ev, owns, pending>>

----------------------------------------------------------------------------
(* VehicleEvent *)

StoreVehicle(w) ==
  LET e == ev[w] IN
  /\ pc[w] = "vehicleEvent"
  /\ \/ /\ e.type # "mint"
        /\ Succeed(w)
        /\ UNCHANGED vehicles
     \/ /\ e.type = "mint"
        /\ DeviceTaken(vehicles, e.token, e.device)
        /\ ReturnErr(w)
        /\ UNCHANGED vehicles
     \/ /\ e.type = "mint"
        /\ ~DeviceTaken(vehicles, e.token, e.device)
        /\ vehicles' = UpsertVehicle(vehicles, e.token, e.device)
        /\ Succeed(w)
  /\ UNCHANGED <<trips, uploaded, budget>>

----------------------------------------------------------------------------
(* BeginSegment *)

\* Mutant: a beginning without a vehicle is not ours, and no error.
ReadVehicleOrIgnore(w) ==
  LET found == VehicleOf(vehicles, ev[w].device) IN
  /\ pc[w] = "readVehicle"
  /\ \/ found = {} /\ Succeed(w)
     \/ \E k \in found : veh' = [veh EXCEPT ![w] = k] /\ Goto(w, "loadLast") /\ UNCHANGED seg
  /\ UNCHANGED <<stores, budget>>

\* Mutant: the error of the lookup is not checked.
ReadVehicleUnchecked(w) ==
  LET found == VehicleOf(vehicles, ev[w].device) IN
  /\ pc[w] = "readVehicle"
  /\ \E k \in IF found = {} THEN {Null} ELSE found : veh' = [veh EXCEPT ![w] = k]
  /\ Goto(w, "loadLast")
  /\ UNCHANGED <<stores, seg, budget>>

ReadVehicle(w) ==
  LET found == VehicleOf(vehicles, ev[w].device) IN
  /\ pc[w] = "readVehicle"
  /\ \/ /\ found = {}
        /\ ReturnErr(w)
     \/ /\ \E k \in found : veh' = [veh EXCEPT ![w] = k]
        /\ Goto(w, "loadLast")
        /\ UNCHANGED seg
  /\ UNCHANGED <<stores, budget>>

\* The row BeginSegment builds for event e, vehicle k, and the end position
\* `last' of the vehicle's last completed trip.
NewTrip(e, k, last) ==
  LET known == e.startLoc # Null /\ last # Null IN
  [token |-> k, startTime |-> e.startTime, startPos |-> e.startLoc,
   endTime |-> Null, endPos |-> Null, key |-> Null, bundlr |-> Null,
   dropped |-> e.startLoc = Null \/ (known /\ last # e.startLoc),
   estimate |-> IF known /\ InterpolateTripStart(last, e.startLoc)
                THEN last ELSE Null]

\* Mutant: the last trip is not loaded with the vehicle.
LoadNothing(w) ==
  /\ pc[w] = "loadLast"
  /\ seg' = [seg EXCEPT ![w] = NewTrip(ev[w], veh[w], Null)]
  /\ Goto(w, "insert")
  /\ UNCHANGED <<stores, veh, budget>>

LoadLast(w) ==
  /\ pc[w] = "loadLast"
  /\ \E last \in LastEnds(trips, veh[w]) :
       seg' = [seg EXCEPT ![w] = NewTrip(ev[w], veh[w], last)]
  /\ Goto(w, "insert")
  /\ UNCHANGED <<stores, veh, budget>>

\* Mutant: an upsert instead of an insert.
InsertOrReplace(w) ==
  /\ pc[w] = "insert"
  /\ trips' = InsertTrip(trips, ev[w].id, seg[w])
  /\ Succeed(w)
  /\ UNCHANGED <<vehicles, uploaded, budget>>

Insert(w) ==
  /\ pc[w] = "insert"
  /\ \/ /\ trips[ev[w].id] # Null   \* the primary key is taken
        /\ ReturnErr(w)
        /\ UNCHANGED trips
     \/ /\ trips[ev[w].id] = Null
        /\ trips' = InsertTrip(trips, ev[w].id, seg[w])
        /\ Succeed(w)
  /\ UNCHANGED <<vehicles, uploaded, budget>>

----------------------------------------------------------------------------
(* CompleteSegment *)

\* rand.Read: a key nobody holds.
KeysInUse ==
  {trips[t].key : t \in {u \in TripIds : trips[u] # Null}}
  \cup {i.key : i \in uploaded}
  \cup {seg[w].key : w \in {v \in Workers : seg[v] # Null}}

FreshKeys == Keys \ KeysInUse

\* Does the completion carry the start position the beginning lacked?
LateStart(e, row) == row.startPos = Null /\ e.startLoc # Null

AfterEstimate == IF DataFetchEnabled THEN "fetch" ELSE "update"

\* The row in memory once the event's end is filled in.
Finished(e, row, k) ==
  [row EXCEPT !.key = k, !.endTime = e.endTime, !.endPos = e.endLoc,
              !.estimate = IF LateStart(e, row) THEN e.startLoc ELSE @]

\* Mutant: a completion waits for its trip instead of failing.
ReadTripWaiting(w) ==
  LET e == ev[w] IN
  /\ pc[w] = "readTrip"
  /\ trips[e.id] # Null
  /\ \E k \in FreshKeys : seg' = [seg EXCEPT ![w] = Finished(e, trips[e.id], k)]
  /\ Goto(w, IF LateStart(e, trips[e.id]) THEN "estVehicle" ELSE AfterEstimate)
  /\ UNCHANGED <<stores, veh, budget>>

ReadTrip(w) ==
  LET e == ev[w] IN
  /\ pc[w] = "readTrip"
  /\ \/ /\ trips[e.id] = Null
        /\ ReturnErr(w)
     \/ /\ trips[e.id] # Null
        /\ \E k \in FreshKeys :
             seg' = [seg EXCEPT ![w] = Finished(e, trips[e.id], k)]
        /\ Goto(w, IF LateStart(e, trips[e.id]) THEN "estVehicle" ELSE AfterEstimate)
        /\ UNCHANGED veh
  /\ UNCHANGED <<stores, budget>>

\* The vehicle is looked up by the event's device; not finding it is logged.
EstVehicle(w) ==
  LET found == VehicleOf(vehicles, ev[w].device) IN
  /\ pc[w] = "estVehicle"
  /\ \/ /\ found = {}
        /\ Goto(w, AfterEstimate)
        /\ UNCHANGED veh
     \/ /\ \E k \in found : veh' = [veh EXCEPT ![w] = k]
        /\ Goto(w, "estLoad")
  /\ UNCHANGED <<stores, seg, budget>>

\* Mutant: the last end is taken however far away it is.
EstLoadUnchecked(w) ==
  /\ pc[w] = "estLoad"
  /\ \E last \in LastEnds(trips, veh[w]) :
       seg' = [seg EXCEPT ![w].estimate = IF last # Null THEN last ELSE @]
  /\ Goto(w, AfterEstimate)
  /\ UNCHANGED <<stores, veh, budget>>

\* Mutant: a vehicle without a completed trip is an error.
EstLoadStrict(w) ==
  /\ pc[w] = "estLoad"
  /\ \/ CompletedOf(trips, veh[w]) = {} /\ ReturnErr(w)
     \/ CompletedOf(trips, veh[w]) # {} /\ Goto(w, AfterEstimate) /\ UNCHANGED <<veh, seg>>
  /\ UNCHANGED <<stores, budget>>

EstLoad(w) ==
  /\ pc[w] = "estLoad"
  /\ \E last \in LastEnds(trips, veh[w]) :
       seg' = [seg EXCEPT ![w].estimate =
                 IF last # Null /\ InterpolateTripStart(last, ev[w].startLoc)
                 THEN last ELSE @]
  /\ Goto(w, AfterEstimate)
  /\ UNCHANGED <<stores, veh, budget>>

\* FetchData and PrepareData: nothing but the handler's memory changes.
Fetch(w) ==
  /\ pc[w] = "fetch"
  /\ Goto(w, "upload")
  /\ UNCHANGED <<stores, veh, seg, budget>>

\* The data item PrepareData signs.
PreparedItem(w) ==
  [key |-> seg[w].key, token |-> seg[w].token,
   start |-> seg[w].startTime, end |-> ev[w].endTime]

\* Mutant: an upload that fails is logged and forgotten.
UploadSwallowed(w) ==
  /\ pc[w] = "upload"
  /\ uploaded' \in {uploaded, uploaded \cup {PreparedItem(w)}}
  /\ seg' = [seg EXCEPT ![w].bundlr = PreparedItem(w)]
  /\ Goto(w, "update")
  /\ UNCHANGED <<vehicles, trips, veh, budget>>

Upload(w) ==
  /\ pc[w] = "upload"
  /\ uploaded' = IF BundlrEnabled THEN uploaded \cup {PreparedItem(w)} ELSE uploaded
  /\ seg' = [seg EXCEPT ![w].bundlr = PreparedItem(w)]
  /\ Goto(w, "update")
  /\ UNCHANGED <<vehicles, trips, veh, budget>>

Update(w) ==
  /\ pc[w] = "update"
  /\ trips' = UpdateTrip(trips, ev[w].id, seg[w])
  /\ Succeed(w)
  /\ UNCHANGED <<vehicles, uploaded, budget>>

----------------------------------------------------------------------------
(* Faults *)

\* The steps that call out and hand an error of the call to the caller.
CallsOut(w) ==
  \/ pc[w] \in BeginSteps \cup {"readTrip", "fetch", "update"}
  \/ pc[w] = "upload" /\ BundlrEnabled
  \/ pc[w] = "vehicleEvent" /\ ev[w].type = "mint"

\* A call fails without effect.
CallFails(w) ==
  /\ errors < MaxErrors
  /\ errors' = errors + 1
  /\ CallsOut(w)
  /\ ReturnErr(w)
  /\ UNCHANGED <<stores, crashes>>

\* A query of the completion's estimate fails: logged, the estimate stays.
EstimateFails(w) ==
  /\ errors < MaxErrors
  /\ errors' = errors + 1
  /\ pc[w] \in {"estVehicle", "estLoad"}
  /\ Goto(w, AfterEstimate)
  /\ UNCHANGED <<stores, veh, seg, crashes>>

\* A write takes effect but its answer is lost, so the handler sees an error.
AnswerLost(w) ==
  /\ errors < MaxErrors
  /\ errors' = errors + 1
  /\ \/ /\ pc[w] = "vehicleEvent" /\ ev[w].type = "mint"
        /\ ~DeviceTaken(vehicles, ev[w].token, ev[w].device)
        /\ vehicles' = UpsertVehicle(vehicles, ev[w].token, ev[w].device)
        /\ UNCHANGED <<trips, uploaded>>
     \/ /\ pc[w] = "insert" /\ trips[ev[w].id] = Null
        /\ trips' = InsertTrip(trips, ev[w].id, seg[w])
        /\ UNCHANGED <<vehicles, uploaded>>
     \/ /\ pc[w] = "upload" /\ BundlrEnabled
        /\ uploaded' = uploaded \cup {PreparedItem(w)}
        /\ UNCHANGED <<vehicles, trips>>
     \/ /\ pc[w] = "update"
        /\ trips' = UpdateTrip(trips, ev[w].id, seg[w])
        /\ UNCHANGED <<vehicles, uploaded>>
  /\ ReturnErr(w)
  /\ UNCHANGED crashes

\* The replica of w dies in the middle of a handler.  An orderly shutdown is
\* the same: main closes two channels nobody reads and waits on an empty
\* WaitGroup, so it returns without waiting for the handlers.
Crash(w) ==
  /\ crashes < MaxCrashes
  /\ crashes' = crashes + 1
  /\ pc[w] # "idle"
  /\ Clear(w)
  /\ UNCHANGED <<stores, pending, errors>>

From(e) == {f \in Events : f = e \/ e \in Pred[f]}

\* The partition of e moves to another claim, which starts at e because that
\* is the last committed offset: what was consumed from e on is delivered
\* again, and a handler still at work there runs on without owning its event.
Rebalance(e) ==
  /\ crashes < MaxCrashes
  /\ crashes' = crashes + 1
  /\ Pred[e] \cap pending = {}
  /\ \/ e \notin pending
     \/ \E f \in From(e) : Claimed(f)
  /\ pending' = pending \cup From(e)
  /\ owns' = [w \in Workers |-> owns[w] /\ ev[w] \notin From(e)]
  /\ UNCHANGED <<stores, pc, ev, veh, seg, errors>>

----------------------------------------------------------------------------

\* One step of the handler w is running.
HandlerStep(w) ==
  \/ StoreVehicle(w)
  \/ ReadVehicle(w) \/ LoadLast(w) \/ Insert(w)
  \/ ReadTrip(w) \/ EstVehicle(w) \/ EstLoad(w)
  \/ Fetch(w) \/ Upload(w) \/ Update(w)

\* Everything published is consumed; the workers wait for more.
Quiet ==
  /\ pending = {}
  /\ \A w \in Workers : pc[w] = "idle"
  /\ UNCHANGED vars

Next ==
  \/ \E w \in Workers :
       \/ \E e \in Events : Claim(w, e)
       \/ HandlerStep(w)
       \/ CallFails(w) \/ EstimateFails(w) \/ AnswerLost(w)
       \/ Crash(w)
  \/ \E e \in Events : Rebalance(e)
  \/ Quiet

Spec == Init /\ [][Next]_vars

\* The Go scheduler runs every goroutine that can run, and every call to the
\* outside answers or fails.
Fairness ==
  \A w \in Workers : WF_vars(HandlerStep(w) \/ \E e \in Events : Claim(w, e))

FairSpec == Spec /\ Fairness

----------------------------------------------------------------------------
(* What some of the properties below ask of the producer of the events; each *)
(* theorem about them names what it needs.                                   *)

BegunByOneDevice ==
  \A e, f \in SegmentEvents :
    e.id = f.id /\ ~e.completed /\ ~f.completed => e.device = f.device

OneDevicePerTrip == \A e, f \in SegmentEvents : e.id = f.id => e.device = f.device

\* A device begins one trip at a time.
OneBeginningAtATime ==
  \A e, f \in SegmentEvents :
    /\ ~e.completed /\ ~f.completed
    /\ e.device = f.device /\ e.startTime = f.startTime
    => e.id = f.id

OneCompletionPerTrip ==
  \A e, f \in SegmentEvents :
    e.completed /\ f.completed /\ e.id = f.id => e = f

\* No trip of a device ends while another is on its way.
TripsDoNotOverlap ==
  \A b, c, f \in SegmentEvents :
    /\ ~b.completed /\ c.completed /\ b.id = c.id
    /\ f.completed /\ f.device = c.device /\ f.id # c.id
    => f.endTime <= b.startTime \/ f.endTime > c.endTime

\* The instant an event is about.
Moment(e) == IF e.completed THEN e.endTime ELSE e.startTime

\* A device's events share a partition and are published as they happen.
InOrderOfDrive ==
  \A e, f \in SegmentEvents :
    e.device = f.device /\ Moment(e) < Moment(f) => e \in Pred[f]

\* They share a partition in whatever order.
OnePartitionPerDevice ==
  \A e, f \in SegmentEvents : e.device = f.device /\ e # f => e \in Pred[f] \/ f \in Pred[e]

\* No completion without the trip's beginning ahead of it.
BeginningsFirst ==
  \A c \in SegmentEvents : c.completed =>
    \E b \in SegmentEvents : b.id = c.id /\ ~b.completed /\ b \in Pred[c]

\* The vehicles were minted before they set out.
AllRegistered ==
  \A e \in SegmentEvents : ~e.completed => \E k \in Tokens : Registered[k] = e.device

----------------------------------------------------------------------------
(* Safety *)

\* Every stored trip is one somebody reported: its start is that of one
\* beginning of the trip, filed under the vehicle registered for the device
\* that reported it (which may have been read several steps before the row
\* was written), and its end, if any, that of one completion, never a mix of
\* two completions that raced.
TripFromEvents ==
  \A t \in TripIds : trips[t] # Null =>
    /\ \E e \in SegmentEvents :
         /\ e.id = t /\ ~e.completed
         /\ vehicles[trips[t].token] = e.device
         /\ trips[t].startTime = e.startTime
         /\ trips[t].startPos = e.startLoc
    /\ trips[t].endTime # Null =>
         \E e \in SegmentEvents :
           /\ e.id = t /\ e.completed
           /\ trips[t].endTime = e.endTime
           /\ trips[t].endPos = e.endLoc

\* Whatever completions of a trip overlap, repeat or die half way, the stored
\* key opens the stored archive: they come from one and the same handler run,
\* the archive is tagged with this trip's vehicle and times, and with uploads
\* switched on the Bundlr network has accepted it.
BundleMatchesTrip ==
  \A t \in TripIds : trips[t] # Null /\ trips[t].bundlr # Null =>
    /\ trips[t].bundlr = [key |-> trips[t].key, token |-> trips[t].token,
                         start |-> trips[t].startTime, end |-> trips[t].endTime]
    /\ BundlrEnabled => trips[t].bundlr \in uploaded

\* A start estimate is never farther than the threshold from a start position
\* reported for the trip itself.
EstimateNearStart ==
  \A t \in TripIds : trips[t] # Null /\ trips[t].estimate # Null =>
    \E e \in SegmentEvents :
      /\ e.id = t /\ e.startLoc # Null
      /\ InterpolateTripStart(trips[t].estimate, e.startLoc)

\* A start estimate that is not the reported start itself is where another
\* trip of the vehicle ended: "estimate a start loc based on prev trip and new
\* trip start" (consumer_test.go).
EstimateFromPreviousTrip ==
  \A t \in TripIds : trips[t] # Null /\ trips[t].estimate # Null =>
    \/ \E e \in SegmentEvents : e.id = t /\ e.startLoc = trips[t].estimate
    \/ \E u \in TripIds \ {t} :
         /\ Completed(trips, u)
         /\ trips[u].token = trips[t].token
         /\ trips[u].endPos = trips[t].estimate
         /\ trips[u].endTime <= trips[t].startTime

\* The same, as long as no replica died and no partition moved: then no
\* completion runs twice, and failed calls and skipped messages do no harm.
EstimateWhenHandledOnce == crashes = 0 => EstimateFromPreviousTrip

\* Archives of trip t on the Bundlr network that the stored key does not open
\* and no running handler is about to store.
Orphans(t) ==
  {i \in uploaded : /\ i.token = trips[t].token /\ i.start = trips[t].startTime
                   /\ i # trips[t].bundlr
                   /\ \A w \in Workers : seg[w] # Null => seg[w].bundlr # i}

\* An archive is lost for good (its key was never stored, or overwritten) only
\* when a fault made the completion run again: at most one per fault and trip.
OrphansPaidByFaults ==
  \A t \in TripIds : trips[t] # Null => Cardinality(Orphans(t)) <= errors + crashes

\* What the beginning wrote is never rewritten, by whatever arrives later or
\* again, and a completed trip is never reopened.
TripNeverReset ==
  [][\A t \in TripIds : trips[t] # Null =>
       /\ trips'[t] # Null
       /\ trips'[t].token = trips[t].token
       /\ trips'[t].startTime = trips[t].startTime
       /\ trips'[t].startPos = trips[t].startPos
       /\ trips'[t].dropped = trips[t].dropped
       /\ trips[t].endTime # Null => trips'[t].endTime # Null]_trips

\* A new row's droppedData flag and estimate are those the last trip stored at
\* that moment calls for, although they were computed a step earlier.  It takes
\* faults of both kinds to break this: a completion cut off by a rebalance runs
\* on while its second delivery fails and is skipped.
DroppedDataCurrent ==
  [][\A t \in TripIds :
       trips[t] = Null /\ trips'[t] # Null /\ (errors' = 0 \/ crashes' = 0) =>
       \E e \in SegmentEvents, last \in LastEnds(trips, trips'[t].token) :
         /\ e.id = t
         /\ trips'[t] = NewTrip(e, trips'[t].token, last)]_trips

\* The trips of a device are all filed under one token, whatever mints were
\* published for the device and in whatever order they came, so that a query
\* by that token finds its whole history.
DeviceTripsTogether ==
  \A e, f \in SegmentEvents :
    /\ e.device = f.device /\ ~e.completed /\ ~f.completed
    /\ trips[e.id] # Null /\ trips[f.id] # Null
    => trips[e.id].token = trips[f.id].token

\* What the handler of event e is to store is there: for a mint, who the token
\* is paired with; for a beginning, the trip; for a completion, its end.
InEffect(e) ==
  /\ e \in VehicleEvents /\ e.type = "mint" => vehicles[e.token] # Null
  /\ e \in SegmentEvents => trips[e.id] # Null
  /\ e \in SegmentEvents /\ e.completed => Completed(trips, e.id)

\* Where failed messages are delivered again, no message is marked as consumed
\* before what it says is stored: a trip that begins before its mint is stored,
\* or ends before its beginning is, waits and is not lost, whatever crashes,
\* moves and failing or unanswered calls happen on the way.
ConsumedIsStored == ~SkipOnError => \A e \in Events \ pending : InEffect(e)

\* A pairing, once stored, is never changed by a later mint of either half.
PairingPermanent ==
  [][\A k \in Tokens : vehicles[k] # Null => vehicles'[k] = vehicles[k]]_vehicles

----------------------------------------------------------------------------
(* Liveness *)

\* No message holds up its partition for ever.
Drained == <>[](pending = {})

\* Every trip whose completion was published is stored as completed in the
\* end, whatever crashes and moves; only a failed call can cost a trip its end.
TripsComplete ==
  \A e \in SegmentEvents :
    e.completed => <>[](Completed(trips, e.id) \/ errors > 0)

----------------------------------------------------------------------------
(* Implementation of the abstract specification *)

StatusOf(row) ==
  IF row = Null THEN "none" ELSE IF row.endTime = Null THEN "open" ELSE "closed"

Cell(row, column) == IF row = Null THEN Null ELSE row[column]

TL == INSTANCE TripLifecycle WITH
        Founding   <- Registered,
        Archives   <- Item,
        KeyOf      <- [i \in Item |-> i.key],
        TokenOf    <- [i \in Item |-> i.token],
        Archiving  <- DataFetchEnabled,
        Publishing <- BundlrEnabled,
        registry   <- vehicles,
        status     <- [t \in TripIds |-> StatusOf(trips[t])],
        owner      <- [t \in TripIds |-> Cell(trips[t], "token")],
        key        <- [t \in TripIds |-> Cell(trips[t], "key")],
        archive    <- [t \in TripIds |-> Cell(trips[t], "bundlr")],
        published  <- uploaded

\* The consumer implements TripLifecycle: however handlers interleave, fail or
\* repeat, each of their writes is one of its steps or changes nothing there.
ImplementsLifecycle == TL!Spec

RowsOf(k) == {t \in TripIds : trips[t] # Null /\ trips[t].token = k}

TH(k) == INSTANCE TripHistory WITH
           rows <- RowsOf(k),
           end  <- [t \in TripIds |-> IF t \in RowsOf(k) THEN trips[t].endTime ELSE Null]

\* Under every vehicle the consumer implements TripHistory, which is what the
\* API reads under: trips come, end and are moved, and none leaves the list.
FeedsHistories ==
  /\ \A k \in Tokens : TH(k)!HistoryInit
  /\ [][\A k \in Tokens : TH(k)!HistoryNext \/ UNCHANGED TH(k)!historyVars]_trips

=============================================================================
