----------------------------- MODULE MCConsumer -----------------------------
(***************************************************************************)
(* Instances of Consumer for TLC: a handful of journeys of one or two      *)
(* vehicles, and the delivery orders they may arrive in.                   *)
(***************************************************************************)
EXTENDS Consumer, TLC

CONSTANTS d1, d2, t1, t2, t3, home, gate, work, k1, k2, k3, k4, k5, w1, w2

MCTimes == 0..9

\* gate is a few steps from home; work is far from both.
MCNear == {<<l, l>> : l \in {home, gate, work}} \cup {<<home, gate>>, <<gate, home>>}

Mint(d, k) == [type |-> "mint", device |-> d, token |-> k]
Noise      == [type |-> "other", device |-> d1, token |-> 1]

Begin(t, d, at, loc) ==
  [id |-> t, device |-> d, completed |-> FALSE, startTime |-> at,
   startLoc |-> loc, endTime |-> 0, endLoc |-> Null]

Complete(t, d, from, start, to, end) ==
  [id |-> t, device |-> d, completed |-> TRUE, startTime |-> from,
   startLoc |-> start, endTime |-> to, endLoc |-> end]

\* A round trip whose beginning lacked a position ...
RoundTrip == {Begin(t1, d1, 1, Null), Complete(t1, d1, 1, home, 2, gate)}
\* ... then a trip from near the place where the first ended, not exactly it.
TwoTrips  == RoundTrip \cup {Begin(t2, d1, 3, home), Complete(t2, d1, 3, home, 4, work)}
\* The completion of the round trip is published again with a later end, and
\* by a device nobody registered.
Revised   == RoundTrip \cup {Complete(t1, d2, 1, home, 5, work)}
\* Another vehicle drives off from the same place.
TwoCars   == TwoTrips \cup {Begin(t3, d2, 5, home)}
\* One vehicle sets out twice, another once.
Starts == {Begin(t1, d1, 1, home), Begin(t2, d1, 3, home), Begin(t3, d2, 5, home)}

OneMint   == {Mint(d1, 1)}
\* The device is paired with a second token, the token with a second device.
Repairing == {Mint(d1, 1), Mint(d1, 2), Mint(d2, 1), Noise}

\* Every event in a partition of its own.
Unordered == [e \in Events |-> {}]

\* The segment events of a device share a partition, in the order of the drive.
InOrder ==
  [e \in Events |->
     IF e \in VehicleEvents THEN {}
     ELSE {f \in SegmentEvents : f.device = e.device /\ Moment(f) < Moment(e)}]

\* Nobody is registered yet; or everybody is, and only drives are published.
Nobody    == [k \in Tokens |-> Null]
Everybody == [k \in Tokens |-> IF k = 1 THEN d1 ELSE d2]
JustNoise == {Noise}

\* The instances are ones the theorems of the proof modules speak about.
ASSUME InstanceAssumption ==
  /\ BegunByOneDevice /\ OneBeginningAtATime
  /\ SegmentEvents # Revised => OneDevicePerTrip /\ OneCompletionPerTrip
  /\ Pred = InOrder =>
       InOrderOfDrive /\ OnePartitionPerDevice /\ BeginningsFirst /\ TripsDoNotOverlap
  /\ Registered = Everybody => AllRegistered

Symmetry == Permutations(Keys) \cup Permutations(Workers)

=============================================================================
