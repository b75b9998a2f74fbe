--------------------------- MODULE ProcessProofs ---------------------------
(***************************************************************************)
(* What holds of a replica's process whatever fails, however often, and    *)
(* whenever it is stopped.                                                 *)
(***************************************************************************)
EXTENDS Process, TLAPS

\* Where main is tells which clients exist and what it has subscribed to.
MadeInOrder ==
  /\ main \in {"segments", "vehicles", "monitor", "routes", "listen", "notify"} \cup Running
       => clients = {"es", "pg", "bundlr"}
  /\ main = "bundlr" => {"es", "pg"} \subseteq clients
  /\ main = "pg" => "es" \in clients
  /\ main \in {"load", "es", "pg", "bundlr", "segments", "exited"} => subscribed = {}
  /\ main = "vehicles" => subscribed = {SegmentTopic}
  /\ main \in {"monitor", "routes", "listen", "notify"} \cup Running => subscribed = Topics
  /\ monitoring # "off" => main \in {"routes", "listen", "notify"} \cup Running

\* TypeOK but for the one Boolean.
Typed ==
  /\ main \in Startup \cup Running \cup {"exited"}
  /\ clients \subseteq {"es", "pg", "bundlr"}
  /\ subscribed \subseteq Topics
  /\ handlers \subseteq subscribed
  /\ monitoring \in {"off", "starting", "up"}
  /\ api \in {"off", "starting", "up", "failed", "closed"}
  /\ requests \in 0..MaxRequests
  /\ signals \in 0..1
  /\ cut \in Nat /\ forced \in Nat
  /\ failures \in 0..MaxFailures /\ terms \in 0..MaxSignals /\ kills \in 0..MaxKills

Inv == Typed /\ MadeInOrder

LEMMA InitInv == Init => Inv
BY ProcessAssumption DEF Init, Fresh, Inv, Typed, MadeInOrder, Startup, Running

\* Whatever ends the process leaves nothing behind.
LEMMA ExitInv ==
  ASSUME Inv, Exit, forced' \in Nat, failures' \in 0..MaxFailures,
         terms' \in 0..MaxSignals, kills' \in 0..MaxKills
  PROVE  Inv'
BY ProcessAssumption DEF Exit, Inv, Typed, MadeInOrder, Startup, Running

LEMMA FatalInv == ASSUME Inv, Fatal PROVE Inv'
<1>1. /\ Exit /\ forced' \in Nat /\ failures' \in 0..MaxFailures
      /\ terms' \in 0..MaxSignals /\ kills' \in 0..MaxKills
  BY ProcessAssumption DEF Fatal, Die, Inv, Typed
<1> QED
  BY <1>1, ExitInv

LEMMA MainInv == ASSUME Inv, Main PROVE Inv'
<1> USE ProcessAssumption DEF Inv, Typed, MadeInOrder, Startup, Running, Goto, Topics,
                              bounds, work, ends
<1>1. CASE LoadConfig
  BY <1>1, FatalInv DEF LoadConfig
<1>2. CASE NewES
  BY <1>2, FatalInv DEF NewES, Make
<1>3. CASE NewPG
  BY <1>3 DEF NewPG, Make
<1>4. CASE NewBundlr
  BY <1>4, FatalInv DEF NewBundlr, Make
<1>5. CASE Subscribe
  BY <1>5, FatalInv DEF Subscribe, Consume
<1>6. CASE StartMonitoring
  BY <1>6 DEF StartMonitoring
<1>7. CASE MakeRoutes
  BY <1>7, FatalInv DEF MakeRoutes
<1>8. CASE StartAPI
  BY <1>8 DEF StartAPI
<1>9. CASE Notify
  BY <1>9 DEF Notify
<1>10. CASE Wait
  BY <1>10 DEF Wait
<1>11. CASE Drain
  BY <1>11 DEF Drain
<1>12. CASE Shutdown
  BY <1>12, ExitInv DEF Shutdown
<1> QED
  BY <1>1, <1>2, <1>3, <1>4, <1>5, <1>6, <1>7, <1>8, <1>9, <1>10, <1>11, <1>12 DEF Main

LEMMA NextInv == Inv /\ [Next]_vars => Inv'
<1> SUFFICES ASSUME Inv, [Next]_vars PROVE Inv'
  OBVIOUS
<1> USE ProcessAssumption DEF Inv, Typed, MadeInOrder, Startup, Running, Topics,
                              bounds, work, ends
<1>1. CASE Main
  BY <1>1, MainInv
<1>2. CASE ListenMonitoring
  BY <1>2, FatalInv DEF ListenMonitoring
<1>3. CASE ListenAPI
  BY <1>3 DEF ListenAPI
<1>4. ASSUME NEW t \in Topics, Handle(t) \/ Handled(t) PROVE Inv'
  <2>1. handlers' \subseteq subscribed' /\ subscribed' = subscribed
    BY <1>4 DEF Handle, Handled
  <2> QED
    BY <1>4, <2>1 DEF Handle, Handled
<1>5. CASE Request \/ Answer
  <2>1. requests' \in 0..MaxRequests
    BY <1>5 DEF Request, Answer
  <2>2. MadeInOrder'
    BY <1>5 DEF Request, Answer
  <2> QED
    BY <1>5, <2>1, <2>2 DEF Request, Answer
<1>6. CASE Term
  <2>1. CASE Die
    BY <1>6, <2>1, ExitInv DEF Term, Die
  <2>2. CASE ~Die
    BY <1>6, <2>2 DEF Term, Deliver
  <2> QED
    BY <2>1, <2>2
<1>7. CASE Kill
  BY <1>7, ExitInv DEF Kill, Die
<1>8. CASE Restart
  BY <1>8 DEF Restart
<1>9. CASE UNCHANGED vars
  BY <1>9 DEF vars
<1> QED
  BY <1>1, <1>2, <1>3, <1>4, <1>5, <1>6, <1>7, <1>8, <1>9 DEF Next

LEMMA AlwaysInv == Spec => []Inv
BY InitInv, NextInv, PTL DEF Spec

\* The one Boolean, by the provers' first-order part alone.
AskedOK == asked \in BOOLEAN

LEMMA AskedInv == AskedOK /\ [Next]_vars => AskedOK'
<1> SUFFICES ASSUME asked \in BOOLEAN, [Next]_vars PROVE asked' \in BOOLEAN
  BY Zenon DEF AskedOK
<1>1. asked' = asked \/ asked' = FALSE \/ asked' = TRUE
  <2>1. CASE Main
    BY <2>1, Zenon DEF Main, LoadConfig, NewES, NewPG, NewBundlr, Make, Subscribe, Consume,
          StartMonitoring, MakeRoutes, StartAPI, Notify, Wait, Drain, Shutdown, Fatal, Die,
          Exit, Goto, ends
  <2>2. CASE Term
    BY <2>2, Zenon DEF Term, Die, Exit
  <2>3. CASE ~Main /\ ~Term
    BY <2>3, Zenon DEF Next, ListenMonitoring, ListenAPI, Handle, Handled, Request, Answer,
          Kill, Restart, Fatal, Die, Exit, ends, vars
  <2> QED
    BY <2>1, <2>2, <2>3
<1> QED
  BY <1>1, Zenon

\* Every variable keeps its type.
THEOREM TypeCorrect == Spec => []TypeOK
<1>1. Init => AskedOK
  BY Zenon DEF Init, Fresh, AskedOK
<1>2. Typed /\ AskedOK => TypeOK
  BY Zenon DEF Typed, TypeOK, AskedOK
<1>3. Inv => Typed
  BY DEF Inv
<1> QED
  BY <1>1, <1>2, <1>3, AskedInv, AlwaysInv, PTL DEF Spec

----------------------------------------------------------------------------

\* A handler never runs before every client it uses is there.
THEOREM ClientsBeforeHandlers == Spec => []HandlersHaveTheirClients
<1>1. Inv => HandlersHaveTheirClients
  BY ProcessAssumption DEF Inv, Typed, MadeInOrder, HandlersHaveTheirClients,
                           Startup, Running
<1> QED
  BY <1>1, AlwaysInv, PTL

\* A pod whose probes are answered consumes both topics.
THEOREM ReadyAfterSubscribing == Spec => []ReadyMeansConsuming
<1>1. Inv => ReadyMeansConsuming
  BY DEF Inv, Typed, MadeInOrder, ReadyMeansConsuming
<1> QED
  BY <1>1, AlwaysInv, PTL

\* main's own return cuts no request.
THEOREM RequestsCutByForce == Spec => RequestsCutByForceOnly
<1>1. Inv /\ [Next]_vars => [cut' > cut => forced' > forced]_vars
  <2> SUFFICES ASSUME Inv, Next, cut' > cut PROVE forced' > forced
    OBVIOUS
  <2>1. CASE Die
    BY <2>1 DEF Die, Inv, Typed
  <2>2. CASE ~Die
    <3>1. CASE Shutdown
      BY <3>1 DEF Shutdown, Exit, Inv, Typed
    <3>2. CASE ~Shutdown
      <4>1. cut' = cut
        BY <2>2, <3>2 DEF Next, Main, LoadConfig, NewES, NewPG, NewBundlr, Make, Subscribe,
              Consume, StartMonitoring, MakeRoutes, StartAPI, Notify, Wait, Drain,
              ListenMonitoring, ListenAPI, Handle, Handled, Request, Answer, Term, Kill,
              Restart, Fatal, Goto, ends, bounds, work
      <4> QED
        BY <4>1 DEF Inv, Typed
    <3> QED
      BY <3>1, <3>2
  <2> QED
    BY <2>1, <2>2
<1> QED
  BY <1>1, AlwaysInv, PTL DEF Spec, RequestsCutByForceOnly

=============================================================================
