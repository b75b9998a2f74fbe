------------------------------ MODULE Process ------------------------------
(***************************************************************************)
(* The process of a replica: how main starts it, what its goroutines do    *)
(* meanwhile, and how it ends.                                             *)
(*                                                                         *)
(* Subscribing to a topic starts the handlers of that topic at once, and   *)
(* the two web servers start in goroutines: messages and requests are      *)
(* handled while main still sets up the rest, and until the very end.      *)
(*                                                                         *)
(* A process that has exited is started again by Kubernetes, in its pod or *)
(* in the pod that takes its place.                                        *)
(***************************************************************************)
EXTENDS Naturals

CONSTANTS SegmentTopic, VehicleTopic,
          MaxRequests,  \* bound: API requests at a time
          MaxFailures,  \* bound: things that fail: a setting, a client, a port
          MaxSignals,   \* bound: SIGTERMs
          MaxKills      \* bound: SIGKILLs after a grace period

Topics == {SegmentTopic, VehicleTopic}

ASSUME ProcessAssumption ==
  /\ SegmentTopic # VehicleTopic
  /\ MaxRequests \in Nat /\ MaxFailures \in Nat /\ MaxSignals \in Nat /\ MaxKills \in Nat

VARIABLES main,        \* the statement of main that comes next
          clients,     \* the clients and stores it has made
          subscribed,  \* the topics it has subscribed to
          handlers,    \* the topics of which a message is being handled
          monitoring,  \* the monitoring server: "off", "starting" or "up"
          api,         \* the API server: also "failed" and "closed"
          requests,    \* API requests in flight
          signals,     \* signals in the channel c, which holds one
          asked,       \* has the process been sent SIGTERM?
          cut,         \* requests that were in flight when a process ended
          forced,      \* how often the process ended by other means than main's return
          failures, terms, kills  \* how much of the bounds is used

bounds == <<failures, terms, kills>>
work   == <<handlers, requests>>
ends   == <<cut, forced, asked>>
vars   == <<main, clients, subscribed, handlers, monitoring, api, requests, signals,
            asked, cut, forced, failures, terms, kills>>

Startup  == {"load", "es", "pg", "bundlr", "segments", "vehicles", "monitor",
             "routes", "listen", "notify"}
Running  == {"wait", "drain", "shutdown"}

TypeOK ==
  /\ main \in Startup \cup Running \cup {"exited"}
  /\ clients \subseteq {"es", "pg", "bundlr"}
  /\ subscribed \subseteq Topics
  /\ handlers \subseteq subscribed
  /\ monitoring \in {"off", "starting", "up"}
  /\ api \in {"off", "starting", "up", "failed", "closed"}
  /\ requests \in 0..MaxRequests
  /\ signals \in 0..1
  /\ asked \in BOOLEAN /\ cut \in Nat /\ forced \in Nat
  /\ failures \in 0..MaxFailures /\ terms \in 0..MaxSignals /\ kills \in 0..MaxKills

\* A fresh process; Kubernetes starts it.
Fresh(m) ==
  /\ m = "load"
  /\ clients = {} /\ subscribed = {} /\ handlers = {}
  /\ monitoring = "off" /\ api = "off"
  /\ requests = 0 /\ signals = 0 /\ asked = FALSE

Init ==
  /\ Fresh(main)
  /\ cut = 0 /\ forced = 0
  /\ failures = 0 /\ terms = 0 /\ kills = 0

Restart ==
  /\ main = "exited"
  /\ main' = "load"
  /\ UNCHANGED <<clients, subscribed, work, monitoring, api, signals, ends, bounds>>

\* The process is gone, and what it was doing with it.
Exit ==
  /\ main' = "exited"
  /\ clients' = {} /\ subscribed' = {} /\ handlers' = {}
  /\ monitoring' = "off" /\ api' = "off"
  /\ requests' = 0 /\ signals' = 0 /\ asked' = FALSE
  /\ cut' = cut + requests

Die == Exit /\ forced' = forced + 1

----------------------------------------------------------------------------
(* main *)

\* logger.Fatal().Err(err).Msg(...), or a panic.
Fatal ==
  /\ failures < MaxFailures
  /\ failures' = failures + 1
  /\ Die
  /\ UNCHANGED <<terms, kills>>

Goto(next) ==
  /\ main' = next
  /\ UNCHANGED <<requests, signals, ends, bounds>>

LoadConfig ==
  /\ main = "load"
  /\ \/ Fatal
     \/ Goto("es") /\ UNCHANGED <<clients, subscribed, handlers, monitoring, api>>

Make(client, next) ==
  /\ main = client
  /\ clients' = clients \cup {client}
  /\ Goto(next)
  /\ UNCHANGED <<subscribed, handlers, monitoring, api>>

NewES ==
  \/ main = "es" /\ Fatal
  \/ Make("es", "pg")

\* Mutant: consumption starts before the Bundlr client is made.
NewPGLast == Make("pg", "segments")

\* pg.New never returns an error.
NewPG == Make("pg", "bundlr")

NewBundlr ==
  \/ main = "bundlr" /\ Fatal
  \/ Make("bundlr", "segments")

\* kafka.Consume: the topic's handler runs from here on.
Consume(step, topic, next) ==
  /\ main = step
  /\ \/ Fatal
     \/ /\ subscribed' = subscribed \cup {topic}
        /\ Goto(next)
        /\ UNCHANGED <<clients, handlers, monitoring, api>>

\* Mutant: monitoring starts before the vehicle topic is consumed.
SubscribeLate == Consume("segments", SegmentTopic, "monitor")

Subscribe ==
  \/ Consume("segments", SegmentTopic, "vehicles")
  \/ Consume("vehicles", VehicleTopic, "monitor")

\* go serveMonitoring(...)
StartMonitoring ==
  /\ main = "monitor"
  /\ monitoring' = "starting"
  /\ Goto("routes")
  /\ UNCHANGED <<clients, subscribed, handlers, api>>

\* jwtware.New panics when it cannot fetch the keys.
MakeRoutes ==
  /\ main = "routes"
  /\ \/ Fatal
     \/ Goto("listen") /\ UNCHANGED <<clients, subscribed, handlers, monitoring, api>>

StartAPI ==
  /\ main = "listen"
  /\ api' = "starting"
  /\ Goto("notify")
  /\ UNCHANGED <<clients, subscribed, handlers, monitoring>>

Notify ==
  /\ main = "notify"
  /\ Goto("wait")
  /\ UNCHANGED <<clients, subscribed, handlers, monitoring, api>>

\* <-c
Wait ==
  /\ main = "wait"
  /\ signals = 1
  /\ signals' = 0
  /\ main' = "drain"
  /\ UNCHANGED <<clients, subscribed, work, monitoring, api, ends, bounds>>

\* Mutant: main returns without app.Shutdown.
ReturnAtOnce ==
  /\ main = "drain"
  /\ Exit
  /\ UNCHANGED <<forced, bounds>>

\* Nobody reads the two channels main closes, and nothing was ever added to
\* the WaitGroup: both lines do nothing.  app.Shutdown closes the listener.
Drain ==
  /\ main = "drain"
  /\ api' = "closed"
  /\ Goto("shutdown")
  /\ UNCHANGED <<clients, subscribed, handlers, monitoring>>

\* app.Shutdown returns once the requests are answered, and main returns.
Shutdown ==
  /\ main = "shutdown"
  /\ requests = 0
  /\ Exit
  /\ UNCHANGED <<forced, bounds>>

Main ==
  \/ LoadConfig \/ NewES \/ NewPG \/ NewBundlr \/ Subscribe \/ StartMonitoring
  \/ MakeRoutes \/ StartAPI \/ Notify \/ Wait \/ Drain \/ Shutdown

----------------------------------------------------------------------------
(* The goroutines *)

\* Mutant: the event is not sent, and the process goes on without.
MonitoringOrSilence ==
  /\ monitoring = "starting"
  /\ failures < MaxFailures
  /\ failures' = failures + 1
  /\ monitoring' = "off"
  /\ UNCHANGED <<main, clients, subscribed, work, api, signals, ends, terms, kills>>

ListenMonitoring ==
  /\ monitoring = "starting"
  /\ \/ Fatal
     \/ /\ monitoring' = "up"
        /\ UNCHANGED <<main, clients, subscribed, work, api, signals, ends, bounds>>

\* A Listen that fails is not logged and does not exit: logger.Fatal().Err(err)
\* builds an event that is never sent.
ListenAPI ==
  /\ api = "starting"
  /\ \/ /\ failures < MaxFailures
        /\ failures' = failures + 1
        /\ api' = "failed"
     \/ /\ api' = "up"
        /\ UNCHANGED failures
  /\ UNCHANGED <<main, clients, subscribed, work, monitoring, signals, ends, terms, kills>>

\* The contexts handed to kafka.Consume are never cancelled: messages are
\* handled until the process ends.
Handle(t) ==
  /\ t \in subscribed \ handlers
  /\ handlers' = handlers \cup {t}
  /\ UNCHANGED <<main, clients, subscribed, monitoring, api, requests, signals, ends, bounds>>

Handled(t) ==
  /\ t \in handlers
  /\ handlers' = handlers \ {t}
  /\ UNCHANGED <<main, clients, subscribed, monitoring, api, requests, signals, ends, bounds>>

Request ==
  /\ api = "up"
  /\ requests < MaxRequests
  /\ requests' = requests + 1
  /\ UNCHANGED <<main, clients, subscribed, handlers, monitoring, api, signals, ends, bounds>>

Answer ==
  /\ requests > 0
  /\ requests' = requests - 1
  /\ UNCHANGED <<main, clients, subscribed, handlers, monitoring, api, signals, ends, bounds>>

----------------------------------------------------------------------------
(* Kubernetes and the operating system *)

\* Mutant: the channel has no buffer, so a signal is lost that arrives before
\* main waits for it.
DeliverUnbuffered == signals' \in {signals, 1}

\* Mutant: the channel holds any number of signals.
DeliverAll == signals' = signals + 1

\* From signal.Notify on a signal goes to the channel, unless one is there.
Deliver == signals' = 1

\* SIGTERM; until signal.Notify it ends the process.
Term ==
  /\ main # "exited"
  /\ terms < MaxSignals
  /\ terms' = terms + 1
  /\ \/ main \in Startup /\ Die
     \/ /\ main \in Running
        /\ Deliver
        /\ asked' = TRUE
        /\ UNCHANGED <<main, clients, subscribed, work, monitoring, api, cut, forced>>
  /\ UNCHANGED <<failures, kills>>

\* A process that has not ended some time after SIGTERM gets SIGKILL.
Kill ==
  /\ asked
  /\ kills < MaxKills
  /\ kills' = kills + 1
  /\ Die
  /\ UNCHANGED <<failures, terms>>

Next ==
  \/ Main \/ ListenMonitoring \/ ListenAPI
  \/ \E t \in Topics : Handle(t) \/ Handled(t)
  \/ Request \/ Answer \/ Term \/ Kill \/ Restart

\* main and its goroutines get on, requests are answered, and Kubernetes starts
\* again what has exited.  Messages and requests need not come.
Fairness ==
  /\ WF_vars(Main) /\ WF_vars(ListenMonitoring) /\ WF_vars(ListenAPI)
  /\ WF_vars(Answer) /\ WF_vars(Restart)

Spec     == Init /\ [][Next]_vars
FairSpec == Spec /\ Fairness

----------------------------------------------------------------------------

\* Handlers run while main is still starting the process: never before the
\* clients and stores they use are all there.
HandlersHaveTheirClients == handlers # {} => clients = {"es", "pg", "bundlr"}

\* The probes ask the monitoring server.  A pod that answers them consumes
\* both topics.
ReadyMeansConsuming == monitoring = "up" => subscribed = Topics

\* Requests are answered before an orderly end; it takes a failure of the
\* process, a SIGKILL, or a SIGTERM that comes before signal.Notify to cut one.
RequestsCutByForceOnly == [][cut' > cut => forced' > forced]_vars

\* A signal that main has been sent is never forgotten: the process ends.
SignalsEndTheProcess == asked ~> main = "exited"

\* Once nothing fails or is stopped any more the replica consumes both topics,
\* whatever went wrong and however often it was stopped on the way.
ConsumesInTheEnd == <>[](subscribed = Topics /\ monitoring = "up")

\* A process that ends in order has finished what it was handling.
GracefulShutdown ==
  [][main = "shutdown" /\ main' = "exited" /\ forced' = forced => handlers = {}]_vars

\* A pod that is ready does not stay without an API.
ReadyServes == (monitoring = "up" /\ api # "up") ~> (api = "up" \/ monitoring = "off")

=============================================================================
