----------------------------- MODULE Lifecycle -----------------------------
(***************************************************************************)
(* The process (cli/cli.go): Run starts the parts one after another and    *)
(* builds the list of what is to be shut down; GracefulSignals             *)
(* (utils/graceful_signals.go) shuts them down in the order of that list   *)
(* when a signal comes, and a second signal, or a timeout, hurries it.     *)
(* Meanwhile clients connect and messages are accepted by HTTP servers     *)
(* (server/server.go), which parts may share.                              *)
(*                                                                         *)
(* What a part does is reduced to what the order of the list matters to:   *)
(* servers accept and wait for their requests, the node disconnects its    *)
(* sessions (NodeShutdown has that in detail), and a message is published  *)
(* through the broker and the subscriber.                                  *)
(***************************************************************************)
EXTENDS Naturals, Sequences, SequencesExt, FiniteSets

CONSTANTS
    Configs,       \* optional parts and choices, as sets
    Clients,       \* WebSocket clients
    Messages,      \* requests to publish
    MaxSignals,    \* bound: signals sent to the process
    MaxFailures    \* bound: parts that fail while they run

VARIABLES
    config,
    todo,           \* steps of Run that are left, while it starts
    shutdownables,
    up,             \* parts that were started and not shut down
    stopped,        \* servers whose Shutdown was called
    served,         \* servers whose Serve has failed
    errChan,        \* who sends to errChan
    signals,        \* signals sent
    handlers,       \* GracefulSignals: handlers that are left
    begun,          \* the first of them has begun
    executed,       \* GracefulSignals
    term,           \* the goroutine for the second signal
    done,           \* the context of the handlers is done
    client,         \* each client: where it is
    late,           \* history: clients the node could not know when it shut down
    message,        \* each request: where it is, by which part, and its fate
    failures,       \* history
    exit            \* how the process ended

parts == <<config, todo, shutdownables, up, stopped, served, errChan, failures>>
signalVars == <<signals, handlers, begun, executed, term, done>>
traffic == <<client, late, message>>
vars == <<parts, signalVars, traffic, exit>>

Has(option) == option \in config

-----------------------------------------------------------------------------
(* Run: a step starts a part, which may fail, or changes the list.         *)

Start(part) == [do |-> "start", part |-> part]
Add(part) == [do |-> "append", part |-> part]
AddFirst(part) == [do |-> "prepend", part |-> part]
If(option, steps) == IF option \in config THEN steps ELSE << >>

(* newController comes first of all, for the node is built with it.        *)
newController == <<Start("newController")>>

embedNATS == If("enats", <<Start("enats"), Add("enats")>>)

(* Faulty variant: the subscriber is listed as soon as it has started.     *)
runNodeSubscriberFirst ==
    <<Add("metrics")>> \o newController
    \o If("telemetry", <<Start("tracker"), Add("tracker")>>)
    \o embedNATS
    \o <<Start("node"), Start("subscriber"), Add("subscriber"), Start("broker"),
         Start("broadcaster"), Add("broadcaster"), Start("controller"),
         AddFirst("broker"), AddFirst("node")>>

(* The subscriber is listed after the broadcasters.                        *)
runNode ==
    <<Add("metrics")>> \o newController
    \o If("telemetry", <<Start("tracker"), Add("tracker")>>)
    \o embedNATS
    \o <<Start("node"), Start("subscriber"), Start("broker"), Start("broadcaster"),
         Add("broadcaster"), Add("subscriber"), Start("controller"),
         AddFirst("broker"), AddFirst("node")>>

pusherAPI == If("pusher", <<Start("pusher"), Add("pusher")>>)

startAPIServer == If("api", <<Start("api"), Add("api")>>)

startWSServer == <<Start("ws"), AddFirst("ws")>>

Run == runNode \o pusherAPI \o startAPIServer \o startWSServer
       \o If("delay", <<AddFirst("sleeper")>>)

(* ForPort: parts on one port share a server.                              *)
ForPort(part) == IF part = "broadcaster" /\ Has("sharedPort") THEN "ws" ELSE part
Servers == {"ws", "broadcaster", "pusher", "api"}
Serving(part) ==
    /\ \E p \in up : ForPort(p) = ForPort(part)
    /\ ForPort(part) \notin stopped \cup served

Init ==
    /\ config \in Configs
    /\ todo = Run
    /\ shutdownables = << >> /\ up = {} /\ stopped = {} /\ served = {} /\ errChan = {}
    /\ signals = 0 /\ handlers = << >> /\ begun = FALSE /\ executed = FALSE
    /\ term = "off" /\ done = FALSE
    /\ client = [c \in Clients |-> "none"] /\ late = {}
    /\ message = [m \in Messages |-> [at |-> "none", by |-> "none", hurried |-> FALSE]]
    /\ failures = 0 /\ exit = "no"

(* A step of Run: an error of Start is returned, and the process exits     *)
(* without any shutdown.                                                   *)
StartStep ==
    /\ todo # << >>
    /\ LET step == Head(todo) IN
       \/ /\ step.do = "start"
          /\ up' = up \cup {step.part}
          /\ todo' = Tail(todo)
          /\ UNCHANGED <<shutdownables, failures, exit>>
       \/ /\ step.do = "start"
          /\ step.part # "tracker" /\ failures < MaxFailures
          /\ failures' = failures + 1
          /\ exit' = "error"
          /\ UNCHANGED <<up, todo, shutdownables>>
       \/ /\ step.do # "start"
          /\ shutdownables' = IF step.do = "append" THEN Append(shutdownables, step.part)
                              ELSE <<step.part>> \o shutdownables
          /\ todo' = Tail(todo)
          /\ UNCHANGED <<up, failures, exit>>
    /\ UNCHANGED <<config, stopped, served, errChan, signalVars, traffic>>

Running == todo = << >>

(* Run waits for the first who sends to errChan.                           *)
RunReturns ==
    /\ Running
    /\ \E by \in errChan : exit' = IF by = "handler" THEN "graceful" ELSE "error"
    /\ UNCHANGED <<parts, signalVars, traffic>>

-----------------------------------------------------------------------------
(* Parts that fail, and servers.                                           *)

(* The subscriber, the broker or a broadcaster gives up.                   *)
PartFails(part) ==
    /\ part \in up \cap {"subscriber", "broker", "broadcaster"}
    /\ failures < MaxFailures
    /\ failures' = failures + 1
    /\ errChan' = errChan \cup {part}
    /\ UNCHANGED <<config, todo, shutdownables, up, stopped, served, signalVars, traffic, exit>>

(* StartAndAnnounce returns by itself, and its goroutine reports the error.*)
(* After Shutdown it returns, too, and reports nothing.                    *)
ServeFails(server) ==
    /\ server \notin served \cup stopped /\ \E part \in up : ForPort(part) = server
    /\ failures < MaxFailures
    /\ failures' = failures + 1
    /\ served' = served \cup {server}
    /\ errChan' = errChan \cup {server}
    /\ UNCHANGED <<config, todo, shutdownables, up, stopped, signalVars, traffic, exit>>

(* What a server's Shutdown waits for: connections that are not hijacked.  *)
InFlight(server) ==
    \/ server = "ws" /\ \E c \in Clients : client[c] \in {"upgrading", "streaming"}
    \/ \E m \in Messages : message[m].at = "accepted" /\ ForPort(message[m].by) = server

-----------------------------------------------------------------------------
(* Clients: a request to the server is upgraded to a WebSocket, which the  *)
(* server then forgets, and authenticated; or it streams events until the  *)
(* server's ShutdownCtx.                                                   *)

Moves(c, place) ==
    /\ client' = [client EXCEPT ![c] = place]
    /\ UNCHANGED <<parts, signalVars, late, message, exit>>

Upgrade(c) ==
    \/ client[c] = "none" /\ "ws" \in up /\ Serving("ws") /\ Moves(c, "upgrading")
    \/ client[c] = "none" /\ "ws" \in up /\ Serving("ws") /\ Moves(c, "streaming")
    \/ client[c] = "upgrading" /\ Moves(c, "hijacked")
    \/ client[c] = "hijacked" /\ Moves(c, "connected")

Leave(c) ==
    \/ client[c] = "connected" /\ Moves(c, "gone")
    \/ client[c] = "streaming" /\ Moves(c, "gone")

StreamEnds(c) == client[c] = "streaming" /\ "ws" \in stopped /\ Moves(c, "gone")

(* Messages: accepted by a server, then published.                         *)
Accept(m, part) ==
    /\ message[m].at = "none"
    /\ part \in up /\ Serving(part)
    /\ message' = [message EXCEPT ![m].at = "accepted", ![m].by = part]
    /\ UNCHANGED <<parts, signalVars, client, late, exit>>

(* A NATS broker without its connection is an error for the publisher; a   *)
(* subscriber that cannot publish only logs it.                            *)
Outcome ==
    IF Has("natsBroker") /\ "broker" \notin up THEN "refused"
    ELSE IF "subscriber" \notin up \/ (Has("enats") /\ "enats" \notin up) THEN "lost"
    ELSE "published"
Publish(m) ==
    /\ message[m].at = "accepted"
    /\ message' = [message EXCEPT ![m].at = Outcome, ![m].hurried = done]
    /\ UNCHANGED <<parts, signalVars, client, late, exit>>

-----------------------------------------------------------------------------
(* GracefulSignals.                                                        *)

(* setupSignalHandlers is done when Run waits; before, a signal kills.     *)
Signal ==
    /\ signals < MaxSignals
    /\ signals' = signals + 1
    /\ IF ~Running
       THEN exit' = "killed" /\ UNCHANGED <<handlers, executed, term>>
       ELSE /\ exit' = exit
            /\ executed' = TRUE
            /\ IF executed THEN UNCHANGED handlers ELSE handlers' = shutdownables
            /\ term' = IF ~executed THEN "starting"
                       ELSE IF term = "armed" THEN "fired"
                       ELSE term
    /\ UNCHANGED <<parts, begun, done, traffic>>

(* The goroutine of exec: a signal before its Notify is nothing to it.     *)
Notify ==
    /\ term = "starting"
    /\ term' = "armed"
    /\ UNCHANGED <<parts, signals, handlers, begun, executed, done, traffic, exit>>

TerminateImmediately ==
    /\ term = "fired" /\ ~done
    /\ done' = TRUE
    /\ UNCHANGED <<parts, signals, handlers, begun, executed, term, traffic, exit>>

Timeout ==
    /\ executed /\ ~done
    /\ done' = TRUE
    /\ UNCHANGED <<parts, signals, handlers, begun, executed, term, traffic, exit>>

Current == IF executed /\ handlers # << >> THEN Head(handlers) ELSE "none"

(* A handler begins: what it takes away at once.                           *)
Begin ==
    /\ Current # "none" /\ ~begun
    /\ begun' = TRUE
    /\ stopped' = IF Current \in Servers THEN stopped \cup {ForPort(Current)} ELSE stopped
    /\ late' = IF Current = "node" THEN {c \in Clients : client[c] \in {"upgrading", "hijacked"}}
               ELSE late
    /\ UNCHANGED <<config, todo, shutdownables, up, served, errChan, failures, signals, handlers,
                   executed, term, done, client, message, exit>>

(* disconnectAll.                                                          *)
NodeDisconnects(c) ==
    /\ Current = "node" /\ begun /\ ~done
    /\ client[c] = "connected" /\ c \notin late
    /\ Moves(c, "gone")

(* Faulty variant: a server waits for its requests, however long.          *)
EndsPatient ==
    CASE Current \in Servers -> ~InFlight(ForPort(Current))
      [] Current = "node" -> done \/ \A c \in Clients : client[c] = "connected" => c \in late
      [] OTHER -> TRUE

(* When a handler returns.                                                 *)
Ends ==
    CASE Current \in Servers -> done \/ ~InFlight(ForPort(Current))
      [] Current = "node" -> done \/ \A c \in Clients : client[c] = "connected" => c \in late
      [] OTHER -> TRUE

Shutdown ==
    /\ Current # "none" /\ begun /\ Ends
    /\ up' = IF Current \in Servers THEN up ELSE up \ {Current}
    /\ handlers' = Tail(handlers)
    /\ begun' = FALSE
    /\ UNCHANGED <<config, todo, shutdownables, stopped, served, errChan, failures, signals,
                   executed, term, done, traffic, exit>>

(* The last handler ends Run.                                              *)
LastHandler ==
    /\ executed /\ handlers = << >>
    /\ "handler" \notin errChan
    /\ errChan' = errChan \cup {"handler"}
    /\ UNCHANGED <<config, todo, shutdownables, up, stopped, served, failures, signalVars,
                   traffic, exit>>

-----------------------------------------------------------------------------

Handlers == Begin \/ Shutdown \/ LastHandler
Next ==
    /\ exit = "no"
    /\ \/ StartStep \/ RunReturns
       \/ \E part \in up : PartFails(part)
       \/ \E server \in Servers : ServeFails(server)
       \/ \E c \in Clients : Upgrade(c) \/ Leave(c) \/ StreamEnds(c) \/ NodeDisconnects(c)
       \/ \E m \in Messages : Publish(m) \/ \E part \in Servers \ {"ws"} : Accept(m, part)
       \/ Signal \/ Notify \/ TerminateImmediately \/ Timeout
       \/ Handlers

(* The goroutine of the handlers goes on, and time passes.  Requests that  *)
(* are being handled owe nothing.                                          *)
HandlersGoOn == exit = "no" /\ Handlers
RunEnds == exit = "no" /\ RunReturns
TimePasses == exit = "no" /\ Timeout
Fairness == WF_vars(HandlersGoOn) /\ WF_vars(RunEnds) /\ WF_vars(TimePasses)

Spec == Init /\ [][Next]_vars /\ Fairness

-----------------------------------------------------------------------------
(* A message that a broadcaster accepted is published however the shutdown *)
(* goes on around it, if there is time, or its publisher is told; unless   *)
(* it is published through an embedded NATS server, which the list has     *)
(* before the broadcasters.                                                *)
BroadcastsSurvive ==
    \A m \in Messages :
        message[m].at = "lost" /\ message[m].by = "broadcaster"
            => message[m].hurried \/ Has("enats")

(* Once a signal was received, the process exits.                          *)
SignalEnds == executed ~> (exit # "no")
=============================================================================
