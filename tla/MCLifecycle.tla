---------------------------- MODULE MCLifecycle ----------------------------
(***************************************************************************)
(* How the process starts and ends, and the shutdown of its node.  The two *)
(* are explored one at a time, as part says.                               *)
(***************************************************************************)
EXTENDS NodeShutdown

CONSTANTS
    Configs, Clients, Messages, MaxSignals, MaxFailures   \* Lifecycle

VARIABLES
    part,
    config, todo, shutdownables, up, closed, served, errChan, failures, signals, handlers,
    handling, executed, term, done, client, late, message, exit

process == <<config, todo, shutdownables, up, closed, served, errChan, failures, signals,
             handlers, handling, executed, term, done, client, late, message, exit>>
all == <<part, vars, process>>

(* Which optional parts run, and how: every choice occurs.                 *)
MCConfigs == {{"api"}, {"sharedPort", "delay", "pusher", "natsBroker"}, {"enats", "telemetry"}}

L == INSTANCE Lifecycle WITH stopped <- closed, begun <- handling

(* Each part starts from its own initial states, the other rests in one.   *)
MCInit ==
    /\ part \in {"node", "process"}
    /\ Init /\ L!Init
    /\ part # "process" => config = CHOOSE c \in Configs : TRUE

MCNext ==
    /\ UNCHANGED part
    /\ \/ part = "node" /\ Next /\ UNCHANGED process
       \/ part = "process" /\ L!Next /\ UNCHANGED vars

(* The fairness of the modules, each in its part.                          *)
MCFairness ==
    /\ \A c \in Callers : WF_vars(part = "node" /\ Controller(c))
    /\ \A s \in Sessions : WF_vars(part = "node" /\ Session(s)) /\ WF_vars(part = "node" /\ Task(s))
    /\ WF_vars(part = "node" /\ Executor)
    /\ WF_vars(part = "node" /\ ShutdownStep)
    /\ WF_process(part = "process" /\ L!HandlersGoOn)
    /\ WF_process(part = "process" /\ L!RunEnds)
    /\ WF_process(part = "process" /\ L!TimePasses)

MCSpec == MCInit /\ [][MCNext]_all /\ MCFairness

-----------------------------------------------------------------------------
(* Lifecycle!BroadcastsSurvive: what a broadcaster accepted is published   *)
(* or refused, if there is time, unless by the embedded NATS server.       *)
BroadcastsSurvive == L!BroadcastsSurvive

(* Lifecycle!SignalEnds: a signal ends the process.                        *)
SignalEnds == L!SignalEnds
=============================================================================
