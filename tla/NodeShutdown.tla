---------------------------- MODULE NodeShutdown ----------------------------
(***************************************************************************)
(* How the application learns that sessions have gone, and how a node ends.*)
(* Node.Disconnect (node/node.go) hands a session to the rate-limited      *)
(* DisconnectQueue (node/disconnect_queue.go), or calls Disconnect of the  *)
(* RPC controller (rpc/rpc.go) itself when the node is shutting down.      *)
(* Calls take a ticket of the barrier (rpc/barrier.go), and compete with   *)
(* the commands of other sessions for it.  Node.Shutdown disconnects the   *)
(* sessions, stops the queue, calls for what is left in it, and closes the *)
(* controller, all before a deadline or else with less care.               *)
(*                                                                         *)
(* A session that is not disconnectable needs no call and is left out.     *)
(***************************************************************************)
EXTENDS Integers, Sequences, SequencesExt

CONSTANTS
    Sessions,
    Concurrency,   \* tickets of the barrier
    Backlog,       \* capacity of the queue's channel
    MaxRetries,    \* bound: answers that an RPC is retried for
    MaxCommands    \* bound: commands of sessions

ASSUME ShutdownAssumption ==
    /\ Concurrency \in Nat \ {0} /\ Backlog \in Nat \ {0}
    /\ MaxRetries \in Nat /\ MaxCommands \in Nat

(* The goroutines that call the controller: the one that disconnects a     *)
(* session, its reader, DisconnectQueue.Run and Node.Shutdown.             *)
Leaver(s) == <<"leaver", s>>
Reader(s) == <<"reader", s>>
Run == <<"run">>
Main == <<"main">>
Callers == {Leaver(s) : s \in Sessions} \cup {Reader(s) : s \in Sessions} \cup {Run, Main}
NoSession == <<"none">>

VARIABLES
    phase,      \* each session: "new", "connected", and where Disconnect is
    tasks,      \* disconnectAll's tasks that did not end
    mine,       \* the sessions that they disconnect themselves
    rpc,        \* each caller: "none", "acquire", "call" or "retry"
    about,      \* the session it calls for
    tickets,    \* what is in the barrier's channel
    open,       \* the connection to the RPC server is not closed
    queue,      \* the disconnect channel
    stopped,    \* isStopped
    signal,     \* the shutdown channel holds a token
    run,        \* DisconnectQueue.Run: "select", "throttle", "call", "ended"
    stage,      \* Node.Shutdown: see Shutdown below
    expired,    \* the deadline of its context has passed
    accepted,   \* history: sessions queued before the queue was stopped
    begun,      \* history: how many DisconnectNow were begun for a session
    returned,   \* history: sessions whose DisconnectNow returned
    retries, commands

calls == <<rpc, about, tickets, open, returned, retries, commands>>
disconnector == <<queue, stopped, signal, run, accepted>>
node == <<stage, expired>>
vars == <<phase, tasks, mine, calls, begun, disconnector, node>>

Init ==
    /\ phase = [s \in Sessions |-> "new"]
    /\ tasks = {} /\ mine = {}
    /\ rpc = [c \in Callers |-> "none"]
    /\ about = [c \in Callers |-> NoSession]
    /\ tickets = Concurrency
    /\ open = TRUE
    /\ queue = << >> /\ stopped = FALSE /\ signal = FALSE /\ run = "select"
    /\ stage = "running" /\ expired = FALSE
    /\ accepted = {} /\ returned = {}
    /\ begun = [s \in Sessions |-> 0]
    /\ retries = 0 /\ commands = 0

Is(s, place) == phase[s] = place
Goes(s, place) == phase' = [phase EXCEPT ![s] = place]

-----------------------------------------------------------------------------
(* The controller.                                                         *)

Begin(c, s) ==
    /\ rpc' = [rpc EXCEPT ![c] = "acquire"]
    /\ about' = [about EXCEPT ![c] = s]
    /\ UNCHANGED <<tickets, open, returned, retries, commands>>

DisconnectNow(c, s) ==
    /\ Begin(c, s)
    /\ begun' = [begun EXCEPT ![s] = @ + 1]

Acquire(c) ==
    /\ rpc[c] = "acquire" /\ tickets > 0
    /\ tickets' = tickets - 1
    /\ rpc' = [rpc EXCEPT ![c] = "call"]
    /\ UNCHANGED <<phase, tasks, mine, about, open, returned, retries, commands, begun,
                   disconnector, node>>

(* retry: answers that say the server is busy or not there are retried     *)
(* after a delay, while the connection is open and the time is not out.    *)
RetryLater(c) ==
    /\ rpc[c] = "call" /\ open
    /\ retries < MaxRetries
    /\ retries' = retries + 1
    /\ rpc' = [rpc EXCEPT ![c] = "retry"]
    /\ UNCHANGED <<phase, tasks, mine, about, tickets, open, returned, commands, begun,
                   disconnector, node>>
Retry(c) ==
    /\ rpc[c] = "retry"
    /\ rpc' = [rpc EXCEPT ![c] = "call"]
    /\ UNCHANGED <<phase, tasks, mine, about, tickets, open, returned, retries, commands,
                   begun, disconnector, node>>

(* The end of a call: its result, another error, the timeout, a cancelled  *)
(* context or a closed connection; the ticket is released in any case.     *)
Release(c) ==
    /\ tickets' = tickets + 1
    /\ rpc' = [rpc EXCEPT ![c] = "none"]
    /\ about' = [about EXCEPT ![c] = NoSession]
    /\ UNCHANGED <<open, retries, commands>>

Ends(c) == rpc[c] \in {"call", "retry"}

-----------------------------------------------------------------------------
(* Sessions.                                                               *)

Connect(s) ==
    /\ Is(s, "new")
    /\ Goes(s, "connected")
    /\ UNCHANGED <<tasks, mine, calls, begun, disconnector, node>>

(* A command of a session, and its end.                                    *)
Command(s) ==
    /\ Is(s, "connected") /\ rpc[Reader(s)] = "none"
    /\ commands < MaxCommands
    /\ rpc' = [rpc EXCEPT ![Reader(s)] = "acquire"]
    /\ about' = [about EXCEPT ![Reader(s)] = s]
    /\ commands' = commands + 1
    /\ UNCHANGED <<phase, tasks, mine, tickets, open, returned, retries, begun,
                   disconnector, node>>
CommandEnds(s) ==
    /\ Ends(Reader(s))
    /\ Release(Reader(s))
    /\ UNCHANGED <<phase, tasks, mine, returned, begun, disconnector, node>>

(* disconnectFromNode: one goroutine finds the session connected.          *)
Leave(s) ==
    /\ Is(s, "connected")
    /\ Goes(s, "left")
    /\ UNCHANGED <<tasks, mine, calls, begun, disconnector, node>>

(* Node.Disconnect, after the hub: IsShuttingDown decides.                 *)
Disconnect(s) ==
    /\ Is(s, "left")
    /\ \/ /\ stage = "running"
          /\ Goes(s, "enqueue")
          /\ UNCHANGED <<calls, begun>>
       \/ /\ stage # "running"
          /\ Goes(s, "calling")
          /\ DisconnectNow(Leaver(s), s)
    /\ UNCHANGED <<tasks, mine, disconnector, node>>

DisconnectEnds(s) ==
    /\ Is(s, "calling") /\ Ends(Leaver(s))
    /\ Release(Leaver(s))
    /\ returned' = returned \cup {s}
    /\ Goes(s, "gone")
    /\ UNCHANGED <<tasks, mine, begun, disconnector, node>>

(* Enqueue tests isStopped under its lock, and sends without it.           *)
Enqueue(s) ==
    /\ Is(s, "enqueue")
    /\ Goes(s, IF stopped THEN "gone" ELSE "send")
    /\ UNCHANGED <<tasks, mine, calls, begun, disconnector, node>>

(* The send waits until the channel's buffer has room.                     *)
Send(s) ==
    /\ Is(s, "send")
    /\ Len(queue) < Backlog
    /\ queue' = Append(queue, s)
    /\ accepted' = IF stopped THEN accepted ELSE accepted \cup {s}
    /\ Goes(s, "gone")
    /\ UNCHANGED <<tasks, mine, calls, begun, stopped, signal, run, node>>

-----------------------------------------------------------------------------
(* DisconnectQueue.Run.                                                    *)

Receive ==
    /\ run = "select" /\ queue # << >>
    /\ run' = "throttle"
    /\ about' = [about EXCEPT ![Run] = Head(queue)]
    /\ queue' = Tail(queue)
    /\ UNCHANGED <<phase, tasks, mine, rpc, tickets, open, returned, retries, commands,
                   begun, stopped, signal, accepted, node>>

Throttled ==
    /\ run = "throttle"
    /\ run' = "call"
    /\ DisconnectNow(Run, about[Run])
    /\ UNCHANGED <<phase, tasks, mine, queue, stopped, signal, accepted, node>>

RunCalled ==
    /\ run = "call" /\ Ends(Run)
    /\ Release(Run)
    /\ returned' = returned \cup {about[Run]}
    /\ run' = "select"
    /\ UNCHANGED <<phase, tasks, mine, begun, queue, stopped, signal, accepted, node>>

RunEnds ==
    /\ run = "select" /\ signal
    /\ run' = "ended"
    /\ signal' = FALSE
    /\ UNCHANGED <<phase, tasks, mine, calls, begun, queue, stopped, accepted, node>>

-----------------------------------------------------------------------------
(* Node.Shutdown: "sessions" (disconnectAll), "queue", "drain" (both       *)
(* DisconnectQueue.Shutdown), "controller", and "down" at the end.         *)

Shutdown ==
    /\ stage = "running"
    /\ stage' = "sessions"
    /\ tasks' = {s \in Sessions : Is(s, "connected")}
    /\ UNCHANGED <<phase, mine, calls, begun, disconnector, expired>>

(* Faulty variant: the task of a session that left by itself never ends.   *)
TaskSkippedIfLate(s) ==
    /\ s \in tasks \ mine
    /\ expired
    /\ tasks' = tasks \ {s}
    /\ UNCHANGED <<phase, mine, calls, begun, disconnector, node>>

(* A task of the pool: nothing to do for a session that left by itself, or *)
(* after the deadline; else it disconnects the session and waits for that. *)
TaskSkipped(s) ==
    /\ s \in tasks \ mine
    /\ expired \/ ~Is(s, "connected")
    /\ tasks' = tasks \ {s}
    /\ UNCHANGED <<phase, mine, calls, begun, disconnector, node>>
TaskDisconnects(s) ==
    /\ s \in tasks \ mine
    /\ ~expired /\ Is(s, "connected")
    /\ Goes(s, "left")
    /\ mine' = mine \cup {s}
    /\ UNCHANGED <<tasks, calls, begun, disconnector, node>>
TaskEnds(s) ==
    /\ s \in tasks \cap mine
    /\ Is(s, "gone")
    /\ tasks' = tasks \ {s}
    /\ UNCHANGED <<phase, mine, calls, begun, disconnector, node>>

Expire ==
    /\ stage \notin {"running", "down"} /\ ~expired
    /\ expired' = TRUE
    /\ UNCHANGED <<phase, tasks, mine, calls, begun, disconnector, stage>>

SessionsEnd ==
    /\ stage = "sessions"
    /\ tasks = {} \/ expired
    /\ stage' = "queue"
    /\ UNCHANGED <<phase, tasks, mine, calls, begun, disconnector, expired>>

StopQueue ==
    /\ stage = "queue"
    /\ stage' = "drain"
    /\ stopped' = TRUE
    /\ signal' = TRUE
    /\ UNCHANGED <<phase, tasks, mine, calls, begun, queue, run, accepted, expired>>

Drain ==
    /\ stage = "drain" /\ rpc[Main] = "none"
    /\ queue # << >>
    /\ queue' = Tail(queue)
    /\ DisconnectNow(Main, Head(queue))
    /\ UNCHANGED <<phase, tasks, mine, stopped, signal, run, accepted, node>>

DrainCalled ==
    /\ Ends(Main)
    /\ Release(Main)
    /\ returned' = returned \cup {about[Main]}
    /\ UNCHANGED <<phase, tasks, mine, begun, disconnector, node>>

(* Faulty variant: one call is made for all that is left.                  *)
DrainEndsEarly ==
    /\ stage = "drain" /\ rpc[Main] = "none"
    /\ stage' = "controller"
    /\ UNCHANGED <<phase, tasks, mine, calls, begun, disconnector, expired>>

DrainEnds ==
    /\ stage = "drain" /\ rpc[Main] = "none"
    /\ queue = << >> \/ expired
    /\ stage' = "controller"
    /\ UNCHANGED <<phase, tasks, mine, calls, begun, disconnector, expired>>

(* Controller.Shutdown looks once whether calls are active: its error is   *)
(* no gRPC status, so retry returns it, and the connection is closed.      *)
CloseController ==
    /\ stage = "controller"
    /\ stage' = "down"
    /\ open' = FALSE
    /\ UNCHANGED <<phase, tasks, mine, rpc, about, tickets, returned, retries, commands,
                   begun, disconnector, expired>>

-----------------------------------------------------------------------------

Controller(c) == Acquire(c) \/ RetryLater(c) \/ Retry(c)
Session(s) == Disconnect(s) \/ DisconnectEnds(s) \/ Enqueue(s) \/ Send(s) \/ CommandEnds(s)
Executor == Receive \/ Throttled \/ RunCalled \/ RunEnds
Task(s) == TaskSkipped(s) \/ TaskDisconnects(s) \/ TaskEnds(s)
ShutdownStep ==
    SessionsEnd \/ StopQueue \/ Drain \/ DrainCalled \/ DrainEnds \/ CloseController

Next ==
    \/ \E c \in Callers : Controller(c)
    \/ \E s \in Sessions : Connect(s) \/ Command(s) \/ Leave(s) \/ Session(s) \/ Task(s)
    \/ Executor
    \/ Shutdown \/ ShutdownStep \/ Expire

(* Every goroutine goes on while it can, and every call ends, for          *)
(* CommandTimeout is set; clients and signals owe nothing.                 *)
Fairness ==
    /\ \A c \in Callers : WF_vars(Controller(c))
    /\ \A s \in Sessions : WF_vars(Session(s)) /\ WF_vars(Task(s))
    /\ WF_vars(Executor)
    /\ WF_vars(ShutdownStep)

Spec == Init /\ [][Next]_vars /\ Fairness

-----------------------------------------------------------------------------

(* The types of the variables.                                             *)
TypeOK ==
    /\ phase \in [Sessions -> {"new", "connected", "left", "enqueue", "send", "calling", "gone"}]
    /\ tasks \subseteq Sessions /\ mine \subseteq Sessions
    /\ rpc \in [Callers -> {"none", "acquire", "call", "retry"}]
    /\ about \in [Callers -> Sessions \cup {NoSession}]
    /\ tickets \in 0 .. Concurrency
    /\ open \in BOOLEAN
    /\ Range(queue) \subseteq Sessions /\ Len(queue) <= Backlog
    /\ stopped \in BOOLEAN /\ signal \in BOOLEAN /\ expired \in BOOLEAN
    /\ run \in {"select", "throttle", "call", "ended"}
    /\ stage \in {"running", "sessions", "queue", "drain", "controller", "down"}
    /\ accepted \subseteq Sessions /\ returned \subseteq Sessions
    /\ begun \in [Sessions -> Nat]
    /\ retries \in 0 .. MaxRetries /\ commands \in 0 .. MaxCommands

(* A shutdown that is not out of time has called for every session it      *)
(* disconnected, and for every one that was queued when it stopped the     *)
(* queue, before it closes the connection to the application: all but the  *)
(* one that Run still has in its hand.                                     *)
InHand(s) == about[Run] = s
Flushed ==
    stage \in {"controller", "down"} /\ ~expired =>
        \A s \in mine \cup accepted : s \in returned \/ InHand(s)

(* Node.Shutdown comes to its end.                                         *)
ShutdownEnds == stage = "sessions" ~> stage = "down"
=============================================================================
