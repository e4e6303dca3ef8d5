--------------------------- MODULE SessionTimers ---------------------------
(***************************************************************************)
(* The timers of one session (SessionTimers and its users in               *)
(* node/session.go).  Five deadlines share one runtime timer.  Whoever     *)
(* changes a deadline calls schedule, which stops the timer and starts it  *)
(* for the earliest one; a timer that has fired runs tick in a goroutine   *)
(* of its own, which asks only then what the next event is.  The session's *)
(* reader (HandleCommand of node/node.go) and the handlers of events race  *)
(* for them.                                                               *)
(*                                                                         *)
(* Time is a counter.  Goroutines, and a client that answers, are quick:   *)
(* time passes only when none of them has anything to do, except for the   *)
(* application, which may take its time to authenticate a session and to   *)
(* perform a command.                                                      *)
(***************************************************************************)
EXTENDS Integers, Sequences, FiniteSets

CONSTANTS
    PingInterval,                \* App.PingInterval
    SessionsTTL, PresenceTTL,    \* Broker.SessionsTTL, Broker.PresenceTTL
    Configs,                     \* protocol, native pings, App.PongTimeout, handshake deadline
    Ticks,                       \* bound: goroutines that run tick at once
    MaxTime,                     \* bound: the clock
    MaxCommands                  \* bound: commands a client sends

ASSUME TimersAssumption ==
    /\ {PingInterval, SessionsTTL, PresenceTTL} \subseteq Nat \ {0}
    /\ Configs \subseteq {"base", "ext", "pusher"} \X BOOLEAN \X Nat \X Nat
    /\ MaxTime \in Nat /\ MaxCommands \in Nat

(* The order in which schedule compares deadlines.                         *)
Order == <<"ping", "handshake", "pong", "resume", "presence">>
Events == {Order[i] : i \in DOMAIN Order}
Kept == {"resume", "presence"}   \* deadlines that keep something alive in the broker

VARIABLES
    now,
    opts,        \* the options the session was built with
    deadline,    \* each event's deadline, 0 for none
    nextEvent,
    timer,       \* when the runtime timer fires, 0 if it is stopped
    tick,        \* each goroutine of a fired timer: where it is and its event
    reader,      \* the reader: "auth", "read", "busy", "stop" or "ended"
    doing,       \* the message it handles
    connected,   \* Connected
    closed,      \* closed
    alive,       \* the client answers
    pings,       \* pings it has not answered
    inbox,       \* its messages to the server
    touched,     \* when the session's entries in the broker were last touched
    ended,       \* history: why the session was closed
    freeAt,      \* history: when the reader last waited for messages
    held,        \* history: how long it had not when a pong was missing
    skipped,     \* history: a pong was due before the session was authenticated
    commands

timers == <<deadline, nextEvent, timer>>
session == <<reader, doing, connected, closed, ended>>
client == <<alive, pings, inbox, commands>>
history == <<freeAt, held, skipped>>
vars == <<now, opts, timers, tick, session, client, touched, history>>

(* NewSession, and the options that are given to it: an interval of 0      *)
(* means that there is no such timer.                                      *)
NewOptions(kind, native) ==
    [kind |-> kind, native |-> native, ping |-> PingInterval, pong |-> 0,
     resume |-> 0, presence |-> 0, handshake |-> 0]
WithPingInterval(o, interval) == [o EXCEPT !.ping = interval]
WithPongTimeout(o, timeout) == [o EXCEPT !.pong = timeout]
WithKeepaliveIntervals(o, sessions, presence) ==
    [o EXCEPT !.resume = sessions, !.presence = presence]
WithHandshakeMessageDeadline(o, time) == [o EXCEPT !.handshake = time]

(* cli: the base and the extended protocol, and Pusher's own handler.      *)
sessionOptionsFromProtocol(o, timeout) ==
    LET keep == WithKeepaliveIntervals(o, SessionsTTL \div 2, PresenceTTL \div 2)
    IN IF o.kind = "ext" THEN WithPongTimeout(keep, timeout)
       ELSE IF o.native THEN WithPongTimeout(o, timeout)
       ELSE o
pusherOptions(o) ==
    WithKeepaliveIntervals(WithPingInterval(o, 0), 0, PresenceTTL \div 2)

Options(c) ==
    LET o == NewOptions(c[1], c[2])
    IN IF c[1] = "pusher" THEN pusherOptions(o)
       ELSE WithHandshakeMessageDeadline(sessionOptionsFromProtocol(o, c[3]), c[4])

In(interval) == IF interval > 0 THEN now + interval ELSE 0

(* What schedule makes of deadlines d: the first of the earliest ones.     *)
Due(d) == {i \in DOMAIN Order : d[Order[i]] > 0}

(* Faulty variant: the first event of the list that has a deadline.        *)
EarliestPing(d) == CHOOSE i \in Due(d) : \A j \in Due(d) : i <= j

Earliest(d) ==
    CHOOSE i \in Due(d) :
        \A j \in Due(d) : d[Order[i]] < d[Order[j]] \/ (d[Order[i]] = d[Order[j]] /\ i <= j)

schedule(d) ==
    /\ deadline' = d
    /\ IF Due(d) = {}
       THEN timer' = 0 /\ UNCHANGED nextEvent
       ELSE nextEvent' = Order[Earliest(d)] /\ timer' = d[nextEvent']

(* NewSession and startTimers.  The first ping is at a random moment       *)
(* between half an interval and one and a half.                            *)
InitialPings(interval) == (interval \div 2)..((interval * 3) \div 2 - 1)

Init ==
    /\ now = 1
    /\ \E c \in Configs, first \in InitialPings(PingInterval) :
          /\ opts = Options(c)
          /\ LET d == [ ping      |-> IF opts.ping > 0 THEN 1 + first ELSE 0,
                        pong      |-> IF opts.ping > 0 /\ opts.pong > 0
                                      THEN 1 + first + opts.pong ELSE 0,
                        handshake |-> opts.handshake,
                        resume    |-> IF opts.resume > 0 THEN 1 + opts.resume ELSE 0,
                        presence  |-> IF opts.presence > 0 THEN 1 + opts.presence ELSE 0 ]
             IN /\ deadline = d
                /\ IF Due(d) = {} THEN nextEvent = "none" /\ timer = 0
                   ELSE nextEvent = Order[Earliest(d)] /\ timer = d[nextEvent]
    /\ tick = [g \in Ticks |-> [at |-> "idle", ev |-> "none"]]
    /\ reader = "auth" /\ doing = "none" /\ connected = FALSE /\ closed = FALSE
    /\ alive = TRUE /\ pings = 0 /\ inbox = <<>> /\ commands = 0
    /\ touched = [e \in Kept |-> 1]
    /\ ended = "no" /\ skipped = FALSE /\ freeAt = 1 /\ held = 0

----------------------------------------------------------------------------
(* Ticks *)

Goto(g, at) == tick' = [tick EXCEPT ![g].at = at]
Return(g) == tick' = [tick EXCEPT ![g] = [at |-> "idle", ev |-> "none"]]

(* The runtime starts tick in a goroutine.                                 *)
Fire(g) ==
    /\ timer # 0 /\ timer <= now /\ tick[g].at = "idle"
    /\ timer' = 0
    /\ Goto(g, "fired")
    /\ UNCHANGED <<now, opts, deadline, nextEvent, session, client, touched, history>>

(* tick reads the next event under the lock: it may have changed since the *)
(* timer fired.                                                            *)
Tick(g) ==
    /\ tick[g].at = "fired"
    /\ tick' = [tick EXCEPT ![g] = [at |-> "handle", ev |-> nextEvent]]
    /\ UNCHANGED <<now, opts, timers, session, client, touched, history>>

handleTimerEvent(g) ==
    /\ tick[g].at = "handle"
    /\ IF closed THEN Return(g) ELSE Goto(g, tick[g].ev)
    /\ UNCHANGED <<now, opts, timers, session, client, touched, history>>

(* close, from a handler of an event: the timer is stopped in a step of    *)
(* its own, and only by the one who closes.                                *)
DisconnectBy(g, why) ==
    /\ closed' = TRUE
    /\ ended' = IF closed THEN ended ELSE why
    /\ IF closed THEN Return(g) ELSE Goto(g, "stop")
    /\ connected' = FALSE

StopTimers(g) ==
    /\ tick[g].at = "stop"
    /\ timer' = 0
    /\ Return(g)
    /\ UNCHANGED <<now, opts, deadline, nextEvent, session, client, touched, history>>

(* The last step of several handlers.                                      *)
Schedule(g) ==
    /\ tick[g].at = "schedule"
    /\ schedule(deadline)
    /\ Return(g)
    /\ UNCHANGED <<now, opts, session, client, touched, history>>

maybeDisconnectIdle(g) ==
    \/ /\ tick[g].at = "handshake"
       /\ deadline' = [deadline EXCEPT !.handshake = 0]
       /\ Goto(g, "idleCheck")
       /\ UNCHANGED <<now, opts, nextEvent, timer, session, client, touched, history>>
    \/ /\ tick[g].at = "idleCheck"
       /\ IF connected
          THEN Goto(g, "schedule") /\ UNCHANGED session
          ELSE DisconnectBy(g, "idle") /\ UNCHANGED <<reader, doing>>
       /\ UNCHANGED <<now, opts, timers, client, touched, history>>

(* TouchPresence or TouchSession, then schedulePresence or                 *)
(* scheduleResumeability, which leave it to a later step to start the      *)
(* timer.                                                                  *)
Keepalive(g) ==
    \/ /\ tick[g].at \in Kept
       /\ touched' = [touched EXCEPT ![tick[g].ev] = now]
       /\ Goto(g, "set")
       /\ UNCHANGED <<now, opts, timers, session, client, history>>
    \/ /\ tick[g].at = "set"
       /\ deadline' = [deadline EXCEPT ![tick[g].ev] = In(opts[tick[g].ev])]
       /\ Goto(g, "schedule")
       /\ UNCHANGED <<now, opts, nextEvent, timer, session, client, touched, history>>

(* sendPing: only a connection whose client is gone fails.                 *)
sendPing(g) ==
    /\ tick[g].at = "ping"
    /\ \/ closed /\ Return(g) /\ UNCHANGED <<session, pings>>
       \/ /\ ~closed
          /\ Goto(g, "schedulePing")
          /\ pings' = IF alive THEN pings + 1 ELSE pings
          /\ UNCHANGED session
       \/ /\ ~closed /\ ~alive
          /\ DisconnectBy(g, "write")
          /\ UNCHANGED <<reader, doing, pings>>
    /\ UNCHANGED <<now, opts, timers, alive, inbox, commands, touched, history>>

schedulePing(g) ==
    /\ tick[g].at = "schedulePing"
    /\ schedule([deadline EXCEPT !.ping = In(opts.ping),
                                 !.pong = IF opts.pong > 0 /\ @ = 0 THEN In(opts.pong) ELSE @])
    /\ Return(g)
    /\ UNCHANGED <<now, opts, session, client, touched, history>>

handleNoPong(g) ==
    /\ tick[g].at = "pong"
    /\ IF connected
       THEN /\ DisconnectBy(g, "no pong")
            /\ held' = IF closed THEN held ELSE now - freeAt
            /\ UNCHANGED <<reader, doing, skipped>>
       ELSE Return(g) /\ skipped' = TRUE /\ UNCHANGED <<session, held>>
    /\ UNCHANGED <<now, opts, timers, client, touched, freeAt>>

----------------------------------------------------------------------------
(* The reader *)

(* Authenticate of node.go; Serve follows.                                 *)
Authenticate ==
    /\ reader = "auth"
    /\ \/ /\ ~closed /\ connected' = TRUE /\ reader' = "read"
          /\ UNCHANGED <<closed, ended>>
       \/ ~closed /\ closed' = TRUE /\ ended' = "auth" /\ reader' = "stop" /\ UNCHANGED connected
       \/ closed /\ reader' = "ended" /\ UNCHANGED <<connected, closed, ended>>
    /\ UNCHANGED <<now, opts, timers, tick, doing, client, touched, history>>

resetPong ==
    IF deadline.pong > 0
    THEN schedule([deadline EXCEPT !.pong = @ + opts.pong])
    ELSE UNCHANGED timers

(* Faulty variant: the timer still runs for the pong that has come.        *)
keepaliveNoSchedule == deadline' = [deadline EXCEPT !.pong = 0] /\ UNCHANGED <<nextEvent, timer>>

(* keepalive: a message of the client arrived.                             *)
keepalive ==
    IF deadline.pong > 0
    THEN schedule([deadline EXCEPT !.pong = 0])
    ELSE UNCHANGED timers

(* Serve and ReadMessage, up to the command: HandleCommand calls keepalive *)
(* first.  A native pong is handled inside conn.Read.                      *)
Read ==
    /\ reader = "read" /\ ~closed /\ inbox # <<>>
    /\ inbox' = Tail(inbox)
    /\ IF Head(inbox) = "native pong"
       THEN resetPong /\ UNCHANGED <<reader, doing>>
       ELSE keepalive /\ reader' = "busy" /\ doing' = Head(inbox)
    /\ UNCHANGED <<now, opts, tick, connected, closed, ended, alive, pings, commands,
                   touched, history>>

(* The command was performed.                                              *)
Handled ==
    /\ reader = "busy"
    /\ resetPong
    /\ reader' = "read" /\ doing' = "none"
    /\ UNCHANGED <<now, opts, tick, connected, closed, ended, alive, pings, inbox, commands,
                   touched, history>>

(* The client hung up, or the session was closed meanwhile.                *)
ReadFails ==
    /\ reader = "read"
    /\ \/ closed /\ reader' = "ended" /\ UNCHANGED <<connected, closed, ended>>
       \/ /\ ~closed /\ ~alive
          /\ connected' = FALSE /\ closed' = TRUE /\ ended' = "read" /\ reader' = "stop"
    /\ UNCHANGED <<now, opts, timers, tick, doing, client, touched, history>>

ReaderStopsTimers ==
    /\ reader = "stop"
    /\ timer' = 0 /\ reader' = "ended"
    /\ UNCHANGED <<now, opts, deadline, nextEvent, tick, doing, connected, closed, ended, client,
                   touched, history>>

----------------------------------------------------------------------------
(* The client and time *)

Answers == (IF opts.kind = "ext" THEN <<"pong">> ELSE <<>>)
           \o (IF opts.native THEN <<"native pong">> ELSE <<>>)

Answer ==
    /\ alive /\ pings > 0
    /\ pings' = pings - 1
    /\ inbox' = inbox \o Answers
    /\ UNCHANGED <<now, opts, timers, tick, session, alive, commands, touched, history>>

SendCommand ==
    /\ alive /\ connected /\ commands < MaxCommands
    /\ commands' = commands + 1
    /\ inbox' = Append(inbox, "command")
    /\ UNCHANGED <<now, opts, timers, tick, session, alive, pings, touched, history>>

Die ==
    /\ alive /\ connected
    /\ alive' = FALSE /\ pings' = 0
    /\ UNCHANGED <<now, opts, timers, tick, session, inbox, commands, touched, history>>

Quiet ==
    /\ timer = 0 \/ timer > now
    /\ \A g \in Ticks : tick[g].at = "idle"
    /\ \/ reader \in {"auth", "ended"}
       \/ reader = "read" /\ ~closed /\ inbox = <<>>
       \/ reader = "busy" /\ doing = "command"
    /\ pings = 0 \/ ~alive \/ closed

Advance ==
    /\ Quiet /\ now < MaxTime
    /\ now' = now + 1
    /\ freeAt' = IF reader = "read" THEN now' ELSE freeAt
    /\ UNCHANGED <<opts, timers, tick, session, client, touched, held, skipped>>

Handlers(g) ==
    \/ Fire(g) \/ Tick(g) \/ handleTimerEvent(g) \/ StopTimers(g) \/ Schedule(g)
    \/ maybeDisconnectIdle(g) \/ Keepalive(g) \/ sendPing(g) \/ schedulePing(g)
    \/ handleNoPong(g)

Next ==
    \/ \E g \in Ticks : Handlers(g)
    \/ Authenticate \/ Read \/ Handled \/ ReadFails \/ ReaderStopsTimers
    \/ Answer \/ SendCommand \/ Die
    \/ Advance

Spec == Init /\ [][Next]_vars

----------------------------------------------------------------------------
(* Properties *)

(* The types of the variables.                                             *)
TypeOK ==
    /\ now \in Nat /\ timer \in Nat
    /\ deadline \in [Events -> Nat] /\ nextEvent \in Events \cup {"none"}
    /\ reader \in {"auth", "read", "busy", "stop", "ended"}
    /\ connected \in BOOLEAN /\ closed \in BOOLEAN /\ alive \in BOOLEAN
    /\ touched \in [Kept -> Nat]

(* What the broker keeps for an open session is touched before it expires, *)
(* although pings, pongs and commands move the one timer all the time      *)
(* (intervals are half the TTL).                                           *)
KeptAlive ==
    ~closed /\ ~skipped =>
        /\ opts.resume > 0 => now <= touched["resume"] + SessionsTTL
        /\ opts.presence > 0 => now <= touched["presence"] + PresenceTTL

(* A client that answers every ping is not disconnected for a missing      *)
(* pong, unless the application kept the reader from reading for at least  *)
(* as long.  Two exceptions: a timeout that is no longer than the interval *)
(* (an answer that is read before schedulePing sets the deadline counts    *)
(* for nothing, and the next ping comes too late), and a pong that was due *)
(* before the session was authenticated (its deadline stays in the past).  *)
AnsweringClientKept ==
    ended = "no pong" /\ alive => held >= opts.pong \/ opts.pong <= opts.ping \/ skipped
=============================================================================
