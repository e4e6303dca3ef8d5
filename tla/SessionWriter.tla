--------------------------- MODULE SessionWriter ---------------------------
(***************************************************************************)
(* node/session.go: how frames reach a client and how a session ends.      *)
(*                                                                         *)
(* The write queue is the one of FifoQueue.tla (which utils.Queue is proved*)
(* to implement).  Goroutines run interleaved: the writer (SendMessages),  *)
(* the reader (Serve, which also authenticates the session), and Callers,  *)
(* which stand for whoever else calls into the session: the hub's          *)
(* broadcasts, remote disconnects, node shutdown and the session's timers. *)
(* One step is what runs under one lock or is one call into the queue or   *)
(* the connection; todo[t] holds the steps goroutine t still has to run.   *)
(***************************************************************************)
EXTENDS Integers, Sequences

CONSTANTS
    Callers,       \* goroutines other than the reader and the writer
    MaxPending,    \* WithMaxPendingSize (0: no limit)
    MaxCalls,      \* bound: calls and failing commands in one behaviour
    PeerMayStall   \* whether the client may stop reading and writes time out

(* What the constants are. *)
SessionAssumption ==
    /\ MaxPending \in Nat
    /\ MaxCalls \in Nat
    /\ PeerMayStall \in BOOLEAN
    /\ {"reader", "writer"} \cap Callers = {}

VARIABLES
    pending, pendingSize, qclosed, waiter,   \* the write queue
    limit,         \* s.maxPendingSize
    connected,     \* s.Connected
    closed,        \* s.closed
    conn,          \* the connection, until conn.Close: "open" or "closed"
    peer,          \* the client: "ok", "stalled" or "gone"
    writer,        \* SendMessages: "wait", "remove", "write" or "done"
    frame,         \* SendMessages' local message
    serving,       \* Serve's loop is still running
    todo,          \* what each goroutine still has to run
    loaded,        \* sendFrame's local maxPending, per goroutine
    registered,    \* history: the session has been added to the hub
    unregistered,  \* history: how often executor.Disconnect was called
    overflowed,    \* history: a Push found the backlog at its limit
    calls          \* history: calls started so far

queue == <<pending, pendingSize, qclosed, waiter>>
history == <<registered, unregistered, overflowed, calls>>
vars == <<queue, limit, connected, closed, conn, peer, writer, frame, serving, todo, loaded, history>>

Threads == Callers \cup {"reader", "writer"}

(* A text frame of one unit, the disconnect message, and the close frame,  *)
(* whose payload is empty.                                                 *)
Frames == {"msg", "disconnect", "close"}
FrameSize == [f \in Frames |-> IF f = "close" THEN 0 ELSE 1]

Q == INSTANCE FifoQueue WITH
        Items <- Frames, NoItem <- "none", ItemSize <- FrameSize,
        MaxSizes <- {0, MaxPending},
        items <- pending, size <- pendingSize, closed <- qclosed, reader <- waiter,
        ret <- "none", got <- "none"

-----------------------------------------------------------------------------
(* The methods of Session as the steps they run.                           *)

sendFrame(f) == << <<"load", f>>, <<"push", f>> >>

Disconnect == sendFrame("close") \o << <<"close">>, <<"disconnectFromNode">> >>

DisconnectWithMessage == sendFrame("disconnect") \o Disconnect

disconnectNow ==
    << <<"ifConnected">>, <<"disconnectFromNode">>, <<"closeConn">>,
       <<"closeQueue">>, <<"close">> >>

Authenticate == << <<"ifOpen">> >>

-----------------------------------------------------------------------------

(* NewSession has started the writer; the reader authenticates first.      *)
Init ==
    /\ Q!Init
    /\ limit = MaxPending
    /\ connected = FALSE
    /\ closed = FALSE
    /\ conn = "open"
    /\ peer = "ok"
    /\ writer = "wait"
    /\ frame = "none"
    /\ serving = TRUE
    /\ todo = [t \in Threads |-> IF t = "reader" THEN Authenticate ELSE << >>]
    /\ loaded = [t \in Threads |-> 0]
    /\ registered = FALSE
    /\ unregistered = 0
    /\ overflowed = FALSE
    /\ calls = 0

(* Goroutine t is about to run step s. *)
At(t, s) == todo[t] # << >> /\ Head(todo[t])[1] = s

(* Goroutine t moves on; or leaves the method it is in, with all that is   *)
(* left of it.                                                             *)
Done(t) == todo' = [todo EXCEPT ![t] = Tail(@)]
Return(t) == todo' = [todo EXCEPT ![t] = << >>]

-----------------------------------------------------------------------------
(* The calls others make.                                                  *)

Begin(c, program) ==
    /\ todo[c] = << >>
    /\ calls < MaxCalls
    /\ calls' = calls + 1
    /\ todo' = [todo EXCEPT ![c] = program]
    /\ UNCHANGED <<queue, limit, connected, closed, conn, peer, writer, frame, serving, loaded,
                   registered, unregistered, overflowed>>

(* Send, from the gate's performBroadcast or with a reply.                 *)
Send(c) == registered /\ Begin(c, sendFrame("msg"))

(* A remote disconnect, a shutdown, or handleNoPong on a connected session.*)
CallDisconnectWithMessage(c) ==
    /\ registered
    /\ Begin(c, DisconnectWithMessage)

(* The handshake timer: maybeDisconnectIdle.                               *)
IdleTimeout(c) ==
    /\ ~closed
    /\ ~connected
    /\ Begin(c, DisconnectWithMessage)

(* The ping timer: sendPing writes to the connection itself, past the      *)
(* queue, and disconnects when that fails.                                 *)
PingFails(c) ==
    /\ ~closed
    /\ conn = "closed" \/ peer # "ok"
    /\ Begin(c, Disconnect)

-----------------------------------------------------------------------------
(* The steps of the methods.                                               *)

Load(t) ==
    /\ At(t, "load")
    /\ loaded' = [loaded EXCEPT ![t] = limit]
    /\ Done(t)
    /\ UNCHANGED <<queue, limit, connected, closed, conn, peer, writer, frame, serving, history>>

(* writeQueue.Push, and what sendFrame does with each of its results.  The *)
(* limit is lifted in the same step: a goroutine that loads the old limit  *)
(* between the two could as well have loaded it before the Push.           *)
PushFrame(t) ==
    /\ At(t, "push")
    /\ Q!Pushed(Head(todo[t])[2], loaded[t])
    /\ loaded' = [loaded EXCEPT ![t] = 0]
    /\ IF Q!PushResult(loaded[t]) = "PushOverflow"
       THEN /\ limit' = 0
            /\ todo' = [todo EXCEPT ![t] = DisconnectWithMessage \o Tail(@)]
            /\ overflowed' = TRUE
       ELSE /\ Done(t)
            /\ UNCHANGED <<limit, overflowed>>
    /\ UNCHANGED <<connected, closed, conn, peer, writer, frame, serving,
                   registered, unregistered, calls>>

CloseSession(t) ==
    /\ At(t, "close")
    /\ closed' = TRUE
    /\ Done(t)
    /\ UNCHANGED <<queue, limit, connected, conn, peer, writer, frame, serving, loaded, history>>

(* Faulty variant: Connected is left as it is.                             *)
DisconnectFromNodeAgain(t) ==
    /\ At(t, "disconnectFromNode")
    /\ connected' = connected
    /\ todo' = [todo EXCEPT ![t] =
            IF connected THEN << <<"unregister">> >> \o Tail(@) ELSE Tail(@)]
    /\ UNCHANGED <<queue, limit, closed, conn, peer, writer, frame, serving, loaded, history>>

(* Under s.mu; the executor is called after the unlock, by the defer.      *)
DisconnectFromNode(t) ==
    /\ At(t, "disconnectFromNode")
    /\ connected' = FALSE
    /\ todo' = [todo EXCEPT ![t] =
            IF connected THEN << <<"unregister">> >> \o Tail(@) ELSE Tail(@)]
    /\ UNCHANGED <<queue, limit, closed, conn, peer, writer, frame, serving, loaded, history>>

(* executor.Disconnect: the node drops the session from the hub.           *)
Unregister(t) ==
    /\ At(t, "unregister")
    /\ unregistered' = unregistered + 1
    /\ Done(t)
    /\ UNCHANGED <<queue, limit, connected, closed, conn, peer, writer, frame, serving, loaded,
                   registered, overflowed, calls>>

IfConnected(t) ==
    /\ At(t, "ifConnected")
    /\ IF connected THEN Done(t) ELSE Return(t)
    /\ UNCHANGED <<queue, limit, connected, closed, conn, peer, writer, frame, serving, loaded, history>>

(* writeFrame of a close frame: conn.Close.                                *)
CloseConn(t) ==
    /\ At(t, "closeConn")
    /\ conn' = "closed"
    /\ Done(t)
    /\ UNCHANGED <<queue, limit, connected, closed, peer, writer, frame, serving, loaded, history>>

(* Faulty variant: the queue is emptied and not closed.                    *)
CloseQueueLeftOpen(t) ==
    /\ At(t, "closeQueue")
    /\ Q!Emptied /\ UNCHANGED <<qclosed, waiter>>
    /\ Done(t)
    /\ UNCHANGED <<limit, connected, closed, conn, peer, writer, frame, serving, loaded, history>>

CloseQueue(t) ==
    /\ At(t, "closeQueue")
    /\ Q!Closed
    /\ Done(t)
    /\ UNCHANGED <<limit, connected, closed, conn, peer, writer, frame, serving, loaded, history>>

(* Authenticate, once the RPC has replied: a session closed meanwhile is   *)
(* left alone, one that was refused is disconnected, and the others are    *)
(* Authenticated.  The check and the assignment are not under one lock.    *)
IfOpen(t) ==
    /\ At(t, "ifOpen")
    /\ \/ closed /\ Return(t)
       \/ /\ ~closed
          /\ \E verdict \in {Disconnect, << <<"connect">>, <<"addSession">> >>} :
                todo' = [todo EXCEPT ![t] = verdict]
    /\ UNCHANGED <<queue, limit, connected, closed, conn, peer, writer, frame, serving, loaded, history>>

(* Authenticated; AddSession registers the session after it is Connected.  *)
Connect(t) ==
    /\ At(t, "connect")
    /\ connected' = TRUE
    /\ Done(t)
    /\ UNCHANGED <<queue, limit, closed, conn, peer, writer, frame, serving, loaded, history>>

AddSession(t) ==
    /\ At(t, "addSession")
    /\ registered' = TRUE
    /\ Done(t)
    /\ UNCHANGED <<queue, limit, connected, closed, conn, peer, writer, frame, serving, loaded,
                   unregistered, overflowed, calls>>

Step(t) ==
    \/ Load(t) \/ PushFrame(t)
    \/ CloseSession(t) \/ DisconnectFromNode(t) \/ Unregister(t)
    \/ IfConnected(t) \/ CloseConn(t) \/ CloseQueue(t)
    \/ IfOpen(t) \/ Connect(t) \/ AddSession(t)

-----------------------------------------------------------------------------
(* SendMessages. *)

WriterWait ==
    /\ writer = "wait"
    /\ Q!Waiting
    /\ writer' = CASE Q!WaitResult = "true" -> "remove"
                   [] Q!WaitResult = "false" -> "done"
                   [] OTHER -> "wait"
    /\ UNCHANGED <<limit, connected, closed, conn, peer, frame, serving, todo, loaded, history>>

WriterWake ==
    /\ writer = "wait"
    /\ Q!Woken
    /\ writer' = "remove"
    /\ UNCHANGED <<limit, connected, closed, conn, peer, frame, serving, todo, loaded, history>>

(* Remove: by now another goroutine may have emptied the queue.            *)
WriterRemove ==
    /\ writer = "remove"
    /\ \/ /\ pending = << >>
          /\ writer' = "done"
          /\ UNCHANGED <<queue, frame>>
       \/ /\ Q!Removed
          /\ frame' = Head(pending)
          /\ writer' = "write"
    /\ UNCHANGED <<limit, connected, closed, conn, peer, serving, todo, loaded, history>>

(* writeFrame of what Remove returned; a close frame ends the connection,  *)
(* and it or a failed write ends the writer through disconnectNow.         *)
WriterWrite ==
    /\ writer = "write"
    /\ frame' = "none"
    /\ LET ok == frame # "close" /\ conn = "open" /\ peer = "ok" IN
       /\ conn' = IF frame = "close" THEN "closed" ELSE conn
       /\ writer' = IF ok THEN "wait" ELSE "done"
       /\ todo' = [todo EXCEPT !["writer"] = IF ok THEN @ ELSE disconnectNow]
    /\ UNCHANGED <<queue, limit, connected, closed, peer, serving, loaded, history>>

-----------------------------------------------------------------------------
(* Serve. *)

(* conn.Read fails: the connection was closed here or by the client.       *)
ReadFails ==
    /\ serving
    /\ todo["reader"] = << >>
    /\ conn = "closed" \/ peer = "gone"
    /\ serving' = FALSE
    /\ todo' = [todo EXCEPT !["reader"] = disconnectNow]
    /\ UNCHANGED <<queue, limit, connected, closed, conn, peer, writer, frame, loaded, history>>

(* A command failed: handleCommandReply ends the session.                  *)
CommandFails ==
    /\ serving
    /\ todo["reader"] = << >>
    /\ ~closed /\ conn = "open" /\ peer # "gone"
    /\ calls < MaxCalls
    /\ calls' = calls + 1
    /\ todo' = [todo EXCEPT !["reader"] = Disconnect]
    /\ UNCHANGED <<queue, limit, connected, closed, conn, peer, writer, frame, serving, loaded,
                   registered, unregistered, overflowed>>

(* A message arrived and has been handled, and the loop sees IsClosed.     *)
ReaderQuits ==
    /\ serving
    /\ todo["reader"] = << >>
    /\ closed /\ conn = "open" /\ peer # "gone"
    /\ serving' = FALSE
    /\ UNCHANGED <<queue, limit, connected, closed, conn, peer, writer, frame, todo, loaded, history>>

(* The client: it may go away, or stop reading for good.                   *)
PeerLeaves ==
    /\ peer # "gone"
    /\ peer' = "gone"
    /\ UNCHANGED <<queue, limit, connected, closed, conn, writer, frame, serving, todo, loaded, history>>

PeerStalls ==
    /\ PeerMayStall
    /\ peer = "ok"
    /\ peer' = "stalled"
    /\ UNCHANGED <<queue, limit, connected, closed, conn, writer, frame, serving, todo, loaded, history>>

Next ==
    \/ \E c \in Callers :
          \/ Send(c) \/ CallDisconnectWithMessage(c)
          \/ IdleTimeout(c) \/ PingFails(c)
    \/ \E t \in Threads : Step(t)
    \/ WriterWait \/ WriterWake \/ WriterRemove \/ WriterWrite
    \/ ReadFails \/ CommandFails \/ ReaderQuits
    \/ PeerLeaves \/ PeerStalls

(* Goroutines keep running, a blocked write returns by its deadline and a  *)
(* read on a dead connection returns; nothing else is assumed.             *)
Fairness ==
    /\ \A t \in Threads : WF_vars(Step(t))
    /\ WF_vars(WriterWait) /\ WF_vars(WriterWake)
    /\ WF_vars(WriterRemove) /\ WF_vars(WriterWrite)
    /\ WF_vars(ReadFails)

Spec == Init /\ [][Next]_vars /\ Fairness

-----------------------------------------------------------------------------

StepNames == {"load", "push", "close", "disconnectFromNode", "unregister",
              "ifConnected", "closeConn", "closeQueue", "ifOpen", "connect", "addSession"}

(* The types of the variables.                                             *)
TypeOK ==
    /\ pending \in Seq(Frames) /\ pendingSize \in Nat
    /\ qclosed \in BOOLEAN
    /\ waiter \in {"out", "parked", "woken"}
    /\ frame \in Frames \cup {"none"}
    /\ limit \in {0, MaxPending}
    /\ connected \in BOOLEAN /\ closed \in BOOLEAN
    /\ conn \in {"open", "closed"}
    /\ peer \in {"ok", "stalled", "gone"}
    /\ writer \in {"wait", "remove", "write", "done"}
    /\ serving \in BOOLEAN
    /\ \A t \in Threads : \A k \in DOMAIN todo[t] : todo[t][k][1] \in StepNames
    /\ loaded \in [Threads -> {0, MaxPending}]
    /\ registered \in BOOLEAN /\ overflowed \in BOOLEAN
    /\ unregistered \in Nat /\ calls \in 0 .. MaxCalls

(* The goroutine that will call executor.Disconnect, if any.               *)
Unregistering == {t \in Threads : \E k \in DOMAIN todo[t] : todo[t][k][1] = "unregister"}

(* disconnectFromNode hands the session to Node.Disconnect at most once,   *)
(* however many goroutines end it at the same time (a remote disconnect, a *)
(* timer, a failed write and a failed read); and a session that was added  *)
(* to the hub and is not Connected any more has been handed over, or is    *)
(* about to be: no path clears Connected and forgets the hub.              *)
HandedOverOnce ==
    /\ unregistered <= 1
    /\ registered /\ ~connected => unregistered = 1 \/ Unregistering # {}

(* SendMessages does not outlive the session: the writer of a closed       *)
(* session returns, so its goroutine is not leaked.                        *)
WriterStops == closed ~> writer = "done"

(* A client whose backlog overflowed is disconnected: "so the caller can   *)
(* disconnect the slow client".                                            *)
SlowClientIsHungUp == overflowed ~> conn = "closed"
=============================================================================
