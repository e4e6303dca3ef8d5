-------------------------- MODULE ServerSentEvents --------------------------
(***************************************************************************)
(* A request for server-sent events (sse/): the handler authenticates and  *)
(* subscribes a session before it answers, so what the node sends meanwhile*)
(* waits in the connection until the status is written (Established).  The *)
(* writer goroutine of the session and the handler then share the          *)
(* response; the node may end the session, the client may go away, and the *)
(* server may shut down, at any time.                                      *)
(***************************************************************************)
EXTENDS Naturals, Sequences

CONSTANTS MaxCommands,  \* bound: commands of a POST request
          MaxEvents,    \* bound: messages the node sends to the session
          CloseFrame    \* in the queue of the session

EventsAssumption == MaxCommands \in Nat /\ CloseFrame \notin Nat

VARIABLES raw,         \* the client asked for data only
          pc,          \* where the handler is
          commands,    \* subscribe commands left
          connected,   \* the session is registered with the node
          enqueued,    \* messages the node has sent to the session
          queue,       \* frames the writer of the session has still to write
          established, \* sse.Connection
          done,        \* sse.Connection
          backlog,     \* sse.Connection
          sent,        \* events written to the response
          status,      \* status of the response, 0 before it is written
          aborted,     \* the client went away
          shutdown,    \* the server shuts down
          misused      \* the response was written after the handler returned

sseVars == <<raw, pc, commands, connected, enqueued, queue, established,
          done, backlog, sent, status, aborted, shutdown, misused>>

connVars == <<established, done, backlog, sent, misused>>

(* subscribeCommandsFromRequest: GET is for one channel, the body of POST  *)
(* may have any number of commands.                                        *)
subscribeCommandsFromRequest(get) == IF get THEN {1} ELSE 0..MaxCommands

Init ==
  /\ raw \in BOOLEAN
  /\ pc = "request"
  /\ \E get \in BOOLEAN : commands \in subscribeCommandsFromRequest(get)
  /\ connected = FALSE
  /\ enqueued = 0
  /\ queue = <<>>
  /\ established = FALSE
  /\ done = FALSE
  /\ backlog = <<>>
  /\ sent = <<>>
  /\ status = 0
  /\ aborted = FALSE
  /\ shutdown = FALSE
  /\ misused = FALSE

-----------------------------------------------------------------------------
(* Encoder.Encode: a message with a type (a reply to a command, a ping, a  *)
(* disconnect) is an event of its own, or nothing for a raw client.        *)
Encode(type) == IF type = "" \/ ~raw THEN <<enqueued + 1>> ELSE <<>>

(* Session.Send.                                                           *)
Send(type) == enqueued' = enqueued + Len(Encode(type))

(* Session.Disconnect: the close frame, and out of the node.  (A queue     *)
(* whose writer has met a close frame takes no more frames.)               *)
Disconnected == connected' = FALSE /\ queue' = Append(queue, CloseFrame)

(* How the handler may end a request before there is a session: preflight, *)
(* method, flusher, NewRequestInfo, a channel or body that is none, an     *)
(* error of NewSSESession or its refusal.                                  *)
Refusals == {200, 405, 501, 400, 401}

(* A request, up to its session.                                           *)
NewSSESession ==
  /\ pc = "request"
  /\ \/ pc' = "subscribe" /\ connected' = TRUE /\ UNCHANGED status
     \/ \E code \in Refusals :
          pc' = "returned" /\ status' = code /\ UNCHANGED connected
  /\ UNCHANGED <<commands, enqueued, queue, connVars, aborted, shutdown>>

(* Node.Subscribe for each command; a failure or a rejection ends the      *)
(* request, and the deferred Disconnect the session.                       *)
Subscribe ==
  /\ pc = "subscribe"
  /\ commands > 0
  /\ \/ commands' = commands - 1 /\ UNCHANGED <<pc, status, connected, queue>>
     \/ /\ pc' = "returned"
        /\ status' = 400
        /\ Disconnected
        /\ UNCHANGED commands
  /\ UNCHANGED <<enqueued, connVars, aborted, shutdown>>

(* The response starts.                                                    *)
WriteHeader ==
  /\ pc = "subscribe"
  /\ commands = 0
  /\ pc' = "headers"
  /\ status' = 200
  /\ UNCHANGED <<commands, connected, enqueued, queue, connVars, aborted, shutdown>>

(* Faulty variant of Established: what was kept is forgotten.              *)
EstablishedOnly ==
  /\ pc = "headers"
  /\ pc' = "loop"
  /\ established' = TRUE
  /\ backlog' = <<>>
  /\ UNCHANGED <<commands, connected, enqueued, queue, done, sent, status, aborted, shutdown,
                 misused>>

(* Connection.Established: what was kept is written, in one go.            *)
Established ==
  /\ pc = "headers"
  /\ pc' = "loop"
  /\ established' = TRUE
  /\ sent' = sent \o backlog
  /\ backlog' = <<>>
  /\ UNCHANGED <<commands, connected, enqueued, queue, done, status, aborted, shutdown, misused>>

(* DisconnectNow: out of the node and the connection closed, unless the    *)
(* session has left the node already.                                      *)
DisconnectNow ==
  IF connected
  THEN connected' = FALSE /\ done' = TRUE /\ queue' = <<>>
  ELSE UNCHANGED <<connected, done, queue>>

(* The select of the handler.  Shutdown sends the disconnect message and   *)
(* ends the session, once; the handler goes on until it is written.        *)
Loop ==
  /\ pc = "loop"
  /\ \/ /\ shutdown
        /\ connected
        /\ Send("disconnect")
        /\ queue' = queue \o Encode("disconnect") \o <<CloseFrame>>
        /\ connected' = FALSE
        /\ UNCHANGED <<pc, done>>
     \/ aborted /\ DisconnectNow /\ pc' = "returned" /\ UNCHANGED enqueued
     \/ done /\ pc' = "returned" /\ UNCHANGED <<connected, enqueued, queue, done>>
  /\ UNCHANGED <<commands, established, backlog, sent, status, aborted, shutdown, misused>>

-----------------------------------------------------------------------------
(* The node sends a message to the session: a reply to a command or a      *)
(* broadcast.                                                              *)
NodeSends ==
  /\ connected
  /\ enqueued < MaxEvents
  /\ \E type \in {"", "confirm_subscription"} :
       Send(type) /\ queue' = queue \o Encode(type)
  /\ UNCHANGED <<pc, commands, connected, connVars, status, aborted, shutdown>>

(* The node ends the session: a remote disconnect, no pong, a slow client. *)
NodeDisconnects ==
  /\ connected
  /\ Disconnected
  /\ UNCHANGED <<pc, commands, enqueued, connVars, status, aborted, shutdown>>

(* Faulty variant of Emit: nothing waits for the status.                   *)
EmitAtOnce(event) ==
  /\ sent' = Append(sent, event)
  /\ misused' = (misused \/ pc = "returned")
  /\ UNCHANGED backlog

(* Connection.Write of a message when the connection is not done.          *)
Emit(event) ==
  IF established
  THEN /\ sent' = Append(sent, event)
       /\ misused' = (misused \/ pc = "returned")
       /\ UNCHANGED backlog
  ELSE /\ backlog' = Append(backlog, event)
       /\ UNCHANGED <<sent, misused>>

(* The writer goroutine of the session takes a frame: Connection.Write or  *)
(* Connection.Close.                                                       *)
Write ==
  /\ queue # <<>>
  /\ IF Head(queue) = CloseFrame
     THEN done' = TRUE /\ queue' = <<>> /\ UNCHANGED <<backlog, sent, misused>>
     ELSE /\ queue' = Tail(queue)
          /\ IF done THEN UNCHANGED <<backlog, sent, misused>> ELSE Emit(Head(queue))
          /\ UNCHANGED done
  /\ UNCHANGED <<pc, commands, connected, enqueued, established, status, aborted, shutdown>>

Abort ==
  /\ pc # "returned"
  /\ ~aborted
  /\ aborted' = TRUE
  /\ UNCHANGED <<pc, commands, connected, enqueued, queue, connVars, status, shutdown>>

ShutdownStarts ==
  /\ ~shutdown
  /\ shutdown' = TRUE
  /\ UNCHANGED <<pc, commands, connected, enqueued, queue, connVars, status, aborted>>

Next ==
  /\ UNCHANGED raw
  /\ \/ NewSSESession \/ Subscribe \/ WriteHeader \/ Established \/ Loop
     \/ NodeSends \/ NodeDisconnects \/ Write \/ Abort \/ ShutdownStarts

Spec == Init /\ [][Next]_sseVars

-----------------------------------------------------------------------------
(* The client gets the events in the order the node sent them and without  *)
(* a hole, across the hand-over from the backlog to the live response and  *)
(* up to where the connection was closed; and none before the status.      *)
EventsInOrder ==
  /\ sent = [i \in 1..Len(sent) |-> i]
  /\ sent # <<>> => status = 200

(* The response is not written after its handler returned, but for a       *)
(* client that went away while the node was ending its session: then       *)
(* DisconnectNow finds nothing to close.                                   *)
ResponseDropped == misused => aborted /\ ~connected
=============================================================================
