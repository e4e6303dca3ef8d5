--------------------------- MODULE DurableStreams ---------------------------
(***************************************************************************)
(* Durable streams (ds/): a client reads a stream over HTTP, request after *)
(* request, each from the offset the previous response ended with, in one  *)
(* of three modes: "catch-up", "long-poll" and "sse"; "head" stands for    *)
(* a HEAD request.  A live request has a session of the node, whose writer *)
(* goroutine writes what the hub sends to the same response that the       *)
(* handler writes.                                                         *)
(*                                                                         *)
(* A message is its offset.  A position is Beginning (-1, 0 or no offset), *)
(* Now, or an offset; the epoch is that of the running broker.  The        *)
(* stream, its broker (Memory, its last HistoryLimit messages) and the hub *)
(* are as much as the handlers see of them; a broadcast reaches the hub    *)
(* some time after it is in the history.                                   *)
(***************************************************************************)
EXTENDS Naturals, Sequences, SequencesExt, FiniteSets

CONSTANTS HistoryLimit,  \* messages kept of the stream
          MaxMessages,   \* bound: messages published
          MaxRequests,   \* bound: requests of the client
          Beginning, Now, \* the reserved positions
          CloseFrame,    \* in the queue of a session
          None

ASSUME DurableStreamsAssumption ==
  /\ HistoryLimit \in Nat \ {0}
  /\ MaxMessages \in Nat /\ MaxRequests \in Nat
  /\ Beginning # Now
  /\ Nat \cap {Beginning, Now, CloseFrame} = {}
  /\ None \notin Seq(Nat)

Requests == 1..MaxRequests
Modes == {"catch-up", "long-poll", "sse", "head"}
Handling == {"peak", "history", "subscribe", "wait"}

VARIABLES last,      \* offset of the last message of the stream
          flight,    \* broadcasts on their way to the hub
          shutdown,  \* the server shuts down
          req,       \* the requests and their sessions
          cur,       \* the client's current request
          client,    \* what the client knows: its position
          got,       \* the messages it has got
          excused,   \* messages it does not expect: before Now, or gone
          raced      \* messages published between fetchHistory and Subscribe

vars == <<last, flight, shutdown, req, cur, client, got, excused, raced>>

Low == IF last > HistoryLimit THEN last - HistoryLimit + 1 ELSE 1
Kept(from) == [i \in 1..(last - from + 1) |-> from + i - 1]

NoRequest ==
  [pc |-> "new", mode |-> "catch-up", from |-> Beginning, tail |-> 0, seen |-> 0,
   done |-> FALSE, gone |-> FALSE, subscribed |-> FALSE, queue |-> <<>>, status |-> 0,
   aborted |-> FALSE]

Init ==
  /\ last = 0
  /\ flight = <<>>
  /\ shutdown = FALSE
  /\ req = [r \in Requests |-> NoRequest]
  /\ cur = 0
  /\ client = Beginning
  /\ got = {}
  /\ excused = {}
  /\ raced = {}

-----------------------------------------------------------------------------
(* The stream: a broadcast enters the history, then reaches the hub, which *)
(* sends it to the sessions that are subscribed by then.                   *)
Publish ==
  /\ last < MaxMessages
  /\ last' = last + 1
  /\ flight' = Append(flight, last + 1)
  /\ UNCHANGED <<shutdown, req, cur, client, got, excused, raced>>

HubDelivers ==
  /\ flight # <<>>
  /\ flight' = Tail(flight)
  /\ req' = [r \in Requests |->
               IF req[r].subscribed
               THEN [req[r] EXCEPT !.queue = Append(@, Head(flight))] ELSE req[r]]
  /\ UNCHANGED <<last, shutdown, cur, client, got, excused, raced>>

ShutdownStarts ==
  /\ ~shutdown
  /\ shutdown' = TRUE
  /\ UNCHANGED <<last, flight, req, cur, client, got, excused, raced>>

-----------------------------------------------------------------------------
(* EncodeOffset: an empty stream has the offset "0", which starts over.    *)
EncodeOffset(offset) == IF offset = 0 THEN Beginning ELSE offset

(* DecodeOffset: what the client sends back.                               *)
DecodeOffset(position) == IF position \in {Beginning, Now} THEN 0 ELSE position

(* A response, or an event of one, brings messages and a position.         *)
Receive(r, messages, position) ==
  IF r = cur /\ ~req[r].aborted
  THEN /\ got' = got \cup ToSet(messages)
       /\ client' = position
  ELSE UNCHANGED <<got, client>>

(* PollConnection.Close, for the first of the writes to a response: the    *)
(* status, unless the response is done.                                    *)
Close(rec, status) ==
  IF rec.done THEN rec ELSE [rec EXCEPT !.done = TRUE, !.gone = TRUE, !.status = status]

(* The deferred Session.Disconnect when the handler returns: the close     *)
(* frame goes to the writer, the session leaves the hub.  What nobody      *)
(* needs any more is forgotten.                                            *)
Ended(rec) ==
  [NoRequest EXCEPT !.pc = "returned", !.status = rec.status, !.aborted = rec.aborted]

Return(rec) ==
  IF rec.queue = <<>> THEN Ended(rec)
  ELSE [Ended(rec) EXCEPT !.mode = rec.mode, !.done = rec.done, !.gone = rec.gone,
                          !.queue = Append(rec.queue, CloseFrame)]

-----------------------------------------------------------------------------
(* StreamParamsFromReq: the mode and the position of a valid request.      *)
StreamParamsFromReq(mode, from) == [NoRequest EXCEPT !.mode = mode, !.from = from]

(* NewDSSession: the stream of an authenticated client, or a refusal.      *)
NewDSSession(params) == {[params EXCEPT !.pc = "peak"], Return(Close(NoRequest, 400))}

(* DSHandler up to the stream: a preflight request, StreamParamsFromReq,   *)
(* the method, NewRequestInfo, NewDSSession and VerifiedStream may end it. *)
(* (400 stands for every status of a refusal.)                             *)
DSHandler(r, mode, from) ==
  /\ r = cur + 1
  /\ cur > 0 => req[cur].pc = "returned" \/ req[cur].aborted
  /\ cur' = r
  /\ client' = from
  /\ \E stream \in NewDSSession(StreamParamsFromReq(mode, from)) :
       req' = [req EXCEPT ![r] = stream]
  /\ UNCHANGED <<last, flight, shutdown, got, excused, raced>>

(* Where a client goes on from: its position; Now is for the first one,    *)
(* and a stream that is gone is read again from its start.                 *)
Resume ==
  CASE cur = 0 -> {Beginning, Now}
    [] cur > 0 /\ req[cur].status = 410 -> {Beginning, client}
    [] OTHER -> {client}

(* Peak: the tail of the stream, or an error of the broker.  A HEAD        *)
(* request ends here.                                                      *)
Peak(r) ==
  /\ req[r].pc = "peak"
  /\ \/ /\ req[r].mode # "head"
        /\ req' = [req EXCEPT ![r].pc = "history", ![r].tail = last]
        /\ UNCHANGED <<got, client>>
     \/ /\ req' = [req EXCEPT ![r] = Return(Close(@, 500))]
        /\ UNCHANGED <<got, client>>
     \/ /\ req[r].mode = "head"
        /\ req' = [req EXCEPT ![r] = Return(Close(@, 200))]
        /\ Receive(r, <<>>, IF client = Now THEN EncodeOffset(last) ELSE client)
  /\ excused' = IF req[r].from = Now THEN excused \cup 1..last ELSE excused
  /\ UNCHANGED <<last, flight, shutdown, cur, raced>>

(* Faulty variant: the offset is taken for the next one to read.           *)
fetchHistoryNext(from) ==
  LET offset == DecodeOffset(from)
  IN  CASE from = Beginning -> Kept(Low)
        [] from = Now -> <<>>
        [] OTHER -> IF offset < Low THEN None ELSE Kept(offset + 2)

(* fetchHistory: None is an error, "the offset is unreachable".            *)
fetchHistory(from) ==
  LET offset == DecodeOffset(from)
  IN  CASE from = Beginning -> Kept(Low)
        [] from = Now -> <<>>
        [] OTHER -> IF offset < Low THEN None ELSE Kept(offset + 1)

(* The history was read up to here.                                        *)
Seen(rec) == [rec EXCEPT !.pc = "subscribe", !.from = Beginning, !.tail = 0, !.seen = last]

(* What the client gives up by asking from here.                           *)
Unreachable(r) ==
  CASE req[r].from = Beginning -> 1..(Low - 1)
    [] req[r].from = Now /\ req[r].mode # "catch-up" -> 1..last
    [] OTHER -> {}

(* handleHTTP up to Subscribe: the history is the response of a catch-up   *)
(* request, and of a long-poll request unless it is empty.                 *)
handleHTTP(r) ==
  LET backlog == fetchHistory(req[r].from)
      tail == IF backlog = <<>> THEN req[r].tail ELSE Last(backlog)
  IN  /\ req[r].pc = "history"
      /\ req[r].mode # "sse"
      /\ \/ /\ backlog = None
            /\ req' = [req EXCEPT ![r] = Return(Close(@, 410))]
            /\ UNCHANGED <<got, client>>
         \/ /\ backlog # None
            /\ backlog # <<>> \/ req[r].mode # "long-poll"
            /\ req' = [req EXCEPT ![r] = Return(Close(@, 200))]
            /\ Receive(r, backlog, EncodeOffset(tail))
         \/ /\ backlog = <<>>
            /\ req[r].mode = "long-poll"
            /\ req' = [req EXCEPT ![r] = Seen(@)]
            /\ UNCHANGED <<got, client>>
      /\ excused' = excused \cup Unreachable(r)
      /\ UNCHANGED <<last, flight, shutdown, cur, raced>>

(* handleSSE up to Subscribe: the status, the history as an event and its  *)
(* control event, Established.                                             *)
handleSSE(r) ==
  LET backlog == fetchHistory(req[r].from)
  IN  /\ req[r].pc = "history"
      /\ req[r].mode = "sse"
      /\ \/ /\ backlog = None
            /\ req' = [req EXCEPT ![r] = Return(Close(@, 410))]
            /\ UNCHANGED <<got, client>>
         \/ /\ backlog # None
            /\ req' = [req EXCEPT ![r] = [Seen(@) EXCEPT !.status = 200]]
            /\ IF backlog = <<>> THEN UNCHANGED <<got, client>>
               ELSE Receive(r, backlog, EncodeOffset(Last(backlog)))
      /\ excused' = excused \cup Unreachable(r)
      /\ UNCHANGED <<last, flight, shutdown, cur, raced>>

(* Node.Subscribe: the session joins the stream in the hub, or fails (its  *)
(* status is a 500 for long-poll, sse has sent one already).               *)
Subscribe(r) ==
  /\ req[r].pc = "subscribe"
  /\ \/ /\ req' = [req EXCEPT ![r].pc = "wait", ![r].seen = 0, ![r].subscribed = TRUE]
        /\ raced' = raced \cup (req[r].seen + 1)..last
     \/ /\ req' = [req EXCEPT ![r] = Return(IF @.mode = "sse" THEN @ ELSE Close(@, 500))]
        /\ UNCHANGED raced
  /\ UNCHANGED <<last, flight, shutdown, cur, client, got, excused>>

-----------------------------------------------------------------------------
(* The writer goroutine of the session.  PollConnection.Write: the first   *)
(* message is the response.  sse.Connection.Write: an event per message.   *)
(* The close frame ends the writer.                                        *)
Write(r) ==
  /\ req[r].queue # <<>>
  /\ LET frame == Head(req[r].queue)
         rec == [req[r] EXCEPT !.queue = Tail(@)]
     IN  IF frame = CloseFrame
         THEN /\ req' = [req EXCEPT ![r] = Ended(rec)]
              /\ UNCHANGED <<got, client>>
         ELSE IF rec.done
         THEN /\ req' = [req EXCEPT ![r] = rec]
              /\ UNCHANGED <<got, client>>
         ELSE /\ req' = [req EXCEPT ![r] =
                           IF rec.mode = "long-poll" THEN Close(rec, 200) ELSE rec]
              /\ Receive(r, <<frame>>, EncodeOffset(frame))
  /\ UNCHANGED <<last, flight, shutdown, cur, excused, raced>>

(* The select of handleHTTP: shutdown closes the response, and the loop    *)
(* ends with the next turn; the timeout; the client that went away; the    *)
(* response that is done.                                                  *)
Wakes(r) ==
  /\ req[r].pc = "wait"
  /\ req[r].mode # "sse"
  /\ \/ shutdown /\ req' = [req EXCEPT ![r] = Close(@, 410)]
     \/ req' = [req EXCEPT ![r] = Return(Close(@, 204))]
     \/ req[r].aborted /\ req' = [req EXCEPT ![r] = Return(@)]
     \/ req[r].gone /\ req' = [req EXCEPT ![r] = Return(@)]
  /\ UNCHANGED <<last, flight, shutdown, cur, client, got, excused, raced>>

(* The select of handleSSE: shutdown and the timeout close the connection, *)
(* whose status was sent long ago.                                         *)
WakesSSE(r) ==
  /\ req[r].pc = "wait"
  /\ req[r].mode = "sse"
  /\ \/ shutdown /\ req' = [req EXCEPT ![r] = Return(Close(@, 200))]
     \/ req' = [req EXCEPT ![r] = Return(Close(@, 200))]
     \/ (req[r].aborted \/ req[r].gone) /\ req' = [req EXCEPT ![r] = Return(@)]
  /\ UNCHANGED <<last, flight, shutdown, cur, client, got, excused, raced>>

(* The client goes away.                                                   *)
Abort(r) ==
  /\ r = cur
  /\ req[r].pc \in Handling
  /\ ~req[r].aborted
  /\ req' = [req EXCEPT ![r].aborted = TRUE]
  /\ UNCHANGED <<last, flight, shutdown, cur, client, got, excused, raced>>

Next ==
  \/ Publish \/ HubDelivers \/ ShutdownStarts
  \/ \E r \in Requests :
       \/ \E mode \in Modes : \E from \in Resume : DSHandler(r, mode, from)
       \/ Peak(r) \/ handleHTTP(r) \/ handleSSE(r) \/ Subscribe(r)
       \/ Write(r) \/ Wakes(r) \/ WakesSSE(r) \/ Abort(r)

Spec == Init /\ [][Next]_vars

-----------------------------------------------------------------------------
Positions == {Beginning, Now} \cup 1..MaxMessages

(* The types of the variables.                                             *)
TypeOK ==
  /\ last \in 0..MaxMessages
  /\ client \in Positions
  /\ got \subseteq 1..last
  /\ cur \in 0..MaxRequests
  /\ \A r \in Requests :
       /\ req[r].pc \in Handling \cup {"new", "returned"}
       /\ req[r].status \in {0, 200, 204, 400, 410, 500}

(* A client that always goes on from the offset it was given has got every *)
(* message before it, whatever it mixed of modes, timeouts and broken      *)
(* requests, but for the messages that were gone, that came before its     *)
(* Now, or that were published between fetchHistory and Subscribe.         *)
SkipsOnlyRaced ==
  \A m \in 1..DecodeOffset(client) : m \in got \cup excused \cup raced
=============================================================================
