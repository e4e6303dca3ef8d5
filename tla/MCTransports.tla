---------------------------- MODULE MCTransports ----------------------------
(***************************************************************************)
(* What carries messages other than WebSockets and Redis: durable streams, *)
(* server-sent events, publications with the pub/sub behind them, and the  *)
(* NATS broker (the start of the nodes and their epoch, the history of a   *)
(* node, the cache of a session).  They share no state and are explored    *)
(* one at a time, as part says.                                            *)
(***************************************************************************)
EXTENDS DurableStreams, TLC

CONSTANTS MaxCommands, MaxEvents,                                \* ServerSentEvents
          Nodes, Goroutines, Publications, MaxErrors, MaxUses,   \* Ingest
          Streams, MaxInStream, MaxSubscribes,                   \* NatsHistory
          TTL, MaxAttempts, MaxStarts, MaxExpirations, MaxBroadcasts,   \* NatsStart
          MaxState, KeyTTL, MaxTime                              \* NatsSessions

VARIABLES
    part,
    raw, pc, commands, connected, enqueued, queue, established, done, backlog, sent, status,
    aborted, stopping, reused,
    source, pubsub, fallible, publication, wire, delivered, tracker, mapped, active, op,
    doubled, errors, uses,
    stored, subscribed, subscribes, cons, leaked, adding, local, window, broken, fetch,
    phase, attempts, starts, bucket, expirations, fetched, epoch, watch, accepted,
    published, kept, locked,
    now, state, committed, key, touching, dirty, overwritten, lastPut

events == <<raw, pc, commands, connected, enqueued, queue, established, done, backlog, sent,
            status, aborted, stopping, reused>>
ingest == <<source, pubsub, fallible, publication, wire, delivered, tracker, mapped, active, op,
            doubled, errors, uses>>
history == <<stored, subscribed, subscribes, cons, leaked, adding, local, window, broken, fetch>>
start == <<phase, attempts, starts, bucket, expirations, fetched, epoch, watch, accepted,
           published, kept, locked>>
session == <<now, state, committed, key, touching, dirty, overwritten, lastPut>>

E == INSTANCE ServerSentEvents WITH shutdown <- stopping, misused <- reused
I == INSTANCE Ingest
H == INSTANCE NatsHistory WITH last <- stored, MaxMessages <- MaxInStream
S == INSTANCE NatsStart WITH backlog <- kept
C == INSTANCE NatsSessions WITH raced <- overwritten

ASSUME MCEventsAssumption == E!EventsAssumption
ASSUME MCHistoryAssumption == H!HistoryAssumption
ASSUME MCStartAssumption == S!StartAssumption
ASSUME MCSessionsAssumption == C!SessionsAssumption

(* Each part starts from its own initial states, the others rest in one.   *)
MCInit ==
    /\ part \in {"ds", "sse", "ingest", "history", "start", "session"}
    /\ Init /\ E!Init /\ I!Init /\ H!Init /\ S!Init /\ C!Init
    /\ part # "sse" => ~raw /\ commands = 1
    /\ part # "ingest" =>
           /\ source = "http" /\ pubsub = "legacy" /\ ~fallible
           /\ \A p \in Publications : publication[p].kind = "message"

MCNext ==
    /\ UNCHANGED part
    /\ \/ part = "ds" /\ Next /\ UNCHANGED <<events, ingest, history, start, session>>
       \/ part = "sse" /\ E!Next /\ UNCHANGED <<vars, ingest, history, start, session>>
       \/ part = "ingest" /\ I!Next /\ UNCHANGED <<vars, events, history, start, session>>
       \/ part = "history" /\ H!Next /\ UNCHANGED <<vars, events, ingest, start, session>>
       \/ part = "start" /\ S!Next /\ UNCHANGED <<vars, events, ingest, history, session>>
       \/ part = "session" /\ C!Next /\ UNCHANGED <<vars, events, ingest, history, start>>

MCSpec == MCInit /\ [][MCNext]_<<part, vars, events, ingest, history, start, session>>

CONSTANTS a, b, n1, n2

(* The requests are for one stream; the other only makes the lru expire.   *)
MCMaxInStream == a :> 4 @@ b :> 0

(* Two nodes with different configurations.                                *)
MCTTL == n1 :> 1 @@ n2 :> 2

-----------------------------------------------------------------------------
(* ServerSentEvents!EventsInOrder: in order, no hole, after the status.    *)
EventsInOrder == E!EventsInOrder

(* ServerSentEvents!ResponseDropped: not written once it was served.       *)
ResponseDropped == E!ResponseDropped

(* Ingest!EveryNodeOnce: no message twice on a node, races aside.          *)
EveryNodeOnce == I!EveryNodeOnce

(* Ingest!AnswerIsTrue: what the publisher is told is so.                  *)
AnswerIsTrue == I!AnswerIsTrue

(* NatsHistory!AnswersContiguous: no history has a hole.                   *)
AnswersContiguous == H!AnswersContiguous

(* NatsStart!EpochsAgree: nodes that watch the epoch have the same one.    *)
EpochsAgree == S!EpochsAgree

(* NatsSessions!RestoresCommitted: what was committed is restored, unless  *)
(* a touch raced with the commit.                                          *)
RestoresCommitted == C!RestoresCommitted
=============================================================================
