----------------------------- MODULE NatsHistory -----------------------------
(***************************************************************************)
(* The history of the NATS broker on one node (broker/nats.go).  JetStream *)
(* keeps the last HistoryLimit messages of every stream; a consumer copies *)
(* them to the local in-memory broker, which answers HistoryFrom.  The     *)
(* consumers are kept in an lru map that forgets them after HistoryTTL,    *)
(* and a window per stream (streamSync) holds the requests for history     *)
(* back while messages are being copied.                                   *)
(*                                                                         *)
(* A message is its sequence number in its stream.  JetStream is external. *)
(* Time: the window closes by its timer (streamHistorySyncPeriod after the *)
(* last message) only when the consumers of the stream have nothing more   *)
(* to deliver, that is JetStream delivers and acknowledges faster than the *)
(* period; the window may be older than streamHistorySyncTimeout whenever  *)
(* it is open.                                                             *)
(***************************************************************************)
EXTENDS Naturals, Sequences, SequencesExt, FiniteSets, FiniteSetsExt

CONSTANTS Streams,       \* the streams
          HistoryLimit,  \* messages kept of a stream
          MaxMessages,   \* bound: [Streams -> Nat], messages published
          MaxSubscribes, \* bound: calls of Subscribe
          None

(* None stands for no entry.                                               *)
HistoryAssumption ==
  /\ HistoryLimit \in Nat \ {0}
  /\ MaxMessages \in [Streams -> Nat] /\ MaxSubscribes \in Nat
  /\ None \notin [next : Nat, stale : BOOLEAN]
  /\ None \notin [stream : Streams, next : Nat, left : Nat]

VARIABLES last,       \* JetStream: the last sequence number of each stream
          subscribed, \* the tracker has the stream
          subscribes, \* bound
          cons,       \* lru entry: None, or the consumer's next message and
                      \* whether the entry is older than HistoryTTL
          leaked,     \* consumers whose entry was overwritten
          adding,     \* None, or the consumer that is being created
          local,      \* the offsets the local broker has
          window,     \* streamSync of the stream
          broken,     \* ghost: the consumer was deleted before it caught up
          fetch       \* None, or the request for history in progress

consVars == <<subscribed, subscribes, cons, leaked, adding>>
copyVars == <<local, window, broken>>
vars == <<last, consVars, copyVars, fetch>>

First(s) == IF last[s] > HistoryLimit THEN last[s] - HistoryLimit + 1 ELSE 1
Later(a, b) == IF a > b THEN a ELSE b

(* The message a consumer at position p gets: what is gone is skipped.     *)
Position(s, p) == Later(p, First(s))
Pending(s, p) == Position(s, p) <= last[s]
CaughtUp(s) ==
  /\ cons[s] # None => ~Pending(s, cons[s].next)
  /\ \A p \in leaked[s] : ~Pending(s, p)
  /\ adding # None => adding.stream # s

Init ==
  /\ last = [s \in Streams |-> 0]
  /\ subscribed = [s \in Streams |-> FALSE]
  /\ subscribes = 0
  /\ cons = [s \in Streams |-> None]
  /\ leaked = [s \in Streams |-> {}]
  /\ adding = None
  /\ local = [s \in Streams |-> <<>>]
  /\ window = [s \in Streams |-> "idle"]
  /\ broken = [s \in Streams |-> FALSE]
  /\ fetch = None

-----------------------------------------------------------------------------
(* streamSync.restart, called by touch: opens the window or prolongs it;   *)
(* a window that is open for too long is closed instead.                   *)
restart(w) ==
  CASE w \in {"idle", "exhausted"} -> "active"
    [] w = "active" -> "active"
    [] w = "overdue" -> "exhausted"

touch(s) == window' = [window EXCEPT ![s] = restart(@)]

(* A request that has passed the window, or passes it now that it is       *)
(* exhausted, reads what is being changed.                                 *)
RacedBy(s) ==
  IF fetch # None /\ fetch.stream = s /\ (fetch.pc = "read" \/ window[s] = "overdue")
  THEN fetch' = [fetch EXCEPT !.raced = TRUE]
  ELSE UNCHANGED fetch

(* streamSync.idle by the timer of the window.                             *)
idle(s) ==
  /\ window[s] \in {"active", "overdue"}
  /\ CaughtUp(s)
  /\ window' = [window EXCEPT ![s] = "idle"]
  /\ broken' = [broken EXCEPT ![s] = @ /\ cons[s] = None]
  /\ UNCHANGED <<last, consVars, local, fetch>>

(* streamHistorySyncTimeout passes.                                        *)
WindowOverdue(s) ==
  /\ window[s] = "active"
  /\ window' = [window EXCEPT ![s] = "overdue"]
  /\ UNCHANGED <<last, consVars, local, broken, fetch>>

-----------------------------------------------------------------------------
(* memstream.insert: an offset that is taken is refused, the oldest        *)
(* message makes room for the new one.                                     *)
insert(data, offset) ==
  IF data # <<>> /\ Last(data) >= offset THEN data
  ELSE LET more == Append(data, offset)
       IN  IF Len(more) > HistoryLimit THEN Tail(more) ELSE more

(* Faulty variant of consumeMessage: the stream is not touched.            *)
consumeNoTouch(s, offset) ==
  /\ RacedBy(s)
  /\ local' = [local EXCEPT ![s] = insert(@, offset)]
  /\ UNCHANGED <<window, broken>>

(* consumeMessage: touches the stream and stores the message.              *)
consumeMessage(s, offset) ==
  /\ touch(s)
  /\ RacedBy(s)
  /\ local' = [local EXCEPT ![s] = insert(@, offset)]
  /\ UNCHANGED broken

(* add, on this node: touches the stream and publishes.                    *)
add(s) ==
  /\ last[s] < MaxMessages[s]
  /\ touch(s)
  /\ RacedBy(s)
  /\ last' = [last EXCEPT ![s] = @ + 1]
  /\ UNCHANGED <<consVars, local, broken>>

(* Another node publishes to the stream.                                   *)
AddElsewhere(s) ==
  /\ last[s] < MaxMessages[s]
  /\ last' = [last EXCEPT ![s] = @ + 1]
  /\ UNCHANGED <<consVars, copyVars, fetch>>

(* The callback of Consume gets the next message, from the consumer of the *)
(* lru entry or from one whose entry was overwritten.                      *)
Deliver(s) ==
  /\ \/ /\ cons[s] # None
        /\ Pending(s, cons[s].next)
        /\ consumeMessage(s, Position(s, cons[s].next))
        /\ cons' = [cons EXCEPT ![s].next = Position(s, @) + 1]
        /\ UNCHANGED leaked
     \/ \E p \in leaked[s] :
          /\ Pending(s, p)
          /\ consumeMessage(s, Position(s, p))
          /\ leaked' = [leaked EXCEPT ![s] = (@ \ {p}) \cup {Position(s, p) + 1}]
          /\ UNCHANGED cons
  /\ UNCHANGED <<last, subscribed, subscribes, adding>>

-----------------------------------------------------------------------------
(* lru.read: an entry is used until HistoryTTL after its creation; the     *)
(* touch of it is lost with the copy it is made on.                        *)
read(s) == cons[s] # None /\ ~cons[s].stale

(* HistoryTTL passes since the entry was written.                          *)
EntryExpires(s) ==
  /\ read(s)
  /\ cons' = [cons EXCEPT ![s].stale = TRUE]
  /\ UNCHANGED <<last, subscribed, subscribes, leaked, adding, copyVars, fetch>>

(* Subscribe, for the first subscriber of the node: addStreamConsumer      *)
(* fetches the entry; without one it creates a consumer, under the mutex   *)
(* of the map, that starts from the first message.                         *)
Subscribe(s) ==
  /\ ~subscribed[s]
  /\ subscribes < MaxSubscribes
  /\ adding = None
  /\ subscribed' = [subscribed EXCEPT ![s] = TRUE]
  /\ subscribes' = subscribes + 1
  /\ IF read(s) THEN UNCHANGED <<adding, window, fetch>>
     ELSE /\ adding' = [stream |-> s, next |-> 1, left |-> HistoryLimit]
          /\ touch(s)
          /\ RacedBy(s)
  /\ UNCHANGED <<last, cons, leaked, local, broken>>

(* JetStream refuses the stream or the consumer: logged, and the client    *)
(* stays subscribed.                                                       *)
SubscribeFails(s) ==
  /\ ~subscribed[s]
  /\ subscribes < MaxSubscribes
  /\ adding = None
  /\ ~read(s)
  /\ subscribed' = [subscribed EXCEPT ![s] = TRUE]
  /\ subscribes' = subscribes + 1
  /\ UNCHANGED <<last, cons, leaked, adding, copyVars, fetch>>

(* addStreamConsumer: a message of the initial batch.                      *)
FetchBatch ==
  /\ adding # None
  /\ adding.left > 0
  /\ Pending(adding.stream, adding.next)
  /\ LET s == adding.stream
         p == Position(s, adding.next)
     IN  /\ consumeMessage(s, p)
         /\ adding' = [adding EXCEPT !.next = p + 1, !.left = @ - 1]
  /\ UNCHANGED <<last, subscribed, subscribes, cons, leaked>>

(* lru.write and lru.expire: the entry of the stream is overwritten, its   *)
(* old consumer keeps on; the other entries that are too old are deleted   *)
(* with their consumers (streamsSynchronizer.remove, DeleteConsumer).      *)
expire(s) == {t \in Streams \ {s} : cons[t] # None /\ cons[t].stale}

ConsumerAdded ==
  /\ adding # None
  /\ adding.left = 0 \/ ~Pending(adding.stream, adding.next)
  /\ LET s == adding.stream
         gone == expire(s)
     IN  /\ cons' = [t \in Streams |->
                       IF t = s THEN [next |-> adding.next, stale |-> FALSE]
                       ELSE IF t \in gone THEN None ELSE cons[t]]
         /\ leaked' = [leaked EXCEPT ![s] =
                         IF cons[s] = None THEN @ ELSE @ \cup {cons[s].next}]
         /\ window' = [t \in Streams |-> IF t \in gone THEN "idle" ELSE window[t]]
         /\ broken' = [t \in Streams |->
                         broken[t] \/ (t \in gone /\ Pending(t, cons[t].next))]
         /\ adding' = None
         /\ fetch' = IF fetch # None /\ fetch.stream \in gone
                     THEN [fetch EXCEPT !.raced = TRUE] ELSE fetch
  /\ UNCHANGED <<last, subscribed, subscribes, local>>

(* Unsubscribe, for the last subscriber: the consumer stays.               *)
Unsubscribe(s) ==
  /\ subscribed[s]
  /\ subscribed' = [subscribed EXCEPT ![s] = FALSE]
  /\ UNCHANGED <<last, subscribes, cons, leaked, adding, copyVars, fetch>>

-----------------------------------------------------------------------------
(* filterByOffset: the messages after the offset, found by their place.    *)
filterByOffset(data, offset) ==
  LET low == Head(data)
      start == offset - low + 1
  IN  IF data = <<>> THEN None
      ELSE IF low > offset THEN None
      ELSE IF start > Len(data) THEN None
      ELSE SubSeq(data, start + 1, Len(data))

(* HistoryFrom, called by a client that has every message up to offset.    *)
HistoryFrom(s, offset) ==
  /\ fetch = None
  /\ subscribed[s]
  /\ fetch' = [stream |-> s, offset |-> offset, pc |-> "sync", raced |-> broken[s]]
  /\ UNCHANGED <<last, consVars, copyVars>>

(* streamSync.sync: waits for the window to close.                         *)
sync ==
  /\ fetch # None
  /\ fetch.pc = "sync"
  /\ window[fetch.stream] \in {"idle", "exhausted"}
  /\ fetch' = [fetch EXCEPT !.pc = "read",
                            !.raced = @ \/ window[fetch.stream] = "exhausted"]
  /\ UNCHANGED <<last, consVars, copyVars>>

(* local.HistoryFrom: what the request is answered, None for an error.     *)
Answer == filterByOffset(local[fetch.stream], fetch.offset)

Reading == fetch # None /\ fetch.pc = "read"

ReadLocal ==
  /\ Reading
  /\ fetch' = None
  /\ UNCHANGED <<last, consVars, copyVars>>

Next ==
  \/ \E s \in Streams :
       \/ idle(s) \/ WindowOverdue(s) \/ add(s) \/ AddElsewhere(s) \/ Deliver(s)
       \/ EntryExpires(s) \/ Subscribe(s) \/ SubscribeFails(s) \/ Unsubscribe(s)
       \/ \E offset \in 1..last[s] : HistoryFrom(s, offset)
  \/ FetchBatch \/ ConsumerAdded \/ sync \/ ReadLocal

Spec == Init /\ [][Next]_vars

-----------------------------------------------------------------------------
(* The types of the variables.                                             *)
TypeOK ==
  /\ \A s \in Streams :
       /\ last[s] \in 0..MaxMessages[s]
       /\ leaked[s] \subseteq 1..(last[s] + 1)
       /\ cons[s] # None => cons[s].next \in 1..(last[s] + 1)
       /\ local[s] \in BoundedSeq(1..MaxMessages[s], HistoryLimit)
  /\ window \in [Streams -> {"idle", "active", "overdue", "exhausted"}]

(* A client that asks for what follows its offset never gets an answer     *)
(* with a hole: the window holds the answer back while the consumer skips  *)
(* over what JetStream has already dropped.  (Unless messages came in      *)
(* between the wait and the read, the window was open for too long, or the *)
(* stream lost its consumer.)                                              *)
AnswersContiguous ==
  Reading /\ ~fetch.raced /\ Answer # None =>
    Answer = [i \in 1..Len(Answer) |-> fetch.offset + i]
==============================================================================
