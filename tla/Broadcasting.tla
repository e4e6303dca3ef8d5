---------------------------- MODULE Broadcasting ----------------------------
(***************************************************************************)
(* hub/hub.go and hub/gate.go: how a published message reaches the         *)
(* sessions subscribed to its stream.  The goroutines are the publishers,  *)
(* the hub's Run, one broadcastLoop per gate, and the sessions, whose      *)
(* commands add and remove rows of the gates at any time (Hub.tla says     *)
(* which and when).  One step is what runs under one gate's mutex or is    *)
(* one channel operation.                                                  *)
(*                                                                         *)
(* The maps of all gates are one relation, `gate`: a gate owns the rows of *)
(* the streams that are hashed to it.                                      *)
(***************************************************************************)
EXTENDS Integers, Sequences

CONSTANTS
    Sessions, Streams, Idents,   \* sessions, streams, channel identifiers
    Gates, GateOf,               \* gates, and the one each stream is hashed to
    None,
    ChanCap,                     \* capacity of the broadcast and sender channels
    MaxMessages,                 \* bound: messages published in one behaviour
    MaxChanges                   \* bound: subscription changes in one behaviour

ASSUME BroadcastingAssumption ==
    /\ GateOf \in [Streams -> Gates]
    /\ None \notin Sessions
    /\ ChanCap \in Nat \ {0}
    /\ MaxMessages \in Nat /\ MaxChanges \in Nat

VARIABLES
    gate,        \* <<session, stream, identifier>>: the gates' streams maps
    broadcast,   \* h.broadcast
    hand,        \* the message Run is about to put into a gate's sender
    sender,      \* each gate's channel
    current,     \* performBroadcast's message
    rows,        \* the rows of its snapshot it has not sent to yet
    running,     \* Run has not been shut down
    looping,     \* gates whose broadcastLoop has not returned
    delivered,   \* history: ids of the messages sent to each row, in order
    owed,        \* history: rows subscribed since before a message was
                 \* published that have not got it yet
    published, changes

channels == <<broadcast, hand, sender>>
performing == <<current, rows, delivered>>
stop == <<running, looping>>
vars == <<gate, channels, performing, stop, owed, published, changes>>

Rows == Sessions \X Streams \X Idents

(* common.StreamMessage, with Meta.ExcludeSocket.  Ids number the messages *)
(* in the order they entered h.broadcast.                                  *)
Message(id, x, e) == [id |-> id, stream |-> x, exclude |-> e]
Messages ==
    {Message(id, x, e) : id \in 1 .. MaxMessages, x \in Streams, e \in Sessions \cup {None}}

ASSUME NoneIsNoMessage == None \notin Messages

SubscribersOf(x) == {r \in gate : r[2] = x}

Init ==
    /\ gate = {}
    /\ broadcast = << >>
    /\ hand = None
    /\ sender = [g \in Gates |-> << >>]
    /\ current = [g \in Gates |-> None]
    /\ rows = [g \in Gates |-> {}]
    /\ running = TRUE
    /\ looping = Gates
    /\ delivered = [r \in Rows |-> << >>]
    /\ owed = [m \in 1 .. MaxMessages |-> {}]
    /\ published = 0
    /\ changes = 0

-----------------------------------------------------------------------------

Subscribe(r) ==
    /\ changes < MaxChanges
    /\ r \notin gate
    /\ gate' = gate \cup {r}
    /\ changes' = changes + 1
    /\ UNCHANGED <<channels, performing, stop, owed, published>>

Unsubscribe(r) ==
    /\ changes < MaxChanges
    /\ r \in gate
    /\ gate' = gate \ {r}
    /\ owed' = [m \in DOMAIN owed |-> owed[m] \ {r}]
    /\ changes' = changes + 1
    /\ UNCHANGED <<channels, performing, stop, published>>

BroadcastMessage(x, e) ==
    /\ published < MaxMessages
    /\ Len(broadcast) < ChanCap
    /\ published' = published + 1
    /\ broadcast' = Append(broadcast, Message(published + 1, x, e))
    /\ owed' = [owed EXCEPT ![published + 1] = {r \in SubscribersOf(x) : r[1] # e}]
    /\ UNCHANGED <<gate, hand, sender, performing, stop, changes>>

(* Run's broadcastToStream and Gate.Broadcast up to the unlock: a message  *)
(* with no subscribers is dropped.                                         *)
RunBroadcast ==
    /\ running
    /\ hand = None
    /\ broadcast # << >>
    /\ broadcast' = Tail(broadcast)
    /\ hand' = IF SubscribersOf(Head(broadcast).stream) = {} THEN None ELSE Head(broadcast)
    /\ UNCHANGED <<gate, sender, performing, stop, owed, published, changes>>

(* Faulty variant: Run does not wait for room in the gate's channel.       *)
RunSendOrDrop ==
    /\ hand # None
    /\ LET g == GateOf[hand.stream] IN
       sender' = [sender EXCEPT ![g] = IF Len(@) < ChanCap THEN Append(@, hand) ELSE @]
    /\ hand' = None
    /\ UNCHANGED <<gate, broadcast, performing, stop, owed, published, changes>>

RunSend ==
    /\ hand # None
    /\ LET g == GateOf[hand.stream] IN
       /\ Len(sender[g]) < ChanCap
       /\ sender' = [sender EXCEPT ![g] = Append(@, hand)]
    /\ hand' = None
    /\ UNCHANGED <<gate, broadcast, performing, stop, owed, published, changes>>

(* Faulty variants: the message stays in the channel; the snapshot keeps   *)
(* sessions without their identifiers.                                     *)
SnapshotPeeks(g) ==
    /\ g \in looping
    /\ current[g] = None
    /\ sender[g] # << >>
    /\ current' = [current EXCEPT ![g] = Head(sender[g])]
    /\ rows' = [rows EXCEPT ![g] = SubscribersOf(Head(sender[g]).stream)]
    /\ UNCHANGED <<gate, channels, delivered, stop, owed, published, changes>>

(* broadcastLoop takes a message; performBroadcast takes its snapshot.     *)
Snapshot(g) ==
    /\ g \in looping
    /\ current[g] = None
    /\ sender[g] # << >>
    /\ current' = [current EXCEPT ![g] = Head(sender[g])]
    /\ sender' = [sender EXCEPT ![g] = Tail(@)]
    /\ rows' = [rows EXCEPT ![g] = SubscribersOf(Head(sender[g]).stream)]
    /\ UNCHANGED <<gate, broadcast, hand, delivered, stop, owed, published, changes>>

(* One turn of its loop over the snapshot of a map, in any order: the      *)
(* excluded session is skipped, the others get Session.Send, which never   *)
(* blocks.                                                                 *)
SendRow(g) ==
    /\ \E r \in rows[g] :
          /\ rows' = [rows EXCEPT ![g] = @ \ {r}]
          /\ \/ /\ r[1] = current[g].exclude
                /\ UNCHANGED <<delivered, owed>>
             \/ /\ r[1] # current[g].exclude
                /\ delivered' = [delivered EXCEPT ![r] = Append(@, current[g].id)]
                /\ owed' = [owed EXCEPT ![current[g].id] = @ \ {r}]
    /\ UNCHANGED <<gate, channels, current, stop, published, changes>>

BroadcastDone(g) ==
    /\ current[g] # None
    /\ rows[g] = {}
    /\ current' = [current EXCEPT ![g] = None]
    /\ UNCHANGED <<gate, channels, rows, delivered, stop, owed, published, changes>>

(* Shutdown stops Run, which cancels the context of the gates' loops; what *)
(* is still in the channels is not sent.                                   *)
Shutdown ==
    /\ running
    /\ hand = None
    /\ running' = FALSE
    /\ UNCHANGED <<gate, channels, performing, looping, owed, published, changes>>

(* Faulty variant: the loop ends while the hub is running.                 *)
LoopReturnsEarly(g) ==
    /\ g \in looping
    /\ current[g] = None
    /\ looping' = looping \ {g}
    /\ UNCHANGED <<gate, channels, performing, running, owed, published, changes>>

LoopReturns(g) ==
    /\ ~running
    /\ g \in looping
    /\ current[g] = None
    /\ looping' = looping \ {g}
    /\ UNCHANGED <<gate, channels, performing, running, owed, published, changes>>

GateStep(g) == Snapshot(g) \/ SendRow(g) \/ BroadcastDone(g)

Next ==
    \/ \E r \in Rows : Subscribe(r) \/ Unsubscribe(r)
    \/ \E x \in Streams, e \in Sessions \cup {None} : BroadcastMessage(x, e)
    \/ RunBroadcast \/ RunSend
    \/ \E g \in Gates : GateStep(g) \/ LoopReturns(g)
    \/ Shutdown

(* Run and the gates' loops keep running.  Nothing is assumed of the       *)
(* publishers, the sessions or the shutdown.                               *)
Fairness ==
    /\ WF_vars(RunBroadcast) /\ WF_vars(RunSend)
    /\ \A g \in Gates : WF_vars(GateStep(g))

Spec == Init /\ [][Next]_vars /\ Fairness

-----------------------------------------------------------------------------

(* The types of the variables.                                             *)
TypeOK ==
    /\ gate \subseteq Rows
    /\ broadcast \in Seq(Messages)
    /\ hand \in Messages \cup {None}
    /\ sender \in [Gates -> Seq(Messages)]
    /\ current \in [Gates -> Messages \cup {None}]
    /\ rows \in [Gates -> SUBSET Rows]
    /\ running \in BOOLEAN
    /\ looping \subseteq Gates
    /\ delivered \in [Rows -> Seq(1 .. MaxMessages)]
    /\ owed \in [1 .. MaxMessages -> SUBSET Rows]
    /\ published \in 0 .. MaxMessages
    /\ changes \in 0 .. MaxChanges

(* Every row gets the messages of its stream in the order in which they    *)
(* were published and none of them twice, because they all pass through    *)
(* one goroutine of the hub and one of the stream's gate.                  *)
DeliveryOrder ==
    \A r \in Rows : \A j, k \in DOMAIN delivered[r] :
        j < k => delivered[r][j] < delivered[r][k]

(* Message m is in a channel, or in the hands of Run or of a gate.         *)
InFlight(m) ==
    \/ \E k \in DOMAIN broadcast : broadcast[k].id = m
    \/ hand # None /\ hand.id = m
    \/ \E g \in Gates : \/ \E k \in DOMAIN sender[g] : sender[g][k].id = m
                        \/ current[g] # None /\ current[g].id = m

(* A session that was subscribed when a message was published and stays    *)
(* subscribed gets it, whatever the other sessions do: neither the gate's  *)
(* test for subscribers, nor its snapshot, nor a full channel loses it.    *)
NoLostBroadcast == \A m \in 1 .. published : InFlight(m) \/ owed[m] = {}

(* Every published message is sent to all rows it is owed to, unless the   *)
(* hub is shut down first.                                                 *)
BroadcastSettles ==
    \A m \in 1 .. MaxMessages : (published >= m) ~> (owed[m] = {} \/ ~running)
=============================================================================
