--------------------------- MODULE ReliableStream ---------------------------
(***************************************************************************)
(* The in-memory broker (broker/memory.go) and how node.go uses it to let  *)
(* a client catch up: one stream, its publishers, the expiration loop and  *)
(* one client that loses its connection and comes back with the position   *)
(* of the last message it received.                                        *)
(*                                                                         *)
(* b.streams maps the stream's name to a memstream, which publishers keep  *)
(* a reference to while they are not holding b.streamsMu; memstreams are   *)
(* therefore objects of a heap.  One step is what runs under one lock.     *)
(* The way from the broadcaster to the session is FIFO and loses nothing   *)
(* while the session is subscribed (Broadcasting.tla, SessionWriter.tla);  *)
(* what is on the wire is lost with the connection.                        *)
(***************************************************************************)
EXTENDS Integers, Sequences, FiniteSets

CONSTANTS
    Publishers,    \* goroutines that call HandleBroadcast
    Limit,         \* HistoryLimit
    TTL,           \* HistoryTTL
    KeepFactor,    \* how many TTLs an idle memstream is kept (10 in the code)
    MaxMessages,   \* bound: broadcasts in one behaviour
    MaxTime,       \* bound: the clock
    MaxEpochs      \* bound: starts of the process

ASSUME ReliableStreamAssumption ==
    /\ Limit \in Nat \ {0}
    /\ TTL \in Nat /\ KeepFactor \in Nat
    /\ MaxMessages \in Nat /\ MaxTime \in Nat /\ MaxEpochs \in Nat \ {0}

VARIABLES
    now,
    epoch,        \* b.epoch: a new one with every start
    heap,         \* the memstreams created since the start
    stream,       \* b.streams[name]: an index of heap, or 0
    pub,          \* each publisher: its step, its reference, its message
    live,         \* the client's session is subscribed in the hub
    request,      \* the step of the history request that is being handled
    found,        \* the memstream that request has looked up
    inbox,        \* what has been sent to the client and not arrived yet
    online,       \* the client is connected
    position,     \* epoch and offset of the last message the client received
    seen,         \* messages the client received
    required,     \* history: messages the client must not miss
    overtaken,    \* history: a message was sent ahead of an earlier one
    recreated,    \* history: the stream got a second memstream
    sent          \* history: broadcasts so far

server == <<epoch, heap, stream, pub>>
client == <<live, request, found, inbox, online, position, seen>>
history == <<required, overtaken, recreated>>
vars == <<now, server, client, history, sent>>

Idle == [at |-> "idle", ref |-> 0, id |-> 0, offset |-> 0]
Nowhere == [epoch |-> 0, offset |-> 0]
Message(id, e, o) == [id |-> id, epoch |-> e, offset |-> o]
Acknowledged == Message(0, 0, 0)

Init ==
    /\ now = 1
    /\ epoch = 1
    /\ heap = << >>
    /\ stream = 0
    /\ pub = [p \in Publishers |-> Idle]
    /\ live = FALSE /\ request = "none" /\ found = 0
    /\ inbox = << >>
    /\ online = FALSE
    /\ position = Nowhere
    /\ seen = {}
    /\ required = {}
    /\ overtaken = FALSE /\ recreated = FALSE
    /\ sent = 0

-----------------------------------------------------------------------------
(* memstream *)

NewMemstream == [offset |-> 0, low |-> 0, data |-> << >>, deadline |-> 0]

(* Faulty variant of filterByOffset: one message is left out.              *)
filterByOffsetSkips(ms, offset) == SubSeq(ms.data, offset - ms.low + 3, Len(ms.data))

appendEntry(ms, entry) ==
    LET all == Append(ms.data, entry)
        kept == IF Len(all) > Limit THEN Tail(all) ELSE all
    IN  [offset |-> entry.offset,
         low |-> IF Len(all) > Limit \/ ms.low = 0 THEN kept[1].offset ELSE ms.low,
         data |-> kept,
         deadline |-> now + TTL * KeepFactor]

(* expire drops the entries up to the first that is young enough.          *)
expire(ms) ==
    LET old == {k \in 1 .. Len(ms.data) : \A j \in 1 .. k : ms.data[j].timestamp < now - TTL}
        kept == SubSeq(ms.data, Cardinality(old) + 1, Len(ms.data))
    IN  [ms EXCEPT !.data = kept, !.low = IF kept = << >> THEN 0 ELSE kept[1].offset]

(* filterByOffset finds its entries by arithmetic on the lowest offset.    *)
Found(ms, offset) == ms.low # 0 /\ ms.low <= offset /\ offset - ms.low + 1 <= Len(ms.data)
filterByOffset(ms, offset) ==
    SubSeq(ms.data, offset - ms.low + 2, Len(ms.data))

-----------------------------------------------------------------------------
(* HandleBroadcast *)

(* b.add under b.streamsMu: find or create the memstream.                  *)
GetStream(p) ==
    /\ pub[p].at = "idle"
    /\ sent < MaxMessages
    /\ sent' = sent + 1
    /\ heap' = IF stream = 0 THEN Append(heap, NewMemstream) ELSE heap
    /\ stream' = IF stream = 0 THEN Len(heap) + 1 ELSE stream
    /\ recreated' = (recreated \/ (stream = 0 /\ heap # << >>))
    /\ pub' = [pub EXCEPT ![p] = [Idle EXCEPT !.at = "add", !.ref = stream', !.id = sent + 1]]
    /\ UNCHANGED <<now, epoch, client, required, overtaken>>

(* memstream.add *)
AddEntry(p) ==
    /\ pub[p].at = "add"
    /\ LET ms == heap[pub[p].ref]
           entry == [offset |-> ms.offset + 1, timestamp |-> now, id |-> pub[p].id] IN
       /\ heap' = [heap EXCEPT ![pub[p].ref] = appendEntry(ms, entry)]
       /\ pub' = [pub EXCEPT ![p].at = "broadcast", ![p].offset = entry.offset]
    /\ UNCHANGED <<now, epoch, stream, client, history, sent>>

(* Another publisher holds an earlier message of the same memstream.       *)
Overtakes(p) ==
    \E q \in Publishers : /\ pub[q].at = "broadcast"
                          /\ pub[q].ref = pub[p].ref
                          /\ pub[q].offset < pub[p].offset

Broadcast(p) ==
    /\ pub[p].at = "broadcast"
    /\ inbox' = IF live THEN Append(inbox, Message(pub[p].id, epoch, pub[p].offset)) ELSE inbox
    /\ overtaken' = (overtaken \/ Overtakes(p) \/ request # "none")
    /\ required' = IF live \/ position # Nowhere THEN required \cup {pub[p].id} ELSE required
    /\ pub' = [pub EXCEPT ![p] = Idle]
    /\ UNCHANGED <<now, epoch, heap, stream, live, request, found, online, position, seen, recreated, sent>>

(* A transient message is neither stored nor given an offset.              *)
BroadcastTransient ==
    /\ sent < MaxMessages
    /\ sent' = sent + 1
    /\ inbox' = IF live THEN Append(inbox, Message(sent + 1, 0, 0)) ELSE inbox
    /\ UNCHANGED <<now, server, live, request, found, online, position, seen, history>>

-----------------------------------------------------------------------------
(* The clock, the expiration loop, a restart.                              *)

Tick ==
    /\ now < MaxTime
    /\ now' = now + 1
    /\ UNCHANGED <<server, client, history, sent>>

(* expire, all of it under b.streamsMu.  An add between memstream.expire   *)
(* and the deadline test has the effect of one before both.                *)
Expire ==
    /\ stream # 0
    /\ heap' = [heap EXCEPT ![stream] = expire(@)]
    /\ stream' = IF heap[stream].deadline < now THEN 0 ELSE stream
    /\ UNCHANGED <<now, epoch, pub, client, history, sent>>

Restart ==
    /\ epoch < MaxEpochs
    /\ epoch' = epoch + 1
    /\ heap' = << >>
    /\ stream' = 0
    /\ pub' = [p \in Publishers |-> Idle]
    /\ live' = FALSE /\ request' = "none" /\ found' = 0
    /\ inbox' = << >>
    /\ online' = FALSE
    /\ UNCHANGED <<now, position, seen, history, sent>>

-----------------------------------------------------------------------------
(* The client.                                                             *)

(* Node.Subscribe (or TryRestoreSession): the session is subscribed in the *)
(* hub.  A client that has a position asks for what came after it.         *)
Subscribe ==
    /\ ~online
    /\ online' = TRUE
    /\ live' = TRUE
    /\ request' = IF position = Nowhere THEN "none" ELSE "get"
    /\ required' = IF position = Nowhere THEN {} ELSE required
    /\ UNCHANGED <<now, server, found, inbox, position, seen, overtaken, recreated, sent>>

(* HistoryFrom first needs the broker's epoch and the stream, which it     *)
(* looks up under b.streamsMu, and then the offset, under the memstream's  *)
(* own lock.                                                               *)
KnownEpoch == position.epoch = epoch

Backlog ==
    LET entries == filterByOffset(heap[found], position.offset)
    IN  [k \in 1 .. Len(entries) |-> Message(entries[k].id, epoch, entries[k].offset)]

(* Node.History sends a rejection: the client knows that it may have       *)
(* missed messages.                                                        *)
Reject ==
    /\ request' = "none"
    /\ inbox' = Append(inbox, Acknowledged)
    /\ required' = required \cap {inbox[k].id : k \in DOMAIN inbox}

HistoryFrom ==
    /\ request = "get"
    /\ \/ /\ KnownEpoch
          /\ stream # 0
          /\ request' = "filter"
          /\ found' = stream
          /\ UNCHANGED <<inbox, required>>
       \/ /\ ~KnownEpoch \/ stream = 0
          /\ Reject
          /\ UNCHANGED found
    /\ UNCHANGED <<now, server, live, online, position, seen, overtaken, recreated, sent>>

(* The rest of HistoryFrom and of Node.History.                            *)
History ==
    /\ request = "filter"
    /\ found' = 0
    /\ \/ /\ Found(heap[found], position.offset)
          /\ request' = "none"
          /\ inbox' = inbox \o Backlog \o <<Acknowledged>>
          /\ UNCHANGED required
       \/ /\ ~Found(heap[found], position.offset)
          /\ Reject
    /\ UNCHANGED <<now, server, live, online, position, seen, overtaken, recreated, sent>>

(* The client remembers the position of the last message that had one.     *)
Receive ==
    /\ inbox # << >>
    /\ inbox' = Tail(inbox)
    /\ LET m == Head(inbox) IN
       /\ seen' = IF m = Acknowledged THEN seen ELSE seen \cup {m.id}
       /\ position' = IF m.offset = 0 THEN position ELSE [epoch |-> m.epoch, offset |-> m.offset]
    /\ UNCHANGED <<now, server, live, request, found, online, history, sent>>

(* The connection breaks; what was on its way is lost.                     *)
Drop ==
    /\ online
    /\ online' = FALSE
    /\ live' = FALSE /\ request' = "none" /\ found' = 0
    /\ inbox' = << >>
    /\ UNCHANGED <<now, server, position, seen, history, sent>>

Next ==
    \/ \E p \in Publishers : GetStream(p) \/ AddEntry(p) \/ Broadcast(p)
    \/ BroadcastTransient
    \/ Tick \/ Expire \/ Restart
    \/ Subscribe \/ HistoryFrom \/ History \/ Receive \/ Drop

Spec == Init /\ [][Next]_vars

-----------------------------------------------------------------------------

Entries == [offset : Nat, timestamp : Nat, id : Nat]

(* The types of the variables.                                             *)
TypeOK ==
    /\ now \in Nat /\ epoch \in Nat /\ sent \in Nat
    /\ heap \in Seq([offset : Nat, low : Nat, data : Seq(Entries), deadline : Nat])
    /\ stream \in 0 .. Len(heap)
    /\ pub \in [Publishers -> [at : {"idle", "add", "broadcast"}, ref : 0 .. Len(heap),
                               id : Nat, offset : Nat]]
    /\ live \in BOOLEAN /\ online \in BOOLEAN
    /\ request \in {"none", "get", "filter"} /\ found \in 0 .. Len(heap)
    /\ inbox \in Seq([id : Nat, epoch : Nat, offset : Nat])
    /\ position \in [epoch : Nat, offset : Nat]
    /\ seen \subseteq Nat /\ required \subseteq Nat
    /\ overtaken \in BOOLEAN /\ recreated \in BOOLEAN

(* Nothing is on its way to the client or to the history.                  *)
Quiet ==
    /\ online /\ request = "none" /\ inbox = << >>
    /\ \A p \in Publishers : pub[p] = Idle

(* A client that keeps its position misses no message, except one that it  *)
(* was told of by a rejected history request: "at-least-once" delivery.    *)
AtLeastOnce == Quiet => required \subseteq seen

(* It can miss one for two reasons only: a message was sent ahead of an    *)
(* earlier one (by another publisher, or live while the backlog was being  *)
(* looked up), or the stream's memstream was replaced and offsets began    *)
(* anew in the same epoch.  Expiration, trimming, restarts and lost        *)
(* connections alone never cause a gap.                                    *)
GapsExplained == AtLeastOnce \/ overtaken \/ recreated
=============================================================================
