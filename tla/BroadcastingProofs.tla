------------------------ MODULE BroadcastingProofs ------------------------
(***************************************************************************)
(* For any sessions, streams, gates, capacities and number of messages:    *)
(* every row of a gate gets the messages of its stream in order and none   *)
(* twice, and a message that was published is not lost for those who stay  *)
(* subscribed.                                                             *)
(*                                                                         *)
(* What a row has got is the last part of a pipeline: h.broadcast, Run's   *)
(* hand, the channel of the stream's gate, the message that its loop is    *)
(* sending.  InOrder says that ids only fall along it, OwedKept that who a *)
(* message is owed to stays among the rows that the next stage will look   *)
(* at.                                                                     *)
(***************************************************************************)
EXTENDS Broadcasting, TLAPS

(* The messages in a channel, and what a place for one message holds.      *)
In(q) == {q[k] : k \in DOMAIN q}
Held(m) == {m} \ {None}

Ascending(q) == \A j, k \in DOMAIN q : j < k => q[j].id < q[k].id
Before(S, T) == \A a \in S, b \in T : a.id < b.id
Gate(r) == GateOf[r[2]]
Got(r) == {delivered[r][k] : k \in DOMAIN delivered[r]}

(* Each stage of the pipeline is behind the earlier ones.                  *)
QueuesInOrder ==
    /\ Ascending(broadcast) /\ Before(Held(hand), In(broadcast))
    /\ \A m \in In(broadcast) \cup Held(hand) : m.id <= published

GateInOrder(g) ==
    /\ Ascending(sender[g])
    /\ Before(In(sender[g]), Held(hand) \cup In(broadcast))
    /\ Before(Held(current[g]), In(sender[g]) \cup Held(hand) \cup In(broadcast))
    /\ \A m \in In(sender[g]) \cup Held(current[g]) : m.id <= published /\ GateOf[m.stream] = g
    /\ \A r \in rows[g] : current[g] # None /\ r[2] = current[g].stream

RowInOrder(r) ==
    /\ \A j, k \in DOMAIN delivered[r] : j < k => delivered[r][j] < delivered[r][k]
    /\ \A i \in Got(r) :
          /\ i <= published
          /\ \A m \in In(broadcast) \cup Held(hand) \cup In(sender[Gate(r)]) : i < m.id
          /\ \A m \in Held(current[Gate(r)]) : i <= m.id /\ (r \in rows[Gate(r)] => i < m.id)

InOrder ==
    /\ QueuesInOrder
    /\ \A g \in Gates : GateInOrder(g)
    /\ \A r \in Rows : RowInOrder(r)

(* Those whom message m is owed to are subscribed and not excluded.        *)
OwedTo(m) == \A r \in owed[m.id] : r \in gate /\ r[2] = m.stream /\ r[1] # m.exclude

OwedKept ==
    /\ \A m \in In(broadcast) \cup Held(hand) : OwedTo(m)
    /\ \A g \in Gates :
          /\ \A m \in In(sender[g]) \cup Held(current[g]) : OwedTo(m)
          /\ \A m \in Held(current[g]) : owed[m.id] \subseteq rows[g]

-----------------------------------------------------------------------------
(* Messages and channels. *)

(* The fields of a message.                                                *)
LEMMA MessageForm ==
    /\ \A m \in Messages : /\ m.id \in 1 .. MaxMessages /\ m.stream \in Streams
                           /\ m.exclude \in Sessions \cup {None} /\ m # None
                           /\ GateOf[m.stream] \in Gates
    /\ \A id \in 1 .. MaxMessages, x \in Streams, e \in Sessions \cup {None} :
          /\ Message(id, x, e) \in Messages
          /\ Message(id, x, e).id = id /\ Message(id, x, e).stream = x
          /\ Message(id, x, e).exclude = e
  BY NoneIsNoMessage, BroadcastingAssumption DEF Messages, Message

(* What a channel holds after a message was put into it.                   *)
LEMMA Put ==
    ASSUME NEW q \in Seq(Messages), NEW m \in Messages
    PROVE  /\ Append(q, m) \in Seq(Messages)
           /\ In(Append(q, m)) = In(q) \cup {m}
           /\ Ascending(q) /\ Before(In(q), {m}) => Ascending(Append(q, m))
  <1> DEFINE a == Append(q, m)
  <1>1. /\ a \in Seq(Messages) /\ DOMAIN q = 1 .. Len(q) /\ DOMAIN a = 1 .. Len(q) + 1
        /\ Len(q) \in Nat /\ a[Len(q) + 1] = m /\ \A k \in 1 .. Len(q) : a[k] = q[k]
    OBVIOUS
  <1> HIDE DEF a
  <1>2. In(a) = In(q) \cup {m}
    BY <1>1 DEF In
  <1>3. ASSUME Ascending(q), Before(In(q), {m}), NEW j \in DOMAIN a, NEW k \in DOMAIN a, j < k
        PROVE  a[j].id < a[k].id
    <2>1. j \in 1 .. Len(q)
      BY <1>1, <1>3
    <2>2. CASE k = Len(q) + 1
      BY <2>1, <2>2, <1>1, <1>3 DEF In, Before
    <2>3. CASE k # Len(q) + 1
      BY <2>1, <2>3, <1>1, <1>3 DEF Ascending
    <2> QED
      BY <2>2, <2>3
  <1> QED
    BY <1>1, <1>2, <1>3 DEF a, Ascending

(* What a channel holds after its first message was taken.                 *)
LEMMA Take ==
    ASSUME NEW q \in Seq(Messages), q # << >>
    PROVE  /\ Tail(q) \in Seq(Messages) /\ Head(q) \in Messages
           /\ In(q) = In(Tail(q)) \cup {Head(q)}
           /\ Ascending(q) => Ascending(Tail(q)) /\ Before({Head(q)}, In(Tail(q)))
  <1> DEFINE t == Tail(q)
  <1>1. /\ t \in Seq(Messages) /\ DOMAIN q = 1 .. Len(q) /\ DOMAIN t = 1 .. Len(q) - 1
        /\ Len(q) \in Nat \ {0} /\ Head(q) = q[1] /\ \A k \in 1 .. Len(q) - 1 : t[k] = q[k + 1]
        /\ Head(q) \in Messages
    OBVIOUS
  <1> HIDE DEF t
  <1>2. In(q) = In(t) \cup {Head(q)}
    <2>1. \A k \in 2 .. Len(q) : k - 1 \in 1 .. Len(q) - 1 /\ q[k] = t[k - 1]
      BY <1>1
    <2>2. \A k \in 1 .. Len(q) : k = 1 \/ k \in 2 .. Len(q)
      BY <1>1
    <2>3. ASSUME NEW m \in In(q)
          PROVE  m \in In(t) \cup {Head(q)}
      <3>1. PICK k \in 1 .. Len(q) : m = q[k]
        BY <1>1 DEF In
      <3> QED
        BY <2>1, <2>2, <3>1, <1>1 DEF In
    <2>4. In(t) \subseteq In(q)
      <3>1. ASSUME NEW k \in 1 .. Len(q) - 1
            PROVE  t[k] = q[k + 1] /\ k + 1 \in DOMAIN q
        BY <1>1
      <3> QED
        BY <1>1, <3>1 DEF In
    <2>5. Head(q) \in In(q)
      <3>1. 1 \in DOMAIN q /\ Head(q) = q[1]
        BY <1>1
      <3> QED
        BY <3>1 DEF In
    <2> QED
      BY <2>3, <2>4, <2>5
  <1>3. ASSUME Ascending(q)
        PROVE  Ascending(t)
    <2> SUFFICES ASSUME NEW j \in DOMAIN t, NEW k \in DOMAIN t, j < k
                 PROVE  t[j].id < t[k].id
      BY DEF Ascending
    <2>1. j + 1 \in DOMAIN q /\ k + 1 \in DOMAIN q /\ j + 1 < k + 1
      BY <1>1
    <2> QED
      BY <2>1, <1>1, <1>3 DEF Ascending
  <1>4. ASSUME Ascending(q)
        PROVE  Before({Head(q)}, In(t))
    <2>1. \A k \in DOMAIN t : 1 \in DOMAIN q /\ k + 1 \in DOMAIN q /\ 1 < k + 1
      BY <1>1
    <2> QED
      BY <2>1, <1>1, <1>4 DEF Ascending, Before, In
  <1> QED
    BY <1>1, <1>2, <1>3, <1>4 DEF t

(* The elements of a sequence over S are in S.                             *)
LEMMA Elements ==
    ASSUME NEW S, NEW q \in Seq(S)
    PROVE  \A k \in DOMAIN q : q[k] \in S
  OBVIOUS

(* What is in a channel is a message.                                      *)
LEMMA InMessages ==
    ASSUME NEW q \in Seq(Messages)
    PROVE  In(q) \subseteq Messages
  BY Elements DEF In

(* Nothing is in an empty channel.                                         *)
LEMMA InEmpty == In(<< >>) = {} /\ Ascending(<< >>)
  BY DEF In, Ascending

(* A row's deliveries, with one more.                                      *)
LEMMA PutId ==
    ASSUME NEW q \in Seq(1 .. MaxMessages), NEW i \in 1 .. MaxMessages,
           \A k \in DOMAIN q : q[k] < i,
           \A j, k \in DOMAIN q : j < k => q[j] < q[k]
    PROVE  LET a == Append(q, i) IN
           /\ \A j, k \in DOMAIN a : j < k => a[j] < a[k]
           /\ {a[k] : k \in DOMAIN a} = {q[k] : k \in DOMAIN q} \cup {i}
  <1> DEFINE a == Append(q, i)
  <1>1. /\ DOMAIN q = 1 .. Len(q) /\ DOMAIN a = 1 .. Len(q) + 1
        /\ Len(q) \in Nat /\ a[Len(q) + 1] = i /\ \A k \in 1 .. Len(q) : a[k] = q[k]
    OBVIOUS
  <1> HIDE DEF a
  <1>2. {a[k] : k \in DOMAIN a} = {q[k] : k \in DOMAIN q} \cup {i}
    BY <1>1
  <1>3. \A j, k \in DOMAIN a : j < k => a[j] < a[k]
    BY <1>1
  <1> QED
    BY <1>2, <1>3 DEF a

-----------------------------------------------------------------------------
(* Types. *)

(* The variables have their types at the start.                            *)
LEMMA TypeInit == Init => TypeOK
  BY BroadcastingAssumption DEF Init, TypeOK, Rows

(* Every step keeps the types.                                             *)
LEMMA TypeNext == TypeOK /\ InOrder /\ [Next]_vars => TypeOK'
  <1> SUFFICES ASSUME TypeOK, InOrder, [Next]_vars
               PROVE  TypeOK'
    OBVIOUS
  <1> USE BroadcastingAssumption DEF TypeOK, channels, performing, stop
  <1>1. ASSUME NEW r \in Rows, Subscribe(r)
        PROVE  TypeOK'
    BY <1>1 DEF Subscribe
  <1>2. ASSUME NEW r \in Rows, Unsubscribe(r)
        PROVE  TypeOK'
    BY <1>2 DEF Unsubscribe
  <1>3. ASSUME NEW x \in Streams, NEW e \in Sessions \cup {None}, BroadcastMessage(x, e)
        PROVE  TypeOK'
    <2>1. published + 1 \in 1 .. MaxMessages /\ published' = published + 1
      BY <1>3 DEF BroadcastMessage
    <2>2. Message(published + 1, x, e) \in Messages
      BY <2>1, MessageForm
    <2>3. SubscribersOf(x) \subseteq Rows
      BY DEF SubscribersOf
    <2> QED
      BY <1>3, <2>1, <2>2, <2>3 DEF BroadcastMessage
  <1>4. CASE RunBroadcast
    BY <1>4, Take DEF RunBroadcast
  <1>5. CASE RunSend
    <2>1. hand \in Messages /\ GateOf[hand.stream] \in Gates
      BY <1>5, MessageForm DEF RunSend
    <2> QED
      BY <1>5, <2>1 DEF RunSend
  <1>6. ASSUME NEW g \in Gates, Snapshot(g)
        PROVE  TypeOK'
    <2>1. SubscribersOf(Head(sender[g]).stream) \subseteq Rows
      BY DEF SubscribersOf
    <2> QED
      BY <1>6, <2>1, Take DEF Snapshot
  <1>7. ASSUME NEW g \in Gates, SendRow(g)
        PROVE  TypeOK'
    <2>1. PICK r \in rows[g] :
             /\ rows' = [rows EXCEPT ![g] = @ \ {r}]
             /\ \/ UNCHANGED <<delivered, owed>>
                \/ /\ delivered' = [delivered EXCEPT ![r] = Append(@, current[g].id)]
                   /\ owed' = [owed EXCEPT ![current[g].id] = @ \ {r}]
      BY <1>7 DEF SendRow
    <2>2. current[g] # None
      BY <2>1 DEF InOrder, GateInOrder
    <2>3. current[g] \in Messages /\ current[g].id \in 1 .. MaxMessages /\ r \in Rows
      BY <2>1, <2>2, MessageForm
    <2>4. rows' \in [Gates -> SUBSET Rows]
      BY <2>1
    <2>5. delivered' \in [Rows -> Seq(1 .. MaxMessages)]
      <3>1. Append(delivered[r], current[g].id) \in Seq(1 .. MaxMessages)
        BY <2>3
      <3> QED
        BY <2>1, <3>1
    <2>6. owed' \in [1 .. MaxMessages -> SUBSET Rows]
      BY <2>1, <2>3
    <2> QED
      BY <1>7, <2>4, <2>5, <2>6 DEF SendRow
  <1>8. ASSUME NEW g \in Gates, BroadcastDone(g)
        PROVE  TypeOK'
    BY <1>8 DEF BroadcastDone
  <1>9. ASSUME NEW g \in Gates, LoopReturns(g)
        PROVE  TypeOK'
    BY <1>9 DEF LoopReturns
  <1>10. CASE Shutdown
    BY <1>10 DEF Shutdown
  <1>11. CASE UNCHANGED vars
    BY <1>11 DEF vars
  <1> QED
    BY <1>1, <1>2, <1>3, <1>4, <1>5, <1>6, <1>7, <1>8, <1>9, <1>10, <1>11 DEF Next, GateStep

-----------------------------------------------------------------------------
(* The pipeline. *)

(* What a row has got are ids of messages.                                 *)
LEMMA GotIds ==
    ASSUME TypeOK, NEW r \in Rows
    PROVE  Got(r) \subseteq 1 .. MaxMessages /\ Got(r) \subseteq Nat
  <1>1. delivered[r] \in Seq(1 .. MaxMessages)
    BY DEF TypeOK
  <1>2. \A k \in DOMAIN delivered[r] : delivered[r][k] \in 1 .. MaxMessages
    BY <1>1, Elements
  <1>3. 1 .. MaxMessages \subseteq Nat
    BY BroadcastingAssumption
  <1> QED
    BY <1>2, <1>3 DEF Got

(* Nothing is out of order at the start.                                   *)
LEMMA OrderInit == Init => InOrder
  <1> SUFFICES ASSUME Init
               PROVE  InOrder
    OBVIOUS
  <1>1. QueuesInOrder
    BY InEmpty DEF Init, QueuesInOrder, Before, Held
  <1>2. ASSUME NEW g \in Gates
        PROVE  GateInOrder(g)
    <2>1. sender[g] = << >> /\ current[g] = None /\ rows[g] = {}
      BY DEF Init
    <2> QED
      BY <2>1, InEmpty DEF GateInOrder, Before, Held
  <1>3. ASSUME NEW r \in Rows
        PROVE  RowInOrder(r)
    BY DEF Init, RowInOrder, Got
  <1> QED
    BY <1>1, <1>2, <1>3 DEF InOrder

(* A step that leaves the pipeline alone.                                  *)
LEMMA OrderUnchanged ==
    ASSUME InOrder, UNCHANGED <<broadcast, hand, sender, current, rows, delivered, published>>
    PROVE  InOrder'
  <1>1. QueuesInOrder'
    BY DEF InOrder, QueuesInOrder
  <1>2. ASSUME NEW g \in Gates
        PROVE  GateInOrder(g)'
    BY DEF InOrder, GateInOrder
  <1>3. ASSUME NEW r \in Rows
        PROVE  RowInOrder(r)'
    BY DEF InOrder, RowInOrder, Got, Gate
  <1> QED
    BY <1>1, <1>2, <1>3 DEF InOrder

(* A message enters h.broadcast with an id of its own.                     *)
LEMMA OrderBroadcastMessage ==
    ASSUME TypeOK, InOrder,
           NEW x \in Streams, NEW e \in Sessions \cup {None}, BroadcastMessage(x, e)
    PROVE  InOrder'
  <1> DEFINE m == Message(published + 1, x, e)
  <1>1. published + 1 \in 1 .. MaxMessages /\ published' = published + 1 /\ published \in Nat
    BY BroadcastingAssumption DEF BroadcastMessage, TypeOK
  <1>2. m \in Messages /\ m.id = published + 1
    BY <1>1, MessageForm
  <1>3. broadcast' = Append(broadcast, m) /\ broadcast \in Seq(Messages)
    BY DEF BroadcastMessage, TypeOK
  <1>4. UNCHANGED <<hand, sender, current, rows, delivered>>
    BY DEF BroadcastMessage, performing
  <1> HIDE DEF m
  <1>5. /\ In(broadcast') = In(broadcast) \cup {m}
        /\ Ascending(broadcast) /\ Before(In(broadcast), {m}) => Ascending(broadcast')
    BY <1>2, <1>3, Put
  <1>6. ASSUME NEW i \in Nat, i <= published
        PROVE  i < m.id /\ i <= published'
    BY <1>1, <1>2, <1>6
  <1>7. \A a \in Messages : a.id \in Nat
    BY MessageForm
  <1>8. QueuesInOrder'
    <2>1. In(broadcast) \subseteq Messages /\ Held(hand) \subseteq Messages
      BY InMessages DEF TypeOK, Held
    <2>2. Before(In(broadcast), {m}) /\ Before(Held(hand), {m})
      BY <2>1, <1>6, <1>7 DEF Before, InOrder, QueuesInOrder
    <2>3. Ascending(broadcast')
      BY <2>2, <1>5 DEF InOrder, QueuesInOrder
    <2>4. Before(Held(hand'), In(broadcast'))
      BY <2>2, <1>4, <1>5 DEF InOrder, QueuesInOrder, Before
    <2>5. \A a \in In(broadcast') \cup Held(hand') : a.id <= published'
      BY <2>1, <1>1, <1>2, <1>4, <1>5, <1>6, <1>7 DEF InOrder, QueuesInOrder
    <2> QED
      BY <2>3, <2>4, <2>5 DEF QueuesInOrder
  <1>9. ASSUME NEW g \in Gates
        PROVE  GateInOrder(g)'
    <2>1. In(sender[g]) \subseteq Messages /\ Held(current[g]) \subseteq Messages
      BY InMessages DEF TypeOK, Held
    <2>2. Before(In(sender[g]), {m}) /\ Before(Held(current[g]), {m})
      BY <2>1, <1>6, <1>7 DEF Before, InOrder, GateInOrder
    <2>3. Before(In(sender'[g]), Held(hand') \cup In(broadcast'))
      BY <2>2, <1>4, <1>5 DEF InOrder, GateInOrder, Before
    <2>4. Before(Held(current'[g]), In(sender'[g]) \cup Held(hand') \cup In(broadcast'))
      BY <2>2, <1>4, <1>5 DEF InOrder, GateInOrder, Before
    <2>5. \A a \in In(sender'[g]) \cup Held(current'[g]) :
              a.id <= published' /\ GateOf[a.stream] = g
      BY <2>1, <1>4, <1>6, <1>7 DEF InOrder, GateInOrder
    <2> QED
      BY <2>3, <2>4, <2>5, <1>4 DEF InOrder, GateInOrder
  <1>10. ASSUME NEW r \in Rows
         PROVE  RowInOrder(r)'
    <2>1. Got(r) \subseteq Nat
      BY GotIds
    <2>2. Got(r)' = Got(r)
      BY <1>4 DEF Got
    <2>3. \A i \in Got(r) : i < m.id /\ i <= published'
      BY <2>1, <1>6 DEF InOrder, RowInOrder
    <2> QED
      BY <2>2, <2>3, <1>4, <1>5 DEF InOrder, RowInOrder, Gate
  <1> QED
    BY <1>8, <1>9, <1>10 DEF InOrder

(* Run takes the first message of h.broadcast, and may drop it.            *)
LEMMA OrderRunBroadcast ==
    ASSUME TypeOK, InOrder, RunBroadcast
    PROVE  InOrder'
  <1>1. broadcast' = Tail(broadcast) /\ broadcast \in Seq(Messages) /\ broadcast # << >>
    BY DEF RunBroadcast, TypeOK
  <1>2. UNCHANGED <<sender, current, rows, delivered, published>>
    BY DEF RunBroadcast, performing
  <1>3. /\ In(broadcast) = In(broadcast') \cup {Head(broadcast)}
        /\ Ascending(broadcast) => Ascending(broadcast') /\ Before({Head(broadcast)}, In(broadcast'))
    BY <1>1, Take
  <1>4. Held(hand') \subseteq {Head(broadcast)}
    BY DEF RunBroadcast, Held
  <1>5. In(broadcast') \subseteq In(broadcast) /\ Held(hand') \subseteq In(broadcast)
    BY <1>3, <1>4
  <1>6. QueuesInOrder'
    BY <1>2, <1>3, <1>4, <1>5 DEF InOrder, QueuesInOrder, Before
  <1>7. ASSUME NEW g \in Gates
        PROVE  GateInOrder(g)'
    BY <1>2, <1>5 DEF InOrder, GateInOrder, Before
  <1>8. ASSUME NEW r \in Rows
        PROVE  RowInOrder(r)'
    BY <1>2, <1>5 DEF InOrder, RowInOrder, Got, Gate
  <1> QED
    BY <1>6, <1>7, <1>8 DEF InOrder

(* Run puts the message in its hand into the channel of the stream's gate. *)
LEMMA OrderRunSend ==
    ASSUME TypeOK, InOrder, RunSend
    PROVE  InOrder'
  <1> DEFINE h == GateOf[hand.stream]
  <1>1. hand \in Messages /\ h \in Gates /\ hand # None
    BY MessageForm DEF RunSend, TypeOK
  <1>2. sender' = [sender EXCEPT ![h] = Append(@, hand)] /\ hand' = None
    BY DEF RunSend
  <1>3. UNCHANGED <<broadcast, current, rows, delivered, published>>
    BY DEF RunSend, performing
  <1>4. sender \in [Gates -> Seq(Messages)]
    BY DEF TypeOK
  <1>5. Held(hand) = {hand} /\ Held(hand') = {} /\ GateOf[hand.stream] = h
    BY <1>1, <1>2 DEF Held
  <1> HIDE DEF h
  <1>6. /\ In(sender'[h]) = In(sender[h]) \cup {hand}
        /\ Ascending(sender[h]) /\ Before(In(sender[h]), {hand}) => Ascending(sender'[h])
    BY <1>1, <1>2, <1>4, Put
  <1>7. \A g \in Gates : g # h => sender'[g] = sender[g]
    BY <1>2, <1>4
  <1>8. QueuesInOrder'
    BY <1>3, <1>5 DEF InOrder, QueuesInOrder, Before
  <1>9. ASSUME NEW g \in Gates
        PROVE  GateInOrder(g)'
    <2>1. CASE g # h
      BY <2>1, <1>3, <1>5, <1>7 DEF InOrder, GateInOrder, Before
    <2>2. CASE g = h
      <3>1. Ascending(sender'[g])
        BY <2>2, <1>5, <1>6 DEF InOrder, GateInOrder, Before
      <3>2. Before(In(sender'[g]), Held(hand') \cup In(broadcast'))
        BY <2>2, <1>3, <1>5, <1>6 DEF InOrder, GateInOrder, QueuesInOrder, Before
      <3>3. Before(Held(current'[g]), In(sender'[g]) \cup Held(hand') \cup In(broadcast'))
        BY <2>2, <1>3, <1>5, <1>6 DEF InOrder, GateInOrder, Before
      <3>4. \A a \in In(sender'[g]) \cup Held(current'[g]) :
                a.id <= published' /\ GateOf[a.stream] = g
        BY <2>2, <1>3, <1>5, <1>6 DEF InOrder, GateInOrder, QueuesInOrder
      <3> QED
        BY <3>1, <3>2, <3>3, <3>4, <1>3 DEF InOrder, GateInOrder
    <2> QED
      BY <2>1, <2>2
  <1>10. ASSUME NEW r \in Rows
         PROVE  RowInOrder(r)'
    <2>1. Gate(r) \in Gates
      BY BroadcastingAssumption DEF Gate, Rows
    <2>2. In(sender'[Gate(r)]) \subseteq In(sender[Gate(r)]) \cup Held(hand)
      BY <2>1, <1>5, <1>6, <1>7
    <2> QED
      BY <2>2, <1>3, <1>5 DEF InOrder, RowInOrder, Got, Gate
  <1> QED
    BY <1>8, <1>9, <1>10 DEF InOrder

(* A gate's loop takes the first message of its channel.                   *)
LEMMA OrderSnapshot ==
    ASSUME TypeOK, InOrder, NEW h \in Gates, Snapshot(h)
    PROVE  InOrder'
  <1> DEFINE m == Head(sender[h])
  <1>1. sender[h] \in Seq(Messages) /\ sender[h] # << >> /\ current[h] = None
    BY DEF Snapshot, TypeOK
  <1>2. /\ sender'[h] = Tail(sender[h]) /\ current'[h] = m /\ rows'[h] = SubscribersOf(m.stream)
        /\ \A g \in Gates : g # h => /\ sender'[g] = sender[g] /\ current'[g] = current[g]
                                     /\ rows'[g] = rows[g]
    BY DEF Snapshot, TypeOK
  <1>3. UNCHANGED <<broadcast, hand, delivered, published>>
    BY DEF Snapshot
  <1> HIDE DEF m
  <1>4. /\ In(sender[h]) = In(sender'[h]) \cup {m} /\ m \in Messages
        /\ Ascending(sender[h]) => Ascending(sender'[h]) /\ Before({m}, In(sender'[h]))
    BY <1>1, <1>2, Take DEF m
  <1>5. Held(current'[h]) = {m} /\ m # None
    BY <1>2, <1>4, MessageForm DEF Held
  <1>6. QueuesInOrder'
    BY <1>3 DEF InOrder, QueuesInOrder
  <1>7. ASSUME NEW g \in Gates
        PROVE  GateInOrder(g)'
    <2>1. CASE g # h
      <3>1. sender'[g] = sender[g] /\ current'[g] = current[g] /\ rows'[g] = rows[g]
        BY <2>1, <1>2
      <3>2. GateInOrder(g)
        BY DEF InOrder
      <3> QED
        BY <3>1, <3>2, <1>3 DEF GateInOrder
    <2>2. CASE g = h
      <3>1. Ascending(sender'[g])
        BY <2>2, <1>4 DEF InOrder, GateInOrder
      <3>2. Before(In(sender'[g]), Held(hand') \cup In(broadcast'))
        BY <2>2, <1>3, <1>4 DEF InOrder, GateInOrder, Before
      <3>3. Before(Held(current'[g]), In(sender'[g]) \cup Held(hand') \cup In(broadcast'))
        BY <2>2, <1>3, <1>4, <1>5 DEF InOrder, GateInOrder, Before
      <3>4. \A a \in In(sender'[g]) \cup Held(current'[g]) :
                a.id <= published' /\ GateOf[a.stream] = g
        BY <2>2, <1>3, <1>4, <1>5 DEF InOrder, GateInOrder
      <3>5. \A r \in rows'[g] : current'[g] # None /\ r[2] = current'[g].stream
        BY <2>2, <1>2, <1>5 DEF SubscribersOf
      <3> QED
        BY <3>1, <3>2, <3>3, <3>4, <3>5 DEF GateInOrder
    <2> QED
      BY <2>1, <2>2
  <1>8. ASSUME NEW r \in Rows
        PROVE  RowInOrder(r)'
    <2>1. Gate(r) \in Gates
      BY BroadcastingAssumption DEF Gate, Rows
    <2>2. CASE Gate(r) # h
      BY <2>1, <2>2, <1>2, <1>3 DEF InOrder, RowInOrder, Got, Gate
    <2>3. CASE Gate(r) = h
      <3>1. Got(r)' = Got(r) /\ Gate(r)' = Gate(r) /\ Got(r) \subseteq Nat /\ m.id \in Nat
        BY <1>3, <1>4, GotIds, MessageForm DEF Got, Gate
      <3>2. \A i \in Got(r) : i < m.id
        BY <2>3, <1>4 DEF InOrder, RowInOrder
      <3>3. \A i \in Got(r) : \A a \in Held(current'[Gate(r)]) : i <= a.id /\ i < a.id
        BY <2>3, <3>1, <3>2, <1>5
      <3>4. In(sender'[Gate(r)]) \subseteq In(sender[Gate(r)])
        BY <2>3, <1>4
      <3> QED
        BY <3>1, <3>3, <3>4, <1>3 DEF InOrder, RowInOrder
    <2> QED
      BY <2>2, <2>3
  <1> QED
    BY <1>6, <1>7, <1>8 DEF InOrder

(* What SendRow does, row by row.                                          *)
LEMMA SendRowStep ==
    ASSUME TypeOK, InOrder, NEW h \in Gates, SendRow(h)
    PROVE  \E r \in rows[h] :
              /\ r \in Rows /\ Gate(r) = h
              /\ current[h] # None /\ current[h] \in Messages
              /\ UNCHANGED <<gate, broadcast, hand, sender, current, published>>
              /\ rows'[h] = rows[h] \ {r} /\ \A g \in Gates : g # h => rows'[g] = rows[g]
              /\ \/ r[1] = current[h].exclude /\ UNCHANGED <<delivered, owed>>
                 \/ /\ r[1] # current[h].exclude
                    /\ delivered'[r] = Append(delivered[r], current[h].id)
                    /\ \A q \in Rows : q # r => delivered'[q] = delivered[q]
                    /\ owed'[current[h].id] = owed[current[h].id] \ {r}
                    /\ \A i \in 1 .. MaxMessages : i # current[h].id => owed'[i] = owed[i]
  <1>1. PICK r \in rows[h] :
             /\ rows' = [rows EXCEPT ![h] = @ \ {r}]
             /\ \/ r[1] = current[h].exclude /\ UNCHANGED <<delivered, owed>>
                \/ /\ r[1] # current[h].exclude
                   /\ delivered' = [delivered EXCEPT ![r] = Append(@, current[h].id)]
                   /\ owed' = [owed EXCEPT ![current[h].id] = @ \ {r}]
    BY DEF SendRow
  <1>2. current[h] # None /\ r[2] = current[h].stream
    BY <1>1 DEF InOrder, GateInOrder
  <1>3. current[h] \in Messages /\ r \in Rows /\ current[h].id \in 1 .. MaxMessages
    BY <1>1, <1>2, MessageForm DEF TypeOK
  <1>4. Gate(r) = h
    <2>1. current[h] \in Held(current[h])
      BY <1>2 DEF Held
    <2>2. GateInOrder(h)
      BY DEF InOrder
    <2>3. GateOf[current[h].stream] = h
      BY <2>1, <2>2 DEF GateInOrder
    <2> QED
      BY <2>3, <1>2 DEF Gate
  <1>5. UNCHANGED <<gate, broadcast, hand, sender, current, published>>
    BY DEF SendRow, channels
  <1>6. rows'[h] = rows[h] \ {r} /\ \A g \in Gates : g # h => rows'[g] = rows[g]
    BY <1>1 DEF TypeOK
  <1>7. \/ r[1] = current[h].exclude /\ UNCHANGED <<delivered, owed>>
        \/ /\ r[1] # current[h].exclude
           /\ delivered'[r] = Append(delivered[r], current[h].id)
           /\ \A q \in Rows : q # r => delivered'[q] = delivered[q]
           /\ owed'[current[h].id] = owed[current[h].id] \ {r}
           /\ \A i \in 1 .. MaxMessages : i # current[h].id => owed'[i] = owed[i]
    BY <1>1, <1>3 DEF TypeOK
  <1> QED
    BY <1>1, <1>2, <1>3, <1>4, <1>5, <1>6, <1>7

(* A message that is sent to a row is later than all sent to it before.    *)
LEMMA OrderSendRow ==
    ASSUME TypeOK, InOrder, NEW h \in Gates, SendRow(h)
    PROVE  InOrder'
  <1>1. PICK r \in rows[h] :
              /\ r \in Rows /\ Gate(r) = h
              /\ current[h] # None /\ current[h] \in Messages
              /\ UNCHANGED <<gate, broadcast, hand, sender, current, published>>
              /\ rows'[h] = rows[h] \ {r} /\ \A g \in Gates : g # h => rows'[g] = rows[g]
              /\ \/ r[1] = current[h].exclude /\ UNCHANGED <<delivered, owed>>
                 \/ /\ r[1] # current[h].exclude
                    /\ delivered'[r] = Append(delivered[r], current[h].id)
                    /\ \A q \in Rows : q # r => delivered'[q] = delivered[q]
                    /\ owed'[current[h].id] = owed[current[h].id] \ {r}
                    /\ \A i \in 1 .. MaxMessages : i # current[h].id => owed'[i] = owed[i]
    BY SendRowStep
  <1>2. \A g \in Gates : rows'[g] \subseteq rows[g]
    BY <1>1
  <1>3. QueuesInOrder'
    BY <1>1 DEF InOrder, QueuesInOrder
  <1>4. ASSUME NEW g \in Gates
        PROVE  GateInOrder(g)'
    <2>1. GateInOrder(g)
      BY DEF InOrder
    <2> QED
      BY <2>1, <1>1, <1>2 DEF GateInOrder
  <1>5. ASSUME NEW q \in Rows, delivered'[q] = delivered[q]
        PROVE  RowInOrder(q)'
    <2>1. Gate(q) \in Gates /\ Gate(q)' = Gate(q) /\ Got(q)' = Got(q)
      BY <1>5, BroadcastingAssumption DEF Gate, Rows, Got
    <2> QED
      BY <2>1, <1>1, <1>2, <1>5 DEF InOrder, RowInOrder
  <1>6. ASSUME delivered'[r] = Append(delivered[r], current[h].id)
        PROVE  RowInOrder(r)'
    <2> DEFINE i == current[h].id
    <2>1. /\ i \in 1 .. MaxMessages /\ delivered[r] \in Seq(1 .. MaxMessages)
          /\ Held(current[h]) = {current[h]}
      BY <1>1, MessageForm DEF TypeOK, Held
    <2>2. \A j \in Got(r) : j < i
      BY <2>1, <1>1 DEF InOrder, RowInOrder
    <2>3. /\ \A k \in DOMAIN delivered[r] : delivered[r][k] < i
          /\ \A j, k \in DOMAIN delivered[r] : j < k => delivered[r][j] < delivered[r][k]
      BY <2>2, <1>1 DEF InOrder, RowInOrder, Got
    <2> HIDE DEF i
    <2>4. /\ \A j, k \in DOMAIN delivered'[r] : j < k => delivered'[r][j] < delivered'[r][k]
          /\ Got(r)' = Got(r) \cup {i}
      BY <2>1, <2>3, <1>6, PutId DEF i, Got
    <2>5. /\ i <= published
          /\ \A m \in In(broadcast) \cup Held(hand) \cup In(sender[h]) : i < m.id
      BY <2>1, <1>1 DEF i, InOrder, GateInOrder, Before
    <2>6. i <= i /\ r \notin rows'[h] /\ Gate(r)' = h
      BY <2>1, <1>1 DEF Gate
    <2>7. \A j \in Got(r) :
             /\ j <= published /\ j <= i
             /\ \A m \in In(broadcast) \cup Held(hand) \cup In(sender[h]) : j < m.id
      BY <2>1, <1>1 DEF i, InOrder, RowInOrder
    <2> QED
      BY <2>1, <2>4, <2>5, <2>6, <2>7, <1>1 DEF i, RowInOrder
  <1>7. ASSUME NEW q \in Rows
        PROVE  RowInOrder(q)'
    BY <1>1, <1>5, <1>6
  <1> QED
    BY <1>3, <1>4, <1>7 DEF InOrder

(* The loop is done with a message.                                        *)
LEMMA OrderBroadcastDone ==
    ASSUME TypeOK, InOrder, NEW h \in Gates, BroadcastDone(h)
    PROVE  InOrder'
  <1>1. UNCHANGED <<broadcast, hand, sender, rows, delivered, published>>
    BY DEF BroadcastDone, channels
  <1>2. \A g \in Gates : Held(current'[g]) \subseteq Held(current[g])
    BY DEF BroadcastDone, Held, TypeOK
  <1>3. \A g \in Gates : rows[g] # {} => current'[g] = current[g]
    BY DEF BroadcastDone, TypeOK
  <1>4. QueuesInOrder'
    BY <1>1 DEF InOrder, QueuesInOrder
  <1>5. ASSUME NEW g \in Gates
        PROVE  GateInOrder(g)'
    BY <1>1, <1>2, <1>3 DEF InOrder, GateInOrder, Before
  <1>6. ASSUME NEW r \in Rows
        PROVE  RowInOrder(r)'
    <2>1. Gate(r) \in Gates /\ Gate(r)' = Gate(r) /\ Got(r)' = Got(r)
      BY <1>1, BroadcastingAssumption DEF Gate, Rows, Got
    <2> QED
      BY <2>1, <1>1, <1>2 DEF InOrder, RowInOrder
  <1> QED
    BY <1>4, <1>5, <1>6 DEF InOrder

(* Every step keeps the order.                                             *)
LEMMA OrderNext == TypeOK /\ InOrder /\ [Next]_vars => InOrder'
  <1> SUFFICES ASSUME TypeOK, InOrder, [Next]_vars
               PROVE  InOrder'
    OBVIOUS
  <1> DEFINE pipeline == <<broadcast, hand, sender, current, rows, delivered, published>>
  <1>1. ASSUME NEW r \in Rows, Subscribe(r) \/ Unsubscribe(r)
        PROVE  UNCHANGED pipeline
    BY <1>1 DEF Subscribe, Unsubscribe, channels, performing
  <1>2. ASSUME NEW g \in Gates, LoopReturns(g)
        PROVE  UNCHANGED pipeline
    BY <1>2 DEF LoopReturns, channels, performing
  <1>3. Shutdown \/ UNCHANGED vars => UNCHANGED pipeline
    BY DEF Shutdown, channels, performing, vars
  <1>4. UNCHANGED pipeline => InOrder'
    BY OrderUnchanged
  <1> QED
    BY <1>1, <1>2, <1>3, <1>4, OrderBroadcastMessage, OrderRunBroadcast, OrderRunSend,
       OrderSnapshot, OrderSendRow, OrderBroadcastDone DEF Next, GateStep

-----------------------------------------------------------------------------
(* Who a message is owed to. *)

(* Nothing is owed at the start.                                           *)
LEMMA OwedInit == Init => OwedKept /\ NoLostBroadcast
  <1> SUFFICES ASSUME Init
               PROVE  OwedKept /\ NoLostBroadcast
    OBVIOUS
  <1>1. /\ In(broadcast) = {} /\ Held(hand) = {}
        /\ \A g \in Gates : In(sender[g]) = {} /\ Held(current[g]) = {}
    BY InEmpty DEF Init, Held
  <1>2. 1 .. published = {}
    BY DEF Init
  <1> QED
    BY <1>1, <1>2 DEF OwedKept, NoLostBroadcast

(* Where a message is in flight.                                           *)
InFlightIn(m) ==
    \/ \E a \in In(broadcast) \cup Held(hand) : a.id = m
    \/ \E g \in Gates : \E a \in In(sender[g]) \cup Held(current[g]) : a.id = m

(* The places where a message that is in flight can be.                    *)
LEMMA InFlightPlaces ==
    ASSUME NEW m
    PROVE  (InFlight(m) <=> InFlightIn(m)) /\ (InFlight(m)' <=> InFlightIn(m)')
  BY DEF InFlight, InFlightIn, In, Held

(* Steps that move no message and owe no more of it.                       *)
LEMMA OwedStill ==
    ASSUME TypeOK, OwedKept, NoLostBroadcast,
           UNCHANGED <<broadcast, hand, sender, current, rows, published>>,
           \A i \in 1 .. MaxMessages : owed'[i] \subseteq owed[i],
           \A i \in 1 .. MaxMessages : \A r \in owed'[i] : r \in gate => r \in gate'
    PROVE  OwedKept' /\ NoLostBroadcast'
  <1>1. ASSUME NEW m \in Messages, OwedTo(m)
        PROVE  OwedTo(m)'
    BY <1>1, MessageForm DEF OwedTo
  <1>2. /\ In(broadcast) \subseteq Messages /\ Held(hand) \subseteq Messages
        /\ \A g \in Gates : In(sender[g]) \subseteq Messages /\ Held(current[g]) \subseteq Messages
    BY InMessages DEF TypeOK, Held
  <1>3. \A m \in In(broadcast') \cup Held(hand') : OwedTo(m)'
    BY <1>1, <1>2 DEF OwedKept
  <1>4. ASSUME NEW g \in Gates
        PROVE  /\ \A m \in In(sender'[g]) \cup Held(current'[g]) : OwedTo(m)'
               /\ \A m \in Held(current'[g]) : owed'[m.id] \subseteq rows'[g]
    BY <1>1, <1>2, MessageForm DEF OwedKept
  <1>5. \A m \in 1 .. published : InFlightIn(m)' = InFlightIn(m) /\ m \in 1 .. MaxMessages
    BY BroadcastingAssumption DEF InFlightIn, TypeOK
  <1>6. NoLostBroadcast'
    <2> SUFFICES ASSUME NEW m \in 1 .. published
                 PROVE  InFlight(m)' \/ owed'[m] = {}
      BY DEF NoLostBroadcast
    <2>1. InFlight(m) \/ owed[m] = {}
      BY DEF NoLostBroadcast
    <2> QED
      BY <2>1, <1>5, InFlightPlaces
  <1> QED
    BY <1>3, <1>4, <1>6 DEF OwedKept

(* The messages in flight move on: each is where it was or at the next     *)
(* stage, unless it is owed to nobody.                                     *)
LEMMA OwedMoved ==
    ASSUME NoLostBroadcast, UNCHANGED <<owed, published>>,
           \A i \in 1 .. published : InFlightIn(i) => InFlightIn(i)' \/ owed[i] = {}
    PROVE  NoLostBroadcast'
  <1> SUFFICES ASSUME NEW i \in 1 .. published
               PROVE  InFlight(i)' \/ owed'[i] = {}
    BY DEF NoLostBroadcast
  <1>1. InFlight(i) \/ owed[i] = {}
    BY DEF NoLostBroadcast
  <1> QED
    BY <1>1, InFlightPlaces

(* A broadcast is owed to the rows of its stream.                          *)
LEMMA OwedBroadcastMessage ==
    ASSUME TypeOK, InOrder, OwedKept, NoLostBroadcast,
           NEW x \in Streams, NEW e \in Sessions \cup {None}, BroadcastMessage(x, e)
    PROVE  OwedKept' /\ NoLostBroadcast'
  <1> PICK m : m = Message(published + 1, x, e)
    OBVIOUS
  <1>1. published + 1 \in 1 .. MaxMessages /\ published' = published + 1 /\ published \in Nat
    BY BroadcastingAssumption DEF BroadcastMessage, TypeOK
  <1>2. m \in Messages /\ m.id = published + 1 /\ m.stream = x /\ m.exclude = e
    BY <1>1, MessageForm
  <1>3. broadcast' = Append(broadcast, m) /\ broadcast \in Seq(Messages)
    BY DEF BroadcastMessage, TypeOK
  <1>4. UNCHANGED <<gate, hand, sender, current, rows>>
    BY DEF BroadcastMessage, performing
  <1>5. /\ owed'[published + 1] = {r \in SubscribersOf(x) : r[1] # e}
        /\ \A i \in 1 .. MaxMessages : i # published + 1 => owed'[i] = owed[i]
    BY <1>1 DEF BroadcastMessage, TypeOK
  <1>6. In(broadcast') = In(broadcast) \cup {m}
    BY <1>2, <1>3, Put
  <1>7. /\ In(broadcast) \subseteq Messages /\ Held(hand) \subseteq Messages
        /\ \A g \in Gates : In(sender[g]) \subseteq Messages /\ Held(current[g]) \subseteq Messages
    BY InMessages DEF TypeOK, Held
  <1>8. ASSUME NEW a \in Messages, a.id <= published
        PROVE  owed'[a.id] = owed[a.id] /\ OwedTo(a)' = OwedTo(a)
    <2>1. a.id \in 1 .. MaxMessages /\ a.id # published + 1
      BY <1>1, <1>8, MessageForm
    <2>2. owed'[a.id] = owed[a.id]
      BY <2>1, <1>5
    <2> QED
      BY <2>2, <1>4 DEF OwedTo
  <1>9. OwedTo(m)'
    BY <1>2, <1>4, <1>5 DEF OwedTo, SubscribersOf
  <1>10. \A a \in In(broadcast') \cup Held(hand') : OwedTo(a)'
    <2>1. \A a \in In(broadcast) \cup Held(hand) : a \in Messages /\ a.id <= published
      BY <1>7 DEF InOrder, QueuesInOrder
    <2> QED
      BY <2>1, <1>4, <1>6, <1>8, <1>9 DEF OwedKept
  <1>11. ASSUME NEW g \in Gates
         PROVE  /\ \A a \in In(sender'[g]) \cup Held(current'[g]) : OwedTo(a)'
                /\ \A a \in Held(current'[g]) : owed'[a.id] \subseteq rows'[g]
    <2>1. \A a \in In(sender[g]) \cup Held(current[g]) : a \in Messages /\ a.id <= published
      BY <1>7 DEF InOrder, GateInOrder
    <2> QED
      BY <2>1, <1>4, <1>8 DEF OwedKept
  <1>12. ASSUME NEW i \in 1 .. published'
         PROVE  InFlight(i)' \/ owed'[i] = {}
    <2>1. CASE i = published + 1
      BY <2>1, <1>2, <1>6, InFlightPlaces DEF InFlightIn
    <2>2. CASE i # published + 1
      <3>1. i \in 1 .. published /\ i \in 1 .. MaxMessages
        BY <2>2, <1>1, BroadcastingAssumption
      <3>2. InFlight(i) \/ owed[i] = {}
        BY <3>1 DEF NoLostBroadcast
      <3>3. InFlightIn(i) => InFlightIn(i)'
        BY <1>4, <1>6 DEF InFlightIn
      <3> QED
        BY <2>2, <3>1, <3>2, <3>3, <1>5, InFlightPlaces
    <2> QED
      BY <2>1, <2>2
  <1>13. NoLostBroadcast'
    BY <1>12 DEF NoLostBroadcast
  <1> QED
    BY <1>10, <1>11, <1>13 DEF OwedKept

(* Run takes a message, or drops it when nobody is subscribed.             *)
LEMMA OwedRunBroadcast ==
    ASSUME TypeOK, OwedKept, NoLostBroadcast, RunBroadcast
    PROVE  OwedKept' /\ NoLostBroadcast'
  <1> DEFINE m == Head(broadcast)
  <1>1. broadcast' = Tail(broadcast) /\ broadcast \in Seq(Messages) /\ broadcast # << >>
    BY DEF RunBroadcast, TypeOK
  <1>2. UNCHANGED <<gate, sender, current, rows, owed, published>>
    BY DEF RunBroadcast, performing
  <1>3. In(broadcast) = In(broadcast') \cup {m} /\ m \in Messages
    BY <1>1, Take
  <1>4. \/ SubscribersOf(m.stream) = {} /\ Held(hand') = {}
        \/ Held(hand') = {m}
    BY <1>3, MessageForm DEF RunBroadcast, Held
  <1>5. Held(hand) = {}
    BY DEF RunBroadcast, Held
  <1> HIDE DEF m
  <1>6. \A a : OwedTo(a)' = OwedTo(a)
    BY <1>2 DEF OwedTo
  <1>7. OwedKept'
    BY <1>2, <1>3, <1>4, <1>6 DEF OwedKept
  <1>8. SubscribersOf(m.stream) = {} => owed[m.id] = {}
    BY <1>3 DEF OwedKept, OwedTo, SubscribersOf
  <1>9. \A i \in 1 .. published : InFlightIn(i) => InFlightIn(i)' \/ owed[i] = {}
    BY <1>2, <1>3, <1>4, <1>5, <1>8 DEF InFlightIn
  <1>10. NoLostBroadcast'
    BY <1>2, <1>9, OwedMoved
  <1> QED
    BY <1>7, <1>10

(* Run hands the message to the gate of its stream.                        *)
LEMMA OwedRunSend ==
    ASSUME TypeOK, OwedKept, NoLostBroadcast, RunSend
    PROVE  OwedKept' /\ NoLostBroadcast'
  <1> DEFINE h == GateOf[hand.stream]
  <1>1. hand \in Messages /\ h \in Gates /\ hand # None
    BY MessageForm DEF RunSend, TypeOK
  <1>2. sender' = [sender EXCEPT ![h] = Append(@, hand)] /\ hand' = None
    BY DEF RunSend
  <1>3. UNCHANGED <<gate, broadcast, current, rows, owed, published>>
    BY DEF RunSend, performing
  <1>4. sender \in [Gates -> Seq(Messages)]
    BY DEF TypeOK
  <1>5. Held(hand) = {hand} /\ Held(hand') = {}
    BY <1>1, <1>2 DEF Held
  <1> HIDE DEF h
  <1>6. In(sender'[h]) = In(sender[h]) \cup {hand}
    BY <1>1, <1>2, <1>4, Put
  <1>7. \A g \in Gates : g # h => sender'[g] = sender[g]
    BY <1>2, <1>4
  <1>8. \A a : OwedTo(a)' = OwedTo(a)
    BY <1>3 DEF OwedTo
  <1>9. \A g \in Gates : /\ In(sender[g]) \subseteq In(sender'[g])
                         /\ In(sender'[g]) \subseteq In(sender[g]) \cup Held(hand)
    BY <1>5, <1>6, <1>7
  <1>10. OwedKept'
    BY <1>3, <1>5, <1>8, <1>9 DEF OwedKept
  <1>11. \A i \in 1 .. published : InFlightIn(i) => InFlightIn(i)' \/ owed[i] = {}
    BY <1>1, <1>3, <1>5, <1>6, <1>9 DEF InFlightIn
  <1>12. NoLostBroadcast'
    BY <1>3, <1>11, OwedMoved
  <1> QED
    BY <1>10, <1>12

(* A gate takes the rows that its broadcast goes to.                       *)
LEMMA OwedSnapshot ==
    ASSUME TypeOK, OwedKept, NoLostBroadcast, NEW h \in Gates, Snapshot(h)
    PROVE  OwedKept' /\ NoLostBroadcast'
  <1> DEFINE m == Head(sender[h])
  <1>1. sender[h] \in Seq(Messages) /\ sender[h] # << >> /\ current[h] = None
    BY DEF Snapshot, TypeOK
  <1>2. /\ sender'[h] = Tail(sender[h]) /\ current'[h] = m /\ rows'[h] = SubscribersOf(m.stream)
        /\ \A g \in Gates : g # h => /\ sender'[g] = sender[g] /\ current'[g] = current[g]
                                     /\ rows'[g] = rows[g]
    BY DEF Snapshot, TypeOK
  <1>3. UNCHANGED <<gate, broadcast, hand, owed, published>>
    BY DEF Snapshot
  <1> HIDE DEF m
  <1>4. In(sender[h]) = In(sender'[h]) \cup {m} /\ m \in Messages
    BY <1>1, <1>2, Take DEF m
  <1>5. Held(current'[h]) = {m} /\ Held(current[h]) = {}
    BY <1>1, <1>2, <1>4, MessageForm DEF Held
  <1>6. \A a : OwedTo(a)' = OwedTo(a)
    BY <1>3 DEF OwedTo
  <1>7. OwedTo(m) /\ owed[m.id] \subseteq SubscribersOf(m.stream)
    BY <1>4 DEF OwedKept, OwedTo, SubscribersOf
  <1>8. ASSUME NEW g \in Gates
        PROVE  /\ \A a \in In(sender'[g]) \cup Held(current'[g]) : OwedTo(a)'
               /\ \A a \in Held(current'[g]) : owed'[a.id] \subseteq rows'[g]
    <2>1. CASE g = h
      BY <2>1, <1>2, <1>3, <1>4, <1>5, <1>6, <1>7 DEF OwedKept
    <2>2. CASE g # h
      BY <2>2, <1>2, <1>3, <1>6 DEF OwedKept
    <2> QED
      BY <2>1, <2>2
  <1>9. OwedKept'
    BY <1>3, <1>6, <1>8 DEF OwedKept
  <1>10. \A i \in 1 .. published : InFlightIn(i) => InFlightIn(i)' \/ owed[i] = {}
    BY <1>2, <1>3, <1>4, <1>5 DEF InFlightIn
  <1>11. NoLostBroadcast'
    BY <1>3, <1>10, OwedMoved
  <1> QED
    BY <1>9, <1>11

(* A gate sends to one of those rows.                                      *)
LEMMA OwedSendRow ==
    ASSUME TypeOK, InOrder, OwedKept, NoLostBroadcast, NEW h \in Gates, SendRow(h)
    PROVE  OwedKept' /\ NoLostBroadcast'
  <1>1. PICK r \in rows[h] :
              /\ r \in Rows /\ Gate(r) = h
              /\ current[h] # None /\ current[h] \in Messages
              /\ UNCHANGED <<gate, broadcast, hand, sender, current, published>>
              /\ rows'[h] = rows[h] \ {r} /\ \A g \in Gates : g # h => rows'[g] = rows[g]
              /\ \/ r[1] = current[h].exclude /\ UNCHANGED <<delivered, owed>>
                 \/ /\ r[1] # current[h].exclude
                    /\ delivered'[r] = Append(delivered[r], current[h].id)
                    /\ \A q \in Rows : q # r => delivered'[q] = delivered[q]
                    /\ owed'[current[h].id] = owed[current[h].id] \ {r}
                    /\ \A i \in 1 .. MaxMessages : i # current[h].id => owed'[i] = owed[i]
    BY SendRowStep
  <1>2. Held(current[h]) = {current[h]}
    BY <1>1 DEF Held
  <1>3. r \notin owed'[current[h].id]
    BY <1>1, <1>2 DEF OwedKept, OwedTo
  <1>4. \A i \in 1 .. MaxMessages : owed'[i] \subseteq owed[i]
    BY <1>1
  <1>5. ASSUME NEW m \in Messages, OwedTo(m)
        PROVE  OwedTo(m)'
    BY <1>1, <1>4, <1>5, MessageForm DEF OwedTo
  <1>6. /\ In(broadcast) \subseteq Messages /\ Held(hand) \subseteq Messages
        /\ \A g \in Gates : In(sender[g]) \subseteq Messages /\ Held(current[g]) \subseteq Messages
    BY InMessages DEF TypeOK, Held
  <1>7. \A m \in In(broadcast') \cup Held(hand') : OwedTo(m)'
    BY <1>1, <1>5, <1>6 DEF OwedKept
  <1>8. ASSUME NEW g \in Gates
        PROVE  /\ \A m \in In(sender'[g]) \cup Held(current'[g]) : OwedTo(m)'
               /\ \A m \in Held(current'[g]) : owed'[m.id] \subseteq rows'[g]
    <2>1. \A m \in In(sender'[g]) \cup Held(current'[g]) : OwedTo(m)'
      BY <1>1, <1>5, <1>6 DEF OwedKept
    <2>2. \A m \in Held(current[g]) : owed'[m.id] \subseteq rows[g]
      BY <1>4, <1>6, MessageForm DEF OwedKept
    <2>3. \A m \in Held(current'[g]) : owed'[m.id] \subseteq rows'[g]
      BY <2>2, <1>1, <1>2, <1>3
    <2> QED
      BY <2>1, <2>3
  <1>9. OwedKept'
    BY <1>7, <1>8 DEF OwedKept
  <1>10. NoLostBroadcast'
    <2> SUFFICES ASSUME NEW i \in 1 .. published
                 PROVE  InFlight(i)' \/ owed'[i] = {}
      BY <1>1 DEF NoLostBroadcast
    <2>1. i \in 1 .. MaxMessages
      BY BroadcastingAssumption DEF TypeOK
    <2>2. InFlightIn(i)' = InFlightIn(i)
      BY <1>1 DEF InFlightIn
    <2>3. InFlight(i) \/ owed[i] = {}
      BY DEF NoLostBroadcast
    <2> QED
      BY <2>1, <2>2, <2>3, <1>4, InFlightPlaces
  <1> QED
    BY <1>9, <1>10

(* A gate has sent to all of those rows.                                   *)
LEMMA OwedBroadcastDone ==
    ASSUME TypeOK, OwedKept, NoLostBroadcast, NEW h \in Gates, BroadcastDone(h)
    PROVE  OwedKept' /\ NoLostBroadcast'
  <1>1. UNCHANGED <<gate, broadcast, hand, sender, rows, owed, published>>
    BY DEF BroadcastDone, channels
  <1>2. /\ Held(current'[h]) = {} /\ Held(current[h]) = {current[h]} /\ rows[h] = {}
        /\ \A g \in Gates : g # h => current'[g] = current[g]
    BY DEF BroadcastDone, TypeOK, Held
  <1>3. owed[current[h].id] = {}
    BY <1>2 DEF OwedKept
  <1>4. \A a : OwedTo(a)' = OwedTo(a)
    BY <1>1 DEF OwedTo
  <1>5. OwedKept'
    BY <1>1, <1>2, <1>4 DEF OwedKept
  <1>6. \A i \in 1 .. published : InFlightIn(i) => InFlightIn(i)' \/ owed[i] = {}
    BY <1>1, <1>2, <1>3 DEF InFlightIn
  <1>7. NoLostBroadcast'
    BY <1>1, <1>6, OwedMoved
  <1> QED
    BY <1>5, <1>7

(* Every step keeps what is owed in flight.                                *)
LEMMA OwedNext ==
    TypeOK /\ InOrder /\ OwedKept /\ NoLostBroadcast /\ [Next]_vars
        => OwedKept' /\ NoLostBroadcast'
  <1> SUFFICES ASSUME TypeOK, InOrder, OwedKept, NoLostBroadcast, [Next]_vars
               PROVE  OwedKept' /\ NoLostBroadcast'
    OBVIOUS
  <1> DEFINE moving == <<broadcast, hand, sender, current, rows, published>>
  <1>1. ASSUME NEW r \in Rows, Subscribe(r)
        PROVE  UNCHANGED <<moving, owed>> /\ gate \subseteq gate'
    BY <1>1 DEF Subscribe, channels, performing
  <1>2. ASSUME NEW r \in Rows, Unsubscribe(r)
        PROVE  OwedKept' /\ NoLostBroadcast'
    <2>1. UNCHANGED moving /\ gate' = gate \ {r}
      BY <1>2 DEF Unsubscribe, channels, performing
    <2>2. \A i \in 1 .. MaxMessages : owed'[i] = owed[i] \ {r}
      BY <1>2 DEF Unsubscribe, TypeOK
    <2> QED
      BY <2>1, <2>2, OwedStill
  <1>3. ASSUME NEW g \in Gates, LoopReturns(g)
        PROVE  UNCHANGED <<moving, owed, gate>>
    BY <1>3 DEF LoopReturns, channels, performing
  <1>4. Shutdown \/ UNCHANGED vars => UNCHANGED <<moving, owed, gate>>
    BY DEF Shutdown, channels, performing, vars
  <1>5. UNCHANGED <<moving, owed>> /\ gate \subseteq gate' => OwedKept' /\ NoLostBroadcast'
    BY OwedStill
  <1> HIDE DEF moving
  <1> QED
    BY <1>1, <1>2, <1>3, <1>4, <1>5, OwedBroadcastMessage, OwedRunBroadcast, OwedRunSend,
       OwedSnapshot, OwedSendRow, OwedBroadcastDone DEF Next, GateStep

-----------------------------------------------------------------------------

(* The inductive invariant of the pipeline always holds.                   *)
LEMMA PipelineInvariant == Spec => [](TypeOK /\ InOrder /\ OwedKept /\ NoLostBroadcast)
  <1>1. Init => TypeOK /\ InOrder /\ OwedKept /\ NoLostBroadcast
    BY TypeInit, OrderInit, OwedInit
  <1>2. TypeOK /\ InOrder /\ OwedKept /\ NoLostBroadcast /\ [Next]_vars
            => (TypeOK /\ InOrder /\ OwedKept /\ NoLostBroadcast)'
    BY TypeNext, OrderNext, OwedNext
  <1> QED
    BY <1>1, <1>2, PTL DEF Spec

(* Messages of a stream reach each row of its gate in the order in which   *)
(* they entered h.broadcast, none of them twice (Hub.Run, Gate.Broadcast,  *)
(* broadcastLoop), whatever is subscribed and unsubscribed meanwhile.      *)
THEOREM RowsGetMessagesInOrder == Spec => []DeliveryOrder
  <1>1. InOrder => DeliveryOrder
    BY DEF InOrder, RowInOrder, DeliveryOrder
  <1> QED
    BY <1>1, PipelineInvariant, PTL

(* Neither the gate's test for subscribers, nor the snapshot, nor a full   *)
(* channel loses a message for a row that was there when it was published  *)
(* and still is.                                                           *)
THEOREM NoBroadcastIsLost == Spec => []NoLostBroadcast
  BY PipelineInvariant, PTL
=============================================================================
