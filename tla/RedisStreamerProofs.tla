------------------------ MODULE RedisStreamerProofs ------------------------
(***************************************************************************)
(* For any nodes, number of publications, of faults and of attempts to     *)
(* reconnect: a publication is not lost, and is handled twice only if it   *)
(* was reclaimed.                                                          *)
(*                                                                         *)
(* InHand says who still has to handle what is pending, so that a consumer *)
(* that is deleted leaves behind only what its handler had failed with.    *)
(* HandledOnce counts, for what was never reclaimed, the deliveries that   *)
(* are still to be handled together with those that were.                  *)
(***************************************************************************)
EXTENDS RedisStreamer, FiniteSetTheorems, TLAPS

Handling(n) == reader[n] \in {"handle", "ack"}

(* Only handleRange has a batch; it is about to acknowledge what was       *)
(* handled; and what is pending for a consumer that nobody has handled is  *)
(* in its batch, or something went wrong with it.                          *)
InHandAt(n) ==
    /\ ~Handling(n) => batch[n] = {}
    /\ reader[n] = "ack" => handled[Current(n)] > 0
    /\ \A m \in Ids :
          reader[n] # "dead" /\ pending[m] = n /\ handled[m] = 0 => m \in hurt \cup batch[n]
InHand == \A n \in Nodes : InHandAt(n)

(* Node n has yet to call the handler with m.                              *)
Awaits(n, m) == m \in batch[n] /\ ~(reader[n] = "ack" /\ m = Current(n))

OnceAt(m) ==
    /\ m > group => handled[m] = 0 /\ \A n \in Nodes : m \notin batch[n]
    /\ m \notin claimed =>
          /\ handled[m] <= 1
          /\ \A n, k \in Nodes : m \in batch[n] /\ m \in batch[k] => n = k
          /\ \A n \in Nodes : Awaits(n, m) => handled[m] = 0
HandledOnce == \A m \in Ids : OnceAt(m)

(* NotLost of one entry.                                                   *)
SafeAt(m) ==
    born < m /\ m <= published /\ group # -1 =>
        \/ handled[m] > 0
        \/ m \in entries /\ (m > group \/ pending[m] # NoNode)
        \/ m \in dropped \cap hurt

-----------------------------------------------------------------------------

(* The least of a set of ids is one of them: the sets of those that are    *)
(* not above an id are finite, so one of them has no other within it.      *)
LEMMA MinIn ==
    ASSUME NEW S \in SUBSET Nat, S # {}
    PROVE  Min(S) \in S
  <1> DEFINE Upto(x) == {y \in S : y <= x}
             R == StrictSubsetOrdering(Nat)
             T == {Upto(x) : x \in S}
  <1>1. \A x \in S : Upto(x) \in FiniteSubsetsOf(Nat)
    <2> TAKE x \in S
    <2>1. x \in Nat /\ Upto(x) \in SUBSET Nat
      OBVIOUS
    <2>2. \A y \in Upto(x) : y <= x
      OBVIOUS
    <2>3. IsFiniteSet(Upto(x))
      <3> HIDE DEF Upto
      <3> QED
        BY <2>1, <2>2, FS_BoundedSetOfNaturals
    <2> QED
      BY <2>1, <2>3 DEF FiniteSubsetsOf
  <1>2. IsWellFoundedOn(R, FiniteSubsetsOf(Nat)) /\ T \subseteq FiniteSubsetsOf(Nat) /\ T # {}
    BY <1>1, FS_StrictSubsetOrderingWellFounded
  <1>3. PICK t \in T : \A u \in T : ~(<<u, t>> \in R)
    <2> HIDE DEF R, T
    <2> QED
      BY <1>2, WFMin
  <1>4. PICK x \in S : t = Upto(x)
    OBVIOUS
  <1>5. ASSUME NEW y \in S, ~(x <= y)
        PROVE  FALSE
    <2>1. x \in Nat /\ y \in Nat /\ y < x
      BY <1>5
    <2>2. \A z \in Nat : z <= y => z <= x
      BY <2>1
    <2>3. Upto(y) \subseteq Upto(x) /\ x \in Upto(x) /\ x \notin Upto(y)
      <3>1. \A z \in S : z \in Nat
        OBVIOUS
      <3>2. x <= x /\ ~(x <= y)
        BY <2>1
      <3> QED
        BY <2>2, <3>1, <3>2
    <2>4. Upto(y) \in T /\ Upto(y) \in SUBSET Nat /\ Upto(x) \in SUBSET Nat
      OBVIOUS
    <2>5. <<Upto(y), Upto(x)>> \in R
      BY <2>3, <2>4 DEF StrictSubsetOrdering
    <2> QED
      BY <2>4, <2>5, <1>3, <1>4
  <1> QED
    BY <1>5 DEF Min

(* While a batch is handled, there is a current entry.                     *)
LEMMA CurrentIn ==
    ASSUME TypeOK, NEW n \in Nodes, Handling(n)
    PROVE  Current(n) \in batch[n] /\ Current(n) \in Ids
  <1>1. batch[n] \in SUBSET Ids /\ batch[n] # {} /\ Ids \subseteq Nat
    BY StreamerAssumption DEF TypeOK, Handling, Ids
  <1> QED
    BY <1>1, MinIn DEF Current

-----------------------------------------------------------------------------
(* Types, in three parts. *)

Places == {"init", "group", "top", "read", "handle", "ack", "failed", "finished", "dead"}

RedisOK ==
    /\ published \in 0 .. MaxEntries /\ entries \subseteq 1 .. published
    /\ group \in -1 .. published /\ born \in 0 .. published
    /\ pending \in [Ids -> Nodes \cup {NoNode}]
    /\ \A m \in Ids : pending[m] # NoNode => m <= group
    /\ idle \subseteq {m \in Ids : pending[m] # NoNode}
ReaderOK ==
    /\ reader \in [Nodes -> Places] /\ batch \in [Nodes -> SUBSET Ids]
    /\ \A n \in Nodes : Handling(n) => batch[n] # {}
    /\ reclaimed \in [Nodes -> BOOLEAN]
OthersOK ==
    /\ client \in [Nodes -> BOOLEAN]
    /\ attempts \in [Nodes -> 0 .. MaxReconnectAttempts]
    /\ stopping \in [Nodes -> {"no", "waiting", "done"}]
    /\ handled \in [Ids -> Nat]
    /\ claimed \subseteq Ids /\ hurt \subseteq Ids /\ dropped \subseteq Ids
    /\ faults \in 0 .. MaxFaults

(* The type invariant in three parts.                                      *)
LEMMA TypeParts ==
    /\ TypeOK <=> RedisOK /\ ReaderOK /\ OthersOK
    /\ TypeOK' <=> RedisOK' /\ ReaderOK' /\ OthersOK'
  BY DEF TypeOK, RedisOK, ReaderOK, OthersOK, Places, Handling

(* The variables have their types at the start.                            *)
LEMMA TypeInit == Init => TypeOK
  <1> SUFFICES ASSUME Init
               PROVE  TypeOK
    OBVIOUS
  <1> QED
    BY StreamerAssumption DEF Init, TypeOK, Ids

(* What the steps of a reader do to what handleRange works on.             *)
LEMMA ContinueStep ==
    ASSUME TypeOK, NEW n \in Nodes, Handling(n), Continue(n)
    PROVE  /\ batch' \in [Nodes -> SUBSET Ids] /\ batch'[n] = batch[n] \ {Current(n)}
           /\ \A k \in Nodes : k # n => batch'[k] = batch[k] /\ reader'[k] = reader[k]
           /\ reader' \in [Nodes -> {"init", "group", "top", "read", "handle", "ack",
                                     "failed", "finished", "dead"}]
           /\ reader'[n] \in {"handle", "read", "top"}
           /\ reader'[n] = "handle" <=> batch'[n] # {}
           /\ reclaimed' \in [Nodes -> BOOLEAN]
           /\ UNCHANGED <<connection, stopping, claimed, dropped>>
  <1>1. Current(n) \in batch[n] /\ Current(n) \in Ids
    BY CurrentIn
  <1> HIDE DEF Current
  <1>2. batch' = [batch EXCEPT ![n] = @ \ {Current(n)}]
    BY DEF Continue
  <1>3. reader' = [reader EXCEPT ![n] = IF batch[n] # {Current(n)} THEN "handle"
                                        ELSE IF reclaimed[n] THEN "read" ELSE "top"]
    BY DEF Continue, Goto
  <1>4. batch' \in [Nodes -> SUBSET Ids] /\ batch'[n] = batch[n] \ {Current(n)}
    BY <1>2 DEF TypeOK
  <1>5. \A k \in Nodes : k # n => batch'[k] = batch[k] /\ reader'[k] = reader[k]
    BY <1>2, <1>3 DEF TypeOK
  <1>6. /\ reader' \in [Nodes -> {"init", "group", "top", "read", "handle", "ack",
                                  "failed", "finished", "dead"}]
        /\ reader'[n] \in {"handle", "read", "top"}
        /\ reader'[n] = "handle" <=> batch[n] # {Current(n)}
    BY <1>3 DEF TypeOK
  <1>7. batch[n] # {Current(n)} <=> batch'[n] # {}
    BY <1>1, <1>4
  <1>8. reclaimed' \in [Nodes -> BOOLEAN]
    <2>1. reclaimed' = [reclaimed EXCEPT ![n] = @ /\ batch[n] # {Current(n)}]
      BY DEF Continue
    <2> QED
      BY <2>1, Zenon DEF TypeOK
  <1> QED
    BY <1>4, <1>5, <1>6, <1>7, <1>8 DEF Continue

(* A reader goes somewhere, with or without a new batch.                   *)
LEMMA ReaderGoes ==
    ASSUME ReaderOK, NEW n \in Nodes, NEW p \in Places, Goto(n, p),
           p \in {"handle", "ack"} => batch'[n] # {},
           \/ UNCHANGED batch
           \/ \E M \in SUBSET Ids : batch' = [batch EXCEPT ![n] = M],
           \/ UNCHANGED reclaimed
           \/ \E b \in BOOLEAN : reclaimed' = [reclaimed EXCEPT ![n] = b]
    PROVE  /\ ReaderOK' /\ reader'[n] = p
           /\ \A k \in Nodes : k # n => reader'[k] = reader[k] /\ batch'[k] = batch[k]
  <1>1. /\ reader' \in [Nodes -> Places] /\ reader'[n] = p
        /\ \A k \in Nodes : k # n => reader'[k] = reader[k]
    BY DEF ReaderOK, Goto
  <1>2. batch' \in [Nodes -> SUBSET Ids] /\ \A k \in Nodes : k # n => batch'[k] = batch[k]
    BY DEF ReaderOK
  <1>3. reclaimed' \in [Nodes -> BOOLEAN]
    BY Zenon DEF ReaderOK
  <1> QED
    BY <1>1, <1>2, <1>3 DEF ReaderOK, Handling

(* What XAUTOCLAIM and XREADGROUP deliver.                                 *)
LEMMA Deliveries ==
    ASSUME RedisOK
    PROVE  /\ Claimable \subseteq Ids /\ Undelivered \subseteq Ids
           /\ \A m \in Claimable : pending[m] # NoNode
           /\ \A m \in Undelivered : m > group /\ m <= published
  <1>1. \A m \in entries : m \in Ids /\ m <= published
    BY StreamerAssumption DEF RedisOK, Ids
  <1> QED
    BY <1>1 DEF Claimable, Undelivered

(* Every step keeps the types.                                             *)
LEMMA TypeNext == TypeOK /\ [Next]_vars => TypeOK'
  <1> SUFFICES ASSUME TypeOK, [Next]_vars
               PROVE  TypeOK'
    OBVIOUS
  <1>0. /\ MaxEntries \in Nat /\ MaxFaults \in Nat /\ MaxReconnectAttempts \in Nat
        /\ RedisOK /\ ReaderOK /\ OthersOK
    BY StreamerAssumption, TypeParts
  <1>u. /\ UNCHANGED redis => RedisOK'
        /\ UNCHANGED <<reader, work>> => ReaderOK'
    BY <1>0 DEF RedisOK, ReaderOK, redis, work, Handling
  <1> USE <1>0
  <1>1. CASE Publish
    <2>1. RedisOK'
      BY <1>1 DEF Publish, RedisOK, Ids
    <2>2. ReaderOK' /\ OthersOK'
      BY <1>1, <1>u DEF Publish, OthersOK, connection, history
    <2> QED
      BY <2>1, <2>2, TypeParts
  <1>2. ASSUME NEW m \in Ids, GoesIdle(m)
        PROVE  TypeOK'
    <2>1. RedisOK'
      BY <1>2 DEF GoesIdle, RedisOK, Ids
    <2>2. ReaderOK' /\ OthersOK'
      BY <1>2, <1>u DEF GoesIdle, OthersOK, connection, history
    <2> QED
      BY <2>1, <2>2, TypeParts
  <1>3. ASSUME NEW n \in Nodes, InitClient(n)
        PROVE  TypeOK'
    <2>1. RedisOK'
      BY <1>3, <1>u DEF InitClient
    <2>2. ReaderOK'
      BY <1>3, ReaderGoes DEF InitClient, Goto, Places, work
    <2>3. OthersOK'
      <3>1. client' \in [Nodes -> BOOLEAN]
        BY <1>3, Zenon DEF InitClient, OthersOK, connection
      <3>2. attempts' \in [Nodes -> 0 .. MaxReconnectAttempts]
        <4>1. 0 \in 0 .. MaxReconnectAttempts
          OBVIOUS
        <4> QED
          BY <1>3, <4>1 DEF InitClient, OthersOK, connection
      <3> QED
        BY <1>3, <3>1, <3>2 DEF InitClient, OthersOK, history
    <2> QED
      BY <2>1, <2>2, <2>3, TypeParts
  <1>4. ASSUME NEW n \in Nodes, CreateGroup(n)
        PROVE  TypeOK'
    <2>1. RedisOK'
      <3>1. CASE XGroupCreate
        <4>1. group' \in -1 .. published /\ born' \in 0 .. published /\ group' >= group
          BY <3>1 DEF XGroupCreate, RedisOK
        <4>2. \A m \in Ids : pending[m] # NoNode => m <= group'
          BY <4>1 DEF RedisOK, Ids
        <4> QED
          BY <3>1, <4>1, <4>2 DEF XGroupCreate, RedisOK
      <3> QED
        BY <1>4, <1>u, <3>1 DEF CreateGroup
    <2>2. ReaderOK'
      BY <1>4, ReaderGoes DEF CreateGroup, Goto, Places, work
    <2>3. OthersOK'
      BY <1>4 DEF CreateGroup, OthersOK, connection, history, Fault
    <2> QED
      BY <2>1, <2>2, <2>3, TypeParts
  <1>5. ASSUME NEW n \in Nodes, StopConsuming(n)
        PROVE  TypeOK'
    <2>1. RedisOK'
      BY <1>5, <1>u DEF StopConsuming
    <2>2. ReaderOK'
      BY <1>5, ReaderGoes DEF StopConsuming, Goto, Places, work
    <2>3. OthersOK'
      BY <1>5 DEF StopConsuming, OthersOK, connection, history, Fault
    <2> QED
      BY <2>1, <2>2, <2>3, TypeParts
  <1>6. ASSUME NEW n \in Nodes, Autoclaim(n)
        PROVE  TypeOK'
    <2>1. RedisOK'
      BY <1>6, <1>u DEF Autoclaim, XAutoClaim, Claimable, RedisOK, Ids
    <2>2. ReaderOK'
      <3>1. CASE Handle(n, Claimable, Claimable # {})
                 /\ Goto(n, IF Claimable = {} THEN "read" ELSE "handle")
        <4>1. batch' = [batch EXCEPT ![n] = Claimable] /\ batch'[n] = Claimable
          BY <3>1 DEF Handle, ReaderOK
        <4>2. \E b \in BOOLEAN : reclaimed' = [reclaimed EXCEPT ![n] = b]
          BY <3>1 DEF Handle
        <4> QED
          BY <3>1, <4>1, <4>2, Deliveries, ReaderGoes DEF Places
      <3>2. CASE Goto(n, "failed") /\ UNCHANGED work
        BY <3>2, ReaderGoes DEF Places, work
      <3> QED
        BY <1>6, <3>1, <3>2 DEF Autoclaim
    <2>3. OthersOK'
      BY <1>6, Deliveries DEF Autoclaim, OthersOK, connection, history, Fault
    <2> QED
      BY <2>1, <2>2, <2>3, TypeParts
  <1>7. ASSUME NEW n \in Nodes, ReadFromStream(n)
        PROVE  TypeOK'
    <2>1. RedisOK'
      <3>1. CASE XReadGroup(n)
        <4>1. group' = published /\ \A m \in Ids : pending[m] # NoNode => m <= published
          BY <3>1 DEF XReadGroup, RedisOK, Ids
        <4>2. /\ pending' \in [Ids -> Nodes \cup {NoNode}]
              /\ \A m \in Ids : pending'[m] # NoNode => m <= published
              /\ \A m \in Ids : pending[m] # NoNode => pending'[m] # NoNode
          BY <3>1, <4>1, Deliveries, StreamerAssumption DEF XReadGroup, RedisOK
        <4> QED
          BY <3>1, <4>1, <4>2 DEF XReadGroup, RedisOK
      <3> QED
        BY <1>7, <1>u, <3>1 DEF ReadFromStream
    <2>2. ReaderOK'
      <3>1. CASE Handle(n, Undelivered, FALSE)
                 /\ Goto(n, IF Undelivered = {} THEN "top" ELSE "handle")
        <4>1. batch' = [batch EXCEPT ![n] = Undelivered] /\ batch'[n] = Undelivered
          BY <3>1 DEF Handle, ReaderOK
        <4>2. \E b \in BOOLEAN : reclaimed' = [reclaimed EXCEPT ![n] = b]
          BY <3>1 DEF Handle
        <4> QED
          BY <3>1, <4>1, <4>2, Deliveries, ReaderGoes DEF Places
      <3>2. CASE Goto(n, "failed") /\ UNCHANGED work
        BY <3>2, ReaderGoes DEF Places, work
      <3> QED
        BY <1>7, <3>1, <3>2 DEF ReadFromStream
    <2>3. OthersOK'
      <3>1. hurt' \subseteq Ids
        BY <1>7, Deliveries DEF ReadFromStream, OthersOK
      <3>2. faults' \in 0 .. MaxFaults
        <4>1. Fault \/ UNCHANGED faults
          BY <1>7 DEF ReadFromStream
        <4> QED
          BY <4>1 DEF Fault, OthersOK
      <3> QED
        BY <1>7, <3>1, <3>2 DEF ReadFromStream, OthersOK, connection
    <2> QED
      BY <2>1, <2>2, <2>3, TypeParts
  <1>8. ASSUME NEW n \in Nodes, Handler(n)
        PROVE  TypeOK'
    <2>1. Current(n) \in Ids /\ batch[n] # {}
      BY <1>8, CurrentIn DEF Handler, Handling, In
    <2>2. RedisOK' /\ OthersOK'
      BY <1>8, <1>u, <2>1 DEF Handler, OthersOK, connection
    <2>3. ReaderOK'
      BY <1>8, <2>1, ReaderGoes DEF Handler, Places, work
    <2> QED
      BY <2>2, <2>3, TypeParts
  <1>9. ASSUME NEW n \in Nodes, HandlerFails(n)
        PROVE  TypeOK'
    <2>1. Current(n) \in Ids /\ Handling(n) /\ Continue(n)
      BY <1>9, CurrentIn DEF HandlerFails, Handling, In
    <2>2. RedisOK' /\ OthersOK'
      BY <1>9, <1>u, <2>1, ContinueStep DEF HandlerFails, OthersOK, connection, Fault
    <2>3. ReaderOK'
      BY <2>1, ContinueStep DEF ReaderOK, Places, Handling
    <2> QED
      BY <2>2, <2>3, TypeParts
  <1>10. ASSUME NEW n \in Nodes, Ack(n)
         PROVE  TypeOK'
    <2>1. Current(n) \in Ids /\ Handling(n) /\ Continue(n)
      BY <1>10, CurrentIn DEF Ack, Handling, In
    <2>2. RedisOK'
      BY <1>10, <1>u, <2>1 DEF Ack, XAck, XDel, RedisOK
    <2>3. OthersOK'
      BY <1>10, <2>1, ContinueStep DEF Ack, OthersOK, connection, Fault
    <2>4. ReaderOK'
      BY <2>1, ContinueStep DEF ReaderOK, Places, Handling
    <2> QED
      BY <2>2, <2>3, <2>4, TypeParts
  <1>11. ASSUME NEW n \in Nodes, GiveUp(n)
        PROVE  TypeOK'
    <2>1. RedisOK'
      BY <1>11, <1>u DEF GiveUp
    <2>2. ReaderOK'
      BY <1>11, ReaderGoes DEF GiveUp, Goto, Places, work
    <2>3. OthersOK'
      BY <1>11 DEF GiveUp, OthersOK, connection, history, Fault
    <2> QED
      BY <2>1, <2>2, <2>3, TypeParts
  <1>12. ASSUME NEW n \in Nodes, MaybeReconnect(n)
        PROVE  TypeOK'
    <2>1. RedisOK'
      BY <1>12, <1>u DEF MaybeReconnect
    <2>2. ReaderOK'
      BY <1>12, ReaderGoes DEF MaybeReconnect, Goto, Places, work
    <2>3. OthersOK'
      BY <1>12 DEF MaybeReconnect, OthersOK, connection, history, Fault
    <2> QED
      BY <2>1, <2>2, <2>3, TypeParts
  <1>13. ASSUME NEW n \in Nodes, Shutdown(n)
        PROVE  TypeOK'
    <2>1. RedisOK'
      BY <1>13, <1>u DEF Shutdown
    <2>2. ReaderOK'
      BY <1>13, <1>u DEF Shutdown
    <2>3. OthersOK'
      BY <1>13 DEF Shutdown, OthersOK, connection, history, Fault
    <2> QED
      BY <2>1, <2>2, <2>3, TypeParts
  <1>14. ASSUME NEW n \in Nodes, DeleteConsumer(n)
        PROVE  TypeOK'
    <2>1. RedisOK'
      BY <1>14, <1>u DEF DeleteConsumer, XGroupDelConsumer, RedisOK
    <2>2. ReaderOK'
      BY <1>14, <1>u DEF DeleteConsumer
    <2>3. OthersOK'
      BY <1>14 DEF DeleteConsumer, OthersOK, connection, history, Fault, XGroupDelConsumer
    <2> QED
      BY <2>1, <2>2, <2>3, TypeParts
  <1>15. ASSUME NEW n \in Nodes, Crash(n)
        PROVE  TypeOK'
    <2>1. RedisOK'
      BY <1>15, <1>u DEF Crash
    <2>2. ReaderOK'
      BY <1>15, ReaderGoes DEF Crash, Goto, Places, work
    <2>3. OthersOK'
      BY <1>15 DEF Crash, OthersOK, connection, history, Fault
    <2> QED
      BY <2>1, <2>2, <2>3, TypeParts
  <1>16. CASE UNCHANGED vars
    BY <1>16, <1>u, TypeParts DEF vars, OthersOK, connection, history
  <1> QED
    BY <1>1, <1>2, <1>3, <1>4, <1>5, <1>6, <1>7, <1>8, <1>9, <1>10, <1>11, <1>12, <1>13,
       <1>14, <1>15, <1>16 DEF Next, Reader

-----------------------------------------------------------------------------
(* What a step may do to a node, or to an entry, that it is not about. *)

(* What a node has in hand, where the step is another node's.              *)
LEMMA InHandOther ==
    ASSUME TypeOK, TypeOK', NEW k \in Nodes, InHandAt(k),
           reader'[k] = reader[k], batch'[k] = batch[k], hurt \subseteq hurt',
           \A m \in Ids : handled'[m] >= handled[m],
           \A m \in Ids : pending'[m] = k => pending[m] = k
    PROVE  InHandAt(k)'
  <1>1. \A m \in Ids : handled[m] \in Nat /\ handled'[m] \in Nat
    BY DEF TypeOK
  <1>2. Current(k)' = Current(k)
    BY DEF Current
  <1>3. reader[k] = "ack" => Current(k) \in Ids
    BY CurrentIn DEF Handling
  <1>4. reader[k] = "ack" => handled'[Current(k)] > 0
    BY <1>1, <1>3 DEF InHandAt
  <1>5. \A m \in Ids : handled'[m] = 0 => handled[m] = 0
    BY <1>1
  <1> QED
    BY <1>2, <1>4, <1>5 DEF InHandAt, Handling

(* A message that the step does not hand over.                             *)
LEMMA OnceOther ==
    ASSUME TypeOK, TypeOK', NEW m \in Ids, OnceAt(m),
           handled'[m] = handled[m], claimed \subseteq claimed', group' >= group,
           \A n \in Nodes : m \in batch'[n] => m \in batch[n],
           \A n \in Nodes : Awaits(n, m)' => Awaits(n, m)
    PROVE  OnceAt(m)'
  <1>1. m > group' => m > group
    BY StreamerAssumption DEF TypeOK, Ids
  <1> QED
    BY <1>1 DEF OnceAt

(* A message that the step does not take away.                             *)
LEMMA SafeOther ==
    ASSUME TypeOK, TypeOK', NEW m \in Ids, SafeAt(m),
           UNCHANGED <<born, published, group>>, handled'[m] >= handled[m],
           m \in entries => m \in entries' \/ handled'[m] > 0,
           pending[m] # NoNode => pending'[m] # NoNode \/ handled'[m] > 0
                                    \/ m \in dropped' \cap hurt',
           dropped \subseteq dropped', hurt \subseteq hurt'
    PROVE  SafeAt(m)'
  <1>1. handled[m] > 0 => handled'[m] > 0
    BY DEF TypeOK
  <1> QED
    BY <1>1 DEF SafeAt

(* Steps that deliver, handle and acknowledge nothing.                     *)
LEMMA Elsewhere ==
    ASSUME TypeOK, TypeOK', InHand, HandledOnce, NotLost,
           UNCHANGED <<published, entries, group, born, batch, handled, claimed, hurt, pending,
                       dropped>>,
           \A n \in Nodes : \/ reader'[n] = reader[n]
                            \/ ~Handling(n) /\ reader[n] # "dead" /\ ~Handling(n)'
    PROVE  InHand' /\ HandledOnce' /\ NotLost'
  <1>1. \A m \in Ids : handled[m] \in Nat /\ handled'[m] >= handled[m]
    BY DEF TypeOK
  <1>2. ASSUME NEW k \in Nodes
        PROVE  InHandAt(k)'
    <2>1. InHandAt(k)
      BY DEF InHand
    <2>2. CASE reader'[k] = reader[k]
      BY <2>1, <2>2, <1>1, InHandOther
    <2>3. CASE ~Handling(k) /\ reader[k] # "dead" /\ ~Handling(k)'
      BY <2>1, <2>3 DEF InHandAt, Handling
    <2> QED
      BY <2>2, <2>3
  <1>3. ASSUME NEW m \in Ids
        PROVE  OnceAt(m)'
    <2>1. OnceAt(m) /\ group' >= group
      BY DEF HandledOnce, TypeOK
    <2>2. \A n \in Nodes : Awaits(n, m)' => Awaits(n, m)
      <3> TAKE n \in Nodes
      <3>1. CASE reader'[n] = reader[n]
        BY <3>1 DEF Awaits, Current
      <3>2. CASE ~Handling(n)
        BY <3>2 DEF Awaits, Handling
      <3> QED
        BY <3>1, <3>2
    <2> QED
      BY <2>1, <2>2, OnceOther
  <1>4. NotLost'
    BY DEF NotLost
  <1> QED
    BY <1>2, <1>3, <1>4 DEF InHand, HandledOnce

(* NotLost, entry by entry.                                                *)
LEMMA EntriesSafe ==
    /\ NotLost <=> \A m \in Ids : SafeAt(m)
    /\ NotLost' <=> \A m \in Ids : SafeAt(m)'
  BY DEF NotLost, SafeAt

(* A broadcaster publishes a message.                                      *)
LEMMA PublishStep ==
    ASSUME TypeOK, TypeOK', InHand, HandledOnce, NotLost, Publish
    PROVE  InHand' /\ HandledOnce' /\ NotLost'
  <1>1. UNCHANGED <<group, born, pending, reader, batch, handled, claimed, hurt, dropped>>
    BY DEF Publish, work, history
  <1>2. InHand'
    BY <1>1 DEF InHand, InHandAt, Handling, Current
  <1>3. HandledOnce'
    BY <1>1 DEF HandledOnce, OnceAt, Awaits, Current
  <1>4. ASSUME NEW m \in Ids
        PROVE  SafeAt(m)'
    <2>1. SafeAt(m)
      BY EntriesSafe
    <2>2. published' = published + 1 /\ entries' = entries \cup {published + 1}
      BY DEF Publish
    <2>3. m \in Nat /\ published \in Nat /\ group \in Int /\ group <= published
      BY StreamerAssumption DEF TypeOK, Ids
    <2>4. CASE m = published + 1
      BY <2>2, <2>3, <2>4, <1>1 DEF SafeAt
    <2>5. CASE m # published + 1
      <3>1. m <= published' => m <= published
        BY <2>2, <2>3, <2>5
      <3> QED
        BY <3>1, <2>1, <2>2, <1>1 DEF SafeAt
    <2> QED
      BY <2>4, <2>5
  <1> QED
    BY <1>2, <1>3, <1>4, EntriesSafe

(* A node creates the consumer group.                                      *)
LEMMA CreateGroupStep ==
    ASSUME TypeOK, TypeOK', InHand, HandledOnce, NotLost, NEW n \in Nodes, CreateGroup(n)
    PROVE  InHand' /\ HandledOnce' /\ NotLost'
  <1>1. UNCHANGED <<batch, handled, claimed, hurt, dropped>>
    BY DEF CreateGroup, work, history
  <1>2. UNCHANGED <<published, entries, pending>>
    BY DEF CreateGroup, XGroupCreate, redis
  <1>3. \/ group = -1 /\ group' = published /\ born' = published
        \/ UNCHANGED <<group, born>>
    BY DEF CreateGroup, XGroupCreate, redis
  <1>4. /\ ~Handling(n) /\ reader[n] # "dead" /\ ~Handling(n)'
        /\ \A k \in Nodes : k # n => reader'[k] = reader[k]
    BY DEF CreateGroup, Goto, In, Handling, TypeOK
  <1>5. CASE UNCHANGED <<group, born>>
    BY <1>1, <1>2, <1>4, <1>5, Elsewhere
  <1>6. CASE group = -1 /\ group' = published /\ born' = published
    <2>1. InHand'
      <3>1. ASSUME NEW k \in Nodes
            PROVE  InHandAt(k)'
        <4>1. InHandAt(k)
          BY DEF InHand
        <4>2. \A m \in Ids : handled'[m] >= handled[m]
          BY <1>1 DEF TypeOK
        <4>3. CASE k = n
          BY <4>1, <4>3, <1>1, <1>2, <1>4 DEF InHandAt, Handling
        <4>4. CASE k # n
          BY <4>1, <4>2, <4>4, <1>1, <1>2, <1>4, InHandOther
        <4> QED
          BY <4>3, <4>4
      <3> QED
        BY <3>1 DEF InHand
    <2>2. ASSUME NEW m \in Ids
          PROVE  OnceAt(m)' /\ SafeAt(m)'
      <3>1. OnceAt(m) /\ m > group /\ published \in Nat /\ m \in Nat
        BY <1>6, StreamerAssumption DEF HandledOnce, Ids, TypeOK
      <3>2. handled[m] = 0 /\ \A k \in Nodes : m \notin batch[k]
        BY <3>1 DEF OnceAt
      <3>3. OnceAt(m)'
        BY <3>2, <1>1 DEF OnceAt, Awaits
      <3>4. ~(born' < m /\ m <= published')
        BY <3>1, <1>2, <1>6
      <3> QED
        BY <3>3, <3>4 DEF SafeAt
    <2> QED
      BY <2>1, <2>2, EntriesSafe DEF HandledOnce
  <1> QED
    BY <1>3, <1>5, <1>6

(* Node n has got the entries of D, or they were lost on the way.          *)
LEMMA Delivered ==
    ASSUME TypeOK, TypeOK', InHand, NEW n \in Nodes, ~Handling(n), reader[n] # "dead",
           NEW D \in SUBSET Ids, UNCHANGED handled,
           \A m \in Ids : pending'[m] = IF m \in D THEN n ELSE pending[m],
           \/ batch' = [batch EXCEPT ![n] = D] /\ UNCHANGED hurt /\ (Handling(n)' <=> D # {})
           \/ UNCHANGED batch /\ hurt' = hurt \cup D /\ ~Handling(n)',
           reader'[n] # "ack",
           \A k \in Nodes : k # n => reader'[k] = reader[k]
    PROVE  InHand'
  <1>1. batch[n] = {} /\ InHandAt(n) /\ batch \in [Nodes -> SUBSET Ids]
    BY DEF InHand, InHandAt, TypeOK
  <1>2. \A k \in Nodes : k # n => batch'[k] = batch[k]
    BY <1>1
  <1>3. ASSUME NEW k \in Nodes, k # n
        PROVE  InHandAt(k)'
    <2>1. \A m \in Ids : handled'[m] >= handled[m]
      BY DEF TypeOK
    <2>2. \A m \in Ids : pending'[m] = k => pending[m] = k
      BY <1>3
    <2> QED
      BY <2>1, <2>2, <1>2, <1>3, InHandOther DEF InHand
  <1>4. D \subseteq hurt' \cup batch'[n] /\ hurt \subseteq hurt'
    BY <1>1
  <1>5. \A m \in Ids : pending'[m] = n /\ handled'[m] = 0 => m \in hurt' \cup batch'[n]
    BY <1>1, <1>4 DEF InHandAt
  <1>6. ~Handling(n)' => batch'[n] = {}
    BY <1>1
  <1>7. InHandAt(n)'
    BY <1>5, <1>6 DEF InHandAt
  <1> QED
    BY <1>3, <1>7 DEF InHand

(* The entries of other batches than D are where they were.                *)
LEMMA DeliveredOnce ==
    ASSUME TypeOK, TypeOK', InHand, NEW n \in Nodes, ~Handling(n), reader'[n] # "ack",
           NEW D \in SUBSET Ids, NEW m \in Ids, OnceAt(m),
           \/ batch' = [batch EXCEPT ![n] = D]
           \/ UNCHANGED batch,
           \A k \in Nodes : k # n => reader'[k] = reader[k]
    PROVE  /\ m \notin D => \A k \in Nodes : m \in batch'[k] => m \in batch[k]
           /\ m \notin D => \A k \in Nodes : Awaits(k, m)' => Awaits(k, m)
           /\ \A k \in Nodes : m \in batch'[k] => k = n \/ m \in batch[k]
  <1>1. batch[n] = {} /\ batch \in [Nodes -> SUBSET Ids]
    BY DEF InHand, InHandAt, TypeOK
  <1>2. /\ batch'[n] = {} \/ batch'[n] = D
        /\ \A k \in Nodes : k # n => batch'[k] = batch[k] /\ Current(k)' = Current(k)
    BY <1>1 DEF Current
  <1> QED
    BY <1>1, <1>2 DEF Awaits

(* A node claims what another has not acknowledged.                        *)
LEMMA AutoclaimStep ==
    ASSUME TypeOK, TypeOK', InHand, HandledOnce, NotLost, NEW n \in Nodes, Autoclaim(n)
    PROVE  InHand' /\ HandledOnce' /\ NotLost'
  <1>1. /\ ~Handling(n) /\ reader[n] # "dead" /\ reader'[n] # "ack"
        /\ \A k \in Nodes : k # n => reader'[k] = reader[k]
    BY DEF Autoclaim, Goto, In, Handling, TypeOK
  <1>2. UNCHANGED <<published, entries, group, born, handled, dropped>>
    BY DEF Autoclaim, XAutoClaim, redis
  <1>3. CASE UNCHANGED <<redis, work, claimed, hurt>> /\ Goto(n, "failed")
    <2>1. ~Handling(n)'
      BY <1>3 DEF Goto, Handling, TypeOK
    <2> QED
      BY <2>1, <1>1, <1>2, <1>3, Elsewhere DEF redis, work
  <1>4. ASSUME XAutoClaim(n), claimed' = claimed \cup Claimable,
               \/ Handle(n, Claimable, Claimable # {}) /\ UNCHANGED hurt
                    /\ Goto(n, IF Claimable = {} THEN "read" ELSE "handle")
               \/ UNCHANGED work /\ hurt' = hurt \cup Claimable /\ Goto(n, "failed")
        PROVE  InHand' /\ HandledOnce' /\ NotLost'
    <2> PICK D : D = Claimable
      OBVIOUS
    <2>1. D \in SUBSET Ids /\ \A m \in D : pending[m] # NoNode
      BY TypeParts, Deliveries
    <2>2. \A m \in Ids : pending'[m] = IF m \in D THEN n ELSE pending[m]
      BY <1>4 DEF XAutoClaim
    <2>3. \/ batch' = [batch EXCEPT ![n] = D] /\ UNCHANGED hurt /\ (Handling(n)' <=> D # {})
          \/ UNCHANGED batch /\ hurt' = hurt \cup D /\ ~Handling(n)'
      BY <1>4 DEF Handle, Goto, Handling, work, TypeOK
    <2>4. InHand'
      BY <2>1, <2>2, <2>3, <1>1, <1>2, Delivered
    <2>5. ASSUME NEW m \in Ids
          PROVE  OnceAt(m)'
      <3>1. OnceAt(m) /\ group' >= group /\ handled'[m] = handled[m] /\ claimed \subseteq claimed'
        BY <1>2, <1>4 DEF HandledOnce, TypeOK
      <3>2. CASE m \in D
        <4>1. m \in claimed' /\ m <= group /\ m \in Nat /\ group \in Int
          BY <3>2, <2>1, <1>4, StreamerAssumption DEF TypeOK, Ids
        <4> QED
          BY <4>1, <1>2 DEF OnceAt
      <3>3. CASE m \notin D
        BY <3>1, <3>3, <2>1, <2>3, <1>1, DeliveredOnce, OnceOther
      <3> QED
        BY <3>2, <3>3
    <2>6. ASSUME NEW m \in Ids
          PROVE  SafeAt(m)'
      <3>1. pending[m] # NoNode => pending'[m] # NoNode
        BY <2>2, StreamerAssumption
      <3>2. SafeAt(m) /\ handled'[m] >= handled[m] /\ hurt \subseteq hurt'
        BY <2>3, <1>2, EntriesSafe DEF TypeOK
      <3> QED
        BY <3>1, <3>2, <1>2, SafeOther
    <2> QED
      BY <2>4, <2>5, <2>6, EntriesSafe DEF HandledOnce
  <1> QED
    BY <1>3, <1>4 DEF Autoclaim

(* A node reads new messages.                                              *)
LEMMA ReadFromStreamStep ==
    ASSUME TypeOK, TypeOK', InHand, HandledOnce, NotLost, NEW n \in Nodes, ReadFromStream(n)
    PROVE  InHand' /\ HandledOnce' /\ NotLost'
  <1>1. /\ ~Handling(n) /\ reader[n] # "dead" /\ reader'[n] # "ack"
        /\ \A k \in Nodes : k # n => reader'[k] = reader[k]
    BY DEF ReadFromStream, Goto, In, Handling, TypeOK
  <1>2. UNCHANGED <<published, entries, born, handled, claimed, dropped>>
    BY DEF ReadFromStream, XReadGroup, redis
  <1>3. CASE UNCHANGED <<redis, work, hurt>> /\ Goto(n, "failed")
    <2>1. ~Handling(n)'
      BY <1>3 DEF Goto, Handling, TypeOK
    <2> QED
      BY <2>1, <1>1, <1>2, <1>3, Elsewhere DEF redis, work
  <1>4. ASSUME XReadGroup(n), group # -1,
               \/ Handle(n, Undelivered, FALSE) /\ UNCHANGED hurt
                    /\ Goto(n, IF Undelivered = {} THEN "top" ELSE "handle")
               \/ UNCHANGED work /\ hurt' = hurt \cup Undelivered /\ Goto(n, "failed")
        PROVE  InHand' /\ HandledOnce' /\ NotLost'
    <2> PICK D : D = Undelivered
      OBVIOUS
    <2>1. D \in SUBSET Ids /\ \A m \in D : m > group /\ m <= published
      BY TypeParts, Deliveries
    <2>2. \A m \in Ids : pending'[m] = IF m \in D THEN n ELSE pending[m]
      BY <1>4 DEF XReadGroup
    <2>3. \/ batch' = [batch EXCEPT ![n] = D] /\ UNCHANGED hurt /\ (Handling(n)' <=> D # {})
          \/ UNCHANGED batch /\ hurt' = hurt \cup D /\ ~Handling(n)'
      BY <1>4 DEF Handle, Goto, Handling, work, TypeOK
    <2>4. InHand'
      BY <2>1, <2>2, <2>3, <1>1, <1>2, Delivered
    <2>5. group' = published /\ group' >= group /\ group' # -1
      BY <1>4 DEF XReadGroup, TypeOK
    <2>6. ASSUME NEW m \in Ids
          PROVE  OnceAt(m)'
      <3>1. OnceAt(m) /\ handled'[m] = handled[m] /\ claimed \subseteq claimed'
        BY <1>2 DEF HandledOnce
      <3>2. CASE m \in D
        <4>1. handled'[m] = 0 /\ \A k \in Nodes : m \in batch'[k] => k = n
          BY <3>1, <3>2, <2>1, <2>3, <1>1, DeliveredOnce DEF OnceAt
        <4>2. ~(m > group')
          BY <3>2, <2>1, <2>5, StreamerAssumption DEF TypeOK, Ids
        <4> QED
          BY <4>1, <4>2 DEF OnceAt
      <3>3. CASE m \notin D
        BY <3>1, <3>3, <2>1, <2>3, <2>5, <1>1, DeliveredOnce, OnceOther
      <3> QED
        BY <3>2, <3>3
    <2>7. ASSUME NEW m \in Ids
          PROVE  SafeAt(m)'
      <3>1. pending[m] # NoNode => pending'[m] # NoNode
        BY <2>2, StreamerAssumption
      <3>2. m \in entries /\ m > group => pending'[m] # NoNode
        BY <2>2, StreamerAssumption DEF Undelivered
      <3>3. SafeAt(m) /\ hurt \subseteq hurt'
        BY <2>3, EntriesSafe
      <3> QED
        BY <3>1, <3>2, <3>3, <1>2, <1>4 DEF SafeAt
    <2> QED
      BY <2>4, <2>6, <2>7, EntriesSafe DEF HandledOnce
  <1> QED
    BY <1>3, <1>4 DEF ReadFromStream

(* A node hands a message over.                                            *)
LEMMA HandlerStep ==
    ASSUME TypeOK, TypeOK', InHand, HandledOnce, NotLost, NEW n \in Nodes, Handler(n)
    PROVE  InHand' /\ HandledOnce' /\ NotLost'
  <1> PICK c : c = Current(n)
    OBVIOUS
  <1>1. c \in Ids /\ c \in batch[n] /\ reader[n] = "handle"
    BY CurrentIn DEF Handler, In, Handling
  <1>2. /\ UNCHANGED <<published, entries, group, born, pending, batch, claimed, hurt, dropped>>
        /\ \A k \in Nodes : Current(k)' = Current(k)
    BY DEF Handler, redis, work, Current
  <1>3. reader'[n] = "ack" /\ \A k \in Nodes : k # n => reader'[k] = reader[k]
    BY DEF Handler, Goto, TypeOK
  <1>4. /\ handled'[c] = handled[c] + 1 /\ handled[c] \in Nat
        /\ \A m \in Ids : m # c => handled'[m] = handled[m]
        /\ \A m \in Ids : handled'[m] >= handled[m]
    BY <1>1 DEF Handler, TypeOK
  <1>5. ASSUME NEW k \in Nodes
        PROVE  InHandAt(k)'
    <2>1. InHandAt(k)
      BY DEF InHand
    <2>2. CASE k # n
      BY <2>1, <2>2, <1>2, <1>3, <1>4, InHandOther
    <2>3. CASE k = n
      <3>1. handled'[c] > 0
        BY <1>4
      <3>2. \A m \in Ids : handled'[m] = 0 => handled[m] = 0
        BY <1>4
      <3> QED
        BY <3>1, <3>2, <2>1, <2>3, <1>1, <1>2, <1>3 DEF InHandAt, Handling
    <2> QED
      BY <2>2, <2>3
  <1>6. ASSUME NEW m \in Ids
        PROVE  OnceAt(m)'
    <2>1. OnceAt(m) /\ group' >= group
      BY <1>2 DEF HandledOnce, TypeOK
    <2>2. CASE m # c
      <3>1. \A k \in Nodes : Awaits(k, m)' => Awaits(k, m)
        BY <2>2, <1>1, <1>2, <1>3 DEF Awaits
      <3> QED
        BY <2>1, <2>2, <3>1, <1>2, <1>4, OnceOther
    <2>3. CASE m = c
      <3>1. ~(m > group) /\ Awaits(n, m) /\ \A k \in Nodes : Awaits(k, m)' => k # n
        BY <2>1, <2>3, <1>1, <1>2, <1>3 DEF OnceAt, Awaits
      <3>2. m \notin claimed => handled[m] = 0 /\ \A k \in Nodes : m \in batch[k] => k = n
        BY <2>1, <2>3, <3>1, <1>1 DEF OnceAt
      <3>3. m \notin claimed => handled'[m] <= 1
        BY <3>2, <2>3, <1>4
      <3>4. m \notin claimed => \A k \in Nodes : ~Awaits(k, m)'
        BY <3>1, <3>2, <1>2 DEF Awaits
      <3> QED
        BY <3>1, <3>2, <3>3, <3>4, <1>2 DEF OnceAt
    <2> QED
      BY <2>2, <2>3
  <1>7. ASSUME NEW m \in Ids
        PROVE  SafeAt(m)'
    BY <1>2, <1>4, SafeOther, EntriesSafe
  <1> QED
    BY <1>5, <1>6, <1>7, EntriesSafe DEF InHand, HandledOnce

(* handleRange goes on after an entry that was handled or has failed.      *)
LEMMA Continued ==
    ASSUME TypeOK, TypeOK', InHand, HandledOnce, NEW n \in Nodes, Handling(n), Continue(n),
           NEW c \in Ids, c = Current(n), UNCHANGED <<group, handled>>,
           hurt \subseteq hurt', handled[c] > 0 \/ c \in hurt',
           \A m \in Ids : pending'[m] = pending[m] \/ pending'[m] = NoNode
    PROVE  InHand' /\ HandledOnce'
  <1>1. /\ batch'[n] = batch[n] \ {c} /\ (~Handling(n)' => batch'[n] = {})
        /\ reader'[n] # "ack" /\ reader[n] # "dead" /\ UNCHANGED claimed
        /\ \A k \in Nodes : k # n => batch'[k] = batch[k] /\ reader'[k] = reader[k]
    BY ContinueStep DEF Handling
  <1>2. \A m \in Ids : handled[m] \in Nat /\ handled'[m] >= handled[m]
    BY DEF TypeOK
  <1>3. \A m \in Ids, k \in Nodes : pending'[m] = k => pending[m] = k
    BY StreamerAssumption
  <1>4. ASSUME NEW k \in Nodes
        PROVE  InHandAt(k)'
    <2>1. InHandAt(k)
      BY DEF InHand
    <2>2. CASE k # n
      BY <2>1, <2>2, <1>1, <1>2, <1>3, InHandOther
    <2>3. CASE k = n
      <3>1. \A m \in Ids : pending'[m] = n /\ handled'[m] = 0 => m \in hurt \cup batch[n] /\ handled[m] = 0
        BY <2>1, <2>3, <1>1, <1>3 DEF InHandAt
      <3>2. handled[c] = 0 => c \in hurt'
        BY <1>2
      <3>3. \A m \in Ids : pending'[m] = n /\ handled'[m] = 0 => m \in hurt' \cup batch'[n]
        BY <3>1, <3>2, <1>1
      <3> QED
        BY <3>3, <2>3, <1>1 DEF InHandAt
    <2> QED
      BY <2>2, <2>3
  <1>5. ASSUME NEW m \in Ids
        PROVE  OnceAt(m)'
    <2>1. OnceAt(m) /\ group' >= group
      BY DEF HandledOnce, TypeOK
    <2>2. \A k \in Nodes : m \in batch'[k] => m \in batch[k]
      BY <1>1
    <2>3. \A k \in Nodes : Awaits(k, m)' => Awaits(k, m)
      BY <1>1 DEF Awaits, Current
    <2> QED
      BY <2>1, <2>2, <2>3, <1>1, OnceOther
  <1> QED
    BY <1>4, <1>5 DEF InHand, HandledOnce

(* The handler fails, and the node goes on.                                *)
LEMMA HandlerFailsStep ==
    ASSUME TypeOK, TypeOK', InHand, HandledOnce, NotLost, NEW n \in Nodes, HandlerFails(n)
    PROVE  InHand' /\ HandledOnce' /\ NotLost'
  <1> PICK c : c = Current(n)
    OBVIOUS
  <1>1. Handling(n) /\ Continue(n) /\ c \in Ids
    BY CurrentIn DEF HandlerFails, In, Handling
  <1>2. UNCHANGED <<published, entries, group, born, pending, handled>> /\ hurt' = hurt \cup {c}
    BY DEF HandlerFails, redis
  <1>3. InHand' /\ HandledOnce'
    BY <1>1, <1>2, Continued
  <1>4. UNCHANGED dropped
    BY <1>1 DEF Continue
  <1>5. ASSUME NEW m \in Ids
        PROVE  SafeAt(m)'
    <2>1. handled'[m] >= handled[m]
      BY <1>2 DEF TypeOK
    <2> QED
      BY <2>1, <1>2, <1>4, SafeOther, EntriesSafe
  <1> QED
    BY <1>3, <1>5, EntriesSafe

(* A node acknowledges and deletes a message.                              *)
LEMMA AckStep ==
    ASSUME TypeOK, TypeOK', InHand, HandledOnce, NotLost, NEW n \in Nodes, Ack(n)
    PROVE  InHand' /\ HandledOnce' /\ NotLost'
  <1> PICK c : c = Current(n)
    OBVIOUS
  <1>1. Handling(n) /\ Continue(n) /\ c \in Ids
    BY CurrentIn DEF Ack, In, Handling
  <1>2. handled[c] > 0
    BY DEF Ack, In, InHand, InHandAt
  <1>3. UNCHANGED <<published, group, born, handled, hurt>>
    BY DEF Ack, XAck, redis
  <1>4. /\ \A m \in Ids : m # c => pending'[m] = pending[m]
        /\ pending'[c] = pending[c] \/ pending'[c] = NoNode
        /\ entries \ {c} \subseteq entries'
    BY <1>1 DEF Ack, XAck, XDel, redis, TypeOK
  <1>5. InHand' /\ HandledOnce'
    BY <1>1, <1>2, <1>3, <1>4, Continued
  <1>6. UNCHANGED dropped
    BY <1>1 DEF Continue
  <1>7. ASSUME NEW m \in Ids
        PROVE  SafeAt(m)'
    <2>1. handled'[m] >= handled[m]
      BY <1>3 DEF TypeOK
    <2>2. m = c => handled'[m] > 0
      BY <1>2, <1>3
    <2> QED
      BY <2>1, <2>2, <1>3, <1>4, <1>6, SafeOther, EntriesSafe
  <1> QED
    BY <1>5, <1>7, EntriesSafe

(* A consumer that is deleted has ended its loop, so it has no batch.      *)
LEMMA DeleteConsumerStep ==
    ASSUME TypeOK, TypeOK', InHand, HandledOnce, NotLost, NEW n \in Nodes, DeleteConsumer(n)
    PROVE  InHand' /\ HandledOnce' /\ NotLost'
  <1>1. UNCHANGED <<reader, batch>>
    BY DEF DeleteConsumer, work
  <1>2. CASE UNCHANGED <<redis, history>>
    BY <1>1, <1>2, Elsewhere DEF redis, history
  <1>3. CASE XGroupDelConsumer(n)
    <2>1. UNCHANGED <<published, entries, group, born, handled, claimed, hurt>>
      BY <1>3 DEF XGroupDelConsumer
    <2>2. /\ \A m \in Ids : pending'[m] = IF pending[m] = n THEN NoNode ELSE pending[m]
          /\ dropped' = dropped \cup {m \in Ids : pending[m] = n /\ handled[m] = 0}
      BY <1>3 DEF XGroupDelConsumer
    <2>3. \A m \in Ids : handled[m] \in Nat /\ handled'[m] >= handled[m]
      BY <2>1 DEF TypeOK
    <2>4. ASSUME NEW k \in Nodes
          PROVE  InHandAt(k)'
      <3>1. \A m \in Ids : pending'[m] = k => pending[m] = k
        BY <2>2, StreamerAssumption
      <3> QED
        BY <3>1, <2>1, <2>3, <1>1, InHandOther DEF InHand
    <2>5. ASSUME NEW m \in Ids
          PROVE  OnceAt(m)'
      <3>1. \A k \in Nodes : Awaits(k, m)' => Awaits(k, m)
        BY <1>1 DEF Awaits, Current
      <3>2. OnceAt(m) /\ group' >= group
        BY <2>1 DEF HandledOnce, TypeOK
      <3> QED
        BY <3>1, <3>2, <2>1, <1>1, OnceOther
    <2>6. ASSUME NEW m \in Ids
          PROVE  SafeAt(m)'
      <3>1. batch[n] = {} /\ reader[n] = "finished"
        BY DEF DeleteConsumer, In, InHand, InHandAt, Handling
      <3>2. pending[m] = n /\ handled[m] = 0 => m \in dropped' \cap hurt'
        BY <3>1, <2>1, <2>2 DEF InHand, InHandAt
      <3>3. pending[m] # NoNode => pending'[m] # NoNode \/ handled'[m] > 0
                                     \/ m \in dropped' \cap hurt'
        BY <3>2, <2>1, <2>2, <2>3
      <3> QED
        BY <3>3, <2>1, <2>2, <2>3, SafeOther, EntriesSafe
    <2> QED
      BY <2>4, <2>5, <2>6, EntriesSafe DEF InHand, HandledOnce
  <1> QED
    BY <1>2, <1>3 DEF DeleteConsumer

(* What a crashed consumer had is still pending.                           *)
LEMMA CrashStep ==
    ASSUME TypeOK, TypeOK', InHand, HandledOnce, NotLost, NEW n \in Nodes, Crash(n)
    PROVE  InHand' /\ HandledOnce' /\ NotLost'
  <1>1. UNCHANGED <<published, entries, group, born, pending, handled, claimed, hurt, dropped>>
    BY DEF Crash, redis, history
  <1>2. /\ batch'[n] = {} /\ reader'[n] = "dead"
        /\ \A k \in Nodes : k # n => batch'[k] = batch[k] /\ reader'[k] = reader[k]
    BY DEF Crash, Goto, TypeOK
  <1>3. \A m \in Ids : handled'[m] >= handled[m]
    BY <1>1 DEF TypeOK
  <1>4. ASSUME NEW k \in Nodes
        PROVE  InHandAt(k)'
    <2>1. CASE k # n
      BY <2>1, <1>1, <1>2, <1>3, InHandOther DEF InHand
    <2>2. CASE k = n
      BY <2>2, <1>2 DEF InHandAt, Handling
    <2> QED
      BY <2>1, <2>2
  <1>5. ASSUME NEW m \in Ids
        PROVE  OnceAt(m)'
    <2>1. OnceAt(m) /\ group' >= group
      BY <1>1 DEF HandledOnce, TypeOK
    <2>2. \A k \in Nodes : Awaits(k, m)' => Awaits(k, m)
      BY <1>2 DEF Awaits, Current
    <2>3. \A k \in Nodes : m \in batch'[k] => m \in batch[k]
      BY <1>2
    <2> QED
      BY <2>1, <2>2, <2>3, <1>1, OnceOther
  <1>6. NotLost'
    BY <1>1 DEF NotLost
  <1> QED
    BY <1>4, <1>5, <1>6 DEF InHand, HandledOnce

-----------------------------------------------------------------------------

(* The invariant holds at the start.                                       *)
LEMMA StreamerInit == Init => InHand /\ HandledOnce /\ NotLost
  <1> SUFFICES ASSUME Init
               PROVE  InHand /\ HandledOnce /\ NotLost
    OBVIOUS
  <1>1. InHand
    BY StreamerAssumption DEF Init, InHand, InHandAt, Handling
  <1>2. HandledOnce
    BY DEF Init, HandledOnce, OnceAt, Awaits
  <1>3. NotLost
    BY DEF Init, NotLost
  <1> QED
    BY <1>1, <1>2, <1>3

(* Every step keeps the invariant.                                         *)
LEMMA StreamerNext ==
    TypeOK /\ InHand /\ HandledOnce /\ NotLost /\ [Next]_vars
        => TypeOK' /\ InHand' /\ HandledOnce' /\ NotLost'
  <1> SUFFICES ASSUME TypeOK, InHand, HandledOnce, NotLost, [Next]_vars
               PROVE  TypeOK' /\ InHand' /\ HandledOnce' /\ NotLost'
    OBVIOUS
  <1>0. TypeOK'
    BY TypeNext
  <1> DEFINE quiet == <<published, entries, group, born, batch, handled, claimed, hurt, pending,
                        dropped>>
             Idles == \A n \in Nodes : \/ reader'[n] = reader[n]
                                       \/ ~Handling(n) /\ reader[n] # "dead" /\ ~Handling(n)'
             Done == InHand' /\ HandledOnce' /\ NotLost'
  <1>1. ASSUME NEW n \in Nodes,
               InitClient(n) \/ StopConsuming(n) \/ GiveUp(n) \/ MaybeReconnect(n) \/ Shutdown(n)
        PROVE  Done
    <2>1. UNCHANGED quiet
      BY <1>1 DEF InitClient, StopConsuming, GiveUp, MaybeReconnect, Shutdown, redis, work, history
    <2>2. Idles
      BY <1>1 DEF InitClient, StopConsuming, GiveUp, MaybeReconnect, Shutdown, Goto, In,
                  Handling, TypeOK
    <2> QED
      BY <2>1, <2>2, <1>0, Elsewhere
  <1>2. ASSUME (\E m \in Ids : GoesIdle(m)) \/ UNCHANGED vars
        PROVE  Done
    <2>1. UNCHANGED quiet /\ UNCHANGED reader
      BY <1>2 DEF GoesIdle, vars, redis, work, history
    <2> QED
      BY <2>1, <1>0, Elsewhere
  <1> HIDE DEF Done
  <1>3. Publish => Done
    BY <1>0, PublishStep DEF Done
  <1>4. ASSUME NEW n \in Nodes
        PROVE  /\ CreateGroup(n) => Done
               /\ Autoclaim(n) => Done
               /\ ReadFromStream(n) => Done
               /\ Handler(n) => Done
               /\ HandlerFails(n) => Done
               /\ Ack(n) => Done
               /\ DeleteConsumer(n) => Done
               /\ Crash(n) => Done
    BY <1>0, CreateGroupStep, AutoclaimStep, ReadFromStreamStep, HandlerStep, HandlerFailsStep,
       AckStep, DeleteConsumerStep, CrashStep DEF Done
  <1>5. Done
    BY <1>1, <1>2, <1>3, <1>4 DEF Next, Reader
  <1> QED
    BY <1>0, <1>5 DEF Done

(* The inductive invariant of the consumers always holds.                  *)
LEMMA StreamerInvariant == Spec => [](TypeOK /\ InHand /\ HandledOnce /\ NotLost)
  <1>1. Init => TypeOK /\ InHand /\ HandledOnce /\ NotLost
    BY TypeInit, StreamerInit
  <1> QED
    BY <1>1, StreamerNext, PTL DEF Spec

(* From the creation of the group on, a publication has been handled, or   *)
(* can still be read or claimed, or was dropped by a deleted consumer      *)
(* after its handler had failed: with any number of nodes, crashes, lost   *)
(* answers and shutdowns (readFromStream, autoclaimMessages, handleRange,  *)
(* Shutdown).                                                              *)
THEOREM PublicationsAreNotLost == Spec => []NotLost
  BY StreamerInvariant, PTL

(* Only a publication that was reclaimed is handled more than once.        *)
THEOREM HandledOnceUnlessClaimed == Spec => []OnceUnlessClaimed
  <1>1. TypeOK /\ HandledOnce => OnceUnlessClaimed
    BY DEF TypeOK, HandledOnce, OnceAt, OnceUnlessClaimed
  <1> QED
    BY <1>1, StreamerInvariant, PTL
=============================================================================
