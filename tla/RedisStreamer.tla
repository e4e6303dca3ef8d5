--------------------------- MODULE RedisStreamer ---------------------------
(***************************************************************************)
(* The consumers of a Redis stream (redis/streamer.go), through which the  *)
(* "redisx" broadcaster (broadcast/redis.go) takes publications: every     *)
(* publication is handled by one node of the cluster, and redelivered when *)
(* it is not acknowledged in time.  One consumer per node; all belong to   *)
(* one consumer group.                                                     *)
(*                                                                         *)
(* One step is one command to Redis, or one call of the handler.  Redis is *)
(* modelled by what the commands do: XADD, XGROUP CREATE, XREADGROUP,      *)
(* XAUTOCLAIM, XACK, XDEL and XGROUP DELCONSUMER.  A command can fail      *)
(* before Redis has run it or after, when only the answer is lost.         *)
(***************************************************************************)
EXTENDS Integers, FiniteSetsExt

CONSTANTS
    Nodes,
    NoNode,
    MaxReconnectAttempts,
    MaxEntries,   \* bound: publications
    MaxFaults     \* bound: failed commands and handlers, crashes

ASSUME StreamerAssumption ==
    /\ NoNode \notin Nodes
    /\ MaxReconnectAttempts \in Nat /\ MaxEntries \in Nat /\ MaxFaults \in Nat

Ids == 1 .. MaxEntries

VARIABLES
    published,   \* the last id of the stream
    entries,     \* the ids that are in it: added and not deleted
    group,       \* the group's last delivered id, -1 while there is no group
    pending,     \* each id's consumer while it is delivered, not acknowledged
    idle,        \* pending ids that were delivered block_ms ago
    reader,      \* each node: where its runReader is
    batch,       \* what handleRange still has to handle, in the order of ids
    reclaimed,   \* whether the batch comes from XAUTOCLAIM
    client,      \* s.client is not nil
    attempts,    \* reconnectAttempt
    stopping,    \* Shutdown: "no", "waiting" for finishedCh, "done"
    handled,     \* history: how often the handler has succeeded with an id
    claimed,     \* history: ids that were reclaimed
    hurt,        \* history: ids whose handler failed, or whose delivery got lost
    dropped,     \* history: unhandled ids that DELCONSUMER made unclaimable
    born,        \* history: the last id when the group was created
    faults

redis == <<published, entries, group, pending, idle, born>>
work == <<batch, reclaimed>>
connection == <<client, attempts>>
history == <<handled, claimed, hurt, dropped>>
vars == <<redis, reader, work, connection, stopping, history, faults>>

Init ==
    /\ published = 0 /\ entries = {} /\ group = -1
    /\ pending = [m \in Ids |-> NoNode] /\ idle = {}
    /\ reader = [n \in Nodes |-> "init"]
    /\ batch = [n \in Nodes |-> {}]
    /\ reclaimed = [n \in Nodes |-> FALSE]
    /\ client = [n \in Nodes |-> FALSE]
    /\ attempts = [n \in Nodes |-> 0]
    /\ stopping = [n \in Nodes |-> "no"]
    /\ handled = [m \in Ids |-> 0]
    /\ claimed = {} /\ hurt = {} /\ dropped = {}
    /\ born = 0
    /\ faults = 0

Fault == faults < MaxFaults /\ faults' = faults + 1
Goto(n, place) == reader' = [reader EXCEPT ![n] = place]
In(n, place) == reader[n] = place
Current(n) == Min(batch[n])

-----------------------------------------------------------------------------
(* What Redis does.                                                        *)

(* XADD, by the application.                                               *)
Publish ==
    /\ published < MaxEntries
    /\ published' = published + 1
    /\ entries' = entries \cup {published'}
    /\ UNCHANGED <<group, pending, idle, born, reader, work, connection, stopping,
                   history, faults>>

(* XGROUP CREATE ... $ MKSTREAM: BUSYGROUP when the group exists.          *)
XGroupCreate ==
    /\ group' = IF group = -1 THEN published ELSE group
    /\ born' = IF group = -1 THEN published ELSE born
    /\ UNCHANGED <<published, entries, pending, idle>>

(* XREADGROUP ... >: everything that was never delivered to the group.     *)
Undelivered == {m \in entries : m > group}
XReadGroup(n) ==
    /\ group' = published
    /\ pending' = [m \in Ids |-> IF m \in Undelivered THEN n ELSE pending[m]]
    /\ UNCHANGED <<published, entries, idle, born>>

(* XAUTOCLAIM min-idle-time block_ms: also the consumer's own.             *)
Claimable == {m \in entries : pending[m] # NoNode /\ m \in idle}
XAutoClaim(n) ==
    /\ pending' = [m \in Ids |-> IF m \in Claimable THEN n ELSE pending[m]]
    /\ idle' = idle \ Claimable
    /\ UNCHANGED <<published, entries, group, born>>

(* XACK, whoever the entry is pending for; XDEL.                           *)
XAck(m) ==
    /\ pending' = [pending EXCEPT ![m] = NoNode]
    /\ idle' = idle \ {m}
    /\ UNCHANGED <<published, group, born>>
XDel(m) ==
    entries' = entries \ {m}

(* XGROUP DELCONSUMER: what was pending for it cannot be claimed any more. *)
XGroupDelConsumer(n) ==
    /\ pending' = [m \in Ids |-> IF pending[m] = n THEN NoNode ELSE pending[m]]
    /\ idle' = {m \in idle : pending[m] # n}
    /\ dropped' = dropped \cup {m \in Ids : pending[m] = n /\ handled[m] = 0}
    /\ UNCHANGED <<published, entries, group, born, handled, claimed, hurt>>

(* block_ms pass since an entry was delivered.                             *)
GoesIdle(m) ==
    /\ pending[m] # NoNode /\ m \notin idle
    /\ idle' = idle \cup {m}
    /\ UNCHANGED <<published, entries, group, pending, born, reader, work, connection,
                   stopping, history, faults>>

-----------------------------------------------------------------------------
(* runReader.                                                              *)

(* initClient: connects, unless there is a client.                         *)
InitClient(n) ==
    /\ In(n, "init")
    /\ \/ /\ Goto(n, "group")
          /\ client' = [client EXCEPT ![n] = TRUE]
          /\ attempts' = [attempts EXCEPT ![n] = 0]
       \/ /\ Goto(n, "failed")
          /\ UNCHANGED connection
    /\ UNCHANGED <<redis, work, stopping, history, faults>>

(* The group.  An answer of Redis other than BUSYGROUP means reconnecting; *)
(* an error that Redis did not send is ignored.                            *)
CreateGroup(n) ==
    /\ In(n, "group")
    /\ \/ XGroupCreate /\ Goto(n, "top") /\ UNCHANGED faults
       \/ Fault /\ Goto(n, "top") /\ UNCHANGED redis
       \/ Fault /\ Goto(n, "failed") /\ UNCHANGED redis
    /\ UNCHANGED <<work, connection, stopping, history>>

(* Faulty variant: the loop does not look at shutdownCh.                   *)
StopConsumingNever(n) ==
    /\ In(n, "top") /\ stopping[n] = "waiting"
    /\ Goto(n, "read")
    /\ UNCHANGED <<redis, work, connection, stopping, history, faults>>

(* The top of the loop: shutdownCh is closed, so finishedCh is.            *)
StopConsuming(n) ==
    /\ In(n, "top") /\ stopping[n] = "waiting"
    /\ Goto(n, "finished")
    /\ UNCHANGED <<redis, work, connection, stopping, history, faults>>

Handle(n, M, fromClaim) ==
    /\ batch' = [batch EXCEPT ![n] = M]
    /\ reclaimed' = [reclaimed EXCEPT ![n] = fromClaim]

(* Faulty variant: what was reclaimed is not handled.                      *)
AutoclaimOnly(n) ==
    /\ In(n, "top") /\ stopping[n] # "waiting"
    /\ group # -1
    /\ XAutoClaim(n)
    /\ claimed' = claimed \cup Claimable
    /\ Goto(n, "read")
    /\ UNCHANGED <<work, connection, stopping, handled, hurt, dropped, faults>>

(* autoclaimMessages, if the last time was block_ms ago; which it is now   *)
(* and then.  Without a group Redis answers with an error.                 *)
Autoclaim(n) ==
    /\ In(n, "top") /\ stopping[n] # "waiting"
    /\ \/ /\ group # -1
          /\ XAutoClaim(n)
          /\ claimed' = claimed \cup Claimable
          /\ Handle(n, Claimable, Claimable # {})
          /\ Goto(n, IF Claimable = {} THEN "read" ELSE "handle")
          /\ UNCHANGED <<hurt, faults>>
       \/ /\ group # -1
          /\ Fault
          /\ XAutoClaim(n)
          /\ claimed' = claimed \cup Claimable
          /\ hurt' = hurt \cup Claimable
          /\ Goto(n, "failed")
          /\ UNCHANGED work
       \/ /\ IF group = -1 THEN UNCHANGED faults ELSE Fault
          /\ Goto(n, "failed")
          /\ UNCHANGED <<redis, work, claimed, hurt>>
    /\ UNCHANGED <<connection, stopping, handled, dropped>>

(* Faulty variant: Id("0") for Id(">"), the consumer's own pending entries.*)
ReadFromStreamStart(n) ==
    /\ In(n, "read") \/ (In(n, "top") /\ stopping[n] # "waiting")
    /\ LET own == {m \in entries : pending[m] = n} IN
       /\ group # -1
       /\ XReadGroup(n)
       /\ Handle(n, Undelivered \cup own, FALSE)
       /\ Goto(n, IF Undelivered \cup own = {} THEN "top" ELSE "handle")
    /\ UNCHANGED <<connection, stopping, history, faults>>

(* readFromStream, which returns with nothing after block_ms.              *)
ReadFromStream(n) ==
    /\ In(n, "read") \/ (In(n, "top") /\ stopping[n] # "waiting")
    /\ \/ /\ group # -1
          /\ XReadGroup(n)
          /\ Handle(n, Undelivered, FALSE)
          /\ Goto(n, IF Undelivered = {} THEN "top" ELSE "handle")
          /\ UNCHANGED <<hurt, faults>>
       \/ /\ group # -1
          /\ Fault
          /\ XReadGroup(n)
          /\ hurt' = hurt \cup Undelivered
          /\ Goto(n, "failed")
          /\ UNCHANGED work
       \/ /\ IF group = -1 THEN UNCHANGED faults ELSE Fault
          /\ Goto(n, "failed")
          /\ UNCHANGED <<redis, work, hurt>>
    /\ UNCHANGED <<connection, stopping, handled, claimed, dropped>>

(* handleRange: the handler, and the acknowledgement of what it took.      *)
Continue(n) ==
    /\ batch' = [batch EXCEPT ![n] = @ \ {Current(n)}]
    /\ Goto(n, IF batch[n] # {Current(n)} THEN "handle"
               ELSE IF reclaimed[n] THEN "read" ELSE "top")
    /\ reclaimed' = [reclaimed EXCEPT ![n] = @ /\ batch[n] # {Current(n)}]
    /\ UNCHANGED <<connection, stopping, claimed, dropped>>

Handler(n) ==
    /\ In(n, "handle")
    /\ Goto(n, "ack")
    /\ handled' = [handled EXCEPT ![Current(n)] = @ + 1]
    /\ UNCHANGED <<redis, work, connection, stopping, claimed, hurt, dropped, faults>>

(* Faulty variant: a message whose handler failed is acknowledged.         *)
HandlerFailsAcked(n) ==
    /\ In(n, "handle")
    /\ Fault
    /\ hurt' = hurt \cup {Current(n)}
    /\ XAck(Current(n)) /\ XDel(Current(n))
    /\ Continue(n)
    /\ UNCHANGED handled

HandlerFails(n) ==
    /\ In(n, "handle")
    /\ Fault
    /\ hurt' = hurt \cup {Current(n)}
    /\ Continue(n)
    /\ UNCHANGED <<redis, handled>>

(* XACK and XDEL are sent together; the second can fail alone, and errors  *)
(* are logged only.                                                        *)
Ack(n) ==
    /\ In(n, "ack")
    /\ LET m == Current(n) IN
       \/ XAck(m) /\ XDel(m) /\ UNCHANGED faults
       \/ Fault /\ XAck(m) /\ UNCHANGED entries
       \/ Fault /\ UNCHANGED redis
    /\ Continue(n)
    /\ UNCHANGED <<handled, hurt>>

(* maybeReconnect gives up for ever, or sleeps and takes clientMu, which a *)
(* waiting Shutdown holds.                                                 *)
GiveUp(n) ==
    /\ In(n, "failed")
    /\ attempts[n] >= MaxReconnectAttempts
    /\ Goto(n, "finished")
    /\ UNCHANGED <<redis, work, connection, stopping, history, faults>>

MaybeReconnect(n) ==
    /\ In(n, "failed")
    /\ attempts[n] < MaxReconnectAttempts
    /\ stopping[n] # "waiting"
    /\ attempts' = [attempts EXCEPT ![n] = @ + 1]
    /\ client' = [client EXCEPT ![n] = FALSE]
    /\ Goto(n, "init")
    /\ UNCHANGED <<redis, work, stopping, history, faults>>

-----------------------------------------------------------------------------
(* Shutdown, and the end of the process without one.                       *)

(* Without a client Shutdown returns at once, and the reader goes on.      *)
Shutdown(n) ==
    /\ reader[n] # "dead"
    /\ stopping[n] = "no"
    /\ stopping' = [stopping EXCEPT ![n] = IF client[n] THEN "waiting" ELSE "done"]
    /\ UNCHANGED <<redis, reader, work, connection, history, faults>>

DeleteConsumer(n) ==
    /\ stopping[n] = "waiting" /\ In(n, "finished")
    /\ \/ XGroupDelConsumer(n) /\ UNCHANGED faults
       \/ Fault /\ UNCHANGED <<redis, history>>
    /\ stopping' = [stopping EXCEPT ![n] = "done"]
    /\ UNCHANGED <<reader, work, connection>>

(* The process ends and its memory is gone; an inert reader needs no crash.*)
Crash(n) ==
    /\ reader[n] # "dead"
    /\ reader[n] = "finished" => stopping[n] = "waiting"
    /\ Fault
    /\ Goto(n, "dead")
    /\ batch' = [batch EXCEPT ![n] = {}]
    /\ reclaimed' = [reclaimed EXCEPT ![n] = FALSE]
    /\ client' = [client EXCEPT ![n] = FALSE]
    /\ attempts' = [attempts EXCEPT ![n] = 0]
    /\ UNCHANGED <<redis, stopping, history>>

-----------------------------------------------------------------------------

Reader(n) ==
    \/ InitClient(n) \/ CreateGroup(n)
    \/ StopConsuming(n) \/ Autoclaim(n) \/ ReadFromStream(n)
    \/ Handler(n) \/ HandlerFails(n) \/ Ack(n)
    \/ GiveUp(n) \/ MaybeReconnect(n)

Next ==
    \/ Publish
    \/ \E m \in Ids : GoesIdle(m)
    \/ \E n \in Nodes :
          \/ Reader(n)
          \/ Shutdown(n) \/ DeleteConsumer(n) \/ Crash(n)

(* A reader, and a Shutdown that may go on, go on; time passes.            *)
Fairness ==
    /\ WF_vars(\E m \in Ids : GoesIdle(m))
    /\ \A n \in Nodes : WF_vars(Reader(n) \/ DeleteConsumer(n)) /\ SF_vars(Autoclaim(n))

Spec == Init /\ [][Next]_vars /\ Fairness

-----------------------------------------------------------------------------

(* The types of the variables.                                             *)
TypeOK ==
    /\ published \in 0 .. MaxEntries /\ entries \subseteq 1 .. published
    /\ group \in -1 .. published /\ born \in 0 .. published
    /\ pending \in [Ids -> Nodes \cup {NoNode}]
    /\ \A m \in Ids : pending[m] # NoNode => m <= group
    /\ idle \subseteq {m \in Ids : pending[m] # NoNode}
    /\ reader \in [Nodes -> {"init", "group", "top", "read", "handle", "ack",
                             "failed", "finished", "dead"}]
    /\ batch \in [Nodes -> SUBSET Ids]
    /\ \A n \in Nodes : reader[n] \in {"handle", "ack"} => batch[n] # {}
    /\ reclaimed \in [Nodes -> BOOLEAN]
    /\ client \in [Nodes -> BOOLEAN]
    /\ attempts \in [Nodes -> 0 .. MaxReconnectAttempts]
    /\ stopping \in [Nodes -> {"no", "waiting", "done"}]
    /\ handled \in [Ids -> Nat]
    /\ claimed \subseteq Ids /\ hurt \subseteq Ids /\ dropped \subseteq Ids
    /\ faults \in 0 .. MaxFaults

(* A publication is not lost: from the creation of the group on, it has    *)
(* been handled, or it is still to be delivered, or it is pending and can  *)
(* be claimed by any node.  Deleting a consumer at shutdown drops only     *)
(* what the handler had failed with, or a delivery that never arrived:     *)
(* handleRange ends before that.                                           *)
NotLost ==
    \A m \in Ids : born < m /\ m <= published /\ group # -1 =>
        \/ handled[m] > 0
        \/ m \in entries /\ (m > group \/ pending[m] # NoNode)
        \/ m \in dropped \cap hurt

(* "Each message MUST be registered once": a publication is handled again  *)
(* only if it was reclaimed, by a node that had waited for it to be idle.  *)
OnceUnlessClaimed == \A m \in Ids : handled[m] > 1 => m \in claimed

(* Every publication is handled eventually, whatever fails on the way, as  *)
(* long as a node still consumes.                                          *)
Consuming(n) == reader[n] \notin {"finished", "dead"} /\ stopping[n] # "waiting"
EventuallyHandled ==
    \A m \in Ids :
        (published >= m /\ born < m /\ group # -1)
            ~> (handled[m] > 0 \/ m \in dropped \/ \A n \in Nodes : ~Consuming(n))

(* A Shutdown returns: it waits for a reader that stops at the next turn   *)
(* of its loop, unless the connection fails before that.  Then the reader  *)
(* needs the lock that Shutdown holds, and both wait for ever.             *)
ShutdownReturns ==
    \A n \in Nodes :
        stopping[n] = "waiting" ~> (stopping[n] = "done" \/ reader[n] \in {"failed", "dead"})
=============================================================================
