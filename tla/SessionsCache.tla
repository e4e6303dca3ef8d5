--------------------------- MODULE SessionsCache ---------------------------
(***************************************************************************)
(* The cache of restorable sessions in the in-memory broker                *)
(* (broker/memory.go) and the priority queue that expires it               *)
(* (utils/priority_queue.go).  A cached session has one item in the heap,  *)
(* and the item remembers its place there, so that a deadline can be moved *)
(* from the middle: what expires, and when, depends on the remembered      *)
(* places staying right through all pushes, moves and pops.                *)
(*                                                                         *)
(* An item is named by its session.  Sift-up and sift-down are those of    *)
(* container/heap.  An operation holds sessionsMu from its first step to   *)
(* its last, and every round of a loop is a step of its own; what it holds *)
(* the mutex for is in op.                                                 *)
(***************************************************************************)
EXTENDS Integers, Sequences

CONSTANTS
    Sessions,
    SessionsTTL,
    MaxTime        \* bound: the clock

(* As the clock counts.                                                    *)
CacheAssumption == SessionsTTL \in Nat \ {0} /\ MaxTime \in Nat

VARIABLES
    now,
    cached,        \* the keys of b.sessions
    heap,          \* b.expireSessions: items in the order of the slice
    priority,      \* each item's deadline
    index,         \* each item's index, 0 if it is not in the heap
    op,            \* what holds the mutex, and how far its loop is
    until,         \* history: when each session was to expire, 0 if never committed
    swept          \* history: when the cache was last expired

vars == <<now, cached, heap, priority, index, op, until, swept>>

Free == [at |-> "free"]

Init ==
    /\ now = 1 /\ swept = 0
    /\ cached = {} /\ heap = <<>>
    /\ priority = [s \in Sessions |-> 0]
    /\ index = [s \in Sessions |-> 0]
    /\ op = Free
    /\ until = [s \in Sessions |-> 0]

----------------------------------------------------------------------------
(* PriorityQueue and container/heap *)

Less(i, j) == priority[heap[i]] < priority[heap[j]]

(* Faulty variant: only one of the two items learns its new place.         *)
SwapOne(i, j) ==
    /\ heap' = [heap EXCEPT ![i] = heap[j], ![j] = heap[i]]
    /\ index' = [index EXCEPT ![heap[j]] = i]

Swap(i, j) ==
    /\ heap' = [heap EXCEPT ![i] = heap[j], ![j] = heap[i]]
    /\ index' = [index EXCEPT ![heap[j]] = i, ![heap[i]] = j]

(* up from j; down from i within the first n places, which started at      *)
(* from, for Fix or, if pop, for Pop.                                      *)
Up(j) == [at |-> "up", j |-> j]
Down(i, n, from, pop) == [at |-> "down", i |-> i, n |-> n, from |-> from, pop |-> pop]

UpStep ==
    /\ op.at = "up"
    /\ IF op.j = 1 \/ ~Less(op.j, op.j \div 2)
       THEN op' = Free /\ UNCHANGED <<heap, index>>
       ELSE Swap(op.j \div 2, op.j) /\ op' = Up(op.j \div 2)
    /\ UNCHANGED <<now, cached, priority, until, swept>>

(* The smaller child of i.                                                 *)
Child(i, n) == IF 2 * i + 1 <= n /\ Less(2 * i + 1, 2 * i) THEN 2 * i + 1 ELSE 2 * i

Sinks == 2 * op.i <= op.n /\ Less(Child(op.i, op.n), op.i)

DownStep ==
    /\ op.at = "down" /\ Sinks
    /\ Swap(op.i, Child(op.i, op.n))
    /\ op' = Down(Child(op.i, op.n), op.n, op.from, op.pop)
    /\ UNCHANGED <<now, cached, priority, until, swept>>

(* Fix goes up only if it did not go down.                                 *)
FixEnds ==
    /\ op.at = "down" /\ ~Sinks /\ ~op.pop
    /\ op' = IF op.i = op.from THEN Up(op.i) ELSE Free
    /\ UNCHANGED <<now, cached, heap, priority, index, until, swept>>

PushItem(s, deadline) ==
    LET n == Len(heap) + 1
    IN /\ heap' = Append(heap, s)
       /\ priority' = [priority EXCEPT ![s] = deadline]
       /\ index' = [index EXCEPT ![s] = n]
       /\ op' = Up(n)

Update(s, deadline) ==
    /\ priority' = [priority EXCEPT ![s] = deadline]
    /\ op' = Down(index[s], Len(heap), index[s], FALSE)
    /\ UNCHANGED <<heap, index>>

Peek == heap[1]

(* Pop of container/heap, up to its down.                                  *)
PopItem ==
    /\ Swap(1, Len(heap))
    /\ op' = Down(1, Len(heap) - 1, 1, TRUE)

----------------------------------------------------------------------------
(* The broker *)

CommitSession(s) ==
    /\ op = Free
    /\ IF s \in cached THEN Update(s, now + SessionsTTL) ELSE PushItem(s, now + SessionsTTL)
    /\ cached' = cached \cup {s}
    /\ until' = [until EXCEPT ![s] = now + SessionsTTL]
    /\ UNCHANGED <<now, swept>>

TouchSession(s) ==
    /\ op = Free
    /\ s \in cached
    /\ Update(s, now + SessionsTTL)
    /\ until' = [until EXCEPT ![s] = now + SessionsTTL]
    /\ UNCHANGED <<now, cached, swept>>

(* expireSessionsCache: the loop pops while the first item is due.         *)
Expire ==
    /\ op = Free
    /\ op' = [at |-> "expire"]
    /\ swept' = now
    /\ UNCHANGED <<now, cached, heap, priority, index, until>>

ExpireNext ==
    /\ op.at = "expire"
    /\ IF heap = <<>> \/ priority[Peek] > swept
       THEN op' = Free /\ UNCHANGED <<heap, index>>
       ELSE PopItem
    /\ UNCHANGED <<now, cached, priority, until, swept>>

(* Pop removes the last item; its session is deleted.                      *)
PopEnds ==
    /\ op.at = "down" /\ ~Sinks /\ op.pop
    /\ LET item == heap[Len(heap)]
       IN /\ heap' = SubSeq(heap, 1, Len(heap) - 1)
          /\ index' = [index EXCEPT ![item] = 0]
          /\ cached' = cached \ {item}
    /\ op' = [at |-> "expire"]
    /\ UNCHANGED <<now, priority, until, swept>>

Advance ==
    /\ now < MaxTime
    /\ now' = now + 1
    /\ UNCHANGED <<cached, heap, priority, index, op, until, swept>>

Next ==
    \/ \E s \in Sessions : CommitSession(s) \/ TouchSession(s)
    \/ Expire \/ ExpireNext \/ PopEnds
    \/ UpStep \/ DownStep \/ FixEnds
    \/ Advance

Spec == Init /\ [][Next]_vars

----------------------------------------------------------------------------
(* Properties *)

(* When the mutex is free: a session can be restored until its TTL has     *)
(* passed since it was last committed or touched, and not after the        *)
(* expiration that follows.  No session falls to the deadline of another,  *)
(* or to its own old one, and none is left behind in the heap.             *)
RestorableUntilDeadline ==
    op = Free => \A s \in Sessions : s \in cached <=> until[s] > swept
=============================================================================
