------------------------------- MODULE Queue -------------------------------
(***************************************************************************)
(* utils/queue.go: the growable ring buffer behind every session's write   *)
(* queue.  Every method runs under q.mu, so each is one step; Wait is two, *)
(* because cond.Wait gives the mutex back while the reader is parked.      *)
(*                                                                         *)
(* Items are opaque values with a size.  q.nodes is a function on          *)
(* 0 .. cap-1; the nil slice that Close leaves is the one with cap = 0.    *)
(* A slice expression out of range would end the process: resize records   *)
(* it in panicked instead, and a panicked process takes no further step.   *)
(***************************************************************************)
EXTENDS Integers, Sequences

CONSTANTS
    Items,       \* the values a producer may enqueue
    NoItem,      \* the zero Item[T]
    ItemSize,    \* Item.Size of each value
    MaxSizes,    \* the maxSize arguments Push is called with (0: no limit)
    InitCap      \* initialCapacity

ASSUME QueueAssumption ==
    /\ NoItem \notin Items
    /\ ItemSize \in [Items -> Nat]
    /\ MaxSizes \subseteq Nat
    /\ InitCap \in Nat \ {0}

VARIABLES
    nodes,       \* the backing slice
    cap,         \* len(q.nodes)
    head,        \* index of the oldest item
    tail,        \* index the next item is written to
    cnt,         \* number of items
    size,        \* sum of their sizes
    closed,
    reader,      \* "out" of the queue, "parked" in cond.Wait, or "woken" by a signal
    ret,         \* what the latest call returned
    got,         \* the item the latest Remove returned
    panicked     \* a slice expression went out of range

buffer == <<nodes, cap, head, tail, cnt>>
vars == <<nodes, cap, head, tail, cnt, size, closed, reader, ret, got, panicked>>

Zeroed(n) == [k \in 0 .. n-1 |-> NoItem]

Init ==
    /\ nodes = Zeroed(InitCap)
    /\ cap = InitCap
    /\ head = 0 /\ tail = 0 /\ cnt = 0
    /\ size = 0
    /\ closed = FALSE
    /\ reader = "out"
    /\ ret = "none"
    /\ got = NoItem
    /\ panicked = FALSE

ResizedUnwrapped(b, c, h, t, n) ==
    [k \in 0 .. n-1 |-> IF k < c - h THEN b[h + k] ELSE NoItem]

Resized(b, c, h, t, n) ==
    [k \in 0 .. n-1 |->
        IF h < t
        THEN IF k < t - h THEN b[h + k] ELSE NoItem
        ELSE IF k < c - h THEN b[h + k]
             ELSE IF k - (c - h) < t THEN b[k - (c - h)]
             ELSE NoItem]

ResizePanics(c, h, t, n) == ~(h < t) /\ c - h > n

-----------------------------------------------------------------------------

(* cond.Signal and cond.Broadcast: a parked reader becomes runnable.       *)
Signalled == IF reader = "parked" THEN "woken" ELSE reader

(* The part Add and Push share once the item is accepted.                  *)
Enqueue(i, outcome) ==
    LET full == cnt = cap
        c == IF full THEN 2 * cnt ELSE cap
        b == IF full THEN Resized(nodes, cap, head, tail, c) ELSE nodes
        t == IF full THEN cnt % c ELSE tail
    IN  /\ nodes' = [b EXCEPT ![t] = i]
        /\ cap' = c
        /\ head' = IF full THEN 0 ELSE head
        /\ tail' = (t + 1) % c
        /\ cnt' = cnt + 1
        /\ size' = size + ItemSize[i]
        /\ reader' = Signalled
        /\ ret' = outcome
        /\ panicked' = (full /\ ResizePanics(cap, head, tail, c))
        /\ UNCHANGED <<closed, got>>

Refuse(outcome) ==
    /\ ret' = outcome
    /\ UNCHANGED <<buffer, size, closed, reader, got, panicked>>

clearLocked ==
    /\ closed' = FALSE
    /\ cnt' = 0
    /\ nodes' = Zeroed(InitCap)
    /\ cap' = InitCap
    /\ size' = 0
    /\ head' = 0
    /\ tail' = 0

Add(i) ==
    /\ ~panicked
    /\ \/ closed /\ Refuse("false")
       \/ ~closed /\ Enqueue(i, "true")

Push(i, maxSize) ==
    /\ ~panicked
    /\ \/ closed /\ Refuse("PushClosed")
       \/ /\ ~closed
          /\ maxSize > 0 /\ size >= maxSize
          /\ clearLocked
          /\ ret' = "PushOverflow"
          /\ UNCHANGED <<reader, got, panicked>>
       \/ /\ ~closed
          /\ ~(maxSize > 0 /\ size >= maxSize)
          /\ Enqueue(i, "PushOK")

(* Faulty variant: Close without the broadcast.                            *)
CloseSilently ==
    /\ ~panicked
    /\ closed' = TRUE
    /\ nodes' = Zeroed(0) /\ cap' = 0
    /\ cnt' = 0 /\ size' = 0
    /\ ret' = "none"
    /\ UNCHANGED <<head, tail, reader, got, panicked>>

(* Close leaves q.head and q.tail as they are.                             *)
Close ==
    /\ ~panicked
    /\ closed' = TRUE
    /\ cnt' = 0
    /\ nodes' = Zeroed(0)
    /\ cap' = 0
    /\ size' = 0
    /\ reader' = Signalled
    /\ ret' = "none"
    /\ UNCHANGED <<head, tail, got, panicked>>

(* Clear also reopens a closed queue.                                      *)
Clear ==
    /\ ~panicked
    /\ clearLocked
    /\ ret' = "none"
    /\ UNCHANGED <<reader, got, panicked>>

(* Wait up to the point where it returns or parks.                         *)
Wait ==
    /\ ~panicked
    /\ reader = "out"
    /\ reader' = IF closed \/ cnt # 0 THEN "out" ELSE "parked"
    /\ ret' = IF closed THEN "false" ELSE IF cnt # 0 THEN "true" ELSE "none"
    /\ UNCHANGED <<buffer, size, closed, got, panicked>>

(* Wait after cond.Wait: it reports true whatever the queue holds by now.  *)
WaitReturn ==
    /\ ~panicked
    /\ reader = "woken"
    /\ reader' = "out"
    /\ ret' = "true"
    /\ UNCHANGED <<buffer, size, closed, got, panicked>>

(* Faulty variant: the slice is halved only when it is less than half full.*)
DequeueLazily ==
    LET h == (head + 1) % cap
        left == cnt - 1
        half == cap \div 2
        kept == [nodes EXCEPT ![head] = NoItem]
    IN  /\ got' = nodes[head]
        /\ cnt' = left
        /\ size' = size - ItemSize[nodes[head]]
        /\ IF half >= InitCap /\ left < half
           THEN /\ nodes' = Resized(kept, cap, h, tail, half)
                /\ cap' = half
                /\ head' = 0
                /\ tail' = left % half
                /\ panicked' = ResizePanics(cap, h, tail, half)
           ELSE /\ nodes' = kept
                /\ head' = h
                /\ UNCHANGED <<cap, tail, panicked>>

(* The item at the head leaves the queue and the buffer is halved when     *)
(* what remains fits in a half that is not below the initial capacity.     *)
Dequeue ==
    LET h == (head + 1) % cap
        left == cnt - 1
        half == cap \div 2
        kept == [nodes EXCEPT ![head] = NoItem]
    IN  /\ got' = nodes[head]
        /\ cnt' = left
        /\ size' = size - ItemSize[nodes[head]]
        /\ IF half >= InitCap /\ left <= half
           THEN /\ nodes' = Resized(kept, cap, h, tail, half)
                /\ cap' = half
                /\ head' = 0
                /\ tail' = left % half
                /\ panicked' = ResizePanics(cap, h, tail, half)
           ELSE /\ nodes' = kept
                /\ head' = h
                /\ UNCHANGED <<cap, tail, panicked>>

Remove ==
    /\ ~panicked
    /\ reader = "out"
    /\ \/ /\ cnt = 0
          /\ got' = NoItem
          /\ ret' = "false"
          /\ UNCHANGED <<buffer, size, panicked>>
       \/ /\ cnt # 0
          /\ Dequeue
          /\ ret' = "true"
    /\ UNCHANGED <<closed, reader>>

Next ==
    \/ \E i \in Items : Add(i)
    \/ \E i \in Items, m \in MaxSizes : Push(i, m)
    \/ Close
    \/ Clear
    \/ Wait
    \/ WaitReturn
    \/ Remove

Spec == Init /\ [][Next]_vars

-----------------------------------------------------------------------------

(* The k-th oldest item of a ring that starts at index h of a slice of     *)
(* length c, and all of the queued items, oldest first.                    *)
ItemAt(b, c, h, k) == b[(h + k - 1) % c]

Contents == [k \in 1 .. cnt |-> ItemAt(nodes, cap, head, k)]

Results == {"none", "true", "false", "PushOK", "PushClosed", "PushOverflow"}

(* Every field of utils.Queue keeps its type: the slice has length cap,    *)
(* and its slots hold items or the zero Item.                              *)
TypeOK ==
    /\ cap \in Nat /\ head \in Nat /\ tail \in Nat /\ cnt \in Nat
    /\ nodes \in [0 .. cap-1 -> Items \cup {NoItem}]
    /\ size \in Int
    /\ closed \in BOOLEAN
    /\ reader \in {"out", "parked", "woken"}
    /\ ret \in Results
    /\ got \in Items \cup {NoItem}
    /\ panicked \in BOOLEAN

(* The ring is well formed: an open queue has a slice no shorter than the  *)
(* initial capacity, the tail is cnt places after the head, and the cnt    *)
(* slots from the head on are the ones that hold an item.                  *)
RingWellFormed ==
    IF closed
    THEN cap = 0 /\ cnt = 0
    ELSE /\ cap >= InitCap
         /\ cnt <= cap
         /\ head < cap
         /\ tail = (head + cnt) % cap
         /\ \A k \in 1 .. cnt : ItemAt(nodes, cap, head, k) \in Items

(* A slice that Remove may halve is more than half full.  This is why      *)
(* resize is never asked to shrink an empty buffer, whose head would lie   *)
(* anywhere: its second copy would start beyond the end of the new slice.  *)
ShrinkableIsMoreThanHalfFull ==
    ~closed /\ cap \div 2 >= InitCap => 2 * cnt > cap

(* No call of resize slices out of range, whatever calls came before.      *)
NeverPanics == ~panicked

(* No wakeup is lost: a reader parked in Wait has nothing to read, and the *)
(* queue has not been closed behind its back.                              *)
NoLostWakeup == reader = "parked" => cnt = 0 /\ ~closed

IInv ==
    /\ TypeOK
    /\ RingWellFormed
    /\ ShrinkableIsMoreThanHalfFull
    /\ NeverPanics
    /\ NoLostWakeup

(* The ring buffer is a FIFO queue: what Add and Push accept comes out of  *)
(* Remove in the same order, across every growth and halving of the slice. *)
Fifo == INSTANCE FifoQueue WITH items <- Contents
ImplementsFifo == Fifo!Spec
=============================================================================
