----------------------------- MODULE FifoQueue -----------------------------
(***************************************************************************)
(* What utils.Queue promises to the session that owns it: an unbounded     *)
(* first-in first-out queue with one blocking reader, a running total of   *)
(* the sizes it holds, and a write that sheds the whole backlog once that  *)
(* total has reached the caller's limit.  Nothing is said of how the items *)
(* are stored; Queue.tla is the ring buffer that implements this.          *)
(***************************************************************************)
EXTENDS Integers, Sequences

CONSTANTS
    Items,       \* the values a producer may enqueue
    NoItem,      \* the zero Item[T]
    ItemSize,    \* Item.Size of each value
    MaxSizes     \* the maxSize arguments Push is called with

VARIABLES
    items,       \* what is queued, oldest first
    size,        \* the total size of what is queued
    closed,      \* no more writes are accepted
    reader,      \* where the one reader is: "out", "parked" or "woken"
    ret,         \* what the latest call reported
    got          \* the item the latest Remove returned

vars == <<items, size, closed, reader, ret, got>>

Init ==
    /\ items = << >>
    /\ size = 0
    /\ closed = FALSE
    /\ reader = "out"
    /\ ret = "none"
    /\ got = NoItem

(* A signal wakes the reader if it is parked and is lost otherwise.        *)
Signalled == IF reader = "parked" THEN "woken" ELSE reader

-----------------------------------------------------------------------------
(* What the calls return and what they do to the queue, apart from the     *)
(* variables ret and got: a component that owns a queue uses these.        *)

Overflows(maxSize) == maxSize > 0 /\ size >= maxSize

PushResult(maxSize) ==
    IF closed THEN "PushClosed" ELSE IF Overflows(maxSize) THEN "PushOverflow" ELSE "PushOK"

Enqueued(i) ==
    /\ items' = Append(items, i)
    /\ size' = size + ItemSize[i]
    /\ reader' = Signalled
    /\ UNCHANGED closed

Emptied ==
    /\ items' = << >>
    /\ size' = 0

Pushed(i, maxSize) ==
    \/ closed /\ UNCHANGED <<items, size, closed, reader>>
    \/ ~closed /\ Overflows(maxSize) /\ Emptied /\ UNCHANGED <<closed, reader>>
    \/ ~closed /\ ~Overflows(maxSize) /\ Enqueued(i)

Closed == Emptied /\ closed' = TRUE /\ reader' = Signalled

WaitResult == IF closed THEN "false" ELSE IF items # << >> THEN "true" ELSE "none"

Waiting ==
    /\ reader = "out"
    /\ reader' = IF WaitResult = "none" THEN "parked" ELSE "out"
    /\ UNCHANGED <<items, size, closed>>

Woken ==
    /\ reader = "woken"
    /\ reader' = "out"
    /\ UNCHANGED <<items, size, closed>>

Removed ==
    /\ items # << >>
    /\ items' = Tail(items)
    /\ size' = size - ItemSize[Head(items)]
    /\ UNCHANGED <<closed, reader>>

-----------------------------------------------------------------------------

Add(i) ==
    /\ \/ closed /\ ret' = "false" /\ UNCHANGED <<items, size, closed, reader>>
       \/ ~closed /\ ret' = "true" /\ Enqueued(i)
    /\ UNCHANGED got

Push(i, maxSize) ==
    /\ Pushed(i, maxSize)
    /\ ret' = PushResult(maxSize)
    /\ UNCHANGED got

Close ==
    /\ Closed
    /\ ret' = "none"
    /\ UNCHANGED got

Clear ==
    /\ Emptied
    /\ closed' = FALSE
    /\ ret' = "none"
    /\ UNCHANGED <<reader, got>>

Wait ==
    /\ Waiting
    /\ ret' = WaitResult
    /\ UNCHANGED got

WaitReturn ==
    /\ Woken
    /\ ret' = "true"
    /\ UNCHANGED got

Remove ==
    /\ reader = "out"
    /\ \/ /\ items = << >>
          /\ got' = NoItem
          /\ ret' = "false"
          /\ UNCHANGED <<items, size, closed, reader>>
       \/ /\ Removed
          /\ got' = Head(items)
          /\ ret' = "true"

Next ==
    \/ \E i \in Items : Add(i)
    \/ \E i \in Items, m \in MaxSizes : Push(i, m)
    \/ Close
    \/ Clear
    \/ Wait
    \/ WaitReturn
    \/ Remove

Spec == Init /\ [][Next]_vars
=============================================================================
