---------------------------- MODULE WritesProofs ----------------------------
(***************************************************************************)
(* For every initial capacity, every set of items with sizes and every     *)
(* Push limit: the ring buffer of Queue.tla keeps its inductive invariant  *)
(* (so resize never slices out of range and no wakeup is lost) and         *)
(* implements the FIFO queue of FifoQueue.tla.                             *)
(*                                                                         *)
(* The first part is about rings as values: what the three things the code *)
(* does to a ring (write at the tail, advance the head, resize) do to the  *)
(* items in it.  Enqueue is a resize, if the ring is full, and a write;    *)
(* Dequeue is an advance and, if the ring may be halved, a resize.         *)
(*                                                                         *)
(* The last part is about the session that writes what is queued: for any  *)
(* callers and any limit, it leaves the hub once.                          *)
(***************************************************************************)
EXTENDS MCWrites, TLAPS

Slots == Items \cup {NoItem}

(* b is a slice of length c that holds m items from index h up to index t. *)
IsRing(b, c, h, t, m) ==
    /\ c \in Nat \ {0}
    /\ b \in [0 .. c-1 -> Slots]
    /\ h \in 0 .. c-1
    /\ m \in 0 .. c
    /\ t = (h + m) % c

(* Arithmetic of the ring: one turn past the end comes back to the start.  *)
LEMMA Turn ==
    ASSUME NEW c \in Nat \ {0}, NEW h \in 0 .. c-1
    PROVE  /\ \A k \in 0 .. c : (h + k) % c = IF h + k < c THEN h + k ELSE h + k - c
           /\ \A k \in 1 .. c : (h + k - 1) % c =
                  IF h + k - 1 < c THEN h + k - 1 ELSE h + k - 1 - c
  OBVIOUS

(* Where a ring's tail and items are, without the remainder.               *)
LEMMA Places ==
    ASSUME NEW b, NEW c, NEW h, NEW t, NEW m, IsRing(b, c, h, t, m)
    PROVE  /\ t = IF h + m < c THEN h + m ELSE h + m - c
           /\ \A k \in 1 .. m : ItemAt(b, c, h, k) =
                  b[IF h + k - 1 < c THEN h + k - 1 ELSE h + k - 1 - c]
  <1>1. /\ c \in Nat \ {0} /\ h \in 0 .. c-1 /\ m \in 0 .. c /\ t = (h + m) % c
    BY DEF IsRing
  <1>2. t = IF h + m < c THEN h + m ELSE h + m - c
    BY <1>1, Turn
  <1>3. \A k \in 1 .. m : (h + k - 1) % c =
                  IF h + k - 1 < c THEN h + k - 1 ELSE h + k - 1 - c
    BY <1>1
  <1> QED
    BY <1>2, <1>3 DEF ItemAt

(* q.nodes[q.tail] = i and the index after the tail.  The provers are given*)
(* these terms by name, and expand them only where a proof says so.        *)
Write(b, t, i) == [b EXCEPT ![t] = i]
After(t, c) == (t + 1) % c

(* Writing at the tail of a ring that is not full appends the item.        *)
LEMMA WriteAppends ==
    ASSUME NEW b, NEW c, NEW h, NEW t, NEW m, IsRing(b, c, h, t, m), m # c,
           NEW i \in Items
    PROVE  /\ IsRing(Write(b, t, i), c, h, After(t, c), m + 1)
           /\ \A k \in 1 .. m : ItemAt(Write(b, t, i), c, h, k) = ItemAt(b, c, h, k)
           /\ ItemAt(Write(b, t, i), c, h, m + 1) = i
  <1> DEFINE w == Write(b, t, i)
             u == After(t, c)
  <1>1. /\ c \in Nat \ {0} /\ h \in 0 .. c-1 /\ m \in 0 .. c /\ b \in [0 .. c-1 -> Slots]
    BY DEF IsRing
  <1>2. t = IF h + m < c THEN h + m ELSE h + m - c
    BY Places
  <1>3. t \in 0 .. c-1 /\ m + 1 \in 0 .. c
    BY <1>1, <1>2
  <1>4. u = IF t + 1 < c THEN t + 1 ELSE t + 1 - c
    BY <1>1, <1>3, Turn DEF After
  <1>5. (h + (m + 1)) % c = IF h + (m + 1) < c THEN h + (m + 1) ELSE h + (m + 1) - c
    BY <1>1, <1>3, Turn
  <1> HIDE DEF u
  <1>6. u = (h + (m + 1)) % c
    BY <1>1, <1>2, <1>3, <1>4, <1>5
  <1>7. w \in [0 .. c-1 -> Slots]
    BY <1>1, <1>3 DEF Slots, Write
  <1>8. IsRing(w, c, h, u, m + 1)
    BY <1>1, <1>3, <1>6, <1>7 DEF IsRing
  <1>9. ItemAt(w, c, h, m + 1) = i
    <2>1. (h + (m + 1) - 1) % c = t
      BY <1>1, <1>3 DEF IsRing
    <2> QED
      BY <1>1, <1>3, <2>1 DEF ItemAt, Write
  <1>10. ASSUME NEW k \in 1 .. m
         PROVE  ItemAt(w, c, h, k) = ItemAt(b, c, h, k)
    <2> DEFINE p == IF h + k - 1 < c THEN h + k - 1 ELSE h + k - 1 - c
    <2>1. p \in 0 .. c-1 /\ p # t
      BY <1>1, <1>2
    <2>2. (h + k - 1) % c = p
      BY <1>1
    <2> QED
      BY <1>1, <1>3, <2>1, <2>2 DEF ItemAt, Write
  <1> QED
    BY <1>8, <1>9, <1>10 DEF u

(* Advancing the head of a ring that is not empty drops its oldest item.   *)
LEMMA AdvanceDrops ==
    ASSUME NEW b, NEW c, NEW h, NEW t, NEW m, IsRing(b, c, h, t, m), m # 0
    PROVE  /\ IsRing(Write(b, h, NoItem), c, After(h, c), t, m - 1)
           /\ \A k \in 1 .. m - 1 :
                 ItemAt(Write(b, h, NoItem), c, After(h, c), k) = ItemAt(b, c, h, k + 1)
           /\ b[h] = ItemAt(b, c, h, 1)
  <1> DEFINE w == Write(b, h, NoItem)
             g == After(h, c)
  <1>1. /\ c \in Nat \ {0} /\ h \in 0 .. c-1 /\ m \in 1 .. c /\ b \in [0 .. c-1 -> Slots]
    BY DEF IsRing
  <1>2. t = IF h + m < c THEN h + m ELSE h + m - c
    BY Places
  <1>3. g = IF h + 1 < c THEN h + 1 ELSE h + 1 - c
    BY <1>1, Turn DEF After
  <1> HIDE DEF g
  <1>4. g \in 0 .. c-1 /\ m - 1 \in 0 .. c
    BY <1>1, <1>3
  <1>5. t = (g + (m - 1)) % c
    <2>1. (g + (m - 1)) % c = IF g + (m - 1) < c THEN g + (m - 1) ELSE g + (m - 1) - c
      BY <1>1, <1>4, Turn
    <2> QED
      BY <1>1, <1>2, <1>3, <2>1
  <1>6. w \in [0 .. c-1 -> Slots]
    BY <1>1 DEF Slots, Write
  <1>7. IsRing(w, c, g, t, m - 1)
    BY <1>1, <1>4, <1>5, <1>6 DEF IsRing
  <1>8. ASSUME NEW k \in 1 .. m - 1
        PROVE  ItemAt(w, c, g, k) = ItemAt(b, c, h, k + 1)
    <2> DEFINE p == IF h + k < c THEN h + k ELSE h + k - c
    <2>1. p \in 0 .. c-1 /\ p # h
      BY <1>1
    <2>2. (g + k - 1) % c = p
      <3>1. (g + k - 1) % c = IF g + k - 1 < c THEN g + k - 1 ELSE g + k - 1 - c
        BY <1>1, <1>4
      <3> QED
        BY <1>1, <1>3, <3>1
    <2>3. (h + (k + 1) - 1) % c = p
      BY <1>1
    <2> QED
      BY <1>1, <2>1, <2>2, <2>3 DEF ItemAt, Write
  <1>9. b[h] = ItemAt(b, c, h, 1)
    <2>1. (h + 1 - 1) % c = h
      BY <1>1
    <2> QED
      BY <2>1 DEF ItemAt
  <1> QED
    BY <1>7, <1>8, <1>9 DEF g

(* resize(n) keeps the items of a ring that is not empty, in order,        *)
(* whichever branch copies them, provided they fit; and then its slice     *)
(* expressions are in range.                                               *)
LEMMA ResizeKeeps ==
    ASSUME NEW b, NEW c, NEW h, NEW t, NEW m, IsRing(b, c, h, t, m), m # 0,
           NEW n \in Nat, m <= n
    PROVE  /\ IsRing(Resized(b, c, h, t, n), n, 0, m % n, m)
           /\ \A k \in 1 .. m : ItemAt(Resized(b, c, h, t, n), n, 0, k) = ItemAt(b, c, h, k)
           /\ ~ResizePanics(c, h, t, n)
  <1> DEFINE r == Resized(b, c, h, t, n)
  <1>1. /\ c \in Nat \ {0} /\ h \in 0 .. c-1 /\ m \in 1 .. c /\ b \in [0 .. c-1 -> Slots]
        /\ n \in Nat \ {0} /\ m \in 0 .. n
    BY DEF IsRing
  <1>2. t = IF h + m < c THEN h + m ELSE h + m - c
    BY Places
  <1>3. r \in [0 .. n-1 -> Slots]
    BY <1>1, <1>2 DEF Resized, Slots
  <1>4. \A k \in 0 .. m-1 : r[k] = b[IF h + k < c THEN h + k ELSE h + k - c]
    BY <1>1, <1>2 DEF Resized
  <1>5. ~ResizePanics(c, h, t, n)
    BY <1>1, <1>2 DEF ResizePanics
  <1> HIDE DEF r
  <1>6. IsRing(r, n, 0, m % n, m)
    <2>1. 0 + m = m /\ 0 \in 0 .. n-1
      BY <1>1
    <2> QED
      BY <1>1, <1>3, <2>1 DEF IsRing
  <1>7. ASSUME NEW k \in 1 .. m
        PROVE  ItemAt(r, n, 0, k) = ItemAt(b, c, h, k)
    <2>1. k - 1 \in 0 .. m-1 /\ h + (k - 1) = h + k - 1
      BY <1>1
    <2>2. (0 + k - 1) % n = k - 1
      BY <1>1
    <2>3. ItemAt(b, c, h, k) = b[IF h + k - 1 < c THEN h + k - 1 ELSE h + k - 1 - c]
      BY Places
    <2> QED
      BY <1>4, <2>1, <2>2, <2>3 DEF ItemAt
  <1> QED
    BY <1>5, <1>6, <1>7 DEF r

-----------------------------------------------------------------------------
(* From rings as values to the queue's state.                              *)

(* What it says of its parts that a buffer is a ring. *)
LEMMA RingFacts ==
    ASSUME NEW b, NEW c, NEW h, NEW t, NEW m, IsRing(b, c, h, t, m)
    PROVE  /\ c \in Nat /\ h \in Nat /\ t \in Nat /\ m \in Nat
           /\ b \in [0 .. c-1 -> Items \cup {NoItem}]
           /\ h < c /\ m <= c
           /\ t = (h + m) % c
  BY Places DEF IsRing, Slots

(* An open queue holds a ring. *)
LEMMA OpenIsRing ==
    ASSUME IInv, ~closed
    PROVE  IsRing(nodes, cap, head, tail, cnt)
  BY QueueAssumption DEF IInv, TypeOK, RingWellFormed, IsRing, Slots

(* A function on 1 .. n is a sequence of length n. *)
LEMMA FunctionIsSeq ==
    ASSUME NEW S, NEW n \in Nat, NEW f \in [1 .. n -> S]
    PROVE  f \in Seq(S) /\ Len(f) = n
  OBVIOUS

(* An accepted item goes to the end of the queue. *)
LEMMA EnqueueAppends ==
    ASSUME IInv, ~closed, NEW i \in Items, NEW o \in Results, Enqueue(i, o)
    PROVE  IInv' /\ Contents' = Append(Contents, i)
  <1>1. /\ IsRing(nodes, cap, head, tail, cnt)
        /\ InitCap \in Nat \ {0} /\ cap >= InitCap
        /\ cap \div 2 >= InitCap => 2 * cnt > cap
        /\ \A k \in 1 .. cnt : ItemAt(nodes, cap, head, k) \in Items
    BY OpenIsRing, QueueAssumption DEF IInv, RingWellFormed, ShrinkableIsMoreThanHalfFull
  <1>2. cap \in Nat \ {0} /\ cnt \in 0 .. cap
    BY <1>1 DEF IsRing
  <1> DEFINE Ring ==
        /\ IsRing(nodes', cap', head', tail', cnt')
        /\ cnt' = cnt + 1
        /\ \A k \in 1 .. cnt : ItemAt(nodes', cap', head', k) = ItemAt(nodes, cap, head, k)
        /\ ItemAt(nodes', cap', head', cnt + 1) = i
             Shape ==
        /\ cap' >= InitCap
        /\ cap' \div 2 >= InitCap => 2 * cnt' > cap'
        /\ panicked' = FALSE
  <1>3. ASSUME cnt = cap PROVE Ring /\ Shape
    <2> DEFINE c == 2 * cnt
               r == Resized(nodes, cap, head, tail, c)
    <2>1. c \in Nat /\ cnt # 0 /\ cnt <= c /\ cnt # c
      BY <1>2, <1>3
    <2>2. /\ cap' = c /\ cnt' = cnt + 1 /\ head' = 0
          /\ tail' = ((cnt % c) + 1) % c
          /\ nodes' = [r EXCEPT ![cnt % c] = i]
          /\ panicked' = (cnt = cap /\ ResizePanics(cap, head, tail, c))
      BY <1>3 DEF Enqueue
    <2>3. cap' >= InitCap /\ 2 * cnt' > cap'
      BY <1>1, <1>2, <1>3, <2>2
    <2> HIDE DEF c
    <2>4. /\ IsRing(r, c, 0, cnt % c, cnt)
          /\ \A k \in 1 .. cnt : ItemAt(r, c, 0, k) = ItemAt(nodes, cap, head, k)
          /\ ~ResizePanics(cap, head, tail, c)
      BY <1>1, <2>1, ResizeKeeps
    <2> HIDE DEF r
    <2>5. /\ IsRing(nodes', c, 0, tail', cnt + 1)
          /\ \A k \in 1 .. cnt : ItemAt(nodes', c, 0, k) = ItemAt(r, c, 0, k)
          /\ ItemAt(nodes', c, 0, cnt + 1) = i
      <3>1. /\ IsRing(Write(r, cnt % c, i), c, 0, After(cnt % c, c), cnt + 1)
            /\ \A k \in 1 .. cnt :
                  ItemAt(Write(r, cnt % c, i), c, 0, k) = ItemAt(r, c, 0, k)
            /\ ItemAt(Write(r, cnt % c, i), c, 0, cnt + 1) = i
        BY <2>1, <2>4, WriteAppends
      <3> QED
        BY <2>2, <3>1, Zenon DEF Write, After
    <2> QED
      BY <2>2, <2>3, <2>4, <2>5
  <1>4. ASSUME cnt # cap PROVE Ring /\ Shape
    <2>1. /\ cap' = cap /\ cnt' = cnt + 1 /\ head' = head
          /\ tail' = (tail + 1) % cap
          /\ nodes' = [nodes EXCEPT ![tail] = i]
          /\ panicked' = FALSE
      BY <1>4 DEF Enqueue
    <2>2. cap' >= InitCap /\ cap' \div 2 >= InitCap => 2 * cnt' > cap'
      BY <1>1, <1>2, <2>1
    <2>3. /\ IsRing(nodes', cap, head, tail', cnt + 1)
          /\ \A k \in 1 .. cnt : ItemAt(nodes', cap, head, k) = ItemAt(nodes, cap, head, k)
          /\ ItemAt(nodes', cap, head, cnt + 1) = i
      <3>1. /\ IsRing(Write(nodes, tail, i), cap, head, After(tail, cap), cnt + 1)
            /\ \A k \in 1 .. cnt :
                  ItemAt(Write(nodes, tail, i), cap, head, k) = ItemAt(nodes, cap, head, k)
            /\ ItemAt(Write(nodes, tail, i), cap, head, cnt + 1) = i
        BY <1>1, <1>4, WriteAppends
      <3> QED
        BY <2>1, <3>1, Zenon DEF Write, After
    <2> QED
      BY <1>1, <2>1, <2>2, <2>3
  <1>5. Ring
    BY <1>3, <1>4
  <1>6. Shape
    BY <1>3, <1>4
  <1>7. \A k \in 1 .. cnt' : ItemAt(nodes', cap', head', k) =
                IF k = cnt + 1 THEN i ELSE ItemAt(nodes, cap, head, k)
    <2>1. cnt' = cnt + 1 /\ \A k \in 1 .. cnt + 1 : k # cnt + 1 => k \in 1 .. cnt
      BY <1>2, <1>5
    <2> QED
      BY <1>5, <2>1
  <1>8. \A k \in 1 .. cnt' : ItemAt(nodes', cap', head', k) \in Items
    <2>1. cnt' = cnt + 1 /\ \A k \in 1 .. cnt + 1 : k # cnt + 1 => k \in 1 .. cnt
      BY <1>2, <1>5
    <2> QED
      BY <1>1, <1>7, <2>1
  <1>9. /\ size' \in Int /\ closed' = closed /\ got' = got /\ ret' \in Results
        /\ reader' \in {"out", "woken"}
    <2>1. /\ size' = size + ItemSize[i] /\ closed' = closed /\ got' = got /\ ret' = o
          /\ reader' = Signalled
      BY DEF Enqueue
    <2>2. size \in Int /\ ItemSize[i] \in Nat
      BY QueueAssumption DEF IInv, TypeOK
    <2>3. Signalled \in {"out", "woken"}
      BY DEF Signalled, IInv, TypeOK
    <2> QED
      BY <2>1, <2>2, <2>3
  <1>10. IInv'
    <2>1. /\ cap' \in Nat /\ head' \in Nat /\ tail' \in Nat /\ cnt' \in Nat
          /\ nodes' \in [0 .. cap'-1 -> Items \cup {NoItem}]
          /\ head' < cap' /\ cnt' <= cap'
          /\ tail' = (head' + cnt') % cap'
      BY <1>5, RingFacts
    <2>2. TypeOK'
      BY <1>6, <1>9, <2>1 DEF IInv, TypeOK
    <2>3. RingWellFormed'
      BY <1>6, <1>8, <1>9, <2>1 DEF RingWellFormed
    <2>4. ShrinkableIsMoreThanHalfFull' /\ NeverPanics' /\ NoLostWakeup'
      BY <1>6, <1>9 DEF ShrinkableIsMoreThanHalfFull, NeverPanics, NoLostWakeup
    <2> QED
      BY <2>2, <2>3, <2>4 DEF IInv
  <1>11. Contents' = Append(Contents, i)
    <2>1. Contents \in Seq(Items) /\ Len(Contents) = cnt
      <3>1. cnt \in Nat /\ Contents \in [1 .. cnt -> Items]
        BY <1>1, <1>2 DEF Contents
      <3> QED
        BY <3>1, FunctionIsSeq
    <2>2. Contents' \in Seq(Items) /\ Len(Contents') = cnt'
      <3>1. cnt' \in Nat /\ Contents' \in [1 .. cnt' -> Items]
        BY <1>2, <1>5, <1>8 DEF Contents
      <3> QED
        BY <3>1, FunctionIsSeq
    <2>3. /\ Append(Contents, i) \in Seq(Items)
          /\ Len(Append(Contents, i)) = cnt + 1
          /\ \A k \in 1 .. cnt + 1 : Append(Contents, i)[k] =
                 IF k = cnt + 1 THEN i ELSE Contents[k]
      BY <1>2, <2>1
    <2>4. \A k \in 1 .. cnt + 1 : Contents'[k] = IF k = cnt + 1 THEN i ELSE Contents[k]
      BY <1>2, <1>5, <1>7 DEF Contents
    <2> QED
      BY <1>5, <2>2, <2>3, <2>4
  <1> QED
    BY <1>10, <1>11

(* The queue gives back its oldest item and keeps the rest in order.       *)
LEMMA DequeueDrops ==
    ASSUME IInv, cnt # 0, Dequeue, UNCHANGED <<closed, reader>>, ret' \in Results,
           reader = "out"
    PROVE  /\ IInv'
           /\ Contents # << >> /\ got' = Head(Contents) /\ Contents' = Tail(Contents)
           /\ size' = size - ItemSize[Head(Contents)]
  <1>1. ~closed
    BY DEF IInv, RingWellFormed
  <1>2. /\ IsRing(nodes, cap, head, tail, cnt)
        /\ InitCap \in Nat \ {0} /\ cap >= InitCap
        /\ cap \div 2 >= InitCap => 2 * cnt > cap
        /\ \A k \in 1 .. cnt : ItemAt(nodes, cap, head, k) \in Items
    BY <1>1, OpenIsRing, QueueAssumption DEF IInv, RingWellFormed, ShrinkableIsMoreThanHalfFull
  <1>3. cap \in Nat \ {0} /\ cnt \in 1 .. cap
    BY <1>2 DEF IsRing
  <1> DEFINE w == Write(nodes, head, NoItem)
             g == After(head, cap)
             half == cap \div 2
  <1>4. /\ IsRing(w, cap, g, tail, cnt - 1)
        /\ \A k \in 1 .. cnt - 1 : ItemAt(w, cap, g, k) = ItemAt(nodes, cap, head, k + 1)
        /\ nodes[head] = ItemAt(nodes, cap, head, 1)
    BY <1>2, AdvanceDrops
  <1> DEFINE Ring ==
        /\ IsRing(nodes', cap', head', tail', cnt')
        /\ cnt' = cnt - 1
        /\ \A k \in 1 .. cnt - 1 : ItemAt(nodes', cap', head', k) = ItemAt(nodes, cap, head, k + 1)
             Shape ==
        /\ cap' >= InitCap
        /\ cap' \div 2 >= InitCap => 2 * cnt' > cap'
        /\ panicked' = FALSE
  <1>5. ASSUME half >= InitCap, cnt - 1 <= half PROVE Ring /\ Shape
    <2>1. half \in Nat /\ 2 * half <= cap /\ cap <= 2 * half + 1
      BY <1>3
    <2>2. cnt - 1 = half /\ half # 0 /\ cnt - 1 # 0
      BY <1>2, <1>3, <1>5, <2>1
    <2>3. /\ nodes' = Resized(w, cap, g, tail, half)
          /\ cap' = half /\ head' = 0 /\ tail' = (cnt - 1) % half /\ cnt' = cnt - 1
          /\ panicked' = ResizePanics(cap, g, tail, half)
      BY <1>5 DEF Dequeue, Write, After
    <2>4. half \div 2 >= InitCap => 2 * (cnt - 1) > half
      BY <2>1, <2>2
    <2> HIDE DEF w, g, half
    <2>5. /\ IsRing(Resized(w, cap, g, tail, half), half, 0, (cnt - 1) % half, cnt - 1)
          /\ \A k \in 1 .. cnt - 1 :
                ItemAt(Resized(w, cap, g, tail, half), half, 0, k) = ItemAt(w, cap, g, k)
          /\ ~ResizePanics(cap, g, tail, half)
      <3>1. cnt - 1 <= half /\ cnt - 1 # 0 /\ half \in Nat
        BY <1>5, <2>1, <2>2
      <3> QED
        BY <1>4, <3>1, ResizeKeeps
    <2>6. Ring
      BY <1>4, <2>3, <2>5
    <2>7. Shape
      BY <1>5, <2>3, <2>4, <2>5
    <2> QED
      BY <2>6, <2>7
  <1>6. ASSUME ~(half >= InitCap /\ cnt - 1 <= half) PROVE Ring /\ Shape
    <2>1. /\ nodes' = w /\ cap' = cap /\ head' = g /\ tail' = tail /\ cnt' = cnt - 1
          /\ panicked' = panicked
      BY <1>6 DEF Dequeue, Write, After
    <2>2. half \in Nat /\ 2 * half <= cap /\ cap <= 2 * half + 1
      BY <1>3
    <2>3. cap \div 2 >= InitCap => 2 * (cnt - 1) > cap
      BY <1>2, <1>3, <1>6, <2>2
    <2>4. panicked' = FALSE
      BY <2>1 DEF IInv, NeverPanics, TypeOK
    <2> HIDE DEF w, g, half
    <2> QED
      BY <1>2, <1>4, <2>1, <2>3, <2>4
  <1>7. Ring
    BY <1>5, <1>6
  <1>8. Shape
    BY <1>5, <1>6
  <1>9. /\ got' = ItemAt(nodes, cap, head, 1)
        /\ size' = size - ItemSize[ItemAt(nodes, cap, head, 1)]
    BY <1>4 DEF Dequeue
  <1>10. ItemAt(nodes, cap, head, 1) \in Items /\ 1 \in 1 .. cnt
    BY <1>2, <1>3
  <1>11. \A k \in 1 .. cnt' : ItemAt(nodes', cap', head', k) \in Items
    <2>1. cnt' = cnt - 1 /\ \A k \in 1 .. cnt - 1 : k + 1 \in 1 .. cnt
      BY <1>3, <1>7
    <2> QED
      BY <1>2, <1>7, <2>1
  <1>12. IInv'
    <2>1. /\ cap' \in Nat /\ head' \in Nat /\ tail' \in Nat /\ cnt' \in Nat
          /\ nodes' \in [0 .. cap'-1 -> Items \cup {NoItem}]
          /\ head' < cap' /\ cnt' <= cap'
          /\ tail' = (head' + cnt') % cap'
      BY <1>7, RingFacts
    <2>2. size' \in Int
      <3>1. size \in Int /\ ItemSize[ItemAt(nodes, cap, head, 1)] \in Nat
        BY <1>10, QueueAssumption DEF IInv, TypeOK
      <3> QED
        BY <1>9, <3>1
    <2>3. closed' = FALSE /\ reader' = "out" /\ got' \in Items
      BY <1>1, <1>9, <1>10 DEF IInv, TypeOK
    <2>4. TypeOK'
      BY <1>8, <2>1, <2>2, <2>3 DEF TypeOK
    <2>5. RingWellFormed'
      BY <1>8, <1>11, <2>1, <2>3 DEF RingWellFormed
    <2>6. ShrinkableIsMoreThanHalfFull' /\ NeverPanics' /\ NoLostWakeup'
      BY <1>8, <2>3 DEF ShrinkableIsMoreThanHalfFull, NeverPanics, NoLostWakeup
    <2> QED
      BY <2>4, <2>5, <2>6 DEF IInv
  <1>13. Contents \in Seq(Items) /\ Len(Contents) = cnt
    <2>1. cnt \in Nat /\ Contents \in [1 .. cnt -> Items]
      BY <1>2, <1>3 DEF Contents
    <2> QED
      BY <2>1, FunctionIsSeq
  <1>14. Contents # << >> /\ Head(Contents) = ItemAt(nodes, cap, head, 1)
    <2>1. Contents[1] = ItemAt(nodes, cap, head, 1)
      BY <1>10 DEF Contents
    <2> QED
      BY <1>3, <1>13, <2>1
  <1>15. Contents' = Tail(Contents)
    <2>1. Contents' \in Seq(Items) /\ Len(Contents') = cnt'
      <3>1. cnt' \in Nat /\ Contents' \in [1 .. cnt' -> Items]
        BY <1>3, <1>7, <1>11 DEF Contents
      <3> QED
        BY <3>1, FunctionIsSeq
    <2>2. /\ Tail(Contents) \in Seq(Items) /\ Len(Tail(Contents)) = cnt - 1
          /\ \A k \in 1 .. cnt - 1 : Tail(Contents)[k] = Contents[k + 1]
      BY <1>3, <1>13, <1>14
    <2>3. \A k \in 1 .. cnt - 1 : Contents'[k] = Contents[k + 1]
      <3>1. \A k \in 1 .. cnt - 1 : k \in 1 .. cnt' /\ k + 1 \in 1 .. cnt
        BY <1>3, <1>7
      <3> QED
        BY <1>7, <3>1 DEF Contents
    <2> QED
      BY <1>7, <2>1, <2>2, <2>3
  <1> QED
    BY <1>9, <1>12, <1>14, <1>15

(* An emptied buffer, of the initial capacity or closed, is a good queue.  *)
LEMMA Emptied ==
    ASSUME IInv
    PROVE  /\ clearLocked /\ ret' \in Results /\ UNCHANGED <<reader, got, panicked>>
                 => IInv' /\ Contents' = << >>
           /\ Close => IInv' /\ Contents' = << >>
  <1>1. ASSUME clearLocked, ret' \in Results, UNCHANGED <<reader, got, panicked>>
        PROVE  IInv' /\ Contents' = << >>
    <2>1. /\ closed' = FALSE /\ cnt' = 0 /\ nodes' = Zeroed(InitCap) /\ cap' = InitCap
          /\ size' = 0 /\ head' = 0 /\ tail' = 0 /\ reader' = reader /\ got' = got
          /\ panicked' = panicked
      BY <1>1 DEF clearLocked
    <2>2. Zeroed(InitCap) \in [0 .. InitCap-1 -> Items \cup {NoItem}]
      BY DEF Zeroed
    <2>3. TypeOK'
      <3>1. InitCap \in Nat /\ 0 \in Nat /\ 0 \in Int
        BY QueueAssumption
      <3>2. /\ reader \in {"out", "parked", "woken"} /\ got \in Items \cup {NoItem}
            /\ panicked \in BOOLEAN
        BY DEF IInv, TypeOK
      <3> QED
        BY <1>1, <2>1, <2>2, <3>1, <3>2 DEF TypeOK
    <2>4. RingWellFormed'
      <3>1. (0 + 0) % InitCap = 0 /\ InitCap >= InitCap /\ 0 <= InitCap /\ 0 < InitCap
        BY QueueAssumption
      <3> QED
        BY <2>1, <3>1 DEF RingWellFormed
    <2>5. ShrinkableIsMoreThanHalfFull'
      <3>1. ~(InitCap \div 2 >= InitCap)
        BY QueueAssumption
      <3> QED
        BY <2>1, <3>1 DEF ShrinkableIsMoreThanHalfFull
    <2>6. NeverPanics' /\ NoLostWakeup'
      BY <2>1 DEF IInv, NeverPanics, NoLostWakeup
    <2>7. Contents' = << >>
      BY <2>1 DEF Contents
    <2> QED
      BY <2>3, <2>4, <2>5, <2>6, <2>7 DEF IInv
  <1>2. ASSUME Close PROVE IInv' /\ Contents' = << >>
    <2>1. /\ closed' = TRUE /\ cnt' = 0 /\ nodes' = Zeroed(0) /\ cap' = 0
          /\ size' = 0 /\ head' = head /\ tail' = tail /\ reader' = Signalled /\ got' = got
          /\ panicked' = panicked /\ ret' = "none"
      BY <1>2 DEF Close
    <2>2. Zeroed(0) \in [0 .. 0-1 -> Items \cup {NoItem}]
      BY DEF Zeroed
    <2>3. Signalled \in {"out", "woken"}
      BY DEF Signalled, IInv, TypeOK
    <2>4. TypeOK'
      BY <2>1, <2>2, <2>3 DEF IInv, TypeOK, Results
    <2>5. RingWellFormed' /\ ShrinkableIsMoreThanHalfFull'
      BY <2>1 DEF RingWellFormed, ShrinkableIsMoreThanHalfFull
    <2>6. NeverPanics' /\ NoLostWakeup'
      BY <2>1, <2>3 DEF IInv, NeverPanics, NoLostWakeup
    <2>7. Contents' = << >>
      BY <2>1 DEF Contents
    <2> QED
      BY <2>4, <2>5, <2>6, <2>7 DEF IInv
  <1> QED
    BY <1>1, <1>2

(* A step that leaves the buffer alone. *)
LEMMA BufferKept ==
    ASSUME IInv, UNCHANGED <<buffer, size, closed, got, panicked>>, ret' \in Results,
           reader' \in {"out", "parked", "woken"},
           reader' = "parked" => cnt = 0 /\ ~closed
    PROVE  IInv' /\ Contents' = Contents
  <1>1. /\ nodes' = nodes /\ cap' = cap /\ head' = head /\ tail' = tail /\ cnt' = cnt
        /\ size' = size /\ closed' = closed /\ got' = got /\ panicked' = panicked
    BY DEF buffer
  <1>2. TypeOK'
    BY <1>1 DEF IInv, TypeOK
  <1>3. RingWellFormed' /\ ShrinkableIsMoreThanHalfFull' /\ NeverPanics' /\ NoLostWakeup'
    BY <1>1 DEF IInv, RingWellFormed, ShrinkableIsMoreThanHalfFull, NeverPanics, NoLostWakeup
  <1>4. Contents' = Contents
    BY <1>1 DEF Contents
  <1> QED
    BY <1>2, <1>3, <1>4 DEF IInv

(* The abstract queue is empty exactly when the counter is zero.           *)
LEMMA EmptyContents ==
    ASSUME IInv
    PROVE  Contents = << >> <=> cnt = 0
  <1>1. cnt \in Nat /\ DOMAIN Contents = 1 .. cnt
    BY DEF IInv, TypeOK, Contents
  <1>2. cnt = 0 => Contents = << >>
    BY DEF Contents
  <1>3. cnt # 0 => 1 \in DOMAIN Contents
    BY <1>1
  <1> QED
    BY <1>2, <1>3

(***************************************************************************)
(* One step of the queue keeps the invariant and is a step of the abstract *)
(* queue.  Both halves are shown together, action by action.               *)
(***************************************************************************)
LEMMA StepLemma ==
    ASSUME IInv, [Next]_vars
    PROVE  IInv' /\ [Fifo!Next]_(Fifo!vars)
  <1>1. ASSUME NEW i \in Items, Add(i) PROVE IInv' /\ Fifo!Add(i)
    <2>1. CASE closed
      <3>1. Refuse("false")
        BY <1>1, <2>1 DEF Add
      <3>2. IInv' /\ Contents' = Contents
        BY <3>1, BufferKept DEF Refuse, Results, IInv, TypeOK, NoLostWakeup
      <3> QED
        BY <2>1, <3>1, <3>2 DEF Refuse, Fifo!Add
    <2>2. CASE ~closed
      <3>1. Enqueue(i, "true")
        BY <1>1, <2>2 DEF Add
      <3>2. IInv' /\ Contents' = Append(Contents, i)
        BY <2>2, <3>1, EnqueueAppends DEF Results
      <3> QED
        BY <2>2, <3>1, <3>2 DEF Enqueue, Signalled, Fifo!Add, Fifo!Enqueued, Fifo!Signalled
    <2> QED
      BY <2>1, <2>2
  <1>2. ASSUME NEW i \in Items, NEW m \in MaxSizes, Push(i, m) PROVE IInv' /\ Fifo!Push(i, m)
    <2>1. CASE closed
      <3>1. Refuse("PushClosed")
        BY <1>2, <2>1 DEF Push
      <3>2. IInv' /\ Contents' = Contents
        BY <3>1, BufferKept DEF Refuse, Results, IInv, TypeOK, NoLostWakeup
      <3> QED
        BY <2>1, <3>1, <3>2 DEF Refuse, Fifo!Push, Fifo!Pushed, Fifo!PushResult
    <2>2. CASE ~closed /\ m > 0 /\ size >= m
      <3>1. clearLocked /\ ret' = "PushOverflow" /\ UNCHANGED <<reader, got, panicked>>
        BY <1>2, <2>2 DEF Push
      <3>2. IInv' /\ Contents' = << >>
        BY <3>1, Emptied DEF Results
      <3>3. closed' = closed /\ size' = 0
        BY <2>2, <3>1 DEF clearLocked, IInv, TypeOK
      <3> QED
        BY <2>2, <3>1, <3>2, <3>3
           DEF Fifo!Push, Fifo!Pushed, Fifo!PushResult, Fifo!Overflows, Fifo!Emptied
    <2>3. CASE ~closed /\ ~(m > 0 /\ size >= m)
      <3>1. Enqueue(i, "PushOK")
        BY <1>2, <2>3 DEF Push
      <3>2. IInv' /\ Contents' = Append(Contents, i)
        BY <2>3, <3>1, EnqueueAppends DEF Results
      <3> QED
        BY <2>3, <3>1, <3>2 DEF Enqueue, Signalled, Fifo!Push, Fifo!Pushed, Fifo!PushResult,
                                      Fifo!Overflows, Fifo!Enqueued, Fifo!Signalled
    <2> QED
      BY <2>1, <2>2, <2>3
  <1>3. ASSUME Close PROVE IInv' /\ Fifo!Close
    <2>1. IInv' /\ Contents' = << >>
      BY <1>3, Emptied
    <2> QED
      BY <1>3, <2>1 DEF Close, Signalled, Fifo!Close, Fifo!Closed, Fifo!Emptied, Fifo!Signalled
  <1>4. ASSUME Clear PROVE IInv' /\ Fifo!Clear
    <2>1. IInv' /\ Contents' = << >>
      BY <1>4, Emptied DEF Clear, Results
    <2> QED
      BY <1>4, <2>1 DEF Clear, clearLocked, Fifo!Clear, Fifo!Emptied
  <1>5. ASSUME Wait PROVE IInv' /\ Fifo!Wait
    <2>1. IInv' /\ Contents' = Contents
      BY <1>5, BufferKept DEF Wait, Results
    <2> QED
      BY <1>5, <2>1, EmptyContents DEF Wait, Fifo!Wait, Fifo!Waiting, Fifo!WaitResult
  <1>6. ASSUME WaitReturn PROVE IInv' /\ Fifo!WaitReturn
    <2>1. IInv' /\ Contents' = Contents
      BY <1>6, BufferKept DEF WaitReturn, Results
    <2> QED
      BY <1>6, <2>1 DEF WaitReturn, Fifo!WaitReturn, Fifo!Woken
  <1>7. ASSUME Remove PROVE IInv' /\ Fifo!Remove
    <2>1. CASE cnt = 0
      <3>1. /\ got' = NoItem /\ ret' = "false" /\ reader = "out"
            /\ UNCHANGED <<buffer, size, panicked, closed, reader>>
        BY <1>7, <2>1 DEF Remove
      <3>2. Contents' = Contents
        BY <3>1 DEF buffer, Contents
      <3>3. IInv'
        <4>1. /\ nodes' = nodes /\ cap' = cap /\ head' = head /\ tail' = tail /\ cnt' = cnt
              /\ size' = size /\ closed' = closed /\ reader' = reader /\ panicked' = panicked
          BY <3>1 DEF buffer
        <4>2. TypeOK'
          BY <3>1, <4>1 DEF IInv, TypeOK, Results
        <4>3. RingWellFormed' /\ ShrinkableIsMoreThanHalfFull' /\ NeverPanics' /\ NoLostWakeup'
          BY <4>1 DEF IInv, RingWellFormed, ShrinkableIsMoreThanHalfFull, NeverPanics, NoLostWakeup
        <4> QED
          BY <4>2, <4>3 DEF IInv
      <3> QED
        BY <2>1, <3>1, <3>2, <3>3, EmptyContents DEF Fifo!Remove
    <2>2. CASE cnt # 0
      <3>1. Dequeue /\ ret' = "true" /\ reader = "out" /\ UNCHANGED <<closed, reader>>
        BY <1>7, <2>2 DEF Remove
      <3>2. /\ IInv'
            /\ Contents # << >> /\ got' = Head(Contents) /\ Contents' = Tail(Contents)
            /\ size' = size - ItemSize[Head(Contents)]
        BY <2>2, <3>1, DequeueDrops DEF Results
      <3> QED
        BY <3>1, <3>2 DEF Fifo!Remove, Fifo!Removed
    <2> QED
      BY <2>1, <2>2
  <1>8. ASSUME UNCHANGED vars PROVE IInv' /\ UNCHANGED Fifo!vars
    <2>1. IInv' /\ Contents' = Contents
      BY <1>8, BufferKept DEF vars, buffer, IInv, TypeOK, NoLostWakeup
    <2> QED
      BY <1>8, <2>1 DEF vars, Fifo!vars
  <1> QED
    BY <1>1, <1>2, <1>3, <1>4, <1>5, <1>6, <1>7, <1>8 DEF Next, Fifo!Next

(* NewQueue's state satisfies the invariant and is an empty FIFO queue.    *)
LEMMA InitLemma == Init => IInv /\ Fifo!Init
  <1> SUFFICES ASSUME Init PROVE IInv /\ Fifo!Init
    OBVIOUS
  <1>1. TypeOK
    <2>1. InitCap \in Nat /\ 0 \in Nat /\ 0 \in Int
      BY QueueAssumption
    <2>2. Zeroed(InitCap) \in [0 .. InitCap-1 -> Items \cup {NoItem}]
      BY DEF Zeroed
    <2> QED
      BY <2>1, <2>2 DEF Init, TypeOK, Results
  <1>2. RingWellFormed
    BY QueueAssumption DEF Init, RingWellFormed
  <1>3. ShrinkableIsMoreThanHalfFull /\ NeverPanics /\ NoLostWakeup
    BY QueueAssumption DEF Init, ShrinkableIsMoreThanHalfFull, NeverPanics, NoLostWakeup
  <1>4. Fifo!Init
    BY DEF Init, Fifo!Init, Contents
  <1> QED
    BY <1>1, <1>2, <1>3, <1>4 DEF IInv

(* The ring of utils.Queue stays well formed, no resize slices out of      *)
(* range and no wakeup of the reader is lost.                              *)
THEOREM QueueInvariant == Spec => []IInv
  <1>1. Init => IInv
    BY InitLemma
  <1>2. IInv /\ [Next]_vars => IInv'
    BY StepLemma
  <1> QED
    BY <1>1, <1>2, PTL DEF Spec

(* resize never slices out of range, whatever the calls before it.         *)
THEOREM QueueNeverPanics == Spec => []NeverPanics
  <1>1. IInv => NeverPanics
    BY DEF IInv
  <1> QED
    BY <1>1, QueueInvariant, PTL

(* A reader parked in Wait never misses an item or a Close.                *)
THEOREM QueueNoLostWakeup == Spec => []NoLostWakeup
  <1>1. IInv => NoLostWakeup
    BY DEF IInv
  <1> QED
    BY <1>1, QueueInvariant, PTL

(* The ring buffer implements the first-in first-out queue.                *)
THEOREM QueueImplementsFifo == Spec => ImplementsFifo
  <1>1. Init => Fifo!Init
    BY InitLemma
  <1>2. IInv /\ [Next]_vars => [Fifo!Next]_(Fifo!vars)
    BY StepLemma
  <1> QED
    BY <1>1, <1>2, QueueInvariant, PTL DEF Spec, ImplementsFifo, Fifo!Spec

-----------------------------------------------------------------------------
(* The end of a session.  There is one token that entitles a goroutine to  *)
(* call Node.Disconnect: the reader has it while it authenticates, then    *)
(* s.Connected, then the goroutine that clears s.Connected, until it has   *)
(* made the call.                                                          *)

(* Steps that neither start nor end the session's time in the hub.         *)
PlainSteps ==
    ({"load", "push"} \X W!Frames)
    \cup {<<"close">>, <<"disconnectFromNode">>, <<"ifConnected">>, <<"closeConn">>,
          <<"closeQueue">>}
Plain == Seq(PlainSteps)
Steps == PlainSteps \cup {<<"unregister">>, <<"ifOpen">>, <<"connect">>, <<"addSession">>}

Opening == << <<"ifOpen">> >>
Connecting == << <<"connect">>, <<"addSession">> >>
Adding == << <<"addSession">> >>

(* Goroutine t has the token and calls Node.Disconnect next; what is in    *)
(* the hands of the others is plain, but for the reader at its start.      *)
Leaves(t) == todo[t] # << >> /\ Head(todo[t]) = <<"unregister">> /\ Tail(todo[t]) \in Plain
ShapeOK(t) ==
    \/ todo[t] \in Plain
    \/ Leaves(t)
    \/ t = "reader" /\ todo[t] \in {Opening, Connecting, Adding}

(* The token is the reader's.                                              *)
Fresh == todo["reader"] \in {Opening, Connecting}

(* The writer runs its part of disconnectNow last.                         *)
SessionTypes ==
    /\ connected \in BOOLEAN /\ unregistered \in {0, 1}
    /\ todo \in [W!Threads -> Seq(Steps)]
    /\ \A t \in W!Threads : ShapeOK(t)
    /\ writer # "done" => todo["writer"] = << >>

(* The token is in one place, and is not lost once the session is in the   *)
(* hub or about to be.                                                     *)
HandedOverTo ==
    /\ \A t \in W!Threads : Leaves(t) => ~connected /\ unregistered = 0 /\ ~Fresh
    /\ \A t, u \in W!Threads : Leaves(t) /\ Leaves(u) => t = u
    /\ Fresh => ~connected /\ unregistered = 0
    /\ connected => unregistered = 0
    /\ registered \/ todo["reader"] = Adding =>
         ~Fresh /\ (connected \/ unregistered = 1 \/ \E t \in W!Threads : Leaves(t))

SessionInvariant == SessionTypes /\ HandedOverTo

(* What the methods of Session run is plain.                               *)
LEMMA Programs ==
    /\ << >> \in Plain
    /\ \A f \in W!Frames : W!sendFrame(f) \in Plain
    /\ W!Disconnect \in Plain /\ W!DisconnectWithMessage \in Plain /\ W!disconnectNow \in Plain
  <1>1. \A f \in W!Frames : W!sendFrame(f) \in Plain
    BY DEF Plain, PlainSteps, W!sendFrame
  <1>2. "close" \in W!Frames /\ "disconnect" \in W!Frames
    BY DEF W!Frames
  <1>3. << <<"close">>, <<"disconnectFromNode">> >> \in Plain
    BY DEF Plain, PlainSteps
  <1>4. W!Disconnect \in Plain
    BY <1>1, <1>2, <1>3 DEF W!Disconnect, Plain
  <1>5. W!DisconnectWithMessage \in Plain
    BY <1>1, <1>2, <1>4 DEF W!DisconnectWithMessage, Plain
  <1>6. W!disconnectNow \in Plain
    BY DEF W!disconnectNow, Plain, PlainSteps
  <1> QED
    BY <1>1, <1>4, <1>5, <1>6 DEF Plain

(* The programs that are neither opening nor connecting.                   *)
LEMMA PlainForm ==
    ASSUME NEW q \in Plain
    PROVE  /\ q # Opening /\ q # Connecting /\ q # Adding
           /\ q # << >> => /\ Head(q) \in PlainSteps /\ Tail(q) \in Plain
                           /\ Head(q)[1] \notin {"unregister", "ifOpen", "connect", "addSession"}
           /\ LET u == << <<"unregister">> >> \o q IN
              u # << >> /\ Head(u) = <<"unregister">> /\ Tail(u) = q
  <1>1. \A p \in PlainSteps : p[1] \notin {"unregister", "ifOpen", "connect", "addSession"}
    BY DEF PlainSteps
  <1>2. q # << >> => Head(q) \in PlainSteps /\ Tail(q) \in Plain
    BY DEF Plain
  <1>3. q # Opening /\ q # Connecting /\ q # Adding
    BY <1>1, <1>2 DEF Opening, Connecting, Adding
  <1>4. LET u == << <<"unregister">> >> \o q IN
        u # << >> /\ Head(u) = <<"unregister">> /\ Tail(u) = q
    BY DEF Plain
  <1> QED
    BY <1>1, <1>2, <1>3, <1>4

(* Where a goroutine is, by the step that comes next.                      *)
LEMMA NextStep ==
    ASSUME SessionTypes, NEW t \in W!Threads, NEW name, W!At(t, name)
    PROVE  /\ name \notin {"unregister", "ifOpen", "connect", "addSession"} =>
                 /\ todo[t] \in Plain /\ Tail(todo[t]) \in Plain
                 /\ ~Leaves(t) /\ todo[t] # Adding
           /\ name = "unregister" => Leaves(t)
           /\ name = "ifOpen" => t = "reader" /\ todo[t] = Opening
           /\ name = "connect" => t = "reader" /\ todo[t] = Connecting
           /\ name = "addSession" => t = "reader" /\ todo[t] = Adding
  <1>1. todo[t] # << >> /\ Head(todo[t])[1] = name
    BY DEF W!At
  <1>2. ShapeOK(t)
    BY DEF SessionTypes
  <1>3. CASE todo[t] \in Plain
    <2>1. Tail(todo[t]) \in Plain /\ todo[t] # Adding
          /\ name \notin {"unregister", "ifOpen", "connect", "addSession"}
      BY <1>1, <1>3, PlainForm
    <2> QED
      BY <1>1, <1>3, <2>1 DEF Leaves
  <1>4. CASE Leaves(t)
    BY <1>1, <1>4 DEF Leaves
  <1>5. CASE t = "reader" /\ todo[t] \in {Opening, Connecting, Adding}
    <2>1. Opening # Connecting /\ Opening # Adding /\ Connecting # Adding
      BY DEF Opening, Connecting, Adding
    <2>2. /\ Head(Opening)[1] = "ifOpen" /\ Head(Connecting)[1] = "connect"
          /\ Head(Adding)[1] = "addSession"
      BY DEF Opening, Connecting, Adding
    <2> QED
      BY <1>1, <1>5, <2>1, <2>2
  <1> QED
    BY <1>2, <1>3, <1>4, <1>5 DEF ShapeOK

(* A goroutine goes on with plain steps only, and nothing else changes.    *)
LEMMA PlainKeeps ==
    ASSUME SessionInvariant, NEW t \in W!Threads, ~Leaves(t), todo[t] # Adding,
           NEW q \in Plain, todo' = [todo EXCEPT ![t] = q],
           UNCHANGED <<connected, registered, unregistered>>,
           writer' # "done" => todo'["writer"] = << >>
    PROVE  SessionInvariant'
  <1>1. "reader" \in W!Threads /\ "writer" \in W!Threads
    BY DEF W!Threads
  <1>2. todo \in [W!Threads -> Seq(Steps)] /\ q \in Seq(Steps)
    BY DEF SessionInvariant, SessionTypes, Plain, Steps
  <1>3. /\ todo' \in [W!Threads -> Seq(Steps)] /\ todo'[t] = q
        /\ \A u \in W!Threads : u # t => todo'[u] = todo[u]
    BY <1>2
  <1>4. \A u \in W!Threads : Leaves(u)' <=> Leaves(u)
    <2>1. ~Leaves(t)'
      BY <1>3, PlainForm DEF Leaves
    <2>2. \A u \in W!Threads : u # t => (Leaves(u)' <=> Leaves(u))
      BY <1>3 DEF Leaves
    <2> QED
      BY <2>1, <2>2
  <1>5. \A u \in W!Threads : ShapeOK(u)'
    <2>1. \A u \in W!Threads : u # t => ShapeOK(u)'
      BY <1>3, <1>4 DEF SessionInvariant, SessionTypes, ShapeOK
    <2> QED
      BY <1>3, <2>1 DEF ShapeOK
  <1>6. SessionTypes'
    BY <1>3, <1>5 DEF SessionInvariant, SessionTypes
  <1>7. Fresh' => Fresh
    BY <1>1, <1>3, PlainForm DEF Fresh
  <1>8. (todo["reader"] = Adding)' => todo["reader"] = Adding
    BY <1>1, <1>3, PlainForm
  <1>9. HandedOverTo'
    BY <1>4, <1>7, <1>8 DEF SessionInvariant, HandedOverTo
  <1> QED
    BY <1>6, <1>9 DEF SessionInvariant

(* Steps of the methods that are plain.                                    *)
LEMMA MovesOn ==
    ASSUME SessionInvariant, NEW t \in W!Threads, NEW name, W!At(t, name),
           name \notin {"unregister", "ifOpen", "connect", "addSession"},
           W!Done(t) \/ W!Return(t)
              \/ todo' = [todo EXCEPT ![t] = W!DisconnectWithMessage \o Tail(todo[t])],
           UNCHANGED <<connected, registered, unregistered, writer>>
    PROVE  SessionInvariant'
  <1>1. /\ todo[t] \in Plain /\ Tail(todo[t]) \in Plain
        /\ ~Leaves(t) /\ todo[t] # Adding /\ todo[t] # << >>
    BY NextStep DEF SessionInvariant, W!At
  <1>2. PICK q \in Plain : todo' = [todo EXCEPT ![t] = q]
    <2>1. CASE W!Done(t)
      BY <1>1, <2>1 DEF W!Done
    <2>2. CASE W!Return(t)
      BY <2>2, Programs DEF W!Return
    <2>3. CASE todo' = [todo EXCEPT ![t] = W!DisconnectWithMessage \o Tail(todo[t])]
      <3>1. W!DisconnectWithMessage \o Tail(todo[t]) \in Plain
        BY <1>1, Programs DEF Plain
      <3> QED
        BY <2>3, <3>1
    <2> QED
      BY <2>1, <2>2, <2>3
  <1>3. writer' # "done" => todo'["writer"] = << >>
    BY <1>1, <1>2 DEF SessionInvariant, SessionTypes
  <1> QED
    BY <1>1, <1>2, <1>3, PlainKeeps

(* The reader's steps until the session is in the hub.                     *)
LEMMA ReaderKeeps ==
    ASSUME SessionInvariant, NEW t \in W!Threads,
           W!IfOpen(t) \/ W!Connect(t) \/ W!AddSession(t)
    PROVE  SessionInvariant'
  <1>1. UNCHANGED <<unregistered, writer>>
    BY DEF W!IfOpen, W!Connect, W!AddSession, W!history
  <1>2. t = "reader" /\ t # "writer" /\ todo[t] \in {Opening, Connecting, Adding}
    BY NextStep DEF SessionInvariant, W!IfOpen, W!Connect, W!AddSession
  <1>3. ~Leaves(t)
    BY <1>2 DEF Leaves, Opening, Connecting, Adding
  <1>4. Opening # Connecting /\ Opening # Adding /\ Connecting # Adding
    BY DEF Opening, Connecting, Adding
  <1>5. todo \in [W!Threads -> Seq(Steps)] /\ "writer" \in W!Threads
    BY DEF SessionInvariant, SessionTypes, W!Threads
  <1>6. ASSUME NEW q \in {Connecting, Adding}, todo' = [todo EXCEPT ![t] = q]
        PROVE  /\ \A u \in W!Threads : Leaves(u)' <=> Leaves(u)
               /\ \A u \in W!Threads : ShapeOK(u)'
               /\ todo' \in [W!Threads -> Seq(Steps)] /\ todo'["reader"] = q
               /\ todo'["writer"] = todo["writer"]
    <2>1. /\ todo' \in [W!Threads -> Seq(Steps)] /\ todo'[t] = q
          /\ \A u \in W!Threads : u # t => todo'[u] = todo[u]
      <3>1. q \in Seq(Steps)
        <4>1. <<"connect">> \in Steps /\ <<"addSession">> \in Steps
          BY DEF Steps
        <4>2. Connecting \in Seq(Steps)
          BY <4>1 DEF Connecting
        <4>3. Adding \in Seq(Steps)
          BY <4>1 DEF Adding
        <4> QED
          BY <4>2, <4>3
      <3> QED
        BY <1>5, <1>6, <3>1
    <2>2. ~Leaves(t)'
      BY <2>1 DEF Leaves, Connecting, Adding
    <2>3. \A u \in W!Threads : Leaves(u)' <=> Leaves(u)
      BY <1>3, <2>1, <2>2 DEF Leaves
    <2>4. \A u \in W!Threads : u # t => ShapeOK(u)'
      BY <2>1, <2>3 DEF SessionInvariant, SessionTypes, ShapeOK
    <2> QED
      BY <1>2, <1>5, <2>1, <2>3, <2>4 DEF ShapeOK
  <1>7. CASE W!IfOpen(t)
    <2>1. UNCHANGED <<connected, registered>> /\ todo[t] = Opening
      BY <1>7, NextStep DEF SessionInvariant, W!IfOpen, W!history
    <2>2. CASE todo' = [todo EXCEPT ![t] = Connecting]
      BY <1>1, <1>2, <1>4, <1>6, <2>1, <2>2 DEF SessionInvariant, SessionTypes, HandedOverTo, Fresh
    <2>3. ASSUME NEW q \in Plain, todo' = [todo EXCEPT ![t] = q]
          PROVE  SessionInvariant'
      <3>1. writer' # "done" => todo'["writer"] = << >>
        BY <1>1, <1>2, <1>5, <2>3 DEF SessionInvariant, SessionTypes
      <3> QED
        BY <1>1, <1>3, <1>4, <2>1, <2>3, <3>1, PlainKeeps
    <2> QED
      BY <1>7, <2>2, <2>3, Programs DEF W!IfOpen, W!Return, Connecting
  <1>8. CASE W!Connect(t)
    <2>1. /\ UNCHANGED registered /\ connected' = TRUE /\ todo[t] = Connecting
      BY <1>8, NextStep DEF SessionInvariant, W!Connect, W!history
    <2>2. todo' = [todo EXCEPT ![t] = Adding]
      <3>1. Tail(Connecting) = Adding
        BY DEF Connecting, Adding
      <3> QED
        BY <1>8, <2>1, <3>1 DEF W!Connect, W!Done
    <2> QED
      BY <1>1, <1>2, <1>4, <1>6, <2>1, <2>2 DEF SessionInvariant, SessionTypes, HandedOverTo, Fresh
  <1>9. CASE W!AddSession(t)
    <2>1. UNCHANGED connected /\ todo[t] = Adding /\ todo' = [todo EXCEPT ![t] = << >>]
      <3>1. Tail(Adding) = << >>
        BY DEF Adding
      <3>2. UNCHANGED connected /\ todo[t] = Adding
        BY <1>9, NextStep DEF SessionInvariant, W!AddSession
      <3> QED
        BY <1>9, <3>1, <3>2 DEF W!AddSession, W!Done
    <2>2. /\ todo' \in [W!Threads -> Seq(Steps)] /\ todo'[t] = << >>
          /\ \A u \in W!Threads : u # t => todo'[u] = todo[u]
      BY <1>5, <2>1 DEF Steps
    <2>3. \A u \in W!Threads : Leaves(u)' <=> Leaves(u)
      BY <1>3, <2>2 DEF Leaves
    <2>4. \A u \in W!Threads : ShapeOK(u)'
      BY <2>2, <2>3, Programs DEF SessionInvariant, SessionTypes, ShapeOK
    <2>5. ~Fresh' /\ todo'["reader"] # Adding
      BY <1>2, <2>2, Programs, PlainForm DEF Fresh
    <2> QED
      BY <1>1, <1>2, <1>4, <1>5, <2>1, <2>2, <2>3, <2>4, <2>5
         DEF SessionInvariant, SessionTypes, HandedOverTo, Fresh
  <1> QED
    BY <1>7, <1>8, <1>9

(* disconnectFromNode: of those that find the session connected, one.      *)
LEMMA DisconnectFromNodeKeeps ==
    ASSUME SessionInvariant, NEW t \in W!Threads, W!DisconnectFromNode(t)
    PROVE  SessionInvariant'
  <1>1. /\ W!At(t, "disconnectFromNode") /\ connected' = FALSE
        /\ UNCHANGED <<registered, unregistered, writer>>
    BY DEF W!DisconnectFromNode, W!history
  <1>2. /\ todo[t] \in Plain /\ Tail(todo[t]) \in Plain
        /\ ~Leaves(t) /\ todo[t] # Adding /\ todo[t] # << >>
    BY <1>1, NextStep DEF SessionInvariant, W!At
  <1>3. CASE ~connected
    <2>1. W!Done(t) /\ UNCHANGED connected
      BY <1>1, <1>3 DEF SessionInvariant, SessionTypes, W!DisconnectFromNode, W!Done
    <2> QED
      BY <1>1, <2>1, MovesOn
  <1>4. CASE connected
    <2>1. PICK q : q = << <<"unregister">> >> \o Tail(todo[t])
      OBVIOUS
    <2>2. todo' = [todo EXCEPT ![t] = q]
      BY <1>4, <2>1 DEF W!DisconnectFromNode
    <2>3. /\ q # << >> /\ Head(q) = <<"unregister">> /\ Tail(q) \in Plain
          /\ q \in Seq(Steps)
      <3>1. PICK r \in Plain : r = Tail(todo[t])
        BY <1>2
      <3>2. q # << >> /\ Head(q) = <<"unregister">> /\ Tail(q) = r
        BY <2>1, <3>1, PlainForm
      <3>3. <<"unregister">> \in Steps /\ r \in Seq(Steps)
        BY DEF Plain, Steps
      <3>4. q \in Seq(Steps)
        BY <2>1, <3>1, <3>3
      <3> QED
        BY <3>1, <3>2, <3>4
    <2>4. todo \in [W!Threads -> Seq(Steps)] /\ {"reader", "writer"} \subseteq W!Threads
      BY DEF SessionInvariant, SessionTypes, W!Threads
    <2>5. /\ todo' \in [W!Threads -> Seq(Steps)] /\ todo'[t] = q
          /\ \A u \in W!Threads : u # t => todo'[u] = todo[u]
      BY <2>2, <2>3, <2>4
    <2>6. Leaves(t)' /\ \A u \in W!Threads : u # t => (Leaves(u)' <=> Leaves(u))
      BY <2>3, <2>5 DEF Leaves
    <2>7. \A u \in W!Threads : ShapeOK(u)'
      BY <2>5, <2>6 DEF SessionInvariant, SessionTypes, ShapeOK
    <2>8. \A u \in W!Threads : ~Leaves(u)
      BY <1>4 DEF SessionInvariant, HandedOverTo
    <2>9. ~Fresh'
      <3>1. Head(q)[1] = "unregister"
        BY <2>3
      <3>2. q # Opening /\ q # Connecting
        BY <3>1 DEF Opening, Connecting
      <3>3. ~Fresh
        BY <1>4 DEF SessionInvariant, HandedOverTo
      <3> QED
        BY <2>4, <2>5, <3>2, <3>3 DEF Fresh
    <2>10. SessionTypes'
      <3>1. t = "writer" => writer = "done"
        BY <1>2 DEF SessionInvariant, SessionTypes
      <3>2. writer' # "done" => todo'["writer"] = << >>
        BY <1>1, <2>4, <2>5, <3>1 DEF SessionInvariant, SessionTypes
      <3> QED
        BY <1>1, <2>5, <2>7, <3>2 DEF SessionInvariant, SessionTypes
    <2>11. HandedOverTo'
      BY <1>1, <1>4, <2>6, <2>8, <2>9 DEF SessionInvariant, HandedOverTo
    <2> QED
      BY <2>10, <2>11 DEF SessionInvariant
  <1> QED
    BY <1>3, <1>4

(* A thread unregisters the session.                                       *)
LEMMA UnregisterKeeps ==
    ASSUME SessionInvariant, NEW t \in W!Threads, W!Unregister(t)
    PROVE  SessionInvariant'
  <1>1. /\ unregistered' = unregistered + 1 /\ todo' = [todo EXCEPT ![t] = Tail(todo[t])]
        /\ UNCHANGED <<registered, connected, writer>>
    BY DEF W!Unregister, W!Done, SessionInvariant, SessionTypes
  <1>2. Leaves(t)
    BY NextStep DEF SessionInvariant, W!Unregister
  <1>3. /\ ~connected /\ unregistered = 0 /\ ~Fresh
        /\ \A u \in W!Threads : u # t => ~Leaves(u)
    BY <1>2 DEF SessionInvariant, HandedOverTo
  <1>4. PICK q \in Plain : q = Tail(todo[t])
    BY <1>2 DEF Leaves
  <1>5. todo \in [W!Threads -> Seq(Steps)] /\ {"reader", "writer"} \subseteq W!Threads
    BY DEF SessionInvariant, SessionTypes, W!Threads
  <1>6. /\ todo' \in [W!Threads -> Seq(Steps)] /\ todo'[t] = q
        /\ \A u \in W!Threads : u # t => todo'[u] = todo[u]
    <2>1. q \in Seq(Steps)
      BY DEF Plain, Steps
    <2> QED
      BY <1>1, <1>4, <1>5, <2>1
  <1>7. \A u \in W!Threads : ~Leaves(u)'
    BY <1>3, <1>6, PlainForm DEF Leaves
  <1>8. \A u \in W!Threads : ShapeOK(u)'
    <2>1. \A u \in W!Threads : u # t => ShapeOK(u)'
      BY <1>3, <1>6 DEF SessionInvariant, SessionTypes, ShapeOK
    <2> QED
      BY <1>6, <2>1 DEF ShapeOK
  <1>9. ~Fresh'
    BY <1>3, <1>5, <1>6, PlainForm DEF Fresh
  <1>10. writer' # "done" => todo'["writer"] = << >>
    BY <1>1, <1>2, <1>5, <1>6 DEF SessionInvariant, SessionTypes, Leaves
  <1>11. SessionTypes'
    BY <1>1, <1>3, <1>6, <1>8, <1>10 DEF SessionInvariant, SessionTypes
  <1>12. HandedOverTo'
    BY <1>1, <1>3, <1>7, <1>9 DEF HandedOverTo
  <1> QED
    BY <1>11, <1>12 DEF SessionInvariant

(* A thread takes a step of its program.                                   *)
LEMMA StepKeeps ==
    ASSUME SessionInvariant, NEW t \in W!Threads, W!Step(t)
    PROVE  SessionInvariant'
  <1>1. CASE W!Load(t)
    BY <1>1, MovesOn DEF W!Load, W!history
  <1>2. CASE W!PushFrame(t)
    <2>1. UNCHANGED <<connected, registered, unregistered, writer>>
      BY <1>2 DEF W!PushFrame
    <2>2. W!Done(t) \/ todo' = [todo EXCEPT ![t] = W!DisconnectWithMessage \o Tail(todo[t])]
      BY <1>2 DEF W!PushFrame, SessionInvariant, SessionTypes
    <2>3. W!At(t, "push")
      BY <1>2 DEF W!PushFrame
    <2> QED
      BY <2>1, <2>2, <2>3, MovesOn
  <1>3. CASE W!CloseSession(t)
    BY <1>3, MovesOn DEF W!CloseSession, W!history
  <1>4. CASE W!IfConnected(t)
    <2>1. UNCHANGED <<connected, registered, unregistered, writer>> /\ W!At(t, "ifConnected")
      BY <1>4 DEF W!IfConnected, W!history
    <2>2. W!Done(t) \/ W!Return(t)
      BY <1>4 DEF W!IfConnected
    <2> QED
      BY <2>1, <2>2, MovesOn
  <1>5. CASE W!CloseConn(t)
    BY <1>5, MovesOn DEF W!CloseConn, W!history
  <1>6. CASE W!CloseQueue(t)
    BY <1>6, MovesOn DEF W!CloseQueue, W!history
  <1> QED
    BY <1>1, <1>2, <1>3, <1>4, <1>5, <1>6, ReaderKeeps, DisconnectFromNodeKeeps, UnregisterKeeps
       DEF W!Step

(* A call begins, in a goroutine that is at nothing else.                  *)
LEMMA BeginKeeps ==
    ASSUME SessionInvariant, NEW c \in Callers, NEW program \in Plain, W!Begin(c, program)
    PROVE  SessionInvariant'
  <1>1. /\ todo[c] = << >> /\ todo' = [todo EXCEPT ![c] = program]
        /\ UNCHANGED <<connected, registered, unregistered, writer>>
    BY DEF W!Begin
  <1>2. c \in W!Threads /\ c # "writer"
    BY MCSessionAssumption DEF W!Threads, W!SessionAssumption
  <1>3. ~Leaves(c) /\ todo[c] # Adding
    BY <1>1, Programs, PlainForm DEF Leaves
  <1>4. writer' # "done" => todo'["writer"] = << >>
    BY <1>1, <1>2 DEF SessionInvariant, SessionTypes
  <1> QED
    BY <1>1, <1>2, <1>3, <1>4, PlainKeeps

(* A caller sends, disconnects, or finds the session idle or its ping lost.*)
LEMMA CallKeeps ==
    ASSUME SessionInvariant, NEW c \in Callers,
           W!Send(c) \/ W!CallDisconnectWithMessage(c) \/ W!IdleTimeout(c) \/ W!PingFails(c)
    PROVE  SessionInvariant'
  <1>1. "msg" \in W!Frames
    BY DEF W!Frames
  <1>2. \E program \in Plain : W!Begin(c, program)
    BY <1>1, Programs DEF W!Send, W!CallDisconnectWithMessage, W!IdleTimeout, W!PingFails
  <1> QED
    BY <1>2, BeginKeeps

(* The reader and the writer.                                              *)
LEMMA LoopKeeps ==
    ASSUME SessionInvariant,
           W!WriterWrite \/ W!ReadFails \/ W!CommandFails
    PROVE  SessionInvariant'
  <1>1. /\ UNCHANGED <<connected, registered, unregistered>>
        /\ writer # "done" => (writer' = writer \/ W!WriterWrite) /\ todo["writer"] = << >>
        /\ writer = "done" => writer' = "done"
    BY DEF W!WriterWrite, W!ReadFails, W!CommandFails, W!history, SessionInvariant, SessionTypes
  <1>2. todo \in [W!Threads -> Seq(Steps)] /\ {"reader", "writer"} \subseteq W!Threads
    BY DEF SessionInvariant, SessionTypes, W!Threads
  <1>3. ASSUME NEW t \in {"reader", "writer"}, todo[t] = << >>, NEW q \in Plain,
               todo' = [todo EXCEPT ![t] = q], t = "writer" /\ q # << >> => writer' = "done"
        PROVE  SessionInvariant'
    <2>1. ~Leaves(t) /\ todo[t] # Adding
      BY <1>3, Programs, PlainForm DEF Leaves
    <2>2. writer' # "done" => todo'["writer"] = << >>
      BY <1>1, <1>2, <1>3
    <2> QED
      BY <1>1, <1>2, <1>3, <2>1, <2>2, PlainKeeps
  <1>4. CASE W!WriterWrite
    <2>1. todo["writer"] = << >>
      BY <1>4 DEF W!WriterWrite, SessionInvariant, SessionTypes
    <2>2. \/ todo' = [todo EXCEPT !["writer"] = << >>]
          \/ todo' = [todo EXCEPT !["writer"] = W!disconnectNow] /\ writer' = "done"
      BY <1>2, <1>4, <2>1 DEF W!WriterWrite
    <2> QED
      BY <1>3, <2>1, <2>2, Programs
  <1>5. CASE W!ReadFails \/ W!CommandFails
    <2>1. /\ todo["reader"] = << >>
          /\ \/ todo' = [todo EXCEPT !["reader"] = W!disconnectNow]
             \/ todo' = [todo EXCEPT !["reader"] = W!Disconnect]
      BY <1>5 DEF W!ReadFails, W!CommandFails
    <2> QED
      BY <1>3, <2>1, Programs
  <1> QED
    BY <1>4, <1>5

(* Nothing of the above changes.                                           *)
LEMMA OthersKeep ==
    ASSUME SessionInvariant, UNCHANGED <<connected, registered, unregistered, todo>>,
           writer' # "done" => writer # "done"
    PROVE  SessionInvariant'
  <1>1. \A t \in W!Threads : (Leaves(t)' <=> Leaves(t)) /\ (ShapeOK(t)' <=> ShapeOK(t))
    BY DEF Leaves, ShapeOK
  <1>2. Fresh' <=> Fresh
    BY DEF Fresh
  <1> QED
    BY <1>1, <1>2 DEF SessionInvariant, SessionTypes, HandedOverTo

(* Every step of the session keeps the invariant.                          *)
LEMMA SessionNext == SessionInvariant /\ W!Next => SessionInvariant'
  <1> SUFFICES ASSUME SessionInvariant, W!Next
               PROVE  SessionInvariant'
    OBVIOUS
  <1>1. CASE W!WriterWait \/ W!WriterWake \/ W!WriterRemove
    BY <1>1, OthersKeep DEF W!WriterWait, W!WriterWake, W!WriterRemove, W!history
  <1>2. CASE W!ReaderQuits \/ W!PeerLeaves \/ W!PeerStalls
    BY <1>2, OthersKeep DEF W!ReaderQuits, W!PeerLeaves, W!PeerStalls, W!history
  <1> QED
    BY <1>1, <1>2, StepKeeps, CallKeeps, LoopKeeps DEF W!Next

(* The invariant of the session holds at the start.                        *)
LEMMA SessionInit == W!Init => SessionInvariant
  <1> SUFFICES ASSUME W!Init
               PROVE  SessionInvariant
    OBVIOUS
  <1>1. /\ connected = FALSE /\ unregistered = 0 /\ registered = FALSE
        /\ todo = [t \in W!Threads |-> IF t = "reader" THEN Opening ELSE << >>]
    BY DEF W!Init, W!Authenticate, Opening
  <1>2. "reader" \in W!Threads /\ "writer" \in W!Threads
    BY DEF W!Threads
  <1>3. Opening \in Seq(Steps) /\ << >> \in Seq(Steps)
    <2>1. <<"ifOpen">> \in Steps
      BY DEF Steps
    <2> QED
      BY <2>1 DEF Opening
  <1>4. todo \in [W!Threads -> Seq(Steps)] /\ todo["reader"] = Opening
        /\ \A t \in W!Threads : t # "reader" => todo[t] = << >>
    BY <1>1, <1>2, <1>3
  <1>5. \A t \in W!Threads : ShapeOK(t) /\ ~Leaves(t)
    BY <1>4, Programs DEF ShapeOK, Leaves, Opening
  <1>6. Fresh /\ todo["reader"] # Adding
    BY <1>4 DEF Fresh, Opening, Adding
  <1> QED
    BY <1>1, <1>2, <1>4, <1>5, <1>6 DEF SessionInvariant, SessionTypes, HandedOverTo

(* A session is handed to Node.Disconnect at most once, and one that was   *)
(* added to the hub and is not connected any more has been or is being     *)
(* handed over, whoever ends it: any number of callers, the writer and the *)
(* reader.                                                                 *)
THEOREM SessionLeavesHubOnce == MCSpec => []HandedOverOnce
  <1>1. MCInit => SessionInvariant
    BY SessionInit DEF MCInit
  <1>2. SessionInvariant /\ [MCNext]_<<part, vars, session, pool>> => SessionInvariant'
    <2> SUFFICES ASSUME SessionInvariant, [MCNext]_<<part, vars, session, pool>>
                 PROVE  SessionInvariant'
      OBVIOUS
    <2>1. W!Next \/ UNCHANGED session
      BY DEF MCNext
    <2>2. CASE UNCHANGED session
      BY <2>2, OthersKeep DEF session
    <2> QED
      BY <2>1, <2>2, SessionNext
  <1>3. SessionInvariant => HandedOverOnce
    <2> SUFFICES ASSUME SessionInvariant
                 PROVE  HandedOverOnce
      OBVIOUS
    <2>1. ASSUME NEW t \in W!Threads, Leaves(t)
          PROVE  t \in W!Unregistering
      <3>1. todo[t] \in Seq(Steps) /\ todo[t] # << >> /\ Head(todo[t]) = <<"unregister">>
        BY <2>1 DEF SessionInvariant, SessionTypes, Leaves
      <3>2. 1 \in DOMAIN todo[t] /\ todo[t][1][1] = "unregister"
        BY <3>1
      <3> QED
        BY <3>2 DEF W!Unregistering
    <2> QED
      BY <2>1 DEF SessionInvariant, SessionTypes, HandedOverTo, HandedOverOnce, W!HandedOverOnce
  <1> QED
    BY <1>1, <1>2, <1>3, PTL DEF MCSpec
=============================================================================
