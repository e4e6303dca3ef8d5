-------------------------- MODULE KeepaliveProofs ---------------------------
(***************************************************************************)
(* Proofs about what keeps a session alive: the sessions cache of the      *)
(* in-memory broker, its presence, and the timers of a session.            *)
(***************************************************************************)
EXTENDS MCKeepalive, FiniteSetTheorems, FunctionTheorems, WellFoundedInduction, TLAPS

all == <<part, vars, presence, cache>>

(* Every step is a step of one part, which leaves the others alone.        *)
LEMMA OnePartMoves ==
    ASSUME [MCNext]_all
    PROVE  [Next]_vars /\ [P!Next]_presence /\ [C!Next]_cache
PROOF
    <1>1. CASE MCNext
      BY <1>1 DEF MCNext
    <1>2. CASE UNCHANGED all
      BY <1>2 DEF all
    <1> QED
      BY <1>1, <1>2

-----------------------------------------------------------------------------
(* The sessions cache.                                                     *)

(* A heap in the first n places of p: no item is before its parent.        *)
Parent(k) == k \div 2
IsHeap(p, n) == \A k \in 2 .. n : p[Parent(k)] <= p[k]

(* A heap but for the item in place j, which may be before its parent.     *)
UpHeap(p, n, j) ==
    /\ \A k \in 2 .. n : k # j => p[Parent(k)] <= p[k]
    /\ j > 1 => \A k \in 2 .. n : Parent(k) = j => p[Parent(j)] <= p[k]

(* A heap but for the item in place i, which may be after its children     *)
(* and, if it has not moved yet, before its parent.                        *)
DownHeap(p, n, i, from) ==
    /\ \A k \in 2 .. n : Parent(k) # i /\ (k = i => i # from) => p[Parent(k)] <= p[k]
    /\ i > 1 => \A k \in 2 .. n : Parent(k) = i => p[Parent(i)] <= p[k]

Swapped(p, q, m, i, j) ==
    /\ q \in [1 .. m -> Nat]
    /\ q[i] = p[j] /\ q[j] = p[i]
    /\ \A k \in 1 .. m : k # i /\ k # j => q[k] = p[k]

(* Where parents and children are.                                         *)
LEMMA ParentPlace ==
    \A k \in Nat : k >= 2 =>
        /\ Parent(k) \in Nat /\ 1 <= Parent(k) /\ Parent(k) < k
        /\ k = 2 * Parent(k) \/ k = 2 * Parent(k) + 1
PROOF
    BY DEF Parent

(* The converse.                                                           *)
LEMMA ChildPlace ==
    \A k \in Nat : k >= 1 => Parent(2 * k) = k /\ Parent(2 * k + 1) = k
PROOF
    BY DEF Parent

(* A round of sift-up.                                                     *)
LEMMA UpKeeps ==
    ASSUME NEW m \in Nat, NEW p \in [1 .. m -> Nat], NEW q, NEW j \in 2 .. m,
           UpHeap(p, m, j), p[j] < p[Parent(j)], Swapped(p, q, m, Parent(j), j)
    PROVE  UpHeap(q, m, Parent(j))
PROOF
    <1>0. Parent(j) \in 1 .. m /\ Parent(j) < j
      BY ParentPlace
    <1>a. \A k \in 2 .. m : Parent(k) \in 1 .. m /\ Parent(k) < k
      BY ParentPlace
    <1>1. ASSUME NEW k \in 2 .. m, k # Parent(j)
          PROVE  q[Parent(k)] <= q[k]
      <2>1. CASE k = j
        BY <1>0, <2>1 DEF Swapped
      <2>2. CASE k # j /\ Parent(k) = Parent(j)
        BY <1>0, <1>1, <2>2 DEF Swapped, UpHeap
      <2>3. CASE k # j /\ Parent(k) = j
        BY <1>0, <1>1, <2>3 DEF Swapped, UpHeap
      <2>4. CASE k # j /\ Parent(k) # Parent(j) /\ Parent(k) # j
        <3>1. p[Parent(k)] <= p[k]
          BY <2>4 DEF UpHeap
        <3>2. Parent(k) \in 1 .. m /\ k \in 1 .. m
          BY <1>a
        <3>3. q[Parent(k)] = p[Parent(k)] /\ q[k] = p[k]
          BY <1>1, <2>4, <3>2 DEF Swapped
        <3> QED
          BY <3>1, <3>3
      <2> QED
        BY <2>1, <2>2, <2>3, <2>4
    <1>2. ASSUME Parent(j) > 1, NEW k \in 2 .. m, Parent(k) = Parent(j)
          PROVE  q[Parent(Parent(j))] <= q[k]
      <2>1. Parent(j) \in 2 .. m /\ Parent(Parent(j)) \in 1 .. m /\ Parent(Parent(j)) < Parent(j)
        BY <1>0, <1>2, <1>a
      <2>2. p[Parent(Parent(j))] <= p[Parent(j)]
        BY <1>0, <2>1 DEF UpHeap
      <2>3. q[Parent(Parent(j))] = p[Parent(Parent(j))]
        BY SMTT(30), <1>0, <2>1 DEF Swapped
      <2>4. CASE k = j
        BY <1>0, <2>1, <2>2, <2>3, <2>4 DEF Swapped
      <2>5. CASE k # j
        <3>1. k # Parent(j)
          BY <1>2, <1>a
        <3>2. q[k] = p[k] /\ p[Parent(j)] <= p[k]
          BY <1>2, <2>5, <3>1 DEF Swapped, UpHeap
        <3> QED
          BY <2>1, <2>2, <2>3, <3>2, <1>0
      <2> QED
        BY <2>4, <2>5
    <1> QED
      BY <1>1, <1>2 DEF UpHeap

(* A round of sift-down, to the smaller child c.                           *)
LEMMA DownKeeps ==
    ASSUME NEW m \in Nat, NEW p \in [1 .. m -> Nat], NEW q, NEW n \in 0 .. m, NEW i \in 1 .. n,
           NEW c \in 2 .. n, Parent(c) = i, NEW from \in 1 .. i,
           DownHeap(p, n, i, from), p[c] < p[i], \A k \in 2 .. n : Parent(k) = i => p[c] <= p[k],
           Swapped(p, q, m, i, c)
    PROVE  DownHeap(q, n, c, from)
PROOF
    <1>a. \A k \in 2 .. n : Parent(k) \in 1 .. n /\ Parent(k) < k
      BY ParentPlace
    <1>0. i < c /\ c # from /\ i \in 1 .. m /\ c \in 1 .. m
      BY <1>a
    <1>1. ASSUME NEW k \in 2 .. n, Parent(k) # c
          PROVE  q[Parent(k)] <= q[k]
      <2>1. CASE k = c
        BY <1>0, <2>1 DEF Swapped
      <2>2. CASE k # c /\ Parent(k) = i
        <3>1. q[k] = p[k]
          BY SMTT(30), <1>a, <2>2 DEF Swapped
        <3> QED
          BY <3>1, <2>2, <1>0 DEF Swapped
      <2>3. CASE k = i
        <3>1. p[Parent(i)] <= p[c]
          BY <2>3 DEF DownHeap
        <3>2. q[Parent(i)] = p[Parent(i)]
          BY SMTT(30), <1>0, <1>a, <2>3 DEF Swapped
        <3> QED
          BY <3>1, <3>2, <2>3 DEF Swapped
      <2>4. CASE k # c /\ Parent(k) # i /\ k # i
        <3>1. p[Parent(k)] <= p[k]
          BY <2>4 DEF DownHeap
        <3>2. Parent(k) \in 1 .. m /\ k \in 1 .. m
          BY <1>a
        <3>3. q[Parent(k)] = p[Parent(k)] /\ q[k] = p[k]
          BY <1>1, <2>4, <3>2 DEF Swapped
        <3> QED
          BY <3>1, <3>3
      <2> QED
        BY <2>1, <2>2, <2>3, <2>4
    <1>2. ASSUME NEW k \in 2 .. n, Parent(k) = c
          PROVE  q[Parent(c)] <= q[k]
      <2>0. Parent(k) # i /\ k # i
        BY <1>0, <1>2, <1>a
      <2>1. p[c] <= p[k]
        BY <1>2, <2>0 DEF DownHeap
      <2>2. q[k] = p[k]
        BY <1>0, <1>2, <1>a DEF Swapped
      <2> QED
        BY <2>1, <2>2 DEF Swapped
    <1> QED
      BY <1>1, <1>2 DEF DownHeap

(* The least of a set of numbers.                                          *)
LEMMA LeastIn ==
    ASSUME NEW S \in SUBSET Nat, S # {}
    PROVE  \E x \in S : \A y \in S : x <= y
PROOF
  <1> DEFINE Upto(x) == {y \in S : y <= x}
             R == StrictSubsetOrdering(Nat)
             T == {Upto(x) : x \in S}
  <1>1. \A x \in S : Upto(x) \in FiniteSubsetsOf(Nat)
    <2> TAKE x \in S
    <2>1. x \in Nat /\ Upto(x) \in SUBSET Nat
      OBVIOUS
    <2>2. \A y \in Upto(x) : y <= x
      OBVIOUS
    <2>3. IsFiniteSet(Upto(x))
      <3> HIDE DEF Upto
      <3> QED
        BY <2>1, <2>2, FS_BoundedSetOfNaturals
    <2> QED
      BY <2>1, <2>3 DEF FiniteSubsetsOf
  <1>2. IsWellFoundedOn(R, FiniteSubsetsOf(Nat)) /\ T \subseteq FiniteSubsetsOf(Nat) /\ T # {}
    BY <1>1, FS_StrictSubsetOrderingWellFounded
  <1>3. PICK t \in T : \A u \in T : ~(<<u, t>> \in R)
    <2> HIDE DEF R, T
    <2> QED
      BY <1>2, WFMin
  <1>4. PICK x \in S : t = Upto(x)
    OBVIOUS
  <1>5. ASSUME NEW y \in S, ~(x <= y)
        PROVE  FALSE
    <2>1. x \in Nat /\ y \in Nat /\ y < x
      BY <1>5
    <2>2. \A z \in Nat : z <= y => z <= x
      BY <2>1
    <2>3. Upto(y) \subseteq Upto(x) /\ x \in Upto(x) /\ x \notin Upto(y)
      <3>1. \A z \in S : z \in Nat
        OBVIOUS
      <3>2. x <= x /\ ~(x <= y)
        BY <2>1
      <3> QED
        BY <2>2, <3>1, <3>2
    <2>4. Upto(y) \in T /\ Upto(y) \in SUBSET Nat /\ Upto(x) \in SUBSET Nat
      OBVIOUS
    <2>5. <<Upto(y), Upto(x)>> \in R
      BY <2>3, <2>4 DEF StrictSubsetOrdering
    <2> QED
      BY <2>4, <2>5, <1>3, <1>4
  <1> QED
    BY <1>5

(* The first item of a heap is one of the earliest: a smallest place with  *)
(* an earlier item would have a parent with an earlier item.               *)
LEMMA RootIsLeast ==
    ASSUME NEW n \in Nat, NEW p \in [1 .. n -> Nat], IsHeap(p, n), NEW k \in 1 .. n
    PROVE  p[1] <= p[k]
PROOF
    <1> DEFINE S == {j \in 1 .. n : p[j] < p[1]}
    <1>1. SUFFICES ASSUME S # {} PROVE FALSE
      <2>1. p[1] \in Nat /\ p[k] \in Nat
        OBVIOUS
      <2> QED
        BY <1>1, <2>1
    <1>2. PICK j \in S : \A y \in S : j <= y
      <2>1. S \in SUBSET Nat
        OBVIOUS
      <2> HIDE DEF S
      <2> QED
        BY <1>1, <2>1, LeastIn
    <1>3. j \in 2 .. n
      OBVIOUS
    <1>4. Parent(j) \in 1 .. n /\ Parent(j) < j /\ p[Parent(j)] <= p[j]
      BY <1>3, ParentPlace DEF IsHeap
    <1>5. Parent(j) \in S
      BY <1>4
    <1> QED
      BY <1>2, <1>4, <1>5

-----------------------------------------------------------------------------

(* The deadlines in the order of the heap, and the times when the first    *)
(* item of it may be due.                                                  *)
Prs == [k \in 1 .. Len(heap) |-> priority[heap[k]]]
Sweeping == op.at = "expire" \/ (op.at = "down" /\ op.pop)

CacheTypes ==
    /\ clock \in Nat /\ swept \in Nat /\ swept <= clock
    /\ cached \subseteq Cached /\ heap \in Seq(Cached)
    /\ priority \in [Cached -> Nat] /\ index \in [Cached -> Nat] /\ until \in [Cached -> Nat]

(* What holds the mutex.                                                   *)
OpPlaces ==
    \/ op = C!Free
    \/ op = [at |-> "expire"]
    \/ \E j \in 1 .. Len(heap) : op = C!Up(j)
    \/ \E i \in 1 .. Len(heap) : \E from \in 1 .. i :
          op = C!Down(i, Len(heap), from, FALSE)
    \/ \E i \in 1 .. Len(heap) :
          op = C!Down(i, Len(heap) - 1, 1, TRUE)

(* The remembered places are right.                                        *)
Places ==
    /\ \A k \in 1 .. Len(heap) : heap[k] \in cached /\ index[heap[k]] = k
    /\ \A s \in cached : index[s] \in 1 .. Len(heap) /\ heap[index[s]] = s

(* An item has the deadline of its session, and what is gone was due.      *)
Deadlines ==
    /\ \A s \in cached : priority[s] = until[s]
    /\ \A s \in Cached : s \notin cached => until[s] <= swept
    /\ ~Sweeping => \A s \in cached : until[s] > swept
    /\ op.at = "down" /\ op.pop => until[heap[Len(heap)]] <= swept

(* The heap is one, but for the item that is on its way.                   *)
HeapOrder ==
    /\ op.at \in {"free", "expire"} => IsHeap(Prs, Len(heap))
    /\ op.at = "up" => UpHeap(Prs, Len(heap), op.j)
    /\ op.at = "down" => DownHeap(Prs, op.n, op.i, op.from)

CacheInv == CacheTypes /\ OpPlaces /\ Places /\ Deadlines /\ HeapOrder

(* The five forms of op, by its place.                                     *)
LEMMA OpForms ==
    ASSUME CacheInv
    PROVE  /\ op.at = "free" => op = C!Free
           /\ op.at = "up" => op.j \in 1 .. Len(heap) /\ op = C!Up(op.j)
           /\ op.at = "down" =>
                 /\ op.i \in 1 .. Len(heap) /\ op.from \in 1 .. op.i
                 /\ \/ /\ op.pop = FALSE /\ op.n = Len(heap)
                       /\ op = C!Down(op.i, Len(heap), op.from, FALSE)
                    \/ /\ op.pop = TRUE /\ op.n = Len(heap) - 1 /\ op.from = 1
                       /\ op = C!Down(op.i, Len(heap) - 1, 1, TRUE)
PROOF
    BY DEF CacheInv, OpPlaces, C!Free, C!Up, C!Down

(* Swap keeps the places right and swaps the deadlines.                    *)
LEMMA SwapKeeps ==
    ASSUME CacheTypes, Places, NEW i \in 1 .. Len(heap), NEW j \in 1 .. Len(heap),
           C!Swap(i, j), UNCHANGED <<priority, cached>>
    PROVE  /\ heap' \in Seq(Cached) /\ Len(heap') = Len(heap)
           /\ index' \in [Cached -> Nat]
           /\ Places'
           /\ Swapped(Prs, Prs', Len(heap), i, j)
           /\ heap'[i] = heap[j] /\ heap'[j] = heap[i]
           /\ \A k \in 1 .. Len(heap) : k # i /\ k # j => heap'[k] = heap[k]
PROOF
    <1>0. heap \in [1 .. Len(heap) -> Cached] /\ Len(heap) \in Nat
      BY DEF CacheTypes
    <1>1. heap' = [heap EXCEPT ![i] = heap[j], ![j] = heap[i]]
      BY DEF C!Swap
    <1>2. heap' \in Seq(Cached) /\ Len(heap') = Len(heap)
      BY <1>0, <1>1 DEF CacheTypes
    <1>3. heap'[i] = heap[j] /\ heap'[j] = heap[i]
      BY <1>0, <1>1
    <1>4. \A k \in 1 .. Len(heap) : k # i /\ k # j => heap'[k] = heap[k]
      BY <1>0, <1>1
    <1>5. index' = [index EXCEPT ![heap[j]] = i, ![heap[i]] = j]
      BY DEF C!Swap
    <1>6. index' \in [Cached -> Nat]
      <2>1. heap[i] \in Cached /\ heap[j] \in Cached /\ i \in Nat /\ j \in Nat
        BY <1>0
      <2>2. index \in [Cached -> Nat]
        BY DEF CacheTypes
      <2> QED
        BY ONLY <1>5, <2>1, <2>2
    <1>7. index'[heap[i]] = j /\ index'[heap[j]] = i
      BY <1>0, <1>5 DEF CacheTypes, Places
    <1>8. \A s \in Cached : s # heap[i] /\ s # heap[j] => index'[s] = index[s]
      BY <1>0, <1>5 DEF CacheTypes
    <1>9. ASSUME NEW k \in 1 .. Len(heap) PROVE heap'[k] \in cached /\ index'[heap'[k]] = k
      <2>1. CASE k = i \/ k = j
        BY <1>3, <1>7, <2>1 DEF Places
      <2>2. CASE k # i /\ k # j
        <3>1. heap[k] # heap[i] /\ heap[k] # heap[j]
          BY <2>2 DEF Places
        <3> QED
          BY <1>0, <1>4, <1>8, <2>2, <3>1 DEF Places
      <2> QED
        BY <2>1, <2>2
    <1>10. ASSUME NEW s \in cached PROVE index'[s] \in 1 .. Len(heap) /\ heap'[index'[s]] = s
      <2>0. s \in Cached
        BY DEF CacheTypes
      <2>1. CASE s = heap[i] \/ s = heap[j]
        BY <1>3, <1>7, <2>1
      <2>2. CASE s # heap[i] /\ s # heap[j]
        BY <1>4, <1>8, <2>0, <2>2 DEF Places
      <2> QED
        BY <2>1, <2>2
    <1>11. Places'
      BY <1>2, <1>9, <1>10 DEF Places
    <1>12. Swapped(Prs, Prs', Len(heap), i, j)
      <2>0. Prs' = [k \in 1 .. Len(heap) |-> priority[heap'[k]]]
        BY <1>2 DEF Prs
      <2>2. Prs' \in [1 .. Len(heap) -> Nat]
        <3>1. \A k \in 1 .. Len(heap) : heap'[k] \in Cached
          BY <1>2
        <3> QED
          BY <2>0, <3>1 DEF CacheTypes
      <2>3. Prs'[i] = Prs[j] /\ Prs'[j] = Prs[i]
        BY <1>3, <2>0 DEF Prs
      <2>4. \A k \in 1 .. Len(heap) : k # i /\ k # j => Prs'[k] = Prs[k]
        BY <1>4, <2>0 DEF Prs
      <2> QED
        BY <2>2, <2>3, <2>4 DEF Swapped
    <1> QED
      BY <1>2, <1>3, <1>4, <1>6, <1>11, <1>12

(* Deadlines and places as functions of a place.                           *)
LEMMA PrsType ==
    ASSUME CacheTypes
    PROVE  /\ Len(heap) \in Nat /\ heap \in [1 .. Len(heap) -> Cached]
           /\ Prs \in [1 .. Len(heap) -> Nat]
           /\ \A k \in 1 .. Len(heap) : Prs[k] = priority[heap[k]]
PROOF
    <1>1. Len(heap) \in Nat /\ heap \in [1 .. Len(heap) -> Cached]
      BY DEF CacheTypes
    <1> QED
      BY <1>1 DEF CacheTypes, Prs

(* A round of up.                                                          *)
LEMMA UpStepKeeps ==
    ASSUME CacheInv, C!UpStep
    PROVE  CacheInv'
PROOF
    <1>0. op.at = "up" /\ op.j \in 1 .. Len(heap) /\ op = C!Up(op.j) /\ UpHeap(Prs, Len(heap), op.j)
      BY OpForms DEF C!UpStep, CacheInv, HeapOrder
    <1>1. Len(heap) \in Nat /\ heap \in [1 .. Len(heap) -> Cached]
          /\ Prs \in [1 .. Len(heap) -> Nat] /\ \A k \in 1 .. Len(heap) : Prs[k] = priority[heap[k]]
      BY PrsType DEF CacheInv
    <1>2. UNCHANGED <<clock, cached, priority, until, swept>>
      BY DEF C!UpStep
    <1>3. CASE op.j = 1 \/ ~C!Less(op.j, op.j \div 2)
      <2>1. op' = C!Free /\ UNCHANGED <<heap, index>>
        BY <1>3 DEF C!UpStep
      <2>2. CacheTypes' /\ Places' /\ Prs' = Prs /\ Len(heap') = Len(heap)
        BY <1>2, <2>1 DEF CacheInv, CacheTypes, Places, Prs
      <2>3. OpPlaces'
        BY <2>1 DEF OpPlaces, C!Free
      <2>4. op'.at = "free"
        BY <2>1 DEF C!Free
      <2>5. Deadlines'
        BY <1>0, <1>2, <2>1, <2>4 DEF CacheInv, Deadlines, Sweeping
      <2>6. IsHeap(Prs, Len(heap))
        <3> SUFFICES ASSUME NEW k \in 2 .. Len(heap) PROVE Prs[Parent(k)] <= Prs[k]
          BY DEF IsHeap
        <3>1. CASE k # op.j
          BY <1>0, <3>1 DEF UpHeap
        <3>2. CASE k = op.j
          <4>1. Parent(k) \in 1 .. Len(heap) /\ k \in 1 .. Len(heap)
            BY ParentPlace
          <4>2. ~(priority[heap[k]] < priority[heap[Parent(k)]])
            BY <1>3, <3>2 DEF C!Less, Parent
          <4>3. ~(Prs[k] < Prs[Parent(k)]) /\ Prs[k] \in Nat /\ Prs[Parent(k)] \in Nat
            BY <1>1, <4>1, <4>2
          <4> QED
            BY <4>3
        <3> QED
          BY <3>1, <3>2
      <2>7. HeapOrder'
        BY <2>2, <2>4, <2>6 DEF HeapOrder
      <2> QED
        BY <2>2, <2>3, <2>5, <2>7 DEF CacheInv
    <1>4. CASE ~(op.j = 1 \/ ~C!Less(op.j, op.j \div 2))
      <2>0. op.j \in 2 .. Len(heap) /\ Parent(op.j) \in 1 .. Len(heap)
        BY <1>0, <1>4, ParentPlace
      <2>1. C!Swap(Parent(op.j), op.j) /\ op' = C!Up(Parent(op.j))
        BY <1>4 DEF C!UpStep, Parent
      <2>2. /\ heap' \in Seq(Cached) /\ Len(heap') = Len(heap)
            /\ index' \in [Cached -> Nat]
            /\ Places'
            /\ Swapped(Prs, Prs', Len(heap), Parent(op.j), op.j)
        BY <1>2, <2>0, <2>1, SwapKeeps DEF CacheInv
      <2>3. Prs[op.j] < Prs[Parent(op.j)]
        BY <1>1, <1>4, <2>0 DEF C!Less, Parent
      <2>4. UpHeap(Prs', Len(heap), Parent(op.j))
        BY <1>0, <1>1, <2>0, <2>2, <2>3, UpKeeps
      <2>5. CacheTypes'
        BY <1>2, <2>2 DEF CacheInv, CacheTypes
      <2>6. OpPlaces'
        BY <2>0, <2>1, <2>2 DEF OpPlaces
      <2>7. op'.at = "up" /\ op'.j = Parent(op.j)
        BY <2>1 DEF C!Up
      <2>8. Deadlines'
        BY <1>0, <1>2, <2>7 DEF CacheInv, Deadlines, Sweeping
      <2>9. HeapOrder'
        BY <2>2, <2>4, <2>7 DEF HeapOrder
      <2> QED
        BY <2>2, <2>5, <2>6, <2>8, <2>9 DEF CacheInv
    <1> QED
      BY <1>3, <1>4

(* The child that Child gives is the smaller one.                          *)
LEMMA ChildIsLess ==
    ASSUME CacheInv, NEW n \in 0 .. Len(heap), NEW i \in 1 .. Len(heap), 2 * i <= n
    PROVE  /\ C!Child(i, n) \in 2 .. n /\ Parent(C!Child(i, n)) = i /\ i \in 1 .. n
           /\ \A k \in 2 .. n : Parent(k) = i => Prs[C!Child(i, n)] <= Prs[k]
PROOF
    <1>1. Len(heap) \in Nat /\ heap \in [1 .. Len(heap) -> Cached]
          /\ Prs \in [1 .. Len(heap) -> Nat] /\ \A k \in 1 .. Len(heap) : Prs[k] = priority[heap[k]]
      BY PrsType DEF CacheInv
    <1> DEFINE c == C!Child(i, n)
    <1>2. \/ (c = 2 * i + 1 /\ c <= n /\ Prs[2 * i + 1] < Prs[2 * i])
          \/ (c = 2 * i /\ (2 * i + 1 <= n => Prs[2 * i] <= Prs[2 * i + 1]))
      <2>1. CASE 2 * i + 1 <= n
        <3>1. Prs[2 * i + 1] = priority[heap[2 * i + 1]] /\ Prs[2 * i] = priority[heap[2 * i]]
              /\ Prs[2 * i + 1] \in Nat /\ Prs[2 * i] \in Nat
          BY SMTT(30), <1>1, <2>1
        <3> QED
          BY <2>1, <3>1 DEF C!Child, C!Less
      <2>2. CASE ~(2 * i + 1 <= n)
        BY <2>2 DEF C!Child
      <2> QED
        BY <2>1, <2>2
    <1>3. c \in 2 .. n /\ Parent(c) = i /\ i \in 1 .. n
      <2>1. Parent(2 * i) = i /\ Parent(2 * i + 1) = i /\ i \in Nat /\ n \in Nat
        BY ChildPlace
      <2> HIDE DEF c
      <2>2. c = 2 * i \/ (c = 2 * i + 1 /\ c <= n)
        BY <1>2
      <2> QED
        BY <2>1, <2>2
    <1>4. ASSUME NEW k \in 2 .. n, Parent(k) = i PROVE Prs[c] <= Prs[k]
      <2>1. k = 2 * i \/ k = 2 * i + 1
        <3>1. n \in Nat
          OBVIOUS
        <3>2. k \in Nat /\ k >= 2
          BY <3>1
        <3>3. k = 2 * Parent(k) \/ k = 2 * Parent(k) + 1
          BY ONLY <3>2, ParentPlace
        <3> QED
          BY <1>4, <3>3, Zenon
      <2>2. Prs[k] \in Nat
        BY <1>1
      <2> HIDE DEF c
      <2>3. Prs[2 * i] \in Nat /\ (2 * i + 1 <= n => Prs[2 * i + 1] \in Nat)
        BY SMTT(30), <1>1
      <2> QED
        BY <1>2, <2>1, <2>2, <2>3
    <1> QED
      BY <1>3, <1>4

(* A round of down.                                                        *)
LEMMA DownStepKeeps ==
    ASSUME CacheInv, C!DownStep
    PROVE  CacheInv'
PROOF
    <1>0. op.at = "down"
      BY DEF C!DownStep
    <1>1. Len(heap) \in Nat /\ heap \in [1 .. Len(heap) -> Cached]
          /\ Prs \in [1 .. Len(heap) -> Nat] /\ \A k \in 1 .. Len(heap) : Prs[k] = priority[heap[k]]
      BY PrsType DEF CacheInv
    <1>2. /\ op.i \in 1 .. Len(heap) /\ op.from \in 1 .. op.i
          /\ \/ /\ op.pop = FALSE /\ op.n = Len(heap)
                /\ op = C!Down(op.i, Len(heap), op.from, FALSE)
             \/ /\ op.pop = TRUE /\ op.n = Len(heap) - 1 /\ op.from = 1
                /\ op = C!Down(op.i, Len(heap) - 1, 1, TRUE)
      BY <1>0, OpForms
    <1> DEFINE i == op.i
               n == op.n
               from == op.from
               c == C!Child(op.i, op.n)
    <1>3. n \in 0 .. Len(heap) /\ 2 * i <= n /\ C!Less(c, i)
      <2>1. 2 * i <= n /\ C!Less(c, i)
        BY DEF C!DownStep, C!Sinks
      <2>2. n = Len(heap) \/ n = Len(heap) - 1
        BY <1>2
      <2>3. i \in 1 .. Len(heap)
        BY <1>2
      <2> HIDE DEF i, n
      <2>4. n \in 0 .. Len(heap)
        BY ONLY <1>1, <2>2, <2>3
      <2> QED
        BY <2>1, <2>4
    <1>4. /\ c \in 2 .. n /\ Parent(c) = i /\ i \in 1 .. n
          /\ \A k \in 2 .. n : Parent(k) = i => Prs[c] <= Prs[k]
      BY <1>2, <1>3, ChildIsLess
    <1>5. C!Swap(i, c) /\ op' = C!Down(c, n, from, op.pop)
          /\ UNCHANGED <<clock, cached, priority, until, swept>>
      BY DEF C!DownStep
    <1>6. c \in 1 .. Len(heap) /\ i \in 1 .. Len(heap) /\ from \in 1 .. c /\ i < c
      <2>1. i < c
        BY <1>4, ParentPlace
      <2> QED
        BY <1>2, <1>3, <1>4, <2>1
    <1> HIDE DEF c
    <1>7. \/ (op' = C!Down(c, Len(heap), from, FALSE) /\ op.pop = FALSE /\ n = Len(heap))
          \/ (op' = C!Down(c, Len(heap) - 1, 1, TRUE) /\ op.pop = TRUE /\ n = Len(heap) - 1 /\ from = 1)
      <2>1. CASE op.pop = FALSE /\ op.n = Len(heap) /\ op = C!Down(op.i, Len(heap), op.from, FALSE)
        <3>1. op' = C!Down(c, Len(heap), op.from, FALSE)
          BY <1>5, <2>1
        <3> QED
          BY <2>1, <3>1
      <2>2. CASE /\ op.pop = TRUE /\ op.n = Len(heap) - 1 /\ op.from = 1
                 /\ op = C!Down(op.i, Len(heap) - 1, 1, TRUE)
        <3>1. op' = C!Down(c, Len(heap) - 1, 1, TRUE)
          BY <1>5, <2>2
        <3> QED
          BY <2>2, <3>1
      <2> QED
        BY <1>2, <2>1, <2>2
    <1>8. /\ heap' \in Seq(Cached) /\ Len(heap') = Len(heap)
          /\ index' \in [Cached -> Nat]
          /\ Places'
          /\ Swapped(Prs, Prs', Len(heap), i, c)
          /\ \A k \in 1 .. Len(heap) : k # i /\ k # c => heap'[k] = heap[k]
      BY <1>5, <1>6, SwapKeeps DEF CacheInv
    <1>9. CacheTypes'
      BY <1>5, <1>8 DEF CacheInv, CacheTypes
    <1>10. OpPlaces'
      BY <1>6, <1>7, <1>8 DEF OpPlaces
    <1>11. op'.at = "down" /\ op'.i = c /\ op'.n = n /\ op'.from = from /\ op'.pop = op.pop
      <2>1. CASE op' = C!Down(c, Len(heap), from, FALSE) /\ op.pop = FALSE /\ n = Len(heap)
        BY <2>1 DEF C!Down
      <2>2. CASE op' = C!Down(c, Len(heap) - 1, 1, TRUE) /\ op.pop = TRUE /\ n = Len(heap) - 1 /\ from = 1
        BY <2>2 DEF C!Down
      <2> QED
        BY <1>7, <2>1, <2>2
    <1>12. Deadlines'
      <2>1. ASSUME op.pop PROVE heap'[Len(heap')] = heap[Len(heap)]
        <3>1. n = Len(heap) - 1
          BY <1>7, <2>1
        <3>2. Len(heap) # i /\ Len(heap) # c /\ Len(heap) \in 1 .. Len(heap)
          <4>1. Len(heap) \in Nat /\ i \in 1 .. n /\ c \in 2 .. n /\ c \in 1 .. Len(heap)
            BY <1>1, <1>4, <1>6
          <4> HIDE DEF i, n
          <4> QED
            BY ONLY <3>1, <4>1
        <3> QED
          BY <1>8, <3>2
      <2> QED
        BY <1>0, <1>5, <1>11, <2>1 DEF CacheInv, Deadlines, Sweeping
    <1>13. DownHeap(Prs', n, c, from)
      <2>1. DownHeap(Prs, n, i, from)
        BY <1>0 DEF CacheInv, HeapOrder
      <2>2. Prs[c] < Prs[i]
        BY <1>1, <1>3, <1>6 DEF C!Less
      <2>3. i \in 1 .. n /\ c \in 2 .. n /\ n \in 0 .. Len(heap) /\ from \in 1 .. i
        BY <1>2, <1>3, <1>4
      <2> HIDE DEF i, n, from
      <2> QED
        BY <1>1, <1>4, <1>8, <2>1, <2>2, <2>3, DownKeeps
    <1>14. HeapOrder'
      BY <1>11, <1>13 DEF HeapOrder
    <1> QED
      BY <1>8, <1>9, <1>10, <1>12, <1>14 DEF CacheInv

(* Where down ends, the item is not after its children: it is in order     *)
(* with all but, if it has not moved, its parent.                          *)
LEMMA DownEnds ==
    ASSUME CacheInv, op.at = "down", ~C!Sinks
    PROVE  /\ op.i # op.from \/ op.i = 1 => IsHeap(Prs, op.n)
           /\ op.n = Len(heap) => UpHeap(Prs, Len(heap), op.i)
PROOF
    <1>1. Len(heap) \in Nat /\ heap \in [1 .. Len(heap) -> Cached]
          /\ Prs \in [1 .. Len(heap) -> Nat] /\ \A k \in 1 .. Len(heap) : Prs[k] = priority[heap[k]]
      BY PrsType DEF CacheInv
    <1>2. op.i \in 1 .. Len(heap) /\ (op.n = Len(heap) \/ op.n = Len(heap) - 1)
      BY OpForms
    <1>3. op.n \in 0 .. Len(heap) /\ op.i \in Nat
      BY <1>1, <1>2
    <1>4. ASSUME NEW k \in 2 .. op.n, Parent(k) = op.i PROVE Prs[op.i] <= Prs[k]
      <2>1. 2 * op.i <= op.n
        <3>1. k = 2 * op.i \/ k = 2 * op.i + 1
          BY <1>4, ParentPlace
        <3>2. k <= op.n /\ k \in Nat
          OBVIOUS
        <3> QED
          BY ONLY <1>3, <3>1, <3>2
      <2>2. /\ C!Child(op.i, op.n) \in 2 .. op.n
            /\ Prs[C!Child(op.i, op.n)] <= Prs[k]
        BY <1>2, <1>3, <1>4, <2>1, ChildIsLess
      <2>3. ~C!Less(C!Child(op.i, op.n), op.i)
        BY <2>1 DEF C!Sinks
      <2>4. C!Child(op.i, op.n) \in 1 .. Len(heap) /\ k \in 1 .. Len(heap)
        BY <1>3, <2>2
      <2>5. ~(Prs[C!Child(op.i, op.n)] < Prs[op.i])
        BY <1>1, <1>2, <2>3, <2>4 DEF C!Less
      <2>6. Prs[C!Child(op.i, op.n)] \in Nat /\ Prs[op.i] \in Nat /\ Prs[k] \in Nat
        BY <1>1, <1>2, <2>4
      <2> QED
        BY ONLY <2>2, <2>5, <2>6
    <1>5. DownHeap(Prs, op.n, op.i, op.from)
      BY DEF CacheInv, HeapOrder
    <1>6. ASSUME NEW k \in 2 .. op.n, k = op.i => op.i # op.from PROVE Prs[Parent(k)] <= Prs[k]
      <2>1. CASE Parent(k) = op.i
        BY <1>4, <2>1
      <2>2. CASE Parent(k) # op.i
        BY <1>5, <1>6, <2>2 DEF DownHeap
      <2> QED
        BY <2>1, <2>2
    <1>7. ASSUME op.i # op.from \/ op.i = 1 PROVE IsHeap(Prs, op.n)
      <2>1. \A k \in 2 .. op.n : k = op.i => op.i # op.from
        BY <1>7
      <2> QED
        BY <1>6, <2>1 DEF IsHeap
    <1>8. ASSUME op.n = Len(heap) PROVE UpHeap(Prs, Len(heap), op.i)
      <2>1. \A k \in 2 .. Len(heap) : k # op.i => Prs[Parent(k)] <= Prs[k]
        BY <1>6, <1>8
      <2>2. op.i > 1 => \A k \in 2 .. Len(heap) : Parent(k) = op.i => Prs[Parent(op.i)] <= Prs[k]
        BY <1>5, <1>8 DEF DownHeap
      <2> QED
        BY <2>1, <2>2 DEF UpHeap
    <1> QED
      BY <1>7, <1>8

(* The end of Fix.                                                         *)
LEMMA FixEndsKeeps ==
    ASSUME CacheInv, C!FixEnds
    PROVE  CacheInv'
PROOF
    <1>0. op.at = "down" /\ ~C!Sinks /\ ~op.pop
      BY DEF C!FixEnds
    <1>1. op.i \in 1 .. Len(heap) /\ op.n = Len(heap)
      BY <1>0, OpForms
    <1>2. UNCHANGED <<clock, cached, heap, priority, index, until, swept>>
          /\ op' = IF op.i = op.from THEN C!Up(op.i) ELSE C!Free
      BY DEF C!FixEnds
    <1>3. CacheTypes' /\ Places' /\ Prs' = Prs /\ Len(heap') = Len(heap)
      BY <1>2 DEF CacheInv, CacheTypes, Places, Prs
    <1>4. OpPlaces'
      BY <1>1, <1>2, <1>3 DEF OpPlaces
    <1>5. (op'.at = "up" /\ op'.j = op.i) \/ (op'.at = "free" /\ op.i # op.from)
      <2>1. CASE op.i = op.from
        BY <1>2, <2>1 DEF C!Up
      <2>2. CASE op.i # op.from
        BY <1>2, <2>2 DEF C!Free
      <2> QED
        BY <2>1, <2>2
    <1>6. Deadlines'
      <2>1. ~Sweeping /\ ~Sweeping' /\ op'.at # "down"
        BY <1>0, <1>5 DEF Sweeping
      <2> QED
        BY <1>2, <2>1 DEF CacheInv, Deadlines
    <1>7. HeapOrder'
      BY <1>0, <1>1, <1>3, <1>5, DownEnds DEF HeapOrder
    <1> QED
      BY <1>3, <1>4, <1>6, <1>7 DEF CacheInv

(* The end of Pop.                                                         *)
LEMMA PopEndsKeeps ==
    ASSUME CacheInv, C!PopEnds
    PROVE  CacheInv'
PROOF
    <1>0. op.at = "down" /\ ~C!Sinks /\ op.pop
      BY DEF C!PopEnds
    <1>1. op.i \in 1 .. Len(heap) /\ op.n = Len(heap) - 1 /\ op.from = 1
      BY <1>0, OpForms
    <1>2. Len(heap) \in Nat /\ heap \in [1 .. Len(heap) -> Cached] /\ heap \in Seq(Cached)
          /\ Prs \in [1 .. Len(heap) -> Nat] /\ \A k \in 1 .. Len(heap) : Prs[k] = priority[heap[k]]
      BY PrsType DEF CacheInv, CacheTypes
    <1> DEFINE L == Len(heap)
               item == heap[Len(heap)]
    <1>3. /\ heap' = SubSeq(heap, 1, L - 1) /\ index' = [index EXCEPT ![item] = 0]
          /\ cached' = cached \ {item} /\ op' = [at |-> "expire"]
          /\ UNCHANGED <<clock, priority, until, swept>>
      BY DEF C!PopEnds
    <1>4. L \in 1 .. L /\ item \in Cached /\ item \in cached /\ index[item] = L
      <2>1. L \in 1 .. L
        BY <1>1, <1>2
      <2> QED
        BY <1>2, <2>1 DEF CacheInv, Places
    <1>5. /\ heap' \in Seq(Cached) /\ Len(heap') = L - 1
          /\ \A k \in 1 .. (L - 1) : heap'[k] = heap[k]
      BY <1>2, <1>3, <1>4
    <1>6. index' \in [Cached -> Nat] /\ \A s \in Cached : s # item => index'[s] = index[s]
      <2>1. index \in [Cached -> Nat]
        BY DEF CacheInv, CacheTypes
      <2> QED
        BY <1>3, <1>4, <2>1
    <1>7. CacheTypes'
      BY <1>3, <1>5, <1>6 DEF CacheInv, CacheTypes
    <1>8. OpPlaces' /\ op'.at = "expire"
      BY <1>3 DEF OpPlaces
    <1>9. Places'
      <2>1. ASSUME NEW k \in 1 .. (L - 1) PROVE heap'[k] \in cached' /\ index'[heap'[k]] = k
        <3>1. k \in 1 .. L /\ k # L
          <4>1. L \in Nat
            BY <1>2
          <4> HIDE DEF L
          <4> QED
            BY <4>1
        <3>2. heap[k] \in cached /\ index[heap[k]] = k /\ heap[k] \in Cached
          BY <3>1, <1>2 DEF CacheInv, Places
        <3>3. heap[k] # item
          BY <1>4, <3>1, <3>2
        <3> QED
          BY <1>3, <1>5, <1>6, <3>2, <3>3
      <2>2. ASSUME NEW s \in cached' PROVE index'[s] \in 1 .. (L - 1) /\ heap'[index'[s]] = s
        <3>1. s \in cached /\ s \in Cached /\ s # item
          BY <1>3, <2>2 DEF CacheInv, CacheTypes
        <3>2. index[s] \in 1 .. L /\ heap[index[s]] = s /\ index'[s] = index[s]
          BY <1>6, <3>1 DEF CacheInv, Places
        <3>3. index[s] # L
          BY <3>1, <3>2
        <3> HIDE DEF L
        <3>4. index[s] \in 1 .. (L - 1)
          BY <1>4, <3>2, <3>3
        <3> QED
          BY <1>5, <3>2, <3>4
      <2> QED
        BY <1>5, <2>1, <2>2 DEF Places
    <1>10. Deadlines'
      <2>1. until[item] <= swept
        BY <1>0 DEF CacheInv, Deadlines
      <2>2. Sweeping' /\ op'.at # "down"
        BY <1>8 DEF Sweeping
      <2> QED
        BY <1>3, <2>1, <2>2 DEF CacheInv, Deadlines
    <1>11. HeapOrder'
      <2>1. IsHeap(Prs, L - 1)
        BY <1>0, <1>1, DownEnds
      <2>2. \A k \in 1 .. (L - 1) : Prs'[k] = Prs[k]
        <3>1. Prs' = [k \in 1 .. (L - 1) |-> priority[heap'[k]]]
          BY <1>3, <1>5 DEF Prs
        <3> QED
          BY <1>2, <1>5, <3>1
      <2>3. \A k \in 2 .. (L - 1) : Parent(k) \in 1 .. (L - 1) /\ k \in 1 .. (L - 1)
        BY <1>2, ParentPlace
      <2>4. IsHeap(Prs', L - 1)
        BY <2>1, <2>2, <2>3 DEF IsHeap
      <2> QED
        BY <1>5, <1>8, <2>4 DEF HeapOrder
    <1> QED
      BY <1>7, <1>8, <1>9, <1>10, <1>11 DEF CacheInv

(* A round of the expiration loop.                                         *)
LEMMA ExpireNextKeeps ==
    ASSUME CacheInv, C!ExpireNext
    PROVE  CacheInv'
PROOF
    <1>0. op.at = "expire" /\ UNCHANGED <<clock, cached, priority, until, swept>>
      BY DEF C!ExpireNext
    <1>1. Len(heap) \in Nat /\ heap \in [1 .. Len(heap) -> Cached] /\ heap \in Seq(Cached)
          /\ Prs \in [1 .. Len(heap) -> Nat] /\ \A k \in 1 .. Len(heap) : Prs[k] = priority[heap[k]]
      BY PrsType DEF CacheInv, CacheTypes
    <1>2. IsHeap(Prs, Len(heap)) /\ swept \in Nat
      BY <1>0 DEF CacheInv, HeapOrder, CacheTypes
    <1>3. CASE heap = <<>> \/ priority[C!Peek] > swept
      <2>1. op' = C!Free /\ UNCHANGED <<heap, index>>
        BY <1>3 DEF C!ExpireNext
      <2>2. CacheTypes' /\ Places' /\ Prs' = Prs /\ Len(heap') = Len(heap)
        BY <1>0, <2>1 DEF CacheInv, CacheTypes, Places, Prs
      <2>3. OpPlaces' /\ op'.at = "free"
        BY <2>1 DEF OpPlaces, C!Free
      <2>4. ASSUME NEW s \in cached PROVE until[s] > swept
        <3>1. index[s] \in 1 .. Len(heap) /\ heap[index[s]] = s
          BY DEF CacheInv, Places
        <3>2. Prs[1] <= Prs[index[s]]
          BY <1>1, <1>2, <3>1, RootIsLeast
        <3>3. Prs[index[s]] = until[s] /\ Prs[1] = priority[C!Peek] /\ heap # <<>>
          <4>1. 1 \in 1 .. Len(heap) /\ heap # <<>>
            BY <1>1, <3>1
          <4> QED
            BY <1>1, <3>1, <4>1 DEF C!Peek, CacheInv, Deadlines
        <3>4. Prs[1] \in Nat /\ Prs[index[s]] \in Nat
          BY <1>1, <3>1
        <3>5. Prs[1] > swept
          BY <1>3, <3>3
        <3> QED
          BY ONLY <1>2, <3>2, <3>3, <3>4, <3>5
      <2>5. Deadlines'
        <3>1. op'.at # "down"
          BY <2>3
        <3> QED
          BY <1>0, <2>4, <3>1 DEF CacheInv, Deadlines
      <2>6. HeapOrder'
        BY <1>2, <2>2, <2>3 DEF HeapOrder
      <2> QED
        BY <2>2, <2>3, <2>5, <2>6 DEF CacheInv
    <1>4. CASE heap # <<>> /\ ~(priority[C!Peek] > swept)
      <2> DEFINE L == Len(heap)
      <2>1. C!Swap(1, L) /\ op' = C!Down(1, L - 1, 1, TRUE)
        BY <1>4 DEF C!ExpireNext, C!PopItem
      <2>2. 1 \in 1 .. L /\ L \in 1 .. L
        BY <1>1, <1>4
      <2>3. /\ heap' \in Seq(Cached) /\ Len(heap') = L
            /\ index' \in [Cached -> Nat]
            /\ Places'
            /\ Swapped(Prs, Prs', L, 1, L)
            /\ heap'[L] = heap[1]
        BY <1>0, <2>1, <2>2, SwapKeeps DEF CacheInv
      <2>4. CacheTypes'
        BY <1>0, <2>3 DEF CacheInv, CacheTypes
      <2>5. OpPlaces'
        <3>1. 1 \in 1 .. Len(heap') /\ op' = C!Down(1, Len(heap') - 1, 1, TRUE)
          BY <2>1, <2>2, <2>3
        <3> QED
          BY <3>1 DEF OpPlaces
      <2>6. op'.at = "down" /\ op'.pop = TRUE /\ op'.i = 1 /\ op'.n = L - 1 /\ op'.from = 1
        BY <2>1 DEF C!Down
      <2>7. Deadlines'
        <3>1. heap[1] \in cached /\ heap[1] \in Cached
          BY <1>1, <2>2 DEF CacheInv, Places
        <3>2. until[heap[1]] = priority[heap[1]] /\ priority[heap[1]] \in Nat
          BY <3>1 DEF CacheInv, Deadlines, CacheTypes
        <3>3. until[heap[1]] <= swept
          BY <1>2, <1>4, <3>2 DEF C!Peek
        <3>4. Sweeping'
          BY <2>6 DEF Sweeping
        <3> QED
          BY <1>0, <2>3, <3>3, <3>4 DEF CacheInv, Deadlines
      <2>8. DownHeap(Prs', L - 1, 1, 1)
        <3>1. ASSUME NEW k \in 2 .. (L - 1), Parent(k) # 1
              PROVE  Prs'[Parent(k)] <= Prs'[k]
          <4>1. Parent(k) \in 2 .. (L - 1) /\ k \in 2 .. L
            BY <1>1, <3>1, ParentPlace
          <4>2. Prs[Parent(k)] <= Prs[k]
            BY <1>2, <4>1 DEF IsHeap
          <4>3. Prs'[Parent(k)] = Prs[Parent(k)] /\ Prs'[k] = Prs[k]
            <5>1. k # 1 /\ k # L /\ k \in 1 .. L /\ Parent(k) # 1 /\ Parent(k) # L /\ Parent(k) \in 1 .. L
              <6>1. L \in Nat
                BY <1>1
              <6> HIDE DEF L
              <6> QED
                BY ONLY <4>1, <6>1
            <5> QED
              BY <2>3, <5>1 DEF Swapped
          <4> QED
            BY <4>2, <4>3
        <3> QED
          BY <3>1 DEF DownHeap
      <2>9. HeapOrder'
        BY <2>6, <2>8 DEF HeapOrder
      <2> QED
        BY <2>3, <2>4, <2>5, <2>7, <2>9 DEF CacheInv
    <1> QED
      BY <1>3, <1>4

(* The deadline of a cached session moves.                                 *)
LEMMA UpdateKeeps ==
    ASSUME CacheInv, op = C!Free, NEW s \in cached, C!Update(s, clock + CacheTTL),
           until' = [until EXCEPT ![s] = clock + CacheTTL], UNCHANGED <<clock, cached, swept>>
    PROVE  CacheInv'
PROOF
    <1> DEFINE d == clock + CacheTTL
    <1>0. op.at = "free"
      BY DEF C!Free
    <1>1. Len(heap) \in Nat /\ heap \in [1 .. Len(heap) -> Cached] /\ heap \in Seq(Cached)
          /\ Prs \in [1 .. Len(heap) -> Nat] /\ \A k \in 1 .. Len(heap) : Prs[k] = priority[heap[k]]
      BY PrsType DEF CacheInv, CacheTypes
    <1>2. s \in Cached /\ d \in Nat /\ d > swept
      BY MCCacheAssumption DEF CacheInv, CacheTypes, C!CacheAssumption
    <1> HIDE DEF d
    <1>3. /\ priority' = [priority EXCEPT ![s] = d]
          /\ op' = C!Down(index[s], Len(heap), index[s], FALSE)
          /\ UNCHANGED <<heap, index>> /\ until' = [until EXCEPT ![s] = d]
      BY DEF C!Update, d
    <1>4. index[s] \in 1 .. Len(heap) /\ heap[index[s]] = s
      BY DEF CacheInv, Places
    <1>5. /\ priority' \in [Cached -> Nat] /\ until' \in [Cached -> Nat]
          /\ priority'[s] = d /\ until'[s] = d
          /\ \A t \in Cached : t # s => priority'[t] = priority[t] /\ until'[t] = until[t]
      <2>1. priority \in [Cached -> Nat] /\ until \in [Cached -> Nat]
        BY DEF CacheInv, CacheTypes
      <2> QED
        BY ONLY <1>2, <1>3, <2>1
    <1>6. CacheTypes' /\ Places' /\ Len(heap') = Len(heap)
      BY <1>3, <1>5 DEF CacheInv, CacheTypes, Places
    <1>7. OpPlaces'
      <2>1. index[s] \in 1 .. index[s]
        BY <1>1, <1>4
      <2> QED
        BY <1>3, <1>4, <1>6, <2>1 DEF OpPlaces
    <1>8. op'.at = "down" /\ op'.pop = FALSE /\ op'.i = index[s] /\ op'.n = Len(heap)
          /\ op'.from = index[s]
      BY <1>3 DEF C!Down
    <1>9. Deadlines'
      <2>1. ~Sweeping' /\ ~Sweeping
        BY <1>0, <1>8 DEF Sweeping
      <2>2. ASSUME NEW t \in cached PROVE priority'[t] = until'[t] /\ until'[t] > swept
        <3>1. t \in Cached
          BY DEF CacheInv, CacheTypes
        <3> QED
          BY <1>2, <1>5, <2>1, <3>1 DEF CacheInv, Deadlines
      <2>3. ASSUME NEW t \in Cached, t \notin cached PROVE until'[t] <= swept
        BY <1>5, <2>3 DEF CacheInv, Deadlines
      <2> QED
        BY <1>8, <2>1, <2>2, <2>3 DEF Deadlines
    <1>10. DownHeap(Prs', Len(heap), index[s], index[s])
      <2>1. IsHeap(Prs, Len(heap))
        BY <1>0 DEF CacheInv, HeapOrder
      <2>2. \A k \in 1 .. Len(heap) : k # index[s] => Prs'[k] = Prs[k]
        <3>1. Prs' = [k \in 1 .. Len(heap) |-> priority'[heap[k]]]
          BY <1>3 DEF Prs
        <3>2. ASSUME NEW k \in 1 .. Len(heap), k # index[s] PROVE heap[k] # s /\ heap[k] \in Cached
          BY <1>1, <3>2 DEF CacheInv, Places
        <3> QED
          BY <1>1, <1>5, <3>1, <3>2
      <2>3. \A k \in 2 .. Len(heap) : Parent(k) \in 1 .. Len(heap) /\ Parent(k) < k /\ k \in 1 .. Len(heap)
        BY <1>1, ParentPlace
      <2>4. ASSUME NEW k \in 2 .. Len(heap), Parent(k) # index[s], k # index[s]
            PROVE  Prs'[Parent(k)] <= Prs'[k]
        BY <2>1, <2>2, <2>3, <2>4 DEF IsHeap
      <2>5. ASSUME index[s] > 1, NEW k \in 2 .. Len(heap), Parent(k) = index[s]
            PROVE  Prs'[Parent(index[s])] <= Prs'[k]
        <3>1. index[s] \in 2 .. Len(heap)
          BY <1>1, <1>4, <2>5
        <3>2. Prs[Parent(index[s])] <= Prs[index[s]] /\ Prs[index[s]] <= Prs[k]
          BY <2>1, <2>5, <3>1 DEF IsHeap
        <3>3. Parent(index[s]) \in 1 .. Len(heap) /\ Parent(index[s]) # index[s]
              /\ k \in 1 .. Len(heap) /\ k # index[s]
          BY <1>1, <2>3, <2>5, <3>1
        <3>4. Prs'[Parent(index[s])] = Prs[Parent(index[s])] /\ Prs'[k] = Prs[k]
          BY <2>2, <3>3
        <3>5. Prs[Parent(index[s])] \in Nat /\ Prs[index[s]] \in Nat /\ Prs[k] \in Nat
          BY <1>1, <1>4, <3>3
        <3> QED
          BY ONLY <3>2, <3>4, <3>5
      <2> QED
        BY <2>4, <2>5 DEF DownHeap
    <1>11. HeapOrder'
      BY <1>8, <1>10 DEF HeapOrder
    <1> QED
      BY <1>6, <1>7, <1>9, <1>11 DEF CacheInv

(* A session that is new to the cache.                                     *)
LEMMA PushKeeps ==
    ASSUME CacheInv, op = C!Free, NEW s \in Cached, s \notin cached,
           C!PushItem(s, clock + CacheTTL), cached' = cached \cup {s},
           until' = [until EXCEPT ![s] = clock + CacheTTL], UNCHANGED <<clock, swept>>
    PROVE  CacheInv'
PROOF
    <1> DEFINE d == clock + CacheTTL
               n == Len(heap) + 1
    <1>0. op.at = "free"
      BY DEF C!Free
    <1>1. Len(heap) \in Nat /\ heap \in [1 .. Len(heap) -> Cached] /\ heap \in Seq(Cached)
          /\ Prs \in [1 .. Len(heap) -> Nat] /\ \A k \in 1 .. Len(heap) : Prs[k] = priority[heap[k]]
      BY PrsType DEF CacheInv, CacheTypes
    <1>2. d \in Nat /\ d > swept
      BY MCCacheAssumption DEF CacheInv, CacheTypes, C!CacheAssumption
    <1> HIDE DEF d
    <1>3. /\ heap' = Append(heap, s) /\ priority' = [priority EXCEPT ![s] = d]
          /\ index' = [index EXCEPT ![s] = n] /\ op' = C!Up(n)
          /\ until' = [until EXCEPT ![s] = d]
      BY DEF C!PushItem, d
    <1>4. /\ heap' \in Seq(Cached) /\ Len(heap') = n /\ n \in Nat /\ heap'[n] = s
          /\ \A k \in 1 .. Len(heap) : heap'[k] = heap[k]
      BY <1>1, <1>3
    <1>5. n \in 1 .. n /\ \A k \in 1 .. n : k = n \/ k \in 1 .. Len(heap)
      BY <1>1
    <1> HIDE DEF n
    <1>6. /\ priority' \in [Cached -> Nat] /\ until' \in [Cached -> Nat] /\ index' \in [Cached -> Nat]
          /\ priority'[s] = d /\ until'[s] = d /\ index'[s] = n
          /\ \A t \in Cached : t # s =>
                priority'[t] = priority[t] /\ until'[t] = until[t] /\ index'[t] = index[t]
      <2>1. priority \in [Cached -> Nat] /\ until \in [Cached -> Nat] /\ index \in [Cached -> Nat]
        BY DEF CacheInv, CacheTypes
      <2>2. n \in Nat
        BY <1>4
      <2> QED
        BY ONLY <1>2, <1>3, <2>1, <2>2, s \in Cached
    <1>7. CacheTypes'
      BY <1>4, <1>6 DEF CacheInv, CacheTypes
    <1>8. OpPlaces' /\ op'.at = "up" /\ op'.j = n
      BY <1>3, <1>4, <1>5 DEF OpPlaces, C!Up
    <1>9. \A k \in 1 .. Len(heap) : heap[k] \in Cached /\ heap[k] # s
      BY <1>1 DEF CacheInv, Places
    <1>10. Places'
      <2>1. ASSUME NEW k \in 1 .. n PROVE heap'[k] \in cached' /\ index'[heap'[k]] = k
        <3>1. CASE k = n
          BY <1>4, <1>6, <3>1
        <3>2. CASE k \in 1 .. Len(heap)
          <4>1. heap'[k] = heap[k] /\ heap[k] \in Cached /\ heap[k] # s
            BY <1>4, <1>9, <3>2
          <4>2. heap[k] \in cached /\ index[heap[k]] = k
            BY <3>2 DEF CacheInv, Places
          <4> QED
            BY <1>6, <4>1, <4>2
        <3> QED
          BY <1>5, <3>1, <3>2
      <2>2. ASSUME NEW t \in cached' PROVE index'[t] \in 1 .. n /\ heap'[index'[t]] = t
        <3>1. CASE t = s
          BY <1>4, <1>5, <1>6, <3>1
        <3>2. CASE t # s
          <4>1. t \in cached /\ t \in Cached
            BY <3>2 DEF CacheInv, CacheTypes
          <4>2. index[t] \in 1 .. Len(heap) /\ heap[index[t]] = t /\ index'[t] = index[t]
            BY <1>6, <3>2, <4>1 DEF CacheInv, Places
          <4>3. index[t] \in 1 .. n
            BY <1>1, <4>2 DEF n
          <4> QED
            BY <1>4, <4>2, <4>3
        <3> QED
          BY <3>1, <3>2
      <2> QED
        BY <1>4, <2>1, <2>2 DEF Places
    <1>11. Deadlines'
      <2>1. ~Sweeping' /\ ~Sweeping /\ op'.at # "down"
        BY <1>0, <1>8 DEF Sweeping
      <2>2. ASSUME NEW t \in cached' PROVE priority'[t] = until'[t] /\ until'[t] > swept
        <3>1. t \in Cached
          BY DEF CacheInv, CacheTypes
        <3> QED
          BY <1>2, <1>6, <2>1, <3>1 DEF CacheInv, Deadlines
      <2>3. ASSUME NEW t \in Cached, t \notin cached' PROVE until'[t] <= swept
        BY <1>6, <2>3 DEF CacheInv, Deadlines
      <2> QED
        BY <2>1, <2>2, <2>3 DEF Deadlines
    <1>12. UpHeap(Prs', n, n)
      <2>1. IsHeap(Prs, Len(heap))
        BY <1>0 DEF CacheInv, HeapOrder
      <2>2. \A k \in 1 .. Len(heap) : Prs'[k] = Prs[k]
        <3>1. Prs' = [k \in 1 .. n |-> priority'[heap'[k]]]
          BY <1>4 DEF Prs
        <3>2. \A k \in 1 .. Len(heap) : k \in 1 .. n
          BY <1>1 DEF n
        <3>3. \A k \in 1 .. Len(heap) : priority'[heap'[k]] = priority[heap[k]]
          BY <1>4, <1>6, <1>9
        <3> QED
          BY ONLY <1>1, <3>1, <3>2, <3>3
      <2>3. \A k \in 2 .. n : Parent(k) \in Nat /\ Parent(k) \in 1 .. Len(heap) /\ Parent(k) < n
        <3> TAKE k \in 2 .. n
        <3>1. k \in Nat /\ k >= 2 /\ k <= Len(heap) + 1
          BY <1>4 DEF n
        <3>2. Parent(k) \in Nat /\ 1 <= Parent(k) /\ Parent(k) < k
          BY <3>1, ParentPlace
        <3> QED
          BY ONLY <1>1, <3>1, <3>2 DEF n
      <2>4. ASSUME NEW k \in 2 .. n, k # n PROVE Prs'[Parent(k)] <= Prs'[k]
        <3>1. k \in 2 .. Len(heap) /\ k \in 1 .. Len(heap)
          BY <1>1, <2>4 DEF n
        <3> QED
          BY <2>1, <2>2, <2>3, <3>1 DEF IsHeap
      <2>5. \A k \in 2 .. n : Parent(k) # n
        BY <1>4, <2>3
      <2> QED
        BY <2>4, <2>5 DEF UpHeap
    <1>13. HeapOrder'
      BY <1>4, <1>8, <1>12 DEF HeapOrder
    <1> QED
      BY <1>7, <1>8, <1>10, <1>11, <1>13 DEF CacheInv

(* Every step of the sessions cache keeps the invariant.                   *)
LEMMA CacheStep ==
    ASSUME CacheInv, [C!Next]_cache
    PROVE  CacheInv'
PROOF
    <1>1. ASSUME NEW s \in Cached, C!CommitSession(s) PROVE CacheInv'
      <2>1. op = C!Free /\ UNCHANGED <<clock, swept>> /\ cached' = cached \cup {s}
            /\ until' = [until EXCEPT ![s] = clock + CacheTTL]
        BY <1>1 DEF C!CommitSession
      <2>2. CASE s \in cached
        <3>1. cached' = cached /\ C!Update(s, clock + CacheTTL)
          BY <1>1, <2>2 DEF C!CommitSession
        <3> QED
          BY <2>1, <2>2, <3>1, UpdateKeeps
      <2>3. CASE s \notin cached
        <3>1. C!PushItem(s, clock + CacheTTL)
          BY <1>1, <2>3 DEF C!CommitSession
        <3> QED
          BY <2>1, <2>3, <3>1, PushKeeps
      <2> QED
        BY <2>2, <2>3
    <1>2. ASSUME NEW s \in Cached, C!TouchSession(s) PROVE CacheInv'
      BY <1>2, UpdateKeeps DEF C!TouchSession
    <1>3. CASE C!Expire
      <2>1. op = C!Free /\ op.at = "free" /\ op' = [at |-> "expire"] /\ op'.at = "expire" /\ swept' = clock
            /\ UNCHANGED <<clock, cached, heap, priority, index, until>>
        BY <1>3 DEF C!Expire, C!Free
      <2>2. CacheTypes' /\ Places' /\ OpPlaces' /\ Prs' = Prs
        BY <2>1 DEF CacheInv, CacheTypes, Places, OpPlaces, Prs
      <2>3. Deadlines'
        <3>1. Sweeping' /\ op'.at # "down"
          BY <2>1 DEF Sweeping
        <3>2. \A s \in Cached : s \notin cached => until[s] <= swept'
          BY <2>1 DEF CacheInv, CacheTypes, Deadlines
        <3> QED
          BY <2>1, <3>1, <3>2 DEF CacheInv, Deadlines
      <2>4. HeapOrder'
        BY <2>1, <2>2 DEF CacheInv, HeapOrder
      <2> QED
        BY <2>2, <2>3, <2>4 DEF CacheInv
    <1>4. CASE C!Advance
      <2>1. clock' = clock + 1 /\ UNCHANGED <<cached, heap, priority, index, op, until, swept>>
        BY <1>4 DEF C!Advance
      <2>2. CacheTypes'
        BY <2>1 DEF CacheInv, CacheTypes
      <2>3. OpPlaces' /\ Places' /\ Deadlines' /\ HeapOrder'
        BY <2>1 DEF CacheInv, OpPlaces, Places, Deadlines, Sweeping, HeapOrder, Prs
      <2> QED
        BY <2>2, <2>3 DEF CacheInv
    <1>5. CASE UNCHANGED cache
      BY <1>5 DEF cache, CacheInv, CacheTypes, Places, OpPlaces, Prs, Deadlines, Sweeping, HeapOrder
    <1> QED
      BY <1>1, <1>2, <1>3, <1>4, <1>5, UpStepKeeps, DownStepKeeps, FixEndsKeeps, PopEndsKeeps,
         ExpireNextKeeps
      DEF C!Next

(* An empty cache.                                                         *)
LEMMA CacheInit == C!Init => CacheInv
PROOF
    <1> SUFFICES ASSUME C!Init PROVE CacheInv
      OBVIOUS
    <1>1. CacheTypes
      BY DEF C!Init, CacheTypes
    <1>2. OpPlaces /\ Places /\ op.at = "free" /\ Len(heap) = 0
      BY DEF C!Init, OpPlaces, Places, C!Free
    <1>3. Deadlines
      BY <1>2 DEF C!Init, Deadlines
    <1>4. HeapOrder
      BY <1>2 DEF HeapOrder, IsHeap
    <1> QED
      BY <1>1, <1>2, <1>3, <1>4 DEF CacheInv

(* The sessions cache is exact, for every number of sessions, every TTL    *)
(* and every order of commits, touches and expirations (CommitSession,     *)
(* TouchSession and expireSessionsCache of broker/memory.go, on the heap   *)
(* of utils/priority_queue.go): a session can be restored just as long as  *)
(* its deadline is after the last expiration.  The heap neither hides an   *)
(* expired session behind a live one nor loses a live one.                 *)
THEOREM CacheIsExact == MCSpec => []RestorableUntilDeadline
PROOF
    <1>1. MCInit => CacheInv
      BY CacheInit DEF MCInit
    <1>2. CacheInv /\ [MCNext]_all => CacheInv'
      BY OnePartMoves, CacheStep
    <1>3. CacheInv => RestorableUntilDeadline
      <2> SUFFICES ASSUME CacheInv, op = C!Free, NEW s \in Cached
                   PROVE  s \in cached <=> until[s] > swept
        BY DEF RestorableUntilDeadline, C!RestorableUntilDeadline
      <2>1. ~Sweeping
        BY DEF Sweeping, C!Free
      <2>2. until[s] \in Nat /\ swept \in Nat
        BY DEF CacheInv, CacheTypes
      <2> QED
        BY <2>1, <2>2 DEF CacheInv, Deadlines
    <1> QED
      BY <1>1, <1>2, <1>3, PTL DEF MCSpec, all

-----------------------------------------------------------------------------
(* Presence.                                                               *)

(* What a session's reader can be doing.                                   *)
PresenceEvents == [type : {"join", "leave"}, stream : Streams, id : Pids]
Commands ==
    {P!Idle}
    \cup [op : {"subscribe", "unsubscribe", "presence", "leave"}, stream : Streams]
    \cup [op : {"join"}, stream : Streams, id : Pids]
    \cup [op : {"broadcast"}, ev : PresenceEvents]
    \cup [op : {"answer"}, stream : Streams, ids : SUBSET Pids]

PresenceTypes ==
    /\ records \in [Streams -> [Pids -> SUBSET Sessions]]
    /\ pids \in [Sessions -> [Streams -> Pids \cup {NoPid}]]
    /\ joined \in [Sessions -> [Streams -> Pids \cup {NoPid}]]
    /\ left \in [Sessions -> (-1) .. PresenceTTL]
    /\ keepTimer \in [Sessions -> 0 .. P!Interval]
    /\ conn \in [Sessions -> {"new", "on", "off"}]
    /\ subscribed \in [Sessions -> SUBSET Streams]
    /\ view \in [Sessions -> [Streams -> SUBSET Pids]]
    /\ cmd \in [Sessions -> Commands]
    /\ leaving \in Seq(PresenceEvents)

(* The two maps of the broker say the same, and a session that has not     *)
(* connected has nothing.                                                  *)
Recorded ==
    /\ \A st \in Streams, p \in Pids, s \in Sessions : s \in records[st][p] <=> pids[s][st] = p
    /\ \A s \in Sessions : conn[s] = "new" =>
          /\ subscribed[s] = {} /\ cmd[s] = P!Idle
          /\ \A st \in Streams : pids[s][st] = NoPid /\ joined[s][st] = NoPid

(* A connected keeper has what it joined, and its timer goes off before    *)
(* its deadline.                                                           *)
Keeping ==
    \A s \in Keepers : conn[s] = "on" =>
        /\ \A st \in Streams : joined[s][st] = pids[s][st]
        /\ P!HasEntry(s) => left[s] >= keepTimer[s]

PresenceInv == PresenceTypes /\ Recorded /\ Keeping

(* An event about an id of a stream that is still to be broadcast, and     *)
(* whether the id is present.                                              *)
About(e, st, p) == e.stream = st /\ e.id = p
Here(st, p) == records[st][p] # {}

(* The session waits for an answer about the stream.                       *)
Asking(s, st) == cmd[s].op \in {"presence", "answer"} /\ cmd[s].stream = st

(* Who knows the stream knows about the id.                                *)
KnownBy(s, st, p) ==
    /\ conn[s] = "on" /\ st \in subscribed[s] /\ ~Asking(s, st) => (p \in view[s][st] <=> Here(st, p))
    /\ cmd[s].op = "answer" /\ cmd[s].stream = st => (p \in cmd[s].ids <=> Here(st, p))

(* With no event to come everyone knows; events to come that are all of    *)
(* one type tell the truth.                                                *)
Told(st, p) ==
    /\ (\A e \in P!Pending : ~About(e, st, p)) => \A s \in Sessions : KnownBy(s, st, p)
    /\ \A e \in P!Pending :
          About(e, st, p) /\ (\A other \in P!Pending : About(other, st, p) => other = e)
          => (Here(st, p) <=> e.type = "join")

ViewsInv == \A st \in Streams, p \in Pids : <<st, p>> \in raced \/ Told(st, p)

(* What the fields of a command are.                                       *)
CommandFields(c) ==
    /\ c.op \in {"subscribe", "unsubscribe", "presence", "leave", "join", "answer"} => c.stream \in Streams
    /\ c.op = "join" => c.id \in Pids
    /\ c.op = "broadcast" => c.ev \in PresenceEvents
    /\ c.op = "answer" => c.ids \in SUBSET Pids
    /\ c.op = "idle" => c = P!Idle

(* What the fields of a command are.                                       *)
LEMMA CommandForms == \A c \in Commands : CommandFields(c)
PROOF
    BY DEF Commands, CommandFields, P!Idle

(* The half of a TTL.                                                      *)
LEMMA IntervalFits == P!Interval \in Nat /\ PresenceTTL \in Nat /\ P!Interval <= PresenceTTL /\ P!Expired = -1
PROOF
    BY MCPresenceAssumption DEF P!PresenceAssumption, P!Interval, P!Expired

(* The commands that are not started by an operation of the store.         *)
LEMMA NewCommands ==
    /\ P!Idle \in Commands
    /\ \A st \in Streams : [op |-> "presence", stream |-> st] \in Commands
                           /\ [op |-> "leave", stream |-> st] \in Commands
    /\ \A ev \in PresenceEvents : [op |-> "broadcast", ev |-> ev] \in Commands
    /\ \A st \in Streams, ids \in SUBSET Pids :
          [op |-> "answer", stream |-> st, ids |-> ids] \in Commands
PROOF
    BY DEF Commands

(* An event is one.                                                        *)
LEMMA EventType ==
    \A st \in Streams, p \in Pids, t \in {"join", "leave"} : P!Event(t, st, p) \in PresenceEvents
PROOF
    BY DEF P!Event, PresenceEvents

(* Actions that leave the broker's maps alone.                             *)
LEMMA StoreKept ==
    ASSUME PresenceInv, UNCHANGED <<records, pids, left, joined, keepTimer>>, PresenceTypes',
           \A s \in Sessions : conn'[s] = conn[s] \/ (conn[s] = "new" /\ conn'[s] = "on"),
           \A s \in Sessions : conn'[s] = "new" => subscribed'[s] = {} /\ cmd'[s] = P!Idle
    PROVE  PresenceInv'
PROOF
    <1>1. Recorded'
      <2>1. ASSUME NEW s \in Sessions, conn'[s] = "new" PROVE conn[s] = "new"
        BY <2>1
      <2> QED
        BY <2>1 DEF PresenceInv, Recorded
    <1>2. Keeping'
      <2> SUFFICES ASSUME NEW s \in Keepers, conn'[s] = "on"
                   PROVE  /\ \A st \in Streams : joined[s][st] = pids[s][st]
                          /\ P!HasEntry(s) => left[s] >= keepTimer[s]
        BY DEF Keeping, P!HasEntry
      <2>1. s \in Sessions
        BY MCPresenceAssumption DEF P!PresenceAssumption
      <2>2. CASE conn[s] = "on"
        BY <2>2 DEF PresenceInv, Keeping
      <2>3. CASE conn[s] = "new"
        BY <2>1, <2>3 DEF PresenceInv, Recorded, P!HasEntry
      <2> QED
        BY <2>1, <2>2, <2>3
    <1> QED
      BY <1>1, <1>2 DEF PresenceInv

(* One session's reader goes on.                                           *)
LEMMA CmdMoves ==
    ASSUME PresenceTypes, NEW s \in Sessions, NEW c \in Commands, cmd' = [cmd EXCEPT ![s] = c]
    PROVE  /\ cmd' \in [Sessions -> Commands] /\ cmd'[s] = c
           /\ \A r \in Sessions : r # s => cmd'[r] = cmd[r]
PROOF
    BY DEF PresenceTypes

(* A command that a session can send.                                      *)
LEMMA OpsAreCommands ==
    ASSUME PresenceTypes, NEW s \in Sessions PROVE P!Ops(s) \subseteq Commands
PROOF
    <1> SUFFICES ASSUME NEW c \in P!Ops(s) PROVE c \in Commands
      OBVIOUS
    <1>1. subscribed[s] \subseteq Streams
      BY DEF PresenceTypes
    <1> QED
      BY <1>1 DEF P!Ops, Commands

(* The views after an event.                                               *)
LEMMA HandledType ==
    ASSUME PresenceTypes, NEW ev \in PresenceEvents, P!HandleEvent(ev)
    PROVE  view' \in [Sessions -> [Streams -> SUBSET Pids]]
PROOF
    <1>1. ev.stream \in Streams /\ ev.id \in Pids
      BY DEF PresenceEvents
    <1>2. PICK st \in Streams : st = ev.stream
      BY <1>1
    <1>3. PICK p \in Pids : p = ev.id
      BY <1>1
    <1>4. ASSUME NEW s \in Sessions
          PROVE  (IF st \notin subscribed[s] THEN view[s]
                  ELSE [view[s] EXCEPT ![st] = IF ev.type = "join" THEN @ \cup {p} ELSE @ \ {p}])
                 \in [Streams -> SUBSET Pids]
      BY DEF PresenceTypes
    <1> QED
      BY <1>2, <1>3, <1>4 DEF P!HandleEvent

(* Actions of a session that leave the broker's maps alone.                *)
LEMMA ReaderKeeps ==
    ASSUME PresenceInv, NEW s \in Sessions,
           \/ P!Connect(s) \/ P!HandleCommand(s) \/ P!Subscribe(s) \/ P!Unsubscribe(s)
           \/ P!BroadcastEvent(s) \/ P!PresenceInfo(s) \/ P!Answer(s)
    PROVE  PresenceInv'
PROOF
    <1>0. PresenceTypes /\ cmd[s] \in Commands /\ CommandFields(cmd[s])
      BY CommandForms DEF PresenceInv, PresenceTypes
    <1>i. P!Idle.op = "idle"
      BY DEF P!Idle
    <1>n. \A r \in Sessions : conn[r] = "new" => subscribed[r] = {} /\ cmd[r] = P!Idle
      BY DEF PresenceInv, Recorded
    <1>1. CASE P!Connect(s)
      <2>1. PresenceTypes'
        BY <1>0, <1>1, IntervalFits DEF PresenceTypes, P!Connect, P!store
      <2>2. \A r \in Sessions : conn'[r] = IF r = s THEN "on" ELSE conn[r]
        BY <1>0, <1>1 DEF PresenceTypes, P!Connect
      <2>3. Recorded'
        BY <1>1, <2>2 DEF PresenceInv, Recorded, P!Connect, P!store
      <2>4. Keeping'
        <3> SUFFICES ASSUME NEW r \in Keepers, conn'[r] = "on"
                     PROVE  /\ \A st \in Streams : joined'[r][st] = pids'[r][st]
                            /\ P!HasEntry(r)' => left'[r] >= keepTimer'[r]
          BY DEF Keeping
        <3>1. r \in Sessions
          BY MCPresenceAssumption DEF P!PresenceAssumption
        <3>2. UNCHANGED <<joined, pids, left>> /\ conn[s] = "new"
          BY <1>1 DEF P!Connect, P!store
        <3>3. CASE r = s
          BY <3>2, <3>3 DEF PresenceInv, Recorded, P!HasEntry
        <3>4. CASE r # s
          <4>1. keepTimer'[r] = keepTimer[r] /\ conn[r] = "on"
            BY <1>0, <1>1, <2>2, <3>1, <3>4 DEF PresenceTypes, P!Connect
          <4> QED
            BY <3>2, <4>1 DEF PresenceInv, Keeping, P!HasEntry
        <3> QED
          BY <3>3, <3>4
      <2> QED
        BY <2>1, <2>3, <2>4 DEF PresenceInv
    <1>2. CASE P!HandleCommand(s)
      <2>1. PICK c \in P!Ops(s) : cmd' = [cmd EXCEPT ![s] = c]
        BY <1>2 DEF P!HandleCommand
      <2>2. c \in Commands
        BY <1>0, OpsAreCommands
      <2>3. UNCHANGED <<records, pids, left, joined, keepTimer, conn, subscribed, view, leaving>>
            /\ conn[s] = "on"
        BY <1>2 DEF P!HandleCommand, P!store
      <2>4. PresenceTypes'
        BY <1>0, <2>1, <2>2, <2>3, CmdMoves DEF PresenceTypes
      <2>5. \A r \in Sessions : conn'[r] = "new" => subscribed'[r] = {} /\ cmd'[r] = P!Idle
        BY <1>0, <1>n, <2>1, <2>2, <2>3, CmdMoves
      <2> QED
        BY <2>3, <2>4, <2>5, StoreKept
    <1>3. CASE P!Subscribe(s) \/ P!Unsubscribe(s)
      <2>1. PICK st : st = cmd[s].stream
        OBVIOUS
      <2>2. st \in Streams /\ cmd[s] # P!Idle /\ conn[s] # "new"
        BY <1>0, <1>3, <1>i, <1>n, <2>1 DEF CommandFields, P!Subscribe, P!Unsubscribe
      <2>3. PICK c \in Commands : cmd' = [cmd EXCEPT ![s] = c]
        BY <1>3, <2>1, <2>2, NewCommands DEF P!Subscribe, P!Unsubscribe
      <2>4. /\ UNCHANGED <<records, pids, left, joined, keepTimer, conn, view, leaving>>
            /\ subscribed' = [subscribed EXCEPT ![s] = @ \cup {st}]
               \/ subscribed' = [subscribed EXCEPT ![s] = @ \ {st}]
        BY <1>3, <2>1 DEF P!Subscribe, P!Unsubscribe, P!store
      <2>5. subscribed' \in [Sessions -> SUBSET Streams]
            /\ \A r \in Sessions : r # s => subscribed'[r] = subscribed[r]
        <3>1. subscribed[s] \cup {st} \subseteq Streams /\ subscribed[s] \ {st} \subseteq Streams
          BY <1>0, <2>2 DEF PresenceTypes
        <3>2. PICK D \in SUBSET Streams : subscribed' = [subscribed EXCEPT ![s] = D]
          BY <2>4, <3>1
        <3> QED
          BY <1>0, <3>2 DEF PresenceTypes
      <2>6. PresenceTypes'
        BY <1>0, <2>3, <2>4, <2>5, CmdMoves DEF PresenceTypes
      <2>7. \A r \in Sessions : conn'[r] = "new" => subscribed'[r] = {} /\ cmd'[r] = P!Idle
        BY <1>0, <1>n, <2>2, <2>3, <2>4, <2>5, CmdMoves
      <2> QED
        BY <2>4, <2>6, <2>7, StoreKept
    <1>4. CASE P!BroadcastEvent(s)
      <2>1. UNCHANGED <<records, pids, left, joined, keepTimer, conn, subscribed, leaving>>
            /\ cmd' = [cmd EXCEPT ![s] = P!Idle] /\ P!HandleEvent(cmd[s].ev) /\ cmd[s].ev \in PresenceEvents
        BY <1>0, <1>4 DEF P!BroadcastEvent, P!store, CommandFields
      <2>2. view' \in [Sessions -> [Streams -> SUBSET Pids]]
        BY <1>0, <2>1, HandledType
      <2>3. PresenceTypes'
        BY <1>0, <2>1, <2>2, CmdMoves, NewCommands DEF PresenceTypes
      <2>4. \A r \in Sessions : conn'[r] = "new" => subscribed'[r] = {} /\ cmd'[r] = P!Idle
        BY <1>0, <1>n, <2>1, CmdMoves, NewCommands
      <2> QED
        BY <2>1, <2>3, <2>4, StoreKept
    <1>5. CASE P!PresenceInfo(s) \/ P!Answer(s)
      <2>1. PICK st : st = cmd[s].stream
        OBVIOUS
      <2>2. st \in Streams /\ cmd[s] # P!Idle /\ conn[s] # "new"
        BY <1>0, <1>5, <1>i, <1>n, <2>1 DEF CommandFields, P!PresenceInfo, P!Answer
      <2>3. P!Present(st) \in SUBSET Pids
        BY DEF P!Present
      <2>4. PICK c \in Commands : cmd' = [cmd EXCEPT ![s] = c]
        BY <1>5, <2>1, <2>2, <2>3, NewCommands DEF P!PresenceInfo, P!Answer
      <2>5. UNCHANGED <<records, pids, left, joined, keepTimer, conn, subscribed, leaving>>
        BY <1>5 DEF P!PresenceInfo, P!Answer, P!store
      <2>6. view' \in [Sessions -> [Streams -> SUBSET Pids]]
        <3>1. CASE view' = view
          BY <1>0, <3>1 DEF PresenceTypes
        <3>2. CASE cmd[s].op = "answer" /\ view' = [view EXCEPT ![s][st] = cmd[s].ids]
          BY <1>0, <2>2, <3>2 DEF PresenceTypes, CommandFields
        <3> QED
          BY <1>5, <2>1, <3>1, <3>2 DEF P!PresenceInfo, P!Answer
      <2>7. PresenceTypes'
        BY <1>0, <2>4, <2>5, <2>6, CmdMoves DEF PresenceTypes
      <2>8. \A r \in Sessions : conn'[r] = "new" => subscribed'[r] = {} /\ cmd'[r] = P!Idle
        BY <1>0, <1>n, <2>2, <2>4, <2>5, CmdMoves
      <2> QED
        BY <2>5, <2>7, <2>8, StoreKept
    <1> QED
      BY <1>1, <1>2, <1>3, <1>4, <1>5

(* HasEntry, with the ids of a session.                                    *)
LEMMA EntryIs ==
    /\ \A s : P!HasEntry(s) <=> \E st \in Streams : pids[s][st] # NoPid
    /\ \A s : P!HasEntry(s)' <=> \E st \in Streams : pids'[s][st] # NoPid
PROOF
    BY DEF P!HasEntry

(* A session joins.                                                        *)
LEMMA JoinKeeps ==
    ASSUME PresenceInv, NEW s \in Sessions, P!PresenceJoin(s)
    PROVE  PresenceInv'
PROOF
    <1>0. PresenceTypes /\ cmd[s] \in Commands /\ CommandFields(cmd[s])
      BY CommandForms DEF PresenceInv, PresenceTypes
    <1>i. P!Idle.op = "idle"
      BY DEF P!Idle
    <1>n. \A r \in Sessions : conn[r] = "new" => subscribed[r] = {} /\ cmd[r] = P!Idle
      BY DEF PresenceInv, Recorded
    <1>1. PICK st \in Streams, p \in Pids : st = cmd[s].stream /\ p = cmd[s].id
      BY <1>0 DEF P!PresenceJoin, CommandFields
    <1>2. UNCHANGED <<keepTimer, conn, subscribed, view, leaving>> /\ conn[s] # "new"
      BY <1>i, <1>n DEF P!PresenceJoin
    <1>3. CASE P!PresenceAdd(s, st, p) /\ pids[s][st] \in {NoPid, p}
      <2>1. PICK c \in Commands : cmd' = [cmd EXCEPT ![s] = c]
        BY <1>3, NewCommands, EventType DEF P!PresenceAdd
      <2>2. /\ \A r \in Sessions, x \in Streams : pids'[r][x] = IF r = s /\ x = st THEN p ELSE pids[r][x]
            /\ pids' \in [Sessions -> [Streams -> Pids \cup {NoPid}]]
        BY <1>0, <1>3 DEF P!PresenceAdd, PresenceTypes
      <2>3. /\ \A r \in Sessions, x \in Streams : joined'[r][x] = IF r = s /\ x = st THEN p ELSE joined[r][x]
            /\ joined' \in [Sessions -> [Streams -> Pids \cup {NoPid}]]
        BY <1>0, <1>3 DEF P!PresenceAdd, PresenceTypes
      <2>4. /\ \A x \in Streams, y \in Pids :
                  records'[x][y] = IF x = st /\ y = p THEN records[x][y] \cup {s} ELSE records[x][y]
            /\ records' \in [Streams -> [Pids -> SUBSET Sessions]]
        BY ZenonT(60), <1>0, <1>3 DEF P!PresenceAdd, PresenceTypes
      <2>5. /\ left' \in [Sessions -> (-1) .. PresenceTTL]
            /\ \A r \in Sessions : r # s => left'[r] = left[r]
            /\ left'[s] = IF P!HasEntry(s) THEN left[s] ELSE PresenceTTL
        BY <1>0, <1>3, IntervalFits DEF P!PresenceAdd, PresenceTypes
      <2>6. PresenceTypes'
        BY <1>0, <1>2, <2>1, <2>2, <2>3, <2>4, <2>5, CmdMoves DEF PresenceTypes
      <2>7. Recorded'
        <3>1. ASSUME NEW x \in Streams, NEW y \in Pids, NEW r \in Sessions
              PROVE  r \in records'[x][y] <=> pids'[r][x] = y
          <4>1. r \in records[x][y] <=> pids[r][x] = y
            BY DEF PresenceInv, Recorded
          <4>2. p # NoPid /\ y # NoPid
            BY MCPresenceAssumption DEF P!PresenceAssumption
          <4>3. CASE r = s /\ x = st
            <5>1. pids'[r][x] = p
              BY <2>2, <4>3
            <5>2. r \in records'[x][y] <=> y = p \/ r \in records[x][y]
              BY <2>4, <4>3
            <5> QED
              BY <1>3, <4>1, <4>2, <4>3, <5>1, <5>2
          <4>4. CASE ~(r = s /\ x = st)
            <5>1. pids'[r][x] = pids[r][x]
              BY <2>2, <4>4
            <5>2. r \in records'[x][y] <=> r \in records[x][y]
              BY <2>4, <4>4
            <5> QED
              BY <4>1, <5>1, <5>2
          <4> QED
            BY <4>3, <4>4
        <3>2. ASSUME NEW r \in Sessions, conn'[r] = "new"
              PROVE  /\ subscribed'[r] = {} /\ cmd'[r] = P!Idle
                     /\ \A x \in Streams : pids'[r][x] = NoPid /\ joined'[r][x] = NoPid
          <4>1. r # s /\ conn[r] = "new"
            BY <1>2, <3>2
          <4>2. cmd'[r] = cmd[r]
            BY <1>0, <2>1, <4>1, CmdMoves
          <4> QED
            BY SMTT(30), <1>2, <2>2, <2>3, <4>1, <4>2 DEF PresenceInv, Recorded
        <3> QED
          BY <3>1, <3>2 DEF Recorded
      <2>8. Keeping'
        <3> SUFFICES ASSUME NEW r \in Keepers, conn'[r] = "on"
                     PROVE  /\ \A x \in Streams : joined'[r][x] = pids'[r][x]
                            /\ P!HasEntry(r)' => left'[r] >= keepTimer'[r]
          BY DEF Keeping
        <3>1. r \in Sessions
          BY MCPresenceAssumption DEF P!PresenceAssumption
        <3>2. conn[r] = "on" /\ keepTimer'[r] = keepTimer[r]
          BY <1>2
        <3>3. /\ \A x \in Streams : joined[r][x] = pids[r][x]
              /\ P!HasEntry(r) => left[r] >= keepTimer[r]
          BY <3>2 DEF PresenceInv, Keeping
        <3>4. \A x \in Streams : joined'[r][x] = pids'[r][x]
          BY <2>2, <2>3, <3>1, <3>3
        <3>5. P!HasEntry(r)' => left'[r] >= keepTimer'[r]
          <4>1. CASE r # s
            BY <2>2, <2>5, <3>1, <3>2, <3>3, <4>1, EntryIs
          <4>2. CASE r = s
            <5>1. keepTimer[s] \in 0 .. P!Interval
              BY <1>0 DEF PresenceTypes
            <5> QED
              BY <2>5, <3>2, <3>3, <4>2, <5>1, IntervalFits
          <4> QED
            BY <4>1, <4>2
        <3> QED
          BY <3>4, <3>5
      <2> QED
        BY <2>6, <2>7, <2>8 DEF PresenceInv
    <1>4. CASE cmd' = [cmd EXCEPT ![s] = P!Idle] /\ UNCHANGED <<records, pids, left, joined>>
      <2>1. PresenceTypes'
        BY <1>0, <1>2, <1>4, CmdMoves, NewCommands DEF PresenceTypes
      <2>2. \A r \in Sessions : conn'[r] = "new" => subscribed'[r] = {} /\ cmd'[r] = P!Idle
        BY <1>0, <1>n, <1>2, <1>4, CmdMoves, NewCommands
      <2> QED
        BY <1>2, <1>4, <2>1, <2>2, StoreKept
    <1> QED
      BY <1>1, <1>3, <1>4 DEF P!PresenceJoin, P!store

(* A session leaves.                                                       *)
LEMMA LeaveKeeps ==
    ASSUME PresenceInv, NEW s \in Sessions, P!PresenceLeave(s)
    PROVE  PresenceInv'
PROOF
    <1>0. PresenceTypes /\ cmd[s] \in Commands /\ CommandFields(cmd[s])
      BY CommandForms DEF PresenceInv, PresenceTypes
    <1>i. P!Idle.op = "idle"
      BY DEF P!Idle
    <1>n. \A r \in Sessions : conn[r] = "new" => subscribed[r] = {} /\ cmd[r] = P!Idle
      BY DEF PresenceInv, Recorded
    <1>1. PICK st \in Streams : st = cmd[s].stream
      BY <1>0 DEF P!PresenceLeave, CommandFields
    <1>2. UNCHANGED <<keepTimer, conn, subscribed, view, leaving>> /\ conn[s] # "new"
          /\ P!PresenceRemove(s, st)
      BY <1>i, <1>n, <1>1 DEF P!PresenceLeave
    <1>3. /\ \A r \in Sessions, x \in Streams :
                joined'[r][x] = IF r = s /\ x = st THEN NoPid ELSE joined[r][x]
          /\ joined' \in [Sessions -> [Streams -> Pids \cup {NoPid}]]
      BY <1>0, <1>2 DEF P!PresenceRemove, PresenceTypes
    <1>4. PICK p \in Pids \cup {NoPid} : p = pids[s][st]
      BY <1>0 DEF PresenceTypes
    <1>5. PICK c \in Commands : cmd' = [cmd EXCEPT ![s] = c]
      BY <1>2, <1>4, NewCommands, EventType DEF P!PresenceRemove
    <1>r. \/ p = NoPid /\ UNCHANGED <<records, pids, left>>
          \/ /\ p # NoPid
             /\ pids' = [pids EXCEPT ![s][st] = NoPid]
             /\ left' = [left EXCEPT ![s] = IF \E x \in Streams \ {st} : pids[s][x] # NoPid
                                            THEN @ ELSE P!Expired]
             /\ records' = P!Without(s, {<<st, p>>})
      BY <1>2, <1>4 DEF P!PresenceRemove, P!store
    <1>6. /\ \A r \in Sessions, x \in Streams : pids'[r][x] = IF r = s /\ x = st THEN NoPid ELSE pids[r][x]
          /\ pids' \in [Sessions -> [Streams -> Pids \cup {NoPid}]]
      <2>1. CASE pids' = pids /\ p = NoPid
        BY <1>0, <1>4, <2>1 DEF PresenceTypes
      <2>2. CASE pids' = [pids EXCEPT ![s][st] = NoPid]
        BY <1>0, <2>2 DEF PresenceTypes
      <2> QED
        BY <1>r, <2>1, <2>2
    <1>7. /\ \A x \in Streams, y \in Pids :
                records'[x][y] = IF x = st /\ y = p THEN records[x][y] \ {s} ELSE records[x][y]
          /\ records' \in [Streams -> [Pids -> SUBSET Sessions]]
      <2>1. CASE records' = records /\ p = NoPid
        BY <1>0, <2>1, MCPresenceAssumption DEF PresenceTypes, P!PresenceAssumption
      <2>2. CASE records' = P!Without(s, {<<st, p>>}) /\ p # NoPid
        <3>1. p \in Pids
          BY <2>2
        <3>2. \A x \in Streams, y \in Pids : <<x, y>> \in {<<st, p>>} <=> x = st /\ y = p
          OBVIOUS
        <3>3. records' = [x \in Streams |-> [y \in Pids |->
                  IF x = st /\ y = p THEN records[x][y] \ {s} ELSE records[x][y]]]
          BY <2>2, <3>2 DEF P!Without
        <3> QED
          BY <1>0, <3>1, <3>3 DEF PresenceTypes
      <2> QED
        BY <1>r, <2>1, <2>2
    <1>8. /\ left' \in [Sessions -> (-1) .. PresenceTTL]
          /\ \A r \in Sessions : r # s => left'[r] = left[r]
          /\ left'[s] = left[s] \/ \A x \in Streams \ {st} : pids[s][x] = NoPid
      <2>1. CASE left' = left
        BY <1>0, <2>1 DEF PresenceTypes
      <2>2. CASE left' # left
        <3>1. left' = [left EXCEPT ![s] = IF \E x \in Streams \ {st} : pids[s][x] # NoPid
                                          THEN @ ELSE P!Expired]
          BY <1>r, <2>2
        <3> QED
          BY <1>0, <3>1, IntervalFits DEF PresenceTypes
      <2> QED
        BY <2>1, <2>2
    <1>9. PresenceTypes'
      BY <1>0, <1>2, <1>3, <1>5, <1>6, <1>7, <1>8, CmdMoves DEF PresenceTypes
    <1>10. Recorded'
      <2>1. ASSUME NEW x \in Streams, NEW y \in Pids, NEW r \in Sessions
            PROVE  r \in records'[x][y] <=> pids'[r][x] = y
        <3>1. r \in records[x][y] <=> pids[r][x] = y
          BY DEF PresenceInv, Recorded
        <3>2. y # NoPid
          BY MCPresenceAssumption DEF P!PresenceAssumption
        <3>3. CASE r = s /\ x = st
          <4>1. pids'[r][x] = NoPid
            BY <1>6, <3>3
          <4>2. r \in records'[x][y] <=> y # p /\ r \in records[x][y]
            BY <1>7, <3>3
          <4> QED
            BY <1>4, <3>1, <3>2, <3>3, <4>1, <4>2
        <3>4. CASE ~(r = s /\ x = st)
          <4>1. pids'[r][x] = pids[r][x]
            BY <1>6, <3>4
          <4>2. r \in records'[x][y] <=> r \in records[x][y]
            BY <1>7, <3>4
          <4> QED
            BY <3>1, <4>1, <4>2
        <3> QED
          BY <3>3, <3>4
      <2>2. ASSUME NEW r \in Sessions, conn'[r] = "new"
            PROVE  /\ subscribed'[r] = {} /\ cmd'[r] = P!Idle
                   /\ \A x \in Streams : pids'[r][x] = NoPid /\ joined'[r][x] = NoPid
        <3>1. r # s /\ conn[r] = "new"
          BY <1>2, <2>2
        <3>2. cmd'[r] = cmd[r]
          BY <1>0, <1>5, <3>1, CmdMoves
        <3> QED
          BY SMTT(30), <1>2, <1>3, <1>6, <3>1, <3>2 DEF PresenceInv, Recorded
      <2> QED
        BY <2>1, <2>2 DEF Recorded
    <1>11. Keeping'
      <2> SUFFICES ASSUME NEW r \in Keepers, conn'[r] = "on"
                   PROVE  /\ \A x \in Streams : joined'[r][x] = pids'[r][x]
                          /\ P!HasEntry(r)' => left'[r] >= keepTimer'[r]
        BY DEF Keeping
      <2>1. r \in Sessions
        BY MCPresenceAssumption DEF P!PresenceAssumption
      <2>2. conn[r] = "on" /\ keepTimer'[r] = keepTimer[r]
        BY <1>2
      <2>3. /\ \A x \in Streams : joined[r][x] = pids[r][x]
            /\ P!HasEntry(r) => left[r] >= keepTimer[r]
        BY <2>2 DEF PresenceInv, Keeping
      <2>4. \A x \in Streams : joined'[r][x] = pids'[r][x]
        BY <1>3, <1>6, <2>1, <2>3
      <2>5. ASSUME P!HasEntry(r)' PROVE left'[r] = left[r] /\ P!HasEntry(r)
        <3>1. PICK x \in Streams : pids'[r][x] # NoPid
          BY <2>5, EntryIs
        <3>2. pids[r][x] # NoPid /\ (r = s => x # st)
          BY <1>6, <2>1, <3>1
        <3> QED
          BY <1>8, <2>1, <3>2, EntryIs
      <2> QED
        BY <2>2, <2>3, <2>4, <2>5
    <1> QED
      BY <1>9, <1>10, <1>11 DEF PresenceInv

(* The events of an expiration, in some order, are a sequence.             *)
LEMMA OrdersAreSequences ==
    ASSUME NEW remain, NEW f \in P!Orders(P!LeaveEvents(remain))
    PROVE  /\ f \in Seq(PresenceEvents)
           /\ {f[i] : i \in DOMAIN f} = P!LeaveEvents(remain)
PROOF
    <1> DEFINE R == {x \in Streams \X Pids : records[x[1]][x[2]] # {} /\ remain[x[1]][x[2]] = {}}
               L == P!LeaveEvents(remain)
    <1>1. IsFiniteSet(R)
      <2>0. IsFiniteSet(Streams) /\ IsFiniteSet(Pids)
        BY MCPresenceAssumption DEF P!PresenceAssumption, P!IsFiniteSet, IsFiniteSet
      <2>1. IsFiniteSet(Streams \X Pids)
        BY <2>0, FS_Product
      <2> QED
        BY <2>1, FS_Subset
    <1>2. L = {P!Event("leave", r[1], r[2]) : r \in R}
      BY DEF P!LeaveEvents
    <1>3. IsFiniteSet(L)
      <2> DEFINE F == [r \in R |-> P!Event("leave", r[1], r[2])]
      <2>1. F \in [R -> L] /\ \A e \in L : \E r \in R : F[r] = e
        BY <1>2
      <2> HIDE DEF R, L, F
      <2>2. F \in Surjection(R, L)
        BY <2>1, Fun_IsSurj
      <2> QED
        BY <1>1, <2>2, FS_Surjection
    <1>4. L \subseteq PresenceEvents
      BY <1>2, EventType
    <1>5. f \in [1 .. Cardinality(L) -> L] /\ {f[i] : i \in DOMAIN f} = L
      <2>1. P!Cardinality(L) = Cardinality(L)
        BY DEF P!Cardinality, Cardinality
      <2> HIDE DEF L
      <2> QED
        BY <2>1 DEF P!Orders, L
    <1>6. Cardinality(L) \in Nat
      BY <1>3, FS_CardinalityType
    <1> HIDE DEF L
    <1>7. f \in Seq(PresenceEvents)
      BY <1>4, <1>5, <1>6
    <1> QED
      BY <1>5, <1>7 DEF L

(* Sessions expire.                                                        *)
LEMMA ExpireKeeps ==
    ASSUME PresenceInv, P!ExpirePresence
    PROVE  PresenceInv'
PROOF
    <1>0. PresenceTypes
      BY DEF PresenceInv
    <1>1. UNCHANGED <<conn, subscribed, keepTimer, cmd, view, joined>>
      BY DEF P!ExpirePresence
    <1>2. PICK G \in SUBSET Sessions : G = P!Gone
      BY DEF P!Gone
    <1>3. /\ pids' \in [Sessions -> [Streams -> Pids \cup {NoPid}]]
          /\ \A s \in Sessions, x \in Streams : pids'[s][x] = IF s \in G THEN NoPid ELSE pids[s][x]
      BY <1>0, <1>2 DEF P!ExpirePresence, PresenceTypes
    <1>4. /\ left' \in [Sessions -> (-1) .. PresenceTTL]
          /\ \A s \in Sessions : left'[s] = IF s \in G THEN -1 ELSE left[s]
      BY <1>0, <1>2, IntervalFits DEF P!ExpirePresence, PresenceTypes
    <1>5. /\ records' \in [Streams -> [Pids -> SUBSET Sessions]]
          /\ \A x \in Streams, y \in Pids :
                records'[x][y] = {s \in records[x][y] : ~(s \in G /\ <<x, y>> \in P!GoneRecords(s))}
      BY <1>0, <1>2 DEF P!ExpirePresence, PresenceTypes
    <1>6. leaving' \in Seq(PresenceEvents)
      BY OrdersAreSequences DEF P!ExpirePresence
    <1>7. PresenceTypes'
      BY <1>0, <1>1, <1>3, <1>4, <1>5, <1>6 DEF PresenceTypes
    <1>8. Recorded'
      <2>1. ASSUME NEW x \in Streams, NEW y \in Pids, NEW r \in Sessions
            PROVE  r \in records'[x][y] <=> pids'[r][x] = y
        <3>1. r \in records[x][y] <=> pids[r][x] = y
          BY DEF PresenceInv, Recorded
        <3>2. y # NoPid
          BY MCPresenceAssumption DEF P!PresenceAssumption
        <3>3. pids[r][x] = y => <<x, y>> \in P!GoneRecords(r)
          BY <3>2 DEF P!GoneRecords
        <3>4. r \in records'[x][y] <=> r \in records[x][y] /\ ~(r \in G /\ <<x, y>> \in P!GoneRecords(r))
          BY <1>5
        <3>5. pids'[r][x] = IF r \in G THEN NoPid ELSE pids[r][x]
          BY <1>3
        <3> QED
          BY <3>1, <3>2, <3>3, <3>4, <3>5
      <2>2. ASSUME NEW r \in Sessions, conn'[r] = "new"
            PROVE  /\ subscribed'[r] = {} /\ cmd'[r] = P!Idle
                   /\ \A x \in Streams : pids'[r][x] = NoPid /\ joined'[r][x] = NoPid
        BY <1>1, <1>3, <2>2 DEF PresenceInv, Recorded
      <2> QED
        BY <2>1, <2>2 DEF Recorded
    <1>9. Keeping'
      <2> SUFFICES ASSUME NEW r \in Keepers, conn'[r] = "on"
                   PROVE  /\ \A x \in Streams : joined'[r][x] = pids'[r][x]
                          /\ P!HasEntry(r)' => left'[r] >= keepTimer'[r]
        BY DEF Keeping
      <2>1. r \in Sessions
        BY MCPresenceAssumption DEF P!PresenceAssumption
      <2>2. /\ \A x \in Streams : joined[r][x] = pids[r][x]
            /\ P!HasEntry(r) => left[r] >= keepTimer[r]
        BY <1>1 DEF PresenceInv, Keeping
      <2>3. r \notin G
        <3>1. keepTimer[r] \in 0 .. P!Interval /\ left[r] \in (-1) .. PresenceTTL
          BY <1>0, <2>1 DEF PresenceTypes
        <3>2. r \in G => P!HasEntry(r) /\ left[r] = -1
          BY <1>2, IntervalFits DEF P!Gone
        <3> QED
          BY <2>2, <3>1, <3>2, IntervalFits
      <2>4. left'[r] = left[r] /\ \A x \in Streams : pids'[r][x] = pids[r][x]
        BY <1>3, <1>4, <2>1, <2>3
      <2> QED
        BY <1>1, <2>2, <2>4, EntryIs
    <1> QED
      BY <1>7, <1>8, <1>9 DEF PresenceInv

(* A session touches its presence.                                         *)
LEMMA TouchKeeps ==
    ASSUME PresenceInv, NEW s \in Sessions, P!KeepPresence(s) \/ P!Disconnect(s)
    PROVE  PresenceInv'
PROOF
    <1>0. PresenceTypes
      BY DEF PresenceInv
    <1>1. UNCHANGED <<records, pids, subscribed, cmd, leaving, view, joined>>
          /\ P!TouchPresence(s) /\ conn[s] = "on"
      BY DEF P!KeepPresence, P!Disconnect
    <1>2. /\ left' \in [Sessions -> (-1) .. PresenceTTL]
          /\ \A r \in Sessions : r # s => left'[r] = left[r]
          /\ P!HasEntry(s) => left'[s] = PresenceTTL
      BY <1>0, <1>1, IntervalFits DEF P!TouchPresence, PresenceTypes
    <1>3. /\ keepTimer' \in [Sessions -> 0 .. P!Interval]
          /\ \A r \in Sessions : r # s => keepTimer'[r] = keepTimer[r]
      BY <1>0, IntervalFits DEF P!KeepPresence, P!Disconnect, PresenceTypes
    <1>4. /\ conn' \in [Sessions -> {"new", "on", "off"}] /\ conn'[s] # "new"
          /\ \A r \in Sessions : r # s => conn'[r] = conn[r]
      BY <1>0, <1>1 DEF P!KeepPresence, P!Disconnect, PresenceTypes
    <1>5. PresenceTypes'
      BY <1>0, <1>1, <1>2, <1>3, <1>4 DEF PresenceTypes
    <1>6. Recorded'
      <2>1. ASSUME NEW r \in Sessions, conn'[r] = "new" PROVE conn[r] = "new"
        BY <1>4, <2>1
      <2> QED
        BY <1>1, <2>1 DEF PresenceInv, Recorded
    <1>7. Keeping'
      <2> SUFFICES ASSUME NEW r \in Keepers, conn'[r] = "on"
                   PROVE  /\ \A x \in Streams : joined[r][x] = pids[r][x]
                          /\ P!HasEntry(r) => left'[r] >= keepTimer'[r]
        BY <1>1, EntryIs DEF Keeping
      <2>1. r \in Sessions /\ conn[r] = "on"
        BY <1>1, <1>4, MCPresenceAssumption DEF P!PresenceAssumption
      <2>2. /\ \A x \in Streams : joined[r][x] = pids[r][x]
            /\ P!HasEntry(r) => left[r] >= keepTimer[r]
        BY <2>1 DEF PresenceInv, Keeping
      <2>3. CASE r = s
        <3>1. keepTimer'[r] \in 0 .. P!Interval
          BY <1>3, <2>1
        <3> QED
          BY <1>2, <2>2, <2>3, <3>1, IntervalFits
      <2>4. CASE r # s
        BY <1>2, <1>3, <2>1, <2>2, <2>4
      <2> QED
        BY <2>3, <2>4
    <1> QED
      BY <1>5, <1>6, <1>7 DEF PresenceInv

(* Time passes.                                                            *)
LEMMA TimeKeeps ==
    ASSUME PresenceInv, P!Advance
    PROVE  PresenceInv'
PROOF
    <1>0. PresenceTypes
      BY DEF PresenceInv
    <1>1. UNCHANGED <<records, pids, conn, subscribed, cmd, leaving, view, joined>>
      BY DEF P!Advance
    <1>2. ASSUME NEW r \in Sessions
          PROVE  left[r] \in (-1) .. PresenceTTL /\ keepTimer[r] \in 0 .. P!Interval
      BY <1>0 DEF PresenceTypes
    <1>3. ASSUME NEW r \in Sessions
          PROVE  /\ left'[r] = IF left[r] > -1 THEN left[r] - 1 ELSE left[r]
                 /\ keepTimer'[r] = IF keepTimer[r] > 0 THEN keepTimer[r] - 1 ELSE 0
      BY IntervalFits DEF P!Advance
    <1>4. /\ left' \in [Sessions -> (-1) .. PresenceTTL]
          /\ keepTimer' \in [Sessions -> 0 .. P!Interval]
      <2>1. ASSUME NEW r \in Sessions
            PROVE  /\ (IF left[r] > P!Expired THEN left[r] - 1 ELSE left[r]) \in (-1) .. PresenceTTL
                   /\ (IF keepTimer[r] > 0 THEN keepTimer[r] - 1 ELSE 0) \in 0 .. P!Interval
        BY <1>2, IntervalFits
      <2> QED
        BY <2>1 DEF P!Advance
    <1>5. PresenceTypes'
      BY <1>0, <1>1, <1>4 DEF PresenceTypes
    <1>6. Recorded'
      BY <1>1 DEF PresenceInv, Recorded
    <1>7. Keeping'
      <2> SUFFICES ASSUME NEW r \in Keepers, conn[r] = "on"
                   PROVE  /\ \A x \in Streams : joined[r][x] = pids[r][x]
                          /\ P!HasEntry(r) => left'[r] >= keepTimer'[r]
        BY <1>1, EntryIs DEF Keeping
      <2>1. r \in Sessions
        BY MCPresenceAssumption DEF P!PresenceAssumption
      <2>2. /\ \A x \in Streams : joined[r][x] = pids[r][x]
            /\ P!HasEntry(r) => left[r] >= keepTimer[r]
        BY DEF PresenceInv, Keeping
      <2>3. keepTimer[r] > 0
        BY DEF P!Advance
      <2> QED
        BY <1>2, <1>3, <2>1, <2>2, <2>3, IntervalFits
    <1> QED
      BY <1>5, <1>6, <1>7 DEF PresenceInv

(* Every step keeps the invariant.                                         *)
LEMMA PresenceStep ==
    ASSUME PresenceInv, [P!Next]_presence
    PROVE  PresenceInv'
PROOF
    <1>1. CASE P!BroadcastLeave
      <2>1. UNCHANGED <<records, pids, left, joined, keepTimer, conn, subscribed, cmd>>
            /\ leaving # <<>> /\ leaving' = Tail(leaving) /\ P!HandleEvent(Head(leaving))
        BY <1>1 DEF P!BroadcastLeave, P!store
      <2>2. PresenceTypes /\ leaving \in Seq(PresenceEvents)
        BY DEF PresenceInv, PresenceTypes
      <2>3. leaving' \in Seq(PresenceEvents) /\ Head(leaving) \in PresenceEvents
        BY <2>1, <2>2
      <2>4. PICK ev \in PresenceEvents : ev = Head(leaving)
        BY <2>3
      <2>5. view' \in [Sessions -> [Streams -> SUBSET Pids]]
        BY <2>1, <2>2, <2>4, HandledType
      <2>6. PresenceTypes'
        BY <2>1, <2>2, <2>3, <2>5 DEF PresenceTypes
      <2>7. \A r \in Sessions : conn'[r] = "new" => subscribed'[r] = {} /\ cmd'[r] = P!Idle
        BY <2>1 DEF PresenceInv, Recorded
      <2> QED
        BY <2>1, <2>6, <2>7, StoreKept
    <1>2. CASE UNCHANGED presence
      BY <1>2 DEF presence, PresenceInv, PresenceTypes, Recorded, Keeping, P!HasEntry
    <1> QED
      BY <1>1, <1>2, ReaderKeeps, JoinKeeps, LeaveKeeps, ExpireKeeps, TouchKeeps, TimeKeeps
      DEF P!Next

(* No one has connected.                                                   *)
LEMMA PresenceStarts == P!Init => PresenceInv
PROOF
    <1> SUFFICES ASSUME P!Init PROVE PresenceInv
      OBVIOUS
    <1>1. PresenceTypes
      BY IntervalFits, NewCommands DEF P!Init, PresenceTypes
    <1>2. Recorded
      BY MCPresenceAssumption DEF P!Init, Recorded, P!PresenceAssumption
    <1>3. Keeping
      BY MCPresenceAssumption DEF P!Init, Keeping, P!PresenceAssumption
    <1> QED
      BY <1>1, <1>2, <1>3 DEF PresenceInv

(* Events that are still to be broadcast.                                  *)
LEMMA PendingIs ==
    /\ \A e : e \in P!Pending <=> \/ \E s \in Sessions : cmd[s].op = "broadcast" /\ cmd[s].ev = e
                                  \/ \E i \in DOMAIN leaving : leaving[i] = e
    /\ \A e : e \in P!Pending' <=> \/ \E s \in Sessions : cmd'[s].op = "broadcast" /\ cmd'[s].ev = e
                                   \/ \E i \in DOMAIN leaving' : leaving'[i] = e
PROOF
    BY DEF P!Pending

(* Nothing changes for an id of a stream.                                  *)
LEMMA ToldKept ==
    ASSUME NEW st, NEW p, <<st, p>> \in raced \/ Told(st, p), raced \subseteq raced',
           Here(st, p)' <=> Here(st, p),
           \A e : About(e, st, p) => (e \in P!Pending' <=> e \in P!Pending),
           \A s \in Sessions : KnownBy(s, st, p) => KnownBy(s, st, p)'
    PROVE  <<st, p>> \in raced' \/ Told(st, p)'
PROOF
    BY DEF Told

(* An event is new.                                                        *)
LEMMA ToldAnew ==
    ASSUME NEW st, NEW p, NEW e, e \in P!Pending', About(e, st, p), Here(st, p)' <=> e.type = "join"
    PROVE  Told(st, p)'
PROOF
    BY DEF Told, About

(* An event is broadcast.                                                  *)
LEMMA BroadcastTells ==
    ASSUME PresenceInv, ViewsInv, NEW e \in PresenceEvents, e \in P!Pending, P!HandleEvent(e),
           UNCHANGED <<records, conn, subscribed>>,
           \A x : x \in P!Pending' => x \in P!Pending,
           \A x : x \in P!Pending /\ x # e => x \in P!Pending',
           \A s \in Sessions : cmd'[s] = cmd[s] \/ (cmd[s].op = "broadcast" /\ cmd'[s] = P!Idle)
    PROVE  ViewsInv'
PROOF
    <1> SUFFICES ASSUME NEW st \in Streams, NEW p \in Pids
                 PROVE  <<st, p>> \in raced' \/ Told(st, p)'
      BY DEF ViewsInv
    <1>1. <<st, p>> \in raced \/ Told(st, p)
      BY DEF ViewsInv
    <1>2. raced \subseteq raced' /\ (P!Overtakes(e) \/ P!Answering(e.stream) => <<e.stream, e.id>> \in raced')
      BY DEF P!HandleEvent
    <1>3. Here(st, p)' <=> Here(st, p)
      BY DEF Here
    <1>i. P!Idle.op = "idle"
      BY DEF P!Idle
    <1>4. ASSUME NEW s \in Sessions
          PROVE  /\ cmd'[s].op = "answer" /\ cmd'[s].stream = st => cmd'[s] = cmd[s]
                 /\ ~Asking(s, st)' => ~Asking(s, st)
      BY <1>i DEF Asking
    <1>w. ASSUME NEW s \in Sessions
          PROVE  view'[s] = IF e.stream \notin subscribed[s] THEN view[s]
                            ELSE [view[s] EXCEPT ![e.stream] =
                                     IF e.type = "join" THEN @ \cup {e.id} ELSE @ \ {e.id}]
      BY DEF P!HandleEvent
    <1>t. ASSUME NEW s \in Sessions PROVE view[s] \in [Streams -> SUBSET Pids] /\ e.stream \in Streams
      BY DEF PresenceInv, PresenceTypes, PresenceEvents
    <1>v. ASSUME NEW s \in Sessions
          PROVE  /\ e.stream = st /\ st \in subscribed[s] /\ e.type = "join"
                    => (p \in view'[s][st] <=> p \in view[s][st] \/ p = e.id)
                 /\ e.stream = st /\ st \in subscribed[s] /\ e.type # "join"
                    => (p \in view'[s][st] <=> p \in view[s][st] /\ p # e.id)
                 /\ e.stream # st \/ st \notin subscribed[s] => view'[s][st] = view[s][st]
      <2>1. CASE e.stream \notin subscribed[s]
        <3>1. view'[s] = view[s]
          BY <1>w, <2>1
        <3> QED
          BY <2>1, <3>1
      <2>2. CASE e.stream \in subscribed[s] /\ e.type = "join"
        <3>1. view'[s] = [view[s] EXCEPT ![e.stream] = @ \cup {e.id}]
          BY <1>w, <2>2
        <3> QED
          BY <1>t, <2>2, <3>1
      <2>3. CASE e.stream \in subscribed[s] /\ e.type # "join"
        <3>1. view'[s] = [view[s] EXCEPT ![e.stream] = @ \ {e.id}]
          BY <1>w, <2>3
        <3> QED
          BY <1>t, <2>3, <3>1
      <2> QED
        BY <2>1, <2>2, <2>3
    <1>5. CASE ~About(e, st, p)
      <2>1. \A x : About(x, st, p) => (x \in P!Pending' <=> x \in P!Pending)
        BY <1>5
      <2>2. ASSUME NEW s \in Sessions, KnownBy(s, st, p) PROVE KnownBy(s, st, p)'
        <3>1. p \in view'[s][st] <=> p \in view[s][st]
          <4>1. CASE e.stream = st
            <5>1. e.id # p
              BY <1>5, <4>1 DEF About
            <5> QED
              BY <1>v, <4>1, <5>1
          <4>2. CASE e.stream # st
            BY <1>v, <4>2
          <4> QED
            BY <4>1, <4>2
        <3>2. conn'[s] = "on" /\ st \in subscribed'[s] /\ ~Asking(s, st)'
              => (p \in view'[s][st] <=> Here(st, p)')
          BY <1>3, <1>4, <2>2, <3>1 DEF KnownBy
        <3>3. cmd'[s].op = "answer" /\ cmd'[s].stream = st => (p \in cmd'[s].ids <=> Here(st, p)')
          BY <1>3, <1>4, <2>2 DEF KnownBy
        <3> QED
          BY <3>2, <3>3 DEF KnownBy
      <2> QED
        BY <1>1, <1>2, <1>3, <2>1, <2>2, ToldKept
    <1>6. CASE About(e, st, p)
      <2>0. e.stream = st /\ e.id = p
        BY <1>6 DEF About
      <2> SUFFICES ASSUME <<st, p>> \notin raced' PROVE Told(st, p)'
        OBVIOUS
      <2>1. ~P!Overtakes(e) /\ ~P!Answering(st) /\ Told(st, p)
        BY <1>1, <1>2, <2>0
      <2>2. \A x \in P!Pending : About(x, st, p) => x = e
        BY <2>0, <2>1 DEF P!Overtakes, About
      <2>3. Here(st, p) <=> e.type = "join"
        BY <1>6, <2>1, <2>2 DEF Told
      <2>4. ASSUME NEW s \in Sessions PROVE KnownBy(s, st, p)'
        <3>1. st \in subscribed[s] => (p \in view'[s][st] <=> e.type = "join")
          BY <1>v, <2>0
        <3>2. ~(cmd'[s].op = "answer" /\ cmd'[s].stream = st)
          BY <1>4, <2>1 DEF P!Answering
        <3> QED
          BY <1>3, <2>3, <3>1, <3>2 DEF KnownBy
      <2>5. \A x \in P!Pending' : About(x, st, p) => x = e
        BY <2>2
      <2>6. ASSUME NEW x \in P!Pending', About(x, st, p) PROVE Here(st, p)' <=> x.type = "join"
        BY <1>3, <2>3, <2>5, <2>6
      <2> QED
        BY <2>4, <2>6 DEF Told
    <1> QED
      BY <1>5, <1>6

(* A session whose reader went on, and was not and is not broadcasting.    *)
LEMMA PendingKept ==
    ASSUME PresenceTypes, NEW s \in Sessions, NEW c \in Commands, cmd' = [cmd EXCEPT ![s] = c],
           cmd[s].op # "broadcast", c.op # "broadcast", leaving' = leaving
    PROVE  \A e : e \in P!Pending' <=> e \in P!Pending
PROOF
    BY CmdMoves, PendingIs

(* Nothing changes about an id but one session's command, channels, view   *)
(* or connection.                                                          *)
LEMMA OneSessionMoves ==
    ASSUME ViewsInv, NEW st \in Streams, NEW p \in Pids, raced' = raced, Here(st, p)' <=> Here(st, p),
           \A e : e \in P!Pending' <=> e \in P!Pending, NEW s \in Sessions,
           \A r \in Sessions : r # s => /\ cmd'[r] = cmd[r] /\ conn'[r] = conn[r] /\ view'[r] = view[r]
                                       /\ subscribed'[r] = subscribed[r],
           KnownBy(s, st, p) => KnownBy(s, st, p)'
    PROVE  <<st, p>> \in raced' \/ Told(st, p)'
PROOF
    <1>1. \A r \in Sessions : KnownBy(r, st, p) => KnownBy(r, st, p)'
      BY DEF KnownBy, Asking
    <1>2. <<st, p>> \in raced \/ Told(st, p)
      BY DEF ViewsInv
    <1> QED
      BY <1>1, <1>2, ToldKept

(* The actions of a session that leave the broker's maps alone.            *)
LEMMA ReaderTells ==
    ASSUME PresenceInv, ViewsInv, NEW s \in Sessions,
           \/ P!Connect(s) \/ P!HandleCommand(s) \/ P!Subscribe(s) \/ P!Unsubscribe(s)
           \/ P!PresenceInfo(s) \/ P!Answer(s) \/ P!KeepPresence(s) \/ P!Disconnect(s)
    PROVE  ViewsInv'
PROOF
    <1> SUFFICES ASSUME NEW st \in Streams, NEW p \in Pids
                 PROVE  <<st, p>> \in raced' \/ Told(st, p)'
      BY DEF ViewsInv
    <1>0. PresenceTypes /\ cmd[s] \in Commands /\ CommandFields(cmd[s])
      BY CommandForms DEF PresenceInv, PresenceTypes
    <1>i. P!Idle.op = "idle"
      BY DEF P!Idle
    <1>n. \A r \in Sessions : conn[r] = "new" => subscribed[r] = {} /\ cmd[r] = P!Idle
      BY DEF PresenceInv, Recorded
    <1>r. raced' = raced /\ (Here(st, p)' <=> Here(st, p)) /\ leaving' = leaving
      BY DEF P!Connect, P!HandleCommand, P!Subscribe, P!Unsubscribe, P!PresenceInfo, P!Answer,
             P!KeepPresence, P!Disconnect, P!store, Here
    <1>1. CASE P!Connect(s) \/ P!KeepPresence(s) \/ P!Disconnect(s)
      <2>1. UNCHANGED <<cmd, leaving, view, subscribed>>
        BY <1>1 DEF P!Connect, P!KeepPresence, P!Disconnect
      <2>2. /\ \A r \in Sessions : r # s => conn'[r] = conn[r]
            /\ conn'[s] = "on" => conn[s] = "on" \/ subscribed[s] = {}
        BY <1>0, <1>1, <1>n DEF P!Connect, P!KeepPresence, P!Disconnect, PresenceTypes
      <2>3. \A e : e \in P!Pending' <=> e \in P!Pending
        BY <2>1, PendingIs
      <2>4. KnownBy(s, st, p) => KnownBy(s, st, p)'
        BY <1>r, <2>1, <2>2 DEF KnownBy, Asking
      <2> QED
        BY <1>r, <2>1, <2>2, <2>3, <2>4, OneSessionMoves
    <1>2. CASE P!HandleCommand(s)
      <2>1. PICK c \in P!Ops(s) : cmd' = [cmd EXCEPT ![s] = c]
        BY <1>2 DEF P!HandleCommand
      <2>2. c \in Commands /\ c.op \notin {"broadcast", "answer"}
        BY <1>0, OpsAreCommands DEF P!Ops
      <2>3. UNCHANGED <<conn, subscribed, view>> /\ cmd[s] = P!Idle
        BY <1>2 DEF P!HandleCommand
      <2>4. cmd'[s] = c /\ \A r \in Sessions : r # s => cmd'[r] = cmd[r]
        BY <1>0, <2>1, <2>2, CmdMoves
      <2>5. \A e : e \in P!Pending' <=> e \in P!Pending
        BY <1>0, <1>i, <1>r, <2>1, <2>2, <2>3, PendingKept
      <2>6. KnownBy(s, st, p) => KnownBy(s, st, p)'
        BY <1>i, <1>r, <2>2, <2>3, <2>4 DEF KnownBy, Asking
      <2> QED
        BY <1>r, <2>3, <2>4, <2>5, <2>6, OneSessionMoves
    <1>3. CASE P!Subscribe(s)
      <2>1. PICK x \in Streams : x = cmd[s].stream
        BY <1>0, <1>3 DEF CommandFields, P!Subscribe
      <2>2. PICK c \in Commands : c = [op |-> "presence", stream |-> x]
        BY NewCommands
      <2>3. UNCHANGED <<conn, view>> /\ cmd' = [cmd EXCEPT ![s] = c] /\ cmd[s].op = "subscribe"
            /\ subscribed' = [subscribed EXCEPT ![s] = @ \cup {x}]
        BY <1>3, <2>1, <2>2 DEF P!Subscribe
      <2>4. cmd'[s] = c /\ \A r \in Sessions : r # s => cmd'[r] = cmd[r]
        BY <1>0, <2>3, CmdMoves
      <2>5. subscribed'[s] = subscribed[s] \cup {x}
            /\ \A r \in Sessions : r # s => subscribed'[r] = subscribed[r]
        BY <1>0, <2>3 DEF PresenceTypes
      <2>6. \A e : e \in P!Pending' <=> e \in P!Pending
        BY <1>0, <1>r, <2>2, <2>3, PendingKept
      <2>7. KnownBy(s, st, p) => KnownBy(s, st, p)'
        BY <1>r, <2>2, <2>3, <2>4, <2>5 DEF KnownBy, Asking
      <2> QED
        BY <1>r, <2>3, <2>4, <2>5, <2>6, <2>7, OneSessionMoves
    <1>4. CASE P!Unsubscribe(s)
      <2>1. PICK x \in Streams : x = cmd[s].stream
        BY <1>0, <1>4 DEF CommandFields, P!Unsubscribe
      <2>2. PICK c \in Commands : c = [op |-> "leave", stream |-> x]
        BY NewCommands
      <2>3. UNCHANGED <<conn, view>> /\ cmd' = [cmd EXCEPT ![s] = c] /\ cmd[s].op = "unsubscribe"
            /\ subscribed' = [subscribed EXCEPT ![s] = @ \ {x}]
        BY <1>4, <2>1, <2>2 DEF P!Unsubscribe
      <2>4. cmd'[s] = c /\ \A r \in Sessions : r # s => cmd'[r] = cmd[r]
        BY <1>0, <2>3, CmdMoves
      <2>5. subscribed'[s] \subseteq subscribed[s]
            /\ \A r \in Sessions : r # s => subscribed'[r] = subscribed[r]
        BY <1>0, <2>3 DEF PresenceTypes
      <2>6. \A e : e \in P!Pending' <=> e \in P!Pending
        BY <1>0, <1>r, <2>2, <2>3, PendingKept
      <2>7. KnownBy(s, st, p) => KnownBy(s, st, p)'
        BY <1>r, <2>2, <2>3, <2>4, <2>5 DEF KnownBy, Asking
      <2> QED
        BY <1>r, <2>3, <2>4, <2>5, <2>6, <2>7, OneSessionMoves
    <1>5. CASE P!PresenceInfo(s)
      <2>1. PICK x \in Streams : x = cmd[s].stream
        BY <1>0, <1>5 DEF CommandFields, P!PresenceInfo
      <2>2. PICK ids \in SUBSET Pids : ids = P!Present(x)
        BY DEF P!Present
      <2>3. PICK c \in Commands : c = [op |-> "answer", stream |-> x, ids |-> ids]
        BY NewCommands
      <2>4. UNCHANGED <<conn, view, subscribed>> /\ cmd' = [cmd EXCEPT ![s] = c]
            /\ cmd[s].op = "presence"
        BY <1>5, <2>1, <2>2, <2>3 DEF P!PresenceInfo
      <2>5. cmd'[s] = c /\ \A r \in Sessions : r # s => cmd'[r] = cmd[r]
        BY <1>0, <2>4, CmdMoves
      <2>6. \A e : e \in P!Pending' <=> e \in P!Pending
        BY <1>0, <1>r, <2>3, <2>4, PendingKept
      <2>7. p \in P!Present(st) <=> Here(st, p)
        BY DEF P!Present, Here
      <2>8. KnownBy(s, st, p) => KnownBy(s, st, p)'
        BY <1>r, <2>1, <2>2, <2>3, <2>4, <2>5, <2>7 DEF KnownBy, Asking
      <2> QED
        BY <1>r, <2>4, <2>5, <2>6, <2>8, OneSessionMoves
    <1>6. CASE P!Answer(s)
      <2>1. PICK x \in Streams, ids \in SUBSET Pids : x = cmd[s].stream /\ ids = cmd[s].ids
        BY <1>0, <1>6 DEF CommandFields, P!Answer
      <2>2. UNCHANGED <<conn, subscribed>> /\ cmd' = [cmd EXCEPT ![s] = P!Idle] /\ cmd[s].op = "answer"
            /\ view' = IF conn[s] = "on" THEN [view EXCEPT ![s][x] = ids] ELSE view
        BY <1>6, <2>1 DEF P!Answer
      <2>3. cmd'[s] = P!Idle /\ \A r \in Sessions : r # s => cmd'[r] = cmd[r]
        BY <1>0, <2>2, CmdMoves, NewCommands
      <2>4. \A r \in Sessions : r # s => view'[r] = view[r]
        BY <1>0, <2>2 DEF PresenceTypes
      <2>5. conn[s] = "on" => view'[s][st] = IF st = x THEN ids ELSE view[s][st]
        BY <1>0, <2>2 DEF PresenceTypes
      <2>6. \A e : e \in P!Pending' <=> e \in P!Pending
        BY <1>0, <1>i, <1>r, <2>2, PendingKept, NewCommands
      <2>7. KnownBy(s, st, p) => KnownBy(s, st, p)'
        BY <1>i, <1>r, <2>1, <2>2, <2>3, <2>5 DEF KnownBy, Asking
      <2> QED
        BY <1>r, <2>2, <2>3, <2>4, <2>6, <2>7, OneSessionMoves
    <1> QED
      BY <1>1, <1>2, <1>3, <1>4, <1>5, <1>6

(* A session's reader starts to broadcast.                                 *)
LEMMA PendingMore ==
    ASSUME PresenceTypes, NEW s \in Sessions, NEW e \in PresenceEvents, NEW c \in Commands,
           c = [op |-> "broadcast", ev |-> e], cmd' = [cmd EXCEPT ![s] = c],
           cmd[s].op # "broadcast", leaving' = leaving
    PROVE  /\ e \in P!Pending'
           /\ \A x : x # e => (x \in P!Pending' <=> x \in P!Pending)
PROOF
    <1>1. cmd'[s] = c /\ \A r \in Sessions : r # s => cmd'[r] = cmd[r]
      BY CmdMoves
    <1>2. c.op = "broadcast" /\ c.ev = e
      OBVIOUS
    <1>3. e \in P!Pending'
      BY <1>1, <1>2, PendingIs
    <1>4. ASSUME NEW x, x # e PROVE x \in P!Pending' <=> x \in P!Pending
      BY <1>1, <1>2, <1>4, PendingIs
    <1> QED
      BY <1>3, <1>4

(* A session joins or leaves: its command ends, or it is the first or the  *)
(* last under its id and has that to broadcast.                            *)
LEMMA StoreTells ==
    ASSUME PresenceInv, ViewsInv, NEW s \in Sessions, cmd[s].op \in {"join", "leave"},
           NEW x \in Streams, NEW y \in Pids, NEW t \in {"join", "leave"},
           UNCHANGED <<conn, subscribed, view, leaving, raced>>,
           \A st \in Streams, p \in Pids : ~(st = x /\ p = y) => (Here(st, p)' <=> Here(st, p)),
           \/ cmd' = [cmd EXCEPT ![s] = P!Idle] /\ (Here(x, y)' <=> Here(x, y))
           \/ /\ cmd' = [cmd EXCEPT ![s] = [op |-> "broadcast", ev |-> P!Event(t, x, y)]]
              /\ Here(x, y)' <=> t = "join"
    PROVE  ViewsInv'
PROOF
    <1> SUFFICES ASSUME NEW st \in Streams, NEW p \in Pids
                 PROVE  <<st, p>> \in raced' \/ Told(st, p)'
      BY DEF ViewsInv
    <1>0. PresenceTypes /\ cmd[s] \in Commands
      BY DEF PresenceInv, PresenceTypes
    <1>i. P!Idle.op = "idle"
      BY DEF P!Idle
    <1>1. CASE cmd' = [cmd EXCEPT ![s] = P!Idle] /\ (Here(x, y)' <=> Here(x, y))
      <2>1. cmd'[s] = P!Idle /\ \A r \in Sessions : r # s => cmd'[r] = cmd[r]
        BY <1>0, <1>1, CmdMoves, NewCommands
      <2>2. \A e : e \in P!Pending' <=> e \in P!Pending
        BY <1>0, <1>1, <1>i, PendingKept, NewCommands
      <2>3. Here(st, p)' <=> Here(st, p)
        BY <1>1
      <2>4. KnownBy(s, st, p) => KnownBy(s, st, p)'
        BY <1>i, <2>1, <2>3 DEF KnownBy, Asking
      <2> QED
        BY <2>1, <2>2, <2>3, <2>4, OneSessionMoves
    <1>2. CASE /\ cmd' = [cmd EXCEPT ![s] = [op |-> "broadcast", ev |-> P!Event(t, x, y)]]
               /\ Here(x, y)' <=> t = "join"
      <2>1. PICK e \in PresenceEvents : e = P!Event(t, x, y)
        BY EventType
      <2>2. e.type = t /\ e.stream = x /\ e.id = y
        BY <2>1 DEF P!Event
      <2>3. PICK c \in Commands : c = [op |-> "broadcast", ev |-> e]
        BY NewCommands
      <2>4. cmd'[s] = c /\ \A r \in Sessions : r # s => cmd'[r] = cmd[r]
        BY <1>0, <1>2, <2>1, <2>3, CmdMoves
      <2>5. e \in P!Pending' /\ \A z : z # e => (z \in P!Pending' <=> z \in P!Pending)
        BY ZenonT(60), <1>0, <1>2, <2>1, <2>3, PendingMore
      <2>6. CASE st = x /\ p = y
        BY <1>2, <2>2, <2>5, <2>6, ToldAnew DEF About
      <2>7. CASE ~(st = x /\ p = y)
        <3>1. \A z : About(z, st, p) => (z \in P!Pending' <=> z \in P!Pending)
          BY <2>2, <2>5, <2>7 DEF About
        <3>2. Here(st, p)' <=> Here(st, p)
          BY <2>7
        <3>3. c.op = "broadcast"
          BY <2>3
        <3>4. ASSUME NEW r \in Sessions, KnownBy(r, st, p) PROVE KnownBy(r, st, p)'
          <4>1. CASE r = s
            BY <2>4, <3>2, <3>3, <3>4, <4>1 DEF KnownBy, Asking
          <4>2. CASE r # s
            BY <2>4, <3>2, <3>4, <4>2 DEF KnownBy, Asking
          <4> QED
            BY <4>1, <4>2
        <3>5. <<st, p>> \in raced \/ Told(st, p)
          BY DEF ViewsInv
        <3> QED
          BY <3>1, <3>2, <3>4, <3>5, ToldKept
      <2> QED
        BY <2>6, <2>7
    <1> QED
      BY <1>1, <1>2

(* A session joins.                                                        *)
LEMMA JoinTells ==
    ASSUME PresenceInv, ViewsInv, NEW s \in Sessions, P!PresenceJoin(s)
    PROVE  ViewsInv'
PROOF
    <1>0. PresenceTypes /\ cmd[s] \in Commands /\ CommandFields(cmd[s])
      BY CommandForms DEF PresenceInv, PresenceTypes
    <1>1. PICK x \in Streams, y \in Pids : x = cmd[s].stream /\ y = cmd[s].id
      BY <1>0 DEF P!PresenceJoin, CommandFields
    <1>2. UNCHANGED <<conn, subscribed, view, leaving, raced>> /\ cmd[s].op = "join"
      BY DEF P!PresenceJoin
    <1>3. CASE P!PresenceAdd(s, x, y)
      <2>1. \A st \in Streams, p \in Pids :
               records'[st][p] = IF st = x /\ p = y THEN records[st][p] \cup {s} ELSE records[st][p]
        BY <1>0, <1>3 DEF P!PresenceAdd, PresenceTypes
      <2>2. \A st \in Streams, p \in Pids : ~(st = x /\ p = y) => (Here(st, p)' <=> Here(st, p))
        BY <2>1 DEF Here
      <2>3. Here(x, y)'
        BY <2>1 DEF Here
      <2>4. CASE records[x][y] = {}
        <3>1. cmd' = [cmd EXCEPT ![s] = [op |-> "broadcast", ev |-> P!Event("join", x, y)]]
          BY <1>3, <2>4 DEF P!PresenceAdd
        <3> QED
          BY <1>2, <2>2, <2>3, <3>1, StoreTells
      <2>5. CASE records[x][y] # {}
        <3>1. cmd' = [cmd EXCEPT ![s] = P!Idle] /\ Here(x, y)
          BY <1>3, <2>5 DEF P!PresenceAdd, Here
        <3> QED
          BY <1>2, <2>2, <2>3, <3>1, StoreTells
      <2> QED
        BY <2>4, <2>5
    <1>4. CASE cmd' = [cmd EXCEPT ![s] = P!Idle] /\ records' = records
      <2>1. \A st \in Streams, p \in Pids : Here(st, p)' <=> Here(st, p)
        BY <1>4 DEF Here
      <2> QED
        BY <1>2, <1>4, <2>1, StoreTells
    <1> QED
      BY <1>1, <1>3, <1>4 DEF P!PresenceJoin, P!store

(* A session leaves.                                                       *)
LEMMA LeaveTells ==
    ASSUME PresenceInv, ViewsInv, NEW s \in Sessions, P!PresenceLeave(s)
    PROVE  ViewsInv'
PROOF
    <1>0. PresenceTypes /\ cmd[s] \in Commands /\ CommandFields(cmd[s])
      BY CommandForms DEF PresenceInv, PresenceTypes
    <1>1. PICK x \in Streams : x = cmd[s].stream
      BY <1>0 DEF P!PresenceLeave, CommandFields
    <1>2. UNCHANGED <<conn, subscribed, view, leaving, raced>> /\ cmd[s].op = "leave"
          /\ P!PresenceRemove(s, x)
      BY <1>1 DEF P!PresenceLeave
    <1>3. PICK y \in Pids \cup {NoPid} : y = pids[s][x]
      BY <1>0 DEF PresenceTypes
    <1>4. CASE y = NoPid
      <2>1. cmd' = [cmd EXCEPT ![s] = P!Idle] /\ records' = records
        BY <1>2, <1>3, <1>4 DEF P!PresenceRemove, P!store
      <2>2. \A st \in Streams, p \in Pids : Here(st, p)' <=> Here(st, p)
        BY <2>1 DEF Here
      <2>3. CASE Pids # {}
        <3>1. PICK z \in Pids : TRUE
          BY <2>3
        <3> QED
          BY <1>2, <2>1, <2>2, <3>1, StoreTells
      <2>4. CASE Pids = {}
        BY <2>4 DEF ViewsInv
      <2> QED
        BY <2>3, <2>4
    <1>5. CASE y # NoPid
      <2>0. y \in Pids /\ s \in records[x][y]
        BY <1>3, <1>5 DEF PresenceInv, Recorded
      <2>1. records' = P!Without(s, {<<x, y>>})
            /\ cmd' = [cmd EXCEPT ![s] = IF records[x][y] = {s}
                                         THEN [op |-> "broadcast", ev |-> P!Event("leave", x, y)]
                                         ELSE P!Idle]
        BY <1>2, <1>3, <1>5 DEF P!PresenceRemove
      <2>2. \A st \in Streams, p \in Pids :
               records'[st][p] = IF st = x /\ p = y THEN records[st][p] \ {s} ELSE records[st][p]
        <3>1. \A st \in Streams, p \in Pids : <<st, p>> \in {<<x, y>>} <=> st = x /\ p = y
          OBVIOUS
        <3> QED
          BY <2>1, <3>1 DEF P!Without
      <2>3. \A st \in Streams, p \in Pids : ~(st = x /\ p = y) => (Here(st, p)' <=> Here(st, p))
        BY <2>2 DEF Here
      <2>4. records'[x][y] = records[x][y] \ {s}
        BY <2>0, <2>2
      <2>5. CASE records[x][y] = {s}
        <3>1. cmd' = [cmd EXCEPT ![s] = [op |-> "broadcast", ev |-> P!Event("leave", x, y)]]
          BY <2>1, <2>5
        <3>2. ~Here(x, y)'
          BY <2>4, <2>5 DEF Here
        <3> QED
          BY <1>2, <2>0, <2>3, <3>1, <3>2, StoreTells
      <2>6. CASE records[x][y] # {s}
        <3>1. cmd' = [cmd EXCEPT ![s] = P!Idle]
          BY <2>1, <2>6
        <3>2. Here(x, y)' /\ Here(x, y)
          BY <2>0, <2>4, <2>6 DEF Here
        <3> QED
          BY <1>2, <2>0, <2>3, <3>1, <3>2, StoreTells
      <2> QED
        BY <2>5, <2>6
    <1> QED
      BY <1>4, <1>5

(* Sessions expire: an id that is gone has an event to come.               *)
LEMMA ExpireTells ==
    ASSUME PresenceInv, ViewsInv, P!ExpirePresence
    PROVE  ViewsInv'
PROOF
    <1> SUFFICES ASSUME NEW st \in Streams, NEW p \in Pids
                 PROVE  <<st, p>> \in raced' \/ Told(st, p)'
      BY DEF ViewsInv
    <1>0. PresenceTypes
      BY DEF PresenceInv
    <1>1. UNCHANGED <<conn, subscribed, cmd, view, raced>> /\ leaving = <<>>
      BY DEF P!ExpirePresence
    <1>2. records'[st][p] \subseteq records[st][p]
      BY DEF P!ExpirePresence
    <1>3. {leaving'[i] : i \in DOMAIN leaving'} = P!LeaveEvents(records')
      BY OrdersAreSequences DEF P!ExpirePresence
    <1>4. \A e : e \in P!Pending' <=> e \in P!Pending \/ e \in P!LeaveEvents(records')
      BY <1>1, <1>3, PendingIs
    <1>5. CASE Here(st, p) /\ ~Here(st, p)'
      <2>1. <<st, p>> \in Streams \X Pids /\ <<st, p>>[1] = st /\ <<st, p>>[2] = p
        OBVIOUS
      <2>2. P!Event("leave", st, p) \in P!LeaveEvents(records')
        BY <1>5, <2>1 DEF P!LeaveEvents, Here
      <2>3. PICK e : e = P!Event("leave", st, p)
        OBVIOUS
      <2>4. e.type = "leave" /\ About(e, st, p)
        BY <2>3 DEF P!Event, About
      <2> QED
        BY <1>4, <1>5, <2>2, <2>3, <2>4, ToldAnew
    <1>6. CASE ~(Here(st, p) /\ ~Here(st, p)')
      <2>1. Here(st, p)' <=> Here(st, p)
        BY <1>2, <1>6 DEF Here
      <2>2. ASSUME NEW e \in P!LeaveEvents(records') PROVE ~About(e, st, p)
        <3>1. PICK r \in Streams \X Pids : /\ e = P!Event("leave", r[1], r[2])
                                           /\ records[r[1]][r[2]] # {} /\ records'[r[1]][r[2]] = {}
          BY <2>2 DEF P!LeaveEvents
        <3>2. e.stream = r[1] /\ e.id = r[2]
          BY <3>1 DEF P!Event
        <3> QED
          BY <1>6, <3>1, <3>2 DEF About, Here
      <2>3. \A e : About(e, st, p) => (e \in P!Pending' <=> e \in P!Pending)
        BY <1>4, <2>2
      <2>4. \A s \in Sessions : KnownBy(s, st, p) => KnownBy(s, st, p)'
        BY <1>1, <2>1 DEF KnownBy, Asking
      <2>5. <<st, p>> \in raced \/ Told(st, p)
        BY DEF ViewsInv
      <2> QED
        BY <1>1, <2>1, <2>3, <2>4, <2>5, ToldKept
    <1> QED
      BY <1>5, <1>6

(* The event of a reader is broadcast.                                     *)
LEMMA ReaderBroadcasts ==
    ASSUME PresenceInv, ViewsInv, NEW s \in Sessions, P!BroadcastEvent(s)
    PROVE  ViewsInv'
PROOF
    <1>0. PresenceTypes /\ cmd[s] \in Commands /\ CommandFields(cmd[s])
      BY CommandForms DEF PresenceInv, PresenceTypes
    <1>1. PICK e \in PresenceEvents : e = cmd[s].ev
      BY <1>0 DEF P!BroadcastEvent, CommandFields
    <1>2. UNCHANGED <<records, conn, subscribed, leaving>> /\ cmd' = [cmd EXCEPT ![s] = P!Idle]
          /\ P!HandleEvent(e) /\ cmd[s].op = "broadcast"
      BY <1>1 DEF P!BroadcastEvent, P!store
    <1>3. cmd'[s] = P!Idle /\ \A r \in Sessions : r # s => cmd'[r] = cmd[r]
      BY <1>0, <1>2, CmdMoves, NewCommands
    <1>i. P!Idle.op = "idle"
      BY DEF P!Idle
    <1>4. e \in P!Pending
      BY <1>1, <1>2, PendingIs
    <1>5. ASSUME NEW x, x \in P!Pending' PROVE x \in P!Pending
      BY <1>2, <1>3, <1>5, <1>i, PendingIs
    <1>6. ASSUME NEW x, x \in P!Pending, x # e PROVE x \in P!Pending'
      BY <1>1, <1>2, <1>3, <1>6, PendingIs
    <1> QED
      BY <1>2, <1>3, <1>4, <1>5, <1>6, BroadcastTells

(* The expiration loop broadcasts an event.                                *)
LEMMA LoopBroadcasts ==
    ASSUME PresenceInv, ViewsInv, P!BroadcastLeave
    PROVE  ViewsInv'
PROOF
    <1>0. leaving \in Seq(PresenceEvents) /\ leaving # <<>>
      BY DEF PresenceInv, PresenceTypes, P!BroadcastLeave
    <1>1. PICK e \in PresenceEvents : e = Head(leaving)
      BY <1>0
    <1>2. UNCHANGED <<records, conn, subscribed, cmd>> /\ P!HandleEvent(e) /\ leaving' = Tail(leaving)
      BY <1>1 DEF P!BroadcastLeave, P!store
    <1>3. /\ Len(leaving) \in Nat /\ Len(leaving) > 0 /\ DOMAIN leaving = 1 .. Len(leaving) /\ e = leaving[1]
          /\ DOMAIN leaving' = 1 .. (Len(leaving) - 1)
          /\ \A i \in 1 .. (Len(leaving) - 1) : leaving'[i] = leaving[i + 1]
      BY <1>0, <1>1, <1>2
    <1>4. e \in P!Pending
      BY <1>3, PendingIs
    <1>5. ASSUME NEW i \in DOMAIN leaving' PROVE \E j \in DOMAIN leaving : leaving[j] = leaving'[i]
      <2>1. i + 1 \in DOMAIN leaving /\ leaving[i + 1] = leaving'[i]
        BY <1>3
      <2> QED
        BY <2>1
    <1>6. ASSUME NEW j \in DOMAIN leaving, leaving[j] # e
          PROVE  \E i \in DOMAIN leaving' : leaving'[i] = leaving[j]
      <2>1. j - 1 \in DOMAIN leaving' /\ leaving'[j - 1] = leaving[j]
        BY <1>3, <1>6
      <2> QED
        BY <2>1
    <1>7. \A x : x \in P!Pending' => x \in P!Pending
      BY <1>2, <1>5, PendingIs
    <1>8. \A x : x \in P!Pending /\ x # e => x \in P!Pending'
      BY <1>2, <1>6, PendingIs
    <1> QED
      BY <1>2, <1>4, <1>7, <1>8, BroadcastTells

(* Every step keeps the views.                                             *)
LEMMA ViewsStep ==
    ASSUME PresenceInv, ViewsInv, [P!Next]_presence
    PROVE  ViewsInv'
PROOF
    <1>1. CASE P!Advance \/ UNCHANGED presence
      <2>1. UNCHANGED <<records, conn, subscribed, cmd, leaving, view, raced>>
        BY <1>1 DEF P!Advance, presence
      <2>2. \A e : e \in P!Pending' <=> e \in P!Pending
        BY <2>1, PendingIs
      <2>3. ASSUME NEW st \in Streams, NEW p \in Pids PROVE <<st, p>> \in raced' \/ Told(st, p)'
        <3>1. Here(st, p)' <=> Here(st, p)
          BY <2>1 DEF Here
        <3>2. \A s \in Sessions : KnownBy(s, st, p) => KnownBy(s, st, p)'
          BY <2>1, <3>1 DEF KnownBy, Asking
        <3>3. <<st, p>> \in raced \/ Told(st, p)
          BY DEF ViewsInv
        <3> QED
          BY <2>1, <2>2, <3>1, <3>2, <3>3, ToldKept
      <2> QED
        BY <2>3 DEF ViewsInv
    <1> QED
      BY <1>1, ReaderTells, JoinTells, LeaveTells, ExpireTells, ReaderBroadcasts, LoopBroadcasts
      DEF P!Next

(* No one is present, and no one subscribed.                               *)
LEMMA ViewsStart == P!Init => ViewsInv
PROOF
    <1> SUFFICES ASSUME P!Init, NEW st \in Streams, NEW p \in Pids PROVE Told(st, p)
      BY DEF ViewsInv
    <1>1. \A s \in Sessions : cmd[s].op = "idle" /\ conn[s] = "new"
      BY DEF P!Init, P!Idle
    <1>2. leaving = <<>>
      BY DEF P!Init
    <1>3. \A e : e \notin P!Pending
      BY <1>1, <1>2, PendingIs
    <1>4. \A s \in Sessions : KnownBy(s, st, p)
      BY <1>1 DEF KnownBy
    <1> QED
      BY <1>3, <1>4 DEF Told

(* For every TTL, every set of sessions, streams and ids and every         *)
(* interleaving of commands, timers, expirations and disconnects: a        *)
(* connected session whose timer touches its presence is never expired     *)
(* from the streams it joined.                                             *)
THEOREM KeepersStay == MCSpec => []StaysPresent
PROOF
    <1>1. MCInit => PresenceInv
      BY PresenceStarts DEF MCInit
    <1>2. PresenceInv /\ [MCNext]_all => PresenceInv'
      BY OnePartMoves, PresenceStep
    <1>3. PresenceInv => StaysPresent
      <2> SUFFICES ASSUME PresenceInv, NEW s \in Keepers, NEW st \in Streams,
                          conn[s] = "on", joined[s][st] # NoPid
                   PROVE  s \in records[st][joined[s][st]]
        BY DEF StaysPresent, P!StaysPresent
      <2>1. s \in Sessions
        BY MCPresenceAssumption DEF P!PresenceAssumption
      <2>2. joined[s][st] = pids[s][st] /\ joined[s][st] \in Pids
        BY <2>1 DEF PresenceInv, Keeping, PresenceTypes
      <2> QED
        BY <2>1, <2>2 DEF PresenceInv, Recorded
    <1> QED
      BY <1>1, <1>2, <1>3, PTL DEF MCSpec, all

(* For the same behaviours: once no event and no answer is under way, a    *)
(* connected subscriber takes exactly the present ids for present, but for *)
(* those whose events or answer overtook one another.                      *)
THEOREM SubscribersKnow == MCSpec => []ViewsAgree
PROOF
    <1>1. MCInit => PresenceInv /\ ViewsInv
      BY PresenceStarts, ViewsStart DEF MCInit
    <1>2. PresenceInv /\ ViewsInv /\ [MCNext]_all => (PresenceInv /\ ViewsInv)'
      BY OnePartMoves, PresenceStep, ViewsStep
    <1>3. PresenceInv /\ ViewsInv => ViewsAgree
      <2> SUFFICES ASSUME ViewsInv, P!Quiet, NEW s \in Sessions, NEW st \in Streams, NEW p \in Pids,
                          conn[s] = "on", st \in subscribed[s], <<st, p>> \notin raced
                   PROVE  p \in view[s][st] <=> p \in P!Present(st)
        BY DEF ViewsAgree, P!ViewsAgree
      <2>1. \A e : e \notin P!Pending
        BY PendingIs DEF P!Quiet
      <2>2. ~Asking(s, st)
        BY DEF P!Quiet, Asking
      <2>3. KnownBy(s, st, p)
        BY <2>1 DEF ViewsInv, Told
      <2> QED
        BY <2>2, <2>3 DEF KnownBy, P!Present, Here
    <1> QED
      BY <1>1, <1>2, <1>3, PTL DEF MCSpec, all

-----------------------------------------------------------------------------
(* The timers of a session.                                                *)

(* The first of the earliest of some moments.                              *)
Before(v, i, j) == v[i] < v[j] \/ (v[i] = v[j] /\ i <= j)

(* There is one.                                                           *)
LEMMA FirstOf ==
    ASSUME NEW v \in [1 .. 5 -> Nat], NEW S \in SUBSET (1 .. 5), S # {}
    PROVE  \E i \in S : \A j \in S : Before(v, i, j)
PROOF
    <1> DEFINE Up(n) == (\E k \in S : k <= n)
                        => \E i \in S : i <= n /\ \A j \in S : j <= n => Before(v, i, j)
    <1>1. Up(1)
      BY DEF Before
    <1>2. ASSUME NEW n \in 1 .. 4, Up(n) PROVE Up(n + 1)
      <2>1. CASE n + 1 \notin S
        BY <1>2, <2>1
      <2>2. CASE n + 1 \in S /\ ~\E k \in S : k <= n
        BY <2>2 DEF Before
      <2>3. CASE n + 1 \in S /\ \E k \in S : k <= n
        <3>1. PICK i \in S : i <= n /\ \A j \in S : j <= n => Before(v, i, j)
          BY <1>2, <2>3
        <3>2. CASE v[i] <= v[n + 1]
          BY <3>1, <3>2 DEF Before
        <3>3. CASE v[n + 1] < v[i]
          BY <2>3, <3>1, <3>3 DEF Before
        <3> QED
          BY <3>2, <3>3
      <2> QED
        BY <2>1, <2>2, <2>3
    <1>3. Up(2) /\ Up(3) /\ Up(4) /\ Up(5)
      <2>1. Up(2)
        BY <1>1, <1>2
      <2>2. Up(3)
        BY <1>2, <2>1
      <2>3. Up(4)
        BY <1>2, <2>2
      <2> QED
        BY <1>2, <2>1, <2>2, <2>3
    <1>4. PICK k \in S : TRUE
      OBVIOUS
    <1>5. \A j \in S : j \in 1 .. 5 /\ j <= 5
      OBVIOUS
    <1> QED
      BY ONLY <1>3, <1>4, <1>5

(* The events in their order.                                              *)
LEMMA EventsAre ==
    /\ DOMAIN Order = 1 .. 5
    /\ Order[1] = "ping" /\ Order[2] = "handshake" /\ Order[3] = "pong" /\ Order[4] = "resume"
    /\ Order[5] = "presence"
    /\ Events = {"ping", "handshake", "pong", "resume", "presence"}
    /\ \A i \in 1 .. 5 : Order[i] \in Events
    /\ \A e \in Events : \E i \in 1 .. 5 : Order[i] = e
PROOF
    BY DEF Order, Events

(* What schedule makes of deadlines.                                       *)
Started(d, event, time) ==
    /\ event \in Events /\ time = d[event] /\ time > 0
    /\ \A e \in Events : d[e] > 0 => time <= d[e]
    /\ event # "ping" /\ d["ping"] > 0 => time < d["ping"]

(* The first of the earliest deadlines.                                    *)
LEMMA EarliestIs ==
    ASSUME NEW d \in [Events -> Nat], Due(d) # {}
    PROVE  Started(d, Order[Earliest(d)], d[Order[Earliest(d)]])
PROOF
    <1> DEFINE v == [i \in 1 .. 5 |-> d[Order[i]]]
    <1>1. v \in [1 .. 5 -> Nat] /\ Due(d) \in SUBSET (1 .. 5)
      BY EventsAre DEF Due
    <1>2. \A i, j \in Due(d) : Before(v, i, j)
                <=> d[Order[i]] < d[Order[j]] \/ (d[Order[i]] = d[Order[j]] /\ i <= j)
      BY <1>1 DEF Before
    <1>3. \E i \in Due(d) : \A j \in Due(d) : Before(v, i, j)
      <2> HIDE DEF v
      <2> QED
        BY <1>1, FirstOf
    <1>4. Earliest(d) \in Due(d)
          /\ \A j \in Due(d) : \/ d[Order[Earliest(d)]] < d[Order[j]]
                               \/ d[Order[Earliest(d)]] = d[Order[j]] /\ Earliest(d) <= j
      BY <1>2, <1>3 DEF Earliest
    <1>5. PICK i \in 1 .. 5 : i = Earliest(d)
      BY <1>1, <1>4
    <1>6. Order[i] \in Events /\ d[Order[i]] \in Nat /\ d[Order[i]] > 0
      BY <1>4, <1>5, EventsAre DEF Due
    <1>7. ASSUME NEW e \in Events, d[e] > 0 PROVE d[Order[i]] <= d[e]
      <2>1. PICK j \in 1 .. 5 : Order[j] = e
        BY EventsAre
      <2>2. j \in Due(d) /\ d[e] \in Nat
        BY <1>7, <2>1, EventsAre DEF Due
      <2> QED
        BY <1>4, <1>5, <1>6, <2>1, <2>2
    <1>8. ASSUME Order[i] # "ping", d["ping"] > 0 PROVE d[Order[i]] < d["ping"]
      <2>1. 1 \in Due(d) /\ i # 1 /\ d["ping"] \in Nat
        BY <1>8, EventsAre DEF Due
      <2> QED
        BY <1>4, <1>5, <1>6, <2>1, EventsAre
    <1> QED
      BY <1>5, <1>6, <1>7, <1>8 DEF Started

(* What schedule does.                                                     *)
LEMMA Scheduled ==
    ASSUME NEW d \in [Events -> Nat], schedule(d)
    PROVE  /\ deadline' = d
           /\ \/ timer' = 0 /\ nextEvent' = nextEvent /\ \A e \in Events : d[e] = 0
              \/ Started(d, nextEvent', timer')
PROOF
    <1>1. CASE Due(d) = {}
      <2>1. ASSUME NEW e \in Events PROVE d[e] = 0
        <3>1. PICK i \in 1 .. 5 : Order[i] = e
          BY EventsAre
        <3> QED
          BY <1>1, <3>1, EventsAre DEF Due
      <2> QED
        BY <1>1, <2>1 DEF schedule
    <1>2. CASE Due(d) # {}
      BY <1>2, EarliestIs DEF schedule
    <1> QED
      BY <1>1, <1>2

TickAt == {"idle", "fired", "handle", "stop", "schedule", "idleCheck", "set", "schedulePing"} \cup Events
TickStates == [at : TickAt, ev : Events \cup {"none"}]
Messages == {"pong", "native pong", "command"}

TimerTypes ==
    /\ now \in Nat /\ timer \in Nat
    /\ deadline \in [Events -> Nat] /\ nextEvent \in Events \cup {"none"}
    /\ tick \in [Ticks -> TickStates]
    /\ touched \in [Kept -> Nat]

SessionTypes ==
    /\ reader \in {"auth", "read", "busy", "stop", "ended"}
    /\ reader = "stop" => closed
    /\ connected \in BOOLEAN /\ closed \in BOOLEAN /\ alive \in BOOLEAN /\ skipped \in BOOLEAN
    /\ pings \in Nat /\ inbox \in Seq(Messages)

(* The options of a session.                                               *)
OptionTypes ==
    /\ opts.ping \in Nat /\ opts.pong \in Nat
    /\ opts["resume"] \in Nat /\ opts["resume"] <= SessionsTTL
    /\ opts["presence"] \in Nat /\ opts["presence"] <= PresenceTTL
    /\ opts.handshake \in Nat

(* Where a tick is, and what it is about.                                  *)
TickPlaces ==
    /\ \A g \in Ticks :
          /\ tick[g].at \in Events => tick[g].ev = tick[g].at
          /\ tick[g].at = "handle" => tick[g].ev \in Events
          /\ tick[g].at = "set" => tick[g].ev \in Kept /\ touched[tick[g].ev] = now
          /\ tick[g].at = "stop" => closed
    /\ nextEvent = "none" => timer = 0 /\ \A g \in Ticks : tick[g].at = "idle"

(* The timer of an open session runs, or a goroutine will start it.        *)
Running ==
    ~closed /\ ~skipped =>
        \/ timer > 0 /\ \A e \in Events : deadline[e] > 0 => timer <= deadline[e]
        \/ \E g \in Ticks : tick[g].at # "idle"
        \/ \A e \in Events : deadline[e] = 0

(* What is kept alive was touched within an interval, and will be.         *)
Touched ==
    \A e \in Kept :
        /\ touched[e] <= now
        /\ opts[e] > 0 /\ ~closed /\ ~skipped =>
              deadline[e] > 0 /\ deadline[e] <= touched[e] + opts[e] /\ now <= touched[e] + opts[e]

TimersInv == TimerTypes /\ SessionTypes /\ OptionTypes /\ TickPlaces /\ Running /\ Touched

(* The events that keep something alive.                                   *)
LEMMA KeptAre == Kept = {"resume", "presence"} /\ Kept \subseteq Events
PROOF
    BY EventsAre DEF Kept

(* A tick moves.                                                           *)
LEMMA TickGoes ==
    ASSUME TimerTypes, NEW g \in Ticks, NEW x \in TickAt, Goto(g, x)
    PROVE  /\ tick' \in [Ticks -> TickStates]
           /\ tick'[g].at = x /\ tick'[g].ev = tick[g].ev
           /\ \A h \in Ticks : h # g => tick'[h] = tick[h]
PROOF
    BY DEF TimerTypes, Goto, TickStates

(* A tick ends.                                                            *)
LEMMA TickReturns ==
    ASSUME TimerTypes, NEW g \in Ticks, Return(g)
    PROVE  /\ tick' \in [Ticks -> TickStates]
           /\ tick'[g].at = "idle" /\ tick'[g].ev = "none"
           /\ \A h \in Ticks : h # g => tick'[h] = tick[h]
PROOF
    BY DEF TimerTypes, Return, TickStates, TickAt

(* The options a session is built with.                                    *)
LEMMA OptionsAre == Init => OptionTypes
PROOF
    <1> SUFFICES ASSUME NEW c \in Configs, opts = Options(c) PROVE OptionTypes
      BY DEF Init
    <1>1. PingInterval \in Nat /\ SessionsTTL \in Nat /\ PresenceTTL \in Nat /\ c[3] \in Nat /\ c[4] \in Nat
      BY TimersAssumption
    <1>2. /\ SessionsTTL \div 2 \in Nat /\ SessionsTTL \div 2 <= SessionsTTL
          /\ PresenceTTL \div 2 \in Nat /\ PresenceTTL \div 2 <= PresenceTTL
      BY <1>1
    <1> QED
      BY <1>1, <1>2 DEF OptionTypes, Options, NewOptions, pusherOptions, sessionOptionsFromProtocol,
         WithKeepaliveIntervals, WithPingInterval, WithPongTimeout, WithHandshakeMessageDeadline

(* The deadlines that a handler sets.                                      *)
LEMMA NewDeadlines ==
    ASSUME TimerTypes, OptionTypes
    PROVE  /\ [deadline EXCEPT !.handshake = 0] \in [Events -> Nat]
           /\ [deadline EXCEPT !.pong = 0] \in [Events -> Nat]
           /\ [deadline EXCEPT !.pong = @ + opts.pong] \in [Events -> Nat]
           /\ \A e \in Kept : [deadline EXCEPT ![e] = In(opts[e])] \in [Events -> Nat]
           /\ [deadline EXCEPT !.ping = In(opts.ping),
                               !.pong = IF opts.pong > 0 /\ @ = 0 THEN In(opts.pong) ELSE @]
                 \in [Events -> Nat]
PROOF
    <1>1. deadline \in [Events -> Nat] /\ now \in Nat /\ opts.pong \in Nat /\ opts.ping \in Nat
      BY DEF TimerTypes, OptionTypes
    <1>2. {"ping", "pong", "handshake", "resume", "presence"} \subseteq Events /\ Kept \subseteq Events
      BY EventsAre, KeptAre
    <1>3. \A n \in Nat : In(n) \in Nat
      BY <1>1 DEF In
    <1>4. \A e \in Kept : opts[e] \in Nat
      BY KeptAre DEF OptionTypes
    <1>5. deadline.pong \in Nat /\ deadline.pong + opts.pong \in Nat
      BY <1>1, <1>2
    <1>6. (IF opts.pong > 0 /\ deadline.pong = 0 THEN In(opts.pong) ELSE deadline.pong) \in Nat
      BY <1>1, <1>3, <1>5
    <1>7. [deadline EXCEPT !.ping = In(opts.ping),
                           !.pong = IF opts.pong > 0 /\ @ = 0 THEN In(opts.pong) ELSE @]
            \in [Events -> Nat]
      <2>1. PICK x \in Nat : x = In(opts.ping)
        BY <1>1, <1>3
      <2>2. [deadline EXCEPT !.ping = x] \in [Events -> Nat]
            /\ [deadline EXCEPT !.ping = x].pong = deadline.pong
        BY <1>1, <1>2
      <2> QED
        BY <1>1, <1>2, <1>6, <2>1, <2>2
    <1>8. \A e \in Kept : [deadline EXCEPT ![e] = In(opts[e])] \in [Events -> Nat]
      BY <1>1, <1>2, <1>3, <1>4
    <1>9. /\ [deadline EXCEPT !.handshake = 0] \in [Events -> Nat]
          /\ [deadline EXCEPT !.pong = 0] \in [Events -> Nat]
      BY <1>1, <1>2
    <1>10. [deadline EXCEPT !.pong = @ + opts.pong] \in [Events -> Nat]
      BY <1>1, <1>2, <1>5
    <1> QED
      BY <1>7, <1>8, <1>9, <1>10

(* Ticks, and the session, where they stay or end.                         *)
Ends == \A g \in Ticks : tick'[g] = tick[g] \/ tick'[g].at = "idle"

(* schedule, with the deadlines of what is kept as they are.               *)
LEMMA ScheduleKeeps ==
    ASSUME TimersInv, NEW d \in [Events -> Nat], schedule(d), \A e \in Kept : d[e] = deadline[e],
           UNCHANGED <<now, opts, touched, closed, skipped>>, SessionTypes',
           tick' \in [Ticks -> TickStates], Ends
    PROVE  TimersInv'
PROOF
    <1>1. /\ deadline' = d
          /\ \/ timer' = 0 /\ nextEvent' = nextEvent /\ \A e \in Events : d[e] = 0
             \/ Started(d, nextEvent', timer')
      BY Scheduled
    <1>2. TimerTypes'
      BY <1>1 DEF TimersInv, TimerTypes, Started
    <1>3. "none" \notin Events /\ "idle" \notin Events
      BY EventsAre
    <1>4. TickPlaces'
      <2>1. ASSUME NEW g \in Ticks
            PROVE  /\ tick'[g].at \in Events => tick'[g].ev = tick'[g].at
                   /\ tick'[g].at = "handle" => tick'[g].ev \in Events
                   /\ tick'[g].at = "set" => tick'[g].ev \in Kept /\ touched'[tick'[g].ev] = now'
                   /\ tick'[g].at = "stop" => closed'
        BY <1>3 DEF TimersInv, TickPlaces, Ends
      <2>2. nextEvent' = "none" => timer' = 0 /\ \A g \in Ticks : tick'[g].at = "idle"
        BY <1>1, <1>3 DEF TimersInv, TickPlaces, Started, Ends
      <2> QED
        BY <2>1, <2>2 DEF TickPlaces
    <1>5. Running'
      BY <1>1 DEF Running, Started
    <1>6. Touched'
      BY <1>1 DEF TimersInv, Touched
    <1> QED
      BY <1>2, <1>4, <1>5, <1>6 DEF TimersInv, OptionTypes

(* The steps that leave the timers, and what is kept, alone.               *)
LEMMA TimersKept ==
    ASSUME TimersInv, UNCHANGED <<now, opts, timers, tick, touched, skipped>>, SessionTypes',
           closed => closed'
    PROVE  TimersInv'
PROOF
    <1>1. TimerTypes' /\ OptionTypes'
      BY DEF TimersInv, TimerTypes, OptionTypes, timers
    <1>2. TickPlaces'
      BY DEF TimersInv, TickPlaces, timers
    <1>3. Running'
      BY DEF TimersInv, Running, timers, SessionTypes
    <1>4. Touched'
      BY DEF TimersInv, Touched, timers, SessionTypes
    <1> QED
      BY <1>1, <1>2, <1>3, <1>4 DEF TimersInv

(* A client answers by messages.                                           *)
LEMMA AnswersAre == Answers \in Seq(Messages)
PROOF
    <1> DEFINE one == IF opts.kind = "ext" THEN <<"pong">> ELSE <<>>
               two == IF opts.native THEN <<"native pong">> ELSE <<>>
    <1>1. <<"pong">> \in Seq(Messages) /\ <<"native pong">> \in Seq(Messages) /\ <<>> \in Seq(Messages)
      BY DEF Messages
    <1>2. one \in Seq(Messages) /\ two \in Seq(Messages)
      BY <1>1
    <1>3. Answers = one \o two
      BY DEF Answers
    <1> HIDE DEF one, two
    <1> QED
      BY <1>2, <1>3

(* The reader and the client.                                              *)
LEMMA ReaderStep ==
    ASSUME TimersInv,
           \/ Authenticate \/ Read \/ Handled \/ ReadFails \/ ReaderStopsTimers
           \/ Answer \/ SendCommand \/ Die
    PROVE  TimersInv'
PROOF
    <1>0. TimerTypes /\ SessionTypes /\ OptionTypes
      BY DEF TimersInv
    <1>k. "pong" \notin Kept /\ "pong" \in Events
      BY KeptAre, EventsAre
    <1>1. CASE Authenticate \/ ReadFails \/ Die
      <2>1. UNCHANGED <<now, opts, timers, tick, touched, skipped>> /\ (closed => closed')
        BY <1>1 DEF Authenticate, ReadFails, Die, history, session
      <2>2. ASSUME Authenticate PROVE SessionTypes'
        BY <1>0, <2>2 DEF Authenticate, history, client, SessionTypes
      <2>3. ASSUME ReadFails PROVE SessionTypes'
        BY <1>0, <2>3 DEF ReadFails, history, client, SessionTypes
      <2>4. ASSUME Die PROVE SessionTypes'
        BY <1>0, <2>4 DEF Die, history, session, SessionTypes
      <2> QED
        BY <1>1, <2>1, <2>2, <2>3, <2>4, TimersKept
    <1>2. CASE Answer \/ SendCommand
      <2>1. UNCHANGED <<now, opts, timers, tick, touched, skipped, session>>
        BY <1>2 DEF Answer, SendCommand, history
      <2>2. inbox' \in Seq(Messages) /\ pings' \in Nat
        <3>1. Answers \in Seq(Messages)
          BY AnswersAre
        <3>2. CASE Answer
          <4>1. PICK more \in Seq(Messages) : more = Answers
            BY <3>1
          <4>2. inbox' = inbox \o more /\ pings' = pings - 1 /\ pings > 0
            BY <3>2, <4>1 DEF Answer
          <4>3. inbox \in Seq(Messages) /\ pings \in Nat
            BY <1>0 DEF SessionTypes
          <4> QED
            BY <4>2, <4>3
        <3>3. CASE SendCommand
          <4>1. inbox' = Append(inbox, "command") /\ pings' = pings
            BY <3>3 DEF SendCommand
          <4>2. inbox \in Seq(Messages) /\ pings \in Nat /\ "command" \in Messages
            BY <1>0 DEF SessionTypes, Messages
          <4> QED
            BY <4>1, <4>2
        <3> QED
          BY <1>2, <3>2, <3>3
      <2>3. SessionTypes'
        BY <1>0, <1>2, <2>1, <2>2 DEF Answer, SendCommand, session, history, SessionTypes
      <2> QED
        BY <2>1, <2>3, TimersKept DEF session
    <1>3. CASE Handled \/ Read
      <2>1. UNCHANGED <<now, opts, touched, closed, skipped, tick>>
        BY <1>3 DEF Handled, Read, history
      <2>2. SessionTypes'
        <3>1. inbox' \in Seq(Messages)
          <4>1. inbox \in Seq(Messages)
            BY <1>0 DEF SessionTypes
          <4>2. inbox' = inbox \/ (inbox # <<>> /\ inbox' = Tail(inbox))
            BY <1>3 DEF Handled, Read
          <4> QED
            BY <4>1, <4>2
        <3> QED
          BY <1>0, <1>3, <3>1 DEF Handled, Read, history, SessionTypes
      <2>3. CASE UNCHANGED timers
        BY <2>1, <2>2, <2>3, TimersKept
      <2>4. ASSUME NEW x, schedule([deadline EXCEPT !.pong = x]),
                   [deadline EXCEPT !.pong = x] \in [Events -> Nat]
            PROVE  TimersInv'
        <3>1. PICK d \in [Events -> Nat] : d = [deadline EXCEPT !.pong = x]
          BY <2>4
        <3>2. \A e \in Kept : d[e] = deadline[e]
          BY <1>0, <1>k, <3>1, KeptAre DEF TimerTypes
        <3>3. tick' \in [Ticks -> TickStates] /\ Ends
          BY <1>0, <2>1 DEF TimerTypes, Ends
        <3> QED
          BY <2>1, <2>2, <2>4, <3>1, <3>2, <3>3, ScheduleKeeps
      <2>5. resetPong \/ keepalive
        BY <1>3 DEF Handled, Read
      <2> QED
        BY <1>0, <2>3, <2>4, <2>5, NewDeadlines DEF resetPong, keepalive
    <1>4. CASE ReaderStopsTimers
      <2>1. UNCHANGED <<now, opts, deadline, nextEvent, tick, connected, closed, alive,
                        pings, inbox, touched, skipped>>
            /\ timer' = 0 /\ reader' = "ended" /\ closed
        BY <1>0, <1>4 DEF ReaderStopsTimers, client, history, SessionTypes
      <2>2. SessionTypes'
        BY <1>0, <2>1 DEF SessionTypes
      <2>3. TimerTypes' /\ OptionTypes'
        BY <1>0, <2>1 DEF TimerTypes, OptionTypes
      <2>4. TickPlaces'
        BY <2>1 DEF TimersInv, TickPlaces
      <2>5. Running' /\ Touched'
        BY <2>1 DEF TimersInv, Running, Touched
      <2> QED
        BY <2>2, <2>3, <2>4, <2>5 DEF TimersInv
    <1> QED
      BY <1>1, <1>2, <1>3, <1>4

(* Steps of a tick that start no timer and end nothing: it is still there, *)
(* unless the session is closed or a pong was skipped.                     *)
LEMMA TickKeeps ==
    ASSUME TimersInv, NEW g \in Ticks, tick' \in [Ticks -> TickStates], tick[g].at # "idle",
           \A h \in Ticks : h # g => tick'[h] = tick[h],
           UNCHANGED <<now, opts, timers, touched>>, SessionTypes', closed => closed', skipped => skipped',
           tick'[g].at = "idle" => closed' \/ skipped',
           tick'[g].at \in Events => tick'[g].ev = tick'[g].at,
           tick'[g].at = "handle" => tick'[g].ev \in Events,
           tick'[g].at # "set", tick'[g].at = "stop" => closed'
    PROVE  TimersInv'
PROOF
    <1>1. TimerTypes' /\ OptionTypes'
      BY DEF TimersInv, TimerTypes, OptionTypes, timers
    <1>2. TickPlaces'
      <2>1. ASSUME NEW h \in Ticks
            PROVE  /\ tick'[h].at \in Events => tick'[h].ev = tick'[h].at
                   /\ tick'[h].at = "handle" => tick'[h].ev \in Events
                   /\ tick'[h].at = "set" => tick'[h].ev \in Kept /\ touched'[tick'[h].ev] = now'
                   /\ tick'[h].at = "stop" => closed'
        BY DEF TimersInv, TickPlaces
      <2>2. nextEvent # "none"
        BY DEF TimersInv, TickPlaces
      <2> QED
        BY <2>1, <2>2 DEF TickPlaces, timers
    <1>3. Running'
      BY DEF TimersInv, Running, timers, SessionTypes
    <1>4. Touched'
      BY DEF TimersInv, Touched, timers, SessionTypes
    <1> QED
      BY <1>1, <1>2, <1>3, <1>4 DEF TimersInv

(* A handler closes the session.                                           *)
LEMMA DisconnectKeeps ==
    ASSUME TimersInv, NEW g \in Ticks, NEW why, DisconnectBy(g, why), tick[g].at # "idle",
           UNCHANGED <<now, opts, timers, touched, skipped, reader, alive, pings, inbox>>
    PROVE  TimersInv'
PROOF
    <1>0. TimerTypes /\ SessionTypes
      BY DEF TimersInv
    <1>1. closed' = TRUE /\ connected' = FALSE
      BY DEF DisconnectBy
    <1>2. SessionTypes'
      BY <1>0, <1>1 DEF SessionTypes
    <1>3. /\ tick' \in [Ticks -> TickStates] /\ tick'[g].at \in {"idle", "stop"}
          /\ \A h \in Ticks : h # g => tick'[h] = tick[h]
      <2>1. CASE Return(g)
        BY <1>0, <2>1, TickReturns
      <2>2. CASE Goto(g, "stop")
        <3>1. "stop" \in TickAt
          BY DEF TickAt
        <3> QED
          BY <1>0, <2>2, <3>1, TickGoes
      <2> QED
        BY <2>1, <2>2 DEF DisconnectBy
    <1>4. "idle" \notin Events /\ "stop" \notin Events
      BY EventsAre
    <1> QED
      BY <1>1, <1>2, <1>3, <1>4, TickKeeps

(* The steps of a tick.                                                    *)
LEMMA TickStep ==
    ASSUME TimersInv, NEW g \in Ticks, Handlers(g)
    PROVE  TimersInv'
PROOF
    <1>0. TimerTypes /\ SessionTypes /\ OptionTypes /\ TickPlaces
      BY DEF TimersInv
    <1>p. {"idle", "fired", "handle", "stop", "schedule", "idleCheck", "set", "schedulePing"} \subseteq TickAt
          /\ Events \subseteq TickAt
      BY DEF TickAt
    <1>q. {"idle", "fired", "handle", "stop", "schedule", "idleCheck", "set", "schedulePing", "none"}
             \cap Events = {}
      BY EventsAre
    <1>1. CASE Fire(g)
      <2>1. UNCHANGED <<now, opts, deadline, nextEvent, session, client, touched, history>>
            /\ timer # 0 /\ timer' = 0 /\ Goto(g, "fired")
        BY <1>1 DEF Fire
      <2>2. /\ tick' \in [Ticks -> TickStates] /\ tick'[g].at = "fired"
            /\ \A h \in Ticks : h # g => tick'[h] = tick[h]
        BY <1>0, <1>p, <2>1, TickGoes
      <2>3. TimerTypes' /\ OptionTypes' /\ SessionTypes'
        BY <1>0, <2>1, <2>2 DEF TimerTypes, OptionTypes, SessionTypes, session, client, history
      <2>4. TickPlaces'
        <3>1. ASSUME NEW h \in Ticks
              PROVE  /\ tick'[h].at \in Events => tick'[h].ev = tick'[h].at
                     /\ tick'[h].at = "handle" => tick'[h].ev \in Events
                     /\ tick'[h].at = "set" => tick'[h].ev \in Kept /\ touched'[tick'[h].ev] = now'
                     /\ tick'[h].at = "stop" => closed'
          BY <1>0, <1>q, <2>1, <2>2 DEF TickPlaces, session
        <3>2. nextEvent' # "none"
          BY <1>0, <2>1 DEF TickPlaces
        <3> QED
          BY <3>1, <3>2 DEF TickPlaces
      <2>5. Running' /\ Touched'
        BY <2>1, <2>2 DEF TimersInv, Running, Touched, session, history
      <2> QED
        BY <2>3, <2>4, <2>5 DEF TimersInv
    <1>2. CASE Tick(g)
      <2>1. UNCHANGED <<now, opts, timers, session, client, touched, history>> /\ tick[g].at = "fired"
            /\ tick' = [tick EXCEPT ![g] = [at |-> "handle", ev |-> nextEvent]]
        BY <1>2 DEF Tick
      <2>2. nextEvent \in Events
        BY <1>0, <2>1 DEF TickPlaces, TimerTypes
      <2>3. [at |-> "handle", ev |-> nextEvent] \in TickStates
        BY <1>p, <2>2 DEF TickStates
      <2>4. /\ tick' \in [Ticks -> TickStates] /\ tick'[g].at = "handle" /\ tick'[g].ev = nextEvent
            /\ \A h \in Ticks : h # g => tick'[h] = tick[h]
        BY <1>0, <2>1, <2>3 DEF TimerTypes
      <2>5. SessionTypes' /\ UNCHANGED <<closed, skipped>>
        BY <1>0, <2>1 DEF SessionTypes, session, client, history
      <2> QED
        BY <1>q, <2>1, <2>2, <2>4, <2>5, TickKeeps
    <1>3. CASE handleTimerEvent(g)
      <2>1. UNCHANGED <<now, opts, timers, session, client, touched, history>> /\ tick[g].at = "handle"
            /\ IF closed THEN Return(g) ELSE Goto(g, tick[g].ev)
        BY <1>3 DEF handleTimerEvent
      <2>2. PICK x \in Events : x = tick[g].ev
        BY <1>0, <2>1 DEF TickPlaces
      <2>3. SessionTypes' /\ UNCHANGED <<closed, skipped>>
        BY <1>0, <2>1 DEF SessionTypes, session, client, history
      <2>4. CASE closed
        <3>1. /\ tick' \in [Ticks -> TickStates] /\ tick'[g].at = "idle"
              /\ \A h \in Ticks : h # g => tick'[h] = tick[h]
          BY <1>0, <2>1, <2>4, TickReturns
        <3> QED
          BY <1>q, <2>1, <2>3, <2>4, <3>1, TickKeeps
      <2>5. CASE ~closed
        <3>1. /\ tick' \in [Ticks -> TickStates] /\ tick'[g].at = x /\ tick'[g].ev = x
              /\ \A h \in Ticks : h # g => tick'[h] = tick[h]
          BY <1>0, <1>p, <2>1, <2>2, <2>5, TickGoes
        <3> QED
          BY <1>q, <2>1, <2>2, <2>3, <3>1, TickKeeps
      <2> QED
        BY <2>4, <2>5
    <1>4. CASE StopTimers(g)
      <2>1. UNCHANGED <<now, opts, deadline, nextEvent, session, client, touched, history>>
            /\ timer' = 0 /\ Return(g) /\ closed
        BY <1>0, <1>4 DEF StopTimers, TickPlaces
      <2>2. /\ tick' \in [Ticks -> TickStates] /\ tick'[g].at = "idle"
            /\ \A h \in Ticks : h # g => tick'[h] = tick[h]
        BY <1>0, <2>1, TickReturns
      <2>3. TimerTypes' /\ OptionTypes' /\ SessionTypes'
        BY <1>0, <2>1, <2>2 DEF TimerTypes, OptionTypes, SessionTypes, session, client, history
      <2>4. TickPlaces'
        BY <1>0, <1>q, <2>1, <2>2 DEF TickPlaces, session
      <2>5. Running' /\ Touched'
        BY <2>1 DEF TimersInv, Running, Touched, session, history
      <2> QED
        BY <2>3, <2>4, <2>5 DEF TimersInv
    <1>5. CASE Schedule(g) \/ schedulePing(g)
      <2>1. UNCHANGED <<now, opts, session, client, touched, history>> /\ Return(g)
        BY <1>5 DEF Schedule, schedulePing
      <2>2. PICK d \in [Events -> Nat] :
               schedule(d) /\ \A e \in Events \ {"ping", "pong"} : d[e] = deadline[e]
        <3>1. CASE Schedule(g)
          BY <1>0, <3>1 DEF Schedule, TimerTypes
        <3>2. CASE schedulePing(g)
          <4>1. PICK d \in [Events -> Nat] :
                   d = [deadline EXCEPT !.ping = In(opts.ping),
                                        !.pong = IF opts.pong > 0 /\ @ = 0 THEN In(opts.pong) ELSE @]
            BY <1>0, NewDeadlines
          <4>2. \A e \in Events \ {"ping", "pong"} : d[e] = deadline[e]
            BY <1>0, <4>1 DEF TimerTypes
          <4>3. schedule(d)
            BY <3>2, <4>1 DEF schedulePing
          <4> QED
            BY <4>2, <4>3
        <3> QED
          BY <1>5, <3>1, <3>2
      <2>3. \A e \in Kept : d[e] = deadline[e]
        BY <2>2, KeptAre
      <2>4. tick' \in [Ticks -> TickStates] /\ Ends
        BY <1>0, <2>1, TickReturns DEF Ends
      <2>5. SessionTypes' /\ UNCHANGED <<closed, skipped>>
        BY <1>0, <2>1 DEF SessionTypes, session, client, history
      <2> QED
        BY <2>1, <2>2, <2>3, <2>4, <2>5, ScheduleKeeps
    <1>6. CASE tick[g].at = "handshake" /\ maybeDisconnectIdle(g)
      <2>1. UNCHANGED <<now, opts, nextEvent, timer, session, client, touched, history>>
            /\ deadline' = [deadline EXCEPT !.handshake = 0] /\ Goto(g, "idleCheck")
        BY <1>6 DEF maybeDisconnectIdle
      <2>2. /\ tick' \in [Ticks -> TickStates] /\ tick'[g].at = "idleCheck"
            /\ \A h \in Ticks : h # g => tick'[h] = tick[h]
        BY <1>0, <1>p, <2>1, TickGoes
      <2>3. deadline' \in [Events -> Nat] /\ \A e \in Kept : deadline'[e] = deadline[e]
        BY <1>0, <2>1, NewDeadlines, KeptAre DEF TimerTypes
      <2>4. TimerTypes' /\ OptionTypes' /\ SessionTypes'
        BY <1>0, <2>1, <2>2, <2>3 DEF TimerTypes, OptionTypes, SessionTypes, session, client, history
      <2>5. TickPlaces'
        BY <1>0, <1>6, <1>q, <2>1, <2>2 DEF TickPlaces, session
      <2>6. Running' /\ Touched'
        BY <2>1, <2>2, <2>3 DEF TimersInv, Running, Touched, session, history
      <2> QED
        BY <2>4, <2>5, <2>6 DEF TimersInv
    <1>7. CASE tick[g].at = "idleCheck" /\ maybeDisconnectIdle(g)
      <2>1. UNCHANGED <<now, opts, timers, client, touched, history, reader, doing>>
            /\ \/ Goto(g, "schedule") /\ UNCHANGED session
               \/ DisconnectBy(g, "idle")
        BY <1>7 DEF maybeDisconnectIdle, session
      <2>2. CASE Goto(g, "schedule") /\ UNCHANGED session
        <3>1. /\ tick' \in [Ticks -> TickStates] /\ tick'[g].at = "schedule"
              /\ \A h \in Ticks : h # g => tick'[h] = tick[h]
          BY <1>0, <1>p, <2>2, TickGoes
        <3>2. SessionTypes' /\ UNCHANGED <<closed, skipped>>
          BY <1>0, <2>1, <2>2 DEF SessionTypes, session, client, history
        <3> QED
          BY <1>7, <1>q, <2>1, <3>1, <3>2, TickKeeps
      <2>3. CASE DisconnectBy(g, "idle")
        BY <1>7, <2>1, <2>3, DisconnectKeeps DEF client, history
      <2> QED
        BY <2>1, <2>2, <2>3
    <1>8. CASE tick[g].at \in Kept /\ Keepalive(g)
      <2>1. UNCHANGED <<now, opts, timers, session, client, history>> /\ Goto(g, "set")
            /\ touched' = [touched EXCEPT ![tick[g].ev] = now]
        BY <1>8, KeptAre, EventsAre DEF Keepalive
      <2>2. PICK x \in Kept : x = tick[g].ev
        BY <1>0, <1>8, KeptAre DEF TickPlaces
      <2>3. /\ tick' \in [Ticks -> TickStates] /\ tick'[g].at = "set" /\ tick'[g].ev = x
            /\ \A h \in Ticks : h # g => tick'[h] = tick[h]
        BY <1>0, <1>p, <2>1, <2>2, TickGoes
      <2>4. touched' \in [Kept -> Nat] /\ \A e \in Kept : touched'[e] = IF e = x THEN now ELSE touched[e]
        BY <1>0, <2>1, <2>2 DEF TimerTypes
      <2>5. TimerTypes' /\ OptionTypes' /\ SessionTypes'
        BY <1>0, <2>1, <2>3, <2>4 DEF TimerTypes, OptionTypes, SessionTypes, timers, session, client, history
      <2>6. TickPlaces'
        <3>1. ASSUME NEW h \in Ticks
              PROVE  /\ tick'[h].at \in Events => tick'[h].ev = tick'[h].at
                     /\ tick'[h].at = "handle" => tick'[h].ev \in Events
                     /\ tick'[h].at = "set" => tick'[h].ev \in Kept /\ touched'[tick'[h].ev] = now'
                     /\ tick'[h].at = "stop" => closed'
          BY <1>0, <1>q, <2>1, <2>2, <2>3, <2>4 DEF TickPlaces, session
        <3>2. nextEvent' # "none"
          BY <1>0, <1>8, <1>q, <2>1, KeptAre DEF TickPlaces, timers
        <3> QED
          BY <3>1, <3>2 DEF TickPlaces
      <2>7. Running'
        BY <1>q, <2>1, <2>3 DEF Running
      <2>8. Touched'
        <3> SUFFICES ASSUME NEW e \in Kept
                     PROVE  /\ touched'[e] <= now
                            /\ opts[e] > 0 /\ ~closed /\ ~skipped =>
                                  /\ deadline[e] > 0 /\ deadline[e] <= touched'[e] + opts[e]
                                  /\ now <= touched'[e] + opts[e]
          BY <2>1 DEF Touched, timers, session, history
        <3>1. deadline[e] \in Nat /\ opts[e] \in Nat /\ now \in Nat /\ touched[e] \in Nat
          BY <1>0, KeptAre DEF TimerTypes, OptionTypes
        <3>2. touched[e] <= now /\ (opts[e] > 0 /\ ~closed /\ ~skipped =>
                /\ deadline[e] > 0 /\ deadline[e] <= touched[e] + opts[e] /\ now <= touched[e] + opts[e])
          BY DEF TimersInv, Touched
        <3> QED
          BY <2>4, <3>1, <3>2
      <2> QED
        BY <2>5, <2>6, <2>7, <2>8 DEF TimersInv
    <1>9. CASE tick[g].at = "set" /\ Keepalive(g)
      <2>1. UNCHANGED <<now, opts, nextEvent, timer, session, client, touched, history>>
            /\ Goto(g, "schedule")
            /\ deadline' = [deadline EXCEPT ![tick[g].ev] = In(opts[tick[g].ev])]
        BY <1>9, <1>q, KeptAre DEF Keepalive
      <2>2. PICK x \in Kept : x = tick[g].ev /\ touched[x] = now
        BY <1>0, <1>9 DEF TickPlaces
      <2>3. /\ tick' \in [Ticks -> TickStates] /\ tick'[g].at = "schedule"
            /\ \A h \in Ticks : h # g => tick'[h] = tick[h]
        BY <1>0, <1>p, <2>1, TickGoes
      <2>4. deadline' \in [Events -> Nat]
            /\ \A e \in Kept : deadline'[e] = IF e = x THEN In(opts[e]) ELSE deadline[e]
        BY <1>0, <2>1, <2>2, NewDeadlines, KeptAre DEF TimerTypes
      <2>5. TimerTypes' /\ OptionTypes' /\ SessionTypes'
        BY <1>0, <2>1, <2>3, <2>4 DEF TimerTypes, OptionTypes, SessionTypes, session, client, history
      <2>6. TickPlaces'
        BY <1>0, <1>9, <1>q, <2>1, <2>3 DEF TickPlaces, session
      <2>7. Running'
        BY <1>q, <2>1, <2>3 DEF Running
      <2>8. Touched'
        <3> SUFFICES ASSUME NEW e \in Kept
                     PROVE  /\ touched[e] <= now
                            /\ opts[e] > 0 /\ ~closed /\ ~skipped =>
                                  /\ deadline'[e] > 0 /\ deadline'[e] <= touched[e] + opts[e]
                                  /\ now <= touched[e] + opts[e]
          BY <2>1 DEF Touched, session, history
        <3>1. deadline[e] \in Nat /\ opts[e] \in Nat /\ now \in Nat /\ touched[e] \in Nat
          BY <1>0, KeptAre DEF TimerTypes, OptionTypes
        <3>2. touched[e] <= now /\ (opts[e] > 0 /\ ~closed /\ ~skipped =>
                /\ deadline[e] > 0 /\ deadline[e] <= touched[e] + opts[e] /\ now <= touched[e] + opts[e])
          BY DEF TimersInv, Touched
        <3> QED
          BY <2>2, <2>4, <3>1, <3>2 DEF In
      <2> QED
        BY <2>5, <2>6, <2>7, <2>8 DEF TimersInv
    <1>10. CASE sendPing(g)
      <2>1. UNCHANGED <<now, opts, timers, alive, inbox, touched, history, reader, doing>>
            /\ tick[g].at = "ping"
            /\ \/ closed /\ Return(g) /\ UNCHANGED <<session, pings>>
               \/ Goto(g, "schedulePing") /\ UNCHANGED session /\ pings' = IF alive THEN pings + 1 ELSE pings
               \/ DisconnectBy(g, "write") /\ UNCHANGED pings
        BY <1>10 DEF sendPing, session
      <2>2. CASE closed /\ Return(g) /\ UNCHANGED <<session, pings>>
        <3>1. /\ tick' \in [Ticks -> TickStates] /\ tick'[g].at = "idle"
              /\ \A h \in Ticks : h # g => tick'[h] = tick[h]
          BY <1>0, <2>2, TickReturns
        <3>2. SessionTypes' /\ UNCHANGED <<closed, skipped>>
          BY <1>0, <2>1, <2>2 DEF SessionTypes, session, history
        <3> QED
          BY <1>q, <2>1, <2>2, <3>1, <3>2, TickKeeps
      <2>3. CASE Goto(g, "schedulePing") /\ UNCHANGED session /\ pings' = IF alive THEN pings + 1 ELSE pings
        <3>1. /\ tick' \in [Ticks -> TickStates] /\ tick'[g].at = "schedulePing"
              /\ \A h \in Ticks : h # g => tick'[h] = tick[h]
          BY <1>0, <1>p, <2>3, TickGoes
        <3>2. SessionTypes' /\ UNCHANGED <<closed, skipped>>
          BY <1>0, <2>1, <2>3 DEF SessionTypes, session, history
        <3> QED
          BY <1>q, <2>1, <3>1, <3>2, TickKeeps
      <2>4. CASE DisconnectBy(g, "write") /\ UNCHANGED pings
        BY <2>1, <2>4, DisconnectKeeps DEF history
      <2> QED
        BY <2>1, <2>2, <2>3, <2>4
    <1>11. CASE handleNoPong(g)
      <2>1. UNCHANGED <<now, opts, timers, client, touched, reader, doing>> /\ tick[g].at = "pong"
            /\ \/ DisconnectBy(g, "no pong") /\ UNCHANGED skipped
               \/ Return(g) /\ skipped' = TRUE /\ UNCHANGED session
        BY <1>11 DEF handleNoPong, session
      <2>2. CASE DisconnectBy(g, "no pong") /\ UNCHANGED skipped
        BY <2>1, <2>2, DisconnectKeeps DEF client
      <2>3. CASE Return(g) /\ skipped' = TRUE /\ UNCHANGED session
        <3>1. /\ tick' \in [Ticks -> TickStates] /\ tick'[g].at = "idle"
              /\ \A h \in Ticks : h # g => tick'[h] = tick[h]
          BY <1>0, <2>3, TickReturns
        <3>2. SessionTypes' /\ UNCHANGED closed
          BY <1>0, <2>1, <2>3 DEF SessionTypes, session, client
        <3> QED
          BY <1>q, <2>1, <2>3, <3>1, <3>2, TickKeeps
      <2> QED
        BY <2>1, <2>2, <2>3
    <1> QED
      BY <1>1, <1>2, <1>3, <1>4, <1>5, <1>6, <1>7, <1>8, <1>9, <1>10, <1>11
      DEF Handlers, maybeDisconnectIdle, Keepalive

(* Time passes when every tick has ended.                                  *)
LEMMA AdvanceKeeps ==
    ASSUME TimersInv, Advance
    PROVE  TimersInv'
PROOF
    <1>0. TimerTypes /\ SessionTypes /\ OptionTypes /\ TickPlaces
      BY DEF TimersInv
    <1>1. /\ UNCHANGED <<opts, timers, tick, session, client, touched, skipped>> /\ now' = now + 1
          /\ \A g \in Ticks : tick[g].at = "idle"
          /\ timer = 0 \/ timer > now
      BY DEF Advance, Quiet
    <1>2. TimerTypes' /\ OptionTypes' /\ SessionTypes'
      BY <1>0, <1>1 DEF TimerTypes, OptionTypes, SessionTypes, timers, session, client
    <1>3. TickPlaces'
      BY <1>0, <1>1 DEF TickPlaces, timers, session
    <1>4. Running'
      BY <1>1 DEF TimersInv, Running, timers, session
    <1>5. Touched'
      <2> SUFFICES ASSUME NEW e \in Kept
                   PROVE  /\ touched[e] <= now + 1
                          /\ opts[e] > 0 /\ ~closed /\ ~skipped =>
                                /\ deadline[e] > 0 /\ deadline[e] <= touched[e] + opts[e]
                                /\ now + 1 <= touched[e] + opts[e]
        BY <1>1 DEF Touched, timers, session
      <2>1. deadline[e] \in Nat /\ opts[e] \in Nat /\ now \in Nat /\ touched[e] \in Nat /\ timer \in Nat
        BY <1>0, KeptAre DEF TimerTypes, OptionTypes
      <2>2. touched[e] <= now /\ (opts[e] > 0 /\ ~closed /\ ~skipped =>
              /\ deadline[e] > 0 /\ deadline[e] <= touched[e] + opts[e] /\ now <= touched[e] + opts[e])
        BY DEF TimersInv, Touched
      <2>3. ~closed /\ ~skipped /\ deadline[e] > 0 => timer > 0 /\ timer <= deadline[e]
        BY <1>1, <2>1, KeptAre DEF TimersInv, Running
      <2> QED
        BY <1>1, <2>1, <2>2, <2>3
    <1> QED
      BY <1>2, <1>3, <1>4, <1>5 DEF TimersInv

(* Every step keeps the invariant.                                         *)
LEMMA TimersStep ==
    ASSUME TimersInv, [Next]_vars
    PROVE  TimersInv'
PROOF
    <1>1. CASE UNCHANGED vars
      <2>1. UNCHANGED <<now, opts, timers, tick, touched, skipped, session, client>>
        BY <1>1 DEF vars, history
      <2>2. SessionTypes'
        BY <2>1 DEF TimersInv, SessionTypes, session, client
      <2> QED
        BY <2>1, <2>2, TimersKept DEF session
    <1> QED
      BY <1>1, TickStep, ReaderStep, AdvanceKeeps DEF Next

(* startTimers.                                                            *)
LEMMA TimersStart == Init => TimersInv
PROOF
    <1> SUFFICES ASSUME Init PROVE TimersInv
      OBVIOUS
    <1>0. OptionTypes
      BY OptionsAre
    <1>a. PICK first \in InitialPings(PingInterval) :
             /\ deadline = [ ping      |-> IF opts.ping > 0 THEN 1 + first ELSE 0,
                             pong      |-> IF opts.ping > 0 /\ opts.pong > 0
                                           THEN 1 + first + opts.pong ELSE 0,
                             handshake |-> opts.handshake,
                             resume    |-> IF opts.resume > 0 THEN 1 + opts.resume ELSE 0,
                             presence  |-> IF opts.presence > 0 THEN 1 + opts.presence ELSE 0 ]
             /\ IF Due(deadline) = {} THEN nextEvent = "none" /\ timer = 0
                ELSE nextEvent = Order[Earliest(deadline)] /\ timer = deadline[nextEvent]
      BY DEF Init
    <1>b. PICK d : d = deadline
      OBVIOUS
    <1>1. /\ d = [ ping      |-> IF opts.ping > 0 THEN 1 + first ELSE 0,
                   pong      |-> IF opts.ping > 0 /\ opts.pong > 0
                                 THEN 1 + first + opts.pong ELSE 0,
                   handshake |-> opts.handshake,
                   resume    |-> IF opts.resume > 0 THEN 1 + opts.resume ELSE 0,
                   presence  |-> IF opts.presence > 0 THEN 1 + opts.presence ELSE 0 ]
          /\ IF Due(d) = {} THEN nextEvent = "none" /\ timer = 0
             ELSE nextEvent = Order[Earliest(d)] /\ timer = d[nextEvent]
      BY <1>a, <1>b
    <1>2. first \in Nat
      BY TimersAssumption DEF InitialPings
    <1>3. /\ d \in [Events -> Nat] /\ deadline = d
          /\ \A e \in Kept : d[e] = IF opts[e] > 0 THEN 1 + opts[e] ELSE 0
      BY <1>0, <1>1, <1>2, <1>b, EventsAre, KeptAre DEF OptionTypes
    <1>4. \/ nextEvent = "none" /\ timer = 0 /\ \A e \in Events : d[e] = 0
          \/ Started(d, nextEvent, timer)
      <2>1. CASE Due(d) = {}
        <3>1. ASSUME NEW e \in Events PROVE d[e] = 0
          <4>1. PICK i \in 1 .. 5 : Order[i] = e
            BY EventsAre
          <4> QED
            BY <1>3, <2>1, <4>1, EventsAre DEF Due
        <3> QED
          BY <1>1, <2>1, <3>1
      <2>2. CASE Due(d) # {}
        BY <1>1, <1>3, <2>2, EarliestIs
      <2> QED
        BY <2>1, <2>2
    <1>5. /\ now = 1 /\ tick = [g \in Ticks |-> [at |-> "idle", ev |-> "none"]]
          /\ touched = [e \in Kept |-> 1]
          /\ reader = "auth" /\ connected = FALSE /\ closed = FALSE /\ alive = TRUE /\ pings = 0
          /\ inbox = <<>> /\ skipped = FALSE
      BY DEF Init
    <1>6. TimerTypes
      BY <1>3, <1>4, <1>5 DEF TimerTypes, Started, TickStates, TickAt
    <1>7. SessionTypes
      <2>1. <<>> \in Seq(Messages)
        OBVIOUS
      <2> QED
        BY <1>5, <2>1 DEF SessionTypes
    <1>8. TickPlaces
      <2>1. "none" \notin Events /\ "idle" \notin Events /\ \A g \in Ticks : tick[g].at = "idle"
        BY <1>5, EventsAre
      <2> QED
        BY <1>4, <2>1 DEF TickPlaces, Started
    <1>9. Running
      BY <1>3, <1>4 DEF Running, Started
    <1>10. Touched
      <2>1. \A e \in Kept : opts[e] \in Nat /\ touched[e] = 1
        BY <1>0, <1>5, KeptAre DEF OptionTypes
      <2> QED
        BY <1>3, <1>5, <2>1 DEF Touched
    <1> QED
      BY <1>0, <1>6, <1>7, <1>8, <1>9, <1>10 DEF TimersInv

(* For every interval, TTL, timeout and handshake deadline and every       *)
(* interleaving of ticks, messages, authentication and disconnects: what   *)
(* the broker keeps for an open session is touched before it expires.      *)
THEOREM TouchesInTime == MCSpec => []KeptAlive
PROOF
    <1>1. MCInit => TimersInv
      BY TimersStart DEF MCInit
    <1>2. TimersInv /\ [MCNext]_all => TimersInv'
      BY OnePartMoves, TimersStep
    <1>3. TimersInv => KeptAlive
      <2> SUFFICES ASSUME TimersInv, ~closed, ~skipped
                   PROVE  /\ opts.resume > 0 => now <= touched["resume"] + SessionsTTL
                          /\ opts.presence > 0 => now <= touched["presence"] + PresenceTTL
        BY DEF KeptAlive
      <2>1. /\ opts["resume"] > 0 => now <= touched["resume"] + opts["resume"]
            /\ opts["presence"] > 0 => now <= touched["presence"] + opts["presence"]
        BY KeptAre DEF TimersInv, Touched
      <2>2. /\ now \in Nat /\ touched["resume"] \in Nat /\ touched["presence"] \in Nat
            /\ SessionsTTL \in Nat /\ PresenceTTL \in Nat
        BY KeptAre, TimersAssumption DEF TimersInv, TimerTypes
      <2> QED
        BY <2>1, <2>2 DEF TimersInv, OptionTypes
    <1> QED
      BY <1>1, <1>2, <1>3, PTL DEF MCSpec, all

-----------------------------------------------------------------------------
(* Pongs.                                                                  *)

(* A session to which AnsweringClientKept gives no exception, and whose    *)
(* reader has not been away for a pong timeout.                            *)
Live == alive /\ ~closed /\ ~skipped /\ opts.pong > opts.ping
Fast == now - freeAt < opts.pong

(* The pong is due after the next ping, or its answer is on its way.       *)
Settled == deadline["pong"] = 0 \/ deadline["pong"] >= deadline["ping"] + (opts.pong - opts.ping)
Underway == pings > 0 \/ inbox # <<>>

(* The timer runs, or another goroutine runs, while one does.              *)
Crowded ==
    \/ timer > 0 /\ \E g \in Ticks : tick[g].at # "idle"
    \/ \E g, h \in Ticks : g # h /\ tick[g].at # "idle" /\ tick[h].at # "idle"

DueOK ==
    /\ deadline["ping"] > 0
    /\ deadline["pong"] > 0 =>
          /\ deadline["pong"] >= now
          /\ deadline["pong"] >= deadline["ping"] - opts.ping
          /\ reader # "read" \/ freeAt < now => deadline["pong"] >= freeAt + opts.pong

NextOK ==
    nextEvent = "pong" =>
        /\ deadline["pong"] > 0 /\ deadline["pong"] < deadline["ping"]
        /\ timer > 0 => timer = deadline["pong"]

AnswerOK ==
    reader \in {"auth", "read"} =>
        /\ Settled \/ Underway
        /\ (\E g \in Ticks : tick[g].at = "schedulePing") =>
              deadline["pong"] = 0 \/ deadline["pong"] >= now + opts.pong \/ Underway

FastOK ==
    Fast =>
        /\ deadline["pong"] > 0 => deadline["pong"] > now
        /\ nextEvent = "pong" => \A g \in Ticks : tick[g].at # "fired"
        /\ \A g \in Ticks : tick[g].ev # "pong"
        /\ Crowded => Settled /\ (deadline["pong"] = 0 \/ deadline["pong"] >= now + opts.pong)

LiveInv == DueOK /\ NextOK /\ AnswerOK /\ FastOK

PongTypes ==
    /\ freeAt \in Nat /\ freeAt <= now /\ held \in Nat
    /\ \A g \in Ticks : tick[g].at = "idle" => tick[g].ev = "none"
    /\ ended = "no pong" \/ reader \in {"stop", "ended"} => closed
    /\ opts.pong > opts.ping => opts.ping > 0 /\ (opts.kind = "ext" \/ opts.native)
    /\ AnsweringClientKept

PongInv == TimersInv /\ PongTypes /\ (Live => LiveInv)

(* The numbers that the deadlines are compared with.                       *)
LEMMA PongNumbers ==
    ASSUME TimersInv, PongTypes
    PROVE  /\ now \in Nat /\ timer \in Nat /\ freeAt \in Nat /\ freeAt <= now
           /\ deadline["ping"] \in Nat /\ deadline["pong"] \in Nat
           /\ opts.ping \in Nat /\ opts.pong \in Nat /\ pings \in Nat
PROOF
    BY EventsAre DEF TimersInv, PongTypes, TimerTypes, OptionTypes, SessionTypes

(* A tick moves, and leaves the timers alone.                              *)
LEMMA MoveKeepsPongs ==
    ASSUME PongInv, Live, NEW g \in Ticks, tick[g].at # "idle",
           UNCHANGED <<now, opts, freeAt, timer, nextEvent, inbox, reader>>,
           deadline'["ping"] = deadline["ping"], deadline'["pong"] = deadline["pong"],
           pings > 0 => pings' > 0,
           \A h \in Ticks : h # g => tick'[h] = tick[h],
           tick'[g].at # "fired", Fast => tick'[g].ev # "pong",
           tick'[g].at = "schedulePing" => pings' > 0
    PROVE  LiveInv'
PROOF
    <1>0. LiveInv
      BY DEF PongInv
    <1>1. DueOK' /\ NextOK'
      BY <1>0 DEF LiveInv, DueOK, NextOK
    <1>s. Settled' <=> Settled
      BY DEF Settled
    <1>u. Underway => Underway'
      BY DEF Underway
    <1>2. AnswerOK'
      <2>1. (\E h \in Ticks : tick'[h].at = "schedulePing")
            => (\E h \in Ticks : tick[h].at = "schedulePing") \/ Underway'
        BY DEF Underway
      <2> QED
        BY <1>0, <1>s, <1>u, <2>1 DEF LiveInv, AnswerOK
    <1>3. Crowded' => Crowded
      BY DEF Crowded
    <1>4. FastOK'
      <2>1. Fast' <=> Fast
        BY DEF Fast
      <2> SUFFICES ASSUME Fast
                   PROVE  /\ deadline'["pong"] > 0 => deadline'["pong"] > now'
                          /\ nextEvent' = "pong" => \A h \in Ticks : tick'[h].at # "fired"
                          /\ \A h \in Ticks : tick'[h].ev # "pong"
                          /\ Crowded' =>
                                Settled' /\ (deadline'["pong"] = 0 \/ deadline'["pong"] >= now' + opts'.pong)
        BY <2>1 DEF FastOK
      <2>2. /\ deadline["pong"] > 0 => deadline["pong"] > now
            /\ nextEvent = "pong" => \A h \in Ticks : tick[h].at # "fired"
            /\ \A h \in Ticks : tick[h].ev # "pong"
            /\ Crowded => Settled /\ (deadline["pong"] = 0 \/ deadline["pong"] >= now + opts.pong)
        BY <1>0 DEF LiveInv, FastOK
      <2> QED
        BY <1>3, <1>s, <2>2
    <1> QED
      BY <1>1, <1>2, <1>4 DEF LiveInv

(* The timer fires.                                                        *)
LEMMA FireKeepsPongs ==
    ASSUME PongInv, Live, NEW g \in Ticks, Fire(g)
    PROVE  LiveInv'
PROOF
    <1>0. LiveInv /\ TimersInv /\ PongTypes
      BY DEF PongInv
    <1>1. UNCHANGED <<now, opts, deadline, nextEvent, freeAt, pings, inbox, reader>>
          /\ timer' = 0 /\ timer # 0 /\ timer <= now /\ Goto(g, "fired") /\ tick[g].at = "idle"
      BY DEF Fire, session, client, history
    <1>2. /\ tick'[g].at = "fired" /\ tick'[g].ev = tick[g].ev
          /\ \A h \in Ticks : h # g => tick'[h] = tick[h]
      BY <1>0, <1>1, TickGoes DEF TimersInv, TickAt
    <1>n. now \in Nat /\ timer \in Nat /\ deadline["pong"] \in Nat
      BY <1>0, PongNumbers
    <1>3. DueOK' /\ NextOK' /\ AnswerOK'
      <2>1. DueOK' /\ NextOK'
        BY <1>0, <1>1 DEF LiveInv, DueOK, NextOK
      <2>2. (\E h \in Ticks : tick'[h].at = "schedulePing") => \E h \in Ticks : tick[h].at = "schedulePing"
        BY <1>2
      <2>3. AnswerOK'
        BY <1>0, <1>1, <2>2 DEF LiveInv, AnswerOK, Settled, Underway
      <2> QED
        BY <2>1, <2>3
    <1>4. FastOK'
      <2> SUFFICES ASSUME Fast
                   PROVE  /\ deadline["pong"] > 0 => deadline["pong"] > now
                          /\ nextEvent # "pong"
                          /\ \A h \in Ticks : tick'[h].ev # "pong"
                          /\ Crowded' =>
                                Settled /\ (deadline["pong"] = 0 \/ deadline["pong"] >= now + opts.pong)
        BY <1>1 DEF FastOK, Fast, Settled
      <2>1. /\ deadline["pong"] > 0 => deadline["pong"] > now
            /\ \A h \in Ticks : tick[h].ev # "pong"
            /\ Crowded => Settled /\ (deadline["pong"] = 0 \/ deadline["pong"] >= now + opts.pong)
        BY <1>0 DEF LiveInv, FastOK
      <2>2. nextEvent # "pong"
        BY <1>0, <1>1, <1>n, <2>1 DEF LiveInv, NextOK
      <2>3. \A h \in Ticks : tick'[h].ev # "pong"
        BY <1>2, <2>1
      <2>4. Crowded' => Crowded
        BY <1>1, <1>2, <1>n DEF Crowded
      <2> QED
        BY <2>1, <2>2, <2>3, <2>4
    <1> QED
      BY <1>3, <1>4 DEF LiveInv

(* schedule: a tick that is still there finds no pong to miss.             *)
LEMMA ScheduleKeepsPongs ==
    ASSUME PongInv, Live, NEW d \in [Events -> Nat], schedule(d), UNCHANGED <<now, opts, freeAt>>,
           d["ping"] > 0,
           d["pong"] > 0 =>
              /\ d["pong"] >= now /\ d["pong"] >= d["ping"] - opts.ping
              /\ reader' # "read" \/ freeAt < now => d["pong"] >= freeAt + opts.pong
              /\ Fast => d["pong"] > now,
           AnswerOK',
           \A h \in Ticks : tick'[h] = tick[h] \/ (tick'[h].at = "idle" /\ tick'[h].ev = "none"),
           Fast /\ (\E h \in Ticks : tick'[h].at # "idle") /\ d["pong"] > 0 =>
              /\ d["pong"] >= now + opts.pong
              /\ d["pong"] >= d["ping"] + (opts.pong - opts.ping)
    PROVE  LiveInv'
PROOF
    <1>0. LiveInv /\ TimersInv /\ PongTypes /\ opts.pong > opts.ping
      BY DEF PongInv, Live
    <1>n. now \in Nat /\ freeAt \in Nat /\ opts.ping \in Nat /\ opts.pong \in Nat
          /\ d["ping"] \in Nat /\ d["pong"] \in Nat
      BY <1>0, PongNumbers, EventsAre
    <1>1. deadline' = d /\ Started(d, nextEvent', timer')
      BY Scheduled, EventsAre
    <1>2. DueOK'
      BY <1>1 DEF DueOK
    <1>3. nextEvent' = "pong" => timer' = d["pong"] /\ d["pong"] > 0 /\ d["pong"] < d["ping"]
      BY <1>1 DEF Started
    <1>4. NextOK'
      BY <1>1, <1>3 DEF NextOK
    <1>5. FastOK'
      <2> SUFFICES ASSUME Fast
                   PROVE  /\ d["pong"] > 0 => d["pong"] > now
                          /\ nextEvent' = "pong" => \A h \in Ticks : tick'[h].at # "fired"
                          /\ \A h \in Ticks : tick'[h].ev # "pong"
                          /\ Crowded' => Settled' /\ (d["pong"] = 0 \/ d["pong"] >= now + opts.pong)
        BY <1>1 DEF FastOK, Fast
      <2>1. nextEvent' = "pong" => \A h \in Ticks : tick'[h].at = "idle"
        BY <1>0, <1>3, <1>n
      <2>2. \A h \in Ticks : tick'[h].ev # "pong"
        BY <1>0 DEF LiveInv, FastOK
      <2>3. Crowded' => \E h \in Ticks : tick'[h].at # "idle"
        BY DEF Crowded
      <2>4. Settled' <=> d["pong"] = 0 \/ d["pong"] >= d["ping"] + (opts.pong - opts.ping)
        BY <1>1 DEF Settled
      <2> QED
        BY <1>n, <2>1, <2>2, <2>3, <2>4
    <1> QED
      BY <1>2, <1>4, <1>5 DEF LiveInv

(* A tick starts the timer.                                                *)
LEMMA TickSchedulesPongs ==
    ASSUME PongInv, Live, NEW g \in Ticks, Schedule(g) \/ schedulePing(g)
    PROVE  LiveInv'
PROOF
    <1>0. LiveInv /\ TimersInv /\ PongTypes /\ opts.pong > opts.ping /\ opts.ping > 0
      BY DEF PongInv, Live, PongTypes
    <1>n. now \in Nat /\ freeAt \in Nat /\ freeAt <= now /\ opts.ping \in Nat /\ opts.pong \in Nat
          /\ deadline["ping"] \in Nat /\ deadline["pong"] \in Nat
      BY <1>0, PongNumbers
    <1>1. UNCHANGED <<now, opts, freeAt, reader, pings, inbox>> /\ Return(g)
          /\ tick[g].at \in {"schedule", "schedulePing"}
      BY DEF Schedule, schedulePing, session, client, history
    <1>2. /\ tick'[g].at = "idle" /\ tick'[g].ev = "none"
          /\ \A h \in Ticks : h # g => tick'[h] = tick[h]
      BY <1>0, <1>1, TickReturns DEF TimersInv
    <1>3. PICK d \in [Events -> Nat] :
             /\ schedule(d)
             /\ \/ d = deadline
                \/ /\ tick[g].at = "schedulePing" /\ d["ping"] = now + opts.ping
                   /\ d["pong"] = IF deadline["pong"] = 0 THEN now + opts.pong ELSE deadline["pong"]
      <2>1. CASE Schedule(g)
        BY <1>0, <2>1 DEF Schedule, TimersInv, TimerTypes
      <2>2. CASE schedulePing(g)
        <3>1. PICK d \in [Events -> Nat] :
                 d = [deadline EXCEPT !.ping = In(opts.ping),
                                      !.pong = IF opts.pong > 0 /\ @ = 0 THEN In(opts.pong) ELSE @]
          BY <1>0, NewDeadlines DEF TimersInv
        <3>2. In(opts.ping) = now + opts.ping /\ In(opts.pong) = now + opts.pong /\ opts.pong > 0
          BY <1>0, <1>n DEF In
        <3>3. "ping" \in Events /\ "pong" \in Events /\ deadline \in [Events -> Nat]
          BY <1>0, EventsAre DEF TimersInv, TimerTypes
        <3>4. d["ping"] = now + opts.ping
              /\ d["pong"] = IF deadline["pong"] = 0 THEN now + opts.pong ELSE deadline["pong"]
          BY <3>1, <3>2, <3>3
        <3>5. schedule(d) /\ tick[g].at = "schedulePing"
          BY <2>2, <3>1 DEF schedulePing
        <3> QED
          BY <3>4, <3>5
      <2> QED
        BY <2>1, <2>2
    <1>4. deadline' = d
      BY <1>3, Scheduled
    <1>5. d["ping"] > 0
      BY <1>0, <1>3, <1>n DEF LiveInv, DueOK
    <1>6. d["pong"] > 0 =>
             /\ d["pong"] >= now /\ d["pong"] >= d["ping"] - opts.ping
             /\ reader' # "read" \/ freeAt < now => d["pong"] >= freeAt + opts.pong
      BY <1>0, <1>1, <1>3, <1>n DEF LiveInv, DueOK
    <1>7. Fast /\ d["pong"] > 0 => d["pong"] > now
      <2>1. Fast => (deadline["pong"] > 0 => deadline["pong"] > now)
        BY <1>0 DEF LiveInv, FastOK
      <2> QED
        BY <1>0, <1>3, <1>n, <2>1
    <1>8. AnswerOK'
      <2> SUFFICES ASSUME reader \in {"auth", "read"}
                   PROVE  /\ Settled' \/ Underway'
                          /\ (\E h \in Ticks : tick'[h].at = "schedulePing") =>
                                d["pong"] = 0 \/ d["pong"] >= now + opts.pong \/ Underway'
        BY <1>1, <1>4 DEF AnswerOK
      <2>1. /\ Settled \/ Underway
            /\ (\E h \in Ticks : tick[h].at = "schedulePing") =>
                  deadline["pong"] = 0 \/ deadline["pong"] >= now + opts.pong \/ Underway
        BY <1>0 DEF LiveInv, AnswerOK
      <2>2. Underway' <=> Underway
        BY <1>1 DEF Underway
      <2>3. Settled' <=> d["pong"] = 0 \/ d["pong"] >= d["ping"] + (opts.pong - opts.ping)
        BY <1>1, <1>4 DEF Settled
      <2>4. CASE d = deadline
        <3>1. (\E h \in Ticks : tick'[h].at = "schedulePing") => \E h \in Ticks : tick[h].at = "schedulePing"
          BY <1>2
        <3>2. Settled' <=> Settled
          BY <2>3, <2>4 DEF Settled
        <3> QED
          BY <2>1, <2>2, <2>4, <3>1, <3>2
      <2>5. CASE /\ tick[g].at = "schedulePing" /\ d["ping"] = now + opts.ping
                 /\ d["pong"] = IF deadline["pong"] = 0 THEN now + opts.pong ELSE deadline["pong"]
        <3>1. deadline["pong"] = 0 \/ deadline["pong"] >= now + opts.pong \/ Underway
          BY <2>1, <2>5
        <3>2. d["pong"] >= now + opts.pong \/ Underway
          BY <1>n, <2>5, <3>1
        <3>3. d["pong"] >= now + opts.pong => d["pong"] >= d["ping"] + (opts.pong - opts.ping)
          BY <1>n, <2>5
        <3> QED
          BY <2>2, <2>3, <3>2, <3>3
      <2> QED
        BY <1>3, <2>4, <2>5
    <1>9. \A h \in Ticks : tick'[h] = tick[h] \/ (tick'[h].at = "idle" /\ tick'[h].ev = "none")
      BY <1>2
    <1>10. Fast /\ (\E h \in Ticks : tick'[h].at # "idle") /\ d["pong"] > 0 =>
              /\ d["pong"] >= now + opts.pong
              /\ d["pong"] >= d["ping"] + (opts.pong - opts.ping)
      <2> SUFFICES ASSUME Fast, NEW h \in Ticks, tick'[h].at # "idle", d["pong"] > 0
                   PROVE  /\ d["pong"] >= now + opts.pong
                          /\ d["pong"] >= d["ping"] + (opts.pong - opts.ping)
        OBVIOUS
      <2>1. Crowded
        BY <1>1, <1>2 DEF Crowded
      <2>2. Settled /\ (deadline["pong"] = 0 \/ deadline["pong"] >= now + opts.pong)
        BY <1>0, <2>1 DEF LiveInv, FastOK
      <2> QED
        BY <1>0, <1>3, <1>n, <2>2 DEF Settled
    <1> QED
      BY <1>1, <1>3, <1>5, <1>6, <1>7, <1>8, <1>9, <1>10, ScheduleKeepsPongs

(* The reader starts the timer, or finds no pong to wait for.              *)
LEMMA ReaderSchedulesPongs ==
    ASSUME PongInv, Live, Read \/ Handled
    PROVE  LiveInv'
PROOF
    <1>0. LiveInv /\ TimersInv /\ PongTypes /\ opts.pong > opts.ping /\ opts.ping > 0
      BY DEF PongInv, Live, PongTypes
    <1>n. now \in Nat /\ freeAt \in Nat /\ freeAt <= now /\ opts.ping \in Nat /\ opts.pong \in Nat
          /\ deadline["ping"] \in Nat /\ deadline["pong"] \in Nat
      BY <1>0, PongNumbers
    <1>1. UNCHANGED <<now, opts, freeAt, tick>>
      BY DEF Read, Handled, history
    <1>2. \/ resetPong /\ reader' = "read" /\ (reader = "read" \/ reader = "busy")
          \/ keepalive /\ reader' = "busy"
      BY DEF Read, Handled
    <1>s. "ping" \in Events /\ "pong" \in Events /\ deadline \in [Events -> Nat]
      BY <1>0, EventsAre DEF TimersInv, TimerTypes
    <1>3. CASE deadline["pong"] = 0
      <2>1. UNCHANGED timers
        BY <1>2, <1>3, <1>n DEF resetPong, keepalive
      <2>2. DueOK' /\ NextOK'
        BY <1>0, <1>1, <1>3, <2>1 DEF LiveInv, DueOK, NextOK, timers
      <2>3. AnswerOK'
        BY <1>3, <2>1 DEF AnswerOK, Settled, timers
      <2>4. FastOK'
        BY <1>0, <1>1, <1>3, <2>1 DEF LiveInv, FastOK, Fast, Crowded, Settled, timers
      <2> QED
        BY <2>2, <2>3, <2>4 DEF LiveInv
    <1>4. CASE deadline["pong"] > 0
      <2>1. PICK d \in [Events -> Nat] :
               /\ schedule(d) /\ d["ping"] = deadline["ping"]
               /\ \/ d["pong"] = 0
                  \/ d["pong"] = deadline["pong"] + opts.pong /\ reader' = "read"
        <3>1. CASE resetPong /\ reader' = "read"
          <4>1. PICK d \in [Events -> Nat] : d = [deadline EXCEPT !.pong = @ + opts.pong]
            BY <1>0, NewDeadlines DEF TimersInv
          <4>2. schedule(d) /\ d["ping"] = deadline["ping"] /\ d["pong"] = deadline["pong"] + opts.pong
            BY <1>4, <1>s, <3>1, <4>1 DEF resetPong
          <4> QED
            BY <3>1, <4>2
        <3>2. CASE keepalive
          <4>1. PICK d \in [Events -> Nat] : d = [deadline EXCEPT !.pong = 0]
            BY <1>0, NewDeadlines DEF TimersInv
          <4>2. schedule(d) /\ d["ping"] = deadline["ping"] /\ d["pong"] = 0
            BY <1>4, <1>s, <3>2, <4>1 DEF keepalive
          <4> QED
            BY <4>2
        <3> QED
          BY <1>2, <3>1, <3>2
      <2>2. deadline' = d
        BY <2>1, Scheduled
      <2>3. /\ deadline["ping"] > 0 /\ deadline["pong"] >= now
            /\ deadline["pong"] >= deadline["ping"] - opts.ping
        BY <1>0, <1>4 DEF LiveInv, DueOK
      <2>4. d["pong"] > 0 =>
               /\ d["pong"] >= now + opts.pong
               /\ d["pong"] >= d["ping"] + (opts.pong - opts.ping)
        BY <1>n, <2>1, <2>3
      <2>5. d["ping"] > 0 /\ d["ping"] \in Nat /\ d["pong"] \in Nat
        BY <1>s, <2>1, <2>3
      <2>6. d["pong"] > 0 =>
               /\ d["pong"] >= now /\ d["pong"] >= d["ping"] - opts.ping
               /\ d["pong"] >= freeAt + opts.pong /\ d["pong"] > now
        BY <1>0, <1>n, <2>4, <2>5
      <2>7. AnswerOK'
        <3>1. Settled'
          BY <1>1, <2>2, <2>4, <2>5 DEF Settled
        <3>2. deadline'["pong"] = 0 \/ deadline'["pong"] >= now' + opts'.pong
          BY <1>1, <2>2, <2>4, <2>5
        <3> QED
          BY <3>1, <3>2 DEF AnswerOK
      <2> QED
        BY <1>1, <2>1, <2>4, <2>5, <2>6, <2>7, ScheduleKeepsPongs
    <1> QED
      BY <1>3, <1>4, <1>n

(* What every step of a tick leaves alone, and where the tick is then.     *)
LEMMA HandlerMoves ==
    ASSUME PongInv, NEW g \in Ticks, Handlers(g)
    PROVE  /\ UNCHANGED <<now, opts, freeAt, reader, inbox, alive>>
           /\ closed => closed' /\ ended' = ended /\ held' = held
           /\ skipped => skipped'
           /\ tick'[g].at = "idle" => tick'[g].ev = "none"
           /\ \A h \in Ticks : h # g => tick'[h] = tick[h]
           /\ tick'[g].at # "idle" /\ ~Tick(g) => tick'[g].ev = tick[g].ev
           /\ \/ ended' = ended \/ ended' \in {"idle", "write"}
              \/ ended' = "no pong" /\ handleNoPong(g) /\ connected
           /\ ended' # ended => closed'
           /\ held' = held \/ (handleNoPong(g) /\ connected /\ ~closed /\ held' = now - freeAt)
PROOF
    <1>0. TimerTypes /\ TickPlaces /\ skipped \in BOOLEAN
      BY DEF PongInv, TimersInv, SessionTypes
    <1>p. {"idle", "fired", "handle", "stop", "schedule", "idleCheck", "set", "schedulePing"} \subseteq TickAt
          /\ Events \subseteq TickAt
      BY DEF TickAt
    <1>1. UNCHANGED <<now, opts, freeAt, reader, inbox, alive>>
      BY DEF Handlers, Fire, Tick, handleTimerEvent, StopTimers, Schedule, maybeDisconnectIdle, Keepalive,
             sendPing, schedulePing, handleNoPong, session, client, history
    <1>2. \/ Return(g)
          \/ \E x \in TickAt \ {"idle"} : Goto(g, x)
          \/ Tick(g)
      <2>1. CASE Fire(g) \/ StopTimers(g) \/ Schedule(g) \/ Keepalive(g) \/ schedulePing(g)
        BY <1>p, <2>1 DEF Fire, StopTimers, Schedule, Keepalive, schedulePing
      <2>2. CASE handleTimerEvent(g)
        <3>1. tick[g].ev \in TickAt \ {"idle"}
          BY <1>0, <1>p, <2>2, EventsAre DEF handleTimerEvent, TickPlaces
        <3> QED
          BY <2>2, <3>1 DEF handleTimerEvent
      <2>3. CASE maybeDisconnectIdle(g) \/ sendPing(g) \/ handleNoPong(g)
        BY <1>p, <2>3 DEF maybeDisconnectIdle, sendPing, handleNoPong, DisconnectBy
      <2> QED
        BY <2>1, <2>2, <2>3 DEF Handlers
    <1>3. /\ tick'[g].at = "idle" => tick'[g].ev = "none"
          /\ \A h \in Ticks : h # g => tick'[h] = tick[h]
          /\ tick'[g].at # "idle" /\ ~Tick(g) => tick'[g].ev = tick[g].ev
      <2>1. CASE Return(g)
        BY <1>0, <2>1, TickReturns
      <2>2. CASE \E x \in TickAt \ {"idle"} : Goto(g, x)
        BY <1>0, <2>2, TickGoes
      <2>3. CASE Tick(g)
        <3>1. tick' = [tick EXCEPT ![g] = [at |-> "handle", ev |-> nextEvent]]
              /\ tick \in [Ticks -> TickStates]
          BY <1>0, <2>3 DEF Tick, TimerTypes
        <3> QED
          BY <2>3, <3>1
      <2> QED
        BY <1>2, <2>1, <2>2, <2>3
    <1>4. /\ closed => closed' /\ ended' = ended /\ held' = held
          /\ skipped => skipped'
          /\ \/ ended' = ended \/ ended' \in {"idle", "write"}
             \/ ended' = "no pong" /\ handleNoPong(g) /\ connected
          /\ ended' # ended => closed'
          /\ held' = held \/ (handleNoPong(g) /\ connected /\ ~closed /\ held' = now - freeAt)
      <2>1. CASE Fire(g) \/ Tick(g) \/ handleTimerEvent(g) \/ StopTimers(g) \/ Schedule(g) \/ Keepalive(g)
                 \/ schedulePing(g)
        <3>1. UNCHANGED <<session, history>>
          BY <2>1 DEF Fire, Tick, handleTimerEvent, StopTimers, Schedule, Keepalive, schedulePing
        <3>2. closed' = closed /\ ended' = ended /\ held' = held /\ skipped' = skipped
          BY <3>1 DEF session, history
        <3> QED
          BY <3>2
      <2>c. closed \in BOOLEAN
        BY DEF PongInv, TimersInv, SessionTypes
      <2>2. CASE maybeDisconnectIdle(g)
        <3>1. held' = held /\ skipped' = skipped
          BY <2>2 DEF maybeDisconnectIdle, history
        <3>2. \/ closed' = closed /\ ended' = ended
              \/ closed' = TRUE /\ ended' = IF closed THEN ended ELSE "idle"
          BY <2>2 DEF maybeDisconnectIdle, DisconnectBy, session
        <3> QED
          BY <2>c, <3>1, <3>2
      <2>3. CASE sendPing(g)
        <3>1. held' = held /\ skipped' = skipped
          BY <2>3 DEF sendPing, history
        <3>2. \/ closed' = closed /\ ended' = ended
              \/ closed' = TRUE /\ ended' = IF closed THEN ended ELSE "write"
          BY <2>3 DEF sendPing, DisconnectBy, session
        <3> QED
          BY <2>c, <3>1, <3>2
      <2>4. CASE handleNoPong(g)
        <3>1. CASE connected
          <4>1. /\ closed' = TRUE /\ ended' = IF closed THEN ended ELSE "no pong"
                /\ held' = IF closed THEN held ELSE now - freeAt
                /\ skipped' = skipped
            BY <2>4, <3>1 DEF handleNoPong, DisconnectBy
          <4> QED
            BY <2>4, <2>c, <3>1, <4>1
        <3>2. CASE ~connected
          <4>1. closed' = closed /\ ended' = ended /\ held' = held /\ skipped' = TRUE
            BY <2>4, <3>2 DEF handleNoPong, session
          <4> QED
            BY <2>c, <4>1
        <3> QED
          BY <3>1, <3>2
      <2> QED
        BY <2>1, <2>2, <2>3, <2>4 DEF Handlers
    <1> QED
      BY <1>1, <1>3, <1>4

(* The steps of a tick.                                                    *)
LEMMA HandlersKeepPongs ==
    ASSUME PongInv, NEW g \in Ticks, Handlers(g), Live, Live'
    PROVE  LiveInv'
PROOF
    <1>0. TimerTypes /\ TickPlaces /\ LiveInv /\ PongTypes /\ TimersInv
      BY DEF PongInv, TimersInv
    <1>l. alive /\ ~closed /\ ~closed' /\ ~skipped /\ ~skipped'
      BY DEF Live
    <1>m. /\ UNCHANGED <<now, opts, freeAt, reader, inbox>>
          /\ \A h \in Ticks : h # g => tick'[h] = tick[h]
          /\ tick'[g].at = "idle" => tick'[g].ev = "none"
          /\ tick'[g].at # "idle" /\ ~Tick(g) => tick'[g].ev = tick[g].ev
      BY HandlerMoves
    <1>p. {"idle", "fired", "handle", "stop", "schedule", "idleCheck", "set", "schedulePing"} \subseteq TickAt
          /\ Events \subseteq TickAt
      BY DEF TickAt
    <1>e. ~Tick(g) => (Fast => tick'[g].ev # "pong")
      BY <1>0, <1>m DEF LiveInv, FastOK
    <1>1. CASE Fire(g)
      BY <1>1, FireKeepsPongs
    <1>2. CASE Schedule(g) \/ schedulePing(g)
      BY <1>2, TickSchedulesPongs
    <1>3. CASE Tick(g)
      <2>1. UNCHANGED <<timers, pings>> /\ tick[g].at = "fired"
            /\ tick' = [tick EXCEPT ![g] = [at |-> "handle", ev |-> nextEvent]]
        BY <1>3 DEF Tick, client
      <2>2. tick'[g].at = "handle" /\ tick'[g].ev = nextEvent
        BY <1>0, <2>1 DEF TimerTypes
      <2>3. Fast => nextEvent # "pong"
        BY <1>0, <2>1 DEF LiveInv, FastOK
      <2> QED
        BY <1>m, <2>1, <2>2, <2>3, MoveKeepsPongs DEF timers
    <1>4. CASE handleTimerEvent(g)
      <2>1. UNCHANGED <<timers, pings>> /\ tick[g].at = "handle" /\ Goto(g, tick[g].ev)
        BY <1>4, <1>l DEF handleTimerEvent, client
      <2>2. PICK x \in Events : x = tick[g].ev
        BY <1>0, <2>1 DEF TickPlaces
      <2>3. tick'[g].at = x
        BY <1>0, <1>p, <2>1, <2>2, TickGoes
      <2>4. x # "fired" /\ x # "schedulePing"
        BY <2>2, EventsAre
      <2>5. ~Tick(g)
        BY <2>1 DEF Tick
      <2> QED
        BY <1>e, <1>m, <2>1, <2>3, <2>4, <2>5, MoveKeepsPongs DEF timers
    <1>5. CASE StopTimers(g)
      BY <1>0, <1>5, <1>l DEF StopTimers, TickPlaces
    <1>6. CASE maybeDisconnectIdle(g) \/ Keepalive(g)
      <2>1. UNCHANGED <<timer, nextEvent, pings>> /\ tick[g].at # "idle" /\ tick[g].at # "fired"
        BY <1>6, KeptAre, EventsAre DEF maybeDisconnectIdle, Keepalive, client, timers
      <2>2. deadline'["ping"] = deadline["ping"] /\ deadline'["pong"] = deadline["pong"]
        <3>1. CASE deadline' = deadline
          BY <3>1
        <3>2. CASE deadline' # deadline
          <4>1. deadline \in [Events -> Nat] /\ "ping" \in Events /\ "pong" \in Events
            BY <1>0, EventsAre DEF TimerTypes
          <4>2. \/ deadline' = [deadline EXCEPT !.handshake = 0]
                \/ \E x \in Kept : deadline' = [deadline EXCEPT ![x] = In(opts[x])]
            BY <1>0, <1>6, <3>2 DEF maybeDisconnectIdle, Keepalive, timers, TickPlaces
          <4> QED
            BY <4>1, <4>2, KeptAre
        <3> QED
          BY <3>1, <3>2
      <2>3. tick'[g].at \in {"idleCheck", "schedule", "stop", "set"}
        <3>1. \E x \in {"idleCheck", "schedule", "stop", "set"} : Goto(g, x)
          BY <1>6, <1>l DEF maybeDisconnectIdle, Keepalive, DisconnectBy
        <3> QED
          BY <1>0, <1>p, <3>1, TickGoes
      <2>4. ~Tick(g)
        BY <2>1 DEF Tick
      <2> QED
        BY <1>e, <1>m, <2>1, <2>2, <2>3, <2>4, MoveKeepsPongs
    <1>7. CASE sendPing(g)
      <2>1. UNCHANGED timers /\ tick[g].at = "ping" /\ Goto(g, "schedulePing") /\ pings' = pings + 1
        BY <1>7, <1>l DEF sendPing, DisconnectBy
      <2>2. tick'[g].at = "schedulePing" /\ pings' > 0
        BY <1>0, <1>p, <2>1, TickGoes, PongNumbers
      <2>3. ~Tick(g)
        BY <2>1 DEF Tick
      <2> QED
        BY <1>e, <1>m, <2>1, <2>2, <2>3, MoveKeepsPongs DEF timers
    <1>8. CASE handleNoPong(g)
      BY <1>8, <1>l DEF handleNoPong, DisconnectBy
    <1> QED
      BY <1>1, <1>2, <1>3, <1>4, <1>5, <1>6, <1>7, <1>8 DEF Handlers

(* The messages of a client are under way.                                 *)
LEMMA AnswersCount ==
    ASSUME TimersInv, PongTypes, opts.pong > opts.ping, Answer \/ SendCommand
    PROVE  Underway'
PROOF
    <1>0. inbox \in Seq(Messages) /\ Len(inbox) \in Nat
      BY DEF TimersInv, SessionTypes
    <1>1. CASE Answer
      <2>1. PICK one, two \in Seq(Messages) :
               /\ Answers = one \o two
               /\ one = (IF opts.kind = "ext" THEN <<"pong">> ELSE <<>>)
               /\ two = (IF opts.native THEN <<"native pong">> ELSE <<>>)
        <3>1. <<"pong">> \in Seq(Messages) /\ <<"native pong">> \in Seq(Messages) /\ <<>> \in Seq(Messages)
          BY DEF Messages
        <3>2. PICK one \in Seq(Messages) : one = IF opts.kind = "ext" THEN <<"pong">> ELSE <<>>
          BY <3>1
        <3>3. PICK two \in Seq(Messages) : two = IF opts.native THEN <<"native pong">> ELSE <<>>
          BY <3>1
        <3>4. Answers = one \o two
          BY <3>2, <3>3 DEF Answers
        <3> QED
          BY <3>2, <3>3, <3>4
      <2>2. PICK more \in Seq(Messages) : more = Answers /\ Len(more) > 0 /\ Len(more) \in Nat
        <3>1. opts.kind = "ext" \/ opts.native
          BY DEF PongTypes
        <3>2. Len(one) = 1 \/ Len(two) = 1
          BY <2>1, <3>1
        <3>3. Len(one \o two) = Len(one) + Len(two) /\ Len(one) \in Nat /\ Len(two) \in Nat
              /\ one \o two \in Seq(Messages)
          <4>1. one \in Seq(Messages) /\ two \in Seq(Messages)
            BY <2>1
          <4> QED
            BY ONLY <4>1
        <3>4. Len(one \o two) > 0 /\ Len(one \o two) \in Nat
          BY SMTT(30), <3>2, <3>3
        <3> QED
          BY <2>1, <3>3, <3>4
      <2>3. inbox' = inbox \o more
        BY <1>1, <2>2 DEF Answer
      <2>4. Len(inbox \o more) = Len(inbox) + Len(more)
        BY <1>0, <2>2
      <2> QED
        BY <1>0, <2>2, <2>3, <2>4 DEF Underway
    <1>2. CASE SendCommand
      BY <1>0, <1>2 DEF SendCommand, Underway
    <1> QED
      BY <1>1, <1>2

(* Time passes.                                                            *)
LEMMA AdvanceKeepsPongs ==
    ASSUME PongInv, Advance, Live
    PROVE  LiveInv'
PROOF
    <1>0. TimersInv /\ LiveInv /\ PongTypes
      BY DEF PongInv
    <1>l. alive /\ ~closed /\ ~skipped /\ opts.pong > opts.ping
      BY DEF Live
    <1>n. now \in Nat /\ timer \in Nat /\ freeAt \in Nat /\ freeAt <= now
          /\ opts.ping \in Nat /\ opts.pong \in Nat
          /\ deadline["ping"] \in Nat /\ deadline["pong"] \in Nat
      BY <1>0, PongNumbers
    <1>1. /\ UNCHANGED <<opts, timer, deadline, nextEvent, tick, reader, pings, inbox>> /\ now' = now + 1
          /\ \A g \in Ticks : tick[g].at = "idle"
          /\ freeAt' = IF reader = "read" THEN now + 1 ELSE freeAt
          /\ timer = 0 \/ timer > now
          /\ reader = "read" => inbox = <<>>
          /\ pings = 0
      BY <1>l DEF Advance, Quiet, timers, session, client
    <1>2. timer > 0 /\ timer > now /\ timer <= deadline["ping"]
          /\ (deadline["pong"] > 0 => timer <= deadline["pong"]) /\ deadline["ping"] > 0
      <2>1. deadline["ping"] > 0 /\ "ping" \in Events /\ "pong" \in Events
        BY <1>0, EventsAre DEF LiveInv, DueOK
      <2> QED
        BY <1>0, <1>1, <1>l, <1>n, <2>1 DEF TimersInv, Running
    <1>3. reader = "read" => Settled
      BY <1>0, <1>1 DEF LiveInv, AnswerOK, Underway
    <1>4. DueOK'
      <2>1. deadline["pong"] > 0 =>
               deadline["pong"] >= now + 1 /\ deadline["pong"] >= deadline["ping"] - opts.ping
        BY <1>0, <1>2, <1>n DEF LiveInv, DueOK
      <2>2. deadline["pong"] > 0 /\ reader # "read" => deadline["pong"] >= freeAt + opts.pong
        BY <1>0 DEF LiveInv, DueOK
      <2> QED
        BY <1>1, <1>2, <1>n, <2>1, <2>2 DEF DueOK
    <1>5. NextOK'
      BY <1>0, <1>1 DEF LiveInv, NextOK
    <1>6. AnswerOK'
      BY <1>0, <1>1 DEF LiveInv, AnswerOK, Settled, Underway
    <1>7. FastOK'
      <2> SUFFICES ASSUME Fast'
                   PROVE  /\ deadline["pong"] > 0 => deadline["pong"] > now + 1
                          /\ \A g \in Ticks : tick'[g].at # "fired" /\ tick'[g].ev # "pong"
                          /\ ~Crowded'
        BY <1>1 DEF FastOK
      <2>1. \A g \in Ticks : tick'[g].at = "idle" /\ tick'[g].ev = "none"
        BY <1>0, <1>1 DEF PongTypes
      <2>2. deadline["pong"] > 0 => deadline["pong"] > now + 1
        <3>1. CASE reader = "read"
          BY <1>2, <1>3, <1>l, <1>n, <3>1 DEF Settled
        <3>2. CASE reader # "read"
          <4>1. now + 1 - freeAt < opts.pong
            <5>1. now' - freeAt' < opts'.pong
              BY DEF Fast
            <5>2. now' = now + 1 /\ freeAt' = freeAt /\ opts' = opts
              BY <1>1, <3>2
            <5> QED
              BY <1>n, <5>1, <5>2
          <4>2. deadline["pong"] > 0 => deadline["pong"] >= freeAt + opts.pong
            BY <1>0, <3>2 DEF LiveInv, DueOK
          <4> QED
            BY <1>n, <4>1, <4>2
        <3> QED
          BY <3>1, <3>2
      <2> QED
        BY <2>1, <2>2 DEF Crowded
    <1> QED
      BY <1>4, <1>5, <1>6, <1>7 DEF LiveInv

(* What the reader and the client leave alone.                             *)
LEMMA ReaderMoves ==
    ASSUME PongInv,
           \/ Authenticate \/ Read \/ Handled \/ ReadFails \/ ReaderStopsTimers
           \/ Answer \/ SendCommand \/ Die
    PROVE  /\ UNCHANGED <<now, opts, tick, held, skipped, freeAt>>
           /\ (closed => closed') /\ (alive' => alive)
           /\ ended' = "no pong" => ended = "no pong"
           /\ reader' \in {"stop", "ended"} => closed'
PROOF
    <1>0. /\ reader \in {"stop", "ended"} => closed
          /\ closed \in BOOLEAN /\ alive \in BOOLEAN
      BY DEF PongInv, PongTypes, TimersInv, SessionTypes
    <1>1. CASE Authenticate
      <2>1. UNCHANGED <<now, opts, tick, held, skipped, freeAt, alive>>
        BY <1>1 DEF Authenticate, client, history
      <2>2. \/ closed' = closed /\ ended' = ended /\ reader' = "read"
            \/ closed' = TRUE /\ ended' = "auth"
            \/ closed /\ closed' = closed /\ ended' = ended
        BY <1>1 DEF Authenticate
      <2> QED
        BY <1>0, <2>1, <2>2
    <1>2. CASE Read \/ Handled
      <2>1. UNCHANGED <<now, opts, tick, held, skipped, freeAt, alive, closed, ended>>
        BY <1>2 DEF Read, Handled, history
      <2>2. reader' \in {"read", "busy"}
        BY <1>2 DEF Read, Handled
      <2> QED
        BY <2>1, <2>2
    <1>3. CASE ReadFails
      <2>1. UNCHANGED <<now, opts, tick, held, skipped, freeAt, alive>>
        BY <1>3 DEF ReadFails, client, history
      <2>2. \/ closed' = TRUE /\ ended' = "read"
            \/ closed /\ closed' = closed /\ ended' = ended
        BY <1>3 DEF ReadFails
      <2> QED
        BY <1>0, <2>1, <2>2
    <1>4. CASE ReaderStopsTimers
      <2>1. UNCHANGED <<now, opts, tick, held, skipped, freeAt, alive, closed, ended>> /\ reader = "stop"
        BY <1>4 DEF ReaderStopsTimers, client, history
      <2> QED
        BY <1>0, <2>1
    <1>5. CASE Answer \/ SendCommand \/ Die
      <2>1. UNCHANGED <<now, opts, tick, held, skipped, freeAt, closed, ended, reader>>
        BY <1>5 DEF Answer, SendCommand, Die, session, history
      <2>2. alive' => alive
        BY <1>5 DEF Answer, SendCommand, Die
      <2>3. closed => closed'
        BY <2>1
      <2>4. reader' \in {"stop", "ended"} => closed'
        BY <1>0, <2>1
      <2>5. ended' = "no pong" => ended = "no pong"
        BY <2>1
      <2> QED
        BY <2>1, <2>2, <2>3, <2>4, <2>5
    <1> QED
      BY <1>1, <1>2, <1>3, <1>4, <1>5

(* A missing pong ends a session only when its reader was away for long.   *)
LEMMA NoPongHeld ==
    ASSUME PongInv, NEW g \in Ticks, handleNoPong(g), connected, ~closed, alive
    PROVE  held' = now - freeAt /\ (held' >= opts.pong \/ opts.pong <= opts.ping \/ skipped)
PROOF
    <1>1. tick[g].at = "pong" /\ held' = now - freeAt
      BY DEF handleNoPong
    <1>2. tick[g].ev = "pong"
      BY <1>1, EventsAre DEF PongInv, TimersInv, TickPlaces
    <1>n. now \in Nat /\ freeAt \in Nat /\ opts.ping \in Nat /\ opts.pong \in Nat
      BY PongNumbers DEF PongInv
    <1>3. CASE Live
      <2>1. ~Fast
        BY <1>2, <1>3 DEF PongInv, LiveInv, FastOK
      <2> QED
        BY <1>1, <1>n, <2>1 DEF Fast
    <1>4. CASE ~Live
      <2>1. skipped \/ ~(opts.pong > opts.ping)
        BY <1>4 DEF Live
      <2> QED
        BY <1>1, <1>n, <2>1
    <1> QED
      BY <1>3, <1>4

(* Every step keeps the types, and AnsweringClientKept among them.         *)
LEMMA PongTypesStep ==
    ASSUME PongInv, [Next]_vars
    PROVE  PongTypes'
PROOF
    <1>0. /\ freeAt \in Nat /\ freeAt <= now /\ held \in Nat /\ now \in Nat
          /\ \A g \in Ticks : tick[g].at = "idle" => tick[g].ev = "none"
          /\ ended = "no pong" \/ reader \in {"stop", "ended"} => closed
          /\ opts.pong > opts.ping => opts.ping > 0 /\ (opts.kind = "ext" \/ opts.native)
          /\ ended = "no pong" /\ alive => held >= opts.pong \/ opts.pong <= opts.ping \/ skipped
      BY PongNumbers DEF PongInv, PongTypes, AnsweringClientKept
    <1>n. freeAt \in Nat /\ freeAt <= now /\ held \in Nat /\ now \in Nat
      BY <1>0
    <1>1. ASSUME NEW g \in Ticks, Handlers(g) PROVE PongTypes'
      <2>1. /\ UNCHANGED <<now, opts, freeAt, reader, inbox, alive>>
            /\ closed => closed' /\ ended' = ended /\ held' = held
            /\ skipped => skipped'
            /\ tick'[g].at = "idle" => tick'[g].ev = "none"
            /\ \A h \in Ticks : h # g => tick'[h] = tick[h]
            /\ \/ ended' = ended \/ ended' \in {"idle", "write"}
               \/ ended' = "no pong" /\ handleNoPong(g) /\ connected
            /\ ended' # ended => closed'
            /\ held' = held \/ (handleNoPong(g) /\ connected /\ ~closed /\ held' = now - freeAt)
        BY <1>1, HandlerMoves
      <2>2. held' \in Nat
        <3>1. held' = held \/ held' = now - freeAt
          BY <2>1
        <3> QED
          BY ONLY <1>n, <3>1
      <2>3. \A h \in Ticks : tick'[h].at = "idle" => tick'[h].ev = "none"
        BY <1>0, <2>1
      <2>4. ended' = "no pong" \/ reader' \in {"stop", "ended"} => closed'
        BY <1>0, <2>1
      <2>5. AnsweringClientKept'
        <3> SUFFICES ASSUME ended' = "no pong", alive
                     PROVE  held' >= opts.pong \/ opts.pong <= opts.ping \/ skipped'
          BY <2>1 DEF AnsweringClientKept
        <3>1. CASE closed
          BY <1>0, <2>1, <3>1
        <3>2. CASE ~closed
          <4>1. ended # "no pong"
            BY <1>0, <3>2
          <4>2. handleNoPong(g) /\ connected
            BY <2>1, <4>1
          <4> QED
            BY <2>1, <3>2, <4>2, NoPongHeld
        <3> QED
          BY <3>1, <3>2
      <2> QED
        BY <1>0, <2>1, <2>2, <2>3, <2>4, <2>5 DEF PongTypes
    <1>2. CASE \/ Authenticate \/ Read \/ Handled \/ ReadFails \/ ReaderStopsTimers
               \/ Answer \/ SendCommand \/ Die
      <2>1. /\ UNCHANGED <<now, opts, tick, held, skipped, freeAt>>
            /\ (closed => closed') /\ (alive' => alive)
            /\ ended' = "no pong" => ended = "no pong"
            /\ reader' \in {"stop", "ended"} => closed'
        BY <1>2, ReaderMoves
      <2> QED
        BY <1>0, <2>1 DEF PongTypes, AnsweringClientKept
    <1>3. CASE Advance
      <2>1. UNCHANGED <<opts, tick, reader, closed, ended, alive, held, skipped>> /\ now' = now + 1
            /\ (freeAt' = freeAt \/ freeAt' = now + 1)
        BY <1>3 DEF Advance, session, client
      <2>2. freeAt' \in Nat /\ freeAt' <= now' /\ held' \in Nat
        <3>1. now' = now + 1 /\ (freeAt' = freeAt \/ freeAt' = now + 1) /\ held' = held
          BY <2>1
        <3> QED
          BY ONLY <1>n, <3>1
      <2> QED
        BY <1>0, <2>1, <2>2 DEF PongTypes, AnsweringClientKept
    <1>4. CASE UNCHANGED vars
      <2>1. UNCHANGED <<now, opts, tick, reader, closed, ended, alive, freeAt, held, skipped>>
        BY <1>4 DEF vars, session, client, history
      <2> QED
        BY <1>0, <2>1 DEF PongTypes, AnsweringClientKept
    <1> QED
      BY <1>1, <1>2, <1>3, <1>4 DEF Next

(* A step that leaves the timers and the ticks alone, and takes no message *)
(* of the client away.                                                     *)
LEMMA PongsKept ==
    ASSUME PongInv, Live, UNCHANGED <<now, opts, timer, nextEvent, deadline, tick, freeAt>>,
           Underway => Underway',
           reader' = reader \/ (reader = "auth" /\ reader' = "read")
    PROVE  LiveInv'
PROOF
    <1>0. LiveInv
      BY DEF PongInv
    <1>1. DueOK' /\ NextOK'
      BY <1>0 DEF LiveInv, DueOK, NextOK
    <1>2. AnswerOK'
      BY <1>0 DEF LiveInv, AnswerOK, Settled
    <1>3. FastOK'
      BY <1>0 DEF LiveInv, FastOK, Fast, Crowded, Settled
    <1> QED
      BY <1>1, <1>2, <1>3 DEF LiveInv

(* Every step keeps the invariant.                                         *)
LEMMA PongStep ==
    ASSUME PongInv, [Next]_vars
    PROVE  PongInv'
PROOF
    <1>0. TimersInv' /\ PongTypes'
      BY TimersStep, PongTypesStep DEF PongInv
    <1>1. ASSUME Live' PROVE LiveInv'
      <2>l. alive' /\ ~closed' /\ ~skipped' /\ opts'.pong > opts'.ping
        BY <1>1 DEF Live
      <2>1. ASSUME NEW g \in Ticks, Handlers(g) PROVE LiveInv'
        <3>1. UNCHANGED <<opts, alive>> /\ (closed => closed') /\ (skipped => skipped')
          BY <2>1, HandlerMoves
        <3>2. Live
          BY <2>l, <3>1 DEF Live
        <3> QED
          BY <1>1, <2>1, <3>2, HandlersKeepPongs
      <2>2. CASE \/ Authenticate \/ Read \/ Handled \/ ReadFails \/ ReaderStopsTimers
                 \/ Answer \/ SendCommand \/ Die
        <3>1. /\ UNCHANGED <<now, opts, tick, skipped, freeAt>>
              /\ (closed => closed') /\ (alive' => alive)
          BY <2>2, ReaderMoves
        <3>2. Live
          BY <2>l, <3>1 DEF Live
        <3>3. CASE Read \/ Handled
          BY <3>2, <3>3, ReaderSchedulesPongs
        <3>4. CASE Authenticate
          <4>1. UNCHANGED <<timers, client>> /\ reader = "auth" /\ reader' = "read"
            BY <2>l, <3>4 DEF Authenticate
          <4>2. Underway => Underway'
            BY <4>1 DEF client, Underway
          <4> QED
            BY <3>1, <3>2, <4>1, <4>2, PongsKept DEF timers
        <3>5. CASE ReadFails
          <4>1. closed'
            <5>1. (closed' = closed /\ closed) \/ closed' = TRUE
              BY <3>5 DEF ReadFails
            <5> QED
              BY <5>1
          <4> QED
            BY <2>l, <4>1
        <3>6. CASE ReaderStopsTimers
          <4>1. closed
            BY <3>6 DEF ReaderStopsTimers, PongInv, PongTypes
          <4> QED
            BY <3>2, <4>1 DEF Live
        <3>7. CASE Answer \/ SendCommand
          <4>1. UNCHANGED <<timers, reader>>
            BY <3>7 DEF Answer, SendCommand, session
          <4>2. Underway'
            BY <3>2, <3>7, AnswersCount DEF PongInv, Live
          <4> QED
            BY <3>1, <3>2, <4>1, <4>2, PongsKept DEF timers
        <3>8. CASE Die
          BY <2>l, <3>8 DEF Die
        <3> QED
          BY <2>2, <3>3, <3>4, <3>5, <3>6, <3>7, <3>8
      <2>3. CASE Advance
        <3>1. Live
          BY <2>3, <2>l DEF Advance, session, client, Live
        <3> QED
          BY <2>3, <3>1, AdvanceKeepsPongs
      <2>4. CASE UNCHANGED vars
        <3>1. UNCHANGED <<now, opts, timer, nextEvent, deadline, tick, freeAt, reader, pings,
                          inbox, alive, closed, skipped>>
          BY <2>4 DEF vars, timers, session, client, history
        <3>2. Live /\ (Underway => Underway')
          BY <2>l, <3>1 DEF Live, Underway
        <3> QED
          BY <3>1, <3>2, PongsKept
      <2> QED
        BY <2>1, <2>2, <2>3, <2>4 DEF Next
    <1> QED
      BY <1>0, <1>1 DEF PongInv

(* A pong timeout goes with pings, and with a client that answers them.    *)
LEMMA PongOptions ==
    ASSUME NEW c \in Configs, opts = Options(c), opts.pong > opts.ping
    PROVE  opts.ping > 0 /\ (opts.kind = "ext" \/ opts.native)
PROOF
    <1>1. PingInterval \in Nat /\ PingInterval > 0 /\ c[1] \in {"base", "ext", "pusher"} /\ c[3] \in Nat
      BY TimersAssumption
    <1>2. CASE c[1] = "pusher"
      <2>1. opts.ping = 0 /\ opts.pong = 0
        BY <1>2 DEF Options, NewOptions, pusherOptions, WithKeepaliveIntervals, WithPingInterval
      <2> QED
        BY <2>1
    <1>3. CASE c[1] # "pusher"
      <2>1. opts.ping = PingInterval
        BY <1>3 DEF Options, NewOptions, sessionOptionsFromProtocol, WithKeepaliveIntervals, WithPongTimeout,
           WithHandshakeMessageDeadline
      <2>2. opts.kind = "ext" \/ opts.native \/ opts.pong = 0
        BY <1>3 DEF Options, NewOptions, sessionOptionsFromProtocol, WithKeepaliveIntervals, WithPongTimeout,
           WithHandshakeMessageDeadline
      <2> QED
        BY <1>1, <2>1, <2>2
    <1> QED
      BY <1>2, <1>3

(* The first ping and the first pong.                                      *)
LEMMA PongStart == Init => PongInv
PROOF
    <1> SUFFICES ASSUME Init PROVE PongInv
      OBVIOUS
    <1>0. TimersInv
      BY TimersStart
    <1>a. PICK c \in Configs, first \in InitialPings(PingInterval) :
             /\ opts = Options(c)
             /\ deadline = [ ping      |-> IF opts.ping > 0 THEN 1 + first ELSE 0,
                             pong      |-> IF opts.ping > 0 /\ opts.pong > 0
                                           THEN 1 + first + opts.pong ELSE 0,
                             handshake |-> opts.handshake,
                             resume    |-> IF opts.resume > 0 THEN 1 + opts.resume ELSE 0,
                             presence  |-> IF opts.presence > 0 THEN 1 + opts.presence ELSE 0 ]
             /\ IF Due(deadline) = {} THEN nextEvent = "none" /\ timer = 0
                ELSE nextEvent = Order[Earliest(deadline)] /\ timer = deadline[nextEvent]
      BY DEF Init
    <1>1. /\ now = 1 /\ tick = [g \in Ticks |-> [at |-> "idle", ev |-> "none"]] /\ freeAt = 1 /\ held = 0
          /\ reader = "auth" /\ ended = "no"
      BY DEF Init
    <1>2. PongTypes
      <2>1. \A g \in Ticks : tick[g].ev = "none"
        BY <1>1
      <2>2. opts.pong > opts.ping => opts.ping > 0 /\ (opts.kind = "ext" \/ opts.native)
        BY <1>a, PongOptions
      <2> QED
        BY <1>1, <2>1, <2>2 DEF PongTypes, AnsweringClientKept
    <1>3. ASSUME Live PROVE LiveInv
      <2>1. opts.pong > opts.ping /\ opts.ping > 0
        BY <1>2, <1>3 DEF Live, PongTypes
      <2>n. first \in Nat /\ opts.ping \in Nat /\ opts.pong \in Nat
        <3>1. first \in Nat
          BY TimersAssumption DEF InitialPings
        <3> QED
          BY <1>0, <3>1 DEF TimersInv, OptionTypes
      <2>2. deadline["ping"] = 1 + first /\ deadline["pong"] = 1 + first + opts.pong
        <3>1. deadline.ping = (IF opts.ping > 0 THEN 1 + first ELSE 0)
              /\ deadline.pong = (IF opts.ping > 0 /\ opts.pong > 0 THEN 1 + first + opts.pong ELSE 0)
          BY <1>a
        <3> QED
          BY <2>1, <2>n, <3>1
      <2>3. DueOK
        BY <1>1, <2>2, <2>n DEF DueOK
      <2>4. PICK d \in [Events -> Nat] : d = deadline
        BY <1>0 DEF TimersInv, TimerTypes
      <2>5. Started(d, nextEvent, timer)
        <3>1. Due(d) # {}
          <4>1. d[Order[1]] > 0 /\ 1 \in DOMAIN Order
            BY <2>2, <2>4, <2>n, EventsAre
          <4> QED
            BY <4>1 DEF Due
        <3> QED
          BY <1>a, <2>4, <3>1, EarliestIs
      <2>6. NextOK
        <3>1. nextEvent = "pong" =>
                 timer = d["pong"] /\ d["pong"] > 0 /\ (d["ping"] > 0 => d["pong"] < d["ping"])
          BY <2>5 DEF Started
        <3>2. d["ping"] > 0
          BY <2>2, <2>4, <2>n
        <3> QED
          BY <2>4, <3>1, <3>2 DEF NextOK
      <2>7. Settled
        BY <2>1, <2>2, <2>n DEF Settled
      <2>8. \A g \in Ticks : tick[g].at = "idle" /\ tick[g].ev = "none"
        BY <1>1
      <2>9. AnswerOK
        BY <2>7, <2>8 DEF AnswerOK
      <2>10. FastOK
        <3>1. ~Crowded
          BY <2>8 DEF Crowded
        <3>2. deadline["pong"] > now
          BY <1>1, <2>1, <2>2, <2>n
        <3> QED
          BY <2>8, <3>1, <3>2 DEF FastOK
      <2> QED
        BY <2>3, <2>6, <2>9, <2>10 DEF LiveInv
    <1> QED
      BY <1>0, <1>2, <1>3 DEF PongInv

(* A client that answers every ping is not disconnected for a missing      *)
(* pong (sendPing, schedulePing, handleNoPong, keepalive and resetPong of  *)
(* node/session.go), for every interval, every timeout longer than the     *)
(* interval and every interleaving of ticks with the reader: only when the *)
(* application kept the reader from its messages for a pong timeout, or    *)
(* when a pong was due before the session was authenticated.               *)
THEOREM AnsweringClientStays == MCSpec => []AnsweringClientKept
PROOF
    <1>1. MCInit => PongInv
      BY PongStart DEF MCInit
    <1>2. PongInv /\ [MCNext]_all => PongInv'
      BY OnePartMoves, PongStep
    <1>3. PongInv => AnsweringClientKept
      BY DEF PongInv, PongTypes
    <1> QED
      BY <1>1, <1>2, <1>3, PTL DEF MCSpec, all
=============================================================================
