--------------------------- MODULE StreamsProofs ---------------------------
(***************************************************************************)
(* A client that keeps its position, for any number of publishers and      *)
(* messages, any limit and TTL of the history and any number of restarts;  *)
(* and the streams a node listens to, for any number of sessions, streams, *)
(* commands and lost connections.                                          *)
(***************************************************************************)
EXTENDS MCStreams, FiniteSetTheorems, SequenceTheorems, TLAPS

-----------------------------------------------------------------------------
(* ReliableStream: memstreams.                                             *)

Stored == [offset : Nat, timestamp : Int, id : Nat]
Memstreams == [offset : Nat, low : Nat, data : Seq(Stored), deadline : Int]
Mail == [id : Nat, epoch : Nat, offset : Nat]

(* The offset of the last entry that was trimmed or expired.               *)
Base(ms) == ms.offset - Len(ms.data)

(* Offsets are numbered through, and the lowest is remembered.             *)
Numbered(ms) ==
    /\ Len(ms.data) <= ms.offset
    /\ \A k \in 1 .. Len(ms.data) : ms.data[k].offset = Base(ms) + k
Proper(ms) ==
    /\ Numbered(ms)
    /\ ms.low = IF ms.data = << >> THEN 0 ELSE Base(ms) + 1

(* A client that asks for what comes after offset o gets m, or is refused. *)
After(ms, o, m) ==
    \/ o <= Base(ms)
    \/ \E k \in 1 .. Len(ms.data) : ms.data[k].id = m /\ ms.data[k].offset > o

(* Message id was stored under offset o.                                   *)
Addressed(ms, o, id) ==
    /\ o \in 1 .. ms.offset
    /\ o <= Base(ms) \/ ms.data[o - Base(ms)].id = id

(* Entries that go at the front take nothing away from that.               *)
LEMMA FrontGoes ==
    ASSUME NEW ms \in Memstreams, NEW rest \in Memstreams, Numbered(ms),
           NEW c \in 0 .. Len(ms.data), Len(rest.data) = Len(ms.data) - c,
           rest.offset = ms.offset,
           \A k \in 1 .. Len(rest.data) : rest.data[k] = ms.data[k + c]
    PROVE  /\ Numbered(rest) /\ Base(rest) = Base(ms) + c
           /\ \A o \in Nat, m \in Nat : After(ms, o, m) => After(rest, o, m)
           /\ \A o \in Nat, m \in Nat : Addressed(ms, o, m) => Addressed(rest, o, m)
PROOF
  <1>1. /\ ms.offset \in Nat /\ Len(ms.data) \in Nat /\ Len(rest.data) \in Nat /\ c \in Nat
        /\ Base(ms) \in Nat /\ Base(rest) = Base(ms) + c
    BY DEF Memstreams, Numbered, Base
  <1>2. \A k \in 1 .. Len(rest.data) : k + c \in 1 .. Len(ms.data)
    BY <1>1
  <1>3. Numbered(rest)
    <2>1. Len(rest.data) <= rest.offset
      BY <1>1 DEF Numbered
    <2>2. ASSUME NEW k \in 1 .. Len(rest.data) PROVE rest.data[k].offset = Base(rest) + k
      <3>1. rest.data[k] = ms.data[k + c] /\ ms.data[k + c].offset = Base(ms) + (k + c)
        BY <1>2 DEF Numbered
      <3> QED
        BY <1>1, <3>1
    <2> QED
      BY <2>1, <2>2 DEF Numbered
  <1>4. ASSUME NEW o \in Nat, NEW m \in Nat, After(ms, o, m)
        PROVE  After(rest, o, m)
    <2>1. CASE o <= Base(ms)
      BY <1>1, <2>1 DEF After
    <2>2. ASSUME NEW k \in 1 .. Len(ms.data), ms.data[k].id = m, ms.data[k].offset > o
          PROVE  After(rest, o, m)
      <3>1. ms.data[k].offset = Base(ms) + k
        BY DEF Numbered
      <3>2. CASE k <= c
        BY <1>1, <2>2, <3>1, <3>2 DEF After
      <3>3. CASE k > c
        <4>1. k - c \in 1 .. Len(rest.data) /\ (k - c) + c = k
          BY <1>1, <3>3
        <4> QED
          BY <2>2, <4>1 DEF After
      <3> QED
        BY <1>1, <3>2, <3>3
    <2> QED
      BY <1>4, <2>1, <2>2 DEF After
  <1>5. ASSUME NEW o \in Nat, NEW m \in Nat, Addressed(ms, o, m)
        PROVE  Addressed(rest, o, m)
    <2>1. CASE o <= Base(rest)
      BY <1>5, <2>1 DEF Addressed
    <2>2. CASE o > Base(rest)
      <3>1. o - Base(rest) \in 1 .. Len(rest.data) /\ (o - Base(rest)) + c = o - Base(ms)
        <4>1. o \in Nat /\ o <= ms.offset /\ Len(rest.data) = ms.offset - Base(rest)
          BY <1>1, <1>5 DEF Addressed, Base
        <4> QED
          BY ONLY <1>1, <2>2, <4>1
      <3>2. ms.data[o - Base(ms)].id = m
        BY <1>1, <1>5, <2>2 DEF Addressed
      <3> QED
        BY <1>5, <3>1, <3>2 DEF Addressed
    <2> QED
      BY <1>1, <2>1, <2>2
  <1> QED
    BY <1>1, <1>3, <1>4, <1>5

(* An entry at the end.                                                    *)
LEMMA EndComes ==
    ASSUME NEW ms \in Memstreams, NEW more \in Memstreams, Numbered(ms),
           NEW entry \in Stored, entry.offset = ms.offset + 1,
           more.data = Append(ms.data, entry), more.offset = ms.offset + 1
    PROVE  /\ Numbered(more) /\ Base(more) = Base(ms)
           /\ \A o \in Nat, m \in Nat : After(ms, o, m) => After(more, o, m)
           /\ \A o \in Nat, m \in Nat : Addressed(ms, o, m) => Addressed(more, o, m)
           /\ \A o \in 0 .. ms.offset : After(more, o, entry.id)
           /\ Addressed(more, more.offset, entry.id)
PROOF
  <1>1. /\ ms.offset \in Nat /\ Len(ms.data) \in Nat /\ ms.data \in Seq(Stored)
        /\ Len(more.data) = Len(ms.data) + 1 /\ Base(ms) \in Nat /\ Base(more) = Base(ms)
    BY DEF Memstreams, Numbered, Base
  <1>2. /\ \A k \in 1 .. Len(ms.data) : more.data[k] = ms.data[k]
        /\ more.data[Len(ms.data) + 1] = entry
    BY <1>1
  <1>3. Numbered(more)
    <2>1. Len(more.data) <= more.offset
      BY <1>1 DEF Numbered
    <2>2. Base(ms) + (Len(ms.data) + 1) = ms.offset + 1
      BY <1>1 DEF Base
    <2>3. ASSUME NEW k \in 1 .. Len(more.data) PROVE more.data[k].offset = Base(more) + k
      <3>1. CASE k \in 1 .. Len(ms.data)
        BY <1>1, <1>2, <3>1 DEF Numbered
      <3>2. CASE k = Len(ms.data) + 1
        BY <1>1, <1>2, <2>2, <3>2
      <3> QED
        BY <1>1, <3>1, <3>2
    <2> QED
      BY <2>1, <2>3 DEF Numbered
  <1>4. \A k \in 1 .. Len(ms.data) : k \in 1 .. Len(more.data)
    BY <1>1
  <1>5. \A o \in Nat, m \in Nat : After(ms, o, m) => After(more, o, m)
    BY <1>1, <1>2, <1>4 DEF After
  <1>6. ASSUME NEW o \in Nat, NEW m \in Nat, Addressed(ms, o, m) PROVE Addressed(more, o, m)
    <2>1. CASE o <= Base(ms)
      BY <1>1, <1>6, <2>1 DEF Addressed
    <2>2. CASE o > Base(ms)
      <3>1. o - Base(ms) \in 1 .. Len(ms.data)
        BY SMTT(30), <1>1, <1>6, <2>2 DEF Addressed, Base
      <3> QED
        BY <1>1, <1>2, <1>6, <2>2, <3>1 DEF Addressed
    <2> QED
      BY <1>1, <2>1, <2>2
  <1>7. Len(ms.data) + 1 \in 1 .. Len(more.data)
    BY <1>1
  <1>8. \A o \in 0 .. ms.offset : After(more, o, entry.id)
    BY <1>1, <1>2, <1>7 DEF After
  <1>9. more.offset - Base(more) = Len(ms.data) + 1
    BY <1>1 DEF Base
  <1>10. Addressed(more, more.offset, entry.id)
    BY <1>1, <1>2, <1>9 DEF Addressed
  <1> QED
    BY <1>1, <1>3, <1>5, <1>6, <1>8, <1>10

(* appendEntry numbers on, and takes from no client what it can ask for.   *)
LEMMA AppendKeeps ==
    ASSUME NEW ms \in Memstreams, Proper(ms), now \in Nat,
           NEW entry \in Stored, entry.offset = ms.offset + 1,
           NEW new, new = appendEntry(ms, entry)
    PROVE  /\ new \in Memstreams /\ Proper(new) /\ new.offset = ms.offset + 1
           /\ \A o \in Nat, m \in Nat : After(ms, o, m) => After(new, o, m)
           /\ \A o \in Nat, m \in Nat : Addressed(ms, o, m) => Addressed(new, o, m)
           /\ \A o \in 0 .. ms.offset : After(new, o, entry.id)
           /\ Addressed(new, new.offset, entry.id)
PROOF
  <1>1. PICK all \in Seq(Stored) : all = Append(ms.data, entry)
    <2>1. Append(ms.data, entry) \in Seq(Stored)
      BY DEF Memstreams
    <2> QED
      BY <2>1
  <1>2. /\ ms.data \in Seq(Stored) /\ Len(ms.data) \in Nat /\ Len(all) = Len(ms.data) + 1
        /\ ms.offset \in Nat /\ ms.low \in Nat
    BY <1>1 DEF Memstreams
  <1>3. PICK c \in {0, 1} : c = IF Len(all) > Limit THEN 1 ELSE 0
    OBVIOUS
  <1>4. PICK kept \in Seq(Stored) : kept = IF Len(all) > Limit THEN Tail(all) ELSE all
    <2>1. Tail(all) \in Seq(Stored)
      BY <1>1, <1>2
    <2> QED
      BY <2>1
  <1>5. /\ Len(kept) = Len(all) - c /\ Len(kept) \in Nat \ {0}
        /\ \A k \in 1 .. Len(kept) : kept[k] = all[k + c]
    BY <1>2, <1>3, <1>4, ReliableStreamAssumption
  <1>6. PICK more \in Memstreams : more.data = all /\ more.offset = ms.offset + 1
    <2>1. [offset |-> ms.offset + 1, low |-> 0, data |-> all, deadline |-> 0] \in Memstreams
      BY <1>2 DEF Memstreams
    <2> QED
      BY <2>1
  <1>7. /\ Numbered(more) /\ Base(more) = Base(ms)
        /\ \A o \in Nat, m \in Nat : After(ms, o, m) => After(more, o, m)
        /\ \A o \in Nat, m \in Nat : Addressed(ms, o, m) => Addressed(more, o, m)
        /\ \A o \in 0 .. ms.offset : After(more, o, entry.id)
        /\ Addressed(more, more.offset, entry.id)
    BY <1>1, <1>6, EndComes DEF Proper
  <1>8. /\ new.offset = ms.offset + 1 /\ new.data = kept
        /\ new.low = IF Len(all) > Limit \/ ms.low = 0 THEN kept[1].offset ELSE ms.low
    BY <1>1, <1>4 DEF appendEntry
  <1>9. kept[1].offset = more.offset - Len(kept) + 1 /\ kept[1].offset \in Nat
    <2>1. 1 \in 1 .. Len(kept) /\ 1 + c \in 1 .. Len(all)
      BY <1>2, <1>3, <1>5
    <2>2. kept[1] = more.data[1 + c] /\ more.data[1 + c].offset = Base(more) + (1 + c)
      BY <1>5, <1>6, <1>7, <2>1 DEF Numbered
    <2>3. PICK b \in Nat : b = Base(more) /\ more.offset = b + Len(all)
      BY <1>2, <1>6, <1>7 DEF Base, Numbered
    <2>4. kept[1].offset = b + (1 + c)
      BY <2>2, <2>3
    <2>5. PICK n \in Nat : n = Len(all)
      BY <1>2
    <2>6. Len(kept) = n - c /\ more.offset = b + n
      BY <1>5, <2>3, <2>5
    <2>7. b + (1 + c) = (b + n) - (n - c) + 1 /\ b + (1 + c) \in Nat
      BY <1>3
    <2> QED
      BY <2>4, <2>6, <2>7
  <1>10. new \in Memstreams
    <2>1. now + TTL * KeepFactor \in Int
      BY ReliableStreamAssumption
    <2>2. PICK low \in Nat : low = IF Len(all) > Limit \/ ms.low = 0 THEN kept[1].offset ELSE ms.low
      BY <1>2, <1>9
    <2>3. new = [offset |-> ms.offset + 1, low |-> low, data |-> kept,
                 deadline |-> now + TTL * KeepFactor]
      BY <1>1, <1>4, <2>2 DEF appendEntry
    <2> QED
      BY <1>2, <2>1, <2>3 DEF Memstreams
  <1>11. /\ Numbered(new) /\ Base(new) = Base(more) + c
         /\ \A o \in Nat, m \in Nat : After(more, o, m) => After(new, o, m)
         /\ \A o \in Nat, m \in Nat : Addressed(more, o, m) => Addressed(new, o, m)
    <2>1. c \in 0 .. Len(more.data)
      BY <1>2, <1>3, <1>6
    <2> QED
      BY <1>5, <1>6, <1>7, <1>8, <1>10, <2>1, FrontGoes
  <1>12. Proper(new)
    <2>1. new.data # << >>
      BY <1>5, <1>8
    <2>2. new.low = Base(new) + 1
      <3>1. CASE Len(all) > Limit \/ ms.low = 0
        BY <1>2, <1>5, <1>6, <1>8, <1>9, <3>1 DEF Base
      <3>2. CASE ~(Len(all) > Limit \/ ms.low = 0)
        <4>1. ms.data # << >> /\ ms.low = Base(ms) + 1 /\ c = 0
          BY <1>3, <3>2 DEF Proper
        <4> QED
          BY <1>2, <1>7, <1>8, <1>11, <3>2, <4>1 DEF Base
      <3> QED
        BY <3>1, <3>2
    <2> QED
      BY <1>11, <2>1, <2>2 DEF Proper
  <1>13. entry.id \in Nat /\ more.offset \in Nat
    BY <1>2, <1>6 DEF Stored
  <1>14. \A o \in 0 .. ms.offset : After(new, o, entry.id)
    BY <1>2, <1>7, <1>11, <1>13
  <1>15. Addressed(new, new.offset, entry.id)
    BY <1>6, <1>7, <1>8, <1>11, <1>13
  <1> QED
    BY <1>7, <1>8, <1>10, <1>11, <1>12, <1>14, <1>15

(* The end of a sequence.                                                  *)
LEMMA SuffixIs ==
    ASSUME NEW S, NEW q \in Seq(S), NEW c \in 0 .. Len(q), NEW rest,
           rest = SubSeq(q, c + 1, Len(q))
    PROVE  /\ rest \in Seq(S) /\ Len(rest) = Len(q) - c
           /\ \A k \in 1 .. Len(rest) : rest[k] = q[k + c]
PROOF
  <1>1. Len(q) \in Nat /\ c \in Nat /\ \A i \in 1 .. Len(q) : q[i] \in S
    OBVIOUS
  <1>2. PICK from \in Nat : from = c + 1
    BY <1>1
  <1>3. \A i \in from .. Len(q) : q[i] \in S
    BY <1>1, <1>2
  <1>4. /\ rest \in Seq(S) /\ Len(rest) = (IF from <= Len(q) THEN Len(q) - from + 1 ELSE 0)
        /\ \A i \in 1 .. Len(q) - from + 1 : rest[i] = q[from + i - 1]
    BY <1>1, <1>2, <1>3, SubSeqProperties
  <1>5. Len(rest) = Len(q) - c
    BY <1>1, <1>2, <1>4
  <1>6. \A k \in 1 .. Len(rest) : k \in 1 .. Len(q) - from + 1 /\ from + k - 1 = k + c
    BY <1>1, <1>2, <1>5
  <1> QED
    BY <1>4, <1>5, <1>6

(* expire keeps the numbering, and what a client gets or is refused.       *)
LEMMA ExpireKeeps ==
    ASSUME NEW ms \in Memstreams, Proper(ms), NEW new, new = expire(ms)
    PROVE  /\ new \in Memstreams /\ Proper(new) /\ new.offset = ms.offset
           /\ \A o \in Nat, m \in Nat : After(ms, o, m) => After(new, o, m)
           /\ \A o \in Nat, m \in Nat : Addressed(ms, o, m) => Addressed(new, o, m)
PROOF
  <1>1. ms.data \in Seq(Stored) /\ Len(ms.data) \in Nat /\ ms.offset \in Nat /\ Base(ms) \in Nat
    BY DEF Memstreams, Proper, Numbered, Base
  <1>2. PICK old : old = {k \in 1 .. Len(ms.data) : \A j \in 1 .. k : ms.data[j].timestamp < now - TTL}
    OBVIOUS
  <1>3. PICK c \in 0 .. Len(ms.data) : c = Cardinality(old)
    <2>1. IsFiniteSet(1 .. Len(ms.data)) /\ Cardinality(1 .. Len(ms.data)) = Len(ms.data)
      <3>1. PICK n \in Nat : n = Len(ms.data)
        BY <1>1
      <3>2. IsFiniteSet(1 .. n) /\ Cardinality(1 .. n) = (IF 1 > n THEN 0 ELSE n - 1 + 1)
        BY FS_Interval
      <3> QED
        BY <3>1, <3>2
    <2>2. old \subseteq 1 .. Len(ms.data)
      BY <1>2
    <2>3. IsFiniteSet(old) /\ Cardinality(old) <= Len(ms.data)
      BY <2>1, <2>2, FS_Subset
    <2>4. Cardinality(old) \in Nat
      BY <2>3, FS_CardinalityType
    <2> QED
      BY <1>1, <2>3, <2>4
  <1>4. PICK kept : kept = SubSeq(ms.data, c + 1, Len(ms.data))
    OBVIOUS
  <1>5. /\ kept \in Seq(Stored) /\ Len(kept) = Len(ms.data) - c
        /\ \A k \in 1 .. Len(kept) : kept[k] = ms.data[k + c]
    <2>1. PICK q \in Seq(Stored) : q = ms.data
      BY <1>1
    <2>2. c \in 0 .. Len(q) /\ kept = SubSeq(q, c + 1, Len(q))
      BY <1>3, <1>4, <2>1
    <2>3. /\ kept \in Seq(Stored) /\ Len(kept) = Len(q) - c
          /\ \A k \in 1 .. Len(kept) : kept[k] = q[k + c]
      <3>1. q \in Seq(Stored)
        BY <2>1
      <3> QED
        BY ONLY <2>2, <3>1, SuffixIs
    <2> QED
      BY <2>1, <2>3, Zenon
  <1>6. PICK low \in Nat : low = IF kept = << >> THEN 0 ELSE kept[1].offset
    <2>1. kept # << >> => kept[1] \in Stored
      BY <1>5
    <2> QED
      BY <2>1 DEF Stored
  <1>7. new = [ms EXCEPT !.data = kept, !.low = low]
    BY <1>2, <1>3, <1>4, <1>6 DEF expire
  <1>8. new \in Memstreams
    BY <1>5, <1>7 DEF Memstreams
  <1>9. new.data = kept /\ new.low = low /\ new.offset = ms.offset
    BY <1>7 DEF Memstreams
  <1>10. /\ Numbered(new)
         /\ \A o \in Nat, m \in Nat : After(ms, o, m) => After(new, o, m)
         /\ \A o \in Nat, m \in Nat : Addressed(ms, o, m) => Addressed(new, o, m)
    BY <1>5, <1>8, <1>9, FrontGoes DEF Proper
  <1>11. kept # << >> => 1 \in 1 .. Len(kept)
    BY <1>5
  <1>12. Proper(new)
    BY <1>6, <1>9, <1>10, <1>11 DEF Proper, Numbered
  <1> QED
    BY <1>8, <1>9, <1>10, <1>12

-----------------------------------------------------------------------------
(* ReliableStream: the inductive invariant.  Gaps that are explained leave *)
(* nothing to be shown.                                                    *)

Excused == overtaken \/ recreated

Pubs == [at : {"idle", "add", "broadcast"}, ref : Nat, id : Nat, offset : Nat]
Positions == [epoch : Nat, offset : Nat]

HistoryTypes ==
    /\ now \in Nat /\ sent \in Nat /\ epoch \in Nat \ {0} /\ stream \in Nat
    /\ heap \in Seq(Memstreams)
    /\ pub \in [Publishers -> Pubs]
    /\ inbox \in Seq(Mail) /\ position \in Positions

(* There is one memstream at most, and everybody means that one.           *)
OneStream ==
    /\ Len(heap) <= 1
    /\ heap # << >> => Proper(heap[1])
    /\ stream # 0 => stream = 1 /\ heap # << >>
    /\ \A p \in Publishers : pub[p].at # "idle" =>
          pub[p].ref = 1 /\ heap # << >> /\ pub[p].id # 0
    /\ \A p \in Publishers : pub[p].at = "broadcast" =>
          Addressed(heap[1], pub[p].offset, pub[p].id)

ClientOK ==
    /\ live <=> online
    /\ ~online => inbox = << >> /\ request = "none"
    /\ request # "none" => \A k \in 1 .. Len(inbox) : inbox[k].offset = 0
    /\ request = "filter" => found = 1 /\ position.epoch = epoch

(* Offsets of this epoch are offsets of the memstream.                     *)
PlacesOK ==
    /\ position.epoch <= epoch
    /\ position.epoch = epoch => heap # << >> /\ position.offset <= heap[1].offset
    /\ \A k \in 1 .. Len(inbox) : inbox[k].offset # 0 =>
          inbox[k].epoch = epoch /\ heap # << >> /\ inbox[k].offset <= heap[1].offset

(* What the client must not miss, and what it will be sent soon.           *)
Owed == required \cup {pub[p].id : p \in {q \in Publishers : pub[q].at = "broadcast"}}

Mailed(i, m) == \E j \in 1 .. i : inbox[j].id = m

(* From the position that it has, and from those that it will have, the    *)
(* client can ask for what it has not got.                                 *)
PositionOK ==
    position.epoch = epoch =>
        \A m \in Owed : m \in seen \/ After(heap[1], position.offset, m)
InboxOK ==
    \A i \in 1 .. Len(inbox) : inbox[i].offset # 0 =>
        \A m \in Owed : m \in seen \/ Mailed(i, m) \/ After(heap[1], inbox[i].offset, m)

(* Without a request, it gets everything by waiting.                       *)
WaitingOK ==
    online /\ request = "none" => \A m \in required : m \in seen \/ Mailed(Len(inbox), m)

HistoryOK ==
    /\ HistoryTypes /\ OneStream /\ ClientOK /\ PlacesOK
    /\ required \subseteq Nat \ {0}
    /\ PositionOK /\ InboxOK /\ WaitingOK

HistoryInvariant == Excused \/ HistoryOK

(* For a single item of mail.                                              *)
PlaceOK(i) ==
    inbox[i].offset # 0 =>
        inbox[i].epoch = epoch /\ heap # << >> /\ inbox[i].offset <= heap[1].offset
MailOK(i) ==
    inbox[i].offset # 0 =>
        \A m \in Owed : m \in seen \/ Mailed(i, m) \/ After(heap[1], inbox[i].offset, m)

(* A sequence of one element.                                              *)
LEMMA SingleIs ==
    ASSUME NEW S, NEW q \in Seq(S), q # << >>, Len(q) <= 1
    PROVE  Len(q) = 1 /\ q[1] \in S
PROOF
  <1>1. Len(q) \in Nat /\ Len(q) # 0
    OBVIOUS
  <1>2. Len(q) = 1
    BY <1>1
  <1> QED
    BY <1>2

(* The number of a message that a client is owed.                          *)
LEMMA OwedIsNumber == HistoryOK => Owed \subseteq Nat \ {0}
PROOF
  <1> SUFFICES ASSUME HistoryOK, NEW m \in Owed PROVE m \in Nat \ {0}
    OBVIOUS
  <1>1. CASE m \in required
    BY <1>1 DEF HistoryOK
  <1>2. ASSUME NEW p \in Publishers, pub[p].at = "broadcast", m = pub[p].id PROVE m \in Nat \ {0}
    BY <1>2 DEF HistoryOK, HistoryTypes, Pubs, OneStream
  <1> QED
    BY <1>1, <1>2 DEF Owed

(* Mail that is there stays as it is when more comes after it.             *)
LEMMA MailKept ==
    ASSUME HistoryOK, UNCHANGED <<epoch, heap, seen>>, Owed' \subseteq Owed,
           NEW i \in 1 .. Len(inbox), \A j \in 1 .. i : inbox'[j] = inbox[j]
    PROVE  PlaceOK(i)' /\ MailOK(i)'
PROOF
  <1>1. i \in 1 .. i /\ Len(inbox) \in Nat
    BY DEF HistoryOK, HistoryTypes
  <1>2. PlaceOK(i) /\ MailOK(i)
    BY DEF HistoryOK, PlacesOK, InboxOK, PlaceOK, MailOK
  <1>3. inbox'[i] = inbox[i]
    BY <1>1
  <1>4. \A m : Mailed(i, m)' <=> Mailed(i, m)
    BY DEF Mailed
  <1> QED
    BY <1>2, <1>3, <1>4 DEF PlaceOK, MailOK

(* One item of mail without a position more, or none.                      *)
LEMMA PlainMail ==
    ASSUME HistoryOK, UNCHANGED <<epoch, heap, seen, position>>, Owed' \subseteq Owed,
           inbox' = inbox \/ \E x \in Mail : x.offset = 0 /\ inbox' = Append(inbox, x)
    PROVE  /\ inbox' \in Seq(Mail) /\ PlacesOK' /\ PositionOK' /\ InboxOK'
           /\ \A m : Mailed(Len(inbox), m) => Mailed(Len(inbox), m)'
           /\ (\A k \in 1 .. Len(inbox) : inbox[k].offset = 0) =>
                 \A k \in 1 .. Len(inbox') : inbox'[k].offset = 0
           /\ Len(inbox') \in Nat /\ Len(inbox') >= Len(inbox)
PROOF
  <1>1. inbox \in Seq(Mail) /\ Len(inbox) \in Nat
    BY DEF HistoryOK, HistoryTypes
  <1>2. /\ inbox' \in Seq(Mail) /\ Len(inbox') \in Nat /\ Len(inbox') >= Len(inbox)
        /\ \A j \in 1 .. Len(inbox) : inbox'[j] = inbox[j]
        /\ \A j \in 1 .. Len(inbox') : j \in 1 .. Len(inbox) \/ inbox'[j].offset = 0
    BY <1>1
  <1>3. PositionOK'
    BY DEF HistoryOK, PositionOK
  <1>4. ASSUME NEW i \in 1 .. Len(inbox') PROVE PlaceOK(i)' /\ MailOK(i)'
    <2>1. CASE i \in 1 .. Len(inbox)
      <3>1. \A j \in 1 .. i : j \in 1 .. Len(inbox)
        BY <1>1, <2>1
      <3> QED
        BY <1>2, <2>1, <3>1, MailKept
    <2>2. CASE inbox'[i].offset = 0
      BY <2>2 DEF PlaceOK, MailOK
    <2> QED
      BY <1>2, <2>1, <2>2
  <1>5. PlacesOK' /\ InboxOK'
    BY <1>4 DEF HistoryOK, PlacesOK, PlaceOK, InboxOK, MailOK
  <1>6. \A j \in 1 .. Len(inbox) : j \in 1 .. Len(inbox')
    BY <1>1, <1>2
  <1>7. \A m : Mailed(Len(inbox), m) => Mailed(Len(inbox), m)'
    BY <1>2, <1>6 DEF Mailed
  <1> QED
    BY <1>2, <1>3, <1>5, <1>7

(* The memstream grows at its end or loses entries at its front.           *)
LEMMA MemstreamChanges ==
    ASSUME HistoryOK, heap # << >>, NEW ms, ms = heap[1],
           NEW new \in Memstreams, heap' = [heap EXCEPT ![1] = new],
           Proper(new), ms.offset <= new.offset,
           \A o \in Nat, m \in Nat : After(ms, o, m) => After(new, o, m),
           UNCHANGED <<epoch, inbox, position, seen>>,
           \A m \in Owed' : m \in Owed \/ \A o \in 0 .. ms.offset : After(new, o, m)
    PROVE  /\ heap' \in Seq(Memstreams) /\ Len(heap') = 1 /\ heap' # << >> /\ heap'[1] = new
           /\ PlacesOK' /\ PositionOK' /\ InboxOK'
PROOF
  <1>1. heap \in Seq(Memstreams) /\ Len(heap) = 1 /\ ms \in Memstreams
    <2>1. heap \in Seq(Memstreams) /\ Len(heap) <= 1
      BY DEF HistoryOK, HistoryTypes, OneStream
    <2> QED
      BY <2>1, SingleIs
  <1>2. heap' \in Seq(Memstreams) /\ Len(heap') = 1 /\ heap' # << >> /\ heap'[1] = new
    BY <1>1
  <1>3. ms.offset \in Nat /\ new.offset \in Nat
    BY <1>1 DEF Memstreams
  <1>4. /\ position.offset \in Nat
        /\ \A i \in 1 .. Len(inbox) : inbox[i].offset \in Nat
    <2>1. position \in Positions /\ inbox \in Seq(Mail)
      BY DEF HistoryOK, HistoryTypes
    <2>2. \A i \in 1 .. Len(inbox) : inbox[i] \in Mail
      BY <2>1
    <2> QED
      BY <2>1, <2>2 DEF Positions, Mail
  <1>5. Owed \subseteq Nat
    BY OwedIsNumber
  <1>6. ASSUME NEW o \in Nat, o <= ms.offset, NEW m \in Owed', m \in Owed => After(ms, o, m)
        PROVE  After(new, o, m)
    <2>1. o \in 0 .. ms.offset
      BY <1>3, <1>6
    <2> QED
      BY <1>5, <1>6, <2>1
  <1>7. PlacesOK'
    BY <1>2, <1>3, <1>4 DEF HistoryOK, PlacesOK
  <1>8. PositionOK'
    <2> SUFFICES ASSUME position.epoch = epoch, NEW m \in Owed', m \notin seen
                 PROVE  After(new, position.offset, m)
      BY <1>2 DEF PositionOK
    <2>1. position.offset <= ms.offset
      BY DEF HistoryOK, PlacesOK
    <2>2. m \in Owed => After(ms, position.offset, m)
      BY DEF HistoryOK, PositionOK
    <2> QED
      BY <1>4, <1>6, <2>1, <2>2
  <1>9. InboxOK'
    <2> SUFFICES ASSUME NEW i \in 1 .. Len(inbox), inbox[i].offset # 0, NEW m \in Owed', m \notin seen,
                        ~Mailed(i, m)
                 PROVE  After(new, inbox[i].offset, m)
      BY <1>2 DEF InboxOK, Mailed
    <2>1. inbox[i].offset <= ms.offset
      BY DEF HistoryOK, PlacesOK
    <2>2. m \in Owed => After(ms, inbox[i].offset, m)
      BY DEF HistoryOK, InboxOK
    <2> QED
      BY <1>4, <1>6, <2>1, <2>2
  <1> QED
    BY <1>2, <1>7, <1>8, <1>9

(* A publisher that has nothing under way.                                 *)
LEMMA IdleIs == Idle \in Pubs /\ Idle.at = "idle"
PROOF
  <1>1. Idle \in Pubs
    BY DEF Idle, Pubs
  <1>2. Idle.at = "idle"
    BY DEF Idle
  <1> QED
    BY <1>1, <1>2

(* A publisher gets the memstream.                                         *)
LEMMA StreamIsGot ==
    ASSUME HistoryOK, NEW p \in Publishers, GetStream(p), ~Excused'
    PROVE  HistoryOK'
PROOF
  <1>1. /\ pub[p].at = "idle" /\ sent' = sent + 1
        /\ UNCHANGED <<now, epoch, live, request, found, inbox, online, position, seen, required>>
        /\ pub' = [pub EXCEPT ![p] = [Idle EXCEPT !.at = "add", !.ref = stream', !.id = sent + 1]]
    BY DEF GetStream, client
  <1>2. HistoryTypes /\ OneStream /\ PlacesOK
    BY DEF HistoryOK
  <1>3. /\ heap' \in Seq(Memstreams) /\ Len(heap') = 1 /\ heap' # << >> /\ stream' = 1
        /\ Proper(heap'[1]) /\ (heap # << >> => heap' = heap)
    <2>1. CASE stream # 0
      <3>1. heap' = heap /\ stream' = stream
        BY <2>1 DEF GetStream
      <3>2. /\ heap \in Seq(Memstreams) /\ Len(heap) <= 1 /\ heap # << >> /\ stream = 1
            /\ Proper(heap[1])
        BY <1>2, <2>1 DEF HistoryTypes, OneStream
      <3>3. Len(heap) = 1
        BY <3>2, SingleIs
      <3> QED
        BY <3>1, <3>2, <3>3
    <2>2. CASE stream = 0
      <3>1. heap = << >>
        BY <2>2 DEF GetStream, Excused
      <3>2. PICK new \in Memstreams : new = NewMemstream /\ Proper(new)
        <4>1. NewMemstream \in Memstreams
          BY DEF NewMemstream, Memstreams
        <4>2. Len(NewMemstream.data) = 0 /\ NewMemstream.data = << >> /\ NewMemstream.offset = 0
              /\ NewMemstream.low = 0
          BY DEF NewMemstream
        <4>3. Proper(NewMemstream)
          BY <4>2 DEF Proper, Numbered
        <4> QED
          BY <4>1, <4>3
      <3>3. heap' = Append(heap, new) /\ stream' = Len(heap) + 1
        BY <2>2, <3>2 DEF GetStream
      <3>4. heap \in Seq(Memstreams) /\ Len(heap) = 0
        BY <1>2, <3>1 DEF HistoryTypes
      <3> QED
        BY <3>1, <3>2, <3>3, <3>4
    <2> QED
      BY <2>1, <2>2
  <1>4. PICK idle \in Pubs : idle = Idle
    BY DEF Idle, Pubs
  <1>5. PICK r \in Pubs : r = [idle EXCEPT !.at = "add", !.ref = stream', !.id = sent + 1]
    <2>1. sent + 1 \in Nat /\ stream' \in Nat
      BY <1>2, <1>3 DEF HistoryTypes
    <2>2. [idle EXCEPT !.at = "add", !.ref = stream', !.id = sent + 1] \in Pubs
      BY <2>1 DEF Pubs
    <2> QED
      BY <2>2
  <1>6. /\ pub' \in [Publishers -> Pubs] /\ pub'[p] = r
        /\ \A q \in Publishers \ {p} : pub'[q] = pub[q]
    BY <1>1, <1>2, <1>4, <1>5 DEF HistoryTypes
  <1>7. r.at = "add" /\ r.ref = 1 /\ r.id # 0
    <2>1. r.at = "add" /\ r.ref = stream' /\ r.id = sent + 1
      BY <1>5 DEF Pubs
    <2> QED
      BY <1>2, <1>3, <2>1 DEF HistoryTypes
  <1>8. HistoryTypes'
    BY <1>1, <1>2, <1>3, <1>6 DEF HistoryTypes
  <1>9. OneStream'
    BY <1>2, <1>3, <1>6, <1>7 DEF OneStream
  <1>10. Owed' = Owed
    BY <1>1, <1>6, <1>7 DEF Owed
  <1>11. ClientOK' /\ WaitingOK'
    BY <1>1 DEF HistoryOK, ClientOK, WaitingOK, Mailed
  <1>12. PlacesOK'
    BY <1>1, <1>2, <1>3 DEF PlacesOK
  <1>13. PositionOK' /\ InboxOK'
    BY <1>1, <1>2, <1>3, <1>10 DEF HistoryOK, PlacesOK, PositionOK, InboxOK, Mailed
  <1> QED
    BY <1>1, <1>8, <1>9, <1>11, <1>12, <1>13 DEF HistoryOK

(* A publisher adds its entry, and the hub sends it.                       *)
LEMMA EntryIsAdded ==
    ASSUME HistoryOK, NEW p \in Publishers, AddEntry(p), ~Excused'
    PROVE  HistoryOK'
PROOF
  <1>1. /\ pub[p].at = "add" /\ pub[p].ref = 1 /\ heap # << >> /\ pub[p].id # 0
        /\ UNCHANGED <<now, sent, epoch, stream, live, request, found, inbox, online, position, seen,
                       required>>
    BY DEF AddEntry, client, history, HistoryOK, OneStream
  <1>2. HistoryTypes /\ OneStream
    BY DEF HistoryOK
  <1>3. PICK ms \in Memstreams : ms = heap[1]
    BY <1>1, <1>2 DEF HistoryTypes
  <1>4. pub[p] \in Pubs /\ ms.offset \in Nat /\ now \in Nat
    BY <1>2, <1>3 DEF HistoryTypes, Memstreams
  <1>5. PICK entry \in Stored : entry = [offset |-> ms.offset + 1, timestamp |-> now, id |-> pub[p].id]
    <2>1. [offset |-> ms.offset + 1, timestamp |-> now, id |-> pub[p].id] \in Stored
      BY <1>4 DEF Stored, Pubs
    <2> QED
      BY <2>1
  <1>6. entry.offset = ms.offset + 1 /\ entry.id = pub[p].id
    BY <1>5
  <1>7. PICK new : new = appendEntry(ms, entry)
    OBVIOUS
  <1>8. Proper(ms)
    BY <1>1, <1>2, <1>3 DEF OneStream
  <1>9. /\ new \in Memstreams /\ Proper(new) /\ new.offset = ms.offset + 1
        /\ \A o \in Nat, m \in Nat : After(ms, o, m) => After(new, o, m)
        /\ \A o \in Nat, m \in Nat : Addressed(ms, o, m) => Addressed(new, o, m)
        /\ \A o \in 0 .. ms.offset : After(new, o, entry.id)
        /\ Addressed(new, new.offset, entry.id)
    BY <1>4, <1>6, <1>7, <1>8, AppendKeeps
  <1>10. /\ heap' = [heap EXCEPT ![1] = new]
         /\ pub' = [pub EXCEPT ![p].at = "broadcast", ![p].offset = entry.offset]
    BY <1>1, <1>3, <1>5, <1>7 DEF AddEntry
  <1>11. PICK r \in Pubs : r = [pub[p] EXCEPT !.at = "broadcast", !.offset = ms.offset + 1]
    <2>1. PICK o \in Nat : o = ms.offset + 1
      BY <1>4
    <2>2. [pub[p] EXCEPT !.at = "broadcast", !.offset = o] \in Pubs
      BY <1>4 DEF Pubs
    <2> QED
      BY <2>1, <2>2
  <1>12. r.at = "broadcast" /\ r.ref = 1 /\ r.id = pub[p].id /\ r.offset = ms.offset + 1
    BY <1>1, <1>4, <1>11 DEF Pubs
  <1>13. /\ pub' \in [Publishers -> Pubs] /\ pub'[p] = r
         /\ \A q \in Publishers \ {p} : pub'[q] = pub[q]
    BY <1>2, <1>6, <1>10, <1>11 DEF HistoryTypes
  <1>14. \A m \in Owed' : m \in Owed \/ m = pub[p].id
    BY <1>1, <1>12, <1>13 DEF Owed
  <1>15. ms.offset <= new.offset
    BY <1>4, <1>9
  <1>16. /\ heap' \in Seq(Memstreams) /\ Len(heap') = 1 /\ heap' # << >> /\ heap'[1] = new
         /\ PlacesOK' /\ PositionOK' /\ InboxOK'
    BY <1>1, <1>3, <1>6, <1>9, <1>10, <1>14, <1>15, MemstreamChanges
  <1>17. HistoryTypes'
    BY <1>1, <1>2, <1>13, <1>16 DEF HistoryTypes
  <1>18. ASSUME NEW q \in Publishers, pub'[q].at = "broadcast"
         PROVE  Addressed(new, pub'[q].offset, pub'[q].id)
    <2>1. CASE q = p
      BY <1>6, <1>9, <1>12, <1>13, <2>1
    <2>2. CASE q # p
      <3>1. pub'[q] = pub[q] /\ pub[q] \in Pubs
        BY <1>2, <1>13, <2>2 DEF HistoryTypes
      <3>2. pub[q].offset \in Nat /\ pub[q].id \in Nat /\ Addressed(ms, pub[q].offset, pub[q].id)
        BY <1>2, <1>3, <1>18, <3>1 DEF OneStream, Pubs
      <3> QED
        BY <1>9, <3>1, <3>2
    <2> QED
      BY <2>1, <2>2
  <1>19. OneStream'
    BY <1>1, <1>2, <1>9, <1>12, <1>13, <1>16, <1>18 DEF OneStream
  <1>20. ClientOK' /\ WaitingOK'
    BY <1>1 DEF HistoryOK, ClientOK, WaitingOK, Mailed
  <1> QED
    BY <1>1, <1>16, <1>17, <1>19, <1>20 DEF HistoryOK

(* The loop of the broker expires the memstream.                           *)
LEMMA StreamExpires ==
    ASSUME HistoryOK, Expire, ~Excused'
    PROVE  HistoryOK'
PROOF
  <1>1. /\ stream = 1 /\ heap # << >> /\ stream' \in {0, 1}
        /\ UNCHANGED <<now, sent, epoch, pub, live, request, found, inbox, online, position, seen,
                       required>>
    BY DEF Expire, client, history, HistoryOK, OneStream
  <1>2. HistoryTypes /\ OneStream
    BY DEF HistoryOK
  <1>3. PICK ms \in Memstreams : ms = heap[1]
    BY <1>1, <1>2 DEF HistoryTypes
  <1>4. PICK new : new = expire(ms)
    OBVIOUS
  <1>5. Proper(ms) /\ ms.offset \in Nat
    BY <1>1, <1>2, <1>3 DEF OneStream, Memstreams
  <1>6. /\ new \in Memstreams /\ Proper(new) /\ new.offset = ms.offset
        /\ \A o \in Nat, m \in Nat : After(ms, o, m) => After(new, o, m)
        /\ \A o \in Nat, m \in Nat : Addressed(ms, o, m) => Addressed(new, o, m)
    BY <1>4, <1>5, ExpireKeeps
  <1>7. heap' = [heap EXCEPT ![1] = new]
    BY <1>1, <1>3, <1>4 DEF Expire
  <1>8. Owed' = Owed
    BY <1>1 DEF Owed
  <1>9. ms.offset <= new.offset
    BY <1>5, <1>6
  <1>10. /\ heap' \in Seq(Memstreams) /\ Len(heap') = 1 /\ heap' # << >> /\ heap'[1] = new
         /\ PlacesOK' /\ PositionOK' /\ InboxOK'
    BY <1>1, <1>3, <1>6, <1>7, <1>8, <1>9, MemstreamChanges
  <1>11. HistoryTypes'
    BY <1>1, <1>2, <1>10 DEF HistoryTypes
  <1>12. ASSUME NEW q \in Publishers, pub[q].at = "broadcast"
         PROVE  Addressed(new, pub[q].offset, pub[q].id)
    <2>1. pub[q].offset \in Nat /\ pub[q].id \in Nat
      BY <1>2 DEF HistoryTypes, Pubs
    <2> QED
      BY <1>2, <1>3, <1>6, <1>12, <2>1 DEF OneStream
  <1>13. OneStream'
    BY <1>1, <1>2, <1>6, <1>10, <1>12 DEF OneStream
  <1>14. ClientOK' /\ WaitingOK'
    BY <1>1 DEF HistoryOK, ClientOK, WaitingOK, Mailed
  <1> QED
    BY <1>1, <1>10, <1>11, <1>13, <1>14 DEF HistoryOK

(* A message that is not sent ahead of an earlier one, to a client that is *)
(* not waiting for its history.                                            *)
LEMMA MessageIsSent ==
    ASSUME HistoryOK, NEW p \in Publishers, Broadcast(p), ~Excused'
    PROVE  HistoryOK'
PROOF
  <1>1. /\ pub[p].at = "broadcast" /\ request = "none" /\ ~Overtakes(p)
        /\ pub' = [pub EXCEPT ![p] = Idle]
        /\ required' = IF live \/ position # Nowhere THEN required \cup {pub[p].id} ELSE required
        /\ UNCHANGED <<now, sent, epoch, heap, stream, live, request, found, online, position, seen>>
    BY DEF Broadcast, Excused
  <1>2. HistoryTypes /\ OneStream /\ ClientOK
    BY DEF HistoryOK
  <1>3. PICK idle \in Pubs : idle = Idle /\ idle.at = "idle"
    BY IdleIs
  <1>4. /\ pub' \in [Publishers -> Pubs] /\ pub'[p] = idle
        /\ \A q \in Publishers \ {p} : pub'[q] = pub[q]
    BY <1>1, <1>2, <1>3 DEF HistoryTypes
  <1>5. /\ pub[p] \in Pubs /\ heap # << >> /\ pub[p].ref = 1 /\ pub[p].id # 0
        /\ Addressed(heap[1], pub[p].offset, pub[p].id)
    BY <1>1, <1>2 DEF HistoryTypes, OneStream
  <1>6. pub[p].id \in Nat \ {0} /\ pub[p].offset \in Nat
    BY <1>5 DEF Pubs
  <1>7. pub[p].id \in Owed /\ required \subseteq Owed
    BY <1>1 DEF Owed
  <1>8. Owed' \subseteq Owed /\ required' \subseteq required \cup {pub[p].id}
    BY <1>1, <1>3, <1>4, <1>7 DEF Owed
  <1>9. OneStream'
    BY <1>1, <1>2, <1>3, <1>4 DEF OneStream
  <1>10. required' \subseteq Nat \ {0}
    BY <1>6, <1>8 DEF HistoryOK
  <1>11. CASE ~live
    <2>1. ~online /\ inbox' = inbox
      BY <1>2, <1>11 DEF Broadcast, ClientOK
    <2>2. HistoryTypes' /\ ClientOK' /\ WaitingOK'
      BY <1>1, <1>2, <1>4, <2>1 DEF HistoryTypes, ClientOK, WaitingOK
    <2>3. PlacesOK' /\ PositionOK' /\ InboxOK'
      BY <1>1, <1>8, <2>1, PlainMail
    <2> QED
      BY <1>9, <1>10, <2>2, <2>3 DEF HistoryOK
  <1>12. CASE live
    <2>1. PICK x \in Mail : x = Message(pub[p].id, epoch, pub[p].offset)
      BY <1>2, <1>6 DEF Message, Mail, HistoryTypes
    <2>2. x.id = pub[p].id /\ x.epoch = epoch /\ x.offset = pub[p].offset
      BY <2>1 DEF Message
    <2>3. online /\ inbox' = Append(inbox, x) /\ inbox \in Seq(Mail)
      BY <1>2, <1>12, <2>1 DEF Broadcast, ClientOK, HistoryTypes
    <2>4. PICK n \in Nat : n = Len(inbox)
      BY <2>3
    <2>5. /\ inbox' \in Seq(Mail) /\ Len(inbox') = n + 1 /\ inbox'[n + 1] = x
          /\ \A j \in 1 .. n : inbox'[j] = inbox[j]
      BY <2>3, <2>4
    <2>6. \A m \in required' : m \in seen \/ Mailed(n + 1, m)'
      <3> SUFFICES ASSUME NEW m \in required', m \notin seen PROVE Mailed(n + 1, m)'
        OBVIOUS
      <3>1. CASE m = pub[p].id
        <4>1. n + 1 \in 1 .. n + 1
          BY <2>4
        <4> QED
          BY <2>2, <2>5, <3>1, <4>1 DEF Mailed
      <3>2. CASE m \in required
        <4>1. PICK j \in 1 .. n : inbox[j].id = m
          BY <1>1, <2>3, <2>4, <3>2 DEF HistoryOK, WaitingOK, Mailed
        <4>2. j \in 1 .. n + 1
          BY <2>4
        <4> QED
          BY <2>5, <4>1, <4>2 DEF Mailed
      <3> QED
        BY <1>8, <3>1, <3>2
    <2>7. ASSUME NEW m \in Owed', m \notin seen, ~Mailed(n + 1, m)'
          PROVE  After(heap[1], pub[p].offset, m)
      <3>1. m \notin required'
        BY <2>6, <2>7
      <3>2. PICK q \in Publishers : q # p /\ pub[q].at = "broadcast" /\ m = pub[q].id
        BY <1>3, <1>4, <2>7, <3>1 DEF Owed
      <3>3. m # pub[p].id
        <4>1. n + 1 \in 1 .. n + 1
          BY <2>4
        <4> QED
          BY <2>2, <2>5, <2>7, <4>1 DEF Mailed
      <3>4. /\ pub[q] \in Pubs /\ pub[q].ref = 1
            /\ Addressed(heap[1], pub[q].offset, pub[q].id)
        BY <1>2, <3>2 DEF HistoryTypes, OneStream
      <3>5. pub[q].offset \in Nat /\ ~(pub[q].offset < pub[p].offset)
        BY <1>1, <1>5, <3>2, <3>4 DEF Overtakes, Pubs
      <3>6. PICK ms \in Memstreams : ms = heap[1] /\ Proper(ms)
        BY <1>2, <1>5, SingleIs DEF HistoryTypes, OneStream
      <3>7. PICK b \in Nat : b = Base(ms) /\ ms.offset = b + Len(ms.data)
        BY <3>6 DEF Proper, Numbered, Base, Memstreams
      <3>8. CASE pub[p].offset <= b
        BY <3>6, <3>7, <3>8 DEF After
      <3>9. CASE pub[p].offset > b
        <4>1. pub[q].offset > b
          BY <1>6, <3>5, <3>7, <3>9
        <4>2. pub[q].offset \in 1 .. ms.offset /\ ms.data[pub[q].offset - b].id = m
          BY <3>2, <3>4, <3>5, <3>6, <3>7, <4>1 DEF Addressed
        <4>3. ms.data[pub[p].offset - b].id = pub[p].id
          BY <1>5, <1>6, <3>6, <3>7, <3>9 DEF Addressed
        <4>4. pub[q].offset > pub[p].offset
          BY <1>6, <3>3, <3>5, <4>2, <4>3
        <4>5. PICK k \in 1 .. Len(ms.data) : k = pub[q].offset - b /\ b + k = pub[q].offset
          <5>1. Len(ms.data) \in Nat
            BY <3>6 DEF Memstreams
          <5> QED
            BY <3>5, <3>7, <4>1, <4>2, <5>1
        <4>6. ms.data[k].offset = pub[q].offset /\ ms.data[k].id = m
          BY <3>6, <3>7, <4>2, <4>5 DEF Proper, Numbered
        <4> QED
          BY <3>6, <4>4, <4>6 DEF After
      <3> QED
        BY <1>6, <3>7, <3>8, <3>9
    <2>8. ASSUME NEW i \in 1 .. n + 1 PROVE PlaceOK(i)' /\ MailOK(i)'
      <3>1. CASE i \in 1 .. n
        <4>1. \A j \in 1 .. i : j \in 1 .. n
          BY <2>4, <3>1
        <4> QED
          BY <1>1, <1>8, <2>4, <2>5, <3>1, <4>1, MailKept
      <3>2. CASE i = n + 1
        <4>1. PlaceOK(i)'
          BY <1>1, <1>5, <2>2, <2>5, <3>2 DEF PlaceOK, Addressed
        <4>2. MailOK(i)'
          BY <1>1, <2>2, <2>5, <2>7, <3>2 DEF MailOK
        <4> QED
          BY <4>1, <4>2
      <3> QED
        BY <2>4, <3>1, <3>2
    <2>9. PlacesOK' /\ InboxOK'
      BY <1>1, <2>5, <2>8 DEF HistoryOK, PlacesOK, InboxOK, PlaceOK, MailOK
    <2>10. PositionOK'
      BY <1>1, <1>8 DEF HistoryOK, PositionOK
    <2>11. WaitingOK'
      BY <1>1, <2>5, <2>6 DEF WaitingOK
    <2>12. ClientOK' /\ HistoryTypes'
      BY <1>1, <1>2, <1>4, <2>3, <2>5 DEF ClientOK, HistoryTypes
    <2> QED
      BY <1>9, <1>10, <2>9, <2>10, <2>11, <2>12 DEF HistoryOK
  <1> QED
    BY <1>11, <1>12

(* A transient message is sent past the history.                           *)
LEMMA TransientIsSent ==
    ASSUME HistoryOK, BroadcastTransient
    PROVE  HistoryOK'
PROOF
  <1>1. /\ sent' = sent + 1
        /\ UNCHANGED <<now, epoch, heap, stream, pub, live, request, found, online, position, seen,
                       required>>
        /\ inbox' = IF live THEN Append(inbox, Message(sent + 1, 0, 0)) ELSE inbox
    BY DEF BroadcastTransient, server, history
  <1>2. HistoryTypes /\ ClientOK
    BY DEF HistoryOK
  <1>3. PICK x \in Mail : x = Message(sent + 1, 0, 0) /\ x.offset = 0
    <2>1. Message(sent + 1, 0, 0) \in Mail
      BY <1>2 DEF HistoryTypes, Message, Mail
    <2> QED
      BY <2>1 DEF Message
  <1>4. Owed' = Owed
    BY <1>1 DEF Owed
  <1>5. inbox' = inbox \/ inbox' = Append(inbox, x)
    BY <1>1, <1>3
  <1>6. /\ inbox' \in Seq(Mail) /\ PlacesOK' /\ PositionOK' /\ InboxOK'
        /\ \A m : Mailed(Len(inbox), m) => Mailed(Len(inbox), m)'
        /\ (\A k \in 1 .. Len(inbox) : inbox[k].offset = 0) =>
              \A k \in 1 .. Len(inbox') : inbox'[k].offset = 0
    BY <1>1, <1>3, <1>4, <1>5, PlainMail
  <1>7. HistoryTypes'
    BY <1>1, <1>2, <1>6 DEF HistoryTypes
  <1>8. OneStream'
    BY <1>1 DEF HistoryOK, OneStream
  <1>9. ClientOK'
    BY <1>1, <1>2, <1>6 DEF ClientOK
  <1>10. WaitingOK'
    BY <1>1, <1>6 DEF HistoryOK, WaitingOK
  <1> QED
    BY <1>1, <1>6, <1>7, <1>8, <1>9, <1>10 DEF HistoryOK

(* The clock moves on.                                                     *)
LEMMA TimePasses ==
    ASSUME HistoryOK, Tick
    PROVE  HistoryOK'
PROOF
  <1>1. /\ now' = now + 1
        /\ UNCHANGED <<sent, epoch, heap, stream, pub, live, request, found, inbox, online, position,
                       seen, required>>
    BY DEF Tick, server, client, history
  <1>2. HistoryTypes'
    BY <1>1 DEF HistoryOK, HistoryTypes
  <1>3. OneStream' /\ ClientOK' /\ PlacesOK'
    BY <1>1 DEF HistoryOK, OneStream, ClientOK, PlacesOK
  <1>4. Owed' = Owed
    BY <1>1 DEF Owed
  <1>5. PositionOK' /\ InboxOK' /\ WaitingOK'
    BY <1>1, <1>4 DEF HistoryOK, PositionOK, InboxOK, WaitingOK, Mailed
  <1> QED
    BY <1>1, <1>2, <1>3, <1>5 DEF HistoryOK

(* The process restarts: a new epoch, and no history.                      *)
LEMMA ProcessRestarts ==
    ASSUME HistoryOK, Restart
    PROVE  HistoryOK'
PROOF
  <1>1. /\ epoch' = epoch + 1 /\ heap' = << >> /\ stream' = 0
        /\ pub' = [p \in Publishers |-> Idle] /\ ~live' /\ ~online' /\ request' = "none"
        /\ inbox' = << >> /\ UNCHANGED <<now, position, seen, required, sent>>
    BY DEF Restart, history
  <1>2. HistoryTypes /\ epoch \in Nat \ {0} /\ position.epoch <= epoch /\ position.epoch \in Nat
    BY DEF HistoryOK, HistoryTypes, PlacesOK, Positions
  <1>3. PICK idle \in Pubs : idle = Idle /\ idle.at = "idle"
    BY IdleIs
  <1>4. pub' \in [Publishers -> Pubs] /\ \A p \in Publishers : pub'[p].at = "idle"
    BY <1>1, <1>3
  <1>5. << >> \in Seq(Memstreams) /\ << >> \in Seq(Mail) /\ Len(<< >>) = 0
    OBVIOUS
  <1>6. position.epoch <= epoch' /\ position.epoch # epoch' /\ epoch' \in Nat \ {0}
    BY <1>1, <1>2
  <1>7. HistoryTypes'
    BY <1>1, <1>2, <1>4, <1>5, <1>6 DEF HistoryTypes
  <1>8. OneStream' /\ ClientOK' /\ PlacesOK' /\ PositionOK' /\ InboxOK' /\ WaitingOK'
    BY <1>1, <1>4, <1>5, <1>6 DEF OneStream, ClientOK, PlacesOK, PositionOK, InboxOK, WaitingOK
  <1> QED
    BY <1>1, <1>7, <1>8 DEF HistoryOK

(* The client subscribes.                                                  *)
LEMMA ClientComes ==
    ASSUME HistoryOK, Subscribe
    PROVE  HistoryOK'
PROOF
  <1>1. /\ ~online /\ online' /\ live' /\ inbox = << >>
        /\ UNCHANGED <<now, epoch, heap, stream, pub, inbox, position, seen, sent>>
        /\ request' = IF position = Nowhere THEN "none" ELSE "get"
        /\ required' = IF position = Nowhere THEN {} ELSE required
    BY DEF Subscribe, server, HistoryOK, ClientOK
  <1>2. HistoryTypes'
    BY <1>1 DEF HistoryOK, HistoryTypes
  <1>3. OneStream' /\ PlacesOK'
    BY <1>1 DEF HistoryOK, OneStream, PlacesOK
  <1>4. Owed' \subseteq Owed
    BY <1>1 DEF Owed
  <1>5. Len(inbox) = 0 /\ 1 .. 0 = {}
    BY <1>1
  <1>6. ClientOK' /\ WaitingOK' /\ required' \subseteq Nat \ {0}
    BY <1>1, <1>5 DEF HistoryOK, ClientOK, WaitingOK
  <1>7. PositionOK' /\ InboxOK'
    BY <1>1, <1>4, <1>5 DEF HistoryOK, PositionOK, InboxOK
  <1> QED
    BY <1>2, <1>3, <1>6, <1>7 DEF HistoryOK

(* The client loses its connection.                                        *)
LEMMA ClientGoes ==
    ASSUME HistoryOK, Drop
    PROVE  HistoryOK'
PROOF
  <1>1. /\ ~online' /\ ~live' /\ request' = "none" /\ inbox' = << >>
        /\ UNCHANGED <<now, epoch, heap, stream, pub, position, seen, sent, required>>
    BY DEF Drop, server, history
  <1>2. << >> \in Seq(Mail) /\ Len(<< >>) = 0 /\ 1 .. 0 = {}
    OBVIOUS
  <1>3. HistoryTypes'
    BY <1>1, <1>2 DEF HistoryOK, HistoryTypes
  <1>4. OneStream' /\ PlacesOK'
    BY <1>1, <1>2 DEF HistoryOK, OneStream, PlacesOK
  <1>5. Owed' = Owed
    BY <1>1 DEF Owed
  <1>6. ClientOK' /\ WaitingOK'
    BY <1>1 DEF ClientOK, WaitingOK
  <1>7. PositionOK' /\ InboxOK'
    BY <1>1, <1>2, <1>5 DEF HistoryOK, PositionOK, InboxOK
  <1> QED
    BY <1>1, <1>3, <1>4, <1>6, <1>7 DEF HistoryOK

(* The client hears that it may have missed something.                     *)
LEMMA RequestIsRejected ==
    ASSUME HistoryOK, Reject, request # "none",
           UNCHANGED <<now, epoch, heap, stream, pub, live, online, position, seen, sent>>
    PROVE  HistoryOK'
PROOF
  <1>1. /\ request' = "none" /\ inbox' = Append(inbox, Acknowledged)
        /\ required' = required \cap {inbox[k].id : k \in DOMAIN inbox}
    BY DEF Reject
  <1>2. HistoryTypes /\ ClientOK /\ inbox \in Seq(Mail)
    BY DEF HistoryOK, HistoryTypes
  <1>3. PICK x \in Mail : x = Acknowledged /\ x.offset = 0
    <2>1. Acknowledged \in Mail /\ Acknowledged.offset = 0
      BY DEF Acknowledged, Message, Mail
    <2> QED
      BY <2>1
  <1>4. Owed' \subseteq Owed
    BY <1>1 DEF Owed
  <1>5. /\ inbox' \in Seq(Mail) /\ PlacesOK' /\ PositionOK' /\ InboxOK'
        /\ \A m : Mailed(Len(inbox), m) => Mailed(Len(inbox), m)'
    BY <1>1, <1>3, <1>4, PlainMail
  <1>6. HistoryTypes'
    BY <1>2, <1>5 DEF HistoryTypes
  <1>7. OneStream'
    BY DEF HistoryOK, OneStream
  <1>8. ClientOK'
    BY <1>1, <1>2 DEF ClientOK
  <1>9. WaitingOK'
    <2>1. DOMAIN inbox = 1 .. Len(inbox)
      BY <1>2
    <2>2. \A m \in required' : Mailed(Len(inbox), m)
      BY <1>1, <2>1 DEF Mailed
    <2> QED
      BY <1>5, <2>2 DEF WaitingOK
  <1> QED
    BY <1>1, <1>5, <1>6, <1>7, <1>8, <1>9 DEF HistoryOK

(* The broker looks up what the client asks for.                           *)
LEMMA HistoryIsLookedUp ==
    ASSUME HistoryOK, HistoryFrom
    PROVE  HistoryOK'
PROOF
  <1>1. /\ request = "get"
        /\ UNCHANGED <<now, epoch, heap, stream, pub, live, online, position, seen, sent>>
    BY DEF HistoryFrom, server
  <1>2. CASE Reject
    BY <1>1, <1>2, RequestIsRejected
  <1>3. CASE KnownEpoch /\ stream # 0 /\ request' = "filter" /\ found' = stream
             /\ UNCHANGED <<inbox, required>>
    <2>1. stream = 1 /\ position.epoch = epoch
      BY <1>3 DEF HistoryOK, OneStream, KnownEpoch
    <2>2. ClientOK'
      BY <1>1, <1>3, <2>1 DEF HistoryOK, ClientOK
    <2>3. HistoryTypes' /\ OneStream' /\ PlacesOK' /\ WaitingOK'
      BY <1>1, <1>3 DEF HistoryOK, HistoryTypes, OneStream, PlacesOK, WaitingOK
    <2>4. Owed' = Owed
      BY <1>1, <1>3 DEF Owed
    <2>5. PositionOK' /\ InboxOK'
      BY <1>1, <1>3, <2>4 DEF HistoryOK, PositionOK, InboxOK, Mailed
    <2> QED
      BY <1>3, <2>2, <2>3, <2>5 DEF HistoryOK
  <1> QED
    BY <1>2, <1>3 DEF HistoryFrom

(* Positions in two sequences, one of which is the end of the other.       *)
LEMMA Shifted ==
    ASSUME NEW n \in Nat, NEW c \in Nat, c <= n, NEW e \in Nat, e = n - c
    PROVE  /\ \A k \in 1 .. e : k + c \in 1 .. n
           /\ \A j \in 1 .. n : j > c => j - c \in 1 .. e /\ (j - c) + c = j
OBVIOUS

(* Two sequences one after the other.                                      *)
LEMMA Joined ==
    ASSUME NEW S, NEW p \in Seq(S), NEW q \in Seq(S), NEW a \in Nat, NEW b \in Nat,
           a = Len(p), b = Len(q), NEW r, r = p \o q
    PROVE  /\ r \in Seq(S) /\ Len(r) = a + b
           /\ \A i \in 1 .. a : r[i] = p[i]
           /\ \A k \in 1 .. b : r[a + k] = q[k]
PROOF
  <1>1. r \in Seq(S) /\ Len(r) = a + b
    BY ConcatProperties
  <1>2. \A i \in 1 .. a + b : r[i] = IF i <= a THEN p[i] ELSE q[i - a]
    BY ConcatProperties
  <1>3. ASSUME NEW i \in 1 .. a PROVE r[i] = p[i]
    <2>1. i \in 1 .. a + b /\ i <= a
      OBVIOUS
    <2> QED
      BY <1>2, <2>1
  <1>4. ASSUME NEW k \in 1 .. b PROVE r[a + k] = q[k]
    <2>1. a + k \in 1 .. a + b /\ ~(a + k <= a) /\ (a + k) - a = k
      OBVIOUS
    <2> QED
      BY <1>2, <2>1
  <1> QED
    BY <1>1, <1>3, <1>4

(* A place in three sequences one after the other, the last a single one.  *)
LEMMA PlaceIn ==
    ASSUME NEW a \in Nat, NEW b \in Nat, NEW i \in 1 .. a + b + 1
    PROVE  i \in 1 .. a \/ i = a + b + 1 \/ \E k \in 1 .. b : i = a + k
PROOF
  <1>1. CASE i > a /\ i # a + b + 1
    <2>1. i - a \in 1 .. b /\ i = a + (i - a)
      BY <1>1
    <2> QED
      BY <2>1
  <1>2. CASE i <= a
    BY <1>2
  <1> QED
    BY <1>1, <1>2

(* The entries of a memstream after an offset.                             *)
Follows(ms, o, entries) ==
    /\ o > Base(ms) /\ entries \in Seq(Stored) /\ o + Len(entries) = ms.offset
    /\ \A k \in 1 .. Len(entries) : entries[k].offset = o + k
    /\ \A j \in 1 .. Len(ms.data) : ms.data[j].offset > o =>
          \E k \in 1 .. Len(entries) : entries[k] = ms.data[j] /\ ms.data[j].offset = o + k

(* The entries that filterByOffset finds are those after the offset.       *)
LEMMA FilterIs ==
    ASSUME NEW ms \in Memstreams, Proper(ms), NEW o \in Nat, Found(ms, o),
           NEW entries, entries = filterByOffset(ms, o)
    PROVE  Follows(ms, o, entries)
PROOF
  <1>1. PICK data \in Seq(Stored) : data = ms.data
    BY DEF Memstreams
  <1>2. PICK n \in Nat : n = Len(data)
    BY <1>1
  <1>3. PICK b \in Nat : b = Base(ms) /\ ms.offset = b + n
    BY <1>1, <1>2 DEF Proper, Numbered, Base, Memstreams
  <1>4. ms.low = b + 1
    BY <1>1, <1>3 DEF Found, Proper
  <1>5. PICK c \in 1 .. n : c = o - b
    BY <1>1, <1>2, <1>3, <1>4 DEF Found
  <1>6. entries = SubSeq(data, c + 1, Len(data))
    BY <1>1, <1>4, <1>5 DEF filterByOffset
  <1>7. c \in 0 .. Len(data)
    BY <1>2, <1>5
  <1>8. /\ entries \in Seq(Stored) /\ Len(entries) = n - c
        /\ \A k \in 1 .. Len(entries) : entries[k] = data[k + c]
    BY <1>2, <1>6, <1>7, SuffixIs
  <1>9. \A j \in 1 .. n : data[j].offset = b + j
    BY <1>1, <1>2, <1>3 DEF Proper, Numbered
  <1>10. o = b + c /\ o > b /\ o + Len(entries) = b + n
    BY <1>2, <1>3, <1>5, <1>8
  <1>a. PICK e \in Nat : e = Len(entries) /\ e = n - c
    BY <1>8
  <1>b. c \in Nat /\ c <= n
    BY <1>5
  <1>c. /\ \A k \in 1 .. e : k + c \in 1 .. n
        /\ \A j \in 1 .. n : j > c => j - c \in 1 .. e /\ (j - c) + c = j
    BY <1>a, <1>b, Shifted
  <1>11. ASSUME NEW k \in 1 .. e PROVE entries[k].offset = o + k
    <2>1. k + c \in 1 .. n /\ entries[k] = data[k + c]
      BY <1>8, <1>a, <1>c
    <2>2. data[k + c].offset = b + (k + c)
      BY <1>9, <2>1
    <2>3. b + (k + c) = o + k
      BY <1>b, <1>10
    <2> QED
      BY <2>1, <2>2, <2>3
  <1>12. ASSUME NEW j \in 1 .. n, data[j].offset > o
         PROVE  \E k \in 1 .. e : entries[k] = data[j] /\ data[j].offset = o + k
    <2>1. data[j].offset = b + j
      BY <1>9
    <2>2. b + j > b + c
      BY <1>10, <1>12, <2>1
    <2>3. j > c
      BY <1>b, <2>2
    <2>4. PICK k \in 1 .. e : k = j - c /\ k + c = j
      BY <1>c, <2>3
    <2>5. o + k = b + j
      BY <1>b, <1>10, <2>4
    <2> QED
      BY <1>8, <1>a, <2>1, <2>4, <2>5
  <1> QED
    BY <1>1, <1>2, <1>3, <1>8, <1>a, <1>10, <1>11, <1>12 DEF Follows

(* What was looked up is sent to the client.                               *)
LEMMA HistoryIsSent ==
    ASSUME HistoryOK, History
    PROVE  HistoryOK'
PROOF
  <1>1. /\ request = "filter" /\ found = 1 /\ position.epoch = epoch
        /\ UNCHANGED <<now, epoch, heap, stream, pub, live, online, position, seen, sent>>
    BY DEF History, server, HistoryOK, ClientOK
  <1>2. HistoryTypes /\ OneStream /\ heap # << >> /\ position.offset <= heap[1].offset
    BY <1>1 DEF HistoryOK, PlacesOK
  <1>3. CASE Reject
    BY <1>1, <1>3, RequestIsRejected
  <1>4. CASE /\ Found(heap[found], position.offset) /\ request' = "none"
             /\ inbox' = inbox \o Backlog \o <<Acknowledged>> /\ UNCHANGED required
    <2>1. PICK ms \in Memstreams : ms = heap[1] /\ Proper(ms)
      BY <1>2, SingleIs DEF HistoryTypes, OneStream
    <2>2. PICK o \in Nat : o = position.offset
      BY <1>2 DEF HistoryTypes, Positions
    <2>3. PICK entries : entries = filterByOffset(ms, o)
      OBVIOUS
    <2>4. /\ o > Base(ms) /\ entries \in Seq(Stored) /\ o + Len(entries) = ms.offset
          /\ \A k \in 1 .. Len(entries) : entries[k].offset = o + k
          /\ \A j \in 1 .. Len(ms.data) : ms.data[j].offset > o =>
                \E k \in 1 .. Len(entries) : entries[k] = ms.data[j] /\ ms.data[j].offset = o + k
      <3>1. Found(ms, o)
        BY <1>1, <1>4, <2>1, <2>2
      <3>2. Follows(ms, o, entries)
        BY <2>1, <2>2, <2>3, <3>1, FilterIs
      <3> QED
        BY <3>2 DEF Follows
    <2>5. PICK b \in Nat : b = Len(entries)
      BY <2>4
    <2>6. PICK a \in Nat : a = Len(inbox)
      BY <1>2 DEF HistoryTypes
    <2>7. PICK backlog \in Seq(Mail) :
             /\ backlog = Backlog /\ Len(backlog) = b
             /\ \A k \in 1 .. b : /\ backlog[k].id = entries[k].id /\ backlog[k].epoch = epoch
                                   /\ backlog[k].offset = o + k
      <3>1. \A k \in 1 .. b : Message(entries[k].id, epoch, entries[k].offset) \in Mail
        <4>1. \A k \in 1 .. b : entries[k] \in Stored
          BY <2>4, <2>5
        <4> QED
          BY <1>2, <4>1 DEF HistoryTypes, Stored, Message, Mail
      <3>2. Backlog = [k \in 1 .. b |-> Message(entries[k].id, epoch, entries[k].offset)]
        BY <1>1, <2>1, <2>2, <2>3, <2>5 DEF Backlog
      <3>3. Backlog \in Seq(Mail) /\ Len(Backlog) = b
        BY <3>1, <3>2
      <3>4. \A k \in 1 .. b : Backlog[k] = Message(entries[k].id, epoch, entries[k].offset)
        BY <3>2
      <3>5. \A k \in 1 .. b : /\ Backlog[k].id = entries[k].id /\ Backlog[k].epoch = epoch
                              /\ Backlog[k].offset = o + k
        <4> SUFFICES ASSUME NEW k \in 1 .. b
                     PROVE  /\ Backlog[k].id = entries[k].id /\ Backlog[k].epoch = epoch
                            /\ Backlog[k].offset = o + k
          OBVIOUS
        <4>1. entries[k].offset = o + k
          BY <2>4, <2>5
        <4>2. Backlog[k] = Message(entries[k].id, epoch, entries[k].offset)
          BY <3>4
        <4> QED
          BY <4>1, <4>2 DEF Message
      <3> QED
        BY <3>3, <3>5
    <2>8. PICK ack \in Seq(Mail) : ack = <<Acknowledged>> /\ Len(ack) = 1 /\ ack[1].offset = 0
      <3>1. Acknowledged \in Mail /\ Acknowledged.offset = 0
        BY DEF Acknowledged, Message, Mail
      <3>2. <<Acknowledged>> \in Seq(Mail) /\ <<Acknowledged>>[1] = Acknowledged
        BY <3>1
      <3> QED
        BY <3>1, <3>2
    <2>9. /\ inbox' \in Seq(Mail) /\ Len(inbox') = a + b + 1
          /\ \A i \in 1 .. a : inbox'[i] = inbox[i]
          /\ \A k \in 1 .. b : inbox'[a + k] = backlog[k]
          /\ inbox'[a + b + 1].offset = 0
      <3>1. inbox \in Seq(Mail)
        BY <1>2 DEF HistoryTypes
      <3>2. PICK q : q = inbox \o backlog
        OBVIOUS
      <3>3. /\ q \in Seq(Mail) /\ Len(q) = a + b /\ \A i \in 1 .. a : q[i] = inbox[i]
            /\ \A k \in 1 .. b : q[a + k] = backlog[k]
        BY <2>6, <2>7, <3>1, <3>2, Joined
      <3>4. inbox' = q \o ack
        BY <1>4, <2>7, <2>8, <3>2
      <3>5. PICK c \in Nat : c = a + b
        OBVIOUS
      <3>6. /\ inbox' \in Seq(Mail) /\ Len(inbox') = c + 1
            /\ \A i \in 1 .. c : inbox'[i] = q[i]
            /\ \A k \in 1 .. 1 : inbox'[c + k] = ack[k]
        <4>1. PICK d \in Nat : d = Len(ack) /\ ack \in Seq(Mail)
          BY <2>8
        <4>2. c \in Nat /\ c = Len(q) /\ q \in Seq(Mail)
          BY <3>3, <3>5
        <4>3. PICK r : r = q \o ack
          OBVIOUS
        <4>4. /\ r \in Seq(Mail) /\ Len(r) = c + d
              /\ \A i \in 1 .. c : r[i] = q[i]
              /\ \A k \in 1 .. d : r[c + k] = ack[k]
          BY <4>1, <4>2, <4>3, Joined
        <4>5. d = 1
          BY <2>8, <4>1
        <4> QED
          BY <3>4, <4>3, <4>4, <4>5
      <3>7. inbox'[a + b + 1] = ack[1]
        BY <3>5, <3>6
      <3>8. /\ \A i \in 1 .. a : i \in 1 .. c
            /\ \A k \in 1 .. b : a + k \in 1 .. c
        BY <3>5
      <3> QED
        BY <2>8, <3>3, <3>5, <3>6, <3>7, <3>8
    <2>10. Owed' = Owed
      BY <1>1, <1>4 DEF Owed
    <2>11. ASSUME NEW m \in Owed, m \notin seen
           PROVE  \E j \in 1 .. Len(ms.data), k \in 1 .. b :
                     /\ ms.data[j].id = m /\ ms.data[j].offset = o + k /\ backlog[k].id = m
      <3>1. After(ms, o, m)
        BY <1>1, <2>1, <2>2, <2>11 DEF HistoryOK, PositionOK
      <3>2. Base(ms) \in Int
        BY <2>1 DEF Base, Memstreams
      <3>3. PICK j \in 1 .. Len(ms.data) : ms.data[j].id = m /\ ms.data[j].offset > o
        BY <2>2, <2>4, <3>1, <3>2 DEF After
      <3>4. PICK k \in 1 .. b : entries[k] = ms.data[j] /\ ms.data[j].offset = o + k
        BY <2>4, <2>5, <3>3
      <3> QED
        BY <2>7, <3>3, <3>4
    <2>12. ASSUME NEW i \in 1 .. a + b + 1 PROVE PlaceOK(i)' /\ MailOK(i)'
      <3>1. CASE i \in 1 .. a
        <4>1. \A j \in 1 .. i : j \in 1 .. a
          BY <2>6, <3>1
        <4> QED
          BY <1>1, <2>6, <2>9, <2>10, <3>1, <4>1, MailKept
      <3>2. CASE i = a + b + 1
        BY <2>9, <3>2 DEF PlaceOK, MailOK
      <3>3. ASSUME NEW k \in 1 .. b, i = a + k PROVE PlaceOK(i)' /\ MailOK(i)'
        <4>1. inbox'[i].epoch = epoch /\ inbox'[i].offset = o + k
          BY <2>7, <2>9, <3>3
        <4>2. o + k <= ms.offset
          BY <2>2, <2>4, <2>5
        <4>3. PlaceOK(i)'
          BY <1>1, <1>2, <2>1, <4>1, <4>2 DEF PlaceOK
        <4>4. ASSUME NEW m \in Owed, m \notin seen, ~Mailed(i, m)' PROVE After(ms, o + k, m)
          <5>1. PICK j \in 1 .. Len(ms.data), l \in 1 .. b :
                   ms.data[j].id = m /\ ms.data[j].offset = o + l /\ backlog[l].id = m
            BY <2>11, <4>4
          <5>2. l > k
            <6> SUFFICES ASSUME l <= k PROVE FALSE
              BY <2>5
            <6>1. a + l \in 1 .. i /\ inbox'[a + l].id = m
              BY SMTT(30), <2>5, <2>6, <2>9, <3>3, <5>1
            <6> QED
              BY <4>4, <6>1 DEF Mailed
          <5> QED
            BY <2>2, <2>5, <5>1, <5>2 DEF After
        <4>5. MailOK(i)'
          BY <1>1, <2>1, <2>10, <4>1, <4>4 DEF MailOK
        <4> QED
          BY <4>3, <4>5
      <3>4. i \in 1 .. a \/ i = a + b + 1 \/ \E k \in 1 .. b : i = a + k
        BY PlaceIn
      <3> QED
        BY <3>1, <3>2, <3>3, <3>4
    <2>13. PlacesOK' /\ InboxOK'
      BY <1>1, <2>9, <2>12 DEF HistoryOK, PlacesOK, InboxOK, PlaceOK, MailOK
    <2>14. PositionOK'
      BY <1>1, <2>10 DEF HistoryOK, PositionOK
    <2>15. WaitingOK'
      <3> SUFFICES ASSUME NEW m \in required, m \notin seen PROVE Mailed(Len(inbox), m)'
        BY <1>1, <1>4 DEF WaitingOK
      <3>1. PICK k \in 1 .. b : backlog[k].id = m
        BY <2>11 DEF Owed
      <3>2. a + k \in 1 .. Len(inbox') /\ inbox'[a + k].id = m
        BY <2>5, <2>6, <2>9, <3>1
      <3> QED
        BY <3>2 DEF Mailed
    <2>16. HistoryTypes' /\ OneStream'
      BY <1>1, <1>2, <2>9 DEF HistoryTypes, OneStream
    <2>17. ClientOK'
      BY <1>1, <1>4 DEF HistoryOK, ClientOK
    <2> QED
      BY <1>4, <2>13, <2>14, <2>15, <2>16, <2>17 DEF HistoryOK
  <1> QED
    BY <1>3, <1>4 DEF History

(* The client receives a message, and takes over its position.             *)
LEMMA MailArrives ==
    ASSUME HistoryOK, Receive
    PROVE  HistoryOK'
PROOF
  <1>1. /\ inbox # << >> /\ inbox' = Tail(inbox)
        /\ UNCHANGED <<now, epoch, heap, stream, pub, live, request, found, online, required, sent>>
    BY DEF Receive, server, history
  <1>2. HistoryTypes /\ inbox \in Seq(Mail)
    BY DEF HistoryOK, HistoryTypes
  <1>3. PICK x \in Mail : x = Head(inbox)
    BY <1>1, <1>2
  <1>4. PICK n \in Nat \ {0} : n = Len(inbox)
    BY <1>1, <1>2
  <1>5. /\ inbox[1] = x /\ inbox' \in Seq(Mail) /\ Len(inbox') = n - 1
        /\ \A i \in 1 .. n - 1 : inbox'[i] = inbox[i + 1]
    BY <1>1, <1>2, <1>3, <1>4
  <1>6. /\ seen' = (IF x = Acknowledged THEN seen ELSE seen \cup {x.id})
        /\ position' = (IF x.offset = 0 THEN position ELSE [epoch |-> x.epoch, offset |-> x.offset])
    BY <1>3 DEF Receive
  <1>7. Acknowledged.id = 0
    BY DEF Acknowledged, Message
  <1>8. \A m \in Owed : m \in seen \/ m = x.id => m \in seen'
    BY <1>6, <1>7, OwedIsNumber
  <1>9. Owed' = Owed
    BY <1>1 DEF Owed
  <1>10. \A i \in 1 .. n - 1, m \in Owed : m \in seen \/ Mailed(i + 1, m) => m \in seen' \/ Mailed(i, m)'
    <2> SUFFICES ASSUME NEW i \in 1 .. n - 1, NEW m \in Owed, NEW j \in 1 .. i + 1, inbox[j].id = m
                 PROVE  m \in seen' \/ Mailed(i, m)'
      BY <1>8 DEF Mailed
    <2>1. CASE j = 1
      BY <1>5, <1>8, <2>1
    <2>2. CASE j # 1
      <3>1. j - 1 \in 1 .. i /\ j - 1 \in 1 .. n - 1 /\ (j - 1) + 1 = j
        BY <1>4, <2>2
      <3>2. inbox'[j - 1].id = m
        BY <1>5, <3>1
      <3> QED
        BY <3>1, <3>2 DEF Mailed
    <2> QED
      BY <2>1, <2>2
  <1>11. \A i \in 1 .. n - 1 : i + 1 \in 1 .. n
    BY <1>4
  <1>12. 1 \in 1 .. n
    BY <1>4
  <1>13. x.offset # 0 => /\ x.epoch = epoch /\ heap # << >> /\ x.offset <= heap[1].offset
                         /\ \A m \in Owed : m \in seen' \/ After(heap[1], x.offset, m)
    <2>1. \A m : Mailed(1, m) => x.id = m
      BY <1>5 DEF Mailed
    <2> QED
      BY <1>4, <1>5, <1>8, <1>12, <2>1 DEF HistoryOK, PlacesOK, InboxOK
  <1>14. /\ position' \in Positions
         /\ x.offset # 0 => position'.epoch = x.epoch /\ position'.offset = x.offset
         /\ x.offset = 0 => position' = position
    <2>1. CASE x.offset = 0
      BY <1>2, <1>6, <2>1 DEF HistoryTypes
    <2>2. CASE x.offset # 0
      <3>1. position' = [epoch |-> x.epoch, offset |-> x.offset]
        BY <1>6, <2>2
      <3>2. x.epoch \in Nat /\ x.offset \in Nat
        BY DEF Mail
      <3>3. position' \in Positions
        BY <3>1, <3>2 DEF Positions
      <3> QED
        BY <2>2, <3>1, <3>3
    <2> QED
      BY <2>1, <2>2
  <1>15. PositionOK'
    <2>1. CASE x.offset = 0
      BY <1>1, <1>8, <1>9, <1>14, <2>1 DEF HistoryOK, PositionOK
    <2>2. CASE x.offset # 0
      BY <1>1, <1>9, <1>13, <1>14, <2>2 DEF PositionOK
    <2> QED
      BY <2>1, <2>2
  <1>16. PlacesOK'
    <2>1. epoch \in Nat
      BY <1>2 DEF HistoryTypes
    <2>2. ASSUME NEW i \in 1 .. n - 1, inbox'[i].offset # 0
          PROVE  inbox'[i].epoch = epoch /\ heap # << >> /\ inbox'[i].offset <= heap[1].offset
      BY <1>4, <1>5, <1>11, <2>2 DEF HistoryOK, PlacesOK
    <2>3. /\ position'.epoch <= epoch
          /\ position'.epoch = epoch => heap # << >> /\ position'.offset <= heap[1].offset
      <3>1. CASE x.offset = 0
        BY <1>14, <3>1 DEF HistoryOK, PlacesOK
      <3>2. CASE x.offset # 0
        BY <1>13, <1>14, <2>1, <3>2
      <3> QED
        BY <3>1, <3>2
    <2> QED
      BY <1>1, <1>5, <2>2, <2>3 DEF PlacesOK
  <1>17. InboxOK'
    <2> SUFFICES ASSUME NEW i \in 1 .. n - 1, inbox'[i].offset # 0, NEW m \in Owed
                 PROVE  m \in seen' \/ Mailed(i, m)' \/ After(heap[1], inbox'[i].offset, m)
      BY <1>1, <1>5, <1>9 DEF InboxOK
    <2>1. m \in seen \/ Mailed(i + 1, m) \/ After(heap[1], inbox[i + 1].offset, m)
      BY <1>4, <1>5, <1>11 DEF HistoryOK, InboxOK
    <2> QED
      BY <1>5, <1>10, <2>1
  <1>18. WaitingOK'
    <2> SUFFICES ASSUME online, request = "none", NEW m \in required
                 PROVE  m \in seen' \/ Mailed(n - 1, m)'
      BY <1>1, <1>5 DEF WaitingOK
    <2>1. m \in Owed /\ (m \in seen \/ Mailed(n, m))
      BY <1>4 DEF HistoryOK, WaitingOK, Owed
    <2>2. CASE n = 1
      <3>1. Mailed(n, m) => m = x.id
        BY <1>5, <2>2 DEF Mailed
      <3> QED
        BY <1>8, <2>1, <3>1
    <2>3. CASE n # 1
      <3>1. n - 1 \in 1 .. n - 1 /\ (n - 1) + 1 = n
        BY <1>4, <2>3
      <3> QED
        BY <1>10, <2>1, <3>1
    <2> QED
      BY <2>2, <2>3
  <1>19. HistoryTypes' /\ OneStream'
    BY <1>1, <1>2, <1>5, <1>14 DEF HistoryOK, HistoryTypes, OneStream
  <1>20. ClientOK'
    <2>1. request # "none" => x.offset = 0 /\ \A k \in 1 .. n - 1 : inbox'[k].offset = 0
      BY <1>4, <1>5, <1>11, <1>12 DEF HistoryOK, ClientOK
    <2>2. online
      BY <1>1 DEF HistoryOK, ClientOK
    <2> QED
      BY <1>1, <1>5, <1>14, <2>1, <2>2 DEF HistoryOK, ClientOK
  <1> QED
    BY <1>1, <1>15, <1>16, <1>17, <1>18, <1>19, <1>20 DEF HistoryOK

(* A step of the node's streams leaves all of this alone.                  *)
LEMMA HistoryRests ==
    ASSUME HistoryOK, UNCHANGED vars
    PROVE  HistoryOK'
PROOF
  <1>1. UNCHANGED <<now, sent, epoch, heap, stream, pub, live, request, found, inbox, online, position,
                    seen, required>>
    BY DEF vars, server, client, history
  <1>2. HistoryTypes' /\ OneStream' /\ ClientOK' /\ PlacesOK'
    BY <1>1 DEF HistoryOK, HistoryTypes, OneStream, ClientOK, PlacesOK
  <1>3. Owed' = Owed
    BY <1>1 DEF Owed
  <1>4. PositionOK' /\ InboxOK' /\ WaitingOK'
    BY <1>1, <1>3 DEF HistoryOK, PositionOK, InboxOK, WaitingOK, Mailed
  <1> QED
    BY <1>1, <1>2, <1>4 DEF HistoryOK

(* Every step keeps the invariant.                                         *)
LEMMA HistoryStep == HistoryInvariant /\ [Next]_vars => HistoryInvariant'
PROOF
  <1> SUFFICES ASSUME HistoryInvariant, [Next]_vars, ~Excused' PROVE HistoryOK'
    BY DEF HistoryInvariant
  <1>1. ~Excused
    BY DEF Excused, Next, vars, history, GetStream, AddEntry, Broadcast, BroadcastTransient, Tick,
           Expire, Restart, Subscribe, HistoryFrom, History, Receive, Drop
  <1>2. HistoryOK
    BY <1>1 DEF HistoryInvariant
  <1> QED
    BY <1>2, StreamIsGot, EntryIsAdded, MessageIsSent, TransientIsSent, TimePasses, StreamExpires,
       ProcessRestarts, ClientComes, HistoryIsLookedUp, HistoryIsSent, MailArrives, ClientGoes,
       HistoryRests DEF Next

(* A client that keeps its position misses no message that it was not told *)
(* of (HandleBroadcast, HistoryFrom, memstream.add, expire, filterByOffset,*)
(* Node.History), but for a message sent ahead of an earlier one and for a *)
(* memstream that was replaced.                                            *)
THEOREM GapsAreExplained == MCSpec => []GapsExplained
PROOF
  <1>1. MCInit => HistoryInvariant
    <2> SUFFICES ASSUME Init PROVE HistoryOK
      BY DEF MCInit, HistoryInvariant
    <2>1. << >> \in Seq(Memstreams) /\ << >> \in Seq(Mail) /\ Len(<< >>) = 0 /\ 1 .. 0 = {}
      OBVIOUS
    <2>2. PICK idle \in Pubs : idle = Idle /\ idle.at = "idle"
      BY IdleIs
    <2>3. pub \in [Publishers -> Pubs] /\ \A p \in Publishers : pub[p].at = "idle"
      BY <2>2 DEF Init
    <2>4. position \in Positions /\ position.epoch = 0
      BY DEF Init, Nowhere, Positions
    <2>5. HistoryTypes
      BY <2>1, <2>3, <2>4 DEF Init, HistoryTypes
    <2>6. OneStream /\ ClientOK /\ PlacesOK /\ PositionOK /\ InboxOK /\ WaitingOK
      BY <2>1, <2>3, <2>4 DEF Init, OneStream, ClientOK, PlacesOK, PositionOK, InboxOK, WaitingOK
    <2> QED
      BY <2>5, <2>6 DEF Init, HistoryOK
  <1>2. HistoryInvariant /\ [MCNext]_<<part, vars, nodeStreams>> => HistoryInvariant'
    BY HistoryStep DEF MCNext
  <1>3. HistoryInvariant => GapsExplained
    <2> SUFFICES ASSUME HistoryOK, Quiet PROVE required \subseteq seen
      BY DEF HistoryInvariant, Excused, GapsExplained, AtLeastOnce
    <2>1. Len(inbox) = 0 /\ 1 .. 0 = {}
      BY DEF Quiet
    <2> QED
      BY <2>1 DEF Quiet, HistoryOK, WaitingOK, Mailed
  <1> QED
    BY <1>1, <1>2, <1>3, PTL DEF MCSpec

-----------------------------------------------------------------------------
(* NodeStreams: programs.                                                  *)

Sets == SUBSET Streams
PairSets == SUBSET (Streams \X Idents)

Ops ==
    ({"subscribe", "sendSubscribe", "unsubscribe", "sendUnsubscribe"} \X Streams)
    \cup ({"hubAdd", "hubRemove", "list", "unlist"} \X N!Pairs)
    \cup ({"hubRemoveChannel", "clear"} \X Idents)
    \cup ({"release", "restore"} \X PairSets)
    \cup ({"start", "stop"} \X Idents \X Sets)
    \cup {<<"removeSession">>, <<"commit">>}

Has(q, op) == \E k \in 1 .. Len(q) : q[k] = op

(* What is said of the place k of a program q.  A subscription's entry is  *)
(* followed by its command to Redis.                                       *)
EntryAt(q, k) ==
    q[k][1] = "subscribe" => k + 1 \in 1 .. Len(q) /\ q[k + 1] = <<"sendSubscribe", q[k][2]>>

(* A row comes after nothing but the subscription for it, a release after  *)
(* nothing but unsubscriptions, and what clear releases has no rows.       *)
RowAt(q, k) ==
    q[k][1] = "hubAdd" => \A j \in 1 .. k - 1 : q[j][1] \in {"subscribe", "sendSubscribe"}
ReleaseAt(q, k) ==
    q[k][1] = "release" => \A j \in 1 .. k - 1 : q[j][1] \in {"unsubscribe", "sendUnsubscribe"}
ClearAt(q, k) ==
    q[k][1] = "clear" => k = 1 \/ (k = 2 /\ q[1] = <<"hubRemoveChannel", q[k][2]>>)

Orderly(q) ==
    \A k \in 1 .. Len(q) : EntryAt(q, k) /\ RowAt(q, k) /\ ReleaseAt(q, k) /\ ClearAt(q, k)

-----------------------------------------------------------------------------
(* NodeStreams: the inductive invariant.                                   *)

StreamTypes ==
    /\ listed \in [Sessions -> PairSets] /\ rows \in [Sessions -> PairSets]
    /\ \A s \in Sessions : cache[s].listed \in PairSets
    /\ DOMAIN cache = Sessions
    /\ phase \in [Sessions -> {"new", "connected", "gone"}]
    /\ \A s \in Sessions : call[s] = N!NoCall \/ call[s][2] \in Idents
    /\ todo \in [N!Goroutines -> Seq(Ops)]
    /\ DOMAIN call = Sessions
    /\ tracker \in [Streams -> Nat]
    /\ link \in {"down", "dedicated", "snapshot", "up"}
    /\ held \in [Sessions -> [N!Pairs -> Nat]]

ProgramsOrderly == \A g \in N!Goroutines : Orderly(todo[g])

(* A session has nothing before it connects, runs nothing while it waits   *)
(* for a reply, and gives nothing back before it goes.                     *)
LivesOK(s) ==
    /\ phase[s] # "gone" => todo[N!Leaver(s)] = << >>
    /\ phase[s] = "new" => rows[s] = {} /\ call[s] = N!NoCall
    /\ phase[s] = "new" \/ call[s] # N!NoCall => todo[N!Reader(s)] = << >>

Excepted == overreleased \cup late

(* The tracker counts what the sessions hold.                              *)
Units(x) ==
    {u \in Sessions \X Idents \X Nat : u[3] \in 1 .. held[u[1]][<<x, u[2]>>]}
Counted(x) == IsFiniteSet(Units(x)) /\ tracker[x] = Cardinality(Units(x))

(* A tracked stream has an entry, or will have.                            *)
Entered(x) ==
    tracker[x] > 0 =>
        x \in subscriptions \/ \E g \in N!Goroutines : Has(todo[g], <<"subscribe", x>>)

(* And Redis has it, will be told of it with all others, or will be told.  *)
Wired(x) ==
    tracker[x] > 0 =>
        \/ \E g \in N!Goroutines : Has(todo[g], <<"sendSubscribe", x>>)
        \/ /\ link = "up" => x \in subscribed
           /\ link = "snapshot" => x \in subscribed \cup keys

StreamsOK == \A x \in Streams \ Excepted : Counted(x) /\ Entered(x) /\ Wired(x)

(* A session's rows are of streams that it holds.                          *)
RowsHeld(s) ==
    \A p \in rows[s] : \/ held[s][p] > 0 \/ p[1] \in Excepted
                       \/ Has(todo[N!Reader(s)], <<"hubRemove", p>>)
AddsHeld(s) ==
    \A p \in N!Pairs : Has(todo[N!Reader(s)], <<"hubAdd", p>>) =>
        held[s][p] > 0 \/ p[1] \in Excepted
ReleasesRowless(s) ==
    \A R \in PairSets : Has(todo[N!Reader(s)], <<"release", R>>) => rows[s] \cap R = {}
ClearsRowless(s) ==
    \A i \in Idents :
        todo[N!Reader(s)] # << >> /\ todo[N!Reader(s)][1] = <<"clear", i>> =>
            \A p \in rows[s] : p[2] # i
RowsOK(s) ==
    phase[s] = "connected" =>
        RowsHeld(s) /\ AddsHeld(s) /\ ReleasesRowless(s) /\ ClearsRowless(s)

SessionsOK == \A s \in Sessions : LivesOK(s) /\ RowsOK(s)

ListeningInvariant == StreamTypes /\ ProgramsOrderly /\ StreamsOK /\ SessionsOK

-----------------------------------------------------------------------------
(* Joining programs.                                                       *)

JoinIs(S, p, q, r, a, b) ==
    /\ r \in Seq(S) /\ Len(r) = a + b
    /\ \A i \in 1 .. a : r[i] = p[i]
    /\ \A k \in 1 .. b : r[a + k] = q[k]
    /\ \A i \in 1 .. a + b : i \in 1 .. a \/ \E k \in 1 .. b : i = a + k

(* Two sequences one after the other.                                      *)
LEMMA JoinedS ==
    ASSUME NEW S, NEW p \in Seq(S), NEW q \in Seq(S), NEW a \in Nat, NEW b \in Nat,
           a = Len(p), b = Len(q), NEW r, r = p \o q
    PROVE  JoinIs(S, p, q, r, a, b)
PROOF
  <1>1. r \in Seq(S) /\ Len(r) = a + b
    BY ConcatProperties
  <1>2. \A i \in 1 .. a + b : r[i] = IF i <= a THEN p[i] ELSE q[i - a]
    BY ConcatProperties
  <1>3. ASSUME NEW i \in 1 .. a PROVE r[i] = p[i]
    <2>1. i \in 1 .. a + b /\ i <= a
      OBVIOUS
    <2> QED
      BY <1>2, <2>1
  <1>4. ASSUME NEW k \in 1 .. b PROVE r[a + k] = q[k]
    <2>1. a + k \in 1 .. a + b /\ ~(a + k <= a) /\ (a + k) - a = k
      OBVIOUS
    <2> QED
      BY <1>2, <2>1
  <1>5. ASSUME NEW i \in 1 .. a + b PROVE i \in 1 .. a \/ \E k \in 1 .. b : i = a + k
    <2>1. CASE i > a
      <3>1. i - a \in 1 .. b /\ i = a + (i - a)
        BY <2>1
      <3> QED
        BY <3>1
    <2> QED
      BY <2>1
  <1> QED
    BY <1>1, <1>3, <1>4, <1>5 DEF JoinIs

(* A program of which nothing stands in the way of what it follows.        *)
Plain(q) ==
    \A k \in 1 .. Len(q) : EntryAt(q, k) /\ q[k][1] \notin {"hubAdd", "release", "clear"}

(* A joined program has the steps of both of its parts.                    *)
LEMMA HasJoined ==
    ASSUME NEW p \in Seq(Ops), NEW q \in Seq(Ops), NEW op
    PROVE  Has(p \o q, op) <=> Has(p, op) \/ Has(q, op)
PROOF
  <1>1. PICK a \in Nat, b \in Nat : a = Len(p) /\ b = Len(q)
    OBVIOUS
  <1>2. PICK r : r = p \o q
    OBVIOUS
  <1>3. /\ r \in Seq(Ops) /\ Len(r) = a + b
        /\ \A i \in 1 .. a : r[i] = p[i]
        /\ \A k \in 1 .. b : r[a + k] = q[k]
        /\ \A i \in 1 .. a + b : i \in 1 .. a \/ \E k \in 1 .. b : i = a + k
    <2>1. JoinIs(Ops, p, q, r, a, b)
      BY <1>1, <1>2, JoinedS
    <2> QED
      BY <2>1 DEF JoinIs
  <1>4. ASSUME Has(r, op) PROVE Has(p, op) \/ Has(q, op)
    BY <1>1, <1>3, <1>4 DEF Has
  <1>5. ASSUME Has(p, op) PROVE Has(r, op)
    <2>1. \A i \in 1 .. a : i \in 1 .. a + b
      OBVIOUS
    <2> QED
      BY <1>1, <1>3, <1>5, <2>1 DEF Has
  <1>6. ASSUME Has(q, op) PROVE Has(r, op)
    <2>1. \A k \in 1 .. b : a + k \in 1 .. a + b
      OBVIOUS
    <2> QED
      BY <1>1, <1>3, <1>6, <2>1 DEF Has
  <1> QED
    BY <1>2, <1>4, <1>5, <1>6

(* Joining keeps each subscription next to its command to Redis.           *)
LEMMA EntriesJoined ==
    ASSUME NEW p \in Seq(Ops), NEW q \in Seq(Ops), NEW a \in Nat, NEW b \in Nat,
           a = Len(p), b = Len(q), NEW r, r = p \o q
    PROVE  /\ \A k \in 1 .. a : EntryAt(p, k) => EntryAt(r, k)
           /\ \A k \in 1 .. b : EntryAt(q, k) => EntryAt(r, a + k)
PROOF
  <1>3. /\ r \in Seq(Ops) /\ Len(r) = a + b
        /\ \A i \in 1 .. a : r[i] = p[i]
        /\ \A k \in 1 .. b : r[a + k] = q[k]
    BY JoinedS DEF JoinIs
  <1>4. ASSUME NEW k \in 1 .. a, EntryAt(p, k), r[k][1] = "subscribe"
        PROVE  k + 1 \in 1 .. Len(r) /\ r[k + 1] = <<"sendSubscribe", r[k][2]>>
    <2>1. p[k] = r[k] /\ k + 1 \in 1 .. a /\ p[k + 1] = <<"sendSubscribe", p[k][2]>>
      BY <1>3, <1>4 DEF EntryAt
    <2>2. k + 1 \in 1 .. a + b
      BY <2>1
    <2> QED
      BY <1>3, <2>1, <2>2
  <1>5. ASSUME NEW k \in 1 .. b, EntryAt(q, k), r[a + k][1] = "subscribe"
        PROVE  (a + k) + 1 \in 1 .. Len(r) /\ r[(a + k) + 1] = <<"sendSubscribe", r[a + k][2]>>
    <2>1. q[k] = r[a + k] /\ k + 1 \in 1 .. b /\ q[k + 1] = <<"sendSubscribe", q[k][2]>>
      BY <1>3, <1>5 DEF EntryAt
    <2>2. (a + k) + 1 \in 1 .. a + b /\ (a + k) + 1 = a + (k + 1)
      BY <2>1
    <2> QED
      BY <1>3, <2>1, <2>2
  <1> QED
    BY <1>4, <1>5 DEF EntryAt

(* Two plain programs make a plain one.                                    *)
LEMMA PlainJoined ==
    ASSUME NEW p \in Seq(Ops), NEW q \in Seq(Ops), Plain(p), Plain(q)
    PROVE  Plain(p \o q)
PROOF
  <1>1. PICK a \in Nat, b \in Nat : a = Len(p) /\ b = Len(q)
    OBVIOUS
  <1>2. PICK r : r = p \o q
    OBVIOUS
  <1>3. /\ r \in Seq(Ops) /\ Len(r) = a + b
        /\ \A i \in 1 .. a : r[i] = p[i]
        /\ \A k \in 1 .. b : r[a + k] = q[k]
        /\ \A i \in 1 .. a + b : i \in 1 .. a \/ \E k \in 1 .. b : i = a + k
    <2>1. JoinIs(Ops, p, q, r, a, b)
      BY <1>1, <1>2, JoinedS
    <2> QED
      BY <2>1 DEF JoinIs
  <1>4. /\ \A k \in 1 .. a : EntryAt(p, k) => EntryAt(r, k)
        /\ \A k \in 1 .. b : EntryAt(q, k) => EntryAt(r, a + k)
    BY <1>1, <1>2, EntriesJoined
  <1>5. ASSUME NEW k \in 1 .. a
        PROVE  EntryAt(r, k) /\ r[k][1] \notin {"hubAdd", "release", "clear"}
    BY <1>1, <1>3, <1>4 DEF Plain
  <1>6. ASSUME NEW k \in 1 .. b
        PROVE  EntryAt(r, a + k) /\ r[a + k][1] \notin {"hubAdd", "release", "clear"}
    BY <1>1, <1>3, <1>4 DEF Plain
  <1>7. Plain(r)
    <2> SUFFICES ASSUME NEW i \in 1 .. a + b
                 PROVE  EntryAt(r, i) /\ r[i][1] \notin {"hubAdd", "release", "clear"}
      BY <1>3 DEF Plain
    <2>1. CASE i \in 1 .. a
      BY <1>5, <2>1
    <2>2. ASSUME NEW k \in 1 .. b, i = a + k
          PROVE  EntryAt(r, i) /\ r[i][1] \notin {"hubAdd", "release", "clear"}
      BY <1>6, <2>2
    <2> QED
      BY <1>3, <2>1, <2>2
  <1> QED
    BY <1>2, <1>7

(* What is plain may follow anything.                                      *)
LEMMA OrderlyThenPlain ==
    ASSUME NEW p \in Seq(Ops), NEW q \in Seq(Ops), Orderly(p), Plain(q)
    PROVE  Orderly(p \o q)
PROOF
  <1>1. PICK a \in Nat, b \in Nat : a = Len(p) /\ b = Len(q)
    OBVIOUS
  <1>2. PICK r : r = p \o q
    OBVIOUS
  <1>3. /\ r \in Seq(Ops) /\ Len(r) = a + b
        /\ \A i \in 1 .. a : r[i] = p[i]
        /\ \A k \in 1 .. b : r[a + k] = q[k]
        /\ \A i \in 1 .. a + b : i \in 1 .. a \/ \E k \in 1 .. b : i = a + k
    <2>1. JoinIs(Ops, p, q, r, a, b)
      BY <1>1, <1>2, JoinedS
    <2> QED
      BY <2>1 DEF JoinIs
  <1>4. /\ \A k \in 1 .. a : EntryAt(p, k) => EntryAt(r, k)
        /\ \A k \in 1 .. b : EntryAt(q, k) => EntryAt(r, a + k)
    BY <1>1, <1>2, EntriesJoined
  <1>5. ASSUME NEW k \in 1 .. a
        PROVE  EntryAt(r, k) /\ RowAt(r, k) /\ ReleaseAt(r, k) /\ ClearAt(r, k)
    <2>1. EntryAt(p, k) /\ RowAt(p, k) /\ ReleaseAt(p, k) /\ ClearAt(p, k)
      BY <1>1 DEF Orderly
    <2>2. \A j \in 1 .. k - 1 : j \in 1 .. a
      OBVIOUS
    <2>3. r[k] = p[k] /\ \A j \in 1 .. k - 1 : r[j] = p[j]
      BY <1>3, <2>2
    <2>4. 1 \in 1 .. a
      OBVIOUS
    <2>5. r[1] = p[1]
      BY <1>3, <2>4
    <2>6. RowAt(r, k) /\ ReleaseAt(r, k)
      BY <2>1, <2>3 DEF RowAt, ReleaseAt
    <2>7. ClearAt(r, k)
      BY <2>1, <2>3, <2>5 DEF ClearAt
    <2> QED
      BY <1>4, <2>1, <2>6, <2>7
  <1>6. ASSUME NEW k \in 1 .. b
        PROVE  EntryAt(r, a + k) /\ RowAt(r, a + k) /\ ReleaseAt(r, a + k) /\ ClearAt(r, a + k)
    <2>1. EntryAt(q, k) /\ q[k][1] \notin {"hubAdd", "release", "clear"} /\ r[a + k] = q[k]
      BY <1>1, <1>3 DEF Plain
    <2> QED
      BY <1>4, <2>1 DEF RowAt, ReleaseAt, ClearAt
  <1>7. Orderly(r)
    BY <1>3, <1>5, <1>6 DEF Orderly
  <1> QED
    BY <1>2, <1>7

(* Subscriptions may come before a row, unsubscriptions before a release.  *)
Lead(p, q) ==
    \/ /\ \A k \in 1 .. Len(p) : p[k][1] \in {"subscribe", "sendSubscribe"} /\ EntryAt(p, k)
       /\ \A k \in 1 .. Len(q) : q[k][1] \notin {"release", "clear"}
    \/ /\ \A k \in 1 .. Len(p) : p[k][1] \in {"unsubscribe", "sendUnsubscribe"}
       /\ \A k \in 1 .. Len(q) : q[k][1] \notin {"hubAdd", "clear"}

(* A program may be led by what its first step is replaced by.             *)
LEMMA LeadThenOrderly ==
    ASSUME NEW p \in Seq(Ops), NEW q \in Seq(Ops), Lead(p, q), Orderly(q)
    PROVE  Orderly(p \o q)
PROOF
  <1>1. PICK a \in Nat, b \in Nat : a = Len(p) /\ b = Len(q)
    OBVIOUS
  <1>2. PICK r : r = p \o q
    OBVIOUS
  <1>3. /\ r \in Seq(Ops) /\ Len(r) = a + b
        /\ \A i \in 1 .. a : r[i] = p[i]
        /\ \A k \in 1 .. b : r[a + k] = q[k]
        /\ \A i \in 1 .. a + b : i \in 1 .. a \/ \E k \in 1 .. b : i = a + k
    <2>1. JoinIs(Ops, p, q, r, a, b)
      BY <1>1, <1>2, JoinedS
    <2> QED
      BY <2>1 DEF JoinIs
  <1>4. /\ \A k \in 1 .. a : EntryAt(p, k) => EntryAt(r, k)
        /\ \A k \in 1 .. b : EntryAt(q, k) => EntryAt(r, a + k)
    BY <1>1, <1>2, EntriesJoined
  <1>5. ASSUME NEW k \in 1 .. a
        PROVE  EntryAt(r, k) /\ RowAt(r, k) /\ ReleaseAt(r, k) /\ ClearAt(r, k)
    <2>1. r[k] = p[k] /\ p[k][1] \in {"subscribe", "sendSubscribe", "unsubscribe", "sendUnsubscribe"}
      BY <1>1, <1>3 DEF Lead
    <2>2. EntryAt(p, k)
      BY <1>1 DEF Lead, EntryAt
    <2> QED
      BY <1>4, <2>1, <2>2 DEF RowAt, ReleaseAt, ClearAt
  <1>6. ASSUME NEW k \in 1 .. b
        PROVE  EntryAt(r, a + k) /\ RowAt(r, a + k) /\ ReleaseAt(r, a + k) /\ ClearAt(r, a + k)
    <2>1. EntryAt(q, k) /\ RowAt(q, k) /\ ReleaseAt(q, k) /\ r[a + k] = q[k]
      BY <1>1, <1>3 DEF Orderly
    <2>2. q[k][1] # "clear"
      BY <1>1 DEF Lead
    <2>3. ASSUME NEW j \in 1 .. (a + k) - 1
          PROVE  \/ j \in 1 .. a /\ r[j] = p[j]
                 \/ \E l \in 1 .. k - 1 : r[j] = q[l]
      <3>1. j \in 1 .. a + b
        OBVIOUS
      <3>2. CASE j \in 1 .. a
        BY <1>3, <3>2
      <3>3. ASSUME NEW l \in 1 .. b, j = a + l PROVE \E m \in 1 .. k - 1 : r[j] = q[m]
        <4>1. l \in 1 .. k - 1
          BY <3>3
        <4> QED
          BY <1>3, <3>3, <4>1
      <3> QED
        BY <1>3, <3>1, <3>2, <3>3
    <2>4. CASE /\ \A j \in 1 .. a : p[j][1] \in {"subscribe", "sendSubscribe"}
               /\ q[k][1] # "release"
      <3>1. RowAt(r, a + k)
        BY <2>1, <2>3, <2>4 DEF RowAt
      <3> QED
        BY <1>4, <2>1, <2>2, <2>4, <3>1 DEF ReleaseAt, ClearAt
    <2>5. CASE /\ \A j \in 1 .. a : p[j][1] \in {"unsubscribe", "sendUnsubscribe"}
               /\ q[k][1] # "hubAdd"
      <3>1. ReleaseAt(r, a + k)
        BY <2>1, <2>3, <2>5 DEF ReleaseAt
      <3> QED
        BY <1>4, <2>1, <2>2, <2>5, <3>1 DEF RowAt, ClearAt
    <2> QED
      BY <1>1, <2>4, <2>5 DEF Lead
  <1>7. Orderly(r)
    BY <1>3, <1>5, <1>6 DEF Orderly
  <1> QED
    BY <1>2, <1>7

(* What remains of a program.                                              *)
LEMMA TailIs ==
    ASSUME NEW q \in Seq(Ops), q # << >>
    PROVE  /\ q[1] \in Ops /\ Head(q) = q[1] /\ Tail(q) \in Seq(Ops) /\ Len(Tail(q)) \in Nat
           /\ Len(q) = Len(Tail(q)) + 1 /\ 1 \in 1 .. Len(q)
           /\ \A k \in 1 .. Len(Tail(q)) : k + 1 \in 1 .. Len(q) /\ Tail(q)[k] = q[k + 1]
OBVIOUS

(* What a program has is its first step or is in the rest.                 *)
LEMMA HasTail ==
    ASSUME NEW q \in Seq(Ops), q # << >>, NEW op
    PROVE  Has(q, op) <=> q[1] = op \/ Has(Tail(q), op)
PROOF
  <1>1. PICK t \in Seq(Ops), m \in Nat : t = Tail(q) /\ m = Len(t) /\ Len(q) = m + 1
                /\ 1 \in 1 .. Len(q)
                /\ \A k \in 1 .. m : k + 1 \in 1 .. Len(q) /\ t[k] = q[k + 1]
    BY TailIs
  <1>2. ASSUME NEW k \in 1 .. Len(q), k # 1 PROVE \E l \in 1 .. m : t[l] = q[k]
    <2>1. k - 1 \in 1 .. m /\ (k - 1) + 1 = k
      BY <1>1, <1>2
    <2> QED
      BY <1>1, <2>1
  <1> QED
    BY <1>1, <1>2 DEF Has

(* An orderly program is orderly without its first step.                   *)
LEMMA TailOrderly ==
    ASSUME NEW q \in Seq(Ops), q # << >>, Orderly(q)
    PROVE  Orderly(Tail(q))
PROOF
  <1>1. PICK t \in Seq(Ops), m \in Nat : t = Tail(q) /\ m = Len(t) /\ Len(q) = m + 1
                /\ \A k \in 1 .. m : k + 1 \in 1 .. Len(q) /\ t[k] = q[k + 1]
    BY TailIs
  <1>2. ASSUME NEW k \in 1 .. m
        PROVE  EntryAt(t, k) /\ RowAt(t, k) /\ ReleaseAt(t, k) /\ ClearAt(t, k)
    <2>1. /\ k + 1 \in 1 .. Len(q) /\ t[k] = q[k + 1]
          /\ EntryAt(q, k + 1) /\ RowAt(q, k + 1) /\ ReleaseAt(q, k + 1) /\ ClearAt(q, k + 1)
      BY <1>1 DEF Orderly
    <2>2. EntryAt(t, k)
      <3> SUFFICES ASSUME t[k][1] = "subscribe"
                   PROVE  k + 1 \in 1 .. m /\ t[k + 1] = <<"sendSubscribe", t[k][2]>>
        BY <1>1 DEF EntryAt
      <3>1. (k + 1) + 1 \in 1 .. Len(q) /\ q[(k + 1) + 1] = <<"sendSubscribe", q[k + 1][2]>>
        BY <2>1 DEF EntryAt
      <3>2. k + 1 \in 1 .. m
        BY <1>1, <3>1
      <3> QED
        BY <1>1, <2>1, <3>1, <3>2
    <2>3. ASSUME NEW j \in 1 .. k - 1 PROVE j + 1 \in 1 .. (k + 1) - 1 /\ t[j] = q[j + 1]
      <3>1. j \in 1 .. m /\ j + 1 \in 1 .. (k + 1) - 1
        OBVIOUS
      <3> QED
        BY <1>1, <3>1
    <2>4. RowAt(t, k) /\ ReleaseAt(t, k)
      BY <2>1, <2>3 DEF RowAt, ReleaseAt
    <2>5. ClearAt(t, k)
      BY <2>1 DEF ClearAt
    <2> QED
      BY <2>2, <2>4, <2>5
  <1>3. Orderly(t)
    BY <1>1, <1>2 DEF Orderly
  <1> QED
    BY <1>1, <1>3

(* What the first step says of those that come after it.                   *)
LEMMA TailPlain ==
    ASSUME NEW q \in Seq(Ops), q # << >>, Orderly(q)
    PROVE  /\ \A k \in 1 .. Len(Tail(q)) : EntryAt(Tail(q), k)
           /\ q[1][1] \notin {"subscribe", "sendSubscribe"} =>
                \A k \in 1 .. Len(Tail(q)) : Tail(q)[k][1] # "hubAdd"
           /\ q[1][1] \notin {"unsubscribe", "sendUnsubscribe"} =>
                \A k \in 1 .. Len(Tail(q)) : Tail(q)[k][1] # "release"
           /\ q[1][1] # "hubRemoveChannel" =>
                \A k \in 1 .. Len(Tail(q)) : Tail(q)[k][1] # "clear"
PROOF
  <1>1. PICK t \in Seq(Ops), m \in Nat : t = Tail(q) /\ m = Len(t) /\ Len(q) = m + 1
                /\ \A k \in 1 .. m : k + 1 \in 1 .. Len(q) /\ t[k] = q[k + 1]
    BY TailIs
  <1>2. Orderly(t)
    BY <1>1, TailOrderly
  <1>3. ASSUME NEW k \in 1 .. m
        PROVE  /\ t[k] = q[k + 1] /\ RowAt(q, k + 1) /\ ReleaseAt(q, k + 1) /\ ClearAt(q, k + 1)
               /\ 1 \in 1 .. (k + 1) - 1 /\ k + 1 # 1
    <2>1. k + 1 \in 1 .. Len(q) /\ 1 \in 1 .. (k + 1) - 1 /\ k + 1 # 1
      BY <1>1
    <2> QED
      BY <1>1, <2>1 DEF Orderly
  <1>4. q[1][1] \notin {"subscribe", "sendSubscribe"} => \A k \in 1 .. m : t[k][1] # "hubAdd"
    BY <1>3 DEF RowAt
  <1>5. q[1][1] \notin {"unsubscribe", "sendUnsubscribe"} => \A k \in 1 .. m : t[k][1] # "release"
    BY <1>3 DEF ReleaseAt
  <1>6. q[1][1] # "hubRemoveChannel" => \A k \in 1 .. m : t[k][1] # "clear"
    BY <1>3 DEF ClearAt
  <1> QED
    BY <1>1, <1>2, <1>4, <1>5, <1>6 DEF Orderly

-----------------------------------------------------------------------------
(* The programs that the handlers run.                                     *)

(* A step is named by its first part, and carries what its name says.      *)
LEMMA OpIs ==
    ASSUME NEW op \in Ops
    PROVE  /\ op[1] \in {"subscribe", "sendSubscribe", "unsubscribe", "sendUnsubscribe"} =>
                op[2] \in Streams /\ op = <<op[1], op[2]>>
           /\ op[1] \in {"hubAdd", "hubRemove", "list", "unlist"} =>
                op[2] \in N!Pairs /\ op = <<op[1], op[2]>>
           /\ op[1] \in {"hubRemoveChannel", "clear"} => op[2] \in Idents /\ op = <<op[1], op[2]>>
           /\ op[1] \in {"release", "restore"} => op[2] \in PairSets /\ op = <<op[1], op[2]>>
           /\ op[1] \in {"start", "stop"} => op[2] \in Idents /\ op[3] \in Sets
PROOF
  <1>1. CASE op \in {"subscribe", "sendSubscribe", "unsubscribe", "sendUnsubscribe"} \X Streams
    BY <1>1
  <1>2. CASE op \in {"hubAdd", "hubRemove", "list", "unlist"} \X N!Pairs
    BY <1>2
  <1>3. CASE op \in {"hubRemoveChannel", "clear"} \X Idents
    BY <1>3
  <1>4. CASE op \in {"release", "restore"} \X PairSets
    BY <1>4
  <1>5. CASE op \in {"start", "stop"} \X Idents \X Sets
    BY <1>5
  <1>6. CASE op \in {<<"removeSession">>, <<"commit">>}
    BY <1>6
  <1> QED
    BY <1>1, <1>2, <1>3, <1>4, <1>5, <1>6 DEF Ops

(* The steps about a stream, in the tracker and in the subscriber.         *)
LEMMA StreamOps ==
    ASSUME NEW x \in Streams
    PROVE  /\ <<"subscribe", x>> \in Ops /\ <<"sendSubscribe", x>> \in Ops
           /\ <<"unsubscribe", x>> \in Ops /\ <<"sendUnsubscribe", x>> \in Ops
BY DEF Ops

(* The steps about a stream of a channel, in the hub and the state.        *)
LEMMA PairOps ==
    ASSUME NEW p \in N!Pairs
    PROVE  /\ <<"hubAdd", p>> \in Ops /\ <<"hubRemove", p>> \in Ops
           /\ <<"list", p>> \in Ops /\ <<"unlist", p>> \in Ops
BY DEF Ops

(* The other steps of a program.                                           *)
LEMMA OtherOps ==
    /\ \A i \in Idents : <<"hubRemoveChannel", i>> \in Ops /\ <<"clear", i>> \in Ops
    /\ \A R \in PairSets : <<"release", R>> \in Ops /\ <<"restore", R>> \in Ops
    /\ \A i \in Idents, X \in Sets : <<"start", i, X>> \in Ops /\ <<"stop", i, X>> \in Ops
    /\ <<"removeSession">> \in Ops /\ <<"commit">> \in Ops
BY DEF Ops

(* The empty program.                                                      *)
LEMMA NoneIs ==
    << >> \in Seq(Ops) /\ Plain(<< >>) /\ Orderly(<< >>) /\ \A op : ~Has(<< >>, op)
PROOF
  <1>1. << >> \in Seq(Ops) /\ Len(<< >>) = 0 /\ 1 .. 0 = {}
    OBVIOUS
  <1> QED
    BY <1>1 DEF Plain, Orderly, Has

(* A program of one step.                                                  *)
LEMMA OneIs ==
    ASSUME NEW op \in Ops
    PROVE  /\ <<op>> \in Seq(Ops) /\ \A o : Has(<<op>>, o) <=> o = op
           /\ op[1] # "subscribe" => Orderly(<<op>>)
           /\ op[1] \notin {"subscribe", "hubAdd", "release", "clear"} => Plain(<<op>>)
           /\ \A k \in 1 .. Len(<<op>>) : <<op>>[k] = op
PROOF
  <1>1. PICK q \in Seq(Ops) : q = <<op>> /\ Len(q) = 1 /\ q[1] = op
    <2>1. <<op>> \in Seq(Ops)
      OBVIOUS
    <2> QED
      BY <2>1
  <1>2. 1 .. 1 = {1} /\ 1 .. (1 - 1) = {}
    OBVIOUS
  <1>3. \A o : Has(q, o) <=> o = op
    BY <1>1, <1>2 DEF Has
  <1>4. op[1] # "subscribe" => Orderly(q)
    BY <1>1, <1>2 DEF Orderly, EntryAt, RowAt, ReleaseAt, ClearAt
  <1>5. op[1] \notin {"subscribe", "hubAdd", "release", "clear"} => Plain(q)
    BY <1>1, <1>2 DEF Plain, EntryAt
  <1> QED
    BY <1>1, <1>2, <1>3, <1>4, <1>5

(* Two steps.                                                              *)
LEMMA TwoAre ==
    ASSUME NEW a \in Ops, NEW b \in Ops
    PROVE  /\ <<a, b>> \in Seq(Ops) /\ \A o : Has(<<a, b>>, o) <=> o = a \/ o = b
           /\ \A k \in 1 .. Len(<<a, b>>) : <<a, b>>[k] = a \/ <<a, b>>[k] = b
           /\ a[1] = "subscribe" /\ b = <<"sendSubscribe", a[2]>> =>
                \A k \in 1 .. Len(<<a, b>>) : EntryAt(<<a, b>>, k)
           /\ a[1] # "subscribe" /\ b[1] \notin {"subscribe", "hubAdd", "release", "clear"} =>
                Orderly(<<a, b>>)
           /\ a[1] = "hubRemoveChannel" /\ b = <<"clear", a[2]>> => Orderly(<<a, b>>)
           /\ (/\ a[1] \notin {"subscribe", "hubAdd", "release", "clear"}
               /\ b[1] \notin {"subscribe", "hubAdd", "release", "clear"}) => Plain(<<a, b>>)
PROOF
  <1>1. PICK q \in Seq(Ops) : q = <<a, b>> /\ Len(q) = 2 /\ q[1] = a /\ q[2] = b
    <2>1. <<a, b>> \in Seq(Ops)
      OBVIOUS
    <2> QED
      BY <2>1
  <1>2. 1 .. 2 = {1, 2} /\ 1 .. (1 - 1) = {} /\ 1 + 1 = 2 /\ 2 \in 1 .. 2
    OBVIOUS
  <1>3. \A o : Has(q, o) <=> o = a \/ o = b
    BY <1>1, <1>2 DEF Has
  <1>4. ASSUME a[1] = "subscribe", b = <<"sendSubscribe", a[2]>>
        PROVE  \A k \in 1 .. Len(q) : EntryAt(q, k)
    <2>1. EntryAt(q, 1)
      BY <1>1, <1>2, <1>4 DEF EntryAt
    <2>2. EntryAt(q, 2)
      BY <1>1, <1>4 DEF EntryAt
    <2> QED
      BY <1>1, <1>2, <2>1, <2>2
  <1>5. ASSUME a[1] # "subscribe"
        PROVE  EntryAt(q, 1) /\ RowAt(q, 1) /\ ReleaseAt(q, 1) /\ ClearAt(q, 1)
    BY <1>1, <1>2, <1>5 DEF EntryAt, RowAt, ReleaseAt, ClearAt
  <1>6. ASSUME a[1] # "subscribe", b[1] \notin {"subscribe", "hubAdd", "release", "clear"}
        PROVE  Orderly(q)
    <2>1. EntryAt(q, 2) /\ RowAt(q, 2) /\ ReleaseAt(q, 2) /\ ClearAt(q, 2)
      BY <1>1, <1>6 DEF EntryAt, RowAt, ReleaseAt, ClearAt
    <2> QED
      BY <1>1, <1>2, <1>5, <1>6, <2>1 DEF Orderly
  <1>7. ASSUME a[1] = "hubRemoveChannel", b = <<"clear", a[2]>>
        PROVE  Orderly(q)
    <2>1. a = <<"hubRemoveChannel", a[2]>>
      BY <1>7, OpIs
    <2>2. b[1] = "clear" /\ b[2] = a[2]
      BY <1>7
    <2>3. EntryAt(q, 2) /\ RowAt(q, 2) /\ ReleaseAt(q, 2) /\ ClearAt(q, 2)
      BY <1>1, <2>1, <2>2 DEF EntryAt, RowAt, ReleaseAt, ClearAt
    <2>4. a[1] # "subscribe"
      BY <1>7
    <2> QED
      BY <1>1, <1>2, <1>5, <2>3, <2>4 DEF Orderly
  <1>8. ASSUME a[1] \notin {"subscribe", "hubAdd", "release", "clear"},
               b[1] \notin {"subscribe", "hubAdd", "release", "clear"}
        PROVE  Plain(q)
    BY <1>1, <1>2, <1>8 DEF Plain, EntryAt
  <1> QED
    BY <1>1, <1>2, <1>3, <1>4, <1>6, <1>7, <1>8

(* Start and Stop.                                                         *)
LEMMA StartStopPlain ==
    ASSUME NEW i \in Idents, NEW X \in Sets
    PROVE  /\ N!Start(i, X) \in Seq(Ops) /\ Plain(N!Start(i, X))
           /\ N!Stop(i, X) \in Seq(Ops) /\ Plain(N!Stop(i, X))
PROOF
  <1>1. PICK a \in Ops : a = <<"start", i, X>> /\ a[1] = "start"
    BY OtherOps
  <1>2. PICK b \in Ops : b = <<"stop", i, X>> /\ b[1] = "stop"
    BY OtherOps
  <1>3. <<a>> \in Seq(Ops) /\ Plain(<<a>>) /\ <<b>> \in Seq(Ops) /\ Plain(<<b>>)
    BY <1>1, <1>2, OneIs
  <1> QED
    BY <1>1, <1>2, <1>3, NoneIs DEF N!Start, N!Stop

(* The programs of handleCommandReply, and the others.                     *)
LEMMA CommitIs == N!Commit \in Seq(Ops) /\ Plain(N!Commit)
PROOF
  <1>1. PICK a \in Ops : a = <<"commit">> /\ a[1] = "commit"
    BY OtherOps
  <1> QED
    BY <1>1, OneIs DEF N!Commit

(* The reply that stops all streams of a channel.                          *)
LEMMA StopAllIs ==
    ASSUME NEW i \in Idents
    PROVE  N!StopAll(i) \in Seq(Ops) /\ Orderly(N!StopAll(i))
PROOF
  <1>1. PICK a \in Ops : a = <<"hubRemoveChannel", i>> /\ a[1] = "hubRemoveChannel" /\ a[2] = i
    BY OtherOps
  <1>2. PICK b \in Ops : b = <<"clear", a[2]>>
    BY <1>1, OtherOps
  <1>3. <<a, b>> \in Seq(Ops) /\ Orderly(<<a, b>>)
    BY <1>1, <1>2, TwoAre
  <1> QED
    BY <1>1, <1>2, <1>3 DEF N!StopAll

(* A plain program is orderly.                                             *)
LEMMA PlainOrderly ==
    ASSUME NEW q, Plain(q)
    PROVE  Orderly(q)
BY DEF Plain, Orderly, RowAt, ReleaseAt, ClearAt

-----------------------------------------------------------------------------
(* What a step leaves alone.                                               *)

(* A goroutine is the reader or the leaver of its session.                 *)
LEMMA GoroutineIs ==
    ASSUME NEW g \in N!Goroutines
    PROVE  g[2] \in Sessions /\ (g = N!Reader(g[2]) \/ g = N!Leaver(g[2]))
BY DEF N!Goroutines, N!Reader, N!Leaver

(* Readers and leavers are different, and each has its session.            *)
LEMMA GoroutinesAre ==
    ASSUME NEW s \in Sessions
    PROVE  /\ N!Reader(s) \in N!Goroutines /\ N!Leaver(s) \in N!Goroutines
           /\ N!Reader(s)[2] = s /\ N!Leaver(s)[2] = s
           /\ \A t \in Sessions : N!Reader(s) # N!Leaver(t)
           /\ \A t \in Sessions : N!Reader(s) = N!Reader(t) => s = t
BY DEF N!Goroutines, N!Reader, N!Leaver

(* A step replaces the first of its own program by P.                      *)
LEMMA ThenIs ==
    ASSUME StreamTypes, NEW g \in N!Goroutines, todo[g] # << >>, NEW P \in Seq(Ops), N!Then(g, P)
    PROVE  /\ todo' \in [N!Goroutines -> Seq(Ops)]
           /\ todo'[g] = P \o Tail(todo[g])
           /\ \A h \in N!Goroutines : h # g => todo'[h] = todo[h]
           /\ \A op : Has(todo'[g], op) <=> Has(P, op) \/ Has(Tail(todo[g]), op)
           /\ \A op : Has(todo[g], op) <=> todo[g][1] = op \/ Has(Tail(todo[g]), op)
PROOF
  <1>1. PICK q \in Seq(Ops) : q = todo[g] /\ q # << >>
    BY DEF StreamTypes
  <1>2. PICK t \in Seq(Ops) : t = Tail(q)
    BY <1>1, TailIs
  <1>3. PICK r \in Seq(Ops) : r = P \o t
    BY <1>2, ConcatProperties
  <1>4. todo' = [todo EXCEPT ![g] = r]
    BY <1>1, <1>2, <1>3 DEF N!Then
  <1>5. \A op : Has(r, op) <=> Has(P, op) \/ Has(t, op)
    BY <1>2, <1>3, HasJoined
  <1>6. \A op : Has(q, op) <=> q[1] = op \/ Has(t, op)
    BY <1>1, <1>2, HasTail
  <1> QED
    BY <1>1, <1>2, <1>3, <1>4, <1>5, <1>6 DEF StreamTypes

(* A step that leaves its program orderly keeps what is said of lives.     *)
LEMMA MovesOn ==
    ASSUME StreamTypes, ProgramsOrderly, SessionsOK,
           NEW g \in N!Goroutines, todo[g] # << >>, NEW P \in Seq(Ops), N!Then(g, P),
           Orderly(P \o Tail(todo[g])), UNCHANGED <<phase, call>>,
           \A t \in Sessions : t # g[2] => rows'[t] = rows[t]
    PROVE  ProgramsOrderly' /\ \A s \in Sessions : LivesOK(s)'
PROOF
  <1>1. /\ todo'[g] = P \o Tail(todo[g])
        /\ \A h \in N!Goroutines : h # g => todo'[h] = todo[h]
    BY ThenIs
  <1>2. ProgramsOrderly'
    BY <1>1 DEF ProgramsOrderly
  <1>3. ASSUME NEW s \in Sessions PROVE LivesOK(s)'
    <2>1. LivesOK(s)
      BY DEF SessionsOK
    <2>2. CASE s # g[2]
      <3>1. g # N!Reader(s) /\ g # N!Leaver(s)
        BY <2>2, GoroutinesAre
      <3>2. todo'[N!Reader(s)] = todo[N!Reader(s)] /\ todo'[N!Leaver(s)] = todo[N!Leaver(s)]
        BY <1>1, <3>1, GoroutinesAre
      <3> QED
        BY <2>1, <2>2, <3>2 DEF LivesOK
    <2>3. CASE g = N!Leaver(s)
      <3>1. phase[s] = "gone" /\ g # N!Reader(s)
        BY <2>1, <2>3, GoroutinesAre DEF LivesOK
      <3>2. todo'[N!Reader(s)] = todo[N!Reader(s)]
        BY <1>1, <3>1, GoroutinesAre
      <3> QED
        BY <2>1, <3>1, <3>2 DEF LivesOK
    <2>4. CASE g = N!Reader(s)
      <3>1. phase[s] # "new" /\ call[s] = N!NoCall /\ g # N!Leaver(s)
        BY <2>1, <2>4, GoroutinesAre DEF LivesOK
      <3>2. todo'[N!Leaver(s)] = todo[N!Leaver(s)]
        BY <1>1, <3>1, GoroutinesAre
      <3> QED
        BY <2>1, <3>1, <3>2 DEF LivesOK
    <2> QED
      BY <2>2, <2>3, <2>4, GoroutineIs
  <1> QED
    BY <1>2, <1>3

(* What is said of the rows of a session that the step is not about.       *)
LEMMA RowsKept ==
    ASSUME NEW s \in Sessions, RowsOK(s), todo'[N!Reader(s)] = todo[N!Reader(s)],
           rows'[s] = rows[s], held'[s] = held[s], phase'[s] = phase[s], Excepted \subseteq Excepted'
    PROVE  RowsOK(s)'
BY DEF RowsOK, RowsHeld, AddsHeld, ReleasesRowless, ClearsRowless

(* The rows of a session are disturbed by its reader only.                 *)
LEMMA OthersKept ==
    ASSUME StreamTypes, SessionsOK, NEW g \in N!Goroutines, todo[g] # << >>,
           NEW P \in Seq(Ops), N!Then(g, P), UNCHANGED phase,
           \A t \in Sessions : t # g[2] => rows'[t] = rows[t] /\ held'[t] = held[t],
           Excepted \subseteq Excepted',
           NEW s \in Sessions, g # N!Reader(s)
    PROVE  RowsOK(s)'
PROOF
  <1>1. todo'[N!Reader(s)] = todo[N!Reader(s)]
    BY ThenIs, GoroutinesAre
  <1>2. CASE s = g[2]
    <2>1. g = N!Leaver(s)
      BY <1>2, GoroutineIs
    <2>2. phase[s] = "gone"
      BY <2>1 DEF SessionsOK, LivesOK
    <2> QED
      BY <2>2 DEF RowsOK
  <1>3. CASE s # g[2]
    BY <1>1, <1>3, RowsKept DEF SessionsOK
  <1> QED
    BY <1>2, <1>3

(* Subscriptions that were to be made are still.                           *)
Promised(g, x) ==
    /\ Has(todo[g], <<"subscribe", x>>) => Has(todo'[g], <<"subscribe", x>>)
    /\ Has(todo[g], <<"sendSubscribe", x>>) => Has(todo'[g], <<"sendSubscribe", x>>)

(* What is said of a stream that the step is not about.                    *)
LEMMA StreamKept ==
    ASSUME NEW x, \A g \in N!Goroutines : Promised(g, x),
           Counted(x), Entered(x), Wired(x),
           UNCHANGED <<tracker, held, subscriptions, link, keys, subscribed>>
    PROVE  Counted(x)' /\ Entered(x)' /\ Wired(x)'
PROOF
  <1>1. Counted(x)'
    BY DEF Counted, Units
  <1>2. Entered(x)'
    BY DEF Entered, Promised
  <1>3. Wired(x)'
    BY DEF Wired, Promised
  <1> QED
    BY <1>1, <1>2, <1>3

(* No step but a subscription for x breaks a promise to subscribe to x.    *)
LEMMA Unsubscribing ==
    ASSUME StreamTypes, NEW g \in N!Goroutines, todo[g] # << >>, NEW P \in Seq(Ops), N!Then(g, P),
           NEW x \in Streams, todo[g][1] # <<"subscribe", x>>, todo[g][1] # <<"sendSubscribe", x>>
    PROVE  \A h \in N!Goroutines : Promised(h, x)
BY ThenIs DEF Promised

(* A step that is not about streams.                                       *)
LEMMA StreamsKept ==
    ASSUME StreamTypes, StreamsOK, NEW g \in N!Goroutines, todo[g] # << >>,
           NEW P \in Seq(Ops), N!Then(g, P),
           todo[g][1][1] \notin {"subscribe", "sendSubscribe"},
           UNCHANGED <<tracker, held, subscriptions, link, keys, subscribed, overreleased, late>>
    PROVE  StreamsOK'
PROOF
  <1>1. ASSUME NEW x \in Streams \ Excepted PROVE Counted(x)' /\ Entered(x)' /\ Wired(x)'
    <2>1. todo[g][1] # <<"subscribe", x>> /\ todo[g][1] # <<"sendSubscribe", x>>
      OBVIOUS
    <2>2. \A h \in N!Goroutines : Promised(h, x)
      BY <2>1, Unsubscribing
    <2> QED
      BY <2>2, StreamKept DEF StreamsOK
  <1>2. Excepted' = Excepted
    BY DEF Excepted
  <1> QED
    BY <1>1, <1>2 DEF StreamsOK

-----------------------------------------------------------------------------
(* Steps that take nothing and give nothing back.                          *)

(* A goroutine at a step of name o.                                        *)
LEMMA AtIs ==
    ASSUME StreamTypes, NEW g \in N!Goroutines, NEW o, N!At(g, o)
    PROVE  /\ todo[g] # << >> /\ todo[g] \in Seq(Ops) /\ todo[g][1] \in Ops
           /\ todo[g][1][1] = o /\ N!Arg(g) = todo[g][1][2] /\ Head(todo[g]) = todo[g][1]
PROOF
  <1>1. PICK q \in Seq(Ops) : q = todo[g] /\ q # << >> /\ Head(q)[1] = o
    BY DEF StreamTypes, N!At
  <1>2. q[1] \in Ops /\ Head(q) = q[1]
    BY <1>1, TailIs
  <1> QED
    BY <1>1, <1>2 DEF N!Arg

(* A step that is followed by nothing new keeps its program orderly.       *)
LEMMA NoneThen ==
    ASSUME StreamTypes, ProgramsOrderly, NEW g \in N!Goroutines, todo[g] # << >>
    PROVE  Orderly(<< >> \o Tail(todo[g]))
PROOF
  <1>1. PICK q \in Seq(Ops) : q = todo[g] /\ q # << >>
    BY DEF StreamTypes
  <1>2. Orderly(Tail(q)) /\ Tail(q) \in Seq(Ops)
    BY <1>1, TailIs, TailOrderly DEF ProgramsOrderly
  <1>3. << >> \o Tail(q) = Tail(q)
    BY <1>2, ConcatEmptySeq
  <1> QED
    BY <1>1, <1>2, <1>3

(* No row is added or given up by what P begins with.                      *)
Rowless(P) ==
    /\ \A p \in N!Pairs : ~Has(P, <<"hubAdd", p>>)
    /\ \A R \in PairSets : ~Has(P, <<"release", R>>)
    /\ \A i \in Idents : ~Has(P, <<"clear", i>>)

(* Only hubRemoveChannel has a clear after it.                             *)
LEMMA NotCleared ==
    ASSUME StreamTypes, ProgramsOrderly, NEW g \in N!Goroutines, todo[g] # << >>,
           todo[g][1][1] # "hubRemoveChannel", NEW i
    PROVE  ~Has(Tail(todo[g]), <<"clear", i>>)
PROOF
  <1>1. PICK q \in Seq(Ops) : q = todo[g] /\ q # << >> /\ Orderly(q) /\ q[1][1] # "hubRemoveChannel"
    BY DEF StreamTypes, ProgramsOrderly
  <1>2. \A k \in 1 .. Len(Tail(q)) : Tail(q)[k][1] # "clear"
    BY <1>1, TailPlain
  <1> QED
    BY <1>1, <1>2 DEF Has

(* A step of the reader that leaves the rows and holds of its session.     *)
LEMMA ReaderMoves ==
    ASSUME StreamTypes, ProgramsOrderly, NEW s \in Sessions, RowsOK(s), NEW g, g = N!Reader(s),
           todo[g] # << >>, NEW P \in Seq(Ops), N!Then(g, P), UNCHANGED <<phase, rows>>,
           held'[s] = held[s], Excepted \subseteq Excepted',
           todo[g][1][1] \notin {"hubRemove", "hubRemoveChannel"}, Rowless(P)
    PROVE  RowsOK(s)'
PROOF
  <1> SUFFICES ASSUME phase[s] = "connected"
               PROVE  RowsHeld(s)' /\ AddsHeld(s)' /\ ReleasesRowless(s)' /\ ClearsRowless(s)'
    BY DEF RowsOK
  <1>1. g \in N!Goroutines
    BY GoroutinesAre
  <1>2. /\ todo' \in [N!Goroutines -> Seq(Ops)]
        /\ \A op : Has(todo'[g], op) <=> Has(P, op) \/ Has(Tail(todo[g]), op)
        /\ \A op : Has(todo[g], op) <=> todo[g][1] = op \/ Has(Tail(todo[g]), op)
    BY <1>1, ThenIs
  <1>3. RowsHeld(s) /\ AddsHeld(s) /\ ReleasesRowless(s)
    BY DEF RowsOK
  <1>4. RowsHeld(s)'
    <2>1. \A p : todo[g][1] # <<"hubRemove", p>>
      OBVIOUS
    <2> QED
      BY <1>2, <1>3, <2>1 DEF RowsHeld
  <1>5. AddsHeld(s)'
    BY <1>2, <1>3 DEF AddsHeld, Rowless
  <1>6. ReleasesRowless(s)'
    BY <1>2, <1>3 DEF ReleasesRowless, Rowless
  <1>7. ASSUME NEW i \in Idents, todo'[g] # << >>, todo'[g][1] = <<"clear", i>> PROVE FALSE
    <2>1. Has(todo'[g], <<"clear", i>>)
      <3>1. PICK q \in Seq(Ops) : q = todo'[g] /\ q # << >>
        BY <1>1, <1>2, <1>7
      <3>2. 1 \in 1 .. Len(q)
        BY <3>1, TailIs
      <3> QED
        BY <1>7, <3>1, <3>2 DEF Has
    <2> QED
      BY <1>1, <1>2, <2>1, NotCleared DEF Rowless
  <1> QED
    BY <1>4, <1>5, <1>6, <1>7 DEF ClearsRowless

(* Programs and sessions after a step that disturbs no rows.               *)
LEMMA RowsUndisturbed ==
    ASSUME StreamTypes, ProgramsOrderly, SessionsOK, NEW g \in N!Goroutines,
           todo[g] # << >>, NEW P \in Seq(Ops), N!Then(g, P), UNCHANGED <<phase, call, rows, held>>,
           Excepted \subseteq Excepted', Orderly(P \o Tail(todo[g])),
           todo[g][1][1] \notin {"hubRemove", "hubRemoveChannel"}, Rowless(P)
    PROVE  ProgramsOrderly' /\ SessionsOK'
PROOF
  <1>1. ProgramsOrderly' /\ \A s \in Sessions : LivesOK(s)'
    BY MovesOn
  <1>2. ASSUME NEW s \in Sessions PROVE RowsOK(s)'
    <2>1. CASE g = N!Reader(s)
      BY <2>1, ReaderMoves DEF SessionsOK
    <2>2. CASE g # N!Reader(s)
      BY <2>2, OthersKept
    <2> QED
      BY <2>1, <2>2
  <1> QED
    BY <1>1, <1>2 DEF SessionsOK

(* The empty program has nothing to do with rows.                          *)
LEMMA NoneRowless == Rowless(<< >>)
BY NoneIs DEF Rowless

(* AddChannelStream, RemoveChannelStream and CommitSession.                *)
LEMMA StateIsChanged ==
    ASSUME ListeningInvariant, NEW g \in N!Goroutines,
           N!AddChannelStream(g) \/ N!RemoveChannelStream(g) \/ N!CommitSession(g)
    PROVE  ListeningInvariant'
PROOF
  <1>1. PICK o \in {"list", "unlist", "commit"} : N!At(g, o)
    BY DEF N!AddChannelStream, N!RemoveChannelStream, N!CommitSession
  <1>2. /\ StreamTypes /\ ProgramsOrderly /\ StreamsOK /\ SessionsOK
    BY DEF ListeningInvariant
  <1>3. /\ todo[g] # << >> /\ todo[g][1] \in Ops /\ todo[g][1][1] = o /\ N!Arg(g) = todo[g][1][2]
    BY <1>1, <1>2, AtIs
  <1>4. /\ N!Then(g, << >>)
        /\ UNCHANGED <<phase, call, rows, held, tracker, subscriptions, link, keys, subscribed,
                       overreleased, late>>
    BY DEF N!AddChannelStream, N!RemoveChannelStream, N!CommitSession, N!life, N!pubsub, N!history
  <1>5. Excepted \subseteq Excepted'
    BY <1>4 DEF Excepted
  <1>6. ProgramsOrderly' /\ SessionsOK'
    BY <1>1, <1>2, <1>3, <1>4, <1>5, NoneIs, NoneThen, NoneRowless, RowsUndisturbed
  <1>7. StreamsOK'
    BY <1>1, <1>2, <1>3, <1>4, NoneIs, StreamsKept
  <1>8. todo' \in [N!Goroutines -> Seq(Ops)]
    BY <1>2, <1>3, <1>4, NoneIs, ThenIs
  <1>9. /\ listed' \in [Sessions -> PairSets] /\ \A s \in Sessions : cache'[s].listed \in PairSets
        /\ DOMAIN cache' = Sessions
    <2>1. g[2] \in Sessions
      BY GoroutineIs
    <2>2. CASE N!AddChannelStream(g)
      <3>1. N!Arg(g) \in N!Pairs
        BY <1>2, <2>2, AtIs, OpIs DEF N!AddChannelStream
      <3> QED
        BY <1>2, <2>1, <2>2, <3>1 DEF N!AddChannelStream, StreamTypes, PairSets, N!Pairs
    <2>3. CASE N!RemoveChannelStream(g)
      BY <1>2, <2>1, <2>3 DEF N!RemoveChannelStream, StreamTypes, PairSets
    <2>4. CASE N!CommitSession(g)
      <3>1. listed[g[2]] \in PairSets
        BY <1>2, <2>1 DEF StreamTypes
      <3> QED
        BY <1>2, <2>1, <2>4, <3>1 DEF N!CommitSession, StreamTypes
    <2> QED
      BY <2>2, <2>3, <2>4
  <1>10. StreamTypes'
    BY <1>2, <1>4, <1>8, <1>9 DEF StreamTypes
  <1> QED
    BY <1>6, <1>7, <1>10 DEF ListeningInvariant

-----------------------------------------------------------------------------
(* Redis.                                                                  *)

(* A step that is not run is still to be run.                              *)
LEMMA StillToRun ==
    ASSUME StreamTypes, NEW g \in N!Goroutines, todo[g] # << >>, NEW P \in Seq(Ops), N!Then(g, P),
           NEW op, todo[g][1] # op
    PROVE  \A h \in N!Goroutines : Has(todo[h], op) => Has(todo'[h], op)
BY ThenIs

(* The count of a stream whose tracker and holds are left alone.           *)
LEMMA CountKept ==
    ASSUME NEW x, Counted(x), UNCHANGED <<tracker, held>>
    PROVE  Counted(x)'
BY DEF Counted, Units

(* Subscribe of the subscriber makes the entry.                            *)
LEMMA EntryIsMade ==
    ASSUME ListeningInvariant, NEW g \in N!Goroutines, N!SubscribeEntry(g)
    PROVE  ListeningInvariant'
PROOF
  <1>1. N!At(g, "subscribe") /\ N!Then(g, << >>)
        /\ UNCHANGED <<listed, rows, cache, phase, call, tracker, link, keys, subscribed, held,
                       overreleased, late>>
        /\ subscriptions' = subscriptions \cup {N!Arg(g)}
    BY DEF N!SubscribeEntry, N!state, N!life, N!history
  <1>2. StreamTypes /\ ProgramsOrderly /\ StreamsOK /\ SessionsOK
    BY DEF ListeningInvariant
  <1>3. PICK y \in Streams : todo[g] # << >> /\ todo[g][1] = <<"subscribe", y>> /\ N!Arg(g) = y
    BY <1>1, <1>2, AtIs, OpIs
  <1>4. Excepted' = Excepted
    BY <1>1 DEF Excepted
  <1>5. ProgramsOrderly' /\ SessionsOK'
    <2>1. todo[g][1][1] \notin {"hubRemove", "hubRemoveChannel"} /\ Excepted \subseteq Excepted'
      BY <1>3, <1>4
    <2>2. Orderly(<< >> \o Tail(todo[g])) /\ << >> \in Seq(Ops) /\ Rowless(<< >>)
      BY <1>2, <1>3, NoneIs, NoneThen, NoneRowless
    <2>3. UNCHANGED <<phase, call, rows, held>>
      BY <1>1
    <2> QED
      BY <1>1, <1>2, <1>3, <2>1, <2>2, <2>3, RowsUndisturbed
  <1>6. StreamTypes'
    <2>1. todo' \in [N!Goroutines -> Seq(Ops)]
      BY <1>1, <1>2, <1>3, NoneIs, ThenIs
    <2> QED
      BY <1>1, <1>2, <2>1 DEF StreamTypes
  <1>7. ASSUME NEW x \in Streams \ Excepted PROVE Counted(x)' /\ Entered(x)' /\ Wired(x)'
    <2>1. Counted(x) /\ Entered(x) /\ Wired(x)
      BY <1>2 DEF StreamsOK
    <2>2. Counted(x)'
      BY <1>1, <2>1, CountKept
    <2>3. Entered(x)'
      <3>1. CASE x = y
        BY <1>1, <1>3, <3>1 DEF Entered
      <3>2. CASE x # y
        <4>1. todo[g][1] # <<"subscribe", x>>
          BY <1>3, <3>2
        <4>2. \A h \in N!Goroutines : Has(todo[h], <<"subscribe", x>>) => Has(todo'[h], <<"subscribe", x>>)
          BY <1>1, <1>2, <1>3, <4>1, NoneIs, StillToRun
        <4> QED
          BY <1>1, <2>1, <4>2 DEF Entered
      <3> QED
        BY <3>1, <3>2
    <2>4. Wired(x)'
      <3>1. todo[g][1] # <<"sendSubscribe", x>>
        BY <1>3
      <3>2. \A h \in N!Goroutines :
               Has(todo[h], <<"sendSubscribe", x>>) => Has(todo'[h], <<"sendSubscribe", x>>)
        BY <1>1, <1>2, <1>3, <3>1, NoneIs, StillToRun
      <3> QED
        BY <1>1, <2>1, <3>2 DEF Wired
    <2> QED
      BY <2>2, <2>3, <2>4
  <1> QED
    BY <1>4, <1>5, <1>6, <1>7 DEF ListeningInvariant, StreamsOK

(* Subscribe of the subscriber sends its command to Redis.                 *)
LEMMA CommandIsSent ==
    ASSUME ListeningInvariant, NEW g \in N!Goroutines, N!SendSubscribe(g)
    PROVE  ListeningInvariant'
PROOF
  <1>1. N!At(g, "sendSubscribe") /\ N!Then(g, << >>)
        /\ UNCHANGED <<listed, rows, cache, phase, call, tracker, link, keys, subscriptions, held,
                       overreleased, late>>
        /\ subscribed' = IF link = "down" THEN subscribed ELSE subscribed \cup {N!Arg(g)}
    BY DEF N!SendSubscribe, N!state, N!life, N!history
  <1>2. StreamTypes /\ ProgramsOrderly /\ StreamsOK /\ SessionsOK
    BY DEF ListeningInvariant
  <1>3. PICK y \in Streams : todo[g] # << >> /\ todo[g][1] = <<"sendSubscribe", y>> /\ N!Arg(g) = y
    BY <1>1, <1>2, AtIs, OpIs
  <1>4. Excepted' = Excepted
    BY <1>1 DEF Excepted
  <1>5. ProgramsOrderly' /\ SessionsOK'
    <2>1. todo[g][1][1] \notin {"hubRemove", "hubRemoveChannel"} /\ Excepted \subseteq Excepted'
      BY <1>3, <1>4
    <2>2. Orderly(<< >> \o Tail(todo[g])) /\ << >> \in Seq(Ops) /\ Rowless(<< >>)
      BY <1>2, <1>3, NoneIs, NoneThen, NoneRowless
    <2>3. UNCHANGED <<phase, call, rows, held>>
      BY <1>1
    <2> QED
      BY <1>1, <1>2, <1>3, <2>1, <2>2, <2>3, RowsUndisturbed
  <1>6. StreamTypes'
    <2>1. todo' \in [N!Goroutines -> Seq(Ops)]
      BY <1>1, <1>2, <1>3, NoneIs, ThenIs
    <2> QED
      BY <1>1, <1>2, <2>1 DEF StreamTypes
  <1>7. ASSUME NEW x \in Streams \ Excepted PROVE Counted(x)' /\ Entered(x)' /\ Wired(x)'
    <2>1. Counted(x) /\ Entered(x) /\ Wired(x)
      BY <1>2 DEF StreamsOK
    <2>2. Counted(x)'
      BY <1>1, <2>1, CountKept
    <2>3. Entered(x)'
      <3>1. todo[g][1] # <<"subscribe", x>>
        BY <1>3
      <3>2. \A h \in N!Goroutines : Has(todo[h], <<"subscribe", x>>) => Has(todo'[h], <<"subscribe", x>>)
        BY <1>1, <1>2, <1>3, <3>1, NoneIs, StillToRun
      <3> QED
        BY <1>1, <2>1, <3>2 DEF Entered
    <2>4. Wired(x)'
      <3>1. CASE x = y
        BY <1>1, <1>3, <3>1 DEF Wired
      <3>2. CASE x # y
        <4>1. todo[g][1] # <<"sendSubscribe", x>>
          BY <1>3, <3>2
        <4>2. \A h \in N!Goroutines :
                 Has(todo[h], <<"sendSubscribe", x>>) => Has(todo'[h], <<"sendSubscribe", x>>)
          BY <1>1, <1>2, <1>3, <4>1, NoneIs, StillToRun
        <4> QED
          BY <1>1, <2>1, <4>2 DEF Wired
      <3> QED
        BY <3>1, <3>2
    <2> QED
      BY <2>2, <2>3, <2>4
  <1> QED
    BY <1>4, <1>5, <1>6, <1>7 DEF ListeningInvariant, StreamsOK

(* An unsubscription, unless it is late, is of a stream that nobody has.   *)
LEMMA StreamIsLeft ==
    ASSUME ListeningInvariant, NEW g \in N!Goroutines,
           N!UnsubscribeEntry(g) \/ N!SendUnsubscribe(g)
    PROVE  ListeningInvariant'
PROOF
  <1>1. PICK o \in {"unsubscribe", "sendUnsubscribe"} : N!At(g, o)
    BY DEF N!UnsubscribeEntry, N!SendUnsubscribe
  <1>2. StreamTypes /\ ProgramsOrderly /\ StreamsOK /\ SessionsOK
    BY DEF ListeningInvariant
  <1>3. PICK y \in Streams : todo[g] # << >> /\ todo[g][1] = <<o, y>> /\ N!Arg(g) = y
    BY <1>1, <1>2, AtIs, OpIs
  <1>4. PICK u \in Seq(Ops) : u = << <<"sendUnsubscribe", y>> >> /\ Rowless(u)
           /\ \A k \in 1 .. Len(u) : u[k][1] \in {"unsubscribe", "sendUnsubscribe"}
    <2>1. PICK op \in Ops : op = <<"sendUnsubscribe", y>> /\ op[1] = "sendUnsubscribe"
      BY StreamOps
    <2>2. <<op>> \in Seq(Ops) /\ \A z : Has(<<op>>, z) <=> z = op
      BY OneIs
    <2>3. \A k \in 1 .. Len(<<op>>) : <<op>>[k] = op
      BY OneIs
    <2>4. Rowless(<<op>>)
      BY <2>1, <2>2 DEF Rowless
    <2> QED
      BY <2>1, <2>2, <2>3, <2>4
  <1>5. PICK P \in Seq(Ops) : N!Then(g, P) /\ (P = << >> \/ P = u)
    BY <1>3, <1>4, NoneIs DEF N!UnsubscribeEntry, N!SendUnsubscribe
  <1>6. UNCHANGED <<listed, rows, cache, phase, call, tracker, link, keys, held, overreleased>>
    BY DEF N!UnsubscribeEntry, N!SendUnsubscribe, N!state, N!life
  <1>7. /\ subscriptions \ {y} \subseteq subscriptions' /\ subscribed \ {y} \subseteq subscribed'
        /\ late' = IF tracker[y] > 0 THEN late \cup {y} ELSE late
    BY <1>3 DEF N!UnsubscribeEntry, N!SendUnsubscribe, N!IsLate
  <1>8. Excepted \subseteq Excepted' /\ (tracker[y] > 0 => y \in Excepted')
    BY <1>6, <1>7 DEF Excepted
  <1>9. Orderly(P \o Tail(todo[g]))
    <2>1. CASE P = << >>
      BY <1>2, <1>3, <2>1, NoneThen
    <2>2. CASE P = u
      <3>1. PICK q \in Seq(Ops) : q = todo[g] /\ q # << >> /\ Orderly(q)
               /\ q[1][1] \in {"unsubscribe", "sendUnsubscribe"}
        BY <1>2, <1>3 DEF StreamTypes, ProgramsOrderly
      <3>2. Tail(q) \in Seq(Ops) /\ Orderly(Tail(q))
        BY <3>1, TailIs, TailOrderly
      <3>3. \A k \in 1 .. Len(Tail(q)) : Tail(q)[k][1] \notin {"hubAdd", "clear"}
        BY <3>1, TailPlain
      <3>4. Lead(u, Tail(q))
        BY <1>4, <3>3 DEF Lead
      <3> QED
        BY <2>2, <3>1, <3>2, <3>4, LeadThenOrderly
    <2> QED
      BY <1>5, <2>1, <2>2
  <1>10. Rowless(P)
    BY <1>4, <1>5, NoneRowless
  <1>11. ProgramsOrderly' /\ SessionsOK'
    <2>1. todo[g][1][1] \notin {"hubRemove", "hubRemoveChannel"}
      BY <1>3
    <2> QED
      BY <1>2, <1>3, <1>5, <1>6, <1>8, <1>9, <1>10, <2>1, RowsUndisturbed
  <1>12. StreamTypes'
    <2>1. todo' \in [N!Goroutines -> Seq(Ops)]
      BY <1>2, <1>3, <1>5, ThenIs
    <2> QED
      BY <1>2, <1>6, <2>1 DEF StreamTypes
  <1>13. ASSUME NEW x \in Streams \ Excepted' PROVE Counted(x)' /\ Entered(x)' /\ Wired(x)'
    <2>1. Counted(x) /\ Entered(x) /\ Wired(x)
      BY <1>2, <1>8 DEF StreamsOK
    <2>2. Counted(x)'
      BY <1>6, <2>1, CountKept
    <2>3. tracker[x] > 0 => x # y
      BY <1>8
    <2>4. todo[g][1] # <<"subscribe", x>> /\ todo[g][1] # <<"sendSubscribe", x>>
      BY <1>3
    <2>5. \A h \in N!Goroutines : Promised(h, x)
      BY <1>2, <1>3, <1>5, <2>4, Unsubscribing
    <2>6. Entered(x)'
      BY <1>6, <1>7, <2>1, <2>3, <2>5 DEF Entered, Promised
    <2>7. Wired(x)'
      BY <1>6, <1>7, <2>1, <2>3, <2>5 DEF Wired, Promised
    <2> QED
      BY <2>2, <2>6, <2>7
  <1> QED
    BY <1>11, <1>12, <1>13 DEF ListeningInvariant, StreamsOK

(* A new connection: what has an entry is in the snapshot, and what has    *)
(* none yet will be sent.                                                  *)
LEMMA ConnectionChanges ==
    ASSUME ListeningInvariant, N!Reconnect \/ N!ConnectionLost
    PROVE  ListeningInvariant'
PROOF
  <1>1. UNCHANGED <<listed, rows, cache, phase, call, todo, tracker, subscriptions, held,
                    overreleased, late>>
    BY DEF N!Reconnect, N!Dedicate, N!ResubscribeKeys, N!BatchSubscribe, N!ConnectionLost,
           N!state, N!life, N!history
  <1>2. StreamTypes /\ ProgramsOrderly /\ StreamsOK /\ SessionsOK
    BY DEF ListeningInvariant
  <1>3. link' \in {"down", "dedicated", "snapshot", "up"}
    BY DEF N!Reconnect, N!Dedicate, N!ResubscribeKeys, N!BatchSubscribe, N!ConnectionLost
  <1>4. StreamTypes'
    BY <1>1, <1>2, <1>3 DEF StreamTypes
  <1>5. ProgramsOrderly'
    BY <1>1, <1>2 DEF ProgramsOrderly
  <1>6. Excepted' = Excepted
    BY <1>1 DEF Excepted
  <1>7. ASSUME NEW s \in Sessions PROVE LivesOK(s)' /\ RowsOK(s)'
    <2>1. LivesOK(s)'
      BY <1>1, <1>2 DEF SessionsOK, LivesOK
    <2>2. RowsOK(s)'
      BY <1>1, <1>2, <1>6, RowsKept DEF SessionsOK
    <2> QED
      BY <2>1, <2>2
  <1>8. ASSUME NEW x \in Streams \ Excepted PROVE Counted(x)' /\ Entered(x)' /\ Wired(x)'
    <2>1. Counted(x) /\ Entered(x) /\ Wired(x)
      BY <1>2 DEF StreamsOK
    <2>2. Counted(x)'
      BY <1>1, <2>1, CountKept
    <2>3. Entered(x)'
      BY <1>1, <2>1 DEF Entered
    <2>4. CASE N!Dedicate \/ N!ConnectionLost
      <3>1. link' # "up" /\ link' # "snapshot"
        BY <2>4 DEF N!Dedicate, N!ConnectionLost
      <3> QED
        BY <2>2, <2>3, <3>1 DEF Wired
    <2>5. CASE N!BatchSubscribe
      <3>1. link = "snapshot" /\ link' = "up" /\ subscribed' = subscribed \cup keys
        BY <2>5 DEF N!BatchSubscribe
      <3>2. Wired(x)'
        BY <1>1, <2>1, <3>1 DEF Wired
      <3> QED
        BY <2>2, <2>3, <3>2
    <2>6. CASE N!ResubscribeKeys
      <3>1. link' = "snapshot" /\ keys' = subscriptions /\ subscribed' = subscribed
        BY <2>6 DEF N!ResubscribeKeys
      <3>2. ASSUME NEW g \in N!Goroutines, Has(todo[g], <<"subscribe", x>>)
            PROVE  Has(todo[g], <<"sendSubscribe", x>>)
        <4>1. PICK q \in Seq(Ops) : q = todo[g] /\ Orderly(q)
          BY <1>2 DEF StreamTypes, ProgramsOrderly
        <4>2. PICK k \in 1 .. Len(q) : q[k] = <<"subscribe", x>>
          BY <3>2, <4>1 DEF Has
        <4>3. EntryAt(q, k) /\ q[k][1] = "subscribe" /\ q[k][2] = x
          BY <4>1, <4>2 DEF Orderly
        <4>4. k + 1 \in 1 .. Len(q) /\ q[k + 1] = <<"sendSubscribe", x>>
          BY <4>3 DEF EntryAt
        <4> QED
          BY <4>1, <4>4 DEF Has
      <3>3. Wired(x)'
        BY <1>1, <2>1, <3>1, <3>2 DEF Wired, Entered
      <3> QED
        BY <2>2, <2>3, <3>3
    <2> QED
      BY <2>4, <2>5, <2>6 DEF N!Reconnect
  <1> QED
    BY <1>4, <1>5, <1>6, <1>7, <1>8 DEF ListeningInvariant, StreamsOK, SessionsOK

-----------------------------------------------------------------------------
(* Rows.                                                                   *)

(* The steps that may not come after the first one.                        *)
LEMMA TailHas ==
    ASSUME StreamTypes, ProgramsOrderly, NEW g \in N!Goroutines, todo[g] # << >>
    PROVE  /\ todo[g][1][1] \notin {"subscribe", "sendSubscribe"} =>
                \A p : ~Has(Tail(todo[g]), <<"hubAdd", p>>)
           /\ todo[g][1][1] \notin {"unsubscribe", "sendUnsubscribe"} =>
                \A R : ~Has(Tail(todo[g]), <<"release", R>>)
           /\ todo[g][1][1] # "hubRemoveChannel" =>
                \A i : ~Has(Tail(todo[g]), <<"clear", i>>)
PROOF
  <1>1. PICK q \in Seq(Ops) : q = todo[g] /\ q # << >> /\ Orderly(q)
    BY DEF StreamTypes, ProgramsOrderly
  <1>2. /\ q[1][1] \notin {"subscribe", "sendSubscribe"} =>
             \A k \in 1 .. Len(Tail(q)) : Tail(q)[k][1] # "hubAdd"
        /\ q[1][1] \notin {"unsubscribe", "sendUnsubscribe"} =>
             \A k \in 1 .. Len(Tail(q)) : Tail(q)[k][1] # "release"
        /\ q[1][1] # "hubRemoveChannel" =>
             \A k \in 1 .. Len(Tail(q)) : Tail(q)[k][1] # "clear"
    BY <1>1, TailPlain
  <1> QED
    BY <1>1, <1>2 DEF Has

(* What is at the head of a program is in it.                              *)
LEMMA HeadHas ==
    ASSUME NEW q \in Seq(Ops), q # << >>
    PROVE  Has(q, q[1])
BY TailIs DEF Has

(* A clear that is reached comes from hubRemoveChannel.                    *)
LEMMA ClearAfter ==
    ASSUME StreamTypes, ProgramsOrderly, NEW g \in N!Goroutines, todo[g] # << >>, NEW i,
           N!Then(g, << >>), todo'[g] # << >>, todo'[g][1] = <<"clear", i>>
    PROVE  todo[g][1] = <<"hubRemoveChannel", i>>
PROOF
  <1>1. PICK q \in Seq(Ops) : q = todo[g] /\ q # << >> /\ Orderly(q)
    BY DEF StreamTypes, ProgramsOrderly
  <1>2. PICK t \in Seq(Ops), m \in Nat : t = Tail(q) /\ m = Len(t) /\ Len(q) = m + 1
                /\ \A k \in 1 .. m : k + 1 \in 1 .. Len(q) /\ t[k] = q[k + 1]
    BY <1>1, TailIs
  <1>3. todo'[g] = t
    <2>1. todo'[g] = << >> \o Tail(todo[g])
      BY NoneIs, ThenIs
    <2> QED
      BY <1>1, <1>2, <2>1, ConcatEmptySeq
  <1>4. 1 \in 1 .. m
    BY <1>2, <1>3, TailIs
  <1>5. 1 + 1 \in 1 .. Len(q) /\ q[1 + 1] = <<"clear", i>>
    BY <1>2, <1>3, <1>4
  <1>6. ClearAt(q, 2) /\ q[2][1] = "clear" /\ q[2][2] = i
    BY <1>1, <1>5 DEF Orderly
  <1> QED
    BY <1>1, <1>6 DEF ClearAt

(* The hub adds or removes rows.                                           *)
LEMMA HubIsChanged ==
    ASSUME ListeningInvariant, NEW g \in N!Goroutines, N!HubStep(g)
    PROVE  ListeningInvariant'
PROOF
  <1> DEFINE s == g[2]
  <1>1. /\ N!Then(g, << >>)
        /\ UNCHANGED <<listed, cache, phase, call, tracker, held, subscriptions, link, keys, subscribed,
                       overreleased, late>>
    BY DEF N!HubStep, N!life, N!pubsub, N!history
  <1>2. StreamTypes /\ ProgramsOrderly /\ StreamsOK /\ SessionsOK
    BY DEF ListeningInvariant
  <1>3. PICK o \in {"hubAdd", "hubRemove", "hubRemoveChannel", "removeSession"} : N!At(g, o)
    BY DEF N!HubStep
  <1>4. /\ todo[g] # << >> /\ todo[g] \in Seq(Ops) /\ todo[g][1] \in Ops /\ todo[g][1][1] = o
        /\ N!Arg(g) = todo[g][1][2]
    BY <1>2, <1>3, AtIs
  <1>5. s \in Sessions /\ rows[s] \in PairSets /\ rows \in [Sessions -> PairSets]
    BY <1>2, GoroutineIs DEF StreamTypes
  <1>6. PICK new \in PairSets :
           /\ rows' = [rows EXCEPT ![s] = new]
           /\ \/ \E p \in N!Pairs : todo[g][1] = <<"hubAdd", p>> /\ new = rows[s] \cup {p}
              \/ \E p \in N!Pairs : todo[g][1] = <<"hubRemove", p>> /\ new = rows[s] \ {p}
              \/ \E i \in Idents : /\ todo[g][1] = <<"hubRemoveChannel", i>>
                                   /\ new = {p \in rows[s] : p[2] # i}
              \/ o = "removeSession" /\ new = {}
    <2>1. CASE N!At(g, "hubAdd") /\ rows' = [rows EXCEPT ![s] = @ \cup {N!Arg(g)}]
      <3>1. PICK p \in N!Pairs : todo[g][1] = <<"hubAdd", p>> /\ N!Arg(g) = p
        BY <1>2, <2>1, AtIs, OpIs
      <3>2. rows[s] \cup {p} \in PairSets
        BY <1>5 DEF PairSets, N!Pairs
      <3> QED
        BY <1>5, <2>1, <3>1, <3>2
    <2>2. CASE N!At(g, "hubRemove") /\ rows' = [rows EXCEPT ![s] = @ \ {N!Arg(g)}]
      <3>1. PICK p \in N!Pairs : todo[g][1] = <<"hubRemove", p>> /\ N!Arg(g) = p
        BY <1>2, <2>2, AtIs, OpIs
      <3>2. rows[s] \ {p} \in PairSets
        BY <1>5 DEF PairSets
      <3> QED
        BY <1>5, <2>2, <3>1, <3>2
    <2>3. CASE N!At(g, "hubRemoveChannel") /\ rows' = [rows EXCEPT ![s] = {p \in @ : p[2] # N!Arg(g)}]
      <3>1. PICK i \in Idents : todo[g][1] = <<"hubRemoveChannel", i>> /\ N!Arg(g) = i
        BY <1>2, <2>3, AtIs, OpIs
      <3>2. {p \in rows[s] : p[2] # i} \in PairSets
        BY <1>5 DEF PairSets
      <3> QED
        BY <1>5, <2>3, <3>1, <3>2
    <2>4. CASE N!At(g, "removeSession") /\ rows' = [rows EXCEPT ![s] = {}]
      <3>1. {} \in PairSets /\ o = "removeSession"
        BY <1>2, <1>4, <2>4, AtIs DEF PairSets
      <3> QED
        BY <2>4, <3>1
    <2> QED
      BY <2>1, <2>2, <2>3, <2>4 DEF N!HubStep
  <1>7. rows' \in [Sessions -> PairSets] /\ rows'[s] = new
        /\ \A t \in Sessions : t # s => rows'[t] = rows[t] /\ held'[t] = held[t]
    BY <1>1, <1>5, <1>6
  <1>8. ProgramsOrderly' /\ \A t \in Sessions : LivesOK(t)'
    <2>1. Orderly(<< >> \o Tail(todo[g])) /\ << >> \in Seq(Ops)
      BY <1>2, <1>4, NoneIs, NoneThen
    <2> QED
      BY <1>1, <1>2, <1>4, <1>7, <2>1, MovesOn
  <1>9. StreamsOK'
    BY <1>1, <1>2, <1>4, NoneIs, StreamsKept
  <1>10. /\ todo' \in [N!Goroutines -> Seq(Ops)]
         /\ \A op : Has(todo'[g], op) <=> Has(<< >>, op) \/ Has(Tail(todo[g]), op)
         /\ \A op : Has(todo[g], op) <=> todo[g][1] = op \/ Has(Tail(todo[g]), op)
    BY <1>1, <1>2, <1>4, NoneIs, ThenIs
  <1>11. \A op : ~Has(<< >>, op)
    BY NoneIs
  <1>12. StreamTypes'
    BY <1>1, <1>2, <1>7, <1>10 DEF StreamTypes
  <1>13. Excepted' = Excepted
    BY <1>1 DEF Excepted
  <1>14. ASSUME NEW t \in Sessions, g # N!Reader(t) PROVE RowsOK(t)'
    BY <1>1, <1>2, <1>4, <1>7, <1>13, <1>14, NoneIs, OthersKept
  <1>15. ASSUME NEW t \in Sessions, g = N!Reader(t), phase[t] = "connected"
         PROVE  RowsHeld(t)' /\ AddsHeld(t)' /\ ReleasesRowless(t)' /\ ClearsRowless(t)'
    <2>1. t = s /\ held'[t] = held[t]
      BY <1>1, <1>15, GoroutinesAre
    <2>2. RowsHeld(t) /\ AddsHeld(t) /\ ReleasesRowless(t)
      BY <1>2, <1>15 DEF SessionsOK, RowsOK
    <2>3. AddsHeld(t)'
      BY <1>10, <1>11, <1>13, <1>15, <2>1, <2>2 DEF AddsHeld
    <2>4. ReleasesRowless(t)'
      <3>1. \A R : ~Has(Tail(todo[g]), <<"release", R>>)
        BY <1>2, <1>4, TailHas
      <3> QED
        BY <1>10, <1>11, <1>15, <3>1 DEF ReleasesRowless
    <2>5. RowsHeld(t)'
      <3> SUFFICES ASSUME NEW p \in new, ~(held[t][p] > 0 \/ p[1] \in Excepted)
                   PROVE  Has(todo'[g], <<"hubRemove", p>>)
        BY <1>7, <1>13, <1>15, <2>1 DEF RowsHeld
      <3>1. p \in rows[s]
        <4>1. ASSUME todo[g][1] = <<"hubAdd", p>>, p \in N!Pairs PROVE FALSE
          <5>1. Has(todo[g], <<"hubAdd", p>>)
            BY <1>10, <4>1
          <5> QED
            BY <1>15, <2>2, <4>1, <5>1 DEF AddsHeld
        <4> QED
          BY <1>6, <4>1
      <3>2. Has(todo[g], <<"hubRemove", p>>)
        BY <1>15, <2>1, <2>2, <3>1 DEF RowsHeld
      <3>3. todo[g][1] # <<"hubRemove", p>>
        <4> SUFFICES ASSUME todo[g][1] = <<"hubRemove", p>> PROVE FALSE
          OBVIOUS
        <4>1. todo[g][1][1] = "hubRemove" /\ todo[g][1][2] = p
          OBVIOUS
        <4>2. PICK r \in N!Pairs : todo[g][1] = <<"hubRemove", r>> /\ new = rows[s] \ {r}
          BY <1>4, <1>6, <4>1
        <4>3. r = p
          BY <4>1, <4>2
        <4> QED
          BY <4>2, <4>3
      <3> QED
        BY <1>10, <3>2, <3>3
    <2>6. ClearsRowless(t)'
      <3> SUFFICES ASSUME NEW i \in Idents, todo'[g] # << >>, todo'[g][1] = <<"clear", i>>,
                          NEW p \in new
                   PROVE  p[2] # i
        BY <1>7, <1>15, <2>1 DEF ClearsRowless
      <3>1. todo[g][1] = <<"hubRemoveChannel", i>>
        BY <1>1, <1>2, <1>4, ClearAfter
      <3>2. todo[g][1][1] = "hubRemoveChannel" /\ todo[g][1][2] = i
        BY <3>1
      <3>3. PICK j \in Idents : todo[g][1] = <<"hubRemoveChannel", j>> /\ new = {r \in rows[s] : r[2] # j}
        BY <1>4, <1>6, <3>2
      <3>4. j = i
        BY <3>2, <3>3
      <3> QED
        BY <3>3, <3>4
    <2> QED
      BY <2>3, <2>4, <2>5, <2>6
  <1>16. SessionsOK'
    BY <1>1, <1>8, <1>14, <1>15 DEF SessionsOK, RowsOK
  <1> QED
    BY <1>8, <1>9, <1>12, <1>16 DEF ListeningInvariant

(* What clear gives back has no rows.                                      *)
LEMMA ChannelIsCleared ==
    ASSUME ListeningInvariant, NEW g \in N!Goroutines, N!RemoveChannelStreams(g)
    PROVE  ListeningInvariant'
PROOF
  <1> DEFINE s == g[2]
  <1>1. /\ N!At(g, "clear")
        /\ UNCHANGED <<cache, rows, phase, call, tracker, held, subscriptions, link, keys, subscribed,
                       overreleased, late>>
    BY DEF N!RemoveChannelStreams, N!life, N!pubsub, N!history
  <1>2. StreamTypes /\ ProgramsOrderly /\ StreamsOK /\ SessionsOK
    BY DEF ListeningInvariant
  <1>3. PICK i \in Idents : /\ todo[g] # << >> /\ todo[g][1] = <<"clear", i>> /\ N!Arg(g) = i
                            /\ todo[g][1][1] = "clear"
    BY <1>1, <1>2, AtIs, OpIs
  <1>4. s \in Sessions /\ listed[s] \in PairSets
    BY <1>2, GoroutineIs DEF StreamTypes
  <1>5. PICK removed \in PairSets : removed = N!StreamsFor(s, i) /\ \A p \in removed : p[2] = i
    <2>1. N!StreamsFor(s, i) \in PairSets
      BY <1>4 DEF N!StreamsFor, PairSets
    <2> QED
      BY <2>1 DEF N!StreamsFor
  <1>6. PICK op \in Ops : op = <<"release", removed>> /\ op[1] = "release" /\ op[2] = removed
    BY OtherOps
  <1>7. PICK P \in Seq(Ops) : /\ P = <<op>> /\ Orderly(P) /\ \A o : Has(P, o) <=> o = op
    BY <1>6, OneIs
  <1>8. N!Then(g, P) /\ listed' = [listed EXCEPT ![s] = @ \ removed]
    BY <1>3, <1>5, <1>6, <1>7 DEF N!RemoveChannelStreams
  <1>9. Orderly(P \o Tail(todo[g]))
    <2>1. PICK q \in Seq(Ops) : q = todo[g] /\ q # << >> /\ Orderly(q) /\ q[1][1] = "clear"
      BY <1>2, <1>3 DEF StreamTypes, ProgramsOrderly
    <2>2. Tail(q) \in Seq(Ops)
      BY <2>1, TailIs
    <2>3. Plain(Tail(q))
      BY <2>1, TailPlain DEF Plain
    <2> QED
      BY <1>7, <2>1, <2>2, <2>3, OrderlyThenPlain
  <1>10. ProgramsOrderly' /\ \A t \in Sessions : LivesOK(t)'
    BY <1>1, <1>2, <1>3, <1>8, <1>9, MovesOn
  <1>11. StreamsOK'
    BY <1>1, <1>2, <1>3, <1>8, StreamsKept
  <1>12. /\ todo' \in [N!Goroutines -> Seq(Ops)]
         /\ \A o : Has(todo'[g], o) <=> Has(P, o) \/ Has(Tail(todo[g]), o)
         /\ \A o : Has(todo[g], o) <=> todo[g][1] = o \/ Has(Tail(todo[g]), o)
    BY <1>2, <1>3, <1>8, ThenIs
  <1>13. listed' \in [Sessions -> PairSets]
    BY <1>2, <1>4, <1>8 DEF StreamTypes, PairSets
  <1>14. StreamTypes'
    BY <1>1, <1>2, <1>12, <1>13 DEF StreamTypes
  <1>15. Excepted' = Excepted
    BY <1>1 DEF Excepted
  <1>16. ASSUME NEW t \in Sessions, g # N!Reader(t) PROVE RowsOK(t)'
    BY <1>1, <1>2, <1>3, <1>8, <1>15, <1>16, OthersKept
  <1>17. ASSUME NEW t \in Sessions, g = N!Reader(t), phase[t] = "connected"
         PROVE  RowsHeld(t)' /\ AddsHeld(t)' /\ ReleasesRowless(t)' /\ ClearsRowless(t)'
    <2>1. RowsHeld(t) /\ AddsHeld(t) /\ ClearsRowless(t)
      BY <1>2, <1>17 DEF SessionsOK, RowsOK
    <2>2. /\ \A p : ~Has(Tail(todo[g]), <<"hubAdd", p>>)
          /\ \A R : ~Has(Tail(todo[g]), <<"release", R>>)
          /\ \A j : ~Has(Tail(todo[g]), <<"clear", j>>)
      BY <1>2, <1>3, TailHas
    <2>3. \A p : op # <<"hubAdd", p>> /\ op # <<"clear", p>>
      BY <1>6
    <2>4. \A p \in rows[t] : p[2] # i
      BY <1>3, <1>17, <2>1 DEF ClearsRowless
    <2>5. RowsHeld(t)'
      <3>1. \A p : todo[g][1] # <<"hubRemove", p>>
        BY <1>3
      <3> QED
        BY <1>1, <1>12, <1>15, <1>17, <2>1, <3>1 DEF RowsHeld
    <2>6. AddsHeld(t)'
      BY <1>7, <1>12, <1>17, <2>2, <2>3 DEF AddsHeld
    <2>7. ReleasesRowless(t)'
      <3> SUFFICES ASSUME NEW R \in PairSets, Has(todo'[g], <<"release", R>>)
                   PROVE  rows[t] \cap R = {}
        BY <1>1, <1>17 DEF ReleasesRowless
      <3>1. <<"release", R>> = op
        BY <1>7, <1>12, <2>2
      <3>2. R = removed
        BY <1>6, <3>1
      <3> QED
        BY <1>5, <2>4, <3>2
    <2>8. ClearsRowless(t)'
      <3> SUFFICES ASSUME NEW j \in Idents, todo'[g] # << >>, todo'[g][1] = <<"clear", j>> PROVE FALSE
        BY <1>17 DEF ClearsRowless
      <3>1. Has(todo'[g], <<"clear", j>>)
        BY <1>12, HeadHas
      <3> QED
        BY <1>7, <1>12, <2>2, <2>3, <3>1
    <2> QED
      BY <2>5, <2>6, <2>7, <2>8
  <1>18. SessionsOK'
    BY <1>1, <1>10, <1>16, <1>17 DEF SessionsOK, RowsOK
  <1> QED
    BY <1>10, <1>11, <1>14, <1>18 DEF ListeningInvariant

-----------------------------------------------------------------------------
(* The tracker.                                                            *)

(* The tracker and the holds, where a stream is added or removed.          *)
LEMMA TrackerTypes ==
    ASSUME StreamTypes, NEW s \in Sessions, NEW p \in N!Pairs,
           N!TrackerAdd(s, p) \/ N!TrackerRemove(s, p)
    PROVE  /\ tracker' \in [Streams -> Nat] /\ held' \in [Sessions -> [N!Pairs -> Nat]]
           /\ \A y \in Streams : y # p[1] => tracker'[y] = tracker[y]
           /\ \A t \in Sessions : t # s => held'[t] = held[t]
           /\ \A r \in N!Pairs : r # p => held'[s][r] = held[s][r]
           /\ p[1] \in Streams /\ p[2] \in Idents /\ p = <<p[1], p[2]>>
PROOF
  <1>1. p[1] \in Streams /\ p[2] \in Idents /\ p = <<p[1], p[2]>>
    BY DEF N!Pairs
  <1>2. PICK n \in Nat : n = tracker[p[1]]
    BY <1>1 DEF StreamTypes
  <1>3. PICK m \in Nat : m = held[s][p]
    BY DEF StreamTypes
  <1>4. PICK a \in Nat : tracker' = [tracker EXCEPT ![p[1]] = a]
    <2>1. CASE N!TrackerAdd(s, p)
      <3>1. n + 1 \in Nat /\ tracker' = [tracker EXCEPT ![p[1]] = n + 1]
        BY <1>2, <2>1 DEF N!TrackerAdd
      <3> QED
        BY <3>1
    <2>2. CASE N!TrackerRemove(s, p)
      <3>1. PICK a \in Nat : a = IF n = 0 THEN 0 ELSE n - 1
        OBVIOUS
      <3>2. tracker' = [tracker EXCEPT ![p[1]] = a]
        BY <1>2, <2>2, <3>1 DEF N!TrackerRemove
      <3> QED
        BY <3>2
    <2> QED
      BY <2>1, <2>2
  <1>5. PICK b \in Nat : held' = [held EXCEPT ![s][p] = b]
    <2>1. CASE N!TrackerAdd(s, p)
      <3>1. m + 1 \in Nat /\ held' = [held EXCEPT ![s][p] = m + 1]
        BY <1>3, <2>1 DEF N!TrackerAdd
      <3> QED
        BY <3>1
    <2>2. CASE N!TrackerRemove(s, p)
      <3>1. PICK b \in Nat : b = IF m = 0 THEN 0 ELSE m - 1
        OBVIOUS
      <3>2. held' = [held EXCEPT ![s][p] = b]
        BY <1>3, <2>2, <3>1 DEF N!TrackerRemove
      <3> QED
        BY <3>2
    <2> QED
      BY <2>1, <2>2
  <1> QED
    BY <1>1, <1>4, <1>5 DEF StreamTypes

(* What one session has more or less of another stream is not counted.     *)
LEMMA OtherUnits ==
    ASSUME StreamTypes, NEW s \in Sessions, NEW p \in N!Pairs,
           N!TrackerAdd(s, p) \/ N!TrackerRemove(s, p), NEW x \in Streams, x # p[1], Counted(x)
    PROVE  Counted(x)'
PROOF
  <1>1. tracker'[x] = tracker[x]
    BY TrackerTypes
  <1>2. ASSUME NEW t \in Sessions, NEW i \in Idents PROVE held'[t][<<x, i>>] = held[t][<<x, i>>]
    <2>1. PICK r \in N!Pairs : r = <<x, i>> /\ r # p
      <3>1. <<x, i>> \in N!Pairs /\ <<x, i>> # p
        BY DEF N!Pairs
      <3> QED
        BY <3>1
    <2> QED
      BY <2>1, TrackerTypes
  <1>3. Units(x)' = Units(x)
    BY <1>2 DEF Units
  <1> QED
    BY <1>1, <1>3 DEF Counted

(* A stream that is taken is counted once more.                            *)
LEMMA UnitAdded ==
    ASSUME StreamTypes, NEW s \in Sessions, NEW p \in N!Pairs, N!TrackerAdd(s, p),
           Counted(p[1])
    PROVE  Counted(p[1])' /\ tracker'[p[1]] = tracker[p[1]] + 1 /\ held'[s][p] > 0
PROOF
  <1>1. PICK x \in Streams, i \in Idents : p = <<x, i>> /\ p[1] = x /\ p[2] = i
    BY DEF N!Pairs
  <1>2. PICK m \in Nat : m = held[s][p]
    BY DEF StreamTypes
  <1>3. held'[s][p] = m + 1 /\ tracker'[x] = tracker[x] + 1
    BY <1>1, <1>2 DEF StreamTypes, N!TrackerAdd
  <1>4. PICK u \in Sessions \X Idents \X Nat : u = <<s, i, m + 1>>
    <2>1. m + 1 \in Nat
      OBVIOUS
    <2>2. <<s, i, m + 1>> \in Sessions \X Idents \X Nat
      BY <2>1
    <2> QED
      BY <2>2
  <1>5. ASSUME NEW v \in Sessions \X Idents \X Nat
        PROVE  v[3] \in 1 .. held'[v[1]][<<x, v[2]>>] <=> (v[3] \in 1 .. held[v[1]][<<x, v[2]>>] \/ v = u)
    <2>1. CASE v[1] = s /\ v[2] = i
      <3>1. v = u <=> v[3] = m + 1
        BY <1>4, <2>1
      <3>2. v[3] \in 1 .. m + 1 <=> v[3] \in 1 .. m \/ v[3] = m + 1
        OBVIOUS
      <3> QED
        BY <1>1, <1>2, <1>3, <2>1, <3>1, <3>2
    <2>2. CASE ~(v[1] = s /\ v[2] = i)
      <3>1. v # u
        BY <1>4, <2>2
      <3>2. PICK r \in N!Pairs : r = <<x, v[2]>> /\ (v[2] # i => r # p)
        <4>1. <<x, v[2]>> \in N!Pairs /\ (v[2] # i => <<x, v[2]>> # p)
          BY <1>1 DEF N!Pairs
        <4> QED
          BY <4>1
      <3>3. v[1] # s \/ r # p
        BY <2>2, <3>2
      <3>4. held'[v[1]][r] = held[v[1]][r]
        BY <3>3, TrackerTypes
      <3> QED
        BY <3>1, <3>2, <3>4
    <2> QED
      BY <2>1, <2>2
  <1>6. Units(x)' = Units(x) \cup {u}
    BY <1>4, <1>5 DEF Units
  <1>7. u \notin Units(x)
    <2>1. u[1] = s /\ u[2] = i /\ u[3] = m + 1 /\ ~(m + 1 \in 1 .. m)
      BY <1>4
    <2> QED
      BY <1>1, <1>2, <2>1 DEF Units
  <1>8. PICK U : U = Units(x) /\ IsFiniteSet(U) /\ tracker[x] = Cardinality(U) /\ u \notin U
    BY <1>1, <1>7 DEF Counted
  <1>9. IsFiniteSet(U \cup {u}) /\ Cardinality(U \cup {u}) = Cardinality(U) + 1
    BY <1>8, FS_AddElement
  <1>10. Counted(x)'
    BY <1>3, <1>6, <1>8, <1>9 DEF Counted
  <1> QED
    BY <1>1, <1>3, <1>10

(* A stream that is given back is counted once less.                       *)
LEMMA UnitRemoved ==
    ASSUME StreamTypes, NEW s \in Sessions, NEW p \in N!Pairs, N!TrackerRemove(s, p),
           Counted(p[1]), held[s][p] # 0
    PROVE  Counted(p[1])'
PROOF
  <1>1. PICK x \in Streams, i \in Idents : p = <<x, i>> /\ p[1] = x /\ p[2] = i
    BY DEF N!Pairs
  <1>2. PICK m \in Nat \ {0} : m = held[s][p]
    BY DEF StreamTypes
  <1>3. PICK n \in Nat : n = tracker[x]
    BY DEF StreamTypes
  <1>4. held'[s][p] = m - 1 /\ tracker'[x] = IF n = 0 THEN 0 ELSE n - 1
    BY <1>1, <1>2, <1>3 DEF StreamTypes, N!TrackerRemove
  <1>5. PICK u \in Sessions \X Idents \X Nat : u = <<s, i, m>>
    OBVIOUS
  <1>6. ASSUME NEW v \in Sessions \X Idents \X Nat
        PROVE  v[3] \in 1 .. held'[v[1]][<<x, v[2]>>] <=> (v[3] \in 1 .. held[v[1]][<<x, v[2]>>] /\ v # u)
    <2>1. CASE v[1] = s /\ v[2] = i
      <3>1. v = u <=> v[3] = m
        BY <1>5, <2>1
      <3>2. v[3] \in 1 .. m - 1 <=> v[3] \in 1 .. m /\ v[3] # m
        OBVIOUS
      <3> QED
        BY <1>1, <1>2, <1>4, <2>1, <3>1, <3>2
    <2>2. CASE ~(v[1] = s /\ v[2] = i)
      <3>1. v # u
        BY <1>5, <2>2
      <3>2. PICK r \in N!Pairs : r = <<x, v[2]>> /\ (v[2] # i => r # p)
        <4>1. <<x, v[2]>> \in N!Pairs /\ (v[2] # i => <<x, v[2]>> # p)
          BY <1>1 DEF N!Pairs
        <4> QED
          BY <4>1
      <3>3. v[1] # s \/ r # p
        BY <2>2, <3>2
      <3>4. held'[v[1]][r] = held[v[1]][r]
        BY <3>3, TrackerTypes
      <3> QED
        BY <3>1, <3>2, <3>4
    <2> QED
      BY <2>1, <2>2
  <1>7. Units(x)' = Units(x) \ {u}
    BY <1>5, <1>6 DEF Units
  <1>8. u \in Units(x)
    <2>1. u[1] = s /\ u[2] = i /\ u[3] = m /\ m \in 1 .. m
      BY <1>5
    <2> QED
      BY <1>1, <1>2, <1>5, <2>1 DEF Units
  <1>9. PICK U : U = Units(x) /\ IsFiniteSet(U) /\ tracker[x] = Cardinality(U) /\ u \in U
    BY <1>1, <1>8 DEF Counted
  <1>10. IsFiniteSet(U \ {u}) /\ Cardinality(U \ {u}) = Cardinality(U) - 1
    BY <1>9, FS_RemoveElement
  <1>11. Cardinality(U) # 0
    BY <1>9, FS_EmptySet
  <1>12. Counted(x)'
    BY <1>3, <1>4, <1>7, <1>9, <1>10, <1>11 DEF Counted
  <1> QED
    BY <1>1, <1>12

(* A stream that a session holds is tracked.                               *)
LEMMA HeldIsTracked ==
    ASSUME StreamTypes, NEW s \in Sessions, NEW p \in N!Pairs, Counted(p[1]), held[s][p] > 0
    PROVE  tracker[p[1]] > 0
PROOF
  <1>1. PICK x \in Streams, i \in Idents : p = <<x, i>> /\ p[1] = x /\ p[2] = i
    BY DEF N!Pairs
  <1>2. PICK m \in Nat \ {0} : m = held[s][p]
    BY DEF StreamTypes
  <1>3. PICK u \in Sessions \X Idents \X Nat : u = <<s, i, m>>
    OBVIOUS
  <1>4. u \in Units(x)
    <2>1. u[1] = s /\ u[2] = i /\ u[3] = m /\ m \in 1 .. m
      BY <1>3
    <2> QED
      BY <1>1, <1>2, <1>3, <2>1 DEF Units
  <1>5. PICK U : U = Units(x) /\ IsFiniteSet(U) /\ tracker[x] = Cardinality(U) /\ u \in U
    BY <1>1, <1>4 DEF Counted
  <1>6. Cardinality(U) # 0 /\ Cardinality(U) \in Nat
    BY <1>5, FS_EmptySet, FS_CardinalityType
  <1> QED
    BY <1>1, <1>5, <1>6

(* The first subscriber subscribes, and the last unsubscribes.             *)
LEMMA IfNewIs ==
    ASSUME NEW x \in Streams
    PROVE  /\ N!IfNew(x) \in Seq(Ops)
           /\ \A k \in 1 .. Len(N!IfNew(x)) : /\ N!IfNew(x)[k][1] \in {"subscribe", "sendSubscribe"}
                                               /\ EntryAt(N!IfNew(x), k)
           /\ \A o : Has(N!IfNew(x), o) <=>
                tracker[x] = 0 /\ (o = <<"subscribe", x>> \/ o = <<"sendSubscribe", x>>)
PROOF
  <1>1. PICK a \in Ops : a = <<"subscribe", x>> /\ a[1] = "subscribe" /\ a[2] = x
    BY StreamOps
  <1>2. PICK b \in Ops : b = <<"sendSubscribe", x>> /\ b[1] = "sendSubscribe"
    BY StreamOps
  <1>3. PICK q \in Seq(Ops) : /\ q = <<a, b>> /\ \A o : Has(q, o) <=> o = a \/ o = b
                              /\ \A k \in 1 .. Len(q) : (q[k] = a \/ q[k] = b) /\ EntryAt(q, k)
    <2>1. b = <<"sendSubscribe", a[2]>>
      BY <1>1, <1>2
    <2>2. <<a, b>> \in Seq(Ops) /\ \A o : Has(<<a, b>>, o) <=> o = a \/ o = b
      BY TwoAre
    <2>3. \A k \in 1 .. Len(<<a, b>>) : <<a, b>>[k] = a \/ <<a, b>>[k] = b
      BY TwoAre
    <2>4. \A k \in 1 .. Len(<<a, b>>) : EntryAt(<<a, b>>, k)
      BY <1>1, <2>1, TwoAre
    <2> QED
      BY <2>2, <2>3, <2>4
  <1>4. \A k \in 1 .. Len(q) : q[k][1] \in {"subscribe", "sendSubscribe"}
    BY <1>1, <1>2, <1>3
  <1>5. CASE tracker[x] = 0
    <2>1. N!IfNew(x) = q
      BY <1>1, <1>2, <1>3, <1>5 DEF N!IfNew
    <2> QED
      BY <1>1, <1>2, <1>3, <1>4, <1>5, <2>1
  <1>6. CASE tracker[x] # 0
    <2>1. N!IfNew(x) = << >>
      BY <1>6 DEF N!IfNew
    <2>2. Len(<< >>) = 0 /\ 1 .. 0 = {}
      OBVIOUS
    <2> QED
      BY <1>6, <2>1, <2>2, NoneIs
  <1> QED
    BY <1>5, <1>6

(* What follows the release of the last hold.                              *)
LEMMA IfLastIs ==
    ASSUME NEW x \in Streams
    PROVE  /\ N!IfLast(x) \in Seq(Ops) /\ Plain(N!IfLast(x))
           /\ \A k \in 1 .. Len(N!IfLast(x)) : N!IfLast(x)[k][1] \in {"unsubscribe", "sendUnsubscribe"}
           /\ \A o : Has(N!IfLast(x), o) => o = <<"unsubscribe", x>>
PROOF
  <1>1. PICK a \in Ops : a = <<"unsubscribe", x>> /\ a[1] = "unsubscribe"
    BY StreamOps
  <1>2. PICK q \in Seq(Ops) : /\ q = <<a>> /\ Plain(q) /\ \A o : Has(q, o) <=> o = a
                              /\ \A k \in 1 .. Len(q) : q[k] = a
    BY <1>1, OneIs
  <1>3. CASE tracker[x] = 1
    <2>1. N!IfLast(x) = q
      BY <1>1, <1>2, <1>3 DEF N!IfLast
    <2> QED
      BY <1>1, <1>2, <2>1
  <1>4. CASE tracker[x] # 1
    <2>1. N!IfLast(x) = << >>
      BY <1>4 DEF N!IfLast
    <2>2. Len(<< >>) = 0 /\ 1 .. 0 = {}
      OBVIOUS
    <2> QED
      BY <2>1, <2>2, NoneIs
  <1> QED
    BY <1>3, <1>4

(* No operation that stands in the way is in what is plain.                *)
LEMMA PlainHas ==
    ASSUME NEW q, Plain(q)
    PROVE  \A z : ~Has(q, <<"hubAdd", z>>) /\ ~Has(q, <<"release", z>>) /\ ~Has(q, <<"clear", z>>)
BY DEF Plain, Has

(* What comes after a loop over streams is plain.                          *)
LEMMA TailOfPlain ==
    ASSUME StreamTypes, ProgramsOrderly, NEW g \in N!Goroutines, todo[g] # << >>,
           todo[g][1][1] \in {"start", "stop", "release", "restore"}
    PROVE  Plain(Tail(todo[g])) /\ Tail(todo[g]) \in Seq(Ops)
PROOF
  <1>1. PICK q \in Seq(Ops) : q = todo[g] /\ q # << >> /\ Orderly(q)
           /\ q[1][1] \in {"start", "stop", "release", "restore"}
    BY DEF StreamTypes, ProgramsOrderly
  <1>2. Plain(Tail(q))
    BY <1>1, TailPlain DEF Plain
  <1> QED
    BY <1>1, <1>2, TailIs

(* A session takes a stream.                                               *)
LEMMA StreamIsTaken ==
    ASSUME ListeningInvariant, NEW g \in N!Goroutines, NEW p \in N!Pairs,
           todo[g] # << >>, todo[g][1][1] \in {"start", "restore"},
           N!TrackerAdd(g[2], p), NEW P \in Seq(Ops), N!Then(g, P), Orderly(P),
           NEW more, Plain(more),
           \A o : Has(P, o) <=> Has(N!IfNew(p[1]), o) \/ o = <<"hubAdd", p>> \/ Has(more, o),
           UNCHANGED <<listed, rows, cache, phase, call, subscriptions, link, keys, subscribed>>
    PROVE  ListeningInvariant'
PROOF
  <1> DEFINE s == g[2]
  <1>1. s \in Sessions /\ UNCHANGED <<overreleased, late>>
    BY GoroutineIs DEF N!TrackerAdd
  <1>2. StreamTypes /\ ProgramsOrderly /\ StreamsOK /\ SessionsOK
    BY DEF ListeningInvariant
  <1>3. /\ tracker' \in [Streams -> Nat] /\ held' \in [Sessions -> [N!Pairs -> Nat]]
        /\ \A y \in Streams : y # p[1] => tracker'[y] = tracker[y]
        /\ \A t \in Sessions : t # s => held'[t] = held[t]
        /\ \A r \in N!Pairs : r # p => held'[s][r] = held[s][r]
    BY <1>1, <1>2, TrackerTypes
  <1>4. p[1] \in Streams
    BY DEF N!Pairs
  <1>5. Plain(Tail(todo[g])) /\ Tail(todo[g]) \in Seq(Ops)
    BY <1>2, TailOfPlain
  <1>6. Orderly(P \o Tail(todo[g]))
    BY <1>5, OrderlyThenPlain
  <1>7. ProgramsOrderly' /\ \A t \in Sessions : LivesOK(t)'
    BY <1>2, <1>6, MovesOn
  <1>8. /\ todo' \in [N!Goroutines -> Seq(Ops)]
        /\ \A o : Has(todo'[g], o) <=> Has(P, o) \/ Has(Tail(todo[g]), o)
        /\ \A o : Has(todo[g], o) <=> todo[g][1] = o \/ Has(Tail(todo[g]), o)
    BY <1>2, ThenIs
  <1>9. StreamTypes'
    BY <1>2, <1>3, <1>8 DEF StreamTypes
  <1>10. Excepted' = Excepted
    BY <1>1 DEF Excepted
  <1>11. \A o : Has(N!IfNew(p[1]), o) <=>
            tracker[p[1]] = 0 /\ (o = <<"subscribe", p[1]>> \/ o = <<"sendSubscribe", p[1]>>)
    BY <1>4, IfNewIs
  <1>12. ASSUME NEW x \in Streams \ Excepted PROVE Counted(x)' /\ Entered(x)' /\ Wired(x)'
    <2>1. Counted(x) /\ Entered(x) /\ Wired(x)
      BY <1>2 DEF StreamsOK
    <2>2. todo[g][1] # <<"subscribe", x>> /\ todo[g][1] # <<"sendSubscribe", x>>
      OBVIOUS
    <2>3. \A h \in N!Goroutines : Promised(h, x)
      BY <1>2, <2>2, Unsubscribing
    <2>4. Counted(x)'
      BY <1>1, <1>2, <2>1, OtherUnits, UnitAdded
    <2>5. CASE x = p[1] /\ tracker[x] = 0
      <3>1. Has(todo'[g], <<"subscribe", x>>) /\ Has(todo'[g], <<"sendSubscribe", x>>)
        BY <1>8, <1>11, <2>5
      <3>2. Entered(x)' /\ Wired(x)'
        BY <3>1 DEF Entered, Wired
      <3> QED
        BY <2>4, <3>2
    <2>6. CASE ~(x = p[1] /\ tracker[x] = 0)
      <3>1. tracker'[x] > 0 => tracker[x] > 0
        BY <1>2, <1>3, <2>6 DEF StreamTypes
      <3>2. Entered(x)'
        BY <2>1, <2>3, <3>1 DEF Entered, Promised
      <3>3. Wired(x)'
        BY <2>1, <2>3, <3>1 DEF Wired, Promised
      <3> QED
        BY <2>4, <3>2, <3>3
    <2> QED
      BY <2>5, <2>6
  <1>13. ASSUME NEW t \in Sessions, g # N!Reader(t) PROVE RowsOK(t)'
    BY <1>2, <1>3, <1>10, <1>13, OthersKept
  <1>14. ASSUME NEW t \in Sessions, g = N!Reader(t), phase[t] = "connected"
         PROVE  RowsHeld(t)' /\ AddsHeld(t)' /\ ReleasesRowless(t)' /\ ClearsRowless(t)'
    <2>1. RowsHeld(t) /\ t = s
      BY <1>2, <1>14, GoroutinesAre DEF SessionsOK, RowsOK
    <2>2. \A z : /\ ~Has(Tail(todo[g]), <<"hubAdd", z>>) /\ ~Has(Tail(todo[g]), <<"release", z>>)
                 /\ ~Has(Tail(todo[g]), <<"clear", z>>)
      BY <1>5, PlainHas
    <2>3. \A z : ~Has(more, <<"hubAdd", z>>) /\ ~Has(more, <<"release", z>>) /\ ~Has(more, <<"clear", z>>)
      BY PlainHas
    <2>4. \A z : /\ Has(todo'[g], <<"hubAdd", z>>) => z = p
                 /\ ~Has(todo'[g], <<"release", z>>) /\ ~Has(todo'[g], <<"clear", z>>)
      <3> SUFFICES ASSUME NEW z
                   PROVE  /\ Has(P, <<"hubAdd", z>>) => z = p
                          /\ ~Has(P, <<"release", z>>) /\ ~Has(P, <<"clear", z>>)
        BY <1>8, <2>2
      <3>1. /\ ~Has(N!IfNew(p[1]), <<"hubAdd", z>>) /\ ~Has(N!IfNew(p[1]), <<"release", z>>)
            /\ ~Has(N!IfNew(p[1]), <<"clear", z>>)
        BY <1>11
      <3>2. <<"release", z>> # <<"hubAdd", p>> /\ <<"clear", z>> # <<"hubAdd", p>>
        OBVIOUS
      <3>3. <<"hubAdd", z>> = <<"hubAdd", p>> => z = p
        OBVIOUS
      <3> QED
        BY <2>3, <3>1, <3>2, <3>3
    <2>5. held'[t][p] > 0
      BY <1>1, <1>2, <2>1 DEF N!TrackerAdd, StreamTypes
    <2>6. RowsHeld(t)'
      <3> SUFFICES ASSUME NEW r \in rows[t], ~(held'[t][r] > 0), r[1] \notin Excepted
                   PROVE  Has(todo'[g], <<"hubRemove", r>>)
        BY <1>10, <1>14 DEF RowsHeld
      <3>1. r \in N!Pairs /\ r # p
        BY <1>2, <2>5 DEF StreamTypes, PairSets, N!Pairs
      <3>2. Has(todo[g], <<"hubRemove", r>>)
        BY SMTT(30), <1>3, <1>14, <2>1, <3>1 DEF RowsHeld
      <3>3. todo[g][1] # <<"hubRemove", r>>
        OBVIOUS
      <3> QED
        BY <1>8, <3>2, <3>3
    <2>7. AddsHeld(t)'
      BY <1>14, <2>4, <2>5 DEF AddsHeld
    <2>8. ReleasesRowless(t)'
      BY <1>14, <2>4 DEF ReleasesRowless
    <2>9. ClearsRowless(t)'
      <3> SUFFICES ASSUME NEW j \in Idents, todo'[g] # << >>, todo'[g][1] = <<"clear", j>> PROVE FALSE
        BY <1>14 DEF ClearsRowless
      <3>1. Has(todo'[g], <<"clear", j>>)
        BY <1>8, HeadHas
      <3> QED
        BY <2>4, <3>1
    <2> QED
      BY <2>6, <2>7, <2>8, <2>9
  <1>15. SessionsOK'
    BY <1>7, <1>13, <1>14 DEF SessionsOK, RowsOK
  <1> QED
    BY <1>7, <1>9, <1>10, <1>12, <1>15 DEF ListeningInvariant, StreamsOK

(* A session gives a stream back.                                          *)
LEMMA StreamIsGivenBack ==
    ASSUME ListeningInvariant, NEW g \in N!Goroutines, NEW p \in N!Pairs,
           todo[g] # << >>, todo[g][1][1] \in {"stop", "release"},
           N!TrackerRemove(g[2], p), NEW P \in Seq(Ops), N!Then(g, P), Orderly(P),
           \A z : ~Has(P, <<"hubAdd", z>>) /\ ~Has(P, <<"clear", z>>),
           (g = N!Reader(g[2]) /\ phase[g[2]] = "connected") =>
               /\ p \notin rows[g[2]] \/ Has(P, <<"hubRemove", p>>)
               /\ \A R \in PairSets : Has(P, <<"release", R>>) => rows[g[2]] \cap R = {},
           UNCHANGED <<listed, rows, cache, phase, call, subscriptions, link, keys, subscribed>>
    PROVE  ListeningInvariant'
PROOF
  <1> DEFINE s == g[2]
  <1>1. /\ s \in Sessions /\ late' = late
        /\ overreleased' = IF held[s][p] = 0 THEN overreleased \cup {p[1]} ELSE overreleased
    BY GoroutineIs DEF N!TrackerRemove
  <1>2. StreamTypes /\ ProgramsOrderly /\ StreamsOK /\ SessionsOK
    BY DEF ListeningInvariant
  <1>3. /\ tracker' \in [Streams -> Nat] /\ held' \in [Sessions -> [N!Pairs -> Nat]]
        /\ \A y \in Streams : y # p[1] => tracker'[y] = tracker[y]
        /\ \A t \in Sessions : t # s => held'[t] = held[t]
        /\ \A r \in N!Pairs : r # p => held'[s][r] = held[s][r]
    BY <1>1, <1>2, TrackerTypes
  <1>4. p[1] \in Streams
    BY DEF N!Pairs
  <1>5. Plain(Tail(todo[g])) /\ Tail(todo[g]) \in Seq(Ops)
    BY <1>2, TailOfPlain
  <1>6. Orderly(P \o Tail(todo[g]))
    BY <1>5, OrderlyThenPlain
  <1>7. ProgramsOrderly' /\ \A t \in Sessions : LivesOK(t)'
    BY <1>2, <1>6, MovesOn
  <1>8. /\ todo' \in [N!Goroutines -> Seq(Ops)]
        /\ \A o : Has(todo'[g], o) <=> Has(P, o) \/ Has(Tail(todo[g]), o)
        /\ \A o : Has(todo[g], o) <=> todo[g][1] = o \/ Has(Tail(todo[g]), o)
    BY <1>2, ThenIs
  <1>9. StreamTypes'
    BY <1>2, <1>3, <1>8 DEF StreamTypes
  <1>10. Excepted \subseteq Excepted' /\ (held[s][p] = 0 => p[1] \in Excepted')
    BY <1>1 DEF Excepted
  <1>11. ASSUME NEW x \in Streams \ Excepted' PROVE Counted(x)' /\ Entered(x)' /\ Wired(x)'
    <2>1. Counted(x) /\ Entered(x) /\ Wired(x)
      BY <1>2, <1>10 DEF StreamsOK
    <2>2. todo[g][1] # <<"subscribe", x>> /\ todo[g][1] # <<"sendSubscribe", x>>
      OBVIOUS
    <2>3. \A h \in N!Goroutines : Promised(h, x)
      BY <1>2, <2>2, Unsubscribing
    <2>4. Counted(x)'
      BY <1>1, <1>2, <1>10, <2>1, OtherUnits, UnitRemoved
    <2>5. tracker'[x] > 0 => tracker[x] > 0
      <3>1. PICK n \in Nat : n = tracker[x]
        BY <1>2 DEF StreamTypes
      <3>2. x = p[1] => tracker'[x] = IF n = 0 THEN 0 ELSE n - 1
        BY <1>2, <3>1 DEF N!TrackerRemove, StreamTypes
      <3> QED
        BY <1>3, <3>1, <3>2
    <2>6. Entered(x)'
      BY <2>1, <2>3, <2>5 DEF Entered, Promised
    <2>7. Wired(x)'
      BY <2>1, <2>3, <2>5 DEF Wired, Promised
    <2> QED
      BY <2>4, <2>6, <2>7
  <1>12. ASSUME NEW t \in Sessions, g # N!Reader(t) PROVE RowsOK(t)'
    BY <1>2, <1>3, <1>10, <1>12, OthersKept
  <1>13. ASSUME NEW t \in Sessions, g = N!Reader(t), phase[t] = "connected"
         PROVE  RowsHeld(t)' /\ AddsHeld(t)' /\ ReleasesRowless(t)' /\ ClearsRowless(t)'
    <2>1. RowsHeld(t) /\ t = s
      BY <1>2, <1>13, GoroutinesAre DEF SessionsOK, RowsOK
    <2>2. \A z : /\ ~Has(Tail(todo[g]), <<"hubAdd", z>>) /\ ~Has(Tail(todo[g]), <<"release", z>>)
                 /\ ~Has(Tail(todo[g]), <<"clear", z>>)
      BY <1>5, PlainHas
    <2>3. /\ p \notin rows[t] \/ Has(P, <<"hubRemove", p>>)
          /\ \A R \in PairSets : Has(P, <<"release", R>>) => rows[t] \cap R = {}
      BY <1>13, <2>1
    <2>4. RowsHeld(t)'
      <3> SUFFICES ASSUME NEW r \in rows[t], ~(held'[t][r] > 0), r[1] \notin Excepted'
                   PROVE  Has(todo'[g], <<"hubRemove", r>>)
        BY <1>13 DEF RowsHeld
      <3>1. CASE r = p
        BY <1>8, <2>3, <3>1
      <3>2. CASE r # p
        <4>1. r \in N!Pairs
          BY <1>2 DEF StreamTypes, PairSets, N!Pairs
        <4>2. Has(todo[g], <<"hubRemove", r>>)
          BY <1>3, <1>10, <1>13, <2>1, <3>2, <4>1 DEF RowsHeld
        <4>3. todo[g][1] # <<"hubRemove", r>>
          OBVIOUS
        <4> QED
          BY <1>8, <4>2, <4>3
      <3> QED
        BY <3>1, <3>2
    <2>5. AddsHeld(t)'
      BY <1>8, <1>13, <2>2 DEF AddsHeld
    <2>6. ReleasesRowless(t)'
      BY <1>8, <1>13, <2>2, <2>3 DEF ReleasesRowless
    <2>7. ClearsRowless(t)'
      <3> SUFFICES ASSUME NEW j \in Idents, todo'[g] # << >>, todo'[g][1] = <<"clear", j>> PROVE FALSE
        BY <1>13 DEF ClearsRowless
      <3>1. Has(todo'[g], <<"clear", j>>)
        <4>1. PICK q \in Seq(Ops) : q = todo'[g] /\ q # << >> /\ q[1] = <<"clear", j>>
          BY <1>8
        <4> QED
          BY <4>1, HeadHas
      <3> QED
        BY <1>8, <2>2, <3>1
    <2> QED
      BY <2>4, <2>5, <2>6, <2>7
  <1>14. SessionsOK'
    BY <1>7, <1>12, <1>13 DEF SessionsOK, RowsOK
  <1> QED
    BY <1>7, <1>9, <1>11, <1>14 DEF ListeningInvariant, StreamsOK

(* A reply starts a stream, or its loop ends.                              *)
LEMMA StreamStarts ==
    ASSUME ListeningInvariant, NEW g \in N!Goroutines, N!StartStream(g)
    PROVE  ListeningInvariant'
PROOF
  <1>1. /\ N!At(g, "start")
        /\ UNCHANGED <<listed, rows, cache, phase, call, subscriptions, link, keys, subscribed>>
    BY DEF N!StartStream, N!state, N!life, N!pubsub
  <1>2. StreamTypes
    BY DEF ListeningInvariant
  <1>3. /\ todo[g] # << >> /\ todo[g][1] \in Ops /\ todo[g][1][1] = "start"
        /\ N!Arg(g) = todo[g][1][2] /\ Head(todo[g]) = todo[g][1]
    BY <1>1, <1>2, AtIs
  <1>4. PICK i \in Idents, X \in Sets : i = N!Arg(g) /\ X = Head(todo[g])[3]
    BY <1>3, OpIs
  <1>5. PICK x \in X : /\ N!TrackerAdd(g[2], <<x, i>>)
                       /\ N!Then(g, N!IfNew(x) \o << <<"hubAdd", <<x, i>> >>, <<"list", <<x, i>> >> >>
                                              \o N!Start(i, X \ {x}))
    BY <1>4 DEF N!StartStream
  <1>6. x \in Streams /\ X \ {x} \in Sets
    BY DEF Sets
  <1>7. PICK p \in N!Pairs : p = <<x, i>> /\ p[1] = x
    <2>1. <<x, i>> \in N!Pairs
      BY <1>6 DEF N!Pairs
    <2> QED
      BY <2>1
  <1>8. PICK a \in Ops, b \in Ops : /\ a = <<"hubAdd", p>> /\ b = <<"list", p>>
                                    /\ a[1] = "hubAdd" /\ b[1] = "list"
    BY PairOps
  <1>9. PICK H \in Seq(Ops) : /\ H = <<a, b>> /\ Orderly(H) /\ \A o : Has(H, o) <=> o = a \/ o = b
                              /\ \A k \in 1 .. Len(H) : H[k] = a \/ H[k] = b
    <2>1. <<a, b>> \in Seq(Ops) /\ \A o : Has(<<a, b>>, o) <=> o = a \/ o = b
      BY TwoAre
    <2>2. \A k \in 1 .. Len(<<a, b>>) : <<a, b>>[k] = a \/ <<a, b>>[k] = b
      BY TwoAre
    <2>3. Orderly(<<a, b>>)
      BY <1>8, TwoAre
    <2> QED
      BY <2>1, <2>2, <2>3
  <1>10. PICK A \in Seq(Ops) :
            /\ A = N!IfNew(x)
            /\ \A k \in 1 .. Len(A) : A[k][1] \in {"subscribe", "sendSubscribe"} /\ EntryAt(A, k)
    BY <1>6, IfNewIs
  <1>11. PICK C \in Seq(Ops) : C = N!Start(i, X \ {x}) /\ Plain(C)
    BY <1>6, StartStopPlain
  <1>12. PICK B \in Seq(Ops) : B = A \o H /\ Orderly(B) /\ \A o : Has(B, o) <=> Has(A, o) \/ Has(H, o)
    <2>1. Lead(A, H)
      BY <1>8, <1>9, <1>10 DEF Lead
    <2>2. A \o H \in Seq(Ops) /\ Orderly(A \o H)
      BY <1>9, <2>1, LeadThenOrderly, ConcatProperties
    <2> QED
      BY <2>2, HasJoined
  <1>13. PICK P \in Seq(Ops) : P = B \o C /\ Orderly(P) /\ \A o : Has(P, o) <=> Has(B, o) \/ Has(C, o)
    <2>1. B \o C \in Seq(Ops) /\ Orderly(B \o C)
      BY <1>11, <1>12, OrderlyThenPlain, ConcatProperties
    <2> QED
      BY <2>1, HasJoined
  <1>14. PICK D \in Seq(Ops) : D = <<b>> /\ Plain(D) /\ \A o : Has(D, o) <=> o = b
    BY <1>8, OneIs
  <1>15. PICK more \in Seq(Ops) : Plain(more) /\ \A o : Has(more, o) <=> Has(D, o) \/ Has(C, o)
    <2>1. D \o C \in Seq(Ops) /\ Plain(D \o C)
      BY <1>11, <1>14, PlainJoined, ConcatProperties
    <2> QED
      BY <2>1, HasJoined
  <1>16. N!Then(g, P) /\ N!TrackerAdd(g[2], p)
    BY <1>5, <1>7, <1>8, <1>9, <1>10, <1>11, <1>12, <1>13
  <1>17. \A o : Has(P, o) <=> Has(N!IfNew(p[1]), o) \/ o = <<"hubAdd", p>> \/ Has(more, o)
    BY <1>7, <1>8, <1>9, <1>10, <1>12, <1>13, <1>14, <1>15
  <1>18. todo[g][1][1] \in {"start", "restore"}
    BY <1>3
  <1> QED
    BY <1>1, <1>3, <1>13, <1>15, <1>16, <1>17, <1>18, StreamIsTaken

(* A reply stops a stream, or its loop ends.                               *)
LEMMA StreamStops ==
    ASSUME ListeningInvariant, NEW g \in N!Goroutines, N!StopStream(g)
    PROVE  ListeningInvariant'
PROOF
  <1>1. /\ N!At(g, "stop")
        /\ UNCHANGED <<listed, rows, cache, phase, call, subscriptions, link, keys, subscribed>>
    BY DEF N!StopStream, N!state, N!life, N!pubsub
  <1>2. StreamTypes
    BY DEF ListeningInvariant
  <1>3. /\ todo[g] # << >> /\ todo[g][1] \in Ops /\ todo[g][1][1] = "stop"
        /\ N!Arg(g) = todo[g][1][2] /\ Head(todo[g]) = todo[g][1]
    BY <1>1, <1>2, AtIs
  <1>4. PICK i \in Idents, X \in Sets : i = N!Arg(g) /\ X = Head(todo[g])[3]
    BY <1>3, OpIs
  <1>5. PICK x \in X : /\ N!TrackerRemove(g[2], <<x, i>>)
                       /\ N!Then(g, N!IfLast(x) \o << <<"hubRemove", <<x, i>> >>, <<"unlist", <<x, i>> >> >>
                                               \o N!Stop(i, X \ {x}))
    BY <1>4 DEF N!StopStream
  <1>6. x \in Streams /\ X \ {x} \in Sets
    BY DEF Sets
  <1>7. PICK p \in N!Pairs : p = <<x, i>> /\ p[1] = x
    <2>1. <<x, i>> \in N!Pairs
      BY <1>6 DEF N!Pairs
    <2> QED
      BY <2>1
  <1>8. PICK a \in Ops, b \in Ops : /\ a = <<"hubRemove", p>> /\ b = <<"unlist", p>>
                                    /\ a[1] = "hubRemove" /\ b[1] = "unlist"
    BY PairOps
  <1>9. PICK H \in Seq(Ops) : H = <<a, b>> /\ Plain(H) /\ Has(H, a)
    <2>1. <<a, b>> \in Seq(Ops) /\ Has(<<a, b>>, a)
      BY TwoAre
    <2>2. Plain(<<a, b>>)
      BY <1>8, TwoAre
    <2> QED
      BY <2>1, <2>2
  <1>10. PICK A \in Seq(Ops) : A = N!IfLast(x) /\ Plain(A)
    BY <1>6, IfLastIs
  <1>11. PICK C \in Seq(Ops) : C = N!Stop(i, X \ {x}) /\ Plain(C)
    BY <1>6, StartStopPlain
  <1>12. PICK B \in Seq(Ops) : B = A \o H /\ Plain(B) /\ Has(B, a)
    <2>1. A \o H \in Seq(Ops) /\ Plain(A \o H)
      BY <1>9, <1>10, PlainJoined, ConcatProperties
    <2> QED
      BY <1>9, <2>1, HasJoined
  <1>13. PICK P \in Seq(Ops) : P = B \o C /\ Plain(P) /\ Has(P, a)
    <2>1. B \o C \in Seq(Ops) /\ Plain(B \o C)
      BY <1>11, <1>12, PlainJoined, ConcatProperties
    <2> QED
      BY <1>12, <2>1, HasJoined
  <1>14. N!Then(g, P) /\ N!TrackerRemove(g[2], p)
    BY <1>5, <1>7, <1>8, <1>9, <1>10, <1>11, <1>12, <1>13
  <1>15. /\ Orderly(P) /\ \A z : ~Has(P, <<"hubAdd", z>>) /\ ~Has(P, <<"clear", z>>)
         /\ \A z : ~Has(P, <<"release", z>>)
    BY <1>13, PlainHas, PlainOrderly
  <1>16. todo[g][1][1] \in {"stop", "release"} /\ Has(P, <<"hubRemove", p>>)
    BY <1>3, <1>8, <1>13
  <1> QED
    BY <1>1, <1>3, <1>14, <1>15, <1>16, StreamIsGivenBack

(* The end of a loop over streams.                                         *)
LEMMA LoopEnds ==
    ASSUME ListeningInvariant, NEW g \in N!Goroutines, todo[g] # << >>,
           todo[g][1][1] \in {"release", "restore"}, N!Then(g, << >>),
           UNCHANGED <<listed, rows, cache, phase, call, tracker, held, subscriptions, link, keys,
                       subscribed, overreleased, late>>
    PROVE  ListeningInvariant'
PROOF
  <1>1. StreamTypes /\ ProgramsOrderly /\ StreamsOK /\ SessionsOK
    BY DEF ListeningInvariant
  <1>2. ProgramsOrderly' /\ SessionsOK'
    <2>1. Excepted \subseteq Excepted' /\ todo[g][1][1] \notin {"hubRemove", "hubRemoveChannel"}
      BY DEF Excepted
    <2>2. Orderly(<< >> \o Tail(todo[g])) /\ << >> \in Seq(Ops) /\ Rowless(<< >>)
      BY <1>1, NoneIs, NoneThen, NoneRowless
    <2> QED
      BY <1>1, <2>1, <2>2, RowsUndisturbed
  <1>3. StreamsOK'
    BY <1>1, NoneIs, StreamsKept
  <1>4. todo' \in [N!Goroutines -> Seq(Ops)]
    BY <1>1, NoneIs, ThenIs
  <1>5. StreamTypes'
    BY <1>1, <1>4 DEF StreamTypes
  <1> QED
    BY <1>2, <1>3, <1>5 DEF ListeningInvariant

(* A stream of the rows is released, or the loop ends.                     *)
LEMMA StreamIsReleased ==
    ASSUME ListeningInvariant, NEW g \in N!Goroutines, N!ReleaseStream(g)
    PROVE  ListeningInvariant'
PROOF
  <1>1. /\ N!At(g, "release")
        /\ UNCHANGED <<listed, rows, cache, phase, call, subscriptions, link, keys, subscribed>>
    BY DEF N!ReleaseStream, N!state, N!life, N!pubsub
  <1>2. StreamTypes /\ SessionsOK
    BY DEF ListeningInvariant
  <1>3. /\ todo[g] # << >> /\ todo[g] \in Seq(Ops) /\ todo[g][1] \in Ops /\ todo[g][1][1] = "release"
        /\ N!Arg(g) = todo[g][1][2]
    BY <1>1, <1>2, AtIs
  <1>4. PICK R \in PairSets : R = N!Arg(g) /\ todo[g][1] = <<"release", R>>
    BY <1>3, OpIs
  <1>5. CASE N!Then(g, << >>) /\ UNCHANGED <<tracker, N!history>>
    <2>1. UNCHANGED <<tracker, held, overreleased, late>>
      BY <1>5 DEF N!history
    <2>2. todo[g][1][1] \in {"release", "restore"}
      BY <1>3
    <2> QED
      BY <1>1, <1>3, <1>5, <2>1, <2>2, LoopEnds
  <1>6. ASSUME NEW p \in R, N!TrackerRemove(g[2], p),
               N!Then(g, N!IfLast(p[1]) \o << <<"release", R \ {p}>> >>)
        PROVE  ListeningInvariant'
    <2>1. p \in N!Pairs /\ p[1] \in Streams /\ R \ {p} \in PairSets
      BY DEF PairSets, N!Pairs
    <2>2. PICK a \in Ops : a = <<"release", R \ {p}>> /\ a[1] = "release" /\ a[2] = R \ {p}
      BY <2>1, OtherOps
    <2>3. PICK H \in Seq(Ops) : /\ H = <<a>> /\ Orderly(H) /\ \A o : Has(H, o) <=> o = a
                                /\ \A k \in 1 .. Len(H) : H[k] = a
      <3>1. <<a>> \in Seq(Ops) /\ \A o : Has(<<a>>, o) <=> o = a
        BY OneIs
      <3>2. Orderly(<<a>>)
        BY <2>2, OneIs
      <3>3. \A k \in 1 .. Len(<<a>>) : <<a>>[k] = a
        BY OneIs
      <3> QED
        BY <3>1, <3>2, <3>3
    <2>4. PICK A \in Seq(Ops) :
             /\ A = N!IfLast(p[1]) /\ Plain(A)
             /\ \A k \in 1 .. Len(A) : A[k][1] \in {"unsubscribe", "sendUnsubscribe"}
      BY <2>1, IfLastIs
    <2>5. PICK P \in Seq(Ops) : P = A \o H /\ Orderly(P) /\ \A o : Has(P, o) <=> Has(A, o) \/ Has(H, o)
      <3>1. Lead(A, H)
        BY <2>2, <2>3, <2>4 DEF Lead
      <3>2. A \o H \in Seq(Ops) /\ Orderly(A \o H)
        BY <2>3, <3>1, LeadThenOrderly, ConcatProperties
      <3> QED
        BY <3>2, HasJoined
    <2>6. N!Then(g, P)
      BY <1>6, <2>2, <2>3, <2>4, <2>5
    <2>7. \A z : ~Has(A, <<"hubAdd", z>>) /\ ~Has(A, <<"clear", z>>) /\ ~Has(A, <<"release", z>>)
      BY <2>4, PlainHas
    <2>8. \A z : ~Has(P, <<"hubAdd", z>>) /\ ~Has(P, <<"clear", z>>)
      <3>1. \A z : <<"hubAdd", z>> # a /\ <<"clear", z>> # a
        BY <2>2
      <3> QED
        BY <2>3, <2>5, <2>7, <3>1
    <2>9. ASSUME g = N!Reader(g[2]), phase[g[2]] = "connected"
          PROVE  /\ p \notin rows[g[2]]
                 /\ \A S \in PairSets : Has(P, <<"release", S>>) => rows[g[2]] \cap S = {}
      <3>1. g[2] \in Sessions /\ ReleasesRowless(g[2])
        BY <1>2, <2>9, GoroutineIs DEF SessionsOK, RowsOK
      <3>2. Has(todo[g], <<"release", R>>)
        BY <1>3, <1>4, HeadHas
      <3>3. rows[g[2]] \cap R = {}
        BY <2>9, <3>1, <3>2 DEF ReleasesRowless
      <3>4. ASSUME NEW S \in PairSets, Has(P, <<"release", S>>) PROVE S = R \ {p}
        <4>1. <<"release", S>> = a
          BY <2>3, <2>5, <2>7, <3>4
        <4> QED
          BY <2>2, <4>1
      <3> QED
        BY <3>3, <3>4
    <2>10. todo[g][1][1] \in {"stop", "release"}
      BY <1>3
    <2> QED
      BY <1>1, <1>3, <1>6, <2>1, <2>5, <2>6, <2>8, <2>9, <2>10, StreamIsGivenBack
  <1> QED
    BY <1>4, <1>5, <1>6 DEF N!ReleaseStream

(* A restored session takes a stream again, or the loop ends.              *)
LEMMA StreamIsRestored ==
    ASSUME ListeningInvariant, NEW g \in N!Goroutines, N!RestoreStream(g)
    PROVE  ListeningInvariant'
PROOF
  <1>1. /\ N!At(g, "restore")
        /\ UNCHANGED <<listed, rows, cache, phase, call, subscriptions, link, keys, subscribed>>
    BY DEF N!RestoreStream, N!state, N!life, N!pubsub
  <1>2. StreamTypes
    BY DEF ListeningInvariant
  <1>3. /\ todo[g] # << >> /\ todo[g][1] \in Ops /\ todo[g][1][1] = "restore"
        /\ N!Arg(g) = todo[g][1][2]
    BY <1>1, <1>2, AtIs
  <1>4. PICK R \in PairSets : R = N!Arg(g)
    BY <1>3, OpIs
  <1>5. CASE N!Then(g, << >>) /\ UNCHANGED <<tracker, N!history>>
    <2>1. UNCHANGED <<tracker, held, overreleased, late>>
      BY <1>5 DEF N!history
    <2>2. todo[g][1][1] \in {"release", "restore"}
      BY <1>3
    <2> QED
      BY <1>1, <1>3, <1>5, <2>1, <2>2, LoopEnds
  <1>6. ASSUME NEW p \in R, N!TrackerAdd(g[2], p),
               N!Then(g, N!IfNew(p[1]) \o << <<"hubAdd", p>>, <<"restore", R \ {p}>> >>)
        PROVE  ListeningInvariant'
    <2>1. p \in N!Pairs /\ p[1] \in Streams /\ R \ {p} \in PairSets
      BY DEF PairSets, N!Pairs
    <2>2. PICK a \in Ops : a = <<"hubAdd", p>> /\ a[1] = "hubAdd"
      BY <2>1, PairOps
    <2>3. PICK b \in Ops : b = <<"restore", R \ {p}>> /\ b[1] = "restore"
      BY <2>1, OtherOps
    <2>4. PICK H \in Seq(Ops) : /\ H = <<a, b>> /\ Orderly(H) /\ \A o : Has(H, o) <=> o = a \/ o = b
                                /\ \A k \in 1 .. Len(H) : H[k] = a \/ H[k] = b
      <3>1. <<a, b>> \in Seq(Ops) /\ \A o : Has(<<a, b>>, o) <=> o = a \/ o = b
        BY TwoAre
      <3>2. \A k \in 1 .. Len(<<a, b>>) : <<a, b>>[k] = a \/ <<a, b>>[k] = b
        BY TwoAre
      <3>3. Orderly(<<a, b>>)
        BY <2>2, <2>3, TwoAre
      <3> QED
        BY <3>1, <3>2, <3>3
    <2>5. PICK A \in Seq(Ops) :
             /\ A = N!IfNew(p[1])
             /\ \A k \in 1 .. Len(A) : A[k][1] \in {"subscribe", "sendSubscribe"} /\ EntryAt(A, k)
      BY <2>1, IfNewIs
    <2>6. PICK P \in Seq(Ops) : P = A \o H /\ Orderly(P) /\ \A o : Has(P, o) <=> Has(A, o) \/ Has(H, o)
      <3>1. Lead(A, H)
        BY <2>2, <2>3, <2>4, <2>5 DEF Lead
      <3>2. A \o H \in Seq(Ops) /\ Orderly(A \o H)
        BY <2>4, <3>1, LeadThenOrderly, ConcatProperties
      <3> QED
        BY <3>2, HasJoined
    <2>7. PICK more \in Seq(Ops) : Plain(more) /\ \A o : Has(more, o) <=> o = b
      BY <2>3, OneIs
    <2>8. N!Then(g, P)
      BY <1>6, <2>2, <2>3, <2>4, <2>5, <2>6
    <2>9. \A o : Has(P, o) <=> Has(N!IfNew(p[1]), o) \/ o = <<"hubAdd", p>> \/ Has(more, o)
      BY <2>2, <2>4, <2>5, <2>6, <2>7
    <2>10. todo[g][1][1] \in {"start", "restore"}
      BY <1>3
    <2> QED
      BY <1>1, <1>3, <1>6, <2>1, <2>6, <2>7, <2>8, <2>9, <2>10, StreamIsTaken
  <1> QED
    BY <1>4, <1>5, <1>6 DEF N!RestoreStream

-----------------------------------------------------------------------------
(* Commands and sessions.                                                  *)

(* A program that a handler begins with: no row and no release in it, and  *)
(* no clear before the rows are gone.                                      *)
Fresh(q) ==
    /\ q \in Seq(Ops) /\ Orderly(q)
    /\ \A k \in 1 .. Len(q) : q[k][1] \notin {"hubAdd", "release"} /\ (k = 1 => q[k][1] # "clear")

(* A plain program can be what a goroutine begins with.                    *)
LEMMA PlainFresh ==
    ASSUME NEW q \in Seq(Ops), Plain(q)
    PROVE  Fresh(q)
BY PlainOrderly DEF Fresh, Plain

(* So can one that a plain program follows.                                *)
LEMMA FreshThenPlain ==
    ASSUME NEW p, Fresh(p), NEW q \in Seq(Ops), Plain(q)
    PROVE  Fresh(p \o q)
PROOF
  <1>1. p \in Seq(Ops) /\ Orderly(p)
    BY DEF Fresh
  <1>2. PICK a \in Nat, b \in Nat : a = Len(p) /\ b = Len(q)
    BY <1>1
  <1>3. PICK r : r = p \o q
    OBVIOUS
  <1>4. JoinIs(Ops, p, q, r, a, b)
    BY <1>1, <1>2, <1>3, JoinedS
  <1>5. Orderly(r)
    BY <1>1, <1>3, OrderlyThenPlain
  <1>6. ASSUME NEW k \in 1 .. a
        PROVE  r[k][1] \notin {"hubAdd", "release"} /\ (k = 1 => r[k][1] # "clear")
    BY <1>2, <1>4 DEF JoinIs, Fresh
  <1>7. ASSUME NEW k \in 1 .. b
        PROVE  r[a + k][1] \notin {"hubAdd", "release"} /\ r[a + k][1] # "clear"
    BY <1>2, <1>4 DEF JoinIs, Plain
  <1>8. r \in Seq(Ops) /\ Len(r) = a + b
        /\ \A i \in 1 .. a + b : i \in 1 .. a \/ \E k \in 1 .. b : i = a + k
    BY <1>4 DEF JoinIs
  <1>9. ASSUME NEW i \in 1 .. a + b
        PROVE  r[i][1] \notin {"hubAdd", "release"} /\ (i = 1 => r[i][1] # "clear")
    <2>1. CASE i \in 1 .. a
      BY <1>6, <2>1
    <2>2. ASSUME NEW k \in 1 .. b, i = a + k
          PROVE  r[i][1] \notin {"hubAdd", "release"} /\ r[i][1] # "clear"
      BY <1>7, <2>2
    <2> QED
      BY <1>8, <2>1, <2>2
  <1> QED
    BY <1>3, <1>5, <1>8, <1>9 DEF Fresh

(* So can the reply that stops all streams of a channel.                   *)
LEMMA StopAllFresh ==
    ASSUME NEW i \in Idents
    PROVE  Fresh(N!StopAll(i))
PROOF
  <1>1. PICK a \in Ops, b \in Ops : /\ a = <<"hubRemoveChannel", i>> /\ a[1] = "hubRemoveChannel"
                                    /\ b = <<"clear", i>> /\ b[1] = "clear"
    BY OtherOps
  <1>2. PICK q : q = N!StopAll(i) /\ q = <<a, b>> /\ Len(q) = 2 /\ q[1] = a /\ q[2] = b
    <2>1. N!StopAll(i) = <<a, b>>
      BY <1>1 DEF N!StopAll
    <2>2. PICK q : q = <<a, b>>
      OBVIOUS
    <2>3. Len(q) = 2 /\ q[1] = a /\ q[2] = b
      BY <2>2
    <2> QED
      BY <2>1, <2>2, <2>3
  <1>3. q \in Seq(Ops) /\ Orderly(q)
    BY <1>2, StopAllIs
  <1>4. 1 .. 2 = {1, 2}
    OBVIOUS
  <1> QED
    BY <1>1, <1>2, <1>3, <1>4 DEF Fresh

(* So can any reply of the RPC server, with the commit after it.           *)
LEMMA RepliesFresh ==
    ASSUME NEW i \in Idents, NEW reply \in N!Replies(i)
    PROVE  Fresh(reply \o N!Commit)
PROOF
  <1>1. PICK stops \in {N!StopAll(i)} \cup {N!Stop(i, Y) : Y \in SUBSET Streams},
             X \in SUBSET Streams : reply = stops \o N!Start(i, X)
    BY DEF N!Replies
  <1>2. Fresh(stops)
    <2>1. CASE stops = N!StopAll(i)
      BY <2>1, StopAllFresh
    <2>2. ASSUME NEW Y \in SUBSET Streams, stops = N!Stop(i, Y) PROVE Fresh(stops)
      BY <2>2, StartStopPlain, PlainFresh DEF Sets
    <2> QED
      BY <1>1, <2>1, <2>2
  <1>3. N!Start(i, X) \in Seq(Ops) /\ Plain(N!Start(i, X))
    BY StartStopPlain DEF Sets
  <1>4. Fresh(reply)
    BY <1>1, <1>2, <1>3, FreshThenPlain
  <1> QED
    BY <1>4, CommitIs, FreshThenPlain

(* What a goroutine does not begin with.                                   *)
LEMMA FreshHas ==
    ASSUME NEW q, Fresh(q)
    PROVE  /\ \A z : ~Has(q, <<"hubAdd", z>>) /\ ~Has(q, <<"release", z>>)
           /\ \A z : ~(q # << >> /\ q[1] = <<"clear", z>>)
PROOF
  <1>1. \A z : ~Has(q, <<"hubAdd", z>>) /\ ~Has(q, <<"release", z>>)
    BY DEF Fresh, Has
  <1>2. ASSUME NEW z, q # << >>, q[1] = <<"clear", z>> PROVE FALSE
    <2>1. 1 \in 1 .. Len(q)
      BY <1>2, TailIs DEF Fresh
    <2> QED
      BY <1>2, <2>1 DEF Fresh
  <1> QED
    BY <1>1, <1>2

(* The reader of s had nothing to do, and begins.                          *)
LEMMA ReaderBegins ==
    ASSUME ListeningInvariant, NEW s \in Sessions, todo[N!Reader(s)] = << >>,
           NEW q, Fresh(q), todo' = [todo EXCEPT ![N!Reader(s)] = q],
           call' \in {call, [call EXCEPT ![s] = N!NoCall]}, call'[s] = N!NoCall,
           \/ phase' = phase /\ phase[s] # "new"
           \/ phase[s] = "new" /\ phase' = [phase EXCEPT ![s] = "connected"],
           UNCHANGED <<rows, tracker, held, subscriptions, link, keys, subscribed, overreleased, late>>,
           listed' \in [Sessions -> PairSets], cache' = cache
    PROVE  ListeningInvariant'
PROOF
  <1>1. StreamTypes /\ ProgramsOrderly /\ StreamsOK /\ SessionsOK
    BY DEF ListeningInvariant
  <1>2. q \in Seq(Ops) /\ Orderly(q) /\ N!Reader(s) \in N!Goroutines
    BY GoroutinesAre DEF Fresh
  <1>3. /\ todo' \in [N!Goroutines -> Seq(Ops)] /\ todo'[N!Reader(s)] = q
        /\ \A h \in N!Goroutines : h # N!Reader(s) => todo'[h] = todo[h]
    BY <1>1, <1>2 DEF StreamTypes
  <1>4. ProgramsOrderly'
    BY <1>1, <1>2, <1>3 DEF ProgramsOrderly
  <1>5. phase' \in [Sessions -> {"new", "connected", "gone"}] /\ phase'[s] # "new"
        /\ \A t \in Sessions : t # s => phase'[t] = phase[t]
    BY <1>1 DEF StreamTypes
  <1>6. DOMAIN call' = Sessions /\ \A t \in Sessions : t # s => call'[t] = call[t]
    BY <1>1 DEF StreamTypes
  <1>7. \A t \in Sessions : call'[t] = N!NoCall \/ call'[t][2] \in Idents
    BY <1>1, <1>6 DEF StreamTypes
  <1>8. StreamTypes'
    BY <1>1, <1>3, <1>5, <1>6, <1>7 DEF StreamTypes
  <1>9. ASSUME NEW x \in Streams \ Excepted PROVE Counted(x)' /\ Entered(x)' /\ Wired(x)'
    <2>1. \A g \in N!Goroutines : Promised(g, x)
      BY <1>3, NoneIs DEF Promised
    <2> QED
      BY <1>1, <2>1, StreamKept DEF StreamsOK
  <1>10. Excepted' = Excepted
    BY DEF Excepted
  <1>11. ASSUME NEW t \in Sessions, t # s PROVE LivesOK(t)' /\ RowsOK(t)'
    <2>1. N!Reader(t) # N!Reader(s) /\ N!Leaver(t) # N!Reader(s)
      BY <1>11, GoroutinesAre
    <2>2. todo'[N!Reader(t)] = todo[N!Reader(t)] /\ todo'[N!Leaver(t)] = todo[N!Leaver(t)]
      BY <1>3, <2>1, GoroutinesAre
    <2>3. LivesOK(t)'
      BY <1>1, <1>5, <1>6, <1>11, <2>2 DEF SessionsOK, LivesOK
    <2>4. RowsOK(t)'
      BY <1>1, <1>5, <1>10, <1>11, <2>2, RowsKept DEF SessionsOK
    <2> QED
      BY <2>3, <2>4
  <1>12. LivesOK(s)'
    <2>1. N!Leaver(s) # N!Reader(s)
      BY GoroutinesAre
    <2>2. todo'[N!Leaver(s)] = todo[N!Leaver(s)]
      BY <1>3, <2>1, GoroutinesAre
    <2> QED
      BY <1>1, <1>5, <2>2 DEF SessionsOK, LivesOK
  <1>13. ASSUME phase'[s] = "connected"
         PROVE  RowsHeld(s)' /\ AddsHeld(s)' /\ ReleasesRowless(s)' /\ ClearsRowless(s)'
    <2>1. ASSUME NEW p \in rows[s] PROVE held[s][p] > 0 \/ p[1] \in Excepted
      <3>1. phase[s] = "connected" /\ RowsHeld(s)
        BY <1>1, <1>13 DEF SessionsOK, LivesOK, RowsOK
      <3> QED
        BY <3>1, NoneIs DEF RowsHeld
    <2>2. RowsHeld(s)'
      BY <1>10, <2>1 DEF RowsHeld
    <2>3. AddsHeld(s)' /\ ReleasesRowless(s)'
      BY <1>3, FreshHas DEF AddsHeld, ReleasesRowless
    <2>4. ClearsRowless(s)'
      BY <1>3, FreshHas DEF ClearsRowless
    <2> QED
      BY <2>2, <2>3, <2>4
  <1>14. SessionsOK'
    BY <1>11, <1>12, <1>13 DEF SessionsOK, RowsOK
  <1> QED
    BY <1>4, <1>8, <1>9, <1>10, <1>14 DEF ListeningInvariant, StreamsOK

(* The RPC server answers a command, or the command is dropped.            *)
LEMMA CommandReturns ==
    ASSUME ListeningInvariant, NEW s \in Sessions,
           N!Dropped(s) \/ N!Subscribed(s) \/ N!Rejected(s) \/ N!Performed(s) \/ N!Unsubscribed(s)
    PROVE  ListeningInvariant'
PROOF
  <1>1. StreamTypes /\ SessionsOK
    BY DEF ListeningInvariant
  <1>2. /\ call[s] # N!NoCall /\ call' = [call EXCEPT ![s] = N!NoCall]
        /\ UNCHANGED <<rows, cache, phase, tracker, subscriptions, link, keys, subscribed,
                       held, overreleased, late>>
    BY DEF N!Dropped, N!Subscribed, N!Rejected, N!Performed, N!Unsubscribed, N!Returned,
           N!pubsub, N!history
  <1>3. PICK i \in Idents : i = call[s][2]
    BY <1>1, <1>2 DEF StreamTypes
  <1>4. /\ todo[N!Reader(s)] = << >> /\ phase[s] # "new" /\ call'[s] = N!NoCall
    BY <1>1, <1>2 DEF SessionsOK, LivesOK, StreamTypes
  <1>5. listed' \in [Sessions -> PairSets]
    <2>1. UNCHANGED listed \/ listed' = [listed EXCEPT ![s] = @ \ N!StreamsFor(s, call[s][2])]
      BY DEF N!Dropped, N!Subscribed, N!Rejected, N!Performed, N!Unsubscribed
    <2>2. PICK R : R = N!StreamsFor(s, call[s][2])
      OBVIOUS
    <2>3. listed[s] \ R \in PairSets
      BY <1>1 DEF StreamTypes, PairSets
    <2>4. CASE listed' = [listed EXCEPT ![s] = @ \ R]
      BY <1>1, <2>3, <2>4 DEF StreamTypes
    <2>5. CASE listed' = listed
      BY <1>1, <2>5 DEF StreamTypes
    <2> QED
      BY <2>1, <2>2, <2>4, <2>5
  <1>6. \E q : Fresh(q) /\ todo' = [todo EXCEPT ![N!Reader(s)] = q]
    <2>1. CASE N!Dropped(s)
      <3>1. todo' = todo /\ N!Reader(s) \in N!Goroutines
        BY <2>1, GoroutinesAre DEF N!Dropped
      <3>2. todo' = [todo EXCEPT ![N!Reader(s)] = << >>]
        BY <1>1, <1>4, <3>1 DEF StreamTypes
      <3>3. Fresh(<< >>)
        BY NoneIs, PlainFresh
      <3> QED
        BY <3>2, <3>3
    <2>2. CASE N!Subscribed(s) \/ N!Performed(s)
      <3>1. PICK reply \in N!Replies(i) : todo' = [todo EXCEPT ![N!Reader(s)] = reply \o N!Commit]
        BY <1>3, <2>2 DEF N!Subscribed, N!Performed, N!Run
      <3> QED
        BY <3>1, RepliesFresh
    <2>3. CASE N!Rejected(s)
      <3>1. todo' = [todo EXCEPT ![N!Reader(s)] = N!StopAll(i)]
        BY <1>3, <2>3 DEF N!Rejected, N!Run
      <3> QED
        BY <3>1, StopAllFresh
    <2>4. CASE N!Unsubscribed(s)
      <3>1. todo' = [todo EXCEPT ![N!Reader(s)] = N!StopAll(i) \o N!Commit]
        BY <1>3, <2>4 DEF N!Unsubscribed, N!Run
      <3>2. Fresh(N!StopAll(i) \o N!Commit)
        BY StopAllFresh, CommitIs, FreshThenPlain
      <3> QED
        BY <3>1, <3>2
    <2> QED
      BY <2>1, <2>2, <2>3, <2>4
  <1>7. PICK q : Fresh(q) /\ todo' = [todo EXCEPT ![N!Reader(s)] = q]
    BY <1>6
  <1>8. call' \in {call, [call EXCEPT ![s] = N!NoCall]}
    BY <1>2
  <1> QED
    BY <1>2, <1>4, <1>5, <1>7, <1>8, ReaderBegins

(* A session is authenticated, or restored from the cache.                 *)
LEMMA SessionConnects ==
    ASSUME ListeningInvariant, NEW s \in Sessions,
           N!Authenticated(s) \/ \E prev \in Sessions : N!TryRestoreSession(s, prev)
    PROVE  ListeningInvariant'
PROOF
  <1>1. StreamTypes /\ SessionsOK
    BY DEF ListeningInvariant
  <1>2. /\ phase[s] = "new" /\ phase' = [phase EXCEPT ![s] = "connected"]
        /\ UNCHANGED <<rows, cache, call, tracker, subscriptions, link, keys, subscribed,
                       held, overreleased, late>>
    BY DEF N!Authenticated, N!TryRestoreSession, N!state, N!pubsub, N!history
  <1>3. todo[N!Reader(s)] = << >> /\ call[s] = N!NoCall
    BY <1>1, <1>2 DEF SessionsOK, LivesOK
  <1>4. \E q : /\ Fresh(q) /\ todo' = [todo EXCEPT ![N!Reader(s)] = q]
               /\ listed' \in [Sessions -> PairSets]
    <2>1. CASE N!Authenticated(s)
      <3>1. todo' = [todo EXCEPT ![N!Reader(s)] = N!Commit] /\ listed' = listed
        BY <2>1 DEF N!Authenticated, N!Run, N!state
      <3>2. Fresh(N!Commit)
        BY CommitIs, PlainFresh
      <3> QED
        BY <1>1, <3>1, <3>2 DEF StreamTypes
    <2>2. ASSUME NEW prev \in Sessions, N!TryRestoreSession(s, prev)
          PROVE  \E q : /\ Fresh(q) /\ todo' = [todo EXCEPT ![N!Reader(s)] = q]
                        /\ listed' \in [Sessions -> PairSets]
      <3>1. PICK R \in PairSets : R = cache[prev].listed
        BY <1>1 DEF StreamTypes
      <3>2. /\ todo' = [todo EXCEPT ![N!Reader(s)] = << <<"restore", R>> >> \o N!Commit]
            /\ listed' = [listed EXCEPT ![s] = R]
        BY <2>2, <3>1 DEF N!TryRestoreSession, N!Run
      <3>3. PICK a \in Ops : a = <<"restore", R>> /\ a[1] = "restore"
        BY OtherOps
      <3>4. Plain(<<a>>) /\ <<a>> \in Seq(Ops)
        BY <3>3, OneIs
      <3>5. Fresh(<<a>> \o N!Commit)
        BY <3>4, PlainFresh, CommitIs, FreshThenPlain
      <3>6. listed' \in [Sessions -> PairSets]
        BY <1>1, <3>2 DEF StreamTypes
      <3> QED
        BY <3>2, <3>3, <3>5, <3>6
    <2> QED
      BY <2>1, <2>2
  <1>5. PICK q : /\ Fresh(q) /\ todo' = [todo EXCEPT ![N!Reader(s)] = q]
                 /\ listed' \in [Sessions -> PairSets]
    BY <1>4
  <1>6. call' \in {call, [call EXCEPT ![s] = N!NoCall]} /\ call'[s] = N!NoCall
    BY <1>2, <1>3
  <1> QED
    BY <1>2, <1>3, <1>5, <1>6, ReaderBegins

(* A command is sent to the RPC server.                                    *)
LEMMA CommandIsCalled ==
    ASSUME ListeningInvariant, NEW s \in Sessions, NEW i \in Idents, NEW command,
           N!Call(s, command, i)
    PROVE  ListeningInvariant'
PROOF
  <1>1. StreamTypes /\ ProgramsOrderly /\ StreamsOK /\ SessionsOK
    BY DEF ListeningInvariant
  <1>2. /\ phase[s] # "new" /\ todo[N!Reader(s)] = << >>
        /\ call' = [call EXCEPT ![s] = <<command, i>>]
        /\ UNCHANGED <<listed, rows, cache, phase, todo, tracker, subscriptions, link, keys, subscribed,
                       held, overreleased, late>>
    BY DEF N!Call, N!Idle, N!state, N!pubsub, N!history
  <1>3. DOMAIN call' = Sessions /\ \A t \in Sessions : call'[t] = N!NoCall \/ call'[t][2] \in Idents
    BY <1>1, <1>2 DEF StreamTypes
  <1>4. StreamTypes'
    BY <1>1, <1>2, <1>3 DEF StreamTypes
  <1>5. ProgramsOrderly' /\ Excepted' = Excepted
    BY <1>1, <1>2 DEF ProgramsOrderly, Excepted
  <1>6. ASSUME NEW x \in Streams \ Excepted PROVE Counted(x)' /\ Entered(x)' /\ Wired(x)'
    <2>1. \A g \in N!Goroutines : Promised(g, x)
      BY <1>2 DEF Promised
    <2> QED
      BY <1>1, <1>2, <2>1, StreamKept DEF StreamsOK
  <1>7. ASSUME NEW t \in Sessions PROVE LivesOK(t)' /\ RowsOK(t)'
    <2>1. t # s => call'[t] = call[t]
      BY <1>1, <1>2 DEF StreamTypes
    <2>2. LivesOK(t)'
      BY <1>1, <1>2, <2>1 DEF SessionsOK, LivesOK
    <2>3. RowsOK(t)'
      BY <1>1, <1>2, <1>5, RowsKept DEF SessionsOK
    <2> QED
      BY <2>2, <2>3
  <1> QED
    BY <1>4, <1>5, <1>6, <1>7 DEF ListeningInvariant, StreamsOK, SessionsOK

(* A session is disconnected.                                              *)
LEMMA SessionLeaves ==
    ASSUME ListeningInvariant, NEW s \in Sessions, N!Disconnect(s)
    PROVE  ListeningInvariant'
PROOF
  <1>1. StreamTypes /\ ProgramsOrderly /\ StreamsOK /\ SessionsOK
    BY DEF ListeningInvariant
  <1>2. /\ phase[s] = "connected" /\ phase' = [phase EXCEPT ![s] = "gone"]
        /\ UNCHANGED <<listed, rows, cache, call, tracker, subscriptions, link, keys, subscribed,
                       held, overreleased, late>>
    BY DEF N!Disconnect, N!state, N!pubsub, N!history
  <1>3. PICK R \in PairSets : R = listed[s]
    BY <1>1 DEF StreamTypes
  <1>4. PICK a \in Ops, b \in Ops : /\ a = <<"release", R>> /\ a[1] = "release"
                                    /\ b = <<"removeSession">> /\ b[1] = "removeSession"
    BY OtherOps
  <1>5. PICK q \in Seq(Ops) : q = <<a, b>> /\ Orderly(q)
    <2>1. <<a, b>> \in Seq(Ops)
      BY TwoAre
    <2>2. Orderly(<<a, b>>)
      BY <1>4, TwoAre
    <2> QED
      BY <2>1, <2>2
  <1>6. todo' = [todo EXCEPT ![N!Leaver(s)] = q] /\ N!Leaver(s) \in N!Goroutines
    BY <1>3, <1>4, <1>5, GoroutinesAre DEF N!Disconnect
  <1>7. /\ todo' \in [N!Goroutines -> Seq(Ops)] /\ todo'[N!Leaver(s)] = q
        /\ \A h \in N!Goroutines : h # N!Leaver(s) => todo'[h] = todo[h]
    BY <1>1, <1>6 DEF StreamTypes
  <1>8. /\ phase' \in [Sessions -> {"new", "connected", "gone"}] /\ phase'[s] = "gone"
        /\ \A t \in Sessions : t # s => phase'[t] = phase[t]
    BY <1>1, <1>2 DEF StreamTypes
  <1>9. StreamTypes'
    BY <1>1, <1>2, <1>7, <1>8 DEF StreamTypes
  <1>10. ProgramsOrderly'
    BY <1>1, <1>5, <1>7 DEF ProgramsOrderly
  <1>11. Excepted' = Excepted
    BY <1>2 DEF Excepted
  <1>12. todo[N!Leaver(s)] = << >>
    BY <1>1, <1>2 DEF SessionsOK, LivesOK
  <1>13. ASSUME NEW x \in Streams \ Excepted PROVE Counted(x)' /\ Entered(x)' /\ Wired(x)'
    <2>1. \A g \in N!Goroutines : Promised(g, x)
      BY <1>7, <1>12, NoneIs DEF Promised
    <2> QED
      BY <1>1, <1>2, <2>1, StreamKept DEF StreamsOK
  <1>14. ASSUME NEW t \in Sessions PROVE LivesOK(t)' /\ RowsOK(t)'
    <2>1. todo'[N!Reader(t)] = todo[N!Reader(t)]
      BY <1>7, GoroutinesAre
    <2>2. CASE t = s
      BY <1>1, <1>2, <1>8, <2>1, <2>2 DEF SessionsOK, LivesOK, RowsOK
    <2>3. CASE t # s
      <3>1. N!Leaver(t) # N!Leaver(s)
        BY <2>3, GoroutinesAre
      <3>2. todo'[N!Leaver(t)] = todo[N!Leaver(t)]
        BY <1>7, <3>1, GoroutinesAre
      <3>3. LivesOK(t)'
        BY <1>1, <1>2, <1>8, <2>1, <2>3, <3>2 DEF SessionsOK, LivesOK
      <3>4. RowsOK(t)'
        BY <1>1, <1>2, <1>8, <1>11, <2>1, <2>3, RowsKept DEF SessionsOK
      <3> QED
        BY <3>3, <3>4
    <2> QED
      BY <2>2, <2>3
  <1> QED
    BY <1>9, <1>10, <1>11, <1>13, <1>14 DEF ListeningInvariant, StreamsOK, SessionsOK

(* A step of the other client leaves all of this alone.                    *)
LEMMA StreamsRest ==
    ASSUME ListeningInvariant, UNCHANGED nodeStreams
    PROVE  ListeningInvariant'
PROOF
  <1>1. StreamTypes /\ ProgramsOrderly /\ StreamsOK /\ SessionsOK
    BY DEF ListeningInvariant
  <1>2. UNCHANGED <<listed, rows, cache, phase, call, todo, tracker, subscriptions, link, keys, subscribed,
                    held, overreleased, late>>
    BY DEF nodeStreams
  <1>3. StreamTypes'
    BY <1>1, <1>2 DEF StreamTypes
  <1>4. ProgramsOrderly' /\ Excepted' = Excepted
    BY <1>1, <1>2 DEF ProgramsOrderly, Excepted
  <1>5. ASSUME NEW x \in Streams \ Excepted PROVE Counted(x)' /\ Entered(x)' /\ Wired(x)'
    <2>1. \A g \in N!Goroutines : Promised(g, x)
      BY <1>2 DEF Promised
    <2> QED
      BY <1>1, <1>2, <2>1, StreamKept DEF StreamsOK
  <1>6. ASSUME NEW t \in Sessions PROVE LivesOK(t)' /\ RowsOK(t)'
    <2>1. LivesOK(t)'
      BY <1>1, <1>2 DEF SessionsOK, LivesOK
    <2>2. RowsOK(t)'
      BY <1>1, <1>2, <1>4, RowsKept DEF SessionsOK
    <2> QED
      BY <2>1, <2>2
  <1> QED
    BY <1>3, <1>4, <1>5, <1>6 DEF ListeningInvariant, StreamsOK, SessionsOK

(* Every step of the node keeps the invariant.                             *)
LEMMA ListeningStep ==
    ASSUME ListeningInvariant, N!Next
    PROVE  ListeningInvariant'
PROOF
  <1>1. ASSUME NEW s \in Sessions, NEW i \in Idents, NEW command \in N!Commands, N!Call(s, command, i)
        PROVE  ListeningInvariant'
    BY <1>1, CommandIsCalled
  <1>2. ASSUME NEW s \in Sessions,
               N!Dropped(s) \/ N!Subscribed(s) \/ N!Rejected(s) \/ N!Performed(s) \/ N!Unsubscribed(s)
        PROVE  ListeningInvariant'
    BY <1>2, CommandReturns
  <1>3. ASSUME NEW s \in Sessions,
               N!Authenticated(s) \/ \E prev \in Sessions \ {s} : N!TryRestoreSession(s, prev)
        PROVE  ListeningInvariant'
    BY <1>3, SessionConnects
  <1>4. ASSUME NEW s \in Sessions, N!Disconnect(s) PROVE ListeningInvariant'
    BY <1>4, SessionLeaves
  <1>5. ASSUME NEW g \in N!Goroutines, N!Step(g) PROVE ListeningInvariant'
    BY <1>5, StreamStarts, StreamStops, StreamIsReleased, StreamIsRestored, HubIsChanged,
       StateIsChanged, ChannelIsCleared, EntryIsMade, CommandIsSent, StreamIsLeft DEF N!Step
  <1>6. CASE N!Reconnect \/ N!ConnectionLost
    BY <1>6, ConnectionChanges
  <1> QED
    BY <1>1, <1>2, <1>3, <1>4, <1>5, <1>6 DEF N!Next

(* At rest, this node is subscribed in Redis to every stream that one of   *)
(* its connected sessions has (Node.handleCommandReply, StreamsTracker.Add *)
(* and Remove, RedisSubscriber.Subscribe, Unsubscribe and resubscribe),    *)
(* but for a stream that was released more often than taken, and for one   *)
(* whose last unsubscription came after a new subscription.                *)
THEOREM NodeListens == MCSpec => []Listening
PROOF
  <1>1. MCInit => ListeningInvariant
    <2> SUFFICES ASSUME N!Init PROVE ListeningInvariant
      BY DEF MCInit
    <2>1. {} \in PairSets /\ << >> \in Seq(Ops) /\ Orderly(<< >>)
      BY NoneIs DEF PairSets
    <2>2. /\ listed \in [Sessions -> PairSets] /\ rows \in [Sessions -> PairSets]
          /\ phase \in [Sessions -> {"new", "connected", "gone"}]
          /\ todo \in [N!Goroutines -> Seq(Ops)]
      BY <2>1 DEF N!Init
    <2>3. DOMAIN cache = Sessions /\ \A s \in Sessions : cache[s].listed \in PairSets
      BY <2>1 DEF N!Init, N!NoEntry
    <2>4. DOMAIN call = Sessions /\ \A s \in Sessions : call[s] = N!NoCall
      BY DEF N!Init
    <2>5. /\ tracker \in [Streams -> Nat] /\ held \in [Sessions -> [N!Pairs -> Nat]]
          /\ link \in {"down", "dedicated", "snapshot", "up"}
      BY DEF N!Init
    <2>6. StreamTypes
      BY <2>2, <2>3, <2>4, <2>5 DEF StreamTypes
    <2>7. ProgramsOrderly
      BY <2>1 DEF N!Init, ProgramsOrderly
    <2>8. ASSUME NEW x \in Streams PROVE Counted(x) /\ Entered(x) /\ Wired(x)
      <3>1. ASSUME NEW u \in Sessions \X Idents \X Nat PROVE u[3] \notin 1 .. held[u[1]][<<x, u[2]>>]
        <4>1. PICK r \in N!Pairs : r = <<x, u[2]>>
          <5>1. <<x, u[2]>> \in N!Pairs
            BY DEF N!Pairs
          <5> QED
            BY <5>1
        <4>2. held[u[1]][r] = 0
          BY DEF N!Init
        <4> QED
          BY <4>1, <4>2
      <3>2. Units(x) = {}
        BY <3>1 DEF Units
      <3>3. tracker[x] = 0
        BY DEF N!Init
      <3> QED
        BY <3>2, <3>3, FS_EmptySet DEF Counted, Entered, Wired
    <2>9. ASSUME NEW s \in Sessions PROVE LivesOK(s) /\ RowsOK(s)
      <3>1. /\ phase[s] = "new" /\ rows[s] = {} /\ call[s] = N!NoCall
            /\ todo[N!Reader(s)] = << >> /\ todo[N!Leaver(s)] = << >>
        BY GoroutinesAre DEF N!Init
      <3> QED
        BY <3>1 DEF LivesOK, RowsOK
    <2> QED
      BY <2>6, <2>7, <2>8, <2>9 DEF ListeningInvariant, StreamsOK, SessionsOK
  <1>2. ListeningInvariant /\ [MCNext]_<<part, vars, nodeStreams>> => ListeningInvariant'
    BY ListeningStep, StreamsRest DEF MCNext
  <1>3. ListeningInvariant => Listening
    <2> SUFFICES ASSUME ListeningInvariant, N!Quiet, NEW s \in Sessions, phase[s] = "connected",
                        NEW p \in rows[s], p[1] \notin overreleased \cup late
                 PROVE  p[1] \in subscribed
      BY DEF Listening, N!Listening
    <2>1. StreamTypes /\ StreamsOK /\ RowsHeld(s)
      BY DEF ListeningInvariant, SessionsOK, RowsOK
    <2>2. p \in N!Pairs /\ p[1] \in Streams \ Excepted
      BY <2>1 DEF StreamTypes, PairSets, N!Pairs, Excepted
    <2>3. \A g \in N!Goroutines : \A o : ~Has(todo[g], o)
      BY NoneIs DEF N!Quiet
    <2>4. held[s][p] > 0
      BY <2>1, <2>2, <2>3, GoroutinesAre DEF RowsHeld
    <2>5. tracker[p[1]] > 0
      BY <2>1, <2>2, <2>4, HeldIsTracked DEF StreamsOK
    <2> QED
      BY <2>1, <2>2, <2>3, <2>5 DEF StreamsOK, Wired, N!Quiet
  <1> QED
    BY <1>1, <1>2, <1>3, PTL DEF MCSpec

=============================================================================
