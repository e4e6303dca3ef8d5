-------------------------- MODULE TransportsProofs --------------------------
(***************************************************************************)
(* Proofs about the transports: the NATS broker's sessions, history and    *)
(* epochs, server-sent events, publications, and durable streams.          *)
(***************************************************************************)
EXTENDS MCTransports, TLAPS

all == <<part, vars, events, ingest, history, start, session>>

(* Every step is a step of one part, which leaves the others alone.        *)
LEMMA OnePartMoves ==
  ASSUME [MCNext]_all
  PROVE  /\ [Next]_vars /\ [E!Next]_events /\ [I!Next]_ingest
         /\ [S!Next]_start /\ [C!Next]_session /\ [H!Next]_history
PROOF
  <1>1. CASE MCNext
    BY <1>1 DEF MCNext
  <1>2. CASE UNCHANGED all
    BY <1>2 DEF all
  <1> QED
    BY <1>1, <1>2

-----------------------------------------------------------------------------
(* The session in the NATS broker.                                         *)

(* The key holds what was put last, and that is the committed state unless *)
(* a touch raced; there is nothing to touch before the first commit.       *)
KeyFollows ==
  /\ now \in Nat /\ lastPut \in Nat /\ state \in Nat
  /\ committed \in Nat \cup {None}
  /\ touching = None \/ touching \in [value : Nat]
  /\ committed = None => key = None /\ touching = None
  /\ committed # None =>
       /\ key \in [value : Nat, at : {lastPut}]
       /\ ~overwritten => key.value = committed

(* Every step of the NATS sessions keeps the invariant.                    *)
LEMMA KeyFollowsStep ==
  ASSUME KeyFollows, [C!Next]_session
  PROVE  KeyFollows'
PROOF
  <1> USE MCSessionsAssumption DEF KeyFollows, C!SessionsAssumption
  <1>1. CASE C!Command
    BY <1>1 DEF C!Command
  <1>2. CASE C!CommitSession
    BY <1>2 DEF C!CommitSession, C!Put
  <1>3. CASE C!TouchSession
    BY <1>3 DEF C!TouchSession, C!Alive
  <1>4. CASE C!TouchPut
    <2>1. committed # None /\ touching.value \in Nat
      BY <1>4 DEF C!TouchPut
    <2>2. CASE UNCHANGED <<key, overwritten, lastPut>>
      BY <1>4, <2>1, <2>2 DEF C!TouchPut
    <2>3. CASE C!Put(touching.value) /\ overwritten' = (overwritten \/ touching.value # committed)
      <3>1. key' = [value |-> touching.value, at |-> lastPut'] /\ lastPut' \in Nat
        BY <2>3 DEF C!Put
      <3>2. ~overwritten' => key'.value = committed
        BY <2>3, <3>1
      <3> QED
        BY <1>4, <2>1, <2>3, <3>1, <3>2 DEF C!TouchPut
    <2> QED
      BY <1>4, <2>2, <2>3 DEF C!TouchPut
  <1>5. CASE C!Tick
    BY <1>5 DEF C!Tick
  <1>6. CASE UNCHANGED session
    BY <1>6 DEF session
  <1> QED
    BY <1>1, <1>2, <1>3, <1>4, <1>5, <1>6 DEF C!Next

(* For every TTL and every interleaving of commands, commits, touches and  *)
(* ticks: CommitSession, TouchSession and RestoreSession of the NATS       *)
(* broker give back the last committed state while its key lives, unless a *)
(* touch raced with the commit.                                            *)
THEOREM CommittedIsRestored == MCSpec => []RestoresCommitted
PROOF
  <1>1. MCInit => KeyFollows
    BY MCSessionsAssumption DEF MCInit, C!Init, KeyFollows, C!SessionsAssumption
  <1>2. KeyFollows /\ [MCNext]_all => KeyFollows'
    BY OnePartMoves, KeyFollowsStep
  <1>3. KeyFollows => RestoresCommitted
    BY MCSessionsAssumption
    DEF KeyFollows, RestoresCommitted, C!RestoresCommitted, C!RestoreSession, C!Alive,
        C!SessionsAssumption
  <1> QED
    BY <1>1, <1>2, <1>3, PTL DEF MCSpec, all

-----------------------------------------------------------------------------
(* The epoch of the NATS broker.                                           *)

(* The last update a watch has to deliver, or the epoch of the node when   *)
(* it has none, is the value of the key.                                   *)
WatchLeadsTo(n) ==
  watch[n] # None =>
    /\ S!Ready(n)
    /\ S!Key # None =>
         /\ watch[n] = <<>> => epoch[n] = S!Key
         /\ watch[n] # <<>> => watch[n][Len(watch[n])] = S!Key

EpochTypes ==
  /\ phase \in [Nodes -> S!Phases]
  /\ bucket \in [ttl : {TTL[n] : n \in Nodes}, epoch : Nodes \cup {None}] \cup {None}
  /\ fetched \in [Nodes -> Nodes \cup {None}]
  /\ epoch \in [Nodes -> Nodes \cup {None}]
  /\ watch \in [Nodes -> Seq(Nodes) \cup {None}]

WatchInvariant == EpochTypes /\ \A n \in Nodes : WatchLeadsTo(n)

(* Every step of the start of NATS keeps the invariant.                    *)
LEMMA WatchStep ==
  ASSUME WatchInvariant, [S!Next]_start
  PROVE  WatchInvariant'
PROOF
  <1> USE MCStartAssumption DEF S!StartAssumption, S!Phases
  <1>0. CASE UNCHANGED start
    BY <1>0 DEF start, WatchInvariant, EpochTypes, WatchLeadsTo, S!Ready, S!Key
  <1>1. ASSUME S!EpochExpires PROVE WatchInvariant'
    BY <1>1 DEF S!EpochExpires, S!startVars, WatchInvariant, EpochTypes, WatchLeadsTo, S!Ready, S!Key
  <1>2. ASSUME NEW n \in Nodes, S!Start(n) \/ S!InitFails(n) \/ S!getEpoch(n) \/ S!StartEnds(n)
        PROVE  WatchInvariant'
    BY SMTT(30), <1>2 DEF S!Start, S!InitFails, S!getEpoch, S!StartEnds, S!RetryOrFail, S!Goto, S!epochVars,
                WatchInvariant, EpochTypes, WatchLeadsTo, S!Ready, S!Key
  <1>3. ASSUME NEW n \in Nodes, S!backlogFlush(n) \/ S!HandleBroadcast(n)
        PROVE  WatchInvariant'
    BY <1>3 DEF S!backlogFlush, S!HandleBroadcast, S!startVars, S!epochVars,
                WatchInvariant, EpochTypes, WatchLeadsTo, S!Ready, S!Key
  <1>4. ASSUME NEW n \in Nodes, S!fetchBucketWithTTL(n) PROVE WatchInvariant'
    BY <1>4 DEF S!fetchBucketWithTTL, S!Goto, WatchInvariant, EpochTypes, WatchLeadsTo, S!Ready, S!Key
  <1>5. ASSUME NEW n \in Nodes, S!createEpoch(n) PROVE WatchInvariant'
    <2>1. CASE UNCHANGED <<bucket, fetched, watch>>
      BY <1>5, <2>1 DEF S!createEpoch, S!Goto, WatchInvariant, EpochTypes, WatchLeadsTo, S!Ready, S!Key
    <2>2. CASE /\ bucket # None
               /\ bucket' = [bucket EXCEPT !.epoch = n]
               /\ fetched' = [fetched EXCEPT ![n] = n]
               /\ S!Notify(n)
               /\ S!Goto(n, "epoch")
      <3>1. /\ bucket' \in [ttl : {TTL[m] : m \in Nodes}, epoch : Nodes \cup {None}]
            /\ bucket'.epoch = n /\ bucket' # None
        BY <2>2 DEF WatchInvariant, EpochTypes
      <3>2. S!Key' = n /\ n # None
        BY <3>1 DEF S!Key
      <3>3. /\ phase' \in [Nodes -> S!Phases]
            /\ fetched' \in [Nodes -> Nodes \cup {None}]
            /\ epoch' = epoch
            /\ \A m \in Nodes : m # n => phase'[m] = phase[m]
            /\ ~S!Ready(n)
        BY <1>5, <2>2 DEF S!createEpoch, S!Goto, WatchInvariant, EpochTypes, S!Ready
      <3>4. \A m \in Nodes : watch[m] # None =>
              /\ watch[m] \in Seq(Nodes)
              /\ Append(watch[m], n) \in Seq(Nodes)
              /\ Append(watch[m], n) # <<>>
              /\ Append(watch[m], n)[Len(Append(watch[m], n))] = n
        BY SMTT(30) DEF WatchInvariant, EpochTypes
      <3>5. /\ watch' \in [Nodes -> Seq(Nodes) \cup {None}]
            /\ \A m \in Nodes : watch'[m] # None =>
                 /\ watch[m] # None
                 /\ watch'[m] # <<>>
                 /\ watch'[m][Len(watch'[m])] = n
        BY <2>2, <3>4 DEF S!Notify
      <3>6. \A m \in Nodes : watch'[m] # None => S!Ready(m)'
        BY <3>3, <3>5 DEF S!Ready, WatchInvariant, WatchLeadsTo
      <3> QED
        BY <3>1, <3>2, <3>3, <3>5, <3>6 DEF WatchInvariant, EpochTypes, WatchLeadsTo
    <2> QED
      BY <1>5, <2>1, <2>2 DEF S!createEpoch
  <1>6. ASSUME NEW n \in Nodes, S!writeEpoch(n) PROVE WatchInvariant'
    BY <1>6 DEF S!writeEpoch, S!Goto, WatchInvariant, EpochTypes, WatchLeadsTo, S!Ready, S!Key
  <1>7. ASSUME NEW n \in Nodes, S!watchEpoch(n) PROVE WatchInvariant'
    <2>1. /\ phase' \in [Nodes -> S!Phases]
          /\ phase'[n] = "ready" /\ ~S!Ready(n)
          /\ \A m \in Nodes : m # n => phase'[m] = phase[m]
          /\ UNCHANGED <<bucket, fetched, epoch>>
      BY <1>7 DEF S!watchEpoch, S!Goto, S!Ready, WatchInvariant, EpochTypes
    <2>2. S!Key \in Nodes \cup {None} /\ S!Key' = S!Key
      BY <2>1 DEF S!Key, WatchInvariant, EpochTypes
    <2>3. CASE UNCHANGED watch
      BY <2>1, <2>2, <2>3 DEF WatchInvariant, EpochTypes, WatchLeadsTo, S!Ready
    <2>4. CASE watch' = [watch EXCEPT ![n] = S!Current]
      <3>1. CASE S!Key = None
        BY <2>1, <2>2, <2>4, <3>1
        DEF S!Current, WatchInvariant, EpochTypes, WatchLeadsTo, S!Ready
      <3>2. CASE S!Key # None
        <4>1. S!Current = <<S!Key>> /\ S!Current \in Seq(Nodes)
          BY <2>2, <3>2 DEF S!Current
        <4>2. /\ S!Current # <<>>
              /\ S!Current[Len(S!Current)] = S!Key
          BY <4>1
        <4>3. /\ watch' \in [Nodes -> Seq(Nodes) \cup {None}]
              /\ watch'[n] = S!Current
              /\ \A m \in Nodes : m # n => watch'[m] = watch[m]
          BY <2>4, <4>1 DEF WatchInvariant, EpochTypes
        <4> QED
          BY <2>1, <2>2, <4>2, <4>3 DEF WatchInvariant, EpochTypes, WatchLeadsTo, S!Ready
      <3> QED
        BY <3>1, <3>2
    <2> QED
      BY <1>7, <2>3, <2>4 DEF S!watchEpoch
  <1>8. ASSUME NEW n \in Nodes, S!EpochUpdated(n) PROVE WatchInvariant'
    <2>1. UNCHANGED <<phase, fetched, bucket>>
      BY <1>8 DEF S!EpochUpdated, S!startVars
    <2>2. PICK w \in Seq(Nodes) : w = watch[n] /\ w # <<>>
      BY <1>8 DEF S!EpochUpdated, WatchInvariant, EpochTypes
    <2>3. /\ Head(w) \in Nodes /\ Tail(w) \in Seq(Nodes)
          /\ Tail(w) = <<>> => Head(w) = w[Len(w)]
          /\ Tail(w) # <<>> => Tail(w)[Len(Tail(w))] = w[Len(w)]
      <3>1. Len(w) \in Nat \ {0} /\ Len(Tail(w)) = Len(w) - 1 /\ Tail(w) \in Seq(Nodes)
        BY <2>2
      <3>2. Tail(w) = <<>> <=> Len(w) = 1
        BY <3>1
      <3>3. Len(w) > 1 => Tail(w)[Len(w) - 1] = w[Len(w)]
        BY <2>2, <3>1
      <3> QED
        BY <2>2, <3>1, <3>2, <3>3
    <2>4. /\ epoch' \in [Nodes -> Nodes \cup {None}]
          /\ watch' \in [Nodes -> Seq(Nodes) \cup {None}]
          /\ epoch'[n] = Head(w) /\ watch'[n] = Tail(w)
          /\ \A m \in Nodes : m # n => epoch'[m] = epoch[m] /\ watch'[m] = watch[m]
      BY <1>8, <2>2, <2>3 DEF S!EpochUpdated, WatchInvariant, EpochTypes
    <2>5. S!Key' = S!Key
      BY <2>1 DEF S!Key
    <2>6. WatchLeadsTo(n)'
      BY <2>1, <2>2, <2>3, <2>4, <2>5 DEF WatchInvariant, WatchLeadsTo, S!Ready
    <2> QED
      BY <2>1, <2>4, <2>5, <2>6 DEF WatchInvariant, EpochTypes, WatchLeadsTo, S!Ready
  <1>9. ASSUME NEW n \in Nodes, S!Exit(n) PROVE WatchInvariant'
    BY <1>9 DEF S!Exit, S!Goto, WatchInvariant, EpochTypes, WatchLeadsTo, S!Ready, S!Key
  <1> QED
    BY <1>0, <1>1, <1>2, <1>3, <1>4, <1>5, <1>6, <1>7, <1>8, <1>9 DEF S!Next

(* For any number of nodes, configurations, restarts and expirations: the  *)
(* nodes that watch the key of the epoch agree on it once their watches    *)
(* are empty.                                                              *)
THEOREM NodesAgreeOnEpoch == MCSpec => []EpochsAgree
PROOF
  <1>1. MCInit => WatchInvariant
    BY MCStartAssumption
    DEF MCInit, S!Init, WatchInvariant, EpochTypes, WatchLeadsTo, S!Phases, S!StartAssumption
  <1>2. WatchInvariant /\ [MCNext]_all => WatchInvariant'
    BY OnePartMoves, WatchStep
  <1>3. WatchInvariant => EpochsAgree
    <2>1. <<>> # None
      BY MCStartAssumption, <<>> \in Seq(Nodes) DEF S!StartAssumption
    <2> QED
      BY <2>1 DEF WatchInvariant, WatchLeadsTo, EpochsAgree, S!EpochsAgree
  <1> QED
    BY <1>1, <1>2, <1>3, PTL DEF MCSpec, all

-----------------------------------------------------------------------------
(* Server-sent events.                                                     *)

EventTypes ==
  /\ enqueued \in Nat
  /\ queue \in Seq(Nat \cup {CloseFrame})
  /\ backlog \in Seq(Nat) /\ sent \in Seq(Nat)

(* What was sent, what is kept and what is queued are numbered through; a  *)
(* session of the node has everything in one of the three.                 *)
NumberedThrough ==
  /\ \A i \in 1..Len(sent) : sent[i] = i
  /\ \A i \in 1..Len(backlog) : backlog[i] = Len(sent) + i
  /\ ~done => \A i \in 1..Len(queue) :
       queue[i] # CloseFrame => queue[i] = Len(sent) + Len(backlog) + i
  /\ connected =>
       /\ ~done
       /\ enqueued = Len(sent) + Len(backlog) + Len(queue)
       /\ \A i \in 1..Len(queue) : queue[i] # CloseFrame

(* The response belongs to the handler until it says Established, to the   *)
(* writer from then on, and to nobody once the handler has returned: the   *)
(* connection is done, unless the client and the node ended it both.       *)
Ownership ==
  /\ established => pc \in {"loop", "returned"} /\ status = 200 /\ backlog = <<>>
  /\ ~established => sent = <<>>
  /\ pc = "request" => ~connected /\ ~done /\ queue = <<>> /\ backlog = <<>> /\ enqueued = 0
  /\ pc = "headers" => status = 200
  /\ pc = "loop" => established
  /\ pc = "returned" /\ established /\ ~done => aborted /\ ~connected
  /\ reused => pc = "returned" /\ aborted /\ ~connected

EventsInvariant == EventTypes /\ NumberedThrough /\ Ownership

(* A session that is connected is sent the next event, or none.            *)
LEMMA SentIsNumbered ==
  ASSUME EventsInvariant, connected, NEW type, NEW q, q = queue \o E!Encode(type)
  PROVE  /\ q \in Seq(Nat \cup {CloseFrame})
         /\ \A i \in 1..Len(q) : q[i] = Len(sent) + Len(backlog) + i
         /\ enqueued + Len(E!Encode(type)) \in Nat
         /\ enqueued + Len(E!Encode(type)) = Len(sent) + Len(backlog) + Len(q)
PROOF
  <1>1. /\ \A i \in 1..Len(queue) : queue[i] = Len(sent) + Len(backlog) + i
        /\ enqueued = Len(sent) + Len(backlog) + Len(queue) /\ enqueued \in Nat
        /\ queue \in Seq(Nat \cup {CloseFrame})
        /\ Len(sent) \in Nat /\ Len(backlog) \in Nat
    BY DEF EventsInvariant, EventTypes, NumberedThrough
  <1>2. CASE E!Encode(type) = <<>>
    BY <1>1, <1>2
  <1>3. CASE E!Encode(type) = <<enqueued + 1>>
    <2>1. q = Append(queue, enqueued + 1)
      BY <1>1, <1>3
    <2>2. Len(E!Encode(type)) = 1
      BY <1>3
    <2> QED
      BY <1>1, <2>1, <2>2
  <1> QED
    BY <1>2, <1>3 DEF E!Encode

(* Every step of a server-sent events session keeps the invariant.         *)
LEMMA EventsStep ==
  ASSUME EventsInvariant, [E!Next]_events
  PROVE  EventsInvariant'
PROOF
  <1> USE MCEventsAssumption DEF E!EventsAssumption, E!connVars
  <1>0. CASE UNCHANGED events
    BY <1>0 DEF events, EventsInvariant, EventTypes, NumberedThrough, Ownership
  <1>1. CASE E!NewSSESession
    BY <1>1 DEF E!NewSSESession, EventsInvariant, EventTypes, NumberedThrough, Ownership
  <1>2. CASE E!Subscribe
    <2>1. CASE UNCHANGED <<pc, status, connected, queue>>
      BY <1>2, <2>1 DEF E!Subscribe, EventsInvariant, EventTypes, NumberedThrough, Ownership
    <2>2. CASE pc' = "returned" /\ E!Disconnected
      <3>1. /\ pc = "subscribe" /\ ~established
            /\ UNCHANGED <<enqueued, established, done, backlog, sent, reused>>
        BY <1>2 DEF E!Subscribe, EventsInvariant, Ownership
      <3>2. /\ connected' = FALSE
            /\ queue' = Append(queue, CloseFrame)
        BY <2>2 DEF E!Disconnected
      <3>3. Ownership'
        BY <2>2, <3>1, <3>2 DEF EventsInvariant, Ownership
      <3>4. EventTypes' /\ NumberedThrough'
        BY <3>1, <3>2 DEF EventsInvariant, EventTypes, NumberedThrough
      <3> QED
        BY <3>3, <3>4 DEF EventsInvariant
    <2> QED
      BY <1>2, <2>1, <2>2 DEF E!Subscribe
  <1>3. CASE E!WriteHeader
    BY <1>3 DEF E!WriteHeader, EventsInvariant, EventTypes, NumberedThrough, Ownership
  <1>4. CASE E!Established
    <2>1. /\ pc = "headers" /\ ~established /\ sent = <<>> /\ ~reused
          /\ pc' = "loop" /\ established' = TRUE /\ backlog' = <<>>
          /\ UNCHANGED <<enqueued, queue, done, connected, status, aborted, reused>>
      BY <1>4 DEF E!Established, EventsInvariant, Ownership
    <2>2. sent' = backlog
      BY <1>4, <2>1 DEF E!Established, EventsInvariant, EventTypes
    <2>3. Len(sent) = 0 /\ Len(backlog') = 0 /\ Len(backlog) \in Nat
      BY <2>1 DEF EventsInvariant, EventTypes
    <2>4. EventTypes' /\ NumberedThrough'
      BY <2>1, <2>2, <2>3 DEF EventsInvariant, EventTypes, NumberedThrough
    <2>5. Ownership'
      BY <2>1 DEF EventsInvariant, Ownership
    <2> QED
      BY <2>4, <2>5 DEF EventsInvariant
  <1>5. CASE E!Loop
    <2>1. /\ pc = "loop" /\ established
          /\ UNCHANGED <<established, backlog, sent, status, aborted, reused>>
      BY <1>5 DEF E!Loop, EventsInvariant, Ownership
    <2>2. CASE /\ connected /\ E!Send("disconnect")
               /\ queue' = queue \o E!Encode("disconnect") \o <<CloseFrame>>
               /\ connected' = FALSE
               /\ UNCHANGED <<pc, done>>
      <3>1. EventTypes' /\ NumberedThrough'
        <4>1. PICK q : q = queue \o E!Encode("disconnect")
          OBVIOUS
        <4>2. /\ q \in Seq(Nat \cup {CloseFrame})
              /\ \A i \in 1..Len(q) : q[i] = Len(sent) + Len(backlog) + i
              /\ enqueued + Len(E!Encode("disconnect")) \in Nat
          BY <2>2, <4>1, SentIsNumbered
        <4>3. enqueued' \in Nat
          BY <2>2, <4>2 DEF E!Send
        <4>4. queue' = Append(q, CloseFrame)
          BY <2>2, <4>1
        <4> QED
          BY <2>1, <2>2, <4>1, <4>2, <4>3, <4>4 DEF EventsInvariant, EventTypes, NumberedThrough
      <3>2. Ownership'
        BY <2>1, <2>2 DEF EventsInvariant, Ownership
      <3> QED
        BY <3>1, <3>2 DEF EventsInvariant
    <2>3. CASE aborted /\ E!DisconnectNow /\ pc' = "returned" /\ UNCHANGED enqueued
      <3>1. CASE connected
        <4>1. connected' = FALSE /\ done' = TRUE /\ queue' = <<>>
          BY <2>3, <3>1 DEF E!DisconnectNow
        <4> QED
          BY <2>1, <2>3, <3>1, <4>1 DEF EventsInvariant, EventTypes, NumberedThrough, Ownership
      <3>2. CASE ~connected
        <4>1. UNCHANGED <<connected, done, queue>>
          BY <2>3, <3>2 DEF E!DisconnectNow
        <4> QED
          BY <2>1, <2>3, <3>2, <4>1 DEF EventsInvariant, EventTypes, NumberedThrough, Ownership
      <3> QED
        BY <3>1, <3>2
    <2>4. CASE done /\ pc' = "returned" /\ UNCHANGED <<connected, enqueued, queue, done>>
      BY <2>1, <2>4 DEF EventsInvariant, EventTypes, NumberedThrough, Ownership
    <2> QED
      BY <1>5, <2>2, <2>3, <2>4 DEF E!Loop
  <1>6. CASE E!NodeSends
    <2>1. PICK type : E!Send(type) /\ queue' = queue \o E!Encode(type)
      BY <1>6 DEF E!NodeSends
    <2>2. /\ connected
          /\ UNCHANGED <<pc, connected, established, done, backlog, sent, status, aborted, reused>>
      BY <1>6 DEF E!NodeSends
    <2>3. /\ enqueued' \in Nat /\ queue' \in Seq(Nat \cup {CloseFrame})
          /\ \A i \in 1..Len(queue') : queue'[i] = Len(sent) + Len(backlog) + i
          /\ enqueued' = Len(sent) + Len(backlog) + Len(queue')
      <3>1. PICK q : q = queue \o E!Encode(type)
        OBVIOUS
      <3>2. /\ q \in Seq(Nat \cup {CloseFrame})
            /\ \A i \in 1..Len(q) : q[i] = Len(sent) + Len(backlog) + i
            /\ enqueued + Len(E!Encode(type)) \in Nat
            /\ enqueued + Len(E!Encode(type)) = Len(sent) + Len(backlog) + Len(q)
        BY <2>2, <3>1, SentIsNumbered
      <3> QED
        BY <2>1, <3>1, <3>2 DEF E!Send
    <2>4. EventTypes' /\ NumberedThrough'
      <3>1. Len(sent) \in Nat /\ Len(backlog) \in Nat
        BY DEF EventsInvariant, EventTypes
      <3>2. \A i \in 1..Len(queue') : queue'[i] \in Nat /\ queue'[i] # CloseFrame
        BY <2>3, <3>1
      <3>3. ~done
        BY <2>2 DEF EventsInvariant, NumberedThrough
      <3>4. NumberedThrough'
        BY <2>2, <2>3, <3>2, <3>3 DEF EventsInvariant, NumberedThrough
      <3> QED
        BY <2>2, <2>3, <3>4 DEF EventsInvariant, EventTypes
    <2>5. Ownership'
      BY <2>2 DEF EventsInvariant, Ownership
    <2> QED
      BY <2>4, <2>5 DEF EventsInvariant
  <1>7. CASE E!NodeDisconnects
    <2>1. /\ connected /\ connected' = FALSE /\ queue' = Append(queue, CloseFrame)
          /\ UNCHANGED <<pc, enqueued, established, done, backlog, sent, status, aborted, reused>>
      BY <1>7 DEF E!NodeDisconnects, E!Disconnected, E!connVars
    <2>2. EventTypes'
      BY <2>1 DEF EventsInvariant, EventTypes
    <2>3. NumberedThrough'
      <3>1. queue \in Seq(Nat \cup {CloseFrame})
        BY DEF EventsInvariant, EventTypes
      <3>2. \A i \in 1..Len(queue') :
               queue'[i] # CloseFrame => i \in 1..Len(queue) /\ queue'[i] = queue[i]
        BY <2>1, <3>1
      <3> QED
        BY <2>1, <3>2 DEF EventsInvariant, NumberedThrough
    <2>4. Ownership'
      BY <2>1 DEF EventsInvariant, Ownership
    <2> QED
      BY <2>2, <2>3, <2>4 DEF EventsInvariant
  <1>8. CASE E!Write
    <2>1. UNCHANGED <<pc, connected, enqueued, established, status, aborted>> /\ queue # <<>>
      BY <1>8 DEF E!Write
    <2>2. CASE Head(queue) = CloseFrame
      <3>1. done' = TRUE /\ queue' = <<>> /\ UNCHANGED <<backlog, sent, reused>>
        BY <1>8, <2>2 DEF E!Write
      <3>2. ~connected
        BY <2>1, <2>2 DEF EventsInvariant, EventTypes, NumberedThrough
      <3>3. pc # "request"
        BY <2>1 DEF EventsInvariant, Ownership
      <3> QED
        BY <2>1, <3>1, <3>2, <3>3 DEF EventsInvariant, EventTypes, NumberedThrough, Ownership
    <2>3. CASE Head(queue) # CloseFrame
      <3>1. queue' = Tail(queue) /\ UNCHANGED done
        BY <1>8, <2>3 DEF E!Write
      <3>2. /\ queue' \in Seq(Nat \cup {CloseFrame})
            /\ Len(queue') = Len(queue) - 1 /\ Len(queue) \in Nat
            /\ \A i \in 1..Len(queue') : queue'[i] = queue[i + 1] /\ i + 1 \in 1..Len(queue)
            /\ Head(queue) = queue[1] /\ 1 \in 1..Len(queue) /\ Head(queue) \in Nat
        BY <2>1, <2>3, <3>1 DEF EventsInvariant, EventTypes
      <3>3. pc # "request"
        BY <2>1 DEF EventsInvariant, Ownership
      <3>4. CASE done
        <4>1. UNCHANGED <<backlog, sent, reused>>
          BY <1>8, <2>3, <3>4 DEF E!Write
        <4> QED
          BY <2>1, <3>1, <3>2, <3>3, <3>4, <4>1
          DEF EventsInvariant, EventTypes, NumberedThrough, Ownership
      <3>5. CASE ~done
        <4>1. E!Emit(Head(queue)) /\ Head(queue) = Len(sent) + Len(backlog) + 1
          BY <1>8, <2>3, <3>2, <3>5 DEF E!Write, EventsInvariant, NumberedThrough
        <4>2. PICK e \in Nat : e = Head(queue)
          BY <3>2
        <4>3. CASE established
          <5>1. /\ sent' = Append(sent, e) /\ backlog' = backlog /\ backlog = <<>>
                /\ reused' = (reused \/ pc = "returned")
            BY <4>1, <4>2, <4>3 DEF E!Emit, EventsInvariant, Ownership
          <5>2. /\ sent' \in Seq(Nat) /\ Len(sent') = Len(sent) + 1 /\ Len(backlog) = 0
                /\ \A i \in 1..Len(sent') : sent'[i] = i
            BY <4>1, <4>2, <5>1 DEF EventsInvariant, EventTypes, NumberedThrough
          <5>3. ASSUME NEW i \in 1..Len(queue'), queue'[i] # CloseFrame
                PROVE  queue'[i] = Len(sent') + Len(backlog') + i
            <6>1. /\ i + 1 \in 1..Len(queue) /\ queue'[i] = queue[i + 1]
                  /\ Len(sent) \in Nat /\ Len(backlog) \in Nat
              BY <3>2 DEF EventsInvariant, EventTypes
            <6>2. queue[i + 1] = Len(sent) + Len(backlog) + (i + 1)
              BY <3>5, <5>3, <6>1 DEF EventsInvariant, NumberedThrough
            <6> QED
              BY <5>1, <5>2, <6>1, <6>2
          <5>4. connected => /\ enqueued = Len(sent') + Len(backlog') + Len(queue')
                             /\ \A i \in 1..Len(queue') : queue'[i] # CloseFrame
            BY <3>2, <3>5, <5>1, <5>2 DEF EventsInvariant, EventTypes, NumberedThrough
          <5>5. EventTypes' /\ NumberedThrough'
            BY <2>1, <3>1, <3>2, <3>5, <5>1, <5>2, <5>3, <5>4
            DEF EventsInvariant, EventTypes, NumberedThrough
          <5>6. Ownership'
            BY <2>1, <3>1, <3>3, <3>5, <4>3, <5>1 DEF EventsInvariant, Ownership
          <5> QED
            BY <5>5, <5>6 DEF EventsInvariant
        <4>4. CASE ~established
          <5>1. backlog' = Append(backlog, e) /\ UNCHANGED <<sent, reused>> /\ sent = <<>>
            BY <4>1, <4>2, <4>4 DEF E!Emit, EventsInvariant, Ownership
          <5>2. /\ backlog' \in Seq(Nat) /\ Len(backlog') = Len(backlog) + 1 /\ Len(sent) = 0
                /\ \A i \in 1..Len(backlog') : backlog'[i] = i
            BY <4>1, <4>2, <5>1 DEF EventsInvariant, EventTypes, NumberedThrough
          <5>3. ASSUME NEW i \in 1..Len(queue'), queue'[i] # CloseFrame
                PROVE  queue'[i] = Len(sent') + Len(backlog') + i
            <6>1. /\ i + 1 \in 1..Len(queue) /\ queue'[i] = queue[i + 1]
                  /\ Len(sent) \in Nat /\ Len(backlog) \in Nat
              BY <3>2 DEF EventsInvariant, EventTypes
            <6>2. queue[i + 1] = Len(sent) + Len(backlog) + (i + 1)
              BY <3>5, <5>3, <6>1 DEF EventsInvariant, NumberedThrough
            <6> QED
              BY <5>1, <5>2, <6>1, <6>2
          <5>4. connected => /\ enqueued = Len(sent') + Len(backlog') + Len(queue')
                             /\ \A i \in 1..Len(queue') : queue'[i] # CloseFrame
            BY <3>2, <3>5, <5>1, <5>2 DEF EventsInvariant, EventTypes, NumberedThrough
          <5>5. EventTypes' /\ NumberedThrough'
            BY <2>1, <3>1, <3>2, <3>5, <5>1, <5>2, <5>3, <5>4
            DEF EventsInvariant, EventTypes, NumberedThrough
          <5>6. Ownership'
            BY <2>1, <3>1, <3>3, <3>5, <4>4, <5>1 DEF EventsInvariant, Ownership
          <5> QED
            BY <5>5, <5>6 DEF EventsInvariant
        <4> QED
          BY <4>3, <4>4
      <3> QED
        BY <3>4, <3>5
    <2> QED
      BY <2>2, <2>3
  <1>9. CASE E!Abort
    BY <1>9 DEF E!Abort, EventsInvariant, EventTypes, NumberedThrough, Ownership
  <1>10. CASE E!ShutdownStarts
    BY <1>10 DEF E!ShutdownStarts, EventsInvariant, EventTypes, NumberedThrough, Ownership
  <1> QED
    BY <1>0, <1>1, <1>2, <1>3, <1>4, <1>5, <1>6, <1>7, <1>8, <1>9, <1>10 DEF E!Next

(* For any number of messages: however the hand-over from the backlog to   *)
(* the live response (Connection.Established), the end of the session and  *)
(* the shutdown interleave, the client gets the node's events in order and *)
(* without a hole, after the status.                                       *)
THEOREM EventsComeInOrder == MCSpec => []EventsInOrder
PROOF
  <1>1. MCInit => EventsInvariant
    BY DEF MCInit, E!Init, EventsInvariant, EventTypes, NumberedThrough, Ownership
  <1>2. EventsInvariant /\ [MCNext]_all => EventsInvariant'
    BY OnePartMoves, EventsStep
  <1>3. EventsInvariant => EventsInOrder
    BY DEF EventsInvariant, EventTypes, NumberedThrough, Ownership, EventsInOrder, E!EventsInOrder
  <1> QED
    BY <1>1, <1>2, <1>3, PTL DEF MCSpec, all

(* The writer goroutine uses the response of a handler that has returned   *)
(* only if the client went away while the node was ending its session.     *)
THEOREM ResponseIsDropped == MCSpec => []ResponseDropped
PROOF
  <1>1. MCInit => EventsInvariant
    BY DEF MCInit, E!Init, EventsInvariant, EventTypes, NumberedThrough, Ownership
  <1>2. EventsInvariant /\ [MCNext]_all => EventsInvariant'
    BY OnePartMoves, EventsStep
  <1>3. EventsInvariant => ResponseDropped
    BY DEF EventsInvariant, Ownership, ResponseDropped, E!ResponseDropped
  <1> QED
    BY <1>1, <1>2, <1>3, PTL DEF MCSpec, all

-----------------------------------------------------------------------------
(* Publications.                                                           *)

Records == [kind : I!Kinds, node : SUBSET Nodes, next : Nat, status : Nat]

IngestTypes ==
  /\ source \in I!Sources /\ pubsub \in {"legacy", "nats"}
  /\ publication \in [Publications -> Records]
  /\ wire \subseteq [element : I!AllElements, node : Nodes, copy : {1, 2}]
  /\ delivered \in [Nodes -> [I!AllElements -> Nat]]
  /\ active \in [Nodes -> Int]
  /\ mapped \in [Nodes -> BOOLEAN]
  /\ op \in [Nodes -> [Goroutines -> {"idle", "subscribe", "tested", "unsubscribe"}]]
  /\ doubled \subseteq Nodes

(* A node where no two goroutines passed the test has one subscription at  *)
(* the server, or none.                                                    *)
OneSubscription ==
  \A n \in Nodes \ doubled :
    /\ mapped[n] => active[n] = 1 /\ \A g \in Goroutines : op[n][g] # "tested"
    /\ ~mapped[n] => active[n] = 0
    /\ \A g, h \in Goroutines : op[n][g] = "tested" /\ op[n][h] = "tested" => g = h

(* An element is on its way to such a node, or was broadcast there, once.  *)
OneCopy ==
  \A n \in Nodes \ doubled, e \in I!AllElements :
    /\ delivered[n][e] <= 1
    /\ \A c \in wire : c.node = n /\ c.element = e => c.copy = 1 /\ delivered[n][e] = 0

(* Nobody has seen what a publication has still to hand over.              *)
Untouched(n, e) == delivered[n][e] = 0 /\ \A c \in wire : c.element = e => c.node # n
Ahead(p, i, n) ==
  IF source = "fanout" THEN n \notin publication[p].node ELSE i >= publication[p].next
AheadUntouched(p, i) == \A n \in Nodes : Ahead(p, i, n) => Untouched(n, <<p, i>>)

(* What it has handed over was sent, if the publisher can tell.            *)
BehindSent(p, i) ==
  /\ source \in {"http", "api"} /\ pubsub = "legacy"
  /\ <<p, i>> \in I!Elements(p) /\ i < publication[p].next
  => I!Sent(<<p, i>>)

(* What an answer stands for.                                              *)
Progress(p) ==
  source # "fanout" =>
    /\ publication[p].node # {} => publication[p].next > 0
    /\ publication[p].node = {} => publication[p].next = 0 /\ publication[p].status = 0
    /\ publication[p].status > 201 /\ publication[p].kind # "batch" => publication[p].next = 1
    /\ publication[p].status = 201 => <<p, publication[p].next>> \notin I!Elements(p)

HandedOver ==
  \A p \in Publications :
    Progress(p) /\ \A i \in {1, 2} : AheadUntouched(p, i) /\ BehindSent(p, i)

IngestInvariant == IngestTypes /\ OneSubscription /\ OneCopy /\ HandedOver

StreamsStep(n, g) ==
  I!Use(n, g) \/ I!Release(n, g) \/ I!TestSubscribed(n, g) \/ I!Subscribe(n, g) \/ I!Unsubscribe(n, g)

(* A step that leaves the publications alone.                              *)
LEMMA SamePublications ==
  ASSUME HandedOver, UNCHANGED <<source, pubsub, publication, wire, delivered>>
  PROVE  HandedOver'
PROOF
  <1>1. ASSUME NEW p \in Publications PROVE Progress(p)'
    <2>1. I!Elements(p)' = I!Elements(p)
      BY DEF I!Elements
    <2> QED
      BY <2>1 DEF HandedOver, Progress
  <1>2. ASSUME NEW p \in Publications, NEW i \in {1, 2} PROVE BehindSent(p, i)'
    <2>1. I!Elements(p)' = I!Elements(p)
      BY DEF I!Elements
    <2>2. I!Sent(<<p, i>>) => I!Sent(<<p, i>>)'
      BY DEF I!Sent
    <2> QED
      BY <2>1, <2>2 DEF HandedOver, BehindSent
  <1>3. ASSUME NEW p \in Publications, NEW i \in {1, 2} PROVE AheadUntouched(p, i)'
    BY ZenonT(60) DEF HandedOver, AheadUntouched, Ahead, Untouched
  <1> QED
    BY <1>1, <1>2, <1>3 DEF HandedOver

(* The goroutines that use the broker leave publications alone.            *)
LEMMA StreamsKeepPublications ==
  ASSUME IngestInvariant, NEW n \in Nodes, NEW g \in Goroutines, StreamsStep(n, g)
  PROVE  IngestInvariant'
PROOF
  <1>1. UNCHANGED <<source, pubsub, publication, wire, delivered>>
    BY DEF StreamsStep, I!Use, I!Release, I!TestSubscribed, I!Subscribe, I!Unsubscribe,
           I!KeepPublications, I!config
  <1>2. PICK what \in {"idle", "subscribe", "tested", "unsubscribe"} : I!Does(n, g, what)
    BY DEF StreamsStep, I!Use, I!Release, I!TestSubscribed, I!Subscribe, I!Unsubscribe
  <1>3. /\ op' \in [Nodes -> [Goroutines -> {"idle", "subscribe", "tested", "unsubscribe"}]]
        /\ op'[n][g] = what
        /\ \A h \in Goroutines : h # g => op'[n][h] = op[n][h]
        /\ \A m \in Nodes : m # n => op'[m] = op[m]
    BY <1>2 DEF I!Does, IngestInvariant, IngestTypes
  <1>4. /\ active' \in [Nodes -> Int] /\ mapped' \in [Nodes -> BOOLEAN]
        /\ doubled' \subseteq Nodes /\ doubled \subseteq doubled'
        /\ \A m \in Nodes : m # n => active'[m] = active[m] /\ mapped'[m] = mapped[m]
    <2>1. CASE I!Use(n, g) \/ I!Release(n, g)
      BY <2>1 DEF I!Use, I!Release, I!KeepSubscriptions, IngestInvariant, IngestTypes
    <2>2. CASE I!TestSubscribed(n, g)
      BY <2>2 DEF I!TestSubscribed, IngestInvariant, IngestTypes
    <2>3. CASE I!Subscribe(n, g)
      BY <2>3 DEF I!Subscribe, IngestInvariant, IngestTypes
    <2>4. CASE I!Unsubscribe(n, g)
      BY <2>4 DEF I!Unsubscribe, IngestInvariant, IngestTypes
    <2> QED
      BY <2>1, <2>2, <2>3, <2>4 DEF StreamsStep
  <1>5. IngestTypes'
    BY <1>1, <1>3, <1>4 DEF IngestInvariant, IngestTypes
  <1>6. OneSubscription'
    <2>1. CASE I!Use(n, g) \/ I!Release(n, g)
      <3>1. op'[n][g] # "tested" /\ UNCHANGED <<mapped, active, doubled>>
        BY <1>3, <2>1 DEF I!Use, I!Release, I!Does, I!KeepSubscriptions
      <3> QED
        BY <1>3, <3>1 DEF IngestInvariant, OneSubscription
    <2>2. CASE I!TestSubscribed(n, g)
      <3>1. UNCHANGED <<mapped, active>>
        BY <2>2 DEF I!TestSubscribed
      <3>2. CASE mapped[n]
        <4>1. op'[n][g] = "idle"
          BY <2>2, <3>2 DEF I!TestSubscribed, I!Does, IngestInvariant, IngestTypes
        <4> QED
          BY <1>3, <1>4, <3>1, <4>1 DEF IngestInvariant, OneSubscription
      <3>3. CASE ~mapped[n] /\ \E h \in Goroutines : op[n][h] = "tested"
        <4>1. n \in doubled'
          BY <2>2, <3>3 DEF I!TestSubscribed
        <4> QED
          BY <1>3, <1>4, <3>1, <4>1 DEF IngestInvariant, OneSubscription
      <3>4. CASE ~mapped[n] /\ \A h \in Goroutines : op[n][h] # "tested"
        <4>1. \A h \in Goroutines : op'[n][h] = "tested" => h = g
          BY <1>3, <3>4
        <4> QED
          BY <1>3, <1>4, <3>1, <3>4, <4>1 DEF IngestInvariant, OneSubscription
      <3> QED
        BY <3>2, <3>3, <3>4
    <2>3. CASE I!Subscribe(n, g)
      <3>1. /\ op[n][g] = "tested" /\ op'[n][g] = "idle" /\ doubled' = doubled
            /\ mapped'[n] = TRUE /\ active'[n] = active[n] + 1
        BY <2>3 DEF I!Subscribe, I!Does, IngestInvariant, IngestTypes
      <3>2. n \notin doubled =>
              /\ active'[n] = 1
              /\ \A h \in Goroutines : op'[n][h] # "tested"
        BY <1>3, <3>1 DEF IngestInvariant, OneSubscription
      <3> QED
        BY <1>3, <1>4, <3>1, <3>2 DEF IngestInvariant, OneSubscription
    <2>4. CASE I!Unsubscribe(n, g)
      <3>1. /\ op'[n][g] = "idle" /\ doubled' = doubled
            /\ mapped'[n] = FALSE
            /\ active'[n] = IF mapped[n] THEN active[n] - 1 ELSE active[n]
        BY <2>4 DEF I!Unsubscribe, I!Does, IngestInvariant, IngestTypes
      <3>2. n \notin doubled => active'[n] = 0
        BY <3>1 DEF IngestInvariant, OneSubscription
      <3> QED
        BY <1>3, <1>4, <3>1, <3>2 DEF IngestInvariant, OneSubscription
    <2> QED
      BY <2>1, <2>2, <2>3, <2>4 DEF StreamsStep
  <1>7. OneCopy'
    BY <1>1, <1>4 DEF IngestInvariant, OneCopy
  <1>8. HandedOver'
    BY <1>1, SamePublications DEF IngestInvariant
  <1> QED
    BY <1>5, <1>6, <1>7, <1>8 DEF IngestInvariant

(* A node broadcasts what it received.                                     *)
LEMMA MessageHandled ==
  ASSUME IngestInvariant, NEW c \in wire, I!handleMessage(c)
  PROVE  IngestInvariant'
PROOF
  <1>1. UNCHANGED <<source, pubsub, publication, active, mapped, op, doubled>> /\ wire' = wire \ {c}
    BY DEF I!handleMessage, I!config, I!streams
  <1>2. /\ c \in [element : I!AllElements, node : Nodes, copy : {1, 2}]
        /\ c.node \in Nodes /\ c.element \in I!AllElements
    BY DEF IngestInvariant, IngestTypes
  <1>3. /\ delivered' \in [Nodes -> [I!AllElements -> Nat]]
        /\ delivered'[c.node][c.element] = delivered[c.node][c.element] + 1
        /\ \A n \in Nodes, e \in I!AllElements :
             n # c.node \/ e # c.element => delivered'[n][e] = delivered[n][e]
    BY <1>2 DEF I!handleMessage, IngestInvariant, IngestTypes
  <1>4. IngestTypes'
    BY <1>1, <1>3 DEF IngestInvariant, IngestTypes
  <1>5. OneCopy'
    <2> SUFFICES ASSUME NEW n \in Nodes \ doubled, NEW e \in I!AllElements
                 PROVE  /\ delivered'[n][e] <= 1
                        /\ \A d \in wire \ {c} : d.node = n /\ d.element = e =>
                             d.copy = 1 /\ delivered'[n][e] = 0
      BY <1>1 DEF OneCopy
    <2>1. CASE n = c.node /\ e = c.element
      <3>1. c.copy = 1 /\ delivered[n][e] = 0
        BY <2>1 DEF IngestInvariant, OneCopy
      <3>2. \A d \in wire : d.node = n /\ d.element = e => d = c
        <4>1. \A d \in wire : d \in [element : I!AllElements, node : Nodes, copy : {1, 2}]
          BY DEF IngestInvariant, IngestTypes
        <4>2. \A d \in wire : d.node = n /\ d.element = e => d.copy = 1
          BY DEF IngestInvariant, OneCopy
        <4> QED
          BY <1>2, <2>1, <3>1, <4>1, <4>2
      <3> QED
        BY <1>3, <2>1, <3>1, <3>2
    <2>2. CASE ~(n = c.node /\ e = c.element)
      BY <1>3, <2>2 DEF IngestInvariant, OneCopy
    <2> QED
      BY <2>1, <2>2
  <1>6. \A e \in I!AllElements : I!Sent(e) => I!Sent(e)'
    <2> SUFFICES ASSUME NEW e \in I!AllElements, I!Sent(e)
                 PROVE  I!Sent(e)'
      OBVIOUS
    <2>1. CASE \E n \in Nodes : delivered[n][e] > 0
      <3>1. PICK n \in Nodes : delivered[n][e] > 0 /\ delivered[n][e] \in Nat
        BY <2>1 DEF IngestInvariant, IngestTypes
      <3>2. delivered'[n][e] > 0
        BY SMTT(30), <1>2, <1>3, <3>1 DEF IngestInvariant, IngestTypes
      <3> QED
        BY <3>2 DEF I!Sent
    <2>2. CASE e = c.element
      <3>1. delivered'[c.node][e] > 0
        BY <1>2, <1>3, <2>2 DEF IngestInvariant, IngestTypes
      <3> QED
        BY <1>2, <3>1 DEF I!Sent
    <2>3. CASE e # c.element /\ \E d \in wire : d.element = e
      BY <1>1, <2>3 DEF I!Sent
    <2> QED
      BY <2>1, <2>2, <2>3 DEF I!Sent
  <1>7. \A n \in Nodes, e \in I!AllElements : Untouched(n, e) => Untouched(n, e)'
    BY <1>1, <1>2, <1>3 DEF Untouched
  <1>8. HandedOver'
    <2> SUFFICES ASSUME NEW p \in Publications
                 PROVE  Progress(p)' /\ \A i \in {1, 2} : AheadUntouched(p, i)' /\ BehindSent(p, i)'
      BY DEF HandedOver
    <2>1. I!Elements(p)' = I!Elements(p)
      BY <1>1 DEF I!Elements
    <2>2. Progress(p)'
      BY <1>1, <2>1 DEF IngestInvariant, HandedOver, Progress
    <2>3. ASSUME NEW i \in {1, 2} PROVE AheadUntouched(p, i)' /\ BehindSent(p, i)'
      <3>1. PICK e \in I!AllElements : e = <<p, i>>
        BY <2>3 DEF I!AllElements
      <3>2. AheadUntouched(p, i) /\ BehindSent(p, i)
        BY DEF IngestInvariant, HandedOver
      <3>3. AheadUntouched(p, i)'
        BY <1>1, <1>7, <3>1, <3>2 DEF AheadUntouched, Ahead
      <3>4. BehindSent(p, i)'
        BY <1>1, <1>6, <2>1, <3>1, <3>2 DEF BehindSent
      <3> QED
        BY <3>3, <3>4
    <2> QED
      BY <2>2, <2>3
  <1>9. OneSubscription'
    BY <1>1 DEF IngestInvariant, OneSubscription
  <1> QED
    BY <1>4, <1>5, <1>8, <1>9 DEF IngestInvariant

(* A request is refused with one of these, or goes on.                     *)
LEMMA RefusalIs ==
  ASSUME IngestInvariant, source # "fanout", NEW p, NEW gate, NEW request
  PROVE  I!Refusal(p, gate, request) \in {0, 200, 401, 422}
PROOF
  <1>1. \A kind : I!RestAPI(gate, request, kind) \in {0, 200, 401, 422}
    BY DEF I!RestAPI
  <1>2. I!Handler(gate, request) \in {0, 200, 401, 422}
    BY DEF I!Handler
  <1>3. source \in {"http", "api", "pusher"}
    BY DEF IngestInvariant, IngestTypes, I!Sources
  <1> QED
    BY <1>1, <1>2, <1>3 DEF I!Refusal, I!PublishHandler

(* The elements of a publication: a batch has two, any other one.          *)
LEMMA ElementsAre ==
  ASSUME NEW p, NEW i, <<p, i>> \in I!Elements(p)
  PROVE  /\ i \in {1, 2}
         /\ publication[p].kind # "batch" => i = 1
PROOF
  BY DEF I!Elements

(* A step that changes the record of publication p, and puts new on the    *)
(* wire.                                                                   *)
Moves(p, new) ==
  /\ publication' \in [Publications -> Records]
  /\ publication'[p].kind = publication[p].kind
  /\ \A q \in Publications : q # p => publication'[q] = publication[q]
  /\ wire' = wire \cup new
  /\ UNCHANGED <<source, pubsub, delivered, active, mapped, op, doubled>>

(* A step that moves elements from one place to the next.                  *)
LEMMA MovesSets ==
  ASSUME IngestInvariant, NEW p \in Publications,
         NEW new, Moves(p, new),
         \A c \in new :
           /\ c \in [element : I!AllElements, node : Nodes, copy : {1, 2}]
           /\ c.node \notin doubled => c.copy = 1
           /\ Untouched(c.node, c.element)
           /\ \E i \in {1, 2} : c.element = <<p, i>> /\ ~Ahead(p, i, c.node)',
         Progress(p)',
         \A i \in {1, 2}, n \in Nodes : Ahead(p, i, n)' => Ahead(p, i, n),
         \A i \in {1, 2} : BehindSent(p, i)'
  PROVE  IngestInvariant'
PROOF
  <1>1. IngestTypes' /\ OneSubscription'
    BY DEF Moves, IngestInvariant, IngestTypes, OneSubscription
  <1>2. OneCopy'
    <2> SUFFICES ASSUME NEW n \in Nodes \ doubled, NEW e \in I!AllElements
                 PROVE  /\ delivered[n][e] <= 1
                        /\ \A c \in wire \cup new : c.node = n /\ c.element = e =>
                             c.copy = 1 /\ delivered[n][e] = 0
      BY DEF Moves, OneCopy
    <2> QED
      BY DEF IngestInvariant, OneCopy, Untouched
  <1>3. /\ \A q \in Publications : q # p => publication'[q] = publication[q]
        /\ \A q \in Publications : publication'[q].kind = publication[q].kind
    BY DEF Moves
  <1>4. ASSUME NEW q \in Publications, NEW i \in {1, 2} PROVE AheadUntouched(q, i)'
    <2> SUFFICES ASSUME NEW n \in Nodes, Ahead(q, i, n)'
                 PROVE  Untouched(n, <<q, i>>)'
      BY DEF AheadUntouched
    <2>1. Ahead(q, i, n)
      BY <1>3 DEF Moves, Ahead
    <2>2. Untouched(n, <<q, i>>)
      BY <2>1 DEF IngestInvariant, HandedOver, AheadUntouched
    <2>3. \A c \in new : c.element = <<q, i>> => c.node # n
      OBVIOUS
    <2> QED
      BY <2>2, <2>3 DEF Untouched, Moves
  <1>5. ASSUME NEW q \in Publications, q # p PROVE Progress(q)' /\ \A i \in {1, 2} : BehindSent(q, i)'
    <2>1. I!Elements(q)' = I!Elements(q)
      BY <1>3 DEF I!Elements
    <2>2. \A e : I!Sent(e) => I!Sent(e)'
      BY DEF I!Sent, Moves
    <2>3. Progress(q) /\ \A i \in {1, 2} : BehindSent(q, i)
      BY DEF IngestInvariant, HandedOver
    <2>4. publication'[q] = publication[q] /\ source' = source /\ pubsub' = pubsub
      BY <1>3, <1>5 DEF Moves
    <2>5. Progress(q)'
      BY <2>1, <2>3, <2>4 DEF Progress
    <2>6. ASSUME NEW i \in {1, 2} PROVE BehindSent(q, i)'
      BY <2>1, <2>2, <2>3, <2>4 DEF BehindSent
    <2> QED
      BY <2>5, <2>6
  <1> QED
    BY <1>1, <1>2, <1>4, <1>5 DEF IngestInvariant, HandedOver

(* A publication is sent to a node, which may refuse it.                   *)
LEMMA RequestStep ==
  ASSUME IngestInvariant, NEW p \in Publications, NEW n \in Nodes, I!Request(p, n)
  PROVE  IngestInvariant'
PROOF
  <1>1. /\ source # "fanout" /\ publication[p].node = {} /\ wire' = wire \cup {}
        /\ UNCHANGED <<source, pubsub, delivered, active, mapped, op, doubled>>
    BY DEF I!Request, I!config, I!streams
  <1>2. PICK gate \in I!Gates, request \in I!Requests :
          publication' = [publication EXCEPT ![p].node = {n}, ![p].next = 1,
                                             ![p].status = I!Refusal(p, gate, request)]
    BY DEF I!Request
  <1>3. PICK code \in {0, 200, 401, 422} : code = I!Refusal(p, gate, request)
    BY <1>1, RefusalIs
  <1>4. PICK old \in Records : old = publication[p]
    BY DEF IngestInvariant, IngestTypes
  <1>5. PICK r : r = publication'[p]
    OBVIOUS
  <1>6. r = [old EXCEPT !.node = {n}, !.next = 1, !.status = code]
    BY <1>2, <1>3, <1>4, <1>5 DEF IngestInvariant, IngestTypes, Records
  <1>7. /\ r \in Records
        /\ r.kind = old.kind /\ r.node = {n} /\ r.next = 1 /\ r.status = code
    <2>1. code \in Nat /\ {n} \in SUBSET Nodes
      OBVIOUS
    <2>2. r.kind = old.kind /\ r.node = {n} /\ r.next = 1 /\ r.status = code
      BY <1>6 DEF Records
    <2> QED
      BY <1>6, <2>1, <2>2 DEF Records
  <1>8. /\ DOMAIN publication' = Publications
        /\ publication' = [q \in Publications |-> publication'[q]]
        /\ \A q \in Publications : q # p => publication'[q] = publication[q]
    <2>1. publication \in [Publications -> Records]
      BY DEF IngestInvariant, IngestTypes
    <2>2. \A q \in Publications : q # p => publication'[q] = publication[q]
      BY <1>2, <2>1
    <2>3. DOMAIN publication' = Publications
      BY <1>2, <2>1
    <2>4. publication' = [q \in Publications |-> publication'[q]]
      BY <1>2, <2>1, <2>3
    <2> QED
      BY <2>2, <2>3, <2>4
  <1>9. Moves(p, {})
    BY SMTT(30), <1>1, <1>4, <1>5, <1>7, <1>8 DEF Moves, IngestInvariant, IngestTypes
  <1>10. Progress(p)'
    BY <1>5, <1>7 DEF Progress
  <1>11. publication[p].next = 0
    BY <1>1 DEF IngestInvariant, HandedOver, Progress
  <1>12. \A i \in {1, 2}, m \in Nodes : Ahead(p, i, m)' => Ahead(p, i, m)
    BY <1>1, <1>11 DEF Ahead
  <1>13. \A i \in {1, 2} : BehindSent(p, i)'
    BY <1>5, <1>7 DEF BehindSent
  <1> QED
    BY <1>9, <1>10, <1>12, <1>13, MovesSets

(* A node handles a publication.                                           *)
LEMMA HandleStep ==
  ASSUME IngestInvariant, NEW p \in Publications, I!Handle(p)
  PROVE  IngestInvariant'
PROOF
  <1>1. /\ source # "fanout" /\ publication[p].status = 0
        /\ UNCHANGED <<source, pubsub, delivered, active, mapped, op, doubled>>
    BY DEF I!Handle, I!config, I!streams
  <1>2. PICK n \in publication[p].node, fails \in BOOLEAN : I!HandleBroadcast(p, n, fails)
    BY DEF I!Handle
  <1>3. PICK old \in Records : old = publication[p]
    BY DEF IngestInvariant, IngestTypes
  <1>4. n \in Nodes /\ old.next > 0 /\ old.node # {} /\ old.status = 0
    BY <1>1, <1>2, <1>3 DEF IngestInvariant, HandedOver, Progress, Records
  <1>5. PICK k \in Nat : k = old.next
    BY DEF Records
  <1>6. /\ \A i \in {1, 2} : BehindSent(p, i) /\ AheadUntouched(p, i)
        /\ Progress(p)
    BY DEF IngestInvariant, HandedOver
  <1>7. ASSUME NEW code \in {200, 201, 501}, publication' = I!Answer(p, code), wire' = wire,
               code = 201 => <<p, k>> \notin I!Elements(p),
               code = 501 => <<p, k>> \in I!Elements(p)
        PROVE  IngestInvariant'
    <2>1. PICK r : r = publication'[p]
      OBVIOUS
    <2>2. r = [old EXCEPT !.status = code]
      BY <1>3, <1>5, <1>7, <2>1 DEF I!Answer, IngestInvariant, IngestTypes, Records
    <2>3. /\ r \in Records
          /\ r.kind = old.kind /\ r.node = old.node /\ r.next = k /\ r.status = code
      BY <1>4, <1>5, <2>2 DEF Records
    <2>4. /\ DOMAIN publication' = Publications
          /\ publication' = [q \in Publications |-> publication'[q]]
          /\ \A q \in Publications : q # p => publication'[q] = publication[q]
      <3>1. publication \in [Publications -> Records]
        BY DEF IngestInvariant, IngestTypes
      <3>2. \A q \in Publications : q # p => publication'[q] = publication[q]
        BY <1>7, <3>1 DEF I!Answer
      <3>3. DOMAIN publication' = Publications
        BY <1>7, <3>1 DEF I!Answer
      <3>4. publication' = [q \in Publications |-> publication'[q]]
        <4>1. publication' = [publication EXCEPT ![p].status = code]
          BY <1>7 DEF I!Answer
        <4> QED
          BY <3>1, <4>1
      <3> QED
        BY <3>2, <3>3, <3>4
    <2>5. Moves(p, {})
      BY <1>1, <1>3, <1>7, <2>1, <2>3, <2>4 DEF Moves, IngestInvariant, IngestTypes
    <2>6. I!Elements(p)' = I!Elements(p)
      BY <1>3, <2>1, <2>3 DEF I!Elements
    <2>7. Progress(p)'
      <3>1. code = 501 /\ old.kind # "batch" => k = 1
        BY <1>3, <1>7, ElementsAre
      <3> QED
        BY <1>4, <1>5, <1>7, <2>1, <2>3, <2>6, <3>1 DEF Progress
    <2>8. \A i \in {1, 2}, m \in Nodes : Ahead(p, i, m)' => Ahead(p, i, m)
      BY <1>1, <1>3, <1>5, <2>1, <2>3 DEF Ahead
    <2>9. ASSUME NEW i \in {1, 2} PROVE BehindSent(p, i)'
      <3>1. I!Sent(<<p, i>>) => I!Sent(<<p, i>>)'
        BY <1>1, <1>7 DEF I!Sent
      <3> QED
        BY <1>1, <1>3, <1>5, <1>6, <2>1, <2>3, <2>6, <3>1 DEF BehindSent
    <2> QED
      BY <2>5, <2>7, <2>8, <2>9, MovesSets
  <1>8. ASSUME NEW new, <<p, k>> \in I!Elements(p),
               publication' = [publication EXCEPT ![p].next = publication[p].next + 1],
               wire' = wire \cup new,
               \A c \in new : /\ c \in [element : {<<p, k>>}, node : Nodes, copy : {1, 2}]
                              /\ c.node \notin doubled => c.copy = 1,
               source \in {"http", "api"} /\ pubsub = "legacy" =>
                 \E c \in new : c.element = <<p, k>>
        PROVE  IngestInvariant'
    <2>1. PICK r : r = publication'[p]
      OBVIOUS
    <2>2. r = [old EXCEPT !.next = k + 1]
      BY <1>3, <1>5, <1>8, <2>1 DEF IngestInvariant, IngestTypes, Records
    <2>3. /\ r \in Records
          /\ r.kind = old.kind /\ r.node = old.node /\ r.next = k + 1 /\ r.status = 0
      BY <1>4, <1>5, <2>2 DEF Records
    <2>4. /\ DOMAIN publication' = Publications
          /\ publication' = [q \in Publications |-> publication'[q]]
          /\ \A q \in Publications : q # p => publication'[q] = publication[q]
      BY <1>8 DEF IngestInvariant, IngestTypes
    <2>5. Moves(p, new)
      BY <1>1, <1>3, <1>8, <2>1, <2>3, <2>4 DEF Moves, IngestInvariant, IngestTypes
    <2>6. I!Elements(p)' = I!Elements(p)
      BY <1>3, <2>1, <2>3 DEF I!Elements
    <2>7. Progress(p)'
      BY <1>4, <1>5, <2>1, <2>3, <2>6 DEF Progress
    <2>8. \A i \in {1, 2}, m \in Nodes : Ahead(p, i, m)' => Ahead(p, i, m)
      BY <1>1, <1>3, <1>5, <2>1, <2>3 DEF Ahead
    <2>9. ASSUME NEW i \in {1, 2} PROVE BehindSent(p, i)'
      <3>1. I!Sent(<<p, i>>) => I!Sent(<<p, i>>)'
        BY <1>1, <1>8 DEF I!Sent
      <3>2. CASE i = k
        BY <1>1, <1>8, <3>2 DEF BehindSent, I!Sent
      <3>3. CASE i # k
        <4>1. i < publication'[p].next => i < publication[p].next
          BY <1>3, <1>5, <2>1, <2>3, <3>3
        <4> QED
          BY <1>1, <1>6, <2>6, <3>1, <4>1 DEF BehindSent
      <3> QED
        BY <3>2, <3>3
    <2>10. k \in {1, 2} /\ <<p, k>> \in I!AllElements
      BY <1>8, ElementsAre DEF I!AllElements
    <2>11. \A m \in Nodes : ~Ahead(p, k, m)' /\ Untouched(m, <<p, k>>)
      BY <1>1, <1>3, <1>5, <1>6, <2>1, <2>3, <2>10 DEF Ahead, AheadUntouched
    <2>12. \A c \in new :
             /\ c \in [element : I!AllElements, node : Nodes, copy : {1, 2}]
             /\ c.node \notin doubled => c.copy = 1
             /\ Untouched(c.node, c.element)
             /\ \E i \in {1, 2} : c.element = <<p, i>> /\ ~Ahead(p, i, c.node)'
      BY <1>8, <2>10, <2>11
    <2> QED
      BY <2>5, <2>7, <2>8, <2>9, <2>12, MovesSets
  <1>9. CASE <<p, k>> \notin I!Elements(p)
    <2>1. PICK code \in {200, 201} : publication' = I!Answer(p, code) /\ wire' = wire
      BY <1>2, <1>3, <1>5, <1>9 DEF I!HandleBroadcast
    <2> QED
      BY <1>7, <1>9, <2>1
  <1>10. CASE <<p, k>> \in I!Elements(p) /\ fails /\ source # "pusher"
    <2>1. publication' = I!Answer(p, 501) /\ wire' = wire
      BY <1>2, <1>3, <1>5, <1>10 DEF I!HandleBroadcast
    <2> QED
      BY <1>7, <1>10, <2>1
  <1>11. CASE <<p, k>> \in I!Elements(p) /\ fails /\ source = "pusher"
    <2>1. /\ publication' = [publication EXCEPT ![p].next = publication[p].next + 1]
          /\ wire' = wire \cup {}
      BY <1>2, <1>3, <1>5, <1>11 DEF I!HandleBroadcast
    <2>2. PICK new : new = {}
      OBVIOUS
    <2> QED
      BY <1>8, <1>11, <2>1, <2>2
  <1>12. CASE <<p, k>> \in I!Elements(p) /\ ~fails
    <2>1. publication' = [publication EXCEPT ![p].next = publication[p].next + 1]
      BY <1>2, <1>3, <1>5, <1>12 DEF I!HandleBroadcast
    <2>2. CASE pubsub = "legacy"
      <3>1. wire' = wire \cup {[element |-> <<p, k>>, node |-> n, copy |-> 1]}
        BY <1>2, <1>3, <1>5, <1>12, <2>2 DEF I!HandleBroadcast, I!Copies
      <3>2. PICK new : new = {[element |-> <<p, k>>, node |-> n, copy |-> 1]}
        OBVIOUS
      <3>3. /\ \A c \in new : /\ c \in [element : {<<p, k>>}, node : Nodes, copy : {1, 2}]
                              /\ c.copy = 1
            /\ \E c \in new : c.element = <<p, k>>
        BY <1>4, <3>2
      <3> QED
        BY <1>8, <1>12, <2>1, <3>1, <3>2, <3>3
    <2>3. CASE pubsub # "legacy"
      <3>1. PICK limit \in [Nodes -> Int] :
              /\ wire' = wire \cup {c \in [element : {<<p, k>>}, node : Nodes, copy : 1..2] :
                                      c.copy <= limit[c.node]}
              /\ \A m \in Nodes : limit[m] \in {1, active[m]}
        <4>1. CASE publication[p].kind = "command"
          <5>1. wire' = wire \cup {c \in [element : {<<p, k>>}, node : Nodes, copy : 1..2] :
                                     c.copy <= 1}
            BY <1>2, <1>3, <1>5, <1>12, <2>3, <4>1 DEF I!HandleBroadcast, I!Copies
          <5> WITNESS [m \in Nodes |-> 1] \in [Nodes -> Int]
          <5> QED
            BY <5>1
        <4>2. CASE publication[p].kind # "command"
          <5>1. wire' = wire \cup {c \in [element : {<<p, k>>}, node : Nodes, copy : 1..2] :
                                     c.copy <= active[c.node]}
            BY <1>2, <1>3, <1>5, <1>12, <2>3, <4>2 DEF I!HandleBroadcast, I!Copies
          <5>2. active \in [Nodes -> Int]
            BY DEF IngestInvariant, IngestTypes
          <5> WITNESS active \in [Nodes -> Int]
          <5> QED
            BY <5>1
        <4> QED
          BY <4>1, <4>2
      <3>2. PICK new : new = {c \in [element : {<<p, k>>}, node : Nodes, copy : 1..2] :
                                c.copy <= limit[c.node]}
        OBVIOUS
      <3>3. \A m \in Nodes \ doubled : active[m] <= 1
        BY DEF IngestInvariant, IngestTypes, OneSubscription
      <3>4. \A c \in new : /\ c \in [element : {<<p, k>>}, node : Nodes, copy : {1, 2}]
                           /\ c.node \notin doubled => c.copy = 1
        BY <3>1, <3>2, <3>3 DEF IngestInvariant, IngestTypes
      <3> QED
        BY <1>8, <1>12, <2>1, <2>3, <3>1, <3>2, <3>4
    <2> QED
      BY <2>2, <2>3
  <1> QED
    BY <1>9, <1>10, <1>11, <1>12

(* A node takes a publication from the pub/sub.                            *)
LEMMA FanoutStep ==
  ASSUME IngestInvariant, NEW p \in Publications, NEW n \in Nodes, I!Fanout(p, n)
  PROVE  IngestInvariant'
PROOF
  <1>1. /\ source = "fanout" /\ n \notin publication[p].node
        /\ UNCHANGED <<source, pubsub, delivered, active, mapped, op, doubled>>
    BY DEF I!Fanout, I!config, I!streams
  <1>2. publication' = [publication EXCEPT ![p].node = publication[p].node \cup {n}]
    BY DEF I!Fanout
  <1>3. PICK old \in Records : old = publication[p]
    BY DEF IngestInvariant, IngestTypes
  <1>4. PICK r : r = publication'[p]
    OBVIOUS
  <1>5. r = [old EXCEPT !.node = old.node \cup {n}]
    BY <1>2, <1>3, <1>4 DEF IngestInvariant, IngestTypes, Records
  <1>6. r \in Records /\ r.kind = old.kind /\ r.node = old.node \cup {n}
    BY <1>5 DEF Records
  <1>7. /\ DOMAIN publication' = Publications
        /\ publication' = [q \in Publications |-> publication'[q]]
        /\ \A q \in Publications : q # p => publication'[q] = publication[q]
    BY <1>2 DEF IngestInvariant, IngestTypes
  <1>8. PICK new : /\ wire' = wire \cup new
                   /\ new = {[element |-> e, node |-> n, copy |-> 1] : e \in I!Elements(p)}
    BY DEF I!Fanout, I!HandlePubSub
  <1>9. Moves(p, new)
    BY SMTT(30), <1>1, <1>3, <1>4, <1>6, <1>7, <1>8 DEF Moves, IngestInvariant, IngestTypes
  <1>10. \A i \in {1, 2}, m \in Nodes : Ahead(p, i, m)' => Ahead(p, i, m)
    BY <1>1, <1>3, <1>4, <1>6 DEF Ahead
  <1>11. \A i \in {1, 2} : ~Ahead(p, i, n)' /\ Untouched(n, <<p, i>>) /\ <<p, i>> \in I!AllElements
    <2>1. ASSUME NEW i \in {1, 2} PROVE ~Ahead(p, i, n)' /\ Ahead(p, i, n)
      BY <1>1, <1>4, <1>6 DEF Ahead
    <2>2. ASSUME NEW i \in {1, 2} PROVE Untouched(n, <<p, i>>)
      BY <2>1 DEF IngestInvariant, HandedOver, AheadUntouched
    <2>3. ASSUME NEW i \in {1, 2} PROVE <<p, i>> \in I!AllElements
      BY DEF I!AllElements
    <2> QED
      BY <2>1, <2>2, <2>3
  <1>12. ASSUME NEW c \in new
         PROVE  /\ c \in [element : I!AllElements, node : Nodes, copy : {1, 2}]
                /\ c.node \notin doubled => c.copy = 1
                /\ Untouched(c.node, c.element)
                /\ \E i \in {1, 2} : c.element = <<p, i>> /\ ~Ahead(p, i, c.node)'
    <2>1. PICK e \in I!Elements(p) : c = [element |-> e, node |-> n, copy |-> 1]
      BY <1>8
    <2>2. PICK i \in {1, 2} : e = <<p, i>>
      BY <2>1 DEF I!Elements
    <2> QED
      BY <1>11, <2>1, <2>2
  <1>13. Progress(p)' /\ \A i \in {1, 2} : BehindSent(p, i)'
    BY <1>1 DEF Progress, BehindSent
  <1> QED
    BY <1>9, <1>10, <1>12, <1>13, MovesSets

(* Every step of the publications keeps the invariant.                     *)
LEMMA IngestStep ==
  ASSUME IngestInvariant, [I!Next]_ingest
  PROVE  IngestInvariant'
PROOF
  <1>1. CASE UNCHANGED ingest
    BY <1>1, SamePublications
    DEF ingest, IngestInvariant, IngestTypes, OneSubscription, OneCopy
  <1>2. CASE I!Next
    <2>1. ASSUME NEW n \in Nodes, NEW g \in Goroutines, StreamsStep(n, g) PROVE IngestInvariant'
      BY <2>1, StreamsKeepPublications
    <2>2. ASSUME NEW c \in wire, I!handleMessage(c) PROVE IngestInvariant'
      BY <2>2, MessageHandled
    <2>3. ASSUME NEW p \in Publications, I!Handle(p) PROVE IngestInvariant'
      BY <2>3, HandleStep
    <2>4. ASSUME NEW p \in Publications, NEW n \in Nodes, I!Request(p, n) \/ I!Fanout(p, n)
          PROVE  IngestInvariant'
      BY <2>4, RequestStep, FanoutStep
    <2> QED
      BY <1>2, <2>1, <2>2, <2>3, <2>4 DEF I!Next, StreamsStep
  <1> QED
    BY <1>1, <1>2

(* The invariant of the publications holds at the start.                   *)
LEMMA IngestStarts == MCInit => IngestInvariant
PROOF
  <1> SUFFICES ASSUME I!Init PROVE IngestInvariant
    BY DEF MCInit
  <1>1. /\ publication \in [Publications -> Records]
        /\ \A p \in Publications :
             publication[p].node = {} /\ publication[p].next = 0 /\ publication[p].status = 0
    BY DEF I!Init, Records
  <1>2. \A p \in Publications, i \in {1, 2} : <<p, i>> \in I!AllElements
    BY DEF I!AllElements
  <1>3. \A n \in Nodes, e \in I!AllElements : Untouched(n, e)
    BY DEF I!Init, Untouched
  <1>4. HandedOver
    <2>1. ASSUME NEW p \in Publications PROVE Progress(p)
      BY <1>1 DEF Progress
    <2>2. ASSUME NEW p \in Publications, NEW i \in {1, 2}
          PROVE  AheadUntouched(p, i) /\ BehindSent(p, i)
      <3>1. <<p, i>> \in I!AllElements
        BY <1>2
      <3>2. AheadUntouched(p, i)
        BY <1>3, <3>1 DEF AheadUntouched
      <3>3. BehindSent(p, i)
        BY <1>1 DEF BehindSent
      <3> QED
        BY <3>2, <3>3
    <2> QED
      BY <2>1, <2>2 DEF HandedOver
  <1>5. IngestTypes
    BY <1>1 DEF I!Init, IngestTypes
  <1>6. OneSubscription /\ OneCopy
    BY DEF I!Init, OneSubscription, OneCopy
  <1> QED
    BY <1>4, <1>5, <1>6 DEF IngestInvariant

(* For any number of nodes, publications, goroutines and subscriptions: no *)
(* node broadcasts a message twice, through the broker and the pub/sub or  *)
(* from its own fan-out broadcaster, unless NATSSubscriber.Subscribe       *)
(* subscribed it twice.                                                    *)
THEOREM NodesBroadcastOnce == MCSpec => []EveryNodeOnce
PROOF
  <1>1. IngestInvariant /\ [MCNext]_all => IngestInvariant'
    BY OnePartMoves, IngestStep
  <1>2. IngestInvariant => EveryNodeOnce
    BY DEF IngestInvariant, OneCopy, EveryNodeOnce, I!EveryNodeOnce
  <1> QED
    BY <1>1, <1>2, IngestStarts, PTL DEF MCSpec, all

(* For any publications: a 201 of the HTTP broadcaster or the API says     *)
(* that the broker has taken all of it, an error that it has taken nothing *)
(* of what is not a batch, however the requests interleave and fail.       *)
THEOREM AnswersAreTrue == MCSpec => []AnswerIsTrue
PROOF
  <1>1. IngestInvariant /\ [MCNext]_all => IngestInvariant'
    BY OnePartMoves, IngestStep
  <1>2. IngestInvariant => AnswerIsTrue
    <2> SUFFICES ASSUME IngestInvariant, source \in {"http", "api"}, pubsub = "legacy",
                        NEW p \in Publications, NEW e \in I!Elements(p)
                 PROVE  /\ publication[p].status = 201 => I!Sent(e)
                        /\ publication[p].status > 201 =>
                             publication[p].kind = "batch" \/ ~I!Sent(e)
      BY DEF AnswerIsTrue, I!AnswerIsTrue
    <2>1. PICK i \in {1, 2} : e = <<p, i>>
      BY DEF I!Elements
    <2>2. /\ publication[p].next \in Nat /\ publication[p].status \in Nat
          /\ Progress(p) /\ AheadUntouched(p, i) /\ BehindSent(p, i)
      BY DEF IngestInvariant, IngestTypes, HandedOver, Records
    <2>3. CASE publication[p].status = 201
      <3>1. <<p, publication[p].next>> \notin I!Elements(p) /\ publication[p].next > 0
        BY <2>2, <2>3 DEF Progress
      <3>2. i < publication[p].next
        BY <2>1, <2>2, <3>1 DEF I!Elements
      <3> QED
        BY <2>1, <2>2, <2>3, <3>2 DEF BehindSent
    <2>4. CASE publication[p].status > 201 /\ publication[p].kind # "batch"
      <3>1. \A n \in Nodes : Untouched(n, e)
        BY <2>1, <2>2, <2>4 DEF Progress, AheadUntouched, Ahead
      <3>2. \A c \in wire : c.node \in Nodes
        BY DEF IngestInvariant, IngestTypes
      <3>3. ~I!Sent(e)
        BY <3>1, <3>2 DEF I!Sent, Untouched
      <3> QED
        BY <2>4, <3>3
    <2> QED
      BY <2>2, <2>3, <2>4
  <1> QED
    BY <1>1, <1>2, IngestStarts, PTL DEF MCSpec, all

-----------------------------------------------------------------------------
(* Durable streams.                                                        *)

(* The client has every message up to k, or is not owed it.                *)
UpTo(k) == \A m \in 1..k : m \in got \cup excused \cup raced

Flags == BOOLEAN
RequestRecords ==
  [pc : Handling \cup {"new", "returned"}, mode : Modes, from : Nat \cup {Beginning, Now},
   tail : Nat, seen : Nat, done : Flags, gone : Flags, subscribed : Flags,
   queue : Seq(Nat \cup {CloseFrame}), status : Nat, aborted : Flags]

StreamTypes ==
  /\ last \in Nat /\ flight \in Seq(Nat) /\ Len(flight) <= last
  /\ \A i \in 1..Len(flight) : flight[i] = last - Len(flight) + i
  /\ cur \in 0..MaxRequests
  /\ client \in {Beginning, Now} \cup 1..last
  /\ req \in [Requests -> RequestRecords]

(* The last message that the hub has delivered.                            *)
Delivered == last - Len(flight)

(* What the queue of a live session holds is the end of what was delivered,*)
(* and the client has everything before it.                                *)
Follows(rec) ==
  /\ Len(rec.queue) <= Delivered
  /\ \A i \in 1..Len(rec.queue) : rec.queue[i] = Delivered - Len(rec.queue) + i
  /\ UpTo(Delivered - Len(rec.queue))

(* The request that the client is waiting for.                             *)
Served(rec) ==
  /\ rec.pc \in {"peak", "history"} => rec.from = client /\ rec.queue = <<>>
  /\ rec.pc = "history" => rec.tail <= last /\ (rec.from = Now => UpTo(rec.tail))
  /\ rec.pc = "subscribe" => rec.queue = <<>> /\ rec.seen <= last /\ UpTo(rec.seen)
  /\ rec.pc = "wait" => rec.subscribed /\ (~rec.done => Follows(rec))
  /\ rec.pc # "wait" => ~rec.subscribed
  /\ rec.pc \in {"new", "returned"} => rec.done \/ rec.queue = <<>>
  /\ rec.gone => rec.done

StreamInvariant ==
  /\ StreamTypes
  /\ UpTo(DecodeOffset(client))
  /\ \A r \in Requests : r = cur /\ ~req[r].aborted => Served(req[r])

(* An offset is a number, and none of the marks.                           *)
LEMMA NumbersAreOffsets ==
  /\ \A k \in Nat : k # Beginning /\ k # Now /\ k # CloseFrame
  /\ <<>> # None
PROOF
  <1>1. <<>> \in Seq(Nat)
    OBVIOUS
  <1> QED
    BY <1>1, DurableStreamsAssumption

(* Both values of a flag.                                                  *)
LEMMA FlagsAre == TRUE \in Flags /\ FALSE \in Flags
PROOF
  BY DEF Flags

(* A request that has not been made is a request.                          *)
LEMMA NoRequestIs == NoRequest \in RequestRecords
PROOF
  <1>1. PICK no : no = FALSE /\ no \in Flags
    BY FlagsAre
  <1>2. <<>> \in Seq(Nat \cup {CloseFrame})
    OBVIOUS
  <1>3. NoRequest = [pc |-> "new", mode |-> "catch-up", from |-> Beginning, tail |-> 0,
                     seen |-> 0, done |-> no, gone |-> no, subscribed |-> no,
                     queue |-> <<>>, status |-> 0, aborted |-> no]
    BY <1>1 DEF NoRequest
  <1> QED
    BY <1>1, <1>2, <1>3 DEF RequestRecords, Handling, Modes

(* A session is closed: its request ends, its place does not change.       *)
LEMMA CloseIs ==
  ASSUME NEW rec \in RequestRecords, NEW code \in Nat
  PROVE  /\ Close(rec, code) \in RequestRecords
         /\ Close(rec, code).done
         /\ Close(rec, code).pc = rec.pc
         /\ Close(rec, code).queue = rec.queue
         /\ Close(rec, code).subscribed = rec.subscribed
         /\ Close(rec, code).aborted = rec.aborted
PROOF
  <1>1. CASE rec.done
    BY <1>1 DEF Close
  <1>2. CASE ~rec.done
    BY <1>2, FlagsAre DEF Close, RequestRecords
  <1> QED
    BY <1>1, <1>2

(* A request that has returned, with what it had queued dropped.           *)
LEMMA EndedIs ==
  ASSUME NEW rec \in RequestRecords
  PROVE  /\ Ended(rec) \in RequestRecords
         /\ Ended(rec).pc = "returned"
         /\ Ended(rec).queue = <<>>
         /\ ~Ended(rec).subscribed /\ ~Ended(rec).gone
         /\ Ended(rec).aborted = rec.aborted
PROOF
  <1>1. PICK none \in RequestRecords : none = NoRequest
    BY NoRequestIs
  <1>2. none.queue = <<>> /\ ~none.subscribed /\ ~none.gone
    BY <1>1 DEF NoRequest
  <1>3. Ended(rec) = [none EXCEPT !.pc = "returned", !.status = rec.status,
                                  !.aborted = rec.aborted]
    BY <1>1 DEF Ended
  <1> QED
    BY <1>1, <1>2, <1>3 DEF RequestRecords

(* A request returns and its session unsubscribes.                         *)
LEMMA ReturnIs ==
  ASSUME NEW rec \in RequestRecords
  PROVE  /\ Return(rec) \in RequestRecords
         /\ Return(rec).pc = "returned"
         /\ ~Return(rec).subscribed
         /\ rec.done \/ rec.queue = <<>> => Return(rec).done \/ Return(rec).queue = <<>>
         /\ (rec.gone => rec.done) => (Return(rec).gone => Return(rec).done)
         /\ Return(rec).aborted = rec.aborted
PROOF
  <1>1. CASE rec.queue = <<>>
    BY <1>1, EndedIs DEF Return
  <1>2. CASE rec.queue # <<>>
    <2>1. PICK e \in RequestRecords : e = Ended(rec)
      BY EndedIs
    <2>2. Append(rec.queue, CloseFrame) \in Seq(Nat \cup {CloseFrame})
      BY DEF RequestRecords
    <2>3. Return(rec) = [e EXCEPT !.mode = rec.mode, !.done = rec.done, !.gone = rec.gone,
                                  !.queue = Append(rec.queue, CloseFrame)]
      BY <1>2, <2>1 DEF Return
    <2>4. e.pc = "returned" /\ ~e.subscribed /\ e.aborted = rec.aborted
      BY <2>1, EndedIs
    <2>5. Return(rec) \in RequestRecords
      BY <2>1, <2>2, <2>3 DEF RequestRecords
    <2>6. /\ Return(rec).pc = e.pc /\ Return(rec).subscribed = e.subscribed
          /\ Return(rec).aborted = e.aborted /\ Return(rec).done = rec.done
          /\ Return(rec).gone = rec.gone
      BY <2>1, <2>3 DEF RequestRecords
    <2> QED
      BY <1>2, <2>4, <2>5, <2>6
  <1> QED
    BY <1>1, <1>2

(* A request that has returned asks nothing of the client.                 *)
LEMMA ReturnedIsServed ==
  ASSUME NEW rec \in RequestRecords, rec.done \/ rec.queue = <<>>, rec.gone => rec.done
  PROVE  Served(Return(rec)) /\ Served(Return(rec))'
PROOF
  <1>1. PICK new : new = Return(rec)
    OBVIOUS
  <1>2. /\ new.pc = "returned" /\ ~new.subscribed
        /\ new.done \/ new.queue = <<>>
        /\ new.gone => new.done
    BY <1>1, ReturnIs
  <1>3. Served(new) /\ Served(new)'
    BY <1>2 DEF Served
  <1> QED
    BY <1>1, <1>3

(* A request that is closed and returns.                                   *)
LEMMA ClosedIsServed ==
  ASSUME NEW rec \in RequestRecords, NEW code \in Nat
  PROVE  /\ Return(Close(rec, code)) \in RequestRecords
         /\ Return(Close(rec, code)).aborted = rec.aborted
         /\ Served(Return(Close(rec, code))) /\ Served(Return(Close(rec, code)))'
PROOF
  <1>1. PICK new \in RequestRecords : new = Close(rec, code)
    BY CloseIs
  <1>2. new.done /\ new.aborted = rec.aborted
    BY <1>1, CloseIs
  <1>3. /\ Return(new) \in RequestRecords /\ Return(new).aborted = new.aborted
        /\ Served(Return(new)) /\ Served(Return(new))'
    BY <1>2, ReturnIs, ReturnedIsServed
  <1> QED
    BY <1>1, <1>2, <1>3

Grows == got \subseteq got' /\ excused \subseteq excused' /\ raced \subseteq raced'

(* All up to k stays got, excused or raced.                                *)
LEMMA UpToGrows ==
  ASSUME Grows, NEW k, UpTo(k)
  PROVE  UpTo(k)'
PROOF
  BY DEF Grows, UpTo

(* What is said of a request, where the client only gets more.             *)
LEMMA ServedStays ==
  ASSUME Grows, UNCHANGED <<last, flight, client>>, NEW rec, Served(rec)
  PROVE  Served(rec)'
PROOF
  <1>1. \A k : UpTo(k) => UpTo(k)'
    BY UpToGrows
  <1>2. Follows(rec) => Follows(rec)'
    BY <1>1 DEF Follows, Delivered
  <1> QED
    BY <1>1, <1>2 DEF Served

(* A step of one request.                                                  *)
LEMMA RequestMoves ==
  ASSUME StreamInvariant, NEW r \in Requests, NEW rec \in RequestRecords,
         req' = [req EXCEPT ![r] = rec],
         UNCHANGED <<last, flight, cur>>, Grows,
         client' \in {Beginning, Now} \cup 1..last,
         r # cur => client' = client,
         UpTo(DecodeOffset(client))',
         r = cur /\ ~rec.aborted => Served(rec)'
  PROVE  StreamInvariant'
PROOF
  <1>1. StreamTypes'
    BY DEF StreamInvariant, StreamTypes
  <1>2. ASSUME NEW q \in Requests, q = cur, ~req'[q].aborted
        PROVE  Served(req[q])'
    <2>1. CASE q = r
      BY <1>2, <2>1 DEF StreamInvariant, StreamTypes
    <2>2. CASE q # r
      <3>1. req'[q] = req[q] /\ client' = client
        BY <1>2, <2>2 DEF StreamInvariant, StreamTypes
      <3>2. PICK old : old = req[q]
        OBVIOUS
      <3>3. Served(old)
        BY <1>2, <3>1, <3>2 DEF StreamInvariant
      <3>4. Served(old)'
        BY <3>1, <3>3, ServedStays
      <3> QED
        BY <3>1, <3>2, <3>4
    <2> QED
      BY <2>1, <2>2
  <1> QED
    BY <1>1, <1>2 DEF StreamInvariant

(* A step of one request that brings the client nothing.                   *)
LEMMA RequestMovesAlone ==
  ASSUME StreamInvariant, NEW r \in Requests, NEW rec \in RequestRecords,
         req' = [req EXCEPT ![r] = rec],
         UNCHANGED <<last, flight, cur, client>>, Grows,
         r = cur /\ ~rec.aborted => Served(rec)'
  PROVE  StreamInvariant'
PROOF
  <1>1. PICK k : k = DecodeOffset(client)
    OBVIOUS
  <1>2. UpTo(k)'
    BY <1>1, UpToGrows DEF StreamInvariant
  <1>3. UpTo(DecodeOffset(client))'
    BY <1>1, <1>2 DEF DecodeOffset
  <1>4. client' \in {Beginning, Now} \cup 1..last
    BY DEF StreamInvariant, StreamTypes
  <1> QED
    BY <1>3, <1>4, RequestMoves

(* The request before a step.                                              *)
LEMMA RequestIs ==
  ASSUME StreamInvariant, NEW r \in Requests
  PROVE  /\ req[r] \in RequestRecords
         /\ r = cur /\ ~req[r].aborted => Served(req[r])
PROOF
  BY DEF StreamInvariant, StreamTypes

(* A message is published to the stream.                                   *)
LEMMA StreamPublishes == ASSUME StreamInvariant, Publish PROVE StreamInvariant'
PROOF
  <1>1. /\ last' = last + 1 /\ flight' = Append(flight, last + 1)
        /\ UNCHANGED <<req, cur, client, got, excused, raced>>
    BY DEF Publish
  <1>2. last \in Nat /\ flight \in Seq(Nat)
    BY DEF StreamInvariant, StreamTypes
  <1>3. /\ flight' \in Seq(Nat) /\ Len(flight') = Len(flight) + 1
        /\ \A i \in 1..Len(flight) : flight'[i] = flight[i]
        /\ flight'[Len(flight) + 1] = last + 1
    BY <1>1, <1>2
  <1>4. StreamTypes'
    BY SMTT(30), <1>1, <1>2, <1>3 DEF StreamInvariant, StreamTypes
  <1>5. Delivered' = Delivered /\ \A k : UpTo(k) => UpTo(k)'
    BY <1>1, <1>2, <1>3 DEF Delivered, UpTo
  <1>6. UpTo(DecodeOffset(client))'
    BY <1>1, <1>5 DEF StreamInvariant, DecodeOffset
  <1>7. ASSUME NEW r \in Requests, r = cur, ~req[r].aborted
        PROVE  Served(req[r])'
    <2>1. PICK rec \in RequestRecords : rec = req[r]
      BY RequestIs
    <2>2. Served(rec)
      BY <1>7, <2>1, RequestIs
    <2>3. Follows(rec) => Follows(rec)'
      BY <1>5 DEF Follows
    <2>4. rec.tail \in Nat /\ rec.seen \in Nat
      BY DEF RequestRecords
    <2>5. Served(rec)'
      BY <1>1, <1>2, <1>5, <2>2, <2>3, <2>4 DEF Served
    <2> QED
      BY <1>1, <2>1, <2>5
  <1> QED
    BY <1>1, <1>4, <1>6, <1>7 DEF StreamInvariant

(* The node starts to shut down.                                           *)
LEMMA StreamShutsDown == ASSUME StreamInvariant, ShutdownStarts \/ UNCHANGED vars
                         PROVE StreamInvariant'
PROOF
  <1>1. UNCHANGED <<last, flight, req, cur, client, got, excused, raced>>
    BY DEF ShutdownStarts, vars
  <1> QED
    BY ZenonT(60), <1>1 DEF StreamInvariant, StreamTypes, Served, Follows, Delivered, UpTo, DecodeOffset

(* The hub delivers a message to the sessions that are subscribed.         *)
LEMMA HubReaches == ASSUME StreamInvariant, HubDelivers PROVE StreamInvariant'
PROOF
  <1>1. /\ flight # <<>> /\ flight' = Tail(flight)
        /\ UNCHANGED <<last, cur, client, got, excused, raced>>
    BY DEF HubDelivers
  <1>2. PICK frame : frame = Head(flight)
    OBVIOUS
  <1>3. req' = [r \in Requests |->
                  IF req[r].subscribed
                  THEN [req[r] EXCEPT !.queue = Append(@, frame)] ELSE req[r]]
    BY <1>2 DEF HubDelivers
  <1>4. /\ last \in Nat /\ flight \in Seq(Nat) /\ Len(flight) \in Nat
        /\ Len(flight) > 0 /\ Len(flight) <= last
        /\ \A i \in 1..Len(flight) : flight[i] = last - Len(flight) + i
    BY <1>1 DEF StreamInvariant, StreamTypes
  <1>5. /\ flight' \in Seq(Nat) /\ Len(flight') = Len(flight) - 1
        /\ \A i \in 1..(Len(flight) - 1) : flight'[i] = flight[i + 1]
    BY <1>1, <1>4
  <1>6. frame = Delivered + 1 /\ Delivered' = Delivered + 1 /\ Delivered \in Nat
    <2>1. frame = flight[1]
      BY <1>1, <1>2, <1>4
    <2> QED
      BY <1>1, <1>4, <1>5, <2>1 DEF Delivered
  <1>7. \A k : UpTo(k) => UpTo(k)'
    BY <1>1 DEF UpTo
  <1>8. ASSUME NEW r \in Requests
        PROVE  /\ req'[r] \in RequestRecords
               /\ r = cur /\ ~req'[r].aborted => Served(req[r])'
    <2>1. PICK old \in RequestRecords : old = req[r]
      BY RequestIs
    <2>2. CASE ~old.subscribed
      <3>1. req'[r] = old
        BY <1>3, <2>1, <2>2
      <3>2. ASSUME r = cur, ~old.aborted PROVE Served(old)'
        <4>1. Served(old)
          BY <2>1, <3>2, RequestIs
        <4> QED
          BY <1>1, <1>7, <2>2, <4>1 DEF Served
      <3> QED
        BY <3>1, <3>2
    <2>3. CASE old.subscribed
      <3>1. PICK new : new = req'[r]
        OBVIOUS
      <3>2. new = [old EXCEPT !.queue = Append(old.queue, frame)]
        BY <1>3, <2>1, <2>3, <3>1
      <3>3. /\ old.queue \in Seq(Nat \cup {CloseFrame})
            /\ Append(old.queue, frame) \in Seq(Nat \cup {CloseFrame})
        BY <1>6 DEF RequestRecords
      <3>4. new \in RequestRecords
        BY <3>2, <3>3 DEF RequestRecords
      <3>5. /\ new.queue = Append(old.queue, frame) /\ new.pc = old.pc
            /\ new.done = old.done /\ new.gone = old.gone
            /\ new.subscribed = old.subscribed /\ new.aborted = old.aborted
        BY <3>2 DEF RequestRecords
      <3>6. ASSUME r = cur, ~old.aborted PROVE Served(new)'
        <4>1. Served(old)
          BY <2>1, <3>6, RequestIs
        <4>2. old.pc = "wait"
          BY <2>3, <4>1 DEF Served
        <4>3. ASSUME ~old.done PROVE Follows(new)'
          <5>1. Follows(old)
            BY <4>1, <4>2, <4>3 DEF Served
          <5>2. PICK n \in Nat : n = Len(old.queue)
            BY <3>3
          <5>3. /\ Len(new.queue) = n + 1 /\ new.queue[n + 1] = frame
                /\ \A i \in 1..n : new.queue[i] = old.queue[i]
            BY <3>3, <3>5, <5>2
          <5>4. \A i \in 1..(n + 1) : new.queue[i] = Delivered' - (n + 1) + i
            <6>1. PICK d \in Nat : d = Delivered
              BY <1>6
            <6>2. n <= d /\ \A i \in 1..n : old.queue[i] = d - n + i
              BY <5>1, <5>2, <6>1 DEF Follows
            <6>3. \A i \in 1..(n + 1) : new.queue[i] = d - n + i
              BY <1>6, <5>3, <6>1, <6>2
            <6>4. \A i \in 1..(n + 1) : d - n + i = (d + 1) - (n + 1) + i
              BY <6>1
            <6> QED
              BY <1>6, <6>1, <6>3, <6>4
          <5>6. Delivered' - (n + 1) = Delivered - n /\ n <= Delivered
            BY <1>6, <5>1, <5>2 DEF Follows
          <5>7. PICK k : k = Delivered - n
            OBVIOUS
          <5>8. UpTo(k)'
            BY <1>7, <5>1, <5>2, <5>7 DEF Follows
          <5>9. PICK d : d = Delivered'
            OBVIOUS
          <5>10. /\ Len(new.queue) <= d
                 /\ \A i \in 1..Len(new.queue) : new.queue[i] = d - Len(new.queue) + i
                 /\ k = d - Len(new.queue)
            BY <1>6, <5>3, <5>4, <5>6, <5>7, <5>9
          <5> QED
            BY <5>8, <5>9, <5>10 DEF Follows
        <4> QED
          BY <2>3, <3>5, <4>1, <4>2, <4>3 DEF Served
      <3> QED
        BY <3>1, <3>4, <3>5, <3>6
    <2> QED
      BY <2>2, <2>3
  <1>9. StreamTypes'
    <2>1. req' \in [Requests -> RequestRecords]
      BY <1>3, <1>8
    <2>2. \A i \in 1..Len(flight') : flight'[i] = last - Len(flight') + i
      BY <1>4, <1>5
    <2> QED
      BY <1>1, <1>4, <1>5, <2>1, <2>2 DEF StreamInvariant, StreamTypes
  <1>10. UpTo(DecodeOffset(client))'
    BY <1>1, <1>7 DEF StreamInvariant, DecodeOffset
  <1> QED
    BY <1>1, <1>8, <1>9, <1>10 DEF StreamInvariant

(* The offsets that a request may start from.                              *)
LEMMA ResumeIs == ASSUME NEW from \in Resume PROVE from \in {Beginning, Now, client}
PROOF
  BY DEF Resume

(* A request for the stream arrives.                                       *)
LEMMA RequestStarts ==
  ASSUME StreamInvariant, NEW r \in Requests, NEW mode \in Modes, NEW from \in Resume,
         DSHandler(r, mode, from)
  PROVE  StreamInvariant'
PROOF
  <1>1. /\ cur' = r /\ client' = from
        /\ UNCHANGED <<last, flight, got, excused, raced>>
    BY DEF DSHandler
  <1>2. PICK rec \in NewDSSession(StreamParamsFromReq(mode, from)) :
          req' = [req EXCEPT ![r] = rec]
    BY DEF DSHandler
  <1>3. from \in {Beginning, Now} \cup 1..last
    BY ResumeIs DEF StreamInvariant, StreamTypes
  <1>4. rec \in RequestRecords /\ (~rec.aborted => Served(rec)')
    <2>1. PICK none \in RequestRecords : none = NoRequest
      BY NoRequestIs
    <2>2. none.queue = <<>> /\ ~none.subscribed /\ ~none.gone /\ none.pc = "new"
      BY <2>1 DEF NoRequest
    <2>3. CASE rec = [StreamParamsFromReq(mode, from) EXCEPT !.pc = "peak"]
      <3>1. PICK params : params = StreamParamsFromReq(mode, from)
        OBVIOUS
      <3>2. params = [none EXCEPT !.mode = mode, !.from = from]
        BY <2>1, <3>1 DEF StreamParamsFromReq
      <3>3. from \in Nat \cup {Beginning, Now}
        BY <1>3 DEF StreamInvariant, StreamTypes
      <3>4. /\ params \in RequestRecords /\ params.from = from
            /\ params.queue = <<>> /\ ~params.subscribed /\ ~params.gone
        BY <2>2, <3>2, <3>3 DEF RequestRecords
      <3>5. rec = [params EXCEPT !.pc = "peak"]
        BY <2>3, <3>1
      <3>6. /\ rec \in RequestRecords /\ rec.pc = "peak" /\ rec.from = from
            /\ rec.queue = <<>> /\ ~rec.subscribed /\ ~rec.gone
        BY <3>4, <3>5 DEF RequestRecords, Handling
      <3>7. Served(rec)'
        BY <1>1, <3>6 DEF Served
      <3> QED
        BY <3>6, <3>7
    <2>4. CASE rec = Return(Close(NoRequest, 400))
      BY <2>4, NoRequestIs, ClosedIsServed
    <2> QED
      BY <1>2, <2>3, <2>4 DEF NewDSSession
  <1>5. StreamTypes'
    BY <1>1, <1>2, <1>3, <1>4 DEF StreamInvariant, StreamTypes, Requests
  <1>6. UpTo(DecodeOffset(client))'
    <2>1. PICK k : k = DecodeOffset(from)
      OBVIOUS
    <2>2. k = 0 \/ k = DecodeOffset(client)
      BY <2>1, ResumeIs DEF DecodeOffset
    <2>3. UpTo(k)
      BY <2>2 DEF StreamInvariant, UpTo
    <2>4. UpTo(k)'
      BY <1>1, <2>3 DEF UpTo
    <2> QED
      BY <1>1, <2>1, <2>4 DEF DecodeOffset
  <1>7. ASSUME NEW q \in Requests, q = cur', ~req'[q].aborted PROVE Served(req[q])'
    <2>1. req'[q] = rec
      BY <1>1, <1>2, <1>7 DEF StreamInvariant, StreamTypes
    <2> QED
      BY <1>4, <1>7, <2>1
  <1> QED
    BY <1>1, <1>5, <1>6, <1>7 DEF StreamInvariant

(* A request looks at the end of the stream.                               *)
LEMMA RequestPeaks ==
  ASSUME StreamInvariant, NEW r \in Requests, Peak(r)
  PROVE  StreamInvariant'
PROOF
  <1>1. PICK old \in RequestRecords : old = req[r]
    BY RequestIs
  <1>2. /\ old.pc = "peak"
        /\ excused' = IF old.from = Now THEN excused \cup 1..last ELSE excused
        /\ UNCHANGED <<last, flight, cur, raced>>
    BY <1>1 DEF Peak
  <1>3. r = cur /\ ~old.aborted => Served(old) /\ old.from = client /\ old.queue = <<>>
    BY <1>1, <1>2, RequestIs DEF Served
  <1>4. last \in Nat
    BY DEF StreamInvariant, StreamTypes
  <1>5. old.from = Now => UpTo(last)'
    BY <1>2 DEF UpTo
  <1>6. CASE req' = [req EXCEPT ![r].pc = "history", ![r].tail = last] /\ UNCHANGED <<got, client>>
    <2>1. Grows
      BY <1>2, <1>6 DEF Grows
    <2>2. PICK new : new = [old EXCEPT !.pc = "history", !.tail = last]
      OBVIOUS
    <2>3. req' = [req EXCEPT ![r] = new]
      BY <1>1, <1>6, <2>2 DEF StreamInvariant, StreamTypes
    <2>4. new \in RequestRecords
      BY <1>4, <2>2 DEF RequestRecords, Handling
    <2>5. /\ new.pc = "history" /\ new.tail = last /\ new.from = old.from
          /\ new.queue = old.queue /\ new.subscribed = old.subscribed
          /\ new.gone = old.gone /\ new.done = old.done /\ new.aborted = old.aborted
      BY <2>2 DEF RequestRecords
    <2>6. r = cur /\ ~new.aborted => Served(new)'
      BY <1>2, <1>3, <1>4, <1>5, <1>6, <2>5 DEF Served
    <2> QED
      BY <1>2, <1>6, <2>1, <2>3, <2>4, <2>6, RequestMovesAlone
  <1>7. CASE req' = [req EXCEPT ![r] = Return(Close(@, 500))] /\ UNCHANGED <<got, client>>
    <2>1. Grows
      BY <1>2, <1>7 DEF Grows
    <2>2. PICK new \in RequestRecords : new = Return(Close(old, 500))
      BY ClosedIsServed
    <2>3. req' = [req EXCEPT ![r] = new] /\ Served(new)'
      BY <1>1, <1>7, <2>2, ClosedIsServed
    <2> QED
      BY ZenonT(60), <1>2, <1>7, <2>1, <2>3, RequestMovesAlone
  <1>8. CASE /\ req' = [req EXCEPT ![r] = Return(Close(@, 200))]
             /\ Receive(r, <<>>, IF client = Now THEN EncodeOffset(last) ELSE client)
    <2>1. PICK new \in RequestRecords : new = Return(Close(old, 200))
      BY ClosedIsServed
    <2>2. req' = [req EXCEPT ![r] = new] /\ Served(new)'
      BY <1>1, <1>8, <2>1, ClosedIsServed
    <2>3. CASE r = cur /\ ~old.aborted
      <3>1. PICK position : position = IF client = Now THEN EncodeOffset(last) ELSE client
        OBVIOUS
      <3>2. client' = position /\ got \subseteq got'
        BY <1>1, <1>8, <2>3, <3>1 DEF Receive
      <3>3. Grows
        BY <1>2, <3>2 DEF Grows
      <3>4. CASE client = Now
        <4>1. position = EncodeOffset(last)
          BY <3>1, <3>4
        <4>2. position \in {Beginning, Now} \cup 1..last
          BY <1>4, <4>1 DEF EncodeOffset
        <4>3. DecodeOffset(position) = last
          BY <1>4, <4>1, DurableStreamsAssumption DEF DecodeOffset, EncodeOffset
        <4>4. UpTo(last)'
          BY <1>3, <1>5, <2>3, <3>4
        <4>5. UpTo(DecodeOffset(client))'
          BY <1>2, <3>2, <4>3, <4>4 DEF DecodeOffset
        <4> QED
          BY <1>2, <2>2, <2>3, <3>2, <3>3, <4>2, <4>5, RequestMoves
      <3>5. CASE client # Now
        BY <1>2, <2>2, <3>1, <3>2, <3>3, <3>5, RequestMovesAlone
      <3> QED
        BY <3>4, <3>5
    <2>4. CASE ~(r = cur /\ ~old.aborted)
      <3>1. UNCHANGED <<got, client>>
        BY <1>1, <1>8, <2>4 DEF Receive
      <3>2. Grows
        BY <1>2, <3>1 DEF Grows
      <3> QED
        BY <1>2, <2>2, <3>1, <3>2, RequestMovesAlone
    <2> QED
      BY <2>3, <2>4
  <1> QED
    BY <1>6, <1>7, <1>8 DEF Peak

(* The history that is kept from an offset on.                             *)
LEMMA KeptIs ==
  ASSUME last \in Nat, NEW from \in 1..(last + 1)
  PROVE  /\ Kept(from) \in Seq(Nat)
         /\ Kept(from) = <<>> <=> from = last + 1
         /\ Kept(from) # <<>> => Last(Kept(from)) = last
         /\ \A m \in 1..last : m >= from => m \in ToSet(Kept(from))
PROOF
  <1>1. PICK n \in Nat : n = last - from + 1
    OBVIOUS
  <1>2. PICK q : q = [i \in 1..n |-> from + i - 1]
    OBVIOUS
  <1>3. q = Kept(from)
    BY <1>1, <1>2 DEF Kept
  <1>4. q \in Seq(Nat) /\ Len(q) = n
    <2>1. \A i \in 1..n : from + i - 1 \in Nat
      OBVIOUS
    <2> QED
      BY <1>2, <2>1
  <1>5. q = <<>> <=> n = 0
    BY <1>4
  <1>6. n > 0 => Last(q) = last
    BY <1>1, <1>2, <1>4 DEF Last
  <1>7. ASSUME NEW m \in 1..last, m >= from PROVE m \in ToSet(q)
    <2>1. m - from + 1 \in 1..n /\ q[m - from + 1] = m
      BY <1>1, <1>2, <1>7
    <2>2. m - from + 1 \in DOMAIN q
      BY <1>2, <2>1
    <2> QED
      BY <2>1, <2>2 DEF ToSet
  <1> QED
    BY <1>1, <1>3, <1>4, <1>5, <1>6, <1>7

(* What fetchHistory brings, with what the client already has and what is  *)
(* gone, is everything.                                                    *)
LEMMA HistoryIs ==
  ASSUME last \in Nat, NEW from \in {Beginning, Now} \cup 1..last,
         NEW messages, messages = fetchHistory(from), messages # None
  PROVE  /\ from = Now => messages = <<>>
         /\ from # Now /\ messages = <<>> => DecodeOffset(from) = last
         /\ messages # <<>> => Last(messages) = last
         /\ \A m \in 1..last : from # Now =>
              m \in ToSet(messages)
              \/ m <= DecodeOffset(from) \/ (from = Beginning /\ m \in 1..(Low - 1))
PROOF
  <1>1. CASE from = Now
    BY <1>1, DurableStreamsAssumption DEF fetchHistory
  <1>2. CASE from = Beginning
    <2>1. messages = Kept(Low) /\ DecodeOffset(from) = 0 /\ from # Now
      BY <1>2, DurableStreamsAssumption DEF fetchHistory, DecodeOffset
    <2>2. Low \in 1..(last + 1) /\ (Low = last + 1 => last = 0)
      BY DurableStreamsAssumption DEF Low
    <2>3. PICK low \in 1..(last + 1) : low = Low
      BY <2>2
    <2> QED
      BY <1>2, <2>1, <2>2, <2>3, KeptIs
  <1>3. CASE from \in 1..last
    <2>1. from # Now /\ from # Beginning /\ DecodeOffset(from) = from
      BY <1>3, NumbersAreOffsets DEF DecodeOffset
    <2>2. messages = Kept(from + 1)
      BY <2>1 DEF fetchHistory
    <2>3. PICK next \in 1..(last + 1) : next = from + 1
      BY <1>3
    <2>4. next = last + 1 <=> from = last
      BY <1>3, <2>3
    <2>5. \A m \in 1..last : m >= next \/ m <= from
      BY <1>3, <2>3
    <2> QED
      BY <2>1, <2>2, <2>3, <2>4, <2>5, KeptIs
  <1> QED
    BY <1>1, <1>2, <1>3

(* So a client that gets the history has everything.                       *)
LEMMA HistoryIsEnough ==
  ASSUME StreamInvariant, Grows, last' = last, NEW from \in {Beginning, Now} \cup 1..last,
         UpTo(DecodeOffset(from)),
         NEW messages, messages = fetchHistory(from), messages # None,
         messages # <<>> => ToSet(messages) \subseteq got',
         from = Beginning => 1..(Low - 1) \subseteq excused',
         from = Now => 1..last \subseteq excused'
  PROVE  UpTo(last)'
PROOF
  <1>1. last \in Nat
    BY DEF StreamInvariant, StreamTypes
  <1>2. CASE from = Now
    BY <1>2 DEF UpTo
  <1>3. CASE from # Now
    <2>1. PICK k : k = DecodeOffset(from)
      OBVIOUS
    <2>2. UpTo(k)'
      BY <2>1, UpToGrows
    <2>3. k \in Nat
      BY <1>1, <1>3, <2>1 DEF DecodeOffset
    <2>4. ASSUME NEW m \in 1..last PROVE m \in (got \cup excused \cup raced)'
      <3>1. CASE m \in ToSet(messages) /\ messages # <<>>
        BY <3>1
      <3>2. CASE m <= k
        BY <2>2, <2>3, <3>2 DEF UpTo
      <3>3. CASE from = Beginning /\ m \in 1..(Low - 1)
        BY <3>3
      <3>4. messages = <<>> => k = last
        BY <1>1, <1>3, <2>1, HistoryIs
      <3>5. \/ m \in ToSet(messages) \/ m <= k
            \/ from = Beginning /\ m \in 1..(Low - 1)
        BY <1>1, <1>3, <2>1, HistoryIs
      <3> QED
        BY <1>1, <3>1, <3>2, <3>3, <3>4, <3>5
    <2> QED
      BY <2>4 DEF UpTo
  <1> QED
    BY <1>2, <1>3

(* A request that has seen the end of the stream.                          *)
LEMMA SeenIs ==
  ASSUME NEW rec \in RequestRecords, last \in Nat
  PROVE  /\ Seen(rec) \in RequestRecords
         /\ Seen(rec).pc = "subscribe" /\ Seen(rec).seen = last
         /\ Seen(rec).queue = rec.queue /\ Seen(rec).subscribed = rec.subscribed
         /\ Seen(rec).done = rec.done /\ Seen(rec).gone = rec.gone
         /\ Seen(rec).aborted = rec.aborted
PROOF
  BY DEF Seen, RequestRecords, Handling

(* A request that has read the history and goes on to subscribe.           *)
LEMMA SeenIsServed ==
  ASSUME NEW old \in RequestRecords, old.pc = "history", Served(old),
         NEW new, new.pc = "subscribe", new.seen = last, new.queue = old.queue,
         new.subscribed = old.subscribed, new.done = old.done, new.gone = old.gone,
         last \in Nat, last' = last, UpTo(last)'
  PROVE  Served(new)'
PROOF
  BY DEF Served

(* What a request cannot get, by the offset that it starts from.           *)
LEMMA UnreachableIs ==
  ASSUME NEW r \in Requests
  PROVE  /\ req[r].from = Beginning => Unreachable(r) = 1..(Low - 1)
         /\ req[r].from = Now /\ req[r].mode # "catch-up" => Unreachable(r) = 1..last
PROOF
  BY DurableStreamsAssumption DEF Unreachable

(* A step of one request that moves the client to a position it has        *)
(* everything up to.                                                       *)
LEMMA RequestAnswers ==
  ASSUME StreamInvariant, NEW r \in Requests, NEW rec \in RequestRecords,
         req' = [req EXCEPT ![r] = rec],
         UNCHANGED <<last, flight, cur>>, Grows,
         r = cur, NEW k \in 0..last, client' = EncodeOffset(k), UpTo(k)', Served(rec)'
  PROVE  StreamInvariant'
PROOF
  <1>1. last \in Nat
    BY DEF StreamInvariant, StreamTypes
  <1>2. PICK position : position = EncodeOffset(k)
    OBVIOUS
  <1>3. position \in {Beginning, Now} \cup 1..last
    BY <1>1, <1>2 DEF EncodeOffset
  <1>4. DecodeOffset(position) = k
    BY <1>1, <1>2, NumbersAreOffsets DEF DecodeOffset, EncodeOffset
  <1>5. UpTo(DecodeOffset(client))'
    BY <1>2, <1>4 DEF DecodeOffset
  <1> QED
    BY <1>2, <1>3, <1>5, RequestMoves

(* A request is answered from the history.                                 *)
LEMMA HistoryAnswers ==
  ASSUME StreamInvariant, NEW r \in Requests, handleHTTP(r)
  PROVE  StreamInvariant'
PROOF
  <1>1. PICK old \in RequestRecords : old = req[r]
    BY RequestIs
  <1>2. PICK messages : messages = fetchHistory(old.from)
    OBVIOUS
  <1>3. PICK tail : tail = IF messages = <<>> THEN old.tail ELSE Last(messages)
    OBVIOUS
  <1>4. /\ old.pc = "history" /\ excused' = excused \cup Unreachable(r)
        /\ UNCHANGED <<last, flight, cur, raced>>
    BY <1>1 DEF handleHTTP
  <1>5. \/ /\ req' = [req EXCEPT ![r] = Return(Close(@, 410))]
           /\ UNCHANGED <<got, client>>
        \/ /\ messages # None
           /\ messages # <<>> \/ old.mode # "long-poll"
           /\ req' = [req EXCEPT ![r] = Return(Close(@, 200))]
           /\ IF r = cur /\ ~old.aborted
              THEN got' = got \cup ToSet(messages) /\ client' = EncodeOffset(tail)
              ELSE UNCHANGED <<got, client>>
        \/ /\ messages = <<>>
           /\ old.mode = "long-poll"
           /\ req' = [req EXCEPT ![r] = Seen(@)]
           /\ UNCHANGED <<got, client>>
    BY <1>1, <1>2, <1>3 DEF handleHTTP, Receive
  <1>6. last \in Nat /\ UpTo(DecodeOffset(client)) /\ client \in {Beginning, Now} \cup 1..last
    BY DEF StreamInvariant, StreamTypes
  <1>7. r = cur /\ ~old.aborted =>
          /\ Served(old) /\ old.from = client /\ old.tail <= last
          /\ old.from = Now => UpTo(old.tail)
    BY <1>1, <1>4, RequestIs DEF Served
  <1>8. /\ old.from = Beginning => 1..(Low - 1) \subseteq excused'
        /\ old.from = Now /\ old.mode # "catch-up" => 1..last \subseteq excused'
    BY <1>1, <1>4, UnreachableIs
  <1>9. CASE req' = [req EXCEPT ![r] = Return(Close(@, 410))] /\ UNCHANGED <<got, client>>
    <2>1. Grows
      BY <1>4, <1>9 DEF Grows
    <2>2. PICK new \in RequestRecords : new = Return(Close(old, 410))
      BY ClosedIsServed
    <2>3. req' = [req EXCEPT ![r] = new] /\ Served(new)'
      BY <1>1, <1>9, <2>2, ClosedIsServed
    <2> QED
      BY <1>4, <1>9, <2>1, <2>3, RequestMovesAlone
  <1>10. CASE /\ messages # None
              /\ messages # <<>> \/ old.mode # "long-poll"
              /\ req' = [req EXCEPT ![r] = Return(Close(@, 200))]
              /\ IF r = cur /\ ~old.aborted
                 THEN got' = got \cup ToSet(messages) /\ client' = EncodeOffset(tail)
                 ELSE UNCHANGED <<got, client>>
    <2>1. PICK new \in RequestRecords : new = Return(Close(old, 200))
      BY ClosedIsServed
    <2>2. req' = [req EXCEPT ![r] = new] /\ Served(new)'
      BY <1>1, <1>10, <2>1, ClosedIsServed
    <2>3. CASE r = cur /\ ~old.aborted
      <3>1. client' = EncodeOffset(tail) /\ got' = got \cup ToSet(messages)
        BY <1>10, <2>3
      <3>2. Grows
        BY <1>4, <3>1 DEF Grows
      <3>3. tail \in 0..last /\ UpTo(tail)'
        <4>1. CASE messages # <<>>
          <5>1. old.from # Now /\ Last(messages) = last
            BY <1>2, <1>6, <1>7, <1>10, <2>3, <4>1, HistoryIs
          <5>2. UpTo(last)'
            BY <1>2, <1>4, <1>6, <1>7, <1>8, <1>10, <2>3, <3>1, <3>2, <4>1, <5>1, HistoryIsEnough
          <5> QED
            BY <1>3, <1>4, <1>6, <4>1, <5>1, <5>2
        <4>2. CASE messages = <<>>
          <5>1. tail = old.tail /\ old.tail \in Nat
            BY <1>3, <4>2 DEF RequestRecords
          <5>2. old.from # Now => DecodeOffset(old.from) = last
            BY <1>2, <1>6, <1>7, <1>10, <2>3, <4>2, HistoryIs
          <5>3. old.from # Now => UpTo(last)
            BY <1>6, <1>7, <2>3, <5>2
          <5>4. UpTo(last) => UpTo(tail)
            BY <1>6, <1>7, <2>3, <5>1 DEF UpTo
          <5>5. UpTo(tail)
            BY <1>7, <2>3, <5>1, <5>3, <5>4
          <5> QED
            BY <1>6, <1>7, <2>3, <3>2, <5>1, <5>5, UpToGrows
        <4> QED
          BY <4>1, <4>2
      <3> QED
        BY <1>4, <2>2, <2>3, <3>1, <3>2, <3>3, RequestAnswers
    <2>4. CASE ~(r = cur /\ ~old.aborted)
      <3>1. UNCHANGED <<got, client>>
        BY <1>10, <2>4
      <3>2. Grows
        BY <1>4, <3>1 DEF Grows
      <3> QED
        BY <1>4, <2>2, <3>1, <3>2, RequestMovesAlone
    <2> QED
      BY <2>3, <2>4
  <1>11. CASE /\ messages = <<>>
              /\ old.mode = "long-poll"
              /\ req' = [req EXCEPT ![r] = Seen(@)]
              /\ UNCHANGED <<got, client>>
    <2>1. Grows
      BY <1>4, <1>11 DEF Grows
    <2>2. PICK new \in RequestRecords : new = Seen(old)
      BY <1>6, SeenIs
    <2>3. req' = [req EXCEPT ![r] = new] /\ new.aborted = old.aborted
      BY <1>1, <1>6, <1>11, <2>2, SeenIs
    <2>4. ASSUME r = cur, ~new.aborted PROVE Served(new)'
      <3>1. messages # None
        BY <1>11, NumbersAreOffsets
      <3>2. UpTo(last)'
        BY <1>2, <1>4, <1>6, <1>7, <1>8, <1>11, <2>1, <2>3, <2>4, <3>1, HistoryIsEnough
      <3>3. /\ new.pc = "subscribe" /\ new.seen = last /\ new.queue = old.queue
            /\ new.subscribed = old.subscribed /\ new.done = old.done /\ new.gone = old.gone
        BY <1>6, <2>2, SeenIs
      <3> QED
        BY <1>4, <1>6, <1>7, <2>3, <2>4, <3>2, <3>3, SeenIsServed
    <2> QED
      BY <1>4, <1>11, <2>1, <2>3, <2>4, RequestMovesAlone
  <1> QED
    BY <1>5, <1>9, <1>10, <1>11

(* A request streams the history before what comes.                        *)
LEMMA HistoryStreams ==
  ASSUME StreamInvariant, NEW r \in Requests, handleSSE(r)
  PROVE  StreamInvariant'
PROOF
  <1>1. PICK old \in RequestRecords : old = req[r]
    BY RequestIs
  <1>2. PICK messages : messages = fetchHistory(old.from)
    OBVIOUS
  <1>3. /\ old.pc = "history" /\ old.mode # "catch-up"
        /\ excused' = excused \cup Unreachable(r)
        /\ UNCHANGED <<last, flight, cur, raced>>
    BY <1>1 DEF handleSSE
  <1>4. \/ /\ req' = [req EXCEPT ![r] = Return(Close(@, 410))]
           /\ UNCHANGED <<got, client>>
        \/ /\ messages # None
           /\ req' = [req EXCEPT ![r] = [Seen(@) EXCEPT !.status = 200]]
           /\ IF messages # <<>> /\ r = cur /\ ~old.aborted
              THEN got' = got \cup ToSet(messages) /\ client' = EncodeOffset(Last(messages))
              ELSE UNCHANGED <<got, client>>
    BY <1>1, <1>2 DEF handleSSE, Receive
  <1>5. last \in Nat /\ UpTo(DecodeOffset(client)) /\ client \in {Beginning, Now} \cup 1..last
    BY DEF StreamInvariant, StreamTypes
  <1>6. r = cur /\ ~old.aborted => Served(old) /\ old.from = client
    BY <1>1, <1>3, RequestIs DEF Served
  <1>7. /\ old.from = Beginning => 1..(Low - 1) \subseteq excused'
        /\ old.from = Now => 1..last \subseteq excused'
    BY <1>1, <1>3, UnreachableIs
  <1>8. CASE req' = [req EXCEPT ![r] = Return(Close(@, 410))] /\ UNCHANGED <<got, client>>
    <2>1. Grows
      BY <1>3, <1>8 DEF Grows
    <2>2. PICK new \in RequestRecords : new = Return(Close(old, 410))
      BY ClosedIsServed
    <2>3. req' = [req EXCEPT ![r] = new] /\ Served(new)'
      BY <1>1, <1>8, <2>2, ClosedIsServed
    <2> QED
      BY ZenonT(60), <1>3, <1>8, <2>1, <2>3, RequestMovesAlone
  <1>9. CASE /\ messages # None
             /\ req' = [req EXCEPT ![r] = [Seen(@) EXCEPT !.status = 200]]
             /\ IF messages # <<>> /\ r = cur /\ ~old.aborted
                THEN got' = got \cup ToSet(messages) /\ client' = EncodeOffset(Last(messages))
                ELSE UNCHANGED <<got, client>>
    <2>1. Grows
      BY <1>3, <1>9 DEF Grows
    <2>2. PICK read \in RequestRecords : read = Seen(old)
      BY <1>5, SeenIs
    <2>3. PICK new : new = [read EXCEPT !.status = 200]
      OBVIOUS
    <2>4. req' = [req EXCEPT ![r] = new]
      BY <1>1, <1>9, <2>2, <2>3
    <2>5. /\ read.pc = "subscribe" /\ read.seen = last /\ read.queue = old.queue
          /\ read.subscribed = old.subscribed /\ read.done = old.done /\ read.gone = old.gone
          /\ read.aborted = old.aborted
      BY <1>5, <2>2, SeenIs
    <2>6. new \in RequestRecords
      <3>1. PICK code \in Nat : code = 200
        OBVIOUS
      <3>2. new = [read EXCEPT !.status = code]
        BY <2>3, <3>1
      <3> QED
        BY <3>2 DEF RequestRecords
    <2>7. /\ new.pc = read.pc /\ new.seen = read.seen
          /\ new.queue = read.queue /\ new.subscribed = read.subscribed
          /\ new.done = read.done /\ new.gone = read.gone /\ new.aborted = read.aborted
      BY <2>3 DEF RequestRecords
    <2>8. CASE r = cur /\ ~old.aborted
      <3>1. UpTo(last)'
        BY <1>2, <1>3, <1>5, <1>6, <1>7, <1>9, <2>1, <2>8, HistoryIsEnough
      <3>2. Served(new)'
        BY <1>3, <1>5, <1>6, <2>5, <2>6, <2>7, <2>8, <3>1, SeenIsServed
      <3>3. CASE messages = <<>>
        BY ZenonT(60), <1>3, <1>9, <2>1, <2>4, <2>6, <2>7, <3>2, <3>3, RequestMovesAlone
      <3>4. CASE messages # <<>>
        <4>1. Last(messages) = last
          BY <1>2, <1>5, <1>6, <1>9, <2>8, <3>4, HistoryIs
        <4>2. client' = EncodeOffset(last) /\ last \in 0..last
          BY <1>5, <1>9, <2>8, <3>4, <4>1
        <4> QED
          BY <1>3, <2>1, <2>4, <2>6, <2>7, <2>8, <3>1, <3>2, <4>2, RequestAnswers
      <3> QED
        BY <3>3, <3>4
    <2>9. CASE ~(r = cur /\ ~old.aborted)
      <3>1. client' = client /\ ~(r = cur /\ ~new.aborted)
        BY <1>9, <2>5, <2>6, <2>7, <2>9
      <3> QED
        BY <1>3, <2>1, <2>4, <2>6, <2>7, <3>1, RequestMovesAlone
    <2> QED
      BY <2>8, <2>9
  <1> QED
    BY <1>4, <1>8, <1>9

(* A request subscribes its session.                                       *)
LEMMA RequestSubscribes ==
  ASSUME StreamInvariant, NEW r \in Requests, Subscribe(r)
  PROVE  StreamInvariant'
PROOF
  <1>1. PICK old \in RequestRecords : old = req[r]
    BY RequestIs
  <1>2. old.pc = "subscribe" /\ UNCHANGED <<last, flight, cur, client, got, excused>>
    BY <1>1 DEF Subscribe
  <1>3. r = cur /\ ~old.aborted =>
          /\ Served(old) /\ old.queue = <<>> /\ UpTo(old.seen)
          /\ old.gone => old.done
    BY <1>1, <1>2, RequestIs DEF Served
  <1>4. /\ last \in Nat /\ old.seen \in Nat /\ Len(flight) \in Nat /\ Len(flight) <= last
    BY DEF StreamInvariant, StreamTypes, RequestRecords
  <1>5. CASE /\ req' = [req EXCEPT ![r].pc = "wait", ![r].seen = 0, ![r].subscribed = TRUE]
             /\ raced' = raced \cup (req[r].seen + 1)..last
    <2>1. Grows
      BY <1>2, <1>5 DEF Grows
    <2>2. PICK new : new = [old EXCEPT !.pc = "wait", !.seen = 0, !.subscribed = TRUE]
      OBVIOUS
    <2>3. req' = [req EXCEPT ![r] = new]
      BY <1>1, <1>5, <2>2 DEF StreamInvariant, StreamTypes
    <2>4. new \in RequestRecords
      BY <2>2, FlagsAre DEF RequestRecords, Handling
    <2>5. /\ new.pc = "wait" /\ new.subscribed
          /\ new.queue = old.queue /\ new.gone = old.gone /\ new.done = old.done
          /\ new.aborted = old.aborted
      BY <2>2 DEF RequestRecords
    <2>6. ASSUME r = cur, ~new.aborted PROVE Served(new)'
      <3>1. \A m \in 1..last : m <= old.seen \/ m \in raced'
        BY <1>1, <1>4, <1>5
      <3>2. UpTo(old.seen)'
        BY <1>3, <2>1, <2>5, <2>6, UpToGrows
      <3>3. \A m \in 1..last : m \in (got \cup excused \cup raced)'
        BY <1>4, <3>1, <3>2 DEF UpTo
      <3>4. PICK d \in 0..last : d = Delivered'
        BY <1>2, <1>4 DEF Delivered
      <3>5. UpTo(d)'
        BY <1>4, <3>3, <3>4 DEF UpTo
      <3>6. Len(new.queue) = 0 /\ d - 0 = d
        <4>1. ~old.aborted
          BY <2>5, <2>6
        <4>2. new.queue = <<>>
          BY <1>3, <2>5, <2>6, <4>1
        <4>3. Len(new.queue) = 0
          BY <4>2
        <4>4. d \in Int
          BY <1>4, <3>4
        <4> QED
          BY <4>3, <4>4
      <3>7. Follows(new)'
        BY <1>4, <3>4, <3>5, <3>6 DEF Follows
      <3> QED
        BY <1>3, <2>5, <2>6, <3>7 DEF Served
    <2> QED
      BY <1>2, <2>1, <2>3, <2>4, <2>6, RequestMovesAlone
  <1>6. CASE /\ req' = [req EXCEPT ![r] = Return(IF @.mode = "sse" THEN @ ELSE Close(@, 500))]
             /\ UNCHANGED raced
    <2>1. Grows
      BY <1>2, <1>6 DEF Grows
    <2>2. CASE old.mode = "sse"
      <3>1. PICK new \in RequestRecords : new = Return(old)
        BY ReturnIs
      <3>2. req' = [req EXCEPT ![r] = new]
        BY <1>1, <1>6, <2>2, <3>1
      <3>3. new.aborted = old.aborted
        BY <3>1, ReturnIs
      <3>4. r = cur /\ ~new.aborted => Served(new)'
        BY <1>3, <3>1, <3>3, ReturnedIsServed
      <3> QED
        BY <1>2, <2>1, <3>2, <3>4, RequestMovesAlone
    <2>3. CASE old.mode # "sse"
      <3>1. PICK new \in RequestRecords : new = Return(Close(old, 500))
        BY ClosedIsServed
      <3>2. req' = [req EXCEPT ![r] = new]
        BY <1>1, <1>6, <2>3, <3>1
      <3>3. Served(new)'
        BY <3>1, ClosedIsServed
      <3> QED
        BY <1>2, <2>1, <3>2, <3>3, RequestMovesAlone
    <2> QED
      BY <2>2, <2>3
  <1> QED
    BY <1>5, <1>6 DEF Subscribe

(* The session of a request that the client waits for writes the next      *)
(* message that the hub has delivered.                                     *)
LEMMA FrameIsNext ==
  ASSUME StreamInvariant, NEW old \in RequestRecords, Follows(old), old.queue # <<>>,
         NEW rec \in RequestRecords, rec.queue = Tail(old.queue),
         UNCHANGED <<last, flight, excused, raced>>,
         NEW frame, frame = Head(old.queue), got' = got \cup {frame}
  PROVE  frame \in 0..last /\ UpTo(frame)' /\ Follows(rec)'
PROOF
  <1>1. PICK d \in Nat : d = Delivered /\ d = Delivered' /\ d <= last /\ last \in Nat
    BY DEF StreamInvariant, StreamTypes, Delivered
  <1>2. old.queue \in Seq(Nat \cup {CloseFrame})
    BY DEF RequestRecords
  <1>3. PICK n \in Nat : n = Len(old.queue) /\ n > 0
    BY <1>2
  <1>4. /\ n <= d /\ UpTo(d - n)
        /\ \A i \in 1..n : old.queue[i] = d - n + i
    BY <1>1, <1>3 DEF Follows
  <1>5. frame = d - n + 1
    <2>1. frame = old.queue[1]
      BY <1>2
    <2>2. 1 \in 1..n
      BY <1>3
    <2> QED
      BY <1>4, <2>1, <2>2
  <1>6. UpTo(frame)'
    BY <1>1, <1>3, <1>4, <1>5 DEF UpTo
  <1>7. /\ Len(rec.queue) = n - 1
        /\ \A i \in 1..(n - 1) : rec.queue[i] = old.queue[i + 1]
    BY <1>2, <1>3
  <1>8. \A i \in 1..(n - 1) : rec.queue[i] = d - (n - 1) + i
    <2>1. \A i \in 1..(n - 1) : i + 1 \in 1..n /\ d - n + (i + 1) = d - (n - 1) + i
      BY <1>1, <1>3
    <2> QED
      BY <1>4, <1>7, <2>1
  <1>9. n - 1 <= d /\ d - (n - 1) = frame /\ frame \in 0..last
    BY SMTT(30), <1>1, <1>3, <1>4, <1>5
  <1> QED
    BY <1>1, <1>6, <1>7, <1>8, <1>9 DEF Follows

(* A session writes what the hub sent it.                                  *)
LEMMA SessionWrites ==
  ASSUME StreamInvariant, NEW r \in Requests, Write(r)
  PROVE  StreamInvariant'
PROOF
  <1>1. PICK old \in RequestRecords : old = req[r]
    BY RequestIs
  <1>2. PICK frame : frame = Head(old.queue)
    OBVIOUS
  <1>3. PICK rec : rec = [old EXCEPT !.queue = Tail(old.queue)]
    OBVIOUS
  <1>4. old.queue # <<>> /\ UNCHANGED <<last, flight, cur, excused, raced>>
    BY <1>1 DEF Write
  <1>5. \/ frame = CloseFrame /\ req' = [req EXCEPT ![r] = Ended(rec)] /\ UNCHANGED <<got, client>>
        \/ rec.done /\ req' = [req EXCEPT ![r] = rec] /\ UNCHANGED <<got, client>>
        \/ /\ ~rec.done
           /\ req' = [req EXCEPT ![r] = IF rec.mode = "long-poll" THEN Close(rec, 200) ELSE rec]
           /\ IF r = cur /\ ~old.aborted
              THEN got' = got \cup ToSet(<<frame>>) /\ client' = EncodeOffset(frame)
              ELSE UNCHANGED <<got, client>>
    BY <1>1, <1>2, <1>3 DEF Write, Receive
  <1>6. rec \in RequestRecords
    <2>1. Tail(old.queue) \in Seq(Nat \cup {CloseFrame})
      BY <1>4 DEF RequestRecords
    <2> QED
      BY <1>3, <2>1 DEF RequestRecords
  <1>7. /\ rec.queue = Tail(old.queue) /\ rec.pc = old.pc /\ rec.done = old.done
        /\ rec.gone = old.gone /\ rec.subscribed = old.subscribed /\ rec.aborted = old.aborted
    BY <1>3 DEF RequestRecords
  <1>8. r = cur /\ ~old.aborted =>
          /\ Served(old) /\ (old.gone => old.done)
          /\ old.pc \in {"wait", "new", "returned"}
          /\ old.pc \in {"new", "returned"} => old.done
    BY <1>1, <1>4, RequestIs DEF Served, RequestRecords, Handling
  <1>9. CASE frame = CloseFrame /\ req' = [req EXCEPT ![r] = Ended(rec)] /\ UNCHANGED <<got, client>>
    <2>1. Grows
      BY <1>4, <1>9 DEF Grows
    <2>2. PICK new \in RequestRecords : new = Ended(rec)
      BY <1>6, EndedIs
    <2>3. new.pc = "returned" /\ new.queue = <<>> /\ ~new.subscribed /\ ~new.gone
      BY <1>6, <2>2, EndedIs
    <2>4. Served(new)'
      BY <2>3 DEF Served
    <2> QED
      BY <1>4, <1>9, <2>1, <2>2, <2>4, RequestMovesAlone
  <1>10. CASE rec.done /\ req' = [req EXCEPT ![r] = rec] /\ UNCHANGED <<got, client>>
    <2>1. Grows
      BY <1>4, <1>10 DEF Grows
    <2>2. r = cur /\ ~rec.aborted => Served(rec)'
      BY <1>7, <1>8, <1>10 DEF Served
    <2> QED
      BY <1>4, <1>6, <1>10, <2>1, <2>2, RequestMovesAlone
  <1>11. CASE /\ ~rec.done
              /\ req' = [req EXCEPT ![r] = IF rec.mode = "long-poll" THEN Close(rec, 200) ELSE rec]
              /\ IF r = cur /\ ~old.aborted
                 THEN got' = got \cup ToSet(<<frame>>) /\ client' = EncodeOffset(frame)
                 ELSE UNCHANGED <<got, client>>
    <2>1. Grows
      BY <1>4, <1>11 DEF Grows
    <2>2. PICK new : new = IF rec.mode = "long-poll" THEN Close(rec, 200) ELSE rec
      OBVIOUS
    <2>3. new = rec \/ new = Close(rec, 200)
      BY <2>2
    <2>4. /\ new \in RequestRecords /\ new.pc = rec.pc /\ new.queue = rec.queue
          /\ new.subscribed = rec.subscribed /\ new.aborted = rec.aborted
          /\ new = rec \/ new.done
      BY <1>6, <2>3, CloseIs
    <2>5. req' = [req EXCEPT ![r] = new]
      BY <1>11, <2>2
    <2>6. CASE r = cur /\ ~old.aborted
      <3>1. old.pc = "wait" /\ Follows(old) /\ old.subscribed /\ (old.gone => old.done)
        BY <1>7, <1>8, <1>11, <2>6 DEF Served
      <3>2. got' = got \cup {frame} /\ client' = EncodeOffset(frame)
        <4>1. ToSet(<<frame>>) = {frame}
          BY DEF ToSet
        <4> QED
          BY <1>11, <2>6, <4>1
      <3>3. frame \in 0..last /\ UpTo(frame)' /\ Follows(rec)'
        BY <1>2, <1>4, <1>6, <1>7, <3>1, <3>2, FrameIsNext
      <3>4. Served(new)'
        <4>1. CASE new = rec
          BY <1>7, <3>1, <3>3, <4>1 DEF Served
        <4>2. CASE new.done
          BY <1>7, <2>4, <3>1, <4>2 DEF Served
        <4> QED
          BY <2>4, <4>1, <4>2
      <3> QED
        BY <1>4, <2>1, <2>4, <2>5, <2>6, <3>2, <3>3, <3>4, RequestAnswers
    <2>7. CASE ~(r = cur /\ ~old.aborted)
      <3>1. client' = client /\ ~(r = cur /\ ~new.aborted)
        BY <1>7, <1>11, <2>4, <2>7
      <3> QED
        BY <1>4, <2>1, <2>4, <2>5, <3>1, RequestMovesAlone
    <2> QED
      BY <2>6, <2>7
  <1> QED
    BY <1>5, <1>9, <1>10, <1>11

(* A request wakes up, or its client goes.                                 *)
LEMMA RequestWakes ==
  ASSUME StreamInvariant, NEW r \in Requests, Wakes(r) \/ WakesSSE(r) \/ Abort(r)
  PROVE  StreamInvariant'
PROOF
  <1>1. PICK old \in RequestRecords : old = req[r]
    BY RequestIs
  <1>2. UNCHANGED <<last, flight, cur, client, got, excused, raced>>
    BY DEF Wakes, WakesSSE, Abort
  <1>3. Grows
    BY <1>2 DEF Grows
  <1>4. r = cur /\ ~old.aborted => Served(old) /\ (old.gone => old.done)
    BY <1>1, RequestIs DEF Served
  <1>5. \/ old.pc = "wait" /\ req' = [req EXCEPT ![r] = Close(@, 410)]
        \/ \E code \in {200, 204} : req' = [req EXCEPT ![r] = Return(Close(@, code))]
        \/ (old.aborted \/ old.gone) /\ req' = [req EXCEPT ![r] = Return(@)]
        \/ req' = [req EXCEPT ![r].aborted = TRUE]
    BY <1>1 DEF Wakes, WakesSSE, Abort
  <1>6. CASE old.pc = "wait" /\ req' = [req EXCEPT ![r] = Close(@, 410)]
    <2>1. PICK new \in RequestRecords : new = Close(old, 410)
      BY CloseIs
    <2>2. /\ new.done /\ new.pc = old.pc /\ new.queue = old.queue
          /\ new.subscribed = old.subscribed /\ new.aborted = old.aborted
      BY <2>1, CloseIs
    <2>3. r = cur /\ ~new.aborted => Served(new)'
      BY <1>4, <1>6, <2>2 DEF Served
    <2>4. req' = [req EXCEPT ![r] = new]
      BY <1>1, <1>6, <2>1
    <2> QED
      BY <1>2, <1>3, <2>3, <2>4, RequestMovesAlone
  <1>7. ASSUME NEW code \in {200, 204}, req' = [req EXCEPT ![r] = Return(Close(@, code))]
        PROVE  StreamInvariant'
    <2>1. PICK new \in RequestRecords : new = Return(Close(old, code))
      BY ClosedIsServed
    <2>2. req' = [req EXCEPT ![r] = new] /\ Served(new)'
      BY <1>1, <1>7, <2>1, ClosedIsServed
    <2> QED
      BY <1>2, <1>3, <2>2, RequestMovesAlone
  <1>8. CASE (old.aborted \/ old.gone) /\ req' = [req EXCEPT ![r] = Return(@)]
    <2>1. PICK new \in RequestRecords : new = Return(old)
      BY ReturnIs
    <2>2. req' = [req EXCEPT ![r] = new] /\ new.aborted = old.aborted
      BY <1>1, <1>8, <2>1, ReturnIs
    <2>3. r = cur /\ ~new.aborted => Served(new)'
      BY <1>4, <1>8, <2>1, <2>2, ReturnedIsServed
    <2> QED
      BY <1>2, <1>3, <2>2, <2>3, RequestMovesAlone
  <1>9. CASE req' = [req EXCEPT ![r].aborted = TRUE]
    <2>1. PICK new : new = [old EXCEPT !.aborted = TRUE]
      OBVIOUS
    <2>2. new \in RequestRecords
      BY <2>1, FlagsAre DEF RequestRecords
    <2>3. new.aborted
      BY <2>1 DEF RequestRecords
    <2>4. req' = [req EXCEPT ![r] = new]
      BY <1>1, <1>9, <2>1 DEF StreamInvariant, StreamTypes
    <2> QED
      BY <1>2, <1>3, <2>2, <2>3, <2>4, RequestMovesAlone
  <1> QED
    BY <1>5, <1>6, <1>7, <1>8, <1>9

(* Every step of the durable streams keeps the invariant.                  *)
LEMMA StreamStep == StreamInvariant /\ [Next]_vars => StreamInvariant'
PROOF
  <1> SUFFICES ASSUME StreamInvariant, [Next]_vars PROVE StreamInvariant'
    OBVIOUS
  <1>1. CASE Publish
    BY <1>1, StreamPublishes
  <1>2. CASE HubDelivers
    BY <1>2, HubReaches
  <1>3. CASE ShutdownStarts \/ UNCHANGED vars
    BY <1>3, StreamShutsDown
  <1>4. ASSUME NEW r \in Requests, NEW mode \in Modes, NEW from \in Resume,
               DSHandler(r, mode, from)
        PROVE  StreamInvariant'
    BY <1>4, RequestStarts
  <1>5. ASSUME NEW r \in Requests, Peak(r) \/ handleHTTP(r) \/ handleSSE(r) \/ Subscribe(r)
        PROVE  StreamInvariant'
    BY <1>5, RequestPeaks, HistoryAnswers, HistoryStreams, RequestSubscribes
  <1>6. ASSUME NEW r \in Requests, Write(r) \/ Wakes(r) \/ WakesSSE(r) \/ Abort(r)
        PROVE  StreamInvariant'
    BY <1>6, SessionWrites, RequestWakes
  <1> QED
    BY <1>1, <1>2, <1>3, <1>4, <1>5, <1>6 DEF Next

(* The invariant of the durable streams holds at the start.                *)
LEMMA StreamStarts == Init => StreamInvariant
PROOF
  <1> SUFFICES ASSUME Init PROVE StreamInvariant
    OBVIOUS
  <1>1. StreamTypes
    BY NoRequestIs, DurableStreamsAssumption DEF Init, StreamTypes
  <1>2. UpTo(DecodeOffset(client))
    BY DEF Init, UpTo, DecodeOffset
  <1>3. \A r \in Requests : r # cur
    BY DEF Init, Requests
  <1> QED
    BY <1>1, <1>2, <1>3 DEF StreamInvariant

(* For any number of messages and requests and any history: a client that  *)
(* always goes on from the offset it was given has got every message       *)
(* before it, but for the ones that were gone, that came before its Now,   *)
(* or that were published between fetchHistory and Subscribe.              *)
THEOREM ClientsSkipOnlyRaced == MCSpec => []SkipsOnlyRaced
PROOF
  <1>1. StreamInvariant /\ [MCNext]_all => StreamInvariant'
    BY OnePartMoves, StreamStep
  <1>2. StreamInvariant => SkipsOnlyRaced
    BY DEF StreamInvariant, UpTo, SkipsOnlyRaced
  <1>3. MCInit => StreamInvariant
    BY StreamStarts DEF MCInit
  <1> QED
    BY <1>1, <1>2, <1>3, PTL DEF MCSpec, all

-----------------------------------------------------------------------------
(* The history of the NATS broker.                                         *)

(* A sequence of offsets without a hole after the first h.                 *)
NoHole(q, h) == \A i \in (h + 1) .. Len(q) : q[i] = q[h + 1] + i - (h + 1)

(* What the local broker has of a stream whose last offset is l: a hole is *)
(* followed by offsets that will fill the broker before they reach l.      *)
Copied(q, l) ==
  /\ q \in Seq(Nat) /\ Len(q) <= HistoryLimit
  /\ \A i \in 1 .. Len(q) : 1 <= q[i] /\ q[i] <= l
  /\ \E h \in 0 .. Len(q) :
       NoHole(q, h) /\ (h > 0 => h < Len(q) /\ l - q[h + 1] + 1 >= HistoryLimit)

(* Offsets that reach the last one have no hole.                           *)
LEMMA CopiedAll ==
  ASSUME NEW l \in Nat, NEW q, Copied(q, l), q = <<>> \/ q[Len(q)] >= l
  PROVE  NoHole(q, 0)
PROOF
  <1>1. q \in Seq(Nat) /\ Len(q) \in Nat /\ Len(q) <= HistoryLimit /\ HistoryLimit \in Nat
    BY DurableStreamsAssumption DEF Copied
  <1>2. CASE Len(q) = 0
    BY <1>2 DEF NoHole
  <1>3. CASE Len(q) > 0
    <2>1. q[Len(q)] = l
      BY <1>1, <1>3 DEF Copied
    <2>2. PICK h \in 0 .. Len(q) :
            NoHole(q, h) /\ (h > 0 => h < Len(q) /\ l - q[h + 1] + 1 >= HistoryLimit)
      BY DEF Copied
    <2>3. ASSUME h > 0 PROVE FALSE
      <3>1. h < Len(q) /\ l - q[h + 1] + 1 >= HistoryLimit
        BY <2>2, <2>3
      <3>2. q[Len(q)] = q[h + 1] + Len(q) - (h + 1)
        BY <1>1, <2>2, <3>1 DEF NoHole
      <3>3. q[h + 1] \in Nat
        BY <1>1, <3>1
      <3>4. \A n, k, x, limit, m \in Nat :
               n <= limit /\ k < n /\ k > 0 /\ m - x + 1 >= limit => m # x + n - (k + 1)
        OBVIOUS
      <3>5. h \in Nat
        BY <1>1
      <3> QED
        BY ONLY <1>1, <2>1, <2>3, <3>1, <3>2, <3>3, <3>4, <3>5, l \in Nat, Zenon
    <2>4. h = 0
      BY <1>1, <2>3
    <2> QED
      BY <2>2, <2>4
  <1> QED
    BY <1>1, <1>2, <1>3

(* More is published.                                                      *)
LEMMA CopiedMore ==
  ASSUME NEW l \in Nat, NEW q, Copied(q, l)
  PROVE  Copied(q, l + 1)
PROOF
  <1>1. q \in Seq(Nat) /\ Len(q) \in Nat /\ HistoryLimit \in Nat
    BY DurableStreamsAssumption DEF Copied
  <1>2. PICK h \in 0 .. Len(q) :
          NoHole(q, h) /\ (h > 0 => h < Len(q) /\ l - q[h + 1] + 1 >= HistoryLimit)
    BY DEF Copied
  <1>3. h > 0 => h < Len(q) /\ (l + 1) - q[h + 1] + 1 >= HistoryLimit
    <2>1. h > 0 => q[h + 1] \in Nat
      BY <1>1, <1>2
    <2> QED
      BY SMTT(30), <1>1, <1>2, <2>1
  <1>4. \A i \in 1 .. Len(q) : 1 <= q[i] /\ q[i] <= l + 1
    BY <1>1 DEF Copied
  <1> QED
    BY <1>1, <1>2, <1>3, <1>4 DEF Copied

(* The next offset, or the first one that is left, at the end.             *)
LEMMA CopiedAppend ==
  ASSUME NEW l \in Nat, NEW q, Copied(q, l), NEW o \in 1 .. l,
         q # <<>> => q[Len(q)] < o,
         \/ q # <<>> /\ o = q[Len(q)] + 1
         \/ q = <<>>
         \/ l - o + 1 >= HistoryLimit
  PROVE  /\ Append(q, o) \in Seq(Nat)
         /\ \A i \in 1 .. (Len(q) + 1) : 1 <= Append(q, o)[i] /\ Append(q, o)[i] <= l
         /\ \E h \in 0 .. Len(q) :
              /\ NoHole(Append(q, o), h)
              /\ h > 0 => l - Append(q, o)[h + 1] + 1 >= HistoryLimit
PROOF
  <1> DEFINE r == Append(q, o)
  <1>1. q \in Seq(Nat) /\ Len(q) \in Nat /\ o \in Nat
    BY DEF Copied
  <1>2. r \in Seq(Nat) /\ Len(r) = Len(q) + 1 /\ r[Len(q) + 1] = o
        /\ \A i \in 1 .. Len(q) : r[i] = q[i]
    BY <1>1
  <1> HIDE DEF r
  <1>3. ASSUME NEW i \in 1 .. (Len(q) + 1) PROVE 1 <= r[i] /\ r[i] <= l
    <2>1. CASE i \in 1 .. Len(q)
      BY <1>2, <2>1 DEF Copied
    <2>2. CASE i = Len(q) + 1
      BY <1>2, <2>2
    <2> QED
      BY <1>1, <2>1, <2>2
  <1>4. \E h \in 0 .. Len(q) : NoHole(r, h) /\ (h > 0 => l - r[h + 1] + 1 >= HistoryLimit)
    <2>1. CASE q = <<>> \/ l - o + 1 >= HistoryLimit
      <3>1. Len(q) \in 0 .. Len(q)
        BY <1>1
      <3>2. NoHole(r, Len(q))
        BY <1>1, <1>2 DEF NoHole
      <3>3. Len(q) > 0 => l - r[Len(q) + 1] + 1 >= HistoryLimit
        BY <1>1, <1>2, <2>1
      <3> QED
        BY <3>1, <3>2, <3>3
    <2>2. CASE q # <<>> /\ o = q[Len(q)] + 1
      <3>1. PICK h \in 0 .. Len(q) :
              NoHole(q, h) /\ (h > 0 => h < Len(q) /\ l - q[h + 1] + 1 >= HistoryLimit)
        BY DEF Copied
      <3>2. h < Len(q) /\ h + 1 \in 1 .. Len(q) /\ Len(q) \in (h + 1) .. Len(q)
        <4>1. Len(q) > 0
          BY <1>1, <2>2
        <4> QED
          BY <1>1, <3>1, <4>1
      <3>3. r[h + 1] = q[h + 1] /\ q[h + 1] \in Nat /\ q[Len(q)] = q[h + 1] + Len(q) - (h + 1)
        <4>1. q[Len(q)] = q[h + 1] + Len(q) - (h + 1)
          BY <3>1, <3>2 DEF NoHole
        <4>2. r[h + 1] = q[h + 1]
          BY <1>2, <3>2
        <4>3. q[h + 1] \in Nat
          BY <1>1, <3>2
        <4> QED
          BY <4>1, <4>2, <4>3
      <3>4. ASSUME NEW i \in (h + 1) .. Len(r) PROVE r[i] = r[h + 1] + i - (h + 1)
        <4>1. CASE i \in (h + 1) .. Len(q)
          <5>1. i \in 1 .. Len(q)
            BY <1>1, <4>1
          <5> QED
            BY <1>2, <3>1, <3>3, <4>1, <5>1 DEF NoHole
        <4>2. CASE i = Len(q) + 1
          BY SMTT(30), <1>1, <1>2, <2>2, <3>2, <3>3, <4>2
        <4> QED
          BY <1>1, <1>2, <4>1, <4>2
      <3>5. NoHole(r, h)
        BY <3>4 DEF NoHole
      <3> QED
        BY <3>1, <3>3, <3>5
    <2> QED
      BY <2>1, <2>2
  <1> QED
    BY <1>2, <1>3, <1>4 DEF r

(* insert keeps what is copied in order.                                   *)
LEMMA InsertCopied ==
  ASSUME NEW l \in Nat, NEW q, Copied(q, l), NEW o \in 1 .. l,
         \/ q # <<>> /\ o <= q[Len(q)] + 1
         \/ o = IF l > HistoryLimit THEN l - HistoryLimit + 1 ELSE 1
  PROVE  /\ Copied(H!insert(q, o), l) /\ H!insert(q, o) # <<>>
         /\ H!insert(q, o)[Len(H!insert(q, o))] >= o
         /\ q # <<>> => H!insert(q, o)[Len(H!insert(q, o))] >= q[Len(q)]
PROOF
  <1> DEFINE t == H!insert(q, o)
             r == Append(q, o)
  <1>1. q \in Seq(Nat) /\ Len(q) \in Nat /\ Len(q) <= HistoryLimit /\ o \in Nat /\ HistoryLimit \in Nat \ {0}
    BY DurableStreamsAssumption DEF Copied
  <1>2. CASE q # <<>> /\ q[Len(q)] >= o
    BY <1>1, <1>2 DEF H!insert, H!Last
  <1>3. CASE ~(q # <<>> /\ q[Len(q)] >= o)
    <2>1. t = IF Len(r) > HistoryLimit THEN Tail(r) ELSE r
      BY <1>3 DEF H!insert, H!Last
    <2>2. Len(r) = Len(q) + 1 /\ r \in Seq(Nat) /\ r[Len(r)] = o
      BY <1>1
    <2>3. q # <<>> => q[Len(q)] < o /\ q[Len(q)] \in Nat
      BY <1>1, <1>3
    <2>4. (q # <<>> /\ o = q[Len(q)] + 1) \/ q = <<>> \/ l - o + 1 >= HistoryLimit
      <3>1. CASE q # <<>> /\ o <= q[Len(q)] + 1
        BY <1>1, <2>3, <3>1
      <3>2. CASE q # <<>> /\ o = IF l > HistoryLimit THEN l - HistoryLimit + 1 ELSE 1
        <4>1. 1 <= q[Len(q)]
          BY <1>1, <3>2 DEF Copied
        <4> QED
          BY <1>1, <2>3, <3>2, <4>1
      <3> QED
        BY <3>1, <3>2
    <2>5. /\ \A i \in 1 .. (Len(q) + 1) : 1 <= r[i] /\ r[i] <= l
          /\ \E h \in 0 .. Len(q) : NoHole(r, h) /\ (h > 0 => l - r[h + 1] + 1 >= HistoryLimit)
      BY SMTT(30), <2>3, <2>4, CopiedAppend
    <2>6. PICK h \in 0 .. Len(q) : NoHole(r, h) /\ (h > 0 => l - r[h + 1] + 1 >= HistoryLimit)
      BY <2>5
    <2> HIDE DEF r, t
    <2>7. CASE Len(r) <= HistoryLimit
      <3>1. t = r
        BY <1>1, <2>1, <2>2, <2>7
      <3>2. h \in 0 .. Len(r) /\ h < Len(r)
        BY SMTT(30), <1>1, <2>2, <2>6
      <3>3. Copied(r, l)
        BY <2>2, <2>5, <2>6, <2>7, <3>2 DEF Copied
      <3>4. r # <<>> /\ r[Len(r)] >= o
        BY <1>1, <2>2
      <3> QED
        BY <1>1, <2>2, <2>3, <3>1, <3>3, <3>4 DEF t
    <2>8. CASE Len(r) > HistoryLimit
      <3>1. t = Tail(r)
        BY <2>1, <2>8
      <3>2. Len(r) = HistoryLimit + 1
        BY <1>1, <2>2, <2>8
      <3>3. t \in Seq(Nat) /\ Len(t) = HistoryLimit /\ \A i \in 1 .. HistoryLimit : t[i] = r[i + 1]
        BY <1>1, <2>2, <3>1, <3>2
      <3>4. t # <<>> /\ t[Len(t)] = o
        <4>1. HistoryLimit \in 1 .. HistoryLimit
          BY <1>1
        <4> QED
          BY <1>1, <2>2, <3>2, <3>3, <4>1
      <3>5. \A i \in 1 .. Len(t) : 1 <= t[i] /\ t[i] <= l
        <4> SUFFICES ASSUME NEW i \in 1 .. HistoryLimit PROVE 1 <= t[i] /\ t[i] <= l
          BY <3>3
        <4>1. i + 1 \in 1 .. (Len(q) + 1)
          BY <1>1, <2>2, <3>2
        <4> QED
          BY <2>5, <3>3, <4>1
      <3> DEFINE k == IF h = 0 THEN 0 ELSE h - 1
      <3>6. k \in 0 .. Len(t) /\ k < Len(t)
        BY <1>1, <2>2, <2>6, <3>2, <3>3
      <3>7. NoHole(t, k)
        <4> SUFFICES ASSUME NEW i \in (k + 1) .. HistoryLimit PROVE t[i] = t[k + 1] + i - (k + 1)
          BY <3>3 DEF NoHole
        <4>1. i \in 1 .. HistoryLimit /\ k + 1 \in 1 .. HistoryLimit /\ i \in Nat /\ k \in Nat
          BY <1>1, <3>3, <3>6
        <4>2. t[i] = r[i + 1] /\ t[k + 1] = r[k + 2]
          BY <1>1, <3>3, <4>1
        <4>3. i + 1 \in (h + 1) .. Len(r) /\ k + 2 \in (h + 1) .. Len(r) /\ h \in Nat
          BY <1>1, <2>6, <3>2, <4>1
        <4>4. r[i + 1] = r[h + 1] + (i + 1) - (h + 1) /\ r[k + 2] = r[h + 1] + (k + 2) - (h + 1)
          BY <2>6, <4>3 DEF NoHole
        <4>5. r[h + 1] \in Nat
          BY <2>2, <4>3
        <4> HIDE DEF k
        <4> QED
          BY ONLY <4>1, <4>2, <4>3, <4>4, <4>5
      <3>8. k > 0 => k < Len(t) /\ l - t[k + 1] + 1 >= HistoryLimit
        <4> SUFFICES ASSUME k > 0 PROVE l - t[k + 1] + 1 >= HistoryLimit
          BY <3>6
        <4>1. h > 0 /\ k + 1 = h /\ h \in 1 .. HistoryLimit
          BY <1>1, <2>6, <3>3, <3>6
        <4>2. t[k + 1] = r[h + 1]
          BY <3>3, <4>1
        <4> QED
          BY <2>6, <4>1, <4>2
      <3> HIDE DEF k
      <3>9. Copied(t, l)
        BY <1>1, <3>3, <3>5, <3>6, <3>7, <3>8 DEF Copied
      <3> QED
        BY <1>1, <2>3, <3>4, <3>9 DEF t
    <2> QED
      BY <1>1, <2>2, <2>7, <2>8
  <1> QED
    BY <1>2, <1>3

-----------------------------------------------------------------------------

Windows == {"idle", "active", "overdue", "exhausted"}
Entry == [next : Nat, stale : BOOLEAN]

HistoryTypes ==
  /\ stored \in [Streams -> Nat]
  /\ cons \in [Streams -> Entry \cup {None}]
  /\ leaked \in [Streams -> SUBSET Nat]
  /\ adding = None \/ adding \in [stream : Streams, next : Nat, left : Nat]
  /\ local \in [Streams -> Seq(Nat)]
  /\ window \in [Streams -> Windows]
  /\ broken \in [Streams -> BOOLEAN]
  /\ fetch = None \/ fetch \in [stream : Streams, offset : Nat, pc : {"sync", "read"}, raced : BOOLEAN]

(* A consumer at position p has copied what precedes it, or skipped it.    *)
ConsumerAt(q, l, p) ==
  /\ p \in Nat /\ 1 <= p /\ p <= l + 1
  /\ p > 1 => q # <<>> /\ q[Len(q)] >= p - 1

ConsumersAt(s) ==
  /\ cons[s] # None => ConsumerAt(local[s], stored[s], cons[s].next)
  /\ \A p \in leaked[s] : ConsumerAt(local[s], stored[s], p)
  /\ adding # None /\ adding.stream = s => ConsumerAt(local[s], stored[s], adding.next)

Whole(s) == NoHole(local[s], 0)

(* A hole is hidden by an open window, and some consumer will fill it.     *)
HolesHidden(s) ==
  /\ ~broken[s] /\ window[s] = "idle" => Whole(s)
  /\ Whole(s) \/ broken[s] \/ cons[s] # None \/ leaked[s] # {} \/ (adding # None /\ adding.stream = s)

FetchSees ==
  fetch # None /\ ~fetch.raced =>
    /\ fetch.pc = "sync" => ~broken[fetch.stream]
    /\ fetch.pc = "read" => Whole(fetch.stream)

StreamOK(s) == Copied(local[s], stored[s]) /\ ConsumersAt(s) /\ HolesHidden(s)

HistoryInv == HistoryTypes /\ (\A s \in Streams : StreamOK(s)) /\ FetchSees

(* A consumer with nothing more to deliver leaves no hole.                 *)
LEMMA CaughtUpWhole ==
  ASSUME HistoryInv, NEW s \in Streams, NEW p, ConsumerAt(local[s], stored[s], p), ~H!Pending(s, p)
  PROVE  Whole(s)
PROOF
  <1>1. stored[s] \in Nat /\ Copied(local[s], stored[s]) /\ HistoryLimit \in Nat \ {0}
    BY DurableStreamsAssumption DEF HistoryInv, HistoryTypes, StreamOK
  <1>2. p = stored[s] + 1 /\ p \in Nat
    BY <1>1 DEF ConsumerAt, H!Pending, H!Position, H!Later, H!First
  <1>3. local[s] = <<>> \/ local[s][Len(local[s])] >= stored[s]
    <2>1. CASE stored[s] = 0
      <3>1. Len(local[s]) = 0
        <4> SUFFICES ASSUME Len(local[s]) # 0 PROVE FALSE
          OBVIOUS
        <4>1. Len(local[s]) \in 1 .. Len(local[s]) /\ local[s] \in Seq(Nat)
          BY <1>1 DEF Copied
        <4>2. 1 <= local[s][Len(local[s])] /\ local[s][Len(local[s])] <= 0 /\ local[s][Len(local[s])] \in Nat
          BY <1>1, <2>1, <4>1 DEF Copied
        <4> QED
          BY ONLY <4>2
      <3> QED
        BY <1>1, <3>1 DEF Copied
    <2>2. CASE stored[s] > 0
      BY <1>1, <1>2, <2>2 DEF ConsumerAt
    <2> QED
      BY <1>1, <2>1, <2>2
  <1> QED
    BY <1>1, <1>3, CopiedAll DEF Whole

(* q has grown to r by the message o, of a stream with l messages.         *)
Grown(q, r, l, o) ==
  /\ o \in Nat /\ 1 <= o /\ o <= l
  /\ Copied(r, l) /\ r # <<>> /\ r \in Seq(Nat)
  /\ r[Len(r)] >= o
  /\ q # <<>> => r[Len(r)] >= q[Len(q)]

(* consumeMessage for a consumer at position p.                            *)
LEMMA ConsumeKeeps ==
  ASSUME HistoryInv, NEW s \in Streams, NEW p, ConsumerAt(local[s], stored[s], p), H!Pending(s, p),
         H!consumeMessage(s, H!Position(s, p))
  PROVE  /\ Grown(local[s], local'[s], stored[s], H!Position(s, p))
         /\ local' \in [Streams -> Seq(Nat)] /\ window' \in [Streams -> Windows] /\ broken' = broken
         /\ window'[s] # "idle"
         /\ \A t \in Streams : t # s => local'[t] = local[t] /\ window'[t] = window[t]
PROOF
  <1>1. stored[s] \in Nat /\ Copied(local[s], stored[s]) /\ HistoryLimit \in Nat \ {0}
        /\ local \in [Streams -> Seq(Nat)] /\ window \in [Streams -> Windows]
    BY DurableStreamsAssumption DEF HistoryInv, HistoryTypes, StreamOK
  <1> DEFINE o == H!Position(s, p)
             q == local[s]
             first == IF stored[s] > HistoryLimit THEN stored[s] - HistoryLimit + 1 ELSE 1
             t == H!insert(q, o)
  <1>2. p \in Nat /\ 1 <= p /\ (p > 1 => q # <<>> /\ q[Len(q)] >= p - 1)
    BY DEF ConsumerAt
  <1>3. first \in Nat /\ 1 <= first /\ o = IF p > first THEN p ELSE first
    BY <1>1, <1>2 DEF H!Position, H!Later, H!First
  <1>4. o <= stored[s]
    BY DEF H!Pending
  <1>5. o \in 1 .. stored[s] /\ o \in Nat
    <2> HIDE DEF o, first
    <2> QED
      BY <1>1, <1>2, <1>3, <1>4
  <1>6. (q # <<>> /\ o <= q[Len(q)] + 1) \/ o = first
    <2>1. CASE p > first
      <3>1. p > 1 /\ o = p
        <4> HIDE DEF o, first
        <4> QED
          BY <1>2, <1>3, <2>1
      <3>2. q # <<>> /\ q[Len(q)] >= p - 1 /\ q[Len(q)] \in Nat
        <4>1. q # <<>> /\ q \in Seq(Nat)
          BY <1>1, <1>2, <3>1
        <4> HIDE DEF q
        <4>2. Len(q) \in 1 .. Len(q)
          BY <4>1
        <4> QED
          BY <1>2, <3>1, <4>1, <4>2
      <3> HIDE DEF o, q, first
      <3> QED
        BY ONLY <1>2, <3>1, <3>2
    <2>2. CASE ~(p > first)
      <3> HIDE DEF o, q, first
      <3> QED
        BY <1>3, <2>2
    <2> QED
      BY <2>1, <2>2
  <1>7. /\ Copied(t, stored[s]) /\ t # <<>> /\ t[Len(t)] >= o
        /\ q # <<>> => t[Len(t)] >= q[Len(q)]
    <2> HIDE DEF o, q
    <2> QED
      BY <1>1, <1>5, <1>6, InsertCopied DEF q
  <1>8. t \in Seq(Nat)
    BY <1>7 DEF Copied
  <1>9. local' = [local EXCEPT ![s] = t] /\ window' = [window EXCEPT ![s] = H!restart(window[s])]
        /\ broken' = broken
    BY DEF H!consumeMessage, H!touch
  <1>10. H!restart(window[s]) \in Windows \ {"idle"}
    BY <1>1 DEF H!restart, Windows
  <1> HIDE DEF t
  <1>11. /\ local' \in [Streams -> Seq(Nat)] /\ window' \in [Streams -> Windows]
         /\ local'[s] = t /\ window'[s] # "idle"
         /\ \A u \in Streams : u # s => local'[u] = local[u] /\ window'[u] = window[u]
    BY <1>1, <1>8, <1>9, <1>10
  <1> QED
    BY <1>4, <1>5, <1>7, <1>8, <1>9, <1>11 DEF Grown

(* A consumer's position is good after a message was copied.               *)
LEMMA StaysAt ==
  ASSUME NEW q \in Seq(Nat), NEW r, NEW l \in Nat, NEW o, Grown(q, r, l, o)
  PROVE  /\ \A x : ConsumerAt(q, l, x) => ConsumerAt(r, l, x)
         /\ ConsumerAt(r, l, o + 1)
PROOF
  <1>1. /\ r # <<>> /\ r \in Seq(Nat) /\ r[Len(r)] >= o
        /\ q # <<>> => r[Len(r)] >= q[Len(q)]
        /\ o \in Nat /\ 1 <= o /\ o <= l
    BY DEF Grown
  <1>2. r[Len(r)] \in Nat
    <2>1. Len(r) \in 1 .. Len(r)
      BY <1>1
    <2> QED
      BY <1>1, <2>1
  <1>3. ASSUME NEW x, ConsumerAt(q, l, x) PROVE ConsumerAt(r, l, x)
    <2>1. x \in Nat /\ 1 <= x /\ x <= l + 1
      BY <1>3 DEF ConsumerAt
    <2>2. ASSUME x > 1 PROVE r[Len(r)] >= x - 1
      <3>1. q # <<>> /\ q[Len(q)] >= x - 1
        BY <1>3, <2>2 DEF ConsumerAt
      <3>2. q[Len(q)] \in Nat
        <4>1. Len(q) \in 1 .. Len(q)
          BY <3>1
        <4> QED
          BY <4>1
      <3> QED
        BY <1>1, <1>2, <2>1, <3>1, <3>2
    <2> QED
      BY <1>1, <2>1, <2>2 DEF ConsumerAt
  <1>4. ConsumerAt(r, l, o + 1)
    BY <1>1, <1>2 DEF ConsumerAt
  <1> QED
    BY <1>3, <1>4

FetchStates == [stream : Streams, offset : Nat, pc : {"sync", "read"}, raced : BOOLEAN]

(* RacedBy only notes a race, and does so for a request that reads.        *)
LEMMA RacedByKeeps ==
  ASSUME HistoryInv, NEW s \in Streams, H!RacedBy(s), broken' = broken,
         \A t \in Streams : t # s => local'[t] = local[t]
  PROVE  FetchSees' /\ (fetch' = None \/ fetch' \in FetchStates)
PROOF
  <1>1. fetch = None \/ fetch \in FetchStates
    BY DEF HistoryInv, HistoryTypes, FetchStates
  <1>2. CASE fetch # None /\ fetch.stream = s /\ (fetch.pc = "read" \/ window[s] = "overdue")
    <2>1. fetch' = [fetch EXCEPT !.raced = TRUE]
      BY <1>2 DEF H!RacedBy
    <2>2. fetch' \in FetchStates /\ fetch'.raced
      BY <1>1, <1>2, <2>1 DEF FetchStates
    <2> QED
      BY <2>2 DEF FetchSees
  <1>3. CASE ~(fetch # None /\ fetch.stream = s /\ (fetch.pc = "read" \/ window[s] = "overdue"))
    <2>1. fetch' = fetch
      BY <1>3 DEF H!RacedBy
    <2>2. fetch # None /\ fetch.pc = "read" => local'[fetch.stream] = local[fetch.stream]
      BY <1>1, <1>3 DEF FetchStates
    <2> QED
      BY <1>1, <2>1, <2>2 DEF HistoryInv, FetchSees, Whole
  <1> QED
    BY <1>2, <1>3

(* Nothing of a stream changes but what is published.                      *)
LEMMA StreamUnmoved ==
  ASSUME HistoryInv, NEW t \in Streams, local'[t] = local[t],
         stored'[t] \in {stored[t], stored[t] + 1},
         cons'[t] = cons[t] \/ (cons[t] # None /\ cons'[t] # None /\ cons'[t].next = cons[t].next),
         leaked'[t] = leaked[t], broken'[t] = broken[t],
         window'[t] = window[t] \/ window'[t] # "idle",
         adding' # None /\ adding'.stream = t => (adding = None /\ adding'.next = 1) \/ adding' = adding,
         adding # None /\ adding.stream = t => adding' # None /\ adding'.stream = t
  PROVE  StreamOK(t)'
PROOF
  <1>0. stored[t] \in Nat /\ stored'[t] \in Nat /\ stored[t] <= stored'[t] /\ StreamOK(t)
    BY DEF HistoryInv, HistoryTypes
  <1>1. Copied(local'[t], stored'[t])
    BY <1>0, CopiedMore DEF StreamOK
  <1>2. \A x : ConsumerAt(local[t], stored[t], x) => ConsumerAt(local'[t], stored'[t], x)
    BY <1>0 DEF ConsumerAt
  <1>3. ConsumersAt(t)'
    <2>1. ASSUME cons'[t] # None PROVE ConsumerAt(local'[t], stored'[t], cons'[t].next)
      BY <1>0, <1>2, <2>1 DEF StreamOK, ConsumersAt
    <2>2. \A p \in leaked'[t] : ConsumerAt(local'[t], stored'[t], p)
      BY <1>0, <1>2 DEF StreamOK, ConsumersAt
    <2>3. ASSUME adding' # None, adding'.stream = t PROVE ConsumerAt(local'[t], stored'[t], adding'.next)
      <3>1. CASE adding' = adding
        BY <1>0, <1>2, <2>3, <3>1 DEF StreamOK, ConsumersAt
      <3>2. CASE adding'.next = 1
        BY <1>0, <3>2 DEF ConsumerAt
      <3> QED
        BY <2>3, <3>1, <3>2
    <2> QED
      BY <2>1, <2>2, <2>3 DEF ConsumersAt
  <1>4. HolesHidden(t)'
    BY <1>0 DEF StreamOK, HolesHidden, Whole
  <1> QED
    BY <1>1, <1>3, <1>4 DEF StreamOK

(* A consumer of the stream has copied a message.                          *)
LEMMA StreamMoved ==
  ASSUME HistoryInv, NEW s \in Streams, NEW o, Grown(local[s], local'[s], stored[s], o),
         stored'[s] = stored[s], window'[s] # "idle",
         cons'[s] # None => cons[s] # None /\ cons'[s].next \in {cons[s].next, o + 1},
         \A p \in leaked'[s] : p \in leaked[s] \/ p = o + 1,
         adding' # None /\ adding'.stream = s =>
           adding # None /\ adding.stream = s /\ adding'.next \in {adding.next, o + 1},
         cons'[s] # None \/ leaked'[s] # {} \/ (adding' # None /\ adding'.stream = s)
  PROVE  StreamOK(s)'
PROOF
  <1>0. stored[s] \in Nat /\ local[s] \in Seq(Nat) /\ StreamOK(s)
    BY DEF HistoryInv, HistoryTypes
  <1>1. Copied(local'[s], stored'[s])
    BY DEF Grown
  <1>2. /\ \A x : ConsumerAt(local[s], stored[s], x) => ConsumerAt(local'[s], stored'[s], x)
        /\ ConsumerAt(local'[s], stored'[s], o + 1)
    BY <1>0, StaysAt
  <1>3. ConsumersAt(s)'
    <2>1. ASSUME cons'[s] # None PROVE ConsumerAt(local'[s], stored'[s], cons'[s].next)
      BY <1>0, <1>2, <2>1 DEF StreamOK, ConsumersAt
    <2>2. \A p \in leaked'[s] : ConsumerAt(local'[s], stored'[s], p)
      BY <1>0, <1>2 DEF StreamOK, ConsumersAt
    <2>3. ASSUME adding' # None, adding'.stream = s PROVE ConsumerAt(local'[s], stored'[s], adding'.next)
      BY <1>0, <1>2, <2>3 DEF StreamOK, ConsumersAt
    <2> QED
      BY <2>1, <2>2, <2>3 DEF ConsumersAt
  <1>4. HolesHidden(s)'
    BY DEF HolesHidden
  <1> QED
    BY <1>1, <1>3, <1>4 DEF StreamOK

(* The window closes.                                                      *)
LEMMA IdleKeeps ==
  ASSUME HistoryInv, NEW s \in Streams, H!idle(s)
  PROVE  HistoryInv'
PROOF
  <1>1. /\ window' = [window EXCEPT ![s] = "idle"] /\ broken' = [broken EXCEPT ![s] = @ /\ cons[s] = None]
        /\ UNCHANGED <<stored, cons, leaked, adding, local, fetch>>
    BY DEF H!idle, H!consVars
  <1>2. HistoryTypes'
    BY <1>1 DEF HistoryInv, HistoryTypes, Windows
  <1>3. \A t \in Streams : broken'[t] => broken[t]
    BY <1>1 DEF HistoryInv, HistoryTypes
  <1>4. ASSUME NEW t \in Streams, t # s PROVE StreamOK(t)'
    BY <1>1, <1>4, StreamUnmoved DEF HistoryInv, HistoryTypes
  <1>5. StreamOK(s) /\ H!CaughtUp(s)
    BY DEF HistoryInv, H!idle
  <1>6. HolesHidden(s)'
    <2>1. CASE cons[s] # None
      <3>1. Whole(s)
        BY <1>5, <2>1, CaughtUpWhole DEF H!CaughtUp, StreamOK, ConsumersAt
      <3> QED
        BY <1>1, <3>1 DEF HolesHidden, Whole
    <2>2. CASE leaked[s] # {}
      <3>1. PICK p \in leaked[s] : TRUE
        BY <2>2
      <3>2. Whole(s)
        BY <1>5, <3>1, CaughtUpWhole DEF H!CaughtUp, StreamOK, ConsumersAt
      <3> QED
        BY <1>1, <3>2 DEF HolesHidden, Whole
    <2>3. CASE cons[s] = None /\ leaked[s] = {}
      <3>1. Whole(s) \/ broken[s]
        BY <1>5, <2>3 DEF H!CaughtUp, StreamOK, HolesHidden
      <3>2. broken'[s] = broken[s]
        BY <1>1, <2>3 DEF HistoryInv, HistoryTypes
      <3> QED
        BY <1>1, <3>1, <3>2 DEF HolesHidden, Whole
    <2> QED
      BY <2>1, <2>2, <2>3
  <1>7. StreamOK(s)'
    BY <1>1, <1>5, <1>6 DEF StreamOK, ConsumersAt
  <1>8. FetchSees'
    BY <1>1, <1>3 DEF HistoryInv, HistoryTypes, FetchSees, Whole
  <1> QED
    BY <1>2, <1>4, <1>7, <1>8 DEF HistoryInv

(* Deliver.                                                                *)
LEMMA DeliverKeeps ==
  ASSUME HistoryInv, NEW s \in Streams, H!Deliver(s)
  PROVE  HistoryInv'
PROOF
  <1>0. HistoryTypes /\ StreamOK(s) /\ UNCHANGED <<stored, adding>>
    BY DEF HistoryInv, H!Deliver
  <1>1. ASSUME cons[s] # None, H!Pending(s, cons[s].next),
               H!consumeMessage(s, H!Position(s, cons[s].next)),
               cons' = [cons EXCEPT ![s].next = H!Position(s, @) + 1], leaked' = leaked
        PROVE  HistoryInv'
    <2> DEFINE o == H!Position(s, cons[s].next)
    <2>1. ConsumerAt(local[s], stored[s], cons[s].next)
      BY <1>0, <1>1 DEF StreamOK, ConsumersAt
    <2>2. /\ Grown(local[s], local'[s], stored[s], o)
          /\ local' \in [Streams -> Seq(Nat)] /\ window' \in [Streams -> Windows] /\ broken' = broken
          /\ window'[s] # "idle"
          /\ \A t \in Streams : t # s => local'[t] = local[t] /\ window'[t] = window[t]
      BY <1>1, <2>1, ConsumeKeeps
    <2>3. o \in Nat /\ cons' = [cons EXCEPT ![s].next = o + 1]
      BY <1>1, <2>2 DEF Grown
    <2> HIDE DEF o
    <2>4. cons \in [Streams -> Entry \cup {None}] /\ cons[s] \in Entry
      BY <1>0, <1>1 DEF HistoryTypes
    <2>5. cons' \in [Streams -> Entry \cup {None}] /\ cons'[s] \in Entry /\ cons'[s].next = o + 1
          /\ \A t \in Streams : t # s => cons'[t] = cons[t]
      <3>1. [cons[s] EXCEPT !.next = o + 1] \in Entry /\ [cons[s] EXCEPT !.next = o + 1].next = o + 1
        BY <2>3, <2>4 DEF Entry
      <3> QED
        BY <2>3, <2>4, <3>1
    <2>6. cons'[s] # None
      BY <2>5, MCHistoryAssumption DEF Entry, H!HistoryAssumption
    <2>7. FetchSees' /\ (fetch' = None \/ fetch' \in FetchStates)
      BY <1>1, <2>2, RacedByKeeps DEF H!consumeMessage
    <2>8. HistoryTypes'
      BY <1>0, <1>1, <2>2, <2>5, <2>7 DEF HistoryTypes, FetchStates
    <2>9. StreamOK(s)'
      BY <1>0, <1>1, <2>2, <2>5, <2>6, StreamMoved
    <2>10. ASSUME NEW t \in Streams, t # s PROVE StreamOK(t)'
      BY <1>0, <1>1, <2>2, <2>5, <2>10, StreamUnmoved DEF HistoryInv
    <2> QED
      BY <2>7, <2>8, <2>9, <2>10 DEF HistoryInv
  <1>2. ASSUME NEW p \in leaked[s], H!Pending(s, p), H!consumeMessage(s, H!Position(s, p)),
               leaked' = [leaked EXCEPT ![s] = (@ \ {p}) \cup {H!Position(s, p) + 1}], cons' = cons
        PROVE  HistoryInv'
    <2> DEFINE o == H!Position(s, p)
    <2>1. ConsumerAt(local[s], stored[s], p)
      BY <1>0, <1>2 DEF StreamOK, ConsumersAt
    <2>2. /\ Grown(local[s], local'[s], stored[s], o)
          /\ local' \in [Streams -> Seq(Nat)] /\ window' \in [Streams -> Windows] /\ broken' = broken
          /\ window'[s] # "idle"
          /\ \A t \in Streams : t # s => local'[t] = local[t] /\ window'[t] = window[t]
      BY <1>2, <2>1, ConsumeKeeps
    <2>3. o \in Nat
      BY <2>2 DEF Grown
    <2>4. /\ leaked' \in [Streams -> SUBSET Nat] /\ leaked'[s] = (leaked[s] \ {p}) \cup {o + 1}
          /\ \A t \in Streams : t # s => leaked'[t] = leaked[t]
      <3> HIDE DEF o
      <3>1. leaked \in [Streams -> SUBSET Nat] /\ (leaked[s] \ {p}) \cup {o + 1} \in SUBSET Nat
        BY <1>0, <2>3 DEF HistoryTypes
      <3> QED
        BY <1>2, <3>1 DEF o
    <2> HIDE DEF o
    <2>7. FetchSees' /\ (fetch' = None \/ fetch' \in FetchStates)
      BY <1>2, <2>2, RacedByKeeps DEF H!consumeMessage
    <2>8. HistoryTypes'
      BY <1>0, <1>2, <2>2, <2>4, <2>7 DEF HistoryTypes, FetchStates
    <2>9. StreamOK(s)'
      <3>1. leaked'[s] # {} /\ \A x \in leaked'[s] : x \in leaked[s] \/ x = o + 1
        BY <2>4
      <3>2. adding' # None /\ adding'.stream = s =>
              adding # None /\ adding.stream = s /\ adding'.next \in {adding.next, o + 1}
        BY <1>0
      <3>3. cons'[s] # None => cons[s] # None /\ cons'[s].next \in {cons[s].next, o + 1}
        BY <1>2
      <3> QED
        BY <1>0, <2>2, <3>1, <3>2, <3>3, StreamMoved
    <2>10. ASSUME NEW t \in Streams, t # s PROVE StreamOK(t)'
      BY <1>0, <1>2, <2>2, <2>4, <2>10, StreamUnmoved DEF HistoryInv
    <2> QED
      BY <2>7, <2>8, <2>9, <2>10 DEF HistoryInv
  <1> QED
    BY <1>1, <1>2 DEF H!Deliver

(* FetchBatch.                                                             *)
LEMMA FetchBatchKeeps ==
  ASSUME HistoryInv, H!FetchBatch
  PROVE  HistoryInv'
PROOF
  <1> DEFINE o == H!Position(adding.stream, adding.next)
  <1>0. /\ HistoryTypes /\ adding # None /\ UNCHANGED <<stored, cons, leaked>>
        /\ adding \in [stream : Streams, next : Nat, left : Nat] /\ adding.left > 0
    BY DEF HistoryInv, H!FetchBatch, HistoryTypes
  <1>p. PICK s \in Streams : s = adding.stream
    BY <1>0
  <1>1. StreamOK(s)
    BY DEF HistoryInv
  <1>2. H!Pending(s, adding.next) /\ H!consumeMessage(s, o)
        /\ adding' = [adding EXCEPT !.next = o + 1, !.left = adding.left - 1]
    BY <1>p DEF H!FetchBatch
  <1>3. ConsumerAt(local[s], stored[s], adding.next)
    BY <1>0, <1>p, <1>1 DEF StreamOK, ConsumersAt
  <1>4. /\ Grown(local[s], local'[s], stored[s], o)
        /\ local' \in [Streams -> Seq(Nat)] /\ window' \in [Streams -> Windows] /\ broken' = broken
        /\ window'[s] # "idle"
        /\ \A t \in Streams : t # s => local'[t] = local[t] /\ window'[t] = window[t]
    BY <1>p, <1>2, <1>3, ConsumeKeeps
  <1>5. o \in Nat
    BY <1>4 DEF Grown
  <1> HIDE DEF o
  <1>6. /\ adding' \in [stream : Streams, next : Nat, left : Nat]
        /\ adding'.stream = s /\ adding'.next = o + 1
    <2>1. adding.left - 1 \in Nat /\ o + 1 \in Nat
      BY <1>0, <1>5
    <2>2. \A l \in Nat, n \in Nat : adding' = [adding EXCEPT !.next = n, !.left = l] =>
            /\ adding' \in [stream : Streams, next : Nat, left : Nat]
            /\ adding'.stream = s /\ adding'.next = n
      BY <1>0, <1>p
    <2> QED
      BY <1>2, <2>1, <2>2
  <1>7. FetchSees' /\ (fetch' = None \/ fetch' \in FetchStates)
    BY <1>p, <1>2, <1>4, RacedByKeeps DEF H!consumeMessage
  <1>8. HistoryTypes'
    BY <1>0, <1>4, <1>6, <1>7 DEF HistoryTypes, FetchStates
  <1>9. adding' # None
    BY <1>6, MCHistoryAssumption DEF H!HistoryAssumption
  <1>10. StreamOK(s)'
    BY <1>0, <1>p, <1>4, <1>6, <1>9, StreamMoved
  <1>11. ASSUME NEW t \in Streams, t # s PROVE StreamOK(t)'
    BY <1>0, <1>p, <1>4, <1>6, <1>11, StreamUnmoved DEF HistoryInv
  <1>12. \A t \in Streams : StreamOK(t)'
    <2> TAKE t \in Streams
    <2>1. CASE t = s
      BY <1>1, <1>10, <2>1
    <2>2. CASE t # s
      BY <1>11, <2>2
    <2> QED
      BY <2>1, <2>2
  <1> QED
    BY <1>7, <1>8, <1>12 DEF HistoryInv

(* ConsumerAdded.                                                          *)
LEMMA ConsumerAddedKeeps ==
  ASSUME HistoryInv, H!ConsumerAdded
  PROVE  HistoryInv'
PROOF
  <1>0. /\ HistoryTypes /\ adding # None /\ UNCHANGED <<stored, local>> /\ adding' = None
        /\ adding \in [stream : Streams, next : Nat, left : Nat]
    BY DEF HistoryInv, H!ConsumerAdded, HistoryTypes
  <1>p. PICK s \in Streams : s = adding.stream
    BY <1>0
  <1> DEFINE gone == H!expire(s)
             entry == [next |-> adding.next, stale |-> FALSE]
  <1>1. /\ cons' = [t \in Streams |-> IF t = s THEN entry ELSE IF t \in gone THEN None ELSE cons[t]]
        /\ leaked' = [leaked EXCEPT ![s] = IF cons[s] = None THEN @ ELSE @ \cup {cons[s].next}]
        /\ window' = [t \in Streams |-> IF t \in gone THEN "idle" ELSE window[t]]
        /\ broken' = [t \in Streams |-> broken[t] \/ (t \in gone /\ H!Pending(t, cons[t].next))]
        /\ fetch' = IF fetch # None /\ fetch.stream \in gone THEN [fetch EXCEPT !.raced = TRUE] ELSE fetch
    BY <1>p DEF H!ConsumerAdded
  <1>2. gone \subseteq Streams /\ s \notin gone /\ \A t \in gone : cons[t] # None
    BY DEF H!expire
  <1>3. entry \in Entry /\ entry # None /\ entry.next = adding.next
    <2>1. adding.next \in Nat
      BY <1>0
    <2>2. entry \in Entry /\ entry.next = adding.next
      BY <2>1 DEF Entry
    <2> HIDE DEF entry
    <2> QED
      BY <2>2, MCHistoryAssumption DEF Entry, H!HistoryAssumption
  <1> HIDE DEF gone, entry
  <1>4. cons \in [Streams -> Entry \cup {None}] /\ leaked \in [Streams -> SUBSET Nat]
        /\ window \in [Streams -> Windows] /\ broken \in [Streams -> BOOLEAN]
        /\ (fetch = None \/ fetch \in FetchStates)
    BY <1>0 DEF HistoryTypes, FetchStates
  <1>5. cons' \in [Streams -> Entry \cup {None}]
    BY <1>1, <1>3, <1>4
  <1>6. leaked' \in [Streams -> SUBSET Nat] /\ \A t \in Streams : t # s => leaked'[t] = leaked[t]
    <2>1. (IF cons[s] = None THEN leaked[s] ELSE leaked[s] \cup {cons[s].next}) \in SUBSET Nat
      <3>1. cons[s] # None => cons[s].next \in Nat
        BY <1>4 DEF Entry
      <3> QED
        BY <1>4, <3>1
    <2> QED
      BY <1>1, <1>4, <2>1
  <1>7. leaked'[s] = IF cons[s] = None THEN leaked[s] ELSE leaked[s] \cup {cons[s].next}
    BY <1>1, <1>4
  <1>8. window' \in [Streams -> Windows] /\ broken' \in [Streams -> BOOLEAN]
    BY <1>1, <1>4 DEF Windows
  <1>9. fetch' = None \/ fetch' \in FetchStates
    BY <1>1, <1>4 DEF FetchStates
  <1>10. HistoryTypes'
    BY <1>0, <1>5, <1>6, <1>8, <1>9 DEF HistoryTypes, FetchStates
  <1>11. ASSUME NEW t \in Streams, t # s PROVE StreamOK(t)'
    <2>0. StreamOK(t) /\ (adding.stream = t => FALSE)
      BY <1>p, <1>11 DEF HistoryInv
    <2>1. CASE t \notin gone
      <3>1. cons'[t] = cons[t] /\ window'[t] = window[t] /\ broken'[t] = broken[t] /\ leaked'[t] = leaked[t]
        BY <1>1, <1>4, <1>6, <1>11, <2>1
      <3> QED
        BY <1>0, <2>0, <3>1, StreamUnmoved DEF HistoryInv
    <2>2. CASE t \in gone
      <3>1. cons'[t] = None /\ leaked'[t] = leaked[t] /\ cons[t] # None
            /\ (broken'[t] \/ ~H!Pending(t, cons[t].next))
        BY <1>1, <1>2, <1>6, <1>11, <2>2
      <3>2. ConsumersAt(t)'
        BY <1>0, <2>0, <3>1 DEF StreamOK, ConsumersAt
      <3>3. broken'[t] \/ Whole(t)
        BY <2>0, <3>1, CaughtUpWhole DEF StreamOK, ConsumersAt
      <3>4. HolesHidden(t)'
        BY <1>0, <3>3 DEF HolesHidden, Whole
      <3> QED
        BY <1>0, <2>0, <3>2, <3>4 DEF StreamOK
    <2> QED
      BY <2>1, <2>2
  <1>12. StreamOK(s)'
    <2>0. StreamOK(s) /\ ConsumerAt(local[s], stored[s], adding.next)
      BY <1>0, <1>p DEF HistoryInv, StreamOK, ConsumersAt
    <2>1. cons'[s] = entry /\ cons'[s] # None /\ window'[s] = window[s] /\ broken'[s] = broken[s]
      BY <1>1, <1>2, <1>3, <1>4
    <2>2. \A p \in leaked'[s] : ConsumerAt(local[s], stored[s], p)
      BY <1>7, <2>0 DEF StreamOK, ConsumersAt
    <2>3. ConsumersAt(s)'
      BY <1>0, <1>3, <2>0, <2>1, <2>2 DEF ConsumersAt
    <2>4. HolesHidden(s)'
      BY <1>0, <2>0, <2>1 DEF StreamOK, HolesHidden, Whole
    <2> QED
      BY <1>0, <2>0, <2>3, <2>4 DEF StreamOK
  <1>13. FetchSees'
    <2>1. CASE fetch # None /\ fetch.stream \in gone
      <3>1. fetch'.raced
        BY <1>1, <1>4, <2>1 DEF FetchStates
      <3> QED
        BY <3>1 DEF FetchSees
    <2>2. CASE ~(fetch # None /\ fetch.stream \in gone)
      <3>1. fetch' = fetch
        BY <1>1, <2>2
      <3>2. fetch # None => broken'[fetch.stream] = broken[fetch.stream]
        BY <1>1, <1>4, <2>2 DEF FetchStates
      <3> QED
        BY <1>0, <3>1, <3>2 DEF HistoryInv, FetchSees, Whole
    <2> QED
      BY <2>1, <2>2
  <1> QED
    BY <1>10, <1>11, <1>12, <1>13 DEF HistoryInv

(* Every step of the history of the NATS broker keeps the invariant.       *)
LEMMA HistoryStep ==
  ASSUME HistoryInv, [H!Next]_history
  PROVE  HistoryInv'
PROOF
  <1>0. HistoryTypes /\ \A t \in Streams : StreamOK(t)
    BY DEF HistoryInv
  <1>1. ASSUME NEW s \in Streams, H!WindowOverdue(s) PROVE HistoryInv'
    <2>1. window' = [window EXCEPT ![s] = "overdue"]
          /\ UNCHANGED <<stored, cons, leaked, adding, local, broken, fetch>>
      BY <1>1 DEF H!WindowOverdue, H!consVars
    <2>2. HistoryTypes' /\ \A t \in Streams : window'[t] = window[t] \/ window'[t] # "idle"
      BY <1>0, <2>1 DEF HistoryTypes, Windows
    <2>3. \A t \in Streams : StreamOK(t)'
      BY <2>1, <2>2, StreamUnmoved
    <2> QED
      BY <2>1, <2>2, <2>3 DEF HistoryInv, FetchSees, Whole
  <1>2. ASSUME NEW s \in Streams, H!add(s) PROVE HistoryInv'
    <2>1. /\ window' = [window EXCEPT ![s] = H!restart(window[s])] /\ H!RacedBy(s)
          /\ stored' = [stored EXCEPT ![s] = stored[s] + 1]
          /\ UNCHANGED <<cons, leaked, adding, local, broken>>
      BY <1>2 DEF H!add, H!consVars, H!touch
    <2>2. H!restart(window[s]) \in Windows \ {"idle"}
      BY <1>0 DEF HistoryTypes, H!restart, Windows
    <2>3. FetchSees' /\ (fetch' = None \/ fetch' \in FetchStates)
      BY <2>1, RacedByKeeps
    <2>4. /\ window' \in [Streams -> Windows] /\ stored' \in [Streams -> Nat]
          /\ \A t \in Streams : /\ window'[t] = window[t] \/ window'[t] # "idle"
                               /\ stored'[t] \in {stored[t], stored[t] + 1}
      BY <1>0, <2>1, <2>2 DEF HistoryTypes
    <2>5. HistoryTypes'
      BY <1>0, <2>1, <2>3, <2>4 DEF HistoryTypes, FetchStates
    <2>6. \A t \in Streams : StreamOK(t)'
      BY <2>1, <2>4, StreamUnmoved
    <2> QED
      BY <2>3, <2>5, <2>6 DEF HistoryInv
  <1>3. ASSUME NEW s \in Streams, H!AddElsewhere(s) PROVE HistoryInv'
    <2>1. /\ stored' = [stored EXCEPT ![s] = stored[s] + 1]
          /\ UNCHANGED <<cons, leaked, adding, local, window, broken, fetch>>
      BY <1>3 DEF H!AddElsewhere, H!consVars, H!copyVars
    <2>2. HistoryTypes' /\ \A t \in Streams : stored'[t] \in {stored[t], stored[t] + 1}
      BY <1>0, <2>1 DEF HistoryTypes
    <2>3. \A t \in Streams : StreamOK(t)'
      BY <2>1, <2>2, StreamUnmoved
    <2> QED
      BY <2>1, <2>2, <2>3 DEF HistoryInv, FetchSees, Whole
  <1>4. ASSUME NEW s \in Streams, H!EntryExpires(s) PROVE HistoryInv'
    <2>1. /\ cons' = [cons EXCEPT ![s].stale = TRUE] /\ cons[s] # None
          /\ UNCHANGED <<stored, leaked, adding, local, window, broken, fetch>>
      BY <1>4 DEF H!EntryExpires, H!read, H!copyVars
    <2>2. cons[s] \in Entry /\ cons \in [Streams -> Entry \cup {None}]
      BY <1>0, <2>1 DEF HistoryTypes
    <2>3. [cons[s] EXCEPT !.stale = TRUE] \in Entry /\ [cons[s] EXCEPT !.stale = TRUE].next = cons[s].next
      BY <2>2 DEF Entry
    <2>4. cons' \in [Streams -> Entry \cup {None}] /\ cons'[s] \in Entry /\ cons'[s].next = cons[s].next
          /\ \A t \in Streams : t # s => cons'[t] = cons[t]
      BY <2>1, <2>2, <2>3
    <2>5. cons'[s] # None
      BY <2>4, MCHistoryAssumption DEF Entry, H!HistoryAssumption
    <2>6. HistoryTypes'
      BY <1>0, <2>1, <2>4 DEF HistoryTypes
    <2>7. \A t \in Streams : StreamOK(t)'
      BY <2>1, <2>4, <2>5, <2>6, StreamUnmoved DEF HistoryTypes
    <2> QED
      BY <2>1, <2>6, <2>7 DEF HistoryInv, FetchSees, Whole
  <1>5. ASSUME NEW s \in Streams, H!Subscribe(s) PROVE HistoryInv'
    <2>1. UNCHANGED <<stored, cons, leaked, local, broken>> /\ adding = None
      BY <1>5 DEF H!Subscribe
    <2>2. CASE H!read(s)
      <3>1. UNCHANGED <<adding, window, fetch>>
        BY <1>5, <2>2 DEF H!Subscribe
      <3>2. \A t \in Streams : StreamOK(t)'
        BY <1>0, <2>1, <3>1, StreamUnmoved DEF HistoryTypes
      <3> QED
        BY <2>1, <3>1, <3>2 DEF HistoryInv, HistoryTypes, FetchSees, Whole
    <2>3. CASE ~H!read(s)
      <3>1. /\ adding' = [stream |-> s, next |-> 1, left |-> HistoryLimit]
            /\ window' = [window EXCEPT ![s] = H!restart(window[s])] /\ H!RacedBy(s)
        BY <1>5, <2>3 DEF H!Subscribe, H!touch
      <3>2. H!restart(window[s]) \in Windows \ {"idle"}
        BY <1>0 DEF HistoryTypes, H!restart, Windows
      <3>3. FetchSees' /\ (fetch' = None \/ fetch' \in FetchStates)
        BY <2>1, <3>1, RacedByKeeps
      <3>4. /\ window' \in [Streams -> Windows]
            /\ \A t \in Streams : window'[t] = window[t] \/ window'[t] # "idle"
        BY <1>0, <3>1, <3>2 DEF HistoryTypes
      <3>5. adding' \in [stream : Streams, next : Nat, left : Nat] /\ adding'.next = 1
        BY <3>1, DurableStreamsAssumption
      <3>6. HistoryTypes'
        BY <1>0, <2>1, <3>3, <3>4, <3>5 DEF HistoryTypes, FetchStates
      <3>7. \A t \in Streams : StreamOK(t)'
        BY <2>1, <3>4, <3>5, StreamUnmoved
      <3> QED
        BY <3>3, <3>6, <3>7 DEF HistoryInv
    <2> QED
      BY <2>2, <2>3
  <1>6. CASE \/ UNCHANGED history
             \/ \E s \in Streams : H!SubscribeFails(s) \/ H!Unsubscribe(s)
    <2>1. UNCHANGED <<stored, cons, leaked, adding, local, window, broken, fetch>>
      BY <1>6 DEF history, H!SubscribeFails, H!Unsubscribe, H!copyVars
    <2>2. \A t \in Streams : StreamOK(t)'
      BY <1>0, <2>1, StreamUnmoved DEF HistoryTypes
    <2> QED
      BY <2>1, <2>2 DEF HistoryInv, HistoryTypes, FetchSees, Whole
  <1>7. ASSUME NEW s \in Streams, NEW offset \in 1 .. stored[s], H!HistoryFrom(s, offset) PROVE HistoryInv'
    <2>1. /\ fetch' = [stream |-> s, offset |-> offset, pc |-> "sync", raced |-> broken[s]]
          /\ UNCHANGED <<stored, cons, leaked, adding, local, window, broken>>
      BY <1>7 DEF H!HistoryFrom, H!consVars, H!copyVars
    <2>2. \A t \in Streams : StreamOK(t)'
      BY <1>0, <2>1, StreamUnmoved DEF HistoryTypes
    <2>3. fetch' \in FetchStates /\ fetch'.raced = broken[s] /\ fetch'.pc = "sync" /\ fetch'.stream = s
      <3>1. broken[s] \in BOOLEAN /\ offset \in Nat
        BY <1>0 DEF HistoryTypes
      <3> QED
        BY <2>1, <3>1 DEF FetchStates
    <2> QED
      BY <2>1, <2>2, <2>3 DEF HistoryInv, HistoryTypes, FetchSees, Whole, FetchStates
  <1>8. CASE H!sync
    <2>1. /\ fetch # None /\ fetch.pc = "sync" /\ window[fetch.stream] \in {"idle", "exhausted"}
          /\ fetch' = [fetch EXCEPT !.pc = "read", !.raced = @ \/ window[fetch.stream] = "exhausted"]
          /\ UNCHANGED <<stored, cons, leaked, adding, local, window, broken>>
      BY <1>8 DEF H!sync, H!consVars, H!copyVars
    <2>2. \A t \in Streams : StreamOK(t)'
      BY <1>0, <2>1, StreamUnmoved DEF HistoryTypes
    <2>3. fetch \in FetchStates
      BY <1>0, <2>1 DEF HistoryTypes, FetchStates
    <2>4. fetch' \in FetchStates /\ fetch'.pc = "read" /\ fetch'.stream = fetch.stream
          /\ fetch'.raced = (fetch.raced \/ window[fetch.stream] = "exhausted")
      BY <2>1, <2>3 DEF FetchStates
    <2>5. ~fetch'.raced => Whole(fetch.stream)
      BY <1>0, <2>1, <2>3, <2>4 DEF HistoryInv, StreamOK, HolesHidden, FetchSees, FetchStates
    <2> QED
      BY <2>1, <2>2, <2>4, <2>5 DEF HistoryInv, HistoryTypes, FetchSees, Whole, FetchStates
  <1>9. CASE H!ReadLocal
    <2>1. fetch' = None /\ UNCHANGED <<stored, cons, leaked, adding, local, window, broken>>
      BY <1>9 DEF H!ReadLocal, H!consVars, H!copyVars
    <2>2. \A t \in Streams : StreamOK(t)'
      BY <1>0, <2>1, StreamUnmoved DEF HistoryTypes
    <2> QED
      BY <2>1, <2>2 DEF HistoryInv, HistoryTypes, FetchSees
  <1> QED
    BY <1>1, <1>2, <1>3, <1>4, <1>5, <1>6, <1>7, <1>8, <1>9, IdleKeeps, DeliverKeeps,
       FetchBatchKeeps, ConsumerAddedKeeps
    DEF H!Next

(* A node that has copied nothing.                                         *)
LEMMA HistoryStarts == H!Init => HistoryInv
PROOF
  <1> SUFFICES ASSUME H!Init PROVE HistoryInv
    OBVIOUS
  <1>1. HistoryTypes
    BY DEF H!Init, HistoryTypes, Windows
  <1>2. ASSUME NEW s \in Streams PROVE StreamOK(s)
    <2>1. local[s] = <<>> /\ Len(<<>>) = 0 /\ <<>> \in Seq(Nat) /\ HistoryLimit \in Nat
      BY DurableStreamsAssumption DEF H!Init
    <2>2. NoHole(local[s], 0)
      BY <2>1 DEF NoHole
    <2>3. Copied(local[s], stored[s])
      BY <2>1, <2>2 DEF Copied
    <2>4. ConsumersAt(s) /\ HolesHidden(s)
      BY <2>2 DEF H!Init, ConsumersAt, HolesHidden, Whole
    <2> QED
      BY <2>3, <2>4 DEF StreamOK
  <1>3. FetchSees
    BY DEF H!Init, FetchSees
  <1> QED
    BY <1>1, <1>2, <1>3 DEF HistoryInv

(* The end of a sequence, after m items.                                   *)
LEMMA EndOf ==
  ASSUME NEW q \in Seq(Nat), NEW m \in 1 .. Len(q)
  PROVE  /\ Len(SubSeq(q, m + 1, Len(q))) = Len(q) - m
         /\ SubSeq(q, m + 1, Len(q)) = [i \in 1 .. (Len(q) - m) |-> q[m + i]]
PROOF
  <1> DEFINE a1 == SubSeq(q, m + 1, Len(q))
  <1>1. Len(q) \in Nat /\ m \in Nat /\ m <= Len(q)
    OBVIOUS
  <1>2. \A i \in (m + 1) .. Len(q) : q[i] \in Nat
    BY <1>1
  <1>3. a1 \in Seq(Nat) /\ Len(a1) = Len(q) - m
    BY <1>1, <1>2
  <1>4. \A i \in 1 .. (Len(q) - m) : a1[i] = q[m + i]
    BY <1>1, <1>2
  <1>5. a1 = [i \in 1 .. (Len(q) - m) |-> a1[i]]
    <2> HIDE DEF a1
    <2> QED
      BY <1>3
  <1> HIDE DEF a1
  <1>6. a1 = [i \in 1 .. (Len(q) - m) |-> q[m + i]]
    BY <1>4, <1>5
  <1> QED
    BY <1>3, <1>6 DEF a1

(* What follows an offset of a sequence without a hole.                    *)
LEMMA AnswerHasNoHole ==
  ASSUME NEW q \in Seq(Nat), NoHole(q, 0), NEW offset \in Nat, H!filterByOffset(q, offset) # None
  PROVE  H!filterByOffset(q, offset)
           = [i \in 1 .. Len(H!filterByOffset(q, offset)) |-> offset + i]
PROOF
  <1> DEFINE place == offset - Head(q) + 1
             a1 == SubSeq(q, place + 1, Len(q))
  <1>0. q # <<>>
    BY DEF H!filterByOffset
  <1>1. ~(Head(q) > offset) /\ ~(place > Len(q)) /\ H!filterByOffset(q, offset) = a1
    BY DEF H!filterByOffset
  <1>2. Len(q) \in Nat /\ 1 \in 1 .. Len(q) /\ q[1] \in Nat
    <2>1. Len(q) \in Nat /\ Len(q) # 0
      BY ONLY <1>0, q \in Seq(Nat)
    <2>2. 1 \in 1 .. Len(q)
      BY ONLY <2>1
    <2> QED
      BY ONLY <2>1, <2>2, q \in Seq(Nat)
  <1>h. Head(q) = q[1]
    BY ONLY <1>0, q \in Seq(Nat)
  <1>3. place \in 1 .. Len(q) /\ place = offset - q[1] + 1
    <2>1. place = offset - q[1] + 1
      BY <1>h
    <2>2. ~(q[1] > offset) /\ ~(place > Len(q))
      BY <1>1, <1>h
    <2> HIDE DEF place
    <2> QED
      BY ONLY <1>2, <2>1, <2>2, offset \in Nat
  <1>p. PICK m \in 1 .. Len(q) : m = place
    BY <1>3
  <1>4. Len(a1) = Len(q) - m /\ a1 = [i \in 1 .. (Len(q) - m) |-> q[m + i]]
    <2> HIDE DEF place
    <2> QED
      BY <1>p, EndOf
  <1>5. ASSUME NEW i \in 1 .. (Len(q) - m) PROVE q[m + i] = offset + i
    <2>1. m = offset - q[1] + 1 /\ m \in Nat /\ i \in Nat
      <3> HIDE DEF place
      <3> QED
        BY <1>3, <1>p
    <2>2. m + i \in 1 .. Len(q) /\ m + i \in Nat
      BY ONLY <1>2, m \in 1 .. Len(q), i \in 1 .. (Len(q) - m)
    <2>3. q[m + i] = q[1] + (m + i) - 1
      BY ONLY <1>2, <2>2, NoHole(q, 0) DEF NoHole
    <2>4. \A r, t, u, v, w : r \in Int /\ t \in Int /\ u \in Int /\ v \in Int
             /\ r = u - t + 1 /\ w = t + (r + v) - 1 => w = u + v
      OBVIOUS
    <2>5. m \in Int /\ q[1] \in Int /\ offset \in Int /\ i \in Int
      BY ONLY <1>2, <2>1, offset \in Nat
    <2> QED
      BY ONLY <2>1, <2>3, <2>4, <2>5, Zenon
  <1> HIDE DEF a1
  <1>6. a1 = [i \in 1 .. (Len(q) - m) |-> offset + i]
    BY <1>4, <1>5
  <1> QED
    BY <1>1, <1>4, <1>6

(* For every history limit, every number of streams and messages and every *)
(* interleaving of publications, of the consumer that copies them into the *)
(* in-memory broker, of its restarts and of the requests for history: what *)
(* HistoryFrom of the NATS broker answers is the offsets after the asked   *)
(* one without a hole (unless messages came between the wait and the read, *)
(* the window was open for too long, or the stream lost its consumer).     *)
THEOREM HistoryHasNoHole == MCSpec => []AnswersContiguous
PROOF
  <1>1. MCInit => HistoryInv
    BY HistoryStarts DEF MCInit
  <1>2. HistoryInv /\ [MCNext]_all => HistoryInv'
    BY OnePartMoves, HistoryStep
  <1>3. HistoryInv => AnswersContiguous
    <2> SUFFICES ASSUME HistoryInv, H!Reading, ~fetch.raced, H!Answer # None
                 PROVE  H!Answer = [i \in 1 .. Len(H!Answer) |-> fetch.offset + i]
      BY DEF AnswersContiguous, H!AnswersContiguous
    <2>1. fetch \in FetchStates /\ Whole(fetch.stream) /\ local[fetch.stream] \in Seq(Nat)
      BY DEF HistoryInv, HistoryTypes, FetchSees, H!Reading, FetchStates
    <2>2. fetch.offset \in Nat /\ NoHole(local[fetch.stream], 0)
      BY <2>1 DEF FetchStates, Whole
    <2> QED
      BY <2>1, <2>2, AnswerHasNoHole DEF H!Answer
  <1> QED
    BY <1>1, <1>2, <1>3, PTL DEF MCSpec, all
=============================================================================
