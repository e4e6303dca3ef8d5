---------------------------- MODULE AccessProofs ----------------------------
(***************************************************************************)
(* What sessions may do, the client for the RPC that they make and the hub *)
(* they are registered in, for any number of callers, sessions, streams,   *)
(* channels and users, any configuration and commands.                     *)
(***************************************************************************)
EXTENDS MCHub, FiniteSetTheorems, TLAPS

-----------------------------------------------------------------------------
(* RpcClient: the inductive invariant.                                     *)

CallPlaces == {"ready", "check", "send", "sent", "wait", "ended"}
ConnStates == {"ready", "connecting", "failure"}

RpcTypes ==
    /\ impl \in {"grpc", "http"} /\ conn \in ConnStates /\ recovering \in BOOLEAN
    /\ stale \subseteq Callers /\ tries \in Nat
    /\ breaker \in [state : {"closed", "open", "half"}, generation : Nat, requests : Nat,
                    successes : Nat]
    /\ call \in [Callers -> [at : CallPlaces, saw : ConnStates, generation : Nat]]

(* Callers that have read a good state of the connection and not acted on  *)
(* it, and those of the stale ones that have.                              *)
Misled == {c \in Callers : call[c].at = "check" /\ call[c].saw # "failure"}
Settled == stale \ Misled

(* During an outage each settled stale caller has reset recovering at most *)
(* once, and so made one more try possible.                                *)
TriesCounted ==
    /\ tries <= 1 + Cardinality(stale)
    /\ conn = "failure" =>
          /\ Misled \subseteq stale
          /\ tries <= 1 + Cardinality(Settled)
          /\ ~recovering => tries <= Cardinality(Settled)

(* The requests that a half-open breaker has let through are under way or  *)
(* have succeeded.                                                         *)
UnderWay == {c \in Callers : call[c].at = "sent" /\ call[c].generation = breaker.generation}

RequestsCounted ==
    /\ impl = "grpc" => breaker.state = "closed"
    /\ \A c \in Callers : call[c].generation <= breaker.generation
    /\ breaker.state = "half" =>
          /\ breaker.successes < MaxRequests
          /\ breaker.requests = breaker.successes + Cardinality(UnderWay)

(* What is assumed of the callers and the requests of the RPC client.      *)
LEMMA RpcConstants == IsFiniteSet(Callers) /\ MaxRequests \in Nat /\ MaxRequests > 0
  <1>1. IsFiniteSet(Callers) /\ MaxRequests \in Nat \ {0}
    BY MCRpcAssumption, Zenon DEF C!RpcClientAssumption, C!IsFiniteSet, IsFiniteSet
  <1> QED
    BY <1>1

(* A caller's place changes, and nothing else of its call.                 *)
LEMMA CallGoes ==
    ASSUME RpcTypes, NEW c \in Callers, NEW p \in CallPlaces, C!Goes(c, p)
    PROVE  /\ call' \in [Callers -> [at : CallPlaces, saw : ConnStates, generation : Nat]]
           /\ call'[c].at = p /\ call'[c].saw = call[c].saw
           /\ call'[c].generation = call[c].generation
           /\ \A d \in Callers : d # c => call'[d] = call[d]
  <1>1. /\ call' = [call EXCEPT ![c] = [call[c] EXCEPT !.at = p]]
        /\ call \in [Callers -> [at : CallPlaces, saw : ConnStates, generation : Nat]]
    BY DEF C!Goes, RpcTypes
  <1>2. call[c] \in [at : CallPlaces, saw : ConnStates, generation : Nat]
    BY <1>1
  <1>3. LET r == [call[c] EXCEPT !.at = p] IN
        /\ r \in [at : CallPlaces, saw : ConnStates, generation : Nat]
        /\ r.at = p /\ r.saw = call[c].saw /\ r.generation = call[c].generation
    BY <1>2
  <1> QED
    BY <1>1, <1>3

(* What the report of a request does to the breaker.                       *)
LEMMA ReportedForm ==
    ASSUME RpcTypes, NEW success \in BOOLEAN, NEW g \in Nat, NEW b \in C!Reported(success, g)
    PROVE  \/ b = breaker /\ (g # breaker.generation \/ breaker.state = "closed")
           \/ /\ g = breaker.generation /\ b.state \in {"open", "closed"}
              /\ b = [state |-> b.state, generation |-> g + 1, requests |-> 0, successes |-> 0]
           \/ /\ g = breaker.generation /\ breaker.state # "closed"
              /\ b = [breaker EXCEPT !.successes = breaker.successes + 1]
              /\ ~(breaker.successes + 1 >= MaxRequests)
  <1>1. breaker \in [state : {"closed", "open", "half"}, generation : Nat, requests : Nat,
                     successes : Nat]
    BY DEF RpcTypes
  <1>2. [breaker EXCEPT !.successes = @ + 1].successes = breaker.successes + 1
    BY <1>1
  <1>3. CASE g # breaker.generation
    BY <1>3 DEF C!Reported
  <1>4. CASE g = breaker.generation /\ breaker.state = "closed"
    BY <1>4 DEF C!Reported, C!NewBreaker
  <1>5. CASE g = breaker.generation /\ breaker.state = "half" /\ ~success
    BY <1>5 DEF C!Reported, C!NewBreaker
  <1>6. CASE /\ g = breaker.generation /\ breaker.state # "closed"
             /\ ~(breaker.state = "half" /\ ~success)
    <2>1. CASE breaker.successes + 1 >= MaxRequests
      BY <2>1, <1>2, <1>6 DEF C!Reported, C!NewBreaker
    <2>2. CASE ~(breaker.successes + 1 >= MaxRequests)
      BY <2>2, <1>2, <1>6 DEF C!Reported, C!NewBreaker
    <2> QED
      BY <2>1, <2>2
  <1> QED
    BY <1>3, <1>4, <1>5, <1>6

(* The requests under way can be counted.                                  *)
LEMMA UnderWayFinite ==
    /\ IsFiniteSet(UnderWay) /\ Cardinality(UnderWay) \in Nat
    /\ IsFiniteSet(UnderWay') /\ Cardinality(UnderWay') \in Nat
  <1>1. UnderWay \subseteq Callers /\ UnderWay' \subseteq Callers
    BY DEF UnderWay
  <1> QED
    BY <1>1, RpcConstants, FS_Subset, FS_CardinalityType

(* So can the stale callers, of which those settled are a part.            *)
LEMMA StaleFinite ==
    ASSUME RpcTypes
    PROVE  /\ IsFiniteSet(stale) /\ Cardinality(stale) \in Nat
           /\ IsFiniteSet(Settled) /\ Cardinality(Settled) \in Nat
           /\ Cardinality(Settled) <= Cardinality(stale)
  <1>1. stale \subseteq Callers /\ Settled \subseteq stale
    BY DEF RpcTypes, Settled
  <1>2. IsFiniteSet(stale)
    BY <1>1, RpcConstants, FS_Subset
  <1> QED
    BY <1>1, <1>2, FS_Subset, FS_CardinalityType

-----------------------------------------------------------------------------
(* The outage. *)

(* Callers that do not act on the state of the connection.                 *)
LEMMA TriesKept ==
    ASSUME TriesCounted, UNCHANGED <<conn, recovering, stale, tries>>, Misled' = Misled
    PROVE  TriesCounted'
  BY DEF TriesCounted, Settled

(* A connection that fails, and the tries counted.                         *)
LEMMA TriesConnFails ==
    ASSUME RpcTypes, TriesCounted, C!ConnFails
    PROVE  RpcTypes' /\ TriesCounted'
  <1>1. stale' = Misled /\ Misled' = Misled /\ tries' = 0 /\ conn' = "failure"
    BY DEF C!ConnFails, Misled
  <1>2. RpcTypes'
    BY DEF C!ConnFails, RpcTypes, ConnStates
  <1>3. Settled' = {} /\ Misled' \subseteq stale'
    BY <1>1 DEF Settled
  <1>4. Cardinality(stale') \in Nat
    <2>1. stale' \subseteq Callers
      BY <1>2 DEF RpcTypes
    <2> QED
      BY <2>1, RpcConstants, FS_Subset, FS_CardinalityType
  <1>5. Cardinality(Settled') = 0
    BY <1>3, FS_EmptySet
  <1> QED
    BY <1>1, <1>2, <1>3, <1>4, <1>5 DEF TriesCounted

(* A caller that finds the connection ready, and the tries counted.        *)
LEMMA TriesReady ==
    ASSUME RpcTypes, TriesCounted, NEW c \in Callers, C!Ready(c)
    PROVE  TriesCounted'
  <1>1. call[c].at = "check" /\ UNCHANGED <<conn, stale>>
    BY DEF C!Ready
  <1>2. PICK p \in {"ended", "send"} : C!Goes(c, p)
    BY DEF C!Ready, C!tryRecover, C!reset
  <1>3. call'[c].at # "check" /\ \A d \in Callers : d # c => call'[d] = call[d]
    BY <1>2, CallGoes DEF CallPlaces
  <1>4. Misled' = Misled \ {c}
    BY <1>3 DEF Misled
  <1>5. /\ IsFiniteSet(stale) /\ Cardinality(stale) \in Nat
        /\ IsFiniteSet(Settled) /\ Cardinality(Settled) \in Nat /\ tries \in Nat
    BY StaleFinite DEF RpcTypes
  <1>6. CASE call[c].saw = "failure"
    <2>1. Misled' = Misled /\ Settled' = Settled
      BY <1>1, <1>4, <1>6 DEF Misled, Settled
    <2>2. C!tryRecover(c)
      BY <1>6 DEF C!Ready
    <2>3. CASE recovering
      BY <2>1, <2>2, <2>3, <1>1, TriesKept DEF C!tryRecover
    <2>4. CASE ~recovering
      <3>1. recovering' /\ tries' = IF conn = "failure" THEN tries + 1 ELSE tries
        BY <2>2, <2>4 DEF C!tryRecover
      <3>2. CASE conn # "failure"
        BY <3>1, <3>2, <1>1 DEF TriesCounted
      <3>3. CASE conn = "failure"
        <4>1. tries <= Cardinality(Settled) /\ Misled \subseteq stale
          BY <3>3, <2>4 DEF TriesCounted
        <4>2. tries' <= 1 + Cardinality(Settled')
          BY <3>1, <3>3, <4>1, <2>1, <1>5
        <4>3. tries' <= 1 + Cardinality(stale')
          BY <3>1, <3>3, <4>1, <1>1, <1>5, StaleFinite
        <4> QED
          BY <4>1, <4>2, <4>3, <3>1, <2>1, <1>1 DEF TriesCounted
      <3> QED
        BY <3>2, <3>3
    <2> QED
      BY <2>3, <2>4
  <1>7. CASE call[c].saw # "failure"
    <2>1. tries' = tries
      BY <1>7 DEF C!Ready, C!reset
    <2>2. CASE conn # "failure"
      BY <2>1, <2>2, <1>1 DEF TriesCounted
    <2>3. CASE conn = "failure"
      <3>1. c \in Misled /\ c \in stale /\ c \notin Settled
        BY <2>3, <1>1, <1>7 DEF Misled, TriesCounted, Settled
      <3>2. Settled' = Settled \cup {c}
        BY <3>1, <1>1, <1>4 DEF Settled
      <3>3. Cardinality(Settled') = Cardinality(Settled) + 1
        BY <3>1, <3>2, <1>5, FS_AddElement
      <3>4. tries' <= 1 + Cardinality(Settled') /\ tries' <= Cardinality(Settled')
        BY <3>3, <2>1, <2>3, <1>5 DEF TriesCounted
      <3> QED
        BY <3>4, <2>1, <2>3, <1>1, <1>4 DEF TriesCounted
    <2> QED
      BY <2>2, <2>3
  <1> QED
    BY <1>6, <1>7

(* A connection that is made, and the tries counted.                       *)
LEMMA TypesConnects ==
    ASSUME RpcTypes, TriesCounted, C!Connects
    PROVE  RpcTypes' /\ TriesCounted'
  <1>1. conn' \in ConnStates \ {"failure"}
    BY DEF C!Connects, ConnStates, RpcTypes
  <1>2. UNCHANGED <<impl, recovering, stale, tries, breaker, call>>
    BY DEF C!Connects
  <1> QED
    BY <1>1, <1>2 DEF RpcTypes, TriesCounted

(* A caller that sees a connection in failure is not misled by it.         *)
LEMMA TypesGetState ==
    ASSUME RpcTypes, TriesCounted, NEW c \in Callers, C!GetState(c)
    PROVE  /\ RpcTypes' /\ TriesCounted'
           /\ call'[c].at = "check" /\ call'[c].generation = call[c].generation
           /\ \A d \in Callers : d # c => call'[d] = call[d]
  <1>1. /\ UNCHANGED <<impl, conn, recovering, stale, tries, breaker>> /\ call[c].at = "ready"
        /\ call' = [call EXCEPT ![c].at = "check", ![c].saw = conn]
        /\ call \in [Callers -> [at : CallPlaces, saw : ConnStates, generation : Nat]]
        /\ conn \in ConnStates
    BY DEF C!GetState, C!KeepTransport, C!transport, RpcTypes
  <1>2. /\ call'[c] = [call[c] EXCEPT !.at = "check", !.saw = conn]
        /\ \A d \in Callers : d # c => call'[d] = call[d]
        /\ DOMAIN call' = Callers /\ call' = [d \in Callers |-> call'[d]]
    BY <1>1
  <1>3. call[c] \in [at : CallPlaces, saw : ConnStates, generation : Nat]
    BY <1>1
  <1>4. /\ call'[c] \in [at : CallPlaces, saw : ConnStates, generation : Nat]
        /\ call'[c].at = "check" /\ call'[c].saw = conn
        /\ call'[c].generation = call[c].generation
    BY <1>1, <1>2, <1>3 DEF CallPlaces
  <1>5. call' \in [Callers -> [at : CallPlaces, saw : ConnStates, generation : Nat]]
    BY <1>1, <1>2, <1>4
  <1>6. RpcTypes'
    BY <1>1, <1>5 DEF RpcTypes
  <1>7. CASE conn = "failure"
    <2>1. Misled' = Misled
      BY <1>1, <1>2, <1>4, <1>7 DEF Misled
    <2> QED
      BY <2>1, <1>1, <1>2, <1>4, <1>6, TriesKept
  <1>8. CASE conn # "failure"
    BY <1>1, <1>2, <1>4, <1>6, <1>8 DEF TriesCounted
  <1> QED
    BY <1>7, <1>8

-----------------------------------------------------------------------------
(* The breaker. *)

(* A request that is sent joins those under way.                           *)
LEMMA RpcSend ==
    ASSUME RpcTypes, TriesCounted, RequestsCounted, NEW c \in Callers, C!Send(c)
    PROVE  RpcTypes' /\ TriesCounted' /\ RequestsCounted'
  <1>1. /\ UNCHANGED <<impl, conn, recovering, stale, tries>> /\ call[c].at = "send"
        /\ call \in [Callers -> [at : CallPlaces, saw : ConnStates, generation : Nat]]
        /\ breaker \in [state : {"closed", "open", "half"}, generation : Nat, requests : Nat,
                        successes : Nat]
    BY DEF C!Send, C!transport, RpcTypes
  <1>2. CASE /\ C!Goes(c, "ended") \/ (C!Goes(c, "sent") /\ impl # "http")
             /\ UNCHANGED breaker
    <2>1. PICK p \in {"ended", "sent"} : C!Goes(c, p) /\ (p = "sent" => impl # "http")
      BY <1>2
    <2>2. /\ call' \in [Callers -> [at : CallPlaces, saw : ConnStates, generation : Nat]]
          /\ call'[c].at = p /\ call'[c].generation = call[c].generation
          /\ \A d \in Callers : d # c => call'[d] = call[d]
      BY <2>1, CallGoes DEF CallPlaces
    <2>3. RpcTypes' /\ Misled' = Misled
      BY <1>1, <1>2, <2>2 DEF RpcTypes, Misled
    <2>4. CASE p = "ended"
      <3>1. UnderWay' = UnderWay
        BY <1>1, <1>2, <2>2, <2>4 DEF UnderWay
      <3>2. \A d \in Callers : call'[d].generation <= breaker'.generation
        BY <1>2, <2>2 DEF RequestsCounted
      <3> QED
        BY <3>1, <3>2, <2>3, <1>1, <1>2, TriesKept DEF RequestsCounted
    <2>5. CASE p = "sent"
      <3>1. breaker.state = "closed"
        BY <1>1, <2>1, <2>5 DEF RequestsCounted, RpcTypes
      <3>2. \A d \in Callers : call'[d].generation <= breaker'.generation
        BY <1>2, <2>2 DEF RequestsCounted
      <3> QED
        BY <3>1, <3>2, <2>3, <1>1, <1>2, TriesKept DEF RequestsCounted
    <2> QED
      BY <2>4, <2>5
  <1>3. CASE /\ C!Allow /\ impl = "http"
             /\ breaker' = IF breaker.state = "half" THEN [breaker EXCEPT !.requests = @ + 1]
                           ELSE breaker
             /\ call' = [call EXCEPT ![c].at = "sent", ![c].generation = breaker.generation]
    <2>1. call'[c] = [call[c] EXCEPT !.at = "sent", !.generation = breaker.generation]
      BY <1>1, <1>3
    <2>2. /\ \A d \in Callers : d # c => call'[d] = call[d]
          /\ DOMAIN call' = Callers /\ call' = [d \in Callers |-> call'[d]]
      BY <1>1, <1>3
    <2>3. call[c] \in [at : CallPlaces, saw : ConnStates, generation : Nat]
      BY <1>1
    <2>4. /\ call'[c] \in [at : CallPlaces, saw : ConnStates, generation : Nat]
          /\ call'[c].at = "sent" /\ call'[c].generation = breaker.generation
      BY <1>1, <2>1, <2>3 DEF CallPlaces
    <2>5. call' \in [Callers -> [at : CallPlaces, saw : ConnStates, generation : Nat]]
      BY <1>1, <2>2, <2>4
    <2>6. /\ breaker' \in [state : {"closed", "open", "half"}, generation : Nat, requests : Nat,
                            successes : Nat]
          /\ breaker'.state = breaker.state /\ breaker'.generation = breaker.generation
          /\ breaker'.successes = breaker.successes
          /\ breaker.state = "half" => breaker'.requests = breaker.requests + 1
      BY <1>1, <1>3
    <2>7. \A d \in Callers : d # c => call'[d] = call[d]
      BY <2>2
    <2>8. RpcTypes' /\ Misled' = Misled
      BY <1>1, <2>7, <2>4, <2>5, <2>6 DEF RpcTypes, Misled
    <2>9. c \notin UnderWay /\ UnderWay' = UnderWay \cup {c}
      BY <1>1, <2>7, <2>4, <2>6 DEF UnderWay
    <2>10. Cardinality(UnderWay') = Cardinality(UnderWay) + 1 /\ Cardinality(UnderWay) \in Nat
      BY <2>9, UnderWayFinite, FS_AddElement
    <2>11. \A d \in Callers : call'[d].generation <= breaker'.generation
      BY <1>1, <2>7, <2>4, <2>6 DEF RequestsCounted
    <2>12. breaker.state = "half" =>
              breaker'.requests = breaker'.successes + Cardinality(UnderWay')
      BY <1>1, <2>6, <2>10 DEF RequestsCounted
    <2> QED
      BY <2>6, <2>8, <2>11, <2>12, <1>1, <1>3, TriesKept DEF RequestsCounted
  <1> QED
    BY <1>2, <1>3 DEF C!Send

(* A request that ends leaves those under way and is reported, if its      *)
(* generation is still the breaker's; a new generation has none.           *)
LEMMA RpcReports ==
    ASSUME RpcTypes, TriesCounted, RequestsCounted, NEW c \in Callers, NEW answered \in BOOLEAN,
           NEW p \in {"ended", "wait"}, call[c].at = "sent", C!Goes(c, p),
           C!Reports(c, answered), UNCHANGED <<impl, C!transport>>
    PROVE  RpcTypes' /\ TriesCounted' /\ RequestsCounted'
  <1>1. /\ UNCHANGED <<impl, conn, recovering, stale, tries>>
        /\ call \in [Callers -> [at : CallPlaces, saw : ConnStates, generation : Nat]]
        /\ breaker \in [state : {"closed", "open", "half"}, generation : Nat, requests : Nat,
                        successes : Nat]
        /\ call[c].generation \in Nat
    BY DEF C!transport, RpcTypes
  <1>2. /\ call' \in [Callers -> [at : CallPlaces, saw : ConnStates, generation : Nat]]
        /\ call'[c].at = p /\ call'[c].generation = call[c].generation
        /\ \A d \in Callers : d # c => call'[d] = call[d]
    BY CallGoes DEF CallPlaces
  <1>3. Misled' = Misled
    BY <1>1, <1>2 DEF Misled
  <1>4. TriesCounted'
    BY <1>1, <1>3, TriesKept
  <1>5. CASE UNCHANGED breaker /\ (impl # "http" \/ call[c].generation # breaker.generation
                                   \/ breaker.state = "closed")
    <2>1. RpcTypes'
      BY <1>1, <1>2, <1>5 DEF RpcTypes
    <2>2. \A d \in Callers : call'[d].generation <= breaker'.generation
      BY <1>2, <1>5 DEF RequestsCounted
    <2>3. CASE breaker.state = "closed"
      BY <2>1, <2>2, <2>3, <1>1, <1>4, <1>5 DEF RequestsCounted
    <2>4. CASE breaker.state # "closed"
      <3>1. call[c].generation # breaker.generation
        BY <1>5, <2>4, <1>1 DEF RequestsCounted, RpcTypes
      <3>2. UnderWay' = UnderWay
        BY <3>1, <1>2, <1>5 DEF UnderWay
      <3> QED
        BY <3>2, <2>1, <2>2, <1>1, <1>4, <1>5 DEF RequestsCounted
    <2> QED
      BY <2>3, <2>4
  <1>6. CASE /\ impl = "http" /\ call[c].generation = breaker.generation
             /\ breaker'.state \in {"open", "closed"}
             /\ breaker' = [state |-> breaker'.state, generation |-> call[c].generation + 1,
                            requests |-> 0, successes |-> 0]
    <2>1. /\ breaker' \in [state : {"closed", "open", "half"}, generation : Nat, requests : Nat,
                            successes : Nat]
          /\ breaker'.generation = breaker.generation + 1
      BY <1>1, <1>6
    <2>2. RpcTypes'
      BY <1>1, <1>2, <2>1 DEF RpcTypes
    <2>3. \A d \in Callers : call'[d].generation <= breaker'.generation
      BY <1>1, <1>2, <2>1 DEF RequestsCounted
    <2> QED
      BY <2>2, <2>3, <1>1, <1>4, <1>6 DEF RequestsCounted
  <1>7. CASE /\ impl = "http" /\ call[c].generation = breaker.generation
             /\ breaker.state # "closed"
             /\ breaker' = [breaker EXCEPT !.successes = breaker.successes + 1]
             /\ ~(breaker.successes + 1 >= MaxRequests)
    <2>1. /\ breaker' \in [state : {"closed", "open", "half"}, generation : Nat, requests : Nat,
                            successes : Nat]
          /\ breaker'.state = breaker.state /\ breaker'.generation = breaker.generation
          /\ breaker'.requests = breaker.requests /\ breaker'.successes = breaker.successes + 1
      BY <1>1, <1>7
    <2>2. RpcTypes'
      BY <1>1, <1>2, <2>1 DEF RpcTypes
    <2>3. \A d \in Callers : call'[d].generation <= breaker'.generation
      BY <1>1, <1>2, <2>1 DEF RequestsCounted
    <2>4. c \in UnderWay /\ UnderWay' = UnderWay \ {c}
      BY <1>1, <1>2, <1>7, <2>1 DEF UnderWay
    <2>5. Cardinality(UnderWay') = Cardinality(UnderWay) - 1 /\ Cardinality(UnderWay) \in Nat
      BY <2>4, UnderWayFinite, FS_RemoveElement
    <2>6. breaker'.state = "half" =>
             /\ breaker'.successes < MaxRequests
             /\ breaker'.requests = breaker'.successes + Cardinality(UnderWay')
      BY <1>1, <1>7, <2>1, <2>5, RpcConstants DEF RequestsCounted
    <2> QED
      BY <2>2, <2>3, <2>6, <1>1, <1>4, <1>7 DEF RequestsCounted
  <1>8. CASE impl # "http"
    BY <1>5, <1>8 DEF C!Reports
  <1>9. CASE impl = "http"
    <2>1. breaker' \in C!Reported(answered, call[c].generation)
      BY <1>9 DEF C!Reports
    <2> QED
      BY <2>1, <1>1, <1>5, <1>6, <1>7, <1>9, ReportedForm
  <1> QED
    BY <1>8, <1>9

(* The half-open generation is new, and has no requests.                   *)
LEMMA RpcBreakerTimeout ==
    ASSUME RpcTypes, TriesCounted, RequestsCounted, C!BreakerTimeout
    PROVE  RpcTypes' /\ TriesCounted' /\ RequestsCounted'
  <1>1. /\ UNCHANGED <<impl, conn, recovering, stale, tries, call>> /\ breaker.state = "open"
        /\ call \in [Callers -> [at : CallPlaces, saw : ConnStates, generation : Nat]]
        /\ breaker.generation \in Nat
        /\ breaker' = [state |-> "half", generation |-> breaker.generation + 1, requests |-> 0,
                       successes |-> 0]
    BY DEF C!BreakerTimeout, C!NewBreaker, C!transport, RpcTypes
  <1>2. RpcTypes' /\ Misled' = Misled
    BY <1>1 DEF RpcTypes, Misled
  <1>3. \A d \in Callers : call'[d].generation < breaker'.generation
    BY <1>1 DEF RequestsCounted
  <1>4. UnderWay' = {}
    BY <1>1, <1>3 DEF UnderWay
  <1>5. Cardinality(UnderWay') = 0
    BY <1>4, FS_EmptySet
  <1>6. \A d \in Callers : call'[d].generation <= breaker'.generation
    BY <1>1, <1>3
  <1> QED
    BY <1>1, <1>2, <1>5, <1>6, TriesKept, RpcConstants DEF RequestsCounted

(* Calls that are not sent, before and after, do not concern the breaker.  *)
LEMMA RequestsKept ==
    ASSUME RpcTypes, RequestsCounted, NEW c \in Callers, UNCHANGED <<impl, breaker>>,
           call[c].at # "sent", call'[c].at # "sent",
           call'[c].generation = call[c].generation \/ call'[c].generation = 0,
           \A d \in Callers : d # c => call'[d] = call[d]
    PROVE  RequestsCounted'
  <1>1. UnderWay' = UnderWay
    BY DEF UnderWay
  <1>2. breaker.generation \in Nat
    BY DEF RpcTypes
  <1>3. \A d \in Callers : call'[d].generation <= breaker'.generation
    BY <1>2 DEF RequestsCounted
  <1> QED
    BY <1>1, <1>3 DEF RequestsCounted

(* Steps that only move a call.                                            *)
LEMMA RpcGoes ==
    ASSUME RpcTypes, TriesCounted, RequestsCounted, NEW c \in Callers,
           NEW p \in CallPlaces \ {"sent", "check"}, C!Goes(c, p), C!KeepTransport,
           call[c].at \notin {"sent", "check"}
    PROVE  RpcTypes' /\ TriesCounted' /\ RequestsCounted'
  <1>1. UNCHANGED <<impl, conn, recovering, stale, tries, breaker>>
    BY DEF C!KeepTransport, C!transport
  <1>2. /\ call' \in [Callers -> [at : CallPlaces, saw : ConnStates, generation : Nat]]
        /\ call'[c].at = p /\ call'[c].generation = call[c].generation
        /\ \A d \in Callers : d # c => call'[d] = call[d]
    BY CallGoes
  <1>3. RpcTypes' /\ Misled' = Misled
    BY <1>1, <1>2 DEF RpcTypes, Misled
  <1> QED
    BY <1>1, <1>2, <1>3, TriesKept, RequestsKept

(* A caller starts its next call.                                          *)
LEMMA RpcNextCall ==
    ASSUME RpcTypes, TriesCounted, RequestsCounted, NEW c \in Callers, C!NextCall(c)
    PROVE  RpcTypes' /\ TriesCounted' /\ RequestsCounted'
  <1>1. /\ UNCHANGED <<impl, conn, recovering, stale, tries, breaker>> /\ call[c].at = "ended"
        /\ call \in [Callers -> [at : CallPlaces, saw : ConnStates, generation : Nat]]
        /\ call' = [call EXCEPT ![c] = C!NewCall]
    BY DEF C!NextCall, C!KeepTransport, C!transport, RpcTypes
  <1>2. /\ C!NewCall \in [at : CallPlaces, saw : ConnStates, generation : Nat]
        /\ C!NewCall.at = "ready" /\ C!NewCall.generation = 0
    BY DEF C!NewCall, CallPlaces, ConnStates
  <1>3. /\ call' \in [Callers -> [at : CallPlaces, saw : ConnStates, generation : Nat]]
        /\ call'[c].at = "ready" /\ call'[c].generation = 0
        /\ \A d \in Callers : d # c => call'[d] = call[d]
    BY <1>1, <1>2
  <1>4. RpcTypes' /\ Misled' = Misled
    BY <1>1, <1>3 DEF RpcTypes, Misled
  <1> QED
    BY <1>1, <1>3, <1>4, TriesKept, RequestsKept

(* A caller finds the connection ready.                                    *)
LEMMA RpcReady ==
    ASSUME RpcTypes, TriesCounted, RequestsCounted, NEW c \in Callers, C!Ready(c)
    PROVE  RpcTypes' /\ TriesCounted' /\ RequestsCounted'
  <1>1. call[c].at = "check" /\ UNCHANGED <<impl, conn, stale, breaker>>
    BY DEF C!Ready
  <1>2. PICK p \in {"ended", "send"} : C!Goes(c, p)
    BY DEF C!Ready, C!tryRecover, C!reset
  <1>3. /\ call' \in [Callers -> [at : CallPlaces, saw : ConnStates, generation : Nat]]
        /\ call'[c].at = p /\ call'[c].generation = call[c].generation
        /\ \A d \in Callers : d # c => call'[d] = call[d]
    BY <1>2, CallGoes DEF CallPlaces
  <1>4. recovering' \in BOOLEAN
    BY DEF C!Ready, C!tryRecover, C!reset, RpcTypes
  <1>5. tries \in Nat
    BY DEF RpcTypes
  <1>6. tries' \in Nat
    BY <1>5 DEF C!Ready, C!tryRecover, C!reset
  <1>7. RpcTypes'
    BY <1>1, <1>3, <1>4, <1>6 DEF RpcTypes
  <1> QED
    BY <1>1, <1>3, <1>7, TriesReady, RequestsKept

RpcInvariant == RpcTypes /\ TriesCounted /\ RequestsCounted

(* The invariant of the RPC client holds at the start.                     *)
LEMMA RpcInit ==
    ASSUME C!Init
    PROVE  RpcInvariant
  <1>1. RpcTypes
    BY DEF C!Init, C!NewBreaker, C!NewCall, RpcTypes, ConnStates, CallPlaces
  <1>2. stale = {} /\ tries = 0 /\ conn = "ready" /\ breaker.state = "closed"
    BY DEF C!Init, C!NewBreaker
  <1>3. Cardinality(stale) = 0
    BY <1>2, FS_EmptySet
  <1>4. breaker.generation = 0 /\ \A c \in Callers : call[c].generation = 0
    BY DEF C!Init, C!NewBreaker, C!NewCall
  <1> QED
    BY <1>1, <1>2, <1>3, <1>4 DEF RpcInvariant, TriesCounted, RequestsCounted

(* Every step of the RPC client keeps its invariant.                       *)
LEMMA RpcNext ==
    ASSUME RpcInvariant, C!Next
    PROVE  RpcInvariant'
  <1> USE DEF RpcInvariant
  <1>1. CASE C!ConnFails
    <2>1. UNCHANGED <<impl, breaker, call>>
      BY <1>1 DEF C!ConnFails
    <2>2. RequestsCounted'
      BY <2>1 DEF RequestsCounted, UnderWay
    <2> QED
      BY <2>2, <1>1, TriesConnFails
  <1>2. CASE C!Connects
    <2>1. UNCHANGED <<impl, breaker, call>>
      BY <1>2 DEF C!Connects
    <2>2. RequestsCounted'
      BY <2>1 DEF RequestsCounted, UnderWay
    <2> QED
      BY <2>2, <1>2, TypesConnects
  <1>3. CASE C!BreakerTimeout
    BY <1>3, RpcBreakerTimeout
  <1>4. ASSUME NEW c \in Callers,
               \/ C!GetState(c) \/ C!Ready(c) \/ C!CheckBreaker(c) \/ C!Send(c)
               \/ C!Ends(c, TRUE) \/ C!Ends(c, FALSE)
               \/ C!Fails(c) \/ C!Retry(c) \/ C!Interrupted(c) \/ C!NextCall(c)
        PROVE  RpcInvariant'
    <2>1. CASE C!GetState(c)
      <3>1. UNCHANGED <<impl, breaker>> /\ call[c].at = "ready"
        BY <2>1 DEF C!GetState, C!KeepTransport
      <3> QED
        BY <3>1, <2>1, TypesGetState, RequestsKept
    <2>2. CASE C!Ready(c)
      BY <2>2, RpcReady
    <2>3. CASE C!CheckBreaker(c)
      <3>1. PICK p \in {"ended", "send"} : C!Goes(c, p)
        BY <2>3 DEF C!CheckBreaker
      <3> QED
        BY <3>1, <2>3, RpcGoes DEF C!CheckBreaker, CallPlaces
    <2>4. CASE C!Send(c)
      BY <2>4, RpcSend
    <2>5. CASE C!Ends(c, TRUE) \/ C!Ends(c, FALSE)
      BY <2>5, RpcReports DEF C!Ends
    <2>6. CASE C!Fails(c)
      BY <2>6, RpcReports DEF C!Fails
    <2>7. CASE C!Retry(c)
      BY <2>7, RpcGoes DEF C!Retry, CallPlaces
    <2>8. CASE C!Interrupted(c)
      BY <2>8, RpcGoes DEF C!Interrupted, CallPlaces
    <2>9. CASE C!NextCall(c)
      BY <2>9, RpcNextCall
    <2> QED
      BY <1>4, <2>1, <2>2, <2>3, <2>4, <2>5, <2>6, <2>7, <2>8, <2>9
  <1> QED
    BY <1>1, <1>2, <1>3, <1>4 DEF C!Next

(* A step of another component leaves the RPC client alone.                *)
LEMMA RpcStutters ==
    ASSUME RpcInvariant, UNCHANGED rpcClient
    PROVE  RpcInvariant'
  BY DEF RpcInvariant, RpcTypes, TriesCounted, RequestsCounted, Misled, Settled, UnderWay, rpcClient

(* The invariant of the RPC client always holds.                           *)
LEMMA RpcInvariantHolds == MCSpec => []RpcInvariant
  <1>1. MCInit => RpcInvariant
    BY RpcInit DEF MCInit
  <1>2. RpcInvariant /\ [MCNext]_<<part, vars, rpcClient, access>> => RpcInvariant'
    BY RpcNext, RpcStutters DEF MCNext
  <1> QED
    BY <1>1, <1>2, PTL DEF MCSpec

(* "we try to re-connect immediately once" (rpc/rpc.go): while the gRPC    *)
(* connection stays in failure, at most one caller is let through, and one *)
(* more for each that had read a good state before the outage, whatever    *)
(* the number of callers and however they interleave.                      *)
THEOREM ReconnectsOncePerOutage == MCSpec => []OneTryPerOutage
  <1>1. RpcInvariant => OneTryPerOutage
    BY DEF RpcInvariant, TriesCounted, OneTryPerOutage, C!OneTryPerOutage, C!Cardinality, Cardinality,
           C!IsFiniteSet, IsFiniteSet
  <1> QED
    BY <1>1, RpcInvariantHolds, PTL

(* A half-open breaker that refuses requests has one under way, whose      *)
(* report opens or closes it: the count of those that it let through never *)
(* runs ahead of the requests that will be reported, though requests of    *)
(* earlier generations are reported late.                                  *)
THEOREM HalfOpenBreakerIsNotWedged == MCSpec => []HalfOpenNotStuck
  <1>1. ASSUME RpcInvariant, breaker.state = "half", ~C!Allow
        PROVE  UnderWay # {}
    <2>1. /\ breaker.requests \in Nat /\ breaker.successes \in Nat
          /\ breaker.successes < MaxRequests
          /\ breaker.requests = breaker.successes + Cardinality(UnderWay)
      BY <1>1 DEF RpcInvariant, RpcTypes, RequestsCounted
    <2>2. ~(breaker.requests < MaxRequests)
      BY <1>1 DEF C!Allow
    <2>3. Cardinality(UnderWay) # 0
      BY <2>1, <2>2, RpcConstants, UnderWayFinite
    <2> QED
      BY <2>3, FS_EmptySet
  <1>2. RpcInvariant => HalfOpenNotStuck
    BY <1>1 DEF HalfOpenNotStuck, C!HalfOpenNotStuck, UnderWay
  <1> QED
    BY <1>2, RpcInvariantHolds, PTL

-----------------------------------------------------------------------------
(* Access: types.                                                          *)

Identities == {<<>>, <<"user">>, <<"app">>} \cup {<<"sid", s>> : s \in Sessions}
Fields == {"w", "p", "data"}
Values == A!StreamNames \cup {"kept", "member"}
States == SUBSET (A!Identifiers \X Fields \X Values)
Subs == SUBSET (A!Identifiers \X A!StreamNames)
Clients == [phase : {"none", "auth", "served", "closed"}, endpoint : {"cable", "pusher"},
            resumable : BOOLEAN, request : [header : A!Tokens, param : A!Tokens],
            prev : Sessions \cup {NoSession}, entitled : SUBSET Identities, connected : BOOLEAN,
            ids : Identities, channels : SUBSET A!Identifiers, subs : Subs, istate : States,
            origin : Sessions \cup {NoSession}]
Entries == [ids : Identities, channels : SUBSET A!Identifiers, subs : Subs, istate : States,
            origin : Sessions \cup {NoSession}]
Results == [status : {"success", "failure", "error", "nil"}, err : BOOLEAN,
            streams : SUBSET A!StreamNames, stop : BOOLEAN, istate : SUBSET (Fields \X Values)]
Answers == [status : {"success", "failure", "error", "nil"}, ids : Identities, err : BOOLEAN]

Calls == [cmd : {"subscribe", "unsubscribe", "perform"}, id : A!Identifiers, res : Results]
Pendings == {A!Idle} \cup [cmd : {"authenticate"}, res : Answers] \cup Calls

(* What the variables hold, for whatever configurations and identifiers.   *)
AccessTypes ==
    /\ conf \in AccessConfigs
    /\ client \in [Sessions -> Clients]
    /\ cache \in [Sessions -> Entries]
    /\ pending \in [Sessions -> Pendings]

-----------------------------------------------------------------------------
(* Access: the parts of the inductive invariant, for one session.          *)

(* A session that has been let in or turned away.  From then on it keeps   *)
(* its origin and what it was entitled to.                                 *)
Past(s) == client[s].phase \in {"served", "closed"}

(* What goes with the phase: a session that has not been let in has        *)
(* nothing, and only one that has been turned away is in refused.          *)
PhaseOK(s) ==
    LET x == client[s] IN
    /\ x.connected => x.phase = "served"
    /\ s \in refused => x.phase = "closed"
    /\ x.origin # NoSession => Past(s)
    /\ ~Past(s) => x.channels = {} /\ x.subs = {} /\ x.istate = {}
    /\ pending[s] # A!Idle /\ pending[s].cmd # "authenticate" => Past(s)
    /\ x.phase = "none" => pending[s] = A!Idle
    /\ x.endpoint = "pusher" => ~x.resumable

(* While it authenticates, its request shows who it is; when the request   *)
(* is forgotten, the answer agrees with what it showed.                    *)
AnswerOK(s) ==
    client[s].phase = "auth" =>
        IF pending[s] = A!Idle THEN client[s].entitled = A!Entitled(s, client[s].request)
        ELSE LET res == pending[s].res IN
             \/ res.err
             \/ res.status = "success" /\ res.ids \in client[s].entitled
             \/ res.status # "success" /\ res.ids = <<>>

(* Identifiers that are those of the session in which they originate.      *)
Sound(ids, origin) ==
    /\ origin \in Sessions /\ Past(origin)
    /\ IF origin \in refused THEN ids = <<>> ELSE ids \in client[origin].entitled
IdentityOK(s) == client[s].phase = "served" => Sound(client[s].ids, client[s].origin)

(* Streams belong to subscribed channels, and the stream that a channel's  *)
(* state allows whispers to is one of that channel's streams; channels of  *)
(* the application have no such state, since nothing removes it with the   *)
(* streams that the application stops.                                     *)
Tidy(x) ==
    /\ \A sub \in x.subs : sub[1] \in x.channels
    /\ \A e \in x.istate : e[2] = "w" => <<e[1], e[3]>> \in x.subs /\ e[1].channel # "App"
TidyOK(s) == Tidy(client[s])

(* Vouched, in the parts that a session passes on to those which go on     *)
(* from it (by key, and by the application) and the one that it keeps.     *)
KeyVouched(id, st) ==
    /\ id.channel = "$pubsub" =>
         IF id.signed = A!NoName THEN conf.public /\ st = id.name
         ELSE st = id.signed.payload /\ id.signed.key = conf.secret
    /\ id.channel = "Turbo::StreamsChannel" =>
         st = id.signed.payload /\ id.signed.key = A!GetTurboSecret
    /\ id.channel = "CableReady::Stream" =>
         st = id.signed.payload /\ id.signed.key = A!GetCableReadySecret
AppVouched(origin, id, st) ==
    id.channel = "App" => \E t \in Sessions : Past(t) /\ client[t].origin = origin /\ <<t, st>> \in granted
PusherVouched(s, id, st) ==
    id.channel = "$pusher" /\ client[s].endpoint = "pusher" /\ st \in A!PrivateChannels =>
        <<s, st>> \in granted
VouchedOK(s) ==
    \A sub \in client[s].subs :
        /\ KeyVouched(sub[1], sub[2]) /\ PusherVouched(s, sub[1], sub[2])
        /\ AppVouched(client[s].origin, sub[1], sub[2])

(* An entry of the cache has it as the session that it was made of.        *)
EntryOK(s) ==
    /\ cache[s] = A!NoEntry \/ Sound(cache[s].ids, cache[s].origin)
    /\ Tidy(cache[s])
    /\ \A sub \in cache[s].subs :
          KeyVouched(sub[1], sub[2]) /\ AppVouched(cache[s].origin, sub[1], sub[2])

(* The result that waits to be applied is vouched for already; streams and *)
(* the whispering that they allow come together; the channel of a          *)
(* subscription under way is not subscribed to.                            *)
ReplyOK(s) ==
    pending[s].cmd \in {"subscribe", "unsubscribe", "perform"} =>
        LET id == pending[s].id
            res == pending[s].res
            wStates == {f \in res.istate : f[1] = "w"}
        IN  /\ \A st \in res.streams : KeyVouched(id, st) /\ PusherVouched(s, id, st)
                   /\ (id.channel = "App" => <<s, st>> \in granted)
            /\ pending[s].cmd = "subscribe" =>
                 /\ id \notin client[s].channels
                 /\ \A f \in wStates : /\ f[2] \in res.streams /\ id.channel # "App"
                                       /\ res.status = "success" /\ ~res.err
            /\ pending[s].cmd # "subscribe" => wStates = {}
            /\ pending[s].cmd = "perform" /\ A!Handled(res) => id.channel = "App"

(* CacheIsCurrent, for a session with a command under way as well.         *)
CurrentOK(s) ==
    client[s].resumable /\ client[s].phase = "served" /\ s \notin uncommitted =>
       LET x == client[s]
           entry == cache[s] IN
       /\ x.ids = entry.ids /\ x.channels = entry.channels /\ x.subs = entry.subs
       /\ \A e \in x.istate \cup entry.istate : e[1] \in x.channels => e \in x.istate \cap entry.istate

(* What the assumption makes of a configuration.                           *)
Configured ==
    [jwt : {"off", "optional", "forced"}, skipAuth : BOOLEAN, app : BOOLEAN,
     public : BOOLEAN, whisper : BOOLEAN, presence : BOOLEAN, secret : STRING,
     turboSecret : STRING, turbo : BOOLEAN, cableReady : BOOLEAN, pusher : BOOLEAN,
     origins : SUBSET STRING, used : SUBSET A!Identifiers]

(* What is assumed of the sessions and configurations.                     *)
LEMMA AccessConstants == NoSession \notin Sessions /\ AccessConfigs \subseteq Configured
  BY MCAccessAssumption DEF A!AccessAssumption, Configured

-----------------------------------------------------------------------------
(* What controllers answer. *)

(* What the application answers to a command.                              *)
LEMMA AppResults ==
    ASSUME NEW id \in A!Identifiers, NEW res \in A!AppCommand(id)
    PROVE  /\ res \in Results /\ \A f \in res.istate : f[1] # "w"
           /\ id.channel # "App" => res.streams = {}
           /\ A!Handled(res) => id.channel = "App"
  <1>1. CASE res = A!Failing(A!Nothing)
    BY <1>1 DEF A!Failing, A!Nothing, A!Result, A!Handled, Results
  <1>2. ASSUME NEW r \in A!AppResponses(id), res = A!ParseCommandResponse(r)
        PROVE  /\ res \in Results /\ \A f \in res.istate : f[1] # "w"
               /\ id.channel # "App" => res.streams = {}
               /\ A!Handled(res) => id.channel = "App"
    <2>1. CASE r \in A!Response({"error"}, {{}}, {FALSE}, {{}})
      BY <2>1, <1>2 DEF A!Response, A!ParseCommandResponse, A!Handled, Results
    <2>2. CASE r \notin A!Response({"error"}, {{}}, {FALSE}, {{}})
      <3>1. /\ id.channel = "App"
            /\ r \in A!Response({"success", "failure"}, {{}, {"b"}}, BOOLEAN, {{<<"data", "kept">>}})
        BY <2>2, <1>2 DEF A!AppResponses
      <3>2. res.istate = {<<"data", "kept">>} /\ {<<"data", "kept">>} \in SUBSET (Fields \X Values)
        BY <3>1, <1>2 DEF A!Response, A!ParseCommandResponse, Fields, Values
      <3>3. res \in Results
        BY <3>1, <3>2, <1>2 DEF A!Response, A!ParseCommandResponse, Results, A!StreamNames
      <3> QED
        BY <3>1, <3>2, <3>3
    <2> QED
      BY <2>1, <2>2
  <1> QED
    BY <1>1, <1>2 DEF A!AppCommand

(* What the controller answers in place of an application.                 *)
LEMMA DefaultResults ==
    ASSUME NEW id \in A!Identifiers, NEW res \in A!DefaultSubscribe(id) \cup A!DefaultCommand(id)
    PROVE  /\ res \in Results /\ \A f \in res.istate : f[1] # "w"
           /\ id.channel # "App" => res.streams = {}
           /\ res \in A!DefaultCommand(id) /\ A!Handled(res) => id.channel = "App"
  <1>1. CASE res \in A!AppCommand(id)
    BY <1>1, AppResults
  <1>2. CASE res = A!Failing(A!Nothing)
    BY <1>2 DEF A!Failing, A!Nothing, A!Result, A!Handled, Results
  <1>3. CASE res = A!Rejected
    <2>1. /\ res \in Results /\ \A f \in res.istate : f[1] # "w"
          /\ res.streams = {} /\ res.status = "failure"
      BY <1>3 DEF A!Rejected, A!Result, Results
    <2>2. res \in A!DefaultCommand(id) => res \in A!AppCommand(id) \/ res.status = "nil"
      BY DEF A!DefaultCommand, A!Failing, A!Nothing, A!Result
    <2> QED
      BY <2>1, <2>2, AppResults
  <1> QED
    BY <1>1, <1>2, <1>3 DEF A!DefaultSubscribe, A!DefaultCommand

(* A stream's name is public, or signed with the key of the controller.    *)
LEMMA VerifiedStreams ==
    ASSUME NEW request, request.name \in A!StreamNames \cup {""},
           NEW st \in A!VerifiedStream(request)
    PROVE  /\ request.ok /\ st \in A!StreamNames
           /\ IF request.signed = A!NoName THEN st = request.name
              ELSE st = request.signed.payload /\ request.signed.key = request.key
  BY DEF A!VerifiedStream, A!Verified, A!Validate, A!VerifySignature

(* The states of a stream's channel: whispering and presence.              *)
LEMMA StreamStates ==
    ASSUME NEW st \in A!StreamNames, NEW istate, istate \subseteq {<<"w", st>>, <<"p", st>>}
    PROVE  istate \in SUBSET (Fields \X Values) /\ \A f \in istate : f[2] = st
  <1>1. st \in Values /\ "w" \in Fields /\ "p" \in Fields
    BY DEF Fields, Values
  <1>2. <<"w", st>> \in Fields \X Values /\ <<"p", st>> \in Fields \X Values
    BY <1>1
  <1>3. \A f \in istate : f = <<"w", st>> \/ f = <<"p", st>>
    OBVIOUS
  <1>4. \A f \in istate : f[2] = st
    BY <1>3
  <1>5. \A f \in istate : f \in Fields \X Values
    BY <1>2, <1>3
  <1> QED
    BY <1>4, <1>5

(* What the streams controller answers to a subscription.                  *)
LEMMA StreamsResults ==
    ASSUME NEW request, request.name \in A!StreamNames \cup {""},
           NEW res \in A!StreamsSubscribe(request)
    PROVE  /\ res \in Results
           /\ \A f \in res.istate : f[2] \in res.streams /\ res.status = "success" /\ ~res.err
           /\ \A st \in res.streams :
                 /\ request.ok
                 /\ IF request.signed = A!NoName THEN st = request.name
                    ELSE st = request.signed.payload /\ request.signed.key = request.key
  <1>1. CASE res = A!Failing(A!Rejected)
    BY <1>1 DEF A!Failing, A!Rejected, A!Result, Results
  <1>2. ASSUME NEW st \in A!VerifiedStream(request),
               res = A!Result("success", {st}, A!StreamState(request.whisper, request.presence, st))
        PROVE  /\ res \in Results
               /\ \A f \in res.istate : f[2] \in res.streams /\ res.status = "success" /\ ~res.err
               /\ res.streams = {st}
    <2>1. PICK istate : istate = A!StreamState(request.whisper, request.presence, st)
      OBVIOUS
    <2>2. istate \subseteq {<<"w", st>>, <<"p", st>>}
      BY <2>1 DEF A!StreamState
    <2>3. st \in A!StreamNames
      BY VerifiedStreams
    <2>4. istate \in SUBSET (Fields \X Values) /\ \A f \in istate : f[2] = st
      BY <2>2, <2>3, StreamStates
    <2>5. res = [status |-> "success", err |-> FALSE, streams |-> {st}, stop |-> FALSE,
                 istate |-> istate]
      BY <1>2, <2>1 DEF A!Result
    <2>6. res \in Results
      BY <2>3, <2>4, <2>5 DEF Results
    <2> QED
      BY <2>4, <2>5, <2>6
  <1>3. CASE A!VerifiedStream(request) = {}
    <2>1. res = A!Failing(A!Rejected)
      BY <1>3 DEF A!StreamsSubscribe
    <2>2. res.streams = {}
      BY <2>1 DEF A!Failing, A!Rejected, A!Result
    <2> QED
      BY <2>1, <2>2, <1>1
  <1>4. CASE A!VerifiedStream(request) # {}
    <2>1. PICK st \in A!VerifiedStream(request) :
             res = A!Result("success", {st}, A!StreamState(request.whisper, request.presence, st))
      BY <1>4 DEF A!StreamsSubscribe
    <2>2. /\ res \in Results
          /\ \A f \in res.istate : f[2] \in res.streams /\ res.status = "success" /\ ~res.err
          /\ res.streams = {st}
      BY <2>1, <1>2
    <2> HIDE <2>1
    <2> QED
      BY <2>2, VerifiedStreams
  <1> QED
    BY <1>3, <1>4

(* What the Pusher channel answers to a subscription.                      *)
LEMMA PusherResults ==
    ASSUME NEW id \in A!Identifiers, NEW res \in A!PusherSubscribe(id)
    PROVE  /\ res \in Results
           /\ \A f \in res.istate : f[2] \in res.streams /\ res.status = "success" /\ ~res.err
           /\ \A st \in res.streams : st = id.name
  <1>1. CASE res = A!Rejected
    BY <1>1 DEF A!Rejected, A!Result, Results
  <1>2. CASE res = A!Failing(A!Result("error", {}, {}))
    BY <1>2 DEF A!Failing, A!Result, Results
  <1>3. CASE /\ id.name # ""
             /\ res = A!Result("success", {id.name},
                        A!StreamState(id.name \in A!PrivateChannels, id.name = "presence", id.name))
    <2>1. PICK st, istate : /\ st = id.name
             /\ istate = A!StreamState(id.name \in A!PrivateChannels, id.name = "presence", id.name)
      OBVIOUS
    <2>2. istate \subseteq {<<"w", st>>, <<"p", st>>}
      BY <2>1 DEF A!StreamState
    <2>3. st \in A!StreamNames
      BY <1>3, <2>1 DEF A!Identifiers
    <2>4. istate \in SUBSET (Fields \X Values) /\ \A f \in istate : f[2] = st
      BY <2>2, <2>3, StreamStates
    <2>5. res = [status |-> "success", err |-> FALSE, streams |-> {st}, stop |-> FALSE,
                 istate |-> istate]
      BY <1>3, <2>1 DEF A!Result
    <2>6. res \in Results
      BY <2>3, <2>4, <2>5 DEF Results
    <2> QED
      BY <2>1, <2>4, <2>5, <2>6
  <1> QED
    BY <1>1, <1>2, <1>3 DEF A!PusherSubscribe

(* What the router answers to a subscription.                              *)
LEMMA SubscribeResults ==
    ASSUME conf \in Configured, NEW id \in A!Identifiers, NEW res \in A!RouterSubscribe(id)
    PROVE  /\ res \in Results
           /\ \A f \in res.istate : f[1] = "w" =>
                 f[2] \in res.streams /\ res.status = "success" /\ ~res.err /\ id.channel # "App"
           /\ \A st \in res.streams : KeyVouched(id, st) /\ (id.channel = "$pusher" => st = id.name)
  <1>1. /\ id.name \in A!StreamNames \cup {""}
        /\ id.channel \in {"$pubsub", "Turbo::StreamsChannel", "CableReady::Stream", "$pusher", "App"}
    BY DEF A!Identifiers
  <1>2. CASE id.channel \notin A!Routes
    <2>1. res \in A!DefaultSubscribe(id) /\ id.channel # "$pubsub"
      BY <1>2 DEF A!RouterSubscribe, A!extractChannel, A!Routes
    <2>2. /\ res \in Results /\ \A f \in res.istate : f[1] # "w"
          /\ id.channel # "App" => res.streams = {}
      BY <2>1, DefaultResults
    <2> QED
      BY <2>1, <2>2 DEF KeyVouched
  <1>3. CASE id.channel \in A!Routes /\ id.channel = "$pubsub"
    <2>1. PICK request : request = A!NewStreamsController(id)
      OBVIOUS
    <2>2. /\ request.key = conf.secret /\ request.name = id.name /\ request.signed = id.signed
          /\ request.ok = (conf.public \/ ~(id.name # "" /\ id.signed = A!NoName))
      BY <2>1 DEF A!NewStreamsController
    <2>3. res \in A!StreamsSubscribe(request)
      BY <1>3, <2>1 DEF A!RouterSubscribe, A!extractChannel
    <2>4. /\ res \in Results
          /\ \A f \in res.istate : f[2] \in res.streams /\ res.status = "success" /\ ~res.err
          /\ \A st \in res.streams :
                /\ request.ok
                /\ IF request.signed = A!NoName THEN st = request.name
                   ELSE st = request.signed.payload /\ request.signed.key = request.key
      BY <1>1, <2>2, <2>3, StreamsResults
    <2>5. \A st \in res.streams : st # ""
      BY <2>4 DEF Results, A!StreamNames
    <2>6. conf.public \in BOOLEAN
      BY DEF Configured
    <2>7. ASSUME NEW st \in res.streams
          PROVE  IF id.signed = A!NoName THEN conf.public /\ st = id.name
                 ELSE st = id.signed.payload /\ id.signed.key = conf.secret
      BY <2>2, <2>4, <2>5, <2>6
    <2> QED
      BY <1>3, <2>4, <2>7 DEF KeyVouched
  <1>4. CASE id.channel \in A!Routes /\ id.channel = "Turbo::StreamsChannel"
    <2>1. PICK request : request = A!NewTurboController(id)
      OBVIOUS
    <2>2. request.key = A!GetTurboSecret /\ request.name = "" /\ request.signed = id.signed
      BY <2>1 DEF A!NewTurboController, A!SignedOnly
    <2>3. res \in A!StreamsSubscribe(request)
      BY <1>4, <2>1 DEF A!RouterSubscribe, A!extractChannel
    <2>4. /\ res \in Results
          /\ \A f \in res.istate : f[2] \in res.streams /\ res.status = "success" /\ ~res.err
          /\ \A st \in res.streams :
                /\ IF request.signed = A!NoName THEN st = request.name
                   ELSE st = request.signed.payload /\ request.signed.key = request.key
      BY <2>2, <2>3, StreamsResults
    <2>5. \A st \in res.streams : st # ""
      BY <2>4 DEF Results, A!StreamNames
    <2> QED
      BY <1>4, <2>2, <2>4, <2>5 DEF KeyVouched
  <1>5. CASE id.channel \in A!Routes /\ id.channel = "CableReady::Stream"
    <2>1. PICK request : request = A!NewCableReadyController(id)
      OBVIOUS
    <2>2. request.key = A!GetCableReadySecret /\ request.name = "" /\ request.signed = id.signed
      BY <2>1 DEF A!NewCableReadyController, A!SignedOnly
    <2>3. res \in A!StreamsSubscribe(request)
      BY <1>5, <2>1 DEF A!RouterSubscribe, A!extractChannel
    <2>4. /\ res \in Results
          /\ \A f \in res.istate : f[2] \in res.streams /\ res.status = "success" /\ ~res.err
          /\ \A st \in res.streams :
                /\ IF request.signed = A!NoName THEN st = request.name
                   ELSE st = request.signed.payload /\ request.signed.key = request.key
      BY <2>2, <2>3, StreamsResults
    <2>5. \A st \in res.streams : st # ""
      BY <2>4 DEF Results, A!StreamNames
    <2> QED
      BY <1>5, <2>2, <2>4, <2>5 DEF KeyVouched
  <1>6. CASE id.channel \in A!Routes /\ id.channel = "$pusher"
    <2>1. res \in A!PusherSubscribe(id)
      BY <1>6 DEF A!RouterSubscribe, A!extractChannel
    <2> QED
      BY <2>1, <1>6, PusherResults DEF KeyVouched
  <1>7. id.channel = "App" => id.channel \notin A!Routes
    BY DEF A!Routes
  <1> QED
    BY <1>1, <1>2, <1>3, <1>4, <1>5, <1>6, <1>7

(* What the router answers to another command.                             *)
LEMMA CommandResults ==
    ASSUME NEW id \in A!Identifiers, NEW res \in A!RouterUnsubscribe(id) \cup A!RouterPerform(id)
    PROVE  /\ res \in Results /\ \A f \in res.istate : f[1] # "w"
           /\ id.channel # "App" => res.streams = {}
           /\ res \in A!RouterPerform(id) /\ A!Handled(res) => id.channel = "App"
  <1>1. CASE res \in A!DefaultCommand(id)
    BY <1>1, DefaultResults
  <1>2. CASE res = A!StopAll /\ res \notin A!DefaultCommand(id)
    BY <1>2 DEF A!StopAll, A!Result, Results, A!RouterPerform
  <1> QED
    BY <1>1, <1>2 DEF A!RouterUnsubscribe, A!RouterPerform

(* Nobody is taken for someone that the request does not show.             *)
LEMMA AuthenticateAnswers ==
    ASSUME conf \in Configured, NEW s \in Sessions,
           client[s].request \in [header : A!Tokens, param : A!Tokens],
           client[s].entitled = A!Entitled(s, client[s].request),
           NEW res \in A!ControllerAuthenticate(s)
    PROVE  /\ res \in Answers
           /\ \/ res.err
              \/ res.status = "success" /\ res.ids \in client[s].entitled
              \/ res.status # "success" /\ res.ids = <<>>
  <1>1. PICK request \in [header : A!Tokens, param : A!Tokens] : request = client[s].request
    OBVIOUS
  <1>2. PICK token \in A!Tokens :
           token = IF request.header # "none" THEN request.header ELSE request.param
    BY <1>1
  <1>3. /\ <<>> \in Identities /\ <<"user">> \in Identities /\ <<"app">> \in Identities
        /\ <<"sid", s>> \in Identities
    BY DEF Identities
  <1>4. A!Unknown = [status |-> "nil", ids |-> <<>>, err |-> FALSE]
    BY DEF A!Unknown, A!Identity
  <1>5. token = "none" <=> {request.header, request.param} \ {"none"} = {}
    BY <1>2
  <1>6. CASE conf.jwt # "off" /\ token # "none"
    <2>1. client[s].entitled = IF token = "valid" THEN {<<"user">>} ELSE {}
      BY <1>1, <1>2, <1>5, <1>6 DEF A!Entitled
    <2>2. PICK jwt : jwt = A!JWTIdentify(client[s].request)
      OBVIOUS
    <2>3. jwt # A!Unknown => res = jwt
      <3>1. jwt # A!Unknown => A!PipelineIdentify(s) = jwt
        BY <1>6, <2>2 DEF A!PipelineIdentify, A!Then
      <3> QED
        BY <3>1 DEF A!ControllerAuthenticate
    <2>4. CASE token \in {"expired", "bad"}
      <3>1. jwt = [status |-> "failure", ids |-> <<>>, err |-> FALSE]
        BY <1>1, <1>2, <2>2, <2>4 DEF A!JWTIdentify, A!Identity
      <3>2. jwt.status # A!Unknown.status
        BY <3>1, <1>4
      <3>3. res = jwt
        BY <3>2, <2>3
      <3> QED
        BY <3>1, <3>3, <1>3 DEF Answers
    <2>5. CASE token = "no ids"
      <3>1. jwt = [status |-> "nil", ids |-> <<>>, err |-> TRUE]
        BY <1>1, <1>2, <2>2, <2>5 DEF A!JWTIdentify, A!Identity
      <3>2. jwt.err /\ ~A!Unknown.err
        BY <3>1, <1>4
      <3>3. res = jwt
        BY <3>2, <2>3
      <3> QED
        BY <3>1, <3>3, <1>3 DEF Answers
    <2>6. CASE token = "valid"
      <3>1. jwt = [status |-> "success", ids |-> <<"user">>, err |-> FALSE]
        BY <1>1, <1>2, <2>2, <2>6 DEF A!JWTIdentify, A!Identity
      <3>2. jwt.status # A!Unknown.status
        BY <3>1, <1>4
      <3>3. res = jwt
        BY <3>2, <2>3
      <3> QED
        BY <3>1, <3>3, <1>3, <2>1, <2>6 DEF Answers
    <2> QED
      BY <1>2, <1>6, <2>4, <2>5, <2>6 DEF A!Tokens
  <1>7. CASE conf.jwt = "forced" /\ token = "none"
    <2>1. PICK jwt : jwt = A!JWTIdentify(client[s].request)
      OBVIOUS
    <2>2. jwt = [status |-> "failure", ids |-> <<>>, err |-> FALSE]
      BY <1>1, <1>2, <1>7, <2>1 DEF A!JWTIdentify, A!Identity
    <2>3. jwt # A!Unknown
      BY <2>2, <1>4
    <2>4. A!PipelineIdentify(s) = jwt
      BY <1>7, <2>1, <2>3 DEF A!PipelineIdentify, A!Then
    <2>5. res = jwt
      BY <2>3, <2>4 DEF A!ControllerAuthenticate
    <2> QED
      BY <2>2, <2>5, <1>3 DEF Answers
  <1>8. CASE conf.jwt = "off" \/ (conf.jwt = "optional" /\ token = "none")
    <2>1. client[s].entitled = IF conf.skipAuth THEN {<<"sid", s>>}
                               ELSE IF conf.app THEN {<<"app">>} ELSE {}
      BY <1>1, <1>2, <1>5, <1>8 DEF A!Entitled
    <2>2. A!PipelineIdentify(s) = IF conf.skipAuth THEN A!PublicIdentify(s) ELSE A!Unknown
      <3>1. CASE conf.jwt = "off"
        BY <3>1 DEF A!PipelineIdentify, A!Then
      <3>2. CASE conf.jwt = "optional" /\ token = "none"
        <4>1. A!JWTIdentify(client[s].request) = A!Unknown
          BY <1>1, <1>2, <3>2 DEF A!JWTIdentify
        <4> QED
          BY <4>1, <3>2 DEF A!PipelineIdentify, A!Then
      <3> QED
        BY <1>8, <3>1, <3>2
    <2>3. CASE conf.skipAuth
      <3>1. A!PublicIdentify(s) = [status |-> "success", ids |-> <<"sid", s>>, err |-> FALSE]
        BY DEF A!PublicIdentify, A!Identity
      <3>2. A!PublicIdentify(s) # A!Unknown
        BY <3>1, <1>4
      <3>3. res = A!PublicIdentify(s)
        BY <2>2, <2>3, <3>2 DEF A!ControllerAuthenticate
      <3> QED
        BY <2>1, <2>3, <3>1, <3>3, <1>3 DEF Answers
    <2>4. CASE ~conf.skipAuth /\ conf.app
      <3>1. res \in A!AppAuthenticate
        BY <2>2, <2>4 DEF A!ControllerAuthenticate
      <3>2. \/ res = [status |-> "success", ids |-> <<"app">>, err |-> FALSE]
            \/ res = [status |-> "failure", ids |-> <<>>, err |-> FALSE]
            \/ res = [status |-> "error", ids |-> <<>>, err |-> TRUE]
            \/ res = [status |-> "nil", ids |-> <<>>, err |-> TRUE]
        BY <3>1 DEF A!AppAuthenticate, A!ParseConnectResponse, A!Identity
      <3>3. CASE res = [status |-> "success", ids |-> <<"app">>, err |-> FALSE]
        BY <2>1, <2>4, <3>3, <1>3 DEF Answers
      <3>4. CASE res = [status |-> "failure", ids |-> <<>>, err |-> FALSE]
        BY <3>4, <1>3 DEF Answers
      <3>5. CASE res = [status |-> "error", ids |-> <<>>, err |-> TRUE]
        BY <3>5, <1>3 DEF Answers
      <3>6. CASE res = [status |-> "nil", ids |-> <<>>, err |-> TRUE]
        BY <3>6, <1>3 DEF Answers
      <3> QED
        BY <3>2, <3>3, <3>4, <3>5, <3>6, Zenon
    <2>5. CASE ~conf.skipAuth /\ ~conf.app
      <3>1. res = [status |-> "failure", ids |-> <<>>, err |-> FALSE]
        BY <2>2, <2>5 DEF A!ControllerAuthenticate, A!Identity
      <3> QED
        BY <3>1, <1>3 DEF Answers
    <2> QED
      BY <2>3, <2>4, <2>5
  <1> QED
    BY <1>6, <1>7, <1>8 DEF Configured

-----------------------------------------------------------------------------
(* Steps. *)

(* What a session had when it was let in stays, and so does whatever was   *)
(* granted.                                                                *)
Steady ==
    /\ conf' = conf /\ granted \subseteq granted'
    /\ \A t \in Sessions : Past(t) =>
          /\ client'[t].phase \in {"served", "closed"}
          /\ client'[t].entitled = client[t].entitled /\ client'[t].origin = client[t].origin
          /\ t \in refused' <=> t \in refused

(* The step is not one of session t.                                       *)
Untouched(t) ==
    /\ client'[t] = client[t] /\ pending'[t] = pending[t] /\ cache'[t] = cache[t]
    /\ t \in refused' <=> t \in refused
    /\ t \in uncommitted' <=> t \in uncommitted

(* The inductive invariant at one session.                                 *)
InvAt(t) ==
    /\ PhaseOK(t) /\ AnswerOK(t) /\ ReplyOK(t)
    /\ IdentityOK(t) /\ TidyOK(t) /\ VouchedOK(t)
    /\ EntryOK(t) /\ CurrentOK(t)

(* Identities stay sound.                                                  *)
LEMMA SoundKept ==
    ASSUME Steady, NEW ids, NEW origin, Sound(ids, origin)
    PROVE  Sound(ids, origin)'
  BY DEF Steady, Sound, Past

(* A stream that was vouched for stays vouched for.                        *)
LEMMA VouchedKept ==
    ASSUME Steady, NEW origin, NEW id, NEW st
    PROVE  /\ KeyVouched(id, st) => KeyVouched(id, st)'
           /\ AppVouched(origin, id, st) => AppVouched(origin, id, st)'
  <1>1. conf' = conf /\ granted \subseteq granted'
    BY DEF Steady
  <1>2. KeyVouched(id, st) => KeyVouched(id, st)'
    BY <1>1 DEF KeyVouched, A!GetTurboSecret, A!GetCableReadySecret
  <1>3. AppVouched(origin, id, st) => AppVouched(origin, id, st)'
    BY <1>1 DEF Steady, AppVouched, Past
  <1> QED
    BY <1>2, <1>3

(* A session with no new subscription.                                     *)
LEMMA SessionVouched ==
    ASSUME Steady, NEW t \in Sessions, VouchedOK(t), client'[t].endpoint = client[t].endpoint,
           client'[t].origin = client[t].origin, client'[t].subs \subseteq client[t].subs
    PROVE  VouchedOK(t)'
  <1>1. granted \subseteq granted'
    BY DEF Steady
  <1>2. PICK o1 : o1 = client[t].origin
    OBVIOUS
  <1>3. \A sub \in client'[t].subs : KeyVouched(sub[1], sub[2])'
    BY VouchedKept DEF VouchedOK
  <1>4. \A sub \in client'[t].subs : PusherVouched(t, sub[1], sub[2])'
    BY <1>1 DEF VouchedOK, PusherVouched
  <1>5. \A sub \in client'[t].subs : AppVouched(o1, sub[1], sub[2])'
    BY <1>2, VouchedKept DEF VouchedOK
  <1>6. \A sub \in client'[t].subs : AppVouched(client[t].origin, sub[1], sub[2])'
    BY <1>2, <1>5 DEF AppVouched
  <1> QED
    BY <1>3, <1>4, <1>6 DEF VouchedOK

(* A session that stays as it is.                                          *)
LEMMA SessionKept ==
    ASSUME Steady, NEW t \in Sessions, client'[t] = client[t], InvAt(t)
    PROVE  IdentityOK(t)' /\ TidyOK(t)' /\ VouchedOK(t)'
  <1>1. conf' = conf /\ granted \subseteq granted'
    BY DEF Steady
  <1>2. PICK i1, o1 : i1 = client[t].ids /\ o1 = client[t].origin
    OBVIOUS
  <1>3. IdentityOK(t)'
    <2>1. client[t].phase = "served" => Sound(i1, o1)
      BY <1>2 DEF InvAt, IdentityOK
    <2>2. client'[t].phase = "served" => Sound(i1, o1)'
      BY <2>1, SoundKept
    <2> QED
      BY <2>2, <1>2 DEF IdentityOK, Sound
  <1>4. TidyOK(t)'
    BY DEF InvAt, TidyOK, Tidy
  <1>5. VouchedOK(t)'
    BY SessionVouched DEF InvAt
  <1> QED
    BY <1>3, <1>4, <1>5

(* A cache entry that is left alone.                                       *)
LEMMA EntryKept ==
    ASSUME Steady, NEW t \in Sessions, cache'[t] = cache[t], EntryOK(t)
    PROVE  EntryOK(t)'
  <1>1. PICK i1, o1 : i1 = cache[t].ids /\ o1 = cache[t].origin
    OBVIOUS
  <1>2. cache[t] = A!NoEntry \/ Sound(i1, o1)
    BY <1>1 DEF EntryOK
  <1>3. cache'[t] = A!NoEntry \/ Sound(i1, o1)'
    BY <1>2, SoundKept
  <1>4. (cache[t] = A!NoEntry \/ Sound(cache[t].ids, cache[t].origin))'
    BY <1>1, <1>3 DEF Sound
  <1>5. Tidy(cache[t])'
    BY DEF EntryOK, Tidy
  <1>6. \A sub \in cache'[t].subs : KeyVouched(sub[1], sub[2])' /\ AppVouched(o1, sub[1], sub[2])'
    BY <1>1, VouchedKept DEF EntryOK
  <1>7. \A sub \in cache'[t].subs : AppVouched(cache[t].origin, sub[1], sub[2])'
    BY <1>1, <1>6 DEF AppVouched
  <1> QED
    BY <1>4, <1>5, <1>6, <1>7 DEF EntryOK

(* A session that is left alone.                                           *)
LEMMA UntouchedKept ==
    ASSUME Steady, NEW t \in Sessions, Untouched(t), InvAt(t)
    PROVE  InvAt(t)'
  <1>1. /\ client'[t] = client[t] /\ pending'[t] = pending[t] /\ cache'[t] = cache[t]
        /\ t \in refused' <=> t \in refused
        /\ t \in uncommitted' <=> t \in uncommitted
    BY DEF Untouched
  <1>2. conf' = conf /\ granted \subseteq granted'
    BY DEF Steady
  <1>3. PhaseOK(t)'
    BY <1>1 DEF InvAt, PhaseOK, Past
  <1>4. AnswerOK(t)'
    BY <1>1, <1>2 DEF InvAt, AnswerOK, A!Entitled
  <1>5. ReplyOK(t)'
    BY ZenonT(60), <1>1, <1>2 DEF InvAt, ReplyOK, PusherVouched, KeyVouched, A!GetTurboSecret,
       A!GetCableReadySecret, A!Handled
  <1>6. CurrentOK(t)'
    BY <1>1 DEF InvAt, CurrentOK
  <1>7. EntryOK(t)'
    BY <1>1, EntryKept DEF InvAt
  <1> QED
    BY <1>1, <1>3, <1>4, <1>5, <1>6, <1>7, SessionKept DEF InvAt

(* A commit writes the session as it is now, or fails.                     *)
LEMMA CommitKeeps ==
    ASSUME AccessTypes, client' \in [Sessions -> Clients], NEW s \in Sessions, NEW next, next = client',
           A!Commit(s, next), Steady, EntryOK(s),
           Sound(client[s].ids, client[s].origin)', TidyOK(s)', VouchedOK(s)'
    PROVE  /\ cache' \in [Sessions -> Entries]
           /\ \A t \in Sessions : t # s =>
                 cache'[t] = cache[t] /\ (t \in uncommitted' <=> t \in uncommitted)
           /\ EntryOK(s)' /\ CurrentOK(s)'
  <1>1. PICK x \in Clients : x = client'[s] /\ x = next[s]
    OBVIOUS
  <1>2. cache \in [Sessions -> Entries]
    BY DEF AccessTypes
  <1>3. CASE UNCHANGED cache
    <2>1. /\ \A t \in Sessions : t # s => (t \in uncommitted' <=> t \in uncommitted)
          /\ ~x.resumable \/ s \in uncommitted' \/ cache' = [cache EXCEPT ![s] = A!ToCacheEntry(x)]
      BY <1>1 DEF A!Commit
    <2>2. EntryOK(s)'
      BY <1>3, EntryKept
    <2>3. A!ToCacheEntry(x) = [ids |-> x.ids, channels |-> x.channels, subs |-> x.subs,
                               istate |-> x.istate, origin |-> x.origin]
      BY DEF A!ToCacheEntry
    <2>4. cache' = [cache EXCEPT ![s] = A!ToCacheEntry(x)] => cache'[s] = A!ToCacheEntry(x)
      BY <1>2
    <2>5. CurrentOK(s)'
      BY <1>1, <2>1, <2>3, <2>4 DEF CurrentOK
    <2> QED
      BY <1>2, <1>3, <2>1, <2>2, <2>5
  <1>4. CASE cache' = [cache EXCEPT ![s] = A!ToCacheEntry(x)] /\ UNCHANGED uncommitted
    <2>1. PICK entry : entry = A!ToCacheEntry(x)
      OBVIOUS
    <2>2. entry = [ids |-> x.ids, channels |-> x.channels, subs |-> x.subs,
                   istate |-> x.istate, origin |-> x.origin]
      BY <2>1 DEF A!ToCacheEntry
    <2>3. /\ entry \in Entries /\ entry.ids = x.ids /\ entry.channels = x.channels
          /\ entry.subs = x.subs /\ entry.istate = x.istate /\ entry.origin = x.origin
      BY <2>2 DEF Entries, Clients
    <2>4. /\ cache'[s] = entry /\ \A t \in Sessions : t # s => cache'[t] = cache[t]
          /\ cache' \in [Sessions -> Entries]
      BY <1>2, <1>4, <2>1, <2>3
    <2>5. Sound(cache[s].ids, cache[s].origin)'
      BY <1>1, <2>3, <2>4 DEF Sound, Past
    <2>6. Tidy(cache[s])'
      BY <1>1, <2>3, <2>4 DEF TidyOK, Tidy
    <2>7. \A sub \in cache'[s].subs :
             KeyVouched(sub[1], sub[2])' /\ AppVouched(cache[s].origin, sub[1], sub[2])'
      BY <1>1, <2>3, <2>4 DEF VouchedOK, AppVouched
    <2>8. CurrentOK(s)'
      BY <1>1, <2>3, <2>4 DEF CurrentOK
    <2> QED
      BY <1>4, <2>4, <2>5, <2>6, <2>7, <2>8 DEF EntryOK
  <1> QED
    BY <1>1, <1>3, <1>4 DEF A!Commit

-----------------------------------------------------------------------------
(* Connections. *)

(* What is shown of each action of session s.                              *)
Keeps(s) ==
    /\ AccessTypes' /\ Steady /\ InvAt(s)'
    /\ \A t \in Sessions : t # s => Untouched(t)

(* A step of one session leaves the others alone.                          *)
LEMMA KeepsAll ==
    ASSUME NEW s \in Sessions, Keeps(s), \A t \in Sessions : InvAt(t)
    PROVE  AccessTypes' /\ \A t \in Sessions : InvAt(t)'
  BY UntouchedKept DEF Keeps

(* A session that waits for no answer.                                     *)
LEMMA IdleForm == A!Idle.cmd = "none" /\ A!Idle \in Pendings
  BY DEF A!Idle, Pendings

(* The identities that a request is entitled to.                           *)
LEMMA EntitledType ==
    ASSUME NEW s \in Sessions, NEW request
    PROVE  A!Entitled(s, request) \in SUBSET Identities
  BY DEF A!Entitled, Identities

(* A session that has nothing yet.                                         *)
LEMMA EmptyTypes ==
    /\ <<>> \in Identities /\ {} \in Subs /\ {} \in States
    /\ A!NoRequest \in [header : A!Tokens, param : A!Tokens]
  BY DEF Identities, Subs, States, A!NoRequest, A!Tokens

(* A client connects.                                                      *)
LEMMA ConnectKeeps ==
    ASSUME AccessTypes, NEW s \in Sessions, InvAt(s), A!Connect(s)
    PROVE  Keeps(s)
  <1>1. /\ client[s].phase = "none"
        /\ UNCHANGED <<conf, pending, cache, granted, refused, uncommitted>>
    BY DEF A!Connect
  <1>2. PICK extended \in BOOLEAN, request \in [header : A!Tokens, param : A!Tokens],
             prevHeader \in Sessions \cup {NoSession}, prevParam \in Sessions \cup {NoSession} :
           client' = [client EXCEPT ![s] =
               A!NewSession("auth", "cable", extended, request,
                            A!PrevSid(prevHeader, prevParam), A!Entitled(s, request))]
    BY DEF A!Connect
  <1>3. PICK x : x = A!NewSession("auth", "cable", extended, request,
                                  A!PrevSid(prevHeader, prevParam), A!Entitled(s, request))
    OBVIOUS
  <1>4. A!PrevSid(prevHeader, prevParam) \in Sessions \cup {NoSession}
    BY DEF A!PrevSid
  <1>5. /\ x \in Clients
        /\ x.phase = "auth" /\ x.endpoint = "cable"
        /\ x.request = request /\ x.entitled = A!Entitled(s, request) /\ ~x.connected
        /\ x.channels = {} /\ x.subs = {} /\ x.istate = {} /\ x.origin = NoSession
    <2>1. PICK prev \in Sessions \cup {NoSession}, entitled \in SUBSET Identities :
             prev = A!PrevSid(prevHeader, prevParam) /\ entitled = A!Entitled(s, request)
      BY <1>4, EntitledType
    <2>2. x = [phase |-> "auth", endpoint |-> "cable", resumable |-> extended,
               request |-> request, prev |-> prev, entitled |-> entitled, connected |-> FALSE,
               ids |-> <<>>, channels |-> {}, subs |-> {}, istate |-> {}, origin |-> NoSession]
      BY <1>3, <2>1 DEF A!NewSession
    <2>3. x \in Clients
      BY <2>2, EmptyTypes DEF Clients
    <2> QED
      BY <2>1, <2>2, <2>3
  <1>6. client \in [Sessions -> Clients] /\ pending[s] = A!Idle /\ s \notin refused
    BY <1>1 DEF AccessTypes, InvAt, PhaseOK
  <1>7. /\ client' \in [Sessions -> Clients] /\ client'[s] = x
        /\ \A t \in Sessions : t # s => client'[t] = client[t]
    BY <1>2, <1>3, <1>5, <1>6
  <1>8. AccessTypes'
    BY <1>1, <1>7 DEF AccessTypes
  <1>9. Steady /\ \A t \in Sessions : t # s => Untouched(t)
    BY <1>1, <1>7 DEF Steady, Untouched, Past
  <1>10. PhaseOK(s)'
    BY <1>1, <1>5, <1>6, <1>7 DEF PhaseOK, Past
  <1>11. AnswerOK(s)'
    BY <1>1, <1>5, <1>6, <1>7 DEF AnswerOK, A!Entitled
  <1>12. ReplyOK(s)'
    BY <1>1, <1>6, IdleForm DEF ReplyOK
  <1>13. IdentityOK(s)' /\ TidyOK(s)' /\ VouchedOK(s)' /\ CurrentOK(s)'
    BY <1>5, <1>7 DEF IdentityOK, TidyOK, Tidy, VouchedOK, CurrentOK
  <1>14. EntryOK(s)'
    BY <1>1, <1>9, EntryKept DEF InvAt
  <1> QED
    BY <1>8, <1>9, <1>10, <1>11, <1>12, <1>13, <1>14 DEF Keeps, InvAt

(* A Pusher client connects.                                               *)
LEMMA ConnectPusherKeeps ==
    ASSUME AccessTypes, NEW s \in Sessions, InvAt(s), A!ConnectPusher(s)
    PROVE  Keeps(s)
  <1>1. /\ client[s].phase = "none"
        /\ UNCHANGED <<conf, pending, cache, granted, refused, uncommitted>>
    BY DEF A!ConnectPusher
  <1>2. PICK z : z = A!NewSession("served", "pusher", FALSE, A!NoRequest, NoSession, {<<"sid", s>>})
    OBVIOUS
  <1>3. /\ <<"sid", s>> \in Identities /\ {<<"sid", s>>} \in SUBSET Identities
        /\ A!NoRequest \in [header : A!Tokens, param : A!Tokens]
    BY DEF Identities, A!NoRequest, A!Tokens
  <1>4. /\ z \in Clients /\ z.phase = "served" /\ z.endpoint = "pusher" /\ ~z.resumable
        /\ z.entitled = {<<"sid", s>>} /\ z.channels = {} /\ z.subs = {} /\ z.istate = {}
    <2>1. z = [phase |-> "served", endpoint |-> "pusher", resumable |-> FALSE,
               request |-> A!NoRequest, prev |-> NoSession, entitled |-> {<<"sid", s>>},
               connected |-> FALSE, ids |-> <<>>, channels |-> {}, subs |-> {}, istate |-> {},
               origin |-> NoSession]
      BY <1>2 DEF A!NewSession
    <2>2. z \in Clients
      BY <2>1, <1>3, EmptyTypes DEF Clients
    <2> QED
      BY <2>1, <2>2
  <1>5. PICK x : x = [z EXCEPT !.connected = TRUE, !.ids = <<"sid", s>>, !.origin = s]
    OBVIOUS
  <1>6. /\ x \in Clients /\ x.phase = "served" /\ x.endpoint = "pusher" /\ ~x.resumable
        /\ x.entitled = {<<"sid", s>>} /\ x.channels = {} /\ x.subs = {} /\ x.istate = {}
        /\ x.ids = <<"sid", s>> /\ x.origin = s
    BY <1>3, <1>4, <1>5 DEF Clients
  <1>7. client \in [Sessions -> Clients] /\ pending[s] = A!Idle /\ s \notin refused
    BY <1>1 DEF AccessTypes, InvAt, PhaseOK
  <1>8. /\ client' \in [Sessions -> Clients] /\ client'[s] = x
        /\ \A t \in Sessions : t # s => client'[t] = client[t]
    BY <1>2, <1>5, <1>6, <1>7 DEF A!ConnectPusher
  <1>9. AccessTypes'
    BY <1>1, <1>8 DEF AccessTypes
  <1>10. Steady /\ \A t \in Sessions : t # s => Untouched(t)
    BY <1>1, <1>8 DEF Steady, Untouched, Past
  <1>11. PhaseOK(s)' /\ AnswerOK(s)'
    BY <1>1, <1>6, <1>7, <1>8 DEF PhaseOK, AnswerOK, Past
  <1>12. ReplyOK(s)'
    BY <1>1, <1>7, IdleForm DEF ReplyOK
  <1>13. IdentityOK(s)'
    BY <1>1, <1>6, <1>7, <1>8 DEF IdentityOK, Sound, Past
  <1>14. TidyOK(s)' /\ VouchedOK(s)' /\ CurrentOK(s)'
    BY <1>6, <1>8 DEF TidyOK, Tidy, VouchedOK, CurrentOK
  <1>15. EntryOK(s)'
    BY <1>1, <1>10, EntryKept DEF InvAt
  <1> QED
    BY <1>9, <1>10, <1>11, <1>12, <1>13, <1>14, <1>15 DEF Keeps, InvAt

(* What the phases of a session have to do with the rest of it.            *)
LEMMA PhaseForm ==
    ASSUME NEW s \in Sessions, InvAt(s)
    PROVE  /\ client[s].connected => client[s].phase = "served"
           /\ s \in refused => client[s].phase = "closed"
           /\ client[s].phase = "none" => pending[s] = A!Idle
           /\ client[s].endpoint = "pusher" => ~client[s].resumable
           /\ client[s].phase \notin {"served", "closed"} =>
                 /\ client[s].channels = {} /\ client[s].subs = {} /\ client[s].istate = {}
                 /\ client[s].origin = NoSession
                 /\ pending[s] = A!Idle \/ pending[s].cmd = "authenticate"
  BY DEF InvAt, PhaseOK, Past

(* A session closes.                                                       *)
LEMMA CloseKeeps ==
    ASSUME AccessTypes, NEW s \in Sessions, InvAt(s), A!Close(s)
    PROVE  Keeps(s)
  <1>1. /\ client[s].phase \in {"auth", "served"}
        /\ UNCHANGED <<conf, pending, cache, granted, refused, uncommitted>>
    BY DEF A!Close
  <1>2. client \in [Sessions -> Clients] /\ client[s] \in Clients
    BY DEF AccessTypes
  <1>3. PICK x : x = [client[s] EXCEPT !.phase = "closed", !.connected = FALSE]
    OBVIOUS
  <1>4. client' = [client EXCEPT ![s] = x]
    BY <1>2, <1>3 DEF A!Close
  <1>5. /\ x \in Clients /\ x.phase = "closed" /\ ~x.connected
        /\ x.endpoint = client[s].endpoint /\ x.resumable = client[s].resumable
        /\ x.entitled = client[s].entitled /\ x.channels = client[s].channels
        /\ x.subs = client[s].subs /\ x.istate = client[s].istate
        /\ x.origin = client[s].origin
    BY <1>2, <1>3 DEF Clients
  <1>6. /\ client' \in [Sessions -> Clients] /\ client'[s] = x
        /\ \A t \in Sessions : t # s => client'[t] = client[t]
    BY <1>2, <1>4, <1>5
  <1>7. AccessTypes'
    BY <1>1, <1>6 DEF AccessTypes
  <1>8. Steady /\ \A t \in Sessions : t # s => Untouched(t)
    BY <1>1, <1>5, <1>6 DEF Steady, Untouched, Past
  <1>9. PhaseOK(s)'
    BY <1>1, <1>5, <1>6, PhaseForm DEF PhaseOK, Past
  <1>10. AnswerOK(s)' /\ IdentityOK(s)' /\ CurrentOK(s)'
    BY <1>5, <1>6 DEF AnswerOK, IdentityOK, CurrentOK
  <1>11. ReplyOK(s)'
    BY <1>1, <1>5, <1>6 DEF InvAt, ReplyOK, PusherVouched, KeyVouched, A!GetTurboSecret,
       A!GetCableReadySecret, A!Handled
  <1>12. TidyOK(s)'
    BY <1>5, <1>6 DEF InvAt, TidyOK, Tidy
  <1>13. VouchedOK(s)'
    BY <1>1, <1>5, <1>6, <1>8, SessionVouched DEF InvAt
  <1>14. EntryOK(s)'
    BY <1>1, <1>8, EntryKept DEF InvAt
  <1> QED
    BY <1>7, <1>8, <1>9, <1>10, <1>11, <1>12, <1>13, <1>14 DEF Keeps, InvAt

(* An answer comes to a session that is closed.                            *)
LEMMA SkipKeeps ==
    ASSUME AccessTypes, NEW s \in Sessions, InvAt(s), A!Skip(s)
    PROVE  Keeps(s)
  <1>1. /\ client[s].phase = "closed" /\ pending' = [pending EXCEPT ![s] = A!Idle]
        /\ UNCHANGED <<conf, client, cache, granted, refused, uncommitted>>
    BY DEF A!Skip
  <1>2. /\ pending' \in [Sessions -> Pendings] /\ pending'[s] = A!Idle
        /\ \A t \in Sessions : t # s => pending'[t] = pending[t]
    BY <1>1, IdleForm DEF AccessTypes
  <1>3. AccessTypes'
    BY <1>1, <1>2 DEF AccessTypes
  <1>4. Steady /\ \A t \in Sessions : t # s => Untouched(t)
    BY <1>1, <1>2 DEF Steady, Untouched, Past
  <1>5. PhaseOK(s)' /\ AnswerOK(s)' /\ CurrentOK(s)'
    BY <1>1, <1>2, PhaseForm DEF PhaseOK, AnswerOK, CurrentOK, Past
  <1>6. ReplyOK(s)'
    BY <1>2, IdleForm DEF ReplyOK
  <1>7. EntryOK(s)'
    BY <1>1, <1>4, EntryKept DEF InvAt
  <1> QED
    BY <1>1, <1>3, <1>4, <1>5, <1>6, <1>7, SessionKept DEF Keeps, InvAt

(* A client whispers.                                                      *)
LEMMA WhisperKeeps ==
    ASSUME AccessTypes, NEW s \in Sessions, InvAt(s), A!Whisper(s)
    PROVE  Keeps(s)
  <1>1. UNCHANGED <<conf, client, pending, cache, granted, refused, uncommitted>>
    BY DEF A!Whisper
  <1>2. AccessTypes' /\ Steady /\ \A t \in Sessions : Untouched(t)
    BY <1>1 DEF AccessTypes, Steady, Untouched, Past
  <1> QED
    BY <1>2, UntouchedKept DEF Keeps

(* A session asks to be authenticated.                                     *)
LEMMA AuthenticateKeeps ==
    ASSUME AccessTypes, NEW s \in Sessions, InvAt(s), A!Authenticate(s)
    PROVE  Keeps(s)
  <1>1. /\ client[s].phase = "auth" /\ pending[s] = A!Idle
        /\ client' = [client EXCEPT ![s] = A!Forgets(client[s])]
        /\ UNCHANGED <<conf, cache, granted, refused, uncommitted>>
    BY DEF A!Authenticate, AccessTypes
  <1>2. PICK res \in A!ControllerAuthenticate(s) :
           pending' = [pending EXCEPT ![s] = [cmd |-> "authenticate", res |-> res]]
    BY DEF A!Authenticate
  <1>3. client \in [Sessions -> Clients] /\ client[s] \in Clients /\ conf \in Configured
    BY AccessConstants DEF AccessTypes
  <1>4. client[s].entitled = A!Entitled(s, client[s].request)
    BY <1>1 DEF InvAt, AnswerOK
  <1>5. client[s].request \in [header : A!Tokens, param : A!Tokens]
    BY <1>3 DEF Clients
  <1>6. /\ res \in Answers
        /\ \/ res.err
           \/ res.status = "success" /\ res.ids \in client[s].entitled
           \/ res.status # "success" /\ res.ids = <<>>
    BY <1>2, <1>3, <1>4, <1>5, AuthenticateAnswers
  <1>7. PICK p : p = [cmd |-> "authenticate", res |-> res]
    OBVIOUS
  <1>8. p \in Pendings /\ p # A!Idle /\ p.cmd = "authenticate" /\ p.res = res
    BY <1>6, <1>7, IdleForm DEF Pendings
  <1>9. /\ pending' \in [Sessions -> Pendings] /\ pending'[s] = p
        /\ \A t \in Sessions : t # s => pending'[t] = pending[t]
    BY <1>2, <1>7, <1>8 DEF AccessTypes
  <1>10. PICK x : x = A!Forgets(client[s])
    OBVIOUS
  <1>11. /\ x \in Clients /\ x.phase = "auth" /\ x.connected = client[s].connected
         /\ x.endpoint = client[s].endpoint /\ x.resumable = client[s].resumable
         /\ x.entitled = client[s].entitled /\ x.channels = client[s].channels
         /\ x.subs = client[s].subs /\ x.istate = client[s].istate
         /\ x.origin = client[s].origin
    BY <1>1, <1>3, <1>10, EmptyTypes DEF Clients, A!Forgets
  <1>12. /\ client' \in [Sessions -> Clients] /\ client'[s] = x
         /\ \A t \in Sessions : t # s => client'[t] = client[t]
    BY <1>1, <1>3, <1>10, <1>11
  <1>13. AccessTypes'
    BY <1>1, <1>9, <1>12 DEF AccessTypes
  <1>14. Steady /\ \A t \in Sessions : t # s => Untouched(t)
    BY <1>1, <1>9, <1>12 DEF Steady, Untouched, Past
  <1>15. PhaseOK(s)'
    BY <1>1, <1>8, <1>9, <1>11, <1>12, PhaseForm DEF PhaseOK, Past
  <1>16. AnswerOK(s)'
    BY <1>6, <1>8, <1>9, <1>11, <1>12 DEF AnswerOK
  <1>17. ReplyOK(s)'
    BY <1>8, <1>9 DEF ReplyOK
  <1>18. IdentityOK(s)' /\ TidyOK(s)' /\ VouchedOK(s)' /\ CurrentOK(s)'
    BY <1>1, <1>11, <1>12, PhaseForm DEF IdentityOK, TidyOK, Tidy, VouchedOK, CurrentOK
  <1>19. EntryOK(s)'
    BY <1>1, <1>14, EntryKept DEF InvAt
  <1> QED
    BY <1>13, <1>14, <1>15, <1>16, <1>17, <1>18, <1>19 DEF Keeps, InvAt

(* A session gets the answer to its authentication.                        *)
LEMMA AuthenticatedKeeps ==
    ASSUME AccessTypes, NEW s \in Sessions, InvAt(s), A!Authenticated(s)
    PROVE  Keeps(s)
  <1>1. /\ pending[s].cmd = "authenticate" /\ client[s].phase = "auth"
        /\ pending' = [pending EXCEPT ![s] = A!Idle] /\ UNCHANGED <<conf, granted>>
    BY DEF A!Authenticated
  <1>2. PICK res : res = pending[s].res
    OBVIOUS
  <1>3. /\ client \in [Sessions -> Clients] /\ client[s] \in Clients
        /\ pending \in [Sessions -> Pendings] /\ pending[s] \in Pendings
    BY DEF AccessTypes
  <1>4. pending[s] # A!Idle /\ res \in Answers
    BY <1>1, <1>2, <1>3, IdleForm DEF Pendings, Calls
  <1>5. /\ pending' \in [Sessions -> Pendings] /\ pending'[s] = A!Idle
        /\ \A t \in Sessions : t # s => pending'[t] = pending[t]
    BY <1>1, <1>3, IdleForm
  <1>6. \/ res.err
        \/ res.status = "success" /\ res.ids \in client[s].entitled
        \/ res.status # "success" /\ res.ids = <<>>
    BY <1>1, <1>2, <1>4 DEF InvAt, AnswerOK
  <1>7. /\ s \notin refused /\ ~client[s].connected
        /\ client[s].channels = {} /\ client[s].subs = {} /\ client[s].istate = {}
        /\ client[s].endpoint = "pusher" => ~client[s].resumable
    BY <1>1, PhaseForm
  <1>8. ReplyOK(s)'
    BY <1>5, IdleForm DEF ReplyOK
  <1>9. CASE res.err
    <2>1. PICK x : x = [client[s] EXCEPT !.phase = "closed"]
      OBVIOUS
    <2>2. client' = [client EXCEPT ![s] = x] /\ UNCHANGED <<cache, refused, uncommitted>>
      BY <1>2, <1>3, <1>9, <2>1 DEF A!Authenticated
    <2>3. /\ x \in Clients /\ x.phase = "closed" /\ ~x.connected /\ x.subs = {} /\ x.istate = {}
          /\ x.endpoint = client[s].endpoint /\ x.resumable = client[s].resumable
      BY <1>3, <1>7, <2>1 DEF Clients
    <2>4. /\ client' \in [Sessions -> Clients] /\ client'[s] = x
          /\ \A t \in Sessions : t # s => client'[t] = client[t]
      BY <1>3, <2>2, <2>3
    <2>5. AccessTypes'
      BY <1>1, <1>5, <2>2, <2>4 DEF AccessTypes
    <2>6. Steady /\ \A t \in Sessions : t # s => Untouched(t)
      BY <1>1, <1>5, <2>2, <2>4 DEF Steady, Untouched, Past
    <2>7. PhaseOK(s)'
      BY <1>5, <1>7, <2>2, <2>3, <2>4, IdleForm DEF PhaseOK, Past
    <2>8. AnswerOK(s)' /\ IdentityOK(s)' /\ TidyOK(s)' /\ VouchedOK(s)' /\ CurrentOK(s)'
      BY <2>3, <2>4 DEF AnswerOK, IdentityOK, TidyOK, Tidy, VouchedOK, CurrentOK
    <2>9. EntryOK(s)'
      BY <2>2, <2>6, EntryKept DEF InvAt
    <2> QED
      BY <1>8, <2>5, <2>6, <2>7, <2>8, <2>9 DEF Keeps, InvAt
  <1>10. CASE ~res.err
    <2>1. PICK next : next = [client EXCEPT
                         ![s].phase = IF res.status = "success" THEN "served" ELSE "closed",
                         ![s].connected = res.status = "success",
                         ![s].ids = res.ids, ![s].origin = s]
      OBVIOUS
    <2>2. PICK x : x = [client[s] EXCEPT
                         !.phase = IF res.status = "success" THEN "served" ELSE "closed",
                         !.connected = res.status = "success",
                         !.ids = res.ids, !.origin = s]
      OBVIOUS
    <2>3. next = [client EXCEPT ![s] = x]
      BY <1>3, <2>1, <2>2
    <2>4. /\ client' = next /\ A!Commit(s, next)
          /\ refused' = IF res.status = "success" THEN refused ELSE refused \cup {s}
      BY <1>2, <1>10, <2>1 DEF A!Authenticated
    <2>5. /\ x \in Clients /\ x.phase = IF res.status = "success" THEN "served" ELSE "closed"
          /\ x.connected => res.status = "success"
          /\ x.ids = res.ids /\ x.origin = s /\ x.subs = {} /\ x.istate = {}
          /\ x.entitled = client[s].entitled
          /\ x.endpoint = client[s].endpoint /\ x.resumable = client[s].resumable
      BY <1>3, <1>4, <1>7, <2>2 DEF Clients, Answers
    <2>6. /\ client' \in [Sessions -> Clients] /\ client'[s] = x
          /\ \A t \in Sessions : t # s => client'[t] = client[t]
      BY <1>3, <2>3, <2>4, <2>5
    <2>7. Steady
      BY <1>1, <2>4, <2>6 DEF Steady, Past
    <2>8. Sound(client[s].ids, client[s].origin)'
      BY <1>6, <1>7, <1>10, <2>4, <2>5, <2>6 DEF Sound, Past
    <2>9. TidyOK(s)' /\ VouchedOK(s)'
      BY <2>5, <2>6 DEF TidyOK, Tidy, VouchedOK
    <2>10. /\ cache' \in [Sessions -> Entries]
           /\ \A t \in Sessions : t # s =>
                 cache'[t] = cache[t] /\ (t \in uncommitted' <=> t \in uncommitted)
           /\ EntryOK(s)' /\ CurrentOK(s)'
      BY <2>4, <2>6, <2>7, <2>8, <2>9, CommitKeeps DEF InvAt
    <2>11. AccessTypes' /\ \A t \in Sessions : t # s => Untouched(t)
      BY <1>1, <1>5, <2>4, <2>6, <2>10 DEF AccessTypes, Untouched
    <2>12. PhaseOK(s)'
      BY <1>5, <1>7, <2>4, <2>5, <2>6, IdleForm DEF PhaseOK, Past
    <2>13. AnswerOK(s)' /\ IdentityOK(s)'
      BY <2>5, <2>6, <2>8 DEF AnswerOK, IdentityOK
    <2> QED
      BY <1>8, <2>7, <2>9, <2>10, <2>11, <2>12, <2>13 DEF Keeps, InvAt
  <1> QED
    BY <1>9, <1>10

(* A session is restored from the cache entry of another.                  *)
LEMMA TryRestoreSessionKeeps ==
    ASSUME AccessTypes, NEW s \in Sessions, \A t \in Sessions : InvAt(t), A!TryRestoreSession(s)
    PROVE  Keeps(s)
  <1>1. /\ client[s].phase = "auth" /\ pending[s] = A!Idle
        /\ UNCHANGED <<conf, pending, granted, refused>>
    BY DEF A!TryRestoreSession
  <1>2. PICK p \in Sessions, entry \in Entries :
           p = client[s].prev /\ entry = cache[p] /\ entry # A!NoEntry
    BY AccessConstants DEF A!TryRestoreSession, A!Restorable, AccessTypes, Clients
  <1>3. client \in [Sessions -> Clients] /\ client[s] \in Clients /\ client[s].resumable
    BY DEF AccessTypes, A!TryRestoreSession, A!Restorable
  <1>4. s \notin refused /\ client[s].istate = {} /\ client[s].endpoint # "pusher"
    BY <1>1, <1>3, PhaseForm
  <1>5. PICK z, x : /\ z = A!RestoreFromCache(client[s], entry)
                    /\ x = [A!Forgets(z) EXCEPT !.connected = TRUE, !.phase = "served"]
    OBVIOUS
  <1>6. PICK istate : istate = A!MergeChannelState(client[s].istate, entry.istate)
    OBVIOUS
  <1>7. istate \subseteq entry.istate /\ istate \in States
    BY <1>2, <1>4, <1>6 DEF A!MergeChannelState, States, Entries
  <1>8. z = [client[s] EXCEPT !.ids = entry.ids, !.channels = entry.channels, !.subs = entry.subs,
                              !.istate = istate, !.origin = entry.origin]
    BY <1>5, <1>6 DEF A!RestoreFromCache
  <1>9. /\ z \in Clients /\ z.ids = entry.ids /\ z.channels = entry.channels
        /\ z.subs = entry.subs /\ z.istate = istate /\ z.origin = entry.origin
        /\ z.endpoint = client[s].endpoint /\ z.resumable = client[s].resumable
    BY ZenonT(60), <1>2, <1>3, <1>7, <1>8 DEF Clients, Entries
  <1>10. /\ x \in Clients /\ x.ids = entry.ids /\ x.channels = entry.channels
         /\ x.subs = entry.subs /\ x.istate = istate /\ x.origin = entry.origin
         /\ x.phase = "served" /\ x.endpoint # "pusher"
    BY <1>4, <1>5, <1>9, EmptyTypes DEF Clients, A!Forgets
  <1>11. PICK next : next = [client EXCEPT ![s] = x]
    OBVIOUS
  <1>12. client' = next /\ A!Commit(s, next)
    BY <1>2, <1>5, <1>11 DEF A!TryRestoreSession
  <1>13. /\ client' \in [Sessions -> Clients] /\ client'[s] = x
         /\ \A t \in Sessions : t # s => client'[t] = client[t]
    BY <1>3, <1>10, <1>11, <1>12
  <1>14. Steady
    BY <1>1, <1>13 DEF Steady, Past
  <1>15. PICK i1, o1 : i1 = entry.ids /\ o1 = entry.origin
    OBVIOUS
  <1>16. Sound(client[s].ids, client[s].origin)'
    <2>1. Sound(i1, o1)
      BY <1>2, <1>15 DEF InvAt, EntryOK
    <2>2. Sound(i1, o1)'
      BY <2>1, <1>14, SoundKept
    <2> QED
      BY <2>2, <1>10, <1>13, <1>15 DEF Sound, Past
  <1>17. TidyOK(s)'
    <2>1. Tidy(entry)
      BY <1>2 DEF InvAt, EntryOK
    <2> QED
      BY <2>1, <1>7, <1>10, <1>13 DEF TidyOK, Tidy
  <1>18. VouchedOK(s)'
    <2>1. \A sub \in entry.subs : KeyVouched(sub[1], sub[2]) /\ AppVouched(o1, sub[1], sub[2])
      BY <1>2, <1>15 DEF InvAt, EntryOK
    <2>2. \A sub \in entry.subs : KeyVouched(sub[1], sub[2])' /\ AppVouched(o1, sub[1], sub[2])'
      BY <2>1, <1>14, VouchedKept
    <2>3. \A sub \in entry.subs : AppVouched(client[s].origin, sub[1], sub[2])'
      BY <2>2, <1>10, <1>13, <1>15 DEF AppVouched
    <2>4. \A sub \in entry.subs : PusherVouched(s, sub[1], sub[2])'
      BY <1>10, <1>13 DEF PusherVouched
    <2> QED
      BY <2>2, <2>3, <2>4, <1>10, <1>13 DEF VouchedOK
  <1>19. /\ cache' \in [Sessions -> Entries]
         /\ \A t \in Sessions : t # s =>
               cache'[t] = cache[t] /\ (t \in uncommitted' <=> t \in uncommitted)
         /\ EntryOK(s)' /\ CurrentOK(s)'
    BY <1>12, <1>13, <1>14, <1>16, <1>17, <1>18, CommitKeeps DEF InvAt
  <1>20. AccessTypes' /\ \A t \in Sessions : t # s => Untouched(t)
    BY <1>1, <1>13, <1>19 DEF AccessTypes, Untouched
  <1>21. PhaseOK(s)' /\ AnswerOK(s)' /\ IdentityOK(s)'
    BY <1>1, <1>4, <1>10, <1>13, <1>16, IdleForm DEF PhaseOK, AnswerOK, IdentityOK, Past
  <1>22. ReplyOK(s)'
    BY <1>1, IdleForm DEF ReplyOK
  <1> QED
    BY <1>14, <1>17, <1>18, <1>19, <1>20, <1>21, <1>22 DEF Keeps, InvAt

-----------------------------------------------------------------------------
(* Commands. *)

(* A command is called: of the session at most the state changes, and that *)
(* of a Pusher session, which is not committed.                            *)
LEMMA CallKeeps ==
    ASSUME AccessTypes, NEW s \in Sessions, InvAt(s), client[s].phase = "served",
           UNCHANGED <<conf, cache, refused, uncommitted>>, granted \subseteq granted',
           NEW istate \in States,
           client' = client \/ (client' = [client EXCEPT ![s].istate = istate] /\ ~client[s].resumable),
           \A e \in istate : e[2] = "w" => e \in client[s].istate,
           NEW p \in Pendings, p.cmd # "authenticate", pending' = [pending EXCEPT ![s] = p],
           ReplyOK(s)'
    PROVE  Keeps(s)
  <1>1. client \in [Sessions -> Clients] /\ client[s] \in Clients
    BY DEF AccessTypes
  <1>2. PICK x \in Clients :
           /\ client' = [client EXCEPT ![s] = x] /\ (x = client[s] \/ ~x.resumable)
           /\ x.phase = client[s].phase /\ x.connected = client[s].connected
           /\ x.resumable = client[s].resumable /\ x.endpoint = client[s].endpoint
           /\ x.entitled = client[s].entitled /\ x.origin = client[s].origin
           /\ x.ids = client[s].ids /\ x.channels = client[s].channels /\ x.subs = client[s].subs
           /\ \A e \in x.istate : e[2] = "w" => e \in client[s].istate
    <2>1. CASE client' = client
      BY <1>1, <2>1
    <2>2. CASE client' = [client EXCEPT ![s].istate = istate] /\ ~client[s].resumable
      <3>1. PICK x : x = [client[s] EXCEPT !.istate = istate]
        OBVIOUS
      <3>2. client' = [client EXCEPT ![s] = x]
        BY <1>1, <2>2, <3>1
      <3>3. /\ x \in Clients /\ x.istate = istate
            /\ x.phase = client[s].phase /\ x.connected = client[s].connected
            /\ x.resumable = client[s].resumable /\ x.endpoint = client[s].endpoint
            /\ x.entitled = client[s].entitled /\ x.origin = client[s].origin
            /\ x.ids = client[s].ids /\ x.channels = client[s].channels /\ x.subs = client[s].subs
        BY <1>1, <3>1 DEF Clients
      <3> QED
        BY <2>2, <3>2, <3>3
    <2> QED
      BY <2>1, <2>2
  <1>3. /\ client' \in [Sessions -> Clients] /\ client'[s] = x
        /\ \A t \in Sessions : t # s => client'[t] = client[t]
    BY <1>1, <1>2
  <1>4. /\ pending' \in [Sessions -> Pendings] /\ pending'[s] = p
        /\ \A t \in Sessions : t # s => pending'[t] = pending[t]
    BY DEF AccessTypes
  <1>5. AccessTypes'
    BY <1>3, <1>4 DEF AccessTypes
  <1>6. Steady /\ \A t \in Sessions : t # s => Untouched(t)
    BY <1>2, <1>3, <1>4 DEF Steady, Untouched, Past
  <1>7. PhaseOK(s)' /\ AnswerOK(s)'
    BY <1>2, <1>3, <1>4, PhaseForm DEF PhaseOK, AnswerOK, Past
  <1>8. IdentityOK(s)'
    <2>1. PICK i1, o1 : i1 = client[s].ids /\ o1 = client[s].origin
      OBVIOUS
    <2>2. Sound(i1, o1)
      BY <2>1 DEF InvAt, IdentityOK
    <2>3. Sound(i1, o1)'
      BY <2>2, <1>6, SoundKept
    <2> QED
      BY <2>1, <2>3, <1>2, <1>3 DEF IdentityOK, Sound, Past
  <1>9. TidyOK(s)'
    BY <1>2, <1>3 DEF InvAt, TidyOK, Tidy
  <1>10. VouchedOK(s)'
    BY <1>2, <1>3, <1>6, SessionVouched DEF InvAt
  <1>11. CurrentOK(s)'
    BY <1>2, <1>3 DEF InvAt, CurrentOK
  <1>12. EntryOK(s)'
    BY <1>6, EntryKept DEF InvAt
  <1> QED
    BY <1>5, <1>6, <1>7, <1>8, <1>9, <1>10, <1>11, <1>12 DEF Keeps, InvAt

(* The identifier that a Pusher channel is given.                          *)
LEMMA ChannelIdentifiers ==
    ASSUME NEW name \in A!StreamNames \cup {""}
    PROVE  /\ A!channelToIdentifier(name) \in A!Identifiers
           /\ A!channelToIdentifier(name).channel = "$pusher"
           /\ A!channelToIdentifier(name).name = name
  BY DEF A!channelToIdentifier, A!Identifiers

(* The identifiers that a client may send.                                 *)
LEMMA SentTypes ==
    ASSUME conf \in Configured, NEW s \in Sessions, NEW cmd, NEW id \in A!Sent(s, cmd)
    PROVE  id \in A!Identifiers /\ (client[s].endpoint # "cable" => id.channel = "$pusher")
  <1>1. conf.used \subseteq A!Identifiers
    BY DEF Configured
  <1>2. CASE client[s].endpoint = "cable"
    BY <1>1, <1>2 DEF A!Sent
  <1>3. CASE client[s].endpoint # "cable"
    <2>1. PICK i \in conf.used : id = A!channelToIdentifier(i.name)
      BY <1>3 DEF A!Sent
    <2>2. i.name \in A!StreamNames \cup {""}
      BY <1>1, <2>1 DEF A!Identifiers
    <2> QED
      BY <2>1, <2>2, ChannelIdentifiers
  <1> QED
    BY <1>2, <1>3

(* Unsubscribe and Perform.                                                *)
LEMMA OtherCommandKeeps ==
    ASSUME AccessTypes, NEW s \in Sessions, InvAt(s), A!Unsubscribe(s) \/ A!Perform(s)
    PROVE  Keeps(s)
  <1>1. /\ client[s].phase = "served" /\ pending[s] = A!Idle
        /\ UNCHANGED <<conf, client, cache, refused, uncommitted>>
    BY DEF A!Unsubscribe, A!Perform, A!Ready
  <1>2. client \in [Sessions -> Clients] /\ client[s] \in Clients /\ conf \in Configured
    BY AccessConstants DEF AccessTypes
  <1>3. PICK cmd \in {"unsubscribe", "perform"}, id \in client[s].channels :
           \E res \in A!RouterUnsubscribe(id) \cup A!RouterPerform(id) :
               /\ pending' = [pending EXCEPT ![s] = [cmd |-> cmd, id |-> id, res |-> res]]
               /\ granted' = granted \cup {}
                            \cup (IF id.channel = "App" THEN {<<s, st>> : st \in res.streams} ELSE {})
               /\ cmd = "perform" => res \in A!RouterPerform(id)
    BY DEF A!Unsubscribe, A!Perform, A!Call
  <1>4. PICK res \in A!RouterUnsubscribe(id) \cup A!RouterPerform(id) :
           /\ pending' = [pending EXCEPT ![s] = [cmd |-> cmd, id |-> id, res |-> res]]
           /\ granted' = granted \cup {}
                            \cup (IF id.channel = "App" THEN {<<s, st>> : st \in res.streams} ELSE {})
           /\ cmd = "perform" => res \in A!RouterPerform(id)
    BY <1>3
  <1>5. id \in A!Identifiers
    BY <1>2, <1>4 DEF Clients
  <1>6. /\ res \in Results /\ \A f \in res.istate : f[1] # "w"
        /\ id.channel # "App" => res.streams = {}
        /\ res \in A!RouterPerform(id) /\ A!Handled(res) => id.channel = "App"
    BY <1>4, <1>5, CommandResults
  <1>7. PICK p : p = [cmd |-> cmd, id |-> id, res |-> res]
    OBVIOUS
  <1>8. p \in Pendings /\ p.cmd = cmd /\ p.id = id /\ p.res = res
    BY <1>4, <1>5, <1>6, <1>7 DEF Pendings, Calls
  <1>9. pending'[s] = p
    BY <1>4, <1>7 DEF AccessTypes
  <1>10. \A st \in res.streams : /\ id.channel = "App" /\ <<s, st>> \in granted'
    BY <1>4, <1>6
  <1>11. ReplyOK(s)'
    <2>1. \A st \in res.streams : KeyVouched(id, st)' /\ PusherVouched(s, id, st)'
      BY <1>10 DEF KeyVouched, PusherVouched
    <2> QED
      BY <2>1, <1>4, <1>6, <1>8, <1>9, <1>10 DEF ReplyOK
  <1>12. client[s].istate \in States
    BY <1>2 DEF Clients
  <1> QED
    BY <1>1, <1>4, <1>7, <1>8, <1>11, <1>12, CallKeeps

(* The signature that a private channel of Pusher needs was shown.         *)
LEMMA PrivateShown ==
    ASSUME NEW s \in Sessions, NEW id \in A!Identifiers, NEW auth, id.channel = "$pusher",
           A!verifyPrivateChannel(s, id, auth), id.name \in A!PrivateChannels
    PROVE  auth.socket = s /\ auth.channel = id.name
  <1>1. auth = [socket |-> s, channel |-> id.name]
    BY DEF A!verifyPrivateChannel, A!identifierToChannel, A!VerifyPresenceChannel, A!VerifyChannel,
           A!verifyString, A!PrivateChannels
  <1> QED
    BY <1>1

(* A session asks to subscribe.                                            *)
LEMMA SubscribeKeeps ==
    ASSUME AccessTypes, NEW s \in Sessions, InvAt(s), A!Subscribe(s)
    PROVE  Keeps(s)
  <1>1. /\ client[s].phase = "served" /\ pending[s] = A!Idle
        /\ UNCHANGED <<conf, cache, refused, uncommitted>>
    BY DEF A!Subscribe, A!Ready
  <1>2. client \in [Sessions -> Clients] /\ client[s] \in Clients /\ conf \in Configured
    BY AccessConstants DEF AccessTypes
  <1>3. PICK id \in A!Sent(s, "subscribe"), auth \in A!Auths :
           LET pusher == client[s].endpoint = "pusher"
               ok == A!verifyPrivateChannel(s, id, auth)
               actual == IF pusher /\ ~ok THEN A!channelToIdentifier("") ELSE id
               shown == IF auth.socket = s THEN {<<s, auth.channel>>} ELSE {}
           IN /\ client' = IF pusher /\ ok /\ id.name = "presence"
                           THEN [client EXCEPT ![s].istate =
                                     A!MergeChannelState(@, {<<id, "data", "member">>})]
                           ELSE client
              /\ IF actual \in client[s].channels
                 THEN UNCHANGED pending /\ granted' = granted \cup shown
                 ELSE A!Call(s, "subscribe", actual, A!RouterSubscribe(actual), shown)
    BY DEF A!Subscribe
  <1>4. id \in A!Identifiers /\ (client[s].endpoint # "cable" => id.channel = "$pusher")
    BY <1>2, <1>3, SentTypes
  <1>5. PICK actual : actual = IF client[s].endpoint = "pusher" /\ ~A!verifyPrivateChannel(s, id, auth)
                              THEN A!channelToIdentifier("") ELSE id
    OBVIOUS
  <1>6. PICK shown : shown = IF auth.socket = s THEN {<<s, auth.channel>>} ELSE {}
    OBVIOUS
  <1>7. IF actual \in client[s].channels
        THEN UNCHANGED pending /\ granted' = granted \cup shown
        ELSE A!Call(s, "subscribe", actual, A!RouterSubscribe(actual), shown)
    BY <1>3, <1>5, <1>6
  <1>8. /\ actual \in A!Identifiers
        /\ client[s].endpoint = "pusher" /\ actual.channel = "$pusher"
               /\ actual.name \in A!PrivateChannels => <<s, actual.name>> \in shown
    <2>1. CASE client[s].endpoint = "pusher" /\ ~A!verifyPrivateChannel(s, id, auth)
      <3>1. actual = A!channelToIdentifier("")
        BY <1>5, <2>1
      <3>2. actual \in A!Identifiers /\ actual.name = ""
        BY <3>1, ChannelIdentifiers
      <3> QED
        BY <3>2 DEF A!PrivateChannels
    <2>2. CASE client[s].endpoint = "pusher" /\ A!verifyPrivateChannel(s, id, auth)
      BY <1>4, <1>5, <1>6, <2>2, PrivateShown
    <2>3. CASE client[s].endpoint # "pusher"
      BY <1>4, <1>5, <2>3
    <2> QED
      BY <2>1, <2>2, <2>3
  <1>9. PICK istate \in States :
           /\ client' = client \/ (client' = [client EXCEPT ![s].istate = istate] /\ ~client[s].resumable)
           /\ \A e \in istate : e[2] = "w" => e \in client[s].istate
    <2>1. client[s].istate \in States
      BY <1>2 DEF Clients
    <2>2. CASE client' = client
      BY <2>1, <2>2
    <2>3. CASE client' # client
      <3>1. /\ client[s].endpoint = "pusher"
            /\ client' = [client EXCEPT ![s].istate =
                             A!MergeChannelState(@, {<<id, "data", "member">>})]
        BY <1>3, <2>3
      <3>2. PICK istate : istate = A!MergeChannelState(client[s].istate, {<<id, "data", "member">>})
        OBVIOUS
      <3>3. \A e \in istate : e \in client[s].istate \/ e = <<id, "data", "member">>
        BY <3>2 DEF A!MergeChannelState
      <3>4. <<id, "data", "member">> \in A!Identifiers \X Fields \X Values
        BY <1>4 DEF Fields, Values
      <3>5. istate \in States
        BY <2>1, <3>3, <3>4 DEF States
      <3>6. \A e \in istate : e[2] = "w" => e \in client[s].istate
        BY <3>3
      <3>7. client' = [client EXCEPT ![s].istate = istate] /\ ~client[s].resumable
        BY <1>2, <3>1, <3>2, PhaseForm
      <3> QED
        BY <3>5, <3>6, <3>7
    <2> QED
      BY <2>2, <2>3
  <1>10. CASE actual \in client[s].channels
    <2>1. UNCHANGED pending /\ granted \subseteq granted'
      BY <1>7, <1>10
    <2>2. pending' = [pending EXCEPT ![s] = A!Idle]
      BY <1>1, <2>1 DEF AccessTypes
    <2>3. ReplyOK(s)'
      BY <1>1, <2>1, IdleForm DEF ReplyOK
    <2> QED
      BY <1>1, <1>9, <2>1, <2>2, <2>3, IdleForm, CallKeeps
  <1>11. CASE actual \notin client[s].channels
    <2>1. PICK res \in A!RouterSubscribe(actual) :
            /\ pending' = [pending EXCEPT ![s] = [cmd |-> "subscribe", id |-> actual, res |-> res]]
            /\ granted' = granted \cup shown
                   \cup (IF actual.channel = "App" THEN {<<s, st>> : st \in res.streams} ELSE {})
      BY <1>7, <1>11 DEF A!Call
    <2>2. /\ res \in Results
          /\ \A f \in res.istate : f[1] = "w" =>
                /\ f[2] \in res.streams /\ res.status = "success" /\ ~res.err
                /\ actual.channel # "App"
          /\ \A st \in res.streams :
                KeyVouched(actual, st) /\ (actual.channel = "$pusher" => st = actual.name)
      BY <1>2, <1>8, <2>1, SubscribeResults
    <2>3. PICK p : p = [cmd |-> "subscribe", id |-> actual, res |-> res]
      OBVIOUS
    <2>4. p \in Pendings /\ p.cmd = "subscribe" /\ p.id = actual /\ p.res = res
      BY <1>8, <2>2, <2>3 DEF Pendings, Calls
    <2>5. pending'[s] = p
      BY <2>1, <2>3 DEF AccessTypes
    <2>6. client'[s].endpoint = client[s].endpoint /\ client'[s].channels = client[s].channels
      BY <1>2, <1>9 DEF Clients
    <2>7. \A st \in res.streams : KeyVouched(actual, st)'
      BY <1>1, <2>2 DEF KeyVouched, A!GetTurboSecret, A!GetCableReadySecret
    <2>8. \A st \in res.streams : PusherVouched(s, actual, st)'
      BY <1>8, <2>1, <2>2, <2>6 DEF PusherVouched
    <2>9. \A st \in res.streams : actual.channel = "App" => <<s, st>> \in granted'
      BY <2>1
    <2>10. ReplyOK(s)'
      BY <1>11, <2>2, <2>4, <2>5, <2>6, <2>7, <2>8, <2>9 DEF ReplyOK
    <2>11. granted \subseteq granted'
      BY <2>1
    <2> QED
      BY <1>1, <1>9, <2>1, <2>3, <2>4, <2>10, <2>11, CallKeeps
  <1> QED
    BY <1>10, <1>11

(* The reply to a command is handled: some streams of the channel are      *)
(* stopped, those of the reply are started and its state is merged.        *)
LEMMA ReplyForm ==
    ASSUME NEW x \in Clients, NEW id \in A!Identifiers, NEW res \in Results,
           NEW y, y = A!handleCommandReply(x, id, res)
    PROVE  /\ y \in Clients /\ y.phase = x.phase /\ y.connected = x.connected
           /\ y.endpoint = x.endpoint /\ y.resumable = x.resumable /\ y.entitled = x.entitled
           /\ y.ids = x.ids /\ y.origin = x.origin /\ y.channels = x.channels
           /\ \A sub \in y.subs : \/ sub \in x.subs /\ (res.stop => sub[1] # id)
                                  \/ id \in x.channels /\ sub[1] = id /\ sub[2] \in res.streams
           /\ \A sub \in x.subs : sub[1] # id \/ ~res.stop => sub \in y.subs
           /\ id \in x.channels => \A st \in res.streams : <<id, st>> \in y.subs
           /\ \A e \in y.istate : e \in x.istate \/ (e[1] = id /\ <<e[2], e[3]>> \in res.istate)
           /\ \A e \in x.istate : e[1] # id \/ res.istate = {} => e \in y.istate
  <1>1. PICK subs, new, istate :
           /\ subs = (IF res.stop THEN {sub \in x.subs : sub[1] # id} ELSE x.subs)
                       \cup (IF id \in x.channels THEN {<<id, st>> : st \in res.streams} ELSE {})
           /\ new = {<<id, f[1], f[2]>> : f \in res.istate}
           /\ istate = A!MergeChannelState(x.istate, new)
    OBVIOUS
  <1>2. y = [x EXCEPT !.subs = subs, !.istate = istate]
    BY <1>1 DEF A!handleCommandReply, Clients
  <1>3. /\ x.subs \in Subs /\ x.istate \in States /\ res.streams \in SUBSET A!StreamNames
        /\ res.istate \in SUBSET (Fields \X Values)
    BY DEF Clients, Results
  <1>4. /\ subs \in Subs
        /\ \A sub \in subs : \/ sub \in x.subs /\ (res.stop => sub[1] # id)
                             \/ id \in x.channels /\ sub[1] = id /\ sub[2] \in res.streams
        /\ \A sub \in x.subs : sub[1] # id \/ ~res.stop => sub \in subs
        /\ id \in x.channels => \A st \in res.streams : <<id, st>> \in subs
    BY <1>1, <1>3 DEF Subs
  <1>5. \A n \in new : /\ n \in A!Identifiers \X Fields \X Values
                       /\ n[1] = id /\ <<n[2], n[3]>> \in res.istate
    <2>1. ASSUME NEW f \in res.istate
          PROVE  LET n == <<id, f[1], f[2]>> IN
                 /\ n \in A!Identifiers \X Fields \X Values
                 /\ n[1] = id /\ <<n[2], n[3]>> \in res.istate
      <3>1. f[1] \in Fields /\ f[2] \in Values /\ f = <<f[1], f[2]>>
        BY <1>3
      <3> QED
        BY <3>1
    <2> QED
      BY <1>1, <2>1
  <1>6. \A e \in istate : e \in x.istate \/ e \in new
    BY <1>1 DEF A!MergeChannelState
  <1>7. /\ istate \in States
        /\ \A e \in istate : e \in x.istate \/ (e[1] = id /\ <<e[2], e[3]>> \in res.istate)
    BY <1>3, <1>5, <1>6 DEF States
  <1>8. \A e \in x.istate : e[1] # id \/ res.istate = {} => e \in istate
    <2>1. ASSUME NEW e \in x.istate, e[1] # id \/ res.istate = {}, NEW n \in new
          PROVE  <<n[1], n[2]>> # <<e[1], e[2]>>
      BY <1>5, <2>1
    <2> QED
      BY <1>1, <2>1 DEF A!MergeChannelState
  <1>9. /\ y \in Clients /\ y.phase = x.phase /\ y.connected = x.connected
        /\ y.endpoint = x.endpoint /\ y.resumable = x.resumable /\ y.entitled = x.entitled
        /\ y.ids = x.ids /\ y.origin = x.origin /\ y.channels = x.channels
        /\ y.subs = subs /\ y.istate = istate
    BY <1>2, <1>4, <1>7 DEF Clients
  <1> QED
    BY <1>4, <1>7, <1>8, <1>9

(* A session is left as x by the reply, and committed unless nothing of a  *)
(* subscribed channel has changed.                                         *)
LEMMA ReplyKeeps ==
    ASSUME AccessTypes, NEW s \in Sessions, InvAt(s), client[s].phase = "served",
           pending' = [pending EXCEPT ![s] = A!Idle], UNCHANGED <<conf, granted, refused>>,
           NEW x \in Clients, NEW next, next = [client EXCEPT ![s] = x], client' = next,
           x.phase = client[s].phase, x.connected = client[s].connected,
           x.endpoint = client[s].endpoint, x.resumable = client[s].resumable,
           x.entitled = client[s].entitled, x.ids = client[s].ids, x.origin = client[s].origin,
           Tidy(x),
           \A sub \in x.subs :
              \/ sub \in client[s].subs
              \/ /\ KeyVouched(sub[1], sub[2]) /\ PusherVouched(s, sub[1], sub[2])
                 /\ sub[1].channel = "App" => <<s, sub[2]>> \in granted,
           \/ A!Commit(s, next)
           \/ /\ UNCHANGED <<cache, uncommitted>>
              /\ x.channels = client[s].channels /\ x.subs = client[s].subs
              /\ \A e \in x.istate \cup client[s].istate :
                    e[1] \in x.channels => e \in x.istate \cap client[s].istate
    PROVE  Keeps(s)
  <1>1. client \in [Sessions -> Clients] /\ client[s] \in Clients
    BY DEF AccessTypes
  <1>2. /\ client' \in [Sessions -> Clients] /\ client'[s] = x
        /\ \A t \in Sessions : t # s => client'[t] = client[t]
    BY <1>1
  <1>3. /\ pending' \in [Sessions -> Pendings] /\ pending'[s] = A!Idle
        /\ \A t \in Sessions : t # s => pending'[t] = pending[t]
    BY IdleForm DEF AccessTypes
  <1>4. Steady
    BY <1>2 DEF Steady, Past
  <1>5. Sound(client[s].ids, client[s].origin)'
    <2>1. PICK i1, o1 : i1 = client[s].ids /\ o1 = client[s].origin
      OBVIOUS
    <2>2. Sound(i1, o1)
      BY <2>1 DEF InvAt, IdentityOK
    <2>3. Sound(i1, o1)'
      BY <2>2, <1>4, SoundKept
    <2> QED
      BY <2>1, <2>3, <1>2 DEF Sound, Past
  <1>6. TidyOK(s)'
    BY <1>2 DEF TidyOK, Tidy
  <1>7. VouchedOK(s)'
    <2>1. PICK o1 : o1 = client[s].origin
      OBVIOUS
    <2>2. \A sub \in x.subs : /\ KeyVouched(sub[1], sub[2]) /\ PusherVouched(s, sub[1], sub[2])
                              /\ AppVouched(o1, sub[1], sub[2])
      <3>1. Past(s)
        BY DEF Past
      <3> QED
        BY <2>1, <3>1 DEF InvAt, VouchedOK, AppVouched
    <2>3. \A sub \in x.subs : KeyVouched(sub[1], sub[2])' /\ AppVouched(o1, sub[1], sub[2])'
      BY <2>2, <1>4, VouchedKept
    <2>4. \A sub \in x.subs : PusherVouched(s, sub[1], sub[2])'
      BY <2>2, <1>2 DEF PusherVouched
    <2>5. \A sub \in x.subs : AppVouched(client[s].origin, sub[1], sub[2])'
      BY <2>1, <2>3, <1>2 DEF AppVouched
    <2> QED
      BY <2>3, <2>4, <2>5, <1>2 DEF VouchedOK
  <1>8. /\ cache' \in [Sessions -> Entries]
        /\ \A t \in Sessions : t # s =>
              cache'[t] = cache[t] /\ (t \in uncommitted' <=> t \in uncommitted)
        /\ EntryOK(s)' /\ CurrentOK(s)'
    <2>1. CASE A!Commit(s, next)
      BY <2>1, <1>2, <1>4, <1>5, <1>6, <1>7, CommitKeeps DEF InvAt
    <2>2. CASE /\ UNCHANGED <<cache, uncommitted>>
               /\ x.channels = client[s].channels /\ x.subs = client[s].subs
               /\ \A e \in x.istate \cup client[s].istate :
                     e[1] \in x.channels => e \in x.istate \cap client[s].istate
      <3>1. EntryOK(s)'
        BY <2>2, <1>4, EntryKept DEF InvAt
      <3>2. CurrentOK(s)'
        BY <2>2, <1>2 DEF InvAt, CurrentOK
      <3> QED
        BY <2>2, <3>1, <3>2 DEF AccessTypes
    <2> QED
      BY <2>1, <2>2
  <1>9. AccessTypes' /\ \A t \in Sessions : t # s => Untouched(t)
    BY <1>2, <1>3, <1>8 DEF AccessTypes, Untouched
  <1>10. PhaseOK(s)' /\ AnswerOK(s)' /\ IdentityOK(s)'
    BY <1>2, <1>3, <1>5, PhaseForm, IdleForm DEF PhaseOK, AnswerOK, IdentityOK, Past
  <1>11. ReplyOK(s)'
    BY <1>3, IdleForm DEF ReplyOK
  <1> QED
    BY <1>4, <1>6, <1>7, <1>8, <1>9, <1>10, <1>11 DEF Keeps, InvAt

(* What a command that waits for its reply is.                             *)
LEMMA PendingCall ==
    ASSUME AccessTypes, NEW s \in Sessions, InvAt(s),
           pending[s].cmd \in {"subscribe", "unsubscribe", "perform"}
    PROVE  /\ pending[s].id \in A!Identifiers /\ pending[s].res \in Results
           /\ \A st \in pending[s].res.streams :
                 /\ KeyVouched(pending[s].id, st) /\ PusherVouched(s, pending[s].id, st)
                 /\ pending[s].id.channel = "App" => <<s, st>> \in granted
  <1>1. pending[s] \in Pendings
    BY DEF AccessTypes
  <1>2. pending[s] \in Calls
    BY <1>1, IdleForm DEF Pendings
  <1>3. pending[s].id \in A!Identifiers /\ pending[s].res \in Results
    BY <1>2 DEF Calls
  <1> QED
    BY <1>3 DEF InvAt, ReplyOK

(* A reply that is not handled.                                            *)
LEMMA UnhandledKeeps ==
    ASSUME AccessTypes, NEW s \in Sessions, InvAt(s), client[s].phase = "served",
           pending' = [pending EXCEPT ![s] = A!Idle], UNCHANGED <<conf, granted, refused>>,
           UNCHANGED <<client, cache, uncommitted>>
    PROVE  Keeps(s)
  <1>1. PICK x \in Clients : x = client[s] /\ client' = [client EXCEPT ![s] = x]
    BY DEF AccessTypes
  <1>2. Tidy(x)
    BY <1>1 DEF InvAt, TidyOK
  <1> QED
    BY <1>1, <1>2, ReplyKeeps

(* A session gets the answer to its subscription.                          *)
LEMMA SubscribedKeeps ==
    ASSUME AccessTypes, NEW s \in Sessions, InvAt(s), A!Subscribed(s)
    PROVE  Keeps(s)
  <1>1. /\ client[s].phase = "served" /\ pending[s].cmd = "subscribe"
        /\ pending' = [pending EXCEPT ![s] = A!Idle] /\ UNCHANGED <<conf, granted, refused>>
    BY DEF A!Subscribed, A!Reply
  <1>2. PICK id \in A!Identifiers, res \in Results : id = pending[s].id /\ res = pending[s].res
    BY <1>1, PendingCall
  <1>3. \A st \in res.streams :
           /\ KeyVouched(id, st) /\ PusherVouched(s, id, st)
           /\ id.channel = "App" => <<s, st>> \in granted
    BY <1>1, <1>2, PendingCall
  <1>4. /\ id \notin client[s].channels
        /\ \A f \in res.istate : f[1] = "w" =>
              /\ f[2] \in res.streams /\ id.channel # "App"
              /\ res.status = "success" /\ ~res.err
    BY <1>1, <1>2 DEF InvAt, ReplyOK
  <1>5. client \in [Sessions -> Clients] /\ client[s] \in Clients /\ Tidy(client[s])
    BY DEF AccessTypes, InvAt, TidyOK
  <1>6. CASE ~A!Handled(res)
    <2>1. UNCHANGED <<client, cache, uncommitted>>
      BY <1>2, <1>6 DEF A!Subscribed
    <2> QED
      BY <1>1, <2>1, UnhandledKeeps
  <1>7. CASE A!Handled(res) /\ res.status = "success" /\ ~res.err
    <2>1. PICK channels, z, x, next :
                            /\ channels = client[s].channels \cup {id}
                            /\ z = [client[s] EXCEPT !.channels = channels]
                            /\ x = A!handleCommandReply(z, id, res)
                            /\ next = [client EXCEPT ![s] = x]
      OBVIOUS
    <2>2. x = A!handleCommandReply(z, id, res) /\ next = [client EXCEPT ![s] = x]
      BY <2>1
    <2>3. client' = next /\ A!Commit(s, next)
      BY <1>2, <1>7, <2>1 DEF A!Subscribed
    <2>4. /\ z \in Clients /\ z.channels = client[s].channels \cup {id}
          /\ z.phase = client[s].phase /\ z.connected = client[s].connected
          /\ z.endpoint = client[s].endpoint /\ z.resumable = client[s].resumable
          /\ z.entitled = client[s].entitled /\ z.ids = client[s].ids
          /\ z.origin = client[s].origin /\ z.subs = client[s].subs
          /\ z.istate = client[s].istate
      BY <1>2, <1>5, <2>1 DEF Clients
    <2>5. /\ x \in Clients /\ x.phase = z.phase /\ x.connected = z.connected
          /\ x.endpoint = z.endpoint /\ x.resumable = z.resumable /\ x.entitled = z.entitled
          /\ x.ids = z.ids /\ x.origin = z.origin /\ x.channels = z.channels
          /\ \A sub \in x.subs : \/ sub \in z.subs
                                 \/ sub[1] = id /\ sub[2] \in res.streams
          /\ \A sub \in z.subs : sub[1] # id => sub \in x.subs
          /\ id \in z.channels => \A st \in res.streams : <<id, st>> \in x.subs
          /\ \A e \in x.istate : e \in z.istate \/ (e[1] = id /\ <<e[2], e[3]>> \in res.istate)
      BY SMTT(30), <1>2, <2>2, <2>4, ReplyForm
    <2>6. Tidy(x)
      <3>1. \A sub \in x.subs : sub[1] \in x.channels
        BY <1>5, <2>4, <2>5 DEF Tidy
      <3>2. ASSUME NEW e \in x.istate, e[2] = "w"
            PROVE  <<e[1], e[3]>> \in x.subs /\ e[1].channel # "App"
        <4>1. CASE e \in client[s].istate
          <5>1. <<e[1], e[3]>> \in client[s].subs /\ e[1].channel # "App"
            BY <1>5, <3>2, <4>1 DEF Tidy
          <5>2. <<e[1], e[3]>>[1] \in client[s].channels
            BY <1>5, <5>1 DEF Tidy
          <5>3. <<e[1], e[3]>>[1] # id
            BY <1>4, <5>2
          <5> QED
            BY <5>1, <5>3, <2>4, <2>5
        <4>2. CASE e[1] = id /\ <<e[2], e[3]>> \in res.istate
          <5>1. <<e[2], e[3]>>[1] = "w"
            BY <3>2
          <5>2. <<e[2], e[3]>>[2] \in res.streams /\ id.channel # "App"
            BY <1>4, <4>2, <5>1
          <5> QED
            BY <5>2, <4>2, <2>4, <2>5
        <4> QED
          BY <4>1, <4>2, <2>4, <2>5
      <3> QED
        BY <3>1, <3>2 DEF Tidy
    <2>7. \A sub \in x.subs :
             \/ sub \in client[s].subs
             \/ /\ KeyVouched(sub[1], sub[2]) /\ PusherVouched(s, sub[1], sub[2])
                /\ sub[1].channel = "App" => <<s, sub[2]>> \in granted
      <3>1. \A sub \in x.subs : sub \in client[s].subs \/ (sub[1] = id /\ sub[2] \in res.streams)
        BY <2>4, <2>5
      <3>2. ASSUME NEW sub \in x.subs, sub[1] = id, sub[2] \in res.streams
            PROVE  /\ KeyVouched(sub[1], sub[2]) /\ PusherVouched(s, sub[1], sub[2])
                   /\ sub[1].channel = "App" => <<s, sub[2]>> \in granted
        BY <1>3, <3>2
      <3> QED
        BY <3>1, <3>2
    <2> QED
      BY <1>1, <2>2, <2>3, <2>4, <2>5, <2>6, <2>7, ReplyKeeps
  <1>8. CASE A!Handled(res) /\ ~(res.status = "success" /\ ~res.err)
    <2>1. PICK z, x, next : /\ z = client[s]
                            /\ x = A!handleCommandReply(z, id, res)
                            /\ next = [client EXCEPT ![s] = x]
      OBVIOUS
    <2>2. client' = next /\ UNCHANGED <<cache, uncommitted>>
      <3>1. [client[s] EXCEPT !.channels = client[s].channels] = client[s]
        BY <1>5 DEF Clients
      <3> QED
        BY <1>2, <1>8, <2>1, <3>1 DEF A!Subscribed
    <2>3. /\ x \in Clients /\ x.phase = z.phase /\ x.connected = z.connected
          /\ x.endpoint = z.endpoint /\ x.resumable = z.resumable /\ x.entitled = z.entitled
          /\ x.ids = z.ids /\ x.origin = z.origin /\ x.channels = z.channels
          /\ \A sub \in x.subs : sub \in z.subs \/ id \in z.channels
          /\ \A sub \in z.subs : sub[1] # id => sub \in x.subs
          /\ \A e \in x.istate : e \in z.istate \/ (e[1] = id /\ <<e[2], e[3]>> \in res.istate)
          /\ \A e \in z.istate : e[1] # id => e \in x.istate
      BY <1>2, <1>5, <2>1, ReplyForm
    <2>4. x.subs = client[s].subs
      <3>1. \A sub \in client[s].subs : sub[1] # id
        BY <1>4, <1>5 DEF Tidy
      <3> QED
        BY <1>4, <2>1, <2>3, <3>1
    <2>5. \A e \in x.istate \cup client[s].istate :
             e[1] \in x.channels => e \in x.istate \cap client[s].istate
      BY <1>4, <2>1, <2>3
    <2>6. Tidy(x)
      <3>1. \A e \in x.istate : e[2] = "w" => e \in client[s].istate
        <4>1. ASSUME NEW e \in x.istate, e[2] = "w", e[1] = id, <<e[2], e[3]>> \in res.istate
              PROVE  FALSE
          <5>1. <<e[2], e[3]>>[1] = "w"
            BY <4>1
          <5> QED
            BY <1>4, <1>8, <4>1, <5>1
        <4> QED
          BY <4>1, <2>1, <2>3
      <3> QED
        BY <1>5, <2>1, <2>3, <2>4, <3>1 DEF Tidy
    <2> QED
      BY <1>1, <2>1, <2>2, <2>3, <2>4, <2>5, <2>6, ReplyKeeps
  <1> QED
    BY <1>6, <1>7, <1>8

(* A session gets the answer to its unsubscription.                        *)
LEMMA UnsubscribedKeeps ==
    ASSUME AccessTypes, NEW s \in Sessions, InvAt(s), A!Unsubscribed(s)
    PROVE  Keeps(s)
  <1>1. /\ client[s].phase = "served" /\ pending[s].cmd = "unsubscribe"
        /\ pending' = [pending EXCEPT ![s] = A!Idle] /\ UNCHANGED <<conf, granted, refused>>
    BY DEF A!Unsubscribed, A!Reply
  <1>2. PICK id \in A!Identifiers, res \in Results : id = pending[s].id /\ res = pending[s].res
    BY <1>1, PendingCall
  <1>3. \A f \in res.istate : f[1] # "w"
    BY <1>1, <1>2 DEF InvAt, ReplyOK
  <1>4. client \in [Sessions -> Clients] /\ client[s] \in Clients /\ Tidy(client[s])
    BY DEF AccessTypes, InvAt, TidyOK
  <1>5. CASE ~A!Handled(res)
    <2>1. UNCHANGED <<client, cache, uncommitted>>
      BY <1>2, <1>5 DEF A!Unsubscribed
    <2> QED
      BY <1>1, <2>1, UnhandledKeeps
  <1>6. CASE A!Handled(res)
    <2>1. PICK channels, istate, z, all, x, next :
             /\ channels = client[s].channels \ {id}
             /\ istate = A!RemoveChannelState(client[s].istate, id)
             /\ z = [client[s] EXCEPT !.channels = channels, !.istate = istate]
             /\ all = [res EXCEPT !.stop = TRUE]
             /\ x = A!handleCommandReply(z, id, all)
             /\ next = [client EXCEPT ![s] = x]
      OBVIOUS
    <2>2. x = A!handleCommandReply(z, id, all) /\ next = [client EXCEPT ![s] = x]
      BY <2>1
    <2>3. client' = next /\ A!Commit(s, next)
      BY <1>2, <1>6, <2>1 DEF A!Unsubscribed
    <2>4. /\ istate \in States /\ \A e \in istate : e \in client[s].istate /\ e[1] # id
      BY <1>4, <2>1 DEF A!RemoveChannelState, Clients, States
    <2>5. /\ z \in Clients /\ z.channels = client[s].channels \ {id}
          /\ z.phase = client[s].phase /\ z.connected = client[s].connected
          /\ z.endpoint = client[s].endpoint /\ z.resumable = client[s].resumable
          /\ z.entitled = client[s].entitled /\ z.ids = client[s].ids
          /\ z.origin = client[s].origin /\ z.subs = client[s].subs /\ z.istate = istate
      BY <1>4, <2>1, <2>4 DEF Clients
    <2>6. all \in Results /\ all.stop /\ all.istate = res.istate
      BY <2>1 DEF Results
    <2>7. /\ x \in Clients /\ x.phase = z.phase /\ x.connected = z.connected
          /\ x.endpoint = z.endpoint /\ x.resumable = z.resumable /\ x.entitled = z.entitled
          /\ x.ids = z.ids /\ x.origin = z.origin /\ x.channels = z.channels
          /\ \A sub \in x.subs : (sub \in z.subs /\ sub[1] # id) \/ id \in z.channels
          /\ \A sub \in z.subs : sub[1] # id => sub \in x.subs
          /\ \A e \in x.istate : e \in z.istate \/ (e[1] = id /\ <<e[2], e[3]>> \in res.istate)
      BY SMTT(30), <1>2, <2>2, <2>5, <2>6, ReplyForm
    <2>8. \A sub \in x.subs : sub \in client[s].subs /\ sub[1] # id
      BY <2>5, <2>7
    <2>9. Tidy(x)
      <3>1. \A sub \in x.subs : sub[1] \in x.channels
        BY <1>4, <2>5, <2>7, <2>8 DEF Tidy
      <3>2. ASSUME NEW e \in x.istate, e[2] = "w"
            PROVE  <<e[1], e[3]>> \in x.subs /\ e[1].channel # "App"
        <4>1. <<e[2], e[3]>>[1] = "w"
          BY <3>2
        <4>2. e \in client[s].istate /\ e[1] # id
          BY <1>3, <2>4, <2>5, <2>7, <4>1
        <4>3. <<e[1], e[3]>> \in client[s].subs /\ e[1].channel # "App"
          BY <1>4, <3>2, <4>2 DEF Tidy
        <4>4. <<e[1], e[3]>>[1] # id
          BY <4>2
        <4> QED
          BY <4>3, <4>4, <2>5, <2>7
      <3> QED
        BY <3>1, <3>2 DEF Tidy
    <2> QED
      BY <1>1, <2>2, <2>3, <2>5, <2>7, <2>8, <2>9, ReplyKeeps
  <1> QED
    BY <1>5, <1>6

(* A session gets the answer to its action.                                *)
LEMMA PerformedKeeps ==
    ASSUME AccessTypes, NEW s \in Sessions, InvAt(s), A!Performed(s)
    PROVE  Keeps(s)
  <1>1. /\ client[s].phase = "served" /\ pending[s].cmd = "perform"
        /\ pending' = [pending EXCEPT ![s] = A!Idle] /\ UNCHANGED <<conf, granted, refused>>
    BY DEF A!Performed, A!Reply
  <1>2. PICK id \in A!Identifiers, res \in Results : id = pending[s].id /\ res = pending[s].res
    BY <1>1, PendingCall
  <1>3. /\ \A f \in res.istate : f[1] # "w"
        /\ A!Handled(res) => id.channel = "App"
    BY <1>1, <1>2 DEF InvAt, ReplyOK
  <1>4. client \in [Sessions -> Clients] /\ client[s] \in Clients /\ Tidy(client[s])
    BY DEF AccessTypes, InvAt, TidyOK
  <1>5. CASE ~A!Handled(res)
    <2>1. UNCHANGED <<client, cache, uncommitted>>
      BY <1>2, <1>5 DEF A!Performed
    <2> QED
      BY <1>1, <2>1, UnhandledKeeps
  <1>6. CASE A!Handled(res)
    <2>1. PICK z, x, next : /\ z = client[s] /\ x = A!handleCommandReply(z, id, res)
                            /\ next = [client EXCEPT ![s] = x]
      OBVIOUS
    <2>2. /\ client' = next
          /\ IF A!IsDirty(z, id, res) THEN A!Commit(s, next)
             ELSE UNCHANGED <<cache, uncommitted>>
      BY <1>2, <1>4, <1>6, <2>1 DEF A!Performed
    <2>3. /\ x \in Clients /\ x.phase = z.phase /\ x.connected = z.connected
          /\ x.endpoint = z.endpoint /\ x.resumable = z.resumable /\ x.entitled = z.entitled
          /\ x.ids = z.ids /\ x.origin = z.origin /\ x.channels = z.channels
          /\ \A sub \in x.subs : \/ sub \in z.subs
                                 \/ id \in z.channels /\ sub[1] = id /\ sub[2] \in res.streams
          /\ \A sub \in z.subs : sub[1] # id \/ ~res.stop => sub \in x.subs
          /\ \A e \in x.istate : e \in z.istate \/ (e[1] = id /\ <<e[2], e[3]>> \in res.istate)
          /\ \A e \in z.istate : e[1] # id \/ res.istate = {} => e \in x.istate
      BY <1>2, <1>4, <2>1, ReplyForm
    <2>4. Tidy(x)
      <3>1. \A sub \in x.subs : sub[1] \in x.channels
        BY <1>4, <2>1, <2>3 DEF Tidy
      <3>2. ASSUME NEW e \in x.istate, e[2] = "w"
            PROVE  <<e[1], e[3]>> \in x.subs /\ e[1].channel # "App"
        <4>1. <<e[2], e[3]>>[1] = "w"
          BY <3>2
        <4>2. e \in client[s].istate
          BY <1>3, <2>1, <2>3, <4>1
        <4>3. <<e[1], e[3]>> \in client[s].subs /\ e[1].channel # "App"
          BY <1>4, <3>2, <4>2 DEF Tidy
        <4>4. <<e[1], e[3]>>[1] # id
          BY <1>3, <1>6, <4>3
        <4> QED
          BY <4>3, <4>4, <2>1, <2>3
      <3> QED
        BY <3>1, <3>2 DEF Tidy
    <2>5. \A sub \in x.subs :
             \/ sub \in client[s].subs
             \/ /\ KeyVouched(sub[1], sub[2]) /\ PusherVouched(s, sub[1], sub[2])
                /\ sub[1].channel = "App" => <<s, sub[2]>> \in granted
      <3>1. \A st \in res.streams :
               /\ KeyVouched(id, st) /\ PusherVouched(s, id, st)
               /\ id.channel = "App" => <<s, st>> \in granted
        BY <1>1, <1>2, PendingCall
      <3>2. \A sub \in x.subs : sub \in client[s].subs \/ (sub[1] = id /\ sub[2] \in res.streams)
        BY <2>1, <2>3
      <3>3. ASSUME NEW sub \in x.subs, sub[1] = id, sub[2] \in res.streams
            PROVE  /\ KeyVouched(sub[1], sub[2]) /\ PusherVouched(s, sub[1], sub[2])
                   /\ sub[1].channel = "App" => <<s, sub[2]>> \in granted
        BY <3>1, <3>3
      <3> QED
        BY <3>2, <3>3
    <2>6. CASE A!IsDirty(z, id, res)
      BY <1>1, <2>1, <2>2, <2>3, <2>4, <2>5, <2>6, ReplyKeeps
    <2>7. CASE ~A!IsDirty(z, id, res)
      <3>1. /\ res.streams = {} /\ res.istate = {}
            /\ res.stop => A!StreamsOf(z, id) = {}
        BY <2>7 DEF A!IsDirty
      <3>2. \A sub \in z.subs : sub \in x.subs
        <4>1. ASSUME NEW sub \in z.subs, sub[1] = id, res.stop
              PROVE  FALSE
          <5>1. sub = <<sub[1], sub[2]>> /\ sub[2] \in A!StreamNames
            BY <1>4, <2>1 DEF Clients, Subs
          <5> QED
            BY <3>1, <4>1, <5>1 DEF A!StreamsOf
        <4> QED
          BY <2>3, <4>1
      <3>3. x.subs = client[s].subs
        BY <2>1, <2>3, <3>1, <3>2
      <3>4. \A e \in x.istate \cup client[s].istate : e \in x.istate \cap client[s].istate
        BY <2>1, <2>3, <3>1
      <3> QED
        BY <1>1, <2>1, <2>2, <2>3, <2>4, <2>5, <2>7, <3>3, <3>4, ReplyKeeps
    <2> QED
      BY <2>6, <2>7
  <1> QED
    BY <1>5, <1>6

-----------------------------------------------------------------------------
(* The invariant, and what it shows.                                       *)

AccessInvariant == AccessTypes /\ \A s \in Sessions : InvAt(s)

(* The invariant of the sessions holds at the start.                       *)
LEMMA AccessInit == A!Init => AccessInvariant
  <1> SUFFICES ASSUME A!Init
               PROVE  AccessInvariant
    OBVIOUS
  <1>1. PICK x : x = A!NewSession("none", "cable", FALSE, A!NoRequest, NoSession, {})
    OBVIOUS
  <1>2. x = [phase |-> "none", endpoint |-> "cable", resumable |-> FALSE,
             request |-> A!NoRequest, prev |-> NoSession, entitled |-> {}, connected |-> FALSE,
             ids |-> <<>>, channels |-> {}, subs |-> {}, istate |-> {}, origin |-> NoSession]
    BY <1>1 DEF A!NewSession
  <1>3. x \in Clients
    BY <1>2, EmptyTypes DEF Clients
  <1>4. /\ A!NoEntry \in Entries /\ A!NoEntry.subs = {} /\ A!NoEntry.istate = {}
    BY EmptyTypes DEF Entries, A!NoEntry
  <1>5. /\ client = [s \in Sessions |-> x] /\ pending = [s \in Sessions |-> A!Idle]
        /\ cache = [s \in Sessions |-> A!NoEntry] /\ conf \in AccessConfigs /\ refused = {}
    BY <1>1 DEF A!Init
  <1>6. AccessTypes
    BY <1>3, <1>4, <1>5, IdleForm DEF AccessTypes
  <1>7. ASSUME NEW s \in Sessions
        PROVE  InvAt(s)
    <2>1. client[s] = x /\ pending[s] = A!Idle /\ cache[s] = A!NoEntry /\ s \notin refused
      BY <1>5
    <2>2. PhaseOK(s) /\ AnswerOK(s) /\ IdentityOK(s) /\ TidyOK(s) /\ VouchedOK(s) /\ CurrentOK(s)
      BY <1>2, <2>1, IdleForm
         DEF PhaseOK, Past, AnswerOK, IdentityOK, TidyOK, Tidy, VouchedOK, CurrentOK
    <2>3. ReplyOK(s)
      BY <2>1, IdleForm DEF ReplyOK
    <2>4. EntryOK(s)
      BY <1>4, <2>1 DEF EntryOK, Tidy
    <2> QED
      BY <2>2, <2>3, <2>4 DEF InvAt
  <1> QED
    BY <1>6, <1>7 DEF AccessInvariant

(* Every step of the sessions keeps their invariant.                       *)
LEMMA AccessNext == AccessInvariant /\ A!Next => AccessInvariant'
  <1> SUFFICES ASSUME AccessInvariant, A!Next
               PROVE  AccessInvariant'
    OBVIOUS
  <1>1. AccessTypes /\ \A t \in Sessions : InvAt(t)
    BY DEF AccessInvariant
  <1>2. PICK s \in Sessions :
           \/ A!Connect(s) \/ A!ConnectPusher(s) \/ A!TryRestoreSession(s)
           \/ A!Authenticate(s) \/ A!Authenticated(s) \/ A!Close(s) \/ A!Skip(s)
           \/ A!Subscribe(s) \/ A!Subscribed(s) \/ A!Unsubscribe(s) \/ A!Unsubscribed(s)
           \/ A!Perform(s) \/ A!Performed(s) \/ A!Whisper(s)
    BY DEF A!Next
  <1>3. Keeps(s)
    <2>1. CASE A!Connect(s)
      BY <1>1, <2>1, ConnectKeeps
    <2>2. CASE A!ConnectPusher(s)
      BY <1>1, <2>2, ConnectPusherKeeps
    <2>3. CASE A!TryRestoreSession(s)
      BY <1>1, <2>3, TryRestoreSessionKeeps
    <2>4. CASE A!Authenticate(s)
      BY <1>1, <2>4, AuthenticateKeeps
    <2>5. CASE A!Authenticated(s)
      BY <1>1, <2>5, AuthenticatedKeeps
    <2>6. CASE A!Close(s)
      BY <1>1, <2>6, CloseKeeps
    <2>7. CASE A!Skip(s)
      BY <1>1, <2>7, SkipKeeps
    <2>8. CASE A!Subscribe(s)
      BY <1>1, <2>8, SubscribeKeeps
    <2>9. CASE A!Subscribed(s)
      BY <1>1, <2>9, SubscribedKeeps
    <2>10. CASE A!Unsubscribe(s) \/ A!Perform(s)
      BY <1>1, <2>10, OtherCommandKeeps
    <2>11. CASE A!Unsubscribed(s)
      BY <1>1, <2>11, UnsubscribedKeeps
    <2>12. CASE A!Performed(s)
      BY <1>1, <2>12, PerformedKeeps
    <2>13. CASE A!Whisper(s)
      BY <1>1, <2>13, WhisperKeeps
    <2> QED
      BY <1>2, <2>1, <2>2, <2>3, <2>4, <2>5, <2>6, <2>7, <2>8, <2>9, <2>10, <2>11, <2>12, <2>13
  <1> QED
    BY <1>1, <1>3, KeepsAll DEF AccessInvariant

(* The parts that do not touch the sessions.                               *)
LEMMA AccessStutter == AccessInvariant /\ UNCHANGED access => AccessInvariant'
  <1> SUFFICES ASSUME AccessInvariant, UNCHANGED access
               PROVE  AccessInvariant'
    OBVIOUS
  <1>1. UNCHANGED <<conf, client, pending, cache, granted, refused, uncommitted>>
    BY DEF access
  <1>2. AccessTypes' /\ Steady /\ \A t \in Sessions : Untouched(t)
    BY <1>1 DEF AccessInvariant, AccessTypes, Steady, Untouched, Past
  <1> QED
    BY <1>2, UntouchedKept DEF AccessInvariant

(* Sessions are identified, tidy, vouched for and committed as the         *)
(* invariant says, in whatever order sessions connect, are closed, resumed *)
(* from each other and send commands.                                      *)
THEOREM AccessInvariantHolds == MCSpec => []AccessInvariant
  <1>1. MCInit => AccessInvariant
    BY AccessInit DEF MCInit
  <1>2. AccessInvariant /\ [MCNext]_<<part, vars, rpcClient, access>> => AccessInvariant'
    <2> SUFFICES ASSUME AccessInvariant, [MCNext]_<<part, vars, rpcClient, access>>
                 PROVE  AccessInvariant'
      OBVIOUS
    <2>1. A!Next \/ UNCHANGED access
      BY DEF MCNext
    <2> QED
      BY <2>1, AccessNext, AccessStutter
  <1> QED
    BY <1>1, <1>2, PTL DEF MCSpec

(* Nobody is connected as someone whom neither the session's own request   *)
(* nor that of the session it goes on from shows (authentication, resuming *)
(* and what the cache then holds).                                         *)
THEOREM NobodyElseConnects == MCSpec => []Identified
  <1>1. AccessInvariant => Identified
    <2> SUFFICES ASSUME AccessInvariant, NEW s \in Sessions, client[s].connected
                 PROVE  IF client[s].origin \in refused THEN client[s].ids = <<>>
                        ELSE client[s].ids \in client[client[s].origin].entitled
      BY DEF Identified, A!Identified
    <2>1. InvAt(s)
      BY DEF AccessInvariant
    <2>2. client[s].phase = "served"
      BY <2>1, PhaseForm
    <2>3. Sound(client[s].ids, client[s].origin)
      BY <2>1, <2>2 DEF InvAt, IdentityOK
    <2> QED
      BY <2>3 DEF Sound
  <1> QED
    BY <1>1, AccessInvariantHolds, PTL

(* Whatever a session is subscribed to was public, signed with the key of  *)
(* its channel, shown a signature for or allowed by the application.       *)
THEOREM OnlyVouchedStreams == MCSpec => []StreamsVouched
  <1>1. AccessInvariant => StreamsVouched
    <2> SUFFICES ASSUME AccessInvariant, NEW s \in Sessions, NEW sub \in client[s].subs
                 PROVE  A!Vouched(s, sub[1], sub[2])
      BY DEF StreamsVouched, A!StreamsVouched
    <2>1. PICK id, st : id = sub[1] /\ st = sub[2]
      OBVIOUS
    <2>2. /\ KeyVouched(id, st) /\ PusherVouched(s, id, st)
          /\ AppVouched(client[s].origin, id, st)
      BY <2>1 DEF AccessInvariant, InvAt, VouchedOK
    <2>3. A!Vouched(s, id, st)
      BY <2>2 DEF A!Vouched, KeyVouched, PusherVouched, AppVouched
    <2> QED
      BY <2>1, <2>3
  <1> QED
    BY <1>1, AccessInvariantHolds, PTL

(* A session at rest is in the cache as it is, unless a commit has failed. *)
THEOREM CommittedAtRest == MCSpec => []CacheIsCurrent
  <1>1. AccessInvariant => CacheIsCurrent
    <2> SUFFICES ASSUME AccessInvariant, NEW s \in Sessions, client[s].resumable,
                        client[s].phase = "served", s \notin uncommitted
                 PROVE  A!Restored(client[s]) =
                          [ids |-> cache[s].ids, channels |-> cache[s].channels,
                           subs |-> cache[s].subs,
                           istate |-> {e \in cache[s].istate : e[1] \in cache[s].channels}]
      BY DEF CacheIsCurrent, A!CacheIsCurrent
    <2>1. /\ client[s].ids = cache[s].ids /\ client[s].channels = cache[s].channels
          /\ client[s].subs = cache[s].subs
          /\ \A e \in client[s].istate \cup cache[s].istate :
                e[1] \in client[s].channels => e \in client[s].istate \cap cache[s].istate
      BY DEF AccessInvariant, InvAt, CurrentOK
    <2>2. {e \in client[s].istate : e[1] \in client[s].channels} =
          {e \in cache[s].istate : e[1] \in cache[s].channels}
      BY <2>1
    <2> QED
      BY <2>1, <2>2 DEF A!Restored
  <1> QED
    BY <1>1, AccessInvariantHolds, PTL

(* A session whispers to a stream only while it is subscribed to it by the *)
(* channel that it names.                                                  *)
THEOREM WhispersStayInside == MCSpec => WhispersOwnStreams
  <1>1. AccessInvariant => \A s \in Sessions :
           A!Whisper(s) => <<whispered'[2], whispered'[3]>> \in client[s].subs
    <2> SUFFICES ASSUME AccessInvariant, NEW s \in Sessions, A!Whisper(s)
                 PROVE  <<whispered'[2], whispered'[3]>> \in client[s].subs
      OBVIOUS
    <2>1. Tidy(client[s])
      BY DEF AccessInvariant, InvAt, TidyOK
    <2>2. PICK id, stream : /\ stream \in A!GetChannelStateField(s, id, "w")
                            /\ whispered' = <<s, id, stream>>
      BY DEF A!Whisper
    <2>3. PICK e \in client[s].istate : e[1] = id /\ e[2] = "w" /\ e[3] = stream
      BY <2>2 DEF A!GetChannelStateField
    <2>4. <<e[1], e[3]>> \in client[s].subs
      BY <2>1, <2>3 DEF Tidy
    <2> QED
      BY <2>2, <2>3, <2>4
  <1> QED
    BY <1>1, AccessInvariantHolds, PTL DEF WhispersOwnStreams, A!WhispersOwnStreams

-----------------------------------------------------------------------------
(* The hub.  Both of its properties are stated of quiet moments and need   *)
(* to be known of the moments in between: Registration says what the hub   *)
(* holds of a session at every point of its life, Targets that what a      *)
(* remote disconnect is after can still be found where it will look.       *)

PairSteps == {"subscribe", "addStream", "unsubscribe", "removeStream"}

(* A reader's program: addSession comes first, a gate row is listed right  *)
(* after it is made and unlisted right after it is deleted.                *)
Program(q) ==
    /\ \A k \in 1 .. Len(q) : q[k][1] = "addSession" => k = 1
    /\ \A k \in 1 .. Len(q) : q[k][1] = "subscribe" =>
          k < Len(q) /\ q[k+1] = <<"addStream", q[k][2]>>
    /\ \A k \in 2 .. Len(q) : q[k][1] = "removeStream" =>
          q[k-1] = <<"unsubscribe", q[k][2]>>

Programs == \A s \in Sessions : Program(todo[s])

HasRows(s) == \E r \in gate : r[1] = s

Absent(s) == s \notin known /\ s \notin identifiers[UserOf[s]] /\ ~HasRows(s)

(* Every row is listed, or is about to be.                                 *)
RowsListed(s) ==
    \A r \in gate : r[1] = s => r \in Listed(s) \/ (At(s, "addStream") /\ r = Row(s, Arg(s)))

(* Before, during and after the time the session is connected.             *)
Life(s) ==
    /\ connected[s] => removal[s] = "none"
    /\ removal[s] = "none" => ~raced[s]
    /\ removal[s] = "none" /\ ~connected[s] => todo[s] = << >> /\ Absent(s)
    /\ connected[s] => s \in known \/ At(s, "addSession")

(* What is registered of a session whose removal no command races with.    *)
Registered(s) ==
    /\ removal[s] # "none" => todo[s] = << >>
    /\ removal[s] \in {"none", "unsubscribe"} => RowsListed(s)
    /\ At(s, "addSession") => ~HasRows(s)
    /\ At(s, "removeStream") => Row(s, Arg(s)) \notin gate
    /\ removal[s] = "delete" => ~HasRows(s)
    /\ removal[s] = "done" => Absent(s)

Good(s) == Life(s) /\ (~raced[s] => Registered(s))

Registration == \A s \in Sessions : Good(s)

Targets ==
    /\ \A u \in Users : \A s \in identifiers[u] : UserOf[s] = u /\ s \in known
    /\ \A u \in Users : due[u] \subseteq identifiers[u]
    /\ \A j \in jobs : ~j.live => due[j.user] = {}
    /\ \A u \in Users : ~Outstanding(u) => due[u] = {}

-----------------------------------------------------------------------------
(* Programs. *)

(* The argument of a step has the type that its name promises.             *)
LEMMA StepForms ==
    ASSUME NEW t \in Steps
    PROVE  /\ t[1] \in PairSteps => t[2] \in Pairs /\ t = <<t[1], t[2]>>
           /\ t[1] = "unsubscribeChannel" => t[2] \in Idents
  BY DEF Steps, PairSteps

(* The rest of a program is one, and begins with what belongs to the step  *)
(* before it.                                                              *)
LEMMA ProgramTail ==
    ASSUME NEW q \in Seq(Steps), q # << >>, Program(q)
    PROVE  /\ Tail(q) \in Seq(Steps)
           /\ Program(Tail(q))
           /\ Tail(q) # << >> => Head(Tail(q))[1] # "addSession"
           /\ Head(q)[1] = "subscribe" =>
                 Tail(q) # << >> /\ Head(Tail(q)) = <<"addStream", Head(q)[2]>>
           /\ Tail(q) # << >> /\ Head(Tail(q))[1] = "removeStream" =>
                 Head(q) = <<"unsubscribe", Head(Tail(q))[2]>>
  <1> DEFINE t == Tail(q)
  <1>1. /\ t \in Seq(Steps) /\ Len(q) \in Nat \ {0} /\ Len(t) = Len(q) - 1
        /\ \A k \in 1 .. Len(t) : t[k] = q[k + 1]
    OBVIOUS
  <1>2. Head(q) = q[1] /\ (t # << >> => Len(t) >= 1 /\ Head(t) = t[1] /\ t[1] = q[2])
    BY <1>1
  <1> HIDE DEF t
  <1>4. \A k \in 1 .. Len(t) : t[k][1] # "addSession"
    <2> TAKE k \in 1 .. Len(t)
    <2>1. k + 1 \in 1 .. Len(q) /\ k + 1 # 1
      BY <1>1
    <2> QED
      BY <2>1, <1>1 DEF Program
  <1>5. \A k \in 1 .. Len(t) : t[k][1] = "subscribe" =>
            k < Len(t) /\ t[k+1] = <<"addStream", t[k][2]>>
    <2> SUFFICES ASSUME NEW k \in 1 .. Len(t), t[k][1] = "subscribe"
                 PROVE  k < Len(t) /\ t[k+1] = <<"addStream", t[k][2]>>
      OBVIOUS
    <2>1. k + 1 \in 1 .. Len(q) /\ t[k] = q[k+1]
      BY <1>1
    <2>2. k + 1 < Len(q) /\ q[k+1+1] = <<"addStream", q[k+1][2]>>
      BY <2>1 DEF Program
    <2>3. k + 1 \in 1 .. Len(t) /\ k < Len(t)
      BY <2>2, <1>1
    <2> QED
      BY <2>1, <2>2, <2>3, <1>1
  <1>6. \A k \in 2 .. Len(t) : t[k][1] = "removeStream" =>
            t[k-1] = <<"unsubscribe", t[k][2]>>
    <2> SUFFICES ASSUME NEW k \in 2 .. Len(t), t[k][1] = "removeStream"
                 PROVE  t[k-1] = <<"unsubscribe", t[k][2]>>
      OBVIOUS
    <2>1. k + 1 \in 2 .. Len(q) /\ t[k] = q[k+1] /\ t[k-1] = q[k] /\ k + 1 - 1 = k
      BY <1>1
    <2> QED
      BY <2>1 DEF Program
  <1>7. Program(t)
    BY <1>4, <1>5, <1>6 DEF Program
  <1>8. ASSUME Head(q)[1] = "subscribe"
        PROVE  t # << >> /\ Head(t) = <<"addStream", Head(q)[2]>>
    <2>1. 1 < Len(q) /\ q[1+1] = <<"addStream", q[1][2]>>
      BY <1>8, <1>1, <1>2 DEF Program
    <2>2. t # << >>
      BY <2>1, <1>1
    <2> QED
      BY <2>1, <2>2, <1>2
  <1>9. ASSUME t # << >>, Head(t)[1] = "removeStream"
        PROVE  Head(q) = <<"unsubscribe", Head(t)[2]>>
    <2>1. 2 \in 2 .. Len(q) /\ q[2][1] = "removeStream"
      BY <1>9, <1>1, <1>2
    <2>2. q[2-1] = <<"unsubscribe", q[2][2]>>
      BY <2>1 DEF Program
    <2> QED
      BY <1>9, <1>2, <2>2
  <1>10. t # << >> => Head(t)[1] # "addSession"
    BY <1>4, <1>2, <1>1
  <1> QED
    BY <1>1, <1>7, <1>8, <1>9, <1>10 DEF t

(* What handleCommandReply starts is a subscription, or nothing.           *)
LEMMA StartsArePrograms ==
    ASSUME NEW i \in Idents, NEW q \in Starts(i)
    PROVE  /\ q \in Seq(Steps) /\ Program(q)
           /\ q # << >> => Head(q)[1] = "subscribe"
  <1>1. CASE q = << >>
    BY <1>1 DEF Program
  <1>2. ASSUME NEW x \in Streams, q = SubscribeSession(x, i)
        PROVE  /\ q \in Seq(Steps) /\ Program(q)
               /\ q # << >> => Head(q)[1] = "subscribe"
    <2>1. q = << <<"subscribe", <<x, i>> >>, <<"addStream", <<x, i>> >> >>
      BY <1>2 DEF SubscribeSession
    <2>2. <<"subscribe", <<x, i>> >> \in Steps /\ <<"addStream", <<x, i>> >> \in Steps
      BY DEF Steps, Pairs
    <2> QED
      BY <2>1, <2>2 DEF Program
  <1> QED
    BY <1>1, <1>2 DEF Starts

(* What handleCommandReply stops comes in whole unsubscriptions.           *)
LEMMA StopsArePrograms ==
    ASSUME NEW i \in Idents, NEW p \in Stops(i)
    PROVE  /\ p \in Seq(Steps) /\ Program(p)
           /\ p # << >> => Head(p)[1] \in {"unsubscribe", "unsubscribeChannel"}
  <1> DEFINE Goal == /\ p \in Seq(Steps) /\ Program(p)
                     /\ p # << >> => Head(p)[1] \in {"unsubscribe", "unsubscribeChannel"}
  <1>1. CASE p = << >>
    BY <1>1 DEF Program
  <1>2. ASSUME p = UnsubscribeSessionFromChannel(i)
        PROVE  Goal
    <2>1. p = << <<"unsubscribeChannel", i>> >> /\ <<"unsubscribeChannel", i>> \in Steps
      BY <1>2 DEF UnsubscribeSessionFromChannel, Steps
    <2> QED
      BY <2>1 DEF Program
  <1>3. ASSUME NEW x \in Streams, p = UnsubscribeSession(x, i)
        PROVE  Goal
    <2>1. p = << <<"unsubscribe", <<x, i>> >>, <<"removeStream", <<x, i>> >> >>
      BY <1>3 DEF UnsubscribeSession
    <2>2. <<"unsubscribe", <<x, i>> >> \in Steps /\ <<"removeStream", <<x, i>> >> \in Steps
      BY DEF Steps, Pairs
    <2> QED
      BY <2>1, <2>2 DEF Program
  <1> QED
    BY <1>1, <1>2, <1>3 DEF Stops

(* A program may be followed by one that begins with a subscription.       *)
LEMMA ProgramConcat ==
    ASSUME NEW p \in Seq(Steps), NEW q \in Seq(Steps), Program(p), Program(q),
           q # << >> => Head(q)[1] = "subscribe"
    PROVE  /\ p \o q \in Seq(Steps) /\ Program(p \o q)
           /\ p \o q # << >> => Head(p \o q) = IF p # << >> THEN Head(p) ELSE Head(q)
  <1> DEFINE c == p \o q
             m == Len(p)
             n == Len(q)
  <1>1. /\ c \in Seq(Steps) /\ m \in Nat /\ n \in Nat /\ Len(c) = m + n
        /\ \A k \in 1 .. m : c[k] = p[k]
        /\ \A k \in m + 1 .. m + n : c[k] = q[k - m]
    OBVIOUS
  <1>2. /\ n > 0 => q[1][1] = "subscribe"
        /\ c # << >> => Head(c) = IF p # << >> THEN Head(p) ELSE Head(q)
    OBVIOUS
  <1>3. /\ \A k \in 1 .. m : p[k][1] = "addSession" => k = 1
        /\ \A k \in 1 .. m : p[k][1] = "subscribe" => k < m /\ p[k+1] = <<"addStream", p[k][2]>>
        /\ \A k \in 2 .. m : p[k][1] = "removeStream" => p[k-1] = <<"unsubscribe", p[k][2]>>
    BY DEF Program
  <1>4. /\ \A k \in 1 .. n : q[k][1] = "addSession" => k = 1
        /\ \A k \in 1 .. n : q[k][1] = "subscribe" => k < n /\ q[k+1] = <<"addStream", q[k][2]>>
        /\ \A k \in 2 .. n : q[k][1] = "removeStream" => q[k-1] = <<"unsubscribe", q[k][2]>>
    BY DEF Program
  <1> HIDE DEF c, m, n
  <1>5. ASSUME NEW k \in m + 1 .. m + n
        PROVE  /\ c[k][1] # "addSession"
               /\ c[k][1] = "subscribe" => k < m + n /\ c[k+1] = <<"addStream", c[k][2]>>
               /\ c[k][1] = "removeStream" => c[k-1] = <<"unsubscribe", c[k][2]>>
    <2> DEFINE j == k - m
    <2>1. j \in 1 .. n /\ c[k] = q[j]
      BY <1>1
    <2>2. c[k][1] # "addSession"
      BY <2>1, <1>1, <1>2, <1>4
    <2>3. ASSUME c[k][1] = "subscribe"
          PROVE  k < m + n /\ c[k+1] = <<"addStream", c[k][2]>>
      <3>1. j < n /\ q[j+1] = <<"addStream", q[j][2]>>
        BY <2>1, <2>3, <1>4
      <3>2. k + 1 \in m + 1 .. m + n /\ (k + 1) - m = j + 1
        BY <3>1, <1>1
      <3>3. c[k+1] = q[j+1]
        BY <3>2, <1>1
      <3> QED
        BY <3>1, <3>2, <3>3, <2>1, <1>1
    <2>4. ASSUME c[k][1] = "removeStream"
          PROVE  c[k-1] = <<"unsubscribe", c[k][2]>>
      <3>1. j \in 2 .. n
        BY <2>1, <2>4, <1>1, <1>2
      <3>2. k - 1 \in m + 1 .. m + n /\ (k - 1) - m = j - 1
        BY <3>1, <1>1
      <3>3. c[k-1] = q[j-1]
        BY <3>2, <1>1
      <3> QED
        BY <3>1, <3>3, <2>1, <2>4, <1>4
    <2> QED
      BY <2>2, <2>3, <2>4
  <1>6. ASSUME NEW k \in 1 .. m
        PROVE  /\ c[k][1] = "addSession" => k = 1
               /\ c[k][1] = "subscribe" => k < m + n /\ c[k+1] = <<"addStream", c[k][2]>>
               /\ k \in 2 .. m /\ c[k][1] = "removeStream" => c[k-1] = <<"unsubscribe", c[k][2]>>
    <2>1. c[k] = p[k] /\ (k < m => c[k+1] = p[k+1]) /\ (k \in 2 .. m => c[k-1] = p[k-1])
      BY <1>1
    <2>2. c[k][1] = "addSession" => k = 1
      BY <2>1, <1>3
    <2>3. c[k][1] = "subscribe" => k < m /\ p[k+1] = <<"addStream", p[k][2]>>
      BY <2>1, <1>3
    <2>4. k < m => k < m + n
      BY <1>1
    <2>5. k \in 2 .. m /\ c[k][1] = "removeStream" => p[k-1] = <<"unsubscribe", p[k][2]>>
      BY <2>1, <1>3
    <2> QED
      BY <2>1, <2>2, <2>3, <2>4, <2>5
  <1>7. \A k \in 1 .. Len(c) : k \in 1 .. m \/ k \in m + 1 .. m + n
    BY <1>1
  <1>8. \A k \in 2 .. Len(c) : k \in 1 .. Len(c) /\ (k \in 1 .. m => k \in 2 .. m)
    BY <1>1
  <1>9. \A k \in 1 .. Len(c) : c[k][1] = "addSession" => k = 1
    BY <1>5, <1>6, <1>7
  <1>10. \A k \in 1 .. Len(c) : c[k][1] = "subscribe" =>
            k < Len(c) /\ c[k+1] = <<"addStream", c[k][2]>>
    BY <1>5, <1>6, <1>7, <1>1
  <1>11. \A k \in 2 .. Len(c) : c[k][1] = "removeStream" =>
            c[k-1] = <<"unsubscribe", c[k][2]>>
    BY <1>5, <1>6, <1>7, <1>8
  <1>12. Program(c)
    BY <1>9, <1>10, <1>11 DEF Program
  <1> QED
    BY <1>1, <1>2, <1>12 DEF c

(* What Authenticated and HandleCommandReply give a reader to run.         *)
LEMMA ReplyProgram ==
    ASSUME NEW i \in Idents, NEW p \in Stops(i), NEW q \in Starts(i)
    PROVE  /\ p \o q \in Seq(Steps) /\ Program(p \o q)
           /\ p \o q # << >> =>
                 Head(p \o q)[1] \in {"unsubscribe", "unsubscribeChannel", "subscribe"}
  BY StopsArePrograms, StartsArePrograms, ProgramConcat

(* What Authenticated gives a reader to run begins with AddSession.        *)
LEMMA AuthProgram ==
    ASSUME NEW i \in Idents, NEW q \in Starts(i)
    PROVE  LET c == << <<"addSession">> >> \o q
           IN  c \in Seq(Steps) /\ Program(c) /\ c # << >> /\ Head(c)[1] = "addSession"
  <1> DEFINE p == << <<"addSession">> >>
  <1>1. <<"addSession">> \in Steps
    BY DEF Steps
  <1>2. p \in Seq(Steps) /\ Program(p) /\ p # << >> /\ Head(p)[1] = "addSession"
    BY <1>1 DEF Program
  <1>3. q \in Seq(Steps) /\ Program(q) /\ (q # << >> => Head(q)[1] = "subscribe")
    BY StartsArePrograms
  <1>4. p \o q # << >>
    BY <1>2, <1>3
  <1> QED
    BY <1>2, <1>3, <1>4, ProgramConcat

-----------------------------------------------------------------------------
(* Types. *)

(* NewHub makes a hub of the right type.                                   *)
LEMMA TypeInit == Init => TypeOK
  BY HubAssumption DEF Init, TypeOK, NoStreams, Pairs

(* What a step of a reader uses and leaves of its program.                 *)
LEMMA ReaderArg ==
    ASSUME TypeOK, NEW s \in Sessions, todo[s] # << >>
    PROVE  /\ todo[s] \in Seq(Steps) /\ Tail(todo[s]) \in Seq(Steps) /\ Head(todo[s]) \in Steps
           /\ Head(todo[s])[1] \in PairSteps => Arg(s) \in Pairs
           /\ Head(todo[s])[1] = "unsubscribeChannel" => Arg(s) \in Idents
  <1>1. todo[s] \in Seq(Steps)
    BY DEF TypeOK
  <1>2. Tail(todo[s]) \in Seq(Steps) /\ Head(todo[s]) \in Steps
    BY <1>1
  <1> QED
    BY <1>1, <1>2, StepForms DEF Arg

(* A scheduled remote disconnect is of its type.                           *)
LEMMA JobType ==
    ASSUME NEW u \in Users, NEW b \in BOOLEAN
    PROVE  [user |-> u, live |-> b] \in [user : Users, live : BOOLEAN]
  <1>1. CASE b = TRUE
    BY <1>1
  <1>2. CASE b = FALSE
    BY <1>2
  <1> QED
    BY <1>1, <1>2

(* Every critical section keeps the types.                                 *)
LEMMA TypeStep == TypeOK /\ [Next]_vars => TypeOK'
  <1> SUFFICES ASSUME TypeOK, [Next]_vars PROVE TypeOK'
    OBVIOUS
  <1> USE HubAssumption
  <1>1. ASSUME NEW s \in Sessions, Authenticated(s) PROVE TypeOK'
    <2>a. PICK i \in Idents : \E q \in Starts(i) :
             todo' = [todo EXCEPT ![s] = << <<"addSession">> >> \o q]
      BY <1>1 DEF Authenticated
    <2>1. PICK q \in Starts(i) : todo' = [todo EXCEPT ![s] = << <<"addSession">> >> \o q]
      BY <2>a
    <2>2. << <<"addSession">> >> \o q \in Seq(Steps)
      BY AuthProgram
    <2>3. todo' \in [Sessions -> Seq(Steps)]
      BY <2>1, <2>2 DEF TypeOK
    <2> QED
      BY <1>1, <2>3 DEF Authenticated, TypeOK, index, remote
  <1>2. ASSUME NEW s \in Sessions, HandleCommandReply(s) PROVE TypeOK'
    <2>a. PICK i \in Idents : \E p \in Stops(i), q \in Starts(i) :
             todo' = [todo EXCEPT ![s] = p \o q]
      BY <1>2 DEF HandleCommandReply
    <2>1. PICK p \in Stops(i), q \in Starts(i) : todo' = [todo EXCEPT ![s] = p \o q]
      BY <2>a
    <2>2. p \o q \in Seq(Steps)
      BY ReplyProgram
    <2>3. todo' \in [Sessions -> Seq(Steps)]
      BY <2>1, <2>2 DEF TypeOK
    <2>4. replies' \in [Sessions -> Nat] /\ raced' \in [Sessions -> BOOLEAN]
      BY <1>2 DEF HandleCommandReply, TypeOK
    <2> QED
      BY <1>2, <2>3, <2>4 DEF HandleCommandReply, TypeOK, index, remote
  <1>3. ASSUME NEW s \in Sessions, ReaderStep(s) PROVE TypeOK'
    <2>1. /\ todo[s] # << >> /\ Done(s)
      BY <1>3 DEF ReaderStep, AddSession, Subscribe, AddStream, Unsubscribe, RemoveStream,
                  UnsubscribeChannel, At
    <2>2. todo' \in [Sessions -> Seq(Steps)]
      BY <2>1, ReaderArg DEF Done, TypeOK
    <2>3. /\ disconnect' = disconnect /\ jobs' = jobs /\ due' = due /\ commands' = commands
          /\ connected' = connected /\ closed' = closed /\ removal' = removal
          /\ raced' = raced /\ replies' = replies
      BY <2>1 DEF Done, remote
    <2>4. /\ known' \subseteq Sessions
          /\ streams' \in [Sessions -> [Pairs -> Nat]]
          /\ identifiers' \in [Users -> SUBSET Sessions]
          /\ gate' \subseteq Sessions \X Streams \X Idents
      <3>1. CASE AddSession(s)
        BY <3>1 DEF AddSession, TypeOK, NoStreams
      <3>2. CASE Subscribe(s)
        <4>1. Arg(s) \in Pairs
          BY <3>2, <2>1, ReaderArg DEF Subscribe, At, PairSteps
        <4>2. Row(s, Arg(s)) \in Sessions \X Streams \X Idents
          BY <4>1 DEF Row, Pairs
        <4> QED
          BY <3>2, <4>2 DEF Subscribe, TypeOK
      <3>3. CASE AddStream(s)
        <4>1. Arg(s) \in Pairs
          BY <3>3, <2>1, ReaderArg DEF AddStream, At, PairSteps
        <4>2. streams' = [streams EXCEPT ![s][Arg(s)] = @ + 1]
          BY <3>3 DEF AddStream
        <4>3. streams' \in [Sessions -> [Pairs -> Nat]]
          BY <4>1, <4>2 DEF TypeOK
        <4> QED
          BY <3>3, <4>3 DEF AddStream, TypeOK
      <3>4. CASE Unsubscribe(s)
        BY <3>4 DEF Unsubscribe, TypeOK
      <3>5. CASE RemoveStream(s)
        <4>1. Arg(s) \in Pairs
          BY <3>5, <2>1, ReaderArg DEF RemoveStream, At, PairSteps
        <4>2. streams' = [streams EXCEPT ![s][Arg(s)] = IF @ > 0 THEN @ - 1 ELSE 0]
          BY <3>5 DEF RemoveStream
        <4>3. streams' \in [Sessions -> [Pairs -> Nat]]
          BY <4>1, <4>2 DEF TypeOK
        <4> QED
          BY <3>5, <4>3 DEF RemoveStream, TypeOK
      <3>6. CASE UnsubscribeChannel(s)
        BY <3>6 DEF UnsubscribeChannel, TypeOK
      <3> QED
        BY <1>3, <3>1, <3>2, <3>3, <3>4, <3>5, <3>6 DEF ReaderStep
    <2> QED
      BY <2>2, <2>3, <2>4 DEF TypeOK
  <1>4. ASSUME NEW s \in Sessions,
               Close(s) \/ RemoveSession(s) \/ unsubscribeSessionFromAllChannels(s)
        PROVE TypeOK'
    BY <1>4 DEF Close, RemoveSession, unsubscribeSessionFromAllChannels, TypeOK, index, remote
  <1>5. ASSUME NEW s \in Sessions, DeleteSession(s) PROVE TypeOK'
    <2>1. /\ identifiers' \in [Users -> SUBSET Sessions]
          /\ due' \in [Users -> SUBSET Sessions]
      BY <1>5 DEF DeleteSession, TypeOK
    <2>2. jobs' \subseteq [user : Users, live : BOOLEAN]
      <3> DEFINE left == identifiers[UserOf[s]] \ {s}
                 still(j) == j.live /\ (j.user # UserOf[s] \/ left # {})
      <3>1. jobs' = {[user |-> j.user, live |-> still(j)] : j \in jobs}
        BY <1>5 DEF DeleteSession
      <3>2. \A j \in jobs : j.user \in Users /\ still(j) \in BOOLEAN
        BY DEF TypeOK
      <3>3. \A j \in jobs : [user |-> j.user, live |-> still(j)] \in [user : Users, live : BOOLEAN]
        BY <3>2, JobType
      <3> HIDE DEF still, left
      <3> QED
        BY <3>1, <3>3, Zenon
    <2>3. known' \subseteq Sessions /\ streams' \in [Sessions -> [Pairs -> Nat]]
      BY <1>5 DEF DeleteSession, TypeOK, NoStreams
    <2> QED
      BY <1>5, <2>1, <2>2, <2>3 DEF DeleteSession, TypeOK
  <1>6. ASSUME NEW u \in Users, RemoteDisconnect(u) PROVE TypeOK'
    BY <1>6 DEF RemoteDisconnect, TypeOK, index, session
  <1>7. ASSUME RunDisconnect PROVE TypeOK'
    <2>1. disconnect' \in Seq(Users) /\ Head(disconnect) \in Users
      BY <1>7 DEF RunDisconnect, TypeOK
    <2>2. jobs' = jobs \/ jobs' = jobs \cup {[user |-> Head(disconnect), live |-> TRUE]}
      BY <1>7 DEF RunDisconnect
    <2>3. jobs' \subseteq [user : Users, live : BOOLEAN]
      <3>1. [user |-> Head(disconnect), live |-> TRUE] \in [user : Users, live : BOOLEAN]
        BY <2>1, JobType
      <3>2. jobs \subseteq [user : Users, live : BOOLEAN]
        BY DEF TypeOK
      <3> QED
        BY <2>2, <3>1, <3>2, Zenon
    <2> QED
      BY <1>7, <2>1, <2>3 DEF RunDisconnect, TypeOK, index, session
  <1>8. ASSUME NEW j \in jobs, disconnectSessions(j) PROVE TypeOK'
    BY <1>8 DEF disconnectSessions, TypeOK, index
  <1>9. ASSUME UNCHANGED vars PROVE TypeOK'
    BY <1>9 DEF vars, index, remote, session, TypeOK
  <1> QED
    BY <1>1, <1>2, <1>3, <1>4, <1>5, <1>6, <1>7, <1>8, <1>9 DEF Next

-----------------------------------------------------------------------------
(* Programs stay programs. *)

(* Whatever happens, every reader is still in the middle of a program.     *)
LEMMA ProgramsStep == TypeOK /\ Programs /\ [Next]_vars => Programs'
  <1> SUFFICES ASSUME TypeOK, Programs, [Next]_vars PROVE Programs'
    OBVIOUS
  <1>1. ASSUME NEW s \in Sessions, NEW q, Program(q), todo' = [todo EXCEPT ![s] = q]
        PROVE  Programs'
    BY <1>1 DEF Programs, TypeOK
  <1>2. ASSUME todo' = todo PROVE Programs'
    BY <1>2 DEF Programs
  <1>3. ASSUME NEW s \in Sessions, Authenticated(s) PROVE Programs'
    BY <1>3, <1>1, AuthProgram DEF Authenticated
  <1>4. ASSUME NEW s \in Sessions, HandleCommandReply(s) PROVE Programs'
    BY <1>4, <1>1, ReplyProgram DEF HandleCommandReply
  <1>5. ASSUME NEW s \in Sessions, ReaderStep(s) PROVE Programs'
    <2>1. todo[s] # << >> /\ todo' = [todo EXCEPT ![s] = Tail(todo[s])]
      BY <1>5 DEF ReaderStep, AddSession, Subscribe, AddStream, Unsubscribe, RemoveStream,
                  UnsubscribeChannel, At, Done
    <2>2. Program(Tail(todo[s]))
      BY <2>1, ReaderArg, ProgramTail DEF Programs
    <2> QED
      BY <2>1, <2>2, <1>1
  <1>6. ASSUME NEW s \in Sessions,
               \/ Close(s) \/ RemoveSession(s)
               \/ unsubscribeSessionFromAllChannels(s) \/ DeleteSession(s)
        PROVE Programs'
    BY <1>6, <1>2 DEF Close, RemoveSession, unsubscribeSessionFromAllChannels, DeleteSession
  <1>7. ASSUME NEW u \in Users, RemoteDisconnect(u) PROVE Programs'
    BY <1>7, <1>2 DEF RemoteDisconnect, session
  <1>8. ASSUME RunDisconnect PROVE Programs'
    BY <1>8, <1>2 DEF RunDisconnect, session
  <1>9. ASSUME NEW j \in jobs, disconnectSessions(j) PROVE Programs'
    BY <1>9, <1>2 DEF disconnectSessions
  <1>10. ASSUME UNCHANGED vars PROVE Programs'
    BY <1>10, <1>2 DEF vars, session
  <1> QED
    BY <1>3, <1>4, <1>5, <1>6, <1>7, <1>8, <1>9, <1>10 DEF Next

-----------------------------------------------------------------------------
(* Remote disconnects. *)

(* Nothing is due in a new hub.                                            *)
LEMMA TargetsInit == Init => Targets
  BY DEF Init, Targets

(* What a pending remote disconnect is after stays where it will look.     *)
LEMMA TargetsStep == TypeOK /\ Targets /\ [Next]_vars => Targets'
  <1> SUFFICES ASSUME TypeOK, Targets, [Next]_vars PROVE Targets'
    OBVIOUS
  <1> USE HubAssumption
  <1>1. ASSUME UNCHANGED <<known, identifiers, remote>> PROVE Targets'
    BY <1>1 DEF Targets, Outstanding, remote
  <1>2. ASSUME NEW s \in Sessions, Authenticated(s) \/ HandleCommandReply(s) PROVE Targets'
    BY <1>2, <1>1 DEF Authenticated, HandleCommandReply, index
  <1>3. ASSUME NEW s \in Sessions, AddSession(s) PROVE Targets'
    <2>1. UNCHANGED remote /\ known' = known \cup {s}
          /\ identifiers' = [identifiers EXCEPT ![UserOf[s]] = @ \cup {s}]
      BY <1>3 DEF AddSession, Done
    <2>2. \A u \in Users : \A t \in identifiers'[u] : UserOf[t] = u /\ t \in known'
      BY <2>1 DEF Targets, TypeOK
    <2>3. \A u \in Users : due'[u] \subseteq identifiers'[u]
      BY <2>1 DEF Targets, TypeOK, remote
    <2> QED
      BY <2>1, <2>2, <2>3 DEF Targets, Outstanding, remote
  <1>4. ASSUME NEW s \in Sessions, AddStream(s) PROVE Targets'
    BY <1>4 DEF AddStream, Done, Targets, Outstanding, remote
  <1>5. ASSUME NEW s \in Sessions,
               Subscribe(s) \/ Unsubscribe(s) \/ RemoveStream(s) \/ UnsubscribeChannel(s)
        PROVE Targets'
    BY <1>5, <1>1 DEF Subscribe, Unsubscribe, RemoveStream, UnsubscribeChannel, Done
  <1>6. ASSUME NEW s \in Sessions,
               Close(s) \/ RemoveSession(s) \/ unsubscribeSessionFromAllChannels(s)
        PROVE Targets'
    BY <1>6, <1>1 DEF Close, RemoveSession, unsubscribeSessionFromAllChannels, index
  <1>7. ASSUME NEW s \in Sessions, DeleteSession(s) PROVE Targets'
    <2> DEFINE v == UserOf[s]
               left == identifiers[v] \ {s}
               still(j) == j.live /\ (j.user # v \/ left # {})
    <2>1. /\ known' = known \ {s}
          /\ identifiers' = [identifiers EXCEPT ![v] = left]
          /\ due' = [due EXCEPT ![v] = @ \ {s}]
          /\ disconnect' = disconnect
      BY <1>7 DEF DeleteSession
    <2>2. jobs' = {[user |-> j.user, live |-> still(j)] : j \in jobs}
      BY <1>7 DEF DeleteSession
    <2>3. v \in Users
      OBVIOUS
    <2>4. \A u \in Users : identifiers'[u] = IF u = v THEN left ELSE identifiers[u]
      BY <2>1, <2>3 DEF TypeOK
    <2>5. \A u \in Users : due'[u] = IF u = v THEN due[u] \ {s} ELSE due[u]
      BY <2>1, <2>3 DEF TypeOK
    <2>6. \A u \in Users : \A t \in identifiers'[u] : UserOf[t] = u /\ t \in known'
      BY <2>1, <2>4 DEF Targets
    <2>7. \A u \in Users : due'[u] \subseteq identifiers'[u]
      <3> TAKE u \in Users
      <3>1. due[u] \subseteq identifiers[u]
        BY DEF Targets
      <3>2. due'[u] = IF u = v THEN due[u] \ {s} ELSE due[u]
        BY <2>5
      <3>3. identifiers'[u] = IF u = v THEN identifiers[u] \ {s} ELSE identifiers[u]
        BY <2>4
      <3> QED
        BY <3>1, <3>2, <3>3
    <2>8. \A k \in jobs' : \E j \in jobs : k.user = j.user /\ (k.live <=> still(j))
      <3> SUFFICES ASSUME NEW k \in jobs'
                   PROVE  \E j \in jobs : k.user = j.user /\ (k.live <=> still(j))
        OBVIOUS
      <3> HIDE DEF still, left, v
      <3>1. PICK j \in jobs : k = [user |-> j.user, live |-> still(j)]
        BY <2>2, Zenon
      <3>2. k.user = j.user /\ k.live = still(j)
        BY <3>1, Zenon
      <3> QED
        BY <3>2, Zenon
    <2>9. \A k \in jobs' : ~k.live => due'[k.user] = {}
      <3> SUFFICES ASSUME NEW k \in jobs', ~k.live PROVE due'[k.user] = {}
        OBVIOUS
      <3>1. PICK j \in jobs : k.user = j.user /\ ~still(j)
        BY <2>8
      <3>2. j.user \in Users
        BY DEF TypeOK
      <3>3. CASE ~j.live
        BY ZenonT(60), <3>1, <3>2, <3>3, <2>5 DEF Targets
      <3>4. CASE j.user = v /\ left = {}
        BY <3>1, <3>2, <3>4, <2>4, <2>7
      <3> QED
        BY <3>1, <3>3, <3>4
    <2>10. \A u \in Users : Outstanding(u) => Outstanding(u)'
      <3> SUFFICES ASSUME NEW u \in Users, Outstanding(u) PROVE Outstanding(u)'
        OBVIOUS
      <3>1. ASSUME NEW j \in jobs, u = j.user PROVE u \in {k.user : k \in jobs'}
        <4> DEFINE k == [user |-> j.user, live |-> still(j)]
        <4>1. k \in jobs' /\ k.user = u
          <5> HIDE DEF still, left, v
          <5> QED BY <2>2, <3>1, Zenon
        <4> QED
          BY <4>1
      <3>2. CASE u \in {disconnect[k] : k \in DOMAIN disconnect}
        BY <3>2, <2>1 DEF Outstanding
      <3>3. CASE u \in {j.user : j \in jobs}
        BY <3>1, <3>3, Zenon DEF Outstanding
      <3> QED
        BY <3>2, <3>3 DEF Outstanding
    <2>11. \A u \in Users : ~Outstanding(u)' => due'[u] = {}
      BY <2>5, <2>10 DEF Targets
    <2> QED
      BY <2>6, <2>7, <2>9, <2>11 DEF Targets
  <1>8. ASSUME NEW u \in Users, RemoteDisconnect(u) PROVE Targets'
    <2>1. /\ UNCHANGED <<known, identifiers, jobs>>
          /\ disconnect' = Append(disconnect, u)
          /\ due' = [due EXCEPT ![u] = identifiers[u]]
          /\ ~Outstanding(u)
      BY <1>8 DEF RemoteDisconnect, index
    <2>2. disconnect \in Seq(Users)
      BY DEF TypeOK
    <2>3. /\ u \in {disconnect'[k] : k \in DOMAIN disconnect'}
          /\ \A w : w \in {disconnect[k] : k \in DOMAIN disconnect} =>
                    w \in {disconnect'[k] : k \in DOMAIN disconnect'}
      BY <2>1, <2>2
    <2>4. \A w \in Users : due'[w] = IF w = u THEN identifiers[u] ELSE due[w]
      BY <2>1 DEF TypeOK
    <2>5. \A w \in Users : ~Outstanding(w)' => ~Outstanding(w) /\ w # u
      BY <2>1, <2>3 DEF Outstanding
    <2>6. \A j \in jobs : j.user # u /\ j.user \in Users
      BY <2>1 DEF Outstanding, TypeOK
    <2>7. \A w \in Users : due'[w] \subseteq identifiers'[w]
      BY <2>1, <2>4 DEF Targets
    <2>8. \A j \in jobs' : ~j.live => due'[j.user] = {}
      BY <2>1, <2>4, <2>6 DEF Targets
    <2>9. \A w \in Users : ~Outstanding(w)' => due'[w] = {}
      BY <2>4, <2>5 DEF Targets
    <2> QED
      BY <2>1, <2>7, <2>8, <2>9 DEF Targets
  <1>9. ASSUME RunDisconnect PROVE Targets'
    <2> DEFINE h == Head(disconnect)
               job == [user |-> h, live |-> TRUE]
    <2>1. /\ UNCHANGED <<known, identifiers, due>>
          /\ disconnect # << >> /\ disconnect' = Tail(disconnect)
          /\ jobs' = IF identifiers[h] = {} THEN jobs ELSE jobs \cup {job}
      BY <1>9 DEF RunDisconnect, index
    <2>2. disconnect \in Seq(Users) /\ h \in Users
      BY <2>1 DEF TypeOK
    <2>3. \A w : w \in {disconnect[k] : k \in DOMAIN disconnect} =>
                 w = h \/ w \in {disconnect'[k] : k \in DOMAIN disconnect'}
      <3> SUFFICES ASSUME NEW k \in DOMAIN disconnect, disconnect[k] # h
                   PROVE  \E l \in DOMAIN disconnect' : disconnect'[l] = disconnect[k]
        OBVIOUS
      <3>1. k \in 1 .. Len(disconnect) /\ k # 1
        BY <2>1, <2>2
      <3>2. k - 1 \in DOMAIN disconnect' /\ disconnect'[k-1] = disconnect[k]
        BY <3>1, <2>1, <2>2
      <3> QED
        BY <3>2
    <2>4. \A w \in Users : ~Outstanding(w)' => ~Outstanding(w) \/ (w = h /\ identifiers[h] = {})
      <3> SUFFICES ASSUME NEW w \in Users, Outstanding(w), ~Outstanding(w)'
                   PROVE  w = h /\ identifiers[h] = {}
        OBVIOUS
      <3>1. \A j \in jobs : j \in jobs'
        BY <2>1
      <3>2. w \notin {j.user : j \in jobs}
        BY <3>1 DEF Outstanding
      <3>3. w = h
        BY <2>3, <3>2 DEF Outstanding
      <3>4. identifiers[h] # {} => job \in jobs' /\ job.user = h
        BY <2>1
      <3> QED
        BY <3>3, <3>4 DEF Outstanding
    <2>5. \A w \in Users : ~Outstanding(w)' => due'[w] = {}
      BY <2>1, <2>2, <2>4 DEF Targets
    <2>6. \A j \in jobs' : j \in jobs \/ j = job
      BY <2>1
    <2>7. job.live
      OBVIOUS
    <2>8. \A j \in jobs' : ~j.live => due'[j.user] = {}
      BY <2>1, <2>6, <2>7 DEF Targets
    <2> QED
      BY <2>1, <2>5, <2>8 DEF Targets
  <1>10. ASSUME NEW j \in jobs, disconnectSessions(j) PROVE Targets'
    <2> DEFINE v == j.user
               found == IF j.live THEN identifiers[v] \cap known ELSE {}
    <2>1. /\ UNCHANGED <<known, identifiers, disconnect>>
          /\ jobs' = jobs \ {j}
          /\ \/ found = {} /\ due' = due
             \/ due' = [due EXCEPT ![v] = {}]
      BY <1>10 DEF disconnectSessions, index
    <2>2. v \in Users
      BY DEF TypeOK
    <2>3. found = {} => due[v] = {}
      BY <2>2 DEF Targets
    <2>4. \A w \in Users : due'[w] = IF w = v THEN {} ELSE due[w]
      BY <2>1, <2>2, <2>3 DEF TypeOK
    <2>5. \A w \in Users : ~Outstanding(w)' => ~Outstanding(w) \/ w = v
      BY <2>1 DEF Outstanding
    <2>6. \A k \in jobs' : k \in jobs /\ k.user \in Users
      BY <2>1 DEF TypeOK
    <2>7. \A k \in jobs' : ~k.live => due'[k.user] = {}
      BY <2>4, <2>6 DEF Targets
    <2> QED
      BY <2>1, <2>4, <2>5, <2>7 DEF Targets
  <1>11. ASSUME UNCHANGED vars PROVE Targets'
    BY <1>11, <1>1 DEF vars, index, remote
  <1> QED
    BY <1>2, <1>3, <1>4, <1>5, <1>6, <1>7, <1>8, <1>9, <1>10, <1>11 DEF Next, ReaderStep

-----------------------------------------------------------------------------
(* What the hub holds of a session. *)

(* A new hub holds nothing of any session.                                 *)
LEMMA RegistrationInit == Init => Programs /\ Registration
  <1> SUFFICES ASSUME Init PROVE Programs /\ Registration
    OBVIOUS
  <1>0. Program(<< >>)
    BY DEF Program
  <1>1. Programs
    BY <1>0 DEF Init, Programs
  <1>2. ASSUME NEW s \in Sessions PROVE Good(s)
    <2>1. /\ todo[s] = << >> /\ removal[s] = "none" /\ ~raced[s] /\ ~connected[s]
          /\ ~HasRows(s) /\ gate = {}
      BY DEF Init, HasRows
    <2>2. Absent(s)
      BY <2>1, HubAssumption DEF Init, Absent
    <2> QED
      BY <2>1, <2>2 DEF Good, Life, Registered, RowsListed, At
  <1> QED
    BY <1>1, <1>2 DEF Registration

(* A step that does not touch what is recorded of a session, or its own    *)
(* state, does not matter to it.                                           *)
RowsUntouched(t) ==
    /\ connected'[t] = connected[t] /\ removal'[t] = removal[t] /\ raced'[t] = raced[t]
    /\ todo'[t] = todo[t] /\ streams'[t] = streams[t]
    /\ t \in known' <=> t \in known
    /\ t \in identifiers'[UserOf[t]] <=> t \in identifiers[UserOf[t]]
    /\ \A r : r[1] = t => (r \in gate' <=> r \in gate)

(* A session is as it was after a step that does not touch it.             *)
LEMMA Frame ==
    ASSUME NEW t \in Sessions, Good(t), RowsUntouched(t)
    PROVE  Good(t)'
  <1>1. HasRows(t)' <=> HasRows(t)
    BY DEF HasRows, RowsUntouched
  <1>2. Absent(t)' <=> Absent(t)
    BY <1>1 DEF Absent, RowsUntouched
  <1>3. Listed(t)' = Listed(t) /\ Arg(t)' = Arg(t)
    BY DEF Listed, RowsUntouched, Row, Arg
  <1>4. \A op : At(t, op)' <=> At(t, op)
    BY DEF At, RowsUntouched
  <1>5. RowsListed(t)' <=> RowsListed(t)
    BY <1>3, <1>4 DEF RowsListed, RowsUntouched, Row
  <1>6. Row(t, Arg(t))' \in gate' <=> Row(t, Arg(t)) \in gate
    BY <1>3 DEF Row, RowsUntouched
  <1>7. Life(t)'
    BY <1>2, <1>4 DEF Life, Good, RowsUntouched
  <1>8. ~raced'[t] => Registered(t)'
    BY <1>1, <1>2, <1>4, <1>5, <1>6 DEF Registered, Good, RowsUntouched
  <1> QED
    BY <1>7, <1>8 DEF Good

(* A step of the reader of s, in a session whose removal no command races  *)
(* with.  Before it is removed, so the rows are listed afterwards too.     *)
LEMMA ReaderKeepsRegistered ==
    ASSUME TypeOK, Programs, NEW s \in Sessions, Good(s), ReaderStep(s), ~raced[s]
    PROVE  Good(s)'
  <1> DEFINE q == todo[s]
             a == Arg(s)
  <1>1. /\ q # << >> /\ todo' = [todo EXCEPT ![s] = Tail(q)]
        /\ UNCHANGED <<connected, removal, raced>>
    BY DEF ReaderStep, AddSession, Subscribe, AddStream, Unsubscribe, RemoveStream,
           UnsubscribeChannel, At, Done
  <1>2. removal[s] = "none" /\ connected[s] /\ (s \in known \/ At(s, "addSession"))
    BY <1>1 DEF Good, Life, Registered
  <1>3. todo'[s] = Tail(q)
    BY <1>1 DEF TypeOK
  <1>4. q \in Seq(Steps) /\ Program(q)
    BY DEF TypeOK, Programs
  <1>5. /\ ~At(s, "addSession")'
        /\ Head(q)[1] = "subscribe" => At(s, "addStream")' /\ Arg(s)' = a
        /\ At(s, "removeStream")' => Head(q) = <<"unsubscribe", Arg(s)'>>
    <2> DEFINE t == Tail(q)
    <2>1. /\ t # << >> => Head(t)[1] # "addSession"
          /\ Head(q)[1] = "subscribe" => t # << >> /\ Head(t) = <<"addStream", Head(q)[2]>>
          /\ t # << >> /\ Head(t)[1] = "removeStream" =>
                Head(q) = <<"unsubscribe", Head(t)[2]>>
      BY <1>1, <1>4, ProgramTail
    <2> HIDE DEF t
    <2>2. todo'[s] = t
      BY <1>3 DEF t
    <2> QED
      BY <2>1, <2>2 DEF At, Arg
  <1>6. /\ Head(q)[1] \in PairSteps => a \in Pairs
        /\ Head(q)[1] = "unsubscribeChannel" => a \in Idents
    BY <1>1, ReaderArg
  <1>7. RowsListed(s) /\ (At(s, "addSession") => ~HasRows(s))
        /\ (At(s, "removeStream") => Row(s, a) \notin gate)
    BY <1>2 DEF Good, Registered
  <1>8. s \in known'
    BY <1>2 DEF ReaderStep, AddSession, Subscribe, AddStream, Unsubscribe, RemoveStream,
                UnsubscribeChannel, At
  <1>9. At(s, "removeStream")' => Row(s, Arg(s))' \notin gate'
    <2> SUFFICES ASSUME At(s, "removeStream")' PROVE Row(s, Arg(s)') \notin gate'
      BY DEF Row
    <2>1. Head(q)[1] = "unsubscribe" /\ a = Arg(s)'
      BY <1>5 DEF Arg
    <2>2. Unsubscribe(s)
      BY <2>1 DEF ReaderStep, AddSession, Subscribe, AddStream, RemoveStream,
                  UnsubscribeChannel, At
    <2> QED
      BY <2>1, <2>2 DEF Unsubscribe
  <1>10. RowsListed(s)'
    <2>1. CASE AddSession(s)
      <3>1. \A r \in gate' : r[1] # s
        BY <2>1, <1>7 DEF AddSession, HasRows
      <3> QED
        BY <3>1 DEF RowsListed
    <2>2. CASE Subscribe(s)
      <3>1. Head(q)[1] = "subscribe" /\ gate' = gate \cup {Row(s, a)} /\ streams' = streams
        BY <2>2 DEF Subscribe, At
      <3>2. \A r \in gate : r[1] = s => r \in Listed(s)
        BY <3>1, <1>7 DEF RowsListed, At
      <3>3. Listed(s)' = Listed(s)
        BY <3>1 DEF Listed
      <3>4. At(s, "addStream")' /\ Row(s, Arg(s))' = Row(s, a)
        BY <3>1, <1>5 DEF Row
      <3> QED
        BY <3>1, <3>2, <3>3, <3>4 DEF RowsListed
    <2>3. CASE AddStream(s)
      <3>1. /\ Head(q)[1] = "addStream" /\ gate' = gate
            /\ streams' = [streams EXCEPT ![s][a] = @ + 1]
        BY <2>3 DEF AddStream, At
      <3>2. a \in Pairs /\ streams[s] \in [Pairs -> Nat]
        BY <3>1, <1>6 DEF PairSteps, TypeOK
      <3>3. \A p \in Pairs : streams'[s][p] = IF p = a THEN streams[s][p] + 1 ELSE streams[s][p]
        BY <3>1, <3>2 DEF TypeOK
      <3>4. \A p \in Pairs : p = a \/ streams[s][p] > 0 => streams'[s][p] > 0
        BY <3>2, <3>3
      <3>5. \A r : r \in Listed(s) \/ r = Row(s, a) => r \in Listed(s)'
        BY <3>2, <3>4 DEF Listed, Row
      <3> QED
        BY <3>1, <3>5, <1>7 DEF RowsListed
    <2>4. CASE Unsubscribe(s)
      <3>1. Head(q)[1] = "unsubscribe" /\ gate' \subseteq gate /\ streams' = streams
        BY <2>4 DEF Unsubscribe, At
      <3>2. \A r \in gate : r[1] = s => r \in Listed(s)
        BY <3>1, <1>7 DEF RowsListed, At
      <3>3. Listed(s)' = Listed(s)
        BY <3>1 DEF Listed
      <3> QED
        BY <3>1, <3>2, <3>3 DEF RowsListed
    <2>5. CASE RemoveStream(s)
      <3>1. /\ Head(q)[1] = "removeStream" /\ gate' = gate /\ At(s, "removeStream")
            /\ streams' = [streams EXCEPT ![s][a] = IF @ > 0 THEN @ - 1 ELSE 0]
        BY <2>5 DEF RemoveStream, At
      <3>2. a \in Pairs /\ streams[s] \in [Pairs -> Nat]
        BY <3>1, <1>6 DEF PairSteps, TypeOK
      <3>3. \A p \in Pairs : p # a => streams'[s][p] = streams[s][p]
        BY <3>1, <3>2 DEF TypeOK
      <3>4. \A r : r \in Listed(s) /\ r # Row(s, a) => r \in Listed(s)'
        BY <3>3 DEF Listed, Row
      <3>5. \A r \in gate : r[1] = s => r \in Listed(s) /\ r # Row(s, a)
        BY <3>1, <1>7 DEF RowsListed, At
      <3> QED
        BY <3>1, <3>4, <3>5 DEF RowsListed
    <2>6. CASE UnsubscribeChannel(s)
      <3>1. /\ Head(q)[1] = "unsubscribeChannel"
            /\ gate' = gate \ {r \in Listed(s) : r[3] = a}
            /\ streams' = [streams EXCEPT ![s] = [p \in Pairs |-> IF p[2] = a THEN 0 ELSE @[p]]]
        BY <2>6 DEF UnsubscribeChannel, At
      <3>2. \A p \in Pairs : p[2] # a => streams'[s][p] = streams[s][p]
        BY <3>1 DEF TypeOK
      <3>3. \A r : r \in Listed(s) /\ r[3] # a => r \in Listed(s)'
        BY <3>2 DEF Listed, Row
      <3>4. \A r \in gate : r[1] = s => r \in Listed(s)
        BY <3>1, <1>7 DEF RowsListed, At
      <3> QED
        BY <3>1, <3>3, <3>4 DEF RowsListed
    <2> QED
      BY <2>1, <2>2, <2>3, <2>4, <2>5, <2>6 DEF ReaderStep
  <1>11. removal'[s] = "none" /\ connected'[s] /\ ~raced'[s]
    BY <1>1, <1>2
  <1>12. Life(s)'
    BY <1>8, <1>11 DEF Life
  <1>13. Registered(s)'
    BY <1>5, <1>9, <1>10, <1>11 DEF Registered
  <1> QED
    BY <1>12, <1>13 DEF Good

(* Every critical section keeps what the hub must hold of every session.   *)
LEMMA RegistrationStep == TypeOK /\ Programs /\ Registration /\ [Next]_vars => Registration'
  <1> SUFFICES ASSUME TypeOK, Programs, Registration, [Next]_vars PROVE Registration'
    OBVIOUS
  <1> USE HubAssumption
  <1>a. \A s \in Sessions : Good(s)
    BY DEF Registration
  <1>b. ASSUME NEW s \in Sessions, Good(s)', \A t \in Sessions \ {s} : RowsUntouched(t)
        PROVE  Registration'
    BY <1>a, <1>b, Frame DEF Registration
  <1>c. ASSUME UNCHANGED <<index, connected, removal, raced, todo>> PROVE Registration'
    <2>1. \A t \in Sessions : RowsUntouched(t)
      BY <1>c DEF RowsUntouched, index
    <2> QED
      BY <2>1, <1>a, Frame DEF Registration
  <1>1. ASSUME NEW s \in Sessions, Authenticated(s) PROVE Registration'
    <2>1. removal[s] = "none" /\ ~connected[s] /\ UNCHANGED <<index, removal, raced>>
          /\ connected' = [connected EXCEPT ![s] = TRUE]
      BY <1>1 DEF Authenticated
    <2>2. PICK c : todo' = [todo EXCEPT ![s] = c] /\ c # << >> /\ Head(c)[1] = "addSession"
      BY <1>1, AuthProgram DEF Authenticated
    <2>3. \A t \in Sessions \ {s} : RowsUntouched(t)
      BY <2>1, <2>2 DEF RowsUntouched, index, TypeOK
    <2>4. Absent(s) /\ ~raced[s]
      BY <2>1, <1>a DEF Good, Life
    <2>5. ~HasRows(s)'
      BY <2>1, <2>4 DEF Absent, HasRows, index
    <2>6. todo'[s] = c /\ connected'[s] /\ removal'[s] = "none" /\ ~raced'[s]
      BY <2>1, <2>2, <2>4 DEF TypeOK
    <2>7. RowsListed(s)'
      BY <2>5 DEF HasRows, RowsListed
    <2>8. Life(s)'
      BY <2>2, <2>6 DEF Life, At
    <2>9. Registered(s)'
      BY <2>2, <2>5, <2>6, <2>7 DEF Registered, At
    <2> QED
      BY <2>3, <2>8, <2>9, <1>b DEF Good
  <1>2. ASSUME NEW s \in Sessions, HandleCommandReply(s) PROVE Registration'
    <2>1. /\ connected[s] \/ removal[s] # "none"
          /\ todo[s] = << >> /\ UNCHANGED <<index, connected, removal>>
          /\ raced' = [raced EXCEPT ![s] = @ \/ removal[s] # "none"]
      BY <1>2 DEF HandleCommandReply
    <2>2. PICK c : /\ todo' = [todo EXCEPT ![s] = c] /\ c # << >>
                   /\ Head(c)[1] \in {"unsubscribe", "unsubscribeChannel", "subscribe"}
      BY <1>2, ReplyProgram DEF HandleCommandReply
    <2>3. \A t \in Sessions \ {s} : RowsUntouched(t)
      BY <2>1, <2>2 DEF RowsUntouched, index, TypeOK
    <2>4. todo'[s] = c /\ (raced'[s] <=> raced[s] \/ removal[s] # "none")
      BY <2>1, <2>2 DEF TypeOK
    <2>5. connected[s] => s \in known
      BY <2>1, <1>a DEF Good, Life, At
    <2>6. Life(s)'
      BY <2>1, <2>4, <2>5, <1>a DEF Good, Life, index
    <2>7. ASSUME ~raced'[s] PROVE Registered(s)'
      <3>1. removal[s] = "none" /\ ~raced[s]
        BY <2>4, <2>7
      <3>2. \A r \in gate : r[1] = s => r \in Listed(s)
        BY <3>1, <2>1, <1>a DEF Good, Registered, RowsListed, At
      <3>3. RowsListed(s)'
        BY <2>1, <3>2 DEF RowsListed, Listed, index
      <3> QED
        BY <3>1, <3>3, <2>1, <2>2, <2>4 DEF Registered, At
    <2> QED
      BY <2>3, <2>6, <2>7, <1>b DEF Good
  <1>3. ASSUME NEW s \in Sessions, ReaderStep(s) PROVE Registration'
    <2>1. /\ todo' = [todo EXCEPT ![s] = Tail(@)]
          /\ UNCHANGED <<connected, removal, raced>>
      BY <1>3 DEF ReaderStep, AddSession, Subscribe, AddStream, Unsubscribe, RemoveStream,
                  UnsubscribeChannel, Done
    <2>2. \A t \in Sessions \ {s} :
             /\ t \in known' <=> t \in known
             /\ streams'[t] = streams[t]
             /\ \A r : r[1] = t => (r \in gate' <=> r \in gate)
      BY <1>3 DEF ReaderStep, AddSession, Subscribe, AddStream, Unsubscribe, RemoveStream,
                  UnsubscribeChannel, Listed, Row, TypeOK
    <2>3. \A t \in Sessions \ {s} :
             t \in identifiers'[UserOf[t]] <=> t \in identifiers[UserOf[t]]
      <3>1. \/ identifiers' = identifiers
            \/ identifiers' = [identifiers EXCEPT ![UserOf[s]] = @ \cup {s}]
        BY <1>3 DEF ReaderStep, AddSession, Subscribe, AddStream, Unsubscribe, RemoveStream,
                    UnsubscribeChannel
      <3> QED
        BY ZenonT(60), <3>1 DEF TypeOK
    <2>4. \A t \in Sessions \ {s} : RowsUntouched(t)
      BY <2>1, <2>2, <2>3 DEF RowsUntouched, TypeOK
    <2>5. CASE ~raced[s]
      BY <2>4, <2>5, <1>3, <1>a, <1>b, ReaderKeepsRegistered
    <2>6. CASE raced[s]
      <3>1. removal[s] # "none" /\ ~connected[s]
        BY <2>6, <1>a DEF Good, Life
      <3>2. Good(s)'
        BY <3>1, <2>1, <2>6 DEF Good, Life
      <3> QED
        BY <3>2, <2>4, <1>b
    <2> QED
      BY <2>5, <2>6
  <1>4. ASSUME NEW s \in Sessions, RemoveSession(s) PROVE Registration'
    <2>1. /\ connected[s] /\ connected' = [connected EXCEPT ![s] = FALSE]
          /\ removal' = [removal EXCEPT ![s] = IF s \in known THEN "unsubscribe" ELSE "done"]
          /\ raced' = [raced EXCEPT ![s] = todo[s] # << >>]
          /\ UNCHANGED <<index, todo>>
      BY <1>4 DEF RemoveSession
    <2>2. \A t \in Sessions \ {s} : RowsUntouched(t)
      BY <2>1 DEF RowsUntouched, index, TypeOK
    <2>3. /\ ~connected'[s] /\ (raced'[s] <=> todo[s] # << >>)
          /\ removal'[s] = IF s \in known THEN "unsubscribe" ELSE "done"
      BY <2>1 DEF TypeOK
    <2>4. Life(s)'
      BY <2>3 DEF Life
    <2>5. ASSUME ~raced'[s] PROVE Registered(s)'
      <3>1. todo[s] = << >>
        BY <2>3, <2>5
      <3>2. s \in known /\ removal[s] = "none" /\ ~raced[s]
        BY <3>1, <2>1, <1>a DEF Good, Life, At
      <3>3. \A r \in gate : r[1] = s => r \in Listed(s)
        BY <3>1, <3>2, <1>a DEF Good, Registered, RowsListed, At
      <3>4. RowsListed(s)'
        BY <2>1, <3>3 DEF RowsListed, Listed, index
      <3> QED
        BY <3>1, <3>2, <3>4, <2>1, <2>3 DEF Registered, At
    <2> QED
      BY <2>2, <2>4, <2>5, <1>b DEF Good
  <1>5. ASSUME NEW s \in Sessions, unsubscribeSessionFromAllChannels(s) PROVE Registration'
    <2>1. /\ removal[s] = "unsubscribe" /\ removal' = [removal EXCEPT ![s] = "delete"]
          /\ gate' = gate \ Listed(s)
          /\ UNCHANGED <<known, streams, identifiers, connected, todo, raced>>
      BY <1>5 DEF unsubscribeSessionFromAllChannels
    <2>2. \A r \in Listed(s) : r[1] = s
      BY DEF Listed, Row
    <2>3. \A t \in Sessions \ {s} : RowsUntouched(t)
      BY <2>1, <2>2 DEF RowsUntouched, TypeOK
    <2>4. removal'[s] = "delete" /\ ~connected'[s]
      BY <2>1, <1>a DEF TypeOK, Good, Life
    <2>5. Life(s)'
      BY <2>4 DEF Life
    <2>6. ASSUME ~raced'[s] PROVE Registered(s)'
      <3>1. Registered(s) /\ todo[s] = << >>
        BY <2>1, <2>6, <1>a DEF Good, Registered
      <3>2. \A r \in gate : r[1] = s => r \in Listed(s)
        BY <3>1, <2>1 DEF Registered, RowsListed, At
      <3>3. ~HasRows(s)'
        BY <3>2, <2>1 DEF HasRows
      <3> QED
        BY <3>1, <3>3, <2>1, <2>4 DEF Registered, At
    <2> QED
      BY <2>3, <2>5, <2>6, <1>b DEF Good
  <1>6. ASSUME NEW s \in Sessions, DeleteSession(s) PROVE Registration'
    <2>1. /\ removal[s] = "delete" /\ removal' = [removal EXCEPT ![s] = "done"]
          /\ known' = known \ {s}
          /\ streams' = [streams EXCEPT ![s] = NoStreams]
          /\ identifiers' = [identifiers EXCEPT ![UserOf[s]] = @ \ {s}]
          /\ UNCHANGED <<gate, connected, todo, raced>>
      BY <1>6 DEF DeleteSession
    <2>2. \A t \in Sessions \ {s} : RowsUntouched(t)
      BY <2>1 DEF RowsUntouched, TypeOK
    <2>3. removal'[s] = "done" /\ ~connected'[s]
      BY <2>1, <1>a DEF TypeOK, Good, Life
    <2>4. Life(s)'
      BY <2>3 DEF Life
    <2>5. ASSUME ~raced'[s] PROVE Registered(s)'
      <3>1. ~HasRows(s) /\ todo[s] = << >>
        BY <2>1, <2>5, <1>a DEF Good, Registered
      <3>2. Absent(s)'
        BY <3>1, <2>1 DEF Absent, HasRows, TypeOK
      <3> QED
        BY <3>1, <3>2, <2>1, <2>3 DEF Registered, At
    <2> QED
      BY <2>2, <2>4, <2>5, <1>b DEF Good
  <1>7. ASSUME NEW s \in Sessions, Close(s) PROVE Registration'
    BY <1>7, <1>c DEF Close
  <1>8. ASSUME NEW u \in Users, RemoteDisconnect(u) PROVE Registration'
    BY <1>8, <1>c DEF RemoteDisconnect, session
  <1>9. ASSUME RunDisconnect PROVE Registration'
    BY <1>9, <1>c DEF RunDisconnect, session
  <1>10. ASSUME NEW j \in jobs, disconnectSessions(j) PROVE Registration'
    BY <1>10, <1>c DEF disconnectSessions
  <1>11. ASSUME UNCHANGED vars PROVE Registration'
    BY <1>11, <1>c DEF vars, session
  <1> QED
    BY <1>1, <1>2, <1>3, <1>4, <1>5, <1>6, <1>7, <1>8, <1>9, <1>10, <1>11 DEF Next

-----------------------------------------------------------------------------
(* What the hub promises. *)

IInv == TypeOK /\ Programs /\ Registration /\ Targets

(* The inductive invariant of the hub.                                     *)
LEMMA HubInvariant == Spec => []IInv
  <1>1. Init => IInv
    BY TypeInit, RegistrationInit, TargetsInit DEF IInv
  <1>2. IInv /\ [Next]_vars => IInv'
    BY TypeStep, ProgramsStep, RegistrationStep, TargetsStep DEF IInv
  <1> QED
    BY <1>1, <1>2, PTL DEF Spec

(* Every value of the hub's maps and of the readers' programs is of its    *)
(* type; in particular no count of a listed stream is ever negative.       *)
THEOREM HubTypes == Spec => []TypeOK
  <1>1. IInv => TypeOK
    BY DEF IInv
  <1> QED
    BY <1>1, HubInvariant, PTL

(* RemoveSession, in three critical sections, leaves nothing of a session  *)
(* whose reader is not inside the hub and does not come back.              *)
THEOREM HubCleanRemoval == Spec => []CleanRemoval
  <1>1. IInv => CleanRemoval
    BY DEF IInv, Registration, Good, Registered, Absent, HasRows, CleanRemoval
  <1> QED
    BY <1>1, HubInvariant, PTL

(* A remote disconnect, carried out by Run and later by the pool, hits a   *)
(* session of the user unless all of them have left.                       *)
THEOREM HubRemoteDisconnectHits == Spec => []RemoteDisconnectHits
  <1>1. IInv => RemoteDisconnectHits
    BY DEF IInv, Targets, RemoteDisconnectHits
  <1> QED
    BY <1>1, HubInvariant, PTL
=============================================================================
