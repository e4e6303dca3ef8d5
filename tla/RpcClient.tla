----------------------------- MODULE RpcClient -----------------------------
(***************************************************************************)
(* A call of the RPC controller (rpc/rpc.go): retry asks Ready of the      *)
(* transport, calls, and tries again after a delay, however long.  Over    *)
(* gRPC, Ready lets one caller of an outage through to reconnect at once;  *)
(* over HTTP (rpc/http.go), a circuit breaker keeps callers away.  Both    *)
(* are shared by the callers, and neither is locked from the check to the  *)
(* call.  The breaker is the gobreaker library's.                          *)
(***************************************************************************)
EXTENDS Naturals, Sequences, FiniteSets

CONSTANTS
    Callers,
    MaxOutages,    \* bound: times the connection, or the service, fails
    MaxGenerations,   \* bound: changes of the breaker's state
    MaxRequests    \* requests a half-open breaker lets through

(* What the constants are; gobreaker takes a MaxRequests of 0 for 1.       *)
RpcClientAssumption == IsFiniteSet(Callers) /\ MaxRequests \in Nat \ {0}

VARIABLES
    impl,         \* "grpc" or "http"
    conn,         \* state of the gRPC connection
    recovering,
    outages,
    stale,        \* history: callers that read the state before the outage
    tries,        \* history: callers let through during the outage
    breaker,      \* [state, generation, requests, successes]
    call          \* each caller's call

transport == <<conn, recovering, outages, stale, tries>>
vars == <<impl, transport, breaker, call>>

NewCall == [at |-> "ready", saw |-> "ready", generation |-> 0]
NewBreaker(state, generation) ==
    [state |-> state, generation |-> generation, requests |-> 0, successes |-> 0]

Init ==
    /\ impl \in {"grpc", "http"}
    /\ conn = "ready" /\ recovering = FALSE /\ outages = 0 /\ stale = {} /\ tries = 0
    /\ breaker = NewBreaker("closed", 0)
    /\ call = [c \in Callers |-> NewCall]

Goes(c, place) == call' = [call EXCEPT ![c].at = place]
KeepTransport == UNCHANGED <<impl, transport, breaker>>

-----------------------------------------------------------------------------
(* gRPC: the connection fails, reconnects by itself, and grpcClientHelper. *)

ConnFails ==
    /\ impl = "grpc" /\ conn \in {"ready", "connecting"} /\ outages < MaxOutages
    /\ conn' = "failure" /\ outages' = outages + 1
    /\ stale' = {c \in Callers : call[c].at = "check" /\ call[c].saw # "failure"}
    /\ tries' = 0
    /\ UNCHANGED <<impl, recovering, breaker, call>>

Connects ==
    /\ impl = "grpc"
    /\ conn' = CASE conn = "failure" -> "connecting" [] conn = "connecting" -> "ready"
                 [] OTHER -> conn
    /\ conn' # conn
    /\ UNCHANGED <<impl, recovering, outages, stale, tries, breaker, call>>

(* Ready reads the state first, and then acts on it.                       *)
GetState(c) ==
    /\ impl = "grpc" /\ call[c].at = "ready"
    /\ call' = [call EXCEPT ![c].at = "check", ![c].saw = conn]
    /\ KeepTransport

(* Faulty variant: recovering is not set.                                  *)
tryRecoverAlways(c) ==
    /\ tries' = tries + 1 /\ UNCHANGED recovering
    /\ Goes(c, "send")

tryRecover(c) ==
    IF recovering
    THEN Goes(c, "ended") /\ UNCHANGED <<recovering, tries>>
    ELSE /\ recovering' = TRUE
         /\ tries' = IF conn = "failure" THEN tries + 1 ELSE tries
         /\ Goes(c, "send")

reset(c) == recovering' = FALSE /\ UNCHANGED tries /\ Goes(c, "send")

Ready(c) ==
    /\ call[c].at = "check"
    /\ IF call[c].saw = "failure" THEN tryRecover(c) ELSE reset(c)
    /\ UNCHANGED <<impl, conn, outages, stale, breaker>>

-----------------------------------------------------------------------------
(* HTTP: httpClientHelper and performRequest.                              *)

CheckBreaker(c) ==
    /\ impl = "http" /\ call[c].at = "ready"
    /\ Goes(c, IF breaker.state = "open" THEN "ended" ELSE "send")
    /\ KeepTransport

(* gobreaker: an open breaker becomes half-open when its timeout passes.   *)
BreakerTimeout ==
    /\ breaker.state = "open" /\ breaker.generation < MaxGenerations
    /\ breaker' = NewBreaker("half", breaker.generation + 1)
    /\ UNCHANGED <<impl, transport, call>>

Allow ==
    breaker.state = "closed" \/ (breaker.state = "half" /\ breaker.requests < MaxRequests)

(* What the callback of an allowed request does to the breaker; one that   *)
(* was allowed in an earlier generation does nothing.  Whether a closed    *)
(* breaker is ready to trip is a matter of its statistics.                 *)
Reported(success, generation) ==
    LET b == breaker
        succeeded == [b EXCEPT !.successes = @ + 1]
        opened == NewBreaker("open", generation + 1)
    IN  IF generation # b.generation THEN {b}
        ELSE IF b.state = "closed"
        THEN IF success \/ generation >= MaxGenerations THEN {b} ELSE {b, opened}
        ELSE IF b.state = "half" /\ ~success THEN {opened}
        ELSE IF succeeded.successes >= MaxRequests THEN {NewBreaker("closed", generation + 1)}
        ELSE {succeeded}

(* The deferred call of performRequest reports however it returns.  Any    *)
(* answer of the server is a success for the breaker.                      *)
Reports(c, answered) ==
    IF impl = "http" THEN breaker' \in Reported(answered, call[c].generation)
    ELSE UNCHANGED breaker

Send(c) ==
    /\ call[c].at = "send"
    /\ IF impl = "http"
       THEN IF Allow
            THEN /\ breaker' = IF breaker.state = "half" THEN [breaker EXCEPT !.requests = @ + 1]
                               ELSE breaker
                 /\ call' = [call EXCEPT ![c].at = "sent", ![c].generation = breaker.generation]
            ELSE Goes(c, "ended") /\ UNCHANGED breaker
       ELSE Goes(c, "sent") /\ UNCHANGED breaker
    /\ UNCHANGED <<impl, transport>>

-----------------------------------------------------------------------------
(* retry.                                                                  *)

(* Faulty variant: an error that is not retried returns before the report. *)
EndsUnreported(c, answered) ==
    /\ call[c].at = "sent"
    /\ Goes(c, "ended")
    /\ IF answered THEN Reports(c, TRUE) ELSE UNCHANGED breaker
    /\ UNCHANGED <<impl, transport>>

(* An answer, or an error that is not retried.                             *)
Ends(c, answered) ==
    /\ call[c].at = "sent"
    /\ Goes(c, "ended")
    /\ Reports(c, answered)
    /\ UNCHANGED <<impl, transport>>

(* The transport is unavailable or exhausted: the call waits.              *)
Fails(c) ==
    /\ call[c].at = "sent"
    /\ Goes(c, "wait")
    /\ Reports(c, FALSE)
    /\ UNCHANGED <<impl, transport>>

Retry(c) == call[c].at = "wait" /\ Goes(c, "ready") /\ KeepTransport

(* The command's timeout, or its session's end.                            *)
Interrupted(c) == call[c].at = "wait" /\ Goes(c, "ended") /\ KeepTransport

NextCall(c) ==
    /\ call[c].at = "ended"
    /\ call' = [call EXCEPT ![c] = NewCall]
    /\ KeepTransport

Next ==
    \/ ConnFails \/ Connects \/ BreakerTimeout
    \/ \E c \in Callers :
        \/ GetState(c) \/ Ready(c) \/ CheckBreaker(c) \/ Send(c)
        \/ Ends(c, TRUE) \/ Ends(c, FALSE)
        \/ Fails(c) \/ Retry(c) \/ Interrupted(c) \/ NextCall(c)

Spec == Init /\ [][Next]_vars

-----------------------------------------------------------------------------
(* "we try to re-connect immediately once": while the connection stays in  *)
(* failure, one caller is let through, and one more for each that had read *)
(* the state before the outage and takes it for restored afterwards.       *)
OneTryPerOutage == tries <= 1 + Cardinality(stale)

(* A half-open breaker that lets nobody through waits for a request that   *)
(* is under way: it is never wedged.                                       *)
HalfOpenNotStuck ==
    breaker.state = "half" /\ ~Allow =>
        \E c \in Callers : call[c].at = "sent" /\ call[c].generation = breaker.generation
=============================================================================
