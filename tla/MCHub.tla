------------------------------- MODULE MCHub -------------------------------
(***************************************************************************)
(* The sessions of a node: the hub, with two sessions of one user, what    *)
(* sessions may do, and the client for the RPC that they make.  The three  *)
(* share no state and are explored one at a time, as part says.  Sessions  *)
(* are interchangeable.                                                    *)
(***************************************************************************)
EXTENDS Hub, TLC

CONSTANTS
    alice,
    Callers, MaxOutages, MaxGenerations, MaxRequests,   \* RpcClient
    AccessConfigs, NoSession, MaxErrors, ClientCommands   \* Access

VARIABLES
    part,
    impl, conn, recovering, outages, stale, tries, breaker, call,
    conf, client, pending, cache, granted, refused, uncommitted, whispered, sent, errors

rpcClient == <<impl, conn, recovering, outages, stale, tries, breaker, call>>
access == <<conf, client, pending, cache, granted, refused, uncommitted, whispered, sent, errors>>

C == INSTANCE RpcClient
A == INSTANCE Access WITH session <- client, stale <- uncommitted, commands <- sent,
                          Configs <- AccessConfigs, MaxCommands <- ClientCommands

ASSUME MCRpcAssumption == C!RpcClientAssumption
ASSUME MCAccessAssumption == A!AccessAssumption

MCUserOf == [s \in Sessions |-> alice]
MCSymmetry == Permutations(Sessions)

MCInit ==
    /\ part \in {"hub", "rpc", "access"}
    /\ Init /\ C!Init /\ A!Init
    /\ part # "rpc" => impl = "grpc"
    /\ part = "access" <=> conf.used # {}

MCNext ==
    /\ UNCHANGED part
    /\ \/ part = "hub" /\ Next /\ UNCHANGED <<rpcClient, access>>
       \/ part = "rpc" /\ C!Next /\ UNCHANGED <<vars, access>>
       \/ part = "access" /\ A!Next /\ UNCHANGED <<vars, rpcClient>>

MCSpec == MCInit /\ [][MCNext]_<<part, vars, rpcClient, access>>

(* What clients subscribe to, and what a server is configured with: an     *)
(* application; JWT and Turbo; public streams and optional JWT; Pusher.    *)
Signature(key, payload) == [payload |-> payload, key |-> key, parts |-> 2]
None == [payload |-> "", key |-> "", parts |-> 0]
Id(channel, name, signed) == [channel |-> channel, name |-> name, signed |-> signed]
App == Id("App", "", None)
Public == Id("$pubsub", "a", None)
Signed == Id("$pubsub", "b", Signature("key", "a"))
Foreign == Id("$pubsub", "", Signature("other", "a"))
Number == Id("$pubsub", "", Signature("key", "number"))
Turbo == {Id("Turbo::StreamsChannel", "", Signature(key, "a")) : key \in {"key", "turbo"}}
CableReady == Id("CableReady::Stream", "", Signature("key", "a"))
Pusher == {Id("$pusher", name, None) : name \in {"a", "private", "presence"}}

Base == [jwt |-> "off", skipAuth |-> FALSE, app |-> TRUE, public |-> FALSE, whisper |-> FALSE,
         presence |-> TRUE, secret |-> "key", turboSecret |-> "", turbo |-> FALSE,
         cableReady |-> FALSE, pusher |-> FALSE, origins |-> {}, used |-> {App, Public, Signed}]
MCAccessConfigs == {
    Base,
    [Base EXCEPT !.used = {}],   \* where the others rest
    [Base EXCEPT !.jwt = "forced", !.app = FALSE, !.turbo = TRUE, !.turboSecret = "turbo",
                 !.whisper = TRUE, !.used = {Signed, Number} \cup Turbo],
    [Base EXCEPT !.jwt = "optional", !.skipAuth = TRUE, !.app = FALSE, !.public = TRUE,
                 !.cableReady = TRUE, !.used = {Public, CableReady, Foreign}],
    [Base EXCEPT !.pusher = TRUE, !.app = FALSE, !.skipAuth = TRUE, !.origins = {"here"},
                 !.used = {App} \cup Pusher] }

-----------------------------------------------------------------------------
(* RpcClient!OneTryPerOutage: one call tries a connection that failed.     *)
OneTryPerOutage == C!OneTryPerOutage

(* RpcClient!HalfOpenNotStuck: a half-open breaker is not wedged.          *)
HalfOpenNotStuck == C!HalfOpenNotStuck

(* Access!Identified: nobody connects as someone else.                     *)
Identified == A!Identified

(* Access!StreamsVouched: only streams that were signed, public or allowed.*)
StreamsVouched == A!StreamsVouched

(* Access!CacheIsCurrent: the entry of a session has what the session has. *)
CacheIsCurrent == A!CacheIsCurrent

(* Access!WhispersOwnStreams: only to streams subscribed to.               *)
WhispersOwnStreams == A!WhispersOwnStreams
=============================================================================
