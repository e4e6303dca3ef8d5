------------------------------- MODULE Access -------------------------------
(***************************************************************************)
(* Who may connect and what a session may then use: identifiers            *)
(* (identity), the router and the controllers behind it (router, streams,  *)
(* pusher, rpc), the session's environment and subscriptions (common,      *)
(* node/session.go), and their entry in the sessions cache, from which     *)
(* another session may go on.                                              *)
(*                                                                         *)
(* A controller is called in one step and its result applied in a later    *)
(* one; in between the session may be closed, and another one restored     *)
(* from its entry.  NodeStreams.tla has the finer steps of one command.    *)
(***************************************************************************)
EXTENDS Naturals, FiniteSets

CONSTANTS
    Sessions, Configs, NoSession,
    MaxCommands, MaxErrors   \* bounds: commands, and commits that fail

StreamNames == {"a", "b", "private", "presence"}
VARIABLES
    conf,       \* the configuration, and the identifiers that clients use
    session,    \* Session, and the request that it came with
    pending,    \* the command that it handles, with the controller's result
    cache,      \* the broker's entries
    granted,    \* history: what the application allowed, and Pusher's signatures
    refused,    \* history: sessions that failed to authenticate
    stale,      \* history: sessions with a commit that failed
    whispered,  \* history: the latest whisper
    commands, errors

vars == <<conf, session, pending, cache, granted, refused, stale, whispered, commands, errors>>

-----------------------------------------------------------------------------
(* utils.MessageVerifier.  A signed name is what it carries, the key that  *)
(* it was signed with, and the number of its parts.                        *)

NoName == [payload |-> "", key |-> "", parts |-> 0]

(* What clients name.  "App" stands for the channels of the application.   *)
Identifiers ==
    [channel : {"$pubsub", "Turbo::StreamsChannel", "CableReady::Stream", "$pusher", "App"},
     name : StreamNames \cup {""},
     signed : [payload : STRING, key : STRING, parts : Nat] \cup {NoName}]

(* What the constants are.                                                 *)
AccessAssumption ==
    /\ NoSession \notin Sessions
    /\ Configs \subseteq
          [jwt : {"off", "optional", "forced"}, skipAuth : BOOLEAN, app : BOOLEAN,
           public : BOOLEAN, whisper : BOOLEAN, presence : BOOLEAN, secret : STRING,
           turboSecret : STRING, turbo : BOOLEAN, cableReady : BOOLEAN, pusher : BOOLEAN,
           origins : SUBSET STRING, used : SUBSET Identifiers]

VerifySignature(key, signed) == signed.key = key

Validate(key, signed) ==
    signed # NoName /\ signed.parts = 2 /\ VerifySignature(key, signed)

(* What it carries, if it can be decoded.                                  *)
Verified(key, signed) ==
    IF Validate(key, signed) THEN {signed.payload} \ {"garbage"} ELSE {}

-----------------------------------------------------------------------------
(* Results of controllers.  Channel state is a set of fields with values.  *)

Result(status, streams, istate) ==
    [status |-> status, err |-> FALSE, streams |-> streams, stop |-> FALSE, istate |-> istate]
Rejected == Result("failure", {}, {})
Nothing == Result("nil", {}, {})
Failing(result) == [result EXCEPT !.err = TRUE]

(* The controllers of streams: a resolver, and the key.                    *)
GetTurboSecret == IF conf.turboSecret # "" THEN conf.turboSecret ELSE conf.secret
GetCableReadySecret == conf.secret

NewStreamsController(id) ==
    LET public == id.name # "" /\ id.signed = NoName IN
    [ok |-> conf.public \/ ~public, key |-> conf.secret, name |-> id.name, signed |-> id.signed,
     whisper |-> conf.whisper \/ public, presence |-> conf.presence \/ public]

SignedOnly(id, key) ==
    [ok |-> TRUE, key |-> key, name |-> "", signed |-> id.signed,
     whisper |-> FALSE, presence |-> FALSE]
NewTurboController(id) == SignedOnly(id, GetTurboSecret)
NewCableReadyController(id) == SignedOnly(id, GetCableReadySecret)

(* Faulty variant: a plain name goes first.                                *)
VerifiedStreamByName(request) ==
    IF ~request.ok \/ (request.name = "" /\ request.signed = NoName) THEN {}
    ELSE IF request.name # "" THEN {request.name}
    ELSE Verified(request.key, request.signed) \cap StreamNames

(* The stream, if there is one; a signed value may be no string.           *)
VerifiedStream(request) ==
    IF ~request.ok \/ (request.name = "" /\ request.signed = NoName) THEN {}
    ELSE IF request.signed = NoName THEN {request.name}
    ELSE Verified(request.key, request.signed) \cap StreamNames

StreamState(whisper, presence, stream) ==
    (IF whisper THEN {<<"w", stream>>} ELSE {}) \cup (IF presence THEN {<<"p", stream>>} ELSE {})

StreamsSubscribe(request) ==
    IF VerifiedStream(request) = {} THEN {Failing(Rejected)}
    ELSE {Result("success", {stream}, StreamState(request.whisper, request.presence, stream)) :
             stream \in VerifiedStream(request)}

StopAll == [Result("success", {}, {}) EXCEPT !.stop = TRUE]

-----------------------------------------------------------------------------
(* Pusher: channels that are private or have presence need a signature for *)
(* the socket and the channel.                                             *)

PrivateChannels == {"private", "presence"}
NoAuth == [socket |-> NoSession, channel |-> ""]
Auths == {NoAuth} \cup [socket : Sessions, channel : PrivateChannels]

channelToIdentifier(channel) == [channel |-> "$pusher", name |-> channel, signed |-> NoName]
identifierToChannel(id) == IF id.channel = "$pusher" THEN {id.name} ELSE {}

(* Encoder.Decode: the command of an event, with the identifier of its     *)
(* channel; pings and pongs have none, and other events are errors.        *)
Decode(event, channel) ==
    CASE event \in {"subscribe", "unsubscribe"} -> {<<event, channelToIdentifier(channel)>>}
      [] event = "client-" -> {<<"whisper", channelToIdentifier(channel)>>}
      [] OTHER -> {}
PusherEvents == {"subscribe", "unsubscribe", "client-", "event"}

verifyString(s, channel, auth) == auth = [socket |-> s, channel |-> channel]
VerifyChannel(s, channel, auth) == verifyString(s, channel, auth)
VerifyPresenceChannel(s, channel, auth) == verifyString(s, channel, auth)

verifyPrivateChannel(s, id, auth) ==
    \E channel \in identifierToChannel(id) :
        CASE channel = "presence" -> VerifyPresenceChannel(s, channel, auth)
          [] channel = "private" -> VerifyChannel(s, channel, auth)
          [] OTHER -> TRUE

(* The controller trusts the executor.  It reads the presence of the       *)
(* channel, which may fail.                                                *)
PusherSubscribe(id) ==
    IF id.name = "" THEN {Rejected}
    ELSE {Result("success", {id.name},
                 StreamState(id.name \in PrivateChannels, id.name = "presence", id.name))}
         \cup (IF id.name = "presence" THEN {Failing(Result("error", {}, {}))} ELSE {})

-----------------------------------------------------------------------------
(* The application behind RPC, as far as the node can tell (parsed by      *)
(* protocol): its own channels it allows or not, with streams and state;   *)
(* for others, a call fails.                                               *)

Response(status, streams, stop, istate) ==
    [status : status, streams : streams, stop : stop, istate : istate]
ParseCommandResponse(r) ==
    [status |-> r.status, err |-> r.status = "error", streams |-> r.streams, stop |-> r.stop,
     istate |-> r.istate]

AppResponses(id) ==
    Response({"error"}, {{}}, {FALSE}, {{}}) \cup
    IF id.channel # "App" THEN {}
    ELSE Response({"success", "failure"}, {{}, {"b"}}, BOOLEAN, {{<<"data", "kept">>}})

AppCommand(id) ==
    {Failing(Nothing)} \cup {ParseCommandResponse(r) : r \in AppResponses(id)}

(* NullController, where there is no application.                          *)
DefaultSubscribe(id) == IF conf.app THEN AppCommand(id) ELSE {Rejected}
DefaultCommand(id) == IF conf.app THEN AppCommand(id) ELSE {Failing(Nothing)}

-----------------------------------------------------------------------------
(* The router: the handler of the channel, unless it has nothing to say.   *)

Routes ==
    {"$pubsub"}
    \cup (IF conf.turbo /\ GetTurboSecret # "" THEN {"Turbo::StreamsChannel"} ELSE {})
    \cup (IF conf.cableReady /\ GetCableReadySecret # "" THEN {"CableReady::Stream"} ELSE {})
    \cup (IF conf.pusher THEN {"$pusher"} ELSE {})

extractChannel(id) == id.channel

RouterSubscribe(id) ==
    IF extractChannel(id) \notin Routes THEN DefaultSubscribe(id)
    ELSE CASE id.channel = "$pubsub" -> StreamsSubscribe(NewStreamsController(id))
           [] id.channel = "Turbo::StreamsChannel" -> StreamsSubscribe(NewTurboController(id))
           [] id.channel = "CableReady::Stream" -> StreamsSubscribe(NewCableReadyController(id))
           [] id.channel = "$pusher" -> PusherSubscribe(id)
RouterUnsubscribe(id) == IF extractChannel(id) \in Routes THEN {StopAll} ELSE DefaultCommand(id)
RouterPerform(id) == DefaultCommand(id)

-----------------------------------------------------------------------------
(* Identification.  A token comes in a header or in the URL.               *)

Tokens == {"none", "valid", "expired", "bad", "no ids"}
Identity(status, ids, err) == [status |-> status, ids |-> ids, err |-> err]
Unknown == Identity("nil", <<>>, FALSE)

JWTIdentify(request) ==
    LET token == IF request.header # "none" THEN request.header ELSE request.param IN
    CASE token = "none" -> IF conf.jwt = "forced" THEN Identity("failure", <<>>, FALSE) ELSE Unknown
      [] token \in {"expired", "bad"} -> Identity("failure", <<>>, FALSE)
      [] token = "no ids" -> Identity("nil", <<>>, TRUE)
      [] token = "valid" -> Identity("success", <<"user">>, FALSE)

PublicIdentify(s) == Identity("success", <<"sid", s>>, FALSE)

Then(first, second) == IF first # Unknown THEN first ELSE second

(* Faulty variant: after a failure, the next one is asked.                 *)
PipelineIdentifySuccess(s) ==
    LET jwt == IF conf.jwt # "off" THEN JWTIdentify(session[s].request) ELSE Unknown IN
    IF jwt.status = "success" \/ jwt.err THEN jwt
    ELSE IF conf.skipAuth THEN PublicIdentify(s) ELSE jwt

(* IdentifierPipeline.Identify: the first that has something to say.       *)
PipelineIdentify(s) ==
    Then(IF conf.jwt # "off" THEN JWTIdentify(session[s].request) ELSE Unknown,
         IF conf.skipAuth THEN PublicIdentify(s) ELSE Unknown)

ParseConnectResponse(status) ==
    Identity(status, IF status = "success" THEN <<"app">> ELSE <<>>, status = "error")

(* rpc.Controller.Authenticate: the application's answer, or a call that   *)
(* fails.                                                                  *)
AppAuthenticate ==
    {ParseConnectResponse(status) : status \in {"success", "failure", "error"}}
    \cup {Identity("nil", <<>>, TRUE)}

(* IdentifiableController.Authenticate: else, the application is asked.    *)
ControllerAuthenticate(s) ==
    IF PipelineIdentify(s) # Unknown THEN {PipelineIdentify(s)}
    ELSE IF conf.app THEN AppAuthenticate
    ELSE {Identity("failure", <<>>, FALSE)}

(* Who a request shows its session to be (what the code is held to).       *)
Entitled(s, request) ==
    LET tokens == {request.header, request.param} \ {"none"} IN
    IF conf.jwt # "off" /\ tokens # {}
    THEN IF "valid" = (IF request.header # "none" THEN request.header ELSE request.param)
         THEN {<<"user">>} ELSE {}
    ELSE IF conf.jwt = "forced" THEN {}
    ELSE IF conf.skipAuth THEN {<<"sid", s>>} ELSE IF conf.app THEN {<<"app">>} ELSE {}

-----------------------------------------------------------------------------
(* The session's environment.                                              *)

(* The state of channels is a set of triples: channel, field and value.    *)
(* An empty value removes the field.                                       *)
MergeChannelState(istate, new) ==
    {e \in istate : \A n \in new : <<n[1], n[2]>> # <<e[1], e[2]>>} \cup {n \in new : n[3] # ""}
RemoveChannelState(istate, id) == {e \in istate : e[1] # id}
GetChannelStateField(s, id, field) ==
    {e[3] : e \in {x \in session[s].istate : x[1] = id /\ x[2] = field}}

NoEntry == [ids |-> <<>>, channels |-> {}, subs |-> {}, istate |-> {}, origin |-> NoSession]
ToCacheEntry(x) ==
    [ids |-> x.ids, channels |-> x.channels, subs |-> x.subs, istate |-> x.istate,
     origin |-> x.origin]

RestoreFromCache(x, entry) ==
    [x EXCEPT !.ids = entry.ids, !.channels = entry.channels, !.subs = entry.subs,
              !.istate = MergeChannelState(x.istate, entry.istate), !.origin = entry.origin]

(* CommitSession of session s as it is in next; it may fail.               *)
Commit(s, next) ==
    IF ~next[s].resumable THEN UNCHANGED <<cache, stale, errors>>
    ELSE \/ cache' = [cache EXCEPT ![s] = ToCacheEntry(next[s])] /\ UNCHANGED <<stale, errors>>
         \/ /\ errors < MaxErrors /\ errors' = errors + 1
            /\ stale' = stale \cup {s} /\ UNCHANGED cache

-----------------------------------------------------------------------------
(* Connections.                                                            *)

NoRequest == [header |-> "none", param |-> "none"]
NewSession(phase, endpoint, resumable, request, prev, entitled) ==
    [phase |-> phase, endpoint |-> endpoint, resumable |-> resumable, request |-> request,
     prev |-> prev, entitled |-> entitled, connected |-> FALSE, ids |-> <<>>, channels |-> {}, subs |-> {},
     istate |-> {}, origin |-> NoSession]

Idle == [cmd |-> "none"]

Init ==
    /\ conf \in Configs
    /\ session = [s \in Sessions |-> NewSession("none", "cable", FALSE, NoRequest, NoSession, {})]
    /\ pending = [s \in Sessions |-> Idle]
    /\ cache = [s \in Sessions |-> NoEntry]
    /\ granted = {} /\ refused = {} /\ stale = {} /\ whispered = <<>>
    /\ commands = 0 /\ errors = 0

(* CheckOrigin lets everyone in if no hosts are configured.                *)
CheckOrigin(origin) == conf.origins = {} \/ origin \in conf.origins

(* sessionOptionsFromParams: the header goes before the parameter.         *)
PrevSid(header, param) == IF header # NoSession THEN header ELSE param

(* WebsocketHandler with the default session handler: extended protocols   *)
(* can be resumed, with a broker that keeps sessions.                      *)
Connect(s) ==
    /\ session[s].phase = "none"
    /\ \E origin \in {"here", "elsewhere"}, extended \in BOOLEAN,
         request \in [header : Tokens, param : Tokens],
         prevHeader \in Sessions \cup {NoSession}, prevParam \in Sessions \cup {NoSession} :
        /\ CheckOrigin(origin) /\ prevHeader # s /\ prevParam # s
        /\ conf.jwt = "off" => request = NoRequest   \* tokens are not looked for
        /\ session' = [session EXCEPT ![s] =
               NewSession("auth", "cable", extended, request, PrevSid(prevHeader, prevParam),
                          Entitled(s, request))]
    /\ UNCHANGED <<conf, pending, cache, granted, refused, stale, whispered, commands, errors>>

(* pusherWebsocketHandler: everyone is let in, with no more than an id.    *)
ConnectPusher(s) ==
    /\ conf.pusher /\ session[s].phase = "none"
    /\ session' = [session EXCEPT ![s] =
           [NewSession("served", "pusher", FALSE, NoRequest, NoSession, {<<"sid", s>>}) EXCEPT
               !.connected = TRUE, !.ids = <<"sid", s>>, !.origin = s]]
    /\ UNCHANGED <<conf, pending, cache, granted, refused, stale, whispered, commands, errors>>

(* The request is not read again.                                          *)
Forgets(x) == [x EXCEPT !.request = NoRequest, !.prev = NoSession]

Restorable(s) ==
    session[s].resumable /\ session[s].prev # NoSession /\ cache[session[s].prev] # NoEntry

TryRestoreSession(s) ==
    /\ session[s].phase = "auth" /\ pending[s] = Idle /\ Restorable(s)
    /\ LET restored == [session EXCEPT ![s] =
               [Forgets(RestoreFromCache(session[s], cache[session[s].prev])) EXCEPT
                   !.connected = TRUE, !.phase = "served"]]
       IN session' = restored /\ Commit(s, restored)
    /\ UNCHANGED <<conf, pending, granted, refused, whispered, commands>>

(* The entry is not found, or cannot be read.                              *)
Authenticate(s) ==
    /\ session[s].phase = "auth" /\ pending[s] = Idle
    /\ IF Restorable(s) THEN errors < MaxErrors /\ errors' = errors + 1 ELSE UNCHANGED errors
    /\ \E identity \in ControllerAuthenticate(s) :
        pending' = [pending EXCEPT ![s] = [cmd |-> "authenticate", res |-> identity]]
    /\ session' = [session EXCEPT ![s] = Forgets(@)]
    /\ UNCHANGED <<conf, cache, granted, refused, stale, whispered, commands>>

(* A session that fails to authenticate is closed, and committed as well.  *)
Authenticated(s) ==
    /\ pending[s].cmd = "authenticate" /\ session[s].phase = "auth"
    /\ LET res == pending[s].res
           next == [session EXCEPT
                       ![s].phase = IF res.status = "success" THEN "served" ELSE "closed",
                       ![s].connected = res.status = "success",
                       ![s].ids = res.ids, ![s].origin = s]
       IN IF res.err
          THEN /\ session' = [session EXCEPT ![s].phase = "closed"]
               /\ UNCHANGED <<cache, refused, stale, errors>>
          ELSE /\ session' = next /\ Commit(s, next)
               /\ refused' = IF res.status = "success" THEN refused ELSE refused \cup {s}
    /\ pending' = [pending EXCEPT ![s] = Idle]
    /\ UNCHANGED <<conf, granted, whispered, commands>>

Close(s) ==
    /\ session[s].phase \in {"auth", "served"}
    /\ session' = [session EXCEPT ![s].phase = "closed", ![s].connected = FALSE]
    /\ UNCHANGED <<conf, pending, cache, granted, refused, stale, whispered, commands, errors>>

(* The result of a call for a session that was closed meanwhile.           *)
Skip(s) ==
    /\ session[s].phase = "closed" /\ pending[s] # Idle
    /\ pending' = [pending EXCEPT ![s] = Idle]
    /\ UNCHANGED <<conf, session, cache, granted, refused, stale, whispered, commands, errors>>

-----------------------------------------------------------------------------
(* Commands.                                                               *)

Ready(s) ==
    /\ session[s].phase = "served" /\ pending[s] = Idle
    /\ commands < MaxCommands /\ commands' = commands + 1

(* The identifiers that a client may send with a command.                  *)
Sent(s, command) ==
    IF session[s].endpoint = "cable" THEN conf.used
    ELSE {id \in {channelToIdentifier(i.name) : i \in conf.used} :
             \E event \in PusherEvents : <<command, id>> \in Decode(event, id.name)}

(* shown: the signatures that came with the command.                       *)
Call(s, cmd, id, results, shown) ==
    \E res \in results :
        /\ pending' = [pending EXCEPT ![s] = [cmd |-> cmd, id |-> id, res |-> res]]
        /\ granted' = granted \cup shown
                         \cup (IF id.channel = "App" THEN {<<s, st>> : st \in res.streams} ELSE {})

(* Executor.HandleCommand for Pusher sessions: without a valid signature   *)
(* the subscription goes on for no channel.  A presence channel's data is  *)
(* left in the state for the controller.                                   *)
Subscribe(s) ==
    /\ Ready(s)
    /\ \E id \in Sent(s, "subscribe"), auth \in Auths :
        LET pusher == session[s].endpoint = "pusher"
            ok == verifyPrivateChannel(s, id, auth)
            actual == IF pusher /\ ~ok THEN channelToIdentifier("") ELSE id
            shown == IF auth.socket = s THEN {<<s, auth.channel>>} ELSE {}
        IN /\ pusher \/ auth = NoAuth
           /\ session' = IF pusher /\ ok /\ id.name = "presence"
                         THEN [session EXCEPT ![s].istate =
                                   MergeChannelState(@, {<<id, "data", "member">>})]
                         ELSE session
           /\ IF actual \in session[s].channels THEN UNCHANGED pending /\ granted' = granted \cup shown
              ELSE Call(s, "subscribe", actual, RouterSubscribe(actual), shown)
    /\ UNCHANGED <<conf, cache, refused, stale, whispered, errors>>

Unsubscribe(s) ==
    /\ Ready(s)
    /\ \E id \in session[s].channels \cap Sent(s, "unsubscribe") :
           Call(s, "unsubscribe", id, RouterUnsubscribe(id), {})
    /\ UNCHANGED <<conf, session, cache, refused, stale, whispered, errors>>

Perform(s) ==
    /\ Ready(s)
    /\ \E id \in session[s].channels \cap Sent(s, "perform") :
           Call(s, "perform", id, RouterPerform(id), {})
    /\ UNCHANGED <<conf, session, cache, refused, stale, whispered, errors>>

(* handleCommandReply: streams are stopped, others started, state merged.  *)
StreamsOf(x, id) == {st \in StreamNames : <<id, st>> \in x.subs}
handleCommandReply(x, id, res) ==
    [x EXCEPT !.subs = (IF res.stop THEN {sub \in @ : sub[1] # id} ELSE @)
                           \cup (IF id \in x.channels THEN {<<id, st>> : st \in res.streams} ELSE {}),
              !.istate = MergeChannelState(@, {<<id, f[1], f[2]>> : f \in res.istate})]

IsDirty(x, id, res) ==
    \/ res.stop /\ StreamsOf(x, id) # {}
    \/ res.streams # {} \/ res.istate # {}

(* Whether the reply is handled at all.                                    *)
Handled(res) == ~(res.status = "nil" \/ (res.err /\ res.status = "error"))

Reply(s, cmd) ==
    /\ pending[s].cmd = cmd /\ session[s].phase = "served"
    /\ pending' = [pending EXCEPT ![s] = Idle]
    /\ UNCHANGED <<conf, granted, refused, whispered, commands>>

Subscribed(s) ==
    /\ Reply(s, "subscribe")
    /\ LET id == pending[s].id
           res == pending[s].res
           confirmed == res.status = "success" /\ ~res.err
           x == session[s]
           channels == IF confirmed THEN x.channels \cup {id} ELSE x.channels
           next == [session EXCEPT ![s] =
               handleCommandReply([x EXCEPT !.channels = channels], id, res)]
       IN IF ~Handled(res) THEN UNCHANGED <<session, cache, stale, errors>>
          ELSE /\ session' = next
               /\ IF confirmed THEN Commit(s, next) ELSE UNCHANGED <<cache, stale, errors>>

(* Faulty variant: what the channel has kept stays.                        *)
UnsubscribedKeepsState(s) ==
    /\ Reply(s, "unsubscribe")
    /\ LET id == pending[s].id
           res == pending[s].res
           x == session[s]
           next == [session EXCEPT ![s] = handleCommandReply(
                       [x EXCEPT !.channels = x.channels \ {id}], id, [res EXCEPT !.stop = TRUE])]
       IN IF ~Handled(res) THEN UNCHANGED <<session, cache, stale, errors>>
          ELSE session' = next /\ Commit(s, next)

(* Faulty variant: the entry is not written again.                         *)
UnsubscribedUncommitted(s) ==
    /\ Reply(s, "unsubscribe")
    /\ LET id == pending[s].id
           res == pending[s].res
           x == session[s]
           rest == [x EXCEPT !.channels = x.channels \ {id},
                             !.istate = RemoveChannelState(x.istate, id)]
       IN IF ~Handled(res) THEN UNCHANGED session
          ELSE session' = [session EXCEPT ![s] =
                               handleCommandReply(rest, id, [res EXCEPT !.stop = TRUE])]
    /\ UNCHANGED <<cache, stale, errors>>

(* All streams are stopped, whatever the controller said.  The state of    *)
(* the channel is removed, and then what the reply has is merged.          *)
Unsubscribed(s) ==
    /\ Reply(s, "unsubscribe")
    /\ LET id == pending[s].id
           res == pending[s].res
           x == session[s]
           rest == [x EXCEPT !.channels = x.channels \ {id},
                             !.istate = RemoveChannelState(x.istate, id)]
           next == [session EXCEPT ![s] = handleCommandReply(rest, id, [res EXCEPT !.stop = TRUE])]
       IN IF ~Handled(res) THEN UNCHANGED <<session, cache, stale, errors>>
          ELSE session' = next /\ Commit(s, next)

Performed(s) ==
    /\ Reply(s, "perform")
    /\ LET id == pending[s].id
           res == pending[s].res
           next == [session EXCEPT ![s] = handleCommandReply(@, id, res)]
       IN IF ~Handled(res) THEN UNCHANGED <<session, cache, stale, errors>>
          ELSE /\ session' = next
               /\ IF IsDirty(session[s], id, res) THEN Commit(s, next)
                  ELSE UNCHANGED <<cache, stale, errors>>

(* To the stream that the state of the channel names, if it names one.     *)
Whisper(s) ==
    /\ Ready(s)
    /\ \E id \in Sent(s, "whisper") : \E stream \in GetChannelStateField(s, id, "w") :
           whispered' = <<s, id, stream>>
    /\ UNCHANGED <<conf, session, pending, cache, granted, refused, stale, errors>>

Next ==
    \E s \in Sessions :
        \/ Connect(s) \/ ConnectPusher(s) \/ TryRestoreSession(s)
        \/ Authenticate(s) \/ Authenticated(s) \/ Close(s) \/ Skip(s)
        \/ Subscribe(s) \/ Subscribed(s) \/ Unsubscribe(s) \/ Unsubscribed(s)
        \/ Perform(s) \/ Performed(s) \/ Whisper(s)

Spec == Init /\ [][Next]_vars

-----------------------------------------------------------------------------
(* A connected session is who its own request showed it to be, or who the  *)
(* session was that it goes on from; but one that goes on from a session   *)
(* that failed to authenticate is nobody.                                  *)
Identified ==
    \A s \in Sessions :
        session[s].connected =>
            LET first == session[s].origin IN
            IF first \in refused THEN session[s].ids = <<>>
            ELSE session[s].ids \in session[first].entitled

(* A session is subscribed to streams that it, or the one that it goes on  *)
(* from, was entitled to: their names are public or were signed with the   *)
(* key of the channel, a signature for Pusher's socket was shown, or the   *)
(* application has allowed it.  A $pusher channel of a session that has    *)
(* not come through Pusher's endpoint is none of the controller's concern. *)
Vouched(s, id, st) ==
    CASE id.channel = "$pubsub" ->
            IF id.signed = NoName THEN conf.public /\ st = id.name
            ELSE st = id.signed.payload /\ id.signed.key = conf.secret
      [] id.channel = "Turbo::StreamsChannel" ->
            st = id.signed.payload /\ id.signed.key = GetTurboSecret
      [] id.channel = "CableReady::Stream" ->
            st = id.signed.payload /\ id.signed.key = GetCableReadySecret
      [] id.channel = "$pusher" /\ session[s].endpoint = "pusher" ->
            st \in PrivateChannels => <<s, st>> \in granted
      [] id.channel = "App" ->
            \E t \in Sessions : session[t].origin = session[s].origin /\ <<t, st>> \in granted
      [] OTHER -> TRUE
StreamsVouched == \A s \in Sessions : \A sub \in session[s].subs : Vouched(s, sub[1], sub[2])

(* Whatever a session whispers through a stream's channel goes to a stream *)
(* that it is subscribed to by that channel.                               *)
WhispersOwnStreams ==
    [][\A s \in Sessions :
           Whisper(s) => <<whispered'[2], whispered'[3]>> \in session[s].subs]_vars

(* Whoever goes on from a session that is at rest finds all that it has,   *)
(* and nothing else, unless a commit has failed; what the application told *)
(* with a refusal is not kept.                                             *)
Restored(x) == [ids |-> x.ids, channels |-> x.channels, subs |-> x.subs,
                istate |-> {e \in x.istate : e[1] \in x.channels}]
CacheIsCurrent ==
    \A s \in Sessions :
        session[s].resumable /\ session[s].phase = "served" /\ s \notin stale /\ pending[s] = Idle =>
            LET entry == cache[s] IN
            Restored(session[s]) =
                [ids |-> entry.ids, channels |-> entry.channels, subs |-> entry.subs,
                 istate |-> {e \in entry.istate : e[1] \in entry.channels}]
=============================================================================
