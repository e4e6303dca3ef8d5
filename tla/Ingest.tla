------------------------------- MODULE Ingest -------------------------------
(***************************************************************************)
(* How publications come in and reach every node: requests to one node     *)
(* (broadcast/http.go, api/server.go, pusher/http.go), whose broker hands  *)
(* them to the pub/sub of all nodes (pubsub/nats.go), or fan-out           *)
(* broadcasters of every node (broadcast/legacy_redis.go, legacy_nats.go)  *)
(* that hand them to their own node only.  Meanwhile sessions come and go, *)
(* and the brokers (the legacy one of broker/broker.go, or one that may    *)
(* fail) subscribe to their streams.                                       *)
(*                                                                         *)
(* There is one stream, which is all that goroutines of one node contend   *)
(* for.  A publication is a message, a batch of two, a command or garbage. *)
(***************************************************************************)
EXTENDS Naturals, FiniteSets

CONSTANTS
    Nodes, Goroutines,   \* Goroutines: of each node, that use the broker
    Publications,
    MaxErrors,           \* bound: errors of the broker
    MaxUses              \* bound: subscriptions that are asked for

Sources == {"http", "api", "pusher", "fanout"}
Kinds == {"message", "batch", "command", "garbage"}

VARIABLES
    source, pubsub, fallible,   \* the configuration
    publication,   \* each one: [kind, node, next, status]
    wire,          \* copies on their way: [element, node, copy]
    delivered,     \* history: how often a node has broadcast an element
    tracker,       \* StreamsTracker: users of the stream, for each node
    mapped,        \* NATSSubscriber.subscriptions has the stream
    active,        \* subscriptions that the NATS server has for the node
    op,            \* what each goroutine of a node is doing
    doubled,       \* history: nodes where two Subscribe were under way at once
    errors, uses

config == <<source, pubsub, fallible>>
streams == <<tracker, mapped, active, op, doubled, uses>>
vars == <<config, publication, wire, delivered, streams, errors>>

(* PubSubMessageFromJSON: the elements that a publication has.             *)
Elements(p) ==
    CASE publication[p].kind = "batch" -> {<<p, 1>>, <<p, 2>>}
      [] publication[p].kind = "garbage" -> {}
      [] OTHER -> {<<p, 1>>}
AllElements == Publications \X {1, 2}

Init ==
    /\ source \in Sources /\ pubsub \in {"legacy", "nats"} /\ fallible \in BOOLEAN
    /\ publication \in [Publications ->
           {[kind |-> k, node |-> {}, next |-> 0, status |-> 0] : k \in Kinds}]
    /\ source = "pusher" =>
           \A p \in Publications : publication[p].kind \in {"message", "batch", "garbage"}
    /\ wire = {}
    /\ delivered = [n \in Nodes |-> [e \in AllElements |-> 0]]
    /\ tracker = [n \in Nodes |-> 0]
    /\ mapped = [n \in Nodes |-> FALSE] /\ active = [n \in Nodes |-> 0]
    /\ op = [n \in Nodes |-> [g \in Goroutines |-> "idle"]]
    /\ doubled = {}
    /\ errors = 0 /\ uses = 0

-----------------------------------------------------------------------------
(* The subscribers.                                                        *)

(* LegacySubscriber: the message is for this node.  NATSSubscriber: it is  *)
(* published to whoever is subscribed; a command, to every node.           *)
Copies(e, n, isCommand) ==
    IF pubsub = "legacy" THEN {[element |-> e, node |-> n, copy |-> 1]}
    ELSE {c \in [element : {e}, node : Nodes, copy : 1..2] :
             c.copy <= IF isCommand THEN 1 ELSE active[c.node]}

(* Node.Broadcast or ExecuteRemoteCommand, of what was received.           *)
handleMessage(c) ==
    /\ wire' = wire \ {c}
    /\ delivered' = [delivered EXCEPT ![c.node][c.element] = @ + 1]
    /\ UNCHANGED <<config, publication, streams, errors>>

-----------------------------------------------------------------------------
(* Publications.                                                           *)

Answer(p, status) == [publication EXCEPT ![p].status = status]

(* Requests, and what a server may be configured with.                     *)
Requests == [method : {"OPTIONS", "POST", "PUT"}, token : {"none", "good", "bad"},
             readable : BOOLEAN]
Gates == [cors : BOOLEAN, secret : BOOLEAN, secretBase : BOOLEAN]

(* HTTPBroadcaster.Prepare and the API's DeriveSecret: without a secret,   *)
(* one is derived from the application's.                                  *)
Prepare(gate) == gate.secret \/ gate.secretBase

Authenticate(gate, request) == ~Prepare(gate) \/ request.token = "good"

(* The status with which a request is refused, or 0 if it goes on to the   *)
(* node.  HTTPBroadcaster.Handler asks the same of it as the API.          *)
Handler(gate, request) ==
    IF gate.cors /\ request.method = "OPTIONS" THEN 200
    ELSE IF request.method # "POST" THEN 422
    ELSE IF ~Authenticate(gate, request) THEN 401
    ELSE IF ~request.readable THEN 422
    ELSE 0
PublishHandler(gate, request) == Handler(gate, request)

(* The Pusher API: there is always a secret.  A request without the        *)
(* parameters fails at its timestamp; the signature is over the body,      *)
(* which is read first.                                                    *)
RestAPI(gate, request, kind) ==
    IF gate.cors /\ request.method = "OPTIONS" THEN 200
    ELSE IF request.method # "POST" THEN 422
    ELSE IF request.token = "none" THEN 401
    ELSE IF ~request.readable THEN 422
    ELSE IF request.token = "bad" THEN 401
    ELSE IF kind = "garbage" THEN 422
    ELSE 0

Refusal(p, gate, request) ==
    CASE source = "http" -> Handler(gate, request)
      [] source = "api" -> PublishHandler(gate, request)
      [] source = "pusher" -> RestAPI(gate, request, publication[p].kind)

(* A request comes to some node.                                           *)
Request(p, n) ==
    /\ source # "fanout" /\ publication[p].node = {}
    /\ \E gate \in Gates, request \in Requests :
        publication' = [publication EXCEPT ![p].node = {n}, ![p].next = 1,
                                           ![p].status = Refusal(p, gate, request)]
    /\ UNCHANGED <<config, wire, delivered, streams, errors>>

(* Faulty variant: an element that fails is skipped.                       *)
HandleBroadcastSkips(p, n, fails) ==
    LET e == <<p, publication[p].next>> IN
    IF e \notin Elements(p)
    THEN publication' = Answer(p, IF source = "pusher" THEN 200 ELSE 201) /\ UNCHANGED wire
    ELSE /\ publication' = [publication EXCEPT ![p].next = @ + 1]
         /\ wire' = IF fails THEN wire ELSE wire \cup Copies(e, n, publication[p].kind = "command")

(* Node.HandleBroadcast with the broker's: one element after another; an   *)
(* error ends it.  What cannot be parsed is no error.  Pusher's            *)
(* handleEvents calls it for each channel, and ignores the errors.         *)
HandleBroadcast(p, n, fails) ==
    LET e == <<p, publication[p].next>> IN
    IF e \notin Elements(p)
    THEN publication' = Answer(p, IF source = "pusher" THEN 200 ELSE 201) /\ UNCHANGED wire
    ELSE IF fails
    THEN /\ publication' = IF source = "pusher" THEN [publication EXCEPT ![p].next = @ + 1]
                           ELSE Answer(p, 501)
         /\ UNCHANGED wire
    ELSE /\ publication' = [publication EXCEPT ![p].next = @ + 1]
         /\ wire' = wire \cup Copies(e, n, publication[p].kind = "command")

Handle(p) ==
    /\ source # "fanout" /\ publication[p].status = 0
    /\ \E n \in publication[p].node, fails \in BOOLEAN :
        /\ fails => fallible /\ errors < MaxErrors /\ publication[p].kind # "command"
        /\ HandleBroadcast(p, n, fails)
        /\ errors' = IF fails THEN errors + 1 ELSE errors
    /\ UNCHANGED <<config, delivered, streams>>

(* Faulty variant: through the broker, as a request.                       *)
HandlePubSubThroughBroker(p, n) ==
    wire' = wire \cup UNION {Copies(e, n, publication[p].kind = "command") : e \in Elements(p)}
               \cup {[element |-> e, node |-> n, copy |-> 3] : e \in Elements(p)}

(* Node.HandlePubSub: what a fan-out broadcaster received is for this node.*)
HandlePubSub(p, n) ==
    wire' = wire \cup {[element |-> e, node |-> n, copy |-> 1] : e \in Elements(p)}

(* Every node's broadcaster gets it, if it is connected.                   *)
Fanout(p, n) ==
    /\ source = "fanout" /\ n \notin publication[p].node
    /\ publication' = [publication EXCEPT ![p].node = @ \cup {n}]
    /\ HandlePubSub(p, n)
    /\ UNCHANGED <<config, delivered, streams, errors>>

-----------------------------------------------------------------------------
(* The broker's Subscribe and Unsubscribe: the tracker says who is first   *)
(* and who is last, and the subscriber is called after that.               *)

Does(n, g, what) == op' = [op EXCEPT ![n][g] = what]
KeepPublications == UNCHANGED <<config, publication, wire, delivered, errors>>
KeepSubscriptions == UNCHANGED <<mapped, active, doubled>>

Use(n, g) ==
    /\ op[n][g] = "idle" /\ uses < MaxUses /\ uses' = uses + 1
    /\ tracker' = [tracker EXCEPT ![n] = @ + 1]
    /\ Does(n, g, IF tracker[n] = 0 /\ pubsub = "nats" THEN "subscribe" ELSE "idle")
    /\ KeepSubscriptions /\ KeepPublications

Release(n, g) ==
    /\ op[n][g] = "idle" /\ tracker[n] > 0
    /\ tracker' = [tracker EXCEPT ![n] = @ - 1]
    /\ Does(n, g, IF tracker[n] = 1 /\ pubsub = "nats" THEN "unsubscribe" ELSE "idle")
    /\ UNCHANGED uses /\ KeepSubscriptions /\ KeepPublications

(* NATSSubscriber.Subscribe tests under the read lock, and subscribes      *)
(* under the write lock without a second test.                             *)
TestSubscribed(n, g) ==
    /\ op[n][g] = "subscribe"
    /\ Does(n, g, IF mapped[n] THEN "idle" ELSE "tested")
    /\ doubled' = IF ~mapped[n] /\ \E h \in Goroutines : op[n][h] = "tested"
                  THEN doubled \cup {n} ELSE doubled
    /\ UNCHANGED <<tracker, mapped, active, uses>> /\ KeepPublications

Subscribe(n, g) ==
    /\ op[n][g] = "tested"
    /\ mapped' = [mapped EXCEPT ![n] = TRUE]
    /\ active' = [active EXCEPT ![n] = @ + 1]
    /\ Does(n, g, "idle")
    /\ UNCHANGED <<tracker, doubled, uses>> /\ KeepPublications

Unsubscribe(n, g) ==
    /\ op[n][g] = "unsubscribe"
    /\ mapped' = [mapped EXCEPT ![n] = FALSE]
    /\ active' = [active EXCEPT ![n] = IF mapped[n] THEN @ - 1 ELSE @]
    /\ Does(n, g, "idle")
    /\ UNCHANGED <<tracker, doubled, uses>> /\ KeepPublications

Next ==
    \/ \E p \in Publications :
        Handle(p) \/ \E n \in Nodes : Request(p, n) \/ Fanout(p, n)
    \/ \E c \in wire : handleMessage(c)
    \/ \E n \in Nodes, g \in Goroutines :
        Use(n, g) \/ Release(n, g) \/ TestSubscribed(n, g) \/ Subscribe(n, g) \/ Unsubscribe(n, g)

Spec == Init /\ [][Next]_vars

-----------------------------------------------------------------------------
(* No node broadcasts a message twice, whichever way it came, but for a    *)
(* node that subscribed twice because two goroutines passed the test.      *)
EveryNodeOnce ==
    \A n \in Nodes, e \in AllElements : delivered[n][e] <= 1 \/ n \in doubled

(* The publisher's answer is true: 201 says that the broker has taken all  *)
(* of it, and an error that it has taken nothing, unless it was a batch.   *)
Sent(e) == (\E c \in wire : c.element = e) \/ \E n \in Nodes : delivered[n][e] > 0
AnswerIsTrue ==
    source \in {"http", "api"} /\ pubsub = "legacy" =>
        \A p \in Publications :
            /\ publication[p].status = 201 => \A e \in Elements(p) : Sent(e)
            /\ publication[p].status > 201 =>
                   publication[p].kind = "batch" \/ \A e \in Elements(p) : ~Sent(e)
=============================================================================
