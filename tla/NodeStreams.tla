---------------------------- MODULE NodeStreams ----------------------------
(***************************************************************************)
(* The streams a node listens to.  A client's subscription to a channel    *)
(* starts streams for it; each is counted by the broker's StreamsTracker   *)
(* (broker/broker.go), which subscribes the node to it in Redis            *)
(* (pubsub/redis.go) for the first and unsubscribes it for the last,       *)
(* added to the hub (Hub.tla; one step here) and listed in the session's   *)
(* SubscriptionState.  Disconnecting gives back what is listed, and a      *)
(* session that is restored from the cache takes it again.                 *)
(*                                                                         *)
(* One step is what runs under one lock, or one command to Redis.  Every   *)
(* session has two goroutines: its reader, which runs one command handler  *)
(* of node/node.go after another, each with an RPC in the middle, and the  *)
(* one that disconnects it, at any time.  todo holds what each still has   *)
(* to run.  Loops over Go maps go in any order.                            *)
(***************************************************************************)
EXTENDS Integers, Sequences, FiniteSets

CONSTANTS
    Sessions, Streams, Idents,   \* sessions, streams, channel identifiers
    MaxCalls,                    \* bound: commands
    MaxFailures,                 \* bound: losses of the Redis connection
    MaxRaces                     \* bound: sessions that leave in mid-command

(* What the constants are. *)
NodeStreamsAssumption ==
    MaxCalls \in Nat /\ MaxFailures \in Nat /\ MaxRaces \in Nat

Reader(s) == <<"reader", s>>
Leaver(s) == <<"leaver", s>>
Goroutines == {"reader", "leaver"} \X Sessions
Pairs == Streams \X Idents
Commands == {"subscribe", "unsubscribe", "perform"}

VARIABLES
    channels,        \* SubscriptionState: the channels of a session
    listed,          \* and their streams, as <<stream, identifier>>
    rows,            \* the hub: what each session gets broadcasts for
    cache,           \* b.sessions: what was committed, if anything
    phase,           \* each session: "new", "connected" or "gone"
    call,            \* the command whose RPC has not returned yet
    todo,            \* what each goroutine still has to run
    tracker,         \* StreamsTracker.store (0 is absent)
    subscriptions,   \* RedisSubscriber.subscriptions
    link,            \* psClient: "down", then "dedicated", "snapshot", "up"
    keys,            \* the snapshot that resubscribe works on
    server,          \* what Redis has this connection subscribed to
    raced,           \* sessions that left in the middle of a command
    held,            \* history: how often each session has taken a stream
    overreleased,    \* history: streams released by a session without them
    late,            \* history: streams unsubscribed while tracked again
    calls, failures

state == <<channels, listed, rows, cache>>
life == <<phase, call, raced, calls>>
pubsub == <<subscriptions, link, keys, server, failures>>
history == <<held, overreleased, late>>
vars == <<state, life, todo, tracker, pubsub, history>>

NoEntry == [cached |-> FALSE, channels |-> {}, listed |-> {}]
NoCall == <<"none">>

Init ==
    /\ channels = [s \in Sessions |-> {}]
    /\ listed = [s \in Sessions |-> {}]
    /\ rows = [s \in Sessions |-> {}]
    /\ cache = [s \in Sessions |-> NoEntry]
    /\ phase = [s \in Sessions |-> "new"]
    /\ call = [s \in Sessions |-> NoCall]
    /\ todo = [g \in Goroutines |-> << >>]
    /\ tracker = [x \in Streams |-> 0]
    /\ subscriptions = {}
    /\ link = "down"
    /\ keys = {}
    /\ server = {}
    /\ raced = {}
    /\ held = [s \in Sessions |-> [p \in Pairs |-> 0]]
    /\ overreleased = {} /\ late = {}
    /\ calls = 0 /\ failures = 0

-----------------------------------------------------------------------------
(* Commands.  The first half of a handler tests the channel and calls the  *)
(* RPC; the second half applies the result, unless the RPC failed or the   *)
(* session was closed meanwhile: both drop it, so closing is no step here. *)

Idle(s) == call[s] = NoCall /\ todo[Reader(s)] = << >>
HasChannel(s, i) == i \in channels[s]
StreamsFor(s, i) == {p \in listed[s] : p[2] = i}

(* The reader and the other goroutine of s are both at work.               *)
Races(s) ==
    /\ raced' = raced \cup {s}
    /\ Cardinality(raced') <= MaxRaces

Call(s, command, i) ==
    /\ phase[s] # "new"
    /\ Idle(s)
    /\ calls < MaxCalls
    /\ command = "subscribe" <=> ~HasChannel(s, i)
    /\ call' = [call EXCEPT ![s] = <<command, i>>]
    /\ calls' = calls + 1
    /\ IF phase[s] = "gone" THEN Races(s) ELSE UNCHANGED raced
    /\ UNCHANGED <<state, phase, todo, tracker, pubsub, history>>

(* The programs handleCommandReply runs: what it stops, and then starts.   *)
StopAll(i) == << <<"hubRemoveChannel", i>>, <<"clear", i>> >>
Stop(i, X) == IF X = {} THEN << >> ELSE << <<"stop", i, X>> >>
Start(i, X) == IF X = {} THEN << >> ELSE << <<"start", i, X>> >>
Replies(i) ==
    {stops \o Start(i, X) : stops \in {StopAll(i)} \cup {Stop(i, Y) : Y \in SUBSET Streams},
                            X \in SUBSET Streams}
Commit == << <<"commit">> >>

Returned(s) ==
    /\ call[s] # NoCall
    /\ call' = [call EXCEPT ![s] = NoCall]
    /\ UNCHANGED <<rows, cache, phase, raced, calls, tracker, pubsub, history>>

Run(s, program) == todo' = [todo EXCEPT ![Reader(s)] = program]

Dropped(s) ==
    /\ Returned(s)
    /\ UNCHANGED <<channels, listed, todo>>

Subscribed(s) ==
    /\ call[s][1] = "subscribe"
    /\ Returned(s)
    /\ LET i == call[s][2] IN
       /\ channels' = [channels EXCEPT ![s] = @ \cup {i}]
       /\ listed' = [listed EXCEPT ![s] = @ \ StreamsFor(s, i)]
       /\ \E reply \in Replies(i) : Run(s, reply \o Commit)

(* A rejection adds no channel, starts nothing and is not committed.       *)
Rejected(s) ==
    /\ call[s][1] = "subscribe"
    /\ Returned(s)
    /\ Run(s, StopAll(call[s][2]))
    /\ UNCHANGED <<channels, listed>>

Performed(s) ==
    /\ call[s][1] = "perform"
    /\ Returned(s)
    /\ \E reply \in Replies(call[s][2]) : Run(s, reply \o Commit)
    /\ UNCHANGED <<channels, listed>>

(* Unsubscribe removes the channel, and stops all its streams then.        *)
Unsubscribed(s) ==
    /\ call[s][1] = "unsubscribe"
    /\ Returned(s)
    /\ LET i == call[s][2] IN
       /\ channels' = [channels EXCEPT ![s] = @ \ {i}]
       /\ listed' = [listed EXCEPT ![s] = @ \ StreamsFor(s, i)]
       /\ Run(s, StopAll(i) \o Commit)

-----------------------------------------------------------------------------
(* Sessions come and go. *)

Authenticated(s) ==
    /\ phase[s] = "new"
    /\ phase' = [phase EXCEPT ![s] = "connected"]
    /\ Run(s, Commit)
    /\ UNCHANGED <<state, call, raced, calls, tracker, pubsub, history>>

(* TryRestoreSession: the cached channels of another session, whose        *)
(* streams are all taken again.  An expired entry is one nobody restores.  *)
TryRestoreSession(s, prev) ==
    /\ phase[s] = "new"
    /\ cache[prev].cached
    /\ phase' = [phase EXCEPT ![s] = "connected"]
    /\ channels' = [channels EXCEPT ![s] = cache[prev].channels]
    /\ listed' = [listed EXCEPT ![s] = cache[prev].listed]
    /\ Run(s, << <<"restore", cache[prev].listed>> >> \o Commit)
    /\ UNCHANGED <<rows, cache, call, raced, calls, tracker, pubsub, history>>

(* Node.Disconnect: unsubscribeSessionStreams takes a copy of the streams. *)
Disconnect(s) ==
    /\ phase[s] = "connected"
    /\ phase' = [phase EXCEPT ![s] = "gone"]
    /\ todo' = [todo EXCEPT ![Leaver(s)] = << <<"release", listed[s]>>, <<"removeSession">> >>]
    /\ IF Idle(s) THEN UNCHANGED raced ELSE Races(s)
    /\ UNCHANGED <<state, call, calls, tracker, pubsub, history>>

-----------------------------------------------------------------------------
(* The steps of the programs.                                              *)

At(g, op) == todo[g] # << >> /\ Head(todo[g])[1] = op
Arg(g) == Head(todo[g])[2]
Then(g, program) == todo' = [todo EXCEPT ![g] = program \o Tail(@)]

(* broker.Subscribe and broker.Unsubscribe, up to the tracker's unlock.    *)
TrackerAdd(s, p) ==
    /\ tracker' = [tracker EXCEPT ![p[1]] = @ + 1]
    /\ held' = [held EXCEPT ![s][p] = @ + 1]
    /\ UNCHANGED <<overreleased, late>>

TrackerRemove(s, p) ==
    /\ tracker' = [tracker EXCEPT ![p[1]] = IF @ = 0 THEN 0 ELSE @ - 1]
    /\ held' = [held EXCEPT ![s][p] = IF @ = 0 THEN 0 ELSE @ - 1]
    /\ overreleased' = IF held[s][p] = 0 THEN overreleased \cup {p[1]} ELSE overreleased
    /\ UNCHANGED late

IfNew(x) == IF tracker[x] = 0 THEN << <<"subscribe", x>>, <<"sendSubscribe", x>> >> ELSE << >>
IfLast(x) == IF tracker[x] = 1 THEN << <<"unsubscribe", x>> >> ELSE << >>

StartStream(g) ==
    /\ At(g, "start")
    /\ LET i == Arg(g) X == Head(todo[g])[3] IN
       \E x \in X :
          /\ TrackerAdd(g[2], <<x, i>>)
          /\ Then(g, IfNew(x) \o << <<"hubAdd", <<x, i>> >>, <<"list", <<x, i>> >> >>
                              \o Start(i, X \ {x}))
    /\ UNCHANGED <<state, life, pubsub>>

StopStream(g) ==
    /\ At(g, "stop")
    /\ LET i == Arg(g) X == Head(todo[g])[3] IN
       \E x \in X :
          /\ TrackerRemove(g[2], <<x, i>>)
          /\ Then(g, IfLast(x) \o << <<"hubRemove", <<x, i>> >>, <<"unlist", <<x, i>> >> >>
                               \o Stop(i, X \ {x}))
    /\ UNCHANGED <<state, life, pubsub>>

ReleaseStream(g) ==
    /\ At(g, "release")
    /\ \/ /\ Arg(g) = {}
          /\ Then(g, << >>)
          /\ UNCHANGED <<tracker, history>>
       \/ \E p \in Arg(g) :
             /\ TrackerRemove(g[2], p)
             /\ Then(g, IfLast(p[1]) \o << <<"release", Arg(g) \ {p}>> >>)
    /\ UNCHANGED <<state, life, pubsub>>

RestoreStream(g) ==
    /\ At(g, "restore")
    /\ \/ /\ Arg(g) = {}
          /\ Then(g, << >>)
          /\ UNCHANGED <<tracker, history>>
       \/ \E p \in Arg(g) :
             /\ TrackerAdd(g[2], p)
             /\ Then(g, IfNew(p[1]) \o << <<"hubAdd", p>>, <<"restore", Arg(g) \ {p}>> >>)
    /\ UNCHANGED <<state, life, pubsub>>

(* The hub. *)
HubStep(g) ==
    /\ LET s == g[2] IN
       \/ At(g, "hubAdd") /\ rows' = [rows EXCEPT ![s] = @ \cup {Arg(g)}]
       \/ At(g, "hubRemove") /\ rows' = [rows EXCEPT ![s] = @ \ {Arg(g)}]
       \/ At(g, "hubRemoveChannel") /\ rows' = [rows EXCEPT ![s] = {p \in @ : p[2] # Arg(g)}]
       \/ At(g, "removeSession") /\ rows' = [rows EXCEPT ![s] = {}]
    /\ Then(g, << >>)
    /\ UNCHANGED <<channels, listed, cache, life, tracker, pubsub, history>>

(* AddChannelStream and RemoveChannelStream do nothing without the channel.*)
AddChannelStream(g) ==
    /\ At(g, "list")
    /\ listed' = IF HasChannel(g[2], Arg(g)[2])
                 THEN [listed EXCEPT ![g[2]] = @ \cup {Arg(g)}] ELSE listed
    /\ Then(g, << >>)
    /\ UNCHANGED <<channels, rows, cache, life, tracker, pubsub, history>>

RemoveChannelStream(g) ==
    /\ At(g, "unlist")
    /\ listed' = [listed EXCEPT ![g[2]] = @ \ {Arg(g)}]
    /\ Then(g, << >>)
    /\ UNCHANGED <<channels, rows, cache, life, tracker, pubsub, history>>

(* RemoveChannelStreams, whose result is given back to the broker.         *)
RemoveChannelStreams(g) ==
    /\ At(g, "clear")
    /\ LET removed == StreamsFor(g[2], Arg(g)) IN
       /\ listed' = [listed EXCEPT ![g[2]] = @ \ removed]
       /\ Then(g, << <<"release", removed>> >>)
    /\ UNCHANGED <<channels, rows, cache, life, tracker, pubsub, history>>

(* CommitSession *)
CommitSession(g) ==
    /\ At(g, "commit")
    /\ LET s == g[2] IN
       cache' = [cache EXCEPT ![s] = [cached |-> TRUE,
                                      channels |-> channels[s], listed |-> listed[s]]]
    /\ Then(g, << >>)
    /\ UNCHANGED <<channels, listed, rows, life, tracker, pubsub, history>>

-----------------------------------------------------------------------------
(* RedisSubscriber.  The entry and the command to Redis are two steps.     *)

SubscribeEntry(g) ==
    /\ At(g, "subscribe")
    /\ subscriptions' = subscriptions \cup {Arg(g)}
    /\ Then(g, << >>)
    /\ UNCHANGED <<state, life, tracker, link, keys, server, failures, history>>

(* Faulty variant: the client is published after resubscribing with it.    *)
SendSubscribeWhenUp(g) ==
    /\ At(g, "sendSubscribe")
    /\ server' = IF link = "up" THEN server \cup {Arg(g)} ELSE server
    /\ Then(g, << >>)
    /\ UNCHANGED <<state, life, tracker, subscriptions, link, keys, failures, history>>

SendSubscribe(g) ==
    /\ At(g, "sendSubscribe")
    /\ server' = IF link = "down" THEN server ELSE server \cup {Arg(g)}
    /\ Then(g, << >>)
    /\ UNCHANGED <<state, life, tracker, subscriptions, link, keys, failures, history>>

IsLate(x) == late' = IF tracker[x] > 0 THEN late \cup {x} ELSE late

UnsubscribeEntry(g) ==
    /\ At(g, "unsubscribe")
    /\ subscriptions' = subscriptions \ {Arg(g)}
    /\ Then(g, IF Arg(g) \in subscriptions THEN << <<"sendUnsubscribe", Arg(g)>> >> ELSE << >>)
    /\ IsLate(Arg(g))
    /\ UNCHANGED <<state, life, tracker, link, keys, server, failures, held, overreleased>>

SendUnsubscribe(g) ==
    /\ At(g, "sendUnsubscribe")
    /\ server' = server \ {Arg(g)}
    /\ Then(g, << >>)
    /\ IsLate(Arg(g))
    /\ UNCHANGED <<state, life, tracker, subscriptions, link, keys, failures, held, overreleased>>

(* runPubSub: a new connection; resubscribe: the keys, and one command.    *)
Dedicate ==
    /\ link = "down"
    /\ link' = "dedicated"
    /\ UNCHANGED <<state, life, todo, tracker, subscriptions, keys, server, failures, history>>

ResubscribeKeys ==
    /\ link = "dedicated"
    /\ link' = "snapshot"
    /\ keys' = subscriptions
    /\ UNCHANGED <<state, life, todo, tracker, subscriptions, server, failures, history>>

BatchSubscribe ==
    /\ link = "snapshot"
    /\ link' = "up"
    /\ server' = server \cup keys
    /\ keys' = {}
    /\ UNCHANGED <<state, life, todo, tracker, subscriptions, failures, history>>

(* The connection breaks, and with it every subscription in Redis.         *)
ConnectionLost ==
    /\ link # "down"
    /\ failures < MaxFailures
    /\ failures' = failures + 1
    /\ link' = "down"
    /\ server' = {} /\ keys' = {}
    /\ UNCHANGED <<state, life, todo, tracker, subscriptions, history>>

-----------------------------------------------------------------------------

Step(g) ==
    \/ StartStream(g) \/ StopStream(g) \/ ReleaseStream(g) \/ RestoreStream(g)
    \/ HubStep(g) \/ AddChannelStream(g) \/ RemoveChannelStream(g) \/ RemoveChannelStreams(g)
    \/ CommitSession(g)
    \/ SubscribeEntry(g) \/ SendSubscribe(g) \/ UnsubscribeEntry(g) \/ SendUnsubscribe(g)

Reconnect == Dedicate \/ ResubscribeKeys \/ BatchSubscribe

Next ==
    \/ \E s \in Sessions :
          \/ \E i \in Idents, command \in Commands : Call(s, command, i)
          \/ Dropped(s) \/ Subscribed(s) \/ Rejected(s) \/ Performed(s) \/ Unsubscribed(s)
          \/ Authenticated(s) \/ Disconnect(s)
          \/ \E prev \in Sessions \ {s} : TryRestoreSession(s, prev)
    \/ \E g \in Goroutines : Step(g)
    \/ Reconnect \/ ConnectionLost

Spec == Init /\ [][Next]_vars

-----------------------------------------------------------------------------

(* The types of the variables.                                             *)
TypeOK ==
    /\ channels \in [Sessions -> SUBSET Idents]
    /\ listed \in [Sessions -> SUBSET Pairs] /\ rows \in [Sessions -> SUBSET Pairs]
    /\ cache \in [Sessions -> [cached : BOOLEAN, channels : SUBSET Idents, listed : SUBSET Pairs]]
    /\ phase \in [Sessions -> {"new", "connected", "gone"}]
    /\ \A s \in Sessions : call[s] = NoCall \/ call[s] \in Commands \X Idents
    /\ DOMAIN todo = Goroutines
    /\ tracker \in [Streams -> Nat]
    /\ subscriptions \subseteq Streams /\ keys \subseteq Streams /\ server \subseteq Streams
    /\ link \in {"down", "dedicated", "snapshot", "up"}
    /\ overreleased \subseteq Streams /\ late \subseteq Streams /\ raced \subseteq Sessions
    /\ held \in [Sessions -> [Pairs -> Nat]]

(* Nobody is in the middle of anything.                                    *)
Quiet ==
    /\ \A g \in Goroutines : todo[g] = << >>
    /\ link = "up"

(* A connected session that is subscribed to a stream gets what other      *)
(* nodes publish to it: this node is subscribed to it in Redis, after any  *)
(* reconnection too.  It can be deaf for two reasons only: a stream was    *)
(* released more often than taken, by a reply that stops a stream which    *)
(* the session does not have or by a disconnect in mid-command; or the     *)
(* unsubscription for the last session came after a subscription for a new *)
(* one.                                                                    *)
Listening ==
    Quiet =>
        \A s \in Sessions : phase[s] = "connected" =>
            \A p \in rows[s] : p[1] \in server \cup overreleased \cup late

(* A stream that no session has any more is released: "Make sure to remove *)
(* all streams subscriptions".                                             *)
UnusedIsReleased ==
    Quiet =>
        \A x \in Streams : (\A s \in Sessions : \A p \in rows[s] : p[1] # x) => tracker[x] = 0
=============================================================================
