-------------------------------- MODULE Hub --------------------------------
(***************************************************************************)
(* hub/hub.go: which sessions this node has, what they are subscribed to   *)
(* and which user they belong to.  The same subscription is recorded twice *)
(* and under two locks: as a row of a gate, which broadcasts go by         *)
(* (Broadcasting.tla), and in the session's HubSessionInfo, which the      *)
(* removal of the session goes by.                                         *)
(*                                                                         *)
(* One step is what runs under one lock or is one channel operation.  For  *)
(* every session there are two goroutines: its reader, which calls into    *)
(* the hub for one command of node.go after another, and the one that      *)
(* disconnects it, which calls RemoveSession at any time, once             *)
(* (SessionWriter.tla).  Run and the pool execute remote disconnects.      *)
(*                                                                         *)
(* A HubSessionInfo's list of streams is a bag of stream-identifier pairs; *)
(* its order is never observed.                                            *)
(***************************************************************************)
EXTENDS Integers, Sequences

CONSTANTS
    Sessions, Streams, Idents,   \* sessions, streams, channel identifiers
    Users, UserOf,               \* connection identifiers, and each session's
    MaxCommands,                 \* bound: remote disconnects in one behaviour
    MaxReplies                   \* bound: command replies per session

ASSUME HubAssumption ==
    /\ UserOf \in [Sessions -> Users]
    /\ MaxCommands \in Nat /\ MaxReplies \in Nat

VARIABLES
    known,         \* the keys of h.sessions
    streams,       \* HubSessionInfo.streams: how often each pair is listed
    identifiers,   \* h.identifiers (an absent map is the empty set)
    gate,          \* <<session, stream, identifier>>: the gates' streams maps
    disconnect,    \* h.disconnect
    jobs,          \* scheduled remote disconnects: the user, and whether the
                   \* map that was looked up is still the one in h.identifiers
    connected,     \* Session.Connected
    closed,        \* Session.closed
    todo,          \* what each session's reader still has to run
    removal,       \* RemoveSession: "none", "unsubscribe", "delete" or "done"
    due,           \* history: sessions a pending remote disconnect may reach
    raced,         \* history: the reader used the hub during the removal
    commands, replies

index == <<known, streams, identifiers, gate>>
remote == <<disconnect, jobs, due, commands>>
session == <<connected, closed, todo, removal, raced, replies>>
vars == <<index, remote, session>>

Pairs == Streams \X Idents
NoStreams == [p \in Pairs |-> 0]

Init ==
    /\ known = {}
    /\ streams = [s \in Sessions |-> NoStreams]
    /\ identifiers = [u \in Users |-> {}]
    /\ gate = {}
    /\ disconnect = << >>
    /\ jobs = {}
    /\ connected = [s \in Sessions |-> FALSE]
    /\ closed = [s \in Sessions |-> FALSE]
    /\ todo = [s \in Sessions |-> << >>]
    /\ removal = [s \in Sessions |-> "none"]
    /\ due = [u \in Users |-> {}]
    /\ raced = [s \in Sessions |-> FALSE]
    /\ commands = 0
    /\ replies = [s \in Sessions |-> 0]

-----------------------------------------------------------------------------
(* What a session's reader runs: the calls of node.go, as steps.           *)

SubscribeSession(x, i) == << <<"subscribe", <<x, i>> >>, <<"addStream", <<x, i>> >> >>
UnsubscribeSession(x, i) == << <<"unsubscribe", <<x, i>> >>, <<"removeStream", <<x, i>> >> >>
UnsubscribeSessionFromChannel(i) == << <<"unsubscribeChannel", i>> >>

(* What a reply for channel i stops, and what it starts then.              *)
Stops(i) ==
    {<< >>, UnsubscribeSessionFromChannel(i)} \cup {UnsubscribeSession(x, i) : x \in Streams}
Starts(i) == {<< >>} \cup {SubscribeSession(x, i) : x \in Streams}

(* Node.Authenticated, or TryRestoreSession with a stream that it restores.*)
(* Both set Connected before they call AddSession.                         *)
Authenticated(s) ==
    /\ removal[s] = "none"
    /\ ~connected[s] /\ ~closed[s]
    /\ connected' = [connected EXCEPT ![s] = TRUE]
    /\ \E i \in Idents : \E restored \in Starts(i) :
          todo' = [todo EXCEPT ![s] = << <<"addSession">> >> \o restored]
    /\ UNCHANGED <<index, remote, closed, removal, raced, replies>>

(* handleCommandReply: the RPC has replied, and IsClosed was false then.   *)
HandleCommandReply(s) ==
    /\ connected[s] \/ removal[s] # "none"
    /\ todo[s] = << >>
    /\ ~closed[s]
    /\ replies[s] < MaxReplies
    /\ replies' = [replies EXCEPT ![s] = @ + 1]
    /\ \E i \in Idents : \E stopped \in Stops(i), started \in Starts(i) :
          /\ stopped \o started # << >>
          /\ todo' = [todo EXCEPT ![s] = stopped \o started]
    /\ raced' = [raced EXCEPT ![s] = @ \/ removal[s] # "none"]
    /\ UNCHANGED <<index, remote, connected, closed, removal>>

(* The reader of s is at step op, with argument arg; it moves on.          *)
At(s, op) == todo[s] # << >> /\ Head(todo[s])[1] = op
Arg(s) == Head(todo[s])[2]
Done(s) ==
    /\ todo' = [todo EXCEPT ![s] = Tail(@)]
    /\ UNCHANGED <<remote, connected, closed, removal, raced, replies>>

AddSession(s) ==
    /\ At(s, "addSession")
    /\ known' = known \cup {s}
    /\ streams' = [streams EXCEPT ![s] = NoStreams]
    /\ identifiers' = [identifiers EXCEPT ![UserOf[s]] = @ \cup {s}]
    /\ Done(s)
    /\ UNCHANGED gate

Row(s, p) == <<s, p[1], p[2]>>

Subscribe(s) ==
    /\ At(s, "subscribe")
    /\ gate' = gate \cup {Row(s, Arg(s))}
    /\ Done(s)
    /\ UNCHANGED <<known, streams, identifiers>>

(* The second half of SubscribeSession: a session the hub does not know    *)
(* (any more) gets a new HubSessionInfo.                                   *)
AddStream(s) ==
    /\ At(s, "addStream")
    /\ known' = known \cup {s}
    /\ streams' = [streams EXCEPT ![s][Arg(s)] = @ + 1]
    /\ Done(s)
    /\ UNCHANGED <<identifiers, gate>>

Unsubscribe(s) ==
    /\ At(s, "unsubscribe")
    /\ gate' = gate \ {Row(s, Arg(s))}
    /\ Done(s)
    /\ UNCHANGED <<known, streams, identifiers>>

RemoveStream(s) ==
    /\ At(s, "removeStream")
    /\ streams' = [streams EXCEPT ![s][Arg(s)] = IF @ > 0 THEN @ - 1 ELSE 0]
    /\ Done(s)
    /\ UNCHANGED <<known, identifiers, gate>>

(* The rows of s that its HubSessionInfo lists. *)
Listed(s) == {Row(s, p) : p \in {q \in Pairs : streams[s][q] > 0}}

UnsubscribeChannel(s) ==
    /\ At(s, "unsubscribeChannel")
    /\ gate' = gate \ {r \in Listed(s) : r[3] = Arg(s)}
    /\ streams' = [streams EXCEPT ![s] = [p \in Pairs |-> IF p[2] = Arg(s) THEN 0 ELSE @[p]]]
    /\ Done(s)
    /\ UNCHANGED <<known, identifiers>>

ReaderStep(s) ==
    \/ AddSession(s) \/ Subscribe(s) \/ AddStream(s)
    \/ Unsubscribe(s) \/ RemoveStream(s) \/ UnsubscribeChannel(s)

-----------------------------------------------------------------------------
(* The end of a session.  Session.Disconnect closes it before it tells the *)
(* node, disconnectNow after.                                              *)

Close(s) ==
    /\ ~closed[s]
    /\ closed' = [closed EXCEPT ![s] = TRUE]
    /\ UNCHANGED <<index, remote, connected, todo, removal, raced, replies>>

(* Faulty variant: the HubSessionInfo is deleted first, so that there is   *)
(* nothing left to unsubscribe by.                                         *)
RemoveSessionDeletesFirst(s) ==
    /\ connected[s]
    /\ connected' = [connected EXCEPT ![s] = FALSE]
    /\ removal' = [removal EXCEPT ![s] = IF s \in known THEN "delete" ELSE "done"]
    /\ raced' = [raced EXCEPT ![s] = todo[s] # << >>]
    /\ UNCHANGED <<index, remote, closed, todo, replies>>

(* disconnectFromNode, and RemoveSession up to its first unlock.           *)
RemoveSession(s) ==
    /\ connected[s]
    /\ connected' = [connected EXCEPT ![s] = FALSE]
    /\ removal' = [removal EXCEPT ![s] = IF s \in known THEN "unsubscribe" ELSE "done"]
    /\ raced' = [raced EXCEPT ![s] = todo[s] # << >>]
    /\ UNCHANGED <<index, remote, closed, todo, replies>>

unsubscribeSessionFromAllChannels(s) ==
    /\ removal[s] = "unsubscribe"
    /\ removal' = [removal EXCEPT ![s] = "delete"]
    /\ gate' = gate \ Listed(s)
    /\ UNCHANGED <<known, streams, identifiers, remote, connected, closed, todo, raced, replies>>

(* Faulty variant: a user's map is deleted with any of its entries.        *)
DeleteSessionAndUser(s) ==
    /\ removal[s] = "delete"
    /\ removal' = [removal EXCEPT ![s] = "done"]
    /\ known' = known \ {s}
    /\ streams' = [streams EXCEPT ![s] = NoStreams]
    /\ identifiers' = [identifiers EXCEPT ![UserOf[s]] = {}]
    /\ jobs' = {[user |-> j.user, live |-> j.live /\ j.user # UserOf[s]] : j \in jobs}
    /\ due' = [due EXCEPT ![UserOf[s]] = @ \ {s}]
    /\ UNCHANGED <<gate, disconnect, commands, connected, closed, todo, raced, replies>>

(* A user's map is deleted with its last entry: whoever still holds a      *)
(* reference to it will find it empty for ever.                            *)
DeleteSession(s) ==
    /\ removal[s] = "delete"
    /\ removal' = [removal EXCEPT ![s] = "done"]
    /\ known' = known \ {s}
    /\ streams' = [streams EXCEPT ![s] = NoStreams]
    /\ LET u == UserOf[s]
           left == identifiers[u] \ {s} IN
       /\ identifiers' = [identifiers EXCEPT ![u] = left]
       /\ jobs' = {[user |-> j.user, live |-> j.live /\ (j.user # u \/ left # {})] : j \in jobs}
       /\ due' = [due EXCEPT ![u] = @ \ {s}]
    /\ UNCHANGED <<gate, disconnect, commands, connected, closed, todo, raced, replies>>

-----------------------------------------------------------------------------
(* Remote disconnects.                                                     *)

Outstanding(u) ==
    u \in {disconnect[k] : k \in DOMAIN disconnect} \cup {j.user : j \in jobs}

RemoteDisconnect(u) ==
    /\ commands < MaxCommands
    /\ ~Outstanding(u)
    /\ commands' = commands + 1
    /\ disconnect' = Append(disconnect, u)
    /\ due' = [due EXCEPT ![u] = identifiers[u]]
    /\ UNCHANGED <<index, jobs, session>>

(* Run calls disconnectSessions, up to pool.Schedule.                      *)
RunDisconnect ==
    /\ disconnect # << >>
    /\ disconnect' = Tail(disconnect)
    /\ LET u == Head(disconnect) IN
       jobs' = IF identifiers[u] = {} THEN jobs ELSE jobs \cup {[user |-> u, live |-> TRUE]}
    /\ UNCHANGED <<index, due, commands, session>>

(* The scheduled function: it disconnects the first session it finds.      *)
disconnectSessions(j) ==
    /\ jobs' = jobs \ {j}
    /\ LET found == IF j.live THEN identifiers[j.user] \cap known ELSE {} IN
       \/ found = {} /\ UNCHANGED <<closed, due>>
       \/ \E s \in found :
             /\ closed' = [closed EXCEPT ![s] = TRUE]
             /\ due' = [due EXCEPT ![j.user] = {}]
    /\ UNCHANGED <<index, disconnect, commands, connected, todo, removal, raced, replies>>

-----------------------------------------------------------------------------

Next ==
    \/ \E s \in Sessions :
          \/ Authenticated(s) \/ HandleCommandReply(s) \/ ReaderStep(s)
          \/ Close(s) \/ RemoveSession(s)
          \/ unsubscribeSessionFromAllChannels(s) \/ DeleteSession(s)
    \/ \E u \in Users : RemoteDisconnect(u)
    \/ RunDisconnect
    \/ \E j \in jobs : disconnectSessions(j)

Spec == Init /\ [][Next]_vars

-----------------------------------------------------------------------------

Steps ==
    {<<"addSession">>}
        \cup ({"subscribe", "addStream", "unsubscribe", "removeStream"} \X Pairs)
        \cup ({"unsubscribeChannel"} \X Idents)

TypeOK ==
    /\ known \subseteq Sessions
    /\ streams \in [Sessions -> [Pairs -> Nat]]
    /\ identifiers \in [Users -> SUBSET Sessions]
    /\ gate \subseteq Sessions \X Streams \X Idents
    /\ disconnect \in Seq(Users)
    /\ jobs \subseteq [user : Users, live : BOOLEAN]
    /\ connected \in [Sessions -> BOOLEAN] /\ closed \in [Sessions -> BOOLEAN]
    /\ todo \in [Sessions -> Seq(Steps)]
    /\ removal \in [Sessions -> {"none", "unsubscribe", "delete", "done"}]
    /\ due \in [Users -> SUBSET Sessions]
    /\ raced \in [Sessions -> BOOLEAN]
    /\ commands \in Nat /\ replies \in [Sessions -> Nat]

(* A session whose reader was not inside the hub when it was removed, and  *)
(* did not come back, leaves nothing behind: no row of a gate, no          *)
(* HubSessionInfo and no entry among its user's sessions.  RemoveSession   *)
(* goes by the HubSessionInfo, so it rests on every row being listed.      *)
CleanRemoval ==
    \A s \in Sessions : removal[s] = "done" /\ ~raced[s] =>
        /\ s \notin known
        /\ s \notin identifiers[UserOf[s]]
        /\ \A r \in gate : r[1] # s

(* A remote disconnect hits a session of its user, unless all that were    *)
(* registered when it was sent have been removed meanwhile: the function   *)
(* that the pool runs later uses the map that Run looked up before.        *)
RemoteDisconnectHits == \A u \in Users : ~Outstanding(u) => due[u] = {}

(* A session that was disconnected and has nothing left to run gets no     *)
(* broadcasts: "Make sure session is removed from hub, so we don't try to  *)
(* send broadcast messages to them".                                       *)
RemovedGetsNoBroadcasts ==
    \A s \in Sessions : removal[s] = "done" /\ todo[s] = << >> => \A r \in gate : r[1] # s
=============================================================================
