------------------------------ MODULE Presence ------------------------------
(***************************************************************************)
(* Presence in the in-memory broker (broker/memory.go) and in the node     *)
(* (node/node.go): which presence ids are in a stream, under which         *)
(* sessions, until when.  The records change under one mutex; the event is *)
(* broadcast after it is released, by the session's reader or by the       *)
(* broker's expiration loop.  Subscribers build their view from events and *)
(* from the answers to their "presence" commands.                          *)
(*                                                                         *)
(* Channels are their presence streams.  A broadcast reaches all           *)
(* subscribers in one step.  Deadlines are kept as the time that is left,  *)
(* so nothing bounds the clock.  Sessions of the extended protocol and of  *)
(* Pusher (Keepers) have a timer that touches their presence.              *)
(***************************************************************************)
EXTENDS Integers, Sequences, FiniteSets

CONSTANTS
    Sessions, Streams, Pids, NoPid,
    Keepers,       \* sessions built WithKeepaliveIntervals
    PresenceTTL,
    MaxCommands    \* bound: commands of all sessions

(* NoPid stands for no id; a broker has finitely many streams and ids.     *)
PresenceAssumption ==
    /\ PresenceTTL \in Nat /\ MaxCommands \in Nat
    /\ NoPid \notin Pids /\ Keepers \subseteq Sessions
    /\ IsFiniteSet(Streams) /\ IsFiniteSet(Pids)

VARIABLES
    records,     \* presence.streams: sessions of each id of each stream
    pids,        \* presence.sessions: the id of each session in each stream
    left,        \* presence.sessions: time to the deadline, Expired if past
    conn,        \* each session: "new", "on" or "off"
    subscribed,  \* its channels
    timer,       \* time to its presenceDeadline
    cmd,         \* the command its reader performs, and how far it is
    leaving,     \* events the expiration loop has still to broadcast
    view,        \* history: the ids a subscriber takes for present
    joined,      \* history: what each session joined and did not leave
    raced,       \* history: ids of streams whose events were overtaken
    commands

store == <<records, pids, left>>
vars == <<store, conn, subscribed, timer, cmd, leaving, view, joined, raced, commands>>

Expired == -1
Idle == [op |-> "idle"]
Interval == PresenceTTL \div 2

Init ==
    /\ records = [st \in Streams |-> [p \in Pids |-> {}]]
    /\ pids = [s \in Sessions |-> [st \in Streams |-> NoPid]]
    /\ left = [s \in Sessions |-> Expired]
    /\ conn = [s \in Sessions |-> "new"]
    /\ subscribed = [s \in Sessions |-> {}]
    /\ timer = [s \in Sessions |-> 0]
    /\ cmd = [s \in Sessions |-> Idle]
    /\ leaving = <<>>
    /\ view = [s \in Sessions |-> [st \in Streams |-> {}]]
    /\ joined = [s \in Sessions |-> [st \in Streams |-> NoPid]]
    /\ raced = {} /\ commands = 0

Present(st) == {p \in Pids : records[st][p] # {}}
HasEntry(s) == \E st \in Streams : pids[s][st] # NoPid

----------------------------------------------------------------------------
(* Events.  A broadcast that finds another one pending for the same id has *)
(* overtaken it, or will be followed by it.                                *)

Event(type, st, p) == [type |-> type, stream |-> st, id |-> p]
Pending ==
    {cmd[s].ev : s \in {r \in Sessions : cmd[r].op = "broadcast"}}
    \cup {leaving[i] : i \in DOMAIN leaving}
Overtakes(ev) == \E other \in Pending : /\ other # ev
                                        /\ other.stream = ev.stream /\ other.id = ev.id
Answering(st) == \E s \in Sessions : cmd[s].op = "answer" /\ cmd[s].stream = st

HandleEvent(ev) ==
    /\ view' = [s \in Sessions |->
                   IF ev.stream \notin subscribed[s] THEN view[s]
                   ELSE [view[s] EXCEPT ![ev.stream] =
                            IF ev.type = "join" THEN @ \cup {ev.id} ELSE @ \ {ev.id}]]
    /\ raced' = IF Overtakes(ev) \/ Answering(ev.stream)
                THEN raced \cup {<<ev.stream, ev.id>>} ELSE raced

----------------------------------------------------------------------------
(* The broker *)

(* remove of a presenceEntry, for every record a session has in R.  An id  *)
(* without sessions is deleted.                                            *)
Without(s, R) == [st \in Streams |-> [p \in Pids |->
                     IF <<st, p>> \in R THEN records[st][p] \ {s} ELSE records[st][p]]]

PresenceAdd(s, st, p) ==
    /\ pids' = [pids EXCEPT ![s][st] = p]
    /\ left' = [left EXCEPT ![s] = IF HasEntry(s) THEN @ ELSE PresenceTTL]
    /\ records' = [records EXCEPT ![st][p] = @ \cup {s}]
    /\ joined' = [joined EXCEPT ![s][st] = p]
    /\ cmd' = [cmd EXCEPT ![s] = IF records[st][p] = {}
                                 THEN [op |-> "broadcast", ev |-> Event("join", st, p)]
                                 ELSE Idle]

(* Without an entry for the session or for the stream it is an error.      *)
PresenceRemove(s, st) ==
    LET p == pids[s][st] IN
    /\ joined' = [joined EXCEPT ![s][st] = NoPid]
    /\ IF p = NoPid
       THEN UNCHANGED store /\ cmd' = [cmd EXCEPT ![s] = Idle]
       ELSE /\ pids' = [pids EXCEPT ![s][st] = NoPid]
            /\ left' = [left EXCEPT ![s] =
                           IF \E other \in Streams \ {st} : pids[s][other] # NoPid
                           THEN @ ELSE Expired]
            /\ records' = Without(s, {<<st, p>>})
            /\ cmd' = [cmd EXCEPT ![s] = IF records[st][p] = {s}
                                         THEN [op |-> "broadcast", ev |-> Event("leave", st, p)]
                                         ELSE Idle]

(* Faulty variant: the deadline is set on a copy of the entry.             *)
TouchPresenceCopy(s) == UNCHANGED left

TouchPresence(s) == left' = [left EXCEPT ![s] = IF HasEntry(s) THEN PresenceTTL ELSE @]

(* expirePresence: every session whose deadline is past goes from all its  *)
(* streams.  The events follow in any order, since maps have none.         *)
Gone == {s \in Sessions : HasEntry(s) /\ left[s] = Expired}
GoneRecords(s) == {<<st, pids[s][st]>> : st \in {x \in Streams : pids[s][x] # NoPid}}

(* Faulty variant: ids that expire are forgotten without an event.         *)
NoLeaveEvents(remain) == {}

(* The events of an expiration, given the records that remain.             *)
LeaveEvents(remain) ==
    {Event("leave", r[1], r[2]) : r \in
        {x \in Streams \X Pids : records[x[1]][x[2]] # {} /\ remain[x[1]][x[2]] = {}}}

Orders(S) == {f \in [1..Cardinality(S) -> S] : {f[i] : i \in DOMAIN f} = S}

ExpirePresence ==
    /\ leaving = <<>> /\ Gone # {}
    /\ records' = [st \in Streams |-> [p \in Pids |->
                      {s \in records[st][p] : ~(s \in Gone /\ <<st, p>> \in GoneRecords(s))}]]
    /\ pids' = [s \in Sessions |-> IF s \in Gone THEN [st \in Streams |-> NoPid] ELSE pids[s]]
    /\ left' = [s \in Sessions |-> IF s \in Gone THEN Expired ELSE left[s]]
    /\ leaving' \in Orders(LeaveEvents(records'))
    /\ UNCHANGED <<conn, subscribed, timer, cmd, view, joined, raced, commands>>

BroadcastLeave ==
    /\ leaving # <<>>
    /\ HandleEvent(Head(leaving))
    /\ leaving' = Tail(leaving)
    /\ UNCHANGED <<store, conn, subscribed, timer, cmd, joined, commands>>

----------------------------------------------------------------------------
(* Sessions *)

Connect(s) ==
    /\ conn[s] = "new"
    /\ conn' = [conn EXCEPT ![s] = "on"]
    /\ timer' = [timer EXCEPT ![s] = Interval]
    /\ UNCHANGED <<store, subscribed, cmd, leaving, view, joined, raced, commands>>

(* HandleCommand reads a command: joining and leaving need the channel.    *)
(* Subscribe and Perform come to the same steps by the application's       *)
(* reply.                                                                  *)
Ops(s) ==
    {[op |-> "subscribe", stream |-> st] : st \in Streams \ subscribed[s]}
    \cup {[op |-> o, stream |-> st] : o \in {"unsubscribe", "presence", "leave"},
                                      st \in subscribed[s]}
    \cup {[op |-> "join", stream |-> st, id |-> p] : st \in subscribed[s], p \in Pids}

HandleCommand(s) ==
    /\ conn[s] = "on" /\ cmd[s] = Idle /\ commands < MaxCommands
    /\ \E c \in Ops(s) : cmd' = [cmd EXCEPT ![s] = c]
    /\ commands' = commands + 1
    /\ UNCHANGED <<store, conn, subscribed, timer, leaving, view, joined, raced>>

(* A subscriber starts with what the next answer will tell it.             *)
Subscribe(s) ==
    /\ cmd[s].op = "subscribe"
    /\ subscribed' = [subscribed EXCEPT ![s] = @ \cup {cmd[s].stream}]
    /\ cmd' = [cmd EXCEPT ![s] = [op |-> "presence", stream |-> cmd[s].stream]]
    /\ UNCHANGED <<store, conn, timer, leaving, view, joined, raced, commands>>

(* Unsubscribe forgets the channel and its state, and removes the presence *)
(* from the stream it had read there.                                      *)
Unsubscribe(s) ==
    /\ cmd[s].op = "unsubscribe"
    /\ subscribed' = [subscribed EXCEPT ![s] = @ \ {cmd[s].stream}]
    /\ cmd' = [cmd EXCEPT ![s] = [op |-> "leave", stream |-> cmd[s].stream]]
    /\ UNCHANGED <<store, conn, timer, leaving, view, joined, raced, commands>>

(* PresenceJoin: a session that has another id in the stream is refused.   *)
PresenceJoin(s) ==
    /\ cmd[s].op = "join"
    /\ IF pids[s][cmd[s].stream] \in {NoPid, cmd[s].id}
       THEN PresenceAdd(s, cmd[s].stream, cmd[s].id)
       ELSE cmd' = [cmd EXCEPT ![s] = Idle] /\ UNCHANGED <<store, joined>>
    /\ UNCHANGED <<conn, subscribed, timer, leaving, view, raced, commands>>

PresenceLeave(s) ==
    /\ cmd[s].op = "leave"
    /\ PresenceRemove(s, cmd[s].stream)
    /\ UNCHANGED <<conn, subscribed, timer, leaving, view, raced, commands>>

(* broadcastPresenceEvent, after the mutex was released.                   *)
BroadcastEvent(s) ==
    /\ cmd[s].op = "broadcast"
    /\ HandleEvent(cmd[s].ev)
    /\ cmd' = [cmd EXCEPT ![s] = Idle]
    /\ UNCHANGED <<store, conn, subscribed, timer, leaving, joined, commands>>

(* Presence: PresenceInfo is read under the mutex and sent later.          *)
PresenceInfo(s) ==
    /\ cmd[s].op = "presence"
    /\ cmd' = [cmd EXCEPT ![s] = [op |-> "answer", stream |-> cmd[s].stream,
                                  ids |-> Present(cmd[s].stream)]]
    /\ UNCHANGED <<store, conn, subscribed, timer, leaving, view, joined, raced, commands>>

Answer(s) ==
    /\ cmd[s].op = "answer"
    /\ cmd' = [cmd EXCEPT ![s] = Idle]
    /\ view' = IF conn[s] = "on" THEN [view EXCEPT ![s][cmd[s].stream] = cmd[s].ids] ELSE view
    /\ UNCHANGED <<store, conn, subscribed, timer, leaving, joined, raced, commands>>

(* The timer's event: TouchPresence and schedulePresence.                  *)
KeepPresence(s) ==
    /\ s \in Keepers /\ conn[s] = "on" /\ timer[s] = 0
    /\ TouchPresence(s)
    /\ timer' = [timer EXCEPT ![s] = Interval]
    /\ UNCHANGED <<records, pids, conn, subscribed, cmd, leaving, view, joined, raced, commands>>

(* Node.Disconnect touches the presence a last time, and leaves it.  The   *)
(* reader may be in the middle of a command.                               *)
Disconnect(s) ==
    /\ conn[s] = "on"
    /\ conn' = [conn EXCEPT ![s] = "off"]
    /\ TouchPresence(s)
    /\ UNCHANGED <<records, pids, subscribed, timer, cmd, leaving, view, joined, raced, commands>>

(* Timers are punctual; expiration is not.                                 *)
Advance ==
    /\ \A s \in Keepers : conn[s] = "on" => timer[s] > 0
    /\ timer' = [s \in Sessions |-> IF timer[s] > 0 THEN timer[s] - 1 ELSE 0]
    /\ left' = [s \in Sessions |-> IF left[s] > Expired THEN left[s] - 1 ELSE left[s]]
    /\ UNCHANGED <<records, pids, conn, subscribed, cmd, leaving, view, joined, raced, commands>>

Next ==
    \/ \E s \in Sessions :
          \/ Connect(s) \/ HandleCommand(s) \/ Subscribe(s) \/ Unsubscribe(s)
          \/ PresenceJoin(s) \/ PresenceLeave(s) \/ BroadcastEvent(s)
          \/ PresenceInfo(s) \/ Answer(s) \/ KeepPresence(s) \/ Disconnect(s)
    \/ ExpirePresence \/ BroadcastLeave
    \/ Advance

Spec == Init /\ [][Next]_vars

----------------------------------------------------------------------------
(* Properties *)

(* The types of the variables.                                             *)
TypeOK ==
    /\ records \in [Streams -> [Pids -> SUBSET Sessions]]
    /\ pids \in [Sessions -> [Streams -> Pids \cup {NoPid}]]
    /\ left \in [Sessions -> Expired..PresenceTTL]
    /\ conn \in [Sessions -> {"new", "on", "off"}]
    /\ subscribed \in [Sessions -> SUBSET Streams]

(* A session that keeps itself alive stays in the streams it joined: while *)
(* it is connected, whatever joins, leaves and expires around it.          *)
StaysPresent ==
    \A s \in Keepers, st \in Streams :
        conn[s] = "on" /\ joined[s][st] # NoPid => s \in records[st][joined[s][st]]

Quiet == leaving = <<>> /\ \A s \in Sessions : cmd[s].op \notin {"broadcast", "answer", "presence"}

(* When no event is under way, a subscriber that has asked knows who is    *)
(* present, except for ids whose events, or an answer, were overtaken.     *)
ViewsAgree ==
    Quiet => \A s \in Sessions, st \in Streams : conn[s] = "on" /\ st \in subscribed[s] =>
                \A p \in Pids : <<st, p>> \in raced \/ (p \in view[s][st] <=> p \in Present(st))
=============================================================================
