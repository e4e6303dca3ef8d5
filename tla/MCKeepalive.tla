---------------------------- MODULE MCKeepalive ----------------------------
(***************************************************************************)
(* What keeps a connected client alive, and what expires without it: the   *)
(* timers of a session, the presence it keeps and its entry in the         *)
(* sessions cache.  The three share no state (a touch is one step of each) *)
(* and are explored one at a time, as part says.                           *)
(***************************************************************************)
EXTENDS SessionTimers

CONSTANTS
    Sessions, Streams, Pids, NoPid, Keepers, PresenceCommands,   \* Presence
    Cached, CacheTTL, CacheTime                                  \* SessionsCache

VARIABLES
    part,
    records, pids, left, conn, subscribed, keepTimer, cmd, leaving, view, joined, raced, asked,
    clock, cached, heap, priority, index, op, until, swept

presence == <<records, pids, left, conn, subscribed, keepTimer, cmd, leaving, view, joined,
              raced, asked>>
cache == <<clock, cached, heap, priority, index, op, until, swept>>

P == INSTANCE Presence WITH timer <- keepTimer, commands <- asked,
                            MaxCommands <- PresenceCommands
C == INSTANCE SessionsCache WITH now <- clock, Sessions <- Cached, SessionsTTL <- CacheTTL,
                                 MaxTime <- CacheTime

ASSUME MCPresenceAssumption == P!PresenceAssumption
ASSUME MCCacheAssumption == C!CacheAssumption

(* Each part starts from its own initial states, the others rest in one.   *)
MCInit ==
    /\ part \in {"timers", "presence", "cache"}
    /\ Init /\ P!Init /\ C!Init
    /\ part # "timers" => opts.kind = "pusher"

MCNext ==
    /\ UNCHANGED part
    /\ \/ part = "timers" /\ Next /\ UNCHANGED <<presence, cache>>
       \/ part = "presence" /\ P!Next /\ UNCHANGED <<vars, cache>>
       \/ part = "cache" /\ C!Next /\ UNCHANGED <<vars, presence>>

MCSpec == MCInit /\ [][MCNext]_<<part, vars, presence, cache>>

(* Protocol, native pings, pong timeout, handshake deadline: timeouts      *)
(* longer and shorter than the ping interval.                              *)
MCConfigs == { <<"ext", FALSE, 3, 0>>, <<"ext", FALSE, 1, 0>>,
               <<"base", TRUE, 3, 4>>, <<"pusher", FALSE, 3, 0>> }

(* Presence!StaysPresent: a keeper stays in the streams it joined.         *)
StaysPresent == P!StaysPresent

(* Presence!ViewsAgree: subscribers know who is present, races aside.      *)
ViewsAgree == P!ViewsAgree

(* SessionsCache!RestorableUntilDeadline: no session expires early or late.*)
RestorableUntilDeadline == C!RestorableUntilDeadline
=============================================================================
