----------------------------- MODULE MCStreams -----------------------------
(***************************************************************************)
(* A stream's history and its reader; the streams of a node's channels and *)
(* the pub/sub channels behind them.  The two share no state and are       *)
(* explored one at a time, as part says.                                   *)
(***************************************************************************)
EXTENDS ReliableStream, TLC

CONSTANTS
    Sessions, Streams, Idents, MaxCalls, MaxFailures, MaxRaces   \* NodeStreams

VARIABLES
    part,
    channels, listed, rows, cache, phase, call, todo, tracker, subscriptions, link, keys,
    subscribed, raced, held, overreleased, late, calls, failures

nodeStreams == <<channels, listed, rows, cache, phase, call, todo, tracker, subscriptions, link,
                 keys, subscribed, raced, held, overreleased, late, calls, failures>>

N == INSTANCE NodeStreams WITH server <- subscribed

ASSUME N!NodeStreamsAssumption

MCInit == part \in {"history", "streams"} /\ Init /\ N!Init

MCNext ==
    /\ UNCHANGED part
    /\ \/ part = "history" /\ Next /\ UNCHANGED nodeStreams
       \/ part = "streams" /\ N!Next /\ UNCHANGED vars

MCSpec == MCInit /\ [][MCNext]_<<part, vars, nodeStreams>>

MCSymmetry == Permutations(Sessions) \cup Permutations(Publishers)

-----------------------------------------------------------------------------
(* NodeStreams!Listening: the pub/sub subscription follows the sessions.   *)
Listening == N!Listening
=============================================================================
