------------------------------ MODULE MCWrites ------------------------------
(***************************************************************************)
(* How frames are written: the ring buffer of a session's queue, the       *)
(* session that writes what is in it, the pool of goroutines.  They meet   *)
(* in the abstract queue of FifoQueue, which the first implements and the  *)
(* second uses, and are explored one at a time, as part says.              *)
(*                                                                         *)
(* Two items of different sizes and at most MaxLen of them queued are      *)
(* enough to double an InitCap = 1 slice three times and to halve it back  *)
(* with the head at every place.                                           *)
(***************************************************************************)
EXTENDS Queue, TLC

CONSTANTS
    small, large, MaxLen,
    Callers, MaxPending, MaxCalls, PeerMayStall,   \* SessionWriter
    Tasks, PoolSize, Threshold                     \* GoPool

VARIABLES
    part,
    pending, pendingSize, qclosed, waiter, limit, connected, ended, conn, peer, writer, frame,
    serving, todo, loaded, registered, unregistered, overflowed, calls,
    task, work, workers

session == <<pending, pendingSize, qclosed, waiter, limit, connected, ended, conn, peer, writer,
             frame, serving, todo, loaded, registered, unregistered, overflowed, calls>>
pool == <<task, work, workers>>

MCItems == {small, large}
MCItemSize == (small :> 1) @@ (large :> 2)

W == INSTANCE SessionWriter WITH closed <- ended
P == INSTANCE GoPool WITH Size <- PoolSize

ASSUME MCSessionAssumption == W!SessionAssumption

MCInit == part \in {"queue", "session", "pool"} /\ Init /\ W!Init /\ P!Init

MCNext ==
    /\ UNCHANGED part
    /\ \/ part = "queue" /\ Next /\ cnt' <= MaxLen /\ UNCHANGED <<session, pool>>
       \/ part = "session" /\ W!Next /\ UNCHANGED <<vars, pool>>
       \/ part = "pool" /\ P!Next /\ UNCHANGED <<vars, session>>

(* The fairness of the modules, each in its part.                          *)
MCFairness ==
    /\ \A t \in W!Threads : WF_session(part = "session" /\ W!Step(t))
    /\ WF_session(part = "session" /\ W!WriterWait)
    /\ WF_session(part = "session" /\ W!WriterWake)
    /\ WF_session(part = "session" /\ W!WriterRemove)
    /\ WF_session(part = "session" /\ W!WriterWrite)
    /\ WF_session(part = "session" /\ W!ReadFails)
    /\ \A t \in Tasks : WF_pool(part = "pool" /\ P!Selects(t))
    /\ \A w \in 1..PoolSize : WF_pool(part = "pool" /\ P!Worker(w))

MCSpec == MCInit /\ [][MCNext]_<<part, vars, session, pool>> /\ MCFairness

-----------------------------------------------------------------------------
(* SessionWriter!HandedOverOnce: a session is handed to Node.Disconnect    *)
(* once, and not forgotten.                                                *)
HandedOverOnce == W!HandedOverOnce

(* SessionWriter!WriterStops: the writer of a closed session ends.         *)
WriterStops == W!WriterStops

(* GoPool!TasksRun: a task is run while there is a worker.                 *)
TasksRun == P!TasksRun
=============================================================================
