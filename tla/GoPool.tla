------------------------------- MODULE GoPool -------------------------------
(***************************************************************************)
(* The pool of goroutines (utils/gopool.go) that the hub, the node and the *)
(* embedded parts give their tasks to: a channel of tasks, workers up to a *)
(* size, and a limit of tasks after which a worker ends.                   *)
(***************************************************************************)
EXTENDS Naturals, Sequences, FiniteSets

CONSTANTS
    Tasks,
    Size,         \* the most workers
    Threshold     \* workerRespawnThreshold

VARIABLES
    task,      \* each task: "new", "waiting" for room, "queued", "running", "ran"
    work,      \* the channel
    workers    \* each worker: [counter, task], task = {} when it takes the next

vars == <<task, work, workers>>

Ids == 1..Size
Queue == IF Size \div 2 > 1 THEN Size \div 2 ELSE 1
Spawn == IF Size \div 5 > 1 THEN Size \div 5 ELSE 1
NoWorker == [counter |-> 0, task |-> {}]

(* The first workers begin with a task that does nothing.                  *)
Init ==
    /\ task = [t \in Tasks |-> "new"]
    /\ work = << >>
    /\ workers = [w \in Ids |-> IF w <= Spawn THEN [counter |-> 1, task |-> {}] ELSE NoWorker]

Schedule(t) == task[t] = "new" /\ task' = [task EXCEPT ![t] = "waiting"] /\ UNCHANGED <<work, workers>>

(* The select of schedule: any case that is ready.                         *)
Enqueue(t) ==
    /\ task[t] = "waiting" /\ Len(work) < Queue
    /\ work' = Append(work, t)
    /\ task' = [task EXCEPT ![t] = "queued"]
    /\ UNCHANGED workers

Grow(t) ==
    /\ task[t] = "waiting"
    /\ \E w \in Ids :
        /\ workers[w] = NoWorker
        /\ workers' = [workers EXCEPT ![w] = [counter |-> 1, task |-> {t}]]
    /\ task' = [task EXCEPT ![t] = "running"]
    /\ UNCHANGED work

(* ScheduleTimeout gives up.                                               *)
Timeout(t) ==
    /\ task[t] = "waiting"
    /\ task' = [task EXCEPT ![t] = "refused"]
    /\ UNCHANGED <<work, workers>>

(* Faulty variant: the limit is tested before the task, which is dropped.  *)
TakeOrEnd(w) ==
    /\ workers[w].counter > 0 /\ workers[w].task = {} /\ work # << >>
    /\ work' = Tail(work)
    /\ IF workers[w].counter + 1 >= Threshold
       THEN workers' = [workers EXCEPT ![w] = NoWorker] /\ UNCHANGED task
       ELSE /\ workers' = [workers EXCEPT ![w] = [counter |-> @.counter + 1, task |-> {Head(work)}]]
            /\ task' = [task EXCEPT ![Head(work)] = "running"]

(* The worker.                                                             *)
Take(w) ==
    /\ workers[w].counter > 0 /\ workers[w].task = {} /\ work # << >>
    /\ workers' = [workers EXCEPT ![w] = [counter |-> @.counter + 1, task |-> {Head(work)}]]
    /\ task' = [task EXCEPT ![Head(work)] = "running"]
    /\ work' = Tail(work)

(* A task ends; the worker ends with it at the limit.  A worker's first    *)
(* task is not measured against it.                                        *)
Done(w) ==
    /\ workers[w].task # {}
    /\ task' = [t \in Tasks |-> IF t \in workers[w].task THEN "ran" ELSE task[t]]
    /\ workers' = [workers EXCEPT ![w] =
                      IF @.counter > 1 /\ @.counter >= Threshold THEN NoWorker
                      ELSE [@ EXCEPT !.task = {}]]
    /\ UNCHANGED work

Worker(w) == Take(w) \/ Done(w)
Selects(t) == Enqueue(t) \/ Grow(t)

Next ==
    \/ \E t \in Tasks : Schedule(t) \/ Selects(t) \/ Timeout(t)
    \/ \E w \in Ids : Worker(w)

(* Goroutines that can go on do; tasks end.                                *)
Spec ==
    /\ Init /\ [][Next]_vars
    /\ \A t \in Tasks : WF_vars(Selects(t))
    /\ \A w \in Ids : WF_vars(Worker(w))

-----------------------------------------------------------------------------
(* A task that was scheduled is run, unless all workers have reached their *)
(* limit: nothing starts a worker for what is left in the channel.         *)
Abandoned == work # << >> /\ \A w \in Ids : workers[w] = NoWorker
TasksRun == \A t \in Tasks : (task[t] = "waiting") ~> (task[t] \in {"ran", "refused"} \/ Abandoned)
=============================================================================
