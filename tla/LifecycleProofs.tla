-------------------------- MODULE LifecycleProofs --------------------------
(***************************************************************************)
(* How a node ends, for any number of sessions, tickets of the barrier,    *)
(* room in the disconnect queue, retries and commands; and how the process *)
(* around it ends, for any choice of optional parts, any number of clients,*)
(* messages, signals and failures.                                         *)
(***************************************************************************)
EXTENDS MCLifecycle, TLAPS

-----------------------------------------------------------------------------
(* NodeShutdown: the inductive invariant.                                  *)

Late == {"queue", "drain", "controller", "down"}
Closing == {"controller", "down"}

NodeTypes ==
    /\ phase \in [Sessions -> {"new", "connected", "left", "enqueue", "send", "calling", "gone"}]
    /\ rpc \in [Callers -> {"none", "acquire", "call", "retry"}]
    /\ about \in [Callers -> Sessions \cup {NoSession}]
    /\ queue \in Seq(Sessions)
    /\ mine \subseteq Sessions /\ accepted \subseteq Sessions

(* disconnectAll: a session whose task disconnects it, which happens only  *)
(* when IsShuttingDown is true, is called for and not queued; its task     *)
(* does not end before that.                                               *)
TaskOK(s) ==
    /\ s \in mine =>
          /\ stage # "running"
          /\ phase[s] \in {"left", "calling", "gone"}
          /\ phase[s] = "gone" => s \in returned
          /\ s \in tasks \/ phase[s] = "gone"

(* Run has the session in its hand, or Shutdown has.                       *)
RunHas(s) == run \in {"throttle", "call"} /\ about[Run] = s
MainHas(s) == rpc[Main] # "none" /\ about[Main] = s

(* A session that was queued in time is in the queue until it is called    *)
(* for, and no longer in it once the queue was emptied.                    *)
QueuedOK(s) ==
    s \in accepted =>
        \/ s \in returned \/ RunHas(s)
        \/ ~(stage \in Closing /\ ~expired)
           /\ (MainHas(s) \/ \E i \in DOMAIN queue : queue[i] = s)

StageOK ==
    /\ stage = "running" => tasks = {}
    /\ stage \in Late /\ ~expired => tasks = {}
    /\ stage \in {"drain", "controller", "down"} => stopped

FlushInvariant ==
    NodeTypes /\ StageOK /\ \A s \in Sessions : TaskOK(s) /\ QueuedOK(s)

(* The goroutines that call the RPC server are different.                  *)
LEMMA CallersDiffer ==
    /\ Run \in Callers /\ Main \in Callers /\ Run # Main
    /\ \A s \in Sessions : /\ Leaver(s) \in Callers /\ Leaver(s) # Run /\ Leaver(s) # Main
                           /\ Reader(s) \in Callers /\ Reader(s) # Run /\ Reader(s) # Main
PROOF
  BY DEF Callers, Run, Main, Leaver, Reader

(* Steps of the barrier, of a client and of a task leave alone who is to   *)
(* be called for.                                                          *)
LEMMA CallersStep ==
    ASSUME FlushInvariant, NEW c \in Callers, Controller(c)
    PROVE  FlushInvariant'
PROOF
  <1>1. /\ UNCHANGED <<phase, tasks, mine, about, returned, queue, stopped, run, accepted, stage, expired>>
        /\ rpc[c] \in {"acquire", "call", "retry"}
        /\ \E p \in {"call", "retry"} : rpc' = [rpc EXCEPT ![c] = p]
    BY DEF Controller, Acquire, RetryLater, Retry, disconnector, node
  <1>2. NodeTypes'
    BY <1>1 DEF FlushInvariant, NodeTypes
  <1>3. rpc[Main] # "none" => rpc'[Main] # "none"
    BY <1>1, CallersDiffer DEF FlushInvariant, NodeTypes
  <1>4. StageOK'
    BY <1>1 DEF FlushInvariant, StageOK
  <1>5. ASSUME NEW s \in Sessions PROVE TaskOK(s)' /\ QueuedOK(s)'
    BY <1>1, <1>3 DEF FlushInvariant, TaskOK, QueuedOK, RunHas, MainHas
  <1> QED
    BY <1>2, <1>4, <1>5 DEF FlushInvariant

(* A step that does not touch the queue, Run and Shutdown.                 *)
LEMMA QueueKept ==
    ASSUME FlushInvariant, UNCHANGED <<queue, run, accepted, stage, expired>>,
           returned \subseteq returned', about'[Run] = about[Run],
           about'[Main] = about[Main], rpc'[Main] = rpc[Main],
           NEW s \in Sessions
    PROVE  QueuedOK(s)'
PROOF
  BY DEF FlushInvariant, QueuedOK, RunHas, MainHas

(* A session connects, runs a command, leaves or is queued.                *)
LEMMA SessionStep ==
    ASSUME FlushInvariant, NEW t \in Sessions,
           Connect(t) \/ Command(t) \/ CommandEnds(t) \/ Leave(t) \/ Enqueue(t)
    PROVE  FlushInvariant'
PROOF
  <1>1. /\ UNCHANGED <<tasks, mine, returned, queue, stopped, run, accepted, stage, expired>>
        /\ \/ UNCHANGED <<rpc, about>>
           \/ /\ rpc' \in {[rpc EXCEPT ![Reader(t)] = "acquire"], [rpc EXCEPT ![Reader(t)] = "none"]}
              /\ about' \in {[about EXCEPT ![Reader(t)] = t], [about EXCEPT ![Reader(t)] = NoSession]}
        /\ \/ UNCHANGED phase
           \/ /\ phase[t] \in {"new", "connected", "enqueue"}
              /\ \E p \in {"connected", "left", "send", "gone"} : phase' = [phase EXCEPT ![t] = p]
    BY DEF Connect, Command, CommandEnds, Leave, Enqueue, Is, Goes, Release, calls, disconnector, node
  <1>2. /\ about'[Run] = about[Run] /\ about'[Main] = about[Main] /\ rpc'[Main] = rpc[Main]
    BY <1>1, CallersDiffer DEF FlushInvariant, NodeTypes
  <1>3. NodeTypes'
    <2>1. rpc' \in [Callers -> {"none", "acquire", "call", "retry"}]
      BY <1>1 DEF FlushInvariant, NodeTypes
    <2>2. about' \in [Callers -> Sessions \cup {NoSession}]
      BY <1>1 DEF FlushInvariant, NodeTypes
    <2>3. phase' \in [Sessions -> {"new", "connected", "left", "enqueue", "send", "calling", "gone"}]
      BY <1>1 DEF FlushInvariant, NodeTypes
    <2> QED
      BY <1>1, <2>1, <2>2, <2>3 DEF FlushInvariant, NodeTypes
  <1>4. StageOK'
    BY <1>1 DEF FlushInvariant, StageOK
  <1>5. ASSUME NEW s \in Sessions PROVE TaskOK(s)'
    <2>1. TaskOK(s) /\ TaskOK(t)
      BY DEF FlushInvariant
    <2>2. s \in mine => phase'[s] = phase[s]
      BY <1>1, <2>1 DEF FlushInvariant, NodeTypes, TaskOK
    <2> QED
      BY <1>1, <2>1, <2>2 DEF TaskOK
  <1>6. ASSUME NEW s \in Sessions PROVE QueuedOK(s)'
    BY <1>1, <1>2, QueueKept
  <1> QED
    BY <1>3, <1>4, <1>5, <1>6 DEF FlushInvariant

(* A session calls Disconnect of the RPC server.                           *)
LEMMA DisconnectStep ==
    ASSUME FlushInvariant, NEW t \in Sessions, Disconnect(t) \/ DisconnectEnds(t)
    PROVE  FlushInvariant'
PROOF
  <1>1. /\ UNCHANGED <<tasks, mine, queue, stopped, run, accepted, stage, expired>>
        /\ returned' \in {returned, returned \cup {t}}
        /\ \/ UNCHANGED <<rpc, about>>
           \/ /\ rpc' \in {[rpc EXCEPT ![Leaver(t)] = "acquire"], [rpc EXCEPT ![Leaver(t)] = "none"]}
              /\ about' \in {[about EXCEPT ![Leaver(t)] = t], [about EXCEPT ![Leaver(t)] = NoSession]}
        /\ \/ stage = "running" /\ phase[t] = "left" /\ phase' = [phase EXCEPT ![t] = "enqueue"]
           \/ phase[t] = "left" /\ phase' = [phase EXCEPT ![t] = "calling"]
           \/ /\ phase[t] = "calling" /\ phase' = [phase EXCEPT ![t] = "gone"]
              /\ returned' = returned \cup {t}
    BY DEF Disconnect, DisconnectEnds, DisconnectNow, Begin, Is, Goes, Release, calls, disconnector, node
  <1>2. /\ about'[Run] = about[Run] /\ about'[Main] = about[Main] /\ rpc'[Main] = rpc[Main]
    BY <1>1, CallersDiffer DEF FlushInvariant, NodeTypes
  <1>3. NodeTypes'
    <2>1. rpc' \in [Callers -> {"none", "acquire", "call", "retry"}]
      BY <1>1 DEF FlushInvariant, NodeTypes
    <2>2. about' \in [Callers -> Sessions \cup {NoSession}]
      BY <1>1 DEF FlushInvariant, NodeTypes
    <2>3. phase' \in [Sessions -> {"new", "connected", "left", "enqueue", "send", "calling", "gone"}]
      BY <1>1 DEF FlushInvariant, NodeTypes
    <2> QED
      BY <1>1, <2>1, <2>2, <2>3 DEF FlushInvariant, NodeTypes
  <1>4. StageOK'
    BY <1>1 DEF FlushInvariant, StageOK
  <1>5. ASSUME NEW s \in Sessions PROVE TaskOK(s)'
    <2>1. TaskOK(s) /\ TaskOK(t)
      BY DEF FlushInvariant
    <2>2. CASE s # t
      <3>1. phase'[s] = phase[s]
        BY <1>1, <2>2 DEF FlushInvariant, NodeTypes
      <3> QED
        BY <1>1, <2>1, <3>1 DEF TaskOK
    <2>3. CASE s = t
      BY <1>1, <2>1, <2>3 DEF TaskOK, FlushInvariant, NodeTypes
    <2> QED
      BY <2>2, <2>3
  <1>6. ASSUME NEW s \in Sessions PROVE QueuedOK(s)'
    BY <1>1, <1>2, QueueKept
  <1> QED
    BY <1>3, <1>4, <1>5, <1>6 DEF FlushInvariant

(* A session that is queued in time, before the queue was stopped.         *)
LEMMA SendStep ==
    ASSUME FlushInvariant, NEW t \in Sessions, Send(t)
    PROVE  FlushInvariant'
PROOF
  <1>1. /\ UNCHANGED <<tasks, mine, rpc, about, returned, stopped, run, stage, expired>>
        /\ queue' = Append(queue, t)
        /\ accepted' = IF stopped THEN accepted ELSE accepted \cup {t}
        /\ phase[t] = "send" /\ phase' = [phase EXCEPT ![t] = "gone"]
    BY DEF Send, Is, Goes, calls, node
  <1>2. queue \in Seq(Sessions)
    BY DEF FlushInvariant, NodeTypes
  <1>3. NodeTypes'
    BY <1>1 DEF FlushInvariant, NodeTypes
  <1>4. StageOK'
    BY <1>1 DEF FlushInvariant, StageOK
  <1>5. ASSUME NEW s \in Sessions PROVE TaskOK(s)'
    <2>1. TaskOK(s) /\ TaskOK(t)
      BY DEF FlushInvariant
    <2>2. s \in mine => phase'[s] = phase[s]
      BY <1>1, <2>1 DEF FlushInvariant, NodeTypes, TaskOK
    <2> QED
      BY <1>1, <2>1, <2>2 DEF TaskOK
  <1>6. ASSUME NEW s \in Sessions PROVE QueuedOK(s)'
    <2>1. /\ DOMAIN queue = 1 .. Len(queue) /\ DOMAIN queue' = 1 .. Len(queue) + 1
          /\ Len(queue) \in Nat /\ queue'[Len(queue) + 1] = t
          /\ \A i \in 1 .. Len(queue) : queue'[i] = queue[i]
      BY <1>1, <1>2
    <2>2. CASE s \in accepted
      <3>1. QueuedOK(s)
        BY DEF FlushInvariant
      <3>2. (\E i \in DOMAIN queue : queue[i] = s) => \E i \in DOMAIN queue' : queue'[i] = s
        BY <2>1
      <3> QED
        BY <1>1, <2>2, <3>1, <3>2 DEF QueuedOK, RunHas, MainHas
    <2>3. CASE s \notin accepted /\ s \in accepted'
      <3>1. s = t /\ ~stopped
        BY <1>1, <2>3
      <3>2. stage \notin Closing
        BY <3>1 DEF FlushInvariant, StageOK, Closing
      <3>3. \E i \in DOMAIN queue' : queue'[i] = s
        BY <2>1, <3>1
      <3> QED
        BY <1>1, <3>2, <3>3 DEF QueuedOK
    <2>4. CASE s \notin accepted'
      BY <2>4 DEF QueuedOK
    <2> QED
      BY <2>2, <2>3, <2>4
  <1> QED
    BY <1>3, <1>4, <1>5, <1>6 DEF FlushInvariant

(* A task of the shutdown disconnects a session.                           *)
LEMMA TaskStep ==
    ASSUME FlushInvariant, NEW t \in Sessions, Task(t)
    PROVE  FlushInvariant'
PROOF
  <1>1. UNCHANGED <<rpc, about, returned, queue, stopped, run, accepted, stage, expired>>
    BY DEF Task, TaskSkipped, TaskDisconnects, TaskEnds, calls, disconnector, node
  <1>2. \/ t \notin mine /\ tasks' = tasks \ {t} /\ UNCHANGED <<phase, mine>>
        \/ phase[t] = "gone" /\ tasks' = tasks \ {t} /\ UNCHANGED <<phase, mine>>
        \/ /\ t \in tasks /\ ~expired /\ UNCHANGED tasks
           /\ phase' = [phase EXCEPT ![t] = "left"] /\ mine' = mine \cup {t}
           /\ t \notin mine
    BY DEF Task, TaskSkipped, TaskDisconnects, TaskEnds, Is, Goes
  <1>3. NodeTypes'
    BY <1>1, <1>2 DEF FlushInvariant, NodeTypes
  <1>4. StageOK'
    BY <1>1, <1>2 DEF FlushInvariant, StageOK
  <1>5. ASSUME NEW s \in Sessions PROVE TaskOK(s)'
    <2>1. TaskOK(s)
      BY DEF FlushInvariant
    <2>2. CASE UNCHANGED <<phase, mine>>
      BY <1>1, <1>2, <2>1, <2>2 DEF TaskOK
    <2>3. CASE /\ t \in tasks /\ UNCHANGED tasks /\ t \notin mine
               /\ phase' = [phase EXCEPT ![t] = "left"] /\ mine' = mine \cup {t}
      <3>1. s # t => phase'[s] = phase[s]
        BY <2>3 DEF FlushInvariant, NodeTypes
      <3>2. phase'[t] = "left"
        BY <2>3 DEF FlushInvariant, NodeTypes
      <3>3. stage # "running"
        BY <2>3 DEF FlushInvariant, StageOK
      <3> QED
        BY <1>1, <2>1, <2>3, <3>1, <3>2, <3>3 DEF TaskOK
    <2> QED
      BY <1>2, <2>2, <2>3
  <1>6. ASSUME NEW s \in Sessions PROVE QueuedOK(s)'
    BY <1>1, QueueKept
  <1> QED
    BY <1>3, <1>4, <1>5, <1>6 DEF FlushInvariant

(* What is in a channel is its head or is still in it.                     *)
LEMMA Taken ==
    ASSUME NEW q \in Seq(Sessions), q # << >>, NEW i \in DOMAIN q
    PROVE  q[i] = Head(q) \/ \E j \in DOMAIN Tail(q) : Tail(q)[j] = q[i]
PROOF
  <1>1. /\ DOMAIN q = 1 .. Len(q) /\ Len(q) \in Nat /\ Head(q) = q[1]
        /\ Tail(q) \in Seq(Sessions) /\ Len(Tail(q)) = Len(q) - 1
        /\ \A j \in 1 .. Len(q) - 1 : Tail(q)[j] = q[j + 1]
    OBVIOUS
  <1>2. DOMAIN Tail(q) = 1 .. Len(q) - 1
    BY <1>1
  <1>3. CASE i = 1
    BY <1>1, <1>3
  <1>4. CASE i # 1
    <2>1. i - 1 \in 1 .. Len(q) - 1 /\ (i - 1) + 1 = i
      BY <1>1, <1>4
    <2> QED
      BY <1>1, <1>2, <2>1
  <1> QED
    BY <1>3, <1>4

(* DisconnectQueue.Run.                                                    *)
LEMMA ExecutorStep ==
    ASSUME FlushInvariant, Executor
    PROVE  FlushInvariant'
PROOF
  <1>1. UNCHANGED <<phase, tasks, mine, stopped, accepted, stage, expired>>
    BY DEF Executor, Receive, Throttled, RunCalled, RunEnds, node
  <1>2. \/ /\ run = "select" /\ run' = "throttle" /\ queue # << >> /\ queue' = Tail(queue)
           /\ about' = [about EXCEPT ![Run] = Head(queue)]
           /\ UNCHANGED <<rpc, returned>>
        \/ /\ run = "throttle" /\ run' = "call" /\ UNCHANGED <<queue, returned>>
           /\ about' = [about EXCEPT ![Run] = about[Run]]
           /\ rpc' = [rpc EXCEPT ![Run] = "acquire"]
        \/ /\ run = "call" /\ run' = "select" /\ UNCHANGED queue
           /\ about' = [about EXCEPT ![Run] = NoSession]
           /\ rpc' = [rpc EXCEPT ![Run] = "none"]
           /\ returned' = returned \cup {about[Run]}
        \/ /\ run = "select" /\ run' = "ended" /\ UNCHANGED <<queue, rpc, about, returned>>
    BY DEF Executor, Receive, Throttled, RunCalled, RunEnds, DisconnectNow, Begin, Release, calls
  <1>3. queue \in Seq(Sessions) /\ about[Run] \in Sessions \cup {NoSession}
    BY CallersDiffer DEF FlushInvariant, NodeTypes
  <1>4. queue # << >> => Head(queue) \in Sessions /\ Tail(queue) \in Seq(Sessions)
    BY <1>3
  <1>5. NodeTypes'
    <2>1. rpc' \in [Callers -> {"none", "acquire", "call", "retry"}]
      BY <1>2 DEF FlushInvariant, NodeTypes
    <2>2. about' \in [Callers -> Sessions \cup {NoSession}]
      BY <1>2, <1>3, <1>4 DEF FlushInvariant, NodeTypes
    <2>3. queue' \in Seq(Sessions)
      BY <1>2, <1>3, <1>4
    <2> QED
      BY <1>1, <2>1, <2>2, <2>3 DEF FlushInvariant, NodeTypes
  <1>6. about'[Main] = about[Main] /\ rpc'[Main] = rpc[Main]
    BY <1>2, CallersDiffer DEF FlushInvariant, NodeTypes
  <1>7. StageOK'
    BY <1>1 DEF FlushInvariant, StageOK
  <1>8. ASSUME NEW s \in Sessions PROVE TaskOK(s)'
    BY <1>1, <1>2 DEF FlushInvariant, TaskOK
  <1>9. ASSUME NEW s \in Sessions PROVE QueuedOK(s)'
    <2>1. QueuedOK(s)
      BY DEF FlushInvariant
    <2>2. CASE /\ run = "select" /\ run' = "throttle" /\ queue # << >> /\ queue' = Tail(queue)
               /\ about' = [about EXCEPT ![Run] = Head(queue)]
               /\ UNCHANGED <<rpc, returned>>
      <3>1. about'[Run] = Head(queue)
        BY <2>2, CallersDiffer DEF FlushInvariant, NodeTypes
      <3>2. (\E i \in DOMAIN queue : queue[i] = s) =>
              s = Head(queue) \/ \E i \in DOMAIN queue' : queue'[i] = s
        BY <1>3, <2>2, Taken
      <3> QED
        BY <1>1, <1>6, <2>1, <2>2, <3>1, <3>2 DEF QueuedOK, RunHas, MainHas
    <2>3. CASE /\ run = "throttle" /\ run' = "call" /\ UNCHANGED <<queue, returned>>
               /\ about' = [about EXCEPT ![Run] = about[Run]]
      <3>1. about'[Run] = about[Run]
        BY <2>3, CallersDiffer DEF FlushInvariant, NodeTypes
      <3> QED
        BY <1>1, <1>6, <2>1, <2>3, <3>1 DEF QueuedOK, RunHas, MainHas
    <2>4. CASE /\ run = "call" /\ run' = "select" /\ UNCHANGED queue
               /\ returned' = returned \cup {about[Run]}
      BY <1>1, <1>6, <2>1, <2>4 DEF QueuedOK, RunHas, MainHas
    <2>5. CASE run = "select" /\ run' = "ended" /\ UNCHANGED <<queue, rpc, about, returned>>
      BY <1>1, <1>6, <2>1, <2>5 DEF QueuedOK, RunHas, MainHas
    <2> QED
      BY <1>2, <2>2, <2>3, <2>4, <2>5
  <1> QED
    BY <1>5, <1>7, <1>8, <1>9 DEF FlushInvariant

(* Node.Shutdown, but for the sessions that it takes from the queue.       *)
LEMMA StageStep ==
    ASSUME FlushInvariant,
           Shutdown \/ SessionsEnd \/ StopQueue \/ DrainEnds \/ CloseController \/ Expire
    PROVE  FlushInvariant'
PROOF
  <1>1. UNCHANGED <<phase, mine, rpc, about, returned, queue, run, accepted>>
    BY DEF Shutdown, SessionsEnd, StopQueue, DrainEnds, CloseController, Expire, calls, disconnector
  <1>2. \/ stage = "running" /\ stage' = "sessions" /\ UNCHANGED <<expired, stopped>>
        \/ stage = "sessions" /\ stage' = "queue" /\ (tasks = {} \/ expired)
           /\ UNCHANGED <<tasks, expired, stopped>>
        \/ stage = "queue" /\ stage' = "drain" /\ stopped' /\ UNCHANGED <<tasks, expired>>
        \/ stage = "drain" /\ stage' = "controller" /\ rpc[Main] = "none"
           /\ (queue = << >> \/ expired) /\ UNCHANGED <<tasks, expired, stopped>>
        \/ stage = "controller" /\ stage' = "down" /\ UNCHANGED <<tasks, expired, stopped>>
        \/ stage' = stage /\ expired' /\ UNCHANGED <<tasks, stopped>>
    BY DEF Shutdown, SessionsEnd, StopQueue, DrainEnds, CloseController, Expire, disconnector
  <1>3. NodeTypes'
    BY <1>1 DEF FlushInvariant, NodeTypes
  <1>4. StageOK'
    BY <1>2 DEF FlushInvariant, StageOK, Late
  <1>5. ASSUME NEW s \in Sessions PROVE TaskOK(s)'
    <2>1. TaskOK(s)
      BY DEF FlushInvariant
    <2> QED
      BY <1>1, <1>2, <2>1 DEF TaskOK
  <1>6. ASSUME NEW s \in Sessions PROVE QueuedOK(s)'
    <2>1. QueuedOK(s)
      BY DEF FlushInvariant
    <2>2. stage' \in Closing /\ ~expired' =>
            \/ stage \in Closing /\ ~expired
            \/ ~MainHas(s) /\ ~\E i \in DOMAIN queue : queue[i] = s
      BY <1>2 DEF Closing, MainHas
    <2> QED
      BY <1>1, <2>1, <2>2 DEF QueuedOK, RunHas, MainHas
  <1> QED
    BY <1>3, <1>4, <1>5, <1>6 DEF FlushInvariant

(* The disconnect queue is drained.                                        *)
LEMMA DrainStep ==
    ASSUME FlushInvariant, Drain \/ DrainCalled
    PROVE  FlushInvariant'
PROOF
  <1>1. UNCHANGED <<phase, tasks, mine, stopped, run, accepted, stage, expired>>
    BY DEF Drain, DrainCalled, node, disconnector
  <1>2. \/ /\ rpc[Main] = "none" /\ stage = "drain" /\ queue # << >> /\ queue' = Tail(queue)
           /\ about' = [about EXCEPT ![Main] = Head(queue)]
           /\ rpc' = [rpc EXCEPT ![Main] = "acquire"] /\ UNCHANGED returned
        \/ /\ UNCHANGED queue
           /\ about' = [about EXCEPT ![Main] = NoSession]
           /\ rpc' = [rpc EXCEPT ![Main] = "none"]
           /\ returned' = returned \cup {about[Main]}
    BY DEF Drain, DrainCalled, DisconnectNow, Begin, Release, disconnector
  <1>3. queue \in Seq(Sessions) /\ about[Main] \in Sessions \cup {NoSession}
    BY CallersDiffer DEF FlushInvariant, NodeTypes
  <1>4. queue # << >> => Head(queue) \in Sessions /\ Tail(queue) \in Seq(Sessions)
    BY <1>3
  <1>5. NodeTypes'
    <2>1. rpc' \in [Callers -> {"none", "acquire", "call", "retry"}]
      BY <1>2 DEF FlushInvariant, NodeTypes
    <2>2. about' \in [Callers -> Sessions \cup {NoSession}]
      BY <1>2, <1>3, <1>4 DEF FlushInvariant, NodeTypes
    <2>3. queue' \in Seq(Sessions)
      BY <1>2, <1>3, <1>4
    <2> QED
      BY <1>1, <2>1, <2>2, <2>3 DEF FlushInvariant, NodeTypes
  <1>6. about'[Run] = about[Run]
    BY <1>2, CallersDiffer DEF FlushInvariant, NodeTypes
  <1>7. StageOK'
    BY <1>1 DEF FlushInvariant, StageOK
  <1>8. ASSUME NEW s \in Sessions PROVE TaskOK(s)'
    BY <1>1, <1>2 DEF FlushInvariant, TaskOK
  <1>9. ASSUME NEW s \in Sessions PROVE QueuedOK(s)'
    <2>1. QueuedOK(s)
      BY DEF FlushInvariant
    <2>2. CASE /\ rpc[Main] = "none" /\ stage = "drain" /\ queue # << >> /\ queue' = Tail(queue)
               /\ about' = [about EXCEPT ![Main] = Head(queue)]
               /\ rpc' = [rpc EXCEPT ![Main] = "acquire"] /\ UNCHANGED returned
      <3>1. about'[Main] = Head(queue) /\ rpc'[Main] = "acquire"
        BY <2>2, CallersDiffer DEF FlushInvariant, NodeTypes
      <3>2. (\E i \in DOMAIN queue : queue[i] = s) =>
              s = Head(queue) \/ \E i \in DOMAIN queue' : queue'[i] = s
        BY <1>3, <2>2, Taken
      <3>3. stage \notin Closing
        BY <2>2 DEF Closing
      <3> QED
        BY <1>1, <1>6, <2>1, <2>2, <3>1, <3>2, <3>3 DEF QueuedOK, RunHas, MainHas
    <2>3. CASE UNCHANGED queue /\ returned' = returned \cup {about[Main]}
      BY <1>1, <1>6, <2>1, <2>3 DEF QueuedOK, RunHas, MainHas
    <2> QED
      BY <1>2, <2>2, <2>3
  <1> QED
    BY <1>5, <1>7, <1>8, <1>9 DEF FlushInvariant

(* Every step of the node keeps the invariant.                             *)
LEMMA NodeStep == FlushInvariant /\ [Next]_vars => FlushInvariant'
PROOF
  <1> SUFFICES ASSUME FlushInvariant, [Next]_vars PROVE FlushInvariant'
    OBVIOUS
  <1>1. CASE \E c \in Callers : Controller(c)
    BY <1>1, CallersStep
  <1>2. CASE \E s \in Sessions : Connect(s) \/ Command(s) \/ Leave(s) \/ Session(s) \/ Task(s)
    BY <1>2, SessionStep, DisconnectStep, SendStep, TaskStep DEF Session
  <1>3. CASE Executor
    BY <1>3, ExecutorStep
  <1>4. CASE Shutdown \/ ShutdownStep \/ Expire
    BY <1>4, StageStep, DrainStep DEF ShutdownStep
  <1>5. CASE UNCHANGED vars
    BY <1>5 DEF vars, calls, disconnector, node, FlushInvariant, NodeTypes, StageOK, TaskOK,
                QueuedOK, RunHas, MainHas
  <1> QED
    BY <1>1, <1>2, <1>3, <1>4, <1>5 DEF Next

(* For any number of sessions, tickets, retries and commands, and any      *)
(* backlog: a shutdown that is not out of time has called for every        *)
(* session that it disconnected and every one that was queued in time,     *)
(* before it closes the controller, but for the one in Run's hand.         *)
THEOREM ShutdownFlushes == MCSpec => []Flushed
PROOF
  <1>1. MCInit => FlushInvariant
    <2> SUFFICES ASSUME Init PROVE FlushInvariant
      BY DEF MCInit
    <2>1. NodeTypes
      BY DEF Init, NodeTypes
    <2>2. StageOK /\ \A s \in Sessions : TaskOK(s) /\ QueuedOK(s)
      BY DEF Init, StageOK, TaskOK, QueuedOK, Late
    <2> QED
      BY <2>1, <2>2 DEF FlushInvariant
  <1>2. FlushInvariant /\ [MCNext]_all => FlushInvariant'
    BY NodeStep DEF MCNext, all
  <1>3. FlushInvariant => Flushed
    BY DEF FlushInvariant, NodeTypes, StageOK, TaskOK, QueuedOK, RunHas, MainHas, Late, Closing,
           Flushed, InHand
  <1> QED
    BY <1>1, <1>2, <1>3, PTL DEF MCSpec

-----------------------------------------------------------------------------
(* Lifecycle: the inductive invariant.                                     *)

Names == {"newController", "enats", "metrics", "tracker", "node", "subscriber", "broker",
          "broadcaster", "controller", "pusher", "api", "ws", "sleeper"}
Steps == [do : {"start", "append", "prepend"}, part : Names]
Flags == BOOLEAN
Requests == [at : {"none", "accepted", "refused", "lost", "published"},
             by : {"none"} \cup L!Servers, hurried : Flags]

ProcessTypes ==
    /\ todo \in Seq(Steps) /\ shutdownables \in Seq(Names) /\ handlers \in Seq(Names)
    /\ message \in [Messages -> Requests] /\ done \in Flags

Listed(a, q) == \E i \in DOMAIN q : q[i] = a

(* Every b of the list has an a before it.                                 *)
Order(q, a, b) == \A i \in DOMAIN q : q[i] = b => \E j \in 1 .. (i - 1) : q[j] = a

(* What Run has started and listed so far, and what is left.               *)
StartOrder ==
    /\ "broadcaster" \in up => "subscriber" \in up
    /\ "subscriber" \in up \/ Order(todo, L!Start("subscriber"), L!Start("broadcaster"))
ListOrder ==
    /\ Listed("broadcaster", shutdownables)
       \/ Order(todo, L!Add("broadcaster"), L!Add("subscriber"))
    /\ ~Listed(L!AddFirst("subscriber"), todo)
    /\ Order(shutdownables, "broadcaster", "subscriber")

Held(m) == message[m].at = "accepted" /\ message[m].by = "broadcaster"

(* The broadcasters accept nothing any more, and have published what they  *)
(* had accepted, if there was time.                                        *)
Drained ==
    /\ L!ForPort("broadcaster") \in closed
    /\ done \/ \A m \in Messages : ~Held(m)

(* The handlers that are left.                                             *)
ShutdownOrder ==
    /\ todo = << >>
    /\ Drained \/ Order(handlers, "broadcaster", "subscriber")
    /\ "broadcaster" \in up => "subscriber" \in up \/ Drained
    /\ handling /\ L!Current \in L!Servers => L!ForPort(L!Current) \in closed

StartInvariant ==
    /\ ProcessTypes
    /\ ListOrder
    /\ IF executed THEN ShutdownOrder ELSE StartOrder /\ ~handling
    /\ \A m \in Messages : Held(m) => "broadcaster" \in up
    /\ BroadcastsSurvive

-----------------------------------------------------------------------------
(* Lists. *)

(* An a before every b of a list is in its rest, or is its first.          *)
LEMMA OrderOfTail ==
    ASSUME NEW S, NEW q \in Seq(S), q # << >>, NEW a, NEW b, Order(q, a, b)
    PROVE  Head(q) # b /\ (Head(q) = a \/ Order(Tail(q), a, b))
PROOF
  <1>1. /\ DOMAIN q = 1 .. Len(q) /\ Len(q) \in Nat \ {0} /\ Head(q) = q[1]
        /\ Tail(q) \in Seq(S) /\ Len(Tail(q)) = Len(q) - 1
        /\ \A j \in 1 .. Len(q) - 1 : Tail(q)[j] = q[j + 1]
    OBVIOUS
  <1>2. Head(q) # b
    BY <1>1 DEF Order
  <1>3. ASSUME Head(q) # a, NEW i \in 1 .. Len(q) - 1, Tail(q)[i] = b
        PROVE  \E j \in 1 .. (i - 1) : Tail(q)[j] = a
    <2>1. i + 1 \in 1 .. Len(q) /\ q[i + 1] = b
      BY <1>1, <1>3
    <2>2. PICK j \in 1 .. i : q[j] = a
      BY <1>1, <2>1 DEF Order
    <2>3. j # 1
      BY <1>1, <1>3, <2>2
    <2>4. j - 1 \in 1 .. (i - 1) /\ j - 1 \in 1 .. Len(q) - 1 /\ (j - 1) + 1 = j
      BY <1>1, <2>3
    <2> QED
      BY <1>1, <2>2, <2>4
  <1>4. DOMAIN Tail(q) = 1 .. Len(q) - 1
    BY <1>1
  <1> QED
    BY <1>2, <1>3, <1>4 DEF Order

(* An a before every b, in two lists one after the other.                  *)
LEMMA OrderOfConcat ==
    ASSUME NEW S, NEW p \in Seq(S), NEW q \in Seq(S), NEW a, NEW b, Order(p, a, b),
           Listed(a, p) \/ Order(q, a, b)
    PROVE  Order(p \o q, a, b)
PROOF
  <1>1. /\ DOMAIN p = 1 .. Len(p) /\ Len(p) \in Nat /\ DOMAIN q = 1 .. Len(q) /\ Len(q) \in Nat
        /\ DOMAIN (p \o q) = 1 .. Len(p) + Len(q)
        /\ \A i \in 1 .. Len(p) : (p \o q)[i] = p[i]
        /\ \A i \in 1 .. Len(q) : (p \o q)[Len(p) + i] = q[i]
    OBVIOUS
  <1>2. PICK r : r = p \o q
    OBVIOUS
  <1>3. ASSUME NEW i \in 1 .. Len(p) + Len(q), r[i] = b
        PROVE  \E j \in 1 .. (i - 1) : r[j] = a
    <2>1. CASE i <= Len(p)
      <3>1. i \in 1 .. Len(p) /\ p[i] = b
        BY <1>1, <1>2, <1>3, <2>1
      <3>2. PICK j \in 1 .. (i - 1) : p[j] = a
        BY <1>1, <3>1 DEF Order
      <3>3. j \in 1 .. Len(p)
        BY <1>1, <3>1
      <3> QED
        BY <1>1, <1>2, <3>2, <3>3
    <2>2. CASE i > Len(p) /\ Listed(a, p)
      <3>1. PICK j \in 1 .. Len(p) : p[j] = a
        BY <1>1, <2>2 DEF Listed
      <3>2. j \in 1 .. (i - 1)
        BY <1>1, <2>2
      <3> QED
        BY <1>1, <1>2, <3>1, <3>2
    <2>3. CASE i > Len(p) /\ Order(q, a, b)
      <3>1. PICK k \in 1 .. Len(q) : i = Len(p) + k
        <4>1. i - Len(p) \in 1 .. Len(q) /\ i = Len(p) + (i - Len(p))
          BY <1>1, <2>3
        <4> QED
          BY <4>1
      <3>2. q[k] = b
        BY <1>1, <1>2, <1>3, <3>1
      <3>3. PICK j \in 1 .. (k - 1) : q[j] = a
        BY <1>1, <2>3, <3>2 DEF Order
      <3>4. j \in 1 .. Len(q) /\ Len(p) + j \in 1 .. (i - 1)
        BY <1>1, <3>1
      <3>5. r[Len(p) + j] = a
        BY <1>1, <1>2, <3>3, <3>4
      <3> QED
        BY <3>4, <3>5
    <2> QED
      BY <1>1, <2>1, <2>2, <2>3
  <1> QED
    BY <1>1, <1>2, <1>3 DEF Order

(* Two lists one after the other have the names of both.                   *)
LEMMA ListedInConcat ==
    ASSUME NEW S, NEW p \in Seq(S), NEW q \in Seq(S), NEW a
    PROVE  Listed(a, p \o q) <=> Listed(a, p) \/ Listed(a, q)
PROOF
  <1>1. /\ DOMAIN p = 1 .. Len(p) /\ Len(p) \in Nat /\ DOMAIN q = 1 .. Len(q) /\ Len(q) \in Nat
        /\ DOMAIN (p \o q) = 1 .. Len(p) + Len(q)
        /\ \A i \in 1 .. Len(p) : (p \o q)[i] = p[i]
        /\ \A i \in 1 .. Len(q) : (p \o q)[Len(p) + i] = q[i]
    OBVIOUS
  <1>2. \A i \in 1 .. Len(p) + Len(q) : i \in 1 .. Len(p) \/ \E k \in 1 .. Len(q) : i = Len(p) + k
    <2> TAKE i \in 1 .. Len(p) + Len(q)
    <2>1. CASE i <= Len(p)
      BY <1>1, <2>1
    <2>2. CASE i > Len(p)
      <3>1. i - Len(p) \in 1 .. Len(q) /\ i = Len(p) + (i - Len(p))
        BY <1>1, <2>2
      <3> QED
        BY <3>1
    <2> QED
      BY <1>1, <2>1, <2>2
  <1>3. /\ \A i \in 1 .. Len(p) : i \in 1 .. Len(p) + Len(q)
        /\ \A i \in 1 .. Len(q) : Len(p) + i \in 1 .. Len(p) + Len(q)
    BY <1>1
  <1>4. PICK r : r = p \o q
    OBVIOUS
  <1>5. ASSUME NEW i \in 1 .. Len(p) + Len(q), r[i] = a
        PROVE  Listed(a, p) \/ Listed(a, q)
    <2>1. CASE i \in 1 .. Len(p)
      BY <1>1, <1>4, <1>5, <2>1 DEF Listed
    <2>2. ASSUME NEW k \in 1 .. Len(q), i = Len(p) + k PROVE Listed(a, q)
      BY <1>1, <1>4, <1>5, <2>2 DEF Listed
    <2> QED
      BY <1>2, <2>1, <2>2
  <1>6. ASSUME NEW i \in 1 .. Len(p), p[i] = a PROVE Listed(a, r)
    BY <1>1, <1>3, <1>4, <1>6 DEF Listed
  <1>7. ASSUME NEW i \in 1 .. Len(q), q[i] = a PROVE Listed(a, r)
    BY <1>1, <1>3, <1>4, <1>7 DEF Listed
  <1> QED
    BY <1>1, <1>4, <1>5, <1>6, <1>7 DEF Listed

(* An a before every b, where there is no b.                               *)
LEMMA OrderIfAbsent ==
    ASSUME NEW q, NEW a, NEW b, ~Listed(b, q)
    PROVE  Order(q, a, b)
PROOF
  BY DEF Order, Listed

(* A name is the first of a list or in the rest.                           *)
LEMMA ListedInTail ==
    ASSUME NEW S, NEW q \in Seq(S), q # << >>, NEW a
    PROVE  Listed(a, q) <=> Head(q) = a \/ Listed(a, Tail(q))
PROOF
  <1>1. /\ DOMAIN q = 1 .. Len(q) /\ Len(q) \in Nat \ {0} /\ Head(q) = q[1]
        /\ Tail(q) \in Seq(S) /\ Len(Tail(q)) = Len(q) - 1
        /\ \A j \in 1 .. Len(q) - 1 : Tail(q)[j] = q[j + 1]
    OBVIOUS
  <1>2. DOMAIN Tail(q) = 1 .. Len(q) - 1
    BY <1>1
  <1>3. \A i \in 1 .. Len(q) : i = 1 \/ (i - 1 \in 1 .. Len(q) - 1 /\ (i - 1) + 1 = i)
    BY <1>1
  <1>4. 1 \in 1 .. Len(q) /\ \A j \in 1 .. Len(q) - 1 : j + 1 \in 1 .. Len(q)
    BY <1>1
  <1>5. ASSUME NEW i \in 1 .. Len(q), q[i] = a PROVE Head(q) = a \/ Listed(a, Tail(q))
    BY <1>1, <1>2, <1>3, <1>5 DEF Listed
  <1>6. ASSUME NEW j \in 1 .. Len(q) - 1, Tail(q)[j] = a PROVE Listed(a, q)
    BY <1>1, <1>4, <1>6 DEF Listed
  <1>7. Head(q) = a => Listed(a, q)
    BY <1>1, <1>4 DEF Listed
  <1> QED
    BY <1>1, <1>2, <1>5, <1>6, <1>7 DEF Listed

-----------------------------------------------------------------------------
(* Run. *)

(* A step of Run is told by what it does and to which part.                *)
LEMMA StepIs ==
    ASSUME NEW step \in Steps, NEW n
    PROVE  /\ step = L!Start(n) <=> step.do = "start" /\ step.part = n
           /\ step = L!Add(n) <=> step.do = "append" /\ step.part = n
           /\ step = L!AddFirst(n) <=> step.do = "prepend" /\ step.part = n
PROOF
  BY DEF Steps, L!Start, L!Add, L!AddFirst

(* A list of one name.                                                     *)
LEMMA OneIs ==
    ASSUME NEW x, NEW a
    PROVE  Listed(a, <<x>>) <=> x = a
PROOF
  BY DEF Listed

(* A name is added to either end of the list of shutdownables.             *)
LEMMA ListGrows ==
    ASSUME NEW q \in Seq(Names), NEW x \in Names,
           Order(q, "broadcaster", "subscriber")
    PROVE  /\ Append(q, x) \in Seq(Names) /\ <<x>> \o q \in Seq(Names)
           /\ Listed("broadcaster", Append(q, x)) <=> Listed("broadcaster", q) \/ x = "broadcaster"
           /\ Listed("broadcaster", <<x>> \o q) <=> Listed("broadcaster", q) \/ x = "broadcaster"
           /\ x # "subscriber" \/ Listed("broadcaster", q) =>
                 Order(Append(q, x), "broadcaster", "subscriber")
           /\ x # "subscriber" => Order(<<x>> \o q, "broadcaster", "subscriber")
PROOF
  <1>1. PICK one \in Seq(Names) : one = <<x>>
    <2>1. <<x>> \in Seq(Names)
      OBVIOUS
    <2> QED
      BY <2>1
  <1>2. Append(q, x) = q \o one
    BY <1>1
  <1>3. Listed("broadcaster", one) <=> x = "broadcaster"
    BY <1>1, OneIs
  <1>4. x # "subscriber" => Order(one, "broadcaster", "subscriber")
    BY <1>1, OneIs, OrderIfAbsent
  <1>5. q \o one \in Seq(Names) /\ one \o q \in Seq(Names)
    OBVIOUS
  <1>6. /\ Listed("broadcaster", q \o one) <=> Listed("broadcaster", q) \/ x = "broadcaster"
        /\ Listed("broadcaster", one \o q) <=> Listed("broadcaster", q) \/ x = "broadcaster"
    BY <1>3, ListedInConcat
  <1>7. x # "subscriber" \/ Listed("broadcaster", q) => Order(q \o one, "broadcaster", "subscriber")
    BY <1>4, OrderOfConcat
  <1>8. x # "subscriber" => Order(one \o q, "broadcaster", "subscriber")
    BY <1>4, OrderOfConcat
  <1> QED
    BY <1>1, <1>2, <1>5, <1>6, <1>7, <1>8

(* Run starts a part, or adds it to the shutdownables.                     *)
LEMMA ProcessStarts ==
    ASSUME StartInvariant, L!StartStep
    PROVE  StartInvariant'
PROOF
  <1>1. /\ todo # << >>
        /\ UNCHANGED <<config, closed, handlers, handling, executed, done, message>>
    BY DEF L!StartStep, L!signalVars, L!traffic
  <1>2. ~executed /\ StartOrder /\ ListOrder /\ ~handling
    BY <1>1 DEF StartInvariant, ShutdownOrder
  <1>3. todo \in Seq(Steps) /\ shutdownables \in Seq(Names)
    BY DEF StartInvariant, ProcessTypes
  <1>4. PICK step \in Steps : step = Head(todo)
    BY <1>1, <1>3
  <1>5. PICK rest \in Seq(Steps) : rest = Tail(todo)
    <2>1. Tail(todo) \in Seq(Steps)
      BY <1>1, <1>3
    <2> QED
      BY <2>1
  <1>6. /\ ~Listed(L!AddFirst("subscriber"), rest) /\ step # L!AddFirst("subscriber")
    BY <1>1, <1>2, <1>3, <1>4, <1>5, ListedInTail DEF ListOrder
  <1>7. \/ "subscriber" \in up
        \/ /\ step # L!Start("broadcaster")
           /\ step = L!Start("subscriber") \/ Order(rest, L!Start("subscriber"), L!Start("broadcaster"))
    BY <1>1, <1>2, <1>3, <1>4, <1>5, OrderOfTail DEF StartOrder
  <1>8. \/ Listed("broadcaster", shutdownables)
        \/ /\ step # L!Add("subscriber")
           /\ step = L!Add("broadcaster") \/ Order(rest, L!Add("broadcaster"), L!Add("subscriber"))
    BY <1>1, <1>2, <1>3, <1>4, <1>5, OrderOfTail DEF ListOrder
  <1>9. ASSUME ProcessTypes', StartOrder', ListOrder', up \subseteq up'
        PROVE  StartInvariant'
    BY <1>1, <1>2, <1>9 DEF StartInvariant, Held, BroadcastsSurvive, L!BroadcastsSurvive, L!Has
  <1>10. CASE step.do = "start" /\ up' = up \cup {step.part} /\ todo' = rest /\ UNCHANGED shutdownables
    <2>1. ProcessTypes'
      BY <1>1, <1>10 DEF StartInvariant, ProcessTypes
    <2>2. StartOrder'
      BY <1>2, <1>7, <1>10, StepIs DEF StartOrder
    <2>3. ListOrder'
      BY <1>2, <1>6, <1>8, <1>10, StepIs DEF ListOrder
    <2> QED
      BY <1>9, <1>10, <2>1, <2>2, <2>3
  <1>11. CASE UNCHANGED <<up, todo, shutdownables>>
    BY <1>1, <1>11 DEF StartInvariant, ProcessTypes, StartOrder, ListOrder, ShutdownOrder, Drained,
       Held, BroadcastsSurvive, L!BroadcastsSurvive, L!Has, L!ForPort, L!Current
  <1>12. CASE /\ step.do # "start" /\ todo' = rest /\ UNCHANGED up
              /\ shutdownables' = IF step.do = "append" THEN Append(shutdownables, step.part)
                                 ELSE <<step.part>> \o shutdownables
    <2>1. step.part \in Names /\ step.do \in {"append", "prepend"}
      BY <1>12 DEF Steps
    <2>2. StartOrder'
      BY <1>2, <1>7, <1>12, StepIs DEF StartOrder
    <2>3. shutdownables' \in Seq(Names)
      BY <1>2, <1>3, <1>12, <2>1, ListGrows DEF ListOrder
    <2>4. ProcessTypes'
      BY <1>1, <1>12, <2>3 DEF StartInvariant, ProcessTypes
    <2>5. Listed("broadcaster", shutdownables') <=>
            Listed("broadcaster", shutdownables) \/ step.part = "broadcaster"
      BY <1>2, <1>3, <1>12, <2>1, ListGrows DEF ListOrder
    <2>6. Order(shutdownables', "broadcaster", "subscriber")
      <3>1. CASE step.do = "append"
        <4>1. step.part # "subscriber" \/ Listed("broadcaster", shutdownables)
          BY <1>8, <3>1, StepIs
        <4> QED
          BY <1>2, <1>3, <1>12, <2>1, <3>1, <4>1, ListGrows DEF ListOrder
      <3>2. CASE step.do = "prepend"
        <4>1. step.part # "subscriber"
          BY <1>6, <3>2, StepIs
        <4> QED
          BY <1>2, <1>3, <1>12, <2>1, <3>2, <4>1, ListGrows DEF ListOrder
      <3> QED
        BY <2>1, <3>1, <3>2
    <2>7. ListOrder'
      BY <1>6, <1>8, <1>12, <2>5, <2>6, StepIs DEF ListOrder
    <2> QED
      BY <1>9, <1>12, <2>2, <2>4, <2>7
  <1> QED
    BY <1>4, <1>5, <1>10, <1>11, <1>12 DEF L!StartStep

-----------------------------------------------------------------------------
(* Signals and handlers. *)

(* A step that leaves the process alone.                                   *)
LEMMA ProcessRests ==
    ASSUME StartInvariant,
           UNCHANGED <<config, todo, shutdownables, up, closed, handlers, handling, executed, done,
                       message>>
    PROVE  StartInvariant'
PROOF
  BY DEF StartInvariant, ProcessTypes, StartOrder, ListOrder, ShutdownOrder, Drained,
         Held, BroadcastsSurvive, L!BroadcastsSurvive, L!Has, L!ForPort, L!Current

(* The process gets a signal.                                              *)
LEMMA ProcessSignalled ==
    ASSUME StartInvariant, L!Signal
    PROVE  StartInvariant'
PROOF
  <1>1. UNCHANGED <<config, todo, shutdownables, up, closed, handling, done, message>>
    BY DEF L!Signal, L!parts, L!traffic
  <1>2. CASE UNCHANGED <<handlers, executed>>
    BY <1>1, <1>2, ProcessRests
  <1>3. CASE ~executed /\ executed' /\ todo = << >> /\ handlers' = shutdownables
    <2>1. ~handling /\ StartOrder /\ ListOrder
      BY <1>3 DEF StartInvariant
    <2>2. ProcessTypes'
      BY <1>1, <1>3 DEF StartInvariant, ProcessTypes
    <2>3. ShutdownOrder'
      BY <1>1, <1>3, <2>1 DEF ShutdownOrder, StartOrder, ListOrder
    <2>4. ListOrder'
      BY <1>1, <2>1 DEF ListOrder
    <2> QED
      BY <1>1, <1>3, <2>2, <2>3, <2>4
      DEF StartInvariant, Held, BroadcastsSurvive, L!BroadcastsSurvive, L!Has
  <1>4. \/ UNCHANGED <<handlers, executed>>
        \/ executed' /\ executed /\ UNCHANGED handlers
        \/ ~executed /\ executed' /\ todo = << >> /\ handlers' = shutdownables
    BY DEF L!Signal, L!Running
  <1>5. CASE executed' /\ executed /\ UNCHANGED handlers
    <2>1. ShutdownOrder'
      BY <1>1, <1>5 DEF StartInvariant, ShutdownOrder, Drained, Held, L!ForPort, L!Has, L!Current
    <2> QED
      BY <1>1, <1>5, <2>1 DEF StartInvariant, ProcessTypes, ListOrder, Held, BroadcastsSurvive,
         L!BroadcastsSurvive, L!Has
  <1> QED
    BY <1>2, <1>3, <1>4, <1>5

(* The wait is cut short: terminated at once, or timed out.                *)
LEMMA ProcessHurries ==
    ASSUME StartInvariant, L!TerminateImmediately \/ L!Timeout
    PROVE  StartInvariant'
PROOF
  <1>1. /\ UNCHANGED <<config, todo, shutdownables, up, closed, handlers, handling, executed, message>>
        /\ done' = TRUE
    BY DEF L!TerminateImmediately, L!Timeout, L!parts, L!traffic
  <1>2. ProcessTypes'
    BY <1>1 DEF StartInvariant, ProcessTypes, Flags
  <1>3. Drained => Drained'
    BY <1>1 DEF Drained, L!ForPort, L!Has
  <1>4. executed => ShutdownOrder'
    BY <1>1, <1>3 DEF StartInvariant, ShutdownOrder, L!Current, L!ForPort, L!Has
  <1> QED
    BY <1>1, <1>2, <1>4
    DEF StartInvariant, StartOrder, ListOrder, Held, BroadcastsSurvive, L!BroadcastsSurvive, L!Has

(* The handler of the signal begins to shut a part down.                   *)
LEMMA HandlerBegins ==
    ASSUME StartInvariant, L!Begin
    PROVE  StartInvariant'
PROOF
  <1>1. /\ UNCHANGED <<config, todo, shutdownables, up, handlers, executed, done, message>>
        /\ executed /\ handling'
        /\ closed' = IF L!Current \in L!Servers THEN closed \cup {L!ForPort(L!Current)} ELSE closed
    BY DEF L!Begin, L!Current
  <1>2. L!Current' = L!Current /\ \A n : L!ForPort(n)' = L!ForPort(n)
    BY <1>1 DEF L!Current, L!ForPort, L!Has
  <1>3. Drained => Drained'
    BY <1>1, <1>2 DEF Drained, Held
  <1>4. ShutdownOrder'
    <2>1. L!Current' \in L!Servers => L!ForPort(L!Current)' \in closed'
      BY <1>1 DEF L!Current, L!ForPort, L!Has
    <2> QED
      BY <1>1, <1>2, <1>3, <2>1 DEF StartInvariant, ShutdownOrder
  <1> QED
    BY <1>1, <1>4
    DEF StartInvariant, ProcessTypes, ListOrder, Held, BroadcastsSurvive, L!BroadcastsSurvive, L!Has

(* The handler has shut that part down.                                    *)
LEMMA HandlerReturns ==
    ASSUME StartInvariant, L!Shutdown
    PROVE  StartInvariant'
PROOF
  <1>1. /\ UNCHANGED <<config, todo, shutdownables, closed, executed, done, message>>
        /\ executed /\ handling /\ ~handling' /\ handlers # << >> /\ handlers' = Tail(handlers)
    BY DEF L!Shutdown, L!Current, L!traffic
  <1>2. handlers \in Seq(Names) /\ ShutdownOrder
    BY <1>1 DEF StartInvariant, ProcessTypes
  <1>3. PICK current \in Names : current = Head(handlers)
    BY <1>1, <1>2
  <1>4. L!Current = current
    BY <1>1, <1>3 DEF L!Current
  <1>5. up' = IF current \in L!Servers THEN up ELSE up \ {current}
    BY <1>4 DEF L!Shutdown
  <1>6. handlers' \in Seq(Names)
    BY <1>1, <1>2
  <1>7. Drained => Drained'
    BY <1>1 DEF Drained, Held, L!ForPort, L!Has
  <1>8. current = "broadcaster" => Drained
    <2> SUFFICES ASSUME current = "broadcaster" PROVE Drained
      OBVIOUS
    <2>1. current \in L!Servers
      BY DEF L!Servers
    <2>2. L!ForPort("broadcaster") \in closed
      BY <1>1, <1>2, <1>4, <2>1 DEF ShutdownOrder
    <2>3. done \/ ~L!InFlight(L!ForPort("broadcaster"))
      BY <1>4, <2>1 DEF L!Shutdown, L!Ends
    <2>4. ASSUME NEW m \in Messages, Held(m) PROVE L!InFlight(L!ForPort("broadcaster"))
      <3>1. message[m].at = "accepted" /\ L!ForPort(message[m].by) = L!ForPort("broadcaster")
        BY <2>4 DEF Held
      <3> QED
        BY <3>1 DEF L!InFlight
    <2> QED
      BY <2>2, <2>3, <2>4 DEF Drained
  <1>9. Drained \/ (current # "subscriber" /\ Order(handlers', "broadcaster", "subscriber"))
    <2>1. Drained \/ Order(handlers, "broadcaster", "subscriber")
      BY <1>2 DEF ShutdownOrder
    <2>2. ASSUME Order(handlers, "broadcaster", "subscriber"), ~Drained
          PROVE  Head(handlers) # "subscriber" /\ Order(Tail(handlers), "broadcaster", "subscriber")
      BY <1>1, <1>2, <1>3, <1>8, <2>2, OrderOfTail
    <2> QED
      BY <1>1, <1>3, <2>1, <2>2
  <1>10. ShutdownOrder'
    BY <1>1, <1>2, <1>5, <1>7, <1>9 DEF ShutdownOrder
  <1>11. "broadcaster" \in up => "broadcaster" \in up'
    BY <1>5 DEF L!Servers
  <1> QED
    BY <1>1, <1>6, <1>10, <1>11
    DEF StartInvariant, ProcessTypes, ListOrder, Held, BroadcastsSurvive, L!BroadcastsSurvive, L!Has

-----------------------------------------------------------------------------
(* Messages. *)

(* What the messages have to do with, when the parts stay as they are.     *)
LEMMA TrafficStep ==
    ASSUME StartInvariant,
           UNCHANGED <<config, todo, shutdownables, up, closed, handlers, handling, executed, done>>,
           message' \in [Messages -> Requests],
           \A m \in Messages : Held(m)' => Held(m) \/ ("broadcaster" \in up /\ L!Serving("broadcaster")),
           BroadcastsSurvive'
    PROVE  StartInvariant'
PROOF
  <1>1. ProcessTypes'
    BY DEF StartInvariant, ProcessTypes
  <1>2. L!ForPort("broadcaster")' = L!ForPort("broadcaster") /\ L!Current' = L!Current
        /\ L!ForPort(L!Current)' = L!ForPort(L!Current)
    BY DEF L!ForPort, L!Has, L!Current
  <1>3. Drained => Drained'
    BY <1>2 DEF Drained, L!Serving
  <1>4. executed => ShutdownOrder'
    BY <1>2, <1>3 DEF StartInvariant, ShutdownOrder
  <1>5. ListOrder' /\ (~executed => StartOrder' /\ ~handling')
    BY DEF StartInvariant, ListOrder, StartOrder
  <1>6. \A m \in Messages : Held(m)' => "broadcaster" \in up'
    BY DEF StartInvariant
  <1> QED
    BY <1>1, <1>4, <1>5, <1>6 DEF StartInvariant

(* A server accepts a publication.                                         *)
LEMMA MessageAccepted ==
    ASSUME StartInvariant, NEW m \in Messages, NEW p \in L!Servers, L!Accept(m, p)
    PROVE  StartInvariant'
PROOF
  <1>1. /\ UNCHANGED <<config, todo, shutdownables, up, closed, handlers, handling, executed, done>>
        /\ p \in up /\ L!Serving(p)
        /\ message' = [message EXCEPT ![m].at = "accepted", ![m].by = p]
    BY DEF L!Accept, L!parts, L!signalVars
  <1>2. message \in [Messages -> Requests]
    BY DEF StartInvariant, ProcessTypes
  <1>3. message[m] \in Requests
    BY <1>2
  <1>4. PICK r \in Requests : r = [message[m] EXCEPT !.at = "accepted", !.by = p]
    <2>1. [message[m] EXCEPT !.at = "accepted", !.by = p] \in Requests
      BY <1>3 DEF Requests
    <2> QED
      BY <2>1
  <1>5. r.at = "accepted" /\ r.by = p
    BY <1>3, <1>4 DEF Requests
  <1>6. message' = [message EXCEPT ![m] = r]
    BY <1>1, <1>2, <1>4
  <1>7. message' \in [Messages -> Requests]
    BY <1>2, <1>6
  <1>8. message'[m] = r /\ \A n \in Messages \ {m} : message'[n] = message[n]
    BY <1>2, <1>6
  <1>9. \A n \in Messages : Held(n)' => Held(n) \/ ("broadcaster" \in up /\ L!Serving("broadcaster"))
    BY <1>1, <1>5, <1>8 DEF Held
  <1>10. BroadcastsSurvive'
    BY <1>1, <1>5, <1>8 DEF StartInvariant, BroadcastsSurvive, L!BroadcastsSurvive, L!Has
  <1> QED
    BY <1>1, <1>7, <1>9, <1>10, TrafficStep

(* An accepted publication is published, or refused.                       *)
LEMMA MessagePublished ==
    ASSUME StartInvariant, NEW m \in Messages, L!Publish(m)
    PROVE  StartInvariant'
PROOF
  <1>1. /\ UNCHANGED <<config, todo, shutdownables, up, closed, handlers, handling, executed, done>>
        /\ message[m].at = "accepted"
        /\ message' = [message EXCEPT ![m].at = L!Outcome, ![m].hurried = done]
    BY DEF L!Publish, L!parts, L!signalVars
  <1>2. message \in [Messages -> Requests]
    BY DEF StartInvariant, ProcessTypes
  <1>3. message[m] \in Requests
    BY <1>2
  <1>4. PICK at \in {"refused", "lost", "published"} : at = L!Outcome
    BY DEF L!Outcome
  <1>5. PICK hurried \in Flags : hurried = done
    BY DEF StartInvariant, ProcessTypes
  <1>6. PICK r \in Requests : r = [message[m] EXCEPT !.at = at, !.hurried = hurried]
    <2>1. [message[m] EXCEPT !.at = at, !.hurried = hurried] \in Requests
      BY <1>3 DEF Requests
    <2> QED
      BY <2>1
  <1>7. r.at = at /\ r.by = message[m].by /\ r.hurried = hurried
    BY <1>3, <1>6 DEF Requests
  <1>8. message' = [message EXCEPT ![m] = r]
    BY <1>1, <1>2, <1>4, <1>5, <1>6
  <1>9. message' \in [Messages -> Requests]
    BY <1>2, <1>8
  <1>10. message'[m] = r /\ \A n \in Messages \ {m} : message'[n] = message[n]
    BY <1>2, <1>8
  <1>11. \A n \in Messages : Held(n)' => Held(n)
    BY <1>7, <1>10 DEF Held
  <1>12. at = "lost" /\ ~L!Has("enats") => "subscriber" \notin up
    BY <1>4 DEF L!Outcome
  <1>13. Held(m) /\ "subscriber" \notin up => done
    <2> SUFFICES ASSUME Held(m), "subscriber" \notin up PROVE done
      OBVIOUS
    <2>1. "broadcaster" \in up
      BY DEF StartInvariant
    <2>2. executed /\ ShutdownOrder
      BY <2>1 DEF StartInvariant, StartOrder
    <2> QED
      BY <2>1, <2>2 DEF ShutdownOrder, Drained
  <1>14. r.at = "lost" /\ r.by = "broadcaster" => r.hurried \/ L!Has("enats")
    BY <1>1, <1>5, <1>7, <1>12, <1>13 DEF Held
  <1>15. BroadcastsSurvive'
    BY <1>1, <1>10, <1>14 DEF StartInvariant, BroadcastsSurvive, L!BroadcastsSurvive, L!Has
  <1> QED
    BY <1>1, <1>9, <1>11, <1>15, TrafficStep

(* Every step of the process keeps the invariant.                          *)
LEMMA ProcessStep == StartInvariant /\ [L!Next]_process => StartInvariant'
PROOF
  <1> SUFFICES ASSUME StartInvariant, [L!Next]_process PROVE StartInvariant'
    OBVIOUS
  <1>1. CASE UNCHANGED process
    BY <1>1, ProcessRests DEF process
  <1>2. CASE L!RunReturns
    BY <1>2, ProcessRests DEF L!RunReturns, L!parts, L!signalVars, L!traffic
  <1>3. ASSUME NEW p \in up, L!PartFails(p) PROVE StartInvariant'
    BY <1>3, ProcessRests DEF L!PartFails, L!signalVars, L!traffic
  <1>4. ASSUME NEW server \in L!Servers, L!ServeFails(server) PROVE StartInvariant'
    BY <1>4, ProcessRests DEF L!ServeFails, L!signalVars, L!traffic
  <1>5. ASSUME NEW c \in Clients, NEW place, L!Moves(c, place) PROVE StartInvariant'
    BY <1>5, ProcessRests DEF L!Moves, L!parts, L!signalVars
  <1>6. ASSUME NEW c \in Clients,
               L!Upgrade(c) \/ L!Leave(c) \/ L!StreamEnds(c) \/ L!NodeDisconnects(c)
        PROVE  StartInvariant'
    BY <1>5, <1>6 DEF L!Upgrade, L!Leave, L!StreamEnds, L!NodeDisconnects
  <1>7. ASSUME NEW m \in Messages, NEW p \in L!Servers \ {"ws"}, L!Accept(m, p)
        PROVE  StartInvariant'
    BY <1>7, MessageAccepted
  <1>8. CASE L!Notify
    BY <1>8, ProcessRests DEF L!Notify, L!parts, L!traffic
  <1>9. CASE L!LastHandler
    BY <1>9, ProcessRests DEF L!LastHandler, L!signalVars, L!traffic
  <1>10. CASE L!StartStep
    BY <1>10, ProcessStarts
  <1>11. ASSUME NEW m \in Messages, L!Publish(m) PROVE StartInvariant'
    BY <1>11, MessagePublished
  <1>12. CASE L!Signal
    BY <1>12, ProcessSignalled
  <1>13. CASE L!TerminateImmediately \/ L!Timeout
    BY <1>13, ProcessHurries
  <1>14. CASE L!Begin
    BY <1>14, HandlerBegins
  <1>15. CASE L!Shutdown
    BY <1>15, HandlerReturns
  <1> QED
    BY <1>1, <1>2, <1>3, <1>4, <1>6, <1>7, <1>8, <1>9, <1>10, <1>11, <1>12, <1>13, <1>14, <1>15
    DEF L!Next, L!Handlers

-----------------------------------------------------------------------------
(* The initial states: the steps of Run, for every configuration. *)

Orderly(q) ==
    /\ q \in Seq(Steps)
    /\ Order(q, L!Start("subscriber"), L!Start("broadcaster"))
    /\ Order(q, L!Add("broadcaster"), L!Add("subscriber"))
    /\ ~Listed(L!AddFirst("subscriber"), q)

(* Two orderly parts of Run make an orderly one.                           *)
LEMMA OrderlyConcat ==
    ASSUME NEW p, NEW q, Orderly(p), Orderly(q)
    PROVE  Orderly(p \o q)
PROOF
  <1>1. p \in Seq(Steps) /\ q \in Seq(Steps)
    BY DEF Orderly
  <1>2. p \o q \in Seq(Steps)
    BY <1>1
  <1>3. Order(p \o q, L!Start("subscriber"), L!Start("broadcaster"))
    BY <1>1, OrderOfConcat DEF Orderly
  <1>4. Order(p \o q, L!Add("broadcaster"), L!Add("subscriber"))
    BY <1>1, OrderOfConcat DEF Orderly
  <1>5. ~Listed(L!AddFirst("subscriber"), p \o q)
    BY <1>1, ListedInConcat DEF Orderly
  <1> QED
    BY <1>2, <1>3, <1>4, <1>5 DEF Orderly

(* A step that neither starts a broadcaster nor lists the subscriber.      *)
Plain(step) ==
    /\ step \in Steps
    /\ step # L!Start("broadcaster") /\ step # L!Add("subscriber")
    /\ step # L!AddFirst("subscriber")

(* One plain step is orderly.                                              *)
LEMMA OrderlyOne ==
    ASSUME NEW x, Plain(x)
    PROVE  Orderly(<<x>>)
PROOF
  <1>1. <<x>> \in Seq(Steps)
    BY DEF Plain
  <1>2. ASSUME NEW a, x # a PROVE ~Listed(a, <<x>>)
    BY <1>2, OneIs
  <1> QED
    BY <1>1, <1>2, OrderIfAbsent DEF Orderly, Plain

(* Two plain steps are orderly.                                            *)
LEMMA OrderlyTwo ==
    ASSUME NEW x, NEW y, Plain(x), Plain(y)
    PROVE  Orderly(<<x, y>>)
PROOF
  <1>1. x \in Steps /\ y \in Steps
    BY DEF Plain
  <1>2. PICK p \in Seq(Steps) : p = <<x>>
    <2>1. <<x>> \in Seq(Steps)
      BY <1>1
    <2> QED
      BY <2>1
  <1>3. <<x, y>> = Append(p, y)
    BY <1>1, <1>2
  <1>4. PICK q \in Seq(Steps) : q = <<y>>
    <2>1. <<y>> \in Seq(Steps)
      BY <1>1
    <2> QED
      BY <2>1
  <1>5. Append(p, y) = p \o q
    BY <1>1, <1>4
  <1>6. Orderly(p) /\ Orderly(q)
    BY <1>2, <1>4, OrderlyOne
  <1> QED
    BY <1>3, <1>5, <1>6, OrderlyConcat

(* The steps of a part that are plain.                                     *)
LEMMA PlainSteps ==
    ASSUME NEW n \in Names \ {"subscriber"}
    PROVE  /\ n # "broadcaster" => Plain(L!Start(n))
           /\ Plain(L!Add(n)) /\ Plain(L!AddFirst(n))
PROOF
  <1>1. L!Start(n) \in Steps /\ L!Add(n) \in Steps /\ L!AddFirst(n) \in Steps
    BY DEF Steps, L!Start, L!Add, L!AddFirst
  <1> QED
    BY <1>1 DEF Plain, L!Start, L!Add, L!AddFirst

(* Run starts the subscriber before the broadcaster and lists it after.    *)
LEMMA RunIsOrderly == Orderly(L!Run)
PROOF
  <1>1. Orderly(<< >>)
    <2>1. << >> \in Seq(Steps) /\ DOMAIN << >> = {}
      OBVIOUS
    <2> QED
      BY <2>1 DEF Orderly, Order, Listed
  <1>2. ASSUME NEW n \in Names \ {"subscriber", "broadcaster"}
        PROVE  Orderly(<<L!Start(n), L!Add(n)>>)
    BY <1>2, PlainSteps, OrderlyTwo
  <1>3. Orderly(<<L!Add("metrics")>>)
    BY PlainSteps, OrderlyOne DEF Names
  <1>4. Orderly(L!newController)
    BY PlainSteps, OrderlyOne DEF Names, L!newController
  <1>5. Orderly(L!If("telemetry", <<L!Start("tracker"), L!Add("tracker")>>))
    BY <1>1, <1>2 DEF Names, L!If
  <1>6. Orderly(L!embedNATS) /\ Orderly(L!pusherAPI) /\ Orderly(L!startAPIServer)
    BY <1>1, <1>2 DEF Names, L!If, L!embedNATS, L!pusherAPI, L!startAPIServer
  <1>7. Orderly(L!startWSServer)
    BY PlainSteps, OrderlyTwo DEF Names, L!startWSServer
  <1>8. Orderly(L!If("delay", <<L!AddFirst("sleeper")>>))
    BY <1>1, PlainSteps, OrderlyOne DEF Names, L!If
  <1>9. Orderly(<<L!Start("node"), L!Start("subscriber"), L!Start("broker"),
                  L!Start("broadcaster"), L!Add("broadcaster"), L!Add("subscriber"),
                  L!Start("controller"), L!AddFirst("broker"), L!AddFirst("node")>>)
    <2> DEFINE q == <<L!Start("node"), L!Start("subscriber"), L!Start("broker"),
                      L!Start("broadcaster"), L!Add("broadcaster"), L!Add("subscriber"),
                      L!Start("controller"), L!AddFirst("broker"), L!AddFirst("node")>>
    <2>1. q \in Seq(Steps)
      <3>1. \A n \in Names : L!Start(n) \in Steps /\ L!Add(n) \in Steps /\ L!AddFirst(n) \in Steps
        BY DEF Steps, L!Start, L!Add, L!AddFirst
      <3>2. /\ L!Start("node") \in Steps /\ L!Start("subscriber") \in Steps
            /\ L!Start("broker") \in Steps /\ L!Start("broadcaster") \in Steps
            /\ L!Add("broadcaster") \in Steps /\ L!Add("subscriber") \in Steps
            /\ L!Start("controller") \in Steps /\ L!AddFirst("broker") \in Steps
            /\ L!AddFirst("node") \in Steps
        BY <3>1 DEF Names
      <3> QED
        BY <3>2
    <2>2. DOMAIN q = 1 .. 9 /\ q[2] = L!Start("subscriber") /\ q[5] = L!Add("broadcaster")
      OBVIOUS
    <2>3. \A i \in 1 .. 9 : q[i] = L!Start("broadcaster") => i = 4
      BY DEF L!Start, L!Add, L!AddFirst
    <2>4. \A i \in 1 .. 9 : q[i] = L!Add("subscriber") => i = 6
      BY DEF L!Start, L!Add, L!AddFirst
    <2>5. \A i \in 1 .. 9 : q[i] # L!AddFirst("subscriber")
      BY DEF L!Start, L!Add, L!AddFirst
    <2> HIDE DEF q
    <2>6. Order(q, L!Start("subscriber"), L!Start("broadcaster"))
      <3>1. 2 \in 1 .. (4 - 1)
        OBVIOUS
      <3> QED
        BY <2>2, <2>3, <3>1 DEF Order
    <2>7. Order(q, L!Add("broadcaster"), L!Add("subscriber"))
      <3>1. 5 \in 1 .. (6 - 1)
        OBVIOUS
      <3> QED
        BY <2>2, <2>4, <3>1 DEF Order
    <2>8. Orderly(q)
      BY <2>1, <2>2, <2>5, <2>6, <2>7 DEF Orderly, Listed
    <2> QED
      BY <2>8 DEF q
  <1>10. Orderly(L!runNode)
    <2>1. Orderly(<<L!Add("metrics")>> \o L!newController)
      BY <1>3, <1>4, OrderlyConcat
    <2>2. Orderly(<<L!Add("metrics")>> \o L!newController
                  \o L!If("telemetry", <<L!Start("tracker"), L!Add("tracker")>>))
      BY <1>5, <2>1, OrderlyConcat
    <2>3. Orderly(<<L!Add("metrics")>> \o L!newController
                  \o L!If("telemetry", <<L!Start("tracker"), L!Add("tracker")>>)
                  \o L!embedNATS)
      BY <1>6, <2>2, OrderlyConcat
    <2> QED
      BY <1>9, <2>3, OrderlyConcat DEF L!runNode
  <1>11. Orderly(L!runNode \o L!pusherAPI)
    BY <1>6, <1>10, OrderlyConcat
  <1>12. Orderly(L!runNode \o L!pusherAPI \o L!startAPIServer)
    BY <1>6, <1>11, OrderlyConcat
  <1>13. Orderly(L!runNode \o L!pusherAPI \o L!startAPIServer \o L!startWSServer)
    BY <1>7, <1>12, OrderlyConcat
  <1> QED
    BY <1>8, <1>13, OrderlyConcat DEF L!Run

(* What a broadcaster has accepted is published or refused, if there is    *)
(* time, whichever optional parts run, however many messages there are,    *)
(* and whenever the signals come: the subscriber is listed after the       *)
(* broadcasters, and a handler begins when the one before it has returned. *)
(* Unless the message goes through an embedded NATS server.                *)
THEOREM AcceptedBroadcastsSurvive == MCSpec => []BroadcastsSurvive
PROOF
  <1>1. MCInit => StartInvariant
    <2> SUFFICES ASSUME MCInit PROVE StartInvariant
      OBVIOUS
    <2>1. /\ todo = L!Run /\ shutdownables = << >> /\ up = {} /\ handlers = << >>
          /\ ~handling /\ ~executed /\ done = FALSE
          /\ message = [m \in Messages |-> [at |-> "none", by |-> "none", hurried |-> FALSE]]
      BY DEF MCInit, L!Init
    <2>2. Orderly(todo)
      BY <2>1, RunIsOrderly
    <2>3. PICK no \in Flags : no = FALSE
      BY DEF Flags
    <2>4. PICK r \in Requests : r = [at |-> "none", by |-> "none", hurried |-> no]
      BY DEF Requests
    <2>5. message = [m \in Messages |-> r]
      BY <2>1, <2>3, <2>4
    <2>6. \A m \in Messages : message[m].at = "none"
      BY <2>4, <2>5
    <2>7. done \in Flags
      BY <2>1 DEF Flags
    <2>8. << >> \in Seq(Names) /\ DOMAIN << >> = {}
      OBVIOUS
    <2>9. ProcessTypes
      BY <2>1, <2>2, <2>5, <2>7, <2>8 DEF ProcessTypes, Orderly
    <2>10. StartOrder /\ ListOrder
      BY <2>1, <2>2, <2>8 DEF StartOrder, ListOrder, Orderly, Order
    <2> QED
      BY <2>1, <2>6, <2>9, <2>10 DEF StartInvariant, Held, BroadcastsSurvive, L!BroadcastsSurvive
  <1>2. StartInvariant /\ [MCNext]_all => StartInvariant'
    BY ProcessStep DEF MCNext, all
  <1>3. StartInvariant => BroadcastsSurvive
    BY DEF StartInvariant
  <1> QED
    BY <1>1, <1>2, <1>3, PTL DEF MCSpec
=============================================================================
