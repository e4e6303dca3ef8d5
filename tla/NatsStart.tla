------------------------------ MODULE NatsStart ------------------------------
(***************************************************************************)
(* The start of the nodes that share the NATS broker (broker/nats.go): the *)
(* initialisation of JetStream with its retries, the epoch that the nodes  *)
(* agree upon through a key of a JetStream bucket, the watch that follows  *)
(* the key, and the backlog that keeps the broadcasts which arrive before  *)
(* JetStream is ready.                                                     *)
(*                                                                         *)
(* The bucket is external: it is None, or it has a TTL and an epoch (None  *)
(* once the key has expired).  A node proposes its own name as the epoch.  *)
(***************************************************************************)
EXTENDS Naturals, Sequences, FiniteSets

CONSTANTS Nodes,         \* the nodes of the cluster
          TTL,           \* [Nodes -> Nat], the TTL each node is configured with
          MaxAttempts,   \* initialisations before a node gives up (5 in the code)
          MaxStarts,     \* bound: starts of each node
          MaxExpirations,\* bound: expirations of the epoch key
          MaxBroadcasts, \* bound: broadcasts each node accepts
          None

StartAssumption ==
  /\ None \notin Nodes
  /\ None \notin Seq(Nodes)
  /\ None \notin [ttl : {TTL[n] : n \in Nodes}, epoch : Nodes \cup {None}]

VARIABLES phase,      \* where each node is in Start
          attempts,   \* failed initialisations of this start
          starts,     \* bound
          bucket,     \* the bucket of the epoch
          expirations,\* bound
          fetched,    \* what calculateEpoch returned
          epoch,      \* the epoch of the node, None before it has one
          watch,      \* None, or the updates the watch has still to deliver
          accepted,   \* broadcasts the node accepted
          published,  \* broadcasts the node added to JetStream
          backlog,    \* broadcasts kept for later
          locked      \* backlogFlush waits for the mutex it holds

startVars == <<phase, attempts, starts, fetched>>
epochVars == <<bucket, expirations, epoch, watch>>
castVars == <<accepted, published, backlog, locked>>
vars == <<startVars, epochVars, castVars>>

Phases == {"down", "init", "bucket", "get", "epoch", "written", "ready",
           "serving", "failed"}

(* Ready: initJetStreamWithRetry has ended and without an error.           *)
Ready(n) == phase[n] \in {"ready", "serving"}

(* The value of the key.                                                   *)
Key == IF bucket = None THEN None ELSE bucket.epoch

Goto(n, p) == phase' = [phase EXCEPT ![n] = p]

(* What a change of the key adds to the watches that are open.             *)
Notify(e) ==
  watch' = [n \in Nodes |-> IF watch[n] = None THEN None ELSE Append(watch[n], e)]

-----------------------------------------------------------------------------
Init ==
  /\ phase = [n \in Nodes |-> "down"]
  /\ attempts = [n \in Nodes |-> 0]
  /\ starts = [n \in Nodes |-> 0]
  /\ bucket = None
  /\ expirations = 0
  /\ fetched = [n \in Nodes |-> None]
  /\ epoch = [n \in Nodes |-> None]
  /\ watch = [n \in Nodes |-> None]
  /\ accepted = [n \in Nodes |-> 0]
  /\ published = [n \in Nodes |-> 0]
  /\ backlog = [n \in Nodes |-> 0]
  /\ locked = [n \in Nodes |-> FALSE]

(* Start: connects and runs the initialisation in a goroutine.             *)
Start(n) ==
  /\ phase[n] = "down"
  /\ starts[n] < MaxStarts
  /\ Goto(n, "init")
  /\ starts' = [starts EXCEPT ![n] = @ + 1]
  /\ attempts' = [attempts EXCEPT ![n] = 0]
  /\ UNCHANGED <<fetched, epochVars, castVars>>

(* initJetStreamWithRetry on an error of initJetStream.                    *)
RetryOrFail(n) ==
  /\ attempts' = [attempts EXCEPT ![n] = @ + 1]
  /\ Goto(n, IF attempts[n] + 1 > MaxAttempts THEN "failed" ELSE "init")

(* JetStream does not answer during the initialisation.                    *)
InitFails(n) ==
  /\ phase[n] \in {"init", "bucket", "get"}
  /\ RetryOrFail(n)
  /\ UNCHANGED <<starts, fetched, epochVars, castVars>>

(* fetchBucketWithTTL: creates the bucket, opens the one that exists, or   *)
(* deletes the one with another TTL to create it again.  A watch of the    *)
(* deleted bucket may be resumed by the client library on the new one, or  *)
(* not.                                                                    *)
fetchBucketWithTTL(n) ==
  /\ phase[n] = "init"
  /\ \/ /\ bucket = None
        /\ bucket' = [ttl |-> TTL[n], epoch |-> None]
        /\ Goto(n, "bucket")
        /\ UNCHANGED watch
     \/ /\ bucket # None
        /\ bucket.ttl = TTL[n]
        /\ Goto(n, "bucket")
        /\ UNCHANGED <<bucket, watch>>
     \/ /\ bucket # None
        /\ bucket.ttl # TTL[n]
        /\ bucket' = None
        /\ \E lost \in SUBSET Nodes :
             watch' = [m \in Nodes |-> IF m \in lost THEN None ELSE watch[m]]
        /\ UNCHANGED phase
  /\ UNCHANGED <<attempts, starts, fetched, expirations, epoch, castVars>>

(* calculateEpoch, Create: the key is created with the node's own epoch    *)
(* unless it exists; a bucket deleted meanwhile is fetched again.          *)
createEpoch(n) ==
  /\ phase[n] = "bucket"
  /\ \/ /\ bucket = None
        /\ Goto(n, "init")
        /\ UNCHANGED <<bucket, fetched, watch>>
     \/ /\ bucket # None
        /\ bucket.epoch = None
        /\ bucket' = [bucket EXCEPT !.epoch = n]
        /\ fetched' = [fetched EXCEPT ![n] = n]
        /\ Notify(n)
        /\ Goto(n, "epoch")
     \/ /\ Key # None
        /\ Goto(n, "get")
        /\ UNCHANGED <<bucket, fetched, watch>>
  /\ UNCHANGED <<attempts, starts, expirations, epoch, castVars>>

(* calculateEpoch, Get: the epoch of the node that created the key; the    *)
(* key may have expired since.                                             *)
getEpoch(n) ==
  /\ phase[n] = "get"
  /\ \/ /\ Key # None
        /\ fetched' = [fetched EXCEPT ![n] = Key]
        /\ Goto(n, "epoch")
        /\ UNCHANGED attempts
     \/ /\ Key = None
        /\ RetryOrFail(n)
        /\ UNCHANGED fetched
  /\ UNCHANGED <<starts, epochVars, castVars>>

(* writeEpoch, at the end of initJetStream.                                *)
writeEpoch(n) ==
  /\ phase[n] = "epoch"
  /\ epoch' = [epoch EXCEPT ![n] = fetched[n]]
  /\ Goto(n, "written")
  /\ UNCHANGED <<attempts, starts, fetched, bucket, expirations, watch, castVars>>

(* Faulty variant of Current: the watch delivers updates only.             *)
UpdatesOnly == <<>>

(* What a new watch delivers first: the value of the key.                  *)
Current == IF Key = None THEN <<>> ELSE <<Key>>

(* watchEpoch, and readyFn after it.  A watch that cannot be set up is     *)
(* only logged.                                                            *)
watchEpoch(n) ==
  /\ phase[n] = "written"
  /\ \/ bucket # None /\ watch' = [watch EXCEPT ![n] = Current]
     \/ UNCHANGED watch
  /\ Goto(n, "ready")
  /\ UNCHANGED <<attempts, starts, fetched, bucket, expirations, epoch, castVars>>

(* The goroutine of watchEpoch takes an update.                            *)
EpochUpdated(n) ==
  /\ watch[n] # None
  /\ watch[n] # <<>>
  /\ epoch' = [epoch EXCEPT ![n] = Head(watch[n])]
  /\ watch' = [watch EXCEPT ![n] = Tail(@)]
  /\ UNCHANGED <<startVars, bucket, expirations, castVars>>

(* The key is ten TTLs old: nobody refreshes it.  The watch ignores        *)
(* deletes.                                                                *)
EpochExpires ==
  /\ expirations < MaxExpirations
  /\ Key # None
  /\ bucket' = [bucket EXCEPT !.epoch = None]
  /\ expirations' = expirations + 1
  /\ UNCHANGED <<startVars, epoch, watch, castVars>>

(* The end of the goroutine of Start, once JetStream is ready: nothing is  *)
(* flushed.                                                                *)
StartEnds(n) ==
  /\ phase[n] = "ready"
  /\ Goto(n, "serving")
  /\ UNCHANGED <<attempts, starts, fetched, epochVars, castVars>>

(* backlogFlush, called when the initialisation failed: HandleBroadcast    *)
(* asks for the mutex that backlogFlush holds.                             *)
backlogFlush(n) ==
  /\ phase[n] = "failed"
  /\ ~locked[n]
  /\ locked' = [locked EXCEPT ![n] = backlog[n] > 0]
  /\ UNCHANGED <<startVars, epochVars, accepted, published, backlog>>

(* The process of the node ends: the error of Start, a crash or a stop.    *)
Exit(n) ==
  /\ phase[n] # "down"
  /\ Goto(n, "down")
  /\ epoch' = [epoch EXCEPT ![n] = None]
  /\ watch' = [watch EXCEPT ![n] = None]
  /\ fetched' = [fetched EXCEPT ![n] = None]
  /\ backlog' = [backlog EXCEPT ![n] = 0]
  /\ locked' = [locked EXCEPT ![n] = FALSE]
  /\ accepted' = [accepted EXCEPT ![n] = 0]
  /\ published' = [published EXCEPT ![n] = 0]
  /\ UNCHANGED <<attempts, starts, bucket, expirations>>

(* HandleBroadcast: added to JetStream when ready; to the backlog when not *)
(* ready within jetstreamReadyTimeout, or failed; both return no error.    *)
HandleBroadcast(n) ==
  /\ phase[n] # "down"
  /\ accepted[n] < MaxBroadcasts
  /\ accepted' = [accepted EXCEPT ![n] = @ + 1]
  /\ \/ /\ Ready(n)
        /\ published' = [published EXCEPT ![n] = @ + 1]
        /\ UNCHANGED backlog
     \/ /\ ~Ready(n)
        /\ ~locked[n]
        /\ backlog' = [backlog EXCEPT ![n] = @ + 1]
        /\ UNCHANGED published
  /\ UNCHANGED <<startVars, epochVars, locked>>

Next ==
  \/ \E n \in Nodes :
       \/ Start(n) \/ InitFails(n) \/ fetchBucketWithTTL(n)
       \/ createEpoch(n) \/ getEpoch(n) \/ writeEpoch(n) \/ watchEpoch(n)
       \/ EpochUpdated(n) \/ StartEnds(n) \/ backlogFlush(n) \/ Exit(n)
       \/ HandleBroadcast(n)
  \/ EpochExpires

Spec == Init /\ [][Next]_vars

-----------------------------------------------------------------------------
(* The types of the variables.                                             *)
TypeOK ==
  /\ phase \in [Nodes -> Phases]
  /\ attempts \in [Nodes -> 0..(MaxAttempts + 1)]
  /\ \/ bucket = None
     \/ bucket \in [ttl : {TTL[n] : n \in Nodes}, epoch : Nodes \cup {None}]
  /\ epoch \in [Nodes -> Nodes \cup {None}]
  /\ \A n \in Nodes : watch[n] = None \/ watch[n] \in Seq(Nodes)
  /\ backlog \in [Nodes -> 0..MaxBroadcasts]

(* Every node that serves and watches the key has the epoch of the key     *)
(* once its watch has nothing to deliver, whichever node created the key,  *)
(* however often it expired and in whichever order the nodes started: the  *)
(* offsets of a stream mean the same on every node.                        *)
EpochsAgree ==
  \A n \in Nodes :
    Ready(n) /\ watch[n] = <<>> => Key \in {None, epoch[n]}
=============================================================================
