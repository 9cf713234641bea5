----------------------------- MODULE Inference ------------------------------
(***************************************************************************)
(* The way of a sampled frame to the detector and back: the frame queue    *)
(* and the consumer task of every camera worker (ingest/worker.py), the    *)
(* batching inference service (detect/service.py) and its replacement when *)
(* the model settings change (Supervisor._restart_inference).              *)
(*                                                                         *)
(* Frames are numbered in the order they are sampled.  A job of the        *)
(* service is its frame; the future its submitter awaits is future[f].     *)
(***************************************************************************)
EXTENDS Naturals, Sequences, FiniteSets, Functions

CONSTANTS
    Cameras,
    BatchSize,
    QueueSize,      \* queue_size of the service, by default batch_size * 2
    InboxSize,      \* bound of a worker's queue, 2
    MaxFrames,      \* bound on the frames sampled
    MaxChanges,     \* bound on restarts of the service and of workers
    Env             \* "failure": a batch may raise; "model": the service is
                    \* restarted; "camera": a worker is restarted

ASSUME InferenceAssumption ==
    /\ BatchSize \in Nat \ {0} /\ QueueSize \in Nat \ {0}
    /\ InboxSize \in Nat \ {0}
    /\ MaxFrames \in Nat /\ MaxChanges \in Nat
    /\ Env \subseteq {"failure", "model", "camera"}

VARIABLES
    sampled,    \* frames sampled so far
    inbox,      \* CameraWorker._queue
    consumer,   \* the consumer task: waiting for a frame, for an answer, or over
    future,     \* what became of the job of a frame
    service,    \* supervisor._inference: "open", "stopping" or "down"
    queue,      \* InferenceService._queue
    runner,     \* where InferenceService._run is suspended
    batch,      \* the jobs it has collected (a set: they are predicted together)
    changes,
    latest,     \* history: the last frame whose result reached the engine
    orphans     \* history: jobs in hand when _collect_batch was cancelled

vars == <<sampled, inbox, consumer, future, service, queue, runner, batch,
          changes, latest, orphans>>

Frames == 1 .. MaxFrames

Futures == {"none", "refused", "pending", "result", "error", "cancelled"}

TypeOK ==
    /\ sampled \in 0 .. MaxFrames
    /\ inbox \in [Cameras -> Seq(Frames)]
    /\ \A c \in Cameras : Len(inbox[c]) <= InboxSize
    /\ consumer \in [Cameras -> [pc : {"idle", "waiting", "over"},
                                 frame : 0 .. MaxFrames]]
    /\ future \in [Frames -> Futures]
    /\ service \in {"open", "stopping", "down"}
    /\ queue \in Seq(Frames) /\ Len(queue) <= QueueSize
    /\ runner \in {"get", "gather", "predict", "gone"}
    /\ batch \subseteq Frames /\ Cardinality(batch) <= BatchSize
    /\ changes \in 0 .. MaxChanges
    /\ latest \in [Cameras -> 0 .. MaxFrames]
    /\ orphans \subseteq Frames

Fresh == [pc |-> "idle", frame |-> 0]

Init ==
    /\ sampled = 0
    /\ inbox = [c \in Cameras |-> <<>>]
    /\ consumer = [c \in Cameras |-> Fresh]
    /\ future = [f \in Frames |-> "none"]
    /\ service = "open"
    /\ queue = <<>>
    /\ runner = "get"
    /\ batch = {}
    /\ changes = 0
    /\ latest = [c \in Cameras |-> 0]
    /\ orphans = {}

-----------------------------------------------------------------------------
(* The camera workers.                                                     *)

(* Mutant: a full queue keeps growing.                                     *)
Enqueue_Unbounded(q, f) == Append(q, f)

(* Mutant: the newest frame is served first.                               *)
Enqueue_NewestFirst(q, f) == <<f>> \o IF Len(q) = InboxSize THEN Tail(q) ELSE q

(* _enqueue drops the oldest frame when the queue is full.                 *)
Enqueue(q, f) == Append(IF Len(q) = InboxSize THEN Tail(q) ELSE q, f)

Sample(c) ==
    /\ sampled < MaxFrames
    /\ sampled' = sampled + 1
    /\ inbox' = [inbox EXCEPT ![c] = Enqueue(@, sampled + 1)]
    /\ UNCHANGED <<consumer, future, service, queue, runner, batch, changes,
                   latest, orphans>>

(* _consume takes a frame and submits it.  A service that is full, closing *)
(* or absent refuses it at once and the frame is dropped.                  *)
Submit(c) ==
    /\ consumer[c].pc = "idle" /\ inbox[c] # <<>>
    /\ inbox' = [inbox EXCEPT ![c] = Tail(@)]
    /\ LET f == Head(inbox[c])
       IN  \/ /\ service = "open" /\ Len(queue) < QueueSize
              /\ queue' = Append(queue, f)
              /\ future' = [future EXCEPT ![f] = "pending"]
              /\ consumer' = [consumer EXCEPT
                                ![c] = [pc |-> "waiting", frame |-> f]]
           \/ /\ service # "open" \/ Len(queue) = QueueSize
              /\ future' = [future EXCEPT ![f] = "refused"]
              /\ UNCHANGED <<queue, consumer>>
    /\ UNCHANGED <<sampled, service, runner, batch, changes, latest,
                   orphans>>

(* The answer arrives: a result goes to the engine, an exception is logged *)
(* -- but CancelledError, also that of a cancelled future, is raised again *)
(* and ends the consumer task.                                             *)
Answered(c) ==
    LET f == consumer[c].frame
    IN  /\ consumer[c].pc = "waiting"
        /\ future[f] \in {"result", "error", "cancelled"}
        /\ consumer' = [consumer EXCEPT
             ![c].pc = IF future[f] = "cancelled" THEN "over" ELSE "idle"]
        /\ latest' = IF future[f] = "result"
                     THEN [latest EXCEPT ![c] = f] ELSE latest
        /\ UNCHANGED <<sampled, inbox, future, service, queue, runner, batch,
                       changes, orphans>>

(* A reload replaces the worker of a camera: its consumer is cancelled,    *)
(* and with it the future it awaits; the new worker starts with an empty   *)
(* queue.                                                                  *)
ReplaceWorker(c) ==
    /\ "camera" \in Env /\ changes < MaxChanges
    /\ changes' = changes + 1
    /\ consumer' = [consumer EXCEPT ![c] = Fresh]
    /\ future' = [f \in Frames |->
         IF consumer[c] = [pc |-> "waiting", frame |-> f]
            /\ future[f] = "pending"
         THEN "cancelled" ELSE future[f]]
    /\ inbox' = [inbox EXCEPT ![c] = <<>>]
    /\ UNCHANGED <<sampled, service, queue, runner, batch, latest, orphans>>

-----------------------------------------------------------------------------
(* The inference service.                                                  *)

(* The end of _collect_batch: jobs cancelled meanwhile are left out, and   *)
(* an empty batch is not predicted.                                        *)
StartBatch(jobs) ==
    LET wanted == {f \in jobs : future[f] # "cancelled"}
    IN  /\ batch' = wanted
        /\ runner' = IF wanted = {} THEN "get" ELSE "predict"

(* Mutant: a job taken when the batch is complete is not put in it.        *)
Collect_LosesLast(jobs) ==
    IF Cardinality(jobs) = BatchSize THEN StartBatch(batch)
    ELSE batch' = jobs /\ runner' = "gather"

Collect(jobs) ==
    IF Cardinality(jobs) = BatchSize THEN StartBatch(jobs)
    ELSE batch' = jobs /\ runner' = "gather"

(* The first job of a batch, or one more before the batch's deadline.      *)
Take ==
    /\ service = "open" /\ runner \in {"get", "gather"}
    /\ queue # <<>>
    /\ queue' = Tail(queue)
    /\ Collect(batch \cup {Head(queue)})
    /\ UNCHANGED <<sampled, inbox, consumer, future, service, changes,
                   latest, orphans>>

Deadline ==
    /\ service = "open" /\ runner = "gather"
    /\ StartBatch(batch)
    /\ UNCHANGED <<sampled, inbox, consumer, future, service, queue, changes,
                   latest, orphans>>

(* Mutant: the results overwrite what became of a job meanwhile.           *)
Settle_Overwrites(jobs, outcome) ==
    [f \in Frames |-> IF f \in jobs THEN outcome ELSE future[f]]

(* Futures that are done are left alone.                                   *)
Settle(jobs, outcome) ==
    [f \in Frames |-> IF f \in jobs /\ future[f] = "pending"
                      THEN outcome ELSE future[f]]

(* detector.predict returns, or raises; the loop goes on either way.       *)
Predicted ==
    /\ service = "open" /\ runner = "predict"
    /\ \/ future' = Settle(batch, "result")
       \/ "failure" \in Env /\ future' = Settle(batch, "error")
    /\ runner' = "get"
    /\ batch' = {}
    /\ UNCHANGED <<sampled, inbox, consumer, service, queue, changes, latest,
                   orphans>>

(* The model settings change: the supervisor lets go of the service and    *)
(* stop() cancels its task.                                                *)
RestartInference ==
    /\ "model" \in Env /\ changes < MaxChanges
    /\ service = "open"
    /\ changes' = changes + 1
    /\ service' = "stopping"
    /\ UNCHANGED <<sampled, inbox, consumer, future, queue, runner, batch,
                   latest, orphans>>

(* Mutant: the batch that is being predicted is left to itself.            *)
ServiceStops_LeavesBatch ==
    /\ service = "stopping"
    /\ service' = "down"
    /\ future' = Settle(Range(queue), "cancelled")
    /\ orphans' = orphans \cup (IF runner = "gather" THEN batch ELSE {})
    /\ queue' = <<>>
    /\ runner' = "gone"
    /\ batch' = {}
    /\ UNCHANGED <<sampled, inbox, consumer, changes, latest>>

(* The task is cancelled where it is suspended.  In predict() it cancels   *)
(* the futures of the batch; in _collect_batch nothing does.  Then stop()  *)
(* drains the queue.                                                       *)
ServiceStops ==
    /\ service = "stopping"
    /\ service' = "down"
    /\ future' = Settle(Range(queue) \cup (IF runner = "predict" THEN batch ELSE {}),
                        "cancelled")
    /\ orphans' = orphans \cup (IF runner = "gather" THEN batch ELSE {})
    /\ queue' = <<>>
    /\ runner' = "gone"
    /\ batch' = {}
    /\ UNCHANGED <<sampled, inbox, consumer, changes, latest>>

(* The new service, or the one built from the fallback settings.           *)
ServiceStarts ==
    /\ service = "down"
    /\ service' = "open"
    /\ runner' = "get"
    /\ UNCHANGED <<sampled, inbox, consumer, future, queue, batch, changes,
                   latest, orphans>>

-----------------------------------------------------------------------------
ServiceStep == Take \/ Deadline \/ Predicted \/ ServiceStops \/ ServiceStarts

Next ==
    \/ \E c \in Cameras :
         Sample(c) \/ Submit(c) \/ Answered(c) \/ ReplaceWorker(c)
    \/ ServiceStep
    \/ RestartInference

Spec == Init /\ [][Next]_vars

(* The event loop runs ready tasks and timers; predict() returns.          *)
FairSpec ==
    /\ Spec
    /\ WF_vars(ServiceStep)
    /\ \A c \in Cameras : WF_vars(Submit(c)) /\ WF_vars(Answered(c))

-----------------------------------------------------------------------------
(* A submitted job is with somebody who will answer it, in the queue or in *)
(* the batch, or a stop took it out of the hands of _collect_batch.        *)
PendingIsHeld ==
    \A f \in Frames : future[f] = "pending" => f \in Range(queue) \cup batch \cup orphans

(* What became of a job is decided once (_run's checks of future.done()).  *)
DecidedOnce ==
    [][\A f \in Frames :
         future[f] \in {"refused", "result", "error", "cancelled"}
            => future'[f] = future[f]]_vars

(* The results of a camera reach the engine in the order of the frames,    *)
(* across dropped frames, failed batches and restarts.                     *)
ResultsInOrder ==
    [][\A c \in Cameras : latest'[c] >= latest[c]]_vars

(* Every submitted frame is answered, through failing batches and restarts *)
(* of workers and service; only the jobs lost by such a stop are not.      *)
EveryFrameAnswered ==
    \A f \in Frames :
        future[f] = "pending" ~> future[f] # "pending" \/ f \in orphans

-----------------------------------------------------------------------------
(* What the program says of itself and does not keep.                      *)

(* _restart_inference: submissions "fail while the service is down and the *)
(* workers drop those frames" -- a consumer goes on to the next frame.     *)
ConsumersSurvive == \A c \in Cameras : consumer[c].pc # "over"

(* stop() drains the queue "so no caller is left hanging" (service.py:76): *)
(* every submitted frame is answered, whatever the service was doing when  *)
(* it was stopped.                                                         *)
NoCallerHangs ==
    \A f \in Frames : future[f] = "pending" ~> future[f] # "pending"
=============================================================================
