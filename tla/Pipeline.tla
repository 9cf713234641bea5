------------------------------ MODULE Pipeline ------------------------------
(***************************************************************************)
(* The supervisor's pipeline for one camera (supervisor.py): the camera    *)
(* worker's consumer task runs _handle_event for what the engine reports,  *)
(* an operator calls cancel_incident, a config reload replaces or removes  *)
(* the worker, cancelling the consumer wherever it is suspended, and the   *)
(* server crashes and restarts with nothing but the store.                 *)
(*                                                                         *)
(* One action is the code between two awaits.  A call of the store is a    *)
(* job of a worker thread: it is in `jobs` until it has run, and it runs   *)
(* also when the task that awaits it was cancelled meanwhile.  The engine  *)
(* is reduced to the incident it holds open (module CameraEngine has the   *)
(* rest) and an escalation run to whether a phone has rung (Dispatcher).   *)
(***************************************************************************)
EXTENDS Naturals, FiniteSets

CONSTANTS
    MaxIncidents,   \* bound on the incidents the engine opens
    MaxMishaps,     \* bound on the reloads, crashes and store calls that raise
    Env,            \* the disturbances this instance allows
    NoIncident      \* Python's None

EnvEvents == {"cancel",   \* operators cancel incidents that the store lists
              "early",    \* ... and those only the engine's status lists
              "storefail",\* a store call raises
              "enabled",  \* a reload changes or (re-)enables the camera
              "disabled", \* a reload disables it
              "absent",   \* a reload removes it
              "crash"}    \* the server crashes and starts again

ASSUME PipelineAssumption ==
    /\ MaxIncidents \in Nat /\ MaxMishaps \in Nat
    /\ Env \subseteq EnvEvents
    /\ NoIncident \notin 1 .. MaxIncidents

Incidents == 1 .. MaxIncidents

VARIABLES
    opened,     \* number of incidents opened so far
    live,       \* the camera engine's open incident
    critical,   \* its severity is critical already
    consumer,   \* the worker's consumer task: where _handle_event is suspended
    worker,     \* "running", "stopping" (inside reload_config) or "off"
    site,       \* the camera in the site configuration
    reloads,
    row,        \* the store's IncidentRecord
    jobs,       \* store calls not yet run
    raised,     \* store calls that raised
    run,        \* the escalation run
    operator,   \* cancel_incident, per incident: where it is suspended, whether it
                \* stopped anything and (history) whether it came before the record
    acks,       \* incidents whose acknowledgement state the bus has forgotten
    cut         \* history: incidents whose work a reload or a crash cut off

vars == <<opened, live, critical, consumer, worker, site, reloads, row, jobs, raised,
          run, operator, acks, cut>>

Jobs == [op : {"save", "evidence", "clip", "escalate", "close", "opclose",
               "review"},
         of : Incidents]

Job(op, i) == [op |-> op, of |-> i]

TypeOK ==
    /\ opened \in 0 .. MaxIncidents
    /\ live \in Incidents \cup {NoIncident}
    /\ critical \in BOOLEAN
    /\ consumer \in [pc : {"idle", "save", "snapshot", "evidence", "escalate",
                           "close"},
                     of : Incidents \cup {NoIncident}]
    /\ worker \in {"running", "stopping", "off"}
    /\ site \in {"enabled", "disabled", "absent"}
    /\ reloads \in 0 .. MaxMishaps
    /\ row \in [Incidents -> [at : {"none", "open", "closed"},
                              verdict : BOOLEAN]]
    /\ jobs \subseteq Jobs
    /\ raised \subseteq Jobs
    /\ run \in [Incidents -> {"none", "running", "rang", "cancelled", "lost"}]
    /\ operator \in [Incidents -> [pc : {"none", "closing", "reviewing",
                                         "answered", "unknown", "error"},
                                   stopped : BOOLEAN, early : BOOLEAN]]
    /\ acks \subseteq Incidents /\ cut \subseteq Incidents

Idle == [pc |-> "idle", of |-> NoIncident]

Init ==
    /\ opened = 0
    /\ live = NoIncident
    /\ critical = FALSE
    /\ consumer = Idle
    /\ worker = "running"
    /\ site = "enabled"
    /\ reloads = 0
    /\ row = [i \in Incidents |-> [at |-> "none", verdict |-> FALSE]]
    /\ jobs = {} /\ raised = {}
    /\ run = [i \in Incidents |-> "none"]
    /\ operator = [i \in Incidents |->
                     [pc |-> "none", stopped |-> FALSE, early |-> FALSE]]
    /\ acks = {} /\ cut = {}

Mishap == reloads + Cardinality(raised) < MaxMishaps

-----------------------------------------------------------------------------
(* The consumer task.                                                      *)

Await(pc, i) == consumer' = [pc |-> pc, of |-> i]

Submit(op, i) == jobs' = jobs \cup {Job(op, i)}

Resumed(pc, op) ==
    /\ consumer.pc = pc
    /\ Job(op, consumer.of) \notin jobs

Succeeded(op) == Job(op, consumer.of) \notin raised

(* The engine confirms: save_incident is the first thing awaited.          *)
Opens ==
    /\ worker # "off" /\ site # "absent" /\ consumer = Idle
    /\ live = NoIncident /\ opened < MaxIncidents
    /\ opened' = opened + 1
    /\ live' = opened + 1
    /\ critical' \in BOOLEAN
    /\ Await("save", opened + 1)
    /\ Submit("save", opened + 1)
    /\ UNCHANGED <<worker, site, reloads, row, raised, run, operator, acks, cut>>

(* The clip is recorded by a task of its own, which ends in a store call.  *)
ScheduleClip == Submit("clip", consumer.of)

(* The end of the handler: dispatcher.dispatch.                            *)
DispatchRun ==
    /\ consumer' = Idle
    /\ ScheduleClip
    /\ run' = [run EXCEPT ![consumer.of] = "running"]

(* An exception ends the handler; _consume logs it.                        *)
GiveUp == consumer' = Idle /\ UNCHANGED <<jobs, run, cut>>

(* With no frame in the buffer there is no snapshot to await.              *)
Saved ==
    /\ Resumed("save", "save")
    /\ \/ Succeeded("save") /\ Await("snapshot", consumer.of)
          /\ UNCHANGED <<jobs, run, cut>>
       \/ Succeeded("save") /\ DispatchRun
       \/ ~Succeeded("save") /\ GiveUp
    /\ UNCHANGED <<critical, opened, live, worker, site, reloads, row, raised,
                   operator, acks, cut>>

(* Mutant: without a snapshot the handler returns before the dispatch.     *)
SnapshotTaken_GivesUp ==
    /\ consumer.pc = "snapshot"
    /\ GiveUp
    /\ UNCHANGED <<critical, opened, live, worker, site, reloads, row, raised,
                   operator, acks, cut>>

(* A snapshot that could not be written has no path to store.              *)
SnapshotTaken ==
    /\ consumer.pc = "snapshot"
    /\ \/ Await("evidence", consumer.of) /\ Submit("evidence", consumer.of)
          /\ UNCHANGED run
       \/ DispatchRun
    /\ UNCHANGED <<critical, opened, live, worker, site, reloads, row, raised,
                   operator, acks, cut>>

EvidenceSet ==
    /\ Resumed("evidence", "evidence")
    /\ \/ Succeeded("evidence") /\ DispatchRun
       \/ ~Succeeded("evidence") /\ GiveUp
    /\ UNCHANGED <<critical, opened, live, worker, site, reloads, row, raised,
                   operator, acks, cut>>

(* A frame escalates the open incident to critical.                        *)
Escalates ==
    /\ worker # "off" /\ site # "absent" /\ consumer = Idle
    /\ live # NoIncident /\ ~critical
    /\ critical' = TRUE
    /\ Await("escalate", live) /\ Submit("escalate", live)
    /\ UNCHANGED <<opened, live, worker, site, reloads, row, raised, run,
                   operator, acks, cut>>

(* The scene is clear for clear_after_seconds.                             *)
Clears ==
    /\ worker # "off" /\ site # "absent" /\ consumer = Idle
    /\ live # NoIncident
    /\ live' = NoIncident
    /\ Await("close", live) /\ Submit("close", live)
    /\ UNCHANGED <<critical, opened, worker, site, reloads, row, raised, run,
                   operator, acks, cut>>

(* Mutant: forget() is not held up by the store.                           *)
Updated_Early ==
    /\ consumer.pc \in {"escalate", "close"}
    /\ acks' = IF consumer.pc = "close" THEN acks \cup {consumer.of} ELSE acks
    /\ consumer' = Idle
    /\ UNCHANGED <<critical, opened, live, worker, site, reloads, row, jobs,
                   raised, run, operator, cut>>

Updated ==
    /\ \/ Resumed("escalate", "escalate") /\ UNCHANGED acks
       \/ Resumed("close", "close")
          /\ acks' = IF Succeeded("close") THEN acks \cup {consumer.of}
                     ELSE acks
    /\ consumer' = Idle
    /\ UNCHANGED <<critical, opened, live, worker, site, reloads, row, jobs,
                   raised, run, operator, cut>>

-----------------------------------------------------------------------------
(* The store.                                                              *)

Applied(j, r) ==
    IF j.op = "save" THEN [r EXCEPT !.at = "open"]
    ELSE IF r.at = "none" THEN r        \* update_incident finds no record
    ELSE IF j.op \in {"close", "opclose"} THEN [r EXCEPT !.at = "closed"]
    ELSE IF j.op = "review" THEN [r EXCEPT !.verdict = TRUE]
    ELSE r

JobRuns(j) ==
    /\ j \in jobs
    /\ jobs' = jobs \ {j}
    /\ row' = [row EXCEPT ![j.of] = Applied(j, @)]
    /\ UNCHANGED <<critical, opened, live, consumer, worker, site, reloads,
                   raised, run, operator, acks, cut>>

JobRaises(j) ==
    /\ "storefail" \in Env /\ Mishap
    /\ j \in jobs
    /\ jobs' = jobs \ {j}
    /\ raised' = raised \cup {j}
    /\ UNCHANGED <<critical, opened, live, consumer, worker, site, reloads,
                   row, run, operator, acks, cut>>

-----------------------------------------------------------------------------
(* The operator's cancel_incident.                                         *)

Listed(i) == row[i].at # "none" \/ ("early" \in Env /\ live = i)

(* Mutant: the verdict is recorded but the incident is not closed.         *)
CancelIncident_NoClose(i) ==
    /\ "cancel" \in Env
    /\ operator[i].pc = "none"
    /\ Listed(i)
    /\ run' = [run EXCEPT ![i] = IF @ \in {"running", "rang"}
                                 THEN "cancelled" ELSE @]
    /\ live' = IF live = i THEN NoIncident ELSE live
    /\ operator' = [operator EXCEPT ![i] =
            [pc |-> "reviewing", stopped |-> live = i \/ run'[i] # run[i],
             early |-> row[i].at = "none"]]
    /\ Submit("review", i)
    /\ UNCHANGED <<critical, opened, consumer, worker, site, reloads, row,
                   raised, acks, cut>>

(* Mutant: the dispatcher is asked only when the engine knows nothing.     *)
CancelIncident_EngineFirst(i) ==
    /\ "cancel" \in Env
    /\ operator[i].pc = "none"
    /\ Listed(i)
    /\ run' = [run EXCEPT ![i] = IF live # i /\ @ \in {"running", "rang"}
                                 THEN "cancelled" ELSE @]
    /\ live' = IF live = i THEN NoIncident ELSE live
    /\ operator' = [operator EXCEPT ![i] =
            [pc |-> IF live = i THEN "closing" ELSE "reviewing",
             stopped |-> live = i \/ run'[i] # run[i],
             early |-> row[i].at = "none"]]
    /\ Submit(IF live = i THEN "opclose" ELSE "review", i)
    /\ UNCHANGED <<critical, opened, consumer, worker, site, reloads, row,
                   raised, acks, cut>>

(* Up to the first await: dispatcher.cancel, then the engine's cancel.     *)
CancelIncident(i) ==
    /\ "cancel" \in Env
    /\ operator[i].pc = "none"
    /\ Listed(i)
    /\ run' = [run EXCEPT ![i] = IF @ \in {"running", "rang"}
                                 THEN "cancelled" ELSE @]
    /\ live' = IF live = i THEN NoIncident ELSE live
    /\ operator' = [operator EXCEPT ![i] =
            [pc |-> IF live = i THEN "closing" ELSE "reviewing",
             stopped |-> live = i \/ run'[i] # run[i],
             early |-> row[i].at = "none"]]
    /\ Submit(IF live = i THEN "opclose" ELSE "review", i)
    /\ UNCHANGED <<critical, opened, consumer, worker, site, reloads, row,
                   raised, acks, cut>>

(* Mutant: the request's outcome replaces all that is known of it.         *)
Becomes_Overwrites(i, pc) == operator' = [operator EXCEPT ![i] = [pc |-> pc]]

Becomes(i, pc) == operator' = [operator EXCEPT ![i].pc = pc]

CancelClosed(i) ==
    /\ operator[i].pc = "closing"
    /\ Job("opclose", i) \notin jobs
    /\ IF Job("opclose", i) \in raised
       THEN Becomes(i, "error") /\ UNCHANGED jobs
       ELSE Becomes(i, "reviewing") /\ Submit("review", i)
    /\ UNCHANGED <<critical, opened, live, consumer, worker, site, reloads,
                   row, raised, run, acks, cut>>

(* True unless there was no record, no open incident and no run.           *)
CancelReviewed(i) ==
    /\ operator[i].pc = "reviewing"
    /\ Job("review", i) \notin jobs
    /\ Becomes(i, IF Job("review", i) \in raised THEN "error"
                  ELSE IF row[i].verdict \/ operator[i].stopped
                  THEN "answered" ELSE "unknown")
    /\ UNCHANGED <<critical, opened, live, consumer, worker, site, reloads,
                   row, jobs, raised, run, acks, cut>>

-----------------------------------------------------------------------------
(* The escalation run, of which Dispatcher has the details.                *)
PhoneRings(i) ==
    /\ run[i] = "running"
    /\ run' = [run EXCEPT ![i] = "rang"]
    /\ UNCHANGED <<critical, opened, live, consumer, worker, site, reloads,
                   row, jobs, raised, operator, acks, cut>>

-----------------------------------------------------------------------------
(* reload_config.  The engine is reconfigured at once: it drops a camera   *)
(* that is gone, open incident and all, and keeps an open incident through *)
(* any other change.  Then the worker is stopped, and replaced unless the  *)
(* camera is gone or disabled.  One reload runs at a time.                 *)
Reload(new) ==
    /\ new \in Env /\ Mishap
    /\ worker = "running" \/ (worker = "off" /\ site # "enabled")
    /\ reloads' = reloads + 1
    /\ worker' = IF worker = "running" THEN "stopping" ELSE "off"
    /\ site' = new
    /\ live' = IF new = "absent" THEN NoIncident ELSE live
    /\ cut' = cut \cup ({live} \ {live', NoIncident})
    /\ UNCHANGED <<critical, opened, consumer, row, jobs, raised, run,
                   operator, acks>>

(* worker.stop cancels the consumer where it is suspended.  A store call   *)
(* whose thread has not started is dropped, one that has runs on.          *)
WorkerStops ==
    /\ worker = "stopping"
    /\ worker' = "off"
    /\ consumer' = Idle
    /\ \/ UNCHANGED jobs
       \/ jobs' = jobs \ {Job(consumer.pc, consumer.of)}
    /\ cut' = cut \cup ({consumer.of} \ {NoIncident})
    /\ UNCHANGED <<critical, opened, live, site, reloads, row, raised, run,
                   operator, acks>>

WorkerStarts ==
    /\ worker = "off" /\ site = "enabled"
    /\ worker' = "running"
    /\ UNCHANGED <<critical, opened, live, consumer, site, reloads, row, jobs,
                   raised, run, operator, acks, cut>>

-----------------------------------------------------------------------------
(* What the process held is gone, also the calls under way; the records    *)
(* stay as they are and nothing takes the runs up again.                   *)
Crash ==
    /\ "crash" \in Env /\ Mishap
    /\ reloads' = reloads + 1
    /\ live' = NoIncident
    /\ consumer' = Idle
    /\ worker' = IF site = "enabled" THEN "running" ELSE "off"
    /\ jobs' = {}
    /\ run' = [i \in Incidents |-> IF run[i] = "none" THEN "none" ELSE "lost"]
    /\ operator' = [i \in Incidents |->
                      IF operator[i].pc \in {"closing", "reviewing"}
                      THEN [operator[i] EXCEPT !.pc = "error"] ELSE operator[i]]
    /\ acks' = {}
    /\ cut' = cut \cup {i \in Incidents :
                          \/ i \in {live, consumer.of}
                          \/ operator[i] # operator'[i]
                          \/ \E j \in jobs : j.of = i}
    /\ UNCHANGED <<critical, opened, site, row, raised>>

-----------------------------------------------------------------------------
ConsumerStep == Saved \/ SnapshotTaken \/ EvidenceSet \/ Updated

StoreStep == \E j \in jobs : JobRuns(j) \/ JobRaises(j)

OperatorStep(i) == CancelClosed(i) \/ CancelReviewed(i)

Next ==
    \/ Opens \/ Escalates \/ Clears
    \/ ConsumerStep
    \/ StoreStep
    \/ \E i \in Incidents : CancelIncident(i) \/ OperatorStep(i) \/ PhoneRings(i)
    \/ \E new \in {"enabled", "disabled", "absent"} : Reload(new)
    \/ WorkerStops \/ WorkerStarts
    \/ Crash

Spec == Init /\ [][Next]_vars

(* The event loop resumes every task that can go on, a store thread ends,  *)
(* and reload_config goes on to stop and start the worker.                 *)
FairSpec ==
    /\ Spec
    /\ WF_vars(ConsumerStep)
    /\ WF_vars(StoreStep)
    /\ WF_vars(WorkerStops \/ WorkerStarts)
    /\ \A i \in Incidents : WF_vars(OperatorStep(i))

-----------------------------------------------------------------------------
Settled ==
    /\ consumer = Idle /\ jobs = {} /\ worker # "stopping"
    /\ \A i \in Incidents : operator[i].pc \notin {"closing", "reviewing"}

Failed(i, ops) == \E j \in raised : j.of = i /\ j.op \in ops

(* Whenever nothing is in flight, the store lists as open just the         *)
(* incident that the engine holds open: a cancel that meets the handler,   *)
(* and store calls that overtake each other, leave no record behind.  Only *)
(* a store call that raised, work that a reload or a crash cut off, or a   *)
(* cancel that found no record to close yet can.                           *)
SettledStoreMatchesEngine ==
    Settled => \A i \in Incidents :
        \/ row[i].at = "open" <=> live = i
        \/ i \in cut \/ operator[i].early
        \/ Failed(i, {"save", "close", "opclose"})

(* The acknowledgement state is kept as long as the incident is open: it   *)
(* is forgotten only once the record is closed, unless a reload cut the    *)
(* handler off and its first write comes after all.                        *)
ForgottenIsClosed ==
    \A i \in acks : live # i /\ (row[i].at = "open" => i \in cut)

(* An incident that the engine opens is dispatched, even when an operator  *)
(* cancels or the engine closes it meanwhile: only a store call that       *)
(* raises, a reload that stops the worker in the middle of the handler or  *)
(* a crash can lose the escalation run.                                    *)
DispatchLostOnlyByFault ==
    \A i \in Incidents :
        live = i ~> \/ run[i] # "none"
                   \/ i \in cut \/ Failed(i, {"save", "evidence"})

(* An operator's cancel ends the run it meets, whether or not the engine   *)
(* still holds the incident open, and nothing that is under way for that   *)
(* incident, the consumer's dispatch included, takes the run up again.     *)
CancelStopsRun ==
    [][\A i \in Incidents :
         /\ operator[i].pc = "none" /\ operator'[i].pc # "none"
               => run'[i] \notin {"running", "rang"}
         /\ run[i] = "cancelled" => run'[i] \in {"cancelled", "lost"}]_vars

-----------------------------------------------------------------------------
(* What the program says of itself and does not keep.                      *)

(* Once an operator has dismissed an incident no phone rings about it any  *)
(* more that has not rung by then ("dismiss the incident from the          *)
(* dashboard before any phone rings", notify/dispatcher.py:13).            *)
CancelledNeverRings ==
    [][\A i \in Incidents :
         operator[i].pc # "none" /\ run[i] # "rang" => run'[i] # "rang"]_vars
=============================================================================
