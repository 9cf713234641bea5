---------------------------- MODULE PipelineProofs ----------------------------
(* Theorems about Pipeline, for every value of its constants.              *)
EXTENDS Pipeline, TLAPS, FiniteSetTheorems

-----------------------------------------------------------------------------
(* Type correctness.  The consumer has an incident in hand wherever        *)
(* _handle_event is suspended.                                             *)

ConsumerOK == consumer = Idle \/ (consumer.pc # "idle" /\ consumer.of \in Incidents)

TypeInv == TypeOK /\ ConsumerOK /\ IsFiniteSet(raised)

Ops == {"save", "evidence", "clip", "escalate", "close", "opclose", "review"}

LEMMA JobFields == \A op, i : Job(op, i).op = op /\ Job(op, i).of = i
BY DEF Job

LEMMA JobType == \A op \in Ops, i \in Incidents : Job(op, i) \in Jobs
BY DEF Job, Jobs, Ops

LEMMA MishapCounts ==
  ASSUME TypeInv, Mishap
  PROVE  reloads + 1 \in 0 .. MaxMishaps
<1>1. Cardinality(raised) \in Nat
  BY FS_CardinalityType DEF TypeInv
<1> QED BY <1>1, PipelineAssumption DEF TypeInv, TypeOK, Mishap

LEMMA ConsumerType ==
  ASSUME TypeInv, ConsumerStep \/ Opens \/ Escalates \/ Clears
  PROVE  TypeInv'
<1>0. /\ TypeOK /\ ConsumerOK /\ IsFiniteSet(raised)
      /\ NoIncident \notin Incidents /\ MaxIncidents \in Nat
      /\ consumer.pc # "idle" => consumer.of \in Incidents
      /\ Idle.pc = "idle" /\ Idle.of = NoIncident
  BY PipelineAssumption DEF TypeInv, Incidents, ConsumerOK, Idle
<1>a. ASSUME NEW op \in Ops, NEW i \in Incidents, Submit(op, i)
      PROVE  jobs' \subseteq Jobs
  BY <1>0, <1>a, JobType DEF Submit, TypeOK
<1>b. ASSUME NEW pc \in {"save", "snapshot", "evidence", "escalate", "close"},
             NEW i \in Incidents, Await(pc, i)
      PROVE  /\ ConsumerOK'
             /\ consumer' \in [pc : {"idle", "save", "snapshot", "evidence", "escalate",
                                     "close"},
                               of : Incidents \cup {NoIncident}]
  BY <1>b DEF Await, ConsumerOK
<1>c. ASSUME consumer' = Idle
      PROVE  /\ ConsumerOK'
             /\ consumer' \in [pc : {"idle", "save", "snapshot", "evidence", "escalate",
                                     "close"},
                               of : Incidents \cup {NoIncident}]
  BY <1>c DEF ConsumerOK, Idle
<1>d. ASSUME DispatchRun, consumer.pc # "idle"
      PROVE  /\ jobs' \subseteq Jobs
             /\ run' \in [Incidents -> {"none", "running", "rang", "cancelled", "lost"}]
  <2>1. jobs' \subseteq Jobs
    BY <1>0, <1>a, <1>d DEF DispatchRun, ScheduleClip, Ops
  <2> QED BY <1>0, <1>d, <2>1 DEF DispatchRun, TypeOK
<1>1. CASE Opens
  <2>1. opened + 1 \in Incidents /\ opened' \in 0 .. MaxIncidents
    BY <1>0, <1>1 DEF Opens, TypeOK, Incidents
  <2> QED BY <1>0, <1>1, <1>a, <1>b, <2>1 DEF Opens, TypeInv, TypeOK, Ops
<1>2. CASE Escalates
  <2>1. live \in Incidents
    BY <1>0, <1>2 DEF Escalates, TypeOK
  <2> QED BY <1>0, <1>2, <1>a, <1>b, <2>1 DEF Escalates, TypeInv, TypeOK, Ops
<1>3. CASE Clears
  <2>1. live \in Incidents
    BY <1>0, <1>3 DEF Clears, TypeOK
  <2> QED BY <1>0, <1>3, <1>a, <1>b, <2>1 DEF Clears, TypeInv, TypeOK, Ops
<1>4. CASE Saved
  <2>1. consumer.pc = "save" /\ consumer.of \in Incidents
    BY <1>0, <1>4 DEF Saved, Resumed
  <2>2. CASE Await("snapshot", consumer.of) /\ UNCHANGED <<jobs, run, cut>>
    BY <1>0, <1>4, <1>b, <2>1, <2>2 DEF Saved, TypeInv, TypeOK
  <2>3. CASE DispatchRun
    BY <1>0, <1>4, <1>c, <1>d, <2>1, <2>3 DEF Saved, DispatchRun, TypeInv, TypeOK
  <2>4. CASE GiveUp
    BY <1>0, <1>4, <1>c, <2>4 DEF Saved, GiveUp, TypeInv, TypeOK
  <2> QED BY <1>4, <2>2, <2>3, <2>4 DEF Saved
<1>5. CASE SnapshotTaken
  <2>1. consumer.pc = "snapshot" /\ consumer.of \in Incidents
    BY <1>0, <1>5 DEF SnapshotTaken
  <2>2. CASE DispatchRun
    BY <1>0, <1>5, <1>c, <1>d, <2>1, <2>2 DEF SnapshotTaken, DispatchRun, TypeInv, TypeOK
  <2>3. CASE /\ Await("evidence", consumer.of) /\ Submit("evidence", consumer.of)
             /\ UNCHANGED run
    BY <1>0, <1>5, <1>a, <1>b, <2>1, <2>3 DEF SnapshotTaken, TypeInv, TypeOK, Ops
  <2> QED BY <1>5, <2>2, <2>3 DEF SnapshotTaken
<1>6. CASE EvidenceSet
  <2>1. consumer.pc = "evidence"
    BY <1>6 DEF EvidenceSet, Resumed
  <2>2. CASE DispatchRun
    BY <1>0, <1>6, <1>c, <1>d, <2>1, <2>2 DEF EvidenceSet, DispatchRun, TypeInv, TypeOK
  <2>3. CASE GiveUp
    BY <1>0, <1>6, <1>c, <2>3 DEF EvidenceSet, GiveUp, TypeInv, TypeOK
  <2> QED BY <1>6, <2>2, <2>3 DEF EvidenceSet
<1>7. CASE Updated
  <2>1. consumer.of \in Incidents
    BY <1>0, <1>7 DEF Updated, Resumed
  <2> QED BY <1>0, <1>7, <1>c, <2>1 DEF Updated, TypeInv, TypeOK
<1> QED BY <1>1, <1>2, <1>3, <1>4, <1>5, <1>6, <1>7 DEF ConsumerStep

LEMMA StoreType ==
  ASSUME TypeInv, NEW j \in jobs, JobRuns(j) \/ JobRaises(j)
  PROVE  TypeInv'
<1>0. TypeOK /\ ConsumerOK /\ IsFiniteSet(raised) /\ j \in Jobs
  BY DEF TypeInv, TypeOK
<1>1. CASE JobRuns(j)
  <2>1. j.of \in Incidents /\ row[j.of] \in [at : {"none", "open", "closed"}, verdict : BOOLEAN]
    BY <1>0 DEF Jobs, TypeOK
  <2>2. Applied(j, row[j.of]) \in [at : {"none", "open", "closed"}, verdict : BOOLEAN]
    BY <2>1 DEF Applied
  <2>3. row' = [row EXCEPT ![j.of] = Applied(j, row[j.of])]
    BY <1>1 DEF JobRuns
  <2>4. row' \in [Incidents -> [at : {"none", "open", "closed"}, verdict : BOOLEAN]]
    BY <1>0, <2>1, <2>2, <2>3 DEF TypeOK
  <2> QED BY <1>0, <1>1, <2>4 DEF JobRuns, TypeInv, TypeOK, ConsumerOK
<1>2. CASE JobRaises(j)
  <2>1. IsFiniteSet(raised')
    BY <1>0, <1>2, FS_AddElement DEF JobRaises
  <2> QED BY <1>0, <1>2, <2>1 DEF JobRaises, TypeInv, TypeOK, ConsumerOK
<1> QED BY <1>1, <1>2

OperatorState == [pc : {"none", "closing", "reviewing", "answered", "unknown", "error"},
                  stopped : BOOLEAN, early : BOOLEAN]

LEMMA OperatorType ==
  ASSUME TypeInv, NEW i \in Incidents, CancelIncident(i) \/ OperatorStep(i) \/ PhoneRings(i)
  PROVE  TypeInv'
<1>0. /\ TypeOK /\ ConsumerOK /\ IsFiniteSet(raised)
      /\ operator \in [Incidents -> OperatorState]
  BY DEF TypeInv, TypeOK, OperatorState
<1>a. ASSUME NEW op \in Ops, Submit(op, i) PROVE jobs' \subseteq Jobs
  BY <1>0, <1>a, JobType DEF Submit, TypeOK
<1>b. ASSUME NEW pc \in {"closing", "reviewing", "answered", "unknown", "error"},
             Becomes(i, pc)
      PROVE  operator' \in [Incidents -> OperatorState]
  BY <1>0, <1>b DEF Becomes, OperatorState
<1>1. CASE CancelIncident(i)
  <2> DEFINE o == [pc |-> IF live = i THEN "closing" ELSE "reviewing",
                   stopped |-> live = i \/ run'[i] # run[i],
                   early |-> row[i].at = "none"]
  <2>1. o.stopped \in BOOLEAN /\ o.early \in BOOLEAN /\ o.pc \in {"closing", "reviewing"}
    OBVIOUS
  <2>2. o \in OperatorState
    BY <2>1 DEF OperatorState
  <2>3. operator' = [operator EXCEPT ![i] = o]
    BY <1>1 DEF CancelIncident
  <2> HIDE DEF o
  <2>4. operator' \in [Incidents -> OperatorState]
    BY <1>0, <2>2, <2>3
  <2>5. jobs' \subseteq Jobs
    BY <1>1, <1>a DEF CancelIncident, Ops
  <2>6. run' \in [Incidents -> {"none", "running", "rang", "cancelled", "lost"}]
    BY <1>0, <1>1 DEF CancelIncident, TypeOK
  <2> QED BY <1>0, <1>1, <2>4, <2>5, <2>6
         DEF CancelIncident, TypeInv, TypeOK, ConsumerOK, OperatorState
<1>2. CASE CancelClosed(i)
  <2>1. operator' \in [Incidents -> OperatorState] /\ jobs' \subseteq Jobs
    <3>1. CASE Becomes(i, "error") /\ UNCHANGED jobs
      BY <1>0, <1>b, <3>1 DEF TypeOK
    <3>2. CASE Becomes(i, "reviewing") /\ Submit("review", i)
      BY <1>a, <1>b, <3>2 DEF Ops
    <3> QED BY <1>2, <3>1, <3>2 DEF CancelClosed
  <2> QED BY <1>0, <1>2, <2>1 DEF CancelClosed, TypeInv, TypeOK, ConsumerOK, OperatorState
<1>3. CASE CancelReviewed(i)
  <2>1. Becomes(i, "error") \/ Becomes(i, "answered") \/ Becomes(i, "unknown")
    BY <1>3 DEF CancelReviewed
  <2>2. operator' \in [Incidents -> OperatorState]
    BY <1>b, <2>1
  <2> QED BY <1>0, <1>3, <2>2 DEF CancelReviewed, TypeInv, TypeOK, ConsumerOK, OperatorState
<1>4. CASE PhoneRings(i)
  BY <1>0, <1>4 DEF PhoneRings, TypeInv, TypeOK, ConsumerOK
<1> QED BY <1>1, <1>2, <1>3, <1>4 DEF OperatorStep

LEMMA FaultType ==
  ASSUME TypeInv,
         \/ \E new \in {"enabled", "disabled", "absent"} : Reload(new)
         \/ WorkerStops \/ WorkerStarts \/ Crash
  PROVE  TypeInv'
<1>0. /\ TypeOK /\ ConsumerOK /\ IsFiniteSet(raised)
      /\ operator \in [Incidents -> OperatorState]
      /\ Idle.pc = "idle" /\ Idle.of = NoIncident
  BY DEF TypeInv, TypeOK, OperatorState, Idle
<1>1. ASSUME NEW new \in {"enabled", "disabled", "absent"}, Reload(new) PROVE TypeInv'
  <2>1. reloads' \in 0 .. MaxMishaps
    BY <1>1, MishapCounts DEF Reload
  <2> QED BY <1>0, <1>1, <2>1 DEF Reload, TypeInv, TypeOK, ConsumerOK
<1>2. CASE WorkerStops
  BY <1>0, <1>2 DEF WorkerStops, TypeInv, TypeOK, ConsumerOK, Idle
<1>3. CASE WorkerStarts
  BY <1>0, <1>3 DEF WorkerStarts, TypeInv, TypeOK, ConsumerOK
<1>4. CASE Crash
  <2>1. reloads' \in 0 .. MaxMishaps
    BY <1>4, MishapCounts DEF Crash
  <2>2. ASSUME NEW i \in Incidents PROVE operator'[i] \in OperatorState
    BY <1>0, <1>4 DEF Crash, OperatorState
  <2>3. operator' \in [Incidents -> OperatorState]
    BY <1>4, <2>2 DEF Crash
  <2>4. run' \in [Incidents -> {"none", "running", "rang", "cancelled", "lost"}]
    BY <1>4 DEF Crash
  <2>5. consumer' \in [pc : {"idle", "save", "snapshot", "evidence", "escalate",
                             "close"},
                       of : Incidents \cup {NoIncident}]
    BY <1>4 DEF Crash, Idle
  <2> QED BY <1>0, <1>4, <2>1, <2>3, <2>4, <2>5
         DEF Crash, TypeInv, TypeOK, ConsumerOK, OperatorState
<1> QED BY <1>1, <1>2, <1>3, <1>4

LEMMA TypeInit == ASSUME Init PROVE TypeInv
<1>1. IsFiniteSet({})
  BY FS_EmptySet
<1>2. MaxIncidents \in Nat /\ MaxMishaps \in Nat
  BY PipelineAssumption
<1>3. /\ opened = 0 /\ reloads = 0 /\ jobs = {} /\ raised = {} /\ acks = {} /\ cut = {}
      /\ live = NoIncident /\ critical = FALSE /\ consumer = Idle /\ worker = "running"
      /\ site = "enabled"
  BY DEF Init
<1>4. /\ row \in [Incidents -> [at : {"none", "open", "closed"}, verdict : BOOLEAN]]
      /\ run \in [Incidents -> {"none", "running", "rang", "cancelled", "lost"}]
      /\ operator \in [Incidents -> OperatorState]
  BY DEF Init, OperatorState
<1>5. opened \in 0 .. MaxIncidents /\ reloads \in 0 .. MaxMishaps
  BY <1>2, <1>3
<1>6. TypeOK
  BY <1>3, <1>4, <1>5 DEF TypeOK, OperatorState, Idle
<1> QED BY <1>1, <1>3, <1>6 DEF TypeInv, ConsumerOK

LEMMA TypeStep == TypeInv /\ [Next]_vars => TypeInv'
<1> SUFFICES ASSUME TypeInv, [Next]_vars PROVE TypeInv'
  OBVIOUS
<1>1. CASE UNCHANGED vars
  BY <1>1 DEF vars, TypeInv, TypeOK, ConsumerOK
<1> QED BY <1>1, ConsumerType, StoreType, OperatorType, FaultType DEF Next, StoreStep

(* The consumer is never suspended in _handle_event without an incident,   *)
(* and no store call is about one that was not opened: reloads, crashes,   *)
(* store calls that raise and cancels leave every table as it should be    *)
(* (supervisor.py:245).                                                    *)
THEOREM TypeCorrect == Spec => []TypeOK
<1>1. TypeInv => TypeOK
  BY DEF TypeInv
<1> QED BY <1>1, TypeInit, TypeStep, PTL DEF Spec

-----------------------------------------------------------------------------
(* One incident, from the engine's confirmation to the closed record.      *)

Has(op, i) == Job(op, i) \in jobs
Raised(op, i) == Job(op, i) \in raised
At(pc, i) == consumer.pc = pc /\ consumer.of = i

Excused(i) == \/ i \in cut \/ operator[i].early
              \/ Raised("save", i) \/ Raised("close", i) \/ Raised("opclose", i)

Unopened(i) ==
  i > opened => /\ live # i /\ consumer.of # i /\ row[i].at = "none" /\ run[i] = "none"
                /\ operator[i].pc = "none" /\ i \notin acks
                /\ \A op \in Ops : ~Has(op, i)

(* Nothing dispatches an incident twice.                                   *)
Undispatched(i) == At("save", i) \/ At("snapshot", i) \/ At("evidence", i) => run[i] = "none"

(* Only an operator's request can have come too early.                     *)
NotEarly(i) == operator[i].pc = "none" => ~operator[i].early

(* The first write of an incident is awaited, or was cut off.              *)
SaveFirst(i) == Has("save", i) => row[i].at = "none" /\ (At("save", i) \/ i \in cut)

CloseUnderWay(i) ==
  At("close", i) => /\ live # i
                    /\ \/ Has("close", i) \/ Raised("close", i)
                       \/ row[i].at # "open" \/ i \in cut

Forgotten(i) ==
  /\ At("save", i) => i \notin acks
  /\ i \in acks => live # i /\ (row[i].at = "open" => i \in cut)

(* What the engine holds open is recorded as open, or will be.             *)
LiveRecorded(i) ==
  live = i => /\ ~Has("close", i) /\ ~Has("opclose", i) /\ row[i].at # "closed"
              /\ \/ row[i].at = "open" \/ i \in cut
                 \/ Has("save", i) \/ Raised("save", i)

(* What it does not hold open any more is closed, or will be.              *)
EndedClosed(i) ==
  live # i /\ i <= opened =>
    \/ Excused(i)
    \/ ~Has("save", i) /\ (row[i].at # "open" \/ Has("close", i) \/ Has("opclose", i))

Incident(i) == /\ Unopened(i) /\ Undispatched(i) /\ NotEarly(i) /\ SaveFirst(i)
               /\ CloseUnderWay(i) /\ Forgotten(i) /\ LiveRecorded(i) /\ EndedClosed(i)

PipelineInv == \A i \in Incidents : Incident(i)

LEMMA JobsDiffer ==
  \A a, b, i, k : Job(a, i) = Job(b, k) <=> a = b /\ i = k
BY DEF Job

LEMMA SubmitHas ==
  ASSUME NEW op, NEW k, Submit(op, k)
  PROVE  \A a, i : Has(a, i)' <=> Has(a, i) \/ (a = op /\ i = k)
BY JobsDiffer DEF Submit, Has

LEMMA SameHas ==
  ASSUME UNCHANGED jobs
  PROVE  \A a, i : Has(a, i)' <=> Has(a, i)
BY DEF Has

LEMMA EngineSteps ==
  ASSUME TypeInv, NEW i \in Incidents, Incident(i), Opens \/ Escalates \/ Clears
  PROVE  Incident(i)'
<1>0. /\ opened \in Nat /\ i \in Nat /\ NoIncident \notin Incidents
      /\ \A k \in Nat : k + 1 # k
      /\ consumer.pc # "idle" => consumer.of \in Incidents
      /\ live \in Incidents \cup {NoIncident}
      /\ Idle.pc = "idle" /\ Idle.of = NoIncident
  BY PipelineAssumption DEF TypeInv, TypeOK, Incidents, Idle, ConsumerOK
<1>1. CASE Opens
  <2>1. /\ consumer = Idle /\ live = NoIncident /\ opened' = opened + 1
        /\ live' = opened + 1 /\ consumer'.pc = "save" /\ consumer'.of = opened + 1
        /\ UNCHANGED <<row, raised, run, operator, acks, cut>>
    BY <1>1 DEF Opens, Await
  <2>2. \A a : Has(a, i)' <=> Has(a, i) \/ (a = "save" /\ i = opened + 1)
    BY <1>1, SubmitHas DEF Opens
  <2>3. CASE i = opened + 1
    <3>1. Unopened(i) /\ i > opened
      BY <1>0, <2>3 DEF Incident
    <3>2. /\ row[i].at = "none" /\ run[i] = "none" /\ operator[i].pc = "none" /\ i \notin acks
          /\ ~Has("close", i) /\ ~Has("opclose", i)
      BY <3>1 DEF Unopened, Ops
    <3> QED BY <1>0, <2>1, <2>2, <2>3, <3>1, <3>2
           DEF Incident, Unopened, Undispatched, NotEarly, SaveFirst, CloseUnderWay,
               Forgotten, LiveRecorded, EndedClosed, Excused, At, Raised
  <2>4. CASE i # opened + 1
    BY <1>0, <2>1, <2>2, <2>4
       DEF Incident, Unopened, Undispatched, NotEarly, SaveFirst, CloseUnderWay,
           Forgotten, LiveRecorded, EndedClosed, Excused, At, Raised
  <2> QED BY <2>3, <2>4
<1>2. CASE Escalates
  <2>1. /\ consumer = Idle /\ live \in Incidents
        /\ consumer'.pc = "escalate" /\ consumer'.of = live
        /\ UNCHANGED <<opened, live, row, raised, run, operator, acks, cut>>
    BY <1>0, <1>2 DEF Escalates, Await
  <2>2. \A a : Has(a, i)' <=> Has(a, i) \/ (a = "escalate" /\ i = live)
    BY <1>2, SubmitHas DEF Escalates
  <2> QED BY <1>0, <2>1, <2>2
         DEF Incident, Unopened, Undispatched, NotEarly, SaveFirst, CloseUnderWay,
             Forgotten, LiveRecorded, EndedClosed, Excused, At, Raised
<1>3. CASE Clears
  <2>1. /\ consumer = Idle /\ live \in Incidents /\ live' = NoIncident
        /\ consumer'.pc = "close" /\ consumer'.of = live
        /\ UNCHANGED <<opened, row, raised, run, operator, acks, cut>>
    BY <1>0, <1>3 DEF Clears, Await
  <2>2. \A a : Has(a, i)' <=> Has(a, i) \/ (a = "close" /\ i = live)
    BY <1>3, SubmitHas DEF Clears
  <2> QED BY <1>0, <2>1, <2>2
         DEF Incident, Unopened, Undispatched, NotEarly, SaveFirst, CloseUnderWay,
             Forgotten, LiveRecorded, EndedClosed, Excused, At, Raised
<1> QED BY <1>1, <1>2, <1>3

LEMMA HandlerSteps ==
  ASSUME TypeInv, NEW i \in Incidents, Incident(i), ConsumerStep
  PROVE  Incident(i)'
<1> DEFINE k == consumer.of
<1>0. /\ opened \in Nat /\ i \in Nat /\ NoIncident \notin Incidents
      /\ consumer.pc # "idle" => k \in Incidents
      /\ Idle.pc = "idle" /\ Idle.of = NoIncident
      /\ run \in [Incidents -> {"none", "running", "rang", "cancelled", "lost"}]
  BY PipelineAssumption DEF TypeInv, TypeOK, Incidents, Idle, ConsumerOK
<1>1. CASE UNCHANGED <<opened, live, row, raised, operator, acks, cut>> /\ DispatchRun
           /\ consumer.pc \in {"save", "snapshot", "evidence"}
           /\ (consumer.pc = "save" => ~Has("save", k))
  <2>1. \A a : Has(a, i)' <=> Has(a, i) \/ (a = "clip" /\ i = k)
    BY <1>1, SubmitHas DEF DispatchRun, ScheduleClip
  <2>2. consumer' = Idle /\ (i # k => run'[i] = run[i])
    BY <1>0, <1>1 DEF DispatchRun
  <2> QED BY <1>0, <1>1, <2>1, <2>2
         DEF Incident, Unopened, Undispatched, NotEarly, SaveFirst, CloseUnderWay,
             Forgotten, LiveRecorded, EndedClosed, Excused, At, Raised
<1>2. CASE UNCHANGED <<opened, live, row, raised, operator, acks, cut>> /\ GiveUp
           /\ (consumer.pc = "save" => ~Has("save", k))
  <2>1. \A a : Has(a, i)' <=> Has(a, i)
    BY <1>2, SameHas DEF GiveUp
  <2>2. consumer' = Idle /\ run' = run
    BY <1>2 DEF GiveUp
  <2> QED BY <1>0, <1>2, <2>1, <2>2
         DEF Incident, Unopened, Undispatched, NotEarly, SaveFirst, CloseUnderWay,
             Forgotten, LiveRecorded, EndedClosed, Excused, At, Raised
<1>3. CASE Saved
  <2>1. /\ UNCHANGED <<opened, live, row, raised, operator, acks>>
        /\ consumer.pc = "save" /\ ~Has("save", k)
    BY <1>3 DEF Saved, Resumed, Has
  <2>2. CASE Await("snapshot", k) /\ UNCHANGED <<jobs, run, cut>>
    <3>1. \A a : Has(a, i)' <=> Has(a, i)
      BY <2>2, SameHas
    <3>2. consumer'.pc = "snapshot" /\ consumer'.of = k
      BY <2>2 DEF Await
    <3> QED BY <1>0, <2>1, <2>2, <3>1, <3>2
         DEF Incident, Unopened, Undispatched, NotEarly, SaveFirst, CloseUnderWay,
             Forgotten, LiveRecorded, EndedClosed, Excused, At, Raised
  <2> QED BY <1>1, <1>2, <1>3, <2>1, <2>2 DEF Saved, GiveUp
<1>4. CASE SnapshotTaken
  <2>1. /\ UNCHANGED <<opened, live, row, raised, operator, acks, cut>>
        /\ consumer.pc = "snapshot"
    BY <1>4 DEF SnapshotTaken
  <2>2. CASE Await("evidence", k) /\ Submit("evidence", k) /\ UNCHANGED run
    <3>1. \A a : Has(a, i)' <=> Has(a, i) \/ (a = "evidence" /\ i = k)
      BY <2>2, SubmitHas
    <3>2. consumer'.pc = "evidence" /\ consumer'.of = k
      BY <2>2 DEF Await
    <3> QED BY <1>0, <2>1, <2>2, <3>1, <3>2
         DEF Incident, Unopened, Undispatched, NotEarly, SaveFirst, CloseUnderWay,
             Forgotten, LiveRecorded, EndedClosed, Excused, At, Raised
  <2> QED BY <1>1, <1>4, <2>1, <2>2 DEF SnapshotTaken
<1>5. CASE EvidenceSet
  <2>1. /\ UNCHANGED <<opened, live, row, raised, operator, acks, cut>>
        /\ consumer.pc = "evidence"
    BY <1>5 DEF EvidenceSet, Resumed
  <2> QED BY <1>1, <1>2, <1>5, <2>1 DEF EvidenceSet
<1>6. CASE Updated
  <2>1. /\ UNCHANGED <<opened, live, row, jobs, raised, run, operator, cut>>
        /\ consumer' = Idle /\ consumer.pc \in {"escalate", "close"}
        /\ \/ acks' = acks
           \/ /\ acks' = acks \cup {k} /\ consumer.pc = "close"
              /\ ~Has("close", k) /\ ~Raised("close", k)
    BY <1>6 DEF Updated, Resumed, Succeeded, Has, Raised
  <2>2. \A a : Has(a, i)' <=> Has(a, i)
    BY <2>1, SameHas
  <2> QED BY <1>0, <2>1, <2>2
         DEF Incident, Unopened, Undispatched, NotEarly, SaveFirst, CloseUnderWay,
             Forgotten, LiveRecorded, EndedClosed, Excused, At, Raised
<1> QED BY <1>3, <1>4, <1>5, <1>6 DEF ConsumerStep

LEMMA StoreSteps ==
  ASSUME TypeInv, NEW i \in Incidents, Incident(i), NEW j \in jobs,
         JobRuns(j) \/ JobRaises(j)
  PROVE  Incident(i)'
<1>0. /\ opened \in Nat /\ i \in Nat
      /\ row \in [Incidents -> [at : {"none", "open", "closed"}, verdict : BOOLEAN]]
  BY DEF TypeInv, TypeOK, Incidents
<1>1. PICK op \in Ops, k \in Incidents : j = Job(op, k)
  <2>1. j \in Jobs
    BY DEF TypeInv, TypeOK
  <2> QED BY <2>1 DEF Jobs, Job, Ops
<1>2. j.op = op /\ j.of = k /\ Has(op, k)
  BY <1>1, JobFields DEF Has
<1>3. UNCHANGED <<opened, live, consumer, run, operator, acks, cut>>
  BY DEF JobRuns, JobRaises
<1>4. \A a : Has(a, i)' <=> Has(a, i) /\ ~(a = op /\ i = k)
  BY <1>1, JobsDiffer DEF Has, JobRuns, JobRaises
<1>5. CASE JobRuns(j)
  <2> DEFINE n == Applied(j, row[k])
  <2>1. /\ n.at = IF op = "save" THEN "open"
                  ELSE IF row[k].at = "none" THEN "none"
                  ELSE IF op \in {"close", "opclose"} THEN "closed"
                  ELSE row[k].at
    BY <1>0, <1>2 DEF Applied
  <2>2. raised' = raised /\ row' = [row EXCEPT ![k] = n]
    BY <1>2, <1>5 DEF JobRuns
  <2> HIDE DEF n
  <2>3. row'[i] = IF i = k THEN n ELSE row[i]
    BY <1>0, <2>2
  <2>4. CASE i = k
    BY <1>0, <1>2, <1>3, <1>4, <2>1, <2>2, <2>3, <2>4
         DEF Incident, Unopened, Undispatched, NotEarly, SaveFirst, CloseUnderWay,
             Forgotten, LiveRecorded, EndedClosed, Excused, At, Raised
  <2>5. CASE i # k
    BY <1>0, <1>3, <1>4, <2>2, <2>3, <2>5
         DEF Incident, Unopened, Undispatched, NotEarly, SaveFirst, CloseUnderWay,
             Forgotten, LiveRecorded, EndedClosed, Excused, At, Raised
  <2> QED BY <2>4, <2>5
<1>6. CASE JobRaises(j)
  <2>1. row' = row /\ \A a : Raised(a, i)' <=> Raised(a, i) \/ (a = op /\ i = k)
    BY <1>1, <1>6, JobsDiffer DEF JobRaises, Raised
  <2> QED BY <1>0, <1>2, <1>3, <1>4, <2>1
         DEF Incident, Unopened, Undispatched, NotEarly, SaveFirst, CloseUnderWay,
             Forgotten, LiveRecorded, EndedClosed, Excused, At
<1> QED BY <1>5, <1>6

(* A request about incident k.                                             *)
LEMMA OperatorSteps ==
  ASSUME TypeInv, NEW i \in Incidents, Incident(i), NEW k \in Incidents,
         CancelIncident(k) \/ OperatorStep(k) \/ PhoneRings(k)
  PROVE  Incident(i)'
<1>0. /\ opened \in Nat /\ i \in Nat /\ NoIncident \notin Incidents
      /\ operator \in [Incidents -> OperatorState]
      /\ run \in [Incidents -> {"none", "running", "rang", "cancelled", "lost"}]
      /\ live \in Incidents \cup {NoIncident}
      /\ consumer.pc # "idle" => consumer.of \in Incidents
  BY PipelineAssumption DEF TypeInv, TypeOK, Incidents, OperatorState, ConsumerOK, Idle
<1>a. ASSUME NEW pc \in {"reviewing", "answered", "unknown", "error"},
             Becomes(k, pc), operator[k].pc # "none"
      PROVE  /\ operator'[i].early = operator[i].early
             /\ operator'[i].pc = "none" <=> operator[i].pc = "none"
  <2> DEFINE o == [operator[k] EXCEPT !.pc = pc]
  <2>1. operator' = [operator EXCEPT ![k] = o]
    BY <1>0, <1>a DEF Becomes
  <2>2. o.early = operator[k].early /\ o.pc = pc
    BY <1>0 DEF OperatorState
  <2> HIDE DEF o
  <2> QED BY <1>0, <1>a, <2>1, <2>2
<1>1. CASE CancelIncident(k)
  <2> DEFINE op == IF live = k THEN "opclose" ELSE "review"
             o == [pc |-> IF live = k THEN "closing" ELSE "reviewing",
                   stopped |-> live = k \/ run'[k] # run[k],
                   early |-> row[k].at = "none"]
  <2>1. /\ live' = IF live = k THEN NoIncident ELSE live
        /\ operator[k].pc = "none"
        /\ row[k].at # "none" \/ live = k
        /\ UNCHANGED <<opened, consumer, row, raised, acks, cut>>
    BY <1>1 DEF CancelIncident, Listed
  <2>2. \A a : Has(a, i)' <=> Has(a, i) \/ (a = op /\ i = k)
    BY <1>1, SubmitHas DEF CancelIncident
  <2>3. operator' = [operator EXCEPT ![k] = o]
    BY <1>1 DEF CancelIncident
  <2>4. o.pc # "none" /\ (o.early <=> row[k].at = "none")
    OBVIOUS
  <2> HIDE DEF o
  <2>5. operator'[i] = IF i = k THEN o ELSE operator[i]
    BY <1>0, <2>3
  <2>6. run[i] = "none" => run'[i] = "none"
    BY <1>0, <1>1 DEF CancelIncident
  <2>7. CASE i = k
    BY <1>0, <2>1, <2>2, <2>4, <2>5, <2>6, <2>7
         DEF Incident, Unopened, Undispatched, NotEarly, SaveFirst, CloseUnderWay,
             Forgotten, LiveRecorded, EndedClosed, Excused, At, Raised
  <2>8. CASE i # k
    BY <1>0, <2>1, <2>2, <2>5, <2>6, <2>8
         DEF Incident, Unopened, Undispatched, NotEarly, SaveFirst, CloseUnderWay,
             Forgotten, LiveRecorded, EndedClosed, Excused, At, Raised
  <2> QED BY <2>7, <2>8
<1>2. CASE OperatorStep(k)
  <2>1. UNCHANGED <<opened, live, consumer, row, raised, run, acks, cut>>
    BY <1>2 DEF OperatorStep, CancelClosed, CancelReviewed
  <2>2. \/ \A a : Has(a, i)' <=> Has(a, i)
        \/ \A a : Has(a, i)' <=> Has(a, i) \/ (a = "review" /\ i = k)
    <3>1. UNCHANGED jobs \/ Submit("review", k)
      BY <1>2 DEF OperatorStep, CancelClosed, CancelReviewed
    <3> QED BY <3>1, SameHas, SubmitHas
  <2>3. /\ operator'[i].early = operator[i].early
        /\ operator'[i].pc = "none" <=> operator[i].pc = "none"
    <3>1. operator[k].pc # "none"
      BY <1>2 DEF OperatorStep, CancelClosed, CancelReviewed
    <3>2. \E pc \in {"reviewing", "answered", "unknown", "error"} : Becomes(k, pc)
      BY <1>2 DEF OperatorStep, CancelClosed, CancelReviewed
    <3> QED BY <1>a, <3>1, <3>2
  <2>4. operator[k].pc # "none"
    BY <1>2 DEF OperatorStep, CancelClosed, CancelReviewed
  <2> QED BY <1>0, <2>1, <2>2, <2>3, <2>4
         DEF Incident, Unopened, Undispatched, NotEarly, SaveFirst, CloseUnderWay,
             Forgotten, LiveRecorded, EndedClosed, Excused, At, Raised
<1>3. CASE PhoneRings(k)
  <2>1. /\ UNCHANGED <<opened, live, consumer, row, raised, operator, acks, cut>>
        /\ run[i] = "none" => run'[i] = "none"
    BY <1>0, <1>3 DEF PhoneRings
  <2>2. \A a : Has(a, i)' <=> Has(a, i)
    BY <1>3, SameHas DEF PhoneRings
  <2> QED BY <1>0, <2>1, <2>2
         DEF Incident, Unopened, Undispatched, NotEarly, SaveFirst, CloseUnderWay,
             Forgotten, LiveRecorded, EndedClosed, Excused, At, Raised
<1> QED BY <1>1, <1>2, <1>3

LEMMA FaultSteps ==
  ASSUME TypeInv, NEW i \in Incidents, Incident(i),
         \/ \E new \in {"enabled", "disabled", "absent"} : Reload(new)
         \/ WorkerStops \/ WorkerStarts \/ Crash
  PROVE  Incident(i)'
<1>0. /\ opened \in Nat /\ i \in Nat /\ NoIncident \notin Incidents
      /\ operator \in [Incidents -> OperatorState]
      /\ live \in Incidents \cup {NoIncident}
      /\ consumer.pc # "idle" => consumer.of \in Incidents
      /\ Idle.pc = "idle" /\ Idle.of = NoIncident
  BY PipelineAssumption DEF TypeInv, TypeOK, Incidents, OperatorState, ConsumerOK, Idle
<1>1. ASSUME NEW new \in {"enabled", "disabled", "absent"}, Reload(new) PROVE Incident(i)'
  <2>1. /\ UNCHANGED <<opened, consumer, row, raised, run, operator, acks>>
        /\ live' = live \/ live' = NoIncident
        /\ cut' = cut \cup ({live} \ {live', NoIncident})
    BY <1>1 DEF Reload
  <2>2. \A a : Has(a, i)' <=> Has(a, i)
    BY <1>1, SameHas DEF Reload
  <2> QED BY <1>0, <2>1, <2>2
         DEF Incident, Unopened, Undispatched, NotEarly, SaveFirst, CloseUnderWay,
             Forgotten, LiveRecorded, EndedClosed, Excused, At, Raised
<1>2. CASE WorkerStops
  <2>1. /\ UNCHANGED <<opened, live, row, raised, run, operator, acks>>
        /\ consumer' = Idle /\ cut' = cut \cup ({consumer.of} \ {NoIncident})
    BY <1>2 DEF WorkerStops
  <2>2. \/ \A a : Has(a, i)' <=> Has(a, i)
        \/ \A a : Has(a, i)' <=> Has(a, i) /\ ~(a = consumer.pc /\ i = consumer.of)
    BY <1>2, JobsDiffer DEF WorkerStops, Has
  <2> QED BY <1>0, <2>1, <2>2
         DEF Incident, Unopened, Undispatched, NotEarly, SaveFirst, CloseUnderWay,
             Forgotten, LiveRecorded, EndedClosed, Excused, At, Raised
<1>3. CASE WorkerStarts
  <2>1. UNCHANGED <<opened, live, consumer, row, raised, run, operator, acks, cut>>
    BY <1>3 DEF WorkerStarts
  <2>2. \A a : Has(a, i)' <=> Has(a, i)
    BY <1>3, SameHas DEF WorkerStarts
  <2> QED BY <1>0, <2>1, <2>2
         DEF Incident, Unopened, Undispatched, NotEarly, SaveFirst, CloseUnderWay,
             Forgotten, LiveRecorded, EndedClosed, Excused, At, Raised
<1>4. CASE Crash
  <2>1. /\ UNCHANGED <<opened, row, raised>> /\ live' = NoIncident /\ consumer' = Idle
        /\ acks' = {} /\ cut \subseteq cut'
        /\ run[i] = "none" => run'[i] = "none"
        /\ i = live => i \in cut'
    BY <1>4 DEF Crash
  <2>2. \A a \in Ops : ~Has(a, i)'
    BY <1>4 DEF Crash, Has
  <2>3. \A a \in Ops : Has(a, i) => i \in cut'
    BY <1>4, JobFields DEF Crash, Has
  <2>4. /\ operator'[i].early = operator[i].early
        /\ operator'[i].pc = "none" <=> operator[i].pc = "none"
    BY <1>0, <1>4 DEF Crash, OperatorState
  <2> QED BY <1>0, <2>1, <2>2, <2>3, <2>4
         DEF Incident, Unopened, Undispatched, NotEarly, SaveFirst, CloseUnderWay,
             Forgotten, LiveRecorded, EndedClosed, Excused, At, Raised, Ops
<1> QED BY <1>1, <1>2, <1>3, <1>4

LEMMA PipelineInit == ASSUME Init PROVE PipelineInv
<1> SUFFICES ASSUME NEW i \in Incidents PROVE Incident(i)
  BY DEF PipelineInv
<1>0. /\ MaxIncidents \in Nat /\ NoIncident \notin Incidents
      /\ i \in Nat /\ i > 0 /\ Idle.pc = "idle" /\ Idle.of = NoIncident
  BY PipelineAssumption DEF Incidents, Idle
<1>1. /\ opened = 0 /\ live = NoIncident /\ consumer = Idle /\ acks = {} /\ cut = {}
      /\ row[i].at = "none" /\ run[i] = "none"
      /\ operator[i].pc = "none" /\ ~operator[i].early
      /\ \A a : ~Has(a, i)
  BY DEF Init, Has
<1> QED BY <1>0, <1>1
       DEF Incident, Unopened, Undispatched, NotEarly, SaveFirst, CloseUnderWay,
           Forgotten, LiveRecorded, EndedClosed, Excused, At

LEMMA PipelineStep == TypeInv /\ PipelineInv /\ [Next]_vars => PipelineInv'
<1> SUFFICES ASSUME TypeInv, PipelineInv, [Next]_vars, NEW i \in Incidents'
             PROVE  Incident(i)'
  BY DEF PipelineInv
<1>0. i \in Incidents /\ Incident(i)
  BY DEF PipelineInv, Incidents
<1>1. CASE UNCHANGED vars
  <2>1. \A a : Has(a, i)' <=> Has(a, i)
    BY <1>1, SameHas DEF vars
  <2> QED BY <1>0, <1>1, <2>1
         DEF vars, Incident, Unopened, Undispatched, NotEarly, SaveFirst, CloseUnderWay,
             Forgotten, LiveRecorded, EndedClosed, Excused, At, Raised
<1>2. CASE Opens \/ Escalates \/ Clears
  BY <1>0, <1>2, EngineSteps
<1>3. CASE ConsumerStep
  BY <1>0, <1>3, HandlerSteps
<1>4. CASE StoreStep
  BY <1>0, <1>4, StoreSteps DEF StoreStep
<1>5. CASE \E k \in Incidents : CancelIncident(k) \/ OperatorStep(k) \/ PhoneRings(k)
  BY <1>0, <1>5, OperatorSteps
<1>6. CASE \/ \E new \in {"enabled", "disabled", "absent"} : Reload(new)
           \/ WorkerStops \/ WorkerStarts \/ Crash
  BY <1>0, <1>6, FaultSteps
<1> QED BY <1>1, <1>2, <1>3, <1>4, <1>5, <1>6 DEF Next

LEMMA Invariants == Spec => [](TypeInv /\ PipelineInv)
<1> QED BY TypeInit, TypeStep, PipelineInit, PipelineStep, PTL DEF Spec

LEMMA SettledMatches ==
  ASSUME TypeInv, PipelineInv
  PROVE  SettledStoreMatchesEngine
<1> SUFFICES ASSUME Settled, NEW i \in Incidents
             PROVE  \/ row[i].at = "open" <=> live = i
                    \/ i \in cut \/ operator[i].early
                    \/ Failed(i, {"save", "close", "opclose"})
  BY DEF SettledStoreMatchesEngine
<1>1. Incident(i) /\ opened \in Nat /\ i \in Nat
  BY DEF PipelineInv, TypeInv, TypeOK, Incidents
<1>2. \A a : ~Has(a, i)
  BY DEF Settled, Has
<1>3. ASSUME NEW a \in {"save", "close", "opclose"}, Raised(a, i)
      PROVE  Failed(i, {"save", "close", "opclose"})
  BY <1>3, JobFields DEF Raised, Failed
<1>4. CASE live = i
  BY <1>1, <1>2, <1>3, <1>4 DEF Incident, LiveRecorded
<1>5. CASE live # i /\ i <= opened
  BY <1>1, <1>2, <1>3, <1>5 DEF Incident, EndedClosed, Excused
<1>6. CASE i > opened
  BY <1>1, <1>6 DEF Incident, Unopened
<1> QED BY <1>1, <1>4, <1>5, <1>6

(* Whenever no handler, cancel request, reload or store call is in flight, *)
(* the store lists as open just the incident that the engine holds open,   *)
(* in whatever order the store's threads ran the calls: the two disagree   *)
(* only where a call raised, a reload or a crash cut the work off, or a    *)
(* cancel came before the record (supervisor.py:245 and :343).             *)
THEOREM StoreMatches == Spec => []SettledStoreMatchesEngine
<1> QED BY Invariants, SettledMatches, PTL

(* The bus forgets an incident's acknowledgement only once the engine has  *)
(* closed it and the record says so (supervisor.py:245).                   *)
THEOREM ForgottenAreClosed == Spec => []ForgottenIsClosed
<1>1. TypeInv /\ PipelineInv => ForgottenIsClosed
  <2> SUFFICES ASSUME TypeInv, PipelineInv, NEW i \in acks
               PROVE  live # i /\ (row[i].at = "open" => i \in cut)
    BY DEF ForgottenIsClosed
  <2>1. i \in Incidents
    BY DEF TypeInv, TypeOK
  <2> QED BY <2>1 DEF PipelineInv, Incident, Forgotten
<1> QED BY <1>1, Invariants, PTL

-----------------------------------------------------------------------------
(* A cancelled run stays down.                                             *)

StopsRun(i) ==
  /\ operator[i].pc = "none" /\ operator'[i].pc # "none"
        => run'[i] \notin {"running", "rang"}
  /\ run[i] = "cancelled" => run'[i] \in {"cancelled", "lost"}

LEMMA ConsumerKeepsCancelled ==
  ASSUME TypeInv, PipelineInv, NEW i \in Incidents, ConsumerStep
  PROVE  StopsRun(i)
<1>0. /\ run \in [Incidents -> {"none", "running", "rang", "cancelled", "lost"}]
      /\ operator' = operator
      /\ consumer.pc # "idle" => consumer.of \in Incidents
  BY DEF TypeInv, TypeOK, ConsumerOK, Idle, ConsumerStep, Saved, SnapshotTaken,
         EvidenceSet, Updated
<1>1. CASE DispatchRun /\ consumer.pc \in {"save", "snapshot", "evidence"}
  <2>1. consumer.of \in Incidents /\ run[consumer.of] = "none"
    BY <1>0, <1>1 DEF PipelineInv, Incident, Undispatched, At
  <2> QED BY <1>0, <1>1, <2>1 DEF DispatchRun, StopsRun
<1>2. CASE run' = run
  BY <1>0, <1>2 DEF StopsRun
<1>3. run' = run \/ (DispatchRun /\ consumer.pc \in {"save", "snapshot", "evidence"})
  BY DEF ConsumerStep, Saved, SnapshotTaken, EvidenceSet, Updated, Resumed, GiveUp
<1> QED BY <1>1, <1>2, <1>3

LEMMA OperatorKeepsCancelled ==
  ASSUME TypeInv, NEW i \in Incidents, NEW k \in Incidents,
         CancelIncident(k) \/ OperatorStep(k) \/ PhoneRings(k)
  PROVE  StopsRun(i)
<1>0. /\ run \in [Incidents -> {"none", "running", "rang", "cancelled", "lost"}]
      /\ operator \in [Incidents -> OperatorState]
  BY DEF TypeInv, TypeOK, OperatorState
<1>1. CASE CancelIncident(k)
  <2> DEFINE o == [pc |-> IF live = k THEN "closing" ELSE "reviewing",
                   stopped |-> live = k \/ run'[k] # run[k],
                   early |-> row[k].at = "none"]
  <2>1. operator' = [operator EXCEPT ![k] = o]
    BY <1>1 DEF CancelIncident
  <2> HIDE DEF o
  <2>2. run' = [run EXCEPT ![k] = IF @ \in {"running", "rang"} THEN "cancelled" ELSE @]
    BY <1>1 DEF CancelIncident
  <2>3. run'[k] \notin {"running", "rang"} /\ (run[k] = "cancelled" => run'[k] = "cancelled")
    BY <1>0, <2>2
  <2>4. i # k => run'[i] = run[i] /\ operator'[i] = operator[i]
    BY <1>0, <2>1, <2>2
  <2> QED BY <2>3, <2>4 DEF StopsRun
<1>2. CASE OperatorStep(k)
  <2>1. run' = run /\ operator[k].pc # "none"
    BY <1>2 DEF OperatorStep, CancelClosed, CancelReviewed
  <2>2. i # k => operator'[i] = operator[i]
    <3>1. PICK pc \in {"reviewing", "answered", "unknown", "error"} : Becomes(k, pc)
      BY <1>2 DEF OperatorStep, CancelClosed, CancelReviewed
    <3> DEFINE o == [operator[k] EXCEPT !.pc = pc]
    <3>2. operator' = [operator EXCEPT ![k] = o]
      BY <1>0, <3>1 DEF Becomes
    <3> HIDE DEF o
    <3> QED BY <1>0, <3>2
  <2> QED BY <2>1, <2>2 DEF StopsRun
<1>3. CASE PhoneRings(k)
  BY <1>0, <1>3 DEF PhoneRings, StopsRun
<1> QED BY <1>1, <1>2, <1>3

LEMMA OthersKeepCancelled ==
  ASSUME TypeInv, NEW i \in Incidents,
         \/ Opens \/ Escalates \/ Clears \/ StoreStep
         \/ \E new \in {"enabled", "disabled", "absent"} : Reload(new)
         \/ WorkerStops \/ WorkerStarts \/ Crash \/ UNCHANGED vars
  PROVE  StopsRun(i)
<1>1. CASE Crash
  <2>1. operator \in [Incidents -> OperatorState]
    BY DEF TypeInv, TypeOK, OperatorState
  <2>2. operator[i].pc = "none" => operator'[i].pc = "none"
    BY <1>1, <2>1 DEF Crash, OperatorState
  <2>3. run'[i] \in {"none", "lost"} /\ (run[i] # "none" => run'[i] = "lost")
    BY <1>1 DEF Crash
  <2> QED BY <2>2, <2>3 DEF StopsRun
<1>2. CASE run' = run /\ operator' = operator
  BY <1>2 DEF StopsRun
<1>3. Crash \/ (run' = run /\ operator' = operator)
  BY DEF Opens, Escalates, Clears, StoreStep, JobRuns, JobRaises, Reload, WorkerStops,
         WorkerStarts, vars
<1> QED BY <1>1, <1>2, <1>3

(* An operator's cancel ends the escalation run it meets, and no step of   *)
(* any task, the consumer's dispatch that was under way included, starts   *)
(* that run again (supervisor.py:343, notify/dispatcher.py:123).           *)
THEOREM CancelStops == Spec => CancelStopsRun
<1>1. TypeInv /\ PipelineInv /\ [Next]_vars => [\A i \in Incidents : StopsRun(i)]_vars
  BY ConsumerKeepsCancelled, OperatorKeepsCancelled, OthersKeepCancelled DEF Next
<1>2. [\A i \in Incidents : StopsRun(i)]_vars
        <=> [\A i \in Incidents :
              /\ operator[i].pc = "none" /\ operator'[i].pc # "none"
                    => run'[i] \notin {"running", "rang"}
              /\ run[i] = "cancelled" => run'[i] \in {"cancelled", "lost"}]_vars
  BY DEF StopsRun
<1> QED BY <1>1, <1>2, Invariants, PTL DEF Spec, CancelStopsRun

===============================================================================
