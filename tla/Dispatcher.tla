----------------------------- MODULE Dispatcher -----------------------------
(***************************************************************************)
(* The alert dispatcher of firemex/notify: AlertDispatcher                 *)
(* (notify/dispatcher.py) with the acknowledgement bus and the cooldown    *)
(* store of notify/base.py, the Twilio channels being the environment.     *)
(*                                                                         *)
(* One asyncio task per incident runs `run`/`_execute`/`_try_contact`.     *)
(* The event loop switches tasks only at an await, so one action is the    *)
(* code between two awaits, and task[i].pc names the await where the task  *)
(* of incident i is suspended.  A provider request runs in a thread        *)
(* (asyncio.to_thread), which finishes on its own whatever happens to the  *)
(* task that started it.                                                   *)
(***************************************************************************)
EXTENDS Naturals, Sequences, FiniteSetsExt

CONSTANTS
    Incidents,      \* incidents the engine opens, each dispatched once
    Cameras,
    CameraOf,       \* incident.camera_id
    Contacts,
    Chain,          \* site.escalation_chain(camera_id), per camera
    Retries,        \* ContactConfig.retries, per contact
    HasSms,         \* contacts with "sms" in their channels
    HasCall,        \* contacts with "call" in their channels
    Renderable,     \* channels whose message template renders: a template
                    \* with an unknown placeholder makes str.format raise
    GraceDelay,     \* alerting.confirm_delay_seconds > 0
    Redis,          \* RedisCooldownStore in use, not the in-memory store
    Env,            \* the events of the surroundings this instance allows
    NoOne           \* the absent contact or incident (Python's None)

EnvEvents == {"close",    \* the engine closes an incident: AckBus.forget
              "lapse",    \* a camera's cooldown runs out
              "toggle",   \* a config reload flips shadow mode
              "outage",   \* the Redis request raises
              "stop"}     \* the supervisor stops

ASSUME ConstantsAssumption ==
    /\ CameraOf \in [Incidents -> Cameras]
    /\ Chain \in [Cameras -> Seq(Contacts)]
    /\ Retries \in [Contacts -> Nat]
    /\ HasSms \subseteq Contacts
    /\ HasCall \subseteq Contacts
    /\ Renderable \subseteq {"sms", "call"}
    /\ GraceDelay \in BOOLEAN
    /\ Redis \in BOOLEAN
    /\ Env \subseteq EnvEvents
    /\ NoOne \notin Contacts \cup Incidents

VARIABLES
    task,       \* per incident: the task, its DispatchRun and its calls
    ackedBy,    \* AckBus._acked_by
    claimant,   \* CooldownStore._seen: the incident that claimed the camera's
                \* running cooldown window, NoOne when no window is running
    closed,     \* incidents whose CLOSED event was handled, or cancelled
    shadow,     \* dispatcher.shadow_mode
    up          \* the supervisor has not been stopped

vars == <<task, ackedBy, claimant, closed, shadow, up>>

Suspended == {"created", "broadcast", "cooldown", "delayPub", "delay", "sms",
              "smsPub", "call", "callPub", "wait", "finish", "failPub",
              "cancelPub"}

Statuses == {"no_run", "shadow", "suppressed", "cancelled", "acknowledged",
             "exhausted", "no_contacts", "failed"}

(***************************************************************************)
(* pos and tries are the loop indices of _execute and _try_contact.        *)
(* waiter is the asyncio.Event the task waits on: "linked" while it is the *)
(* one the bus would set, "orphan" once forget() popped it.  request is    *)
(* the provider thread.  dialled, rang and logged record the calls handed  *)
(* to the provider, the contacts whose phone it rang, and the contacts     *)
(* with a call, QUEUED or FAILED, in run.attempts.                         *)
(***************************************************************************)
Task == [pc : Suspended \cup {"none", "done"},
         status : Statuses,
         by : Contacts \cup {NoOne},
         pos : Nat,
         tries : Nat,
         waiter : {"none", "linked", "orphan", "woken"},
         request : {"idle", "texting", "dialling", "queued", "failed"},
         cancelling : BOOLEAN,
         dialled : [Contacts -> Nat],
         rang : SUBSET Contacts,
         logged : SUBSET Contacts]

TypeOK ==
    /\ task \in [Incidents -> Task]
    /\ ackedBy \in [Incidents -> Contacts \cup {NoOne}]
    /\ claimant \in [Cameras -> Incidents \cup {NoOne}]
    /\ closed \subseteq Incidents
    /\ shadow \in BOOLEAN
    /\ up \in BOOLEAN

NoTask == [pc |-> "none", status |-> "no_run", by |-> NoOne, pos |-> 0,
           tries |-> 0, waiter |-> "none", request |-> "idle",
           cancelling |-> FALSE, dialled |-> [c \in Contacts |-> 0],
           rang |-> {}, logged |-> {}]

Init ==
    /\ task = [i \in Incidents |-> NoTask]
    /\ ackedBy = [i \in Incidents |-> NoOne]
    /\ claimant = [c \in Cameras |-> NoOne]
    /\ closed = {}
    /\ shadow \in BOOLEAN
    /\ up = TRUE

-----------------------------------------------------------------------------
(* What the code between two awaits makes of a task record t.              *)

IsAcknowledged(i) == ackedBy[i] # NoOne

ChainOf(i) == Chain[CameraOf[i]]

Contact(i) == ChainOf(i)[task[i].pos]

Finish(t, status) == [t EXCEPT !.pc = "finish", !.status = status]

(* Mutant: the exception is noted but the task does not end.               *)
Fail_Unhandled(t) == [t EXCEPT !.status = "failed"]

Fail(t) == [t EXCEPT !.pc = "failPub", !.status = "failed"]

FinishAcknowledged(i, t, c) ==
    [Finish(t, "acknowledged") EXCEPT
        !.by = IF IsAcknowledged(i) THEN ackedBy[i] ELSE c]

SendSms(t) ==
    IF "sms" \in Renderable
    THEN [t EXCEPT !.pc = "sms", !.request = "texting"]
    ELSE Fail(t)

PlaceCall(t, c) ==
    IF "call" \in Renderable
    THEN [t EXCEPT !.pc = "call", !.request = "dialling",
                   !.tries = @ + 1, !.dialled[c] = @ + 1]
    ELSE Fail(t)

TryContact(t, c) == IF c \in HasSms THEN SendSms(t) ELSE PlaceCall(t, c)

(* The contacts from position k on that make _try_contact await something; *)
(* the others return is_acknowledged() at once.                            *)
Ahead(i, k) ==
    {j \in k .. Len(ChainOf(i)) : ChainOf(i)[j] \in HasSms \cup HasCall}

Walk(i, t, k) ==
    IF IsAcknowledged(i) /\ k \in 1 .. Len(ChainOf(i)) \ Ahead(i, k)
    THEN FinishAcknowledged(i, t, ChainOf(i)[k])
    ELSE IF Ahead(i, k) = {}
    THEN Finish(t, "exhausted")
    ELSE LET j == Min(Ahead(i, k))
         IN  TryContact([t EXCEPT !.pos = j, !.tries = 0], ChainOf(i)[j])

(* Mutant: no look at the bus after the last timeout.                      *)
ContactTried_Unchecked(i, t) == Walk(i, t, t.pos + 1)

(* Mutant: the loop goes two contacts on.                                  *)
ContactTried_Skips(i, t) ==
    IF IsAcknowledged(i)
    THEN FinishAcknowledged(i, t, ChainOf(i)[t.pos])
    ELSE Walk(i, t, t.pos + 2)

(* The return of _try_contact: is_acknowledged(), checked once more.       *)
ContactTried(i, t) ==
    IF IsAcknowledged(i)
    THEN FinishAcknowledged(i, t, ChainOf(i)[t.pos])
    ELSE Walk(i, t, t.pos + 1)

(* Mutant: one attempt short.                                              *)
NextAttempt_OneShort(i, t) ==
    IF t.tries < Retries[ChainOf(i)[t.pos]]
    THEN PlaceCall(t, ChainOf(i)[t.pos])
    ELSE ContactTried(i, t)

NextAttempt(i, t) ==
    IF t.tries <= Retries[ChainOf(i)[t.pos]]
    THEN PlaceCall(t, ChainOf(i)[t.pos])
    ELSE ContactTried(i, t)

AlertOrGrace(i, t) ==
    IF ChainOf(i) = <<>> THEN Finish(t, "no_contacts")
    ELSE IF GraceDelay THEN [t EXCEPT !.pc = "delayPub"]
    ELSE Walk(i, t, 1)

-----------------------------------------------------------------------------
(* Steps of the task of incident i.  A task with a pending cancellation    *)
(* receives CancelledError instead of resuming.                            *)

(* Mutant: the cancellation is swallowed where the task is suspended.      *)
Resumes_Shielded(i, at) == task[i].pc = at

Resumes(i, at) == task[i].pc = at /\ ~task[i].cancelling

Become(i, t) == task' = [task EXCEPT ![i] = t]

Begin(i) ==
    /\ Resumes(i, "created")
    /\ Become(i, [task[i] EXCEPT !.pc = "broadcast", !.status = "shadow"])
    /\ UNCHANGED <<ackedBy, claimant, closed, shadow, up>>

Cooling(i) == claimant[CameraOf[i]] # NoOne

(* Mutant: the cooldown is checked but not claimed.                        *)
ShouldAlert_Unclaimed(i) ==
    IF Cooling(i)
    THEN Become(i, Finish(task[i], "suppressed")) /\ UNCHANGED claimant
    ELSE Become(i, AlertOrGrace(i, task[i])) /\ UNCHANGED claimant

(* should_alert: one winner per camera and window.                         *)
ShouldAlert(i) ==
    IF Cooling(i)
    THEN /\ Become(i, Finish(task[i], "suppressed"))
         /\ UNCHANGED claimant
    ELSE /\ Become(i, AlertOrGrace(i, task[i]))
         /\ claimant' = [claimant EXCEPT ![CameraOf[i]] = i]

(* The webhooks are sent; shadow_mode is read here, once.  The in-memory   *)
(* cooldown store answers without suspending, Redis does not.              *)
Broadcasted(i) ==
    /\ Resumes(i, "broadcast")
    /\ \/ /\ shadow
          /\ Become(i, Finish(task[i], "shadow"))
          /\ UNCHANGED claimant
       \/ /\ ~shadow /\ Redis
          /\ Become(i, [task[i] EXCEPT !.pc = "cooldown"])
          /\ UNCHANGED claimant
       \/ /\ ~shadow /\ ~Redis
          /\ ShouldAlert(i)
    /\ UNCHANGED <<ackedBy, closed, shadow, up>>

CooldownAnswered(i) ==
    /\ Resumes(i, "cooldown")
    /\ ShouldAlert(i)
    /\ UNCHANGED <<ackedBy, closed, shadow, up>>

(* A Redis request that ends without an answer may have set the key.       *)
MaybeClaim(i) ==
    \/ UNCHANGED claimant
    \/ /\ ~Cooling(i)
       /\ claimant' = [claimant EXCEPT ![CameraOf[i]] = i]

CooldownRaises(i) ==
    /\ "outage" \in Env
    /\ Resumes(i, "cooldown")
    /\ Become(i, Fail(task[i]))
    /\ MaybeClaim(i)
    /\ UNCHANGED <<ackedBy, closed, shadow, up>>

GracePublished(i) ==
    /\ Resumes(i, "delayPub")
    /\ Become(i, [task[i] EXCEPT !.pc = "delay"])
    /\ UNCHANGED <<ackedBy, claimant, closed, shadow, up>>

GraceEnds(i) ==
    /\ Resumes(i, "delay")
    /\ Become(i, Walk(i, task[i], 1))
    /\ UNCHANGED <<ackedBy, claimant, closed, shadow, up>>

SmsReturns(i) ==
    /\ Resumes(i, "sms")
    /\ task[i].request # "texting"
    /\ Become(i, [task[i] EXCEPT !.pc = "smsPub", !.request = "idle"])
    /\ UNCHANGED <<ackedBy, claimant, closed, shadow, up>>

SmsPublished(i) ==
    /\ Resumes(i, "smsPub")
    /\ Become(i, IF Contact(i) \in HasCall
                 THEN PlaceCall(task[i], Contact(i))
                 ELSE ContactTried(i, task[i]))
    /\ UNCHANGED <<ackedBy, claimant, closed, shadow, up>>

(* Mutant: the attempt is recorded only once its answer is awaited.        *)
CallReturns_Unlogged(i) ==
    /\ Resumes(i, "call")
    /\ task[i].request # "dialling"
    /\ Become(i, [task[i] EXCEPT !.pc = "callPub"])
    /\ UNCHANGED <<ackedBy, claimant, closed, shadow, up>>

CallReturns(i) ==
    /\ Resumes(i, "call")
    /\ task[i].request # "dialling"
    /\ Become(i, [task[i] EXCEPT !.pc = "callPub",
                                 !.logged = @ \cup {Contact(i)}])
    /\ UNCHANGED <<ackedBy, claimant, closed, shadow, up>>

(* After a FAILED attempt the next one follows with no look at the bus;    *)
(* after a QUEUED one AckBus.wait returns at once or waits on the event.   *)
CallPublished(i) ==
    /\ Resumes(i, "callPub")
    /\ LET t == [task[i] EXCEPT !.request = "idle"]
       IN  Become(i,
             IF task[i].request = "failed" THEN NextAttempt(i, t)
             ELSE IF IsAcknowledged(i)
             THEN FinishAcknowledged(i, t, Contact(i))
             ELSE [t EXCEPT !.pc = "wait", !.waiter = "linked"])
    /\ UNCHANGED <<ackedBy, claimant, closed, shadow, up>>

WaitWoken(i) ==
    /\ Resumes(i, "wait")
    /\ task[i].waiter = "woken"
    /\ Become(i, FinishAcknowledged(i, [task[i] EXCEPT !.waiter = "none"],
                                    Contact(i)))
    /\ UNCHANGED <<ackedBy, claimant, closed, shadow, up>>

(* Mutant: a wait with no timeout.                                         *)
WaitTimesOut_Never(i) == WaitWoken(i)

(* asyncio.wait_for may still time out although the event is set: the      *)
(* timer can fire before the woken task runs.                              *)
WaitTimesOut(i) ==
    /\ Resumes(i, "wait")
    /\ Become(i, NextAttempt(i, [task[i] EXCEPT !.waiter = "none"]))
    /\ UNCHANGED <<ackedBy, claimant, closed, shadow, up>>

LastPublished(i) ==
    /\ task[i].pc \in {"finish", "failPub", "cancelPub"}
    /\ ~task[i].cancelling
    /\ Become(i, [task[i] EXCEPT !.pc = "done"])
    /\ UNCHANGED <<ackedBy, claimant, closed, shadow, up>>

(* CancelledError is raised where the task is suspended.  run() never      *)
(* started: it ends with no DispatchRun.  In the handlers of run() nothing *)
(* catches it.  Anywhere else run() marks the run and publishes it.  A     *)
(* result the provider thread had ready is lost.                           *)
CancelArrives(i) ==
    /\ task[i].cancelling
    /\ task[i].pc \in Suspended
    /\ LET t == [task[i] EXCEPT !.cancelling = FALSE, !.waiter = "none"]
       IN  Become(i, IF t.pc \in {"created", "failPub", "cancelPub"}
                     THEN [t EXCEPT !.pc = "done"]
                     ELSE [t EXCEPT !.pc = "cancelPub",
                                    !.status = "cancelled"])
    /\ IF task[i].pc = "cooldown" THEN MaybeClaim(i) ELSE UNCHANGED claimant
    /\ UNCHANGED <<ackedBy, closed, shadow, up>>

-----------------------------------------------------------------------------
(* Calls into the dispatcher, the provider and the clock.                  *)

(* The supervisor dispatches an incident once, when the engine opens it.   *)
Dispatch(i) ==
    /\ up
    /\ task[i].pc = "none"
    /\ Become(i, [task[i] EXCEPT !.pc = "created"])
    /\ UNCHANGED <<ackedBy, claimant, closed, shadow, up>>

(* An operator cancels: task.cancel(), and the run is marked at once.      *)
Cancel(i) ==
    /\ task[i].pc \in Suspended
    /\ Become(i, [task[i] EXCEPT
                    !.cancelling = TRUE,
                    !.status = IF @ = "no_run" THEN @ ELSE "cancelled"])
    /\ closed' = closed \cup {i}
    /\ UNCHANGED <<ackedBy, claimant, shadow, up>>

(* Mutant: the incident is recorded in place of the contact.               *)
Acknowledge_Swapped(i, c) ==
    /\ c \in task[i].rang
    /\ ~IsAcknowledged(i)
    /\ ackedBy' = [ackedBy EXCEPT ![i] = i]
    /\ Become(i, [task[i] EXCEPT
                    !.by = c,
                    !.waiter = IF @ = "linked" THEN "woken" ELSE @])
    /\ UNCHANGED <<claimant, closed, shadow, up>>

(* A contact whose phone rang presses 1.                                   *)
Acknowledge(i, c) ==
    /\ c \in task[i].rang
    /\ ~IsAcknowledged(i)
    /\ ackedBy' = [ackedBy EXCEPT ![i] = c]
    /\ Become(i, [task[i] EXCEPT
                    !.by = c,
                    !.waiter = IF @ = "linked" THEN "woken" ELSE @])
    /\ UNCHANGED <<claimant, closed, shadow, up>>

(* The engine closes the incident and the supervisor calls forget().       *)
Forget(i) ==
    /\ "close" \in Env
    /\ task[i].pc # "none" /\ i \notin closed
    /\ closed' = closed \cup {i}
    /\ ackedBy' = [ackedBy EXCEPT ![i] = NoOne]
    /\ Become(i, [task[i] EXCEPT
                    !.waiter = IF @ = "linked" THEN "orphan" ELSE @])
    /\ UNCHANGED <<claimant, shadow, up>>

(* The provider makes the phone ring while its answer is still on the way, *)
(* or lost: whether the client then returns, raises or hangs is open.      *)
PhoneRings(i) ==
    /\ task[i].request = "dialling"
    /\ Become(i, [task[i] EXCEPT !.rang = @ \cup {Contact(i)}])
    /\ UNCHANGED <<ackedBy, claimant, closed, shadow, up>>

(* The provider thread ends: the request is accepted, and a call makes the *)
(* phone ring, whether or not the task still waits for the answer.         *)
RequestQueued(i) ==
    /\ task[i].request \in {"texting", "dialling"}
    /\ Become(i, [task[i] EXCEPT
                    !.request = "queued",
                    !.rang = IF task[i].request = "dialling"
                             THEN @ \cup {Contact(i)} ELSE @])
    /\ UNCHANGED <<ackedBy, claimant, closed, shadow, up>>

RequestFailed(i) ==
    /\ task[i].request \in {"texting", "dialling"}
    /\ Become(i, [task[i] EXCEPT !.request = "failed"])
    /\ UNCHANGED <<ackedBy, claimant, closed, shadow, up>>

WindowLapses(c) ==
    /\ "lapse" \in Env
    /\ claimant[c] # NoOne
    /\ claimant' = [claimant EXCEPT ![c] = NoOne]
    /\ UNCHANGED <<task, ackedBy, closed, shadow, up>>

ToggleShadow ==
    /\ "toggle" \in Env
    /\ shadow' = ~shadow
    /\ UNCHANGED <<task, ackedBy, claimant, closed, up>>

(* Supervisor.stop: no camera feeds the dispatcher any more and shutdown() *)
(* cancels every unfinished task, leaving the status to its handler.       *)
Shutdown ==
    /\ "stop" \in Env
    /\ up
    /\ up' = FALSE
    /\ task' = [i \in Incidents |->
                  [task[i] EXCEPT !.cancelling = @ \/ task[i].pc \in Suspended]]
    /\ UNCHANGED <<ackedBy, claimant, closed, shadow>>

(* What the event loop does by itself; the other steps of a run are the    *)
(* answers of Redis.                                                       *)
LocalStep(i) ==
    \/ Begin(i) \/ Broadcasted(i)
    \/ GracePublished(i) \/ GraceEnds(i) \/ SmsReturns(i) \/ SmsPublished(i)
    \/ CallReturns(i) \/ CallPublished(i) \/ WaitWoken(i) \/ WaitTimesOut(i)
    \/ LastPublished(i) \/ CancelArrives(i)

RunStep(i) == LocalStep(i) \/ CooldownAnswered(i) \/ CooldownRaises(i)

ProviderStep(i) == PhoneRings(i) \/ RequestQueued(i) \/ RequestFailed(i)

Next ==
    \/ \E i \in Incidents :
         \/ RunStep(i) \/ ProviderStep(i) \/ Dispatch(i) \/ Cancel(i)
         \/ Forget(i) \/ \E c \in Contacts : Acknowledge(i, c)
    \/ \E c \in Cameras : WindowLapses(c)
    \/ ToggleShadow
    \/ Shutdown

Spec == Init /\ [][Next]_vars

(* The event loop runs every ready task and every timer; the webhooks are  *)
(* posted with a timeout and the store answers or raises.  Nothing makes   *)
(* Redis or Twilio answer: both clients are built without a timeout, and   *)
(* no wait_for bounds what awaits them.                                    *)
FairSpec == Spec /\ \A i \in Incidents : WF_vars(LocalStep(i))

-----------------------------------------------------------------------------
(* What the dispatcher promises.                                           *)

Stopped(t) == t.cancelling \/ t.status = "cancelled"

(* De-duplication: within one cooldown window at most one incident of a    *)
(* camera reaches a contact, however many runs are in flight at the check. *)
OneSequencePerWindow ==
    "lapse" \notin Env =>
        \A i, j \in Incidents :
            CameraOf[i] = CameraOf[j] /\ task[i].pos > 0 /\ task[j].pos > 0
                => i = j

(* A run marked EXHAUSTED has called every contact of the chain that takes *)
(* calls, as often as the contact's retries ask.                           *)
ExhaustedTriedEveryone ==
    \A i \in Incidents : task[i].status = "exhausted" =>
        \A k \in 1 .. Len(ChainOf(i)) :
            LET c == ChainOf(i)[k]
            IN  c \in HasCall => task[i].dialled[c] > Retries[c]

(* Once an operator or a shutdown stops a run, no request to the provider  *)
(* is started for it and CANCELLED is its last word.                       *)
CancelIsFinal ==
    [][\A i \in Incidents : Stopped(task[i]) =>
         /\ task'[i].dialled = task[i].dialled
         /\ task'[i].request \in {"texting", "dialling"}
              => task'[i].request = task[i].request
         /\ task[i].status = "cancelled" => task'[i].status = "cancelled"]_vars

(* Once an acknowledgement was accepted nobody further down the chain is   *)
(* contacted, as long as the incident is open (is_acknowledged is read     *)
(* after every contact, and only forget() drops what it reads).            *)
AckStopsEscalation ==
    [][\A i \in Incidents :
         task[i].by # NoOne /\ i \notin closed
            => task'[i].pos = task[i].pos]_vars

(* The audit trail of a run that was not cancelled holds every call that   *)
(* made a phone ring: run.attempts gets a call before anything else can    *)
(* end the run.                                                            *)
RecordedUnlessCancelled ==
    \A i \in Incidents :
        task[i].pc = "done" /\ task[i].status # "cancelled"
            => task[i].rang \subseteq task[i].logged

(* The run awaits a request that Redis or the provider has not answered.   *)
Unanswered(t) ==
    /\ ~t.cancelling
    /\ \/ t.pc = "cooldown"
       \/ t.pc \in {"sms", "call"} /\ t.request \in {"texting", "dialling"}

(* Every dispatched incident's run ends, or hangs for ever in one request  *)
(* that is never answered; nothing else keeps a run from its end, not even *)
(* a contact who never answers or an event that forget() unlinked, and a   *)
(* cancel ends a run that hangs.                                           *)
EveryRunEnds ==
    \A i \in Incidents :
        (task[i].pc = "created" ~> task[i].pc = "done") \/ <>[]Unanswered(task[i])

-----------------------------------------------------------------------------
(* The run of module Escalation that this module's task stands for: the    *)
(* attempts, the requests and the waiting disappear, and a status counts   *)
(* once the run ends with it.                                              *)

Phase(t) ==
    CASE t.pc = "none" -> "idle"
      [] t.pc \in {"created", "broadcast", "cooldown"} -> "pending"
      [] t.pc \in {"finish", "failPub", "cancelPub"} -> "ending"
      [] t.pc = "done" -> "over"
      [] t.pc \in {"delayPub", "delay", "sms", "smsPub", "call", "callPub", "wait"}
           -> "alerting"

Promised(t) ==
    [phase |-> Phase(t),
     halted |-> Stopped(t) /\ t.pc # "done",
     reached |-> t.pos,
     rang |-> t.rang,
     by |-> t.by,
     outcome |-> IF Phase(t) \in {"ending", "over"} THEN t.status ELSE "none"]

Promise == INSTANCE Escalation WITH
    Alertable <- HasSms \cup HasCall,
    run <- [i \in Incidents |-> Promised(task[i])],
    owner <- claimant

(* The dispatcher, with its tasks, threads, bus and cooldown store, does   *)
(* what Escalation says and nothing else (notify/dispatcher.py:1-17).      *)
KeepsPromise == Promise!Spec

-----------------------------------------------------------------------------
(* What the program says of itself and does not keep.                      *)

(* The contact who pressed 1 hears "Acknowledged. Escalation stopped.",    *)
(* whatever becomes of the incident.                                       *)
AckIsHeeded ==
    [][\A i \in Incidents :
         task[i].by # NoOne => task'[i].pos = task[i].pos]_vars

(* Redis is an optimisation (supervisor.py:202): that it cannot be asked   *)
(* leaves nobody uncalled about an incident.                               *)
OutageStillAlerts ==
    [][\A i \in Incidents :
         task[i].pc = "cooldown" /\ task'[i].pc # "cooldown" /\ ~task[i].cancelling
            => task'[i].status # "failed"]_vars

(* What suppresses an incident is an earlier alert of its camera: once all *)
(* runs are over, the contacts of one of them were reached.                *)
SuppressedByAnAlert ==
    \A i \in Incidents :
        /\ task[i].status = "suppressed"
        /\ \A j \in Incidents : task[j].pc \in {"none", "done"}
        => \E j \in Incidents : CameraOf[j] = CameraOf[i] /\ task[j].pos > 0

(* "Stop the instant anyone acknowledges" (README.md:232): no call is      *)
(* placed after an acknowledgement of an open incident.  The loop looks at *)
(* the bus after a contact and in the wait for an answer, not before a     *)
(* call that follows an SMS or a failed call.                              *)
AckStopsCalls ==
    [][\A i \in Incidents :
         task[i].by # NoOne /\ i \notin closed
            => task'[i].dialled = task[i].dialled]_vars
=============================================================================
