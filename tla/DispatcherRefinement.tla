------------------------ MODULE DispatcherRefinement ------------------------
(* Dispatcher implements Escalation, for every value of its constants:     *)
(* the invariant that is needed, one step of the abstract specification    *)
(* (or none) for every step of a task, and the theorem.                    *)
EXTENDS DispatcherProofs

-----------------------------------------------------------------------------
(* What the run of an incident looks like from outside.                    *)

RunOf == [i \in Incidents |-> Promised(task[i])]

(* A run that nobody has stopped.                                          *)
AsRun(phase, reached, rang, by, outcome) ==
  [phase |-> phase, halted |-> FALSE, reached |-> reached, rang |-> rang,
   by |-> by, outcome |-> outcome]

Free(t) == t \in Task /\ ~t.cancelling /\ t.status # "cancelled"

PendingPc == {"created", "broadcast", "cooldown"}
AlertingPc == Contacting \cup {"delayPub", "delay"}
EndingPc == {"finish", "failPub", "cancelPub"}

LEMMA PromisedOf ==
  ASSUME NEW t, Free(t)
  PROVE  /\ t.pc \in PendingPc =>
              Promised(t) = AsRun("pending", t.pos, t.rang, t.by, "none")
         /\ t.pc \in AlertingPc =>
              Promised(t) = AsRun("alerting", t.pos, t.rang, t.by, "none")
         /\ t.pc \in EndingPc =>
              Promised(t) = AsRun("ending", t.pos, t.rang, t.by, t.status)
<1>1. ASSUME t.pc \in PendingPc PROVE Phase(t) = "pending"
  BY <1>1 DEF Phase, PendingPc
<1>2. ASSUME t.pc \in AlertingPc PROVE Phase(t) = "alerting"
  BY <1>2 DEF Phase, AlertingPc, Contacting
<1>3. ASSUME t.pc \in EndingPc PROVE Phase(t) = "ending"
  BY <1>3 DEF Phase, EndingPc
<1> QED BY <1>1, <1>2, <1>3
        DEF Free, Stopped, Promised, AsRun, PendingPc, AlertingPc, EndingPc,
            Contacting

(* A task that becomes u makes its run the one u stands for, and no other. *)
LEMMA BecomesRun ==
  ASSUME TypeOK, NEW i \in Incidents, NEW u, Become(i, u)
  PROVE  /\ RunOf' = [RunOf EXCEPT ![i] = Promised(u)]
         /\ RunOf[i] = Promised(task[i])
<1>1. /\ task'[i] = u
      /\ \A j \in Incidents \ {i} : task'[j] = task[j]
  BY DEF Become, TypeOK
<1>2. RunOf' = [j \in Incidents |-> Promised(task'[j])]
  BY DEF RunOf, Promised, Phase, Stopped
<1> QED BY <1>1, <1>2 DEF RunOf

-----------------------------------------------------------------------------
(* The invariant of the requests and answers of a run.                     *)

(* A call is on its way while its task awaits it; where an answer is       *)
(* awaited the phone has rung; who acknowledged was rung, and the run of   *)
(* an open incident names just whom the bus names; a status is that of a   *)
(* run that has begun, and an ending run has one.                          *)
Answers(i, t) ==
  /\ t.pc = "call" => t.request \in {"dialling", "queued", "failed"}
  /\ t.pc = "callPub" => t.request \in {"queued", "failed"}
  /\ t.pc = "wait" \/ (t.pc \in {"call", "callPub"} /\ t.request = "queued")
       => ChainOf(i)[t.pos] \in t.rang
  /\ t.pc \in {"none", "created"} => t.status = "no_run"
  /\ t.pc \in EndingPc => t.status # "no_run"
  /\ IsAcknowledged(i) => ackedBy[i] \in t.rang
  /\ i \notin closed => t.by = ackedBy[i]

AnswerInv(i) == Answers(i, task[i])

(* What _try_contact and the loop around it make of a run: a new attempt,  *)
(* a new contact or an end.                                                *)
GoesOn(i, t, u) ==
  /\ u.pc \in {"sms", "call", "finish", "failPub"}
  /\ u.pc = "call" => u.request = "dialling"
  /\ u.pc \in EndingPc => u.status # "no_run"
  /\ u.rang = t.rang
  /\ u.by = t.by \/ (IsAcknowledged(i) /\ u.by = ackedBy[i])

(* The same seen from outside: Escalation's Onward, without its effect.    *)
Heard(i) == task[i].by # NoOne /\ i \notin closed

Advances(i, t, r) ==
  \/ r = AsRun("alerting", t.pos, t.rang, t.by, "none")
  \/ /\ ~Heard(i)
     /\ \E k \in 1 .. Len(ChainOf(i)) :
          /\ Promise!IsNext(i, t.pos, k)
          /\ r \in {AsRun("alerting", k, t.rang, t.by, "none"),
                    AsRun("ending", k, t.rang, t.by, "failed")}
  \/ /\ ~Heard(i) /\ Promise!IsLast(i, t.pos)
     /\ r = AsRun("ending", t.pos, t.rang, t.by, "exhausted")
  \/ \E c \in t.rang : /\ Heard(i) => c = t.by
                       /\ r = AsRun("ending", t.pos, t.rang, c, "acknowledged")
  \/ r = AsRun("ending", t.pos, t.rang, t.by, "failed")

(* A record of the run of i as the code between two awaits has it.         *)
Like(i, t) ==
  Free(t) /\ t.by = task[i].by /\ t.rang = task[i].rang

LEMMA FinishAdvances ==
  ASSUME NEW i \in Incidents, NEW t, Like(i, t), NEW o \in Outcomes
  PROVE  /\ GoesOn(i, t, Finish(t, o)) /\ GoesOn(i, t, Fail(t))
         /\ Promised(Finish(t, o)) = AsRun("ending", t.pos, t.rang, t.by, o)
         /\ Promised(Fail(t)) = AsRun("ending", t.pos, t.rang, t.by, "failed")
<1>1. /\ Free(Finish(t, o)) /\ Finish(t, o).pc = "finish"
      /\ Finish(t, o).status = o /\ Finish(t, o).pos = t.pos
      /\ Finish(t, o).rang = t.rang /\ Finish(t, o).by = t.by
  BY DEF Like, Free, Finish, Task, Outcomes, Suspended
<1>2. /\ Free(Fail(t)) /\ Fail(t).pc = "failPub"
      /\ Fail(t).status = "failed" /\ Fail(t).pos = t.pos
      /\ Fail(t).rang = t.rang /\ Fail(t).by = t.by
  BY DEF Like, Free, Fail, Task, Statuses, Suspended
<1>3. o # "no_run"
  BY DEF Outcomes
<1> QED BY <1>1, <1>2, <1>3, PromisedOf DEF GoesOn, EndingPc

LEMMA AcknowledgedAdvances ==
  ASSUME NEW i \in Incidents, NEW t, Like(i, t), AnswerInv(i),
         NEW c \in Contacts, IsAcknowledged(i) \/ c \in t.rang,
         ackedBy[i] \in Contacts \cup {NoOne}
  PROVE  /\ IsAcknowledged(i) => GoesOn(i, t, FinishAcknowledged(i, t, c))
         /\ FinishAcknowledged(i, t, c).pc = "finish"
         /\ FinishAcknowledged(i, t, c).status # "no_run"
         /\ FinishAcknowledged(i, t, c).rang = t.rang
         /\ ~Heard(i) \/ IsAcknowledged(i)
              => Advances(i, t, Promised(FinishAcknowledged(i, t, c)))
<1> DEFINE who == IF IsAcknowledged(i) THEN ackedBy[i] ELSE c
           u == FinishAcknowledged(i, t, c)
<1>1. who \in t.rang /\ who \in Contacts
  BY DEF AnswerInv, Answers, Like, IsAcknowledged
<1>2. /\ Free(u) /\ u.pc = "finish" /\ u.status = "acknowledged"
      /\ u.pos = t.pos /\ u.rang = t.rang /\ u.by = who
  BY <1>1 DEF Like, Free, FinishAcknowledged, Finish, Task, Suspended, Statuses
<1>3. Promised(u) = AsRun("ending", t.pos, t.rang, who, "acknowledged")
  BY <1>2, PromisedOf DEF EndingPc
<1>4. IsAcknowledged(i) /\ Heard(i) => who = t.by
  BY DEF AnswerInv, Answers, Like, Heard
<1> HIDE DEF u, who
<1>5. ~Heard(i) \/ IsAcknowledged(i) => Advances(i, t, Promised(u))
  BY <1>1, <1>3, <1>4 DEF Advances
<1>6. IsAcknowledged(i) => who = ackedBy[i]
  BY DEF who
<1> QED BY <1>2, <1>5, <1>6 DEF GoesOn, EndingPc, u

LEMMA CallAdvances ==
  ASSUME NEW i \in Incidents, NEW t, Like(i, t), NEW c \in Contacts
  PROVE  \A u \in {PlaceCall(t, c), TryContact(t, c)} :
           /\ GoesOn(i, t, u)
           /\ Promised(u) \in {AsRun("alerting", t.pos, t.rang, t.by, "none"),
                               AsRun("ending", t.pos, t.rang, t.by, "failed")}
<1> DEFINE Goal(u) ==
             /\ GoesOn(i, t, u)
             /\ Promised(u) \in {AsRun("alerting", t.pos, t.rang, t.by, "none"),
                                 AsRun("ending", t.pos, t.rang, t.by, "failed")}
           sms == [t EXCEPT !.pc = "sms", !.request = "texting"]
           call == [t EXCEPT !.pc = "call", !.request = "dialling",
                             !.tries = @ + 1, !.dialled[c] = @ + 1]
<1>1. Goal(Fail(t))
  <2>1. "exhausted" \in Outcomes
    BY DEF Outcomes, Statuses
  <2> QED BY <2>1, FinishAdvances
<1>2. Goal(sms)
  <2>1. /\ Free(sms) /\ sms.pc = "sms" /\ sms.request = "texting"
        /\ sms.pos = t.pos /\ sms.rang = t.rang /\ sms.by = t.by
    BY DEF Like, Free, Task, Suspended
  <2> HIDE DEF sms
  <2> QED BY <2>1, PromisedOf DEF GoesOn, EndingPc, AlertingPc, Contacting
<1>3. Goal(call)
  <2>1. /\ t.tries + 1 \in Nat
        /\ [t.dialled EXCEPT ![c] = @ + 1] \in [Contacts -> Nat]
    BY DEF Like, Free, Task
  <2>2. /\ Free(call) /\ call.pc = "call" /\ call.request = "dialling"
        /\ call.pos = t.pos /\ call.rang = t.rang /\ call.by = t.by
    BY <2>1 DEF Like, Free, Task, Suspended
  <2> HIDE DEF call
  <2> QED BY <2>2, PromisedOf DEF GoesOn, EndingPc, AlertingPc, Contacting
<1> HIDE DEF Goal, sms, call
<1>4. Goal(PlaceCall(t, c))
  BY <1>1, <1>3 DEF PlaceCall, call
<1>5. Goal(TryContact(t, c))
  BY <1>1, <1>2, <1>4 DEF TryContact, SendSms, sms
<1> QED BY <1>4, <1>5 DEF Goal

(* The walk down the chain, taken up where the run has come to.            *)
LEMMA WalkAdvances ==
  ASSUME NEW i \in Incidents, NEW t, Like(i, t), AnswerInv(i), ~IsAcknowledged(i)
  PROVE  /\ GoesOn(i, t, Walk(i, t, t.pos + 1))
         /\ Advances(i, t, Promised(Walk(i, t, t.pos + 1)))
<1> DEFINE k == t.pos + 1
           u == Walk(i, t, k)
<1> SUFFICES GoesOn(i, t, u) /\ Advances(i, t, Promised(u))
  OBVIOUS
<1>1. t.pos \in Nat /\ k \in Nat /\ k > 0 /\ ~Heard(i)
  BY DEF Like, Free, Task, AnswerInv, Answers, Heard, IsAcknowledged
<1>2. CASE Ahead(i, k) = {}
  <2>1. u = Finish(t, "exhausted")
    BY <1>2 DEF Walk
  <2>2. Promise!IsLast(i, t.pos)
    BY <1>2 DEF Promise!IsLast, Promise!ChainOf, Ahead, ChainOf
  <2>3. "exhausted" \in Outcomes
    BY DEF Outcomes, Statuses
  <2> HIDE DEF u
  <2> QED BY <1>1, <2>1, <2>2, <2>3, FinishAdvances DEF Advances
<1>3. CASE Ahead(i, k) # {}
  <2> DEFINE j == Min(Ahead(i, k))
             v == [t EXCEPT !.pos = j, !.tries = 0]
  <2>1. /\ j \in k .. Len(ChainOf(i)) /\ j \in 1 .. Len(ChainOf(i))
        /\ j \in Ahead(i, k) /\ \A n \in Ahead(i, k) : j <= n
    <3>1. Ahead(i, k) \subseteq Nat
      BY <1>1, ChainType DEF Ahead
    <3>2. j \in Ahead(i, k) /\ \A n \in Ahead(i, k) : j <= n
      BY <1>3, <3>1, MinOfNats
    <3> QED BY <1>1, <3>1, <3>2, ChainType DEF Ahead
  <2>2. u = TryContact(v, ChainOf(i)[j])
    BY <1>3 DEF Walk
  <2>3. /\ Like(i, v) /\ v.pos = j /\ v.rang = t.rang /\ v.by = t.by
        /\ ChainOf(i)[j] \in Contacts
    <3>1. j \in Nat /\ ChainOf(i)[j] \in Contacts
      BY <2>1, ChainType
    <3> HIDE DEF j
    <3> QED BY <3>1 DEF Like, Free, Task
  <2>4. Promise!IsNext(i, t.pos, j)
    <3>1. \A n \in k .. j - 1 : n \notin Ahead(i, k) /\ n \in k .. Len(ChainOf(i))
      BY <1>1, <2>1, ChainType
    <3> HIDE DEF j
    <3> QED BY <2>1, <3>1 DEF Promise!IsNext, Promise!ChainOf, Ahead, ChainOf
  <2> HIDE DEF j, v, u
  <2>5. /\ GoesOn(i, v, u)
        /\ Promised(u) \in {AsRun("alerting", v.pos, v.rang, v.by, "none"),
                            AsRun("ending", v.pos, v.rang, v.by, "failed")}
    BY <2>2, <2>3, CallAdvances
  <2> QED BY <1>1, <2>1, <2>3, <2>4, <2>5 DEF GoesOn, Advances
<1> QED BY <1>2, <1>3

LEMMA ContactAdvances ==
  ASSUME NEW i \in Incidents, NEW t, Like(i, t), InChain(i, t), AnswerInv(i),
         ackedBy[i] \in Contacts \cup {NoOne}
  PROVE  \A u \in {ContactTried(i, t), NextAttempt(i, t)} :
           GoesOn(i, t, u) /\ Advances(i, t, Promised(u))
<1> DEFINE c == ChainOf(i)[t.pos]
           Goal(u) == GoesOn(i, t, u) /\ Advances(i, t, Promised(u))
<1>1. c \in Contacts
  BY ChainType DEF InChain
<1>2. Goal(PlaceCall(t, c))
  BY <1>1, CallAdvances DEF Advances
<1>3. Goal(ContactTried(i, t))
  <2>1. CASE IsAcknowledged(i)
    BY <1>1, <2>1, AcknowledgedAdvances DEF ContactTried
  <2>2. CASE ~IsAcknowledged(i)
    BY <2>2, WalkAdvances DEF ContactTried
  <2> QED BY <2>1, <2>2
<1> HIDE DEF Goal
<1>4. Goal(NextAttempt(i, t))
  BY <1>2, <1>3 DEF NextAttempt
<1> QED BY <1>3, <1>4 DEF Goal

LEMMA GoesOnAnswers ==
  ASSUME NEW i \in Incidents, NEW t, Like(i, t), AnswerInv(i),
         NEW u, GoesOn(i, t, u)
  PROVE  Answers(i, u)
BY DEF Like, AnswerInv, Answers, GoesOn, EndingPc

-----------------------------------------------------------------------------
(* Runs of the abstract specification.                                     *)

LEMMA PromisedType ==
  ASSUME NEW t \in Task
  PROVE  Promised(t) \in Promise!Run
<1>1. Phase(t) \in {"idle", "pending", "alerting", "ending", "over"}
  BY DEF Phase, Task, Suspended
<1>2. /\ t.pos \in Nat /\ t.rang \in SUBSET Contacts
      /\ t.by \in Contacts \cup {NoOne} /\ t.status \in Statuses
  BY DEF Task
<1>3. (Stopped(t) /\ t.pc # "done") \in BOOLEAN
  BY DEF Stopped
<1> QED BY <1>1, <1>2, <1>3 DEF Promised, Promise!Run, Statuses

(* A run is known by its fields.                                           *)
LEMMA SameRun ==
  ASSUME NEW r \in Promise!Run, NEW s \in Promise!Run,
         s.phase = r.phase, s.halted = r.halted, s.reached = r.reached,
         s.rang = r.rang, s.by = r.by, s.outcome = r.outcome
  PROVE  s = r
BY DEF Promise!Run

(* The forms in which Escalation changes a run, for one nobody stopped.    *)
LEMMA AsRunType ==
  ASSUME NEW p \in {"pending", "alerting", "ending"}, NEW n \in Nat,
         NEW rang \in SUBSET Contacts, NEW by \in Contacts \cup {NoOne},
         NEW o \in Statuses \cup {"none"}
  PROVE  AsRun(p, n, rang, by, o) \in Promise!Run
BY DEF AsRun, Promise!Run, Statuses

LEMMA AsRunAlerted ==
  ASSUME NEW n \in Nat, NEW rang \in SUBSET Contacts,
         NEW by \in Contacts \cup {NoOne},
         NEW r \in {AsRun("pending", n, rang, by, "none"),
                   AsRun("alerting", n, rang, by, "none")}
  PROVE  [r EXCEPT !.phase = "alerting"] = AsRun("alerting", n, rang, by, "none")
<1>1. ASSUME NEW s, s = AsRun("alerting", n, rang, by, "none")
      PROVE  [r EXCEPT !.phase = "alerting"] = s
  <2> PICK p \in {"pending", "alerting"} : r = AsRun(p, n, rang, by, "none")
    OBVIOUS
  <2>1. r \in Promise!Run /\ s \in Promise!Run
    BY <1>1, AsRunType
  <2>2. /\ s.phase = "alerting" /\ s.halted = r.halted /\ s.reached = r.reached
        /\ s.rang = r.rang /\ s.by = r.by /\ s.outcome = r.outcome
    BY <1>1 DEF AsRun
  <2> QED BY <2>1, <2>2 DEF Promise!Run
<1> QED BY <1>1

LEMMA AsRunReached ==
  ASSUME NEW n \in Nat, NEW k \in Nat, NEW rang \in SUBSET Contacts,
         NEW by \in Contacts \cup {NoOne},
         NEW r, r = AsRun("alerting", n, rang, by, "none")
  PROVE  [r EXCEPT !.reached = k] = AsRun("alerting", k, rang, by, "none")
<1>1. ASSUME NEW s, s = AsRun("alerting", k, rang, by, "none"),
             NEW e, e = [r EXCEPT !.reached = k]
      PROVE  e = s
  <2>1. r \in Promise!Run /\ s \in Promise!Run
    BY <1>1, AsRunType
  <2>2. /\ s.phase = r.phase /\ s.halted = r.halted /\ s.reached = k
        /\ s.rang = r.rang /\ s.by = r.by /\ s.outcome = r.outcome
    BY <1>1 DEF AsRun
  <2>3. /\ e \in Promise!Run /\ e.phase = r.phase /\ e.halted = r.halted
        /\ e.reached = k /\ e.rang = r.rang /\ e.by = r.by
        /\ e.outcome = r.outcome
    BY <1>1, <2>1 DEF Promise!Run
  <2> QED BY <2>1, <2>2, <2>3, SameRun
<1> QED BY <1>1

LEMMA AsRunBy ==
  ASSUME NEW n \in Nat, NEW rang \in SUBSET Contacts,
         NEW b \in Contacts \cup {NoOne}, NEW c \in Contacts,
         NEW r, r = AsRun("alerting", n, rang, b, "none"),
         NEW e, e = [r EXCEPT !.by = c]
  PROVE  e = AsRun("alerting", n, rang, c, "none")
<1>1. ASSUME NEW s, s = AsRun("alerting", n, rang, c, "none")
      PROVE  e = s
  <2>1. r \in Promise!Run /\ s \in Promise!Run
    BY <1>1, AsRunType
  <2>2. /\ s.phase = r.phase /\ s.halted = r.halted /\ s.reached = r.reached
        /\ s.rang = r.rang /\ s.by = c /\ s.outcome = r.outcome
    BY <1>1 DEF AsRun
  <2> QED BY <2>1, <2>2 DEF Promise!Run
<1> QED BY <1>1

LEMMA AsRunEnding ==
  ASSUME NEW n \in Nat, NEW rang \in SUBSET Contacts,
         NEW by \in Contacts \cup {NoOne}, NEW o \in Statuses,
         NEW r \in {AsRun("pending", n, rang, by, "none"),
                   AsRun("alerting", n, rang, by, "none")}
  PROVE  Promise!Ending(r, o) = AsRun("ending", n, rang, by, o)
<1>1. ASSUME NEW s, s = AsRun("ending", n, rang, by, o)
      PROVE  Promise!Ending(r, o) = s
  <2> PICK p \in {"pending", "alerting"} : r = AsRun(p, n, rang, by, "none")
    OBVIOUS
  <2>1. r \in Promise!Run /\ s \in Promise!Run
    BY <1>1, AsRunType
  <2>2. /\ s.phase = "ending" /\ s.halted = r.halted /\ s.reached = r.reached
        /\ s.rang = r.rang /\ s.by = r.by /\ s.outcome = o
    BY <1>1 DEF AsRun
  <2> QED BY <2>1, <2>2 DEF Promise!Run, Promise!Ending
<1> QED BY <1>1

-----------------------------------------------------------------------------
(* Steps of the abstract run.                                              *)

LEMMA OnwardRun ==
  ASSUME TypeOK, NEW i \in Incidents, NEW u, Become(i, u),
         Free(task[i]), task[i].pc \in PendingPc \cup AlertingPc,
         Advances(i, task[i], Promised(u))
  PROVE  \/ Promise!Onward(i)
         \/ Promise!Goes(i, [RunOf[i] EXCEPT !.phase = "alerting"])
<1> PICK t : t = task[i]
  OBVIOUS
<1> PICK r : r = AsRun("alerting", t.pos, t.rang, t.by, "none")
  OBVIOUS
<1> DEFINE was == AsRun(RunOf[i].phase, t.pos, t.rang, t.by, "none")
<1>1. RunOf' = [RunOf EXCEPT ![i] = Promised(u)] /\ RunOf[i] = Promised(t)
  BY BecomesRun
<1>2. RunOf[i] = was /\ RunOf[i].phase \in {"pending", "alerting"}
  <2>1. CASE t.pc \in PendingPc
    <3>1. Promised(t) = AsRun("pending", t.pos, t.rang, t.by, "none")
      BY <2>1, PromisedOf
    <3>2. Promised(t).phase = "pending"
      BY <3>1 DEF AsRun
    <3> QED BY <1>1, <3>1, <3>2
  <2>2. CASE t.pc \in AlertingPc
    <3>1. Promised(t) = r
      BY <2>2, PromisedOf
    <3>2. Promised(t).phase = "alerting"
      BY <3>1 DEF AsRun
    <3> QED BY <1>1, <3>1, <3>2
  <2> QED BY <2>1, <2>2
<1>3. /\ t.pos \in Nat /\ t.rang \in SUBSET Contacts
      /\ t.by \in Contacts \cup {NoOne}
  BY DEF Free, Task
<1>4. [RunOf[i] EXCEPT !.phase = "alerting"] = r
  <2>1. RunOf[i] \in {AsRun("pending", t.pos, t.rang, t.by, "none"),
                     AsRun("alerting", t.pos, t.rang, t.by, "none")}
    BY <1>2
  <2> QED BY <1>3, <2>1, AsRunAlerted
<1>5. ASSUME NEW k \in Nat, NEW o \in Statuses
      PROVE  /\ [r EXCEPT !.reached = k] = AsRun("alerting", k, t.rang, t.by, "none")
             /\ Promise!Ending(r, o) = AsRun("ending", t.pos, t.rang, t.by, o)
             /\ Promise!Ending([r EXCEPT !.reached = k], o)
                   = AsRun("ending", k, t.rang, t.by, o)
  <2>1. [r EXCEPT !.reached = k] = AsRun("alerting", k, t.rang, t.by, "none")
    BY <1>3, AsRunReached
  <2>2. Promise!Ending(r, o) = AsRun("ending", t.pos, t.rang, t.by, o)
    BY <1>3, AsRunEnding
  <2>3. ASSUME NEW s, s = [r EXCEPT !.reached = k]
        PROVE  Promise!Ending(s, o) = AsRun("ending", k, t.rang, t.by, o)
    BY <1>3, <2>1, <2>3, AsRunEnding
  <2> QED BY <2>1, <2>2, <2>3
<1>6. ASSUME NEW c \in Contacts, NEW o \in Statuses
       PROVE  Promise!Ending([r EXCEPT !.by = c], o)
                = AsRun("ending", t.pos, t.rang, c, o)
  <2>1. ASSUME NEW e, e = [r EXCEPT !.by = c]
        PROVE  Promise!Ending(e, o) = AsRun("ending", t.pos, t.rang, c, o)
    <3>1. e = AsRun("alerting", t.pos, t.rang, c, "none")
      BY <1>3, <2>1, AsRunBy
    <3> QED BY <1>3, <3>1, AsRunEnding
  <2> QED BY <2>1
<1>7. r.reached = t.pos /\ r.rang = t.rang /\ r.by = t.by
  BY DEF AsRun
<1>8. Promise!Heeds(i) <=> Heard(i)
  <2>1. RunOf[i].by = t.by
    BY <1>2 DEF AsRun
  <2> QED BY <2>1 DEF Promise!Heeds, Heard, RunOf
<1>9. Promise!Goes(i, Promised(u))
  BY <1>1 DEF Promise!Goes, RunOf
<1>10. CASE Promised(u) = r
  BY <1>4, <1>9, <1>10
<1>11. ASSUME ~Heard(i), NEW k \in 1 .. Len(ChainOf(i)),
              Promise!IsNext(i, t.pos, k),
              Promised(u) \in {AsRun("alerting", k, t.rang, t.by, "none"),
                               AsRun("ending", k, t.rang, t.by, "failed")}
       PROVE  Promise!Onward(i)
  <2>1. "failed" \in Statuses /\ k \in Nat
    BY ChainType DEF Statuses
  <2>2. \/ Promise!Goes(i, [r EXCEPT !.reached = k])
        \/ Promise!Goes(i, Promise!Ending([r EXCEPT !.reached = k], "failed"))
    BY <1>5, <1>9, <1>11, <2>1
  <2>3. Promise!IsNext(i, r.reached, k) /\ ~Promise!Heeds(i)
    BY <1>7, <1>8, <1>11
  <2>4. k \in 1 .. Len(Promise!ChainOf(i))
    BY DEF Promise!ChainOf, ChainOf
  <2> QED BY <1>4, <2>2, <2>3, <2>4 DEF Promise!Onward, RunOf
<1>12. CASE /\ ~Heard(i) /\ Promise!IsLast(i, t.pos)
            /\ Promised(u) = AsRun("ending", t.pos, t.rang, t.by, "exhausted")
  <2>1. /\ "exhausted" \in Statuses /\ 0 \in Nat
    BY DEF Statuses
  <2>2. Promise!Goes(i, Promise!Ending(r, "exhausted"))
    BY <1>5, <1>9, <1>12, <2>1
  <2>3. Promise!IsLast(i, r.reached) /\ ~Promise!Heeds(i)
    BY <1>7, <1>8, <1>12
  <2> QED BY <1>4, <2>2, <2>3 DEF Promise!Onward, RunOf
<1>13. ASSUME NEW c \in t.rang, Heard(i) => c = t.by,
              Promised(u) = AsRun("ending", t.pos, t.rang, c, "acknowledged")
       PROVE  Promise!Onward(i)
  <2>1. "acknowledged" \in Statuses /\ c \in Contacts
    BY <1>3 DEF Statuses
  <2>2. Promise!Goes(i, Promise!Ending([r EXCEPT !.by = c], "acknowledged"))
    BY <1>9, <1>13, <1>6, <2>1
  <2>3. c \in r.rang /\ (Promise!Heeds(i) => c = r.by)
    BY <1>7, <1>8, <1>13
  <2> QED BY <1>4, <2>2, <2>3 DEF Promise!Onward, RunOf
<1>14. CASE Promised(u) = AsRun("ending", t.pos, t.rang, t.by, "failed")
  <2>1. /\ "failed" \in Statuses /\ 0 \in Nat
    BY DEF Statuses
  <2>2. Promise!Goes(i, Promise!Ending(r, "failed"))
    BY <1>5, <1>9, <1>14, <2>1
  <2> QED BY <1>4, <2>2 DEF Promise!Onward, RunOf
<1> QED BY <1>10, <1>11, <1>12, <1>13, <1>14 DEF Advances

LEMMA Changes ==
  ASSUME TypeOK, NEW i \in Incidents, NEW u, Become(i, u)
  PROVE  /\ Promise!Goes(i, Promised(u))
         /\ RunOf[i] = Promised(task[i])
         /\ Promised(u) = Promised(task[i]) => RunOf' = RunOf
<1>1. RunOf' = [RunOf EXCEPT ![i] = Promised(u)] /\ RunOf[i] = Promised(task[i])
  BY BecomesRun
<1> QED BY <1>1 DEF Promise!Goes, RunOf

LEMMA Stutters ==
  ASSUME TypeOK, NEW i \in Incidents, NEW u, Become(i, u),
         Promised(u) = Promised(task[i]), UNCHANGED <<claimant, closed>>
  PROVE  UNCHANGED Promise!vars
BY Changes DEF Promise!vars, RunOf

LEMMA PendingRun ==
  ASSUME NEW i \in Incidents, Free(task[i]), task[i].pc \in PendingPc
  PROVE  /\ RunOf[i] = AsRun("pending", task[i].pos, task[i].rang, task[i].by, "none")
         /\ RunOf[i].phase = "pending" /\ ~RunOf[i].halted
<1>1. RunOf[i] = AsRun("pending", task[i].pos, task[i].rang, task[i].by, "none")
  BY PromisedOf DEF RunOf
<1> QED BY <1>1 DEF AsRun

LEMMA AlertingRun ==
  ASSUME NEW i \in Incidents, Free(task[i]), task[i].pc \in AlertingPc
  PROVE  /\ RunOf[i] = AsRun("alerting", task[i].pos, task[i].rang, task[i].by, "none")
         /\ RunOf[i].phase = "alerting" /\ ~RunOf[i].halted
<1>1. RunOf[i] = AsRun("alerting", task[i].pos, task[i].rang, task[i].by, "none")
  BY PromisedOf DEF RunOf
<1> QED BY <1>1 DEF AsRun

(* A step on the way escalates, or is not seen.                            *)
LEMMA Escalated ==
  ASSUME TypeOK, NEW i \in Incidents, NEW u, Become(i, u),
         Free(task[i]), task[i].pc \in AlertingPc,
         Advances(i, task[i], Promised(u)), UNCHANGED <<claimant, closed>>
  PROVE  Promise!Escalates(i) \/ UNCHANGED Promise!vars
<1>1. RunOf[i].phase = "alerting" /\ ~RunOf[i].halted
  BY AlertingRun
<1>2. CASE Promise!Onward(i)
  BY <1>1, <1>2 DEF Promise!Escalates, RunOf
<1>3. CASE Promise!Goes(i, [RunOf[i] EXCEPT !.phase = "alerting"])
  <2>1. RunOf[i] \in Promise!Run
    BY PromisedType DEF RunOf, Free
  <2>2. [RunOf[i] EXCEPT !.phase = "alerting"] = RunOf[i]
    BY <1>1, <2>1 DEF Promise!Run
  <2>3. RunOf' = RunOf
    BY <1>3, <2>2 DEF Promise!Goes, RunOf
  <2> QED BY <2>3 DEF Promise!vars, RunOf
<1> QED BY <1>2, <1>3, OnwardRun

(* The invariant of the refinement.                                        *)
PInv == IInv /\ SInv /\ \A i \in Incidents : AnswerInv(i)

LEMMA ShouldAlertKeeps ==
  ASSUME PInv, NEW i \in Incidents, ShouldAlert(i), Free(task[i]),
         task[i].pc \in {"broadcast", "cooldown"}, UNCHANGED closed
  PROVE  /\ \E u : Become(i, u) /\ Answers(i, u)
         /\ Promise!Withheld(i) \/ Promise!Admitted(i)
<1> PICK t : t = task[i]
  OBVIOUS
<1>0. /\ TypeOK /\ Like(i, t) /\ Free(t) /\ t \in Task /\ AnswerInv(i)
      /\ t.pos = 0 /\ t.rang = {} /\ ~IsAcknowledged(i)
      /\ t.pc \in PendingPc
  BY DEF PInv, IInv, AckInv, TypeInv, Like, Free, Early, PendingPc
<1>1. /\ RunOf[i] = AsRun("pending", t.pos, t.rang, t.by, "none")
      /\ RunOf[i].phase = "pending" /\ ~RunOf[i].halted
  BY <1>0, PendingRun
<1>2. ASSUME NEW o \in Outcomes, Become(i, Finish(t, o))
      PROVE  Answers(i, Finish(t, o)) /\ Promise!Goes(i, Promise!Ending(RunOf[i], o))
  <2>1. /\ GoesOn(i, t, Finish(t, o))
        /\ Promised(Finish(t, o)) = AsRun("ending", t.pos, t.rang, t.by, o)
    BY <1>0, FinishAdvances
  <2>2. Promise!Goes(i, Promised(Finish(t, o)))
    BY <1>0, <1>2, Changes
  <2>3. /\ t.pos \in Nat /\ t.rang \in SUBSET Contacts
        /\ t.by \in Contacts \cup {NoOne} /\ o \in Statuses
    BY <1>0 DEF Task, Outcomes
  <2>4. Promise!Ending(RunOf[i], o) = AsRun("ending", t.pos, t.rang, t.by, o)
    BY <1>1, <2>3, AsRunEnding
  <2> QED BY <1>0, <2>1, <2>2, <2>4, GoesOnAnswers
<1>3. CASE Cooling(i)
  <2>1. Become(i, Finish(t, "suppressed")) /\ UNCHANGED claimant
    BY <1>3 DEF ShouldAlert
  <2>2. "suppressed" \in Outcomes
    BY DEF Outcomes, Statuses
  <2>3. Answers(i, Finish(t, "suppressed"))
        /\ Promise!Goes(i, Promise!Ending(RunOf[i], "suppressed"))
    BY <1>2, <2>1, <2>2
  <2>4. Promise!Withheld(i)
    BY <1>1, <1>3, <2>1, <2>3 DEF Promise!Withheld, Cooling, RunOf
  <2> QED BY <2>1, <2>3, <2>4
<1>4. CASE ~Cooling(i)
  <2>1. /\ Become(i, AlertOrGrace(i, t))
        /\ claimant' = [claimant EXCEPT ![CameraOf[i]] = i]
    BY <1>4 DEF ShouldAlert
  <2>2. Promise!Claimed(i)
    BY <1>4, <2>1 DEF Promise!Claimed, Cooling
  <2>3. CASE ChainOf(i) = <<>>
    <3>1. Become(i, Finish(t, "no_contacts")) /\ "no_contacts" \in Outcomes
      BY <2>1, <2>3 DEF AlertOrGrace, Outcomes, Statuses
    <3>2. Answers(i, Finish(t, "no_contacts"))
          /\ Promise!Goes(i, Promise!Ending(RunOf[i], "no_contacts"))
      BY <1>2, <3>1
    <3>3. Promise!Admitted(i)
      BY <1>1, <2>2, <2>3, <3>2 DEF Promise!Admitted, RunOf, Promise!ChainOf, ChainOf
    <3> QED BY <3>1, <3>2, <3>3
  <2>4. ASSUME NEW u, Become(i, u), Answers(i, u), ChainOf(i) # <<>>,
               Promise!Onward(i) \/ Promise!Goes(i, [RunOf[i] EXCEPT !.phase = "alerting"])
        PROVE  Promise!Admitted(i)
    BY <1>1, <2>2, <2>4 DEF Promise!Admitted, RunOf, Promise!ChainOf, ChainOf
  <2>5. CASE ChainOf(i) # <<>> /\ GraceDelay
    <3> DEFINE u == [t EXCEPT !.pc = "delayPub"]
    <3>1. Become(i, u)
      BY <2>1, <2>5 DEF AlertOrGrace
    <3>2. /\ Free(u) /\ u.pc = "delayPub" /\ u.pos = t.pos /\ u.rang = t.rang
          /\ u.by = t.by
      BY <1>0 DEF Free, Task, Suspended
    <3> HIDE DEF u
    <3>3. Promised(u) = AsRun("alerting", t.pos, t.rang, t.by, "none")
      BY <3>2, PromisedOf DEF AlertingPc
    <3>4. Advances(i, t, Promised(u))
      BY <3>3 DEF Advances
    <3>5. Answers(i, u)
      BY <1>0, <3>2 DEF AnswerInv, Answers, EndingPc
    <3> QED BY <1>0, <2>4, <2>5, <3>1, <3>4, <3>5, OnwardRun
  <2>6. CASE ChainOf(i) # <<>> /\ ~GraceDelay
    <3>1. Become(i, Walk(i, t, 1)) /\ t.pos + 1 = 1
      BY <1>0, <2>1, <2>6 DEF AlertOrGrace
    <3>2. GoesOn(i, t, Walk(i, t, 1)) /\ Advances(i, t, Promised(Walk(i, t, 1)))
      BY <1>0, <3>1, WalkAdvances
    <3>3. Answers(i, Walk(i, t, 1))
      BY <1>0, <3>2, GoesOnAnswers
    <3> QED BY <1>0, <2>4, <2>6, <3>1, <3>2, <3>3, OnwardRun
  <2> QED BY <2>3, <2>5, <2>6
<1> QED BY <1>3, <1>4

(* The forms in which Escalation ends a run.                               *)
Ended(r) == [r EXCEPT !.phase = "over", !.halted = FALSE]

Unbegun(r) == [r EXCEPT !.phase = "over", !.halted = FALSE, !.outcome = "no_run"]

LEMMA RunEnds ==
  ASSUME NEW r \in Promise!Run, NEW s \in Promise!Run,
         s.reached = r.reached, s.rang = r.rang, s.by = r.by
  PROVE  /\ s.phase = "over" /\ s.halted = FALSE /\ s.outcome = r.outcome =>
              s = Ended(r)
         /\ s.phase = "over" /\ s.halted = FALSE /\ s.outcome = "no_run" =>
              s = Unbegun(r)
         /\ s.phase = "ending" /\ s.halted = r.halted /\ s.outcome = "cancelled" =>
              s = Promise!Ending(r, "cancelled")
<1>1. ASSUME s.phase = "over", s.halted = FALSE, s.outcome = r.outcome,
             NEW e, e = Ended(r)
      PROVE  s = e
  <2>1. /\ e \in Promise!Run /\ e.phase = "over" /\ e.halted = FALSE
        /\ e.reached = r.reached /\ e.rang = r.rang /\ e.by = r.by
        /\ e.outcome = r.outcome
    BY <1>1 DEF Promise!Run, Ended
  <2> QED BY <1>1, <2>1, SameRun
<1>2. ASSUME s.phase = "over", s.halted = FALSE, s.outcome = "no_run",
             NEW e, e = Unbegun(r)
      PROVE  s = e
  <2>1. /\ e \in Promise!Run /\ e.phase = "over" /\ e.halted = FALSE
        /\ e.reached = r.reached /\ e.rang = r.rang /\ e.by = r.by
        /\ e.outcome = "no_run"
    BY <1>2 DEF Promise!Run, Unbegun
  <2> QED BY <1>2, <2>1, SameRun
<1>3. ASSUME s.phase = "ending", s.halted = r.halted, s.outcome = "cancelled",
             NEW e, e = Promise!Ending(r, "cancelled")
      PROVE  s = e
  <2>1. /\ e \in Promise!Run /\ e.phase = "ending" /\ e.halted = r.halted
        /\ e.reached = r.reached /\ e.rang = r.rang /\ e.by = r.by
        /\ e.outcome = "cancelled"
    BY <1>3 DEF Promise!Run, Promise!Ending
  <2> QED BY <1>3, <2>1, SameRun
<1> QED BY <1>1, <1>2, <1>3

(* The end of a run, published or cut short.                               *)
LEMMA LastKeeps ==
  ASSUME PInv, NEW i \in Incidents, LastPublished(i)
  PROVE  /\ \E u : Become(i, u) /\ Answers(i, u)
         /\ Promise!Over(i)
<1> PICK t : t = task[i]
  OBVIOUS
<1> DEFINE u == [t EXCEPT !.pc = "done"]
<1>0. TypeOK /\ t \in Task /\ Become(i, u) /\ t.pc \in EndingPc /\ AnswerInv(i)
  BY DEF PInv, IInv, TypeInv, TypeOK, LastPublished, EndingPc
<1>1. /\ u \in Task /\ u.pc = "done" /\ u.status = t.status /\ u.pos = t.pos
      /\ u.rang = t.rang /\ u.by = t.by
  BY <1>0 DEF Task
<1> HIDE DEF u
<1>2. RunOf[i] \in Promise!Run /\ Promised(u) \in Promise!Run
  BY <1>0, <1>1, PromisedType DEF RunOf
<1>3. /\ RunOf[i].phase = "ending" /\ RunOf[i].outcome = t.status
      /\ RunOf[i].reached = t.pos /\ RunOf[i].rang = t.rang /\ RunOf[i].by = t.by
  BY <1>0 DEF RunOf, Promised, Phase, EndingPc
<1>4. /\ Promised(u).phase = "over" /\ Promised(u).outcome = t.status
      /\ Promised(u).reached = t.pos /\ Promised(u).rang = t.rang
      /\ Promised(u).by = t.by /\ Promised(u).halted = FALSE
  BY <1>1 DEF Promised, Phase
<1>5. Promised(u) = Ended(RunOf[i])
  <2>1. ASSUME NEW r, r = RunOf[i], NEW s, s = Promised(u)
        PROVE  s = Ended(r)
    BY <1>2, <1>3, <1>4, <2>1, RunEnds
  <2> QED BY <2>1
<1>6. Promise!Goes(i, Ended(RunOf[i]))
  BY <1>0, <1>5, Changes
<1>7. Promise!Over(i)
  BY <1>3, <1>6 DEF Promise!Over, RunOf, LastPublished, Ended
<1>8. Answers(i, u)
  BY <1>0, <1>1 DEF AnswerInv, Answers, EndingPc
<1> QED BY <1>0, <1>7, <1>8

LEMMA CancelKeeps ==
  ASSUME PInv, NEW i \in Incidents, CancelArrives(i)
  PROVE  /\ \E u : Become(i, u) /\ Answers(i, u)
         /\ Promise!Aborted(i) \/ Promise!Over(i)
<1> PICK t : t = task[i]
  OBVIOUS
<1> DEFINE v == [t EXCEPT !.cancelling = FALSE, !.waiter = "none"]
<1>0. /\ TypeOK /\ t \in Task /\ AnswerInv(i) /\ StopInv(i)
      /\ t.cancelling /\ t.pc \in Suspended
  BY DEF PInv, SInv, IInv, TypeInv, TypeOK, CancelArrives
<1>1. /\ v \in Task /\ v.pc = t.pc /\ v.status = t.status /\ v.pos = t.pos
      /\ v.rang = t.rang /\ v.by = t.by /\ v.cancelling = FALSE
  BY <1>0 DEF Task
<1> HIDE DEF v
<1>2. /\ RunOf[i] \in Promise!Run /\ RunOf[i].halted = TRUE
      /\ RunOf[i].phase = Phase(t)
      /\ RunOf[i].reached = t.pos /\ RunOf[i].rang = t.rang /\ RunOf[i].by = t.by
      /\ RunOf[i].outcome = IF Phase(t) \in {"ending", "over"} THEN t.status
                            ELSE "none"
  BY <1>0, PromisedType DEF RunOf, Promised, Stopped, Suspended
<1>3. /\ t.pc \in PendingPc => Phase(t) = "pending"
      /\ t.pc \in EndingPc => Phase(t) = "ending"
  BY DEF Phase, PendingPc, EndingPc
<1>4. UNCHANGED closed /\ (t.pc = "cooldown" \/ UNCHANGED claimant)
  BY DEF CancelArrives
<1>5. Promise!Claimed(i) \/ UNCHANGED claimant
  BY DEF CancelArrives, MaybeClaim, Promise!Claimed, Cooling
<1>6. CASE t.pc \in {"created", "failPub", "cancelPub"}
  <2> DEFINE u == [v EXCEPT !.pc = "done"]
  <2>1. Become(i, u) /\ UNCHANGED claimant
    BY <1>4, <1>6 DEF CancelArrives, v
  <2>2. /\ u \in Task /\ u.pc = "done" /\ u.status = t.status /\ u.pos = t.pos
        /\ u.rang = t.rang /\ u.by = t.by
    BY <1>1 DEF Task
  <2> HIDE DEF u
  <2>3. /\ Promised(u) \in Promise!Run
        /\ Promised(u).phase = "over" /\ Promised(u).outcome = t.status
        /\ Promised(u).reached = t.pos /\ Promised(u).rang = t.rang
        /\ Promised(u).by = t.by /\ Promised(u).halted = FALSE
    BY <2>2, PromisedType DEF Promised, Phase
  <2>4. Promise!Goes(i, Promised(u))
    BY <1>0, <2>1, Changes
  <2>5. Answers(i, u)
    BY <1>0, <2>2 DEF AnswerInv, Answers, EndingPc
  <2>6. CASE t.pc = "created"
    <3>1. t.status = "no_run"
      BY <1>0, <2>6 DEF AnswerInv, Answers
    <3>2. Promised(u) = Unbegun(RunOf[i])
      <4>1. ASSUME NEW r, r = RunOf[i], NEW s, s = Promised(u)
            PROVE  s = Unbegun(r)
        BY <1>2, <2>3, <3>1, <4>1, RunEnds
      <4> QED BY <4>1
    <3>3. RunOf[i].phase = "pending"
      BY <1>2, <1>3, <2>6 DEF PendingPc
    <3>4. Promise!Aborted(i)
      BY <1>2, <1>4, <2>1, <2>4, <3>2, <3>3 DEF Promise!Aborted, RunOf, Unbegun
    <3> QED BY <2>1, <2>5, <3>4
  <2>7. CASE t.pc \in {"failPub", "cancelPub"}
    <3>1. RunOf[i].phase = "ending" /\ RunOf[i].outcome = t.status
      BY <1>2, <1>3, <2>7 DEF EndingPc
    <3>2. Promised(u) = Ended(RunOf[i])
      <4>1. ASSUME NEW r, r = RunOf[i], NEW s, s = Promised(u)
            PROVE  s = Ended(r)
        BY <1>2, <2>3, <3>1, <4>1, RunEnds
      <4> QED BY <4>1
    <3>3. Promise!Over(i)
      BY <1>4, <2>1, <2>4, <3>1, <3>2 DEF Promise!Over, RunOf, Ended
    <3> QED BY <2>1, <2>5, <3>3
  <2> QED BY <1>6, <2>6, <2>7
<1>7. CASE t.pc \notin {"created", "failPub", "cancelPub"}
  <2> DEFINE u == [v EXCEPT !.pc = "cancelPub", !.status = "cancelled"]
  <2>1. Become(i, u)
    BY <1>1, <1>7 DEF CancelArrives, v
  <2>2. /\ u \in Task /\ u.pc = "cancelPub" /\ u.status = "cancelled"
        /\ u.pos = t.pos /\ u.rang = t.rang /\ u.by = t.by
    <3>1. "cancelPub" \in Suspended /\ "cancelled" \in Statuses
      BY DEF Suspended, Statuses
    <3> QED BY <1>1, <3>1 DEF Task
  <2> HIDE DEF u
  <2>3. /\ Promised(u) \in Promise!Run
        /\ Promised(u).phase = "ending" /\ Promised(u).outcome = "cancelled"
        /\ Promised(u).reached = t.pos /\ Promised(u).rang = t.rang
        /\ Promised(u).by = t.by /\ Promised(u).halted = TRUE
    BY <2>2, PromisedType DEF Promised, Phase, Stopped
  <2>4. Promise!Goes(i, Promised(u))
    BY <1>0, <2>1, Changes
  <2>5. Promised(u) = Promise!Ending(RunOf[i], "cancelled")
    <3>1. ASSUME NEW r, r = RunOf[i], NEW s, s = Promised(u)
          PROVE  s = Promise!Ending(r, "cancelled")
      BY <1>2, <2>3, <3>1, RunEnds
    <3> QED BY <3>1
  <2>6. (RunOf[i].phase = "pending" /\ Promise!Claimed(i)) \/ UNCHANGED claimant
    BY <1>2, <1>3, <1>4, <1>5 DEF PendingPc
  <2>7. Promise!Aborted(i)
    BY <1>2, <1>4, <2>4, <2>5, <2>6 DEF Promise!Aborted, RunOf
  <2>8. Answers(i, u)
    BY <1>0, <2>2 DEF AnswerInv, Answers, EndingPc
  <2> QED BY <2>1, <2>7, <2>8
<1> QED BY <1>6, <1>7

(* Every step of a run is one of Escalation, or is not seen.               *)
LEMMA RunStepKeeps ==
  ASSUME PInv, NEW i \in Incidents, RunStep(i)
  PROVE  /\ \E u : Become(i, u) /\ Answers(i, u)
         /\ \/ Promise!Withheld(i) \/ Promise!Admitted(i) \/ Promise!Escalates(i)
            \/ Promise!Outage(i) \/ Promise!Over(i) \/ Promise!Aborted(i)
            \/ UNCHANGED Promise!vars
<1> PICK t : t = task[i]
  OBVIOUS
<1> DEFINE Goal == /\ \E u : Become(i, u) /\ Answers(i, u)
                   /\ \/ Promise!Withheld(i) \/ Promise!Admitted(i)
                      \/ Promise!Escalates(i) \/ Promise!Outage(i)
                      \/ Promise!Over(i) \/ Promise!Aborted(i)
                      \/ UNCHANGED Promise!vars
<1>0. /\ TypeOK /\ t \in Task /\ TaskOK(i, t) /\ AnswerInv(i) /\ Answers(i, t)
      /\ StopInv(i) /\ AckInv(i) /\ ackedBy[i] \in Contacts \cup {NoOne}
  BY DEF PInv, SInv, IInv, TypeInv, TypeOK, AnswerInv
<1>a. ASSUME ~t.cancelling, t.pc \notin {"cancelPub", "done"}
      PROVE  Free(t) /\ Like(i, t)
  BY <1>0, <1>a DEF Free, Like, StopInv
<1>b. t.pc \in Contacting => InChain(i, t) /\ Contact(i) \in Contacts
  BY <1>0, ChainType DEF TaskOK, InChain, Contact
<1>c. ASSUME NEW u, Become(i, u), Answers(i, u), Free(t), Free(u),
             UNCHANGED <<claimant, closed>>,
             u.pos = t.pos, u.rang = t.rang, u.by = t.by,
             \/ t.pc \in PendingPc /\ u.pc \in PendingPc
             \/ t.pc \in AlertingPc /\ u.pc \in AlertingPc
      PROVE  Goal
  <2>1. Promised(u) = Promised(t)
    BY <1>c, PromisedOf
  <2> QED BY <1>0, <1>c, <2>1, Stutters
<1>d. ASSUME NEW v, Like(i, v), v.pos = t.pos, v.rang = t.rang, v.by = t.by,
             NEW u, GoesOn(i, v, u), Advances(i, v, Promised(u)), Become(i, u),
             Free(t), t.pc \in AlertingPc, UNCHANGED <<claimant, closed>>
      PROVE  Goal
  <2>1. Answers(i, u)
    BY <1>0, <1>d, GoesOnAnswers
  <2>2. Advances(i, t, Promised(u))
    BY <1>d DEF Advances
  <2> QED BY <1>0, <1>d, <2>1, <2>2, Escalated
<1>e. ASSUME ShouldAlert(i), Free(t), t.pc \in {"broadcast", "cooldown"},
             UNCHANGED closed
      PROVE  Goal
  BY <1>e, ShouldAlertKeeps
<1>1. CASE Begin(i)
  <2> DEFINE u == [t EXCEPT !.pc = "broadcast", !.status = "shadow"]
  <2>1. /\ Become(i, u) /\ t.pc = "created" /\ Free(t)
        /\ UNCHANGED <<claimant, closed>>
    BY <1>1, <1>a DEF Begin, Resumes
  <2>2. "broadcast" \in Suspended /\ "shadow" \in Statuses
    BY DEF Suspended, Statuses
  <2>3. /\ u \in Task /\ u.pc = "broadcast" /\ u.status = "shadow"
        /\ u.cancelling = t.cancelling
        /\ u.pos = t.pos /\ u.rang = t.rang /\ u.by = t.by
    BY <1>0, <2>2 DEF Task
  <2> HIDE DEF u
  <2>4. Free(u) /\ Answers(i, u)
    BY <1>0, <2>1, <2>3 DEF Free, Answers, EndingPc
  <2> QED BY <1>c, <2>1, <2>3, <2>4 DEF PendingPc
<1>2. CASE Broadcasted(i)
  <2>1. t.pc = "broadcast" /\ Free(t) /\ Like(i, t) /\ UNCHANGED closed
    BY <1>2, <1>a DEF Broadcasted, Resumes
  <2>2. CASE Become(i, Finish(t, "shadow")) /\ UNCHANGED claimant
    <3>1. "shadow" \in Outcomes
      BY DEF Outcomes, Statuses
    <3>2. /\ GoesOn(i, t, Finish(t, "shadow"))
          /\ Promised(Finish(t, "shadow"))
               = AsRun("ending", t.pos, t.rang, t.by, "shadow")
      BY <2>1, <3>1, FinishAdvances
    <3>3. /\ RunOf[i] = AsRun("pending", t.pos, t.rang, t.by, "none")
          /\ RunOf[i].phase = "pending" /\ ~RunOf[i].halted
      BY <2>1, PendingRun DEF PendingPc
    <3>4. /\ t.pos \in Nat /\ t.rang \in SUBSET Contacts
          /\ t.by \in Contacts \cup {NoOne} /\ "shadow" \in Statuses
      BY <1>0 DEF Task, Statuses
    <3>5. Promise!Goes(i, Promise!Ending(RunOf[i], "shadow"))
      BY <1>0, <2>2, <3>2, <3>3, <3>4, AsRunEnding, Changes
    <3>6. Promise!Withheld(i)
      BY <2>1, <2>2, <3>3, <3>5 DEF Promise!Withheld, RunOf
    <3> QED BY <1>0, <2>1, <2>2, <3>2, <3>6, GoesOnAnswers
  <2>3. CASE Become(i, [t EXCEPT !.pc = "cooldown"]) /\ UNCHANGED claimant
    <3> DEFINE u == [t EXCEPT !.pc = "cooldown"]
    <3>1. /\ u \in Task /\ u.pc = "cooldown" /\ u.status = t.status
          /\ u.cancelling = t.cancelling
          /\ u.pos = t.pos /\ u.rang = t.rang /\ u.by = t.by
      BY <1>0 DEF Task, Suspended
    <3>2. Become(i, u)
      BY <2>3
    <3> HIDE DEF u
    <3>3. Free(u) /\ Answers(i, u)
      BY <1>0, <2>1, <3>1 DEF Free, Answers, EndingPc
    <3> QED BY <1>c, <2>1, <2>3, <3>1, <3>2, <3>3 DEF PendingPc
  <2>4. CASE ShouldAlert(i)
    BY <1>e, <2>1, <2>4
  <2> QED BY <1>2, <2>2, <2>3, <2>4 DEF Broadcasted
<1>3. CASE CooldownAnswered(i)
  BY <1>3, <1>a, <1>e DEF CooldownAnswered, Resumes
<1>4. CASE CooldownRaises(i)
  <2>1. /\ t.pc = "cooldown" /\ Free(t) /\ Like(i, t) /\ UNCHANGED closed
        /\ Become(i, Fail(t))
    BY <1>4, <1>a DEF CooldownRaises, Resumes
  <2>2. GoesOn(i, t, Fail(t))
        /\ Promised(Fail(t)) = AsRun("ending", t.pos, t.rang, t.by, "failed")
    <3>1. "failed" \in Outcomes
      BY DEF Outcomes, Statuses
    <3> QED BY <2>1, <3>1, FinishAdvances
  <2>3. /\ RunOf[i] = AsRun("pending", t.pos, t.rang, t.by, "none")
        /\ RunOf[i].phase = "pending" /\ ~RunOf[i].halted
    BY <2>1, PendingRun DEF PendingPc
  <2>4. /\ t.pos \in Nat /\ t.rang \in SUBSET Contacts
        /\ t.by \in Contacts \cup {NoOne} /\ "failed" \in Statuses
    BY <1>0 DEF Task, Statuses
  <2>5. Promise!Goes(i, Promise!Ending(RunOf[i], "failed"))
    BY <1>0, <2>1, <2>2, <2>3, <2>4, AsRunEnding, Changes
  <2>6. Promise!Claimed(i) \/ UNCHANGED claimant
    BY <1>4 DEF CooldownRaises, MaybeClaim, Promise!Claimed, Cooling
  <2>7. Promise!Outage(i)
    BY <2>1, <2>3, <2>5, <2>6 DEF Promise!Outage, RunOf
  <2> QED BY <1>0, <2>1, <2>2, <2>7, GoesOnAnswers
<1>5. CASE GracePublished(i)
  <2> DEFINE u == [t EXCEPT !.pc = "delay"]
  <2>1. /\ Become(i, u) /\ t.pc = "delayPub" /\ Free(t)
        /\ UNCHANGED <<claimant, closed>>
    BY <1>5, <1>a DEF GracePublished, Resumes
  <2>2. /\ u \in Task /\ u.pc = "delay" /\ u.status = t.status
        /\ u.cancelling = t.cancelling
        /\ u.pos = t.pos /\ u.rang = t.rang /\ u.by = t.by
    BY <1>0 DEF Task, Suspended
  <2> HIDE DEF u
  <2>3. Free(u) /\ Answers(i, u)
    BY <1>0, <2>1, <2>2 DEF Free, Answers, EndingPc
  <2> QED BY <1>c, <2>1, <2>2, <2>3 DEF AlertingPc, Contacting
<1>6. CASE GraceEnds(i)
  <2>1. /\ Become(i, Walk(i, t, 1)) /\ t.pc = "delay" /\ Free(t) /\ Like(i, t)
        /\ UNCHANGED <<claimant, closed>>
    BY <1>6, <1>a DEF GraceEnds, Resumes
  <2>2. t.pos = 0 /\ t.pos + 1 = 1 /\ ~IsAcknowledged(i)
    BY <1>0, <2>1 DEF AckInv, Early
  <2>3. GoesOn(i, t, Walk(i, t, 1)) /\ Advances(i, t, Promised(Walk(i, t, 1)))
    BY <1>0, <2>1, <2>2, WalkAdvances
  <2> QED BY <1>d, <2>1, <2>3 DEF AlertingPc
<1>7. CASE SmsReturns(i)
  <2> DEFINE u == [t EXCEPT !.pc = "smsPub", !.request = "idle"]
  <2>1. /\ Become(i, u) /\ t.pc = "sms" /\ Free(t)
        /\ UNCHANGED <<claimant, closed>>
    BY <1>7, <1>a DEF SmsReturns, Resumes
  <2>2. /\ u \in Task /\ u.pc = "smsPub" /\ u.status = t.status
        /\ u.cancelling = t.cancelling
        /\ u.pos = t.pos /\ u.rang = t.rang /\ u.by = t.by
    <3>1. "smsPub" \in Suspended
      BY DEF Suspended
    <3> QED BY <1>0, <3>1 DEF Task
  <2> HIDE DEF u
  <2>3. Free(u) /\ Answers(i, u)
    BY <1>0, <2>1, <2>2 DEF Free, Answers, EndingPc
  <2> QED BY <1>c, <2>1, <2>2, <2>3 DEF AlertingPc, Contacting
<1>8. CASE SmsPublished(i)
  <2>1. /\ t.pc = "smsPub" /\ Free(t) /\ Like(i, t)
        /\ InChain(i, t) /\ Contact(i) \in Contacts
        /\ UNCHANGED <<claimant, closed>>
    BY <1>8, <1>a, <1>b DEF SmsPublished, Resumes, Contacting
  <2>2. CASE Become(i, PlaceCall(t, Contact(i)))
    <3>1. /\ GoesOn(i, t, PlaceCall(t, Contact(i)))
          /\ Advances(i, t, Promised(PlaceCall(t, Contact(i))))
      BY <2>1, CallAdvances DEF Advances
    <3> QED BY <1>d, <2>1, <2>2, <3>1 DEF AlertingPc, Contacting
  <2>3. CASE Become(i, ContactTried(i, t))
    <3>1. /\ GoesOn(i, t, ContactTried(i, t))
          /\ Advances(i, t, Promised(ContactTried(i, t)))
      BY <1>0, <2>1, ContactAdvances
    <3> QED BY <1>d, <2>1, <2>3, <3>1 DEF AlertingPc, Contacting
  <2> QED BY <1>8, <2>2, <2>3 DEF SmsPublished
<1>9. CASE CallReturns(i)
  <2>1. /\ t.pc = "call" /\ t.request # "dialling" /\ Free(t)
        /\ UNCHANGED <<claimant, closed>>
    BY <1>9, <1>a DEF CallReturns, Resumes
  <2>2. PICK l \in SUBSET Contacts : Become(i, [t EXCEPT !.pc = "callPub", !.logged = l])
    <3>1. Contact(i) \in Contacts /\ t.logged \in SUBSET Contacts
      BY <1>0, <1>b, <2>1 DEF Contacting, Task
    <3> QED BY <1>9, <3>1 DEF CallReturns
  <2> DEFINE u == [t EXCEPT !.pc = "callPub", !.logged = l]
  <2>3. Become(i, u)
    BY <2>2
  <2>4. /\ u \in Task /\ u.pc = "callPub" /\ u.status = t.status
        /\ u.cancelling = t.cancelling /\ u.request = t.request
        /\ u.pos = t.pos /\ u.rang = t.rang /\ u.by = t.by
    BY <1>0 DEF Task, Suspended
  <2> HIDE DEF u
  <2>5. Free(u) /\ Answers(i, u)
    BY <1>0, <2>1, <2>4 DEF Free, Answers, EndingPc
  <2> QED BY <1>c, <2>1, <2>3, <2>4, <2>5 DEF AlertingPc, Contacting
<1>10. CASE CallPublished(i)
  <2> DEFINE v == [t EXCEPT !.request = "idle"]
  <2>1. /\ t.pc = "callPub" /\ Free(t) /\ Like(i, t)
        /\ InChain(i, t) /\ Contact(i) \in Contacts
        /\ UNCHANGED <<claimant, closed>>
    BY <1>10, <1>a, <1>b DEF CallPublished, Resumes, Contacting
  <2>2. /\ Like(i, v) /\ InChain(i, v)
        /\ v.status = t.status /\ v.cancelling = t.cancelling
        /\ v.pos = t.pos /\ v.rang = t.rang /\ v.by = t.by
    BY <2>1 DEF Like, Free, InChain, Task
  <2>3. \/ t.request = "failed" /\ Become(i, NextAttempt(i, v))
        \/ IsAcknowledged(i) /\ Become(i, FinishAcknowledged(i, v, Contact(i)))
        \/ /\ t.request # "failed"
           /\ Become(i, [v EXCEPT !.pc = "wait", !.waiter = "linked"])
    BY <1>10 DEF CallPublished
  <2> HIDE DEF v
  <2>4. CASE /\ t.request # "failed"
             /\ Become(i, [v EXCEPT !.pc = "wait", !.waiter = "linked"])
    <3> DEFINE u == [v EXCEPT !.pc = "wait", !.waiter = "linked"]
    <3>1. /\ u \in Task /\ u.pc = "wait" /\ u.status = t.status
          /\ u.cancelling = t.cancelling
          /\ u.pos = t.pos /\ u.rang = t.rang /\ u.by = t.by
      <4>1. "wait" \in Suspended /\ v \in Task
        BY <2>2 DEF Suspended, Like, Free
      <4> QED BY <2>2, <4>1 DEF Task
    <3>2. Become(i, u)
      BY <2>4
    <3> HIDE DEF u
    <3>3. Free(u) /\ Answers(i, u)
      BY <1>0, <2>1, <2>4, <3>1 DEF Free, Answers, EndingPc
    <3> QED BY <1>c, <2>1, <3>1, <3>2, <3>3 DEF AlertingPc, Contacting
  <2>5. CASE Become(i, NextAttempt(i, v))
    <3>1. /\ GoesOn(i, v, NextAttempt(i, v))
          /\ Advances(i, v, Promised(NextAttempt(i, v)))
      BY <1>0, <2>2, ContactAdvances
    <3> QED BY <1>d, <2>1, <2>2, <2>5, <3>1 DEF AlertingPc, Contacting
  <2>6. CASE IsAcknowledged(i) /\ Become(i, FinishAcknowledged(i, v, Contact(i)))
    <3>1. /\ GoesOn(i, v, FinishAcknowledged(i, v, Contact(i)))
          /\ Advances(i, v, Promised(FinishAcknowledged(i, v, Contact(i))))
      BY <1>0, <2>1, <2>2, <2>6, AcknowledgedAdvances
    <3> QED BY <1>d, <2>1, <2>2, <2>6, <3>1 DEF AlertingPc, Contacting
  <2> QED BY <2>3, <2>4, <2>5, <2>6
<1>11. CASE WaitWoken(i)
  <2> DEFINE v == [t EXCEPT !.waiter = "none"]
             u == FinishAcknowledged(i, v, Contact(i))
  <2>1. /\ t.pc = "wait" /\ Free(t) /\ Like(i, t) /\ t.waiter = "woken"
        /\ InChain(i, t) /\ Contact(i) \in Contacts /\ Become(i, u)
        /\ UNCHANGED <<claimant, closed>>
    BY <1>11, <1>a, <1>b DEF WaitWoken, Resumes, Contacting
  <2>2. /\ Like(i, v) /\ v.pos = t.pos /\ v.rang = t.rang /\ v.by = t.by
    BY <2>1 DEF Like, Free, Task
  <2>3. Contact(i) \in v.rang /\ (~Heard(i) \/ IsAcknowledged(i))
    BY <1>0, <2>1, <2>2 DEF Answers, AckInv, Heard, Contact
  <2> HIDE DEF v
  <2>4. /\ u.pc = "finish" /\ u.status # "no_run" /\ u.rang = v.rang
        /\ IsAcknowledged(i) => GoesOn(i, v, u)
        /\ Advances(i, v, Promised(u))
    BY <1>0, <2>1, <2>2, <2>3, AcknowledgedAdvances
  <2> HIDE DEF u
  <2>5. Answers(i, u)
    <3>1. CASE IsAcknowledged(i)
      BY <1>0, <2>2, <2>4, <3>1, GoesOnAnswers
    <3>2. CASE ~IsAcknowledged(i)
      BY <1>0, <2>1, <2>4, <3>2 DEF Answers, AckInv
    <3> QED BY <3>1, <3>2
  <2>6. Advances(i, t, Promised(u))
    BY <2>2, <2>4 DEF Advances
  <2> QED BY <1>0, <2>1, <2>5, <2>6, Escalated DEF AlertingPc, Contacting
<1>12. CASE WaitTimesOut(i)
  <2> DEFINE v == [t EXCEPT !.waiter = "none"]
  <2>1. /\ t.pc = "wait" /\ Free(t) /\ Like(i, t) /\ InChain(i, t)
        /\ Become(i, NextAttempt(i, v)) /\ UNCHANGED <<claimant, closed>>
    BY <1>12, <1>a, <1>b DEF WaitTimesOut, Resumes, Contacting
  <2>2. /\ Like(i, v) /\ InChain(i, v)
        /\ v.pos = t.pos /\ v.rang = t.rang /\ v.by = t.by
    BY <2>1 DEF Like, Free, InChain, Task
  <2> HIDE DEF v
  <2>3. /\ GoesOn(i, v, NextAttempt(i, v))
        /\ Advances(i, v, Promised(NextAttempt(i, v)))
    BY <1>0, <2>2, ContactAdvances
  <2> QED BY <1>d, <2>1, <2>2, <2>3 DEF AlertingPc, Contacting
<1>13. CASE LastPublished(i)
  BY <1>13, LastKeeps
<1>14. CASE CancelArrives(i)
  BY <1>14, CancelKeeps
<1> QED BY <1>1, <1>2, <1>3, <1>4, <1>5, <1>6, <1>7, <1>8, <1>9, <1>10, <1>11,
           <1>12, <1>13, <1>14 DEF RunStep, LocalStep

-----------------------------------------------------------------------------
(* Calls into the dispatcher.                                              *)

(* The forms in which a call changes a run.                                *)
Opened(r) == [r EXCEPT !.phase = "pending"]

Rung(r, rang) == [r EXCEPT !.rang = rang]

AnsweredBy(r, c) == [r EXCEPT !.by = c]

Halted(r, o) == [r EXCEPT !.halted = TRUE, !.outcome = o]

LEMMA RunCalled ==
  ASSUME NEW r \in Promise!Run, NEW s \in Promise!Run, s.reached = r.reached
  PROVE  /\ /\ s.phase = "pending" /\ s.halted = r.halted /\ s.rang = r.rang
            /\ s.by = r.by /\ s.outcome = r.outcome
            => s = Opened(r)
         /\ /\ s.phase = r.phase /\ s.halted = r.halted /\ s.by = r.by
            /\ s.outcome = r.outcome
            => s = Rung(r, s.rang)
         /\ /\ s.phase = r.phase /\ s.halted = r.halted /\ s.rang = r.rang
            /\ s.outcome = r.outcome
            => s = AnsweredBy(r, s.by)
         /\ /\ s.phase = r.phase /\ s.halted = TRUE /\ s.rang = r.rang
            /\ s.by = r.by
            => s = Halted(r, s.outcome)
<1>1. ASSUME s.phase = "pending", s.halted = r.halted, s.rang = r.rang,
             s.by = r.by, s.outcome = r.outcome, NEW e, e = Opened(r)
      PROVE  s = e
  <2>1. /\ e \in Promise!Run /\ e.phase = "pending" /\ e.halted = r.halted
        /\ e.reached = r.reached /\ e.rang = r.rang /\ e.by = r.by
        /\ e.outcome = r.outcome
    BY <1>1 DEF Promise!Run, Opened
  <2> QED BY <1>1, <2>1, SameRun
<1>2. ASSUME s.phase = r.phase, s.halted = r.halted, s.by = r.by,
             s.outcome = r.outcome, NEW e, e = Rung(r, s.rang)
      PROVE  s = e
  <2>0. s.rang \in SUBSET Contacts
    BY DEF Promise!Run
  <2>1. /\ e \in Promise!Run /\ e.phase = r.phase /\ e.halted = r.halted
        /\ e.reached = r.reached /\ e.rang = s.rang /\ e.by = r.by
        /\ e.outcome = r.outcome
    BY <1>2, <2>0 DEF Promise!Run, Rung
  <2> QED BY <1>2, <2>1, SameRun
<1>3. ASSUME s.phase = r.phase, s.halted = r.halted, s.rang = r.rang,
             s.outcome = r.outcome, NEW e, e = AnsweredBy(r, s.by)
      PROVE  s = e
  <2>0. s.by \in Contacts \cup {NoOne}
    BY DEF Promise!Run
  <2>1. /\ e \in Promise!Run /\ e.phase = r.phase /\ e.halted = r.halted
        /\ e.reached = r.reached /\ e.rang = r.rang /\ e.by = s.by
        /\ e.outcome = r.outcome
    BY <1>3, <2>0 DEF Promise!Run, AnsweredBy
  <2> QED BY <1>3, <2>1, SameRun
<1>4. ASSUME s.phase = r.phase, s.halted = TRUE, s.rang = r.rang, s.by = r.by,
             NEW e, e = Halted(r, s.outcome)
      PROVE  s = e
  <2>0. s.outcome \in {"none", "no_run", "shadow", "suppressed", "cancelled",
                      "acknowledged", "exhausted", "no_contacts", "failed"}
    BY DEF Promise!Run
  <2>1. /\ e \in Promise!Run /\ e.phase = r.phase /\ e.halted = TRUE
        /\ e.reached = r.reached /\ e.rang = r.rang /\ e.by = r.by
        /\ e.outcome = s.outcome
    BY <1>4, <2>0 DEF Promise!Run, Halted
  <2> QED BY <1>4, <2>1, SameRun
<1> QED BY <1>1, <1>2, <1>3, <1>4

(* A call changes no run but its own.                                      *)
LEMMA EventOthers ==
  ASSUME PInv, NEW i \in Incidents, Event(i), NEW j \in Incidents \ {i}
  PROVE  AnswerInv(j)'
<1>1. task'[j] = task[j] /\ ackedBy'[j] = ackedBy[j]
  BY EventMoves DEF EventEffect, PInv, IInv
<1>2. closed' = closed \/ closed' = closed \cup {i}
  BY DEF Event, Dispatch, Cancel, Forget, ProviderStep, PhoneRings,
         RequestQueued, RequestFailed, Acknowledge
<1>3. AnswerInv(j)
  BY DEF PInv
<1> QED BY <1>1, <1>2, <1>3 DEF AnswerInv, Answers, IsAcknowledged

LEMMA RunFields ==
  ASSUME NEW i \in Incidents, task[i] \in Task
  PROVE  /\ RunOf[i] \in Promise!Run /\ RunOf[i].phase = Phase(task[i])
         /\ RunOf[i].halted = (Stopped(task[i]) /\ task[i].pc # "done")
         /\ RunOf[i].reached = task[i].pos /\ RunOf[i].rang = task[i].rang
         /\ RunOf[i].by = task[i].by
         /\ RunOf[i].outcome = IF Phase(task[i]) \in {"ending", "over"}
                               THEN task[i].status ELSE "none"
BY PromisedType DEF RunOf, Promised

LEMMA DispatchKeeps ==
  ASSUME PInv, NEW i \in Incidents, Dispatch(i)
  PROVE  AnswerInv(i)' /\ Promise!Dispatched(i)
<1> PICK t : t = task[i]
  OBVIOUS
<1> DEFINE u == [t EXCEPT !.pc = "created"]
<1>0. /\ TypeOK /\ task \in [Incidents -> Task] /\ t \in Task /\ Answers(i, t)
      /\ StopInv(i) /\ t.pc = "none" /\ UNCHANGED <<ackedBy, claimant, closed>>
  BY DEF PInv, SInv, IInv, TypeInv, TypeOK, AnswerInv, Dispatch
<1>1. Become(i, u)
  BY DEF Dispatch
<1>2. /\ u \in Task /\ u.pc = "created" /\ u.status = t.status
      /\ u.cancelling = t.cancelling /\ u.request = t.request
      /\ u.pos = t.pos /\ u.rang = t.rang /\ u.by = t.by
  BY <1>0 DEF Task, Suspended
<1> HIDE DEF u
<1>3. task'[i] = u
  BY <1>0, <1>1 DEF Become
<1>4. AnswerInv(i)'
  BY <1>0, <1>2, <1>3 DEF AnswerInv, Answers, IsAcknowledged, EndingPc
<1>5. RunOf[i].phase = "idle" /\ Promised(u) = Opened(RunOf[i])
  <2>1. Phase(t) = "idle" /\ Phase(u) = "pending"
    BY <1>0, <1>2 DEF Phase
  <2>2. Stopped(u) = Stopped(t)
    BY <1>2 DEF Stopped
  <2>3. ASSUME NEW r, r = RunOf[i], NEW s, s = Promised(u)
        PROVE  r.phase = "idle" /\ s = Opened(r)
    <3>1. /\ s \in Promise!Run /\ s.phase = "pending"
          /\ s.halted = (Stopped(t) /\ u.pc # "done")
          /\ s.reached = t.pos /\ s.rang = t.rang /\ s.by = t.by
          /\ s.outcome = "none"
      BY <1>2, <2>1, <2>2, <2>3, PromisedType DEF Promised
    <3>2. /\ r \in Promise!Run /\ r.phase = "idle"
          /\ r.halted = (Stopped(t) /\ t.pc # "done")
          /\ r.reached = t.pos /\ r.rang = t.rang /\ r.by = t.by
          /\ r.outcome = "none"
      BY <1>0, <2>1, <2>3, RunFields
    <3>3. s.halted = r.halted
      BY <1>0, <1>2, <3>1, <3>2
    <3> QED BY <3>1, <3>2, <3>3, RunCalled
  <2> QED BY <2>3
<1>6. Promise!Goes(i, Opened(RunOf[i]))
  BY <1>0, <1>1, <1>5, Changes
<1>7. Promise!Dispatched(i)
  BY <1>0, <1>5, <1>6 DEF Promise!Dispatched, Opened, RunOf
<1> QED BY <1>4, <1>7

LEMMA CancelledKeeps ==
  ASSUME PInv, NEW i \in Incidents, Cancel(i)
  PROVE  AnswerInv(i)' /\ Promise!Cancelled(i)
<1> PICK t : t = task[i]
  OBVIOUS
<1> PICK st : st = IF t.status = "no_run" THEN t.status ELSE "cancelled"
  OBVIOUS
<1> DEFINE u == [t EXCEPT !.cancelling = TRUE, !.status = st]
           e == IF Phase(t) = "ending" THEN "cancelled" ELSE RunOf[i].outcome
<1>0. /\ TypeOK /\ task \in [Incidents -> Task] /\ t \in Task /\ Answers(i, t)
      /\ t.pc \in Suspended /\ UNCHANGED <<ackedBy, claimant>>
      /\ closed' = closed \cup {i}
  BY DEF PInv, SInv, IInv, TypeInv, TypeOK, AnswerInv, Cancel
<1>1. Become(i, u)
  BY DEF Cancel
<1>2. /\ u \in Task /\ u.pc = t.pc /\ u.status = st
      /\ u.cancelling = TRUE /\ u.request = t.request
      /\ u.pos = t.pos /\ u.rang = t.rang /\ u.by = t.by
  <2>1. st \in Statuses
    BY <1>0 DEF Statuses
  <2> QED BY <1>0, <2>1 DEF Task
<1> HIDE DEF u
<1>3. task'[i] = u
  BY <1>0, <1>1 DEF Become
<1>4. AnswerInv(i)'
  BY <1>0, <1>2, <1>3 DEF AnswerInv, Answers, IsAcknowledged
<1>5. Phase(t) \in {"pending", "alerting", "ending"}
      /\ (Phase(t) = "ending" => t.pc \in EndingPc) /\ Phase(u) = Phase(t)
  BY <1>0, <1>2 DEF Phase, Suspended, EndingPc
<1>6. Promised(u) = Halted(RunOf[i], e)
  <2>1. ASSUME NEW r, r = RunOf[i], NEW s, s = Promised(u)
        PROVE  s = Halted(r, e)
    <3>1. /\ s \in Promise!Run /\ s.phase = Phase(t) /\ s.halted = TRUE
          /\ s.reached = t.pos /\ s.rang = t.rang /\ s.by = t.by
          /\ s.outcome = IF Phase(t) \in {"ending", "over"} THEN st ELSE "none"
      BY <1>0, <1>2, <1>5, <2>1, PromisedType DEF Promised, Stopped, Suspended
    <3>2. /\ r \in Promise!Run /\ r.phase = Phase(t)
          /\ r.reached = t.pos /\ r.rang = t.rang /\ r.by = t.by
          /\ r.outcome = IF Phase(t) \in {"ending", "over"} THEN t.status ELSE "none"
      BY <1>0, <2>1, RunFields
    <3>3. s.outcome = e
      BY <1>0, <1>5, <2>1, <3>1, <3>2 DEF Answers
    <3> HIDE DEF e
    <3> QED BY <3>1, <3>2, <3>3, RunCalled
  <2> QED BY <2>1
<1>7. Promise!Goes(i, Halted(RunOf[i], e))
  BY <1>0, <1>1, <1>6, Changes
<1>8. RunOf[i].phase = Phase(t)
  BY <1>0, RunFields
<1>9. Promise!Unfinished(RunOf[i])
  BY <1>5, <1>8 DEF Promise!Unfinished
<1>10. Promise!Cancelled(i)
  BY <1>0, <1>7, <1>8, <1>9 DEF Promise!Cancelled, Halted, RunOf
<1> QED BY <1>4, <1>10

LEMMA ForgetKeeps ==
  ASSUME PInv, NEW i \in Incidents, Forget(i)
  PROVE  AnswerInv(i)' /\ Promise!Closed(i)
<1> PICK t : t = task[i]
  OBVIOUS
<1> PICK w : w = IF t.waiter = "linked" THEN "orphan" ELSE t.waiter
  OBVIOUS
<1> DEFINE u == [t EXCEPT !.waiter = w]
<1>0. /\ TypeOK /\ task \in [Incidents -> Task] /\ t \in Task /\ Answers(i, t)
      /\ t.pc # "none" /\ UNCHANGED claimant /\ i \in closed'
      /\ closed' = closed \cup {i} /\ ackedBy'[i] = NoOne
  BY DEF PInv, SInv, IInv, TypeInv, TypeOK, AnswerInv, Forget
<1>1. Become(i, u)
  BY DEF Forget
<1>2. /\ u.pc = t.pc /\ u.status = t.status /\ u.cancelling = t.cancelling
      /\ u.request = t.request /\ u.pos = t.pos /\ u.rang = t.rang
      /\ u.by = t.by
  BY <1>0 DEF Task
<1> HIDE DEF u
<1>3. task'[i] = u
  BY <1>0, <1>1 DEF Become
<1>4. AnswerInv(i)'
  BY <1>0, <1>2, <1>3 DEF AnswerInv, Answers, IsAcknowledged
<1>5. Promised(u) = Promised(t)
  BY <1>2 DEF Promised, Phase, Stopped
<1>6. RunOf' = RunOf
  BY <1>0, <1>1, <1>5, Changes
<1>7. RunOf[i].phase # "idle"
  BY <1>0, RunFields DEF Phase, Task, Suspended
<1>8. Promise!Closed(i)
  BY <1>0, <1>6, <1>7 DEF Promise!Closed, RunOf
<1> QED BY <1>4, <1>8

(* A phone that rings changes only whose phones have rung.                 *)
LEMMA RingsRun ==
  ASSUME PInv, NEW i \in Incidents, task[i].request = "dialling",
         NEW u \in Task, Become(i, u), UNCHANGED <<claimant, closed>>,
         u.pc = task[i].pc, u.status = task[i].status,
         u.cancelling = task[i].cancelling, u.pos = task[i].pos,
         u.by = task[i].by, u.rang = task[i].rang \cup {Contact(i)}
  PROVE  Promise!Rings(i)
<1> PICK t : t = task[i]
  OBVIOUS
<1> PICK g : g = t.rang \cup {Contact(i)}
  OBVIOUS
<1>0. TypeOK /\ task \in [Incidents -> Task] /\ t \in Task /\ TaskOK(i, t)
  BY DEF PInv, SInv, IInv, TypeInv, TypeOK
<1>1. InChain(i, t) /\ t.pos > 0
  BY <1>0, ChainType DEF TaskOK, Busy, InChain
<1>2. Promised(u) = Rung(RunOf[i], g)
  <2>1. ASSUME NEW r, r = RunOf[i], NEW s, s = Promised(u)
        PROVE  s = Rung(r, g)
    <3>1. Phase(u) = Phase(t) /\ Stopped(u) = Stopped(t)
      BY DEF Phase, Stopped
    <3>2. /\ s \in Promise!Run /\ s.phase = Phase(t)
          /\ s.halted = (Stopped(t) /\ t.pc # "done")
          /\ s.reached = t.pos /\ s.rang = g /\ s.by = t.by
          /\ s.outcome = IF Phase(t) \in {"ending", "over"} THEN t.status ELSE "none"
      BY <2>1, <3>1, PromisedType DEF Promised
    <3>3. /\ r \in Promise!Run /\ r.phase = Phase(t)
          /\ r.halted = (Stopped(t) /\ t.pc # "done")
          /\ r.reached = t.pos /\ r.by = t.by
          /\ r.outcome = IF Phase(t) \in {"ending", "over"} THEN t.status ELSE "none"
      BY <1>0, <2>1, RunFields
    <3>4. /\ s.phase = r.phase /\ s.halted = r.halted /\ s.reached = r.reached
          /\ s.by = r.by /\ s.outcome = r.outcome /\ s.rang = g
      BY <3>2, <3>3
    <3> QED BY <3>2, <3>3, <3>4, RunCalled
  <2> QED BY <2>1
<1>3. Promise!Goes(i, Rung(RunOf[i], g))
  BY <1>0, <1>2, Changes
<1>4. RunOf[i].reached = t.pos /\ RunOf[i].rang = t.rang
  BY <1>0, RunFields
<1>5. g = RunOf[i].rang \cup {ChainOf(i)[RunOf[i].reached]}
  BY <1>4 DEF Contact
<1> QED BY <1>1, <1>3, <1>4, <1>5
        DEF Promise!Rings, Rung, RunOf, Promise!ChainOf, ChainOf

LEMMA RingsKeeps ==
  ASSUME PInv, NEW i \in Incidents, PhoneRings(i)
  PROVE  AnswerInv(i)' /\ Promise!Rings(i)
<1> PICK t : t = task[i]
  OBVIOUS
<1> DEFINE u == [t EXCEPT !.rang = @ \cup {Contact(i)}]
<1>0. /\ TypeOK /\ task \in [Incidents -> Task] /\ t \in Task /\ Answers(i, t)
      /\ TaskOK(i, t) /\ t.request = "dialling"
      /\ UNCHANGED <<ackedBy, claimant, closed>>
  BY DEF PInv, SInv, IInv, TypeInv, TypeOK, AnswerInv, PhoneRings
<1>1. Become(i, u)
  BY DEF PhoneRings
<1>2. Contact(i) \in Contacts
  BY <1>0, ChainType DEF TaskOK, Busy, InChain, Contact
<1>3. /\ u \in Task /\ u.pc = t.pc /\ u.status = t.status
      /\ u.cancelling = t.cancelling /\ u.request = "dialling"
      /\ u.pos = t.pos /\ u.rang = t.rang \cup {Contact(i)} /\ u.by = t.by
  BY <1>0, <1>2 DEF Task
<1> HIDE DEF u
<1>4. task'[i] = u
  BY <1>0, <1>1 DEF Become
<1>5. AnswerInv(i)'
  BY <1>0, <1>3, <1>4 DEF AnswerInv, Answers, IsAcknowledged
<1> QED BY <1>0, <1>1, <1>3, <1>5, RingsRun

LEMMA QueuedKeeps ==
  ASSUME PInv, NEW i \in Incidents, RequestQueued(i)
  PROVE  AnswerInv(i)' /\ (Promise!Rings(i) \/ UNCHANGED Promise!vars)
<1> PICK t : t = task[i]
  OBVIOUS
<1> PICK g : g = IF t.request = "dialling" THEN t.rang \cup {Contact(i)} ELSE t.rang
  OBVIOUS
<1> DEFINE u == [t EXCEPT !.request = "queued", !.rang = g]
<1>0. /\ TypeOK /\ task \in [Incidents -> Task] /\ t \in Task /\ Answers(i, t)
      /\ TaskOK(i, t) /\ t.request \in {"texting", "dialling"}
      /\ UNCHANGED <<ackedBy, claimant, closed>>
  BY DEF PInv, SInv, IInv, TypeInv, TypeOK, AnswerInv, RequestQueued
<1>1. Become(i, u)
  BY DEF RequestQueued
<1>2. Contact(i) \in Contacts
  BY <1>0, ChainType DEF TaskOK, Busy, InChain, Contact
<1>3. /\ u \in Task /\ u.pc = t.pc /\ u.status = t.status
      /\ u.cancelling = t.cancelling /\ u.request = "queued"
      /\ u.pos = t.pos /\ u.rang = g /\ u.by = t.by
  <2>1. g \in SUBSET Contacts
    BY <1>0, <1>2 DEF Task
  <2> QED BY <1>0, <2>1 DEF Task
<1> HIDE DEF u
<1>4. task'[i] = u
  BY <1>0, <1>1 DEF Become
<1>5. AnswerInv(i)'
  BY <1>0, <1>3, <1>4 DEF AnswerInv, Answers, IsAcknowledged, Contact
<1>6. CASE t.request = "texting"
  <2>1. Promised(u) = Promised(t)
    BY <1>3, <1>6 DEF Promised, Phase, Stopped
  <2> QED BY <1>0, <1>1, <1>5, <2>1, Stutters
<1>7. CASE t.request = "dialling"
  BY <1>0, <1>1, <1>3, <1>5, <1>7, RingsRun
<1> QED BY <1>0, <1>6, <1>7

LEMMA FailedKeeps ==
  ASSUME PInv, NEW i \in Incidents, RequestFailed(i)
  PROVE  AnswerInv(i)' /\ UNCHANGED Promise!vars
<1> PICK t : t = task[i]
  OBVIOUS
<1> DEFINE u == [t EXCEPT !.request = "failed"]
<1>0. /\ TypeOK /\ task \in [Incidents -> Task] /\ t \in Task /\ Answers(i, t)
      /\ t.request \in {"texting", "dialling"}
      /\ UNCHANGED <<ackedBy, claimant, closed>>
  BY DEF PInv, SInv, IInv, TypeInv, TypeOK, AnswerInv, RequestFailed
<1>1. Become(i, u)
  BY DEF RequestFailed
<1>2. /\ u.pc = t.pc /\ u.status = t.status /\ u.cancelling = t.cancelling
      /\ u.request = "failed" /\ u.pos = t.pos /\ u.rang = t.rang
      /\ u.by = t.by
  BY <1>0 DEF Task
<1> HIDE DEF u
<1>3. task'[i] = u
  BY <1>0, <1>1 DEF Become
<1>4. AnswerInv(i)'
  BY <1>0, <1>2, <1>3 DEF AnswerInv, Answers, IsAcknowledged
<1>5. Promised(u) = Promised(t)
  BY <1>2 DEF Promised, Phase, Stopped
<1> QED BY <1>0, <1>1, <1>4, <1>5, Stutters

LEMMA AcknowledgeKeeps ==
  ASSUME PInv, NEW i \in Incidents, NEW c \in Contacts, Acknowledge(i, c)
  PROVE  AnswerInv(i)' /\ Promise!Answered(i, c)
<1> PICK t : t = task[i]
  OBVIOUS
<1> PICK w : w = IF t.waiter = "linked" THEN "woken" ELSE t.waiter
  OBVIOUS
<1> DEFINE u == [t EXCEPT !.by = c, !.waiter = w]
<1>0. /\ TypeOK /\ task \in [Incidents -> Task] /\ t \in Task /\ Answers(i, t)
      /\ c \in t.rang /\ ~IsAcknowledged(i) /\ ackedBy'[i] = c
      /\ UNCHANGED <<claimant, closed>>
  BY DEF PInv, SInv, IInv, TypeInv, TypeOK, AnswerInv, Acknowledge
<1>1. Become(i, u)
  BY DEF Acknowledge
<1>2. /\ u \in Task /\ u.pc = t.pc /\ u.status = t.status
      /\ u.cancelling = t.cancelling
      /\ u.request = t.request /\ u.pos = t.pos /\ u.rang = t.rang
      /\ u.by = c
  <2>1. w \in {"none", "linked", "orphan", "woken"}
    BY <1>0 DEF Task
  <2> QED BY <1>0, <2>1 DEF Task
<1> HIDE DEF u
<1>3. task'[i] = u
  BY <1>0, <1>1 DEF Become
<1>4. AnswerInv(i)'
  BY <1>0, <1>2, <1>3 DEF AnswerInv, Answers, IsAcknowledged
<1>5. RunOf[i].rang = t.rang /\ RunOf[i].by = t.by
  BY <1>0, RunFields
<1>6. Promised(u) = AnsweredBy(RunOf[i], c)
  <2>1. ASSUME NEW r, r = RunOf[i], NEW s, s = Promised(u)
        PROVE  s = AnsweredBy(r, c)
    <3>1. Phase(u) = Phase(t) /\ Stopped(u) = Stopped(t)
      BY <1>2 DEF Phase, Stopped
    <3>2. /\ s \in Promise!Run /\ s.phase = Phase(t)
          /\ s.halted = (Stopped(t) /\ t.pc # "done")
          /\ s.reached = t.pos /\ s.rang = t.rang /\ s.by = c
          /\ s.outcome = IF Phase(t) \in {"ending", "over"} THEN t.status ELSE "none"
      BY <1>2, <2>1, <3>1, PromisedType DEF Promised
    <3>3. /\ r \in Promise!Run /\ r.phase = Phase(t)
          /\ r.halted = (Stopped(t) /\ t.pc # "done")
          /\ r.reached = t.pos /\ r.rang = t.rang
          /\ r.outcome = IF Phase(t) \in {"ending", "over"} THEN t.status ELSE "none"
      BY <1>0, <2>1, RunFields
    <3> QED BY <3>2, <3>3, RunCalled
  <2> QED BY <2>1
<1>7. Promise!Goes(i, AnsweredBy(RunOf[i], c))
  BY <1>0, <1>1, <1>6, Changes
<1>8. ~(RunOf[i].by # NoOne /\ i \notin closed)
  BY <1>0, <1>5 DEF Answers, IsAcknowledged
<1>9. Promise!Answered(i, c)
  BY <1>0, <1>5, <1>7, <1>8 DEF Promise!Answered, Promise!Heeds, AnsweredBy, RunOf
<1> QED BY <1>4, <1>9

LEMMA ShutdownKeeps ==
  ASSUME PInv, Shutdown
  PROVE  (\A i \in Incidents : AnswerInv(i)') /\ Promise!AllHalted
<1> DEFINE Stop(r) == [r EXCEPT !.halted = @ \/ Promise!Unfinished(r)]
<1>0. TypeOK /\ UNCHANGED <<ackedBy, claimant, closed>>
  BY DEF PInv, IInv, TypeInv, Shutdown
<1>1. ASSUME NEW i \in Incidents
      PROVE  AnswerInv(i)' /\ Promised(task'[i]) = Stop(RunOf[i])
  <2> PICK t : t = task[i]
    OBVIOUS
  <2> PICK b : b = (t.cancelling \/ t.pc \in Suspended)
    OBVIOUS
  <2> DEFINE u == [t EXCEPT !.cancelling = b]
  <2>0. t \in Task /\ Answers(i, t) /\ StopInv(i) /\ b \in BOOLEAN
    BY DEF PInv, SInv, IInv, TypeInv, TypeOK, AnswerInv
  <2>1. task'[i] = u
    BY DEF Shutdown
  <2>2. /\ u \in Task /\ u.pc = t.pc /\ u.status = t.status
        /\ u.cancelling = b /\ u.request = t.request
        /\ u.pos = t.pos /\ u.rang = t.rang /\ u.by = t.by
    BY <2>0 DEF Task
  <2> HIDE DEF u
  <2>3. AnswerInv(i)'
    BY <1>0, <2>0, <2>1, <2>2 DEF AnswerInv, Answers, IsAcknowledged
  <2>4. /\ Phase(u) = Phase(t)
        /\ Phase(t) \in {"pending", "alerting", "ending"} <=> t.pc \in Suspended
    BY <2>0, <2>2 DEF Phase, Task, Suspended
  <2>5. (Stopped(u) /\ u.pc # "done")
          <=> (Stopped(t) /\ t.pc # "done") \/ t.pc \in Suspended
    BY <2>0, <2>2 DEF Stopped, StopInv, Suspended
  <2>6. ASSUME NEW r, r = RunOf[i], NEW s, s = Promised(u)
        PROVE  s = Stop(r)
    <3>1. /\ s \in Promise!Run /\ s.phase = Phase(t)
          /\ s.halted = (Stopped(u) /\ u.pc # "done")
          /\ s.reached = t.pos /\ s.rang = t.rang /\ s.by = t.by
          /\ s.outcome = IF Phase(t) \in {"ending", "over"} THEN t.status ELSE "none"
      BY <2>2, <2>4, <2>6, PromisedType DEF Promised
    <3>2. /\ r \in Promise!Run /\ r.phase = Phase(t)
          /\ r.halted = (Stopped(t) /\ t.pc # "done")
          /\ r.reached = t.pos /\ r.rang = t.rang /\ r.by = t.by
          /\ r.outcome = IF Phase(t) \in {"ending", "over"} THEN t.status ELSE "none"
      BY <2>0, <2>6, RunFields
    <3>3. Promise!Unfinished(r) <=> t.pc \in Suspended
      BY <2>4, <3>2 DEF Promise!Unfinished
    <3>4. s.halted = (r.halted \/ Promise!Unfinished(r))
      BY <2>5, <3>1, <3>2, <3>3
    <3>5. ASSUME NEW e, e = Stop(r) PROVE s = e
      <4>1. (r.halted \/ Promise!Unfinished(r)) \in BOOLEAN
        OBVIOUS
      <4>2. /\ e \in Promise!Run /\ e.phase = r.phase
            /\ e.halted = (r.halted \/ Promise!Unfinished(r))
            /\ e.reached = r.reached /\ e.rang = r.rang /\ e.by = r.by
            /\ e.outcome = r.outcome
        BY <3>2, <3>5, <4>1 DEF Promise!Run
      <4> QED BY <3>1, <3>2, <3>4, <4>2, SameRun
    <3> QED BY <3>5
  <2> HIDE DEF Stop
  <2> QED BY <2>1, <2>3, <2>6
<1>2. RunOf' = [i \in Incidents |-> Promised(task'[i])]
  BY DEF RunOf, Promised, Phase, Stopped
<1>3. RunOf' = [i \in Incidents |-> Stop(RunOf[i])]
  <2> HIDE DEF Stop
  <2> QED BY <1>1, <1>2
<1> QED BY <1>0, <1>1, <1>3 DEF Promise!AllHalted, RunOf

-----------------------------------------------------------------------------
(* The theorem.                                                            *)

LEMMA PInvInit == Init => PInv /\ Promise!Init
<1> SUFFICES ASSUME Init PROVE PInv /\ Promise!Init
  OBVIOUS
<1>1. SInv
  BY TypeInit DEF Init, NoTask, SInv, StopInv
<1>2. \A i \in Incidents : AnswerInv(i)
  BY ConstantsAssumption
  DEF Init, NoTask, AnswerInv, Answers, IsAcknowledged, EndingPc
<1>3. Promised(NoTask) = [phase |-> "idle", halted |-> FALSE, reached |-> 0,
                          rang |-> {}, by |-> NoOne, outcome |-> "none"]
  BY DEF Promised, Phase, Stopped, NoTask
<1>4. Promise!Init
  BY <1>3 DEF Init, Promise!Init
<1> QED BY <1>1, <1>2, <1>4, IInvInit DEF PInv

LEMMA PromiseStep ==
  ASSUME PInv, [Next]_vars
  PROVE  PInv' /\ [Promise!Next]_(Promise!vars)
<1> DEFINE Goal == /\ \A i \in Incidents : AnswerInv(i)'
                   /\ Promise!Next \/ UNCHANGED Promise!vars
<1>0. IInv' /\ SInv' /\ TypeOK
  BY IInvStep, StopStep DEF PInv, IInv, TypeInv
<1>1. ASSUME NEW i \in Incidents, RunStep(i) PROVE Goal
  <2>1. PICK u : Become(i, u) /\ Answers(i, u)
    BY <1>1, RunStepKeeps
  <2>2. /\ task'[i] = u /\ \A j \in Incidents \ {i} : task'[j] = task[j]
        /\ UNCHANGED <<ackedBy, closed>>
    BY <1>0, <1>1, <2>1, RunStepEffect DEF Become, TypeOK, PInv, IInv
  <2>3. \A j \in Incidents : AnswerInv(j)'
    BY <2>1, <2>2 DEF PInv, AnswerInv, Answers, IsAcknowledged
  <2>4. Promise!Next \/ UNCHANGED Promise!vars
    BY <1>1, RunStepKeeps DEF Promise!Next
  <2> QED BY <2>3, <2>4
<1>2. ASSUME NEW i \in Incidents, Event(i) PROVE Goal
  <2>1. \A j \in Incidents \ {i} : AnswerInv(j)'
    BY <1>2, EventOthers
  <2>2. /\ AnswerInv(i)'
        /\ \/ Promise!Dispatched(i) \/ Promise!Cancelled(i) \/ Promise!Closed(i)
           \/ Promise!Rings(i) \/ UNCHANGED Promise!vars
           \/ \E c \in Contacts : Promise!Answered(i, c)
    BY <1>2, DispatchKeeps, CancelledKeeps, ForgetKeeps, RingsKeeps, QueuedKeeps,
       FailedKeeps, AcknowledgeKeeps DEF Event, ProviderStep
  <2>3. Promise!Next \/ UNCHANGED Promise!vars
    BY <2>2 DEF Promise!Next
  <2> QED BY <2>1, <2>2, <2>3
<1>3. ASSUME NEW c \in Cameras, WindowLapses(c) PROVE Goal
  <2>1. UNCHANGED <<task, ackedBy, closed>>
    BY <1>3 DEF WindowLapses
  <2>2. \A i \in Incidents : AnswerInv(i)'
    BY <2>1 DEF PInv, AnswerInv, Answers, IsAcknowledged
  <2>3. RunOf' = RunOf
    BY <2>1 DEF RunOf, Promised, Phase, Stopped
  <2>4. Promise!Lapses(c)
    BY <1>3, <2>1, <2>3 DEF WindowLapses, Promise!Lapses, RunOf
  <2> QED BY <2>2, <2>4 DEF Promise!Next
<1>4. ASSUME UNCHANGED <<task, ackedBy, claimant, closed>> PROVE Goal
  <2>1. \A i \in Incidents : AnswerInv(i)'
    BY <1>4 DEF PInv, AnswerInv, Answers, IsAcknowledged
  <2>2. RunOf' = RunOf
    BY <1>4 DEF RunOf, Promised, Phase, Stopped
  <2> QED BY <1>4, <2>1, <2>2 DEF Promise!vars, RunOf
<1>5. ASSUME Shutdown PROVE Goal
  BY <1>5, ShutdownKeeps DEF Promise!Next
<1>6. Goal
  BY <1>1, <1>2, <1>3, <1>4, <1>5 DEF Next, Event, ToggleShadow, vars
<1> QED BY <1>0, <1>6 DEF PInv

(* The dispatcher, with its tasks, awaits, provider threads, bus and       *)
(* cooldown store, does what Escalation says and nothing else: a run goes  *)
(* along the chain contact by contact while nobody has answered or stopped *)
(* it, and one incident of a camera and window gets that far.              *)
THEOREM KeepsItsPromise == Spec => KeepsPromise
<1>1. PInv /\ [Next]_vars => PInv'
  BY PromiseStep
<1>2. PInv /\ [Next]_vars => [Promise!Next]_(Promise!vars)
  BY PromiseStep
<1> QED BY <1>1, <1>2, PInvInit, PTL DEF Spec, KeepsPromise, Promise!Spec
=============================================================================
