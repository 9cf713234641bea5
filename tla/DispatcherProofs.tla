-------------------------- MODULE DispatcherProofs --------------------------
(* Theorems about Dispatcher, for every value of its constants.            *)
EXTENDS Dispatcher, WellFoundedInduction, TLAPS

-----------------------------------------------------------------------------
(* Lemmas about the operators.                                             *)

(* A non-empty set of naturals has a least element, which Min returns.     *)
LEMMA MinOfNats ==
  ASSUME NEW S, S \subseteq Nat, S # {}
  PROVE  Min(S) \in S /\ \A y \in S : Min(S) <= y
<1> DEFINE Less == {p \in Nat \X Nat : p[1] < p[2]}
<1>1. IsWellFoundedOn(Less, Nat)
  BY NatLessThanWellFounded DEF OpToRel
<1>2. PICK x \in S : \A y \in S : ~ (<<y, x>> \in Less)
  <2> HIDE DEF Less
  <2> QED BY <1>1, WFMin
<1>3. ASSUME NEW y \in S PROVE x <= y
  <2>1. x \in Nat /\ y \in Nat
    OBVIOUS
  <2>2. ~ (y < x)
    BY <1>2, <2>1
  <2> QED BY <2>1, <2>2
<1> QED BY <1>3 DEF Min

(* Every camera's chain is a sequence of contacts.                         *)
LEMMA ChainType ==
  ASSUME NEW i \in Incidents
  PROVE  /\ ChainOf(i) \in Seq(Contacts)
         /\ Len(ChainOf(i)) \in Nat
         /\ \A k \in 1 .. Len(ChainOf(i)) : ChainOf(i)[k] \in Contacts
<1>1. ChainOf(i) \in Seq(Contacts)
  BY ConstantsAssumption DEF ChainOf
<1> QED BY <1>1

(* The contact that Walk tries next is the first ahead with a channel.     *)
LEMMA NextAhead ==
  ASSUME NEW i \in Incidents, NEW k \in Nat, k > 0, Ahead(i, k) # {}
  PROVE  /\ Min(Ahead(i, k)) \in k .. Len(ChainOf(i))
         /\ ChainOf(i)[Min(Ahead(i, k))] \in HasSms \cup HasCall
         /\ \A n \in k .. Len(ChainOf(i)) :
              n < Min(Ahead(i, k)) => ChainOf(i)[n] \notin HasCall
<1>1. Ahead(i, k) \subseteq Nat
  BY ChainType DEF Ahead
<1>2. /\ Min(Ahead(i, k)) \in Ahead(i, k)
      /\ \A n \in Ahead(i, k) : Min(Ahead(i, k)) <= n
  BY <1>1, MinOfNats
<1>3. Min(Ahead(i, k)) \in Nat
  BY <1>1, <1>2
<1>4. ASSUME NEW n \in k .. Len(ChainOf(i)), n < Min(Ahead(i, k))
      PROVE  ChainOf(i)[n] \notin HasCall
  BY <1>2, <1>3, <1>4, ChainType DEF Ahead
<1> QED BY <1>2, <1>4 DEF Ahead

-----------------------------------------------------------------------------
(* Type correctness.  A task that deals with a contact, or whose provider  *)
(* thread still runs, has its position inside the chain.                   *)

Contacting == {"sms", "smsPub", "call", "callPub", "wait"}

Busy(t) == t.request \in {"texting", "dialling"}

InChain(i, t) == t.pos \in 1 .. Len(ChainOf(i))

TaskOK(i, t) ==
  /\ t \in Task
  /\ t.pc \in Contacting \/ Busy(t) => InChain(i, t)

TypeInv == TypeOK /\ \A i \in Incidents : TaskOK(i, task[i])

LEMMA FinishOK ==
  ASSUME NEW i \in Incidents, NEW t, TaskOK(i, t), NEW s \in Statuses
  PROVE  TaskOK(i, Finish(t, s)) /\ TaskOK(i, Fail(t))
<1>1. TaskOK(i, Finish(t, s))
  BY DEF TaskOK, Task, Finish, Suspended, Contacting, Busy, InChain
<1>2. TaskOK(i, Fail(t))
  <2>1. "failPub" \in Suspended /\ "failed" \in Statuses
    BY DEF Suspended, Statuses
  <2>2. Fail(t) \in Task
    BY <2>1 DEF TaskOK, Task, Fail
  <2>3. /\ Fail(t).pc = "failPub" /\ Fail(t).request = t.request
        /\ Fail(t).pos = t.pos
    BY DEF TaskOK, Task, Fail
  <2> QED BY <2>2, <2>3 DEF TaskOK, Contacting, Busy, InChain
<1> QED BY <1>1, <1>2

LEMMA FinishAcknowledgedOK ==
  ASSUME NEW i \in Incidents, NEW t, TaskOK(i, t), NEW c \in Contacts,
         ackedBy[i] \in Contacts \cup {NoOne}
  PROVE  TaskOK(i, FinishAcknowledged(i, t, c))
BY DEF TaskOK, Task, Finish, FinishAcknowledged, IsAcknowledged, Statuses,
       Suspended, Contacting, Busy, InChain

LEMMA PlaceCallOK ==
  ASSUME NEW i \in Incidents, NEW t, t \in Task, InChain(i, t),
         NEW c \in Contacts
  PROVE  TaskOK(i, PlaceCall(t, c))
<1>1. TaskOK(i, Fail(t))
  BY FinishOK DEF TaskOK, Statuses
<1> DEFINE u == [t EXCEPT !.pc = "call", !.request = "dialling",
                          !.tries = @ + 1, !.dialled[c] = @ + 1]
<1>2. /\ t.tries + 1 \in Nat
      /\ [t.dialled EXCEPT ![c] = @ + 1] \in [Contacts -> Nat]
  BY DEF Task
<1>3. u \in Task /\ u.pos = t.pos
  BY <1>2 DEF Task, Suspended
<1>4. TaskOK(i, u)
  BY <1>3 DEF TaskOK, InChain
<1> QED BY <1>1, <1>4 DEF PlaceCall

LEMMA TryContactOK ==
  ASSUME NEW i \in Incidents, NEW t, t \in Task, InChain(i, t),
         NEW c \in Contacts
  PROVE  TaskOK(i, TryContact(t, c))
<1>1. TaskOK(i, Fail(t))
  BY FinishOK DEF TaskOK, Statuses
<1> DEFINE u == [t EXCEPT !.pc = "sms", !.request = "texting"]
<1>2. u \in Task /\ u.pos = t.pos
  BY DEF Task, Suspended
<1>3. TaskOK(i, u)
  BY <1>2 DEF TaskOK, InChain
<1>4. TaskOK(i, SendSms(t))
  BY <1>1, <1>3 DEF SendSms
<1> QED BY <1>4, PlaceCallOK DEF TryContact

LEMMA WalkOK ==
  ASSUME NEW i \in Incidents, NEW t, TaskOK(i, t), NEW k \in Nat, k > 0,
         ackedBy[i] \in Contacts \cup {NoOne}
  PROVE  TaskOK(i, Walk(i, t, k))
<1>1. CASE IsAcknowledged(i) /\ k \in 1 .. Len(ChainOf(i)) \ Ahead(i, k)
  BY <1>1, ChainType, FinishAcknowledgedOK DEF Walk
<1>2. CASE ~(IsAcknowledged(i) /\ k \in 1 .. Len(ChainOf(i)) \ Ahead(i, k))
           /\ Ahead(i, k) = {}
  BY <1>2, FinishOK DEF Walk, Statuses
<1>3. CASE ~(IsAcknowledged(i) /\ k \in 1 .. Len(ChainOf(i)) \ Ahead(i, k))
           /\ Ahead(i, k) # {}
  <2> DEFINE j == Min(Ahead(i, k))
             u == [t EXCEPT !.pos = j, !.tries = 0]
  <2>1. j \in 1 .. Len(ChainOf(i)) /\ j \in Nat
    BY <1>3, NextAhead, ChainType
  <2>2. u \in Task /\ InChain(i, u)
    BY <2>1 DEF TaskOK, Task, InChain
  <2>3. Walk(i, t, k) = TryContact(u, ChainOf(i)[j])
    BY <1>3 DEF Walk
  <2> QED BY <2>1, <2>2, <2>3, ChainType, TryContactOK
<1> QED BY <1>1, <1>2, <1>3

LEMMA ContactTriedOK ==
  ASSUME NEW i \in Incidents, NEW t, TaskOK(i, t), InChain(i, t),
         ackedBy[i] \in Contacts \cup {NoOne}
  PROVE  TaskOK(i, ContactTried(i, t)) /\ TaskOK(i, NextAttempt(i, t))
<1>1. /\ t \in Task /\ t.pos \in 1 .. Len(ChainOf(i))
      /\ t.pos + 1 \in Nat /\ t.pos + 1 > 0
  BY ChainType DEF TaskOK, InChain
<1>2. ChainOf(i)[t.pos] \in Contacts
  BY <1>1, ChainType
<1>3. TaskOK(i, ContactTried(i, t))
  BY <1>1, <1>2, WalkOK, FinishAcknowledgedOK DEF ContactTried
<1> QED BY <1>1, <1>2, <1>3, PlaceCallOK DEF NextAttempt

LEMMA AlertOrGraceOK ==
  ASSUME NEW i \in Incidents, NEW t, TaskOK(i, t),
         ackedBy[i] \in Contacts \cup {NoOne}
  PROVE  TaskOK(i, AlertOrGrace(i, t))
<1>1. TaskOK(i, [t EXCEPT !.pc = "delayPub"])
  BY DEF TaskOK, Task, Suspended, Contacting, Busy, InChain
<1>2. TaskOK(i, Walk(i, t, 1))
  BY WalkOK
<1> QED BY <1>1, <1>2, FinishOK DEF AlertOrGrace, Statuses

LEMMA BecomeOK ==
  ASSUME TypeInv, NEW i \in Incidents, NEW t, TaskOK(i, t), Become(i, t)
  PROVE  task' \in [Incidents -> Task] /\ \A j \in Incidents : TaskOK(j, task'[j])
<1>1. t \in Task
  BY DEF TaskOK
<1>2. task' \in [Incidents -> Task]
  BY <1>1 DEF Become, TypeInv, TypeOK
<1>3. ASSUME NEW j \in Incidents PROVE TaskOK(j, task'[j])
  BY DEF Become, TypeInv, TypeOK
<1> QED BY <1>2, <1>3

LEMMA RunStepType ==
  ASSUME TypeInv, NEW i \in Incidents, RunStep(i)
  PROVE  TypeInv'
<1> DEFINE t == task[i]
<1>0. /\ TaskOK(i, t) /\ t \in Task
      /\ ackedBy[i] \in Contacts \cup {NoOne}
      /\ CameraOf[i] \in Cameras
  BY ConstantsAssumption DEF TypeInv, TypeOK, TaskOK
<1> SUFFICES /\ \E u : Become(i, u) /\ TaskOK(i, u)
             /\ claimant' \in [Cameras -> Incidents \cup {NoOne}]
             /\ UNCHANGED <<ackedBy, closed, shadow, up>>
  <2> PICK u : Become(i, u) /\ TaskOK(i, u)
    OBVIOUS
  <2>1. task' \in [Incidents -> Task] /\ \A j \in Incidents : TaskOK(j, task'[j])
    BY BecomeOK
  <2> QED BY <2>1 DEF TypeInv, TypeOK
<1> USE DEF TypeInv, TypeOK
<1>a. claimant' = claimant \/ claimant' = [claimant EXCEPT ![CameraOf[i]] = i]
        => claimant' \in [Cameras -> Incidents \cup {NoOne}]
  BY <1>0
<1>b. ASSUME ShouldAlert(i)
      PROVE  /\ \E u : Become(i, u) /\ TaskOK(i, u)
             /\ claimant' \in [Cameras -> Incidents \cup {NoOne}]
  BY <1>0, <1>a, <1>b, FinishOK, AlertOrGraceOK DEF ShouldAlert, Statuses
<1>c. MaybeClaim(i) => claimant' \in [Cameras -> Incidents \cup {NoOne}]
  BY <1>a DEF MaybeClaim
<1>d. InChain(i, t) => Contact(i) \in Contacts
  BY ChainType DEF InChain, Contact
<1>1. CASE Begin(i)
  <2>1. TaskOK(i, [t EXCEPT !.pc = "broadcast", !.status = "shadow"])
    <3> DEFINE u == [t EXCEPT !.pc = "broadcast", !.status = "shadow"]
    <3>1. "broadcast" \in Suspended /\ "shadow" \in Statuses
      BY DEF Suspended, Statuses
    <3>2. u \in Task
      BY <1>0, <3>1 DEF Task
    <3>3. u.pc = "broadcast" /\ u.request = t.request /\ u.pos = t.pos
      BY <1>0 DEF Task
    <3> QED BY <1>0, <3>2, <3>3 DEF TaskOK, Contacting, Busy, InChain
  <2> QED BY <1>1, <2>1 DEF Begin
<1>2. CASE Broadcasted(i)
  <2>1. TaskOK(i, [t EXCEPT !.pc = "cooldown"])
    BY <1>0 DEF TaskOK, Task, Suspended, Contacting, Busy, InChain
  <2> QED BY <1>0, <1>2, <1>b, <2>1, FinishOK DEF Broadcasted, Statuses
<1>3. CASE CooldownAnswered(i)
  BY <1>3, <1>b DEF CooldownAnswered
<1>4. CASE CooldownRaises(i)
  BY <1>0, <1>4, <1>c, FinishOK DEF CooldownRaises, Statuses
<1>5. CASE GracePublished(i)
  <2>1. TaskOK(i, [t EXCEPT !.pc = "delay"])
    BY <1>0 DEF TaskOK, Task, Suspended, Contacting, Busy, InChain
  <2> QED BY <1>5, <2>1 DEF GracePublished
<1>6. CASE GraceEnds(i)
  BY <1>0, <1>6, WalkOK DEF GraceEnds
<1>7. CASE SmsReturns(i)
  <2>1. TaskOK(i, [t EXCEPT !.pc = "smsPub", !.request = "idle"])
    BY <1>0, <1>7
    DEF SmsReturns, Resumes, TaskOK, Task, Suspended, Contacting, Busy, InChain
  <2> QED BY <1>7, <2>1 DEF SmsReturns
<1>8. CASE SmsPublished(i)
  <2>1. InChain(i, t)
    BY <1>0, <1>8 DEF SmsPublished, Resumes, TaskOK, Contacting
  <2> QED BY <1>0, <1>8, <1>d, <2>1, PlaceCallOK, ContactTriedOK DEF SmsPublished
<1>9. CASE CallReturns(i)
  <2>1. InChain(i, t)
    BY <1>0, <1>9 DEF CallReturns, Resumes, TaskOK, Contacting
  <2>2. ASSUME NEW l \in SUBSET Contacts
        PROVE  TaskOK(i, [t EXCEPT !.pc = "callPub", !.logged = l])
    BY <1>0, <2>1
    DEF TaskOK, Task, Suspended, Contacting, Busy, InChain
  <2>3. t.logged \cup {Contact(i)} \in SUBSET Contacts
    BY <1>0, <1>d, <2>1 DEF Task
  <2> QED BY <1>9, <2>2, <2>3 DEF CallReturns
<1>10. CASE CallPublished(i)
  <2> DEFINE u == [t EXCEPT !.request = "idle"]
  <2>1. TaskOK(i, u) /\ InChain(i, u)
    BY <1>0, <1>10
    DEF CallPublished, Resumes, TaskOK, Task, Contacting, Busy, InChain
  <2>2. TaskOK(i, [u EXCEPT !.pc = "wait", !.waiter = "linked"])
    BY <2>1 DEF TaskOK, Task, Suspended, Contacting, Busy, InChain
  <2>3. Contact(i) \in Contacts
    BY <1>d, <2>1 DEF InChain, TaskOK, Task
  <2> HIDE DEF u
  <2>4. /\ TaskOK(i, NextAttempt(i, u))
        /\ TaskOK(i, FinishAcknowledged(i, u, Contact(i)))
    BY <1>0, <2>1, <2>3, ContactTriedOK, FinishAcknowledgedOK
  <2> QED BY <1>10, <2>2, <2>4 DEF CallPublished, u
<1>11. CASE WaitWoken(i)
  <2> DEFINE u == [t EXCEPT !.waiter = "none"]
  <2>1. TaskOK(i, u) /\ InChain(i, t)
    BY <1>0, <1>11
    DEF WaitWoken, Resumes, TaskOK, Task, Contacting, Busy, InChain
  <2> QED BY <1>0, <1>11, <1>d, <2>1, FinishAcknowledgedOK DEF WaitWoken
<1>12. CASE WaitTimesOut(i)
  <2> DEFINE u == [t EXCEPT !.waiter = "none"]
  <2>1. TaskOK(i, u) /\ InChain(i, u)
    BY <1>0, <1>12
    DEF WaitTimesOut, Resumes, TaskOK, Task, Contacting, Busy, InChain
  <2> QED BY <1>0, <1>12, <2>1, ContactTriedOK DEF WaitTimesOut
<1>13. CASE LastPublished(i)
  <2>1. TaskOK(i, [t EXCEPT !.pc = "done"])
    BY <1>0 DEF TaskOK, Task, Contacting, Busy, InChain
  <2> QED BY <1>13, <2>1 DEF LastPublished
<1>14. CASE CancelArrives(i)
  <2> DEFINE u == [t EXCEPT !.cancelling = FALSE, !.waiter = "none"]
  <2>1. TaskOK(i, u)
    BY <1>0 DEF TaskOK, Task, Contacting, Busy, InChain
  <2> HIDE DEF u
  <2>2. TaskOK(i, [u EXCEPT !.pc = "done"])
    BY <2>1 DEF TaskOK, Task, Contacting, Busy, InChain
  <2>3. TaskOK(i, [u EXCEPT !.pc = "cancelPub", !.status = "cancelled"])
    <3> DEFINE v == [u EXCEPT !.pc = "cancelPub", !.status = "cancelled"]
    <3>1. "cancelPub" \in Suspended /\ "cancelled" \in Statuses
      BY DEF Suspended, Statuses
    <3>2. v \in Task
      BY <2>1, <3>1 DEF TaskOK, Task
    <3>3. v.pc = "cancelPub" /\ v.request = u.request /\ v.pos = u.pos
      BY <2>1 DEF TaskOK, Task
    <3> QED BY <2>1, <3>2, <3>3 DEF TaskOK, Contacting, Busy, InChain
  <2> QED BY <1>14, <1>c, <2>2, <2>3 DEF CancelArrives, u
<1> QED BY <1>1, <1>2, <1>3, <1>4, <1>5, <1>6, <1>7, <1>8, <1>9, <1>10, <1>11,
           <1>12, <1>13, <1>14 DEF RunStep, LocalStep

(* A call into the dispatcher, or an answer of the provider.               *)
Event(i) ==
  \/ Dispatch(i) \/ Cancel(i) \/ Forget(i) \/ ProviderStep(i)
  \/ \E c \in Contacts : Acknowledge(i, c)

LEMMA EventType ==
  ASSUME TypeInv, NEW i \in Incidents,
         Event(i)
  PROVE  TypeInv'
<1> DEFINE t == task[i]
<1>0. /\ TaskOK(i, t) /\ t \in Task
      /\ ackedBy[i] \in Contacts \cup {NoOne}
  BY DEF TypeInv, TypeOK, TaskOK
<1> SUFFICES /\ \E u : Become(i, u) /\ TaskOK(i, u)
             /\ ackedBy' \in [Incidents -> Contacts \cup {NoOne}]
             /\ closed' \subseteq Incidents
             /\ UNCHANGED <<claimant, shadow, up>>
  <2> PICK u : Become(i, u) /\ TaskOK(i, u)
    OBVIOUS
  <2>1. task' \in [Incidents -> Task] /\ \A j \in Incidents : TaskOK(j, task'[j])
    BY BecomeOK
  <2> QED BY <2>1 DEF TypeInv, TypeOK
<1> USE DEF TypeInv, TypeOK
<1>1. CASE Dispatch(i)
  <2>1. TaskOK(i, [t EXCEPT !.pc = "created"])
    BY <1>0 DEF TaskOK, Task, Suspended, Contacting, Busy, InChain
  <2> QED BY <1>1, <2>1 DEF Dispatch
<1>2. CASE Cancel(i)
  <2>1. ASSUME NEW s \in Statuses
        PROVE  TaskOK(i, [t EXCEPT !.cancelling = TRUE, !.status = s])
    BY <1>0 DEF TaskOK, Task, Suspended, Contacting, Busy, InChain
  <2>2. (IF t.status = "no_run" THEN t.status ELSE "cancelled") \in Statuses
    BY DEF Statuses
  <2> QED BY <1>2, <2>1, <2>2 DEF Cancel
<1>3. CASE Forget(i)
  <2>1. ASSUME NEW w \in {"none", "linked", "orphan", "woken"}
        PROVE  TaskOK(i, [t EXCEPT !.waiter = w])
    BY <1>0 DEF TaskOK, Task, Contacting, Busy, InChain
  <2>2. (IF t.waiter = "linked" THEN "orphan" ELSE t.waiter)
           \in {"none", "linked", "orphan", "woken"}
    BY <1>0 DEF Task
  <2> QED BY <1>3, <2>1, <2>2 DEF Forget
<1>4. CASE RequestQueued(i)
  <2>1. Contact(i) \in Contacts
    BY <1>0, <1>4, ChainType DEF RequestQueued, TaskOK, Busy, InChain, Contact
  <2>2. ASSUME NEW r \in SUBSET Contacts
        PROVE  TaskOK(i, [t EXCEPT !.request = "queued", !.rang = r])
    BY <1>0 DEF TaskOK, Task, Contacting, Busy, InChain
  <2>3. (IF t.request = "dialling" THEN t.rang \cup {Contact(i)} ELSE t.rang)
          \in SUBSET Contacts
    BY <1>0, <2>1 DEF Task
  <2> QED BY <1>4, <2>2, <2>3 DEF RequestQueued
<1>5. CASE RequestFailed(i)
  <2>1. TaskOK(i, [t EXCEPT !.request = "failed"])
    BY <1>0 DEF TaskOK, Task, Contacting, Busy, InChain
  <2> QED BY <1>5, <2>1 DEF RequestFailed
<1>6. ASSUME NEW c \in Contacts, Acknowledge(i, c)
      PROVE  /\ \E u : Become(i, u) /\ TaskOK(i, u)
             /\ ackedBy' \in [Incidents -> Contacts \cup {NoOne}]
             /\ closed' \subseteq Incidents
             /\ UNCHANGED <<claimant, shadow, up>>
  <2>1. ASSUME NEW w \in {"none", "linked", "orphan", "woken"}
        PROVE  TaskOK(i, [t EXCEPT !.by = c, !.waiter = w])
    BY <1>0 DEF TaskOK, Task, Contacting, Busy, InChain
  <2>2. (IF t.waiter = "linked" THEN "woken" ELSE t.waiter)
           \in {"none", "linked", "orphan", "woken"}
    BY <1>0 DEF Task
  <2> QED BY <1>6, <2>1, <2>2 DEF Acknowledge
<1>7. CASE PhoneRings(i)
  <2>1. Contact(i) \in Contacts
    BY <1>0, <1>7, ChainType DEF PhoneRings, TaskOK, Busy, InChain, Contact
  <2>2. ASSUME NEW r \in SUBSET Contacts
        PROVE  TaskOK(i, [t EXCEPT !.rang = r])
    BY <1>0 DEF TaskOK, Task, Contacting, Busy, InChain
  <2>3. t.rang \cup {Contact(i)} \in SUBSET Contacts
    BY <1>0, <2>1 DEF Task
  <2> QED BY <1>7, <2>2, <2>3 DEF PhoneRings
<1> QED BY <1>1, <1>2, <1>3, <1>4, <1>5, <1>6, <1>7 DEF Event, ProviderStep

LEMMA ShutdownType ==
  ASSUME TypeInv, Shutdown
  PROVE  TypeInv'
<1>1. ASSUME NEW i \in Incidents
      PROVE  task'[i] \in Task /\ TaskOK(i, task'[i])
  <2> DEFINE t == task[i]
  <2>1. TaskOK(i, t)
    BY DEF TypeInv
  <2>2. task'[i] = [t EXCEPT !.cancelling = @ \/ t.pc \in Suspended]
    BY DEF Shutdown
  <2>3. (t.cancelling \/ t.pc \in Suspended) \in BOOLEAN
    OBVIOUS
  <2>4. ASSUME NEW b \in BOOLEAN
        PROVE  TaskOK(i, [t EXCEPT !.cancelling = b])
    BY <2>1 DEF TaskOK, Task, Contacting, Busy, InChain
  <2> QED BY <2>2, <2>3, <2>4 DEF TaskOK
<1>2. task' \in [Incidents -> Task]
  BY <1>1 DEF Shutdown
<1> QED BY <1>1, <1>2 DEF Shutdown, TypeInv, TypeOK

LEMMA TypeInit == Init => TypeInv
<1> SUFFICES ASSUME Init PROVE TypeInv
  OBVIOUS
<1>1. NoTask \in Task /\ NoTask.pc = "none" /\ ~Busy(NoTask)
  BY DEF NoTask, Task, Statuses, Busy
<1>2. ASSUME NEW i \in Incidents PROVE TaskOK(i, task[i])
  BY <1>1, <1>2 DEF Init, TaskOK, Contacting
<1> QED BY <1>1, <1>2 DEF Init, TypeInv, TypeOK

LEMMA TypeStep == TypeInv /\ [Next]_vars => TypeInv'
<1> SUFFICES ASSUME TypeInv, [Next]_vars PROVE TypeInv'
  OBVIOUS
<1>1. ASSUME NEW i \in Incidents, RunStep(i) PROVE TypeInv'
  BY <1>1, RunStepType
<1>2. ASSUME NEW i \in Incidents,
             Event(i)
      PROVE  TypeInv'
  BY <1>2, EventType
<1>3. ASSUME NEW c \in Cameras, WindowLapses(c) PROVE TypeInv'
  BY <1>3 DEF WindowLapses, TypeInv, TypeOK
<1>4. CASE ToggleShadow
  BY <1>4 DEF ToggleShadow, TypeInv, TypeOK
<1>5. CASE Shutdown
  BY <1>5, ShutdownType
<1>6. CASE UNCHANGED vars
  BY <1>6 DEF vars, TypeInv, TypeOK
<1> QED BY <1>1, <1>2, <1>3, <1>4, <1>5, <1>6 DEF Next, Event

(* Every state the dispatcher reaches is well-typed, and a task that works *)
(* on a contact has its position inside the camera's chain.                *)
THEOREM TypeCorrect == Spec => [](TypeOK /\ TypeInv)
<1>1. TypeInv => TypeOK
  BY DEF TypeInv
<1> QED BY <1>1, TypeInit, TypeStep, PTL DEF Spec

-----------------------------------------------------------------------------
(* Acknowledgements and the cooldown window.                               *)

(* Where no contact has been reached yet.                                  *)
Early == {"none", "created", "broadcast", "cooldown", "delayPub", "delay"}

Reaching(t) == t.pos > 0 \/ t.pc \in {"delayPub", "delay"}

(* Nobody can acknowledge before a phone rang, and no phone rings before   *)
(* the walk began; what the run knows of an acknowledgement the bus knows; *)
(* a run that reaches contacts, or is about to, claimed its window.        *)
AckInv(i) ==
  /\ task[i].pc \in Early => task[i].pos = 0
  /\ task[i].rang # {} => task[i].pos > 0
  /\ IsAcknowledged(i) => task[i].rang # {}
  /\ i \notin closed =>
       (task[i].by # NoOne \/ task[i].waiter = "woken" => IsAcknowledged(i))

WindowInv(i) ==
  "lapse" \notin Env => (Reaching(task[i]) => claimant[CameraOf[i]] = i)

IInv == TypeInv /\ \A i \in Incidents : AckInv(i) /\ WindowInv(i)

(* What the code between two awaits leaves alone.                          *)
Moved(i, t, u) ==
  /\ u.pc \in {"sms", "call", "finish", "failPub"}
  /\ u.rang = t.rang /\ u.waiter = t.waiter
  /\ u.by = t.by \/ IsAcknowledged(i)

LEMMA FinishMoves ==
  ASSUME NEW i \in Incidents, NEW t \in Task, NEW s \in Statuses
  PROVE  /\ Moved(i, t, Finish(t, s)) /\ Finish(t, s).pos = t.pos
         /\ Finish(t, s).by = t.by
         /\ Moved(i, t, Fail(t)) /\ Fail(t).pos = t.pos
BY DEF Moved, Finish, Fail, Task

LEMMA FinishAcknowledgedMoves ==
  ASSUME NEW i \in Incidents, NEW t \in Task, NEW c \in Contacts,
         IsAcknowledged(i)
  PROVE  /\ Moved(i, t, FinishAcknowledged(i, t, c))
         /\ FinishAcknowledged(i, t, c).pos = t.pos
BY DEF Moved, FinishAcknowledged, Finish, Task

LEMMA PlaceCallMoves ==
  ASSUME NEW i \in Incidents, NEW t \in Task, NEW c \in Contacts
  PROVE  /\ Moved(i, t, PlaceCall(t, c)) /\ PlaceCall(t, c).pos = t.pos
         /\ Moved(i, t, TryContact(t, c)) /\ TryContact(t, c).pos = t.pos
BY DEF Moved, PlaceCall, TryContact, SendSms, Fail, Task

LEMMA WalkMoves ==
  ASSUME NEW i \in Incidents, NEW t \in Task, NEW k \in Nat, k > 0
  PROVE  /\ Moved(i, t, Walk(i, t, k))
         /\ Walk(i, t, k).pos \in Nat
         /\ Walk(i, t, k).pos = t.pos \/ Walk(i, t, k).pos > 0
<1>1. CASE IsAcknowledged(i) /\ k \in 1 .. Len(ChainOf(i)) \ Ahead(i, k)
  BY <1>1, ChainType, FinishAcknowledgedMoves DEF Walk, Task
<1>2. CASE ~(IsAcknowledged(i) /\ k \in 1 .. Len(ChainOf(i)) \ Ahead(i, k))
           /\ Ahead(i, k) = {}
  BY <1>2, FinishMoves DEF Walk, Statuses, Task
<1>3. CASE ~(IsAcknowledged(i) /\ k \in 1 .. Len(ChainOf(i)) \ Ahead(i, k))
           /\ Ahead(i, k) # {}
  <2> DEFINE j == Min(Ahead(i, k))
             u == [t EXCEPT !.pos = j, !.tries = 0]
  <2>1. j \in 1 .. Len(ChainOf(i)) /\ j \in Nat /\ j > 0
    BY <1>3, NextAhead, ChainType
  <2>2. /\ u \in Task /\ u.pos = j
        /\ u.rang = t.rang /\ u.waiter = t.waiter /\ u.by = t.by
    BY <2>1 DEF Task
  <2>3. Walk(i, t, k) = TryContact(u, ChainOf(i)[j])
    BY <1>3 DEF Walk
  <2> HIDE DEF u, j
  <2>4. /\ Moved(i, u, TryContact(u, ChainOf(i)[j]))
        /\ TryContact(u, ChainOf(i)[j]).pos = u.pos
    BY <2>1, <2>2, ChainType, PlaceCallMoves
  <2> QED BY <2>1, <2>2, <2>3, <2>4 DEF Moved
<1> QED BY <1>1, <1>2, <1>3

LEMMA NextAttemptMoves ==
  ASSUME NEW i \in Incidents, NEW t \in Task, InChain(i, t)
  PROVE  \A u \in {NextAttempt(i, t), ContactTried(i, t)} :
           /\ Moved(i, t, u)
           /\ u.pos \in Nat /\ u.pos > 0
           /\ IsAcknowledged(i) => u.pos = t.pos
<1>1. /\ t.pos \in Nat /\ t.pos > 0 /\ t.pos + 1 \in Nat /\ t.pos + 1 > 0
      /\ ChainOf(i)[t.pos] \in Contacts
  BY ChainType DEF InChain
<1>2. /\ Moved(i, t, ContactTried(i, t))
      /\ ContactTried(i, t).pos \in Nat /\ ContactTried(i, t).pos > 0
      /\ IsAcknowledged(i) => ContactTried(i, t).pos = t.pos
  BY <1>1, WalkMoves, FinishAcknowledgedMoves DEF ContactTried
<1>3. /\ Moved(i, t, PlaceCall(t, ChainOf(i)[t.pos]))
      /\ PlaceCall(t, ChainOf(i)[t.pos]).pos = t.pos
  BY <1>1, PlaceCallMoves
<1>4. \/ NextAttempt(i, t) = PlaceCall(t, ChainOf(i)[t.pos])
      \/ NextAttempt(i, t) = ContactTried(i, t)
  BY DEF NextAttempt
<1> QED BY <1>1, <1>2, <1>3, <1>4

(* What a step of the run makes of its task record t and of the window.    *)
RunEffect(i, t, u) ==
  /\ u.rang = t.rang
  /\ u.waiter \in {t.waiter, "none", "linked"}
  /\ u.by = t.by \/ IsAcknowledged(i) \/ t.waiter = "woken"
  /\ u.pos \in Nat /\ (u.pos = t.pos \/ u.pos > 0)
  /\ u.pc \in Early => t.pc \in Early /\ u.pos = t.pos
  /\ u.pc \in {"delayPub", "delay"} \/ u.pos # t.pos
       => Reaching(t) \/ claimant'[CameraOf[i]] = i
  /\ t.pc \notin Early /\ IsAcknowledged(i) => u.pos = t.pos

LEMMA RunStepEffect ==
  ASSUME TypeInv, NEW i \in Incidents, RunStep(i)
  PROVE  /\ \E u : Become(i, u) /\ RunEffect(i, task[i], u)
         /\ \/ claimant' = claimant
            \/ /\ ~Cooling(i)
               /\ claimant' = [claimant EXCEPT ![CameraOf[i]] = i]
         /\ UNCHANGED <<ackedBy, closed, shadow, up>>
<1> DEFINE t == task[i]
           Goal == \E u : Become(i, u) /\ RunEffect(i, t, u)
<1>0. /\ TaskOK(i, t) /\ t \in Task /\ t.pos \in Nat
      /\ CameraOf[i] \in Cameras
      /\ claimant \in [Cameras -> Incidents \cup {NoOne}]
  BY ConstantsAssumption DEF TypeInv, TypeOK, TaskOK, Task
<1>a. t.pc \in Contacting => InChain(i, t) /\ t.pos > 0
  BY <1>0, ChainType DEF TaskOK, InChain
<1>b. ASSUME NEW p \in {"broadcast", "cooldown", "delay"}, t.pc \in Early,
             p = "delay" => Reaching(t), NEW s
      PROVE  /\ RunEffect(i, t, [t EXCEPT !.pc = p, !.status = s])
             /\ RunEffect(i, t, [t EXCEPT !.pc = p])
  BY <1>0, <1>b DEF RunEffect, Task, Early, Reaching
<1>c. ASSUME NEW s \in Statuses
      PROVE  RunEffect(i, t, Finish(t, s)) /\ RunEffect(i, t, Fail(t))
  BY <1>0, FinishMoves DEF RunEffect, Moved, Early, Reaching
<1>d. ASSUME Reaching(t) \/ claimant'[CameraOf[i]] = i, t.pc \in Early
      PROVE  RunEffect(i, t, Walk(i, t, 1))
  <2>1. /\ Moved(i, t, Walk(i, t, 1))
        /\ Walk(i, t, 1).pos \in Nat
        /\ Walk(i, t, 1).pos = t.pos \/ Walk(i, t, 1).pos > 0
    BY <1>0, WalkMoves
  <2> QED BY <1>d, <2>1 DEF RunEffect, Moved, Early
<1>e. ASSUME claimant'[CameraOf[i]] = i, t.pc \in Early, t.pc # "delay"
      PROVE  RunEffect(i, t, AlertOrGrace(i, t))
  <2>1. RunEffect(i, t, [t EXCEPT !.pc = "delayPub"])
    BY <1>0, <1>e DEF RunEffect, Task, Early
  <2> QED BY <1>c, <1>d, <1>e, <2>1 DEF AlertOrGrace, Statuses
<1>f. ASSUME ShouldAlert(i), t.pc \in {"broadcast", "cooldown"}
      PROVE  Goal /\ \/ claimant' = claimant
                     \/ /\ ~Cooling(i)
                        /\ claimant' = [claimant EXCEPT ![CameraOf[i]] = i]
  <2>1. CASE Cooling(i)
    BY <1>c, <1>f, <2>1 DEF ShouldAlert, Statuses
  <2>2. CASE ~Cooling(i)
    <3>1. claimant'[CameraOf[i]] = i
      BY <1>0, <1>f, <2>2 DEF ShouldAlert
    <3>2. t.pc \in Early /\ t.pc # "delay"
      BY <1>f DEF Early
    <3> QED BY <1>e, <1>f, <2>2, <3>1, <3>2 DEF ShouldAlert
  <2> QED BY <2>1, <2>2
<1>g. ASSUME NEW v, v \in Task, InChain(i, v), v.rang = t.rang, v.by = t.by,
             v.waiter \in {t.waiter, "none"}, v.pos = t.pos
      PROVE  /\ t.pc \in Contacting =>
                  /\ RunEffect(i, t, NextAttempt(i, v))
                  /\ RunEffect(i, t, ContactTried(i, v))
             /\ IsAcknowledged(i) \/ t.waiter = "woken" =>
                  \A c \in Contacts : RunEffect(i, t, FinishAcknowledged(i, v, c))
  <2>1. \A u \in {NextAttempt(i, v), ContactTried(i, v)} :
           /\ Moved(i, v, u)
           /\ u.pos \in Nat /\ u.pos > 0
           /\ IsAcknowledged(i) => u.pos = v.pos
    BY <1>g, NextAttemptMoves
  <2>2. ASSUME IsAcknowledged(i) \/ t.waiter = "woken", NEW c \in Contacts
        PROVE  RunEffect(i, t, FinishAcknowledged(i, v, c))
    BY <1>0, <1>g, <2>2
    DEF RunEffect, FinishAcknowledged, Finish, Task, Early, Reaching
  <2>3. ASSUME t.pc \in Contacting, NEW u \in {NextAttempt(i, v), ContactTried(i, v)}
        PROVE  RunEffect(i, t, u)
    BY <1>a, <1>g, <2>1, <2>3 DEF RunEffect, Moved, Early, Reaching, Contacting
  <2> QED BY <2>2, <2>3
<1>h. InChain(i, t) => Contact(i) \in Contacts
  BY ChainType DEF InChain, Contact
<1>1. CASE Begin(i)
  BY <1>1, <1>b DEF Begin, Resumes, Early
<1>2. CASE Broadcasted(i)
  BY <1>2, <1>b, <1>c, <1>f DEF Broadcasted, Resumes, Early, Statuses
<1>3. CASE CooldownAnswered(i)
  BY <1>3, <1>f DEF CooldownAnswered, Resumes
<1>4. CASE CooldownRaises(i)
  BY <1>4, <1>c DEF CooldownRaises, MaybeClaim, Statuses
<1>5. CASE GracePublished(i)
  BY <1>5, <1>b DEF GracePublished, Resumes, Early, Reaching
<1>6. CASE GraceEnds(i)
  BY <1>6, <1>d DEF GraceEnds, Resumes, Early, Reaching
<1>7. CASE SmsReturns(i)
  <2>1. RunEffect(i, t, [t EXCEPT !.pc = "smsPub", !.request = "idle"])
    BY <1>0 DEF RunEffect, Task, Early
  <2> QED BY <1>7, <2>1 DEF SmsReturns
<1>8. CASE SmsPublished(i)
  <2>1. t.pc \in Contacting /\ InChain(i, t) /\ t.pos > 0
    BY <1>8, <1>a DEF SmsPublished, Resumes, Contacting
  <2>2. RunEffect(i, t, PlaceCall(t, Contact(i)))
    BY <1>0, <1>h, <2>1, PlaceCallMoves DEF RunEffect, Moved, Early, Reaching
  <2> QED BY <1>0, <1>8, <1>g, <2>1, <2>2 DEF SmsPublished
<1>9. CASE CallReturns(i)
  <2>1. ASSUME NEW l PROVE RunEffect(i, t, [t EXCEPT !.pc = "callPub", !.logged = l])
    BY <1>0 DEF RunEffect, Task, Early
  <2> QED BY <1>9, <2>1 DEF CallReturns
<1>10. CASE CallPublished(i)
  <2> DEFINE v == [t EXCEPT !.request = "idle"]
  <2>1. t.pc \in Contacting /\ InChain(i, t) /\ t.pos > 0
    BY <1>10, <1>a DEF CallPublished, Resumes, Contacting
  <2>2. /\ v \in Task /\ InChain(i, v) /\ v.rang = t.rang /\ v.by = t.by
        /\ v.waiter = t.waiter /\ v.pos = t.pos
    BY <1>0, <2>1 DEF Task, InChain
  <2>3. RunEffect(i, t, [v EXCEPT !.pc = "wait", !.waiter = "linked"])
    BY <1>0 DEF RunEffect, Task, Early
  <2> HIDE DEF v
  <2> QED BY <1>10, <1>g, <1>h, <2>1, <2>2, <2>3 DEF CallPublished, v
<1>11. CASE WaitWoken(i)
  <2> DEFINE v == [t EXCEPT !.waiter = "none"]
  <2>1. InChain(i, t) /\ t.waiter = "woken"
    BY <1>11, <1>a DEF WaitWoken, Resumes, Contacting
  <2>2. /\ v \in Task /\ InChain(i, v) /\ v.rang = t.rang /\ v.by = t.by
        /\ v.waiter = "none" /\ v.pos = t.pos
    BY <1>0, <2>1 DEF Task, InChain
  <2> HIDE DEF v
  <2> QED BY <1>11, <1>g, <1>h, <2>1, <2>2 DEF WaitWoken, v
<1>12. CASE WaitTimesOut(i)
  <2> DEFINE v == [t EXCEPT !.waiter = "none"]
  <2>1. t.pc \in Contacting /\ InChain(i, t)
    BY <1>12, <1>a DEF WaitTimesOut, Resumes, Contacting
  <2>2. /\ v \in Task /\ InChain(i, v) /\ v.rang = t.rang /\ v.by = t.by
        /\ v.waiter = "none" /\ v.pos = t.pos
    BY <1>0, <2>1 DEF Task, InChain
  <2> HIDE DEF v
  <2> QED BY <1>12, <1>g, <2>1, <2>2 DEF WaitTimesOut, v
<1>13. CASE LastPublished(i)
  <2>1. RunEffect(i, t, [t EXCEPT !.pc = "done"])
    BY <1>0 DEF RunEffect, Task, Early
  <2> QED BY <1>13, <2>1 DEF LastPublished
<1>14. CASE CancelArrives(i)
  <2> DEFINE v == [t EXCEPT !.cancelling = FALSE, !.waiter = "none"]
  <2>1. /\ RunEffect(i, t, [v EXCEPT !.pc = "done"])
        /\ RunEffect(i, t, [v EXCEPT !.pc = "cancelPub", !.status = "cancelled"])
    BY <1>0 DEF RunEffect, Task, Early
  <2> HIDE DEF v
  <2> QED BY <1>14, <2>1 DEF CancelArrives, MaybeClaim, v
<1> QED BY <1>1, <1>2, <1>3, <1>4, <1>5, <1>6, <1>7, <1>8, <1>9, <1>10, <1>11,
           <1>12, <1>13, <1>14 DEF RunStep, LocalStep

LEMMA IInvInit == Init => IInv
<1> SUFFICES ASSUME Init PROVE IInv
  OBVIOUS
<1>1. TypeInv
  BY TypeInit
<1>2. ASSUME NEW i \in Incidents PROVE AckInv(i) /\ WindowInv(i)
  BY <1>2 DEF Init, NoTask, AckInv, WindowInv, IsAcknowledged, Early, Reaching
<1> QED BY <1>1, <1>2 DEF IInv

LEMMA RunStepIInv ==
  ASSUME IInv, NEW i \in Incidents, RunStep(i)
  PROVE  IInv'
<1>0. TypeInv /\ TypeInv'
  BY RunStepType DEF IInv
<1>1. PICK u : Become(i, u) /\ RunEffect(i, task[i], u)
  BY <1>0, RunStepEffect
<1>2. /\ task' = [task EXCEPT ![i] = u] /\ task'[i] = u
      /\ \A j \in Incidents \ {i} : task'[j] = task[j]
      /\ ackedBy' = ackedBy /\ closed' = closed
  BY <1>0, <1>1, RunStepEffect DEF Become, TypeInv, TypeOK
<1>3. \A j \in Incidents : IsAcknowledged(j)' <=> IsAcknowledged(j)
  BY <1>2 DEF IsAcknowledged
<1>4. \A j \in Incidents :
        claimant[CameraOf[j]] = j => claimant'[CameraOf[j]] = j
  BY <1>0, RunStepEffect, ConstantsAssumption DEF Cooling, TypeInv, TypeOK
<1>5. task[i].pos \in Nat
  BY <1>0 DEF TypeInv, TypeOK, Task
<1>6. AckInv(i)'
  <2>1. u.pc \in Early => u.pos = 0
    BY <1>1 DEF IInv, AckInv, RunEffect
  <2>2. u.rang # {} => u.pos > 0
    BY <1>1, <1>5 DEF IInv, AckInv, RunEffect
  <2>3. IsAcknowledged(i)' => u.rang # {}
    BY <1>1, <1>3 DEF IInv, AckInv, RunEffect
  <2>4. i \notin closed' =>
          (u.by # NoOne \/ u.waiter = "woken" => IsAcknowledged(i)')
    BY <1>1, <1>2, <1>3 DEF IInv, AckInv, RunEffect
  <2> QED BY <1>2, <2>1, <2>2, <2>3, <2>4 DEF AckInv
<1>7. WindowInv(i)'
  BY <1>1, <1>2, <1>4 DEF IInv, WindowInv, RunEffect, Reaching
<1>8. ASSUME NEW j \in Incidents \ {i} PROVE AckInv(j)' /\ WindowInv(j)'
  BY <1>2, <1>3, <1>4 DEF IInv, AckInv, WindowInv
<1> QED BY <1>0, <1>6, <1>7, <1>8 DEF IInv

(* It moves no position and no program counter, but for a new task's.      *)
EventEffect(i) ==
  /\ \A j \in Incidents \ {i} : task'[j] = task[j] /\ ackedBy'[j] = ackedBy[j]
  /\ task'[i].pos = task[i].pos
  /\ \/ task'[i].pc = task[i].pc
     \/ task[i].pc = "none" /\ task'[i].pc = "created"
  /\ closed \subseteq closed' /\ UNCHANGED claimant

LEMMA EventMoves ==
  ASSUME TypeInv, NEW i \in Incidents, Event(i)
  PROVE  EventEffect(i)
<1>0. /\ task \in [Incidents -> Task] /\ task[i] \in Task
      /\ ackedBy \in [Incidents -> Contacts \cup {NoOne}]
  BY DEF TypeInv, TypeOK
<1>1. CASE Dispatch(i)
  BY <1>0, <1>1 DEF EventEffect, Dispatch, Become, Task
<1>2. CASE Cancel(i)
  BY <1>0, <1>2 DEF EventEffect, Cancel, Become, Task
<1>3. CASE Forget(i)
  BY <1>0, <1>3 DEF EventEffect, Forget, Become, Task
<1>4. CASE RequestQueued(i)
  BY <1>0, <1>4 DEF EventEffect, RequestQueued, Become, Task
<1>5. CASE RequestFailed(i)
  BY <1>0, <1>5 DEF EventEffect, RequestFailed, Become, Task
<1>6. ASSUME NEW c \in Contacts, Acknowledge(i, c) PROVE EventEffect(i)
  BY <1>0, <1>6 DEF EventEffect, Acknowledge, Become, Task
<1>7. CASE PhoneRings(i)
  BY <1>0, <1>7 DEF EventEffect, PhoneRings, Become, Task
<1> QED BY <1>1, <1>2, <1>3, <1>4, <1>5, <1>6, <1>7 DEF Event, ProviderStep

LEMMA EventIInv ==
  ASSUME IInv, NEW i \in Incidents,
         Event(i)
  PROVE  IInv'
<1> DEFINE t == task[i]
<1>0. TypeInv /\ TypeInv'
  BY EventType DEF IInv
<1>1. /\ TaskOK(i, t) /\ t \in Task /\ i \in DOMAIN task /\ i \in DOMAIN ackedBy
  BY <1>0 DEF TypeInv, TypeOK, TaskOK
<1>2. EventEffect(i)
  BY <1>0, EventMoves
<1> USE DEF EventEffect
<1>3. WindowInv(i)'
  BY <1>1, <1>2 DEF IInv, WindowInv, Reaching
<1>4. ASSUME NEW j \in Incidents \ {i} PROVE AckInv(j)' /\ WindowInv(j)'
  BY <1>1, <1>2 DEF IInv, AckInv, WindowInv, IsAcknowledged
<1>5. task'[i].pc \in Early => task'[i].pos = 0
  BY <1>2 DEF IInv, AckInv, Early
<1>6. AckInv(i)'
  <2>0. AckInv(i)
    BY DEF IInv
  <2>1. CASE Dispatch(i) \/ Cancel(i) \/ RequestFailed(i)
    <3>1. /\ task'[i].rang = t.rang /\ task'[i].by = t.by
          /\ task'[i].waiter = t.waiter /\ ackedBy'[i] = ackedBy[i]
      BY <1>1, <2>1 DEF Become, Dispatch, Cancel, RequestFailed, Task
    <3> QED BY <1>2, <1>5, <2>0, <3>1 DEF AckInv, IsAcknowledged
  <2>2. CASE RequestQueued(i) \/ PhoneRings(i)
    <3>1. t.pos > 0
      BY <1>1, <2>2, ChainType DEF RequestQueued, PhoneRings, TaskOK, Busy, InChain
    <3>2. /\ task'[i].by = t.by /\ ackedBy'[i] = ackedBy[i]
          /\ task'[i].waiter = t.waiter /\ t.rang \subseteq task'[i].rang
      <4>1. CASE RequestQueued(i)
        BY <1>1, <4>1 DEF Become, RequestQueued, Task
      <4>2. CASE PhoneRings(i)
        BY <1>1, <4>2 DEF Become, PhoneRings, Task
      <4> QED BY <2>2, <4>1, <4>2
    <3> QED BY <1>2, <1>5, <2>0, <3>1, <3>2 DEF AckInv, IsAcknowledged
  <2>3. CASE Forget(i)
    <3>1. i \in closed' /\ task'[i].rang = t.rang /\ ackedBy'[i] = NoOne
      BY <1>0, <1>1, <2>3 DEF Become, Forget, Task
    <3> QED BY <1>2, <1>5, <2>0, <3>1 DEF AckInv, IsAcknowledged
  <2>4. ASSUME NEW c \in Contacts, Acknowledge(i, c) PROVE AckInv(i)'
    <3>1. task'[i].rang = t.rang /\ c \in t.rang /\ ackedBy'[i] = c
      BY <1>0, <1>1, <2>4 DEF Become, Acknowledge, Task
    <3>2. c # NoOne
      BY ConstantsAssumption
    <3> QED BY <1>2, <1>5, <2>0, <3>1, <3>2 DEF AckInv, IsAcknowledged
  <2> QED BY <2>1, <2>2, <2>3, <2>4 DEF Event, ProviderStep
<1> QED BY <1>0, <1>3, <1>4, <1>6 DEF IInv

LEMMA IInvStep == IInv /\ [Next]_vars => IInv'
<1> SUFFICES ASSUME IInv, [Next]_vars PROVE IInv'
  OBVIOUS
<1>0. TypeInv /\ TypeInv'
  BY TypeStep DEF IInv
<1> DEFINE Rest == \A i \in Incidents : AckInv(i)' /\ WindowInv(i)'
<1>1. ASSUME NEW i \in Incidents, RunStep(i) PROVE IInv'
  BY <1>1, RunStepIInv
<1>2. ASSUME NEW i \in Incidents,
             Event(i)
      PROVE  IInv'
  BY <1>2, EventIInv
<1>3. ASSUME NEW c \in Cameras, WindowLapses(c) PROVE Rest
  BY <1>3 DEF WindowLapses, IInv, AckInv, WindowInv, IsAcknowledged, Reaching
<1>4. ASSUME ToggleShadow PROVE Rest
  BY <1>4 DEF ToggleShadow, IInv, AckInv, WindowInv, IsAcknowledged, Reaching
<1>5. ASSUME Shutdown PROVE Rest
  <2>1. ASSUME NEW i \in Incidents PROVE AckInv(i)' /\ WindowInv(i)'
    <3>1. /\ task'[i].pc = task[i].pc /\ task'[i].pos = task[i].pos
          /\ task'[i].rang = task[i].rang /\ task'[i].by = task[i].by
          /\ task'[i].waiter = task[i].waiter
          /\ UNCHANGED <<ackedBy, claimant, closed>>
      BY <1>0, <1>5 DEF Shutdown, TypeInv, TypeOK, Task
    <3> QED BY <3>1 DEF IInv, AckInv, WindowInv, IsAcknowledged, Reaching
  <2> QED BY <2>1
<1>6. ASSUME UNCHANGED vars PROVE Rest
  BY <1>6 DEF vars, IInv, AckInv, WindowInv, IsAcknowledged, Reaching
<1> QED BY <1>0, <1>1, <1>2, <1>3, <1>4, <1>5, <1>6 DEF Next, Event, IInv

LEMMA IInvAlways == Spec => []IInv
BY IInvInit, IInvStep, PTL DEF Spec

(* De-duplication: while no cooldown window lapses, two runs of a camera   *)
(* never both reach a contact, however their steps interleave.             *)
THEOREM OneSequence == Spec => []OneSequencePerWindow
<1>1. IInv => OneSequencePerWindow
  <2> SUFFICES ASSUME IInv, "lapse" \notin Env,
                      NEW i \in Incidents, NEW j \in Incidents,
                      CameraOf[i] = CameraOf[j], task[i].pos > 0, task[j].pos > 0
               PROVE  i = j
    BY DEF OneSequencePerWindow
  <2> QED BY DEF IInv, WindowInv, Reaching
<1> QED BY <1>1, IInvAlways, PTL

(* Escalation stops on acknowledgement: while its incident is open, a run  *)
(* whose acknowledgement was accepted never moves to another contact.      *)
THEOREM AckStops == Spec => AckStopsEscalation
<1>1. ASSUME IInv, [Next]_vars, NEW i \in Incidents, task[i].by # NoOne,
             i \notin closed
      PROVE  task'[i].pos = task[i].pos
  <2>0. TypeInv
    BY <1>1 DEF IInv
  <2>1. IsAcknowledged(i) /\ task[i].pc \notin Early
    BY <1>1, <2>0 DEF IInv, AckInv, TypeInv, TypeOK, Task
  <2>2. ASSUME NEW j \in Incidents, RunStep(j) PROVE task'[i].pos = task[i].pos
    <3>1. PICK u : Become(j, u) /\ RunEffect(j, task[j], u)
      BY <2>0, <2>2, RunStepEffect
    <3> QED BY <2>0, <2>1, <3>1 DEF Become, RunEffect, TypeInv, TypeOK
  <2>3. ASSUME NEW j \in Incidents,
               Event(j)
        PROVE  task'[i].pos = task[i].pos
    BY <2>0, <2>3, EventMoves DEF EventEffect
  <2>4. ASSUME NEW c \in Cameras, WindowLapses(c) PROVE task'[i].pos = task[i].pos
    BY <2>4 DEF WindowLapses
  <2>5. CASE ToggleShadow \/ UNCHANGED vars
    BY <2>5 DEF ToggleShadow, vars
  <2>6. CASE Shutdown
    BY <2>0, <2>6 DEF Shutdown, TypeInv, TypeOK, Task
  <2> QED BY <1>1, <2>2, <2>3, <2>4, <2>5, <2>6 DEF Next, Event
<1>2. IInv /\ [Next]_vars =>
        [\A i \in Incidents : task[i].by # NoOne /\ i \notin closed
                                => task'[i].pos = task[i].pos]_vars
  BY <1>1
<1> QED BY <1>2, IInvAlways, PTL DEF Spec, AckStopsEscalation

-----------------------------------------------------------------------------
(* Cancellation.                                                           *)

(* A pending cancellation is that of a suspended task, and a run marked    *)
(* CANCELLED has one pending or is past everything but its publication.    *)
StopInv(i) ==
  /\ task[i].cancelling => task[i].pc \in Suspended
  /\ task[i].status = "cancelled" =>
       task[i].cancelling \/ task[i].pc \in {"cancelPub", "done"}

Outcomes == Statuses \ {"no_run", "cancelled"}

(* A task that goes on: it is not cancelled on the way.                    *)
Goes(t, u) ==
  /\ u.pc \in Suspended \ {"cancelPub"}
  /\ u.cancelling = t.cancelling
  /\ u.status \in Outcomes \cup {t.status}

LEMMA HelpersGo ==
  ASSUME NEW i \in Incidents, NEW t \in Task, NEW c \in Contacts
  PROVE  /\ \A o \in Outcomes : Goes(t, Finish(t, o))
         /\ Goes(t, Fail(t)) /\ Goes(t, FinishAcknowledged(i, t, c))
         /\ Goes(t, PlaceCall(t, c)) /\ Goes(t, TryContact(t, c))
<1>1. \A o \in Outcomes : Goes(t, Finish(t, o))
  BY DEF Goes, Finish, Task, Suspended
<1>2. Goes(t, Fail(t))
  BY DEF Goes, Fail, Task, Suspended, Outcomes, Statuses
<1>3. Goes(t, FinishAcknowledged(i, t, c))
  BY DEF Goes, FinishAcknowledged, Finish, Task, Suspended, Outcomes, Statuses
<1>4. Goes(t, PlaceCall(t, c))
  BY <1>2 DEF Goes, PlaceCall, Task, Suspended
<1>5. Goes(t, SendSms(t))
  BY <1>2 DEF Goes, SendSms, Task, Suspended
<1> QED BY <1>1, <1>2, <1>3, <1>4, <1>5 DEF TryContact

LEMMA WalkGoes ==
  ASSUME NEW i \in Incidents, NEW t \in Task, NEW k \in Nat, k > 0
  PROVE  Goes(t, Walk(i, t, k))
<1>1. CASE IsAcknowledged(i) /\ k \in 1 .. Len(ChainOf(i)) \ Ahead(i, k)
  BY <1>1, ChainType, HelpersGo DEF Walk
<1>2. CASE ~(IsAcknowledged(i) /\ k \in 1 .. Len(ChainOf(i)) \ Ahead(i, k))
           /\ Ahead(i, k) = {}
  BY <1>2 DEF Walk, Goes, Finish, Task, Suspended, Outcomes, Statuses
<1>3. CASE ~(IsAcknowledged(i) /\ k \in 1 .. Len(ChainOf(i)) \ Ahead(i, k))
           /\ Ahead(i, k) # {}
  <2> DEFINE j == Min(Ahead(i, k))
             u == [t EXCEPT !.pos = j, !.tries = 0]
  <2>1. j \in 1 .. Len(ChainOf(i)) /\ j \in Nat
    BY <1>3, NextAhead, ChainType
  <2>2. u \in Task /\ u.cancelling = t.cancelling /\ u.status = t.status
    BY <2>1 DEF Task
  <2>3. Walk(i, t, k) = TryContact(u, ChainOf(i)[j])
    BY <1>3 DEF Walk
  <2> HIDE DEF u, j
  <2>4. Goes(u, TryContact(u, ChainOf(i)[j]))
    BY <2>1, <2>2, ChainType, HelpersGo
  <2> QED BY <2>2, <2>3, <2>4 DEF Goes
<1> QED BY <1>1, <1>2, <1>3

LEMMA NextAttemptGoes ==
  ASSUME NEW i \in Incidents, NEW t \in Task, InChain(i, t)
  PROVE  Goes(t, NextAttempt(i, t)) /\ Goes(t, ContactTried(i, t))
<1>1. /\ t.pos + 1 \in Nat /\ t.pos + 1 > 0
      /\ ChainOf(i)[t.pos] \in Contacts
  BY ChainType DEF InChain
<1>2. Goes(t, ContactTried(i, t))
  BY <1>1, WalkGoes, HelpersGo DEF ContactTried
<1> QED BY <1>1, <1>2, HelpersGo DEF NextAttempt

(* A step of the run: a task that is not stopped goes on; any task may     *)
(* publish its end; a stopped one is told so.                              *)
StopEffect(t, u) ==
  \/ ~t.cancelling /\ t.pc \notin {"cancelPub", "done"} /\ Goes(t, u)
  \/ /\ u.dialled = t.dialled /\ u.request = t.request
     /\ ~u.cancelling
     /\ \/ u.pc = "done" /\ u.status = t.status
        \/ u.pc = "cancelPub" /\ u.status = "cancelled"

LEMMA RunStepStops ==
  ASSUME TypeInv, NEW i \in Incidents, RunStep(i)
  PROVE  \E u : Become(i, u) /\ StopEffect(task[i], u)
<1> DEFINE t == task[i]
           Goal == \E u : Become(i, u) /\ StopEffect(t, u)
<1>0. TaskOK(i, t) /\ t \in Task
  BY DEF TypeInv, TypeOK, TaskOK
<1>a. t.pc \in Contacting => InChain(i, t) /\ Contact(i) \in Contacts
  BY <1>0, ChainType DEF TaskOK, InChain, Contact
<1>b. ASSUME NEW u, Goes(t, u), Become(i, u), ~t.cancelling,
             t.pc \notin {"cancelPub", "done"}
      PROVE  Goal
  BY <1>b DEF StopEffect
<1>c. ASSUME ShouldAlert(i), ~t.cancelling, t.pc \in {"broadcast", "cooldown"}
      PROVE  Goal
  <2>1. CASE Cooling(i)
    <3>1. Goes(t, Finish(t, "suppressed"))
      BY <1>0 DEF Goes, Finish, Task, Suspended, Outcomes, Statuses
    <3> QED BY <1>b, <1>c, <2>1, <3>1 DEF ShouldAlert
  <2>2. CASE ~Cooling(i)
    <3>1. Goes(t, Finish(t, "no_contacts")) /\ Goes(t, [t EXCEPT !.pc = "delayPub"])
      BY <1>0 DEF Goes, Finish, Task, Suspended, Outcomes, Statuses
    <3>2. Goes(t, AlertOrGrace(i, t))
      BY <1>0, <3>1, WalkGoes DEF AlertOrGrace
    <3> QED BY <1>b, <1>c, <2>2, <3>2 DEF ShouldAlert
  <2> QED BY <2>1, <2>2
<1>1. CASE Begin(i)
  <2>1. Goes(t, [t EXCEPT !.pc = "broadcast", !.status = "shadow"])
    BY <1>0 DEF Goes, Task, Suspended, Outcomes, Statuses
  <2> QED BY <1>1, <1>b, <2>1 DEF Begin, Resumes
<1>2. CASE Broadcasted(i)
  <2>1. Goes(t, Finish(t, "shadow")) /\ Goes(t, [t EXCEPT !.pc = "cooldown"])
    BY <1>0 DEF Goes, Finish, Task, Suspended, Outcomes, Statuses
  <2> QED BY <1>2, <1>b, <1>c, <2>1 DEF Broadcasted, Resumes
<1>3. CASE CooldownAnswered(i)
  BY <1>3, <1>c DEF CooldownAnswered, Resumes
<1>4. CASE CooldownRaises(i)
  <2>1. Goes(t, Fail(t))
    BY <1>0 DEF Goes, Fail, Task, Suspended, Outcomes, Statuses
  <2> QED BY <1>4, <1>b, <2>1 DEF CooldownRaises, Resumes
<1>5. CASE GracePublished(i)
  <2>1. Goes(t, [t EXCEPT !.pc = "delay"])
    BY <1>0 DEF Goes, Task, Suspended
  <2> QED BY <1>5, <1>b, <2>1 DEF GracePublished, Resumes
<1>6. CASE GraceEnds(i)
  <2>1. Goes(t, Walk(i, t, 1))
    BY <1>0, WalkGoes
  <2> QED BY <1>6, <1>b, <2>1 DEF GraceEnds, Resumes
<1>7. CASE SmsReturns(i)
  <2>1. Goes(t, [t EXCEPT !.pc = "smsPub", !.request = "idle"])
    BY <1>0 DEF Goes, Task, Suspended
  <2> QED BY <1>7, <1>b, <2>1 DEF SmsReturns, Resumes
<1>8. CASE SmsPublished(i)
  <2>1. t.pc = "smsPub" /\ InChain(i, t) /\ Contact(i) \in Contacts
    BY <1>8, <1>a DEF SmsPublished, Resumes, Contacting
  <2>2. Goes(t, PlaceCall(t, Contact(i))) /\ Goes(t, ContactTried(i, t))
    BY <1>0, <2>1, HelpersGo, NextAttemptGoes
  <2> QED BY <1>8, <1>b, <2>2 DEF SmsPublished, Resumes
<1>9. CASE CallReturns(i)
  <2>1. ASSUME NEW l PROVE Goes(t, [t EXCEPT !.pc = "callPub", !.logged = l])
    BY <1>0 DEF Goes, Task, Suspended
  <2> QED BY <1>9, <1>b, <2>1 DEF CallReturns, Resumes
<1>d. ASSUME NEW v \in Task, InChain(i, v), Contact(i) \in Contacts,
             v.cancelling = t.cancelling, v.status = t.status
      PROVE  /\ Goes(t, NextAttempt(i, v))
             /\ Goes(t, FinishAcknowledged(i, v, Contact(i)))
             /\ Goes(t, [v EXCEPT !.pc = "wait", !.waiter = "linked"])
  <2>1. Goes(v, NextAttempt(i, v)) /\ Goes(v, FinishAcknowledged(i, v, Contact(i)))
    BY <1>d, HelpersGo, NextAttemptGoes
  <2>2. Goes(v, [v EXCEPT !.pc = "wait", !.waiter = "linked"])
    BY <1>d DEF Goes, Task, Suspended
  <2> QED BY <1>d, <2>1, <2>2 DEF Goes
<1>10. CASE CallPublished(i)
  <2> DEFINE v == [t EXCEPT !.request = "idle"]
  <2>1. t.pc = "callPub" /\ ~t.cancelling /\ InChain(i, t) /\ Contact(i) \in Contacts
    BY <1>10, <1>a DEF CallPublished, Resumes, Contacting
  <2>2. /\ v \in Task /\ InChain(i, v)
        /\ v.cancelling = t.cancelling /\ v.status = t.status
    BY <1>0, <2>1 DEF Task, InChain
  <2> HIDE DEF v
  <2>3. /\ Goes(t, NextAttempt(i, v))
        /\ Goes(t, FinishAcknowledged(i, v, Contact(i)))
        /\ Goes(t, [v EXCEPT !.pc = "wait", !.waiter = "linked"])
    BY <1>d, <2>1, <2>2
  <2> QED BY <1>10, <1>b, <2>1, <2>3 DEF CallPublished, v
<1>11. CASE WaitWoken(i) \/ WaitTimesOut(i)
  <2> DEFINE v == [t EXCEPT !.waiter = "none"]
  <2>1. t.pc = "wait" /\ ~t.cancelling /\ InChain(i, t) /\ Contact(i) \in Contacts
    BY <1>11, <1>a DEF WaitWoken, WaitTimesOut, Resumes, Contacting
  <2>2. /\ v \in Task /\ InChain(i, v)
        /\ v.cancelling = t.cancelling /\ v.status = t.status
    BY <1>0, <2>1 DEF Task, InChain
  <2> HIDE DEF v
  <2>3. Goes(t, NextAttempt(i, v)) /\ Goes(t, FinishAcknowledged(i, v, Contact(i)))
    BY <1>d, <2>1, <2>2
  <2> QED BY <1>11, <1>b, <2>1, <2>3 DEF WaitWoken, WaitTimesOut, v
<1>12. CASE LastPublished(i)
  <2>1. StopEffect(t, [t EXCEPT !.pc = "done"])
    BY <1>0, <1>12 DEF StopEffect, LastPublished, Task
  <2> QED BY <1>12, <2>1 DEF LastPublished
<1>13. CASE CancelArrives(i)
  <2> DEFINE v == [t EXCEPT !.cancelling = FALSE, !.waiter = "none"]
  <2>1. /\ StopEffect(t, [v EXCEPT !.pc = "done"])
        /\ StopEffect(t, [v EXCEPT !.pc = "cancelPub", !.status = "cancelled"])
    BY <1>0 DEF StopEffect, Task
  <2> HIDE DEF v
  <2> QED BY <1>13, <2>1 DEF CancelArrives, v
<1> QED BY <1>1, <1>2, <1>3, <1>4, <1>5, <1>6, <1>7, <1>8, <1>9, <1>10, <1>11,
           <1>12, <1>13 DEF RunStep, LocalStep

(* No other step starts a request, calls anybody or takes back a mark.     *)
KeepsStopped(t, u) ==
  /\ u.dialled = t.dialled
  /\ u.request \in {"texting", "dialling"} => u.request = t.request
  /\ t.status = "cancelled" => u.status = "cancelled"

LEMMA EventStops ==
  ASSUME TypeInv, NEW i \in Incidents, Event(i), \A j \in Incidents : StopInv(j)
  PROVE  /\ \A j \in Incidents : KeepsStopped(task[j], task'[j])
         /\ \A j \in Incidents : StopInv(j)'
<1>0. task \in [Incidents -> Task] /\ task[i] \in Task
  BY DEF TypeInv, TypeOK
<1> SUFFICES /\ \A j \in Incidents \ {i} : task'[j] = task[j]
             /\ KeepsStopped(task[i], task'[i]) /\ StopInv(i)'
  BY DEF KeepsStopped, StopInv
<1>1. CASE Dispatch(i)
  BY <1>0, <1>1 DEF Dispatch, Become, Task, KeepsStopped, StopInv, Suspended
<1>2. CASE Cancel(i)
  BY <1>0, <1>2 DEF Cancel, Become, Task, KeepsStopped, StopInv, Suspended
<1>3. CASE Forget(i)
  BY <1>0, <1>3 DEF Forget, Become, Task, KeepsStopped, StopInv
<1>4. CASE RequestQueued(i)
  BY <1>0, <1>4 DEF RequestQueued, Become, Task, KeepsStopped, StopInv
<1>5. CASE RequestFailed(i)
  BY <1>0, <1>5 DEF RequestFailed, Become, Task, KeepsStopped, StopInv
<1>6. ASSUME NEW c \in Contacts, Acknowledge(i, c)
      PROVE  /\ \A j \in Incidents \ {i} : task'[j] = task[j]
             /\ KeepsStopped(task[i], task'[i]) /\ StopInv(i)'
  BY <1>0, <1>6 DEF Acknowledge, Become, Task, KeepsStopped, StopInv
<1>7. CASE PhoneRings(i)
  BY <1>0, <1>7 DEF PhoneRings, Become, Task, KeepsStopped, StopInv
<1> QED BY <1>1, <1>2, <1>3, <1>4, <1>5, <1>6, <1>7 DEF Event, ProviderStep

SInv == TypeInv /\ \A i \in Incidents : StopInv(i)

(* One step: the invariant is kept, and so is a stop.                      *)
LEMMA StopStep ==
  ASSUME SInv, [Next]_vars
  PROVE  /\ SInv'
         /\ \A i \in Incidents : Stopped(task[i]) => KeepsStopped(task[i], task'[i])
<1> DEFINE Goal == /\ \A i \in Incidents : StopInv(i)'
                   /\ \A i \in Incidents : Stopped(task[i])
                                             => KeepsStopped(task[i], task'[i])
<1>0. TypeInv /\ TypeInv' /\ task \in [Incidents -> Task]
  BY TypeStep DEF SInv, TypeInv, TypeOK
<1>1. ASSUME NEW i \in Incidents, RunStep(i) PROVE Goal
  <2>1. PICK u : Become(i, u) /\ StopEffect(task[i], u)
    BY <1>0, <1>1, RunStepStops
  <2>2. task'[i] = u /\ \A j \in Incidents \ {i} : task'[j] = task[j]
    BY <1>0, <2>1 DEF Become
  <2>3. StopInv(i) /\ task[i] \in Task
    BY <1>0 DEF SInv
  <2>4. StopInv(i)'
    BY <2>1, <2>2, <2>3 DEF StopInv, StopEffect, Goes, Outcomes, Suspended
  <2>5. Stopped(task[i]) => KeepsStopped(task[i], task'[i])
    BY <2>1, <2>2, <2>3 DEF StopInv, StopEffect, Stopped, KeepsStopped
  <2>6. ASSUME NEW j \in Incidents \ {i}
        PROVE  StopInv(j)' /\ KeepsStopped(task[j], task'[j])
    BY <2>2, <2>6 DEF SInv, StopInv, KeepsStopped
  <2> QED BY <2>4, <2>5, <2>6
<1>2. ASSUME NEW i \in Incidents, Event(i) PROVE Goal
  BY <1>0, <1>2, EventStops DEF SInv
<1>3. ASSUME UNCHANGED task PROVE Goal
  BY <1>3 DEF SInv, StopInv, KeepsStopped
<1>4. ASSUME Shutdown PROVE Goal
  <2>1. ASSUME NEW i \in Incidents
        PROVE  StopInv(i)' /\ KeepsStopped(task[i], task'[i])
    BY <1>0, <1>4 DEF Shutdown, Task, SInv, StopInv, KeepsStopped
  <2> QED BY <2>1
<1> QED BY <1>0, <1>1, <1>2, <1>3, <1>4
        DEF Next, Event, WindowLapses, ToggleShadow, vars, SInv

(* A stop is final: once an operator or the shutdown stops a run (cancel,  *)
(* shutdown), nothing more is handed to the provider for it, and a run     *)
(* marked CANCELLED stays so.                                              *)
THEOREM StopIsFinal == Spec => CancelIsFinal
<1>1. Init => SInv
  BY TypeInit DEF Init, NoTask, SInv, StopInv
<1>2. SInv /\ [Next]_vars => SInv'
  BY StopStep
<1>3. SInv /\ [Next]_vars =>
        [\A i \in Incidents : Stopped(task[i]) =>
           /\ task'[i].dialled = task[i].dialled
           /\ task'[i].request \in {"texting", "dialling"}
                => task'[i].request = task[i].request
           /\ task[i].status = "cancelled" => task'[i].status = "cancelled"]_vars
  BY StopStep DEF KeepsStopped
<1> QED BY <1>1, <1>2, <1>3, PTL DEF Spec, CancelIsFinal

-----------------------------------------------------------------------------
(* What a run owes its contacts and its record.                            *)

(* Every contact before position n that takes calls was called as often as *)
(* its retries ask.                                                        *)
Tried(i, t, n) ==
  \A k \in 1 .. Len(ChainOf(i)) :
    LET c == ChainOf(i)[k]
    IN  k < n /\ c \in HasCall => t.dialled[c] > Retries[c]

TriedAll(i, t) == Tried(i, t, Len(ChainOf(i)) + 1)

WellEnded(i, t) == t.status = "exhausted" => TriedAll(i, t)

(* The attempts counted at the present contact are calls it was given.     *)
ChainDuty(i, t) ==
  /\ t.pc \in Contacting =>
       Tried(i, t, t.pos) /\ t.dialled[ChainOf(i)[t.pos]] >= t.tries
  /\ WellEnded(i, t)

(* Only a run that awaits its call has one under way, or one that rang and *)
(* is not recorded yet -- unless it was cancelled.                         *)
RecordDuty(i, t) ==
  \/ t.status = "cancelled"
  \/ /\ t.request = "dialling" => t.pc = "call"
     /\ \/ t.rang \subseteq t.logged
        \/ /\ t.pc = "call"
           /\ t.rang \subseteq t.logged \cup {ChainOf(i)[t.pos]}

Duty(i, t) == ChainDuty(i, t) /\ RecordDuty(i, t)

Settled(t) == t.request # "dialling" /\ t.rang \subseteq t.logged

(* What makes no call, rings nobody and keeps the outcome keeps the duty.  *)
LEMMA FinishDuty ==
  ASSUME NEW i \in Incidents, NEW t \in Task, Settled(t), NEW s,
         s = "exhausted" => TriedAll(i, t)
  PROVE  Duty(i, Finish(t, s)) /\ Duty(i, Fail(t))
<1>1. /\ Finish(t, s).pc = "finish" /\ Finish(t, s).status = s
      /\ Finish(t, s).dialled = t.dialled /\ Finish(t, s).request = t.request
      /\ Finish(t, s).rang = t.rang /\ Finish(t, s).logged = t.logged
  BY DEF Finish, Task
<1>2. /\ Fail(t).pc = "failPub" /\ Fail(t).status = "failed"
      /\ Fail(t).dialled = t.dialled /\ Fail(t).request = t.request
      /\ Fail(t).rang = t.rang /\ Fail(t).logged = t.logged
  BY DEF Fail, Task
<1> QED BY <1>1, <1>2 DEF Duty, ChainDuty, WellEnded, TriedAll, Tried, RecordDuty,
           Settled, Contacting

LEMMA FinishAcknowledgedDuty ==
  ASSUME NEW i \in Incidents, NEW t \in Task, Settled(t), NEW c
  PROVE  Duty(i, FinishAcknowledged(i, t, c))
<1> DEFINE u == FinishAcknowledged(i, t, c)
<1>1. /\ u.pc = "finish" /\ u.status = "acknowledged"
      /\ u.dialled = t.dialled /\ u.request = t.request
      /\ u.rang = t.rang /\ u.logged = t.logged
  BY DEF FinishAcknowledged, Finish, Task
<1> HIDE DEF u
<1>2. Duty(i, u)
  BY <1>1 DEF Duty, ChainDuty, WellEnded, RecordDuty, Settled, Contacting
<1> QED BY <1>2 DEF u

(* A call given now leaves the calls given before.                         *)
LEMMA TriedMore ==
  ASSUME NEW i \in Incidents, NEW t \in Task, NEW u \in Task, NEW n,
         Tried(i, t, n), \A c \in Contacts : u.dialled[c] >= t.dialled[c]
  PROVE  Tried(i, u, n)
<1> SUFFICES ASSUME NEW k \in 1 .. Len(ChainOf(i)), k < n, ChainOf(i)[k] \in HasCall
             PROVE  u.dialled[ChainOf(i)[k]] > Retries[ChainOf(i)[k]]
  BY DEF Tried
<1> DEFINE c == ChainOf(i)[k]
<1>1. c \in Contacts
  BY ChainType
<1>2. t.dialled[c] > Retries[c]
  BY DEF Tried
<1>3. t.dialled[c] \in Nat /\ u.dialled[c] \in Nat /\ Retries[c] \in Nat
  BY <1>1, ConstantsAssumption DEF Task
<1>4. u.dialled[c] >= t.dialled[c]
  BY <1>1
<1> HIDE DEF c
<1> QED BY <1>2, <1>3, <1>4 DEF c

LEMMA PlaceCallDuty ==
  ASSUME NEW i \in Incidents, NEW t \in Task, Settled(t), WellEnded(i, t),
         InChain(i, t), Tried(i, t, t.pos),
         t.dialled[ChainOf(i)[t.pos]] >= t.tries
  PROVE  Duty(i, PlaceCall(t, ChainOf(i)[t.pos]))
<1> DEFINE c == ChainOf(i)[t.pos]
           u == [t EXCEPT !.pc = "call", !.request = "dialling",
                          !.tries = @ + 1, !.dialled[c] = @ + 1]
<1>1. c \in Contacts
  BY ChainType DEF InChain
<1>2. t.dialled \in [Contacts -> Nat] /\ t.tries \in Nat
  BY DEF Task
<1>3. /\ u.pc = "call" /\ u.request = "dialling" /\ u.tries = t.tries + 1
      /\ u.dialled = [t.dialled EXCEPT ![c] = @ + 1] /\ u.pos = t.pos
      /\ u.status = t.status /\ u.rang = t.rang /\ u.logged = t.logged
  BY DEF Task
<1>4. u \in Task
  <2>1. t.tries + 1 \in Nat /\ [t.dialled EXCEPT ![c] = @ + 1] \in [Contacts -> Nat]
    BY <1>1, <1>2
  <2> HIDE DEF c
  <2> QED BY <2>1 DEF Task, Suspended
<1> HIDE DEF u
<1>5. /\ \A d \in Contacts : u.dialled[d] >= t.dialled[d]
      /\ u.dialled[c] = t.dialled[c] + 1
  BY <1>1, <1>2, <1>3
<1>6. Tried(i, u, u.pos) /\ WellEnded(i, u)
  BY <1>3, <1>4, <1>5, TriedMore DEF WellEnded, TriedAll
<1>7. u.dialled[ChainOf(i)[u.pos]] >= u.tries
  <2>1. t.dialled[c] \in Nat /\ t.dialled[c] >= t.tries
    BY <1>1, <1>2
  <2> HIDE DEF c
  <2>2. u.dialled[c] >= u.tries
    BY <1>2, <1>3, <1>5, <2>1
  <2> QED BY <1>3, <2>2 DEF c
<1>8. Duty(i, u)
  BY <1>3, <1>6, <1>7 DEF Duty, ChainDuty, RecordDuty, Settled
<1> QED BY <1>8, FinishDuty DEF PlaceCall, u

LEMMA TryContactDuty ==
  ASSUME NEW i \in Incidents, NEW t \in Task, Settled(t), WellEnded(i, t),
         InChain(i, t), Tried(i, t, t.pos),
         t.dialled[ChainOf(i)[t.pos]] >= t.tries
  PROVE  Duty(i, TryContact(t, ChainOf(i)[t.pos]))
<1> DEFINE u == [t EXCEPT !.pc = "sms", !.request = "texting"]
<1>1. /\ u.pc = "sms" /\ u.request = "texting" /\ u.tries = t.tries
      /\ u.dialled = t.dialled /\ u.pos = t.pos
      /\ u.status = t.status /\ u.rang = t.rang /\ u.logged = t.logged
  BY DEF Task
<1> HIDE DEF u
<1>2. Duty(i, u)
  BY <1>1 DEF Duty, ChainDuty, WellEnded, TriedAll, Tried, RecordDuty, Settled
<1>3. Duty(i, SendSms(t))
  BY <1>2, FinishDuty DEF SendSms, u
<1> QED BY <1>3, PlaceCallDuty DEF TryContact

LEMMA WalkDuty ==
  ASSUME NEW i \in Incidents, NEW t \in Task, Settled(t), WellEnded(i, t),
         NEW k \in Nat, k > 0, Tried(i, t, k)
  PROVE  Duty(i, Walk(i, t, k))
<1>0. Len(ChainOf(i)) \in Nat
  BY ChainType
<1>1. CASE IsAcknowledged(i) /\ k \in 1 .. Len(ChainOf(i)) \ Ahead(i, k)
  BY <1>1, FinishAcknowledgedDuty DEF Walk
<1>2. CASE ~(IsAcknowledged(i) /\ k \in 1 .. Len(ChainOf(i)) \ Ahead(i, k))
           /\ Ahead(i, k) = {}
  <2>1. \A n \in k .. Len(ChainOf(i)) : ChainOf(i)[n] \notin HasCall
    BY <1>2 DEF Ahead
  <2>2. TriedAll(i, t)
    BY <1>0, <2>1 DEF Tried, TriedAll
  <2> QED BY <1>2, <2>2, FinishDuty DEF Walk
<1>3. CASE ~(IsAcknowledged(i) /\ k \in 1 .. Len(ChainOf(i)) \ Ahead(i, k))
           /\ Ahead(i, k) # {}
  <2> DEFINE j == Min(Ahead(i, k))
             u == [t EXCEPT !.pos = j, !.tries = 0]
  <2>1. /\ j \in k .. Len(ChainOf(i)) /\ j \in Nat /\ j \in 1 .. Len(ChainOf(i))
        /\ \A n \in k .. Len(ChainOf(i)) : n < j => ChainOf(i)[n] \notin HasCall
    BY <1>0, <1>3, NextAhead
  <2>2. /\ u \in Task /\ u.pos = j /\ u.tries = 0 /\ u.status = t.status
        /\ u.dialled = t.dialled /\ u.request = t.request
        /\ u.rang = t.rang /\ u.logged = t.logged
    BY <2>1 DEF Task
  <2>3. Walk(i, t, k) = TryContact(u, ChainOf(i)[j])
    BY <1>3 DEF Walk
  <2> HIDE DEF u, j
  <2>4. Tried(i, u, j)
    <3>1. Tried(i, t, j)
      BY <1>0, <2>1 DEF Tried
    <3> QED BY <2>2, <3>1 DEF Tried
  <2>5. u.dialled[ChainOf(i)[j]] >= u.tries
    <3>1. ChainOf(i)[j] \in Contacts
      BY <2>1, ChainType
    <3>2. u.dialled[ChainOf(i)[j]] \in Nat
      BY <2>2, <3>1 DEF Task
    <3> QED BY <2>2, <3>2
  <2>6. Settled(u) /\ WellEnded(i, u) /\ InChain(i, u)
    BY <2>1, <2>2 DEF Settled, WellEnded, TriedAll, Tried, InChain
  <2> QED BY <2>2, <2>3, <2>4, <2>5, <2>6, TryContactDuty
<1> QED BY <1>1, <1>2, <1>3

LEMMA ContactTriedDuty ==
  ASSUME NEW i \in Incidents, NEW t \in Task, Settled(t), WellEnded(i, t),
         InChain(i, t), Tried(i, t, t.pos)
  PROVE  /\ (ChainOf(i)[t.pos] \in HasCall
               => t.dialled[ChainOf(i)[t.pos]] > Retries[ChainOf(i)[t.pos]])
            => Duty(i, ContactTried(i, t))
         /\ t.dialled[ChainOf(i)[t.pos]] >= t.tries => Duty(i, NextAttempt(i, t))
<1> DEFINE c == ChainOf(i)[t.pos]
<1>1. /\ t.pos \in Nat /\ t.pos + 1 \in Nat /\ t.pos + 1 > 0
      /\ c \in Contacts /\ Len(ChainOf(i)) \in Nat
  BY ChainType DEF InChain
<1>2. ASSUME c \in HasCall => t.dialled[c] > Retries[c]
      PROVE  Duty(i, ContactTried(i, t))
  <2>1. Tried(i, t, t.pos + 1)
    <3> SUFFICES ASSUME NEW k \in 1 .. Len(ChainOf(i)), k < t.pos + 1,
                        ChainOf(i)[k] \in HasCall
                 PROVE  t.dialled[ChainOf(i)[k]] > Retries[ChainOf(i)[k]]
      BY DEF Tried
    <3>1. k < t.pos \/ k = t.pos
      BY <1>1
    <3> QED BY <1>2, <3>1 DEF Tried
  <2>2. Duty(i, Walk(i, t, t.pos + 1))
    BY <1>1, <2>1, WalkDuty
  <2> QED BY <2>2, FinishAcknowledgedDuty DEF ContactTried
<1>3. ASSUME t.dialled[c] >= t.tries
      PROVE  Duty(i, NextAttempt(i, t))
  <2>1. t.tries \in Nat /\ t.dialled[c] \in Nat /\ Retries[c] \in Nat
    BY <1>1, ConstantsAssumption DEF Task
  <2>2. CASE t.tries <= Retries[c]
    BY <1>3, <2>2, PlaceCallDuty DEF NextAttempt
  <2>3. CASE ~(t.tries <= Retries[c])
    <3> HIDE DEF c
    <3>1. t.dialled[c] > Retries[c]
      BY <1>3, <2>1, <2>3
    <3>2. Duty(i, ContactTried(i, t))
      BY <1>2, <3>1
    <3> QED BY <2>3, <3>2 DEF NextAttempt, c
  <2> QED BY <2>2, <2>3
<1> QED BY <1>2, <1>3

LEMMA AlertOrGraceDuty ==
  ASSUME NEW i \in Incidents, NEW t \in Task, Settled(t), WellEnded(i, t)
  PROVE  Duty(i, AlertOrGrace(i, t)) /\ Duty(i, Walk(i, t, 1))
<1>1. Tried(i, t, 1)
  BY ChainType DEF Tried
<1>2. Duty(i, Walk(i, t, 1))
  BY <1>1, WalkDuty
<1> DEFINE u == [t EXCEPT !.pc = "delayPub"]
<1>3. /\ u.pc = "delayPub" /\ u.status = t.status /\ u.dialled = t.dialled
      /\ u.request = t.request /\ u.rang = t.rang /\ u.logged = t.logged
  BY DEF Task
<1> HIDE DEF u
<1>4. Duty(i, u)
  BY <1>3 DEF Duty, ChainDuty, WellEnded, TriedAll, Tried, RecordDuty, Settled,
              Contacting
<1> QED BY <1>2, <1>4, FinishDuty DEF AlertOrGrace, u

(* A step of the run keeps what it owes.                                   *)
LEMMA RunStepDuty ==
  ASSUME SInv, NEW i \in Incidents, Duty(i, task[i]), RunStep(i)
  PROVE  \E u : Become(i, u) /\ Duty(i, u)
<1> DEFINE t == task[i]
           Goal == \E u : Become(i, u) /\ Duty(i, u)
<1>0. TaskOK(i, t) /\ t \in Task /\ StopInv(i) /\ Duty(i, t) /\ WellEnded(i, t)
  BY DEF SInv, TypeInv, TypeOK, TaskOK, Duty, ChainDuty
<1>a. t.pc \in Contacting =>
        /\ InChain(i, t) /\ Contact(i) \in Contacts
        /\ Contact(i) = ChainOf(i)[t.pos]
        /\ Tried(i, t, t.pos) /\ t.dialled[ChainOf(i)[t.pos]] >= t.tries
  BY <1>0, ChainType DEF TaskOK, InChain, Contact, Duty, ChainDuty
<1>b. ASSUME ~t.cancelling, t.pc \notin {"cancelPub", "done"}
      PROVE  /\ t.status # "cancelled"
             /\ t.pc # "call" => Settled(t)
  BY <1>0, <1>b DEF StopInv, Duty, RecordDuty, Settled
<1>c. ASSUME ShouldAlert(i), ~t.cancelling, t.pc \in {"broadcast", "cooldown"}
      PROVE  Goal
  <2>1. Settled(t)
    BY <1>b, <1>c
  <2>2. Duty(i, Finish(t, "suppressed")) /\ Duty(i, AlertOrGrace(i, t))
    BY <1>0, <2>1, FinishDuty, AlertOrGraceDuty
  <2> QED BY <1>c, <2>2 DEF ShouldAlert
<1>d. ASSUME NEW p \in Suspended \ Contacting, t.pc # "call"
      PROVE  Duty(i, [t EXCEPT !.pc = p])
  <2> DEFINE u == [t EXCEPT !.pc = p]
  <2>1. /\ u.pc = p /\ u.status = t.status /\ u.dialled = t.dialled
        /\ u.tries = t.tries /\ u.pos = t.pos
        /\ u.request = t.request /\ u.rang = t.rang /\ u.logged = t.logged
    BY <1>0 DEF Task
  <2> HIDE DEF u
  <2>2. Duty(i, u)
    BY <1>0, <1>d, <2>1
    DEF Duty, ChainDuty, WellEnded, TriedAll, Tried, RecordDuty
  <2> QED BY <2>2 DEF u
<1>1. CASE Begin(i)
  <2> DEFINE u == [t EXCEPT !.pc = "broadcast", !.status = "shadow"]
  <2>1. /\ u.pc = "broadcast" /\ u.status = "shadow" /\ u.dialled = t.dialled
        /\ u.tries = t.tries /\ u.pos = t.pos
        /\ u.request = t.request /\ u.rang = t.rang /\ u.logged = t.logged
    BY <1>0 DEF Task
  <2>2. t.status # "cancelled" /\ t.pc = "created" /\ Become(i, u)
    BY <1>1, <1>b DEF Begin, Resumes
  <2> HIDE DEF u
  <2>3. Duty(i, u)
    BY <1>0, <2>1, <2>2
    DEF Duty, ChainDuty, WellEnded, TriedAll, Tried, RecordDuty, Contacting
  <2> QED BY <2>2, <2>3
<1>2. CASE Broadcasted(i)
  <2>1. t.pc = "broadcast" /\ ~t.cancelling /\ Settled(t)
    BY <1>2, <1>b DEF Broadcasted, Resumes
  <2>2. Duty(i, Finish(t, "shadow"))
    BY <1>0, <2>1, FinishDuty
  <2>3. Duty(i, [t EXCEPT !.pc = "cooldown"])
    BY <1>d, <2>1 DEF Suspended, Contacting
  <2> QED BY <1>2, <1>c, <2>1, <2>2, <2>3 DEF Broadcasted
<1>3. CASE CooldownAnswered(i)
  BY <1>3, <1>c DEF CooldownAnswered, Resumes
<1>4. CASE CooldownRaises(i)
  <2>1. Settled(t)
    BY <1>4, <1>b DEF CooldownRaises, Resumes
  <2>2. Duty(i, Fail(t))
    BY <1>0, <2>1, FinishDuty
  <2> QED BY <1>4, <2>2 DEF CooldownRaises
<1>5. CASE GracePublished(i)
  <2>1. Duty(i, [t EXCEPT !.pc = "delay"])
    BY <1>5, <1>d DEF GracePublished, Resumes, Suspended, Contacting
  <2> QED BY <1>5, <2>1 DEF GracePublished
<1>6. CASE GraceEnds(i)
  <2>1. Settled(t)
    BY <1>6, <1>b DEF GraceEnds, Resumes
  <2>2. Duty(i, Walk(i, t, 1))
    BY <1>0, <2>1, AlertOrGraceDuty
  <2> QED BY <1>6, <2>2 DEF GraceEnds
<1>7. CASE SmsReturns(i)
  <2> DEFINE u == [t EXCEPT !.pc = "smsPub", !.request = "idle"]
  <2>1. t.pc = "sms" /\ Settled(t) /\ Become(i, u)
    BY <1>7, <1>b DEF SmsReturns, Resumes
  <2>2. /\ u.pc = "smsPub" /\ u.status = t.status /\ u.dialled = t.dialled
        /\ u.tries = t.tries /\ u.pos = t.pos
        /\ u.request = "idle" /\ u.rang = t.rang /\ u.logged = t.logged
    BY <1>0 DEF Task
  <2>3. Tried(i, t, t.pos) /\ t.dialled[ChainOf(i)[t.pos]] >= t.tries
    BY <1>a, <2>1 DEF Contacting
  <2> HIDE DEF u
  <2>4. Duty(i, u)
    BY <1>0, <2>1, <2>2, <2>3
    DEF Duty, ChainDuty, WellEnded, TriedAll, Tried, RecordDuty, Settled
  <2> QED BY <2>1, <2>4
<1>8. CASE SmsPublished(i)
  <2>1. t.pc = "smsPub" /\ t.pc \in Contacting /\ Settled(t)
    BY <1>8, <1>b DEF SmsPublished, Resumes, Contacting
  <2>2. CASE Contact(i) \in HasCall
    <3>1. Duty(i, PlaceCall(t, Contact(i)))
      BY <1>0, <1>a, <2>1, PlaceCallDuty
    <3> QED BY <1>8, <2>2, <3>1 DEF SmsPublished
  <2>3. CASE Contact(i) \notin HasCall
    <3>1. Duty(i, ContactTried(i, t))
      BY <1>0, <1>a, <2>1, <2>3, ContactTriedDuty
    <3> QED BY <1>8, <2>3, <3>1 DEF SmsPublished
  <2> QED BY <2>2, <2>3
<1>9. CASE CallReturns(i)
  <2> DEFINE l == t.logged \cup {Contact(i)}
             u == [t EXCEPT !.pc = "callPub", !.logged = l]
  <2>1. /\ t.pc = "call" /\ ~t.cancelling /\ t.request # "dialling" /\ Become(i, u)
    BY <1>9 DEF CallReturns, Resumes
  <2>2. /\ u.pc = "callPub" /\ u.status = t.status /\ u.dialled = t.dialled
        /\ u.tries = t.tries /\ u.pos = t.pos
        /\ u.request = t.request /\ u.rang = t.rang /\ u.logged = l
    BY <1>0 DEF Task
  <2>3. t.status # "cancelled"
    BY <1>b, <2>1
  <2>4. t.rang \subseteq l
    BY <1>0, <1>a, <2>1, <2>3 DEF Duty, RecordDuty, Contacting, Contact
  <2>5. Tried(i, t, t.pos) /\ t.dialled[ChainOf(i)[t.pos]] >= t.tries
    BY <1>a, <2>1 DEF Contacting
  <2> HIDE DEF u, l
  <2>6. Duty(i, u)
    BY <1>0, <2>1, <2>2, <2>4, <2>5
    DEF Duty, ChainDuty, WellEnded, TriedAll, Tried, RecordDuty
  <2> QED BY <2>1, <2>6
<1>e. ASSUME NEW v \in Task, Settled(v), t.pc \in Contacting,
             v.status = t.status, v.pos = t.pos, v.dialled = t.dialled,
             v.tries = t.tries
      PROVE  Duty(i, NextAttempt(i, v))
  <2>1. /\ WellEnded(i, v) /\ InChain(i, v) /\ Tried(i, v, v.pos)
        /\ v.dialled[ChainOf(i)[v.pos]] >= v.tries
    BY <1>0, <1>a, <1>e DEF WellEnded, TriedAll, Tried, InChain
  <2> QED BY <1>e, <2>1, ContactTriedDuty
<1>10. CASE CallPublished(i)
  <2> DEFINE v == [t EXCEPT !.request = "idle"]
             u == [v EXCEPT !.pc = "wait", !.waiter = "linked"]
  <2>1. t.pc = "callPub" /\ t.pc \in Contacting /\ Settled(t)
    BY <1>10, <1>b DEF CallPublished, Resumes, Contacting
  <2>2. /\ v \in Task /\ v.status = t.status /\ v.dialled = t.dialled
        /\ v.tries = t.tries /\ v.pos = t.pos
        /\ v.request = "idle" /\ v.rang = t.rang /\ v.logged = t.logged
    BY <1>0 DEF Task
  <2> HIDE DEF v
  <2>3. /\ u.pc = "wait" /\ u.status = t.status /\ u.dialled = t.dialled
        /\ u.tries = t.tries /\ u.pos = t.pos
        /\ u.request = "idle" /\ u.rang = t.rang /\ u.logged = t.logged
    BY <2>2 DEF Task
  <2> HIDE DEF u
  <2>4. Settled(v)
    BY <2>1, <2>2 DEF Settled
  <2>5. Duty(i, NextAttempt(i, v)) /\ Duty(i, FinishAcknowledged(i, v, Contact(i)))
    BY <1>e, <2>1, <2>2, <2>4, FinishAcknowledgedDuty
  <2>6. Duty(i, u)
    BY <1>0, <1>a, <2>1, <2>3
    DEF Duty, ChainDuty, WellEnded, TriedAll, Tried, RecordDuty, Settled
  <2>7. \/ Become(i, NextAttempt(i, v)) \/ Become(i, FinishAcknowledged(i, v, Contact(i)))
        \/ Become(i, u)
    BY <1>10 DEF CallPublished, v, u
  <2> QED BY <2>5, <2>6, <2>7
<1>11. CASE WaitWoken(i) \/ WaitTimesOut(i)
  <2> DEFINE v == [t EXCEPT !.waiter = "none"]
  <2>1. t.pc = "wait" /\ t.pc \in Contacting /\ Settled(t)
    BY <1>11, <1>b DEF WaitWoken, WaitTimesOut, Resumes, Contacting
  <2>2. /\ v \in Task /\ v.status = t.status /\ v.dialled = t.dialled
        /\ v.tries = t.tries /\ v.pos = t.pos
        /\ v.request = t.request /\ v.rang = t.rang /\ v.logged = t.logged
    BY <1>0 DEF Task
  <2> HIDE DEF v
  <2>3. Settled(v)
    BY <2>1, <2>2 DEF Settled
  <2>4. Duty(i, NextAttempt(i, v)) /\ Duty(i, FinishAcknowledged(i, v, Contact(i)))
    BY <1>e, <2>1, <2>2, <2>3, FinishAcknowledgedDuty
  <2>5. \/ Become(i, NextAttempt(i, v)) \/ Become(i, FinishAcknowledged(i, v, Contact(i)))
    BY <1>11 DEF WaitWoken, WaitTimesOut, v
  <2> QED BY <2>4, <2>5
<1>12. CASE LastPublished(i)
  <2> DEFINE u == [t EXCEPT !.pc = "done"]
  <2>1. t.pc \in {"finish", "failPub", "cancelPub"} /\ Become(i, u)
    BY <1>12 DEF LastPublished
  <2>2. /\ u.pc = "done" /\ u.status = t.status /\ u.dialled = t.dialled
        /\ u.tries = t.tries /\ u.pos = t.pos
        /\ u.request = t.request /\ u.rang = t.rang /\ u.logged = t.logged
    BY <1>0 DEF Task
  <2> HIDE DEF u
  <2>3. Duty(i, u)
    BY <1>0, <2>1, <2>2
    DEF Duty, ChainDuty, WellEnded, TriedAll, Tried, RecordDuty, Contacting
  <2> QED BY <2>1, <2>3
<1>13. CASE CancelArrives(i)
  <2> DEFINE v == [t EXCEPT !.cancelling = FALSE, !.waiter = "none"]
             u == [v EXCEPT !.pc = "done"]
             w == [v EXCEPT !.pc = "cancelPub", !.status = "cancelled"]
  <2>1. /\ v \in Task /\ v.pc = t.pc /\ v.status = t.status /\ v.dialled = t.dialled
        /\ v.tries = t.tries /\ v.pos = t.pos
        /\ v.request = t.request /\ v.rang = t.rang /\ v.logged = t.logged
    BY <1>0 DEF Task
  <2> HIDE DEF v
  <2>2. /\ u.pc = "done" /\ u.status = t.status /\ u.dialled = t.dialled
        /\ u.tries = t.tries /\ u.pos = t.pos
        /\ u.request = t.request /\ u.rang = t.rang /\ u.logged = t.logged
    BY <2>1 DEF Task
  <2>3. w.pc = "cancelPub" /\ w.status = "cancelled"
    BY <2>1 DEF Task
  <2>4. \/ t.pc \in {"created", "failPub", "cancelPub"} /\ Become(i, u)
        \/ Become(i, w)
    BY <1>13, <2>1 DEF CancelArrives, v
  <2> HIDE DEF u, w
  <2>5. t.pc \in {"created", "failPub", "cancelPub"} => Duty(i, u)
    BY <1>0, <2>2
    DEF Duty, ChainDuty, WellEnded, TriedAll, Tried, RecordDuty, Contacting
  <2>6. Duty(i, w)
    BY <2>3 DEF Duty, ChainDuty, WellEnded, RecordDuty, Contacting
  <2> QED BY <2>4, <2>5, <2>6
<1> QED BY <1>1, <1>2, <1>3, <1>4, <1>5, <1>6, <1>7, <1>8, <1>9, <1>10, <1>11,
           <1>12, <1>13 DEF RunStep, LocalStep

LEMMA EventDuty ==
  ASSUME TypeInv, NEW i \in Incidents, Duty(i, task[i]), Event(i)
  PROVE  \E u : Become(i, u) /\ Duty(i, u)
<1> DEFINE t == task[i]
           Same(u) == /\ u.pc = t.pc /\ u.status = t.status /\ u.dialled = t.dialled
                      /\ u.tries = t.tries /\ u.pos = t.pos
                      /\ u.request = t.request /\ u.rang = t.rang
                      /\ u.logged = t.logged
<1>0. t \in Task /\ Duty(i, t)
  BY DEF TypeInv, TypeOK
<1>a. ASSUME NEW u, Same(u) PROVE Duty(i, u)
  BY <1>0, <1>a DEF Duty, ChainDuty, WellEnded, TriedAll, Tried, RecordDuty
<1>1. CASE Dispatch(i)
  <2> DEFINE u == [t EXCEPT !.pc = "created"]
  <2>1. t.pc = "none" /\ Become(i, u)
    BY <1>1 DEF Dispatch
  <2>2. /\ u.pc = "created" /\ u.status = t.status /\ u.dialled = t.dialled
        /\ u.tries = t.tries /\ u.pos = t.pos
        /\ u.request = t.request /\ u.rang = t.rang /\ u.logged = t.logged
    BY <1>0 DEF Task
  <2> HIDE DEF u
  <2>3. Duty(i, u)
    BY <1>0, <2>1, <2>2
    DEF Duty, ChainDuty, WellEnded, TriedAll, Tried, RecordDuty, Contacting
  <2> QED BY <2>1, <2>3
<1>2. CASE Cancel(i)
  <2> DEFINE s == IF t.status = "no_run" THEN t.status ELSE "cancelled"
             u == [t EXCEPT !.cancelling = TRUE, !.status = s]
  <2>1. Become(i, u)
    BY <1>2 DEF Cancel
  <2>2. s = t.status \/ s = "cancelled"
    OBVIOUS
  <2>3. /\ u.pc = t.pc /\ u.status = s /\ u.dialled = t.dialled
        /\ u.tries = t.tries /\ u.pos = t.pos
        /\ u.request = t.request /\ u.rang = t.rang /\ u.logged = t.logged
    BY <1>0 DEF Task
  <2> HIDE DEF u, s
  <2>4. Duty(i, u)
    BY <1>0, <2>2, <2>3
    DEF Duty, ChainDuty, WellEnded, TriedAll, Tried, RecordDuty
  <2> QED BY <2>1, <2>4
<1>3. CASE Forget(i)
  <2> DEFINE u == [t EXCEPT !.waiter = IF @ = "linked" THEN "orphan" ELSE @]
  <2>1. Become(i, u) /\ Same(u)
    BY <1>0, <1>3 DEF Forget, Task
  <2> QED BY <1>a, <2>1
<1>4. CASE RequestQueued(i)
  <2> DEFINE r == IF t.request = "dialling" THEN t.rang \cup {Contact(i)} ELSE t.rang
             u == [t EXCEPT !.request = "queued", !.rang = r]
  <2>1. Become(i, u) /\ t.request \in {"texting", "dialling"}
    BY <1>4 DEF RequestQueued
  <2>2. /\ u.pc = t.pc /\ u.status = t.status /\ u.dialled = t.dialled
        /\ u.tries = t.tries /\ u.pos = t.pos
        /\ u.request = "queued" /\ u.rang = r /\ u.logged = t.logged
    BY <1>0 DEF Task
  <2>3. /\ t.request = "dialling" => r = t.rang \cup {ChainOf(i)[t.pos]}
        /\ t.request # "dialling" => r = t.rang
    BY DEF Contact
  <2> HIDE DEF u, r
  <2>4. ChainDuty(i, u)
    BY <1>0, <2>2 DEF Duty, ChainDuty, WellEnded, TriedAll, Tried
  <2>5. RecordDuty(i, u)
    <3>1. CASE t.status = "cancelled"
      BY <2>2, <3>1 DEF RecordDuty
    <3>2. CASE t.status # "cancelled" /\ t.request = "dialling"
      BY <1>0, <2>2, <2>3, <3>2 DEF Duty, RecordDuty
    <3>3. CASE t.status # "cancelled" /\ t.request = "texting"
      BY <1>0, <2>2, <2>3, <3>3 DEF Duty, RecordDuty
    <3> QED BY <2>1, <3>1, <3>2, <3>3
  <2> QED BY <2>1, <2>4, <2>5 DEF Duty
<1>5. CASE RequestFailed(i)
  <2> DEFINE u == [t EXCEPT !.request = "failed"]
  <2>1. Become(i, u) /\ t.request \in {"texting", "dialling"}
    BY <1>5 DEF RequestFailed
  <2>2. /\ u.pc = t.pc /\ u.status = t.status /\ u.dialled = t.dialled
        /\ u.tries = t.tries /\ u.pos = t.pos
        /\ u.request = "failed" /\ u.rang = t.rang /\ u.logged = t.logged
    BY <1>0 DEF Task
  <2> HIDE DEF u
  <2>3. Duty(i, u)
    BY <1>0, <2>1, <2>2
    DEF Duty, ChainDuty, WellEnded, TriedAll, Tried, RecordDuty
  <2> QED BY <2>1, <2>3
<1>6. ASSUME NEW c \in Contacts, Acknowledge(i, c)
      PROVE  \E u : Become(i, u) /\ Duty(i, u)
  <2> DEFINE u == [t EXCEPT !.by = c,
                            !.waiter = IF @ = "linked" THEN "woken" ELSE @]
  <2>1. Become(i, u) /\ Same(u)
    BY <1>0, <1>6 DEF Acknowledge, Task
  <2> QED BY <1>a, <2>1
<1>7. CASE PhoneRings(i)
  <2> DEFINE r == t.rang \cup {Contact(i)}
             u == [t EXCEPT !.rang = r]
  <2>1. Become(i, u) /\ t.request = "dialling"
    BY <1>7 DEF PhoneRings
  <2>2. /\ u.pc = t.pc /\ u.status = t.status /\ u.dialled = t.dialled
        /\ u.tries = t.tries /\ u.pos = t.pos
        /\ u.request = "dialling" /\ u.rang = r /\ u.logged = t.logged
    BY <1>0, <2>1 DEF Task
  <2>3. r = t.rang \cup {ChainOf(i)[t.pos]}
    BY DEF Contact
  <2> HIDE DEF u, r
  <2>4. ChainDuty(i, u)
    BY <1>0, <2>2 DEF Duty, ChainDuty, WellEnded, TriedAll, Tried
  <2>5. RecordDuty(i, u)
    BY <1>0, <2>1, <2>2, <2>3 DEF Duty, RecordDuty
  <2> QED BY <2>1, <2>4, <2>5 DEF Duty
<1> QED BY <1>1, <1>2, <1>3, <1>4, <1>5, <1>6, <1>7 DEF Event, ProviderStep

DutyInv == SInv /\ \A i \in Incidents : Duty(i, task[i])

LEMMA DutyInit == Init => DutyInv
<1> SUFFICES ASSUME Init PROVE DutyInv
  OBVIOUS
<1>1. SInv
  BY TypeInit DEF Init, NoTask, SInv, StopInv
<1>2. /\ NoTask.pc = "none" /\ NoTask.status = "no_run"
      /\ NoTask.request = "idle" /\ NoTask.rang = {} /\ NoTask.logged = {}
  BY DEF NoTask
<1>3. ASSUME NEW i \in Incidents PROVE Duty(i, task[i])
  <2>1. task[i] = NoTask
    BY DEF Init
  <2>2. Duty(i, NoTask)
    BY <1>2 DEF Duty, ChainDuty, WellEnded, RecordDuty, Contacting
  <2> QED BY <2>1, <2>2
<1> QED BY <1>1, <1>3 DEF DutyInv

LEMMA DutyStep == DutyInv /\ [Next]_vars => DutyInv'
<1> SUFFICES ASSUME DutyInv, [Next]_vars PROVE DutyInv'
  OBVIOUS
<1>0. SInv /\ SInv' /\ TypeInv /\ task \in [Incidents -> Task]
  BY StopStep DEF DutyInv, SInv, TypeInv, TypeOK
<1> SUFFICES \A i \in Incidents : Duty(i, task'[i])
  BY <1>0 DEF DutyInv, Duty, ChainDuty, WellEnded, TriedAll, Tried, RecordDuty
<1>a. ASSUME NEW i \in Incidents, NEW u, Become(i, u), Duty(i, u)
      PROVE  \A j \in Incidents : Duty(j, task'[j])
  BY <1>0, <1>a DEF Become, DutyInv
<1>1. ASSUME NEW i \in Incidents, RunStep(i)
      PROVE  \A j \in Incidents : Duty(j, task'[j])
  BY <1>0, <1>1, <1>a, RunStepDuty DEF DutyInv
<1>2. ASSUME NEW i \in Incidents, Event(i)
      PROVE  \A j \in Incidents : Duty(j, task'[j])
  BY <1>0, <1>2, <1>a, EventDuty DEF DutyInv
<1>3. CASE UNCHANGED task
  BY <1>3 DEF DutyInv
<1>4. CASE Shutdown
  <2> SUFFICES ASSUME NEW i \in Incidents PROVE Duty(i, task'[i])
    OBVIOUS
  <2> DEFINE t == task[i]
             u == task'[i]
  <2>1. /\ u.pc = t.pc /\ u.status = t.status /\ u.dialled = t.dialled
        /\ u.tries = t.tries /\ u.pos = t.pos
        /\ u.request = t.request /\ u.rang = t.rang /\ u.logged = t.logged
    BY <1>0, <1>4 DEF Shutdown, Task
  <2>2. Duty(i, t)
    BY DEF DutyInv
  <2> HIDE DEF u
  <2>3. Duty(i, u)
    BY <2>1, <2>2 DEF Duty, ChainDuty, WellEnded, TriedAll, Tried, RecordDuty
  <2> QED BY <2>3 DEF u
<1> QED BY <1>1, <1>2, <1>3, <1>4
        DEF Next, Event, WindowLapses, ToggleShadow, vars

LEMMA DutyAlways == Spec => []DutyInv
BY DutyInit, DutyStep, PTL DEF Spec

(* EXHAUSTED is said only of a chain whose every contact that takes calls  *)
(* was called as often as its retries ask (_execute, _try_contact).        *)
THEOREM NobodyLeftOut == Spec => []ExhaustedTriedEveryone
<1>1. DutyInv => ExhaustedTriedEveryone
  <2> SUFFICES ASSUME DutyInv, NEW i \in Incidents, task[i].status = "exhausted",
                      NEW k \in 1 .. Len(ChainOf(i)), ChainOf(i)[k] \in HasCall
               PROVE  task[i].dialled[ChainOf(i)[k]] > Retries[ChainOf(i)[k]]
    BY DEF ExhaustedTriedEveryone
  <2>1. TriedAll(i, task[i])
    BY DEF DutyInv, Duty, ChainDuty, WellEnded
  <2>2. k < Len(ChainOf(i)) + 1
    BY ChainType
  <2> QED BY <2>1, <2>2 DEF TriedAll, Tried
<1> QED BY <1>1, DutyAlways, PTL

(* A run that ends uncancelled has recorded every call that made a phone   *)
(* ring (the attempts of _try_contact).                                    *)
THEOREM CallsAreRecorded == Spec => []RecordedUnlessCancelled
<1>1. DutyInv => RecordedUnlessCancelled
  BY DEF DutyInv, Duty, RecordDuty, RecordedUnlessCancelled
<1> QED BY <1>1, DutyAlways, PTL
===============================================================================
