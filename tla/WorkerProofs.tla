----------------------------- MODULE WorkerProofs -----------------------------
(* Theorems about Worker, for every value of its constants.                *)
EXTENDS Worker, TLAPS

-----------------------------------------------------------------------------
(* The inductive invariant.                                                *)

(* The clock of the last frame tells the truth about a connection until    *)
(* the watchdog has acted on it; a reset belongs to the connection it is   *)
(* found on.                                                               *)
ClockTrue(w) ==
  ~w.stop /\ w.connected => /\ w.fired => w.error = "stalled"
                            /\ ~w.fired => w.age = w.silence
                            /\ w.age # Never

ResetOwned(w) == w.thread \in {"checking", "reading"} /\ w.reset => w.fired

Sound(w) == ClockTrue(w) /\ ResetOwned(w)

(* The watchdog comes in time: what it sleeps and what the silence lasts   *)
(* already make a stall and a period at most, and the clock that it has    *)
(* read is not behind.                                                     *)
InTime ==
  stopping = "no" =>
    /\ ~worker[cur].stop
    /\ worker[cur].connected /\ ~worker[cur].fired =>
         /\ worker[cur].silence + dog.timer <= Stall + Period
         /\ dog.age # Never => worker[cur].silence <= dog.age

(* Unless a thread outlived its stop(), only the current worker can turn   *)
(* the gauge on.                                                           *)
OneGauge ==
  ~lingers =>
    /\ \A k \in Workers : k # cur => /\ worker[k].thread \in {"new", "over"}
                                     /\ ~worker[k].connected
    /\ gauge = 1 <=> worker[cur].connected
    /\ stopping = "done" => worker[cur].thread = "over" /\ ~worker[cur].connected

WorkerInv == (\A k \in Workers : Sound(worker[k])) /\ InTime /\ OneGauge

-----------------------------------------------------------------------------
(* One worker.                                                             *)

LEMMA Constants ==
  /\ Stall \in Nat /\ Period \in Nat /\ Stall > 0 /\ Period > 0
  /\ MaxBackoff \in Nat /\ MaxBackoff > 0 /\ JoinTime \in Nat
  /\ MaxWorkers \in Nat /\ MaxWorkers > 0
  /\ Longest \in Nat /\ Longest = Stall + Period + 1 /\ Never = Longest + 1
  /\ 0 \in Age /\ Age \subseteq Nat /\ Never \in Nat /\ Never \notin Age
BY WorkerAssumption DEF Longest, Never, Age

LEMMA WorkerFields ==
  ASSUME NEW w \in WorkerState
  PROVE  /\ w.thread \in {"new", "starting", "opening", "clearing", "checking", "reading",
                          "waiting", "over"}
         /\ w.stop \in BOOLEAN /\ w.reset \in BOOLEAN /\ w.connected \in BOOLEAN
         /\ w.error \in {"none", "failed", "stalled"}
         /\ w.age \in Age \cup {Never} /\ w.age \in Nat
         /\ w.backoff \in 1 .. MaxBackoff /\ w.wait \in 0 .. MaxBackoff
         /\ w.silence \in Age /\ w.silence \in Nat /\ w.fired \in BOOLEAN
BY Constants DEF WorkerState

LEMMA NewWorkers ==
  /\ New \in WorkerState /\ New.thread = "new" /\ ~New.connected
  /\ Started \in WorkerState /\ Started.thread = "starting" /\ ~Started.connected
  /\ ~Started.stop
<1>1. 1 \in 1 .. MaxBackoff /\ 0 \in 0 .. MaxBackoff /\ Never \in Age \cup {Never} /\ 0 \in Age
  BY Constants
<1>2. New \in WorkerState /\ New.thread = "new" /\ ~New.connected /\ ~New.stop
  BY <1>1 DEF New, WorkerState
<1>3. /\ Started \in WorkerState /\ Started.thread = "starting"
      /\ Started.connected = New.connected /\ Started.stop = New.stop
  <2> HIDE DEF New
  <2> QED BY <1>2 DEF Started, WorkerState
<1> QED BY <1>2, <1>3

LEMMA BecomesAt ==
  ASSUME TypeOK, NEW k \in Workers, NEW v \in WorkerState, Becomes(k, v)
  PROVE  /\ worker' \in [Workers -> WorkerState]
         /\ worker'[k] = v
         /\ \A j \in Workers : j # k => worker'[j] = worker[j]
BY DEF TypeOK, Becomes

(* What one step of the decode thread makes of its worker.                 *)
Turned(w, v) ==
  /\ Sound(v)
  /\ w.thread \notin {"new", "over"}
  /\ v.stop <=> w.stop
  /\ v.connected /\ ~v.fired =>
        v.silence = 0 \/ (w.connected /\ ~w.fired /\ v.silence = w.silence)
  /\ \/ gauge' = gauge /\ (v.connected <=> w.connected)
     \/ gauge' = 1 /\ v.connected
     \/ gauge' = 0 /\ ~v.connected

(* A stream that is left has its cause.                                    *)
LeftWithCause(w, v) ==
  w.thread \in {"checking", "reading"} /\ v.thread = "waiting"
     => w.stop \/ v.error = "failed" \/ w.fired

LEMMA DecodeTurns ==
  ASSUME TypeOK, NEW k \in Workers, Sound(worker[k]), DecodeStep(k)
  PROVE  \E v \in WorkerState : /\ Becomes(k, v) /\ Turned(worker[k], v)
                                /\ LeftWithCause(worker[k], v)
<1> DEFINE w == worker[k]
<1>0. w \in WorkerState /\ Sound(w)
  BY DEF TypeOK
<1> HIDE DEF w
<1>1. CASE OpenFails(k)
  <2>1. PICK delay \in 1 .. w.backoff :
          Becomes(k, [w EXCEPT !.connected = FALSE, !.error = "failed",
                               !.thread = "waiting", !.wait = delay,
                               !.backoff = Doubled(@)])
    BY <1>1 DEF OpenFails, w
  <2>2. w.thread = "opening" /\ gauge' = 0
    BY <1>1 DEF OpenFails, w
  <2>3. Doubled(w.backoff) \in 1 .. MaxBackoff /\ delay \in 0 .. MaxBackoff
    BY <1>0, Constants, WorkerFields DEF Doubled
  <2> DEFINE v == [w EXCEPT !.connected = FALSE, !.error = "failed",
                            !.thread = "waiting", !.wait = delay,
                            !.backoff = Doubled(w.backoff)]
  <2>4. v \in WorkerState /\ v.thread = "waiting" /\ ~v.connected /\ v.stop = w.stop
    BY <1>0, <2>3 DEF WorkerState
  <2>5. Becomes(k, v)
    BY <1>0, <2>1 DEF WorkerState
  <2> HIDE DEF v
  <2>6. Turned(w, v) /\ LeftWithCause(w, v)
    BY <2>2, <2>4 DEF Turned, LeftWithCause, Sound, ClockTrue, ResetOwned
  <2> QED BY <2>4, <2>5, <2>6 DEF w
<1>2. CASE OpenSucceeds(k)
  <2> DEFINE v == [Connected(w) EXCEPT !.thread = "clearing"]
  <2>1. /\ v \in WorkerState /\ v.thread = "clearing" /\ v.connected /\ v.stop = w.stop
        /\ ~v.fired /\ v.age = 0 /\ v.silence = 0
    BY <1>0, Constants DEF WorkerState, Connected
  <2>2. Becomes(k, v) /\ gauge' = 1 /\ w.thread = "opening"
    BY <1>2 DEF OpenSucceeds, w
  <2> HIDE DEF v
  <2>3. Turned(w, v) /\ LeftWithCause(w, v)
    BY <2>1, <2>2, Constants DEF Turned, LeftWithCause, Sound, ClockTrue, ResetOwned
  <2> QED BY <2>1, <2>2, <2>3 DEF w
<1>3. CASE Clear(k)
  <2> DEFINE v == [ResetCleared(w) EXCEPT !.thread = "checking"]
  <2>a. 1 \in 1 .. MaxBackoff
    BY Constants
  <2> DEFINE u == ResetCleared(w)
  <2>b. /\ u \in WorkerState /\ ~u.reset
        /\ u.stop = w.stop /\ u.connected = w.connected /\ u.fired = w.fired
        /\ u.age = w.age /\ u.silence = w.silence /\ u.error = w.error
    BY <1>0, <2>a DEF WorkerState, ResetCleared
  <2>c. v = [u EXCEPT !.thread = "checking"]
    OBVIOUS
  <2> HIDE DEF u
  <2>1. /\ v \in WorkerState /\ v.thread = "checking" /\ ~v.reset
        /\ v.stop = w.stop /\ v.connected = w.connected /\ v.fired = w.fired
        /\ v.age = w.age /\ v.silence = w.silence /\ v.error = w.error
    BY <2>b, <2>c DEF WorkerState
  <2>2. Becomes(k, v) /\ gauge' = gauge /\ w.thread = "clearing"
    BY <1>3 DEF Clear, w
  <2> HIDE DEF v
  <2>3. Turned(w, v) /\ LeftWithCause(w, v)
    BY <1>0, <2>1, <2>2 DEF Turned, LeftWithCause, Sound, ClockTrue, ResetOwned
  <2> QED BY <2>1, <2>2, <2>3 DEF w
<1>c. ASSUME NEW u \in WorkerState
      PROVE  /\ Closed(u) \in WorkerState /\ Closed(u).thread = "waiting"
             /\ ~Closed(u).connected /\ Closed(u).stop = u.stop /\ Closed(u).error = u.error
  <2>1. 1 \in 0 .. MaxBackoff
    BY Constants
  <2> QED BY <2>1 DEF Closed, WorkerState
<1>4. CASE LoopRound(k)
  <2>1. CASE ReadOn(w)
    <3> DEFINE v == [w EXCEPT !.thread = "reading"]
    <3>1. /\ v \in WorkerState /\ v.thread = "reading" /\ v.reset = w.reset
          /\ v.stop = w.stop /\ v.connected = w.connected /\ v.fired = w.fired
          /\ v.age = w.age /\ v.silence = w.silence /\ v.error = w.error
      BY <1>0 DEF WorkerState
    <3>2. Becomes(k, v) /\ gauge' = gauge /\ w.thread = "checking"
      BY <1>4, <2>1 DEF LoopRound, w
    <3> HIDE DEF v
    <3>3. Turned(w, v) /\ LeftWithCause(w, v)
      BY <1>0, <3>1, <3>2 DEF Turned, LeftWithCause, Sound, ClockTrue, ResetOwned
    <3> QED BY <3>1, <3>2, <3>3 DEF w
  <2>2. CASE ~ReadOn(w)
    <3> DEFINE v == Closed(w)
    <3>1. /\ v \in WorkerState /\ v.thread = "waiting" /\ ~v.connected /\ v.stop = w.stop
      BY <1>0, <1>c
    <3>2. Becomes(k, v) /\ gauge' = 0 /\ w.thread = "checking"
      BY <1>4, <2>2 DEF LoopRound, w
    <3> HIDE DEF v
    <3>3. w.stop \/ w.fired
      BY <1>0, <2>2, <3>2, WorkerFields DEF ReadOn, Sound, ResetOwned
    <3>4. Turned(w, v) /\ LeftWithCause(w, v)
      BY <3>1, <3>2, <3>3 DEF Turned, LeftWithCause, Sound, ClockTrue, ResetOwned
    <3> QED BY <3>1, <3>2, <3>4 DEF w
  <2> QED BY <2>1, <2>2
<1>5. CASE ReadReturns(k)
  <2>0. w.thread = "reading"
    BY <1>5 DEF ReadReturns, w
  <2>1. ASSUME Becomes(k, [[w EXCEPT !.age = 0, !.silence = 0] EXCEPT !.thread = "checking"]),
               gauge' = gauge
        PROVE  \E v \in WorkerState : Becomes(k, v) /\ Turned(w, v) /\ LeftWithCause(w, v)
    <3> DEFINE v == [[w EXCEPT !.age = 0, !.silence = 0] EXCEPT !.thread = "checking"]
    <3> DEFINE u == [w EXCEPT !.age = 0, !.silence = 0]
    <3>a. /\ u \in WorkerState /\ u.reset = w.reset
          /\ u.stop = w.stop /\ u.connected = w.connected /\ u.fired = w.fired
          /\ u.age = 0 /\ u.silence = 0 /\ u.error = w.error
      <4>1. 0 \in Age
        BY Constants
      <4> QED BY <1>0, <4>1 DEF WorkerState
    <3>b. v = [u EXCEPT !.thread = "checking"]
      OBVIOUS
    <3> HIDE DEF u
    <3>1. /\ v \in WorkerState /\ v.thread = "checking" /\ v.reset = w.reset
          /\ v.stop = w.stop /\ v.connected = w.connected /\ v.fired = w.fired
          /\ v.age = 0 /\ v.silence = 0 /\ v.error = w.error
      BY <3>a, <3>b DEF WorkerState
    <3>2. Becomes(k, v)
      BY <2>1
    <3> HIDE DEF v
    <3>3. Turned(w, v) /\ LeftWithCause(w, v)
      BY <1>0, <2>0, <2>1, <3>1, Constants
         DEF Turned, LeftWithCause, Sound, ClockTrue, ResetOwned
    <3> QED BY <3>1, <3>2, <3>3
  <2>2. ASSUME Becomes(k, [w EXCEPT !.thread = "checking"]), gauge' = gauge
        PROVE  \E v \in WorkerState : Becomes(k, v) /\ Turned(w, v) /\ LeftWithCause(w, v)
    <3> DEFINE v == [w EXCEPT !.thread = "checking"]
    <3>1. /\ v \in WorkerState /\ v.thread = "checking" /\ v.reset = w.reset
          /\ v.stop = w.stop /\ v.connected = w.connected /\ v.fired = w.fired
          /\ v.age = w.age /\ v.silence = w.silence /\ v.error = w.error
      BY <1>0 DEF WorkerState
    <3>2. Becomes(k, v)
      BY <2>2
    <3> HIDE DEF v
    <3>3. Turned(w, v) /\ LeftWithCause(w, v)
      BY <1>0, <2>0, <2>2, <3>1 DEF Turned, LeftWithCause, Sound, ClockTrue, ResetOwned
    <3> QED BY <3>1, <3>2, <3>3
  <2>3. ASSUME Becomes(k, Closed([w EXCEPT !.error = "failed"])), gauge' = 0
        PROVE  \E v \in WorkerState : Becomes(k, v) /\ Turned(w, v) /\ LeftWithCause(w, v)
    <3> DEFINE u == [w EXCEPT !.error = "failed"]
               v == Closed(u)
    <3>1. u \in WorkerState /\ u.error = "failed" /\ u.stop = w.stop
      BY <1>0 DEF WorkerState
    <3>2. Becomes(k, v)
      BY <2>3
    <3> HIDE DEF u
    <3>3. /\ v \in WorkerState /\ v.thread = "waiting" /\ ~v.connected /\ v.stop = w.stop
          /\ v.error = "failed"
      BY <1>c, <3>1
    <3> HIDE DEF v
    <3>4. Turned(w, v) /\ LeftWithCause(w, v)
      BY <2>0, <2>3, <3>3 DEF Turned, LeftWithCause, Sound, ClockTrue, ResetOwned
    <3> QED BY <3>2, <3>3, <3>4
  <2>4. \/ /\ \E image \in BOOLEAN : Becomes(k, [Seen(w, image) EXCEPT !.thread = "checking"])
           /\ gauge' = gauge
        \/ Becomes(k, Closed([w EXCEPT !.error = "failed"])) /\ gauge' = 0
    BY <1>5 DEF ReadReturns, w
  <2> QED BY <2>1, <2>2, <2>3, <2>4 DEF Seen, w
<1>6. CASE WaitEnds(k)
  <2> DEFINE t == Loops(w)
             v == [w EXCEPT !.thread = t, !.wait = 0]
  <2>0. t \in {"over", "opening"}
    BY DEF Loops
  <2>1. Becomes(k, v) /\ gauge' = gauge /\ w.thread = "waiting"
    BY <1>6 DEF WaitEnds, w
  <2> HIDE DEF t
  <2>2. /\ v \in WorkerState /\ v.thread = t
        /\ v.stop = w.stop /\ v.connected = w.connected /\ v.fired = w.fired
        /\ v.age = w.age /\ v.silence = w.silence /\ v.error = w.error
    <3>1. 0 \in 0 .. MaxBackoff
      BY Constants
    <3> QED BY <1>0, <2>0, <3>1 DEF WorkerState
  <2> HIDE DEF v
  <2>3. Turned(w, v) /\ LeftWithCause(w, v)
    BY <1>0, <2>0, <2>1, <2>2 DEF Turned, LeftWithCause, Sound, ClockTrue, ResetOwned
  <2> QED BY <2>1, <2>2, <2>3 DEF w
<1>7. CASE SourceMade(k)
  <2>1. PICK t \in {"opening", "over"} : Becomes(k, [w EXCEPT !.thread = t])
    BY <1>7 DEF SourceMade, w
  <2> DEFINE v == [w EXCEPT !.thread = t]
  <2>2. /\ v \in WorkerState /\ v.thread = t
        /\ v.stop = w.stop /\ v.connected = w.connected /\ v.fired = w.fired
        /\ v.age = w.age /\ v.silence = w.silence /\ v.error = w.error
    BY <1>0, <2>1 DEF WorkerState
  <2>3. Becomes(k, v) /\ gauge' = gauge /\ w.thread = "starting"
    BY <1>7, <2>1 DEF SourceMade, w
  <2> HIDE DEF v
  <2>4. Turned(w, v) /\ LeftWithCause(w, v)
    BY <1>0, <2>1, <2>2, <2>3 DEF Turned, LeftWithCause, Sound, ClockTrue, ResetOwned
  <2> QED BY <2>2, <2>3, <2>4 DEF w
<1> QED BY <1>1, <1>2, <1>3, <1>4, <1>5, <1>6, <1>7 DEF DecodeStep, OwnStep

LEMMA Ticks ==
  ASSUME NEW w \in WorkerState
  PROVE  /\ TickOf(w) \in WorkerState
         /\ TickOf(w).thread = w.thread /\ TickOf(w).stop = w.stop
         /\ TickOf(w).reset = w.reset /\ TickOf(w).connected = w.connected
         /\ TickOf(w).error = w.error /\ TickOf(w).fired = w.fired
         /\ TickOf(w).silence <= w.silence + 1
         /\ w.age # Never => TickOf(w).age # Never
         /\ w.age = w.silence => TickOf(w).age = TickOf(w).silence
<1>1. /\ Older(w.age) \in Age \cup {Never} /\ Older(w.silence) \in Age
      /\ Older(w.silence) <= w.silence + 1 /\ w.silence <= w.silence + 1
      /\ w.age # Never => Older(w.age) # Never
      /\ Less(w.wait) \in 0 .. MaxBackoff
  BY Constants, WorkerFields DEF Older, Less, Age
<1>2. CASE w.stop
  BY <1>1, <1>2 DEF TickOf
<1>3. CASE ~w.stop
  <2> DEFINE a == Older(w.age)
             s == Older(w.silence)
             n == Less(w.wait)
             v == [w EXCEPT !.age = a, !.silence = s, !.wait = n]
  <2>1. TickOf(w) = v
    BY <1>3 DEF TickOf, WorkerState
  <2>2. w.age = w.silence => a = s
    OBVIOUS
  <2>3. /\ a \in Age \cup {Never} /\ s \in Age /\ n \in 0 .. MaxBackoff
        /\ s <= w.silence + 1 /\ (w.age # Never => a # Never)
    BY <1>1
  <2> HIDE DEF a, s, n
  <2>4. /\ v \in WorkerState /\ v.thread = w.thread /\ v.stop = w.stop
        /\ v.reset = w.reset /\ v.connected = w.connected /\ v.error = w.error
        /\ v.fired = w.fired /\ v.age = a /\ v.silence = s
    BY <2>3 DEF WorkerState
  <2> HIDE DEF v
  <2> QED BY <2>1, <2>2, <2>3, <2>4
<1> QED BY <1>2, <1>3

-----------------------------------------------------------------------------
(* The steps.                                                              *)

Inv == TypeOK /\ WorkerInv

LEMMA DogType ==
  ASSUME TypeOK
  PROVE  /\ dog.timer \in 0 .. Period /\ dog.timer \in Nat
         /\ dog.age \in Age \cup {Never} /\ dog.age \in Nat
         /\ cur \in Workers /\ worker[cur] \in WorkerState
         /\ worker[cur].silence \in Nat /\ Stall \in Nat /\ Period \in Nat
<1>1. /\ dog.timer \in 0 .. Period /\ dog.age \in Age \cup {Never}
      /\ cur \in Workers /\ worker[cur] \in WorkerState
  BY DEF TypeOK
<1>2. worker[cur].silence \in Nat
  BY <1>1, WorkerFields
<1>3. Stall \in Nat /\ Period \in Nat /\ Age \cup {Never} \subseteq Nat
  BY Constants
<1>4. \A n \in 0 .. Period : n \in Nat
  BY <1>3
<1> QED BY <1>1, <1>2, <1>3, <1>4

LEMMA DecodeSteps ==
  ASSUME Inv, NEW k \in Workers, DecodeStep(k)
  PROVE  Inv'
<1>0. TypeOK /\ Sound(worker[k]) /\ InTime /\ OneGauge
  BY DEF Inv, WorkerInv
<1>1. PICK v \in WorkerState : Becomes(k, v) /\ Turned(worker[k], v)
  BY <1>0, DecodeTurns
<1>2. UNCHANGED <<cur, dog, stopping, join, reachable, lingers>>
  BY DEF DecodeStep, OwnStep, SourceMade, OpenFails, OpenSucceeds, Clear, LoopRound,
         ReadReturns, WaitEnds
<1>3. /\ worker' \in [Workers -> WorkerState] /\ worker'[k] = v
      /\ \A j \in Workers : j # k => worker'[j] = worker[j]
  BY <1>0, <1>1, BecomesAt
<1>4. TypeOK'
  BY <1>0, <1>1, <1>2, <1>3 DEF TypeOK, Turned
<1>5. \A j \in Workers : Sound(worker'[j])
  BY <1>1, <1>3 DEF Inv, WorkerInv, Turned
<1>6. InTime'
  <2>1. CASE k # cur
    BY <1>0, <1>2, <1>3, <2>1, DogType DEF InTime
  <2>2. CASE k = cur
    BY <1>0, <1>1, <1>2, <1>3, <2>2, DogType DEF InTime, Turned
  <2> QED BY <2>1, <2>2
<1>7. OneGauge'
  <2>1. CASE lingers
    BY <1>2, <2>1 DEF OneGauge
  <2>2. CASE ~lingers
    <3>1. k = cur /\ stopping # "done"
      BY <1>0, <1>1, <2>2 DEF OneGauge, Turned
    <3> QED BY <1>0, <1>1, <1>2, <1>3, <2>2, <3>1 DEF OneGauge, Turned
  <2> QED BY <2>1, <2>2
<1> QED BY <1>4, <1>5, <1>6, <1>7 DEF Inv, WorkerInv

LEMMA AsleepType == Asleep \in [timer : 0 .. Period, age : Age \cup {Never}]
                    /\ Asleep.timer = Period /\ Asleep.age = Never
BY Constants DEF Asleep

LEMMA WatchdogSteps ==
  ASSUME Inv, Watchdog
  PROVE  Inv'
<1> DEFINE w == worker[cur]
<1>0. /\ TypeOK /\ cur \in Workers /\ Sound(w) /\ InTime /\ OneGauge
      /\ w \in WorkerState
  BY DogType DEF Inv, WorkerInv
<1> HIDE DEF w
<1>1. stopping = "no" /\ UNCHANGED <<cur, stopping, join, gauge, reachable, lingers>>
  BY DEF Watchdog, WatchdogWakes, WatchdogActs
<1>2. CASE WatchdogWakes
  <2>0. worker' = worker
    BY <1>2 DEF WatchdogWakes
  <2>1. CASE w.age = Never
    <3>1. dog' = Asleep
      BY <1>2, <2>1 DEF WatchdogWakes, w
    <3>2. ~w.connected
      BY <1>0, <1>1, <2>1 DEF Sound, ClockTrue, InTime, w
    <3>3. TypeOK'
      BY <1>0, <1>1, <2>0, <3>1, AsleepType DEF TypeOK
    <3>4. InTime'
      BY <1>0, <1>1, <2>0, <3>2 DEF InTime, w
    <3>5. OneGauge' /\ \A j \in Workers : Sound(worker'[j])
      BY <1>1, <2>0 DEF Inv, WorkerInv, OneGauge
    <3> QED BY <3>3, <3>4, <3>5 DEF Inv, WorkerInv
  <2>2. CASE w.age # Never
    <3> DEFINE d == [dog EXCEPT !.age = w.age]
    <3>1. dog' = d
      BY <1>2, <2>2 DEF WatchdogWakes, w
    <3>2. /\ d \in [timer : 0 .. Period, age : Age \cup {Never}]
          /\ d.timer = dog.timer /\ d.age = w.age
      BY <1>0, WorkerFields DEF TypeOK
    <3> HIDE DEF d
    <3>3. TypeOK'
      BY <1>0, <1>1, <2>0, <3>1, <3>2 DEF TypeOK
    <3>4. w.connected /\ ~w.fired => w.silence <= w.age
      BY <1>0, <1>1, WorkerFields DEF InTime, Sound, ClockTrue, w
    <3>5. InTime'
      BY <1>0, <1>1, <2>0, <3>1, <3>2, <3>4 DEF InTime, w
    <3>6. OneGauge' /\ \A j \in Workers : Sound(worker'[j])
      BY <1>1, <2>0 DEF Inv, WorkerInv, OneGauge
    <3> QED BY <3>3, <3>5, <3>6 DEF Inv, WorkerInv
  <2> QED BY <2>1, <2>2
<1>3. CASE WatchdogActs
  <2>0. dog' = Asleep /\ dog.age # Never
    BY <1>3 DEF WatchdogActs
  <2>1. CASE Stalled(w, dog.age)
    <3> DEFINE v == [w EXCEPT !.error = "stalled", !.reset = TRUE, !.age = 0, !.fired = TRUE]
    <3>1. Becomes(cur, v)
      BY <1>3, <2>1 DEF WatchdogActs, w
    <3>2. /\ v \in WorkerState /\ v.error = "stalled" /\ v.fired /\ v.age = 0
          /\ v.connected = w.connected /\ v.thread = w.thread /\ v.stop = w.stop
      <4>1. 0 \in Age
        BY Constants
      <4> QED BY <1>0, <4>1 DEF WorkerState
    <3> HIDE DEF v
    <3>3. /\ worker' \in [Workers -> WorkerState] /\ worker'[cur] = v
          /\ \A j \in Workers : j # cur => worker'[j] = worker[j]
      BY <1>0, <3>1, <3>2, BecomesAt
    <3>4. TypeOK'
      BY <1>0, <1>1, <2>0, <3>3, AsleepType DEF TypeOK
    <3>5. Sound(v)
      BY <3>2, Constants DEF Sound, ClockTrue, ResetOwned
    <3>6. \A j \in Workers : Sound(worker'[j])
      BY <3>3, <3>5 DEF Inv, WorkerInv
    <3>7. InTime' /\ OneGauge'
      BY <1>0, <1>1, <3>2, <3>3 DEF InTime, OneGauge, w
    <3> QED BY <3>4, <3>6, <3>7 DEF Inv, WorkerInv
  <2>2. CASE ~Stalled(w, dog.age)
    <3>1. worker' = worker
      BY <1>3, <2>2 DEF WatchdogActs, w
    <3>2. TypeOK'
      BY <1>0, <1>1, <2>0, <3>1, AsleepType DEF TypeOK
    <3>3. w.connected /\ ~w.fired => w.silence + Period <= Stall + Period
      <4>1. w.connected => dog.age <= Stall
        BY <1>0, <2>2, DogType DEF Stalled
      <4>2. w.connected /\ ~w.fired => w.silence <= dog.age
        BY <1>0, <1>1, <2>0 DEF InTime, w
      <4> QED BY <1>0, <4>1, <4>2, DogType DEF w
    <3>4. InTime'
      BY <1>0, <1>1, <2>0, <3>1, <3>3, AsleepType DEF InTime, w
    <3>5. OneGauge' /\ \A j \in Workers : Sound(worker'[j])
      BY <1>1, <3>1 DEF Inv, WorkerInv, OneGauge
    <3> QED BY <3>2, <3>4, <3>5 DEF Inv, WorkerInv
  <2> QED BY <2>1, <2>2
<1> QED BY <1>2, <1>3 DEF Watchdog

LEMMA StopSteps ==
  ASSUME Inv, StopRequested \/ StopReturns \/ StartWorker
  PROVE  Inv'
<1> DEFINE w == worker[cur]
<1>0. /\ TypeOK /\ cur \in Workers /\ Sound(w) /\ InTime /\ OneGauge
      /\ w \in WorkerState /\ worker \in [Workers -> WorkerState]
      /\ JoinTime \in 0 .. JoinTime /\ 0 \in 0 .. JoinTime
  BY DogType, Constants DEF Inv, WorkerInv, TypeOK
<1> HIDE DEF w
<1>1. CASE StopRequested
  <2> DEFINE v == [w EXCEPT !.stop = TRUE]
  <2>1. /\ Becomes(cur, v) /\ stopping' = "joining" /\ join' = JoinTime /\ dog' = Asleep
        /\ UNCHANGED <<cur, gauge, reachable, lingers>>
    BY <1>1 DEF StopRequested, w
  <2>2. /\ v \in WorkerState /\ v.stop /\ v.connected = w.connected /\ v.thread = w.thread
        /\ v.reset = w.reset /\ v.fired = w.fired
    BY <1>0 DEF WorkerState
  <2> HIDE DEF v
  <2>3. /\ worker' \in [Workers -> WorkerState] /\ worker'[cur] = v
        /\ \A j \in Workers : j # cur => worker'[j] = worker[j]
    BY <1>0, <2>1, <2>2, BecomesAt
  <2>4. TypeOK'
    BY <1>0, <2>1, <2>3, AsleepType DEF TypeOK
  <2>5. \A j \in Workers : Sound(worker'[j])
    <3>1. Sound(v)
      BY <1>0, <2>2 DEF Sound, ClockTrue, ResetOwned
    <3> QED BY <2>3, <3>1 DEF Inv, WorkerInv
  <2>6. InTime' /\ OneGauge'
    BY <1>0, <2>1, <2>2, <2>3 DEF InTime, OneGauge, w
  <2> QED BY <2>4, <2>5, <2>6 DEF Inv, WorkerInv
<1>2. CASE StopReturns
  <2> DEFINE v == [w EXCEPT !.connected = FALSE]
  <2>1. /\ Becomes(cur, v) /\ stopping' = "done" /\ join' = 0 /\ gauge' = 0
        /\ lingers' = (lingers \/ w.thread # "over")
        /\ UNCHANGED <<cur, dog, reachable>>
    BY <1>2 DEF StopReturns, w
  <2>2. /\ v \in WorkerState /\ ~v.connected /\ v.thread = w.thread
        /\ v.reset = w.reset /\ v.fired = w.fired
    BY <1>0 DEF WorkerState
  <2> HIDE DEF v
  <2>3. /\ worker' \in [Workers -> WorkerState] /\ worker'[cur] = v
        /\ \A j \in Workers : j # cur => worker'[j] = worker[j]
    BY <1>0, <2>1, <2>2, BecomesAt
  <2>4. TypeOK'
    <3>1. lingers' \in BOOLEAN
      BY <2>1
    <3> QED BY <1>0, <2>1, <2>3, <3>1 DEF TypeOK
  <2>5. \A j \in Workers : Sound(worker'[j])
    <3>1. Sound(v)
      BY <1>0, <2>2 DEF Sound, ClockTrue, ResetOwned
    <3> QED BY <2>3, <3>1 DEF Inv, WorkerInv
  <2>6. InTime'
    BY <2>1 DEF InTime
  <2>7. OneGauge'
    <3>1. CASE lingers'
      BY <3>1 DEF OneGauge
    <3>2. CASE ~lingers'
      <4>1. ~lingers /\ w.thread = "over"
        BY <2>1, <3>2
      <4> QED BY <1>0, <2>1, <2>2, <2>3, <4>1 DEF OneGauge
    <3> QED BY <3>1, <3>2
  <2> QED BY <2>4, <2>5, <2>6, <2>7 DEF Inv, WorkerInv
<1>3. CASE StartWorker
  <2> DEFINE v == Forgotten(w)
             n == cur + 1
  <2>1. /\ stopping = "done" /\ stopping' = "no" /\ cur' = n
        /\ worker' = [worker EXCEPT ![cur] = v, ![n] = Started]
        /\ UNCHANGED <<dog, join, gauge, reachable, lingers>>
    BY <1>3 DEF StartWorker, w
  <2>2. n \in Workers /\ n # cur
    BY <1>0, <1>3, Constants DEF StartWorker, Workers
  <2>3. /\ v \in WorkerState /\ v.stop /\ v.connected = w.connected /\ v.thread = w.thread
        /\ ~v.reset
    <3>1. 1 \in 1 .. MaxBackoff /\ 0 \in 0 .. MaxBackoff /\ 0 \in Age
      BY Constants
    <3> QED BY <1>0, <3>1 DEF Forgotten, New, WorkerState
  <2> HIDE DEF v, n
  <2>4. /\ worker' \in [Workers -> WorkerState] /\ worker'[cur] = v /\ worker'[n] = Started
        /\ \A j \in Workers : j # cur /\ j # n => worker'[j] = worker[j]
    BY <1>0, <2>1, <2>2, <2>3, NewWorkers
  <2>5. TypeOK'
    BY <1>0, <2>1, <2>2, <2>4 DEF TypeOK
  <2>6. \A j \in Workers : Sound(worker'[j])
    <3>1. Sound(v) /\ Sound(Started)
      BY <2>3, NewWorkers DEF Sound, ClockTrue, ResetOwned
    <3> QED BY <2>4, <3>1 DEF Inv, WorkerInv
  <2>7. InTime'
    BY <2>1, <2>2, <2>4, NewWorkers DEF InTime
  <2>8. OneGauge'
    <3> SUFFICES ASSUME ~lingers PROVE OneGauge'
      BY <2>1 DEF OneGauge
    <3>1. v.thread = "over" /\ ~v.connected /\ gauge # 1
      BY <1>0, <2>1, <2>3 DEF OneGauge, w
    <3> QED BY <1>0, <2>1, <2>2, <2>4, <3>1, NewWorkers DEF OneGauge
  <2> QED BY <2>5, <2>6, <2>7, <2>8 DEF Inv, WorkerInv
<1> QED BY <1>1, <1>2, <1>3

LEMMA ClockSteps ==
  ASSUME Inv, CameraChanges \/ Tick \/ UNCHANGED vars
  PROVE  Inv'
<1>0. /\ TypeOK /\ cur \in Workers /\ InTime /\ OneGauge
      /\ \A k \in Workers : Sound(worker[k]) /\ worker[k] \in WorkerState
  BY DogType DEF Inv, WorkerInv, TypeOK
<1>1. CASE Tick
  <2>1. /\ UNCHANGED <<cur, stopping, gauge, reachable, lingers>>
        /\ \A k \in Workers : worker'[k] = TickOf(worker[k])
        /\ stopping = "no" => dog.timer > 0 /\ dog.age = Never
        /\ dog' = IF stopping = "no" THEN [dog EXCEPT !.timer = Less(@)] ELSE dog
        /\ join' = Less(join)
    BY <1>1 DEF Tick
  <2> DEFINE n == Less(dog.timer)
             d == [dog EXCEPT !.timer = n]
  <2>2. n \in 0 .. Period /\ (dog.timer > 0 => n = dog.timer - 1)
    BY <1>0, DogType DEF Less
  <2> HIDE DEF n
  <2>3. /\ d \in [timer : 0 .. Period, age : Age \cup {Never}]
        /\ d.timer = n /\ d.age = dog.age
    BY <1>0, <2>2 DEF TypeOK
  <2>4. dog' = IF stopping = "no" THEN d ELSE dog
    BY <1>0, <2>1 DEF TypeOK, n
  <2> HIDE DEF d
  <2>5. worker' \in [Workers -> WorkerState]
    BY <1>0, <1>1, Ticks DEF Tick
  <2>6. join' \in 0 .. JoinTime
    BY <1>0, <2>1, Constants DEF TypeOK, Less
  <2>7. TypeOK'
    BY <1>0, <2>1, <2>3, <2>4, <2>5, <2>6 DEF TypeOK
  <2>8. \A k \in Workers : Sound(worker'[k])
    <3> SUFFICES ASSUME NEW k \in Workers PROVE Sound(TickOf(worker[k]))
      BY <2>1
    <3> QED BY <1>0, Ticks DEF Sound, ClockTrue, ResetOwned
  <2>9. InTime'
    <3> SUFFICES ASSUME stopping = "no" PROVE InTime'
      BY <2>1 DEF InTime
    <3> DEFINE v == TickOf(worker[cur])
    <3>1. /\ v.stop = worker[cur].stop /\ v.connected = worker[cur].connected
          /\ v.fired = worker[cur].fired /\ v.silence <= worker[cur].silence + 1
          /\ v.silence \in Nat /\ worker'[cur] = v
      BY <1>0, <2>1, Ticks, WorkerFields
    <3> HIDE DEF v
    <3>2. dog'.timer = dog.timer - 1 /\ dog'.age = Never
      BY <2>1, <2>2, <2>3, <2>4
    <3> QED BY <1>0, <2>1, <3>1, <3>2, DogType DEF InTime
  <2>10. OneGauge'
    <3>1. \A k \in Workers : /\ worker'[k].thread = worker[k].thread
                             /\ worker'[k].connected = worker[k].connected
      BY <1>0, <2>1, Ticks
    <3> QED BY <1>0, <2>1, <3>1 DEF OneGauge
  <2> QED BY <2>7, <2>8, <2>9, <2>10 DEF Inv, WorkerInv
<1>2. CASE CameraChanges
  BY <1>2 DEF CameraChanges, Inv, TypeOK, WorkerInv, InTime, OneGauge
<1>3. CASE UNCHANGED vars
  BY <1>3 DEF vars, Inv, TypeOK, WorkerInv, InTime, OneGauge
<1> QED BY <1>1, <1>2, <1>3

LEMMA InvInit == ASSUME Init PROVE Inv
<1>1. /\ worker = [k \in Workers |-> IF k = 1 THEN Started ELSE New]
      /\ cur = 1 /\ dog = Asleep /\ stopping = "no" /\ join = 0 /\ gauge = 0
      /\ reachable \in BOOLEAN /\ lingers = FALSE
  BY DEF Init
<1>2. 1 \in Workers /\ 0 \in 0 .. JoinTime
  BY Constants DEF Workers
<1>3. TypeOK
  BY <1>1, <1>2, NewWorkers, AsleepType DEF TypeOK
<1>4. \A k \in Workers : Sound(worker[k])
  BY <1>1, NewWorkers DEF Sound, ClockTrue, ResetOwned
<1>5. InTime /\ OneGauge
  BY <1>1, <1>2, NewWorkers DEF InTime, OneGauge
<1> QED BY <1>3, <1>4, <1>5 DEF Inv, WorkerInv

LEMMA InvStep == Inv /\ [Next]_vars => Inv'
<1> QED BY DecodeSteps, WatchdogSteps, StopSteps, ClockSteps DEF Next

LEMMA Invariant == Spec => []Inv
<1> QED BY InvInit, InvStep, PTL DEF Spec

(* The backoff stays within its bounds and the watchdog's clock is one     *)
(* that a worker can have shown, through resets, failures to open, stops   *)
(* and replacements (worker.py:152 and :283).                              *)
THEOREM TypeCorrect == Spec => []TypeOK
<1>1. Inv => TypeOK
  BY DEF Inv
<1> QED BY <1>1, Invariant, PTL

(* However frames, reconnects and resets fall between the two steps of the *)
(* watchdog, a connection silent for longer than a stall and one of its    *)
(* periods has been marked as stalled (worker.py:283).                     *)
THEOREM StallNoticed == Spec => []StallIsNoticed
<1>1. Inv => StallIsNoticed
  <2> SUFFICES ASSUME Inv, Serves, Current.connected, Current.silence > Stall + Period
               PROVE  Current.error = "stalled"
    BY DEF StallIsNoticed
  <2>1. TypeOK /\ InTime /\ cur \in Workers /\ ClockTrue(worker[cur])
    BY DEF Inv, WorkerInv, TypeOK, Sound
  <2>2. worker[cur].fired
    BY <2>1, DogType DEF InTime, Serves, Current
  <2> QED BY <2>1, <2>2 DEF ClockTrue, InTime, Serves, Current
<1> QED BY <1>1, Invariant, PTL

(* The connection gauge of a camera agrees with its current worker through *)
(* every replacement whose old thread came to its end in time              *)
(* (worker.py:112 and :152).                                               *)
THEOREM GaugeIsRight == Spec => []GaugeFollows
<1>1. Inv => GaugeFollows
  <2> SUFFICES ASSUME Inv, ~lingers
               PROVE  gauge = 1 <=> \E k \in Workers : worker[k].connected
    BY DEF GaugeFollows
  <2>1. OneGauge /\ cur \in Workers
    BY DEF Inv, WorkerInv, TypeOK
  <2> QED BY <2>1 DEF OneGauge
<1> QED BY <1>1, Invariant, PTL

(* A decode thread leaves a stream without an error only when its worker   *)
(* is stopped or the watchdog acted on this very connection: no reset is   *)
(* carried over to the next one (worker.py:189 and :283).                  *)
THEOREM ResetsHaveCause == Spec => ResetHasCause
<1> DEFINE Caused == \A k \in Workers :
                       /\ worker[k].thread \in {"checking", "reading"}
                       /\ worker'[k].thread = "waiting"
                       => worker[k].stop \/ worker'[k].error = "failed" \/ worker[k].fired
<1>1. ASSUME Inv, [Next]_vars PROVE Caused
  <2>0. TypeOK
    BY <1>1 DEF Inv
  <2>1. ASSUME NEW k \in Workers, DecodeStep(k) PROVE Caused
    <3>1. PICK v \in WorkerState : Becomes(k, v) /\ LeftWithCause(worker[k], v)
      BY <1>1, <2>0, <2>1, DecodeTurns DEF Inv, WorkerInv
    <3>2. worker'[k] = v /\ \A j \in Workers : j # k => worker'[j] = worker[j]
      BY <2>0, <3>1, BecomesAt
    <3> QED BY <3>1, <3>2 DEF LeftWithCause
  <2>2. CASE \A k \in Workers : \/ worker'[k].thread = worker[k].thread
                                \/ worker'[k].thread # "waiting"
    BY <2>2
  <2>3. \A k \in Workers : worker[k] \in WorkerState
    BY <2>0 DEF TypeOK
  <2>4. CASE Watchdog \/ StopRequested \/ StopReturns
    <3>1. cur \in Workers
      BY <2>0 DEF TypeOK
    <3> DEFINE w == worker[cur]
    <3>2. w \in WorkerState
      BY <2>3, <3>1
    <3> HIDE DEF w
    <3>3. \/ worker' = worker
          \/ Becomes(cur, [w EXCEPT !.error = "stalled", !.reset = TRUE,
                                    !.age = 0, !.fired = TRUE])
          \/ Becomes(cur, [w EXCEPT !.stop = TRUE])
          \/ Becomes(cur, [w EXCEPT !.connected = FALSE])
      BY <2>4 DEF Watchdog, WatchdogWakes, WatchdogActs, StopRequested, StopReturns, w
    <3>a. ASSUME NEW v, v.thread = w.thread, Becomes(cur, v)
          PROVE  \A k \in Workers : worker'[k].thread = worker[k].thread
      BY <2>0, <3>1, <3>a DEF TypeOK, Becomes, w
    <3>b. /\ [w EXCEPT !.stop = TRUE].thread = w.thread
          /\ [w EXCEPT !.connected = FALSE].thread = w.thread
          /\ [w EXCEPT !.error = "stalled", !.reset = TRUE,
                       !.age = 0, !.fired = TRUE].thread = w.thread
      BY <3>2 DEF WorkerState
    <3>5. \A k \in Workers : worker'[k].thread = worker[k].thread
      BY <3>3, <3>a, <3>b
    <3> QED BY <2>2, <3>5
  <2>5. CASE StartWorker
    <3> DEFINE v == Forgotten(worker[cur])
               n == cur + 1
    <3>1. worker' = [worker EXCEPT ![cur] = v, ![n] = Started]
      BY <2>5 DEF StartWorker
    <3>2. v.thread = worker[cur].thread
      BY DEF Forgotten, New
    <3> HIDE DEF v, n
    <3>3. \A k \in Workers : \/ worker'[k].thread = worker[k].thread
                             \/ worker'[k].thread # "waiting"
      BY <2>0, <3>1, <3>2, NewWorkers DEF TypeOK
    <3> QED BY <2>2, <3>3
  <2>6. CASE Tick
    BY <2>2, <2>3, <2>6, Ticks DEF Tick
  <2>7. CASE CameraChanges \/ UNCHANGED vars
    BY <2>2, <2>7 DEF CameraChanges, vars
  <2> QED BY <1>1, <2>1, <2>4, <2>5, <2>6, <2>7 DEF Next
<1>2. Inv /\ [Next]_vars => [Caused]_vars
  BY <1>1
<1> QED BY <1>2, Invariant, PTL DEF Spec, ResetHasCause

===============================================================================
