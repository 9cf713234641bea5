------------------------------- MODULE Worker -------------------------------
(***************************************************************************)
(* The workers of one camera (ingest/worker.py): the decode thread that    *)
(* opens the stream, reads it and opens it again; the watchdog task that   *)
(* forces a reset when frames stop; stop(), and the supervisor that        *)
(* replaces a worker.  Threads run at once: a watchdog reads the clock of  *)
(* the last frame and acts on it in two steps, the decode thread sets the  *)
(* connection up in two.  A thread that stop() could not join goes on      *)
(* beside the next worker's.                                               *)
(*                                                                         *)
(* Time passes in ticks, and only while every thread and task waits for    *)
(* something: a sleep, or the stream.                                      *)
(***************************************************************************)
EXTENDS Naturals

CONSTANTS
    Stall,       \* stall_timeout
    Period,      \* the watchdog's sleep
    MaxBackoff,  \* max_backoff
    JoinTime,    \* how long stop() waits for the thread
    MaxWorkers   \* bound on the workers the camera is given

ASSUME WorkerAssumption ==
    /\ Stall \in Nat \ {0} /\ Period \in Nat \ {0}
    /\ MaxBackoff \in Nat \ {0} /\ JoinTime \in Nat
    /\ MaxWorkers \in Nat \ {0}

VARIABLES
    worker,     \* the CameraWorker objects
    cur,        \* supervisor.workers[camera]
    dog,        \* its watchdog task
    stopping,   \* its stop(): "no", "joining" or "done"
    join,       \* ticks for which stop() goes on waiting
    gauge,      \* metrics.CAMERA_UP
    reachable,  \* the stream can be opened
    lingers     \* history: a thread outlived its stop()

vars == <<worker, cur, dog, stopping, join, gauge, reachable, lingers>>

Workers == 1 .. MaxWorkers
Longest == Stall + Period + 1   \* times from here on are not told apart
Never == Longest + 1            \* last_frame_monotonic is None
Age == 0 .. Longest             \* ticks since an instant

(* `age` is what the clock of the last frame says, `silence` the truth: the *)
(* time since the connection was made or gave a frame.  `fired` records    *)
(* that the watchdog has acted on this connection.                         *)
WorkerState ==
    [thread : {"new", "starting", "opening", "clearing", "checking", "reading",
               "waiting", "over"},
     stop : BOOLEAN, reset : BOOLEAN, connected : BOOLEAN,
     error : {"none", "failed", "stalled"}, age : Age \cup {Never},
     backoff : 1 .. MaxBackoff, wait : 0 .. MaxBackoff,
     silence : Age, fired : BOOLEAN]

TypeOK ==
    /\ worker \in [Workers -> WorkerState]
    /\ cur \in Workers
    /\ dog \in [timer : 0 .. Period, age : Age \cup {Never}]
    /\ stopping \in {"no", "joining", "done"}
    /\ join \in 0 .. JoinTime
    /\ gauge \in {0, 1}
    /\ reachable \in BOOLEAN /\ lingers \in BOOLEAN

New == [thread |-> "new", stop |-> FALSE, reset |-> FALSE, connected |-> FALSE,
        error |-> "none", age |-> Never, backoff |-> 1, wait |-> 0,
        silence |-> 0, fired |-> FALSE]

(* start(): the thread goes to its first source, the watchdog to sleep.    *)
Started == [New EXCEPT !.thread = "starting"]
Asleep == [timer |-> Period, age |-> Never]

Init ==
    /\ worker = [k \in Workers |-> IF k = 1 THEN Started ELSE New]
    /\ cur = 1
    /\ dog = Asleep
    /\ stopping = "no" /\ join = 0
    /\ gauge = 0
    /\ reachable \in BOOLEAN
    /\ lingers = FALSE

-----------------------------------------------------------------------------
(* The decode thread of worker k.                                          *)

Becomes(k, w) == worker' = [worker EXCEPT ![k] = w]

(* source_factory builds the URL from the camera's settings, outside the   *)
(* try.  They do not change while the worker lives: it raises on the first *)
(* round, which ends the thread, or never.                                 *)
SourceMade(k) ==
    /\ worker[k].thread = "starting"
    /\ \E next \in {"opening", "over"} :
          Becomes(k, [worker[k] EXCEPT !.thread = next])
    /\ UNCHANGED <<cur, dog, stopping, join, gauge, reachable, lingers>>

(* After a wait, or at the head of the loop: go on unless stopped.         *)
Loops(w) == IF w.stop THEN "over" ELSE "opening"

(* Mutant: without a limit.                                                *)
Doubled_Unbounded(n) == 2 * n

Doubled(n) == IF 2 * n < MaxBackoff THEN 2 * n ELSE MaxBackoff

(* The failure is recorded; the thread waits for between half the backoff  *)
(* and all of it, not at all when it is stopped.                           *)
OpenFails(k) ==
    LET w == worker[k] IN
    /\ w.thread = "opening" /\ ~reachable
    /\ \E delay \in 1 .. w.backoff :
          /\ 2 * delay >= w.backoff
          /\ Becomes(k, [w EXCEPT !.connected = FALSE, !.error = "failed",
                                  !.thread = "waiting", !.wait = delay,
                                  !.backoff = Doubled(@)])
    /\ gauge' = 0
    /\ UNCHANGED <<cur, dog, stopping, join, reachable, lingers>>

(* _mark_connected.                                                        *)
Connected(w) == [w EXCEPT !.connected = TRUE, !.error = "none", !.age = 0,
                          !.silence = 0, !.fired = FALSE]

OpenSucceeds(k) ==
    LET w == worker[k] IN
    /\ w.thread = "opening" /\ reachable
    /\ Becomes(k, [Connected(w) EXCEPT !.thread = "clearing"])
    /\ gauge' = 1
    /\ UNCHANGED <<cur, dog, stopping, join, reachable, lingers>>

(* source.close() and the pause after it (0.5 s: a tick at most).          *)
Closed(w) == [w EXCEPT !.connected = FALSE, !.thread = "waiting", !.wait = 1]

(* Mutant: the reset of the last connection stays.                         *)
ResetCleared_Kept(w) == [w EXCEPT !.backoff = 1]

ResetCleared(w) == [w EXCEPT !.backoff = 1, !.reset = FALSE]

(* Mutant: a read loop that does not look at the reset flag.               *)
ReadOn_Deaf(w) == ~w.stop

(* Mutant: a read loop that does not look at the stop flag.                *)
ReadOn_Unstoppable(w) == ~w.reset

(* The condition of _read_until_error's loop.                              *)
ReadOn(w) == ~w.stop /\ ~w.reset

Clear(k) ==
    /\ worker[k].thread = "clearing"
    /\ Becomes(k, [ResetCleared(worker[k]) EXCEPT !.thread = "checking"])
    /\ UNCHANGED <<cur, dog, stopping, join, gauge, reachable, lingers>>

(* Mutant: only a failure turns the gauge off.                             *)
LoopRound_KeepsGauge(k) ==
    LET w == worker[k] IN
    /\ w.thread = "checking"
    /\ Becomes(k, IF ReadOn(w) THEN [w EXCEPT !.thread = "reading"] ELSE Closed(w))
    /\ UNCHANGED <<cur, dog, stopping, join, gauge, reachable, lingers>>

(* The read loop goes round, or ends.                                      *)
LoopRound(k) ==
    LET w == worker[k] IN
    /\ w.thread = "checking"
    /\ IF ReadOn(w)
       THEN Becomes(k, [w EXCEPT !.thread = "reading"]) /\ UNCHANGED gauge
       ELSE Becomes(k, Closed(w)) /\ gauge' = 0
    /\ UNCHANGED <<cur, dog, stopping, join, reachable, lingers>>

(* Mutant: a read that returns None counts as a frame.                     *)
Seen_AlsoNone(w, image) == [w EXCEPT !.age = 0, !.silence = IF image THEN 0 ELSE @]

(* A frame sets its clock; what becomes of it is Inference's matter.       *)
Seen(w, image) == IF image THEN [w EXCEPT !.age = 0, !.silence = 0] ELSE w

(* source.read() returns a frame or None, or raises.                       *)
ReadReturns(k) ==
    LET w == worker[k] IN
    /\ w.thread = "reading"
    /\ \/ /\ \E image \in BOOLEAN :
                Becomes(k, [Seen(w, image) EXCEPT !.thread = "checking"])
          /\ UNCHANGED gauge
       \/ /\ Becomes(k, Closed([w EXCEPT !.error = "failed"]))
          /\ gauge' = 0
    /\ UNCHANGED <<cur, dog, stopping, join, reachable, lingers>>

(* _stop.wait returns: the time is up, or the worker is stopped.           *)
WaitEnds(k) ==
    LET w == worker[k] IN
    /\ w.thread = "waiting" /\ (w.wait = 0 \/ w.stop)
    /\ Becomes(k, [w EXCEPT !.thread = Loops(w), !.wait = 0])
    /\ UNCHANGED <<cur, dog, stopping, join, gauge, reachable, lingers>>

-----------------------------------------------------------------------------
(* The watchdog task, and stop() and replacement by the supervisor.        *)

(* It wakes and reads the clock of the last frame.                         *)
WatchdogWakes ==
    /\ stopping = "no" /\ dog.timer = 0 /\ dog.age = Never
    /\ dog' = IF worker[cur].age = Never THEN Asleep
              ELSE [dog EXCEPT !.age = worker[cur].age]
    /\ UNCHANGED <<worker, cur, stopping, join, gauge, reachable, lingers>>

Stalled(w, age) == w.connected /\ age > Stall

(* On what it read it acts, or not, and goes back to sleep.                *)
WatchdogActs ==
    LET w == worker[cur] IN
    /\ stopping = "no" /\ dog.age # Never
    /\ IF Stalled(w, dog.age)
       THEN Becomes(cur, [w EXCEPT !.error = "stalled", !.reset = TRUE,
                                   !.age = 0, !.fired = TRUE])
       ELSE UNCHANGED worker
    /\ dog' = Asleep
    /\ UNCHANGED <<cur, stopping, join, gauge, reachable, lingers>>

(* stop() up to the join; the watchdog is cancelled.                       *)
StopRequested ==
    /\ stopping = "no"
    /\ stopping' = "joining" /\ join' = JoinTime
    /\ Becomes(cur, [worker[cur] EXCEPT !.stop = TRUE])
    /\ dog' = Asleep
    /\ UNCHANGED <<cur, gauge, reachable, lingers>>

(* The join returns: the thread is over or the time is up.                 *)
StopReturns ==
    LET w == worker[cur] IN
    /\ stopping = "joining"
    /\ w.thread = "over" \/ join = 0
    /\ stopping' = "done" /\ join' = 0
    /\ lingers' = (lingers \/ w.thread # "over")
    /\ Becomes(cur, [w EXCEPT !.connected = FALSE])
    /\ gauge' = 0
    /\ UNCHANGED <<cur, dog, reachable>>

(* Of the old worker only its thread, and what that still sets, matter.    *)
Forgotten(w) == [New EXCEPT !.thread = w.thread, !.stop = TRUE,
                            !.connected = w.connected]

(* The camera, edited or enabled again, gets a new worker.                 *)
StartWorker ==
    /\ stopping = "done" /\ cur < MaxWorkers
    /\ stopping' = "no"
    /\ cur' = cur + 1
    /\ worker' = [worker EXCEPT ![cur] = Forgotten(@), ![cur + 1] = Started]
    /\ UNCHANGED <<dog, join, gauge, reachable, lingers>>

-----------------------------------------------------------------------------
(* The camera and the clock.                                               *)

CameraChanges ==
    /\ reachable' = ~reachable
    /\ UNCHANGED <<worker, cur, dog, stopping, join, gauge, lingers>>

Older(age) == IF age < Longest THEN age + 1 ELSE age
Less(n) == IF n = 0 THEN 0 ELSE n - 1

Waits(w) == \/ w.thread \in {"new", "opening", "reading", "over"}
            \/ w.thread = "waiting" /\ w.wait > 0 /\ ~w.stop

(* The clocks of a worker that is stopped are read by nobody.              *)
TickOf(w) ==
    IF w.stop THEN w
    ELSE [w EXCEPT !.age = Older(@), !.silence = Older(@), !.wait = Less(@)]

Tick ==
    /\ \A k \in Workers : Waits(worker[k])
    /\ stopping = "no" => dog.timer > 0 /\ dog.age = Never
    /\ stopping = "joining" => worker[cur].thread # "over" /\ join > 0
    /\ worker' = [k \in Workers |-> TickOf(worker[k])]
    /\ dog' = IF stopping = "no" THEN [dog EXCEPT !.timer = Less(@)] ELSE dog
    /\ join' = Less(join)
    /\ UNCHANGED <<cur, stopping, gauge, reachable, lingers>>

(* What the decode thread does by itself, or within a timeout.             *)
OwnStep(k) ==
    \/ SourceMade(k)
    \/ OpenFails(k)
    \/ OpenSucceeds(k)
    \/ Clear(k)
    \/ LoopRound(k)
    \/ WaitEnds(k)

DecodeStep(k) == OwnStep(k) \/ ReadReturns(k)

Watchdog == WatchdogWakes \/ WatchdogActs

Next ==
    \/ \E k \in Workers : DecodeStep(k)
    \/ Watchdog
    \/ StopRequested \/ StopReturns \/ StartWorker
    \/ CameraChanges
    \/ Tick

(* Threads and tasks are scheduled, an open ends within its timeout, and   *)
(* time goes on whatever they do.  Nothing makes a read return: read()     *)
(* asks the decoder for the next frame of the video stream, and as long as *)
(* packets of other streams arrive no timeout ends it (sources.py:82-90).  *)
Spec ==
    /\ Init /\ [][Next]_vars
    /\ \A k \in Workers : WF_vars(OwnStep(k))
    /\ WF_vars(Watchdog) /\ WF_vars(StopReturns) /\ SF_vars(Tick)

-----------------------------------------------------------------------------
Serves == stopping = "no"
Current == worker[cur]

(* A connection that has been silent for a stall and one period of the     *)
(* watchdog carries the error "stalled", whatever the resets, reconnects   *)
(* and the watchdog did to the clock it is measured with                   *)
(* (worker.py:283-303).                                                    *)
StallIsNoticed ==
    Serves /\ Current.connected /\ Current.silence > Stall + Period
       => Current.error = "stalled"

(* The reset of one connection never tears down the next one: a stream is  *)
(* left without an error only when stopped, or when the watchdog acted     *)
(* since it was connected (worker.py:176, 199, 299).                       *)
ResetHasCause ==
    [][\A k \in Workers :
          /\ worker[k].thread \in {"checking", "reading"}
          /\ worker'[k].thread = "waiting"
          => worker[k].stop \/ worker'[k].error = "failed" \/ worker[k].fired]_vars

(* The gauge tells whether the camera of the current worker is connected,  *)
(* unless a thread outlived its stop().                                    *)
GaugeFollows ==
    ~lingers => (gauge = 1) = (\E k \in Workers : worker[k].connected)

(* The thread is in a read.                                                *)
Blocked(w) == w.thread = "reading"

(* The camera's URL cannot be built: the thread ended on its first round.  *)
NoSource == Current.thread = "over" /\ Current.error = "none" /\ Current.age = Never

(* The camera recovers: a stream whose reads return does not stay silent   *)
(* for ever, frames come or the watchdog has it closed; and while the      *)
(* camera can be reached the worker is connected again and again, whatever *)
(* its backoff became.                                                     *)
Recovers ==
    /\ []<>(~Current.connected \/ Current.silence = 0) \/ <>[]Blocked(Current)
    /\ <>[](Serves /\ reachable) => []<>Current.connected \/ <>[]NoSource

(* A stopped thread comes to its end, also when stop() gave up on it; only *)
(* a read that never returns keeps it (worker.py:122).                     *)
StopEnds ==
    \A k \in Workers : (worker[k].stop ~> worker[k].thread = "over") \/ <>[]Blocked(worker[k])

-----------------------------------------------------------------------------
(* What the program says of itself and does not keep.                      *)

(* "It is torn down and reopened, and /api/ready reports it as degraded    *)
(* meanwhile" (README.md:438-440).                                         *)
Ready == Current.connected /\ Current.age <= Stall
DegradedMeanwhile == Serves /\ Current.connected /\ Current.silence > Stall => ~Ready

(* "If no frame arrives within the stall timeout, tear the connection down *)
(* and reopen" (worker.py:15): what the watchdog has reset is closed.      *)
StalledIsTornDown ==
    \A k \in Workers : worker[k].fired ~> ~worker[k].connected

(* "Force a reconnect when a connected stream stops delivering frames"     *)
(* (worker.py:284): the stream it resets has been silent for a stall.      *)
ResetHitsStalled ==
    [][\A k \in Workers :
          ~worker[k].reset /\ worker'[k].reset => worker[k].silence > Stall]_vars

(* The gauge is 1 when the camera stream is connected (metrics.py:18),     *)
(* whatever became of the camera's earlier workers.                        *)
GaugeIsCurrent == Serves => (gauge = 1) = Current.connected
=============================================================================
