# FiremeX in TLA+

FiremeX watches CCTV streams for fire and smoke, confirms what the detector
sees over several frames, and telephones a chain of people until one of them
acknowledges. This directory holds TLA+ models of the parts of the program
that carry that promise, the TLC runs that check them on small instances, and
TLAPS proofs, for every value of the constants, of all safety properties that
hold in these runs. Everything is translated from the source
(`src/firemex/...`); `PROJECT.json` maps each definition to the lines it models.

## 1. Inventory

The program is one asyncio process. Blocking work (FFmpeg, the detector, SQL,
Twilio's client) runs in threads. The event loop switches tasks only at an
`await`, so the models take *the code between two awaits* as one action.

| Component | Source | State | Operations | Hard behaviour | Module |
|---|---|---|---|---|---|
| Alert dispatcher | `notify/dispatcher.py` | one task and one `DispatchRun` per incident, `shadow_mode` | dispatch, cancel, acknowledge, shutdown, run | acknowledgement, cancel, close and shutdown meet a run at any of 13 awaits; requests outlive a cancelled task | `Dispatcher` |
| Acknowledgement bus | `notify/base.py` | who acknowledged, the event a waiter waits on | acknowledge, wait, forget | the wait times out in the tick the event is set; `forget` unlinks the event under a waiter | `Dispatcher` |
| Cooldown | `notify/base.py` | last alert per camera (memory or Redis) | should_alert | two runs check at once; Redis raises | `Dispatcher` |
| Channels | `notify/twilio_voice.py`, `webhook.py` | none | call, sms, broadcast | a thread that nobody can cancel | `Dispatcher` (environment) |
| Incident engine | `incident/engine.py` | per camera: window, state, incident, suppression | observe, cancel, reconfigure, remove | long legal sequences: stall, dismiss, edit, resume | `CameraEngine` |
| Zones and boxes | `incident/zones.py`, `detect/base.py` | none | overlap, IoU, envelope, area | boundaries of comparisons | `CameraEngine` |
| Supervisor | `supervisor.py` | workers, inference service, engine, site | handle event, cancel incident, reload, start, stop | three awaits between an opened incident and its dispatch; reloads interleave | `Pipeline`, `Inference`, `ConfigReload` |
| Incident store | `store.py`, `models.py` | SQL rows | save, update, close, evidence, record run | calls run in threads, in any order, and may fail | `Pipeline`, `Accounts` |
| Camera worker | `ingest/worker.py` | frame queue, consumer and watchdog tasks, decode thread | start, stop, sample, consume | watchdog, reset and reconnect race; a thread outlives its join; its consumer is cancelled inside the event handler | `Worker`, `Pipeline`, `Inference` |
| Inference service | `detect/service.py` | job queue, batch, futures | submit, collect, predict, start, stop | stopped with jobs collected but unanswered | `Inference` |
| Accounts and sessions | `auth.py`, `store.py`, `api/routes_auth.py`, `api/routes_users.py` | users, sessions, failed logins | login, logout, user edits | last administrator, lockout, revocation, each a check in one thread and a write in another | `Accounts` |
| Configuration | `config.py`, `api/routes_config.py` | the YAML file, `supervisor.site` | load, validate, edit, reload | edits start from memory, reloads interleave, a model fails to load | `ConfigReload` |
| Sources, detectors | `ingest/sources.py`, `detect/` | none | open, read, close; build | any call may fail or block | outcomes in `Worker`, `ConfigReload` |
| Recorder, ring buffer, event bus, HTTP, CLI, metrics, dashboard | see `PROJECT.json` | | | I/O, formatting | not modelled, or as the environment |

How they interact: the worker's decode thread hands sampled frames to its
consumer task, which submits them to the inference service and passes the
result to the engine; events of the engine are handled *in the consumer task*
(`Supervisor._handle_event`), which writes the store, takes a snapshot and
calls `dispatcher.dispatch`. The dispatcher's tasks run on their own. Operators
reach the supervisor through HTTP (cancel, config edits and reload), contacts
reach the bus through Twilio's callback, and the engine's CLOSED event makes
the supervisor drop the bus's state.

What makes each part correct:
* dispatcher: one run per incident, each contact tried as often as configured,
  stopped by an acknowledgement or a cancel, quiet under cooldown and shadow
  mode, always over in the end, with a truthful outcome;
* engine: incidents only on evidence, no missed fire, no re-alert of a
  dismissed scene, one incident per fire, every incident closed;
* pipeline: what the engine opens is recorded and dispatched, what is cancelled
  does not ring, the store agrees with the engine once everything has settled;
* inference: every submitted frame answered once, in order, no camera lost;
* worker: a silent stream is noticed, torn down and opened again, a stopped
  thread ends;
* configuration: what runs is what the site asks for, and detection resumes
  after a model change;
* accounts: an administrator remains, a lock holds, and a session does not
  outlive the password it was opened with.

## 2. Modules

**`Dispatcher`** — the task of incident `i` is the record `task[i]`; `pc` names
the await it is suspended at, `status` and `by` are the `DispatchRun`, `pos`
and `tries` the loop indices of `_execute` and `_try_contact`, `waiter` the
`asyncio.Event` (linked to the bus, orphaned by `forget`, or set), `request`
the provider thread. `cancelling` is asyncio's pending cancellation. One action
resumes a task at each await (`Begin`, `Broadcasted`, `CooldownAnswered`, ...);
the provider's thread may make the phone ring before its client returns or
raises (`PhoneRings`), or never end. `Acknowledge`, `Cancel`, the closing of an
incident (`Forget`), the lapse of a cooldown, a shadow-mode flip, an outage of
Redis, and shutdown are the environment, switched by `Env`. The constants carry the weakest assumptions the
configuration validation gives (`ConstantsAssumption`). `MCDispatcher` supplies
staff, chains and retry counts.

**`CameraEngine`** — one `CameraIncidentEngine` with `IncidentEngine`'s
add/remove/reconfigure. The picture is a row of cells and a box an interval,
so overlap, IoU, envelope and union area are computed as in the code, by
cross-multiplication in percent, and zone exclusion by the centres of seven
columns of the box, one dimension of the code's grid of 49; `Observe` is the whole of
`observe()`: filtering, window, confirmation, severity, closing, suppression.
The growth ratio that may raise the severity is an input. `seen` (the last
frames of the camera, each with the configuration in force when it came),
`dismissed` and `fresh` are history variables for the properties.
`MCCameraEngine` has the views and configurations.

**`Pipeline`** — one camera's consumer inside `_handle_event`, the operator's
`cancel_incident`, the worker part of `reload_config`, and the store as a set
of jobs that run in any order, may raise, and run on when the task awaiting
them is cancelled. The engine is reduced to the open incident, a run to whether
it can ring. The clip task is a late store job.

**`Inference`** — frame queue and consumer of each worker, the service's queue,
batch and futures, replacement of a worker and of the service.

**`Escalation`** — what the dispatcher promises, without tasks, awaits,
attempts, requests or waiting: a run is pending, alerting, ending or over, goes
along the chain from one reachable contact to the next and never back while
nobody has answered, rings only the contact it has reached, ends with an
outcome its history justifies, and only the holder of a camera's window gets
past the cooldown. `Dispatcher` implements it under the mapping `Promised`
(a run's phase is read off its await, `reached` off its position) as
`KeepsPromise`. The refinement says at once that shadow and suppressed runs are
quiet, that a run's acknowledger is somebody whose phone rang, and that a run
gives up only at the end of its chain with nobody having answered.

**`Worker`** — one camera's decode thread, watchdog and `stop()`, and the
supervisor replacing the worker. Threads run at once, so an action is what the
thread does between two effects others can see: `_mark_connected` and the
clearing of `_reset` are two, and so are the watchdog's reading of the clock
and its acting on it. `age` is what `last_frame_monotonic` says, `silence` the
truth. A thread whose camera's URL cannot be built ends on its first round
(`SourceMade`: the factory is called outside the `try`), and a read need never
return. A thread that `stop()` could not join stays beside its successor; the
gauge `CAMERA_UP` is shared by both. Time advances in ticks while everything
waits.

**`ConfigReload`** — the YAML file, the supervisor's site, detector state,
inference service and workers. Up to the first await of `reload_config` a
request runs without a switch of tasks, so edit, write, reading back and
reconfiguration are one action (`Persist`); from there `ServiceStopped`,
`ServiceWarm`, `WarmUpFails`, `ServiceRestored`, `RestoreFails` and
`WorkerStopped` are the awaits of `_restart_inference` and of the loop over the
workers, and two requests interleave at them. Hand edits, stop, crash and
restart are actions. A stop finds no request under way: `uvicorn.run`
(`cli.py:168`) sets no limit to a graceful shutdown, so the server waits for its
requests before the lifespan stops the supervisor; a server forced to exit is a
crash.

**`Accounts`** — the rows of users and sessions and, per browser, the request
it has under way: every store call is one action (a thread with its own
transaction), what a request read before is kept in `seen`. `authenticate` and
`delete_user` read and write in two steps, because SQLite's transaction begins
with the write; `update_user` is one. SQLAlchemy writes back only the columns
that changed, so a lost update is one of `failed_logins` or of the lock.
Usernames are not used again once deleted (rows are found by id).

Modelled for Python 3.12 (`wait_for` may time out although the event was set; a
cancel is raised at the await). Where the models are wider than the code: every
await may suspend (a broadcast with no URLs does not), a contact whose phone
rang may press 1 at any later time, a read of a stream may block for ever (a
decoder that skips audio packets does), and any build of a detector may fail in
passing. Where they are narrower: one cancel per incident and one reload at a
time in `Pipeline`; the handling of a result is one step in `Inference` (its
interior is `Pipeline`); a camera's settings in `ConfigReload` are those of its
entry in the file, without the site's timezone, which a worker captures when it
is made (`supervisor.py:217`) and only writes into its frames; the loop over the workers in `ConfigReload` leaves
their order open but stops one camera's worker as one step (its interior is
`Worker`).

## 3. Runs

Passing runs (distinct states in brackets):

* `DispatcherRun` [93k] — two incidents of one camera race through the Redis
  cooldown into a chain of four contacts that covers every combination of
  channels (none, both with a retry, sms, call). `OneSequencePerWindow`,
  `ExhaustedTriedEveryone`, `RecordedUnlessCancelled`, the refinement
  `KeepsPromise`, `AckStopsEscalation`, `CancelIsFinal` and, under fairness,
  `EveryRunEnds`: a run ends or hangs for ever in one request to Redis or
  Twilio, and a cancel ends one that hangs. Two runs suffice for a race for one
  claim; the theorem covers any number.
* `DispatcherFails` [6k] — the in-memory cooldown, no grace period, a voice
  template that raises, lapsing windows, shadow mode toggled at any moment and
  a camera with an empty chain: runs still end, unless Twilio never answers.
* `EngineRun` [273k] — smoke and a stove, detections that do not count,
  dismissals, and at any moment an edit, or a removal (it does not count as the
  edit) and a re-adding, among three configurations: two of four, four of five
  with an excluded zone, five of five with a `min_box_area` that leaves the
  smoke out. `FireIsCritical`, `OpensOnEvidence`, `DismissalHolds`,
  `QuietCameraCloses` and `FireIsReported` (liveness). The windows are long
  enough to be full and partly stale, an incident clears after two or three
  units of time, and one gap between frames may be two of them, as long as a
  clearing time; one edit gives every pair of configurations.
* `PipelineRun` [472k] — two incidents, cancels at any await (also before the
  record exists), and one mishap: a raising store call, a reload that restarts,
  disables or removes the camera, or a crash. `SettledStoreMatchesEngine`,
  `ForgottenIsClosed`, `DispatchLostOnlyByFault` (liveness), `CancelStopsRun`.
  The same holds of one incident with two mishaps (`MaxIncidents` 1,
  `MaxMishaps` 2: 15k states).
* `InferenceRun` [272k] — two cameras, batches and queues of two, four frames,
  two restarts of workers or service: both queues fill, frames are dropped,
  batches are partial, complete and empty after cancellations. `PendingIsHeld`,
  `DecidedOnce`, `ResultsInOrder`, `EveryFrameAnswered`.
* `AccountsRun` [477k] — three accounts, two of them founding administrators,
  two browsers, three requests and one crash, expiry or lapse:
  `AdminLostOnlyByRace`, `SessionsRevoked`, `LockHolds`. Two requests make any
  race of the code (all its checks are of one row or one count); the third
  meets its outcome.
* `ReloadRun` [791k] — two cameras, two requests at a time and three in all, a
  model that never loads, one hand edit, crash or passing failure:
  `RegisteredRuns`, `DetectorFollowsConfig` (one service runs, for the site's
  model unless its build failed; none only if the fallback failed as well),
  `WorkersFollowConfig`, `DetectionResumes` (liveness).
* `WorkerRun` [71k] — a stall of three ticks, a watchdog period of one, backoff
  up to three, a join of one, two workers: the thread may be in any state when
  the watchdog wakes, when it is stopped and when its successor starts.
  `StallIsNoticed`, `GaugeFollows`, `ResetHasCause`, `Recovers` and `StopEnds`
  (liveness; both but for a read that never returns).

Each run expected to be violated shows one disagreement between the code and
its own words; `PROJECT.json` quotes the line.

| Run | What the code does |
|---|---|
| `FindLostAck` | closing the incident forgets an unread acknowledgement; the chain goes on although the contact heard "Escalation stopped" |
| `FindCancelRings` | a cancel between OPENED and dispatch finds nothing to stop; the phone rings afterwards |
| `FindDeadConsumer` | a model change cancels a job and ends the consumer that awaits it |
| `FindReadyStall` | the watchdog resets the clock that readiness reads: a silent camera counts as healthy while its thread is still blocked in the read |

What the properties of the passing runs except is stated as a property too, at
the end of each module ("What the program says of itself and does not keep"),
in the words of the line it quotes. These configurations are not part of the
regular runs; each ends with TLC's counterexample
(`tlc -config FindSpentWindow.cfg MCDispatcher`):

| Configuration (module) | Property | The words | What the code does |
|---|---|---|---|
| `FindSpentWindow` (`MCDispatcher`) | `SuppressedByAnAlert` | `README.md:228` "2. Wait out `confirm_delay_seconds`" before "3. Check the per-camera cooldown"; `config.py:240` "after one fires" | the cooldown is claimed before the grace period (`dispatcher.py:212`): a dismissed incident suppresses the camera's next one |
| `FindRedisOutage` (`MCDispatcher`) | `OutageStillAlerts` | `supervisor.py:202` "Redis is an optimisation, not a requirement" | Redis failing after the start fails the run, and nobody is called (`base.py:135`); only at the start is there a fallback |
| `FindCallAfterAck` (`MCDispatcher`) | `AckStopsCalls` | `README.md:232` "Stop the instant anyone acknowledges" | a retry, or the first call after an SMS, is placed with no look at the bus (`dispatcher.py:309`) |
| `FindStallReopens` (`MCCameraEngine`) | `ReopenNeedsNewHit` | `config.py:127` "Close an open incident after this long with no qualifying detection" | after a gap of the clearing time the incident closes, and the hits left in the window open it again on the next frame (`engine.py:412`) |
| `FindStaleZones` (`MCCameraEngine`) | `ZonesAreIgnored` | `config.py:159` polygons "whose interiors are ignored"; `engine.py:570` "swap tuning in place" | zones drawn while an incident is open do not come into force, also not for later incidents (`engine.py:571`) |
| `FindForgottenDismissal` (`MCCameraEngine`) | `DismissedUntilQuiet` | `engine.py:250` "Suppresses re-confirmation until the camera goes quiet" | an edit replaces the engine and forgets the dismissal while the scene is still there (`engine.py:573`) |
| `FindHungCaller` (`Inference`) | `NoCallerHangs` | `service.py:76` "so no caller is left hanging on shutdown" | stopping the service while it gathers a batch leaves the batch's submitters waiting for ever (`service.py:163`) |
| `FindNoAdmin` (`MCAccounts`) | `AdminRemains` | `README.md:568` "refusing to remove the last administrator" | two administrators remove each other, each counting the other one (`store.py:451`) |
| `FindLateLogin` (`MCAccounts`) | `SessionsFollowPassword` | `README.md:156` sessions "are dropped on password change" | a login that verified the old password opens its session after the revocation (`routes_auth.py:68`) |
| `FindCrashedRevocation` (`MCAccounts`) | `SessionsFollowPassword` | `routes_users.py:129` "should take effect immediately, not at session expiry" | a crash between the new password and the revocation leaves the old sessions valid (`routes_users.py:131`) |
| `FindNotRolledBack` (`ConfigReload`) | `RollsBack` | `routes_config.py:262` "rolled back to the previous working detector"; `supervisor.py:457` "restoring the previous one" | after a failed build the environment's model runs, not the one that ran before (`supervisor.py:460`) |
| `FindDrift` (`ConfigReload`) | `HandEditsSurvive` | `routes_config.py:4`, `README.md:250` "a UI change and a hand-edit cannot drift apart" | a dashboard edit writes over a hand edit that was not reloaded (`routes_config.py:86`) |
| `FindOverlap` (`ConfigReload`) | `CamerasAreApplied` | `README.md:250` "written back to that file, and applied by reloading" | a camera disabled and enabled again during the stop of its worker is left without one (`supervisor.py:409`) |
| `FindStaleModel` (`ConfigReload`) | `ModelIsApplied` | the same | a model chosen and taken back during the rebuild runs on, under the fingerprint of the other (`supervisor.py:471`) |
| `FindStallStays` (`Worker`) | `StalledIsTornDown` | `worker.py:14` "tear the connection down and reopen"; `README.md:438` "It is torn down and reopened" | a blocked read does not see the watchdog's reset: the silent connection is never closed (`worker.py:195`) |
| `FindFreshReset` (`Worker`) | `ResetHitsStalled` | `worker.py:284` "Force a reconnect when a connected stream stops delivering frames" | the watchdog acts on a clock it read before the reconnect and resets the new stream (`worker.py:287`) |
| `FindGaugeLies` (`Worker`) | `GaugeIsCurrent` | `metrics.py:18` "1 when the camera stream is connected" | a thread that outlived its stop sets the gauge of its connected successor to 0 (`worker.py:124`) |

The passing properties name their exceptions, and those are behaviours to know
of; most of them are what one of the configurations above exhibits:

* a call in flight when a run is cancelled is not recorded
  (`RecordedUnlessCancelled`; `twilio_voice.py:109`), and one whose phone rang
  before the client raised is recorded as failed;
* `AckStopsEscalation` speaks of the position in the chain, not of attempts
  (`FindCallAfterAck`);
* a request to Redis or Twilio that is never answered hangs its run
  (`Unanswered` in `EveryRunEnds`; `supervisor.py:200`, `twilio_voice.py:83`,
  `148` set no timeout);
* a stop inside `_collect_batch` leaves its submitters waiting
  (`EveryFrameAnswered`; `FindHungCaller`);
* a store error, a reload that stops the worker inside the handler, or a crash
  loses an escalation run, and the engine, which keeps the open incident, does
  not announce it again (`DispatchLostOnlyByFault`, `cut`; `worker.py:115`); a
  cancel that finds no record yet leaves one open (`early`); removing or
  disabling a camera leaves its record open (`engine.py:563`);
* an edit that keeps the engine leaves the zones and the length of the window
  as they were built: with `frames_required` raised above that length during
  an open incident the camera never confirms again (`UpToDate` in
  `OpensOnEvidence` and `FireIsReported`; `FindStaleZones`); it also leaves in
  the window what was counted by the old thresholds, so an incident may open,
  and a dismissal last, on detections that no longer count (`Counted` takes
  each frame by the configuration of its time); `DismissalHolds` ends with the
  engine (`FindForgottenDismissal`);
* `raced` (`FindNoAdmin`), `late` and `unrevoked` (`FindLateLogin`,
  `FindCrashedRevocation`) are what `AdminLostOnlyByRace` and `SessionsRevoked`
  except, and nothing else is;
* two overlapping reloads (`overlapped`) can end in a `KeyError` with the
  worker half reconciled, start a worker for a camera deleted meanwhile, leak a
  running inference service, leave a camera without a worker or install the
  wrong model (`supervisor.py:409-418`, `471`; `FindOverlap`,
  `FindStaleModel`); only `RegisteredRuns` holds throughout;
* after a failed build the fallback runs, whatever ran before
  (`FindNotRolledBack`), and its fingerprint is that of the edited site: the
  model asked for is not tried again by a mere reload, and a bad model path
  stays in the file, so the next start fails (`Start`);
* a thread that outlives its stop may set the gauge of its successor
  (`lingers`; `FindGaugeLies`); a read that never returns keeps its connection
  and its thread (`Blocked` in `Recovers` and `StopEnds`; `FindStallStays`); a
  camera whose URL cannot be built has no decode thread (`NoSource`;
  `worker.py:155`). `ResetHasCause` says that a reset is not carried over to
  the next connection, not that the watchdog hit the right one
  (`FindFreshReset`).

`CHECK_DEADLOCK FALSE` is set where the system may stop: when all incidents,
frames or requests of the instance have been handled. The camera of the engine
and of the worker goes on for ever, and their runs check deadlock.

Fairness: weak fairness of every resumption of a task that the event loop
brings about by itself (it runs what is ready, its timers fire, the webhooks are
posted with a timeout), of store jobs (a call returns or raises), of
`predict()`, of each await of a reload, and of the camera delivering frames in
the engine's liveness runs. Not of the answers of Redis and Twilio: both
clients are built without a timeout (`supervisor.py:200`,
`twilio_voice.py:83`, `148`) and no `wait_for` bounds them. In `Worker` the
watchdog and every step of a decode thread but one are weakly fair, an open
included, which ends within its timeout; a read is not, because
`RtspSource.read` goes on inside FFmpeg while packets of other streams keep
arriving (`sources.py:82-94`). `Tick` is strongly fair, which says that time
passes however often threads are busy in between. Nothing is assumed of people,
of the camera or of the network: no contact need answer, no operator act and no
stream come back (`Recovers` speaks of a stream that stays reachable).

Bounds: `MaxWindow`, `MaxIncidents`, `MaxMishaps`, `MaxEdits`, `MaxGap`, `MaxFrames`,
`MaxChanges`, `MaxRequests`, `MaxEvents`, `MaxFails`, `MaxWorkers` and
`Longest` (beyond which ages are not told apart) are named in the guards;
`Dispatcher` needs none, since incidents are a constant set and attempts are
bounded by `Retries`. `AccountsRun` uses symmetry of the browsers and of the
founders, which no property tells apart, and checks no liveness.

## 4. Proofs

Each theorem holds for every value of the constants that satisfies the
assumptions of its module: any number of incidents, cameras, contacts,
accounts, browsers and frames, any chain, queue length, timeout and set of
events, and any value of the bounds that TLC's instances keep small. The
assumptions are the ones configuration validation gives (`ConstantsAssumption`,
`EngineAssumption`, ...), that the cameras of `ConfigReload` are finitely many,
and that the value standing for "none" is not one of the things it is told
apart from.

Every safety invariant and action property of the passing runs has its theorem:

| Module | Theorems |
|---|---|
| `DispatcherProofs` | `TypeCorrect`, `OneSequence`, `AckStops`, `StopIsFinal`, `NobodyLeftOut` (`ExhaustedTriedEveryone`), `CallsAreRecorded` (`RecordedUnlessCancelled`) |
| `DispatcherRefinement` | `KeepsItsPromise`: `Dispatcher` implements `Escalation` |
| `EngineProofs` | `TypeCorrect`, `FireCounts` (`FireIsCritical`), `DismissedStaysDismissed` (`DismissalHolds`), `EvidenceFirst` (`OpensOnEvidence`) |
| `PipelineProofs` | `TypeCorrect`, `StoreMatches` (`SettledStoreMatchesEngine`), `ForgottenAreClosed` (`ForgottenIsClosed`), `CancelStops` (`CancelStopsRun`) |
| `InferenceProofs` | `TypeCorrect`, `NoJobLost` (`PendingIsHeld`), `JobsDecidedOnce` (`DecidedOnce`), `InOrder` (`ResultsInOrder`) |
| `WorkerProofs` | `TypeCorrect`, `StallNoticed` (`StallIsNoticed`), `GaugeIsRight` (`GaugeFollows`), `ResetsHaveCause` (`ResetHasCause`) |
| `ReloadProofs` | `TypeCorrect`, `RegisteredWorkersRun` (`RegisteredRuns`), `DetectorIsConfigured` (`DetectorFollowsConfig`), `WorkersAreConfigured` (`WorkersFollowConfig`) |
| `AccountsProofs` | `TypeCorrect`, `AdministratorRemains` (`AdminLostOnlyByRace`), `SessionsEnd` (`SessionsRevoked`), `LocksHold` (`LockHolds`) |

`ReloadRun` leaves `ConfigReload`'s type invariant to its theorem.

Hardly any of them is inductive by itself. The strengthenings, each of which
TLC checked on the module's instance before it was proved:

**Dispatcher.** The invariant `IInv` is the conjunction of `TypeInv` (types,
and what each `pc` implies: an index within the chain while a contact is being
tried, the same while a request is under way), `AckInv` (no contact is reached
at the early awaits, no phone has rung before the walk began, nobody has
acknowledged before a phone rang, and, while the incident is open, what the run
knows of an acknowledgement the bus knows too) and `WindowInv` (while no window
lapses, a run that reaches contacts or is in its grace period is the claimant
of its camera's window). The last part of `AckInv` is what makes
`AckStopsEscalation` go through: the code reads the bus before it moves on.
`RunEffect` states once what any step of a run may do to its record, and lemmas
show that the helpers (`Finish`, `TryContact`, `Walk`, `NextAttempt`) stay
within it, so the invariant's step never unfolds them. `StopIsFinal` rests on
`SInv`: a pending cancellation is that of a suspended task, and a run marked
CANCELLED either has one pending or is past everything but its publication.
`NobodyLeftOut` and `CallsAreRecorded` add what a run owes (`DutyInv`): the
contacts before its position that take calls have been dialled as often as
their retries ask, the present one as often as `tries` says, and a phone that rang is recorded
unless the request is still under way or the run was cancelled.

**Refinement.** `PInv` adds `AnswerInv` per incident — where an answer is
awaited the phone has rung, whoever acknowledged was rung, the run of an open
incident names just whom the bus names, a task that has not begun has no status
and an ending one has. Initial states map to initial states (`PInvInit`), and
every step maps to one of `Escalation` or to none (`PromiseStep`), with one
lemma or case per action. `Advances` states once what an awaited result may
make of a run as seen from outside; `WalkAdvances` and `ContactAdvances` show
that the helpers stay within it, `OnwardRun` that it is `Escalation`'s `Onward`.

**Engine.** `IsCounted` says the window is what the last frames counted for,
each by the thresholds of its time; with it evidence in the window is evidence
in the camera's history. `Held`: while an incident is open or dismissed a hit
is left in the window or the window is full, so a dismissal is lifted only
after a full window of quiet frames (`DismissalStands`). `LastNProperties` is
the lemma on the bounded queue that both rest on.

**Pipeline.** One conjunct per thing that may be half done about an incident:
it was not opened or not dispatched yet; its first write is awaited, or was cut
off (`SaveFirst`); closing it is under way while the engine has let it go and
the row is open; what the bus forgot is closed; the live incident is recorded
or being recorded. Since store jobs run in any order, `SaveFirst` is what keeps
a late first write from opening a closed record again.

**Inference.** A frame in a worker's queue is newer than all its consumer has
taken and has no future yet (`Ordered`), no two workers share a frame
(`Apart`), and the service has jobs in hand only while it gathers or predicts
(`BatchOK`).

**Worker.** Until the watchdog acts, the clock of a connection tells the truth
about its silence, and a reset found on a connection is its own (`Sound`); the
watchdog's timer and the silence together make at most a stall and a period
(`InTime`); unless a thread outlived its stop, only the current worker can turn
the gauge on (`OneGauge`).

**ConfigReload.** What is registered runs or is just being replaced (`RunInv`).
Without overlap at most one reload is under way, it builds for the site as it
is, nothing serves while it rebuilds (`DetectorInv`), and the workers it has
left behind have their new settings while those ahead are exactly the ones that
run (`WorkersInv`).

**Accounts.** A request that counted administrators still finds its target
present and somebody else left when it acts, unless it was put out of date
(`Checked`); a session is of the password's present generation, or late, or
somebody is still to revoke it (`Proven`); a step lifts a lock only in the four
ways of `Lifts`.

Attempts at these proofs corrected the models: the engine's properties had
taken old frames by the configuration of the day, which an edit that keeps the
engine refutes once two configurations count different boxes (`EngineRun` now
has two that do); `Inference` keeps the batch as a set and says what is held
(`PendingIsHeld`); `CreateUser` refuses a name that was used and deleted.

Only model-checked:

* liveness and whatever needs fairness: `EveryRunEnds`, `QuietCameraCloses`,
  `FireIsReported`, `DispatchLostOnlyByFault`, `EveryFrameAnswered`,
  `DetectionResumes`, `Recovers`, `StopEnds`;
* the disagreements of section 3, which are counterexamples.

## 5. Plan

1. `ReopenNeedsNewHit` under the condition on window, clearing time and gap
   that makes it true, checked and proved.
2. `Pipeline` composed with `Escalation` in place of its runs that can ring.
3. `RunRecords`: `record_run` called at every publication, duplicates.
4. `EventBus`: bounded subscriber queues and the viewer cap.

## 6. Not modelled

Message texts, TwiML and its escaping, signatures, webhook payloads, metrics
other than the camera gauge, logs, statistics and run records, video encoding,
polygon ray casting, the numerical detectors, password hashing, cookies and the
comparison of CSRF tokens, the command line and the dashboard: they hold no
state that the properties above tell apart. The event bus and the live stream
drop events for slow viewers and no other component reads them back. A crash
loses runs, acknowledgements and open incidents, which live in memory, and
keeps the store and the file; nothing in the program recovers the former, and
`Pipeline`, `ConfigReload` and `Accounts` go on from there. A crash within the
write of the configuration file, which is rewritten in place, is not modelled.
