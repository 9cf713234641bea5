---------------------------- MODULE ConfigReload ----------------------------
(***************************************************************************)
(* Configuration edits while the system runs: the requests of              *)
(* api/routes_config.py, the site YAML on disk, and what supervisor.py     *)
(* does with it: start, reload_config, _restart_inference, _start_worker.  *)
(*                                                                         *)
(* Up to the first await of reload_config a request runs without a switch  *)
(* of tasks, so edit, validation, write, reading back and reconfiguration  *)
(* are one action.  From there on reloads interleave: each awaits the stop *)
(* of a detector, the warm-up of a new one and the stop of every worker it *)
(* replaces.  A worker starts without an await.                            *)
(*                                                                         *)
(* Of a camera's configuration only this matters: it is not there, it is   *)
(* disabled, or it is enabled with one of two settings.  Contacts,         *)
(* alerting and the site's name change neither detector nor workers.       *)
(***************************************************************************)
EXTENDS Naturals, FiniteSets

CONSTANTS
    Cameras,
    Clients,      \* requests in flight at a time
    Models,       \* detector settings (backend, weights, device, ...)
    EnvModel,     \* those of the environment variables
    Missing,      \* those whose weights do not load
    MaxRequests,  \* bound on the requests
    MaxEvents,    \* bound on crashes, hand edits and passing build failures
    None          \* Python's None

ASSUME ReloadAssumption ==
    /\ IsFiniteSet(Cameras)
    /\ EnvModel \in Models /\ Missing \subseteq Models /\ None \notin Models
    /\ MaxRequests \in Nat /\ MaxEvents \in Nat

VARIABLES
    up,          \* the supervisor is started
    file,        \* the YAML file
    site,        \* supervisor.site
    inference,   \* supervisor._inference
    state,       \* supervisor._detector_state
    services,    \* inference services that run
    workers,     \* supervisor.workers
    running,     \* camera workers that run
    reload,      \* the reload_config that each request is in
    requests, events,
    overlapped,  \* history: two reloads were in flight since the start
    rebuilt,     \* history: how the last building of a detector ended
    failed       \* history: the last reload ended in an exception

vars == <<up, file, site, inference, state, services, workers, running, reload,
          requests, events, overlapped, rebuilt, failed>>

Settings == {"absent", "off", "day", "night"}
Enabled == {"day", "night"}

Config == [cam : [Cameras -> Settings], model : Models \cup {None}]

Service == [n : Nat, model : Models]
Worker == [n : Nat, cam : Cameras, conf : Enabled]

ASSUME NoneAssumption == None \notin Cameras \cup Service \cup Worker

(* `wanted` is the reload's own copy of the site, `model` what it builds,  *)
(* `left` the cameras of list(self.workers) it has yet to visit and `cam`  *)
(* the one whose worker it is stopping.                                    *)
Reload == [pc : {"idle", "stopping", "warming", "restoring", "replacing"},
           wanted : [Cameras -> Settings], model : Models,
           left : SUBSET Cameras, cam : Cameras \cup {None}]

TypeOK ==
    /\ up \in BOOLEAN
    /\ file \in Config /\ site \in Config
    /\ inference \in Service \cup {None}
    /\ state \in Models
    /\ services \subseteq Service
    /\ workers \in [Cameras -> Worker \cup {None}]
    /\ running \subseteq Worker
    /\ reload \in [Clients -> Reload]
    /\ requests \in 0 .. MaxRequests /\ events \in 0 .. MaxEvents
    /\ overlapped \in BOOLEAN /\ failed \in BOOLEAN
    /\ rebuilt \in {"ok", "fallback", "none"}

Idle == [pc |-> "idle", wanted |-> [x \in Cameras |-> "absent"],
         model |-> EnvModel, left |-> {}, cam |-> None]

(* detector_settings: the site's model, or the environment's.              *)
Effective(cfg) == IF cfg.model = None THEN EnvModel ELSE cfg.model

(* Before the first start: a file that somebody wrote.                     *)
Init ==
    /\ up = FALSE
    /\ file \in [cam : [Cameras -> {"absent", "day"}],
                 model : (Models \ Missing) \cup {None}]
    /\ site = file
    /\ inference = None /\ state = EnvModel /\ services = {}
    /\ workers = [x \in Cameras |-> None] /\ running = {}
    /\ reload = [c \in Clients |-> Idle]
    /\ requests = 0 /\ events = 0
    /\ overlapped = FALSE /\ rebuilt = "ok" /\ failed = FALSE

-----------------------------------------------------------------------------
(* Supervisor.start and stop.                                              *)

(* A number that tells a new service or worker from those that run.        *)
Fresh(runs) == CHOOSE n \in 1 .. Cardinality(runs) + 1 : \A r \in runs : r.n # n

NewService(model) == [n |-> Fresh(services), model |-> model]

(* _start_worker for every camera wanted that has no worker in `ws`.       *)
StartWorkers(wanted, ws) ==
    LET new == {x \in Cameras : wanted[x] \in Enabled /\ ws[x] = None} IN
    /\ workers' = [x \in Cameras |->
                     IF x \in new
                     THEN [n |-> Fresh(running), cam |-> x, conf |-> wanted[x]]
                     ELSE ws[x]]
    /\ running' = running \cup {workers'[x] : x \in new}

(* The file is read, the detector built and warmed up, the workers started *)
(* before a request is served.  Without a detector the program ends.       *)
Start ==
    /\ ~up
    /\ Effective(file) \notin Missing
    /\ up' = TRUE
    /\ site' = file
    /\ inference' = NewService(Effective(file))
    /\ services' = {inference'}
    /\ state' = Effective(file)
    /\ StartWorkers(file.cam, workers)
    /\ UNCHANGED <<file, reload, requests, events, overlapped, rebuilt, failed>>

Halt ==
    /\ up
    /\ up' = FALSE
    /\ inference' = None /\ services' = {}
    /\ workers' = [x \in Cameras |-> None] /\ running' = {}
    /\ reload' = [c \in Clients |-> Idle]
    /\ overlapped' = FALSE /\ rebuilt' = "ok" /\ failed' = FALSE
    /\ UNCHANGED <<file, site, state>>

(* The server stops when the requests in flight have ended.                *)
Stop ==
    /\ \A c \in Clients : reload[c] = Idle
    /\ requests < MaxRequests /\ requests' = requests + 1
    /\ Halt
    /\ UNCHANGED events

Happens == events < MaxEvents /\ events' = events + 1

Crash == Happens /\ Halt /\ UNCHANGED requests

-----------------------------------------------------------------------------
(* reload_config: what follows the last await before a point.              *)

Ends(c) == reload' = [reload EXCEPT ![c] = Idle]
Waits(c, pc, wanted, model) ==
    reload' = [reload EXCEPT ![c] = [pc |-> pc, wanted |-> wanted, model |-> model,
                                     left |-> {}, cam |-> None]]

(* Mutant: a worker goes on when only the settings of its camera changed.  *)
Differs_Disabled(conf, wanted) == wanted \notin Enabled

(* The worker's camera is no longer wanted, or not as it is.               *)
Differs(conf, wanted) == wanted # conf

(* The loop over the workers `ws`: stop one that differs, or find that     *)
(* another reload has taken one away (KeyError), or come to an end and     *)
(* start what is missing, unless there is no detector.  The order of the   *)
(* workers is left open.                                                   *)
Reconcile(c, wanted, left, ws, service) ==
    LET gone == {x \in left : ws[x] = None}
        differ == {x \in left \ gone : Differs(ws[x].conf, wanted[x])} IN
    \/ \E x \in differ :
          /\ reload' = [reload EXCEPT ![c] =
                          [pc |-> "replacing", wanted |-> wanted, model |-> EnvModel,
                           left |-> left \ {x}, cam |-> x]]
          /\ running' = running \ {ws[x]}
          /\ workers' = ws
          /\ UNCHANGED failed
    \/ /\ gone # {}
       /\ Ends(c)
       /\ failed' = TRUE
       /\ workers' = ws
       /\ UNCHANGED running
    \/ /\ gone = {} /\ differ = {}
       /\ Ends(c)
       /\ failed' = FALSE
       /\ IF service = None
          THEN workers' = ws /\ UNCHANGED running
          ELSE StartWorkers(wanted, ws)

Registered == {x \in Cameras : workers[x] # None}

(* Missing weights never load; anything may fail to load for once.         *)
Mishaps(model) == IF model \in Missing THEN 0 ELSE 1
Misfires(n) == events + n <= MaxEvents /\ events' = events + n

(* _restart_inference after a failure that cost n mishaps: the detector of *)
(* the environment warms up, or there is none.                             *)
Restore(c, n) ==
    \/ /\ EnvModel \notin Missing
       /\ Misfires(n)
       /\ Waits(c, "restoring", reload[c].wanted, EnvModel)
       /\ UNCHANGED <<failed, rebuilt>>
    \/ /\ Misfires(n + Mishaps(EnvModel))
       /\ Ends(c) /\ failed' = TRUE /\ rebuilt' = "none"

(* Mutant: what the build raises leaves the reload as it is.               *)
Build_NoFallback(c, model, wanted) ==
    \/ /\ model \notin Missing
       /\ Waits(c, "warming", wanted, model)
       /\ UNCHANGED <<events, failed, rebuilt>>
    \/ /\ Misfires(Mishaps(model))
       /\ Ends(c) /\ failed' = TRUE
       /\ UNCHANGED rebuilt

(* build_detector of the settings wanted: it loads, or the fallback does.  *)
Build(c, model, wanted) ==
    \/ /\ model \notin Missing
       /\ Waits(c, "warming", wanted, model)
       /\ UNCHANGED <<events, failed, rebuilt>>
    \/ Restore(c, Mishaps(model))

(* Mutant: the old service is dropped but not stopped.                     *)
Release_Leaks == inference' = None /\ UNCHANGED services

(* The old service leaves the supervisor before it has stopped.            *)
Release == inference' = None /\ services' = services \ {inference}

(* dump_site_config: the file is rewritten in place.                       *)
Written(cfg) == file' = cfg

(* A request whose edit makes the valid configuration `cfg`: it is         *)
(* written, read back, and applied up to the first await.                  *)
Persist(c, cfg) ==
    /\ up /\ reload[c] = Idle /\ requests < MaxRequests
    /\ requests' = requests + 1
    /\ Written(cfg)
    /\ site' = cfg
    /\ overlapped' = (overlapped \/ \E d \in Clients : reload[d] # Idle)
    /\ IF state = Effective(cfg)
       THEN /\ Reconcile(c, cfg.cam, Registered, workers, inference)
            /\ UNCHANGED <<inference, services, events, rebuilt>>
       ELSE IF inference = None
       THEN /\ Build(c, Effective(cfg), cfg.cam)
            /\ UNCHANGED <<inference, services, workers, running>>
       ELSE /\ Release
            /\ Waits(c, "stopping", cfg.cam, Effective(cfg))
            /\ UNCHANGED <<workers, running, failed, events, rebuilt>>
    /\ UNCHANGED <<up, state>>

(* old.stop() returns.                                                     *)
ServiceStopped(c) ==
    /\ reload[c].pc = "stopping"
    /\ Build(c, reload[c].model, reload[c].wanted)
    /\ UNCHANGED <<up, file, site, inference, state, services, workers, running,
                   requests, overlapped>>

WarmUpFails(c) ==
    /\ reload[c].pc = "warming"
    /\ Restore(c, 1)
    /\ UNCHANGED <<up, file, site, inference, state, services, workers, running,
                   requests, overlapped>>

(* Mutant: the service is in use while it warms up elsewhere.              *)
SwapIn_Unstarted(model) ==
    /\ inference' = NewService(model)
    /\ state' = Effective(site)
    /\ UNCHANGED services

(* service.start() returns.  The fingerprint noted is that of the site as  *)
(* it is by now.                                                           *)
SwapIn(model) ==
    /\ inference' = NewService(model)
    /\ services' = services \cup {inference'}
    /\ state' = Effective(site)

(* The reload turns to the workers.                                        *)
ServiceWarm(c) ==
    /\ reload[c].pc = "warming"
    /\ SwapIn(reload[c].model)
    /\ rebuilt' = "ok"
    /\ Reconcile(c, reload[c].wanted, Registered, workers, inference')
    /\ UNCHANGED <<up, file, site, requests, events, overlapped>>

(* The fallback runs; the exception ends the reload before the workers.    *)
ServiceRestored(c) ==
    /\ reload[c].pc = "restoring"
    /\ SwapIn(EnvModel)
    /\ rebuilt' = "fallback"
    /\ failed' = TRUE
    /\ Ends(c)
    /\ UNCHANGED <<up, file, site, workers, running, requests, events, overlapped>>

RestoreFails(c) ==
    /\ reload[c].pc = "restoring"
    /\ Happens
    /\ rebuilt' = "none"
    /\ failed' = TRUE
    /\ Ends(c)
    /\ UNCHANGED <<up, file, site, inference, state, services, workers, running,
                   requests, overlapped>>

(* worker.stop() returns and its entry goes, whichever worker it names by  *)
(* now; if there is none the reload ends in a KeyError.                    *)
WorkerStopped(c) ==
    LET r == reload[c] IN
    /\ r.pc = "replacing"
    /\ IF workers[r.cam] = None
       THEN Ends(c) /\ failed' = TRUE /\ UNCHANGED <<workers, running>>
       ELSE Reconcile(c, r.wanted, r.left, [workers EXCEPT ![r.cam] = None],
                      inference)
    /\ UNCHANGED <<up, file, site, inference, state, services, requests, events,
                   overlapped, rebuilt>>

-----------------------------------------------------------------------------
(* The requests.  Each copies the site in memory and edits the copy.       *)

CreateCamera(c, x, v) ==
    /\ site.cam[x] = "absent"
    /\ Persist(c, [site EXCEPT !.cam[x] = v])

UpdateCamera(c, x, v) ==
    /\ site.cam[x] # "absent"
    /\ Persist(c, [site EXCEPT !.cam[x] = v])

DeleteCamera(c, x) ==
    /\ site.cam[x] # "absent"
    /\ Persist(c, [site EXCEPT !.cam[x] = "absent"])

UpdateDetection(c, model) == Persist(c, [site EXCEPT !.model = model])

(* Contacts, alerting, the site's name: the reload finds nothing to do     *)
(* unless the file or an earlier reload left something.                    *)
UpdateOther(c) == Persist(c, site)

(* POST /api/config/reload takes the file as it is.                        *)
ReloadRequest(c) == Persist(c, file)

HandEdit ==
    /\ Happens
    /\ \/ \E x \in Cameras, v \in Settings : file' = [file EXCEPT !.cam[x] = v]
       \/ \E m \in Models \cup {None} : file' = [file EXCEPT !.model = m]
    /\ UNCHANGED <<up, site, inference, state, services, workers, running, reload,
                   requests, overlapped, rebuilt, failed>>

Request(c) ==
    \/ \E x \in Cameras, v \in Settings \ {"absent"} :
          CreateCamera(c, x, v) \/ UpdateCamera(c, x, v)
    \/ \E x \in Cameras : DeleteCamera(c, x)
    \/ \E model \in Models \cup {None} : UpdateDetection(c, model)
    \/ UpdateOther(c)
    \/ ReloadRequest(c)

ReloadStep(c) ==
    \/ ServiceStopped(c)
    \/ ServiceWarm(c)
    \/ WarmUpFails(c)
    \/ ServiceRestored(c)
    \/ RestoreFails(c)
    \/ WorkerStopped(c)

Next ==
    \/ Start \/ Stop \/ Crash \/ HandEdit
    \/ \E c \in Clients : Request(c) \/ ReloadStep(c)

Spec == Init /\ [][Next]_vars /\ \A c \in Clients : WF_vars(ReloadStep(c))

-----------------------------------------------------------------------------
Settled == up /\ \A c \in Clients : reload[c] = Idle

(* What the supervisor holds on to does run: its inference service, and    *)
(* every worker it has registered and is not just replacing, however       *)
(* reloads overlap (supervisor.py:403, 446, 474).                          *)
RegisteredRuns ==
    /\ inference # None => inference \in services
    /\ \A x \in Registered : \/ workers[x] \in running
                             \/ \E c \in Clients : reload[c].cam = x

(* When reloads did not overlap, one detector runs, the one the site asks  *)
(* for unless its build failed; only a fallback that failed too leaves the *)
(* site blind, and then no service runs unnoticed (supervisor.py:456-469). *)
(* What the fallback should be is RollsBack's question, below.             *)
DetectorFollowsConfig ==
    Settled /\ ~overlapped =>
       /\ services = {inference} \ {None}
       /\ inference = None <=> rebuilt = "none"
       /\ rebuilt = "ok" => inference.model = Effective(site)

(* ... and each enabled camera has one worker, with its settings, and no   *)
(* other worker runs, unless the reload ended in an exception or there is  *)
(* no detector (supervisor.py:403-416).                                    *)
WorkersFollowConfig ==
    Settled /\ ~overlapped /\ ~failed /\ rebuilt # "none" =>
       /\ running = {workers[x] : x \in Registered}
       /\ Registered = {x \in Cameras : site.cam[x] \in Enabled}
       /\ \A x \in Registered : workers[x].conf = site.cam[x]

(* A model change pauses detection: a detector comes back, or the fallback *)
(* failed as well, or the program ended (supervisor.py:441).               *)
DetectionResumes ==
    up /\ inference = None ~> inference # None \/ rebuilt = "none" \/ ~up

-----------------------------------------------------------------------------
(* What the program says of itself and does not keep.                      *)

(* A model that fails to load is rolled back to the previous working       *)
(* detector (routes_config.py:262): to the settings that one was built     *)
(* for.  The code builds the environment's (supervisor.py:460).            *)
RollsBack ==
    [][rebuilt = "ok" /\ rebuilt' = "fallback" /\ ~overlapped
         => inference'.model = state]_vars

(* A dashboard change and a hand edit cannot drift apart                   *)
(* (routes_config.py:5): an edit of one camera in the dashboard leaves     *)
(* what a hand edit made of another.                                       *)
HandEditsSurvive ==
    [][\A x, y \in Cameras :
         x # y /\ file.cam[x] # site.cam[x] /\ up /\ up'
         /\ site'.cam[y] # site.cam[y]
            => file'.cam[x] = file.cam[x]]_vars

(* An edit is applied by reloading (README.md:250): when no request is in  *)
(* flight and the reloads succeeded, overlapping or not, each enabled      *)
(* camera has one worker, with its settings ...                            *)
CamerasAreApplied ==
    Settled /\ ~failed /\ rebuilt = "ok" =>
       \A x \in Cameras :
          {w.conf : w \in {v \in running : v.cam = x}} = {site.cam[x]} \cap Enabled

(* ... and the detector that runs is the one the site asks for.            *)
ModelIsApplied ==
    Settled /\ ~failed /\ rebuilt = "ok" =>
       services = {inference} /\ inference.model = Effective(site)
=============================================================================
