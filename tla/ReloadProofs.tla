----------------------------- MODULE ReloadProofs -----------------------------
(* Theorems about ConfigReload, for every value of its constants.          *)
EXTENDS ConfigReload, TLAPS, FiniteSetTheorems

-----------------------------------------------------------------------------
(* There is always a number that tells a new service from those that run.  *)

LEMMA FreshOK ==
  ASSUME NEW runs, IsFiniteSet(runs)
  PROVE  Fresh(runs) \in Nat
<1> DEFINE k == Cardinality(runs) + 1
<1>1. Cardinality(runs) \in Nat
  BY FS_CardinalityType
<1>2. IsFiniteSet(1 .. k) /\ Cardinality(1 .. k) = k
  BY <1>1, FS_Interval
<1>3. \E n \in 1 .. k : \A r \in runs : r.n # n
  <2> SUFFICES ASSUME \A n \in 1 .. k : \E r \in runs : r.n = n PROVE FALSE
    OBVIOUS
  <2> DEFINE f == [n \in 1 .. k |-> CHOOSE r \in runs : r.n = n]
  <2>1. \A n \in 1 .. k : f[n] \in runs /\ f[n].n = n
    OBVIOUS
  <2>2. f \in [1 .. k -> runs]
    BY <2>1
  <2> HIDE DEF f
  <2>3. \E x, y \in 1 .. k : x # y /\ f[x] = f[y]
    BY <1>1, <1>2, <2>2, FS_PigeonHole
  <2> QED BY <2>1, <2>3
<1> QED BY <1>1, <1>3 DEF Fresh

LEMMA ImageFinite ==
  ASSUME NEW S, IsFiniteSet(S), NEW f
  PROVE  IsFiniteSet({f[x] : x \in S})
<1> DEFINE T == {f[x] : x \in S}
           g == [x \in S |-> f[x]]
<1>1. g \in Surjection(S, T)
  BY DEF Surjection
<1> QED BY <1>1, FS_Surjection

-----------------------------------------------------------------------------
(* Type correctness.  Only a reload that replaces a worker names a camera, *)
(* and a worker is registered under the camera it reads.                   *)

Shaped(ws) == /\ ws \in [Cameras -> Worker \cup {None}]
              /\ \A x \in Cameras : ws[x] # None => ws[x].cam = x

ReloadOK(r) == r \in Reload /\ (r.pc = "replacing" <=> r.cam # None)

TypeInv ==
  /\ TypeOK
  /\ IsFiniteSet(services) /\ IsFiniteSet(running)
  /\ Shaped(workers)
  /\ \A c \in Clients : ReloadOK(reload[c])

LEMMA IdleOK == ReloadOK(Idle)
BY ReloadAssumption, NoneAssumption DEF ReloadOK, Reload, Idle, Settings

LEMMA EffectiveOK == ASSUME NEW cfg \in Config PROVE Effective(cfg) \in Models
BY ReloadAssumption DEF Config, Effective

LEMMA NewServiceOK ==
  ASSUME TypeInv, NEW model \in Models
  PROVE  NewService(model) \in Service /\ NewService(model).model = model
<1>1. Fresh(services) \in Nat
  BY FreshOK DEF TypeInv
<1> QED BY <1>1 DEF NewService, Service

(* What _start_worker leaves: the workers that were there, and one for     *)
(* every camera that is wanted and had none.                               *)
LEMMA StartWorkersEffect ==
  ASSUME TypeInv, NEW wanted \in [Cameras -> Settings], NEW ws, Shaped(ws),
         StartWorkers(wanted, ws)
  PROVE  /\ Shaped(workers')
         /\ \A x \in Cameras : ws[x] # None => workers'[x] = ws[x]
         /\ \A x \in Cameras : ws[x] = None =>
              IF wanted[x] \in Enabled
              THEN workers'[x] # None /\ workers'[x].conf = wanted[x]
              ELSE workers'[x] = None
         /\ running' = running \cup {workers'[x] : x \in {y \in Cameras :
                          wanted[y] \in Enabled /\ ws[y] = None}}
         /\ running' \subseteq Worker /\ IsFiniteSet(running')
<1> DEFINE new == {x \in Cameras : wanted[x] \in Enabled /\ ws[x] = None}
           w(x) == [n |-> Fresh(running), cam |-> x, conf |-> wanted[x]]
<1>1. /\ workers' = [x \in Cameras |-> IF x \in new THEN w(x) ELSE ws[x]]
      /\ running' = running \cup {workers'[x] : x \in new}
  BY DEF StartWorkers
<1>2. Fresh(running) \in Nat
  BY FreshOK DEF TypeInv
<1>3. ASSUME NEW x \in new
      PROVE  /\ workers'[x] = w(x) /\ w(x) \in Worker /\ w(x) # None
             /\ w(x).cam = x /\ w(x).conf = wanted[x]
  <2>1. w(x) \in Worker
    BY <1>2, <1>3 DEF Worker
  <2> QED BY <1>1, <1>3, <2>1, NoneAssumption
<1>4. \A x \in Cameras \ new : workers'[x] = ws[x]
  BY <1>1
<1>5. \A x \in Cameras : workers'[x] \in Worker \cup {None}
                         /\ (workers'[x] # None => workers'[x].cam = x)
  BY <1>3, <1>4 DEF Shaped
<1>6. Shaped(workers')
  BY <1>1, <1>5 DEF Shaped
<1>7. IsFiniteSet(new)
  BY ReloadAssumption, FS_Subset
<1>8. IsFiniteSet({workers'[x] : x \in new})
  BY <1>7, ImageFinite
<1>9. IsFiniteSet(running')
  BY <1>1, <1>8, FS_Union DEF TypeInv
<1>10. running' \subseteq Worker
  BY <1>1, <1>3 DEF TypeInv, TypeOK
<1> HIDE DEF w
<1> QED BY <1>1, <1>3, <1>4, <1>6, <1>9, <1>10

(* One request's record changes to r.                                      *)
LEMMA ReloadType ==
  ASSUME TypeInv, NEW c \in Clients, NEW r, ReloadOK(r),
         reload' = [reload EXCEPT ![c] = r]
  PROVE  /\ reload' \in [Clients -> Reload]
         /\ \A d \in Clients : ReloadOK(reload'[d])
<1>1. reload \in [Clients -> Reload] /\ r \in Reload
  BY DEF TypeInv, TypeOK, ReloadOK
<1>2. \A d \in Clients : reload'[d] = IF d = c THEN r ELSE reload[d]
  BY <1>1
<1> QED BY <1>1, <1>2 DEF TypeInv

LEMMA WaitsType ==
  ASSUME TypeInv, NEW c \in Clients, NEW pc \in {"stopping", "warming", "restoring"},
         NEW wanted \in [Cameras -> Settings], NEW model \in Models,
         Waits(c, pc, wanted, model)
  PROVE  /\ reload' \in [Clients -> Reload]
         /\ \A d \in Clients : ReloadOK(reload'[d])
<1> DEFINE r == [pc |-> pc, wanted |-> wanted, model |-> model, left |-> {}, cam |-> None]
<1>1. ReloadOK(r)
  BY DEF ReloadOK, Reload
<1>2. reload' = [reload EXCEPT ![c] = r]
  BY DEF Waits
<1> HIDE DEF r
<1> QED BY <1>1, <1>2, ReloadType

LEMMA EndsType ==
  ASSUME TypeInv, NEW c \in Clients, Ends(c)
  PROVE  /\ reload' \in [Clients -> Reload]
         /\ \A d \in Clients : ReloadOK(reload'[d])
BY IdleOK, ReloadType DEF Ends

LEMMA ReconcileType ==
  ASSUME TypeInv, NEW c \in Clients, NEW wanted \in [Cameras -> Settings],
         NEW left \in SUBSET Cameras, NEW ws, Shaped(ws), NEW service,
         Reconcile(c, wanted, left, ws, service)
  PROVE  /\ Shaped(workers') /\ running' \subseteq Worker /\ IsFiniteSet(running')
         /\ reload' \in [Clients -> Reload] /\ failed' \in BOOLEAN
         /\ \A d \in Clients : ReloadOK(reload'[d])
<1> DEFINE gone == {x \in left : ws[x] = None}
           differ == {x \in left \ gone : Differs(ws[x].conf, wanted[x])}
<1>0. running \subseteq Worker /\ IsFiniteSet(running) /\ failed \in BOOLEAN
  BY DEF TypeInv, TypeOK
<1>1. ASSUME NEW x \in differ,
             reload' = [reload EXCEPT ![c] =
                          [pc |-> "replacing", wanted |-> wanted, model |-> EnvModel,
                           left |-> left \ {x}, cam |-> x]],
             running' = running \ {ws[x]}, workers' = ws, UNCHANGED failed
      PROVE  /\ Shaped(workers') /\ running' \subseteq Worker /\ IsFiniteSet(running')
             /\ reload' \in [Clients -> Reload] /\ failed' \in BOOLEAN
             /\ \A d \in Clients : ReloadOK(reload'[d])
  <2> DEFINE r == [pc |-> "replacing", wanted |-> wanted, model |-> EnvModel,
                   left |-> left \ {x}, cam |-> x]
  <2>1. ReloadOK(r)
    BY <1>1, ReloadAssumption, NoneAssumption DEF ReloadOK, Reload
  <2> HIDE DEF r
  <2>2. reload' = [reload EXCEPT ![c] = r]
    BY <1>1 DEF r
  <2>3. IsFiniteSet(running')
    BY <1>0, <1>1, FS_RemoveElement
  <2> QED BY <1>0, <1>1, <2>1, <2>2, <2>3, ReloadType
<1>2. CASE Ends(c) /\ failed' = TRUE /\ workers' = ws /\ UNCHANGED running
  BY <1>0, <1>2, EndsType
<1>3. CASE Ends(c) /\ failed' = FALSE /\ StartWorkers(wanted, ws)
  BY <1>3, EndsType, StartWorkersEffect
<1>4. CASE Ends(c) /\ failed' = FALSE /\ workers' = ws /\ UNCHANGED running
  BY <1>0, <1>4, EndsType
<1> QED BY <1>1, <1>2, <1>3, <1>4 DEF Reconcile

LEMMA RestoreType ==
  ASSUME TypeInv, NEW c \in Clients, NEW n \in {0, 1}, Restore(c, n)
  PROVE  /\ reload' \in [Clients -> Reload] /\ failed' \in BOOLEAN
         /\ \A d \in Clients : ReloadOK(reload'[d])
         /\ events' \in 0 .. MaxEvents /\ rebuilt' \in {"ok", "fallback", "none"}
<1>0. /\ events \in Nat /\ MaxEvents \in Nat /\ failed \in BOOLEAN
      /\ rebuilt \in {"ok", "fallback", "none"} /\ Mishaps(EnvModel) \in {0, 1}
      /\ reload[c].wanted \in [Cameras -> Settings] /\ EnvModel \in Models
  BY ReloadAssumption DEF TypeInv, TypeOK, Reload, Mishaps
<1>1. ASSUME NEW k \in Nat, Misfires(k) PROVE events' \in 0 .. MaxEvents
  BY <1>0, <1>1 DEF Misfires
<1>2. CASE /\ Misfires(n) /\ Waits(c, "restoring", reload[c].wanted, EnvModel)
           /\ UNCHANGED <<failed, rebuilt>>
  BY <1>0, <1>1, <1>2, WaitsType
<1>3. CASE Misfires(n + Mishaps(EnvModel)) /\ Ends(c) /\ failed' = TRUE /\ rebuilt' = "none"
  <2>1. n + Mishaps(EnvModel) \in Nat
    BY <1>0
  <2> QED BY <1>1, <1>3, <2>1, EndsType
<1> QED BY <1>2, <1>3 DEF Restore

LEMMA BuildType ==
  ASSUME TypeInv, NEW c \in Clients, NEW model \in Models,
         NEW wanted \in [Cameras -> Settings], Build(c, model, wanted)
  PROVE  /\ reload' \in [Clients -> Reload] /\ failed' \in BOOLEAN
         /\ \A d \in Clients : ReloadOK(reload'[d])
         /\ events' \in 0 .. MaxEvents /\ rebuilt' \in {"ok", "fallback", "none"}
<1>1. CASE Waits(c, "warming", wanted, model) /\ UNCHANGED <<events, failed, rebuilt>>
  BY <1>1, WaitsType DEF TypeInv, TypeOK
<1>2. CASE Restore(c, Mishaps(model))
  BY <1>2, RestoreType DEF Mishaps
<1> QED BY <1>1, <1>2 DEF Build

LEMMA SwapInType ==
  ASSUME TypeInv, NEW model \in Models, SwapIn(model)
  PROVE  /\ inference' \in Service /\ inference' # None /\ inference'.model = model
         /\ services' \subseteq Service /\ IsFiniteSet(services')
         /\ state' \in Models
<1>1. services \subseteq Service /\ IsFiniteSet(services) /\ site \in Config
  BY DEF TypeInv, TypeOK
<1>2. inference' \in Service /\ inference'.model = model
  BY NewServiceOK DEF SwapIn
<1> QED BY <1>1, <1>2, NoneAssumption, EffectiveOK, FS_AddElement DEF SwapIn

LEMMA PersistType ==
  ASSUME TypeInv, NEW c \in Clients, NEW cfg \in Config, Persist(c, cfg)
  PROVE  TypeInv'
<1>0. /\ TypeOK /\ IsFiniteSet(services) /\ IsFiniteSet(running) /\ Shaped(workers)
      /\ \A d \in Clients : ReloadOK(reload[d])
      /\ cfg.cam \in [Cameras -> Settings] /\ Effective(cfg) \in Models
      /\ Registered \subseteq Cameras
  BY EffectiveOK DEF TypeInv, Config, Registered
<1>1. /\ up' \in BOOLEAN /\ file' \in Config /\ site' \in Config /\ state' \in Models
      /\ requests' \in 0 .. MaxRequests /\ overlapped' \in BOOLEAN
  <2>1. requests' \in 0 .. MaxRequests
    BY <1>0, ReloadAssumption DEF Persist, TypeOK
  <2> QED BY <1>0, <2>1 DEF Persist, Written, TypeOK
<1>2. CASE state = Effective(cfg)
  <2>1. /\ Reconcile(c, cfg.cam, Registered, workers, inference)
        /\ UNCHANGED <<inference, services, events, rebuilt>>
    BY <1>2 DEF Persist
  <2> HIDE DEF Registered
  <2>2. /\ Shaped(workers') /\ running' \subseteq Worker /\ IsFiniteSet(running')
        /\ reload' \in [Clients -> Reload] /\ failed' \in BOOLEAN
        /\ \A d \in Clients : ReloadOK(reload'[d])
    BY <1>0, <2>1, ReconcileType
  <2> QED BY <1>0, <1>1, <2>1, <2>2 DEF TypeInv, TypeOK, Shaped
<1>3. CASE state # Effective(cfg) /\ inference = None
  <2>1. /\ Build(c, Effective(cfg), cfg.cam)
        /\ UNCHANGED <<inference, services, workers, running>>
    BY <1>3 DEF Persist
  <2>2. /\ reload' \in [Clients -> Reload] /\ failed' \in BOOLEAN
        /\ \A d \in Clients : ReloadOK(reload'[d])
        /\ events' \in 0 .. MaxEvents /\ rebuilt' \in {"ok", "fallback", "none"}
    BY <1>0, <2>1, BuildType
  <2> QED BY <1>0, <1>1, <2>1, <2>2 DEF TypeInv, TypeOK, Shaped
<1>4. CASE state # Effective(cfg) /\ inference # None
  <2>1. /\ inference' = None /\ services' = services \ {inference}
        /\ Waits(c, "stopping", cfg.cam, Effective(cfg))
        /\ UNCHANGED <<workers, running, failed, events, rebuilt>>
    BY <1>4 DEF Persist, Release
  <2>2. IsFiniteSet(services') /\ services' \subseteq services
    BY <1>0, <2>1, FS_RemoveElement
  <2>3. /\ reload' \in [Clients -> Reload]
        /\ \A d \in Clients : ReloadOK(reload'[d])
    BY <1>0, <2>1, WaitsType
  <2> QED BY <1>0, <1>1, <2>1, <2>2, <2>3 DEF TypeInv, TypeOK, Shaped
<1> QED BY <1>2, <1>3, <1>4

(* Every request of the dashboard is a Persist of some configuration.      *)
LEMMA RequestPersists ==
  ASSUME TypeInv, NEW c \in Clients, Request(c)
  PROVE  \E cfg \in Config : Persist(c, cfg)
<1>0. site \in Config /\ file \in Config
  BY DEF TypeInv, TypeOK
<1>1. ASSUME NEW x \in Cameras, NEW v \in Settings
      PROVE  [site EXCEPT !.cam[x] = v] \in Config
  BY <1>0 DEF Config
<1>2. ASSUME NEW m \in Models \cup {None} PROVE [site EXCEPT !.model = m] \in Config
  BY <1>0 DEF Config
<1>3. "absent" \in Settings
  BY DEF Settings
<1> QED BY <1>0, <1>1, <1>2, <1>3 DEF Request, CreateCamera, UpdateCamera, DeleteCamera,
           UpdateDetection, UpdateOther, ReloadRequest

LEMMA ReloadStepType ==
  ASSUME TypeInv, NEW c \in Clients, ReloadStep(c)
  PROVE  TypeInv'
<1> DEFINE r == reload[c]
<1>0. /\ TypeOK /\ IsFiniteSet(services) /\ IsFiniteSet(running) /\ Shaped(workers)
      /\ \A d \in Clients : ReloadOK(reload[d])
      /\ r.wanted \in [Cameras -> Settings] /\ r.model \in Models /\ r.left \in SUBSET Cameras
      /\ r.pc = "replacing" => r.cam \in Cameras
      /\ EnvModel \in Models /\ Registered \in SUBSET Cameras
  BY ReloadAssumption DEF TypeInv, TypeOK, Reload, ReloadOK, Registered
<1>1. CASE ServiceStopped(c)
  <2>1. /\ reload' \in [Clients -> Reload] /\ failed' \in BOOLEAN
        /\ \A d \in Clients : ReloadOK(reload'[d])
        /\ events' \in 0 .. MaxEvents /\ rebuilt' \in {"ok", "fallback", "none"}
    BY <1>0, <1>1, BuildType DEF ServiceStopped
  <2> QED BY <1>0, <1>1, <2>1 DEF ServiceStopped, TypeInv, TypeOK, Shaped
<1>2. CASE WarmUpFails(c)
  <2>1. /\ reload' \in [Clients -> Reload] /\ failed' \in BOOLEAN
        /\ \A d \in Clients : ReloadOK(reload'[d])
        /\ events' \in 0 .. MaxEvents /\ rebuilt' \in {"ok", "fallback", "none"}
    BY <1>0, <1>2, RestoreType DEF WarmUpFails
  <2> QED BY <1>0, <1>2, <2>1 DEF WarmUpFails, TypeInv, TypeOK, Shaped
<1>3. CASE ServiceWarm(c)
  <2>1. /\ inference' \in Service /\ services' \subseteq Service /\ IsFiniteSet(services')
        /\ state' \in Models
    BY <1>0, <1>3, SwapInType DEF ServiceWarm
  <2>2. Reconcile(c, r.wanted, Registered, workers, inference')
    BY <1>3 DEF ServiceWarm
  <2> HIDE DEF Registered
  <2>3. /\ Shaped(workers') /\ running' \subseteq Worker /\ IsFiniteSet(running')
        /\ reload' \in [Clients -> Reload] /\ failed' \in BOOLEAN
        /\ \A d \in Clients : ReloadOK(reload'[d])
    BY <1>0, <2>2, ReconcileType
  <2> QED BY <1>0, <1>3, <2>1, <2>3 DEF ServiceWarm, TypeInv, TypeOK, Shaped
<1>4. CASE ServiceRestored(c)
  <2>1. /\ inference' \in Service /\ services' \subseteq Service /\ IsFiniteSet(services')
        /\ state' \in Models
    BY <1>0, <1>4, SwapInType DEF ServiceRestored
  <2>2. reload' \in [Clients -> Reload] /\ \A d \in Clients : ReloadOK(reload'[d])
    BY <1>4, EndsType DEF ServiceRestored
  <2> QED BY <1>0, <1>4, <2>1, <2>2 DEF ServiceRestored, TypeInv, TypeOK, Shaped
<1>5. CASE RestoreFails(c)
  <2>1. reload' \in [Clients -> Reload] /\ \A d \in Clients : ReloadOK(reload'[d])
    BY <1>5, EndsType DEF RestoreFails
  <2>2. events' \in 0 .. MaxEvents
    BY <1>0, <1>5, ReloadAssumption DEF RestoreFails, Happens, TypeOK
  <2> QED BY <1>0, <1>5, <2>1, <2>2 DEF RestoreFails, TypeInv, TypeOK, Shaped
<1>6. CASE WorkerStopped(c)
  <2> DEFINE ws == [workers EXCEPT ![r.cam] = None]
  <2>1. r.pc = "replacing" /\ r.cam \in Cameras
    BY <1>0, <1>6 DEF WorkerStopped
  <2>2. Shaped(ws)
    BY <1>0, <2>1 DEF Shaped
  <2>3. \/ Ends(c) /\ failed' = TRUE /\ UNCHANGED <<workers, running>>
        \/ Reconcile(c, r.wanted, r.left, ws, inference)
    BY <1>6 DEF WorkerStopped
  <2> HIDE DEF ws
  <2>4. /\ Shaped(workers') /\ running' \subseteq Worker /\ IsFiniteSet(running')
        /\ reload' \in [Clients -> Reload] /\ failed' \in BOOLEAN
        /\ \A d \in Clients : ReloadOK(reload'[d])
    <3>1. CASE Ends(c) /\ failed' = TRUE /\ UNCHANGED <<workers, running>>
      BY <1>0, <3>1, EndsType DEF TypeOK, Shaped
    <3>2. CASE Reconcile(c, r.wanted, r.left, ws, inference)
      BY <1>0, <2>2, <3>2, ReconcileType
    <3> QED BY <2>3, <3>1, <3>2
  <2> QED BY <1>0, <1>6, <2>4 DEF WorkerStopped, TypeInv, TypeOK, Shaped
<1> QED BY <1>1, <1>2, <1>3, <1>4, <1>5, <1>6 DEF ReloadStep

LEMMA HaltType ==
  ASSUME TypeInv, Halt, requests' \in 0 .. MaxRequests, events' \in 0 .. MaxEvents
  PROVE  TypeInv'
<1>1. /\ TypeOK /\ \A c \in Clients : reload'[c] = Idle
      /\ reload' = [c \in Clients |-> Idle]
  BY DEF Halt, TypeInv
<1>2. Idle \in Reload
  BY IdleOK DEF ReloadOK
<1>3. Shaped(workers')
  BY DEF Halt, Shaped
<1>4. IsFiniteSet({})
  BY FS_EmptySet
<1> QED BY <1>1, <1>2, <1>3, <1>4, IdleOK DEF Halt, TypeInv, TypeOK, Shaped

LEMMA StartType ==
  ASSUME TypeInv, Start
  PROVE  TypeInv'
<1>0. /\ TypeOK /\ Shaped(workers) /\ \A c \in Clients : ReloadOK(reload[c])
      /\ file \in Config /\ file.cam \in [Cameras -> Settings]
  BY DEF TypeInv, TypeOK, Config
<1>1. Effective(file) \in Models
  BY <1>0, EffectiveOK
<1>2. inference' \in Service /\ services' = {inference'}
  BY <1>1, NewServiceOK DEF Start
<1>3. IsFiniteSet(services')
  BY <1>2, FS_Singleton
<1>4. Shaped(workers') /\ running' \subseteq Worker /\ IsFiniteSet(running')
  BY <1>0, StartWorkersEffect DEF Start
<1> QED BY <1>0, <1>1, <1>2, <1>3, <1>4 DEF Start, TypeInv, TypeOK, Shaped

LEMMA TypeInit == ASSUME Init PROVE TypeInv
<1>1. file \in Config
  BY DEF Init, Config, Settings
<1>2. Shaped(workers)
  BY DEF Init, Shaped
<1>3. IsFiniteSet({})
  BY FS_EmptySet
<1>4. Idle \in Reload
  BY IdleOK DEF ReloadOK
<1>5. /\ inference = None /\ state = EnvModel /\ services = {} /\ running = {}
      /\ reload = [c \in Clients |-> Idle] /\ site = file /\ up = FALSE
      /\ requests = 0 /\ events = 0 /\ overlapped = FALSE /\ rebuilt = "ok" /\ failed = FALSE
  BY DEF Init
<1>6. TypeOK
  <2>1. reload \in [Clients -> Reload]
    BY <1>4, <1>5
  <2>2. requests \in 0 .. MaxRequests /\ events \in 0 .. MaxEvents
    BY <1>5, ReloadAssumption
  <2>3. /\ up \in BOOLEAN /\ overlapped \in BOOLEAN /\ failed \in BOOLEAN
        /\ rebuilt \in {"ok", "fallback", "none"}
    BY <1>5
  <2>4. /\ inference \in Service \cup {None} /\ services \subseteq Service
        /\ running \subseteq Worker /\ state \in Models /\ site \in Config
    BY <1>1, <1>5, ReloadAssumption
  <2> QED BY <1>1, <1>2, <2>1, <2>2, <2>3, <2>4 DEF TypeOK, Shaped
<1>7. \A c \in Clients : ReloadOK(reload[c])
  BY <1>5, IdleOK
<1> QED BY <1>2, <1>3, <1>5, <1>6, <1>7 DEF TypeInv

LEMMA TypeStep == TypeInv /\ [Next]_vars => TypeInv'
<1> SUFFICES ASSUME TypeInv, [Next]_vars PROVE TypeInv'
  OBVIOUS
<1>0. TypeOK
  BY DEF TypeInv
<1>1. CASE Start
  BY <1>1, StartType
<1>2. CASE Stop
  <2>1. requests' \in 0 .. MaxRequests /\ events' \in 0 .. MaxEvents
    BY <1>0, <1>2, ReloadAssumption DEF Stop, TypeOK
  <2> QED BY <1>2, <2>1, HaltType DEF Stop
<1>3. CASE Crash
  <2>1. requests' \in 0 .. MaxRequests /\ events' \in 0 .. MaxEvents
    BY <1>0, <1>3, ReloadAssumption DEF Crash, Happens, TypeOK
  <2> QED BY <1>3, <2>1, HaltType DEF Crash
<1>4. CASE HandEdit
  <2>1. file' \in Config
    BY <1>0, <1>4 DEF HandEdit, TypeOK, Config
  <2>2. events' \in 0 .. MaxEvents
    BY <1>0, <1>4, ReloadAssumption DEF HandEdit, Happens, TypeOK
  <2> QED BY <1>0, <1>4, <2>1, <2>2 DEF HandEdit, TypeInv, TypeOK, Shaped
<1>5. ASSUME NEW c \in Clients, Request(c) PROVE TypeInv'
  BY <1>5, RequestPersists, PersistType
<1>6. ASSUME NEW c \in Clients, ReloadStep(c) PROVE TypeInv'
  BY <1>6, ReloadStepType
<1>7. CASE UNCHANGED vars
  BY <1>0, <1>7 DEF vars, TypeInv, TypeOK, Shaped
<1> QED BY <1>1, <1>2, <1>3, <1>4, <1>5, <1>6, <1>7 DEF Next

(* The supervisor's tables hold what they should in every state: overlap   *)
(* of reloads never registers a worker under another camera, and there is  *)
(* always a number for a new one (supervisor.py:403).                      *)
THEOREM TypeCorrect == Spec => []TypeOK
<1>1. TypeInv => TypeOK
  BY DEF TypeInv
<1> QED BY <1>1, TypeInit, TypeStep, PTL DEF Spec

-----------------------------------------------------------------------------
(* What is registered runs, or is being replaced.                          *)

Held(ws, runs, rl) ==
  \A x \in Cameras : ws[x] # None => ws[x] \in runs \/ \E c \in Clients : rl[c].cam = x

RunInv ==
  /\ inference # None => inference \in services
  /\ Held(workers, running, reload)

(* A reload that replaces nothing that is registered may go on.            *)
LEMMA HeldGoesOn ==
  ASSUME TypeInv, NEW c \in Clients, NEW ws, NEW r,
         reload' = [reload EXCEPT ![c] = r],
         Held(ws, running, reload),
         reload[c].cam \in Cameras => ws[reload[c].cam] = None
  PROVE  Held(ws, running, reload')
<1>1. reload \in [Clients -> Reload]
  BY DEF TypeInv, TypeOK
<1>2. \A d \in Clients : d # c => reload'[d] = reload[d]
  BY <1>1
<1> QED BY <1>2 DEF Held

LEMMA HeldReconcile ==
  ASSUME TypeInv, NEW c \in Clients, NEW wanted \in [Cameras -> Settings],
         NEW left \in SUBSET Cameras, NEW ws, Shaped(ws), NEW service,
         Held(ws, running, reload),
         reload[c].cam \in Cameras => ws[reload[c].cam] = None,
         Reconcile(c, wanted, left, ws, service)
  PROVE  Held(workers', running', reload')
<1> DEFINE gone == {x \in left : ws[x] = None}
           differ == {x \in left \ gone : Differs(ws[x].conf, wanted[x])}
<1>1. ASSUME NEW r, reload' = [reload EXCEPT ![c] = r] PROVE Held(ws, running, reload')
  BY <1>1, HeldGoesOn
<1>2. ASSUME NEW x \in differ,
             reload' = [reload EXCEPT ![c] =
                          [pc |-> "replacing", wanted |-> wanted, model |-> EnvModel,
                           left |-> left \ {x}, cam |-> x]],
             running' = running \ {ws[x]}, workers' = ws
      PROVE  Held(workers', running', reload')
  <2> DEFINE r == [pc |-> "replacing", wanted |-> wanted, model |-> EnvModel,
                   left |-> left \ {x}, cam |-> x]
  <2>1. reload' = [reload EXCEPT ![c] = r] /\ r.cam = x
    BY <1>2
  <2> HIDE DEF r
  <2>2. reload'[c].cam = x
    BY <2>1 DEF TypeInv, TypeOK
  <2>3. Held(ws, running, reload')
    BY <1>1, <2>1
  <2>4. \A y \in Cameras : y # x /\ ws[y] # None => ws[y] # ws[x]
    BY <1>2 DEF Shaped
  <2> QED BY <1>2, <2>2, <2>3, <2>4 DEF Held
<1>3. CASE Ends(c) /\ workers' = ws /\ UNCHANGED running
  BY <1>1, <1>3 DEF Ends
<1>4. CASE Ends(c) /\ StartWorkers(wanted, ws)
  <2>1. Held(ws, running, reload')
    BY <1>1, <1>4 DEF Ends
  <2>2. /\ \A x \in Cameras : ws[x] # None => workers'[x] = ws[x]
        /\ \A x \in Cameras : ws[x] = None /\ workers'[x] # None => wanted[x] \in Enabled
        /\ running' = running \cup {workers'[x] : x \in {y \in Cameras :
                          wanted[y] \in Enabled /\ ws[y] = None}}
    BY <1>4, StartWorkersEffect
  <2> QED BY <2>1, <2>2 DEF Held
<1> QED BY <1>2, <1>3, <1>4 DEF Reconcile

LEMMA HeldBuild ==
  ASSUME TypeInv, NEW c \in Clients, Held(workers, running, reload),
         reload[c].cam = None, NEW model, NEW wanted, NEW n,
         Build(c, model, wanted) \/ Restore(c, n)
  PROVE  Held(workers, running, reload')
<1>1. \E r : reload' = [reload EXCEPT ![c] = r]
  BY DEF Build, Restore, Waits, Ends
<1> QED BY <1>1, HeldGoesOn, NoneAssumption

LEMMA RunPersist ==
  ASSUME TypeInv, RunInv, NEW c \in Clients, NEW cfg \in Config, Persist(c, cfg)
  PROVE  RunInv'
<1>1. /\ reload[c].cam = None /\ None \notin Cameras /\ Shaped(workers)
      /\ cfg.cam \in [Cameras -> Settings] /\ Registered \in SUBSET Cameras
  BY NoneAssumption DEF Persist, Idle, TypeInv, Config, Registered
<1>2. CASE state = Effective(cfg)
  <2>1. /\ Reconcile(c, cfg.cam, Registered, workers, inference)
        /\ UNCHANGED <<inference, services>>
    BY <1>2 DEF Persist
  <2> HIDE DEF Registered
  <2>2. Held(workers', running', reload')
    BY <1>1, <2>1, HeldReconcile DEF RunInv
  <2> QED BY <2>1, <2>2 DEF RunInv
<1>3. CASE state # Effective(cfg) /\ inference = None
  <2>1. /\ Build(c, Effective(cfg), cfg.cam)
        /\ UNCHANGED <<inference, services, workers, running>>
    BY <1>3 DEF Persist
  <2>2. Held(workers, running, reload')
    BY <1>1, <2>1, HeldBuild DEF RunInv
  <2> QED BY <2>1, <2>2 DEF RunInv
<1>4. CASE state # Effective(cfg) /\ inference # None
  <2>1. /\ inference' = None /\ UNCHANGED <<workers, running>>
        /\ Waits(c, "stopping", cfg.cam, Effective(cfg))
    BY <1>4 DEF Persist, Release
  <2>2. Held(workers, running, reload')
    BY <1>1, <2>1, HeldGoesOn DEF RunInv, Waits
  <2> QED BY <2>1, <2>2 DEF RunInv
<1> QED BY <1>2, <1>3, <1>4

LEMMA RunReloadStep ==
  ASSUME TypeInv, RunInv, NEW c \in Clients, ReloadStep(c)
  PROVE  RunInv'
<1> DEFINE r == reload[c]
<1>0. /\ Shaped(workers) /\ None \notin Cameras
      /\ r.wanted \in [Cameras -> Settings] /\ r.model \in Models /\ r.left \in SUBSET Cameras
      /\ r.pc = "replacing" => r.cam \in Cameras
      /\ r.pc # "replacing" => r.cam = None
      /\ Registered \in SUBSET Cameras /\ Held(workers, running, reload)
  BY NoneAssumption DEF TypeInv, TypeOK, Reload, ReloadOK, Registered, RunInv
<1>1. CASE ServiceStopped(c) \/ WarmUpFails(c)
  <2>1. /\ r.cam = None /\ UNCHANGED <<inference, services, workers, running>>
        /\ Build(c, r.model, r.wanted) \/ Restore(c, 1)
    BY <1>0, <1>1 DEF ServiceStopped, WarmUpFails
  <2>2. Held(workers, running, reload')
    BY <1>0, <2>1, HeldBuild
  <2> QED BY <2>1, <2>2 DEF RunInv
<1>2. CASE ServiceWarm(c)
  <2>1. /\ r.cam = None /\ inference' \in services'
        /\ Reconcile(c, r.wanted, Registered, workers, inference')
    BY <1>0, <1>2 DEF ServiceWarm, SwapIn
  <2> HIDE DEF Registered
  <2>2. Held(workers', running', reload')
    BY <1>0, <2>1, HeldReconcile
  <2> QED BY <2>1, <2>2 DEF RunInv
<1>3. CASE ServiceRestored(c) \/ RestoreFails(c)
  <2>1. /\ r.cam = None /\ UNCHANGED <<workers, running>> /\ Ends(c)
        /\ inference' \in services' \/ UNCHANGED <<inference, services>>
    BY <1>0, <1>3 DEF ServiceRestored, RestoreFails, SwapIn
  <2>2. Held(workers, running, reload')
    BY <1>0, <2>1, HeldGoesOn DEF Ends
  <2> QED BY <2>1, <2>2 DEF RunInv
<1>4. CASE WorkerStopped(c)
  <2> DEFINE ws == [workers EXCEPT ![r.cam] = None]
  <2>1. r.cam \in Cameras /\ UNCHANGED <<inference, services>>
    BY <1>0, <1>4 DEF WorkerStopped
  <2>2. Shaped(ws) /\ ws[r.cam] = None /\ Held(ws, running, reload)
    BY <1>0, <2>1 DEF Shaped, Held
  <2>3. \/ workers[r.cam] = None /\ Ends(c) /\ UNCHANGED <<workers, running>>
        \/ Reconcile(c, r.wanted, r.left, ws, inference)
    BY <1>4 DEF WorkerStopped
  <2> HIDE DEF ws
  <2>4. Held(workers', running', reload')
    <3>1. CASE workers[r.cam] = None /\ Ends(c) /\ UNCHANGED <<workers, running>>
      BY <1>0, <3>1, HeldGoesOn DEF Ends
    <3>2. CASE Reconcile(c, r.wanted, r.left, ws, inference)
      BY <1>0, <2>2, <3>2, HeldReconcile
    <3> QED BY <2>3, <3>1, <3>2
  <2> QED BY <2>1, <2>4 DEF RunInv
<1> QED BY <1>1, <1>2, <1>3, <1>4 DEF ReloadStep

LEMMA RunStep ==
  ASSUME TypeInv, RunInv, [Next]_vars
  PROVE  RunInv'
<1>1. CASE Start
  <2>1. /\ Shaped(workers) /\ file.cam \in [Cameras -> Settings]
        /\ inference' \in services' /\ reload' = reload /\ StartWorkers(file.cam, workers)
    BY <1>1 DEF Start, TypeInv, TypeOK, Config
  <2>2. /\ \A x \in Cameras : workers[x] # None => workers'[x] = workers[x]
        /\ \A x \in Cameras : workers[x] = None /\ workers'[x] # None => file.cam[x] \in Enabled
        /\ running' = running \cup {workers'[x] : x \in {y \in Cameras :
                          file.cam[y] \in Enabled /\ workers[y] = None}}
    BY <2>1, StartWorkersEffect
  <2> QED BY <2>1, <2>2 DEF RunInv, Held
<1>2. CASE Stop \/ Crash
  BY <1>2 DEF Stop, Crash, Halt, RunInv, Held
<1>3. CASE HandEdit \/ UNCHANGED vars
  BY <1>3 DEF HandEdit, vars, RunInv, Held
<1>4. ASSUME NEW c \in Clients, Request(c) PROVE RunInv'
  BY <1>4, RequestPersists, RunPersist
<1>5. ASSUME NEW c \in Clients, ReloadStep(c) PROVE RunInv'
  BY <1>5, RunReloadStep
<1> QED BY <1>1, <1>2, <1>3, <1>4, <1>5 DEF Next

(* However many reloads overlap, the supervisor never registers a worker   *)
(* or an inference service that has been stopped, save the worker a reload *)
(* is just replacing (supervisor.py:403, 446, 474).                        *)
THEOREM RegisteredWorkersRun == Spec => []RegisteredRuns
<1>1. Init => RunInv
  BY DEF Init, RunInv, Held
<1>2. RunInv => RegisteredRuns
  BY DEF RunInv, Held, RegisteredRuns, Registered
<1> QED BY <1>1, <1>2, TypeInit, TypeStep, RunStep, PTL DEF Spec

-----------------------------------------------------------------------------
(* The detector.  While reloads have not overlapped at most one is under   *)
(* way; while it rebuilds the detector there is none, and it builds what   *)
(* the site asks for.                                                      *)

Rebuilding(r) == r.pc \in {"stopping", "warming", "restoring"}

Serves(inf, runs, st, how, cfg) ==
  /\ how = "ok" => inf # None /\ runs = {inf} /\ inf.model = st /\ st = Effective(cfg)
  /\ how = "fallback" => inf # None /\ runs = {inf} /\ inf.model = EnvModel
  /\ how = "none" => inf = None /\ runs = {}

DetectorInv ==
  /\ up /\ ~overlapped =>
       /\ \A c, d \in Clients : reload[c] # Idle /\ reload[d] # Idle => c = d
       /\ \A c \in Clients :
            /\ Rebuilding(reload[c]) => inference = None /\ services = {}
            /\ reload[c].pc \in {"stopping", "warming"} =>
                 reload[c].model = Effective(site)
       /\ (\A c \in Clients : ~Rebuilding(reload[c])) =>
            Serves(inference, services, state, rebuilt, site)
  /\ ~up => /\ \A c \in Clients : reload[c] = Idle
            /\ inference = None /\ services = {} /\ rebuilt = "ok" /\ ~overlapped

Alone(c) == \A d \in Clients : d # c => reload[d] = Idle

LEMMA IdleRests == ~Rebuilding(Idle) /\ Idle.pc = "idle" /\ Idle.cam = None
BY DEF Rebuilding, Idle

(* The only reload goes on to r.                                           *)
LEMMA DetectorGoesOn ==
  ASSUME TypeInv, NEW c \in Clients, Alone(c), NEW r,
         reload' = [reload EXCEPT ![c] = r],
         up',
         Rebuilding(r) => inference' = None /\ services' = {},
         r.pc \in {"stopping", "warming"} => r.model = Effective(site'),
         ~Rebuilding(r) => Serves(inference', services', state', rebuilt', site')
  PROVE  DetectorInv'
<1>1. /\ reload'[c] = r
      /\ \A d \in Clients : d # c => reload'[d] = Idle
  BY DEF Alone, TypeInv, TypeOK
<1>2. \A d \in Clients :
         /\ Rebuilding(reload'[d]) => inference' = None /\ services' = {}
         /\ reload'[d].pc \in {"stopping", "warming"} => reload'[d].model = Effective(site')
  BY <1>1, IdleRests
<1> QED BY <1>1, <1>2 DEF DetectorInv

(* What the loop over the workers makes of the request.                    *)
LEMMA ReconcileGoesOn ==
  ASSUME NEW c \in Clients, NEW wanted, NEW left, NEW ws, NEW service,
         Reconcile(c, wanted, left, ws, service)
  PROVE  \E r : reload' = [reload EXCEPT ![c] = r] /\ r.pc \in {"idle", "replacing"}
<1>1. Ends(c) => reload' = [reload EXCEPT ![c] = Idle] /\ Idle.pc = "idle"
  BY IdleRests DEF Ends
<1>2. ASSUME ~Ends(c)
      PROVE  \E r : reload' = [reload EXCEPT ![c] = r] /\ r.pc = "replacing"
  <2>1. PICK x : reload' = [reload EXCEPT ![c] =
                             [pc |-> "replacing", wanted |-> wanted, model |-> EnvModel,
                              left |-> left \ {x}, cam |-> x]]
    BY <1>2 DEF Reconcile
  <2> DEFINE r == [pc |-> "replacing", wanted |-> wanted, model |-> EnvModel,
                   left |-> left \ {x}, cam |-> x]
  <2>2. reload' = [reload EXCEPT ![c] = r] /\ r.pc = "replacing"
    BY <2>1
  <2> HIDE DEF r
  <2> QED BY <2>2
<1> QED BY <1>1, <1>2

(* What building a detector, or the fallback, makes of it.                 *)
LEMMA DetectorRestore ==
  ASSUME TypeInv, NEW c \in Clients, Alone(c), up', NEW n, Restore(c, n),
         inference' = None, services' = {}
  PROVE  DetectorInv'
<1>1. CASE /\ Waits(c, "restoring", reload[c].wanted, EnvModel)
           /\ UNCHANGED <<failed, rebuilt>>
  <2> DEFINE r == [pc |-> "restoring", wanted |-> reload[c].wanted, model |-> EnvModel,
                   left |-> {}, cam |-> None]
  <2>1. reload' = [reload EXCEPT ![c] = r] /\ r.pc = "restoring"
    BY <1>1 DEF Waits
  <2> HIDE DEF r
  <2> QED BY <2>1, DetectorGoesOn DEF Rebuilding
<1>2. CASE Ends(c) /\ rebuilt' = "none"
  <2>1. Serves(inference', services', state', rebuilt', site')
    BY <1>2 DEF Serves
  <2> QED BY <1>2, <2>1, IdleRests, DetectorGoesOn DEF Ends
<1> QED BY <1>1, <1>2 DEF Restore

LEMMA DetectorBuild ==
  ASSUME TypeInv, NEW c \in Clients, Alone(c), up', NEW wanted,
         Build(c, Effective(site'), wanted),
         inference' = None, services' = {}
  PROVE  DetectorInv'
<1>1. CASE Waits(c, "warming", wanted, Effective(site'))
  <2> DEFINE r == [pc |-> "warming", wanted |-> wanted, model |-> Effective(site'),
                   left |-> {}, cam |-> None]
  <2>1. reload' = [reload EXCEPT ![c] = r] /\ r.pc = "warming" /\ r.model = Effective(site')
    BY <1>1 DEF Waits
  <2> HIDE DEF r
  <2> QED BY <2>1, DetectorGoesOn DEF Rebuilding
<1>2. CASE Restore(c, Mishaps(Effective(site')))
  BY <1>2, DetectorRestore
<1> QED BY <1>1, <1>2 DEF Build

LEMMA DetectorPersist ==
  ASSUME TypeInv, DetectorInv, NEW c \in Clients, NEW cfg \in Config, Persist(c, cfg)
  PROVE  DetectorInv'
<1>0. up /\ up' /\ site' = cfg /\ state' = state /\ reload[c] = Idle
  BY DEF Persist
<1>a. CASE overlapped'
  BY <1>0, <1>a DEF DetectorInv
<1>b. CASE ~overlapped'
  <2>1. ~overlapped /\ (\A d \in Clients : reload[d] = Idle) /\ Alone(c)
    BY <1>b DEF Persist, Alone
  <2>2. Serves(inference, services, state, rebuilt, site)
    BY <1>0, <2>1, IdleRests DEF DetectorInv
  <2>3. CASE state = Effective(cfg)
    <3>1. /\ Reconcile(c, cfg.cam, Registered, workers, inference)
          /\ UNCHANGED <<inference, services, rebuilt>>
      BY <2>3 DEF Persist
    <3>2. PICK r : reload' = [reload EXCEPT ![c] = r] /\ r.pc \in {"idle", "replacing"}
      BY <3>1, ReconcileGoesOn
    <3>3. Serves(inference', services', state', rebuilt', site')
      BY <1>0, <2>2, <2>3, <3>1 DEF Serves
    <3> QED BY <1>0, <2>1, <3>2, <3>3, DetectorGoesOn DEF Rebuilding
  <2>4. CASE state # Effective(cfg) /\ inference = None
    <3>1. Build(c, Effective(site'), cfg.cam) /\ UNCHANGED <<inference, services>>
      BY <1>0, <2>4 DEF Persist
    <3>2. services = {}
      BY <2>2, <2>4 DEF Serves, TypeInv, TypeOK
    <3> QED BY <1>0, <2>1, <2>4, <3>1, <3>2, DetectorBuild
  <2>5. CASE state # Effective(cfg) /\ inference # None
    <3> DEFINE r == [pc |-> "stopping", wanted |-> cfg.cam, model |-> Effective(cfg),
                     left |-> {}, cam |-> None]
    <3>1. /\ inference' = None /\ services' = services \ {inference}
          /\ reload' = [reload EXCEPT ![c] = r]
      BY <2>5 DEF Persist, Release, Waits
    <3>2. services' = {}
      BY <2>2, <2>5, <3>1 DEF Serves, TypeInv, TypeOK
    <3>3. r.pc = "stopping" /\ r.model = Effective(site')
      BY <1>0
    <3> HIDE DEF r
    <3> QED BY <1>0, <2>1, <3>1, <3>2, <3>3, DetectorGoesOn DEF Rebuilding
  <2> QED BY <2>3, <2>4, <2>5
<1> QED BY <1>a, <1>b

LEMMA DetectorReloadStep ==
  ASSUME TypeInv, DetectorInv, NEW c \in Clients, ReloadStep(c)
  PROVE  DetectorInv'
<1> DEFINE r == reload[c]
<1>0. /\ r.pc \in {"stopping", "warming", "restoring", "replacing"} /\ r # Idle
      /\ up' = up /\ overlapped' = overlapped /\ site' = site
      /\ r.model \in Models /\ EnvModel \in Models
  BY IdleRests, ReloadAssumption
     DEF ReloadStep, ServiceStopped, WarmUpFails, ServiceWarm, ServiceRestored,
         RestoreFails, WorkerStopped, TypeInv, TypeOK, Reload
<1>1. up
  BY <1>0 DEF DetectorInv
<1>a. CASE overlapped
  BY <1>0, <1>1, <1>a DEF DetectorInv
<1>b. CASE ~overlapped
  <2>1. Alone(c)
    BY <1>0, <1>1, <1>b DEF DetectorInv, Alone
  <2>2. /\ r.pc # "replacing" => inference = None /\ services = {}
        /\ r.pc \in {"stopping", "warming"} => r.model = Effective(site)
    BY <1>0, <1>1, <1>b DEF DetectorInv, Rebuilding
  <2>3. CASE ServiceStopped(c)
    <3>1. Build(c, Effective(site'), r.wanted) /\ inference' = None /\ services' = {}
      BY <1>0, <2>2, <2>3 DEF ServiceStopped
    <3> QED BY <1>0, <1>1, <2>1, <3>1, DetectorBuild
  <2>4. CASE WarmUpFails(c)
    <3>1. Restore(c, 1) /\ inference' = None /\ services' = {}
      BY <1>0, <2>2, <2>4 DEF WarmUpFails
    <3> QED BY <1>0, <1>1, <2>1, <3>1, DetectorRestore
  <2>5. CASE ServiceWarm(c)
    <3>1. /\ SwapIn(r.model) /\ rebuilt' = "ok"
          /\ Reconcile(c, r.wanted, Registered, workers, inference')
      BY <2>5 DEF ServiceWarm
    <3>2. PICK q : reload' = [reload EXCEPT ![c] = q] /\ q.pc \in {"idle", "replacing"}
      BY <3>1, ReconcileGoesOn
    <3>3. inference' # None /\ inference'.model = r.model
      BY <1>0, <3>1, SwapInType
    <3>4. services' = {inference'} /\ state' = Effective(site) /\ r.model = Effective(site)
      BY <2>2, <2>5, <3>1 DEF SwapIn, ServiceWarm
    <3>5. Serves(inference', services', state', rebuilt', site')
      BY <1>0, <3>1, <3>3, <3>4 DEF Serves
    <3> QED BY <1>0, <1>1, <2>1, <3>2, <3>5, DetectorGoesOn DEF Rebuilding
  <2>6. CASE ServiceRestored(c)
    <3>1. SwapIn(EnvModel) /\ rebuilt' = "fallback" /\ Ends(c)
      BY <2>6 DEF ServiceRestored
    <3>2. inference' # None /\ inference'.model = EnvModel
      BY <1>0, <3>1, SwapInType
    <3>3. services' = {inference'}
      BY <2>2, <2>6, <3>1 DEF SwapIn, ServiceRestored
    <3>4. Serves(inference', services', state', rebuilt', site')
      BY <3>1, <3>2, <3>3 DEF Serves
    <3> QED BY <1>0, <1>1, <2>1, <3>1, <3>4, IdleRests, DetectorGoesOn DEF Ends
  <2>7. CASE RestoreFails(c)
    <3>1. /\ Ends(c) /\ rebuilt' = "none" /\ inference' = None /\ services' = {}
      BY <2>2, <2>7 DEF RestoreFails
    <3>2. Serves(inference', services', state', rebuilt', site')
      BY <3>1 DEF Serves
    <3> QED BY <1>0, <1>1, <2>1, <3>1, <3>2, IdleRests, DetectorGoesOn DEF Ends
  <2>8. CASE WorkerStopped(c)
    <3>1. r.pc = "replacing" /\ UNCHANGED <<inference, services, state, rebuilt>>
      BY <2>8 DEF WorkerStopped
    <3>2. \A d \in Clients : ~Rebuilding(reload[d])
      BY <2>1, <3>1, IdleRests DEF Alone, Rebuilding
    <3>3. Serves(inference', services', state', rebuilt', site')
      BY <1>0, <1>1, <1>b, <3>1, <3>2 DEF DetectorInv
    <3>4. \/ Ends(c)
          \/ Reconcile(c, r.wanted, r.left, [workers EXCEPT ![r.cam] = None], inference)
      BY <2>8 DEF WorkerStopped
    <3>5. PICK q : reload' = [reload EXCEPT ![c] = q] /\ q.pc \in {"idle", "replacing"}
      BY <3>4, IdleRests, ReconcileGoesOn DEF Ends
    <3> QED BY <1>0, <1>1, <2>1, <3>3, <3>5, DetectorGoesOn DEF Rebuilding
  <2> QED BY <2>3, <2>4, <2>5, <2>6, <2>7, <2>8 DEF ReloadStep
<1> QED BY <1>a, <1>b

LEMMA DetectorStep ==
  ASSUME TypeInv, DetectorInv, [Next]_vars
  PROVE  DetectorInv'
<1>1. CASE Start
  <2>1. /\ \A c \in Clients : reload'[c] = Idle
        /\ rebuilt' = "ok" /\ up'
    BY <1>1 DEF Start, DetectorInv
  <2>2. Effective(file) \in Models
    BY EffectiveOK DEF TypeInv, TypeOK
  <2>3. /\ inference' # None /\ inference'.model = Effective(file)
        /\ services' = {inference'} /\ state' = Effective(file) /\ site' = file
    BY <1>1, <2>2, NewServiceOK, NoneAssumption DEF Start
  <2>4. Serves(inference', services', state', rebuilt', site')
    BY <2>1, <2>3 DEF Serves
  <2> QED BY <2>1, <2>4, IdleRests DEF DetectorInv
<1>2. CASE Stop \/ Crash
  BY <1>2 DEF Stop, Crash, Halt, DetectorInv
<1>3. CASE HandEdit \/ UNCHANGED vars
  BY <1>3 DEF HandEdit, vars, DetectorInv
<1>4. ASSUME NEW c \in Clients, Request(c) PROVE DetectorInv'
  BY <1>4, RequestPersists, DetectorPersist
<1>5. ASSUME NEW c \in Clients, ReloadStep(c) PROVE DetectorInv'
  BY <1>5, DetectorReloadStep
<1> QED BY <1>1, <1>2, <1>3, <1>4, <1>5 DEF Next

(* Once the reloads are through, and if they did not overlap, exactly one  *)
(* detector runs, the one the site asks for unless its build failed; the   *)
(* site is blind only where the fallback failed as well                    *)
(* (supervisor.py:441-474).                                                *)
THEOREM DetectorIsConfigured == Spec => []DetectorFollowsConfig
<1>1. Init => DetectorInv
  BY DEF Init, DetectorInv
<1>2. TypeInv /\ DetectorInv => DetectorFollowsConfig
  <2> SUFFICES ASSUME TypeInv, DetectorInv, Settled, ~overlapped
               PROVE  /\ services = {inference} \ {None}
                      /\ inference = None <=> rebuilt = "none"
                      /\ rebuilt = "ok" => inference.model = Effective(site)
    BY DEF DetectorFollowsConfig
  <2>1. Serves(inference, services, state, rebuilt, site)
    BY IdleRests DEF DetectorInv, Settled
  <2>2. rebuilt \in {"ok", "fallback", "none"}
    BY DEF TypeInv, TypeOK
  <2> QED BY <2>1, <2>2 DEF Serves
<1> QED BY <1>1, <1>2, TypeInit, TypeStep, DetectorStep, PTL DEF Spec

-----------------------------------------------------------------------------
(* The workers.  While reloads have not overlapped the workers that run    *)
(* are the registered ones, without the one just being replaced; and a     *)
(* reload in its loop has left those behind it as the site wants them.     *)

Exact(ws, runs, rl) ==
  runs = {ws[x] : x \in {y \in Cameras : ws[y] # None /\ \A c \in Clients : rl[c].cam # y}}

Behind(ws, r) ==
  \A x \in Cameras \ r.left : x # r.cam /\ ws[x] # None => ws[x].conf = r.wanted[x]

Match(ws, cam) ==
  \A x \in Cameras : IF cam[x] \in Enabled THEN ws[x] # None /\ ws[x].conf = cam[x]
                     ELSE ws[x] = None

WorkersInv ==
  /\ up /\ ~overlapped =>
       /\ Exact(workers, running, reload)
       /\ \A c \in Clients :
            /\ reload[c].pc \in {"stopping", "warming", "replacing"} =>
                 reload[c].wanted = site.cam
            /\ reload[c].pc = "replacing" => Behind(workers, reload[c])
       /\ (\A c \in Clients : reload[c] = Idle) /\ ~failed /\ inference # None =>
            Match(workers, site.cam)
  /\ ~up => running = {} /\ \A x \in Cameras : workers[x] = None

(* The only reload goes on to r, which replaces nothing yet.               *)
LEMMA ExactGoesOn ==
  ASSUME TypeInv, NEW c \in Clients, Alone(c), NEW ws, NEW r,
         reload' = [reload EXCEPT ![c] = r], r.cam = None,
         Exact(ws, running, reload),
         reload[c].cam \in Cameras => ws[reload[c].cam] = None
  PROVE  Exact(ws, running, reload')
<1>1. /\ reload'[c] = r
      /\ \A d \in Clients : d # c => reload'[d] = Idle /\ reload[d] = Idle
  BY DEF Alone, TypeInv, TypeOK
<1>2. \A y \in Cameras : ws[y] # None =>
         ((\A d \in Clients : reload[d].cam # y) <=> (\A d \in Clients : reload'[d].cam # y))
  BY <1>1, IdleRests, NoneAssumption
<1> QED BY <1>2 DEF Exact

LEMMA WorkersReconcile ==
  ASSUME TypeInv, NEW c \in Clients, Alone(c), NEW wanted \in [Cameras -> Settings],
         NEW left \in SUBSET Cameras, NEW ws, Shaped(ws), NEW service,
         Exact(ws, running, reload),
         reload[c].cam \in Cameras => ws[reload[c].cam] = None,
         \A x \in Cameras \ left : ws[x] # None => ws[x].conf = wanted[x],
         Reconcile(c, wanted, left, ws, service)
  PROVE  /\ Exact(workers', running', reload')
         /\ \/ /\ reload'[c].wanted = wanted
               /\ reload'[c].pc = "replacing" /\ Behind(workers', reload'[c])
            \/ /\ reload'[c] = Idle
               /\ ~failed' /\ service # None => Match(workers', wanted)
<1> DEFINE gone == {x \in left : ws[x] = None}
           differ == {x \in left \ gone : Differs(ws[x].conf, wanted[x])}
<1>0. reload \in [Clients -> Reload] /\ None \notin Cameras
  BY NoneAssumption DEF TypeInv, TypeOK
<1>a. ASSUME Ends(c)
      PROVE  reload'[c] = Idle /\ Exact(ws, running, reload')
  BY <1>0, <1>a, IdleRests, ExactGoesOn DEF Ends
<1>1. ASSUME NEW x \in differ,
             reload' = [reload EXCEPT ![c] =
                          [pc |-> "replacing", wanted |-> wanted, model |-> EnvModel,
                           left |-> left \ {x}, cam |-> x]],
             running' = running \ {ws[x]}, workers' = ws
      PROVE  /\ Exact(workers', running', reload') /\ reload'[c].wanted = wanted
             /\ reload'[c].pc = "replacing" /\ Behind(workers', reload'[c])
  <2> DEFINE r == [pc |-> "replacing", wanted |-> wanted, model |-> EnvModel,
                   left |-> left \ {x}, cam |-> x]
  <2>1. /\ reload' = [reload EXCEPT ![c] = r] /\ r.pc = "replacing"
        /\ r.wanted = wanted /\ r.left = left \ {x} /\ r.cam = x
    BY <1>1
  <2> HIDE DEF r
  <2>2. /\ reload'[c] = r
        /\ \A d \in Clients : d # c => reload'[d] = Idle /\ reload[d] = Idle
    BY <1>0, <2>1 DEF Alone
  <2>3. Behind(workers', r)
    BY <1>1, <2>1 DEF Behind
  <2>4. x \in Cameras /\ ws[x] # None
    BY <1>1
  <2>5. \A y \in Cameras : y # x /\ ws[y] # None => ws[y] # ws[x]
    BY <2>4 DEF Shaped
  <2>6. \A y \in Cameras : ws[y] # None =>
           ((\A d \in Clients : reload'[d].cam # y) <=>
              y # x /\ \A d \in Clients : reload[d].cam # y)
    BY <1>0, <2>1, <2>2, IdleRests
  <2>7. Exact(ws, running \ {ws[x]}, reload')
    BY <2>4, <2>5, <2>6 DEF Exact
  <2> QED BY <1>1, <2>1, <2>2, <2>3, <2>7
<1>2. CASE Ends(c) /\ failed' = TRUE /\ workers' = ws /\ UNCHANGED running
  BY <1>a, <1>2
<1>3. CASE gone = {} /\ differ = {} /\ Ends(c) /\ service # None /\ StartWorkers(wanted, ws)
  <2>1. \A x \in Cameras : ws[x] # None => ws[x].conf = wanted[x]
    BY <1>3 DEF Differs
  <2>2. /\ \A x \in Cameras : ws[x] # None => workers'[x] = ws[x]
        /\ \A x \in Cameras : ws[x] = None =>
             IF wanted[x] \in Enabled
             THEN workers'[x] # None /\ workers'[x].conf = wanted[x]
             ELSE workers'[x] = None
        /\ running' = running \cup {workers'[x] : x \in {y \in Cameras :
                         wanted[y] \in Enabled /\ ws[y] = None}}
    BY <1>3, StartWorkersEffect
  <2>3. \A x \in Cameras : ws[x] # None => ws[x].conf \in Enabled
    BY DEF Shaped, Worker
  <2>4. Match(workers', wanted)
    BY <2>1, <2>2, <2>3 DEF Match
  <2>5. Exact(ws, running, reload') /\ reload'[c] = Idle
    BY <1>3, <1>a
  <2>6. \A d \in Clients : reload'[d].cam = None
    BY <1>0, <1>3, IdleRests DEF Ends, Alone
  <2>7. Exact(workers', running', reload')
    BY <1>0, <2>2, <2>5, <2>6 DEF Exact
  <2> QED BY <2>4, <2>5, <2>7
<1>4. CASE Ends(c) /\ service = None /\ workers' = ws /\ UNCHANGED running
  BY <1>a, <1>4
<1> QED BY <1>1, <1>2, <1>3, <1>4 DEF Reconcile

(* The only reload goes on to r, and the workers are left alone.           *)
LEMMA WorkersGoOn ==
  ASSUME TypeInv, NEW c \in Clients, Alone(c), up', Exact(workers, running, reload),
         UNCHANGED <<workers, running>>,
         NEW r, reload' = [reload EXCEPT ![c] = r], r.cam = None, r.pc # "replacing",
         r.pc \in {"stopping", "warming"} => r.wanted = site'.cam,
         reload[c].cam \in Cameras => workers[reload[c].cam] = None,
         r = Idle /\ ~failed' => inference' = None
  PROVE  WorkersInv'
<1>1. /\ reload'[c] = r
      /\ \A d \in Clients : d # c => reload'[d] = Idle
  BY DEF Alone, TypeInv, TypeOK
<1>2. Exact(workers', running', reload')
  BY ExactGoesOn
<1>3. \A d \in Clients :
         /\ reload'[d].pc # "replacing"
         /\ reload'[d].pc \in {"stopping", "warming"} => reload'[d].wanted = site'.cam
  BY <1>1, IdleRests
<1> QED BY <1>1, <1>2, <1>3 DEF WorkersInv

(* The only reload goes through its loop.                                  *)
LEMMA WorkersLoop ==
  ASSUME TypeInv, NEW c \in Clients, Alone(c), up', site'.cam \in [Cameras -> Settings],
         NEW left \in SUBSET Cameras, NEW ws, Shaped(ws),
         Exact(ws, running, reload),
         reload[c].cam \in Cameras => ws[reload[c].cam] = None,
         \A x \in Cameras \ left : ws[x] # None => ws[x].conf = site'.cam[x],
         Reconcile(c, site'.cam, left, ws, inference')
  PROVE  WorkersInv'
<1>1. /\ Exact(workers', running', reload')
      /\ \/ /\ reload'[c].wanted = site'.cam
            /\ reload'[c].pc = "replacing" /\ Behind(workers', reload'[c])
         \/ /\ reload'[c] = Idle
            /\ ~failed' /\ inference' # None => Match(workers', site'.cam)
  BY WorkersReconcile
<1>2. \A d \in Clients : d # c => reload'[d] = Idle
  <2>1. \E r : reload' = [reload EXCEPT ![c] = r]
    BY ReconcileGoesOn
  <2> QED BY <2>1 DEF Alone, TypeInv, TypeOK
<1>3. \A d \in Clients :
         /\ reload'[d].pc \in {"stopping", "warming", "replacing"} =>
              reload'[d].wanted = site'.cam
         /\ reload'[d].pc = "replacing" => Behind(workers', reload'[d])
  BY <1>1, <1>2, IdleRests
<1>4. (\A d \in Clients : reload'[d] = Idle) /\ ~failed' /\ inference' # None =>
         Match(workers', site'.cam)
  BY <1>1, IdleRests
<1> QED BY <1>1, <1>3, <1>4 DEF WorkersInv

LEMMA WorkersBuild ==
  ASSUME TypeInv, NEW c \in Clients, Alone(c), up', Exact(workers, running, reload),
         UNCHANGED <<workers, running>>, reload[c].cam = None,
         NEW model, NEW n, Build(c, model, site'.cam) \/ Restore(c, n)
  PROVE  WorkersInv'
<1>0. reload[c].cam \notin Cameras
  BY NoneAssumption
<1>1. CASE Waits(c, "warming", site'.cam, model)
  <2> DEFINE r == [pc |-> "warming", wanted |-> site'.cam, model |-> model,
                   left |-> {}, cam |-> None]
  <2>1. /\ reload' = [reload EXCEPT ![c] = r] /\ r.pc = "warming" /\ r.wanted = site'.cam
        /\ r.cam = None
    BY <1>1 DEF Waits
  <2> HIDE DEF r
  <2> QED BY <1>0, <2>1, IdleRests, WorkersGoOn
<1>2. CASE Waits(c, "restoring", reload[c].wanted, EnvModel)
  <2> DEFINE r == [pc |-> "restoring", wanted |-> reload[c].wanted, model |-> EnvModel,
                   left |-> {}, cam |-> None]
  <2>1. reload' = [reload EXCEPT ![c] = r] /\ r.pc = "restoring" /\ r.cam = None
    BY <1>2 DEF Waits
  <2> HIDE DEF r
  <2> QED BY <1>0, <2>1, IdleRests, WorkersGoOn
<1>3. CASE Ends(c) /\ failed' = TRUE
  BY <1>0, <1>3, IdleRests, WorkersGoOn DEF Ends
<1> QED BY <1>1, <1>2, <1>3 DEF Build, Restore

LEMMA WorkersPersist ==
  ASSUME TypeInv, WorkersInv, NEW c \in Clients, NEW cfg \in Config, Persist(c, cfg)
  PROVE  WorkersInv'
<1>0. /\ up /\ up' /\ site' = cfg /\ reload[c] = Idle /\ reload[c].cam = None
      /\ None \notin Cameras /\ Shaped(workers) /\ cfg.cam \in [Cameras -> Settings]
  BY IdleRests, NoneAssumption DEF Persist, TypeInv, Config
<1>a. CASE overlapped'
  BY <1>0, <1>a DEF WorkersInv
<1>b. CASE ~overlapped'
  <2>1. ~overlapped /\ Alone(c) /\ Exact(workers, running, reload)
    BY <1>0, <1>b DEF Persist, Alone, WorkersInv
  <2>2. CASE state = Effective(cfg)
    <3>1. Reconcile(c, site'.cam, Registered, workers, inference')
      BY <1>0, <2>2 DEF Persist
    <3>2. /\ Registered \in SUBSET Cameras
          /\ \A x \in Cameras \ Registered : workers[x] = None
      BY DEF Registered
    <3> HIDE DEF Registered
    <3> QED BY <1>0, <2>1, <3>1, <3>2, WorkersLoop
  <2>3. CASE state # Effective(cfg) /\ inference = None
    <3>1. Build(c, Effective(cfg), site'.cam) /\ UNCHANGED <<workers, running>>
      BY <1>0, <2>3 DEF Persist
    <3> QED BY <1>0, <2>1, <3>1, WorkersBuild
  <2>4. CASE state # Effective(cfg) /\ inference # None
    <3> DEFINE r == [pc |-> "stopping", wanted |-> cfg.cam, model |-> Effective(cfg),
                     left |-> {}, cam |-> None]
    <3>1. UNCHANGED <<workers, running>> /\ reload' = [reload EXCEPT ![c] = r]
      BY <2>4 DEF Persist, Waits
    <3>2. r.pc = "stopping" /\ r.wanted = site'.cam /\ r.cam = None
      BY <1>0
    <3> HIDE DEF r
    <3> QED BY <1>0, <2>1, <3>1, <3>2, IdleRests, WorkersGoOn
  <2> QED BY <2>2, <2>3, <2>4
<1> QED BY <1>a, <1>b

LEMMA WorkersReloadStep ==
  ASSUME TypeInv, DetectorInv, WorkersInv, NEW c \in Clients, ReloadStep(c)
  PROVE  WorkersInv'
<1> DEFINE r == reload[c]
<1>0. /\ r.pc \in {"stopping", "warming", "restoring", "replacing"} /\ r # Idle
      /\ up' = up /\ overlapped' = overlapped /\ site' = site
      /\ site'.cam \in [Cameras -> Settings] /\ r.left \in SUBSET Cameras
      /\ None \notin Cameras /\ Shaped(workers)
      /\ r.pc = "replacing" => r.cam \in Cameras
      /\ r.pc # "replacing" => r.cam = None
  BY IdleRests, NoneAssumption
     DEF ReloadStep, ServiceStopped, WarmUpFails, ServiceWarm, ServiceRestored,
         RestoreFails, WorkerStopped, TypeInv, TypeOK, Config, Reload, ReloadOK
<1>1. up
  BY <1>0 DEF DetectorInv
<1>a. CASE overlapped
  BY <1>0, <1>1, <1>a DEF WorkersInv
<1>b. CASE ~overlapped
  <2>1. Alone(c)
    BY <1>0, <1>1, <1>b DEF DetectorInv, Alone
  <2>2. /\ Exact(workers, running, reload)
        /\ r.pc \in {"stopping", "warming", "replacing"} => r.wanted = site'.cam
        /\ r.pc = "replacing" => Behind(workers, r)
    BY <1>0, <1>1, <1>b DEF WorkersInv
  <2>3. CASE ServiceStopped(c) \/ WarmUpFails(c)
    <3>1. /\ Build(c, r.model, site'.cam) \/ Restore(c, 1)
          /\ UNCHANGED <<workers, running>> /\ r.cam = None
      BY <1>0, <2>2, <2>3 DEF ServiceStopped, WarmUpFails
    <3> QED BY <1>0, <1>1, <2>1, <2>2, <3>1, WorkersBuild
  <2>4. CASE ServiceWarm(c)
    <3>1. Reconcile(c, site'.cam, Registered, workers, inference') /\ r.cam = None
      BY <1>0, <2>2, <2>4 DEF ServiceWarm
    <3>2. /\ Registered \in SUBSET Cameras
          /\ \A x \in Cameras \ Registered : workers[x] = None
      BY DEF Registered
    <3> HIDE DEF Registered
    <3> QED BY <1>0, <1>1, <2>1, <2>2, <3>1, <3>2, WorkersLoop
  <2>5. CASE ServiceRestored(c) \/ RestoreFails(c)
    <3>1. Ends(c) /\ failed' = TRUE /\ UNCHANGED <<workers, running>> /\ r.cam = None
      BY <1>0, <2>5 DEF ServiceRestored, RestoreFails
    <3> QED BY <1>0, <1>1, <2>1, <2>2, <3>1, IdleRests, WorkersGoOn DEF Ends
  <2>6. CASE WorkerStopped(c)
    <3> DEFINE ws == [workers EXCEPT ![r.cam] = None]
    <3>1. r.pc = "replacing" /\ r.cam \in Cameras /\ inference' = inference
      BY <1>0, <2>6 DEF WorkerStopped
    <3>2. CASE workers[r.cam] = None
      <4>1. Ends(c) /\ failed' = TRUE /\ UNCHANGED <<workers, running>>
        BY <2>6, <3>2 DEF WorkerStopped
      <4> QED BY <1>0, <1>1, <2>1, <2>2, <3>2, <4>1, IdleRests, WorkersGoOn DEF Ends
    <3>3. CASE workers[r.cam] # None
      <4>1. Reconcile(c, site'.cam, r.left, ws, inference')
        BY <2>2, <2>6, <3>1, <3>3 DEF WorkerStopped
      <4>2. /\ Shaped(ws) /\ ws[r.cam] = None
            /\ \A y \in Cameras : y # r.cam => ws[y] = workers[y]
        BY <1>0, <3>1 DEF Shaped
      <4>3. \A x \in Cameras \ r.left : ws[x] # None => ws[x].conf = site'.cam[x]
        BY <2>2, <3>1, <4>2 DEF Behind
      <4> HIDE DEF ws
      <4>4. Exact(ws, running, reload)
        BY <2>2, <4>2 DEF Exact
      <4> QED BY <1>0, <1>1, <2>1, <4>1, <4>2, <4>3, <4>4, WorkersLoop
    <3> QED BY <3>2, <3>3
  <2> QED BY <2>3, <2>4, <2>5, <2>6 DEF ReloadStep
<1> QED BY <1>a, <1>b

LEMMA WorkersStep ==
  ASSUME TypeInv, DetectorInv, WorkersInv, [Next]_vars
  PROVE  WorkersInv'
<1>1. CASE Start
  <2>1. /\ Shaped(workers) /\ site'.cam \in [Cameras -> Settings]
        /\ StartWorkers(site'.cam, workers) /\ up' /\ site' = file
        /\ \A c \in Clients : reload'[c] = Idle
        /\ running = {} /\ \A x \in Cameras : workers[x] = None
    BY <1>1 DEF Start, TypeInv, TypeOK, Config, DetectorInv, WorkersInv
  <2>2. /\ \A x \in Cameras : IF site'.cam[x] \in Enabled
                              THEN workers'[x] # None /\ workers'[x].conf = site'.cam[x]
                              ELSE workers'[x] = None
        /\ running' = running \cup {workers'[x] : x \in {y \in Cameras :
                         site'.cam[y] \in Enabled /\ workers[y] = None}}
    BY <2>1, StartWorkersEffect
  <2>3. Match(workers', site'.cam)
    BY <2>2 DEF Match
  <2>4. Exact(workers', running', reload')
    BY <2>1, <2>2, IdleRests, NoneAssumption DEF Exact
  <2> QED BY <2>1, <2>3, <2>4, IdleRests DEF WorkersInv
<1>2. CASE Stop \/ Crash
  BY <1>2 DEF Stop, Crash, Halt, WorkersInv
<1>3. CASE HandEdit \/ UNCHANGED vars
  BY <1>3 DEF HandEdit, vars, WorkersInv, Exact, Match, Behind
<1>4. ASSUME NEW c \in Clients, Request(c) PROVE WorkersInv'
  BY <1>4, RequestPersists, WorkersPersist
<1>5. ASSUME NEW c \in Clients, ReloadStep(c) PROVE WorkersInv'
  BY <1>5, WorkersReloadStep
<1> QED BY <1>1, <1>2, <1>3, <1>4, <1>5 DEF Next

(* ... and each enabled camera has exactly one worker, with the settings   *)
(* the site gives it, and nothing else runs (supervisor.py:403-416).       *)
THEOREM WorkersAreConfigured == Spec => []WorkersFollowConfig
<1>1. Init => WorkersInv
  BY DEF Init, WorkersInv
<1>2. TypeInv /\ DetectorInv /\ WorkersInv => WorkersFollowConfig
  <2> SUFFICES ASSUME TypeInv, DetectorInv, WorkersInv,
                      Settled, ~overlapped, ~failed, rebuilt # "none"
               PROVE  /\ running = {workers[x] : x \in Registered}
                      /\ Registered = {x \in Cameras : site.cam[x] \in Enabled}
                      /\ \A x \in Registered : workers[x].conf = site.cam[x]
    BY DEF WorkersFollowConfig
  <2>1. up /\ \A c \in Clients : reload[c] = Idle /\ reload[c].cam \notin Cameras
    BY IdleRests, NoneAssumption DEF Settled
  <2>2. Serves(inference, services, state, rebuilt, site)
    BY <2>1, IdleRests DEF DetectorInv
  <2>3. inference # None
    BY <2>2 DEF Serves, TypeInv, TypeOK
  <2>4. Match(workers, site.cam) /\ Exact(workers, running, reload)
    BY <2>1, <2>3 DEF WorkersInv
  <2>5. \A x \in Cameras : IF site.cam[x] \in Enabled
                           THEN workers[x] # None /\ workers[x].conf = site.cam[x]
                           ELSE workers[x] = None
    BY <2>4 DEF Match
  <2>6. running = {workers[x] : x \in {y \in Cameras : workers[y] # None}}
    BY <2>1, <2>4 DEF Exact
  <2> QED BY <2>5, <2>6 DEF Registered
<1>3. Init => DetectorInv
  BY DEF Init, DetectorInv
<1> QED BY <1>1, <1>2, <1>3, TypeInit, TypeStep, DetectorStep, WorkersStep, PTL DEF Spec

===============================================================================
