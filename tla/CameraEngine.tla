---------------------------- MODULE CameraEngine ----------------------------
(***************************************************************************)
(* The confirmation state machine of one camera: CameraIncidentEngine, and *)
(* what IncidentEngine.reconfigure does to it (incident/engine.py).        *)
(*                                                                         *)
(* The picture is a row of cells and a box is an interval of them, so that *)
(* areas, envelopes, overlaps and zones are computed as the code computes  *)
(* them.  A frame is the set of its detections.  Time arrives with the     *)
(* frames; of the timestamps only the time since the last hit is kept.     *)
(* The long area history, which only feeds the severity, is abstracted to  *)
(* an input: whether the growth ratio is at least 1.6.                     *)
(***************************************************************************)
EXTENDS Naturals, Sequences, FiniteSets, FiniteSetsExt, Functions

CONSTANTS
    Cells,        \* the columns of the picture
    Views,        \* the frames the camera may deliver
    Configs,      \* the camera configurations an operator may choose
    MaxWindow,    \* the longest window among them
    MaxGap,       \* longest time between two observed frames
    MaxEdits      \* bound on the number of edits and re-addings

Interval(B) == \A a, b \in B : (a .. b) \subseteq B

Boxes == {B \in SUBSET Cells : B # {} /\ Interval(B)}

(* sure: the confidence reaches the threshold of the label.                *)
Detections == [label : {"fire", "smoke", "person"}, sure : BOOLEAN, box : Boxes]

(* ConfirmConfig with what _check validates (iou and tolerance in percent) *)
(* and exclude_zones.                                                      *)
IsConfig(c) ==
    /\ c.window \in 1 .. MaxWindow
    /\ c.required \in 1 .. c.window
    /\ c.stability \in 1 .. c.required
    /\ c.iou \in 0 .. 100
    /\ c.growth \in BOOLEAN /\ c.tolerance \in 0 .. 100
    /\ c.minArea \in Nat
    /\ c.clear \in Nat \ {0}
    /\ c.zones \subseteq SUBSET Cells

ASSUME EngineAssumption ==
    /\ Cells \subseteq Nat /\ IsFiniteSet(Cells)
    /\ MaxWindow \in Nat
    /\ Views \subseteq SUBSET Detections /\ {} \in Views
    /\ \A c \in Configs : IsConfig(c)
    /\ MaxGap \in Nat \ {0}
    /\ MaxEdits \in Nat

VARIABLES
    present,    \* IncidentEngine._engines has this camera
    eng,        \* its CameraIncidentEngine
    scene,      \* the frame the camera delivers
    edits,      \* edits and re-addings so far
    seen,       \* history: the latest frames, whatever became of the engine,
                \* each with the configuration in force when it came
    dismissed,  \* history: an operator cancelled, and since then neither was the
                \* camera quiet for a window of frames nor its engine replaced
    fresh       \* history: there was a hit since the last close

vars == <<present, eng, scene, edits, seen, dismissed, fresh>>

(* _zones and the deque's maxlen are set once, when the engine is built.   *)
NewEngine(c) ==
    [cfg |-> c, zones |-> c.zones, maxlen |-> c.window, window |-> <<>>,
     state |-> "idle", open |-> FALSE, severity |-> "warning", idle |-> 0,
     suppress |-> FALSE]

Engine ==
    [cfg : Configs, zones : SUBSET SUBSET Cells, maxlen : Nat,
     window : Seq(SUBSET Detections),
     state : {"idle", "candidate", "confirmed"}, open : BOOLEAN,
     severity : {"warning", "critical"}, idle : Nat, suppress : BOOLEAN]

Sighting == [frame : Views, cfg : Configs]

TypeOK ==
    /\ present \in BOOLEAN
    /\ eng \in Engine /\ Len(eng.window) <= eng.maxlen
    /\ scene \in Views
    /\ edits \in 0 .. MaxEdits
    /\ seen \in Seq(Sighting) /\ Len(seen) <= MaxWindow
    /\ dismissed \in BOOLEAN
    /\ fresh \in BOOLEAN

Init ==
    /\ present = TRUE
    /\ eng \in {NewEngine(c) : c \in Configs}
    /\ scene = {}
    /\ edits = 0
    /\ seen = <<>>
    /\ dismissed = FALSE
    /\ fresh = FALSE

-----------------------------------------------------------------------------
(* Mutant: one frame too many is kept.                                    *)
LastN_OneMore(s, n) ==
    SubSeq(s, IF Len(s) > n THEN Len(s) - n ELSE 1, Len(s))

LastN(s, n) == SubSeq(s, IF Len(s) > n THEN Len(s) - n + 1 ELSE 1, Len(s))

(* The cell in which the centre of the k-th of seven equal columns of a    *)
(* box lies (box_overlap_fraction samples a grid of 7 x 7 such centres).   *)
SampleCell(box, k) == Min(box) + (Cardinality(box) * (2 * k + 1)) \div 14

(* ZoneMask.excludes: one zone holds at least 60 percent of the samples.   *)
Excludes(zones, box) ==
    \E z \in zones :
        10 * Cardinality({k \in 0 .. 6 : SampleCell(box, k) \in z}) >= 6 * 7

(* _filter: the detections of a frame that count.                          *)
Filter(frame, c, zones) ==
    {d \in frame : /\ d.label \in {"fire", "smoke"}
                   /\ d.sure
                   /\ Cardinality(d.box) >= c.minArea
                   /\ ~Excludes(zones, d.box)}

Covered(o) == UNION {d.box : d \in o}

Area(o) == Cardinality(Covered(o))

(* The smallest box around all detections of an observation.               *)
Envelope(o) == Min(Covered(o)) .. Max(Covered(o))

Overlaps(a, b, percent) ==
    100 * Cardinality(a \cap b) >= percent * Cardinality(a \cup b)

(* The places of the hits in a window.                                     *)
Hits(w) == {k \in DOMAIN w : w[k] # {}}

(* largest_stable_cluster(...) >= n                                        *)
StableCluster(w, percent, n) ==
    \E k \in Hits(w) :
        Cardinality({j \in Hits(w) :
            Overlaps(Envelope(w[k]), Envelope(w[j]), percent)}) >= n

TotalArea(w, places) == MapThenSumSet(LAMBDA k : Area(w[k]), places)

(* The first half of the hits, the smaller one when their number is odd.   *)
FirstHalf(w) ==
    {k \in Hits(w) : 2 * Cardinality({j \in Hits(w) : j <= k}) <= Cardinality(Hits(w))}

(* Mutant: the area has to grow.                                           *)
AreaNotShrinking_MustGrow(w, tolerance) ==
    LET n == Cardinality(Hits(w))
        half == n \div 2
        first == TotalArea(w, FirstHalf(w))
        second == TotalArea(w, Hits(w) \ FirstHalf(w))
    IN  n < 4 \/ second * half > first * (n - half)

(* _area_not_shrinking, the two means compared by cross-multiplication.    *)
AreaNotShrinking(w, tolerance) ==
    LET n == Cardinality(Hits(w))
        half == n \div 2
        first == TotalArea(w, FirstHalf(w))
        second == TotalArea(w, Hits(w) \ FirstHalf(w))
    IN  n < 4 \/ 100 * second * half >= first * (n - half) * (100 - tolerance)

(* Mutant: one hit short of frames_required.                               *)
Confirms_OneShort(w, c) ==
    /\ Cardinality(Hits(w)) + 1 >= c.required
    /\ StableCluster(w, c.iou, c.stability - 1)
    /\ c.growth => AreaNotShrinking(w, c.tolerance)

(* _assess                                                                 *)
Confirms(w, c) ==
    /\ Cardinality(Hits(w)) >= c.required
    /\ StableCluster(w, c.iou, c.stability)
    /\ c.growth => AreaNotShrinking(w, c.tolerance)

ShowsFire(o) == \E d \in o : d.label = "fire"

(* _severity                                                               *)
Severity(burning, surging) ==
    IF burning \/ surging THEN "critical" ELSE "warning"

Newest(e) == e.window[Len(e.window)]

(* Mutant: only the frame that confirms sets the severity.                 *)
Open_LastFrame(e, surging) ==
    [e EXCEPT !.open = TRUE, !.state = "confirmed", !.idle = 0,
              !.severity = Severity(ShowsFire(Newest(e)), surging)]

Open(e, surging) ==
    [e EXCEPT !.open = TRUE, !.state = "confirmed", !.idle = 0,
              !.severity = Severity(\E o \in Range(e.window) : ShowsFire(o),
                                    surging)]

Close(e) ==
    [e EXCEPT !.open = FALSE,
              !.state = IF e.window # <<>> /\ Newest(e) # {}
                        THEN "candidate" ELSE "idle"]

(* Mutant: any frame without a hit lifts the operator's dismissal.         *)
ObserveUnconfirmed_LiftsEarly(e, surging) ==
    LET f == [e EXCEPT
                !.state = IF Hits(e.window) = {} THEN "idle" ELSE "candidate",
                !.suppress = @ /\ Newest(e) # {}]
    IN  IF Confirms(e.window, e.cfg) /\ ~f.suppress THEN Open(f, surging) ELSE f

ObserveUnconfirmed(e, surging) ==
    LET f == [e EXCEPT
                !.state = IF Hits(e.window) = {} THEN "idle" ELSE "candidate",
                !.suppress = @ /\ Hits(e.window) # {}]
    IN  IF Confirms(e.window, e.cfg) /\ ~f.suppress THEN Open(f, surging) ELSE f

(* Mutant: a frame without a hit restarts the clock.                       *)
ObserveConfirmed_Restarts(e, o, gap, surging) ==
    IF o = {} /\ gap >= e.cfg.clear THEN Close(e) ELSE [e EXCEPT !.idle = 0]

(* A hit may escalate the open incident; a quiet frame may close it.       *)
ObserveConfirmed(e, o, gap, surging) ==
    LET idle == IF o # {} THEN 0 ELSE e.idle + gap
    IN  IF o # {}
        THEN [e EXCEPT !.idle = 0,
                       !.severity = IF @ = "critical" THEN @
                                    ELSE Severity(ShowsFire(o), surging)]
        ELSE IF idle >= e.cfg.clear THEN Close(e)
        ELSE [e EXCEPT !.idle = idle]

(* What frames count for, each by the thresholds of its time.              *)
Counted(frames, zones) ==
    [k \in DOMAIN frames |-> Filter(frames[k].frame, frames[k].cfg, zones)]

(* One sampled frame reaches the engine.                                   *)
Observe(gap, surging) ==
    /\ present
    /\ \E o \in {Filter(scene, eng.cfg, eng.zones)} :
          LET e == [eng EXCEPT !.window = LastN(Append(@, o), eng.maxlen)]
          IN  /\ eng' = IF eng.state = "confirmed"
                        THEN ObserveConfirmed(e, o, gap, surging)
                        ELSE ObserveUnconfirmed(e, surging)
              /\ fresh' = ((fresh \/ o # {}) /\ ~(eng.open /\ ~eng'.open))
    /\ seen' = LastN(Append(seen, [frame |-> scene, cfg |-> eng.cfg]), MaxWindow)
    /\ dismissed' = (dismissed /\ Hits(Counted(LastN(seen', eng.maxlen), eng.zones)) # {})
    /\ UNCHANGED <<present, scene, edits>>

(* An operator dismisses the open incident.                                *)
Cancel ==
    /\ present /\ eng.open
    /\ eng' = Close([eng EXCEPT !.suppress = TRUE])
    /\ dismissed' = TRUE
    /\ fresh' = FALSE
    /\ UNCHANGED <<present, scene, edits, seen>>

(* reconfigure with a camera that is new or whose configuration changed:   *)
(* only an engine with an open incident survives the change.               *)
Reconfigure(c) ==
    /\ edits < MaxEdits
    /\ edits' = edits + 1
    /\ present' = TRUE
    /\ \/ /\ present /\ eng.cfg # c /\ eng.state = "confirmed"
          /\ eng' = [eng EXCEPT !.cfg = c]
          /\ UNCHANGED dismissed
       \/ /\ present => eng.cfg # c /\ eng.state # "confirmed"
          /\ eng' = NewEngine(c)
          /\ dismissed' = FALSE
    /\ UNCHANGED <<scene, seen, fresh>>

RemoveCamera ==
    /\ present
    /\ edits < MaxEdits
    /\ present' = FALSE
    /\ UNCHANGED <<eng, scene, edits, seen, dismissed, fresh>>

SceneChanges(s) ==
    /\ s # scene
    /\ scene' = s
    /\ UNCHANGED <<present, eng, edits, seen, dismissed, fresh>>

AnyObserve ==
    \E gap \in 1 .. MaxGap, surging \in BOOLEAN : Observe(gap, surging)

Next ==
    \/ AnyObserve
    \/ Cancel
    \/ \E c \in Configs : Reconfigure(c)
    \/ RemoveCamera
    \/ \E s \in Views : SceneChanges(s)

Spec == Init /\ [][Next]_vars

(* A worker keeps sampling frames.                                         *)
FairSpec == Spec /\ WF_vars(AnyObserve)

-----------------------------------------------------------------------------
Opening == eng.state # "confirmed" /\ eng'.state = "confirmed"

(* The zones and the window of the engine are those of the configuration   *)
(* in force: an edit while an incident is open leaves the old ones.        *)
UpToDate ==
    eng.zones = eng.cfg.zones /\ eng.maxlen = eng.cfg.window

(* Fire among the observations of an open incident makes it critical, also *)
(* when the frame that confirmed or updated it shows only smoke.           *)
FireIsCritical ==
    eng.open /\ (\E o \in Range(eng.window) : ShowsFire(o))
        => eng.severity = "critical"

(* An incident opens only on evidence: enough of the last frames of the    *)
(* camera show fire or smoke by the thresholds of their time, outside the  *)
(* zones excluded now, in one place -- as long as the engine has the zones *)
(* and the window of the configuration in force.                           *)
OpensOnEvidence ==
    [][Opening /\ UpToDate' =>
         LET c == eng'.cfg
             w == Counted(LastN(seen', c.window), c.zones)
         IN  /\ Cardinality(Hits(w)) >= c.required
             /\ StableCluster(w, c.iou, c.stability)]_vars

(* An operator who dismissed an incident (cancel) is not alerted again     *)
(* before the camera has been quiet for a whole window of frames, or an    *)
(* edit has replaced its engine (reconfigure keeps only a confirmed one).  *)
DismissalHolds == [][Opening => ~dismissed']_vars

(* Once the scene stays clear the incident closes (clear_after_seconds),   *)
(* and the camera does not stay a candidate.                               *)
QuietCameraCloses ==
    <>[](scene = {} /\ present) => <>[](eng.state = "idle")

(* A fire that stays in view, outside the zones of the configuration in    *)
(* force, is confirmed unless an operator dismissed it.  An engine that an *)
(* edit left with a window too short for frames_required, or with zones    *)
(* that are no longer in force, is deaf: that is the only excuse.          *)
FireIsReported ==
    \A f \in Views :
        <>[](/\ scene = f /\ present /\ UpToDate
             /\ Filter(f, eng.cfg, eng.cfg.zones) # {})
            => []<>(eng.state = "confirmed" \/ eng.suppress)

-----------------------------------------------------------------------------
(* What the program says of itself and does not keep.                      *)

(* An incident that was closed for want of qualifying detections           *)
(* (clear_after_seconds) does not open again before there is another one:  *)
(* the hits that are left in the window had their incident.                *)
ReopenNeedsNewHit == [][Opening => fresh']_vars

(* The interiors of the exclusion zones are ignored (config.py:159): no    *)
(* incident opens when all that the camera saw lately lies in the zones of *)
(* the configuration in force.  An engine that an edit kept goes on with   *)
(* the zones it was built with.                                            *)
ZonesAreIgnored ==
    [][Opening => \E s \in Range(seen') :
                     Filter(s.frame, s.cfg, eng'.cfg.zones) # {}]_vars

(* A dismissal suppresses the incident until the camera goes quiet         *)
(* (engine.py:250), whatever is edited in between.                         *)
DismissedUntilQuiet ==
    [][present /\ present' /\ eng.suppress /\ ~eng'.suppress
         => Hits(Counted(LastN(seen', eng.maxlen), eng.zones)) = {}]_vars
=============================================================================
