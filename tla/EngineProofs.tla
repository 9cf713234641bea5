----------------------------- MODULE EngineProofs -----------------------------
(* Theorems about CameraEngine, for every value of its constants.          *)
EXTENDS CameraEngine, FiniteSetTheorems, SequenceTheorems, TLAPS

-----------------------------------------------------------------------------
(* The inductive invariant.                                                *)

(* An engine by itself: there is an open incident just in state CONFIRMED, *)
(* and while it is open, or an operator's dismissal holds, a hit is left in *)
(* the window or the window is full.                                       *)
Shaped(e) ==
  /\ e \in Engine
  /\ e.maxlen \in 1 .. MaxWindow
  /\ Len(e.window) <= e.maxlen
  /\ e.open <=> e.state = "confirmed"

Critical(e) ==
  e.open /\ (\E o \in Range(e.window) : ShowsFire(o)) => e.severity = "critical"

Held(e) ==
  e.open \/ e.suppress => Hits(e.window) # {} \/ Len(e.window) = e.maxlen

EngineOK(e) == Shaped(e) /\ Critical(e) /\ Held(e)

(* The window is what the last frames of the camera counted for.           *)
IsCounted(w, frames, zones) ==
  /\ Len(w) <= Len(frames)
  /\ \A k \in 1 .. Len(w) :
       LET r == frames[Len(frames) - Len(w) + k]
       IN  w[k] = Filter(r.frame, r.cfg, zones)

DismissalStands == dismissed => eng.suppress /\ eng.state # "confirmed"

EngineInv ==
  TypeOK /\ EngineOK(eng) /\ IsCounted(eng.window, seen, eng.zones) /\ DismissalStands

-----------------------------------------------------------------------------
(* The last elements of a sequence.                                        *)

LEMMA LastNProperties ==
  ASSUME NEW S, NEW s \in Seq(S), NEW n \in Nat
  PROVE  /\ LastN(s, n) \in Seq(S)
         /\ Len(LastN(s, n)) = IF Len(s) > n THEN n ELSE Len(s)
         /\ \A k \in 1 .. Len(LastN(s, n)) :
              LastN(s, n)[k] = s[Len(s) - Len(LastN(s, n)) + k]
<1>1. Len(s) \in Nat /\ \A i \in 1 .. Len(s) : s[i] \in S
  OBVIOUS
<1>2. CASE Len(s) > n
  <2> DEFINE m == Len(s) - n + 1
  <2>1. m \in 1 .. Len(s) + 1 /\ m \in Int /\ Len(s) \in Int
    BY <1>1, <1>2
  <2>2. LastN(s, n) = SubSeq(s, m, Len(s))
    BY <1>2 DEF LastN
  <2>3. \A i \in m .. Len(s) : s[i] \in S
    BY <1>1, <2>1
  <2>4. /\ SubSeq(s, m, Len(s)) \in Seq(S)
        /\ Len(SubSeq(s, m, Len(s))) = IF m <= Len(s) THEN Len(s) - m + 1 ELSE 0
        /\ \A k \in 1 .. Len(s) - m + 1 : SubSeq(s, m, Len(s))[k] = s[m + k - 1]
    BY <2>1, <2>3, SubSeqProperties
  <2>5. Len(SubSeq(s, m, Len(s))) = n /\ Len(s) - m + 1 = n
    BY <1>1, <2>1, <2>4
  <2>6. \A k \in 1 .. n : m + k - 1 = Len(s) - n + k
    BY <1>1
  <2> HIDE DEF m
  <2> QED BY <1>2, <2>2, <2>4, <2>5, <2>6
<1>3. CASE ~(Len(s) > n)
  <2>1. LastN(s, n) = s
    BY <1>3, SubSeqFull DEF LastN
  <2> QED BY <1>1, <1>3, <2>1
<1> QED BY <1>2, <1>3

(* What a bounded queue s holds after one more element x.                  *)
Holds(t, s, x, n) ==
  /\ Len(t) = IF Len(s) < n THEN Len(s) + 1 ELSE n
  /\ t[Len(t)] = x
  /\ \A k \in 1 .. Len(t) - 1 :
       /\ Len(s) - Len(t) + 1 + k \in 1 .. Len(s)
       /\ t[k] = s[Len(s) - Len(t) + 1 + k]

LEMMA AppendedProperties ==
  ASSUME NEW S, NEW s \in Seq(S), NEW x \in S, NEW n \in Nat, n > 0
  PROVE  /\ LastN(Append(s, x), n) \in Seq(S)
         /\ Holds(LastN(Append(s, x), n), s, x, n)
<1> DEFINE a == Append(s, x)
           t == LastN(a, n)
<1>1. /\ a \in Seq(S) /\ Len(a) = Len(s) + 1 /\ a[Len(s) + 1] = x
      /\ \A i \in 1 .. Len(s) : a[i] = s[i]
  OBVIOUS
<1> HIDE DEF a
<1>3. /\ t \in Seq(S) /\ Len(t) = IF Len(a) > n THEN n ELSE Len(a)
      /\ \A k \in 1 .. Len(t) : t[k] = a[Len(a) - Len(t) + k]
  BY <1>1, LastNProperties, Zenon
<1> HIDE DEF t
<1>4. Len(s) \in Nat /\ Len(t) \in Nat /\ Len(t) >= 1 /\ Len(t) <= Len(s) + 1
      /\ Len(t) = IF Len(s) < n THEN Len(s) + 1 ELSE n
  BY <1>1, <1>3
<1>5. t[Len(t)] = x
  <2>1. Len(t) \in 1 .. Len(t) /\ Len(a) - Len(t) + Len(t) = Len(s) + 1
    BY <1>1, <1>4
  <2> QED BY <1>1, <1>3, <2>1
<1>6. ASSUME NEW k \in 1 .. Len(t) - 1
      PROVE  /\ Len(s) - Len(t) + 1 + k \in 1 .. Len(s)
             /\ t[k] = s[Len(s) - Len(t) + 1 + k]
  <2>1. k \in 1 .. Len(t) /\ Len(a) - Len(t) + k = Len(s) - Len(t) + 1 + k
        /\ Len(s) - Len(t) + 1 + k \in 1 .. Len(s)
    BY <1>1, <1>4
  <2> QED BY <1>1, <1>3, <2>1
<1>7. t \in Seq(S) /\ Holds(t, s, x, n)
  BY <1>3, <1>4, <1>5, <1>6 DEF Holds
<1> QED BY <1>7 DEF t, a

LEMMA RangeElements ==
  ASSUME NEW S, NEW s \in Seq(S), NEW o \in Range(s)
  PROVE  \E k \in 1 .. Len(s) : s[k] = o
BY DEF Range

LEMMA ElementsRange ==
  ASSUME NEW S, NEW s \in Seq(S), NEW k \in 1 .. Len(s)
  PROVE  s[k] \in Range(s)
BY DEF Range

-----------------------------------------------------------------------------
(* Engines.                                                                *)

LEMMA EngineFields ==
  ASSUME NEW e \in Engine
  PROVE  /\ e.cfg \in Configs /\ e.zones \in SUBSET SUBSET Cells
         /\ e.maxlen \in Nat /\ e.window \in Seq(SUBSET Detections)
         /\ e.state \in {"idle", "candidate", "confirmed"}
         /\ e.open \in BOOLEAN /\ e.severity \in {"warning", "critical"}
         /\ e.idle \in Nat /\ e.suppress \in BOOLEAN
         /\ e = [cfg |-> e.cfg, zones |-> e.zones, maxlen |-> e.maxlen,
                 window |-> e.window, state |-> e.state, open |-> e.open,
                 severity |-> e.severity, idle |-> e.idle,
                 suppress |-> e.suppress]
BY DEF Engine

LEMMA ConfigFacts ==
  ASSUME NEW c \in Configs
  PROVE  /\ c.window \in 1 .. MaxWindow /\ c.required \in Nat /\ c.required >= 1
         /\ c.stability \in Nat /\ c.stability >= 1 /\ c.clear \in Nat
         /\ c.iou \in Nat
         /\ c.zones \in SUBSET SUBSET Cells /\ MaxWindow \in Nat
BY EngineAssumption DEF IsConfig

LEMMA FilterType ==
  ASSUME NEW frame \in Views, NEW c, NEW zones
  PROVE  Filter(frame, c, zones) \in SUBSET Detections
BY EngineAssumption DEF Filter

LEMMA NewEngineOK ==
  ASSUME NEW c \in Configs, NEW frames \in Seq(Sighting), NEW zones
  PROVE  /\ EngineOK(NewEngine(c)) /\ IsCounted(NewEngine(c).window, frames, zones)
         /\ NewEngine(c).state = "idle" /\ ~NewEngine(c).suppress
<1> DEFINE e == NewEngine(c)
<1>1. /\ e.maxlen = c.window /\ e.window = <<>> /\ e.state = "idle" /\ ~e.open
      /\ ~e.suppress /\ Len(e.window) = 0
  BY DEF NewEngine
<1>2. <<>> \in Seq(SUBSET Detections)
  OBVIOUS
<1>3. c.window \in 1 .. MaxWindow /\ c.window \in Nat /\ c.zones \in SUBSET SUBSET Cells
  BY ConfigFacts
<1>4. e \in Engine
  BY <1>2, <1>3 DEF NewEngine, Engine
<1>5. IsCounted(e.window, frames, zones)
  <2>1. Len(frames) \in Nat
    OBVIOUS
  <2> QED BY <1>1, <2>1 DEF IsCounted
<1> HIDE DEF e
<1>6. EngineOK(e)
  BY <1>1, <1>3, <1>4 DEF EngineOK, Shaped, Critical, Held
<1> QED BY <1>1, <1>5, <1>6 DEF e

(* The engine closes what it had open, and keeps the rest.                 *)
LEMMA CloseOK ==
  ASSUME NEW e, Shaped(e), Hits(e.window) # {} \/ Len(e.window) = e.maxlen
  PROVE  /\ EngineOK(Close(e))
         /\ Close(e).cfg = e.cfg /\ Close(e).zones = e.zones
         /\ Close(e).maxlen = e.maxlen /\ Close(e).window = e.window
         /\ Close(e).suppress = e.suppress /\ Close(e).state # "confirmed"
<1> DEFINE next == IF e.window # <<>> /\ Newest(e) # {} THEN "candidate" ELSE "idle"
           f == [e EXCEPT !.open = FALSE, !.state = next]
<1>1. next \in {"candidate", "idle"}
  OBVIOUS
<1>2. Close(e) = f
  BY DEF Close
<1> HIDE DEF next
<1>3. /\ f \in Engine /\ f.cfg = e.cfg /\ f.zones = e.zones /\ f.maxlen = e.maxlen
      /\ f.window = e.window /\ f.suppress = e.suppress /\ ~f.open
      /\ f.state = next
  BY <1>1 DEF Shaped, Engine
<1> HIDE DEF f
<1>4. EngineOK(f)
  BY <1>1, <1>3 DEF EngineOK, Shaped, Critical, Held
<1> QED BY <1>1, <1>2, <1>3, <1>4

LEMMA OpenOK ==
  ASSUME NEW e, Shaped(e), NEW surging \in BOOLEAN,
         Hits(e.window) # {} \/ Len(e.window) = e.maxlen
  PROVE  /\ EngineOK(Open(e, surging))
         /\ Open(e, surging).cfg = e.cfg /\ Open(e, surging).zones = e.zones
         /\ Open(e, surging).maxlen = e.maxlen /\ Open(e, surging).window = e.window
         /\ Open(e, surging).suppress = e.suppress
         /\ Open(e, surging).state = "confirmed"
<1> DEFINE burning == \E o \in Range(e.window) : ShowsFire(o)
           severity == Severity(burning, surging)
           f == [e EXCEPT !.open = TRUE, !.state = "confirmed", !.idle = 0,
                          !.severity = severity]
<1>1. severity \in {"warning", "critical"} /\ (burning => severity = "critical")
  BY DEF Severity
<1>2. Open(e, surging) = f
  BY DEF Open
<1> HIDE DEF severity
<1>3. /\ f \in Engine /\ f.cfg = e.cfg /\ f.zones = e.zones /\ f.maxlen = e.maxlen
      /\ f.window = e.window /\ f.suppress = e.suppress /\ f.open
      /\ f.state = "confirmed" /\ f.severity = severity
  BY <1>1 DEF Shaped, Engine
<1> HIDE DEF f
<1>4. Shaped(f) /\ Held(f)
  BY <1>3 DEF Shaped, Held
<1>5. Critical(f)
  BY <1>1, <1>3 DEF Critical
<1> QED BY <1>2, <1>3, <1>4, <1>5 DEF EngineOK

(* No hit, no incident.                                                    *)
LEMMA ConfirmsNeedsHit ==
  ASSUME NEW w, NEW c \in Configs, Confirms(w, c)
  PROVE  Hits(w) # {}
<1>1. c.required \in Nat /\ c.required >= 1 /\ Cardinality(Hits(w)) >= c.required
  BY ConfigFacts DEF Confirms
<1>2. Cardinality({}) = 0
  BY FS_EmptySet
<1>3. ASSUME Hits(w) = {} PROVE FALSE
  <2>1. Cardinality(Hits(w)) = 0
    BY <1>2, <1>3
  <2> QED BY <1>1, <2>1
<1> QED BY <1>3

(* A frame in state IDLE or CANDIDATE: an incident opens when the window   *)
(* confirms it, unless a dismissal stands, which a window without hits     *)
(* lifts.                                                                  *)
LEMMA UnconfirmedOK ==
  ASSUME NEW e, Shaped(e), Held(e), e.state # "confirmed", NEW surging \in BOOLEAN,
         NEW n, n = ObserveUnconfirmed(e, surging)
  PROVE  /\ EngineOK(n)
         /\ n.cfg = e.cfg /\ n.zones = e.zones /\ n.maxlen = e.maxlen
         /\ n.window = e.window
         /\ e.suppress /\ Hits(e.window) # {} => n.suppress /\ n.state # "confirmed"
         /\ n.state = "confirmed" => Confirms(e.window, e.cfg)
<1> DEFINE state == IF Hits(e.window) = {} THEN "idle" ELSE "candidate"
           suppress == e.suppress /\ Hits(e.window) # {}
           f == [e EXCEPT !.state = state, !.suppress = suppress]
<1>0. e \in Engine /\ e.suppress \in BOOLEAN
  BY EngineFields DEF Shaped
<1>1. state \in {"idle", "candidate"} /\ suppress \in BOOLEAN
      /\ (suppress => e.suppress)
  BY <1>0
<1>2. n = IF Confirms(e.window, e.cfg) /\ ~f.suppress THEN Open(f, surging) ELSE f
  BY DEF ObserveUnconfirmed
<1>3. suppress <=> (e.suppress /\ Hits(e.window) # {})
  OBVIOUS
<1> HIDE DEF state, suppress
<1>4. /\ f \in Engine /\ f.cfg = e.cfg /\ f.zones = e.zones /\ f.maxlen = e.maxlen
      /\ f.window = e.window /\ f.suppress = suppress /\ f.open = e.open
      /\ f.state = state
  BY <1>0, <1>1 DEF Engine
<1> HIDE DEF f
<1>5. ~e.open
  BY DEF Shaped
<1>6. Shaped(f) /\ Critical(f) /\ Held(f)
  BY <1>1, <1>4, <1>5 DEF Shaped, Critical, Held
<1>7. CASE Confirms(e.window, e.cfg) /\ ~f.suppress
  <2>1. Hits(f.window) # {}
    BY <1>0, <1>4, <1>7, ConfirmsNeedsHit, EngineFields
  <2>2. n = Open(f, surging)
    BY <1>2, <1>7
  <2>3. /\ EngineOK(n)
        /\ n.cfg = f.cfg /\ n.zones = f.zones /\ n.maxlen = f.maxlen
        /\ n.window = f.window
    BY <1>6, <2>1, <2>2, OpenOK
  <2>4. ~(e.suppress /\ Hits(e.window) # {})
    BY <1>3, <1>4, <1>7
  <2> QED BY <1>4, <1>7, <2>3, <2>4
<1>8. CASE ~(Confirms(e.window, e.cfg) /\ ~f.suppress)
  <2>1. n = f
    BY <1>2, <1>8
  <2>2. n.state # "confirmed"
    BY <1>1, <1>4, <2>1
  <2>3. e.suppress /\ Hits(e.window) # {} => n.suppress
    BY <1>3, <1>4, <2>1
  <2> QED BY <1>4, <1>6, <2>1, <2>2, <2>3 DEF EngineOK
<1> QED BY <1>7, <1>8

(* A frame in state CONFIRMED: a hit keeps the incident open and may make  *)
(* it critical, a quiet frame may close it.                                *)
LEMMA ConfirmedOK ==
  ASSUME NEW e, Shaped(e), Held(e), e.state = "confirmed",
         NEW o, NEW gap \in Nat, NEW surging \in BOOLEAN,
         \A q \in Range(e.window) : ShowsFire(q) => q = o \/ e.severity = "critical",
         NEW n, n = ObserveConfirmed(e, o, gap, surging)
  PROVE  /\ EngineOK(n)
         /\ n.cfg = e.cfg /\ n.zones = e.zones /\ n.maxlen = e.maxlen
         /\ n.window = e.window /\ n.suppress = e.suppress
<1> DEFINE idle == IF o # {} THEN 0 ELSE e.idle + gap
           severity == IF e.severity = "critical" THEN e.severity
                       ELSE Severity(ShowsFire(o), surging)
<1>0. /\ e \in Engine /\ e.open /\ e.idle \in Nat
      /\ e.severity \in {"warning", "critical"}
  BY EngineFields DEF Shaped
<1>1. CASE o # {}
  <2> DEFINE f == [e EXCEPT !.idle = 0, !.severity = severity]
  <2>1. n = f
    BY <1>1 DEF ObserveConfirmed
  <2>2. severity \in {"warning", "critical"}
        /\ (e.severity = "critical" \/ ShowsFire(o) => severity = "critical")
    BY <1>0 DEF Severity
  <2> HIDE DEF severity
  <2>3. /\ f \in Engine /\ f.cfg = e.cfg /\ f.zones = e.zones /\ f.maxlen = e.maxlen
        /\ f.window = e.window /\ f.suppress = e.suppress /\ f.open = e.open
        /\ f.state = e.state /\ f.severity = severity
    BY <1>0, <2>2 DEF Engine
  <2> HIDE DEF f
  <2>4. Critical(f)
    <3>1. ASSUME NEW q \in Range(e.window), ShowsFire(q)
          PROVE  severity = "critical"
      BY <2>2, <3>1
    <3> QED BY <2>3, <3>1 DEF Critical
  <2>5. Shaped(f) /\ Held(f)
    BY <2>3 DEF Shaped, Held
  <2> QED BY <2>1, <2>3, <2>4, <2>5 DEF EngineOK
<1>2. CASE o = {} /\ idle >= e.cfg.clear
  <2>1. n = Close(e)
    BY <1>2 DEF ObserveConfirmed
  <2>2. Hits(e.window) # {} \/ Len(e.window) = e.maxlen
    BY <1>0 DEF Held
  <2> QED BY <2>1, <2>2, CloseOK
<1>3. CASE o = {} /\ ~(idle >= e.cfg.clear)
  <2> DEFINE f == [e EXCEPT !.idle = idle]
  <2>1. n = f
    BY <1>3 DEF ObserveConfirmed
  <2>2. idle \in Nat
    BY <1>0
  <2> HIDE DEF idle
  <2>3. /\ f \in Engine /\ f.cfg = e.cfg /\ f.zones = e.zones /\ f.maxlen = e.maxlen
        /\ f.window = e.window /\ f.suppress = e.suppress /\ f.open = e.open
        /\ f.state = e.state /\ f.severity = e.severity
    BY <1>0, <2>2 DEF Engine
  <2> HIDE DEF f
  <2>4. ~ShowsFire(o)
    BY <1>3 DEF ShowsFire
  <2>5. Shaped(f) /\ Held(f) /\ Critical(f)
    BY <2>3, <2>4 DEF Shaped, Held, Critical
  <2> QED BY <2>1, <2>3, <2>5 DEF EngineOK
<1> QED BY <1>1, <1>2, <1>3

-----------------------------------------------------------------------------
(* One more frame in the window.                                           *)

LEMMA WindowGrows ==
  ASSUME NEW w \in Seq(SUBSET Detections), NEW n \in Nat, n > 0, Len(w) <= n,
         NEW o \in SUBSET Detections,
         NEW t, t = LastN(Append(w, o), n)
  PROVE  /\ t \in Seq(SUBSET Detections) /\ Len(t) <= n
         /\ \A q \in Range(t) : q = o \/ q \in Range(w)
         /\ Hits(w) # {} \/ Len(w) = n => Hits(t) # {} \/ Len(t) = n
<1>1. /\ t \in Seq(SUBSET Detections)
      /\ Len(t) = IF Len(w) < n THEN Len(w) + 1 ELSE n
      /\ t[Len(t)] = o
      /\ \A k \in 1 .. Len(t) - 1 :
           /\ Len(w) - Len(t) + 1 + k \in 1 .. Len(w)
           /\ t[k] = w[Len(w) - Len(t) + 1 + k]
  <2>1. t \in Seq(SUBSET Detections) /\ Holds(t, w, o, n)
    BY AppendedProperties, Zenon
  <2> QED BY <2>1 DEF Holds
<1>2. Len(w) \in Nat /\ Len(t) \in Nat /\ Len(t) <= n
  BY <1>1
<1>3. ASSUME NEW q \in Range(t) PROVE q = o \/ q \in Range(w)
  <2>1. PICK k \in 1 .. Len(t) : t[k] = q
    BY <1>1, RangeElements
  <2>2. CASE k = Len(t)
    BY <1>1, <2>1, <2>2
  <2>3. CASE k # Len(t)
    <3>1. k \in 1 .. Len(t) - 1
      BY <1>2, <2>3
    <3>2. Len(w) - Len(t) + 1 + k \in 1 .. Len(w)
          /\ q = w[Len(w) - Len(t) + 1 + k]
      BY <1>1, <2>1, <3>1
    <3> QED BY <3>2, ElementsRange
  <2> QED BY <2>2, <2>3
<1>4. ASSUME Hits(w) # {} \/ Len(w) = n, Len(t) # n PROVE Hits(t) # {}
  <2>1. Len(w) < n /\ Len(t) = Len(w) + 1
    BY <1>1, <1>2, <1>4
  <2>2. PICK k \in DOMAIN w : w[k] # {}
    BY <1>2, <1>4, <2>1 DEF Hits
  <2>3. k \in 1 .. Len(t) - 1 /\ k \in DOMAIN t /\ Len(w) - Len(t) + 1 + k = k
    BY <1>1, <1>2, <2>1
  <2>4. t[k] = w[k]
    BY <1>1, <2>3
  <2> QED BY <2>2, <2>3, <2>4 DEF Hits
<1> QED BY <1>1, <1>2, <1>3, <1>4

(* The window and the history grow by the same frame.                      *)
LEMMA CountedGrows ==
  ASSUME NEW w \in Seq(SUBSET Detections), NEW n \in 1 .. MaxWindow, Len(w) <= n,
         NEW frames \in Seq(Sighting), NEW zones, IsCounted(w, frames, zones),
         NEW r \in Sighting,
         NEW t, t = LastN(Append(w, Filter(r.frame, r.cfg, zones)), n),
         NEW more, more = LastN(Append(frames, r), MaxWindow)
  PROVE  /\ more \in Seq(Sighting) /\ Len(more) <= MaxWindow
         /\ IsCounted(t, more, zones)
<1> DEFINE o == Filter(r.frame, r.cfg, zones)
<1>0. MaxWindow \in Nat /\ MaxWindow > 0 /\ n \in Nat /\ n > 0 /\ n <= MaxWindow
  BY EngineAssumption
<1>1. o \in SUBSET Detections
  BY FilterType DEF Sighting
<1>2. t = LastN(Append(w, o), n)
  OBVIOUS
<1> HIDE DEF o
<1>3. /\ t \in Seq(SUBSET Detections)
      /\ Len(t) = IF Len(w) < n THEN Len(w) + 1 ELSE n
      /\ t[Len(t)] = o
      /\ \A k \in 1 .. Len(t) - 1 :
           /\ Len(w) - Len(t) + 1 + k \in 1 .. Len(w)
           /\ t[k] = w[Len(w) - Len(t) + 1 + k]
  <2>1. t \in Seq(SUBSET Detections) /\ Holds(t, w, o, n)
    BY <1>0, <1>1, <1>2, AppendedProperties, Zenon
  <2> QED BY <2>1 DEF Holds
<1>4. /\ more \in Seq(Sighting)
      /\ Len(more) = IF Len(frames) < MaxWindow THEN Len(frames) + 1 ELSE MaxWindow
      /\ more[Len(more)] = r
      /\ \A k \in 1 .. Len(more) - 1 :
           /\ Len(frames) - Len(more) + 1 + k \in 1 .. Len(frames)
           /\ more[k] = frames[Len(frames) - Len(more) + 1 + k]
  <2>1. more \in Seq(Sighting) /\ Holds(more, frames, r, MaxWindow)
    BY <1>0, AppendedProperties, Zenon
  <2> QED BY <2>1 DEF Holds
<1>5. /\ Len(w) \in Nat /\ Len(frames) \in Nat /\ Len(w) <= Len(frames)
      /\ Len(t) \in Nat /\ Len(more) \in Nat /\ Len(t) <= Len(more)
      /\ Len(more) <= MaxWindow
  BY <1>0, <1>3, <1>4 DEF IsCounted
<1>6. ASSUME NEW k \in 1 .. Len(t)
      PROVE  LET s == more[Len(more) - Len(t) + k]
             IN  t[k] = Filter(s.frame, s.cfg, zones)
  <2>1. CASE k = Len(t)
    <3>1. Len(more) - Len(t) + k = Len(more)
      BY <1>5, <2>1
    <3> QED BY <1>3, <1>4, <2>1, <3>1 DEF o
  <2>2. CASE k # Len(t)
    <3> DEFINE i == Len(more) - Len(t) + k
               j == Len(w) - Len(t) + 1 + k
    <3>1. k \in 1 .. Len(t) - 1 /\ i \in 1 .. Len(more) - 1
      BY <1>5, <2>2
    <3>2. j \in 1 .. Len(w) /\ t[k] = w[j]
      BY <1>3, <3>1
    <3>3. more[i] = frames[Len(frames) - Len(more) + 1 + i]
      BY <1>4, <3>1
    <3>4. Len(frames) - Len(more) + 1 + i = Len(frames) - Len(w) + j
      BY <1>5
    <3>5. w[j] = Filter(frames[Len(frames) - Len(w) + j].frame,
                        frames[Len(frames) - Len(w) + j].cfg, zones)
      BY <3>2 DEF IsCounted
    <3>6. more[i] = frames[Len(frames) - Len(w) + j]
      BY <3>3, <3>4
    <3> HIDE DEF j
    <3> QED BY <3>2, <3>5, <3>6
  <2> QED BY <2>1, <2>2
<1> QED BY <1>4, <1>5, <1>6 DEF IsCounted

-----------------------------------------------------------------------------
(* The window beside the last frames of the camera.                        *)

EndsWith(all, w, n) ==
  \E shift \in Nat :
     /\ DOMAIN all = 1 .. Len(w) + shift
     /\ \A k \in 1 .. Len(w) : all[k + shift] = w[k]
     /\ Len(w) = n => shift = 0

LEMMA CountedProperties ==
  ASSUME NEW frames \in Seq(Sighting), NEW n \in Nat, NEW zones,
         NEW w \in Seq(SUBSET Detections), Len(w) <= n, IsCounted(w, frames, zones)
  PROVE  EndsWith(Counted(LastN(frames, n), zones), w, n)
<1> DEFINE last == LastN(frames, n)
           all == Counted(last, zones)
<1>1. /\ last \in Seq(Sighting)
      /\ Len(last) = IF Len(frames) > n THEN n ELSE Len(frames)
      /\ \A k \in 1 .. Len(last) : last[k] = frames[Len(frames) - Len(last) + k]
  BY LastNProperties
<1> HIDE DEF last
<1>3. /\ Len(w) \in Nat /\ Len(last) \in Nat /\ Len(frames) \in Nat
      /\ Len(w) <= Len(frames) /\ Len(w) <= Len(last)
      /\ Len(w) = n => Len(last) = n
  BY <1>1 DEF IsCounted
<1>4. /\ DOMAIN all = 1 .. Len(last)
      /\ \A k \in 1 .. Len(last) : all[k] = Filter(last[k].frame, last[k].cfg, zones)
  BY <1>1 DEF Counted
<1> HIDE DEF all
<1> DEFINE shift == Len(last) - Len(w)
<1>5. shift \in Nat /\ Len(w) + shift = Len(last) /\ (Len(w) = n => shift = 0)
  BY <1>3
<1>6. ASSUME NEW k \in 1 .. Len(w) PROVE all[k + shift] = w[k]
  <2>1. k + shift \in 1 .. Len(last)
        /\ Len(frames) - Len(last) + (k + shift) = Len(frames) - Len(w) + k
    BY <1>3
  <2>2. last[k + shift] = frames[Len(frames) - Len(last) + (k + shift)]
    BY <1>1, <2>1
  <2>3. last[k + shift] = frames[Len(frames) - Len(w) + k]
    BY <2>1, <2>2
  <2>4. all[k + shift] = Filter(last[k + shift].frame, last[k + shift].cfg, zones)
    BY <1>4, <2>1
  <2>5. w[k] = Filter(frames[Len(frames) - Len(w) + k].frame,
                      frames[Len(frames) - Len(w) + k].cfg, zones)
    BY DEF IsCounted
  <2> QED BY <2>3, <2>4, <2>5
<1> HIDE DEF shift
<1>7. EndsWith(all, w, n)
  BY <1>4, <1>5, <1>6 DEF EndsWith
<1> QED BY <1>7 DEF all, last

LEMMA ShiftedSet ==
  ASSUME NEW shift \in Nat, NEW A \in SUBSET Nat, NEW B, IsFiniteSet(B),
         \A k \in A : k + shift \in B
  PROVE  /\ Cardinality(A) \in Nat /\ Cardinality(B) \in Nat
         /\ Cardinality(A) <= Cardinality(B)
<1> DEFINE f == [k \in A |-> k + shift]
<1>1. f \in [A -> B]
  OBVIOUS
<1>2. ASSUME NEW a \in A, NEW b \in A, f[a] = f[b] PROVE a = b
  BY <1>2
<1>3. f \in Injection(A, B)
  <2>1. \A a, b \in DOMAIN f : f[a] = f[b] => a = b
    BY <1>2
  <2> HIDE DEF f
  <2> QED BY <1>1, <2>1 DEF Injection, IsInjective
<1>4. IsFiniteSet(A) /\ Cardinality(A) <= Cardinality(B)
  BY <1>3, FS_Injection
<1>5. Cardinality(A) \in Nat /\ Cardinality(B) \in Nat
  BY <1>4, FS_CardinalityType
<1> QED BY <1>4, <1>5

(* What a window shows, a longer look back shows as well.                  *)
LEMMA MoreHits ==
  ASSUME NEW w \in Seq(SUBSET Detections), NEW all, NEW shift \in Nat,
         DOMAIN all = 1 .. Len(w) + shift,
         \A k \in 1 .. Len(w) : all[k + shift] = w[k]
  PROVE  /\ Cardinality(Hits(w)) \in Nat /\ Cardinality(Hits(all)) \in Nat
         /\ Cardinality(Hits(w)) <= Cardinality(Hits(all))
         /\ shift = 0 => Hits(all) = Hits(w)
         /\ \A percent, n \in Nat :
              StableCluster(w, percent, n) => StableCluster(all, percent, n)
<1>1. Len(w) \in Nat /\ DOMAIN w = 1 .. Len(w) /\ Len(w) + shift \in Nat
  OBVIOUS
<1>2. Hits(w) \in SUBSET Nat /\ \A k \in Hits(w) : k \in 1 .. Len(w) /\ w[k] # {}
  BY <1>1 DEF Hits
<1>3. ASSUME NEW k \in Hits(w)
      PROVE  k \in Nat /\ k + shift \in Hits(all) /\ all[k + shift] = w[k]
  <2>1. k \in 1 .. Len(w) /\ w[k] # {} /\ k + shift \in 1 .. Len(w) + shift
    BY <1>1, <1>2
  <2> QED BY <2>1 DEF Hits
<1>4. IsFiniteSet(Hits(all))
  <2>1. IsFiniteSet(1 .. Len(w) + shift)
    BY <1>1, FS_Interval
  <2>2. Hits(all) \in SUBSET (1 .. Len(w) + shift)
    BY DEF Hits
  <2> QED BY <2>1, <2>2, FS_Subset
<1>5. /\ Cardinality(Hits(w)) \in Nat /\ Cardinality(Hits(all)) \in Nat
      /\ Cardinality(Hits(w)) <= Cardinality(Hits(all))
  BY <1>2, <1>3, <1>4, ShiftedSet
<1>6. ASSUME shift = 0 PROVE Hits(all) = Hits(w)
  <2>1. DOMAIN all = DOMAIN w
    BY <1>1, <1>6
  <2>2. \A k \in DOMAIN w : all[k] = w[k]
    <3>1. \A k \in 1 .. Len(w) : k + shift = k
      BY <1>1, <1>6
    <3> QED BY <1>1, <3>1
  <2> QED BY <2>1, <2>2 DEF Hits
<1>7. ASSUME NEW percent, NEW n \in Nat, StableCluster(w, percent, n)
      PROVE  StableCluster(all, percent, n)
  <2> DEFINE Near(x, k) ==
        {j \in Hits(x) : Overlaps(Envelope(x[k]), Envelope(x[j]), percent)}
  <2>1. PICK k \in Hits(w) : Cardinality(Near(w, k)) >= n
    BY <1>7 DEF StableCluster
  <2>2. k + shift \in Hits(all) /\ all[k + shift] = w[k]
    BY <1>3
  <2>3. Near(w, k) \in SUBSET Nat
    BY <1>2
  <2>4. \A j \in Near(w, k) : j + shift \in Near(all, k + shift)
    BY <1>3, <2>2
  <2>5. IsFiniteSet(Near(all, k + shift))
    <3>1. Near(all, k + shift) \in SUBSET Hits(all)
      OBVIOUS
    <3> HIDE DEF Near
    <3> QED BY <1>4, <3>1, FS_Subset
  <2>6. Cardinality(Near(all, k + shift)) >= n
    <3> HIDE DEF Near
    <3>1. /\ Cardinality(Near(w, k)) \in Nat /\ Cardinality(Near(all, k + shift)) \in Nat
          /\ Cardinality(Near(w, k)) <= Cardinality(Near(all, k + shift))
      BY <2>3, <2>4, <2>5, ShiftedSet
    <3> QED BY <2>1, <3>1
  <2> QED BY <2>2, <2>6 DEF StableCluster
<1> QED BY <1>5, <1>6, <1>7

-----------------------------------------------------------------------------
(* Preservation.                                                           *)

(* An observed frame.  An incident opens only when the window confirms it. *)
LEMMA ObserveOK ==
  ASSUME EngineInv, NEW gap \in 1 .. MaxGap, NEW surging \in BOOLEAN,
         Observe(gap, surging)
  PROVE  /\ EngineInv'
         /\ eng.state # "confirmed" /\ eng'.state = "confirmed" =>
              Confirms(eng'.window, eng'.cfg)
<1> DEFINE r == [frame |-> scene, cfg |-> eng.cfg]
           o == Filter(scene, eng.cfg, eng.zones)
           t == LastN(Append(eng.window, o), eng.maxlen)
           e == [eng EXCEPT !.window = t]
<1>0. /\ Shaped(eng) /\ Critical(eng) /\ Held(eng)
      /\ IsCounted(eng.window, seen, eng.zones)
      /\ eng \in Engine /\ eng.window \in Seq(SUBSET Detections)
      /\ eng.maxlen \in 1 .. MaxWindow /\ eng.maxlen \in Nat /\ eng.maxlen > 0
      /\ Len(eng.window) <= eng.maxlen
      /\ eng.cfg \in Configs /\ scene \in Views /\ seen \in Seq(Sighting)
      /\ gap \in Nat /\ fresh \in BOOLEAN /\ dismissed \in BOOLEAN
  BY EngineAssumption, EngineFields DEF EngineInv, TypeOK, EngineOK, Shaped
<1>1. r \in Sighting /\ o \in SUBSET Detections
      /\ o = Filter(r.frame, r.cfg, eng.zones)
  BY <1>0, FilterType DEF Sighting
<1>2. /\ eng' = IF eng.state = "confirmed" THEN ObserveConfirmed(e, o, gap, surging)
                ELSE ObserveUnconfirmed(e, surging)
      /\ fresh' = ((fresh \/ o # {}) /\ ~(eng.open /\ ~eng'.open))
      /\ seen' = LastN(Append(seen, r), MaxWindow)
      /\ dismissed' = (dismissed /\ Hits(Counted(LastN(seen', eng.maxlen), eng.zones)) # {})
      /\ UNCHANGED <<present, scene, edits>>
  BY DEF Observe
<1>3. /\ t \in Seq(SUBSET Detections) /\ Len(t) <= eng.maxlen
      /\ \A q \in Range(t) : q = o \/ q \in Range(eng.window)
      /\ Hits(eng.window) # {} \/ Len(eng.window) = eng.maxlen =>
           Hits(t) # {} \/ Len(t) = eng.maxlen
  <2> HIDE DEF o
  <2> QED BY <1>0, <1>1, WindowGrows
<1>4. /\ seen' \in Seq(Sighting) /\ Len(seen') <= MaxWindow
      /\ IsCounted(t, seen', eng.zones)
  <2>1. t = LastN(Append(eng.window, Filter(r.frame, r.cfg, eng.zones)), eng.maxlen)
    BY <1>1
  <2> HIDE DEF t, r, o
  <2> QED BY <1>0, <1>1, <1>2, <2>1, CountedGrows
<1> HIDE DEF r, t, o
<1>5. /\ e \in Engine /\ e.window = t /\ e.cfg = eng.cfg /\ e.zones = eng.zones
      /\ e.maxlen = eng.maxlen /\ e.state = eng.state /\ e.open = eng.open
      /\ e.severity = eng.severity /\ e.suppress = eng.suppress
  BY <1>0, <1>3 DEF Engine
<1> HIDE DEF e
<1>6. Shaped(e) /\ Held(e)
  BY <1>0, <1>3, <1>5 DEF Shaped, Held
<1>7. /\ EngineOK(eng')
      /\ eng'.cfg = eng.cfg /\ eng'.zones = eng.zones /\ eng'.maxlen = eng.maxlen
      /\ eng'.window = t
      /\ eng.state # "confirmed" /\ eng.suppress /\ Hits(t) # {} =>
           eng'.suppress /\ eng'.state # "confirmed"
      /\ eng.state # "confirmed" /\ eng'.state = "confirmed" =>
           Confirms(eng'.window, eng'.cfg)
  <2>1. CASE eng.state = "confirmed"
    <3>1. eng.open
      BY <1>0, <2>1 DEF Shaped
    <3>2. ASSUME NEW q \in Range(e.window), ShowsFire(q)
          PROVE  q = o \/ e.severity = "critical"
      BY <1>0, <1>3, <1>5, <3>1, <3>2 DEF Critical
    <3>3. eng' = ObserveConfirmed(e, o, gap, surging)
      BY <1>2, <2>1
    <3>4. /\ EngineOK(eng')
          /\ eng'.cfg = e.cfg /\ eng'.zones = e.zones /\ eng'.maxlen = e.maxlen
          /\ eng'.window = e.window
      BY <1>0, <1>5, <1>6, <2>1, <3>2, <3>3, ConfirmedOK
    <3> QED BY <1>5, <2>1, <3>4
  <2>2. CASE eng.state # "confirmed"
    <3>1. eng' = ObserveUnconfirmed(e, surging)
      BY <1>2, <2>2
    <3>2. /\ EngineOK(eng')
          /\ eng'.cfg = e.cfg /\ eng'.zones = e.zones /\ eng'.maxlen = e.maxlen
          /\ eng'.window = e.window
          /\ e.suppress /\ Hits(e.window) # {} => eng'.suppress /\ eng'.state # "confirmed"
          /\ eng'.state = "confirmed" => Confirms(e.window, e.cfg)
      BY <1>5, <1>6, <2>2, <3>1, UnconfirmedOK
    <3> QED BY <1>5, <3>2
  <2> QED BY <2>1, <2>2
<1>8. dismissed' \in BOOLEAN /\ fresh' \in BOOLEAN
  BY <1>0, <1>2
<1>9. TypeOK'
  <2>1. eng' \in Engine /\ Len(eng'.window) <= eng'.maxlen
    BY <1>7 DEF EngineOK, Shaped
  <2> QED BY <1>2, <1>4, <1>8, <2>1 DEF TypeOK, EngineInv
<1>10. DismissalStands'
  <2>1. SUFFICES ASSUME dismissed' PROVE eng'.suppress /\ eng'.state # "confirmed"
    BY DEF DismissalStands
  <2>2. dismissed /\ Hits(Counted(LastN(seen', eng.maxlen), eng.zones)) # {}
    BY <1>2, <2>1
  <2>3. eng.suppress /\ eng.state # "confirmed"
    BY <2>2 DEF EngineInv, DismissalStands
  <2>4. Hits(t) # {}
    <3>1. CASE Len(t) = eng.maxlen
      <4> DEFINE all == Counted(LastN(seen', eng.maxlen), eng.zones)
      <4>1. EndsWith(all, t, eng.maxlen)
        BY <1>0, <1>3, <1>4, CountedProperties, Zenon
      <4>2. all = Counted(LastN(seen', eng.maxlen), eng.zones)
        OBVIOUS
      <4> HIDE DEF all
      <4>3. Hits(all) = Hits(t)
        BY <1>3, <3>1, <4>1, MoreHits DEF EndsWith
      <4> QED BY <2>2, <4>2, <4>3
    <3>2. CASE Len(t) # eng.maxlen
      BY <1>0, <1>3, <2>3, <3>2 DEF Held
    <3> QED BY <3>1, <3>2
  <2> QED BY <1>7, <2>3, <2>4
<1> QED BY <1>4, <1>7, <1>9, <1>10 DEF EngineInv

LEMMA InitOK == Init => EngineInv
<1> SUFFICES ASSUME Init PROVE EngineInv
  OBVIOUS
<1>1. PICK c \in Configs : eng = NewEngine(c)
  BY DEF Init
<1>2. seen = <<>> /\ seen \in Seq(Sighting) /\ Len(seen) = 0
  BY DEF Init
<1>3. /\ EngineOK(eng) /\ IsCounted(eng.window, seen, eng.zones)
  BY <1>1, <1>2, NewEngineOK
<1>4. TypeOK
  <2>1. 0 \in 0 .. MaxEdits /\ {} \in Views /\ 0 <= MaxWindow
    BY EngineAssumption
  <2>2. eng \in Engine /\ Len(eng.window) <= eng.maxlen
    BY <1>3 DEF EngineOK, Shaped
  <2> QED BY <1>2, <2>1, <2>2 DEF Init, TypeOK
<1>5. DismissalStands
  BY DEF Init, DismissalStands
<1> QED BY <1>3, <1>4, <1>5 DEF EngineInv

LEMMA CancelOK ==
  ASSUME EngineInv, Cancel
  PROVE  EngineInv' /\ eng'.state # "confirmed"
<1> DEFINE e == [eng EXCEPT !.suppress = TRUE]
<1>0. /\ Shaped(eng) /\ Held(eng) /\ eng.open /\ eng \in Engine
      /\ IsCounted(eng.window, seen, eng.zones)
  BY DEF EngineInv, EngineOK, Shaped, Cancel
<1>1. /\ e \in Engine /\ e.window = eng.window /\ e.cfg = eng.cfg
      /\ e.zones = eng.zones /\ e.maxlen = eng.maxlen /\ e.state = eng.state
      /\ e.open = eng.open /\ e.suppress
  BY <1>0 DEF Engine
<1>2. eng' = Close(e)
  BY DEF Cancel
<1> HIDE DEF e
<1>3. Shaped(e) /\ (Hits(e.window) # {} \/ Len(e.window) = e.maxlen)
  BY <1>0, <1>1 DEF Shaped, Held
<1>4. /\ EngineOK(eng') /\ eng'.window = eng.window /\ eng'.zones = eng.zones
      /\ eng'.suppress /\ eng'.state # "confirmed"
  BY <1>1, <1>2, <1>3, CloseOK
<1>5. /\ dismissed' = TRUE /\ fresh' = FALSE
      /\ UNCHANGED <<present, scene, edits, seen>>
  BY DEF Cancel
<1>6. TypeOK'
  <2>1. eng' \in Engine /\ Len(eng'.window) <= eng'.maxlen
    BY <1>4 DEF EngineOK, Shaped
  <2> QED BY <1>5, <2>1 DEF TypeOK, EngineInv
<1>7. IsCounted(eng'.window, seen', eng'.zones) /\ DismissalStands'
  BY <1>0, <1>4, <1>5 DEF DismissalStands
<1> QED BY <1>4, <1>6, <1>7 DEF EngineInv

(* An edit keeps an engine with an open incident, or builds a new one.     *)
LEMMA ReconfigureOK ==
  ASSUME EngineInv, NEW c \in Configs, Reconfigure(c)
  PROVE  EngineInv' /\ (eng'.state = "confirmed" => eng.state = "confirmed")
<1>0. /\ Shaped(eng) /\ Critical(eng) /\ Held(eng) /\ eng \in Engine
      /\ IsCounted(eng.window, seen, eng.zones) /\ seen \in Seq(Sighting)
      /\ dismissed \in BOOLEAN /\ DismissalStands /\ TypeOK
  BY DEF EngineInv, EngineOK, Shaped, TypeOK
<1>1. edits' \in 0 .. MaxEdits /\ present' \in BOOLEAN
      /\ UNCHANGED <<scene, seen, fresh>>
  BY <1>0, EngineAssumption DEF Reconfigure, TypeOK
<1>2. ASSUME EngineOK(eng'), IsCounted(eng'.window, seen, eng'.zones),
             DismissalStands', dismissed' \in BOOLEAN
      PROVE  EngineInv'
  <2>1. eng' \in Engine /\ Len(eng'.window) <= eng'.maxlen
    BY <1>2 DEF EngineOK, Shaped
  <2>2. TypeOK'
    BY <1>0, <1>1, <1>2, <2>1 DEF TypeOK
  <2>3. IsCounted(eng'.window, seen', eng'.zones)
    BY <1>1, <1>2
  <2> QED BY <1>2, <2>2, <2>3 DEF EngineInv
<1>3. CASE eng.state = "confirmed" /\ eng' = [eng EXCEPT !.cfg = c] /\ UNCHANGED dismissed
  <2> DEFINE e == [eng EXCEPT !.cfg = c]
  <2>1. /\ e \in Engine /\ e.window = eng.window /\ e.cfg = c
        /\ e.zones = eng.zones /\ e.maxlen = eng.maxlen /\ e.state = eng.state
        /\ e.open = eng.open /\ e.suppress = eng.suppress
        /\ e.severity = eng.severity
    BY <1>0 DEF Engine
  <2>2. eng' = e
    BY <1>3
  <2> HIDE DEF e
  <2>3. EngineOK(eng')
    BY <1>0, <2>1, <2>2 DEF EngineOK, Shaped, Critical, Held
  <2>4. IsCounted(eng'.window, seen, eng'.zones)
    BY <1>0, <2>1, <2>2
  <2>5. DismissalStands'
    BY <1>0, <1>3, <2>1, <2>2 DEF DismissalStands
  <2> QED BY <1>0, <1>2, <1>3, <2>3, <2>4, <2>5
<1>4. CASE eng' = NewEngine(c) /\ dismissed' = FALSE
  <2>1. /\ EngineOK(eng') /\ IsCounted(eng'.window, seen, eng'.zones)
        /\ eng'.state = "idle"
    BY <1>0, <1>4, NewEngineOK
  <2>2. DismissalStands'
    BY <1>4 DEF DismissalStands
  <2> QED BY <1>2, <1>4, <2>1, <2>2
<1>5. \/ eng.state = "confirmed" /\ eng' = [eng EXCEPT !.cfg = c] /\ UNCHANGED dismissed
      \/ eng' = NewEngine(c) /\ dismissed' = FALSE
  BY DEF Reconfigure
<1> QED BY <1>3, <1>4, <1>5

(* Steps that leave the engine and the frames seen alone.                  *)
LEMMA EngineUntouched ==
  ASSUME EngineInv, TypeOK', UNCHANGED <<eng, seen, dismissed>>
  PROVE  EngineInv'
<1>1. EngineOK(eng') /\ IsCounted(eng'.window, seen', eng'.zones)
  BY DEF EngineInv
<1>2. DismissalStands'
  BY DEF EngineInv, DismissalStands
<1> QED BY <1>1, <1>2 DEF EngineInv

LEMMA StepOK ==
  ASSUME EngineInv, [Next]_vars
  PROVE  /\ EngineInv'
         /\ Opening => Confirms(eng'.window, eng'.cfg)
<1>0. TypeOK
  BY DEF EngineInv
<1>1. CASE AnyObserve
  <2>1. PICK gap \in 1 .. MaxGap, surging \in BOOLEAN : Observe(gap, surging)
    BY <1>1 DEF AnyObserve
  <2> QED BY <2>1, ObserveOK DEF Opening
<1>2. CASE Cancel
  BY <1>2, CancelOK DEF Opening
<1>3. CASE \E c \in Configs : Reconfigure(c)
  BY <1>3, ReconfigureOK DEF Opening
<1>4. CASE RemoveCamera
  <2>1. present' = FALSE /\ UNCHANGED <<eng, scene, edits, seen, dismissed, fresh>>
    BY <1>4 DEF RemoveCamera
  <2>2. TypeOK'
    BY <1>0, <2>1 DEF TypeOK
  <2> QED BY <2>1, <2>2, EngineUntouched DEF Opening
<1>5. CASE \E s \in Views : SceneChanges(s)
  <2>1. TypeOK' /\ UNCHANGED <<eng, seen, dismissed>>
    BY <1>0, <1>5 DEF SceneChanges, TypeOK
  <2> QED BY <2>1, EngineUntouched DEF Opening
<1>6. CASE UNCHANGED vars
  <2>1. TypeOK' /\ UNCHANGED <<eng, seen, dismissed>>
    BY <1>0, <1>6 DEF vars, TypeOK
  <2> QED BY <2>1, EngineUntouched DEF Opening
<1> QED BY <1>1, <1>2, <1>3, <1>4, <1>5, <1>6 DEF Next

(* What the window confirmed, the last frames of the camera show.          *)
LEMMA OpeningShown ==
  ASSUME EngineInv', Confirms(eng'.window, eng'.cfg), UpToDate'
  PROVE  LET c == eng'.cfg
             w == Counted(LastN(seen', c.window), c.zones)
         IN  /\ Cardinality(Hits(w)) >= c.required
             /\ StableCluster(w, c.iou, c.stability)
<1> DEFINE c == eng'.cfg
           all == Counted(LastN(seen', eng'.maxlen), eng'.zones)
<1>1. /\ eng' \in Engine /\ eng'.maxlen \in Nat /\ eng'.window \in Seq(SUBSET Detections)
      /\ Len(eng'.window) <= eng'.maxlen /\ seen' \in Seq(Sighting)
      /\ IsCounted(eng'.window, seen', eng'.zones) /\ c \in Configs
  BY EngineFields DEF EngineInv, TypeOK, EngineOK, Shaped
<1>2. EndsWith(all, eng'.window, eng'.maxlen)
  BY <1>1, CountedProperties, Zenon
<1>3. all = Counted(LastN(seen', c.window), c.zones)
  BY DEF UpToDate
<1>4. /\ c.required \in Nat /\ c.stability \in Nat
      /\ Cardinality(Hits(eng'.window)) >= c.required
      /\ StableCluster(eng'.window, c.iou, c.stability)
  BY <1>1, ConfigFacts DEF Confirms
<1> HIDE DEF all
<1>5. PICK shift \in Nat :
        /\ DOMAIN all = 1 .. Len(eng'.window) + shift
        /\ \A k \in 1 .. Len(eng'.window) : all[k + shift] = eng'.window[k]
  BY <1>2 DEF EndsWith
<1>6. /\ Cardinality(Hits(eng'.window)) \in Nat /\ Cardinality(Hits(all)) \in Nat
      /\ Cardinality(Hits(eng'.window)) <= Cardinality(Hits(all))
      /\ \A percent, n \in Nat :
           StableCluster(eng'.window, percent, n) => StableCluster(all, percent, n)
  BY <1>1, <1>5, MoreHits
<1>7. c.iou \in Nat
  BY <1>1, ConfigFacts
<1>8. Cardinality(Hits(all)) >= c.required
  BY <1>4, <1>6
<1>9. StableCluster(all, c.iou, c.stability)
  BY <1>4, <1>6, <1>7
<1> QED BY <1>3, <1>8, <1>9

-----------------------------------------------------------------------------
(* Theorems.                                                               *)

LEMMA Invariant == Spec => []EngineInv
<1>1. Init => EngineInv
  BY InitOK
<1>2. EngineInv /\ [Next]_vars => EngineInv'
  BY StepOK
<1> QED BY <1>1, <1>2, PTL DEF Spec

(* The engine's state is typed, and its window never longer than built.    *)
THEOREM TypeCorrect == Spec => []TypeOK
<1>1. EngineInv => TypeOK
  BY DEF EngineInv
<1> QED BY <1>1, Invariant, PTL

(* Fire in the window of an open incident makes it critical (_open takes   *)
(* the labels of the whole window, _observe_confirmed those of each hit).  *)
THEOREM FireCounts == Spec => []FireIsCritical
<1>1. EngineInv => FireIsCritical
  BY DEF EngineInv, EngineOK, Critical, FireIsCritical
<1> QED BY <1>1, Invariant, PTL

(* A dismissal holds until a window of quiet frames or a new engine        *)
(* (_suppress_until_clear).                                                *)
THEOREM DismissedStaysDismissed == Spec => DismissalHolds
<1>1. EngineInv' => (Opening => ~dismissed')
  BY DEF EngineInv, DismissalStands, Opening
<1>2. EngineInv /\ [Next]_vars => [Opening => ~dismissed']_vars
  BY <1>1, StepOK
<1> QED BY <1>2, Invariant, PTL DEF Spec, DismissalHolds

(* An incident opens only on what the last frames of the camera show       *)
(* (_assess over _window).                                                 *)
THEOREM EvidenceFirst == Spec => OpensOnEvidence
<1> DEFINE Shown ==
         LET c == eng'.cfg
             w == Counted(LastN(seen', c.window), c.zones)
         IN  /\ Cardinality(Hits(w)) >= c.required
             /\ StableCluster(w, c.iou, c.stability)
<1>1. EngineInv /\ [Next]_vars => [Opening /\ UpToDate' => Shown]_vars
  BY StepOK, OpeningShown
<1> QED BY <1>1, Invariant, PTL DEF Spec, OpensOnEvidence
===============================================================================
