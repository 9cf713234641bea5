--------------------------- MODULE MCCameraEngine ---------------------------
(* Instances of CameraEngine for TLC.                                      *)
EXTENDS CameraEngine

See(what, where) == [label |-> what, sure |-> TRUE, box |-> where]
Doubtful(d) == [d EXCEPT !.sure = FALSE]

(* Three columns: smoke may rise on the left, on the right is a stove, and *)
(* with the stove the detector sees things that do not count.              *)
LeftSmoke == {See("smoke", {1})}
Stove     == {See("fire", {2, 3}), Doubtful(See("fire", {1})), See("person", {2})}
Both      == LeftSmoke \cup Stove

StoveViews == {{}, LeftSmoke, Stove}
StoveOrSmoke == {{}, LeftSmoke, Stove, Both}

Config(r, w, st, cl, z) ==
    [required |-> r, window |-> w, stability |-> st, iou |-> 20,
     growth |-> TRUE, tolerance |-> 25, minArea |-> 1, clear |-> cl,
     zones |-> z]

(* Two of four frames; the incident clears after two units of time, which  *)
(* one gap between two frames can be.                                      *)
Steady == Config(2, 4, 2, 2, {})
(* Four hits of five, so that the trend of the area counts.                *)
Trend == Config(4, 5, 3, 2, {{2, 3}})
(* A longer window that asks for more hits than the steady one can hold,   *)
(* and for boxes larger than the smoke's.                                  *)
Stricter == [Config(5, 5, 5, 3, {}) EXCEPT !.minArea = 2]

AnyConfig == {Steady, Trend, Stricter}
=============================================================================
