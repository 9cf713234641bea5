----------------------------- MODULE Escalation -----------------------------
(***************************************************************************)
(* What the alert dispatcher promises, without how it does it: no tasks,   *)
(* awaits, attempts, provider requests or waiting.  An incident's run goes *)
(* along its camera's chain, contact by contact and never back, while      *)
(* nobody has answered and nobody has stopped it; one incident per camera  *)
(* and cooldown window gets that far; the others end quietly.              *)
(* Module Dispatcher is shown to implement this.                           *)
(***************************************************************************)
EXTENDS Naturals, Sequences

CONSTANTS
    Incidents, Cameras, CameraOf, Contacts,
    Chain,       \* whom to alert for a camera, in this order
    Alertable,   \* contacts that can be reached at all
    NoOne

VARIABLES
    run,     \* per incident
    owner,   \* the incident that holds a camera's cooldown window
    closed   \* incidents that are over: closed by the engine, or cancelled

vars == <<run, owner, closed>>

Run == [phase : {"idle", "pending", "alerting", "ending", "over"},
        halted : BOOLEAN,              \* it was stopped and has yet to notice
        reached : Nat,                 \* its position in the chain
        rang : SUBSET Contacts,        \* whose phones rang
        by : Contacts \cup {NoOne},    \* who answered
        outcome : {"none", "no_run", "shadow", "suppressed", "cancelled",
                   "acknowledged", "exhausted", "no_contacts", "failed"}]

Init ==
    /\ run = [i \in Incidents |->
                [phase |-> "idle", halted |-> FALSE, reached |-> 0, rang |-> {},
                 by |-> NoOne, outcome |-> "none"]]
    /\ owner = [c \in Cameras |-> NoOne]
    /\ closed = {}

ChainOf(i) == Chain[CameraOf[i]]

(* The contact after the one at n, passing over those nobody can reach.    *)
IsNext(i, n, k) ==
    /\ k \in n + 1 .. Len(ChainOf(i)) /\ ChainOf(i)[k] \in Alertable
    /\ \A j \in n + 1 .. k - 1 : ChainOf(i)[j] \notin Alertable

IsLast(i, n) == \A j \in n + 1 .. Len(ChainOf(i)) : ChainOf(i)[j] \notin Alertable

Goes(i, r) == run' = [run EXCEPT ![i] = r]

Ending(r, outcome) == [r EXCEPT !.phase = "ending", !.outcome = outcome]

Heeds(i) == run[i].by # NoOne /\ i \notin closed

Dispatched(i) ==
    /\ run[i].phase = "idle"
    /\ Goes(i, [run[i] EXCEPT !.phase = "pending"])
    /\ UNCHANGED <<owner, closed>>

(* In shadow mode, or within another incident's window: nobody hears of it. *)
Withheld(i) ==
    /\ run[i].phase = "pending" /\ ~run[i].halted
    /\ \/ Goes(i, Ending(run[i], "shadow"))
       \/ /\ owner[CameraOf[i]] # NoOne
          /\ Goes(i, Ending(run[i], "suppressed"))
    /\ UNCHANGED <<owner, closed>>

(* On from where the run is: to the next contact, or to its end.           *)
Onward(i) ==
    LET r == [run[i] EXCEPT !.phase = "alerting"] IN
    \/ /\ ~Heeds(i)
       /\ \E k \in 1 .. Len(ChainOf(i)) :
             /\ IsNext(i, r.reached, k)
             /\ \/ Goes(i, [r EXCEPT !.reached = k])
                \/ Goes(i, Ending([r EXCEPT !.reached = k], "failed"))
    \/ ~Heeds(i) /\ IsLast(i, r.reached) /\ Goes(i, Ending(r, "exhausted"))
    \/ \E c \in r.rang : /\ Heeds(i) => c = r.by
                         /\ Goes(i, Ending([r EXCEPT !.by = c], "acknowledged"))
    \/ Goes(i, Ending(r, "failed"))

Claimed(i) == /\ owner[CameraOf[i]] = NoOne
              /\ owner' = [owner EXCEPT ![CameraOf[i]] = i]

(* One incident at a time gets past the cooldown.                          *)
Admitted(i) ==
    /\ run[i].phase = "pending" /\ ~run[i].halted
    /\ Claimed(i)
    /\ \/ ChainOf(i) = <<>> /\ Goes(i, Ending(run[i], "no_contacts"))
       \/ /\ ChainOf(i) # <<>>
          /\ Goes(i, [run[i] EXCEPT !.phase = "alerting"]) \/ Onward(i)
    /\ UNCHANGED closed

Escalates(i) ==
    /\ run[i].phase = "alerting" /\ ~run[i].halted
    /\ Onward(i)
    /\ UNCHANGED <<owner, closed>>

(* The cooldown cannot be asked; the window may be taken all the same.     *)
Outage(i) ==
    /\ run[i].phase = "pending" /\ ~run[i].halted
    /\ Goes(i, Ending(run[i], "failed"))
    /\ Claimed(i) \/ UNCHANGED owner
    /\ UNCHANGED closed

(* A phone rings late or early: the one of the contact reached.            *)
Rings(i) ==
    /\ run[i].reached > 0
    /\ Goes(i, [run[i] EXCEPT !.rang = @ \cup {ChainOf(i)[run[i].reached]}])
    /\ UNCHANGED <<owner, closed>>

Answered(i, c) ==
    /\ c \in run[i].rang /\ ~Heeds(i)
    /\ Goes(i, [run[i] EXCEPT !.by = c])
    /\ UNCHANGED <<owner, closed>>

Over(i) ==
    /\ run[i].phase = "ending"
    /\ Goes(i, [run[i] EXCEPT !.phase = "over", !.halted = FALSE])
    /\ UNCHANGED <<owner, closed>>

Unfinished(r) == r.phase \in {"pending", "alerting", "ending"}

Cancelled(i) ==
    LET r == run[i] IN
    /\ Unfinished(r)
    /\ Goes(i, [r EXCEPT !.halted = TRUE,
                         !.outcome = IF r.phase = "ending" THEN "cancelled" ELSE @])
    /\ closed' = closed \cup {i}
    /\ UNCHANGED owner

AllHalted ==
    /\ run' = [i \in Incidents |->
                 [run[i] EXCEPT !.halted = @ \/ Unfinished(run[i])]]
    /\ UNCHANGED <<owner, closed>>

(* A run that was stopped ends, without a word if it had not begun.        *)
Aborted(i) ==
    /\ run[i].halted
    /\ \/ Goes(i, Ending(run[i], "cancelled"))
       \/ /\ run[i].phase = "pending"
          /\ Goes(i, [run[i] EXCEPT !.phase = "over", !.halted = FALSE,
                                    !.outcome = "no_run"])
    /\ \/ run[i].phase = "pending" /\ Claimed(i)
       \/ UNCHANGED owner
    /\ UNCHANGED closed

Closed(i) ==
    /\ run[i].phase # "idle"
    /\ closed' = closed \cup {i}
    /\ UNCHANGED <<run, owner>>

Lapses(c) ==
    /\ owner' = [owner EXCEPT ![c] = NoOne]
    /\ UNCHANGED <<run, closed>>

Next ==
    \/ \E i \in Incidents :
         \/ Dispatched(i) \/ Withheld(i) \/ Admitted(i) \/ Escalates(i)
         \/ Outage(i) \/ Rings(i) \/ Over(i) \/ Cancelled(i) \/ Aborted(i)
         \/ Closed(i) \/ \E c \in Contacts : Answered(i, c)
    \/ AllHalted
    \/ \E c \in Cameras : Lapses(c)

Spec == Init /\ [][Next]_vars
=============================================================================
