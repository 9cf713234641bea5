---------------------------- MODULE MCDispatcher ----------------------------
(* Instances of Dispatcher for TLC.                                        *)
EXTENDS Dispatcher, TLC

CONSTANTS i1, i2, cam, lobby, porter, guard, manager, owner

OneCamera == [i \in {i1, i2} |-> cam]
OneIncident == (i1 :> cam)
TwoCameras == (i1 :> cam @@ i2 :> lobby)
(* The porter has no channel, the manager only gets messages, the owner    *)
(* only calls; nobody is to be alerted about the lobby.                    *)
WholeStaff == [c \in {cam, lobby} |->
                 IF c = cam THEN <<porter, guard, manager, owner>> ELSE <<>>]
GuardThenOwner == (cam :> <<guard, owner>>)
RetryGuard == [c \in {porter, guard, manager, owner} |-> IF c = guard THEN 1 ELSE 0]
=============================================================================
