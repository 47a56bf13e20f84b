---------------------------- MODULE WindowMotion ----------------------------
(***************************************************************************)
(* What the window controller promises about the motor, whatever the       *)
(* driver and the sensors do: the abstract specification that the chart of *)
(* WinController implements.                                               *)
(*                                                                         *)
(*   - a commanded movement lasts fewer than MoveTicks steps, unless it is *)
(*     a retraction after an obstacle;                                     *)
(*   - only an upward movement can turn into a retraction, and a           *)
(*     retraction ends nowhere but in a standstill;                        *)
(*   - only a movement that has used up its time leads to cooling down,    *)
(*     and cooling down ends nowhere but in a standstill.                  *)
(***************************************************************************)
EXTENDS Integers

CONSTANT MoveTicks

VARIABLES
    motion, \* what the motor is being told to do
    age     \* how many steps ago the movement began

motionVars == <<motion, age>>

Motions == {"still", "up", "down", "retract", "cool"}
Moving == motion \in {"up", "down"}

Init == motion = "still" /\ age = 0

Begin(dir) ==
    /\ motion \in {"still", "up", "down"} \ {dir}
    /\ motion' = dir /\ age' = 0

KeepMoving ==
    /\ Moving
    /\ age + 1 < MoveTicks
    /\ age' = age + 1
    /\ UNCHANGED motion

Halt ==
    /\ motion \in {"up", "down", "retract", "cool"}
    /\ motion' = "still" /\ age' = 0

Retract ==
    /\ motion = "up"
    /\ age + 1 < MoveTicks
    /\ motion' = "retract" /\ age' = 0

CoolDown ==
    /\ Moving
    /\ age + 1 >= MoveTicks
    /\ motion' = "cool" /\ age' = 0

Next == \/ \E dir \in {"up", "down"} : Begin(dir)
        \/ KeepMoving \/ Halt \/ Retract \/ CoolDown

\* Once begun, a movement goes on or ends; it never just hangs.
Progress == Moving /\ Next

Spec == Init /\ [][Next]_motionVars

FairSpec == Spec /\ WF_motionVars(Progress)
=============================================================================
