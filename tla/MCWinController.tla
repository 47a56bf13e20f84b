-------------------------- MODULE MCWinController --------------------------
(* The chart alone, at the constants of the code: 200 steps, saturation at  *)
(* 255.  Its LED channels start LOW.                                        *)
EXTENDS WinController

MCInit == Init /\ dio = [l \in LED |-> "LOW"]

MCSpec == MCInit /\ [][Next]_chartVars
MCFairSpec == MCSpec /\ WF_chartVars(Next)
=============================================================================
