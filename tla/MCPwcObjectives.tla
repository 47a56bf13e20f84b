-------------------------- MODULE MCPwcObjectives --------------------------
(* PwcObjectives on a small instance; the channels start LOW.               *)
EXTENDS PwcObjectives

MCInit == PwcInit /\ ObserverInit /\ dio = [l \in LED |-> "LOW"]
MCFairSpec == MCInit /\ [][ObservedNext]_vars /\ PwcFairness
=============================================================================
