-------------------------- MODULE MCWinObjectives --------------------------
(* WinObjectives on a small instance.  The LED channels, which the          *)
(* objectives do not read, start LOW.                                       *)
EXTENDS WinObjectives

MCInit == Init /\ ObserverInit /\ dio = [l \in LED |-> "LOW"]

MCFairSpec == MCInit /\ [][ObservedNext]_vars /\ WF_vars(ObservedNext)
=============================================================================
