------------------------------ MODULE MCTables ------------------------------
(* TableObjectives with a repeating table and two that run once, the first   *)
(* of which begins with a point at offset zero.                              *)
EXTENDS TableObjectives

CONSTANTS a, b, c

MCTable == {a, b, c}
MCSchedHead == <<a, b, c>>
MCPoints == [t \in MCTable |-> CASE t = a -> <<1, 2>> [] t = b -> <<0>> [] t = c -> <<2>>]
MCDuration == [t \in MCTable |-> CASE t = a -> 4 [] t = b -> 2 [] t = c -> 3]
\* c runs only as a successor.
Rel(t, o) == [op |-> "StartRel", table |-> t, offset |-> o]
Abs(t, o) == [op |-> "StartAbs", table |-> t, offset |-> o]
Stop(t) == [op |-> "Stop", table |-> t]
Chain(t, u) == [op |-> "Next", from |-> t, to |-> u]

MCPreempted == {Rel(b, 1), Chain(a, c)}
MCCalls == MCPreempted \cup {Rel(a, 2), Abs(a, 0), Abs(b, 3), Stop(a), Stop(b), Chain(a, b), Chain(b, c)}

MCRepeating == [t \in MCTable |-> t = a]
=============================================================================
