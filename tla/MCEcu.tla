-------------------------------- MODULE MCEcu --------------------------------
(* EcuObjectives with two users of RUN, one wake-up source that is validated *)
(* at once and one that is given two periods.                                *)
EXTENDS EcuObjectives

CONSTANTS door, bus, u, v

MCSource == {door, bus}
MCNoValidation == {door}
MCValidationTime == [s \in {bus} |-> 1]
MCUser == {u, v}
MCCallers == [r \in Asked |-> IF r = "RUN" THEN {u, v} ELSE {u}]
=============================================================================
