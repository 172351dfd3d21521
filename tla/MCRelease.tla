----------------------------- MODULE MCRelease ------------------------------
(* A revision that passes the gate and one whose exe does not behave. *)
EXTENDS Release

CONSTANTS good, wrong

MCRevs == {good, wrong}
MCFailing == [r \in MCRevs |-> IF r = wrong THEN "verify" ELSE None]
=============================================================================
