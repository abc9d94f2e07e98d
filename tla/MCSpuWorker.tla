---------------------------- MODULE MCSpuWorker -----------------------------
(* Instances of SpuWorker for TLC: one voice with every call, and two      *)
(* voices of which one modulates the other.  There are two work items.     *)
EXTENDS SpuWorker

CONSTANTS v1, v2

TwoVoices == {v1, v2}
OneFMod == {v1}
=============================================================================
