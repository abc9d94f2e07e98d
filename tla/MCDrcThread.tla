---------------------------- MODULE MCDrcThread -----------------------------
(* An instance of DrcThread for TLC: two blocks, one of which does not     *)
(* compile.                                                                *)
EXTENDS DrcThread
=============================================================================
