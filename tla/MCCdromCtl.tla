----------------------------- MODULE MCCdromCtl -----------------------------
(* Instances of CdromCtl for TLC: a disc of three sectors.                 *)
EXTENDS CdromCtl
=============================================================================
