---------------------------- MODULE MCCdromAsync ----------------------------
(* Instances of CdromAsync for TLC: discs of three sectors, two buffers,   *)
(* and times that reach one sector beyond the end of the disc.             *)
EXTENDS CdromAsync

CONSTANTS d1, d2

TwoDiscs == {d1, d2}
OneDisc == {d1}
=============================================================================
