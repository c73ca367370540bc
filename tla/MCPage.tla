------------------------------- MODULE MCPage -------------------------------
(* Two rows, so that one's request settles while the other's is in flight,   *)
(* and two polls in flight, so that one overtakes the other.                 *)
EXTENDS Page, TLC

CONSTANTS r1, r2
=============================================================================
