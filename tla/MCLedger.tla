------------------------------ MODULE MCLedger ------------------------------
(* Two sessions, two PRs and two renders suffice for a render that records,  *)
(* looks up or keeps behind another's back; one entry more than Max, and a   *)
(* clock that passes the TTL, let entries go.                                *)
EXTENDS Ledger, TLC

Symmetry == Permutations(Sessions) \cup Permutations(PRs) \cup Permutations(Renders)
=============================================================================
