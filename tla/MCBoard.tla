------------------------------- MODULE MCBoard -------------------------------
EXTENDS Board

CONSTANTS s1, s2, q1, q2, q3, p1, p2, c1, c2, t1, t2, t3, t4

AnyName == Permutations(Sessions) \cup Permutations(Panes)
=============================================================================
