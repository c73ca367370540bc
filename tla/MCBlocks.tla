------------------------------ MODULE MCBlocks ------------------------------
EXTENDS Blocks, TLC

CONSTANTS s1, s2, s3, c1, c2, p1

ThreeSessions == {s1, s2, s3}
Interchangeable == Permutations(ThreeSessions)
=============================================================================
