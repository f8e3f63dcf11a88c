---------------------------- MODULE MCAdmission ----------------------------
\* Three requests, so that a window of two overflows, and the first and the last of
\* them can be a window apart.
EXTENDS Admission, TLC

CONSTANTS r1, r2, r3
MCRequests == {r1, r2, r3}
Symmetry == Permutations(MCRequests)
=============================================================================
