---------------------------- MODULE MCEnrolment ----------------------------
EXTENDS Enrolment, TLC

Symmetry == Permutations(Keys) \cup Permutations(Labels)
=============================================================================
