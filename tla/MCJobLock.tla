----------------------------- MODULE MCJobLock -----------------------------
EXTENDS JobLock, TLC

CONSTANTS p1, p2

MCSymmetry == Permutations({p1, p2})

=============================================================================
