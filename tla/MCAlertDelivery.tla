-------------------------- MODULE MCAlertDelivery --------------------------
EXTENDS AlertDelivery, TLC

CONSTANTS r1, r2, e1, e2

MCSymmetry == Permutations({r1, r2})

=============================================================================
