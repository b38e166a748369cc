---------------------------- MODULE MCApiProcess ----------------------------
EXTENDS ApiProcess, TLC

CONSTANTS p1, p2, q1, q2
=============================================================================
