--------------------------- MODULE MCJobLifecycle ---------------------------
(* Instances of JobLifecycle for TLC. *)
EXTENDS JobLifecycle, TLC

CONSTANTS j1, j2, w1, w2

Symmetric == Permutations(Workers)
KitErrors == {"plain", "unrecoverable"}
AnyErrors == {"plain", "unrecoverable", "named"}
=============================================================================
