------------------------- MODULE MCSessionOwnership -------------------------
(* SessionOwnership for TLC: the gateways of a configuration are alike.     *)
EXTENDS SessionOwnership, TLC

Symmetry == Permutations(Gateways)
=============================================================================
