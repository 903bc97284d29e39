----------------------------- MODULE MCPassLease -----------------------------
(* Two or three replicas of the panel and a small fleet, for TLC.  Replicas   *)
(* and hosts are interchangeable.                                             *)
EXTENDS PassLease, TLC

Symmetry == Permutations(Instances) \union Permutations(Hosts)
=============================================================================
