---------------------------- MODULE MCRelaySpool ----------------------------
(* RelaySpool for TLC.                                                      *)
EXTENDS RelaySpool

Kinds == <<"delta", "metric", "report", "metric">>
StreamOf == [m \in Messages |-> Kinds[m]]
=============================================================================
