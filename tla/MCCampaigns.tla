---------------------------- MODULE MCCampaigns ----------------------------
(* Instances of Campaigns for model checking.  The runners are alike.       *)
EXTENDS Campaigns, TLC

Symmetry == Permutations(Runners)

Plain == [canary |-> 0, gate |-> FALSE, planned |-> FALSE, approval |-> FALSE,
          offline |-> "skip", verified |-> FALSE, failures |-> 0, percent |-> 0, lost |-> 0]

(* With a canary and a gate, and without a canary.                          *)
WaveOrders == 
    {[Plain EXCEPT !.gate = TRUE, !.failures = 1, !.canary = c] : c \in {0, 1}}

(* Everything a host can go through, with and without plans.                *)
HostOrders ==
    {[Plain EXCEPT !.planned = TRUE, !.approval = TRUE, !.offline = "replan",
                   !.verified = TRUE, !.percent = 50, !.lost = 1],
     [Plain EXCEPT !.offline = "wait", !.canary = 1]}

LiveOrders == {[Plain EXCEPT !.planned = TRUE]}
=============================================================================
