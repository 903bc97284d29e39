------------------------------ MODULE Rollout ------------------------------
(***************************************************************************)
(* What a campaign promises about its hosts, whoever drives it: a host     *)
(* starts only while the campaign is open, within its concurrency limit    *)
(* and once the waves before its own are settled; what is settled, host or *)
(* campaign, stays settled.                                                *)
(***************************************************************************)
EXTENDS Integers, FiniteSets

CONSTANTS Hosts, MaxConcurrent

VARIABLES wave,         \* of each host, as the campaign was ordered; 0: the canary
          phase,        \* of the campaign: "open", "held" or "over"
          host          \* of each host: "waiting", "away", "working", "settled"

roVars == <<wave, phase, host>>

In(s) == {t \in Hosts : host[t] = s}

RolloutTypeOK ==
    /\ wave \in [Hosts -> Nat] /\ phase \in {"open", "held", "over"}
    /\ host \in [Hosts -> {"waiting", "away", "working", "settled"}]

RolloutInit ==
    /\ wave \in [Hosts -> Nat] /\ phase \in {"open", "held"}
    /\ host = [t \in Hosts |-> "waiting"]

Start(t) ==
    /\ phase = "open" /\ host[t] = "waiting"
    /\ Cardinality(In("working")) < MaxConcurrent
    /\ \A u \in Hosts : wave[u] < wave[t] => host[u] = "settled"
    /\ host' = [host EXCEPT ![t] = "working"] /\ UNCHANGED <<wave, phase>>

Away(t) == host[t] = "waiting" /\ host' = [host EXCEPT ![t] = "away"] /\ UNCHANGED <<wave, phase>>

Return(t) == host[t] = "away" /\ host' = [host EXCEPT ![t] = "waiting"] /\ UNCHANGED <<wave, phase>>

(* Hosts settle, one by one or with the cancellation of the campaign.       *)
Settles(S) ==
    /\ host' = [t \in Hosts |-> IF t \in S THEN "settled" ELSE host[t]]
    /\ UNCHANGED wave
    /\ \/ UNCHANGED phase
       \/ phase # "over" /\ phase' \in {"held", "over"}

Opens == phase = "held" /\ phase' = "open" /\ UNCHANGED <<wave, host>>

RolloutNext ==
    \/ \E t \in Hosts : Start(t) \/ Away(t) \/ Return(t)
    \/ \E S \in SUBSET Hosts : Settles(S)
    \/ Opens

RolloutSpec == RolloutInit /\ [][RolloutNext]_roVars

(* No more hosts work at a time than the campaign allows.                   *)
WithinConcurrency == Cardinality(In("working")) <= MaxConcurrent

(* What is settled stays settled: a host's end and the campaign's end are   *)
(* final.                                                                   *)
StaysSettled ==
    /\ \A t \in Hosts : host[t] = "settled" => host'[t] = "settled"
    /\ phase = "over" => phase' = "over"
SettledStays == [][StaysSettled]_roVars

=============================================================================
