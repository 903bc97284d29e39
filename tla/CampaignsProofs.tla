-------------------------- MODULE CampaignsProofs --------------------------
(***************************************************************************)
(* What holds of every campaign, for any hosts, orders and runners, and    *)
(* however the passes of the runners, the operators and the hosts          *)
(* interleave.  RolloutProofs goes on to the order of the hosts.           *)
(***************************************************************************)
EXTENDS Campaigns, FiniteSetTheorems, NaturalsInduction, WellFoundedInduction, TLAPS

(* TypeOK, by what the parts of a step touch.                               *)
CampaignTypes ==
    /\ cstate \in CampaignStates /\ gateAdvanced \in BOOLEAN /\ started \in BOOLEAN
    /\ order \in CampaignOrders /\ pauseRead \in {"none", "pausing", "paused"}
LeaseTypes == runner \in Holders /\ lapsed \in BOOLEAN
RowTypes ==
    /\ ts \in [Hosts -> TargetStates] /\ copy \in [Runners -> [Hosts -> TargetStates]]
    /\ fresh \in [Runners -> SUBSET Hosts]
ClaimTypes ==
    claimedBy \in [Hosts -> Holders] /\ attached \subseteq {"reboot", "health"} \X Hosts
JobTypes == job \in [Kinds \X Hosts -> JobStates]
HostTypes == back \subseteq Hosts /\ late \subseteq Hosts
TimeTypes == stale \subseteq Hosts /\ deadline \in BOOLEAN
FaultTypes == faults \in 0..MaxFaults
RunTypes ==
    /\ pc \in [Runners -> Phases] /\ at \in [Runners -> 1..(N + 1)]
    /\ cst \in [Runners -> CampaignStates]
    /\ cgate \in [Runners -> BOOLEAN] /\ cstarted \in [Runners -> BOOLEAN]
    /\ ordered \in [Runners -> SUBSET Hosts] /\ claimed \in [Runners -> SUBSET Hosts]
VerdictTypes == closed \subseteq Runners /\ unplanned \subseteq Runners

Types ==
    /\ CampaignTypes /\ LeaseTypes /\ RowTypes /\ ClaimTypes /\ JobTypes
    /\ HostTypes /\ TimeTypes /\ FaultTypes /\ RunTypes /\ VerdictTypes

-----------------------------------------------------------------------------
(* The least of a set of naturals.                                          *)
LEMMA LeastOf ==
  ASSUME NEW S \in SUBSET Nat, S # {}
  PROVE  Min(S) \in S /\ \A y \in S : Min(S) <= y
<1> DEFINE R == OpToRel(<, Nat)
<1>1. \E x \in S : \A y \in S : ~(<<y, x>> \in R)
  <2>1. IsWellFoundedOn(R, Nat)
    BY NatLessThanWellFounded, Zenon
  <2> HIDE DEF R
  <2> QED
    BY <2>1, WFMin, Zenon
<1>2. PICK x \in S : \A y \in S : ~(<<y, x>> \in R)
  BY <1>1, Zenon
<1>3. ASSUME NEW y \in S PROVE x <= y
  <2>1. y < x => <<y, x>> \in R
    BY Zenon DEF OpToRel
  <2> HIDE DEF R
  <2>2. ~(y < x) /\ x \in Nat /\ y \in Nat
    BY <1>2, <2>1, Zenon
  <2> QED
    BY <2>2
<1>4. \E z \in S : \A y \in S : z <= y
  BY <1>3, Zenon
<1> QED
  BY <1>4, Zenon DEF Min

(* From is the place of the next host that concerns the phase, or the end.  *)
LEMMA FromIsNext ==
  ASSUME NEW t \in Nat \ {0}, NEW phase, NEW f
  PROVE  /\ From(t, phase, f) \in 1..(N + 1)
         /\ From(t, phase, f) <= N => f[From(t, phase, f)] \in Concerned(phase)
<1> DEFINE S == {u \in t..N : f[u] \in Concerned(phase)} \union {N + 1}
<1>1. S \in SUBSET (1..(N + 1)) /\ N + 1 \in S
  BY CampaignAssumption
<1>2. S \in SUBSET Nat /\ S # {}
  BY <1>1, CampaignAssumption
<1>3. Min(S) \in S
  <2> HIDE DEF S
  <2> QED
    BY <1>2, LeastOf, Zenon
<1>4. From(t, phase, f) = Min(S)
  BY Zenon DEF From
<1> QED
  BY <1>1, <1>3, <1>4, CampaignAssumption

-----------------------------------------------------------------------------
(* What the parts of a step keep of the types.                              *)
LEMMA EndPassTypes ==
  ASSUME NEW r \in Runners, EndPass(r), RunTypes, VerdictTypes, RowTypes, ts' = ts
  PROVE  RunTypes' /\ VerdictTypes' /\ RowTypes'
<1>1. RowTypes'
  BY Zenon DEF EndPass, RowTypes, TargetStates, Unstarted, Waiting
<1>2. VerdictTypes'
  BY Zenon DEF EndPass, VerdictTypes
<1>3. RunTypes'
  BY CampaignAssumption DEF EndPass, RunTypes, Phases, CampaignStates, Driven, Launching
<1> QED
  BY <1>1, <1>2, <1>3, Zenon

LEMMA NextHostTypes ==
  ASSUME NEW r \in Runners, NextHost(r), RunTypes
  PROVE  RunTypes'
<1>1. at[r] + 1 \in Nat \ {0}
  BY CampaignAssumption DEF RunTypes
<1>2. From(at[r] + 1, pc[r], copy'[r]) \in 1..(N + 1)
  BY <1>1, FromIsNext, Zenon
<1> QED
  BY <1>2, Zenon DEF NextHost, RunTypes

LEMMA GoToTypes ==
  ASSUME NEW r \in Runners, NEW phase \in Phases, GoTo(r, phase), RunTypes,
         ordered' \in [Runners -> SUBSET Hosts]
  PROVE  RunTypes'
<1>2. From(1, phase, copy'[r]) \in 1..(N + 1)
  BY FromIsNext
<1> QED
  BY <1>2 DEF GoTo, RunTypes

LEMMA SettleTypes ==
  ASSUME NEW r \in Runners, NEW t \in Hosts, NEW s \in TargetStates, RowTypes,
         Settle(r, t, s)
  PROVE  RowTypes'
<1>1. CASE UNCHANGED <<ts, copy, fresh>>
  BY <1>1, Zenon DEF RowTypes
<1>2. CASE Write(r, t, s)
  <2>1. ts' \in [Hosts -> TargetStates] /\ fresh' \in [Runners -> SUBSET Hosts]
    BY <1>2, Zenon DEF Write, RowTypes, Touched
  <2>2. copy' \in [Runners -> [Hosts -> TargetStates]]
    BY <1>2, Zenon DEF Write, RowTypes
  <2> QED
    BY <2>1, <2>2, Zenon DEF RowTypes
<1> QED
  BY <1>1, <1>2, Zenon DEF Settle

LEMMA SetStateTypes ==
  ASSUME NEW r \in Runners, NEW to \in CampaignStates, CampaignTypes, SetState(r, to)
  PROVE  CampaignTypes'
<1>1. started' \in BOOLEAN
  BY Zenon DEF SetState, CampaignTypes
<1> QED
  BY <1>1, Zenon DEF SetState, CampaignTypes

LEMMA FaultIsCounted ==
  ASSUME NEW kind, Fault(kind), FaultTypes
  PROVE  FaultTypes'
BY CampaignAssumption DEF Fault, FaultTypes

LEMMA LaunchTypes ==
  ASSUME NEW r \in Runners, NEW t \in Hosts, NEW s \in TargetStates, NEW kind \in Kinds,
         RowTypes, JobTypes, Launch(r, t, kind, s)
  PROVE  RowTypes' /\ JobTypes'
<1>1. RowTypes'
  BY SettleTypes, Zenon DEF Launch, Settle
<1>2. JobTypes'
  BY Zenon DEF Launch, JobTypes, JobStates, OpenJob
<1> QED
  BY <1>1, <1>2, Zenon

(* The head of a pass: the list of campaigns, the lease and the read of the targets. *)
LEMMA HeadTypes ==
  ASSUME Types, NEW r \in Runners,
         List(r) \/ ClaimRunner(r) \/ AdoptTargets(r) \/ ReadTargets(r) \/ Expire(r)
  PROVE  Types'
<1>1. CASE List(r)
  <2>1. RunTypes'
    BY <1>1 DEF List, Types, RunTypes, CampaignTypes, Phases
  <2>2. CampaignTypes' /\ LeaseTypes' /\ RowTypes' /\ ClaimTypes' /\ JobTypes' /\ HostTypes'
        /\ TimeTypes' /\ FaultTypes' /\ VerdictTypes'
    BY <1>1 DEF List, Types, CampaignTypes, LeaseTypes, RowTypes, ClaimTypes, JobTypes, HostTypes,
             TimeTypes, FaultTypes, VerdictTypes, campaignVars, leaseVars, targetVars, hostVars, timeVars
  <2> QED
    BY <2>1, <2>2 DEF Types
<1>2. CASE ClaimRunner(r)
  <2>1. CampaignTypes' /\ ClaimTypes' /\ JobTypes' /\ HostTypes' /\ TimeTypes' /\ FaultTypes' /\ ts' = ts
    BY <1>2 DEF ClaimRunner, Types, CampaignTypes, ClaimTypes, JobTypes, HostTypes,
             TimeTypes, FaultTypes, campaignVars, targetVars, hostVars, timeVars
  <2>2. CASE EndPass(r) /\ UNCHANGED leaseVars
    <3>1. LeaseTypes'
      BY <2>2, Zenon DEF Types, LeaseTypes, leaseVars
    <3> QED
      BY <2>1, <2>2, <3>1, EndPassTypes DEF Types
  <2>3. CASE LeaseIsFree(r) /\ runner' = r /\ lapsed' = FALSE /\ pc' = [pc EXCEPT ![r] = "claimed"]
             /\ UNCHANGED <<copyVars, at, ordered, claimed, closed, unplanned, fresh>>
    <3>1. LeaseTypes' /\ RowTypes' /\ VerdictTypes'
      BY <2>1, <2>3, Zenon DEF Types, LeaseTypes, Holders, RowTypes, VerdictTypes, copyVars
    <3>2. RunTypes'
      BY <2>3 DEF Types, RunTypes, Phases, copyVars
    <3> QED
      BY <2>1, <3>1, <3>2 DEF Types
  <2> QED
    BY <1>2, <2>2, <2>3, Zenon DEF ClaimRunner
<1>3. CASE AdoptTargets(r)
  <2>1. claimedBy' \in [Hosts -> Holders]
    BY <1>3, Zenon DEF AdoptTargets, Types, ClaimTypes, Holders
  <2>2. fresh' \in [Runners -> SUBSET Hosts]
    BY <1>3, Zenon DEF AdoptTargets, Types, RowTypes, Touched
  <2>3. RunTypes'
    BY <1>3, Zenon DEF AdoptTargets, Types, RunTypes, Phases, copyVars
  <2>4. CampaignTypes' /\ LeaseTypes' /\ RowTypes' /\ ClaimTypes' /\ JobTypes' /\ HostTypes'
        /\ TimeTypes' /\ FaultTypes' /\ VerdictTypes'
    BY <1>3, <2>1, <2>2 DEF AdoptTargets, Types, CampaignTypes, LeaseTypes, RowTypes, ClaimTypes,
           JobTypes, HostTypes,
             TimeTypes, FaultTypes, VerdictTypes, campaignVars, leaseVars, hostVars, timeVars, copyVars
  <2> QED
    BY <2>3, <2>4, Zenon DEF Types
<1>4. CASE ReadTargets(r)
  <2>1. CampaignTypes' /\ LeaseTypes' /\ ClaimTypes' /\ JobTypes' /\ HostTypes' /\ TimeTypes' /\ FaultTypes'
        /\ ts' = ts
    BY <1>4, Zenon DEF ReadTargets, Types, CampaignTypes, LeaseTypes, ClaimTypes, JobTypes,
           HostTypes,
             TimeTypes, FaultTypes, campaignVars, leaseVars, targetVars, hostVars, timeVars
  <2>2. CASE EndPass(r)
    BY <2>1, <2>2, EndPassTypes, Zenon DEF Types
  <2>3. ASSUME copy' = [copy EXCEPT ![r] = ts], fresh' = [fresh EXCEPT ![r] = Hosts],
               NEW phase \in Phases, GoTo(r, phase),
               ordered' = [ordered EXCEPT ![r] = {t \in Hosts : job[<<"plan", t>>] # "none"}],
               UNCHANGED closed
        PROVE  Types'
    <3>1. RowTypes'
      BY <2>1, <2>3, Zenon DEF Types, RowTypes
    <3>2. ordered' \in [Runners -> SUBSET Hosts]
      BY <2>3, Zenon DEF Types, RunTypes
    <3>3. RunTypes'
      BY <2>3, <3>2, GoToTypes, Zenon DEF Types
    <3>4. VerdictTypes'
      BY <2>3, Zenon DEF Types, VerdictTypes, GoTo
    <3> QED
      BY <2>1, <3>1, <3>3, <3>4, Zenon DEF Types
  <2>4. {"expire", "plan", "work"} \subseteq Phases
    BY Zenon DEF Phases
  <2> QED
    BY <1>4, <2>2, <2>3, <2>4, Zenon DEF ReadTargets
<1>5. CASE Expire(r)
  <2>1. LeaseTypes' /\ ClaimTypes' /\ JobTypes' /\ HostTypes' /\ TimeTypes'
    BY <1>5, Zenon DEF Expire, Types, LeaseTypes, ClaimTypes, JobTypes, HostTypes,
             TimeTypes, leaseVars, hostVars
  <2>2. CASE at[r] = N + 1 /\ SetState(r, "expired") /\ EndPass(r) /\ UNCHANGED <<ts, faults>>
    <3>1. CampaignTypes'
      BY <2>2, SetStateTypes, Zenon DEF Types, CampaignStates, Terminal
    <3>2. FaultTypes'
      BY <2>2, Zenon DEF Types, FaultTypes
    <3> QED
      BY <2>1, <2>2, <3>1, <3>2, EndPassTypes, Zenon DEF Types
  <2>3. CASE /\ at[r] <= N
             /\ \/ Settle(r, at[r], "skipped") /\ UNCHANGED faults
                \/ Fault("refused") /\ UNCHANGED <<ts, copy, fresh>>
             /\ NextHost(r) /\ UNCHANGED <<campaignVars, closed, unplanned>>
    <3>1. at[r] \in Hosts /\ "skipped" \in TargetStates
      BY <2>3, CampaignAssumption DEF Types, RunTypes, Hosts, TargetStates, Finished
    <3>2. RowTypes' /\ FaultTypes'
      BY <2>3, <3>1, SettleTypes, FaultIsCounted, Zenon DEF Types, RowTypes, FaultTypes
    <3>3. CampaignTypes' /\ VerdictTypes'
      BY <2>3, Zenon DEF Types, CampaignTypes, VerdictTypes, campaignVars
    <3> QED
      BY <2>1, <2>3, <3>2, <3>3, NextHostTypes, SMTT(30) DEF Types
  <2> QED
    BY <1>5, <2>2, <2>3, Zenon DEF Expire
<1> QED
  BY <1>1, <1>2, <1>3, <1>4, <1>5, Zenon

(* A step that ends the pass and one that goes on to the next host.          *)
LEMMA EndsTypes ==
  ASSUME Types, NEW r \in Runners, EndPass(r), CampaignTypes', FaultTypes',
         UNCHANGED <<leaseVars, ts, claimedBy, attached, job, back, late, stale, deadline>>
  PROVE  Types'
<1>1. LeaseTypes' /\ ClaimTypes' /\ JobTypes' /\ HostTypes' /\ TimeTypes' /\ ts' = ts
  BY Zenon DEF Types, LeaseTypes, ClaimTypes, JobTypes, HostTypes, TimeTypes, leaseVars
<1> QED
  BY <1>1, EndPassTypes, Zenon DEF Types

LEMMA GoesOnTypes ==
  ASSUME Types, NEW r \in Runners, NextHost(r), RowTypes', JobTypes', FaultTypes',
         stale' \subseteq Hosts, VerdictTypes',
         UNCHANGED <<campaignVars, leaseVars, claimedBy, attached, back, late, deadline>>
  PROVE  Types'
<1>1. CampaignTypes' /\ LeaseTypes' /\ ClaimTypes' /\ HostTypes' /\ TimeTypes'
  BY Zenon DEF Types, CampaignTypes, LeaseTypes, ClaimTypes, HostTypes, TimeTypes, campaignVars,
         leaseVars
<1> QED
  BY <1>1, NextHostTypes, Zenon DEF Types

LEMMA HoldTypes ==
  ASSUME NEW r \in Runners, NEW t \in Hosts, RowTypes, Hold(r, t)
  PROVE  RowTypes'
<1>1. {"skipped", "queued_offline"} \subseteq TargetStates
  BY Zenon DEF TargetStates, Finished, Unstarted, Waiting
<1> QED
  BY <1>1, SettleTypes, Zenon DEF Hold, Settle

LEMMA PlanVerdictTypes ==
  ASSUME NEW r \in Runners, NEW t \in Hosts, NEW answer, RowTypes, stale \subseteq Hosts,
         PlanVerdict(r, t, answer)
  PROVE  RowTypes' /\ stale' \subseteq Hosts
<1>1. {"failed", "ineligible", "succeeded", "pending"} \subseteq TargetStates
  BY Zenon DEF TargetStates, Finished, Unstarted, Waiting
<1>2. RowTypes'
  BY <1>1, SettleTypes, Zenon DEF PlanVerdict, Settle
<1>3. stale' \subseteq Hosts
  BY Zenon DEF PlanVerdict
<1> QED
  BY <1>2, <1>3, Zenon

(* The plans of the hosts (planningPass, startPlans, collectPlans).          *)
LEMMA PlanTypes ==
  ASSUME Types, NEW r \in Runners,
         \/ OrderPlan(r) \/ RecheckOffline(r) \/ CollectPlan(r) \/ PlanNothing(r)
         \/ FinishPlanning(r)
  PROVE  Types'
<1> DEFINE t == at[r]
<1>u. {"planning", "failed", "skipped", "pending"} \subseteq TargetStates
  BY Zenon DEF TargetStates, Finished, Unstarted, Waiting
<1>h. t <= N => t \in Hosts
  BY CampaignAssumption DEF Types, RunTypes, Hosts
<1>p. {"plan", "main", "reboot", "health"} = Kinds
  BY Zenon DEF Kinds
<1>1. CASE OrderPlan(r)
  <2>1. t \in Hosts /\ UNCHANGED <<campaignVars, leaseVars, claimedBy, attached, back, late, stale, deadline>>
    BY <1>1, <1>h, Zenon DEF OrderPlan
  <2>2. CASE EndPass(r) /\ UNCHANGED <<ts, job, faults>>
    <3>1. CampaignTypes' /\ FaultTypes'
      BY <2>1, <2>2, Zenon DEF Types, CampaignTypes, FaultTypes, campaignVars
    <3> QED
      BY <2>1, <2>2, <3>1, EndsTypes, Zenon
  <2>3. CASE /\ \/ Launch(r, t, "plan", "planning") /\ UNCHANGED faults
                \/ Hold(r, t) /\ UNCHANGED <<job, faults>>
                \/ MayLaunch(r) /\ Fault("refused") /\ Settle(r, t, "failed") /\ UNCHANGED job
                \/ Unavailable(r, t) /\ UNCHANGED job
             /\ NextHost(r) /\ unplanned' = unplanned \union {r} /\ UNCHANGED closed
    <3>1. RowTypes'
      BY <2>1, <2>3, <1>u, <1>p, LaunchTypes, HoldTypes, SettleTypes, Zenon DEF Types, Unavailable
    <3>2. JobTypes'
      BY <2>1, <2>3, <1>u, <1>p, LaunchTypes, SMTT(30) DEF Types, JobTypes
    <3>3. FaultTypes'
      BY <2>3, FaultIsCounted, Zenon DEF Types, FaultTypes, Unavailable
    <3>4. VerdictTypes' /\ stale' \subseteq Hosts
      BY <2>1, <2>3, Zenon DEF Types, VerdictTypes, TimeTypes
    <3> QED
      BY <2>1, <2>3, <3>1, <3>2, <3>3, <3>4, GoesOnTypes, Zenon
  <2> QED
    BY <1>1, <2>2, <2>3, Zenon DEF OrderPlan
<1>2. CASE RecheckOffline(r)
  <2>1. t \in Hosts /\ UNCHANGED <<campaignVars, leaseVars, claimedBy, attached, job, back, late, stale, deadline>>
    BY <1>2, <1>h, Zenon DEF RecheckOffline, hostVars
  <2>2. CASE EndPass(r) /\ UNCHANGED <<ts, faults>>
    <3>1. CampaignTypes' /\ FaultTypes'
      BY <2>1, <2>2, Zenon DEF Types, CampaignTypes, FaultTypes, campaignVars
    <3> QED
      BY <2>1, <2>2, <3>1, EndsTypes, Zenon
  <2>3. CASE /\ Write(r, t, "pending") /\ ordered' = [ordered EXCEPT ![r] = @ \ {t}]
             /\ UNCHANGED <<pc, at, cst, cgate, cstarted, claimed, closed, unplanned, faults>>
    <3>1. RowTypes'
      BY <2>1, <2>3, <1>u, SettleTypes, Zenon DEF Types, Settle
    <3>2. RunTypes'
      BY <2>3, Zenon DEF Types, RunTypes
    <3>3. CampaignTypes' /\ LeaseTypes' /\ ClaimTypes' /\ JobTypes' /\ HostTypes' /\ TimeTypes'
          /\ FaultTypes' /\ VerdictTypes'
      BY <2>1, <2>3, Zenon DEF Types, CampaignTypes, LeaseTypes, ClaimTypes, JobTypes, HostTypes,
         TimeTypes, FaultTypes, VerdictTypes, campaignVars, leaseVars
    <3> QED
      BY <3>1, <3>2, <3>3, Zenon DEF Types
  <2>4. CASE /\ \/ deadline /\ Settle(r, t, "skipped") /\ UNCHANGED faults
                \/ ~deadline /\ UNCHANGED <<ts, copy, fresh, faults>>
                \/ Unavailable(r, t)
             /\ NextHost(r) /\ unplanned' = unplanned \union {r} /\ UNCHANGED closed
    <3>1. RowTypes'
      BY <2>1, <2>4, <1>u, SettleTypes, Zenon DEF Types, Unavailable, RowTypes
    <3>2. FaultTypes'
      BY <2>4, FaultIsCounted, Zenon DEF Types, FaultTypes, Unavailable
    <3>3. VerdictTypes' /\ stale' \subseteq Hosts /\ JobTypes'
      BY <2>1, <2>4, Zenon DEF Types, VerdictTypes, TimeTypes, JobTypes
    <3> QED
      BY <2>1, <2>4, <3>1, <3>2, <3>3, GoesOnTypes
  <2> QED
    BY <1>2, <2>2, <2>3, <2>4, Zenon DEF RecheckOffline
<1>3. CASE CollectPlan(r)
  <2>1. t \in Hosts /\ UNCHANGED <<campaignVars, leaseVars, claimedBy, attached, job, back, late, deadline, faults>>
    BY <1>3, <1>h, Zenon DEF CollectPlan, hostVars
  <2>2. CampaignTypes' /\ FaultTypes' /\ JobTypes'
    BY <2>1, Zenon DEF Types, CampaignTypes, FaultTypes, JobTypes, campaignVars
  <2>3. CASE EndPass(r) /\ UNCHANGED <<ts, stale>>
    BY <2>1, <2>2, <2>3, EndsTypes, Zenon
  <2>4. CASE /\ UNCHANGED <<ts, copy, fresh, stale>>
             /\ NextHost(r) /\ unplanned' = unplanned \union {r} /\ UNCHANGED closed
    <3>1. RowTypes' /\ VerdictTypes' /\ stale' \subseteq Hosts
      BY <2>4, Zenon DEF Types, RowTypes, VerdictTypes, TimeTypes
    <3> QED
      BY <2>1, <2>2, <2>4, <3>1, GoesOnTypes, Zenon
  <2>5. CASE PlanVerdict(r, t, job[<<"plan", t>>]) /\ NextHost(r) /\ UNCHANGED <<closed, unplanned>>
    <3>1. RowTypes' /\ stale' \subseteq Hosts
      BY <2>1, <2>5, PlanVerdictTypes, Zenon DEF Types, TimeTypes
    <3>2. VerdictTypes'
      BY <2>5, Zenon DEF Types, VerdictTypes
    <3> QED
      BY <2>1, <2>2, <2>5, <3>1, <3>2, GoesOnTypes, SMTT(30)
  <2> QED
    BY <1>3, <2>3, <2>4, <2>5, Zenon DEF CollectPlan
<1>4. CASE PlanNothing(r)
  <2>1. RowTypes' /\ VerdictTypes' /\ stale' \subseteq Hosts /\ JobTypes' /\ FaultTypes'
    BY <1>4, Zenon DEF PlanNothing, Types, RowTypes, VerdictTypes, TimeTypes, JobTypes, FaultTypes,
                targetVars, hostVars, timeVars
  <2> QED
    BY <1>4, <2>1, GoesOnTypes, Zenon DEF PlanNothing, targetVars, hostVars, timeVars
<1>5. CASE FinishPlanning(r)
  <2>1. Completed(copy[r]) \in CampaignStates /\ "plan_failed" \in CampaignStates
        /\ {"awaiting_approval", "planned"} \subseteq CampaignStates
    BY Zenon DEF Completed, CampaignStates, Terminal, Driven, Launching
  <2>2. CampaignTypes'
    BY <1>5, <2>1, SetStateTypes, Zenon DEF FinishPlanning, Types, CampaignTypes, campaignVars
  <2>3. FaultTypes'
    BY <1>5, Zenon DEF FinishPlanning, Types, FaultTypes, timeVars
  <2> QED
    BY <1>5, <2>2, <2>3, EndsTypes, Zenon DEF FinishPlanning, targetVars, hostVars, timeVars
<1> QED
  BY <1>1, <1>2, <1>3, <1>4, <1>5

LEMMA SubmitTypes ==
  ASSUME Types, NEW r \in Runners, NEW t \in Hosts, NEW kind \in Kinds, Submit(r, kind, t),
         UNCHANGED <<campaignVars, leaseVars, claimedBy, attached, back, late, deadline>>
  PROVE  Types'
<1>1. JobTypes'
  BY Zenon DEF Submit, Types, JobTypes, JobStates, OpenJob
<1>2. RunTypes'
  BY Zenon DEF Submit, Types, RunTypes, Phases
<1>3. CampaignTypes' /\ LeaseTypes' /\ RowTypes' /\ ClaimTypes' /\ HostTypes' /\ TimeTypes'
      /\ FaultTypes' /\ VerdictTypes'
  BY DEF Submit, Types, CampaignTypes, LeaseTypes, RowTypes, ClaimTypes, HostTypes, TimeTypes,
         FaultTypes, VerdictTypes, campaignVars, leaseVars
<1> QED
  BY <1>1, <1>2, <1>3, Zenon DEF Types

(* A step that is done with its host, and writes at most its row.            *)
LEMMA DoneTypes ==
  ASSUME Types, NEW r \in Runners, Done(r), RowTypes', FaultTypes', stale' \subseteq Hosts,
         UNCHANGED <<campaignVars, leaseVars, claimedBy, attached, back, late, deadline>>
  PROVE  Types'
<1>1. JobTypes' /\ VerdictTypes'
  BY Zenon DEF Done, Types, JobTypes, VerdictTypes
<1> QED
  BY <1>1, GoesOnTypes, Zenon DEF Done

LEMMA VerifyTypes ==
  ASSUME Types, NEW r \in Runners, NEW t \in Hosts, Verify(r, t),
         UNCHANGED <<campaignVars, leaseVars, claimedBy, attached, back, late, deadline>>
  PROVE  Types'
<1>1. CASE Submit(r, "health", t)
  BY <1>1, SubmitTypes, Zenon DEF Kinds
<1>2. CASE Settle(r, t, "succeeded") /\ Done(r) /\ UNCHANGED <<stale, faults>>
  <2>1. RowTypes' /\ FaultTypes' /\ stale' \subseteq Hosts
    BY <1>2, SettleTypes, Zenon DEF Types, FaultTypes, TimeTypes, TargetStates, Finished
  <2> QED
    BY <1>2, <2>1, DoneTypes, Zenon
<1> QED
  BY <1>1, <1>2, Zenon DEF Verify

(* The hosts that are in flight (advanceTarget).                             *)
LEMMA WorkTypes ==
  ASSUME Types, NEW r \in Runners, pc[r] = "submitted" => at[r] \in Hosts,
         \/ AfterMainJob(r) \/ StartStep(r) \/ AfterReboot(r) \/ AfterHealthCheck(r)
         \/ AfterReplan(r)
  PROVE  Types'
<1> DEFINE t == at[r]
<1>u. {"running", "dispatched", "rebooting", "verifying"} \union Finished \subseteq TargetStates
  BY Zenon DEF TargetStates, InFlight
<1>v. {"failed", "skipped", "succeeded", "unknown", "absent", "canceled"} \subseteq Finished
  BY Zenon DEF Finished
<1>h. t <= N => t \in Hosts
  BY CampaignAssumption DEF Types, RunTypes, Hosts
<1>r. FaultTypes /\ stale \subseteq Hosts
  BY Zenon DEF Types, TimeTypes
<1>1. CASE AfterMainJob(r)
  <2> DEFINE task == job[<<"main", t>>]
  <2>1. t \in Hosts /\ UNCHANGED <<campaignVars, leaseVars, claimedBy, attached, back, late, deadline>>
    BY <1>1, <1>h, Zenon DEF AfterMainJob, AtHost
  <2>2. CASE Follow(r, t, task) /\ Done(r) /\ UNCHANGED <<stale, faults>>
    <3>1. RowTypes'
      BY <2>1, <2>2, <1>u, SettleTypes, Zenon DEF Follow, Types, RowTypes
    <3> QED
      BY <2>1, <2>2, <3>1, <1>r, DoneTypes, Zenon DEF FaultTypes
  <2>3. CASE /\ task \in {"lost", "absent", "canceled", "failed", "nochange"}
             /\ Settle(r, t, MainVerdict(task)) /\ Done(r) /\ UNCHANGED <<stale, faults>>
    <3>1. MainVerdict(task) \in TargetStates
      BY <2>3, <1>u, <1>v, Zenon DEF MainVerdict
    <3>2. RowTypes'
      BY <2>1, <2>3, <3>1, SettleTypes, Zenon DEF Types
    <3> QED
      BY <2>1, <2>3, <3>2, <1>r, DoneTypes, Zenon DEF FaultTypes
  <2>4. CASE Verify(r, t)
    BY <2>1, <2>4, VerifyTypes, Zenon
  <2>5. CASE Submit(r, "reboot", t)
    BY <2>1, <2>5, SubmitTypes, Zenon DEF Kinds
  <2>6. CASE Fault("refused") /\ Settle(r, t, "failed") /\ Done(r) /\ UNCHANGED stale
    <3>1. RowTypes' /\ FaultTypes' /\ stale' \subseteq Hosts
      BY <2>1, <2>6, <1>u, <1>v, <1>r, SettleTypes, FaultIsCounted, Zenon DEF Types
    <3> QED
      BY <2>1, <2>6, <3>1, DoneTypes, Zenon
  <2> QED
    BY <1>1, <2>2, <2>3, <2>4, <2>5, <2>6, Zenon DEF AfterMainJob
<1>2. CASE StartStep(r)
  <2>1. t \in Hosts
    BY <1>2, Zenon DEF StartStep
  <2>2. RowTypes'
    BY <1>2, <2>1, <1>u, SettleTypes, Zenon DEF StartStep, Types
  <2>3. ClaimTypes'
    <3>1. /\ attached' = attached \/ \E k \in {"reboot", "health"} : attached' = attached \union {<<k, t>>}
          /\ claimedBy' = claimedBy
      BY <1>2, Zenon DEF StartStep
    <3> QED
      BY <2>1, <3>1 DEF Types, ClaimTypes
  <2>4. t + 1 \in Nat \ {0}
    BY CampaignAssumption DEF Types, RunTypes
  <2>5. From(t + 1, "work", copy'[r]) \in 1..(N + 1)
    BY <2>4, FromIsNext, Zenon
  <2>6. RunTypes'
    BY <1>2, <2>5, Zenon DEF StartStep, Types, RunTypes, Phases
  <2>7. CampaignTypes' /\ LeaseTypes' /\ JobTypes' /\ HostTypes' /\ TimeTypes'
        /\ FaultTypes' /\ VerdictTypes'
    BY <1>2, Zenon DEF StartStep, Types, CampaignTypes, LeaseTypes, JobTypes, HostTypes, TimeTypes,
         FaultTypes, VerdictTypes, campaignVars, leaseVars, hostVars, timeVars
  <2> QED
    BY <2>2, <2>3, <2>6, <2>7, Zenon DEF Types
<1>3. CASE AfterReboot(r)
  <2>1. t \in Hosts /\ UNCHANGED <<campaignVars, leaseVars, claimedBy, attached, back, late, deadline>>
    BY <1>3, <1>h, Zenon DEF AfterReboot, AtHost
  <2>2. CASE Settle(r, t, "failed") /\ Done(r) /\ UNCHANGED <<stale, faults>>
    <3>1. RowTypes'
      BY <2>1, <2>2, <1>u, <1>v, SettleTypes, SMTT(30) DEF Types
    <3> QED
      BY <2>1, <2>2, <3>1, <1>r, DoneTypes, Zenon DEF FaultTypes
  <2>3. CASE Verify(r, t)
    BY <2>1, <2>3, VerifyTypes, Zenon
  <2>4. CASE /\ Fault("window") /\ Write(r, t, "failed") /\ NextHost(r)
             /\ closed' = closed \union {r} /\ UNCHANGED <<job, unplanned, stale>>
    <3>1. RowTypes' /\ FaultTypes' /\ stale' \subseteq Hosts
      BY <2>1, <2>4, <1>u, <1>v, <1>r, SettleTypes, FaultIsCounted, SMTT(30) DEF Types, Settle
    <3>2. JobTypes' /\ VerdictTypes'
      BY <2>4, Zenon DEF Types, JobTypes, VerdictTypes
    <3> QED
      BY <2>1, <2>4, <3>1, <3>2, GoesOnTypes, Zenon
  <2>5. CASE UNCHANGED <<ts, copy, fresh, stale, faults>> /\ Done(r)
    <3>1. RowTypes'
      BY <2>5, Zenon DEF Types, RowTypes
    <3> QED
      BY <2>1, <2>5, <3>1, <1>r, DoneTypes DEF FaultTypes
  <2> QED
    BY <1>3, <2>2, <2>3, <2>4, <2>5, Zenon DEF AfterReboot
<1>4. CASE AfterHealthCheck(r)
  <2>1. t \in Hosts /\ UNCHANGED <<campaignVars, leaseVars, claimedBy, attached, back, late, deadline>>
    BY <1>4, <1>h, Zenon DEF AfterHealthCheck, AtHost, timeVars
  <2>2. HealthVerdict(job[<<"health", t>>]) \in TargetStates
    BY <1>u, <1>v, Zenon DEF HealthVerdict
  <2>3. RowTypes'
    BY <1>4, <2>1, <2>2, SettleTypes, Zenon DEF AfterHealthCheck, Types, RowTypes
  <2> QED
    BY <1>4, <2>1, <2>3, <1>r, DoneTypes, Zenon DEF AfterHealthCheck, FaultTypes, timeVars
<1>5. CASE AfterReplan(r)
  <2>1. t \in Hosts /\ UNCHANGED <<campaignVars, leaseVars, claimedBy, attached, back, late, deadline>>
        /\ faults' = faults
    BY <1>5, <1>h, Zenon DEF AfterReplan, AtHost
  <2>2. RowTypes' /\ stale' \subseteq Hosts
    BY <1>5, <2>1, <1>u, <1>v, <1>r, PlanVerdictTypes, SettleTypes, Zenon
       DEF AfterReplan, Types, RowTypes
  <2> QED
    BY <1>5, <2>1, <2>2, <1>r, DoneTypes, Zenon DEF AfterReplan, FaultTypes
<1> QED
  BY <1>1, <1>2, <1>3, <1>4, <1>5, Zenon

(* The end of a pass: what to do next, the wave, its claim and its hosts.    *)
LEMMA WaveTypes ==
  ASSUME Types, NEW r \in Runners,
         \/ Decide(r) \/ ServiceOffline(r) \/ EnterWave(r) \/ ClaimWave(r) \/ LaunchHost(r)
         \/ WaveIsOut(r)
  PROVE  Types'
<1>u. {"planning", "pending", "failed", "skipped", "dispatched", "awaiting_budget"} \subseteq TargetStates
  BY Zenon DEF TargetStates, Finished, Unstarted, Waiting, InFlight
<1>v. {"canceled", "paused", "pausing", "manual_gate", "canary", "running"} \subseteq CampaignStates
  BY Zenon DEF CampaignStates, Terminal, Driven, Launching
<1>w. Completed(copy[r]) \in CampaignStates /\ PauseState(copy[r]) \in CampaignStates
  BY <1>v, Zenon DEF Completed, CampaignStates, Terminal, PauseState
<1>h. at[r] <= N => at[r] \in Hosts
  BY CampaignAssumption DEF Types, RunTypes, Hosts
<1>p. {"plan", "main", "reboot", "health"} = Kinds
  BY Zenon DEF Kinds
<1>r. CampaignTypes /\ FaultTypes /\ stale \subseteq Hosts
  BY Zenon DEF Types, TimeTypes
<1>1. CASE Decide(r)
  <2>1. UNCHANGED <<leaseVars, ts, claimedBy, attached, job, back, late, stale, deadline, faults>>
    BY <1>1, Zenon DEF Decide, targetVars, hostVars, timeVars
  <2>2. FaultTypes'
    BY <2>1, <1>r, Zenon DEF FaultTypes
  <2>3. CampaignTypes'
    BY <1>1, <1>r, <1>v, <1>w, SetStateTypes, Zenon DEF Decide, CampaignTypes, campaignVars
  <2>4. CASE EndPass(r)
    BY <2>1, <2>2, <2>3, <2>4, EndsTypes, Zenon
  <2>5. CASE UNCHANGED <<campaignVars, copy, fresh, ordered, closed>> /\ GoTo(r, "offline")
    <3>1. RunTypes'
      BY <2>5, GoToTypes, Zenon DEF Types, RunTypes, Phases
    <3>2. LeaseTypes' /\ RowTypes' /\ ClaimTypes' /\ JobTypes' /\ HostTypes' /\ TimeTypes'
          /\ VerdictTypes'
      BY <2>1, <2>5 DEF Types, LeaseTypes, RowTypes, ClaimTypes, JobTypes, HostTypes, TimeTypes,
         VerdictTypes, leaseVars, GoTo
    <3> QED
      BY <2>2, <2>3, <3>1, <3>2 DEF Types
  <2> QED
    BY <1>1, <2>4, <2>5, Zenon DEF Decide
<1>2. CASE ServiceOffline(r)
  <2> DEFINE t == at[r]
  <2>1. t \in Hosts /\ UNCHANGED <<campaignVars, leaseVars, claimedBy, attached, back, late, stale, deadline>>
    BY <1>2, <1>h, Zenon DEF ServiceOffline
  <2>2. CASE EndPass(r) /\ UNCHANGED <<ts, job, faults>>
    <3>1. CampaignTypes' /\ FaultTypes'
      BY <1>r, <2>1, <2>2, Zenon DEF CampaignTypes, FaultTypes, campaignVars
    <3> QED
      BY <2>1, <2>2, <3>1, EndsTypes, Zenon
  <2>3. CASE /\ \/ deadline /\ Settle(r, t, "skipped") /\ UNCHANGED <<job, faults>>
                \/ ~deadline /\ UNCHANGED <<ts, copy, fresh, job, faults>>
                \/ Unavailable(r, t) /\ UNCHANGED job
                \/ order.offline # "replan" /\ Write(r, t, "pending") /\ UNCHANGED <<job, faults>>
                \/ order.offline = "replan" /\ Launch(r, t, "plan", "planning") /\ UNCHANGED faults
                \/ /\ order.offline = "replan" /\ MayLaunch(r)
                   /\ Fault("refused") /\ Settle(r, t, "failed") /\ UNCHANGED job
             /\ NextHost(r) /\ UNCHANGED <<closed, unplanned>>
    <3>1. RowTypes'
      BY <2>1, <2>3, <1>u, <1>p, LaunchTypes, SettleTypes, Zenon
         DEF Types, Unavailable, Settle, RowTypes
    <3>2. JobTypes'
      BY <2>1, <2>3, <1>u, <1>p, LaunchTypes, Zenon DEF Types, JobTypes
    <3>3. FaultTypes'
      BY <2>3, <1>r, FaultIsCounted, Zenon DEF FaultTypes, Unavailable
    <3>4. VerdictTypes' /\ stale' \subseteq Hosts
      BY <2>1, <2>3, <1>r, Zenon DEF Types, VerdictTypes
    <3> QED
      BY <2>1, <2>3, <3>1, <3>2, <3>3, <3>4, GoesOnTypes, Zenon
  <2> QED
    BY <1>2, <2>2, <2>3, Zenon DEF ServiceOffline
<1>3. CASE EnterWave(r)
  <2> DEFINE desired == IF CurrentWave(copy[r]) = 0 /\ cst[r] # "running" THEN "canary" ELSE "running"
  <2>1. UNCHANGED <<leaseVars, ts, claimedBy, attached, job, back, late, stale, deadline>>
    BY <1>3, Zenon DEF EnterWave, targetVars, hostVars
  <2>2. FaultTypes'
    BY <1>3, <1>r, FaultIsCounted, Zenon DEF EnterWave, FaultTypes
  <2>3. CampaignTypes'
    BY <1>3, <1>r, <1>v, SetStateTypes, Zenon DEF EnterWave, CampaignTypes, campaignVars
  <2>4. CASE EndPass(r)
    BY <2>1, <2>2, <2>3, <2>4, EndsTypes, Zenon
  <2>5. CASE /\ pc' = [pc EXCEPT ![r] = "claim"] /\ cst' = [cst EXCEPT ![r] = desired]
             /\ UNCHANGED <<at, cgate, cstarted, copy, fresh, ordered, claimed, closed, unplanned>>
    <3>1. RunTypes'
      BY <2>5, <1>v, Zenon DEF Types, RunTypes, Phases
    <3>2. LeaseTypes' /\ RowTypes' /\ ClaimTypes' /\ JobTypes' /\ HostTypes' /\ TimeTypes'
          /\ VerdictTypes'
      BY <2>1, <2>5, Zenon DEF Types, LeaseTypes, RowTypes, ClaimTypes, JobTypes, HostTypes,
             TimeTypes,
         VerdictTypes, leaseVars
    <3> QED
      BY <2>2, <2>3, <3>1, <3>2, Zenon DEF Types
  <2> QED
    BY <1>3, <2>4, <2>5, Zenon DEF EnterWave
<1>4. CASE ClaimWave(r)
  <2>1. UNCHANGED <<campaignVars, leaseVars, ts, attached, job, back, late, stale, deadline, faults>>
    BY <1>4, Zenon DEF ClaimWave, hostVars, timeVars
  <2>2. CampaignTypes' /\ FaultTypes'
    BY <1>r, <2>1, Zenon DEF CampaignTypes, FaultTypes, campaignVars
  <2>3. CASE EndPass(r) /\ UNCHANGED claimedBy
    BY <2>1, <2>2, <2>3, EndsTypes, Zenon
  <2>4. ASSUME NEW first \in SUBSET Hosts,
               claimed' = [claimed EXCEPT ![r] = {t \in first : copy[r][t] \in Waiting \ {"queued_offline"}}],
               claimedBy' = [t \in Hosts |-> IF t \in first THEN r ELSE claimedBy[t]],
               fresh' = [Touched(first, r) EXCEPT ![r] = @ \union claimed'[r]],
               pc' = [pc EXCEPT ![r] = "launch"],
               UNCHANGED <<copyVars, at, ordered, closed, unplanned>>
        PROVE  Types'
    <3>1. claimed' \in [Runners -> SUBSET Hosts] /\ claimedBy' \in [Hosts -> Holders]
      BY <2>4, Zenon DEF Types, RunTypes, ClaimTypes, Holders
    <3>2. Touched(first, r) \in [Runners -> SUBSET Hosts]
      BY Zenon DEF Touched, Types, RowTypes
    <3>3. fresh' \in [Runners -> SUBSET Hosts]
      BY <2>4, <3>1, <3>2, Zenon
    <3>4. RunTypes'
      BY <2>4, <3>1, Zenon DEF Types, RunTypes, Phases, copyVars
    <3>5. LeaseTypes' /\ RowTypes' /\ ClaimTypes' /\ JobTypes' /\ HostTypes' /\ TimeTypes'
          /\ VerdictTypes'
      BY <2>1, <2>4, <3>1, <3>3, Zenon DEF Types, LeaseTypes, RowTypes, ClaimTypes, JobTypes,
             HostTypes,
         TimeTypes, VerdictTypes, leaseVars, copyVars
    <3> QED
      BY <2>2, <3>4, <3>5, Zenon DEF Types
  <2> QED
    BY <1>4, <2>3, <2>4, Zenon DEF ClaimWave
<1>5. CASE LaunchHost(r)
  <2> DEFINE t == Min(claimed[r])
  <2>1. t \in claimed[r] /\ t \in Hosts
    <3>1. claimed[r] \in SUBSET Nat /\ claimed[r] # {} /\ claimed[r] \subseteq Hosts
      <4>1. claimed[r] # {} /\ claimed[r] \in SUBSET Hosts
        BY <1>5, Zenon DEF LaunchHost, Types, RunTypes
      <4> QED
        BY <4>1 DEF Hosts
    <3> QED
      BY <3>1, LeastOf, Zenon
  <2>2. UNCHANGED <<leaseVars, claimedBy, attached, back, late, stale, deadline>>
    BY <1>5, Zenon DEF LaunchHost
  <2>3. CASE EndPass(r) /\ UNCHANGED <<ts, job>>
    <3>1. FaultTypes'
      BY <1>5, <1>r, FaultIsCounted, Zenon DEF LaunchHost, FaultTypes, Unavailable
    <3>2. CampaignTypes'
      BY <1>5, <1>r, <1>w, SetStateTypes, Zenon DEF LaunchHost, CampaignTypes, campaignVars
    <3> QED
      BY <2>2, <2>3, <3>1, <3>2, EndsTypes, Zenon
  <2>4. CASE /\ \/ Hold(r, t) /\ UNCHANGED <<job, faults>>
                \/ Unavailable(r, t) /\ UNCHANGED job
                \/ Fault("hold") /\ Write(r, t, "awaiting_budget") /\ UNCHANGED job
                \/ /\ MayLaunch(r) /\ order.planned /\ t \in stale
                   /\ Settle(r, t, "failed") /\ UNCHANGED <<job, faults>>
                \/ MayLaunch(r) /\ Fault("refused") /\ Settle(r, t, "failed") /\ UNCHANGED job
                \/ /\ ~(order.planned /\ t \in stale)
                   /\ Launch(r, t, "main", "dispatched") /\ UNCHANGED faults
             /\ claimed' = [claimed EXCEPT ![r] = @ \ {t}]
             /\ UNCHANGED <<pc, at, cst, cgate, cstarted, ordered, closed, unplanned>>
             /\ UNCHANGED campaignVars
    <3>1. RowTypes'
      BY <2>1, <2>4, <1>u, <1>p, LaunchTypes, SettleTypes, HoldTypes, Zenon
         DEF Types, Unavailable, Settle
    <3>2. JobTypes'
      BY <2>1, <2>4, <1>u, <1>p, LaunchTypes, Zenon DEF Types, JobTypes
    <3>3. FaultTypes'
      BY <2>4, <1>r, FaultIsCounted, Zenon DEF FaultTypes, Unavailable
    <3>4. RunTypes'
      BY <2>4, Zenon DEF Types, RunTypes
    <3>5. CampaignTypes' /\ LeaseTypes' /\ ClaimTypes' /\ HostTypes' /\ TimeTypes' /\ VerdictTypes'
      BY <2>2, <2>4, Zenon DEF Types, CampaignTypes, LeaseTypes, ClaimTypes, HostTypes, TimeTypes,
         VerdictTypes, campaignVars, leaseVars
    <3> QED
      BY <3>1, <3>2, <3>3, <3>4, <3>5, Zenon DEF Types
  <2> QED
    BY <1>5, <2>3, <2>4, Zenon DEF LaunchHost
<1>6. CASE WaveIsOut(r)
  <2>1. CampaignTypes' /\ FaultTypes'
    BY <1>6, <1>r, Zenon DEF WaveIsOut, CampaignTypes, FaultTypes, campaignVars, timeVars
  <2> QED
    BY <1>6, <2>1, EndsTypes, Zenon DEF WaveIsOut, targetVars, hostVars, timeVars
<1> QED
  BY <1>1, <1>2, <1>3, <1>4, <1>5, <1>6, SMTT(30)

(* Every step of a runner keeps the types.                                   *)
LEMMA RunnerTypes ==
  ASSUME Types, NEW r \in Runners, RenewRunner(r) \/ PassFails(r) \/ Stop(r)
  PROVE  Types'
<1>1. CASE RenewRunner(r)
  <2>1. CampaignTypes' /\ ClaimTypes' /\ JobTypes' /\ HostTypes' /\ TimeTypes' /\ FaultTypes'
        /\ ts' = ts
    BY <1>1, Zenon DEF RenewRunner, Types, CampaignTypes, ClaimTypes, JobTypes, HostTypes,
           TimeTypes,
            FaultTypes, campaignVars, targetVars, hostVars, timeVars
  <2>2. LeaseTypes'
    BY <1>1, Zenon DEF RenewRunner, Types, LeaseTypes
  <2>3. CASE EndPass(r)
    BY <2>1, <2>2, <2>3, EndPassTypes, Zenon DEF Types
  <2>4. CASE UNCHANGED <<copyVars, passVars, fresh>>
    <3>1. RowTypes' /\ RunTypes' /\ VerdictTypes'
      BY <2>1, <2>4, Zenon DEF Types, RowTypes, RunTypes, VerdictTypes, copyVars, passVars
    <3> QED
      BY <2>1, <2>2, <3>1, Zenon DEF Types
  <2> QED
    BY <1>1, <2>3, <2>4, Zenon DEF RenewRunner
<1>2. CASE PassFails(r)
  <2>1. CampaignTypes' /\ FaultTypes'
    BY <1>2, FaultIsCounted, Zenon DEF PassFails, Types, CampaignTypes, campaignVars
  <2> QED
    BY <1>2, <2>1, EndsTypes, Zenon DEF PassFails, targetVars, hostVars
<1>3. CASE Stop(r)
  <2>1. CampaignTypes' /\ JobTypes' /\ HostTypes' /\ TimeTypes' /\ FaultTypes' /\ ts' = ts
    BY <1>3, FaultIsCounted, Zenon DEF Stop, Types, CampaignTypes, JobTypes, HostTypes, TimeTypes,
       campaignVars, hostVars
  <2>2. LeaseTypes'
    BY <1>3, Zenon DEF Stop, Types, LeaseTypes, Holders
  <2>3. ClaimTypes'
    BY <1>3, Zenon DEF Stop, Types, ClaimTypes, Holders
  <2> QED
    BY <1>3, <2>1, <2>2, <2>3, EndPassTypes, Zenon DEF Stop, Types
<1> QED
  BY <1>1, <1>2, <1>3, Zenon

(* A step outside the passes.                                               *)
LEMMA OutsideTypes ==
  ASSUME Types, UNCHANGED <<copyVars, passVars>>, CampaignTypes', LeaseTypes', ClaimTypes',
         ts' \in [Hosts -> TargetStates], fresh' \in [Runners -> SUBSET Hosts],
         JobTypes', HostTypes', TimeTypes', FaultTypes'
  PROVE  Types'
BY Zenon DEF Types, RowTypes, RunTypes, VerdictTypes, copyVars, passVars

(* So does every order of an operator,                                       *)
LEMMA OperatorTypes ==
  ASSUME Types, Operator
  PROVE  Types'
<1>1. CASE Approve \/ PauseReads \/ Pause \/ Resume \/ Advance
  <2>1. UNCHANGED <<leaseVars, targetVars, hostVars, timeVars, copyVars, passVars, fresh>>
    BY <1>1, Zenon DEF Approve, PauseReads, Pause, Resume, Advance
  <2>2. LeaseTypes' /\ ClaimTypes' /\ ts' \in [Hosts -> TargetStates]
        /\ fresh' \in [Runners -> SUBSET Hosts] /\ JobTypes' /\ HostTypes' /\ TimeTypes' /\ FaultTypes'
    BY <2>1, Zenon DEF Types, LeaseTypes, RowTypes, ClaimTypes, JobTypes, HostTypes, TimeTypes,
           FaultTypes,
       leaseVars, targetVars, hostVars, timeVars
  <2>3. {"planned", "running", "paused", "pausing"} \subseteq CampaignStates
    BY Zenon DEF CampaignStates, Driven, Launching
  <2>4. CampaignTypes'
    BY <1>1, <2>3, Zenon DEF Approve, PauseReads, Pause, Resume, Advance, PauseState, Types,
           CampaignTypes
  <2> QED
    BY <2>1, <2>2, <2>4, OutsideTypes, Zenon
<1>2. CASE Cancel
  <2>1. UNCHANGED <<leaseVars, claimedBy, attached, back, late, timeVars, copyVars, passVars>>
    BY <1>2, Zenon DEF Cancel
  <2>2. LeaseTypes' /\ ClaimTypes' /\ HostTypes' /\ TimeTypes' /\ FaultTypes'
    BY <2>1, Zenon DEF Types, LeaseTypes, ClaimTypes, HostTypes, TimeTypes, FaultTypes, leaseVars,
           timeVars
  <2>3. {"canceling", "canceled"} \subseteq CampaignStates
    BY Zenon DEF CampaignStates, Driven, Terminal
  <2>4. CampaignTypes'
    BY <1>2, <2>3, Zenon DEF Cancel, Types, CampaignTypes
  <2>5. ts' \in [Hosts -> TargetStates]
    BY <1>2, Zenon DEF Cancel, Types, RowTypes, TargetStates, Finished
  <2>6. JobTypes'
    BY <1>2, Zenon DEF Cancel, Types, JobTypes, JobStates, OpenJob
  <2>7. fresh' \in [Runners -> SUBSET Hosts]
    BY <1>2, Zenon DEF Cancel, Types, RowTypes, Touched
  <2> QED
    BY <2>1, <2>2, <2>4, <2>5, <2>6, <2>7, OutsideTypes, SMTT(30)
<1>3. CASE SkipTarget
  <2>1. UNCHANGED <<campaignVars, leaseVars, claimedBy, attached, hostVars, timeVars, copyVars, passVars>>
    BY <1>3, Zenon DEF SkipTarget
  <2>2. CampaignTypes' /\ LeaseTypes' /\ ClaimTypes' /\ JobTypes' /\ HostTypes' /\ TimeTypes' /\ FaultTypes'
    BY <2>1, Zenon DEF Types, CampaignTypes, LeaseTypes, ClaimTypes, JobTypes, HostTypes,
           TimeTypes, FaultTypes,
       campaignVars, leaseVars, hostVars, timeVars
  <2>3. ts' \in [Hosts -> TargetStates] /\ fresh' \in [Runners -> SUBSET Hosts]
    BY <1>3 DEF SkipTarget, Types, RowTypes, Touched, TargetStates, Finished
  <2> QED
    BY <2>1, <2>2, <2>3, OutsideTypes, Zenon
<1> QED
  BY <1>1, <1>2, <1>3, Zenon DEF Operator

LEMMA OutcomesAreStates ==
  ASSUME NEW kind \in Kinds
  PROVE  Ends(kind) \subseteq JobStates
BY Zenon DEF Kinds, Ends, JobStates

(* every step of a task on its host,                                         *)
LEMMA HostStepTypes ==
  ASSUME Types, NEW t \in Hosts, HostStep(t)
  PROVE  Types'
<1>1. ASSUME NEW job2 \in [Kinds \X Hosts -> JobStates], HostMoves(job2), FaultTypes'
      PROVE  Types'
  <2>1. CampaignTypes' /\ LeaseTypes' /\ ClaimTypes' /\ JobTypes' /\ HostTypes' /\ TimeTypes'
        /\ ts' \in [Hosts -> TargetStates] /\ fresh' \in [Runners -> SUBSET Hosts]
    BY <1>1, Zenon DEF HostMoves, Types, CampaignTypes, LeaseTypes, ClaimTypes, JobTypes, HostTypes,
            TimeTypes, RowTypes, campaignVars, leaseVars, targetVars
  <2> QED
    BY <1>1, <2>1, OutsideTypes, Zenon DEF HostMoves
<1>2. ASSUME NEW kind \in Kinds,
             LET j == <<kind, t>> IN
               Lease(j) \/ HandOver(j) \/ LeaseReturns(j) \/ TaskExpires(j) \/ TaskEnds(j) \/ TaskStops(j)
      PROVE  Types'
  <2> DEFINE j == <<kind, t>>
  <2>1. j \in Kinds \X Hosts
    BY Zenon
  <2>2. FaultTypes'
    BY <1>2, FaultIsCounted, Zenon DEF Lease, HandOver, LeaseReturns, TaskExpires, TaskEnds,
           TaskStops,
       Types, FaultTypes
  <2>3. ASSUME NEW s \in JobStates PROVE [job EXCEPT ![j] = s] \in [Kinds \X Hosts -> JobStates]
    BY <2>1, Zenon DEF Types, JobTypes
  <2>4. {"leased", "held", "queued", "lost", "failed", "canceled"} \union Ends(j[1]) \subseteq JobStates
    <3>1. Ends(kind) \subseteq JobStates
      BY OutcomesAreStates, Zenon
    <3> QED
      BY <3>1, Zenon DEF JobStates, OpenJob
  <2>5. \E s \in JobStates : HostMoves([job EXCEPT ![j] = s])
    BY <1>2, <2>4, Zenon DEF Lease, HandOver, LeaseReturns, TaskExpires, TaskEnds, TaskStops
  <2> QED
    BY <2>2, <2>3, <2>5, <1>1, Zenon
<1>3. CASE HostIsBack(t) \/ RebootIsLate(t)
  <2>1. CampaignTypes' /\ LeaseTypes' /\ ClaimTypes' /\ JobTypes' /\ HostTypes' /\ TimeTypes' /\ FaultTypes'
        /\ ts' \in [Hosts -> TargetStates] /\ fresh' \in [Runners -> SUBSET Hosts]
    BY <1>3, Zenon DEF HostIsBack, RebootIsLate, Types, CampaignTypes, LeaseTypes, ClaimTypes,
           JobTypes,
       HostTypes, TimeTypes, FaultTypes, RowTypes, campaignVars, leaseVars, targetVars, timeVars
  <2> QED
    BY <1>3, <2>1, OutsideTypes, Zenon DEF HostIsBack, RebootIsLate
<1> QED
  BY <1>2, <1>3, Zenon DEF HostStep

(* and what time does.                                                       *)
LEMMA TimeStepTypes ==
  ASSUME Types, DeadlinePasses \/ PlansAge \/ LeaseLapses \/ UNCHANGED vars
  PROVE  Types'
<1>1. FaultTypes' /\ TimeTypes' /\ LeaseTypes'
  BY FaultIsCounted, Zenon DEF DeadlinePasses, PlansAge, LeaseLapses, vars, Types, FaultTypes,
     TimeTypes, LeaseTypes, timeVars, leaseVars
<1>2. CampaignTypes' /\ ClaimTypes' /\ JobTypes' /\ HostTypes'
      /\ ts' \in [Hosts -> TargetStates] /\ fresh' \in [Runners -> SUBSET Hosts]
  BY Zenon DEF DeadlinePasses, PlansAge, LeaseLapses, vars, Types, CampaignTypes, ClaimTypes,
         JobTypes,
     HostTypes, RowTypes, campaignVars, targetVars, hostVars
<1> QED
  BY <1>1, <1>2, OutsideTypes, Zenon DEF DeadlinePasses, PlansAge, LeaseLapses, vars

-----------------------------------------------------------------------------
(* The hosts and their tasks.                                               *)

(* The change is done, and the host came back from the reboot it asked for. *)
Changed(t) ==
    /\ job[<<"main", t>>] \in {"ok", "reboot"}
    /\ job[<<"main", t>>] = "reboot" => t \in back

(* A host that has not started has no task of the change; one that reboots  *)
(* or is verified has carried it out.                                       *)
TaskOf(t) ==
    /\ ts[t] \in Unstarted => job[<<"main", t>>] = "none"
    /\ ts[t] = "rebooting" => job[<<"main", t>>] = "reboot"
    /\ ts[t] = "verifying" => Changed(t)
Tasks == \A t \in Hosts : TaskOf(t)

(* A host that a pass read as finished is so for good.                      *)
Copies == \A r \in Runners, t \in Hosts : copy[r][t] \in Finished => ts[t] = copy[r][t]

(* Where the pass of a runner is: at a host it ordered a follow-up for, at  *)
(* one that was offline when it was read, at hosts it claimed.  Only plans  *)
(* that run out end a campaign that has not started.                        *)
FollowUp(r, t) ==
    \/ copy[r][t] \in {"dispatched", "running"} /\ job[<<"main", t>>] \in {"ok", "reboot"}
    \/ copy[r][t] = "rebooting" /\ t \in back
Place(r) ==
    /\ pc[r] = "expire" => "age" \in Faults
    /\ pc[r] = "submitted" => at[r] \in Hosts /\ FollowUp(r, at[r])
    /\ pc[r] = "offline" /\ at[r] <= N => copy[r][at[r]] = "queued_offline"
    /\ pc[r] # "launch" => claimed[r] = {}
    /\ \A t \in claimed[r] : copy[r][t] \in {"pending", "awaiting_budget"}
Places == (stale # {} => "age" \in Faults) /\ \A r \in Runners : Place(r)

Ready == Types /\ Tasks /\ Places

(* What a step of a pass does to the rows and to the tasks: nothing, the    *)
(* order of a follow-up, a write that fits the tasks of the host, the order *)
(* of a plan, or the start of a host it claimed.                            *)
Wrote(r, t, s) ==
    /\ copy[r][t] = ts[t] /\ TargetMayBecome(ts[t], s)
    /\ ts' = [ts EXCEPT ![t] = s] /\ copy' = [copy EXCEPT ![r][t] = s]

Fits(t, s) ==
    \/ /\ ts[t] \in Unstarted /\ s \in Unstarted \union {"failed", "skipped", "ineligible"}
       /\ s = "queued_offline" => order.offline # "skip"
    \/ ts[t] \in Unstarted /\ s = "succeeded" /\ job[<<"plan", t>>] = "nochange"
    \/ ts[t] \in {"dispatched", "running"} /\ s \in {"dispatched", "running"}
    \/ /\ ts[t] \in InFlight /\ job[<<"main", t>>] \notin OpenJob
       /\ \/ s = "rebooting" /\ job[<<"main", t>>] = "reboot"
          \/ s = "verifying" /\ Changed(t)
          \/ s \in {"failed", "unknown", "absent"}
          \/ s = "canceled" /\ job[<<"main", t>>] = "canceled"
          \/ s = "succeeded" /\ job[<<"main", t>>] = "nochange"
          \/ s = "succeeded" /\ Changed(t) /\ (order.verified => job[<<"health", t>>] = "ok")
    \/ "age" \in Faults /\ s = "skipped"

Quiet(r) ==
    /\ UNCHANGED <<ts, job>>
    /\ \/ copy' = copy
       \/ copy' = [copy EXCEPT ![r] = [t \in Hosts |-> "pending"]]
       \/ copy' = [copy EXCEPT ![r] = ts]
FollowsUp(r) ==
    /\ UNCHANGED <<ts, copy, cstate>>
    /\ \E kind \in {"reboot", "health"}, t \in Hosts :
         job' = [job EXCEPT ![<<kind, t>>] = IF @ = "none" THEN "queued" ELSE @]
Writes(r) ==
    /\ UNCHANGED <<job, cstate>>
    /\ \E t \in Hosts, s \in TargetStates : Wrote(r, t, s) /\ Fits(t, s)
Plans(r) ==
    \E t \in Hosts : /\ Wrote(r, t, "planning") /\ ts[t] \in Unstarted /\ UNCHANGED cstate
                     /\ job' = [job EXCEPT ![<<"plan", t>>] = "queued"]
Starts(r) ==
    \E t \in claimed[r] :
       /\ MayLaunch(r) /\ pc[r] = "launch" /\ UNCHANGED <<cstate, runner>>
       /\ Wrote(r, t, "dispatched") /\ ts[t] \in {"pending", "awaiting_budget"}
       /\ job' = [job EXCEPT ![<<"main", t>>] = "queued"]
Kind(r) ==
    /\ UNCHANGED <<order, gateAdvanced, back>>
    /\ Quiet(r) \/ FollowsUp(r) \/ Writes(r) \/ Plans(r) \/ Starts(r)

(* A step that looks at one host: what it may write there.                  *)
LEMMA LooksAtAHost ==
  ASSUME NEW r \in Runners, NEW t \in Hosts, NEW s \in TargetStates,
         Settle(r, t, s), copy[r][t] = ts[t] => Fits(t, s),
         UNCHANGED <<order, gateAdvanced, back, job, cstate>>
  PROVE  Kind(r)
<1>1. CASE Write(r, t, s)
  BY <1>1, Zenon DEF Write, CanWrite, Kind, Writes, Wrote
<1>2. CASE UNCHANGED <<ts, copy, fresh>>
  BY <1>2, Zenon DEF Kind, Quiet
<1> QED
  BY <1>1, <1>2, Zenon DEF Settle

(* A step that leaves rows and tasks alone is of the kind Quiet.             *)
LEMMA LeavesIt ==
  ASSUME NEW r \in Runners, UNCHANGED <<ts, copy, job, order, gateAdvanced, back>>
  PROVE  Kind(r)
BY Zenon DEF Kind, Quiet

(* So is one that ends the pass.                                             *)
LEMMA EndsThePass ==
  ASSUME NEW r \in Runners, EndPass(r), UNCHANGED <<ts, job, order, gateAdvanced, back>>
  PROVE  Kind(r)
BY Zenon DEF Kind, Quiet, EndPass

LEMMA OrdersAPlan ==
  ASSUME NEW r \in Runners, NEW t \in Hosts, Launch(r, t, "plan", "planning"),
         copy[r][t] \in Unstarted, UNCHANGED <<order, gateAdvanced, back, cstate>>
  PROVE  Kind(r)
BY Zenon DEF Kind, Plans, Launch, Write, CanWrite, Wrote

LEMMA OrdersAFollowUp ==
  ASSUME NEW r \in Runners, NEW t \in Hosts, NEW kind \in {"reboot", "health"},
         Submit(r, kind, t), UNCHANGED <<order, gateAdvanced, back, cstate>>
  PROVE  Kind(r)
BY Zenon DEF Kind, FollowsUp, Submit

(* The kind of each step of the head of a pass,                              *)
LEMMA HeadKind ==
  ASSUME Ready, NEW r \in Runners,
         List(r) \/ ClaimRunner(r) \/ AdoptTargets(r) \/ ReadTargets(r) \/ Expire(r)
  PROVE  Kind(r)
<1>1. CASE List(r) \/ AdoptTargets(r)
  BY <1>1, LeavesIt, Zenon DEF List, AdoptTargets, campaignVars, targetVars, hostVars, copyVars
<1>2. CASE ClaimRunner(r)
  BY <1>2, LeavesIt, EndsThePass, Zenon DEF ClaimRunner, campaignVars, targetVars, hostVars,
         copyVars
<1>3. CASE ReadTargets(r)
  <2>1. UNCHANGED <<ts, job, order, gateAdvanced, back>>
    BY <1>3, Zenon DEF ReadTargets, campaignVars, targetVars, hostVars
  <2> QED
    BY <1>3, <2>1, EndsThePass, Zenon DEF ReadTargets, Kind, Quiet
<1>4. CASE Expire(r)
  <2>1. UNCHANGED <<job, order, gateAdvanced, back>>
    BY <1>4, Zenon DEF Expire, hostVars, campaignVars, SetState
  <2>2. CASE at[r] = N + 1 /\ SetState(r, "expired") /\ EndPass(r) /\ UNCHANGED <<ts, faults>>
    BY <2>1, <2>2, EndsThePass, Zenon
  <2>3. CASE at[r] <= N /\ UNCHANGED campaignVars /\ Settle(r, at[r], "skipped")
    <3>1. at[r] \in Hosts /\ "skipped" \in TargetStates
      BY <2>3, CampaignAssumption DEF Ready, Types, RunTypes, Hosts, TargetStates, Finished
    <3>2. Fits(at[r], "skipped") /\ UNCHANGED cstate
      BY <1>4, <2>3, Zenon DEF Ready, Places, Place, Fits, Expire, campaignVars
    <3> QED
      BY <2>1, <2>3, <3>1, <3>2, LooksAtAHost, Zenon
  <2>4. CASE UNCHANGED <<ts, copy, fresh>>
    BY <2>1, <2>4, LeavesIt, Zenon
  <2> QED
    BY <1>4, <2>2, <2>3, <2>4, Zenon DEF Expire
<1> QED
  BY <1>1, <1>2, <1>3, <1>4, Zenon

(* What holdOffline and a host that cannot be read write fits any host that *)
(* has not started.                                                         *)
LEMMA HoldsAHost ==
  ASSUME NEW r \in Runners, NEW t \in Hosts, copy[r][t] \in Unstarted,
         \/ Hold(r, t) \/ Unavailable(r, t) \/ Settle(r, t, "failed")
         \/ Settle(r, t, "skipped") \/ Write(r, t, "pending") \/ Write(r, t, "awaiting_budget"),
         UNCHANGED <<order, gateAdvanced, back, job, cstate>>
  PROVE  Kind(r)
<1>1. \/ order.offline # "skip" /\ Settle(r, t, "queued_offline")
      \/ \E s \in {"skipped", "failed", "pending", "awaiting_budget"} : Settle(r, t, s)
  BY Zenon DEF Hold, Unavailable, Settle
<1>2. ASSUME NEW s \in {"skipped", "failed", "pending", "awaiting_budget"}
      PROVE  s \in TargetStates /\ (copy[r][t] = ts[t] => Fits(t, s))
  BY Zenon DEF Fits, TargetStates, Finished, Unstarted, Waiting
<1>3. /\ "queued_offline" \in TargetStates
      /\ order.offline # "skip" => (copy[r][t] = ts[t] => Fits(t, "queued_offline"))
  BY Zenon DEF Fits, TargetStates, Finished, Unstarted, Waiting
<1> QED
  BY <1>1, <1>2, <1>3, LooksAtAHost, Zenon

LEMMA PlanVerdictKind ==
  ASSUME NEW r \in Runners, NEW t \in Hosts, copy[r][t] \in Unstarted,
         PlanVerdict(r, t, job[<<"plan", t>>]),
         UNCHANGED <<order, gateAdvanced, back, job, cstate>>
  PROVE  Kind(r)
<1>1. \E s \in {"failed", "ineligible", "succeeded", "pending"} :
        Settle(r, t, s) /\ (s = "succeeded" => job[<<"plan", t>>] = "nochange")
  BY Zenon DEF PlanVerdict, Settle
<1>2. ASSUME NEW s \in {"failed", "ineligible", "succeeded", "pending"},
             s = "succeeded" => job[<<"plan", t>>] = "nochange"
      PROVE  s \in TargetStates /\ (copy[r][t] = ts[t] => Fits(t, s))
  BY <1>2, Zenon DEF Fits, TargetStates, Finished, Unstarted, Waiting
<1> QED
  BY <1>1, <1>2, LooksAtAHost, Zenon

(* of those about plans,                                                     *)
LEMMA PlanKind ==
  ASSUME Ready, NEW r \in Runners,
         \/ OrderPlan(r) \/ RecheckOffline(r) \/ CollectPlan(r) \/ PlanNothing(r)
         \/ FinishPlanning(r)
  PROVE  Kind(r)
<1> DEFINE t == at[r]
<1>h. t <= N => t \in Hosts
  BY CampaignAssumption DEF Ready, Types, RunTypes, Hosts
<1>u. {"pending", "planning", "queued_offline"} \subseteq Unstarted
  BY Zenon DEF Unstarted, Waiting
<1>1. CASE OrderPlan(r)
  <2>1. t \in Hosts /\ copy[r][t] \in Unstarted /\ UNCHANGED <<order, gateAdvanced, back, cstate>>
    BY <1>1, <1>h, <1>u, Zenon DEF OrderPlan, campaignVars
  <2> QED
    BY <1>1, <2>1, EndsThePass, HoldsAHost, OrdersAPlan, Zenon DEF OrderPlan
<1>2. CASE RecheckOffline(r)
  <2>1. t \in Hosts /\ copy[r][t] \in Unstarted /\ UNCHANGED <<order, gateAdvanced, back, cstate, job>>
    BY <1>2, <1>h, <1>u, Zenon DEF RecheckOffline, campaignVars, hostVars
  <2> QED
    BY <1>2, <2>1, EndsThePass, HoldsAHost, LeavesIt, Zenon DEF RecheckOffline
<1>3. CASE CollectPlan(r)
  <2>1. t \in Hosts /\ copy[r][t] \in Unstarted /\ UNCHANGED <<order, gateAdvanced, back, cstate, job>>
    BY <1>3, <1>h, <1>u, Zenon DEF CollectPlan, campaignVars, hostVars
  <2> QED
    BY <1>3, <2>1, EndsThePass, PlanVerdictKind, LeavesIt, Zenon DEF CollectPlan
<1>4. CASE PlanNothing(r)
  BY <1>4, LeavesIt, Zenon DEF PlanNothing, campaignVars, targetVars, hostVars
<1>5. CASE FinishPlanning(r)
  BY <1>5, EndsThePass, Zenon DEF FinishPlanning, campaignVars, targetVars, hostVars, SetState
<1> QED
  BY <1>1, <1>2, <1>3, <1>4, <1>5, Zenon

(* The end of the task of a host under way fits it.                         *)
LEMMA SettlesAHost ==
  ASSUME NEW r \in Runners, NEW t \in Hosts, NEW s \in {"failed", "unknown", "absent"},
         copy[r][t] \in InFlight, copy[r][t] = ts[t] => job[<<"main", t>>] \notin OpenJob,
         Settle(r, t, s), UNCHANGED <<order, gateAdvanced, back, job, cstate>>
  PROVE  Kind(r)
<1>1. s \in TargetStates /\ (copy[r][t] = ts[t] => Fits(t, s))
  BY Zenon DEF Fits, TargetStates, Finished
<1> QED
  BY <1>1, LooksAtAHost, Zenon

LEMMA VerifiesAHost ==
  ASSUME NEW r \in Runners, NEW t \in Hosts, Verify(r, t), copy[r][t] \in InFlight,
         copy[r][t] = ts[t] => Changed(t), UNCHANGED <<order, gateAdvanced, back, cstate>>
  PROVE  Kind(r)
<1>1. CASE Submit(r, "health", t)
  BY <1>1, OrdersAFollowUp, Zenon
<1>2. CASE ~order.verified /\ Settle(r, t, "succeeded") /\ Done(r)
  <2>1. "succeeded" \in TargetStates /\ (copy[r][t] = ts[t] => Fits(t, "succeeded"))
    BY <1>2, Zenon DEF Fits, TargetStates, Finished, Changed, OpenJob
  <2> QED
    BY <1>2, <2>1, LooksAtAHost, Zenon DEF Done
<1> QED
  BY <1>1, <1>2, Zenon DEF Verify

(* What the end of the main task makes of the host fits its tasks.           *)
LEMMA MainVerdictFits ==
  ASSUME NEW t \in Hosts, ts[t] \in InFlight,
         job[<<"main", t>>] \in {"lost", "absent", "canceled", "failed", "nochange"}
  PROVE  /\ Fits(t, MainVerdict(job[<<"main", t>>]))
         /\ MainVerdict(job[<<"main", t>>]) \in TargetStates
BY Zenon DEF Fits, MainVerdict, OpenJob, TargetStates, Finished

(* of those that follow a host,                                              *)
LEMMA WorkKind ==
  ASSUME Ready, NEW r \in Runners,
         \/ AfterMainJob(r) \/ StartStep(r) \/ AfterReboot(r) \/ AfterHealthCheck(r)
         \/ AfterReplan(r)
  PROVE  Kind(r)
<1> DEFINE t == at[r]
<1>h. t <= N => t \in Hosts
  BY CampaignAssumption DEF Ready, Types, RunTypes, Hosts
<1>u. {"dispatched", "running", "rebooting", "verifying"} = InFlight
  BY Zenon DEF InFlight
<1>1. CASE AfterMainJob(r)
  <2> DEFINE task == job[<<"main", t>>]
  <2>1. t \in Hosts /\ copy[r][t] \in {"dispatched", "running"} /\ copy[r][t] \in InFlight
        /\ UNCHANGED <<order, gateAdvanced, back, cstate>>
    BY <1>1, <1>h, <1>u, Zenon DEF AfterMainJob, AtHost, campaignVars
  <2>2. CASE Follow(r, t, task) /\ Done(r)
    <3>1. ASSUME NEW s \in {"dispatched", "running"}
          PROVE  s \in TargetStates /\ (copy[r][t] = ts[t] => Fits(t, s))
      BY <2>1, Zenon DEF Fits, TargetStates, InFlight
    <3> QED
      BY <2>1, <2>2, <3>1, LooksAtAHost, LeavesIt, Zenon DEF Follow, Done
  <2>3. CASE /\ task \in {"lost", "absent", "canceled", "failed", "nochange"}
             /\ Settle(r, t, MainVerdict(task)) /\ Done(r)
    <3>1. CASE copy[r][t] = ts[t]
      BY <2>1, <2>3, <3>1, MainVerdictFits, LooksAtAHost, Zenon DEF Done
    <3>2. CASE copy[r][t] # ts[t]
      BY <2>1, <2>3, <3>2, LeavesIt, Zenon DEF Settle, Write, CanWrite, Done
    <3> QED
      BY <3>1, <3>2, Zenon
  <2>4. CASE task = "ok" /\ Verify(r, t)
    <3>1. Changed(t)
      BY <2>4, Zenon DEF Changed
    <3> QED
      BY <2>1, <2>4, <3>1, VerifiesAHost, Zenon
  <2>5. CASE Submit(r, "reboot", t)
    BY <2>1, <2>5, OrdersAFollowUp, Zenon
  <2>6. CASE task \in {"reboot", "ok"} /\ Settle(r, t, "failed") /\ Done(r)
    <3>1. task \notin OpenJob
      BY <2>6, Zenon DEF OpenJob
    <3> QED
      BY <2>1, <2>6, <3>1, SettlesAHost, Zenon DEF Done
  <2> QED
    BY <1>1, <2>2, <2>3, <2>4, <2>5, <2>6, Zenon DEF AfterMainJob
<1>2. CASE StartStep(r)
  <2>1. t \in Hosts /\ FollowUp(r, t) /\ UNCHANGED <<order, gateAdvanced, back, cstate, job>>
    BY <1>2, Zenon DEF StartStep, Ready, Places, Place, campaignVars, hostVars
  <2>2. TaskOf(t)
    BY <2>1, Zenon DEF Ready, Tasks
  <2>3. CASE copy[r][t] \in {"dispatched", "running"} /\ job[<<"main", t>>] = "reboot"
    <3>1. "rebooting" \in TargetStates /\ (copy[r][t] = ts[t] => Fits(t, "rebooting"))
      BY <2>3, Zenon DEF Fits, InFlight, OpenJob, TargetStates
    <3>2. Settle(r, t, "rebooting")
      BY <1>2, <2>3, Zenon DEF StartStep
    <3> QED
      BY <2>1, <3>1, <3>2, LooksAtAHost, Zenon
  <2>4. CASE ~(copy[r][t] \in {"dispatched", "running"} /\ job[<<"main", t>>] = "reboot")
    <3>1. "verifying" \in TargetStates /\ (copy[r][t] = ts[t] => Fits(t, "verifying"))
      BY <2>1, <2>2, <2>4, Zenon DEF FollowUp, TaskOf, Changed, Fits, InFlight, OpenJob,
             TargetStates
    <3>2. Settle(r, t, "verifying")
      BY <1>2, <2>4, Zenon DEF StartStep
    <3> QED
      BY <2>1, <3>1, <3>2, LooksAtAHost, Zenon
  <2> QED
    BY <2>3, <2>4, Zenon
<1>3. CASE AfterReboot(r)
  <2>1. t \in Hosts /\ copy[r][t] = "rebooting" /\ copy[r][t] \in InFlight
        /\ UNCHANGED <<order, gateAdvanced, back, cstate>>
    BY <1>3, <1>h, <1>u, Zenon DEF AfterReboot, AtHost, campaignVars
  <2>2. copy[r][t] = ts[t] => job[<<"main", t>>] = "reboot"
    BY <2>1, Zenon DEF Ready, Tasks, TaskOf
  <2>3. copy[r][t] = ts[t] => job[<<"main", t>>] \notin OpenJob
    BY <2>2, Zenon DEF OpenJob
  <2>4. CASE t \in back /\ Verify(r, t)
    <3>1. copy[r][t] = ts[t] => Changed(t)
      BY <2>2, <2>4, Zenon DEF Changed
    <3> QED
      BY <2>1, <2>4, <3>1, VerifiesAHost, Zenon
  <2>5. CASE Settle(r, t, "failed") /\ UNCHANGED job
    BY <2>1, <2>3, <2>5, SettlesAHost, Zenon
  <2>6. CASE UNCHANGED <<ts, copy, fresh>> /\ Done(r)
    BY <2>1, <2>6, LeavesIt, Zenon DEF Done
  <2> QED
    BY <1>3, <2>4, <2>5, <2>6, Zenon DEF AfterReboot, Done, Settle
<1>4. CASE AfterHealthCheck(r)
  <2> DEFINE s == HealthVerdict(job[<<"health", t>>])
  <2>1. t \in Hosts /\ copy[r][t] = "verifying" /\ UNCHANGED <<order, gateAdvanced, back, cstate, job>>
    BY <1>4, <1>h, Zenon DEF AfterHealthCheck, AtHost, campaignVars, Done
  <2>2. copy[r][t] = ts[t] => Changed(t)
    BY <2>1, Zenon DEF Ready, Tasks, TaskOf
  <2>3. s \in TargetStates /\ (copy[r][t] = ts[t] => Fits(t, s))
    BY <2>1, <2>2, Zenon DEF HealthVerdict, Fits, Changed, InFlight, OpenJob, TargetStates, Finished
  <2> QED
    BY <1>4, <2>1, <2>3, LooksAtAHost, LeavesIt, Zenon DEF AfterHealthCheck
<1>5. CASE AfterReplan(r)
  <2>1. t \in Hosts /\ copy[r][t] \in Unstarted /\ UNCHANGED <<order, gateAdvanced, back, cstate, job>>
    BY <1>5, <1>h, Zenon DEF AfterReplan, AtHost, campaignVars, Done, Unstarted
  <2> QED
    BY <1>5, <2>1, PlanVerdictKind, HoldsAHost, LeavesIt, Zenon DEF AfterReplan
<1> QED
  BY <1>1, <1>2, <1>3, <1>4, <1>5, Zenon

(* and of those that deal with a wave.                                       *)
LEMMA WaveKind ==
  ASSUME Ready, NEW r \in Runners,
         \/ Decide(r) \/ ServiceOffline(r) \/ EnterWave(r) \/ ClaimWave(r) \/ LaunchHost(r)
         \/ WaveIsOut(r) \/ RenewRunner(r) \/ PassFails(r) \/ Stop(r)
  PROVE  Kind(r)
<1>1. CASE Decide(r) \/ EnterWave(r)
  <2>1. UNCHANGED <<ts, job, order, gateAdvanced, back>>
    BY <1>1, Zenon DEF Decide, EnterWave, campaignVars, targetVars, hostVars, SetState
  <2>2. EndPass(r) \/ copy' = copy
    BY <1>1, Zenon DEF Decide, EnterWave
  <2> QED
    BY <2>1, <2>2, EndsThePass, LeavesIt, SMTT(30)
<1>2. CASE ServiceOffline(r)
  <2> DEFINE t == at[r]
  <2>1. t \in Hosts /\ UNCHANGED <<order, gateAdvanced, back, cstate>>
    <3>1. t <= N /\ UNCHANGED <<order, gateAdvanced, back, cstate>>
      BY <1>2, Zenon DEF ServiceOffline, campaignVars
    <3>2. t \in 1..(N + 1)
      BY Zenon DEF Ready, Types, RunTypes
    <3> QED
      BY <3>1, <3>2, CampaignAssumption DEF Hosts
  <2>2. copy[r][t] \in Unstarted
    BY <1>2, Zenon DEF ServiceOffline, Ready, Places, Place, Unstarted, Waiting
  <2> QED
    BY <1>2, <2>1, <2>2, EndsThePass, HoldsAHost, OrdersAPlan, LeavesIt, Zenon DEF ServiceOffline
<1>3. CASE ClaimWave(r) \/ WaveIsOut(r) \/ RenewRunner(r) \/ PassFails(r) \/ Stop(r)
  <2>1. UNCHANGED <<ts, job, order, gateAdvanced, back>>
    BY <1>3, Zenon DEF ClaimWave, WaveIsOut, RenewRunner, PassFails, Stop, campaignVars,
           targetVars, hostVars
  <2>2. EndPass(r) \/ copy' = copy
    BY <1>3, Zenon DEF ClaimWave, WaveIsOut, RenewRunner, PassFails, Stop, copyVars
  <2> QED
    BY <2>1, <2>2, EndsThePass, LeavesIt, Zenon
<1>4. CASE LaunchHost(r)
  <2> DEFINE t == Min(claimed[r])
  <2>1. t \in claimed[r] /\ t \in Hosts
    <3>1. claimed[r] \in SUBSET Nat /\ claimed[r] # {} /\ claimed[r] \subseteq Hosts
      <4>1. claimed[r] # {} /\ claimed[r] \in SUBSET Hosts
        BY <1>4, Zenon DEF LaunchHost, Ready, Types, RunTypes
      <4> QED
        BY <4>1 DEF Hosts
    <3> QED
      BY <3>1, LeastOf, Zenon
  <2>2. copy[r][t] \in {"pending", "awaiting_budget"} /\ copy[r][t] \in Unstarted
    BY <2>1, Zenon DEF Ready, Places, Place, Unstarted, Waiting
  <2>3. UNCHANGED <<order, gateAdvanced, back, runner>>
    BY <1>4, Zenon DEF LaunchHost, campaignVars, leaseVars, SetState
  <2>4. CASE EndPass(r) /\ UNCHANGED <<ts, job>>
    BY <2>3, <2>4, EndsThePass, Zenon
  <2>5. CASE Launch(r, t, "main", "dispatched") /\ UNCHANGED campaignVars
    BY <1>4, <2>1, <2>2, <2>3, <2>5, Zenon DEF LaunchHost, Launch, Write, CanWrite, Wrote, Starts,
           Kind,
       campaignVars
  <2>6. CASE /\ Hold(r, t) \/ Unavailable(r, t) \/ Write(r, t, "awaiting_budget") \/ Settle(r, t, "failed")
             /\ UNCHANGED job /\ UNCHANGED campaignVars
    BY <2>1, <2>2, <2>3, <2>6, HoldsAHost, Zenon DEF campaignVars
  <2> QED
    BY <1>4, <2>4, <2>5, <2>6, Zenon DEF LaunchHost
<1> QED
  BY <1>1, <1>2, <1>3, <1>4, Zenon

(* Every step of a pass is of one of these kinds.                           *)
LEMMA StepIsOfAKind ==
  ASSUME Ready, NEW r \in Runners, PassStep(r) \/ RenewRunner(r) \/ PassFails(r) \/ Stop(r)
  PROVE  Kind(r)
BY HeadKind, PlanKind, WorkKind, WaveKind, Zenon DEF PassStep

-----------------------------------------------------------------------------
(* What the rows say agrees with the tasks.                                 *)
Verified(t) ==
    \/ job[<<"main", t>>] = "nochange"
    \/ job[<<"main", t>>] = "none" /\ job[<<"plan", t>>] = "nochange"
    \/ Changed(t) /\ (order.verified => job[<<"health", t>>] = "ok")
Agrees(t) ==
    /\ TaskOf(t)
    /\ ts[t] = "canceled" => job[<<"main", t>>] \in {"none", "canceled"}
    /\ ts[t] = "succeeded" => Verified(t)
    /\ "age" \notin Faults /\ job[<<"main", t>>] \in OpenJob => ts[t] \in {"dispatched", "running"}
Agree == \A t \in Hosts : Agrees(t)

(* A host whose row and whose tasks stand goes on to agree.                 *)
LEMMA AgreesStill ==
  ASSUME NEW t \in Hosts, Agrees(t), ts'[t] = ts[t], order' = order, back \subseteq back',
         \A kind \in Kinds : job'[<<kind, t>>] = job[<<kind, t>>]
  PROVE  Agrees(t)'
<1>1. /\ job'[<<"main", t>>] = job[<<"main", t>>] /\ job'[<<"plan", t>>] = job[<<"plan", t>>]
      /\ job'[<<"health", t>>] = job[<<"health", t>>]
  BY Zenon DEF Kinds
<1>2. Changed(t) => Changed(t)'
  BY <1>1, Zenon DEF Changed
<1>3. TaskOf(t)'
  BY <1>1, <1>2, Zenon DEF Agrees, TaskOf
<1>4. Verified(t) => Verified(t)'
  BY <1>1, <1>2, Zenon DEF Verified
<1> QED
  BY <1>1, <1>3, <1>4, Zenon DEF Agrees

(* A write that fits the tasks of a host keeps host and tasks in agreement.  *)
LEMMA WriteAgrees ==
  ASSUME Types, NEW r \in Runners, NEW t \in Hosts, NEW s \in TargetStates, Agrees(t),
         Wrote(r, t, s), Fits(t, s), UNCHANGED <<job, order, back>>
  PROVE  Agrees(t)'
<1>1. ts'[t] = s /\ ts[t] \notin Finished
  BY Zenon DEF Wrote, TargetMayBecome, Types, RowTypes
<1>2. Changed(t)' = Changed(t) /\ Verified(t)' = Verified(t)
  BY Zenon DEF Changed, Verified
<1>3. CASE ts[t] \in Unstarted /\ s \in Unstarted \union {"failed", "skipped", "ineligible"}
  BY <1>1, <1>3, Zenon DEF Agrees, TaskOf, Unstarted, Waiting, OpenJob
<1>4. CASE ts[t] \in Unstarted /\ s = "succeeded" /\ job[<<"plan", t>>] = "nochange"
  BY <1>1, <1>2, <1>4, Zenon DEF Agrees, TaskOf, Unstarted, Waiting, OpenJob, Verified
<1>5. CASE ts[t] \in {"dispatched", "running"} /\ s \in {"dispatched", "running"}
  BY <1>1, <1>5, Zenon DEF Agrees, TaskOf, Unstarted, Waiting
<1>6. CASE /\ ts[t] \in InFlight /\ job[<<"main", t>>] \notin OpenJob
           /\ \/ s = "rebooting" /\ job[<<"main", t>>] = "reboot"
              \/ s = "verifying" /\ Changed(t)
              \/ s \in {"failed", "unknown", "absent"}
              \/ s = "canceled" /\ job[<<"main", t>>] = "canceled"
              \/ s = "succeeded" /\ job[<<"main", t>>] = "nochange"
              \/ s = "succeeded" /\ Changed(t) /\ (order.verified => job[<<"health", t>>] = "ok")
  BY <1>1, <1>2, <1>6, Zenon DEF Agrees, TaskOf, Unstarted, Waiting, Verified
<1>7. CASE "age" \in Faults /\ s = "skipped"
  BY <1>1, <1>7, Zenon DEF Agrees, TaskOf, Unstarted, Waiting
<1> QED
  BY <1>3, <1>4, <1>5, <1>6, <1>7, Zenon DEF Fits

(* So does every kind of step.                                               *)
LEMMA StepAgrees ==
  ASSUME Types, Agree, NEW r \in Runners, Kind(r), NEW u \in Hosts
  PROVE  Agrees(u)'
<1>a. Agrees(u) /\ order' = order /\ back' = back
  BY Zenon DEF Agree, Kind
<1>1. CASE Quiet(r)
  BY <1>1, <1>a, AgreesStill, Zenon DEF Quiet
<1>2. CASE FollowsUp(r)
  <2>1. PICK kind \in {"reboot", "health"}, t \in Hosts :
          job' = [job EXCEPT ![<<kind, t>>] = IF @ = "none" THEN "queued" ELSE @]
    BY <1>2, Zenon DEF FollowsUp
  <2>2. /\ job'[<<"main", u>>] = job[<<"main", u>>] /\ job'[<<"plan", u>>] = job[<<"plan", u>>]
        /\ job[<<"health", u>>] = "ok" => job'[<<"health", u>>] = "ok"
    BY <2>1, Zenon DEF Types, JobTypes, Kinds
  <2>3. ts' = ts
    BY <1>2, Zenon DEF FollowsUp
  <2> QED
    BY <1>a, <2>2, <2>3, Zenon DEF Agrees, TaskOf, Verified, Changed
<1>3. CASE Writes(r)
  <2>1. PICK t \in Hosts, s \in TargetStates : Wrote(r, t, s) /\ Fits(t, s)
    BY <1>3, Zenon DEF Writes
  <2>2. job' = job
    BY <1>3, Zenon DEF Writes
  <2>3. CASE u = t
    BY <1>a, <2>1, <2>2, <2>3, WriteAgrees, Zenon
  <2>4. CASE u # t
    <3>1. ts'[u] = ts[u]
      BY <2>1, <2>4, Zenon DEF Wrote, Types, RowTypes
    <3> QED
      BY <1>a, <2>2, <3>1, AgreesStill, Zenon
  <2> QED
    BY <2>3, <2>4, Zenon
<1>4. CASE Plans(r)
  <2>1. PICK t \in Hosts : /\ Wrote(r, t, "planning") /\ ts[t] \in Unstarted
                           /\ job' = [job EXCEPT ![<<"plan", t>>] = "queued"]
    BY <1>4, Zenon DEF Plans
  <2>2. ASSUME NEW k \in Kinds, k # "plan" \/ u # t PROVE job'[<<k, u>>] = job[<<k, u>>]
    BY <2>1, <2>2, Zenon DEF Types, JobTypes
  <2>3. CASE u = t
    <3>1. ts'[u] = "planning" /\ job'[<<"main", u>>] = job[<<"main", u>>]
      BY <2>1, <2>2, <2>3, Zenon DEF Wrote, Types, RowTypes, Kinds
    <3> QED
      BY <1>a, <2>1, <2>3, <3>1, Zenon DEF Agrees, TaskOf, OpenJob
  <2>4. CASE u # t
    <3>1. ts'[u] = ts[u]
      BY <2>1, <2>4, Zenon DEF Wrote, Types, RowTypes
    <3> QED
      BY <1>a, <2>2, <2>4, <3>1, AgreesStill, Zenon
  <2> QED
    BY <2>3, <2>4, Zenon
<1>5. CASE Starts(r)
  <2>1. PICK t \in claimed[r] : /\ Wrote(r, t, "dispatched") /\ ts[t] \in {"pending", "awaiting_budget"}
                                /\ job' = [job EXCEPT ![<<"main", t>>] = "queued"]
    BY <1>5, Zenon DEF Starts
  <2>2. ASSUME NEW k \in Kinds, u # t PROVE job'[<<k, u>>] = job[<<k, u>>]
    BY <2>1, <2>2, Zenon DEF Types, JobTypes
  <2>3. CASE u = t
    <3>1. ts'[u] = "dispatched"
      BY <2>1, <2>3, Zenon DEF Wrote, Types, RowTypes
    <3> QED
      BY <3>1, Zenon DEF Agrees, TaskOf, Unstarted, Waiting
  <2>4. CASE u # t
    <3>1. ts'[u] = ts[u]
      BY <2>1, <2>4, Zenon DEF Wrote, Types, RowTypes
    <3> QED
      BY <1>a, <2>2, <2>4, <3>1, AgreesStill, Zenon
  <2> QED
    BY <2>3, <2>4, Zenon
<1> QED
  BY <1>1, <1>2, <1>3, <1>4, <1>5, Zenon DEF Kind

(* The hosts: an open task moves on or ends, a host comes back.              *)
TaskMoves ==
    /\ UNCHANGED <<ts, order, back>>
    /\ \E kind \in Kinds, t \in Hosts, s \in JobStates \ {"none"} :
         job[<<kind, t>>] \in OpenJob /\ job' = [job EXCEPT ![<<kind, t>>] = s]

(* A task that moves on its host keeps them in agreement.                    *)
LEMMA TaskMovesAgree ==
  ASSUME Types, Agree, TaskMoves, NEW u \in Hosts
  PROVE  Agrees(u)'
<1>1. PICK kind \in Kinds, t \in Hosts, s \in JobStates \ {"none"} :
         job[<<kind, t>>] \in OpenJob /\ job' = [job EXCEPT ![<<kind, t>>] = s]
  BY Zenon DEF TaskMoves
<1>2. Agrees(u) /\ UNCHANGED <<ts, order, back>>
  BY Zenon DEF Agree, TaskMoves
<1>3. ASSUME NEW k \in Kinds, k # kind \/ u # t PROVE job'[<<k, u>>] = job[<<k, u>>]
  BY <1>1, <1>3, Zenon DEF Types, JobTypes
<1>4. job'[<<kind, t>>] = s /\ s # "none"
  BY <1>1, Zenon DEF Types, JobTypes
<1>5. CASE u # t
  BY <1>2, <1>3, <1>5, AgreesStill, Zenon
<1>6. CASE u = t /\ kind = "main"
  <2>1. ts[u] \notin Unstarted /\ ts[u] \notin {"rebooting", "verifying", "canceled", "succeeded"}
    BY <1>1, <1>2, <1>6, Zenon DEF Agrees, TaskOf, Changed, Verified, OpenJob
  <2> QED
    BY <1>1, <1>2, <1>6, <2>1, Zenon DEF Agrees, TaskOf
<1>7. CASE u = t /\ kind # "main"
  <2>1. job'[<<"main", u>>] = job[<<"main", u>>]
    BY <1>3, <1>7, Zenon DEF Kinds
  <2>2. /\ job[<<"plan", u>>] = "nochange" => job'[<<"plan", u>>] = "nochange"
        /\ job[<<"health", u>>] = "ok" => job'[<<"health", u>>] = "ok"
    BY <1>1, <1>3, <1>7, Zenon DEF Kinds, OpenJob
  <2> QED
    BY <1>2, <2>1, <2>2, Zenon DEF Agrees, TaskOf, Changed, Verified
<1> QED
  BY <1>5, <1>6, <1>7, Zenon

(* So does a cancel, which settles what has not started,                     *)
LEMMA CancelAgrees ==
  ASSUME Types, Agree, Cancel, NEW u \in Hosts
  PROVE  Agrees(u)'
<1> DEFINE takenBack == {j \in (Kinds \X Hosts) \ attached : job[j] = "queued"}
<1>1. Agrees(u) /\ order' = order /\ back' = back
  BY Zenon DEF Agree, Cancel
<1>2. ASSUME NEW k \in Kinds
      PROVE  /\ job'[<<k, u>>] \in {job[<<k, u>>], "canceled", "asked"}
             /\ job[<<k, u>>] \notin OpenJob => job'[<<k, u>>] = job[<<k, u>>]
             /\ <<k, u>> \in takenBack => job'[<<k, u>>] = "canceled"
             /\ job'[<<k, u>>] \in OpenJob => job[<<k, u>>] \in OpenJob
  BY Zenon DEF Cancel, Types, JobTypes, OpenJob
<1>3. ts'[u] = IF \/ ts[u] \in Unstarted
                  \/ <<"main", u>> \in takenBack /\ ts[u] \in {"dispatched", "running"}
               THEN "canceled" ELSE ts[u]
  BY Zenon DEF Cancel
<1>4. {"main", "plan", "health"} \subseteq Kinds
  BY Zenon DEF Kinds
<1>5. CASE ts[u] \in Unstarted
  <2>1. job[<<"main", u>>] = "none"
    BY <1>1, <1>5, Zenon DEF Agrees, TaskOf
  <2>2. job'[<<"main", u>>] = "none"
    BY <2>1, <1>2, <1>4, Zenon DEF OpenJob
  <2> QED
    BY <1>3, <1>5, <2>2, Zenon DEF Agrees, TaskOf, Unstarted, Waiting, OpenJob
<1>6. CASE <<"main", u>> \in takenBack /\ ts[u] \in {"dispatched", "running"}
  <2>1. job'[<<"main", u>>] = "canceled" /\ ts'[u] = "canceled"
    BY <1>2, <1>3, <1>4, <1>6, Zenon
  <2> QED
    BY <2>1, Zenon DEF Agrees, TaskOf, Unstarted, Waiting, OpenJob
<1>7. CASE ts'[u] = ts[u] /\ ts[u] \notin Unstarted
  <2>1. /\ job[<<"main", u>>] \notin OpenJob => job'[<<"main", u>>] = job[<<"main", u>>]
        /\ job[<<"plan", u>>] \notin OpenJob => job'[<<"plan", u>>] = job[<<"plan", u>>]
        /\ job[<<"health", u>>] \notin OpenJob => job'[<<"health", u>>] = job[<<"health", u>>]
        /\ job'[<<"main", u>>] \in OpenJob => job[<<"main", u>>] \in OpenJob
    BY <1>2, <1>4, Zenon
  <2> QED
    BY <1>1, <1>7, <2>1, Zenon DEF Agrees, TaskOf, Changed, Verified, OpenJob
<1> QED
  BY <1>3, <1>5, <1>6, <1>7, Zenon

(* and the expiry of a plan, which skips it.                                 *)
LEMMA SkipAgrees ==
  ASSUME Types, Agree, SkipTarget, NEW u \in Hosts
  PROVE  Agrees(u)'
<1>1. Agrees(u) /\ UNCHANGED <<order, back, job>>
  BY Zenon DEF Agree, SkipTarget, campaignVars, hostVars
<1>2. ts'[u] = ts[u] \/ (ts[u] = "queued_offline" /\ ts'[u] = "skipped")
  BY Zenon DEF SkipTarget, Types, RowTypes
<1>3. CASE ts'[u] = ts[u]
  BY <1>1, <1>3, AgreesStill, Zenon
<1>4. CASE ts[u] = "queued_offline" /\ ts'[u] = "skipped"
  BY <1>1, <1>4, Zenon DEF Agrees, TaskOf, Unstarted, Waiting, OpenJob
<1> QED
  BY <1>2, <1>3, <1>4, Zenon

(* The steps outside the passes, as far as the rows and the tasks go.        *)
Outside ==
    \/ Cancel \/ SkipTarget \/ TaskMoves
    \/ UNCHANGED <<ts, job, order>> /\ back \subseteq back'

LEMMA HostStepIsOutside ==
  ASSUME Types, NEW t \in Hosts, HostStep(t)
  PROVE  Outside
<1>1. ASSUME NEW kind \in Kinds,
             LET j == <<kind, t>> IN
               Lease(j) \/ HandOver(j) \/ LeaseReturns(j) \/ TaskExpires(j) \/ TaskEnds(j) \/ TaskStops(j)
      PROVE  TaskMoves
  <2> DEFINE j == <<kind, t>>
  <2>1. Ends(kind) \subseteq JobStates \ {"none"}
    BY Zenon DEF Kinds, Ends, JobStates
  <2>2. {"leased", "held", "queued", "lost", "failed", "canceled"} \union Ends(j[1]) \subseteq JobStates \ {"none"}
    BY <2>1, Zenon DEF JobStates, OpenJob
  <2>3. job[j] \in OpenJob /\ \E s \in JobStates \ {"none"} : HostMoves([job EXCEPT ![j] = s])
    BY <1>1, <2>2, Zenon DEF Lease, HandOver, LeaseReturns, TaskExpires, TaskEnds, TaskStops,
           OpenJob
  <2> QED
    BY <2>3, Zenon DEF TaskMoves, HostMoves, campaignVars, targetVars
<1>2. CASE HostIsBack(t) \/ RebootIsLate(t)
  BY <1>2, Zenon DEF HostIsBack, RebootIsLate, Outside, campaignVars, targetVars
<1> QED
  BY <1>1, <1>2, Zenon DEF HostStep, Outside

LEMMA OtherStepIsOutside ==
  ASSUME Operator \/ DeadlinePasses \/ PlansAge \/ LeaseLapses \/ UNCHANGED vars
  PROVE  Outside
BY Zenon DEF Operator, Approve, PauseReads, Pause, Resume, Advance, DeadlinePasses, PlansAge,
       LeaseLapses,
       Outside, vars, campaignVars, targetVars, hostVars

(* Whatever happens outside the passes keeps host and tasks in agreement.    *)
LEMMA OutsideAgrees ==
  ASSUME Types, Agree, Outside, NEW u \in Hosts
  PROVE  Agrees(u)'
<1>1. CASE UNCHANGED <<ts, job, order>> /\ back \subseteq back'
  BY <1>1, AgreesStill, Zenon DEF Agree
<1> QED
  BY <1>1, CancelAgrees, SkipAgrees, TaskMovesAgree, Zenon DEF Outside

(* The end of a change is never taken back.                                 *)
EndsStand ==
    /\ back \subseteq back'
    /\ \A t \in Hosts : job[<<"main", t>>] \in {"ok", "reboot"} => job'[<<"main", t>>] = job[<<"main", t>>]

(* No step of a pass touches a host that has ended.                          *)
LEMMA StepsLetEndsStand ==
  ASSUME Types, Tasks, (\E r \in Runners : Kind(r)) \/ Outside
  PROVE  EndsStand
<1> SUFFICES ASSUME NEW u \in Hosts, job[<<"main", u>>] \in {"ok", "reboot"}
             PROVE  job'[<<"main", u>>] = job[<<"main", u>>] /\ back \subseteq back'
  <2>1. back \subseteq back'
    BY Zenon DEF Kind, Outside, Cancel, SkipTarget, TaskMoves, hostVars
  <2> QED
    BY <2>1, Zenon DEF EndsStand
<1>1. back \subseteq back'
  BY Zenon DEF Kind, Outside, Cancel, SkipTarget, TaskMoves, hostVars
<1>2. "main" \in Kinds /\ job[<<"main", u>>] \notin OpenJob
  BY Zenon DEF Kinds, OpenJob
<1>3. ASSUME NEW r \in Runners, Kind(r) PROVE job'[<<"main", u>>] = job[<<"main", u>>]
  <2>1. CASE Quiet(r) \/ Writes(r)
    BY <2>1, Zenon DEF Quiet, Writes
  <2>2. CASE FollowsUp(r) \/ Plans(r)
    BY <2>2, <1>2, Zenon DEF FollowsUp, Plans, Types, JobTypes
  <2>3. CASE Starts(r)
    <3>1. PICK t \in claimed[r] : /\ ts[t] \in {"pending", "awaiting_budget"}
                                  /\ job' = [job EXCEPT ![<<"main", t>>] = "queued"]
      BY <2>3, Zenon DEF Starts
    <3>2. t \in Hosts
      BY Zenon DEF Types, RunTypes
    <3>3. job[<<"main", t>>] = "none"
      BY <3>1, <3>2, Zenon DEF Tasks, TaskOf, Unstarted, Waiting
    <3> QED
      BY <3>1, <3>2, <3>3, <1>2, Zenon DEF Types, JobTypes
  <2> QED
    BY <1>3, <2>1, <2>2, <2>3, Zenon DEF Kind
<1>4. CASE Cancel
  BY <1>4, <1>2, Zenon DEF Cancel, OpenJob
<1>5. CASE TaskMoves
  BY <1>5, <1>2, Zenon DEF TaskMoves, Types, JobTypes
<1>6. CASE SkipTarget
  BY <1>6, Zenon DEF SkipTarget, hostVars
<1> QED
  BY <1>1, <1>3, <1>4, <1>5, <1>6, Zenon DEF Outside

-----------------------------------------------------------------------------
(* Where the passes are.                                                    *)

(* A step of a pass leaves the other passes alone.                          *)
Alone(r) ==
    \A q \in Runners \ {r} :
      /\ pc'[q] = pc[q] /\ at'[q] = at[q] /\ cst'[q] = cst[q] /\ cgate'[q] = cgate[q]
      /\ claimed'[q] = claimed[q]

(* A pass that does not move stays in a place it may be in.                  *)
LEMMA PlaceStays ==
  ASSUME NEW q \in Runners, Place(q), EndsStand, Types, pc'[q] = pc[q], at'[q] = at[q],
         claimed'[q] = claimed[q], copy'[q] = copy[q]
  PROVE  Place(q)'
<1>1. pc[q] = "submitted" => FollowUp(q, at[q])'
  BY Zenon DEF Place, FollowUp, EndsStand
<1> QED
  BY <1>1, Zenon DEF Place

LEMMA EndPassPlace ==
  ASSUME Types, NEW r \in Runners, EndPass(r)
  PROVE  Place(r)' /\ Alone(r)
BY Zenon DEF EndPass, Place, Alone, Types, RunTypes

LEMMA NextHostPlace ==
  ASSUME Types, NEW r \in Runners, Place(r), NextHost(r), pc[r] \in {"expire", "plan", "work", "offline"}
  PROVE  Place(r)' /\ Alone(r)
<1>1. at[r] + 1 \in Nat \ {0}
  BY CampaignAssumption DEF Types, RunTypes
<1>2. at'[r] = From(at[r] + 1, pc[r], copy'[r]) /\ pc'[r] = pc[r] /\ claimed'[r] = claimed[r]
  BY Zenon DEF NextHost, Types, RunTypes
<1>3. pc[r] = "offline" /\ at'[r] <= N => copy'[r][at'[r]] = "queued_offline"
  BY <1>1, <1>2, FromIsNext DEF Concerned
<1>4. Place(r)'
  BY <1>2, <1>3, Zenon DEF Place
<1>5. Alone(r)
  BY Zenon DEF NextHost, Alone, Types, RunTypes
<1> QED
  BY <1>4, <1>5, Zenon

LEMMA GoToPlace ==
  ASSUME Types, NEW r \in Runners, GoTo(r, "offline") \/ GoTo(r, "plan") \/ GoTo(r, "work") \/ GoTo(r, "expire"),
         GoTo(r, "expire") => "age" \in Faults, claimed[r] = {}
  PROVE  Place(r)' /\ Alone(r)
<1>1. PICK phase \in {"offline", "plan", "work", "expire"} : GoTo(r, phase)
  BY Zenon
<1>2. at'[r] = From(1, phase, copy'[r]) /\ pc'[r] = phase /\ claimed'[r] = {}
  BY <1>1, Zenon DEF GoTo, Types, RunTypes
<1>3. phase = "offline" /\ at'[r] <= N => copy'[r][at'[r]] = "queued_offline"
  BY <1>2, FromIsNext DEF Concerned
<1>4. Place(r)'
  BY <1>1, <1>2, <1>3, Zenon DEF Place
<1>5. Alone(r)
  BY <1>1, Zenon DEF GoTo, Alone, Types, RunTypes
<1> QED
  BY <1>4, <1>5, Zenon

LEMMA SubmitPlace ==
  ASSUME Types, NEW r \in Runners, NEW kind, NEW t \in Hosts, Submit(r, kind, t), kind # "main", at[r] = t,
         UNCHANGED back, FollowUp(r, t), claimed[r] = {}
  PROVE  Place(r)' /\ Alone(r)
<1>1. pc'[r] = "submitted" /\ at'[r] = t /\ claimed'[r] = {} /\ copy' = copy
  BY Zenon DEF Submit, Types, RunTypes
<1>2. job'[<<"main", t>>] = job[<<"main", t>>]
  BY Zenon DEF Submit, Types, JobTypes, Kinds
<1>3. FollowUp(r, t)'
  BY <1>1, <1>2, Zenon DEF FollowUp
<1>4. Place(r)'
  BY <1>1, <1>3, Zenon DEF Place
<1>5. Alone(r)
  BY Zenon DEF Submit, Alone, Types, RunTypes
<1> QED
  BY <1>4, <1>5, Zenon

(* Where the head of a pass leads,                                           *)
LEMMA HeadPlace ==
  ASSUME Ready, NEW r \in Runners,
         List(r) \/ ClaimRunner(r) \/ AdoptTargets(r) \/ ReadTargets(r) \/ Expire(r)
  PROVE  Place(r)' /\ Alone(r)
<1>1. CASE EndPass(r)
  BY <1>1, EndPassPlace, Zenon DEF Ready
<1>2. CASE List(r) \/ (ClaimRunner(r) /\ ~EndPass(r)) \/ AdoptTargets(r)
  <2>1. pc' = [pc EXCEPT ![r] = pc'[r]] /\ pc'[r] \in {"listed", "claimed", "adopted"}
        /\ claimed' = claimed /\ pc[r] \in {"idle", "listed", "claimed"}
    BY <1>2, Zenon DEF List, ClaimRunner, AdoptTargets, Ready, Types, RunTypes
  <2>2. at' = at /\ \A q \in Runners \ {r} : cst'[q] = cst[q] /\ cgate'[q] = cgate[q]
    BY <1>2, Zenon DEF List, ClaimRunner, AdoptTargets, Ready, Types, RunTypes, copyVars
  <2>3. Place(r)'
    BY <2>1, Zenon DEF Ready, Places, Place
  <2>4. Alone(r)
    BY <2>1, <2>2, Zenon DEF Alone, Ready, Types, RunTypes
  <2> QED
    BY <2>3, <2>4, Zenon
<1>3. CASE ReadTargets(r) /\ ~EndPass(r)
  <2>1. claimed[r] = {}
    BY <1>3, Zenon DEF ReadTargets, Ready, Places, Place
  <2>2. PICK phase \in {"expire", "plan", "work"} : GoTo(r, phase) /\ (phase = "expire" => stale # {})
    BY <1>3, Zenon DEF ReadTargets
  <2>3. GoTo(r, "expire") => phase = "expire"
    BY <2>2, Zenon DEF GoTo, Ready, Types, RunTypes
  <2>4. phase = "expire" => "age" \in Faults
    BY <2>2, Zenon DEF Ready, Places
  <2> QED
    BY <2>1, <2>2, <2>3, <2>4, GoToPlace, Zenon DEF Ready
<1>4. CASE Expire(r) /\ ~EndPass(r)
  <2>1. NextHost(r) /\ pc[r] = "expire"
    BY <1>4, Zenon DEF Expire
  <2> QED
    BY <2>1, NextHostPlace, Zenon DEF Ready, Places
<1> QED
  BY <1>1, <1>2, <1>3, <1>4, Zenon

(* the steps about plans,                                                    *)
LEMMA PlanPlace ==
  ASSUME Ready, NEW r \in Runners,
         \/ OrderPlan(r) \/ RecheckOffline(r) \/ CollectPlan(r) \/ PlanNothing(r)
         \/ FinishPlanning(r)
  PROVE  Place(r)' /\ Alone(r)
<1>1. CASE EndPass(r)
  BY <1>1, EndPassPlace, Zenon DEF Ready
<1>2. CASE NextHost(r)
  <2>1. pc[r] = "plan"
    BY Zenon DEF OrderPlan, RecheckOffline, CollectPlan, PlanNothing, FinishPlanning
  <2> QED
    BY <1>2, <2>1, NextHostPlace, Zenon DEF Ready, Places
<1>3. CASE pc[r] = "plan" /\ UNCHANGED <<pc, at, cst, cgate, claimed>>
  <2>1. Alone(r)
    BY <1>3, Zenon DEF Alone
  <2>2. Place(r)'
    BY <1>3, Zenon DEF Ready, Places, Place
  <2> QED
    BY <2>1, <2>2, Zenon
<1> QED
  BY <1>1, <1>2, <1>3, Zenon DEF OrderPlan, RecheckOffline, CollectPlan, PlanNothing, FinishPlanning

(* those that follow a host,                                                 *)
LEMMA WorkPlace ==
  ASSUME Ready, NEW r \in Runners,
         \/ AfterMainJob(r) \/ StartStep(r) \/ AfterReboot(r) \/ AfterHealthCheck(r)
         \/ AfterReplan(r)
  PROVE  Place(r)' /\ Alone(r)
<1>h. at[r] <= N => at[r] \in Hosts
  BY CampaignAssumption DEF Ready, Types, RunTypes, Hosts
<1>1. CASE NextHost(r) /\ ~StartStep(r)
  <2>1. pc[r] = "work"
    BY <1>1, Zenon DEF AfterMainJob, AfterReboot, AfterHealthCheck, AfterReplan, AtHost
  <2> QED
    BY <1>1, <2>1, NextHostPlace, Zenon DEF Ready, Places
<1>2. CASE StartStep(r)
  <2>1. pc' = [pc EXCEPT ![r] = "work"] /\ at' = [at EXCEPT ![r] = at'[r]] /\ claimed' = claimed
        /\ cst' = cst /\ cgate' = cgate /\ pc[r] = "submitted"
    BY <1>2, Zenon DEF StartStep, Ready, Types, RunTypes
  <2>2. Alone(r)
    BY <2>1, Zenon DEF Alone, Ready, Types, RunTypes
  <2>3. Place(r)'
    BY <2>1, Zenon DEF Place, Ready, Places, Types, RunTypes
  <2> QED
    BY <2>2, <2>3, Zenon
<1>3. ASSUME NEW kind \in {"reboot", "health"}, Submit(r, kind, at[r]), ~StartStep(r)
      PROVE  Place(r)' /\ Alone(r)
  <2>1. at[r] \in Hosts /\ pc[r] = "work" /\ back' = back
    BY <1>3, <1>h, Zenon DEF AfterMainJob, AfterReboot, AfterHealthCheck, AfterReplan, AtHost
  <2>2. FollowUp(r, at[r])
    <3>1. CASE AfterMainJob(r)
      <4>1. AtHost(r, {"dispatched", "running"}) /\ pc' # pc
        BY <1>3, <3>1, <2>1, Zenon DEF AfterMainJob, Submit, Ready, Types, RunTypes
      <4>2. job[<<"main", at[r]>>] \in {"ok", "reboot"}
        BY <3>1, <4>1, Zenon DEF AfterMainJob, Done, NextHost
      <4> QED
        BY <4>1, <4>2, Zenon DEF FollowUp, AtHost
    <3>2. CASE AfterReboot(r)
      <4>1. AtHost(r, {"rebooting"}) /\ pc' # pc
        BY <1>3, <3>2, <2>1, Zenon DEF AfterReboot, Submit, Ready, Types, RunTypes
      <4>2. at[r] \in back
        BY <3>2, <4>1, Zenon DEF AfterReboot, Done, NextHost
      <4> QED
        BY <4>1, <4>2, Zenon DEF FollowUp, AtHost
    <3>3. CASE AfterHealthCheck(r) \/ AfterReplan(r)
      BY <1>3, <2>1, <3>3, Zenon DEF AfterHealthCheck, AfterReplan, Done, NextHost, Submit, Ready,
             Types, RunTypes
    <3> QED
      BY <1>3, <3>1, <3>2, <3>3, Zenon
  <2>3. claimed[r] = {}
    BY <2>1, Zenon DEF Ready, Places, Place
  <2> QED
    BY <1>3, <2>1, <2>2, <2>3, SubmitPlace, Zenon DEF Ready
<1> QED
  BY <1>1, <1>2, <1>3, Zenon DEF AfterMainJob, AfterReboot, AfterHealthCheck, AfterReplan, Verify,
         Done

(* and those that deal with a wave.                                          *)
LEMMA WavePlace ==
  ASSUME Ready, NEW r \in Runners,
         \/ Decide(r) \/ ServiceOffline(r) \/ EnterWave(r) \/ ClaimWave(r) \/ LaunchHost(r)
         \/ WaveIsOut(r) \/ RenewRunner(r) \/ PassFails(r) \/ Stop(r)
  PROVE  Place(r)' /\ Alone(r)
<1>1. CASE EndPass(r)
  BY <1>1, EndPassPlace, Zenon DEF Ready
<1>2. CASE Decide(r) /\ ~EndPass(r)
  <2>1. GoTo(r, "offline") /\ pc[r] = "work"
    BY <1>2, Zenon DEF Decide
  <2>2. claimed[r] = {} /\ ~GoTo(r, "expire")
    <3>1. pc' = [pc EXCEPT ![r] = "offline"] /\ pc \in [Runners -> Phases] /\ claimed[r] = {}
      BY <2>1, Zenon DEF GoTo, Ready, Places, Place, Types, RunTypes
    <3> QED
      BY <3>1, Zenon DEF GoTo
  <2> QED
    BY <2>1, <2>2, GoToPlace, Zenon DEF Ready
<1>3. CASE ServiceOffline(r) /\ ~EndPass(r)
  <2>1. NextHost(r) /\ pc[r] = "offline"
    BY <1>3, Zenon DEF ServiceOffline
  <2> QED
    BY <2>1, NextHostPlace, Zenon DEF Ready, Places
<1>4. CASE EnterWave(r) /\ ~EndPass(r)
  <2>1. pc[r] = "offline" /\ pc' = [pc EXCEPT ![r] = "claim"] /\ cst' = [cst EXCEPT ![r] = cst'[r]]
        /\ UNCHANGED <<at, cgate, claimed>>
    BY <1>4, Zenon DEF EnterWave, Ready, Types, RunTypes
  <2>2. Alone(r)
    BY <2>1, Zenon DEF Alone, Ready, Types, RunTypes
  <2>3. Place(r)'
    BY <2>1, Zenon DEF Place, Ready, Places, Types, RunTypes
  <2> QED
    BY <2>2, <2>3, Zenon
<1>5. CASE ClaimWave(r) /\ ~EndPass(r)
  <2>1. /\ pc' = [pc EXCEPT ![r] = "launch"] /\ UNCHANGED <<copy, at, cst, cgate>>
        /\ claimed' = [claimed EXCEPT ![r] = claimed'[r]]
        /\ \A t \in claimed'[r] : copy[r][t] \in Waiting \ {"queued_offline"}
    <3>1. \E first \in SUBSET Hosts :
            claimed' = [claimed EXCEPT ![r] = {t \in first : copy[r][t] \in Waiting \ {"queued_offline"}}]
      BY <1>5, Zenon DEF ClaimWave
    <3>2. pc' = [pc EXCEPT ![r] = "launch"] /\ UNCHANGED <<copy, at, cst, cgate>>
      BY <1>5, Zenon DEF ClaimWave, copyVars
    <3> QED
      BY <3>1, <3>2, Zenon DEF Ready, Types, RunTypes
  <2>2. Alone(r)
    BY <2>1, Zenon DEF Alone, Ready, Types, RunTypes
  <2>3. Place(r)'
    <3>1. pc'[r] = "launch" /\ copy'[r] = copy[r]
      BY <2>1, Zenon DEF Ready, Types, RunTypes
    <3> QED
      BY <2>1, <3>1, Zenon DEF Place, Waiting
  <2> QED
    BY <2>2, <2>3, Zenon
<1>6. CASE LaunchHost(r) /\ ~EndPass(r)
  <2> DEFINE t == Min(claimed[r])
  <2>1. pc[r] = "launch" /\ claimed' = [claimed EXCEPT ![r] = @ \ {t}] /\ UNCHANGED <<pc, at, cst, cgate>>
    BY <1>6, Zenon DEF LaunchHost
  <2>2. \/ copy' = copy
        \/ \E s \in TargetStates : copy' = [copy EXCEPT ![r][t] = s]
    BY <1>6, Zenon DEF LaunchHost, Hold, Unavailable, Launch, Settle, Write, TargetStates,
           Unstarted, Waiting,
       InFlight, Finished
  <2>3. ASSUME NEW u \in claimed'[r] PROVE u \in claimed[r] /\ u \in Hosts /\ copy'[r][u] = copy[r][u]
    <3>1. claimed \in [Runners -> SUBSET Hosts] /\ copy \in [Runners -> [Hosts -> TargetStates]]
      BY Zenon DEF Ready, Types, RunTypes, RowTypes
    <3>2. u \in claimed[r] /\ u # t /\ u \in Hosts
      BY <2>1, <3>1, Zenon
    <3> QED
      BY <2>2, <3>1, <3>2
  <2>4. Alone(r)
    BY <2>1, Zenon DEF Alone, Ready, Types, RunTypes
  <2>5. Place(r)'
    BY <2>1, <2>3, Zenon DEF Place, Ready, Places
  <2> QED
    BY <2>4, <2>5, Zenon
<1>7. CASE RenewRunner(r) /\ ~EndPass(r)
  <2>1. UNCHANGED <<pc, at, cst, cgate, copy, claimed>> /\ pc[r] = "launch"
    BY <1>7, Zenon DEF RenewRunner, copyVars, passVars
  <2> QED
    BY <2>1, Zenon DEF Alone, Place, Ready, Places
<1> QED
  BY <1>1, <1>2, <1>3, <1>4, <1>5, <1>6, <1>7, Zenon DEF WaveIsOut, PassFails, Stop

(* No step of a pass ages a plan.                                           *)
LEMMA StepAgesNoPlan ==
  ASSUME NEW r \in Runners, PassStep(r) \/ RenewRunner(r) \/ PassFails(r) \/ Stop(r)
  PROVE  stale' \subseteq stale
<1>1. CASE List(r) \/ ClaimRunner(r) \/ AdoptTargets(r) \/ ReadTargets(r) \/ Expire(r)
  BY <1>1, Zenon DEF List, ClaimRunner, AdoptTargets, ReadTargets, Expire, timeVars
<1>2. CASE OrderPlan(r) \/ RecheckOffline(r) \/ CollectPlan(r) \/ PlanNothing(r) \/ FinishPlanning(r)
  BY <1>2, Zenon DEF OrderPlan, RecheckOffline, CollectPlan, PlanNothing, FinishPlanning,
         PlanVerdict, timeVars
<1>3. CASE AfterMainJob(r) \/ StartStep(r) \/ AfterReboot(r) \/ AfterHealthCheck(r) \/ AfterReplan(r)
  BY <1>3, Zenon DEF AfterMainJob, StartStep, AfterReboot, AfterHealthCheck, AfterReplan,
         PlanVerdict, Verify,
     Submit, timeVars
<1>4. CASE Decide(r) \/ ServiceOffline(r) \/ EnterWave(r) \/ ClaimWave(r) \/ LaunchHost(r) \/ WaveIsOut(r)
  BY <1>4, Zenon DEF Decide, ServiceOffline, EnterWave, ClaimWave, LaunchHost, WaveIsOut, timeVars
<1>5. CASE RenewRunner(r) \/ PassFails(r) \/ Stop(r)
  BY <1>5, Zenon DEF RenewRunner, PassFails, Stop, timeVars
<1> QED
  BY <1>1, <1>2, <1>3, <1>4, <1>5, Zenon DEF PassStep

LEMMA OutsideThePasses ==
  ASSUME Operator \/ DeadlinePasses \/ PlansAge \/ LeaseLapses \/ UNCHANGED vars \/ \E t \in Hosts : HostStep(t)
  PROVE  UNCHANGED <<copyVars, passVars>> /\ (stale' # {} => stale # {} \/ "age" \in Faults)
<1>1. CASE Operator \/ DeadlinePasses \/ PlansAge \/ LeaseLapses \/ UNCHANGED vars
  BY <1>1, Zenon DEF Operator, Approve, PauseReads, Pause, Resume, Advance, Cancel, SkipTarget,
         DeadlinePasses,
     PlansAge, LeaseLapses, vars, timeVars
<1>2. ASSUME NEW t \in Hosts, HostStep(t) PROVE UNCHANGED <<copyVars, passVars, stale>>
  BY <1>2, Zenon DEF HostStep, Lease, HandOver, LeaseReturns, TaskExpires, TaskEnds, TaskStops,
         HostMoves,
     HostIsBack, RebootIsLate, timeVars
<1> QED
  BY <1>1, <1>2, Zenon

(* A finished row is left alone, and what a pass copies is the row.          *)
LEMMA StepKeepsCopies ==
  ASSUME Types, Copies, NEW r \in Runners, Kind(r)
  PROVE  Copies'
<1> SUFFICES ASSUME NEW q \in Runners, NEW u \in Hosts, copy'[q][u] \in Finished
             PROVE  ts'[u] = copy'[q][u]
  BY Zenon DEF Copies
<1>1. CASE Quiet(r)
  <2>1. "pending" \notin Finished
    BY Zenon DEF Finished
  <2> QED
    <3>1. ts' = ts /\ (copy'[q][u] = copy[q][u] \/ copy'[q][u] = "pending" \/ copy'[q][u] = ts[u])
      BY <1>1, Zenon DEF Quiet, Types, RowTypes
    <3> QED
      BY <2>1, <3>1, Zenon DEF Copies
<1>2. CASE FollowsUp(r)
  BY <1>2, Zenon DEF FollowsUp, Copies
<1>3. ASSUME NEW t \in Hosts, NEW s \in TargetStates, Wrote(r, t, s) PROVE ts'[u] = copy'[q][u]
  <2>1. /\ ts' = [ts EXCEPT ![t] = s] /\ copy' = [copy EXCEPT ![r][t] = s]
        /\ ts[t] \notin Finished
    BY <1>3, Zenon DEF Wrote, TargetMayBecome
  <2>2. CASE q = r /\ u = t
    BY <2>1, <2>2, Zenon DEF Types, RowTypes
  <2>3. CASE ~(q = r /\ u = t)
    <3>1. copy'[q][u] = copy[q][u]
      BY <2>1, <2>3, Zenon DEF Types, RowTypes
    <3> QED
      BY <2>1, <3>1 DEF Types, RowTypes, Copies
  <2> QED
    BY <2>2, <2>3, Zenon
<1>4. "planning" \in TargetStates /\ "dispatched" \in TargetStates /\ claimed[r] \subseteq Hosts
  BY Zenon DEF TargetStates, Unstarted, InFlight, Types, RunTypes
<1> QED
  BY <1>1, <1>2, <1>3, <1>4, Zenon DEF Kind, Writes, Plans, Starts

(* Nothing outside the passes reopens a host that a pass knows as ended.     *)
LEMMA OutsideKeepsCopies ==
  ASSUME Types, Copies, Outside, copy' = copy
  PROVE  Copies'
<1>1. ASSUME NEW t \in Hosts, ts[t] \in Finished PROVE ts'[t] = ts[t]
  BY <1>1, Zenon DEF Outside, Cancel, SkipTarget, TaskMoves, Types, RowTypes, Finished, Unstarted,
         Waiting
<1> QED
  BY <1>1, Zenon DEF Copies

-----------------------------------------------------------------------------
Inv == Ready /\ Agree /\ Copies

(* A step of a pass keeps the invariant,                                     *)
LEMMA StepKeepsInv ==
  ASSUME Inv, NEW r \in Runners, PassStep(r) \/ RenewRunner(r) \/ PassFails(r) \/ Stop(r)
  PROVE  Inv'
<1>1. Types /\ Tasks /\ Places /\ Agree /\ Copies /\ Ready
  BY Zenon DEF Inv, Ready
<1>2. Types'
  <2>1. pc[r] = "submitted" => at[r] \in Hosts
    BY <1>1, Zenon DEF Places, Place
  <2> QED
    BY <1>1, <2>1, HeadTypes, PlanTypes, WorkTypes, WaveTypes, RunnerTypes, Zenon DEF PassStep
<1>3. Kind(r)
  BY <1>1, StepIsOfAKind, Zenon
<1>4. Agree'
  BY <1>1, <1>3, StepAgrees, Zenon DEF Agree
<1>5. Tasks'
  BY <1>4, Zenon DEF Agree, Agrees, Tasks
<1>6. Place(r)' /\ Alone(r)
  BY <1>1, HeadPlace, PlanPlace, WorkPlace, WavePlace, Zenon DEF PassStep
<1>7. ASSUME NEW q \in Runners, q # r PROVE Place(q)'
  <2>1. copy'[q] = copy[q]
    BY <1>1, <1>3, <1>7, Zenon DEF Kind, Quiet, FollowsUp, Writes, Plans, Starts, Wrote, Types,
           RowTypes
  <2>2. EndsStand
    BY <1>1, <1>3, StepsLetEndsStand, Zenon
  <2> QED
    BY <1>1, <1>6, <1>7, <2>1, <2>2, PlaceStays, Zenon DEF Alone, Places
<1>8. Places'
  BY <1>1, <1>6, <1>7, StepAgesNoPlan, Zenon DEF Places
<1>9. Copies'
  BY <1>1, <1>3, StepKeepsCopies, Zenon
<1> QED
  BY <1>2, <1>4, <1>5, <1>8, <1>9, Zenon DEF Inv, Ready

(* and so does every other step.                                             *)
LEMMA OutsideKeepsInv ==
  ASSUME Inv, Operator \/ DeadlinePasses \/ PlansAge \/ LeaseLapses \/ UNCHANGED vars \/ \E t \in Hosts : HostStep(t)
  PROVE  Inv'
<1>1. Types /\ Tasks /\ Places /\ Agree /\ Copies
  BY Zenon DEF Inv, Ready
<1>2. Types'
  BY <1>1, OperatorTypes, TimeStepTypes, HostStepTypes, Zenon
<1>3. Outside
  BY <1>1, HostStepIsOutside, OtherStepIsOutside, Zenon
<1>4. UNCHANGED <<copyVars, passVars>> /\ (stale' # {} => stale # {} \/ "age" \in Faults)
  BY OutsideThePasses, Zenon
<1>5. UNCHANGED <<copy, pc, at, claimed>>
  BY <1>4, Zenon DEF copyVars, passVars
<1>6. Agree'
  BY <1>1, <1>3, OutsideAgrees, Zenon DEF Agree
<1>7. Tasks'
  BY <1>6, Zenon DEF Agree, Agrees, Tasks
<1>8. EndsStand
  BY <1>1, <1>3, StepsLetEndsStand, Zenon
<1>9. Places'
  BY <1>1, <1>4, <1>5, <1>8, PlaceStays, Zenon DEF Places
<1>10. Copies'
  BY <1>1, <1>3, <1>5, OutsideKeepsCopies, Zenon
<1> QED
  BY <1>2, <1>6, <1>7, <1>9, <1>10, Zenon DEF Inv, Ready

LEMMA InitialState == Init => Inv
<1> SUFFICES ASSUME Init PROVE Inv
  BY Zenon
<1>1. CampaignTypes
  BY Zenon DEF Init, CampaignTypes, CampaignStates, Driven, Launching
<1>2. LeaseTypes /\ HostTypes /\ TimeTypes /\ VerdictTypes
  BY Zenon DEF Init, LeaseTypes, HostTypes, TimeTypes, VerdictTypes, Holders
<1>8. ClaimTypes /\ FaultTypes
  BY CampaignAssumption DEF Init, ClaimTypes, FaultTypes, Holders
<1>3. RowTypes /\ JobTypes
  BY Zenon DEF Init, RowTypes, JobTypes, TargetStates, Unstarted, Waiting, JobStates
<1>4. RunTypes
  BY CampaignAssumption DEF Init, RunTypes, Phases, CampaignStates, Driven, Launching
<1>5. Agree
  BY Zenon DEF Init, Agree, Agrees, TaskOf, Kinds, OpenJob
<1>6. Tasks
  BY <1>5, Zenon DEF Agree, Agrees, Tasks
<1>7. Places /\ Copies
  BY Zenon DEF Init, Places, Place, Copies, Finished
<1> QED
  BY <1>1, <1>2, <1>3, <1>4, <1>5, <1>6, <1>7, <1>8, Zenon DEF Inv, Ready, Types

(* The inductive invariant holds of every campaign.                          *)
LEMMA Invariance == Spec => []Inv
<1>1. Inv /\ [Next]_vars => Inv'
  BY StepKeepsInv, OutsideKeepsInv, Zenon DEF Next
<1> QED
  BY <1>1, InitialState, PTL DEF Spec

-----------------------------------------------------------------------------
(* Every variable of the campaign, of its passes and of its hosts keeps to  *)
(* its type, for any number of hosts and runners and any set of orders.     *)
THEOREM TypeCorrect == Spec => []TypeOK
<1>1. Inv => TypeOK
  BY Zenon DEF Inv, Ready, Types, CampaignTypes, LeaseTypes, RowTypes, ClaimTypes, JobTypes,
         HostTypes, TimeTypes,
     FaultTypes, RunTypes, VerdictTypes, TypeOK
<1> QED
  BY <1>1, Invariance, PTL

(* A host that ends canceled has not run the change, whenever the           *)
(* cancellation came and whoever settled the host (Cancel, targetOutcome).  *)
THEOREM CanceledHostsHaveNotRun == Spec => []CanceledHasNotRun
<1>1. Inv => CanceledHasNotRun
  BY Zenon DEF Inv, Agree, Agrees, CanceledHasNotRun
<1> QED
  BY <1>1, Invariance, PTL

(* A host counts as succeeded only on the word of its tasks: nothing to     *)
(* change, or the change done, the reboot over and the units verified       *)
(* (afterMainJob, afterReboot, afterHealthCheck).                           *)
THEOREM SuccessesAreVerified == Spec => []SuccessIsVerified
<1>1. Inv => SuccessIsVerified
  BY Zenon DEF Inv, Agree, Agrees, Verified, Changed, SuccessIsVerified
<1> QED
  BY <1>1, Invariance, PTL

(* Where no plan runs out, an open task of the change has a host that       *)
(* follows it, through every launch, cancel and change of runner (launch,   *)
(* Cancel).                                                                 *)
THEOREM TasksAreFollowed ==
  ASSUME "age" \notin Faults
  PROVE  Spec => []EveryTaskIsFollowed
<1>1. Inv => EveryTaskIsFollowed
  BY Zenon DEF Inv, Agree, Agrees, EveryTaskIsFollowed
<1> QED
  BY <1>1, Invariance, PTL

(* No host behind the gate is in flight before somebody let the campaign    *)
=============================================================================
