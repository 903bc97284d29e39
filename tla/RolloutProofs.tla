--------------------------- MODULE RolloutProofs ---------------------------
(***************************************************************************)
(* Campaigns implements Rollout, for any hosts, orders and runners: how    *)
(* the steps of a pass move the campaign and its hosts (on the invariant   *)
(* of CampaignsProofs), what that keeps of the gate, of the end and of the *)
(* room in a wave, and the step of Rollout each of them is.                *)
(***************************************************************************)
EXTENDS CampaignsProofs

-----------------------------------------------------------------------------
(* What a step makes of the pass: it ends, it lists the campaign, it goes   *)
(* on, it enters a wave, it claims the hosts of the wave, or it deals with  *)
(* one of them.                                                             *)
Reads == {"expire", "plan", "submitted", "work", "offline", "claim", "launch"}
Flying(f) == {t \in Hosts : f[t] \in InFlight}

Kept(r) == copy' = copy \/ \E t \in Hosts, s \in TargetStates : Wrote(r, t, s)

Idles(r) ==
    pc'[r] = "idle" /\ cst'[r] = "planned" /\ cgate'[r] = FALSE /\ claimed'[r] = {}
Lists(r) ==
    /\ pc'[r] = "listed" /\ cst'[r] = cstate /\ cgate'[r] = gateAdvanced
    /\ claimed'[r] = claimed[r]
Goes(r) ==
    /\ cst'[r] = cst[r] /\ cgate'[r] = cgate[r] /\ claimed'[r] = claimed[r]
    /\ \/ pc'[r] \in {"claimed", "adopted"}
       \/ /\ pc'[r] \in Reads \ {"claim", "launch"}
          /\ (pc[r] \in Reads /\ Kept(r)) \/ (copy'[r] = ts /\ ts' = ts)
Enters(r) ==
    /\ pc[r] \in Reads /\ pc'[r] = "claim" /\ cst'[r] \in {"canary", "running"}
    /\ cgate'[r] = cgate[r] /\ claimed'[r] = claimed[r] /\ UNCHANGED <<copy, ts>>
    /\ HeldWaves(copy[r]) # {} /\ ~Gate(r, CurrentWave(copy[r]))
Claims(r) ==
    /\ pc[r] = "claim" /\ pc'[r] = "launch" /\ cst'[r] = cst[r] /\ cgate'[r] = cgate[r]
    /\ UNCHANGED <<copy, ts>>
    /\ \A t \in claimed'[r] : Wave(t) = CurrentWave(copy[r])
    /\ Working(copy[r]) + Cardinality(claimed'[r]) <= MaxConcurrent
Launches(r) ==
    /\ pc[r] = "launch" /\ pc'[r] = "launch" /\ cst'[r] = cst[r] /\ cgate'[r] = cgate[r]
    /\ \/ claimed'[r] = claimed[r] /\ UNCHANGED <<copy, ts>>
       \/ \E t \in claimed[r] :
            /\ claimed'[r] = claimed[r] \ {t}
            /\ copy' = copy \/ \E s \in TargetStates : Wrote(r, t, s)
Moves(r) == Idles(r) \/ Lists(r) \/ Goes(r) \/ Enters(r) \/ Claims(r) \/ Launches(r)

LEMMA EndPassMoves ==
  ASSUME Types, NEW r \in Runners, EndPass(r)
  PROVE  Moves(r)
BY Zenon DEF EndPass, Moves, Idles, Types, RunTypes

LEMMA SettleKeeps ==
  ASSUME NEW r, NEW t \in Hosts, NEW s \in TargetStates, Settle(r, t, s) \/ Write(r, t, s)
  PROVE  Kept(r)
BY Zenon DEF Settle, Write, CanWrite, Kept, Wrote

LEMMA HoldKeeps ==
  ASSUME NEW r, NEW t \in Hosts, Hold(r, t) \/ Unavailable(r, t)
  PROVE  Kept(r)
BY SettleKeeps, Zenon DEF Hold, Unavailable, TargetStates, Unstarted, Waiting, Finished

LEMMA VerdictKeeps ==
  ASSUME NEW r, NEW t \in Hosts, NEW answer, PlanVerdict(r, t, answer)
  PROVE  Kept(r)
BY SettleKeeps, Zenon DEF PlanVerdict, TargetStates, Unstarted, Waiting, Finished

LEMMA NextHostMoves ==
  ASSUME Types, NEW r \in Runners, NextHost(r), pc[r] \in {"expire", "plan", "work", "offline"}, Kept(r)
  PROVE  Moves(r)
<1>1. /\ pc' = pc /\ cst'[r] = cst[r] /\ cgate'[r] = cgate[r] /\ claimed'[r] = claimed[r]
  BY Zenon DEF NextHost
<1> QED
  BY <1>1, Zenon DEF Moves, Goes, Reads

(* How the head of a pass moves it,                                          *)
LEMMA HeadMoves ==
  ASSUME Types, NEW r \in Runners,
         List(r) \/ ClaimRunner(r) \/ AdoptTargets(r) \/ ReadTargets(r) \/ Expire(r)
  PROVE  Moves(r)
<1>h. at[r] <= N => at[r] \in Hosts
  BY CampaignAssumption DEF Types, RunTypes, Hosts
<1>0. CASE EndPass(r)
  BY <1>0, EndPassMoves, Zenon
<1>1. CASE List(r)
  BY <1>1, Zenon DEF List, Moves, Lists, Types, RunTypes
<1>2. CASE (ClaimRunner(r) \/ AdoptTargets(r)) /\ ~EndPass(r)
  <2>1. /\ pc'[r] \in {"claimed", "adopted"} /\ UNCHANGED <<cst, cgate, claimed>>
    BY <1>2, Zenon DEF ClaimRunner, AdoptTargets, copyVars, Types, RunTypes
  <2> QED
    BY <2>1, Zenon DEF Moves, Goes
<1>3. CASE ReadTargets(r) /\ ~EndPass(r)
  <2>1. PICK phase \in {"expire", "plan", "work"} : GoTo(r, phase)
    BY <1>3, Zenon DEF ReadTargets
  <2>2. copy' = [copy EXCEPT ![r] = ts] /\ ts' = ts
    BY <1>3, Zenon DEF ReadTargets, targetVars
  <2>3. copy'[r] = ts
    BY <2>2, Zenon DEF Types, RowTypes
  <2>4. pc'[r] = phase /\ UNCHANGED <<cst, cgate, claimed>>
    BY <2>1 DEF GoTo, Types, RunTypes
  <2> QED
    BY <2>2, <2>3, <2>4, Zenon DEF Moves, Goes, Reads
<1>4. CASE Expire(r) /\ ~EndPass(r)
  <2>1. pc[r] = "expire" /\ NextHost(r) /\ at[r] \in Hosts
    BY <1>4, <1>h, Zenon DEF Expire
  <2>2. Settle(r, at[r], "skipped") \/ copy' = copy
    BY <1>4, Zenon DEF Expire
  <2>3. "skipped" \in TargetStates
    BY DEF TargetStates, Finished
  <2>4. Kept(r)
    BY <2>1, <2>2, <2>3, SettleKeeps, Zenon DEF Kept
  <2> QED
    BY <2>1, <2>4, NextHostMoves, Zenon
<1> QED
  BY <1>0, <1>1, <1>2, <1>3, <1>4, SMTT(30)

(* the steps about plans,                                                    *)
LEMMA PlanMoves ==
  ASSUME Types, NEW r \in Runners,
         \/ OrderPlan(r) \/ RecheckOffline(r) \/ CollectPlan(r) \/ PlanNothing(r)
         \/ FinishPlanning(r)
  PROVE  Moves(r)
<1>h. at[r] <= N => at[r] \in Hosts
  BY CampaignAssumption DEF Types, RunTypes, Hosts
<1>s. {"planning", "failed", "skipped", "pending"} \subseteq TargetStates
  BY Zenon DEF TargetStates, Unstarted, Waiting, Finished
<1>0. CASE EndPass(r)
  BY <1>0, EndPassMoves, Zenon
<1>1. CASE OrderPlan(r) /\ ~EndPass(r)
  <2>1. pc[r] = "plan" /\ NextHost(r) /\ at[r] \in Hosts
    BY <1>1, <1>h, Zenon DEF OrderPlan
  <2>2. \/ Write(r, at[r], "planning") \/ Hold(r, at[r]) \/ Settle(r, at[r], "failed")
        \/ Unavailable(r, at[r])
    BY <1>1, Zenon DEF OrderPlan, Launch
  <2>3. Kept(r)
    BY <1>s, <2>1, <2>2, SettleKeeps, HoldKeeps, Zenon
  <2> QED
    BY <2>1, <2>3, NextHostMoves, Zenon
<1>2. CASE RecheckOffline(r) /\ ~EndPass(r)
  <2>1. pc[r] = "plan" /\ at[r] \in Hosts /\ UNCHANGED <<pc, cst, cgate, claimed>>
    BY <1>2, <1>h, Zenon DEF RecheckOffline, NextHost
  <2>2. \/ Write(r, at[r], "pending") \/ Settle(r, at[r], "skipped") \/ copy' = copy
        \/ Unavailable(r, at[r])
    BY <1>2, Zenon DEF RecheckOffline
  <2>3. Kept(r)
    BY <1>s, <2>1, <2>2, SettleKeeps, HoldKeeps, Zenon DEF Kept
  <2> QED
    BY <2>1, <2>3, Zenon DEF Moves, Goes, Reads
<1>3. CASE (CollectPlan(r) \/ PlanNothing(r)) /\ ~EndPass(r)
  <2>1. pc[r] = "plan" /\ NextHost(r) /\ at[r] \in Hosts
    BY <1>3, <1>h, Zenon DEF CollectPlan, PlanNothing
  <2>2. copy' = copy \/ PlanVerdict(r, at[r], job[<<"plan", at[r]>>])
    BY <1>3, Zenon DEF CollectPlan, PlanNothing
  <2>3. Kept(r)
    BY <2>1, <2>2, VerdictKeeps, Zenon DEF Kept
  <2> QED
    BY <2>1, <2>3, NextHostMoves, Zenon
<1> QED
  BY <1>0, <1>1, <1>2, <1>3, Zenon DEF FinishPlanning

(* those that follow a host,                                                 *)
LEMMA WorkMoves ==
  ASSUME Types, NEW r \in Runners, pc[r] = "submitted" => at[r] \in Hosts,
         \/ AfterMainJob(r) \/ StartStep(r) \/ AfterReboot(r) \/ AfterHealthCheck(r)
         \/ AfterReplan(r)
  PROVE  Moves(r)
<1>h. at[r] <= N => at[r] \in Hosts
  BY CampaignAssumption DEF Types, RunTypes, Hosts
<1>s. {"dispatched", "running", "rebooting", "verifying", "failed", "skipped", "succeeded", "unknown",
       "absent", "canceled"} \subseteq TargetStates
  BY Zenon DEF TargetStates, InFlight, Finished
<1>1. ASSUME NEW kind, NEW t, Submit(r, kind, t), pc[r] = "work" PROVE Moves(r)
  <2>1. pc'[r] = "submitted" /\ UNCHANGED <<cst, cgate, claimed, copy>>
    BY <1>1, Zenon DEF Submit, Types, RunTypes
  <2> QED
    BY <1>1, <2>1, Zenon DEF Moves, Goes, Reads, Kept
<1>2. CASE AfterMainJob(r) /\ pc'[r] # "submitted"
  <2> DEFINE t == at[r]  task == job[<<"main", t>>]
  <2>1. t \in Hosts /\ pc[r] = "work"
    BY <1>2, <1>h, Zenon DEF AfterMainJob, AtHost
  <2>2. ~\E kind \in Kinds : Submit(r, kind, t)
    BY <1>2, Zenon DEF Submit, Types, RunTypes
  <2>3. NextHost(r)
    BY <1>2, <2>2, Zenon DEF AfterMainJob, Verify, Done, Kinds
  <2>4. \/ copy' = copy \/ Settle(r, t, "running") \/ Settle(r, t, "dispatched")
        \/ Settle(r, t, "succeeded") \/ Settle(r, t, "failed")
        \/ task \in {"lost", "absent", "canceled", "failed", "nochange"} /\ Settle(r, t, MainVerdict(task))
    BY <1>2, <2>2, Zenon DEF AfterMainJob, Verify, Follow, Kinds
  <2>5. task \in {"lost", "absent", "canceled", "failed", "nochange"} => MainVerdict(task) \in TargetStates
    BY <1>s DEF MainVerdict
  <2>6. Kept(r)
    BY <1>s, <2>1, <2>4, <2>5, SettleKeeps, Zenon DEF Kept
  <2> QED
    BY <2>1, <2>3, <2>6, NextHostMoves, Zenon
<1>3. CASE StartStep(r)
  <2>1. pc[r] = "submitted" /\ at[r] \in Hosts
    BY <1>3, Zenon DEF StartStep
  <2>2. Settle(r, at[r], "rebooting") \/ Settle(r, at[r], "verifying")
    BY <1>3, Zenon DEF StartStep
  <2>3. Kept(r)
    BY <1>s, <2>1, <2>2, SettleKeeps, Zenon
  <2>4. pc'[r] = "work" /\ UNCHANGED <<cst, cgate, claimed>>
    BY <1>3, Zenon DEF StartStep, Types, RunTypes
  <2> QED
    BY <2>1, <2>3, <2>4, Zenon DEF Moves, Goes, Reads
<1>4. CASE AfterReboot(r) /\ pc'[r] # "submitted"
  <2>1. at[r] \in Hosts /\ pc[r] = "work"
    BY <1>4, <1>h, Zenon DEF AfterReboot, AtHost
  <2>2. ~Submit(r, "health", at[r])
    BY <1>4 DEF Submit, Types, RunTypes
  <2>3. NextHost(r)
    BY <1>4, <2>2, Zenon DEF AfterReboot, Verify, Done
  <2>4. \/ copy' = copy \/ Settle(r, at[r], "succeeded") \/ Settle(r, at[r], "failed")
        \/ Write(r, at[r], "failed")
    BY <1>4, <2>2, Zenon DEF AfterReboot, Verify
  <2>5. Kept(r)
    BY <1>s, <2>1, <2>4, SettleKeeps, Zenon DEF Kept
  <2> QED
    BY <2>1, <2>3, <2>5, NextHostMoves, Zenon
<1>5. CASE AfterHealthCheck(r)
  <2>1. at[r] \in Hosts /\ pc[r] = "work" /\ NextHost(r)
    BY <1>5, <1>h, Zenon DEF AfterHealthCheck, AtHost, Done
  <2>2. copy' = copy \/ \E s \in {"succeeded", "unknown", "failed"} : Settle(r, at[r], s)
    BY <1>5, Zenon DEF AfterHealthCheck, HealthVerdict
  <2>3. Kept(r)
    BY <1>s, <2>1, <2>2, SettleKeeps, Zenon DEF Kept
  <2> QED
    BY <2>1, <2>3, NextHostMoves, Zenon
<1>6. CASE AfterReplan(r)
  <2>1. at[r] \in Hosts /\ pc[r] = "work" /\ NextHost(r)
    BY <1>6, <1>h, Zenon DEF AfterReplan, AtHost, Done
  <2>2. copy' = copy \/ PlanVerdict(r, at[r], job[<<"plan", at[r]>>]) \/ Settle(r, at[r], "skipped")
    BY <1>6, Zenon DEF AfterReplan
  <2>3. Kept(r)
    BY <1>s, <2>1, <2>2, SettleKeeps, VerdictKeeps, Zenon DEF Kept
  <2> QED
    BY <2>1, <2>3, NextHostMoves, Zenon
<1>7. CASE AfterMainJob(r) /\ pc'[r] = "submitted"
  <2>1. pc[r] = "work"
    BY <1>7, Zenon DEF AfterMainJob, AtHost
  <2>2. \E kind \in Kinds : Submit(r, kind, at[r])
    BY <1>7, <2>1, Zenon DEF AfterMainJob, Verify, Done, NextHost, Kinds
  <2> QED
    BY <1>1, <2>1, <2>2, Zenon
<1>8. CASE AfterReboot(r) /\ pc'[r] = "submitted"
  <2>1. pc[r] = "work"
    BY <1>8, Zenon DEF AfterReboot, AtHost
  <2>2. Submit(r, "health", at[r])
    BY <1>8, <2>1, Zenon DEF AfterReboot, Verify, Done, NextHost
  <2> QED
    BY <1>1, <2>1, <2>2, Zenon
<1> QED
  BY <1>2, <1>3, <1>4, <1>5, <1>6, <1>7, <1>8, Zenon

LEMMA SomeHosts ==
  ASSUME NEW T \in SUBSET Hosts
  PROVE  IsFiniteSet(T) /\ Cardinality(T) \in Nat
<1>1. 1 \in Int /\ N \in Int
  BY CampaignAssumption
<1>2. IsFiniteSet(Hosts)
  BY <1>1, FS_Interval, Zenon DEF Hosts
<1>3. IsFiniteSet(T)
  BY <1>2, FS_Subset, Zenon
<1> QED
  BY <1>3, FS_CardinalityType, Zenon

(* The first hosts of a set, up to a limit, are no more than the limit.     *)
LEMMA FirstOf ==
  ASSUME NEW S \in SUBSET Hosts, NEW limit \in Nat \ {0},
         NEW first \in SUBSET S, \A t \in first : Cardinality({u \in S : u < t}) < limit
  PROVE  Cardinality(first) <= limit
<1>1. CASE first = {}
  <2>1. Cardinality(first) = 0
    BY <1>1, FS_EmptySet, Zenon
  <2> QED
    BY <2>1
<1>2. CASE first # {}
  <2> DEFINE above == {b \in Nat : \A t \in first : t <= b}
  <2>1. N \in above /\ above \subseteq Nat
    BY CampaignAssumption DEF Hosts
  <2>2. \E m \in above : \A b \in above : m <= b
    <3> HIDE DEF above
    <3> QED
      BY <2>1, LeastOf, Zenon
  <2>3. PICK m \in above : \A b \in above : m <= b
    BY <2>2, Zenon
  <2>4. first \subseteq Nat \ {0} /\ m \in Nat /\ \A t \in first : t <= m
    <3>1. Hosts \subseteq Nat \ {0}
      BY DEF Hosts
    <3>2. m \in Nat /\ \A t \in first : t <= m
      BY <2>3, Zenon
    <3> QED
      BY <3>1, <3>2, Zenon
  <2>5. m \in first
    <3> SUFFICES ASSUME m \notin first PROVE FALSE
      BY Zenon
    <3>1. PICK t \in first : t \in Nat \ {0} /\ t <= m
      BY <1>2, <2>4, Zenon
    <3>2. m # 0
      BY <2>4, <3>1, SMTT(30)
    <3>3. \A u \in first : u <= m - 1
      BY <2>4
    <3>4. m - 1 \in above
      BY <2>4, <3>2, <3>3, SMTT(30)
    <3> QED
      BY <2>3, <2>4, <3>4, SMTT(30)
  <2> DEFINE below == {u \in S : u < m}
  <2>6. ASSUME NEW t \in first PROVE t \in below \union {m}
    <3>1. t \in S /\ t \in Nat /\ m \in Nat /\ t <= m
      BY <2>4, Zenon
    <3> QED
      BY <3>1
  <2>7. Cardinality(below) < limit /\ m \in S
    BY <2>5, Zenon
  <2>8. below \in SUBSET Hosts /\ m \notin below /\ first \subseteq below \union {m}
    <3>1. m \notin below
      BY <2>4
    <3>2. below \in SUBSET Hosts
      BY Zenon
    <3>3. first \subseteq below \union {m}
      BY <2>6, Zenon
    <3> QED
      BY <3>1, <3>2, <3>3, Zenon
  <2> HIDE DEF below, above
  <2>9. IsFiniteSet(below) /\ Cardinality(below) \in Nat
    BY <2>8, SomeHosts, SMTT(30)
  <2>10. Cardinality(below \union {m}) = Cardinality(below) + 1 /\ IsFiniteSet(below \union {m})
    BY <2>8, <2>9, FS_AddElement, SMTT(30)
  <2>11. Cardinality(first) <= Cardinality(below \union {m})
    BY <2>8, <2>10, FS_Subset, SMTT(30)
  <2>12. Cardinality(first) \in Nat
    BY SomeHosts
  <2> QED
    BY <2>7, <2>9, <2>10, <2>11, <2>12, SMTT(30)
<1> QED
  BY <1>1, <1>2, Zenon

(* and those that deal with a wave.                                          *)
LEMMA WaveMoves ==
  ASSUME Types, NEW r \in Runners, EnterWave(r) \/ ClaimWave(r) \/ LaunchHost(r) \/ RenewRunner(r),
         ~EndPass(r)
  PROVE  Moves(r)
<1>1. CASE EnterWave(r)
  <2>1. /\ pc[r] = "offline" /\ UNCHANGED <<cgate, claimed, copy, ts>>
        /\ HeldWaves(copy[r]) # {} /\ ~Gate(r, CurrentWave(copy[r]))
        /\ pc' = [pc EXCEPT ![r] = "claim"]
    BY <1>1, Zenon DEF EnterWave, targetVars
  <2>2. \E desired \in {"canary", "running"} : cst' = [cst EXCEPT ![r] = desired]
    BY <1>1, Zenon DEF EnterWave
  <2>3. pc'[r] = "claim" /\ cst'[r] \in {"canary", "running"}
    BY <2>1, <2>2, SMTT(30) DEF Types, RunTypes
  <2> QED
    BY <2>1, <2>3, Zenon DEF Moves, Enters, Reads
<1>2. CASE ClaimWave(r)
  <2> DEFINE limit == MaxConcurrent - Working(copy[r])
  <2>w. Working(copy[r]) \in Nat
    <3>1. {t \in Hosts : copy[r][t] \in InFlight \union {"planning"}} \in SUBSET Hosts
      BY Zenon
    <3> QED
      BY <3>1, SomeHosts, Zenon DEF Working, Count
  <2>1. limit > 0 /\ limit \in Nat \ {0}
    <3>1. limit > 0
      BY <1>2, Zenon DEF ClaimWave
    <3> QED
      BY <3>1, <2>w, CampaignAssumption, SMTT(30)
  <2>2. /\ pc[r] = "claim" /\ pc' = [pc EXCEPT ![r] = "launch"] /\ UNCHANGED <<cst, cgate, copy, ts>>
    BY <1>2, Zenon DEF ClaimWave, copyVars
  <2>3. \E open \in SUBSET Hosts :
          LET first == {t \in open : Cardinality({u \in open : u < t}) < limit}
          IN  /\ \A t \in open : Wave(t) = CurrentWave(copy[r])
              /\ claimed' = [claimed EXCEPT ![r] = {t \in first : copy[r][t] \in Waiting \ {"queued_offline"}}]
    <3>1. \E ranOut \in SUBSET {t \in Hosts : claimedBy[t] # r} :
             LET open == {t \in Hosts :
                            /\ Wave(t) = CurrentWave(copy[r])
                            /\ ts[t] \in {"pending", "awaiting_budget"}
                            /\ claimedBy[t] = r \/ t \in ranOut}
                 first == {t \in open : Cardinality({u \in open : u < t}) < limit}
             IN claimed' = [claimed EXCEPT ![r] = {t \in first : copy[r][t] \in Waiting \ {"queued_offline"}}]
      BY <1>2, <2>1, Zenon DEF ClaimWave
    <3> QED
      BY <3>1, Zenon
  <2>4. PICK open \in SUBSET Hosts :
          LET first == {t \in open : Cardinality({u \in open : u < t}) < limit}
          IN  /\ \A t \in open : Wave(t) = CurrentWave(copy[r])
              /\ claimed' = [claimed EXCEPT ![r] = {t \in first : copy[r][t] \in Waiting \ {"queued_offline"}}]
    BY <2>3, Zenon
  <2> DEFINE first == {t \in open : Cardinality({u \in open : u < t}) < limit}
  <2>5. claimed'[r] \subseteq first
    BY <2>4, Zenon DEF Types, RunTypes
  <2>6. first \subseteq open /\ first \in SUBSET Hosts
    BY <2>4, Zenon
  <2>7. Cardinality(first) <= limit
    <3>1. \A t \in first : Cardinality({u \in open : u < t}) < limit
      BY Zenon
    <3> HIDE DEF limit, first
    <3> QED
      BY <2>1, <2>6, <3>1, FirstOf, Zenon
  <2> HIDE DEF first
  <2>8. Cardinality(claimed'[r]) <= Cardinality(first)
    BY <2>5, <2>6, SomeHosts, FS_Subset, Zenon
  <2>9. claimed'[r] \in SUBSET Hosts
    BY <2>5, <2>6, Zenon
  <2>10. Working(copy[r]) + Cardinality(claimed'[r]) <= MaxConcurrent
    <3>1. Cardinality(first) \in Nat /\ Cardinality(claimed'[r]) \in Nat
      BY <2>6, <2>9, SomeHosts, Zenon
    <3> QED
      BY <2>w, <2>7, <2>8, <3>1, CampaignAssumption, SMTT(30)
  <2>11. \A t \in claimed'[r] : Wave(t) = CurrentWave(copy[r])
    BY <2>4, <2>5, <2>6, Zenon
  <2>12. pc'[r] = "launch"
    BY <2>2, Zenon DEF Types, RunTypes
  <2> QED
    BY <2>2, <2>10, <2>11, <2>12, Zenon DEF Moves, Claims
<1>3. CASE LaunchHost(r)
  <2> DEFINE t == Min(claimed[r])
  <2>1. /\ pc[r] = "launch" /\ claimed[r] # {} /\ UNCHANGED <<pc, cst, cgate>>
        /\ claimed' = [claimed EXCEPT ![r] = @ \ {t}]
    BY <1>3, Zenon DEF LaunchHost
  <2>2. t \in claimed[r] /\ t \in Hosts
    <3>1. claimed[r] \in SUBSET Nat /\ claimed[r] \subseteq Hosts
      BY DEF Types, RunTypes, Hosts
    <3> QED
      BY <2>1, <3>1, LeastOf, Zenon
  <2>3. \/ Hold(r, t) \/ Unavailable(r, t) \/ Write(r, t, "awaiting_budget")
        \/ Settle(r, t, "failed") \/ Write(r, t, "dispatched")
    BY <1>3, Zenon DEF LaunchHost, Launch
  <2>4. copy' = copy \/ \E s \in TargetStates : Wrote(r, t, s)
    BY <2>3, Zenon DEF Hold, Unavailable, Settle, Write, CanWrite, Wrote, TargetStates, Unstarted,
           Waiting,
       InFlight, Finished
  <2>5. claimed'[r] = claimed[r] \ {t}
    BY <2>1, Zenon DEF Types, RunTypes
  <2> HIDE DEF t
  <2> QED
    BY <2>1, <2>2, <2>4, <2>5, Zenon DEF Moves, Launches
<1>4. CASE RenewRunner(r)
  <2>1. UNCHANGED <<pc, cst, cgate, copy, claimed, ts>> /\ pc[r] = "launch"
    BY <1>4, Zenon DEF RenewRunner, copyVars, passVars, targetVars
  <2> QED
    BY <2>1, Zenon DEF Moves, Launches
<1> QED
  BY <1>1, <1>2, <1>3, <1>4, SMTT(30)

(* Every step of a runner moves its pass in one of these ways.               *)
LEMMA StepMoves ==
  ASSUME Ready, NEW r \in Runners, PassStep(r) \/ RenewRunner(r) \/ PassFails(r) \/ Stop(r)
  PROVE  Moves(r)
<1>1. CASE EndPass(r)
  BY <1>1, EndPassMoves, Zenon DEF Ready
<1>2. CASE (Decide(r) \/ ServiceOffline(r)) /\ ~EndPass(r)
  <2>h. at[r] <= N => at[r] \in Hosts
    BY CampaignAssumption DEF Ready, Types, RunTypes, Hosts
  <2>1. CASE Decide(r)
    <3>1. GoTo(r, "offline") /\ pc[r] = "work" /\ copy' = copy
      BY <1>2, <2>1, Zenon DEF Decide
    <3>2. pc'[r] = "offline" /\ UNCHANGED <<cst, cgate, claimed>>
      BY <3>1, Zenon DEF GoTo, Ready, Types, RunTypes
    <3> QED
      BY <3>1, <3>2, Zenon DEF Moves, Goes, Reads, Kept
  <2>2. CASE ServiceOffline(r)
    <3>1. NextHost(r) /\ pc[r] = "offline" /\ at[r] \in Hosts
      BY <1>2, <2>2, <2>h, Zenon DEF ServiceOffline
    <3>2. \/ copy' = copy \/ Settle(r, at[r], "skipped") \/ Unavailable(r, at[r])
          \/ Write(r, at[r], "pending") \/ Write(r, at[r], "planning") \/ Settle(r, at[r], "failed")
      BY <1>2, <2>2, Zenon DEF ServiceOffline, Launch
    <3>3. {"skipped", "pending", "planning", "failed"} \subseteq TargetStates
      BY Zenon DEF TargetStates, Unstarted, Waiting, Finished
    <3>4. Kept(r)
      BY <3>1, <3>2, <3>3, SettleKeeps, HoldKeeps, Zenon DEF Kept
    <3> QED
      BY <3>1, <3>4, NextHostMoves, Zenon DEF Ready
  <2> QED
    BY <1>2, <2>1, <2>2, SMTT(30)
<1>3. pc[r] = "submitted" => at[r] \in Hosts
  BY Zenon DEF Ready, Places, Place
<1> QED
  BY <1>1, <1>2, <1>3, HeadMoves, PlanMoves, WorkMoves, WaveMoves, Zenon
     DEF PassStep, WaveIsOut, PassFails, Stop,
     Ready

-----------------------------------------------------------------------------
(* What a step of a pass makes of the campaign.                             *)
LEMMA CountIsZero ==
  ASSUME NEW S, NEW f
  PROVE  /\ Count(S, f) \in Nat
         /\ Count(S, f) = 0 <=> \A t \in Hosts : f[t] \notin S
<1> DEFINE T == {t \in Hosts : f[t] \in S}
<1>1. IsFiniteSet(T)
  BY SomeHosts, Zenon
<1>2. T = {} <=> \A t \in Hosts : f[t] \notin S
  BY Zenon
<1>3. Count(S, f) = Cardinality(T)
  BY Zenon DEF Count
<1> HIDE DEF T
<1> QED
  BY <1>1, <1>2, <1>3, FS_CardinalityType, FS_EmptySet, Zenon

(* A campaign is said to be completed only when no host of the copy failed.  *)
LEMMA CompletedSays ==
  ASSUME NEW f
  PROVE  /\ Completed(f) \in {"failed", "completed_with_issues", "completed"}
         /\ Completed(f) = "completed" => \A t \in Hosts : f[t] \notin {"failed", "unknown"}
<1>1. Failures(f) \in Nat /\ Successes(f) \in Nat
  BY CountIsZero, Zenon DEF Failures, Successes
<1>2. Failures(f) = 0 => \A t \in Hosts : f[t] \notin {"failed", "unknown"}
  BY CountIsZero, Zenon DEF Failures
<1> HIDE DEF Failures, Successes
<1> QED
  BY <1>1, <1>2 DEF Completed

(* Where a pass says the campaign is over, its hosts of the copy are.       *)
Concludes(r) ==
    /\ UNCHANGED ts /\ runner = r /\ cstate = cst[r] /\ MayBecome(cstate, cstate')
    /\ cstate' \in {"completed", "completed_with_issues", "failed"}
          => \A t \in Hosts : copy[r][t] \in Finished
    /\ cstate' = "completed" => \A t \in Hosts : copy[r][t] \notin {"failed", "unknown"}
    /\ cstate' = "canceled" => pc[r] \in Reads /\ \A t \in Hosts : copy[r][t] \notin InFlight
Moved(r) ==
    \/ UNCHANGED cstate
    \/ UNCHANGED ts /\ cstate = "planning" /\ cstate' \in {"awaiting_approval", "planned"}
    \/ Concludes(r)

LEMMA SetStateMoves ==
  ASSUME NEW r \in Runners, NEW to, SetState(r, to), UNCHANGED ts,
         to \notin {"completed", "completed_with_issues", "failed", "canceled"}
  PROVE  Moved(r)
BY Zenon DEF SetState, CanSetState, Moved, Concludes

(* complete ends the campaign on the word of the copy.                       *)
LEMMA CompletionMoves ==
  ASSUME NEW r \in Runners, SetState(r, Completed(copy[r])), UNCHANGED ts,
         \A t \in Hosts : copy[r][t] \in Finished
  PROVE  Moved(r)
<1>1. CASE cstate' = cstate
  BY <1>1, Zenon DEF Moved
<1>2. CASE cstate' # cstate
  <2>1. CanSetState(r, cstate') /\ cstate' = Completed(copy[r])
    BY <1>2, Zenon DEF SetState
  <2>2. cstate' # "canceled"
    BY <2>1, CompletedSays, Zenon
  <2> QED
    BY <2>1, <2>2, CompletedSays, Zenon DEF CanSetState, Moved, Concludes
<1> QED
  BY <1>1, <1>2, Zenon

(* What a pass decides after it has seen its hosts (drain, complete, enterGate). *)
LEMMA DecideMoves ==
  ASSUME NEW r \in Runners, Decide(r)
  PROVE  Moved(r)
<1> DEFINE f == copy[r]
           over == \A t \in Hosts : f[t] \in Finished
           drained == Count(InFlight, f) = 0
<1>1. ts' = ts /\ pc[r] = "work"
  BY Zenon DEF Decide, targetVars
<1>2. CASE cst[r] = "canceling" /\ drained /\ SetState(r, "canceled")
  <2>1. \A t \in Hosts : f[t] \notin InFlight
    BY <1>2, CountIsZero, Zenon
  <2>2. cstate' = cstate \/ (CanSetState(r, "canceled") /\ cstate' = "canceled")
    BY <1>2, Zenon DEF SetState
  <2> QED
    BY <1>1, <2>1, <2>2, Zenon DEF CanSetState, Moved, Concludes, Reads
<1>3. CASE SetState(r, "paused") \/ SetState(r, PauseState(f))
  BY <1>1, <1>3, SetStateMoves, Zenon DEF PauseState
<1>4. CASE over /\ SetState(r, Completed(f))
  BY <1>1, <1>4, CompletionMoves, Zenon
<1>5. CASE UNCHANGED campaignVars
  BY <1>5, Zenon DEF campaignVars, Moved
<1> QED
  BY <1>2, <1>3, <1>4, <1>5, Zenon DEF Decide

(* How a step of a runner moves the campaign itself.                         *)
LEMMA StepMovesCampaign ==
  ASSUME NEW r \in Runners, PassStep(r) \/ RenewRunner(r) \/ PassFails(r) \/ Stop(r)
  PROVE  Moved(r)
<1>0. CASE UNCHANGED campaignVars
  BY <1>0, Zenon DEF campaignVars, Moved
<1>1. CASE Expire(r) /\ ~UNCHANGED campaignVars
  <2>1. SetState(r, "expired") /\ ts' = ts
    BY <1>1, Zenon DEF Expire
  <2> QED
    BY <2>1, SetStateMoves, Zenon
<1>2. CASE FinishPlanning(r) /\ ~UNCHANGED campaignVars
  <2>1. ts' = ts
    BY <1>2, Zenon DEF FinishPlanning, targetVars
  <2>2. CASE SetState(r, "plan_failed")
    BY <2>1, <2>2, SetStateMoves, Zenon
  <2>3. CASE SetState(r, Completed(copy[r])) /\ \A t \in Hosts : copy[r][t] \in Finished
    BY <2>1, <2>3, CompletionMoves, Zenon
  <2>4. CASE cstate' = IF cstate # "planning" THEN cstate
                       ELSE IF order.approval THEN "awaiting_approval" ELSE "planned"
    BY <2>1, <2>4, Zenon DEF Moved
  <2> QED
    BY <1>2, <2>2, <2>3, <2>4, Zenon DEF FinishPlanning
<1>3. CASE EnterWave(r) /\ ~UNCHANGED campaignVars
  <2>1. ts' = ts
    BY <1>3, Zenon DEF EnterWave, targetVars
  <2>2. \E to \in {"manual_gate", "canary", "running"} : SetState(r, to)
    BY <1>3, Zenon DEF EnterWave
  <2> QED
    BY <2>1, <2>2, SetStateMoves, Zenon
<1>4. CASE LaunchHost(r) /\ ~UNCHANGED campaignVars
  <2>1. ts' = ts /\ SetState(r, PauseState(copy[r]))
    BY <1>4, Zenon DEF LaunchHost
  <2> QED
    BY <2>1, SetStateMoves, Zenon DEF PauseState
<1>5. CASE List(r) \/ ClaimRunner(r) \/ AdoptTargets(r) \/ ReadTargets(r) \/ WaveIsOut(r)
  BY <1>0, <1>5, ZenonT(30) DEF List, ClaimRunner, AdoptTargets, ReadTargets, WaveIsOut
<1>6. CASE OrderPlan(r) \/ RecheckOffline(r) \/ CollectPlan(r) \/ PlanNothing(r)
  BY <1>0, <1>6, Zenon DEF OrderPlan, RecheckOffline, CollectPlan, PlanNothing
<1>7. CASE AfterMainJob(r) \/ StartStep(r) \/ AfterReboot(r) \/ AfterHealthCheck(r) \/ AfterReplan(r)
  BY <1>0, <1>7, Zenon DEF AfterMainJob, StartStep, AfterReboot, AfterHealthCheck, AfterReplan
<1>8. CASE ServiceOffline(r) \/ ClaimWave(r) \/ RenewRunner(r) \/ PassFails(r) \/ Stop(r)
  BY <1>0, <1>8, Zenon DEF ServiceOffline, ClaimWave, RenewRunner, PassFails, Stop
<1> QED
  BY <1>0, <1>1, <1>2, <1>3, <1>4, <1>5, <1>6, <1>7, <1>8, DecideMoves, Zenon DEF PassStep

(* What the operators make of it.                                           *)
LEMMA OutsideMovesCampaign ==
  ASSUME Types,
         Operator \/ DeadlinePasses \/ PlansAge \/ LeaseLapses \/ UNCHANGED vars \/ \E t \in Hosts : HostStep(t)
  PROVE  /\ order' = order /\ (gateAdvanced => gateAdvanced') /\ runner' = runner
         /\ \/ UNCHANGED cstate /\ (UNCHANGED ts \/ SkipTarget)
            \/ Cancel
            \/ /\ UNCHANGED ts /\ cstate \notin Terminal \union {"canceling"}
               /\ cstate' \in {"planned", "paused", "pausing", "running"}
<1>1. CASE Approve \/ PauseReads \/ Resume \/ Advance
  BY <1>1 DEF Approve, PauseReads, Resume, Advance, Terminal, leaseVars, targetVars
<1>2. CASE Pause
  <2>1. pauseRead \in {"paused", "pausing"}
    BY <1>2, Zenon DEF Pause, Types, CampaignTypes
  <2> QED
    BY <1>2, <2>1, Zenon DEF Pause, Terminal, Pausable, leaseVars, targetVars
<1>3. CASE Cancel
  BY <1>3, Zenon DEF Cancel, leaseVars
<1>4. CASE SkipTarget
  BY <1>4, Zenon DEF SkipTarget, campaignVars, leaseVars
<1>5. CASE DeadlinePasses \/ PlansAge \/ LeaseLapses \/ UNCHANGED vars
  BY <1>5 DEF DeadlinePasses, PlansAge, LeaseLapses, vars, campaignVars, leaseVars, targetVars
<1>6. ASSUME NEW t \in Hosts, HostStep(t) PROVE UNCHANGED <<campaignVars, leaseVars, targetVars>>
  BY <1>6, Zenon DEF HostStep, Lease, HandOver, LeaseReturns, TaskExpires, TaskEnds, TaskStops,
         HostMoves,
     HostIsBack, RebootIsLate
<1> QED
  BY <1>1, <1>2, <1>3, <1>4, <1>5, <1>6, Zenon DEF Operator, campaignVars, leaseVars, targetVars

-----------------------------------------------------------------------------
(* How rows move: nobody goes back to before the start, and only a start    *)
(* puts a host in flight.                                                   *)
LEMMA WrittenRow ==
  ASSUME Types, NEW r \in Runners, NEW t \in Hosts, NEW s \in TargetStates, Wrote(r, t, s), NEW u \in Hosts
  PROVE  /\ ts'[u] = (IF u = t THEN s ELSE ts[u])
         /\ copy'[r][u] = (IF u = t THEN s ELSE copy[r][u])
         /\ \A q \in Runners : q # r => copy'[q] = copy[q]
BY Zenon DEF Wrote, Types, RowTypes

LEMMA KindOfRow ==
  ASSUME Types, NEW r \in Runners, Kind(r)
  PROVE  \/ Quiet(r) \/ FollowsUp(r)
         \/ /\ cstate' = cstate
            /\ \E t \in Hosts, s \in TargetStates :
                 Wrote(r, t, s) /\ (Fits(t, s) \/ (s = "planning" /\ ts[t] \in Unstarted))
         \/ /\ Starts(r) /\ cstate' = cstate
            /\ \E t \in claimed[r] : t \in Hosts /\ Wrote(r, t, "dispatched") /\ ts[t] \in {"pending", "awaiting_budget"}
<1>1. "planning" \in TargetStates /\ claimed[r] \subseteq Hosts
  BY Zenon DEF TargetStates, Unstarted, Types, RunTypes
<1> QED
  BY <1>1, Zenon DEF Kind, Writes, Plans, Starts

(* A step of a runner leaves the copies of the others alone.                 *)
LEMMA OthersKeepCopies ==
  ASSUME Types, NEW r \in Runners, Kind(r), NEW q \in Runners, q # r
  PROVE  copy'[q] = copy[q]
BY Zenon DEF Kind, Quiet, FollowsUp, Writes, Plans, Starts, Wrote, Types, RowTypes

(* Only the start of a claimed host puts one in flight.                      *)
LEMMA StartsFly ==
  ASSUME Types, NEW r \in Runners, Kind(r), NEW u \in Hosts, ts'[u] \in InFlight, ts[u] \notin InFlight
  PROVE  Starts(r) /\ u \in claimed[r] /\ copy'[r][u] = ts'[u]
<1>1. ~Quiet(r) /\ ~FollowsUp(r)
  BY Zenon DEF Quiet, FollowsUp
<1>2. ASSUME NEW t \in Hosts, NEW s \in TargetStates, Wrote(r, t, s),
             Fits(t, s) \/ (s = "planning" /\ ts[t] \in Unstarted)
      PROVE  FALSE
  <2>1. u = t /\ s \in InFlight
    BY <1>2, WrittenRow, SMTT(30)
  <2> QED
    BY <1>2, <2>1, Zenon DEF Fits, InFlight, Unstarted, Waiting
<1>3. ASSUME NEW t \in claimed[r], t \in Hosts, Wrote(r, t, "dispatched")
      PROVE  u = t /\ copy'[r][u] = ts'[u]
  <2>1. "dispatched" \in TargetStates
    BY Zenon DEF TargetStates, InFlight
  <2> QED
    BY <1>3, <2>1, WrittenRow, SMTT(30)
<1> QED
  BY <1>1, <1>2, <1>3, KindOfRow, Zenon

LEMMA MayBecomeUnstarted ==
  ASSUME NEW s, NEW to \in Unstarted, TargetMayBecome(s, to)
  PROVE  s \in Unstarted
BY Zenon DEF TargetMayBecome, Unstarted, Waiting, Finished

(* No host becomes unstarted again.                                          *)
LEMMA NoneGoesBack ==
  ASSUME Types, NEW r \in Runners, Kind(r), NEW u \in Hosts, ts'[u] \in Unstarted
  PROVE  ts[u] \in Unstarted
<1>1. ASSUME NEW t \in Hosts, NEW s \in TargetStates, Wrote(r, t, s) PROVE ts[u] \in Unstarted
  <2>1. TargetMayBecome(ts[t], s)
    BY <1>1, Zenon DEF Wrote
  <2>2. ts'[u] = (IF u = t THEN s ELSE ts[u])
    BY <1>1, WrittenRow, SMTT(30)
  <2> QED
    BY <2>1, <2>2, MayBecomeUnstarted, Zenon
<1>2. CASE Quiet(r) \/ FollowsUp(r)
  BY <1>2, Zenon DEF Quiet, FollowsUp
<1>3. "dispatched" \in TargetStates
  BY Zenon DEF TargetStates, InFlight
<1> QED
  BY <1>1, <1>2, <1>3, KindOfRow, Zenon

(* A copy that a pass keeps does not go back either.                        *)
LEMMA KeptGoesOn ==
  ASSUME Types, NEW r \in Runners, Kept(r), NEW u \in Hosts
  PROVE  /\ copy'[r][u] \in Unstarted => copy[r][u] \in Unstarted
         /\ copy[r][u] \in Finished => copy'[r][u] = copy[r][u]
<1>1. CASE copy' = copy
  BY <1>1, Zenon
<1>2. ASSUME NEW t \in Hosts, NEW s \in TargetStates, Wrote(r, t, s)
      PROVE  /\ copy'[r][u] \in Unstarted => copy[r][u] \in Unstarted
             /\ copy[r][u] \in Finished => copy'[r][u] = copy[r][u]
  <2>1. TargetMayBecome(ts[t], s) /\ copy[r][t] = ts[t] /\ ts[t] \notin Finished
    BY <1>2, Zenon DEF Wrote, TargetMayBecome
  <2>2. copy'[r][u] = (IF u = t THEN s ELSE copy[r][u])
    BY <1>2, WrittenRow
  <2> QED
    BY <2>1, <2>2, MayBecomeUnstarted, SMTT(30)
<1> QED
  BY <1>1, <1>2, Zenon DEF Kept

(* What happens outside the passes only settles hosts.                       *)
LEMMA OutsideRow ==
  ASSUME Types, NEW u \in Hosts, UNCHANGED ts \/ Cancel \/ SkipTarget
  PROVE  ts'[u] = ts[u] \/ (ts[u] \notin Finished /\ ts'[u] \in {"canceled", "skipped"})
<1>1. CASE Cancel
  BY <1>1, Zenon DEF Cancel, Unstarted, Waiting, Finished
<1>2. CASE SkipTarget
  BY <1>2, Zenon DEF SkipTarget, Types, RowTypes, Finished
<1> QED
  BY <1>1, <1>2, Zenon

-----------------------------------------------------------------------------
(* The gate: a pass that knows it open, that has entered a wave behind it   *)
(* or that has claimed hosts of one, has somebody's word.                   *)
Gates(r) ==
    /\ cgate[r] => gateAdvanced
    /\ order.gate /\ pc[r] = "claim" /\ CurrentWave(copy[r]) > 0 => gateAdvanced
    /\ order.gate => \A t \in claimed[r] : Wave(t) > 0 => gateAdvanced

(* The waves are fixed by the order, the current one by the copy.            *)
LEMMA WavesStand ==
  ASSUME order' = order
  PROVE  /\ \A t : Wave(t)' = Wave(t)
         /\ \A q \in Runners : copy'[q] = copy[q] => CurrentWave(copy[q])' = CurrentWave(copy[q])
                                                  /\ HeldWaves(copy[q])' = HeldWaves(copy[q])
         /\ \A t : Barrier(t)' = Barrier(t)
<1>1. \A t : Wave(t)' = Wave(t)
  BY Zenon DEF Wave
<1>2. ASSUME NEW q \in Runners, copy'[q] = copy[q] PROVE HeldWaves(copy[q])' = HeldWaves(copy[q])
  BY <1>2, <1>1, Zenon DEF HeldWaves, HoldsWave, Wave
<1>3. ASSUME NEW q \in Runners, copy'[q] = copy[q] PROVE CurrentWave(copy[q])' = CurrentWave(copy[q])
  BY <1>2, <1>3, Zenon DEF CurrentWave
<1>4. \A t : Barrier(t)' = Barrier(t)
  BY Zenon DEF Barrier, Wave
<1> QED
  BY <1>1, <1>2, <1>3, <1>4, Zenon

(* What a pass knows of the gate stands while the others move.               *)
LEMMA GatesStand ==
  ASSUME NEW q \in Runners, Gates(q), order' = order, gateAdvanced => gateAdvanced', pc'[q] = pc[q],
         cgate'[q] = cgate[q], claimed'[q] = claimed[q], copy'[q] = copy[q]
  PROVE  Gates(q)'
<1>1. cgate'[q] => gateAdvanced'
  BY Zenon DEF Gates
<1>2. order'.gate /\ pc'[q] = "claim" /\ CurrentWave(copy[q])' > 0 => gateAdvanced'
  BY WavesStand, Zenon DEF Gates
<1>3. order'.gate => \A t \in claimed'[q] : Wave(t)' > 0 => gateAdvanced'
  BY WavesStand, Zenon DEF Gates
<1> QED
  BY <1>1, <1>2, <1>3, Zenon DEF Gates

(* No pass takes a gate for open that is not.                                *)
LEMMA StepKeepsGates ==
  ASSUME Types, NEW r \in Runners, Gates(r), Moves(r), UNCHANGED <<order, gateAdvanced>>
  PROVE  Gates(r)'
<1>1. cgate'[r] => gateAdvanced'
  BY Zenon DEF Moves, Idles, Lists, Goes, Enters, Claims, Launches, Gates
<1>2. ASSUME order.gate, pc'[r] = "claim", CurrentWave(copy[r])' > 0 PROVE gateAdvanced'
  <2>1. Enters(r)
    BY <1>2, Zenon DEF Moves, Idles, Lists, Goes, Enters, Claims, Launches
  <2>2. CurrentWave(copy[r]) > 0 /\ ~Gate(r, CurrentWave(copy[r]))
    BY <1>2, <2>1, WavesStand, Zenon DEF Enters
  <2>3. cgate[r]
    BY <1>2, <2>2, Zenon DEF Gate
  <2> QED
    BY <2>3, Zenon DEF Gates
<1>3. ASSUME order.gate, NEW t \in claimed'[r], Wave(t)' > 0 PROVE gateAdvanced'
  <2>1. Wave(t) > 0
    BY <1>3, WavesStand, Zenon
  <2>2. CASE Claims(r)
    BY <1>3, <2>1, <2>2, Zenon DEF Claims, Gates
  <2>3. CASE ~Claims(r)
    <3>1. t \in claimed[r]
      BY <1>3, <2>3, Zenon DEF Moves, Idles, Lists, Goes, Enters, Launches
    <3> QED
      BY <1>3, <2>1, <3>1, Zenon DEF Gates
  <2> QED
    BY <2>2, <2>3, Zenon
<1> QED
  BY <1>1, <1>2, <1>3, Zenon DEF Gates

(* So no step starts a host behind a closed gate.                            *)
LEMMA StepHonoursTheGate ==
  ASSUME Types, GateIsHonoured, NEW r \in Runners, Gates(r), Kind(r)
  PROVE  GateIsHonoured'
<1> SUFFICES ASSUME order'.gate, NEW t \in Hosts, Wave(t)' > 0, ts'[t] \in InFlight
             PROVE  gateAdvanced'
  BY Zenon DEF GateIsHonoured
<1>1. order' = order /\ gateAdvanced' = gateAdvanced
  BY Zenon DEF Kind
<1>2. Wave(t) > 0 /\ order.gate
  BY <1>1, WavesStand, Zenon
<1>3. CASE ts[t] \in InFlight
  BY <1>1, <1>2, <1>3, Zenon DEF GateIsHonoured
<1>4. CASE ts[t] \notin InFlight
  BY <1>1, <1>2, <1>4, StartsFly, Zenon DEF Gates
<1> QED
  BY <1>3, <1>4, Zenon

-----------------------------------------------------------------------------
(* The end: a campaign that is canceled has nobody left to start, in the    *)
(* rows and in what a pass of it reads.                                     *)
Canceling == {"canceling", "canceled"}
Ended == cstate \in Canceling => \A t \in Hosts : ts[t] \notin Unstarted
Ending(r) ==
    cst[r] = "canceling" => /\ cstate \in Canceling
                            /\ pc[r] \in Reads => \A t \in Hosts : copy[r][t] \notin Unstarted

LEMMA WhatMovesEnd ==
  ASSUME NEW r \in Runners, Moved(r)
  PROVE  /\ cstate' \in Canceling <=> cstate \in Canceling
         /\ cstate \in Terminal => cstate' = cstate
<1>1. CASE Concludes(r)
  BY <1>1, Zenon DEF Concludes, MayBecome, Canceling, Terminal, Launching, Pausable
<1>2. CASE cstate = "planning" /\ cstate' \in {"awaiting_approval", "planned"}
  BY <1>2, Zenon DEF Canceling, Terminal
<1> QED
  BY <1>1, <1>2, Zenon DEF Moved

(* A pass that drains a canceled campaign knows no unstarted host.           *)
LEMMA StepKeepsEnding ==
  ASSUME Types, NEW r \in Runners, Ended, Ending(r), Kind(r), Moves(r), Moved(r)
  PROVE  Ended' /\ Ending(r)'
<1>1. cstate' \in Canceling <=> cstate \in Canceling
  BY WhatMovesEnd, Zenon
<1>2. Ended'
  BY <1>1, NoneGoesBack, Zenon DEF Ended
<1>3. ASSUME cst'[r] = "canceling" PROVE cstate' \in Canceling
  <2>1. cst[r] = "canceling" \/ (cst'[r] = cstate)
    BY <1>3, Zenon DEF Moves, Idles, Lists, Goes, Enters, Claims, Launches
  <2> QED
    BY <1>1, <1>3, <2>1, Zenon DEF Ending, Canceling
<1>4. ASSUME cst'[r] = "canceling", pc'[r] \in Reads, NEW t \in Hosts PROVE copy'[r][t] \notin Unstarted
  <2>1. ~Idles(r) /\ ~Lists(r) /\ ~Enters(r) /\ cst[r] = "canceling"
    BY <1>4, Zenon DEF Idles, Lists, Enters, Reads, Moves, Goes, Claims, Launches
  <2>2. CASE copy'[r] = ts /\ ts' = ts
    BY <1>1, <1>3, <1>4, <2>2, Zenon DEF Ended
  <2>3. CASE pc[r] \in Reads /\ Kept(r)
    BY <1>4, <2>1, <2>3, KeptGoesOn, Zenon DEF Ending
  <2>4. Launches(r) \/ Claims(r) => pc[r] \in Reads /\ Kept(r)
    <3>1. claimed[r] \subseteq Hosts
      BY Zenon DEF Types, RunTypes
    <3> QED
      BY <3>1, Zenon DEF Launches, Claims, Reads, Kept
  <2>5. Goes(r) => (pc[r] \in Reads /\ Kept(r)) \/ (copy'[r] = ts /\ ts' = ts)
    BY <1>4, Zenon DEF Goes, Reads
  <2> QED
    BY <2>1, <2>2, <2>3, <2>4, <2>5, Zenon DEF Moves
<1> QED
  BY <1>2, <1>3, <1>4, Zenon DEF Ending

(* A step ends the campaign only when its hosts have ended.                  *)
LEMMA StepEndsWithTheHosts ==
  ASSUME Types, Copies, NEW r \in Runners, EndIsTheHostsEnd, Ending(r), Kind(r), Moved(r), Copies'
  PROVE  EndIsTheHostsEnd'
<1>1. CASE cstate' = cstate
  <2>1. ASSUME NEW t \in Hosts, ts[t] \in Finished PROVE ts'[t] = ts[t]
    <3>1. ASSUME NEW u \in Hosts, NEW s \in TargetStates, Wrote(r, u, s) PROVE ts'[t] = ts[t]
      <4>1. ts[u] \notin Finished
        BY <3>1, Zenon DEF Wrote, TargetMayBecome
      <4> QED
        BY <2>1, <3>1, <4>1, WrittenRow, Zenon
    <3>2. "dispatched" \in TargetStates
      BY Zenon DEF TargetStates, InFlight
    <3> QED
      BY <3>1, <3>2, KindOfRow, Zenon DEF Quiet, FollowsUp
  <2> QED
    BY <1>1, <2>1, Zenon DEF EndIsTheHostsEnd
<1>2. CASE cstate = "planning" /\ cstate' \in {"awaiting_approval", "planned"}
  BY <1>2, Zenon DEF EndIsTheHostsEnd
<1>3. CASE Concludes(r)
  <2>1. CASE \A t \in Hosts : copy[r][t] \in Finished
    <3>1. \A t \in Hosts : ts'[t] = copy[r][t]
      BY <1>3, <2>1, Zenon DEF Copies, Concludes
    <3> QED
      BY <1>3, <2>1, <3>1, Zenon DEF Concludes, EndIsTheHostsEnd
  <2>2. CASE cstate' = "canceled"
    <3>1. cst[r] = "canceling" /\ pc[r] \in Reads /\ \A t \in Hosts : copy[r][t] \notin InFlight
      BY <1>3, <2>2, Zenon DEF Concludes, MayBecome
    <3>2. \A t \in Hosts : copy[r][t] \in TargetStates /\ copy[r][t] \notin Unstarted
      BY <3>1, Zenon DEF Ending, Types, RowTypes
    <3>3. \A t \in Hosts : copy[r][t] \in Finished
      BY <3>1, <3>2, Zenon DEF TargetStates
    <3> QED
      BY <2>1, <3>3, Zenon
  <2>3. CASE cstate' \notin {"completed", "completed_with_issues", "failed", "canceled"}
    BY <2>3, Zenon DEF EndIsTheHostsEnd
  <2> QED
    BY <1>3, <2>1, <2>2, <2>3, Zenon DEF Concludes
<1> QED
  BY <1>1, <1>2, <1>3, Zenon DEF Moved

(* Cancel, and the other orders.                                            *)
LEMMA CancelEnds ==
  ASSUME Types, Cancel
  PROVE  /\ cstate \notin Terminal /\ cstate' \in Canceling
         /\ \A t \in Hosts : ts'[t] \notin Unstarted
         /\ cstate' = "canceled" => \A t \in Hosts : ts'[t] \in Finished
<1>1. ASSUME NEW t \in Hosts PROVE ts'[t] \notin Unstarted /\ ts'[t] \in TargetStates
  <2>1. ts'[t] = "canceled" \/ (ts'[t] = ts[t] /\ ts[t] \notin Unstarted)
    BY Zenon DEF Cancel
  <2> QED
    BY <2>1, Zenon DEF Types, RowTypes, TargetStates, Finished, Unstarted, Waiting
<1>2. cstate' = (IF Count(InFlight, ts') > 0 THEN "canceling" ELSE "canceled") /\ cstate \notin Terminal
  BY Zenon DEF Cancel
<1>3. cstate' = "canceled" => \A t \in Hosts : ts'[t] \notin InFlight
  BY <1>2, CountIsZero, SMTT(30)
<1> QED
  BY <1>1, <1>2, <1>3, Zenon DEF Canceling, TargetStates

(* So do the orders of operators.                                            *)
LEMMA OutsideKeepsEnding ==
  ASSUME Types, Ended, EndIsTheHostsEnd, UNCHANGED <<copyVars, passVars>>,
         \/ UNCHANGED cstate /\ (UNCHANGED ts \/ SkipTarget)
         \/ Cancel
         \/ /\ UNCHANGED ts /\ cstate \notin Terminal \union {"canceling"}
            /\ cstate' \in {"planned", "paused", "pausing", "running"}
  PROVE  /\ Ended' /\ EndIsTheHostsEnd' /\ (cstate \in Terminal => cstate' = cstate)
         /\ \A r \in Runners : Ending(r) => Ending(r)'
<1>1. UNCHANGED <<copy, pc, cst>>
  BY Zenon DEF copyVars, passVars
<1>2. CASE UNCHANGED cstate /\ (UNCHANGED ts \/ SkipTarget)
  <2>1. \A t \in Hosts : ts'[t] = ts[t] \/ (ts[t] \notin Finished /\ ts'[t] \in {"canceled", "skipped"})
    BY <1>2, OutsideRow, Zenon
  <2>2. Ended'
    BY <1>2, <2>1, Zenon DEF Ended, Unstarted, Waiting
  <2>3. EndIsTheHostsEnd'
    BY <1>2, <2>1, Zenon DEF EndIsTheHostsEnd, Finished
  <2> QED
    BY <1>1, <1>2, <2>2, <2>3, Zenon DEF Ending
<1>3. CASE Cancel
  <2>1. Ended' /\ EndIsTheHostsEnd'
    BY <1>3, CancelEnds, Zenon DEF Ended, EndIsTheHostsEnd, Canceling
  <2> QED
    BY <1>1, <1>3, <2>1, CancelEnds, Zenon DEF Ending
<1>4. CASE /\ UNCHANGED ts /\ cstate \notin Terminal \union {"canceling"}
           /\ cstate' \in {"planned", "paused", "pausing", "running"}
  BY <1>1, <1>4, Zenon DEF Ended, EndIsTheHostsEnd, Ending, Canceling, Terminal
<1> QED
  BY <1>2, <1>3, <1>4, Zenon

-----------------------------------------------------------------------------
(* The room of a wave: the runner with the lease knows every host in        *)
(* flight; those it has claimed fit beside them, and the waves before are   *)
(* settled.                                                                 *)
Room(r) ==
    /\ runner = r /\ pc[r] \in Reads => Flying(ts) \subseteq Flying(copy[r])
    /\ pc[r] = "claim" => HeldWaves(copy[r]) # {}
    /\ pc[r] = "launch" =>
         /\ Cardinality(Flying(copy[r])) + Cardinality(claimed[r]) <= MaxConcurrent
         /\ \A t \in claimed[r], u \in Hosts : Barrier(u) < Barrier(t) => copy[r][u] \in Finished

(* Hosts that are away are there only where they are waited for.            *)
NoneAway == order.offline = "skip" =>
    \A t \in Hosts : ts[t] # "queued_offline" /\ \A r \in Runners : copy[r][t] # "queued_offline"

(* Where offline hosts are skipped none is queued for its return.            *)
LEMMA StepSkipsTheAway ==
  ASSUME Types, NoneAway, NEW r \in Runners, Kind(r)
  PROVE  NoneAway'
<1> SUFFICES ASSUME order.offline = "skip", NEW t \in Hosts, NEW q \in Runners
             PROVE  ts'[t] # "queued_offline" /\ copy'[q][t] # "queued_offline"
  <2>1. order' = order
    BY Zenon DEF Kind
  <2> QED
    BY <2>1 DEF NoneAway
<1>1. ts[t] # "queued_offline" /\ copy[q][t] # "queued_offline"
  BY Zenon DEF NoneAway
<1>2. CASE Quiet(r) \/ FollowsUp(r)
  BY <1>1, <1>2, Zenon DEF Quiet, FollowsUp, Types, RowTypes
<1>3. ASSUME NEW u \in Hosts, NEW s \in TargetStates, Wrote(r, u, s), s # "queued_offline"
      PROVE  ts'[t] # "queued_offline" /\ copy'[q][t] # "queued_offline"
  BY <1>1, <1>3, WrittenRow, SMTT(30)
<1>4. ASSUME NEW u \in Hosts, NEW s \in TargetStates, Fits(u, s) PROVE s # "queued_offline"
  BY <1>4, Zenon DEF Fits
<1>5. "dispatched" \in TargetStates
  BY Zenon DEF TargetStates, InFlight
<1> QED
  BY <1>2, <1>3, <1>4, <1>5, KindOfRow, Zenon

LEMMA WaveIsNat ==
  ASSUME Types, NEW t \in Hosts
  PROVE  Wave(t) \in Nat
<1>1. order.canary \in Nat /\ WaveSize \in Nat \ {0} /\ t \in Nat
  BY CampaignAssumption DEF Types, CampaignTypes, Order, Hosts
<1>2. ASSUME NEW k \in Nat PROVE k \div WaveSize \in Nat
  BY <1>1
<1>3. ~(t <= order.canary) => t - 1 - order.canary \in Nat
  BY <1>1
<1> QED
  BY <1>1, <1>2, <1>3, SMTT(30) DEF Wave

(* What the pass copied of an earlier wave has settled.                     *)
LEMMA EarlierWaves ==
  ASSUME Types, NoneAway, NEW r \in Runners, HeldWaves(copy[r]) # {}, NEW t \in Hosts, NEW u \in Hosts,
         Wave(t) = CurrentWave(copy[r]), Barrier(u) < Barrier(t)
  PROVE  copy[r][u] \in Finished
<1>1. Wave(t) \in Nat /\ Wave(u) \in Nat
  BY WaveIsNat, Zenon
<1>2. Wave(u) < Wave(t) /\ (Wave(u) # 0 => order.offline = "skip")
  BY <1>1, SMTT(30) DEF Barrier
<1>3. HeldWaves(copy[r]) \in SUBSET Nat
  BY WaveIsNat, Zenon DEF HeldWaves
<1>4. Wave(u) \notin HeldWaves(copy[r])
  BY <1>1, <1>2, <1>3, LeastOf, SMTT(30) DEF CurrentWave
<1>5. ~HoldsWave(u, copy[r][u])
  BY <1>4, Zenon DEF HeldWaves
<1>6. copy[r][u] = "queued_offline" => order.offline # "skip"
  BY Zenon DEF NoneAway
<1> QED
  BY <1>2, <1>5, <1>6, Zenon DEF HoldsWave

LEMMA FlyingIsFinite ==
  ASSUME NEW f
  PROVE  IsFiniteSet(Flying(f)) /\ Cardinality(Flying(f)) \in Nat
<1>1. Flying(f) \subseteq Hosts
  BY Zenon DEF Flying
<1>2. IsFiniteSet(Flying(f))
  BY <1>1, SomeHosts, Zenon
<1> QED
  BY <1>2, FS_CardinalityType, Zenon

(* The runner with the lease goes on to know who is in flight.              *)
LEMMA StepKnowsTheFlying ==
  ASSUME Types, NEW r \in Runners, Kind(r), Moves(r),
         pc[r] \in Reads => Flying(ts) \subseteq Flying(copy[r]), pc'[r] \in Reads
  PROVE  Flying(ts') \subseteq Flying(copy'[r])
<1>1. CASE copy'[r] = ts /\ ts' = ts
  BY <1>1, Zenon
<1>2. CASE pc[r] \in Reads /\ Kept(r)
  <2> SUFFICES ASSUME NEW u \in Hosts, ts'[u] \in InFlight PROVE copy'[r][u] \in InFlight
    BY Zenon DEF Flying
  <2>1. CASE ts[u] \notin InFlight
    BY <2>1, StartsFly, Zenon
  <2>2. CASE ts[u] \in InFlight
    <3>1. copy[r][u] \in InFlight
      BY <1>2, <2>2, Zenon DEF Flying
    <3>2. ASSUME NEW t \in Hosts, NEW s \in TargetStates, Wrote(r, t, s) PROVE copy'[r][u] \in InFlight
      <4>1. ts'[u] = (IF u = t THEN s ELSE ts[u]) /\ copy'[r][u] = (IF u = t THEN s ELSE copy[r][u])
        BY <3>2, WrittenRow, SMTT(30)
      <4> QED
        BY <3>1, <4>1, Zenon
    <3> QED
      BY <1>2, <3>1, <3>2, Zenon DEF Kept
  <2> QED
    BY <2>1, <2>2, Zenon
<1>3. \/ copy'[r] = ts /\ ts' = ts
      \/ pc[r] \in Reads /\ Kept(r)
  <2>1. claimed[r] \subseteq Hosts
    BY Zenon DEF Types, RunTypes
  <2>2. Launches(r) \/ Claims(r) \/ Enters(r) => pc[r] \in Reads /\ Kept(r)
    BY <2>1, Zenon DEF Launches, Claims, Enters, Reads, Kept
  <2>3. ~Idles(r) /\ ~Lists(r)
    BY Zenon DEF Idles, Lists, Reads
  <2>4. Goes(r) => (pc[r] \in Reads /\ Kept(r)) \/ (copy'[r] = ts /\ ts' = ts)
    BY Zenon DEF Goes, Reads
  <2> QED
    BY <2>2, <2>3, <2>4, Zenon DEF Moves
<1> QED
  BY <1>1, <1>2, <1>3, Zenon

(* What a pass does to its wave.                                            *)
LEMMA ClaimsFit ==
  ASSUME Types, NoneAway, NEW r \in Runners, Room(r), Claims(r), order' = order, claimed'[r] \subseteq Hosts
  PROVE  /\ Cardinality(Flying(copy'[r])) + Cardinality(claimed'[r]) <= MaxConcurrent
         /\ \A t \in claimed'[r], u \in Hosts : Barrier(u)' < Barrier(t)' => copy'[r][u] \in Finished
<1>1. copy' = copy /\ pc[r] = "claim" /\ HeldWaves(copy[r]) # {}
  BY Zenon DEF Claims, Room
<1>2. Cardinality(Flying(copy[r])) <= Working(copy[r])
  <2> DEFINE W == {t \in Hosts : copy[r][t] \in InFlight \union {"planning"}}
  <2>1. Flying(copy[r]) \subseteq W /\ W \subseteq Hosts
    BY Zenon DEF Flying
  <2>2. IsFiniteSet(W)
    BY <2>1, SomeHosts, Zenon
  <2>3. Working(copy[r]) = Cardinality(W)
    BY Zenon DEF Working, Count
  <2> HIDE DEF W
  <2> QED
    BY <2>1, <2>2, <2>3, FS_Subset, Zenon
<1>3. Working(copy[r]) \in Nat
  BY CountIsZero, Zenon DEF Working
<1>4. Cardinality(claimed'[r]) \in Nat
  BY SomeHosts, Zenon
<1>5. Cardinality(Flying(copy[r])) + Cardinality(claimed'[r]) <= MaxConcurrent
  BY <1>2, <1>3, <1>4, FlyingIsFinite, CampaignAssumption, SMTT(30) DEF Claims
<1>6. ASSUME NEW t \in claimed'[r], NEW u \in Hosts, Barrier(u)' < Barrier(t)' PROVE copy'[r][u] \in Finished
  <2>1. Barrier(u) < Barrier(t) /\ Wave(t) = CurrentWave(copy[r]) /\ t \in Hosts
    BY <1>6, WavesStand, SMTT(30) DEF Claims
  <2> QED
    BY <1>1, <2>1, EarlierWaves, Zenon
<1> QED
  BY <1>1, <1>5, <1>6, Zenon

(* The start of a host takes one of the slots the pass counted.              *)
LEMMA LaunchesFit ==
  ASSUME Types, NEW r \in Runners, Room(r), Launches(r), order' = order
  PROVE  /\ Cardinality(Flying(copy'[r])) + Cardinality(claimed'[r]) <= MaxConcurrent
         /\ \A t \in claimed'[r], u \in Hosts : Barrier(u)' < Barrier(t)' => copy'[r][u] \in Finished
<1>0. /\ Cardinality(Flying(copy[r])) + Cardinality(claimed[r]) <= MaxConcurrent
      /\ \A t \in claimed[r], u \in Hosts : Barrier(u) < Barrier(t) => copy[r][u] \in Finished
      /\ claimed[r] \subseteq Hosts
  BY Zenon DEF Launches, Room, Types, RunTypes
<1>1. CASE claimed'[r] = claimed[r] /\ UNCHANGED <<copy, ts>>
  BY <1>0, <1>1, WavesStand, Zenon
<1>2. ASSUME NEW t \in claimed[r], claimed'[r] = claimed[r] \ {t},
             copy' = copy \/ \E s \in TargetStates : Wrote(r, t, s)
      PROVE  /\ Cardinality(Flying(copy'[r])) + Cardinality(claimed'[r]) <= MaxConcurrent
             /\ \A v \in claimed'[r], u \in Hosts : Barrier(u)' < Barrier(v)' => copy'[r][u] \in Finished
  <2>1. IsFiniteSet(claimed[r])
    BY <1>0, SomeHosts, Zenon
  <2>2. Cardinality(claimed'[r]) = Cardinality(claimed[r]) - 1 /\ Cardinality(claimed[r]) \in Nat
    BY <1>2, <2>1, FS_RemoveElement, FS_CardinalityType, Zenon
  <2>3. Flying(copy'[r]) \subseteq Flying(copy[r]) \union {t}
    BY <1>0, <1>2, WrittenRow, SMTT(30) DEF Flying
  <2>4. /\ IsFiniteSet(Flying(copy[r]) \union {t})
        /\ Cardinality(Flying(copy[r]) \union {t}) <= Cardinality(Flying(copy[r])) + 1
    BY FlyingIsFinite, FS_AddElement, SMTT(30)
  <2>5. Cardinality(Flying(copy'[r])) <= Cardinality(Flying(copy[r]) \union {t})
    BY <2>3, <2>4, FS_Subset, Zenon
  <2>6. /\ Cardinality(Flying(copy[r]) \union {t}) \in Nat /\ Cardinality(Flying(copy'[r])) \in Nat
        /\ Cardinality(Flying(copy[r])) \in Nat
    BY <2>4, FlyingIsFinite, FS_CardinalityType, Zenon
  <2>7. Cardinality(Flying(copy'[r])) + Cardinality(claimed'[r]) <= MaxConcurrent
    BY <1>0, <2>2, <2>4, <2>5, <2>6, CampaignAssumption, SMTT(30)
  <2>8. Kept(r)
    BY <1>0, <1>2, Zenon DEF Kept
  <2>9. ASSUME NEW v \in claimed'[r], NEW u \in Hosts, Barrier(u)' < Barrier(v)' PROVE copy'[r][u] \in Finished
    <3>1. v \in claimed[r] /\ Barrier(u) < Barrier(v)
      BY <1>2, <2>9, WavesStand, SMTT(30)
    <3>2. copy[r][u] \in Finished
      BY <1>0, <3>1, Zenon
    <3> QED
      BY <2>8, <3>2, KeptGoesOn, Zenon
  <2> QED
    BY <2>7, <2>9, Zenon
<1> QED
  BY <1>1, <1>2, Zenon DEF Launches

(* The lease goes only to a runner that claims it.                          *)
LEMMA StepPassesTheLease ==
  ASSUME Types, NEW r \in Runners, PassStep(r) \/ RenewRunner(r) \/ PassFails(r) \/ Stop(r),
         NEW q \in Runners, runner' = q
  PROVE  runner = q \/ (q = r /\ pc'[r] = "claimed")
<1>0. CASE UNCHANGED leaseVars
  BY <1>0, Zenon DEF leaseVars
<1>1. CASE ClaimRunner(r) /\ ~UNCHANGED leaseVars
  <2>1. runner' = r /\ pc' = [pc EXCEPT ![r] = "claimed"]
    BY <1>1, Zenon DEF ClaimRunner
  <2> QED
    BY <2>1, Zenon DEF Types, RunTypes
<1>2. CASE RenewRunner(r)
  BY <1>2, Zenon DEF RenewRunner
<1>3. CASE Stop(r)
  BY <1>3, CampaignAssumption, Zenon DEF Stop
<1>4. CASE List(r) \/ AdoptTargets(r) \/ ReadTargets(r) \/ Expire(r) \/ WaveIsOut(r) \/ PassFails(r)
  BY <1>0, <1>4, Zenon DEF List, AdoptTargets, ReadTargets, Expire, WaveIsOut, PassFails
<1>5. CASE OrderPlan(r) \/ RecheckOffline(r) \/ CollectPlan(r) \/ PlanNothing(r) \/ FinishPlanning(r)
  BY <1>0, <1>5, Zenon DEF OrderPlan, RecheckOffline, CollectPlan, PlanNothing, FinishPlanning
<1>6. CASE AfterMainJob(r) \/ StartStep(r) \/ AfterReboot(r) \/ AfterHealthCheck(r) \/ AfterReplan(r)
  BY <1>0, <1>6, ZenonT(30) DEF AfterMainJob, StartStep, AfterReboot, AfterHealthCheck, AfterReplan
<1>7. CASE Decide(r) \/ ServiceOffline(r) \/ EnterWave(r) \/ ClaimWave(r) \/ LaunchHost(r)
  BY <1>0, <1>7, Zenon DEF Decide, ServiceOffline, EnterWave, ClaimWave, LaunchHost
<1> QED
  BY <1>0, <1>1, <1>2, <1>3, <1>4, <1>5, <1>6, <1>7, Zenon DEF PassStep

(* What others do leaves a pass its room, or takes its lease.                *)
LEMMA RoomStays ==
  ASSUME NEW q \in Runners, Room(q), order' = order, runner' = q => runner = q /\ Flying(ts') \subseteq Flying(ts),
         pc'[q] = pc[q], copy'[q] = copy[q], claimed'[q] = claimed[q]
  PROVE  Room(q)'
<1>1. runner' = q /\ pc'[q] \in Reads => Flying(ts') \subseteq Flying(copy'[q])
  BY Zenon DEF Room
<1>2. pc'[q] = "claim" => HeldWaves(copy[q])' # {}
  BY WavesStand, Zenon DEF Room
<1>3. pc'[q] = "launch" =>
         /\ Cardinality(Flying(copy'[q])) + Cardinality(claimed'[q]) <= MaxConcurrent
         /\ \A t \in claimed'[q], u \in Hosts : Barrier(u)' < Barrier(t)' => copy'[q][u] \in Finished
  BY WavesStand, Zenon DEF Room
<1>4. Flying(ts)' = Flying(ts') /\ Flying(copy[q])' = Flying(copy'[q])
  BY Zenon DEF Flying
<1> QED
  BY <1>1, <1>2, <1>3, <1>4, SMTT(30) DEF Room

(* Every step of a runner keeps its room.                                    *)
LEMMA StepKeepsRoom ==
  ASSUME Types, Types', NoneAway, NEW r \in Runners, \A q \in Runners : Room(q),
         PassStep(r) \/ RenewRunner(r) \/ PassFails(r) \/ Stop(r), Kind(r), Moves(r), Alone(r)
  PROVE  \A q \in Runners : Room(q)'
<1>0. order' = order
  BY Zenon DEF Kind
<1>1. Room(r)'
  <2>1. runner' = r /\ pc'[r] \in Reads => Flying(ts') \subseteq Flying(copy'[r])
    <3> SUFFICES ASSUME runner' = r, pc'[r] \in Reads PROVE Flying(ts') \subseteq Flying(copy'[r])
      BY Zenon
    <3>1. runner = r
      BY StepPassesTheLease, Zenon DEF Reads
    <3> QED
      BY <3>1, StepKnowsTheFlying, Zenon DEF Room
  <2>2. pc'[r] = "claim" => HeldWaves(copy[r])' # {}
    <3> SUFFICES ASSUME pc'[r] = "claim" PROVE HeldWaves(copy[r])' # {}
      BY Zenon
    <3>1. Enters(r)
      BY Zenon DEF Moves, Idles, Lists, Goes, Claims, Launches
    <3> QED
      BY <1>0, <3>1, WavesStand, Zenon DEF Enters
  <2>3. pc'[r] = "launch" =>
         /\ Cardinality(Flying(copy'[r])) + Cardinality(claimed'[r]) <= MaxConcurrent
         /\ \A t \in claimed'[r], u \in Hosts : Barrier(u)' < Barrier(t)' => copy'[r][u] \in Finished
    <3>1. pc'[r] = "launch" => Claims(r) \/ Launches(r)
      BY Zenon DEF Moves, Idles, Lists, Goes, Enters
    <3>2. claimed'[r] \subseteq Hosts
      BY Zenon DEF Types, RunTypes, Hosts
    <3> QED
      BY <1>0, <3>1, <3>2, ClaimsFit, LaunchesFit, Zenon
  <2>4. Flying(ts)' = Flying(ts') /\ Flying(copy[r])' = Flying(copy'[r])
    BY Zenon DEF Flying
  <2> QED
    BY <2>1, <2>2, <2>3, <2>4, Zenon DEF Room
<1>2. ASSUME NEW q \in Runners, q # r PROVE Room(q)'
  <2>1. copy'[q] = copy[q]
    BY <1>2, OthersKeepCopies, Zenon
  <2>2. ASSUME runner' = q PROVE runner = q /\ Flying(ts') \subseteq Flying(ts)
    <3>1. runner = q
      BY <1>2, <2>2, StepPassesTheLease, Zenon
    <3>2. ~Starts(r)
      BY <1>2, <3>1, Zenon DEF Starts, MayLaunch
    <3> QED
      BY <3>1, <3>2, StartsFly, Zenon DEF Flying
  <2> QED
    BY <1>0, <1>2, <2>1, <2>2, RoomStays, Zenon DEF Alone
<1> QED
  BY <1>1, <1>2, Zenon

-----------------------------------------------------------------------------
Safe ==
    /\ GateIsHonoured /\ Ended /\ EndIsTheHostsEnd /\ NoneAway
    /\ \A r \in Runners : Gates(r) /\ Ending(r) /\ Room(r)

(* A step of a pass keeps what the passes may believe,                       *)
LEMMA StepKeepsSafe ==
  ASSUME Inv, Inv', Safe, NEW r \in Runners, PassStep(r) \/ RenewRunner(r) \/ PassFails(r) \/ Stop(r)
  PROVE  Safe' /\ (cstate \in Terminal => cstate' = cstate)
<1>1. Types /\ Tasks /\ Places /\ Copies /\ Ready /\ Types' /\ Copies'
  BY Zenon DEF Inv, Ready
<1>2. Kind(r)
  BY <1>1, StepIsOfAKind, ZenonT(30)
<1>3. Alone(r)
  BY <1>1, HeadPlace, PlanPlace, WorkPlace, WavePlace, SMTT(30) DEF PassStep
<1>4. Moves(r) /\ Moved(r)
  BY <1>1, StepMoves, StepMovesCampaign, Zenon
<1>5. UNCHANGED <<order, gateAdvanced>>
  BY <1>2, Zenon DEF Kind
<1>6. GateIsHonoured'
  BY <1>1, <1>2, StepHonoursTheGate, Zenon DEF Safe
<1>7. Ended' /\ Ending(r)' /\ EndIsTheHostsEnd'
  BY <1>1, <1>2, <1>4, StepKeepsEnding, StepEndsWithTheHosts, Zenon DEF Safe
<1>8. NoneAway'
  BY <1>1, <1>2, StepSkipsTheAway, Zenon DEF Safe
<1>9. \A q \in Runners : Room(q)'
  BY <1>1, <1>2, <1>3, <1>4, StepKeepsRoom, Zenon DEF Safe
<1>10. Gates(r)'
  BY <1>1, <1>4, <1>5, StepKeepsGates, ZenonT(30) DEF Safe
<1>11. cstate \in Canceling => cstate' \in Canceling
  BY <1>4, WhatMovesEnd, Zenon
<1>12. ASSUME NEW q \in Runners, q # r PROVE Gates(q)' /\ Ending(q)'
  <2>1. copy'[q] = copy[q]
    BY <1>1, <1>2, <1>12, OthersKeepCopies, Zenon
  <2>2. pc'[q] = pc[q] /\ cst'[q] = cst[q] /\ cgate'[q] = cgate[q] /\ claimed'[q] = claimed[q]
    BY <1>3, <1>12, Zenon DEF Alone
  <2>3. Gates(q) /\ Ending(q)
    BY Zenon DEF Safe
  <2>4. Gates(q)'
    BY <1>5, <2>1, <2>2, <2>3, GatesStand, Zenon
  <2>5. Ending(q)'
    BY <1>11, <2>1, <2>2, <2>3, Zenon DEF Ending
  <2> QED
    BY <2>4, <2>5, Zenon
<1>13. \A q \in Runners : Gates(q)' /\ Ending(q)'
  BY <1>7, <1>10, <1>12, Zenon
<1> QED
  BY <1>4, <1>6, <1>7, <1>8, <1>9, <1>13, WhatMovesEnd, SMTT(30) DEF Safe

(* and so does every other step.                                             *)
LEMMA OutsideKeepsSafe ==
  ASSUME Inv, Safe, Operator \/ DeadlinePasses \/ PlansAge \/ LeaseLapses \/ UNCHANGED vars \/ \E t \in Hosts : HostStep(t)
  PROVE  Safe' /\ (cstate \in Terminal => cstate' = cstate)
<1>1. Types
  BY Zenon DEF Inv, Ready
<1>2. UNCHANGED <<copyVars, passVars>>
  BY OutsideThePasses, Zenon
<1>3. UNCHANGED <<copy, pc, cst, cgate, claimed>>
  BY <1>2, Zenon DEF copyVars, passVars
<1>4. /\ order' = order /\ (gateAdvanced => gateAdvanced') /\ runner' = runner
      /\ \/ UNCHANGED cstate /\ (UNCHANGED ts \/ SkipTarget)
         \/ Cancel
         \/ /\ UNCHANGED ts /\ cstate \notin Terminal \union {"canceling"}
            /\ cstate' \in {"planned", "paused", "pausing", "running"}
  BY <1>1, OutsideMovesCampaign, Zenon
<1>5. \A t \in Hosts : ts'[t] = ts[t] \/ (ts[t] \notin Finished /\ ts'[t] \in {"canceled", "skipped"})
  BY <1>1, <1>4, OutsideRow, Zenon
<1>6. \A t \in Hosts : ts'[t] \in InFlight => ts[t] \in InFlight
  BY <1>5, Zenon DEF InFlight
<1>7. GateIsHonoured'
  BY <1>4, <1>6, WavesStand, Zenon DEF Safe, GateIsHonoured
<1>8. /\ Ended' /\ EndIsTheHostsEnd' /\ (cstate \in Terminal => cstate' = cstate)
      /\ \A r \in Runners : Ending(r)'
  BY <1>1, <1>2, <1>4, OutsideKeepsEnding, Zenon DEF Safe
<1>9. NoneAway'
  BY <1>3, <1>4, <1>5, Zenon DEF Safe, NoneAway
<1>10. \A r \in Runners : Gates(r)'
  BY <1>3, <1>4, GatesStand, Zenon DEF Safe
<1>11. \A r \in Runners : Room(r)'
  <2>1. Flying(ts') \subseteq Flying(ts)
    BY <1>6, Zenon DEF Flying
  <2> QED
    BY <1>3, <1>4, <2>1, RoomStays, Zenon DEF Safe
<1> QED
  BY <1>7, <1>8, <1>9, <1>10, <1>11, Zenon DEF Safe

LEMMA InitiallySafe == Init => Safe
<1> SUFFICES ASSUME Init PROVE Safe
  BY Zenon
<1>1. cstate \notin {"completed", "completed_with_issues", "failed", "canceled", "canceling"}
  BY Zenon DEF Init
<1>2. GateIsHonoured /\ Ended /\ EndIsTheHostsEnd /\ NoneAway
  BY <1>1, Zenon DEF Init, GateIsHonoured, Ended, EndIsTheHostsEnd, NoneAway, Canceling, InFlight
<1>3. ASSUME NEW r \in Runners PROVE Gates(r) /\ Ending(r) /\ Room(r)
  BY Zenon DEF Init, Gates, Ending, Room, Reads
<1> QED
  BY <1>2, <1>3, Zenon DEF Safe

(* What the passes believe is safe in every campaign.                        *)
LEMMA Safety == Spec => []Safe
<1>1. Inv /\ Inv' /\ Safe /\ [Next]_vars => Safe'
  BY StepKeepsSafe, OutsideKeepsSafe, Zenon DEF Next
<1> QED
  BY <1>1, InitiallySafe, Invariance, PTL DEF Spec

-----------------------------------------------------------------------------
(* The campaign as Rollout sees it.                                         *)
PhaseOf(c) == CASE c \in Launching -> "open" [] c \in Terminal -> "over" [] OTHER -> "held"

(* The state of a host in Rollout, by the state of its row.                  *)
LEMMA HowRowsRoll ==
  /\ \A s \in Unstarted \ {"queued_offline"} : Rolled(s) = "waiting"
  /\ Rolled("queued_offline") = "away"
  /\ \A s \in InFlight : Rolled(s) = "working"
  /\ \A s \in Finished : Rolled(s) = "settled"
  /\ \A s \in TargetStates : Rolled(s) = "working" <=> s \in InFlight
<1>1. /\ \A s \in Unstarted \ {"queued_offline"} : Rolled(s) = "waiting"
      /\ Rolled("queued_offline") = "away"
  BY Zenon DEF Rolled, Unstarted, Waiting, InFlight, Finished
<1>2. \A s \in InFlight : Rolled(s) = "working"
  BY Zenon DEF Rolled, InFlight, Finished
<1>3. \A s \in Finished : Rolled(s) = "settled"
  BY Zenon DEF Rolled, InFlight, Finished
<1>4. \A s \in TargetStates : Rolled(s) = "working" <=> s \in InFlight
  BY <1>1, <1>2, <1>3, Zenon DEF TargetStates
<1> QED
  BY <1>1, <1>2, <1>3, <1>4, Zenon

(* The phase of a campaign is one of three, and an end is the last.          *)
LEMMA HowPhasesMove ==
  ASSUME cstate \in Terminal => cstate' = cstate
  PROVE  /\ PhaseOf(cstate) \in {"open", "held", "over"} /\ PhaseOf(cstate') \in {"open", "held", "over"}
         /\ PhaseOf(cstate) = "over" => PhaseOf(cstate') = PhaseOf(cstate)
         /\ cstate' \notin Launching => PhaseOf(cstate') # "open"
BY Zenon DEF PhaseOf, Launching, Terminal

(* Hosts that rest or settle: every step that starts nobody.                *)
LEMMA RestMaps ==
  ASSUME order' = order, cstate \in Terminal => cstate' = cstate,
         \A t \in Hosts : Rolled(ts'[t]) = Rolled(ts[t]) \/ Rolled(ts'[t]) = "settled",
         cstate' = cstate \/ cstate' \notin Launching \/ ts' = ts
  PROVE  Ro!RolloutNext \/ UNCHANGED Ro!roVars
<1> DEFINE W == [t \in Hosts |-> Barrier(t)]
           H == [t \in Hosts |-> Rolled(ts[t])]
           P == CASE cstate \in Launching -> "open" [] cstate \in Terminal -> "over" [] OTHER -> "held"
           S == {t \in Hosts : Rolled(ts'[t]) = "settled"}
<1>1. W' = W
  BY WavesStand, Zenon
<1>2. P = PhaseOf(cstate) /\ P' = PhaseOf(cstate')
  BY Zenon DEF PhaseOf
<1>3. H' = [t \in Hosts |-> IF t \in S THEN "settled" ELSE H[t]] /\ S \in SUBSET Hosts
  BY Zenon
<1>4. ts' = ts => H' = H
  BY Zenon
<1>5. CASE P' = P \/ P' \in {"held", "over"}
  <2>1. P' = P \/ (P # "over" /\ P' \in {"held", "over"})
    BY <1>2, <1>5, HowPhasesMove, ZenonT(30)
  <2>2. Ro!Settles(S)
    <3> HIDE DEF W, H, P, S
    <3>1. H' = [t \in Hosts |-> IF t \in S THEN "settled" ELSE H[t]] /\ W' = W /\ (P' = P \/ (P # "over" /\ P' \in {"held", "over"}))
      BY <1>1, <1>3, <2>1, Zenon
    <3> QED
      BY <3>1, Zenon DEF Ro!Settles, W, H, P, S
  <2> QED
    BY <1>3, <2>2, Zenon DEF Ro!RolloutNext
<1>6. CASE P' # P /\ P' \notin {"held", "over"}
  <2>1. P = "held" /\ P' = "open" /\ ts' = ts
    BY <1>2, <1>6, HowPhasesMove, Zenon
  <2>2. Ro!Opens
    BY <1>1, <1>4, <2>1, ZenonT(30) DEF Ro!Opens
  <2> QED
    BY <2>2, Zenon DEF Ro!RolloutNext
<1> QED
  BY <1>5, <1>6, ZenonT(30)

(* A host that has not started goes away or comes back.                     *)
LEMMA AwayMaps ==
  ASSUME Types, order' = order, cstate' = cstate, NEW t \in Hosts, NEW s \in Unstarted, ts[t] \in Unstarted,
         ts' = [ts EXCEPT ![t] = s]
  PROVE  Ro!RolloutNext \/ UNCHANGED Ro!roVars
<1> DEFINE W == [u \in Hosts |-> Barrier(u)]
           H == [u \in Hosts |-> Rolled(ts[u])]
           P == CASE cstate \in Launching -> "open" [] cstate \in Terminal -> "over" [] OTHER -> "held"
<1>1. W' = W /\ P' = P
  BY WavesStand, Zenon
<1>2. H' = [H EXCEPT ![t] = Rolled(s)]
  BY Zenon DEF Types, RowTypes
<1>3. {H[t], Rolled(s)} \subseteq {"waiting", "away"} /\ H \in [Hosts -> {Rolled(ts[u]) : u \in Hosts}]
  BY HowRowsRoll, Zenon
<1>4. CASE H[t] = Rolled(s)
  <2>1. H' = H
    BY <1>2, <1>3, <1>4, Zenon
  <2> QED
    BY <1>1, <2>1, Zenon DEF Ro!roVars
<1>5. CASE H[t] = "waiting" /\ Rolled(s) = "away"
  <2>1. Ro!Away(t)
    BY <1>1, <1>2, <1>5, Zenon DEF Ro!Away
  <2> QED
    BY <2>1, Zenon DEF Ro!RolloutNext
<1>6. CASE H[t] = "away" /\ Rolled(s) = "waiting"
  <2>1. Ro!Return(t)
    BY <1>1, <1>2, <1>6, Zenon DEF Ro!Return
  <2> QED
    BY <2>1, Zenon DEF Ro!RolloutNext
<1> QED
  BY <1>3, <1>4, <1>5, <1>6, Zenon

(* The start of a host is a Start of Rollout.                                *)
LEMMA StartMaps ==
  ASSUME Types, Copies, NEW r \in Runners, Room(r), Starts(r), order' = order
  PROVE  Ro!RolloutNext
<1> DEFINE W == [u \in Hosts |-> Barrier(u)]
           H == [u \in Hosts |-> Rolled(ts[u])]
           P == CASE cstate \in Launching -> "open" [] cstate \in Terminal -> "over" [] OTHER -> "held"
<1>1. PICK t \in claimed[r] : Wrote(r, t, "dispatched") /\ ts[t] \in {"pending", "awaiting_budget"}
  BY Zenon DEF Starts
<1>2. /\ t \in Hosts /\ claimed[r] \subseteq Hosts /\ pc[r] = "launch" /\ runner = r /\ cstate \in Launching
      /\ cstate' = cstate /\ ts' = [ts EXCEPT ![t] = "dispatched"]
  BY <1>1, Zenon DEF Starts, MayLaunch, Wrote, Types, RunTypes
<1>3. W' = W /\ P' = P /\ P = "open"
  <2>1. W' = W
    BY WavesStand, Zenon
  <2>2. P' = P /\ P = "open"
    BY <1>2, Zenon DEF Launching, Terminal
  <2> QED
    BY <2>1, <2>2, Zenon
<1>4. H' = [H EXCEPT ![t] = "working"] /\ H[t] = "waiting"
  <2>1. Rolled("dispatched") = "working" /\ Rolled(ts[t]) = "waiting"
    BY <1>1, HowRowsRoll, Zenon DEF InFlight, Unstarted, Waiting
  <2> QED
    BY <1>2, <2>1, Zenon DEF Types, RowTypes
<1>5. Cardinality({u \in Hosts : H[u] = "working"}) < MaxConcurrent
  <2>1. {u \in Hosts : H[u] = "working"} = Flying(ts)
    BY HowRowsRoll, Zenon DEF Flying, Types, RowTypes
  <2>2. Flying(ts) \subseteq Flying(copy[r])
    BY <1>2, Zenon DEF Room, Reads
  <2>3. Cardinality(Flying(ts)) <= Cardinality(Flying(copy[r]))
    BY <2>2, FlyingIsFinite, FS_Subset, Zenon
  <2>4. Cardinality(claimed[r]) \in Nat /\ Cardinality(claimed[r]) # 0
    <3>1. IsFiniteSet(claimed[r]) /\ claimed[r] # {}
      BY <1>1, <1>2, SomeHosts, Zenon
    <3> QED
      BY <3>1, FS_EmptySet, FS_CardinalityType, ZenonT(30)
  <2>5. Cardinality(Flying(copy[r])) + Cardinality(claimed[r]) <= MaxConcurrent
    BY <1>2, ZenonT(30) DEF Room
  <2>6. Cardinality(Flying(ts)) < MaxConcurrent
    BY <2>3, <2>4, <2>5, FlyingIsFinite, CampaignAssumption, SMTT(30)
  <2> QED
    BY <2>1, <2>6, Zenon
<1>6. ASSUME NEW u \in Hosts, W[u] < W[t] PROVE H[u] = "settled"
  <2>1. copy[r][u] \in Finished
    BY <1>1, <1>2, <1>6, ZenonT(30) DEF Room
  <2>2. ts[u] \in Finished
    BY <2>1, Zenon DEF Copies
  <2> QED
    BY <2>2, HowRowsRoll, Zenon
<1>7. Ro!Start(t)
  <2>1. Ro!Cardinality(Ro!In("working")) < MaxConcurrent
    <3>1. Ro!Cardinality(Ro!In("working")) = Cardinality(Ro!In("working"))
      BY Zenon DEF Ro!Cardinality, Cardinality, Ro!IsFiniteSet, IsFiniteSet
    <3>2. Cardinality(Ro!In("working")) < MaxConcurrent
      BY <1>5, Zenon DEF Ro!In
    <3> QED
      BY <3>1, <3>2, Zenon
  <2>2. \A u \in Hosts : Barrier(u) < Barrier(t) => Rolled(ts[u]) = "settled"
    BY <1>2, <1>6, Zenon
  <2>3. t \in Hosts
    BY <1>2, Zenon
  <2>4. \A u \in Hosts : W[u] < W[t] => H[u] = "settled"
    BY <2>2, <2>3, Zenon
  <2>5. P = "open" /\ H[t] = "waiting"
    BY <1>3, <1>4, Zenon
  <2>6. H' = [H EXCEPT ![t] = "working"] /\ UNCHANGED <<W, P>>
    BY <1>3, <1>4, Zenon
  <2> QED
    BY <2>1, <2>4, <2>5, <2>6, Zenon DEF Ro!Start
<1> QED
  BY <1>2, <1>7, Zenon DEF Ro!RolloutNext

(* A write is a Settles, an Away, a Return or nothing.                       *)
LEMMA WriteMaps ==
  ASSUME Types, NEW r \in Runners, NEW t \in Hosts, NEW s \in TargetStates, Wrote(r, t, s),
         Fits(t, s) \/ (s = "planning" /\ ts[t] \in Unstarted), UNCHANGED <<order, cstate>>
  PROVE  Ro!RolloutNext \/ UNCHANGED Ro!roVars
<1>1. ts' = [ts EXCEPT ![t] = s]
  BY Zenon DEF Wrote
<1>2. CASE ts[t] \in Unstarted /\ s \in Unstarted
  BY <1>1, <1>2, AwayMaps, Zenon
<1>3. CASE s \in Finished \/ (ts[t] \in InFlight /\ s \in InFlight)
  <2>1. \A u \in Hosts : Rolled(ts'[u]) = Rolled(ts[u]) \/ Rolled(ts'[u]) = "settled"
    BY <1>1, <1>3, HowRowsRoll, Zenon DEF Types, RowTypes
  <2> QED
    BY <2>1, RestMaps, Zenon
<1>4. \/ ts[t] \in Unstarted /\ s \in Unstarted
      \/ s \in Finished
      \/ ts[t] \in InFlight /\ s \in InFlight
  BY Zenon DEF Fits, Finished, InFlight, Unstarted, Waiting
<1> QED
  BY <1>2, <1>3, <1>4, Zenon

(* Every step of a runner is a step of Rollout or leaves its variables alone, *)
LEMMA StepMaps ==
  ASSUME Inv, Safe, Safe', cstate \in Terminal => cstate' = cstate, NEW r \in Runners, Kind(r)
  PROVE  Ro!RolloutNext \/ UNCHANGED Ro!roVars
<1>1. Types /\ Copies /\ Room(r) /\ order' = order
  BY Zenon DEF Inv, Ready, Safe, Kind
<1>2. CASE Quiet(r) \/ FollowsUp(r)
  <2>1. ts' = ts
    BY <1>2, Zenon DEF Quiet, FollowsUp
  <2> QED
    BY <1>1, <2>1, RestMaps, Zenon
<1>3. CASE Starts(r)
  BY <1>1, <1>3, StartMaps, ZenonT(30)
<1> QED
  BY <1>1, <1>2, <1>3, KindOfRow, WriteMaps, Zenon

(* and so is every other step.                                               *)
LEMMA OutsideMaps ==
  ASSUME Inv, cstate \in Terminal => cstate' = cstate,
         Operator \/ DeadlinePasses \/ PlansAge \/ LeaseLapses \/ UNCHANGED vars \/ \E t \in Hosts : HostStep(t)
  PROVE  Ro!RolloutNext \/ UNCHANGED Ro!roVars
<1>1. Types
  BY Zenon DEF Inv, Ready
<1>2. /\ order' = order
      /\ \/ UNCHANGED cstate /\ (UNCHANGED ts \/ SkipTarget)
         \/ Cancel
         \/ UNCHANGED ts
  BY <1>1, OutsideMovesCampaign, Zenon
<1>3. \A t \in Hosts : ts'[t] = ts[t] \/ ts'[t] \in Finished
  BY <1>1, <1>2, OutsideRow, Zenon DEF Finished
<1>4. \A t \in Hosts : Rolled(ts'[t]) = Rolled(ts[t]) \/ Rolled(ts'[t]) = "settled"
  BY <1>3, HowRowsRoll, Zenon
<1>5. Cancel => cstate' \notin Launching
  BY <1>1, CancelEnds, Zenon DEF Canceling, Launching
<1> QED
  BY <1>2, <1>4, <1>5, RestMaps, Zenon

(* A new campaign is a new rollout.                                          *)
LEMMA InitMaps == Init => Ro!RolloutInit
<1> SUFFICES ASSUME Init PROVE Ro!RolloutInit
  BY Zenon
<1> DEFINE W == [u \in Hosts |-> Barrier(u)]
           H == [u \in Hosts |-> Rolled(ts[u])]
           P == CASE cstate \in Launching -> "open" [] cstate \in Terminal -> "over" [] OTHER -> "held"
<1>1. Types
  BY InitialState, Zenon DEF Inv, Ready
<1>2. W \in [Hosts -> Nat]
  BY <1>1, WaveIsNat, Zenon DEF Barrier
<1>3. P \in {"open", "held"}
  BY Zenon DEF Init, Launching, Terminal
<1>4. H = [u \in Hosts |-> "waiting"]
  BY HowRowsRoll, Zenon DEF Init, Unstarted, Waiting
<1> QED
  BY <1>2, <1>3, <1>4, Zenon DEF Ro!RolloutInit


-----------------------------------------------------------------------------
(* past it (enterGate, Advance), however many runners are at work.          *)
THEOREM TheGateIsHonoured == Spec => []GateIsHonoured
<1>1. Safe => GateIsHonoured
  BY Zenon DEF Safe
<1> QED
  BY <1>1, Safety, PTL

(* A campaign that ends on its hosts' word, or is canceled, leaves no host  *)
(* open, and says completed only when none failed (complete, drain).        *)
THEOREM TheEndIsTheHostsEnd == Spec => []EndIsTheHostsEnd
<1>1. Safe => EndIsTheHostsEnd
  BY Zenon DEF Safe
<1> QED
  BY <1>1, Safety, PTL

(* The campaign implements Rollout: a host starts only while the campaign   *)
(* is open, within max_concurrent and behind the barrier of its wave        *)
(* (launchWave, LockForLaunch), and an end is final (updateTarget,          *)
(* SetState, Cancel), a runner that lost its lease unawares included.       *)
THEOREM RolloutIsImplemented == Spec => ImplementsRollout
<1>1. Inv /\ Inv' /\ Safe /\ Safe' /\ [Next]_vars => [Ro!RolloutNext]_(Ro!roVars)
  <2> SUFFICES ASSUME Inv, Inv', Safe, Safe', [Next]_vars PROVE Ro!RolloutNext \/ UNCHANGED Ro!roVars
    BY Zenon
  <2>1. ASSUME NEW r \in Runners, PassStep(r) \/ RenewRunner(r) \/ PassFails(r) \/ Stop(r)
        PROVE  Ro!RolloutNext \/ UNCHANGED Ro!roVars
    <3>1. Kind(r)
      BY <2>1, StepIsOfAKind, Zenon DEF Inv, Ready
    <3> QED
      BY <2>1, <3>1, StepKeepsSafe, StepMaps, Zenon
  <2>2. CASE Operator \/ DeadlinePasses \/ PlansAge \/ LeaseLapses \/ UNCHANGED vars \/ \E t \in Hosts : HostStep(t)
    BY <2>2, OutsideKeepsSafe, OutsideMaps, Zenon
  <2> QED
    BY <2>1, <2>2, Zenon DEF Next
<1> QED
  BY <1>1, InitMaps, Invariance, Safety, PTL DEF Spec, ImplementsRollout, Ro!RolloutSpec


(* A step of Rollout keeps within the limit.                                *)
LEMMA StillWithin ==
  ASSUME Ro!WithinConcurrency, [Ro!RolloutNext]_(Ro!roVars)
  PROVE  Ro!WithinConcurrency'
<1> DEFINE W == Ro!In("working")
<1>0. IsFiniteSet(W) /\ Cardinality(W) \in Nat /\ MaxConcurrent \in Nat
  <2>1. W \subseteq Hosts /\ IsFiniteSet(Hosts)
    BY CampaignAssumption, FS_Interval, SMTT(30) DEF Ro!In, Hosts
  <2> QED
    BY <2>1, CampaignAssumption, FS_Subset, FS_CardinalityType, Zenon
<1>1. Ro!WithinConcurrency <=> Cardinality(W) <= MaxConcurrent
  BY Zenon DEF Ro!WithinConcurrency, Ro!Cardinality, Cardinality, Ro!IsFiniteSet, IsFiniteSet
<1>2. Ro!WithinConcurrency' <=> Cardinality(W') <= MaxConcurrent
  BY Zenon DEF Ro!WithinConcurrency, Ro!Cardinality, Cardinality, Ro!IsFiniteSet, IsFiniteSet
<1>3. W' \subseteq W \/ \E t \in Hosts : W' = W \union {t} /\ Ro!Cardinality(W) < MaxConcurrent
  <2>1. ASSUME NEW t \in Hosts, Ro!Start(t)
        PROVE  W' = W \union {t} /\ Ro!Cardinality(W) < MaxConcurrent
    BY <2>1, Zenon DEF Ro!Start, Ro!In
  <2>2. ASSUME NEW t \in Hosts, Ro!Away(t) \/ Ro!Return(t) PROVE W' \subseteq W
    BY <2>2, Zenon DEF Ro!Away, Ro!Return, Ro!In
  <2>3. ASSUME NEW S \in SUBSET Hosts, Ro!Settles(S) PROVE W' \subseteq W
    BY <2>3, Zenon DEF Ro!Settles, Ro!In
  <2>4. CASE Ro!Opens \/ UNCHANGED Ro!roVars
    BY <2>4, Zenon DEF Ro!Opens, Ro!roVars, Ro!In
  <2> QED
    BY <2>1, <2>2, <2>3, <2>4, Zenon DEF Ro!RolloutNext
<1> HIDE DEF W
<1>4. Ro!Cardinality(W) = Cardinality(W)
  BY Zenon DEF Ro!Cardinality, Cardinality, Ro!IsFiniteSet, IsFiniteSet
<1>5. CASE W' \subseteq W
  <2>1. Cardinality(W') <= Cardinality(W) /\ Cardinality(W') \in Nat
    BY <1>0, <1>5, FS_Subset, FS_CardinalityType, Zenon
  <2> QED
    BY <1>0, <1>1, <1>2, <2>1, SMTT(30)
<1>6. ASSUME NEW t \in Hosts, W' = W \union {t}, Cardinality(W) < MaxConcurrent
      PROVE  Ro!WithinConcurrency'
  <2>1. Cardinality(W') = Cardinality(W) \/ Cardinality(W') = Cardinality(W) + 1
    BY <1>0, <1>6, FS_AddElement, Zenon
  <2> QED
    BY <1>0, <1>2, <1>6, <2>1, SMTT(30)
<1> QED
  BY <1>3, <1>4, <1>5, <1>6, Zenon

(* Whoever drives the campaign, however it is paused, resumed, advanced and *)
(* cancelled, no more hosts are in flight than max_concurrent (launchWave,  *)
(* LockForLaunch).                                                          *)
THEOREM ConcurrencyIsKept == Spec => []Ro!WithinConcurrency
<1>1. Ro!RolloutInit => Ro!WithinConcurrency
  <2> SUFFICES ASSUME Ro!RolloutInit PROVE Ro!WithinConcurrency
    BY Zenon
  <2>1. Ro!In("working") = {}
    BY Zenon DEF Ro!RolloutInit, Ro!In
  <2>2. Ro!Cardinality({}) = 0 /\ MaxConcurrent \in Nat
    <3>1. Ro!Cardinality({}) = Cardinality({})
      BY Zenon DEF Ro!Cardinality, Cardinality, Ro!IsFiniteSet, IsFiniteSet
    <3> QED
      BY <3>1, FS_EmptySet, CampaignAssumption, Zenon
  <2> QED
    BY <2>1, <2>2, SMTT(30) DEF Ro!WithinConcurrency
<1>2. Ro!WithinConcurrency /\ [Ro!RolloutNext]_(Ro!roVars) => Ro!WithinConcurrency'
  BY StillWithin, Zenon
<1> QED
  BY <1>1, <1>2, RolloutIsImplemented, PTL DEF ImplementsRollout, Ro!RolloutSpec

(* The end of a host and the end of the campaign are final: no pass, no     *)
(* operator and no late answer reopens them (updateTarget, SetState).       *)
THEOREM EndsAreFinal == Spec => Ro!SettledStays
<1>1. [Ro!RolloutNext]_(Ro!roVars) => [Ro!StaysSettled]_(Ro!roVars)
  <2> SUFFICES ASSUME Ro!RolloutNext PROVE Ro!StaysSettled
    BY Zenon
  <2>1. ASSUME NEW t \in Hosts, Ro!Start(t) \/ Ro!Away(t) \/ Ro!Return(t) PROVE Ro!StaysSettled
    BY <2>1, Zenon DEF Ro!Start, Ro!Away, Ro!Return, Ro!StaysSettled
  <2>2. ASSUME NEW S \in SUBSET Hosts, Ro!Settles(S) PROVE Ro!StaysSettled
    BY <2>2, Zenon DEF Ro!Settles, Ro!StaysSettled
  <2>3. CASE Ro!Opens
    BY <2>3, Zenon DEF Ro!Opens, Ro!StaysSettled
  <2> QED
    BY <2>1, <2>2, <2>3, Zenon DEF Ro!RolloutNext
<1> QED
  BY <1>1, RolloutIsImplemented, PTL DEF ImplementsRollout, Ro!RolloutSpec, Ro!SettledStays
=============================================================================
