----------------------------- MODULE Campaigns -----------------------------
(***************************************************************************)
(* One campaign (internal/campaigns): the orchestrators of several panels  *)
(* drive it pass by pass while operators approve, pause, resume, advance   *)
(* and cancel it and the hosts carry its tasks.                            *)
(*                                                                         *)
(* A pass is a sequence of transactions.  It works on the copy of the      *)
(* campaign it listed and on the copies of the targets it read; every      *)
(* write names the revision and the claim token of the copy.  Both only    *)
(* grow, so the model keeps, for each runner, the set of targets whose row *)
(* nobody wrote since (fresh).  The token of the runner lease changes with *)
(* its holder and a runner claims only at the start of a pass, so the      *)
(* holder alone says whether the token of the pass still stands.           *)
(* The host of a target answers through its tasks (plan, main, reboot,     *)
(* health); what the panel reads of its connection is a choice at the read.*)
(***************************************************************************)
EXTENDS Integers, FiniteSets, FiniteSetsExt

CONSTANTS
    Runners,            \* the orchestrators, one in each replica of the panel
    N,                  \* the hosts of the campaign are 1..N, in rollout order
    CampaignOrders,     \* the campaigns that may be ordered (Order)
    WaveSize, MaxConcurrent,
    Outcomes,           \* bound: how the tasks of the hosts may end
    Orders,             \* bound: the orders the operators give
    Faults, MaxFaults   \* bounds: what may go wrong, and how often

(* What a campaign is ordered with: its canary size, whether it stops at a  *)
(* gate after it, whether the hosts plan the change first, whether it waits *)
(* for an approval, what becomes of offline hosts, whether units are        *)
(* checked afterwards, and the limits that stop it: failed hosts, their     *)
(* share of the finished ones, hosts lost (0: none).                        *)
Order == [canary : Nat, gate : BOOLEAN, planned : BOOLEAN, approval : BOOLEAN,
          offline : {"skip", "wait", "replan"}, verified : BOOLEAN,
          failures : Nat, percent : Nat, lost : Nat]

(* A pass that fails, a process that goes, a lease that runs out; a window,  *)
(* budget or right that holds a host back; a host that cannot be read or is *)
(* in maintenance; a task that is refused or not delivered; a reboot past   *)
(* the window; plans past their limit.                                      *)
FaultKinds ==
    {"pass", "stop", "lapse", "hold", "host", "refused", "task", "window", "age"}

ASSUME CampaignAssumption ==
    /\ N \in Nat /\ WaveSize \in Nat \ {0} /\ MaxConcurrent \in Nat
    /\ CampaignOrders \subseteq Order /\ MaxFaults \in Nat
    /\ Orders \subseteq {"approve", "pause", "advance", "cancel", "skip"}
    /\ {"ok", "failed"} \subseteq Outcomes /\ Faults \subseteq FaultKinds
    /\ "nobody" \notin Runners /\ "dead" \notin Runners

VARIABLES
    \* the row of the campaign, and what a pause that is being written read of
    \* the targets
    order, cstate, gateAdvanced, started, pauseRead,
    \* the runner lease: its holder ("dead": a process that is gone), and has
    \* it run out?
    runner, lapsed,
    \* the rows of the targets, who claimed each, and the follow-up tasks
    \* (reboot, health) each names
    ts, claimedBy, attached,
    \* the tasks of each host, and the hosts back from (late for) their reboot
    job, back, late,
    \* the plans past their time limit, and is the deadline of the campaign over?
    stale, deadline,
    \* the pass of each runner: where it is, at which host, its copies of the
    \* campaign and of the targets, the hosts it claimed for its wave, and the
    \* verdicts it collects
    pc, at, cst, cgate, cstarted, copy, fresh, ordered, claimed, closed,
    unplanned, faults

campaignVars == <<order, cstate, gateAdvanced, started, pauseRead>>
leaseVars == <<runner, lapsed>>
targetVars == <<ts, claimedBy, attached>>
hostVars == <<job, back, late>>
timeVars == <<stale, deadline, faults>>
copyVars == <<cst, cgate, cstarted, copy>>
passVars == <<pc, at, ordered, claimed, closed, unplanned>>
vars == <<campaignVars, leaseVars, targetVars, hostVars, timeVars, copyVars,
          passVars, fresh>>

Hosts == 1..N
Holders == Runners \union {"nobody", "dead"}

----------------------------------------------------------------------------
(* The states, and the moves they allow (model.go, states.go).              *)

Terminal == {"completed", "completed_with_issues", "failed", "plan_failed",
             "expired", "canceled"}
Launching == {"planning", "planned", "canary", "running"}
Pausable == {"planned", "canary", "manual_gate", "running"}
DrivenButCanceling == Launching \union {"awaiting_approval", "manual_gate", "pausing"}
Driven == Launching \union {"awaiting_approval", "manual_gate", "pausing", "canceling"}
CampaignStates == Driven \union Terminal \union {"paused"}

MayBecome(s, to) ==
    \/ to \in {"canary", "running"} /\ s \in {"planned", "canary"} /\ s # to
    \/ to = "manual_gate" /\ s \in {"planned", "canary", "running"}
    \/ to = "pausing" /\ s \in Pausable
    \/ to = "paused" /\ s \in Pausable \union {"pausing"}
    \/ to = "expired" /\ s \in {"planned", "awaiting_approval"}
    \/ to = "plan_failed" /\ s = "planning"
    \/ to \in {"completed", "completed_with_issues", "failed"} /\ s \in Launching
    \/ to = "canceled" /\ s = "canceling"

(* awaiting_lock is a name the panel shows for a running task that waits;   *)
(* no_change counts as succeeded everywhere.  A host skipped because its    *)
(* container is not there is told from the others (absent).                 *)
Waiting == {"pending", "awaiting_budget", "queued_offline"}
Unstarted == Waiting \union {"planning"}
InFlight == {"dispatched", "running", "rebooting", "verifying"}
Finished == {"succeeded", "failed", "unknown", "skipped", "absent", "canceled",
             "ineligible"}
TargetStates == Unstarted \union InFlight \union Finished

TargetMayBecome(s, to) ==
    /\ s \notin Finished
    /\ \/ s = to \/ to \in Finished
       \/ to = "pending" /\ s \in Unstarted
       \/ to \in Unstarted \ {"pending"} /\ s \in Unstarted
       \/ to = "dispatched" /\ s \in Waiting \union {"running"}
       \/ to = "running" /\ s \in Waiting \union {"dispatched"}
       \/ to = "rebooting" /\ s \in {"dispatched", "running"}
       \/ to = "verifying" /\ s \in {"dispatched", "running", "rebooting"}

Wave(t) == IF t <= order.canary THEN 0 ELSE ((t - 1 - order.canary) \div WaveSize) + 1

HoldsWave(t, s) == s \notin Finished /\ (s # "queued_offline" \/ Wave(t) = 0)

(* The tasks of the campaign, as the job store keeps them.  The panel has a *)
(* queued or leased task; the host has a held one and one it is asked to    *)
(* stop.                                                                    *)
Kinds == {"plan", "main", "reboot", "health"}
OpenJob == {"queued", "leased", "held", "asked"}
Ends(kind) ==
    CASE kind = "plan" -> {"ok", "nochange", "refused", "failed"}
      [] kind = "main" -> {"ok", "reboot", "nochange", "failed", "lost", "absent"}
      [] kind = "reboot" -> {"ok", "failed"}
      [] kind = "health" -> {"ok", "failed", "lost"}
JobStates == {"none", "ok", "reboot", "nochange", "refused", "failed", "lost", "absent",
              "canceled"} \union OpenJob

Count(S, f) == Cardinality({t \in Hosts : f[t] \in S})
Working(f) == Count(InFlight \union {"planning"}, f)

Phases == {"idle", "listed", "claimed", "adopted", "expire", "plan", "submitted",
           "work", "offline", "claim", "launch"}

TypeOK ==
    /\ cstate \in CampaignStates /\ gateAdvanced \in BOOLEAN /\ started \in BOOLEAN
    /\ order \in CampaignOrders /\ pauseRead \in {"none", "pausing", "paused"}
    /\ runner \in Holders /\ lapsed \in BOOLEAN
    /\ ts \in [Hosts -> TargetStates]
    /\ claimedBy \in [Hosts -> Holders]
    /\ attached \subseteq {"reboot", "health"} \X Hosts
    /\ job \in [Kinds \X Hosts -> JobStates] /\ back \subseteq Hosts /\ late \subseteq Hosts
    /\ stale \subseteq Hosts /\ deadline \in BOOLEAN /\ faults \in 0..MaxFaults
    /\ pc \in [Runners -> Phases] /\ at \in [Runners -> 1..(N + 1)]
    /\ cst \in [Runners -> CampaignStates]
    /\ cgate \in [Runners -> BOOLEAN] /\ cstarted \in [Runners -> BOOLEAN]
    /\ copy \in [Runners -> [Hosts -> TargetStates]]
    /\ fresh \in [Runners -> SUBSET Hosts] /\ claimed \in [Runners -> SUBSET Hosts]
    /\ ordered \in [Runners -> SUBSET Hosts]
    /\ closed \subseteq Runners /\ unplanned \subseteq Runners

Init ==
    /\ order \in CampaignOrders
    /\ cstate = IF order.planned THEN "planning"
                ELSE IF order.approval THEN "awaiting_approval" ELSE "planned"
    /\ gateAdvanced = FALSE /\ started = FALSE
    /\ pauseRead = "none" /\ runner = "nobody" /\ lapsed = FALSE
    /\ ts = [t \in Hosts |-> "pending"] /\ claimedBy = [t \in Hosts |-> "nobody"]
    /\ attached = {} /\ job = [j \in Kinds \X Hosts |-> "none"]
    /\ back = {} /\ late = {} /\ stale = {} /\ deadline = FALSE /\ faults = 0
    /\ pc = [r \in Runners |-> "idle"] /\ at = [r \in Runners |-> 1]
    /\ cst = [r \in Runners |-> "planned"] /\ cgate = [r \in Runners |-> FALSE]
    /\ cstarted = [r \in Runners |-> FALSE]
    /\ copy = [r \in Runners |-> [t \in Hosts |-> "pending"]]
    /\ fresh = [r \in Runners |-> {}] /\ ordered = [r \in Runners |-> {}]
    /\ claimed = [r \in Runners |-> {}]
    /\ closed = {} /\ unplanned = {}

----------------------------------------------------------------------------
(* What the steps of a pass are made of.                                    *)

Fault(kind) == kind \in Faults /\ faults < MaxFaults /\ faults' = faults + 1

EndPass(r) ==
    /\ pc' = [pc EXCEPT ![r] = "idle"] /\ at' = [at EXCEPT ![r] = 1]
    /\ cst' = [cst EXCEPT ![r] = "planned"] /\ cgate' = [cgate EXCEPT ![r] = FALSE]
    /\ cstarted' = [cstarted EXCEPT ![r] = FALSE]
    /\ copy' = [copy EXCEPT ![r] = [t \in Hosts |-> "pending"]]
    /\ fresh' = [fresh EXCEPT ![r] = {}] /\ ordered' = [ordered EXCEPT ![r] = {}]
    /\ claimed' = [claimed EXCEPT ![r] = {}]
    /\ closed' = closed \ {r} /\ unplanned' = unplanned \ {r}

(* The hosts a phase of the pass looks at, in rollout order: those of the   *)
(* copy in a state that concerns it.                                        *)
Concerned(phase) ==
    CASE phase = "work" -> InFlight \union {"planning"}
      [] phase = "offline" -> {"queued_offline"}
      [] OTHER -> TargetStates \ Finished

FromOffByOne(t, phase, f) ==
    Min({u \in t..N : f[u] \in Concerned(phase)} \union {N + 2})
From(t, phase, f) ==
    Min({u \in t..N : f[u] \in Concerned(phase)} \union {N + 1})

GoTo(r, phase) ==
    /\ pc' = [pc EXCEPT ![r] = phase]
    /\ at' = [at EXCEPT ![r] = From(1, phase, copy'[r])]
    /\ UNCHANGED <<cst, cgate, cstarted, claimed, unplanned>>

NextHost(r) ==
    /\ at' = [at EXCEPT ![r] = From(@ + 1, pc[r], copy'[r])]
    /\ UNCHANGED <<pc, cst, cgate, cstarted, ordered, claimed>>

(* A row that somebody else wrote is no longer the one the others read.     *)
Touched(T, r) == [q \in Runners |-> IF q = r THEN fresh[q] ELSE fresh[q] \ T]

(* updateTarget: the write goes in when the row still carries the revision, *)
(* the claim token and the state of the copy, and the move is a legal one.  *)
CanWrite(r, t, s) ==
    t \in fresh[r] /\ copy[r][t] = ts[t] /\ TargetMayBecome(copy[r][t], s)

Write(r, t, s) ==
    /\ CanWrite(r, t, s)
    /\ ts' = [ts EXCEPT ![t] = s] /\ copy' = [copy EXCEPT ![r][t] = s]
    /\ fresh' = Touched({t}, r)

(* finishTarget: a write that fails is logged, and the pass goes on.        *)
Settle(r, t, s) ==
    \/ Write(r, t, s)
    \/ ~CanWrite(r, t, s) /\ UNCHANGED <<ts, copy, fresh>>

(* SetState reads the row again when its revision moved: it goes in while   *)
(* the lease is the runner's and the state is the one the pass listed.      *)
CanSetState(r, to) == runner = r /\ cstate = cst[r] /\ MayBecome(cst[r], to)

SetState(r, to) ==
    /\ cstate' = IF CanSetState(r, to) THEN to ELSE cstate
    /\ started' = (started \/ (cstate' # cstate /\ to \in {"canary", "running"}))
    /\ UNCHANGED <<order, gateAdvanced, pauseRead>>

(* LockForLaunch, under which the tasks of plans and changes are created.   *)
MayLaunchOnState(r) == cstate \in Launching
MayLaunch(r) == runner = r /\ cstate \in Launching

----------------------------------------------------------------------------
(* The head of a pass (tick, advance).                                      *)

List(r) ==
    /\ pc[r] = "idle"
    /\ cstate \in Driven \/ (cstate = "paused" /\ \E t \in Hosts : ts[t] \in InFlight)
    /\ pc' = [pc EXCEPT ![r] = "listed"]
    /\ cst' = [cst EXCEPT ![r] = cstate] /\ cgate' = [cgate EXCEPT ![r] = gateAdvanced]
    /\ cstarted' = [cstarted EXCEPT ![r] = started]
    /\ UNCHANGED <<campaignVars, leaseVars, targetVars, hostVars, timeVars, copy, at,
                   ordered, claimed, closed, unplanned, fresh>>

FreeUnlessHeld(r) == runner \in {r, "nobody"}
LeaseIsFree(r) == runner \in {r, "nobody"} \/ lapsed

ClaimRunner(r) ==
    /\ pc[r] = "listed"
    /\ \/ /\ LeaseIsFree(r)
          /\ runner' = r /\ lapsed' = FALSE
          /\ pc' = [pc EXCEPT ![r] = "claimed"]
          /\ UNCHANGED <<copyVars, at, ordered, claimed, closed, unplanned, fresh>>
       \/ ~LeaseIsFree(r) /\ EndPass(r) /\ UNCHANGED leaseVars
    /\ UNCHANGED <<campaignVars, targetVars, hostVars, timeVars>>

AdoptTargets(r) ==
    /\ pc[r] = "claimed"
    /\ LET adopted == {t \in Hosts : /\ cst[r] # "awaiting_approval"
                                     /\ claimedBy[t] # r /\ ts[t] \notin Finished}
       IN /\ claimedBy' = [t \in Hosts |-> IF t \in adopted THEN r ELSE claimedBy[t]]
          /\ fresh' = Touched(adopted, r)
    /\ pc' = [pc EXCEPT ![r] = "adopted"]
    /\ UNCHANGED <<campaignVars, leaseVars, ts, attached, hostVars, timeVars, copyVars,
                   at, ordered, claimed, closed, unplanned>>

(* advance: a campaign that has not started is watched for the age of its   *)
(* plans; otherwise the targets are read.                                   *)
ReadTargets(r) ==
    /\ pc[r] = "adopted"
    /\ LET waits == cst[r] = "awaiting_approval" \/ (cst[r] = "planned" /\ ~cstarted[r])
           old == waits /\ stale # {}
       IN \/ /\ cst[r] = "awaiting_approval" /\ ~old
             /\ EndPass(r)
          \/ /\ cst[r] # "awaiting_approval" \/ old
             /\ copy' = [copy EXCEPT ![r] = ts] /\ fresh' = [fresh EXCEPT ![r] = Hosts]
             /\ GoTo(r, IF old THEN "expire" ELSE IF cst[r] = "planning" THEN "plan" ELSE "work")
             /\ ordered' = [ordered EXCEPT ![r] = {t \in Hosts : job[<<"plan", t>>] # "none"}]
             /\ UNCHANGED closed
    /\ UNCHANGED <<campaignVars, leaseVars, targetVars, hostVars, timeVars>>

(* expire: no host starts on a plan past its limit.                         *)
Expire(r) ==
    /\ pc[r] = "expire"
    /\ \/ /\ at[r] <= N
          /\ \/ Settle(r, at[r], "skipped") /\ UNCHANGED faults
             \/ Fault("refused") /\ UNCHANGED <<ts, copy, fresh>>
          /\ NextHost(r) /\ UNCHANGED <<campaignVars, closed, unplanned>>
       \/ /\ at[r] = N + 1 /\ SetState(r, "expired") /\ EndPass(r)
          /\ UNCHANGED <<ts, faults>>
    /\ UNCHANGED <<leaseVars, claimedBy, attached, hostVars, stale, deadline>>

----------------------------------------------------------------------------
(* The planning phase (plan).  No wave, no threshold and no limit holds it. *)

(* launch: the task and the move of the host in one transaction, under the  *)
(* lock of the campaign; anything that does not fit ends the pass.          *)
LaunchThenMove(r, t, kind, s) ==
    /\ MayLaunch(r) /\ Settle(r, t, s)
    /\ job' = [job EXCEPT ![<<kind, t>>] = "queued"]
Launch(r, t, kind, s) ==
    /\ MayLaunch(r) /\ Write(r, t, s)
    /\ job' = [job EXCEPT ![<<kind, t>>] = "queued"]

LaunchFails(r, t, s) == ~MayLaunch(r) \/ ~CanWrite(r, t, s)

(* holdOffline: the offline policy of the campaign.                         *)
Hold(r, t) ==
    \/ (order.offline = "skip" \/ deadline) /\ Settle(r, t, "skipped")
    \/ order.offline # "skip" /\ ~deadline /\ Write(r, t, "queued_offline")

HoldFails(r, t) ==
    order.offline # "skip" /\ ~deadline /\ ~CanWrite(r, t, "queued_offline")

Unavailable(r, t) == Fault("host") /\ Settle(r, t, "skipped")

(* What the host's answer to its plan makes of the host.                    *)
PlanVerdict(r, t, answer) ==
    \/ answer \in {"failed", "canceled"} /\ Settle(r, t, "failed") /\ UNCHANGED stale
    \/ answer = "refused" /\ Settle(r, t, "ineligible") /\ UNCHANGED stale
    \/ answer = "nochange" /\ Settle(r, t, "succeeded") /\ UNCHANGED stale
    \/ answer = "ok" /\ Write(r, t, "pending") /\ stale' = stale \ {t}

OrderPlan(r) ==
    LET t == at[r] IN
    /\ pc[r] = "plan" /\ t <= N /\ copy[r][t] = "pending" /\ t \notin ordered[r]
    /\ \/ /\ \/ Launch(r, t, "plan", "planning") /\ UNCHANGED faults
             \/ Hold(r, t) /\ UNCHANGED <<job, faults>>
             \/ MayLaunch(r) /\ Fault("refused") /\ Settle(r, t, "failed") /\ UNCHANGED job
             \/ Unavailable(r, t) /\ UNCHANGED job
          /\ NextHost(r) /\ unplanned' = unplanned \union {r} /\ UNCHANGED closed
       \/ /\ LaunchFails(r, t, "planning") \/ HoldFails(r, t)
          /\ EndPass(r) /\ UNCHANGED <<ts, job, faults>>
    /\ UNCHANGED <<campaignVars, leaseVars, claimedBy, attached, back, late, stale, deadline>>

(* recheckOfflinePlanning; a host that is back is ordered its plan next.    *)
RecheckOffline(r) ==
    LET t == at[r] IN
    /\ pc[r] = "plan" /\ t <= N /\ copy[r][t] = "queued_offline"
    /\ \/ /\ Write(r, t, "pending") /\ ordered' = [ordered EXCEPT ![r] = @ \ {t}]
          /\ UNCHANGED <<pc, at, cst, cgate, cstarted, claimed, closed, unplanned, faults>>
       \/ /\ \/ deadline /\ Settle(r, t, "skipped") /\ UNCHANGED faults
             \/ ~deadline /\ UNCHANGED <<ts, copy, fresh, faults>>
             \/ Unavailable(r, t)
          /\ NextHost(r) /\ unplanned' = unplanned \union {r} /\ UNCHANGED closed
       \/ ~CanWrite(r, t, "pending") /\ EndPass(r) /\ UNCHANGED <<ts, faults>>
    /\ UNCHANGED <<campaignVars, leaseVars, claimedBy, attached, hostVars, stale, deadline>>

CollectPlan(r) ==
    LET t == at[r] answer == job[<<"plan", t>>] IN
    /\ pc[r] = "plan" /\ t <= N
    /\ copy[r][t] = "planning" \/ (copy[r][t] = "pending" /\ t \in ordered[r])
    /\ \/ /\ answer \in OpenJob /\ UNCHANGED <<ts, copy, fresh, stale>>
          /\ NextHost(r) /\ unplanned' = unplanned \union {r} /\ UNCHANGED closed
       \/ PlanVerdict(r, t, answer) /\ NextHost(r) /\ UNCHANGED <<closed, unplanned>>
       \/ /\ answer = "ok" /\ ~CanWrite(r, t, "pending")
          /\ EndPass(r) /\ UNCHANGED <<ts, stale>>
    /\ UNCHANGED <<campaignVars, leaseVars, claimedBy, attached, hostVars, deadline, faults>>

(* A host of another state is passed over and does not count as settled.    *)
PlanNothing(r) ==
    /\ pc[r] = "plan" /\ at[r] <= N
    /\ copy[r][at[r]] \notin {"pending", "planning", "queued_offline"}
    /\ UNCHANGED <<copy, fresh>> /\ NextHost(r) /\ unplanned' = unplanned \union {r}
    /\ UNCHANGED <<campaignVars, leaseVars, targetVars, hostVars, timeVars, closed>>

Successes(f) == Count({"succeeded"}, f)
FailuresKnown(f) == Count({"failed"}, f)
Failures(f) == Count({"failed", "unknown"}, f)

(* settleCampaignState                                                      *)
Completed(f) ==
    CASE Failures(f) > 0 /\ Successes(f) = 0 -> "failed"
      [] Failures(f) > 0 /\ Successes(f) > 0 -> "completed_with_issues"
      [] OTHER -> "completed"

(* finishPlanning.  The write that opens the campaign names its state and   *)
(* nothing of the lease.  Where no plan is on record the hosts of the copy  *)
(* that are open are those whose row moved: failPlanning cannot write them. *)
FinishPlanning(r) ==
    LET over == \A t \in Hosts : copy[r][t] \in Finished
        plans == {t \in Hosts : job[<<"plan", t>>] \in {"ok", "nochange"}}
    IN
    /\ pc[r] = "plan" /\ at[r] = N + 1
    /\ \/ r \in unplanned /\ UNCHANGED campaignVars
       \/ /\ r \notin unplanned /\ (IF over THEN Successes(copy[r]) = 0 ELSE plans = {})
          /\ SetState(r, "plan_failed")
       \/ /\ r \notin unplanned /\ over /\ Successes(copy[r]) > 0
          /\ SetState(r, Completed(copy[r]))
       \/ /\ r \notin unplanned /\ ~over /\ plans # {}
          /\ cstate' = IF cstate # "planning" THEN cstate
                       ELSE IF order.approval THEN "awaiting_approval" ELSE "planned"
          /\ UNCHANGED <<order, gateAdvanced, started, pauseRead>>
    /\ EndPass(r)
    /\ UNCHANGED <<leaseVars, targetVars, hostVars, timeVars>>

----------------------------------------------------------------------------
(* The hosts under way (progressTarget), one after the other.  A failure on *)
(* one host is logged and the next one is looked at.                        *)

(* What a task of a host that is over makes of the host.                    *)
MainVerdictOfExpired(end) ==
    CASE end \in {"lost", "canceled"} -> "canceled"
      [] end = "nochange" -> "succeeded"
      [] OTHER -> end
MainVerdict(end) ==
    CASE end = "lost" -> "unknown"
      [] end = "absent" -> "absent"
      [] end = "canceled" -> "canceled"
      [] end = "failed" -> "failed"
      [] end = "nochange" -> "succeeded"

HealthVerdict(end) ==
    CASE end = "ok" -> "succeeded" [] end = "lost" -> "unknown" [] OTHER -> "failed"

(* followJob: where the open task stands.  One asked to stop stands where   *)
(* it stood.                                                                *)
Follow(r, t, task) ==
    LET standing == IF task = "held" THEN "running" ELSE "dispatched" IN
    IF task = "asked" \/ copy[r][t] = standing
    THEN UNCHANGED <<ts, copy, fresh>>
    ELSE Settle(r, t, standing)

(* The reboot and the verification are ordered in a transaction of their    *)
(* own, under a key that names the campaign and the host; the host moves in *)
(* the next one.                                                            *)
Submit(r, kind, t) ==
    /\ job' = [job EXCEPT ![<<kind, t>>] = IF @ = "none" THEN "queued" ELSE @]
    /\ pc' = [pc EXCEPT ![r] = "submitted"]
    /\ UNCHANGED <<ts, at, cst, cgate, cstarted, copy, fresh, ordered, claimed, closed,
                   unplanned, stale, faults>>

Done(r) == NextHost(r) /\ UNCHANGED <<job, closed, unplanned>>

(* The change, and the reboot after it, are done: the host has succeeded, or *)
(* its units are verified first.                                            *)
VerifyRebooted(r, t) ==
    \/ /\ ~order.verified \/ copy[r][t] # "rebooting"
       /\ Settle(r, t, "succeeded") /\ Done(r) /\ UNCHANGED <<stale, faults>>
    \/ order.verified /\ copy[r][t] = "rebooting" /\ Submit(r, "health", t)
Verify(r, t) ==
    \/ /\ ~order.verified /\ Settle(r, t, "succeeded") /\ Done(r)
       /\ UNCHANGED <<stale, faults>>
    \/ order.verified /\ Submit(r, "health", t)

AtHost(r, states) == pc[r] = "work" /\ at[r] <= N /\ copy[r][at[r]] \in states

AfterMainJob(r) ==
    LET t == at[r] task == job[<<"main", t>>] IN
    /\ AtHost(r, {"dispatched", "running"})
    /\ \/ task \in OpenJob /\ Follow(r, t, task) /\ Done(r) /\ UNCHANGED <<stale, faults>>
       \/ /\ task \in {"lost", "absent", "canceled", "failed", "nochange"}
          /\ Settle(r, t, MainVerdict(task)) /\ Done(r) /\ UNCHANGED <<stale, faults>>
       \/ task = "ok" /\ Verify(r, t)
       \/ task = "reboot" /\ Submit(r, "reboot", t)
       \/ /\ task = "reboot" \/ (task = "ok" /\ order.verified)
          /\ Fault("refused") /\ Settle(r, t, "failed") /\ Done(r) /\ UNCHANGED stale
    /\ UNCHANGED <<campaignVars, leaseVars, claimedBy, attached, back, late, deadline>>

(* startStep, after submitJob: the host names its task and moves on, or the *)
(* row has moved and the next pass orders the same task again.              *)
StartStep(r) ==
    LET t == at[r]
        kind == IF copy[r][t] \in {"dispatched", "running"} /\ job[<<"main", t>>] = "reboot"
                THEN "reboot" ELSE "health"
        s == IF kind = "reboot" THEN "rebooting" ELSE "verifying"
    IN
    /\ pc[r] = "submitted"
    /\ Settle(r, t, s)
    /\ attached' = IF CanWrite(r, t, s) THEN attached \union {<<kind, t>>} ELSE attached
    /\ pc' = [pc EXCEPT ![r] = "work"]
    /\ at' = [at EXCEPT ![r] = From(@ + 1, "work", copy'[r])]
    /\ UNCHANGED <<campaignVars, leaseVars, claimedBy, hostVars, timeVars, cst, cgate,
                   cstarted, ordered, claimed, closed, unplanned>>

(* The host is back when its session and a new boot are seen together; a    *)
(* host that is late fails, and stops the campaign when its window is over. *)
AfterReboot(r) ==
    LET t == at[r] IN
    /\ AtHost(r, {"rebooting"})
    /\ \/ /\ job[<<"reboot", t>>] \in {"failed", "canceled"}
          /\ Settle(r, t, "failed") /\ Done(r) /\ UNCHANGED <<stale, faults>>
       \/ /\ job[<<"reboot", t>>] \notin {"failed", "canceled"}
          /\ \/ t \in back /\ Verify(r, t)
             \/ t \in late /\ Settle(r, t, "failed") /\ Done(r) /\ UNCHANGED <<stale, faults>>
             \/ /\ t \in late /\ Fault("window") /\ Write(r, t, "failed")
                /\ NextHost(r) /\ closed' = closed \union {r}
                /\ UNCHANGED <<job, unplanned, stale>>
             \/ /\ t \notin late /\ UNCHANGED <<ts, copy, fresh, stale, faults>>
                /\ Done(r)
    /\ UNCHANGED <<campaignVars, leaseVars, claimedBy, attached, back, late, deadline>>

AfterHealthCheck(r) ==
    LET t == at[r] task == job[<<"health", t>>] IN
    /\ AtHost(r, {"verifying"})
    /\ \/ task \in OpenJob /\ UNCHANGED <<ts, copy, fresh>>
       \/ task \notin OpenJob /\ Settle(r, t, HealthVerdict(task))
    /\ Done(r)
    /\ UNCHANGED <<campaignVars, leaseVars, claimedBy, attached, back, late, timeVars>>

(* afterReplan: a plan that differs from the approved one ends the host.    *)
AfterReplan(r) ==
    LET t == at[r] answer == job[<<"plan", t>>] IN
    /\ AtHost(r, {"planning"})
    /\ \/ answer \in OpenJob /\ UNCHANGED <<ts, copy, fresh, stale>>
       \/ PlanVerdict(r, t, answer)
       \/ answer = "ok" /\ Settle(r, t, "skipped") /\ UNCHANGED stale
       \/ answer = "ok" /\ ~CanWrite(r, t, "pending") /\ UNCHANGED <<ts, copy, fresh, stale>>
    /\ Done(r)
    /\ UNCHANGED <<campaignVars, leaseVars, claimedBy, attached, back, late, deadline, faults>>

----------------------------------------------------------------------------
(* The conclusions, in the order advance, settle and drain draw them.       *)

PauseState(f) == IF Count(InFlight, f) = 0 THEN "paused" ELSE "pausing"

ThresholdExceeded(f) ==
    \/ order.failures > 0 /\ Failures(f) >= order.failures
    \/ /\ order.percent > 0 /\ Count(Finished, f) > 0
       /\ (Failures(f) * 100) \div Count(Finished, f) >= order.percent

(* Lost sessions are told from the unknown outcomes by their code; every    *)
(* unknown host of the model is one.                                        *)
ConnectivityLost(f) == order.lost > 0 /\ Count({"unknown"}, f) >= order.lost

Decide(r) ==
    LET f == copy[r]
        over == \A t \in Hosts : f[t] \in Finished
        drained == Count(InFlight, f) = 0
        stopped == r \in closed \/ ThresholdExceeded(f) \/ ConnectivityLost(f)
        driving == cst[r] \notin {"canceling", "pausing", "paused"}
    IN
    /\ pc[r] = "work" /\ at[r] = N + 1
    /\ \/ cst[r] = "canceling" /\ drained /\ SetState(r, "canceled") /\ EndPass(r)
       \/ cst[r] = "pausing" /\ drained /\ SetState(r, "paused") /\ EndPass(r)
       \/ /\ cst[r] = "paused" \/ (cst[r] \in {"canceling", "pausing"} /\ ~drained)
          /\ EndPass(r) /\ UNCHANGED campaignVars
       \/ driving /\ stopped /\ SetState(r, PauseState(f)) /\ EndPass(r)
       \/ driving /\ ~stopped /\ over /\ SetState(r, Completed(f)) /\ EndPass(r)
       \/ /\ driving /\ ~stopped /\ ~over
          /\ UNCHANGED <<campaignVars, copy, fresh, ordered, closed>> /\ GoTo(r, "offline")
    /\ UNCHANGED <<leaseVars, targetVars, hostVars, timeVars>>

(* serviceOfflineQueue, on every pass and whatever the wave.                *)
ServiceOffline(r) ==
    LET t == at[r]
        back_to == IF order.offline = "replan" THEN "planning" ELSE "pending"
    IN
    /\ pc[r] = "offline" /\ t <= N
    /\ \/ /\ \/ deadline /\ Settle(r, t, "skipped") /\ UNCHANGED <<job, faults>>
             \/ ~deadline /\ UNCHANGED <<ts, copy, fresh, job, faults>>
             \/ Unavailable(r, t) /\ UNCHANGED job
             \/ order.offline # "replan" /\ Write(r, t, "pending") /\ UNCHANGED <<job, faults>>
             \/ order.offline = "replan" /\ Launch(r, t, "plan", "planning") /\ UNCHANGED faults
             \/ /\ order.offline = "replan" /\ MayLaunch(r)
                /\ Fault("refused") /\ Settle(r, t, "failed") /\ UNCHANGED job
          /\ NextHost(r) /\ UNCHANGED <<closed, unplanned>>
       \/ /\ ~CanWrite(r, t, back_to) \/ (order.offline = "replan" /\ ~MayLaunch(r))
          /\ EndPass(r) /\ UNCHANGED <<ts, job, faults>>
    /\ UNCHANGED <<campaignVars, leaseVars, claimedBy, attached, back, late, stale, deadline>>

(* The wave the campaign is in: the lowest one with a host to start or to   *)
(* settle.  The wave before it is then settled by definition (waveFinished).*)
HeldWaves(f) == {Wave(t) : t \in {u \in Hosts : HoldsWave(u, f[u])}}
CurrentWave(f) == Min(HeldWaves(f))

CanaryExercisedNothing(f) ==
    LET S == {t \in Hosts : Wave(t) = 0} IN
    /\ order.canary > 0 /\ \A t \in S : f[t] # "succeeded"
    /\ \E t \in S : f[t] = "absent"

(* The gate and the phase.  The maintenance window and the leases of the    *)
(* budgets may hold a pass back.                                            *)
GateOffByOne(r, wave) ==
    wave > 1 /\ ~cgate[r] /\ (order.gate \/ CanaryExercisedNothing(copy[r]))
Gate(r, wave) ==
    wave > 0 /\ ~cgate[r] /\ (order.gate \/ CanaryExercisedNothing(copy[r]))

EnterWave(r) ==
    LET f == copy[r]
        wave == CurrentWave(f)
        gate == Gate(r, wave)
        desired == IF wave = 0 /\ cst[r] # "running" THEN "canary" ELSE "running"
    IN
    /\ pc[r] = "offline" /\ at[r] = N + 1
    /\ \/ HeldWaves(f) = {} /\ EndPass(r) /\ UNCHANGED <<campaignVars, faults>>
       \/ Fault("hold") /\ EndPass(r) /\ UNCHANGED campaignVars
       \/ /\ HeldWaves(f) # {} /\ gate /\ EndPass(r) /\ UNCHANGED faults
          /\ IF cst[r] = "manual_gate" THEN UNCHANGED campaignVars
                                       ELSE SetState(r, "manual_gate")
       \/ /\ HeldWaves(f) # {} /\ ~gate /\ UNCHANGED faults
          /\ \/ /\ cst[r] = desired \/ CanSetState(r, desired)
                /\ IF cst[r] = desired THEN UNCHANGED campaignVars ELSE SetState(r, desired)
                /\ pc' = [pc EXCEPT ![r] = "claim"] /\ cst' = [cst EXCEPT ![r] = desired]
                /\ UNCHANGED <<at, cgate, cstarted, copy, fresh, ordered, claimed, closed,
                               unplanned>>
             \/ /\ cst[r] # desired /\ ~CanSetState(r, desired)
                /\ EndPass(r) /\ UNCHANGED campaignVars
    /\ UNCHANGED <<leaseVars, targetVars, hostVars, stale, deadline>>

(* ClaimWaveTargets: the first hosts of the wave that wait, as the rows     *)
(* read now, under the runner's claim or one that has run out.              *)
ClaimWave(r) ==
    LET limit == MaxConcurrent - Working(copy[r]) IN
    /\ pc[r] = "claim"
    /\ \/ limit <= 0 /\ EndPass(r) /\ UNCHANGED claimedBy
       \/ /\ limit > 0
          /\ \E ranOut \in SUBSET {t \in Hosts : claimedBy[t] # r} :
             LET open == {t \in Hosts :
                            /\ Wave(t) = CurrentWave(copy[r])
                            /\ ts[t] \in {"pending", "awaiting_budget"}
                            /\ claimedBy[t] = r \/ t \in ranOut}
                 first == {t \in open : Cardinality({u \in open : u < t}) < limit}
             IN /\ ranOut \subseteq open
                /\ claimed' = [claimed EXCEPT ![r] =
                                 {t \in first : copy[r][t] \in Waiting \ {"queued_offline"}}]
                /\ claimedBy' = [t \in Hosts |-> IF t \in first THEN r ELSE claimedBy[t]]
                /\ fresh' = [Touched(first, r) EXCEPT ![r] = @ \union claimed'[r]]
          /\ pc' = [pc EXCEPT ![r] = "launch"]
          /\ UNCHANGED <<copyVars, at, ordered, closed, unplanned>>
    /\ UNCHANGED <<campaignVars, leaseVars, ts, attached, hostVars, timeVars>>

(* launchWave, host by host: what may keep the host back, then the launch   *)
(* of its task.                                                             *)
LaunchHost(r) ==
    LET t == Min(claimed[r])
        more == /\ claimed' = [claimed EXCEPT ![r] = @ \ {t}]
                /\ UNCHANGED <<pc, at, cst, cgate, cstarted, ordered, closed, unplanned>>
    IN
    /\ pc[r] = "launch" /\ claimed[r] # {}
    /\ \/ /\ \/ Hold(r, t) /\ UNCHANGED <<job, faults>>
             \/ Unavailable(r, t) /\ UNCHANGED job
             \/ Fault("hold") /\ Write(r, t, "awaiting_budget") /\ UNCHANGED job
             \/ /\ MayLaunch(r) /\ order.planned /\ t \in stale
                /\ Settle(r, t, "failed") /\ UNCHANGED <<job, faults>>
             \/ MayLaunch(r) /\ Fault("refused") /\ Settle(r, t, "failed") /\ UNCHANGED job
             \/ /\ ~(order.planned /\ t \in stale)
                /\ Launch(r, t, "main", "dispatched") /\ UNCHANGED faults
          /\ more /\ UNCHANGED campaignVars
       \/ /\ LaunchFails(r, t, "dispatched") \/ HoldFails(r, t)
          /\ EndPass(r) /\ UNCHANGED <<campaignVars, ts, job, faults>>
       \/ /\ Fault("hold") /\ SetState(r, PauseState(copy[r]))
          /\ EndPass(r) /\ UNCHANGED <<ts, job>>
    /\ UNCHANGED <<leaseVars, claimedBy, attached, back, late, stale, deadline>>

WaveIsOut(r) ==
    /\ pc[r] = "launch" /\ claimed[r] = {} /\ EndPass(r)
    /\ UNCHANGED <<campaignVars, leaseVars, targetVars, hostVars, timeVars>>

(* keep: a long wave renews the lease, or learns that it is gone.           *)
RenewRunner(r) ==
    /\ pc[r] = "launch"
    /\ \/ runner = r /\ lapsed /\ lapsed' = FALSE /\ UNCHANGED <<copyVars, passVars, fresh>>
       \/ runner # r /\ EndPass(r) /\ UNCHANGED lapsed
    /\ UNCHANGED <<campaignVars, runner, targetVars, hostVars, timeVars>>

PassFails(r) ==
    /\ pc[r] # "idle" /\ Fault("pass") /\ EndPass(r)
    /\ UNCHANGED <<campaignVars, leaseVars, targetVars, hostVars, stale, deadline>>

(* The process goes, orderly (releaseLeases gives the lease back) or not.   *)
(* The one that replaces it has an identity of its own.                     *)
Stop(r) ==
    /\ Fault("stop") /\ EndPass(r)
    /\ \E orderly \in BOOLEAN :
       runner' = IF runner # r THEN runner ELSE IF orderly THEN "nobody" ELSE "dead"
    /\ claimedBy' = [t \in Hosts |-> IF claimedBy[t] = r THEN "dead" ELSE claimedBy[t]]
    /\ UNCHANGED <<campaignVars, lapsed, ts, attached, hostVars, stale, deadline>>

----------------------------------------------------------------------------
(* The operators.                                                           *)

Approve ==
    /\ cstate = "awaiting_approval" /\ cstate' = "planned"
    /\ UNCHANGED <<order, gateAdvanced, started, pauseRead, leaseVars, targetVars,
                   hostVars, timeVars, copyVars, passVars, fresh>>

(* One statement, in two steps: whether a host is in flight is read on its  *)
(* snapshot, and the row is written once no launch holds it.                *)
PauseReads ==
    /\ cstate \in Pausable /\ pauseRead = "none" /\ pauseRead' = PauseState(ts)
    /\ UNCHANGED <<order, cstate, gateAdvanced, started, leaseVars, targetVars,
                   hostVars, timeVars, copyVars, passVars, fresh>>

Pause ==
    /\ pauseRead # "none" /\ pauseRead' = "none"
    /\ cstate' = IF cstate \in Pausable THEN pauseRead ELSE cstate
    /\ UNCHANGED <<order, gateAdvanced, started, leaseVars, targetVars, hostVars,
                   timeVars, copyVars, passVars, fresh>>

Resume ==
    /\ cstate \in {"paused", "pausing"} /\ cstate' = "planned"
    /\ UNCHANGED <<order, gateAdvanced, started, pauseRead, leaseVars, targetVars,
                   hostVars, timeVars, copyVars, passVars, fresh>>

Advance ==
    /\ cstate = "manual_gate" /\ cstate' = "running" /\ gateAdvanced' = TRUE
    /\ UNCHANGED <<order, started, pauseRead, leaseVars, targetVars, hostVars, timeVars,
                   copyVars, passVars, fresh>>

(* Cancel: the hosts that have not started end, the tasks still queued are  *)
(* taken back, those the hosts hold are asked to stop - the follow-ups the  *)
(* hosts name excepted - and the campaign drains what is left.              *)
Cancel ==
    LET kept == attached
        takenBack == {j \in (Kinds \X Hosts) \ kept : job[j] = "queued"}
        asked == {j \in (Kinds \X Hosts) \ kept : job[j] = "held"}
    IN
    /\ cstate \notin Terminal \union {"canceling"}
    /\ ts' = [t \in Hosts |->
                IF \/ ts[t] \in Unstarted
                   \/ <<"main", t>> \in takenBack /\ ts[t] \in {"dispatched", "running"}
                THEN "canceled" ELSE ts[t]]
    /\ job' = [j \in Kinds \X Hosts |-> IF j \in takenBack THEN "canceled"
                                        ELSE IF j \in asked THEN "asked" ELSE job[j]]
    /\ fresh' = Touched({t \in Hosts : ts[t] \notin Finished}, "nobody")
    /\ cstate' = IF Count(InFlight, ts') > 0 THEN "canceling" ELSE "canceled"
    /\ UNCHANGED <<order, gateAdvanced, started, pauseRead, leaseVars, claimedBy,
                   attached, back, late, timeVars, copyVars, passVars>>

SkipTarget ==
    /\ cstate \notin Terminal
    /\ \E t \in Hosts : /\ ts[t] = "queued_offline" /\ ts' = [ts EXCEPT ![t] = "skipped"]
                        /\ fresh' = Touched({t}, "nobody")
    /\ UNCHANGED <<campaignVars, leaseVars, claimedBy, attached, hostVars, timeVars,
                   copyVars, passVars>>

----------------------------------------------------------------------------
(* The hosts, as the job store shows them: a queued task is leased and      *)
(* handed over, or its time runs out; a held one ends; one asked to stop is *)
(* canceled, goes on, or ends as it would have.                             *)
HostMoves(job2) ==
    /\ job' = job2
    /\ UNCHANGED <<campaignVars, leaseVars, targetVars, back, late, stale, deadline,
                   copyVars, passVars, fresh>>

Lease(j) == job[j] = "queued" /\ HostMoves([job EXCEPT ![j] = "leased"]) /\ UNCHANGED faults
HandOver(j) == job[j] = "leased" /\ HostMoves([job EXCEPT ![j] = "held"]) /\ UNCHANGED faults
LeaseReturns(j) == job[j] = "leased" /\ HostMoves([job EXCEPT ![j] = "queued"]) /\ Fault("task")
TaskExpires(j) ==
    /\ job[j] = "queued" /\ Fault("task")
    /\ HostMoves([job EXCEPT ![j] = IF j[1] = "main" THEN "lost" ELSE "failed"])
TaskEnds(j) ==
    /\ job[j] \in {"held", "asked"} /\ UNCHANGED faults
    /\ \E end \in Ends(j[1]) \intersect Outcomes : HostMoves([job EXCEPT ![j] = end])
TaskStops(j) ==
    /\ job[j] = "asked" /\ UNCHANGED faults
    /\ \E answer \in {"canceled", "held"} : HostMoves([job EXCEPT ![j] = answer])

HostIsBack(t) ==
    /\ t \notin back /\ job[<<"reboot", t>>] \in {"held", "ok"} /\ back' = back \union {t}
    /\ UNCHANGED <<campaignVars, leaseVars, targetVars, job, late, timeVars, copyVars,
                   passVars, fresh>>

(* The reboot timeout counts from the move to rebooting.                    *)
RebootIsLate(t) ==
    /\ t \notin late /\ ts[t] = "rebooting" /\ late' = late \union {t}
    /\ UNCHANGED <<campaignVars, leaseVars, targetVars, job, back, timeVars, copyVars,
                   passVars, fresh>>

(* Time: the deadline for offline hosts, the limit on plans, the lease.     *)
DeadlinePasses ==
    /\ order.offline # "skip" /\ ~deadline /\ deadline' = TRUE
    /\ UNCHANGED <<campaignVars, leaseVars, targetVars, hostVars, stale, faults, copyVars,
                   passVars, fresh>>

PlansAge ==
    /\ "age" \in Faults
    /\ stale' = {t \in Hosts : job[<<"plan", t>>] \in {"ok", "nochange"}} /\ stale' # stale
    /\ UNCHANGED <<campaignVars, leaseVars, targetVars, hostVars, deadline, faults, copyVars,
                   passVars, fresh>>

LeaseLapses ==
    /\ runner # "nobody" /\ ~lapsed /\ lapsed' = TRUE
    /\ IF runner = "dead" THEN UNCHANGED faults ELSE Fault("lapse")
    /\ UNCHANGED <<campaignVars, runner, targetVars, hostVars, stale, deadline, copyVars,
                   passVars, fresh>>

----------------------------------------------------------------------------
PassStep(r) ==
    \/ List(r) \/ ClaimRunner(r) \/ AdoptTargets(r) \/ ReadTargets(r) \/ Expire(r)
    \/ OrderPlan(r) \/ RecheckOffline(r) \/ CollectPlan(r) \/ PlanNothing(r)
    \/ FinishPlanning(r) \/ AfterMainJob(r) \/ StartStep(r) \/ AfterReboot(r)
    \/ AfterHealthCheck(r) \/ AfterReplan(r) \/ Decide(r)
    \/ ServiceOffline(r) \/ EnterWave(r) \/ ClaimWave(r) \/ LaunchHost(r) \/ WaveIsOut(r)

Operator ==
    \/ "approve" \in Orders /\ Approve
    \/ "pause" \in Orders /\ (PauseReads \/ Pause \/ Resume)
    \/ "advance" \in Orders /\ Advance
    \/ "cancel" \in Orders /\ Cancel
    \/ "skip" \in Orders /\ SkipTarget

HostStep(t) ==
    \/ \E kind \in Kinds : LET j == <<kind, t>> IN
         \/ Lease(j) \/ HandOver(j) \/ LeaseReturns(j) \/ TaskExpires(j)
         \/ TaskEnds(j) \/ TaskStops(j)
    \/ HostIsBack(t) \/ RebootIsLate(t)

Next ==
    \/ \E r \in Runners : PassStep(r) \/ RenewRunner(r) \/ PassFails(r) \/ Stop(r)
    \/ Operator \/ \E t \in Hosts : HostStep(t)
    \/ DeadlinePasses \/ PlansAge \/ LeaseLapses

Spec == Init /\ [][Next]_vars

Served(t) ==
    \E kind \in Kinds : LET j == <<kind, t>> IN Lease(j) \/ HandOver(j) \/ TaskEnds(j)

(* The ticker of every orchestrator goes on; the job store brings each task *)
(* to the host and to an end (Jobs); a reboot ends or is late; the deadline *)
(* and the lease of a process that is gone run out.                         *)
Fairness ==
    /\ \A r \in Runners : WF_vars(PassStep(r))
    /\ \A t \in Hosts : WF_vars(Served(t)) /\ WF_vars(RebootIsLate(t))
    /\ WF_vars(DeadlinePasses) /\ WF_vars(runner = "dead" /\ LeaseLapses)

FairSpec == Spec /\ Fairness

----------------------------------------------------------------------------
(* What holds of the campaign.                                              *)

Rolled(s) == CASE s = "queued_offline" -> "away" [] s \in InFlight -> "working"
               [] s \in Finished -> "settled" [] OTHER -> "waiting"

(* The canary comes first in every campaign.  Where offline hosts are       *)
(* waited for, a wave starts without those that are away, and one that      *)
(* comes back - or that a runner whose lease is gone, with a late look at   *)
(* the targets, takes back - does not hold back a wave entered before: the  *)
(* later waves are then one.                                                *)
Barrier(t) == IF Wave(t) > 0 /\ order.offline # "skip" THEN 1 ELSE Wave(t)

Ro == INSTANCE Rollout WITH
        wave <- [t \in Hosts |-> Barrier(t)],
        phase <- CASE cstate \in Launching -> "open" [] cstate \in Terminal -> "over"
                   [] OTHER -> "held",
        host <- [t \in Hosts |-> Rolled(ts[t])]

(* Whoever drives the campaign - two runners of which one does not know yet *)
(* that its lease is gone included - a host starts only while the campaign  *)
(* is open, within max_concurrent and behind the barrier of its wave        *)
(* (launchWave, LockForLaunch), and an end is final (updateTarget, SetState,*)
(* Cancel).                                                                 *)
ImplementsRollout == Ro!RolloutSpec

(* No host of a wave starts before somebody let the campaign past its gate  *)
(* (enterGate, Advance): a pause, a resume and a change of runner in between*)
(* included.                                                                *)
GateIsHonoured ==
    order.gate => \A t \in Hosts : Wave(t) > 0 /\ ts[t] \in InFlight => gateAdvanced

(* An open task of the change has a host that follows it: no pass, launch   *)
(* or cancel leaves one running for a host that is settled or still waits   *)
(* (launch, Cancel).  Plans that run out are the exception: a runner that   *)
(* listed the campaign before its first host started skips that host.       *)
EveryTaskIsFollowed ==
    \A t \in Hosts : job[<<"main", t>>] \in OpenJob => ts[t] \in {"dispatched", "running"}

(* A host that ends canceled has not run the change (Cancel, targetOutcome).*)
CanceledHasNotRun ==
    \A t \in Hosts : ts[t] = "canceled" => job[<<"main", t>>] \in {"none", "canceled"}

(* A campaign that ends on its hosts' word or is canceled has no host left  *)
(* open, and says completed only when none failed (complete, drain).        *)
EndIsTheHostsEnd ==
    /\ cstate \in {"completed", "completed_with_issues", "failed", "canceled"}
          => \A t \in Hosts : ts[t] \in Finished
    /\ cstate = "completed" => \A t \in Hosts : ts[t] \notin {"failed", "unknown"}

(* A host counts as succeeded only when it had nothing to change, or its    *)
(* change is done, it came back from the reboot the change asked for, and   *)
(* the units the campaign names were seen running (afterMainJob,            *)
(* afterReboot, afterHealthCheck).                                          *)
SuccessIsVerified ==
    \A t \in Hosts : ts[t] = "succeeded" =>
       \/ job[<<"main", t>>] = "nochange"
       \/ job[<<"main", t>>] = "none" /\ job[<<"plan", t>>] = "nochange"
       \/ /\ job[<<"main", t>>] \in {"ok", "reboot"}
          /\ job[<<"main", t>>] = "reboot" => t \in back
          /\ order.verified => job[<<"health", t>>] = "ok"

(* The campaign never works on for ever: again and again it is at its end   *)
(* or where only an operator moves it on - paused, at the gate or waiting   *)
(* for its approval.                                                        *)
ComesToRest ==
    []<>(cstate \in Terminal \union {"paused", "manual_gate", "awaiting_approval"})

(* A cancelled campaign drains and ends, whatever becomes of its runners    *)
(* (Active, drain).                                                         *)
CancelDrains == cstate = "canceling" ~> cstate = "canceled"
=============================================================================
