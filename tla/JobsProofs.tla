----------------------------- MODULE JobsProofs -----------------------------
(***************************************************************************)
(* What Jobs promises for any number of gateways, approvers, attempts,     *)
(* sessions and cancel requests.                                           *)
(***************************************************************************)
EXTENDS Jobs, FiniteSetTheorems, TLAPS

(* The host has an outcome exactly when its work is over. *)
OutcomeWhenDone == work = "done" <=> outcome # "none"

(* A scheduler past LeaseJobs carries an attempt. *)
CarriesAnAttempt ==
    \A g \in Gateways :
        step[g] \in {"leased", "cleared", "sent", "handover"} => carrying[g] \in Attempts

(* The reclaim statement holds open attempts, and at least one. *)
LocksOpenAttempts == locked \subseteq Open /\ (snapshot # "none" => locked # {})

(* A job the statement read as asked to stop is not delivered again under  *)
(* it: the attempt it holds keeps the job from the queue.                  *)
ReadStaysBehind ==
    snapshot = "cancel_requested"
        => state \in {"cancel_requested", "running"} \union TerminalStates

(* Nothing happens to a job that waits for its approvals. *)
NothingBeforeApproval ==
    state = "awaiting_approval"
        => /\ \A g \in Gateways : step[g] = "idle"
           /\ held = {} /\ snapshot = "none" /\ granted = FALSE

Approved == Cardinality(approvals) >= RequiredApprovals

ApprovedWhenActive ==
    \/ state = "queued" \/ HoldsLease(state) \/ held # {} \/ snapshot # "none"
    \/ \E g \in Gateways : step[g] # "idle"
    => Approved

(* The host answers that it stopped only when it did. *)
StopsAreTrue ==
    \A r \in Revisions, answer \in CancelOutcomes :
        <<r, answer>> \in acks /\ AnswerStops(answer) => outcome = "canceled"

TInv == TypeOK /\ OutcomeWhenDone /\ CarriesAnAttempt

IInv ==
    /\ TInv
    /\ LocksOpenAttempts /\ ReadStaysBehind /\ CarriedByAnOpenAttempt
    /\ NothingBeforeApproval /\ ApprovedWhenActive
    /\ StopsAreTrue /\ CanceledByTheHostIsStopped

USE DEF jobVars, cancelVars, attemptVars, sweepVars, sessionVars, deliveryVars,
        hostVars

LEMMA NextAttemptType == NextAttempt \in Nat \ {0}
<1> DEFINE Made == {a \in Attempts : attempt[a] # "none"}
<1>1. IsFiniteSet(Attempts)
  BY FS_Interval, BoundsAssumption DEF Attempts
<1>2. Made \in SUBSET Attempts
  BY Zenon
<1>3. Cardinality(Made) \in Nat
  BY <1>1, <1>2, FS_Subset, FS_CardinalityType, Zenon
<1> QED
  BY <1>3 DEF NextAttempt

LEMMA Fates ==
  ASSUME NEW s, NEW o, NEW e \in BOOLEAN
  PROVE  /\ FateOfResult(s, o, e) = "afterSettlement" => Terminal(s)
         /\ FateOfResult(s, o, e) = "settles" => ~Terminal(s)
BY Zenon DEF FateOfResult

LEMMA EndSessionType ==
  ASSUME TypeOK, NEW g \in Gateways, EndSession(g)
  PROVE  session' \in [Gateways -> Tokens] /\ rows' \subseteq Tokens
<1>1. session' \in [Gateways -> Tokens]
  BY BoundsAssumption DEF TypeOK, EndSession, Tokens
<1>2. rows' \subseteq Tokens
  BY Zenon DEF TypeOK, EndSession
<1> QED
  BY <1>1, <1>2, Zenon

(* The flags. *)
LEMMA FlagsInductive ==
  ASSUME FlagsOK, [Next]_vars
  PROVE  FlagsOK'
<1> USE DEF FlagsOK
<1>1. ASSUME NEW p \in Approvers, Approve(p) PROVE FlagsOK'
  BY <1>1, Zenon DEF Approve
<1>2. ASSUME TTLPasses PROVE FlagsOK'
  BY <1>2, Zenon DEF TTLPasses
<1>3. ASSUME ExpireOverdue PROVE FlagsOK'
  BY <1>3, Zenon DEF ExpireOverdue
<1>4. ASSUME CancelHere PROVE FlagsOK'
  BY <1>4, Zenon DEF CancelHere
<1>5. ASSUME RequestCancel PROVE FlagsOK'
  BY <1>5, Zenon DEF RequestCancel
<1>6. ASSUME CancelDeadlinePasses PROVE FlagsOK'
  BY <1>6, Zenon DEF CancelDeadlinePasses
<1>7. ASSUME SettleCancelTimeouts PROVE FlagsOK'
  BY <1>7, Zenon DEF SettleCancelTimeouts
<1>8. ASSUME NEW g \in Gateways, List(g) PROVE FlagsOK'
  BY <1>8, Zenon DEF List, Step
<1>9. ASSUME NEW g \in Gateways, Admit(g) PROVE FlagsOK'
  BY <1>9, Zenon DEF Admit, Step
<1>10. ASSUME NEW g \in Gateways, LeaseJobs(g) PROVE FlagsOK'
  BY <1>10, Zenon DEF LeaseJobs, Step
<1>11. ASSUME NEW g \in Gateways, Untaken(g) PROVE FlagsOK'
  BY <1>11, Zenon DEF Untaken, Step
<1>12. ASSUME NEW g \in Gateways, Clear(g) PROVE FlagsOK'
  BY <1>12, Zenon DEF Clear, Step, Deliverable
<1>13. ASSUME NEW g \in Gateways, ReleaseLease(g) PROVE FlagsOK'
  BY <1>13, Zenon DEF ReleaseLease, Step, Idle, GiveUp
<1>14. ASSUME NEW g \in Gateways, FailUndelivered(g) PROVE FlagsOK'
  BY <1>14, Zenon DEF FailUndelivered, Step, Idle, GiveUp
<1>15. ASSUME NEW g \in Gateways, Send(g) PROVE FlagsOK'
  BY <1>15, Zenon DEF Send, Step
<1>16. ASSUME NEW g \in Gateways, MarkDispatched(g) PROVE FlagsOK'
  BY <1>16, Zenon DEF MarkDispatched, Step, Idle
<1>17. ASSUME NEW g \in Gateways, DispatchRefused(g) PROVE FlagsOK'
  BY <1>17, Zenon DEF DispatchRefused, Step
<1>18. ASSUME NEW g \in Gateways, RecordHandover(g) PROVE FlagsOK'
  BY <1>18, Zenon DEF RecordHandover, Step, Idle
<1>19. ASSUME NEW g \in Gateways, NotRecorded(g) PROVE FlagsOK'
  BY <1>19, Zenon DEF NotRecorded, Step, Idle
<1>20. ASSUME GrantRunsOut PROVE FlagsOK'
  BY <1>20, Zenon DEF GrantRunsOut
<1>21. ASSUME HostStarts PROVE FlagsOK'
  BY <1>21, Zenon DEF HostStarts
<1>22. ASSUME HostFinishes PROVE FlagsOK'
  BY <1>22, Zenon DEF HostFinishes
<1>23. ASSUME NEW g \in Gateways, SendCancel(g) PROVE FlagsOK'
  BY <1>23, Zenon DEF SendCancel
<1>24. ASSUME NEW r \in Revisions, NEW answer \in CancelOutcomes, HostAnswersCancel(r, answer) PROVE FlagsOK'
  BY <1>24, Zenon DEF HostAnswersCancel, CancelAnswers
<1>25. ASSUME NEW g \in Gateways, NEW a \in Attempts, AcceptAttempt(g, a) PROVE FlagsOK'
  BY <1>25, Zenon DEF AcceptAttempt
<1>26. ASSUME NEW g \in Gateways, NEW a \in Attempts, RenewAttemptLease(g, a) PROVE FlagsOK'
  BY <1>26, Zenon DEF RenewAttemptLease
<1>27. ASSUME NEW g \in Gateways, NEW a \in Attempts, MarkRunning(g, a) PROVE FlagsOK'
  BY <1>27, Zenon DEF MarkRunning
<1>28. ASSUME NEW g \in Gateways, NEW a \in Attempts, ResultOfSuperseded(g, a) PROVE FlagsOK'
  BY <1>28, Zenon DEF ResultOfSuperseded, Answer
<1>29. ASSUME NEW g \in Gateways, NEW a \in Attempts, ResultRefused(g, a) PROVE FlagsOK'
  BY <1>29, Zenon DEF ResultRefused, Answer
<1>30. ASSUME NEW g \in Gateways, NEW a \in Attempts, ResultSettles(g, a) PROVE FlagsOK'
  BY <1>30, Zenon DEF ResultSettles, Answer
<1>31. ASSUME NEW g \in Gateways, NEW a \in Attempts, ResultFenced(g, a) PROVE FlagsOK'
  BY <1>31, Zenon DEF ResultFenced, EndSession
<1>32. ASSUME NEW g \in Gateways, NEW r \in Revisions, NEW answer \in CancelOutcomes, RecordCancelAck(g, r, answer) PROVE FlagsOK'
  BY <1>32, Zenon DEF RecordCancelAck, Outstanding
<1>33. ASSUME NEW g \in Gateways, CancelAckFenced(g) PROVE FlagsOK'
  BY <1>33, Zenon DEF CancelAckFenced, EndSession
<1>34. ASSUME NEW a \in Attempts, LeaseRunsOut(a) PROVE FlagsOK'
  BY <1>34, Zenon DEF LeaseRunsOut
<1>35. ASSUME ReclaimReads PROVE FlagsOK'
  BY <1>35, Zenon DEF ReclaimReads
<1>36. ASSUME ReclaimWrites PROVE FlagsOK'
  BY <1>36, Zenon DEF ReclaimWrites, ReclaimJob, ReclaimedState
<1>37. ASSUME ReclaimAborts PROVE FlagsOK'
  BY <1>37, Zenon DEF ReclaimAborts
<1>38. ASSUME ReclaimStranded PROVE FlagsOK'
  BY <1>38, Zenon DEF ReclaimStranded, ReclaimJob, ReclaimedState
<1>39. ASSUME NEW g \in Gateways, Connect(g) PROVE FlagsOK'
  BY <1>39, Zenon DEF Connect
<1>40. ASSUME NEW g \in Gateways, Disconnect(g) PROVE FlagsOK'
  BY <1>40, Zenon DEF Disconnect, EndSession
<1>41. ASSUME OwnerLeaseRunsOut PROVE FlagsOK'
  BY <1>41, Zenon DEF OwnerLeaseRunsOut
<1>42. ASSUME NEW g \in Gateways, RenewOwnership(g) PROVE FlagsOK'
  BY <1>42, Zenon DEF RenewOwnership
<1>43. ASSUME NEW g \in Gateways, Crash(g) PROVE FlagsOK'
  BY <1>43, Zenon DEF Crash, Step, Idle
<1>44. ASSUME UNCHANGED vars PROVE FlagsOK'
  BY <1>44, Zenon DEF vars
<1> HIDE DEF FlagsOK
<1>51. ASSUME NEW g \in Gateways, Scheduler(g) PROVE FlagsOK'
  BY <1>51, <1>8, <1>9, <1>10, <1>11, <1>12, <1>13, <1>14, <1>15, <1>16,
     <1>17, <1>18, <1>19, Zenon DEF Scheduler
<1>52. ASSUME NEW g \in Gateways, NEW a \in Attempts, Messages(g, a) PROVE FlagsOK'
  BY <1>52, <1>25, <1>26, <1>27, <1>28, <1>29, <1>30, <1>31, Zenon DEF Messages
<1>53. ASSUME Cancels PROVE FlagsOK'
  BY <1>53, <1>4, <1>5, <1>6, <1>7, <1>24, <1>23, <1>33, <1>32, Zenon DEF Cancels
<1>54. ASSUME Sweeps PROVE FlagsOK'
  BY <1>54, <1>2, <1>3, <1>20, <1>34, <1>35, <1>36, <1>37, <1>38, Zenon DEF Sweeps
<1>55. ASSUME NEW g \in Gateways, Sessions(g) PROVE FlagsOK'
  BY <1>55, <1>39, <1>40, <1>42, <1>43, Zenon DEF Sessions
<1>99. FlagsOK'
  BY <1>1, <1>21, <1>22, <1>41, <1>44, <1>51, <1>52, <1>53, <1>54, <1>55, Zenon
  DEF Next, Settled
<1> QED
  BY <1>99, Zenon

(* Types. *)
LEMMA TypeInductive ==
  ASSUME TInv, [Next]_vars
  PROVE  TInv'
<1> USE BoundsAssumption DEF TInv, TypeOK, OutcomeWhenDone, CarriesAnAttempt, Attempts, Tokens,
        Revisions, Answers, Steps, CancelOutcomes, Results, AttemptStatus,
        States, TerminalStates, Terminal, LeaseHoldingStates, HoldsLease
<1>0. FlagsOK'
  BY FlagsInductive, Zenon
<1> USE <1>0
<1> DEFINE Goal == TInv'
<1>1. ASSUME NEW p \in Approvers, Approve(p) PROVE Goal
  BY <1>1 DEF Approve
<1>2. ASSUME TTLPasses PROVE Goal
  BY <1>2 DEF TTLPasses
<1>3. ASSUME ExpireOverdue PROVE Goal
  BY <1>3, Zenon DEF ExpireOverdue
<1>4. ASSUME CancelHere PROVE Goal
  BY <1>4 DEF CancelHere
<1>5. ASSUME RequestCancel PROVE Goal
  BY <1>5 DEF RequestCancel
<1>6. ASSUME CancelDeadlinePasses PROVE Goal
  BY <1>6 DEF CancelDeadlinePasses
<1>7. ASSUME SettleCancelTimeouts PROVE Goal
  BY <1>7, Zenon DEF SettleCancelTimeouts
<1>8. ASSUME NEW g \in Gateways, List(g) PROVE Goal
  BY <1>8, SMTT(30) DEF List, Step
<1>9. ASSUME NEW g \in Gateways, Admit(g) PROVE Goal
  <2>1. (step' = [step EXCEPT ![g] = "admitted"] \/ step' = [step EXCEPT ![g] = "idle"])
        /\ UNCHANGED <<state, result, approvals, cancelRevision, attemptVars, sweepVars,
                      session, rows, token, carrying, via, hostVars>>
    BY <1>9, Zenon DEF Admit, Step
  <2>2. step' \in [Gateways -> Steps]
    BY <2>1, Zenon
  <2>3. UNCHANGED <<state, result, approvals, cancelRevision, attempt, answers, locked,
                    snapshot, session, rows, token, carrying, via, held, work, outcome,
                    asked, acks>>
    BY <2>1, Zenon
  <2>4. CarriesAnAttempt'
    BY <2>1
  <2>5. TypeOK'
    BY <2>2, <2>3
  <2>6. OutcomeWhenDone'
    BY <2>3, Zenon
  <2> QED
    BY <2>4, <2>5, <2>6, Zenon
<1>10. ASSUME NEW g \in Gateways, LeaseJobs(g) PROVE Goal
  <2>1. NextAttempt \in Attempts
    BY <1>10, NextAttemptType DEF LeaseJobs
  <2> QED
    BY <1>10, <2>1, SMTT(30) DEF LeaseJobs, Step
<1>11. ASSUME NEW g \in Gateways, Untaken(g) PROVE Goal
  BY <1>11 DEF Untaken, Step
<1>12. ASSUME NEW g \in Gateways, Clear(g) PROVE Goal
  BY <1>12, SMTT(30) DEF Clear, Step, Deliverable
<1>13. ASSUME NEW g \in Gateways, ReleaseLease(g) PROVE Goal
  <2>1. state' \in States /\ result' \in Results /\ attempt' \in [Attempts -> AttemptStatus]
    BY <1>13, Zenon DEF ReleaseLease, GiveUp
  <2>2. Idle(g) /\ UNCHANGED <<approvals, cancelRevision, answers, sweepVars, session, rows,
                               token, hostVars>>
    BY <1>13, Zenon DEF ReleaseLease
  <2> QED
    BY <2>1, <2>2 DEF Idle, Step
<1>14. ASSUME NEW g \in Gateways, FailUndelivered(g) PROVE Goal
  <2>1. state' \in States /\ result' \in Results /\ attempt' \in [Attempts -> AttemptStatus]
    BY <1>14, Zenon DEF FailUndelivered, GiveUp
  <2>2. Idle(g) /\ UNCHANGED <<approvals, cancelRevision, answers, sweepVars, session, rows,
                               token, hostVars>>
    BY <1>14, Zenon DEF FailUndelivered
  <2> QED
    BY <2>1, <2>2 DEF Idle, Step
<1>15. ASSUME NEW g \in Gateways, Send(g) PROVE Goal
  <2>1. carrying[g] \in Attempts
    BY <1>15, Zenon DEF Send
  <2>2. held' \subseteq Attempts
    BY <1>15, <2>1, Zenon DEF Send
  <2> QED
    BY <1>15, <2>2 DEF Send, Step
<1>16. ASSUME NEW g \in Gateways, MarkDispatched(g) PROVE Goal
  BY <1>16 DEF MarkDispatched, Step, Idle
<1>17. ASSUME NEW g \in Gateways, DispatchRefused(g) PROVE Goal
  BY <1>17, SMTT(30) DEF DispatchRefused, Step
<1>18. ASSUME NEW g \in Gateways, RecordHandover(g) PROVE Goal
  BY <1>18 DEF RecordHandover, Step, Idle
<1>19. ASSUME NEW g \in Gateways, NotRecorded(g) PROVE Goal
  BY <1>19 DEF NotRecorded, Step, Idle
<1>20. ASSUME GrantRunsOut PROVE Goal
  BY <1>20 DEF GrantRunsOut
<1>21. ASSUME HostStarts PROVE Goal
  BY <1>21 DEF HostStarts
<1>22. ASSUME HostFinishes PROVE Goal
  BY <1>22 DEF HostFinishes
<1>23. ASSUME NEW g \in Gateways, SendCancel(g) PROVE Goal
  BY <1>23 DEF SendCancel
<1>24. ASSUME NEW r \in Revisions, NEW answer \in CancelOutcomes, HostAnswersCancel(r, answer) PROVE Goal
  BY <1>24, SMTT(30) DEF HostAnswersCancel, CancelAnswers
<1>25. ASSUME NEW g \in Gateways, NEW a \in Attempts, AcceptAttempt(g, a) PROVE Goal
  BY <1>25, SMTT(30) DEF AcceptAttempt
<1>26. ASSUME NEW g \in Gateways, NEW a \in Attempts, RenewAttemptLease(g, a) PROVE Goal
  BY <1>26, SMTT(30) DEF RenewAttemptLease
<1>27. ASSUME NEW g \in Gateways, NEW a \in Attempts, MarkRunning(g, a) PROVE Goal
  BY <1>27, SMTT(30) DEF MarkRunning
<1>28. ASSUME NEW g \in Gateways, NEW a \in Attempts, ResultOfSuperseded(g, a) PROVE Goal
  BY <1>28, SMTT(30) DEF ResultOfSuperseded, Answer
<1>29. ASSUME NEW g \in Gateways, NEW a \in Attempts, ResultRefused(g, a) PROVE Goal
  BY <1>29, SMTT(30) DEF ResultRefused, Answer
<1>30. ASSUME NEW g \in Gateways, NEW a \in Attempts, ResultSettles(g, a) PROVE Goal
  BY <1>30, Zenon DEF ResultSettles, Answer
<1>31. ASSUME NEW g \in Gateways, NEW a \in Attempts, ResultFenced(g, a) PROVE Goal
  <2>1. EndSession(g) /\ UNCHANGED <<jobVars, cancelVars, attemptVars, sweepVars,
                                       token, deliveryVars, hostVars>>
    BY <1>31, Zenon DEF ResultFenced
  <2>2. session' \in [Gateways -> Tokens] /\ rows' \subseteq Tokens
    BY <2>1, EndSessionType, Zenon
  <2> QED
    BY <2>1, <2>2, SMTT(30)
<1>32. ASSUME NEW g \in Gateways, NEW r \in Revisions, NEW answer \in CancelOutcomes, RecordCancelAck(g, r, answer) PROVE Goal
  BY <1>32, ZenonT(30) DEF RecordCancelAck, Outstanding
<1>33. ASSUME NEW g \in Gateways, CancelAckFenced(g) PROVE Goal
  <2>1. EndSession(g) /\ UNCHANGED <<jobVars, cancelVars, attemptVars, sweepVars,
                                       token, deliveryVars, hostVars>>
    BY <1>33, Zenon DEF CancelAckFenced
  <2>2. session' \in [Gateways -> Tokens] /\ rows' \subseteq Tokens
    BY <2>1, EndSessionType, Zenon
  <2> QED
    BY <2>1, <2>2, SMTT(30)
<1>34. ASSUME NEW a \in Attempts, LeaseRunsOut(a) PROVE Goal
  BY <1>34, SMTT(30) DEF LeaseRunsOut
<1>35. ASSUME ReclaimReads PROVE Goal
  BY <1>35 DEF ReclaimReads
<1>36. ASSUME ReclaimWrites PROVE Goal
  BY <1>36, SMTT(30) DEF ReclaimWrites, ReclaimJob, ReclaimedState
<1>37. ASSUME ReclaimAborts PROVE Goal
  BY <1>37 DEF ReclaimAborts
<1>38. ASSUME ReclaimStranded PROVE Goal
  BY <1>38, SMTT(30) DEF ReclaimStranded, ReclaimJob, ReclaimedState
<1>39. ASSUME NEW g \in Gateways, Connect(g) PROVE Goal
  BY <1>39, SMTT(30) DEF Connect
<1>40. ASSUME NEW g \in Gateways, Disconnect(g) PROVE Goal
  <2>1. EndSession(g) /\ UNCHANGED <<jobVars, cancelVars, attemptVars, sweepVars,
                                       token, deliveryVars, hostVars>>
    BY <1>40, Zenon DEF Disconnect
  <2>2. session' \in [Gateways -> Tokens] /\ rows' \subseteq Tokens
    BY <2>1, EndSessionType, Zenon
  <2> QED
    BY <2>1, <2>2, SMTT(30)
<1>41. ASSUME OwnerLeaseRunsOut PROVE Goal
  BY <1>41, SMTT(30) DEF OwnerLeaseRunsOut
<1>42. ASSUME NEW g \in Gateways, RenewOwnership(g) PROVE Goal
  BY <1>42, SMTT(30) DEF RenewOwnership
<1>43. ASSUME NEW g \in Gateways, Crash(g) PROVE Goal
  BY <1>43 DEF Crash, Step, Idle
<1>44. ASSUME UNCHANGED vars PROVE Goal
  BY <1>44 DEF vars
<1> HIDE BoundsAssumption DEF TInv, TypeOK, OutcomeWhenDone, CarriesAnAttempt, Attempts, Tokens,
        Revisions, Answers, Steps, CancelOutcomes, Results, AttemptStatus,
        States, TerminalStates, Terminal, LeaseHoldingStates, HoldsLease, Goal
<1>51. ASSUME NEW g \in Gateways, Scheduler(g) PROVE Goal
  BY <1>51, <1>8, <1>9, <1>10, <1>11, <1>12, <1>13, <1>14, <1>15, <1>16,
     <1>17, <1>18, <1>19, Zenon DEF Scheduler
<1>52. ASSUME NEW g \in Gateways, NEW a \in Attempts, Messages(g, a) PROVE Goal
  BY <1>52, <1>25, <1>26, <1>27, <1>28, <1>29, <1>30, <1>31, Zenon DEF Messages
<1>53. ASSUME Cancels PROVE Goal
  BY <1>53, <1>4, <1>5, <1>6, <1>7, <1>24, <1>23, <1>33, <1>32, Zenon DEF Cancels
<1>54. ASSUME Sweeps PROVE Goal
  BY <1>54, <1>2, <1>3, <1>20, <1>34, <1>35, <1>36, <1>37, <1>38, Zenon DEF Sweeps
<1>55. ASSUME NEW g \in Gateways, Sessions(g) PROVE Goal
  BY <1>55, <1>39, <1>40, <1>42, <1>43, Zenon DEF Sessions
<1>99. Goal
  BY <1>1, <1>21, <1>22, <1>41, <1>44, <1>51, <1>52, <1>53, <1>54, <1>55, Zenon
  DEF Next, Settled
<1> QED
  BY <1>99, Zenon DEF Goal

(* The attempts, the job and the reclaim statement. *)
LEMMA CarriedInductive ==
  ASSUME IInv, [Next]_vars
  PROVE  LocksOpenAttempts' /\ ReadStaysBehind' /\ CarriedByAnOpenAttempt'
<1> USE BoundsAssumption DEF IInv, TInv, TypeOK, OutcomeWhenDone, CarriesAnAttempt, LocksOpenAttempts,
        ReadStaysBehind, CarriedByAnOpenAttempt, Open, Attempts, States, TerminalStates, Terminal, LeaseHoldingStates, HoldsLease
<1> DEFINE Goal == LocksOpenAttempts' /\ ReadStaysBehind' /\ CarriedByAnOpenAttempt'
<1>1. ASSUME NEW p \in Approvers, Approve(p) PROVE Goal
  BY <1>1, Zenon DEF Approve
<1>2. ASSUME TTLPasses PROVE Goal
  BY <1>2, Zenon DEF TTLPasses
<1>3. ASSUME ExpireOverdue PROVE Goal
  BY <1>3, Zenon DEF ExpireOverdue
<1>4. ASSUME CancelHere PROVE Goal
  BY <1>4, Zenon DEF CancelHere
<1>5. ASSUME RequestCancel PROVE Goal
  BY <1>5, Zenon DEF RequestCancel
<1>6. ASSUME CancelDeadlinePasses PROVE Goal
  BY <1>6, Zenon DEF CancelDeadlinePasses
<1>7. ASSUME SettleCancelTimeouts PROVE Goal
  BY <1>7, Zenon DEF SettleCancelTimeouts
<1>8. ASSUME NEW g \in Gateways, List(g) PROVE Goal
  BY <1>8, Zenon DEF List, Step
<1>9. ASSUME NEW g \in Gateways, Admit(g) PROVE Goal
  BY <1>9, Zenon DEF Admit, Step
<1>10. ASSUME NEW g \in Gateways, LeaseJobs(g) PROVE Goal
  <2>1. NextAttempt \in Attempts
    BY <1>10, NextAttemptType DEF LeaseJobs
  <2>2. NextAttempt \in Open'
    BY <1>10, <2>1, Zenon DEF LeaseJobs
  <2>3. Open \subseteq Open'
    BY <1>10, Zenon DEF LeaseJobs
  <2> QED
    BY <1>10, <2>2, <2>3, Zenon DEF LeaseJobs
<1>11. ASSUME NEW g \in Gateways, Untaken(g) PROVE Goal
  BY <1>11, Zenon DEF Untaken, Step
<1>12. ASSUME NEW g \in Gateways, Clear(g) PROVE Goal
  BY <1>12, Zenon DEF Clear, Step, Deliverable
<1>13. ASSUME NEW g \in Gateways, ReleaseLease(g) PROVE Goal
  BY <1>13, Zenon DEF ReleaseLease, Step, Idle, GiveUp
<1>14. ASSUME NEW g \in Gateways, FailUndelivered(g) PROVE Goal
  BY <1>14, Zenon DEF FailUndelivered, Step, Idle, GiveUp
<1>15. ASSUME NEW g \in Gateways, Send(g) PROVE Goal
  BY <1>15, Zenon DEF Send, Step
<1>16. ASSUME NEW g \in Gateways, MarkDispatched(g) PROVE Goal
  BY <1>16, Zenon DEF MarkDispatched, Step, Idle
<1>17. ASSUME NEW g \in Gateways, DispatchRefused(g) PROVE Goal
  BY <1>17, Zenon DEF DispatchRefused, Step
<1>18. ASSUME NEW g \in Gateways, RecordHandover(g) PROVE Goal
  BY <1>18, Zenon DEF RecordHandover, Step, Idle
<1>19. ASSUME NEW g \in Gateways, NotRecorded(g) PROVE Goal
  BY <1>19, Zenon DEF NotRecorded, Step, Idle
<1>20. ASSUME GrantRunsOut PROVE Goal
  BY <1>20, Zenon DEF GrantRunsOut
<1>21. ASSUME HostStarts PROVE Goal
  BY <1>21, Zenon DEF HostStarts
<1>22. ASSUME HostFinishes PROVE Goal
  BY <1>22, Zenon DEF HostFinishes
<1>23. ASSUME NEW g \in Gateways, SendCancel(g) PROVE Goal
  BY <1>23, Zenon DEF SendCancel
<1>24. ASSUME NEW r \in Revisions, NEW answer \in CancelOutcomes, HostAnswersCancel(r, answer) PROVE Goal
  BY <1>24, Zenon DEF HostAnswersCancel, CancelAnswers
<1>25. ASSUME NEW g \in Gateways, NEW a \in Attempts, AcceptAttempt(g, a) PROVE Goal
  BY <1>25, Zenon DEF AcceptAttempt
<1>26. ASSUME NEW g \in Gateways, NEW a \in Attempts, RenewAttemptLease(g, a) PROVE Goal
  BY <1>26, Zenon DEF RenewAttemptLease
<1>27. ASSUME NEW g \in Gateways, NEW a \in Attempts, MarkRunning(g, a) PROVE Goal
  BY <1>27, Zenon DEF MarkRunning
<1>28. ASSUME NEW g \in Gateways, NEW a \in Attempts, ResultOfSuperseded(g, a) PROVE Goal
  BY <1>28, Zenon DEF ResultOfSuperseded, Answer
<1>29. ASSUME NEW g \in Gateways, NEW a \in Attempts, ResultRefused(g, a) PROVE Goal
  <2>1. Open' = Open \/ (Terminal(state) /\ Open \ {a} \subseteq Open')
    BY <1>29, Fates, Zenon DEF ResultRefused, ClosesTheAttempt, Supersedes
  <2>2. locked \subseteq Open'
    BY <1>29, <2>1, Zenon DEF ResultRefused
  <2> QED
    BY <1>29, <2>1, <2>2, Zenon DEF ResultRefused
<1>30. ASSUME NEW g \in Gateways, NEW a \in Attempts, ResultSettles(g, a) PROVE Goal
  BY <1>30, Zenon DEF ResultSettles, Answer
<1>31. ASSUME NEW g \in Gateways, NEW a \in Attempts, ResultFenced(g, a) PROVE Goal
  BY <1>31, Zenon DEF ResultFenced, EndSession
<1>32. ASSUME NEW g \in Gateways, NEW r \in Revisions, NEW answer \in CancelOutcomes, RecordCancelAck(g, r, answer) PROVE Goal
  BY <1>32, Zenon DEF RecordCancelAck, Outstanding
<1>33. ASSUME NEW g \in Gateways, CancelAckFenced(g) PROVE Goal
  BY <1>33, Zenon DEF CancelAckFenced, EndSession
<1>34. ASSUME NEW a \in Attempts, LeaseRunsOut(a) PROVE Goal
  BY <1>34, Zenon DEF LeaseRunsOut
<1>35. ASSUME ReclaimReads PROVE Goal
  BY <1>35, Zenon DEF ReclaimReads
<1>36. ASSUME ReclaimWrites PROVE Goal
  BY <1>36, Zenon DEF ReclaimWrites, ReclaimJob, ReclaimedState
<1>37. ASSUME ReclaimAborts PROVE Goal
  BY <1>37, Zenon DEF ReclaimAborts
<1>38. ASSUME ReclaimStranded PROVE Goal
  BY <1>38, Zenon DEF ReclaimStranded, ReclaimJob, ReclaimedState
<1>39. ASSUME NEW g \in Gateways, Connect(g) PROVE Goal
  BY <1>39, Zenon DEF Connect
<1>40. ASSUME NEW g \in Gateways, Disconnect(g) PROVE Goal
  BY <1>40, Zenon DEF Disconnect, EndSession
<1>41. ASSUME OwnerLeaseRunsOut PROVE Goal
  BY <1>41, Zenon DEF OwnerLeaseRunsOut
<1>42. ASSUME NEW g \in Gateways, RenewOwnership(g) PROVE Goal
  BY <1>42, Zenon DEF RenewOwnership
<1>43. ASSUME NEW g \in Gateways, Crash(g) PROVE Goal
  BY <1>43, Zenon DEF Crash, Step, Idle
<1>44. ASSUME UNCHANGED vars PROVE Goal
  BY <1>44, Zenon DEF vars
<1> HIDE BoundsAssumption DEF IInv, TInv, TypeOK, OutcomeWhenDone, CarriesAnAttempt, LocksOpenAttempts,
        ReadStaysBehind, CarriedByAnOpenAttempt, Open, Attempts, States, TerminalStates, Terminal, LeaseHoldingStates, HoldsLease, Goal
<1>51. ASSUME NEW g \in Gateways, Scheduler(g) PROVE Goal
  BY <1>51, <1>8, <1>9, <1>10, <1>11, <1>12, <1>13, <1>14, <1>15, <1>16,
     <1>17, <1>18, <1>19, Zenon DEF Scheduler
<1>52. ASSUME NEW g \in Gateways, NEW a \in Attempts, Messages(g, a) PROVE Goal
  BY <1>52, <1>25, <1>26, <1>27, <1>28, <1>29, <1>30, <1>31, Zenon DEF Messages
<1>53. ASSUME Cancels PROVE Goal
  BY <1>53, <1>4, <1>5, <1>6, <1>7, <1>24, <1>23, <1>33, <1>32, Zenon DEF Cancels
<1>54. ASSUME Sweeps PROVE Goal
  BY <1>54, <1>2, <1>3, <1>20, <1>34, <1>35, <1>36, <1>37, <1>38, Zenon DEF Sweeps
<1>55. ASSUME NEW g \in Gateways, Sessions(g) PROVE Goal
  BY <1>55, <1>39, <1>40, <1>42, <1>43, Zenon DEF Sessions
<1>99. Goal
  BY <1>1, <1>21, <1>22, <1>41, <1>44, <1>51, <1>52, <1>53, <1>54, <1>55, Zenon
  DEF Next, Settled
<1> QED
  BY <1>99, Zenon DEF Goal

(* Approvals. *)
LEMMA ApprovalInductive ==
  ASSUME IInv, [Next]_vars
  PROVE  NothingBeforeApproval' /\ ApprovedWhenActive'
<1> USE BoundsAssumption DEF IInv, TInv, TypeOK, LocksOpenAttempts, NothingBeforeApproval,
        ApprovedWhenActive, Approved, Open, States, TerminalStates, Terminal, LeaseHoldingStates, HoldsLease
<1> DEFINE Goal == NothingBeforeApproval' /\ ApprovedWhenActive'
<1>1. ASSUME NEW p \in Approvers, Approve(p) PROVE Goal
  BY <1>1, Zenon DEF Approve
<1>2. ASSUME TTLPasses PROVE Goal
  BY <1>2, Zenon DEF TTLPasses
<1>3. ASSUME ExpireOverdue PROVE Goal
  BY <1>3, Zenon DEF ExpireOverdue
<1>4. ASSUME CancelHere PROVE Goal
  BY <1>4, Zenon DEF CancelHere
<1>5. ASSUME RequestCancel PROVE Goal
  BY <1>5, Zenon DEF RequestCancel
<1>6. ASSUME CancelDeadlinePasses PROVE Goal
  BY <1>6, Zenon DEF CancelDeadlinePasses
<1>7. ASSUME SettleCancelTimeouts PROVE Goal
  BY <1>7, Zenon DEF SettleCancelTimeouts
<1>8. ASSUME NEW g \in Gateways, List(g) PROVE Goal
  BY <1>8, Zenon DEF List, Step
<1>9. ASSUME NEW g \in Gateways, Admit(g) PROVE Goal
  BY <1>9, Zenon DEF Admit, Step
<1>10. ASSUME NEW g \in Gateways, LeaseJobs(g) PROVE Goal
  BY <1>10, Zenon DEF LeaseJobs, Step
<1>11. ASSUME NEW g \in Gateways, Untaken(g) PROVE Goal
  BY <1>11, Zenon DEF Untaken, Step
<1>12. ASSUME NEW g \in Gateways, Clear(g) PROVE Goal
  BY <1>12, Zenon DEF Clear, Step, Deliverable
<1>13. ASSUME NEW g \in Gateways, ReleaseLease(g) PROVE Goal
  BY <1>13, Zenon DEF ReleaseLease, Step, Idle, GiveUp
<1>14. ASSUME NEW g \in Gateways, FailUndelivered(g) PROVE Goal
  BY <1>14, Zenon DEF FailUndelivered, Step, Idle, GiveUp
<1>15. ASSUME NEW g \in Gateways, Send(g) PROVE Goal
  BY <1>15, Zenon DEF Send, Step
<1>16. ASSUME NEW g \in Gateways, MarkDispatched(g) PROVE Goal
  BY <1>16, Zenon DEF MarkDispatched, Step, Idle
<1>17. ASSUME NEW g \in Gateways, DispatchRefused(g) PROVE Goal
  BY <1>17, Zenon DEF DispatchRefused, Step
<1>18. ASSUME NEW g \in Gateways, RecordHandover(g) PROVE Goal
  BY <1>18, Zenon DEF RecordHandover, Step, Idle
<1>19. ASSUME NEW g \in Gateways, NotRecorded(g) PROVE Goal
  BY <1>19, Zenon DEF NotRecorded, Step, Idle
<1>20. ASSUME GrantRunsOut PROVE Goal
  BY <1>20, Zenon DEF GrantRunsOut
<1>21. ASSUME HostStarts PROVE Goal
  BY <1>21, Zenon DEF HostStarts
<1>22. ASSUME HostFinishes PROVE Goal
  BY <1>22, Zenon DEF HostFinishes
<1>23. ASSUME NEW g \in Gateways, SendCancel(g) PROVE Goal
  BY <1>23, Zenon DEF SendCancel
<1>24. ASSUME NEW r \in Revisions, NEW answer \in CancelOutcomes, HostAnswersCancel(r, answer) PROVE Goal
  BY <1>24, Zenon DEF HostAnswersCancel, CancelAnswers
<1>25. ASSUME NEW g \in Gateways, NEW a \in Attempts, AcceptAttempt(g, a) PROVE Goal
  BY <1>25, Zenon DEF AcceptAttempt
<1>26. ASSUME NEW g \in Gateways, NEW a \in Attempts, RenewAttemptLease(g, a) PROVE Goal
  BY <1>26, Zenon DEF RenewAttemptLease
<1>27. ASSUME NEW g \in Gateways, NEW a \in Attempts, MarkRunning(g, a) PROVE Goal
  BY <1>27, Zenon DEF MarkRunning
<1>28. ASSUME NEW g \in Gateways, NEW a \in Attempts, ResultOfSuperseded(g, a) PROVE Goal
  BY <1>28, Zenon DEF ResultOfSuperseded, Answer
<1>29. ASSUME NEW g \in Gateways, NEW a \in Attempts, ResultRefused(g, a) PROVE Goal
  BY <1>29, Zenon DEF ResultRefused, Answer
<1>30. ASSUME NEW g \in Gateways, NEW a \in Attempts, ResultSettles(g, a) PROVE Goal
  BY <1>30, Zenon DEF ResultSettles, Answer
<1>31. ASSUME NEW g \in Gateways, NEW a \in Attempts, ResultFenced(g, a) PROVE Goal
  BY <1>31, Zenon DEF ResultFenced, EndSession
<1>32. ASSUME NEW g \in Gateways, NEW r \in Revisions, NEW answer \in CancelOutcomes, RecordCancelAck(g, r, answer) PROVE Goal
  BY <1>32, Zenon DEF RecordCancelAck, Outstanding
<1>33. ASSUME NEW g \in Gateways, CancelAckFenced(g) PROVE Goal
  BY <1>33, Zenon DEF CancelAckFenced, EndSession
<1>34. ASSUME NEW a \in Attempts, LeaseRunsOut(a) PROVE Goal
  BY <1>34, Zenon DEF LeaseRunsOut
<1>35. ASSUME ReclaimReads PROVE Goal
  BY <1>35, Zenon DEF ReclaimReads
<1>36. ASSUME ReclaimWrites PROVE Goal
  BY <1>36, Zenon DEF ReclaimWrites, ReclaimJob, ReclaimedState
<1>37. ASSUME ReclaimAborts PROVE Goal
  BY <1>37, Zenon DEF ReclaimAborts
<1>38. ASSUME ReclaimStranded PROVE Goal
  BY <1>38, Zenon DEF ReclaimStranded, ReclaimJob, ReclaimedState
<1>39. ASSUME NEW g \in Gateways, Connect(g) PROVE Goal
  BY <1>39, Zenon DEF Connect
<1>40. ASSUME NEW g \in Gateways, Disconnect(g) PROVE Goal
  BY <1>40, Zenon DEF Disconnect, EndSession
<1>41. ASSUME OwnerLeaseRunsOut PROVE Goal
  BY <1>41, Zenon DEF OwnerLeaseRunsOut
<1>42. ASSUME NEW g \in Gateways, RenewOwnership(g) PROVE Goal
  BY <1>42 DEF RenewOwnership
<1>43. ASSUME NEW g \in Gateways, Crash(g) PROVE Goal
  BY <1>43 DEF Crash, Step, Idle
<1>44. ASSUME UNCHANGED vars PROVE Goal
  BY <1>44, SMTT(30) DEF vars
<1> HIDE BoundsAssumption DEF IInv, TInv, TypeOK, LocksOpenAttempts, NothingBeforeApproval,
        ApprovedWhenActive, Approved, Open, States, TerminalStates, Terminal, LeaseHoldingStates, HoldsLease, Goal
<1>51. ASSUME NEW g \in Gateways, Scheduler(g) PROVE Goal
  BY <1>51, <1>8, <1>9, <1>10, <1>11, <1>12, <1>13, <1>14, <1>15, <1>16,
     <1>17, <1>18, <1>19, Zenon DEF Scheduler
<1>52. ASSUME NEW g \in Gateways, NEW a \in Attempts, Messages(g, a) PROVE Goal
  BY <1>52, <1>25, <1>26, <1>27, <1>28, <1>29, <1>30, <1>31, Zenon DEF Messages
<1>53. ASSUME Cancels PROVE Goal
  BY <1>53, <1>4, <1>5, <1>6, <1>7, <1>24, <1>23, <1>33, <1>32, Zenon DEF Cancels
<1>54. ASSUME Sweeps PROVE Goal
  BY <1>54, <1>2, <1>3, <1>20, <1>34, <1>35, <1>36, <1>37, <1>38, Zenon DEF Sweeps
<1>55. ASSUME NEW g \in Gateways, Sessions(g) PROVE Goal
  BY <1>55, <1>39, <1>40, <1>42, <1>43, Zenon DEF Sessions
<1>99. Goal
  BY <1>1, <1>21, <1>22, <1>41, <1>44, <1>51, <1>52, <1>53, <1>54, <1>55, Zenon
  DEF Next, Settled
<1> QED
  BY <1>99, Zenon DEF Goal

(* The host's word on a cancel. *)
LEMMA CancelInductive ==
  ASSUME IInv, [Next]_vars
  PROVE  StopsAreTrue' /\ CanceledByTheHostIsStopped'
<1> USE BoundsAssumption DEF IInv, TInv, TypeOK, OutcomeWhenDone, StopsAreTrue,
        CanceledByTheHostIsStopped, AnswerStops, CancelOutcomes, States, TerminalStates, Terminal, LeaseHoldingStates, HoldsLease
<1> DEFINE Goal == StopsAreTrue' /\ CanceledByTheHostIsStopped'
<1>1. ASSUME NEW p \in Approvers, Approve(p) PROVE Goal
  BY <1>1, Zenon DEF Approve
<1>2. ASSUME TTLPasses PROVE Goal
  BY <1>2, Zenon DEF TTLPasses
<1>3. ASSUME ExpireOverdue PROVE Goal
  BY <1>3, Zenon DEF ExpireOverdue
<1>4. ASSUME CancelHere PROVE Goal
  BY <1>4, Zenon DEF CancelHere
<1>5. ASSUME RequestCancel PROVE Goal
  BY <1>5, Zenon DEF RequestCancel
<1>6. ASSUME CancelDeadlinePasses PROVE Goal
  BY <1>6, Zenon DEF CancelDeadlinePasses
<1>7. ASSUME SettleCancelTimeouts PROVE Goal
  BY <1>7, Zenon DEF SettleCancelTimeouts
<1>8. ASSUME NEW g \in Gateways, List(g) PROVE Goal
  BY <1>8, Zenon DEF List, Step
<1>9. ASSUME NEW g \in Gateways, Admit(g) PROVE Goal
  BY <1>9, Zenon DEF Admit, Step
<1>10. ASSUME NEW g \in Gateways, LeaseJobs(g) PROVE Goal
  BY <1>10, Zenon DEF LeaseJobs, Step
<1>11. ASSUME NEW g \in Gateways, Untaken(g) PROVE Goal
  BY <1>11, Zenon DEF Untaken, Step
<1>12. ASSUME NEW g \in Gateways, Clear(g) PROVE Goal
  BY <1>12, Zenon DEF Clear, Step, Deliverable
<1>13. ASSUME NEW g \in Gateways, ReleaseLease(g) PROVE Goal
  BY <1>13, Zenon DEF ReleaseLease, Step, Idle, GiveUp
<1>14. ASSUME NEW g \in Gateways, FailUndelivered(g) PROVE Goal
  BY <1>14, Zenon DEF FailUndelivered, Step, Idle, GiveUp
<1>15. ASSUME NEW g \in Gateways, Send(g) PROVE Goal
  BY <1>15, Zenon DEF Send, Step
<1>16. ASSUME NEW g \in Gateways, MarkDispatched(g) PROVE Goal
  BY <1>16, Zenon DEF MarkDispatched, Step, Idle
<1>17. ASSUME NEW g \in Gateways, DispatchRefused(g) PROVE Goal
  BY <1>17, Zenon DEF DispatchRefused, Step
<1>18. ASSUME NEW g \in Gateways, RecordHandover(g) PROVE Goal
  BY <1>18, Zenon DEF RecordHandover, Step, Idle
<1>19. ASSUME NEW g \in Gateways, NotRecorded(g) PROVE Goal
  BY <1>19, Zenon DEF NotRecorded, Step, Idle
<1>20. ASSUME GrantRunsOut PROVE Goal
  BY <1>20, Zenon DEF GrantRunsOut
<1>21. ASSUME HostStarts PROVE Goal
  BY <1>21, Zenon DEF HostStarts
<1>22. ASSUME HostFinishes PROVE Goal
  BY <1>22, Zenon DEF HostFinishes
<1>23. ASSUME NEW g \in Gateways, SendCancel(g) PROVE Goal
  BY <1>23, Zenon DEF SendCancel
<1>24. ASSUME NEW r \in Revisions, NEW answer \in CancelOutcomes, HostAnswersCancel(r, answer) PROVE Goal
  BY <1>24, Zenon DEF HostAnswersCancel, CancelAnswers
<1>25. ASSUME NEW g \in Gateways, NEW a \in Attempts, AcceptAttempt(g, a) PROVE Goal
  BY <1>25, Zenon DEF AcceptAttempt
<1>26. ASSUME NEW g \in Gateways, NEW a \in Attempts, RenewAttemptLease(g, a) PROVE Goal
  BY <1>26, Zenon DEF RenewAttemptLease
<1>27. ASSUME NEW g \in Gateways, NEW a \in Attempts, MarkRunning(g, a) PROVE Goal
  BY <1>27, Zenon DEF MarkRunning
<1>28. ASSUME NEW g \in Gateways, NEW a \in Attempts, ResultOfSuperseded(g, a) PROVE Goal
  BY <1>28, Zenon DEF ResultOfSuperseded, Answer
<1>29. ASSUME NEW g \in Gateways, NEW a \in Attempts, ResultRefused(g, a) PROVE Goal
  BY <1>29, Zenon DEF ResultRefused, Answer
<1>30. ASSUME NEW g \in Gateways, NEW a \in Attempts, ResultSettles(g, a) PROVE Goal
  BY <1>30, Zenon DEF ResultSettles, Answer
<1>31. ASSUME NEW g \in Gateways, NEW a \in Attempts, ResultFenced(g, a) PROVE Goal
  BY <1>31, Zenon DEF ResultFenced, EndSession
<1>32. ASSUME NEW g \in Gateways, NEW r \in Revisions, NEW answer \in CancelOutcomes, RecordCancelAck(g, r, answer) PROVE Goal
  BY <1>32, Zenon DEF RecordCancelAck, Outstanding
<1>33. ASSUME NEW g \in Gateways, CancelAckFenced(g) PROVE Goal
  BY <1>33, Zenon DEF CancelAckFenced, EndSession
<1>34. ASSUME NEW a \in Attempts, LeaseRunsOut(a) PROVE Goal
  BY <1>34, Zenon DEF LeaseRunsOut
<1>35. ASSUME ReclaimReads PROVE Goal
  BY <1>35, Zenon DEF ReclaimReads
<1>36. ASSUME ReclaimWrites PROVE Goal
  BY <1>36, Zenon DEF ReclaimWrites, ReclaimJob, ReclaimedState
<1>37. ASSUME ReclaimAborts PROVE Goal
  BY <1>37, Zenon DEF ReclaimAborts
<1>38. ASSUME ReclaimStranded PROVE Goal
  BY <1>38, Zenon DEF ReclaimStranded, ReclaimJob, ReclaimedState
<1>39. ASSUME NEW g \in Gateways, Connect(g) PROVE Goal
  BY <1>39, Zenon DEF Connect
<1>40. ASSUME NEW g \in Gateways, Disconnect(g) PROVE Goal
  BY <1>40, Zenon DEF Disconnect, EndSession
<1>41. ASSUME OwnerLeaseRunsOut PROVE Goal
  BY <1>41, Zenon DEF OwnerLeaseRunsOut
<1>42. ASSUME NEW g \in Gateways, RenewOwnership(g) PROVE Goal
  BY <1>42, Zenon DEF RenewOwnership
<1>43. ASSUME NEW g \in Gateways, Crash(g) PROVE Goal
  BY <1>43, Zenon DEF Crash, Step, Idle
<1>44. ASSUME UNCHANGED vars PROVE Goal
  BY <1>44, SMTT(30) DEF vars
<1> HIDE BoundsAssumption DEF IInv, TInv, TypeOK, OutcomeWhenDone, StopsAreTrue,
        CanceledByTheHostIsStopped, AnswerStops, CancelOutcomes, States, TerminalStates, Terminal, LeaseHoldingStates, HoldsLease, Goal
<1>51. ASSUME NEW g \in Gateways, Scheduler(g) PROVE Goal
  BY <1>51, <1>8, <1>9, <1>10, <1>11, <1>12, <1>13, <1>14, <1>15, <1>16,
     <1>17, <1>18, <1>19, Zenon DEF Scheduler
<1>52. ASSUME NEW g \in Gateways, NEW a \in Attempts, Messages(g, a) PROVE Goal
  BY <1>52, <1>25, <1>26, <1>27, <1>28, <1>29, <1>30, <1>31, Zenon DEF Messages
<1>53. ASSUME Cancels PROVE Goal
  BY <1>53, <1>4, <1>5, <1>6, <1>7, <1>24, <1>23, <1>33, <1>32, Zenon DEF Cancels
<1>54. ASSUME Sweeps PROVE Goal
  BY <1>54, <1>2, <1>3, <1>20, <1>34, <1>35, <1>36, <1>37, <1>38, Zenon DEF Sweeps
<1>55. ASSUME NEW g \in Gateways, Sessions(g) PROVE Goal
  BY <1>55, <1>39, <1>40, <1>42, <1>43, Zenon DEF Sessions
<1>99. Goal
  BY <1>1, <1>21, <1>22, <1>41, <1>44, <1>51, <1>52, <1>53, <1>54, <1>55, Zenon
  DEF Next, Settled
<1> QED
  BY <1>99, Zenon DEF Goal

(* Settlement, capacity and cancel requests, step by step. *)
LEMMA SettlementKept ==
  ASSUME IInv, [Next]_vars
  PROVE  KeepsSettlement /\ FreesCapacity /\ DropsOnlyItsRequest
<1> USE DEF IInv, TInv, TypeOK, OutcomeWhenDone, NothingBeforeApproval,
        KeepsSettlement, FreesCapacity, DropsOnlyItsRequest,
        States, TerminalStates, Terminal, LeaseHoldingStates, HoldsLease
<1> DEFINE Goal == KeepsSettlement /\ FreesCapacity /\ DropsOnlyItsRequest
<1>1. ASSUME NEW p \in Approvers, Approve(p) PROVE Goal
  BY <1>1, Zenon DEF Approve
<1>2. ASSUME TTLPasses PROVE Goal
  BY <1>2, Zenon DEF TTLPasses
<1>3. ASSUME ExpireOverdue PROVE Goal
  BY <1>3, Zenon DEF ExpireOverdue
<1>4. ASSUME CancelHere PROVE Goal
  BY <1>4, Zenon DEF CancelHere
<1>5. ASSUME RequestCancel PROVE Goal
  BY <1>5, Zenon DEF RequestCancel
<1>6. ASSUME CancelDeadlinePasses PROVE Goal
  BY <1>6, Zenon DEF CancelDeadlinePasses
<1>7. ASSUME SettleCancelTimeouts PROVE Goal
  BY <1>7, Zenon DEF SettleCancelTimeouts
<1>8. ASSUME NEW g \in Gateways, List(g) PROVE Goal
  BY <1>8, Zenon DEF List, Step
<1>9. ASSUME NEW g \in Gateways, Admit(g) PROVE Goal
  BY <1>9, Zenon DEF Admit, Step
<1>10. ASSUME NEW g \in Gateways, LeaseJobs(g) PROVE Goal
  BY <1>10, Zenon DEF LeaseJobs, Step
<1>11. ASSUME NEW g \in Gateways, Untaken(g) PROVE Goal
  BY <1>11, Zenon DEF Untaken, Step
<1>12. ASSUME NEW g \in Gateways, Clear(g) PROVE Goal
  BY <1>12, Zenon DEF Clear, Step, Deliverable
<1>13. ASSUME NEW g \in Gateways, ReleaseLease(g) PROVE Goal
  BY <1>13, Zenon DEF ReleaseLease, Step, Idle, GiveUp
<1>14. ASSUME NEW g \in Gateways, FailUndelivered(g) PROVE Goal
  BY <1>14, Zenon DEF FailUndelivered, Step, Idle, GiveUp
<1>15. ASSUME NEW g \in Gateways, Send(g) PROVE Goal
  BY <1>15, Zenon DEF Send, Step
<1>16. ASSUME NEW g \in Gateways, MarkDispatched(g) PROVE Goal
  BY <1>16, Zenon DEF MarkDispatched, Step, Idle
<1>17. ASSUME NEW g \in Gateways, DispatchRefused(g) PROVE Goal
  BY <1>17, Zenon DEF DispatchRefused, Step
<1>18. ASSUME NEW g \in Gateways, RecordHandover(g) PROVE Goal
  BY <1>18, Zenon DEF RecordHandover, Step, Idle
<1>19. ASSUME NEW g \in Gateways, NotRecorded(g) PROVE Goal
  BY <1>19, Zenon DEF NotRecorded, Step, Idle
<1>20. ASSUME GrantRunsOut PROVE Goal
  BY <1>20, Zenon DEF GrantRunsOut
<1>21. ASSUME HostStarts PROVE Goal
  BY <1>21, Zenon DEF HostStarts
<1>22. ASSUME HostFinishes PROVE Goal
  BY <1>22, Zenon DEF HostFinishes
<1>23. ASSUME NEW g \in Gateways, SendCancel(g) PROVE Goal
  BY <1>23, Zenon DEF SendCancel
<1>24. ASSUME NEW r \in Revisions, NEW answer \in CancelOutcomes, HostAnswersCancel(r, answer) PROVE Goal
  BY <1>24, Zenon DEF HostAnswersCancel, CancelAnswers
<1>25. ASSUME NEW g \in Gateways, NEW a \in Attempts, AcceptAttempt(g, a) PROVE Goal
  BY <1>25, Zenon DEF AcceptAttempt
<1>26. ASSUME NEW g \in Gateways, NEW a \in Attempts, RenewAttemptLease(g, a) PROVE Goal
  BY <1>26, Zenon DEF RenewAttemptLease
<1>27. ASSUME NEW g \in Gateways, NEW a \in Attempts, MarkRunning(g, a) PROVE Goal
  BY <1>27, Zenon DEF MarkRunning
<1>28. ASSUME NEW g \in Gateways, NEW a \in Attempts, ResultOfSuperseded(g, a) PROVE Goal
  BY <1>28, Zenon DEF ResultOfSuperseded, Answer
<1>29. ASSUME NEW g \in Gateways, NEW a \in Attempts, ResultRefused(g, a) PROVE Goal
  BY <1>29, Zenon DEF ResultRefused, Answer
<1>30. ASSUME NEW g \in Gateways, NEW a \in Attempts, ResultSettles(g, a) PROVE Goal
  <2>1. ~Terminal(state)
    BY <1>30, Fates, Zenon DEF ResultSettles, Supersedes
  <2> QED
    BY <1>30, <2>1, Zenon DEF ResultSettles
<1>31. ASSUME NEW g \in Gateways, NEW a \in Attempts, ResultFenced(g, a) PROVE Goal
  BY <1>31, Zenon DEF ResultFenced, EndSession
<1>32. ASSUME NEW g \in Gateways, NEW r \in Revisions, NEW answer \in CancelOutcomes, RecordCancelAck(g, r, answer) PROVE Goal
  BY <1>32, Zenon DEF RecordCancelAck, Outstanding
<1>33. ASSUME NEW g \in Gateways, CancelAckFenced(g) PROVE Goal
  BY <1>33, Zenon DEF CancelAckFenced, EndSession
<1>34. ASSUME NEW a \in Attempts, LeaseRunsOut(a) PROVE Goal
  BY <1>34, Zenon DEF LeaseRunsOut
<1>35. ASSUME ReclaimReads PROVE Goal
  BY <1>35, Zenon DEF ReclaimReads
<1>36. ASSUME ReclaimWrites PROVE Goal
  BY <1>36, Zenon DEF ReclaimWrites, ReclaimJob, ReclaimedState
<1>37. ASSUME ReclaimAborts PROVE Goal
  BY <1>37, Zenon DEF ReclaimAborts
<1>38. ASSUME ReclaimStranded PROVE Goal
  BY <1>38, Zenon DEF ReclaimStranded, ReclaimJob, ReclaimedState
<1>39. ASSUME NEW g \in Gateways, Connect(g) PROVE Goal
  BY <1>39, Zenon DEF Connect
<1>40. ASSUME NEW g \in Gateways, Disconnect(g) PROVE Goal
  BY <1>40, Zenon DEF Disconnect, EndSession
<1>41. ASSUME OwnerLeaseRunsOut PROVE Goal
  BY <1>41, Zenon DEF OwnerLeaseRunsOut
<1>42. ASSUME NEW g \in Gateways, RenewOwnership(g) PROVE Goal
  BY <1>42, Zenon DEF RenewOwnership
<1>43. ASSUME NEW g \in Gateways, Crash(g) PROVE Goal
  BY <1>43, Zenon DEF Crash, Step, Idle
<1>44. ASSUME UNCHANGED vars PROVE Goal
  BY <1>44, SMTT(30) DEF vars
<1> HIDE DEF IInv, TInv, TypeOK, OutcomeWhenDone, NothingBeforeApproval,
        KeepsSettlement, FreesCapacity, DropsOnlyItsRequest,
        States, TerminalStates, Terminal, LeaseHoldingStates, HoldsLease, Goal
<1>51. ASSUME NEW g \in Gateways, Scheduler(g) PROVE Goal
  BY <1>51, <1>8, <1>9, <1>10, <1>11, <1>12, <1>13, <1>14, <1>15, <1>16,
     <1>17, <1>18, <1>19, Zenon DEF Scheduler
<1>52. ASSUME NEW g \in Gateways, NEW a \in Attempts, Messages(g, a) PROVE Goal
  BY <1>52, <1>25, <1>26, <1>27, <1>28, <1>29, <1>30, <1>31, Zenon DEF Messages
<1>53. ASSUME Cancels PROVE Goal
  BY <1>53, <1>4, <1>5, <1>6, <1>7, <1>24, <1>23, <1>33, <1>32, Zenon DEF Cancels
<1>54. ASSUME Sweeps PROVE Goal
  BY <1>54, <1>2, <1>3, <1>20, <1>34, <1>35, <1>36, <1>37, <1>38, Zenon DEF Sweeps
<1>55. ASSUME NEW g \in Gateways, Sessions(g) PROVE Goal
  BY <1>55, <1>39, <1>40, <1>42, <1>43, Zenon DEF Sessions
<1>99. Goal
  BY <1>1, <1>21, <1>22, <1>41, <1>44, <1>51, <1>52, <1>53, <1>54, <1>55, Zenon
  DEF Next, Settled
<1> QED
  BY <1>99, Zenon DEF Goal

(* A restart that is on its way: one scheduler at most carries it, the host *)
(* holds nothing before that scheduler sends it and nothing but its attempt *)
(* after, and a restart in the queue is with nobody.                        *)
Undelivered == {"planned", "awaiting_approval", "queued"}

Carries(g) == step[g] \in {"leased", "cleared", "sent", "handover"}

OneDelivery ==
    Reboot =>
        /\ \A g, h \in Gateways : Carries(g) /\ Carries(h) => g = h
        /\ state \in Undelivered => held = {} /\ \A g \in Gateways : ~Carries(g)
        /\ \A g \in Gateways : Carries(g) => held \subseteq {carrying[g]}
        /\ \A g \in Gateways : step[g] \in {"leased", "cleared"} => held = {}
        /\ RebootSentOnce

LEMMA QuietKeeps ==
  ASSUME OneDelivery, UNCHANGED <<step, carrying, held>>,
         state' \in Undelivered => state \in Undelivered
  PROVE  OneDelivery'
BY Zenon DEF OneDelivery, Carries, RebootSentOnce

(* A scheduler that stops carrying; one that gives the restart back had not *)
(* sent it.                                                                 *)
LEMMA StopsKeeps ==
  ASSUME OneDelivery, NEW g \in Gateways, held' = held, ~Carries(g)',
         \A h \in Gateways \ {g} : step'[h] = step[h] /\ carrying'[h] = carrying[h],
         state' \in Undelivered => state \in Undelivered \/ step[g] \in {"leased", "cleared"}
  PROVE  OneDelivery'
<1>1. SUFFICES ASSUME Reboot PROVE OneDelivery'
  BY Zenon DEF OneDelivery
<1>2. \A h \in Gateways : Carries(h)' => h # g /\ Carries(h)
  BY Zenon DEF Carries
<1>3. step[g] \in {"leased", "cleared"} => held = {} /\ \A h \in Gateways \ {g} : ~Carries(h)
  BY <1>1, Zenon DEF OneDelivery, Carries
<1>4. state' \in Undelivered => held = {} /\ \A h \in Gateways \ {g} : ~Carries(h)
  BY <1>1, <1>3, Zenon DEF OneDelivery
<1> QED
  BY <1>1, <1>2, <1>4, Zenon DEF OneDelivery, Carries, RebootSentOnce

(* A scheduler that goes on with what it carries. *)
LEMMA GoesOnKeeps ==
  ASSUME OneDelivery, NEW g \in Gateways, Carries(g), carrying' = carrying, state' = state,
         \A h \in Gateways \ {g} : step'[h] = step[h],
         held' = held \/ (held' = held \union {carrying[g]} /\ step'[g] = "sent"),
         step'[g] \in {"leased", "cleared"} => step[g] \in {"leased", "cleared"}
  PROVE  OneDelivery'
<1>1. SUFFICES ASSUME Reboot PROVE OneDelivery'
  BY Zenon DEF OneDelivery
<1>2. \A h \in Gateways : Carries(h)' => h = g
  BY <1>1, Zenon DEF OneDelivery, Carries
<1>3. held' \subseteq {carrying'[g]}
  BY <1>1, Zenon DEF OneDelivery
<1>4. state' \notin Undelivered
  BY <1>1, Zenon DEF OneDelivery
<1>5. \A h \in Gateways : step'[h] \in {"leased", "cleared"} => h = g /\ held' = {}
  BY <1>1, <1>2, Zenon DEF OneDelivery, Carries
<1> QED
  BY <1>1, <1>2, <1>3, <1>4, <1>5, Zenon DEF OneDelivery, Carries, RebootSentOnce

LEMMA RebootInductive ==
  ASSUME TInv, OneDelivery, [Next]_vars
  PROVE  OneDelivery'
<1>1. ASSUME NEW p \in Approvers, Approve(p) PROVE OneDelivery'
  BY <1>1, QuietKeeps, Zenon DEF Approve, Undelivered
<1>2. ASSUME TTLPasses PROVE OneDelivery'
  BY <1>2, QuietKeeps, Zenon DEF TTLPasses, Undelivered
<1>3. ASSUME ExpireOverdue PROVE OneDelivery'
  BY <1>3, QuietKeeps, Zenon DEF ExpireOverdue, Undelivered
<1>4. ASSUME CancelHere PROVE OneDelivery'
  BY <1>4, QuietKeeps, Zenon DEF CancelHere, Undelivered
<1>5. ASSUME RequestCancel PROVE OneDelivery'
  BY <1>5, QuietKeeps, Zenon DEF RequestCancel, Undelivered
<1>6. ASSUME CancelDeadlinePasses PROVE OneDelivery'
  BY <1>6, QuietKeeps, Zenon DEF CancelDeadlinePasses, Undelivered
<1>7. ASSUME SettleCancelTimeouts PROVE OneDelivery'
  BY <1>7, QuietKeeps, Zenon DEF SettleCancelTimeouts, Undelivered
<1>8. ASSUME NEW g \in Gateways, List(g) PROVE OneDelivery'
  <2>1. step \in [Gateways -> Steps] /\ carrying \in [Gateways -> 0..MaxAttempts]
    BY Zenon DEF TInv, TypeOK
  <2>2. \A h \in Gateways \ {g} : step'[h] = step[h] /\ carrying'[h] = carrying[h]
    BY <1>8, <2>1, Zenon DEF List, Step
  <2>3. held' = held /\ step'[g] \notin {"leased", "cleared", "sent", "handover"}
    BY <1>8, <2>1, Zenon DEF List, Step
  <2>4. state' \in Undelivered => state \in Undelivered \/ step[g] \in {"leased", "cleared"}
    BY <1>8, Zenon DEF List, Step, Undelivered
  <2> QED
    BY <2>2, <2>3, <2>4, StopsKeeps, Zenon DEF Carries
<1>9. ASSUME NEW g \in Gateways, Admit(g) PROVE OneDelivery'
  <2>1. step \in [Gateways -> Steps] /\ carrying \in [Gateways -> 0..MaxAttempts]
    BY Zenon DEF TInv, TypeOK
  <2>2. \A h \in Gateways \ {g} : step'[h] = step[h] /\ carrying'[h] = carrying[h]
    BY <1>9, <2>1, Zenon DEF Admit, Step
  <2>3. held' = held /\ step'[g] \notin {"leased", "cleared", "sent", "handover"}
    BY <1>9, <2>1, Zenon DEF Admit, Step
  <2>4. state' \in Undelivered => state \in Undelivered \/ step[g] \in {"leased", "cleared"}
    BY <1>9, Zenon DEF Admit, Step, Undelivered
  <2> QED
    BY <2>2, <2>3, <2>4, StopsKeeps, Zenon DEF Carries
<1>10. ASSUME NEW g \in Gateways, LeaseJobs(g) PROVE OneDelivery'
  <2>1. step \in [Gateways -> Steps] /\ carrying \in [Gateways -> 0..MaxAttempts]
    BY Zenon DEF TInv, TypeOK
  <2>2. SUFFICES ASSUME Reboot PROVE OneDelivery'
    BY Zenon DEF OneDelivery
  <2>3. held = {} /\ \A h \in Gateways : ~Carries(h)
    BY <1>10, <2>2, Zenon DEF LeaseJobs, OneDelivery, Undelivered
  <2>4. \A h \in Gateways : Carries(h)' => h = g
    BY <1>10, <2>1, <2>3, Zenon DEF LeaseJobs, Step, Carries
  <2>5. held' = {} /\ state' \notin Undelivered
    BY <1>10, <2>3, Zenon DEF LeaseJobs, Undelivered
  <2> QED
    BY <2>4, <2>5, Zenon DEF OneDelivery, RebootSentOnce
<1>11. ASSUME NEW g \in Gateways, Untaken(g) PROVE OneDelivery'
  <2>1. step \in [Gateways -> Steps] /\ carrying \in [Gateways -> 0..MaxAttempts]
    BY Zenon DEF TInv, TypeOK
  <2>2. \A h \in Gateways \ {g} : step'[h] = step[h] /\ carrying'[h] = carrying[h]
    BY <1>11, <2>1, Zenon DEF Untaken, Step
  <2>3. held' = held /\ step'[g] \notin {"leased", "cleared", "sent", "handover"}
    BY <1>11, <2>1, Zenon DEF Untaken, Step
  <2>4. state' \in Undelivered => state \in Undelivered \/ step[g] \in {"leased", "cleared"}
    BY <1>11, Zenon DEF Untaken, Step, Undelivered
  <2> QED
    BY <2>2, <2>3, <2>4, StopsKeeps, Zenon DEF Carries
<1>12. ASSUME NEW g \in Gateways, Clear(g) PROVE OneDelivery'
  <2>1. step \in [Gateways -> Steps]
    BY Zenon DEF TInv, TypeOK
  <2> QED
    BY <1>12, <2>1, GoesOnKeeps, Zenon DEF Clear, Step, Deliverable, Carries
<1>13. ASSUME NEW g \in Gateways, ReleaseLease(g) PROVE OneDelivery'
  <2>1. step \in [Gateways -> Steps] /\ carrying \in [Gateways -> 0..MaxAttempts]
    BY Zenon DEF TInv, TypeOK
  <2>2. \A h \in Gateways \ {g} : step'[h] = step[h] /\ carrying'[h] = carrying[h]
    BY <1>13, <2>1, Zenon DEF ReleaseLease, Step, Idle, GiveUp
  <2>3. held' = held /\ step'[g] \notin {"leased", "cleared", "sent", "handover"}
    BY <1>13, <2>1, Zenon DEF ReleaseLease, Step, Idle, GiveUp
  <2>4. state' \in Undelivered => state \in Undelivered \/ step[g] \in {"leased", "cleared"}
    BY <1>13, Zenon DEF ReleaseLease, Step, Idle, GiveUp, Undelivered
  <2> QED
    BY <2>2, <2>3, <2>4, StopsKeeps, Zenon DEF Carries
<1>14. ASSUME NEW g \in Gateways, FailUndelivered(g) PROVE OneDelivery'
  <2>1. step \in [Gateways -> Steps] /\ carrying \in [Gateways -> 0..MaxAttempts]
    BY Zenon DEF TInv, TypeOK
  <2>2. \A h \in Gateways \ {g} : step'[h] = step[h] /\ carrying'[h] = carrying[h]
    BY <1>14, <2>1, Zenon DEF FailUndelivered, Step, Idle, GiveUp
  <2>3. held' = held /\ step'[g] \notin {"leased", "cleared", "sent", "handover"}
    BY <1>14, <2>1, Zenon DEF FailUndelivered, Step, Idle, GiveUp
  <2>4. state' \in Undelivered => state \in Undelivered \/ step[g] \in {"leased", "cleared"}
    BY <1>14, Zenon DEF FailUndelivered, Step, Idle, GiveUp, Undelivered
  <2> QED
    BY <2>2, <2>3, <2>4, StopsKeeps, Zenon DEF Carries
<1>15. ASSUME NEW g \in Gateways, Send(g) PROVE OneDelivery'
  <2>1. step \in [Gateways -> Steps]
    BY Zenon DEF TInv, TypeOK
  <2> QED
    BY <1>15, <2>1, GoesOnKeeps, Zenon DEF Send, Step, Carries
<1>16. ASSUME NEW g \in Gateways, MarkDispatched(g) PROVE OneDelivery'
  <2>1. step \in [Gateways -> Steps] /\ carrying \in [Gateways -> 0..MaxAttempts]
    BY Zenon DEF TInv, TypeOK
  <2>2. \A h \in Gateways \ {g} : step'[h] = step[h] /\ carrying'[h] = carrying[h]
    BY <1>16, <2>1, Zenon DEF MarkDispatched, Step, Idle
  <2>3. held' = held /\ step'[g] \notin {"leased", "cleared", "sent", "handover"}
    BY <1>16, <2>1, Zenon DEF MarkDispatched, Step, Idle
  <2>4. state' \in Undelivered => state \in Undelivered \/ step[g] \in {"leased", "cleared"}
    BY <1>16, Zenon DEF MarkDispatched, Step, Idle, Undelivered
  <2> QED
    BY <2>2, <2>3, <2>4, StopsKeeps, Zenon DEF Carries
<1>17. ASSUME NEW g \in Gateways, DispatchRefused(g) PROVE OneDelivery'
  <2>1. step \in [Gateways -> Steps]
    BY Zenon DEF TInv, TypeOK
  <2> QED
    BY <1>17, <2>1, GoesOnKeeps, Zenon DEF DispatchRefused, Step, Carries
<1>18. ASSUME NEW g \in Gateways, RecordHandover(g) PROVE OneDelivery'
  <2>1. step \in [Gateways -> Steps] /\ carrying \in [Gateways -> 0..MaxAttempts]
    BY Zenon DEF TInv, TypeOK
  <2>2. \A h \in Gateways \ {g} : step'[h] = step[h] /\ carrying'[h] = carrying[h]
    BY <1>18, <2>1, Zenon DEF RecordHandover, Step, Idle
  <2>3. held' = held /\ step'[g] \notin {"leased", "cleared", "sent", "handover"}
    BY <1>18, <2>1, Zenon DEF RecordHandover, Step, Idle
  <2>4. state' \in Undelivered => state \in Undelivered \/ step[g] \in {"leased", "cleared"}
    BY <1>18, Zenon DEF RecordHandover, Step, Idle, Undelivered
  <2> QED
    BY <2>2, <2>3, <2>4, StopsKeeps, Zenon DEF Carries
<1>19. ASSUME NEW g \in Gateways, NotRecorded(g) PROVE OneDelivery'
  <2>1. step \in [Gateways -> Steps] /\ carrying \in [Gateways -> 0..MaxAttempts]
    BY Zenon DEF TInv, TypeOK
  <2>2. \A h \in Gateways \ {g} : step'[h] = step[h] /\ carrying'[h] = carrying[h]
    BY <1>19, <2>1, Zenon DEF NotRecorded, Step, Idle
  <2>3. held' = held /\ step'[g] \notin {"leased", "cleared", "sent", "handover"}
    BY <1>19, <2>1, Zenon DEF NotRecorded, Step, Idle
  <2>4. state' \in Undelivered => state \in Undelivered \/ step[g] \in {"leased", "cleared"}
    BY <1>19, Zenon DEF NotRecorded, Step, Idle, Undelivered
  <2> QED
    BY <2>2, <2>3, <2>4, StopsKeeps, Zenon DEF Carries
<1>20. ASSUME GrantRunsOut PROVE OneDelivery'
  BY <1>20, QuietKeeps, Zenon DEF GrantRunsOut, Undelivered
<1>21. ASSUME HostStarts PROVE OneDelivery'
  BY <1>21, QuietKeeps, Zenon DEF HostStarts, Undelivered
<1>22. ASSUME HostFinishes PROVE OneDelivery'
  BY <1>22, QuietKeeps, Zenon DEF HostFinishes, Undelivered
<1>23. ASSUME NEW g \in Gateways, SendCancel(g) PROVE OneDelivery'
  BY <1>23, QuietKeeps, Zenon DEF SendCancel, Undelivered
<1>24. ASSUME NEW r \in Revisions, NEW answer \in CancelOutcomes, HostAnswersCancel(r, answer) PROVE OneDelivery'
  BY <1>24, QuietKeeps, Zenon DEF HostAnswersCancel, CancelAnswers, Undelivered
<1>25. ASSUME NEW g \in Gateways, NEW a \in Attempts, AcceptAttempt(g, a) PROVE OneDelivery'
  BY <1>25, QuietKeeps, Zenon DEF AcceptAttempt, Undelivered
<1>26. ASSUME NEW g \in Gateways, NEW a \in Attempts, RenewAttemptLease(g, a) PROVE OneDelivery'
  BY <1>26, QuietKeeps, Zenon DEF RenewAttemptLease, Undelivered
<1>27. ASSUME NEW g \in Gateways, NEW a \in Attempts, MarkRunning(g, a) PROVE OneDelivery'
  BY <1>27, QuietKeeps, Zenon DEF MarkRunning, Undelivered
<1>28. ASSUME NEW g \in Gateways, NEW a \in Attempts, ResultOfSuperseded(g, a) PROVE OneDelivery'
  BY <1>28, QuietKeeps, Zenon DEF ResultOfSuperseded, Answer, Undelivered
<1>29. ASSUME NEW g \in Gateways, NEW a \in Attempts, ResultRefused(g, a) PROVE OneDelivery'
  BY <1>29, QuietKeeps, Zenon DEF ResultRefused, Answer, Undelivered
<1>30. ASSUME NEW g \in Gateways, NEW a \in Attempts, ResultSettles(g, a) PROVE OneDelivery'
  <2>1. outcome \notin Undelivered
    BY Zenon DEF TInv, TypeOK, TerminalStates, Undelivered
  <2> QED
    BY <1>30, <2>1, QuietKeeps, Zenon DEF ResultSettles, Answer
<1>31. ASSUME NEW g \in Gateways, NEW a \in Attempts, ResultFenced(g, a) PROVE OneDelivery'
  BY <1>31, QuietKeeps, Zenon DEF ResultFenced, EndSession, Undelivered
<1>32. ASSUME NEW g \in Gateways, NEW r \in Revisions, NEW answer \in CancelOutcomes, RecordCancelAck(g, r, answer) PROVE OneDelivery'
  BY <1>32, QuietKeeps, Zenon DEF RecordCancelAck, Outstanding, Undelivered
<1>33. ASSUME NEW g \in Gateways, CancelAckFenced(g) PROVE OneDelivery'
  BY <1>33, QuietKeeps, Zenon DEF CancelAckFenced, EndSession, Undelivered
<1>34. ASSUME NEW a \in Attempts, LeaseRunsOut(a) PROVE OneDelivery'
  BY <1>34, QuietKeeps, Zenon DEF LeaseRunsOut, Undelivered
<1>35. ASSUME ReclaimReads PROVE OneDelivery'
  BY <1>35, QuietKeeps, Zenon DEF ReclaimReads, Undelivered, LeaseHoldingStates, HoldsLease,
         OneDelivery
<1>36. ASSUME ReclaimWrites PROVE OneDelivery'
  BY <1>36, QuietKeeps, Zenon DEF ReclaimWrites, ReclaimJob, ReclaimedState, Undelivered,
         LeaseHoldingStates, HoldsLease, OneDelivery
<1>37. ASSUME ReclaimAborts PROVE OneDelivery'
  BY <1>37, QuietKeeps, Zenon DEF ReclaimAborts, Undelivered, LeaseHoldingStates, HoldsLease,
         OneDelivery
<1>38. ASSUME ReclaimStranded PROVE OneDelivery'
  BY <1>38, QuietKeeps, Zenon DEF ReclaimStranded, ReclaimJob, ReclaimedState, Undelivered,
         LeaseHoldingStates, HoldsLease, OneDelivery
<1>39. ASSUME NEW g \in Gateways, Connect(g) PROVE OneDelivery'
  BY <1>39, QuietKeeps, Zenon DEF Connect, Undelivered
<1>40. ASSUME NEW g \in Gateways, Disconnect(g) PROVE OneDelivery'
  BY <1>40, QuietKeeps, Zenon DEF Disconnect, EndSession, Undelivered
<1>41. ASSUME OwnerLeaseRunsOut PROVE OneDelivery'
  BY <1>41, QuietKeeps, Zenon DEF OwnerLeaseRunsOut, Undelivered
<1>42. ASSUME NEW g \in Gateways, RenewOwnership(g) PROVE OneDelivery'
  BY <1>42, QuietKeeps, Zenon DEF RenewOwnership, Undelivered
<1>43. ASSUME NEW g \in Gateways, Crash(g) PROVE OneDelivery'
  <2>1. step \in [Gateways -> Steps] /\ carrying \in [Gateways -> 0..MaxAttempts]
    BY Zenon DEF TInv, TypeOK
  <2>2. \A h \in Gateways \ {g} : step'[h] = step[h] /\ carrying'[h] = carrying[h]
    BY <1>43, <2>1, Zenon DEF Crash, Step, Idle
  <2>3. held' = held /\ step'[g] \notin {"leased", "cleared", "sent", "handover"}
    BY <1>43, <2>1, Zenon DEF Crash, Step, Idle
  <2>4. state' \in Undelivered => state \in Undelivered \/ step[g] \in {"leased", "cleared"}
    BY <1>43, Zenon DEF Crash, Step, Idle, Undelivered
  <2> QED
    BY <2>2, <2>3, <2>4, StopsKeeps, Zenon DEF Carries
<1>44. ASSUME UNCHANGED vars PROVE OneDelivery'
  BY <1>44, QuietKeeps, Zenon DEF vars
<1>51. ASSUME NEW g \in Gateways, Scheduler(g) PROVE OneDelivery'
  BY <1>51, <1>8, <1>9, <1>10, <1>11, <1>12, <1>13, <1>14, <1>15, <1>16,
     <1>17, <1>18, <1>19, Zenon DEF Scheduler
<1>52. ASSUME NEW g \in Gateways, NEW a \in Attempts, Messages(g, a) PROVE OneDelivery'
  BY <1>52, <1>25, <1>26, <1>27, <1>28, <1>29, <1>30, <1>31, Zenon DEF Messages
<1>53. ASSUME Cancels PROVE OneDelivery'
  BY <1>53, <1>4, <1>5, <1>6, <1>7, <1>24, <1>23, <1>33, <1>32, Zenon DEF Cancels
<1>54. ASSUME Sweeps PROVE OneDelivery'
  BY <1>54, <1>2, <1>3, <1>20, <1>34, <1>35, <1>36, <1>37, <1>38, Zenon DEF Sweeps
<1>55. ASSUME NEW g \in Gateways, Sessions(g) PROVE OneDelivery'
  BY <1>55, <1>39, <1>40, <1>42, <1>43, Zenon DEF Sessions
<1>99. OneDelivery'
  BY <1>1, <1>21, <1>22, <1>41, <1>44, <1>51, <1>52, <1>53, <1>54, <1>55, Zenon
  DEF Next, Settled
<1> QED
  BY <1>99, Zenon

LEMMA InitIInv == Init => IInv
<1> SUFFICES ASSUME Init PROVE IInv
  BY Zenon
<1> USE DEF Init
<1>1. FlagsOK
  BY Zenon DEF FlagsOK
<1>2. TInv
  BY <1>1, BoundsAssumption DEF TInv, TypeOK, OutcomeWhenDone, CarriesAnAttempt, Attempts,
     Tokens, Revisions, Answers, Steps, Results, AttemptStatus, States,
     TerminalStates, LeaseHoldingStates
<1>3. LocksOpenAttempts /\ ReadStaysBehind /\ CarriedByAnOpenAttempt
  BY Zenon DEF LocksOpenAttempts, ReadStaysBehind, CarriedByAnOpenAttempt
<1>4. NothingBeforeApproval
  BY Zenon DEF NothingBeforeApproval
<1>5. ApprovedWhenActive
  <2>1. Cardinality(approvals) = 0
    BY FS_EmptySet, Zenon
  <2> QED
    BY <2>1, BoundsAssumption DEF ApprovedWhenActive, Approved, HoldsLease, LeaseHoldingStates
<1>6. StopsAreTrue /\ CanceledByTheHostIsStopped
  BY Zenon DEF StopsAreTrue, CanceledByTheHostIsStopped
<1> QED
  BY <1>2, <1>3, <1>4, <1>5, <1>6, Zenon DEF IInv

(* The inductive invariant holds in every reachable state. *)
THEOREM Invariance == Spec => []IInv
<1>1. IInv /\ [Next]_vars => IInv'
  BY TypeInductive, CarriedInductive, ApprovalInductive, CancelInductive, Zenon DEF IInv
<1> QED
  BY InitIInv, <1>1, PTL DEF Spec

(* Every variable keeps its type, for any number of gateways and attempts. *)
THEOREM TypeCorrect == Spec => []TypeOK
BY Invariance, PTL DEF IInv, TInv

(* A leased or dispatched job is always carried by an open attempt, so its *)
(* lease can bring it back.                                                *)
THEOREM JobsAreCarried == Spec => []CarriedByAnOpenAttempt
BY Invariance, PTL DEF IInv

(* No delivery before the approvals the job needs.                         *)
THEOREM DeliveredOnlyApproved == Spec => []ApprovedBeforeDelivery
<1>1. IInv => ApprovedBeforeDelivery
  BY Zenon DEF IInv, ApprovedWhenActive, Approved, ApprovedBeforeDelivery
<1> QED
  BY Invariance, <1>1, PTL

(* A job canceled on the word of its host has stopped there.               *)
THEOREM CanceledIsStopped == Spec => []CanceledByTheHostIsStopped
BY Invariance, PTL DEF IInv

(* Only the second half of a reclaim can move a settled job.               *)
THEOREM SettlementsStand == Spec => SettledStaysSettled
<1>1. IInv /\ [Next]_vars => [KeepsSettlement]_vars
  BY SettlementKept, Zenon
<1> QED
  BY Invariance, <1>1, PTL DEF Spec, SettledStaysSettled

(* Every settlement and every return to the queue frees the budget tokens. *)
THEOREM CapacityIsFreed == Spec => CapacityGoesBackWithTheJob
<1>1. IInv /\ [Next]_vars => [FreesCapacity]_vars
  BY SettlementKept, Zenon
<1> QED
  BY Invariance, <1>1, PTL DEF Spec, CapacityGoesBackWithTheJob

(* However often a cancel is asked, only the answer to the last request    *)
(* lets the job run on.                                                    *)
THEOREM CancelsStand == Spec => CancelDroppedOnlyByItsAnswer
<1>1. IInv /\ [Next]_vars => [DropsOnlyItsRequest]_vars
  BY SettlementKept, Zenon
<1> QED
  BY Invariance, <1>1, PTL DEF Spec, CancelDroppedOnlyByItsAnswer

(* A restart is handed to its host once, however the gateways lease,       *)
(* release, crash and hand over: what was sent never returns to the queue. *)
THEOREM RestartsAreSentOnce == Spec => []RebootSentOnce
<1>1. Init => OneDelivery
  BY Zenon DEF Init, OneDelivery, Carries, RebootSentOnce
<1>2. IInv /\ OneDelivery /\ [Next]_vars => OneDelivery'
  BY RebootInductive, Zenon DEF IInv
<1>3. OneDelivery => RebootSentOnce
  BY Zenon DEF OneDelivery, RebootSentOnce
<1> QED
  BY Invariance, <1>1, <1>2, <1>3, PTL DEF Spec
=============================================================================
