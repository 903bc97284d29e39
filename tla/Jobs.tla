-------------------------------- MODULE Jobs --------------------------------
(***************************************************************************)
(* The life of one job (internal/jobs, internal/scheduler and the messages *)
(* of its host that internal/gateway handles): the gateways lease it,      *)
(* deliver it over the session of its host and record what the host says;  *)
(* an operator may cancel it; sweeps take back what nobody carries.        *)
(*                                                                         *)
(* Every statement of the store touches the rows of one job, so one job of *)
(* one host is the whole story.  A transaction that locks the row of the   *)
(* job is one step.  The statement that reclaims expired leases locks only *)
(* the attempts and reads the job in its snapshot: it is two steps, and    *)
(* its second one sees the row another transaction committed in between.   *)
(* Deadlines (leases, TTL, the wait for a cancel) are compared with the    *)
(* database clock only: each is a flag that an action of its own turns.    *)
(***************************************************************************)
EXTENDS Integers, FiniteSets, JobStates

CONSTANTS
    Gateways,           \* the replicas of the panel that run a scheduler
    Approvers,          \* the operators who may approve
    RequiredApprovals,  \* 2 for a destructive operation
    Reboot,             \* is the operation a restart of the host?
    MaxAttempts,        \* bound: how often the job is leased
    MaxSessions,        \* bound: how often the host connects
    MaxCancels          \* bound: how often a cancel is requested

ASSUME BoundsAssumption ==
    /\ RequiredApprovals \in Nat /\ Reboot \in BOOLEAN
    /\ MaxAttempts \in Nat /\ MaxSessions \in Nat /\ MaxCancels \in Nat

VARIABLES
    \* the row of the job
    state, result, approvals, overdue, granted, cancelRevision, cancelAcked,
    cancelOverdue,
    \* the rows of its attempts: how each stands, and what the panel answered
    \* the host about its result
    attempt, answers,
    \* the attempts the reclaim statement holds, and the state it read (none: it
    \* does not run)
    locked, snapshot,
    \* the sessions of the host: the one each gateway keeps (0: none), the open
    \* rows of agent_sessions, the token of the ownership row and its lease
    session, rows, token, owned,
    \* the delivery each scheduler is in the middle of
    step, carrying, via,
    \* the host: the attempts it received, what became of the operation, the
    \* cancel requests that reached it and its answers to them
    held, work, outcome, asked, acks

jobVars == <<state, result, approvals, overdue, granted>>
cancelVars == <<cancelRevision, cancelAcked, cancelOverdue>>
attemptVars == <<attempt, answers>>
sweepVars == <<locked, snapshot>>
sessionVars == <<session, rows, token, owned>>
deliveryVars == <<step, carrying, via>>
hostVars == <<held, work, outcome, asked, acks>>
vars == <<jobVars, cancelVars, attemptVars, sweepVars, sessionVars,
          deliveryVars, hostVars>>

Attempts == 1..MaxAttempts
Tokens == 0..MaxSessions
Revisions == 0..MaxCancels
Answers == {"settled", "duplicate", "rejected_stale"}
Steps == {"idle", "listed", "admitted", "leased", "cleared", "sent", "handover"}
CancelOutcomes == {"not_started", "interrupted", "not_interruptible", "already_done"}

(* result_status: what the job says became of it; "unknown" asks an operator *)
(* to read the host.                                                        *)
Results == TerminalStates \union {"none", "unknown"}

FlagsOK ==
    /\ overdue \in BOOLEAN /\ granted \in BOOLEAN /\ owned \in BOOLEAN
    /\ cancelAcked \in BOOLEAN /\ cancelOverdue \in BOOLEAN

TypeOK ==
    /\ FlagsOK
    /\ state \in States /\ result \in Results /\ approvals \subseteq Approvers
    /\ cancelRevision \in Revisions
    /\ attempt \in [Attempts -> AttemptStatus]
    /\ answers \in [Attempts -> SUBSET Answers]
    /\ locked \subseteq Attempts /\ snapshot \in LeaseHoldingStates \union {"none"}
    /\ session \in [Gateways -> Tokens] /\ rows \subseteq Tokens
    /\ token \in Tokens
    /\ step \in [Gateways -> Steps]
    /\ carrying \in [Gateways -> 0..MaxAttempts] /\ via \in [Gateways -> Tokens]
    /\ held \subseteq Attempts
    /\ work \in {"none", "started", "done"}
    /\ outcome \in TerminalStates \union {"none"}
    /\ asked \subseteq Revisions
    /\ acks \subseteq Revisions \X CancelOutcomes

Open == {a \in Attempts : attempt[a] \in {"open", "lapsed"}}

(* Create: two persons approve a destructive operation, others go straight  *)
(* to the queue.                                                            *)
Init ==
    /\ state = IF RequiredApprovals > 0 THEN "awaiting_approval" ELSE "queued"
    /\ result = "none" /\ approvals = {} /\ overdue = FALSE /\ granted = FALSE
    /\ cancelRevision = 0 /\ cancelAcked = FALSE /\ cancelOverdue = FALSE
    /\ attempt = [a \in Attempts |-> "none"]
    /\ answers = [a \in Attempts |-> {}]
    /\ locked = {} /\ snapshot = "none"
    /\ session = [g \in Gateways |-> 0] /\ rows = {} /\ token = 0 /\ owned = FALSE
    /\ step = [g \in Gateways |-> "idle"]
    /\ carrying = [g \in Gateways |-> 0] /\ via = [g \in Gateways |-> 0]
    /\ held = {} /\ work = "none" /\ outcome = "none" /\ asked = {} /\ acks = {}

----------------------------------------------------------------------------
(* Orders: approval, TTL and the operator's cancel.                         *)

ApproveOnce(p) ==
    /\ state = "awaiting_approval"
    /\ approvals' = approvals \union {p} /\ state' = "queued"
    /\ UNCHANGED <<result, overdue, granted, cancelVars, attemptVars, sweepVars,
                   sessionVars, deliveryVars, hostVars>>

Approve(p) ==
    /\ state = "awaiting_approval"
    /\ approvals' = approvals \union {p}
    /\ state' = IF Cardinality(approvals') >= RequiredApprovals THEN "queued" ELSE state
    /\ UNCHANGED <<result, overdue, granted, cancelVars, attemptVars, sweepVars,
                   sessionVars, deliveryVars, hostVars>>

TTLPasses ==
    /\ ~overdue /\ overdue' = TRUE
    /\ UNCHANGED <<state, result, approvals, granted, cancelVars, attemptVars,
                   sweepVars, sessionVars, deliveryVars, hostVars>>

ExpireKeepsTokens ==
    /\ overdue /\ state \in {"planned", "awaiting_approval", "queued"}
    /\ state' = "expired" /\ result' = "expired"
    /\ UNCHANGED <<approvals, overdue, granted, cancelVars, attemptVars, sweepVars,
                   sessionVars, deliveryVars, hostVars>>

ExpireOverdue ==
    /\ overdue /\ state \in {"planned", "awaiting_approval", "queued"}
    /\ state' = "expired" /\ result' = "expired" /\ granted' = FALSE
    /\ UNCHANGED <<approvals, overdue, cancelVars, attemptVars, sweepVars,
                   sessionVars, deliveryVars, hostVars>>

(* Cancel and CancelUndelivered of a job that is not on its host yet: it is *)
(* over here and now.  The attempt of a leased one is left open.            *)
CancelHere ==
    /\ state \in {"planned", "awaiting_approval", "queued", "leased"}
    /\ state' = "canceled" /\ granted' = FALSE
    /\ UNCHANGED <<result, approvals, overdue, cancelVars, attemptVars, sweepVars,
                   sessionVars, deliveryVars, hostVars>>

(* The answer to an earlier request goes with it. *)
RequestCancel ==
    /\ state \in {"dispatched", "running"} /\ cancelRevision < MaxCancels
    /\ state' = "cancel_requested" /\ cancelRevision' = cancelRevision + 1
    /\ cancelAcked' = FALSE /\ cancelOverdue' = FALSE
    /\ UNCHANGED <<result, approvals, overdue, granted, attemptVars, sweepVars,
                   sessionVars, deliveryVars, hostVars>>

CancelDeadlinePasses ==
    /\ state = "cancel_requested" /\ ~cancelOverdue /\ cancelOverdue' = TRUE
    /\ UNCHANGED <<jobVars, cancelRevision, cancelAcked, attemptVars, sweepVars,
                   sessionVars, deliveryVars, hostVars>>

(* The sweep writes every open attempt, so it waits for the ones the        *)
(* reclaim statement holds.                                                 *)
SettleCancelTimeouts ==
    /\ state = "cancel_requested" /\ cancelOverdue
    /\ Open \intersect locked = {}
    /\ state' = "failed" /\ result' = "unknown" /\ granted' = FALSE
    /\ attempt' = [a \in Attempts |-> IF a \in Open THEN "failed" ELSE attempt[a]]
    /\ UNCHANGED <<approvals, overdue, cancelVars, answers, sweepVars,
                   sessionVars, deliveryVars, hostVars>>

----------------------------------------------------------------------------
(* The scheduler of a gateway: dispatchOnce and deliver.                    *)

Step(g, s) == step' = [step EXCEPT ![g] = s]

Idle(g) ==
    /\ Step(g, "idle")
    /\ carrying' = [carrying EXCEPT ![g] = 0] /\ via' = [via EXCEPT ![g] = 0]

List(g) ==
    /\ step[g] = "idle" /\ session[g] # 0
    /\ state = "queued" /\ ~overdue
    /\ Step(g, "listed")
    /\ UNCHANGED <<jobVars, cancelVars, attemptVars, sweepVars, sessionVars,
                   carrying, via, hostVars>>

(* The owner of the tokens is the job, so asking again replaces the grant.  *)
Admit(g) ==
    /\ step[g] = "listed"
    /\ \/ granted' = TRUE /\ Step(g, "admitted")
       \/ UNCHANGED granted /\ Step(g, "idle")
    /\ UNCHANGED <<state, result, approvals, overdue, cancelVars, attemptVars,
                   sweepVars, sessionVars, carrying, via, hostVars>>

NextAttempt == Cardinality({a \in Attempts : attempt[a] # "none"}) + 1

LeaseJobs(g) ==
    /\ step[g] = "admitted" /\ state = "queued" /\ ~overdue
    /\ NextAttempt <= MaxAttempts
    /\ state' = "leased"
    /\ attempt' = [attempt EXCEPT ![NextAttempt] = "open"]
    /\ carrying' = [carrying EXCEPT ![g] = NextAttempt]
    /\ Step(g, "leased")
    /\ UNCHANGED <<result, approvals, overdue, granted, cancelVars, answers,
                   sweepVars, sessionVars, via, hostVars>>

(* Taken by another gateway, canceled, expired, or the lease failed: the    *)
(* tokens of the job go back.                                               *)
Untaken(g) ==
    /\ step[g] = "admitted"
    /\ granted' = FALSE /\ Step(g, "idle")
    /\ UNCHANGED <<state, result, approvals, overdue, cancelVars, attemptVars,
                   sweepVars, sessionVars, carrying, via, hostVars>>

(* A grant nobody renews runs out; renewBudgets renews those of the jobs    *)
(* that hold a lease.                                                       *)
GrantRunsOut ==
    /\ granted /\ ~HoldsLease(state) /\ granted' = FALSE
    /\ UNCHANGED <<state, result, approvals, overdue, cancelVars, attemptVars,
                   sweepVars, sessionVars, deliveryVars, hostVars>>

Deliverable(g) == session[g] # 0 /\ owned /\ token = session[g]

Clear(g) ==
    /\ step[g] = "leased" /\ Deliverable(g)
    /\ via' = [via EXCEPT ![g] = session[g]]
    /\ Step(g, "cleared")
    /\ UNCHANGED <<jobVars, cancelVars, attemptVars, sweepVars, sessionVars,
                   carrying, hostVars>>

(* The effect of ReleaseLease and FailUndelivered on the rows: they look at *)
(* the state of the job, not at which attempt carries it.                   *)
GiveUp(a, to, says, status) ==
    IF state \in {"leased", "dispatched"}
    THEN /\ a \notin locked
         /\ state' = to /\ result' = says /\ granted' = FALSE
         /\ attempt' = [attempt EXCEPT ![a] = status]
    ELSE UNCHANGED <<state, result, granted, attempt>>

(* Not connected, not the owner, the owners unread, the envelope not built, *)
(* or the send timed out.                                                   *)
ReleaseLease(g) ==
    /\ step[g] \in {"leased", "cleared"}
    /\ GiveUp(carrying[g], "queued", result, "released")
    /\ Idle(g)
    /\ UNCHANGED <<approvals, overdue, cancelVars, answers, sweepVars,
                   sessionVars, hostVars>>

(* An envelope that will never be built. *)
FailUndelivered(g) ==
    /\ step[g] = "cleared"
    /\ GiveUp(carrying[g], "failed", "failed", "failed")
    /\ Idle(g)
    /\ UNCHANGED <<approvals, overdue, cancelVars, answers, sweepVars,
                   sessionVars, hostVars>>

(* The envelope enters the buffer of the session it was cleared for; it     *)
(* reaches the host if the stream still carries it there.                   *)
Send(g) ==
    /\ step[g] = "cleared"
    /\ \/ held' = held \union {carrying[g]} /\ session[g] = via[g]
       \/ UNCHANGED held
    /\ Step(g, "sent")
    /\ UNCHANGED <<jobVars, cancelVars, attemptVars, sweepVars, sessionVars,
                   carrying, via, work, outcome, asked, acks>>

FenceHolds(t) == t # 0 /\ t = token /\ owned

(* MarkDispatchedWithLease, dispatchAfterSettlement included. *)
MarkDispatched(g) ==
    /\ step[g] = "sent" /\ via[g] \in rows /\ FenceHolds(via[g])
    /\ state \in LeaseHoldingStates => carrying[g] \notin locked
    /\ state' = IF state = "leased" THEN "dispatched" ELSE state
    /\ result' = IF state \in LeaseHoldingStates THEN result ELSE "unknown"
    /\ Idle(g)
    /\ UNCHANGED <<approvals, overdue, granted, cancelVars, attemptVars, sweepVars,
                   sessionVars, hostVars>>

(* ErrSessionStale, ErrStaleFence *)
DispatchRefused(g) ==
    /\ step[g] = "sent" /\ ~(via[g] \in rows /\ FenceHolds(via[g]))
    /\ Step(g, "handover")
    /\ UNCHANGED <<jobVars, cancelVars, attemptVars, sweepVars, sessionVars,
                   carrying, via, hostVars>>

HandoverReopens(g) ==
    /\ step[g] = "handover" /\ carrying[g] \notin locked
    /\ state' = "dispatched"
    /\ Idle(g)
    /\ UNCHANGED <<result, approvals, overdue, granted, cancelVars, attemptVars,
                   sweepVars, sessionVars, hostVars>>

RecordHandover(g) ==
    /\ step[g] = "handover" /\ carrying[g] \notin locked
    /\ state' = IF state = "leased" THEN "dispatched" ELSE state
    /\ Idle(g)
    /\ UNCHANGED <<result, approvals, overdue, granted, cancelVars, attemptVars,
                   sweepVars, sessionVars, hostVars>>

(* The store failed; the error is logged and the lease is left to run out.  *)
NotRecorded(g) ==
    /\ step[g] \in {"leased", "cleared", "sent", "handover"}
    /\ Idle(g)
    /\ UNCHANGED <<jobVars, cancelVars, attemptVars, sweepVars, sessionVars,
                   hostVars>>

----------------------------------------------------------------------------
(* The host (modelled in its own modules; here as the gateway sees it): it  *)
(* carries the operation out once, whatever the number of attempts.         *)

HostStarts ==
    /\ held # {} /\ work = "none" /\ work' = "started"
    /\ UNCHANGED <<jobVars, cancelVars, attemptVars, sweepVars, sessionVars,
                   deliveryVars, held, outcome, asked, acks>>

(* Refused, expired or stopped before the start; or carried out.            *)
HostFinishes ==
    /\ held # {} /\ work # "done" /\ work' = "done"
    /\ outcome' \in (IF work = "none" THEN {"failed", "expired"}
                     ELSE {"succeeded", "failed", "timed_out"})
    /\ UNCHANGED <<jobVars, cancelVars, attemptVars, sweepVars, sessionVars,
                   deliveryVars, held, asked, acks>>

(* The relay sends a request until it is answered. *)
SendCancel(g) ==
    /\ state = "cancel_requested" /\ ~cancelAcked /\ session[g] # 0
    /\ asked' = asked \union {cancelRevision}
    /\ UNCHANGED <<jobVars, cancelVars, attemptVars, sweepVars, sessionVars,
                   deliveryVars, held, work, outcome, acks>>

CancelAnswers ==
    CASE work = "none" -> {"not_started"}
      [] work = "started" -> {"interrupted", "not_interruptible"}
      [] work = "done" -> {"already_done"}

HostAnswersCancel(r, answer) ==
    /\ r \in asked /\ answer \in CancelAnswers
    /\ acks' = acks \union {<<r, answer>>}
    /\ IF answer \in {"not_started", "interrupted"}
       THEN work' = "done" /\ outcome' = "canceled"
       ELSE UNCHANGED <<work, outcome>>
    /\ UNCHANGED <<jobVars, cancelVars, attemptVars, sweepVars, sessionVars,
                   deliveryVars, held, asked>>

----------------------------------------------------------------------------
(* The messages of the host, handled by a gateway that still has a stream   *)
(* with it - superseded or not.                                             *)

AcceptAttempt(g, a) ==
    /\ session[g] # 0 /\ a \in held /\ work # "done" /\ a \notin locked
    /\ a \in Open /\ state \in {"leased", "dispatched", "running"}
    /\ attempt' = [attempt EXCEPT ![a] = "open"]
    /\ UNCHANGED <<jobVars, cancelVars, answers, sweepVars, sessionVars,
                   deliveryVars, hostVars>>

RenewAttemptLease(g, a) ==
    /\ session[g] # 0 /\ a \in held /\ work # "done" /\ a \notin locked
    /\ a \in Open /\ HoldsLease(state)
    /\ attempt' = [attempt EXCEPT ![a] = "open"]
    /\ UNCHANGED <<jobVars, cancelVars, answers, sweepVars, sessionVars,
                   deliveryVars, hostVars>>

StartUndoesCancel(g, a) ==
    /\ session[g] # 0 /\ a \in held /\ work # "none" /\ a \notin locked
    /\ a \in Open /\ state \in {"leased", "dispatched", "cancel_requested"}
    /\ state' = "running"
    /\ UNCHANGED <<result, approvals, overdue, granted, cancelVars, attemptVars,
                   sweepVars, sessionVars, deliveryVars, hostVars>>

MarkRunning(g, a) ==
    /\ session[g] # 0 /\ a \in held /\ work # "none" /\ a \notin locked
    /\ a \in Open /\ state \in {"leased", "dispatched"}
    /\ state' = "running"
    /\ UNCHANGED <<result, approvals, overdue, granted, cancelVars, attemptVars,
                   sweepVars, sessionVars, deliveryVars, hostVars>>

(* The stream of g is over: its row is closed and its ownership, if it      *)
(* still is the owner, given up.                                            *)
EndSession(g) ==
    /\ session' = [session EXCEPT ![g] = 0]
    /\ rows' = rows \ {session[g]}
    /\ owned' = (owned /\ token # session[g])

Answer(a, says) == answers' = [answers EXCEPT ![a] = @ \union {says}]

(* A copy for an attempt that another one superseded.  The status is read   *)
(* before the transaction, so the answer may also be the one of a settled   *)
(* job.                                                                     *)
ResultOfSuperseded(g, a) ==
    /\ session[g] # 0 /\ a \in held /\ work = "done" /\ a \notin locked
    /\ ~Recorded(attempt[a])
    /\ \E says \in {"duplicate", "rejected_stale"} : Answer(a, says)
    /\ UNCHANGED <<jobVars, cancelVars, attempt, sweepVars, sessionVars,
                   deliveryVars, hostVars>>

(* RecordResult of a result that settles nothing.                           *)
ResultRefused(g, a) ==
    LET fate == FateOfResult(state, outcome, Supersedes(attempt[a])) IN
    /\ session[g] # 0 /\ a \in held /\ work = "done" /\ a \notin locked
    /\ Recorded(attempt[a]) /\ fate # "settles"
    /\ attempt' = IF a \in Open /\ ClosesTheAttempt(fate)
                  THEN [attempt EXCEPT ![a] = "result"] ELSE attempt
    /\ Answer(a, "rejected_stale")
    /\ UNCHANGED <<jobVars, cancelVars, sweepVars, sessionVars,
                   deliveryVars, hostVars>>

(* RecordResult of a result that settles the job, by the owner of the host; *)
(* it waits for every attempt it writes.                                    *)
ResultSettles(g, a) ==
    LET others == IF Supersedes(attempt[a]) THEN Open \ {a} ELSE {} IN
    /\ session[g] # 0 /\ a \in held /\ work = "done"
    /\ ({a} \union others) \intersect locked = {}
    /\ Recorded(attempt[a])
    /\ FateOfResult(state, outcome, Supersedes(attempt[a])) = "settles"
    /\ FenceHolds(session[g])
    /\ attempt' = [b \in Attempts |->
                     IF b = a THEN "result"
                     ELSE IF b \in others THEN "superseded_by_result" ELSE attempt[b]]
    /\ state' = outcome /\ result' = outcome /\ granted' = FALSE
    /\ Answer(a, "settled")
    /\ UNCHANGED <<approvals, overdue, cancelVars, sweepVars, sessionVars,
                   deliveryVars, hostVars>>

(* The same from a session that lost the host: no answer, and the session   *)
(* is over.                                                                 *)
ResultFenced(g, a) ==
    /\ session[g] # 0 /\ a \in held /\ work = "done" /\ a \notin locked
    /\ Recorded(attempt[a])
    /\ FateOfResult(state, outcome, Supersedes(attempt[a])) = "settles"
    /\ ~FenceHolds(session[g])
    /\ EndSession(g)
    /\ UNCHANGED <<jobVars, cancelVars, attemptVars, sweepVars, token,
                   deliveryVars, hostVars>>

(* The answer names the request the panel waits on. *)
Outstanding(r) == r = cancelRevision

AnyAnswerStops(answer) == answer # "already_done"

(* The host holds nothing it will finish. *)
AnswerStops(answer) == answer \in {"not_started", "interrupted"}

RecordCancelAck(g, r, answer) ==
    LET waits == state = "cancel_requested"
        stops == waits /\ AnswerStops(answer)
        goesOn == waits /\ answer = "not_interruptible" /\ ~stops
    IN
    /\ session[g] # 0 /\ <<r, answer>> \in acks /\ Outstanding(r)
    /\ FenceHolds(session[g])
    /\ cancelAcked' = TRUE
    /\ state' = IF stops THEN "canceled" ELSE IF goesOn THEN "running" ELSE state
    /\ result' = IF stops THEN "canceled" ELSE result
    /\ granted' = (granted /\ ~stops)
    /\ UNCHANGED <<approvals, overdue, cancelRevision, cancelOverdue, attemptVars,
                   sweepVars, sessionVars, deliveryVars, hostVars>>

CancelAckFenced(g) ==
    /\ session[g] # 0 /\ acks # {} /\ ~FenceHolds(session[g])
    /\ EndSession(g)
    /\ UNCHANGED <<jobVars, cancelVars, attemptVars, sweepVars, token,
                   deliveryVars, hostVars>>

----------------------------------------------------------------------------
(* ReclaimExpiredLeases.                                                    *)

LeaseRunsOut(a) ==
    /\ attempt[a] = "open" /\ a \notin locked
    /\ attempt' = [attempt EXCEPT ![a] = "lapsed"]
    /\ UNCHANGED <<jobVars, cancelVars, answers, sweepVars, sessionVars,
                   deliveryVars, hostVars>>

ReclaimReadsAny ==
    LET expired == {a \in Attempts : attempt[a] = "lapsed"} IN
    /\ snapshot = "none" /\ expired # {}
    /\ locked' = expired /\ snapshot' = state
    /\ UNCHANGED <<jobVars, cancelVars, attemptVars, sessionVars, deliveryVars,
                   hostVars>>

(* expired: the attempts are locked, the job is read as the statement's      *)
(* snapshot shows it.                                                       *)
ReclaimReads ==
    LET expired == {a \in Attempts : attempt[a] = "lapsed"} IN
    /\ snapshot = "none" /\ HoldsLease(state) /\ expired # {}
    /\ locked' = expired /\ snapshot' = state
    /\ UNCHANGED <<jobVars, cancelVars, attemptVars, sessionVars, deliveryVars,
                   hostVars>>

RebootSentAgain(read, now) ==
    CASE read = "cancel_requested" /\ now = "cancel_requested" -> "failed"
      [] read # "cancel_requested" /\ now # "cancel_requested" -> "queued"
      [] OTHER -> now

(* What the statement makes of a job it read in one state and finds in      *)
(* another: settled asks for nothing but the kind of operation, stopped for *)
(* cancel_requested then and now, requeued for neither then nor now.        *)
ReclaimedState(read, now) ==
    CASE Reboot -> "failed"
      [] ~Reboot /\ read = "cancel_requested" /\ now = "cancel_requested" -> "failed"
      [] ~Reboot /\ read # "cancel_requested" /\ now # "cancel_requested" -> "queued"
      [] OTHER -> now

ReclaimJob(read) ==
    LET moved == \/ Reboot
                 \/ (read = "cancel_requested") = (state = "cancel_requested")
    IN /\ state' = ReclaimedState(read, state)
       /\ result' = IF Reboot THEN "failed"
                    ELSE IF moved /\ read = "cancel_requested" THEN "unknown" ELSE result
       /\ granted' = (granted /\ ~moved)

ReclaimWrites ==
    /\ snapshot # "none"
    /\ attempt' = [a \in Attempts |-> IF a \in locked THEN "lease_expired" ELSE attempt[a]]
    /\ ReclaimJob(snapshot)
    /\ locked' = {} /\ snapshot' = "none"
    /\ UNCHANGED <<approvals, overdue, cancelVars, answers, sessionVars,
                   deliveryVars, hostVars>>

(* The process dies, or the database breaks a deadlock at its expense.      *)
ReclaimAborts ==
    /\ snapshot # "none" /\ locked' = {} /\ snapshot' = "none"
    /\ UNCHANGED <<jobVars, cancelVars, attemptVars, sessionVars, deliveryVars,
                   hostVars>>

StrandedForgotten == FALSE

(* stranded: no open attempt; the row of the job is locked. *)
ReclaimStranded ==
    /\ HoldsLease(state) /\ Open = {}
    /\ ReclaimJob(state)
    /\ UNCHANGED <<approvals, overdue, cancelVars, attemptVars, sweepVars,
                   sessionVars, deliveryVars, hostVars>>

----------------------------------------------------------------------------
(* The sessions of the host (SessionOwnership has their detail).            *)

(* openSession: the host is claimed whatever the previous session does; its *)
(* row is closed, its stream may go on for a while.                         *)
Connect(g) ==
    /\ token < MaxSessions
    /\ token' = token + 1 /\ owned' = TRUE /\ rows' = {token + 1}
    /\ session' = [session EXCEPT ![g] = token + 1]
    /\ UNCHANGED <<jobVars, cancelVars, attemptVars, sweepVars, deliveryVars, hostVars>>

Disconnect(g) ==
    /\ session[g] # 0 /\ EndSession(g)
    /\ UNCHANGED <<jobVars, cancelVars, attemptVars, sweepVars, token,
                   deliveryVars, hostVars>>

OwnerLeaseRunsOut ==
    /\ owned /\ owned' = FALSE
    /\ UNCHANGED <<jobVars, cancelVars, attemptVars, sweepVars, session, rows, token,
                   deliveryVars, hostVars>>

RenewOwnership(g) ==
    /\ session[g] # 0 /\ session[g] = token /\ owned' = TRUE
    /\ UNCHANGED <<jobVars, cancelVars, attemptVars, sweepVars, session, rows, token,
                   deliveryVars, hostVars>>

(* The process of the gateway dies: its rows stay as they are. *)
Crash(g) ==
    /\ session[g] # 0 \/ step[g] # "idle"
    /\ session' = [session EXCEPT ![g] = 0] /\ Idle(g)
    /\ UNCHANGED <<jobVars, cancelVars, attemptVars, sweepVars, rows, token, owned,
                   hostVars>>

Settled == Terminal(state) /\ UNCHANGED vars

Scheduler(g) ==
    \/ List(g) \/ Admit(g) \/ LeaseJobs(g) \/ Untaken(g) \/ Clear(g)
    \/ ReleaseLease(g) \/ FailUndelivered(g) \/ Send(g)
    \/ MarkDispatched(g) \/ DispatchRefused(g) \/ RecordHandover(g) \/ NotRecorded(g)

Messages(g, a) ==
    \/ AcceptAttempt(g, a) \/ RenewAttemptLease(g, a) \/ MarkRunning(g, a)
    \/ ResultOfSuperseded(g, a) \/ ResultRefused(g, a) \/ ResultSettles(g, a)
    \/ ResultFenced(g, a)

Cancels ==
    \/ CancelHere \/ RequestCancel \/ CancelDeadlinePasses \/ SettleCancelTimeouts
    \/ \E r \in Revisions, answer \in CancelOutcomes : HostAnswersCancel(r, answer)
    \/ \E g \in Gateways : SendCancel(g) \/ CancelAckFenced(g)
    \/ \E g \in Gateways, r \in Revisions, answer \in CancelOutcomes :
          RecordCancelAck(g, r, answer)

Sweeps ==
    \/ TTLPasses \/ ExpireOverdue \/ GrantRunsOut
    \/ \E a \in Attempts : LeaseRunsOut(a)
    \/ ReclaimReads \/ ReclaimWrites \/ ReclaimAborts \/ ReclaimStranded

Sessions(g) == Connect(g) \/ Disconnect(g) \/ RenewOwnership(g) \/ Crash(g)

Next ==
    \/ \E p \in Approvers : Approve(p)
    \/ \E g \in Gateways : Scheduler(g) \/ Sessions(g)
    \/ \E g \in Gateways, a \in Attempts : Messages(g, a)
    \/ OwnerLeaseRunsOut \/ HostStarts \/ HostFinishes
    \/ Cancels \/ Sweeps \/ Settled

Spec == Init /\ [][Next]_vars

(* Every gateway runs the sweeps on a timer, time passes, and an operation  *)
(* on a host ends: its timeout bounds it.                                   *)
FairSpec ==
    /\ Spec
    /\ WF_vars(TTLPasses) /\ WF_vars(ExpireOverdue)
    /\ \A a \in Attempts : WF_vars(LeaseRunsOut(a))
    /\ WF_vars(ReclaimReads) /\ SF_vars(ReclaimWrites) /\ WF_vars(ReclaimStranded)
    /\ WF_vars(CancelDeadlinePasses) /\ WF_vars(SettleCancelTimeouts)
    /\ WF_vars(HostFinishes)

----------------------------------------------------------------------------
(* Correctness. *)

(* A job that waits for its delivery or for the word that it started is     *)
(* carried by an open attempt, whose lease brings it back if nothing else   *)
(* does: no release, refusal or sweep closes the last attempt and leaves    *)
(* the job where it is (ReleaseLease, FailUndelivered, RecordResult).       *)
CarriedByAnOpenAttempt == state \in {"leased", "dispatched"} => Open # {}

(* What a step may do to a settled job: nothing, the second half of a       *)
(* reclaim that read the job before it was settled excepted.                *)
KeepsSettlement == Terminal(state) => state' = state \/ (snapshot # "none" /\ snapshot' = "none")

(* No late result, release, hand-over, cancel or sweep undoes a settlement  *)
(* (RecordResult: "A final state is final").                                *)
SettledStaysSettled == [][KeepsSettlement]_vars

FreesCapacity ==
    state' # state /\ (Terminal(state') \/ state' = "queued") => ~granted'

(* The transaction that settles a job or puts it back in the queue also     *)
(* gives back its budget tokens, whoever ends it: the host, the operator,   *)
(* the scheduler or a sweep.                                                *)
CapacityGoesBackWithTheJob == [][FreesCapacity]_vars

(* The host gets a job that needs approval only after as many persons as it *)
(* needs approved it (Approve).                                             *)
ApprovedBeforeDelivery == held # {} => Cardinality(approvals) >= RequiredApprovals

DropsOnlyItsRequest ==
    state = "cancel_requested" /\ state' = "running"
        => <<cancelRevision, "not_interruptible">> \in acks

(* A job asked to stop goes back to running only because the host said so   *)
(* about this very request: an answer to an earlier one, delivered late or  *)
(* twice, changes nothing (RecordCancelAck).                                *)
CancelDroppedOnlyByItsAnswer == [][DropsOnlyItsRequest]_vars

(* A job recorded as canceled by its host is one its host will not finish:  *)
(* the operation ended there as canceled (RecordCancelAck).                 *)
CanceledByTheHostIsStopped == result = "canceled" => outcome = "canceled"

(* A restart reaches the host once: one that was not seen to happen fails   *)
(* instead of going back to the queue (reclaimExpiredLeasesQuery, settled). *)
RebootSentOnce == Reboot => \A a, b \in held : a = b

(* Every job is settled in the end, and for good: whatever is lost, a sweep *)
(* takes the job back and its TTL ends it (ReclaimExpiredLeases,            *)
(* ExpireOverdue, SettleCancelTimeouts).                                    *)
EventuallySettled == <>[]Terminal(state)

(* "A final state is final" (RecordResult), taken at its word.              *)
FinalIsFinal == [][Terminal(state) => state' = state]_vars
=============================================================================
