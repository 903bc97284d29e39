------------------------------ MODULE JobStates ------------------------------
(***************************************************************************)
(* The states of a job and the moves between them (internal/jobs/state.go),*)
(* and what the result of an attempt does to its job.                      *)
(***************************************************************************)

States == {"planned", "awaiting_approval", "queued", "leased", "dispatched",
           "running", "cancel_requested",
           "succeeded", "failed", "timed_out", "canceled", "expired"}

TerminalStates == {"succeeded", "failed", "timed_out", "canceled", "expired"}
Terminal(s) == s \in TerminalStates

(* A job in one of these is carried by an attempt that holds a lease.      *)
LeaseHoldingStates == {"leased", "dispatched", "running", "cancel_requested"}
HoldsLease(s) == s \in LeaseHoldingStates

transitions ==
    [planned           |-> {"awaiting_approval", "queued", "canceled", "expired"},
     awaiting_approval |-> {"queued", "canceled", "expired"},
     queued            |-> {"leased", "canceled", "expired"},
     leased            |-> {"dispatched", "queued", "canceled", "expired", "failed"},
     dispatched        |-> {"running", "succeeded", "failed", "timed_out", "canceled",
                            "expired", "queued", "cancel_requested"},
     running           |-> {"succeeded", "failed", "timed_out", "canceled", "queued",
                            "cancel_requested"},
     cancel_requested  |-> {"canceled", "running", "succeeded", "failed", "timed_out"}]

CanTransition(s, to) == s \in DOMAIN transitions /\ to \in transitions[s]

Validates(s, to) == s = to \/ CanTransition(s, to)

(* An open attempt has a lease, which may have run out ("lapsed"); a closed  *)
(* one names how it was closed: "result" stands for whatever status the     *)
(* host reported.  "none" is an attempt that was not made yet.              *)
AttemptStatus == {"none", "open", "lapsed", "released", "lease_expired",
                  "superseded_by_result", "failed", "result"}

(* lateResultDisposition: is the result recorded, and does it close the     *)
(* other attempts of the job?                                               *)
Recorded(status) == status # "superseded_by_result"
Supersedes(status) == status = "lease_expired"

(* The host gave up nothing when the panel gave up on its attempt, so a     *)
(* result after the expiry of the lease settles the job in any open state.  *)
FateOfResult(current, asked, afterLeaseExpiry) ==
    CASE Terminal(current) -> "afterSettlement"
      [] ~Terminal(current) /\ afterLeaseExpiry -> "settles"
      [] ~Terminal(current) /\ ~afterLeaseExpiry /\ Validates(current, asked) -> "settles"
      [] OTHER -> "unapplicable"

ClosesAnyRefused(fate) == fate # "settles"

ClosesTheAttempt(fate) == fate = "afterSettlement"
=============================================================================
