------------------------------ MODULE HostOwner ------------------------------
(***************************************************************************)
(* What the row of host_session_owners promises to those who write under   *)
(* its token (internal/jobs/ownership.go): every claim takes the next      *)
(* token, only the newest claim can be renewed, and a claim that was given *)
(* up or swept does not come back.                                         *)
(***************************************************************************)
EXTENDS Naturals

VARIABLES
    token,      \* fencing_token: the newest claim
    held,       \* the row names the session of that claim
    live        \* its lease_until lies in the future

ownerRow == <<token, held, live>>

Init == token = 0 /\ held = FALSE /\ live = FALSE

ClaimSession == token' = token + 1 /\ held' = TRUE /\ live' = TRUE

RenewOwnership == held /\ live' = TRUE /\ UNCHANGED <<token, held>>

LeaseRunsOut == live' = FALSE /\ UNCHANGED <<token, held>>

(* By the session of the claim, or by the sweep of expired leases. *)
GivenUp == held' = FALSE /\ live' = FALSE /\ UNCHANGED token

Next == ClaimSession \/ RenewOwnership \/ LeaseRunsOut \/ GivenUp

Spec == Init /\ [][Next]_ownerRow
=============================================================================
