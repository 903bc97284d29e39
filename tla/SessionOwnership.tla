-------------------------- MODULE SessionOwnership --------------------------
(***************************************************************************)
(* The sessions of one host and who owns it (internal/gateway: Connect,    *)
(* openSession, closeSession, the registry, the watch on epochs, the       *)
(* reaper; internal/jobs: the row of host_session_owners).                 *)
(*                                                                         *)
(* A gateway opens a session in statements of their own: the row with its  *)
(* epoch, the claim with its token, the closing of older rows, the word to *)
(* the other gateways, the registry.  Several sessions of the host may be  *)
(* anywhere in between, on one gateway or on several: each statement is a  *)
(* step.  The clock of the lease is the clock of the database: whether     *)
(* lease_until lies in the future is a flag.                               *)
(***************************************************************************)
EXTENDS Integers

CONSTANTS
    Gateways,       \* the replicas of the panel that serve agents
    MaxSessions     \* bound: how often the host opens a stream

ASSUME BoundsAssumption == MaxSessions \in Nat

VARIABLES
    \* each session: where it is, on which gateway, the numbers it was given and
    \* whether the panel ended it
    stage, on, epoch, fence, ending,
    \* its row of agent_sessions
    row,
    \* the row of host_session_owners: the session (0: none), the token, the lease
    owner, token, live,
    \* per gateway: the session it lists, and the one its reaper read (Idle: it
    \* does not run)
    registry, reap,
    \* the epochs announced to a gateway that it has not heard yet
    notices,
    \* hosts.connection_state
    online

sessionVars == <<stage, on, epoch, fence, ending>>
ownerVars == <<owner, token, live>>
gatewayVars == <<registry, reap, notices>>
vars == <<sessionVars, row, ownerVars, gatewayVars, online>>

Sessions == 1..MaxSessions
Nobody == 0
Idle == -1
Stages == {"new", "hello", "inserted", "claimed", "swept", "announced", "open",
           "left", "closed", "released", "offline", "gone"}

TypeOK ==
    /\ stage \in [Sessions -> Stages] /\ on \in [Sessions -> Gateways]
    /\ epoch \in [Sessions -> 0..MaxSessions] /\ fence \in [Sessions -> 0..MaxSessions]
    /\ ending \subseteq Sessions
    /\ row \in [Sessions -> {"none", "open", "ended"}]
    /\ owner \in Sessions \union {Nobody} /\ token \in 0..MaxSessions
    /\ live \in BOOLEAN
    /\ registry \in [Gateways -> Sessions \union {Nobody}]
    /\ reap \in [Gateways -> Sessions \union {Nobody, Idle}]
    /\ notices \subseteq Gateways \X (1..MaxSessions)
    /\ online \in BOOLEAN

Init ==
    /\ stage = [s \in Sessions |-> "new"] /\ on \in [Sessions -> Gateways]
    /\ epoch = [s \in Sessions |-> 0] /\ fence = [s \in Sessions |-> 0]
    /\ ending = {}
    /\ row = [s \in Sessions |-> "none"]
    /\ owner = Nobody /\ token = 0 /\ live = FALSE
    /\ registry = [g \in Gateways |-> Nobody] /\ reap = [g \in Gateways |-> Idle]
    /\ notices = {}
    /\ online = FALSE

Move(s, from, to) == stage[s] = from /\ stage' = [stage EXCEPT ![s] = to]

----------------------------------------------------------------------------
(* A session opens. *)

(* ApplyHello. *)
Hello(s) ==
    /\ \A t \in 1..(s - 1) : stage[t] # "new"
    /\ Move(s, "new", "hello") /\ online' = TRUE
    /\ UNCHANGED <<on, epoch, fence, ending, row, ownerVars, gatewayVars>>

Epochs == {epoch[s] : s \in Sessions}

(* The epoch and the row in one statement, tried again when another gateway *)
(* took the epoch first.                                                    *)
InsertRow(s) ==
    /\ Move(s, "hello", "inserted")
    /\ epoch' = [epoch EXCEPT ![s] = 1 + (CHOOSE e \in Epochs : \A f \in Epochs : f <= e)]
    /\ row' = [row EXCEPT ![s] = "open"]
    /\ UNCHANGED <<on, fence, ending, ownerVars, gatewayVars, online>>

ClaimSession(s) ==
    /\ Move(s, "inserted", "claimed")
    /\ owner' = s /\ token' = token + 1 /\ live' = TRUE
    /\ fence' = [fence EXCEPT ![s] = token + 1]
    /\ UNCHANGED <<on, epoch, ending, row, gatewayVars, online>>

(* The insert or the claim failed: the stream ends, what was written stays. *)
OpenFails(s) ==
    /\ stage[s] \in {"hello", "inserted"}
    /\ stage' = [stage EXCEPT ![s] = "gone"]
    /\ UNCHANGED <<on, epoch, fence, ending, row, ownerVars, gatewayVars, online>>

ClosesEveryOther(s, t) == epoch[t] # epoch[s]

(* Which rows of the host the session takes for superseded. *)
Older(s, t) == epoch[t] < epoch[s]

(* A statement that fails here and below is logged, and the session goes on. *)
CloseOlder(s) ==
    /\ Move(s, "claimed", "swept")
    /\ \/ row' = [t \in Sessions |-> IF Older(s, t) /\ row[t] = "open"
                                     THEN "ended" ELSE row[t]]
       \/ UNCHANGED row
    /\ UNCHANGED <<on, epoch, fence, ending, ownerVars, gatewayVars, online>>

(* The older session this gateway lists is ended; the others are told.      *)
Announce(s) ==
    LET previous == registry[on[s]] IN
    /\ Move(s, "swept", "announced")
    /\ ending' = IF previous # Nobody /\ epoch[previous] < epoch[s]
                 THEN ending \union {previous} ELSE ending
    /\ notices' = notices \union ((Gateways \ {on[s]}) \X {epoch[s]})
    /\ UNCHANGED <<on, epoch, fence, row, ownerVars, registry, reap, online>>

Register(s) ==
    /\ Move(s, "announced", "open")
    /\ registry' = [registry EXCEPT ![on[s]] = s]
    /\ UNCHANGED <<on, epoch, fence, ending, row, ownerVars, reap, notices, online>>

----------------------------------------------------------------------------
(* A session lives. *)

WatchEpochs(g, e) ==
    LET listed == registry[g] IN
    /\ <<g, e>> \in notices /\ notices' = notices \ {<<g, e>>}
    /\ ending' = IF listed # Nobody /\ epoch[listed] < e
                 THEN ending \union {listed} ELSE ending
    /\ UNCHANGED <<stage, on, epoch, fence, row, ownerVars, registry, reap, online>>

(* Nobody listened when the word came, or it was not sent. *)
NoticeIsLost(g, e) ==
    /\ <<g, e>> \in notices /\ notices' = notices \ {<<g, e>>}
    /\ UNCHANGED <<sessionVars, row, ownerVars, registry, reap, online>>

(* The row still names this claim. *)
Owns(s) == owner = s /\ token = fence[s]

RetakesTheFree(s) == owner \in {s, Nobody} /\ token = fence[s]
RenewsTheHost(s) == owner # Nobody

(* The row a renewal finds. *)
Renewable(s) == Owns(s)

RenewsWithANewToken(s) ==
    /\ stage[s] = "open" /\ s \notin ending /\ Renewable(s)
    /\ live' = TRUE /\ token' = token + 1
    /\ fence' = [fence EXCEPT ![s] = token + 1]
    /\ UNCHANGED <<stage, on, epoch, ending, row, owner, gatewayVars, online>>

(* keepOwnership: a session the row no longer names ends itself.            *)
RenewOwnership(s) ==
    /\ stage[s] = "open" /\ s \notin ending
    /\ IF Renewable(s)
       THEN /\ owner' = s /\ live' = TRUE
            /\ UNCHANGED <<ending, token>>
       ELSE /\ ending' = ending \union {s}
            /\ UNCHANGED ownerVars
    /\ UNCHANGED <<stage, on, epoch, fence, row, gatewayVars, online>>

Heartbeat(s) ==
    /\ stage[s] = "open" /\ online' = TRUE
    /\ UNCHANGED <<sessionVars, row, ownerVars, gatewayVars>>

LeaseRunsOut ==
    /\ live /\ live' = FALSE
    /\ UNCHANGED <<sessionVars, row, owner, token, gatewayVars, online>>

SweepExpiredOwners ==
    /\ owner # Nobody /\ ~live /\ owner' = Nobody
    /\ UNCHANGED <<sessionVars, row, token, live, gatewayVars, online>>

----------------------------------------------------------------------------
(* A session ends: the panel ended it, or the stream broke.                 *)

Leave(s) ==
    /\ Move(s, "open", "left")
    /\ registry' = [registry EXCEPT ![on[s]] = IF @ = s THEN Nobody ELSE @]
    /\ UNCHANGED <<on, epoch, fence, ending, row, ownerVars, reap, notices, online>>

CloseRow(s) ==
    /\ Move(s, "left", "closed")
    /\ row' \in {row, [row EXCEPT ![s] = "ended"]}
    /\ UNCHANGED <<on, epoch, fence, ending, ownerVars, gatewayVars, online>>

ReleasesTheHost(s) ==
    /\ Move(s, "closed", "released")
    /\ owner' = Nobody /\ live' = FALSE
    /\ UNCHANGED <<on, epoch, fence, ending, row, token, gatewayVars, online>>

ReleaseOwnership(s) ==
    /\ Move(s, "closed", "released")
    /\ \/ Owns(s) /\ owner' = Nobody /\ live' = FALSE
       \/ UNCHANGED <<owner, live>>
    /\ UNCHANGED <<on, epoch, fence, ending, row, token, gatewayVars, online>>

NewerSessionOpen(s) == \E t \in Sessions : epoch[t] > epoch[s] /\ row[t] = "open"

(* Is this the last session the host had? *)
AskNewer(s) ==
    /\ Move(s, "released", IF registry[on[s]] = Nobody /\ ~NewerSessionOpen(s)
                           THEN "offline" ELSE "gone")
    /\ UNCHANGED <<on, epoch, fence, ending, row, ownerVars, gatewayVars, online>>

MarkDisconnected(s) ==
    /\ Move(s, "offline", "gone") /\ online' = FALSE
    /\ UNCHANGED <<on, epoch, fence, ending, row, ownerVars, gatewayVars>>

(* CloseOrphanSessions: the registry is read, then the statement runs.      *)
ReapReads(g) ==
    /\ reap[g] = Idle /\ reap' = [reap EXCEPT ![g] = registry[g]]
    /\ UNCHANGED <<sessionVars, row, ownerVars, registry, notices, online>>

ReapsAfterTheFirst(g, s) == on[s] = g /\ row[s] = "open" /\ reap[g] \notin {s, Nobody}

Orphan(g, s) == on[s] = g /\ row[s] = "open" /\ s # reap[g]

ReapCloses(g) ==
    /\ reap[g] # Idle /\ reap' = [reap EXCEPT ![g] = Idle]
    /\ row' = [s \in Sessions |-> IF Orphan(g, s) THEN "ended" ELSE row[s]]
    /\ UNCHANGED <<sessionVars, ownerVars, registry, notices, online>>

(* The process dies and starts again under the same name: no session of it  *)
(* is left, its rows stay.                                                  *)
Crash(g) ==
    /\ \E s \in Sessions : on[s] = g /\ stage[s] \notin {"new", "gone"}
    /\ stage' = [s \in Sessions |-> IF on[s] = g /\ stage[s] # "new"
                                    THEN "gone" ELSE stage[s]]
    /\ registry' = [registry EXCEPT ![g] = Nobody]
    /\ reap' = [reap EXCEPT ![g] = Idle]
    /\ notices' = {n \in notices : n[1] # g}
    /\ UNCHANGED <<on, epoch, fence, ending, row, ownerVars, online>>

Opens(s) ==
    \/ Hello(s) \/ InsertRow(s) \/ ClaimSession(s) \/ OpenFails(s)
    \/ CloseOlder(s) \/ Announce(s) \/ Register(s)

Closes(s) ==
    \/ Leave(s) \/ CloseRow(s) \/ ReleaseOwnership(s) \/ AskNewer(s)
    \/ MarkDisconnected(s)

Gateway(g) ==
    \/ ReapReads(g) \/ ReapCloses(g) \/ Crash(g)
    \/ \E e \in 1..MaxSessions : WatchEpochs(g, e) \/ NoticeIsLost(g, e)

Next ==
    \/ \E s \in Sessions : Opens(s) \/ Closes(s) \/ RenewOwnership(s) \/ Heartbeat(s)
    \/ \E g \in Gateways : Gateway(g)
    \/ LeaseRunsOut \/ SweepExpiredOwners

Spec == Init /\ [][Next]_vars

(* The renewals and the reapers run on timers, and a session that was ended *)
(* leaves.                                                                  *)
FairSpec ==
    /\ Spec
    /\ \A s \in Sessions :
          WF_vars(RenewOwnership(s)) /\ WF_vars(s \in ending /\ Leave(s))
    /\ \A g \in Gateways : WF_vars(ReapReads(g) \/ ReapCloses(g))

----------------------------------------------------------------------------
(* fenceHolds: what this session writes under its token still counts.       *)
FenceHolds(s) == Owns(s) /\ live

(* However the steps of the sessions, the sweep and the gateways interleave,*)
(* the row behaves as HostOwner says: every claim takes the next token and  *)
(* nothing but a claim makes a row that was given up count again            *)
(* (ClaimSession, RenewOwnership, ReleaseOwnership, SweepExpiredOwners).    *)
Row == INSTANCE HostOwner WITH held <- owner # Nobody
ImplementsHostOwner == Row!Spec

(* Losing the host is for good: a session whose fence stopped holding gets  *)
(* it back only while the row still names it (RenewOwnership after a pause);*)
(* once another session claimed the host, or the row was swept or released, *)
(* no renewal and no late step of it makes its writes count again.          *)
RegainsNothing ==
    \A s \in Sessions : ~FenceHolds(s) /\ FenceHolds(s)' => Owns(s) \/ stage[s] = "inserted"
LostForGood == [][RegainsNothing]_vars

(* A live claim is given up by its own session and by nobody else: the late *)
(* closeSession of a superseded session, which may run long after the newer *)
(* one claimed the host, frees nothing, and neither does the sweep.         *)
GivenUpByItself ==
    owner # Nobody /\ live /\ owner' = Nobody
        => stage[owner] = "closed" /\ stage'[owner] = "released"
SupersededReleasesNothing == [][GivenUpByItself]_vars

(* However two openings interleave, the row of a session is ended by itself,*)
(* by the reaper of its gateway, or because a newer epoch exists: of two    *)
(* sessions that open at the same time the newest is never closed by the    *)
(* other one (openSession closes rows of a lower epoch only).               *)
EndedForAReason ==
    \A s \in Sessions : row[s] = "open" /\ row'[s] = "ended" =>
        \/ stage'[s] # stage[s]
        \/ reap[on[s]] # Idle /\ reap'[on[s]] = Idle
        \/ \E t \in Sessions : epoch[t] > epoch[s]
NewestRowStands == [][EndedForAReason]_vars

(* A session that another one superseded does not stay: even when the word  *)
(* to its gateway is lost (announceEpoch, watchEpochs), keepOwnership finds *)
(* the newer token and ends it.                                             *)
SupersededEnds ==
    \A s \in Sessions : stage[s] = "open" /\ ~Owns(s) ~> stage[s] # "open"

(* No row stays open for a session that is gone, whether its opening failed *)
(* half way, closeSession could not write, or the gateway died: the reaper  *)
(* of its gateway finds it.                                                 *)
OrphanRowsAreClosed ==
    \A s \in Sessions : row[s] = "open" /\ stage[s] = "gone" ~> row[s] = "ended"
=============================================================================
