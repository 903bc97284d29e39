-------------------------- MODULE SessionsProofs --------------------------
(***************************************************************************)
(* What SessionOwnership promises for any number of gateways and sessions. *)
(***************************************************************************)
EXTENDS SessionOwnership, FiniteSetTheorems, NaturalsInduction,
        WellFoundedInduction, TLAPS

USE DEF sessionVars, ownerVars, gatewayVars, Move, Nobody, Idle

StagesOK == stage \in [Sessions -> Stages]

LEMMA StagesInductive ==
  ASSUME StagesOK, [Next]_vars
  PROVE  StagesOK'
<1> DEFINE Goal == StagesOK'
<1> USE DEF StagesOK, Stages
<1>1. ASSUME NEW s \in Sessions, Hello(s) PROVE Goal
  BY <1>1, Zenon DEF Hello
<1>2. ASSUME NEW s \in Sessions, InsertRow(s) PROVE Goal
  BY <1>2, Zenon DEF InsertRow
<1>3. ASSUME NEW s \in Sessions, ClaimSession(s) PROVE Goal
  BY <1>3, Zenon DEF ClaimSession
<1>4. ASSUME NEW s \in Sessions, OpenFails(s) PROVE Goal
  BY <1>4, Zenon DEF OpenFails
<1>5. ASSUME NEW s \in Sessions, CloseOlder(s) PROVE Goal
  BY <1>5, Zenon DEF CloseOlder
<1>6. ASSUME NEW s \in Sessions, Announce(s) PROVE Goal
  BY <1>6, Zenon DEF Announce
<1>7. ASSUME NEW s \in Sessions, Register(s) PROVE Goal
  BY <1>7, Zenon DEF Register
<1>8. ASSUME NEW s \in Sessions, Leave(s) PROVE Goal
  BY <1>8, Zenon DEF Leave
<1>9. ASSUME NEW s \in Sessions, CloseRow(s) PROVE Goal
  BY <1>9, Zenon DEF CloseRow
<1>10. ASSUME NEW s \in Sessions, ReleaseOwnership(s) PROVE Goal
  BY <1>10, Zenon DEF ReleaseOwnership
<1>11. ASSUME NEW s \in Sessions, AskNewer(s) PROVE Goal
  BY <1>11, Zenon DEF AskNewer
<1>12. ASSUME NEW s \in Sessions, MarkDisconnected(s) PROVE Goal
  BY <1>12, Zenon DEF MarkDisconnected
<1>13. ASSUME NEW s \in Sessions, RenewOwnership(s) PROVE Goal
  BY <1>13, Zenon DEF RenewOwnership
<1>14. ASSUME NEW s \in Sessions, Heartbeat(s) PROVE Goal
  BY <1>14, Zenon DEF Heartbeat
<1>15. ASSUME NEW g \in Gateways, ReapReads(g) PROVE Goal
  BY <1>15, Zenon DEF ReapReads
<1>16. ASSUME NEW g \in Gateways, ReapCloses(g) PROVE Goal
  BY <1>16, Zenon DEF ReapCloses
<1>17. ASSUME NEW g \in Gateways, Crash(g) PROVE Goal
  BY <1>17, Zenon DEF Crash
<1>18. ASSUME NEW g \in Gateways, NEW e \in 1..MaxSessions, WatchEpochs(g, e) PROVE Goal
  BY <1>18, Zenon DEF WatchEpochs
<1>19. ASSUME NEW g \in Gateways, NEW e \in 1..MaxSessions, NoticeIsLost(g, e) PROVE Goal
  BY <1>19, Zenon DEF NoticeIsLost
<1>20. ASSUME LeaseRunsOut PROVE Goal
  BY <1>20, Zenon DEF LeaseRunsOut
<1>21. ASSUME SweepExpiredOwners PROVE Goal
  BY <1>21, Zenon DEF SweepExpiredOwners
<1>22. ASSUME UNCHANGED vars PROVE Goal
  BY <1>22, Zenon DEF vars
<1> HIDE DEF Goal
<1>31. ASSUME NEW s \in Sessions, Opens(s) PROVE Goal
  BY <1>31, <1>1, <1>2, <1>3, <1>4, <1>5, <1>6, <1>7, Zenon DEF Opens
<1>32. ASSUME NEW s \in Sessions, Closes(s) PROVE Goal
  BY <1>32, <1>8, <1>9, <1>10, <1>11, <1>12, Zenon DEF Closes
<1>33. ASSUME NEW g \in Gateways, Gateway(g) PROVE Goal
  BY <1>33, <1>15, <1>16, <1>17, <1>18, <1>19, Zenon DEF Gateway
<1>40. Goal
  BY <1>13, <1>14, <1>20, <1>21, <1>22, <1>31, <1>32, <1>33, Zenon DEF Next
<1> QED
  BY <1>40, Zenon DEF Goal

LEMMA StagesInvariant == Spec => []StagesOK
<1>1. Init => StagesOK
  BY Zenon DEF Init, StagesOK, Stages
<1>2. StagesOK /\ [Next]_vars => StagesOK'
  BY StagesInductive, Zenon
<1> QED
  BY <1>1, <1>2, PTL DEF Spec

(* The row behaves as HostOwner says at every step (jobs.ClaimSession,      *)
(* RenewOwnership, ReleaseOwnership and SweepExpiredOwners): no interleaving*)
(* of sessions makes a claim that was given up count again.                 *)
LEMMA StepsOfTheRow ==
  ASSUME [Next]_vars
  PROVE  [Row!Next]_(Row!ownerRow)
<1> DEFINE Goal == [Row!Next]_(Row!ownerRow)
<1> USE DEF Row!Next, Row!ownerRow, Row!ClaimSession, Row!RenewOwnership,
            Row!LeaseRunsOut, Row!GivenUp
<1>1. ASSUME NEW s \in Sessions, Hello(s) PROVE Goal
  BY <1>1, Zenon DEF Hello
<1>2. ASSUME NEW s \in Sessions, InsertRow(s) PROVE Goal
  BY <1>2, Zenon DEF InsertRow
<1>3. ASSUME NEW s \in Sessions, ClaimSession(s) PROVE Goal
  <2>1. s # 0
    BY BoundsAssumption DEF Sessions
  <2>2. owner' = s /\ token' = token + 1
    BY <1>3, Zenon DEF ClaimSession
  <2>3. live' = TRUE
    BY <1>3, Zenon DEF ClaimSession
  <2>4. (owner' # 0) = TRUE
    BY <2>1, <2>2, Zenon
  <2> QED
    BY <2>2, <2>3, <2>4, Zenon
<1>4. ASSUME NEW s \in Sessions, OpenFails(s) PROVE Goal
  BY <1>4, Zenon DEF OpenFails
<1>5. ASSUME NEW s \in Sessions, CloseOlder(s) PROVE Goal
  BY <1>5, Zenon DEF CloseOlder
<1>6. ASSUME NEW s \in Sessions, Announce(s) PROVE Goal
  BY <1>6, Zenon DEF Announce
<1>7. ASSUME NEW s \in Sessions, Register(s) PROVE Goal
  BY <1>7, Zenon DEF Register
<1>8. ASSUME NEW s \in Sessions, Leave(s) PROVE Goal
  BY <1>8, Zenon DEF Leave
<1>9. ASSUME NEW s \in Sessions, CloseRow(s) PROVE Goal
  BY <1>9, Zenon DEF CloseRow
<1>10. ASSUME NEW s \in Sessions, ReleaseOwnership(s) PROVE Goal
  BY <1>10, Zenon DEF ReleaseOwnership, Owns
<1>11. ASSUME NEW s \in Sessions, AskNewer(s) PROVE Goal
  BY <1>11, Zenon DEF AskNewer
<1>12. ASSUME NEW s \in Sessions, MarkDisconnected(s) PROVE Goal
  BY <1>12, Zenon DEF MarkDisconnected
<1>13. ASSUME NEW s \in Sessions, RenewOwnership(s) PROVE Goal
  <2>1. s # 0
    BY BoundsAssumption DEF Sessions
  <2>2. CASE Renewable(s)
    <3>1. owner = s /\ owner' = s /\ token' = token
      BY <1>13, <2>2, Zenon DEF RenewOwnership, Renewable, Owns
    <3>2. live' = TRUE
      BY <1>13, <2>2, Zenon DEF RenewOwnership
    <3>3. (owner # 0) = TRUE /\ (owner' # 0) = (owner # 0)
      BY <2>1, <3>1, Zenon
    <3> QED
      BY <3>1, <3>2, <3>3, Zenon
  <2>3. CASE ~Renewable(s)
    BY <1>13, <2>3, Zenon DEF RenewOwnership
  <2> QED
    BY <2>2, <2>3, Zenon
<1>14. ASSUME NEW s \in Sessions, Heartbeat(s) PROVE Goal
  BY <1>14, Zenon DEF Heartbeat
<1>15. ASSUME NEW g \in Gateways, ReapReads(g) PROVE Goal
  BY <1>15, Zenon DEF ReapReads
<1>16. ASSUME NEW g \in Gateways, ReapCloses(g) PROVE Goal
  BY <1>16, Zenon DEF ReapCloses
<1>17. ASSUME NEW g \in Gateways, Crash(g) PROVE Goal
  BY <1>17, Zenon DEF Crash
<1>18. ASSUME NEW g \in Gateways, NEW e \in 1..MaxSessions, WatchEpochs(g, e) PROVE Goal
  BY <1>18, Zenon DEF WatchEpochs
<1>19. ASSUME NEW g \in Gateways, NEW e \in 1..MaxSessions, NoticeIsLost(g, e) PROVE Goal
  BY <1>19, Zenon DEF NoticeIsLost
<1>20. ASSUME LeaseRunsOut PROVE Goal
  BY <1>20, Zenon DEF LeaseRunsOut
<1>21. ASSUME SweepExpiredOwners PROVE Goal
  BY <1>21 DEF SweepExpiredOwners
<1>22. ASSUME UNCHANGED vars PROVE Goal
  BY <1>22, Zenon DEF vars
<1> HIDE DEF Goal
<1>31. ASSUME NEW s \in Sessions, Opens(s) PROVE Goal
  BY <1>31, <1>1, <1>2, <1>3, <1>4, <1>5, <1>6, <1>7, Zenon DEF Opens
<1>32. ASSUME NEW s \in Sessions, Closes(s) PROVE Goal
  BY <1>32, <1>8, <1>9, <1>10, <1>11, <1>12, Zenon DEF Closes
<1>33. ASSUME NEW g \in Gateways, Gateway(g) PROVE Goal
  BY <1>33, <1>15, <1>16, <1>17, <1>18, <1>19, Zenon DEF Gateway
<1>40. Goal
  BY <1>13, <1>14, <1>20, <1>21, <1>22, <1>31, <1>32, <1>33, Zenon DEF Next
<1> QED
  BY <1>40, Zenon DEF Goal

(* The detailed specification of the sessions implements HostOwner: the     *)
(* fence the writers of jobs check is never held by two claims, and a claim *)
(* that ended stays ended.                                                  *)
THEOREM Refinement == Spec => ImplementsHostOwner
<1>1. Init => Row!Init
  BY Zenon DEF Init, Row!Init
<1>2. [Next]_vars => [Row!Next]_(Row!ownerRow)
  BY StepsOfTheRow, Zenon
<1> QED
  BY <1>1, <1>2, PTL DEF Spec, ImplementsHostOwner, Row!Spec

(* No step but its own claim gives a session back the host it lost.         *)
LEMMA StepsRegainNothing ==
  ASSUME [Next]_vars
  PROVE  RegainsNothing
<1> SUFFICES ASSUME NEW s \in Sessions, ~FenceHolds(s), FenceHolds(s)'
             PROVE  Owns(s) \/ stage[s] = "inserted"
  BY Zenon DEF RegainsNothing
<1> DEFINE Goal == Owns(s) \/ stage[s] = "inserted"
<1> USE DEF FenceHolds, Owns
<1>1. ASSUME NEW t \in Sessions, Hello(t) PROVE Goal
  BY <1>1, Zenon DEF Hello
<1>2. ASSUME NEW t \in Sessions, InsertRow(t) PROVE Goal
  BY <1>2, Zenon DEF InsertRow
<1>3. ASSUME NEW t \in Sessions, ClaimSession(t) PROVE Goal
  BY <1>3, Zenon DEF ClaimSession
<1>4. ASSUME NEW t \in Sessions, OpenFails(t) PROVE Goal
  BY <1>4, Zenon DEF OpenFails
<1>5. ASSUME NEW t \in Sessions, CloseOlder(t) PROVE Goal
  BY <1>5, Zenon DEF CloseOlder
<1>6. ASSUME NEW t \in Sessions, Announce(t) PROVE Goal
  BY <1>6, Zenon DEF Announce
<1>7. ASSUME NEW t \in Sessions, Register(t) PROVE Goal
  BY <1>7, Zenon DEF Register
<1>8. ASSUME NEW t \in Sessions, Leave(t) PROVE Goal
  BY <1>8, Zenon DEF Leave
<1>9. ASSUME NEW t \in Sessions, CloseRow(t) PROVE Goal
  BY <1>9, Zenon DEF CloseRow
<1>10. ASSUME NEW t \in Sessions, ReleaseOwnership(t) PROVE Goal
  BY <1>10, Zenon DEF ReleaseOwnership
<1>11. ASSUME NEW t \in Sessions, AskNewer(t) PROVE Goal
  BY <1>11, Zenon DEF AskNewer
<1>12. ASSUME NEW t \in Sessions, MarkDisconnected(t) PROVE Goal
  BY <1>12, Zenon DEF MarkDisconnected
<1>13. ASSUME NEW t \in Sessions, RenewOwnership(t) PROVE Goal
  BY <1>13, Zenon DEF RenewOwnership, Renewable
<1>14. ASSUME NEW t \in Sessions, Heartbeat(t) PROVE Goal
  BY <1>14, Zenon DEF Heartbeat
<1>15. ASSUME NEW g \in Gateways, ReapReads(g) PROVE Goal
  BY <1>15, Zenon DEF ReapReads
<1>16. ASSUME NEW g \in Gateways, ReapCloses(g) PROVE Goal
  BY <1>16, Zenon DEF ReapCloses
<1>17. ASSUME NEW g \in Gateways, Crash(g) PROVE Goal
  BY <1>17, Zenon DEF Crash
<1>18. ASSUME NEW g \in Gateways, NEW e \in 1..MaxSessions, WatchEpochs(g, e) PROVE Goal
  BY <1>18, Zenon DEF WatchEpochs
<1>19. ASSUME NEW g \in Gateways, NEW e \in 1..MaxSessions, NoticeIsLost(g, e) PROVE Goal
  BY <1>19, Zenon DEF NoticeIsLost
<1>20. ASSUME LeaseRunsOut PROVE Goal
  BY <1>20, Zenon DEF LeaseRunsOut
<1>21. ASSUME SweepExpiredOwners PROVE Goal
  BY <1>21, Zenon DEF SweepExpiredOwners
<1>22. ASSUME UNCHANGED vars PROVE Goal
  BY <1>22, Zenon DEF vars
<1> HIDE DEF Goal
<1>31. ASSUME NEW t \in Sessions, Opens(t) PROVE Goal
  BY <1>31, <1>1, <1>2, <1>3, <1>4, <1>5, <1>6, <1>7, Zenon DEF Opens
<1>32. ASSUME NEW t \in Sessions, Closes(t) PROVE Goal
  BY <1>32, <1>8, <1>9, <1>10, <1>11, <1>12, Zenon DEF Closes
<1>33. ASSUME NEW g \in Gateways, Gateway(g) PROVE Goal
  BY <1>33, <1>15, <1>16, <1>17, <1>18, <1>19, Zenon DEF Gateway
<1>40. Goal
  BY <1>13, <1>14, <1>20, <1>21, <1>22, <1>31, <1>32, <1>33, Zenon DEF Next
<1> QED
  BY <1>40, Zenon DEF Goal

(* A session that lost the host gets it back by no renewal and no late step *)
(* of its own (keepOwnership, closeSession).                                *)
THEOREM OwnershipIsLostForGood == Spec => LostForGood
<1>1. [Next]_vars => [RegainsNothing]_vars
  BY StepsRegainNothing, Zenon
<1> QED
  BY <1>1, PTL DEF Spec, LostForGood

(* A live claim is freed by the session that made it only.                  *)
LEMMA StepsGiveUpTheirOwn ==
  ASSUME StagesOK, [Next]_vars
  PROVE  GivenUpByItself
<1> SUFFICES ASSUME owner # Nobody, live, owner' = Nobody
             PROVE  stage[owner] = "closed" /\ stage'[owner] = "released"
  BY Zenon DEF GivenUpByItself
<1> DEFINE Goal == stage[owner] = "closed" /\ stage'[owner] = "released"
<1>1. ASSUME NEW s \in Sessions, Hello(s) PROVE Goal
  BY <1>1, Zenon DEF Hello
<1>2. ASSUME NEW s \in Sessions, InsertRow(s) PROVE Goal
  BY <1>2, Zenon DEF InsertRow
<1>3. ASSUME NEW s \in Sessions, ClaimSession(s) PROVE Goal
  BY <1>3, BoundsAssumption DEF ClaimSession, Sessions
<1>4. ASSUME NEW s \in Sessions, OpenFails(s) PROVE Goal
  BY <1>4, Zenon DEF OpenFails
<1>5. ASSUME NEW s \in Sessions, CloseOlder(s) PROVE Goal
  BY <1>5, Zenon DEF CloseOlder
<1>6. ASSUME NEW s \in Sessions, Announce(s) PROVE Goal
  BY <1>6, Zenon DEF Announce
<1>7. ASSUME NEW s \in Sessions, Register(s) PROVE Goal
  BY <1>7, Zenon DEF Register
<1>8. ASSUME NEW s \in Sessions, Leave(s) PROVE Goal
  BY <1>8, Zenon DEF Leave
<1>9. ASSUME NEW s \in Sessions, CloseRow(s) PROVE Goal
  BY <1>9, Zenon DEF CloseRow
<1>10. ASSUME NEW s \in Sessions, ReleaseOwnership(s) PROVE Goal
  BY <1>10, Zenon DEF ReleaseOwnership, Owns, StagesOK
<1>11. ASSUME NEW s \in Sessions, AskNewer(s) PROVE Goal
  BY <1>11, Zenon DEF AskNewer
<1>12. ASSUME NEW s \in Sessions, MarkDisconnected(s) PROVE Goal
  BY <1>12, Zenon DEF MarkDisconnected
<1>13. ASSUME NEW s \in Sessions, RenewOwnership(s) PROVE Goal
  BY <1>13, Zenon DEF RenewOwnership, Renewable, Owns
<1>14. ASSUME NEW s \in Sessions, Heartbeat(s) PROVE Goal
  BY <1>14, Zenon DEF Heartbeat
<1>15. ASSUME NEW g \in Gateways, ReapReads(g) PROVE Goal
  BY <1>15, Zenon DEF ReapReads
<1>16. ASSUME NEW g \in Gateways, ReapCloses(g) PROVE Goal
  BY <1>16, Zenon DEF ReapCloses
<1>17. ASSUME NEW g \in Gateways, Crash(g) PROVE Goal
  BY <1>17, Zenon DEF Crash
<1>18. ASSUME NEW g \in Gateways, NEW e \in 1..MaxSessions, WatchEpochs(g, e) PROVE Goal
  BY <1>18, Zenon DEF WatchEpochs
<1>19. ASSUME NEW g \in Gateways, NEW e \in 1..MaxSessions, NoticeIsLost(g, e) PROVE Goal
  BY <1>19, Zenon DEF NoticeIsLost
<1>20. ASSUME LeaseRunsOut PROVE Goal
  BY <1>20, Zenon DEF LeaseRunsOut
<1>21. ASSUME SweepExpiredOwners PROVE Goal
  BY <1>21, Zenon DEF SweepExpiredOwners
<1>22. ASSUME UNCHANGED vars PROVE Goal
  BY <1>22, Zenon DEF vars
<1> HIDE DEF Goal
<1>31. ASSUME NEW s \in Sessions, Opens(s) PROVE Goal
  BY <1>31, <1>1, <1>2, <1>3, <1>4, <1>5, <1>6, <1>7, Zenon DEF Opens
<1>32. ASSUME NEW s \in Sessions, Closes(s) PROVE Goal
  BY <1>32, <1>8, <1>9, <1>10, <1>11, <1>12, Zenon DEF Closes
<1>33. ASSUME NEW g \in Gateways, Gateway(g) PROVE Goal
  BY <1>33, <1>15, <1>16, <1>17, <1>18, <1>19, Zenon DEF Gateway
<1>40. Goal
  BY <1>13, <1>14, <1>20, <1>21, <1>22, <1>31, <1>32, <1>33, Zenon DEF Next
<1> QED
  BY <1>40, Zenon DEF Goal

(* The late closeSession of a superseded session, however late it runs,     *)
(* frees nothing: ReleaseOwnership finds only its own claim.                *)
THEOREM LateClosesFreeNothing == Spec => SupersededReleasesNothing
<1>1. StagesOK /\ [Next]_vars => [GivenUpByItself]_vars
  BY StepsGiveUpTheirOwn, Zenon
<1> QED
  BY <1>1, StagesInvariant, PTL DEF Spec, SupersededReleasesNothing

(* The newest of the epochs a host was given. *)
LEMMA GreatestExists ==
  ASSUME NEW n \in Nat, NEW S \in SUBSET (0..n), S # {}
  PROVE  \E x \in S : \A y \in S : y <= x
<1> DEFINE T == {k \in 0..n : n - k \in S}
<1> DEFINE R == OpToRel(<, Nat)
<1>1. T \in SUBSET Nat /\ T # {}
  <2>1. PICK x \in S : TRUE
    BY Zenon
  <2>2. n - x \in 0..n /\ n - (n - x) = x
    BY <2>1
  <2>3. n - x \in T
    BY <2>2, Zenon
  <2>4. T \subseteq Nat
    OBVIOUS
  <2> QED
    BY <2>3, <2>4, Zenon
<1> HIDE DEF T
<1>2. \E x \in T : \A y \in T : ~(<<y, x>> \in R)
  <2>1. IsWellFoundedOn(R, Nat)
    BY NatLessThanWellFounded, Zenon
  <2> HIDE DEF R
  <2> QED
    BY <1>1, <2>1, WFMin, Zenon
<1>3. PICK x \in T : \A y \in T : ~(<<y, x>> \in R)
  BY <1>2, Zenon
<1>4. ASSUME NEW y \in S PROVE y <= n - x
  <2>1. n - y \in T /\ n - y \in Nat /\ x \in Nat
    BY <1>1 DEF T
  <2>2. n - y < x => <<n - y, x>> \in R
    BY <2>1, Zenon DEF OpToRel
  <2> HIDE DEF R
  <2>3. ~(n - y < x)
    BY <1>3, <2>1, <2>2, Zenon
  <2> QED
    BY <2>1, <2>3
<1>5. n - x \in S
  BY Zenon DEF T
<1> QED
  BY <1>4, <1>5, Zenon

(* Sets of sessions, with their numbers of elements. *)
LEMMA SessionSets ==
  ASSUME NEW S \in SUBSET Sessions, NEW T \in SUBSET Sessions, S \subseteq T
  PROVE  /\ Cardinality(S) \in Nat /\ Cardinality(T) \in Nat
         /\ Cardinality(S) <= Cardinality(T) /\ Cardinality(T) <= MaxSessions
         /\ \A x \in T \ S : Cardinality(S) + 1 <= Cardinality(T)
<1>1. IsFiniteSet(Sessions) /\ Cardinality(Sessions) = MaxSessions
  BY FS_Interval, BoundsAssumption DEF Sessions
<1>2. IsFiniteSet(T) /\ Cardinality(T) <= MaxSessions /\ Cardinality(T) \in Nat
  BY <1>1, FS_Subset, FS_CardinalityType, Zenon
<1>3. IsFiniteSet(S) /\ Cardinality(S) <= Cardinality(T) /\ Cardinality(S) \in Nat
  BY <1>2, FS_Subset, FS_CardinalityType, Zenon
<1>4. ASSUME NEW x \in T \ S PROVE Cardinality(S) + 1 <= Cardinality(T)
  <2>1. Cardinality(S \union {x}) = Cardinality(S) + 1
    BY <1>3, <1>4, FS_AddElement, Zenon
  <2>2. S \union {x} \subseteq T
    BY <1>4, Zenon
  <2> QED
    BY <1>2, <2>1, <2>2, FS_Subset
<1> QED
  BY <1>2, <1>3, <1>4, Zenon

(* The numbers the database hands out run no further than the sessions that *)
(* asked for one: those past InsertRow for the epochs, those past           *)
(* ClaimSession for the tokens.                                             *)
Numbered == {s \in Sessions : stage[s] \notin {"new", "hello"}}
Claimed == {s \in Sessions : stage[s] \notin {"new", "hello", "inserted"}}

Numbers ==
    /\ \A s \in Sessions : epoch[s] <= Cardinality(Numbered)
    /\ token <= Cardinality(Claimed)

(* No session goes back to before it asked. *)
LEMMA SessionsGoOn ==
  ASSUME StagesOK, [Next]_vars
  PROVE  Numbered \subseteq Numbered' /\ Claimed \subseteq Claimed'
<1> DEFINE Goal == Numbered \subseteq Numbered' /\ Claimed \subseteq Claimed'
<1>1. ASSUME NEW s \in Sessions, Hello(s) PROVE Goal
  BY <1>1, Zenon DEF Hello, StagesOK, Numbered, Claimed
<1>2. ASSUME NEW s \in Sessions, InsertRow(s) PROVE Goal
  BY <1>2, Zenon DEF InsertRow, StagesOK, Numbered, Claimed
<1>3. ASSUME NEW s \in Sessions, ClaimSession(s) PROVE Goal
  BY <1>3, Zenon DEF ClaimSession, StagesOK, Numbered, Claimed
<1>4. ASSUME NEW s \in Sessions, OpenFails(s) PROVE Goal
  BY <1>4, Zenon DEF OpenFails, StagesOK, Numbered, Claimed
<1>5. ASSUME NEW s \in Sessions, CloseOlder(s) PROVE Goal
  BY <1>5, Zenon DEF CloseOlder, StagesOK, Numbered, Claimed
<1>6. ASSUME NEW s \in Sessions, Announce(s) PROVE Goal
  BY <1>6, Zenon DEF Announce, StagesOK, Numbered, Claimed
<1>7. ASSUME NEW s \in Sessions, Register(s) PROVE Goal
  BY <1>7, Zenon DEF Register, StagesOK, Numbered, Claimed
<1>8. ASSUME NEW s \in Sessions, Leave(s) PROVE Goal
  BY <1>8, Zenon DEF Leave, StagesOK, Numbered, Claimed
<1>9. ASSUME NEW s \in Sessions, CloseRow(s) PROVE Goal
  BY <1>9, Zenon DEF CloseRow, StagesOK, Numbered, Claimed
<1>10. ASSUME NEW s \in Sessions, ReleaseOwnership(s) PROVE Goal
  BY <1>10, Zenon DEF ReleaseOwnership, StagesOK, Numbered, Claimed
<1>11. ASSUME NEW s \in Sessions, AskNewer(s) PROVE Goal
  BY <1>11, Zenon DEF AskNewer, StagesOK, Numbered, Claimed
<1>12. ASSUME NEW s \in Sessions, MarkDisconnected(s) PROVE Goal
  BY <1>12, Zenon DEF MarkDisconnected, StagesOK, Numbered, Claimed
<1>13. ASSUME NEW s \in Sessions, RenewOwnership(s) PROVE Goal
  BY <1>13, Zenon DEF RenewOwnership, StagesOK, Numbered, Claimed
<1>14. ASSUME NEW s \in Sessions, Heartbeat(s) PROVE Goal
  BY <1>14, Zenon DEF Heartbeat, StagesOK, Numbered, Claimed
<1>15. ASSUME NEW g \in Gateways, ReapReads(g) PROVE Goal
  BY <1>15, Zenon DEF ReapReads, StagesOK, Numbered, Claimed
<1>16. ASSUME NEW g \in Gateways, ReapCloses(g) PROVE Goal
  BY <1>16, Zenon DEF ReapCloses, StagesOK, Numbered, Claimed
<1>17. ASSUME NEW g \in Gateways, Crash(g) PROVE Goal
  BY <1>17, Zenon DEF Crash, StagesOK, Numbered, Claimed
<1>18. ASSUME NEW g \in Gateways, NEW e \in 1..MaxSessions, WatchEpochs(g, e) PROVE Goal
  BY <1>18, Zenon DEF WatchEpochs, StagesOK, Numbered, Claimed
<1>19. ASSUME NEW g \in Gateways, NEW e \in 1..MaxSessions, NoticeIsLost(g, e) PROVE Goal
  BY <1>19, Zenon DEF NoticeIsLost, StagesOK, Numbered, Claimed
<1>20. ASSUME LeaseRunsOut PROVE Goal
  BY <1>20, Zenon DEF LeaseRunsOut, StagesOK, Numbered, Claimed
<1>21. ASSUME SweepExpiredOwners PROVE Goal
  BY <1>21, Zenon DEF SweepExpiredOwners, StagesOK, Numbered, Claimed
<1>22. ASSUME UNCHANGED vars PROVE Goal
  BY <1>22, Zenon DEF vars, StagesOK, Numbered, Claimed
<1> HIDE DEF Goal
<1>31. ASSUME NEW s \in Sessions, Opens(s) PROVE Goal
  BY <1>31, <1>1, <1>2, <1>3, <1>4, <1>5, <1>6, <1>7, Zenon DEF Opens
<1>32. ASSUME NEW s \in Sessions, Closes(s) PROVE Goal
  BY <1>32, <1>8, <1>9, <1>10, <1>11, <1>12, Zenon DEF Closes
<1>33. ASSUME NEW g \in Gateways, Gateway(g) PROVE Goal
  BY <1>33, <1>15, <1>16, <1>17, <1>18, <1>19, Zenon DEF Gateway
<1>40. Goal
  BY <1>13, <1>14, <1>20, <1>21, <1>22, <1>31, <1>32, <1>33, Zenon DEF Next
<1> QED
  BY <1>40, Zenon DEF Goal

LEMMA NumbersInductive ==
  ASSUME TypeOK, Numbers, [Next]_vars
  PROVE  Numbers' /\ epoch' \in [Sessions -> 0..MaxSessions] /\ token' \in 0..MaxSessions
<1> DEFINE Goal == Numbers' /\ epoch' \in [Sessions -> 0..MaxSessions] /\ token' \in 0..MaxSessions
<1> DEFINE most == Cardinality(Numbered) claims == Cardinality(Claimed)
<1>0. StagesOK
  BY Zenon DEF TypeOK, StagesOK
<1>a. /\ Numbered \in SUBSET Sessions /\ Numbered' \in SUBSET Sessions
      /\ Claimed \in SUBSET Sessions /\ Claimed' \in SUBSET Sessions
  BY Zenon DEF Numbered, Claimed
<1>b. /\ most \in Nat /\ most' \in Nat /\ most <= most' /\ most' <= MaxSessions
      /\ \A x \in Numbered' \ Numbered : most + 1 <= most'
  BY <1>0, <1>a, SessionsGoOn, SessionSets, Zenon
<1>c. /\ claims \in Nat /\ claims' \in Nat /\ claims <= claims' /\ claims' <= MaxSessions
      /\ \A x \in Claimed' \ Claimed : claims + 1 <= claims'
  BY <1>0, <1>a, SessionsGoOn, SessionSets, Zenon
<1>d. epoch \in [Sessions -> 0..MaxSessions] /\ token \in 0..MaxSessions
      /\ (\A s \in Sessions : epoch[s] <= most) /\ token <= claims
  BY Zenon DEF TypeOK, Numbers
<1> HIDE DEF most, claims
<1>e. ASSUME UNCHANGED <<epoch, token>> PROVE Goal
  <2>1. \A s \in Sessions : epoch'[s] <= most'
    BY <1>b, <1>d, <1>e, BoundsAssumption
  <2>2. token' <= claims'
    BY <1>c, <1>d, <1>e, BoundsAssumption, SMTT(30)
  <2> QED
    BY <1>d, <1>e, <2>1, <2>2, Zenon DEF Numbers, most, claims
<1>1. ASSUME NEW s \in Sessions, Hello(s) PROVE Goal
  BY <1>1, <1>e, Zenon DEF Hello
<1>2. ASSUME NEW s \in Sessions, InsertRow(s) PROVE Goal
  <2>1. Epochs \in SUBSET (0..MaxSessions) /\ Epochs # {}
    BY <1>d, Zenon DEF Epochs
  <2>2. \E x \in Epochs : \A y \in Epochs : y <= x
    BY <2>1, BoundsAssumption, GreatestExists, Zenon
  <2> DEFINE newest == CHOOSE x \in Epochs : \A y \in Epochs : y <= x
  <2>3. newest \in Epochs
    BY <2>2, Zenon
  <2> HIDE DEF newest
  <2>4. newest \in Nat /\ newest <= most
    BY <2>1, <2>3, <1>b, <1>d, BoundsAssumption DEF Epochs
  <2>5. s \in Numbered' \ Numbered
    BY <1>2, <1>0, Zenon DEF InsertRow, Numbered, StagesOK
  <2>6. epoch' = [epoch EXCEPT ![s] = 1 + newest] /\ token' = token
    BY <1>2, Zenon DEF InsertRow, newest
  <2>7. 1 + newest <= most' /\ 1 + newest \in 0..MaxSessions
    BY <1>b, <2>4, <2>5, BoundsAssumption
  <2>8. \A t \in Sessions : epoch'[t] <= most'
    BY <1>b, <1>d, <2>6, <2>7, BoundsAssumption
  <2>9. token' <= claims'
    BY <1>c, <1>d, <2>6, BoundsAssumption
  <2> QED
    BY <1>d, <2>6, <2>7, <2>8, <2>9, Zenon DEF Numbers, most, claims
<1>3. ASSUME NEW s \in Sessions, ClaimSession(s) PROVE Goal
  <2>1. s \in Claimed' \ Claimed
    BY <1>3, <1>0, Zenon DEF ClaimSession, Claimed, StagesOK
  <2>2. token' = token + 1 /\ epoch' = epoch
    BY <1>3, Zenon DEF ClaimSession
  <2>3. token' <= claims' /\ token' \in 0..MaxSessions
    BY <1>c, <1>d, <2>1, <2>2, BoundsAssumption
  <2>4. \A t \in Sessions : epoch'[t] <= most'
    BY <1>b, <1>d, <2>2, BoundsAssumption
  <2> QED
    BY <1>d, <2>2, <2>3, <2>4, Zenon DEF Numbers, most, claims
<1>4. ASSUME NEW s \in Sessions, OpenFails(s) PROVE Goal
  BY <1>4, <1>e, Zenon DEF OpenFails
<1>5. ASSUME NEW s \in Sessions, CloseOlder(s) PROVE Goal
  BY <1>5, <1>e, Zenon DEF CloseOlder
<1>6. ASSUME NEW s \in Sessions, Announce(s) PROVE Goal
  BY <1>6, <1>e, Zenon DEF Announce
<1>7. ASSUME NEW s \in Sessions, Register(s) PROVE Goal
  BY <1>7, <1>e, Zenon DEF Register
<1>8. ASSUME NEW s \in Sessions, Leave(s) PROVE Goal
  BY <1>8, <1>e, Zenon DEF Leave
<1>9. ASSUME NEW s \in Sessions, CloseRow(s) PROVE Goal
  BY <1>9, <1>e, Zenon DEF CloseRow
<1>10. ASSUME NEW s \in Sessions, ReleaseOwnership(s) PROVE Goal
  BY <1>10, <1>e, Zenon DEF ReleaseOwnership
<1>11. ASSUME NEW s \in Sessions, AskNewer(s) PROVE Goal
  BY <1>11, <1>e, Zenon DEF AskNewer
<1>12. ASSUME NEW s \in Sessions, MarkDisconnected(s) PROVE Goal
  BY <1>12, <1>e, Zenon DEF MarkDisconnected
<1>13. ASSUME NEW s \in Sessions, RenewOwnership(s) PROVE Goal
  BY <1>13, <1>e, Zenon DEF RenewOwnership
<1>14. ASSUME NEW s \in Sessions, Heartbeat(s) PROVE Goal
  BY <1>14, <1>e, Zenon DEF Heartbeat
<1>15. ASSUME NEW g \in Gateways, ReapReads(g) PROVE Goal
  BY <1>15, <1>e, Zenon DEF ReapReads
<1>16. ASSUME NEW g \in Gateways, ReapCloses(g) PROVE Goal
  BY <1>16, <1>e, Zenon DEF ReapCloses
<1>17. ASSUME NEW g \in Gateways, Crash(g) PROVE Goal
  BY <1>17, <1>e, Zenon DEF Crash
<1>18. ASSUME NEW g \in Gateways, NEW e \in 1..MaxSessions, WatchEpochs(g, e) PROVE Goal
  BY <1>18, <1>e, Zenon DEF WatchEpochs
<1>19. ASSUME NEW g \in Gateways, NEW e \in 1..MaxSessions, NoticeIsLost(g, e) PROVE Goal
  BY <1>19, <1>e, Zenon DEF NoticeIsLost
<1>20. ASSUME LeaseRunsOut PROVE Goal
  BY <1>20, <1>e, Zenon DEF LeaseRunsOut
<1>21. ASSUME SweepExpiredOwners PROVE Goal
  BY <1>21, <1>e, Zenon DEF SweepExpiredOwners
<1>22. ASSUME UNCHANGED vars PROVE Goal
  BY <1>22, <1>e, Zenon DEF vars
<1> HIDE DEF Goal
<1>31. ASSUME NEW s \in Sessions, Opens(s) PROVE Goal
  BY <1>31, <1>1, <1>2, <1>3, <1>4, <1>5, <1>6, <1>7, Zenon DEF Opens
<1>32. ASSUME NEW s \in Sessions, Closes(s) PROVE Goal
  BY <1>32, <1>8, <1>9, <1>10, <1>11, <1>12, Zenon DEF Closes
<1>33. ASSUME NEW g \in Gateways, Gateway(g) PROVE Goal
  BY <1>33, <1>15, <1>16, <1>17, <1>18, <1>19, Zenon DEF Gateway
<1>40. Goal
  BY <1>13, <1>14, <1>20, <1>21, <1>22, <1>31, <1>32, <1>33, Zenon DEF Next
<1> QED
  BY <1>40, Zenon DEF Goal

(* A session on its way to be listed has its epoch. *)
HasEpoch ==
    \A s \in Sessions : stage[s] \in {"inserted", "claimed", "swept"} => epoch[s] # 0

LEMMA EpochsInductive ==
  ASSUME TypeOK, HasEpoch, [Next]_vars
  PROVE  HasEpoch'
<1> DEFINE Goal == HasEpoch'
<1>1. ASSUME NEW s \in Sessions, Hello(s) PROVE Goal
  BY <1>1, Zenon DEF Hello, TypeOK, HasEpoch
<1>2. ASSUME NEW s \in Sessions, InsertRow(s) PROVE Goal
  <2>1. Epochs \in SUBSET (0..MaxSessions) /\ Epochs # {}
    BY DEF Epochs, TypeOK
  <2>2. \E x \in Epochs : \A y \in Epochs : y <= x
    BY <2>1, BoundsAssumption, GreatestExists, Zenon
  <2> DEFINE newest == CHOOSE x \in Epochs : \A y \in Epochs : y <= x
  <2>3. newest \in Epochs
    BY <2>2, Zenon
  <2>4. epoch' = [epoch EXCEPT ![s] = 1 + newest] /\ stage' = [stage EXCEPT ![s] = "inserted"]
    BY <1>2, Zenon DEF InsertRow
  <2> HIDE DEF newest
  <2>5. newest \in Nat /\ 1 + newest # 0
    BY <2>1, <2>3, BoundsAssumption
  <2> QED
    BY <2>4, <2>5, Zenon DEF HasEpoch, TypeOK
<1>3. ASSUME NEW s \in Sessions, ClaimSession(s) PROVE Goal
  BY <1>3, Zenon DEF ClaimSession, TypeOK, HasEpoch
<1>4. ASSUME NEW s \in Sessions, OpenFails(s) PROVE Goal
  BY <1>4, Zenon DEF OpenFails, TypeOK, HasEpoch
<1>5. ASSUME NEW s \in Sessions, CloseOlder(s) PROVE Goal
  BY <1>5, Zenon DEF CloseOlder, TypeOK, HasEpoch
<1>6. ASSUME NEW s \in Sessions, Announce(s) PROVE Goal
  BY <1>6, Zenon DEF Announce, TypeOK, HasEpoch
<1>7. ASSUME NEW s \in Sessions, Register(s) PROVE Goal
  BY <1>7, Zenon DEF Register, TypeOK, HasEpoch
<1>8. ASSUME NEW s \in Sessions, Leave(s) PROVE Goal
  BY <1>8, Zenon DEF Leave, TypeOK, HasEpoch
<1>9. ASSUME NEW s \in Sessions, CloseRow(s) PROVE Goal
  BY <1>9, Zenon DEF CloseRow, TypeOK, HasEpoch
<1>10. ASSUME NEW s \in Sessions, ReleaseOwnership(s) PROVE Goal
  BY <1>10, Zenon DEF ReleaseOwnership, TypeOK, HasEpoch
<1>11. ASSUME NEW s \in Sessions, AskNewer(s) PROVE Goal
  BY <1>11, Zenon DEF AskNewer, TypeOK, HasEpoch
<1>12. ASSUME NEW s \in Sessions, MarkDisconnected(s) PROVE Goal
  BY <1>12, Zenon DEF MarkDisconnected, TypeOK, HasEpoch
<1>13. ASSUME NEW s \in Sessions, RenewOwnership(s) PROVE Goal
  BY <1>13, Zenon DEF RenewOwnership, TypeOK, HasEpoch
<1>14. ASSUME NEW s \in Sessions, Heartbeat(s) PROVE Goal
  BY <1>14, Zenon DEF Heartbeat, TypeOK, HasEpoch
<1>15. ASSUME NEW g \in Gateways, ReapReads(g) PROVE Goal
  BY <1>15, Zenon DEF ReapReads, TypeOK, HasEpoch
<1>16. ASSUME NEW g \in Gateways, ReapCloses(g) PROVE Goal
  BY <1>16, Zenon DEF ReapCloses, TypeOK, HasEpoch
<1>17. ASSUME NEW g \in Gateways, Crash(g) PROVE Goal
  BY <1>17, Zenon DEF Crash, TypeOK, HasEpoch
<1>18. ASSUME NEW g \in Gateways, NEW e \in 1..MaxSessions, WatchEpochs(g, e) PROVE Goal
  BY <1>18, Zenon DEF WatchEpochs, TypeOK, HasEpoch
<1>19. ASSUME NEW g \in Gateways, NEW e \in 1..MaxSessions, NoticeIsLost(g, e) PROVE Goal
  BY <1>19, Zenon DEF NoticeIsLost, TypeOK, HasEpoch
<1>20. ASSUME LeaseRunsOut PROVE Goal
  BY <1>20, Zenon DEF LeaseRunsOut, TypeOK, HasEpoch
<1>21. ASSUME SweepExpiredOwners PROVE Goal
  BY <1>21, Zenon DEF SweepExpiredOwners, TypeOK, HasEpoch
<1>22. ASSUME UNCHANGED vars PROVE Goal
  BY <1>22, Zenon DEF vars, TypeOK, HasEpoch
<1> HIDE DEF Goal
<1>31. ASSUME NEW s \in Sessions, Opens(s) PROVE Goal
  BY <1>31, <1>1, <1>2, <1>3, <1>4, <1>5, <1>6, <1>7, Zenon DEF Opens
<1>32. ASSUME NEW s \in Sessions, Closes(s) PROVE Goal
  BY <1>32, <1>8, <1>9, <1>10, <1>11, <1>12, Zenon DEF Closes
<1>33. ASSUME NEW g \in Gateways, Gateway(g) PROVE Goal
  BY <1>33, <1>15, <1>16, <1>17, <1>18, <1>19, Zenon DEF Gateway
<1>40. Goal
  BY <1>13, <1>14, <1>20, <1>21, <1>22, <1>31, <1>32, <1>33, Zenon DEF Next
<1> QED
  BY <1>40, Zenon DEF Goal

LEMMA TypesInductive ==
  ASSUME TypeOK, Numbers, HasEpoch, [Next]_vars
  PROVE  TypeOK'
<1> DEFINE Goal == TypeOK'
<1>0. stage' \in [Sessions -> Stages] /\ epoch' \in [Sessions -> 0..MaxSessions]
      /\ token' \in 0..MaxSessions
  <2>1. StagesOK'
    BY StagesInductive, Zenon DEF TypeOK, StagesOK
  <2> QED
    BY <2>1, NumbersInductive, Zenon DEF StagesOK
<1>1. ASSUME NEW s \in Sessions, Hello(s) PROVE Goal
  BY <1>1, <1>0, Zenon DEF Hello, TypeOK
<1>2. ASSUME NEW s \in Sessions, InsertRow(s) PROVE Goal
  BY <1>2, <1>0, Zenon DEF InsertRow, TypeOK
<1>3. ASSUME NEW s \in Sessions, ClaimSession(s) PROVE Goal
  <2>1. fence' \in [Sessions -> 0..MaxSessions]
    BY <1>3, <1>0, Zenon DEF ClaimSession, TypeOK
  <2> QED
    BY <1>3, <1>0, <2>1, Zenon DEF ClaimSession, TypeOK
<1>4. ASSUME NEW s \in Sessions, OpenFails(s) PROVE Goal
  BY <1>4, <1>0, Zenon DEF OpenFails, TypeOK
<1>5. ASSUME NEW s \in Sessions, CloseOlder(s) PROVE Goal
  BY <1>5, <1>0, Zenon DEF CloseOlder, TypeOK
<1>6. ASSUME NEW s \in Sessions, Announce(s) PROVE Goal
  <2>1. ending' \subseteq Sessions
    BY <1>6 DEF Announce, TypeOK
  <2>2. epoch[s] \in 1..MaxSessions
    BY <1>6, BoundsAssumption DEF Announce, TypeOK, HasEpoch
  <2>3. notices' \subseteq Gateways \X (1..MaxSessions)
    BY <1>6, <2>2, Zenon DEF Announce, TypeOK
  <2> QED
    BY <1>6, <1>0, <2>1, <2>3, Zenon DEF Announce, TypeOK
<1>7. ASSUME NEW s \in Sessions, Register(s) PROVE Goal
  BY <1>7, <1>0, Zenon DEF Register, TypeOK
<1>8. ASSUME NEW s \in Sessions, Leave(s) PROVE Goal
  BY <1>8, <1>0, Zenon DEF Leave, TypeOK
<1>9. ASSUME NEW s \in Sessions, CloseRow(s) PROVE Goal
  <2>1. row' \in [Sessions -> {"none", "open", "ended"}]
    BY <1>9, Zenon DEF CloseRow, TypeOK
  <2> QED
    BY <1>9, <1>0, <2>1, Zenon DEF CloseRow, TypeOK
<1>10. ASSUME NEW s \in Sessions, ReleaseOwnership(s) PROVE Goal
  BY <1>10, <1>0, Zenon DEF ReleaseOwnership, TypeOK
<1>11. ASSUME NEW s \in Sessions, AskNewer(s) PROVE Goal
  BY <1>11, <1>0, Zenon DEF AskNewer, TypeOK
<1>12. ASSUME NEW s \in Sessions, MarkDisconnected(s) PROVE Goal
  BY <1>12, <1>0, Zenon DEF MarkDisconnected, TypeOK
<1>13. ASSUME NEW s \in Sessions, RenewOwnership(s) PROVE Goal
  <2>1. owner' \in Sessions \union {Nobody} /\ ending' \subseteq Sessions
    BY <1>13 DEF RenewOwnership, TypeOK
  <2>2. live' \in BOOLEAN
    BY <1>13, Zenon DEF RenewOwnership, TypeOK
  <2> QED
    BY <1>13, <1>0, <2>1, <2>2, Zenon DEF RenewOwnership, TypeOK
<1>14. ASSUME NEW s \in Sessions, Heartbeat(s) PROVE Goal
  BY <1>14, <1>0, Zenon DEF Heartbeat, TypeOK
<1>15. ASSUME NEW g \in Gateways, ReapReads(g) PROVE Goal
  BY <1>15, <1>0, Zenon DEF ReapReads, TypeOK
<1>16. ASSUME NEW g \in Gateways, ReapCloses(g) PROVE Goal
  BY <1>16, <1>0, Zenon DEF ReapCloses, TypeOK
<1>17. ASSUME NEW g \in Gateways, Crash(g) PROVE Goal
  BY <1>17, <1>0, Zenon DEF Crash, TypeOK
<1>18. ASSUME NEW g \in Gateways, NEW e \in 1..MaxSessions, WatchEpochs(g, e) PROVE Goal
  BY <1>18, <1>0 DEF WatchEpochs, TypeOK
<1>19. ASSUME NEW g \in Gateways, NEW e \in 1..MaxSessions, NoticeIsLost(g, e) PROVE Goal
  BY <1>19, <1>0, Zenon DEF NoticeIsLost, TypeOK
<1>20. ASSUME LeaseRunsOut PROVE Goal
  BY <1>20, <1>0, Zenon DEF LeaseRunsOut, TypeOK
<1>21. ASSUME SweepExpiredOwners PROVE Goal
  BY <1>21, <1>0, Zenon DEF SweepExpiredOwners, TypeOK
<1>22. ASSUME UNCHANGED vars PROVE Goal
  BY <1>22, <1>0, Zenon DEF vars, TypeOK
<1> HIDE DEF Goal
<1>31. ASSUME NEW s \in Sessions, Opens(s) PROVE Goal
  BY <1>31, <1>1, <1>2, <1>3, <1>4, <1>5, <1>6, <1>7, Zenon DEF Opens
<1>32. ASSUME NEW s \in Sessions, Closes(s) PROVE Goal
  BY <1>32, <1>8, <1>9, <1>10, <1>11, <1>12, Zenon DEF Closes
<1>33. ASSUME NEW g \in Gateways, Gateway(g) PROVE Goal
  BY <1>33, <1>15, <1>16, <1>17, <1>18, <1>19, Zenon DEF Gateway
<1>40. Goal
  BY <1>13, <1>14, <1>20, <1>21, <1>22, <1>31, <1>32, <1>33, Zenon DEF Next
<1> QED
  BY <1>40, Zenon DEF Goal

LEMMA TypesInvariant == Spec => [](TypeOK /\ Numbers /\ HasEpoch)
<1>1. Init => TypeOK
  <2> SUFFICES ASSUME Init PROVE TypeOK
    BY Zenon
  <2>1. live \in BOOLEAN /\ online \in BOOLEAN
    BY Zenon DEF Init
  <2>2. /\ epoch \in [Sessions -> 0..MaxSessions] /\ fence \in [Sessions -> 0..MaxSessions]
        /\ token \in 0..MaxSessions
    BY BoundsAssumption DEF Init
  <2> QED
    BY <2>1, <2>2, Zenon DEF Init, TypeOK, Stages
<1>2. Init => Numbers
  <2> SUFFICES ASSUME Init PROVE Numbers
    BY Zenon
  <2>1. Cardinality(Numbered) \in Nat /\ Cardinality(Claimed) \in Nat
    BY SessionSets, Zenon DEF Numbered, Claimed
  <2> QED
    BY <2>1 DEF Init, Numbers
<1>3. TypeOK /\ Numbers /\ HasEpoch /\ [Next]_vars => (TypeOK /\ Numbers /\ HasEpoch)'
  BY TypesInductive, NumbersInductive, EpochsInductive, Zenon
<1>4. Init => HasEpoch
  BY Zenon DEF Init, HasEpoch
<1> QED
  BY <1>1, <1>2, <1>3, <1>4, PTL DEF Spec

(* The epochs and tokens a host is given, the rows, the registries and the  *)
(* announcements keep their types, for any number of gateways and sessions. *)
THEOREM TypeCorrect == Spec => []TypeOK
BY TypesInvariant, PTL

(* A row is ended by its own session, by the reaper of its gateway or for a *)
(* newer epoch. *)
LEMMA RowsEndForAReason ==
  ASSUME TypeOK, [Next]_vars
  PROVE  EndedForAReason
<1> SUFFICES ASSUME NEW s \in Sessions, row[s] = "open", row'[s] = "ended"
             PROVE  \/ stage'[s] # stage[s]
                    \/ reap[on[s]] # Idle /\ reap'[on[s]] = Idle
                    \/ \E t \in Sessions : epoch[t] > epoch[s]
  BY Zenon DEF EndedForAReason
<1> DEFINE Goal == \/ stage'[s] # stage[s]
                   \/ reap[on[s]] # Idle /\ reap'[on[s]] = Idle
                   \/ \E t \in Sessions : epoch[t] > epoch[s]
<1>1. ASSUME NEW t \in Sessions, Hello(t) PROVE Goal
  BY <1>1, Zenon DEF Hello, TypeOK
<1>2. ASSUME NEW t \in Sessions, InsertRow(t) PROVE Goal
  BY <1>2, Zenon DEF InsertRow, TypeOK
<1>3. ASSUME NEW t \in Sessions, ClaimSession(t) PROVE Goal
  BY <1>3, Zenon DEF ClaimSession, TypeOK
<1>4. ASSUME NEW t \in Sessions, OpenFails(t) PROVE Goal
  BY <1>4, Zenon DEF OpenFails, TypeOK
<1>5. ASSUME NEW t \in Sessions, CloseOlder(t) PROVE Goal
  BY <1>5, Zenon DEF CloseOlder, Older, TypeOK
<1>6. ASSUME NEW t \in Sessions, Announce(t) PROVE Goal
  BY <1>6, Zenon DEF Announce, TypeOK
<1>7. ASSUME NEW t \in Sessions, Register(t) PROVE Goal
  BY <1>7, Zenon DEF Register, TypeOK
<1>8. ASSUME NEW t \in Sessions, Leave(t) PROVE Goal
  BY <1>8, Zenon DEF Leave, TypeOK
<1>9. ASSUME NEW t \in Sessions, CloseRow(t) PROVE Goal
  BY <1>9, Zenon DEF CloseRow, TypeOK
<1>10. ASSUME NEW t \in Sessions, ReleaseOwnership(t) PROVE Goal
  BY <1>10, Zenon DEF ReleaseOwnership, TypeOK
<1>11. ASSUME NEW t \in Sessions, AskNewer(t) PROVE Goal
  BY <1>11, Zenon DEF AskNewer, TypeOK
<1>12. ASSUME NEW t \in Sessions, MarkDisconnected(t) PROVE Goal
  BY <1>12, Zenon DEF MarkDisconnected, TypeOK
<1>13. ASSUME NEW t \in Sessions, RenewOwnership(t) PROVE Goal
  BY <1>13, Zenon DEF RenewOwnership, TypeOK
<1>14. ASSUME NEW t \in Sessions, Heartbeat(t) PROVE Goal
  BY <1>14, Zenon DEF Heartbeat, TypeOK
<1>15. ASSUME NEW g \in Gateways, ReapReads(g) PROVE Goal
  BY <1>15, Zenon DEF ReapReads, TypeOK
<1>16. ASSUME NEW g \in Gateways, ReapCloses(g) PROVE Goal
  BY <1>16, Zenon DEF ReapCloses, Orphan, TypeOK
<1>17. ASSUME NEW g \in Gateways, Crash(g) PROVE Goal
  BY <1>17, Zenon DEF Crash, TypeOK
<1>18. ASSUME NEW g \in Gateways, NEW e \in 1..MaxSessions, WatchEpochs(g, e) PROVE Goal
  BY <1>18, Zenon DEF WatchEpochs, TypeOK
<1>19. ASSUME NEW g \in Gateways, NEW e \in 1..MaxSessions, NoticeIsLost(g, e) PROVE Goal
  BY <1>19, Zenon DEF NoticeIsLost, TypeOK
<1>20. ASSUME LeaseRunsOut PROVE Goal
  BY <1>20, Zenon DEF LeaseRunsOut, TypeOK
<1>21. ASSUME SweepExpiredOwners PROVE Goal
  BY <1>21, Zenon DEF SweepExpiredOwners, TypeOK
<1>22. ASSUME UNCHANGED vars PROVE Goal
  BY <1>22, Zenon DEF vars, TypeOK
<1> HIDE DEF Goal
<1>31. ASSUME NEW t \in Sessions, Opens(t) PROVE Goal
  BY <1>31, <1>1, <1>2, <1>3, <1>4, <1>5, <1>6, <1>7, Zenon DEF Opens
<1>32. ASSUME NEW t \in Sessions, Closes(t) PROVE Goal
  BY <1>32, <1>8, <1>9, <1>10, <1>11, <1>12, Zenon DEF Closes
<1>33. ASSUME NEW g \in Gateways, Gateway(g) PROVE Goal
  BY <1>33, <1>15, <1>16, <1>17, <1>18, <1>19, Zenon DEF Gateway
<1>40. Goal
  BY <1>13, <1>14, <1>20, <1>21, <1>22, <1>31, <1>32, <1>33, Zenon DEF Next
<1> QED
  BY <1>40, Zenon DEF Goal

(* Of two sessions that open at the same time, however their statements     *)
(* interleave, the one with the newest epoch keeps its row: openSession     *)
(* closes rows of a lower epoch only.                                       *)
THEOREM NewestRowIsKept == Spec => NewestRowStands
<1>1. TypeOK /\ [Next]_vars => [EndedForAReason]_vars
  BY RowsEndForAReason, Zenon
<1> QED
  BY <1>1, TypesInvariant, PTL DEF Spec, NewestRowStands
=============================================================================
