--------------------------- MODULE PassLeaseProofs ---------------------------
(***************************************************************************)
(* What the fence of internal/leases promises for any number of replicas,  *)
(* hosts and changes of hands.                                             *)
(***************************************************************************)
EXTENDS PassLease, TLAPS

(* A pass whose token is the row's has the row: nobody took it since.      *)
CurrentHolds ==
    \A i \in Instances : Active(i) =>
        /\ carried[i] <= lease.token
        /\ carried[i] = lease.token => lease.holder = i

(* A computed assessment was computed from a feed that was read.           *)
ComputedFromFeed == \A i \in Instances : stage[i] = "computed" => feedRead[i] # Unread

(* Nothing stored or read is newer than the inputs themselves.             *)
ReadsExist ==
    /\ \A h \in Hosts : verdict[h].feed <= feed /\ verdict[h].packages <= packages[h]
    /\ \A i \in Instances : feedRead[i] <= feed
    /\ \A i \in Instances : stage[i] \in {"idle", "taken"} => feedRead[i] = Unread
    /\ \A i \in Instances : stage[i] = "computed" => packagesRead[i] <= packages[inHand[i]]

(* What the current pass has read is at least as new as what is stored:    *)
(* only the current token writes, and its reads came after it was taken.   *)
CurrentReadsNewest ==
    \A i \in Instances : Active(i) /\ carried[i] = lease.token =>
        /\ feedRead[i] # Unread => \A h \in Hosts : verdict[h].feed <= feedRead[i]
        /\ stage[i] = "computed" =>
              verdict[inHand[i]].packages <= packagesRead[i]

TInv == TypeOK /\ ComputedFromFeed
IInv == TInv /\ TokenIsUnique /\ CurrentHolds /\ ReadsExist /\ CurrentReadsNewest

(* An unassessed host has a verdict.                                       *)
LEMMA NoVerdictType == NoVerdict \in Verdict
  BY BoundsAssumption DEF NoVerdict, Verdict, Token, Version

(* Giving the lease back leaves a lease.                                   *)
LEMMA ReleaseType ==
  ASSUME TypeOK, NEW i \in Instances PROVE Release(i) \in Lease
  BY DEF TypeOK, Release, Lease

(* Every step of the lease, the pass and the world keeps the types.        *)
LEMMA TypeInductive == (Init => TInv) /\ (TInv /\ [Next]_vars => TInv')
<1>1. Init => TInv
  BY NoVerdictType, BoundsAssumption
  DEF Init, TInv, TypeOK, ComputedFromFeed, Lease, Token, Version, Stages, Unread
<1>2. TInv /\ [Next]_vars => TInv'
  <2> SUFFICES ASSUME TypeOK, ComputedFromFeed, [Next]_vars PROVE TInv'
    BY DEF TInv
  <2> USE BoundsAssumption, NoVerdictType DEF TInv, TypeOK, ComputedFromFeed, Stages
  <2>1. CASE LeaseRunsOut
    BY <2>1 DEF LeaseRunsOut, Lease, passVars
  <2>2. CASE FeedChanges
    BY <2>2 DEF FeedChanges, Version, passVars
  <2>3. ASSUME NEW i \in Instances, StartPass(i) PROVE TInv'
    BY <2>3 DEF StartPass, Take, Lease, Token
  <2>4. ASSUME NEW i \in Instances, Describe(i) PROVE TInv'
    BY <2>4 DEF Describe
  <2>5. ASSUME NEW i \in Instances, SaveAdvisories(i) PROVE TInv'
    BY <2>5 DEF SaveAdvisories, Store, Verdict, Token
  <2>6. ASSUME NEW i \in Instances, SaveRefused(i) PROVE TInv'
    BY <2>6, ReleaseType DEF SaveRefused, EndPass, ForgetPass, Token, Version
  <2>7. ASSUME NEW i \in Instances, SaveFails(i) PROVE TInv'
    BY <2>7 DEF SaveFails, NoteStage
  <2>8. ASSUME NEW i \in Instances, RecordEvaluationFailure(i) PROVE TInv'
    BY <2>8 DEF RecordEvaluationFailure, Store, Verdict
  <2>9. ASSUME NEW i \in Instances, FinishPass(i) PROVE TInv'
    BY <2>9, ReleaseType DEF FinishPass, EndPass, ForgetPass, Token, Version
  <2>10. ASSUME NEW i \in Instances, Crash(i) PROVE TInv'
    BY <2>10 DEF Crash, ForgetPass, Token, Version
  <2>11. ASSUME NEW i \in Instances, NEW h \in Hosts, Evaluate(i, h) PROVE TInv'
    BY <2>11 DEF Evaluate, TakeUp, FeedOf, Version, Unread
  <2>12. ASSUME NEW i \in Instances, NEW h \in Hosts, SkipUnchanged(i, h) PROVE TInv'
    BY <2>12 DEF SkipUnchanged, TakeUp, FeedOf
  <2>13. ASSUME NEW i \in Instances, NEW h \in Hosts, ReadFails(i, h) PROVE TInv'
    BY <2>13 DEF ReadFails, TakeUp, NoteStage
  <2>14. ASSUME NEW h \in Hosts, PackagesChange(h) PROVE TInv'
    BY <2>14 DEF PackagesChange, Version, passVars
  <2>15. CASE UNCHANGED vars
    BY <2>15 DEF vars, passVars
  <2> QED
    BY <2>1, <2>2, <2>3, <2>4, <2>5, <2>6, <2>7, <2>8, <2>9, <2>10, <2>11,
       <2>12, <2>13, <2>14, <2>15 DEF Next
<1> QED
  BY <1>1, <1>2

(* Tokens: a token taken is either new or its holder's own.                *)
LEMMA TokenInductive ==
  ASSUME TypeOK, TokenIsUnique, CurrentHolds, [Next]_vars
  PROVE  TokenIsUnique' /\ CurrentHolds'
<1> USE DEF TypeOK, TokenIsUnique, CurrentHolds, Active, Lease, Token
<1>1. CASE LeaseRunsOut
  BY <1>1 DEF LeaseRunsOut, passVars
<1>2. CASE FeedChanges
  BY <1>2 DEF FeedChanges, passVars
<1>3. ASSUME NEW i \in Instances, StartPass(i) PROVE TokenIsUnique' /\ CurrentHolds'
  BY <1>3 DEF StartPass, Take
<1>4. ASSUME NEW i \in Instances, Describe(i) PROVE TokenIsUnique' /\ CurrentHolds'
  BY <1>4 DEF Describe
<1>5. ASSUME NEW i \in Instances, SaveAdvisories(i) PROVE TokenIsUnique' /\ CurrentHolds'
  BY <1>5 DEF SaveAdvisories, Store
<1>6. ASSUME NEW i \in Instances, EndPass(i) PROVE TokenIsUnique' /\ CurrentHolds'
  BY <1>6 DEF EndPass, ForgetPass, Release
<1>7. ASSUME NEW i \in Instances, SaveFails(i) PROVE TokenIsUnique' /\ CurrentHolds'
  BY <1>7 DEF SaveFails, NoteStage
<1>8. ASSUME NEW i \in Instances, RecordEvaluationFailure(i)
      PROVE  TokenIsUnique' /\ CurrentHolds'
  BY <1>8 DEF RecordEvaluationFailure, Store
<1>9. ASSUME NEW i \in Instances, Crash(i) PROVE TokenIsUnique' /\ CurrentHolds'
  BY <1>9 DEF Crash, ForgetPass
<1>10. ASSUME NEW i \in Instances, NEW h \in Hosts, NEW s, TakeUp(i, h, s)
       PROVE  TokenIsUnique' /\ CurrentHolds'
  BY <1>10 DEF TakeUp
<1>11. ASSUME NEW h \in Hosts, PackagesChange(h) PROVE TokenIsUnique' /\ CurrentHolds'
  BY <1>11 DEF PackagesChange, passVars
<1>12. CASE UNCHANGED vars
  BY <1>12 DEF vars, passVars
<1> HIDE DEF TypeOK, TokenIsUnique, CurrentHolds
<1> QED
  BY <1>1, <1>2, <1>3, <1>4, <1>5, <1>6, <1>7, <1>8, <1>9, <1>10, <1>11, <1>12
  DEF Next, SaveRefused, FinishPass, Evaluate, SkipUnchanged, ReadFails

(* Reads: a version read is never newer than its source, and the reads of  *)
(* the current pass are never older than a stored verdict.                 *)
LEMMA ReadsInductive ==
  ASSUME IInv, [Next]_vars
  PROVE  ReadsExist' /\ CurrentReadsNewest'
<1> USE BoundsAssumption DEF IInv, TInv, TypeOK, TokenIsUnique, CurrentHolds, ComputedFromFeed, ReadsExist,
            CurrentReadsNewest, Active, Lease, Verdict, Token, Version, Unread, Stages
<1> DEFINE Goal == ReadsExist' /\ CurrentReadsNewest'
<1>1. ASSUME LeaseRunsOut PROVE Goal
  BY <1>1 DEF LeaseRunsOut, passVars
<1>2. ASSUME FeedChanges PROVE Goal
  <2>1. ReadsExist'
    <3>1. \A h \in Hosts : verdict[h].feed <= feed + 1
      OBVIOUS
    <3>2. ASSUME NEW i \in Instances PROVE feedRead[i] <= feed + 1
      <4>1. feedRead[i] \in Int /\ feedRead[i] <= feed
        OBVIOUS
      <4> QED
        BY <4>1
    <3> QED
      BY <1>2, <3>1, <3>2 DEF FeedChanges, passVars
  <2> QED
    BY <1>2, <2>1 DEF FeedChanges, passVars
<1>3. ASSUME NEW i \in Instances, StartPass(i) PROVE Goal
  BY <1>3 DEF StartPass, Take
<1>4. ASSUME NEW i \in Instances, Describe(i) PROVE Goal
  BY <1>4 DEF Describe
<1>5. ASSUME NEW i \in Instances, SaveAdvisories(i) PROVE Goal
  BY <1>5 DEF SaveAdvisories, Store, HeldBy
<1>6. ASSUME NEW i \in Instances, EndPass(i) PROVE Goal
  BY <1>6 DEF EndPass, ForgetPass, Release
<1>7. ASSUME NEW i \in Instances, SaveFails(i) PROVE Goal
  BY <1>7 DEF SaveFails, NoteStage
<1>8. ASSUME NEW i \in Instances, RecordEvaluationFailure(i) PROVE Goal
  BY <1>8 DEF RecordEvaluationFailure, Store
<1>9. ASSUME NEW i \in Instances, Crash(i) PROVE Goal
  BY <1>9 DEF Crash, ForgetPass
<1>10. ASSUME NEW i \in Instances, NEW h \in Hosts, Evaluate(i, h) PROVE Goal
  BY <1>10 DEF Evaluate, TakeUp, FeedOf
<1>11. ASSUME NEW i \in Instances, NEW h \in Hosts, SkipUnchanged(i, h) PROVE Goal
  BY <1>11 DEF SkipUnchanged, TakeUp, FeedOf
<1>12. ASSUME NEW i \in Instances, NEW h \in Hosts, ReadFails(i, h) PROVE Goal
  BY <1>12 DEF ReadFails, TakeUp, NoteStage
<1>13. ASSUME NEW h \in Hosts, PackagesChange(h) PROVE Goal
  BY <1>13 DEF PackagesChange, passVars
<1>14. ASSUME UNCHANGED vars PROVE Goal
  BY <1>14 DEF vars, passVars
<1> HIDE DEF IInv, Goal
<1>15. Goal
  BY <1>1, <1>2, <1>3, <1>4, <1>5, <1>6, <1>7, <1>8, <1>9, <1>10, <1>11, <1>12, <1>13,
     <1>14 DEF IInv, Next, SaveRefused, FinishPass
<1> QED
  BY <1>15 DEF Goal

(* The inductive invariant holds of every behaviour of the pass.           *)
THEOREM Invariance == Spec => []IInv
<1>1. Init => IInv
  BY TypeInductive, BoundsAssumption
  DEF Init, IInv, TInv, TypeOK, TokenIsUnique, CurrentHolds, ReadsExist, CurrentReadsNewest,
      Active, NoVerdict, Unread
<1>2. IInv /\ [Next]_vars => IInv'
  BY TypeInductive, TokenInductive, ReadsInductive DEF IInv, TInv
<1> QED
  BY <1>1, <1>2, PTL DEF Spec

(* The state of the lease, of every pass and of every stored verdict stays *)
(* within its type, for any number of replicas and hosts.                  *)
THEOREM TypeCorrect == Spec => []TypeOK
  BY Invariance, PTL DEF IInv, TInv

(* No two passes that are under way carry the same token of leases.Take.   *)
THEOREM TokensAreUnique == Spec => []TokenIsUnique
  BY Invariance, PTL DEF IInv

(* SaveAdvisories never replaces findings by findings from older inputs,   *)
(* however many replicas paused, crashed or outlived their lease.          *)
THEOREM FindingsNeverGoBack == Spec => VerdictNeverGoesBack
<1>1. ASSUME IInv, [Next]_vars PROVE [VerdictForward]_vars
  <2> USE <1>1, BoundsAssumption DEF IInv, TInv, TypeOK, Verdict, Token, Version
  <2>1. ASSUME NEW i \in Instances, SaveAdvisories(i) PROVE VerdictForward
    <3>1. /\ \A h \in Hosts : verdict[h].feed <= feedRead[i]
          /\ verdict[inHand[i]].packages <= packagesRead[i]
      BY <2>1 DEF SaveAdvisories, HeldBy, CurrentReadsNewest, Active, ComputedFromFeed
    <3> QED
      BY <2>1, <3>1 DEF VerdictForward, SaveAdvisories, Store, ComputedFromFeed, Unread
  <2>2. ASSUME NEW i \in Instances, RecordEvaluationFailure(i) PROVE VerdictForward
    BY <2>2 DEF VerdictForward, RecordEvaluationFailure, Store
  <2>3. ASSUME UNCHANGED verdict PROVE VerdictForward
    BY <2>3 DEF VerdictForward
  <2> HIDE DEF IInv
  <2> QED
    BY <2>1, <2>2, <2>3
    DEF Next, LeaseRunsOut, FeedChanges, StartPass, Describe, SaveRefused, SaveFails, FinishPass,
        EndPass, ForgetPass, Crash, Evaluate, SkipUnchanged, ReadFails, TakeUp, PackagesChange
<1> QED
  BY <1>1, Invariance, PTL DEF Spec, VerdictNeverGoesBack
=============================================================================
