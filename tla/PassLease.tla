------------------------------ MODULE PassLease ------------------------------
(***************************************************************************)
(* The lease of a background pass (internal/leases) and the vulnerability  *)
(* correlator that works under it (internal/vuln): every replica of the    *)
(* panel runs the pass, a row of monitoring_leases decides which of them   *)
(* may write, and each write carries the holder and the token it was made  *)
(* under.                                                                  *)
(*                                                                         *)
(* The database clock is the only clock: lease_until is abstracted to      *)
(* whether it lies in the future, and the term runs out in LeaseRunsOut.   *)
(* A transaction that locks the row of the lease is one step.  The one     *)
(* statement that only reads that row (RecordEvaluationFailure) is two     *)
(* steps, its snapshot and its write: READ COMMITTED holds no lock between *)
(* them.                                                                   *)
(***************************************************************************)
EXTENDS Integers

CONSTANTS
    Instances,      \* the processes of the panel; each start is a new identity
    NoInstance,     \* the null holder
    Hosts,          \* the hosts the pass assesses
    MaxToken,       \* bound: how many times the lease changes hands
    MaxInputs       \* bound: how many times each input of the pass changes

ASSUME NoInstanceAssumption == NoInstance \notin Instances
ASSUME BoundsAssumption == MaxToken \in Nat /\ MaxInputs \in Nat

VARIABLES
    lease,          \* the row: holder, token, and whether lease_until > now()
    feed,           \* the version of the vendor feed in force
    packages,       \* per host, the version of its package list
    verdict,        \* per host, the stored assessment
    \* the pass of each instance:
    stage,          \* where it is
    carried,        \* the token of the lease it works under
    todo,           \* the hosts it has not assessed yet
    inHand,         \* the host it is assessing
    feedRead,       \* the feed, read once per pass and kept (feedAdvisories)
    packagesRead,   \* the package list read for the host in hand
    previous        \* the verdicts as they stood when Recalculate began

passVars == <<stage, carried, todo, inHand, feedRead, packagesRead, previous>>
vars == <<lease, feed, packages, verdict, passVars>>

Token == 0..MaxToken
Version == 0..MaxInputs
Unread == -1
Lease == [holder : Instances \union {NoInstance}, token : Token, live : BOOLEAN]

(* token: the lease the findings were saved under (0: never assessed); feed  *)
(* and packages: the inputs they were computed from; failed: the token of a  *)
(* pass that noted it could not compute the host since (0: no such note).    *)
Verdict == [token : Token, feed : Version, packages : Version, failed : Token]

Stages == {"idle", "taken", "walking", "computed", "noting", "dead"}

TypeOK ==
    /\ lease \in Lease
    /\ feed \in Version
    /\ packages \in [Hosts -> Version]
    /\ verdict \in [Hosts -> Verdict]
    /\ stage \in [Instances -> Stages]
    /\ carried \in [Instances -> Token]
    /\ todo \in [Instances -> SUBSET Hosts]
    /\ inHand \in [Instances -> Hosts]
    /\ feedRead \in [Instances -> Version \union {Unread}]
    /\ packagesRead \in [Instances -> Version]
    /\ previous \in [Instances -> [Hosts -> Verdict]]

NoVerdict == [token |-> 0, feed |-> 0, packages |-> 0, failed |-> 0]

Init ==
    /\ lease = [holder |-> NoInstance, token |-> 0, live |-> FALSE]
    /\ feed = 0
    /\ packages = [h \in Hosts |-> 0]
    /\ verdict = [h \in Hosts |-> NoVerdict]
    /\ stage = [i \in Instances |-> "idle"]
    /\ carried = [i \in Instances |-> 0]
    /\ todo = [i \in Instances |-> {}]
    /\ inHand \in [Instances -> Hosts]
    /\ feedRead = [i \in Instances |-> Unread]
    /\ packagesRead = [i \in Instances |-> 0]
    /\ previous = [i \in Instances |-> [h \in Hosts |-> NoVerdict]]

-----------------------------------------------------------------------------
(* internal/leases *)

Takeable(i) == lease.holder \in {NoInstance, i} \/ ~lease.live

\* Mutant: the token stays when an expired lease changes hands.
TakeKeepsToken(i) ==
    [holder |-> i, live |-> TRUE,
     token |-> IF lease.holder = NoInstance THEN lease.token + 1 ELSE lease.token]

Take(i) ==
    [holder |-> i, live |-> TRUE,
     token |-> IF lease.holder # i THEN lease.token + 1 ELSE lease.token]

\* Mutant: the fence asks whether the lease is live, not whose it is.
HeldBySomebody(i) == lease.live

(* The fence of every write: HoldCondition, Assert and Renew ask the same.   *)
HeldBy(i) == lease.holder = i /\ lease.token = carried[i] /\ lease.live

Release(i) ==
    IF lease.holder = i /\ lease.token = carried[i]
    THEN [holder |-> NoInstance, token |-> lease.token, live |-> FALSE]
    ELSE lease

(* The term runs out on the database clock, whatever the holder is doing.    *)
LeaseRunsOut ==
    /\ lease.live
    /\ lease' = [holder |-> lease.holder, token |-> lease.token, live |-> FALSE]
    /\ UNCHANGED <<feed, packages, verdict, passVars>>

-----------------------------------------------------------------------------
(* internal/vuln: Cycle and RecalculateHosts.  The mutex of the process is   *)
(* the stage: an instance makes one pass at a time.                          *)

StartPass(i) ==
    /\ stage[i] = "idle"
    /\ Takeable(i)
    /\ Take(i).token <= MaxToken
    /\ lease' = Take(i)
    /\ stage' = [stage EXCEPT ![i] = "taken"]
    /\ carried' = [carried EXCEPT ![i] = Take(i).token]
    /\ UNCHANGED <<feed, packages, verdict, todo, inHand, feedRead, packagesRead, previous>>

(* Recalculate begins, over the whole fleet or over the hosts asked for.     *)
Describe(i) ==
    /\ stage[i] = "taken"
    /\ stage' = [stage EXCEPT ![i] = "walking"]
    /\ \E hosts \in SUBSET Hosts : todo' = [todo EXCEPT ![i] = hosts]
    /\ previous' = [previous EXCEPT ![i] = verdict]
    /\ UNCHANGED <<lease, feed, packages, verdict, carried, inHand, feedRead, packagesRead>>

(* What a pass knew is gone when it ends, or with its process.               *)
ForgetPass(i) ==
    /\ carried' = [carried EXCEPT ![i] = 0]
    /\ todo' = [todo EXCEPT ![i] = {}]
    /\ feedRead' = [feedRead EXCEPT ![i] = Unread]
    /\ packagesRead' = [packagesRead EXCEPT ![i] = 0]
    /\ previous' = [previous EXCEPT ![i] = [h \in Hosts |-> NoVerdict]]
    /\ UNCHANGED <<feed, packages, verdict, inHand>>

(* The deferred release ends every pass; when its statement fails the lease  *)
(* is left to run out.                                                       *)
EndPass(i) ==
    /\ lease' \in {Release(i), lease}
    /\ stage' = [stage EXCEPT ![i] = "idle"]
    /\ ForgetPass(i)

FeedOf(i) == IF feedRead[i] = Unread THEN feed ELSE feedRead[i]

(* The pass takes up its next host and leaves it in the given stage.         *)
TakeUp(i, h, next) ==
    /\ stage[i] = "walking" /\ h \in todo[i]
    /\ stage' = [stage EXCEPT ![i] = next]
    /\ todo' = [todo EXCEPT ![i] = @ \ {h}]
    /\ UNCHANGED <<lease, feed, packages, verdict, carried, previous>>

Evaluate(i, h) ==
    /\ TakeUp(i, h, "computed")
    /\ inHand' = [inHand EXCEPT ![i] = h]
    /\ feedRead' = [feedRead EXCEPT ![i] = FeedOf(i)]
    /\ packagesRead' = [packagesRead EXCEPT ![i] = packages[h]]

(* toRecalculate answers no: an assessment stands and its digests match.     *)
SkipUnchanged(i, h) ==
    /\ TakeUp(i, h, "walking")
    /\ previous[i][h].token # 0 /\ previous[i][h].failed = 0
    /\ previous[i][h].feed = FeedOf(i) /\ previous[i][h].packages = packages[h]
    /\ feedRead' = [feedRead EXCEPT ![i] = FeedOf(i)]
    /\ UNCHANGED <<inHand, packagesRead>>

(* recordFailure: the snapshot of its statement decides whether it writes; a *)
(* refusal drops the note and the pass goes on.                              *)
NoteStage(i) == IF HeldBy(i) THEN "noting" ELSE "walking"

ReadFails(i, h) ==
    /\ TakeUp(i, h, NoteStage(i))
    /\ inHand' = [inHand EXCEPT ![i] = h]
    /\ UNCHANGED <<feedRead, packagesRead>>

SaveFails(i) ==
    /\ stage[i] = "computed"
    /\ stage' = [stage EXCEPT ![i] = NoteStage(i)]
    /\ UNCHANGED <<lease, feed, packages, verdict, carried, todo, inHand, feedRead,
                   packagesRead, previous>>

(* A write to the row of the host in hand, after which the pass walks on.    *)
Store(i, row) ==
    /\ verdict' = [verdict EXCEPT ![inHand[i]] = row]
    /\ stage' = [stage EXCEPT ![i] = "walking"]
    /\ UNCHANGED <<lease, feed, packages, carried, todo, inHand, feedRead,
                   packagesRead, previous>>

SaveAdvisories(i) ==
    /\ stage[i] = "computed" /\ HeldBy(i)
    /\ Store(i, [token |-> carried[i], feed |-> feedRead[i],
                 packages |-> packagesRead[i], failed |-> 0])

(* ErrLost from the assertion: the pass stops without writing.               *)
SaveRefused(i) ==
    /\ stage[i] = "computed" /\ ~HeldBy(i)
    /\ EndPass(i)

RecordEvaluationFailure(i) ==
    /\ stage[i] = "noting"
    /\ LET old == verdict[inHand[i]] IN
          Store(i, [token |-> old.token, feed |-> old.feed,
                    packages |-> old.packages, failed |-> carried[i]])

FinishPass(i) ==
    /\ stage[i] = "walking" /\ todo[i] = {}
    /\ EndPass(i)

-----------------------------------------------------------------------------
(* The world: an instance dies without releasing, and the inputs change.     *)

Crash(i) ==
    /\ stage[i] # "dead"
    /\ stage' = [stage EXCEPT ![i] = "dead"]
    /\ ForgetPass(i)
    /\ UNCHANGED lease

FeedChanges ==
    /\ feed < MaxInputs
    /\ feed' = feed + 1
    /\ UNCHANGED <<lease, packages, verdict, passVars>>

PackagesChange(h) ==
    /\ packages[h] < MaxInputs
    /\ packages' = [packages EXCEPT ![h] = @ + 1]
    /\ UNCHANGED <<lease, feed, verdict, passVars>>

Next ==
    \/ LeaseRunsOut \/ FeedChanges
    \/ \E i \in Instances :
          \/ StartPass(i) \/ Describe(i) \/ SaveAdvisories(i) \/ SaveRefused(i)
          \/ SaveFails(i) \/ RecordEvaluationFailure(i) \/ FinishPass(i) \/ Crash(i)
          \/ \E h \in Hosts : Evaluate(i, h) \/ SkipUnchanged(i, h) \/ ReadFails(i, h)
    \/ \E h \in Hosts : PackagesChange(h)

Spec == Init /\ [][Next]_vars

-----------------------------------------------------------------------------
(* Properties *)

(* No two passes ever carry the same token: Take raises it whenever the row  *)
(* names another holder, so a pass that outlived its term is always told     *)
(* from the one that followed it (leases.Take, Lease.Token).                 *)
Active(i) == stage[i] \notin {"idle", "dead"}

TokenIsUnique ==
    \A i, j \in Instances :
        Active(i) /\ Active(j) /\ carried[i] = carried[j] => i = j

(* The stored findings never go back to older inputs: a pass that paused     *)
(* past its term cannot overwrite what a later holder computed from a newer  *)
(* feed or package list (SaveAdvisories and its Assert).                     *)
VerdictForward ==
    \A h \in Hosts : /\ verdict'[h].feed >= verdict[h].feed
                     /\ verdict'[h].packages >= verdict[h].packages
VerdictNeverGoesBack == [][VerdictForward]_vars
=============================================================================
