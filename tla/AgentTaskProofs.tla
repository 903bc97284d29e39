-------------------------- MODULE AgentTaskProofs --------------------------
(***************************************************************************)
(* What AgentTask promises for any number of deliveries.                   *)
(***************************************************************************)
EXTENDS AgentTask, TLAPS

(* One goroutine works on the key, and it is the one that claimed it. *)
OneWorker == \A a \in Attempts : pc[a] \in Working => running = a

(* Before the change, the marker; after it, the marker or the result. *)
MarkedBefore == \A a \in Attempts : pc[a] \in {"marked", "mutating"} => marker # Nobody

RecordedAfter == begun # {} => journal # None \/ marker # Nobody

Unbegun == {"checking", "cleared", "marked", "mutating"}

(* A goroutine on its way to the change is the first to get that far. *)
FirstToBegin == \A a \in Attempts : pc[a] \in Unbegun => begun = {}

(* A goroutine that may still write the journal found no result in it. *)
FirstToWrite ==
    \A a \in Attempts : pc[a] \in Unbegun \union {"performing", "ending"} => journal = None

JournalAhead == MarkedBefore /\ RecordedAfter /\ FirstToBegin /\ FirstToWrite

(* A goroutine past its work holds a result, of the kind it is to keep. *)
HoldsAResult ==
    \A a \in Attempts :
        /\ pc[a] \in {"settled", "returned"} => answer[a] \in Outcomes
        /\ pc[a] = "ending" => answer[a] \in Kept

IInv == TypeOK /\ OneWorker /\ JournalAhead /\ HoldsAResult /\ AtMostOnce

USE DEF diskVars, memoryVars, workerVars, sentVars

(* The types, which rest on a goroutine holding a result when it has one to give. *)
LEMMA TypesInductive ==
  ASSUME TypeOK, HoldsAResult, [Next]_vars
  PROVE  TypeOK'
<1> USE DEF TypeOK, HoldsAResult, Outcomes, Kept, Places, Phases, Working, Nobody, None
<1>1. ASSUME NEW a \in Attempts, Receive(a) PROVE TypeOK'
  BY <1>1, Zenon DEF Receive, Goto
<1>2. ASSUME NEW a \in Attempts, AcknowledgeRunning(a) PROVE TypeOK'
  BY <1>2, Zenon DEF AcknowledgeRunning, Goto
<1>3. ASSUME NEW a \in Attempts, Claim(a) PROVE TypeOK'
  BY <1>3, Zenon DEF Claim, Goto, Attempts
<1>4. ASSUME NEW a \in Attempts, Enter(a) PROVE TypeOK'
  BY <1>4 DEF Enter, Ends, Goto
<1>5. ASSUME NEW a \in Attempts, Lookup(a) PROVE TypeOK'
  BY <1>5 DEF Lookup, Ends, EndsWith
<1>6. ASSUME NEW a \in Attempts, Reject(a) PROVE TypeOK'
  BY <1>6, Zenon DEF Reject, EndsWith
<1>7. ASSUME NEW a \in Attempts, Admit(a) PROVE TypeOK'
  BY <1>7 DEF Admit, Ends, Goto
<1>8. ASSUME NEW a \in Attempts, Abandon(a) PROVE TypeOK'
  BY <1>8, Zenon DEF Abandon, Goto
<1>9. ASSUME NEW a \in Attempts, MarkInFlight(a) PROVE TypeOK'
  BY <1>9 DEF MarkInFlight, EndsWith, Goto
<1>10. ASSUME NEW a \in Attempts, Start(a) PROVE TypeOK'
  BY <1>10, Zenon DEF Start, Goto
<1>11. ASSUME NEW a \in Attempts, Perform(a) PROVE TypeOK'
  BY <1>11 DEF Perform, EndsWith, Goto
<1>12. ASSUME NEW a \in Attempts, Verify(a) PROVE TypeOK'
  BY <1>12 DEF Verify, EndsWith
<1>13. ASSUME NEW a \in Attempts, Settle(a) PROVE TypeOK'
  BY <1>13, Zenon DEF Settle, Store, Goto
<1>14. ASSUME NEW a \in Attempts, Panic(a) PROVE TypeOK'
  BY <1>14, Zenon DEF Panic, Ends, Store
<1>15. ASSUME NEW a \in Attempts, Return(a) PROVE TypeOK'
  BY <1>15, Zenon DEF Return, Goto
<1>16. ASSUME NEW a \in Attempts, Deliver(a) PROVE TypeOK'
  BY <1>16 DEF Deliver, Goto
<1>17. ASSUME NEW a \in Attempts, CancelTask(a) PROVE TypeOK'
  BY <1>17 DEF CancelTask, Origin
<1>18. ASSUME SessionEnds PROVE TypeOK'
  BY <1>18, Zenon DEF SessionEnds
<1>19. ASSUME Restart PROVE TypeOK'
  BY <1>19, Zenon DEF Restart
<1>20. ASSUME UNCHANGED vars PROVE TypeOK'
  BY <1>20, Zenon DEF vars
<1>21. ASSUME NEW a \in Attempts, Works(a) PROVE TypeOK'
  BY <1>21, <1>4, <1>5, <1>6, <1>7, <1>8, <1>9, <1>10, <1>11, <1>12, <1>13, <1>14, <1>15, <1>16,
     Zenon DEF Works
<1> QED
  BY <1>1, <1>2, <1>3, <1>17, <1>18, <1>19, <1>20, <1>21, Zenon DEF Next

(* A goroutine past its work holds a result. *)
LEMMA ResultsHeld ==
  ASSUME TypeOK, HoldsAResult, [Next]_vars
  PROVE  HoldsAResult'
<1> USE DEF TypeOK, HoldsAResult, Outcomes, Kept, Working, Nobody, None
<1>1. ASSUME NEW a \in Attempts, Receive(a) PROVE HoldsAResult'
  BY <1>1, Zenon DEF Receive, Goto
<1>2. ASSUME NEW a \in Attempts, AcknowledgeRunning(a) PROVE HoldsAResult'
  BY <1>2, Zenon DEF AcknowledgeRunning, Goto
<1>3. ASSUME NEW a \in Attempts, Claim(a) PROVE HoldsAResult'
  BY <1>3, Zenon DEF Claim, Goto, Attempts
<1>4. ASSUME NEW a \in Attempts, Enter(a) PROVE HoldsAResult'
  BY <1>4 DEF Enter, Ends, Goto
<1>5. ASSUME NEW a \in Attempts, Lookup(a) PROVE HoldsAResult'
  BY <1>5 DEF Lookup, Ends, EndsWith
<1>6. ASSUME NEW a \in Attempts, Reject(a) PROVE HoldsAResult'
  BY <1>6, Zenon DEF Reject, EndsWith
<1>7. ASSUME NEW a \in Attempts, Admit(a) PROVE HoldsAResult'
  BY <1>7 DEF Admit, Ends, Goto
<1>8. ASSUME NEW a \in Attempts, Abandon(a) PROVE HoldsAResult'
  BY <1>8, Zenon DEF Abandon, Goto
<1>9. ASSUME NEW a \in Attempts, MarkInFlight(a) PROVE HoldsAResult'
  BY <1>9 DEF MarkInFlight, EndsWith, Goto
<1>10. ASSUME NEW a \in Attempts, Start(a) PROVE HoldsAResult'
  BY <1>10, Zenon DEF Start, Goto
<1>11. ASSUME NEW a \in Attempts, Perform(a) PROVE HoldsAResult'
  BY <1>11 DEF Perform, EndsWith, Goto
<1>12. ASSUME NEW a \in Attempts, Verify(a) PROVE HoldsAResult'
  BY <1>12, ZenonT(30) DEF Verify, EndsWith
<1>13. ASSUME NEW a \in Attempts, Settle(a) PROVE HoldsAResult'
  BY <1>13, Zenon DEF Settle, Store, Goto
<1>14. ASSUME NEW a \in Attempts, Panic(a) PROVE HoldsAResult'
  BY <1>14, Zenon DEF Panic, Ends, Store
<1>15. ASSUME NEW a \in Attempts, Return(a) PROVE HoldsAResult'
  BY <1>15, Zenon DEF Return, Goto
<1>16. ASSUME NEW a \in Attempts, Deliver(a) PROVE HoldsAResult'
  BY <1>16, Zenon DEF Deliver, Goto
<1>17. ASSUME NEW a \in Attempts, CancelTask(a) PROVE HoldsAResult'
  BY <1>17, Zenon DEF CancelTask, Origin
<1>18. ASSUME SessionEnds PROVE HoldsAResult'
  BY <1>18, Zenon DEF SessionEnds
<1>19. ASSUME Restart PROVE HoldsAResult'
  BY <1>19, Zenon DEF Restart
<1>20. ASSUME UNCHANGED vars PROVE HoldsAResult'
  BY <1>20, Zenon DEF vars
<1>21. ASSUME NEW a \in Attempts, Works(a) PROVE HoldsAResult'
  BY <1>21, <1>4, <1>5, <1>6, <1>7, <1>8, <1>9, <1>10, <1>11, <1>12, <1>13, <1>14, <1>15, <1>16,
     Zenon DEF Works
<1> QED
  BY <1>1, <1>2, <1>3, <1>17, <1>18, <1>19, <1>20, <1>21, Zenon DEF Next

(* The key is held by one. *)
LEMMA WorkersInductive ==
  ASSUME TypeOK, OneWorker, [Next]_vars
  PROVE  OneWorker'
<1> USE DEF TypeOK, OneWorker, Working, Places, Nobody, None
<1>1. ASSUME NEW a \in Attempts, Receive(a) PROVE OneWorker'
  BY <1>1, Zenon DEF Receive, Goto
<1>2. ASSUME NEW a \in Attempts, AcknowledgeRunning(a) PROVE OneWorker'
  BY <1>2, Zenon DEF AcknowledgeRunning, Goto
<1>3. ASSUME NEW a \in Attempts, Claim(a) PROVE OneWorker'
  BY <1>3 DEF Claim, Goto, Attempts
<1>4. ASSUME NEW a \in Attempts, Enter(a) PROVE OneWorker'
  BY <1>4 DEF Enter, Ends, Goto
<1>5. ASSUME NEW a \in Attempts, Lookup(a) PROVE OneWorker'
  BY <1>5 DEF Lookup, Ends, EndsWith
<1>6. ASSUME NEW a \in Attempts, Reject(a) PROVE OneWorker'
  BY <1>6, Zenon DEF Reject, EndsWith
<1>7. ASSUME NEW a \in Attempts, Admit(a) PROVE OneWorker'
  BY <1>7 DEF Admit, Ends, Goto
<1>8. ASSUME NEW a \in Attempts, Abandon(a) PROVE OneWorker'
  BY <1>8, Zenon DEF Abandon, Goto
<1>9. ASSUME NEW a \in Attempts, MarkInFlight(a) PROVE OneWorker'
  BY <1>9 DEF MarkInFlight, EndsWith, Goto
<1>10. ASSUME NEW a \in Attempts, Start(a) PROVE OneWorker'
  BY <1>10, Zenon DEF Start, Goto
<1>11. ASSUME NEW a \in Attempts, Perform(a) PROVE OneWorker'
  BY <1>11 DEF Perform, EndsWith, Goto
<1>12. ASSUME NEW a \in Attempts, Verify(a) PROVE OneWorker'
  BY <1>12, ZenonT(30) DEF Verify, EndsWith
<1>13. ASSUME NEW a \in Attempts, Settle(a) PROVE OneWorker'
  BY <1>13, Zenon DEF Settle, Store, Goto
<1>14. ASSUME NEW a \in Attempts, Panic(a) PROVE OneWorker'
  BY <1>14, Zenon DEF Panic, Ends, Store
<1>15. ASSUME NEW a \in Attempts, Return(a) PROVE OneWorker'
  BY <1>15, Zenon DEF Return, Goto
<1>16. ASSUME NEW a \in Attempts, Deliver(a) PROVE OneWorker'
  BY <1>16, Zenon DEF Deliver, Goto
<1>17. ASSUME NEW a \in Attempts, CancelTask(a) PROVE OneWorker'
  BY <1>17, Zenon DEF CancelTask, Origin
<1>18. ASSUME SessionEnds PROVE OneWorker'
  BY <1>18, Zenon DEF SessionEnds
<1>19. ASSUME Restart PROVE OneWorker'
  BY <1>19, Zenon DEF Restart
<1>20. ASSUME UNCHANGED vars PROVE OneWorker'
  BY <1>20, Zenon DEF vars
<1>21. ASSUME NEW a \in Attempts, Works(a) PROVE OneWorker'
  BY <1>21, <1>4, <1>5, <1>6, <1>7, <1>8, <1>9, <1>10, <1>11, <1>12, <1>13, <1>14, <1>15, <1>16,
     Zenon DEF Works
<1> QED
  BY <1>1, <1>2, <1>3, <1>17, <1>18, <1>19, <1>20, <1>21, Zenon DEF Next

(* The journal is ahead of the host, and nobody overtakes it. *)
LEMMA RecordsInductive ==
  ASSUME TypeOK, HoldsAResult, OneWorker, JournalAhead, [Next]_vars
  PROVE  JournalAhead'
<1> USE DEF TypeOK, HoldsAResult, OneWorker, JournalAhead, MarkedBefore, RecordedAfter,
            FirstToBegin, FirstToWrite, Working, Places, Kept, Unbegun, Nobody, None
<1>1. ASSUME NEW a \in Attempts, Receive(a) PROVE JournalAhead'
  BY <1>1 DEF Receive, Goto
<1>2. ASSUME NEW a \in Attempts, AcknowledgeRunning(a) PROVE JournalAhead'
  BY <1>2, Zenon DEF AcknowledgeRunning, Goto
<1>3. ASSUME NEW a \in Attempts, Claim(a) PROVE JournalAhead'
  BY <1>3, Zenon DEF Claim, Goto, Attempts
<1>4. ASSUME NEW a \in Attempts, Enter(a) PROVE JournalAhead'
  BY <1>4 DEF Enter, Ends, Goto
<1>5. ASSUME NEW a \in Attempts, Lookup(a) PROVE JournalAhead'
  BY <1>5 DEF Lookup, Ends, EndsWith
<1>6. ASSUME NEW a \in Attempts, Reject(a) PROVE JournalAhead'
  BY <1>6, Zenon DEF Reject, EndsWith
<1>7. ASSUME NEW a \in Attempts, Admit(a) PROVE JournalAhead'
  BY <1>7 DEF Admit, Ends, Goto
<1>8. ASSUME NEW a \in Attempts, Abandon(a) PROVE JournalAhead'
  BY <1>8, Zenon DEF Abandon, Goto
<1>9. ASSUME NEW a \in Attempts, MarkInFlight(a) PROVE JournalAhead'
  <2>1. a # Nobody
    BY DEF Attempts
  <2>2. CASE pc[a] = "cleared" /\ EndsWith(a, "rejected") /\ UNCHANGED marker
    BY <1>9, <2>2, Zenon DEF MarkInFlight, EndsWith
  <2>3. CASE Goto(a, "cleared", "marked") /\ marker' = a /\ UNCHANGED answer
    BY <1>9, <2>1, <2>3, Zenon DEF MarkInFlight, Goto
  <2> QED
    BY <1>9, <2>2, <2>3, Zenon DEF MarkInFlight
<1>10. ASSUME NEW a \in Attempts, Start(a) PROVE JournalAhead'
  BY <1>10, Zenon DEF Start, Goto
<1>11. ASSUME NEW a \in Attempts, Perform(a) PROVE JournalAhead'
  BY <1>11 DEF Perform, EndsWith, Goto
<1>12. ASSUME NEW a \in Attempts, Verify(a) PROVE JournalAhead'
  BY <1>12 DEF Verify, EndsWith
<1>13. ASSUME NEW a \in Attempts, Settle(a) PROVE JournalAhead'
  BY <1>13 DEF Settle, Store, Goto
<1>14. ASSUME NEW a \in Attempts, Panic(a) PROVE JournalAhead'
  BY <1>14 DEF Panic, Ends, Store
<1>15. ASSUME NEW a \in Attempts, Return(a) PROVE JournalAhead'
  BY <1>15 DEF Return, Goto
<1>16. ASSUME NEW a \in Attempts, Deliver(a) PROVE JournalAhead'
  BY <1>16 DEF Deliver, Goto
<1>17. ASSUME NEW a \in Attempts, CancelTask(a) PROVE JournalAhead'
  BY <1>17, Zenon DEF CancelTask, Origin
<1>18. ASSUME SessionEnds PROVE JournalAhead'
  BY <1>18, Zenon DEF SessionEnds
<1>19. ASSUME Restart PROVE JournalAhead'
  BY <1>19 DEF Restart
<1>20. ASSUME UNCHANGED vars PROVE JournalAhead'
  BY <1>20, Zenon DEF vars
<1>21. ASSUME NEW a \in Attempts, Works(a) PROVE JournalAhead'
  BY <1>21, <1>4, <1>5, <1>6, <1>7, <1>8, <1>9, <1>10, <1>11, <1>12, <1>13, <1>14, <1>15, <1>16,
     Zenon DEF Works
<1> QED
  BY <1>1, <1>2, <1>3, <1>17, <1>18, <1>19, <1>20, <1>21, Zenon DEF Next

(* IInv is an invariant of the agent. *)
THEOREM Invariance == Spec => []IInv
<1>1. Init => IInv
  BY Zenon DEF Init, IInv, TypeOK, OneWorker, JournalAhead, MarkedBefore, RecordedAfter,
         FirstToBegin,
         FirstToWrite, HoldsAResult, AtMostOnce, Working, Unbegun, Kept, Phases, Places, None, Nobody
<1>2. IInv /\ [Next]_vars => IInv'
  <2> SUFFICES ASSUME IInv, [Next]_vars PROVE IInv'
    BY Zenon
  <2>1. TypeOK' /\ HoldsAResult' /\ OneWorker'
    BY TypesInductive, ResultsHeld, WorkersInductive, Zenon DEF IInv
  <2>2. JournalAhead'
    BY RecordsInductive, Zenon DEF IInv
  <2>3. begun' = begun \/ \E a \in Attempts : pc[a] = "mutating" /\ begun' = begun \union {a}
    BY DEF Next, Works, vars, Receive, AcknowledgeRunning, Claim, Enter, Lookup, Reject, Admit,
           Abandon, MarkInFlight, Start, Perform, Verify, Settle, Panic, Return, Deliver,
           CancelTask, SessionEnds, Restart, Goto
  <2>4. AtMostOnce'
    BY <2>3, Zenon DEF IInv, AtMostOnce, JournalAhead, FirstToBegin, Unbegun
  <2> QED
    BY <2>1, <2>2, <2>4, Zenon DEF IInv
<1> QED
  BY <1>1, <1>2, PTL DEF Spec

(* The state of the agent keeps its types. *)
THEOREM TypeCorrect == Spec => []TypeOK
BY Invariance, PTL DEF IInv

(* However often the operation is delivered, wherever the process dies and *)
(* whichever write of the journal fails, the host begins the change at most *)
(* once (Execute).                                                          *)
THEOREM ChangedAtMostOnce == Spec => []AtMostOnce
BY Invariance, PTL DEF IInv

LEMMA StepsWriteOnce ==
  ASSUME IInv, [Next]_vars
  PROVE  WritesOnce
<1>1. ASSUME NEW a \in Attempts, Settle(a) PROVE WritesOnce
  BY <1>1, Zenon DEF IInv, Settle, Goto, JournalAhead, FirstToWrite, WritesOnce
<1>2. ASSUME NEW a \in Attempts, Panic(a) PROVE WritesOnce
  BY <1>2, Zenon DEF IInv, Panic, JournalAhead, FirstToWrite, Unbegun, WritesOnce
<1>3. ASSUME ~ \E a \in Attempts : Settle(a) \/ Panic(a) PROVE journal' = journal
  BY <1>3 DEF Next, Works, vars, Receive, AcknowledgeRunning, Claim, Enter, Lookup, Reject,
              Admit, Abandon, MarkInFlight, Start, Perform, Verify, Return, Deliver,
              CancelTask, SessionEnds, Restart
<1> QED
  BY <1>1, <1>2, <1>3, Zenon DEF WritesOnce

(* The first result in the journal is the one every later delivery gets     *)
(* (Lookup, Store).                                                         *)
THEOREM TheFirstResultStands == Spec => FirstResultStands
BY Invariance, StepsWriteOnce, PTL DEF Spec, FirstResultStands
=============================================================================
