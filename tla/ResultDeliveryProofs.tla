------------------------ MODULE ResultDeliveryProofs ------------------------
(***************************************************************************)
(* The safety of ResultDelivery for any number of results, messages and    *)
(* handlers, and for any faults.                                           *)
(***************************************************************************)
EXTENDS ResultDelivery, TLAPS

USE DEF agent, stream, relay, inboxVars, handling

(* What the panel is done with.                                             *)
Consumed(m) == inbox[m] = "dead" \/ msg[m] \in answered

(* Everything that refers to a message refers to one that was sent, and     *)
(* every message that was sent carries a result.                            *)
HandlersOK ==
    /\ wire \subseteq taken /\ toRelay \subseteq taken
    /\ \A m \in taken : msg[m] \in Results
    /\ \A h \in Handlers : step[h] # "idle" => at[h] \in taken
    /\ \A h \in Handlers : step[h] = "idle" => at[h] = Nothing

(* An acknowledgement, a row marked applied and a record the relay does not *)
(* answer for any more are each about a message that is consumed.           *)
ConsumedOK ==
    /\ \A m \in toRelay : Consumed(m)
    /\ \A m \in Messages : inbox[m] = "applied" => msg[m] \in answered
    /\ \A m \in Messages \ taken : inbox[m] = "none"
    /\ \A h \in Handlers : step[h] = "applied" => msg[at[h]] \in answered
    /\ \A m \in taken \ kept : Consumed(m)

(* The answers on their way are true.                                       *)
AnswersOK == toAgent \subseteq answered /\ FreedWhenAnswered

(* A delivery at work owns its message, or a lease of the message ran out.  *)
OwnersOK ==
    /\ \A h \in Handlers :
        step[h] # "idle" => at[h] \in leased \union lapsed /\ inbox[at[h]] # "none"
    /\ \A g, h \in Handlers :
        g # h /\ step[g] # "idle" /\ step[h] # "idle" /\ at[g] = at[h] => at[g] \in lapsed

LEMMA TypesInductive ==
  ASSUME TypeOK, HandlersOK, [Next]_vars
  PROVE  TypeOK'
<1> DEFINE Goal == TypeOK'
<1> USE DEF TypeOK, HandlersOK, Busy
<1>1. ASSUME Connects PROVE Goal
  BY <1>1, DeliveryAssumption, Zenon DEF Connects
<1>2. ASSUME Breaks PROVE Goal
  BY <1>2, DeliveryAssumption DEF Breaks, SessionEnds, StreamGone, Fault
<1>3. ASSUME CentreLost PROVE Goal
  BY <1>3, DeliveryAssumption DEF CentreLost, StreamGone, Fault
<1>4. ASSUME RelayRestarts PROVE Goal
  BY <1>4, DeliveryAssumption DEF RelayRestarts, SessionEnds, StreamGone, Relay!Restart, Fault
<1>5. ASSUME AgentRestarts PROVE Goal
  BY <1>5, DeliveryAssumption DEF AgentRestarts, StreamGone, Fault
<1>6. ASSUME RelayRefuses PROVE Goal
  BY <1>6, DeliveryAssumption DEF RelayRefuses, SessionEnds, StreamGone, Fault
<1>7. ASSUME OfferBegins PROVE Goal
  BY <1>7, DeliveryAssumption, Zenon DEF OfferBegins
<1>8. ASSUME NEW r \in Results, Starts(r) PROVE Goal
  BY <1>8, DeliveryAssumption, Zenon DEF Starts
<1>9. ASSUME NEW r \in Results, Finishes(r) PROVE Goal
  BY <1>9, DeliveryAssumption DEF Finishes, Fault
<1>10. ASSUME NEW r \in Results, RetryIsDue(r) PROVE Goal
  BY <1>10, DeliveryAssumption, Zenon DEF RetryIsDue
<1>11. ASSUME NEW r \in Results, Answered(r) PROVE Goal
  BY <1>11, DeliveryAssumption, Zenon DEF Answered
<1>12. ASSUME NEW r \in Results, Expires(r) PROVE Goal
  BY <1>12, DeliveryAssumption DEF Expires, Fault
<1>13. ASSUME NEW r \in Results, NEW m \in Messages, Sends(r, m) PROVE Goal
  BY <1>13, DeliveryAssumption, ZenonT(30) DEF Sends, Carry, Relay!Take, KeptAfterSend
<1>14. ASSUME NEW r \in Results, NEW m \in Messages, OfferSends(r, m) PROVE Goal
  BY <1>14, DeliveryAssumption, ZenonT(30) DEF OfferSends, Carry, Relay!Take, KeptAfterSend
<1>15. ASSUME NEW m \in Messages, Resends(m) PROVE Goal
  BY <1>15, DeliveryAssumption DEF Resends
<1>16. ASSUME NEW m \in Messages, AckIsOverdue(m) PROVE Goal
  BY <1>16, DeliveryAssumption, Zenon DEF AckIsOverdue
<1>17. ASSUME NEW m \in Messages, RelayFrees(m) PROVE Goal
  BY <1>17, DeliveryAssumption, Zenon DEF RelayFrees, Relay!Free
<1>18. ASSUME NEW m \in Messages, Retires(m) PROVE Goal
  BY <1>18, DeliveryAssumption DEF Retires, Unused
<1>19. ASSUME NEW h \in Handlers, NEW m \in Messages, Claims(h, m) PROVE Goal
  BY <1>19, DeliveryAssumption DEF Claims, Reads, MayTake
<1>20. ASSUME NEW h \in Handlers, NEW m \in Messages, SetsAside(h, m) PROVE Goal
  BY <1>20, DeliveryAssumption, ZenonT(30) DEF SetsAside, Reads, MayTake, TellRelay, Finished
<1>21. ASSUME NEW h \in Handlers, Consumes(h) PROVE Goal
  <2>1. faults' \in 0..MaxFaults + 1
    BY <1>21, DeliveryAssumption DEF Consumes, Fault
  <2>2. at[h] \in Messages /\ msg[at[h]] \in Results
    BY <1>21, Zenon DEF Consumes
  <2> QED
    BY <1>21, <2>1, <2>2, DeliveryAssumption DEF Consumes, TellAgent
<1>22. ASSUME NEW h \in Handlers, NotesApplied(h) PROVE Goal
  <2>1. faults' \in 0..MaxFaults + 1
    BY <1>22, DeliveryAssumption DEF NotesApplied, Fault
  <2>2. at[h] \in Messages /\ msg[at[h]] \in Results
    BY <1>22, Zenon DEF NotesApplied
  <2> QED
    BY <1>22, <2>1, <2>2, DeliveryAssumption, ZenonT(30) DEF NotesApplied, TellRelay, Leaves
<1>23. ASSUME NEW h \in Handlers, NotesFailure(h) PROVE Goal
  <2>1. faults' \in 0..MaxFaults + 1
    BY <1>23, DeliveryAssumption DEF NotesFailure, Fault
  <2>2. at[h] \in Messages /\ msg[at[h]] \in Results /\ tries[at[h]] \in 0..InboxAttempts
    BY <1>23, Zenon DEF NotesFailure
  <2>3. tries' \in [Messages -> 0..InboxAttempts]
    BY <1>23, <2>2, DeliveryAssumption DEF NotesFailure
  <2>4. inbox' \in [Messages -> {"none", "received", "applied", "dead"}] /\ leased' \subseteq Messages
    BY <1>23, <2>2 DEF NotesFailure
  <2>5. toRelay' \subseteq Messages
    BY <1>23, <2>2 DEF NotesFailure, TellRelay
  <2> QED
    BY <1>23, <2>1, <2>3, <2>4, <2>5, Zenon DEF NotesFailure, Leaves
<1>24. ASSUME NEW h \in Handlers, GatewayStops(h) PROVE Goal
  <2>1. faults' \in 0..MaxFaults + 1
    BY <1>24, DeliveryAssumption DEF GatewayStops, Fault
  <2> QED
    BY <1>24, <2>1, DeliveryAssumption, Zenon DEF GatewayStops
<1>25. ASSUME NEW m \in Messages, LeaseLapses(m) PROVE Goal
  <2>1. faults' \in 0..MaxFaults + 1
    BY <1>25, DeliveryAssumption DEF LeaseLapses, Fault
  <2> QED
    BY <1>25, <2>1, DeliveryAssumption, ZenonT(30) DEF LeaseLapses
<1>26. ASSUME UNCHANGED vars PROVE Goal
  BY <1>26, Zenon DEF vars
<1> HIDE DEF Goal
<1>41. ASSUME SessionStep PROVE Goal
  BY <1>41, <1>1, <1>2, <1>3, <1>4, <1>5, <1>6, Zenon DEF SessionStep
<1>42. ASSUME AgentStep PROVE Goal
  BY <1>42, <1>7, <1>8, <1>9, <1>10, <1>11, <1>12, <1>13, <1>14, Zenon DEF AgentStep
<1>43. ASSUME RelayStep PROVE Goal
  BY <1>43, <1>15, <1>16, <1>17, <1>18, Zenon DEF RelayStep
<1>44. ASSUME PanelStep PROVE Goal
  BY <1>44, <1>19, <1>20, <1>21, <1>22, <1>23, <1>24, <1>25, Zenon DEF PanelStep
<1>50. Goal
  BY <1>41, <1>42, <1>43, <1>44, <1>26, Zenon DEF Next
<1> QED
  BY <1>50, Zenon DEF Goal

LEMMA HandlersInductive ==
  ASSUME TypeOK, HandlersOK, [Next]_vars
  PROVE  HandlersOK'
<1> DEFINE Goal == HandlersOK'
<1> USE DEF TypeOK, HandlersOK, Busy
<1>1. ASSUME Connects PROVE Goal
  BY <1>1, Zenon DEF Connects
<1>2. ASSUME Breaks PROVE Goal
  BY <1>2, Zenon DEF Breaks, SessionEnds, StreamGone
<1>3. ASSUME CentreLost PROVE Goal
  BY <1>3, Zenon DEF CentreLost, StreamGone
<1>4. ASSUME RelayRestarts PROVE Goal
  BY <1>4, Zenon DEF RelayRestarts, SessionEnds, StreamGone, Relay!Restart
<1>5. ASSUME AgentRestarts PROVE Goal
  BY <1>5, Zenon DEF AgentRestarts, StreamGone
<1>6. ASSUME RelayRefuses PROVE Goal
  BY <1>6, Zenon DEF RelayRefuses, SessionEnds, StreamGone
<1>7. ASSUME OfferBegins PROVE Goal
  BY <1>7, Zenon DEF OfferBegins
<1>8. ASSUME NEW r \in Results, Starts(r) PROVE Goal
  BY <1>8, Zenon DEF Starts
<1>9. ASSUME NEW r \in Results, Finishes(r) PROVE Goal
  BY <1>9, Zenon DEF Finishes
<1>10. ASSUME NEW r \in Results, RetryIsDue(r) PROVE Goal
  BY <1>10, Zenon DEF RetryIsDue
<1>11. ASSUME NEW r \in Results, Answered(r) PROVE Goal
  BY <1>11, Zenon DEF Answered
<1>12. ASSUME NEW r \in Results, Expires(r) PROVE Goal
  BY <1>12, Zenon DEF Expires
<1>13. ASSUME NEW r \in Results, NEW m \in Messages, Sends(r, m) PROVE Goal
  BY <1>13 DEF Sends, Carry, Relay!Take, KeptAfterSend
<1>14. ASSUME NEW r \in Results, NEW m \in Messages, OfferSends(r, m) PROVE Goal
  BY <1>14 DEF OfferSends, Carry, Relay!Take, KeptAfterSend
<1>15. ASSUME NEW m \in Messages, Resends(m) PROVE Goal
  BY <1>15, Zenon DEF Resends
<1>16. ASSUME NEW m \in Messages, AckIsOverdue(m) PROVE Goal
  BY <1>16, Zenon DEF AckIsOverdue
<1>17. ASSUME NEW m \in Messages, RelayFrees(m) PROVE Goal
  BY <1>17, Zenon DEF RelayFrees, Relay!Free
<1>18. ASSUME NEW m \in Messages, Retires(m) PROVE Goal
  BY <1>18, Zenon DEF Retires, Unused
<1>19. ASSUME NEW h \in Handlers, NEW m \in Messages, Claims(h, m) PROVE Goal
  BY <1>19, Zenon DEF Claims, Reads, MayTake
<1>20. ASSUME NEW h \in Handlers, NEW m \in Messages, SetsAside(h, m) PROVE Goal
  BY <1>20, Zenon DEF SetsAside, Reads, MayTake, TellRelay, Finished
<1>21. ASSUME NEW h \in Handlers, Consumes(h) PROVE Goal
  BY <1>21 DEF Consumes, TellAgent
<1>22. ASSUME NEW h \in Handlers, NotesApplied(h) PROVE Goal
  BY <1>22, Zenon DEF NotesApplied, TellRelay, Leaves
<1>23. ASSUME NEW h \in Handlers, NotesFailure(h) PROVE Goal
  BY <1>23 DEF NotesFailure, TellRelay, Leaves
<1>24. ASSUME NEW h \in Handlers, GatewayStops(h) PROVE Goal
  BY <1>24, Zenon DEF GatewayStops
<1>25. ASSUME NEW m \in Messages, LeaseLapses(m) PROVE Goal
  BY <1>25, Zenon DEF LeaseLapses
<1>26. ASSUME UNCHANGED vars PROVE Goal
  BY <1>26, Zenon DEF vars
<1> HIDE DEF Goal
<1>41. ASSUME SessionStep PROVE Goal
  BY <1>41, <1>1, <1>2, <1>3, <1>4, <1>5, <1>6, Zenon DEF SessionStep
<1>42. ASSUME AgentStep PROVE Goal
  BY <1>42, <1>7, <1>8, <1>9, <1>10, <1>11, <1>12, <1>13, <1>14, Zenon DEF AgentStep
<1>43. ASSUME RelayStep PROVE Goal
  BY <1>43, <1>15, <1>16, <1>17, <1>18, Zenon DEF RelayStep
<1>44. ASSUME PanelStep PROVE Goal
  BY <1>44, <1>19, <1>20, <1>21, <1>22, <1>23, <1>24, <1>25, Zenon DEF PanelStep
<1>50. Goal
  BY <1>41, <1>42, <1>43, <1>44, <1>26, Zenon DEF Next
<1> QED
  BY <1>50, Zenon DEF Goal

LEMMA ConsumedInductive ==
  ASSUME TypeOK, HandlersOK, ConsumedOK, [Next]_vars
  PROVE  ConsumedOK'
<1> DEFINE Goal == ConsumedOK'
<1> USE DEF TypeOK, HandlersOK, ConsumedOK, Consumed
<1>1. ASSUME Connects PROVE Goal
  BY <1>1, Zenon DEF Connects
<1>2. ASSUME Breaks PROVE Goal
  BY <1>2, Zenon DEF Breaks, SessionEnds, StreamGone
<1>3. ASSUME CentreLost PROVE Goal
  BY <1>3, Zenon DEF CentreLost, StreamGone
<1>4. ASSUME RelayRestarts PROVE Goal
  BY <1>4, Zenon DEF RelayRestarts, SessionEnds, StreamGone, Relay!Restart
<1>5. ASSUME AgentRestarts PROVE Goal
  BY <1>5, Zenon DEF AgentRestarts, StreamGone
<1>6. ASSUME RelayRefuses PROVE Goal
  BY <1>6, Zenon DEF RelayRefuses, SessionEnds, StreamGone
<1>7. ASSUME OfferBegins PROVE Goal
  BY <1>7, Zenon DEF OfferBegins
<1>8. ASSUME NEW r \in Results, Starts(r) PROVE Goal
  BY <1>8, Zenon DEF Starts
<1>9. ASSUME NEW r \in Results, Finishes(r) PROVE Goal
  BY <1>9, Zenon DEF Finishes
<1>10. ASSUME NEW r \in Results, RetryIsDue(r) PROVE Goal
  BY <1>10, Zenon DEF RetryIsDue
<1>11. ASSUME NEW r \in Results, Answered(r) PROVE Goal
  BY <1>11, Zenon DEF Answered
<1>12. ASSUME NEW r \in Results, Expires(r) PROVE Goal
  BY <1>12, Zenon DEF Expires
<1>13. ASSUME NEW r \in Results, NEW m \in Messages, Sends(r, m) PROVE Goal
  BY <1>13, SMTT(30) DEF Sends, Carry, Relay!Take, KeptAfterSend
<1>14. ASSUME NEW r \in Results, NEW m \in Messages, OfferSends(r, m) PROVE Goal
  BY <1>14 DEF OfferSends, Carry, Relay!Take, KeptAfterSend
<1>15. ASSUME NEW m \in Messages, Resends(m) PROVE Goal
  BY <1>15, Zenon DEF Resends
<1>16. ASSUME NEW m \in Messages, AckIsOverdue(m) PROVE Goal
  BY <1>16, Zenon DEF AckIsOverdue
<1>17. ASSUME NEW m \in Messages, RelayFrees(m) PROVE Goal
  BY <1>17, Zenon DEF RelayFrees, Relay!Free
<1>18. ASSUME NEW m \in Messages, Retires(m) PROVE Goal
  BY <1>18 DEF Retires, Unused
<1>19. ASSUME NEW h \in Handlers, NEW m \in Messages, Claims(h, m) PROVE Goal
  BY <1>19, SMTT(30) DEF Claims, Reads, MayTake
<1>20. ASSUME NEW h \in Handlers, NEW m \in Messages, SetsAside(h, m) PROVE Goal
  BY <1>20, SMTT(30) DEF SetsAside, Reads, MayTake, TellRelay, Finished
<1>21. ASSUME NEW h \in Handlers, Consumes(h) PROVE Goal
  BY <1>21 DEF Consumes, TellAgent
<1>22. ASSUME NEW h \in Handlers, NotesApplied(h) PROVE Goal
  BY <1>22 DEF NotesApplied, TellRelay, Leaves
<1>23. ASSUME NEW h \in Handlers, NotesFailure(h) PROVE Goal
  BY <1>23 DEF NotesFailure, TellRelay, Leaves
<1>24. ASSUME NEW h \in Handlers, GatewayStops(h) PROVE Goal
  BY <1>24, Zenon DEF GatewayStops
<1>25. ASSUME NEW m \in Messages, LeaseLapses(m) PROVE Goal
  BY <1>25, Zenon DEF LeaseLapses
<1>26. ASSUME UNCHANGED vars PROVE Goal
  BY <1>26, Zenon DEF vars
<1> HIDE DEF Goal
<1>41. ASSUME SessionStep PROVE Goal
  BY <1>41, <1>1, <1>2, <1>3, <1>4, <1>5, <1>6, Zenon DEF SessionStep
<1>42. ASSUME AgentStep PROVE Goal
  BY <1>42, <1>7, <1>8, <1>9, <1>10, <1>11, <1>12, <1>13, <1>14, Zenon DEF AgentStep
<1>43. ASSUME RelayStep PROVE Goal
  BY <1>43, <1>15, <1>16, <1>17, <1>18, Zenon DEF RelayStep
<1>44. ASSUME PanelStep PROVE Goal
  BY <1>44, <1>19, <1>20, <1>21, <1>22, <1>23, <1>24, <1>25, Zenon DEF PanelStep
<1>50. Goal
  BY <1>41, <1>42, <1>43, <1>44, <1>26, Zenon DEF Next
<1> QED
  BY <1>50, Zenon DEF Goal

LEMMA AnswersInductive ==
  ASSUME TypeOK, HandlersOK, ConsumedOK, AnswersOK, [Next]_vars
  PROVE  AnswersOK'
<1> DEFINE Goal == AnswersOK'
<1> USE DEF TypeOK, AnswersOK, FreedWhenAnswered
<1>1. ASSUME Connects PROVE Goal
  BY <1>1, Zenon DEF Connects
<1>2. ASSUME Breaks PROVE Goal
  BY <1>2, Zenon DEF Breaks, SessionEnds, StreamGone
<1>3. ASSUME CentreLost PROVE Goal
  BY <1>3, Zenon DEF CentreLost, StreamGone
<1>4. ASSUME RelayRestarts PROVE Goal
  BY <1>4, Zenon DEF RelayRestarts, SessionEnds, StreamGone, Relay!Restart
<1>5. ASSUME AgentRestarts PROVE Goal
  BY <1>5, Zenon DEF AgentRestarts, StreamGone
<1>6. ASSUME RelayRefuses PROVE Goal
  BY <1>6, Zenon DEF RelayRefuses, SessionEnds, StreamGone
<1>7. ASSUME OfferBegins PROVE Goal
  BY <1>7, Zenon DEF OfferBegins
<1>8. ASSUME NEW r \in Results, Starts(r) PROVE Goal
  BY <1>8, Zenon DEF Starts
<1>9. ASSUME NEW r \in Results, Finishes(r) PROVE Goal
  BY <1>9, Zenon DEF Finishes
<1>10. ASSUME NEW r \in Results, RetryIsDue(r) PROVE Goal
  BY <1>10, Zenon DEF RetryIsDue
<1>11. ASSUME NEW r \in Results, Answered(r) PROVE Goal
  BY <1>11, Zenon DEF Answered
<1>12. ASSUME NEW r \in Results, Expires(r) PROVE Goal
  BY <1>12, Zenon DEF Expires
<1>13. ASSUME NEW r \in Results, NEW m \in Messages, Sends(r, m) PROVE Goal
  BY <1>13, Zenon DEF Sends, Carry, Relay!Take, KeptAfterSend
<1>14. ASSUME NEW r \in Results, NEW m \in Messages, OfferSends(r, m) PROVE Goal
  BY <1>14, Zenon DEF OfferSends, Carry, Relay!Take, KeptAfterSend
<1>15. ASSUME NEW m \in Messages, Resends(m) PROVE Goal
  BY <1>15, Zenon DEF Resends
<1>16. ASSUME NEW m \in Messages, AckIsOverdue(m) PROVE Goal
  BY <1>16, Zenon DEF AckIsOverdue
<1>17. ASSUME NEW m \in Messages, RelayFrees(m) PROVE Goal
  BY <1>17, Zenon DEF RelayFrees, Relay!Free
<1>18. ASSUME NEW m \in Messages, Retires(m) PROVE Goal
  BY <1>18, Zenon DEF Retires, Unused
<1>19. ASSUME NEW h \in Handlers, NEW m \in Messages, Claims(h, m) PROVE Goal
  BY <1>19, Zenon DEF Claims, Reads, MayTake
<1>20. ASSUME NEW h \in Handlers, NEW m \in Messages, SetsAside(h, m) PROVE Goal
  BY <1>20, Zenon DEF SetsAside, Reads, MayTake, TellRelay, Finished
<1>21. ASSUME NEW h \in Handlers, Consumes(h) PROVE Goal
  BY <1>21, Zenon DEF Consumes, TellAgent
<1>22. ASSUME NEW h \in Handlers, NotesApplied(h) PROVE Goal
  BY <1>22, Zenon DEF NotesApplied, TellRelay, Leaves
<1>23. ASSUME NEW h \in Handlers, NotesFailure(h) PROVE Goal
  BY <1>23, Zenon DEF NotesFailure, TellRelay, Leaves
<1>24. ASSUME NEW h \in Handlers, GatewayStops(h) PROVE Goal
  BY <1>24, Zenon DEF GatewayStops
<1>25. ASSUME NEW m \in Messages, LeaseLapses(m) PROVE Goal
  BY <1>25, Zenon DEF LeaseLapses
<1>26. ASSUME UNCHANGED vars PROVE Goal
  BY <1>26, Zenon DEF vars
<1> HIDE DEF Goal
<1>41. ASSUME SessionStep PROVE Goal
  BY <1>41, <1>1, <1>2, <1>3, <1>4, <1>5, <1>6, Zenon DEF SessionStep
<1>42. ASSUME AgentStep PROVE Goal
  BY <1>42, <1>7, <1>8, <1>9, <1>10, <1>11, <1>12, <1>13, <1>14, Zenon DEF AgentStep
<1>43. ASSUME RelayStep PROVE Goal
  BY <1>43, <1>15, <1>16, <1>17, <1>18, Zenon DEF RelayStep
<1>44. ASSUME PanelStep PROVE Goal
  BY <1>44, <1>19, <1>20, <1>21, <1>22, <1>23, <1>24, <1>25, Zenon DEF PanelStep
<1>50. Goal
  BY <1>41, <1>42, <1>43, <1>44, <1>26, Zenon DEF Next
<1> QED
  BY <1>50, Zenon DEF Goal

LEMMA OwnersInductive ==
  ASSUME TypeOK, HandlersOK, OwnersOK, [Next]_vars
  PROVE  OwnersOK'
<1> DEFINE Goal == OwnersOK'
<1> USE DEF TypeOK, HandlersOK, OwnersOK, Busy
<1>1. ASSUME Connects PROVE Goal
  BY <1>1, Zenon DEF Connects
<1>2. ASSUME Breaks PROVE Goal
  BY <1>2, Zenon DEF Breaks, SessionEnds, StreamGone
<1>3. ASSUME CentreLost PROVE Goal
  BY <1>3, Zenon DEF CentreLost, StreamGone
<1>4. ASSUME RelayRestarts PROVE Goal
  BY <1>4, Zenon DEF RelayRestarts, SessionEnds, StreamGone, Relay!Restart
<1>5. ASSUME AgentRestarts PROVE Goal
  BY <1>5, Zenon DEF AgentRestarts, StreamGone
<1>6. ASSUME RelayRefuses PROVE Goal
  BY <1>6, Zenon DEF RelayRefuses, SessionEnds, StreamGone
<1>7. ASSUME OfferBegins PROVE Goal
  BY <1>7, Zenon DEF OfferBegins
<1>8. ASSUME NEW r \in Results, Starts(r) PROVE Goal
  BY <1>8, Zenon DEF Starts
<1>9. ASSUME NEW r \in Results, Finishes(r) PROVE Goal
  BY <1>9, Zenon DEF Finishes
<1>10. ASSUME NEW r \in Results, RetryIsDue(r) PROVE Goal
  BY <1>10, Zenon DEF RetryIsDue
<1>11. ASSUME NEW r \in Results, Answered(r) PROVE Goal
  BY <1>11, Zenon DEF Answered
<1>12. ASSUME NEW r \in Results, Expires(r) PROVE Goal
  BY <1>12, Zenon DEF Expires
<1>13. ASSUME NEW r \in Results, NEW m \in Messages, Sends(r, m) PROVE Goal
  BY <1>13, Zenon DEF Sends, Carry, Relay!Take, KeptAfterSend
<1>14. ASSUME NEW r \in Results, NEW m \in Messages, OfferSends(r, m) PROVE Goal
  BY <1>14, Zenon DEF OfferSends, Carry, Relay!Take, KeptAfterSend
<1>15. ASSUME NEW m \in Messages, Resends(m) PROVE Goal
  BY <1>15, Zenon DEF Resends
<1>16. ASSUME NEW m \in Messages, AckIsOverdue(m) PROVE Goal
  BY <1>16, Zenon DEF AckIsOverdue
<1>17. ASSUME NEW m \in Messages, RelayFrees(m) PROVE Goal
  BY <1>17, Zenon DEF RelayFrees, Relay!Free
<1>18. ASSUME NEW m \in Messages, Retires(m) PROVE Goal
  BY <1>18 DEF Retires, Unused
<1>19. ASSUME NEW h \in Handlers, NEW m \in Messages, Claims(h, m) PROVE Goal
  BY <1>19 DEF Claims, Reads, MayTake
<1>20. ASSUME NEW h \in Handlers, NEW m \in Messages, SetsAside(h, m) PROVE Goal
  BY <1>20, Zenon DEF SetsAside, Reads, MayTake, TellRelay, Finished
<1>21. ASSUME NEW h \in Handlers, Consumes(h) PROVE Goal
  BY <1>21 DEF Consumes, TellAgent
<1>22. ASSUME NEW h \in Handlers, NotesApplied(h) PROVE Goal
  BY <1>22 DEF NotesApplied, TellRelay, Leaves
<1>23. ASSUME NEW h \in Handlers, NotesFailure(h) PROVE Goal
  BY <1>23 DEF NotesFailure, TellRelay, Leaves
<1>24. ASSUME NEW h \in Handlers, GatewayStops(h) PROVE Goal
  BY <1>24, Zenon DEF GatewayStops
<1>25. ASSUME NEW m \in Messages, LeaseLapses(m) PROVE Goal
  BY <1>25 DEF LeaseLapses
<1>26. ASSUME UNCHANGED vars PROVE Goal
  BY <1>26, Zenon DEF vars
<1> HIDE DEF Goal
<1>41. ASSUME SessionStep PROVE Goal
  BY <1>41, <1>1, <1>2, <1>3, <1>4, <1>5, <1>6, Zenon DEF SessionStep
<1>42. ASSUME AgentStep PROVE Goal
  BY <1>42, <1>7, <1>8, <1>9, <1>10, <1>11, <1>12, <1>13, <1>14, Zenon DEF AgentStep
<1>43. ASSUME RelayStep PROVE Goal
  BY <1>43, <1>15, <1>16, <1>17, <1>18, Zenon DEF RelayStep
<1>44. ASSUME PanelStep PROVE Goal
  BY <1>44, <1>19, <1>20, <1>21, <1>22, <1>23, <1>24, <1>25, Zenon DEF PanelStep
<1>50. Goal
  BY <1>41, <1>42, <1>43, <1>44, <1>26, Zenon DEF Next
<1> QED
  BY <1>50, Zenon DEF Goal

Inv == TypeOK /\ HandlersOK /\ ConsumedOK /\ AnswersOK /\ OwnersOK

LEMMA Invariance == Spec => []Inv
<1>1. Init => Inv
  BY DeliveryAssumption DEF Init, Inv, TypeOK, HandlersOK, ConsumedOK, AnswersOK, OwnersOK,
     FreedWhenAnswered
<1>2. Inv /\ [Next]_vars => Inv'
  BY TypesInductive, HandlersInductive, ConsumedInductive, AnswersInductive, OwnersInductive, Zenon
     DEF Inv
<1> QED
  BY <1>1, <1>2, PTL DEF Spec

(* The relay frees only what it took, and keeps only what it holds; an      *)
(* envelope is never tried past its attempts (relay_envelope.go, Claim).    *)
THEOREM TypeCorrect == Spec => []TypeOK
BY Invariance, PTL DEF Inv

(* The agent lets go of a result only once the panel has answered it, or    *)
(* says that it gives it up (resultdelivery.go, acknowledge).               *)
THEOREM ResultsAreNotLost == Spec => []FreedWhenAnswered
<1>1. Inv => FreedWhenAnswered
  BY Zenon DEF Inv, AnswersOK
<1> QED
  BY <1>1, Invariance, PTL

(* The relay lets go of a message only once the panel is done with it, over *)
(* every restart of the relay and of a gateway (relay_envelope.go, Claim).  *)
THEOREM RelayWaitsForThePanel == Spec => []RelayFreesTheConsumed
<1>1. Inv => RelayFreesTheConsumed
  BY Zenon DEF Inv, TypeOK, ConsumedOK, Consumed, RelayFreesTheConsumed
<1> QED
  BY <1>1, Invariance, PTL

(* Two deliveries work on one message only after a lease of it ran out      *)
(* (relay_envelope.go, lease).                                              *)
THEOREM OneDeliveryOwnsAMessage == Spec => []OneOwner
<1>1. Inv => OneOwner
  BY Zenon DEF Inv, OwnersOK, OneOwner
<1> QED
  BY <1>1, Invariance, PTL
=============================================================================
