--------------------------- MODULE ResultDelivery ---------------------------
(***************************************************************************)
(* The way of a task's result from a host behind a relay to the panel and  *)
(* of the answer back: the agent's spool of results and the session that   *)
(* offers them (internal/agent/resultdelivery.go, resultspool.go), the     *)
(* relay that carries the session and keeps what it carries                *)
(* (internal/relay/relay.go over the queue of RelayQueue), and the gateway *)
(* that applies a relayed message once (internal/gateway/relay_envelope.go,*)
(* agent_service.go).                                                      *)
(*                                                                         *)
(* Every send of a result is signed anew, so it is a message of its own    *)
(* with a number of its own.  The members of Messages stand for such       *)
(* numbers; one nobody refers to any more is used again, the least of them *)
(* for the next send, and handlers are taken in the same way.              *)
(***************************************************************************)
EXTENDS Naturals, FiniteSets

CONSTANTS Results,
          Messages, Handlers, \* intervals from 1
          Nothing,
          MaxInflight,      \* records a relay has under way
          InboxAttempts,    \* failed attempts after which a message is set aside
          Faults, MaxFaults \* what can go wrong, and how often

ASSUME DeliveryAssumption ==
    /\ IsFiniteSet(Results) /\ Messages \subseteq Nat /\ Handlers \subseteq Nat
    /\ Nothing \notin Results \union Messages
    /\ MaxInflight \in Nat \ {0} /\ InboxAttempts \in Nat \ {0} /\ MaxFaults \in Nat

VARIABLES
    \* the agent
    task,       \* of each result: "none", "own" and "orphan" (its session is, is
                \* not the present one), "written" (to be sent), "done"
    copies,     \* the results the agent's spool holds
    sent,       \* what this session has on the wire
    owed,       \* what the offer under way has still to send
    \* the session
    link,       \* "down", "up", or "lost": the relay's half to the centre is gone
    wire,       \* messages on their way to the centre
    toRelay,    \* MessageAcks on their way
    toAgent,    \* TaskResultAcks on their way
    \* the relay
    msg,        \* the result a message carries
    held, kept, \* the records of the relay's spool, and those it answered for
    taken,      \* the messages that ever were one
    out,        \* the records sent and not yet timed out
    \* the panel
    inbox,      \* of a message: "none", "received", "applied", "dead"
    leased,     \* messages a delivery owns
    tries,
    at,         \* the message a handler works on
    step,       \* of each handler: "idle", "consume", "applied", "failed"
    stale,      \* handlers whose stream is gone
    answered,   \* results the panel recorded or refused for good
    \* history
    givenUp,    \* results the agent does not hold and said so
    lapsed,     \* messages a lease of which ran out
    faults

agent == <<task, copies, sent, owed>>
stream == <<link, wire, toRelay, toAgent>>
relay == <<msg, held, kept, taken, out>>
inboxVars == <<inbox, leased, tries, lapsed>>
handling == <<at, step, stale>>
vars == <<agent, stream, relay, inboxVars, handling, answered, givenUp, faults>>

Relay == INSTANCE RelayQueue

(* The database may fail once more than everything else.                    *)
Fault(kind) ==
    /\ kind \in Faults /\ faults < IF kind = "store" THEN MaxFaults + 1 ELSE MaxFaults
    /\ faults' = faults + 1

Init ==
    /\ task = [r \in Results |-> "none"] /\ copies = {} /\ sent = {} /\ owed = {}
    /\ link = "down" /\ wire = {} /\ toRelay = {} /\ toAgent = {}
    /\ msg = [m \in Messages |-> Nothing] /\ held = {} /\ kept = {} /\ taken = {} /\ out = {}
    /\ inbox = [m \in Messages |-> "none"] /\ leased = {} /\ lapsed = {}
    /\ tries = [m \in Messages |-> 0]
    /\ at = [h \in Handlers |-> Nothing] /\ step = [h \in Handlers |-> "idle"] /\ stale = {}
    /\ answered = {} /\ givenUp = {} /\ faults = 0

-----------------------------------------------------------------------------
(* The session.                                                             *)

Busy == {h \in Handlers : step[h] # "idle"}

(* A broken stream takes what is on it with it; a handler goes on without.  *)
StreamGone ==
    /\ wire' = {} /\ toRelay' = {} /\ toAgent' = {}
    /\ stale' = Busy /\ UNCHANGED <<at, step>>

Connects ==
    /\ link = "down" /\ link' = "up"
    /\ UNCHANGED <<agent, wire, toRelay, toAgent, relay, inboxVars, handling, answered, givenUp, faults>>

(* The agent's side of a session that ends: the offer stops, a task at work *)
(* goes on, and a send that was to come fails.                              *)
SessionEnds ==
    /\ link' = "down" /\ sent' = {} /\ owed' = {}
    /\ task' = [r \in Results |->
                 CASE task[r] = "own" -> "orphan" [] task[r] = "written" -> "done"
                   [] OTHER -> task[r]]
    /\ givenUp' = givenUp \union {r \in Results \ copies : task[r] = "written"}
    /\ StreamGone /\ UNCHANGED copies

(* The session breaks, or the relay ends the one whose centre is gone:      *)
(* Unsend, and the agent connects again.                                    *)
Breaks ==
    /\ \/ link # "down" /\ Fault("break")
       \/ link = "lost" /\ UNCHANGED faults
    /\ SessionEnds /\ out' = {}
    /\ UNCHANGED <<msg, held, kept, taken, inboxVars, answered>>

(* Only the relay's stream to the centre is gone; it goes on keeping what   *)
(* the agent sends.                                                         *)
CentreLost ==
    /\ link = "up" /\ Fault("lost") /\ link' = "lost" /\ StreamGone
    /\ UNCHANGED <<agent, relay, inboxVars, answered, givenUp>>

RelayRestarts ==
    /\ Fault("relay") /\ SessionEnds /\ out' = {}
    /\ \E back \in SUBSET taken : Relay!Restart(back)
    /\ UNCHANGED <<msg, inboxVars, answered>>

(* The tasks at work are gone; their results are the journal's matter       *)
(* (AgentTask).                                                             *)
AgentRestarts ==
    /\ Fault("agent") /\ link' = "down" /\ sent' = {} /\ owed' = {} /\ out' = {}
    /\ task' = [r \in Results |-> IF task[r] = "none" THEN "none" ELSE "done"]
    /\ givenUp' = givenUp \union {r \in Results \ copies : task[r] \notin {"none", "done"}}
    /\ StreamGone
    /\ UNCHANGED <<copies, msg, held, kept, taken, inboxVars, answered>>

-----------------------------------------------------------------------------
(* The agent.                                                               *)

Starts(r) ==
    /\ link = "up" /\ task[r] = "none" /\ task' = [task EXCEPT ![r] = "own"]
    /\ UNCHANGED <<copies, sent, owed, stream, relay, inboxVars, handling, answered, givenUp, faults>>

(* deliver, up to the send: the copy on disk comes first.                   *)
Finishes(r) ==
    /\ task[r] \in {"own", "orphan"}
    /\ task' = [task EXCEPT ![r] = IF @ = "own" THEN "written" ELSE "done"]
    /\ sent' = IF task[r] = "own" THEN sent \union {r} ELSE sent
    /\ \/ copies' = copies \union {r} /\ UNCHANGED <<givenUp, faults>>
       \/ /\ Fault("spool") /\ UNCHANGED copies
          /\ givenUp' = IF task[r] = "own" THEN givenUp ELSE givenUp \union {r}
    /\ UNCHANGED <<owed, stream, relay, inboxVars, handling, answered>>

Unused(m) ==
    /\ m \notin held \union wire \union toRelay
    /\ \A h \in Handlers : at[h] # m

(* The message goes to the relay, into its spool, and on to the centre      *)
(* while there is one (forward, keep).                                      *)
Carry(r, m) ==
    /\ \A n \in Messages \ taken : m <= n
    /\ msg' = [msg EXCEPT ![m] = r]
    /\ Relay!Take(m, TRUE)
    /\ IF link = "up" THEN wire' = wire \union {m} /\ out' = out \union {m}
       ELSE UNCHANGED <<wire, out>>
    /\ UNCHANGED <<link, toRelay, toAgent, inboxVars, handling, answered, faults>>

(* A number nobody will see again is free for another message.              *)
Retires(m) ==
    /\ m \in taken /\ Unused(m)
    /\ taken' = taken \ {m} /\ msg' = [msg EXCEPT ![m] = Nothing]
    /\ inbox' = [inbox EXCEPT ![m] = "none"] /\ tries' = [tries EXCEPT ![m] = 0]
    /\ leased' = leased \ {m} /\ lapsed' = lapsed \ {m}
    /\ UNCHANGED <<agent, stream, held, kept, out, handling, answered, givenUp, faults>>

(* The panel answers every result, so a send that succeeds frees nothing.   *)
ForgottenAfterSend(r) == copies \ {r}
KeptAfterSend(r) == copies

Sends(r, m) ==
    /\ task[r] = "written" /\ task' = [task EXCEPT ![r] = "done"]
    /\ Carry(r, m)
    /\ givenUp' = IF r \in copies THEN givenUp ELSE givenUp \union {r}
    /\ copies' = KeptAfterSend(r) /\ UNCHANGED <<sent, owed>>

(* offer: what is due is read once, then sent one by one.                   *)
OfferBegins ==
    /\ link # "down" /\ owed = {} /\ copies \ sent # {} /\ owed' = copies \ sent
    /\ UNCHANGED <<task, copies, sent, stream, relay, inboxVars, handling, answered, givenUp, faults>>

OfferSends(r, m) ==
    /\ r \in owed /\ owed' = owed \ {r} /\ sent' = sent \union {r}
    /\ Carry(r, m)
    /\ copies' = KeptAfterSend(r) /\ UNCHANGED <<task, givenUp>>

(* The relay does not take a durable message: the session ends.             *)
RelayRefuses ==
    /\ owed # {} \/ \E r \in Results : task[r] = "written"
    /\ Fault("full") /\ SessionEnds /\ out' = {}
    /\ UNCHANGED <<msg, held, kept, taken, inboxVars, answered>>

NeverDueAgain(r) == FALSE /\ UNCHANGED vars

RetryIsDue(r) ==
    /\ r \in sent /\ task[r] = "done" /\ r \notin owed /\ sent' = sent \ {r}
    /\ UNCHANGED <<task, copies, owed, stream, relay, inboxVars, handling, answered, givenUp, faults>>

(* acknowledge: each of the three answers frees the copy.                   *)
Answered(r) ==
    /\ r \in toAgent /\ toAgent' = toAgent \ {r}
    /\ copies' = copies \ {r} /\ sent' = sent \ {r}
    /\ UNCHANGED <<task, owed, link, wire, toRelay, relay, inboxVars, handling, answered, givenUp, faults>>

(* The lifetime of a copy runs out, or newer results need its room (expire, *)
(* evict).                                                                  *)
Expires(r) ==
    /\ r \in copies /\ Fault("age") /\ copies' = copies \ {r} /\ givenUp' = givenUp \union {r}
    /\ UNCHANGED <<task, sent, owed, stream, relay, inboxVars, handling, answered>>

-----------------------------------------------------------------------------
(* The relay.                                                               *)

(* flush: a record that waits, or whose acknowledgement is overdue, is sent.*)
Resends(m) ==
    /\ link = "up" /\ m \in held \ out /\ Cardinality(out) < MaxInflight
    /\ wire' = wire \union {m} /\ out' = out \union {m}
    /\ UNCHANGED <<agent, link, toRelay, toAgent, msg, held, kept, taken, inboxVars, handling, answered,
                   givenUp, faults>>

NeverOverdue(m) == FALSE /\ UNCHANGED vars

AckIsOverdue(m) ==
    /\ m \in out \ (wire \union toRelay) /\ out' = out \ {m}
    /\ UNCHANGED <<agent, stream, msg, held, kept, taken, inboxVars, handling, answered, givenUp, faults>>

FreedButUnderWay(m) ==
    /\ m \in toRelay /\ toRelay' = toRelay \ {m} /\ Relay!Free({m}) /\ UNCHANGED out
    /\ UNCHANGED <<agent, link, wire, toAgent, msg, inboxVars, handling, answered, givenUp, faults>>

(* pumpDown and acknowledge: the record goes on the panel's word.           *)
RelayFrees(m) ==
    /\ m \in toRelay /\ toRelay' = toRelay \ {m}
    /\ Relay!Free({m}) /\ out' = out \ {m}
    /\ UNCHANGED <<agent, link, wire, toAgent, msg, inboxVars, handling, answered, givenUp, faults>>

-----------------------------------------------------------------------------
(* The panel.  A stream is handled by one handler, a message at a time.     *)

Live(h) == h \notin stale

(* An answer of a handler reaches the relay and the agent only over the     *)
(* stream it came from.                                                     *)
TellRelay(h, m) == toRelay' = IF Live(h) THEN toRelay \union {m} ELSE toRelay
TellAgent(h, r) == toAgent' = IF Live(h) THEN toAgent \union {r} ELSE toAgent

Leaves(h) ==
    /\ at' = [at EXCEPT ![h] = Nothing] /\ step' = [step EXCEPT ![h] = "idle"]
    /\ stale' = stale \ {h}

Reads(h, m) ==
    /\ m \in wire /\ wire' = wire \ {m}
    /\ Busy \subseteq stale /\ h \notin Busy /\ \A g \in Handlers \ Busy : h <= g

(* lease: nobody owns the message, or the owner's time ran out.             *)
TakesUnfinished(m) == inbox[m] \in {"none", "received"}
MayTake(m) == inbox[m] = "none" \/ (inbox[m] = "received" /\ m \notin leased)

(* Claim: the delivery that gets the row applies the message.               *)
Claims(h, m) ==
    /\ Reads(h, m) /\ MayTake(m)
    /\ inbox' = [inbox EXCEPT ![m] = "received"] /\ leased' = leased \union {m}
    /\ at' = [at EXCEPT ![h] = m] /\ step' = [step EXCEPT ![h] = "consume"]
    /\ UNCHANGED <<agent, link, toRelay, toAgent, relay, tries, lapsed, stale, answered, givenUp, faults>>

Spent(m) == inbox[m] # "none"
Finished(m) == inbox[m] \in {"applied", "dead"}

(* A message applied or set aside before is acknowledged, one another       *)
(* delivery owns is not.                                                    *)
SetsAside(h, m) ==
    /\ Reads(h, m) /\ ~MayTake(m)
    /\ IF Finished(m) THEN TellRelay(h, m) ELSE UNCHANGED toRelay
    /\ UNCHANGED <<agent, link, toAgent, relay, inboxVars, handling, answered, givenUp, faults>>

(* recordTaskResult: an open result is recorded or refused for good, and    *)
(* whatever it is now is the answer; or the statement fails.                *)
Consumes(h) ==
    /\ step[h] = "consume"
    /\ LET r == msg[at[h]] IN
       \/ /\ step' = [step EXCEPT ![h] = "applied"]
          /\ answered' = answered \union {r} /\ TellAgent(h, r) /\ UNCHANGED faults
       \/ /\ step' = [step EXCEPT ![h] = "failed"]
          /\ (h \in stale /\ UNCHANGED faults) \/ Fault("store")
          /\ UNCHANGED <<answered, toAgent>>
    /\ UNCHANGED <<agent, link, wire, toRelay, relay, inboxVars, at, stale, givenUp>>

(* noteRelayApplied and the acknowledgement; the note may not be written.   *)
NotesApplied(h) ==
    /\ step[h] = "applied"
    /\ \/ /\ inbox' = [inbox EXCEPT ![at[h]] = "applied"] /\ leased' = leased \ {at[h]}
          /\ UNCHANGED faults
       \/ Fault("store") /\ UNCHANGED <<inbox, leased>>
    /\ TellRelay(h, at[h]) /\ Leaves(h)
    /\ UNCHANGED <<agent, link, wire, toAgent, relay, tries, lapsed, answered, givenUp>>

(* noteRelayFailure: one attempt more, and the lease goes with it, whoever  *)
(* owns it by now.                                                          *)
NotesFailure(h) ==
    /\ step[h] = "failed"
    /\ LET m == at[h]
           last == tries[m] + 1 >= InboxAttempts
       IN \/ /\ tries' = [tries EXCEPT ![m] = IF last THEN @ ELSE @ + 1]
             /\ leased' = leased \ {m}
             /\ inbox' = [inbox EXCEPT ![m] = IF last THEN "dead" ELSE @]
             /\ IF last THEN TellRelay(h, m) ELSE UNCHANGED toRelay
             /\ UNCHANGED faults
          \/ Fault("store") /\ UNCHANGED <<tries, leased, inbox, toRelay>>
    /\ Leaves(h)
    /\ UNCHANGED <<agent, link, wire, toAgent, relay, lapsed, answered, givenUp>>

(* The gateway stops between two steps of a delivery.                       *)
GatewayStops(h) ==
    /\ step[h] # "idle" /\ Fault("gateway")
    /\ at' = [at EXCEPT ![h] = Nothing] /\ step' = [step EXCEPT ![h] = "idle"]
    /\ IF Live(h)
       THEN /\ link' = "lost" /\ wire' = {} /\ toRelay' = {} /\ toAgent' = {}
            /\ stale' = Busy \ {h}
       ELSE /\ UNCHANGED stream /\ stale' = stale \ {h}
    /\ UNCHANGED <<agent, relay, inboxVars, answered, givenUp>>

(* The lease of a delivery that is gone runs out, or that of one at work.   *)
LeaseLapses(m) ==
    /\ m \in leased /\ leased' = leased \ {m}
    /\ IF \E h \in Handlers : at[h] = m
       THEN Fault("slow") /\ lapsed' = lapsed \union {m}
       ELSE UNCHANGED <<lapsed, faults>>
    /\ UNCHANGED <<agent, stream, relay, inbox, tries, handling, answered, givenUp>>

-----------------------------------------------------------------------------
AgentStep ==
    \/ OfferBegins
    \/ \E r \in Results : Starts(r) \/ Finishes(r) \/ RetryIsDue(r) \/ Answered(r) \/ Expires(r)
    \/ \E r \in Results, m \in Messages : Sends(r, m) \/ OfferSends(r, m)

SessionStep ==
    Connects \/ Breaks \/ CentreLost \/ RelayRestarts \/ AgentRestarts \/ RelayRefuses

RelayStep ==
    \E m \in Messages : Resends(m) \/ AckIsOverdue(m) \/ RelayFrees(m) \/ Retires(m)

PanelStep ==
    \/ \E h \in Handlers, m \in Messages : Claims(h, m) \/ SetsAside(h, m)
    \/ \E h \in Handlers : Consumes(h) \/ NotesApplied(h) \/ NotesFailure(h) \/ GatewayStops(h)
    \/ \E m \in Messages : LeaseLapses(m)

Next == AgentStep \/ SessionStep \/ RelayStep \/ PanelStep

Spec == Init /\ [][Next]_vars

(* Loops and timers run, streams are read, statements end and the agent     *)
(* connects again; nothing says that a task is started or that a fault      *)
(* happens.                                                                 *)
Fairness ==
    /\ WF_vars(Connects) /\ WF_vars(link = "lost" /\ Breaks) /\ WF_vars(OfferBegins)
    /\ \A r \in Results :
        /\ WF_vars(Finishes(r)) /\ WF_vars(RetryIsDue(r)) /\ WF_vars(Answered(r))
        /\ WF_vars(\E m \in Messages : Sends(r, m)) /\ WF_vars(\E m \in Messages : OfferSends(r, m))
    /\ \A m \in Messages :
        /\ WF_vars(Resends(m)) /\ WF_vars(AckIsOverdue(m)) /\ WF_vars(RelayFrees(m))
        /\ WF_vars(Retires(m)) /\ WF_vars(LeaseLapses(m))
        /\ WF_vars(\E h \in Handlers : Claims(h, m) \/ SetsAside(h, m))
    /\ \A h \in Handlers :
        WF_vars(Consumes(h)) /\ WF_vars(NotesApplied(h)) /\ WF_vars(NotesFailure(h))

FairSpec == Spec /\ Fairness
-----------------------------------------------------------------------------
TypeOK ==
    /\ task \in [Results -> {"none", "own", "orphan", "written", "done"}]
    /\ copies \subseteq Results /\ sent \subseteq Results /\ owed \subseteq Results
    /\ link \in {"down", "up", "lost"}
    /\ wire \subseteq Messages /\ toRelay \subseteq Messages /\ toAgent \subseteq Results
    /\ msg \in [Messages -> Results \union {Nothing}]
    /\ kept \subseteq held /\ held \subseteq taken /\ taken \subseteq Messages /\ out \subseteq held
    /\ inbox \in [Messages -> {"none", "received", "applied", "dead"}]
    /\ leased \subseteq Messages /\ lapsed \subseteq Messages
    /\ tries \in [Messages -> 0..InboxAttempts]
    /\ at \in [Handlers -> Messages \union {Nothing}]
    /\ step \in [Handlers -> {"idle", "consume", "applied", "failed"}]
    /\ stale \subseteq Handlers
    /\ answered \subseteq Results
    /\ givenUp \subseteq Results /\ faults \in 0..MaxFaults + 1

(* The agent lets go of the only copy of a result when the panel has it or  *)
(* refused it for good, and never because it was sent, kept by a relay,     *)
(* applied elsewhere or set aside: what it gives up by itself, for its age, *)
(* for room or for a failed write, it says (resultdelivery.go, acknowledge).*)
FreedWhenAnswered ==
    \A r \in Results :
        task[r] = "done" /\ r \notin copies => r \in answered \union givenUp

(* A relay lets go of a message when the panel has answered what it carries *)
(* or has set the message aside, whatever restarts and redeliveries were in *)
(* between (relay.go, acknowledge; relay_envelope.go, Claim).               *)
RelayFreesTheConsumed ==
    \A m \in taken \ held : inbox[m] = "dead" \/ msg[m] \in answered

(* Two deliveries of one message are at work on it at a time only after a   *)
(* lease of it ran out (relay_envelope.go, lease).                          *)
OneOwner ==
    \A g, h \in Handlers :
        g # h /\ step[g] = "consume" /\ step[h] = "consume" /\ at[g] = at[h]
            => at[g] \in lapsed

(* Every result the agent holds is answered in the end: a lost session, a   *)
(* lost answer, a relay or a gateway that starts again and a message set    *)
(* aside only delay it (watch, offer, flush).                               *)
EveryResultIsAnswered == \A r \in Results : r \in copies ~> r \notin copies

(* A relay does not carry a message for ever.                               *)
RelayDrains == \A m \in Messages : m \in held ~> m \notin held
=============================================================================
