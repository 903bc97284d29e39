------------------------------ MODULE AgentTask ------------------------------
(***************************************************************************)
(* One operation on its host (internal/agent): the panel delivers it under *)
(* one idempotency key as often as it has to, every delivery an attempt    *)
(* with a goroutine of its own; the journal on disk keeps the marker of a  *)
(* mutation under way and the result of a finished one; a cancel is        *)
(* answered from what the process remembers; the process may die anywhere. *)
(*                                                                         *)
(* The operation is a mutation: a read leaves no marker and may run again. *)
(* A write of the journal is one step, temporary file and rename, or fails *)
(* and leaves it as it was.                                                *)
(***************************************************************************)
EXTENDS Integers

CONSTANT MaxAttempts    \* bound: how often the panel delivers the operation

ASSUME BoundsAssumption == MaxAttempts \in Nat

VARIABLES
    \* on disk: the result (None: there is none) and the attempt of the marker
    journal, marker,
    \* in memory: the attempt that holds the key and the newest one delivered
    \* since, the phase of each attempt, the attempts a cancel reached before
    \* their start, and those it reached before their delivery
    running, latest, phase, canceled, refused,
    \* of each attempt: where its goroutine is, whether its session ended, the
    \* result it holds, and the attempt owed a copy of it
    pc, orphaned, answer, owed,
    \* what left the host: results and answers to cancels
    results, acks,
    \* the host: the attempts that began the change
    begun

diskVars == <<journal, marker>>
memoryVars == <<running, latest, phase, canceled, refused>>
workerVars == <<pc, orphaned, answer, owed>>
sentVars == <<results, acks>>
vars == <<diskVars, memoryVars, workerVars, sentVars, begun>>

Attempts == 1..MaxAttempts
Nobody == 0
None == "none"

(* "rejected" stands for every refusal and failure before the change that is *)
(* kept in the journal, "busy" and "canceled" for the two that are not.      *)
Kept == {"done", "failed", "rejected", "unknown"}
Outcomes == Kept \union {"busy", "canceled", "error"}
Phases == {None, "accepted", "mutating", "done", "before_restart"}
Places == {None, "received", "claimed", "entered", "checking", "cleared", "marked",
           "mutating", "performing", "ending", "settled", "returned", "over"}
Working == Places \ {None, "received", "returned", "over"}

TypeOK ==
    /\ journal \in Kept \union {None} /\ marker \in Attempts \union {Nobody}
    /\ running \in Attempts \union {Nobody} /\ latest \in Attempts \union {Nobody}
    /\ phase \in [Attempts -> Phases]
    /\ canceled \subseteq Attempts /\ refused \subseteq Attempts
    /\ pc \in [Attempts -> Places] /\ orphaned \subseteq Attempts
    /\ answer \in [Attempts -> Outcomes \union {None}]
    /\ owed \in [Attempts -> Attempts \union {Nobody}]
    /\ results \subseteq Attempts \X Outcomes
    /\ acks \subseteq Attempts \X {"not_started", "not_interruptible", "already_done"}
    /\ begun \subseteq Attempts

Init ==
    /\ journal = None /\ marker = Nobody
    /\ running = Nobody /\ latest = Nobody
    /\ phase = [a \in Attempts |-> None]
    /\ canceled = {} /\ refused = {}
    /\ pc = [a \in Attempts |-> None] /\ orphaned = {}
    /\ answer = [a \in Attempts |-> None] /\ owed = [a \in Attempts |-> Nobody]
    /\ results = {} /\ acks = {}
    /\ begun = {}

Goto(a, from, to) == pc[a] = from /\ pc' = [pc EXCEPT ![a] = to]

----------------------------------------------------------------------------
(* A delivery. *)

Receive(a) ==
    /\ \A b \in 1..(a - 1) : pc[b] # None
    /\ Goto(a, None, "received")
    /\ UNCHANGED <<diskVars, memoryVars, orphaned, answer, owed, sentVars, begun>>

(* Redelivered, or the claim of Execute: the key is running, the attempt is *)
(* answered as in progress and noted for a copy of the result.              *)
AcknowledgeRunning(a) ==
    /\ Goto(a, "received", "over")
    /\ running # Nobody /\ latest' = a
    /\ UNCHANGED <<diskVars, running, phase, canceled, refused, orphaned,
                   answer, owed, sentVars, begun>>

Claim(a) ==
    /\ Goto(a, "received", "claimed")
    /\ running = Nobody /\ running' = a /\ latest' = Nobody
    /\ UNCHANGED <<diskVars, phase, canceled, refused, orphaned, answer,
                   owed, sentVars, begun>>

(* A result the journal does not keep. *)
Ends(a, outcome) ==
    /\ pc' = [pc EXCEPT ![a] = "settled"]
    /\ answer' = [answer EXCEPT ![a] = outcome]

Enter(a) ==
    /\ pc[a] = "claimed"
    /\ phase' = [phase EXCEPT ![a] = "accepted"]
    /\ refused' = refused \ {a}
    /\ canceled' = IF a \in refused THEN canceled \union {a} ELSE canceled
    /\ IF a \in refused
       THEN Ends(a, "canceled")
       ELSE Goto(a, "claimed", "entered") /\ UNCHANGED answer
    /\ UNCHANGED <<diskVars, running, latest, orphaned, owed, sentVars, begun>>

(* A result that Settle is to keep. *)
EndsWith(a, outcome) ==
    /\ pc' = [pc EXCEPT ![a] = "ending"]
    /\ answer' = [answer EXCEPT ![a] = outcome]

LookupAlone(a) ==
    /\ pc[a] = "entered"
    /\ IF journal # None THEN Ends(a, journal)
       ELSE pc' = [pc EXCEPT ![a] = "checking"] /\ UNCHANGED answer
    /\ UNCHANGED <<diskVars, memoryVars, orphaned, owed, sentVars, begun>>

MarkerFirst(a) ==
    /\ pc[a] = "entered"
    /\ CASE marker # Nobody -> EndsWith(a, "unknown")
         [] marker = Nobody /\ journal # None -> Ends(a, journal)
         [] OTHER -> pc' = [pc EXCEPT ![a] = "checking"] /\ UNCHANGED answer
    /\ UNCHANGED <<diskVars, memoryVars, orphaned, owed, sentVars, begun>>

(* The result of an earlier attempt is returned again; a marker without one *)
(* is an operation a process did not survive.                               *)
Lookup(a) ==
    /\ pc[a] = "entered"
    /\ CASE journal # None -> Ends(a, journal)
         [] journal = None /\ marker # Nobody -> EndsWith(a, "unknown")
         [] OTHER -> pc' = [pc EXCEPT ![a] = "checking"] /\ UNCHANGED answer
    /\ UNCHANGED <<diskVars, memoryVars, orphaned, owed, sentVars, begun>>

----------------------------------------------------------------------------
(* run *)

(* The deadline, the preconditions, the capability or the hash, before or   *)
(* after the wait for the resources of the host.                            *)
Reject(a) ==
    /\ pc[a] = "checking" /\ EndsWith(a, "rejected")
    /\ UNCHANGED <<diskVars, memoryVars, orphaned, owed, sentVars, begun>>

(* admit: the wait ends with the resources, with a cancel, with a refusal ... *)
Admit(a) ==
    /\ \/ a \notin canceled /\ Goto(a, "checking", "cleared") /\ UNCHANGED answer
       \/ a \in canceled /\ pc[a] = "checking" /\ Ends(a, "canceled")
       \/ pc[a] = "checking" /\ Ends(a, "busy")
    /\ UNCHANGED <<diskVars, memoryVars, orphaned, owed, sentVars, begun>>

(* ... or with the session: an abandoned task answers nobody, not even the   *)
(* delivery that was noted while it waited.                                  *)
Abandon(a) ==
    /\ a \in orphaned \ canceled /\ Goto(a, "checking", "over")
    /\ phase' = [phase EXCEPT ![a] = "done"]
    /\ running' = Nobody /\ latest' = Nobody
    /\ UNCHANGED <<diskVars, canceled, refused, orphaned, answer, owed, sentVars, begun>>

(* Without its marker the change is not begun. *)
MarkInFlight(a) ==
    /\ \/ Goto(a, "cleared", "marked") /\ marker' = a /\ UNCHANGED answer
       \/ pc[a] = "cleared" /\ EndsWith(a, "rejected") /\ UNCHANGED marker
    /\ UNCHANGED <<journal, memoryVars, orphaned, owed, sentVars, begun>>

Start(a) ==
    /\ Goto(a, "marked", "mutating")
    /\ phase' = [phase EXCEPT ![a] = "mutating"]
    /\ UNCHANGED <<diskVars, running, latest, canceled, refused, orphaned,
                   answer, owed, sentVars, begun>>

(* The helper is asked and begins, or refuses; a context that a cancel or the *)
(* end of the session closed refuses as well.                                *)
Perform(a) ==
    /\ \/ Goto(a, "mutating", "performing") /\ begun' = begun \union {a} /\ UNCHANGED answer
       \/ pc[a] = "mutating" /\ EndsWith(a, "failed") /\ UNCHANGED begun
    /\ UNCHANGED <<diskVars, memoryVars, orphaned, owed, sentVars>>

Verify(a) ==
    /\ pc[a] = "performing" /\ \E outcome \in {"done", "failed"} : EndsWith(a, outcome)
    /\ UNCHANGED <<diskVars, memoryVars, orphaned, owed, sentVars, begun>>

(* Store writes the result, then removes the marker; either may fail. *)
Store(outcome) ==
    \/ journal' = outcome /\ marker' = Nobody
    \/ journal' = outcome /\ UNCHANGED marker
    \/ UNCHANGED diskVars

Settle(a) ==
    /\ Goto(a, "ending", "settled")
    /\ Store(answer[a])
    /\ UNCHANGED <<memoryVars, orphaned, answer, owed, sentVars, begun>>

(* A panic: the deferred steps of Execute settle what the marker names. *)
Panic(a) ==
    /\ pc[a] \in {"checking", "cleared", "marked", "mutating", "performing"}
    /\ Ends(a, "error")
    /\ IF marker # Nobody THEN Store("unknown") ELSE UNCHANGED diskVars
    /\ UNCHANGED <<memoryVars, orphaned, owed, sentVars, begun>>

KeepsTheKey(a) ==
    /\ Goto(a, "settled", "returned")
    /\ phase' = [phase EXCEPT ![a] = "done"]
    /\ running' = IF answer[a] = "error" THEN running ELSE Nobody
    /\ owed' = [owed EXCEPT ![a] = latest]
    /\ UNCHANGED <<diskVars, latest, canceled, refused, orphaned, answer,
                   sentVars, begun>>

(* The attempt is done, the key free, a copy owed to the newest delivery.   *)
Return(a) ==
    /\ Goto(a, "settled", "returned")
    /\ phase' = [phase EXCEPT ![a] = "done"]
    /\ running' = Nobody /\ latest' = Nobody
    /\ owed' = [owed EXCEPT ![a] = latest]
    /\ UNCHANGED <<diskVars, canceled, refused, orphaned, answer,
                   sentVars, begun>>

Deliver(a) ==
    /\ Goto(a, "returned", "over")
    /\ results' = results \union ({a, owed[a]} \ {Nobody}) \X {answer[a]}
    /\ UNCHANGED <<diskVars, memoryVars, orphaned, answer, owed, acks, begun>>

----------------------------------------------------------------------------
(* Cancels, sessions and processes. *)

(* The attempt that does the work behind a task id. *)
Origin(a) == IF running # Nobody /\ a \in {running, latest} THEN running ELSE a

CancelTask(a) ==
    LET t == Origin(a) IN
    /\ CASE phase[t] = None ->
              /\ refused' = refused \union {t} /\ UNCHANGED canceled
              /\ acks' = acks \union {<<a, "not_started">>}
         [] phase[t] = "accepted" ->
              /\ canceled' = canceled \union {t} /\ UNCHANGED refused
              /\ acks' = acks \union {<<a, "not_started">>}
         [] phase[t] = "done" ->
              UNCHANGED <<refused, canceled>> /\ acks' = acks \union {<<a, "already_done">>}
         [] OTHER ->
              UNCHANGED <<refused, canceled>> /\ acks' = acks \union {<<a, "not_interruptible">>}
    /\ UNCHANGED <<diskVars, running, latest, phase, workerVars, results, begun>>

SessionEnds ==
    /\ orphaned' = {a \in Attempts : pc[a] \in Working \union {"received"}}
    /\ UNCHANGED <<diskVars, memoryVars, pc, answer, owed, sentVars, begun>>

(* The process dies and starts again: what it remembers comes from the      *)
(* marker (reportInFlight).                                                 *)
Restart ==
    /\ running' = Nobody /\ latest' = Nobody
    /\ phase' = [a \in Attempts |-> IF a = marker THEN "before_restart" ELSE None]
    /\ canceled' = {} /\ refused' = {}
    /\ pc' = [a \in Attempts |-> IF pc[a] = None THEN None ELSE "over"]
    /\ orphaned' = {}
    /\ UNCHANGED <<diskVars, answer, owed, sentVars, begun>>

Works(a) ==
    \/ Enter(a) \/ Lookup(a) \/ Reject(a) \/ Admit(a) \/ Abandon(a) \/ MarkInFlight(a)
    \/ Start(a) \/ Perform(a) \/ Verify(a) \/ Settle(a) \/ Panic(a) \/ Return(a) \/ Deliver(a)

Next ==
    \/ \E a \in Attempts :
          \/ Receive(a) \/ AcknowledgeRunning(a) \/ Claim(a) \/ Works(a)
          \/ CancelTask(a)
    \/ SessionEnds \/ Restart

Spec == Init /\ [][Next]_vars

(* A goroutine goes on: the resources it waits for are given back by other  *)
(* tasks or refused, and the calls of the helper have a limit.              *)
FairSpec == Spec /\ \A a \in Attempts : WF_vars(Works(a))

----------------------------------------------------------------------------
(* The host makes the change at most once, however often the panel delivers *)
(* it, wherever the process dies and whichever write of the journal fails   *)
(* (Execute: "instead of performing the mutation a second time").           *)
AtMostOnce == \A a, b \in begun : a = b

WritesOnce == journal # None => journal' = journal

(* The first result the journal keeps stands: every later delivery is       *)
(* answered with it and none replaces it (settle, Lookup).                  *)
FirstResultStands == [][WritesOnce]_vars

(* The key is given back whatever becomes of the task, so that no delivery  *)
(* is answered as in progress for ever (the deferred release of Execute).   *)
KeyIsFreed == running # Nobody ~> running = Nobody
=============================================================================
