----------------------------- MODULE RelayQueue -----------------------------
(***************************************************************************)
(* What the spool of a relay promises to the sessions that use it: a       *)
(* message it said it kept is held until it is freed, over every restart.  *)
(* It promises no more: a message taken without that word may be gone      *)
(* after a restart, and one that was freed may be back.                    *)
(***************************************************************************)
CONSTANT Messages

VARIABLES held,         \* the messages the spool would deliver
          kept,         \* those of them it answered for
          taken         \* every message it ever wrote

rqVars == <<held, kept, taken>>

QueueInit == held = {} /\ kept = {} /\ taken = {}

Take(m, word) ==
    /\ m \notin taken
    /\ taken' = taken \union {m} /\ held' = held \union {m}
    /\ kept' = IF word THEN kept \union {m} ELSE kept

Free(S) == held' = held \ S /\ kept' = kept \ S /\ UNCHANGED taken

Restart(back) ==
    /\ kept \subseteq back /\ back \subseteq taken
    /\ held' = back /\ UNCHANGED <<kept, taken>>

QueueNext ==
    \/ \E m \in Messages, word \in BOOLEAN : Take(m, word)
    \/ \E S \in SUBSET held : Free(S)
    \/ \E back \in SUBSET taken : Restart(back)

QueueSpec == QueueInit /\ [][QueueNext]_rqVars
=============================================================================
