--------------------------- MODULE ConversationLog ---------------------------
(***************************************************************************)
(* What the conversation memory promises a reader of GET /v1/history: an   *)
(* append-only log of sessions and answered turns, in which a turn either  *)
(* answers a fresh question or corrects one earlier answer of its own      *)
(* session that is not a correction itself.  ConversationFlow, with its    *)
(* threads, separate transactions and outages, implements this log.        *)
(***************************************************************************)
EXTENDS Naturals, Sequences

CONSTANT Tenants

VARIABLES
    sessions,   \* the tenant of each session, in order of creation
    turns       \* the recorded turns, in id order

logVars == <<sessions, turns>>

Init == sessions = <<>> /\ turns = <<>>

OpenSession(t) ==
    /\ sessions' = Append(sessions, t)
    /\ UNCHANGED turns

\* A fresh answer (previous = 0), or the correction of an earlier one.
Corrects(s, previous) ==
    \/ previous = 0
    \/ /\ previous \in 1..Len(turns)
       /\ turns[previous].session = s
       /\ turns[previous].supersedes = 0

Record(s, previous) ==
    /\ Corrects(s, previous)
    /\ turns' = Append(turns, [tenant |-> sessions[s], session |-> s,
                               supersedes |-> previous])
    /\ UNCHANGED sessions

Next ==
    \/ \E t \in Tenants : OpenSession(t)
    \/ \E s \in 1..Len(sessions), previous \in 0..Len(turns) : Record(s, previous)

Spec == Init /\ [][Next]_logVars
=============================================================================
