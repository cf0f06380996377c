--------------------------- MODULE CommandExchange ---------------------------
(***************************************************************************)
(* What a Bluetooth session promises to those who use it (the docstrings   *)
(* of LockSession and async_command_session in ble.py), without bytes,     *)
(* frames, turns or a link: one command is out at a time, each gets one    *)
(* reply or fails, the reply is its own unless something disturbed the     *)
(* session, and no command is left out when the session is closed.         *)
(***************************************************************************)
CONSTANTS
    Callers,
    Kind,      \* kinds of replies
    Answer,    \* the one that each caller's command asks for
    NoCaller

VARIABLES
    open,      \* is there a session
    out,       \* whose command is out
    result,    \* what came of each caller's command
    disturbed  \* has the lock sent something unasked, or kept somebody waiting

vars == <<open, out, result, disturbed>>

NoResults == [c \in Callers |-> "none"]

Init ==
    /\ open = FALSE
    /\ out = NoCaller
    /\ result = NoResults
    /\ disturbed = FALSE

Open ==
    /\ ~open /\ open' = TRUE
    /\ result' = NoResults
    /\ disturbed' = FALSE
    /\ UNCHANGED out

Ask(c) ==
    /\ open /\ out = NoCaller /\ result[c] = "none"
    /\ out' = c
    /\ UNCHANGED <<open, result, disturbed>>

Ends(c, what) ==
    /\ out = c /\ out' = NoCaller
    /\ result' = [result EXCEPT ![c] = what]
    /\ UNCHANGED open

Reply(c) ==
    /\ \E reply \in IF disturbed THEN Kind \cup {"garbled"} ELSE {Answer[c]} :
          Ends(c, reply)
    /\ UNCHANGED disturbed

Fail(c) == Ends(c, "failed") /\ UNCHANGED disturbed

TimeOut(c) == Ends(c, "silent") /\ disturbed' = TRUE

\* Whoever has no result yet is told so.
Cancel ==
    /\ open
    /\ out' = NoCaller
    /\ result' = [c \in Callers |-> IF result[c] = "none" THEN "cancelled" ELSE result[c]]
    /\ UNCHANGED <<open, disturbed>>

Disturb == disturbed' = TRUE /\ UNCHANGED <<open, out, result>>

Close ==
    /\ open /\ open' = FALSE
    /\ out = NoCaller
    /\ UNCHANGED <<out, result, disturbed>>

Next ==
    \/ Open \/ Close \/ Cancel \/ Disturb
    \/ \E c \in Callers : Ask(c) \/ Reply(c) \/ Fail(c) \/ TimeOut(c)

Spec == Init /\ [][Next]_vars

=============================================================================
