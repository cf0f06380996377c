--------------------------- MODULE MCPollSchedule ---------------------------
(***************************************************************************)
(* A small instance of PollSchedule for TLC.                               *)
(***************************************************************************)
EXTENDS PollSchedule

CONSTANT l1

OneLock == {l1}

\* Slow intervals that are a multiple of the poll interval, that are not, and
\* that are shorter; then no schedule, and no state but from webhooks.
SomeSettings ==
    LET Usual(poll, slow) == [poll |-> poll, slow |-> slow, gateway |-> 3,
                              manual |-> FALSE, only |-> FALSE, status |-> FALSE]
    IN  {Usual(2, 4), Usual(2, 5), Usual(3, 2),
         [Usual(2, 4) EXCEPT !.manual = TRUE],
         [Usual(2, 4) EXCEPT !.only = TRUE, !.status = TRUE],
         [Usual(2, 5) EXCEPT !.only = TRUE]}

=============================================================================
