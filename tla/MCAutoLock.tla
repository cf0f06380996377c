----------------------------- MODULE MCAutoLock -----------------------------
(***************************************************************************)
(* Small instances of AutoLock for TLC.                                    *)
(***************************************************************************)
EXTENDS AutoLock

SomeSkews == {-1, 0, 1}

\* What the service is called with: off; a period within every day, or on one
\* day, up to its last minute; one that ends before it starts; all day, on every
\* day or on one.
Period(start, end, days) == [enabled |-> TRUE, allDay |-> FALSE, start |-> start,
                             end |-> end, days |-> days]
AllDay(days) == [Period(0, 0, days) EXCEPT !.allDay = TRUE]
SomeConfigs ==
    {[Period(0, 0, WeekDay) EXCEPT !.enabled = FALSE],
     Period(1, 3, WeekDay), Period(2, DayLength - 1, {2}), Period(3, 1, WeekDay),
     AllDay(WeekDay), AllDay({1})}

=============================================================================
