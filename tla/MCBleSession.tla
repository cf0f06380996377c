---------------------------- MODULE MCBleSession ----------------------------
(***************************************************************************)
(* Small frames and sessions of BleSession for TLC.  The data of "event"   *)
(* begins like a frame that is longer than what is left of it.             *)
(***************************************************************************)
EXTENDS BleSession

CONSTANTS c1, c2, none

OneCaller == {c1}
TwoCallers == {c1, c2}
AnswerOfOne == [c \in {c1} |-> "status"]
AnswerOfTwo == [c \in {c1, c2} |-> IF c = c1 THEN "status" ELSE "features"]

Kinds == {"status", "features", "event"}
ShortMagic == <<1, 2>>
ShortImage == [k \in Kinds |-> IF k = "event" THEN <<1, 2, 4, 1, 2, 3, 0, 3>>
                               ELSE <<1, 2, 1, 0, 3>>]

=============================================================================
