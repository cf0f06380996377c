-------------------------- MODULE MCCodeManagement --------------------------
(***************************************************************************)
(* A small instance of CodeManagement for TLC.                             *)
(***************************************************************************)
EXTENDS CodeManagement, TLC

CONSTANTS l1, l2, p1, p2, k1, call, panel

TwoLocks == {l1, l2}
TwoPins == {p1, p2}
OneKey == {k1}
OneCall == {call}
OnePanel == {panel}
SomeSelections == {<<l1>>, <<l1, l2>>, <<l2, l2>>}

\* The second lock has a code that lasts and one that has passed, the first one
\* the eKey; or there is nothing but what has passed.
SomeClouds ==
    {[pins |-> (p1 :> pin @@ p2 :> Of(l2, "passed")),
      keys |-> [k \in Keys |-> IF pin = None THEN None ELSE Of(l1, "normal")],
      setting |-> [l \in Locks |-> "off"]] : pin \in {None, Of(l2, "lasting")}}

=============================================================================
