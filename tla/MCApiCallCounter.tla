-------------------------- MODULE MCApiCallCounter --------------------------
(***************************************************************************)
(* Small instances of ApiCallCounter for TLC.                              *)
(***************************************************************************)
EXTENDS ApiCallCounter, TLC

CONSTANTS e1, e2, k1, k2, k3

TwoEntries == {e1, e2}
TwoCounters == {k1, k2}
ThreeCounters == {k1, k2, k3}

\* Entries and counters are interchangeable.
SlotSymmetry == Permutations(Entries) \cup Permutations(Counters)

=============================================================================
