-------------------------- MODULE MCCloudhookLife --------------------------
(***************************************************************************)
(* Small instances of CloudhookLife for TLC.                               *)
(***************************************************************************)
EXTENDS CloudhookLife, TLC

CONSTANTS e1, e2, e3

ThreeEntries == {e1, e2, e3}

\* Entries are interchangeable.
EntrySymmetry == Permutations(Entries)

=============================================================================
