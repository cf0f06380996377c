-------------------------- MODULE MCConfigEntries --------------------------
(***************************************************************************)
(* A small instance of ConfigEntries for TLC.                              *)
(***************************************************************************)
EXTENDS ConfigEntries

CONSTANTS a, b

TwoEntries == 1..2
TwoOptions == {a, b}

=============================================================================
