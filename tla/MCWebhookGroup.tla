--------------------------- MODULE MCWebhookGroup ---------------------------
(***************************************************************************)
(* Small instances of WebhookGroup for TLC.                                *)
(***************************************************************************)
EXTENDS WebhookGroup, TLC

CONSTANTS a, b, c

TwoEntries == 1..2
ThreeIds == {a, b, c}

\* Webhook ids are interchangeable.
IdSymmetry == Permutations(Ids)

=============================================================================
