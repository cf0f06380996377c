------------------------- MODULE MCLockCoordinator -------------------------
(***************************************************************************)
(* Small instances of LockCoordinator for TLC.                             *)
(***************************************************************************)
EXTENDS LockCoordinator

CONSTANTS p1, c1, r1

OnePoll == {p1}
OneCommand == {c1}
OneRefresh == {r1}
NoTask == {}

CodesOnly == {"codes"}
AllButCodes == Tiers \ {"codes"}

\* A coordinator in operation: since Init one poll, with nothing else in progress,
\* has read the position and fetched the codes, and the slow interval has elapsed.
WarmInit ==
    /\ bolt \in Position /\ cloud = [t \in Tiers |-> "off"]
    /\ data = [NoData EXCEPT !.locked = bolt, !.config.codes = cloud.codes]
    /\ stamp = [t \in Tiers |-> IF t = "codes" THEN "old" ELSE "never"]
    /\ ok = TRUE
    /\ polls = [p \in Polls |-> IdlePoll]
    /\ commands = [c \in Commands |-> IdleCommand]
    /\ refreshes = [r \in Refreshes |-> IdleRefresh]
    /\ gw = {} /\ timers = 0 /\ mail = [k \in Kind |-> 0]
    /\ turns = 0 /\ faults = 0 /\ edits = 0
    /\ seen = {bolt} \cap {"unlocked"} /\ overlap = FALSE

WarmSpec == WarmInit /\ [][Next]_vars

=============================================================================
