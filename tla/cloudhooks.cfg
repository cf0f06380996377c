SPECIFICATION Spec
CONSTANTS
    e1 = e1
    e2 = e2
    e3 = e3
    None = None
    Entries <- ThreeEntries
    MaxIds = 2
    MaxHooks = 3
    MaxFailures = 1
    MaxRestarts = 1
CHECK_DEADLOCK FALSE
SYMMETRY EntrySymmetry
INVARIANTS
    SerialUrlAnswers
    SerialUserKnowsUrl
    HookIsUsed
