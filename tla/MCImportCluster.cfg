SPECIFICATION Spec
CONSTANTS
    Unset = ""
    Run = {r1, r2}
    Envs <- MCEnvs
    MaxFaults = 1
INVARIANTS
    ClassesBacked
    MonitorsKnown
    CompleteWhenDone
PROPERTIES
    NothingReplaced
    PlainCompletes
CHECK_DEADLOCK FALSE
