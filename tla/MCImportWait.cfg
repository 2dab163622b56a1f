SPECIFICATION Spec
CONSTANTS
    Unset = ""
    Run = {r1}
    Envs <- WaitEnvs
    MaxFaults = 0
PROPERTIES
    WaitEnds
CHECK_DEADLOCK FALSE
