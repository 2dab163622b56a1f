SPECIFICATION Spec
CONSTANTS
    MaxReboots = 2
    MaxInstalls = 2
    Torn = FALSE
INVARIANTS
    NoForeignCni
    KubeletKept
PROPERTIES
    AgentReady
    DeinitReverts
CHECK_DEADLOCK FALSE
