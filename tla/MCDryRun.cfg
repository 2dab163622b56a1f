SPECIFICATION Spec
CONSTANTS
    Run = {r1, r2}
    Word <- MCWord
    DotWord = {}
    Lower <- MCLower
    Invocations <- DryInvocations
    DefaultPrefix <- MCDefaultPrefix
    Pools <- MCPools
    Namespaces <- MCNamespaces
    FsList <- MCFsList
    LegacyAuth <- MCLegacyAuth
    MaxFaults = 0
    ConcurrentUpgrades = FALSE
PROPERTIES
    DryRunChangesNothing
CHECK_DEADLOCK FALSE
