SPECIFICATION Spec
CONSTANTS
    Run = {r1, r2}
    Word <- MCWord
    DotWord = {}
    Lower <- MCLower
    Invocations <- UpgradeInvocations
    DefaultPrefix <- MCDefaultPrefix
    Pools <- MCPools
    Namespaces <- MCNamespaces
    FsList <- MCFsList
    LegacyAuth <- MCLegacyAuth
    MaxFaults = 0
    ConcurrentUpgrades = TRUE
PROPERTIES
    CapsNeverShrink
CHECK_DEADLOCK FALSE
