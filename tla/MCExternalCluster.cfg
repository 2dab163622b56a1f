SPECIFICATION AllSpec
CONSTANTS
    Run = {r1, r2}
    ImportRun = {i1, i2}
    Word <- MCWord
    DotWord = {}
    Lower <- MCLower
    Invocations <- MCInvocations
    DefaultPrefix <- MCDefaultPrefix
    Pools <- MCPools
    Namespaces <- MCNamespaces
    FsList <- MCFsList
    LegacyAuth <- MCLegacyAuth
    MaxFaults = 0
    ConcurrentUpgrades = FALSE
    ConsumerNamespaces = {n1, n2}
    MaxImportFaults = 0
    OsdPools <- MCOsdPools
    EcFlags <- MCEcFlags
INVARIANTS
    ClassServed
    JsonServed
PROPERTIES
    KeepsPromise
SYMMETRY Symmetry
CHECK_DEADLOCK FALSE
