SPECIFICATION Spec
CONSTANTS
    Run = {r1, r2}
    Word <- MCWord
    DotWord = {}
    Lower <- MCLower
    Invocations <- MCInvocations
    DefaultPrefix <- MCDefaultPrefix
    Pools <- MCPools
    Namespaces <- MCNamespaces
    FsList <- MCFsList
    LegacyAuth <- MCLegacyAuth
    MaxFaults = 1
    ConcurrentUpgrades = FALSE
INVARIANTS
    TypeOK
    CredentialsValid
    CredentialsSuffice
    RestrictedConfined
    UpgradeComplete
    PoolOfFileSystem
    GroupsReady
PROPERTIES
    CapsNeverShrink
    NoPrefixInvented
SYMMETRY Symmetry
CHECK_DEADLOCK FALSE
