SPECIFICATION Spec
CONSTANTS
    Host <- MCHost
    IpType <- MCIpType
    Run = {1, 2}
    Lines <- MCLines
    Gateway <- MCGateway
    Fsid = "own"
    Prefixes = {"default", "east"}
    MaxFaults = 2
    NoKey = NoKey
INVARIANTS
    TypeOK
    KeysValid
    OwnCluster
    InfoGranted
    PoolsReady
    ConsumerConnects
PROPERTIES
    RepeatedExportPublishes
CHECK_DEADLOCK FALSE
