SPECIFICATION TestsSpec
CONSTANTS
    Host <- MCHost
    IpType <- MCIpType
    Mgr <- MCMgr
    Mon <- MCMon
    NameOf <- MCNameOf
    AddrVec <- MCAddrVec
    DNS <- MCDNS
    OrchHost <- MCOrchHost
    UrlPort = 9283
    DummyIps <- MCDummyIps
    CommandLines <- MCCommandLines
    NoHost = "none"
    NoMon = "none"
    NoMgr = "none"
    Word <- MCWord
    DotWord = {}
    Lower <- MCLower
    FsNames <- MCFsNames
    PoolNames <- MCPoolNames
    SecondFs <- MCSecondFs
    MoreData <- MCMoreData
INVARIANTS
    TestsTypeOK
    MonAddressUsable
    PortUsable
    SurvivesFailover
    OneFamily
    PoolBelongs
    DoubleAnswers
PROPERTIES
    ExportEnds
    RepeatedCallAgrees
