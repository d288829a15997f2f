SPECIFICATION Spec
CONSTANTS
    Programs = {"amm", "stable", "route", "farm", "staking"}
    ByteBase = 13
    StakeBufferLength = 40
    Words <- MCWords
    Bytes <- MCBytes
    MaxExtra = 2
INVARIANTS
    IntactOrRefused
    SiblingReadings
    SwapAccountsInPlace
    WrappersInPlace
    SwapRightsDeclared
    ListedAsDocumented
    OptionsReadable
    SiblingAccountsAgree
    RouteLegsAgree
CHECK_DEADLOCK FALSE
