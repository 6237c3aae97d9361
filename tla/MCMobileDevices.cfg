CONSTANTS
    Cap = 15
    NoticeLen = 8
    OtherResults <- MCOtherResults
    DeviceLists <- MCDeviceLists
    MaxLimit = 4
    FrameLen = 3
    MarkerLen = 2
SPECIFICATION FairSpec
INVARIANTS
    TypeOK
    LongestPrefix
    AccountsForAll
PROPERTIES
    Terminates
    ImplementsCappedText
