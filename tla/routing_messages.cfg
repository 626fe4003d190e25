SPECIFICATION FairSpec
CONSTANTS
    Platform <- MCPlatform
    Buffer <- MCBuffer
    ReadBufSize = 160
INVARIANTS
    TypeOK
    FindsAddresses
    ReportsMessages
PROPERTIES
    ParsingEnds
CHECK_DEADLOCK FALSE
