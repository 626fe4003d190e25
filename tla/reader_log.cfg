SPECIFICATION FairSpec
CONSTANTS
    BufferSize = 3
    ReadSize <- MCReadSize
    MaxText = 8
    nil = nil
INVARIANTS
    TypeOK
    DeliversJSON
    CompleteLogIsDelivered
PROPERTIES
    LeftoverIsNotOverwritten
    LogEnds
CHECK_DEADLOCK FALSE
