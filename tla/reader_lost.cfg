SPECIFICATION Spec
CONSTANTS
    BufferSize = 3
    ReadSize <- MCReadSize
    MaxText = 6
    nil = nil
INVARIANTS
    EndOfLogIsDelivered
CHECK_DEADLOCK FALSE
