SPECIFICATION Spec
CONSTANTS
    b0 = b0
    b1 = b1
    Bytes <- MCBytes
    Mapped <- MCMapped
    zero = b0
    Zone = {}
    z0 = z0
    z4 = z4
    z6noz = z6noz
    Session <- MCSession
    Word = 4
    Line <- MCLine
    MaxLines = 4
INVARIANTS
    TypeOK
    UsageIsAttributed
    SessionsAreCurrent
CHECK_DEADLOCK FALSE
