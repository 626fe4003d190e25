SPECIFICATION Spec
CONSTANTS
    Platform <- MCPlatform
    Buffer <- MCBuffer
    ReadBufSize = 160
INVARIANTS
    OnlyDefaultRoutes
CHECK_DEADLOCK FALSE
