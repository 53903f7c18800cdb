SPECIFICATION Spec
CONSTANTS
    Pieces <- MCPieces
    MaxPieces = 4
INVARIANTS
    CutsDoNotMatter
    BufferIsOneFrame
CHECK_DEADLOCK FALSE
