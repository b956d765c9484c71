CONSTANTS
    MAP_SIZE <- MCMapSize
    RandomNums <- MCRandomNums
    Locs <- MCLocs
    MaxDepth = 3
    Cell <- MCCell
    CounterBits = 2
    NumFnCtx <- DefaultCtx
SPECIFICATION CtxSpec
PROPERTY ContextAtCatch
