CONSTANTS
    e = e  l = l  x = x
    NameLens = {5}
    RatioEnvs <- DefaultEnvs
    CtxEnvs <- DefaultEnvs
    SizeBits = 8
    Draws = {10}
    Modes = {"track"}
    BBList <- MCBBList
    BodyChoices <- MCBodiesSockInvoke
SPECIFICATION Spec
INVARIANT PassCompletes
