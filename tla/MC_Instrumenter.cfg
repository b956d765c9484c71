CONSTANTS
    e = e  l = l  x = x
    NameLens = {0, 2, 5}
    RatioEnvs <- MCRatioEnvs
    CtxEnvs <- MCCtxEnvs
    SizeBits = 8
    Draws = {10, 70}
    Modes = {"fast", "track", "dfsan"}
    BBList <- MCBBList
    BodyChoices <- MCBodies
SPECIFICATION Spec
INVARIANT FatalExactlyOnBadConfig
INVARIANT CountedOnce
