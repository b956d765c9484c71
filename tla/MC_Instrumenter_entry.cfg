CONSTANTS
    e = e  l = l  x = x
    NameLens = {5}
    RatioEnvs <- DefaultEnvs
    CtxEnvs <- DefaultEnvs
    SizeBits = 8
    Draws = {10}
    Modes = {"fast"}
    BBList <- MCBBList
    BodyChoices <- MCBodies
SPECIFICATION Spec
INVARIANT CountedOnce
