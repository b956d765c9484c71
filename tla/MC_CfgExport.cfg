CONSTANTS
    b1 = b1  b2 = b2  b3 = b3  b4 = b4
    Blocks <- MCBlocks
    Succ <- MCSucc
    BodyChoices <- FrontPlain
    CFGFileGiven = TRUE
SPECIFICATION Spec
INVARIANT TypeOK
PROPERTY AbsSpec
