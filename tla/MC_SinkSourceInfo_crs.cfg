CONSTANTS
    f = f  g = g  Src = Src  Snk = Snk  NULL = NULL
    f0 = f0  f1 = f1  f2 = f2  f3 = f3  g0 = g0
    Funcs <- MCFuncs
    Decls <- MCDecls
    SourceList <- MCSourceList
    SinkList <- MCSinkList
    BBs <- MCBBs
    Parent <- MCParent
    Entry <- MCEntry
    CfgChoices <- MCCfgChoices
    CallChoices <- MCCallChoices
SPECIFICATION Spec



INVARIANT CrsComplete
