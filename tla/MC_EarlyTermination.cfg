CONSTANTS
    f = f  h = h  Src = Src  Snk = Snk  NULL = NULL
    f0 = f0  f1 = f1  f2 = f2  h0 = h0  h1 = h1
    t1 = t1  t2 = t2  t3 = t3  t4 = t4
    Funcs <- MCFuncs
    Decls <- MCDecls
    SourceList <- MCSourceList
    SinkList <- MCSinkList
    BBs <- MCBBs
    NewBBs <- MCNewBBs
    Parent <- MCParent
    Entry <- MCEntry
    CfgChoices <- MCCfgChoices
    CallChoices <- MCCallChoices
    DupChoices <- MCDupChoices
SPECIFICATION ETSpec
INVARIANT EdgesPreserved PhiMatchesEdges
