----------------------------- MODULE CompressedCfg -----------------------------
(***************************************************************************)
(* What the CFG exporter promises (section 4.7), without the walk: the    *)
(* edges and targets found only grow, each of them belongs to the         *)
(* compressed CFG of the module, and the file is written once, when all   *)
(* of them have been found.  refEdges and refTargets are that compressed  *)
(* CFG; they do not change.                                               *)
(***************************************************************************)
VARIABLES refEdges, refTargets, edges, targets, written

cvars == <<refEdges, refTargets, edges, targets, written>>

Init == edges = {} /\ targets = {} /\ written = FALSE

\* Some more edges or targets of the compressed CFG are found.
Discover ==
    /\ ~written
    /\ \E E \in SUBSET (refEdges \ edges), T \in SUBSET (refTargets \ targets) :
         /\ E # {} \/ T # {}
         /\ edges' = edges \cup E /\ targets' = targets \cup T
    /\ UNCHANGED <<refEdges, refTargets, written>>

\* The file is written with the whole compressed CFG.
Emit ==
    /\ ~written /\ edges = refEdges /\ targets = refTargets
    /\ written' = TRUE
    /\ UNCHANGED <<refEdges, refTargets, edges, targets>>

Next == Discover \/ Emit

Spec == Init /\ [][Next]_cvars /\ WF_cvars(Next)

=============================================================================
