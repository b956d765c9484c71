------------------------------ MODULE CfgExport ------------------------------
(***************************************************************************)
(* AngoraLLVMPass::export_cfg (track mode): the walk that builds the       *)
(* compressed CFG over the instructions of CmpMap.  The walk starts at    *)
(* every CmpMap instruction, advances with getNextNonDebugInstruction     *)
(* until it meets another CmpMap instruction (an edge) or the terminator, *)
(* and then continues at the first instruction of each successor block.   *)
(* A direct call to a sink on the way makes the start a target.           *)
(*                                                                         *)
(* An instruction is a position <<b, i>> in the body of block b; its kind  *)
(* is what the walk distinguishes:                                        *)
(*   "cmp"  a comparison in CmpMap (visitCmpInst),                        *)
(*   "sink" a direct call whose callee is in category sink or has         *)
(*          is_sink_before_source = Yes,                                  *)
(*   "plain" any other non-terminator,                                    *)
(*   "cbr"  a terminator in CmpMap (visitBranchInst, visitSwitchInst),    *)
(*   "br"   any other terminator.                                         *)
(* Ids are the positions themselves (IDPass gives distinct ids).          *)
(***************************************************************************)
EXTENDS Integers, Sequences, FiniteSets, SequencesExt

CONSTANTS
    Blocks,      \* basic blocks of the module
    Succ,        \* Succ[b]: the successors of b's terminator
    BodyChoices, \* BodyChoices[b]: the instruction kinds b's body may have
    CFGFileGiven \* the option cfg-out is not empty

Kinds == {"cmp", "sink", "plain", "cbr", "br"}

ASSUME /\ Succ \in [Blocks -> SUBSET Blocks] /\ CFGFileGiven \in BOOLEAN
       /\ \A b \in Blocks : \A s \in BodyChoices[b] :
             /\ s \in Seq(Kinds) /\ Len(s) > 0
             /\ \A i \in 1..Len(s) : s[i] \in {"cbr", "br"} <=> i = Len(s)

VARIABLES
    body,    \* body[b]: the kinds of b's instructions, terminator last
    todo,    \* the std::deque todo of <<from_id, ins>>
    seen,    \* the std::set seen
    edges,   \* edges
    targets, \* targets
    pc       \* "walk", "written" or "skipped"

vars == <<body, todo, seen, edges, targets, pc>>

Pos == UNION {{<<b, i>> : i \in 1..Len(body[b])} : b \in Blocks}
Kind(p) == body[p[1]][p[2]]
IsTerm(p) == p[2] = Len(body[p[1]])
\* The instructions of CmpMap.
CmpIns == {p \in Pos : Kind(p) \in {"cmp", "cbr"}}
\* Mutant: the successor's instructions counted from 0.
FrontsZero(p) == [i \in DOMAIN SetToSeq(Succ[p[1]]) |-> <<SetToSeq(Succ[p[1]])[i], 0>>]

\* &next_bb->front() for every successor of a terminator, in operand order.
Fronts(p) == [i \in DOMAIN SetToSeq(Succ[p[1]]) |-> <<SetToSeq(Succ[p[1]])[i], 1>>]

\* Mutant: the inner loop does not stop at a CmpMap instruction.
StopAtNoCmp(p) == <<p[1], Len(body[p[1]])>>

\* The inner while loop from ins: the position where it stops, the first
\* CmpMap instruction or the terminator after ins.
StopAt(p) ==
    LET Stops(j) == <<p[1], j>> \in CmpIns \/ j = Len(body[p[1]])
    IN  <<p[1], CHOOSE j \in (p[2] + 1)..Len(body[p[1]]) :
                    Stops(j) /\ \A k \in (p[2] + 1)..(j - 1) : ~Stops(k)>>

-----------------------------------------------------------------------------
\* export_cfg starts after the instrumentation loop; the todo is filled in
\* the iteration order of the ValueMap CmpMap, which is by pointer.
Init ==
    /\ body \in {bd \in [Blocks -> UNION {BodyChoices[b] : b \in Blocks}] :
                    \A b \in Blocks : bd[b] \in BodyChoices[b]}
    /\ seen = {} /\ edges = {} /\ targets = {}
    /\ IF CFGFileGiven
       THEN /\ todo \in SetToSeqs({<<p, p>> : p \in CmpIns})
            /\ pc = "walk"
       ELSE /\ todo = <<>>
            /\ pc = "skipped"

\* Mutant: the seen check dropped.
VisitedNever(item) == FALSE

\* bool done = seen.count(todo.front()) != 0
Visited(item) == item \in seen

\* One iteration of while (!todo.empty()): the seen check, the inner loop
\* and the enqueueing of the successors' first instructions.
Step ==
    /\ pc = "walk" /\ todo # <<>>
    /\ LET from == Head(todo)[1]
           ins  == Head(todo)[2]
           done == Visited(Head(todo))
           scan == ~done /\ ~IsTerm(ins)
           stop == IF scan THEN StopAt(ins) ELSE ins
           passed == IF scan THEN {<<ins[1], j>> : j \in (ins[2] + 1)..stop[2]} ELSE {}
           found == scan /\ stop \in CmpIns
       IN  /\ seen' = seen \cup {Head(todo)}
           /\ targets' = IF \E q \in passed : Kind(q) = "sink"
                         THEN targets \cup {from} ELSE targets
           /\ edges' = IF found THEN edges \cup {<<from, stop>>} ELSE edges
           /\ todo' = Tail(todo) \o
                        IF ~done /\ ~found
                        THEN [i \in DOMAIN Fronts(stop) |-> <<from, Fronts(stop)[i]>>]
                        ELSE <<>>
    /\ UNCHANGED <<body, pc>>

\* std::ofstream outfile(CFGFile); writeTargetsJson(outfile, edges, targets).
Write ==
    /\ pc = "walk" /\ todo = <<>>
    /\ pc' = "written"
    /\ UNCHANGED <<body, todo, seen, edges, targets>>

Done ==
    /\ pc \in {"written", "skipped"}
    /\ UNCHANGED vars

Next == Step \/ Write \/ Done

\* The pass is sequential: export_cfg runs its loop to the end.
Spec == Init /\ [][Next]_vars /\ WF_vars(Step \/ Write)

-----------------------------------------------------------------------------
(***************************************************************************)
(* Reference: the CFG restricted to CmpMap instructions.  Between(a) are  *)
(* the instructions reachable from a by paths whose inner instructions    *)
(* are not in CmpMap.                                                     *)
(***************************************************************************)
InsSucc(p) == IF IsTerm(p) THEN {<<s, 1>> : s \in Succ[p[1]]} ELSE {<<p[1], p[2] + 1>>}

RECURSIVE Grow(_)
Grow(S) == LET S2 == S \cup UNION {InsSucc(q) : q \in S \ CmpIns}
           IN  IF S2 = S THEN S ELSE Grow(S2)

Between(a) == Grow(InsSucc(a))
RefEdges == {<<a, c>> \in CmpIns \X CmpIns : c \in Between(a)}
RefTargets == {a \in CmpIns : \E q \in Between(a) : Kind(q) = "sink"}

-----------------------------------------------------------------------------
TypeOK ==
    /\ \A b \in Blocks : body[b] \in BodyChoices[b]
    /\ todo \in Seq(CmpIns \X Pos) /\ seen \subseteq CmpIns \X Pos
    /\ edges \subseteq CmpIns \X CmpIns /\ targets \subseteq CmpIns
    /\ pc \in {"walk", "written", "skipped"}

Abs == INSTANCE CompressedCfg WITH refEdges <- RefEdges, refTargets <- RefTargets,
                                  written <- (pc = "written")
AbsSpec == Abs!Spec

=============================================================================
