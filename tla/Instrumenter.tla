----------------------------- MODULE Instrumenter -----------------------------
(***************************************************************************)
(* The per-function loop of AngoraLLVMPass::runOnModule on one function:  *)
(* addFnWrap, then for every block of bb_list a snapshot inst_list of its *)
(* instructions, and for each of them: skip it if it carries nosanitize,  *)
(* call countEdge if it is the block's first insertion point, and visit   *)
(* it.  The IR is a sequence of instructions per block; each has a kind,  *)
(* an origin (its position before the pass, <<>> for code the pass        *)
(* inserts) and the nosanitize flag.  What the inserted code does at run  *)
(* time is the subject of ContextTracking; here it is only where it goes: *)
(*   "wrap"    the entry code of addFnWrap   "restore" its exit code      *)
(*   "ecnt"    countEdge's sequence          "cs"  processCall's stores   *)
(*   "trace"   a trace call (track mode)     "ready" __angora_listen_ready*)
(*   "xtrace"  __angora_trace_exploit_val_tt (track mode)                 *)
(*   "gate"    fast mode's SplitBlockAndInsertIfThen at that point: the   *)
(*             block ends in a branch on cid == __angora_cond_cmpid to a  *)
(*             cold block with the trace, and continues in a new block.   *)
(* The new blocks are not in bb_list; the chain of blocks split from a    *)
(* block of bb_list is kept as that block's one sequence.  The special    *)
(* case lists match by kind: a callee of category socket or cmpfn is its  *)
(* own kind, and the exploitation categories are empty.                   *)
(***************************************************************************)
EXTENDS PassConfig, Sequences, FiniteSets, SequencesExt

CONSTANTS
    Modes,       \* the pass flags: "track" (TrackMode), "dfsan" (DFSanMode),
                 \* "fast" (neither, FastMode)
    Draws,       \* values random() % 100 draws in skipBasicBlock()
    BBList,      \* bb_list: the blocks of F in order, the entry first
    BodyChoices  \* BodyChoices[b]: the instruction kinds b may have

\* Original kinds; terminators are last, phis and landingpads first.
Heads == {"phi", "lpad"}
\* "cbr" branches on a condition that is not a cmp or a constant; "br" is
\* any other branch.  A switch is on an integer of whole bytes, of another
\* width ("switch.bits") or on a constant.  "iinvoke" is an indirect invoke.
Terms == {"br", "cbr", "switch", "switch.bits", "switch.const", "ret", "resume",
          "invoke", "iinvoke", "sockinvoke"}
\* Comparisons by operand type: integers of 8 to 64 bits, float, double or
\* pointers; integers below 8 bits; integers above 64 bits; vectors.
Cmps == {"cmp", "cmp.small", "cmp.wide", "cmp.vec"}
\* Direct, indirect, socket-category and cmpfn calls (pointer arguments),
\* direct calls of an exploitation category with a non-constant integer or
\* pointer argument, intrinsics and inline asm, __unfold_branch_fn with its
\* result unused or used.
Calls == {"call", "icall", "sockcall", "cmpfn", "xcall", "intrinsic", "unfold", "unfold.used"}
Plain == Cmps \cup Calls \cup {"other"}
BBs == Range(BBList)

ASSUME /\ Modes \subseteq {"fast", "track", "dfsan"} /\ Draws \subseteq 0..99
       /\ BBList \in Seq(BBs) /\ Len(BBList) = Cardinality(BBs)
       /\ \A b \in BBs : \A s \in BodyChoices[b] :
             /\ s \in Seq(Heads \cup Terms \cup Plain) /\ s[Len(s)] \in Terms
             /\ \A i \in 1..(Len(s) - 1) : s[i] \notin Terms
             /\ \A i \in 2..Len(s) : s[i] \in Heads => s[i - 1] \in Heads

VARIABLES
    ir,      \* ir[b]: the instructions of block b
    cmpMap,  \* CmpMap: origins of the instructions given a cmp id
    bi,      \* index into bb_list of the block being visited
    instList,\* inst_list: the instructions of that block not yet visited
    mode,    \* the mode runOnModule settles on
    pc       \* "wrap", "block", "inst", "done" or "crashed"

instrVars == <<ir, cmpMap, bi, instList, mode, pc>>
vars == <<cfgVars, instrVars>>

FastMode == mode = "fast"
TrackMode == mode = "track"

New(k) == [k |-> k, o |-> <<>>, ns |-> TRUE]
\* Mutant: the first instruction of the block, phis included (BB->begin()).
FirstInsertionPtBegin(s) == 1

\* BB->getFirstInsertionPt(): the first instruction that is neither a phi
\* nor a landingpad.
FirstInsertionPt(s) == SelectInSeq(s, LAMBDA r : r.k \notin Heads)
\* The current position of the original instruction o.
Where(s, o) == SelectInSeq(s, LAMBDA r : r.o = o)

-----------------------------------------------------------------------------
Init ==
    /\ \E bd \in [BBs -> UNION {BodyChoices[b] : b \in BBs}] :
         /\ \A b \in BBs : bd[b] \in BodyChoices[b]
         /\ ir = [b \in BBs |-> [i \in DOMAIN bd[b] |->
                                   [k |-> bd[b][i], o |-> <<b, i>>, ns |-> FALSE]]]
    /\ cmpMap = {} /\ bi = 0 /\ instList = <<>> /\ pc = "wrap"
    /\ mode \in Modes
    /\ CfgInit

\* addFnWrap: nothing for K = 0; else the entry code at the entry block's
\* first insertion point and the exit code before every ret and resume.
FnWrap ==
    /\ pc = "wrap" /\ cfgPc = "ready" /\ mode # "dfsan"
    /\ ir' = IF numFnCtx = 0 THEN ir
             ELSE [b \in BBs |->
                     LET s == IF b = BBList[1]
                              THEN InsertAt(ir[b], FirstInsertionPt(ir[b]), New("wrap"))
                              ELSE ir[b]
                     IN  IF s[Len(s)].k \in {"ret", "resume"}
                         THEN InsertAt(s, Len(s), New("restore")) ELSE s]
    /\ pc' = "block"
    /\ UNCHANGED <<cmpMap, bi, instList, mode>>

\* if (DFSanMode) return true; after initVariables.
DFSanReturn ==
    /\ pc = "wrap" /\ cfgPc = "ready" /\ mode = "dfsan"
    /\ pc' = "done"
    /\ UNCHANGED <<ir, cmpMap, bi, instList, mode>>

\* The next block of bb_list: inst_list is taken from the block as it is now.
NextBlock ==
    /\ pc = "block" /\ bi < Len(BBList)
    /\ bi' = bi + 1
    /\ instList' = ir[BBList[bi + 1]]
    /\ pc' = "inst"
    /\ UNCHANGED <<ir, cmpMap, mode>>

EndLoop ==
    /\ pc = "block" /\ bi = Len(BBList)
    /\ pc' = "done"
    /\ UNCHANGED <<ir, cmpMap, bi, instList, mode>>

EndBlock ==
    /\ pc = "inst" /\ instList = <<>>
    /\ pc' = "block"
    /\ UNCHANGED <<ir, cmpMap, bi, instList, mode>>

Before(s, o, r) == InsertAt(s, Where(s, o), r)
After(s, o, r) == InsertAt(s, Where(s, o) + 1, r)

\* processCmp, processBoolCmp and visitSwitchInst: the gated trace in fast
\* mode, the trace and the nosanitize reset of ind_call_site in track mode.
Trace == IF FastMode THEN New("gate") ELSE New("trace")

\* visitListenCall: a call of __angora_listen_ready after the socket call.
VisitListenCall(s, o) == After(s, o, [k |-> "ready", o |-> <<>>, ns |-> FALSE])

\* visitCompareFunc: a call of category cmpfn with two pointer arguments
\* gets __angora_trace_fn_tt before it, in track mode only.
VisitCompareFunc(s, o, k) == IF k = "cmpfn" /\ TrackMode THEN Before(s, o, New("trace")) ELSE s

\* visitExploitation: an instruction of an exploitation category gets
\* the exploit trace of each non-constant integer or pointer operand
\* before it, in track mode only.
VisitExploitation(s, o, k) == IF k = "xcall" /\ TrackMode THEN Before(s, o, New("xtrace")) ELSE s

\* processCall: for a direct callee visitCompareFunc, visitExploitation
\* and visitListenCall; then the store of the call-site id to call_site
\* (K # 0) and, for an indirect call, to ind_call_site, before the call.
ProcessCall(s, o, k) ==
    LET s1 == VisitExploitation(VisitCompareFunc(s, o, k), o, k)
        s2 == IF k \in {"sockcall", "sockinvoke"} THEN VisitListenCall(s1, o) ELSE s1
    IN  IF numFnCtx # 0 \/ k = "icall" THEN Before(s2, o, New("cs")) ELSE s2

\* visitCallInst: intrinsics and inline asm are left alone; a call of
\* __unfold_branch_fn is erased when its result is unused.
VisitCallInst(s, o, k) ==
    CASE k = "intrinsic"   -> s
      [] k = "unfold"      -> RemoveAt(s, Where(s, o))
      [] k = "unfold.used" -> s
      [] OTHER             -> ProcessCall(s, o, k)

\* visitInvokeInst: an indirect invoke is left alone.
VisitInvokeInst(s, o, k) == IF k = "iinvoke" THEN s ELSE ProcessCall(s, o, k)

\* visitCmpInst: processCmp after the comparison; below 8 bits it returns,
\* above 64 bits processBoolCmp traces the i1 result, for vectors it returns.
VisitCmpInst(s, o, k) == IF k \in {"cmp", "cmp.wide"} THEN After(s, o, Trace) ELSE s

\* visitBranchInst: processBoolCmp before a branch on a non-cmp condition.
VisitBranchInst(s, o, k) == IF k = "cbr" THEN Before(s, o, Trace) ELSE s

\* visitSwitchInst: only an integer condition of whole bytes is traced.
VisitSwitchInst(s, o, k) == IF k = "switch" THEN Before(s, o, Trace) ELSE s

\* The instructions that get a cmp id in CmpMap.
CmpMapped(k) == k \in Cmps \cup {"cbr", "switch"}

\* The dispatch of the loop on the class of the instruction r; anything
\* else goes to visitExploitation, of no category here.
VisitInst(s, r) ==
    CASE r.k \in Calls -> VisitCallInst(s, r.o, r.k)
      [] r.k \in {"invoke", "iinvoke", "sockinvoke"} -> VisitInvokeInst(s, r.o, r.k)
      [] r.k \in {"br", "cbr"} -> VisitBranchInst(s, r.o, r.k)
      [] r.k \in {"switch", "switch.bits", "switch.const"} -> VisitSwitchInst(s, r.o, r.k)
      [] r.k \in Cmps -> VisitCmpInst(s, r.o, r.k)
      [] OTHER -> VisitExploitation(s, r.o, r.k)

\* One iteration over inst_list.  visitListenCall on an invoke builds at
\* Inst->getNextNode(), which is null for a terminator: the pass crashes.
Visit ==
    /\ pc = "inst" /\ instList # <<>>
    /\ instList' = Tail(instList)
    /\ LET r == Head(instList)
           b == BBList[bi]
           fip == FirstInsertionPt(ir[b])
       IN  IF r.ns
           THEN UNCHANGED <<ir, cmpMap, pc>>
           ELSE \E draw \in Draws :
                  LET s == IF r.o = ir[b][fip].o /\ FastMode /\ ~SkipBasicBlock(draw)
                           THEN InsertAt(ir[b], fip, New("ecnt")) ELSE ir[b]
                  IN  /\ ir' = [ir EXCEPT ![b] = VisitInst(s, r)]
                      /\ cmpMap' = IF CmpMapped(r.k) THEN cmpMap \cup {r.o} ELSE cmpMap
                      /\ pc' = IF r.k = "sockinvoke" THEN "crashed" ELSE pc
    /\ UNCHANGED <<bi, mode>>

Finished ==
    /\ pc = "done"
    /\ UNCHANGED vars

\* runOnModule: initVariables, then the loop over the function.
Next == \/ ConfigStep /\ UNCHANGED instrVars
        \/ Aborted /\ UNCHANGED instrVars
        \/ (FnWrap \/ DFSanReturn \/ NextBlock \/ Visit \/ EndBlock \/ EndLoop \/ Finished) /\ UNCHANGED cfgVars

Spec == Init /\ [][Next]_vars

-----------------------------------------------------------------------------

\* P2 and section 4.5: in fast mode with inst_ratio 100, once the function
\* is instrumented every block holds exactly one edge-count sequence,
\* after its phis and landingpad and before all of its own instructions;
\* the entry code of addFnWrap and the exit code before ret and resume
\* must not hide a block's first insertion point from the loop.
CountedOnce ==
    FastMode /\ instRatio = 100 /\ pc = "done" =>
        \A b \in BBs :
            LET s == ir[b]
                E == {i \in DOMAIN s : s[i].k = "ecnt"}
                Own == {i \in DOMAIN s : s[i].o # <<>>}
            IN  /\ Cardinality(E) = 1
                /\ \A n \in E : \A i \in Own : n < i <=> s[i].k \notin Heads

\* runOnModule finishes on every function: the visit of a call to a
\* socket-category function emits __angora_listen_ready after it, for an
\* invoke as for a call (section 4.5, "Invokes: same as direct calls").
PassCompletes == pc # "crashed"

=============================================================================
