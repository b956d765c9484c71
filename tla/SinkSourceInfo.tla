--------------------------- MODULE SinkSourceInfo ---------------------------
(***************************************************************************)
(* The sink/source reachability analysis of AngoraPass.cc (class           *)
(* SinkSourceInfo).  The constructor walks the call graph SCC by SCC,      *)
(* callees first, and for every SCC runs two worklist passes over the      *)
(* basic blocks of its functions:                                          *)
(*   pass 1 decides will_reach_source (and, on the way, is_source),        *)
(*   pass 2 decides can_reach_sink_before_source (and is_sink_before_src). *)
(* Blocks still undecided when a worklist drains are defaulted: Yes for    *)
(* will_reach_source, No for can_reach_sink_before_source.                 *)
(*                                                                         *)
(* The program analysed is an input: the CFG is a constant, the calls of   *)
(* every block are chosen in Init from a small set of call sequences.      *)
(* The four std::map<BasicBlock*,bool> are functions into {Yes,No,Unknown} *)
(* where Unknown stands for "no entry in the map" (SinkSourceInfo::_lookup)*)
(***************************************************************************)
EXTENDS Integers, Sequences, FiniteSets, SequencesExt

CONSTANTS
    Funcs,       \* functions defined in the module (have a body)
    Decls,       \* external declarations (no body)
    NULL,        \* callee of an indirect call: getCalledFunction() == nullptr
    SourceList,  \* functions in category "source" of the exploitation list
    SinkList,    \* functions in category "sink" of the exploitation list
    BBs,         \* basic blocks of all defined functions
    Parent,      \* Parent[b]: the function containing b (bb->getParent())
    Entry,       \* Entry[f]: f.getEntryBlock()
    CfgChoices,  \* the successor functions (CFGs) the module may have
    CallChoices  \* CallChoices[b]: the call sequences block b may contain

Callees == Funcs \cup Decls \cup {NULL}

ASSUME /\ NULL \notin Funcs \cup Decls
       /\ SourceList \cup SinkList \subseteq Funcs \cup Decls
       /\ Parent \in [BBs -> Funcs] /\ Entry \in [Funcs -> BBs]
       /\ \A f \in Funcs : Parent[Entry[f]] = f
       /\ \A S \in CfgChoices : /\ S \in [BBs -> SUBSET BBs]
                               /\ \A b \in BBs : \A s \in S[b] : Parent[s] = Parent[b]
       /\ \A b \in BBs : CallChoices[b] \subseteq Seq(Callees)

\* SinkSourceState: No = -1, Unknown = 0, Yes = 1, ordered as in the code.
No == -1
Unknown == 0
Yes == 1
States == {No, Unknown, Yes}

MaxState(S) == IF Yes \in S THEN Yes ELSE IF Unknown \in S THEN Unknown ELSE No
MinState(S) == IF No \in S THEN No ELSE IF Unknown \in S THEN Unknown ELSE Yes

Blocks(F) == {b \in BBs : Parent[b] = F}

VARIABLES
    succ,      \* succ[b]: successors(b), the CFG of the module
    calls,     \* calls[b]: the callees of the CallBase instructions of b, in order
    srcMap,    \* is_source_map
    sinkMap,   \* is_sink_before_source_map
    wrsMap,    \* will_reach_source_map
    crsMap,    \* can_reach_sink_before_source_map
    done,      \* functions whose SCC process_scc has finished
    scc,       \* the defined functions of the SCC being processed
    order,     \* block order of the SCC's functions (scc_begin over each CFG)
    todo,      \* the std::deque todo of process_scc
    unknown,   \* unknown_bbs
    callerMap, \* caller_map: callee -> blocks of this SCC calling it
    pc         \* "idle", "pass1", "pass2" or "done"

vars == <<succ, calls, srcMap, sinkMap, wrsMap, crsMap, done, scc, order, todo,
          unknown, callerMap, pc>>

-----------------------------------------------------------------------------
(* Call graph and its strongly connected components.                       *)
Preds(b) == {p \in BBs : b \in succ[p]}

\* The nodes reachable in one or more steps from the nodes of S, where E[x]
\* is the set of successors of x.
RECURSIVE Closure(_, _)
Closure(E, S) ==
    LET S2 == S \cup UNION {E[x] : x \in S} IN IF S2 = S THEN S ELSE Closure(E, S2)

\* Intraprocedural reachability, used for the block order of scc_begin(func).
CfgReach == [p \in BBs \X BBs |-> p[2] \in Closure(succ, succ[p[1]])]

CallsIn(b) == {calls[b][i] : i \in 1..Len(calls[b])}
CalledBy(f) == Funcs \cap UNION {CallsIn(b) : b \in Blocks(f)}
CallEdge == [p \in Funcs \X Funcs |-> p[2] \in CalledBy(p[1])]
CallReach == [p \in Funcs \X Funcs |->
                p[2] \in Closure([x \in Funcs |-> CalledBy(x)], CalledBy(p[1]))]
SccOf(f, R) == {f} \cup {g \in Funcs : R[f, g] /\ R[g, f]}
\* Defined functions called from the SCC but outside it.
CalleesOutside(S) == {g \in Funcs \ S : \E f \in S : CallEdge[f, g]}

\* The orders in which the first loops of process_scc list the blocks: the
\* functions of the SCC one after the other, each function's blocks in the
\* reverse topological order of its CFG's SCCs (scc_begin(func)).
OrdersOf(S, R) ==
    { s \in SetToSeqs(UNION {Blocks(f) : f \in S}) :
        \* blocks of one function are contiguous
        /\ \A i, j, k \in 1..Len(s) :
              (i < j /\ j < k /\ Parent[s[i]] = Parent[s[k]])
                 => Parent[s[j]] = Parent[s[i]]
        \* a block comes after every block it reaches but is not reached by
        /\ \A i, j \in 1..Len(s) :
              (i < j /\ R[s[i], s[j]]) => R[s[j], s[i]] }

-----------------------------------------------------------------------------
(* Callee resolution: SinkSourceInfo::is_source and is_sink_before_source *)
(* applied to the called Function.                                        *)
IsSourceF(F) ==
    IF F = NULL THEN No                    \* under-approximate
    ELSE IF F \in SourceList THEN Yes
    ELSE IF F \in Decls THEN No
    ELSE wrsMap[Entry[F]]

IsSinkF(F) ==
    IF F = NULL THEN Yes                   \* over-approximate
    ELSE IF F \in SinkList THEN Yes
    ELSE IF F \in Decls THEN No
    ELSE crsMap[Entry[F]]

\* _compute_is_source: the maximum over the block's calls, starting at No.
ComputeIsSource(b) == MaxState({No} \cup {IsSourceF(c) : c \in CallsIn(b)})

\* Mutant of ComputeIsSink: the scan misses its break at the first source.
ComputeIsSinkNoBreak(b) ==
    MaxState({No} \cup {IsSinkF(calls[b][i]) : i \in 1..Len(calls[b])})

\* _compute_is_sink_before_source: scan the calls, taking the maximum sink
\* state, up to and including the first call whose callee is not a No
\* source; if that callee is an Unknown source the result is Unknown.
ComputeIsSink(b) ==
    LET cs   == calls[b]
        brk  == {i \in 1..Len(cs) : IsSourceF(cs[i]) # No}
        last == IF brk = {} THEN Len(cs) ELSE Min(brk)
        st   == MaxState({No} \cup {IsSinkF(cs[i]) : i \in 1..last})
    IN  IF brk # {} /\ IsSourceF(cs[last]) = Unknown THEN Unknown ELSE st

\* Mutant of ComputeWrs: the has_succs test is dropped.
ComputeWrsNoHasSuccs(b) ==
    LET s   == ComputeIsSource(b)
        all == MinState({Yes} \cup {wrsMap[x] : x \in succ[b]})
    IN  IF s # Yes /\ all > s THEN all ELSE s

\* _compute_will_reach_source.
ComputeWrs(b) ==
    LET s   == ComputeIsSource(b)
        all == MinState({Yes} \cup {wrsMap[x] : x \in succ[b]})
    IN  IF s # Yes /\ succ[b] # {} /\ all > s THEN all ELSE s

\* _compute_can_reach_sink_before_source, given the is_sink result k.
ComputeCrs(b, k) ==
    LET any == MaxState({No} \cup {crsMap[x] : x \in succ[b]})
    IN  IF k # Yes /\ srcMap[b] = No /\ succ[b] # {} /\ any > k
        THEN any ELSE k

\* Store a definitive result into a map; Unknown leaves the map alone.
Store(m, b, v) == IF v = Unknown THEN m ELSE [m EXCEPT ![b] = v]

\* The re-enqueueing done when a block has been decided: its predecessors,
\* then, for an entry block, the blocks calling its function.  The order of
\* predecessors(bb) and of the std::set caller_map[f] is not fixed here.
Requeue(b) ==
    { p \o c : p \in SetToSeqs(Preds(b)),
               c \in SetToSeqs(IF Entry[Parent[b]] = b
                               THEN callerMap[Parent[b]] ELSE {}) }

-----------------------------------------------------------------------------
Init ==
    /\ succ \in CfgChoices
    /\ calls \in [BBs -> UNION {CallChoices[b] : b \in BBs}]
    /\ \A b \in BBs : calls[b] \in CallChoices[b]
    /\ srcMap = [b \in BBs |-> Unknown]
    /\ sinkMap = [b \in BBs |-> Unknown]
    /\ wrsMap = [b \in BBs |-> Unknown]
    /\ crsMap = [b \in BBs |-> Unknown]
    /\ done = {}
    /\ scc = {}
    /\ order = <<>>
    /\ todo = <<>>
    /\ unknown = {}
    /\ callerMap = [c \in Callees |-> {}]
    /\ pc = "idle"

\* scc_iterator hands process_scc the next SCC: one whose callees are done.
\* The first loop of process_scc fills todo, unknown_bbs and caller_map.
StartScc ==
    /\ pc = "idle"
    /\ \E f \in Funcs \ done :
         LET S == SccOf(f, CallReach) IN
         /\ CalleesOutside(S) \subseteq done
         /\ \E o \in OrdersOf(S, CfgReach) :
              LET fresh == SelectSeq(o, LAMBDA b : srcMap[b] = Unknown)
                  set   == {fresh[i] : i \in 1..Len(fresh)}
              IN  /\ scc' = S
                  /\ order' = o
                  /\ todo' = fresh
                  /\ unknown' = set
                  /\ callerMap' = [c \in Callees |->
                                     {b \in set : c \in CallsIn(b)}]
    /\ pc' = "pass1"
    /\ UNCHANGED <<succ, calls, srcMap, sinkMap, wrsMap, crsMap, done>>

\* One iteration of the first while loop (will_reach_source).
Pass1Step ==
    /\ pc = "pass1"
    /\ todo # <<>>
    /\ LET b == Head(todo) IN
       IF b \notin unknown
       THEN /\ todo' = Tail(todo)
            /\ UNCHANGED <<srcMap, wrsMap, unknown>>
       ELSE LET w0  == wrsMap[b]
                src == ComputeIsSource(b)
                w   == IF w0 = Unknown THEN ComputeWrs(b) ELSE w0
                changed == w0 = Unknown /\ w # Unknown
            IN  /\ srcMap' = IF w0 = Unknown THEN Store(srcMap, b, src)
                             ELSE srcMap
                /\ wrsMap' = IF w0 = Unknown THEN Store(wrsMap, b, w)
                             ELSE wrsMap
                /\ IF changed
                   THEN /\ \E r \in Requeue(b) : todo' = Tail(todo) \o r
                        /\ unknown' = unknown \ {b}
                   ELSE /\ todo' = Tail(todo)
                        /\ UNCHANGED unknown
    /\ UNCHANGED <<succ, calls, sinkMap, crsMap, done, scc, order, callerMap, pc>>

\* The first worklist has drained: remaining unknowns will reach a source.
\* Then the second loop over the SCC's blocks fills todo and unknown_bbs
\* again, adding to caller_map.
EndPass1 ==
    /\ pc = "pass1"
    /\ todo = <<>>
    /\ LET fresh == SelectSeq(order, LAMBDA b : sinkMap[b] = Unknown)
           set   == {fresh[i] : i \in 1..Len(fresh)}
       IN  /\ wrsMap' = [b \in BBs |-> IF b \in unknown THEN Yes ELSE wrsMap[b]]
           /\ todo' = fresh
           /\ unknown' = set
           /\ callerMap' = [c \in Callees |->
                              callerMap[c] \cup {b \in set : c \in CallsIn(b)}]
    /\ pc' = "pass2"
    /\ UNCHANGED <<succ, calls, srcMap, sinkMap, crsMap, done, scc, order>>

\* One iteration of the second while loop (can_reach_sink_before_source).
Pass2Step ==
    /\ pc = "pass2"
    /\ todo # <<>>
    /\ LET b == Head(todo) IN
       IF b \notin unknown
       THEN /\ todo' = Tail(todo)
            /\ UNCHANGED <<sinkMap, crsMap, unknown>>
       ELSE LET c0 == crsMap[b]
                k  == ComputeIsSink(b)
                c  == IF c0 = Unknown THEN ComputeCrs(b, k) ELSE c0
                changed == c0 = Unknown /\ c # Unknown
            IN  /\ sinkMap' = IF c0 = Unknown THEN Store(sinkMap, b, k)
                              ELSE sinkMap
                /\ crsMap' = IF c0 = Unknown THEN Store(crsMap, b, c)
                             ELSE crsMap
                /\ IF changed
                   THEN /\ \E r \in Requeue(b) : todo' = Tail(todo) \o r
                        /\ unknown' = unknown \ {b}
                   ELSE /\ todo' = Tail(todo)
                        /\ UNCHANGED unknown
    /\ UNCHANGED <<succ, calls, srcMap, wrsMap, done, scc, order, callerMap, pc>>

\* Mutant of EndPass2: unknown_bbs outlives process_scc.
EndPass2KeepsUnknown ==
    /\ pc = "pass2"
    /\ todo = <<>>
    /\ crsMap' = [b \in BBs |-> IF b \in unknown THEN No ELSE crsMap[b]]
    /\ done' = done \cup scc
    /\ scc' = {}
    /\ pc' = IF done' = Funcs THEN "done" ELSE "idle"
    /\ UNCHANGED <<succ, calls, srcMap, sinkMap, wrsMap, order, todo, callerMap,
                   unknown>>

\* The second worklist has drained: remaining unknowns cannot reach a sink.
EndPass2 ==
    /\ pc = "pass2"
    /\ todo = <<>>
    /\ crsMap' = [b \in BBs |-> IF b \in unknown THEN No ELSE crsMap[b]]
    /\ done' = done \cup scc
    /\ scc' = {}
    /\ unknown' = {}
    /\ pc' = IF done' = Funcs THEN "done" ELSE "idle"
    /\ UNCHANGED <<succ, calls, srcMap, sinkMap, wrsMap, order, todo, callerMap>>

\* The constructor has returned; the maps are read by the rest of the pass.
Finished ==
    /\ pc = "done"
    /\ UNCHANGED vars

AnalysisStep == StartScc \/ Pass1Step \/ EndPass1 \/ Pass2Step \/ EndPass2

Next == AnalysisStep \/ Finished

Spec == Init /\ [][Next]_vars /\ WF_vars(Next)

\* sources(): the blocks mapped to true in is_source_map.
Sources == {b \in BBs : srcMap[b] = Yes}
-----------------------------------------------------------------------------
(***************************************************************************)
(* Reference definitions of the four facts (spec section 3, I3-I5, P4).   *)
(* will_reach_source is the greatest fixpoint (undecided cycles are Yes,   *)
(* I5), can_reach_sink_before_source the least one (undecided is No).      *)
(* Indirect calls count as sinks and not as sources, as in section 4.4.    *)
(***************************************************************************)
RefSourceF(W, F) == F # NULL /\ (F \in SourceList \/ (F \in Funcs /\ W[Entry[F]]))
RefSrcBB(W, b) == \E c \in CallsIn(b) : RefSourceF(W, c)

RECURSIVE GfpWrs(_)
GfpWrs(W) ==
    LET W2 == [b \in BBs |-> \/ RefSrcBB(W, b)
                             \/ succ[b] # {} /\ \A s \in succ[b] : W[s]]
    IN  IF W2 = W THEN W ELSE GfpWrs(W2)

RefWrs == GfpWrs([b \in BBs |-> TRUE])

RefSinkF(C, F) == F = NULL \/ F \in SinkList \/ (F \in Funcs /\ C[Entry[F]])
\* some call is a sink and no earlier call of the block is a source
RefSinkBB(C, b) ==
    \E i \in 1..Len(calls[b]) :
        /\ RefSinkF(C, calls[b][i])
        /\ \A j \in 1..(i - 1) : ~RefSourceF(RefWrs, calls[b][j])

RECURSIVE LfpCrs(_)
LfpCrs(C) ==
    LET C2 == [b \in BBs |-> \/ RefSinkBB(C, b)
                             \/ ~RefSrcBB(RefWrs, b) /\ \E s \in succ[b] : C[s]]
    IN  IF C2 = C THEN C ELSE LfpCrs(C2)

RefCrs == LfpCrs([b \in BBs |-> FALSE])

-----------------------------------------------------------------------------
TypeOK ==
    /\ succ \in CfgChoices
    /\ \A b \in BBs : calls[b] \in CallChoices[b]
    /\ srcMap \in [BBs -> States] /\ sinkMap \in [BBs -> States]
    /\ wrsMap \in [BBs -> States] /\ crsMap \in [BBs -> States]
    /\ done \subseteq Funcs /\ scc \subseteq Funcs
    /\ todo \in Seq(BBs)
    \* unknown_bbs is local to process_scc: blocks of the current SCC only
    /\ unknown \subseteq UNION {Blocks(x) : x \in scc}
    /\ callerMap \in [Callees -> SUBSET BBs]
    /\ pc \in {"idle", "pass1", "pass2", "done"}

\* When the constructor returns, will_reach_source of every block is the
\* greatest fixpoint: Yes exactly when every continuation of the block calls
\* a source (I3, I5).  This is about the worklist of the first pass of
\* process_scc: the requeueing of predecessors and callers, the callee
\* lookup through is_source(Function*) and the defaulting of the leftovers.
WrsMatchesReference ==
    pc = "done" => \A b \in BBs : (wrsMap[b] = Yes) <=> RefWrs[b]

\* When the constructor returns, a block said to reach a sink before a
\* source really has a path to a sink call, or an indirect call, with no
\* source call first (P4).  About the second pass of process_scc and
\* _compute_is_sink_before_source's scan with its break.
CrsSound ==
    pc = "done" => \A b \in BBs : crsMap[b] = Yes => RefCrs[b]

\* Conversely, every block with a path to a sink before any source is said
\* to reach one (I4: can_reach_sink_before_source propagates backward
\* through successors, blocked only by is_source).  add_early_termination
\* cuts the edges into blocks that are No, so a block wrongly No has its
\* sink-reaching executions terminated.
CrsComplete ==
    pc = "done" => \A b \in BBs : RefCrs[b] => crsMap[b] = Yes
=============================================================================
