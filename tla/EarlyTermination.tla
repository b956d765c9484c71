-------------------------- MODULE EarlyTermination --------------------------
(***************************************************************************)
(* AngoraLLVMPass::add_early_termination, run on the maps left by the      *)
(* SinkSourceInfo constructor (initVariables builds SSI, runOnModule then  *)
(* calls add_early_termination).  It                                       *)
(*   1. collects do_not_modify: every callee of a call in a block that     *)
(*      can_reach_sink_before_source, unless ANGORA_EARLY_AGGRESSIVE is set;*)
(*   2. walks forward from the is_source blocks of the other functions and *)
(*      collects the edges from a block that is not No into a block that   *)
(*      is No;                                                             *)
(*   3. redirects each such edge through a fresh "terminator" block that   *)
(*      calls __angora_check_terminate_static and branches to the target, *)
(*      and repairs the PHI nodes of the target.                           *)
(* Terminators are successor sequences: a conditional branch whose two     *)
(* targets coincide is a block listed twice, and a PHI node has one        *)
(* incoming entry per incoming edge.                                       *)
(***************************************************************************)
EXTENDS SinkSourceInfo

CONSTANTS
    NewBBs,     \* blocks BasicBlock::Create may return, one per cuttable edge
    DupChoices  \* blocks whose single successor may be reached by two edges

ASSUME NewBBs \cap BBs = {} /\ DupChoices \subseteq BBs

AllBBs == BBs \cup NewBBs

VARIABLES
    aggressive, \* getenv("ANGORA_EARLY_AGGRESSIVE") != NULL
    dup,        \* blocks whose terminator is a br with both targets equal
    term,       \* term[b]: the successor list of b's terminator
    phi,        \* phi[b]: the incoming blocks of the PHI nodes of b
    dnm,        \* do_not_modify
    etTodo,     \* the std::deque todo of the forward walk
    seen,       \* seen
    cut,        \* edges_to_delete
    pending,    \* edges of edges_to_delete not yet rewritten
    free,       \* blocks not yet created
    etPc        \* "init", "walk", "rewrite" or "finished"

etVars == <<aggressive, dup, term, phi, dnm, etTodo, seen, cut, pending, free, etPc>>
allVars == <<vars, etVars>>

\* The terminator successors of b as built by the front end.
OrigTerm(b) ==
    IF b \in dup THEN <<CHOOSE s \in succ[b] : TRUE, CHOOSE s \in succ[b] : TRUE>>
    ELSE SetToSeq(succ[b])

\* Number of occurrences of x in the sequence s.
Occ(s, x) == Cardinality({i \in DOMAIN s : s[i] = x})

\* A PHI node of b: one incoming entry per incoming edge.
OrigPhi(b) ==
    LET ps == SetToSeq({p \in BBs : b \in succ[p]})
    IN  FlattenSeq([i \in DOMAIN ps |-> [k \in 1..Occ(OrigTerm(ps[i]), b) |-> ps[i]]])

\* Mutant: only replacePhiUsesWith, without the removal loop.
DropLaterEntriesNone(s, t) == s

\* The loop over phi.getNumIncomingValues(): keep the first entry for t and
\* remove every later one (getBasicBlockIndex is -1 when t is absent).
DropLaterEntries(s, t) ==
    LET k == IF \E i \in DOMAIN s : s[i] = t
             THEN CHOOSE i \in DOMAIN s : s[i] = t /\ \A j \in 1..(i - 1) : s[j] # t
             ELSE 0
    IN  SubSeq(s, 1, k) \o SelectSeq(SubSeq(s, k + 1, Len(s)), LAMBDA x : x # t)

\* The edge bb -> s is cut when bb may reach a sink first and s may not.
Cuts(bb, s) == crsMap[bb] # No /\ crsMap[s] = No

-----------------------------------------------------------------------------
ETInit ==
    /\ Init
    /\ aggressive \in BOOLEAN
    /\ dup \in SUBSET {b \in DupChoices : Cardinality(succ[b]) = 1}
    /\ term = [b \in AllBBs |-> IF b \in BBs THEN OrigTerm(b) ELSE <<>>]
    /\ phi = [b \in AllBBs |-> IF b \in BBs THEN OrigPhi(b) ELSE <<>>]
    /\ dnm = {}
    /\ etTodo = <<>>
    /\ seen = {}
    /\ cut = {}
    /\ pending = {}
    /\ free = NewBBs
    /\ etPc = "init"

\* The do_not_modify loop, then the seeding of the walk with sources() in
\* the order of the pointer-keyed is_source_map.
Seed ==
    /\ pc = "done" /\ etPc = "init"
    /\ LET d == IF aggressive THEN {}
                ELSE UNION {CallsIn(b) : b \in {x \in BBs : crsMap[x] = Yes}}
       IN  /\ dnm' = d
           /\ etTodo' \in SetToSeqs({b \in Sources : Parent[b] \notin d})
    /\ etPc' = "walk"
    /\ UNCHANGED <<aggressive, dup, term, phi, seen, cut, pending, free>>

\* One iteration of the while (!todo.empty()) loop.
WalkStep ==
    /\ etPc = "walk" /\ etTodo # <<>>
    /\ LET bb == Head(etTodo) IN
       IF bb \in seen
       THEN /\ etTodo' = Tail(etTodo)
            /\ UNCHANGED <<seen, cut>>
       ELSE /\ seen' = seen \cup {bb}
            /\ cut' = cut \cup {<<bb, s>> : s \in {s \in Range(term[bb]) : Cuts(bb, s)}}
            /\ etTodo' = Tail(etTodo) \o SelectSeq(term[bb], LAMBDA s : ~Cuts(bb, s))
    /\ UNCHANGED <<aggressive, dup, term, phi, dnm, pending, free, etPc>>

EndWalk ==
    /\ etPc = "walk" /\ etTodo = <<>>
    /\ pending' = cut
    /\ etPc' = "rewrite"
    /\ UNCHANGED <<aggressive, dup, term, phi, dnm, etTodo, seen, cut, free>>

\* Mutant: one terminator block created before the loop and shared.
RewriteEdgeOneBlock ==
    /\ etPc = "rewrite" /\ free # {}
    /\ \E e \in pending :
         LET t == CHOOSE x \in NewBBs : TRUE
         IN  /\ term' = [term EXCEPT ![e[1]] = ReplaceAll(@, e[2], t), ![t] = <<e[2]>>]
             /\ phi' = [phi EXCEPT ![e[2]] = DropLaterEntries(ReplaceAll(@, e[1], t), t)]
             /\ free' = free \ {t}
             /\ pending' = pending \ {e}
    /\ UNCHANGED <<aggressive, dup, dnm, etTodo, seen, cut, etPc>>

\* One iteration of the loop over edges_to_delete (a std::set of pointer
\* pairs, so in no fixed order): create the terminator block, redirect
\* every successor of from equal to `to`, rename the PHI entries and drop
\* the duplicates.
RewriteEdge ==
    /\ etPc = "rewrite" /\ free # {}
    /\ \E e \in pending :
         LET from == e[1]
             to   == e[2]
             t    == CHOOSE x \in free : TRUE
         IN  /\ term' = [term EXCEPT ![from] = ReplaceAll(@, to, t), ![t] = <<to>>]
             /\ phi' = [phi EXCEPT ![to] = DropLaterEntries(ReplaceAll(@, from, t), t)]
             /\ free' = free \ {t}
             /\ pending' = pending \ {e}
    /\ UNCHANGED <<aggressive, dup, dnm, etTodo, seen, cut, etPc>>

EndRewrite ==
    /\ etPc = "rewrite" /\ pending = {}
    /\ etPc' = "finished"
    /\ UNCHANGED <<aggressive, dup, term, phi, dnm, etTodo, seen, cut, pending, free>>

ETFinished ==
    /\ etPc = "finished"
    /\ UNCHANGED allVars

\* add_early_termination runs once the SinkSourceInfo constructor is done.
ETNext ==
    \/ AnalysisStep /\ UNCHANGED etVars
    \/ Seed /\ UNCHANGED vars
    \/ WalkStep /\ UNCHANGED vars
    \/ EndWalk /\ UNCHANGED vars
    \/ RewriteEdge /\ UNCHANGED vars
    \/ EndRewrite /\ UNCHANGED vars
    \/ ETFinished

ETSpec == ETInit /\ [][ETNext]_allVars /\ WF_allVars(ETNext)

-----------------------------------------------------------------------------
(***************************************************************************)
(* Reference: where a sink is still reachable before a source once the     *)
(* current function returns.  A call at position i of block c returns into *)
(* the rest of c, then into c's successors or, through an exit of c's     *)
(* function, into that function's callers.                                *)
(***************************************************************************)
SinkAfterCall(c, i) ==
    \E j \in (i + 1)..Len(calls[c]) :
        /\ RefSinkF(RefCrs, calls[c][j])
        /\ \A k \in (i + 1)..(j - 1) : ~RefSourceF(RefWrs, calls[c][k])

SrcAfterCall(c, i) == \E j \in (i + 1)..Len(calls[c]) : RefSourceF(RefWrs, calls[c][j])

\* From b an exit block (no successors) of its function is reachable through
\* blocks none of which calls a source.
ExitWithoutSource(b) ==
    LET E == [x \in BBs |-> IF RefSrcBB(RefWrs, x) THEN {} ELSE succ[x]]
    IN  \E x \in Closure(E, {b}) : succ[x] = {} /\ ~RefSrcBB(RefWrs, x)

\* Least set of functions whose return can lead to a sink before a source.
RECURSIVE LfpRet(_)
LfpRet(R) ==
    LET Cont(c, i) ==
          \/ SinkAfterCall(c, i)
          \/ /\ ~SrcAfterCall(c, i)
             /\ \/ \E s \in succ[c] : RefCrs[s]
                \/ /\ succ[c] = {} \/ \E s \in succ[c] : ExitWithoutSource(s)
                   /\ Parent[c] \in R
        R2 == {F \in Funcs : \E c \in BBs : \E i \in 1..Len(calls[c]) :
                                 calls[c][i] = F /\ Cont(c, i)}
    IN  IF R2 = R THEN R ELSE LfpRet(R2)

ReturnsToSink == LfpRet({})

-----------------------------------------------------------------------------

\* After every rewritten edge each PHI node of a block has exactly one
\* incoming entry per incoming edge (P5): replacePhiUsesWith followed by
\* the removal of the later entries for the terminator block, also when the
\* terminator of `from` branched to `to` more than once.
PhiMatchesEdges ==
    \A x \in BBs : \A p \in AllBBs : Occ(phi[x], p) = Occ(term[p], x)

\* Every successor slot of an original block still leads to the block it
\* led to before, directly or through exactly one terminator block that
\* branches unconditionally to it: replaceSuccessorWith redirects only the
\* cut edges, and each created block has the one predecessor it was made for.
EdgesPreserved ==
    LET Through(x) == IF x \in NewBBs THEN term[x][1] ELSE x
    IN  /\ \A b \in BBs : [i \in DOMAIN term[b] |-> Through(term[b][i])] = OrigTerm(b)
        /\ \A t \in NewBBs \ free :
              /\ Len(term[t]) = 1 /\ term[t][1] \in BBs
              /\ Cardinality({b \in AllBBs : t \in Range(term[b])}) = 1

\* A terminator is only placed on an edge into a block from which no sink
\* can be reached before a source, counting the code after the current
\* function returns: the comment of add_early_termination says callees
\* returning into a block that can later call a sink are left alone unless
\* ANGORA_EARLY_AGGRESSIVE is set.
CutKeepsReturnSinks ==
    ~aggressive /\ etPc = "finished" =>
        \A e \in cut : ExitWithoutSource(e[2]) => Parent[e[2]] \notin ReturnsToSink

=============================================================================
