-------------------------- MODULE ContextTracking --------------------------
(***************************************************************************)
(* What the code emitted by addFnWrap, processCall and countEdge does when *)
(* the instrumented program runs, on one thread (the four globals are TLS).*)
(* The thread has a call stack; each frame is an activation of a function *)
(* that is instrumented or not (library code calling back).               *)
(*   processCall:  before a call, store the call-site id to call_site, and *)
(*                 for an indirect call also to ind_call_site;             *)
(*   addFnWrap:    at entry, OriCtxVal := context (>> 32/K when K > 0),    *)
(*                 context := OriCtxVal ^ call_site; before every ret and  *)
(*                 resume, context := OriCtxVal and ind_call_site := 0;    *)
(*   countEdge:    at a counted block, the never-zero increment of the    *)
(*                 map byte at prev_loc ^ cur_loc, then                   *)
(*                 prev_loc := context ^ (cur_loc >> 1).                  *)
(* Of the coverage map one cell, Cell, is watched; its counter is kept at  *)
(* CounterBits bits (8 in the code).                                      *)
(* Exceptions unwind frame by frame: a call site whose landing pad catches *)
(* stops the unwinding, a cleanup pad ends in a resume, and a call without *)
(* landing pad leaves the frame without running any of its code.          *)
(***************************************************************************)
EXTENDS Integers, Sequences, Bitwise

CONSTANTS
    NumFnCtx,    \* num_fn_ctx: -1 (CUSTOM_FN_CTX unset), or 0..31
    MAP_SIZE,    \* size of the coverage map, 2^16
    RandomNums,  \* values getRandomNum() returns for call sites
    Locs,        \* cur_loc values of counted blocks (random() % MAP_SIZE)
    MaxDepth,    \* bound on the call stack
    Cell,        \* the coverage map index whose counter is watched
    CounterBits  \* width of a map counter (i8)

ASSUME /\ NumFnCtx \in -1..31
       /\ RandomNums \subseteq Nat /\ Locs \subseteq 0..(MAP_SIZE - 1)
       /\ MaxDepth \in Nat \ {0}
       /\ Cell \in 0..(MAP_SIZE - 1) /\ CounterBits \in Nat \ {0}

\* Mutant: the call-site id without the reduction modulo MAP_SIZE.
ContextIdsNoMod == RandomNums

\* getRandomContextId: the call-site ids csid.
ContextIds == {r % MAP_SIZE : r \in RandomNums}

\* OriCtxVal for a context value x.  For K = 1 the shift amount is 32, LShr
\* then yields poison: the build may keep x (x86 masks the count) or fold
\* the result to 0.
Shifted(x) ==
    IF NumFnCtx > 0
    THEN IF 32 \div NumFnCtx >= 32 THEN {x, 0} ELSE {shiftR(x, 32 \div NumFnCtx)}
    ELSE {x}

Pads == {"none", "cleanup", "catch"}
\* A frame: its function is instrumented or not, the OriCtxVal its entry
\* computed, the landing pad of the call it is making, and two history
\* fields: the context before its entry code ran, and the context when it
\* made its current call.
\* Values are u32; the ones that arise here stay far below 2^31, so Nat.
Frames == [instr : BOOLEAN, ori : Nat, pad : Pads, pre : Nat, callCtx : Nat]

VARIABLES
    context,     \* __angora_context
    callSite,    \* __angora_call_site
    indCallSite, \* __angora_indirect_call_site
    prevLoc,     \* __angora_prev_loc
    stack,       \* the frames, main first
    exc,         \* an exception is being propagated
    cellCount    \* __angora_area_ptr[Cell]

ctxVars == <<context, callSite, indCallSite, prevLoc, stack, exc, cellCount>>

Top == stack[Len(stack)]

\* With K = 0 addFnWrap returns at once: no entry or exit code.
Wrapped(fr) == fr.instr /\ NumFnCtx # 0

-----------------------------------------------------------------------------
\* The TLS globals start at 0; main is instrumented and its entry code has
\* run with call_site = 0.
CtxInit ==
    /\ context = 0 /\ callSite = 0 /\ indCallSite = 0 /\ prevLoc = 0
    /\ stack = << [instr |-> TRUE, ori |-> 0, pad |-> "none", pre |-> 0, callCtx |-> 0] >>
    /\ exc = FALSE
    /\ cellCount = 0

\* Mutant: a plain i8 add, the never-zero fix dropped.
NeverZeroIncPlain(c) == (c + 1) % 2^CounterBits

\* IncRet = Counter + 1; IncRet = IncRet + zext(IncRet == 0): add 1 again
\* when the add wraps to 0, all in i8.
NeverZeroInc(c) ==
    LET r == (c + 1) % 2^CounterBits
    IN  (r + IF r = 0 THEN 1 ELSE 0) % 2^CounterBits

\* Map[prev_loc ^ cur_loc] := NeverZeroInc(Map[prev_loc ^ cur_loc]).
Count(cur) == cellCount' = IF prevLoc ^^ cur = Cell THEN NeverZeroInc(cellCount) ELSE cellCount

\* Mutant: cur_loc << 1 for cur_loc >> 1.
EdgeShiftLeft ==
    /\ ~exc /\ Top.instr
    /\ \E cur \in Locs :
         /\ Count(cur)
         /\ prevLoc' = IF NumFnCtx # 0 THEN context ^^ (cur * 2) ELSE cur * 2
    /\ UNCHANGED <<context, callSite, indCallSite, stack, exc>>

\* countEdge: the edge counter of a block, then the prev_loc update.
Edge ==
    /\ ~exc /\ Top.instr
    /\ \E cur \in Locs :
         /\ Count(cur)
         /\ prevLoc' = IF NumFnCtx # 0 THEN context ^^ (cur \div 2) ELSE cur \div 2
    /\ UNCHANGED <<context, callSite, indCallSite, stack, exc>>

\* A call instruction or an invoke of the top frame.  visitInvokeInst drops
\* indirect invokes before processCall; code of an uninstrumented frame has
\* no processCall.  The callee's entry code (addFnWrap) reads call_site.
Call ==
    /\ ~exc /\ Len(stack) < MaxDepth
    /\ \E invoke \in BOOLEAN, direct \in BOOLEAN, calleeInstr \in BOOLEAN,
          csid \in ContextIds, pad \in Pads :
         LET processed == Top.instr /\ (direct \/ ~invoke)
             cs == IF processed /\ NumFnCtx # 0 THEN csid ELSE callSite
             caller == [Top EXCEPT !.pad = IF invoke THEN pad ELSE "none",
                                   !.callCtx = context]
         IN  /\ invoke \/ pad = "none"
             /\ callSite' = cs
             /\ indCallSite' = IF processed /\ ~direct THEN csid ELSE indCallSite
             /\ \E ori \in Shifted(context) :
                  LET callee == [instr |-> calleeInstr, ori |-> ori,
                                 pad |-> "none", pre |-> context, callCtx |-> 0]
                  IN  /\ stack' = Append([stack EXCEPT ![Len(stack)] = caller], callee)
                      /\ context' = IF Wrapped(callee) THEN ori ^^ cs ELSE context
    /\ UNCHANGED <<prevLoc, exc, cellCount>>

\* A ret: the exit code of addFnWrap, then back in the caller.
Return ==
    /\ ~exc /\ Len(stack) > 1
    /\ context' = IF Wrapped(Top) THEN Top.ori ELSE context
    /\ indCallSite' = IF Wrapped(Top) THEN 0 ELSE indCallSite
    /\ stack' = SubSeq(stack, 1, Len(stack) - 1)
    /\ UNCHANGED <<callSite, prevLoc, exc, cellCount>>

\* The top frame calls a function that throws (__cxa_throw), by a call or
\* by an invoke with landing pad pad; a frame on the stack catches it.
Throw ==
    /\ ~exc
    /\ \E pad \in Pads :
         /\ pad = "catch" \/ \E i \in 1..(Len(stack) - 1) : stack[i].pad = "catch"
         /\ stack' = [stack EXCEPT ![Len(stack)].pad = pad,
                                   ![Len(stack)].callCtx = context]
    /\ exc' = TRUE
    /\ UNCHANGED <<context, callSite, indCallSite, prevLoc, cellCount>>

\* The exception arrives at the top frame's current call site.
Unwind ==
    /\ exc
    /\ CASE Top.pad = "catch" ->
              /\ exc' = FALSE
              /\ UNCHANGED <<context, indCallSite, stack>>
         [] Top.pad = "cleanup" ->
              /\ context' = IF Wrapped(Top) THEN Top.ori ELSE context
              /\ indCallSite' = IF Wrapped(Top) THEN 0 ELSE indCallSite
              /\ stack' = SubSeq(stack, 1, Len(stack) - 1)
              /\ UNCHANGED exc
         [] Top.pad = "none" ->
              /\ stack' = SubSeq(stack, 1, Len(stack) - 1)
              /\ UNCHANGED <<context, indCallSite, exc>>
    /\ UNCHANGED <<callSite, prevLoc, cellCount>>

CtxNext == Edge \/ Call \/ Return \/ Throw \/ Unwind

CtxSpec == CtxInit /\ [][CtxNext]_ctxVars

-----------------------------------------------------------------------------
CtxTypeOK ==
    /\ context \in Nat /\ prevLoc \in Nat
    /\ callSite \in 0..(MAP_SIZE - 1) /\ indCallSite \in 0..(MAP_SIZE - 1)
    /\ stack \in Seq(Frames) /\ Len(stack) \in 1..MaxDepth
    /\ exc \in BOOLEAN /\ cellCount \in 0..(2^CounterBits - 1)

\* The map index prev_loc ^ cur_loc of countEdge stays inside the coverage
\* map: prev_loc, built from contexts (xors of call-site ids reduced modulo
\* MAP_SIZE, shifted for K > 0) and cur_loc >> 1, is below MAP_SIZE.
PrevLocInMap == prevLoc < MAP_SIZE

\* P3: when an instrumented function leaves by ret or by resume, the exit
\* code of addFnWrap restores context to the value it had before the
\* function's entry code ran.
ContextRestored ==
    [][ /\ Len(stack') = Len(stack) - 1
        /\ Wrapped(Top)
        /\ ~exc \/ Top.pad = "cleanup"
        => context' = Top.pre ]_ctxVars

\* When a landing pad catches an exception, the catching frame continues
\* with the context it had when it made the call that threw: the context
\* encodes the calls on the stack (spec section 4, "context update rule").
ContextAtCatch ==
    [][ exc /\ ~exc' => context' = Top.callCtx ]_ctxVars


\* countEdge's never-zero counter (spec section 4.5): once an edge has
\* been hit its map cell never reads 0 again, however often the loop runs;
\* a plain i8 add would make the 256th hit erase the edge from coverage.
EdgeNeverForgotten == [][cellCount # 0 => cellCount' # 0]_cellCount

=============================================================================
