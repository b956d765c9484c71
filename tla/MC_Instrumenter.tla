---------------------------- MODULE MC_Instrumenter ----------------------------
(***************************************************************************)
(* A function of three blocks: the entry e, a block l that may start with *)
(* phis, and an exit x ending in ret or, after a landingpad, in resume.   *)
(* The blocks hold calls (direct, indirect, to a socket function),        *)
(* invokes, comparisons of each operand class, CmpMap branches, switches, *)
(* intrinsics, cmpfn and exploitation calls and __unfold_branch_fn.  initVariables reads a *)
(* module name of length 0, 2 or 5 (size_t cut to 8 bits: 2 - 3 still    *)
(* wraps above the length), ANGORA_INST_RATIO unset, junk, 0, 50 or 101,  *)
(* and CUSTOM_FN_CTX 0, 32 or -3; skipBasicBlock draws 10 or 70.  The    *)
(* pass runs in any of its three modes.                                   *)
(***************************************************************************)
EXTENDS Instrumenter

CONSTANTS e, l, x

MCRatioEnvs == {Unset, Junk, 0, 50, 101}
MCCtxEnvs == {0, 32, -3}
\* CUSTOM_FN_CTX unset: the default depth, and the ratio unset.
DefaultEnvs == {Unset}
MCBBList == <<e, l, x>>
MCBodies ==
    (e :> {<<"other", "call", "cbr">>, <<"cmp", "br">>, <<"icall", "invoke">>,
           <<"unfold", "cmp.small", "switch">>, <<"intrinsic", "cmpfn", "iinvoke">>} @@
     l :> {<<"phi", "cmp", "br">>, <<"phi", "phi", "sockcall", "cbr">>, <<"br">>,
           <<"phi", "cmp.wide", "unfold.used", "switch.bits">>, <<"cmp.vec", "switch.const">>} @@
     x :> {<<"phi", "ret">>, <<"ret">>, <<"lpad", "call", "resume">>, <<"other", "ret">>,
           <<"xcall", "ret">>})
\* The entry may also invoke a socket function.
MCBodiesSockInvoke == [MCBodies EXCEPT ![e] = @ \cup {<<"sockcall", "sockinvoke">>}]
=============================================================================
