------------------------------ MODULE PassConfig ------------------------------
(***************************************************************************)
(* The checks of AngoraLLVMPass::initVariables: the module name, the      *)
(* .bc suffix test, ANGORA_INST_RATIO and CUSTOM_FN_CTX.  The name is     *)
(* abstracted to its length and whether it ends in ".bc"; size_t          *)
(* arithmetic is kept modulo 2^SizeBits.  An environment variable is      *)
(* Unset, Junk (sscanf finds no number) or the number the code parses.   *)
(* FATAL and the exit(1) of the context check stop the compilation with a *)
(* diagnostic; both are "fatal" here.                                     *)
(***************************************************************************)
EXTENDS Integers

CONSTANTS
    NameLens,    \* lengths of M.getModuleIdentifier()
    RatioEnvs,   \* ANGORA_INST_RATIO as sscanf("%u") reads it
    CtxEnvs,     \* CUSTOM_FN_CTX as atoi reads it
    SizeBits     \* width of size_t (64)

Unset == -1000
Junk == -2000

ASSUME /\ NameLens \subseteq Nat /\ \A n \in NameLens : n < 2^SizeBits
       /\ RatioEnvs \subseteq {Unset, Junk} \cup Nat
       /\ CtxEnvs \subseteq {Unset} \cup Int

VARIABLES
    nameLen,   \* ModName.size()
    bcSuffix,  \* the last three characters of ModName are ".bc"
    ratioEnv,  \* getenv("ANGORA_INST_RATIO")
    ctxEnv,    \* getenv(CUSTOM_FN_CTX)
    instRatio, \* inst_ratio
    numFnCtx,  \* num_fn_ctx
    isBc,      \* is_bc
    cfgPc      \* "name", "suffix", "ratio", "ctx", "ready", "fatal", "thrown"

cfgVars == <<nameLen, bcSuffix, ratioEnv, ctxEnv, instRatio, numFnCtx, isBc, cfgPc>>

CfgInit ==
    /\ nameLen \in NameLens
    /\ bcSuffix \in IF nameLen >= 3 THEN BOOLEAN ELSE {FALSE}
    /\ ratioEnv \in RatioEnvs
    /\ ctxEnv \in CtxEnvs
    /\ instRatio = 100
    /\ numFnCtx = -1
    /\ isBc = FALSE
    /\ cfgPc = "name"

\* if (ModName.size() == 0) FATAL("No ModName!\n");
CheckName ==
    /\ cfgPc = "name"
    /\ cfgPc' = IF nameLen = 0 THEN "fatal" ELSE "suffix"
    /\ UNCHANGED <<nameLen, bcSuffix, ratioEnv, ctxEnv, instRatio, numFnCtx, isBc>>

\* is_bc = 0 == ModName.compare(ModName.length() - 3, 3, ".bc"):
\* std::string::compare throws std::out_of_range when pos > size(), and
\* length() - 3 wraps for a name shorter than 3.
CheckSuffix ==
    /\ cfgPc = "suffix"
    /\ LET pos == (nameLen - 3) % 2^SizeBits
       IN  IF pos > nameLen
           THEN cfgPc' = "thrown" /\ UNCHANGED isBc
           ELSE cfgPc' = "ratio" /\ isBc' = bcSuffix
    /\ UNCHANGED <<nameLen, bcSuffix, ratioEnv, ctxEnv, instRatio, numFnCtx>>

\* Mutant: the value 0 accepted.
BadRatioNoZero(v) == v = Junk \/ v > 100

\* sscanf(inst_ratio_str, "%u", &inst_ratio) != 1 || !inst_ratio ||
\* inst_ratio > 100
BadRatio(v) == v = Junk \/ v = 0 \/ v > 100

\* if (inst_ratio_str) { if (...) FATAL(...); }: sscanf has stored the
\* value in inst_ratio before the test.
CheckRatio ==
    /\ cfgPc = "ratio"
    /\ IF ratioEnv = Unset
       THEN cfgPc' = "ctx" /\ UNCHANGED instRatio
       ELSE /\ instRatio' = IF ratioEnv = Junk THEN instRatio ELSE ratioEnv
            /\ cfgPc' = IF BadRatio(ratioEnv) THEN "fatal" ELSE "ctx"
    /\ UNCHANGED <<nameLen, bcSuffix, ratioEnv, ctxEnv, numFnCtx, isBc>>

\* num_fn_ctx = -1; if (custom_fn_ctx) { num_fn_ctx = atoi(custom_fn_ctx);
\* if (num_fn_ctx < 0 || num_fn_ctx >= 32) { errs() << ...; exit(1); } }
CheckCtx ==
    /\ cfgPc = "ctx"
    /\ numFnCtx' = IF ctxEnv = Unset THEN -1 ELSE ctxEnv
    /\ cfgPc' = IF ctxEnv # Unset /\ (ctxEnv < 0 \/ ctxEnv >= 32) THEN "fatal" ELSE "ready"
    /\ UNCHANGED <<nameLen, bcSuffix, ratioEnv, ctxEnv, instRatio, isBc>>

\* The compilation has stopped in initVariables.
Aborted ==
    /\ cfgPc \in {"fatal", "thrown"}
    /\ UNCHANGED cfgVars

ConfigStep == CheckName \/ CheckSuffix \/ CheckRatio \/ CheckCtx

\* skipBasicBlock(): (random() % 100) >= inst_ratio, for a draw r of
\* random() % 100.
SkipBasicBlock(r) == r >= instRatio

-----------------------------------------------------------------------------
\* Section 7 (exit codes): initVariables stops the compilation with a
\* diagnostic exactly when the module name is missing, ANGORA_INST_RATIO
\* is not a number in 1..100, or CUSTOM_FN_CTX is outside 0..31; otherwise
\* the pass goes on with that ratio and depth, and at ratio 100 it skips
\* no block.
FatalExactlyOnBadConfig ==
    /\ cfgPc \in {"fatal", "ready"} =>
          (cfgPc = "fatal" <=> \/ nameLen = 0
                               \/ ratioEnv # Unset /\ ratioEnv \notin 1..100
                               \/ ctxEnv # Unset /\ ctxEnv \notin 0..31)
    /\ cfgPc = "ready" => /\ instRatio \in 1..100 /\ numFnCtx \in -1..31
                          /\ instRatio = 100 => \A r \in 0..99 : ~SkipBasicBlock(r)

=============================================================================
