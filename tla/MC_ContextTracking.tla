------------------------- MODULE MC_ContextTracking -------------------------
(***************************************************************************)
(* Two call-site ids: 70001 % 2^16 = 4465 and 5.  Two counted blocks, one *)
(* with cur_loc above 2^15.  Calls nest three frames deep (main included). *)
(* The watched counter is cut to 2 bits so that it wraps after 4 hits.    *)
(***************************************************************************)
EXTENDS ContextTracking

\* CUSTOM_FN_CTX unset
DefaultCtx == -1
\* CUSTOM_FN_CTX=2: OriCtxVal := context >> 16
DepthTwoCtx == 2
MCMapSize == 2^16
MCRandomNums == {70001, 5}
MCLocs == {40000, 6}
\* The edge of block 6 to itself at context 0: (6 >> 1) ^ 6.
MCCell == 5
=============================================================================
