------------------------ MODULE MC_SinkSourceInfo ------------------------
(***************************************************************************)
(* A module with two defined functions f and g and the declarations Src   *)
(* (category source), Snk (category sink).  f has a loop f1 <-> f2 with   *)
(* an exit f3; g has a single block.  Every block may contain no call, a  *)
(* call to a source, to a sink, to both in either order, a direct call    *)
(* to f or g (recursion and mutual recursion) or an indirect call.        *)
(***************************************************************************)
EXTENDS SinkSourceInfo

CONSTANTS f, g, Src, Snk, f0, f1, f2, f3, g0

MCFuncs == {f, g}
MCDecls == {Src, Snk}
MCSourceList == {Src}
MCSinkList == {Snk}
MCBBs == {f0, f1, f2, f3, g0}
MCParent == [b \in MCBBs |-> IF b = g0 THEN g ELSE f]
MCEntry == [x \in MCFuncs |-> IF x = f THEN f0 ELSE g0]
\* f0 -> f1 -> {f2, f3}, f2 -> f1: a loop with one exit
SuccLoop == (f0 :> {f1} @@ f1 :> {f2, f3} @@ f2 :> {f1} @@ f3 :> {} @@ g0 :> {})
\* f0 -> {f1, f3}, f1 -> f2: a branch, one arm two blocks long
SuccBranch == (f0 :> {f1, f3} @@ f1 :> {f2} @@ f2 :> {} @@ f3 :> {} @@ g0 :> {})
MCCfgChoices == {SuccLoop, SuccBranch}
\* The call sequences of each block: the entry f0 calls nothing or g, the
\* exit f3 nothing, a source or a sink; g0 may also call f (mutual
\* recursion) or make an indirect call.
SmallCalls == {<<>>, <<Src>>, <<Snk>>, <<Snk, Src>>, <<f>>, <<g>>}
MCCallChoices ==
    (f0 :> {<<>>, <<g>>} @@
     f1 :> SmallCalls @@
     f2 :> SmallCalls \cup {<<Src, Snk>>} @@
     f3 :> {<<>>, <<Src>>, <<Snk>>} @@
     g0 :> {<<>>, <<Src>>, <<Snk>>, <<Snk, Src>>, <<f>>, <<NULL>>})
=============================================================================
