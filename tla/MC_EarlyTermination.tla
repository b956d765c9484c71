----------------------- MODULE MC_EarlyTermination -----------------------
(***************************************************************************)
(* Two defined functions: f with blocks f0, f1, f2 shaped as a chain or as *)
(* a triangle, and h with h0 -> h1.  h0 calls f (with a sink before or     *)
(* after the call, or none), f0 may call h back (recursion through the     *)
(* SCC {f, h}).  Src is the source, Snk the sink.  f0 and f1 may end in a  *)
(* conditional branch whose two targets coincide.                          *)
(***************************************************************************)
EXTENDS EarlyTermination

CONSTANTS f, h, Src, Snk, f0, f1, f2, h0, h1, t1, t2, t3, t4

MCFuncs == {f, h}
MCDecls == {Src, Snk}
MCSourceList == {Src}
MCSinkList == {Snk}
MCBBs == {f0, f1, f2, h0, h1}
MCNewBBs == {t1, t2, t3, t4}
MCParent == [b \in MCBBs |-> IF b \in {h0, h1} THEN h ELSE f]
MCEntry == [x \in MCFuncs |-> IF x = f THEN f0 ELSE h0]
\* f0 -> f1 -> f2
Chain == (f0 :> {f1} @@ f1 :> {f2} @@ f2 :> {} @@ h0 :> {h1} @@ h1 :> {})
\* f0 -> {f1, f2}, f1 -> f2
Triangle == (f0 :> {f1, f2} @@ f1 :> {f2} @@ f2 :> {} @@ h0 :> {h1} @@ h1 :> {})
MCCfgChoices == {Chain, Triangle}
MCDupChoices == {f0, f1}
MCCallChoices ==
    (f0 :> {<<Src>>, <<>>, <<h>>} @@
     f1 :> {<<Snk>>, <<>>, <<Src>>, <<Snk, Src>>} @@
     f2 :> {<<>>, <<Snk>>} @@
     h0 :> {<<f>>, <<Snk, f>>} @@
     h1 :> {<<>>, <<Snk>>})
\* Without the call of h in f0: no recursion, so the analysis is exact.
MCCallChoicesNoRec == [b \in MCBBs |-> MCCallChoices[b] \ {<<h>>}]
=============================================================================
