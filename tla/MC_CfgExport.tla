----------------------------- MODULE MC_CfgExport -----------------------------
(***************************************************************************)
(* Four blocks: b1 branches to the loop b2 -> b3 -> b2 and to the exit b4, *)
(* b3 also leaves the loop to b4.  Each block may hold a comparison, a    *)
(* call to a sink, or neither, and end in a plain or a CmpMap terminator. *)
(* In FrontPlain every block starts with a plain instruction (a phi, a    *)
(* load) or is its terminator alone; FrontAny also lets a block start     *)
(* with a comparison, a sink call or a CmpMap terminator.                 *)
(***************************************************************************)
EXTENDS CfgExport

CONSTANTS b1, b2, b3, b4

MCBlocks == {b1, b2, b3, b4}
MCSucc == (b1 :> {b2, b4} @@ b2 :> {b3} @@ b3 :> {b2, b4} @@ b4 :> {})
FrontPlain ==
    (b1 :> {<<"plain", "cmp", "cbr">>, <<"plain", "cmp", "br">>} @@
     b2 :> {<<"plain", "sink", "cmp", "br">>, <<"plain", "cmp", "sink", "br">>,
            <<"plain", "br">>} @@
     b3 :> {<<"plain", "cbr">>, <<"plain", "cmp", "br">>, <<"br">>} @@
     b4 :> {<<"plain", "sink", "br">>, <<"plain", "br">>})
FrontAny ==
    [b \in MCBlocks |-> FrontPlain[b] \cup
        {<<"cmp", "plain", "br">>, <<"sink", "cmp", "br">>, <<"cbr">>}]
=============================================================================
