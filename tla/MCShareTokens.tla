---- MODULE MCShareTokens ----
(***************************************************************************)
(* ShareTokens for TLC: a token for one use, one for two, and one asked    *)
(* for with the limit the desktop client sends.                            *)
(***************************************************************************)
EXTENDS ShareTokens, TLC

CONSTANTS single, double, unlimited

MaxDownloadsDef == single :> 1 @@ double :> 2 @@ unlimited :> 0

Symmetry == Permutations(Requests)
====
