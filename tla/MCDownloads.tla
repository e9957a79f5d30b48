---- MODULE MCDownloads ----
(* Instances of Downloads for TLC. *)
EXTENDS Downloads, TLC

CONSTANTS A, B

SizeDef == A :> 2 @@ B :> 1
EvenDef == {A}
====
