---- MODULE MCNodeRegistry ----
(***************************************************************************)
(* NodeRegistry for TLC: nodes, uploads and descriptors are                *)
(* interchangeable, connections are not (they are numbered).               *)
(***************************************************************************)
EXTENDS NodeRegistry, TLC

Symmetry == Permutations(Nodes) \cup Permutations(Uploads) \cup Permutations(Fds)

====
