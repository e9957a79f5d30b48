---- MODULE MCRoomMembership ----
(* Instances of RoomMembership for TLC. *)
EXTENDS RoomMembership, TLC

Symmetry == Permutations(Workers)
====
