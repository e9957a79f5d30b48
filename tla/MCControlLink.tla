---- MODULE MCControlLink ----
(* Instances of ControlLink for TLC. *)
EXTENDS ControlLink
====
