---- MODULE MCRoomPage ----
(***************************************************************************)
(* RoomPage for TLC.  Clicks, faults and threads that run at once share    *)
(* one bound: three clicks with two threads, two with three, one click and *)
(* one fault with three.                                                   *)
(***************************************************************************)
EXTENDS RoomPage

CONSTANT
    MaxBusy     \* clicks, faults and threads together

NotTooBusy ==
    clicks + faults + Cardinality({t \in Threads : threads[t] # NoThread})
        <= MaxBusy
====
