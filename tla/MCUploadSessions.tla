---- MODULE MCUploadSessions ----
(***************************************************************************)
(* UploadSessions for TLC.                                                 *)
(***************************************************************************)
EXTENDS UploadSessions, TLC

CONSTANT
    TheSha

\* Every session announces the same content.
SameSha == [x \in Sids |-> TheSha]

\* The handler threads are alike: no property names one.
AlikeHandlers == Permutations(Handlers)

\* Nothing expires: the run that shows a corrupt commit needs no hour of silence.
NothingExpires == timer = None

====
