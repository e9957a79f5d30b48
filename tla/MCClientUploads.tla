---- MODULE MCClientUploads ----
(***************************************************************************)
(* ClientUploads for TLC: upload_file always finds the one content s1, and *)
(* INIT_UPLOAD may have been asked with another.                           *)
(***************************************************************************)
EXTENDS ClientUploads

CONSTANT s1
SameSha == [u \in Uploads |-> s1]

====
