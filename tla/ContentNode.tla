---- MODULE ContentNode ----
(***************************************************************************)
(* What the coordinator may rely on a storage node (storage-node/, Java)   *)
(* for.  A node keeps blobs named by the SHA-256 of their bytes, accepts   *)
(* bytes only for files it was handed a valid upload ticket for, and tells *)
(* the coordinator how each upload ended.  No report is ever retried: the  *)
(* node logs a failed send, or an error answer, and goes on.               *)
(*                                                                         *)
(* The module describes every node at once.  When a ticket is valid is     *)
(* not its business: FileRecords composes it with the files table, which   *)
(* decides that.                                                           *)
(***************************************************************************)
EXTENDS FiniteSets

CONSTANTS
    FileIds,    \* identifiers of rows of the files table
    Shas,       \* contents, named by their SHA-256
    Nodes       \* storage nodes

VARIABLES
    granted,    \* granted[n]: files for which n has verified an upload ticket
    stored,     \* stored[n]: contents now in n's permanent store
    lost,       \* lost[n]: contents n stored once and its disk then lost
    reports     \* messages from nodes the coordinator has not handled yet

nodeVars == <<granted, stored, lost, reports>>

CompleteReport == [type : {"UPLOAD_COMPLETE"}, node : Nodes, file : FileIds, sha : Shas]
FailedReport   == [type : {"UPLOAD_FAILED"}, node : Nodes, file : FileIds]

NodeTypeOK ==
    /\ granted \in [Nodes -> SUBSET FileIds]
    /\ stored  \in [Nodes -> SUBSET Shas]
    /\ lost    \in [Nodes -> SUBSET Shas]
    /\ reports \subseteq (CompleteReport \cup FailedReport)

\* Every content that ever reached n's permanent store.
Committed(n) == stored[n] \cup lost[n]

NodeInit ==
    /\ granted = [n \in Nodes |-> {}]
    /\ stored  = [n \in Nodes |-> {}]
    /\ lost    = [n \in Nodes |-> {}]
    /\ reports = {}

----
\* OPEN_UPLOAD with a ticket that verifies.  The ticket binds the session, the
\* file, the node and an expiry, and nothing else.
Grant(n, f) ==
    /\ granted' = [granted EXCEPT ![n] = @ \cup {f}]
    /\ UNCHANGED <<stored, lost, reports>>

\* FINALIZE_UPLOAD moves the assembled bytes into the store after their hash
\* matched the hash the client announced in OPEN_UPLOAD.  That hash is the
\* client's: nothing ties it to the hash in the coordinator's row.
Commit(n, s) ==
    /\ granted[n] # {}
    /\ s \notin stored[n]
    /\ stored' = [stored EXCEPT ![n] = @ \cup {s}]
    /\ UNCHANGED <<granted, lost, reports>>

\* The notification comes after the commit, or after the store was looked up.
MayReport(n, s) == s \in Committed(n)

\* UPLOAD_COMPLETE: after a finalize, or at OPEN_UPLOAD when the announced
\* content is stored already.
ReportComplete(n, f, s) ==
    /\ f \in granted[n]
    /\ MayReport(n, s)
    /\ reports' = reports \cup {[type |-> "UPLOAD_COMPLETE", node |-> n, file |-> f, sha |-> s]}
    /\ UNCHANGED <<granted, stored, lost>>

\* UPLOAD_FAILED: the hash of the assembled file is wrong, the virus scan
\* rejected it, or an I/O error interrupted the finalize.
ReportFailed(n, f) ==
    /\ f \in granted[n]
    /\ reports' = reports \cup {[type |-> "UPLOAD_FAILED", node |-> n, file |-> f]}
    /\ UNCHANGED <<granted, stored, lost>>

\* The control connection breaks with the report on it, or the coordinator
\* answers with an error: the node logs it and goes on.
DropReport(m) ==
    /\ m \in reports
    /\ reports' = reports \ {m}
    /\ UNCHANGED <<granted, stored, lost>>

\* The data volume loses a blob (nothing in the node deletes one).
DiskLoss(n, s) ==
    /\ s \in stored[n]
    /\ stored' = [stored EXCEPT ![n] = @ \ {s}]
    /\ lost'   = [lost EXCEPT ![n] = @ \cup {s}]
    /\ UNCHANGED <<granted, reports>>

NodeStep ==
    \/ \E n \in Nodes, s \in Shas : Commit(n, s) \/ DiskLoss(n, s)
    \/ \E n \in Nodes, f \in FileIds, s \in Shas : ReportComplete(n, f, s)
    \/ \E n \in Nodes, f \in FileIds : ReportFailed(n, f)
    \/ \E m \in reports : DropReport(m)

\* A node on its own: any ticket may turn out to be valid.
NodeNext == NodeStep \/ \E n \in Nodes, f \in FileIds : Grant(n, f)

NodeSpec == NodeInit /\ [][NodeNext]_nodeVars

----
(***************************************************************************)
(* The promise the coordinator builds on: a completion report on its way   *)
(* names content that its sender has really put in its permanent store     *)
(* (ClientHandler.handleFinalizeUpload commits before it notifies).        *)
(***************************************************************************)
ReportsAreTruthful ==
    \A m \in reports :
        m.type = "UPLOAD_COMPLETE" => m.sha \in Committed(m.node)

====
