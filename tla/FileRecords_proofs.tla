---- MODULE FileRecords_proofs ----
(***************************************************************************)
(* Proofs about FileRecords, for every number of files, contents, rooms,   *)
(* nodes and threads.                                                      *)
(***************************************************************************)
EXTENDS FileRecords, TLAPS

----
(***************************************************************************)
(* Shapes: what kind of record a slot holds, read off its pc or status.    *)
(***************************************************************************)

\* A row that is in the table has all the columns.
LEMMA PresentRow ==
    ASSUME TypeOK, NEW f \in Present
    PROVE  f \in FileIds /\ files[f] \in Row
  BY DEF TypeOK, Present

\* A thread between the duplicate check and the INSERT holds a whole request.
LEMMA RequestShape ==
    ASSUME TypeOK, NEW w \in Workers, workers[w].pc \in {"candidates", "version", "insert"}
    PROVE  workers[w] \in Request
  <1>1. workers[w] \in Request \cup TicketRequest \cup {Idle}
    BY DEF TypeOK
  <1>2. workers[w] \notin TicketRequest /\ workers[w] # Idle
    BY DEF TicketRequest, Idle
  <1> QED  BY <1>1, <1>2

\* A thread about to store a ticket knows its row.
LEMMA TicketShape ==
    ASSUME TypeOK, NEW w \in Workers, workers[w].pc = "ticket"
    PROVE  workers[w] \in TicketRequest
  <1>1. workers[w] \in Request \cup TicketRequest \cup {Idle}
    BY DEF TypeOK
  <1>2. workers[w] \notin Request /\ workers[w] # Idle
    BY DEF Request, Idle
  <1> QED  BY <1>1, <1>2

\* A reconciliation under way holds a manifest and a list of rows.
LEMMA ScanShape ==
    ASSUME TypeOK, NEW a \in Scans, scans[a].pc \in {"select", "mark"}
    PROVE  scans[a] \in Scan
  <1>1. scans[a] \in Scan \cup {Idle}
    BY DEF TypeOK
  <1>2. scans[a] # Idle
    BY DEF Idle
  <1> QED  BY <1>1, <1>2

----
(***************************************************************************)
(* Type correctness.                                                       *)
(***************************************************************************)

\* The row an INSERT adds is a row of the table.
LEMMA NewRowType ==
    ASSUME NEW q \in Request, q.version \in Nat \ {0}, NEW n \in Nodes,
           NEW status \in Statuses
    PROVE  NewRow(q, n, status) \in Row
  <1>1. (status = "READY" /\ Reconciling(n)) \in BOOLEAN
    OBVIOUS
  <1> QED  BY <1>1 DEF NewRow, Row, Request

\* A thread that is to insert its row has read its version.
VersionRead ==
    \A w \in Workers : workers[w].pc = "insert" => workers[w].version # 0

\* TypeOK is inductive together with VersionRead.
TypeInv == TypeOK /\ VersionRead

LEMMA TypeInit == Init => TypeInv
  BY DEF Init, NodeInit, TypeInv, TypeOK, NodeTypeOK, VersionRead, Idle

LEMMA InitUploadType ==
    ASSUME TypeInv, NEW w \in Workers, InitUpload(w)
    PROVE  TypeInv'
  <1> USE DEF TypeInv
  <1> SUFFICES VersionRead' /\ files' \in [FileIds -> Row \cup {NoRow}]
                /\ workers' \in [Workers -> Request \cup TicketRequest \cup {Idle}]
                /\ UNCHANGED <<scans, nodeVars>>
    BY DEF TypeOK, NodeTypeOK, nodeVars
  <1>1. ASSUME NEW r \in Rooms, NEW n \in Names, NEW s \in Shas,
               CheckDuplicate(w, r, n, s) \/ CheckDuplicateFails(w, r, n, s)
        PROVE  VersionRead' /\ files' \in [FileIds -> Row \cup {NoRow}]
                /\ workers' \in [Workers -> Request \cup TicketRequest \cup {Idle}]
                /\ UNCHANGED <<scans, nodeVars>>
    <2>1. \A blind \in SUBSET {"duplicates"} : Admitted(r, n, s, blind) \in Request
      BY DEF Admitted, Request, Present
    <2>2. UNCHANGED <<files, scans, nodeVars>>
          /\ \E blind \in SUBSET {"duplicates"} :
                workers' = [workers EXCEPT ![w] = Admitted(r, n, s, blind)]
      BY <1>1 DEF CheckDuplicate, CheckDuplicateFails
    <2> QED  BY <2>1, <2>2 DEF TypeOK, VersionRead, Admitted
  <1>2. CASE FindCandidates(w)
    <2>1. workers[w] \in Request
      BY <1>2, RequestShape DEF FindCandidates
    <2>2. \A n \in Holders(workers[w].sha) : n \in Nodes
      BY PresentRow DEF Holders, Row
    <2>3. PICK n \in Nodes \cup {NoNode} :
              workers' = [workers EXCEPT ![w] = [@ EXCEPT !.pc = "version", !.source = n]]
      BY <1>2, <2>2 DEF FindCandidates
    <2>4. [workers[w] EXCEPT !.pc = "version", !.source = n] \in Request
      BY <2>1 DEF Request
    <2> QED  BY <1>2, <2>3, <2>4 DEF TypeOK, VersionRead, FindCandidates
  <1>3. CASE ReadVersion(w) \/ ReadVersionFails(w)
    <2>1. workers[w] \in Request
      BY <1>3, RequestShape DEF ReadVersion, ReadVersionFails
    <2>2. \A v \in MaxVersions(workers[w].room, workers[w].name) : v \in Nat
      BY PresentRow DEF MaxVersions, Versions, Row
    <2>3. \E q \in Request : q.version # 0 /\ workers' = [workers EXCEPT ![w] = q]
      <3>1. CASE ReadVersion(w)
        <4>1. PICK v \in MaxVersions(workers[w].room, workers[w].name) :
                workers' = [workers EXCEPT ![w] = [@ EXCEPT !.pc = "insert", !.version = v + 1]]
          BY <3>1 DEF ReadVersion
        <4> DEFINE q == [workers[w] EXCEPT !.pc = "insert", !.version = v + 1]
        <4>2. v + 1 \in Nat \ {0}
          BY <2>2
        <4>3. q \in Request /\ q.version # 0
          BY <2>1, <4>2 DEF Request
        <4> QED  BY <4>1, <4>3
      <3>2. CASE ReadVersionFails(w)
        <4> DEFINE b == workers[w].blind \cup {"version"}
                   new == [workers[w] EXCEPT !.pc = "insert", !.version = 1, !.blind = b]
        <4>1. b \in SUBSET {"duplicates", "version"}
          BY <2>1 DEF Request
        <4>2. workers' = [workers EXCEPT ![w] = new]
          BY <3>2 DEF ReadVersionFails
        <4>3. new \in Request
          <5> HIDE DEF b
          <5> QED  BY <2>1, <4>1 DEF Request
        <4>4. new.version # 0
          <5> HIDE DEF b
          <5>1. new.version = 1
            BY <2>1 DEF Request
          <5> QED  BY <5>1
        <4> HIDE DEF new
        <4> QED  BY <4>2, <4>3, <4>4
      <3> QED  BY <1>3, <3>1, <3>2
    <2> QED  BY <1>3, <2>3 DEF TypeOK, VersionRead, ReadVersion, ReadVersionFails
  <1>4. ASSUME NEW f \in FileIds, InsertReady(w, f)
        PROVE  VersionRead' /\ files' \in [FileIds -> Row \cup {NoRow}]
                /\ workers' \in [Workers -> Request \cup TicketRequest \cup {Idle}]
                /\ UNCHANGED <<scans, nodeVars>>
    <2>1. workers[w] \in Request /\ workers[w].source \in Nodes
          /\ workers[w].version \in Nat \ {0}
      BY <1>4, RequestShape DEF InsertReady, Request, VersionRead
    <2>2. NewRow(workers[w], workers[w].source, "READY") \in Row
      BY <2>1, NewRowType DEF Statuses
    <2> QED  BY <1>4, <2>2 DEF TypeOK, VersionRead, InsertReady, Idle
  <1>5. ASSUME NEW f \in FileIds, NEW n \in Nodes, InsertUploading(w, f, n)
        PROVE  VersionRead' /\ files' \in [FileIds -> Row \cup {NoRow}]
                /\ workers' \in [Workers -> Request \cup TicketRequest \cup {Idle}]
                /\ UNCHANGED <<scans, nodeVars>>
    <2>1. workers[w] \in Request /\ workers[w].version \in Nat \ {0}
      BY <1>5, RequestShape DEF InsertUploading, Request, VersionRead
    <2>2. NewRow(workers[w], n, "UPLOADING") \in Row
      BY <2>1, NewRowType DEF Statuses
    <2>3. [pc |-> "ticket", file |-> f] \in TicketRequest
      BY DEF TicketRequest
    <2> QED  BY <1>5, <2>2, <2>3 DEF TypeOK, VersionRead, InsertUploading
  <1>6. CASE InsertFails(w) \/ IssueTicketFails(w)
    BY <1>6 DEF InsertFails, IssueTicketFails, TypeOK, VersionRead, Idle
  <1>7. CASE IssueTicket(w)
    <2>1. workers[w].file \in FileIds
      BY <1>7, TicketShape DEF IssueTicket, TicketRequest
    <2> QED  BY <1>7, <2>1 DEF IssueTicket, TypeOK, VersionRead, Idle, Row, NoRow
  <1> QED  BY <1>1, <1>2, <1>3, <1>4, <1>5, <1>6, <1>7 DEF InitUpload

LEMMA ReportType ==
    ASSUME TypeInv, NEW m \in reports, UploadComplete(m) \/ UploadFailed(m)
    PROVE  TypeInv'
  <1> USE DEF TypeInv
  <1>1. m.file \in FileIds /\ files[m.file] \in Row
    BY PresentRow DEF UploadComplete, UploadFailed
  <1>2. files' \in [FileIds -> Row \cup {NoRow}]
    <2>1. CASE UploadComplete(m)
      <3> DEFINE row == files[m.file]
                 status == Verdict(row, m)
                 revived == row.revived \/ (status = "READY" /\ row.status \in {"DELETED", "MISSING"})
                 raced == \/ row.raced
                          \/ status = "READY" /\ row.status # "READY" /\ Reconciling(row.node)
                 new == [row EXCEPT !.status = status, !.revived = revived, !.raced = raced]
      <3>1. status \in Statuses
        BY <1>1 DEF Verdict, Statuses, Row
      <3>2. revived \in BOOLEAN /\ raced \in BOOLEAN
        BY <1>1 DEF Row
      <3>3. files' = [files EXCEPT ![m.file] = new]
        BY <2>1 DEF UploadComplete
      <3>4. new \in Row
        <4> HIDE DEF status, revived, raced
        <4> QED  BY <1>1, <3>1, <3>2 DEF Row
      <3> HIDE DEF new
      <3> QED  BY <1>1, <3>3, <3>4 DEF TypeOK
    <2>2. CASE UploadFailed(m)
      <3>1. [files[m.file] EXCEPT !.status = "DELETED"] \in Row
        BY <1>1 DEF Row, Statuses
      <3> QED  BY <1>1, <2>2, <3>1 DEF UploadFailed, TypeOK
    <2> QED  BY <2>1, <2>2
  <1>3. reports' \subseteq (CompleteReport \cup FailedReport)
    BY DEF UploadComplete, UploadFailed, TypeOK, NodeTypeOK
  <1>4. UNCHANGED <<workers, scans, granted, stored, lost>>
    BY DEF UploadComplete, UploadFailed
  <1> QED  BY <1>2, <1>3, <1>4 DEF TypeOK, NodeTypeOK, VersionRead

\* The steps that change one row or some rows and nothing else.
LEMMA RowStepType ==
    ASSUME TypeInv,
           CleanupOrphanedUploads
           \/ \E f \in FileIds : DeleteFile(f) \/ ExpireTicket(f) \/ GrowLate(f)
    PROVE  TypeInv'
  <1> USE DEF TypeInv
  <1>1. files' \in [FileIds -> Row \cup {NoRow}]
    <2>1. CASE CleanupOrphanedUploads
      <3>1. \A f \in Orphans : [files[f] EXCEPT !.status = "DELETED"] \in Row
        BY PresentRow DEF Orphans, Row, Statuses
      <3> QED  BY <2>1, <3>1 DEF CleanupOrphanedUploads, TypeOK
    <2>2. ASSUME NEW f \in FileIds, DeleteFile(f) \/ ExpireTicket(f) \/ GrowLate(f)
          PROVE  files' \in [FileIds -> Row \cup {NoRow}]
      <3>1. files[f] \in Row
        BY <2>2, PresentRow DEF DeleteFile, ExpireTicket, GrowLate
      <3>2. /\ [files[f] EXCEPT !.status = "DELETED"] \in Row
            /\ [files[f] EXCEPT !.ticket = "expired"] \in Row
            /\ [files[f] EXCEPT !.late = TRUE] \in Row
        BY <3>1 DEF Row, Statuses
      <3> QED  BY <2>2, <3>2 DEF DeleteFile, ExpireTicket, GrowLate, TypeOK
    <2> QED  BY <2>1, <2>2
  <1>2. UNCHANGED <<workers, scans, nodeVars>>
    BY DEF CleanupOrphanedUploads, DeleteFile, ExpireTicket, GrowLate
  <1> QED  BY <1>1, <1>2 DEF TypeOK, NodeTypeOK, nodeVars, VersionRead

LEMMA ReconcileType ==
    ASSUME TypeInv, NEW a \in Scans, Reconcile(a)
    PROVE  TypeInv'
  <1> USE DEF TypeInv
  <1> SUFFICES /\ files' \in [FileIds -> Row \cup {NoRow}]
               /\ scans' \in [Scans -> Scan \cup {Idle}]
    BY DEF Reconcile, CollectManifest, ReconcileSelect, ReconcileSelectFails, ReconcileMark,
           ReconcileMarkFails, TypeOK, NodeTypeOK, nodeVars, VersionRead
  <1>1. ASSUME NEW n \in Nodes, CollectManifest(a, n)
        PROVE  files' = files /\ scans' \in [Scans -> Scan \cup {Idle}]
    <2>1. PICK manifest \in {stored[n], {}} :
              scans' = [scans EXCEPT ![a] =
                  [pc |-> "select", node |-> n, manifest |-> manifest,
                   failed |-> manifest # stored[n], todo |-> {}]]
      BY <1>1 DEF CollectManifest
    <2>2. manifest \in SUBSET Shas
      BY DEF TypeOK, NodeTypeOK
    <2>3. [pc |-> "select", node |-> n, manifest |-> manifest,
           failed |-> manifest # stored[n], todo |-> {}] \in Scan
      BY <2>2 DEF Scan
    <2> QED  BY <1>1, <2>1, <2>3 DEF CollectManifest, TypeOK
  <1>2. CASE ReconcileSelect(a)
    <2> DEFINE absent == Unlisted(scans[a].node, scans[a].manifest)
    <2>1. scans[a] \in Scan
      BY <1>2, ScanShape DEF ReconcileSelect
    <2>2. absent \in SUBSET FileIds
      BY DEF Unlisted, Present
    <2>3. [scans[a] EXCEPT !.pc = "mark", !.todo = absent] \in Scan
      <3> HIDE DEF absent
      <3> QED  BY <2>1, <2>2 DEF Scan
    <2> QED  BY <1>2, <2>3 DEF ReconcileSelect, TypeOK
  <1>3. CASE ReconcileSelectFails(a)
    BY <1>3 DEF ReconcileSelectFails, TypeOK
  <1>4. ASSUME NEW f \in FileIds, ReconcileMark(a, f) \/ ReconcileMarkFails(a, f)
        PROVE  /\ files' \in [FileIds -> Row \cup {NoRow}]
               /\ scans' \in [Scans -> Scan \cup {Idle}]
    <2>1. scans[a] \in Scan
      BY <1>4, ScanShape DEF ReconcileMark, ReconcileMarkFails
    <2>2. [scans[a] EXCEPT !.todo = scans[a].todo \ {f}] \in Scan
      <3> DEFINE rest == scans[a].todo \ {f}
      <3>1. rest \in SUBSET FileIds
        BY <2>1 DEF Scan
      <3>2. [scans[a] EXCEPT !.todo = rest] \in Scan
        <4> HIDE DEF rest
        <4> QED  BY <2>1, <3>1 DEF Scan
      <3> QED  BY <3>2
    <2>3. scans' \in [Scans -> Scan \cup {Idle}]
      BY <1>4, <2>2 DEF ReconcileMark, ReconcileMarkFails, ScanDone, TypeOK
    <2>4. Marked(files[f], scans[a].failed) \in Row \cup {NoRow}
      <3>1. CASE files[f].status # "READY"
        BY <3>1 DEF Marked, TypeOK
      <3>2. CASE files[f].status = "READY"
        <4> DEFINE b == IF scans[a].failed THEN files[f].blind \cup {"manifest"}
                        ELSE files[f].blind
        <4>1. files[f] \in Row
          BY <3>2 DEF TypeOK, NoRow
        <4>2. b \in SUBSET {"duplicates", "version", "manifest"}
          BY <4>1 DEF Row
        <4>3. [files[f] EXCEPT !.status = "MISSING", !.blind = b] \in Row
          <5> HIDE DEF b
          <5> QED  BY <4>1, <4>2 DEF Row, Statuses
        <4> QED  BY <3>2, <4>3 DEF Marked
      <3> QED  BY <3>1, <3>2
    <2>5. files' \in [FileIds -> Row \cup {NoRow}]
      BY <1>4, <2>4 DEF ReconcileMark, ReconcileMarkFails, TypeOK
    <2> QED  BY <2>3, <2>5
  <1> QED  BY <1>1, <1>2, <1>3, <1>4 DEF Reconcile, TypeOK

LEMMA NodeStepType ==
    ASSUME TypeInv, NodeStep, UNCHANGED dbVars
    PROVE  TypeInv'
  <1> USE DEF TypeInv
  <1>1. NodeTypeOK'
    BY DEF NodeStep, Commit, DiskLoss, ReportComplete, ReportFailed, DropReport, TypeOK,
           NodeTypeOK, CompleteReport, FailedReport
  <1> QED  BY <1>1 DEF TypeOK, VersionRead, dbVars

LEMMA TypeStep == TypeInv /\ [Next]_vars => TypeInv'
  <1> SUFFICES ASSUME TypeInv, [Next]_vars
               PROVE  TypeInv'
    OBVIOUS
  <1>1. CASE \E w \in Workers : InitUpload(w)
    BY <1>1, InitUploadType
  <1>2. CASE \E m \in reports : UploadComplete(m) \/ UploadFailed(m)
    BY <1>2, ReportType
  <1>3. CASE \/ CleanupOrphanedUploads
             \/ \E f \in FileIds : DeleteFile(f) \/ ExpireTicket(f) \/ GrowLate(f)
    BY <1>3, RowStepType
  <1>4. ASSUME NEW f \in FileIds, OpenUpload(f)
        PROVE  TypeInv'
    <2>1. files[f].node \in Nodes
      BY <1>4, PresentRow DEF OpenUpload, TypeInv, Row
    <2> QED  BY <1>4, <2>1 DEF OpenUpload, Grant, TypeInv, TypeOK, NodeTypeOK, dbVars, VersionRead
  <1>5. CASE \E a \in Scans : Reconcile(a)
    BY <1>5, ReconcileType
  <1>6. CASE CoordinatorRestart
    BY <1>6 DEF CoordinatorRestart, TypeInv, TypeOK, NodeTypeOK, nodeVars, VersionRead, Idle
  <1>7. CASE NodeStep /\ UNCHANGED dbVars
    BY <1>7, NodeStepType
  <1>8. CASE UNCHANGED vars
    BY <1>8 DEF vars, dbVars, nodeVars, TypeInv, TypeOK, NodeTypeOK, VersionRead
  <1> QED  BY <1>1, <1>2, <1>3, <1>4, <1>5, <1>6, <1>7, <1>8 DEF Next

\* Every variable keeps its type; in particular no row is ever inserted with a
\* version that _calculate_next_version did not return.
THEOREM TypeCorrect == Spec => []TypeOK
  <1>1. TypeInv => TypeOK
    BY DEF TypeInv
  <1> QED  BY TypeInit, TypeStep, <1>1, PTL DEF Spec

----
(***************************************************************************)
(* Listed files are committed.  A row becomes READY by a completion report *)
(* with its hash or by sharing the content of a READY row, possibly long   *)
(* after that row was read: what makes both sound is that a node's         *)
(* committed contents only grow.                                           *)
(***************************************************************************)

\* A request that found a row to share content with still names committed
\* content when it inserts its own.
SourcesAreCommitted ==
    \A w \in Workers :
        workers[w].pc \in {"candidates", "version", "insert"} =>
            \/ workers[w].source = NoNode
            \/ workers[w].sha \in Committed(workers[w].source)

CommitInv == ReportsAreTruthful /\ ListedFilesAreCommitted /\ SourcesAreCommitted

\* Losing a blob does not take it out of what was committed.
LEMMA CommittedGrows ==
    ASSUME TypeInv, [Next]_vars, NEW n \in Nodes
    PROVE  Committed(n) \subseteq stored'[n] \cup lost'[n]
  <1> USE DEF Committed
  <1>1. CASE NodeStep /\ UNCHANGED dbVars
    BY <1>1 DEF NodeStep, Commit, DiskLoss, ReportComplete, ReportFailed, DropReport, TypeInv,
                TypeOK, NodeTypeOK
  <1>2. CASE UNCHANGED <<stored, lost>>
    BY <1>2
  <1>3. UNCHANGED <<stored, lost>> \/ (NodeStep /\ UNCHANGED dbVars)
    BY DEF Next, vars, nodeVars, InitUpload, CheckDuplicate, CheckDuplicateFails, FindCandidates,
           ReadVersion, ReadVersionFails, InsertReady, InsertUploading, InsertFails, IssueTicket,
           IssueTicketFails, UploadComplete, UploadFailed, CleanupOrphanedUploads, DeleteFile,
           ExpireTicket, GrowLate, OpenUpload, Grant, Reconcile, CollectManifest,
           ReconcileSelect, ReconcileSelectFails, ReconcileMark, ReconcileMarkFails,
           CoordinatorRestart
  <1> QED  BY <1>1, <1>2, <1>3

LEMMA CommitInit == Init => CommitInv
  BY DEF Init, NodeInit, CommitInv, ReportsAreTruthful, ListedFilesAreCommitted,
         SourcesAreCommitted, Present, Idle

\* What a step may newly report, list or read must be committed before it.
ReportsJustified ==
    \A m \in reports' :
        \/ m \in reports
        \/ m.type = "UPLOAD_COMPLETE" => m.node \in Nodes /\ m.sha \in Committed(m.node)

SameContent(f) ==
    /\ files[f].status = "READY"
    /\ files'[f].node = files[f].node /\ files'[f].sha = files[f].sha

ListingsJustified ==
    \A f \in FileIds : files'[f].status = "READY" =>
        \/ SameContent(f)
        \/ files'[f].node \in Nodes /\ files'[f].sha \in Committed(files'[f].node)

SameSource(w) ==
    /\ workers[w].pc \in {"candidates", "version", "insert"}
    /\ workers'[w].source = workers[w].source /\ workers'[w].sha = workers[w].sha

SourcesJustified ==
    \A w \in Workers : workers'[w].pc \in {"candidates", "version", "insert"} =>
        \/ SameSource(w)
        \/ workers'[w].source = NoNode
        \/ /\ workers'[w].source \in Nodes
           /\ workers'[w].sha \in Committed(workers'[w].source)

\* Committed contents only grow, so a justified step keeps CommitInv.
LEMMA CommitFrame ==
    ASSUME TypeInv, CommitInv, [Next]_vars,
           ReportsJustified, ListingsJustified, SourcesJustified
    PROVE  CommitInv'
  <1>1. \A n \in Nodes : Committed(n) \subseteq stored'[n] \cup lost'[n]
    BY CommittedGrows
  <1>2. ReportsAreTruthful'
    <2>1. \A m \in reports : m.type = "UPLOAD_COMPLETE" =>
              m.node \in Nodes /\ m.sha \in Committed(m.node)
      BY DEF TypeInv, TypeOK, NodeTypeOK, CompleteReport, FailedReport, CommitInv,
             ReportsAreTruthful
    <2> QED  BY <1>1, <2>1 DEF ReportsAreTruthful, Committed, ReportsJustified
  <1>3. ListedFilesAreCommitted'
    <2> SUFFICES ASSUME NEW f \in Present', files'[f].status = "READY"
                 PROVE  files'[f].sha \in stored'[files'[f].node] \cup lost'[files'[f].node]
      BY DEF ListedFilesAreCommitted, Committed
    <2>1. f \in FileIds
      BY DEF Present
    <2>2. CASE files'[f].node \in Nodes /\ files'[f].sha \in Committed(files'[f].node)
      BY <1>1, <2>2
    <2>3. CASE SameContent(f)
      <3>1. f \in Present
        BY <2>1, <2>3 DEF Present, NoRow, SameContent
      <3>2. files[f].sha \in Committed(files[f].node) /\ files[f].node \in Nodes
        BY <2>3, <3>1, PresentRow
           DEF CommitInv, ListedFilesAreCommitted, TypeInv, Row, SameContent
      <3> QED  BY <1>1, <2>3, <3>2 DEF SameContent
    <2> QED  BY <2>1, <2>2, <2>3 DEF ListingsJustified
  <1>4. SourcesAreCommitted'
    <2> SUFFICES ASSUME NEW w \in Workers,
                        workers'[w].pc \in {"candidates", "version", "insert"},
                        workers'[w].source # NoNode
                 PROVE  workers'[w].sha
                            \in stored'[workers'[w].source] \cup lost'[workers'[w].source]
      BY DEF SourcesAreCommitted, Committed
    <2>1. CASE /\ workers'[w].source \in Nodes
               /\ workers'[w].sha \in Committed(workers'[w].source)
      BY <1>1, <2>1
    <2>2. CASE SameSource(w)
      <3>1. workers[w] \in Request
        BY <2>2, RequestShape DEF TypeInv, SameSource
      <3>2. workers[w].source \in Nodes /\ workers[w].sha \in Committed(workers[w].source)
        BY <2>2, <3>1 DEF CommitInv, SourcesAreCommitted, Request, SameSource
      <3> QED  BY <1>1, <2>2, <3>2 DEF SameSource
    <2> QED  BY <2>1, <2>2 DEF SourcesJustified
  <1> QED  BY <1>2, <1>3, <1>4 DEF CommitInv

\* A table that keeps its READY rows, and threads that keep what they know or
\* end, need no more than that.
LEMMA KeptListings ==
    ASSUME TypeInv, UNCHANGED files
    PROVE  ListingsJustified
  BY DEF ListingsJustified, SameContent

LEMMA KeptSources ==
    ASSUME TypeInv, \A w \in Workers : workers'[w] \in {workers[w], Idle}
    PROVE  SourcesJustified
  BY DEF SourcesJustified, SameSource, Idle

LEMMA InitUploadCommit ==
    ASSUME TypeInv, CommitInv, NEW w \in Workers, InitUpload(w)
    PROVE  ReportsJustified /\ ListingsJustified /\ SourcesJustified
  <1> USE DEF TypeInv
  <1>1. ReportsJustified
    BY DEF ReportsJustified, InitUpload, CheckDuplicate, CheckDuplicateFails, FindCandidates,
           ReadVersion, ReadVersionFails, InsertReady, InsertUploading, InsertFails, IssueTicket,
           IssueTicketFails, nodeVars
  <1> SUFFICES ListingsJustified /\ SourcesJustified
    BY <1>1
  <1>2. ASSUME NEW r \in Rooms, NEW n \in Names, NEW s \in Shas,
               CheckDuplicate(w, r, n, s) \/ CheckDuplicateFails(w, r, n, s)
        PROVE  ListingsJustified /\ SourcesJustified
    <2>1. UNCHANGED files
      BY <1>2 DEF CheckDuplicate, CheckDuplicateFails
    <2>2. PICK blind : workers' = [workers EXCEPT ![w] = Admitted(r, n, s, blind)]
      BY <1>2 DEF CheckDuplicate, CheckDuplicateFails
    <2>3. Admitted(r, n, s, blind).source = NoNode
      BY DEF Admitted
    <2>4. workers'[w].source = NoNode /\ \A v \in Workers \ {w} : workers'[v] = workers[v]
      BY <2>2, <2>3 DEF TypeOK
    <2> QED  BY <2>1, <2>4, KeptListings DEF SourcesJustified, SameSource
  <1>3. CASE FindCandidates(w)
    <2>1. workers[w] \in Request
      BY <1>3, RequestShape DEF FindCandidates
    <2>2. \A n \in Holders(workers[w].sha) : n \in Nodes /\ workers[w].sha \in Committed(n)
      BY PresentRow DEF Holders, Row, CommitInv, ListedFilesAreCommitted
    <2>3. PICK n \in Holders(workers[w].sha) \cup {NoNode} :
              workers' = [workers EXCEPT ![w] = [@ EXCEPT !.pc = "version", !.source = n]]
      BY <1>3 DEF FindCandidates
    <2>4. workers'[w].source = n /\ workers'[w].sha = workers[w].sha
          /\ \A v \in Workers \ {w} : workers'[v] = workers[v]
      BY <2>1, <2>3 DEF TypeOK, Request
    <2>5. SourcesJustified
      BY <2>2, <2>4 DEF SourcesJustified, SameSource
    <2> QED  BY <1>3, <2>5, KeptListings DEF FindCandidates
  <1>4. CASE ReadVersion(w) \/ ReadVersionFails(w)
    <2>1. workers[w] \in Request /\ workers[w].pc = "version"
      BY <1>4, RequestShape DEF ReadVersion, ReadVersionFails
    <2>2. \A v \in Workers \ {w} : workers'[v] = workers[v]
      BY <1>4 DEF TypeOK, ReadVersion, ReadVersionFails
    <2>3. workers'[w].source = workers[w].source /\ workers'[w].sha = workers[w].sha
      <3>1. CASE ReadVersion(w)
        <4>1. PICK v : workers' = [workers EXCEPT ![w] =
                           [workers[w] EXCEPT !.pc = "insert", !.version = v + 1]]
          BY <3>1 DEF ReadVersion
        <4> QED  BY <2>1, <4>1 DEF TypeOK, Request
      <3>2. CASE ReadVersionFails(w)
        <4>1. PICK b : workers' = [workers EXCEPT ![w] =
                           [workers[w] EXCEPT !.pc = "insert", !.version = 1, !.blind = b]]
          BY <3>2 DEF ReadVersionFails
        <4> QED  BY <2>1, <4>1 DEF TypeOK, Request
      <3> QED  BY <1>4, <3>1, <3>2
    <2>4. SourcesJustified
      BY <2>1, <2>2, <2>3 DEF SourcesJustified, SameSource
    <2> QED  BY <1>4, <2>4, KeptListings DEF ReadVersion, ReadVersionFails
  <1>5. ASSUME NEW f \in FileIds, InsertReady(w, f)
        PROVE  ListingsJustified /\ SourcesJustified
    <2>1. workers[w] \in Request /\ workers[w].source \in Nodes
      BY <1>5, RequestShape DEF InsertReady, Request
    <2>2. workers[w].sha \in Committed(workers[w].source)
      BY <1>5, <2>1, NoNodeAssumption DEF InsertReady, CommitInv, SourcesAreCommitted
    <2>3. /\ NewRow(workers[w], workers[w].source, "READY").node = workers[w].source
          /\ NewRow(workers[w], workers[w].source, "READY").sha = workers[w].sha
      BY DEF NewRow
    <2>4. ListingsJustified
      BY <1>5, <2>1, <2>2, <2>3 DEF InsertReady, TypeOK, ListingsJustified, SameContent
    <2> QED  BY <1>5, <2>4, KeptSources DEF InsertReady, TypeOK
  <1>6. ASSUME NEW f \in FileIds, NEW n \in Nodes, InsertUploading(w, f, n)
        PROVE  ListingsJustified /\ SourcesJustified
    <2>1. NewRow(workers[w], n, "UPLOADING").status = "UPLOADING"
      BY DEF NewRow
    <2>2. ListingsJustified
      BY <1>6, <2>1 DEF InsertUploading, TypeOK, ListingsJustified, SameContent
    <2>3. workers'[w].pc = "ticket" /\ \A v \in Workers \ {w} : workers'[v] = workers[v]
      BY <1>6 DEF InsertUploading, TypeOK
    <2> QED  BY <2>2, <2>3 DEF SourcesJustified, SameSource
  <1>7. CASE InsertFails(w) \/ IssueTicketFails(w)
    BY <1>7, KeptListings, KeptSources DEF InsertFails, IssueTicketFails, TypeOK
  <1>8. CASE IssueTicket(w)
    <2>1. workers[w].file \in FileIds
      BY <1>8, TicketShape DEF IssueTicket, TicketRequest
    <2>2. \A f \in FileIds : /\ files'[f].status = files[f].status
                             /\ files[f] \in Row => /\ files'[f].node = files[f].node
                                                    /\ files'[f].sha = files[f].sha
      BY <1>8, <2>1 DEF IssueTicket, TypeOK, Row, NoRow
    <2>3. ListingsJustified
      BY <2>2 DEF ListingsJustified, SameContent, TypeOK, NoRow
    <2> QED  BY <1>8, <2>3, KeptSources DEF IssueTicket, TypeOK
  <1> QED  BY <1>2, <1>3, <1>4, <1>5, <1>6, <1>7, <1>8 DEF InitUpload

LEMMA ReportCommit ==
    ASSUME TypeInv, CommitInv, NEW m \in reports, UploadComplete(m) \/ UploadFailed(m)
    PROVE  ReportsJustified /\ ListingsJustified /\ SourcesJustified
  <1> USE DEF TypeInv
  <1>1. ReportsJustified /\ SourcesJustified
    BY KeptSources DEF UploadComplete, UploadFailed, ReportsJustified
  <1>2. m.file \in FileIds /\ files[m.file] \in Row
    BY PresentRow DEF UploadComplete, UploadFailed
  <1>3. CASE UploadComplete(m)
    <2>1. m.node \in Nodes /\ m.sha \in Committed(m.node)
      BY <1>3 DEF UploadComplete, CommitInv, ReportsAreTruthful, TypeOK, NodeTypeOK,
                  CompleteReport, FailedReport
    <2>2. PICK revived, raced : files' = [files EXCEPT ![m.file] =
              [files[m.file] EXCEPT !.status = Verdict(files[m.file], m),
                                    !.revived = revived, !.raced = raced]]
      BY <1>3 DEF UploadComplete
    <2>3. /\ files'[m.file].status = Verdict(files[m.file], m)
          /\ files'[m.file].node = files[m.file].node /\ files'[m.file].sha = files[m.file].sha
          /\ \A f \in FileIds \ {m.file} : files'[f] = files[f]
      BY <1>2, <2>2 DEF TypeOK, Row
    <2>4. Verdict(files[m.file], m) = "READY" =>
              files[m.file].status = "READY"
              \/ (files[m.file].node = m.node /\ files[m.file].sha = m.sha)
      BY DEF Verdict
    <2> QED  BY <1>1, <1>2, <2>1, <2>3, <2>4 DEF ListingsJustified, SameContent
  <1>4. CASE UploadFailed(m)
    BY <1>1, <1>2, <1>4 DEF UploadFailed, ListingsJustified, SameContent, TypeOK, Row
  <1> QED  BY <1>3, <1>4

LEMMA RowStepCommit ==
    ASSUME TypeInv, CommitInv,
           CleanupOrphanedUploads
           \/ \E f \in FileIds : DeleteFile(f) \/ ExpireTicket(f) \/ GrowLate(f)
    PROVE  ReportsJustified /\ ListingsJustified /\ SourcesJustified
  <1> USE DEF TypeInv
  <1>1. ReportsJustified /\ SourcesJustified
    BY KeptSources
       DEF ReportsJustified, CleanupOrphanedUploads, DeleteFile, ExpireTicket, GrowLate, nodeVars
  <1>2. CASE CleanupOrphanedUploads
    <2>1. \A f \in Orphans : [files[f] EXCEPT !.status = "DELETED"].status = "DELETED"
      BY PresentRow DEF Orphans, Row
    <2>2. \A f \in FileIds : files'[f].status = "READY" => files'[f] = files[f]
      BY <1>2, <2>1 DEF CleanupOrphanedUploads, TypeOK
    <2> QED  BY <1>1, <2>2 DEF ListingsJustified, SameContent
  <1>3. ASSUME NEW f \in FileIds, DeleteFile(f) \/ ExpireTicket(f) \/ GrowLate(f)
        PROVE  ListingsJustified
    <2>1. files[f] \in Row
      BY <1>3, PresentRow DEF DeleteFile, ExpireTicket, GrowLate
    <2>2. /\ files'[f].status = "READY" => files[f].status = "READY"
          /\ files'[f].node = files[f].node /\ files'[f].sha = files[f].sha
          /\ \A g \in FileIds \ {f} : files'[g] = files[g]
      BY <1>3, <2>1 DEF DeleteFile, ExpireTicket, GrowLate, TypeOK, Row
    <2> QED  BY <2>1, <2>2 DEF ListingsJustified, SameContent
  <1> QED  BY <1>1, <1>2, <1>3

LEMMA ReconcileCommit ==
    ASSUME TypeInv, CommitInv, NEW a \in Scans, Reconcile(a)
    PROVE  ReportsJustified /\ ListingsJustified /\ SourcesJustified
  <1> USE DEF TypeInv
  <1>1. ReportsJustified /\ SourcesJustified
    BY KeptSources
       DEF ReportsJustified, Reconcile, CollectManifest, ReconcileSelect, ReconcileSelectFails,
           ReconcileMark, ReconcileMarkFails, nodeVars
  <1>2. CASE UNCHANGED files
    BY <1>1, <1>2, KeptListings
  <1>3. ASSUME NEW f \in FileIds, ReconcileMark(a, f)
        PROVE  ListingsJustified
    <2>1. \/ files'[f] = files[f]
          \/ files[f].status = "READY" /\ files'[f].status = "MISSING"
      <3>1. CASE files[f].status = "READY"
        <4>1. files[f] \in Row
          BY <3>1 DEF TypeOK, NoRow
        <4>2. PICK blind : Marked(files[f], scans[a].failed)
                              = [files[f] EXCEPT !.status = "MISSING", !.blind = blind]
          BY <3>1 DEF Marked
        <4> QED  BY <1>3, <3>1, <4>1, <4>2 DEF ReconcileMark, TypeOK, Row
      <3>2. CASE files[f].status # "READY"
        BY <1>3, <3>2 DEF ReconcileMark, Marked, TypeOK
      <3> QED  BY <3>1, <3>2
    <2>2. \A g \in FileIds \ {f} : files'[g] = files[g]
      BY <1>3 DEF ReconcileMark, TypeOK
    <2> QED  BY <2>1, <2>2 DEF ListingsJustified, SameContent
  <1>4. UNCHANGED files \/ \E f \in FileIds : ReconcileMark(a, f)
    BY DEF Reconcile, CollectManifest, ReconcileSelect, ReconcileSelectFails, ReconcileMarkFails
  <1> QED  BY <1>1, <1>2, <1>3, <1>4

LEMMA NodeStepCommit ==
    ASSUME TypeInv, CommitInv, NodeStep, UNCHANGED dbVars
    PROVE  ReportsJustified /\ ListingsJustified /\ SourcesJustified
  <1>1. ReportsJustified
    BY DEF NodeStep, Commit, DiskLoss, ReportComplete, MayReport, ReportFailed, DropReport,
           ReportsJustified
  <1> QED  BY <1>1, KeptListings, KeptSources DEF dbVars

LEMMA CommitStep == TypeInv /\ CommitInv /\ [Next]_vars => CommitInv'
  <1> SUFFICES ASSUME TypeInv, CommitInv, [Next]_vars
               PROVE  ReportsJustified /\ ListingsJustified /\ SourcesJustified
    BY CommitFrame
  <1>1. CASE \E w \in Workers : InitUpload(w)
    BY <1>1, InitUploadCommit
  <1>2. CASE \E m \in reports : UploadComplete(m) \/ UploadFailed(m)
    BY <1>2, ReportCommit
  <1>3. CASE \/ CleanupOrphanedUploads
             \/ \E f \in FileIds : DeleteFile(f) \/ ExpireTicket(f) \/ GrowLate(f)
    BY <1>3, RowStepCommit
  <1>4. CASE \E f \in FileIds : OpenUpload(f)
    BY <1>4, KeptListings, KeptSources DEF OpenUpload, Grant, dbVars, ReportsJustified
  <1>5. CASE \E a \in Scans : Reconcile(a)
    BY <1>5, ReconcileCommit
  <1>6. CASE CoordinatorRestart
    BY <1>6, KeptListings, KeptSources DEF CoordinatorRestart, ReportsJustified, nodeVars, TypeInv,
       TypeOK
  <1>7. CASE NodeStep /\ UNCHANGED dbVars
    BY <1>7, NodeStepCommit
  <1>8. CASE UNCHANGED vars
    BY <1>8, KeptListings, KeptSources DEF vars, dbVars, nodeVars, ReportsJustified
  <1> QED  BY <1>1, <1>2, <1>3, <1>4, <1>5, <1>6, <1>7, <1>8 DEF Next

LEMMA CommitAlways == Spec => []CommitInv
  BY TypeInit, TypeStep, CommitInit, CommitStep, PTL DEF Spec

\* However uploads, deduplications, deletions, reconciliations, restarts and
\* disk losses interleave, a file the room list shows as READY names content
\* that reached the store of the node its row points at.
THEOREM ListedFilesCommitted == Spec => []ListedFilesAreCommitted
  <1>1. CommitInv => ListedFilesAreCommitted
    BY DEF CommitInv
  <1> QED  BY CommitAlways, <1>1, PTL

----
(***************************************************************************)
(* The history of a row.  Its INSERT is the only statement that gives it   *)
(* its room, name, content, version and node; what comes later moves its   *)
(* status, and no statement but a completion report makes it live again.   *)
(***************************************************************************)

RowGoesOn(old, new) ==
    /\ new # NoRow
    /\ new.room = old.room /\ new.name = old.name /\ new.sha = old.sha
    /\ new.version = old.version /\ new.node = old.node
    /\ new.before = old.before
    /\ \A b : b # "manifest" => (b \in new.blind <=> b \in old.blind)
    /\ "manifest" \in old.blind => "manifest" \in new.blind
    /\ old.revived => new.revived
    /\ old.raced => new.raced
    /\ old.ticket # "unissued" => new.ticket # "unissued"
    /\ old.status \notin LiveStatuses /\ new.status \in LiveStatuses => new.revived
    /\ new.status = "MISSING" => old.status \in {"MISSING", "READY"}
    /\ new.status = "READY" /\ old.status # "READY" /\ Reconciling(old.node)
           => new.raced

LEMMA RowStays == ASSUME NEW row \in Row PROVE RowGoesOn(row, row)
  BY DEF RowGoesOn, Row, NoRow

\* Every UPDATE but the one of a completion report.
LEMMA RowUpdated ==
    ASSUME NEW row \in Row, NEW failed \in BOOLEAN
    PROVE  /\ RowGoesOn(row, [row EXCEPT !.status = "DELETED"])
           /\ RowGoesOn(row, [row EXCEPT !.ticket = "valid"])
           /\ RowGoesOn(row, [row EXCEPT !.ticket = "expired"])
           /\ RowGoesOn(row, [row EXCEPT !.late = TRUE])
           /\ RowGoesOn(row, Marked(row, failed))
  <1>1. /\ RowGoesOn(row, [row EXCEPT !.status = "DELETED"])
        /\ RowGoesOn(row, [row EXCEPT !.ticket = "valid"])
        /\ RowGoesOn(row, [row EXCEPT !.ticket = "expired"])
        /\ RowGoesOn(row, [row EXCEPT !.late = TRUE])
    BY DEF RowGoesOn, Row, NoRow, LiveStatuses, Statuses
  <1>2. RowGoesOn(row, Marked(row, failed))
    <2> DEFINE b == IF failed THEN row.blind \cup {"manifest"} ELSE row.blind
               new == [row EXCEPT !.status = "MISSING", !.blind = b]
    <2>1. CASE row.status # "READY"
      BY <2>1, RowStays DEF Marked
    <2>2. CASE row.status = "READY"
      <3>1. /\ \A x : x # "manifest" => (x \in b <=> x \in row.blind)
            /\ "manifest" \in row.blind => "manifest" \in b
        OBVIOUS
      <3>2. Marked(row, failed) = new
        BY <2>2 DEF Marked
      <3>3. RowGoesOn(row, new)
        <4> HIDE DEF b
        <4> QED  BY <2>2, <3>1 DEF RowGoesOn, Row, NoRow, LiveStatuses
      <3> QED  BY <3>2, <3>3
    <2> QED  BY <2>1, <2>2
  <1> QED  BY <1>1, <1>2

LEMMA RowReported ==
    ASSUME TypeInv, NEW m \in reports, UploadComplete(m)
    PROVE  RowGoesOn(files[m.file], files'[m.file])
  <1> DEFINE row == files[m.file]
             status == Verdict(row, m)
             revived == row.revived \/ (status = "READY" /\ row.status \in {"DELETED", "MISSING"})
             raced == \/ row.raced
                      \/ status = "READY" /\ row.status # "READY" /\ Reconciling(row.node)
             new == [row EXCEPT !.status = status, !.revived = revived, !.raced = raced]
  <1>1. m.file \in FileIds /\ row \in Row
    BY PresentRow DEF UploadComplete, TypeInv
  <1>2. files'[m.file] = new
    BY <1>1 DEF UploadComplete, TypeInv, TypeOK
  <1>3. /\ status \in {"READY", "DELETED", row.status} /\ row.status \in Statuses
    BY <1>1 DEF Verdict, Row
  <1>4. /\ row.revived => revived
        /\ row.raced => raced
        /\ status = "READY" /\ row.status \in {"DELETED", "MISSING"} => revived
        /\ status = "READY" /\ row.status # "READY" /\ Reconciling(row.node) => raced
    OBVIOUS
  <1>5. RowGoesOn(row, new)
    <2> HIDE DEF status, revived, raced
    <2> QED  BY <1>1, <1>3, <1>4 DEF RowGoesOn, Row, NoRow, LiveStatuses, Statuses
  <1> QED  BY <1>2, <1>5

\* A row that is in the table stays there, in every step.
LEMMA RowsGoOn ==
    ASSUME TypeInv, [Next]_vars, NEW f \in Present
    PROVE  f \in Present' /\ RowGoesOn(files[f], files'[f])
  <1>1. /\ f \in FileIds /\ files[f] \in Row /\ files[f] # NoRow
        /\ files \in [FileIds -> Row \cup {NoRow}]
    BY PresentRow DEF TypeInv, TypeOK, Present
  <1> SUFFICES RowGoesOn(files[f], files'[f])
    BY <1>1 DEF Present, RowGoesOn
  <1>2. CASE files'[f] = files[f]
    BY <1>1, <1>2, RowStays
  <1>3. ASSUME NEW w \in Workers, InitUpload(w) PROVE RowGoesOn(files[f], files'[f])
    <2>1. ASSUME NEW g \in FileIds, NEW n \in Nodes,
                 InsertReady(w, g) \/ InsertUploading(w, g, n)
          PROVE  files'[f] = files[f]
      BY <1>1, <2>1 DEF InsertReady, InsertUploading
    <2>2. CASE \E g \in FileIds : InsertReady(w, g)
      <3>1. PICK g \in FileIds : InsertReady(w, g)
        BY <2>2
      <3> QED  BY <1>1, <1>2, <3>1 DEF InsertReady
    <2>3. CASE IssueTicket(w)
      BY <1>1, <1>2, <2>3, RowUpdated DEF IssueTicket
    <2>4. CASE UNCHANGED files
      BY <1>2, <2>4
    <2> QED
      BY <1>2, <1>3, <2>1, <2>2, <2>3, <2>4
      DEF InitUpload, CheckDuplicate, CheckDuplicateFails, FindCandidates, ReadVersion,
          ReadVersionFails, InsertFails, IssueTicketFails
  <1>4. ASSUME NEW m \in reports, UploadComplete(m) \/ UploadFailed(m)
        PROVE  RowGoesOn(files[f], files'[f])
    <2>1. CASE m.file # f
      BY <1>1, <1>2, <1>4, <2>1 DEF UploadComplete, UploadFailed
    <2>2. CASE m.file = f /\ UploadComplete(m)
      BY <2>2, RowReported
    <2>3. CASE m.file = f /\ UploadFailed(m)
      BY <1>1, <1>2, <2>3, RowUpdated DEF UploadFailed
    <2> QED  BY <1>4, <2>1, <2>2, <2>3
  <1>5. ASSUME NEW g \in FileIds, DeleteFile(g) \/ ExpireTicket(g) \/ GrowLate(g)
        PROVE  RowGoesOn(files[f], files'[f])
    BY <1>1, <1>2, <1>5, RowUpdated DEF DeleteFile, ExpireTicket, GrowLate
  <1>6. CASE CleanupOrphanedUploads
    BY <1>1, <1>2, <1>6, RowUpdated DEF CleanupOrphanedUploads
  <1>7. ASSUME NEW a \in Scans, NEW g \in FileIds, ReconcileMark(a, g)
        PROVE  RowGoesOn(files[f], files'[f])
    <2>1. scans[a].failed \in BOOLEAN
      BY <1>7, ScanShape DEF ReconcileMark, TypeInv, Scan
    <2> QED  BY <1>1, <1>2, <1>7, <2>1, RowUpdated DEF ReconcileMark
  <1>8. ASSUME NEW a \in Scans, Reconcile(a) PROVE RowGoesOn(files[f], files'[f])
    <2>1. UNCHANGED files \/ \E g \in FileIds : ReconcileMark(a, g)
      BY <1>8
      DEF Reconcile, CollectManifest, ReconcileSelect, ReconcileSelectFails, ReconcileMarkFails
    <2> QED  BY <1>2, <1>7, <2>1
  <1>9. CASE \/ CoordinatorRestart \/ UNCHANGED vars \/ (NodeStep /\ UNCHANGED dbVars)
             \/ \E g \in FileIds : OpenUpload(g)
    BY <1>2, <1>9 DEF CoordinatorRestart, OpenUpload, vars, dbVars
  <1> QED  BY <1>3, <1>4, <1>5, <1>6, <1>8, <1>9 DEF Next

Requesting(w) == workers[w].pc \in {"candidates", "version", "insert"}

\* A row that was not there is the one a request inserts.
LEMMA RowsBegin ==
    ASSUME TypeInv, [Next]_vars, NEW f \in Present', f \notin Present
    PROVE  \E w \in Workers, n \in Nodes, status \in LiveStatuses :
               /\ workers[w].pc = "insert" /\ workers[w] \in Request
               /\ files'[f] = NewRow(workers[w], n, status)
  <1>1. /\ f \in FileIds /\ files[f] = NoRow /\ files'[f] # files[f]
        /\ files \in [FileIds -> Row \cup {NoRow}]
    BY DEF Present, TypeInv, TypeOK
  <1>2. ASSUME NEW w \in Workers, NEW g \in FileIds, InsertReady(w, g)
        PROVE  \E n \in Nodes, status \in LiveStatuses :
                   /\ workers[w].pc = "insert" /\ workers[w] \in Request
                   /\ files'[f] = NewRow(workers[w], n, status)
    <2>1. workers[w] \in Request /\ workers[w].pc = "insert" /\ workers[w].source \in Nodes
      BY <1>2, RequestShape DEF InsertReady, TypeInv, Request
    <2>2. files'[f] = NewRow(workers[w], workers[w].source, "READY")
      BY <1>1, <1>2 DEF InsertReady
    <2> QED  BY <2>1, <2>2 DEF LiveStatuses
  <1>3. ASSUME NEW w \in Workers, NEW g \in FileIds, NEW k \in Nodes, InsertUploading(w, g, k)
        PROVE  \E n \in Nodes, status \in LiveStatuses :
                   /\ workers[w].pc = "insert" /\ workers[w] \in Request
                   /\ files'[f] = NewRow(workers[w], n, status)
    <2>1. workers[w] \in Request /\ workers[w].pc = "insert"
      BY <1>3, RequestShape DEF InsertUploading, TypeInv
    <2>2. files'[f] = NewRow(workers[w], k, "UPLOADING")
      BY <1>1, <1>3 DEF InsertUploading
    <2> QED  BY <2>1, <2>2 DEF LiveStatuses
  <1>4. ASSUME NEW w \in Workers, IssueTicket(w) PROVE FALSE
    <2>1. workers[w].file \in FileIds
      BY <1>4, TicketShape DEF IssueTicket, TicketRequest, TypeInv
    <2>2. files'[f] = [files[f] EXCEPT !.ticket = "valid"]
      BY <1>1, <1>4 DEF IssueTicket
    <2> QED  BY <1>1, <2>2 DEF NoRow
  <1>5. ASSUME NEW m \in reports, UploadComplete(m) \/ UploadFailed(m) PROVE FALSE
    BY <1>1, <1>5 DEF UploadComplete, UploadFailed, Present
  <1>6. ASSUME NEW g \in FileIds, DeleteFile(g) \/ ExpireTicket(g) \/ GrowLate(g) PROVE FALSE
    BY <1>1, <1>6 DEF DeleteFile, ExpireTicket, GrowLate, Present
  <1>7. CASE CleanupOrphanedUploads
    BY <1>1, <1>7 DEF CleanupOrphanedUploads, Orphans, Present
  <1>8. ASSUME NEW a \in Scans, NEW g \in FileIds, ReconcileMark(a, g) PROVE FALSE
    BY <1>1, <1>8 DEF ReconcileMark, Marked, NoRow
  <1> QED
    BY <1>1, <1>2, <1>3, <1>4, <1>5, <1>6, <1>7, <1>8
    DEF Next, InitUpload, CheckDuplicate, CheckDuplicateFails, FindCandidates, ReadVersion,
        ReadVersionFails, InsertFails, IssueTicketFails, Reconcile, CollectManifest,
        ReconcileSelect, ReconcileSelectFails, ReconcileMarkFails, CoordinatorRestart,
        OpenUpload, vars, dbVars

\* How a request comes to where it is: it begins with the duplicate check, and
\* its version is read, or not, on the way to the INSERT.
Begins(q) ==
    /\ q.before = Present
    /\ DuplicatesInRoom(q.room, q.sha) = {} \/ "duplicates" \in q.blind
    /\ q.pc = "candidates"

RequestGoesOn(old, new) ==
    /\ old.pc \in {"candidates", "version"} /\ new.pc \in {"version", "insert"}
    /\ new.room = old.room /\ new.name = old.name /\ new.sha = old.sha
    /\ new.before = old.before
    /\ old.blind \subseteq new.blind
    /\ new.pc = "insert" =>
           \/ "version" \in new.blind
           \/ \A f \in Present :
                  files[f].room = new.room /\ files[f].name = new.name
                  => files[f].version < new.version

LEMMA RequestsGoOn ==
    ASSUME TypeInv, [Next]_vars, NEW w \in Workers, Requesting(w)'
    PROVE  \/ workers'[w] = workers[w]
           \/ Begins(workers'[w])
           \/ Requesting(w) /\ RequestGoesOn(workers[w], workers'[w])
  <1>0. workers \in [Workers -> Request \cup TicketRequest \cup {Idle}]
    BY DEF TypeInv, TypeOK
  <1>1. ASSUME NEW r \in Rooms, NEW n \in Names, NEW s \in Shas,
               CheckDuplicate(w, r, n, s) \/ CheckDuplicateFails(w, r, n, s)
        PROVE  Begins(workers'[w])
    BY <1>0, <1>1 DEF CheckDuplicate, CheckDuplicateFails, Admitted, Begins
  <1>2. CASE FindCandidates(w)
    <2>1. workers[w] \in Request /\ workers[w].pc = "candidates"
      BY <1>2, RequestShape DEF FindCandidates, TypeInv
    <2>2. PICK k : workers' = [workers EXCEPT ![w] = [@ EXCEPT !.pc = "version", !.source = k]]
      BY <1>2 DEF FindCandidates
    <2>3. workers'[w] = [workers[w] EXCEPT !.pc = "version", !.source = k]
      BY <1>0, <2>2
    <2> QED  BY <2>1, <2>3 DEF Request, RequestGoesOn, Requesting
  <1>3. CASE ReadVersion(w)
    <2>1. workers[w] \in Request /\ workers[w].pc = "version"
      BY <1>3, RequestShape DEF ReadVersion, TypeInv
    <2>2. PICK v \in MaxVersions(workers[w].room, workers[w].name) :
              workers' = [workers EXCEPT ![w] = [@ EXCEPT !.pc = "insert", !.version = v + 1]]
      BY <1>3 DEF ReadVersion
    <2>3. workers'[w] = [workers[w] EXCEPT !.pc = "insert", !.version = v + 1]
      BY <1>0, <2>2
    <2>4. ASSUME NEW f \in Present,
                 files[f].room = workers[w].room, files[f].name = workers[w].name
          PROVE  files[f].version < v + 1
      <3>1. files[f].version \in Versions(workers[w].room, workers[w].name)
        BY <2>4 DEF Versions
      <3>2. files[f].version <= v /\ files[f].version \in Nat
        BY <2>2, <3>1, PresentRow DEF MaxVersions, TypeInv, Row
      <3>3. v \in Nat
        BY <2>2, PresentRow DEF MaxVersions, Versions, TypeInv, Row
      <3> QED  BY <3>2, <3>3
    <2> QED  BY <2>1, <2>3, <2>4 DEF Request, RequestGoesOn, Requesting
  <1>4. CASE ReadVersionFails(w)
    <2> DEFINE b == workers[w].blind \cup {"version"}
               new == [workers[w] EXCEPT !.pc = "insert", !.version = 1, !.blind = b]
    <2>1. workers[w] \in Request /\ workers[w].pc = "version"
      BY <1>4, RequestShape DEF ReadVersionFails, TypeInv
    <2>2. workers'[w] = new
      BY <1>0, <1>4 DEF ReadVersionFails
    <2>3. workers[w].blind \subseteq b /\ "version" \in b
      OBVIOUS
    <2>4. RequestGoesOn(workers[w], new)
      <3> HIDE DEF b
      <3> QED  BY <2>1, <2>3 DEF Request, RequestGoesOn
    <2> QED  BY <2>1, <2>2, <2>4 DEF Requesting
  <1>5. CASE \/ \E f \in FileIds : InsertReady(w, f)
             \/ \E f \in FileIds, n \in Nodes : InsertUploading(w, f, n)
             \/ InsertFails(w) \/ IssueTicket(w) \/ IssueTicketFails(w)
    <2>1. workers'[w] = Idle \/ \E f \in FileIds : workers'[w] = [pc |-> "ticket", file |-> f]
      BY <1>0, <1>5
      DEF InsertReady, InsertUploading, InsertFails, IssueTicket, IssueTicketFails
    <2>2. ASSUME NEW f \in FileIds, workers'[w] = [pc |-> "ticket", file |-> f]
          PROVE  workers'[w].pc = "ticket"
      BY <2>2
    <2>3. Idle.pc = "idle"
      BY DEF Idle
    <2>4. workers'[w].pc \in {"idle", "ticket"}
      BY <2>1, <2>2, <2>3
    <2> QED  BY <2>4 DEF Requesting
  <1>6. CASE workers'[w] = workers[w]
    BY <1>6
  <1>7. ASSUME NEW v \in Workers, v # w, InitUpload(v)
        PROVE  workers'[w] = workers[w]
    BY <1>7
    DEF InitUpload, CheckDuplicate, CheckDuplicateFails, FindCandidates, ReadVersion,
        ReadVersionFails, InsertReady, InsertUploading, InsertFails, IssueTicket,
        IssueTicketFails, TypeInv, TypeOK
  <1>8. CASE InitUpload(w)
    BY <1>1, <1>2, <1>3, <1>4, <1>5, <1>8 DEF InitUpload
  <1>9. CASE CoordinatorRestart
    BY <1>9 DEF CoordinatorRestart, Requesting, Idle
  <1>10. CASE \/ \E m \in reports : UploadComplete(m) \/ UploadFailed(m)
              \/ \E f \in FileIds :
                     DeleteFile(f) \/ ExpireTicket(f) \/ GrowLate(f) \/ OpenUpload(f)
              \/ CleanupOrphanedUploads
              \/ \E a \in Scans : Reconcile(a)
              \/ NodeStep /\ UNCHANGED dbVars
              \/ UNCHANGED vars
    BY <1>10
    DEF UploadComplete, UploadFailed, DeleteFile, ExpireTicket, GrowLate, OpenUpload,
        CleanupOrphanedUploads, Reconcile, CollectManifest, ReconcileSelect,
        ReconcileSelectFails, ReconcileMark, ReconcileMarkFails, vars, dbVars
  <1> QED  BY <1>6, <1>7, <1>8, <1>9, <1>10 DEF Next

----
(***************************************************************************)
(* Duplicates and versions.  What a request has found out of the rows that *)
(* were there before it stays true of them until it inserts its own.       *)
(***************************************************************************)

BeforeIsPresent ==
    /\ \A g \in Present : files[g].before \subseteq Present
    /\ \A w \in Workers : Requesting(w) => workers[w].before \subseteq Present

\* A request past the duplicate check, and a live row of its content.
RequestDuplicates ==
    \A w \in Workers : Requesting(w) =>
        \A f \in workers[w].before :
            ( /\ files[f].status \in LiveStatuses
              /\ files[f].room = workers[w].room /\ files[f].sha = workers[w].sha )
            => files[f].revived \/ "duplicates" \in workers[w].blind

\* A request that has its version, and an earlier row of the name.
RequestVersions ==
    \A w \in Workers : workers[w].pc = "insert" =>
        \A f \in workers[w].before :
            ( /\ files[f].room = workers[w].room /\ files[f].name = workers[w].name
              /\ "version" \notin workers[w].blind )
            => files[f].version < workers[w].version

HistoryInv ==
    /\ BeforeIsPresent
    /\ RequestDuplicates /\ DuplicatesExplained
    /\ RequestVersions /\ VersionsFollowRealTime

LEMMA HistoryInit == Init => HistoryInv
  BY DEF Init, HistoryInv, BeforeIsPresent, RequestDuplicates, DuplicatesExplained,
         RequestVersions, VersionsFollowRealTime, Present, Requesting, Idle

LEMMA HistoryStep ==
    ASSUME TypeInv, HistoryInv, [Next]_vars
    PROVE  HistoryInv'
  <1>0. \A f \in Present : f \in Present' /\ RowGoesOn(files[f], files'[f])
    BY RowsGoOn
  <1>1. ASSUME NEW w \in Workers, Requesting(w)'
        PROVE  \/ workers'[w] = workers[w]
               \/ Begins(workers'[w])
               \/ Requesting(w) /\ RequestGoesOn(workers[w], workers'[w])
    BY <1>1, RequestsGoOn
  <1>2. ASSUME NEW f \in Present', f \notin Present
        PROVE  \E w \in Workers, n \in Nodes, status \in LiveStatuses :
                   /\ workers[w].pc = "insert" /\ workers[w] \in Request
                   /\ files'[f] = NewRow(workers[w], n, status)
    BY <1>2, RowsBegin
  \* What a new row was told by its request.
  <1>3. ASSUME NEW g \in Present', g \notin Present
        PROVE  \E w \in Workers :
                   /\ workers[w].pc = "insert" /\ Requesting(w)
                   /\ files'[g].before = workers[w].before
                   /\ files'[g].room = workers[w].room
                   /\ files'[g].name = workers[w].name
                   /\ files'[g].sha = workers[w].sha
                   /\ files'[g].version = workers[w].version
                   /\ files'[g].blind = workers[w].blind
    <2>1. PICK w \in Workers, n \in Nodes, status \in LiveStatuses :
              /\ workers[w].pc = "insert"
              /\ files'[g] = NewRow(workers[w], n, status)
      BY <1>2, <1>3
    <2> QED  BY <2>1 DEF NewRow, Requesting
  <1>4. BeforeIsPresent'
    <2>1. ASSUME NEW g \in Present' PROVE files'[g].before \subseteq Present
      <3>1. CASE g \in Present
        BY <1>0, <3>1 DEF RowGoesOn, HistoryInv, BeforeIsPresent
      <3>2. CASE g \notin Present
        BY <1>3, <3>2 DEF HistoryInv, BeforeIsPresent
      <3> QED  BY <3>1, <3>2
    <2>2. ASSUME NEW w \in Workers, Requesting(w)' PROVE workers'[w].before \subseteq Present
      <3>1. CASE workers'[w] = workers[w]
        BY <2>2, <3>1 DEF HistoryInv, BeforeIsPresent, Requesting
      <3> QED  BY <1>1, <2>2, <3>1 DEF Begins, RequestGoesOn, HistoryInv, BeforeIsPresent
    <2> QED  BY <1>0, <2>1, <2>2 DEF BeforeIsPresent
  <1>5. RequestDuplicates'
    <2> SUFFICES ASSUME NEW w \in Workers, Requesting(w)',
                        NEW f \in workers'[w].before,
                        files'[f].status \in LiveStatuses,
                        files'[f].room = workers'[w].room,
                        files'[f].sha = workers'[w].sha,
                        "duplicates" \notin workers'[w].blind
                 PROVE  files'[f].revived
      BY DEF RequestDuplicates
    <2>1. CASE Begins(workers'[w])
      <3>1. f \in Present /\ files[f].status \notin LiveStatuses
        BY <1>0, <2>1 DEF Begins, DuplicatesInRoom, RowGoesOn
      <3> QED  BY <1>0, <3>1 DEF RowGoesOn
    <2>2. CASE /\ Requesting(w) /\ workers'[w].before = workers[w].before
               /\ workers'[w].room = workers[w].room /\ workers'[w].sha = workers[w].sha
               /\ workers[w].blind \subseteq workers'[w].blind
      <3>1. f \in Present
        BY <2>2 DEF HistoryInv, BeforeIsPresent
      <3> QED  BY <1>0, <2>2, <3>1 DEF HistoryInv, RequestDuplicates, RowGoesOn
    <2>3. CASE workers'[w] = workers[w]
      BY <2>2, <2>3 DEF Requesting
    <2> QED  BY <1>1, <2>1, <2>2, <2>3 DEF RequestGoesOn
  <1>6. DuplicatesExplained'
    <2> SUFFICES ASSUME NEW f \in Present', NEW g \in Present', f \in files'[g].before,
                        files'[f].status \in LiveStatuses, files'[g].status \in LiveStatuses,
                        files'[f].room = files'[g].room, files'[f].sha = files'[g].sha
                 PROVE  files'[f].revived \/ files'[g].revived
                        \/ "duplicates" \in files'[g].blind
      BY DEF DuplicatesExplained
    <2>1. CASE g \in Present
      <3>1. f \in Present /\ f \in files[g].before
        BY <1>0, <2>1 DEF RowGoesOn, HistoryInv, BeforeIsPresent
      <3>2. RowGoesOn(files[f], files'[f]) /\ RowGoesOn(files[g], files'[g])
        BY <1>0, <2>1, <3>1
      <3> QED  BY <2>1, <3>1, <3>2 DEF RowGoesOn, HistoryInv, DuplicatesExplained
    <2>2. CASE g \notin Present
      <3>1. PICK w \in Workers :
                /\ Requesting(w)
                /\ files'[g].before = workers[w].before
                /\ files'[g].room = workers[w].room
                /\ files'[g].sha = workers[w].sha
                /\ files'[g].blind = workers[w].blind
        BY <1>3, <2>2
      <3>2. f \in Present /\ RowGoesOn(files[f], files'[f])
        BY <1>0, <3>1 DEF HistoryInv, BeforeIsPresent
      <3> QED  BY <3>1, <3>2 DEF RowGoesOn, HistoryInv, RequestDuplicates
    <2> QED  BY <2>1, <2>2
  <1>7. RequestVersions'
    <2> SUFFICES ASSUME NEW w \in Workers, workers'[w].pc = "insert",
                        NEW f \in workers'[w].before,
                        files'[f].room = workers'[w].room,
                        files'[f].name = workers'[w].name,
                        "version" \notin workers'[w].blind
                 PROVE  files'[f].version < workers'[w].version
      BY DEF RequestVersions
    <2>1. Requesting(w)' /\ ~Begins(workers'[w])
      BY DEF Requesting, Begins
    <2>2. CASE workers'[w] = workers[w]
      <3>1. f \in Present
        BY <2>1, <2>2 DEF HistoryInv, BeforeIsPresent, Requesting
      <3> QED  BY <1>0, <2>2, <3>1 DEF HistoryInv, RequestVersions, RowGoesOn
    <2>3. CASE Requesting(w) /\ RequestGoesOn(workers[w], workers'[w])
      <3>1. f \in Present
        BY <2>3 DEF RequestGoesOn, HistoryInv, BeforeIsPresent
      <3> QED  BY <1>0, <2>3, <3>1 DEF RequestGoesOn, RowGoesOn
    <2> QED  BY <1>1, <2>1, <2>2, <2>3
  <1>8. VersionsFollowRealTime'
    <2> SUFFICES ASSUME NEW f \in Present', NEW g \in Present', f \in files'[g].before,
                        files'[f].room = files'[g].room, files'[f].name = files'[g].name,
                        "version" \notin files'[g].blind
                 PROVE  files'[f].version < files'[g].version
      BY DEF VersionsFollowRealTime
    <2>1. CASE g \in Present
      <3>1. f \in Present /\ f \in files[g].before
        BY <1>0, <2>1 DEF RowGoesOn, HistoryInv, BeforeIsPresent
      <3>2. RowGoesOn(files[f], files'[f]) /\ RowGoesOn(files[g], files'[g])
        BY <1>0, <2>1, <3>1
      <3> QED  BY <2>1, <3>1, <3>2 DEF RowGoesOn, HistoryInv, VersionsFollowRealTime
    <2>2. CASE g \notin Present
      <3>1. PICK w \in Workers :
                /\ workers[w].pc = "insert" /\ Requesting(w)
                /\ files'[g].before = workers[w].before
                /\ files'[g].room = workers[w].room
                /\ files'[g].name = workers[w].name
                /\ files'[g].version = workers[w].version
                /\ files'[g].blind = workers[w].blind
        BY <1>3, <2>2
      <3>2. f \in Present /\ RowGoesOn(files[f], files'[f])
        BY <1>0, <3>1 DEF HistoryInv, BeforeIsPresent
      <3> QED  BY <3>1, <3>2 DEF RowGoesOn, HistoryInv, RequestVersions
    <2> QED  BY <2>1, <2>2
  <1> QED  BY <1>4, <1>5, <1>6, <1>7, <1>8 DEF HistoryInv

\* Two live rows of a room with the same content come from requests that ran
\* at the same time, from a duplicate check that hit a database error, or from
\* a row that came back to life.
THEOREM DuplicatesAlwaysExplained == Spec => []DuplicatesExplained
  <1>1. HistoryInv => DuplicatesExplained
    BY DEF HistoryInv
  <1> QED  BY <1>1, TypeInit, TypeStep, HistoryInit, HistoryStep, PTL DEF Spec

\* An upload that begins when another one of the name has its row gets a
\* higher version, whatever became of that row, unless its read failed.
THEOREM VersionsAlwaysGrow == Spec => []VersionsFollowRealTime
  <1>1. HistoryInv => VersionsFollowRealTime
    BY DEF HistoryInv
  <1> QED  BY <1>1, TypeInit, TypeStep, HistoryInit, HistoryStep, PTL DEF Spec

\* A verdict that is older than a DELETE_FILE does not undo it.
THEOREM DeletedRowsSpared == Spec => StaleVerdictsSpareDeletedRows
  <1>1. ASSUME TypeInv, [Next]_vars
        PROVE  [\A f \in Present :
                    files[f].status = "DELETED" => files'[f].status # "MISSING"]_vars
    BY <1>1, RowsGoOn DEF RowGoesOn
  <1> QED
    BY <1>1, TypeInit, TypeStep, PTL DEF Spec, StaleVerdictsSpareDeletedRows

----
(***************************************************************************)
(* What makes a row READY or MISSING: a completion report about it, and a  *)
(* reconciliation whose SELECT returned it.                                *)
(***************************************************************************)

Turns(f) ==
    /\ files'[f].status = "READY" /\ files[f].status # "READY" =>
           \E m \in reports : m.file = f
    /\ files'[f].status = "MISSING" /\ files[f].status # "MISSING" =>
           \E a \in Scans :
               /\ scans[a].pc = "mark" /\ f \in scans[a].todo
               /\ files[f].status = "READY"
               /\ scans[a].failed => "manifest" \in files'[f].blind

LEMMA RowsTurn ==
    ASSUME TypeInv, [Next]_vars, NEW f \in Present
    PROVE  Turns(f)
  <1>1. /\ f \in FileIds /\ files[f] \in Row /\ files[f] # NoRow
        /\ files \in [FileIds -> Row \cup {NoRow}]
    BY PresentRow DEF TypeInv, TypeOK, Present
  <1>2. ASSUME files'[f].status \in {files[f].status, "DELETED"} PROVE Turns(f)
    BY <1>2 DEF Turns
  <1>3. /\ [files[f] EXCEPT !.status = "DELETED"].status = "DELETED"
        /\ [files[f] EXCEPT !.ticket = "valid"].status = files[f].status
        /\ [files[f] EXCEPT !.ticket = "expired"].status = files[f].status
        /\ [files[f] EXCEPT !.late = TRUE].status = files[f].status
    BY <1>1 DEF Row
  <1>4. ASSUME NEW w \in Workers, InitUpload(w) PROVE Turns(f)
    <2>1. ASSUME NEW g \in FileIds, InsertReady(w, g) PROVE Turns(f)
      BY <1>1, <1>2, <2>1 DEF InsertReady
    <2>2. ASSUME NEW g \in FileIds, NEW n \in Nodes, InsertUploading(w, g, n) PROVE Turns(f)
      BY <1>1, <1>2, <2>2 DEF InsertUploading
    <2>3. CASE IssueTicket(w)
      BY <1>1, <1>2, <1>3, <2>3 DEF IssueTicket
    <2>4. CASE UNCHANGED files
      BY <1>2, <2>4
    <2> QED
      BY <1>4, <2>1, <2>2, <2>3, <2>4
      DEF InitUpload, CheckDuplicate, CheckDuplicateFails, FindCandidates, ReadVersion,
          ReadVersionFails, InsertFails, IssueTicketFails
  <1>5. ASSUME NEW m \in reports, UploadComplete(m) PROVE Turns(f)
    <2>1. CASE m.file = f
      <3>1. Verdict(files[f], m) \in {"READY", "DELETED", files[f].status}
        BY DEF Verdict
      <3> DEFINE status == Verdict(files[f], m)
                 row == files[f]
      <3>2. files'[f].status = status
        <4>1. PICK revived, raced :
                  files' = [files EXCEPT ![f] =
                      [row EXCEPT !.status = status, !.revived = revived, !.raced = raced]]
          BY <1>5, <2>1 DEF UploadComplete
        <4> HIDE DEF status
        <4> QED  BY <1>1, <4>1 DEF Row
      <3> HIDE DEF status
      <3>3. status \in {"READY", "DELETED", files[f].status}
        BY <3>1 DEF status
      <3> QED  BY <1>5, <2>1, <3>2, <3>3 DEF Turns
    <2>2. CASE m.file # f
      BY <1>1, <1>2, <1>5, <2>2 DEF UploadComplete
    <2> QED  BY <2>1, <2>2
  <1>6. ASSUME NEW m \in reports, UploadFailed(m) PROVE Turns(f)
    BY <1>1, <1>2, <1>3, <1>6 DEF UploadFailed
  <1>7. ASSUME NEW g \in FileIds, DeleteFile(g) \/ ExpireTicket(g) \/ GrowLate(g)
        PROVE  Turns(f)
    BY <1>1, <1>2, <1>3, <1>7 DEF DeleteFile, ExpireTicket, GrowLate
  <1>8. CASE CleanupOrphanedUploads
    BY <1>1, <1>2, <1>3, <1>8 DEF CleanupOrphanedUploads
  <1>9. ASSUME NEW a \in Scans, NEW g \in FileIds, ReconcileMark(a, g) PROVE Turns(f)
    <2>1. CASE g # f \/ files[f].status # "READY"
      BY <1>1, <1>2, <1>9, <2>1 DEF ReconcileMark, Marked
    <2>2. CASE g = f /\ files[f].status = "READY"
      <3> DEFINE b == IF scans[a].failed THEN files[f].blind \cup {"manifest"}
                      ELSE files[f].blind
      <3>1. /\ scans[a].pc = "mark" /\ f \in scans[a].todo
            /\ files'[f] = [files[f] EXCEPT !.status = "MISSING", !.blind = b]
        BY <1>1, <1>9, <2>2 DEF ReconcileMark, Marked
      <3>2. scans[a].failed => "manifest" \in b
        OBVIOUS
      <3> HIDE DEF b
      <3>3. files'[f].status = "MISSING" /\ files'[f].blind = b
        BY <1>1, <3>1 DEF Row
      <3> QED  BY <2>2, <3>1, <3>2, <3>3 DEF Turns
    <2> QED  BY <2>1, <2>2
  <1>10. ASSUME NEW a \in Scans, Reconcile(a) PROVE Turns(f)
    <2>1. UNCHANGED files \/ \E g \in FileIds : ReconcileMark(a, g)
      BY <1>10
      DEF Reconcile, CollectManifest, ReconcileSelect, ReconcileSelectFails, ReconcileMarkFails
    <2> QED  BY <1>2, <1>9, <2>1
  <1>11. CASE \/ CoordinatorRestart \/ UNCHANGED vars \/ (NodeStep /\ UNCHANGED dbVars)
              \/ \E g \in FileIds : OpenUpload(g)
    BY <1>2, <1>11 DEF CoordinatorRestart, OpenUpload, vars, dbVars
  <1> QED  BY <1>4, <1>5, <1>6, <1>7, <1>8, <1>10, <1>11 DEF Next

----
(***************************************************************************)
(* Tickets.  A node reports on files whose tickets it has verified, and    *)
(* there is no way back to "unissued".                                     *)
(***************************************************************************)

TicketInv ==
    /\ \A n \in Nodes : \A f \in granted[n] :
           f \in Present /\ files[f].ticket # "unissued"
    /\ \A m \in reports : m.file \in Present /\ files[m.file].ticket # "unissued"

LEMMA TicketInit == Init => TicketInv
  BY DEF Init, NodeInit, TicketInv

LEMMA TicketStep ==
    ASSUME TypeInv, TicketInv, [Next]_vars
    PROVE  TicketInv'
  <1>0. \A f \in Present : files[f].ticket # "unissued"
            => f \in Present' /\ files'[f].ticket # "unissued"
    BY RowsGoOn DEF RowGoesOn
  <1>1. CASE /\ \A n \in Nodes : granted'[n] = granted[n]
             /\ reports' \subseteq reports
    BY <1>0, <1>1 DEF TicketInv
  <1>2. ASSUME NEW f \in FileIds, OpenUpload(f) PROVE TicketInv'
    <2>1. /\ f \in Present /\ files[f].ticket = "valid" /\ reports' = reports
          /\ \A n \in Nodes : granted'[n] \subseteq granted[n] \cup {f}
      BY <1>2 DEF OpenUpload, TicketVerifies, Grant, TypeInv, TypeOK, NodeTypeOK
    <2> QED  BY <1>0, <2>1 DEF TicketInv
  <1>3. CASE NodeStep
    <2>1. /\ granted' = granted
          /\ \A m \in reports' : m \in reports \/ \E n \in Nodes : m.file \in granted[n]
      BY <1>3
      DEF NodeStep, Commit, DiskLoss, ReportComplete, ReportFailed, DropReport
    <2> QED  BY <1>0, <2>1 DEF TicketInv
  <1>4. CASE \E m \in reports : UploadComplete(m) \/ UploadFailed(m)
    BY <1>1, <1>4 DEF UploadComplete, UploadFailed
  <1>5. CASE \/ \E w \in Workers : InitUpload(w)
             \/ \E f \in FileIds : DeleteFile(f) \/ ExpireTicket(f) \/ GrowLate(f)
             \/ CleanupOrphanedUploads
             \/ \E a \in Scans : Reconcile(a)
             \/ CoordinatorRestart \/ UNCHANGED vars
    <2>1. UNCHANGED nodeVars
      BY <1>5
      DEF InitUpload, CheckDuplicate, CheckDuplicateFails, FindCandidates, ReadVersion,
          ReadVersionFails, InsertReady, InsertUploading, InsertFails, IssueTicket,
          IssueTicketFails, DeleteFile, ExpireTicket, GrowLate, CleanupOrphanedUploads,
          Reconcile, CollectManifest, ReconcileSelect, ReconcileSelectFails, ReconcileMark,
          ReconcileMarkFails, CoordinatorRestart, vars
    <2> QED  BY <1>1, <2>1 DEF nodeVars
  <1> QED  BY <1>2, <1>3, <1>4, <1>5 DEF Next

\* A deleted row becomes READY again only by a report, which a node makes only
\* of a file whose ticket it verified: one that never had a ticket stays gone.
THEOREM OnlyTicketedRevive == Spec => OnlyTicketedUploadsRevive
  <1>1. ASSUME TypeInv, TicketInv, [Next]_vars
        PROVE  [\A f \in Present :
                    files[f].status = "DELETED" /\ files'[f].status = "READY"
                    => files[f].ticket # "unissued"]_vars
    <2> SUFFICES ASSUME NEW f \in Present,
                        files[f].status = "DELETED", files'[f].status = "READY"
                 PROVE  files[f].ticket # "unissued"
      OBVIOUS
    <2> QED  BY <1>1, RowsTurn DEF Turns, TicketInv
  <1> QED
    BY <1>1, TypeInit, TypeStep, TicketInit, TicketStep, PTL
    DEF Spec, OnlyTicketedUploadsRevive

----
(***************************************************************************)
(* Reconciliations.  A READY row that a manifest does not list was READY   *)
(* when the manifest was collected, and then its content is lost, or it    *)
(* became READY since.                                                     *)
(***************************************************************************)

ScanInv ==
    \A a \in Scans : scans[a] # Idle =>
        /\ \A f \in Present :
               ( /\ files[f].status = "READY" /\ files[f].node = scans[a].node
                 /\ files[f].sha \notin scans[a].manifest )
               => \/ scans[a].failed
                  \/ files[f].sha \in lost[files[f].node]
                  \/ files[f].raced
        /\ \A f \in scans[a].todo :
               /\ f \in Present /\ files[f].node = scans[a].node
               /\ files[f].sha \notin scans[a].manifest

LEMMA ScanInit == Init => ScanInv /\ MissingExplained
  BY DEF Init, ScanInv, MissingExplained, Present

LEMMA LostGrows ==
    ASSUME TypeInv, [Next]_vars
    PROVE  \A n \in Nodes : lost[n] \subseteq lost'[n]
  <1>1. CASE NodeStep
    BY <1>1
    DEF NodeStep, Commit, DiskLoss, ReportComplete, ReportFailed, DropReport, TypeInv, TypeOK,
        NodeTypeOK
  <1>2. NodeStep \/ UNCHANGED lost
    BY DEF Next, vars, nodeVars, InitUpload, CheckDuplicate, CheckDuplicateFails, FindCandidates,
           ReadVersion, ReadVersionFails, InsertReady, InsertUploading, InsertFails, IssueTicket,
           IssueTicketFails, UploadComplete, UploadFailed, CleanupOrphanedUploads, DeleteFile,
           ExpireTicket, GrowLate, OpenUpload, Grant, Reconcile, CollectManifest,
           ReconcileSelect, ReconcileSelectFails, ReconcileMark, ReconcileMarkFails,
           CoordinatorRestart
  <1> QED  BY <1>1, <1>2

\* How a reconciliation comes to where it is.
LEMMA ScansGoOn ==
    ASSUME TypeInv, [Next]_vars, NEW a \in Scans, scans'[a] # Idle
    PROVE  \/ /\ scans[a] # Idle
              /\ scans'[a].node = scans[a].node
              /\ scans'[a].manifest = scans[a].manifest
              /\ scans'[a].failed = scans[a].failed
              /\ \/ scans'[a].todo \subseteq scans[a].todo
                 \/ scans'[a].todo = Unlisted(scans[a].node, scans[a].manifest)
           \/ /\ scans'[a].node \in Nodes /\ scans'[a].todo = {}
              /\ scans'[a].failed \/ scans'[a].manifest = stored[scans'[a].node]
              /\ UNCHANGED <<files, lost>>
  <1>0. scans \in [Scans -> Scan \cup {Idle}]
    BY DEF TypeInv, TypeOK
  <1>1. CASE scans'[a] = scans[a]
    BY <1>1
  <1>2. ASSUME NEW n \in Nodes, CollectManifest(a, n)
        PROVE  /\ scans'[a].node \in Nodes /\ scans'[a].todo = {}
               /\ scans'[a].failed \/ scans'[a].manifest = stored[scans'[a].node]
               /\ UNCHANGED <<files, lost>>
    <2>1. PICK m \in {stored[n], {}} :
              scans' = [scans EXCEPT ![a] = [pc |-> "select", node |-> n, manifest |-> m,
                                             failed |-> m # stored[n], todo |-> {}]]
      BY <1>2 DEF CollectManifest
    <2>2. scans'[a] = [pc |-> "select", node |-> n, manifest |-> m,
                       failed |-> m # stored[n], todo |-> {}]
      BY <1>0, <2>1
    <2>3. /\ scans'[a].node = n /\ scans'[a].todo = {}
          /\ scans'[a].failed = (m # stored[n]) /\ scans'[a].manifest = m
      BY <2>2
    <2>4. UNCHANGED <<files, lost>>
      BY <1>2 DEF CollectManifest, nodeVars
    <2> QED  BY <2>3, <2>4
  <1>3. CASE ReconcileSelect(a)
    <2> DEFINE absent == Unlisted(scans[a].node, scans[a].manifest)
    <2>0. scans[a].pc = "select" /\ Idle.pc = "idle"
      BY <1>3 DEF ReconcileSelect, Idle
    <2>1. scans[a] \in Scan /\ scans[a] # Idle
      BY <2>0, ScanShape DEF TypeInv
    <2>2. scans'[a] = [scans[a] EXCEPT !.pc = "mark", !.todo = absent]
      BY <1>0, <1>3 DEF ReconcileSelect
    <2>3. /\ scans'[a].node = scans[a].node /\ scans'[a].manifest = scans[a].manifest
          /\ scans'[a].failed = scans[a].failed /\ scans'[a].todo = absent
      <3> HIDE DEF absent
      <3> QED  BY <2>1, <2>2 DEF Scan
    <2> QED  BY <2>1, <2>3
  <1>4. CASE ReconcileSelectFails(a)
    BY <1>0, <1>4 DEF ReconcileSelectFails
  <1>5. ASSUME NEW f \in FileIds, ReconcileMark(a, f) \/ ReconcileMarkFails(a, f)
        PROVE  /\ scans[a] # Idle
               /\ scans'[a].node = scans[a].node
               /\ scans'[a].manifest = scans[a].manifest
               /\ scans'[a].failed = scans[a].failed
               /\ scans'[a].todo \subseteq scans[a].todo
    <2>0. scans[a].pc = "mark" /\ Idle.pc = "idle"
      BY <1>5 DEF ReconcileMark, ReconcileMarkFails, Idle
    <2>1. scans[a] \in Scan /\ scans[a] # Idle
      BY <2>0, ScanShape DEF TypeInv
    <2>2. scans'[a] = [scans[a] EXCEPT !.todo = scans[a].todo \ {f}]
      BY <1>0, <1>5 DEF ReconcileMark, ReconcileMarkFails, ScanDone
    <2> QED  BY <2>1, <2>2 DEF Scan
  <1>6. ASSUME NEW b \in Scans, b # a, Reconcile(b) PROVE scans'[a] = scans[a]
    BY <1>0, <1>6
    DEF Reconcile, CollectManifest, ReconcileSelect, ReconcileSelectFails, ReconcileMark,
        ReconcileMarkFails, ScanDone
  <1>7. CASE Reconcile(a)
    BY <1>2, <1>3, <1>4, <1>5, <1>7 DEF Reconcile
  <1>8. CASE CoordinatorRestart
    BY <1>8 DEF CoordinatorRestart
  <1> QED
    BY <1>1, <1>6, <1>7, <1>8
    DEF Next, InitUpload, CheckDuplicate, CheckDuplicateFails, FindCandidates, ReadVersion,
        ReadVersionFails, InsertReady, InsertUploading, InsertFails, IssueTicket,
        IssueTicketFails, UploadComplete, UploadFailed, CleanupOrphanedUploads, DeleteFile,
        ExpireTicket, GrowLate, OpenUpload, vars, dbVars

LEMMA ScanStep ==
    ASSUME TypeInv, CommitInv, ScanInv, MissingExplained, [Next]_vars
    PROVE  ScanInv' /\ MissingExplained'
  <1>0. \A f \in Present : f \in Present' /\ RowGoesOn(files[f], files'[f])
    BY RowsGoOn
  <1>1. \A f \in Present : files[f].sha \in lost[files[f].node]
                           => files'[f].sha \in lost'[files'[f].node]
    BY <1>0, LostGrows, PresentRow DEF RowGoesOn, TypeInv, Row
  <1>2. ScanInv'
    <2> SUFFICES ASSUME NEW a \in Scans, scans'[a] # Idle
                 PROVE  /\ \A f \in Present' :
                               ( /\ files'[f].status = "READY"
                                 /\ files'[f].node = scans'[a].node
                                 /\ files'[f].sha \notin scans'[a].manifest )
                               => \/ scans'[a].failed
                                  \/ files'[f].sha \in lost'[files'[f].node]
                                  \/ files'[f].raced
                        /\ \A f \in scans'[a].todo :
                               /\ f \in Present' /\ files'[f].node = scans'[a].node
                               /\ files'[f].sha \notin scans'[a].manifest
      BY DEF ScanInv
    <2>1. CASE /\ scans[a] # Idle
               /\ scans'[a].node = scans[a].node
               /\ scans'[a].manifest = scans[a].manifest
               /\ scans'[a].failed = scans[a].failed
               /\ \/ scans'[a].todo \subseteq scans[a].todo
                  \/ scans'[a].todo = Unlisted(scans[a].node, scans[a].manifest)
      <3>1. ASSUME NEW f \in scans'[a].todo
            PROVE  /\ f \in Present' /\ files'[f].node = scans'[a].node
                   /\ files'[f].sha \notin scans'[a].manifest
        <4>1. /\ f \in Present /\ files[f].node = scans[a].node
              /\ files[f].sha \notin scans[a].manifest
          BY <2>1 DEF ScanInv, Unlisted
        <4> QED  BY <1>0, <2>1, <4>1 DEF RowGoesOn
      <3>2. ASSUME NEW f \in Present', files'[f].status = "READY",
                   files'[f].node = scans'[a].node, files'[f].sha \notin scans'[a].manifest
            PROVE  \/ scans'[a].failed
                   \/ files'[f].sha \in lost'[files'[f].node]
                   \/ files'[f].raced
        <4>1. CASE f \in Present /\ files[f].status = "READY"
          <5>1. /\ files[f].node = scans[a].node
                /\ files[f].sha \notin scans[a].manifest
            BY <1>0, <2>1, <3>2, <4>1 DEF RowGoesOn
          <5> QED  BY <1>0, <1>1, <2>1, <4>1, <5>1 DEF ScanInv, RowGoesOn
        <4>2. CASE f \in Present /\ files[f].status # "READY"
          <5>1. Reconciling(files[f].node)
            BY <1>0, <2>1, <3>2, <4>2 DEF Reconciling, RowGoesOn
          <5> QED  BY <1>0, <3>2, <4>2, <5>1 DEF RowGoesOn
        <4>3. CASE f \notin Present
          <5>1. PICK w \in Workers, n \in Nodes, status \in LiveStatuses :
                    files'[f] = NewRow(workers[w], n, status)
            BY <3>2, <4>3, RowsBegin
          <5>2. files'[f].status = status /\ files'[f].node = n
                /\ files'[f].raced = (status = "READY" /\ Reconciling(n))
            BY <5>1 DEF NewRow
          <5>3. Reconciling(n)
            BY <2>1, <3>2, <5>2 DEF Reconciling
          <5> QED  BY <3>2, <5>2, <5>3
        <4> QED  BY <4>1, <4>2, <4>3
      <3> QED  BY <3>1, <3>2
    <2>2. CASE /\ scans'[a].node \in Nodes /\ scans'[a].todo = {}
               /\ scans'[a].failed \/ scans'[a].manifest = stored[scans'[a].node]
               /\ UNCHANGED <<files, lost>>
      BY <2>2 DEF CommitInv, ListedFilesAreCommitted, Committed, Present
    <2> QED  BY <2>1, <2>2, ScansGoOn
  <1>3. MissingExplained'
    <2> SUFFICES ASSUME NEW f \in Present', files'[f].status = "MISSING"
                 PROVE  \/ files'[f].sha \in lost'[files'[f].node]
                        \/ files'[f].raced
                        \/ "manifest" \in files'[f].blind
      BY DEF MissingExplained
    <2>1. f \in Present
      <3> SUFFICES ASSUME f \notin Present PROVE FALSE
        OBVIOUS
      <3>1. PICK w \in Workers, n \in Nodes, status \in LiveStatuses :
                files'[f] = NewRow(workers[w], n, status)
        BY RowsBegin
      <3>2. files'[f].status = status
        BY <3>1 DEF NewRow
      <3> QED  BY <3>2 DEF LiveStatuses
    <2>2. CASE files[f].status = "MISSING"
      BY <1>0, <1>1, <2>1, <2>2 DEF MissingExplained, RowGoesOn
    <2>3. CASE files[f].status # "MISSING"
      <3>1. PICK a \in Scans :
                /\ scans[a].pc = "mark" /\ f \in scans[a].todo
                /\ files[f].status = "READY"
                /\ scans[a].failed => "manifest" \in files'[f].blind
        BY <2>1, <2>3, RowsTurn DEF Turns
      <3>2. scans[a] # Idle
        BY <3>1 DEF Idle
      <3>3. \/ scans[a].failed
            \/ files[f].sha \in lost[files[f].node]
            \/ files[f].raced
        BY <2>1, <3>1, <3>2 DEF ScanInv
      <3> QED  BY <1>0, <1>1, <2>1, <3>1, <3>3 DEF RowGoesOn
    <2> QED  BY <2>2, <2>3
  <1> QED  BY <1>2, <1>3

\* A row is MISSING only if its node lost the content, its manifest could not
\* be listed, or the row became READY while it was being reconciled.
THEOREM MissingAlwaysExplained == Spec => []MissingExplained
  BY TypeInit, TypeStep, CommitInit, CommitStep, ScanInit, ScanStep, PTL DEF Spec

====
