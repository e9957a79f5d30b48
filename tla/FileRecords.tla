---- MODULE FileRecords ----
(***************************************************************************)
(* The files table of the coordinator and everything that writes it:       *)
(* INIT_UPLOAD requests on the client worker threads, the reports of the   *)
(* storage nodes, DELETE_FILE, the orphan cleanup and the reconciliation   *)
(* of a node's manifest.  Every statement the code sends is a transaction  *)
(* of its own, so each one is an action here and the threads interleave    *)
(* between them.  The table has no unique index on (room, name, version)   *)
(* or on (room, sha256): nothing but these steps keeps them apart.         *)
(***************************************************************************)
EXTENDS ContentNode, Integers

CONSTANTS
    Rooms,      \* rooms
    Names,      \* original file names
    Workers,    \* threads that run INIT_UPLOAD requests
    Scans,      \* threads that run STORAGE_AUTH handlers
    NoNode      \* "no candidate to share content with"

ASSUME NoNodeAssumption == NoNode \notin Nodes

VARIABLES
    files,      \* the files table, one row per identifier
    workers,    \* what each INIT_UPLOAD thread has read so far
    scans       \* what each reconciliation has read so far

dbVars == <<files, workers, scans>>
vars   == <<dbVars, nodeVars>>

Statuses == {"UPLOADING", "READY", "DELETED", "MISSING"}
LiveStatuses == {"UPLOADING", "READY"}

\* before, blind, revived and raced are history: the rows that existed when
\* the row's request made its first read, which of its reads hit a database error (the code
\* goes on as if they had found nothing), whether it became READY again after
\* DELETED or MISSING, and whether it became READY while its node's manifest
\* was being reconciled.  late: the row is older than the 35 minutes of the
\* orphan cleanup.
Row ==
    [room : Rooms, name : Names, sha : Shas, version : Nat \ {0}, node : Nodes,
     status : Statuses, ticket : {"unissued", "valid", "expired"}, late : BOOLEAN,
     before : SUBSET FileIds, blind : SUBSET {"duplicates", "version", "manifest"},
     revived : BOOLEAN, raced : BOOLEAN]

NoRow == [status |-> "ABSENT"]

Idle == [pc |-> "idle"]

Request ==
    [pc : {"candidates", "version", "insert"},
     room : Rooms, name : Names, sha : Shas, source : Nodes \cup {NoNode}, version : Nat,
     before : SUBSET FileIds, blind : SUBSET {"duplicates", "version"}]

TicketRequest == [pc : {"ticket"}, file : FileIds]

Scan ==
    [pc : {"select", "mark"}, node : Nodes, manifest : SUBSET Shas, failed : BOOLEAN,
     todo : SUBSET FileIds]

TypeOK ==
    /\ NodeTypeOK
    /\ files   \in [FileIds -> Row \cup {NoRow}]
    /\ workers \in [Workers -> Request \cup TicketRequest \cup {Idle}]
    /\ scans   \in [Scans -> Scan \cup {Idle}]

Init ==
    /\ NodeInit
    /\ files   = [f \in FileIds |-> NoRow]
    /\ workers = [w \in Workers |-> Idle]
    /\ scans   = [a \in Scans |-> Idle]

Present == {f \in FileIds : files[f] # NoRow}

----
(***************************************************************************)
(* INIT_UPLOAD: three reads, an INSERT and, for a fresh upload, a ticket.  *)
(***************************************************************************)

\* Fault: the check looks at finished uploads only.
ReadyDuplicatesInRoom(r, s) ==
    {f \in Present : files[f].status = "READY" /\ files[f].room = r /\ files[f].sha = s}

DuplicatesInRoom(r, s) ==
    {f \in Present : files[f].status \in LiveStatuses /\ files[f].room = r /\ files[f].sha = s}

\* A request that has got past the duplicate check.
Admitted(r, n, s, blind) ==
    [pc |-> "candidates", room |-> r, name |-> n, sha |-> s, source |-> NoNode,
     version |-> 0, before |-> Present, blind |-> blind]

\* find_same_room_duplicate, the first read of a request of somebody who may
\* upload to the room.  A hit ends the request.
CheckDuplicate(w, r, n, s) ==
    /\ workers[w] = Idle
    /\ Present # FileIds        \* the bound: no request without a free identifier
    /\ DuplicatesInRoom(r, s) = {}
    /\ workers' = [workers EXCEPT ![w] = Admitted(r, n, s, {})]
    /\ UNCHANGED <<files, scans, nodeVars>>

\* The query raises: the checker answers "no duplicate".
CheckDuplicateFails(w, r, n, s) ==
    /\ workers[w] = Idle
    /\ Present # FileIds
    /\ workers' = [workers EXCEPT ![w] = Admitted(r, n, s, {"duplicates"})]
    /\ UNCHANGED <<files, scans, nodeVars>>

Holders(s) ==
    {files[f].node : f \in {g \in Present : files[g].status = "READY" /\ files[g].sha = s}}

\* find_deduplication_candidates and the choice among them.  Which candidate
\* the registry finds reachable is its own affair: any, or none of them.
FindCandidates(w) ==
    /\ workers[w].pc = "candidates"
    /\ \E n \in Holders(workers[w].sha) \cup {NoNode} :
           workers' = [workers EXCEPT ![w] = [@ EXCEPT !.pc = "version", !.source = n]]
    /\ UNCHANGED <<files, scans, nodeVars>>

\* Fault: the versions of deleted rows are handed out again.
LiveVersions(r, n) ==
    {files[f].version : f \in {g \in Present : /\ files[g].room = r /\ files[g].name = n
                                               /\ files[g].status \in LiveStatuses}}

Versions(r, n) ==
    {files[f].version : f \in {g \in Present : files[g].room = r /\ files[g].name = n}}

\* MAX(version), 0 when there is no row of the name.
MaxVersions(r, n) ==
    {v \in Versions(r, n) \cup {0} : \A u \in Versions(r, n) : u <= v}

\* Fault: the highest version is handed out again.
ReadLatestVersion(w) ==
    /\ workers[w].pc = "version"
    /\ \E v \in MaxVersions(workers[w].room, workers[w].name) :
           workers' = [workers EXCEPT ![w] = [@ EXCEPT !.pc = "insert", !.version = v]]
    /\ UNCHANGED <<files, scans, nodeVars>>

ReadVersion(w) ==
    /\ workers[w].pc = "version"
    /\ \E v \in MaxVersions(workers[w].room, workers[w].name) :
           workers' = [workers EXCEPT ![w] = [@ EXCEPT !.pc = "insert", !.version = v + 1]]
    /\ UNCHANGED <<files, scans, nodeVars>>

\* The query raises: the version is 1.
ReadVersionFails(w) ==
    /\ workers[w].pc = "version"
    /\ workers' = [workers EXCEPT ![w] =
           [@ EXCEPT !.pc = "insert", !.version = 1,
                     !.blind = workers[w].blind \cup {"version"}]]
    /\ UNCHANGED <<files, scans, nodeVars>>

\* A reconciliation of n's manifest is under way.
Reconciling(n) == \E a \in Scans : scans[a] # Idle /\ scans[a].node = n

NewRow(q, n, status) ==
    [room |-> q.room, name |-> q.name, sha |-> q.sha, version |-> q.version, node |-> n,
     status |-> status, ticket |-> "unissued", late |-> FALSE, before |-> q.before,
     blind |-> q.blind, revived |-> FALSE, raced |-> status = "READY" /\ Reconciling(n)]

\* The content is shared with a row that had it: the new row is READY at once.
InsertReady(w, f) ==
    /\ workers[w].pc = "insert" /\ workers[w].source # NoNode
    /\ files[f] = NoRow
    /\ files' = [files EXCEPT ![f] = NewRow(workers[w], workers[w].source, "READY")]
    /\ workers' = [workers EXCEPT ![w] = Idle]
    /\ UNCHANGED <<scans, nodeVars>>

\* A fresh upload to the node n the registry picked.
InsertUploading(w, f, n) ==
    /\ workers[w].pc = "insert" /\ workers[w].source = NoNode
    /\ files[f] = NoRow
    /\ files' = [files EXCEPT ![f] = NewRow(workers[w], n, "UPLOADING")]
    /\ workers' = [workers EXCEPT ![w] = [pc |-> "ticket", file |-> f]]
    /\ UNCHANGED <<scans, nodeVars>>

\* STORAGE_NODE_UNAVAILABLE, or the INSERT raises.
InsertFails(w) ==
    /\ workers[w].pc = "insert"
    /\ workers' = [workers EXCEPT ![w] = Idle]
    /\ UNCHANGED <<files, scans, nodeVars>>

IssueTicket(w) ==
    /\ workers[w].pc = "ticket"
    /\ files' = [files EXCEPT ![workers[w].file].ticket = "valid"]
    /\ workers' = [workers EXCEPT ![w] = Idle]
    /\ UNCHANGED <<scans, nodeVars>>

\* Storing the ticket raises after the row was inserted: the client gets
\* DATABASE_ERROR and no ticket, the row stays.
IssueTicketFails(w) ==
    /\ workers[w].pc = "ticket"
    /\ workers' = [workers EXCEPT ![w] = Idle]
    /\ UNCHANGED <<files, scans, nodeVars>>

InitUpload(w) ==
    \/ \E r \in Rooms, n \in Names, s \in Shas :
           CheckDuplicate(w, r, n, s) \/ CheckDuplicateFails(w, r, n, s)
    \/ FindCandidates(w)
    \/ ReadVersion(w) \/ ReadVersionFails(w)
    \/ \E f \in FileIds : InsertReady(w, f)
    \/ \E f \in FileIds, n \in Nodes : InsertUploading(w, f, n)
    \/ InsertFails(w)
    \/ IssueTicket(w) \/ IssueTicketFails(w)

----
(***************************************************************************)
(* What the storage nodes tell the coordinator.  The handlers read only    *)
(* columns that never change before their UPDATE, so the two statements    *)
(* are one step.  A handler that raises drops the report (DropReport).     *)
(***************************************************************************)

\* Fault: the reported hash is not compared with the row's.
TrustingVerdict(row, m) ==
    IF row.node = m.node THEN "READY"
    ELSE IF row.status = "UPLOADING" THEN "DELETED" ELSE row.status

\* The status of row after the completion report m.
Verdict(row, m) ==
    CASE row.node # m.node -> IF row.status = "UPLOADING" THEN "DELETED" ELSE row.status
      [] row.node = m.node /\ row.sha # m.sha -> "DELETED"
      [] OTHER -> "READY"

UploadComplete(m) ==
    /\ m \in reports /\ m.type = "UPLOAD_COMPLETE"
    /\ m.file \in Present
    /\ LET row    == files[m.file]
           status == Verdict(row, m)
           ready  == status = "READY"
       IN  files' = [files EXCEPT ![m.file] =
               [row EXCEPT !.status = status,
                           !.revived = row.revived \/ (ready /\ row.status \in {"DELETED", "MISSING"}),
                           !.raced = \/ row.raced
                                     \/ ready /\ row.status # "READY" /\ Reconciling(row.node)]]
    /\ reports' = reports \ {m}
    /\ UNCHANGED <<workers, scans, granted, stored, lost>>

UploadFailed(m) ==
    /\ m \in reports /\ m.type = "UPLOAD_FAILED"
    /\ m.file \in Present
    /\ files' = IF files[m.file].node = m.node
                THEN [files EXCEPT ![m.file].status = "DELETED"]
                ELSE files
    /\ reports' = reports \ {m}
    /\ UNCHANGED <<workers, scans, granted, stored, lost>>

----
(***************************************************************************)
(* DELETE_FILE, the cleanup of orphaned uploads and the passing of time.   *)
(***************************************************************************)

\* By an administrator, the room's owner or the uploader, whatever the status.
DeleteFile(f) ==
    /\ f \in Present
    /\ files' = [files EXCEPT ![f].status = "DELETED"]
    /\ UNCHANGED <<workers, scans, nodeVars>>

Orphans == {f \in Present : files[f].status = "UPLOADING" /\ files[f].late}

CleanupOrphanedUploads ==
    /\ Orphans # {}
    /\ files' = [f \in FileIds |->
                    IF f \in Orphans THEN [files[f] EXCEPT !.status = "DELETED"] ELSE files[f]]
    /\ UNCHANGED <<workers, scans, nodeVars>>

ExpireTicket(f) ==
    /\ f \in Present /\ files[f].ticket = "valid"
    /\ files' = [files EXCEPT ![f].ticket = "expired"]
    /\ UNCHANGED <<workers, scans, nodeVars>>

\* 35 minutes after the INSERT a 30 minute ticket has expired, and the request
\* that made the row is long over.  Only an UPLOADING row's age is looked at.
GrowLate(f) ==
    /\ f \in Present /\ files[f].status = "UPLOADING" /\ ~files[f].late
    /\ files[f].ticket # "valid"
    /\ \A w \in Workers : workers[w] # [pc |-> "ticket", file |-> f]
    /\ files' = [files EXCEPT ![f].late = TRUE]
    /\ UNCHANGED <<workers, scans, nodeVars>>

----
(***************************************************************************)
(* STORAGE_AUTH: the node's manifest was collected before the handler      *)
(* runs, and reconcile_node compares it with the rows.  A node that gave   *)
(* up waiting may be at work again on another connection meanwhile.        *)
(***************************************************************************)

\* collectManifest: what the store lists; nothing when the listing fails.
CollectManifest(a, n) ==
    /\ scans[a] = Idle
    /\ \E manifest \in {stored[n], {}} :
           scans' = [scans EXCEPT ![a] =
               [pc |-> "select", node |-> n, manifest |-> manifest,
                failed |-> manifest # stored[n], todo |-> {}]]
    /\ UNCHANGED <<files, workers, nodeVars>>

\* Fault: the rows of all nodes are held against one node's manifest.
UnlistedAnywhere(n, manifest) ==
    {f \in Present : files[f].status = "READY" /\ files[f].sha \notin manifest}

\* The node's READY rows whose content the manifest does not list.
Unlisted(n, manifest) ==
    {f \in Present : /\ files[f].status = "READY"
                     /\ files[f].node = n
                     /\ files[f].sha \notin manifest}

ReconcileSelect(a) ==
    /\ scans[a].pc = "select"
    /\ scans' = [scans EXCEPT ![a] =
           LET absent == Unlisted(@.node, @.manifest)
           IN  IF absent = {} THEN Idle ELSE [@ EXCEPT !.pc = "mark", !.todo = absent]]
    /\ UNCHANGED <<files, workers, nodeVars>>

\* The node left the registry before its manifest was set, or the SELECT raises.
ReconcileSelectFails(a) ==
    /\ scans[a].pc = "select"
    /\ scans' = [scans EXCEPT ![a] = Idle]
    /\ UNCHANGED <<files, workers, nodeVars>>

ScanDone(a, f) ==
    [scans EXCEPT ![a] =
        IF @.todo = {f} THEN Idle ELSE [@ EXCEPT !.todo = scans[a].todo \ {f}]]

\* Fault: the UPDATE does not repeat the condition of the SELECT.
MarkedBlindly(row, failed) ==
    [row EXCEPT !.status = "MISSING",
                !.blind = IF failed THEN row.blind \cup {"manifest"} ELSE row.blind]

\* row after the UPDATE, which touches READY rows only.
Marked(row, failed) ==
    IF row.status = "READY"
    THEN [row EXCEPT !.status = "MISSING", !.blind = IF failed THEN row.blind \cup {"manifest"} ELSE row.blind]
    ELSE row

ReconcileMark(a, f) ==
    /\ scans[a].pc = "mark" /\ f \in scans[a].todo
    /\ files' = [files EXCEPT ![f] = Marked(@, scans[a].failed)]
    /\ scans' = ScanDone(a, f)
    /\ UNCHANGED <<workers, nodeVars>>

\* One UPDATE raises; the loop goes on with the next row.
ReconcileMarkFails(a, f) ==
    /\ scans[a].pc = "mark" /\ f \in scans[a].todo
    /\ scans' = ScanDone(a, f)
    /\ UNCHANGED <<files, workers, nodeVars>>

Reconcile(a) ==
    \/ \E n \in Nodes : CollectManifest(a, n)
    \/ ReconcileSelect(a) \/ ReconcileSelectFails(a)
    \/ \E f \in FileIds : ReconcileMark(a, f) \/ ReconcileMarkFails(a, f)

----
\* The coordinator process stops and starts: its threads are gone, rows stay.
CoordinatorRestart ==
    /\ workers' = [w \in Workers |-> Idle]
    /\ scans'   = [a \in Scans |-> Idle]
    /\ UNCHANGED <<files, nodeVars>>

\* Fault: the node opens an upload without looking at the ticket.
AnyoneMayOpen(row) == TRUE

\* verifyTicket: node, expiry and signature.
TicketVerifies(row) == row.ticket = "valid"

\* OPEN_UPLOAD at the node the ticket names, before it expires.
OpenUpload(f) ==
    /\ f \in Present /\ TicketVerifies(files[f])
    /\ Grant(files[f].node, f)
    /\ UNCHANGED dbVars

Next ==
    \/ \E w \in Workers : InitUpload(w)
    \/ \E m \in reports : UploadComplete(m) \/ UploadFailed(m)
    \/ \E f \in FileIds : DeleteFile(f) \/ ExpireTicket(f) \/ GrowLate(f) \/ OpenUpload(f)
    \/ CleanupOrphanedUploads
    \/ \E a \in Scans : Reconcile(a)
    \/ CoordinatorRestart
    \/ NodeStep /\ UNCHANGED dbVars

Spec == Init /\ [][Next]_vars

----
(***************************************************************************)
(* Properties.                                                             *)
(***************************************************************************)

\* A file the room list shows names content that really reached the store of
\* the node the row points at: through its own upload (handle_upload_complete
\* compares hashes) or through the row it was deduplicated from.
ListedFilesAreCommitted ==
    \A f \in Present : files[f].status = "READY" => files[f].sha \in Committed(files[f].node)

\* Two live rows of a room with the same content (find_same_room_duplicate is
\* there to prevent them) have one of three causes: the two requests ran at
\* the same time, the later one's check hit a database error, or one of the
\* rows was not live when the other was checked and came back since.
DuplicatesExplained ==
    \A f, g \in Present :
        ( /\ f \in files[g].before
          /\ {files[f].status, files[g].status} \subseteq LiveStatuses
          /\ files[f].room = files[g].room /\ files[f].sha = files[g].sha )
        => files[f].revived \/ files[g].revived \/ "duplicates" \in files[g].blind

\* Versions of a name grow in real time: an upload that begins when another
\* one of the name has its row gets a higher version, whatever became of that
\* row, unless its own read hit a database error (_calculate_next_version).
\* Uploads that overlap may share a version: both read the highest one before
\* either has its row.
VersionsFollowRealTime ==
    \A f, g \in Present :
        ( /\ f \in files[g].before
          /\ files[f].room = files[g].room /\ files[f].name = files[g].name
          /\ "version" \notin files[g].blind )
        => files[f].version < files[g].version

\* A row is MISSING only if its node's disk did lose the content, the row
\* became READY while a reconciliation of that node was under way, or the
\* node failed to list its store (collectManifest sends an empty manifest).
MissingExplained ==
    \A f \in Present :
        files[f].status = "MISSING" =>
            \/ files[f].sha \in lost[files[f].node]
            \/ files[f].raced
            \/ "manifest" \in files[f].blind

\* The verdicts of a reconciliation are as old as its SELECT; a row deleted
\* since then is not turned into a MISSING one.
StaleVerdictsSpareDeletedRows ==
    [][\A f \in Present : files[f].status = "DELETED" => files'[f].status # "MISSING"]_vars

\* A deleted row becomes READY again only if a ticket was issued for it: a
\* deduplicated file, or one whose request never got its ticket, stays gone.
\* That a late report revives a row which did get its ticket is what
\* handle_upload_complete does, and no violation of this.
OnlyTicketedUploadsRevive ==
    [][\A f \in Present :
          files[f].status = "DELETED" /\ files'[f].status = "READY"
          => files[f].ticket # "unissued"]_vars

====
