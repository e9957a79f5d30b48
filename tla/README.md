# A TLA+ model of the LAN secure file system

The program is three processes that share files over a local network:

- the **coordinator** (`coordinator-server/`, Python): accounts, rooms, the `files` table in
  PostgreSQL, sessions and tickets in Redis, and a registry of connected storage nodes;
- **storage nodes** (`storage-node/`, Java): keep the bytes, named by their SHA-256, and serve
  chunked uploads and downloads to clients that show a ticket of the coordinator;
- a **desktop client** (`coordinator-node/`, PySide6): asks the coordinator for a plan and moves
  the bytes to or from a node.

Clients and nodes reach the coordinator on two ports. Each port has one acceptor thread, which
reads and frames messages, and a pool of workers (8 for clients, 4 for nodes), which run the
handlers; two messages of one connection may run at once and in either order. Every SQL statement
is a transaction of its own (`database.py`). A cleanup thread runs every ten minutes. A node has a
thread per client connection, and three that keep its link to the coordinator. The desktop
client has a UI thread, a thread per job, and listeners for the coordinator's events.

## Inventory

| part | state | operations | what is hard | what makes it correct |
| --- | --- | --- | --- | --- |
| files table | one row per upload: room, name, version, hash, node, status | INIT_UPLOAD, UPLOAD_COMPLETE, UPLOAD_FAILED, DELETE_FILE, cleanup, reconciliation | handlers are several statements long and interleave; reports come late, twice, or never; errors are often answered as "nothing found" | what is listed is stored; versions and duplicates; nothing hangs; what is gone stays gone |
| storage node, seen from the coordinator | tickets accepted, blobs, reports under way | open, commit, report, lose | nothing is retried | a report of completion is true |
| registry | entries by connection and by node, reservations | accept, authenticate, heartbeat, select, release, reap, close | reconnections overlap with late closes and queued STORAGE_AUTHs; slots outlive entries | the two tables agree; load counts are explained; live links are spared |
| socket server | connections, selector | accept, read, queue, close | a socket closed by someone else than the acceptor | no connection is accepted and then ignored |
| upload sessions of a node | session table, temp directories, store, dedup index | open, chunk, query, finalize, scan, quarantine, expire, recover | a thread per connection, two connections per session after a reconnect, crashes between steps, expiry under way | a stored blob has the bytes its name says; a session never hangs |
| download sessions of a node | sent chunks | open, request, complete | several connections share a session | exactly one completion |
| control link of a node | socket, receiver, supervisor, response queue | connect, authenticate, receive, beat, clean up, reconnect | an old receiver that cleans up a new connection; stale answers | a node that can connect ends connected |
| rooms and members | `room_members` | create, add, remove, set role | counts and deletions are separate statements | a room keeps an owner; only who may changes it |
| notifications | subscribers per room | subscribe, unsubscribe, broadcast, close | a subscription handled after the close | no closed subscriber |
| share tokens | count, maximum, expiry | create, use, refund | refunds race with uses, failures and restarts | never used more often than allowed; no use is lost |
| client sessions | Redis keys | login, logout, validate | a session ends under a request | |
| SDK client | socket, state, lock, frame buffer | connect, send, listen, close | a listener that survives its connection; a lock that is not reentrant | frames stay whole; calls end |
| client data plane | `.part` file and sidecar, attempts | upload, download, resume | at most five connections; the last answer may be lost | what the user is told, and what is written, is true |
| a room's page | cards, selection, confirm panel, threads | click, reload, delete, events | answers come in any order, threads overlap | the page ends up showing the room; buttons act on what is shown |

## Modules

| module | models | composed with |
| --- | --- | --- |
| `ContentNode` | what the coordinator relies on a node for: grants, commits, reports, losses | |
| `FileRecords` | the files table and all that writes it | `ContentNode` (extended) |
| `UploadSessions` | one node from OPEN_UPLOAD to the report | implements `ContentNode` |
| `NodeRegistry` | connections, registry and slots of the coordinator | the socket server |
| `ControlLink` | the node's end of the same link | what it needs of the coordinator |
| `RoomMembership` | rooms, members, subscriptions and sessions | |
| `ShareTokens` | INIT_DOWNLOAD, with and without a share token | |
| `Downloads` | a download: client data plane and node | |
| `ClientUploads` | an upload: page job, client data plane, node, the coordinator's row | |
| `BackendClient` | the SDK's connection and its threads | |
| `RoomPage` | the UI thread, jobs and events of a room's page | |

A module `..._proofs` holds the theorems of the model it is named after. Two hold those of a
process with two models: `StorageNode_proofs` those of `UploadSessions` (with `KeepsItsPromise`, which
is also about `ContentNode`) and of `ControlLink`; `DesktopClient_proofs` those of `RoomPage` and of
`BackendClient`. Each extends both models, which therefore have no name in common: the specifications
of `ControlLink` and `BackendClient` are `LinkSpec` and `ClientSpec`. `MC...` modules
instantiate the models for TLC; each `.cfg` is one question.

### ContentNode

`granted`, `stored`, `lost` and `reports` stand for the upload sessions of every node, the blobs
under `data/store`, blobs a disk lost, and the messages on the control link or in the worker
pool. `Grant` is a ticket that verified; `Commit` the move of the assembled file into the store;
`ReportComplete` and `ReportFailed` the two notifications, which any number of sessions of a file
may send, also after the file's row is gone; `DropReport` a broken link or an error answer, after
both of which the node goes on. The hash of a session is the client's word and is not tied to
the hash in the row.

### FileRecords

`files` is the table, with history that no code reads (`before`, `blind`, `revived`, `raced`)
and the ticket and age of a row, which the code keeps in Redis and in `created_at`. `workers` are
INIT_UPLOAD requests, one action per statement: `CheckDuplicate`, `FindCandidates`,
`ReadVersion`, `InsertReady` or `InsertUploading`, `IssueTicket`; each has the outcome of its
exception next to it. `UploadComplete` and `UploadFailed` are the handlers: they read columns that
never change and then update, so one action each. Tickets bind the node, and so the branch of
`Verdict` for a report of another node is there for completeness: no run reaches it.
`scans` are reconciliations: `CollectManifest` on the node, the SELECT, and one UPDATE per row.
A coordinator restart loses workers and scans and keeps the rows.
A report that comes after its row was deleted makes the row READY again, if a ticket was issued
for it: the model allows what the code does, and `OnlyTicketedUploadsRevive` says that no other row
comes back. `VersionsFollowRealTime` is about uploads that do not overlap; those that do may share a
version, which the model has and the property leaves out.

### NodeRegistry

`info` and `byId` are `_nodes_by_connection` and `_nodes_by_id`, `slots` is `_reservations`.
`sockets` is the server's side of the connections: whether the socket is open, whether the
selector watches its descriptor, and how far its STORAGE_AUTH is; `link` is what each node
believes. Connections are numbered as they are accepted. `strained` is history: the nodes whose
entry went away while slots were held.
`batch` is what `select()` returned and `_run_loop` has not come to. It is worked off event by event
while workers close sockets of it, so an event may be handled whose socket `authenticate` has closed
(`CannotRead`): closing that connection again takes the selector's entry for it away, which it finds
by the socket object; one for a later socket with that descriptor cannot be there, since `register`
raised when that socket was accepted. A socket's `replaced` and `late` are history: `authenticate`
has closed it, and its handshake was handled after the connection had been removed.
Left out: manifest sets (see "Not modelled"), free space (`min_free_bytes` is 0 by default and
ties are left open) and the counters that `mark_upload_started` keeps without a reservation,
which no handler uses.

### UploadSessions

One node. `table` is `uploadSessions`, `objects` the `UploadSession` objects it ever held since the
start (handlers keep references to objects that have left the table), `dirs` the temporary
directories with their metadata, chunk files and the file `assembled`, `store` and `index` the
blobs and the dedup registry. `handlers` is one thread per client connection: `pc` names the next
step, and the other fields are its local variables. OPEN_UPLOAD is `OpenUpload` and, for content the index has, `AnswerDuplicate`; otherwise `LookUp`,
`CreateDir`, `SaveMeta`, `PutSession`. UPLOAD_CHUNK is `UploadChunk`, `WriteChunk`, `MarkChunk`,
`SaveMeta`; FINALIZE_UPLOAD is `FinalizeUpload`, `OpenAssembled`, `CopyChunk`, `Verify`,
`ScanAccepts` or `ScanRejects`, `Commit`, `CleanSessionDir`, `RemoveSessionDir`, `Register`,
`Forget`, `Answer`. `IoError` is the catch block of the finalize, reachable from every step that
touches a file. What that block does not catch is in `FinalizeThrows`: `validateSha256`, Gson (which
wraps an `IOException` in a `JsonIOException`) writing the registry or what goes beside a quarantined file, and the
`DirectoryIteratorException` of a directory that cannot be read on. Each ends the thread, and the
object stays in the table as it was (`left`). The last of them ends the thread of the expiry timer too
(`TimerDies`), and then nothing expires until the node restarts. `index` is the registry in memory and
in its file, which may lag behind; `AnswerFails` is a client that is gone. Every one of these works on the files by
the *name* of the session. A file that is renamed while another thread writes to it keeps being
written to under its new name: `out` says where a thread's output goes, and `Followed` moves it.
`Restart` kills the threads at any point and recovers the sessions from the directories.

A content is what the whole-file hash tells apart: a sequence of pieces, each right or wrong.
`malformed` are announced hashes that `validateSha256` throws an unchecked exception on.
`overlapped` is history: the sessions that were made while the same session was in the table, was
being cleared by the timer, or was in the hands of another thread.

Simplified: a client announces the same metadata each time it opens a session (the code refuses
anything else); chunks refused for index, size or own hash change nothing and are left out; a
chunk's write and rename, and a commit's existence check and rename, are one step each; metadata
is written whole; nothing deletes a blob, so the index never goes stale.

### ControlLink

`socket`, `running`, `authenticated`, `receiver` and `heartbeat` are the fields of
`ControlPlaneClient`, which threads of several connections share; `receivers` and `hearts` are
those threads, one per connection dialled. The supervisor's steps are those of `superviseLoop`,
`doConnect` and `authenticate`; `Clean` is `cleanup()`, in the steps between which others can see
the fields, under the `monitor` that `sendMessage` takes and `doConnect` does not. `queue` is
`responseQueue`, which nobody empties. The coordinator accepts the STORAGE_AUTHs in any order
and closes the connection a node's new one replaces, as in `NodeRegistry`. `proof` is history: the
connection whose answer the client took for that of the present one.

Two things to know when reading it: a receiver that is blocked for the monitor makes `cleanup()`'s
`join(2000)` wait out its time, and the failure of the very first connection ends the node's
attempts (`gone`).

### RoomMembership

A worker's record is a request: the statement it runs next (`pc`) and its local variables.
ADD_MEMBER, REMOVE_MEMBER, SET_ROLE and CREATE_ROOM are split at every statement, and a broadcast
at the copy of the subscribers and at each send. `users` and `sessions` are the accounts and the
session tokens in Redis: `Signup`, `Login`, `Logout` and `ExpireSession`. A token is looked up when a
request is accepted and not again (`ValidToken`). The acceptor's close of a connection is two
steps, `CloseConnection` and `OnConnectionClosed`, between which a SUBSCRIBE_ROOM
may be handled. A send fails when the connection is broken or its send buffer is full, and either
way drops the subscription. `lost`, `late` and `overlapped` are history. A
member who is removed stays subscribed to the room's events: `DeleteMember` leaves `subs` alone, as
`room_service.py:246` does.

### ShareTokens

A token is made only with a limit of 1 to 10000 and a time to come (`Admitted`). `Consume` is the
conditional UPDATE; `requests` go on to look up the file and the node, store a ticket and, when that
fails, give the use back with another UPDATE. Each of them fails, or is committed with its result
lost, or is cut off by a restart. A stored ticket grows late, and is dropped by Redis or deleted by
the VERIFY_TICKET that finds it late. There is one clock, where the code compares the expiry with the
database's (`download_service.py:386`) and with the coordinator's (`:417`): a difference between the
two is not in the model. What the row, the room and the registry answer is left open.

### Downloads

One job of the page and its `download_file` after another, all to one path. `call` is the client's
thread: it opens the part, checks its sidecar, hashes what is there, connects, asks for chunk after
chunk, verifies and replaces. On the node each connection has a handler; `session` is the object
in the table and `sent` the marks of each object. The mark of a chunk, the DOWNLOAD_COMPLETE and the removal are steps
of their own. Faults are crashes of the client, restarts of the node, expiry,
damaged and lost blobs, and a sidecar that cannot be written.

### ClientUploads

One upload from the dialog to the message the user sees, across all three processes. The client
greets, agrees on a key, opens, sends what is missing and finalizes, and begins again on a new
connection when one is lost; the handler of the lost connection goes on meanwhile. A handler's
finalize ends well, with a mismatch, a rejected scan or an I/O error, or with an exception that nobody
catches (`Escape`), and then never. The file is hashed twice, for INIT_UPLOAD and again by `upload_file`, and
may change in between: `planned` is the first hash, which the row has, and `ShaOf` the second, which
the node is told. A completion makes the row READY, DELETED when the two differ, or is dropped by the
link or by a database error. INIT_UPLOAD of content that a live row has makes the row READY at once,
and its answer may be lost after that (`PlanFails`). `Remove` is a deletion, or reconciliation. `rows` is the coordinator's
row, `others` another user's upload of the same content, `kept`, `unsure` and `excuse` history; `excuse`
is the last thing that kept a completion from the row or undid it, and a completion that is handled
clears it.
`UploadSessions` says what two handlers do to one session's files and
`FileRecords` what the coordinator does; here each of those is one step. Equality of keys and the older RSA handshake are
not in it. The coordinator handles a report at once: a delayed one is in `FileRecords`.

### BackendClient

`callers` are threads that connect, disconnect and make requests; a listener is started per
connection. `_socket`, `_state` and `_running` are read and written without a common lock, as in
the code. An answer arrives in two pieces; `buffer` is `Garbage` when pieces of different frames
have met in it. A send that fails is cleaned up while the lock is held (`stuck`).
A frame that was sent in part before a timeout is left out.

### RoomPage

`server` is what the coordinator has, `cards`, `highlight`, `selected` and `panel` what the page
shows. A job is a QThread (`threads`) that runs in parallel and answers by a signal in `queue`;
the UI thread handles signals one at a time, clicks in between. `ref` are the references
(`_data_thread`, ...) that decide whether a new job is started. Opening another room
deletes the page: a thread that runs then ends the program ("crashed"), and the listener is never stopped, for
`closeEvent` does not come to a page inside the dashboard. FILE_DETAIL and DELETE_FILE find a file
that has gone already, and deleting it again is broadcast again. Not every change is broadcast
(`ChangesSilently`): a deduplicated INIT_UPLOAD makes a READY row, and reconciliation turns one
MISSING (`FileIsMissing`), without an event, and LIST_FILES has READY rows only. A page shows such a change at its
next reload, which nothing brings about; the cause `silent` is that. That a deleted row may come back
is in `FileRecords`. The setting that deletes without
the confirm panel (off by default), and the upload, download, member and
version jobs, which follow the same pattern, are left out here.

## What the runs show

| run | instance | what holds |
| --- | --- | --- |
| `file_requests` | 2 rows, 2 workers, 2 rooms, 1 content, 1 node | `DuplicatesExplained`, `VersionsFollowRealTime`, `OnlyTicketedUploadsRevive` |
| `file_reports` | 2 rows, 2 nodes, 2 contents, 2 rooms, 1 worker, 1 scan | `TypeOK`, `ListedFilesAreCommitted`, `MissingExplained`, `StaleVerdictsSpareDeletedRows` |
| `sessions` | 1 session, 1 chunk, 2 handlers, 2 session objects per start | `BlobsAreIntact`, `SessionsKeepTheirChunks`, `NoSessionIsStranded`, and `ImplementsContentNode` |
| `sessions_corrupt` | 2 chunks, no expiry | violated: a second OPEN_UPLOAD leads to two finalizes into one file |
| `registry` | 2 nodes, 3 connections, 2 descriptors, 2 uploads | `TablesAgree`, `ClosedEntriesExplained`, `LoadExplained`, `SocketsLeakExplained`, `LiveLinksAreSpared` |
| `link` | 5 connections, 2 faults | `LinkIsGenuine`, `NoHeartIsLost`, `LinkComesBack` |
| `rooms` | 2 users (1 administrator), 1 room, 2 roles, 1 connection, 2 workers | `OwnerlessExplained`, `ClosedSubscribersExplained`, `ChangesAreAuthorized` |
| `shares` | 3 requests, a single-use and a double-use token, and one asked for without a limit | `UsesAreAccounted`, `RefusalsExplained` |
| `downloads` | 2 contents (2 chunks, and 1 shorter one), 2 calls, 2 attempts, 2 faults | `CompletedOnce`, `SessionLossExplained`, `PartIsPrefix`, `TargetIsIntact`, `DownloadsEnd` |
| `uploads` | 1 job, 2 contents, 2 chunks, 2 attempts | `SuccessIsTrue`, `FailureExplained`, `AcknowledgedStays`, `UploadsEnd`, `UploadsSettle` |
| `client` | 2 threads, 2 connections, 1 request | `FramesStayWhole`, `ConnectedIsHeard`, `CallsEnd` |
| `page` | 2 files, 1 change that the page did not make, 3 threads, 3 clicks, 1 fault, of the last three 5 at once | `StaleExplained`, `SelectionExplained`, `ToldFilesAreGone` |

Many of these properties name their exceptions: `DuplicatesExplained` says which events may put
content into a room twice, `OwnerlessExplained` what may take a room its last owner,
`FailureExplained` when a user is told of a failure though the file is listed. The exception is
part of the formula, so a new cause would break it, and each exception is something the code does.

**Bounds.** Rows, connections, uploads and requests are never reused, so their number bounds the
history. Two rows are one conflict; two slots are an expired one that is reaped when a
fresh one is taken; three connections are an old, a current and one that takes over a descriptor; three share
requests are one more than the larger token has uses. `MaxReports` bounds the reports under
way at once (one; a report may still be dropped, late, or followed by its opposite, and the
order in which two reports are handled is the order in which they are sent). `NoDiskLoss`,
`OneMishap`, `OneCommit`, `NoAgeing` and `NoBlindReads` take out of a run what another
is about: `file_requests` is about errors and deletions, `file_reports` about nodes, and either a
disk's loss or the cleanup of a row that aged (`OneMishap`); the age of a row whose upload goes on is in `uploads` too.

In `sessions`, two handlers are an old connection and the one that replaces it, and two objects one
session and the one that displaces it; a restart makes both available again. One chunk is enough
for every interleaving of opening, marking, copying and renaming; that a file is assembled from
several chunks, one after the other, is only seen in `sessions_corrupt`.

The code makes up to five attempts at a transfer. Two are a lost connection, whose handler may be at
work still, and the one that resumes. In `uploads`, one content is the file's and the other the one
INIT_UPLOAD was asked with, if the file changed since; of two chunks, one was sent when the connection
broke and one was not. In `downloads`, two contents are enough to find the part of one under the name
of the other.
`MaxFaults` in `link` is two: one to break a link and one to strike during the recovery; five
connections are what two faults and the closes that follow from them can use up. A page needs
two files to confuse them and three threads for two loads at once beside another job; clicks, faults
and threads that run at once share one more bound (`MaxBusy`): three clicks with two threads, two
with three, one click and one fault with three. The theorems below hold without any of these bounds.
Symmetry is used on interchangeable values and never in a run with liveness.

`link`, `client`, `downloads`, `shares` and `page` do not check for deadlock: their systems may
stop, because a bound is used up, a thread waits for a lock it holds, or the program is gone.

**Fairness.**

- `uploads`: `ClientStep` of each job, for a thread runs and its socket times out after
  15 seconds, and the coordinator's cleanup, whose loop catches every exception and waits ten
  minutes. Nothing is assumed of the node or the network.
- `downloads`: `ClientStep`, for the same reason.
- `client`: a caller's and a listener's own steps; a caller that waits for the lock or an answer
  is only fair when it can move, and a request times out. Nothing is assumed of the server.
- `link`: the supervisor, `cleanup()`, each receiver and heartbeat, and the coordinator's handling
  of each connection. Its worker pool takes every message, and a silent socket ends in a timeout.

## What is proved

Every theorem is about a component's specification, for every value of the constants that meets the
named assumptions of the component's module. Those assumptions say only that bounds are numbers (at
least one attempt, one chunk, one session object), that `None` is not one of the values it stands
beside, and, where things are counted, that a set is finite. 35 of the 40 properties of the passing
runs are theorems: every invariant and every action property.

The arguments have one shape. A property is seldom inductive; the module's first section strengthens
it with what the steps rely on (who may be at which step, and what a thread that is there has in its
hands), TLC looks for a counterexample on a small instance, and one lemma per action, or per group of
actions that change the same variables, shows that the step keeps the invariant.

`FileRecords_proofs`, from `NoNodeAssumption`:

- `TypeCorrect`: `TypeOK` alone is not inductive, because the version a request carries must be
  positive by the time it inserts; `TypeInv` adds `VersionRead`.
- `ListedFilesCommitted`. A row becomes READY in two ways: by a report, so
  reports must be truthful (`ReportsAreTruthful`, which `KeepsItsPromise` makes a fact about a node), and by sharing the content of another row, which a request read two
  statements before and which may be deleted by now. `CommitInv` therefore adds
  `SourcesAreCommitted`: the source a request carries did commit its content. All its parts
  speak of contents that were ever committed, and these only grow (`CommittedGrows`), so a step
  keeps the invariant as soon as its new reports, listings and sources are justified
  (`CommitFrame`).
- `DuplicatesAlwaysExplained` and `VersionsAlwaysGrow`. Both compare a row with those that existed
  when its request began, so `HistoryInv` carries each of them back to the request: what a request
  has read is still true of the rows it read, unless one was revived or the read failed. `RowGoesOn`
  says how one row may change in a step, and `RowsGoOn` that no step does anything else.
- `DeletedRowsSpared` (an action property) follows from the same `RowsGoOn`.
- `OnlyTicketedRevive` (an action property): by `TicketInv`, nodes report only on files whose ticket
  was issued, and there is no way back from that.
- `MissingAlwaysExplained`: `ScanInv` says of every scan under way what the property says of the
  rows it is about to mark.

`StorageNode_proofs`, for `UploadSessions`, from the assumptions on hashes, chunks and objects:

- `TypeCorrect`, with `ObjectsFit` (the objects the table and the handlers refer to are there) and
  `CopiesFit` (a finalize's output file is where its thread takes it to be): no step reads an object,
  a directory or a file that is not there.
- `KeepsItsPromise`: one node implements `ContentNode`. Each step of a handler, the timer or a
  restart is a `Grant`, a `Commit`, a report or a stutter. `PromiseInv` is what that needs: a session
  has a ticket, and content is stored before it is registered or reported. The first attempt failed:
  the answer to a duplicate was one step, which granted and reported at once; with two sessions of
  one content, which the run does not have, that is no step of `ContentNode`. The code verifies
  the ticket and reports in two places, and the model now has a step for each.
- `NobodyWaitsForNobody`: `NoSessionIsStranded` needs, beside itself, that a finalize which is about
  to answer no longer meets its object in the table (`StrandInv`). The exceptions that nobody catches
  are named in the property: what they end is `left`.
- `BlobsAlwaysIntact` and `ChunksAreKept`. `Alone` says that a session that is not `overlapped` is
  being made, or accepts chunks, or is being finalized by one handler, and never two of these;
  `Verified` that what was verified stays so until it is committed. Every step that could break
  this sets `overlapped`, which is what the run `sessions_corrupt` shows the code to allow.

`NodeRegistry_proofs`, from the assumptions on `None`, `MaxConns` and (for the load) finite uploads:

- `TypeCorrect`, `TablesAlwaysAgree` and `LeaksExplained`, in one invariant: both tables and the
  batch speak of sockets that were accepted, these are numbered without a gap, and a node's link is the
  last it opened. An entry of the selector outlives its socket only if `authenticate` closed that
  (`ClosedAreReplaced`); a stale event may remove the entry afterwards, so the leak is explained by
  the descriptor's earlier owner and not by the entry.
- `ClosedEntriesAlwaysExplained`, on top of the same: every step that gives a connection an entry finds it
  open, being closed, or makes it late.
- `LiveLinksSpared` (an action property), from the same.
- `LoadAlwaysExplained`: an entry's load is compared with a cardinality of slots, so each step
  adds or removes one slot as the counter moves by one (`TakesLoad`, `GivesBackLoad`); an entry
  that has not authenticated counts nothing, and authenticates once.

`StorageNode_proofs`, for `ControlLink`, from the bounds being numbers:

- `LinkTypeCorrect`, with `InCleanup` (who holds the monitor is in `cleanup()`) and `Unstarted`.
- `NoHeartLeftBehind`: every heartbeat that runs is the one the client holds, or is ending.
- `LinksAreGenuine`: the coordinator answers a connection it accepted, once; as long as no
  authentication has timed out, an answer under way is for the connection that waits for it
  (`TimelyInv`); one that was given up stays in the queue for a later connection to take.

`RoomMembership_proofs`, from the assumptions on users, connections, roles and `None`:

- `TypeCorrect`, with `WorkersInv`: a thread that is about to run a statement carries the
  arguments that statement needs (`Fits`).
- `ChangesAuthorized`: a thread past its permission check either still has the permission or
  has been overlapped; every write of the members marks the other threads of the room.
- `OwnerlessRooms`: per room, the three ways to lose the last owner. The removal is the hard one:
  a thread that has counted two owners and was not overlapped since still leaves one.
- `ClosedSubscribers`: a connection subscribes after its close only in the window `late` records.

`ShareTokens_proofs`, from the assumptions on requests, limits and `None`:

- `TypeCorrect`.
- `UsesAccounted`: a token's counter is the cardinality of a set of requests (`Uses`), so each step
  either leaves that set alone, or adds or removes one request as the counter changes by one.
- `RefusalsAreExplained`: a counter falls only by a refund, and a refund marks the requests that
  were refused before it.

`Downloads_proofs`, from sizes that are numbers with a largest among them, and `None`:

- `TypeCorrect`, with `CallFits`: at each step of a call, what has been hashed is what is in the part.
- `TargetAlwaysIntact` (an action property): the target is only ever replaced by the whole content.
- `CompletesOnlyOnce`: of all handlers that hold a session's object, one marks the last chunk.
- `PartAlwaysPrefix`: by `AskedInv`, a client that waits for a chunk has asked for one, which is on
  its way there or back, once; anything else the node says comes from the handler of this connection
  and is not a chunk. `Named` says whose part it is.
- `LossAlwaysExplained`: handlers of lost connections share one session, and the one that marks the
  last chunk removes it. `ReachInv` bounds what all of them may mark by what the part covers plus
  one: a short chunk is only ever the last of the part, so a retry cuts the part at most once, in
  the first attempt, and goes on from where the attempt before it stopped. `ChunkAt` then says that
  the session is there until the chunk that is waited for has arrived, or `lost` tells why not.

`ClientUploads_proofs`, from the assumptions on chunks, attempts and `None`:

- `TypeCorrect`. The protocol is in `ProtocolInv`: a job and the thread at the other end of its
  connection agree on what is being asked (`InStep`), and an answer is one to that question
  (`AnswerFits`). TLC refuted the first form of `InStep`, which said nothing of a thread that reports
  after its answer.
- `SuccessIsAlwaysTrue`: whoever claims success - a told user, an answer on its way, a thread about to
  give one - is honest (`HonestInv`), because what was committed, registered or listed is stored
  (`StoreInv`). A success told while the row is not READY has its cause in `excuse`, which every step
  that can part the two sets: a lost report, a mismatch, a database error, a removal.
- `FailureAlwaysExplained`: for a job that is not `unsure`, no thread of an old connection can
  complete the upload any more (`Harmless`), and the client of a row that is READY was told so, or is
  about to be (`Hears`). A plan lost after the deduplicated INSERT makes its job `unsure`.
- `AcknowledgedAlwaysStays`: what the client has still to send leaves out what was acknowledged, from
  the answer to its OPEN_UPLOAD on (`KeptFits`).

`DesktopClient_proofs`, for `RoomPage`, from bounds that are numbers, finitely many files, and `None`:

- `PageTypeCorrect`, with `QueueFits` (a signal in the queue comes from a thread that is at the step
  which posts it, and no thread has two) and `JobsFit`.
- `StaleAlwaysExplained`: by `LoadInv`, as long as nothing has gone wrong at most one load is under
  way, and what the page shows is right, or will be read, or is about to be shown, or the page will
  hear of it.
- `SelectionAlwaysExplained`: the details of a file are asked for when it is selected, so an answer
  for another file is what `overridden` records.
- `ToldFilesAlwaysGone`, by `DeletionInv`: a deletion that is about to be shown as done is done, and the
  panel, whose name the user is told, names its file. The first attempt failed. The cleanup of an ended
  delete thread drops the reference to its successor, so a second deletion can start beside a
  first; the run's bounds are too small for that, and TLC showed the counterexample with 2 files,
  6 clicks and 3 threads. `cancelled` covered only a panel that was closed or replaced by hand; it now
  says that the panel may name another file than is being deleted.

`DesktopClient_proofs`, for `BackendClient`, from the bounds being numbers, and `None`:

- `ClientTypeCorrect`, with `Dialled` (connections are numbered as they are made) and `PartsFit`
  (who sends has a request, who receives a connection).
- `ConnectedAlwaysHeard`: while no listener of an earlier connection is alive when the client
  connects, and no two calls connect or disconnect at once (`Apart`), the step of the thread that
  does says what socket, state and flag are (`HeardInv`).
- `FramesAlwaysWhole`: by `FrameInv`, unless one of three causes occurred, what the buffer holds, what a
  listener has in its hands and what is still on the way make up whole frames (`Fits`).

Only model-checked:

- `NoCorruptFileIsCommitted`, which is false, and which the run expects to be.
- The liveness properties (`DownloadsEnd`, `UploadsEnd`, `UploadsSettle`, `LinkComesBack`,
  `CallsEnd`): they need fairness and ENABLED, which this prover does not reach.

## Disagreements between the code and what it says

1. `sessions_corrupt`: `docs/SYSTEM_IO_FLOWS_VI.md:345-346` says that `tryBeginFinalizing` prevents
   finalizing in parallel and that no corrupted file is committed. The flag belongs to an object, and
   `handleOpenUpload` may replace the object of a session under way.

The others show as an exception in a property that holds:

2. `DuplicatesExplained`: `dedup_checker.py:121-122` promises that concurrent uploads of the same
   content are rejected; check and INSERT are separate transactions without a unique index.
3. `OnlyTicketedUploadsRevive`: `cleanup_service.py:71-73` calls a row that is UPLOADING after 35
   minutes truly orphaned; the node checks a ticket only when an upload opens, and the completion's
   UPDATE does not look at the status.
4. `LoadExplained`: `docs/LOAD_BALANCER_VI.md:119` says counter and reservation always keep step;
   the counter of a new entry starts at zero under slots of the old one.
5. `SocketsLeakExplained`: `registry.py:121-123` closes the replaced socket so that no descriptor
   leaks; without `selector.unregister` the next connection with that descriptor is never served.
6. `OwnerlessExplained`: `docs/COORDINATOR_PRESENTATION.md:224` says a room always has an owner;
   SET_ROLE counts no owners, two removals may each count two, and CREATE_ROOM is two statements.
7. `ConnectedIsHeard`: the docstring at `backend_client_sdk.py:521-529` says that the next `connect()`
   starts a listener again after a lost socket; `_state` stays CONNECTED, and `connect()` returns at
   once. The property speaks of a client that has a socket.
8. `RoomPage`: the docstring at `room_page.py:979` says the listener ends with the page; it does not.
9. `SuccessIsTrue`: `storage_node_data_plane.py:389-396` takes a deduplicated OPEN_UPLOAD for one the
   coordinator was told of; the node answers first and reports then (`ClientHandler.java:306`), and
   may stop in between.
10. `backend_client_sdk.py:776` and `:788` document `max_downloads` 0, the default, as unlimited;
   `download_handlers.py:168` admits 1 to 10000, so such a token is never made (`Admitted`).
11. `VersionsFollowRealTime`: `docs/SYSTEM_IO_FLOWS_VI.md:249` gives each upload of a name the highest
   version plus one, and `docs/COORDINATOR_PRESENTATION.md:80` calls it an auto-increment. The highest
   version is read in a transaction of its own (`upload_service.py:229`), so two requests that overlap
   may both insert its successor; the property speaks of requests that do not.

## Not modelled

- Manifests as data (`set_manifest`, `apply_manifest_delta`, `node_has_file` and the choice of a
  node by what it holds): reconciliation is in `FileRecords`, but the sets that the registry
  keeps between two STORAGE_AUTHs are not. Next to the threads of `ControlLink` their states are too
  many for TLC, and without those threads nothing interesting happens to them.
- A removed member's subscription: kept as the code keeps it, without a property, which could only
  say that it stays.
- An OPEN_UPLOAD with other metadata than its session has, refused chunks, QUERY_MISSING and
  CHECK_OBJECT, which change nothing.
- Requests that read only (lists, details, versions, health), the audit log, whose failures are
  ignored, and configuration.
- Passwords, keys, ciphers and framing: conversions of bytes.
- The other pages, dialogs and styles of the user interface: presentation.

## What is left

`ClientUploads` as an implementation of the rows of `FileRecords`. It has none of the requests'
separate statements and handles reports at once, so the mapping needs a specification of one row
between the two.
