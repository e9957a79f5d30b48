---- MODULE UploadSessions ----
(***************************************************************************)
(* The uploads of one storage node (ClientHandler, SessionManager,         *)
(* FileStore, DedupStore): a thread per client connection, a table of      *)
(* sessions, a temporary directory per session, the store and its index,   *)
(* the timer that expires sessions, and the restart of the node.  Steps of *)
(* a handler are as fine as what two of them share: the table, the objects *)
(* in it, and the files.                                                   *)
(*                                                                         *)
(* A ticket names one session and one file, so the session stands for its  *)
(* file.  The client announces the same hash each time it opens a session. *)
(***************************************************************************)
EXTENDS Integers, Sequences

CONSTANTS
    Node,       \* this node
    Sids,       \* sessions, each of the one file its ticket names
    Shas,       \* contents, named by their SHA-256
    ShaOf,      \* ShaOf[x]: the hash the client announces for x
    ChunkCount, \* chunks of a file
    Handlers,   \* threads that serve client connections
    MaxObjects, \* session objects made for one session between two restarts (bound)
    None

ASSUME ShaOfAssumption == ShaOf \in [Sids -> Shas]
ASSUME ChunkCountAssumption == ChunkCount \in Nat \ {0}
ASSUME MaxObjectsAssumption == MaxObjects \in Nat \ {0}

VARIABLES
    table,      \* uploadSessions: the object of each session, or None
    objects,    \* the session objects, those out of the table included
    dirs,       \* the temporary directory of each session
    store,      \* the bytes stored under each hash
    index,      \* the dedup registry: in memory, and in its file
    handlers,   \* what each handler thread is at
    timer,      \* the session whose directory the timer is deleting
    granted,    \* sessions whose ticket was verified
    reports,    \* notifications on their way to the coordinator
    malformed,  \* announced hashes that are no SHA-256 (chosen at the start)
    overlapped  \* history: sessions made while the same one was still about

diskVars == <<dirs, store, index>>
memVars  == <<table, objects, handlers, timer>>
vars     == <<diskVars, memVars, granted, reports, malformed, overlapped>>

Chunks  == 1..ChunkCount
Objects == 1..MaxObjects

\* The bytes of a chunk, as far as the whole-file hash tells them apart.
Pieces == {"right", "wrong"}

Contents == UNION {[1..k -> Pieces] : k \in 0..ChunkCount}

Intact(content) == content = [k \in Chunks |-> "right"]

Dir == [meta : BOOLEAN, chunks : [Chunks -> Pieces \cup {None}], assembled : Contents \cup {None}]

EmptyDir == [meta |-> FALSE, chunks |-> [k \in Chunks |-> None], assembled |-> None]

Statuses == {"INIT", "UPLOADING", "PAUSED", "FINALIZING", "COMPLETED", "FAILED"}

\* left: an exception nobody catches has ended the object's finalize (history).
Object == [status : Statuses, got : SUBSET Chunks, left : BOOLEAN]

Ready == [pc |-> "ready"]

Opening == [pc : {"known", "lookup", "create", "meta", "put"}, sid : Sids]
Storing == [pc : {"write", "mark", "progress"}, sid : Sids, obj : Objects, chunk : Chunks, piece : Pieces]

\* pos: the chunk to copy next.  out: where the file it writes to is by now.
\* end: how the finalize goes ("gone": the client could not be answered).
Finalizing ==
    [pc : {"assemble", "copy", "verify", "scan", "commit", "clean", "rmdir", "register", "forget", "answer"},
     sid : Sids, obj : Objects, pos : Nat, out : {"dir", "store", "nowhere"},
     end : {"ok", "mismatch", "rejected", "io", "gone"}]

\* The session the timer clears away, or was at when its thread died.
Expired == [pc : {"clean", "rmdir", "dead"}, sid : Sids]

Report == [type : {"UPLOAD_COMPLETE"}, node : {Node}, file : Sids, sha : Shas]
              \cup [type : {"UPLOAD_FAILED"}, node : {Node}, file : Sids]

\* None is none of what stands beside it.
ASSUME NoneAssumption ==
    None \notin Nat \cup Pieces \cup Contents \cup Dir \cup Object \cup Expired

TypeOK ==
    /\ table     \in [Sids -> Objects \cup {None}]
    /\ objects   \in [Sids -> [Objects -> Object \cup {None}]]
    /\ dirs      \in [Sids -> Dir \cup {None}]
    /\ store     \in [Shas -> Contents \cup {None}]
    /\ index     \in [known : SUBSET Shas, saved : SUBSET Shas]
    /\ handlers  \in [Handlers -> {Ready} \cup Opening \cup Storing \cup Finalizing]
    /\ timer     \in Expired \cup {None}
    /\ granted   \subseteq Sids
    /\ reports   \subseteq Report
    /\ malformed \subseteq Shas
    /\ overlapped \subseteq Sids

Init ==
    /\ table = [x \in Sids |-> None]
    /\ objects = [x \in Sids |-> [i \in Objects |-> None]]
    /\ dirs = [x \in Sids |-> None]
    /\ store = [s \in Shas |-> None]
    /\ index = [known |-> {}, saved |-> {}]
    /\ handlers = [h \in Handlers |-> Ready]
    /\ timer = None
    /\ granted = {}
    /\ reports = {}
    /\ malformed \in SUBSET Shas
    /\ overlapped = {}

CompleteReport(x) == [type |-> "UPLOAD_COMPLETE", node |-> Node, file |-> x, sha |-> ShaOf[x]]
FailedReport(x)   == [type |-> "UPLOAD_FAILED", node |-> Node, file |-> x]

Sid(h) == handlers[h].sid
At(h, pc) == handlers[h].pc = pc
Goto(h, pc) == handlers' = [handlers EXCEPT ![h].pc = pc]
\* The handler has answered; an exception closes the connection, and another one may come.
Done(h) == handlers' = [handlers EXCEPT ![h] = Ready]

Current(x) == objects[x][table[x]]

----
(***************************************************************************)
(* OPEN_UPLOAD.                                                            *)
(***************************************************************************)

\* The ticket verifies, and the content is looked up in the dedup registry.
OpenUpload(h, x) ==
    /\ handlers[h] = Ready
    /\ granted' = granted \cup {x}
    /\ handlers' = [handlers EXCEPT ![h] =
           [pc |-> IF ShaOf[x] \in index.known THEN "known" ELSE "lookup", sid |-> x]]
    /\ UNCHANGED <<diskVars, table, objects, timer, reports, malformed, overlapped>>

\* Known content needs no transfer: the client is answered, and the coordinator
\* is told that the upload is complete unless the answer raises.
AnswerDuplicate(h) ==
    /\ At(h, "known")
    /\ reports' \in {reports, reports \cup {CompleteReport(Sid(h))}}
    /\ Done(h)
    /\ UNCHANGED <<diskVars, table, objects, timer, granted, malformed, overlapped>>

\* A session in the table is resumed: its missing chunks are answered.
LookUp(h) ==
    /\ At(h, "lookup")
    /\ IF table[Sid(h)] # None THEN Done(h) ELSE Goto(h, "create")
    /\ UNCHANGED <<diskVars, table, objects, timer, granted, reports, malformed, overlapped>>

\* Someone else is making the session x, works on it, or clears it away.
Busy(h, x) ==
    \/ table[x] # None
    \/ timer # None /\ timer.pc # "dead" /\ timer.sid = x
    \/ \E g \in Handlers \ {h} : handlers[g].pc \notin {"ready", "known", "lookup", "create"} /\ Sid(g) = x

CreateDir(h) ==
    /\ At(h, "create")
    /\ dirs' = [dirs EXCEPT ![Sid(h)] = IF @ = None THEN EmptyDir ELSE @]
    /\ overlapped' = IF Busy(h, Sid(h)) THEN overlapped \cup {Sid(h)} ELSE overlapped
    /\ Goto(h, "meta")
    /\ UNCHANGED <<store, index, table, objects, timer, granted, reports, malformed>>

\* saveSessionMeta, when a session is made and when its last chunk is in.  The
\* directory may be gone; the exception ends the connection.
SaveMeta(h) ==
    /\ At(h, "meta") \/ At(h, "progress")
    /\ IF dirs[Sid(h)] = None
       THEN Done(h) /\ UNCHANGED dirs
       ELSE /\ dirs' = [dirs EXCEPT ![Sid(h)].meta = TRUE]
            /\ IF At(h, "meta") THEN Goto(h, "put") ELSE Done(h)
    /\ UNCHANGED <<store, index, table, objects, timer, granted, reports, malformed, overlapped>>

PutSession(h) ==
    /\ At(h, "put")
    /\ \E i \in Objects :
           /\ objects[Sid(h)][i] = None
           /\ \A j \in 1..(i - 1) : objects[Sid(h)][j] # None
           /\ objects' = [objects EXCEPT ![Sid(h)][i] = [status |-> "INIT", got |-> {}, left |-> FALSE]]
           /\ table' = [table EXCEPT ![Sid(h)] = i]
    /\ Done(h)
    /\ UNCHANGED <<diskVars, timer, granted, reports, malformed, overlapped>>

----
(***************************************************************************)
(* UPLOAD_CHUNK: look the session up, write the file, mark the chunk.      *)
(***************************************************************************)

\* Fault: the chunk is marked before its file is written.
MarksFirst(h, x, k, piece) ==
    /\ handlers[h] = Ready
    /\ table[x] # None /\ k \notin Current(x).got
    /\ objects' = [objects EXCEPT ![x][table[x]].got = @ \cup {k}]
    /\ handlers' = [handlers EXCEPT ![h] =
           [pc |-> "write", sid |-> x, obj |-> table[x], chunk |-> k, piece |-> piece]]
    /\ UNCHANGED <<diskVars, table, timer, granted, reports, malformed, overlapped>>

\* A chunk already marked is acknowledged as a duplicate.  The client may send
\* bytes that do not add up to the hash it announced.
UploadChunk(h, x, k, piece) ==
    /\ handlers[h] = Ready
    /\ table[x] # None /\ k \notin Current(x).got
    /\ handlers' = [handlers EXCEPT ![h] =
           [pc |-> "write", sid |-> x, obj |-> table[x], chunk |-> k, piece |-> piece]]
    /\ UNCHANGED <<diskVars, table, objects, timer, granted, reports, malformed, overlapped>>

WriteChunk(h) ==
    /\ At(h, "write")
    /\ IF dirs[Sid(h)] = None
       THEN Done(h) /\ UNCHANGED dirs
       ELSE /\ dirs' = [dirs EXCEPT ![Sid(h)].chunks[handlers[h].chunk] = handlers[h].piece]
            /\ Goto(h, "mark")
    /\ UNCHANGED <<store, index, table, objects, timer, granted, reports, malformed, overlapped>>

\* markChunkReceived.  Metadata is saved again with the last chunk (and with
\* every 16th, which changes nothing on disk).
MarkChunk(h) ==
    /\ At(h, "mark")
    /\ LET o == objects[Sid(h)][handlers[h].obj]
           n == [o EXCEPT !.status = IF @ = "INIT" THEN "UPLOADING" ELSE @,
                          !.got    = @ \cup {handlers[h].chunk}]
       IN  /\ objects' = [objects EXCEPT ![Sid(h)][handlers[h].obj] = n]
           /\ IF n.got = Chunks THEN Goto(h, "progress") ELSE Done(h)
    /\ UNCHANGED <<diskVars, table, timer, granted, reports, malformed, overlapped>>

----
(***************************************************************************)
(* FINALIZE_UPLOAD, up to the commit.                                      *)
(***************************************************************************)

\* Fault: a session may be finalized again while it is.
OnlyUnlessOver == {"INIT", "UPLOADING", "PAUSED", "FINALIZING"}

\* tryBeginFinalizing goes ahead from these.
MayFinalize == {"INIT", "UPLOADING", "PAUSED"}

FinalizeUpload(h, x) ==
    /\ handlers[h] = Ready
    /\ table[x] # None /\ Current(x).got = Chunks /\ Current(x).status \in MayFinalize
    /\ objects' = [objects EXCEPT ![x][table[x]].status = "FINALIZING"]
    /\ handlers' = [handlers EXCEPT ![h] =
           [pc |-> "assemble", sid |-> x, obj |-> table[x], pos |-> 1, out |-> "nowhere", end |-> "ok"]]
    /\ UNCHANGED <<diskVars, table, timer, granted, reports, malformed, overlapped>>

\* The handlers, after the file "assembled" of x went to where: whoever is
\* writing to it goes on writing to it.
Followed(x, where) ==
    [g \in Handlers |->
        IF handlers[g] # Ready /\ At(g, "copy") /\ Sid(g) = x /\ handlers[g].out = "dir"
        THEN [handlers[g] EXCEPT !.out = where]
        ELSE handlers[g]]

\* Status FAILED; what follows is the cleaning up.
Failed(hs, h, end) == [hs EXCEPT ![h] = [@ EXCEPT !.pc = "clean", !.end = end, !.out = "nowhere"]]
WithStatus(h, status) == [objects EXCEPT ![Sid(h)][handlers[h].obj].status = status]

\* Fault: the exception is logged and the finalize goes on.
IoErrorIgnored(h) ==
    /\ handlers[h].pc \in {"assemble", "copy", "verify", "commit", "clean", "rmdir"}
    /\ handlers[h].end = "ok"
    /\ Goto(h, "register")
    /\ UNCHANGED <<diskVars, table, objects, timer, granted, reports, malformed, overlapped>>

\* Fault: nobody catches the exception; the connection closes.
IoErrorUncaught(h) ==
    /\ handlers[h].pc \in {"assemble", "copy", "verify", "commit", "clean", "rmdir"}
    /\ handlers[h].end = "ok"
    /\ Done(h)
    /\ UNCHANGED <<diskVars, table, objects, timer, granted, reports, malformed, overlapped>>

\* An IOException, in any step that touches a file.
IoError(h) ==
    /\ handlers[h].pc \in {"assemble", "copy", "verify", "commit", "clean", "rmdir"}
    /\ handlers[h].end = "ok"
    /\ handlers' = Failed(handlers, h, "io")
    /\ objects' = WithStatus(h, "FAILED")
    /\ UNCHANGED <<diskVars, table, timer, granted, reports, malformed, overlapped>>

\* newOutputStream: a file that is there already is truncated.
OpenAssembled(h) ==
    /\ At(h, "assemble") /\ dirs[Sid(h)] # None
    /\ dirs' = [dirs EXCEPT ![Sid(h)].assembled = <<>>]
    /\ handlers' = [handlers EXCEPT ![h] = [@ EXCEPT !.pc = "copy", !.out = "dir"]]
    /\ UNCHANGED <<store, index, table, objects, timer, granted, reports, malformed, overlapped>>

\* Piece p at position k; what was never written reads as zeros.
WrittenAt(content, k, p) ==
    [i \in 1..(IF Len(content) > k THEN Len(content) ELSE k) |->
        IF i = k THEN p ELSE IF i <= Len(content) THEN content[i] ELSE "wrong"]

CopyChunk(h) ==
    LET x == Sid(h)
        k == handlers[h].pos
        s == ShaOf[x]
    IN  /\ At(h, "copy") /\ dirs[x] # None /\ dirs[x].chunks[k] # None
        /\ dirs' = IF handlers[h].out = "dir"
                   THEN [dirs EXCEPT ![x].assembled = WrittenAt(@, k, dirs[x].chunks[k])]
                   ELSE dirs
        /\ store' = IF handlers[h].out = "store"
                    THEN [store EXCEPT ![s] = WrittenAt(@, k, dirs[x].chunks[k])]
                    ELSE store
        /\ handlers' = [handlers EXCEPT ![h] =
               IF k = ChunkCount THEN [@ EXCEPT !.pc = "verify", !.out = "nowhere"]
               ELSE [@ EXCEPT !.pos = k + 1]]
        /\ UNCHANGED <<index, table, objects, timer, granted, reports, malformed, overlapped>>

\* The hash of the file at the path; a file that does not match is deleted.
Verify(h) ==
    LET x == Sid(h)
    IN  /\ At(h, "verify") /\ ShaOf[x] \notin malformed
        /\ dirs[x] # None /\ dirs[x].assembled # None
        /\ IF Intact(dirs[x].assembled)
           THEN Goto(h, "scan") /\ UNCHANGED <<dirs, objects>>
           ELSE /\ dirs' = [dirs EXCEPT ![x].assembled = None]
                /\ handlers' = Failed(Followed(x, "nowhere"), h, "mismatch")
                /\ objects' = WithStatus(h, "FAILED")
        /\ UNCHANGED <<store, index, table, timer, granted, reports, malformed, overlapped>>

\* An exception that is no IOException: nobody catches it, the connection closes
\* and the session stays in the table as it is.
Escape(h) ==
    /\ Done(h)
    /\ objects' = [objects EXCEPT ![Sid(h)][handlers[h].obj].left = TRUE]

\* validateSha256 refuses the announced hash.
VerifyThrows(h) ==
    /\ At(h, "verify") /\ ShaOf[Sid(h)] \in malformed
    /\ Escape(h)
    /\ UNCHANGED <<diskVars, table, timer, granted, reports, malformed, overlapped>>

ScanAccepts(h) ==
    /\ At(h, "scan")
    /\ Goto(h, "commit")
    /\ UNCHANGED <<diskVars, table, objects, timer, granted, reports, malformed, overlapped>>

\* An infected file goes to the quarantine; one that could not be scanned is
\* left for the cleaning up.
ScanRejects(h) ==
    LET x == Sid(h)
    IN  /\ At(h, "scan")
        /\ \E infected \in BOOLEAN :
              IF infected /\ dirs[x] # None
              THEN /\ dirs' = [dirs EXCEPT ![x].assembled = None]
                   /\ handlers' = Failed(Followed(x, "nowhere"), h, "rejected")
              ELSE /\ handlers' = Failed(handlers, h, "rejected")
                   /\ UNCHANGED dirs
        /\ objects' = WithStatus(h, "FAILED")
        /\ UNCHANGED <<store, index, table, timer, granted, reports, malformed, overlapped>>

\* The file is in the quarantine, and Gson cannot write what goes beside it.
QuarantineThrows(h) ==
    LET x == Sid(h)
    IN  /\ At(h, "scan") /\ dirs[x] # None
        /\ dirs' = [dirs EXCEPT ![x].assembled = None]
        /\ handlers' = [Followed(x, "nowhere") EXCEPT ![h] = Ready]
        /\ objects' = [objects EXCEPT ![x][handlers[h].obj] = [@ EXCEPT !.status = "FAILED", !.left = TRUE]]
        /\ UNCHANGED <<store, index, table, timer, granted, reports, malformed, overlapped>>

\* commitAssembledFile: the file moves into the store, unless the store has it.
Commit(h) ==
    LET x == Sid(h)
        s == ShaOf[x]
        content == IF dirs[x] = None THEN None ELSE dirs[x].assembled
        hs(where) == [Followed(x, where) EXCEPT ![h].pc = "clean"]
    IN  /\ At(h, "commit")
        /\ store[s] # None \/ content # None
        /\ store' = IF store[s] # None THEN store ELSE [store EXCEPT ![s] = content]
        /\ dirs' = IF dirs[x] = None THEN dirs ELSE [dirs EXCEPT ![x].assembled = None]
        /\ handlers' = hs(IF store[s] # None THEN "nowhere" ELSE "store")
        /\ UNCHANGED <<index, table, objects, timer, granted, reports, malformed, overlapped>>

----
(***************************************************************************)
(* The end of a finalize: cleaning the directory, the registry, the table, *)
(* the answer to the client and the notification.                          *)
(***************************************************************************)

Emptied(x) == [dirs EXCEPT ![x] = IF @ = None THEN None ELSE EmptyDir]

\* Files.deleteIfExists on a directory someone has written to again fails.
Removable(x) == dirs[x] \in {None, EmptyDir}

CleanSessionDir(h) ==
    /\ At(h, "clean")
    /\ dirs' = Emptied(Sid(h))
    /\ handlers' = [Followed(Sid(h), "nowhere") EXCEPT ![h].pc = "rmdir"]
    /\ UNCHANGED <<store, index, table, objects, timer, granted, reports, malformed, overlapped>>

RemoveSessionDir(h) ==
    /\ At(h, "rmdir")
    /\ Removable(Sid(h)) \/ handlers[h].end # "ok"      \* else IoError
    /\ dirs' = IF Removable(Sid(h)) THEN [dirs EXCEPT ![Sid(h)] = None] ELSE dirs
    /\ Goto(h, IF handlers[h].end = "ok" THEN "register" ELSE "forget")
    /\ UNCHANGED <<store, index, table, objects, timer, granted, reports, malformed, overlapped>>

\* A DirectoryStream reports a failure to read on as a DirectoryIteratorException,
\* before or after the files it had found are deleted.
CleanThrows(h) ==
    /\ At(h, "clean") \/ At(h, "rmdir")
    /\ Escape(h)
    /\ UNCHANGED <<diskVars, table, timer, granted, reports, malformed, overlapped>>

Known(h) == index.known \cup {ShaOf[Sid(h)]}

\* What is in memory goes to the file, unless an IOException is logged instead;
\* known content is not written again.
Register(h) ==
    /\ At(h, "register")
    /\ index' \in [known : {Known(h)},
                   saved : {index.saved} \cup IF ShaOf[Sid(h)] \in index.known THEN {} ELSE {Known(h)}]
    /\ Goto(h, "forget")
    /\ UNCHANGED <<dirs, store, table, objects, timer, granted, reports, malformed, overlapped>>

\* Gson wraps the IOException of a write in one that save does not catch.
RegisterThrows(h) ==
    /\ At(h, "register") /\ ShaOf[Sid(h)] \notin index.known
    /\ index' = [index EXCEPT !.known = Known(h)]
    /\ Escape(h)
    /\ UNCHANGED <<dirs, store, table, timer, granted, reports, malformed, overlapped>>

\* The session leaves the table, whichever object is there by now, and the
\* coordinator is told: at once after a commit or a rejected scan, else once the
\* client was answered.
Forget(h) ==
    /\ At(h, "forget")
    /\ table' = [table EXCEPT ![Sid(h)] = None]
    /\ LET end == handlers[h].end
       IN  /\ objects' = IF end = "ok" THEN WithStatus(h, "COMPLETED") ELSE objects
           /\ reports' = CASE end = "ok" -> reports \cup {CompleteReport(Sid(h))}
                           [] end = "rejected" -> reports \cup {FailedReport(Sid(h))}
                           [] OTHER -> reports
           /\ IF end \in {"ok", "gone"} THEN Done(h) ELSE Goto(h, "answer")
    /\ UNCHANGED <<diskVars, timer, granted, malformed, overlapped>>

Answer(h) ==
    /\ At(h, "answer")
    /\ reports' = IF handlers[h].end = "rejected" THEN reports ELSE reports \cup {FailedReport(Sid(h))}
    /\ Done(h)
    /\ UNCHANGED <<diskVars, table, objects, timer, granted, malformed, overlapped>>

\* The client is gone, and the answer raises.  After a mismatch or a rejected
\* scan that is an IOException within the try block: everything is cleaned up
\* again, by the name of the session.  No notification follows.
AnswerFails(h) ==
    /\ At(h, "answer")
    /\ IF handlers[h].end = "io" THEN Done(h) ELSE handlers' = Failed(handlers, h, "gone")
    /\ UNCHANGED <<diskVars, table, objects, timer, granted, reports, malformed, overlapped>>

----
(***************************************************************************)
(* The timer, the network, and the node's restarts.                        *)
(***************************************************************************)

\* A session in any state may have been idle for an hour: nothing but a new
\* chunk and the begin of a finalize counts as activity.
ExpireSession(x) ==
    /\ timer = None
    /\ table[x] # None
    /\ table' = [table EXCEPT ![x] = None]
    /\ timer' = [pc |-> "clean", sid |-> x]
    /\ UNCHANGED <<diskVars, objects, handlers, granted, reports, malformed, overlapped>>

CleanExpired ==
    /\ timer # None /\ timer.pc = "clean"
    /\ dirs' = Emptied(timer.sid)
    /\ handlers' = Followed(timer.sid, "nowhere")
    /\ timer' = [timer EXCEPT !.pc = "rmdir"]
    /\ UNCHANGED <<store, index, table, objects, granted, reports, malformed, overlapped>>

RemoveExpired ==
    /\ timer # None /\ timer.pc = "rmdir"
    /\ dirs' = IF Removable(timer.sid) THEN [dirs EXCEPT ![timer.sid] = None] ELSE dirs
    /\ timer' = None
    /\ UNCHANGED <<store, index, table, objects, handlers, granted, reports, malformed, overlapped>>

\* The same exception ends the thread of the timer, and nothing expires until the
\* node restarts.
TimerDies ==
    /\ timer # None /\ timer.pc # "dead"
    /\ timer' = [timer EXCEPT !.pc = "dead"]
    /\ UNCHANGED <<diskVars, table, objects, handlers, granted, reports, malformed, overlapped>>

\* The control link loses a notification, or the coordinator has handled it.
ReportGone(m) ==
    /\ m \in reports
    /\ reports' = reports \ {m}
    /\ UNCHANGED <<diskVars, memVars, granted, malformed, overlapped>>

OnDisk(x) == {k \in Chunks : dirs[x].chunks[k] # None}

Recoverable == {x \in Sids : dirs[x] # None /\ dirs[x].meta}

\* The node stops at any step; recoverSessions makes a session of each
\* directory with metadata before the first client is served.
Restart ==
    /\ handlers' = [h \in Handlers |-> Ready]
    /\ timer' = None
    /\ table' = [x \in Sids |-> IF x \in Recoverable THEN 1 ELSE None]
    /\ objects' = [x \in Sids |-> [i \in Objects |->
           IF x \in Recoverable /\ i = 1 THEN [status |-> "PAUSED", got |-> OnDisk(x), left |-> FALSE]
           ELSE None]]
    /\ index' = [known |-> index.saved, saved |-> index.saved]
    /\ UNCHANGED <<dirs, store, granted, reports, malformed, overlapped>>

\* The connection closes in the middle of FINALIZE_UPLOAD.
FinalizeThrows(h) ==
    VerifyThrows(h) \/ QuarantineThrows(h) \/ CleanThrows(h) \/ RegisterThrows(h)

HandlerStep(h) ==
    \/ \E x \in Sids : OpenUpload(h, x) \/ FinalizeUpload(h, x)
    \/ \E x \in Sids, k \in Chunks, piece \in Pieces : UploadChunk(h, x, k, piece)
    \/ AnswerDuplicate(h) \/ LookUp(h) \/ CreateDir(h) \/ SaveMeta(h) \/ PutSession(h)
    \/ WriteChunk(h) \/ MarkChunk(h)
    \/ OpenAssembled(h) \/ CopyChunk(h) \/ Verify(h)
    \/ ScanAccepts(h) \/ ScanRejects(h) \/ Commit(h) \/ IoError(h) \/ FinalizeThrows(h)
    \/ CleanSessionDir(h) \/ RemoveSessionDir(h) \/ Register(h) \/ Forget(h)
    \/ Answer(h) \/ AnswerFails(h)

TimerStep == (\E x \in Sids : ExpireSession(x)) \/ CleanExpired \/ RemoveExpired \/ TimerDies

Next ==
    \/ \E h \in Handlers : HandlerStep(h)
    \/ TimerStep
    \/ \E m \in reports : ReportGone(m)
    \/ Restart

Spec == Init /\ [][Next]_vars

----
(***************************************************************************)
(* Properties.                                                             *)
(***************************************************************************)

\* What the coordinator relies on (module ContentNode), for this node alone.
\* Contents are named by hash: that the bytes are right is BlobsAreIntact.
Promise == INSTANCE ContentNode WITH
    FileIds <- Sids,
    Nodes   <- {Node},
    granted <- [n \in {Node} |-> granted],
    stored  <- [n \in {Node} |-> {s \in Shas : store[s] # None}],
    lost    <- [n \in {Node} |-> {}]

\* Every step of the node is one the coordinator expects: content appears only
\* under a ticket, and a completion is reported only for content in the store,
\* whatever fails, expires or restarts on the way.
ImplementsContentNode == Promise!NodeSpec

\* A blob has the bytes its name promises, unless a session of that content was
\* made while the same session was still about: then two objects may be
\* finalized at once, into the same file (tryBeginFinalizing guards an object).
BlobsAreIntact ==
    \A s \in Shas : store[s] # None =>
        Intact(store[s]) \/ \E x \in overlapped : ShaOf[x] = s

\* A session that accepts chunks has on disk those it says it has, so that the
\* client may send the missing ones only, across expiry, failures and restarts,
\* with the same exception.
SessionsKeepTheirChunks ==
    \A x \in Sids : table[x] # None /\ Current(x).status \in MayFinalize =>
        x \in overlapped \/ (dirs[x] # None /\ Current(x).got \subseteq OnDisk(x))

\* A session that refuses chunks and another FINALIZE_UPLOAD is one a handler is
\* still finalizing, so that a client who is told to wait does not wait for
\* nobody: however a finalize ends (an IOException at any step, a client that is
\* gone, a restart) the session leaves the table.  It stays there when an
\* exception that is no IOException ended the finalize (a hash that is no
\* SHA-256, a directory that cannot be read on, a registry or a quarantine entry
\* Gson cannot write): until it expires, if the timer is still running.
NoSessionIsStranded ==
    \A x \in Sids : table[x] # None /\ Current(x).status \notin MayFinalize =>
        \/ Current(x).left
        \/ \E h \in Handlers : handlers[h] \in Finalizing /\ Sid(h) = x /\ handlers[h].obj = table[x]

----
\* docs/SYSTEM_IO_FLOWS_VI.md on FINALIZE: no corrupted file is committed.
NoCorruptFileIsCommitted == \A s \in Shas : store[s] # None => Intact(store[s])

====
