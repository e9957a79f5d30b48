---- MODULE ClientUploads ----
(***************************************************************************)
(* Uploads from end to end: the desktop client's upload jobs               *)
(* (FileUploadWorker, StorageNodeDataPlaneClient.upload_file), a           *)
(* connection and a handler thread per attempt (ClientHandler), the        *)
(* sessions and the store of the node, and the row the coordinator keeps.  *)
(* The client resumes after a lost connection while the handler of the     *)
(* lost one may still be at work.  What two handlers do to the files of    *)
(* one session is in UploadSessions; here a write, a commit and a cleaning *)
(* up are one step each, and the coordinator handles a report at once.     *)
(***************************************************************************)
EXTENDS Integers, FiniteSets

CONSTANTS
    Uploads,     \* upload jobs, each of one file under one ticket
    Shas,        \* contents
    ShaOf,       \* ShaOf[u]: the content of u as upload_file hashes and sends it
    ChunkCount,  \* chunks of a file
    MaxAttempts, \* connections upload_file makes at most
    None

ASSUME UploadsAssumption ==
    /\ ShaOf \in [Uploads -> Shas]
    /\ ChunkCount \in Nat \ {0} /\ MaxAttempts \in Nat \ {0}

VARIABLES
    clients,   \* what each job is at, and what its user was told
    handlers,  \* handlers[u][a]: the thread that serves attempt a of u
    sessions,  \* the session of each job: in the table, or its directory
    stored,    \* the contents in the store
    index,     \* the dedup registry
    rows,      \* the status of the coordinator's row of each job
    planned,   \* the hash in that row: the content when INIT_UPLOAD was asked
    others,    \* each content's uploads by clients not among these jobs
    kept,      \* history: chunks acknowledged in a session that still exists
    unsure,    \* history: jobs that lost a connection with an OPEN_UPLOAD or
               \* a FINALIZE_UPLOAD unanswered, or never had the answer to the
               \* INIT_UPLOAD that made their row READY
    excuse     \* history: what last kept a completion from the row, or undid it

nodeVars == <<handlers, sessions, stored, index>>
vars == <<clients, nodeVars, rows, planned, others, kept, unsure, excuse>>

Chunks   == 1..ChunkCount
Attempts == 1..MaxAttempts

Frames  ==
    [ask : {"hello", "key", "open", "finalize"}, chunk : {0}]
        \cup [ask : {"chunk"}, chunk : Chunks]
Answers == [say : {"error", "dedup", "open", "ok", "completed", "refused"},
            missing : SUBSET Chunks]

Jobs == [pc : {"idle", "planning", "connecting", "greeting", "keying", "opening",
               "sending", "finalizing", "told", "shown"},
         attempt : 0..MaxAttempts, todo : SUBSET Chunks,
         answer : Answers \cup {None}, result : {None, "success", "failure"}]

\* "notify": a report follows the answer.  by: the attempt whose handler made
\* the session it works on.
Threads == [pc : {"none", "ready", "write", "work", "register", "report", "complete",
                  "refuse", "notify", "gone"},
            inbox : Frames \cup {None}, by : 0..MaxAttempts,
            end : {"ok", "mismatch", "rejected", "io"}]

Sessions == [by : Attempts, got : SUBSET Chunks, finalizing : BOOLEAN, dir : BOOLEAN]

Excuses == {"dropped", "changed", "crash", "overtaken", "removed"}

\* None is none of what stands beside it.
ASSUME NoneAssumption ==
    None \notin Answers \cup Frames \cup Sessions \cup Excuses \cup {"success", "failure"}

TypeOK ==
    /\ clients  \in [Uploads -> Jobs]
    /\ handlers \in [Uploads -> [Attempts -> Threads]]
    /\ sessions \in [Uploads -> Sessions \cup {None}]
    /\ stored \subseteq Shas /\ index \subseteq Shas
    /\ rows \in [Uploads -> {"none", "UPLOADING", "READY", "DELETED"}]
    /\ planned \in [Uploads -> Shas \cup {None}]
    /\ others \in [Shas -> {"none", "stored", "listed"}]
    /\ kept \in [Uploads -> SUBSET Chunks]
    /\ unsure \subseteq Uploads
    /\ excuse \in [Uploads -> Excuses \cup {None}]

Thread(pc) == [pc |-> pc, inbox |-> None, by |-> 0, end |-> "ok"]

Init ==
    /\ clients = [u \in Uploads |->
           [pc |-> "idle", attempt |-> 0, todo |-> {}, answer |-> None, result |-> None]]
    /\ handlers = [u \in Uploads |-> [a \in Attempts |-> Thread("none")]]
    /\ sessions = [u \in Uploads |-> None]
    /\ stored = {} /\ index = {}
    /\ rows = [u \in Uploads |-> "none"]
    /\ planned = [u \in Uploads |-> None]
    /\ others = [s \in Shas |-> "none"]
    /\ kept = [u \in Uploads |-> {}]
    /\ unsure = {}
    /\ excuse = [u \in Uploads |-> None]

----
(***************************************************************************)
(* The job, up to the plan.                                                *)
(***************************************************************************)

Told(u, result) ==
    clients' = [clients EXCEPT ![u] = [@ EXCEPT !.pc = "told", !.result = result, !.answer = None]]

\* _open_upload_dialog, which starts no second job while one is shown.  The
\* job hashes the file, which may change before upload_file reads it again.
OpenUploadDialog(u) ==
    /\ clients[u].pc = "idle"
    /\ clients' = [clients EXCEPT ![u].pc = "planning"]
    /\ \E s \in Shas : planned' = [planned EXCEPT ![u] = s]
    /\ UNCHANGED <<others, nodeVars, rows, kept, unsure, excuse>>

\* A live row has the content, on a node that has it too.
Duplicate(u) ==
    \/ \E s \in Shas : others[s] = "listed" /\ planned[u] = s
    \/ \E v \in Uploads : rows[v] = "READY" /\ planned[v] = planned[u]

\* INIT_UPLOAD: a plan, or a row that is READY at once.
Plan(u) ==
    /\ clients[u].pc = "planning"
    /\ rows' = [rows EXCEPT ![u] = "UPLOADING"]
    /\ clients' = [clients EXCEPT ![u].pc = "connecting", ![u].attempt = 1]
    /\ UNCHANGED <<planned, others, nodeVars, kept, unsure, excuse>>

PlanDeduplicated(u) ==
    /\ clients[u].pc = "planning"
    /\ Duplicate(u)
    /\ rows' = [rows EXCEPT ![u] = "READY"]
    /\ Told(u, "success")
    /\ UNCHANGED <<planned, others, nodeVars, kept, unsure, excuse>>

\* INIT_UPLOAD is not carried out, or it fails or its answer is lost after the
\* row was made, which may be READY by then.
PlanFails(u) ==
    /\ clients[u].pc = "planning"
    /\ \/ UNCHANGED <<rows, unsure>>
       \/ rows' = [rows EXCEPT ![u] = "UPLOADING"] /\ UNCHANGED unsure
       \/ /\ Duplicate(u)
          /\ rows' = [rows EXCEPT ![u] = "READY"]
          /\ unsure' = unsure \cup {u}
    /\ Told(u, "failure")
    /\ UNCHANGED <<planned, others, nodeVars, kept, excuse>>

----
(***************************************************************************)
(* upload_file.                                                            *)
(***************************************************************************)

\* A handler that serves nobody and has no request left ends.
Alone(thread) == IF thread.pc = "ready" /\ thread.inbox = None THEN Thread("gone") ELSE thread

Frame(ask) == [ask |-> ask, chunk |-> 0]

\* The job of u, connected, sends a frame and waits for the answer.
Ask(u, a, pc, todo, frame) ==
    /\ clients' = [clients EXCEPT ![u] = [@ EXCEPT !.pc = pc, !.todo = todo, !.answer = None]]
    /\ handlers' = [handlers EXCEPT ![u][a] = [@ EXCEPT !.inbox = frame]]

Smallest(s) == CHOOSE k \in s : \A j \in s : k <= j

\* The next chunk, or FINALIZE_UPLOAD once none is missing.
AskNext(u, a, todo) ==
    IF todo = {}
    THEN Ask(u, a, "finalizing", {}, Frame("finalize"))
    ELSE Ask(u, a, "sending", todo, [ask |-> "chunk", chunk |-> Smallest(todo)])

\* A connection, and the request for the node's public keys.
Connect(u) ==
    LET a == clients[u].attempt
    IN  /\ clients[u].pc = "connecting"
        /\ clients' = [clients EXCEPT ![u].pc = "greeting"]
        /\ handlers' = [handlers EXCEPT ![u][a] =
               [Thread("ready") EXCEPT !.inbox = Frame("hello")]]
        /\ UNCHANGED <<planned, others, sessions, stored, index, rows, kept, unsure, excuse>>

\* Fault: an attempt that was connected is not counted.
RetryUncounted(u) ==
    clients' = [clients EXCEPT ![u] = [@ EXCEPT !.pc = "connecting", !.answer = None]]

\* After a lost connection: another attempt, or the end.
Retry(u) ==
    IF clients[u].attempt = MaxAttempts
    THEN Told(u, "failure")
    ELSE clients' = [clients EXCEPT ![u] =
             [@ EXCEPT !.pc = "connecting", !.attempt = clients[u].attempt + 1, !.answer = None]]

ConnectFails(u) ==
    /\ clients[u].pc = "connecting"
    /\ \/ Retry(u)
       \/ Told(u, "failure")                \* the name does not resolve, or no common cipher
    /\ UNCHANGED <<planned, others, nodeVars, rows, kept, unsure, excuse>>

Waiting(u) ==
    clients[u].pc \in {"greeting", "keying", "opening", "sending", "finalizing"}

\* The connection breaks, or nothing comes for fifteen seconds.  The handler
\* may have the last frame, and goes on with it.
LoseConnection(u) ==
    LET a == clients[u].attempt
    IN  /\ Waiting(u)
        /\ \E arrives \in BOOLEAN :
              handlers' = [handlers EXCEPT ![u][a] =
                  IF @.pc = "ready" /\ ~arrives THEN Thread("gone") ELSE Alone(@)]
        /\ unsure' = IF clients[u].pc \in {"opening", "finalizing"}
                     THEN unsure \cup {u} ELSE unsure
        /\ Retry(u)
        /\ UNCHANGED <<planned, others, sessions, stored, index, rows, kept, excuse>>

\* The job is over, and its connection closed.
Finish(u, result) ==
    /\ Told(u, result)
    /\ handlers' = [handlers EXCEPT ![u][clients[u].attempt] = Alone(@)]

Answered(u, pc) == clients[u].pc = pc /\ clients[u].answer # None

\* _negotiate_crypto: the node's keys, then its word that it has the session
\* key; OPEN_UPLOAD follows.  A refusal is final.
ReadKeyExchange(u) ==
    LET a == clients[u].attempt
    IN  /\ Answered(u, "greeting") \/ Answered(u, "keying")
        /\ IF clients[u].answer.say = "error" THEN Finish(u, "failure")
           ELSE IF clients[u].pc = "greeting" THEN Ask(u, a, "keying", {}, Frame("key"))
           ELSE Ask(u, a, "opening", {}, Frame("open"))
        /\ UNCHANGED <<planned, others, sessions, stored, index, rows, kept, unsure, excuse>>

\* Fault: what a resumed session has is sent again.
MissingIgnored(u) ==
    LET answer == clients[u].answer
    IN  /\ Answered(u, "opening")
        /\ CASE answer.say = "error" -> Finish(u, "failure")
             [] answer.say = "dedup" -> Finish(u, "success")
             [] answer.say = "open"  -> AskNext(u, clients[u].attempt, Chunks)
        /\ UNCHANGED <<planned, others, sessions, stored, index, rows, kept, unsure, excuse>>

\* Fault: a duplicate counts as a failure, as it once did.
DuplicateFails(u) ==
    LET answer == clients[u].answer
    IN  /\ Answered(u, "opening")
        /\ CASE answer.say \in {"error", "dedup"} -> Finish(u, "failure")
             [] answer.say = "open" -> AskNext(u, clients[u].attempt, answer.missing)
        /\ UNCHANGED <<planned, others, sessions, stored, index, rows, kept, unsure, excuse>>

\* The node has the content: the job counts as done.  Else it sends what is
\* missing of a resumed session, or everything.
ReadOpened(u) ==
    LET answer == clients[u].answer
    IN  /\ Answered(u, "opening")
        /\ CASE answer.say = "error" -> Finish(u, "failure")
             [] answer.say = "dedup" -> Finish(u, "success")
             [] answer.say = "open"  -> AskNext(u, clients[u].attempt, answer.missing)
        /\ UNCHANGED <<planned, others, sessions, stored, index, rows, kept, unsure, excuse>>

ReadAcknowledged(u) ==
    LET k == Smallest(clients[u].todo)
    IN  /\ Answered(u, "sending")
        /\ IF clients[u].answer.say = "ok"
           THEN AskNext(u, clients[u].attempt, clients[u].todo \ {k})
           ELSE Finish(u, "failure")
        /\ UNCHANGED <<planned, others, sessions, stored, index, rows, kept, unsure, excuse>>

\* The node's keys are of no use, it cuts files into chunks of another size, or
\* the file cannot be read.
GiveUp(u) ==
    /\ \E pc \in {"greeting", "opening", "sending"} : Answered(u, pc)
    /\ clients[u].answer.say \in {"open", "ok"}
    /\ Finish(u, "failure")
    /\ UNCHANGED <<planned, others, sessions, stored, index, rows, kept, unsure, excuse>>

ReadFinalized(u) ==
    /\ Answered(u, "finalizing")
    /\ Finish(u, IF clients[u].answer.say = "completed" THEN "success" ELSE "failure")
    /\ UNCHANGED <<planned, others, sessions, stored, index, rows, kept, unsure, excuse>>

\* The page shows the result, three seconds after the start at the earliest.
ShowResult(u) ==
    /\ clients[u].pc = "told"
    /\ clients' = [clients EXCEPT ![u].pc = "shown"]
    /\ UNCHANGED <<planned, others, nodeVars, rows, kept, unsure, excuse>>

ClientStep(u) ==
    \/ Plan(u) \/ PlanDeduplicated(u) \/ PlanFails(u)
    \/ Connect(u) \/ ConnectFails(u) \/ LoseConnection(u)
    \/ ReadKeyExchange(u) \/ ReadOpened(u) \/ ReadAcknowledged(u) \/ ReadFinalized(u) \/ GiveUp(u)
    \/ ShowResult(u)

----
(***************************************************************************)
(* The handler threads of the node.                                        *)
(***************************************************************************)

\* The client still waits on this connection.
Live(u, a) == clients[u].attempt = a /\ Waiting(u)

Reply(u, a, say, missing) ==
    clients' = IF Live(u, a)
               THEN [clients EXCEPT ![u].answer = [say |-> say, missing |-> missing]]
               ELSE clients

\* The thread has answered, and waits for a frame if anybody can send one.
Resume(u, a) ==
    handlers' = [handlers EXCEPT ![u][a] = IF Live(u, a) THEN Thread("ready") ELSE Thread("gone")]

\* The thread takes the frame it was sent.
Takes(u, a, ask) ==
    /\ handlers[u][a].pc = "ready"
    /\ handlers[u][a].inbox # None /\ handlers[u][a].inbox.ask = ask

At(u, a, pc) == handlers[u][a].pc = pc
Goto(u, a, pc) == handlers' = [handlers EXCEPT ![u][a].pc = pc]

\* handleKeyExchange: the public keys of an offer made for this connection, then
\* the key derived from it; either may fail.
AnswerKeyExchange(u, a) ==
    /\ Takes(u, a, "hello") \/ Takes(u, a, "key")
    /\ \E say \in {"ok", "error"} : Reply(u, a, say, {})
    /\ Resume(u, a)
    /\ UNCHANGED <<planned, others, sessions, stored, index, rows, kept, unsure, excuse>>

\* The ticket's thirty minutes are over.
OpenRefused(u, a) ==
    /\ Takes(u, a, "open")
    /\ Reply(u, a, "error", {}) /\ Resume(u, a)
    /\ UNCHANGED <<planned, others, sessions, stored, index, rows, kept, unsure, excuse>>

\* Fault: nobody reports the duplicate.
DuplicateUnreported(u, a) ==
    /\ Takes(u, a, "open") /\ ShaOf[u] \in index
    /\ Reply(u, a, "dedup", {}) /\ Resume(u, a)
    /\ UNCHANGED <<planned, others, sessions, stored, index, rows, kept, unsure, excuse>>

\* The content is in the registry: the client is told, then the coordinator.
OpenDuplicate(u, a) ==
    /\ Takes(u, a, "open") /\ ShaOf[u] \in index
    /\ Reply(u, a, "dedup", {})
    /\ \/ handlers' = [handlers EXCEPT ![u][a] = Thread("notify")]
       \/ ~Live(u, a) /\ Resume(u, a)           \* the answer raises
    /\ UNCHANGED <<planned, others, sessions, stored, index, rows, kept, unsure, excuse>>

\* The session there is, or a new one.
OpenSession(u, a) ==
    LET session == IF sessions[u] # None THEN sessions[u]
                   ELSE [by |-> a, got |-> {}, finalizing |-> FALSE, dir |-> TRUE]
    IN  /\ Takes(u, a, "open") /\ ShaOf[u] \notin index
        /\ sessions' = [sessions EXCEPT ![u] = session]
        /\ Reply(u, a, "open", Chunks \ session.got) /\ Resume(u, a)
        /\ UNCHANGED <<planned, others, stored, index, rows, kept, unsure, excuse>>

\* A chunk for a session that is not there.
RefuseChunk(u, a) ==
    /\ Takes(u, a, "chunk") /\ sessions[u] = None
    /\ Reply(u, a, "error", {}) /\ Resume(u, a)
    /\ UNCHANGED <<planned, others, sessions, stored, index, rows, kept, unsure, excuse>>

Acknowledge(u, a, k) ==
    /\ Reply(u, a, "ok", {}) /\ Resume(u, a)
    /\ kept' = IF Live(u, a) THEN [kept EXCEPT ![u] = @ \cup {k}] ELSE kept

RepeatedChunk(u, a) ==
    LET k == handlers[u][a].inbox.chunk
    IN  /\ Takes(u, a, "chunk") /\ sessions[u] # None /\ k \in sessions[u].got
        /\ Acknowledge(u, a, k)
        /\ UNCHANGED <<planned, others, sessions, stored, index, rows, unsure, excuse>>

NewChunk(u, a) ==
    /\ Takes(u, a, "chunk") /\ sessions[u] # None
    /\ handlers[u][a].inbox.chunk \notin sessions[u].got
    /\ handlers' = [handlers EXCEPT ![u][a] = [@ EXCEPT !.pc = "write", !.by = sessions[u].by]]
    /\ UNCHANGED <<planned, others, clients, sessions, stored, index, rows, kept, unsure, excuse>>

\* The session the thread works on is still the one in the table.
Mine(u, a) == sessions[u] # None /\ sessions[u].by = handlers[u][a].by /\ sessions[u].dir

\* The chunk is written, marked and acknowledged.
WriteChunk(u, a) ==
    LET k == handlers[u][a].inbox.chunk
    IN  /\ At(u, a, "write") /\ Mine(u, a)
        /\ sessions' = [sessions EXCEPT ![u].got = @ \cup {k}]
        /\ Acknowledge(u, a, k)
        /\ UNCHANGED <<planned, others, stored, index, rows, unsure, excuse>>

\* The write raises, as it does without the directory: the connection ends.
WriteFails(u, a) ==
    /\ At(u, a, "write")
    /\ handlers' = [handlers EXCEPT ![u][a] = Thread("gone")]
    /\ UNCHANGED <<planned, others, clients, sessions, stored, index, rows, kept, unsure, excuse>>

MayFinalize(u) == sessions[u] # None /\ sessions[u].got = Chunks /\ ~sessions[u].finalizing

\* No session, chunks missing, or FINALIZE_IN_PROGRESS.
RefuseFinalize(u, a) ==
    /\ Takes(u, a, "finalize") /\ ~MayFinalize(u)
    /\ Reply(u, a, "refused", {}) /\ Resume(u, a)
    /\ UNCHANGED <<planned, others, sessions, stored, index, rows, kept, unsure, excuse>>

BeginFinalize(u, a) ==
    /\ Takes(u, a, "finalize") /\ MayFinalize(u)
    /\ sessions' = [sessions EXCEPT ![u].finalizing = TRUE]
    /\ handlers' = [handlers EXCEPT ![u][a] = [Thread("work") EXCEPT !.by = sessions[u].by]]
    /\ UNCHANGED <<planned, others, clients, stored, index, rows, kept, unsure, excuse>>

\* Assembled, verified and scanned: the file is stored, the directory emptied.
Commit(u, a) ==
    /\ At(u, a, "work") /\ Mine(u, a)
    /\ stored' = stored \cup {ShaOf[u]}
    /\ sessions' = [sessions EXCEPT ![u].dir = FALSE]
    /\ Goto(u, a, "register")
    /\ UNCHANGED <<planned, others, clients, index, rows, kept, unsure, excuse>>

Register(u, a) ==
    /\ At(u, a, "register")
    /\ index' = index \cup {ShaOf[u]}
    /\ Goto(u, a, "report")
    /\ UNCHANGED <<planned, others, clients, sessions, stored, rows, kept, unsure, excuse>>

\* An unchecked exception leaves FINALIZE_UPLOAD, from hashing or scanning the
\* file, emptying the directory or saving the registry: the thread ends, and
\* the session stays FINALIZING.
Escape(u, a) ==
    /\ \/ /\ At(u, a, "work")
          /\ \/ UNCHANGED stored
             \/ Mine(u, a) /\ stored' = stored \cup {ShaOf[u]}
          /\ UNCHANGED index
       \/ /\ At(u, a, "register")
          /\ index' = index \cup {ShaOf[u]}
          /\ UNCHANGED stored
    /\ handlers' = [handlers EXCEPT ![u][a] = Thread("gone")]
    /\ UNCHANGED <<planned, others, clients, sessions, rows, kept, unsure, excuse>>

\* Whichever session of the job there is leaves the table.
Drop(u) ==
    /\ sessions' = [sessions EXCEPT ![u] = None]
    /\ kept' = [kept EXCEPT ![u] = {}]

\* UPLOAD_COMPLETE makes the row READY whatever it was, or DELETED if its hash
\* is another; a broken link or a database error drops it.
ReportComplete(u) ==
    \/ /\ planned[u] = ShaOf[u]
       /\ rows' = [rows EXCEPT ![u] = "READY"]
       /\ excuse' = [excuse EXCEPT ![u] = None]
    \/ /\ planned[u] # ShaOf[u]
       /\ rows' = [rows EXCEPT ![u] = "DELETED"]
       /\ excuse' = [excuse EXCEPT ![u] = "changed"]
    \/ /\ excuse' = [excuse EXCEPT ![u] = "dropped"]
       /\ UNCHANGED rows

\* UPLOAD_FAILED makes it DELETED, whatever it was.
ReportFailed(u) ==
    \/ /\ rows' = [rows EXCEPT ![u] = "DELETED"]
       /\ excuse' = IF rows[u] = "READY" THEN [excuse EXCEPT ![u] = "overtaken"] ELSE excuse
    \/ UNCHANGED <<rows, excuse>>

\* The session is removed and the coordinator told, then the client.
Report(u, a) ==
    /\ At(u, a, "report")
    /\ Drop(u)
    /\ ReportComplete(u)
    /\ Goto(u, a, "complete")
    /\ UNCHANGED <<planned, others, clients, stored, index, unsure>>

Complete(u, a) ==
    /\ At(u, a, "complete")
    /\ Reply(u, a, "completed", {}) /\ Resume(u, a)
    /\ UNCHANGED <<planned, others, sessions, stored, index, rows, kept, unsure, excuse>>

\* The hash differs, the scan rejects the file (the coordinator is told first),
\* or an IOException: everything of the job is cleaned up, by its name.
Reject(u, a, end) ==
    /\ At(u, a, "work")
    /\ end # "io" => Mine(u, a)
    /\ Drop(u)
    /\ IF end = "rejected" THEN ReportFailed(u) ELSE UNCHANGED <<rows, excuse>>
    /\ \/ UNCHANGED stored
       \/ /\ end = "io" /\ Mine(u, a)           \* the directory cannot be emptied
          /\ stored' = stored \cup {ShaOf[u]}
    /\ handlers' = [handlers EXCEPT ![u][a] = [Thread("refuse") EXCEPT !.end = end]]
    /\ UNCHANGED <<planned, others, clients, index, unsure>>

Refuse(u, a) ==
    /\ At(u, a, "refuse")
    /\ Reply(u, a, "refused", {})
    /\ IF handlers[u][a].end = "rejected" THEN Resume(u, a) ELSE Goto(u, a, "notify")
    /\ UNCHANGED <<planned, others, sessions, stored, index, rows, kept, unsure, excuse>>

\* The client is gone and the answer raises.  After a mismatch or a rejected
\* scan that is caught as an IOException: everything of the job's name is
\* cleaned up again, a session it has opened since included.
RefuseFails(u, a) ==
    /\ At(u, a, "refuse") /\ ~Live(u, a)
    /\ IF handlers[u][a].end = "io" THEN UNCHANGED <<sessions, kept>> ELSE Drop(u)
    /\ handlers' = [handlers EXCEPT ![u][a] = Thread("gone")]
    /\ UNCHANGED <<planned, others, clients, stored, index, rows, unsure, excuse>>

\* The report that follows an answer.
Notify(u, a) ==
    /\ At(u, a, "notify")
    /\ IF handlers[u][a].end = "ok" THEN ReportComplete(u) ELSE ReportFailed(u)
    /\ Resume(u, a)
    /\ UNCHANGED <<planned, others, clients, sessions, stored, index, kept, unsure>>

HandlerStep(u, a) ==
    \/ AnswerKeyExchange(u, a)
    \/ OpenRefused(u, a) \/ OpenDuplicate(u, a) \/ OpenSession(u, a)
    \/ RefuseChunk(u, a) \/ RepeatedChunk(u, a) \/ NewChunk(u, a)
    \/ WriteChunk(u, a) \/ WriteFails(u, a)
    \/ RefuseFinalize(u, a) \/ BeginFinalize(u, a)
    \/ Commit(u, a) \/ Register(u, a) \/ Escape(u, a) \/ Report(u, a) \/ Complete(u, a)
    \/ (\E end \in {"mismatch", "rejected", "io"} : Reject(u, a, end))
    \/ Refuse(u, a) \/ RefuseFails(u, a) \/ Notify(u, a)

\* An idle session is dropped after an hour.
Expire(u) ==
    /\ sessions[u] # None
    /\ \A a \in Attempts : handlers[u][a].pc \in {"none", "ready", "gone"}
    /\ Drop(u)
    /\ UNCHANGED <<planned, others, clients, handlers, stored, index, rows, unsure, excuse>>

\* The node stops and starts: its threads are gone, its disk is not, but for
\* entries of the registry whose saving failed or was cut short.
Restart ==
    LET survives(u) == sessions[u] # None /\ sessions[u].dir
        pending(u) == \E a \in Attempts : At(u, a, "notify") /\ handlers[u][a].end = "ok"
    IN  /\ handlers' = [u \in Uploads |-> [a \in Attempts |->
               IF At(u, a, "none") THEN handlers[u][a] ELSE Thread("gone")]]
        /\ sessions' = [u \in Uploads |->
               IF survives(u) THEN [sessions[u] EXCEPT !.finalizing = FALSE] ELSE None]
        /\ kept' = [u \in Uploads |-> IF survives(u) THEN kept[u] ELSE {}]
        /\ excuse' = [u \in Uploads |-> IF pending(u) THEN "crash" ELSE excuse[u]]
        /\ index' \in SUBSET index
        /\ UNCHANGED <<planned, others, clients, stored, rows, unsure>>

\* Someone else uploads the content to this node, and then its row is READY.
OtherUpload(s) ==
    \/ /\ others[s] = "none"
       /\ others' = [others EXCEPT ![s] = "stored"]
       /\ stored' = stored \cup {s} /\ index' = index \cup {s}
       /\ UNCHANGED <<planned, clients, handlers, sessions, rows, kept, unsure, excuse>>
    \/ /\ others[s] = "stored"
       /\ others' = [others EXCEPT ![s] = "listed"]
       /\ UNCHANGED <<planned, clients, nodeVars, rows, kept, unsure, excuse>>

\* DELETE_FILE, or reconciliation, which calls the file MISSING.
Remove(u) ==
    /\ rows[u] = "READY"
    /\ rows' = [rows EXCEPT ![u] = "DELETED"]
    /\ excuse' = [excuse EXCEPT ![u] = "removed"]
    /\ UNCHANGED <<planned, others, clients, nodeVars, kept, unsure>>

\* Fault: only uploads that got as far as the node count as orphans.
PlannedOrphans == {u \in Uploads : rows[u] = "UPLOADING" /\ clients[u].attempt > 0}

\* Rows thirty-five minutes old; any upload may take as long.
Orphans == {u \in Uploads : rows[u] = "UPLOADING"}

\* The coordinator's cleanup, in one statement.
CleanupOrphanedUploads ==
    /\ Orphans # {}
    /\ rows' = [u \in Uploads |-> IF u \in Orphans THEN "DELETED" ELSE rows[u]]
    /\ UNCHANGED <<planned, others, clients, nodeVars, kept, unsure, excuse>>

Next ==
    \/ CleanupOrphanedUploads
    \/ \E s \in Shas : OtherUpload(s)
    \/ \E u \in Uploads : OpenUploadDialog(u) \/ ClientStep(u) \/ Expire(u) \/ Remove(u)
    \/ \E u \in Uploads, a \in Attempts : HandlerStep(u, a)
    \/ Restart

\* A thread of the client runs, and its timeouts fire; the coordinator's cleanup
\* comes round every ten minutes.
Fairness ==
    /\ \A u \in Uploads : WF_vars(ClientStep(u))
    /\ WF_vars(CleanupOrphanedUploads)

Spec == Init /\ [][Next]_vars /\ Fairness

----
(***************************************************************************)
(* Properties.                                                             *)
(***************************************************************************)

\* What the answer says is uploaded: what upload_file sent, or what the row of a
\* duplicate was planned with.
Content(u) == IF clients[u].attempt = 0 THEN planned[u] ELSE ShaOf[u]

\* A user who is told that the file is uploaded has it in the store, and in
\* the room's list, but for what the answer cannot know: the node's link to the
\* coordinator or a database error dropped the completion, the node stopped
\* before it was sent (a duplicate is answered first and reported then), the
\* file had changed between INIT_UPLOAD and the transfer, the UPLOAD_FAILED
\* of an earlier attempt came after it, or the file was removed since.
SuccessIsTrue ==
    \A u \in Uploads : clients[u].result = "success" =>
        /\ Content(u) \in stored
        /\ \/ rows[u] = "READY" \/ excuse[u] # None
           \/ \E a \in Attempts : At(u, a, "notify") /\ handlers[u][a].end = "ok"

\* A user who is told that the upload failed finds it in the list all the same
\* only when a connection was lost with OPEN_UPLOAD or FINALIZE_UPLOAD
\* unanswered (the file is committed meanwhile, and FINALIZE_IN_PROGRESS, or the
\* last attempt, counts as a failure), or when the plan of a duplicate never
\* came.
FailureExplained ==
    \A u \in Uploads :
        clients[u].result = "failure" /\ rows[u] = "READY" => u \in unsure

\* A resumed upload sends no chunk the node acknowledged before the connection
\* was lost, as long as the session lives, restarts of the node included.
AcknowledgedStays ==
    \A u \in Uploads :
        clients[u].pc = "sending" /\ clients[u].answer = None => clients[u].todo \cap kept[u] = {}

\* Every upload that was started ends with a result on the page, whatever is
\* lost, refused or restarted.
UploadsEnd == \A u \in Uploads : clients[u].pc = "planning" ~> clients[u].pc = "shown"

\* No row stays UPLOADING for ever, whichever requests, reports and threads are
\* lost on the way (cleanup_orphaned_uploads).
UploadsSettle == \A u \in Uploads : rows[u] = "UPLOADING" ~> rows[u] # "UPLOADING"

====
