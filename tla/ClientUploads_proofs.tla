---- MODULE ClientUploads_proofs ----
(***************************************************************************)
(* Proofs about ClientUploads, for any number of upload jobs, contents,    *)
(* chunks and attempts.                                                    *)
(***************************************************************************)
EXTENDS ClientUploads, WellFoundedInduction, TLAPS

----
(***************************************************************************)
(* The inductive invariants.                                               *)
(***************************************************************************)
ConnectedPcs == {"greeting", "keying", "opening", "sending", "finalizing"}

\* A job has an attempt and no result while it runs, a result and no attempt
\* under way once it is over; no thread was started for an attempt to come.
JobFits(u) ==
    /\ clients[u].pc \in {"idle", "planning"} => clients[u].attempt = 0 /\ clients[u].result = None
    /\ clients[u].pc \in ConnectedPcs \cup {"connecting"} =>
           clients[u].attempt \in Attempts /\ clients[u].result = None
    /\ clients[u].pc \notin ConnectedPcs => clients[u].answer = None
    /\ clients[u].pc \in {"told", "shown"} => clients[u].result # None
    /\ \A a \in Attempts :
           a > clients[u].attempt \/ (a = clients[u].attempt /\ clients[u].pc = "connecting")
           => At(u, a, "none")

\* What a thread that is asked something was asked by a client that waits on it.
Asked(u, frame) ==
    /\ clients[u].answer = None
    /\ \/ frame.ask = "hello" /\ clients[u].pc = "greeting"
       \/ frame.ask = "key" /\ clients[u].pc = "keying"
       \/ frame.ask = "open" /\ clients[u].pc = "opening"
       \/ frame.ask = "chunk" /\ clients[u].pc = "sending" /\ frame.chunk = Smallest(clients[u].todo)
       \/ frame.ask = "finalize" /\ clients[u].pc = "finalizing"

\* A job and the thread at the other end of its connection agree on what is
\* being asked, and the answer is one to that question.
InStep(u, a) ==
    /\ At(u, a, "ready") /\ handlers[u][a].inbox # None => Asked(u, handlers[u][a].inbox)
    /\ At(u, a, "write") =>
           /\ clients[u].pc = "sending" /\ clients[u].answer = None
           /\ handlers[u][a].inbox.chunk = Smallest(clients[u].todo)
    /\ handlers[u][a].pc \in {"work", "register", "report", "complete", "refuse"} =>
           clients[u].pc = "finalizing" /\ clients[u].answer = None
    /\ At(u, a, "notify") =>
           /\ clients[u].answer # None
           /\ clients[u].answer.say = IF handlers[u][a].end = "ok" THEN "dedup" ELSE "refused"

\* Whether an answer is one to the question asked at pc.
Fits(pc, say) ==
    \/ pc \in {"greeting", "keying"} /\ say \in {"ok", "error"}
    \/ pc = "opening" /\ say \in {"error", "dedup", "open"}
    \/ pc = "sending" /\ say \in {"ok", "error"}
    \/ pc = "finalizing" /\ say \in {"completed", "refused"}

AnswerFits(u) == clients[u].answer # None => Fits(clients[u].pc, clients[u].answer.say)

\* A thread writes a chunk it was sent, and refuses for a reason.
ThreadFits(t) ==
    /\ t.pc = "write" => t.inbox # None /\ t.inbox.ask = "chunk"
    /\ t.pc = "refuse" => t.end # "ok"

JobProtocol(u) ==
    /\ JobFits(u) /\ AnswerFits(u)
    /\ \A a \in Attempts : Live(u, a) => InStep(u, a)
    /\ \A a \in Attempts : ThreadFits(handlers[u][a])

ProtocolInv == \A u \in Uploads : JobProtocol(u)

\* A thread that is about to report a completion, now or after the answer.
Pending(t) == t.pc = "notify" /\ t.end = "ok"
Committed(t) == t.pc \in {"register", "report"} \/ Pending(t)

\* What was committed, registered or listed is stored, and what a READY row is
\* planned with.
StoreInv ==
    /\ index \subseteq stored
    /\ \A s \in Shas : others[s] # "none" => s \in stored
    /\ \A u \in Uploads : rows[u] = "READY" => planned[u] \in stored /\ clients[u].pc # "idle"
    /\ \A u \in Uploads, a \in Attempts : Committed(handlers[u][a]) => ShaOf[u] \in stored

Honest(u) ==
    /\ Content(u) \in stored
    /\ \/ rows[u] = "READY" \/ excuse[u] # None
       \/ \E a \in Attempts : Pending(handlers[u][a])

Claims(u) ==
    \/ clients[u].result = "success"
    \/ clients[u].answer # None /\ clients[u].answer.say \in {"dedup", "completed"}
    \/ \E a \in Attempts : At(u, a, "complete")

HonestInv == \A u \in Uploads : Claims(u) => Honest(u)

\* A thread nobody waits on that will not complete the upload.
Harmless(u, a) ==
    \/ handlers[u][a].pc \in {"none", "gone", "write"}
    \/ /\ At(u, a, "ready")
       /\ handlers[u][a].inbox # None => handlers[u][a].inbox.ask \in {"hello", "key", "chunk"}
    \/ At(u, a, "notify") /\ (handlers[u][a].end = "ok" => clients[u].result = "success")

\* The client of a row that is READY was told so, or is about to be.
Hears(u) ==
    \/ clients[u].result = "success"
    \/ clients[u].pc = "opening" /\ clients[u].answer # None /\ clients[u].answer.say = "dedup"
    \/ clients[u].pc = "finalizing" /\ clients[u].answer # None /\ clients[u].answer.say = "completed"
    \/ /\ clients[u].pc = "finalizing" /\ clients[u].answer = None
       /\ handlers[u][clients[u].attempt].pc \in {"complete", "gone"}

SureFits(u) ==
    /\ \A a \in Attempts : ~Live(u, a) => Harmless(u, a)
    /\ rows[u] = "READY" => Hears(u)

SureInv == \A u \in Uploads \ unsure : SureFits(u)

\* The client's list of missing chunks leaves out those that were acknowledged.
KeptFits(u) ==
    /\ kept[u] \subseteq (IF sessions[u] = None THEN {} ELSE sessions[u].got)
    /\ clients[u].pc = "opening" /\ clients[u].answer # None /\ clients[u].answer.say = "open" =>
           clients[u].answer.missing \cap kept[u] = {}
    /\ clients[u].pc = "sending" =>
           \/ clients[u].todo \cap kept[u] = {}
           \/ /\ clients[u].answer # None
              /\ (clients[u].todo \ {Smallest(clients[u].todo)}) \cap kept[u] = {}

KeptInv == \A u \in Uploads : KeptFits(u)

----
(***************************************************************************)
(* What the parts of a step do.                                            *)
(***************************************************************************)
ClientsTyped  == clients \in [Uploads -> Jobs]
HandlersTyped == handlers \in [Uploads -> [Attempts -> Threads]]

\* Jobs other than u, and threads other than the one of attempt a, stay.
Apart(u) == \A v \in Uploads \ {u} : clients'[v] = clients[v] /\ handlers'[v] = handlers[v]
ThreadsStay(u, a) == \A b \in Attempts \ {a} : handlers'[u][b] = handlers[u][b]

ThreadPcs ==
    {"none", "ready", "write", "work", "register", "report", "complete", "refuse", "notify", "gone"}

LEMMA NoneIsNone ==
    /\ None \notin Answers /\ None \notin Frames /\ None \notin Sessions /\ None \notin Excuses
    /\ None # "success" /\ None # "failure"
  BY NoneAssumption

\* A set of chunks that is not empty has a smallest one.
LEMMA SmallestIs ==
    ASSUME NEW s \in SUBSET Chunks, s # {}
    PROVE  Smallest(s) \in s
  <1>1. s \subseteq Nat
    BY DEF Chunks
  <1>2. \E m \in s : \A k \in s : ~(<<k, m>> \in OpToRel(<, Nat))
    BY <1>1, NatLessThanWellFounded, WFMin
  <1>3. PICK m \in s : \A k \in s : ~(k < m)
    BY <1>1, <1>2 DEF OpToRel
  <1>4. \A k \in s : m <= k
    BY <1>1, <1>3
  <1> QED  BY <1>4 DEF Smallest

LEMMA ThreadIs ==
    ASSUME NEW pc \in ThreadPcs
    PROVE  /\ Thread(pc) \in Threads
           /\ Thread(pc).pc = pc /\ Thread(pc).inbox = None /\ Thread(pc).by = 0 /\ Thread(pc).end = "ok"
  BY UploadsAssumption DEF Thread, Threads, ThreadPcs

LEMMA FrameIs ==
    ASSUME NEW ask \in {"hello", "key", "open", "finalize"}
    PROVE  Frame(ask) \in Frames /\ Frame(ask).ask = ask /\ Frame(ask) # None
  BY NoneIsNone DEF Frame, Frames

LEMMA AloneIs ==
    ASSUME NEW t \in Threads
    PROVE  /\ Alone(t) \in Threads
           /\ IF t.pc = "ready" /\ t.inbox = None THEN Alone(t).pc = "gone" ELSE Alone(t) = t
  BY ThreadIs DEF Alone, ThreadPcs

\* A thread turns into another.
LEMMA ThreadTurns ==
    ASSUME HandlersTyped, NEW u \in Uploads, NEW a \in Attempts, NEW t \in Threads,
           handlers' = [handlers EXCEPT ![u][a] = t]
    PROVE  /\ HandlersTyped' /\ handlers'[u][a] = t /\ ThreadsStay(u, a)
           /\ \A v \in Uploads \ {u} : handlers'[v] = handlers[v]
  BY DEF HandlersTyped, ThreadsStay

LEMMA JobTurns ==
    ASSUME ClientsTyped, NEW u \in Uploads, NEW j \in Jobs, clients' = [clients EXCEPT ![u] = j]
    PROVE  /\ ClientsTyped' /\ clients'[u] = j
           /\ \A v \in Uploads \ {u} : clients'[v] = clients[v]
  BY DEF ClientsTyped

LEMMA AskIs ==
    ASSUME ClientsTyped, HandlersTyped, NEW u \in Uploads, NEW a \in Attempts,
           NEW pc \in ConnectedPcs, NEW todo \in SUBSET Chunks, NEW frame \in Frames,
           Ask(u, a, pc, todo, frame)
    PROVE  /\ ClientsTyped' /\ HandlersTyped' /\ Apart(u) /\ ThreadsStay(u, a)
           /\ clients'[u].pc = pc /\ clients'[u].todo = todo /\ clients'[u].answer = None
           /\ clients'[u].attempt = clients[u].attempt /\ clients'[u].result = clients[u].result
           /\ handlers'[u][a].pc = handlers[u][a].pc /\ handlers'[u][a].inbox = frame
           /\ handlers'[u][a].by = handlers[u][a].by /\ handlers'[u][a].end = handlers[u][a].end
  <1>1. clients[u] \in Jobs /\ handlers[u][a] \in Threads
    BY DEF ClientsTyped, HandlersTyped
  <1>2. PICK j : /\ j = [clients[u] EXCEPT !.pc = pc, !.todo = todo, !.answer = None]
                 /\ clients' = [clients EXCEPT ![u] = j]
    BY DEF Ask
  <1>3. PICK t : /\ t = [handlers[u][a] EXCEPT !.inbox = frame]
                 /\ handlers' = [handlers EXCEPT ![u][a] = t]
    BY DEF Ask
  <1>4. /\ j \in Jobs /\ j.pc = pc /\ j.todo = todo /\ j.answer = None
        /\ j.attempt = clients[u].attempt /\ j.result = clients[u].result
    BY <1>1, <1>2 DEF Jobs, ConnectedPcs
  <1>5. /\ t \in Threads /\ t.pc = handlers[u][a].pc /\ t.inbox = frame
        /\ t.by = handlers[u][a].by /\ t.end = handlers[u][a].end
    BY <1>1, <1>3 DEF Threads
  <1>6. ClientsTyped' /\ clients'[u] = j /\ \A v \in Uploads \ {u} : clients'[v] = clients[v]
    BY <1>2, <1>4, JobTurns
  <1>7. /\ HandlersTyped' /\ handlers'[u][a] = t /\ ThreadsStay(u, a)
        /\ \A v \in Uploads \ {u} : handlers'[v] = handlers[v]
    <2>1. handlers' = [handlers EXCEPT ![u][a] = t] /\ t \in Threads
      BY <1>3, <1>5
    <2> QED  BY <2>1, ThreadTurns
  <1> QED  BY <1>4, <1>5, <1>6, <1>7 DEF Apart

LEMMA ToldIs ==
    ASSUME ClientsTyped, NEW u \in Uploads, NEW result \in {"success", "failure"}, Told(u, result)
    PROVE  /\ ClientsTyped' /\ \A v \in Uploads \ {u} : clients'[v] = clients[v]
           /\ clients'[u].pc = "told" /\ clients'[u].result = result /\ clients'[u].answer = None
           /\ clients'[u].attempt = clients[u].attempt /\ clients'[u].todo = clients[u].todo
  <1>1. PICK j : /\ j = [clients[u] EXCEPT !.pc = "told", !.result = result, !.answer = None]
                 /\ clients' = [clients EXCEPT ![u] = j]
    BY DEF Told
  <1>2. /\ j \in Jobs /\ j.pc = "told" /\ j.result = result /\ j.answer = None
        /\ j.attempt = clients[u].attempt /\ j.todo = clients[u].todo
    BY <1>1 DEF ClientsTyped, Jobs
  <1> QED  BY <1>1, <1>2, JobTurns

LEMMA RetryIs ==
    ASSUME ClientsTyped, NEW u \in Uploads, clients[u].attempt \in Attempts, Retry(u)
    PROVE  /\ ClientsTyped' /\ \A v \in Uploads \ {u} : clients'[v] = clients[v]
           /\ clients'[u].answer = None
           /\ \/ /\ clients'[u].pc = "told" /\ clients'[u].result = "failure"
                 /\ clients'[u].attempt = clients[u].attempt
              \/ /\ clients'[u].pc = "connecting" /\ clients'[u].result = clients[u].result
                 /\ clients'[u].attempt = clients[u].attempt + 1 /\ clients'[u].attempt \in Attempts
  <1>1. CASE clients[u].attempt = MaxAttempts
    BY <1>1, ToldIs DEF Retry
  <1>2. CASE clients[u].attempt # MaxAttempts
    <2>1. PICK j : /\ j = [clients[u] EXCEPT !.pc = "connecting", !.attempt = clients[u].attempt + 1, !.answer = None]
                   /\ clients' = [clients EXCEPT ![u] = j]
      BY <1>2 DEF Retry
    <2>2. /\ clients[u].attempt \in Nat /\ clients[u].attempt + 1 \in Attempts
          /\ clients[u].attempt + 1 \in 0 .. MaxAttempts
      BY <1>2, UploadsAssumption DEF Attempts
    <2>3. /\ j \in Jobs /\ j.pc = "connecting" /\ j.result = clients[u].result /\ j.answer = None
          /\ j.attempt = clients[u].attempt + 1
      BY <2>1, <2>2 DEF ClientsTyped, Jobs
    <2> QED  BY <2>1, <2>2, <2>3, JobTurns
  <1> QED  BY <1>1, <1>2

LEMMA FinishIs ==
    ASSUME ClientsTyped, HandlersTyped, NEW u \in Uploads, clients[u].attempt \in Attempts,
           NEW result \in {"success", "failure"}, Finish(u, result)
    PROVE  /\ ClientsTyped' /\ HandlersTyped' /\ Apart(u) /\ ThreadsStay(u, clients[u].attempt)
           /\ clients'[u].pc = "told" /\ clients'[u].result = result /\ clients'[u].answer = None
           /\ clients'[u].attempt = clients[u].attempt
           /\ handlers'[u][clients[u].attempt] = Alone(handlers[u][clients[u].attempt])
  <1>1. PICK a \in Attempts : a = clients[u].attempt
    OBVIOUS
  <1>2. PICK t : t = Alone(handlers[u][a]) /\ handlers' = [handlers EXCEPT ![u][a] = t]
    BY <1>1 DEF Finish
  <1>3. t \in Threads
    BY <1>2, AloneIs DEF HandlersTyped
  <1>4. /\ HandlersTyped' /\ handlers'[u][a] = t /\ ThreadsStay(u, a)
        /\ \A v \in Uploads \ {u} : handlers'[v] = handlers[v]
    BY <1>2, <1>3, ThreadTurns, ZenonT(60)
  <1> QED  BY <1>1, <1>2, <1>4, ToldIs DEF Finish, Apart

LEMMA ReplyIs ==
    ASSUME ClientsTyped, NEW u \in Uploads, NEW a \in Attempts,
           NEW say \in {"error", "dedup", "open", "ok", "completed", "refused"},
           NEW missing \in SUBSET Chunks, Reply(u, a, say, missing)
    PROVE  /\ ClientsTyped' /\ \A v \in Uploads \ {u} : clients'[v] = clients[v]
           /\ clients'[u].pc = clients[u].pc /\ clients'[u].attempt = clients[u].attempt
           /\ clients'[u].todo = clients[u].todo /\ clients'[u].result = clients[u].result
           /\ IF Live(u, a)
              THEN /\ clients'[u].answer # None
                   /\ clients'[u].answer.say = say /\ clients'[u].answer.missing = missing
              ELSE clients' = clients
  <1>1. CASE Live(u, a)
    <2>1. PICK r : r = [say |-> say, missing |-> missing]
      OBVIOUS
    <2>2. r \in Answers /\ r # None /\ r.say = say /\ r.missing = missing
      BY <2>1, NoneIsNone DEF Answers
    <2>3. PICK j : j = [clients[u] EXCEPT !.answer = r] /\ clients' = [clients EXCEPT ![u] = j]
      BY <1>1, <2>1 DEF Reply
    <2>4. /\ j \in Jobs /\ j.pc = clients[u].pc /\ j.attempt = clients[u].attempt
          /\ j.todo = clients[u].todo /\ j.result = clients[u].result /\ j.answer = r
      BY <2>2, <2>3 DEF ClientsTyped, Jobs
    <2> QED  BY <1>1, <2>2, <2>3, <2>4, JobTurns
  <1>2. CASE ~Live(u, a)
    BY <1>2 DEF Reply, ClientsTyped
  <1> QED  BY <1>1, <1>2

LEMMA ResumeIs ==
    ASSUME HandlersTyped, NEW u \in Uploads, NEW a \in Attempts, Resume(u, a)
    PROVE  /\ HandlersTyped' /\ ThreadsStay(u, a)
           /\ \A v \in Uploads \ {u} : handlers'[v] = handlers[v]
           /\ handlers'[u][a] = Thread(IF Live(u, a) THEN "ready" ELSE "gone")
           /\ handlers'[u][a].pc = (IF Live(u, a) THEN "ready" ELSE "gone")
           /\ handlers'[u][a].inbox = None
  <1>1. PICK pc \in {"ready", "gone"} : /\ pc = IF Live(u, a) THEN "ready" ELSE "gone"
                                        /\ handlers' = [handlers EXCEPT ![u][a] = Thread(pc)]
    BY DEF Resume
  <1>2. Thread(pc) \in Threads /\ Thread(pc).pc = pc /\ Thread(pc).inbox = None
    BY ThreadIs DEF ThreadPcs
  <1>3. /\ HandlersTyped' /\ ThreadsStay(u, a) /\ handlers'[u][a] = Thread(pc)
        /\ \A v \in Uploads \ {u} : handlers'[v] = handlers[v]
    BY <1>1, <1>2, ThreadTurns, ZenonT(40)
  <1> QED  BY <1>1, <1>2, <1>3

LEMMA GotoIs ==
    ASSUME HandlersTyped, NEW u \in Uploads, NEW a \in Attempts, NEW pc \in ThreadPcs, Goto(u, a, pc)
    PROVE  /\ HandlersTyped' /\ ThreadsStay(u, a)
           /\ \A v \in Uploads \ {u} : handlers'[v] = handlers[v]
           /\ handlers'[u][a].pc = pc /\ handlers'[u][a].inbox = handlers[u][a].inbox
           /\ handlers'[u][a].by = handlers[u][a].by /\ handlers'[u][a].end = handlers[u][a].end
  <1>1. PICK t : t = [handlers[u][a] EXCEPT !.pc = pc] /\ handlers' = [handlers EXCEPT ![u][a] = t]
    BY DEF Goto
  <1>2. /\ t \in Threads /\ t.pc = pc /\ t.inbox = handlers[u][a].inbox
        /\ t.by = handlers[u][a].by /\ t.end = handlers[u][a].end
    <2>1. handlers[u][a] \in Threads
      BY DEF HandlersTyped
    <2> QED  BY <1>1, <2>1 DEF Threads, ThreadPcs
  <1>3. handlers' = [handlers EXCEPT ![u][a] = t] /\ t \in Threads
    BY <1>1, <1>2
  <1> QED  BY <1>2, <1>3, ThreadTurns

----
(***************************************************************************)
(* The steps of a job, grouped by what they do to the two ends of its      *)
(* connection.                                                             *)
(***************************************************************************)

\* What a frame and a list of missing chunks look like at each pc.
Asking(pc, todo, frame) ==
    /\ todo \in SUBSET Chunks /\ frame \in Frames
    /\ \/ pc = "keying" /\ frame.ask = "key"
       \/ pc = "opening" /\ frame.ask = "open"
       \/ pc = "sending" /\ frame.ask = "chunk" /\ frame.chunk = Smallest(todo)
       \/ pc = "finalizing" /\ frame.ask = "finalize"

\* The chunks a job may list after the answer it has.
Remaining(u) ==
    IF clients[u].pc = "opening" THEN clients[u].answer.missing
    ELSE clients[u].todo \ {Smallest(clients[u].todo)}

dataVars == <<planned, others, sessions, stored, index, rows, kept, unsure, excuse>>

FinishStep(u) ==
    /\ Waiting(u) /\ clients[u].answer # None
    /\ \E result \in {"success", "failure"} :
          /\ Finish(u, result)
          /\ result = "success" <=> clients[u].answer.say \in {"dedup", "completed"}

AskStep(u) ==
    /\ Waiting(u) /\ clients[u].answer # None /\ clients[u].answer.say \in {"ok", "open"}
    /\ \E pc \in ConnectedPcs, todo \in SUBSET Chunks, frame \in Frames :
          /\ Asking(pc, todo, frame)
          /\ pc = "sending" => clients[u].pc \in {"opening", "sending"} /\ todo \subseteq Remaining(u)
          /\ Ask(u, clients[u].attempt, pc, todo, frame)

\* An answer read is the end of the job or the next question.
LEMMA NextAsked ==
    ASSUME NEW u \in Uploads, NEW todo \in SUBSET Chunks, todo \subseteq Remaining(u),
           Waiting(u), clients[u].pc \in {"opening", "sending"},
           clients[u].answer # None, clients[u].answer.say \in {"ok", "open"},
           AskNext(u, clients[u].attempt, todo)
    PROVE  AskStep(u)
  <1>1. CASE todo = {}
    <2>1. Asking("finalizing", {}, Frame("finalize"))
      BY FrameIs DEF Asking
    <2>2. Ask(u, clients[u].attempt, "finalizing", {}, Frame("finalize"))
      BY <1>1 DEF AskNext
    <2> QED  BY <2>1, <2>2 DEF AskStep, Asking, ConnectedPcs
  <1>2. CASE todo # {}
    <2>1. PICK frame : frame = [ask |-> "chunk", chunk |-> Smallest(todo)]
      OBVIOUS
    <2>2. Smallest(todo) \in Chunks
      BY <1>2, SmallestIs
    <2>3. frame \in Frames /\ frame.ask = "chunk" /\ frame.chunk = Smallest(todo)
      BY <2>1, <2>2 DEF Frames
    <2>4. Asking("sending", todo, frame)
      BY <2>3 DEF Asking
    <2>5. Ask(u, clients[u].attempt, "sending", todo, frame)
      BY <1>2, <2>1 DEF AskNext
    <2> QED  BY <2>3, <2>4, <2>5 DEF AskStep, ConnectedPcs
  <1> QED  BY <1>1, <1>2

LEMMA AnswersRead ==
    ASSUME ClientsTyped, ProtocolInv, NEW u \in Uploads,
           \/ ReadKeyExchange(u) \/ ReadOpened(u) \/ ReadAcknowledged(u) \/ ReadFinalized(u) \/ GiveUp(u)
    PROVE  (FinishStep(u) \/ AskStep(u)) /\ UNCHANGED dataVars
  <1> USE DEF dataVars
  <1>1. clients[u] \in Jobs /\ AnswerFits(u)
    BY DEF ClientsTyped, ProtocolInv, JobProtocol
  <1>2. clients[u].todo \in SUBSET Chunks /\ clients[u].answer \in Answers \cup {None}
    BY <1>1 DEF Jobs
  <1>3. CASE ReadKeyExchange(u)
    <2>1. Waiting(u) /\ clients[u].answer # None /\ clients[u].answer.say \in {"ok", "error"}
      BY <1>1, <1>3 DEF ReadKeyExchange, Answered, Waiting, AnswerFits, Fits
    <2>2. CASE clients[u].answer.say = "error"
      BY <1>3, <2>1, <2>2 DEF ReadKeyExchange, FinishStep
    <2>3. CASE clients[u].answer.say # "error" /\ clients[u].pc = "greeting"
      <3>1. Ask(u, clients[u].attempt, "keying", {}, Frame("key"))
        BY <1>3, <2>3 DEF ReadKeyExchange
      <3>2. Asking("keying", {}, Frame("key")) /\ Frame("key") \in Frames
        BY FrameIs DEF Asking
      <3>3. clients[u].answer.say \in {"ok", "open"} /\ UNCHANGED dataVars
        BY <1>3, <2>1, <2>3 DEF ReadKeyExchange
      <3> QED  BY <2>1, <3>1, <3>2, <3>3 DEF AskStep, ConnectedPcs
    <2>4. CASE clients[u].answer.say # "error" /\ clients[u].pc # "greeting"
      <3>1. Ask(u, clients[u].attempt, "opening", {}, Frame("open"))
        BY <1>3, <2>4 DEF ReadKeyExchange
      <3>2. Asking("opening", {}, Frame("open")) /\ Frame("open") \in Frames
        BY FrameIs DEF Asking
      <3>3. clients[u].answer.say \in {"ok", "open"} /\ UNCHANGED dataVars
        BY <1>3, <2>1, <2>4 DEF ReadKeyExchange
      <3> QED  BY <2>1, <3>1, <3>2, <3>3 DEF AskStep, ConnectedPcs
    <2> QED  BY <2>2, <2>3, <2>4
  <1>4. CASE ReadOpened(u)
    <2>1. /\ Waiting(u) /\ clients[u].answer # None /\ clients[u].pc = "opening"
          /\ clients[u].answer.say \in {"error", "dedup", "open"}
      BY <1>1, <1>4 DEF ReadOpened, Answered, Waiting, AnswerFits, Fits
    <2>2. clients[u].answer.missing \in SUBSET Chunks
      BY <1>2, <2>1 DEF Answers
    <2>3. CASE clients[u].answer.say \in {"error", "dedup"}
      BY <1>4, <2>1, <2>3 DEF ReadOpened, FinishStep
    <2>4. CASE clients[u].answer.say = "open"
      <3>1. AskNext(u, clients[u].attempt, clients[u].answer.missing) /\ UNCHANGED dataVars
        BY <1>4, <2>4 DEF ReadOpened
      <3>2. clients[u].answer.missing \subseteq Remaining(u)
        BY <2>1 DEF Remaining
      <3> QED  BY <2>1, <2>2, <2>4, <3>1, <3>2, NextAsked
    <2> QED  BY <2>1, <2>3, <2>4
  <1>5. CASE ReadAcknowledged(u)
    <2>1. /\ Waiting(u) /\ clients[u].answer # None /\ clients[u].pc = "sending"
          /\ clients[u].answer.say \in {"ok", "error"}
      BY <1>1, <1>5 DEF ReadAcknowledged, Answered, Waiting, AnswerFits, Fits
    <2>2. CASE clients[u].answer.say # "ok"
      BY <1>5, <2>1, <2>2 DEF ReadAcknowledged, FinishStep
    <2>3. CASE clients[u].answer.say = "ok"
      <3>1. PICK todo : todo = clients[u].todo \ {Smallest(clients[u].todo)}
        OBVIOUS
      <3>2. AskNext(u, clients[u].attempt, todo) /\ UNCHANGED dataVars
        BY <1>5, <2>3, <3>1 DEF ReadAcknowledged
      <3>3. todo \subseteq Remaining(u) /\ todo \in SUBSET Chunks
        BY <1>2, <2>1, <3>1 DEF Remaining
      <3> QED  BY <2>1, <2>3, <3>2, <3>3, NextAsked
    <2> QED  BY <2>2, <2>3
  <1>6. CASE ReadFinalized(u)
    <2>1. /\ Waiting(u) /\ clients[u].answer # None
          /\ clients[u].answer.say \in {"completed", "refused"}
      BY <1>1, <1>6 DEF ReadFinalized, Answered, Waiting, AnswerFits, Fits
    <2> QED  BY <1>6, <2>1 DEF ReadFinalized, FinishStep
  <1>7. CASE GiveUp(u)
    BY <1>7 DEF GiveUp, Answered, Waiting, FinishStep
  <1> QED  BY <1>3, <1>4, <1>5, <1>6, <1>7


----
(***************************************************************************)
(* A job and its threads stay in step.                                     *)
(***************************************************************************)

\* A job nothing happens to.
LEMMA JobStays ==
    ASSUME NEW v \in Uploads, JobProtocol(v), clients'[v] = clients[v], handlers'[v] = handlers[v]
    PROVE  JobProtocol(v)'
  BY DEF JobProtocol, JobFits, AnswerFits, InStep, Asked, Live, Waiting, At

LEMMA OthersStay ==
    ASSUME ProtocolInv, NEW u \in Uploads, Apart(u), JobProtocol(u)'
    PROVE  ProtocolInv'
  BY JobStays DEF ProtocolInv, Apart

\* A job that is not connected, before the step and after it.
LEMMA UnconnectedInStep ==
    ASSUME ClientsTyped, ProtocolInv, NEW u \in Uploads,
           OpenUploadDialog(u) \/ Plan(u) \/ PlanDeduplicated(u) \/ PlanFails(u)
           \/ ConnectFails(u) \/ ShowResult(u)
    PROVE  ClientsTyped' /\ ProtocolInv' /\ Apart(u) /\ handlers' = handlers
           /\ clients'[u].answer = None /\ clients'[u].pc \notin ConnectedPcs
  <1>1. clients[u] \in Jobs /\ JobProtocol(u)
    BY DEF ClientsTyped, ProtocolInv
  <1>2. /\ handlers' = handlers /\ clients[u].answer = None /\ clients[u].pc \notin ConnectedPcs
        /\ clients[u].attempt \in Int
    BY <1>1 DEF OpenUploadDialog, Plan, PlanDeduplicated, PlanFails, ConnectFails, ShowResult, nodeVars,
                JobProtocol, JobFits, ConnectedPcs, Jobs
  <1>3. /\ ClientsTyped' /\ \A v \in Uploads \ {u} : clients'[v] = clients[v]
        /\ clients'[u].answer = None
        /\ \/ /\ clients'[u].pc = "planning" /\ clients[u].pc = "idle"
              /\ clients'[u].attempt = clients[u].attempt /\ clients'[u].result = clients[u].result
           \/ /\ clients'[u].pc = "connecting" /\ clients[u].pc = "planning"
              /\ clients'[u].attempt = 1 /\ clients'[u].result = clients[u].result
           \/ /\ clients'[u].pc = "connecting" /\ clients[u].pc = "connecting"
              /\ clients'[u].attempt = clients[u].attempt + 1 /\ clients'[u].result = clients[u].result
              /\ clients'[u].attempt \in Attempts
           \/ /\ clients'[u].pc = "told" /\ clients[u].pc \in {"planning", "connecting"}
              /\ clients'[u].attempt = clients[u].attempt /\ clients'[u].result \in {"success", "failure"}
           \/ /\ clients'[u].pc = "shown" /\ clients[u].pc = "told"
              /\ clients'[u].attempt = clients[u].attempt /\ clients'[u].result = clients[u].result
    <2>1. CASE OpenUploadDialog(u)
      <3>1. PICK j : j = [clients[u] EXCEPT !.pc = "planning"] /\ clients' = [clients EXCEPT ![u] = j]
        BY <2>1 DEF OpenUploadDialog
      <3>2. /\ j \in Jobs /\ j.pc = "planning" /\ j.attempt = clients[u].attempt
            /\ j.result = clients[u].result /\ j.answer = clients[u].answer
        BY <1>1, <3>1 DEF Jobs
      <3>3. clients[u].pc = "idle"
        BY <2>1 DEF OpenUploadDialog
      <3> QED  BY <1>2, <3>1, <3>2, <3>3, JobTurns
    <2>2. CASE Plan(u)
      <3>1. PICK j : j = [clients[u] EXCEPT !.pc = "connecting", !.attempt = 1] /\ clients' = [clients EXCEPT ![u] = j]
        BY <2>2 DEF Plan, ClientsTyped
      <3>2. /\ j \in Jobs /\ j.pc = "connecting" /\ j.attempt = 1
            /\ j.result = clients[u].result /\ j.answer = clients[u].answer
        <4>1. 1 \in 0 .. MaxAttempts
          BY UploadsAssumption
        <4> QED  BY <1>1, <3>1, <4>1 DEF Jobs
      <3>3. clients[u].pc = "planning"
        BY <2>2 DEF Plan
      <3> QED  BY <1>2, <3>1, <3>2, <3>3, JobTurns
    <2>3. CASE PlanDeduplicated(u)
      BY <2>3, ToldIs DEF PlanDeduplicated
    <2>4. CASE PlanFails(u)
      BY <2>4, ToldIs DEF PlanFails
    <2>5. CASE ConnectFails(u)
      <3>1. clients[u].pc = "connecting" /\ clients[u].attempt \in Attempts
        BY <1>1, <2>5 DEF ConnectFails, JobProtocol, JobFits
      <3>2. CASE Retry(u)
        BY <3>1, <3>2, RetryIs
      <3>3. CASE Told(u, "failure")
        BY <3>1, <3>3, ToldIs
      <3> QED  BY <2>5, <3>2, <3>3 DEF ConnectFails
    <2>6. CASE ShowResult(u)
      <3>1. PICK j : j = [clients[u] EXCEPT !.pc = "shown"] /\ clients' = [clients EXCEPT ![u] = j]
        BY <2>6 DEF ShowResult
      <3>2. /\ j \in Jobs /\ j.pc = "shown" /\ j.attempt = clients[u].attempt
            /\ j.result = clients[u].result /\ j.answer = clients[u].answer
        BY <1>1, <3>1 DEF Jobs
      <3>3. clients[u].pc = "told"
        BY <2>6 DEF ShowResult
      <3> QED  BY <1>2, <3>1, <3>2, <3>3, JobTurns
    <2> QED  BY <2>1, <2>2, <2>3, <2>4, <2>5, <2>6
  <1>4. clients'[u].pc \notin ConnectedPcs /\ ~Waiting(u)' /\ \A a \in Attempts : ~Live(u, a)'
    BY <1>3 DEF ConnectedPcs, Waiting, Live
  <1>5. JobFits(u)'
    BY <1>1, <1>2, <1>3, NoneIsNone, UploadsAssumption DEF JobProtocol, JobFits, ConnectedPcs, At, Attempts
  <1>6. JobProtocol(u)'
    BY <1>1, <1>2, <1>3, <1>4, <1>5 DEF JobProtocol, AnswerFits
  <1> QED  BY <1>2, <1>3, <1>4, <1>6, OthersStay DEF Apart

LEMMA ConnectInStep ==
    ASSUME ClientsTyped, HandlersTyped, ProtocolInv, NEW u \in Uploads, Connect(u)
    PROVE  /\ ClientsTyped' /\ HandlersTyped' /\ ProtocolInv' /\ Apart(u)
           /\ clients[u].attempt \in Attempts /\ ThreadsStay(u, clients[u].attempt)
           /\ At(u, clients[u].attempt, "none")
           /\ clients'[u].attempt = clients[u].attempt /\ clients'[u].result = clients[u].result
           /\ clients'[u].answer = None /\ clients'[u].pc = "greeting"
           /\ handlers'[u][clients[u].attempt].pc = "ready"
           /\ handlers'[u][clients[u].attempt].inbox # None
           /\ handlers'[u][clients[u].attempt].inbox.ask = "hello"
  <1>1. clients[u] \in Jobs /\ JobProtocol(u) /\ clients[u].pc = "connecting"
    BY DEF ClientsTyped, ProtocolInv, Connect
  <1>2. PICK a \in Attempts : a = clients[u].attempt /\ At(u, a, "none") /\ clients[u].answer = None
    BY <1>1 DEF JobProtocol, JobFits, ConnectedPcs
  <1>3. PICK t : t = [Thread("ready") EXCEPT !.inbox = Frame("hello")] /\ handlers' = [handlers EXCEPT ![u][a] = t]
    BY <1>2 DEF Connect
  <1>4. /\ t \in Threads /\ t.pc = "ready" /\ t.inbox # None /\ t.inbox.ask = "hello"
    <2>1. Thread("ready") \in Threads /\ Thread("ready").pc = "ready"
      BY ThreadIs DEF ThreadPcs
    <2>2. Frame("hello") \in Frames /\ Frame("hello") # None /\ Frame("hello").ask = "hello"
      BY FrameIs
    <2> QED  BY <1>3, <2>1, <2>2 DEF Threads
  <1>5. PICK j : j = [clients[u] EXCEPT !.pc = "greeting"] /\ clients' = [clients EXCEPT ![u] = j]
    BY DEF Connect
  <1>6. /\ j \in Jobs /\ j.pc = "greeting" /\ j.attempt = a /\ j.answer = None
        /\ j.result = clients[u].result
    BY <1>1, <1>2, <1>5 DEF Jobs
  <1>7. /\ ClientsTyped' /\ clients'[u] = j /\ \A v \in Uploads \ {u} : clients'[v] = clients[v]
    BY <1>5, <1>6, JobTurns
  <1>8. /\ HandlersTyped' /\ handlers'[u][a] = t /\ ThreadsStay(u, a)
        /\ \A v \in Uploads \ {u} : handlers'[v] = handlers[v]
    <2>1. handlers' = [handlers EXCEPT ![u][a] = t] /\ t \in Threads
      BY <1>3, <1>4
    <2> QED  BY <2>1, ThreadTurns
  <1>9. JobFits(u)' /\ AnswerFits(u)'
    BY <1>1, <1>2, <1>6, <1>7, <1>8
       DEF JobProtocol, JobFits, ConnectedPcs, At, AnswerFits, ThreadsStay, Attempts
  <1>10. InStep(u, a)'
    BY <1>4, <1>6, <1>7, <1>8 DEF InStep, Asked, At
  <1>11. \A b \in Attempts : Live(u, b)' => b = a
    BY <1>6, <1>7 DEF Live
  <1>12. \A b \in Attempts : ThreadFits(handlers'[u][b])
    BY <1>1, <1>4, <1>8 DEF ThreadFits, JobProtocol, At, ThreadsStay
  <1>13. JobProtocol(u)'
    BY <1>9, <1>10, <1>11, <1>12 DEF JobProtocol
  <1> QED  BY <1>2, <1>4, <1>6, <1>7, <1>8, <1>13, OthersStay DEF Apart


\* What is left of the thread of a connection that was closed.
Closed(t, s) == s \in Threads /\ (s = t \/ s.pc = "gone") /\ (t.pc \notin {"ready"} => s = t)

LEMMA ClosedIs ==
    ASSUME NEW t \in Threads
    PROVE  Closed(t, Alone(t)) /\ (t.pc = "ready" => Closed(t, Thread("gone")))
  BY AloneIs, ThreadIs DEF Closed, ThreadPcs

LEMMA LossInStep ==
    ASSUME ClientsTyped, HandlersTyped, ProtocolInv, NEW u \in Uploads, LoseConnection(u)
    PROVE  /\ ClientsTyped' /\ HandlersTyped' /\ ProtocolInv' /\ Apart(u)
           /\ clients[u].attempt \in Attempts /\ ThreadsStay(u, clients[u].attempt)
           /\ Waiting(u) /\ ~Waiting(u)' /\ clients[u].result = None
           /\ clients'[u].result \in {None, "failure"} /\ clients'[u].answer = None
           /\ clients'[u].pc \in {"told", "connecting"} /\ clients'[u].attempt \in Attempts
           /\ Closed(handlers[u][clients[u].attempt], handlers'[u][clients[u].attempt])
  <1>1. clients[u] \in Jobs /\ JobProtocol(u) /\ clients[u].pc \in ConnectedPcs
    BY DEF ClientsTyped, ProtocolInv, LoseConnection, Waiting, ConnectedPcs
  <1>2. PICK a \in Attempts : a = clients[u].attempt
    BY <1>1 DEF JobProtocol, JobFits
  <1>3. clients[u].result = None
    BY <1>1 DEF JobProtocol, JobFits
  <1>4. PICK t : /\ Closed(handlers[u][a], t)
                 /\ handlers' = [handlers EXCEPT ![u][a] = t]
    <2>1. handlers[u][a] \in Threads
      BY DEF HandlersTyped
    <2>2. \/ handlers[u][a].pc = "ready" /\ handlers' = [handlers EXCEPT ![u][a] = Thread("gone")]
          \/ handlers' = [handlers EXCEPT ![u][a] = Alone(handlers[u][a])]
      BY <1>2 DEF LoseConnection, HandlersTyped
    <2> QED  BY <2>1, <2>2, ClosedIs
  <1>5. t \in Threads
    BY <1>4 DEF Closed
  <1>6. /\ HandlersTyped' /\ handlers'[u][a] = t /\ ThreadsStay(u, a)
        /\ \A v \in Uploads \ {u} : handlers'[v] = handlers[v]
    BY <1>4, <1>5, ThreadTurns
  <1>7. Retry(u)
    BY DEF LoseConnection
  <1>8. /\ ClientsTyped' /\ \A v \in Uploads \ {u} : clients'[v] = clients[v]
        /\ clients'[u].answer = None
        /\ \/ /\ clients'[u].pc = "told" /\ clients'[u].result = "failure"
              /\ clients'[u].attempt = clients[u].attempt
           \/ /\ clients'[u].pc = "connecting" /\ clients'[u].result = clients[u].result
              /\ clients'[u].attempt = clients[u].attempt + 1 /\ clients'[u].attempt \in Attempts
    BY <1>2, <1>7, RetryIs
  <1>9. ~Waiting(u)' /\ \A b \in Attempts : ~Live(u, b)'
    BY <1>8 DEF Waiting, Live
  <1>10. JobFits(u)'
    BY <1>1, <1>2, <1>3, <1>6, <1>8, NoneIsNone
       DEF JobProtocol, JobFits, ConnectedPcs, At, Attempts, ThreadsStay
  <1>11. \A b \in Attempts : ThreadFits(handlers'[u][b])
    BY <1>1, <1>4, <1>6 DEF ThreadFits, JobProtocol, At, ThreadsStay, Closed
  <1>12. JobProtocol(u)'
    BY <1>8, <1>9, <1>10, <1>11 DEF JobProtocol, AnswerFits
  <1>13. Waiting(u)
    BY DEF LoseConnection
  <1> QED  BY <1>2, <1>3, <1>4, <1>6, <1>8, <1>9, <1>12, <1>13, OthersStay DEF Apart

LEMMA FinishInStep ==
    ASSUME ClientsTyped, HandlersTyped, ProtocolInv, NEW u \in Uploads, FinishStep(u)
    PROVE  /\ ClientsTyped' /\ HandlersTyped' /\ ProtocolInv' /\ Apart(u)
           /\ clients[u].attempt \in Attempts /\ ThreadsStay(u, clients[u].attempt)
           /\ Waiting(u) /\ ~Waiting(u)' /\ clients[u].result = None
           /\ clients[u].answer # None /\ clients'[u].answer = None
           /\ clients'[u].pc = "told" /\ clients'[u].attempt = clients[u].attempt
           /\ clients'[u].result =
                  (IF clients[u].answer.say \in {"dedup", "completed"} THEN "success" ELSE "failure")
           /\ Closed(handlers[u][clients[u].attempt], handlers'[u][clients[u].attempt])
  <1>1. clients[u] \in Jobs /\ JobProtocol(u) /\ clients[u].pc \in ConnectedPcs
    BY DEF ClientsTyped, ProtocolInv, FinishStep, Waiting, ConnectedPcs
  <1>2. PICK a \in Attempts : a = clients[u].attempt
    BY <1>1 DEF JobProtocol, JobFits
  <1>3. clients[u].result = None
    BY <1>1 DEF JobProtocol, JobFits
  <1>4. PICK result \in {"success", "failure"} :
            Finish(u, result) /\ (result = "success" <=> clients[u].answer.say \in {"dedup", "completed"})
    BY DEF FinishStep
  <1>5. handlers[u][a] \in Threads
    BY DEF HandlersTyped
  <1>6. /\ ClientsTyped' /\ HandlersTyped' /\ Apart(u) /\ ThreadsStay(u, a)
        /\ clients'[u].pc = "told" /\ clients'[u].result = result /\ clients'[u].answer = None
        /\ clients'[u].attempt = a
        /\ Closed(handlers[u][a], handlers'[u][a])
    BY <1>2, <1>4, <1>5, FinishIs, ClosedIs
  <1>7. ~Waiting(u)' /\ \A b \in Attempts : ~Live(u, b)'
    BY <1>6 DEF Waiting, Live
  <1>8. JobFits(u)'
    BY <1>1, <1>2, <1>4, <1>6, NoneIsNone
       DEF JobProtocol, JobFits, ConnectedPcs, At, Attempts, ThreadsStay
  <1>9. \A b \in Attempts : ThreadFits(handlers'[u][b])
    BY <1>1, <1>6 DEF ThreadFits, JobProtocol, At, ThreadsStay, Closed
  <1>10. JobProtocol(u)'
    BY <1>6, <1>7, <1>8, <1>9 DEF JobProtocol, AnswerFits
  <1>11. Waiting(u) /\ clients[u].answer # None
    BY DEF FinishStep
  <1> QED  BY <1>2, <1>3, <1>4, <1>6, <1>7, <1>10, <1>11, OthersStay

LEMMA AskInStep ==
    ASSUME ClientsTyped, HandlersTyped, ProtocolInv, NEW u \in Uploads, AskStep(u)
    PROVE  /\ ClientsTyped' /\ HandlersTyped' /\ ProtocolInv' /\ Apart(u)
           /\ clients[u].attempt \in Attempts /\ ThreadsStay(u, clients[u].attempt)
           /\ Waiting(u) /\ Waiting(u)' /\ clients[u].result = None /\ clients'[u].result = None
           /\ clients'[u].attempt = clients[u].attempt
           /\ clients[u].answer # None /\ clients'[u].answer = None
           /\ clients[u].answer.say \in {"ok", "open"}
           /\ clients'[u].pc = "sending" =>
                  clients[u].pc \in {"opening", "sending"} /\ clients'[u].todo \subseteq Remaining(u)
           /\ handlers'[u][clients[u].attempt].pc = handlers[u][clients[u].attempt].pc
           /\ handlers'[u][clients[u].attempt].end = handlers[u][clients[u].attempt].end
           /\ handlers'[u][clients[u].attempt].pc \in {"none", "ready", "gone"}
  <1>1. clients[u] \in Jobs /\ JobProtocol(u) /\ clients[u].pc \in ConnectedPcs
    BY DEF ClientsTyped, ProtocolInv, AskStep, Waiting, ConnectedPcs
  <1>2. PICK a \in Attempts : a = clients[u].attempt
    BY <1>1 DEF JobProtocol, JobFits
  <1>3. clients[u].result = None
    BY <1>1 DEF JobProtocol, JobFits
  <1>4. PICK pc \in ConnectedPcs, todo \in SUBSET Chunks, frame \in Frames :
            /\ Asking(pc, todo, frame)
            /\ pc = "sending" => clients[u].pc \in {"opening", "sending"} /\ todo \subseteq Remaining(u)
            /\ Ask(u, a, pc, todo, frame)
    BY <1>2 DEF AskStep
  <1>5. /\ ClientsTyped' /\ HandlersTyped' /\ Apart(u) /\ ThreadsStay(u, a)
        /\ clients'[u].pc = pc /\ clients'[u].todo = todo /\ clients'[u].answer = None
        /\ clients'[u].attempt = a /\ clients'[u].result = None
        /\ handlers'[u][a].pc = handlers[u][a].pc /\ handlers'[u][a].inbox = frame
        /\ handlers'[u][a].end = handlers[u][a].end
    BY <1>2, <1>3, <1>4, AskIs
  <1>6. Waiting(u) /\ clients[u].answer # None /\ clients[u].answer.say \in {"ok", "open"}
    BY DEF AskStep
  <1>7. InStep(u, a) /\ Live(u, a)
    BY <1>1, <1>2, <1>6 DEF JobProtocol, Live
  <1>8. handlers[u][a] \in Threads
    BY DEF HandlersTyped
  <1>9. handlers[u][a].pc \in {"none", "ready", "gone"}
    BY <1>6, <1>7, <1>8 DEF InStep, Threads, At
  <1>10. InStep(u, a)'
    BY <1>4, <1>5, <1>9 DEF InStep, At, Asking, Asked
  <1>11. \A b \in Attempts : Live(u, b)' => b = a
    BY <1>5 DEF Live
  <1>12. JobFits(u)'
    BY <1>1, <1>2, <1>4, <1>5, <1>9 DEF JobProtocol, JobFits, ConnectedPcs, At, Attempts, ThreadsStay
  <1>13. \A b \in Attempts : ThreadFits(handlers'[u][b])
    BY <1>1, <1>5, <1>9 DEF ThreadFits, JobProtocol, At, ThreadsStay
  <1>14. JobProtocol(u)'
    BY <1>5, <1>10, <1>11, <1>12, <1>13 DEF JobProtocol, AnswerFits
  <1>15. Waiting(u)'
    BY <1>4, <1>5 DEF Waiting, ConnectedPcs
  <1> QED  BY <1>2, <1>3, <1>4, <1>5, <1>6, <1>9, <1>14, <1>15, OthersStay


----
(***************************************************************************)
(* The steps of a handler thread, grouped the same way.                    *)
(***************************************************************************)
Says == {"error", "dedup", "open", "ok", "completed", "refused"}

\* The thread answers what it was asked, and waits for the next frame.
ReplyStep(u, a) ==
    /\ handlers[u][a].pc \in {"ready", "write", "complete", "refuse"}
    /\ \E say \in Says, missing \in SUBSET Chunks :
          /\ Reply(u, a, say, missing) /\ Resume(u, a)
          /\ say = "completed" <=> At(u, a, "complete")
          /\ Live(u, a) => /\ clients[u].answer = None
                           /\ say # "dedup" /\ Fits(clients[u].pc, say)

\* It answers and has a report to make.
ReportLater(u, a) ==
    \/ /\ Takes(u, a, "open") /\ ShaOf[u] \in index
       /\ Reply(u, a, "dedup", {})
       /\ handlers' = [handlers EXCEPT ![u][a] = Thread("notify")]
    \/ /\ At(u, a, "refuse")
       /\ Reply(u, a, "refused", {}) /\ Goto(u, a, "notify")

\* It works on, and its client hears nothing.
WorkStep(u, a) ==
    \/ NewChunk(u, a) \/ WriteFails(u, a) \/ BeginFinalize(u, a) \/ Commit(u, a) \/ Register(u, a)
    \/ Escape(u, a) \/ Report(u, a) \/ (\E end \in {"mismatch", "rejected", "io"} : Reject(u, a, end))
    \/ RefuseFails(u, a) \/ Notify(u, a)

\* A thread that is at work for a client that waits has something to do for it.
LEMMA ServedIs ==
    ASSUME ProtocolInv, NEW u \in Uploads, NEW a \in Attempts, Live(u, a)
    PROVE  InStep(u, a)
  BY DEF ProtocolInv, JobProtocol

LEMMA RepliesGiven ==
    ASSUME ClientsTyped, HandlersTyped, ProtocolInv, sessions \in [Uploads -> Sessions \cup {None}],
           NEW u \in Uploads, NEW a \in Attempts,
           \/ AnswerKeyExchange(u, a) \/ OpenRefused(u, a) \/ OpenSession(u, a)
           \/ RefuseChunk(u, a) \/ RepeatedChunk(u, a) \/ WriteChunk(u, a)
           \/ RefuseFinalize(u, a) \/ Complete(u, a) \/ OpenDuplicate(u, a) \/ Refuse(u, a)
    PROVE  ReplyStep(u, a) \/ ReportLater(u, a)
  <1> USE ServedIs DEF ReplyStep, Says, Takes, At, InStep, Asked, Fits
  <1>1. CASE AnswerKeyExchange(u, a)
    BY <1>1 DEF AnswerKeyExchange
  <1>2. CASE OpenRefused(u, a)
    BY <1>2 DEF OpenRefused
  <1>3. CASE OpenSession(u, a)
    <2>1. PICK missing \in SUBSET Chunks : Reply(u, a, "open", missing) /\ Resume(u, a)
      BY <1>3 DEF OpenSession
    <2> QED  BY <1>3, <2>1 DEF OpenSession
  <1>4. CASE RefuseChunk(u, a)
    BY <1>4 DEF RefuseChunk
  <1>5. CASE RepeatedChunk(u, a)
    BY <1>5 DEF RepeatedChunk, Acknowledge
  <1>6. CASE WriteChunk(u, a)
    BY <1>6 DEF WriteChunk, Acknowledge
  <1>7. CASE RefuseFinalize(u, a)
    BY <1>7 DEF RefuseFinalize
  <1>8. CASE Complete(u, a)
    BY <1>8 DEF Complete
  <1>9. CASE OpenDuplicate(u, a)
    BY <1>9 DEF OpenDuplicate, ReportLater
  <1>10. CASE Refuse(u, a)
    BY <1>10 DEF Refuse, ReportLater
  <1> QED  BY <1>1, <1>2, <1>3, <1>4, <1>5, <1>6, <1>7, <1>8, <1>9, <1>10

\* What a step of a thread must show for the job to stay in step.
LEMMA HandlerInStep ==
    ASSUME ClientsTyped, ProtocolInv, NEW u \in Uploads, NEW a \in Attempts,
           handlers[u][a].pc # "none", ThreadsStay(u, a), Apart(u),
           clients'[u].pc = clients[u].pc, clients'[u].attempt = clients[u].attempt,
           clients'[u].todo = clients[u].todo, clients'[u].result = clients[u].result,
           ThreadFits(handlers'[u][a]),
           IF Live(u, a) THEN AnswerFits(u)' /\ InStep(u, a)' ELSE clients'[u] = clients[u]
    PROVE  ProtocolInv'
  <1>1. JobProtocol(u) /\ clients[u] \in Jobs
    BY DEF ProtocolInv, ClientsTyped
  <1>2. Live(u, a) => clients[u].pc \in ConnectedPcs
    BY DEF Live, Waiting, ConnectedPcs
  <1>3. clients'[u].pc \notin ConnectedPcs => clients'[u].answer = None
    BY <1>1, <1>2 DEF JobProtocol, JobFits
  <1>4. JobFits(u)'
    BY <1>1, <1>3 DEF JobProtocol, JobFits, At, ThreadsStay, Attempts, Jobs
  <1>5. AnswerFits(u)'
    BY <1>1 DEF JobProtocol, AnswerFits
  <1>6. ASSUME NEW b \in Attempts, Live(u, b)'
        PROVE  InStep(u, b)'
    <2>1. Live(u, b)
      BY <1>6 DEF Live, Waiting
    <2>2. CASE b = a
      BY <2>1, <2>2
    <2>3. CASE b # a
      BY <1>1, <2>1, <2>3 DEF JobProtocol, InStep, Asked, At, Live, ThreadsStay
    <2> QED  BY <2>2, <2>3
  <1>7. \A b \in Attempts : ThreadFits(handlers'[u][b])
    BY <1>1 DEF JobProtocol, ThreadsStay
  <1> QED  BY <1>4, <1>5, <1>6, <1>7, OthersStay DEF JobProtocol

LEMMA ReplyInStep ==
    ASSUME ClientsTyped, HandlersTyped, ProtocolInv, NEW u \in Uploads, NEW a \in Attempts,
           ReplyStep(u, a)
    PROVE  /\ ClientsTyped' /\ HandlersTyped' /\ ProtocolInv' /\ Apart(u) /\ ThreadsStay(u, a)
           /\ clients'[u].pc = clients[u].pc /\ clients'[u].attempt = clients[u].attempt
           /\ clients'[u].todo = clients[u].todo /\ clients'[u].result = clients[u].result
           /\ handlers'[u][a].inbox = None
           /\ IF Live(u, a)
              THEN /\ clients[u].answer = None /\ clients'[u].answer # None
                   /\ clients'[u].answer.say # "dedup"
                   /\ clients'[u].answer.say = "completed" <=> At(u, a, "complete")
                   /\ handlers'[u][a].pc = "ready"
              ELSE clients' = clients /\ handlers'[u][a].pc = "gone"
  <1>1. PICK say \in Says, missing \in SUBSET Chunks :
            /\ Reply(u, a, say, missing) /\ Resume(u, a)
            /\ say = "completed" <=> At(u, a, "complete")
            /\ Live(u, a) => clients[u].answer = None /\ say # "dedup" /\ Fits(clients[u].pc, say)
    BY DEF ReplyStep
  <1>2. /\ ClientsTyped' /\ \A v \in Uploads \ {u} : clients'[v] = clients[v]
        /\ clients'[u].pc = clients[u].pc /\ clients'[u].attempt = clients[u].attempt
        /\ clients'[u].todo = clients[u].todo /\ clients'[u].result = clients[u].result
        /\ IF Live(u, a)
           THEN /\ clients'[u].answer # None
                /\ clients'[u].answer.say = say
           ELSE clients' = clients
    BY <1>1, ReplyIs DEF Says
  <1>3. /\ HandlersTyped' /\ ThreadsStay(u, a)
        /\ \A v \in Uploads \ {u} : handlers'[v] = handlers[v]
        /\ handlers'[u][a].pc = (IF Live(u, a) THEN "ready" ELSE "gone")
        /\ handlers'[u][a].inbox = None
    BY <1>1, ResumeIs
  <1>4. handlers[u][a].pc # "none" /\ ThreadFits(handlers'[u][a])
    BY <1>3 DEF ReplyStep, ThreadFits
  <1>5. Live(u, a) => AnswerFits(u)' /\ InStep(u, a)'
    BY <1>1, <1>2, <1>3 DEF AnswerFits, InStep, At
  <1> QED  BY <1>1, <1>2, <1>3, <1>4, <1>5, HandlerInStep DEF Apart

LEMMA ReportLaterInStep ==
    ASSUME ClientsTyped, HandlersTyped, ProtocolInv, NEW u \in Uploads, NEW a \in Attempts,
           ReportLater(u, a)
    PROVE  /\ ClientsTyped' /\ HandlersTyped' /\ ProtocolInv' /\ Apart(u) /\ ThreadsStay(u, a)
           /\ clients'[u].pc = clients[u].pc /\ clients'[u].attempt = clients[u].attempt
           /\ clients'[u].todo = clients[u].todo /\ clients'[u].result = clients[u].result
           /\ handlers[u][a].pc \in {"ready", "refuse"} /\ handlers'[u][a].pc = "notify"
           /\ handlers'[u][a].end = "ok" =>
                  /\ At(u, a, "ready") /\ handlers[u][a].inbox # None
                  /\ handlers[u][a].inbox.ask = "open" /\ ShaOf[u] \in index
           /\ IF Live(u, a)
              THEN /\ clients[u].answer = None /\ clients'[u].answer # None
                   /\ clients'[u].answer.say = IF handlers'[u][a].end = "ok" THEN "dedup" ELSE "refused"
              ELSE clients' = clients
  <1>1. PICK say \in {"dedup", "refused"} :
            /\ Reply(u, a, say, {})
            /\ say = "dedup" => /\ Takes(u, a, "open") /\ ShaOf[u] \in index
                                /\ handlers' = [handlers EXCEPT ![u][a] = Thread("notify")]
            /\ say = "refused" => At(u, a, "refuse") /\ Goto(u, a, "notify")
    BY DEF ReportLater
  <1>2. /\ ClientsTyped' /\ \A v \in Uploads \ {u} : clients'[v] = clients[v]
        /\ clients'[u].pc = clients[u].pc /\ clients'[u].attempt = clients[u].attempt
        /\ clients'[u].todo = clients[u].todo /\ clients'[u].result = clients[u].result
        /\ IF Live(u, a)
           THEN clients'[u].answer # None /\ clients'[u].answer.say = say
           ELSE clients' = clients
    BY <1>1, ReplyIs
  <1>3. /\ HandlersTyped' /\ ThreadsStay(u, a)
        /\ \A v \in Uploads \ {u} : handlers'[v] = handlers[v]
        /\ handlers'[u][a].pc = "notify" /\ (handlers'[u][a].end = "ok" <=> say = "dedup")
    <2>1. CASE say = "dedup"
      <3>1. handlers' = [handlers EXCEPT ![u][a] = Thread("notify")]
        BY <1>1, <2>1
      <3>2. /\ Thread("notify") \in Threads /\ Thread("notify").pc = "notify"
            /\ Thread("notify").end = "ok"
        BY ThreadIs DEF ThreadPcs
      <3> QED  BY <2>1, <3>1, <3>2, ThreadTurns, ZenonT(60)
    <2>2. CASE say = "refused"
      <3>1. Goto(u, a, "notify") /\ At(u, a, "refuse")
        BY <1>1, <2>2
      <3>2. handlers[u][a].end # "ok"
        BY <3>1 DEF At, ProtocolInv, JobProtocol, ThreadFits
      <3> QED  BY <2>2, <3>1, <3>2, GotoIs DEF ThreadPcs
    <2> QED  BY <2>1, <2>2
  <1>4. handlers[u][a].pc \in {"ready", "refuse"} /\ ThreadFits(handlers'[u][a])
    BY <1>1, <1>3 DEF ThreadFits, Takes, At
  <1>5. Live(u, a) => /\ clients[u].answer = None
                      /\ clients[u].pc = (IF say = "dedup" THEN "opening" ELSE "finalizing")
    BY <1>1, ServedIs DEF InStep, Asked, Takes, At
  <1>6. Live(u, a) => AnswerFits(u)' /\ InStep(u, a)'
    BY <1>1, <1>2, <1>3, <1>5 DEF AnswerFits, InStep, At, Fits
  <1>7. ProtocolInv'
    BY <1>2, <1>3, <1>4, <1>6, HandlerInStep DEF Apart
  <1> QED  BY <1>1, <1>2, <1>3, <1>4, <1>5, <1>7 DEF Apart, Takes, At


\* How a thread goes on.
Works(t, s) ==
    \/ /\ t.pc = "ready" /\ t.inbox # None /\ t.inbox.ask = "chunk"
       /\ s.pc = "write" /\ s.inbox = t.inbox
    \/ t.pc = "ready" /\ t.inbox # None /\ t.inbox.ask = "finalize" /\ s.pc = "work"
    \/ t.pc \in {"write", "work", "register"} /\ s.pc = "gone"
    \/ t.pc = "work" /\ s.pc = "register"
    \/ t.pc = "register" /\ s.pc = "report"
    \/ t.pc = "report" /\ s.pc = "complete"
    \/ t.pc = "work" /\ s.pc = "refuse" /\ s.end # "ok"
    \/ t.pc = "refuse" /\ s.pc = "gone"
    \/ t.pc = "notify" /\ s.pc \in {"ready", "gone"} /\ s.inbox = None

LEMMA SessionByIs ==
    ASSUME sessions \in [Uploads -> Sessions \cup {None}], NEW u \in Uploads, sessions[u] # None
    PROVE  sessions[u] \in Sessions /\ sessions[u].by \in 0 .. MaxAttempts
  <1>1. sessions[u] \in Sessions
    OBVIOUS
  <1>2. sessions[u].by \in Attempts
    BY <1>1 DEF Sessions
  <1> QED  BY <1>1, <1>2, UploadsAssumption DEF Attempts

LEMMA WorkIs ==
    ASSUME HandlersTyped, sessions \in [Uploads -> Sessions \cup {None}],
           NEW u \in Uploads, NEW a \in Attempts, WorkStep(u, a)
    PROVE  /\ clients' = clients /\ HandlersTyped' /\ Apart(u) /\ ThreadsStay(u, a)
           /\ Works(handlers[u][a], handlers'[u][a])
           /\ RefuseFails(u, a) => ~Live(u, a) /\ At(u, a, "refuse")
  <1>0. handlers[u][a] \in Threads
    BY DEF HandlersTyped
  <1>1. clients' = clients
    BY DEF WorkStep, NewChunk, WriteFails, BeginFinalize, Commit, Register, Escape, Report, Reject,
           RefuseFails, Notify
  <1>2. SUFFICES ASSUME TRUE
                 PROVE  /\ HandlersTyped' /\ ThreadsStay(u, a)
                        /\ \A v \in Uploads \ {u} : handlers'[v] = handlers[v]
                        /\ Works(handlers[u][a], handlers'[u][a])
    BY <1>1 DEF Apart, RefuseFails
  <1>3. CASE NewChunk(u, a)
    <2>1. PICK by : by = sessions[u].by
      OBVIOUS
    <2>2. by \in 0 .. MaxAttempts
      BY <1>3, <2>1, SessionByIs DEF NewChunk
    <2>3. PICK t : t = [handlers[u][a] EXCEPT !.pc = "write", !.by = by] /\ handlers' = [handlers EXCEPT ![u][a] = t]
      BY <1>3, <2>1 DEF NewChunk
    <2>4. t \in Threads /\ t.pc = "write" /\ t.inbox = handlers[u][a].inbox
      BY <1>0, <2>2, <2>3 DEF Threads
    <2>5. handlers' = [handlers EXCEPT ![u][a] = t]
      BY <2>3
    <2>6. Takes(u, a, "chunk")
      BY <1>3 DEF NewChunk
    <2>7. Works(handlers[u][a], t)
      BY <2>4, <2>6 DEF Takes, Works
    <2> QED  BY <2>4, <2>5, <2>7, ThreadTurns
  <1>4. CASE WriteFails(u, a)
    BY <1>4, ThreadTurns, ThreadIs DEF WriteFails, At, Works, ThreadPcs
  <1>5. CASE BeginFinalize(u, a)
    <2>1. PICK by : by = sessions[u].by
      OBVIOUS
    <2>2. by \in 0 .. MaxAttempts
      BY <1>5, <2>1, SessionByIs DEF BeginFinalize, MayFinalize
    <2>3. PICK t : t = [Thread("work") EXCEPT !.by = by] /\ handlers' = [handlers EXCEPT ![u][a] = t]
      BY <1>5, <2>1 DEF BeginFinalize
    <2>4. t \in Threads /\ t.pc = "work"
      <3>1. Thread("work") \in Threads /\ Thread("work").pc = "work"
        BY ThreadIs DEF ThreadPcs
      <3> QED  BY <2>2, <2>3, <3>1 DEF Threads
    <2>5. handlers' = [handlers EXCEPT ![u][a] = t]
      BY <2>3
    <2>6. Takes(u, a, "finalize")
      BY <1>5 DEF BeginFinalize
    <2>7. Works(handlers[u][a], t)
      BY <2>4, <2>6 DEF Takes, Works
    <2> QED  BY <2>4, <2>5, <2>7, ThreadTurns
  <1>6. CASE Commit(u, a)
    BY <1>6, GotoIs DEF Commit, At, Works, ThreadPcs
  <1>7. CASE Register(u, a)
    BY <1>7, GotoIs DEF Register, At, Works, ThreadPcs
  <1>8. CASE Report(u, a)
    BY <1>8, GotoIs DEF Report, At, Works, ThreadPcs
  <1>12. CASE Escape(u, a)
    <2>1. handlers' = [handlers EXCEPT ![u][a] = Thread("gone")] /\ handlers[u][a].pc \in {"work", "register"}
      BY <1>12 DEF Escape, At
    <2> QED  BY <2>1, ThreadTurns, ThreadIs DEF Works, ThreadPcs
  <1>9. ASSUME NEW end \in {"mismatch", "rejected", "io"}, Reject(u, a, end)
        PROVE  /\ HandlersTyped' /\ ThreadsStay(u, a)
               /\ \A v \in Uploads \ {u} : handlers'[v] = handlers[v]
               /\ Works(handlers[u][a], handlers'[u][a])
    <2>1. PICK t : t = [Thread("refuse") EXCEPT !.end = end] /\ handlers' = [handlers EXCEPT ![u][a] = t]
      BY <1>9 DEF Reject
    <2>2. t \in Threads /\ t.pc = "refuse" /\ t.end # "ok"
      <3>1. Thread("refuse") \in Threads /\ Thread("refuse").pc = "refuse"
        BY ThreadIs DEF ThreadPcs
      <3> QED  BY <2>1, <3>1 DEF Threads
    <2>3. handlers' = [handlers EXCEPT ![u][a] = t] /\ t \in Threads
      BY <2>1, <2>2
    <2>4. handlers[u][a].pc = "work"
      BY <1>9 DEF Reject, At
    <2>5. Works(handlers[u][a], t)
      BY <2>2, <2>4 DEF Works
    <2> QED  BY <2>3, <2>5, ThreadTurns
  <1>10. CASE RefuseFails(u, a)
    BY <1>10, ThreadTurns, ThreadIs DEF RefuseFails, At, Works, ThreadPcs
  <1>11. CASE Notify(u, a)
    BY <1>11, ResumeIs DEF Notify, At, Works
  <1> QED  BY <1>3, <1>4, <1>5, <1>6, <1>7, <1>8, <1>9, <1>10, <1>11, <1>12 DEF WorkStep

LEMMA WorkInStep ==
    ASSUME ClientsTyped, HandlersTyped, ProtocolInv, sessions \in [Uploads -> Sessions \cup {None}],
           NEW u \in Uploads, NEW a \in Attempts, WorkStep(u, a)
    PROVE  ProtocolInv'
  <1>1. /\ clients' = clients /\ Apart(u) /\ ThreadsStay(u, a) /\ HandlersTyped'
        /\ Works(handlers[u][a], handlers'[u][a])
    BY WorkIs
  <1>2. handlers[u][a].pc # "none" /\ ThreadFits(handlers'[u][a])
    BY <1>1 DEF Works, ThreadFits
  <1>3. Live(u, a) => InStep(u, a)
    BY ServedIs
  <1>4. Live(u, a) => InStep(u, a)'
    BY <1>1, <1>3 DEF Works, InStep, Asked, At
  <1>5. AnswerFits(u)'
    BY <1>1 DEF ProtocolInv, JobProtocol, AnswerFits
  <1> QED  BY <1>1, <1>2, <1>4, <1>5, HandlerInStep


----
(***************************************************************************)
(* Type correctness, and the protocol invariant in every step.             *)
(***************************************************************************)
SessionsTyped == sessions \in [Uploads -> Sessions \cup {None}]

RestTyped ==
    /\ stored \subseteq Shas /\ index \subseteq Shas
    /\ rows \in [Uploads -> {"none", "UPLOADING", "READY", "DELETED"}]
    /\ planned \in [Uploads -> Shas \cup {None}]
    /\ others \in [Shas -> {"none", "stored", "listed"}]
    /\ kept \in [Uploads -> SUBSET Chunks]
    /\ unsure \subseteq Uploads
    /\ excuse \in [Uploads -> Excuses \cup {None}]

LEMMA TypesAre ==
    /\ TypeOK <=> ClientsTyped /\ HandlersTyped /\ SessionsTyped /\ RestTyped
    /\ TypeOK' <=> ClientsTyped' /\ HandlersTyped' /\ SessionsTyped' /\ RestTyped'
  BY DEF TypeOK, ClientsTyped, HandlersTyped, SessionsTyped, RestTyped

LEMMA ChunkIs ==
    ASSUME HandlersTyped, NEW u \in Uploads, NEW a \in Attempts,
           handlers[u][a].inbox # None, handlers[u][a].inbox.ask = "chunk"
    PROVE  handlers[u][a].inbox.chunk \in Chunks
  <1>1. handlers[u][a].inbox \in Frames \cup {None}
    BY DEF HandlersTyped, Threads
  <1>2. handlers[u][a].inbox \in Frames
    BY <1>1
  <1> QED  BY <1>2 DEF Frames

\* What a session is after one of its fields changed.
LEMMA SessionTurns ==
    ASSUME SessionsTyped, NEW u \in Uploads, NEW s \in Sessions \cup {None},
           sessions' = [sessions EXCEPT ![u] = s]
    PROVE  /\ SessionsTyped' /\ sessions'[u] = s
           /\ \A v \in Uploads \ {u} : sessions'[v] = sessions[v]
  BY DEF SessionsTyped

LEMMA DropIs ==
    ASSUME SessionsTyped, kept \in [Uploads -> SUBSET Chunks], NEW u \in Uploads, Drop(u)
    PROVE  /\ SessionsTyped' /\ sessions'[u] = None
           /\ \A v \in Uploads \ {u} : sessions'[v] = sessions[v]
           /\ kept' \in [Uploads -> SUBSET Chunks] /\ kept'[u] = {}
           /\ \A v \in Uploads \ {u} : kept'[v] = kept[v]
  BY SessionTurns DEF Drop

LEMMA OpenedIs ==
    ASSUME SessionsTyped, NEW u \in Uploads, NEW a \in Attempts, OpenSession(u, a)
    PROVE  /\ SessionsTyped' /\ sessions'[u] \in Sessions
           /\ \A v \in Uploads \ {u} : sessions'[v] = sessions[v]
           /\ sessions[u] # None => sessions'[u] = sessions[u]
           /\ Reply(u, a, "open", Chunks \ sessions'[u].got)
  <1>1. PICK s : /\ s = IF sessions[u] # None THEN sessions[u]
                        ELSE [by |-> a, got |-> {}, finalizing |-> FALSE, dir |-> TRUE]
                 /\ sessions' = [sessions EXCEPT ![u] = s]
                 /\ Reply(u, a, "open", Chunks \ s.got)
    BY DEF OpenSession
  <1>2. s \in Sessions
    BY <1>1 DEF SessionsTyped, Sessions
  <1>3. sessions' = [sessions EXCEPT ![u] = s] /\ s \in Sessions \cup {None}
    BY <1>1, <1>2
  <1> QED  BY <1>1, <1>2, <1>3, SessionTurns

LEMMA WrittenIs ==
    ASSUME HandlersTyped, SessionsTyped, ProtocolInv, NEW u \in Uploads, NEW a \in Attempts,
           WriteChunk(u, a)
    PROVE  /\ SessionsTyped' /\ \A v \in Uploads \ {u} : sessions'[v] = sessions[v]
           /\ handlers[u][a].inbox.chunk \in Chunks
           /\ sessions[u] # None /\ sessions'[u] # None
           /\ sessions'[u].got = sessions[u].got \cup {handlers[u][a].inbox.chunk}
  <1>1. handlers[u][a].inbox.chunk \in Chunks
    BY ChunkIs DEF WriteChunk, At, ProtocolInv, JobProtocol, ThreadFits
  <1>2. sessions[u] \in Sessions /\ sessions[u] # None
    BY DEF WriteChunk, Mine, SessionsTyped
  <1>3. PICK s : /\ s = [sessions[u] EXCEPT !.got = sessions[u].got \cup {handlers[u][a].inbox.chunk}]
                 /\ sessions' = [sessions EXCEPT ![u] = s]
    BY DEF WriteChunk
  <1>4. s \in Sessions /\ s.got = sessions[u].got \cup {handlers[u][a].inbox.chunk}
    BY <1>1, <1>2, <1>3 DEF Sessions
  <1>5. s # None
    BY <1>4, NoneIsNone
  <1>6. sessions' = [sessions EXCEPT ![u] = s] /\ s \in Sessions \cup {None}
    BY <1>3, <1>4
  <1> QED  BY <1>1, <1>2, <1>4, <1>5, <1>6, SessionTurns

\* A flag of a session changes.
LEMMA FlagsAre ==
    ASSUME SessionsTyped, NEW u \in Uploads, NEW a \in Attempts, BeginFinalize(u, a) \/ Commit(u, a)
    PROVE  /\ SessionsTyped' /\ \A v \in Uploads \ {u} : sessions'[v] = sessions[v]
           /\ sessions[u] # None /\ sessions'[u] # None
           /\ sessions'[u].got = sessions[u].got
  <1>1. sessions[u] \in Sessions /\ sessions[u] # None
    BY DEF BeginFinalize, MayFinalize, Commit, Mine, SessionsTyped
  <1>2. PICK s : /\ \/ s = [sessions[u] EXCEPT !.finalizing = TRUE]
                    \/ s = [sessions[u] EXCEPT !.dir = FALSE]
                 /\ sessions' = [sessions EXCEPT ![u] = s]
    BY DEF BeginFinalize, Commit
  <1>3. s \in Sessions /\ s.got = sessions[u].got
    BY <1>1, <1>2 DEF Sessions
  <1>4. s # None
    BY <1>3, NoneIsNone
  <1>5. sessions' = [sessions EXCEPT ![u] = s] /\ s \in Sessions \cup {None}
    BY <1>2, <1>3
  <1> QED  BY <1>1, <1>3, <1>4, <1>5, SessionTurns

LEMMA RestartIs ==
    ASSUME HandlersTyped, SessionsTyped, RestTyped, Restart
    PROVE  /\ HandlersTyped' /\ SessionsTyped' /\ kept' \in [Uploads -> SUBSET Chunks]
           /\ excuse' \in [Uploads -> Excuses \cup {None}]
           /\ \A u \in Uploads, a \in Attempts :
                  IF At(u, a, "none") THEN handlers'[u][a] = handlers[u][a]
                  ELSE handlers'[u][a].pc = "gone"
           /\ \A u \in Uploads :
                  \/ sessions'[u] = None /\ kept'[u] = {}
                  \/ /\ sessions[u] # None /\ sessions'[u] # None
                     /\ sessions'[u].got = sessions[u].got /\ kept'[u] = kept[u]
           /\ \A u \in Uploads :
                  /\ excuse'[u] = excuse[u] \/ excuse'[u] # None
                  /\ (\E a \in Attempts : At(u, a, "notify") /\ handlers[u][a].end = "ok") => excuse'[u] # None
  <1>1. /\ handlers' = [u \in Uploads |-> [a \in Attempts |->
               IF At(u, a, "none") THEN handlers[u][a] ELSE Thread("gone")]]
        /\ Thread("gone") \in Threads /\ Thread("gone").pc = "gone"
    BY ThreadIs DEF Restart, ThreadPcs
  <1>2. /\ HandlersTyped'
        /\ \A u \in Uploads, a \in Attempts :
               IF At(u, a, "none") THEN handlers'[u][a] = handlers[u][a]
               ELSE handlers'[u][a].pc = "gone"
    BY <1>1 DEF HandlersTyped
  <1>3. PICK surviving \in SUBSET Uploads :
            surviving = {u \in Uploads : sessions[u] # None /\ sessions[u].dir}
    OBVIOUS
  <1>4. PICK resumed : resumed = [u \in Uploads |-> [sessions[u] EXCEPT !.finalizing = FALSE]]
    OBVIOUS
  <1>5. sessions' = [u \in Uploads |-> IF u \in surviving THEN resumed[u] ELSE None]
    BY <1>3, <1>4 DEF Restart
  <1>6. kept' = [u \in Uploads |-> IF u \in surviving THEN kept[u] ELSE {}]
    BY <1>3 DEF Restart
  <1>7. ASSUME NEW u \in surviving
        PROVE  resumed[u] \in Sessions /\ resumed[u] # None /\ resumed[u].got = sessions[u].got
    <2>1. sessions[u] \in Sessions
      BY <1>3, <1>7 DEF SessionsTyped
    <2>2. resumed[u] = [sessions[u] EXCEPT !.finalizing = FALSE]
      BY <1>4, <1>7
    <2>3. resumed[u] \in Sessions /\ resumed[u].got = sessions[u].got
      BY <2>1, <2>2 DEF Sessions
    <2> QED  BY <2>3, NoneIsNone
  <1>8. /\ SessionsTyped' /\ kept' \in [Uploads -> SUBSET Chunks]
        /\ \A u \in Uploads :
               \/ sessions'[u] = None /\ kept'[u] = {}
               \/ /\ sessions[u] # None /\ sessions'[u] # None
                  /\ sessions'[u].got = sessions[u].got /\ kept'[u] = kept[u]
    BY <1>3, <1>5, <1>6, <1>7 DEF SessionsTyped, RestTyped
  <1>9. /\ excuse' \in [Uploads -> Excuses \cup {None}]
        /\ \A u \in Uploads :
               /\ excuse'[u] = excuse[u] \/ excuse'[u] # None
               /\ (\E a \in Attempts : At(u, a, "notify") /\ handlers[u][a].end = "ok") => excuse'[u] # None
    BY NoneIsNone DEF Restart, RestTyped, Excuses
  <1> QED  BY <1>2, <1>8, <1>9


Unconnected(u) ==
    \/ OpenUploadDialog(u) \/ Plan(u) \/ PlanDeduplicated(u) \/ PlanFails(u)
    \/ ConnectFails(u) \/ ShowResult(u)

Reads(u) ==
    ReadKeyExchange(u) \/ ReadOpened(u) \/ ReadAcknowledged(u) \/ ReadFinalized(u) \/ GiveUp(u)

Replies(u, a) ==
    \/ AnswerKeyExchange(u, a) \/ OpenRefused(u, a) \/ OpenSession(u, a)
    \/ RefuseChunk(u, a) \/ RepeatedChunk(u, a) \/ WriteChunk(u, a)
    \/ RefuseFinalize(u, a) \/ Complete(u, a) \/ OpenDuplicate(u, a) \/ Refuse(u, a)

JobStep(u) == Unconnected(u) \/ Connect(u) \/ LoseConnection(u) \/ Reads(u) \/ Expire(u)

WorldStep ==
    \/ Restart \/ CleanupOrphanedUploads
    \/ \E s \in Shas : OtherUpload(s)
    \/ \E u \in Uploads : Remove(u)

LEMMA NextIs ==
    ASSUME Next
    PROVE  \/ \E u \in Uploads : JobStep(u)
           \/ \E u \in Uploads, a \in Attempts : Replies(u, a) \/ WorkStep(u, a)
           \/ WorldStep
  <1>1. ASSUME NEW u \in Uploads, OpenUploadDialog(u) \/ ClientStep(u) \/ Expire(u)
        PROVE  JobStep(u)
    BY <1>1 DEF ClientStep, JobStep, Unconnected, Reads
  <1>2. ASSUME NEW u \in Uploads, NEW a \in Attempts, HandlerStep(u, a)
        PROVE  Replies(u, a) \/ WorkStep(u, a)
    BY <1>2 DEF HandlerStep, Replies, WorkStep
  <1>3. ASSUME NEW u \in Uploads, Remove(u)
        PROVE  WorldStep
    BY <1>3 DEF WorldStep
  <1> QED  BY <1>1, <1>2, <1>3 DEF Next, WorldStep

\* What is on the node's disk, and what the coordinator keeps.
LEMMA JobStepRest ==
    ASSUME RestTyped, SessionsTyped, NEW u \in Uploads, JobStep(u)
    PROVE  RestTyped' /\ SessionsTyped'
  <1> USE DEF RestTyped, SessionsTyped
  <1>1. CASE Unconnected(u)
    BY <1>1 DEF Unconnected, OpenUploadDialog, Plan, PlanDeduplicated, PlanFails, ConnectFails,
                ShowResult, nodeVars
  <1>2. CASE Connect(u)
    BY <1>2 DEF Connect
  <1>3. CASE LoseConnection(u)
    BY <1>3 DEF LoseConnection
  <1>4. CASE Reads(u)
    BY <1>4 DEF Reads, ReadKeyExchange, ReadOpened, ReadAcknowledged, ReadFinalized, GiveUp
  <1>5. CASE Expire(u)
    BY <1>5, DropIs DEF Expire
  <1> QED  BY <1>1, <1>2, <1>3, <1>4, <1>5 DEF JobStep

LEMMA ReplyRest ==
    ASSUME RestTyped, SessionsTyped, HandlersTyped, ProtocolInv, NEW u \in Uploads, NEW a \in Attempts,
           Replies(u, a)
    PROVE  RestTyped' /\ SessionsTyped'
  <1>1. CASE \/ AnswerKeyExchange(u, a) \/ OpenRefused(u, a) \/ RefuseChunk(u, a)
             \/ RefuseFinalize(u, a) \/ Complete(u, a) \/ OpenDuplicate(u, a) \/ Refuse(u, a)
    BY <1>1 DEF AnswerKeyExchange, OpenRefused, RefuseChunk, RefuseFinalize, Complete, OpenDuplicate, Refuse,
                RestTyped, SessionsTyped
  <1>2. CASE OpenSession(u, a)
    <2>1. UNCHANGED <<planned, others, stored, index, rows, kept, unsure, excuse>>
      BY <1>2 DEF OpenSession
    <2> QED  BY <1>2, <2>1, OpenedIs DEF RestTyped
  <1>3. CASE RepeatedChunk(u, a)
    <2>1. handlers[u][a].inbox.chunk \in Chunks
      BY <1>3, ChunkIs DEF RepeatedChunk, Takes
    <2>2. kept' \in [Uploads -> SUBSET Chunks]
      BY <1>3, <2>1 DEF RepeatedChunk, Acknowledge, RestTyped
    <2>3. UNCHANGED <<planned, others, sessions, stored, index, rows, unsure, excuse>>
      BY <1>3 DEF RepeatedChunk
    <2> QED  BY <2>2, <2>3 DEF RestTyped, SessionsTyped
  <1>4. CASE WriteChunk(u, a)
    <2>1. handlers[u][a].inbox.chunk \in Chunks /\ SessionsTyped'
      BY <1>4, WrittenIs
    <2>2. kept' \in [Uploads -> SUBSET Chunks]
      BY <1>4, <2>1 DEF WriteChunk, Acknowledge, RestTyped
    <2>3. UNCHANGED <<planned, others, stored, index, rows, unsure, excuse>>
      BY <1>4 DEF WriteChunk
    <2> QED  BY <2>1, <2>2, <2>3 DEF RestTyped
  <1> QED  BY <1>1, <1>2, <1>3, <1>4 DEF Replies

LEMMA WorkRest ==
    ASSUME RestTyped, SessionsTyped, NEW u \in Uploads, NEW a \in Attempts, WorkStep(u, a)
    PROVE  RestTyped' /\ SessionsTyped'
  <1>0. ShaOf[u] \in Shas
    BY UploadsAssumption
  <1>1. CASE NewChunk(u, a) \/ WriteFails(u, a) \/ Register(u, a) \/ Escape(u, a) \/ Notify(u, a)
    BY <1>0, <1>1 DEF NewChunk, WriteFails, Register, Escape, Notify, ReportComplete, ReportFailed, Excuses,
                      RestTyped, SessionsTyped
  <1>2. CASE BeginFinalize(u, a)
    <2>1. UNCHANGED <<planned, others, stored, index, rows, kept, unsure, excuse>>
      BY <1>2 DEF BeginFinalize
    <2> QED  BY <1>2, <2>1, FlagsAre DEF RestTyped
  <1>3. CASE Commit(u, a)
    <2>1. UNCHANGED <<planned, others, index, rows, kept, unsure, excuse>> /\ stored' = stored \cup {ShaOf[u]}
      BY <1>3 DEF Commit
    <2> QED  BY <1>0, <1>3, <2>1, FlagsAre DEF RestTyped
  <1>4. CASE Report(u, a)
    <2>1. SessionsTyped' /\ kept' \in [Uploads -> SUBSET Chunks]
      BY <1>4, DropIs DEF Report, RestTyped
    <2>2. UNCHANGED <<planned, others, stored, index, unsure>> /\ ReportComplete(u)
      BY <1>4 DEF Report
    <2> QED  BY <2>1, <2>2 DEF RestTyped, ReportComplete, Excuses
  <1>5. ASSUME NEW end \in {"mismatch", "rejected", "io"}, Reject(u, a, end)
        PROVE  RestTyped' /\ SessionsTyped'
    <2>1. SessionsTyped' /\ kept' \in [Uploads -> SUBSET Chunks]
      BY <1>5, DropIs DEF Reject, RestTyped
    <2>2. /\ UNCHANGED <<planned, others, index, unsure>>
          /\ ReportFailed(u) \/ UNCHANGED <<rows, excuse>>
          /\ stored' = stored \/ stored' = stored \cup {ShaOf[u]}
      BY <1>5 DEF Reject
    <2> QED  BY <1>0, <2>1, <2>2 DEF RestTyped, ReportFailed, Excuses
  <1>6. CASE RefuseFails(u, a)
    <2>1. SessionsTyped' /\ kept' \in [Uploads -> SUBSET Chunks]
      BY <1>6, DropIs DEF RefuseFails, RestTyped, SessionsTyped
    <2>2. UNCHANGED <<planned, others, stored, index, rows, unsure, excuse>>
      BY <1>6 DEF RefuseFails
    <2> QED  BY <2>1, <2>2 DEF RestTyped
  <1> QED  BY <1>1, <1>2, <1>3, <1>4, <1>5, <1>6 DEF WorkStep

LEMMA WorldInStep ==
    ASSUME TypeOK, ProtocolInv, WorldStep
    PROVE  TypeOK' /\ ProtocolInv' /\ clients' = clients
  <1>0. ClientsTyped /\ HandlersTyped /\ SessionsTyped /\ RestTyped
    BY TypesAre
  <1>1. CASE Restart
    <2>1. /\ HandlersTyped' /\ SessionsTyped' /\ kept' \in [Uploads -> SUBSET Chunks]
          /\ excuse' \in [Uploads -> Excuses \cup {None}]
          /\ \A u \in Uploads, a \in Attempts :
                 IF At(u, a, "none") THEN handlers'[u][a] = handlers[u][a]
                 ELSE handlers'[u][a].pc = "gone"
      BY <1>0, <1>1, RestartIs
    <2>2. UNCHANGED <<planned, others, clients, stored, rows, unsure>> /\ index' \subseteq index
      BY <1>1 DEF Restart
    <2>3. RestTyped' /\ ClientsTyped'
      BY <1>0, <2>1, <2>2 DEF RestTyped, ClientsTyped
    <2>4. ASSUME NEW u \in Uploads
          PROVE  JobProtocol(u)'
      <3>1. JobProtocol(u)
        BY DEF ProtocolInv
      <3>2. JobFits(u)' /\ AnswerFits(u)'
        BY <2>1, <2>2, <3>1 DEF JobProtocol, JobFits, AnswerFits, At
      <3>3. \A a \in Attempts : handlers'[u][a].pc \in {"none", "gone"}
        BY <2>1 DEF At
      <3> QED  BY <3>2, <3>3 DEF JobProtocol, InStep, At, ThreadFits
    <2> QED  BY <2>1, <2>2, <2>3, <2>4, TypesAre DEF ProtocolInv
  <1>2. CASE CleanupOrphanedUploads
    <2>1. UNCHANGED <<clients, handlers, sessions>> /\ RestTyped'
      BY <1>0, <1>2 DEF CleanupOrphanedUploads, Orphans, RestTyped, nodeVars
    <2> QED  BY <1>0, <2>1, TypesAre, JobStays DEF ProtocolInv, ClientsTyped, HandlersTyped, SessionsTyped
  <1>3. ASSUME NEW s \in Shas, OtherUpload(s)
        PROVE  TypeOK' /\ ProtocolInv' /\ clients' = clients
    <2>1. UNCHANGED <<clients, handlers, sessions>> /\ RestTyped'
      BY <1>0, <1>3 DEF OtherUpload, RestTyped, nodeVars
    <2> QED  BY <1>0, <2>1, TypesAre, JobStays DEF ProtocolInv, ClientsTyped, HandlersTyped, SessionsTyped
  <1>4. ASSUME NEW u \in Uploads, Remove(u)
        PROVE  TypeOK' /\ ProtocolInv' /\ clients' = clients
    <2>1. UNCHANGED <<clients, handlers, sessions>> /\ RestTyped'
      BY <1>0, <1>4 DEF Remove, RestTyped, Excuses, nodeVars
    <2> QED  BY <1>0, <2>1, TypesAre, JobStays DEF ProtocolInv, ClientsTyped, HandlersTyped, SessionsTyped
  <1> QED  BY <1>1, <1>2, <1>3, <1>4 DEF WorldStep

LEMMA StepKeepsProtocol ==
    ASSUME TypeOK, ProtocolInv, Next
    PROVE  TypeOK' /\ ProtocolInv'
  <1>0. ClientsTyped /\ HandlersTyped /\ SessionsTyped /\ RestTyped
    BY TypesAre
  <1>1. ASSUME NEW u \in Uploads, JobStep(u)
        PROVE  ClientsTyped' /\ HandlersTyped' /\ ProtocolInv'
    <2>1. CASE Unconnected(u)
      BY <1>0, <2>1, UnconnectedInStep DEF Unconnected, HandlersTyped
    <2>2. CASE Connect(u) \/ LoseConnection(u)
      BY <1>0, <2>2, ConnectInStep, LossInStep
    <2>3. CASE Reads(u)
      BY <1>0, <2>3, AnswersRead, FinishInStep, AskInStep DEF Reads
    <2>4. CASE Expire(u)
      BY <1>0, <2>4, JobStays DEF Expire, ProtocolInv, ClientsTyped, HandlersTyped
    <2> QED  BY <1>1, <2>1, <2>2, <2>3, <2>4 DEF JobStep
  <1>2. ASSUME NEW u \in Uploads, NEW a \in Attempts, Replies(u, a)
        PROVE  ClientsTyped' /\ HandlersTyped' /\ ProtocolInv'
    <2>1. ReplyStep(u, a) \/ ReportLater(u, a)
      BY <1>0, <1>2, RepliesGiven DEF Replies, SessionsTyped
    <2> QED  BY <1>0, <2>1, ReplyInStep, ReportLaterInStep
  <1>3. ASSUME NEW u \in Uploads, NEW a \in Attempts, WorkStep(u, a)
        PROVE  ClientsTyped' /\ HandlersTyped' /\ ProtocolInv'
    BY <1>0, <1>3, WorkIs, WorkInStep DEF SessionsTyped, ClientsTyped
  <1>4. CASE WorldStep
    BY <1>4, WorldInStep
  <1> QED  BY <1>0, <1>1, <1>2, <1>3, <1>4, NextIs, JobStepRest, ReplyRest, WorkRest, TypesAre

LEMMA StutterKeepsProtocol ==
    ASSUME TypeOK, ProtocolInv, UNCHANGED vars
    PROVE  TypeOK' /\ ProtocolInv'
  BY JobStays DEF vars, nodeVars, TypeOK, ProtocolInv

LEMMA InitProtocol ==
    ASSUME Init
    PROVE  TypeOK /\ ProtocolInv
  <1>1. /\ Thread("none") \in Threads /\ Thread("none").pc = "none"
    BY ThreadIs DEF ThreadPcs
  <1>2. HandlersTyped /\ \A u \in Uploads, a \in Attempts : handlers[u][a].pc = "none"
    BY <1>1 DEF Init, HandlersTyped
  <1>3. PICK j : j = [pc |-> "idle", attempt |-> 0, todo |-> {}, answer |-> None, result |-> None]
    OBVIOUS
  <1>4. j \in Jobs /\ j.pc = "idle" /\ j.attempt = 0 /\ j.answer = None /\ j.result = None
    BY <1>3, UploadsAssumption DEF Jobs
  <1>5. clients = [u \in Uploads |-> j]
    BY <1>3 DEF Init
  <1>6. ClientsTyped /\ \A u \in Uploads : clients[u] = j
    BY <1>4, <1>5 DEF ClientsTyped
  <1>7. SessionsTyped /\ RestTyped
    BY DEF Init, SessionsTyped, RestTyped
  <1>8. ProtocolInv
    BY <1>2, <1>4, <1>6
       DEF ProtocolInv, JobProtocol, JobFits, AnswerFits, InStep, At, ConnectedPcs, ThreadFits, Attempts
  <1> QED  BY <1>2, <1>6, <1>7, <1>8, TypesAre

\* TypeOK, for any number of uploads, attempts and chunks.
THEOREM TypeCorrect == Spec => []TypeOK
  <1>1. TypeOK /\ ProtocolInv /\ [Next]_vars => TypeOK' /\ ProtocolInv'
    BY StepKeepsProtocol, StutterKeepsProtocol
  <1> QED  BY <1>1, InitProtocol, PTL DEF Spec


----
(***************************************************************************)
(* Whoever is told of a success has the file, and its row or an excuse.    *)
(***************************************************************************)
\* A job with a thread has an attempt.
LEMMA BusyIs ==
    ASSUME TypeOK, ProtocolInv, NEW u \in Uploads, NEW a \in Attempts, handlers[u][a].pc # "none"
    PROVE  clients[u].pc # "idle" /\ Content(u) = ShaOf[u]
  <1>1. JobFits(u) /\ ~At(u, a, "none")
    BY DEF ProtocolInv, JobProtocol, At
  <1>2. clients[u].attempt # 0
    BY <1>1 DEF JobFits, Attempts
  <1> QED  BY <1>1, <1>2 DEF JobFits, Content

LEMMA ContentStays ==
    ASSUME NEW u \in Uploads, UNCHANGED planned,
           \/ clients'[u].attempt = clients[u].attempt
           \/ clients[u].attempt \in Attempts /\ clients'[u].attempt \in Attempts
    PROVE  Content(u)' = Content(u)
  BY DEF Content, Attempts

LEMMA StoreOfOthers ==
    ASSUME StoreInv, NEW u \in Uploads, Apart(u), UNCHANGED others,
           stored \subseteq stored', index' \subseteq stored',
           \A v \in Uploads \ {u} : rows'[v] = rows[v] /\ planned'[v] = planned[v],
           rows'[u] = "READY" => planned'[u] \in stored' /\ clients'[u].pc # "idle",
           \A a \in Attempts : Committed(handlers'[u][a]) => ShaOf[u] \in stored'
    PROVE  StoreInv'
  BY DEF StoreInv, Apart

LEMMA HonestOfOthers ==
    ASSUME HonestInv, NEW u \in Uploads, Apart(u), stored \subseteq stored',
           \A v \in Uploads \ {u} :
               rows'[v] = rows[v] /\ excuse'[v] = excuse[v] /\ planned'[v] = planned[v],
           Claims(u)' => Honest(u)'
    PROVE  HonestInv'
  <1>1. ASSUME NEW v \in Uploads, v # u, Claims(v)'
        PROVE  Honest(v)'
    <2>1. clients'[v] = clients[v] /\ handlers'[v] = handlers[v]
      BY <1>1 DEF Apart
    <2>2. Claims(v)
      BY <1>1, <2>1 DEF Claims, At
    <2>3. Honest(v)
      BY <2>2 DEF HonestInv
    <2> QED  BY <1>1, <2>1, <2>3 DEF Honest, Content
  <1> QED  BY <1>1 DEF HonestInv

LEMMA UnconnectedHonest ==
    ASSUME TypeOK, ProtocolInv, StoreInv, HonestInv, NEW u \in Uploads, Unconnected(u)
    PROVE  StoreInv' /\ HonestInv'
  <1>0. ClientsTyped /\ RestTyped /\ JobProtocol(u) /\ clients[u] \in Jobs
    BY TypesAre DEF ProtocolInv, ClientsTyped
  <1>1. /\ Apart(u) /\ handlers' = handlers /\ clients'[u].answer = None
    BY <1>0, UnconnectedInStep DEF Unconnected
  <1>2. UNCHANGED <<others, stored, index, excuse>>
    BY DEF Unconnected, OpenUploadDialog, Plan, PlanDeduplicated, PlanFails, ConnectFails, ShowResult, nodeVars
  <1>3. \A v \in Uploads \ {u} : rows'[v] = rows[v] /\ planned'[v] = planned[v]
    BY <1>0 DEF Unconnected, OpenUploadDialog, Plan, PlanDeduplicated, PlanFails, ConnectFails, ShowResult, RestTyped
  <1>4. Duplicate(u) => planned[u] \in stored
    BY DEF Duplicate, StoreInv
  <1>5. CASE PlanDeduplicated(u)
    <2>1. rows'[u] = "READY" /\ planned' = planned /\ planned[u] \in stored
      BY <1>0, <1>4, <1>5 DEF PlanDeduplicated, RestTyped
    <2>2. clients'[u].pc = "told" /\ clients'[u].attempt = 0
      BY <1>0, <1>5, ToldIs DEF PlanDeduplicated, JobProtocol, JobFits
    <2>3. Honest(u)'
      BY <1>2, <2>1, <2>2 DEF Honest, Content
    <2> QED  BY <1>1, <1>2, <1>3, <2>1, <2>2, <2>3, StoreOfOthers, HonestOfOthers DEF StoreInv
  <1>6. CASE Plan(u) \/ PlanFails(u)
    <2>1. /\ rows'[u] = "READY" => rows[u] = "READY" \/ Duplicate(u)
          /\ planned' = planned
      BY <1>0, <1>6 DEF Plan, PlanFails, RestTyped
    <2>2. clients'[u].result # "success" /\ clients'[u].pc # "idle"
      <3>1. clients[u].pc = "planning" /\ clients[u].result = None
        BY <1>0, <1>6 DEF Plan, PlanFails, JobProtocol, JobFits
      <3>2. CASE Plan(u)
        <4>1. clients'[u].result = clients[u].result /\ clients'[u].pc = "connecting"
          BY <1>0, <3>2 DEF Plan, ClientsTyped, Jobs
        <4> QED  BY <3>1, <4>1, NoneIsNone
      <3>3. CASE PlanFails(u)
        BY <1>0, <3>3, ToldIs DEF PlanFails
      <3> QED  BY <1>6, <3>2, <3>3
    <2>3. \A a \in Attempts : At(u, a, "none")
      BY <1>0, <1>6 DEF Plan, PlanFails, JobProtocol, JobFits, Attempts
    <2>4. ~Claims(u)'
      BY <1>1, <2>2, <2>3 DEF Claims, At
    <2> QED  BY <1>1, <1>2, <1>3, <1>4, <2>1, <2>2, <2>4, StoreOfOthers, HonestOfOthers DEF StoreInv
  <1>7. CASE OpenUploadDialog(u)
    <2>1. clients[u].pc = "idle" /\ clients[u].result = None /\ rows' = rows
      BY <1>0, <1>7 DEF OpenUploadDialog, JobProtocol, JobFits
    <2>2. clients'[u].result = None
      BY <1>0, <1>7, <2>1 DEF OpenUploadDialog, ClientsTyped
    <2>3. \A a \in Attempts : At(u, a, "none")
      BY <1>0, <2>1 DEF JobProtocol, JobFits, Attempts
    <2>4. ~Claims(u)'
      BY <1>1, <2>2, <2>3, NoneIsNone DEF Claims, At
    <2>5. rows'[u] # "READY"
      BY <2>1 DEF StoreInv
    <2> QED  BY <1>1, <1>2, <1>3, <2>4, <2>5, StoreOfOthers, HonestOfOthers DEF StoreInv
  <1>8. CASE ConnectFails(u)
    <2>1. rows' = rows /\ planned' = planned /\ clients[u].attempt \in Attempts /\ clients[u].result = None
      BY <1>0, <1>8 DEF ConnectFails, JobProtocol, JobFits
    <2>2. /\ clients'[u].pc # "idle" /\ clients'[u].attempt \in Attempts
          /\ clients'[u].result \in {None, "failure"}
      BY <1>0, <1>8, <2>1, RetryIs, ToldIs DEF ConnectFails
    <2>3. Claims(u)' => Claims(u)
      BY <1>1, <2>2, NoneIsNone DEF Claims, At
    <2>4. Honest(u) => Honest(u)'
      BY <1>1, <1>2, <2>1, <2>2, ContentStays DEF Honest
    <2> QED  BY <1>1, <1>2, <1>3, <2>1, <2>2, <2>3, <2>4, StoreOfOthers, HonestOfOthers DEF StoreInv, HonestInv
  <1>9. CASE ShowResult(u)
    <2>1. rows' = rows /\ planned' = planned
      BY <1>9 DEF ShowResult
    <2>2. /\ clients'[u].pc = "shown" /\ clients'[u].attempt = clients[u].attempt
          /\ clients'[u].result = clients[u].result
      BY <1>0, <1>9 DEF ShowResult, ClientsTyped, Jobs
    <2>3. Claims(u)' => Claims(u)
      BY <1>1, <2>2 DEF Claims, At
    <2>4. Honest(u) => Honest(u)'
      BY <1>1, <1>2, <2>1, <2>2, ContentStays DEF Honest
    <2> QED  BY <1>1, <1>2, <1>3, <2>1, <2>2, <2>3, <2>4, StoreOfOthers, HonestOfOthers DEF StoreInv, HonestInv
  <1> QED  BY <1>5, <1>6, <1>7, <1>8, <1>9 DEF Unconnected

\* A step that leaves store, registry and rows alone, while no thread comes to
\* report a completion or forgets one, and nothing new is claimed.
LEMMA ConnectedHonest ==
    ASSUME TypeOK, StoreInv, HonestInv, NEW u \in Uploads, Apart(u),
           UNCHANGED <<planned, others, stored, index, rows, excuse>>,
           clients'[u].pc # "idle",
           \/ clients'[u].attempt = clients[u].attempt
           \/ clients[u].attempt \in Attempts /\ clients'[u].attempt \in Attempts,
           \A a \in Attempts :
               /\ Committed(handlers'[u][a]) => Committed(handlers[u][a])
               /\ Pending(handlers[u][a]) => Pending(handlers'[u][a]),
           Claims(u)' => Claims(u)
    PROVE  StoreInv' /\ HonestInv'
  <1>1. Honest(u) => Honest(u)'
    BY ContentStays DEF Honest
  <1> QED  BY <1>1, StoreOfOthers, HonestOfOthers DEF StoreInv, HonestInv

LEMMA JobStepHonest ==
    ASSUME TypeOK, ProtocolInv, StoreInv, HonestInv, NEW u \in Uploads, JobStep(u)
    PROVE  StoreInv' /\ HonestInv'
  <1>0. ClientsTyped /\ HandlersTyped
    BY TypesAre
  <1>1. CASE Unconnected(u)
    BY <1>1, UnconnectedHonest
  <1>2. CASE Connect(u)
    <2>1. UNCHANGED <<planned, others, stored, index, rows, excuse>>
      BY <1>2 DEF Connect
    <2> QED  BY <1>0, <1>2, <2>1, ConnectInStep, ConnectedHonest
             DEF Committed, Pending, Claims, At, ThreadsStay
  <1>3. CASE LoseConnection(u)
    <2>1. UNCHANGED <<planned, others, stored, index, rows, excuse>>
      BY <1>3 DEF LoseConnection
    <2> QED  BY <1>0, <1>3, <2>1, LossInStep, ConnectedHonest, NoneIsNone
             DEF Committed, Pending, Claims, At, ThreadsStay, Closed
  <1>4. CASE Reads(u)
    <2>1. (FinishStep(u) \/ AskStep(u)) /\ UNCHANGED dataVars
      BY <1>0, <1>4, AnswersRead DEF Reads
    <2>2. UNCHANGED <<planned, others, stored, index, rows, excuse>>
      BY <2>1 DEF dataVars
    <2>3. CASE FinishStep(u)
      BY <1>0, <2>2, <2>3, FinishInStep, ConnectedHonest
         DEF Committed, Pending, Claims, At, ThreadsStay, Closed
    <2>4. CASE AskStep(u)
      BY <1>0, <2>2, <2>4, AskInStep, ConnectedHonest, NoneIsNone
         DEF Committed, Pending, Claims, At, ThreadsStay, Waiting
    <2> QED  BY <2>1, <2>3, <2>4
  <1>5. CASE Expire(u)
    BY <1>5 DEF Expire, StoreInv, HonestInv, Claims, Honest, Content, At
  <1> QED  BY <1>1, <1>2, <1>3, <1>4, <1>5 DEF JobStep


LEMMA ReplyHonest ==
    ASSUME TypeOK, ProtocolInv, StoreInv, HonestInv, NEW u \in Uploads, NEW a \in Attempts,
           Replies(u, a)
    PROVE  StoreInv' /\ HonestInv'
  <1>0. ClientsTyped /\ HandlersTyped /\ SessionsTyped
    BY TypesAre
  <1>1. UNCHANGED <<planned, others, stored, index, rows, excuse>>
    BY DEF Replies, AnswerKeyExchange, OpenRefused, OpenSession, RefuseChunk, RepeatedChunk, WriteChunk,
           RefuseFinalize, Complete, OpenDuplicate, Refuse
  <1>2. ReplyStep(u, a) \/ ReportLater(u, a)
    BY <1>0, RepliesGiven DEF Replies, SessionsTyped
  <1>3. CASE ReplyStep(u, a)
    <2>1. handlers[u][a].pc \in {"ready", "write", "complete", "refuse"}
      BY <1>3 DEF ReplyStep
    <2>2. /\ Apart(u) /\ ThreadsStay(u, a) /\ handlers'[u][a].pc \in {"ready", "gone"}
          /\ clients'[u].result = clients[u].result /\ clients'[u].pc = clients[u].pc
          /\ clients'[u].attempt = clients[u].attempt
          /\ \/ clients'[u].answer = clients[u].answer
             \/ /\ clients'[u].answer.say # "dedup"
                /\ clients'[u].answer.say = "completed" <=> At(u, a, "complete")
      BY <1>0, <1>3, ReplyInStep
    <2>3. \A b \in Attempts :
              /\ Committed(handlers'[u][b]) => Committed(handlers[u][b])
              /\ Pending(handlers[u][b]) => Pending(handlers'[u][b])
      BY <2>1, <2>2 DEF Committed, Pending, ThreadsStay
    <2>4. Claims(u)' => Claims(u)
      BY <2>2 DEF Claims, At, ThreadsStay
    <2>5. clients'[u].pc # "idle"
      BY <2>1, <2>2, BusyIs
    <2> QED  BY <1>1, <2>2, <2>3, <2>4, <2>5, ConnectedHonest
  <1>4. CASE ReportLater(u, a)
    <2>1. /\ Apart(u) /\ ThreadsStay(u, a)
          /\ handlers[u][a].pc \in {"ready", "refuse"} /\ handlers'[u][a].pc = "notify"
          /\ handlers'[u][a].end = "ok" => ShaOf[u] \in index
          /\ clients'[u].result = clients[u].result /\ clients'[u].pc = clients[u].pc
          /\ clients'[u].attempt = clients[u].attempt
          /\ \/ clients'[u].answer = clients[u].answer
             \/ clients'[u].answer.say = IF handlers'[u][a].end = "ok" THEN "dedup" ELSE "refused"
      BY <1>0, <1>4, ReportLaterInStep
    <2>2. \A b \in Attempts :
              /\ Committed(handlers'[u][b]) => Committed(handlers[u][b]) \/ ShaOf[u] \in stored
              /\ Pending(handlers[u][b]) => Pending(handlers'[u][b])
      BY <2>1 DEF Committed, Pending, ThreadsStay, StoreInv
    <2>3. Claims(u)' => Claims(u) \/ (Pending(handlers'[u][a]) /\ ShaOf[u] \in stored)
      BY <2>1 DEF Claims, At, ThreadsStay, Pending, StoreInv
    <2>5. clients'[u].pc # "idle" /\ Content(u)' = Content(u) /\ Content(u) = ShaOf[u]
      BY <1>1, <2>1, BusyIs, ContentStays
    <2>4. Claims(u)' => Honest(u)'
      BY <1>1, <2>2, <2>3, <2>5 DEF Honest, HonestInv
    <2> QED  BY <1>1, <2>1, <2>2, <2>4, <2>5, StoreOfOthers, HonestOfOthers DEF StoreInv
  <1> QED  BY <1>2, <1>3, <1>4

LEMMA ReportedIs ==
    ASSUME RestTyped, NEW u \in Uploads, ReportComplete(u)
    PROVE  /\ rows'[u] = "READY" \/ excuse'[u] # None
           /\ rows'[u] = "READY" => rows[u] = "READY" \/ planned[u] = ShaOf[u]
           /\ \A v \in Uploads \ {u} : rows'[v] = rows[v] /\ excuse'[v] = excuse[v]
  BY NoneIsNone DEF ReportComplete, RestTyped, Excuses

LEMMA FailedIs ==
    ASSUME RestTyped, NEW u \in Uploads, ReportFailed(u) \/ UNCHANGED <<rows, excuse>>
    PROVE  /\ excuse'[u] = excuse[u] \/ excuse'[u] # None
           /\ rows'[u] \in {"DELETED", rows[u]}
           /\ rows[u] = "READY" => rows'[u] = "READY" \/ excuse'[u] # None
           /\ \A v \in Uploads \ {u} : rows'[v] = rows[v] /\ excuse'[v] = excuse[v]
  BY NoneIsNone DEF ReportFailed, RestTyped, Excuses

LEMMA WorkHonest ==
    ASSUME TypeOK, ProtocolInv, StoreInv, HonestInv, NEW u \in Uploads, NEW a \in Attempts,
           WorkStep(u, a)
    PROVE  StoreInv' /\ HonestInv'
  <1>0. HandlersTyped /\ SessionsTyped /\ RestTyped
    BY TypesAre
  <1>1. /\ clients' = clients /\ Apart(u) /\ ThreadsStay(u, a)
        /\ Works(handlers[u][a], handlers'[u][a])
    BY <1>0, WorkIs DEF SessionsTyped
  <1>6. /\ planned' = planned /\ clients'[u].pc # "idle"
        /\ Content(u)' = Content(u) /\ Content(u) = ShaOf[u]
    <2>1. planned' = planned
      BY DEF WorkStep, NewChunk, WriteFails, BeginFinalize, Commit, Register, Escape, Report, Reject,
             RefuseFails, Notify
    <2>2. handlers[u][a].pc # "none"
      BY <1>1 DEF Works
    <2> QED  BY <1>1, <2>1, <2>2, BusyIs, ContentStays
  <1>2. CASE NewChunk(u, a) \/ WriteFails(u, a) \/ BeginFinalize(u, a) \/ RefuseFails(u, a)
    <2>1. UNCHANGED <<planned, others, stored, index, rows, excuse>>
      BY <1>2 DEF NewChunk, WriteFails, BeginFinalize, RefuseFails
    <2>2. handlers[u][a].pc \in {"ready", "write", "refuse"}
      BY <1>2 DEF NewChunk, WriteFails, BeginFinalize, RefuseFails, Takes, At
    <2>3. \A b \in Attempts :
              /\ Committed(handlers'[u][b]) => Committed(handlers[u][b])
              /\ Pending(handlers[u][b]) => Pending(handlers'[u][b])
      BY <1>1, <2>2 DEF Committed, Pending, ThreadsStay, Works
    <2>4. Claims(u)' => Claims(u)
      BY <1>1, <2>2 DEF Claims, At, ThreadsStay, Works
    <2> QED  BY <1>1, <1>6, <2>1, <2>3, <2>4, ConnectedHonest
  <1>3. CASE Commit(u, a) \/ Register(u, a) \/ Escape(u, a)
    <2>1. handlers[u][a].pc \in {"work", "register"}
      BY <1>3 DEF Commit, Register, Escape, At
    <2>2. At(u, a, "register") => ShaOf[u] \in stored
      BY DEF StoreInv, Committed, At
    <2>3. UNCHANGED <<planned, others, rows, excuse>>
      BY <1>3 DEF Commit, Register, Escape
    <2>4. stored \subseteq stored' /\ index' \subseteq stored'
      BY <1>3, <2>2 DEF Commit, Register, Escape, StoreInv
    <2>8. \A b \in Attempts : Committed(handlers'[u][b]) => ShaOf[u] \in stored'
      <3>1. Committed(handlers'[u][a]) => ShaOf[u] \in stored'
        <4>1. CASE Commit(u, a)
          BY <4>1 DEF Commit
        <4>2. CASE Register(u, a)
          BY <2>2, <2>4, <4>2 DEF Register
        <4>3. CASE Escape(u, a)
          <5>1. handlers'[u][a] = Thread("gone")
            BY <1>0, <4>3 DEF Escape, HandlersTyped
          <5> QED  BY <5>1, ThreadIs DEF Committed, Pending, ThreadPcs
        <4> QED  BY <1>3, <4>1, <4>2, <4>3
      <3> QED  BY <1>1, <2>4, <3>1 DEF ThreadsStay, StoreInv
    <2>5. Claims(u)' => Claims(u)
      BY <1>1, <2>1 DEF Claims, At, ThreadsStay, Works
    <2>6. \A b \in Attempts : Pending(handlers[u][b]) => Pending(handlers'[u][b])
      BY <1>1, <2>1 DEF Pending, ThreadsStay
    <2>7. Honest(u) => Honest(u)'
      BY <1>6, <2>3, <2>4, <2>6 DEF Honest
    <2>9. rows'[u] = "READY" => planned'[u] \in stored'
      BY <2>3, <2>4 DEF StoreInv
    <2> QED  BY <1>1, <1>6, <2>3, <2>4, <2>5, <2>7, <2>8, <2>9, StoreOfOthers, HonestOfOthers DEF HonestInv
  <1>4. CASE Report(u, a) \/ (Notify(u, a) /\ handlers[u][a].end = "ok")
    <2>1. UNCHANGED <<planned, others, stored, index>> /\ ReportComplete(u) /\ Committed(handlers[u][a])
      BY <1>4 DEF Report, Notify, Committed, Pending, At
    <2>2. /\ rows'[u] = "READY" \/ excuse'[u] # None
          /\ rows'[u] = "READY" => rows[u] = "READY" \/ planned[u] = ShaOf[u]
          /\ \A v \in Uploads \ {u} : rows'[v] = rows[v] /\ excuse'[v] = excuse[v]
      BY <1>0, <2>1, ReportedIs
    <2>3. ShaOf[u] \in stored
      BY <2>1 DEF StoreInv
    <2>4. Honest(u)'
      BY <1>6, <2>1, <2>2, <2>3 DEF Honest
    <2> QED  BY <1>1, <1>6, <2>1, <2>2, <2>3, <2>4, StoreOfOthers, HonestOfOthers DEF StoreInv
  <1>5. CASE (\E end \in {"mismatch", "rejected", "io"} : Reject(u, a, end))
             \/ (Notify(u, a) /\ handlers[u][a].end # "ok")
    <2>1. /\ UNCHANGED <<planned, others, index>>
          /\ stored' = stored \/ stored' = stored \cup {ShaOf[u]}
          /\ ReportFailed(u) \/ UNCHANGED <<rows, excuse>>
          /\ handlers[u][a].pc = "work" \/ (handlers[u][a].pc = "notify" /\ handlers[u][a].end # "ok")
      BY <1>5 DEF Reject, Notify, At
    <2>2. /\ excuse'[u] = excuse[u] \/ excuse'[u] # None
          /\ rows'[u] \in {"DELETED", rows[u]}
          /\ rows[u] = "READY" => rows'[u] = "READY" \/ excuse'[u] # None
          /\ \A v \in Uploads \ {u} : rows'[v] = rows[v] /\ excuse'[v] = excuse[v]
      BY <1>0, <2>1, FailedIs
    <2>3. stored \subseteq stored' /\ index' \subseteq stored'
      BY <2>1 DEF StoreInv
    <2>4. \A b \in Attempts : /\ Pending(handlers[u][b]) => Pending(handlers'[u][b])
                              /\ Committed(handlers'[u][b]) => Committed(handlers[u][b]) \/ At(u, a, "work")
      BY <1>1, <2>1 DEF Pending, Committed, ThreadsStay, Works, At
    <2>5. Committed(handlers'[u][a]) => Committed(handlers[u][a])
      <3>1. handlers'[u][a].pc \in {"refuse", "ready", "gone"}
        <4>1. CASE Notify(u, a)
          BY <1>1, <4>1 DEF Notify, At, Works
        <4>2. ASSUME NEW end \in {"mismatch", "rejected", "io"}, Reject(u, a, end)
              PROVE  handlers'[u][a].pc \in {"refuse", "ready", "gone"}
          <5>1. PICK t : /\ t = [Thread("refuse") EXCEPT !.end = end]
                         /\ handlers' = [handlers EXCEPT ![u][a] = t]
            BY <4>2 DEF Reject
          <5>2. t.pc = "refuse"
            BY <5>1, ThreadIs DEF Threads, ThreadPcs
          <5>3. handlers'[u][a] = t
            BY <1>0, <5>1 DEF HandlersTyped
          <5> QED  BY <5>2, <5>3
        <4> QED  BY <1>5, <4>1, <4>2
      <3> QED  BY <3>1 DEF Committed, Pending
    <2>6. Claims(u)' => Claims(u)
      BY <1>1, <2>1 DEF Claims, At, ThreadsStay, Works
    <2>7. Honest(u) => Honest(u)'
      BY <1>6, <2>2, <2>3, <2>4 DEF Honest
    <2>8. \A b \in Attempts : Committed(handlers'[u][b]) => Committed(handlers[u][b])
      BY <1>1, <2>5 DEF ThreadsStay
    <2> QED  BY <1>1, <1>6, <2>1, <2>2, <2>3, <2>6, <2>7, <2>8, StoreOfOthers, HonestOfOthers DEF StoreInv, HonestInv
  <1> QED  BY <1>2, <1>3, <1>4, <1>5 DEF WorkStep

LEMMA WorldHonest ==
    ASSUME TypeOK, ProtocolInv, StoreInv, HonestInv, WorldStep
    PROVE  StoreInv' /\ HonestInv'
  <1>0. HandlersTyped /\ SessionsTyped /\ RestTyped /\ clients' = clients
    BY TypesAre, WorldInStep
  <1>1. CASE Restart
    <2>1. UNCHANGED <<planned, others, stored, rows>> /\ index' \subseteq index
      BY <1>1 DEF Restart
    <2>2. ASSUME NEW u \in Uploads
          PROVE  /\ \A a \in Attempts : handlers'[u][a] = handlers[u][a] \/ handlers'[u][a].pc = "gone"
                 /\ excuse'[u] = excuse[u] \/ excuse'[u] # None
                 /\ (\E a \in Attempts : Pending(handlers[u][a])) => excuse'[u] # None
      BY <1>0, <1>1, RestartIs DEF Pending, At
    <2>3. StoreInv'
      BY <1>0, <2>1, <2>2 DEF StoreInv, Committed, Pending
    <2>4. ASSUME NEW u \in Uploads
          PROVE  (Claims(u)' => Claims(u)) /\ (Honest(u) => Honest(u)')
      BY <1>0, <2>1, <2>2 DEF Claims, At, Honest, Content
    <2> QED  BY <2>3, <2>4 DEF HonestInv
  <1>2. CASE CleanupOrphanedUploads
    <2>1. UNCHANGED <<handlers, planned, others, stored, index, excuse>>
          /\ \A u \in Uploads : rows'[u] = "READY" <=> rows[u] = "READY"
      BY <1>2 DEF CleanupOrphanedUploads, Orphans, nodeVars
    <2> QED  BY <1>0, <2>1 DEF StoreInv, HonestInv, Claims, Honest, Content, At
  <1>3. ASSUME NEW s \in Shas, OtherUpload(s)
        PROVE  StoreInv' /\ HonestInv'
    <2>1. UNCHANGED <<handlers, rows, planned, excuse>> /\ stored \subseteq stored'
      BY <1>3 DEF OtherUpload, nodeVars
    <2>2. /\ index' \subseteq stored'
          /\ \A z \in Shas : others'[z] # "none" => z \in stored'
      BY <1>0, <1>3 DEF OtherUpload, StoreInv, RestTyped, nodeVars
    <2> QED  BY <1>0, <2>1, <2>2 DEF StoreInv, HonestInv, Claims, Honest, Content, At
  <1>4. ASSUME NEW u \in Uploads, Remove(u)
        PROVE  StoreInv' /\ HonestInv'
    <2>1. UNCHANGED <<handlers, planned, others, stored, index>>
      BY <1>4 DEF Remove, nodeVars
    <2>2. /\ \A v \in Uploads : rows'[v] = "READY" => rows[v] = "READY"
          /\ \A v \in Uploads \ {u} : rows'[v] = rows[v] /\ excuse'[v] = excuse[v]
          /\ excuse'[u] # None
      BY <1>0, <1>4, NoneIsNone DEF Remove, RestTyped, Excuses
    <2>3. StoreInv'
      BY <1>0, <2>1, <2>2 DEF StoreInv
    <2>4. ASSUME NEW v \in Uploads
          PROVE  (Claims(v)' => Claims(v)) /\ (Honest(v) => Honest(v)')
      BY <1>0, <2>1, <2>2 DEF Claims, At, Honest, Content
    <2> QED  BY <2>3, <2>4 DEF HonestInv
  <1> QED  BY <1>1, <1>2, <1>3, <1>4 DEF WorldStep

HonestyInv == TypeOK /\ ProtocolInv /\ StoreInv /\ HonestInv

LEMMA HonestyHolds == Spec => []HonestyInv
  <1>1. Init => HonestyInv
    <2> SUFFICES ASSUME Init PROVE HonestyInv
      OBVIOUS
    <2>1. \A u \in Uploads, a \in Attempts : handlers[u][a].pc = "none"
      BY ThreadIs DEF Init, ThreadPcs
    <2>2. \A u \in Uploads : clients[u].answer = None /\ clients[u].result = None
      BY DEF Init
    <2>3. StoreInv /\ HonestInv
      BY <2>1, <2>2, NoneIsNone DEF Init, StoreInv, HonestInv, Claims, Committed, Pending, At
    <2> QED  BY <2>3, InitProtocol DEF HonestyInv
  <1>2. HonestyInv /\ [Next]_vars => HonestyInv'
    <2>1. CASE UNCHANGED vars
      BY <2>1, StutterKeepsProtocol
         DEF HonestyInv, StoreInv, HonestInv, Claims, Honest, Content, At, vars, nodeVars
    <2>2. ASSUME HonestyInv, Next
          PROVE  HonestyInv'
      BY <2>2, NextIs, StepKeepsProtocol, JobStepHonest, ReplyHonest, WorkHonest, WorldHonest DEF HonestyInv
    <2> QED  BY <2>1, <2>2
  <1> QED  BY <1>1, <1>2, PTL DEF Spec

\* SuccessIsTrue: a user who is told of a success has the content in the store,
\* and the row is READY, about to be, or was lost for a reason on record.
THEOREM SuccessIsAlwaysTrue == Spec => []SuccessIsTrue
  <1>1. HonestyInv => SuccessIsTrue
    BY DEF HonestyInv, HonestInv, Claims, Honest, SuccessIsTrue, Pending, At
  <1> QED  BY <1>1, HonestyHolds, PTL


----
(***************************************************************************)
(* What was acknowledged is not sent again.                                *)
(***************************************************************************)
LEMMA KeptOfOthers ==
    ASSUME KeptInv, NEW u \in Uploads, Apart(u),
           \A v \in Uploads \ {u} : sessions'[v] = sessions[v] /\ kept'[v] = kept[v],
           KeptFits(u)'
    PROVE  KeptInv'
  <1>1. ASSUME NEW v \in Uploads, v # u
        PROVE  KeptFits(v)'
    <2>1. clients'[v] = clients[v] /\ sessions'[v] = sessions[v] /\ kept'[v] = kept[v] /\ KeptFits(v)
      BY <1>1 DEF Apart, KeptInv
    <2> QED  BY <2>1 DEF KeptFits
  <1> QED  BY <1>1 DEF KeptInv

\* A session that lost nothing, while the job and what it has stay.
LEMMA KeptWhileStill ==
    ASSUME NEW u \in Uploads, KeptFits(u), clients'[u] = clients[u],
           \/ sessions'[u] = sessions[u] /\ kept'[u] = kept[u]
           \/ /\ sessions[u] # None /\ sessions'[u] # None
              /\ sessions'[u].got = sessions[u].got /\ kept'[u] = kept[u]
           \/ kept'[u] = {}
    PROVE  KeptFits(u)'
  <1>1. CASE kept'[u] = {}
    BY <1>1 DEF KeptFits
  <1>2. CASE sessions'[u] = sessions[u] /\ kept'[u] = kept[u]
    BY <1>2 DEF KeptFits
  <1>3. CASE /\ sessions[u] # None /\ sessions'[u] # None
             /\ sessions'[u].got = sessions[u].got /\ kept'[u] = kept[u]
    BY <1>3 DEF KeptFits
  <1> QED  BY <1>1, <1>2, <1>3

LEMMA JobStepKept ==
    ASSUME TypeOK, ProtocolInv, KeptInv, NEW u \in Uploads, JobStep(u)
    PROVE  KeptInv'
  <1>0. ClientsTyped /\ HandlersTyped /\ SessionsTyped /\ RestTyped /\ KeptFits(u) /\ AnswerFits(u)
    BY TypesAre DEF KeptInv, ProtocolInv, JobProtocol
  <1>1. CASE Expire(u)
    <2>1. clients' = clients /\ handlers' = handlers /\ Drop(u)
      BY <1>1 DEF Expire
    <2>2. kept'[u] = {} /\ \A v \in Uploads \ {u} : sessions'[v] = sessions[v] /\ kept'[v] = kept[v]
      BY <1>0, <2>1, DropIs DEF RestTyped
    <2> QED  BY <1>0, <2>1, <2>2, KeptWhileStill, KeptOfOthers DEF Apart
  <1>2. CASE Unconnected(u) \/ Connect(u) \/ LoseConnection(u) \/ Reads(u)
    <2>1. UNCHANGED <<sessions, kept>>
      BY <1>2 DEF Unconnected, OpenUploadDialog, Plan, PlanDeduplicated, PlanFails, ConnectFails, ShowResult,
                  Connect, LoseConnection, Reads, ReadKeyExchange, ReadOpened, ReadAcknowledged,
                  ReadFinalized, GiveUp, nodeVars
    <2>2. CASE Unconnected(u) \/ Connect(u) \/ LoseConnection(u) \/ FinishStep(u)
      <3>1. Apart(u) /\ clients'[u].pc \notin {"opening", "sending"}
        BY <1>0, <2>2, UnconnectedInStep, ConnectInStep, LossInStep, FinishInStep
           DEF Unconnected, Waiting, ConnectedPcs
      <3>2. KeptFits(u)'
        BY <1>0, <2>1, <3>1 DEF KeptFits
      <3> QED  BY <2>1, <3>1, <3>2, KeptOfOthers
    <2>3. CASE AskStep(u)
      <3>1. /\ Apart(u) /\ clients'[u].answer = None
            /\ clients[u].answer # None /\ clients[u].answer.say \in {"ok", "open"}
            /\ clients'[u].pc = "sending" =>
                   clients[u].pc \in {"opening", "sending"} /\ clients'[u].todo \subseteq Remaining(u)
        BY <1>0, <2>3, AskInStep
      <3>2. clients[u].pc \in {"opening", "sending"} => Remaining(u) \cap kept[u] = {}
        <4>1. CASE clients[u].pc = "opening"
          <5>1. clients[u].answer.say = "open"
            BY <1>0, <3>1, <4>1 DEF AnswerFits, Fits
          <5> QED  BY <1>0, <3>1, <4>1, <5>1 DEF KeptFits, Remaining
        <4>2. CASE clients[u].pc = "sending"
          BY <1>0, <4>2 DEF KeptFits, Remaining
        <4> QED  BY <4>1, <4>2
      <3>3. KeptFits(u)'
        BY <1>0, <2>1, <3>1, <3>2 DEF KeptFits
      <3> QED  BY <2>1, <3>1, <3>3, KeptOfOthers
    <2> QED  BY <1>0, <1>2, <2>2, <2>3, AnswersRead DEF Reads
  <1> QED  BY <1>1, <1>2 DEF JobStep

\* An acknowledgement crosses the chunk off.
LEMMA AcknowledgedIs ==
    ASSUME TypeOK, ProtocolInv, KeptInv, NEW u \in Uploads, NEW a \in Attempts, NEW k \in Chunks,
           Acknowledge(u, a, k), Live(u, a) => clients[u].pc = "sending" /\ k = Smallest(clients[u].todo),
           Live(u, a) => clients[u].answer = None,
           sessions[u] # None, sessions'[u] # None, sessions[u].got \cup {k} = sessions'[u].got,
           \A v \in Uploads \ {u} : sessions'[v] = sessions[v]
    PROVE  KeptInv'
  <1>0. ClientsTyped /\ HandlersTyped /\ RestTyped /\ KeptFits(u)
    BY TypesAre DEF KeptInv
  <1>1. Reply(u, a, "ok", {}) /\ Resume(u, a)
    BY DEF Acknowledge
  <1>2. /\ \A v \in Uploads \ {u} : handlers'[v] = handlers[v] /\ clients'[v] = clients[v]
        /\ clients'[u].pc = clients[u].pc /\ clients'[u].todo = clients[u].todo
        /\ IF Live(u, a) THEN clients'[u].answer # None ELSE clients' = clients
    BY <1>0, <1>1, ReplyIs, ResumeIs
  <1>3. /\ kept'[u] = (IF Live(u, a) THEN kept[u] \cup {k} ELSE kept[u])
        /\ \A v \in Uploads \ {u} : kept'[v] = kept[v]
    BY <1>0 DEF Acknowledge, RestTyped
  <1>4. KeptFits(u)'
    <2>1. CASE Live(u, a)
      <3>1. clients[u].todo \cap kept[u] = {}
        BY <1>0, <2>1 DEF KeptFits
      <3>2. kept'[u] \subseteq sessions'[u].got
        BY <1>0, <1>3 DEF KeptFits
      <3> QED  BY <1>2, <1>3, <2>1, <3>1, <3>2 DEF KeptFits
    <2>2. CASE ~Live(u, a)
      BY <1>0, <1>2, <1>3, <2>2 DEF KeptFits
    <2> QED  BY <2>1, <2>2
  <1> QED  BY <1>2, <1>3, <1>4, KeptOfOthers DEF Apart

LEMMA ReplyKept ==
    ASSUME TypeOK, ProtocolInv, KeptInv, NEW u \in Uploads, NEW a \in Attempts, Replies(u, a)
    PROVE  KeptInv'
  <1>0. ClientsTyped /\ HandlersTyped /\ SessionsTyped /\ RestTyped /\ KeptFits(u)
    BY TypesAre DEF KeptInv
  <1>1. ReplyStep(u, a) \/ ReportLater(u, a)
    BY <1>0, RepliesGiven DEF Replies, SessionsTyped
  <1>2. /\ Apart(u)
        /\ clients'[u].pc = clients[u].pc /\ clients'[u].todo = clients[u].todo
        /\ IF Live(u, a) THEN clients[u].answer = None /\ clients'[u].answer # None
           ELSE clients' = clients
    BY <1>0, <1>1, ReplyInStep, ReportLaterInStep
  <1>3. CASE RepeatedChunk(u, a)
    <2>1. PICK k : k = handlers[u][a].inbox.chunk
      OBVIOUS
    <2>2. k \in Chunks
      BY <1>0, <1>3, <2>1, ChunkIs DEF RepeatedChunk, Takes
    <2>3. /\ Acknowledge(u, a, k) /\ sessions' = sessions
          /\ sessions[u] # None /\ k \in sessions[u].got /\ Takes(u, a, "chunk")
      BY <1>3, <2>1 DEF RepeatedChunk
    <2>4. Live(u, a) => clients[u].pc = "sending" /\ k = Smallest(clients[u].todo)
      BY <2>1, <2>3, ServedIs DEF InStep, Asked, Takes, At
    <2>5. sessions[u].got \cup {k} = sessions'[u].got
      BY <2>3
    <2> QED  BY <1>2, <2>2, <2>3, <2>4, <2>5, AcknowledgedIs
  <1>4. CASE WriteChunk(u, a)
    <2>1. PICK k : k = handlers[u][a].inbox.chunk
      OBVIOUS
    <2>2. /\ k \in Chunks /\ sessions[u] # None /\ sessions'[u] # None
          /\ sessions[u].got \cup {k} = sessions'[u].got
          /\ \A v \in Uploads \ {u} : sessions'[v] = sessions[v]
      BY <1>0, <1>4, <2>1, WrittenIs
    <2>3. Acknowledge(u, a, k) /\ At(u, a, "write")
      BY <1>4, <2>1 DEF WriteChunk
    <2>4. Live(u, a) => clients[u].pc = "sending" /\ k = Smallest(clients[u].todo)
      BY <2>1, <2>3, ServedIs DEF InStep
    <2> QED  BY <1>2, <2>2, <2>3, <2>4, AcknowledgedIs
  <1>5. CASE OpenSession(u, a)
    <2>1. /\ sessions'[u] \in Sessions /\ sessions'[u] # None
          /\ \A v \in Uploads \ {u} : sessions'[v] = sessions[v]
          /\ sessions[u] # None => sessions'[u] = sessions[u]
          /\ Reply(u, a, "open", Chunks \ sessions'[u].got)
      BY <1>0, <1>5, OpenedIs, NoneIsNone
    <2>2. kept' = kept /\ kept[u] \subseteq sessions'[u].got
      BY <1>0, <1>5, <2>1 DEF OpenSession, KeptFits
    <2>3. PICK missing \in SUBSET Chunks : missing = Chunks \ sessions'[u].got
      OBVIOUS
    <2>4. Live(u, a) => clients'[u].answer.missing = missing /\ clients'[u].pc = "opening"
      <3>1. Live(u, a) => clients'[u].answer.missing = missing
        BY <1>0, <2>1, <2>3, ReplyIs
      <3>2. Live(u, a) => clients[u].pc = "opening"
        BY <1>5, ServedIs DEF OpenSession, Takes, InStep, Asked, At
      <3> QED  BY <1>2, <3>1, <3>2
    <2>5. KeptFits(u)'
      <3>1. CASE Live(u, a)
        BY <2>1, <2>2, <2>3, <2>4, <3>1 DEF KeptFits
      <3>2. CASE ~Live(u, a)
        BY <1>0, <1>2, <2>1, <2>2, <3>2 DEF KeptFits
      <3> QED  BY <3>1, <3>2
    <2> QED  BY <1>2, <2>1, <2>2, <2>5, KeptOfOthers
  <1>6. CASE \/ AnswerKeyExchange(u, a) \/ OpenRefused(u, a) \/ RefuseChunk(u, a)
             \/ RefuseFinalize(u, a) \/ Complete(u, a) \/ OpenDuplicate(u, a) \/ Refuse(u, a)
    <2>1. UNCHANGED <<sessions, kept>>
      BY <1>6 DEF AnswerKeyExchange, OpenRefused, RefuseChunk, RefuseFinalize, Complete, OpenDuplicate, Refuse
    <2>2. \E say \in {"ok", "error", "refused", "completed", "dedup"} : Reply(u, a, say, {})
      BY <1>6 DEF AnswerKeyExchange, OpenRefused, RefuseChunk, RefuseFinalize, Complete, OpenDuplicate, Refuse
    <2>3. Live(u, a) => clients'[u].answer.say # "open"
      BY <1>0, <2>2, ReplyIs
    <2>4. KeptFits(u)'
      <3>1. CASE Live(u, a)
        BY <1>0, <1>2, <2>1, <2>3, <3>1 DEF KeptFits
      <3>2. CASE ~Live(u, a)
        BY <1>0, <1>2, <2>1, <3>2 DEF KeptFits
      <3> QED  BY <3>1, <3>2
    <2> QED  BY <1>2, <2>1, <2>4, KeptOfOthers
  <1> QED  BY <1>3, <1>4, <1>5, <1>6 DEF Replies

LEMMA WorkKept ==
    ASSUME TypeOK, ProtocolInv, KeptInv, NEW u \in Uploads, NEW a \in Attempts, WorkStep(u, a)
    PROVE  KeptInv'
  <1>0. HandlersTyped /\ SessionsTyped /\ RestTyped /\ KeptFits(u)
    BY TypesAre DEF KeptInv
  <1>1. clients' = clients /\ Apart(u)
    BY <1>0, WorkIs DEF SessionsTyped
  <1>2. CASE NewChunk(u, a) \/ WriteFails(u, a) \/ Register(u, a) \/ Escape(u, a) \/ Notify(u, a)
             \/ (RefuseFails(u, a) /\ UNCHANGED <<sessions, kept>>)
    <2>1. UNCHANGED <<sessions, kept>>
      BY <1>2 DEF NewChunk, WriteFails, Register, Escape, Notify
    <2> QED  BY <1>0, <1>1, <2>1, KeptWhileStill, KeptOfOthers
  <1>3. CASE BeginFinalize(u, a) \/ Commit(u, a)
    <2>1. kept' = kept
      BY <1>3 DEF BeginFinalize, Commit
    <2> QED  BY <1>0, <1>1, <1>3, <2>1, FlagsAre, KeptWhileStill, KeptOfOthers
  <1>4. CASE Drop(u)
    <2>1. kept'[u] = {} /\ \A v \in Uploads \ {u} : sessions'[v] = sessions[v] /\ kept'[v] = kept[v]
      BY <1>0, <1>4, DropIs DEF RestTyped
    <2> QED  BY <1>0, <1>1, <2>1, KeptWhileStill, KeptOfOthers
  <1>5. RefuseFails(u, a) => UNCHANGED <<sessions, kept>> \/ Drop(u)
    BY DEF RefuseFails
  <1>6. Report(u, a) \/ (\E end \in {"mismatch", "rejected", "io"} : Reject(u, a, end)) => Drop(u)
    BY DEF Report, Reject
  <1> QED  BY <1>2, <1>3, <1>4, <1>5, <1>6 DEF WorkStep

LEMMA WorldKept ==
    ASSUME TypeOK, ProtocolInv, KeptInv, WorldStep
    PROVE  KeptInv'
  <1>0. HandlersTyped /\ SessionsTyped /\ RestTyped /\ clients' = clients
    BY TypesAre, WorldInStep
  <1>1. CASE Restart
    BY <1>0, <1>1, RestartIs, KeptWhileStill DEF KeptInv
  <1>2. CASE \/ CleanupOrphanedUploads \/ \E s \in Shas : OtherUpload(s)
             \/ \E u \in Uploads : Remove(u)
    <2>1. UNCHANGED <<sessions, kept>>
      BY <1>2 DEF CleanupOrphanedUploads, OtherUpload, Remove, nodeVars
    <2> QED  BY <1>0, <2>1, KeptWhileStill DEF KeptInv
  <1> QED  BY <1>1, <1>2 DEF WorldStep

\* AcknowledgedStays: a resumed upload sends no chunk that was acknowledged in a
\* session that lives.
THEOREM AcknowledgedAlwaysStays == Spec => []AcknowledgedStays
  <1>1. Init => KeptInv
    BY DEF Init, KeptInv, KeptFits
  <1>2. TypeOK /\ ProtocolInv /\ KeptInv /\ [Next]_vars => KeptInv'
    <2>1. CASE UNCHANGED vars
      BY <2>1 DEF KeptInv, KeptFits, vars, nodeVars
    <2>2. ASSUME TypeOK, ProtocolInv, KeptInv, Next
          PROVE  KeptInv'
      BY <2>2, NextIs, JobStepKept, ReplyKept, WorkKept, WorldKept
    <2> QED  BY <2>1, <2>2
  <1>3. TypeOK /\ ProtocolInv /\ [Next]_vars => TypeOK' /\ ProtocolInv'
    BY StepKeepsProtocol, StutterKeepsProtocol
  <1>4. TypeOK /\ KeptInv => AcknowledgedStays
    BY DEF KeptInv, KeptFits, AcknowledgedStays
  <1> QED  BY <1>1, <1>2, <1>3, <1>4, InitProtocol, PTL DEF Spec


----
(***************************************************************************)
(* A failure that is told is one, but for the jobs that are unsure.        *)
(***************************************************************************)
LEMMA SureOfOthers ==
    ASSUME SureInv, NEW u \in Uploads, Apart(u), unsure \subseteq unsure',
           \A v \in Uploads \ {u} : rows'[v] = rows[v],
           u \notin unsure' => SureFits(u)'
    PROVE  SureInv'
  <1>1. ASSUME NEW v \in Uploads \ unsure', v # u
        PROVE  SureFits(v)'
    <2>1. clients'[v] = clients[v] /\ handlers'[v] = handlers[v] /\ rows'[v] = rows[v] /\ SureFits(v)
      BY <1>1 DEF Apart, SureInv
    <2> QED  BY <2>1 DEF SureFits, Harmless, Hears, Live, Waiting, At
  <1> QED  BY <1>1 DEF SureInv

LEMMA UnconnectedSure ==
    ASSUME TypeOK, ProtocolInv, SureInv, NEW u \in Uploads, Unconnected(u)
    PROVE  SureInv'
  <1>0. ClientsTyped /\ RestTyped /\ JobProtocol(u) /\ clients[u] \in Jobs
    BY TypesAre DEF ProtocolInv, ClientsTyped
  <1>1. Apart(u) /\ handlers' = handlers /\ clients'[u].pc \notin ConnectedPcs
    BY <1>0, UnconnectedInStep DEF Unconnected
  <1>2. /\ unsure \subseteq unsure' /\ \A v \in Uploads \ {u} : rows'[v] = rows[v]
        /\ clients[u].pc \notin ConnectedPcs
    BY <1>0 DEF Unconnected, OpenUploadDialog, Plan, PlanDeduplicated, PlanFails, ConnectFails, ShowResult,
                RestTyped, ConnectedPcs
  <1>3. /\ clients[u].result = "success" => clients'[u].result = "success"
        /\ rows'[u] = "READY" /\ u \notin unsure' => rows[u] = "READY" \/ clients'[u].result = "success"
    <2>1. CASE OpenUploadDialog(u) \/ ShowResult(u)
      <3>1. PICK j : /\ j = [clients[u] EXCEPT !.pc = "planning"] \/ j = [clients[u] EXCEPT !.pc = "shown"]
                     /\ clients' = [clients EXCEPT ![u] = j]
        BY <2>1 DEF OpenUploadDialog, ShowResult
      <3>2. j \in Jobs /\ j.result = clients[u].result
        BY <1>0, <3>1 DEF Jobs
      <3>3. clients' = [clients EXCEPT ![u] = j] /\ j \in Jobs
        BY <3>1, <3>2
      <3>4. clients'[u] = j /\ rows' = rows
        BY <1>0, <2>1, <3>3, JobTurns DEF OpenUploadDialog, ShowResult
      <3> QED  BY <3>2, <3>4
    <2>2. CASE PlanDeduplicated(u)
      BY <1>0, <2>2, ToldIs DEF PlanDeduplicated
    <2>3. CASE Plan(u) \/ PlanFails(u) \/ ConnectFails(u)
      <3>1. clients[u].result = None
        BY <1>0, <2>3 DEF Plan, PlanFails, ConnectFails, JobProtocol, JobFits
      <3>2. rows'[u] = "READY" /\ u \notin unsure' => rows[u] = "READY"
        BY <1>0, <2>3 DEF Plan, PlanFails, ConnectFails, RestTyped
      <3> QED  BY <3>1, <3>2, NoneIsNone
    <2> QED  BY <2>1, <2>2, <2>3 DEF Unconnected
  <1>4. ASSUME SureFits(u), u \notin unsure'
        PROVE  SureFits(u)'
    <2>1. \A a \in Attempts : ~Live(u, a)
      BY <1>2 DEF Live, Waiting, ConnectedPcs
    <2>2. rows[u] = "READY" => clients[u].result = "success"
      BY <1>2, <1>4 DEF SureFits, Hears, ConnectedPcs
    <2>3. \A a \in Attempts : Harmless(u, a)'
      BY <1>1, <1>3, <1>4, <2>1 DEF SureFits, Harmless, At
    <2> QED  BY <1>3, <1>4, <2>2, <2>3 DEF SureFits, Hears
  <1> QED  BY <1>1, <1>2, <1>4, SureOfOthers DEF SureInv

LEMMA ConnectSure ==
    ASSUME TypeOK, ProtocolInv, SureInv, NEW u \in Uploads, Connect(u)
    PROVE  SureInv'
  <1>0. ClientsTyped /\ HandlersTyped /\ JobProtocol(u)
    BY TypesAre DEF ProtocolInv
  <1>1. clients[u].pc = "connecting" /\ unsure' = unsure /\ rows' = rows /\ clients[u].result = None
    BY <1>0 DEF Connect, JobProtocol, JobFits
  <1>2. PICK a \in Attempts : a = clients[u].attempt
    BY <1>0, <1>1 DEF JobProtocol, JobFits
  <1>3. /\ Apart(u) /\ ThreadsStay(u, a) /\ clients'[u].attempt = a
        /\ clients'[u].result = clients[u].result /\ clients'[u].pc = "greeting"
    BY <1>0, <1>2, ConnectInStep
  <1>4. ASSUME SureFits(u)
        PROVE  SureFits(u)'
    <2>1. rows[u] # "READY"
      BY <1>1, <1>4, NoneIsNone DEF SureFits, Hears
    <2>2. ASSUME NEW b \in Attempts, ~Live(u, b)'
          PROVE  Harmless(u, b)'
      <3>1. b # a
        BY <1>3, <2>2 DEF Live, Waiting
      <3>2. Harmless(u, b)
        BY <1>1, <1>4 DEF SureFits, Live, Waiting
      <3> QED  BY <1>3, <3>1, <3>2 DEF Harmless, At, ThreadsStay
    <2> QED  BY <1>1, <2>1, <2>2 DEF SureFits
  <1> QED  BY <1>1, <1>3, <1>4, SureOfOthers DEF SureInv

LEMMA LossSure ==
    ASSUME TypeOK, ProtocolInv, SureInv, NEW u \in Uploads, LoseConnection(u)
    PROVE  SureInv'
  <1>0. ClientsTyped /\ HandlersTyped /\ JobProtocol(u)
    BY TypesAre DEF ProtocolInv
  <1>1. /\ unsure \subseteq unsure' /\ rows' = rows
        /\ u \notin unsure' => clients[u].pc \notin {"opening", "finalizing"} /\ u \notin unsure
    BY DEF LoseConnection
  <1>2. PICK a \in Attempts : a = clients[u].attempt
    BY <1>0, LossInStep
  <1>3. /\ Apart(u) /\ ThreadsStay(u, a) /\ Waiting(u) /\ ~Waiting(u)'
        /\ clients[u].result = None /\ Closed(handlers[u][a], handlers'[u][a])
    BY <1>0, <1>2, LossInStep
  <1>4. ASSUME SureFits(u), clients[u].pc \notin {"opening", "finalizing"}
        PROVE  SureFits(u)'
    <2>1. rows[u] # "READY"
      BY <1>3, <1>4, NoneIsNone DEF SureFits, Hears
    <2>2. InStep(u, a) /\ AnswerFits(u)
      BY <1>0, <1>2, <1>3 DEF JobProtocol, Live
    <2>3. handlers[u][a] \in Threads
      BY <1>0 DEF HandlersTyped
    <2>4. \/ handlers[u][a].pc \in {"none", "gone", "write"}
          \/ /\ handlers[u][a].pc = "ready"
             /\ handlers[u][a].inbox # None => handlers[u][a].inbox.ask \in {"hello", "key", "chunk"}
          \/ handlers[u][a].pc = "notify" /\ handlers[u][a].end # "ok"
      BY <1>4, <2>2, <2>3 DEF InStep, Asked, At, AnswerFits, Fits, Threads
    <2>5. Harmless(u, a)'
      BY <1>3, <2>4 DEF Harmless, At, Closed
    <2>6. ASSUME NEW b \in Attempts, b # a
          PROVE  Harmless(u, b)'
      <3>1. Harmless(u, b)
        BY <1>2, <1>4, <2>6 DEF SureFits, Live
      <3> QED  BY <1>3, <2>6, <3>1, NoneIsNone DEF Harmless, At, ThreadsStay
    <2> QED  BY <1>1, <2>1, <2>5, <2>6 DEF SureFits
  <1> QED  BY <1>1, <1>3, <1>4, SureOfOthers DEF SureInv

LEMMA FinishSure ==
    ASSUME TypeOK, ProtocolInv, SureInv, NEW u \in Uploads, FinishStep(u), UNCHANGED <<rows, unsure>>
    PROVE  SureInv'
  <1>0. ClientsTyped /\ HandlersTyped /\ JobProtocol(u)
    BY TypesAre DEF ProtocolInv
  <1>1. PICK a \in Attempts : a = clients[u].attempt
    BY <1>0, FinishInStep
  <1>2. /\ Apart(u) /\ ThreadsStay(u, a) /\ Waiting(u) /\ ~Waiting(u)' /\ clients[u].answer # None
        /\ clients[u].result = None /\ Closed(handlers[u][a], handlers'[u][a])
        /\ clients'[u].result =
               (IF clients[u].answer.say \in {"dedup", "completed"} THEN "success" ELSE "failure")
    BY <1>0, <1>1, FinishInStep
  <1>3. ASSUME SureFits(u)
        PROVE  SureFits(u)'
    <2>1. rows[u] = "READY" => clients'[u].result = "success"
      BY <1>2, <1>3, NoneIsNone DEF SureFits, Hears
    <2>2. InStep(u, a)
      BY <1>0, <1>1, <1>2 DEF JobProtocol, Live
    <2>3. handlers[u][a] \in Threads
      BY <1>0 DEF HandlersTyped
    <2>4. \/ handlers[u][a].pc \in {"none", "gone"}
          \/ handlers[u][a].pc = "ready" /\ handlers[u][a].inbox = None
          \/ handlers[u][a].pc = "notify" /\ (handlers[u][a].end = "ok" => clients'[u].result = "success")
      BY <1>2, <2>2, <2>3 DEF InStep, Asked, At, Threads
    <2>5. Harmless(u, a)'
      BY <1>2, <2>4 DEF Harmless, At, Closed
    <2>6. ASSUME NEW b \in Attempts, b # a
          PROVE  Harmless(u, b)'
      <3>1. Harmless(u, b)
        BY <1>1, <1>3, <2>6 DEF SureFits, Live
      <3> QED  BY <1>2, <2>6, <3>1, NoneIsNone DEF Harmless, At, ThreadsStay
    <2> QED  BY <2>1, <2>5, <2>6 DEF SureFits, Hears
  <1> QED  BY <1>2, <1>3, SureOfOthers DEF SureInv

LEMMA AskSure ==
    ASSUME TypeOK, ProtocolInv, SureInv, NEW u \in Uploads, AskStep(u), UNCHANGED <<rows, unsure>>
    PROVE  SureInv'
  <1>0. ClientsTyped /\ HandlersTyped /\ JobProtocol(u)
    BY TypesAre DEF ProtocolInv
  <1>1. PICK a \in Attempts : a = clients[u].attempt
    BY <1>0, AskInStep
  <1>2. /\ Apart(u) /\ ThreadsStay(u, a) /\ Waiting(u)' /\ clients[u].answer # None
        /\ clients[u].result = None /\ clients'[u].result = None
        /\ clients'[u].attempt = clients[u].attempt /\ clients[u].answer.say \in {"ok", "open"}
    BY <1>0, <1>1, AskInStep
  <1>3. ASSUME SureFits(u)
        PROVE  SureFits(u)'
    <2>1. rows[u] # "READY"
      BY <1>2, <1>3, NoneIsNone DEF SureFits, Hears
    <2>2. ASSUME NEW b \in Attempts, ~Live(u, b)'
          PROVE  Harmless(u, b)'
      <3>1. b # a
        BY <1>1, <1>2, <2>2 DEF Live
      <3>2. Harmless(u, b)
        BY <1>1, <1>3, <3>1 DEF SureFits, Live
      <3> QED  BY <1>2, <3>1, <3>2 DEF Harmless, At, ThreadsStay
    <2> QED  BY <2>1, <2>2 DEF SureFits
  <1> QED  BY <1>2, <1>3, SureOfOthers DEF SureInv

LEMMA JobStepSure ==
    ASSUME TypeOK, ProtocolInv, SureInv, NEW u \in Uploads, JobStep(u)
    PROVE  SureInv'
  <1>1. CASE Expire(u)
    BY <1>1 DEF Expire, SureInv, SureFits, Harmless, Hears, Live, Waiting, At
  <1>2. CASE Reads(u)
    <2>1. (FinishStep(u) \/ AskStep(u)) /\ UNCHANGED dataVars
      BY <1>2, TypesAre, AnswersRead DEF Reads
    <2>2. UNCHANGED <<rows, unsure>>
      BY <2>1 DEF dataVars
    <2> QED  BY <2>1, <2>2, FinishSure, AskSure
  <1> QED  BY <1>1, <1>2, UnconnectedSure, ConnectSure, LossSure DEF JobStep


LEMMA ReplySure ==
    ASSUME TypeOK, ProtocolInv, SureInv, NEW u \in Uploads, NEW a \in Attempts, Replies(u, a)
    PROVE  SureInv'
  <1>0. ClientsTyped /\ HandlersTyped /\ SessionsTyped
    BY TypesAre
  <1>1. UNCHANGED <<rows, unsure>>
    BY DEF Replies, AnswerKeyExchange, OpenRefused, OpenSession, RefuseChunk, RepeatedChunk, WriteChunk,
           RefuseFinalize, Complete, OpenDuplicate, Refuse
  <1>2. ReplyStep(u, a) \/ ReportLater(u, a)
    BY <1>0, RepliesGiven DEF Replies, SessionsTyped
  <1>3. /\ Apart(u) /\ ThreadsStay(u, a)
        /\ clients'[u].pc = clients[u].pc /\ clients'[u].attempt = clients[u].attempt
        /\ clients'[u].result = clients[u].result
        /\ handlers[u][a].pc \in {"ready", "write", "complete", "refuse"}
    BY <1>0, <1>2, ReplyInStep, ReportLaterInStep DEF ReplyStep
  <1>4. ASSUME SureFits(u)
        PROVE  SureFits(u)'
    <2>1. ASSUME NEW b \in Attempts, b # a, ~Live(u, b)'
          PROVE  Harmless(u, b)'
      <3>1. Harmless(u, b)
        BY <1>3, <1>4, <2>1 DEF SureFits, Live, Waiting
      <3> QED  BY <1>3, <2>1, <3>1 DEF Harmless, At, ThreadsStay
    <2>2. CASE ReplyStep(u, a)
      <3>1. /\ handlers'[u][a].pc \in {"ready", "gone"} /\ handlers'[u][a].inbox = None
            /\ IF Live(u, a)
               THEN /\ clients[u].answer = None /\ clients'[u].answer # None
                    /\ clients'[u].answer.say = "completed" <=> At(u, a, "complete")
               ELSE clients' = clients
        BY <1>0, <2>2, ReplyInStep
      <3>2. Harmless(u, a)'
        BY <3>1 DEF Harmless, At
      <3>3. Hears(u) => Hears(u)'
        <4>1. CASE Live(u, a)
          <5>1. Hears(u) => \/ clients[u].result = "success"
                            \/ clients[u].pc = "finalizing" /\ handlers[u][a].pc \in {"complete", "gone"}
            BY <3>1, <4>1 DEF Hears, Live
          <5> QED  BY <1>3, <3>1, <4>1, <5>1 DEF Hears, At
        <4>2. CASE ~Live(u, a)
          <5>1. clients[u].pc = "finalizing" /\ clients[u].attempt = a => FALSE
            BY <4>2 DEF Live, Waiting
          <5>2. clients'[u] = clients[u]
            BY <3>1, <4>2
          <5>3. ASSUME clients[u].pc = "finalizing", clients[u].answer = None,
                       handlers[u][clients[u].attempt].pc \in {"complete", "gone"}
                PROVE  handlers'[u][clients[u].attempt].pc \in {"complete", "gone"}
            <6>1. clients[u].attempt \in Attempts
              BY <5>3 DEF ProtocolInv, JobProtocol, JobFits, ConnectedPcs
            <6> QED  BY <1>3, <5>1, <5>3, <6>1 DEF ThreadsStay
          <5> QED  BY <5>2, <5>3 DEF Hears
        <4> QED  BY <4>1, <4>2
      <3> QED  BY <1>1, <1>4, <2>1, <3>2, <3>3 DEF SureFits
    <2>3. CASE ReportLater(u, a)
      <3>1. /\ handlers[u][a].pc \in {"ready", "refuse"}
            /\ At(u, a, "ready") => handlers[u][a].inbox # None /\ handlers[u][a].inbox.ask = "open"
        BY <2>3 DEF ReportLater, Takes, At
      <3>2. Live(u, a)
        BY <1>4, <3>1 DEF SureFits, Harmless, At
      <3>3. Live(u, a)' /\ clients[u].answer = None
        BY <1>0, <1>3, <2>3, <3>2, ReportLaterInStep DEF Live, Waiting
      <3>4. Hears(u) => Hears(u)'
        BY <1>3, <3>1, <3>2, <3>3 DEF Hears, Live
      <3> QED  BY <1>1, <1>4, <2>1, <3>3, <3>4 DEF SureFits
    <2> QED  BY <1>2, <2>2, <2>3
  <1> QED  BY <1>1, <1>3, <1>4, SureOfOthers DEF SureInv

LEMMA WorkSure ==
    ASSUME TypeOK, ProtocolInv, SureInv, NEW u \in Uploads, NEW a \in Attempts, WorkStep(u, a)
    PROVE  SureInv'
  <1>0. HandlersTyped /\ SessionsTyped /\ RestTyped
    BY TypesAre
  <1>1. /\ clients' = clients /\ Apart(u) /\ ThreadsStay(u, a)
        /\ Works(handlers[u][a], handlers'[u][a])
    BY <1>0, WorkIs DEF SessionsTyped
  <1>2. /\ unsure' = unsure /\ \A v \in Uploads \ {u} : rows'[v] = rows[v]
        /\ rows'[u] = "READY" => rows[u] = "READY" \/ At(u, a, "report")
                                 \/ (At(u, a, "notify") /\ handlers[u][a].end = "ok")
    BY <1>0 DEF WorkStep, NewChunk, WriteFails, BeginFinalize, Commit, Register, Escape, Report, Reject,
                RefuseFails, Notify, ReportComplete, ReportFailed, RestTyped
  <1>3. ASSUME SureFits(u)
        PROVE  SureFits(u)'
    <2>1. ASSUME NEW b \in Attempts, b # a, ~Live(u, b)'
          PROVE  Harmless(u, b)'
      <3>1. Harmless(u, b)
        BY <1>1, <1>3, <2>1 DEF SureFits, Live, Waiting
      <3> QED  BY <1>1, <2>1, <3>1 DEF Harmless, At, ThreadsStay
    <2>2. ~Live(u, a) => Harmless(u, a) /\ Harmless(u, a)'
      BY <1>1, <1>3 DEF SureFits, Harmless, At, Works
    <2>3. Live(u, a)' <=> Live(u, a)
      BY <1>1 DEF Live, Waiting
    <2>4. Hears(u) => Hears(u)'
      <3>1. ASSUME clients[u].pc = "finalizing", clients[u].answer = None,
                   handlers[u][clients[u].attempt].pc \in {"complete", "gone"}
            PROVE  handlers'[u][clients[u].attempt].pc \in {"complete", "gone"}
        <4>1. clients[u].attempt \in Attempts
          BY <3>1 DEF ProtocolInv, JobProtocol, JobFits, ConnectedPcs
        <4>2. clients[u].attempt # a
          BY <1>1, <3>1 DEF Works
        <4> QED  BY <1>1, <3>1, <4>1, <4>2 DEF ThreadsStay
      <3> QED  BY <1>1, <3>1 DEF Hears
    <2>5. CASE At(u, a, "report")
      <3>1. Live(u, a)
        BY <2>2, <2>5 DEF Harmless, At
      <3>2. clients[u].pc = "finalizing" /\ clients[u].answer = None
        BY <2>5, <3>1, ServedIs DEF InStep, At
      <3>3. clients[u].attempt = a /\ handlers'[u][a].pc = "complete"
        BY <1>1, <2>5, <3>1 DEF Live, Works, At
      <3> QED  BY <1>1, <2>1, <2>2, <2>3, <3>2, <3>3 DEF SureFits, Hears
    <2>6. CASE At(u, a, "notify") /\ handlers[u][a].end = "ok"
      <3>1. CASE Live(u, a)
        <4>1. clients[u].answer # None /\ clients[u].answer.say = "dedup"
          BY <2>6, <3>1, ServedIs DEF InStep
        <4>2. clients[u].pc = "opening"
          BY <4>1 DEF ProtocolInv, JobProtocol, AnswerFits, Fits
        <4> QED  BY <1>1, <2>1, <2>2, <2>3, <4>1, <4>2 DEF SureFits, Hears
      <3>2. CASE ~Live(u, a)
        <4>1. clients[u].result = "success"
          BY <2>2, <2>6, <3>2 DEF Harmless, At
        <4> QED  BY <1>1, <2>1, <2>2, <2>3, <4>1 DEF SureFits, Hears
      <3> QED  BY <3>1, <3>2
    <2>7. CASE ~At(u, a, "report") /\ ~(At(u, a, "notify") /\ handlers[u][a].end = "ok")
      BY <1>2, <1>3, <2>1, <2>2, <2>3, <2>4, <2>7 DEF SureFits
    <2> QED  BY <2>5, <2>6, <2>7
  <1> QED  BY <1>1, <1>2, <1>3, SureOfOthers DEF SureInv

LEMMA WorldSure ==
    ASSUME TypeOK, ProtocolInv, SureInv, WorldStep
    PROVE  SureInv'
  <1>0. HandlersTyped /\ SessionsTyped /\ RestTyped /\ clients' = clients
    BY TypesAre, WorldInStep
  <1>1. CASE Restart
    <2>1. rows' = rows /\ unsure' = unsure
      BY <1>1 DEF Restart
    <2>2. ASSUME NEW u \in Uploads, SureFits(u)
          PROVE  SureFits(u)'
      <3>1. \A a \in Attempts : IF At(u, a, "none") THEN handlers'[u][a] = handlers[u][a]
                                ELSE handlers'[u][a].pc = "gone"
        BY <1>0, <1>1, RestartIs
      <3>2. \A a \in Attempts : Harmless(u, a)'
        BY <3>1 DEF Harmless, At
      <3>3. ASSUME clients[u].pc = "finalizing", handlers[u][clients[u].attempt].pc \in {"complete", "gone"}
            PROVE  handlers'[u][clients[u].attempt].pc = "gone"
        <4>1. clients[u].attempt \in Attempts
          BY <3>3 DEF ProtocolInv, JobProtocol, JobFits, ConnectedPcs
        <4> QED  BY <3>1, <3>3, <4>1 DEF At
      <3> QED  BY <1>0, <2>1, <2>2, <3>2, <3>3 DEF SureFits, Hears
    <2> QED  BY <2>1, <2>2 DEF SureInv
  <1>2. CASE CleanupOrphanedUploads
    <2>1. UNCHANGED <<handlers, unsure>> /\ \A u \in Uploads : rows'[u] = "READY" <=> rows[u] = "READY"
      BY <1>2 DEF CleanupOrphanedUploads, Orphans, nodeVars
    <2> QED  BY <1>0, <2>1 DEF SureInv, SureFits, Harmless, Hears, Live, Waiting, At
  <1>3. CASE \E s \in Shas : OtherUpload(s)
    <2>1. UNCHANGED <<handlers, unsure, rows>>
      BY <1>3 DEF OtherUpload, nodeVars
    <2> QED  BY <1>0, <2>1 DEF SureInv, SureFits, Harmless, Hears, Live, Waiting, At
  <1>4. ASSUME NEW u \in Uploads, Remove(u)
        PROVE  SureInv'
    <2>1. UNCHANGED <<handlers, unsure>> /\ \A v \in Uploads : rows'[v] = "READY" => rows[v] = "READY"
      BY <1>0, <1>4 DEF Remove, RestTyped, nodeVars
    <2> QED  BY <1>0, <2>1 DEF SureInv, SureFits, Harmless, Hears, Live, Waiting, At
  <1> QED  BY <1>1, <1>2, <1>3, <1>4 DEF WorldStep

\* FailureExplained: whoever is told of a failure and finds the file in the list
\* lost a connection with OPEN_UPLOAD or FINALIZE_UPLOAD unanswered.
THEOREM FailureAlwaysExplained == Spec => []FailureExplained
  <1>1. Init => SureInv
    <2> SUFFICES ASSUME Init PROVE SureInv
      OBVIOUS
    <2>1. \A u \in Uploads, a \in Attempts : handlers[u][a].pc = "none"
      BY ThreadIs DEF Init, ThreadPcs
    <2> QED  BY <2>1 DEF Init, SureInv, SureFits, Harmless
  <1>2. TypeOK /\ ProtocolInv /\ SureInv /\ [Next]_vars => SureInv'
    <2>1. CASE UNCHANGED vars
      BY <2>1 DEF SureInv, SureFits, Harmless, Hears, Live, Waiting, At, vars, nodeVars
    <2>2. ASSUME TypeOK, ProtocolInv, SureInv, Next
          PROVE  SureInv'
      BY <2>2, NextIs, JobStepSure, ReplySure, WorkSure, WorldSure
    <2> QED  BY <2>1, <2>2
  <1>3. TypeOK /\ ProtocolInv /\ [Next]_vars => TypeOK' /\ ProtocolInv'
    BY StepKeepsProtocol, StutterKeepsProtocol
  <1>4. TypeOK /\ ProtocolInv /\ SureInv => FailureExplained
    <2> SUFFICES ASSUME TypeOK, ProtocolInv, SureInv, NEW u \in Uploads \ unsure,
                        clients[u].result = "failure", rows[u] = "READY"
                 PROVE  FALSE
      BY DEF FailureExplained
    <2>1. Hears(u) /\ JobFits(u)
      BY DEF SureInv, SureFits, ProtocolInv, JobProtocol
    <2>2. clients[u].pc \in {"opening", "finalizing"}
      BY <2>1 DEF Hears
    <2>3. clients[u].result = None
      BY <2>1, <2>2 DEF JobFits, ConnectedPcs
    <2> QED  BY <2>3, NoneIsNone
  <1> QED  BY <1>1, <1>2, <1>3, <1>4, InitProtocol, PTL DEF Spec

====
