---- MODULE Downloads ----
(***************************************************************************)
(* A desktop client downloads files to one path from a storage node, one   *)
(* job of the page, and its call of download_file, after another.  A call  *)
(* makes up to MaxAttempts connections and resumes at the whole chunks it  *)
(* finds in "<path>.part"; "<path>.part.json" says which content they are  *)
(* of.  On the node every connection has a handler thread, and             *)
(* OPEN_DOWNLOAD puts a new session object over the one the call had.      *)
(*                                                                         *)
(* Every call has a session id of its own, so that only the connections    *)
(* and the session of the last one are kept.  A connection is named by its *)
(* attempt, and so is the session object it opens.  A file is a sequence   *)
(* of chunks; a chunk is its content, its number and whether it is as it   *)
(* was uploaded.  completions, lost and misnamed are history.              *)
(***************************************************************************)
EXTENDS Integers, Sequences

CONSTANTS
    Contents,     \* what can be asked for, by SHA-256
    Size,         \* number of chunks of each content
    Even,         \* contents whose last chunk is as long as the others
    MaxCalls,     \* bound: calls of download_file
    MaxAttempts,  \* _max_attempts
    MaxFaults,    \* bound: crashes, restarts, expiries, failed writes
    None

ASSUME SizeAssumption ==
    /\ Size \in [Contents -> Nat] /\ Even \subseteq Contents
    /\ \E c \in Contents : \A d \in Contents : Size[d] <= Size[c]
ASSUME BoundsAssumption ==
    MaxCalls \in Nat /\ MaxAttempts \in Nat \ {0} /\ MaxFaults \in Nat

Conns == 1 .. MaxAttempts

MaxSize == CHOOSE n \in {Size[c] : c \in Contents} :
               \A c \in Contents : Size[c] <= n

Pieces  == Contents \X (1 .. MaxSize) \X BOOLEAN
ASSUME NoneAssumption ==
    None \notin Contents /\ None \notin Conns /\ None \notin Seq(Pieces)

Data(c) == [i \in 1 .. Size[c] |-> <<c, i, TRUE>>]

\* The last chunk of a content may be shorter than the others.
Short(p) == p[1] \notin Even /\ p[2] = Size[p[1]]

\* The chunks of full length that a content has.
FullChunks(c) == IF c \in Even THEN Size[c] ELSE Size[c] - 1

VARIABLES
    part,        \* chunks in "<path>.part", None if there is no such file
    meta,        \* content named by "<path>.part.json"
    target,      \* chunks in the file at the path
    call,        \* the call under way, and what it has got to
    calls,       \* calls made
    want,        \* content the last call is for
    up,          \* requests on their way to the node on each connection
    down,        \* answers on their way to the client on its connection
    stored,      \* state of each blob on the node
    session,     \* attempt that made the session object, or None
    sent,        \* chunks marked as sent in each session object
    handlers,    \* what the handler of each connection is doing
    completions, \* history: DOWNLOAD_COMPLETEs sent for each session object
    lost,        \* history: the session was removed under the call
    misnamed,    \* history: the sidecar could not be written
    faults

diskVars   == <<part, meta, target>>
callVars   == <<calls, want>>
nodeVars   == <<stored, session, sent, handlers, completions, lost>>
vars == <<diskVars, call, callVars, up, down, nodeVars, misnamed, faults>>

Call ==
    [pc : {"plan", "prepare", "label", "attempt", "connect", "opened", "chunk",
           "complete", "verify", "replace", "label gone"},
     attempt : 0 .. MaxAttempts,
     first : Nat, next : Nat, hashed : Seq(Pieces)]

Message ==
    [type : {"OPEN_DOWNLOAD_RESP", "DOWNLOAD_COMPLETE", "ERROR",
             "INVALID_SESSION"}]
    \cup [type : {"DOWNLOAD_CHUNK"}, piece : Pieces]

\* A request for a chunk is its number, and 0 is OPEN_DOWNLOAD.
Open == 0

Handler ==
    [pc : {"closed", "ready"}]
    \cup [pc : {"mark"}, object : Conns, chunk : 1 .. MaxSize]
    \cup [pc : {"complete", "remove"}, object : Conns]

TypeOK ==
    /\ part   \in Seq(Pieces) \cup {None}
    /\ meta   \in Contents \cup {None}
    /\ target \in Seq(Pieces) \cup {None}
    /\ call   \in Call \cup {None}
    /\ calls  \in 0 .. MaxCalls
    /\ want   \in Contents \cup {None}
    /\ up     \in [Conns -> Seq(0 .. MaxSize)]
    /\ down   \in Seq(Message)
    /\ stored \in [Contents -> {"intact", "rotten", "gone"}]
    /\ session  \in Conns \cup {None}
    /\ sent     \in [Conns -> SUBSET (1 .. MaxSize)]
    /\ handlers \in [Conns -> Handler]
    /\ completions \in [Conns -> Nat]
    /\ lost     \in BOOLEAN
    /\ misnamed \in BOOLEAN
    /\ faults   \in 0 .. MaxFaults

Closed == [pc |-> "closed"]
Ready  == [pc |-> "ready"]

Init ==
    /\ part = None /\ meta = None /\ target = None
    /\ call = None
    /\ calls = 0
    /\ want = None
    /\ up = [c \in Conns |-> <<>>]
    /\ down = <<>>
    /\ stored = [c \in Contents |-> "intact"]
    /\ session = None
    /\ sent = [c \in Conns |-> {}]
    /\ handlers = [c \in Conns |-> Closed]
    /\ completions = [c \in Conns |-> 0]
    /\ lost = FALSE
    /\ misnamed = FALSE
    /\ faults = 0

-----------------------------------------------------------------------------
At(pc) == call # None /\ call.pc = pc
Conn   == call.attempt      \* the connection of this attempt

Goto(pc) == call' = [call EXCEPT !.pc = pc]
Return   == call' = None

Fault ==
    /\ faults < MaxFaults
    /\ faults' = faults + 1

Type == IF down = <<>> THEN "nothing" ELSE Head(down).type

Send(r) == up' = [up EXCEPT ![Conn] = Append(@, r)]

-----------------------------------------------------------------------------
(* The client: what is left of an earlier call *)

NoSession ==
    /\ up' = [a \in Conns |-> <<>>]
    /\ session' = None
    /\ sent' = [a \in Conns |-> {}]
    /\ handlers' = [a \in Conns |-> Closed]
    /\ completions' = [a \in Conns |-> 0]
    /\ lost' = FALSE

\* The page starts a job for the file unless one is running.
StartDownload ==
    /\ call = None
    /\ calls < MaxCalls
    /\ calls' = calls + 1
    /\ call' = [pc |-> "plan", attempt |-> 0, first |-> 0, next |-> 0,
                hashed |-> <<>>]
    /\ UNCHANGED <<diskVars, want, up, down, nodeVars, misnamed, faults>>

\* No connection to the coordinator, or INIT_DOWNLOAD refused: the job ends.
InitDownloadFails ==
    /\ At("plan")
    /\ Return
    /\ UNCHANGED <<diskVars, callVars, up, down, nodeVars, misnamed, faults>>

\* With the plan for a content, and a session id of its own, download_file
\* begins.
DownloadFile(c) ==
    /\ At("plan")
    /\ want' = c
    /\ Goto("prepare")
    /\ NoSession
    /\ UNCHANGED <<diskVars, calls, down, stored, misnamed, faults>>

\* Mutant: the part is taken for this content's.
KeepsOtherPart ==
    /\ At("prepare")
    /\ Goto("label")
    /\ UNCHANGED <<diskVars, callVars, up, down, nodeVars, misnamed, faults>>

\* A part that is not known to be of this content is removed, and what named
\* it.
DropOtherPart ==
    /\ At("prepare")
    /\ IF part # None /\ meta # want
       THEN part' = None /\ meta' = None
       ELSE UNCHANGED <<part, meta>>
    /\ Goto("label")
    /\ UNCHANGED <<target, callVars, up, down, nodeVars, misnamed, faults>>

WriteSidecar ==
    /\ At("label")
    /\ meta' = want
    /\ Goto("attempt")
    /\ UNCHANGED <<part, target, callVars, up, down, nodeVars, misnamed,
                   faults>>

\* The OSError is passed over.
SidecarFails ==
    /\ At("label")
    /\ Fault
    /\ misnamed' = TRUE
    /\ Goto("attempt")
    /\ UNCHANGED <<diskVars, callVars, up, down, nodeVars>>

-----------------------------------------------------------------------------
(* The client: one attempt *)

\* Bytes short of a chunk are cut off.
Whole(p) ==
    IF p = None THEN <<>>
    ELSE IF p # <<>> /\ Short(p[Len(p)]) THEN SubSeq(p, 1, Len(p) - 1) ELSE p

BeginAttempt ==
    /\ At("attempt")
    /\ part' = IF part = None THEN None ELSE Whole(part)
    /\ call' = [call EXCEPT !.pc = "connect", !.attempt = @ + 1,
                            !.first = Len(Whole(part)),
                            !.hashed = Whole(part)]
    /\ UNCHANGED <<meta, target, callVars, up, down, nodeVars, misnamed,
                   faults>>

\* Connected, and OPEN_DOWNLOAD sent; the part is opened for appending.
Connect ==
    /\ At("connect")
    /\ part' = IF part = None THEN <<>> ELSE part
    /\ handlers' = [handlers EXCEPT ![Conn] = Ready]
    /\ Send(Open)
    /\ down' = <<>>
    /\ Goto("opened")
    /\ UNCHANGED <<meta, target, callVars, stored, session, sent, completions,
                   lost, misnamed, faults>>

\* The end of an attempt whose connection is lost, is refused, or times out.
\* What was written stays.  A name that is not resolved is final, and so is a
\* handshake that goes wrong.
TryAgain ==
    IF call.attempt < MaxAttempts THEN Goto("attempt") ELSE Return

Disconnected ==
    /\ call # None
    /\ call.pc \in {"connect", "opened", "chunk"}
    /\ \/ TryAgain
       \/ At("connect") /\ Return
    /\ down' = <<>>
    /\ UNCHANGED <<diskVars, callVars, up, nodeVars, misnamed, faults>>

\* An answer that is not the one awaited is a DataPlaneError, and final.
Awaited ==
    IF call.pc = "opened" THEN "OPEN_DOWNLOAD_RESP" ELSE "DOWNLOAD_CHUNK"

Rejected ==
    /\ call # None
    /\ call.pc \in {"opened", "chunk"}
    /\ Type \notin {"nothing", Awaited}
    /\ Return
    /\ down' = <<>>
    /\ UNCHANGED <<diskVars, callVars, up, nodeVars, misnamed, faults>>

\* A part longer than the file is emptied.  Then the first chunk is asked
\* for, unless the part is whole.
Opened ==
    LET oversized == call.first > FullChunks(want)
        first == IF oversized THEN 0 ELSE call.first
        whole == first = Size[want]
    IN  /\ At("opened")
        /\ Type = "OPEN_DOWNLOAD_RESP"
        /\ down' = <<>>
        /\ part' = IF oversized THEN <<>> ELSE part
        /\ call' = [call EXCEPT
                        !.pc = IF whole THEN "verify" ELSE "chunk",
                        !.first = first, !.next = first + 1,
                        !.hashed = IF oversized THEN <<>> ELSE @]
        /\ IF whole THEN UNCHANGED up ELSE Send(first + 1)
        /\ UNCHANGED <<meta, target, callVars, nodeVars, misnamed, faults>>

\* The chunk is appended and hashed, and the next one asked for.  After the
\* last one DOWNLOAD_COMPLETE is read, if all were asked for.
ReceiveChunk ==
    LET piece == Head(down).piece
        last  == call.next = Size[want]
    IN  /\ At("chunk")
        /\ Type = "DOWNLOAD_CHUNK"
        /\ down' = Tail(down)
        /\ part' = Append(part, piece)
        /\ call' = [call EXCEPT
                        !.hashed = Append(@, piece),
                        !.next = IF last THEN @ ELSE @ + 1,
                        !.pc = CASE ~last -> "chunk"
                                 [] last /\ call.first = 0 -> "complete"
                                 [] last /\ call.first # 0 -> "verify"]
        /\ IF last THEN UNCHANGED up ELSE Send(call.next + 1)
        /\ UNCHANGED <<meta, target, callVars, nodeVars, misnamed, faults>>

\* Mutant: the wait has no timeout.
AwaitsForever ==
    /\ At("complete")
    /\ down # <<>>
    /\ Goto("verify")
    /\ down' = <<>>
    /\ UNCHANGED <<diskVars, callVars, up, nodeVars, misnamed, faults>>

\* Whatever comes, or nothing within the timeout.
AwaitComplete ==
    /\ At("complete")
    /\ Goto("verify")
    /\ down' = <<>>
    /\ UNCHANGED <<diskVars, callVars, up, nodeVars, misnamed, faults>>

-----------------------------------------------------------------------------
(* The client: the end of a call *)

\* Mutant: the hash of the whole file is not compared.
SkipsVerify ==
    /\ At("verify")
    /\ Goto("replace")
    /\ UNCHANGED <<diskVars, callVars, up, down, nodeVars, misnamed, faults>>

Verify ==
    /\ At("verify")
    /\ IF call.hashed = Data(want)
       THEN Goto("replace") /\ UNCHANGED <<part, meta>>
       ELSE part' = None /\ meta' = None /\ Return
    /\ UNCHANGED <<target, callVars, up, down, nodeVars, misnamed, faults>>

Replace ==
    /\ At("replace")
    /\ target' = part
    /\ part' = None
    /\ Goto("label gone")
    /\ UNCHANGED <<meta, callVars, up, down, nodeVars, misnamed, faults>>

ReplaceFails ==
    /\ At("replace")
    /\ Fault
    /\ Return
    /\ UNCHANGED <<diskVars, callVars, up, down, nodeVars, misnamed>>

RemoveSidecar ==
    /\ At("label gone")
    /\ meta' = None
    /\ Return
    /\ UNCHANGED <<part, target, callVars, up, down, nodeVars, misnamed,
                   faults>>

\* The program ends, at any point of a call.
ClientCrash ==
    /\ call # None
    /\ Fault
    /\ Return
    /\ down' = <<>>
    /\ UNCHANGED <<diskVars, callVars, up, nodeVars, misnamed>>

-----------------------------------------------------------------------------
(* The node.  A request that was sent is handled even when the client has   *)
(* left the connection in the meantime.                                     *)

Current(c) ==
    /\ call # None
    /\ c = Conn
    /\ call.pc \in {"opened", "chunk", "complete"}

Answer(c, m)  == down' = IF Current(c) THEN Append(down, m) ELSE down
Become(c, h)  == handlers' = [handlers EXCEPT ![c] = h]

Take(c, r) ==
    /\ handlers[c] = Ready
    /\ up[c] # <<>>
    /\ Head(up[c]) = r
    /\ up' = [up EXCEPT ![c] = Tail(@)]

\* handleOpenDownload.  The ticket is good: a bad one is answered like a file
\* that is not there.
OpenDownload(c) ==
    /\ Take(c, Open)
    /\ stored[want] # "gone"
    /\ session' = c
    /\ Answer(c, [type |-> "OPEN_DOWNLOAD_RESP"])
    /\ UNCHANGED <<diskVars, call, callVars, stored, sent, handlers,
                   completions, lost, misnamed, faults>>

OpenFails(c) ==
    /\ Take(c, Open)
    /\ Answer(c, [type |-> "ERROR"])
    /\ UNCHANGED <<diskVars, call, callVars, nodeVars, misnamed, faults>>

\* handleRequestChunk, up to the sending of the chunk.
SendChunk(c, i) ==
    LET piece == <<want, i, stored[want] = "intact">>
    IN  /\ Take(c, i)
        /\ session # None
        /\ stored[want] # "gone"
        /\ Answer(c, [type |-> "DOWNLOAD_CHUNK", piece |-> piece])
        /\ Become(c, [pc |-> "mark", object |-> session, chunk |-> i])
        /\ UNCHANGED <<diskVars, call, callVars, stored, session, sent,
                       completions, lost, misnamed, faults>>

RequestFails(c, i) ==
    /\ Take(c, i)
    /\ \/ session = None /\ Answer(c, [type |-> "INVALID_SESSION"])
       \/ session # None /\ stored[want] = "gone"
          /\ Answer(c, [type |-> "ERROR"])
    /\ UNCHANGED <<diskVars, call, callVars, nodeVars, misnamed, faults>>

\* Mutant: the mark and the test are there, the edge is not.
MarkWithoutEdge(c) ==
    LET h == handlers[c]
        o == h.object
    IN  /\ h.pc = "mark"
        /\ sent' = [sent EXCEPT ![o] = @ \cup {h.chunk}]
        /\ Become(c, IF sent'[o] = 1 .. Size[want]
                     THEN [pc |-> "complete", object |-> h.object] ELSE Ready)
        /\ UNCHANGED <<diskVars, call, callVars, up, down, stored, session,
                       completions, lost, misnamed, faults>>

\* Mutant: off by one.
CompletesEarly(c) ==
    LET h == handlers[c]
        o == h.object
        all == 1 .. Size[want] - 1
    IN  /\ h.pc = "mark"
        /\ sent' = [sent EXCEPT ![o] = @ \cup {h.chunk}]
        /\ Become(c, IF ~(all \subseteq sent[o]) /\ all \subseteq sent'[o]
                     THEN [pc |-> "complete", object |-> h.object] ELSE Ready)
        /\ UNCHANGED <<diskVars, call, callVars, up, down, stored, session,
                       completions, lost, misnamed, faults>>

\* markChunkSentAndCheckJustCompleted, on the object looked up before.
MarkChunkSent(c) ==
    LET h == handlers[c]
        o == h.object
        all == 1 .. Size[want]
    IN  /\ h.pc = "mark"
        /\ sent' = [sent EXCEPT ![o] = @ \cup {h.chunk}]
        /\ Become(c, IF sent[o] # all /\ sent'[o] = all
                     THEN [pc |-> "complete", object |-> h.object] ELSE Ready)
        /\ UNCHANGED <<diskVars, call, callVars, up, down, stored, session,
                       completions, lost, misnamed, faults>>

SendComplete(c) ==
    LET h == handlers[c]
    IN  /\ h.pc = "complete"
        /\ Answer(c, [type |-> "DOWNLOAD_COMPLETE"])
        /\ completions' = [completions EXCEPT ![h.object] = @ + 1]
        /\ Become(c, [pc |-> "remove", object |-> h.object])
        /\ UNCHANGED <<diskVars, call, callVars, up, stored, session, sent,
                       lost, misnamed, faults>>

\* By the call's id, whichever object is there by now.
RemoveSession(c) ==
    /\ handlers[c].pc = "remove"
    /\ session' = None
    /\ lost' = (lost \/ ~Current(c))
    /\ Become(c, Ready)
    /\ UNCHANGED <<diskVars, call, callVars, up, down, stored, sent,
                   completions, misnamed, faults>>

\* The end of the stream is read, or a message cannot be sent any more.
HandlerEnds(c) ==
    /\ handlers[c].pc \in {"ready", "complete"}
    /\ ~Current(c)
    /\ Become(c, Closed)
    /\ up' = [up EXCEPT ![c] = <<>>]
    /\ UNCHANGED <<diskVars, call, callVars, down, stored, session, sent,
                   completions, lost, misnamed, faults>>

\* downloadTimeoutMinutes without a chunk.
ExpireSession ==
    /\ session # None
    /\ Fault
    /\ session' = None
    /\ lost' = TRUE
    /\ UNCHANGED <<diskVars, call, callVars, up, down, stored, sent, handlers,
                   completions, misnamed>>

NodeRestart ==
    /\ Fault
    /\ session' = None
    /\ lost' = (lost \/ session # None)
    /\ handlers' = [c \in Conns |-> Closed]
    /\ up' = [c \in Conns |-> <<>>]
    /\ UNCHANGED <<diskVars, call, callVars, down, stored, sent, completions,
                   misnamed>>

\* The disk under the store fails.
DiskFails(c, state) ==
    /\ stored[c] = "intact"
    /\ Fault
    /\ stored' = [stored EXCEPT ![c] = state]
    /\ UNCHANGED <<diskVars, call, callVars, up, down, session, sent,
                   handlers, completions, lost, misnamed>>

-----------------------------------------------------------------------------
ClientStep ==
    \/ InitDownloadFails \/ (\E c \in Contents : DownloadFile(c))
    \/ DropOtherPart \/ WriteSidecar \/ SidecarFails
    \/ BeginAttempt \/ Connect \/ Disconnected \/ Rejected
    \/ Opened \/ ReceiveChunk \/ AwaitComplete
    \/ Verify \/ Replace \/ ReplaceFails \/ RemoveSidecar

HandlerStep(c) ==
    \/ OpenDownload(c) \/ OpenFails(c)
    \/ \E i \in 1 .. MaxSize : SendChunk(c, i) \/ RequestFails(c, i)
    \/ MarkChunkSent(c) \/ SendComplete(c) \/ RemoveSession(c)
    \/ HandlerEnds(c)

Next ==
    \/ StartDownload
    \/ ClientStep
    \/ ClientCrash
    \/ \E c \in Conns : HandlerStep(c)
    \/ ExpireSession
    \/ NodeRestart
    \/ \E c \in Contents, state \in {"rotten", "gone"} : DiskFails(c, state)

\* Every read of the client has a timeout, and so every step of a call is one
\* that is taken some time.
Fairness == WF_vars(ClientStep)

Spec == Init /\ [][Next]_vars /\ Fairness

-----------------------------------------------------------------------------
\* What is put at the path is all of the content that was asked for, whatever
\* was in the part, however often the connection was lost, and whatever the
\* node has on its disk (download_file).
TargetIsIntact ==
    [][target' # target => target' = Data(want)]_vars

\* DOWNLOAD_COMPLETE is sent once for a session, by whichever handlers send
\* its chunks (markChunkSentAndCheckJustCompleted).
CompletedOnce == \A o \in Conns : completions[o] <= 1

\* A client that asks for a chunk is not told that its session is over, or
\* unknown, unless the session expired, the node restarted, or the handler of
\* an earlier connection of the call finished it (handleRequestChunk).
SessionLossExplained ==
    At("chunk") /\ Type \in {"INVALID_SESSION", "DOWNLOAD_COMPLETE"} => lost

\* A part whose content the sidecar names holds chunks of that content, in
\* their order, damaged ones as the node sent them, unless the sidecar could
\* not be written (download_file).
PartIsPrefix ==
    part # None /\ meta # None /\ ~misnamed
    => \A i \in 1 .. Len(part) : part[i] \in {meta} \X {i} \X BOOLEAN

\* Every job the page starts comes to an end, whatever is lost, refused or
\* restarted (FileDownloadWorker, download_file).
DownloadsEnd == (call # None) ~> (call = None)
====
