---- MODULE Downloads_proofs ----
(***************************************************************************)
(* Proofs about Downloads, for all contents, whatever their sizes, and any *)
(* number of calls, attempts and faults.                                   *)
(***************************************************************************)
EXTENDS Downloads, TLAPS

----
(***************************************************************************)
(* Chunks, parts and messages.                                             *)
(***************************************************************************)

LEMMA MaxSizeBounds ==
    /\ MaxSize \in Nat
    /\ \A c \in Contents : Size[c] \in Nat /\ Size[c] <= MaxSize
  <1>1. \E n \in {Size[c] : c \in Contents} : \A c \in Contents : Size[c] <= n
    BY SizeAssumption
  <1> QED  BY <1>1, SizeAssumption DEF MaxSize

LEMMA EmptyIsSeq == \A S : <<>> \in Seq(S)
  OBVIOUS

LEMMA HeadAndTail ==
    ASSUME NEW S, NEW s \in Seq(S), s # <<>>
    PROVE  Head(s) \in S /\ Tail(s) \in Seq(S)
  OBVIOUS

LEMMA ConnsAreNat == \A c \in Conns : c \in Nat
  BY DEF Conns

\* A part that is cut to whole chunks keeps its beginning.
LEMMA WholeIsPrefix ==
    ASSUME NEW p \in Seq(Pieces)
    PROVE  /\ Whole(p) \in Seq(Pieces) /\ Len(Whole(p)) \in Nat
           /\ Len(Whole(p)) <= Len(p)
           /\ \A i \in 1 .. Len(Whole(p)) : Whole(p)[i] = p[i]
  <1>0. p # None
    BY NoneAssumption
  <1>1. CASE p # <<>> /\ Short(p[Len(p)])
    <2>1. Len(p) \in Nat /\ Len(p) >= 1
      BY <1>1
    <2>2. Whole(p) = SubSeq(p, 1, Len(p) - 1)
      BY <1>0, <1>1 DEF Whole
    <2> QED  BY <2>1, <2>2
  <1>2. CASE ~(p # <<>> /\ Short(p[Len(p)]))
    BY <1>0, <1>2 DEF Whole
  <1> QED  BY <1>1, <1>2

\* What comes next in down, by its type.
LEMMA HeadOfDown ==
    ASSUME down \in Seq(Message), Type # "nothing"
    PROVE  /\ down # <<>> /\ Head(down) \in Message /\ Type = Head(down).type
           /\ Tail(down) \in Seq(Message)
           /\ Type = "DOWNLOAD_CHUNK" => Head(down).piece \in Pieces
  <1>1. down # <<>> /\ Type = Head(down).type
    BY DEF Type
  <1>2. Head(down) \in Message /\ Tail(down) \in Seq(Message)
    BY <1>1
  <1>3. Type = "DOWNLOAD_CHUNK" => Head(down).piece \in Pieces
    BY <1>1, <1>2 DEF Message
  <1> QED  BY <1>1, <1>2, <1>3

----
(***************************************************************************)
(* Type correctness, which needs to know where a call has got to: what has *)
(* been hashed is what is in the part.                                     *)
(***************************************************************************)

CallFits ==
    call # None =>
        /\ call.pc \in {"plan", "prepare", "label"} => call.attempt = 0
        /\ call.pc = "attempt" => call.attempt < MaxAttempts
        /\ call.pc \in {"connect", "opened", "chunk", "complete"}
           => call.attempt \in Conns
        /\ call.pc # "plan" => want \in Contents
        /\ call.pc = "connect"
           => call.hashed = IF part = None THEN <<>> ELSE part
        /\ call.pc \in {"opened", "chunk", "complete", "verify"}
           => part = call.hashed
        /\ call.pc \in {"connect", "opened"} => call.first = Len(call.hashed)
        /\ call.pc = "chunk" => /\ call.next \in 1 .. Size[want]
                                /\ call.next = Len(call.hashed) + 1
        /\ call.pc = "replace" => part = Data(want)

ClientType ==
    /\ part   \in Seq(Pieces) \cup {None}
    /\ meta   \in Contents \cup {None}
    /\ target \in Seq(Pieces) \cup {None}
    /\ call   \in Call \cup {None}
    /\ calls  \in 0 .. MaxCalls
    /\ want   \in Contents \cup {None}
    /\ misnamed \in BOOLEAN
    /\ faults   \in 0 .. MaxFaults

NodeType ==
    /\ up     \in [Conns -> Seq(0 .. MaxSize)]
    /\ down   \in Seq(Message)
    /\ stored \in [Contents -> {"intact", "rotten", "gone"}]
    /\ session  \in Conns \cup {None}
    /\ sent     \in [Conns -> SUBSET (1 .. MaxSize)]
    /\ handlers \in [Conns -> Handler]
    /\ completions \in [Conns -> Nat]
    /\ lost     \in BOOLEAN

TypeInv == ClientType /\ NodeType /\ CallFits

LEMMA TypeParts == TypeInv => TypeOK
  BY DEF TypeInv, TypeOK, ClientType, NodeType

LEMMA InitType == Init => TypeInv
  <1> SUFFICES ASSUME Init PROVE TypeInv
    OBVIOUS
  <1>1. ClientType
    <2>1. 0 \in 0 .. MaxCalls /\ 0 \in 0 .. MaxFaults
      BY BoundsAssumption
    <2> QED  BY <2>1 DEF Init, ClientType
  <1>2. CallFits
    BY DEF Init, CallFits
  <1>3. NodeType
    <2>1. Closed \in Handler
      BY DEF Handler, Closed
    <2> QED  BY <2>1, EmptyIsSeq DEF Init, NodeType
  <1> QED  BY <1>1, <1>2, <1>3 DEF TypeInv

\* A step that leaves the connections and the node alone, but for what has
\* arrived.
LEMMA NodeAlone ==
    ASSUME NodeType, UNCHANGED <<up, nodeVars>>, down' \in {down, <<>>}
    PROVE  NodeType'
  <1>1. down' \in Seq(Message)
    BY EmptyIsSeq DEF NodeType
  <1> QED  BY <1>1 DEF NodeType, nodeVars

Pcs == {"plan", "prepare", "label", "attempt", "connect", "opened", "chunk",
        "complete", "verify", "replace", "label gone"}

\* A call that goes on and is otherwise as it was.
LEMMA Moved ==
    ASSUME ClientType, call # None, NEW pc \in Pcs, Goto(pc)
    PROVE  /\ call \in Call /\ call' \in Call /\ call'.pc = pc
           /\ call'.attempt = call.attempt /\ call'.first = call.first
           /\ call'.next = call.next /\ call'.hashed = call.hashed
  BY DEF ClientType, Call, Goto, Pcs

\* A fault is counted.
LEMMA FaultCounts ==
    ASSUME ClientType, Fault
    PROVE  faults' \in 0 .. MaxFaults
  BY BoundsAssumption DEF ClientType, Fault

\* Steps of the client before and after the attempts.
LEMMA OuterType ==
    ASSUME TypeInv,
           \/ StartDownload \/ InitDownloadFails \/ DropOtherPart
           \/ WriteSidecar \/ SidecarFails \/ Verify \/ Replace \/ ReplaceFails
           \/ RemoveSidecar \/ ClientCrash \/ AwaitComplete
    PROVE  TypeInv'
  <1>0. ClientType /\ NodeType /\ CallFits
    BY DEF TypeInv
  <1>1. NodeType'
    BY <1>0, NodeAlone
    DEF StartDownload, InitDownloadFails, DropOtherPart, WriteSidecar,
        SidecarFails, Verify, Replace, ReplaceFails, RemoveSidecar, ClientCrash,
        AwaitComplete, nodeVars
  <1>2. CASE StartDownload
    <2>1. call' \in Call /\ call'.pc = "plan" /\ call'.attempt = 0
      BY <1>2, BoundsAssumption DEF StartDownload, Call
    <2>2. ClientType'
      BY <1>0, <1>2, <2>1, BoundsAssumption
      DEF StartDownload, ClientType, diskVars
    <2> QED  BY <1>1, <2>1, <2>2 DEF TypeInv, CallFits
  <1>3. CASE InitDownloadFails \/ ReplaceFails \/ RemoveSidecar \/ ClientCrash
    <2>1. call' = None
      BY <1>3 DEF InitDownloadFails, ReplaceFails, RemoveSidecar, ClientCrash,
                  Return
    <2>2. ClientType'
      BY <1>0, <1>3, <2>1, FaultCounts
      DEF InitDownloadFails, ReplaceFails, RemoveSidecar, ClientCrash,
          ClientType, diskVars, callVars
    <2> QED  BY <1>1, <2>1, <2>2 DEF TypeInv, CallFits
  <1>4. CASE DropOtherPart
    <2>1. At("prepare") /\ Goto("label") /\ call # None
      BY <1>4 DEF DropOtherPart, At
    <2>2. /\ call' \in Call /\ call'.pc = "label"
          /\ call'.attempt = call.attempt
      BY <1>0, <2>1, Moved DEF Pcs
    <2>3. ClientType'
      BY <1>0, <1>4, <2>2 DEF DropOtherPart, ClientType, callVars
    <2>4. want' = want
      BY <1>4 DEF DropOtherPart, callVars
    <2> QED
      BY <1>0, <1>1, <2>1, <2>2, <2>3, <2>4
      DEF TypeInv, CallFits, At
  <1>5. CASE WriteSidecar \/ SidecarFails
    <2>1. At("label") /\ Goto("attempt") /\ call # None /\ want' = want
      BY <1>5 DEF WriteSidecar, SidecarFails, At, callVars
    <2>2. /\ call' \in Call /\ call'.pc = "attempt"
          /\ call'.attempt = call.attempt
      BY <1>0, <2>1, Moved DEF Pcs
    <2>3. want \in Contents /\ call'.attempt < MaxAttempts
      BY <1>0, <2>1, <2>2, BoundsAssumption DEF CallFits, At
    <2>4. ClientType'
      BY <1>0, <1>5, <2>2, <2>3, FaultCounts
      DEF WriteSidecar, SidecarFails, ClientType, callVars, diskVars
    <2> QED
      BY <1>1, <2>1, <2>2, <2>3, <2>4 DEF TypeInv, CallFits
  <1>6. CASE Verify
    <2>1. At("verify") /\ call # None /\ want' = want
      BY <1>6 DEF Verify, At, callVars
    <2>2. CASE /\ call.hashed = Data(want)
               /\ Goto("replace") /\ UNCHANGED <<part, meta>>
      <3>1. call' \in Call /\ call'.pc = "replace"
        BY <1>0, <2>1, <2>2, Moved DEF Pcs
      <3>2. ClientType'
        BY <1>0, <1>6, <2>2, <3>1 DEF Verify, ClientType, callVars
      <3> QED
        BY <1>0, <1>1, <2>1, <2>2, <3>1, <3>2 DEF TypeInv, CallFits, At
    <2>3. CASE part' = None /\ meta' = None /\ Return
      <3>1. ClientType'
        BY <1>0, <1>6, <2>3 DEF Verify, Return, ClientType, callVars
      <3> QED
        BY <1>1, <2>3, <3>1 DEF TypeInv, CallFits, Return
    <2> QED  BY <1>6, <2>2, <2>3 DEF Verify
  <1>7. CASE Replace
    <2>1. At("replace") /\ Goto("label gone") /\ call # None /\ want' = want
      BY <1>7 DEF Replace, At, callVars
    <2>2. call' \in Call /\ call'.pc = "label gone"
      BY <1>0, <2>1, Moved DEF Pcs
    <2>3. ClientType'
      BY <1>0, <1>7, <2>2 DEF Replace, ClientType, callVars
    <2> QED
      BY <1>0, <1>1, <2>1, <2>2, <2>3 DEF TypeInv, CallFits, At
  <1>8. CASE AwaitComplete
    <2>1. At("complete") /\ Goto("verify") /\ call # None /\ want' = want
      BY <1>8 DEF AwaitComplete, At, callVars
    <2>2. /\ call' \in Call /\ call'.pc = "verify"
          /\ call'.hashed = call.hashed
      BY <1>0, <2>1, Moved DEF Pcs
    <2>3. ClientType' /\ part' = part
      BY <1>0, <1>8, <2>2 DEF AwaitComplete, ClientType, callVars, diskVars
    <2> QED
      BY <1>0, <1>1, <2>1, <2>2, <2>3 DEF TypeInv, CallFits, At
  <1> QED
    BY <1>2, <1>3, <1>4, <1>5, <1>6, <1>7, <1>8

LEMMA DownloadFileType ==
    ASSUME TypeInv, NEW c \in Contents, DownloadFile(c)
    PROVE  TypeInv'
  <1>1. At("plan") /\ call # None /\ Goto("prepare") /\ want' = c
    BY DEF DownloadFile, At
  <1>2. call' \in Call /\ call'.pc = "prepare" /\ call'.attempt = 0
    BY <1>1, Moved DEF TypeInv, CallFits, At, Pcs
  <1>3. ClientType'
    BY <1>1, <1>2 DEF TypeInv, ClientType, DownloadFile, diskVars
  <1>4. NodeType'
    <2>1. Closed \in Handler
      BY DEF Handler, Closed
    <2> QED
      BY <2>1, EmptyIsSeq DEF TypeInv, NodeType, DownloadFile, NoSession
  <1> QED  BY <1>1, <1>2, <1>3, <1>4 DEF TypeInv, CallFits

LEMMA BeginAttemptType ==
    ASSUME TypeInv, BeginAttempt
    PROVE  /\ TypeInv'
           /\ call'.pc = "connect" /\ call'.attempt = call.attempt + 1
           /\ call'.attempt \in Conns
  <1> DEFINE p == Whole(part)
  <1>1. /\ call # None /\ call.pc = "attempt" /\ call \in Call
        /\ call.attempt < MaxAttempts /\ want \in Contents
    BY DEF BeginAttempt, At, TypeInv, ClientType, CallFits
  <1>2. p \in Seq(Pieces) /\ Len(p) \in Nat
    BY WholeIsPrefix, EmptyIsSeq DEF TypeInv, ClientType, Whole
  <1>3. call' = [call EXCEPT !.pc = "connect", !.attempt = @ + 1,
                             !.first = Len(p), !.hashed = p]
    BY DEF BeginAttempt
  <1> HIDE DEF p
  <1>4. /\ call' \in Call /\ call'.pc = "connect" /\ call'.attempt \in Conns
        /\ call'.attempt = call.attempt + 1
    <2>1. /\ call.attempt + 1 \in 0 .. MaxAttempts
          /\ call.attempt + 1 \in Conns
      <3>1. call.attempt \in 0 .. MaxAttempts
        BY <1>1 DEF Call
      <3> HIDE DEF p
      <3> QED  BY <1>1, <3>1, BoundsAssumption DEF Conns
    <2> QED  BY <1>1, <1>2, <1>3, <2>1 DEF Call
  <1>5. ClientType'
    BY <1>2, <1>4 DEF TypeInv, ClientType, BeginAttempt, callVars, p
  <1>6. NodeType'
    BY NodeAlone DEF TypeInv, BeginAttempt, nodeVars
  <1>7. CallFits'
    <2>1. call'.hashed = p /\ call'.first = Len(p)
      BY <1>1, <1>2, <1>3 DEF Call
    <2>2. p = IF part' = None THEN <<>> ELSE part'
      BY <1>2, NoneAssumption DEF BeginAttempt, Whole, p
    <2> QED
      BY <1>1, <1>4, <2>1, <2>2 DEF CallFits, BeginAttempt, callVars
  <1> QED  BY <1>4, <1>5, <1>6, <1>7 DEF TypeInv

LEMMA ConnectType ==
    ASSUME TypeInv, Connect
    PROVE  TypeInv'
  <1>1. /\ call # None /\ call.pc = "connect" /\ want \in Contents
        /\ call.attempt \in Conns /\ Goto("opened")
    BY DEF Connect, At, TypeInv, CallFits
  <1>2. /\ call' \in Call /\ call'.pc = "opened"
        /\ call'.attempt = call.attempt /\ call'.first = call.first
        /\ call'.hashed = call.hashed
    BY <1>1, Moved DEF TypeInv, Pcs
  <1>3. ClientType'
    BY <1>2, EmptyIsSeq DEF TypeInv, ClientType, Connect, callVars
  <1>4. NodeType'
    <2>1. Ready \in Handler /\ Open \in 0 .. MaxSize
      BY MaxSizeBounds DEF Handler, Ready, Open
    <2>2. up' \in [Conns -> Seq(0 .. MaxSize)]
      BY <1>1, <2>1 DEF TypeInv, NodeType, Connect, Send, Conn
    <2> QED
      BY <1>1, <2>1, <2>2, EmptyIsSeq DEF TypeInv, NodeType, Connect, Conn
  <1> QED
    BY <1>1, <1>2, <1>3, <1>4 DEF TypeInv, CallFits, Connect, callVars

LEMMA AttemptEndsType ==
    ASSUME TypeInv, Disconnected \/ Rejected
    PROVE  TypeInv'
  <1>1. call # None /\ UNCHANGED <<part, meta, target, calls, want, misnamed, faults>>
    BY DEF Disconnected, Rejected, diskVars, callVars
  <1>2. NodeType'
    BY NodeAlone DEF TypeInv, Disconnected, Rejected, nodeVars
  <1>3. CASE call' = None
    BY <1>1, <1>2, <1>3 DEF TypeInv, ClientType, CallFits
  <1>4. CASE Disconnected /\ Goto("attempt") /\ call.attempt < MaxAttempts
    <2>1. /\ call' \in Call /\ call'.pc = "attempt"
          /\ call'.attempt = call.attempt
      BY <1>1, <1>4, Moved DEF TypeInv, Pcs
    <2>2. want \in Contents
      BY <1>1, <1>4 DEF Disconnected, TypeInv, CallFits
    <2> QED
      BY <1>1, <1>2, <1>4, <2>1, <2>2 DEF TypeInv, ClientType, CallFits
  <1> QED
    BY <1>3, <1>4 DEF Disconnected, Rejected, TryAgain, Return

LEMMA OpenedType ==
    ASSUME TypeInv, Opened
    PROVE  TypeInv'
  <1> DEFINE oversized == call.first > FullChunks(want)
             first == IF oversized THEN 0 ELSE call.first
             next == first + 1
             whole == first = Size[want]
             pc == IF whole THEN "verify" ELSE "chunk"
             hashed == IF oversized THEN <<>> ELSE call.hashed
  <1>1. /\ call # None /\ call.pc = "opened" /\ want \in Contents
        /\ call \in Call /\ call.attempt \in Conns /\ want' = want
        /\ part = call.hashed /\ call.first = Len(call.hashed)
    BY DEF Opened, At, TypeInv, ClientType, CallFits, callVars
  <1>2. Size[want] \in Nat /\ Size[want] <= MaxSize /\ MaxSize \in Nat
    BY <1>1, MaxSizeBounds
  <1>3. first \in Nat /\ next \in Nat /\ (~whole => next \in 1 .. Size[want])
    <2>1. call.first \in Nat
      BY <1>1 DEF Call
    <2>2. FullChunks(want) \in Int /\ FullChunks(want) <= Size[want]
      BY <1>2 DEF FullChunks
    <2> QED  BY <1>2, <2>1, <2>2
  <1>4. /\ call' = [call EXCEPT !.pc = pc, !.first = first, !.next = next,
                                !.hashed = hashed]
        /\ part' = IF oversized THEN <<>> ELSE part
        /\ IF whole THEN UNCHANGED up ELSE Send(next)
        /\ down' = <<>>
        /\ UNCHANGED <<meta, target, calls, nodeVars, misnamed, faults>>
    BY DEF Opened, callVars
  <1>5. /\ pc \in {"chunk", "verify"} /\ (pc = "verify" <=> whole)
        /\ hashed \in Seq(Pieces) /\ next = Len(hashed) + 1 /\ part' = hashed
    BY <1>1, <1>4, EmptyIsSeq DEF Call
  <1> HIDE DEF oversized, first, next, whole, pc, hashed
  <1>6. /\ call' \in Call /\ call'.attempt = call.attempt
        /\ call'.pc = pc /\ call'.next = next /\ call'.hashed = hashed
    BY <1>1, <1>3, <1>4, <1>5 DEF Call
  <1>7. ClientType'
    BY <1>1, <1>4, <1>5, <1>6 DEF TypeInv, ClientType
  <1>8. NodeType'
    <2>1. up' \in [Conns -> Seq(0 .. MaxSize)]
      <3>1. CASE whole
        BY <1>4, <3>1 DEF TypeInv, NodeType
      <3>2. CASE ~whole
        <4>1. next \in 0 .. MaxSize
          BY <1>2, <1>3, <3>2
        <4>2. up' = [up EXCEPT ![call.attempt] = Append(@, next)]
          BY <1>4, <3>2 DEF Send, Conn
        <4> QED  BY <1>1, <4>1, <4>2 DEF TypeInv, NodeType
      <3> QED  BY <3>1, <3>2
    <2> QED  BY <1>4, <2>1, EmptyIsSeq DEF TypeInv, NodeType, nodeVars
  <1>9. CallFits'
    BY <1>1, <1>3, <1>5, <1>6 DEF CallFits
  <1> QED  BY <1>7, <1>8, <1>9 DEF TypeInv

LEMMA ReceiveChunkType ==
    ASSUME TypeInv, ReceiveChunk
    PROVE  TypeInv'
  <1> DEFINE piece == Head(down).piece
             last  == call.next = Size[want]
             next  == IF last THEN call.next ELSE call.next + 1
             hashed == Append(call.hashed, piece)
             pc    == CASE ~last -> "chunk"
                        [] last /\ call.first = 0 -> "complete"
                        [] last /\ call.first # 0 -> "verify"
  <1>1. /\ call # None /\ call.pc = "chunk" /\ want \in Contents
        /\ call \in Call /\ call.attempt \in Conns /\ want' = want
        /\ call.next \in 1 .. Size[want] /\ call.next = Len(call.hashed) + 1
        /\ part = call.hashed /\ part \in Seq(Pieces)
    BY DEF ReceiveChunk, At, TypeInv, ClientType, CallFits, callVars, Call
  <1>2. Size[want] \in Nat /\ Size[want] <= MaxSize /\ MaxSize \in Nat
    BY <1>1, MaxSizeBounds
  <1>3. piece \in Pieces /\ Tail(down) \in Seq(Message)
    BY HeadOfDown DEF ReceiveChunk, TypeInv, NodeType
  <1>4. /\ call' = [call EXCEPT !.hashed = hashed, !.next = next, !.pc = pc]
        /\ part' = Append(part, piece)
        /\ IF last THEN UNCHANGED up ELSE Send(call.next + 1)
        /\ down' = Tail(down)
        /\ UNCHANGED <<meta, target, calls, nodeVars, misnamed, faults>>
    BY DEF ReceiveChunk, callVars
  <1>5. pc \in {"chunk", "complete", "verify"} /\ (pc = "chunk" <=> ~last)
    OBVIOUS
  <1>6. /\ hashed \in Seq(Pieces) /\ part' = hashed
        /\ Len(hashed) = Len(call.hashed) + 1
        /\ next \in Nat
        /\ ~last => next \in 1 .. Size[want] /\ next = Len(hashed) + 1
    <2> HIDE DEF piece
    <2> QED  BY <1>1, <1>2, <1>3, <1>4
  <1> HIDE DEF piece, last, pc, next, hashed
  <1>7. /\ call' \in Call /\ call'.attempt = call.attempt
        /\ call'.pc = pc /\ call'.next = next /\ call'.hashed = hashed
    BY <1>1, <1>4, <1>5, <1>6 DEF Call
  <1>8. NodeType'
    <2>1. up' \in [Conns -> Seq(0 .. MaxSize)]
      <3>1. CASE last
        BY <1>4, <3>1 DEF TypeInv, NodeType
      <3>2. CASE ~last
        <4>1. call.next + 1 \in 0 .. MaxSize
          BY <1>1, <1>2, <1>6, <3>2 DEF next
        <4>2. up' = [up EXCEPT ![call.attempt] = Append(@, call.next + 1)]
          BY <1>4, <3>2 DEF Send, Conn
        <4> QED  BY <1>1, <4>1, <4>2 DEF TypeInv, NodeType
      <3> QED  BY <3>1, <3>2
    <2> QED  BY <1>3, <1>4, <2>1 DEF TypeInv, NodeType, nodeVars
  <1>9. CallFits'
    BY <1>1, <1>5, <1>6, <1>7 DEF CallFits, next
  <1>10. ClientType'
    BY <1>1, <1>4, <1>6, <1>7 DEF TypeInv, ClientType
  <1> QED  BY <1>8, <1>9, <1>10 DEF TypeInv

----
(***************************************************************************)
(* The node.  A step of a handler leaves the client alone, but for what is *)
(* on its way to it.                                                       *)
(***************************************************************************)

LEMMA ClientAlone ==
    ASSUME ClientType, CallFits, UNCHANGED <<diskVars, call, callVars, misnamed>>,
           faults' \in 0 .. MaxFaults
    PROVE  ClientType' /\ CallFits'
  BY DEF ClientType, CallFits, diskVars, callVars

\* An answer reaches the client if it still waits on that connection.
LEMMA Answered ==
    ASSUME down \in Seq(Message), NEW c, NEW m \in Message, Answer(c, m)
    PROVE  down' \in Seq(Message)
  BY DEF Answer

LEMMA HandlerType ==
    ASSUME NodeType, NEW c \in Conns, NEW h \in Handler, Become(c, h)
    PROVE  handlers' \in [Conns -> Handler]
  BY DEF NodeType, Become

LEMMA MessagesAre ==
    /\ [type |-> "OPEN_DOWNLOAD_RESP"] \in Message
    /\ [type |-> "DOWNLOAD_COMPLETE"] \in Message
    /\ [type |-> "ERROR"] \in Message /\ [type |-> "INVALID_SESSION"] \in Message
    /\ \A p \in Pieces : [type |-> "DOWNLOAD_CHUNK", piece |-> p] \in Message
  BY DEF Message

LEMMA HandlersAre ==
    /\ Closed \in Handler /\ Ready \in Handler
    /\ \A o \in Conns : \A i \in 1 .. MaxSize :
           [pc |-> "mark", object |-> o, chunk |-> i] \in Handler
    /\ \A o \in Conns : [pc |-> "complete", object |-> o] \in Handler
    /\ \A o \in Conns : [pc |-> "remove", object |-> o] \in Handler
    /\ \A h \in Handler :
           /\ h.pc \in {"mark", "complete", "remove"} => h.object \in Conns
           /\ h.pc = "mark" => h.chunk \in 1 .. MaxSize
  BY DEF Handler, Closed, Ready

LEMMA Taken ==
    ASSUME NodeType, NEW c \in Conns, NEW r, Take(c, r)
    PROVE  /\ up' \in [Conns -> Seq(0 .. MaxSize)]
           /\ up[c] # <<>> /\ r = Head(up[c]) /\ r \in 0 .. MaxSize
           /\ up' = [up EXCEPT ![c] = Tail(up[c])]
  <1>1. up[c] \in Seq(0 .. MaxSize) /\ up[c] # <<>>
    BY DEF NodeType, Take
  <1>2. Head(up[c]) \in 0 .. MaxSize /\ Tail(up[c]) \in Seq(0 .. MaxSize)
    BY <1>1, HeadAndTail
  <1> QED  BY <1>1, <1>2 DEF NodeType, Take

\* A handler that is late still has a call's content to send.
WantFits == \A c \in Conns : handlers[c].pc # "closed" => want \in Contents

\* Steps of the handler of a connection.
LEMMA HandlerStepType ==
    ASSUME TypeInv, WantFits, NEW c \in Conns, HandlerStep(c)
    PROVE  TypeInv'
  <1>0. ClientType /\ NodeType /\ CallFits
    BY DEF TypeInv
  <1>1. ClientType' /\ CallFits'
    <2>1. UNCHANGED <<diskVars, call, callVars, misnamed, faults>>
      BY DEF HandlerStep, OpenDownload, OpenFails, SendChunk, RequestFails,
             MarkChunkSent, SendComplete, RemoveSession, HandlerEnds, nodeVars
    <2> QED  BY <1>0, <2>1, ClientAlone DEF ClientType
  <1>2. CASE OpenDownload(c)
    <2>1. down' \in Seq(Message)
      BY <1>0, <1>2, Answered, MessagesAre DEF OpenDownload, NodeType
    <2> QED
      BY <1>0, <1>1, <1>2, <2>1, Taken DEF OpenDownload, TypeInv, NodeType
  <1>3. ASSUME OpenFails(c) \/ \E i \in 1 .. MaxSize : RequestFails(c, i)
        PROVE  TypeInv'
    <2>1. down' \in Seq(Message)
      BY <1>0, <1>3, Answered, MessagesAre DEF OpenFails, RequestFails, NodeType
    <2>2. \E r : Take(c, r)
      BY <1>3 DEF OpenFails, RequestFails
    <2>3. up' \in [Conns -> Seq(0 .. MaxSize)] /\ UNCHANGED nodeVars
      BY <1>0, <1>3, <2>2, Taken DEF OpenFails, RequestFails
    <2> QED
      BY <1>0, <1>1, <2>1, <2>3 DEF TypeInv, NodeType, nodeVars
  <1>4. ASSUME NEW i \in 1 .. MaxSize, SendChunk(c, i)
        PROVE  TypeInv'
    <2> DEFINE piece == <<want, i, stored[want] = "intact">>
               h == [pc |-> "mark", object |-> session, chunk |-> i]
    <2>1. want \in Contents /\ session \in Conns
      BY <1>0, <1>4 DEF SendChunk, Take, Ready, Closed, WantFits, NodeType
    <2>2. piece \in Pieces /\ h \in Handler
      BY <2>1, HandlersAre DEF Pieces
    <2>3. /\ Answer(c, [type |-> "DOWNLOAD_CHUNK", piece |-> piece])
          /\ Become(c, h) /\ Take(c, i)
          /\ UNCHANGED <<stored, session, sent, completions, lost>>
      BY <1>4 DEF SendChunk
    <2> HIDE DEF piece, h
    <2>4. down' \in Seq(Message) /\ handlers' \in [Conns -> Handler]
      BY <1>0, <2>2, <2>3, Answered, HandlerType, MessagesAre DEF NodeType
    <2> QED
      BY <1>0, <1>1, <2>3, <2>4, Taken DEF TypeInv, NodeType
  <1>5. CASE MarkChunkSent(c)
    <2>1. handlers[c] \in Handler /\ handlers[c].pc = "mark"
      BY <1>0, <1>5 DEF MarkChunkSent, NodeType
    <2>2. handlers[c].object \in Conns /\ handlers[c].chunk \in 1 .. MaxSize
      BY <2>1, HandlersAre
    <2>3. sent' \in [Conns -> SUBSET (1 .. MaxSize)]
      BY <1>0, <1>5, <2>2 DEF MarkChunkSent, NodeType
    <2>4. \E h \in Handler : Become(c, h)
      BY <1>5, <2>2, HandlersAre DEF MarkChunkSent
    <2> QED
      BY <1>0, <1>1, <1>5, <2>3, <2>4, HandlerType
      DEF MarkChunkSent, TypeInv, NodeType
  <1>6. CASE SendComplete(c)
    <2>1. handlers[c] \in Handler /\ handlers[c].pc = "complete"
      BY <1>0, <1>6 DEF SendComplete, NodeType
    <2>2. handlers[c].object \in Conns
      BY <2>1, HandlersAre
    <2>3. completions' \in [Conns -> Nat] /\ down' \in Seq(Message)
      BY <1>0, <1>6, <2>2, Answered, MessagesAre DEF SendComplete, NodeType
    <2>4. handlers' \in [Conns -> Handler]
      BY <1>0, <1>6, <2>2, HandlerType, HandlersAre DEF SendComplete
    <2> QED
      BY <1>0, <1>1, <1>6, <2>3, <2>4 DEF SendComplete, TypeInv, NodeType
  <1>7. CASE RemoveSession(c)
    <2>1. handlers' \in [Conns -> Handler]
      BY <1>0, <1>7, HandlerType, HandlersAre DEF RemoveSession
    <2>2. lost' \in BOOLEAN
      BY <1>0, <1>7 DEF RemoveSession, NodeType, Current
    <2> QED
      BY <1>0, <1>1, <1>7, <2>1, <2>2 DEF RemoveSession, TypeInv, NodeType
  <1>8. CASE HandlerEnds(c)
    <2>1. handlers' \in [Conns -> Handler]
      BY <1>0, <1>8, HandlerType, HandlersAre DEF HandlerEnds
    <2>2. up' \in [Conns -> Seq(0 .. MaxSize)]
      BY <1>0, <1>8, EmptyIsSeq DEF HandlerEnds, NodeType
    <2> QED
      BY <1>0, <1>1, <1>8, <2>1, <2>2 DEF HandlerEnds, TypeInv, NodeType
  <1> QED
    BY <1>2, <1>3, <1>4, <1>5, <1>6, <1>7, <1>8 DEF HandlerStep

\* What goes wrong on the node.
LEMMA NodeFaultType ==
    ASSUME TypeInv,
           \/ ExpireSession \/ NodeRestart
           \/ \E c \in Contents, state \in {"rotten", "gone"} : DiskFails(c, state)
    PROVE  TypeInv'
  <1>0. ClientType /\ NodeType /\ CallFits
    BY DEF TypeInv
  <1>1. ClientType' /\ CallFits'
    <2>1. UNCHANGED <<diskVars, call, callVars, misnamed>> /\ Fault
      BY DEF ExpireSession, NodeRestart, DiskFails
    <2> QED  BY <1>0, <2>1, ClientAlone, FaultCounts
  <1>2. CASE ExpireSession
    BY <1>0, <1>1, <1>2 DEF ExpireSession, TypeInv, NodeType
  <1>3. CASE NodeRestart
    <2>1. /\ handlers' \in [Conns -> Handler]
          /\ up' \in [Conns -> Seq(0 .. MaxSize)]
      BY <1>3, HandlersAre, EmptyIsSeq DEF NodeRestart
    <2> QED
      BY <1>0, <1>1, <1>3, <2>1 DEF NodeRestart, TypeInv, NodeType
  <1>4. ASSUME NEW c \in Contents, NEW state \in {"rotten", "gone"},
               DiskFails(c, state)
        PROVE  TypeInv'
    BY <1>0, <1>1, <1>4 DEF DiskFails, TypeInv, NodeType
  <1> QED  BY <1>2, <1>3, <1>4

LEMMA NextWant ==
    ASSUME TypeInv, WantFits, Next
    PROVE  WantFits'
  <1>1. CASE \E c \in Contents : DownloadFile(c)
    BY <1>1 DEF DownloadFile, WantFits
  <1>2. CASE Connect
    <2>1. want \in Contents /\ want' = want
      BY <1>2 DEF Connect, At, TypeInv, CallFits, callVars
    <2> QED  BY <2>1 DEF WantFits
  <1>3. ASSUME want' = want,
               \A c \in Conns : handlers'[c].pc # "closed"
                               => handlers[c].pc # "closed"
        PROVE  WantFits'
    BY <1>3 DEF WantFits
  <1>4. ASSUME NEW c \in Conns, HandlerStep(c)
        PROVE  WantFits'
    <2>1. want' = want
      BY <1>4
      DEF HandlerStep, OpenDownload, OpenFails, SendChunk, RequestFails,
          MarkChunkSent, SendComplete, RemoveSession, HandlerEnds, callVars
    <2>2. \A d \in Conns \ {c} : handlers'[d] = handlers[d]
      BY <1>4
      DEF HandlerStep, OpenDownload, OpenFails, SendChunk, RequestFails,
          MarkChunkSent, SendComplete, RemoveSession, HandlerEnds, nodeVars,
          Become, TypeInv, NodeType
    <2>3. handlers[c].pc # "closed"
      <3>1. CASE \E r : Take(c, r)
        BY <3>1 DEF Take, Ready
      <3>2. CASE \/ MarkChunkSent(c) \/ SendComplete(c) \/ RemoveSession(c)
                 \/ HandlerEnds(c)
        BY <3>2 DEF MarkChunkSent, SendComplete, RemoveSession, HandlerEnds
      <3> QED
        BY <1>4, <3>1, <3>2
        DEF HandlerStep, OpenDownload, OpenFails, SendChunk, RequestFails
    <2> QED  BY <1>3, <2>1, <2>2, <2>3
  <1>5. ASSUME NodeRestart PROVE WantFits'
    BY <1>5 DEF NodeRestart, WantFits, Closed
  <1>6. ASSUME UNCHANGED <<want, handlers>> PROVE WantFits'
    BY <1>6 DEF WantFits
  <1>7. ASSUME \/ StartDownload \/ ClientCrash \/ ExpireSession
               \/ \E c \in Contents, state \in {"rotten", "gone"} : DiskFails(c, state)
               \/ InitDownloadFails \/ DropOtherPart \/ WriteSidecar
               \/ SidecarFails \/ BeginAttempt \/ Disconnected \/ Rejected
               \/ Opened \/ ReceiveChunk \/ AwaitComplete
               \/ Verify \/ Replace \/ ReplaceFails \/ RemoveSidecar
        PROVE  UNCHANGED <<want, handlers>>
    BY <1>7
    DEF StartDownload, ClientCrash, ExpireSession, DiskFails, InitDownloadFails,
        DropOtherPart, WriteSidecar, SidecarFails, BeginAttempt, Disconnected,
        Rejected, Opened, ReceiveChunk, AwaitComplete, Verify, Replace,
        ReplaceFails, RemoveSidecar, callVars, nodeVars
  <1> QED
    BY <1>1, <1>2, <1>4, <1>5, <1>6, <1>7 DEF Next, ClientStep

LEMMA NextType == TypeInv /\ WantFits /\ [Next]_vars => TypeInv' /\ WantFits'
  <1> SUFFICES ASSUME TypeInv, WantFits, [Next]_vars
               PROVE  TypeInv' /\ WantFits'
    OBVIOUS
  <1>1. CASE Next
    <2>1. TypeInv'
      BY <1>1, OuterType, DownloadFileType, BeginAttemptType, ConnectType,
         AttemptEndsType, OpenedType, ReceiveChunkType, HandlerStepType,
         NodeFaultType
      DEF Next, ClientStep
    <2> QED  BY <1>1, <2>1, NextWant
  <1>2. CASE UNCHANGED vars
    <2>1. NodeType' /\ WantFits'
      BY <1>2
      DEF vars, nodeVars, TypeInv, NodeType, WantFits, callVars
    <2>2. ClientType' /\ CallFits'
      BY <1>2, ClientAlone DEF vars, TypeInv, ClientType
    <2> QED  BY <2>1, <2>2 DEF TypeInv
  <1> QED  BY <1>1, <1>2

LEMMA InitWant == Init => WantFits
  BY DEF Init, WantFits, Closed

\* Every variable keeps its type, and what a call has hashed stays what it
\* has in the part.
THEOREM TypeCorrect == Spec => []TypeOK
  BY InitType, InitWant, NextType, TypeParts, PTL DEF Spec

----
(***************************************************************************)
(* The target.                                                             *)
(***************************************************************************)

\* Whatever the node sends, and however often the connection is lost: a file
\* that is put at the path is, chunk by chunk, the content asked for.
THEOREM TargetAlwaysIntact == Spec => TargetIsIntact
  <1>1. TypeInv /\ [Next]_vars => [target' # target => target' = Data(want)]_vars
    <2> SUFFICES ASSUME TypeInv, Next, target' # target
                 PROVE  target' = Data(want)
      OBVIOUS
    <2>1. Replace
      BY DEF Next, ClientStep, StartDownload, ClientCrash, ExpireSession,
             DiskFails, NodeRestart, InitDownloadFails, DownloadFile,
             DropOtherPart, WriteSidecar, SidecarFails, BeginAttempt, Connect,
             Disconnected, Rejected, Opened, ReceiveChunk, AwaitComplete,
             Verify, ReplaceFails, RemoveSidecar, HandlerStep, OpenDownload,
             OpenFails, SendChunk, RequestFails, MarkChunkSent, SendComplete,
             RemoveSession, HandlerEnds, diskVars
    <2> QED  BY <2>1 DEF Replace, At, TypeInv, CallFits
  <1> QED
    BY <1>1, InitType, InitWant, NextType, PTL DEF Spec, TargetIsIntact

----
(***************************************************************************)
(* The end of a session.  Chunks are only ever added to those sent, so     *)
(* that one step of one handler finds the last one missing and then there; *)
(* from then on all of them are.                                           *)
(***************************************************************************)

Completing(c, o) == handlers[c].pc = "complete" /\ handlers[c].object = o

CompletesOnce(o) ==
    /\ \A c, d \in Conns : Completing(c, o) /\ Completing(d, o) => c = d
    /\ \A c \in Conns : Completing(c, o) => completions[o] = 0
    /\ completions[o] <= 1
    /\ completions[o] > 0 \/ (\E c \in Conns : Completing(c, o))
       => 1 .. Size[want] \subseteq sent[o]

OnceInv == \A o \in Conns : CompletesOnce(o)

\* A step that completes nothing.
LEMMA NoneCompletes ==
    ASSUME NodeType, OnceInv, UNCHANGED <<want, sent, completions>>,
           \A c \in Conns : handlers'[c] = handlers[c]
                            \/ handlers'[c].pc # "complete"
    PROVE  OnceInv'
  BY DEF OnceInv, CompletesOnce, Completing, NodeType

LEMMA MarkOnce ==
    ASSUME NodeType, OnceInv, NEW c \in Conns, MarkChunkSent(c)
    PROVE  OnceInv'
  <1>1. handlers[c] \in Handler /\ handlers[c].pc = "mark"
    BY DEF MarkChunkSent, NodeType
  <1>2. PICK o \in Conns : o = handlers[c].object
    BY <1>1, HandlersAre
  <1> DEFINE all == 1 .. Size[want]
             ends == sent[o] # all /\ sent'[o] = all
  <1>3. /\ sent' = [sent EXCEPT ![o] = @ \cup {handlers[c].chunk}]
        /\ handlers' = [handlers EXCEPT ![c] =
               IF ends THEN [pc |-> "complete", object |-> o] ELSE Ready]
        /\ UNCHANGED <<want, completions>>
    BY <1>2 DEF MarkChunkSent, Become, callVars
  <1>4. /\ sent[o] \subseteq sent'[o]
        /\ \A p \in Conns \ {o} : sent'[p] = sent[p]
    BY <1>2, <1>3 DEF NodeType
  <1>5. /\ handlers'[c] = IF ends THEN [pc |-> "complete", object |-> o] ELSE Ready
        /\ \A d \in Conns \ {c} : handlers'[d] = handlers[d]
    BY <1>3 DEF NodeType
  <1> HIDE DEF all, ends
  <1>6. ASSUME NEW p \in Conns, p # o \/ ~ends
        PROVE  CompletesOnce(p)'
    <2>1. ~Completing(c, p)'
      BY <1>5, <1>6 DEF Completing, Ready
    <2>2. \A d \in Conns : Completing(d, p)' => Completing(d, p)
      BY <1>5, <2>1 DEF Completing
    <2>3. sent[p] \subseteq sent'[p] /\ completions'[p] = completions[p]
      BY <1>3, <1>4
    <2>4. CompletesOnce(p)
      BY DEF OnceInv
    <2> QED  BY <1>3, <2>2, <2>3, <2>4 DEF CompletesOnce
  <1>7. ASSUME ends
        PROVE  CompletesOnce(o)'
    <2>1. sent'[o] = all /\ ~(all \subseteq sent[o])
      BY <1>4, <1>7 DEF ends
    <2>2. CompletesOnce(o)
      BY <1>2 DEF OnceInv
    <2>3. completions[o] = 0 /\ \A d \in Conns : ~Completing(d, o)
      BY <1>2, <2>1, <2>2 DEF CompletesOnce, NodeType, all
    <2>4. \A d \in Conns : Completing(d, o)' => d = c
      BY <1>5, <2>3 DEF Completing
    <2>5. completions'[o] = 0 /\ want' = want
      BY <1>3, <2>3
    <2> QED  BY <2>1, <2>4, <2>5 DEF CompletesOnce, all
  <1> QED  BY <1>2, <1>6, <1>7 DEF OnceInv

LEMMA SendOnce ==
    ASSUME NodeType, OnceInv, NEW c \in Conns, SendComplete(c)
    PROVE  OnceInv'
  <1>1. handlers[c] \in Handler /\ handlers[c].pc = "complete"
    BY DEF SendComplete, NodeType
  <1>2. PICK o \in Conns : o = handlers[c].object /\ Completing(c, o)
    BY <1>1, HandlersAre DEF Completing
  <1>3. /\ completions' = [completions EXCEPT ![o] = @ + 1]
        /\ handlers' = [handlers EXCEPT ![c] = [pc |-> "remove", object |-> o]]
        /\ UNCHANGED <<want, sent>>
    BY <1>2 DEF SendComplete, Become, callVars
  <1>4. /\ \A d \in Conns \ {c} : handlers'[d] = handlers[d]
        /\ handlers'[c].pc = "remove"
    BY <1>3 DEF NodeType
  <1>5. \A p \in Conns : \A d \in Conns :
            Completing(d, p)' => Completing(d, p) /\ d # c
    BY <1>4 DEF Completing
  <1>6. ASSUME NEW p \in Conns \ {o} PROVE CompletesOnce(p)'
    <2>1. completions'[p] = completions[p]
      BY <1>3 DEF NodeType
    <2> QED  BY <1>3, <1>5, <2>1 DEF OnceInv, CompletesOnce
  <1>7. CompletesOnce(o)'
    <2>1. completions[o] = 0 /\ completions'[o] = 1
      BY <1>2, <1>3 DEF OnceInv, CompletesOnce, NodeType
    <2>2. \A d \in Conns : ~Completing(d, o)'
      BY <1>2, <1>5 DEF OnceInv, CompletesOnce
    <2>3. 1 .. Size[want] \subseteq sent[o]
      BY <1>2 DEF OnceInv, CompletesOnce
    <2> QED  BY <1>3, <2>1, <2>2, <2>3 DEF CompletesOnce
  <1> QED  BY <1>6, <1>7 DEF OnceInv

LEMMA NextOnce ==
    ASSUME TypeInv, OnceInv, [Next]_vars
    PROVE  OnceInv'
  <1>0. NodeType
    BY DEF TypeInv
  <1>1. CASE \E c \in Contents : DownloadFile(c)
    BY <1>1
    DEF DownloadFile, NoSession, OnceInv, CompletesOnce, Completing, Closed
  <1>2. CASE Connect \/ NodeRestart
    BY <1>0, <1>2, NoneCompletes
    DEF Connect, NodeRestart, NodeType, Ready, Closed, callVars
  <1>3. ASSUME NEW c \in Conns, MarkChunkSent(c) \/ SendComplete(c)
        PROVE  OnceInv'
    BY <1>0, <1>3, MarkOnce, SendOnce
  <1>4. ASSUME NEW c \in Conns,
               \/ OpenDownload(c) \/ OpenFails(c)
               \/ \E i \in 1 .. MaxSize : SendChunk(c, i) \/ RequestFails(c, i)
               \/ RemoveSession(c) \/ HandlerEnds(c)
        PROVE  OnceInv'
    <2>1. UNCHANGED <<want, sent, completions>>
      BY <1>4 DEF OpenDownload, OpenFails, SendChunk, RequestFails,
                  RemoveSession, HandlerEnds, nodeVars, callVars
    <2>2. \/ handlers' = handlers
          \/ \E h \in {Ready, Closed} : Become(c, h)
          \/ \E i : Become(c, [pc |-> "mark", object |-> session, chunk |-> i])
      BY <1>4 DEF OpenDownload, OpenFails, SendChunk, RequestFails,
                  RemoveSession, HandlerEnds, nodeVars
    <2>3. \A d \in Conns : handlers'[d] = handlers[d]
                           \/ handlers'[d].pc # "complete"
      BY <1>0, <2>2 DEF Become, Ready, Closed, NodeType
    <2> QED  BY <1>0, <2>1, <2>3, NoneCompletes
  <1>5. ASSUME UNCHANGED <<want, handlers, sent, completions>>
        PROVE  OnceInv'
    BY <1>0, <1>5, NoneCompletes
  <1>6. ASSUME \/ StartDownload \/ ClientCrash \/ ExpireSession
               \/ \E c \in Contents, state \in {"rotten", "gone"} : DiskFails(c, state)
               \/ InitDownloadFails \/ DropOtherPart \/ WriteSidecar
               \/ SidecarFails \/ BeginAttempt \/ Disconnected \/ Rejected
               \/ Opened \/ ReceiveChunk \/ AwaitComplete
               \/ Verify \/ Replace \/ ReplaceFails \/ RemoveSidecar
               \/ UNCHANGED vars
        PROVE  UNCHANGED <<want, handlers, sent, completions>>
    BY <1>6
    DEF StartDownload, ClientCrash, ExpireSession, DiskFails, InitDownloadFails,
        DropOtherPart, WriteSidecar, SidecarFails, BeginAttempt, Disconnected,
        Rejected, Opened, ReceiveChunk, AwaitComplete, Verify, Replace,
        ReplaceFails, RemoveSidecar, vars, callVars, nodeVars
  <1> QED
    BY <1>1, <1>2, <1>3, <1>4, <1>5, <1>6 DEF Next, ClientStep, HandlerStep

LEMMA InitOnce == Init => OnceInv
  BY DEF Init, OnceInv, CompletesOnce, Completing, Closed

\* DOWNLOAD_COMPLETE is sent once for a session object, by however many
\* handlers its chunks are sent.
THEOREM CompletesOnlyOnce == Spec => []CompletedOnce
  <1>1. OnceInv => CompletedOnce
    BY DEF OnceInv, CompletesOnce, CompletedOnce
  <1> QED
    BY <1>1, InitType, InitWant, NextType, InitOnce, NextOnce, PTL DEF Spec

----
(***************************************************************************)
(* What arrives.  A client that waits for a chunk has asked for one, which *)
(* is on its way there or back, once: whatever else the node says comes    *)
(* from the handler of this connection, and is not a chunk.                *)
(***************************************************************************)

IsChunk(m) == m.type = "DOWNLOAD_CHUNK"

NoChunk(q) == \A k \in 1 .. Len(q) : ~IsChunk(q[k])

\* The chunks in q: at most one, and it is chunk i of the content wanted.
OnlyChunk(q, i) ==
    \A k \in 1 .. Len(q) : IsChunk(q[k]) =>
        /\ q[k].piece \in {want} \X {i} \X BOOLEAN
        /\ \A j \in 1 .. Len(q) : IsChunk(q[j]) => j = k

Unopened == {"prepare", "label", "attempt", "connect", "opened", "chunk"}

AskedInv ==
    call # None =>
        /\ call.pc \in Unopened
           => \A a \in Conns : a > call.attempt => up[a] = <<>>
        /\ call.pc = "connect" => up[call.attempt] = <<>>
        /\ call.pc = "opened" =>
               \/ up[call.attempt] = <<>>
               \/ /\ up[call.attempt] = <<Open>>
                  /\ \A k \in 1 .. Len(down) : down[k].type # "OPEN_DOWNLOAD_RESP"
        /\ call.pc = "chunk" =>
               /\ OnlyChunk(down, call.next)
               /\ \/ up[call.attempt] = <<>>
                  \/ up[call.attempt] = <<call.next>> /\ NoChunk(down)

LEMMA AppendedTo ==
    ASSUME NEW S, NEW q \in Seq(S), NEW e
    PROVE  /\ Len(Append(q, e)) = Len(q) + 1 /\ Len(q) \in Nat
           /\ \A k \in 1 .. Len(q) : Append(q, e)[k] = q[k]
           /\ Append(q, e)[Len(q) + 1] = e
           /\ \A k \in 1 .. Len(q) + 1 : k \in 1 .. Len(q) \/ k = Len(q) + 1
  OBVIOUS

LEMMA TailOf ==
    ASSUME NEW S, NEW q \in Seq(S), q # <<>>
    PROVE  /\ Len(q) \in Nat \ {0} /\ Len(Tail(q)) = Len(q) - 1
           /\ Head(q) = q[1]
           /\ \A k \in 1 .. Len(Tail(q)) : Tail(q)[k] = q[k + 1]
  OBVIOUS

\* The next chunk is taken off down: no other is there.
LEMMA ChunkTaken ==
    ASSUME NEW q \in Seq(Message), q # <<>>, IsChunk(Head(q)), NEW i,
           OnlyChunk(q, i)
    PROVE  NoChunk(Tail(q))
  <1> SUFFICES ASSUME NEW k \in 1 .. Len(Tail(q)), IsChunk(Tail(q)[k])
               PROVE  FALSE
    BY DEF NoChunk
  <1>1. /\ Len(q) \in Nat \ {0} /\ Len(Tail(q)) = Len(q) - 1
        /\ Head(q) = q[1] /\ Tail(q)[k] = q[k + 1]
    BY TailOf
  <1>2. 1 \in 1 .. Len(q) /\ k + 1 \in 1 .. Len(q) /\ k + 1 # 1
    BY <1>1
  <1> QED  BY <1>1, <1>2 DEF OnlyChunk

\* Answers that are no chunks, and a chunk that comes alone.
LEMMA AnswersKept ==
    ASSUME NEW q \in Seq(Message), NEW m, NEW i
    PROVE  /\ ~IsChunk(m) /\ OnlyChunk(q, i) => OnlyChunk(Append(q, m), i)
           /\ ~IsChunk(m) /\ NoChunk(q) => NoChunk(Append(q, m))
           /\ NoChunk(q) /\ m.piece \in {want} \X {i} \X BOOLEAN
              => OnlyChunk(Append(q, m), i)
  <1>1. /\ Len(Append(q, m)) = Len(q) + 1 /\ Len(q) \in Nat
        /\ \A k \in 1 .. Len(q) : Append(q, m)[k] = q[k]
        /\ Append(q, m)[Len(q) + 1] = m
        /\ \A k \in 1 .. Len(q) + 1 : k \in 1 .. Len(q) \/ k = Len(q) + 1
    BY AppendedTo
  <1>2. ASSUME ~IsChunk(m), OnlyChunk(q, i)
        PROVE  OnlyChunk(Append(q, m), i)
    BY <1>1, <1>2 DEF OnlyChunk
  <1>3. ASSUME ~IsChunk(m), NoChunk(q)
        PROVE  NoChunk(Append(q, m))
    BY <1>1, <1>3 DEF NoChunk
  <1>4. ASSUME NoChunk(q), m.piece \in {want} \X {i} \X BOOLEAN
        PROVE  OnlyChunk(Append(q, m), i)
    BY <1>1, <1>4 DEF OnlyChunk, NoChunk
  <1> QED  BY <1>2, <1>3, <1>4

LEMMA EmptyHasNone == NoChunk(<<>>) /\ \A i : OnlyChunk(<<>>, i)
  BY DEF NoChunk, OnlyChunk

\* Requests may be dropped, or taken, at any time.
LEMMA RequestsDropped ==
    ASSUME TypeInv, AskedInv, UNCHANGED <<call, want, down>>,
           \A a \in Conns : \/ up'[a] \in {up[a], <<>>}
                            \/ up[a] # <<>> /\ up'[a] = Tail(up[a])
    PROVE  AskedInv'
  <1>1. ASSUME NEW a \in Conns, NEW r, up[a] = <<>> \/ up[a] = <<r>>
        PROVE  up'[a] \in {up[a], <<>>}
    <2>1. Tail(<<r>>) = <<>>
      OBVIOUS
    <2> QED  BY <1>1, <2>1
  <1>2. \A a \in Conns : up[a] = <<>> => up'[a] = <<>>
    BY <1>1
  <1>3. OnlyChunk(down, call.next)' <=> OnlyChunk(down, call.next)
    BY DEF OnlyChunk, IsChunk
  <1>4. NoChunk(down)' <=> NoChunk(down)
    BY DEF NoChunk, IsChunk
  <1> SUFFICES ASSUME call # None
               PROVE  AskedInv'
    BY DEF AskedInv
  <1>5. CASE call.pc = "opened" \/ call.pc = "connect"
    <2>1. call.attempt \in Conns
      BY <1>5 DEF TypeInv, CallFits
    <2>2. up'[call.attempt] \in {up[call.attempt], <<>>}
      BY <1>1, <1>5, <2>1 DEF AskedInv
    <2> QED  BY <1>2, <1>5, <2>1, <2>2 DEF AskedInv, Unopened
  <1>6. CASE call.pc = "chunk"
    <2>1. call.attempt \in Conns
      BY <1>6 DEF TypeInv, CallFits
    <2>2. up'[call.attempt] \in {up[call.attempt], <<>>}
      BY <1>1, <1>6, <2>1 DEF AskedInv
    <2> QED  BY <1>2, <1>3, <1>4, <1>6, <2>1, <2>2 DEF AskedInv, Unopened
  <1>7. CASE call.pc \notin {"opened", "connect", "chunk"}
    BY <1>2, <1>7 DEF AskedInv
  <1> QED  BY <1>5, <1>6, <1>7

\* A call that moves between the steps before an attempt is connected.
LEMMA AskedOuter ==
    ASSUME TypeInv, AskedInv,
           \/ StartDownload \/ InitDownloadFails \/ DropOtherPart
           \/ WriteSidecar \/ SidecarFails \/ Verify \/ Replace \/ ReplaceFails
           \/ RemoveSidecar \/ ClientCrash \/ AwaitComplete
           \/ Disconnected \/ Rejected \/ \E c \in Contents : DownloadFile(c)
    PROVE  AskedInv'
  <1>1. CASE call' = None
    BY <1>1 DEF AskedInv
  <1>2. CASE StartDownload \/ AwaitComplete \/ Verify \/ Replace
    <2>1. call' # None => call'.pc \in {"plan", "verify", "replace", "label gone"}
      <3>1. CASE StartDownload
        BY <3>1 DEF StartDownload
      <3>2. CASE AwaitComplete
        BY <3>2, Moved DEF AwaitComplete, At, TypeInv, Pcs
      <3>3. CASE Verify
        BY <3>3, Moved DEF Verify, At, TypeInv, Pcs, Return
      <3>4. CASE Replace
        BY <3>4, Moved DEF Replace, At, TypeInv, Pcs
      <3> QED  BY <1>2, <3>1, <3>2, <3>3, <3>4
    <2> QED  BY <2>1 DEF AskedInv, Unopened
  <1>3. CASE \/ DropOtherPart \/ WriteSidecar \/ SidecarFails
             \/ Disconnected /\ Goto("attempt")
    <2>1. /\ up' = up /\ call # None /\ call.pc \in Unopened
          /\ Goto("label") \/ Goto("attempt")
      BY <1>3 DEF DropOtherPart, WriteSidecar, SidecarFails, Disconnected, At,
                  Unopened
    <2>2. call'.pc \in {"label", "attempt"} /\ call'.attempt = call.attempt
      BY <2>1, Moved DEF TypeInv, Pcs
    <2> QED  BY <2>1, <2>2 DEF AskedInv, Unopened
  <1>4. ASSUME NEW c \in Contents, DownloadFile(c)
        PROVE  AskedInv'
    <2>1. call # None /\ Goto("prepare") /\ \A a \in Conns : up'[a] = <<>>
      BY <1>4 DEF DownloadFile, At, NoSession
    <2>2. call'.pc = "prepare"
      BY <2>1, Moved DEF TypeInv, Pcs
    <2> QED  BY <2>1, <2>2 DEF AskedInv
  <1> QED
    BY <1>1, <1>2, <1>3, <1>4
    DEF InitDownloadFails, ReplaceFails, RemoveSidecar, ClientCrash, Return,
        Disconnected, TryAgain, Rejected

LEMMA AskedAttempt ==
    ASSUME TypeInv, AskedInv, BeginAttempt \/ Connect
    PROVE  AskedInv'
  <1>1. CASE BeginAttempt
    <2>1. /\ call # None /\ call \in Call /\ call.pc = "attempt" /\ up' = up
          /\ call.attempt \in 0 .. MaxAttempts
      BY <1>1 DEF BeginAttempt, At, TypeInv, ClientType, Call
    <2>2. /\ call'.pc = "connect" /\ call'.attempt = call.attempt + 1
          /\ call'.attempt \in Conns
      BY <1>1, BeginAttemptType
    <2>3. \A a \in Conns : a > call.attempt => up[a] = <<>>
      BY <2>1 DEF AskedInv, Unopened
    <2>4. \A a \in Conns : a >= call'.attempt => a > call.attempt
      BY <2>1, <2>2, ConnsAreNat, BoundsAssumption
    <2> QED  BY <2>1, <2>2, <2>3, <2>4, ConnsAreNat DEF AskedInv
  <1>2. CASE Connect
    <2>1. /\ call # None /\ call.pc = "connect" /\ call.attempt \in Conns
          /\ Goto("opened") /\ down' = <<>>
          /\ up' = [up EXCEPT ![call.attempt] = Append(@, Open)]
      BY <1>2 DEF Connect, At, TypeInv, CallFits, Send, Conn
    <2>2. call'.pc = "opened" /\ call'.attempt = call.attempt
      BY <2>1, Moved DEF TypeInv, Pcs
    <2>3. up'[call.attempt] = <<Open>>
      <3>1. up[call.attempt] = <<>>
        BY <2>1 DEF AskedInv
      <3>2. Append(<<>>, Open) = <<Open>>
        OBVIOUS
      <3> QED  BY <2>1, <3>1, <3>2 DEF TypeInv, NodeType
    <2>4. \A a \in Conns : a > call.attempt => up'[a] = <<>>
      BY <2>1, ConnsAreNat DEF AskedInv, TypeInv, NodeType, Unopened
    <2>5. \A k \in 1 .. Len(down') : FALSE
      BY <2>1
    <2> QED  BY <2>1, <2>2, <2>3, <2>4, <2>5 DEF AskedInv
  <1> QED  BY <1>1, <1>2

LEMMA AskedOpened ==
    ASSUME TypeInv, AskedInv, Opened
    PROVE  AskedInv'
  <1> DEFINE first == IF call.first > FullChunks(want) THEN 0 ELSE call.first
             whole == first = Size[want]
  <1>1. /\ call # None /\ call.pc = "opened" /\ call.attempt \in Conns
        /\ call \in Call /\ Type = "OPEN_DOWNLOAD_RESP"
    BY DEF Opened, At, TypeInv, ClientType, CallFits
  <1>2. /\ call'.pc = IF whole THEN "verify" ELSE "chunk"
        /\ call'.next = first + 1 /\ call'.attempt = call.attempt
        /\ IF whole THEN UNCHANGED up ELSE Send(first + 1)
        /\ down' = <<>>
    BY <1>1 DEF Opened, Call
  <1> HIDE DEF first, whole
  <1>3. up[call.attempt] = <<>>
    <2>1. /\ down \in Seq(Message) /\ down # <<>>
          /\ Head(down).type = "OPEN_DOWNLOAD_RESP"
      BY <1>1, HeadOfDown DEF TypeInv, NodeType
    <2>2. 1 \in 1 .. Len(down) /\ down[1].type = "OPEN_DOWNLOAD_RESP"
      BY <2>1, TailOf
    <2> QED  BY <1>1, <2>2 DEF AskedInv
  <1>4. CASE whole
    BY <1>2, <1>4 DEF AskedInv, Unopened
  <1>5. CASE ~whole
    <2>1. up' = [up EXCEPT ![call.attempt] = Append(@, first + 1)]
      BY <1>2, <1>5 DEF Send, Conn
    <2>2. up'[call.attempt] = <<call'.next>>
      BY <1>1, <1>2, <1>3, <2>1 DEF TypeInv, NodeType
    <2>3. \A a \in Conns : a > call.attempt => up'[a] = <<>>
      BY <1>1, <2>1, ConnsAreNat DEF AskedInv, TypeInv, NodeType, Unopened
    <2>4. NoChunk(down)' /\ OnlyChunk(down, call.next)'
      BY <1>2 DEF NoChunk, OnlyChunk
    <2> QED
      BY <1>2, <1>5, <2>2, <2>3, <2>4 DEF AskedInv, Unopened, NoChunk
  <1> QED  BY <1>4, <1>5

LEMMA AskedReceived ==
    ASSUME TypeInv, AskedInv, ReceiveChunk
    PROVE  /\ AskedInv'
           /\ Head(down).piece \in {want} \X {call.next} \X BOOLEAN
  <1> DEFINE last == call.next = Size[want]
  <1>1. /\ call # None /\ call.pc = "chunk" /\ call.attempt \in Conns
        /\ call \in Call /\ Type = "DOWNLOAD_CHUNK"
    BY DEF ReceiveChunk, At, TypeInv, ClientType, CallFits
  <1>2. /\ call'.attempt = call.attempt
        /\ last => call'.pc \in {"complete", "verify"}
        /\ ~last => /\ call'.pc = "chunk" /\ call'.next = call.next + 1
                    /\ Send(call.next + 1)
        /\ down' = Tail(down) /\ (last => up' = up)
    BY <1>1 DEF ReceiveChunk, Call
  <1> HIDE DEF last
  <1>3. /\ down \in Seq(Message) /\ down # <<>> /\ IsChunk(Head(down))
    BY <1>1, HeadOfDown DEF TypeInv, NodeType, IsChunk
  <1>4. 1 \in 1 .. Len(down) /\ down[1] = Head(down)
    BY <1>3, TailOf
  <1>5. OnlyChunk(down, call.next) /\ up[call.attempt] = <<>>
    BY <1>1, <1>3, <1>4 DEF AskedInv, NoChunk
  <1>6. NoChunk(Tail(down))
    BY <1>3, <1>5, ChunkTaken
  <1>7. Head(down).piece \in {want} \X {call.next} \X BOOLEAN
    BY <1>3, <1>4, <1>5 DEF OnlyChunk
  <1>8. CASE last
    BY <1>2, <1>7, <1>8 DEF AskedInv, Unopened
  <1>9. CASE ~last
    <2>1. up' = [up EXCEPT ![call.attempt] = Append(@, call.next + 1)]
      BY <1>2, <1>9 DEF Send, Conn
    <2>2. up'[call.attempt] = <<call'.next>>
      BY <1>1, <1>2, <1>5, <1>9, <2>1 DEF TypeInv, NodeType
    <2>3. \A a \in Conns : a > call.attempt => up'[a] = <<>>
      BY <1>1, <2>1, ConnsAreNat DEF AskedInv, TypeInv, NodeType, Unopened
    <2>4. NoChunk(down)' /\ OnlyChunk(down, call.next)'
      BY <1>2, <1>6 DEF NoChunk, OnlyChunk
    <2> QED
      BY <1>2, <1>7, <1>9, <2>2, <2>3, <2>4 DEF AskedInv, Unopened
  <1> QED  BY <1>8, <1>9

\* An answer that reaches the client.
LEMMA AskedAnswered ==
    ASSUME TypeInv, AskedInv, NEW c \in Conns, Current(c),
           UNCHANGED <<call, want>>, NEW m \in Message, down' = Append(down, m),
           \/ up' = up /\ m.type = "DOWNLOAD_COMPLETE"
           \/ /\ up[c] # <<>> /\ up' = [up EXCEPT ![c] = Tail(up[c])]
              /\ IsChunk(m) => m.piece \in {want} \X {Head(up[c])} \X BOOLEAN
    PROVE  AskedInv'
  <1>1. /\ call # None /\ c = call.attempt /\ down \in Seq(Message)
        /\ call.pc \in {"opened", "chunk", "complete"}
    BY DEF Current, Conn, TypeInv, NodeType
  <1>2. \A r : Tail(<<r>>) = <<>> /\ Head(<<r>>) = r
    OBVIOUS
  <1>3. \A a \in Conns : a > call.attempt => up'[a] = up[a]
    BY <1>1, ConnsAreNat DEF TypeInv, NodeType
  <1>4. CASE call.pc = "complete"
    BY <1>4 DEF AskedInv, Unopened
  <1>5. CASE call.pc = "opened"
    <2>1. CASE up[c] = <<>>
      <3>1. up'[c] = <<>>
        BY <2>1
      <3> QED  BY <1>1, <1>3, <1>5, <3>1 DEF AskedInv, Unopened
    <2>2. CASE up[c] # <<>> /\ up' = [up EXCEPT ![c] = Tail(up[c])]
      <3>1. up'[c] = <<>>
        BY <1>1, <1>2, <1>5, <2>2 DEF AskedInv, TypeInv, NodeType
      <3> QED  BY <1>1, <1>3, <1>5, <3>1 DEF AskedInv, Unopened
    <2>3. CASE up[c] # <<>> /\ up' = up /\ m.type = "DOWNLOAD_COMPLETE"
      <3>1. /\ up[c] = <<Open>>
            /\ \A k \in 1 .. Len(down) : down[k].type # "OPEN_DOWNLOAD_RESP"
        BY <1>1, <1>5, <2>3 DEF AskedInv
      <3>2. \A k \in 1 .. Len(down') : down'[k].type # "OPEN_DOWNLOAD_RESP"
        <4>1. /\ Len(Append(down, m)) = Len(down) + 1
              /\ \A k \in 1 .. Len(down) : Append(down, m)[k] = down[k]
              /\ Append(down, m)[Len(down) + 1] = m
              /\ \A k \in 1 .. Len(down) + 1 :
                     k \in 1 .. Len(down) \/ k = Len(down) + 1
          BY <1>1, AppendedTo
        <4> QED  BY <2>3, <3>1, <4>1
      <3> QED  BY <1>1, <1>3, <1>5, <2>3, <3>1, <3>2 DEF AskedInv, Unopened
    <2> QED  BY <2>1, <2>2, <2>3
  <1>6. CASE call.pc = "chunk"
    <2>1. /\ OnlyChunk(down, call.next)
          /\ \/ up[c] = <<>>
             \/ up[c] = <<call.next>> /\ NoChunk(down)
          /\ \A a \in Conns : a > call.attempt => up[a] = <<>>
      BY <1>1, <1>6 DEF AskedInv, Unopened
    <2> DEFINE after == Append(down, m)
    <2>2. /\ ~IsChunk(m) /\ OnlyChunk(down, call.next)
              => OnlyChunk(after, call.next)
          /\ ~IsChunk(m) /\ NoChunk(down) => NoChunk(after)
          /\ NoChunk(down) /\ m.piece \in {want} \X {call.next} \X BOOLEAN
              => OnlyChunk(after, call.next)
      BY <1>1, AnswersKept
    <2>3. OnlyChunk(down, call.next)' <=> OnlyChunk(after, call.next)
      BY DEF OnlyChunk, IsChunk
    <2>4. NoChunk(down)' <=> NoChunk(after)
      BY DEF NoChunk, IsChunk
    <2> HIDE DEF after
    <2>5. CASE up' = up /\ m.type = "DOWNLOAD_COMPLETE"
      <3>1. ~IsChunk(m)
        BY <2>5 DEF IsChunk
      <3> QED
        BY <1>1, <1>3, <1>6, <2>1, <2>2, <2>3, <2>4, <2>5, <3>1
        DEF AskedInv, Unopened
    <2>6. CASE /\ up[c] # <<>> /\ up' = [up EXCEPT ![c] = Tail(up[c])]
               /\ IsChunk(m) => m.piece \in {want} \X {Head(up[c])} \X BOOLEAN
      <3>1. up[c] = <<call.next>> /\ NoChunk(down)
        BY <2>1, <2>6
      <3>2. up'[c] = <<>> /\ Head(up[c]) = call.next
        BY <1>2, <2>6, <3>1 DEF TypeInv, NodeType
      <3>3. OnlyChunk(after, call.next)
        BY <2>1, <2>2, <2>6, <3>1, <3>2
      <3> QED
        BY <1>1, <1>3, <1>6, <2>1, <2>3, <3>2, <3>3 DEF AskedInv, Unopened
    <2> QED  BY <2>5, <2>6
  <1> QED  BY <1>1, <1>4, <1>5, <1>6

LEMMA AskedHandler ==
    ASSUME TypeInv, WantFits, AskedInv, NEW c \in Conns, HandlerStep(c)
    PROVE  AskedInv'
  <1>1. NodeType /\ UNCHANGED <<call, want>>
    BY DEF TypeInv, HandlerStep, OpenDownload, OpenFails, SendChunk,
           RequestFails, MarkChunkSent, SendComplete, RemoveSession,
           HandlerEnds, callVars
  <1>2. ASSUME NEW r, Take(c, r), NEW m \in Message, Answer(c, m),
               IsChunk(m) => m.piece \in {want} \X {r} \X BOOLEAN
        PROVE  AskedInv'
    <2>1. up[c] # <<>> /\ r = Head(up[c]) /\ up' = [up EXCEPT ![c] = Tail(up[c])]
      BY <1>1, <1>2, Taken
    <2>2. CASE Current(c)
      <3>1. down' = Append(down, m)
        BY <1>2, <2>2 DEF Answer
      <3> QED  BY <1>1, <1>2, <2>1, <2>2, <3>1, AskedAnswered
    <2>3. CASE ~Current(c)
      <3>1. down' = down
        BY <1>2, <2>3 DEF Answer
      <3>2. \A a \in Conns : \/ up'[a] \in {up[a], <<>>}
                             \/ up[a] # <<>> /\ up'[a] = Tail(up[a])
        BY <1>1, <2>1 DEF NodeType
      <3> QED  BY <1>1, <3>1, <3>2, RequestsDropped
    <2> QED  BY <2>2, <2>3
  <1>3. CASE OpenDownload(c)
    <2>1. ~IsChunk([type |-> "OPEN_DOWNLOAD_RESP"])
      BY DEF IsChunk
    <2> QED  BY <1>2, <1>3, <2>1, MessagesAre DEF OpenDownload
  <1>4. CASE OpenFails(c)
    <2>1. ~IsChunk([type |-> "ERROR"])
      BY DEF IsChunk
    <2> QED  BY <1>2, <1>4, <2>1, MessagesAre DEF OpenFails
  <1>5. ASSUME NEW i \in 1 .. MaxSize, SendChunk(c, i) PROVE AskedInv'
    <2> DEFINE p == <<want, i, stored[want] = "intact">>
               m == [type |-> "DOWNLOAD_CHUNK", piece |-> p]
    <2>1. handlers[c].pc # "closed" /\ want \in Contents
      BY <1>5 DEF SendChunk, Take, Ready, WantFits
    <2>2. p \in Pieces
      BY <2>1 DEF Pieces
    <2>3. m \in Message
      BY <2>2, MessagesAre
    <2>4. Take(c, i) /\ Answer(c, m)
      BY <1>5 DEF SendChunk
    <2>5. m.piece \in {want} \X {i} \X BOOLEAN
      OBVIOUS
    <2> HIDE DEF m
    <2> QED  BY <1>2, <2>3, <2>4, <2>5
  <1>6. ASSUME NEW i \in 1 .. MaxSize, RequestFails(c, i) PROVE AskedInv'
    <2>1. /\ ~IsChunk([type |-> "INVALID_SESSION"])
          /\ ~IsChunk([type |-> "ERROR"])
      BY DEF IsChunk
    <2> QED  BY <1>2, <1>6, <2>1, MessagesAre DEF RequestFails
  <1>7. CASE SendComplete(c)
    <2> DEFINE m == [type |-> "DOWNLOAD_COMPLETE"]
    <2>1. up' = up /\ Answer(c, m)
      BY <1>7 DEF SendComplete
    <2>2. CASE Current(c)
      <3>1. down' = Append(down, m) /\ m \in Message
        BY <2>1, <2>2, MessagesAre DEF Answer
      <3> QED  BY <1>1, <2>1, <2>2, <3>1, AskedAnswered
    <2>3. CASE ~Current(c)
      BY <1>1, <2>1, <2>3, RequestsDropped DEF Answer
    <2> QED  BY <2>2, <2>3
  <1>8. CASE MarkChunkSent(c) \/ RemoveSession(c) \/ HandlerEnds(c)
    <2>1. down' = down /\ \A a \in Conns : up'[a] \in {up[a], <<>>}
      BY <1>1, <1>8
      DEF MarkChunkSent, RemoveSession, HandlerEnds, NodeType
    <2> QED  BY <1>1, <2>1, RequestsDropped
  <1> QED  BY <1>3, <1>4, <1>5, <1>6, <1>7, <1>8 DEF HandlerStep

LEMMA NextAsked ==
    ASSUME TypeInv, WantFits, AskedInv, [Next]_vars
    PROVE  AskedInv'
  <1>1. CASE \/ ExpireSession \/ NodeRestart \/ UNCHANGED vars
             \/ \E c \in Contents, state \in {"rotten", "gone"} :
                    DiskFails(c, state)
    <2>1. UNCHANGED <<call, want, down>>
      BY <1>1 DEF ExpireSession, NodeRestart, DiskFails, vars, callVars
    <2>2. \A a \in Conns : up'[a] \in {up[a], <<>>}
      BY <1>1 DEF ExpireSession, NodeRestart, DiskFails, vars
    <2> QED  BY <2>1, <2>2, RequestsDropped
  <1>2. CASE \E c \in Conns : HandlerStep(c)
    BY <1>2, AskedHandler
  <1> QED
    BY <1>1, <1>2, AskedOuter, AskedAttempt, AskedOpened, AskedReceived
    DEF Next, ClientStep

LEMMA InitAsked == Init => AskedInv
  BY DEF Init, AskedInv

----
(***************************************************************************)
(* The part.  From the sidecar's writing to the end of the call it names   *)
(* the content that is appended, unless it could not be written.           *)
(***************************************************************************)

Appending == {"attempt", "connect", "opened", "chunk", "complete", "verify",
              "replace"}

Named ==
    call # None =>
        /\ call.pc = "label" => part = None \/ meta = want
        /\ call.pc \in Appending => misnamed \/ meta = want
        /\ call.pc = "label gone" => part = None

\* A part that is cut, emptied, removed or left as it is.
LEMMA PartCut ==
    ASSUME ClientType, PartIsPrefix, meta' \in {meta, None},
           misnamed' \in {misnamed, TRUE},
           \/ part' \in {None, <<>>, part}
           \/ part # None /\ part' = Whole(part)
    PROVE  PartIsPrefix'
  <1>1. CASE part' \in {None, <<>>, part}
    <2>1. CASE part' = <<>>
      <3>1. \A i \in 1 .. Len(part') : FALSE
        BY <2>1
      <3> QED  BY <3>1 DEF PartIsPrefix
    <2>2. CASE part' \in {None, part}
      BY <2>2 DEF PartIsPrefix
    <2> QED  BY <1>1, <2>1, <2>2
  <1>2. CASE part # None /\ part' = Whole(part)
    <2>1. part \in Seq(Pieces) \ {None}
      BY <1>2 DEF ClientType
    <2>2. /\ Len(Whole(part)) \in Nat /\ Len(Whole(part)) <= Len(part)
          /\ \A i \in 1 .. Len(Whole(part)) : Whole(part)[i] = part[i]
      BY <2>1, WholeIsPrefix
    <2>3. Len(part) \in Nat
      BY <2>1
    <2>4. \A i \in 1 .. Len(part') : i \in 1 .. Len(part) /\ part'[i] = part[i]
      BY <1>2, <2>2, <2>3
    <2> QED  BY <1>2, <2>1, <2>4 DEF PartIsPrefix
  <1> QED  BY <1>1, <1>2

LEMMA PrefixReceived ==
    ASSUME TypeInv, AskedInv, PartIsPrefix, Named, ReceiveChunk
    PROVE  PartIsPrefix' /\ Named'
  <1>1. /\ call # None /\ call.pc = "chunk" /\ call \in Call
        /\ part \in Seq(Pieces) /\ part # None
        /\ call.next = Len(part) + 1
    BY NoneAssumption
    DEF ReceiveChunk, At, TypeInv, ClientType, CallFits, Call
  <1>2. PICK piece : /\ piece = Head(down).piece
                     /\ part' = Append(part, piece)
                     /\ UNCHANGED <<meta, want, misnamed>>
    BY DEF ReceiveChunk, callVars
  <1>3. piece \in {want} \X {call.next} \X BOOLEAN
    BY <1>2, AskedReceived
  <1>4. misnamed \/ meta = want
    BY <1>1 DEF Named, Appending
  <1>5. /\ Len(Append(part, piece)) = Len(part) + 1
        /\ \A k \in 1 .. Len(part) : Append(part, piece)[k] = part[k]
        /\ Append(part, piece)[Len(part) + 1] = piece
        /\ \A k \in 1 .. Len(part) + 1 : k \in 1 .. Len(part) \/ k = Len(part) + 1
    BY <1>1, AppendedTo
  <1>6. PartIsPrefix'
    BY <1>1, <1>2, <1>3, <1>4, <1>5 DEF PartIsPrefix
  <1>7. call'.pc \in {"chunk", "complete", "verify"}
    BY <1>1 DEF ReceiveChunk, Call
  <1> QED  BY <1>2, <1>4, <1>6, <1>7 DEF Named, Appending

LEMMA NextPrefix ==
    ASSUME TypeInv, AskedInv, PartIsPrefix, Named, [Next]_vars
    PROVE  PartIsPrefix' /\ Named'
  <1>1. ClientType
    BY DEF TypeInv
  <1>2. CASE \/ ExpireSession \/ NodeRestart \/ UNCHANGED vars
             \/ \E c \in Contents, state \in {"rotten", "gone"} :
                    DiskFails(c, state)
             \/ \E c \in Conns : HandlerStep(c)
    <2>1. UNCHANGED <<part, meta, misnamed, call, want>>
      BY <1>2 DEF ExpireSession, NodeRestart, DiskFails, vars, diskVars, callVars,
                  HandlerStep, OpenDownload, OpenFails, SendChunk, RequestFails,
                  MarkChunkSent, SendComplete, RemoveSession, HandlerEnds
    <2> QED  BY <2>1 DEF PartIsPrefix, Named
  <1>3. ASSUME call' = None, UNCHANGED <<part, misnamed>>, meta' \in {meta, None}
        PROVE  PartIsPrefix' /\ Named'
    BY <1>1, <1>3, PartCut DEF Named
  <1>4. CASE InitDownloadFails \/ ReplaceFails \/ RemoveSidecar \/ ClientCrash
             \/ Rejected
    BY <1>3, <1>4
    DEF InitDownloadFails, ReplaceFails, RemoveSidecar, ClientCrash, Rejected,
        Return, diskVars
  <1>5. CASE StartDownload
    BY <1>1, <1>5, PartCut DEF StartDownload, diskVars, Named, Appending
  <1>6. CASE \E c \in Contents : DownloadFile(c)
    <2>1. call # None /\ Goto("prepare") /\ UNCHANGED <<diskVars, misnamed>>
      BY <1>6 DEF DownloadFile, At
    <2>2. call'.pc = "prepare"
      BY <1>1, <2>1, Moved DEF Pcs
    <2> QED  BY <1>1, <2>1, <2>2, PartCut DEF diskVars, Named, Appending
  <1>7. CASE DropOtherPart
    <2>1. /\ call # None /\ Goto("label") /\ UNCHANGED <<want, misnamed>>
          /\ \/ part' = None /\ meta' = None
             \/ part' = part /\ meta' = meta /\ (part = None \/ meta = want)
      BY <1>7 DEF DropOtherPart, At, callVars
    <2>2. call'.pc = "label"
      BY <1>1, <2>1, Moved DEF Pcs
    <2> QED  BY <1>1, <2>1, <2>2, PartCut DEF Named, Appending
  <1>8. CASE WriteSidecar
    <2>1. /\ call # None /\ call.pc = "label" /\ Goto("attempt")
          /\ UNCHANGED <<part, want, misnamed>> /\ meta' = want
      BY <1>8 DEF WriteSidecar, At, callVars
    <2>2. call'.pc = "attempt"
      BY <1>1, <2>1, Moved DEF Pcs
    <2>3. part = None \/ meta = want
      BY <2>1 DEF Named
    <2> QED  BY <2>1, <2>2, <2>3 DEF Named, Appending, PartIsPrefix
  <1>9. CASE SidecarFails
    <2>1. /\ call # None /\ Goto("attempt") /\ misnamed' = TRUE
      BY <1>9 DEF SidecarFails, At
    <2>2. call'.pc = "attempt"
      BY <1>1, <2>1, Moved DEF Pcs
    <2> QED  BY <2>1, <2>2 DEF Named, Appending, PartIsPrefix
  <1>10. ASSUME call # None, call.pc \in Appending,
                call'.pc \in Appending, UNCHANGED <<meta, want, misnamed>>,
                \/ part' \in {None, <<>>, part}
                \/ part # None /\ part' = Whole(part)
         PROVE  PartIsPrefix' /\ Named'
    BY <1>1, <1>10, PartCut DEF Named, Appending
  <1>11. CASE BeginAttempt
    <2>1. call # None /\ call.pc = "attempt" /\ call'.pc = "connect"
      BY <1>11, BeginAttemptType DEF BeginAttempt, At
    <2>2. /\ part' = IF part = None THEN None ELSE Whole(part)
          /\ UNCHANGED <<meta, want, misnamed>>
      BY <1>11 DEF BeginAttempt, callVars
    <2> QED  BY <1>10, <2>1, <2>2 DEF Appending
  <1>12. ASSUME NEW pc \in Pcs, call # None, call.pc \in Appending, Goto(pc),
                pc \in Appending, UNCHANGED <<meta, want, misnamed>>,
                part' \in {None, <<>>, part}
         PROVE  PartIsPrefix' /\ Named'
    <2>1. call'.pc = pc
      BY <1>1, <1>12, Moved
    <2> QED  BY <1>1, <1>12, <2>1, PartCut DEF Named, Appending
  <1>13. CASE Connect \/ AwaitComplete
    BY <1>12, <1>13
    DEF Connect, AwaitComplete, At, Appending, Pcs, callVars, diskVars
  <1>14. CASE Disconnected
    BY <1>3, <1>12, <1>14
    DEF Disconnected, TryAgain, Return, Appending, Pcs, callVars, diskVars
  <1>15. CASE Opened
    <2>1. /\ call # None /\ call.pc = "opened" /\ call \in Call
      BY <1>15 DEF Opened, At, TypeInv, ClientType
    <2>2. /\ call'.pc \in {"verify", "chunk"} /\ part' \in {<<>>, part}
          /\ UNCHANGED <<meta, want, misnamed>>
      BY <1>15, <2>1 DEF Opened, Call, callVars
    <2> QED  BY <1>1, <2>1, <2>2, PartCut DEF Named, Appending
  <1>16. CASE ReceiveChunk
    BY <1>16, PrefixReceived
  <1>17. CASE Verify
    <2>1. /\ call # None /\ call.pc = "verify" /\ UNCHANGED <<want, misnamed>>
          /\ \/ Goto("replace") /\ UNCHANGED <<part, meta>>
             \/ part' = None /\ meta' = None /\ Return
      BY <1>17 DEF Verify, At, callVars
    <2>2. CASE Goto("replace") /\ UNCHANGED <<part, meta>>
      BY <1>12, <2>1, <2>2 DEF Appending, Pcs
    <2>3. CASE part' = None /\ meta' = None /\ Return
      BY <1>1, <2>1, <2>3, PartCut DEF Named, Return
    <2> QED  BY <2>1, <2>2, <2>3
  <1>18. CASE Replace
    <2>1. /\ call # None /\ Goto("label gone") /\ part' = None
          /\ UNCHANGED <<meta, misnamed>>
      BY <1>18 DEF Replace, At
    <2>2. call'.pc = "label gone"
      BY <1>1, <2>1, Moved DEF Pcs
    <2> QED  BY <1>1, <2>1, <2>2, PartCut DEF Named, Appending
  <1> QED
    BY <1>2, <1>4, <1>5, <1>6, <1>7, <1>8, <1>9, <1>11, <1>13, <1>14, <1>15,
       <1>16, <1>17, <1>18
    DEF Next, ClientStep

LEMMA InitPrefix == Init => PartIsPrefix /\ Named
  BY DEF Init, PartIsPrefix, Named

\* A part whose content the sidecar names holds chunks of that content, in
\* their order, however many attempts and calls have appended to it, unless
\* the sidecar could not be written.
THEOREM PartAlwaysPrefix == Spec => []PartIsPrefix
  BY InitType, InitWant, NextType, InitAsked, NextAsked, InitPrefix, NextPrefix,
     PTL DEF Spec

----
(***************************************************************************)
(* The session.  The requests, marks and sent chunks of a call go no       *)
(* further than the chunk its client asks for, and those of its earlier    *)
(* connections no further than where the present one began.                *)
(***************************************************************************)

\* a is not asked for a chunk after m, and does not mark one.
AskedUpTo(a, m) ==
    /\ \A k \in 1 .. Len(up[a]) : up[a][k] <= m
    /\ handlers[a].pc = "mark" => handlers[a].chunk <= m

SentUpTo(m) == \A o \in Conns : sent[o] \subseteq 1 .. m

UpTo(m) == SentUpTo(m) /\ \A a \in Conns : AskedUpTo(a, m)

Held == IF part = None THEN 0 ELSE Len(part)

\* A short chunk is never followed by another.
ShortIsLast == part # None => \A i \in 1 .. Len(part) - 1 : ~Short(part[i])

NoneShort == part # None => \A i \in 1 .. Len(part) : ~Short(part[i])

\* What an attempt goes on from covers what was asked for by those before it.
Covered == UpTo(0) \/ (Held <= FullChunks(want) /\ UpTo(Held + 1))

ReachInv ==
    /\ ShortIsLast
    /\ call # None =>
        /\ call.pc \in {"prepare", "label"} => UpTo(0)
        /\ call.pc = "attempt" => IF call.attempt = 0 THEN UpTo(0) ELSE NoneShort /\ Covered
        /\ call.pc \in {"connect", "opened"} => NoneShort /\ Covered

\* At a client that waits for its session, the session it is told of is there.
OpenedAt(c) ==
    /\ handlers[c].pc \in {"ready", "closed"}
    /\ (\E k \in 1 .. Len(down) : down[k].type = "OPEN_DOWNLOAD_RESP")
       => lost \/ session # None

Arrived == down # <<>> /\ IsChunk(Head(down))

\* At a client that went on from chunk f and waits for chunk n, the session is
\* there until the last chunk has arrived.
ChunkAt(c, f, n) ==
    /\ f < n /\ NoneShort /\ SentUpTo(n)
    /\ \A a \in Conns \ {c} : AskedUpTo(a, f + 1)
    /\ handlers[c].pc = "mark" =>
           /\ handlers[c].chunk \in f + 1 .. n
           /\ handlers[c].chunk = n => Arrived
    /\ handlers[c].pc \in {"complete", "remove"} => Arrived /\ n = Size[want]
    /\ \A o \in Conns : n \in sent[o] => n = f + 1 \/ Arrived
    /\ up[c] # <<>> => down = <<>>
    /\ Arrived /\ n < Size[want] => Tail(down) = <<>>
    /\ down = <<>> \/ n < Size[want] => lost \/ session # None
    /\ Type \in {"INVALID_SESSION", "DOWNLOAD_COMPLETE"} => lost

SessionInv ==
    /\ ReachInv
    /\ call # None =>
        /\ call.pc = "opened" => OpenedAt(Conn)
        /\ call.pc = "chunk" => ChunkAt(Conn, call.first, call.next)

LEMMA InitSession == Init => SessionInv
  BY DEF Init, SessionInv, ReachInv, ShortIsLast

LEMMA FullChunksAre ==
    ASSUME NEW c \in Contents
    PROVE  /\ FullChunks(c) \in Int
           /\ FullChunks(c) <= Size[c] /\ Size[c] - 1 <= FullChunks(c)
  BY SizeAssumption DEF FullChunks

LEMMA UpToMore ==
    ASSUME TypeInv, NEW m \in Nat, NEW n \in Nat, m <= n
    PROVE  /\ SentUpTo(m) => SentUpTo(n)
           /\ \A a \in Conns : AskedUpTo(a, m) => AskedUpTo(a, n)
           /\ UpTo(m) => UpTo(n)
  <1>1. SentUpTo(m) => SentUpTo(n)
    <2> SUFFICES ASSUME SentUpTo(m), NEW o \in Conns, NEW k \in sent[o]
                 PROVE  k \in 1 .. n
      BY DEF SentUpTo
    <2>1. k \in 1 .. m
      BY DEF SentUpTo
    <2> QED  BY <2>1
  <1>2. ASSUME NEW a \in Conns, AskedUpTo(a, m) PROVE AskedUpTo(a, n)
    <2>1. \A k \in 1 .. Len(up[a]) : up[a][k] <= n
      <3> SUFFICES ASSUME NEW k \in 1 .. Len(up[a]) PROVE up[a][k] <= n
        OBVIOUS
      <3>1. up[a] \in Seq(0 .. MaxSize) /\ MaxSize \in Nat
        BY MaxSizeBounds DEF TypeInv, NodeType
      <3>2. up[a][k] \in Nat /\ up[a][k] <= m
        BY <1>2, <3>1 DEF AskedUpTo
      <3> QED  BY <3>2
    <2>2. handlers[a].pc = "mark" => handlers[a].chunk <= n
      <3>1. handlers[a].pc = "mark" => handlers[a].chunk \in Nat
        BY HandlersAre, MaxSizeBounds DEF TypeInv, NodeType
      <3> QED  BY <1>2, <3>1 DEF AskedUpTo
    <2> QED  BY <2>1, <2>2 DEF AskedUpTo
  <1> QED  BY <1>1, <1>2 DEF UpTo

----
(***************************************************************************)
(* What the node does.                                                     *)
(***************************************************************************)

\* The handler of one connection moves, and the client's end stays.
HandlerMoves(c) ==
    /\ UNCHANGED <<part, call, want>>
    /\ \A a \in Conns \ {c} : handlers'[a] = handlers[a] /\ up'[a] = up[a]
    /\ \/ up'[c] \in {up[c], <<>>}
       \/ up[c] # <<>> /\ up'[c] = Tail(up[c])
    /\ handlers'[c].pc = "mark" => up[c] # <<>> /\ handlers'[c].chunk = Head(up[c])
    /\ MarkChunkSent(c) \/ sent' = sent
    /\ Current(c) \/ down' = down
    /\ lost => lost'
    /\ session' = session \/ session' # None \/ RemoveSession(c)

LEMMA HandlerAlone ==
    ASSUME TypeInv, NEW c \in Conns, HandlerStep(c)
    PROVE  HandlerMoves(c)
  <1>0. NodeType
    BY DEF TypeInv
  <1>1. ASSUME NEW r, Take(c, r)
        PROVE  /\ up[c] # <<>> /\ r = Head(up[c])
               /\ up'[c] = Tail(up[c]) /\ \A a \in Conns \ {c} : up'[a] = up[a]
               /\ handlers[c] = Ready /\ handlers[c].pc # "mark"
    BY <1>0, <1>1, Taken DEF NodeType, Take, Ready
  <1>2. ASSUME NEW h, Become(c, h)
        PROVE  handlers'[c] = h /\ \A a \in Conns \ {c} : handlers'[a] = handlers[a]
    BY <1>0, <1>2 DEF Become, NodeType
  <1>3. CASE OpenDownload(c)
    <2>1. session' # None
      BY <1>3, NoneAssumption DEF OpenDownload
    <2> QED  BY <1>1, <1>3, <2>1 DEF OpenDownload, Answer, diskVars, callVars, HandlerMoves
  <1>4. CASE OpenFails(c) \/ \E i \in 1 .. MaxSize : RequestFails(c, i)
    BY <1>1, <1>4
    DEF OpenFails, RequestFails, Answer, diskVars, callVars, nodeVars, HandlerMoves
  <1>5. ASSUME NEW i \in 1 .. MaxSize, SendChunk(c, i) PROVE HandlerMoves(c)
    <2>1. Take(c, i) /\ Become(c, [pc |-> "mark", object |-> session, chunk |-> i])
      BY <1>5 DEF SendChunk
    <2>2. handlers'[c].chunk = i
      BY <1>2, <2>1
    <2>3. /\ UNCHANGED <<part, call, want, sent, session, lost>>
          /\ Current(c) \/ down' = down
      BY <1>5 DEF SendChunk, Answer, diskVars, callVars
    <2> QED  BY <1>1, <1>2, <2>1, <2>2, <2>3 DEF HandlerMoves
  <1>6. CASE MarkChunkSent(c) \/ SendComplete(c)
    <2>1. \E h : Become(c, h) /\ h.pc # "mark"
      BY <1>6 DEF MarkChunkSent, SendComplete, Ready
    <2>2. /\ UNCHANGED <<part, call, want, up, session, lost>>
          /\ MarkChunkSent(c) \/ sent' = sent
          /\ Current(c) \/ down' = down
      BY <1>6 DEF MarkChunkSent, SendComplete, Answer, diskVars, callVars
    <2> QED  BY <1>2, <2>1, <2>2 DEF HandlerMoves
  <1>7. CASE RemoveSession(c) \/ HandlerEnds(c)
    <2>1. \E h : Become(c, h) /\ h.pc # "mark"
      BY <1>7 DEF RemoveSession, HandlerEnds, Ready, Closed
    <2>2. /\ UNCHANGED <<part, call, want, down, sent>>
          /\ up'[c] \in {up[c], <<>>} /\ \A a \in Conns \ {c} : up'[a] = up[a]
          /\ lost => lost'
          /\ session' = session \/ RemoveSession(c)
      BY <1>0, <1>7 DEF RemoveSession, HandlerEnds, diskVars, callVars, NodeType
    <2> QED  BY <1>2, <2>1, <2>2 DEF HandlerMoves
  <1> QED  BY <1>3, <1>4, <1>5, <1>6, <1>7 DEF HandlerStep

\* Neither requests nor marks appear at the node that were not asked for.
LEMMA AsksNoMore ==
    ASSUME TypeInv, NEW c \in Conns, HandlerStep(c), NEW m \in Nat, NEW a \in Conns,
           AskedUpTo(a, m)
    PROVE  AskedUpTo(a, m)'
  <1>0. HandlerMoves(c)
    BY HandlerAlone
  <1>1. CASE a # c
    BY <1>0, <1>1 DEF HandlerMoves, AskedUpTo
  <1>2. CASE a = c
    <2>1. up[c] \in Seq(0 .. MaxSize) /\ \A k \in 1 .. Len(up[c]) : up[c][k] <= m
      BY <1>2 DEF AskedUpTo, TypeInv, NodeType
    <2>2. up[c] # <<>> => Head(up[c]) <= m
      BY <2>1, TailOf
    <2>3. \A k \in 1 .. Len(up'[c]) : up'[c][k] <= m
      <3>1. CASE up'[c] = up[c]
        BY <2>1, <3>1
      <3>2. CASE up'[c] = <<>>
        BY <3>2
      <3>3. CASE up[c] # <<>> /\ up'[c] = Tail(up[c])
        <4>1. /\ Len(up[c]) \in Nat \ {0} /\ Len(up'[c]) = Len(up[c]) - 1
              /\ \A k \in 1 .. Len(up'[c]) : up'[c][k] = up[c][k + 1]
          BY <2>1, <3>3, TailOf
        <4> QED  BY <2>1, <4>1
      <3> QED  BY <1>0, <3>1, <3>2, <3>3 DEF HandlerMoves
    <2> QED  BY <1>0, <1>2, <2>2, <2>3 DEF HandlerMoves, AskedUpTo
  <1> QED  BY <1>1, <1>2

\* What a mark adds.
LEMMA MarkAdds ==
    ASSUME TypeInv, NEW c \in Conns, HandlerStep(c), NEW o \in Conns
    PROVE  \/ sent'[o] = sent[o]
           \/ /\ handlers[c].pc = "mark" /\ handlers[c].chunk \in 1 .. MaxSize
              /\ sent'[o] = sent[o] \cup {handlers[c].chunk}
  <1>1. CASE MarkChunkSent(c)
    <2>1. handlers[c].pc = "mark" /\ handlers[c].chunk \in 1 .. MaxSize
      BY <1>1, HandlersAre DEF MarkChunkSent, TypeInv, NodeType
    <2> QED  BY <1>1, <2>1 DEF MarkChunkSent, TypeInv, NodeType
  <1>2. CASE sent' = sent
    BY <1>2
  <1> QED  BY <1>1, <1>2, HandlerAlone DEF HandlerMoves

LEMMA SendsNoMore ==
    ASSUME TypeInv, NEW c \in Conns, HandlerStep(c), NEW m \in Nat, SentUpTo(m),
           AskedUpTo(c, m)
    PROVE  SentUpTo(m)'
  <1> SUFFICES ASSUME NEW o \in Conns PROVE sent'[o] \subseteq 1 .. m
    BY DEF SentUpTo
  <1>1. \/ sent'[o] = sent[o]
        \/ /\ handlers[c].pc = "mark" /\ handlers[c].chunk \in 1 .. MaxSize
           /\ sent'[o] = sent[o] \cup {handlers[c].chunk}
    BY MarkAdds
  <1> QED  BY <1>1, MaxSizeBounds DEF SentUpTo, AskedUpTo

\* A step that keeps every bound keeps what an attempt goes on from.
LEMMA ReachKept ==
    ASSUME TypeInv, ReachInv, UNCHANGED <<part, call, want>>,
           \A m \in Nat : UpTo(m) => UpTo(m)'
    PROVE  ReachInv'
  <1>1. Held \in Nat /\ Held' = Held
    BY DEF Held, TypeInv, ClientType
  <1>2. FullChunks(want)' = FullChunks(want)
    BY DEF FullChunks
  <1>3. UpTo(Held + 1) => UpTo(Held + 1)'
    <2> PICK m \in Nat : m = Held + 1
      BY <1>1
    <2> QED  BY <1>1 DEF UpTo, SentUpTo, AskedUpTo
  <1>4. Covered => Covered'
    BY <1>1, <1>2, <1>3 DEF Covered
  <1>5. UpTo(0) => UpTo(0)'
    OBVIOUS
  <1> QED  BY <1>4, <1>5 DEF ReachInv, ShortIsLast, NoneShort

\* The handler of the connection the client listens on.
LEMMA ServesChunk ==
    ASSUME TypeInv, WantFits, AskedInv, call # None, call.pc = "chunk",
           NEW c \in Conns, c = Conn, NEW f \in Nat, NEW n \in Nat,
           n = call.next, ChunkAt(c, f, n), HandlerStep(c)
    PROVE  ChunkAt(c, f, n)'
  <1>0. NodeType /\ down \in Seq(Message) /\ HandlerMoves(c)
    BY HandlerAlone DEF TypeInv, NodeType
  <1>1. /\ f < n /\ NoneShort /\ SentUpTo(n)
        /\ \A a \in Conns \ {c} : AskedUpTo(a, f + 1)
        /\ UNCHANGED <<part, call, want>>
    BY <1>0 DEF ChunkAt, HandlerMoves
  <1>2. Current(c)
    BY DEF Current
  <1>3. /\ NoneShort'
        /\ \A a \in Conns \ {c} : AskedUpTo(a, f + 1)'
    BY <1>1, AsksNoMore DEF NoneShort
  <1>4. SentUpTo(n)'
    <2>1. \A k \in 1 .. Len(up[c]) : up[c][k] <= n
      <3>1. up[c] = <<>> \/ up[c] = <<n>>
        BY DEF AskedInv, Conn
      <3> QED  BY <3>1
    <2>2. handlers[c].pc = "mark" => handlers[c].chunk <= n
      BY DEF ChunkAt
    <2> QED  BY <1>1, <2>1, <2>2, SendsNoMore DEF AskedUpTo
  <1>5. ASSUME NEW r, Take(c, r)
        PROVE  /\ r = n /\ up[c] = <<n>> /\ down = <<>> /\ up'[c] = <<>> /\ ~Arrived
               /\ handlers[c].pc = "ready" /\ (lost \/ session # None)
    <2>1. /\ up[c] # <<>> /\ r = Head(up[c]) /\ up' = [up EXCEPT ![c] = Tail(up[c])]
          /\ handlers[c].pc = "ready"
      BY <1>0, <1>5, Taken DEF Take, Ready
    <2>2. up[c] = <<n>>
      BY <2>1 DEF AskedInv, Conn
    <2> QED  BY <1>0, <2>1, <2>2 DEF ChunkAt, NodeType, Arrived
  <1>6. CASE OpenDownload(c) \/ OpenFails(c)
    <2>1. Take(c, Open)
      BY <1>6 DEF OpenDownload, OpenFails
    <2>2. n = Open
      BY <1>5, <2>1
    <2> QED  BY <1>1, <2>2 DEF Open
  <1>7. ASSUME NEW i \in 1 .. MaxSize, SendChunk(c, i) PROVE ChunkAt(c, f, n)'
    <2> DEFINE m == [type |-> "DOWNLOAD_CHUNK", piece |-> <<want, i, stored[want] = "intact">>]
    <2>1. /\ Take(c, i) /\ Answer(c, m) /\ session # None
          /\ Become(c, [pc |-> "mark", object |-> session, chunk |-> i])
          /\ UNCHANGED <<session, sent, lost>>
      BY <1>7 DEF SendChunk
    <2>2. handlers'[c].pc = "mark" /\ handlers'[c].chunk = n
      BY <1>0, <1>5, <2>1 DEF Become, NodeType
    <2>3. m.type = "DOWNLOAD_CHUNK"
      OBVIOUS
    <2>4. down' = Append(<<>>, m)
      BY <1>2, <1>5, <2>1 DEF Answer
    <2> HIDE DEF m
    <2>5. down' # <<>> /\ Head(down') = m /\ Tail(down') = <<>>
      BY <2>4
    <2>6. Arrived' /\ Type' = "DOWNLOAD_CHUNK"
      BY <2>3, <2>5 DEF Arrived, IsChunk, Type
    <2>7. up'[c] = <<>>
      BY <1>5, <2>1
    <2> QED  BY <1>1, <1>3, <1>4, <2>1, <2>2, <2>5, <2>6, <2>7 DEF ChunkAt
  <1>8. ASSUME NEW i \in 1 .. MaxSize, RequestFails(c, i) PROVE ChunkAt(c, f, n)'
    <2>1. /\ Take(c, i) /\ UNCHANGED <<session, sent, handlers, lost>>
          /\ \/ session = None
             \/ Answer(c, [type |-> "ERROR"])
      BY <1>8 DEF RequestFails, nodeVars
    <2>2. /\ up'[c] = <<>> /\ handlers'[c].pc = "ready" /\ (lost \/ session # None)
          /\ ~Arrived
      BY <1>5, <2>1
    <2>3. lost' \/ Type' = "ERROR"
      <3>1. CASE session = None
        BY <2>1, <2>2, <3>1
      <3>2. CASE Answer(c, [type |-> "ERROR"])
        <4>1. down' = Append(<<>>, [type |-> "ERROR"])
          BY <1>2, <1>5, <2>1, <3>2 DEF Answer
        <4>2. down' # <<>> /\ Head(down') = [type |-> "ERROR"]
          BY <4>1
        <4> QED  BY <4>2 DEF Type
      <3> QED  BY <2>1, <3>1, <3>2
    <2>4. \A o \in Conns : n \in sent'[o] => n = f + 1
      BY <2>1, <2>2 DEF ChunkAt
    <2>5. ~Arrived'
      <3>1. \E m : down' = Append(<<>>, m) /\ ~IsChunk(m)
        <4>1. /\ ~IsChunk([type |-> "INVALID_SESSION"]) /\ ~IsChunk([type |-> "ERROR"])
          BY DEF IsChunk
        <4>2. \/ Answer(c, [type |-> "INVALID_SESSION"])
              \/ Answer(c, [type |-> "ERROR"])
          BY <1>8 DEF RequestFails
        <4> QED  BY <1>2, <1>5, <2>1, <4>1, <4>2 DEF Answer
      <3>2. PICK m : down' = Append(<<>>, m) /\ ~IsChunk(m)
        BY <3>1
      <3>3. Head(down') = m
        BY <3>2
      <3> QED  BY <3>2, <3>3 DEF Arrived, IsChunk
    <2> QED  BY <1>1, <1>3, <1>4, <2>1, <2>2, <2>3, <2>4, <2>5 DEF ChunkAt
  <1>9. CASE MarkChunkSent(c)
    <2>1. /\ handlers[c].pc = "mark" /\ handlers[c].object \in Conns
          /\ handlers[c].chunk \in f + 1 .. n
          /\ handlers[c].chunk = n => Arrived
      BY <1>0, <1>9, HandlersAre DEF MarkChunkSent, NodeType, ChunkAt
    <2>2. UNCHANGED <<up, down, session, lost>>
      BY <1>9 DEF MarkChunkSent
    <2>3. Arrived' = Arrived /\ Type' = Type
      BY <2>2 DEF Arrived, IsChunk, Type
    <2>4. ASSUME NEW o \in Conns, n \in sent'[o]
          PROVE  n = f + 1 \/ Arrived
      <3>1. sent'[o] = sent[o] \/ sent'[o] = sent[o] \cup {handlers[c].chunk}
        BY MarkAdds
      <3> QED  BY <2>1, <2>4, <3>1 DEF ChunkAt
    <2>5. /\ handlers'[c].pc # "mark"
          /\ handlers'[c].pc \in {"complete", "remove"} => Arrived /\ n = Size[want]
      <3> DEFINE o == handlers[c].object
      <3>1. /\ handlers'[c].pc \in {"ready", "complete"}
            /\ handlers'[c].pc = "complete" => sent'[o] = 1 .. Size[want]
        BY <1>0, <1>9 DEF MarkChunkSent, Become, Ready, NodeType
      <3>2. ASSUME handlers'[c].pc = "complete"
            PROVE  Arrived /\ n = Size[want]
        <4>1. call.next \in 1 .. Size[want] /\ want \in Contents
          BY DEF TypeInv, CallFits
        <4>2. Size[want] \in Nat /\ n <= Size[want] /\ n >= 1
          BY <4>1, SizeAssumption
        <4>3. Size[want] \in sent'[o] /\ sent'[o] \subseteq 1 .. n
          BY <1>4, <2>1, <3>1, <3>2, <4>2 DEF SentUpTo
        <4>4. n = Size[want] /\ n \in sent'[o]
          BY <4>2, <4>3
        <4>5. n = f + 1 \/ Arrived
          BY <2>1, <2>4, <4>4
        <4> QED  BY <2>1, <4>4, <4>5
      <3> QED  BY <3>1, <3>2
    <2> QED  BY <1>1, <1>3, <1>4, <2>2, <2>3, <2>4, <2>5 DEF ChunkAt
  <1>10. CASE SendComplete(c)
    <2>1. /\ Arrived /\ n = Size[want] /\ UNCHANGED <<up, session, sent, lost>>
          /\ Answer(c, [type |-> "DOWNLOAD_COMPLETE"])
          /\ handlers'[c].pc = "remove"
      BY <1>0, <1>10 DEF SendComplete, ChunkAt, Become, NodeType
    <2>2. \E m : down' = Append(down, m)
      BY <1>2, <2>1 DEF Answer
    <2>3. down # <<>> /\ down' # <<>> /\ Head(down') = Head(down)
      BY <1>0, <2>1, <2>2 DEF Arrived
    <2>4. Arrived' /\ Type' = Type /\ up[c] = <<>>
      BY <2>1, <2>3 DEF Arrived, IsChunk, Type, ChunkAt
    <2>5. ~(n < Size[want])
      BY <2>1
    <2> QED  BY <1>1, <1>3, <1>4, <2>1, <2>3, <2>4, <2>5 DEF ChunkAt
  <1>11. CASE RemoveSession(c)
    <2>1. /\ Arrived /\ n = Size[want] /\ UNCHANGED <<up, down, sent>>
          /\ handlers'[c].pc = "ready"
          /\ lost => lost'
      BY <1>0, <1>11 DEF RemoveSession, ChunkAt, Become, Ready, NodeType
    <2>2. Arrived' /\ Type' = Type /\ down # <<>> /\ ~(n < Size[want])
      BY <2>1 DEF Arrived, IsChunk, Type
    <2> QED  BY <1>1, <1>3, <1>4, <2>1, <2>2 DEF ChunkAt
  <1>12. CASE HandlerEnds(c)
    BY <1>2, <1>12 DEF HandlerEnds
  <1> QED
    BY <1>6, <1>7, <1>8, <1>9, <1>10, <1>11, <1>12 DEF HandlerStep

\* The handler of an earlier connection.
LEMMA AnotherServes ==
    ASSUME TypeInv, call # None, call.pc = "chunk", NEW c \in Conns, c = Conn,
           NEW f \in Nat, NEW n \in Nat, ChunkAt(c, f, n),
           NEW b \in Conns \ {c}, HandlerStep(b)
    PROVE  ChunkAt(c, f, n)'
  <1>0. HandlerMoves(b) /\ ~Current(b)
    BY HandlerAlone DEF Current
  <1>1. /\ UNCHANGED <<part, call, want, down>>
        /\ handlers'[c] = handlers[c] /\ up'[c] = up[c]
        /\ lost => lost'
    BY <1>0 DEF HandlerMoves
  <1>2. Arrived' = Arrived /\ Type' = Type
    BY <1>1 DEF Arrived, IsChunk, Type
  <1>3. \A a \in Conns \ {c} : AskedUpTo(a, f + 1)'
    <2> SUFFICES ASSUME NEW a \in Conns \ {c} PROVE AskedUpTo(a, f + 1)'
      OBVIOUS
    <2>1. PICK m \in Nat : m = f + 1
      OBVIOUS
    <2>2. AskedUpTo(a, m)
      BY <2>1 DEF ChunkAt
    <2> QED  BY <2>1, <2>2, AsksNoMore
  <1>4. SentUpTo(n)'
    <2>1. AskedUpTo(b, n)
      <3>1. f + 1 \in Nat /\ f + 1 <= n
        BY DEF ChunkAt
      <3> QED  BY <3>1, UpToMore DEF ChunkAt
    <2> QED  BY <2>1, SendsNoMore DEF ChunkAt
  <1>5. ASSUME NEW o \in Conns, n \in sent'[o]
        PROVE  n = f + 1 \/ Arrived
    <2>1. \/ sent'[o] = sent[o]
          \/ /\ handlers[b].pc = "mark" /\ handlers[b].chunk \in 1 .. MaxSize
             /\ sent'[o] = sent[o] \cup {handlers[b].chunk}
      BY MarkAdds
    <2>2. handlers[b].pc = "mark" => handlers[b].chunk <= f + 1
      BY DEF ChunkAt, AskedUpTo
    <2> QED  BY <1>5, <2>1, <2>2 DEF ChunkAt
  <1>6. lost' \/ session' = session \/ session' # None
    <2>1. RemoveSession(b) => lost'
      BY <1>0 DEF RemoveSession
    <2> QED  BY <1>0, <2>1 DEF HandlerMoves
  <1> QED
    BY <1>1, <1>2, <1>3, <1>4, <1>5, <1>6 DEF ChunkAt, NoneShort

\* While the client waits for its session.
LEMMA HandlerOpens ==
    ASSUME TypeInv, AskedInv, call # None, call.pc = "opened", NEW c \in Conns, c = Conn,
           OpenedAt(c), NEW b \in Conns, HandlerStep(b)
    PROVE  OpenedAt(c)'
  <1>0. NodeType /\ down \in Seq(Message) /\ HandlerMoves(b)
    BY HandlerAlone DEF TypeInv, NodeType
  <1>1. CASE b # c
    <2>1. ~Current(b)
      BY <1>1 DEF Current
    <2>2. down' = down /\ handlers'[c] = handlers[c]
      BY <1>0, <1>1, <2>1 DEF HandlerMoves
    <2>3. lost' \/ (session' = session /\ ~lost) \/ session' # None
      <3>1. RemoveSession(b) => lost'
        BY <2>1 DEF RemoveSession
      <3> QED  BY <1>0, <3>1 DEF HandlerMoves
    <2> QED  BY <2>2, <2>3 DEF OpenedAt
  <1>2. CASE b = c
    <2>1. CASE OpenDownload(c)
      <3>1. session' # None /\ handlers' = handlers
        BY <2>1, NoneAssumption DEF OpenDownload
      <3> QED  BY <3>1 DEF OpenedAt
    <2>2. CASE OpenFails(c)
      <3>1. UNCHANGED nodeVars /\ \E m : m.type = "ERROR" /\ down' \in {down, Append(down, m)}
        BY <2>2 DEF OpenFails, Answer
      <3>2. PICK m : m.type = "ERROR" /\ down' \in {down, Append(down, m)}
        BY <3>1
      <3>3. ASSUME NEW k \in 1 .. Len(down'), down'[k].type = "OPEN_DOWNLOAD_RESP"
            PROVE  \E j \in 1 .. Len(down) : down[j].type = "OPEN_DOWNLOAD_RESP"
        BY <1>0, <3>2, <3>3, AppendedTo
      <3> QED  BY <3>1, <3>3 DEF OpenedAt, nodeVars
    <2>3. ASSUME NEW i \in 1 .. MaxSize, SendChunk(c, i) \/ RequestFails(c, i)
          PROVE  FALSE
      <3>1. Take(c, i)
        BY <2>3 DEF SendChunk, RequestFails
      <3>2. up[c] # <<>> /\ i = Head(up[c])
        BY <1>0, <3>1, Taken
      <3>3. up[c] = <<Open>>
        BY <3>2 DEF AskedInv, Conn
      <3> QED  BY <3>2, <3>3 DEF Open
    <2>4. CASE HandlerEnds(c)
      BY <2>4 DEF HandlerEnds, Current
    <2> QED
      BY <1>2, <2>1, <2>2, <2>3, <2>4
      DEF HandlerStep, MarkChunkSent, SendComplete, RemoveSession, OpenedAt
  <1> QED  BY <1>1, <1>2

LEMMA HandlerSession ==
    ASSUME TypeInv, WantFits, AskedInv, SessionInv, NEW b \in Conns, HandlerStep(b)
    PROVE  SessionInv'
  <1>0. UNCHANGED <<part, call, want>>
    BY HandlerAlone DEF HandlerMoves
  <1>1. ReachInv'
    <2>1. ASSUME NEW m \in Nat, UpTo(m) PROVE UpTo(m)'
      BY <2>1, AsksNoMore, SendsNoMore DEF UpTo
    <2> QED  BY <1>0, <2>1, ReachKept DEF SessionInv
  <1>2. ASSUME call # None, call.pc = "opened" PROVE OpenedAt(Conn)'
    <2>1. PICK c \in Conns : c = Conn
      BY <1>2 DEF TypeInv, CallFits, Conn
    <2>2. OpenedAt(c)'
      BY <1>2, <2>1, HandlerOpens DEF SessionInv
    <2> QED  BY <1>0, <2>1, <2>2 DEF Conn, OpenedAt
  <1>3. ASSUME call # None, call.pc = "chunk"
        PROVE  ChunkAt(Conn, call.first, call.next)'
    <2>1. Conn \in Conns /\ call.first \in Nat /\ call.next \in Nat
      BY <1>3 DEF TypeInv, ClientType, CallFits, Call, Conn
    <2>2. PICK c \in Conns, f \in Nat, n \in Nat :
              c = Conn /\ f = call.first /\ n = call.next
      BY <2>1
    <2>3. ChunkAt(c, f, n)
      BY <1>3, <2>2 DEF SessionInv
    <2>4. ChunkAt(c, f, n)'
      BY <1>3, <2>2, <2>3, ServesChunk, AnotherServes
    <2> QED  BY <1>0, <2>2, <2>4 DEF Conn, ChunkAt
  <1> QED  BY <1>0, <1>1, <1>2, <1>3 DEF SessionInv

\* What goes wrong on the node is known to have ended the session.
LEMMA FaultSession ==
    ASSUME TypeInv, SessionInv,
           \/ ExpireSession \/ NodeRestart \/ UNCHANGED vars
           \/ \E c \in Contents, state \in {"rotten", "gone"} : DiskFails(c, state)
    PROVE  SessionInv'
  <1>1. /\ UNCHANGED <<part, call, want, down, sent>>
        /\ \A a \in Conns : /\ up'[a] \in {up[a], <<>>}
                            /\ handlers'[a] = handlers[a] \/ handlers'[a] = Closed
        /\ lost => lost'
        /\ session' = session \/ lost' \/ session = None
    <2>1. CASE ExpireSession
      BY <2>1 DEF ExpireSession, diskVars, callVars
    <2>2. CASE NodeRestart
      BY <2>2 DEF NodeRestart, diskVars, callVars
    <2>3. CASE UNCHANGED vars
      BY <2>3 DEF vars, diskVars, callVars, nodeVars
    <2>4. ASSUME NEW c \in Contents, NEW state \in {"rotten", "gone"}, DiskFails(c, state)
          PROVE  /\ UNCHANGED <<part, call, want, down, sent>>
                 /\ UNCHANGED <<up, handlers, lost, session>>
      BY <2>4 DEF DiskFails, diskVars, callVars
    <2> QED  BY <2>1, <2>2, <2>3, <2>4
  <1>2. ASSUME NEW m, NEW a \in Conns, AskedUpTo(a, m) PROVE AskedUpTo(a, m)'
    BY <1>1, <1>2 DEF AskedUpTo, Closed
  <1>3. ASSUME NEW m, SentUpTo(m) PROVE SentUpTo(m)'
    BY <1>1, <1>3 DEF SentUpTo
  <1>4. ReachInv'
    BY <1>1, <1>2, <1>3, ReachKept DEF SessionInv, UpTo
  <1>5. Arrived' = Arrived /\ Type' = Type
    BY <1>1 DEF Arrived, IsChunk, Type
  <1>6. ASSUME call # None, call.pc = "opened" PROVE OpenedAt(Conn)'
    <2>1. PICK c \in Conns : c = Conn
      BY <1>6 DEF TypeInv, CallFits, Conn
    <2>2. OpenedAt(c)'
      BY <1>1, <1>6, <2>1 DEF SessionInv, OpenedAt, Closed
    <2> QED  BY <1>1, <2>1, <2>2 DEF Conn, OpenedAt
  <1>7. ASSUME call # None, call.pc = "chunk"
        PROVE  ChunkAt(Conn, call.first, call.next)'
    <2>1. /\ Conn \in Conns
          /\ call.first \in Nat /\ call.next \in Nat
      BY <1>7 DEF TypeInv, ClientType, CallFits, Call, Conn
    <2>2. PICK c \in Conns, f \in Nat, n \in Nat :
              c = Conn /\ f = call.first /\ n = call.next
      BY <2>1
    <2>3. ChunkAt(c, f, n)
      BY <1>7, <2>2 DEF SessionInv
    <2>4. handlers'[c] = handlers[c] \/ handlers'[c].pc = "closed"
      BY <1>1 DEF Closed
    <2>5. SentUpTo(n)' /\ \A a \in Conns \ {c} : AskedUpTo(a, f + 1)'
      <3>1. PICK m : m = f + 1
        OBVIOUS
      <3>2. \A a \in Conns \ {c} : AskedUpTo(a, m)'
        BY <1>2, <2>3, <3>1 DEF ChunkAt
      <3> QED  BY <1>3, <2>3, <3>1, <3>2 DEF ChunkAt
    <2>6. ChunkAt(c, f, n)'
      BY <1>1, <1>5, <2>3, <2>4, <2>5 DEF ChunkAt, NoneShort
    <2> QED  BY <1>1, <2>2, <2>6 DEF Conn, ChunkAt
  <1> QED  BY <1>1, <1>4, <1>6, <1>7 DEF SessionInv

----
(***************************************************************************)
(* What the client does.                                                   *)
(***************************************************************************)

\* Cutting a part leaves no short chunk, and a second cut nothing to cut.
LEMMA WholeHasNoShort ==
    ASSUME ClientType, part # None, ShortIsLast
    PROVE  /\ \A i \in 1 .. Len(Whole(part)) : ~Short(Whole(part)[i])
           /\ NoneShort => Whole(part) = part
  <1>0. part \in Seq(Pieces)
    BY DEF ClientType
  <1>1. CASE part # <<>> /\ Short(part[Len(part)])
    <2>1. /\ Len(part) \in Nat /\ Len(part) >= 1
          /\ Whole(part) = SubSeq(part, 1, Len(part) - 1)
      BY <1>0, <1>1 DEF Whole
    <2>2. Len(Whole(part)) = Len(part) - 1
      <3>1. PICK n \in Nat : n = Len(part) - 1
        BY <2>1
      <3>2. Len(SubSeq(part, 1, n)) = n
        BY <1>0, <2>1, <3>1
      <3> QED  BY <2>1, <3>1, <3>2
    <2>3. \A i \in 1 .. Len(Whole(part)) : Whole(part)[i] = part[i]
      BY <1>0, WholeIsPrefix
    <2>4. ~NoneShort
      BY <1>1, <2>1 DEF NoneShort
    <2> QED  BY <2>1, <2>2, <2>3, <2>4 DEF ShortIsLast
  <1>2. CASE ~(part # <<>> /\ Short(part[Len(part)]))
    <2>1. Whole(part) = part
      BY <1>2 DEF Whole
    <2>2. \A i \in 1 .. Len(part) : i \in 1 .. Len(part) - 1 \/ (i = Len(part) /\ part # <<>>)
      BY <1>0
    <2> QED  BY <1>2, <2>1, <2>2 DEF ShortIsLast
  <1> QED  BY <1>1, <1>2

LEMMA ShortStaysLast ==
    ASSUME ShortIsLast, part' \in {None, <<>>, part}
    PROVE  ShortIsLast'
  <1>1. CASE part' = <<>>
    <2>1. \A i \in 1 .. Len(part') - 1 : FALSE
      BY <1>1
    <2> QED  BY <2>1 DEF ShortIsLast
  <1> QED  BY <1>1 DEF ShortIsLast

Outside == {"plan", "complete", "verify", "replace", "label gone"}

\* A call that ends, begins or waits for nothing more from its session.
LEMMA OutsideSession ==
    ASSUME TypeInv, SessionInv,
           \/ StartDownload \/ InitDownloadFails \/ Rejected \/ AwaitComplete
           \/ Verify \/ Replace \/ ReplaceFails \/ RemoveSidecar \/ ClientCrash
           \/ (Disconnected /\ Return)
    PROVE  SessionInv'
  <1>0. ClientType
    BY DEF TypeInv
  <1>1. part' \in {None, <<>>, part}
    BY DEF StartDownload, InitDownloadFails, Rejected, AwaitComplete, Verify, Replace,
           ReplaceFails, RemoveSidecar, ClientCrash, Disconnected, diskVars
  <1>2. call' # None => call'.pc \in Outside
    <2>1. CASE StartDownload
      BY <2>1 DEF StartDownload, Outside
    <2>2. CASE AwaitComplete
      BY <1>0, <2>2, Moved DEF AwaitComplete, At, Pcs, Outside
    <2>3. CASE Verify
      BY <1>0, <2>3, Moved DEF Verify, At, Pcs, Outside, Return
    <2>4. CASE Replace
      BY <1>0, <2>4, Moved DEF Replace, At, Pcs, Outside
    <2>5. CASE \/ InitDownloadFails \/ Rejected \/ ReplaceFails \/ RemoveSidecar
               \/ ClientCrash \/ (Disconnected /\ Return)
      BY <2>5 DEF InitDownloadFails, Rejected, ReplaceFails, RemoveSidecar, ClientCrash, Return
    <2> QED  BY <2>1, <2>2, <2>3, <2>4, <2>5
  <1>3. ShortIsLast'
    BY <1>1, ShortStaysLast DEF SessionInv, ReachInv
  <1> QED  BY <1>2, <1>3 DEF SessionInv, ReachInv, Outside

\* A call before its first attempt has asked for nothing.
LEMMA NothingAsked ==
    ASSUME TypeInv, SessionInv,
           \/ DropOtherPart \/ WriteSidecar \/ SidecarFails
           \/ \E c \in Contents : DownloadFile(c)
    PROVE  SessionInv'
  <1>0. ClientType
    BY DEF TypeInv
  <1>1. /\ call # None /\ call.pc \in {"plan", "prepare", "label"}
        /\ \E pc \in {"prepare", "label", "attempt"} : Goto(pc)
        /\ part' \in {None, part}
    BY DEF DropOtherPart, WriteSidecar, SidecarFails, DownloadFile, At, diskVars
  <1>2. /\ call'.pc \in {"prepare", "label", "attempt"}
        /\ call'.attempt = 0
    <2>1. call.attempt = 0
      BY <1>1 DEF TypeInv, CallFits
    <2> QED  BY <1>0, <1>1, <2>1, Moved DEF Pcs
  <1>3. UpTo(0)'
    <2>1. ASSUME NEW c \in Contents, DownloadFile(c)
          PROVE  UpTo(0)'
      <3>1. \A a \in Conns : up'[a] = <<>> /\ sent'[a] = {} /\ handlers'[a] = Closed
        BY <2>1 DEF DownloadFile, NoSession
      <3>2. \A a \in Conns : \A k \in 1 .. Len(up'[a]) : FALSE
        BY <3>1
      <3> QED  BY <3>1, <3>2 DEF UpTo, SentUpTo, AskedUpTo, Closed
    <2>2. CASE DropOtherPart \/ WriteSidecar \/ SidecarFails
      <3>1. UpTo(0) /\ UNCHANGED <<up, sent, handlers>>
        BY <2>2
        DEF DropOtherPart, WriteSidecar, SidecarFails, At, SessionInv, ReachInv, nodeVars
      <3> QED  BY <3>1 DEF UpTo, SentUpTo, AskedUpTo
    <2> QED  BY <2>1, <2>2
  <1>4. ShortIsLast'
    BY <1>1, ShortStaysLast DEF SessionInv, ReachInv
  <1> QED  BY <1>2, <1>3, <1>4 DEF SessionInv, ReachInv

\* What was asked for stays covered while the part does not shrink.
LEMMA StaysCovered ==
    ASSUME Covered, Held' = Held, want' = want,
           \A m \in {0, Held + 1} : UpTo(m) => UpTo(m)'
    PROVE  Covered'
  <1>1. FullChunks(want)' = FullChunks(want)
    BY DEF FullChunks
  <1>2. PICK m : m = Held + 1
    OBVIOUS
  <1>3. UpTo(m) => UpTo(m)'
    BY <1>2
  <1>4. UpTo(Held + 1) => UpTo(Held + 1)'
    BY <1>2, <1>3 DEF UpTo, SentUpTo, AskedUpTo
  <1> QED  BY <1>1, <1>4 DEF Covered

LEMMA BeginsCovered ==
    ASSUME TypeInv, SessionInv, BeginAttempt
    PROVE  SessionInv'
  <1>1. /\ call # None /\ call.pc = "attempt" /\ call.attempt \in Nat
        /\ part' = (IF part = None THEN None ELSE Whole(part))
        /\ UNCHANGED <<want, up, sent, handlers>>
    <2>1. call # None /\ call.pc = "attempt"
      BY DEF BeginAttempt, At
    <2>2. call.attempt \in Nat
      <3>1. call \in Call
        BY <2>1 DEF TypeInv, ClientType
      <3>2. call.attempt \in 0 .. MaxAttempts
        BY <3>1 DEF Call
      <3> QED  BY <3>2, BoundsAssumption
    <2>3. /\ part' = (IF part = None THEN None ELSE Whole(part))
          /\ UNCHANGED <<want, up, sent, handlers>>
      BY DEF BeginAttempt, callVars, nodeVars
    <2> QED  BY <2>1, <2>2, <2>3
  <1>2. call'.pc = "connect"
    BY BeginAttemptType
  <1>3. ASSUME NEW m, UpTo(m) PROVE UpTo(m)'
    BY <1>1, <1>3 DEF UpTo, SentUpTo, AskedUpTo
  <1>4. NoneShort' /\ ShortIsLast'
    <2>1. CASE part = None
      BY <1>1, <2>1 DEF NoneShort, ShortIsLast
    <2>2. CASE part # None
      <3>1. \A i \in 1 .. Len(Whole(part)) : ~Short(Whole(part)[i])
        BY <2>2, WholeHasNoShort DEF TypeInv, SessionInv, ReachInv
      <3>2. Len(Whole(part)) \in Nat
        BY <2>2, WholeIsPrefix DEF TypeInv, ClientType
      <3> QED  BY <1>1, <2>2, <3>1, <3>2 DEF NoneShort, ShortIsLast
    <2> QED  BY <2>1, <2>2
  <1>5. Covered'
    <2>1. CASE call.attempt = 0
      BY <1>1, <1>3, <2>1 DEF SessionInv, ReachInv, Covered
    <2>2. CASE call.attempt # 0
      <3>1. NoneShort /\ Covered
        BY <1>1, <2>2 DEF SessionInv, ReachInv
      <3>2. part' = part
        BY <1>1, <3>1, WholeHasNoShort DEF TypeInv, SessionInv, ReachInv
      <3> QED  BY <1>1, <1>3, <3>1, <3>2, StaysCovered DEF Held
    <2> QED  BY <2>1, <2>2
  <1> QED  BY <1>2, <1>4, <1>5 DEF SessionInv, ReachInv

LEMMA ConnectsCovered ==
    ASSUME TypeInv, AskedInv, SessionInv, Connect
    PROVE  SessionInv'
  <1>1. /\ call # None /\ call.pc = "connect" /\ call.attempt \in Conns
        /\ part' = (IF part = None THEN <<>> ELSE part) /\ Goto("opened")
        /\ down' = <<>> /\ UNCHANGED <<want, sent>>
        /\ up' = [up EXCEPT ![call.attempt] = Append(@, Open)]
        /\ handlers' = [handlers EXCEPT ![call.attempt] = Ready]
    BY DEF Connect, At, TypeInv, CallFits, Send, Conn, callVars
  <1>2. call'.pc = "opened" /\ call'.attempt = call.attempt
    BY <1>1, Moved DEF TypeInv, Pcs
  <1>3. /\ up'[call.attempt] = <<Open>> /\ handlers'[call.attempt].pc = "ready"
        /\ \A a \in Conns \ {call.attempt} : up'[a] = up[a] /\ handlers'[a] = handlers[a]
    <2>1. up[call.attempt] = <<>>
      BY <1>1 DEF AskedInv
    <2>2. Append(<<>>, Open) = <<Open>>
      OBVIOUS
    <2> QED  BY <1>1, <2>1, <2>2 DEF TypeInv, NodeType, Ready
  <1>4. ASSUME NEW m \in Nat, UpTo(m) PROVE UpTo(m)'
    <2>1. PICK c \in Conns : c = call.attempt
      BY <1>1
    <2>2. AskedUpTo(c, m)'
      <3>1. up'[c] = <<0>> /\ handlers'[c].pc # "mark"
        BY <1>3, <2>1 DEF Open
      <3>2. \A k \in 1 .. Len(<<0>>) : <<0>>[k] <= m
        BY <1>4
      <3> QED  BY <3>1, <3>2 DEF AskedUpTo
    <2>3. ASSUME NEW a \in Conns \ {c} PROVE AskedUpTo(a, m)'
      <3>1. AskedUpTo(a, m) /\ up'[a] = up[a] /\ handlers'[a] = handlers[a]
        BY <1>3, <1>4, <2>1, <2>3 DEF UpTo
      <3> QED  BY <3>1 DEF AskedUpTo
    <2>4. \A a \in Conns : AskedUpTo(a, m)'
      BY <2>2, <2>3
    <2> QED  BY <1>1, <1>4, <2>4 DEF UpTo, SentUpTo
  <1>5. Held' = Held /\ Held \in Nat
    BY <1>1, NoneAssumption, EmptyIsSeq DEF Held, TypeInv, ClientType
  <1>6. NoneShort' /\ ShortIsLast'
    <2>1. NoneShort /\ ShortIsLast
      BY <1>1 DEF SessionInv, ReachInv
    <2>2. \A i \in 1 .. Len(<<>>) : FALSE
      OBVIOUS
    <2> QED  BY <1>1, <2>1, <2>2, ShortStaysLast DEF NoneShort
  <1>7. Covered'
    <2>1. Covered
      BY <1>1 DEF SessionInv, ReachInv
    <2> QED  BY <1>1, <1>4, <1>5, <2>1, StaysCovered
  <1>8. OpenedAt(Conn)'
    <2>1. \A k \in 1 .. Len(down') : FALSE
      BY <1>1
    <2> QED  BY <1>2, <1>3, <2>1 DEF OpenedAt, Conn
  <1> QED  BY <1>2, <1>6, <1>7, <1>8 DEF SessionInv, ReachInv

\* The part covers what the lost connection was asked for.
LEMMA LossCovered ==
    ASSUME TypeInv, AskedInv, SessionInv, Disconnected, Goto("attempt")
    PROVE  SessionInv'
  <1>1. /\ call # None /\ call.pc \in {"connect", "opened", "chunk"}
        /\ call.attempt \in Conns /\ UNCHANGED <<part, want, up, sent, handlers>>
    BY DEF Disconnected, TypeInv, CallFits, diskVars, callVars, nodeVars
  <1>2. call'.pc = "attempt" /\ call'.attempt = call.attempt /\ call.attempt # 0
    <2>1. ClientType /\ "attempt" \in Pcs
      BY DEF TypeInv, Pcs
    <2>2. call'.pc = "attempt" /\ call'.attempt = call.attempt
      BY <1>1, <2>1, Moved
    <2> QED  BY <1>1, <2>2, BoundsAssumption DEF Conns
  <1>3. NoneShort /\ Covered
    <2>1. CASE call.pc \in {"connect", "opened"}
      BY <1>1, <2>1 DEF SessionInv, ReachInv
    <2>2. CASE call.pc = "chunk"
      <3>1. /\ call.first \in Nat /\ call.next \in Nat /\ call.next \in 1 .. Size[want]
            /\ part # None /\ Len(part) \in Nat /\ call.next = Len(part) + 1 /\ want \in Contents
        <4>1. call \in Call /\ part = call.hashed
          BY <1>1, <2>2 DEF TypeInv, ClientType, CallFits
        <4>2. /\ call.first \in Nat /\ call.next \in Nat /\ call.hashed \in Seq(Pieces)
          BY <4>1 DEF Call
        <4>3. call.next \in 1 .. Size[want] /\ call.next = Len(call.hashed) + 1
          BY <1>1, <2>2 DEF TypeInv, CallFits
        <4>4. want \in Contents
          BY <1>1, <2>2 DEF TypeInv, CallFits
        <4>5. part # None /\ Len(part) \in Nat
          BY <4>1, <4>2, NoneAssumption
        <4> QED  BY <4>1, <4>2, <4>3, <4>4, <4>5
      <3>2. PICK c \in Conns, f \in Nat, n \in Nat :
                c = Conn /\ f = call.first /\ n = call.next
        BY <1>1, <3>1 DEF Conn
      <3>3. ChunkAt(c, f, n)
        BY <1>1, <2>2, <3>2 DEF SessionInv
      <3>4. Held <= FullChunks(want) /\ Held + 1 = n
        BY <3>1, <3>2, FullChunksAre, SizeAssumption DEF Held
      <3>5. AskedUpTo(c, n)
        <4>1. up[c] = <<>> \/ up[c] = <<n>>
          BY <1>1, <2>2, <3>2 DEF AskedInv, Conn
        <4>2. \A k \in 1 .. Len(up[c]) : up[c][k] <= n
          BY <4>1
        <4>3. handlers[c].pc = "mark" => handlers[c].chunk <= n
          BY <3>3 DEF ChunkAt
        <4> QED  BY <4>2, <4>3 DEF AskedUpTo
      <3>6. ASSUME NEW a \in Conns \ {c} PROVE AskedUpTo(a, n)
        <4>1. f + 1 \in Nat /\ f + 1 <= n /\ AskedUpTo(a, f + 1)
          BY <3>3 DEF ChunkAt
        <4> QED  BY <4>1, UpToMore
      <3>7. UpTo(n)
        BY <3>3, <3>5, <3>6 DEF UpTo, ChunkAt
      <3> QED  BY <3>3, <3>4, <3>7 DEF Covered, ChunkAt
    <2> QED  BY <1>1, <2>1, <2>2
  <1>4. NoneShort' /\ Covered' /\ ShortIsLast'
    <2>1. NoneShort' = NoneShort /\ ShortIsLast' = ShortIsLast /\ Covered' = Covered
      BY <1>1 DEF NoneShort, ShortIsLast, Covered, Held, UpTo, SentUpTo, AskedUpTo, FullChunks
    <2> QED  BY <1>3, <2>1 DEF SessionInv, ReachInv
  <1> QED  BY <1>2, <1>4 DEF SessionInv, ReachInv

\* The client asks for the first chunk it does not have.
LEMMA OpensSession ==
    ASSUME TypeInv, AskedInv, SessionInv, Opened
    PROVE  SessionInv'
  <1> DEFINE oversized == call.first > FullChunks(want)
             first == IF oversized THEN 0 ELSE call.first
             whole == first = Size[want]
  <1>1. /\ call # None /\ call.pc = "opened" /\ call.attempt \in Conns
        /\ call \in Call /\ want \in Contents /\ call.first \in Nat
        /\ part \in Seq(Pieces) /\ part # None /\ call.first = Len(part)
        /\ Type = "OPEN_DOWNLOAD_RESP"
    BY NoneAssumption DEF Opened, At, TypeInv, ClientType, CallFits, Call
  <1>2. /\ call'.pc = IF whole THEN "verify" ELSE "chunk"
        /\ call'.first = first /\ call'.next = first + 1 /\ call'.attempt = call.attempt
        /\ part' = IF oversized THEN <<>> ELSE part
        /\ IF whole THEN UNCHANGED up ELSE Send(first + 1)
        /\ down' = <<>> /\ UNCHANGED <<want, sent, handlers, session, lost>>
    BY <1>1 DEF Opened, Call, callVars, nodeVars
  <1>3. first \in Nat
    BY <1>1
  <1>4. UpTo(first + 1)
    <2>1. Covered
      BY <1>1 DEF SessionInv, ReachInv
    <2>2. CASE UpTo(0)
      BY <1>3, <2>2, UpToMore
    <2>3. CASE Held <= FullChunks(want) /\ UpTo(Held + 1)
      <3>1. Held = call.first
        BY <1>1 DEF Held
      <3>2. ~oversized
        BY <1>1, <2>3, <3>1, FullChunksAre
      <3> QED  BY <2>3, <3>1, <3>2
    <2> QED  BY <2>1, <2>2, <2>3 DEF Covered
  <1> HIDE DEF oversized, first, whole
  <1>5. NoneShort' /\ ShortIsLast'
    <2>1. NoneShort /\ ShortIsLast
      BY <1>1 DEF SessionInv, ReachInv
    <2>2. \A i \in 1 .. Len(<<>>) : FALSE
      OBVIOUS
    <2> QED  BY <1>2, <2>1, <2>2, ShortStaysLast DEF NoneShort
  <1>6. ASSUME ~whole PROVE ChunkAt(Conn, call.first, call.next)'
    <2>1. PICK c \in Conns, f \in Nat, n \in Nat :
              c = call.attempt /\ f = first /\ n = f + 1
      BY <1>1, <1>3
    <2>2. UpTo(n) /\ OpenedAt(c)
      BY <1>1, <1>4, <2>1 DEF SessionInv, Conn
    <2>3. \A a \in Conns \ {c} : up'[a] = up[a]
      BY <1>2, <1>6, <2>1 DEF Send, Conn, TypeInv, NodeType
    <2>4. SentUpTo(n)' /\ \A a \in Conns \ {c} : AskedUpTo(a, n)'
      BY <1>2, <2>2, <2>3 DEF UpTo, SentUpTo, AskedUpTo
    <2>5. \A a \in Conns \ {c} : AskedUpTo(a, f + 1)'
      BY <2>1, <2>4
    <2>6. handlers'[c].pc \in {"ready", "closed"}
      BY <1>2, <2>2 DEF OpenedAt
    <2>7. lost' \/ session' # None
      <3>1. down # <<>> /\ Head(down).type = "OPEN_DOWNLOAD_RESP" /\ down \in Seq(Message)
        BY <1>1, HeadOfDown DEF TypeInv, NodeType
      <3>2. 1 \in 1 .. Len(down) /\ down[1].type = "OPEN_DOWNLOAD_RESP"
        BY <3>1, TailOf
      <3> QED  BY <1>2, <2>2, <3>2 DEF OpenedAt
    <2>8. ~Arrived' /\ Type' = "nothing"
      BY <1>2 DEF Arrived, Type
    <2>9. f < n
      BY <2>1
    <2>10. ChunkAt(c, f, n)'
      BY <1>2, <1>5, <2>1, <2>4, <2>5, <2>6, <2>7, <2>8, <2>9 DEF ChunkAt
    <2> QED  BY <1>2, <2>1, <2>10 DEF Conn, ChunkAt
  <1> QED  BY <1>2, <1>5, <1>6 DEF SessionInv, ReachInv

\* The client asks for the next chunk.
LEMMA ReceivesSession ==
    ASSUME TypeInv, AskedInv, SessionInv, ReceiveChunk
    PROVE  SessionInv'
  <1>1. /\ call # None /\ call.pc = "chunk" /\ call.attempt \in Conns
        /\ call \in Call /\ want \in Contents /\ call.first \in Nat
        /\ call.next \in Nat /\ call.next \in 1 .. Size[want] /\ Size[want] \in Nat
        /\ part \in Seq(Pieces) /\ part # None /\ call.next = Len(part) + 1
        /\ Type = "DOWNLOAD_CHUNK" /\ down # <<>>
    BY NoneAssumption, SizeAssumption
    DEF ReceiveChunk, At, TypeInv, ClientType, CallFits, Call, Type
  <1>2. PICK piece : piece = Head(down).piece
    OBVIOUS
  <1>3. /\ part' = Append(part, piece) /\ down' = Tail(down)
        /\ UNCHANGED <<want, sent, handlers, session, lost>>
    BY <1>2 DEF ReceiveChunk, callVars, nodeVars
  <1>4. PICK c \in Conns, f \in Nat, n \in Nat :
            c = Conn /\ f = call.first /\ n = call.next
    BY <1>1 DEF Conn
  <1>5. ChunkAt(c, f, n)
    BY <1>1, <1>4 DEF SessionInv
  <1>6. /\ part' # None /\ Len(part') = n
        /\ \A i \in 1 .. n - 1 : ~Short(part'[i])
        /\ part'[n] = piece
    <2>1. /\ Len(Append(part, piece)) = Len(part) + 1
          /\ \A k \in 1 .. Len(part) : Append(part, piece)[k] = part[k]
          /\ Append(part, piece)[Len(part) + 1] = piece
      BY <1>1, AppendedTo
    <2>2. \A i \in 1 .. Len(part) : ~Short(part[i])
      BY <1>1, <1>5 DEF ChunkAt, NoneShort
    <2>3. part' # None
      <3>1. piece \in Pieces
        BY <1>1, <1>2, HeadOfDown DEF TypeInv, NodeType
      <3> QED  BY <1>1, <1>3, <3>1, NoneAssumption
    <2> QED  BY <1>1, <1>3, <1>4, <2>1, <2>2, <2>3
  <1>7. ShortIsLast'
    BY <1>6 DEF ShortIsLast
  <1>8. CASE n = Size[want]
    <2>1. call'.pc \in {"complete", "verify"}
      BY <1>1, <1>4, <1>8 DEF ReceiveChunk, Call
    <2> QED  BY <1>7, <2>1 DEF SessionInv, ReachInv
  <1>9. CASE n # Size[want]
    <2>1. /\ call'.pc = "chunk" /\ call'.attempt = c /\ call'.first = f /\ call'.next = n + 1
          /\ Send(n + 1) /\ n < Size[want]
      <3>1. /\ call'.pc = "chunk" /\ call'.attempt = call.attempt
            /\ call'.first = call.first /\ call'.next = call.next + 1
            /\ Send(call.next + 1)
        BY <1>1, <1>4, <1>9 DEF ReceiveChunk, Call
      <3>2. n < Size[want]
        BY <1>1, <1>4, <1>9
      <3> QED  BY <1>4, <3>1, <3>2 DEF Conn
    <2>2. Arrived
      BY <1>1 DEF Arrived, IsChunk, Type
    <2>3. down' = <<>> /\ ~Arrived' /\ Type' = "nothing"
      BY <1>3, <1>5, <2>1, <2>2 DEF ChunkAt, Arrived, Type
    <2>4. NoneShort'
      <3>1. piece \in {want} \X {n} \X BOOLEAN
        BY <1>2, <1>4, AskedReceived
      <3>2. ~Short(piece)
        BY <1>9, <3>1 DEF Short
      <3>3. \A i \in 1 .. n : i \in 1 .. n - 1 \/ i = n
        OBVIOUS
      <3> QED  BY <1>6, <3>2, <3>3 DEF NoneShort
    <2>5. PICK m \in Nat : m = n + 1
      OBVIOUS
    <2>6. SentUpTo(m)' /\ \A o \in Conns : m \notin sent'[o]
      <3>1. SentUpTo(n)
        BY <1>5 DEF ChunkAt
      <3> QED  BY <1>3, <2>5, <3>1 DEF SentUpTo
    <2>7. \A a \in Conns \ {c} : AskedUpTo(a, f + 1)'
      <3>1. \A a \in Conns \ {c} : up'[a] = up[a]
        BY <1>4, <2>1 DEF Send, Conn, TypeInv, NodeType
      <3> QED  BY <1>3, <1>5, <3>1 DEF ChunkAt, AskedUpTo
    <2>8. /\ handlers'[c].pc = "mark" =>
                 handlers'[c].chunk \in f + 1 .. m /\ handlers'[c].chunk # m
          /\ handlers'[c].pc \notin {"complete", "remove"}
      BY <1>3, <1>5, <2>1, <2>5 DEF ChunkAt
    <2>9. lost' \/ session' # None
      BY <1>3, <1>5, <2>1 DEF ChunkAt
    <2>10. f < m
      BY <1>5, <2>5 DEF ChunkAt
    <2>11. ChunkAt(c, f, m)'
      BY <2>3, <2>4, <2>6, <2>7, <2>8, <2>9, <2>10 DEF ChunkAt
    <2>12. ChunkAt(Conn, call.first, call.next)'
      BY <2>1, <2>5, <2>11 DEF Conn, ChunkAt
    <2> QED  BY <1>7, <2>1, <2>12 DEF SessionInv, ReachInv
  <1> QED  BY <1>8, <1>9

LEMMA NextSession ==
    ASSUME TypeInv, WantFits, AskedInv, SessionInv, [Next]_vars
    PROVE  SessionInv'
  <1>1. CASE Disconnected
    <2>1. Goto("attempt") \/ Return
      BY <1>1 DEF Disconnected, TryAgain
    <2> QED  BY <1>1, <2>1, LossCovered, OutsideSession
  <1>2. CASE \E c \in Conns : HandlerStep(c)
    BY <1>2, HandlerSession
  <1>3. CASE \/ ExpireSession \/ NodeRestart \/ UNCHANGED vars
             \/ \E c \in Contents, state \in {"rotten", "gone"} : DiskFails(c, state)
    BY <1>3, FaultSession
  <1> QED
    BY <1>1, <1>2, <1>3, OutsideSession, NothingAsked, BeginsCovered, ConnectsCovered,
       OpensSession, ReceivesSession
    DEF Next, ClientStep

\* A client that asks for a chunk is not told that its session is over, or
\* unknown, unless the session expired, the node restarted, or the handler of
\* an earlier connection removed it: handlers that overlap on a session mark
\* each chunk at most once more than the client asked for it.
THEOREM LossAlwaysExplained == Spec => []SessionLossExplained
  <1>1. SessionInv => SessionLossExplained
    BY DEF SessionInv, ChunkAt, SessionLossExplained, At
  <1> QED
    BY <1>1, InitType, InitWant, NextType, InitAsked, NextAsked, InitSession, NextSession,
       PTL DEF Spec

====
