---- MODULE StorageNode_proofs ----
(***************************************************************************)
(* Proofs about a storage node: UploadSessions, for any sessions, contents *)
(* and handlers, whose specification is Spec, and ControlLink, its link to *)
(* the coordinator, for any number of connections and faults, whose        *)
(* specification is LinkSpec.                                              *)
(***************************************************************************)
EXTENDS UploadSessions, ControlLink, TLAPS

----
(***************************************************************************)
(* The inductive invariants.                                               *)
(***************************************************************************)
FinalizePcs ==
    {"assemble", "copy", "verify", "scan", "commit", "clean", "rmdir", "register", "forget", "answer"}
StorePcs == {"write", "mark", "progress"}

\* h works on the session x: it makes it, stores a chunk of it or finalizes it.
Works(h, x) == handlers[h].pc \notin {"ready", "known", "lookup", "create"} /\ Sid(h) = x
Finalizes(h, x) == handlers[h].pc \in FinalizePcs /\ Sid(h) = x
Clears(x) == timer # None /\ timer.pc # "dead" /\ timer.sid = x

\* The objects that the table and the handlers refer to are there.
ObjectsFit ==
    /\ \A x \in Sids : table[x] # None => Current(x) # None
    /\ \A h \in Handlers :
           handlers[h].pc \in StorePcs \cup FinalizePcs => objects[Sid(h)][handlers[h].obj] # None

\* The file that a finalize copies to is where out says.
CopiesFit ==
    \A h \in Handlers : handlers[h].pc \in FinalizePcs =>
        /\ handlers[h].pos \in Chunks
        /\ handlers[h].out # "nowhere" => handlers[h].pc = "copy"
        /\ handlers[h].out = "dir"   => dirs[Sid(h)] # None /\ dirs[Sid(h)].assembled # None
        /\ handlers[h].out = "store" => store[ShaOf[Sid(h)]] # None

TypeInv == TypeOK /\ ObjectsFit /\ CopiesFit

\* Sessions have a ticket, and content is stored before it is registered.
PromiseInv ==
    /\ \A x \in Sids : table[x] # None \/ dirs[x] # None => x \in granted
    /\ \A h \in Handlers : handlers[h].pc # "ready" => Sid(h) \in granted
    /\ \A s \in index.known \cup index.saved : store[s] # None
    /\ \A h \in Handlers :
           \/ handlers[h].pc = "known"
           \/ handlers[h].pc \in {"clean", "rmdir", "forget"} /\ handlers[h].end = "ok"
           \/ handlers[h].pc = "register"
           => store[ShaOf[Sid(h)]] # None

\* Once its session has left the table, a finalize does not meet its object there.
StrandInv ==
    /\ NoSessionIsStranded
    /\ \A h \in Handlers : handlers[h].pc = "answer" => table[Sid(h)] # handlers[h].obj

\* Unless a session was made while the same one was still about, it is being
\* made, or accepts chunks, or is being finalized by one handler.
Alone(x) ==
    /\ \A h \in Handlers : handlers[h].pc \in {"meta", "put"} /\ Sid(h) = x =>
           /\ table[x] = None /\ ~Clears(x) /\ dirs[x] # None
           /\ \A g \in Handlers \ {h} : ~Works(g, x)
    /\ table[x] # None /\ Current(x).status \in MayFinalize =>
           /\ ~Clears(x)
           /\ \A h \in Handlers : ~Finalizes(h, x)
           /\ dirs[x] # None /\ Current(x).got \subseteq OnDisk(x)
           /\ \A h \in Handlers : handlers[h].pc = "mark" /\ Sid(h) = x => handlers[h].chunk \in OnDisk(x)
    /\ \A g, h \in Handlers : Finalizes(g, x) /\ Finalizes(h, x) => g = h

\* What was verified stays as it is until it is committed.
Verified(x) ==
    \A h \in Handlers :
        /\ handlers[h].pc \in {"scan", "commit"} /\ Sid(h) = x =>
               dirs[x] = None \/ dirs[x].assembled = None \/ Intact(dirs[x].assembled)
        /\ handlers[h].pc = "copy" /\ Sid(h) = x => handlers[h].out # "store"

SessionInv == \A x \in Sids \ overlapped : Alone(x) /\ Verified(x)

----
(***************************************************************************)
(* Handlers and files.                                                     *)
(***************************************************************************)

HandlerStates == {Ready} \cup Opening \cup Storing \cup Finalizing

\* What a handler is at says which of its fields there are.
LEMMA Shapes ==
    ASSUME TypeOK, NEW h \in Handlers
    PROVE  /\ handlers[h].pc = "ready" <=> handlers[h] = Ready
           /\ handlers[h].pc \in {"known", "lookup", "create", "meta", "put"} => handlers[h] \in Opening
           /\ handlers[h].pc \in StorePcs => handlers[h] \in Storing
           /\ handlers[h].pc \in FinalizePcs <=> handlers[h] \in Finalizing
           /\ handlers[h].pc # "ready" => Sid(h) \in Sids
  <1>1. handlers[h] \in HandlerStates
    BY DEF TypeOK, HandlerStates
  <1>2. CASE handlers[h] = Ready
    BY <1>2 DEF Ready, StorePcs, FinalizePcs, Finalizing
  <1>3. CASE handlers[h] \in Opening
    BY <1>3 DEF Opening, StorePcs, FinalizePcs, Finalizing, Ready, Sid
  <1>4. CASE handlers[h] \in Storing
    BY <1>4 DEF Storing, StorePcs, FinalizePcs, Finalizing, Ready, Sid
  <1>5. CASE handlers[h] \in Finalizing
    BY <1>5 DEF StorePcs, FinalizePcs, Finalizing, Ready, Sid
  <1> QED  BY <1>1, <1>2, <1>3, <1>4, <1>5 DEF HandlerStates

\* A file that moves changes where copies go, and nothing else.
LEMMA FollowedIs ==
    ASSUME TypeOK, NEW x, NEW where \in {"store", "nowhere"}
    PROVE  /\ Followed(x, where) \in [Handlers -> HandlerStates]
           /\ \A g \in Handlers :
                  LET r == Followed(x, where)[g]
                  IN  IF handlers[g].pc = "copy" /\ Sid(g) = x /\ handlers[g].out = "dir"
                      THEN /\ r \in Finalizing /\ r.pc = "copy" /\ r.out = where
                           /\ r.sid = x /\ r.obj = handlers[g].obj
                           /\ r.pos = handlers[g].pos /\ r.end = handlers[g].end
                      ELSE r = handlers[g]
  <1>1. ASSUME NEW g \in Handlers
        PROVE  LET r == Followed(x, where)[g]
               IN  /\ r \in HandlerStates
                   /\ IF handlers[g].pc = "copy" /\ Sid(g) = x /\ handlers[g].out = "dir"
                      THEN /\ r \in Finalizing /\ r.pc = "copy" /\ r.out = where
                           /\ r.sid = x /\ r.obj = handlers[g].obj
                           /\ r.pos = handlers[g].pos /\ r.end = handlers[g].end
                      ELSE r = handlers[g]
    <2>1. CASE handlers[g].pc = "copy" /\ Sid(g) = x /\ handlers[g].out = "dir"
      <3>1. handlers[g] \in Finalizing
        BY <2>1, Shapes DEF FinalizePcs
      <3>2. handlers[g] # Ready
        BY <2>1 DEF Ready
      <3>3. Followed(x, where)[g] = [handlers[g] EXCEPT !.out = where]
        BY <2>1, <3>2 DEF Followed, At
      <3>4. /\ [handlers[g] EXCEPT !.out = where] \in Finalizing
            /\ [handlers[g] EXCEPT !.out = where].out = where
            /\ [handlers[g] EXCEPT !.out = where].pc = handlers[g].pc
            /\ [handlers[g] EXCEPT !.out = where].sid = handlers[g].sid
            /\ [handlers[g] EXCEPT !.out = where].obj = handlers[g].obj
            /\ [handlers[g] EXCEPT !.out = where].pos = handlers[g].pos
            /\ [handlers[g] EXCEPT !.out = where].end = handlers[g].end
        BY <3>1 DEF Finalizing
      <3> QED  BY <2>1, <3>3, <3>4 DEF HandlerStates, Sid
    <2>2. CASE ~(handlers[g].pc = "copy" /\ Sid(g) = x /\ handlers[g].out = "dir")
      <3>1. Followed(x, where)[g] = handlers[g]
        BY <2>2 DEF Followed, At
      <3> QED  BY <2>2, <3>1 DEF TypeOK, HandlerStates
    <2> QED  BY <2>1, <2>2
  <1>2. Followed(x, where) = [g \in Handlers |-> Followed(x, where)[g]]
    BY DEF Followed
  <1> QED  BY <1>1, <1>2

LEMMA ContentsAre ==
    ASSUME NEW k \in 0 .. ChunkCount, NEW c \in [1 .. k -> Pieces]
    PROVE  c \in Contents
  BY DEF Contents

\* A file that a chunk is written into has one piece for each chunk up to its last.
LEMMA WrittenIs ==
    ASSUME NEW c \in Contents, NEW k \in Chunks, NEW p \in Pieces
    PROVE  WrittenAt(c, k, p) \in Contents
  <1>1. PICK n \in 0 .. ChunkCount : c \in [1 .. n -> Pieces]
    BY DEF Contents
  <1>2. ChunkCount \in Nat /\ n \in Nat /\ k \in Nat /\ k <= ChunkCount
    BY ChunkCountAssumption, <1>1 DEF Chunks
  <1>3. Len(c) = n
    BY <1>1, <1>2
  <1>4. PICK m \in 0 .. ChunkCount : m = IF n > k THEN n ELSE k
    BY <1>1, <1>2
  <1>5. WrittenAt(c, k, p) \in [1 .. m -> Pieces]
    <2>1. WrittenAt(c, k, p) = [i \in 1 .. m |-> IF i = k THEN p ELSE IF i <= n THEN c[i] ELSE "wrong"]
      BY <1>3, <1>4 DEF WrittenAt
    <2>2. \A i \in 1 .. m : (IF i = k THEN p ELSE IF i <= n THEN c[i] ELSE "wrong") \in Pieces
      BY <1>1, <1>2, <1>4 DEF Pieces
    <2> QED  BY <2>1, <2>2
  <1> QED  BY <1>5, ContentsAre

LEMMA EmptyFile == <<>> \in Contents
  <1>1. 0 \in 0 .. ChunkCount /\ <<>> \in [1 .. 0 -> Pieces]
    BY ChunkCountAssumption
  <1> QED  BY <1>1, ContentsAre

LEMMA EmptyDirIs == EmptyDir \in Dir
  BY DEF EmptyDir, Dir

LEMMA NoneIsNone ==
    /\ None \notin Contents /\ None \notin Dir /\ None \notin Object /\ None \notin Pieces
    /\ None \notin Objects /\ None \notin Expired
  BY NoneAssumption DEF Objects

----
(***************************************************************************)
(* How handlers move.                                                      *)
(***************************************************************************)

\* Handlers other than h are where they were; copies may go elsewhere.
OthersStay(h) ==
    \A g \in Handlers \ {h} :
        /\ handlers'[g].pc = handlers[g].pc
        /\ handlers[g].pc # "copy" => handlers'[g] = handlers[g]
        /\ handlers[g].pc = "copy" =>
               /\ handlers'[g].sid = handlers[g].sid /\ handlers'[g].obj = handlers[g].obj
               /\ handlers'[g].pos = handlers[g].pos /\ handlers'[g].end = handlers[g].end

HandlersTyped == handlers \in [Handlers -> HandlerStates]

LEMMA DoneIs ==
    ASSUME TypeOK, NEW h \in Handlers, Done(h)
    PROVE  HandlersTyped' /\ OthersStay(h) /\ handlers'[h] = Ready /\ handlers'[h].pc = "ready"
  BY DEF TypeOK, HandlersTyped, HandlerStates, OthersStay, Done, Ready

LEMMA GoesTo ==
    ASSUME TypeOK, NEW h \in Handlers, NEW pc, Goto(h, pc),
           \/ handlers[h] \in Opening /\ pc \in {"create", "meta", "put"}
           \/ handlers[h] \in Storing /\ pc \in StorePcs
           \/ handlers[h] \in Finalizing /\ pc \in FinalizePcs
    PROVE  /\ HandlersTyped' /\ OthersStay(h)
           /\ handlers'[h].pc = pc /\ handlers'[h].sid = handlers[h].sid
           /\ handlers[h] \in Storing =>
                  /\ handlers'[h].obj = handlers[h].obj /\ handlers'[h].chunk = handlers[h].chunk
                  /\ handlers'[h].piece = handlers[h].piece
           /\ handlers[h] \in Finalizing =>
                  /\ handlers'[h].obj = handlers[h].obj /\ handlers'[h].pos = handlers[h].pos
                  /\ handlers'[h].out = handlers[h].out /\ handlers'[h].end = handlers[h].end
  <1>1. handlers' = [handlers EXCEPT ![h] = [handlers[h] EXCEPT !.pc = pc]]
    BY DEF Goto
  <1>2. handlers \in [Handlers -> HandlerStates]
    BY DEF TypeOK, HandlerStates
  <1>3. /\ [handlers[h] EXCEPT !.pc = pc] \in HandlerStates
        /\ handlers'[h].pc = pc /\ handlers'[h].sid = handlers[h].sid
        /\ handlers[h] \in Storing =>
               /\ handlers'[h].obj = handlers[h].obj /\ handlers'[h].chunk = handlers[h].chunk
               /\ handlers'[h].piece = handlers[h].piece
        /\ handlers[h] \in Finalizing =>
               /\ handlers'[h].obj = handlers[h].obj /\ handlers'[h].pos = handlers[h].pos
               /\ handlers'[h].out = handlers[h].out /\ handlers'[h].end = handlers[h].end
    <2>1. CASE handlers[h] \in Opening /\ pc \in {"create", "meta", "put"}
      BY <1>1, <1>2, <2>1 DEF HandlerStates, Opening, Storing, Finalizing
    <2>2. CASE handlers[h] \in Storing /\ pc \in StorePcs
      BY <1>1, <1>2, <2>2 DEF HandlerStates, Storing, StorePcs, Finalizing
    <2>3. CASE handlers[h] \in Finalizing /\ pc \in FinalizePcs
      BY <1>1, <1>2, <2>3 DEF HandlerStates, Storing, Finalizing, FinalizePcs
    <2> QED  BY <2>1, <2>2, <2>3
  <1> QED  BY <1>1, <1>2, <1>3 DEF HandlersTyped, OthersStay

\* A handler takes up a request.
LEMMA TakesUp ==
    ASSUME TypeOK, NEW h \in Handlers, NEW r \in HandlerStates,
           handlers' = [handlers EXCEPT ![h] = r]
    PROVE  HandlersTyped' /\ OthersStay(h) /\ handlers'[h] = r
  BY DEF TypeOK, HandlersTyped, HandlerStates, OthersStay

\* The handlers but h, after a file moved.
LEMMA OthersFollow ==
    ASSUME TypeOK, NEW x, NEW where \in {"store", "nowhere"}, NEW h \in Handlers,
           \A g \in Handlers \ {h} : handlers'[g] = Followed(x, where)[g]
    PROVE  OthersStay(h)
  BY FollowedIs DEF OthersStay, Sid

\* A finalize has failed.
LEMMA FailsTo ==
    ASSUME TypeOK, NEW h \in Handlers, handlers[h].pc \in FinalizePcs,
           NEW end \in {"mismatch", "rejected", "io", "gone"},
           \/ handlers' = Failed(handlers, h, end)
           \/ \E x \in Sids : handlers' = Failed(Followed(x, "nowhere"), h, end)
    PROVE  /\ HandlersTyped' /\ OthersStay(h)
           /\ handlers'[h].pc = "clean" /\ handlers'[h].end = end /\ handlers'[h].out = "nowhere"
           /\ handlers'[h].sid = handlers[h].sid /\ handlers'[h].obj = handlers[h].obj
           /\ handlers'[h].pos = handlers[h].pos
           /\ \A g \in Handlers \ {h} :
                  \/ handlers'[g] = handlers[g]
                  \/ handlers[g].pc = "copy" /\ handlers[g].out = "dir" /\ handlers'[g].out = "nowhere"
  <1>0. PICK hs \in [Handlers -> HandlerStates] :
            /\ handlers' = Failed(hs, h, end)
            /\ hs = handlers \/ \E x \in Sids : hs = Followed(x, "nowhere")
    BY FollowedIs DEF TypeOK, HandlerStates
  <1>1. hs[h] \in Finalizing /\ hs[h].sid = handlers[h].sid /\ hs[h].obj = handlers[h].obj
        /\ hs[h].pos = handlers[h].pos
    BY <1>0, FollowedIs, Shapes DEF FinalizePcs, Sid
  <1>2. PICK r : r = [hs[h] EXCEPT !.pc = "clean", !.end = end, !.out = "nowhere"]
    OBVIOUS
  <1>3. /\ r \in Finalizing /\ r.pc = "clean" /\ r.end = end /\ r.out = "nowhere"
        /\ r.sid = handlers[h].sid /\ r.obj = handlers[h].obj /\ r.pos = handlers[h].pos
    BY <1>1, <1>2 DEF Finalizing
  <1>4. handlers' = [hs EXCEPT ![h] = r]
    BY <1>0, <1>2 DEF Failed
  <1>5. HandlersTyped' /\ handlers'[h] = r /\ \A g \in Handlers \ {h} : handlers'[g] = hs[g]
    BY <1>0, <1>3, <1>4 DEF HandlersTyped, HandlerStates
  <1>6. OthersStay(h)
    BY <1>0, <1>5, OthersFollow DEF OthersStay
  <1>7. \A g \in Handlers \ {h} :
            \/ handlers'[g] = handlers[g]
            \/ handlers[g].pc = "copy" /\ handlers[g].out = "dir" /\ handlers'[g].out = "nowhere"
    BY <1>0, <1>5, FollowedIs
  <1> QED  BY <1>3, <1>5, <1>6, <1>7

LEMMA OpenUploadMoves ==
    ASSUME TypeOK, NEW h \in Handlers, NEW x \in Sids, OpenUpload(h, x)
    PROVE  /\ HandlersTyped' /\ OthersStay(h)
           /\ handlers'[h].pc = (IF ShaOf[x] \in index.known THEN "known" ELSE "lookup")
           /\ handlers'[h].sid = x
  <1>1. PICK r : /\ r = [pc |-> IF ShaOf[x] \in index.known THEN "known" ELSE "lookup", sid |-> x]
                 /\ handlers' = [handlers EXCEPT ![h] = r]
    BY DEF OpenUpload
  <1>2. r \in Opening /\ r.pc = (IF ShaOf[x] \in index.known THEN "known" ELSE "lookup") /\ r.sid = x
    BY <1>1 DEF Opening
  <1> QED  BY <1>1, <1>2, TakesUp DEF HandlerStates

LEMMA UploadChunkMoves ==
    ASSUME TypeOK, NEW h \in Handlers, NEW x \in Sids, NEW k \in Chunks, NEW piece \in Pieces,
           UploadChunk(h, x, k, piece)
    PROVE  /\ HandlersTyped' /\ OthersStay(h)
           /\ handlers'[h].pc = "write" /\ handlers'[h].sid = x /\ handlers'[h].obj = table[x]
           /\ handlers'[h].chunk = k /\ handlers'[h].piece = piece
  <1>1. PICK r : /\ r = [pc |-> "write", sid |-> x, obj |-> table[x], chunk |-> k, piece |-> piece]
                 /\ handlers' = [handlers EXCEPT ![h] = r]
    BY DEF UploadChunk
  <1>2. table[x] \in Objects
    BY DEF UploadChunk, TypeOK
  <1>3. /\ r \in Storing /\ r.pc = "write" /\ r.sid = x /\ r.obj = table[x]
        /\ r.chunk = k /\ r.piece = piece
    BY <1>1, <1>2 DEF Storing
  <1> QED  BY <1>1, <1>3, TakesUp DEF HandlerStates

LEMMA FinalizeUploadMoves ==
    ASSUME TypeOK, NEW h \in Handlers, NEW x \in Sids, FinalizeUpload(h, x)
    PROVE  /\ HandlersTyped' /\ OthersStay(h)
           /\ handlers'[h].pc = "assemble" /\ handlers'[h].sid = x /\ handlers'[h].obj = table[x]
           /\ handlers'[h].pos = 1 /\ handlers'[h].out = "nowhere" /\ handlers'[h].end = "ok"
  <1>1. PICK r : /\ r = [pc |-> "assemble", sid |-> x, obj |-> table[x], pos |-> 1, out |-> "nowhere",
                         end |-> "ok"]
                 /\ handlers' = [handlers EXCEPT ![h] = r]
    BY DEF FinalizeUpload
  <1>2. table[x] \in Objects /\ 1 \in Nat
    BY DEF FinalizeUpload, TypeOK
  <1>3. /\ r \in Finalizing /\ r.pc = "assemble" /\ r.sid = x /\ r.obj = table[x]
        /\ r.pos = 1 /\ r.out = "nowhere" /\ r.end = "ok"
    BY <1>1, <1>2 DEF Finalizing
  <1> QED  BY <1>1, <1>3, TakesUp DEF HandlerStates

LEMMA OpenAssembledMoves ==
    ASSUME TypeOK, NEW h \in Handlers, OpenAssembled(h)
    PROVE  /\ HandlersTyped' /\ OthersStay(h)
           /\ handlers'[h].pc = "copy" /\ handlers'[h].sid = handlers[h].sid
           /\ handlers'[h].obj = handlers[h].obj /\ handlers'[h].pos = handlers[h].pos
           /\ handlers'[h].out = "dir" /\ handlers'[h].end = handlers[h].end
  <1>1. PICK r : /\ r = [handlers[h] EXCEPT !.pc = "copy", !.out = "dir"]
                 /\ handlers' = [handlers EXCEPT ![h] = r]
    BY DEF OpenAssembled
  <1>2. handlers[h] \in Finalizing
    BY Shapes DEF OpenAssembled, At, FinalizePcs
  <1>3. /\ r \in Finalizing /\ r.pc = "copy" /\ r.sid = handlers[h].sid
        /\ r.obj = handlers[h].obj /\ r.pos = handlers[h].pos
        /\ r.out = "dir" /\ r.end = handlers[h].end
    BY <1>1, <1>2 DEF Finalizing
  <1> QED  BY <1>1, <1>3, TakesUp DEF HandlerStates

LEMMA CopyChunkMoves ==
    ASSUME TypeOK, NEW h \in Handlers, CopyChunk(h)
    PROVE  /\ HandlersTyped' /\ OthersStay(h)
           /\ handlers'[h].sid = handlers[h].sid /\ handlers'[h].obj = handlers[h].obj
           /\ handlers'[h].end = handlers[h].end
           /\ IF handlers[h].pos = ChunkCount
              THEN /\ handlers'[h].pc = "verify" /\ handlers'[h].out = "nowhere"
                   /\ handlers'[h].pos = handlers[h].pos
              ELSE /\ handlers'[h].pc = "copy" /\ handlers'[h].out = handlers[h].out
                   /\ handlers'[h].pos = handlers[h].pos + 1
  <1>1. PICK r : /\ r = IF handlers[h].pos = ChunkCount
                        THEN [handlers[h] EXCEPT !.pc = "verify", !.out = "nowhere"]
                        ELSE [handlers[h] EXCEPT !.pos = handlers[h].pos + 1]
                 /\ handlers' = [handlers EXCEPT ![h] = r]
    BY DEF CopyChunk
  <1>2. handlers[h] \in Finalizing /\ handlers[h].pc = "copy"
    BY Shapes DEF CopyChunk, At, FinalizePcs
  <1>3. CASE handlers[h].pos = ChunkCount
    <2>1. /\ r \in Finalizing /\ r.pc = "verify" /\ r.sid = handlers[h].sid
          /\ r.obj = handlers[h].obj /\ r.pos = handlers[h].pos
          /\ r.out = "nowhere" /\ r.end = handlers[h].end
      BY <1>1, <1>2, <1>3 DEF Finalizing
    <2> QED  BY <1>1, <1>3, <2>1, TakesUp DEF HandlerStates
  <1>4. CASE handlers[h].pos # ChunkCount
    <2>1. PICK next : next = handlers[h].pos + 1
      OBVIOUS
    <2>2. next \in Nat
      BY <1>2, <2>1 DEF Finalizing
    <2>3. r = [handlers[h] EXCEPT !.pos = next]
      BY <1>1, <1>4, <2>1
    <2>4. /\ r \in Finalizing /\ r.pc = "copy" /\ r.sid = handlers[h].sid
          /\ r.obj = handlers[h].obj /\ r.pos = next
          /\ r.out = handlers[h].out /\ r.end = handlers[h].end
      BY <1>2, <2>2, <2>3 DEF Finalizing
    <2> QED  BY <1>1, <1>4, <2>1, <2>4, TakesUp DEF HandlerStates
  <1> QED  BY <1>3, <1>4

\* h goes on, after a file of its session moved.
LEMMA FollowedTo ==
    ASSUME TypeOK, NEW h \in Handlers, handlers[h].pc \in FinalizePcs \ {"copy"},
           NEW x, NEW where \in {"store", "nowhere"}, NEW pc \in FinalizePcs,
           handlers' = [Followed(x, where) EXCEPT ![h].pc = pc]
    PROVE  /\ HandlersTyped' /\ OthersStay(h)
           /\ handlers'[h].pc = pc /\ handlers'[h].sid = handlers[h].sid
           /\ handlers'[h].obj = handlers[h].obj /\ handlers'[h].pos = handlers[h].pos
           /\ handlers'[h].out = handlers[h].out /\ handlers'[h].end = handlers[h].end
           /\ \A g \in Handlers \ {h} : handlers'[g] = Followed(x, where)[g]
  <1>1. PICK hs \in [Handlers -> HandlerStates] : hs = Followed(x, where)
    BY FollowedIs
  <1>2. hs[h] = handlers[h] /\ handlers[h] \in Finalizing
    BY <1>1, FollowedIs, Shapes
  <1>3. handlers' = [hs EXCEPT ![h] = [handlers[h] EXCEPT !.pc = pc]]
    BY <1>1, <1>2
  <1>4. PICK r : r = [handlers[h] EXCEPT !.pc = pc]
    OBVIOUS
  <1>5. /\ r \in Finalizing /\ r.pc = pc /\ r.sid = handlers[h].sid
        /\ r.obj = handlers[h].obj /\ r.pos = handlers[h].pos
        /\ r.out = handlers[h].out /\ r.end = handlers[h].end
    BY <1>2, <1>4 DEF Finalizing, FinalizePcs
  <1>6. HandlersTyped' /\ handlers'[h] = r /\ \A g \in Handlers \ {h} : handlers'[g] = hs[g]
    BY <1>1, <1>3, <1>4, <1>5 DEF HandlersTyped, HandlerStates
  <1>7. OthersStay(h)
    BY <1>1, <1>6, OthersFollow
  <1> QED  BY <1>1, <1>5, <1>6, <1>7

LEMMA CommitMoves ==
    ASSUME TypeOK, NEW h \in Handlers, Commit(h)
    PROVE  /\ HandlersTyped' /\ OthersStay(h)
           /\ handlers'[h].pc = "clean" /\ handlers'[h].sid = handlers[h].sid
           /\ handlers'[h].obj = handlers[h].obj /\ handlers'[h].pos = handlers[h].pos
           /\ handlers'[h].out = handlers[h].out /\ handlers'[h].end = handlers[h].end
           /\ \E where \in {"store", "nowhere"} :
                  /\ where = "store" <=> store[ShaOf[Sid(h)]] = None
                  /\ \A g \in Handlers \ {h} : handlers'[g] = Followed(Sid(h), where)[g]
  <1>1. PICK where \in {"store", "nowhere"} :
            /\ where = IF store[ShaOf[Sid(h)]] # None THEN "nowhere" ELSE "store"
            /\ handlers' = [Followed(Sid(h), where) EXCEPT ![h].pc = "clean"]
    BY DEF Commit
  <1>2. handlers[h].pc \in FinalizePcs \ {"copy"} /\ "clean" \in FinalizePcs
    BY DEF Commit, At, FinalizePcs
  <1> QED  BY <1>1, <1>2, FollowedTo

LEMMA CleanMoves ==
    ASSUME TypeOK, NEW h \in Handlers, CleanSessionDir(h)
    PROVE  /\ HandlersTyped' /\ OthersStay(h)
           /\ handlers'[h].pc = "rmdir" /\ handlers'[h].sid = handlers[h].sid
           /\ handlers'[h].obj = handlers[h].obj /\ handlers'[h].pos = handlers[h].pos
           /\ handlers'[h].out = handlers[h].out /\ handlers'[h].end = handlers[h].end
           /\ \A g \in Handlers \ {h} : handlers'[g] = Followed(Sid(h), "nowhere")[g]
  <1>1. handlers[h].pc \in FinalizePcs \ {"copy"} /\ "rmdir" \in FinalizePcs
        /\ handlers' = [Followed(Sid(h), "nowhere") EXCEPT ![h].pc = "rmdir"]
    BY DEF CleanSessionDir, At, FinalizePcs
  <1> QED  BY <1>1, FollowedTo

\* An exception that nobody catches.
LEMMA ThrowsAre ==
    ASSUME TypeOK, NEW h \in Handlers, FinalizeThrows(h)
    PROVE  /\ handlers[h].pc \in {"verify", "scan", "clean", "rmdir", "register"} /\ Sid(h) \in Sids
           /\ HandlersTyped' /\ OthersStay(h) /\ handlers'[h] = Ready /\ handlers'[h].pc = "ready"
           /\ UNCHANGED <<table, store, timer, granted, reports, malformed, overlapped>>
           /\ \/ dirs' = dirs /\ \A g \in Handlers \ {h} : handlers'[g] = handlers[g]
              \/ /\ handlers[h].pc = "scan" /\ dirs[Sid(h)] # None
                 /\ dirs' = [dirs EXCEPT ![Sid(h)].assembled = None]
                 /\ \A g \in Handlers \ {h} : handlers'[g] = Followed(Sid(h), "nowhere")[g]
           /\ \/ index' = index
              \/ handlers[h].pc = "register" /\ index' = [index EXCEPT !.known = Known(h)]
  <1>1. CASE VerifyThrows(h) \/ CleanThrows(h) \/ RegisterThrows(h)
    <2>1. /\ Done(h) /\ handlers[h].pc \in {"verify", "clean", "rmdir", "register"}
          /\ UNCHANGED <<dirs, table, store, timer, granted, reports, malformed, overlapped>>
          /\ \/ index' = index
             \/ handlers[h].pc = "register" /\ index' = [index EXCEPT !.known = Known(h)]
      BY <1>1 DEF VerifyThrows, CleanThrows, RegisterThrows, Escape, At, diskVars
    <2>2. \A g \in Handlers \ {h} : handlers'[g] = handlers[g]
      BY <2>1 DEF Done, TypeOK
    <2>3. Sid(h) \in Sids
      BY <2>1, Shapes
    <2> QED  BY <2>1, <2>2, <2>3, DoneIs
  <1>2. CASE QuarantineThrows(h)
    <2>1. /\ handlers[h].pc = "scan" /\ dirs[Sid(h)] # None
          /\ dirs' = [dirs EXCEPT ![Sid(h)].assembled = None]
          /\ handlers' = [Followed(Sid(h), "nowhere") EXCEPT ![h] = Ready]
          /\ UNCHANGED <<index, table, store, timer, granted, reports, malformed, overlapped>>
      BY <1>2 DEF QuarantineThrows, At
    <2>2. Sid(h) \in Sids
      BY <2>1, Shapes
    <2>3. /\ HandlersTyped' /\ handlers'[h] = Ready /\ handlers'[h].pc = "ready"
          /\ \A g \in Handlers \ {h} : handlers'[g] = Followed(Sid(h), "nowhere")[g]
      BY <2>1, FollowedIs DEF HandlersTyped, HandlerStates, Ready
    <2>4. OthersStay(h)
      BY <2>3, OthersFollow
    <2> QED  BY <2>1, <2>2, <2>3, <2>4
  <1> QED  BY <1>1, <1>2 DEF FinalizeThrows

LEMMA HandlersMove ==
    ASSUME TypeOK, NEW h \in Handlers, HandlerStep(h)
    PROVE  HandlersTyped' /\ OthersStay(h)
  <1>1. /\ handlers[h].pc \in {"known", "lookup", "create", "meta", "put"} => handlers[h] \in Opening
        /\ handlers[h].pc \in StorePcs => handlers[h] \in Storing
        /\ handlers[h].pc \in FinalizePcs => handlers[h] \in Finalizing
        /\ handlers[h].pc # "ready" => Sid(h) \in Sids
    BY Shapes
  <1>2. CASE \E x \in Sids : OpenUpload(h, x) \/ FinalizeUpload(h, x)
    BY <1>2, OpenUploadMoves, FinalizeUploadMoves
  <1>3. CASE \E x \in Sids, k \in Chunks, piece \in Pieces : UploadChunk(h, x, k, piece)
    BY <1>3, UploadChunkMoves
  <1>4. CASE OpenAssembled(h) \/ CopyChunk(h) \/ Commit(h) \/ CleanSessionDir(h)
    BY <1>4, OpenAssembledMoves, CopyChunkMoves, CommitMoves, CleanMoves
  <1>5. CASE AnswerDuplicate(h) \/ PutSession(h) \/ Answer(h)
    BY <1>5, DoneIs DEF AnswerDuplicate, PutSession, Answer
  <1>6. CASE LookUp(h)
    BY <1>1, <1>6, DoneIs, GoesTo DEF LookUp, At
  <1>7. CASE CreateDir(h)
    BY <1>1, <1>7, GoesTo DEF CreateDir, At
  <1>8. CASE SaveMeta(h)
    <2>1. Done(h) \/ (handlers[h].pc = "meta" /\ Goto(h, "put"))
      BY <1>8 DEF SaveMeta, At
    <2>2. CASE Done(h)
      BY <2>2, DoneIs
    <2>3. CASE handlers[h].pc = "meta" /\ Goto(h, "put")
      <3>1. handlers[h] \in Opening /\ Goto(h, "put")
        BY <1>1, <2>3
      <3> QED  BY <3>1, GoesTo
    <2> QED  BY <2>1, <2>2, <2>3
  <1>9. CASE WriteChunk(h)
    BY <1>1, <1>9, DoneIs, GoesTo DEF WriteChunk, At, StorePcs
  <1>10. CASE MarkChunk(h)
    <2>1. Done(h) \/ Goto(h, "progress")
      BY <1>10 DEF MarkChunk
    <2>2. handlers[h] \in Storing /\ "progress" \in StorePcs
      BY <1>1, <1>10 DEF MarkChunk, At, StorePcs
    <2> QED  BY <2>1, <2>2, DoneIs, GoesTo
  <1>11. CASE Verify(h)
    <2>1. handlers[h].pc \in FinalizePcs /\ handlers[h] \in Finalizing /\ "scan" \in FinalizePcs
      BY <1>1, <1>11 DEF Verify, At, FinalizePcs
    <2>2. Goto(h, "scan") \/ \E x \in Sids : handlers' = Failed(Followed(x, "nowhere"), h, "mismatch")
      BY <1>1, <1>11 DEF Verify, At
    <2> QED  BY <2>1, <2>2, GoesTo, FailsTo
  <1>12. CASE ScanRejects(h)
    <2>1. handlers[h].pc \in FinalizePcs
      BY <1>12 DEF ScanRejects, At, FinalizePcs
    <2>2. \/ handlers' = Failed(handlers, h, "rejected")
          \/ \E x \in Sids : handlers' = Failed(Followed(x, "nowhere"), h, "rejected")
      BY <1>1, <1>12 DEF ScanRejects, At
    <2> QED  BY <2>1, <2>2, FailsTo
  <1>13. CASE IoError(h)
    <2>1. handlers[h].pc \in FinalizePcs /\ handlers' = Failed(handlers, h, "io")
      BY <1>13 DEF IoError, FinalizePcs
    <2> QED  BY <2>1, FailsTo
  <1>14. CASE ScanAccepts(h) \/ RemoveSessionDir(h) \/ Register(h)
    <2>1. PICK pc \in {"commit", "register", "forget"} : Goto(h, pc)
      BY <1>14 DEF ScanAccepts, RemoveSessionDir, Register
    <2>2. handlers[h] \in Finalizing /\ pc \in FinalizePcs
      BY <1>1, <1>14, <2>1 DEF ScanAccepts, RemoveSessionDir, Register, At, FinalizePcs
    <2> QED  BY <2>1, <2>2, GoesTo
  <1>15. CASE Forget(h)
    <2>1. Done(h) \/ Goto(h, "answer")
      BY <1>15 DEF Forget
    <2>2. handlers[h] \in Finalizing /\ "answer" \in FinalizePcs
      BY <1>1, <1>15 DEF Forget, At, FinalizePcs
    <2> QED  BY <2>1, <2>2, DoneIs, GoesTo
  <1>16. CASE AnswerFails(h)
    <2>1. handlers[h].pc \in FinalizePcs
      BY <1>16 DEF AnswerFails, At, FinalizePcs
    <2>2. Done(h) \/ handlers' = Failed(handlers, h, "gone")
      BY <1>16 DEF AnswerFails
    <2> QED  BY <2>1, <2>2, DoneIs, FailsTo
  <1>17. CASE FinalizeThrows(h)
    BY <1>17, ThrowsAre
  <1> QED
    BY <1>2, <1>3, <1>4, <1>5, <1>6, <1>7, <1>8, <1>9, <1>10, <1>11, <1>12, <1>13, <1>14, <1>15,
       <1>16, <1>17
    DEF HandlerStep

----
(***************************************************************************)
(* Types of the files and objects.                                         *)
(***************************************************************************)

LEMMA DirUpdates ==
    ASSUME NEW d \in Dir, NEW k \in Chunks, NEW piece \in Pieces, NEW c \in Contents \cup {None}
    PROVE  /\ [d EXCEPT !.meta = TRUE] \in Dir
           /\ [d EXCEPT !.chunks[k] = piece] \in Dir
           /\ [d EXCEPT !.assembled = c] \in Dir
  <1>1. [d EXCEPT !.meta = TRUE] \in Dir
    BY DEF Dir
  <1>2. [d EXCEPT !.chunks[k] = piece] \in Dir
    <2>1. [d.chunks EXCEPT ![k] = piece] \in [Chunks -> Pieces \cup {None}]
      BY DEF Dir
    <2>2. PICK cs \in [Chunks -> Pieces \cup {None}] : cs = [d.chunks EXCEPT ![k] = piece]
      BY <2>1
    <2>3. [d EXCEPT !.chunks = cs] \in Dir
      BY DEF Dir
    <2> QED  BY <2>2, <2>3
  <1>3. [d EXCEPT !.assembled = c] \in Dir
    BY DEF Dir
  <1> QED  BY <1>1, <1>2, <1>3

DirsTyped == dirs \in [Sids -> Dir \cup {None}]
StoreTyped == store \in [Shas -> Contents \cup {None}]
ObjectsTyped == objects \in [Sids -> [Objects -> Object \cup {None}]]

LEMMA EmptiedTypes ==
    ASSUME TypeOK, NEW x
    PROVE  Emptied(x) \in [Sids -> Dir \cup {None}]
  BY EmptyDirIs DEF Emptied, TypeOK

\* Copies read and write what is there.
LEMMA CopyTypes ==
    ASSUME TypeInv, NEW h \in Handlers, CopyChunk(h)
    PROVE  DirsTyped' /\ StoreTyped'
  <1>1. /\ handlers[h].pc = "copy" /\ handlers[h] \in Finalizing /\ Sid(h) \in Sids
        /\ ShaOf[Sid(h)] \in Shas /\ dirs[Sid(h)] \in Dir /\ dirs[Sid(h)].chunks[handlers[h].pos] # None
    BY Shapes, ShaOfAssumption DEF CopyChunk, At, FinalizePcs, TypeInv, TypeOK
  <1>2. handlers[h].pos \in Chunks
    BY <1>1 DEF TypeInv, CopiesFit, FinalizePcs
  <1>3. PICK p \in Pieces : p = dirs[Sid(h)].chunks[handlers[h].pos]
    BY <1>1, <1>2 DEF Dir
  <1>4. CASE handlers[h].out = "dir"
    <2>1. PICK c \in Contents : c = dirs[Sid(h)].assembled
      BY <1>1, <1>4 DEF TypeInv, CopiesFit, FinalizePcs, Dir
    <2>2. PICK n \in Contents : n = WrittenAt(c, handlers[h].pos, p)
      BY <1>2, WrittenIs
    <2>3. dirs' = [dirs EXCEPT ![Sid(h)] = [dirs[Sid(h)] EXCEPT !.assembled = n]] /\ store' = store
      BY <1>3, <1>4, <2>1, <2>2 DEF CopyChunk
    <2>4. [dirs[Sid(h)] EXCEPT !.assembled = n] \in Dir
      BY <1>1 DEF Dir
    <2> QED  BY <1>1, <2>3, <2>4 DEF DirsTyped, StoreTyped, TypeInv, TypeOK
  <1>5. CASE handlers[h].out = "store"
    <2>1. PICK c \in Contents : c = store[ShaOf[Sid(h)]]
      BY <1>1, <1>5 DEF TypeInv, TypeOK, CopiesFit, FinalizePcs
    <2>2. PICK n \in Contents : n = WrittenAt(c, handlers[h].pos, p)
      BY <1>2, WrittenIs
    <2>3. store' = [store EXCEPT ![ShaOf[Sid(h)]] = n] /\ dirs' = dirs
      BY <1>3, <1>5, <2>1, <2>2 DEF CopyChunk
    <2> QED  BY <1>1, <2>3 DEF DirsTyped, StoreTyped, TypeInv, TypeOK
  <1>6. CASE handlers[h].out \notin {"dir", "store"}
    BY <1>6 DEF CopyChunk, DirsTyped, StoreTyped, TypeInv, TypeOK
  <1> QED  BY <1>4, <1>5, <1>6

LEMMA DirsKeepType ==
    ASSUME TypeInv, NEW h \in Handlers, HandlerStep(h)
    PROVE  DirsTyped' /\ StoreTyped'
  <1>0. /\ DirsTyped /\ StoreTyped /\ TypeOK
        /\ handlers[h].pc # "ready" => Sid(h) \in Sids /\ ShaOf[Sid(h)] \in Shas
    BY Shapes, ShaOfAssumption DEF TypeInv, TypeOK, DirsTyped, StoreTyped
  <1>1. CASE CreateDir(h)
    BY <1>0, <1>1, EmptyDirIs DEF CreateDir, DirsTyped, StoreTyped
  <1>2. CASE SaveMeta(h)
    <2>1. dirs' = dirs \/ /\ dirs[Sid(h)] \in Dir
                          /\ dirs' = [dirs EXCEPT ![Sid(h)] = [dirs[Sid(h)] EXCEPT !.meta = TRUE]]
      BY <1>0, <1>2 DEF SaveMeta, DirsTyped, At
    <2>2. \A d \in Dir : [d EXCEPT !.meta = TRUE] \in Dir
      BY DEF Dir
    <2> QED  BY <1>0, <1>2, <2>1, <2>2 DEF SaveMeta, DirsTyped, StoreTyped
  <1>3. CASE WriteChunk(h)
    <2>0. handlers[h] \in Storing
      BY <1>0, <1>3, Shapes DEF WriteChunk, At, StorePcs
    <2>1. PICK k \in Chunks, piece \in Pieces : k = handlers[h].chunk /\ piece = handlers[h].piece
      BY <2>0 DEF Storing
    <2>2. dirs' = dirs \/ /\ dirs[Sid(h)] \in Dir
                          /\ dirs' = [dirs EXCEPT ![Sid(h)] = [dirs[Sid(h)] EXCEPT !.chunks[k] = piece]]
      BY <1>0, <1>3, <2>1 DEF WriteChunk, DirsTyped, At
    <2>3. dirs[Sid(h)] \in Dir => [dirs[Sid(h)] EXCEPT !.chunks[k] = piece] \in Dir
      BY DirUpdates
    <2> QED  BY <1>0, <1>3, <2>2, <2>3 DEF WriteChunk, DirsTyped, StoreTyped
  <1>4. CASE OpenAssembled(h)
    <2>1. /\ dirs[Sid(h)] \in Dir
          /\ dirs' = [dirs EXCEPT ![Sid(h)] = [dirs[Sid(h)] EXCEPT !.assembled = <<>>]]
      BY <1>0, <1>4 DEF OpenAssembled, DirsTyped, At
    <2>2. [dirs[Sid(h)] EXCEPT !.assembled = <<>>] \in Dir
      BY <2>1, EmptyFile DEF Dir
    <2> QED  BY <1>0, <1>4, <2>1, <2>2 DEF OpenAssembled, DirsTyped, StoreTyped
  <1>5. CASE CopyChunk(h)
    BY <1>5, CopyTypes
  <1>6. CASE Verify(h) \/ ScanRejects(h) \/ Commit(h)
    <2>1. dirs' = dirs \/ /\ dirs[Sid(h)] \in Dir
                          /\ dirs' = [dirs EXCEPT ![Sid(h)] = [dirs[Sid(h)] EXCEPT !.assembled = None]]
      BY <1>0, <1>6 DEF Verify, ScanRejects, Commit, DirsTyped, At
    <2>2. \A d \in Dir : [d EXCEPT !.assembled = None] \in Dir
      BY DEF Dir
    <2>3. DirsTyped'
      BY <1>0, <2>1, <2>2 DEF DirsTyped
    <2>4. CASE Commit(h)
      <3>1. /\ Sid(h) \in Sids /\ ShaOf[Sid(h)] \in Shas
        BY <1>0, <2>4 DEF Commit, At
      <3>2. \/ store' = store
            \/ /\ dirs[Sid(h)] \in Dir
               /\ store' = [store EXCEPT ![ShaOf[Sid(h)]] = dirs[Sid(h)].assembled]
        BY <1>0, <2>4, <3>1 DEF Commit, DirsTyped
      <3>3. dirs[Sid(h)] \in Dir => dirs[Sid(h)].assembled \in Contents \cup {None}
        BY DEF Dir
      <3>4. StoreTyped'
        BY <1>0, <3>1, <3>2, <3>3 DEF StoreTyped
      <3> QED  BY <2>3, <3>4
    <2>5. CASE Verify(h) \/ ScanRejects(h)
      BY <1>0, <2>3, <2>5 DEF Verify, ScanRejects, StoreTyped
    <2> QED  BY <1>6, <2>4, <2>5
  <1>7. CASE CleanSessionDir(h)
    BY <1>0, <1>7, EmptiedTypes DEF CleanSessionDir, DirsTyped, StoreTyped
  <1>8. CASE RemoveSessionDir(h)
    BY <1>0, <1>8 DEF RemoveSessionDir, DirsTyped, StoreTyped, At
  <1>9. CASE UNCHANGED <<dirs, store>>
    BY <1>0, <1>9 DEF DirsTyped, StoreTyped
  <1>10. CASE FinalizeThrows(h)
    <2>1. /\ store' = store
          /\ \/ dirs' = dirs
             \/ /\ dirs[Sid(h)] \in Dir
                /\ dirs' = [dirs EXCEPT ![Sid(h)] = [dirs[Sid(h)] EXCEPT !.assembled = None]]
      BY <1>0, <1>10, ThrowsAre DEF DirsTyped
    <2>2. \A d \in Dir : [d EXCEPT !.assembled = None] \in Dir
      BY DEF Dir
    <2> QED  BY <1>0, <2>1, <2>2 DEF DirsTyped, StoreTyped
  <1> QED
    BY <1>1, <1>2, <1>3, <1>4, <1>5, <1>6, <1>7, <1>8, <1>9, <1>10
    DEF HandlerStep, OpenUpload, AnswerDuplicate, LookUp, PutSession, UploadChunk, MarkChunk,
        FinalizeUpload, ScanAccepts, IoError, Register, Forget, Answer, AnswerFails,
        diskVars

\* Objects change their status and get chunks; none is ever taken away.
ObjectsStay ==
    \A x \in Sids, i \in Objects : objects[x][i] # None => objects'[x][i] # None

LEMMA StatusTypes ==
    ASSUME TypeInv, NEW h \in Handlers, handlers[h].pc \in FinalizePcs,
           NEW status \in Statuses, objects' = WithStatus(h, status)
    PROVE  ObjectsTyped' /\ ObjectsStay
  <1>1. /\ Sid(h) \in Sids /\ handlers[h].obj \in Objects
        /\ objects[Sid(h)][handlers[h].obj] \in Object
        /\ objects \in [Sids -> [Objects -> Object \cup {None}]]
    <2>1. Sid(h) \in Sids /\ handlers[h] \in Finalizing
      BY Shapes DEF TypeInv, FinalizePcs
    <2>2. objects[Sid(h)][handlers[h].obj] # None
      BY DEF TypeInv, ObjectsFit
    <2> QED  BY <2>1, <2>2 DEF TypeInv, TypeOK, Finalizing
  <1>2. PICK x \in Sids, i \in Objects : x = Sid(h) /\ i = handlers[h].obj
    BY <1>1
  <1>3. PICK o \in Object : o = [objects[x][i] EXCEPT !.status = status]
    BY <1>1, <1>2 DEF Object
  <1>4. objects' = [objects EXCEPT ![x] = [objects[x] EXCEPT ![i] = o]]
    BY <1>2, <1>3 DEF WithStatus
  <1> QED  BY <1>1, <1>4, NoneIsNone DEF ObjectsTyped, ObjectsStay

\* The object of a finalize that nobody goes on with.
LEMMA LeavesAre ==
    ASSUME TypeInv, NEW h \in Handlers, FinalizeThrows(h)
    PROVE  /\ ObjectsTyped' /\ ObjectsStay
           /\ \A x \in Sids, i \in Objects : objects'[x][i] # objects[x][i] =>
                  /\ Sid(h) = x /\ handlers[h].obj = i
                  /\ objects'[x][i].left /\ objects'[x][i].got = objects[x][i].got
                  /\ objects'[x][i].status \in {objects[x][i].status, "FAILED"}
  <1>0. handlers[h].pc \in {"verify", "scan", "clean", "rmdir", "register"} /\ TypeOK
    BY ThrowsAre DEF TypeInv
  <1>1. /\ Sid(h) \in Sids /\ handlers[h].obj \in Objects
        /\ objects[Sid(h)][handlers[h].obj] \in Object
        /\ objects \in [Sids -> [Objects -> Object \cup {None}]]
    <2>1. handlers[h].pc \in FinalizePcs
      BY <1>0 DEF FinalizePcs
    <2>2. Sid(h) \in Sids /\ handlers[h] \in Finalizing
      BY <1>0, <2>1, Shapes DEF FinalizePcs
    <2>3. objects[Sid(h)][handlers[h].obj] # None
      BY <2>1 DEF TypeInv, ObjectsFit
    <2> QED  BY <1>0, <2>2, <2>3 DEF TypeOK, Finalizing
  <1>2. PICK x \in Sids, i \in Objects : x = Sid(h) /\ i = handlers[h].obj
    BY <1>1
  <1>3. PICK o \in Object :
            /\ objects' = [objects EXCEPT ![x] = [objects[x] EXCEPT ![i] = o]]
            /\ o.left /\ o.got = objects[x][i].got /\ o.status \in {objects[x][i].status, "FAILED"}
    <2>1. CASE VerifyThrows(h) \/ CleanThrows(h) \/ RegisterThrows(h)
      <3>1. PICK o : o = [objects[x][i] EXCEPT !.left = TRUE]
        OBVIOUS
      <3>2. o \in Object /\ o.left /\ o.got = objects[x][i].got /\ o.status = objects[x][i].status
        BY <1>1, <1>2, <3>1 DEF Object
      <3>3. objects' = [objects EXCEPT ![x] = [objects[x] EXCEPT ![i] = o]]
        BY <1>2, <2>1, <3>1 DEF VerifyThrows, CleanThrows, RegisterThrows, Escape
      <3> QED  BY <3>2, <3>3
    <2>2. CASE QuarantineThrows(h)
      <3>1. PICK o : o = [objects[x][i] EXCEPT !.status = "FAILED", !.left = TRUE]
        OBVIOUS
      <3>2. o \in Object /\ o.left /\ o.got = objects[x][i].got /\ o.status = "FAILED"
        BY <1>1, <1>2, <3>1 DEF Object, Statuses
      <3>3. objects' = [objects EXCEPT ![x] = [objects[x] EXCEPT ![i] = o]]
        BY <1>2, <2>2, <3>1 DEF QuarantineThrows
      <3> QED  BY <3>2, <3>3
    <2> QED  BY <2>1, <2>2 DEF FinalizeThrows
  <1>4. objects'[x][i] = o
    BY <1>1, <1>3
  <1>5. \A y \in Sids, j \in Objects : objects'[y][j] # objects[y][j] => y = x /\ j = i
    BY <1>1, <1>3
  <1>6. ObjectsTyped' /\ ObjectsStay
    BY <1>1, <1>3, NoneIsNone DEF ObjectsTyped, ObjectsStay
  <1> QED  BY <1>2, <1>3, <1>4, <1>5, <1>6

LEMMA ObjectsKeepType ==
    ASSUME TypeInv, NEW h \in Handlers, HandlerStep(h)
    PROVE  ObjectsTyped' /\ ObjectsStay
  <1>0. ObjectsTyped /\ TypeOK
    BY DEF TypeInv, TypeOK, ObjectsTyped
  <1>1. CASE PutSession(h)
    <2>1. Sid(h) \in Sids
      BY <1>0, <1>1, Shapes DEF PutSession, At
    <2>2. PICK o \in Object : o = [status |-> "INIT", got |-> {}, left |-> FALSE]
      BY DEF Object, Statuses
    <2>3. PICK i \in Objects : /\ objects[Sid(h)][i] = None
                               /\ objects' = [objects EXCEPT ![Sid(h)] = [objects[Sid(h)] EXCEPT ![i] = o]]
      BY <1>1, <2>2 DEF PutSession
    <2> QED  BY <1>0, <2>1, <2>3, NoneIsNone DEF ObjectsTyped, ObjectsStay
  <1>2. CASE MarkChunk(h)
    <2>1. Sid(h) \in Sids /\ handlers[h] \in Storing
      BY <1>0, <1>2, Shapes DEF MarkChunk, At, StorePcs
    <2>2. objects[Sid(h)][handlers[h].obj] # None
      BY <1>2 DEF MarkChunk, At, TypeInv, ObjectsFit, StorePcs
    <2>3. PICK x \in Sids, i \in Objects, k \in Chunks :
              x = Sid(h) /\ i = handlers[h].obj /\ k = handlers[h].chunk
      BY <2>1 DEF Storing
    <2>4. objects[x][i] \in Object
      BY <1>0, <2>2, <2>3 DEF ObjectsTyped
    <2>5. PICK o : /\ o = [objects[x][i] EXCEPT
                               !.status = IF @ = "INIT" THEN "UPLOADING" ELSE @, !.got = @ \cup {k}]
                   /\ objects' = [objects EXCEPT ![x] = [objects[x] EXCEPT ![i] = o]]
      BY <1>2, <2>3 DEF MarkChunk
    <2>6. o \in Object
      BY <2>4, <2>5 DEF Object, Statuses
    <2> QED  BY <1>0, <2>5, <2>6, NoneIsNone DEF ObjectsTyped, ObjectsStay
  <1>3. ASSUME NEW x \in Sids, FinalizeUpload(h, x) PROVE ObjectsTyped' /\ ObjectsStay
    <2>1. table[x] \in Objects /\ objects[x][table[x]] \in Object
      BY <1>0, <1>3 DEF FinalizeUpload, TypeInv, TypeOK, ObjectsFit, Current
    <2>2. PICK i \in Objects : i = table[x]
      BY <2>1
    <2>3. PICK o \in Object : o = [objects[x][i] EXCEPT !.status = "FINALIZING"]
      BY <2>1, <2>2 DEF Object, Statuses
    <2>4. objects' = [objects EXCEPT ![x] = [objects[x] EXCEPT ![i] = o]]
      BY <1>3, <2>2, <2>3 DEF FinalizeUpload
    <2> QED  BY <1>0, <2>4, NoneIsNone DEF ObjectsTyped, ObjectsStay
  <1>4. CASE \/ objects' = WithStatus(h, "FAILED") /\ handlers[h].pc \in FinalizePcs
             \/ objects' = WithStatus(h, "COMPLETED") /\ handlers[h].pc \in FinalizePcs
    BY <1>4, StatusTypes DEF Statuses
  <1>5. CASE objects' = objects
    BY <1>0, <1>5 DEF ObjectsTyped, ObjectsStay
  <1>6. CASE Verify(h) \/ ScanRejects(h) \/ IoError(h) \/ Forget(h)
    BY <1>4, <1>5, <1>6 DEF Verify, ScanRejects, IoError, Forget, At, FinalizePcs
  <1>7. CASE FinalizeThrows(h)
    BY <1>7, LeavesAre
  <1> QED
    BY <1>1, <1>2, <1>3, <1>5, <1>6, <1>7
    DEF HandlerStep, OpenUpload, AnswerDuplicate, LookUp, CreateDir, SaveMeta, UploadChunk,
        WriteChunk, OpenAssembled, CopyChunk, ScanAccepts, Commit, CleanSessionDir,
        RemoveSessionDir, Register, Answer, AnswerFails, memVars

RestTyped ==
    /\ table  \in [Sids -> Objects \cup {None}]
    /\ index  \in [known : SUBSET Shas, saved : SUBSET Shas]
    /\ timer  \in Expired \cup {None}
    /\ granted \subseteq Sids
    /\ reports \subseteq Report
    /\ malformed \subseteq Shas
    /\ overlapped \subseteq Sids

LEMMA TypeParts == TypeOK <=> HandlersTyped /\ DirsTyped /\ StoreTyped /\ ObjectsTyped /\ RestTyped
  BY DEF TypeOK, HandlersTyped, HandlerStates, DirsTyped, StoreTyped, ObjectsTyped, RestTyped

LEMMA ReportsAre ==
    ASSUME NEW x \in Sids
    PROVE  CompleteReport(x) \in Report /\ FailedReport(x) \in Report
  BY ShaOfAssumption DEF CompleteReport, FailedReport, Report

LEMMA RestKeepsType ==
    ASSUME TypeInv, NEW h \in Handlers, HandlerStep(h)
    PROVE  RestTyped'
  <1>0. /\ RestTyped
        /\ handlers[h].pc # "ready" => Sid(h) \in Sids /\ ShaOf[Sid(h)] \in Shas
    BY Shapes, ShaOfAssumption DEF TypeInv, TypeOK, RestTyped
  <1>1. CASE AnswerDuplicate(h) \/ Answer(h)
    <2>1. reports' \subseteq reports \cup {CompleteReport(Sid(h)), FailedReport(Sid(h))} /\ Sid(h) \in Sids
      BY <1>0, <1>1 DEF AnswerDuplicate, Answer, At
    <2>2. reports' \subseteq Report
      BY <1>0, <2>1, ReportsAre DEF RestTyped
    <2> QED  BY <1>0, <1>1, <2>2 DEF AnswerDuplicate, Answer, RestTyped, diskVars
  <1>2. CASE Forget(h)
    <2>1. Sid(h) \in Sids /\ reports' \subseteq reports \cup {CompleteReport(Sid(h)), FailedReport(Sid(h))}
      <3>1. \/ reports' = reports \cup {CompleteReport(Sid(h))}
            \/ reports' = reports \cup {FailedReport(Sid(h))}
            \/ reports' = reports
        BY <1>2 DEF Forget
      <3> QED  BY <1>0, <1>2, <3>1 DEF Forget, At
    <2>2. reports' \subseteq Report
      BY <1>0, <2>1, ReportsAre DEF RestTyped
    <2>3. table' = [table EXCEPT ![Sid(h)] = None]
      BY <1>2 DEF Forget
    <2> QED  BY <1>0, <1>2, <2>2, <2>3 DEF Forget, RestTyped, diskVars
  <1>3. CASE PutSession(h)
    <2>1. \E i \in Objects : table' = [table EXCEPT ![Sid(h)] = i]
      BY <1>3 DEF PutSession
    <2> QED  BY <1>0, <1>3, <2>1 DEF PutSession, RestTyped, diskVars
  <1>4. CASE CreateDir(h)
    BY <1>0, <1>4 DEF CreateDir, At, RestTyped
  <1>5. CASE Register(h)
    <2>1. Known(h) \subseteq Shas /\ index.saved \subseteq Shas
      BY <1>0, <1>5 DEF Register, At, RestTyped, Known
    <2>2. index' \in [known : SUBSET Shas, saved : SUBSET Shas]
      BY <1>5, <2>1 DEF Register
    <2> QED  BY <1>0, <1>5, <2>2 DEF Register, RestTyped
  <1>6. CASE \E x \in Sids : OpenUpload(h, x)
    BY <1>0, <1>6 DEF OpenUpload, RestTyped, diskVars
  <1>7. CASE UNCHANGED <<table, index, timer, granted, reports, malformed, overlapped>>
    BY <1>0, <1>7 DEF RestTyped
  <1>8. CASE FinalizeThrows(h)
    <2>1. /\ UNCHANGED <<table, timer, granted, reports, malformed, overlapped>>
          /\ \/ index' = index
             \/ handlers[h].pc = "register" /\ index' = [index EXCEPT !.known = Known(h)]
      BY <1>8, ThrowsAre DEF TypeInv
    <2>2. handlers[h].pc = "register" => Known(h) \subseteq Shas
      BY <1>0 DEF RestTyped, Known
    <2>3. index' \in [known : SUBSET Shas, saved : SUBSET Shas]
      BY <1>0, <2>1, <2>2 DEF RestTyped
    <2> QED  BY <1>0, <2>1, <2>3 DEF RestTyped
  <1> QED
    BY <1>1, <1>2, <1>3, <1>4, <1>5, <1>6, <1>7, <1>8
    DEF HandlerStep, LookUp, SaveMeta, UploadChunk, WriteChunk, MarkChunk, FinalizeUpload,
        OpenAssembled, CopyChunk, Verify, ScanAccepts, ScanRejects, Commit, IoError,
        CleanSessionDir, RemoveSessionDir, AnswerFails, diskVars, memVars

\* Where the object of h comes from.
LEMMA ObjectIsKept ==
    ASSUME TypeInv, NEW h \in Handlers, HandlerStep(h), handlers'[h].pc \in StorePcs \cup FinalizePcs
    PROVE  \/ /\ handlers[h] # Ready /\ handlers'[h].sid = handlers[h].sid
              /\ handlers'[h].obj = handlers[h].obj /\ handlers[h].pc \in StorePcs \cup FinalizePcs
           \/ /\ handlers'[h].sid \in Sids
              /\ handlers'[h].obj = table[handlers'[h].sid] /\ table[handlers'[h].sid] # None
  <1>0. /\ TypeOK
        /\ handlers[h].pc \in StorePcs => handlers[h] \in Storing
        /\ handlers[h].pc \in FinalizePcs => handlers[h] \in Finalizing /\ handlers[h] # Ready
        /\ handlers[h].pc \in StorePcs => handlers[h] # Ready
    BY Shapes DEF TypeInv, Ready, FinalizePcs, StorePcs
  <1>1. ~Done(h)
    BY <1>0, DoneIs DEF StorePcs, FinalizePcs
  <1>2. CASE \E x \in Sids : OpenUpload(h, x)
    BY <1>0, <1>2, OpenUploadMoves DEF StorePcs, FinalizePcs
  <1>3. CASE \E x \in Sids : FinalizeUpload(h, x)
    BY <1>0, <1>3, FinalizeUploadMoves DEF FinalizeUpload
  <1>4. CASE \E x \in Sids, k \in Chunks, piece \in Pieces : UploadChunk(h, x, k, piece)
    BY <1>0, <1>4, UploadChunkMoves DEF UploadChunk
  <1>5. CASE OpenAssembled(h) \/ CopyChunk(h) \/ Commit(h) \/ CleanSessionDir(h)
    <2>1. handlers[h].pc \in FinalizePcs
      BY <1>5 DEF OpenAssembled, CopyChunk, Commit, CleanSessionDir, At, FinalizePcs
    <2> QED  BY <1>0, <1>5, <2>1, OpenAssembledMoves, CopyChunkMoves, CommitMoves, CleanMoves
  <1>6. CASE LookUp(h) \/ CreateDir(h) \/ SaveMeta(h)
    <2>0. SaveMeta(h) => At(h, "meta")
      BY <1>1 DEF SaveMeta
    <2>1. PICK pc \in {"create", "meta", "put"} : Goto(h, pc)
      BY <1>1, <1>6, <2>0 DEF LookUp, CreateDir, SaveMeta
    <2>2. handlers[h] \in Opening
      BY <1>0, <1>6, <2>0, Shapes DEF LookUp, CreateDir, At
    <2> QED  BY <1>0, <2>1, <2>2, GoesTo DEF StorePcs, FinalizePcs
  <1>7. CASE WriteChunk(h) \/ MarkChunk(h)
    <2>1. PICK pc \in {"mark", "progress"} : Goto(h, pc)
      BY <1>1, <1>7 DEF WriteChunk, MarkChunk
    <2>2. handlers[h].pc \in StorePcs /\ pc \in StorePcs
      BY <1>7 DEF WriteChunk, MarkChunk, At, StorePcs
    <2> QED  BY <1>0, <2>1, <2>2, GoesTo
  <1>8. CASE \/ ScanAccepts(h) \/ RemoveSessionDir(h) \/ Register(h) \/ Forget(h)
             \/ Verify(h) /\ Goto(h, "scan")
    <2>1. PICK pc \in {"scan", "commit", "register", "forget", "answer"} : Goto(h, pc)
      BY <1>1, <1>8 DEF ScanAccepts, RemoveSessionDir, Register, Forget
    <2>2. handlers[h].pc \in FinalizePcs /\ pc \in FinalizePcs
      BY <1>8 DEF ScanAccepts, RemoveSessionDir, Register, Forget, Verify, At, FinalizePcs
    <2> QED  BY <1>0, <2>1, <2>2, GoesTo
  <1>9. CASE \/ Verify(h) /\ ~Goto(h, "scan")
             \/ ScanRejects(h) \/ IoError(h) \/ AnswerFails(h)
    <2>1. handlers[h].pc \in FinalizePcs
      BY <1>9 DEF Verify, ScanRejects, IoError, AnswerFails, At, FinalizePcs
    <2>2. Sid(h) \in Sids
      BY <1>0, <2>1, Shapes DEF FinalizePcs
    <2>3. PICK end \in {"mismatch", "rejected", "io", "gone"} :
              \/ handlers' = Failed(handlers, h, end)
              \/ \E x \in Sids : handlers' = Failed(Followed(x, "nowhere"), h, end)
      BY <1>1, <1>9, <2>2 DEF Verify, ScanRejects, IoError, AnswerFails
    <2>4. /\ handlers'[h].sid = handlers[h].sid
          /\ handlers'[h].obj = handlers[h].obj
      BY <1>0, <2>1, <2>3, FailsTo
    <2> QED  BY <1>0, <2>1, <2>4
  <1>10. CASE Verify(h)
    BY <1>8, <1>9, <1>10
  <1>11. ~(AnswerDuplicate(h) \/ PutSession(h) \/ Answer(h) \/ FinalizeThrows(h))
    BY <1>0, <1>1, ThrowsAre DEF AnswerDuplicate, PutSession, Answer, StorePcs, FinalizePcs
  <1> QED
    BY <1>2, <1>3, <1>4, <1>5, <1>6, <1>7, <1>8, <1>9, <1>10, <1>11 DEF HandlerStep

LEMMA ObjectsStayFit ==
    ASSUME TypeInv, NEW h \in Handlers, HandlerStep(h)
    PROVE  ObjectsFit'
  <1>0. TypeOK /\ ObjectsFit /\ ObjectsStay /\ HandlersTyped' /\ OthersStay(h) /\ RestTyped /\ RestTyped'
    BY ObjectsKeepType, HandlersMove, RestKeepsType, TypeParts DEF TypeInv
  <1>1. ASSUME NEW x \in Sids, table'[x] # None PROVE Current(x)' # None
    <2>1. CASE table'[x] = table[x]
      BY <1>0, <1>1, <2>1 DEF ObjectsFit, ObjectsStay, Current, RestTyped
    <2>2. CASE table'[x] # table[x]
      <3>1. PutSession(h) \/ Forget(h)
        BY <1>0, <2>2, ThrowsAre
        DEF HandlerStep, OpenUpload, AnswerDuplicate, LookUp, CreateDir, SaveMeta, UploadChunk,
            WriteChunk, MarkChunk, FinalizeUpload, OpenAssembled, CopyChunk, Verify,
            ScanAccepts, ScanRejects, Commit, IoError, CleanSessionDir, RemoveSessionDir, Register,
            Answer, AnswerFails, memVars
      <3>2. ~Forget(h)
        BY <1>0, <1>1, <2>2 DEF Forget, RestTyped
      <3>3. PICK i \in Objects :
                /\ objects' = [objects EXCEPT ![Sid(h)][i] = [status |-> "INIT", got |-> {}, left |-> FALSE]]
                /\ table' = [table EXCEPT ![Sid(h)] = i]
        BY <3>1, <3>2 DEF PutSession
      <3>4. x = Sid(h) /\ table'[x] = i
        BY <1>0, <2>2, <3>3 DEF RestTyped
      <3>5. objects'[x][i] = [status |-> "INIT", got |-> {}, left |-> FALSE]
        BY <1>0, <3>3, <3>4 DEF TypeOK
      <3>6. [status |-> "INIT", got |-> {}, left |-> FALSE] \in Object
        BY DEF Object, Statuses
      <3> QED  BY <3>4, <3>5, <3>6, NoneIsNone DEF Current
    <2> QED  BY <2>1, <2>2
  <1>2. ASSUME NEW g \in Handlers, handlers'[g].pc \in StorePcs \cup FinalizePcs
        PROVE  objects'[handlers'[g].sid][handlers'[g].obj] # None
    <2>1. \/ /\ handlers'[g].sid = handlers[g].sid /\ handlers'[g].obj = handlers[g].obj
             /\ handlers[g].pc \in StorePcs \cup FinalizePcs
          \/ /\ handlers'[g].sid \in Sids
             /\ handlers'[g].obj = table[handlers'[g].sid] /\ table[handlers'[g].sid] # None
      <3>1. CASE g = h
        BY <1>2, <3>1, ObjectIsKept
      <3>2. CASE g # h
        BY <1>0, <1>2, <3>2 DEF OthersStay
      <3> QED  BY <3>1, <3>2
    <2>2. CASE /\ handlers'[g].sid = handlers[g].sid /\ handlers'[g].obj = handlers[g].obj
               /\ handlers[g].pc \in StorePcs \cup FinalizePcs
      <3>1. handlers[g].sid \in Sids /\ handlers[g].obj \in Objects
        BY <1>0, <2>2, Shapes DEF Storing, Finalizing, Sid, StorePcs, FinalizePcs
      <3> QED  BY <1>0, <2>2, <3>1 DEF ObjectsFit, ObjectsStay, Sid
    <2>3. CASE /\ handlers'[g].sid \in Sids
               /\ handlers'[g].obj = table[handlers'[g].sid] /\ table[handlers'[g].sid] # None
      BY <1>0, <2>3 DEF ObjectsFit, ObjectsStay, Current, RestTyped
    <2> QED  BY <2>1, <2>2, <2>3
  <1> QED  BY <1>1, <1>2 DEF ObjectsFit, Sid

\* Blobs are not taken out of the store.
StoreGrows == \A s \in Shas : store[s] # None => store'[s] # None

LEMMA StoreOnlyGrows ==
    ASSUME TypeInv, NEW h \in Handlers, HandlerStep(h)
    PROVE  StoreGrows
  <1>1. CASE CopyChunk(h)
    <2>1. handlers[h].pc = "copy" /\ handlers[h] \in Finalizing /\ Sid(h) \in Sids
      BY <1>1, Shapes DEF CopyChunk, At, FinalizePcs, TypeInv
    <2>2. store'[ShaOf[Sid(h)]] # None \/ store' = store
      <3>1. CASE handlers[h].out = "store"
        <4>1. /\ handlers[h].pos \in Chunks /\ store[ShaOf[Sid(h)]] # None
              /\ ShaOf[Sid(h)] \in Shas
          BY <2>1, <3>1, ShaOfAssumption DEF TypeInv, CopiesFit, FinalizePcs
        <4>2. store' \in [Shas -> Contents \cup {None}]
          BY <1>1, CopyTypes DEF StoreTyped
        <4>3. /\ store[ShaOf[Sid(h)]] \in Contents
              /\ dirs[Sid(h)].chunks[handlers[h].pos] \in Pieces
          BY <1>1, <2>1, <4>1 DEF TypeInv, TypeOK, CopyChunk, Dir
        <4>4. WrittenAt(store[ShaOf[Sid(h)]], handlers[h].pos, dirs[Sid(h)].chunks[handlers[h].pos]) # None
          BY <4>1, <4>3, WrittenIs, NoneIsNone
        <4>5. store'[ShaOf[Sid(h)]]
                  = WrittenAt(store[ShaOf[Sid(h)]], handlers[h].pos, dirs[Sid(h)].chunks[handlers[h].pos])
          BY <1>1, <3>1, <4>1 DEF CopyChunk, TypeInv, TypeOK
        <4> QED  BY <4>4, <4>5
      <3>2. CASE handlers[h].out # "store"
        BY <1>1, <3>2 DEF CopyChunk
      <3> QED  BY <3>1, <3>2
    <2>3. \A s \in Shas : s # ShaOf[Sid(h)] => store'[s] = store[s]
      BY <1>1 DEF CopyChunk, TypeInv, TypeOK
    <2> QED  BY <2>2, <2>3 DEF StoreGrows
  <1>2. CASE Commit(h)
    <2>1. store' = store \/ /\ store[ShaOf[Sid(h)]] = None
                            /\ \E c : store' = [store EXCEPT ![ShaOf[Sid(h)]] = c]
      BY <1>2 DEF Commit
    <2> QED  BY <2>1 DEF StoreGrows, TypeInv, TypeOK
  <1>3. CASE UNCHANGED store
    BY <1>3 DEF StoreGrows
  <1>4. CASE FinalizeThrows(h)
    BY <1>3, <1>4, ThrowsAre DEF TypeInv
  <1> QED
    BY <1>1, <1>2, <1>3, <1>4
    DEF HandlerStep, OpenUpload, AnswerDuplicate, LookUp, CreateDir, SaveMeta, PutSession,
        UploadChunk, WriteChunk, MarkChunk, FinalizeUpload, OpenAssembled, Verify,
        ScanAccepts, ScanRejects, IoError, CleanSessionDir, RemoveSessionDir, Register, Forget,
        Answer, AnswerFails, diskVars

\* A commit has stored the content.
LEMMA Commits ==
    ASSUME TypeInv, NEW h \in Handlers, Commit(h)
    PROVE  Sid(h) \in Sids /\ ShaOf[Sid(h)] \in Shas /\ store'[ShaOf[Sid(h)]] # None
  <1>1. Sid(h) \in Sids /\ ShaOf[Sid(h)] \in Shas
    BY Shapes, ShaOfAssumption DEF TypeInv, Commit, At
  <1> QED  BY <1>1 DEF Commit, TypeInv, TypeOK

\* Where the copies of the other handlers go.
OutsFollow(h) ==
    \A g \in Handlers \ {h} : handlers[g].pc = "copy" /\ handlers'[g].out # handlers[g].out =>
        /\ handlers[g].out = "dir"
        /\ \/ handlers'[g].out = "nowhere"
           \/ handlers'[g].out = "store" /\ store'[ShaOf[Sid(g)]] # None

\* A file that goes away, or into the store, takes its copies along.
CopiesFollow(h) ==
    \A g \in Handlers \ {h} :
        /\ handlers[g].pc = "copy" /\ dirs[Sid(g)] # None /\ dirs[Sid(g)].assembled # None
        /\ dirs'[Sid(g)] = None \/ dirs'[Sid(g)].assembled = None
        => handlers'[g].out # "dir"

LEMMA OutsAre ==
    ASSUME TypeInv, NEW h \in Handlers, HandlerStep(h)
    PROVE  OutsFollow(h)
  <1>0. TypeOK
    BY DEF TypeInv
  <1>1. CASE Commit(h)
    BY <1>0, <1>1, CommitMoves, FollowedIs, Commits DEF OutsFollow
  <1>2. CASE CleanSessionDir(h)
    BY <1>0, <1>2, CleanMoves, FollowedIs DEF OutsFollow
  <1>3. CASE Verify(h) \/ ScanRejects(h) \/ IoError(h) \/ AnswerFails(h)
    <2>1. handlers[h].pc \in FinalizePcs /\ Sid(h) \in Sids
      BY <1>0, <1>3, Shapes DEF Verify, ScanRejects, IoError, AnswerFails, At, FinalizePcs
    <2>2. \/ Done(h)
          \/ Goto(h, "scan")
          \/ \E end \in {"mismatch", "rejected", "io", "gone"} :
                 \/ handlers' = Failed(handlers, h, end)
                 \/ \E x \in Sids : handlers' = Failed(Followed(x, "nowhere"), h, end)
      BY <1>3, <2>1 DEF Verify, ScanRejects, IoError, AnswerFails
    <2>3. ASSUME Done(h) \/ Goto(h, "scan") PROVE OutsFollow(h)
      BY <1>0, <2>3 DEF OutsFollow, Done, Goto, TypeOK
    <2>4. ASSUME NEW end \in {"mismatch", "rejected", "io", "gone"},
                 \/ handlers' = Failed(handlers, h, end)
                 \/ \E x \in Sids : handlers' = Failed(Followed(x, "nowhere"), h, end)
          PROVE  OutsFollow(h)
      <3>1. \A g \in Handlers \ {h} :
                \/ handlers'[g] = handlers[g]
                \/ handlers[g].pc = "copy" /\ handlers[g].out = "dir" /\ handlers'[g].out = "nowhere"
        BY <1>0, <2>1, <2>4, FailsTo
      <3> QED  BY <3>1 DEF OutsFollow
    <2> QED  BY <2>2, <2>3, <2>4
  <1>4. CASE \A g \in Handlers \ {h} : handlers'[g] = handlers[g]
    BY <1>4 DEF OutsFollow
  <1>5. CASE FinalizeThrows(h)
    BY <1>0, <1>4, <1>5, ThrowsAre, FollowedIs DEF OutsFollow
  <1> QED
    BY <1>0, <1>1, <1>2, <1>3, <1>4, <1>5
    DEF HandlerStep, OpenUpload, AnswerDuplicate, LookUp, CreateDir, SaveMeta, PutSession,
        UploadChunk, WriteChunk, MarkChunk, FinalizeUpload, OpenAssembled, CopyChunk,
        ScanAccepts, RemoveSessionDir, Register, Forget, Answer, Goto, Done, TypeOK

LEMMA CopiesAre ==
    ASSUME TypeInv, NEW h \in Handlers, HandlerStep(h)
    PROVE  CopiesFollow(h)
  <1>0. /\ TypeOK /\ DirsTyped
        /\ \A g \in Handlers : handlers[g].pc = "copy" => Sid(g) \in Sids
        /\ handlers[h].pc # "ready" => Sid(h) \in Sids
    BY Shapes, TypeParts DEF TypeInv
  <1>1. CASE Commit(h)
    <2>1. \A x \in Sids : x # Sid(h) => dirs'[x] = dirs[x]
      BY <1>0, <1>1 DEF Commit, DirsTyped
    <2>2. PICK where \in {"store", "nowhere"} :
              \A g \in Handlers \ {h} : handlers'[g] = Followed(Sid(h), where)[g]
      BY <1>0, <1>1, CommitMoves
    <2>3. \A g \in Handlers \ {h} :
              handlers[g].pc = "copy" /\ Sid(g) = Sid(h) => handlers'[g].out # "dir"
      BY <1>0, <2>2, FollowedIs
    <2> QED  BY <1>0, <2>1, <2>3 DEF CopiesFollow
  <1>2. CASE CleanSessionDir(h)
    <2>1. \A x \in Sids : x # Sid(h) => dirs'[x] = dirs[x]
      BY <1>0, <1>2 DEF CleanSessionDir, Emptied, DirsTyped
    <2>3. \A g \in Handlers \ {h} :
              handlers[g].pc = "copy" /\ Sid(g) = Sid(h) => handlers'[g].out # "dir"
      BY <1>0, <1>2, CleanMoves, FollowedIs
    <2> QED  BY <1>0, <2>1, <2>3 DEF CopiesFollow
  <1>3. CASE Verify(h) \/ ScanRejects(h)
    <2>1. CASE dirs' = dirs
      BY <2>1 DEF CopiesFollow
    <2>2. CASE dirs' # dirs
      <3>1. PICK end \in {"mismatch", "rejected"} :
                /\ handlers' = Failed(Followed(Sid(h), "nowhere"), h, end)
                /\ dirs' = [dirs EXCEPT ![Sid(h)].assembled = None]
        BY <1>3, <2>2 DEF Verify, ScanRejects
      <3>2. \A x \in Sids : x # Sid(h) => dirs'[x] = dirs[x]
        BY <1>0, <3>1 DEF DirsTyped
      <3>3. \A g \in Handlers \ {h} : handlers'[g] = Followed(Sid(h), "nowhere")[g]
        BY <1>0, <3>1, FollowedIs DEF Failed
      <3>4. \A g \in Handlers \ {h} :
                handlers[g].pc = "copy" /\ Sid(g) = Sid(h) => handlers'[g].out # "dir"
        BY <1>0, <3>3, FollowedIs
      <3> QED  BY <1>0, <3>2, <3>4 DEF CopiesFollow
    <2> QED  BY <2>1, <2>2
  <1>4. CASE RemoveSessionDir(h)
    <2>1. \A x \in Sids : dirs'[x] = dirs[x] \/ dirs[x] \in {None, EmptyDir}
      BY <1>0, <1>4 DEF RemoveSessionDir, Removable, DirsTyped
    <2> QED  BY <1>0, <2>1 DEF CopiesFollow, EmptyDir
  <1>5. CASE CreateDir(h) \/ SaveMeta(h) \/ WriteChunk(h)
    <2>1. \A x \in Sids : dirs[x] # None => dirs'[x] # None /\ dirs'[x].assembled = dirs[x].assembled
      <3>1. CASE CreateDir(h)
        BY <1>0, <3>1 DEF CreateDir, DirsTyped
      <3>2. CASE SaveMeta(h)
        <4>1. PICK d : d = [dirs[Sid(h)] EXCEPT !.meta = TRUE]
          OBVIOUS
        <4>2. /\ Sid(h) \in Sids
              /\ \/ dirs' = dirs
                 \/ dirs[Sid(h)] \in Dir /\ dirs' = [dirs EXCEPT ![Sid(h)] = d]
          <5>1. Sid(h) \in Sids
            BY <1>0, <3>2 DEF SaveMeta, At
          <5>2. CASE dirs[Sid(h)] = None
            BY <3>2, <5>1, <5>2 DEF SaveMeta
          <5>3. CASE dirs[Sid(h)] # None
            BY <1>0, <3>2, <4>1, <5>1, <5>3 DEF SaveMeta, DirsTyped
          <5> QED  BY <5>2, <5>3
        <4>3. dirs[Sid(h)] \in Dir => d \in Dir /\ d.assembled = dirs[Sid(h)].assembled
          BY <4>1 DEF Dir
        <4> QED  BY <1>0, <4>2, <4>3, NoneIsNone DEF DirsTyped
      <3>3. CASE WriteChunk(h)
        <4>0. handlers[h] \in Storing /\ Sid(h) \in Sids
          BY <1>0, <3>3, Shapes DEF WriteChunk, At, StorePcs
        <4>1. PICK k \in Chunks, piece \in Pieces :
                  \/ dirs' = dirs
                  \/ /\ dirs[Sid(h)] \in Dir
                     /\ dirs' = [dirs EXCEPT ![Sid(h)] = [dirs[Sid(h)] EXCEPT !.chunks[k] = piece]]
          BY <1>0, <3>3, <4>0 DEF WriteChunk, Storing, DirsTyped
        <4>2. PICK d : d = [dirs[Sid(h)] EXCEPT !.chunks[k] = piece]
          OBVIOUS
        <4>3. dirs[Sid(h)] \in Dir => d \in Dir /\ d.assembled = dirs[Sid(h)].assembled
          BY <4>2, DirUpdates DEF Dir
        <4>4. \/ dirs' = dirs
              \/ dirs[Sid(h)] \in Dir /\ dirs' = [dirs EXCEPT ![Sid(h)] = d]
          BY <4>1, <4>2
        <4> QED  BY <1>0, <4>0, <4>3, <4>4, NoneIsNone DEF DirsTyped
      <3> QED  BY <1>5, <3>1, <3>2, <3>3
    <2> QED  BY <1>0, <2>1 DEF CopiesFollow
  <1>6. CASE OpenAssembled(h) \/ CopyChunk(h)
    <2>1. \A x \in Sids : dirs[x] # None /\ dirs[x].assembled # None =>
              dirs'[x] # None /\ dirs'[x].assembled # None
      <3>1. Sid(h) \in Sids /\ dirs[Sid(h)] \in Dir /\ DirsTyped'
        BY <1>0, <1>6, DirsKeepType DEF OpenAssembled, CopyChunk, At, DirsTyped
      <3>2. CASE dirs' = dirs
        BY <3>2
      <3>3. CASE dirs' # dirs
        <4>1. PICK c \in Contents : dirs' = [dirs EXCEPT ![Sid(h)] = [dirs[Sid(h)] EXCEPT !.assembled = c]]
          <5>1. CASE OpenAssembled(h)
            BY <5>1, EmptyFile DEF OpenAssembled
          <5>2. CASE CopyChunk(h)
            <6>1. /\ handlers[h].pc = "copy" /\ handlers[h].out = "dir"
                  /\ dirs[Sid(h)].chunks[handlers[h].pos] # None
              BY <3>3, <5>2 DEF CopyChunk, At
            <6>2. handlers[h].pos \in Chunks /\ dirs[Sid(h)].assembled # None
              BY <6>1 DEF TypeInv, CopiesFit, FinalizePcs
            <6>3. /\ dirs[Sid(h)].assembled \in Contents
                  /\ dirs[Sid(h)].chunks[handlers[h].pos] \in Pieces
              BY <3>1, <6>1, <6>2 DEF Dir
            <6> QED  BY <5>2, <6>1, <6>2, <6>3, WrittenIs DEF CopyChunk
          <5> QED  BY <1>6, <5>1, <5>2
        <4>2. /\ [dirs[Sid(h)] EXCEPT !.assembled = c] \in Dir
              /\ [dirs[Sid(h)] EXCEPT !.assembled = c].assembled = c
          BY <3>1 DEF Dir
        <4> QED  BY <1>0, <3>1, <4>1, <4>2, NoneIsNone DEF DirsTyped
      <3> QED  BY <3>2, <3>3
    <2> QED  BY <1>0, <2>1 DEF CopiesFollow
  <1>7. CASE UNCHANGED dirs
    BY <1>7 DEF CopiesFollow
  <1>8. CASE FinalizeThrows(h)
    <2>1. CASE dirs' = dirs
      BY <1>7, <2>1
    <2>2. CASE dirs' # dirs
      <3>1. /\ dirs' = [dirs EXCEPT ![Sid(h)].assembled = None]
            /\ \A g \in Handlers \ {h} : handlers'[g] = Followed(Sid(h), "nowhere")[g]
        BY <1>0, <1>8, <2>2, ThrowsAre
      <3>2. \A x \in Sids : x # Sid(h) => dirs'[x] = dirs[x]
        BY <1>0, <3>1 DEF DirsTyped
      <3>3. \A g \in Handlers \ {h} :
                handlers[g].pc = "copy" /\ Sid(g) = Sid(h) => handlers'[g].out # "dir"
        BY <1>0, <3>1, FollowedIs
      <3> QED  BY <1>0, <3>2, <3>3 DEF CopiesFollow
    <2> QED  BY <2>1, <2>2
  <1> QED
    BY <1>1, <1>2, <1>3, <1>4, <1>5, <1>6, <1>7, <1>8
    DEF HandlerStep, OpenUpload, AnswerDuplicate, LookUp, PutSession, UploadChunk, MarkChunk,
        FinalizeUpload, ScanAccepts, IoError, Register, Forget, Answer, AnswerFails,
        diskVars

\* How h itself copies.
LEMMA CopyOfOne ==
    ASSUME TypeInv, NEW h \in Handlers, HandlerStep(h), handlers'[h].pc \in FinalizePcs
    PROVE  /\ handlers'[h].pos \in Chunks
           /\ handlers'[h].out # "nowhere" => handlers'[h].pc = "copy"
           /\ handlers'[h].out = "dir" =>
                  dirs'[handlers'[h].sid] # None /\ dirs'[handlers'[h].sid].assembled # None
           /\ handlers'[h].out = "store" => store'[ShaOf[handlers'[h].sid]] # None
  <1>0. /\ TypeOK /\ DirsTyped /\ StoreTyped /\ StoreGrows /\ DirsTyped'
        /\ handlers[h].pc # "ready" => Sid(h) \in Sids /\ ShaOf[Sid(h)] \in Shas
        /\ handlers[h].pc \in FinalizePcs =>
               /\ handlers[h] \in Finalizing
               /\ handlers[h].pos \in Chunks
               /\ handlers[h].out # "nowhere" => handlers[h].pc = "copy"
               /\ handlers[h].out = "dir" => dirs[Sid(h)] # None /\ dirs[Sid(h)].assembled # None
               /\ handlers[h].out = "store" => store[ShaOf[Sid(h)]] # None
    BY Shapes, StoreOnlyGrows, DirsKeepType, TypeParts, ShaOfAssumption DEF TypeInv, CopiesFit
  <1>1. ~Done(h)
    BY <1>0, DoneIs DEF FinalizePcs
  <1>2. CASE \E x \in Sids : OpenUpload(h, x)
    BY <1>0, <1>2, OpenUploadMoves DEF FinalizePcs
  <1>3. CASE \E x \in Sids : FinalizeUpload(h, x)
    BY <1>0, <1>3, FinalizeUploadMoves, ChunkCountAssumption DEF Chunks
  <1>4. CASE \E x \in Sids, k \in Chunks, piece \in Pieces : UploadChunk(h, x, k, piece)
    BY <1>0, <1>4, UploadChunkMoves DEF FinalizePcs
  <1>5. CASE OpenAssembled(h)
    <2>1. handlers[h].pc \in FinalizePcs /\ Sid(h) \in Sids /\ dirs[Sid(h)] \in Dir
      BY <1>0, <1>5 DEF OpenAssembled, At, FinalizePcs, DirsTyped
    <2>2. PICK d : d = [dirs[Sid(h)] EXCEPT !.assembled = <<>>]
      OBVIOUS
    <2>3. d \in Dir /\ d.assembled = <<>> /\ <<>> # None
      BY <2>1, <2>2, EmptyFile, NoneIsNone DEF Dir
    <2>4. dirs'[Sid(h)] = d
      BY <1>0, <1>5, <2>1, <2>2 DEF OpenAssembled, DirsTyped
    <2> QED  BY <1>0, <1>5, <2>1, <2>3, <2>4, OpenAssembledMoves, NoneIsNone DEF Sid
  <1>6. CASE CopyChunk(h)
    <2>1. handlers[h].pc = "copy" /\ handlers[h].pc \in FinalizePcs /\ Sid(h) \in Sids
      BY <1>0, <1>6 DEF CopyChunk, At, FinalizePcs
    <2>2. handlers[h].pos \in Nat /\ handlers[h].pos \in 1 .. ChunkCount /\ ChunkCount \in Nat
      BY <1>0, <2>1, ChunkCountAssumption DEF Chunks
    <2>3. handlers[h].pos # ChunkCount => handlers[h].pos + 1 \in Chunks
      BY <2>2 DEF Chunks
    <2>4. handlers[h].out = "dir" => dirs'[Sid(h)] # None /\ dirs'[Sid(h)].assembled # None
      <3>1. SUFFICES ASSUME handlers[h].out = "dir"
                     PROVE  dirs'[Sid(h)] # None /\ dirs'[Sid(h)].assembled # None
        OBVIOUS
      <3>2. /\ dirs[Sid(h)] \in Dir /\ dirs[Sid(h)].assembled \in Contents
            /\ dirs[Sid(h)].chunks[handlers[h].pos] \in Pieces
        BY <1>0, <1>6, <2>1, <3>1 DEF DirsTyped, Dir, CopyChunk
      <3>3. PICK c \in Contents :
                c = WrittenAt(dirs[Sid(h)].assembled, handlers[h].pos, dirs[Sid(h)].chunks[handlers[h].pos])
        BY <1>0, <2>1, <3>2, WrittenIs
      <3>4. PICK d : d = [dirs[Sid(h)] EXCEPT !.assembled = c]
        OBVIOUS
      <3>5. d \in Dir /\ d.assembled = c
        BY <3>2, <3>4 DEF Dir
      <3>6. dirs'[Sid(h)] = d
        BY <1>0, <1>6, <2>1, <3>1, <3>3, <3>4 DEF CopyChunk, DirsTyped
      <3> QED  BY <3>5, <3>6, NoneIsNone
    <2> QED  BY <1>0, <1>6, <2>1, <2>2, <2>3, <2>4, CopyChunkMoves DEF Sid, StoreGrows
  <1>7. CASE Commit(h) \/ CleanSessionDir(h)
    <2>1. handlers[h].pc \in FinalizePcs /\ handlers[h].pc # "copy"
      BY <1>7 DEF Commit, CleanSessionDir, At, FinalizePcs
    <2> QED  BY <1>0, <1>7, <2>1, CommitMoves, CleanMoves DEF FinalizePcs
  <1>8. CASE \/ ScanAccepts(h) \/ RemoveSessionDir(h) \/ Register(h) \/ Forget(h)
             \/ Verify(h) /\ Goto(h, "scan")
    <2>1. PICK pc \in {"scan", "commit", "register", "forget", "answer"} : Goto(h, pc)
      BY <1>1, <1>8 DEF ScanAccepts, RemoveSessionDir, Register, Forget
    <2>2. handlers[h].pc \in FinalizePcs /\ pc \in FinalizePcs /\ handlers[h].pc # "copy"
      BY <1>8 DEF ScanAccepts, RemoveSessionDir, Register, Forget, Verify, At, FinalizePcs
    <2>3. handlers'[h].pos = handlers[h].pos /\ handlers'[h].out = handlers[h].out
      BY <1>0, <2>1, <2>2, GoesTo
    <2> QED  BY <1>0, <2>2, <2>3
  <1>9. CASE \/ Verify(h) /\ ~Goto(h, "scan")
             \/ ScanRejects(h) \/ IoError(h) \/ AnswerFails(h)
    <2>1. handlers[h].pc \in FinalizePcs /\ Sid(h) \in Sids
      BY <1>0, <1>9 DEF Verify, ScanRejects, IoError, AnswerFails, At, FinalizePcs
    <2>2. PICK end \in {"mismatch", "rejected", "io", "gone"} :
              \/ handlers' = Failed(handlers, h, end)
              \/ \E x \in Sids : handlers' = Failed(Followed(x, "nowhere"), h, end)
      BY <1>1, <1>9, <2>1 DEF Verify, ScanRejects, IoError, AnswerFails
    <2>3. handlers'[h].pos = handlers[h].pos /\ handlers'[h].out = "nowhere"
      BY <1>0, <2>1, <2>2, FailsTo
    <2> QED  BY <1>0, <2>1, <2>3
  <1>10. CASE Verify(h)
    BY <1>8, <1>9, <1>10
  <1>11. CASE LookUp(h) \/ CreateDir(h) \/ SaveMeta(h) \/ WriteChunk(h) \/ MarkChunk(h)
    <2>1. PICK pc \in {"create", "meta", "put", "mark", "progress"} : Goto(h, pc)
      BY <1>1, <1>11 DEF LookUp, CreateDir, SaveMeta, WriteChunk, MarkChunk
    <2>2. handlers'[h].pc = pc
      <3>1. handlers[h] \in Opening \cup Storing
        BY <1>0, <1>11, Shapes
        DEF LookUp, CreateDir, SaveMeta, WriteChunk, MarkChunk, At, StorePcs
      <3>2. handlers[h] \in HandlerStates /\ [handlers[h] EXCEPT !.pc = pc].pc = pc
        BY <3>1 DEF Opening, Storing, HandlerStates
      <3> QED  BY <1>0, <2>1, <3>2 DEF Goto, TypeOK
    <2> QED  BY <2>1, <2>2 DEF FinalizePcs
  <1>12. ~(AnswerDuplicate(h) \/ PutSession(h) \/ Answer(h) \/ FinalizeThrows(h))
    BY <1>0, <1>1, ThrowsAre DEF AnswerDuplicate, PutSession, Answer, FinalizePcs
  <1> QED
    BY <1>2, <1>3, <1>4, <1>5, <1>6, <1>7, <1>8, <1>9, <1>10, <1>11, <1>12 DEF HandlerStep

LEMMA CopiesStayFit ==
    ASSUME TypeInv, NEW h \in Handlers, HandlerStep(h)
    PROVE  CopiesFit'
  <1>0. TypeOK /\ CopiesFit /\ OthersStay(h) /\ OutsFollow(h) /\ CopiesFollow(h) /\ StoreGrows
    BY HandlersMove, OutsAre, CopiesAre, StoreOnlyGrows DEF TypeInv
  <1>1. ASSUME NEW g \in Handlers, handlers'[g].pc \in FinalizePcs
        PROVE  /\ handlers'[g].pos \in Chunks
               /\ handlers'[g].out # "nowhere" => handlers'[g].pc = "copy"
               /\ handlers'[g].out = "dir" =>
                      dirs'[handlers'[g].sid] # None /\ dirs'[handlers'[g].sid].assembled # None
               /\ handlers'[g].out = "store" => store'[ShaOf[handlers'[g].sid]] # None
    <2>1. CASE g = h
      BY <1>1, <2>1, CopyOfOne
    <2>2. CASE g # h /\ handlers[g].pc # "copy"
      <3>1. handlers'[g] = handlers[g]
        BY <1>0, <2>2 DEF OthersStay
      <3> QED  BY <1>0, <1>1, <2>2, <3>1 DEF CopiesFit
    <2>3. CASE g # h /\ handlers[g].pc = "copy"
      <3>1. /\ handlers'[g].pos = handlers[g].pos /\ handlers'[g].sid = handlers[g].sid
            /\ handlers'[g].pc = "copy"
        BY <1>0, <2>3 DEF OthersStay
      <3>2. /\ handlers[g].pos \in Chunks
            /\ handlers[g].out = "dir" => dirs[Sid(g)] # None /\ dirs[Sid(g)].assembled # None
            /\ handlers[g].out = "store" => store[ShaOf[Sid(g)]] # None
            /\ ShaOf[Sid(g)] \in Shas
        BY <1>0, <2>3, Shapes, ShaOfAssumption DEF CopiesFit, FinalizePcs
      <3>3. handlers'[g].out = "dir" => dirs'[Sid(g)] # None /\ dirs'[Sid(g)].assembled # None
        BY <1>0, <2>3, <3>2 DEF OutsFollow, CopiesFollow
      <3>4. handlers'[g].out = "store" => store'[ShaOf[Sid(g)]] # None
        BY <1>0, <2>3, <3>2 DEF OutsFollow, StoreGrows
      <3> QED  BY <3>1, <3>2, <3>3, <3>4 DEF Sid
    <2> QED  BY <2>1, <2>2, <2>3
  <1> QED  BY <1>1 DEF CopiesFit, Sid

----
(***************************************************************************)
(* Theorem: types.                                                         *)
(***************************************************************************)

LEMMA EmptiedIs ==
    ASSUME TypeOK, NEW x, NEW y \in Sids
    PROVE  IF y = x /\ dirs[x] # None THEN Emptied(x)[y] = EmptyDir ELSE Emptied(x)[y] = dirs[y]
  BY DEF Emptied, TypeOK

LEMMA TimerKeepsType ==
    ASSUME TypeInv, TimerStep
    PROVE  TypeInv'
  <1>0. TypeOK /\ HandlersTyped /\ DirsTyped /\ StoreTyped /\ ObjectsTyped /\ RestTyped
    BY TypeParts DEF TypeInv
  <1>1. ASSUME NEW x \in Sids, ExpireSession(x) PROVE TypeInv'
    <2>1. [pc |-> "clean", sid |-> x] \in Expired
      BY DEF Expired
    <2>2. HandlersTyped' /\ DirsTyped' /\ StoreTyped' /\ ObjectsTyped' /\ RestTyped'
      BY <1>0, <1>1, <2>1
      DEF ExpireSession, HandlersTyped, DirsTyped, StoreTyped, ObjectsTyped, RestTyped, diskVars
    <2>3. ObjectsFit'
      BY <1>0, <1>1, TypeParts DEF TypeInv, ObjectsFit, ExpireSession, RestTyped, Current, Sid
    <2>4. CopiesFit'
      BY <1>1 DEF TypeInv, CopiesFit, ExpireSession, diskVars, Sid
    <2> QED
      BY <2>2, <2>3, <2>4, TypeParts
      DEF TypeInv, TypeOK, HandlersTyped, DirsTyped, StoreTyped, ObjectsTyped, RestTyped, HandlerStates
  <1>2. CASE CleanExpired
    <2>0. timer \in Expired /\ timer.sid \in Sids
      BY <1>0, <1>2 DEF CleanExpired, RestTyped, Expired
    <2>1. [timer EXCEPT !.pc = "rmdir"] \in Expired
      BY <2>0 DEF Expired
    <2>2. HandlersTyped' /\ DirsTyped' /\ StoreTyped' /\ ObjectsTyped' /\ RestTyped'
      BY <1>0, <1>2, <2>1, FollowedIs, EmptiedTypes
      DEF CleanExpired, HandlersTyped, DirsTyped, StoreTyped, ObjectsTyped, RestTyped
    <2>3. \A g \in Handlers :
              LET r == handlers'[g]
              IN  IF handlers[g].pc = "copy" /\ Sid(g) = timer.sid /\ handlers[g].out = "dir"
                  THEN /\ r \in Finalizing /\ r.pc = "copy" /\ r.out = "nowhere"
                       /\ r.sid = timer.sid /\ r.obj = handlers[g].obj
                       /\ r.pos = handlers[g].pos /\ r.end = handlers[g].end
                  ELSE r = handlers[g]
      BY <1>0, <1>2, FollowedIs DEF CleanExpired
    <2>4. ObjectsFit'
      <3>1. \A g \in Handlers : /\ handlers'[g].pc = handlers[g].pc
                                /\ handlers[g].pc \in StorePcs \cup FinalizePcs =>
                                       /\ handlers'[g].sid = handlers[g].sid
                                       /\ handlers'[g].obj = handlers[g].obj
        BY <2>3 DEF Sid
      <3> QED  BY <1>2, <3>1 DEF CleanExpired, TypeInv, ObjectsFit, Current, Sid
    <2>5. CopiesFit'
      <3>1. \A y \in Sids : y # timer.sid => dirs'[y] = dirs[y]
        BY <1>0, <1>2, EmptiedIs DEF CleanExpired
      <3>2. ASSUME NEW g \in Handlers, handlers'[g].pc \in FinalizePcs
            PROVE  /\ handlers'[g].pos \in Chunks
                   /\ handlers'[g].out # "nowhere" => handlers'[g].pc = "copy"
                   /\ handlers'[g].out = "dir" =>
                          dirs'[handlers'[g].sid] # None /\ dirs'[handlers'[g].sid].assembled # None
                   /\ handlers'[g].out = "store" => store'[ShaOf[handlers'[g].sid]] # None
        <4>1. CASE handlers[g].pc = "copy" /\ Sid(g) = timer.sid /\ handlers[g].out = "dir"
          BY <2>3, <4>1 DEF TypeInv, CopiesFit, FinalizePcs
        <4>2. CASE ~(handlers[g].pc = "copy" /\ Sid(g) = timer.sid /\ handlers[g].out = "dir")
          <5>1. handlers'[g] = handlers[g] /\ handlers[g].pc \in FinalizePcs /\ Sid(g) \in Sids
            BY <1>0, <2>3, <3>2, <4>2, Shapes DEF FinalizePcs
          <5>2. /\ handlers[g].pos \in Chunks
                /\ handlers[g].out # "nowhere" => handlers[g].pc = "copy"
                /\ handlers[g].out = "dir" => dirs[Sid(g)] # None /\ dirs[Sid(g)].assembled # None
                /\ handlers[g].out = "store" => store[ShaOf[Sid(g)]] # None
            BY <5>1 DEF TypeInv, CopiesFit
          <5>3. store' = store
            BY <1>2 DEF CleanExpired
          <5> QED  BY <3>1, <4>2, <5>1, <5>2, <5>3 DEF Sid
        <4> QED  BY <4>1, <4>2
      <3> QED  BY <3>2 DEF CopiesFit, Sid
    <2> QED
      BY <2>2, <2>4, <2>5
      DEF TypeInv, TypeOK, HandlersTyped, DirsTyped, StoreTyped, ObjectsTyped, RestTyped, HandlerStates
  <1>3. CASE RemoveExpired
    <2>0. timer \in Expired /\ timer.sid \in Sids
      BY <1>0, <1>3 DEF RemoveExpired, RestTyped, Expired
    <2>1. HandlersTyped' /\ DirsTyped' /\ StoreTyped' /\ ObjectsTyped' /\ RestTyped'
      BY <1>0, <1>3, <2>0
      DEF RemoveExpired, HandlersTyped, DirsTyped, StoreTyped, ObjectsTyped, RestTyped
    <2>2. ObjectsFit'
      BY <1>3 DEF TypeInv, ObjectsFit, RemoveExpired, Current, Sid
    <2>3. \A y \in Sids : dirs'[y] = dirs[y] \/ dirs[y] \in {None, EmptyDir}
      BY <1>0, <1>3, <2>0 DEF RemoveExpired, Removable, DirsTyped
    <2>4. CopiesFit'
      <3>1. \A g \in Handlers : handlers[g].pc \in FinalizePcs => Sid(g) \in Sids
        BY <1>0, Shapes DEF FinalizePcs
      <3> QED
        BY <1>3, <2>3, <3>1 DEF TypeInv, CopiesFit, RemoveExpired, EmptyDir, Sid
    <2> QED
      BY <2>1, <2>2, <2>4
      DEF TypeInv, TypeOK, HandlersTyped, DirsTyped, StoreTyped, ObjectsTyped, RestTyped, HandlerStates
  <1>4. CASE TimerDies
    <2>1. timer \in Expired
      BY <1>0, <1>4 DEF TimerDies, RestTyped
    <2>2. [timer EXCEPT !.pc = "dead"] \in Expired
      BY <2>1 DEF Expired
    <2>3. TypeOK'
      BY <1>0, <1>4, <2>2 DEF TimerDies, TypeOK, diskVars
    <2>4. ObjectsFit' /\ CopiesFit'
      BY <1>4 DEF TypeInv, ObjectsFit, CopiesFit, TimerDies, diskVars, Current, Sid
    <2> QED  BY <2>3, <2>4 DEF TypeInv
  <1> QED  BY <1>1, <1>2, <1>3, <1>4 DEF TimerStep

LEMMA RestartKeepsType ==
    ASSUME TypeInv, Restart
    PROVE  TypeInv'
  <1>0. DirsTyped /\ StoreTyped /\ RestTyped
    BY TypeParts DEF TypeInv
  <1>1. HandlersTyped'
    BY DEF Restart, HandlersTyped, HandlerStates
  <1>2. DirsTyped' /\ StoreTyped'
    BY <1>0 DEF Restart, DirsTyped, StoreTyped
  <1>3. 1 \in Objects
    BY MaxObjectsAssumption DEF Objects
  <1>4. \A x \in Sids : [status |-> "PAUSED", got |-> OnDisk(x), left |-> FALSE] \in Object
    BY DEF Object, Statuses, OnDisk
  <1>5. ObjectsTyped'
    BY <1>4 DEF Restart, ObjectsTyped
  <1>6. RestTyped'
    BY <1>0, <1>3 DEF Restart, RestTyped
  <1>7. ObjectsFit'
    <2>1. \A h \in Handlers : handlers'[h].pc = "ready"
      BY DEF Restart, Ready
    <2>2. ASSUME NEW x \in Sids, table'[x] # None PROVE objects'[x][table'[x]] # None
      <3>1. x \in Recoverable /\ table'[x] = 1
        BY <2>2 DEF Restart
      <3>2. objects'[x][1] = [status |-> "PAUSED", got |-> OnDisk(x), left |-> FALSE]
        BY <1>3, <3>1 DEF Restart
      <3> QED  BY <1>4, <3>1, <3>2, NoneIsNone
    <2> QED  BY <2>1, <2>2 DEF ObjectsFit, Current, StorePcs, FinalizePcs
  <1>8. CopiesFit'
    BY DEF Restart, Ready, CopiesFit, FinalizePcs
  <1> QED
    BY <1>1, <1>2, <1>5, <1>6, <1>7, <1>8
    DEF TypeInv, TypeOK, HandlersTyped, DirsTyped, StoreTyped, ObjectsTyped, RestTyped, HandlerStates

LEMMA TypeStep ==
    ASSUME TypeInv, [Next]_vars
    PROVE  TypeInv'
  <1>1. ASSUME NEW h \in Handlers, HandlerStep(h) PROVE TypeInv'
    <2>1. HandlersTyped' /\ DirsTyped' /\ StoreTyped' /\ ObjectsTyped' /\ RestTyped'
      BY <1>1, HandlersMove, DirsKeepType, ObjectsKeepType, RestKeepsType DEF TypeInv
    <2>2. TypeOK'
      BY <2>1
      DEF TypeOK, HandlersTyped, DirsTyped, StoreTyped, ObjectsTyped, RestTyped, HandlerStates
    <2> QED  BY <1>1, <2>2, ObjectsStayFit, CopiesStayFit DEF TypeInv
  <1>2. CASE TimerStep
    BY <1>2, TimerKeepsType
  <1>3. CASE Restart
    BY <1>3, RestartKeepsType
  <1>4. ASSUME NEW m \in reports, ReportGone(m) PROVE TypeInv'
    <2>1. UNCHANGED <<table, objects, dirs, store, handlers>> /\ TypeOK'
      BY <1>4 DEF ReportGone, diskVars, memVars, TypeInv, TypeOK
    <2> QED  BY <2>1 DEF TypeInv, ObjectsFit, CopiesFit, Current, Sid
  <1>5. CASE UNCHANGED vars
    <2>1. UNCHANGED <<table, objects, dirs, store, handlers>> /\ TypeOK'
      BY <1>5 DEF vars, diskVars, memVars, TypeInv, TypeOK
    <2> QED  BY <2>1 DEF TypeInv, ObjectsFit, CopiesFit, Current, Sid
  <1> QED  BY <1>1, <1>2, <1>3, <1>4, <1>5 DEF Next

LEMMA TypeInit == Init => TypeInv
  BY DEF Init, TypeInv, TypeOK, ObjectsFit, CopiesFit, Ready, StorePcs, FinalizePcs

\* Every variable of a storage node has its type, in every reachable state: no
\* step reads an object, a directory or a file that is not there.
THEOREM TypeCorrect == Spec => []TypeOK
  <1>1. TypeInv => TypeOK
    BY DEF TypeInv
  <1> QED  BY <1>1, TypeInit, TypeStep, PTL DEF Spec

----
(***************************************************************************)
(* Where each step leads a handler.                                        *)
(***************************************************************************)
Ended(h) == handlers'[h] = Ready /\ handlers'[h].pc = "ready"

\* h goes on with the same object, and ends as it was to end.
GoesOn(h) ==
    /\ handlers'[h].sid = handlers[h].sid /\ handlers'[h].obj = handlers[h].obj
    /\ handlers'[h].end = handlers[h].end

FailsWith(h, end) ==
    /\ handlers'[h].sid = handlers[h].sid /\ handlers'[h].obj = handlers[h].obj
    /\ handlers'[h].pc = "clean" /\ handlers'[h].end = end

LEMMA OpeningLeads ==
    ASSUME TypeOK, NEW h \in Handlers
    PROVE  /\ AnswerDuplicate(h) => handlers[h].pc = "known" /\ Ended(h)
           /\ LookUp(h) =>
                  /\ handlers[h].pc = "lookup"
                  /\ Ended(h) \/ (handlers'[h].pc = "create" /\ handlers'[h].sid = Sid(h))
           /\ CreateDir(h) =>
                  handlers[h].pc = "create" /\ handlers'[h].pc = "meta" /\ handlers'[h].sid = Sid(h)
           /\ SaveMeta(h) =>
                  \/ handlers[h].pc \in {"meta", "progress"} /\ Ended(h)
                  \/ /\ handlers[h].pc = "meta" /\ handlers'[h].pc = "put"
                     /\ handlers'[h].sid = Sid(h)
           /\ PutSession(h) => handlers[h].pc = "put" /\ Ended(h)
  <1>1. Done(h) => Ended(h)
    BY DoneIs DEF Ended
  <1>2. handlers[h].pc \in {"lookup", "create", "meta"} => handlers[h] \in Opening
    BY Shapes
  <1>3. ASSUME NEW pc \in {"create", "meta", "put"}, handlers[h] \in Opening, Goto(h, pc)
        PROVE  handlers'[h].pc = pc /\ handlers'[h].sid = Sid(h)
    BY <1>3, GoesTo DEF Sid
  <1>4. AnswerDuplicate(h) => handlers[h].pc = "known" /\ Ended(h)
    BY <1>1 DEF AnswerDuplicate, At
  <1>5. LookUp(h) =>
            /\ handlers[h].pc = "lookup"
            /\ Ended(h) \/ (handlers'[h].pc = "create" /\ handlers'[h].sid = Sid(h))
    BY <1>1, <1>2, <1>3 DEF LookUp, At
  <1>6. CreateDir(h) =>
            handlers[h].pc = "create" /\ handlers'[h].pc = "meta" /\ handlers'[h].sid = Sid(h)
    BY <1>1, <1>2, <1>3 DEF CreateDir, At
  <1>7. SaveMeta(h) =>
            \/ handlers[h].pc \in {"meta", "progress"} /\ Ended(h)
            \/ handlers[h].pc = "meta" /\ handlers'[h].pc = "put" /\ handlers'[h].sid = Sid(h)
    BY <1>1, <1>2, <1>3 DEF SaveMeta, At
  <1>8. PutSession(h) => handlers[h].pc = "put" /\ Ended(h)
    BY <1>1 DEF PutSession, At
  <1> QED  BY <1>4, <1>5, <1>6, <1>7, <1>8

LEMMA StoringLeads ==
    ASSUME TypeOK, NEW h \in Handlers
    PROVE  /\ WriteChunk(h) =>
                  /\ handlers[h].pc = "write" /\ handlers[h] \in Storing
                  /\ \/ Ended(h) /\ UNCHANGED dirs
                     \/ /\ handlers'[h].pc = "mark" /\ handlers'[h].sid = Sid(h)
                        /\ handlers'[h].obj = handlers[h].obj
                        /\ handlers'[h].chunk = handlers[h].chunk
                        /\ dirs[Sid(h)] # None
           /\ MarkChunk(h) =>
                  /\ handlers[h].pc = "mark" /\ handlers[h] \in Storing
                  /\ Ended(h) \/ /\ handlers'[h].pc = "progress" /\ handlers'[h].sid = Sid(h)
                                 /\ handlers'[h].obj = handlers[h].obj
  <1>1. Done(h) => Ended(h)
    BY DoneIs DEF Ended
  <1>2. handlers[h].pc \in StorePcs => handlers[h] \in Storing
    BY Shapes
  <1>3. ASSUME NEW pc \in StorePcs, handlers[h] \in Storing, Goto(h, pc)
        PROVE  /\ handlers'[h].pc = pc /\ handlers'[h].sid = Sid(h)
               /\ handlers'[h].obj = handlers[h].obj /\ handlers'[h].chunk = handlers[h].chunk
    BY <1>3, GoesTo DEF Sid
  <1>4. WriteChunk(h) =>
            /\ handlers[h].pc = "write" /\ handlers[h] \in Storing
            /\ \/ Ended(h) /\ UNCHANGED dirs
               \/ /\ handlers'[h].pc = "mark" /\ handlers'[h].sid = Sid(h)
                  /\ handlers'[h].obj = handlers[h].obj
                  /\ handlers'[h].chunk = handlers[h].chunk
                  /\ dirs[Sid(h)] # None
    BY <1>1, <1>2, <1>3 DEF WriteChunk, At, StorePcs
  <1>5. MarkChunk(h) =>
            /\ handlers[h].pc = "mark" /\ handlers[h] \in Storing
            /\ Ended(h) \/ /\ handlers'[h].pc = "progress" /\ handlers'[h].sid = Sid(h)
                           /\ handlers'[h].obj = handlers[h].obj
    <2>1. MarkChunk(h) => handlers[h].pc = "mark" /\ (Done(h) \/ Goto(h, "progress"))
      BY DEF MarkChunk, At
    <2> QED  BY <1>1, <1>2, <1>3, <2>1 DEF StorePcs
  <1> QED  BY <1>4, <1>5

LEMMA FinalizingLeads ==
    ASSUME TypeOK, NEW h \in Handlers
    PROVE  /\ OpenAssembled(h) => handlers[h].pc = "assemble" /\ handlers'[h].pc = "copy" /\ GoesOn(h)
           /\ CopyChunk(h) =>
                  handlers[h].pc = "copy" /\ handlers'[h].pc \in {"copy", "verify"} /\ GoesOn(h)
           /\ Verify(h) =>
                  /\ handlers[h].pc = "verify"
                  /\ (handlers'[h].pc = "scan" /\ GoesOn(h)) \/ FailsWith(h, "mismatch")
           /\ FinalizeThrows(h) =>
                  /\ handlers[h].pc \in {"verify", "scan", "clean", "rmdir", "register"} /\ Ended(h)
           /\ ScanAccepts(h) => handlers[h].pc = "scan" /\ handlers'[h].pc = "commit" /\ GoesOn(h)
           /\ ScanRejects(h) => handlers[h].pc = "scan" /\ FailsWith(h, "rejected")
           /\ Commit(h) => handlers[h].pc = "commit" /\ handlers'[h].pc = "clean" /\ GoesOn(h)
           /\ IoError(h) => handlers[h].pc \in FinalizePcs /\ FailsWith(h, "io")
  <1>1. Done(h) => Ended(h)
    BY DoneIs DEF Ended
  <1>2. handlers[h].pc \in FinalizePcs => handlers[h] \in Finalizing /\ Sid(h) \in Sids
    BY Shapes DEF FinalizePcs
  <1>3. ASSUME NEW pc \in FinalizePcs, handlers[h] \in Finalizing, Goto(h, pc)
        PROVE  handlers'[h].pc = pc /\ GoesOn(h)
    BY <1>3, GoesTo DEF GoesOn
  <1>4. ASSUME NEW end \in {"mismatch", "rejected", "io", "gone"}, handlers[h].pc \in FinalizePcs,
               \/ handlers' = Failed(handlers, h, end)
               \/ \E x \in Sids : handlers' = Failed(Followed(x, "nowhere"), h, end)
        PROVE  FailsWith(h, end)
    BY <1>4, FailsTo DEF FailsWith
  <1>5. OpenAssembled(h) => handlers[h].pc = "assemble" /\ handlers'[h].pc = "copy" /\ GoesOn(h)
    BY OpenAssembledMoves DEF OpenAssembled, At, GoesOn
  <1>6. CopyChunk(h) =>
            handlers[h].pc = "copy" /\ handlers'[h].pc \in {"copy", "verify"} /\ GoesOn(h)
    BY CopyChunkMoves DEF CopyChunk, At, GoesOn
  <1>7. Verify(h) =>
            /\ handlers[h].pc = "verify"
            /\ (handlers'[h].pc = "scan" /\ GoesOn(h)) \/ FailsWith(h, "mismatch")
    <2>1. Verify(h) =>
              /\ handlers[h].pc = "verify"
              /\ Goto(h, "scan") \/ handlers' = Failed(Followed(Sid(h), "nowhere"), h, "mismatch")
      BY DEF Verify, At
    <2> QED  BY <1>2, <1>3, <1>4, <2>1 DEF FinalizePcs
  <1>8. FinalizeThrows(h) =>
            handlers[h].pc \in {"verify", "scan", "clean", "rmdir", "register"} /\ Ended(h)
    BY ThrowsAre DEF Ended
  <1>9. ScanAccepts(h) => handlers[h].pc = "scan" /\ handlers'[h].pc = "commit" /\ GoesOn(h)
    BY <1>2, <1>3 DEF ScanAccepts, At, FinalizePcs
  <1>10. ScanRejects(h) => handlers[h].pc = "scan" /\ FailsWith(h, "rejected")
    <2>1. ScanRejects(h) =>
              /\ handlers[h].pc = "scan"
              /\ \/ handlers' = Failed(handlers, h, "rejected")
                 \/ handlers' = Failed(Followed(Sid(h), "nowhere"), h, "rejected")
      BY DEF ScanRejects, At
    <2> QED  BY <1>2, <1>4, <2>1 DEF FinalizePcs
  <1>11. Commit(h) => handlers[h].pc = "commit" /\ handlers'[h].pc = "clean" /\ GoesOn(h)
    BY CommitMoves DEF Commit, At, GoesOn
  <1>12. IoError(h) => handlers[h].pc \in FinalizePcs /\ FailsWith(h, "io")
    <2>1. IoError(h) => handlers[h].pc \in FinalizePcs /\ handlers' = Failed(handlers, h, "io")
      BY DEF IoError, FinalizePcs
    <2> QED  BY <1>4, <2>1
  <1> QED  BY <1>5, <1>6, <1>7, <1>8, <1>9, <1>10, <1>11, <1>12

LEMMA EndingLeads ==
    ASSUME TypeOK, NEW h \in Handlers
    PROVE  /\ CleanSessionDir(h) => handlers[h].pc = "clean" /\ handlers'[h].pc = "rmdir" /\ GoesOn(h)
           /\ RemoveSessionDir(h) =>
                  /\ handlers[h].pc = "rmdir" /\ GoesOn(h)
                  /\ handlers'[h].pc = (IF handlers[h].end = "ok" THEN "register" ELSE "forget")
           /\ Register(h) => handlers[h].pc = "register" /\ handlers'[h].pc = "forget" /\ GoesOn(h)
           /\ Forget(h) =>
                  /\ handlers[h].pc = "forget" /\ table' = [table EXCEPT ![Sid(h)] = None]
                  /\ Ended(h) \/ (handlers'[h].pc = "answer" /\ GoesOn(h))
           /\ Answer(h) => handlers[h].pc = "answer" /\ Ended(h)
           /\ AnswerFails(h) => handlers[h].pc = "answer" /\ (Ended(h) \/ FailsWith(h, "gone"))
  <1>1. Done(h) => Ended(h)
    BY DoneIs DEF Ended
  <1>2. handlers[h].pc \in FinalizePcs => handlers[h] \in Finalizing
    BY Shapes
  <1>3. ASSUME NEW pc \in FinalizePcs, handlers[h] \in Finalizing, Goto(h, pc)
        PROVE  handlers'[h].pc = pc /\ GoesOn(h)
    BY <1>3, GoesTo DEF GoesOn
  <1>4. CleanSessionDir(h) => handlers[h].pc = "clean" /\ handlers'[h].pc = "rmdir" /\ GoesOn(h)
    BY CleanMoves DEF CleanSessionDir, At, GoesOn
  <1>5. RemoveSessionDir(h) =>
            /\ handlers[h].pc = "rmdir" /\ GoesOn(h)
            /\ handlers'[h].pc = (IF handlers[h].end = "ok" THEN "register" ELSE "forget")
    <2>1. RemoveSessionDir(h) =>
              /\ handlers[h].pc = "rmdir"
              /\ Goto(h, IF handlers[h].end = "ok" THEN "register" ELSE "forget")
      BY DEF RemoveSessionDir, At
    <2> QED  BY <1>2, <1>3, <2>1 DEF FinalizePcs
  <1>6. Register(h) => handlers[h].pc = "register" /\ handlers'[h].pc = "forget" /\ GoesOn(h)
    BY <1>2, <1>3 DEF Register, At, FinalizePcs
  <1>7. Forget(h) =>
            /\ handlers[h].pc = "forget" /\ table' = [table EXCEPT ![Sid(h)] = None]
            /\ Ended(h) \/ (handlers'[h].pc = "answer" /\ GoesOn(h))
    <2>1. Forget(h) =>
              /\ handlers[h].pc = "forget" /\ table' = [table EXCEPT ![Sid(h)] = None]
              /\ Done(h) \/ Goto(h, "answer")
      BY DEF Forget, At
    <2> QED  BY <1>1, <1>2, <1>3, <2>1 DEF FinalizePcs
  <1>8. Answer(h) => handlers[h].pc = "answer" /\ Ended(h)
    BY <1>1 DEF Answer, At
  <1>9. AnswerFails(h) => handlers[h].pc = "answer" /\ (Ended(h) \/ FailsWith(h, "gone"))
    <2>1. AnswerFails(h) => /\ handlers[h].pc = "answer"
                            /\ Done(h) \/ handlers' = Failed(handlers, h, "gone")
      BY DEF AnswerFails, At
    <2> QED  BY <1>1, <2>1, FailsTo DEF FinalizePcs, FailsWith
  <1> QED  BY <1>4, <1>5, <1>6, <1>7, <1>8, <1>9

----
(***************************************************************************)
(* Theorem: a node keeps the promise of module ContentNode.                *)
(***************************************************************************)

\* Sessions in the table and directories on the disk have a ticket.
LEMMA TicketsStay ==
    ASSUME TypeInv, PromiseInv, NEW h \in Handlers, HandlerStep(h)
    PROVE  /\ granted \subseteq granted'
           /\ \A x \in Sids : table'[x] # None \/ dirs'[x] # None => x \in granted'
  <1>0. /\ TypeOK /\ DirsTyped /\ RestTyped
        /\ \A x \in Sids : table[x] # None \/ dirs[x] # None => x \in granted
        /\ handlers[h].pc # "ready" => Sid(h) \in granted /\ Sid(h) \in Sids
    BY TypeParts, Shapes, SMTT(40) DEF TypeInv, PromiseInv
  <1>1. granted \subseteq granted'
    BY <1>0, ThrowsAre
    DEF HandlerStep, OpenUpload, AnswerDuplicate, LookUp, CreateDir, SaveMeta, PutSession,
        UploadChunk, WriteChunk, MarkChunk, FinalizeUpload, OpenAssembled, CopyChunk, Verify,
        ScanAccepts, ScanRejects, Commit, IoError, CleanSessionDir, RemoveSessionDir,
        Register, Forget, Answer, AnswerFails
  <1>2. ASSUME NEW x \in Sids, table'[x] # None PROVE table[x] # None \/ x \in granted
    <2>1. CASE PutSession(h)
      <3>1. PICK i \in Objects : table' = [table EXCEPT ![Sid(h)] = i]
        BY <2>1 DEF PutSession
      <3>2. x # Sid(h) => table'[x] = table[x]
        BY <1>0, <3>1 DEF RestTyped
      <3>3. Sid(h) \in granted
        BY <1>0, <2>1 DEF PutSession, At
      <3> QED  BY <1>2, <3>2, <3>3
    <2>2. CASE Forget(h)
      BY <1>0, <1>2, <2>2 DEF Forget, RestTyped
    <2>3. CASE UNCHANGED table
      BY <1>2, <2>3
    <2> QED
      BY <1>0, <2>1, <2>2, <2>3, ThrowsAre
      DEF HandlerStep, OpenUpload, AnswerDuplicate, LookUp, CreateDir, SaveMeta, UploadChunk,
          WriteChunk, MarkChunk, FinalizeUpload, OpenAssembled, CopyChunk, Verify,
          ScanAccepts, ScanRejects, Commit, IoError, CleanSessionDir, RemoveSessionDir, Register,
          Answer, AnswerFails, memVars
  <1>3. ASSUME NEW x \in Sids, dirs'[x] # None PROVE dirs[x] # None \/ x \in granted
    <2>1. CASE CreateDir(h) \/ SaveMeta(h) \/ WriteChunk(h) \/ OpenAssembled(h) \/ CopyChunk(h)
               \/ Verify(h) \/ ScanRejects(h) \/ Commit(h) \/ RemoveSessionDir(h)
      <3>1. Sid(h) \in granted
        BY <1>0, <2>1
        DEF CreateDir, SaveMeta, WriteChunk, OpenAssembled, CopyChunk, Verify, ScanRejects, Commit,
            RemoveSessionDir, At
      <3>2. \A y \in Sids : y # Sid(h) => dirs'[y] = dirs[y]
        BY <1>0, <2>1
        DEF CreateDir, SaveMeta, WriteChunk, OpenAssembled, CopyChunk, Verify, ScanRejects, Commit,
            RemoveSessionDir, DirsTyped
      <3> QED  BY <1>3, <3>1, <3>2
    <2>2. CASE CleanSessionDir(h)
      BY <1>0, <1>3, <2>2, EmptiedIs DEF CleanSessionDir
    <2>3. CASE UNCHANGED dirs
      BY <1>3, <2>3
    <2>4. CASE FinalizeThrows(h)
      BY <1>0, <1>3, <2>4, ThrowsAre DEF DirsTyped
    <2> QED
      BY <2>1, <2>2, <2>3, <2>4
      DEF HandlerStep, OpenUpload, AnswerDuplicate, LookUp, PutSession, UploadChunk, MarkChunk,
          FinalizeUpload, ScanAccepts, IoError, Register, Forget, Answer, AnswerFails,
          diskVars
  <1> QED  BY <1>0, <1>1, <1>2, <1>3

\* What h is at, and what it may rely on, after its step.
LEMMA HandlerRelies ==
    ASSUME TypeInv, PromiseInv, NEW h \in Handlers, HandlerStep(h)
    PROVE  /\ handlers'[h].pc # "ready" => handlers'[h].sid \in granted'
           /\ \/ handlers'[h].pc = "known"
              \/ handlers'[h].pc \in {"clean", "rmdir", "forget"} /\ handlers'[h].end = "ok"
              \/ handlers'[h].pc = "register"
              => store'[ShaOf[handlers'[h].sid]] # None
  <1> DEFINE Relies == \/ handlers'[h].pc = "known"
                       \/ handlers'[h].pc \in {"clean", "rmdir", "forget"} /\ handlers'[h].end = "ok"
                       \/ handlers'[h].pc = "register"
  <1>0. /\ TypeOK /\ granted \subseteq granted' /\ StoreGrows
        /\ handlers[h].pc # "ready" =>
               Sid(h) \in granted /\ Sid(h) \in Sids /\ ShaOf[Sid(h)] \in Shas
        /\ \A x \in Sids : table[x] # None => x \in granted
        /\ \/ handlers[h].pc = "known"
           \/ handlers[h].pc \in {"clean", "rmdir", "forget"} /\ handlers[h].end = "ok"
           \/ handlers[h].pc = "register"
           => store[ShaOf[Sid(h)]] # None
    BY TicketsStay, StoreOnlyGrows, Shapes, ShaOfAssumption DEF TypeInv, PromiseInv
  <1>1. CASE Ended(h)
    BY <1>1 DEF Ended
  <1>2. ASSUME NEW x \in Sids, OpenUpload(h, x)
        PROVE  handlers'[h].sid \in granted' /\ (Relies => store'[ShaOf[handlers'[h].sid]] # None)
    <2>1. handlers'[h].sid = x /\ x \in granted'
      BY <1>0, <1>2, OpenUploadMoves DEF OpenUpload
    <2>2. Relies => ShaOf[x] \in index.known
      BY <1>0, <1>2, OpenUploadMoves
    <2>3. ShaOf[x] \in index.known => store'[ShaOf[x]] # None
      BY <1>0, ShaOfAssumption DEF PromiseInv, StoreGrows
    <2> QED  BY <2>1, <2>2, <2>3
  <1>3. CASE \E x \in Sids : FinalizeUpload(h, x)
    BY <1>0, <1>3, FinalizeUploadMoves, ZenonT(40) DEF FinalizeUpload
  <1>4. ASSUME NEW x \in Sids, NEW k \in Chunks, NEW piece \in Pieces, UploadChunk(h, x, k, piece)
        PROVE  handlers'[h].sid \in granted' /\ ~Relies
    <2>1. handlers'[h].sid = x /\ handlers'[h].pc = "write"
      BY <1>0, <1>4, UploadChunkMoves
    <2>2. x \in granted'
      BY <1>0, <1>4 DEF UploadChunk
    <2> QED  BY <2>1, <2>2
  <1>5. CASE AnswerDuplicate(h) \/ LookUp(h) \/ CreateDir(h) \/ SaveMeta(h) \/ PutSession(h)
    BY <1>0, <1>1, <1>5, OpeningLeads
  <1>6. CASE WriteChunk(h) \/ MarkChunk(h)
    BY <1>0, <1>1, <1>6, StoringLeads
  <1>7. CASE OpenAssembled(h) \/ CopyChunk(h) \/ Verify(h) \/ FinalizeThrows(h)
    BY <1>0, <1>1, <1>7, FinalizingLeads DEF GoesOn, FailsWith, Sid
  <1>8. CASE ScanAccepts(h) \/ ScanRejects(h) \/ IoError(h)
    BY <1>0, <1>1, <1>8, FinalizingLeads DEF GoesOn, FailsWith, Sid, FinalizePcs
  <1>9. CASE Commit(h)
    <2>1. store'[ShaOf[Sid(h)]] # None
      BY <1>9, Commits
    <2> QED  BY <1>0, <1>9, <2>1, FinalizingLeads DEF GoesOn, Sid
  <1>10. CASE CleanSessionDir(h) \/ RemoveSessionDir(h) \/ Register(h)
    BY <1>0, <1>10, EndingLeads DEF GoesOn, Sid, StoreGrows
  <1>11. CASE Forget(h) \/ Answer(h) \/ AnswerFails(h)
    BY <1>0, <1>1, <1>11, EndingLeads DEF GoesOn, FailsWith, Sid
  <1> QED
    BY <1>2, <1>3, <1>4, <1>5, <1>6, <1>7, <1>8, <1>9, <1>10, <1>11 DEF HandlerStep

LEMMA PromiseStep ==
    ASSUME TypeInv, PromiseInv, [Next]_vars
    PROVE  PromiseInv'
  <1>0. TypeOK /\ DirsTyped /\ RestTyped
    BY TypeParts DEF TypeInv
  <1>1. ASSUME NEW h \in Handlers, HandlerStep(h) PROVE PromiseInv'
    <2>1. OthersStay(h) /\ StoreGrows /\ granted \subseteq granted'
      BY <1>0, <1>1, HandlersMove, StoreOnlyGrows, TicketsStay
    <2>2. \A x \in Sids : table'[x] # None \/ dirs'[x] # None => x \in granted'
      BY <1>1, TicketsStay
    <2>3. ASSUME NEW s \in index'.known \cup index'.saved PROVE store'[s] # None
      <3>1. CASE s \in index.known \cup index.saved
        BY <1>0, <2>1, <3>1 DEF PromiseInv, StoreGrows, RestTyped
      <3>2. CASE s \notin index.known \cup index.saved
        <4>1. /\ handlers[h].pc = "register"
              /\ index'.known \cup index'.saved \subseteq index.known \cup index.saved \cup {ShaOf[Sid(h)]}
          <5>1. CASE Register(h)
            BY <1>0, <5>1 DEF Register, At, RestTyped, Known
          <5>2. CASE FinalizeThrows(h) /\ index' # index
            BY <1>0, <5>2, ThrowsAre DEF RestTyped, Known
          <5>3. index' # index
            BY <2>3, <3>2
          <5> QED
            BY <1>1, <5>1, <5>2, <5>3
            DEF HandlerStep, OpenUpload, AnswerDuplicate, LookUp, CreateDir, SaveMeta, PutSession,
                UploadChunk, WriteChunk, MarkChunk, FinalizeUpload, OpenAssembled, CopyChunk, Verify,
                ScanAccepts, ScanRejects, Commit, IoError, CleanSessionDir,
                RemoveSessionDir, Forget, Answer, AnswerFails, diskVars
        <4>2. s = ShaOf[Sid(h)] /\ store[s] # None /\ s \in Shas
          BY <1>0, <2>3, <3>2, <4>1, Shapes, ShaOfAssumption DEF PromiseInv
        <4> QED  BY <2>1, <4>2, SMTT(40) DEF StoreGrows
      <3> QED  BY <3>1, <3>2
    <2>4. ASSUME NEW g \in Handlers
          PROVE  /\ handlers'[g].pc # "ready" => handlers'[g].sid \in granted'
                 /\ \/ handlers'[g].pc = "known"
                    \/ handlers'[g].pc \in {"clean", "rmdir", "forget"} /\ handlers'[g].end = "ok"
                    \/ handlers'[g].pc = "register"
                    => store'[ShaOf[handlers'[g].sid]] # None
      <3>1. CASE g = h
        BY <1>1, <3>1, HandlerRelies
      <3>2. CASE g # h
        <4>1. /\ handlers[g].pc # "ready" => Sid(g) \in granted /\ ShaOf[Sid(g)] \in Shas
              /\ \/ handlers[g].pc = "known"
                 \/ handlers[g].pc \in {"clean", "rmdir", "forget"} /\ handlers[g].end = "ok"
                 \/ handlers[g].pc = "register"
                 => store[ShaOf[Sid(g)]] # None
          BY <1>0, Shapes, ShaOfAssumption DEF PromiseInv
        <4>2. /\ handlers'[g].pc = handlers[g].pc
              /\ handlers[g].pc # "copy" => handlers'[g] = handlers[g]
              /\ handlers[g].pc # "ready" => handlers'[g].sid = handlers[g].sid
          BY <2>1, <3>2 DEF OthersStay
        <4> QED  BY <2>1, <4>1, <4>2 DEF StoreGrows, Sid
      <3> QED  BY <3>1, <3>2
    <2> QED  BY <2>2, <2>3, <2>4 DEF PromiseInv, Sid
  <1>2. ASSUME NEW x \in Sids, ExpireSession(x) PROVE PromiseInv'
    <2>1. table' = [table EXCEPT ![x] = None] /\ UNCHANGED <<dirs, store, index, handlers, granted>>
      BY <1>2 DEF ExpireSession, diskVars
    <2>2. \A y \in Sids : table'[y] # None => table[y] # None
      BY <1>0, <2>1 DEF RestTyped
    <2> QED  BY <2>1, <2>2 DEF PromiseInv, Sid
  <1>3. CASE CleanExpired
    <2>1. \A y \in Sids : dirs'[y] # None => dirs[y] # None
      BY <1>0, <1>3, EmptiedIs DEF CleanExpired
    <2>2. \A g \in Handlers : /\ handlers'[g].pc = handlers[g].pc
                              /\ handlers[g].pc # "copy" => handlers'[g] = handlers[g]
                              /\ handlers[g].pc = "copy" => handlers'[g].sid = handlers[g].sid
      BY <1>0, <1>3, FollowedIs DEF CleanExpired, Sid
    <2> QED  BY <1>3, <2>1, <2>2 DEF CleanExpired, PromiseInv, Sid
  <1>4. CASE RemoveExpired
    <2>1. \A y \in Sids : dirs'[y] # None => dirs[y] # None
      BY <1>0, <1>4 DEF RemoveExpired, DirsTyped
    <2> QED  BY <1>4, <2>1 DEF RemoveExpired, PromiseInv, Sid
  <1>5. CASE Restart
    <2>1. \A x \in Sids : table'[x] # None => dirs[x] # None
      BY <1>5 DEF Restart, Recoverable
    <2> QED  BY <1>5, <2>1 DEF Restart, PromiseInv, Ready
  <1>6. CASE UNCHANGED <<table, dirs, store, index, handlers, granted>>
    BY <1>6 DEF PromiseInv, Sid
  <1> QED
    BY <1>1, <1>2, <1>3, <1>4, <1>5, <1>6
    DEF Next, TimerStep, TimerDies, ReportGone, vars, diskVars, memVars

Stored == {s \in Shas : store[s] # None}

\* A step that neither grants, stores nor reports is none of the promise.
LEMMA PromiseStutters ==
    ASSUME UNCHANGED <<granted, Stored, reports>>
    PROVE  UNCHANGED Promise!nodeVars
  BY DEF Stored, Promise!nodeVars

LEMMA PromiseGrants ==
    ASSUME NEW x \in Sids, granted' = granted \cup {x}, UNCHANGED <<Stored, reports>>
    PROVE  Promise!NodeNext
  <1>1. Promise!Grant(Node, x)
    BY DEF Promise!Grant, Stored
  <1> QED  BY <1>1 DEF Promise!NodeNext

LEMMA PromiseCommits ==
    ASSUME NEW s \in Shas, s \notin Stored, Stored' = Stored \cup {s}, granted # {},
           UNCHANGED <<granted, reports>>
    PROVE  Promise!NodeNext
  <1>1. Promise!Commit(Node, s)
    BY DEF Promise!Commit, Stored
  <1> QED  BY <1>1 DEF Promise!NodeNext, Promise!NodeStep

LEMMA PromiseReportsComplete ==
    ASSUME NEW x \in Sids, x \in granted, ShaOf[x] \in Shas, store[ShaOf[x]] # None,
           reports' = reports \cup {CompleteReport(x)}, UNCHANGED <<granted, Stored>>
    PROVE  Promise!NodeNext
  <1>1. Promise!ReportComplete(Node, x, ShaOf[x])
    BY DEF Promise!ReportComplete, Promise!MayReport, Promise!Committed, Stored, CompleteReport
  <1> QED  BY <1>1 DEF Promise!NodeNext, Promise!NodeStep

LEMMA PromiseReportsFailure ==
    ASSUME NEW x \in Sids, x \in granted, reports' = reports \cup {FailedReport(x)},
           UNCHANGED <<granted, Stored>>
    PROVE  Promise!NodeNext
  <1>1. Promise!ReportFailed(Node, x)
    BY DEF Promise!ReportFailed, Stored, FailedReport
  <1> QED  BY <1>1 DEF Promise!NodeNext, Promise!NodeStep

LEMMA HandlerImplements ==
    ASSUME TypeInv, PromiseInv, NEW h \in Handlers, HandlerStep(h)
    PROVE  Promise!NodeNext \/ UNCHANGED Promise!nodeVars
  <1>0. /\ TypeOK /\ StoreGrows
        /\ handlers[h].pc # "ready" =>
               Sid(h) \in granted /\ Sid(h) \in Sids /\ ShaOf[Sid(h)] \in Shas
        /\ handlers[h].pc = "known" => store[ShaOf[Sid(h)]] # None
        /\ handlers[h].pc = "forget" /\ handlers[h].end = "ok" => store[ShaOf[Sid(h)]] # None
    BY StoreOnlyGrows, Shapes, ShaOfAssumption DEF TypeInv, PromiseInv
  <1>1. ASSUME NEW x \in Sids, OpenUpload(h, x) PROVE Promise!NodeNext
    <2>1. granted' = granted \cup {x} /\ UNCHANGED <<Stored, reports>>
      BY <1>1 DEF OpenUpload, diskVars, Stored
    <2> QED  BY <2>1, PromiseGrants
  <1>2. CASE AnswerDuplicate(h)
    <2>1. /\ handlers[h].pc = "known" /\ UNCHANGED <<granted, Stored>>
          /\ reports' = reports \/ reports' = reports \cup {CompleteReport(Sid(h))}
      BY <1>2 DEF AnswerDuplicate, At, diskVars, Stored
    <2> QED  BY <1>0, <2>1, PromiseStutters, PromiseReportsComplete
  <1>3. CASE Commit(h)
    <2>1. /\ handlers[h].pc = "commit" /\ UNCHANGED <<granted, reports>>
          /\ \/ store' = store
             \/ /\ store[ShaOf[Sid(h)]] = None
                /\ \E c : c # None /\ store' = [store EXCEPT ![ShaOf[Sid(h)]] = c]
      BY <1>3 DEF Commit, At
    <2>2. CASE store' = store
      BY <2>1, <2>2, PromiseStutters DEF Stored
    <2>3. CASE store' # store
      <3>1. PICK c : /\ store[ShaOf[Sid(h)]] = None /\ c # None
                     /\ store' = [store EXCEPT ![ShaOf[Sid(h)]] = c]
        BY <2>1, <2>3
      <3>2. ShaOf[Sid(h)] \notin Stored /\ Stored' = Stored \cup {ShaOf[Sid(h)]}
        BY <1>0, <2>1, <3>1 DEF Stored, TypeOK
      <3> QED  BY <1>0, <2>1, <3>2, PromiseCommits
    <2> QED  BY <2>2, <2>3
  <1>4. CASE CopyChunk(h)
    <2>1. handlers[h].pc = "copy" /\ UNCHANGED <<granted, reports>>
      BY <1>4 DEF CopyChunk, At
    <2>2. handlers[h].out = "store" => store[ShaOf[Sid(h)]] # None
      BY <2>1 DEF TypeInv, CopiesFit, FinalizePcs
    <2>3. \A s \in Shas : s # ShaOf[Sid(h)] => store'[s] = store[s]
      BY <1>4 DEF CopyChunk, TypeInv, TypeOK
    <2>4. handlers[h].out # "store" => store' = store
      BY <1>4 DEF CopyChunk
    <2>5. \A s \in Shas : store[s] # None <=> store'[s] # None
      BY <1>0, <2>2, <2>3, <2>4 DEF StoreGrows
    <2>6. Stored' = Stored
      BY <2>5 DEF Stored
    <2> QED  BY <2>1, <2>6, PromiseStutters
  <1>5. CASE Forget(h) \/ Answer(h)
    <2>1. /\ handlers[h].pc \in {"forget", "answer"} /\ UNCHANGED <<granted, Stored>>
          /\ \/ reports' = reports
             \/ reports' = reports \cup {FailedReport(Sid(h))}
             \/ /\ handlers[h].pc = "forget" /\ handlers[h].end = "ok"
                /\ reports' = reports \cup {CompleteReport(Sid(h))}
      BY <1>5 DEF Forget, Answer, At, diskVars, Stored
    <2> QED  BY <1>0, <2>1, PromiseStutters, PromiseReportsFailure, PromiseReportsComplete
  <1>6. CASE UNCHANGED <<granted, store, reports>>
    BY <1>6, PromiseStutters DEF Stored
  <1>7. CASE FinalizeThrows(h)
    BY <1>0, <1>6, <1>7, ThrowsAre
  <1> QED
    BY <1>1, <1>2, <1>3, <1>4, <1>5, <1>6, <1>7
    DEF HandlerStep, LookUp, CreateDir, SaveMeta, PutSession, UploadChunk, WriteChunk, MarkChunk,
        FinalizeUpload, OpenAssembled, Verify, ScanAccepts, ScanRejects, IoError,
        CleanSessionDir, RemoveSessionDir, Register, AnswerFails, diskVars

LEMMA StepImplements ==
    ASSUME TypeInv, PromiseInv, [Next]_vars
    PROVE  [Promise!NodeNext]_(Promise!nodeVars)
  <1>1. CASE \E h \in Handlers : HandlerStep(h)
    BY <1>1, HandlerImplements
  <1>2. ASSUME NEW m \in reports, ReportGone(m) PROVE Promise!NodeNext
    <2>1. Promise!DropReport(m)
      BY <1>2 DEF ReportGone, Promise!DropReport, diskVars
    <2> QED  BY <2>1 DEF Promise!NodeNext, Promise!NodeStep
  <1>3. CASE UNCHANGED <<granted, store, reports>>
    BY <1>3, PromiseStutters DEF Stored
  <1> QED
    BY <1>1, <1>2, <1>3
    DEF Next, TimerStep, ExpireSession, CleanExpired, RemoveExpired, TimerDies, Restart, vars, diskVars

LEMMA InitImplements == Init => PromiseInv /\ Promise!NodeInit
  BY DEF Init, PromiseInv, Ready, Promise!NodeInit

\* Whatever fails, expires or restarts, the steps of a storage node are steps
\* that the coordinator expects of it (ClientHandler commits before it registers
\* and reports): bytes come into the store under a verified ticket only, and a
\* completion is reported of stored content only.
THEOREM KeepsItsPromise == Spec => ImplementsContentNode
  <1>1. Init => TypeInv /\ PromiseInv /\ Promise!NodeInit
    BY TypeInit, InitImplements
  <1>2. TypeInv /\ PromiseInv /\ [Next]_vars => (TypeInv /\ PromiseInv)'
    BY TypeStep, PromiseStep
  <1>3. TypeInv /\ PromiseInv /\ [Next]_vars => [Promise!NodeNext]_(Promise!nodeVars)
    BY StepImplements
  <1> QED  BY <1>1, <1>2, <1>3, PTL DEF Spec, ImplementsContentNode, Promise!NodeSpec

----
(***************************************************************************)
(* How sessions turn.                                                      *)
(***************************************************************************)

\* An object comes into the table as it is made.
LEMMA TableTurns ==
    ASSUME TypeInv, NEW h \in Handlers, HandlerStep(h), NEW x \in Sids,
           table'[x] # None, table'[x] # table[x]
    PROVE  /\ PutSession(h) /\ handlers[h].pc = "put" /\ Sid(h) = x
           /\ table'[x] \in Objects /\ objects[x][table'[x]] = None
           /\ objects'[x][table'[x]] = [status |-> "INIT", got |-> {}, left |-> FALSE]
  <1>0. TypeOK /\ RestTyped
    BY TypeParts DEF TypeInv
  <1>1. PutSession(h) \/ Forget(h)
    BY <1>0, ThrowsAre
    DEF HandlerStep, OpenUpload, AnswerDuplicate, LookUp, CreateDir, SaveMeta, UploadChunk,
        WriteChunk, MarkChunk, FinalizeUpload, OpenAssembled, CopyChunk, Verify,
        ScanAccepts, ScanRejects, Commit, IoError, CleanSessionDir, RemoveSessionDir, Register,
        Answer, AnswerFails, memVars
  <1>2. ~Forget(h)
    BY <1>0 DEF Forget, RestTyped
  <1>3. PICK i \in Objects : /\ objects[Sid(h)][i] = None
                             /\ objects' = [objects EXCEPT ![Sid(h)][i] = [status |-> "INIT", got |-> {}, left |-> FALSE]]
                             /\ table' = [table EXCEPT ![Sid(h)] = i]
    BY <1>1, <1>2 DEF PutSession
  <1>4. x = Sid(h) /\ table'[x] = i
    BY <1>0, <1>3 DEF RestTyped
  <1>5. objects'[x][i] = [status |-> "INIT", got |-> {}, left |-> FALSE]
    BY <1>0, <1>3, <1>4 DEF TypeOK
  <1> QED  BY <1>1, <1>2, <1>3, <1>4, <1>5 DEF PutSession, At

Marks(h, x, i) ==
    /\ MarkChunk(h) /\ Sid(h) = x /\ handlers[h].obj = i
    /\ objects'[x][i].status = (IF objects[x][i].status = "INIT" THEN "UPLOADING" ELSE objects[x][i].status)
    /\ objects'[x][i].got = objects[x][i].got \cup {handlers[h].chunk}

Begins(h, x, i) ==
    /\ FinalizeUpload(h, x) /\ table[x] = i
    /\ objects[x][i].status \in MayFinalize /\ objects'[x][i].status = "FINALIZING"

Breaks(h, x, i) ==
    /\ handlers[h].pc \in FinalizePcs /\ Sid(h) = x /\ handlers[h].obj = i
    /\ objects'[x][i].status = "FAILED"
    /\ \E end \in {"mismatch", "rejected", "io"} : FailsWith(h, end)

Completes(h, x, i) ==
    /\ Forget(h) /\ Sid(h) = x /\ handlers[h].obj = i
    /\ objects'[x][i].status = "COMPLETED"

\* Nobody goes on with the object.
Leaves(h, x, i) ==
    /\ FinalizeThrows(h) /\ Sid(h) = x /\ handlers[h].obj = i
    /\ objects'[x][i].left /\ objects'[x][i].got = objects[x][i].got
    /\ objects'[x][i].status \in {objects[x][i].status, "FAILED"}

LEMMA StatusIs ==
    ASSUME TypeInv, NEW h \in Handlers, handlers[h].pc \in FinalizePcs,
           NEW status \in Statuses, objects' = WithStatus(h, status),
           NEW x \in Sids, NEW i \in Objects
    PROVE  \/ objects'[x][i] = objects[x][i]
           \/ /\ Sid(h) = x /\ handlers[h].obj = i
              /\ objects'[x][i].status = status /\ objects'[x][i].left = objects[x][i].left
  <1>0. /\ objects \in [Sids -> [Objects -> Object \cup {None}]]
        /\ Sid(h) \in Sids /\ handlers[h].obj \in Objects
        /\ objects[Sid(h)][handlers[h].obj] \in Object
    <2>1. Sid(h) \in Sids /\ handlers[h] \in Finalizing
      BY Shapes DEF TypeInv, FinalizePcs
    <2>2. objects[Sid(h)][handlers[h].obj] # None
      BY DEF TypeInv, ObjectsFit
    <2> QED  BY <2>1, <2>2 DEF TypeInv, TypeOK, Finalizing
  <1>1. PICK y \in Sids, j \in Objects : y = Sid(h) /\ j = handlers[h].obj
    BY <1>0
  <1>2. PICK o : o = [objects[y][j] EXCEPT !.status = status]
    OBVIOUS
  <1>3. o.status = status /\ o.left = objects[y][j].left
    BY <1>0, <1>1, <1>2 DEF Object
  <1>4. objects' = [objects EXCEPT ![y] = [objects[y] EXCEPT ![j] = o]]
    BY <1>1, <1>2 DEF WithStatus
  <1>5. CASE x = y /\ i = j
    BY <1>0, <1>1, <1>3, <1>4, <1>5
  <1>6. CASE ~(x = y /\ i = j)
    BY <1>0, <1>4, <1>6
  <1> QED  BY <1>5, <1>6

LEMMA ObjectTurns ==
    ASSUME TypeInv, NEW h \in Handlers, HandlerStep(h), NEW x \in Sids, NEW i \in Objects,
           objects[x][i] # None, objects'[x][i] # objects[x][i]
    PROVE  /\ \/ Marks(h, x, i) \/ Begins(h, x, i) \/ Breaks(h, x, i) \/ Completes(h, x, i)
              \/ Leaves(h, x, i)
           /\ objects[x][i].left => objects'[x][i].left
  <1>0. TypeOK /\ objects \in [Sids -> [Objects -> Object \cup {None}]]
    BY DEF TypeInv, TypeOK
  <1>1. CASE PutSession(h)
    <2>1. PICK j \in Objects :
              /\ objects[Sid(h)][j] = None
              /\ \E o : objects' = [objects EXCEPT ![Sid(h)] = [objects[Sid(h)] EXCEPT ![j] = o]]
      BY <1>1 DEF PutSession
    <2>2. Sid(h) \in Sids
      BY <1>0, <1>1, Shapes DEF PutSession, At
    <2> QED  BY <1>0, <2>1, <2>2
  <1>2. CASE MarkChunk(h)
    <2>1. Sid(h) \in Sids /\ handlers[h] \in Storing /\ handlers[h].obj \in Objects
      BY <1>0, <1>2, Shapes DEF MarkChunk, At, StorePcs, Storing
    <2>2. PICK y \in Sids, j \in Objects : y = Sid(h) /\ j = handlers[h].obj
      BY <2>1
    <2>3. PICK o : /\ o = [objects[y][j] EXCEPT !.status = IF @ = "INIT" THEN "UPLOADING" ELSE @,
                                                !.got    = @ \cup {handlers[h].chunk}]
                   /\ objects' = [objects EXCEPT ![y] = [objects[y] EXCEPT ![j] = o]]
      BY <1>2, <2>2 DEF MarkChunk
    <2>4. x = y /\ i = j /\ objects'[x][i] = o /\ objects[x][i] \in Object
      BY <1>0, <2>3
    <2>5. /\ o.status = (IF objects[y][j].status = "INIT" THEN "UPLOADING" ELSE objects[y][j].status)
          /\ o.got = objects[y][j].got \cup {handlers[h].chunk} /\ o.left = objects[y][j].left
      BY <2>3, <2>4 DEF Object
    <2> QED  BY <1>2, <2>2, <2>4, <2>5 DEF Marks
  <1>3. ASSUME NEW y \in Sids, FinalizeUpload(h, y)
        PROVE  Begins(h, x, i) /\ objects'[x][i].left = objects[x][i].left
    <2>1. table[y] \in Objects /\ objects[y][table[y]].status \in MayFinalize
      BY <1>0, <1>3 DEF FinalizeUpload, TypeOK, Current
    <2>j. PICK j \in Objects : j = table[y]
      BY <2>1
    <2>2. PICK o : /\ o = [objects[y][j] EXCEPT !.status = "FINALIZING"]
                   /\ objects' = [objects EXCEPT ![y] = [objects[y] EXCEPT ![j] = o]]
      BY <1>3, <2>j DEF FinalizeUpload
    <2>3. x = y /\ i = j /\ objects'[x][i] = o
      BY <1>0, <2>2
    <2>4. objects[x][i] \in Object
      BY <1>0
    <2>5. o.status = "FINALIZING" /\ o.left = objects[x][i].left
      BY <2>2, <2>3, <2>4 DEF Object
    <2> QED  BY <1>3, <2>1, <2>j, <2>2, <2>3, <2>5 DEF Begins
  <1>4. CASE Verify(h) \/ ScanRejects(h) \/ IoError(h)
    <2>1. handlers[h].pc \in FinalizePcs
      BY <1>4 DEF Verify, ScanRejects, IoError, At, FinalizePcs
    <2>2. objects' = WithStatus(h, "FAILED")
      BY <1>4 DEF Verify, ScanRejects, IoError
    <2>3. /\ Sid(h) = x /\ handlers[h].obj = i
          /\ objects'[x][i].status = "FAILED" /\ objects'[x][i].left = objects[x][i].left
      BY <2>1, <2>2, StatusIs DEF Statuses
    <2>4. \E end \in {"mismatch", "rejected", "io"} : FailsWith(h, end)
      <3>1. CASE Verify(h)
        <4>1. objects' # objects
          OBVIOUS
        <4>2. handlers' = Failed(Followed(Sid(h), "nowhere"), h, "mismatch")
          BY <3>1, <4>1 DEF Verify
        <4>3. Sid(h) \in Sids
          BY <2>3
        <4>4. FailsWith(h, "mismatch")
          BY <1>0, <2>1, <4>2, <4>3, FailsTo DEF FailsWith
        <4> QED  BY <4>4
      <3>2. CASE ScanRejects(h)
        BY <1>0, <3>2, FinalizingLeads
      <3>3. CASE IoError(h)
        BY <1>0, <3>3, FinalizingLeads
      <3> QED  BY <1>4, <3>1, <3>2, <3>3
    <2> QED  BY <2>1, <2>3, <2>4 DEF Breaks
  <1>5. CASE Forget(h)
    <2>1. handlers[h].pc \in FinalizePcs /\ objects' = WithStatus(h, "COMPLETED")
      BY <1>5 DEF Forget, At, FinalizePcs
    <2> QED  BY <1>5, <2>1, StatusIs DEF Completes, Statuses
  <1>6. ~UNCHANGED objects
    OBVIOUS
  <1>7. CASE FinalizeThrows(h)
    BY <1>7, LeavesAre DEF Leaves
  <1> QED
    BY <1>1, <1>2, <1>3, <1>4, <1>5, <1>6, <1>7
    DEF HandlerStep, OpenUpload, AnswerDuplicate, LookUp, CreateDir, SaveMeta, UploadChunk,
        WriteChunk, OpenAssembled, CopyChunk, ScanAccepts, Commit, CleanSessionDir,
        RemoveSessionDir, Register, Answer, AnswerFails, memVars

----
(***************************************************************************)
(* Theorem: no session is stranded.                                        *)
(***************************************************************************)

\* Someone finalizes the object i of the session x.
Attended(x, i) ==
    \E h \in Handlers : handlers[h].pc \in FinalizePcs /\ Sid(h) = x /\ handlers[h].obj = i

LEMMA StrandIs ==
    ASSUME TypeOK
    PROVE  StrandInv <=>
               /\ \A x \in Sids : table[x] # None /\ Current(x).status \notin MayFinalize =>
                      Current(x).left \/ Attended(x, table[x])
               /\ \A h \in Handlers : handlers[h].pc = "answer" => table[Sid(h)] # handlers[h].obj
  BY Shapes DEF StrandInv, NoSessionIsStranded, Attended

\* Who finalizes an object that is in the table goes on with it, unless an
\* exception ends the finalize.
LEMMA AttendedGoesOn ==
    ASSUME TypeInv, StrandInv, NEW h \in Handlers, HandlerStep(h),
           NEW x \in Sids, NEW i \in Objects, table[x] = i, table'[x] = i, Attended(x, i)
    PROVE  \/ FinalizeThrows(h) /\ Sid(h) = x /\ handlers[h].obj = i
           \/ Attended(x, i)'
  <1>0. TypeOK /\ OthersStay(h) /\ RestTyped /\ i # None
    BY HandlersMove, TypeParts, NoneIsNone DEF TypeInv
  <1>1. PICK g \in Handlers : handlers[g].pc \in FinalizePcs /\ Sid(g) = x /\ handlers[g].obj = i
    BY DEF Attended
  <1>2. CASE g # h
    <2>1. handlers'[g].pc = handlers[g].pc /\ handlers'[g].sid = x /\ handlers'[g].obj = i
      BY <1>0, <1>1, <1>2 DEF OthersStay, Sid
    <2> QED  BY <1>1, <2>1 DEF Attended, Sid
  <1>3. CASE g = h
    <2>1. handlers[h].pc # "answer"
      BY <1>1, <1>3 DEF StrandInv
    <2>2. ~Forget(h)
      BY <1>0, <1>1, <1>3 DEF Forget, RestTyped
    <2>3. FinalizeThrows(h) => FinalizeThrows(h) /\ Sid(h) = x /\ handlers[h].obj = i
      BY <1>1, <1>3
    <2>4. ASSUME handlers'[h].pc \in FinalizePcs, handlers'[h].sid = handlers[h].sid,
                 handlers'[h].obj = handlers[h].obj
          PROVE  Attended(x, i)'
      BY <1>1, <1>3, <2>4 DEF Attended, Sid
    <2>5. handlers[h].pc \notin
              {"ready", "known", "lookup", "create", "meta", "put", "write", "mark", "progress"}
      BY <1>1, <1>3 DEF FinalizePcs
    <2>r. handlers[h] # Ready
      BY <2>5 DEF Ready
    <2>6. ~(\E y \in Sids : OpenUpload(h, y) \/ FinalizeUpload(h, y))
      BY <2>r DEF OpenUpload, FinalizeUpload
    <2>7. ~(\E y \in Sids, k \in Chunks, piece \in Pieces : UploadChunk(h, y, k, piece))
      BY <2>r DEF UploadChunk
    <2>8. ~(AnswerDuplicate(h) \/ LookUp(h) \/ CreateDir(h) \/ SaveMeta(h) \/ PutSession(h)
            \/ WriteChunk(h) \/ MarkChunk(h))
      BY <1>0, <2>5, OpeningLeads, StoringLeads
    <2>9. CASE OpenAssembled(h) \/ CopyChunk(h) \/ Verify(h) \/ ScanAccepts(h) \/ ScanRejects(h)
               \/ Commit(h) \/ IoError(h)
      <3>1. /\ handlers'[h].pc \in FinalizePcs /\ handlers'[h].sid = handlers[h].sid
            /\ handlers'[h].obj = handlers[h].obj
        BY <1>0, <2>9, FinalizingLeads DEF GoesOn, FailsWith, FinalizePcs
      <3> QED  BY <2>4, <3>1
    <2>10. CASE CleanSessionDir(h) \/ RemoveSessionDir(h) \/ Register(h)
      <3>1. /\ handlers'[h].pc \in FinalizePcs /\ handlers'[h].sid = handlers[h].sid
            /\ handlers'[h].obj = handlers[h].obj
        BY <1>0, <2>10, EndingLeads DEF GoesOn, FinalizePcs
      <3> QED  BY <2>4, <3>1
    <2>11. ~(Answer(h) \/ AnswerFails(h))
      BY <1>0, <2>1, EndingLeads
    <2> QED
      BY <2>2, <2>3, <2>6, <2>7, <2>8, <2>9, <2>10, <2>11 DEF HandlerStep
  <1> QED  BY <1>2, <1>3

\* An exception leaves its mark.
LEMMA LeftIs ==
    ASSUME TypeInv, NEW h \in Handlers, FinalizeThrows(h), NEW x \in Sids, NEW i \in Objects,
           Sid(h) = x, handlers[h].obj = i
    PROVE  objects'[x][i].left
  <1>1. objects \in [Sids -> [Objects -> Object \cup {None}]] /\ objects[x][i] # None
    <2>1. handlers[h].pc \in FinalizePcs
      BY ThrowsAre DEF TypeInv, FinalizePcs
    <2> QED  BY <2>1 DEF TypeInv, TypeOK, ObjectsFit
  <1>2. PICK o : /\ objects' = [objects EXCEPT ![x] = [objects[x] EXCEPT ![i] = o]]
                 /\ \/ o = [objects[x][i] EXCEPT !.left = TRUE]
                    \/ o = [objects[x][i] EXCEPT !.status = "FAILED", !.left = TRUE]
    BY DEF FinalizeThrows, VerifyThrows, CleanThrows, RegisterThrows, QuarantineThrows, Escape
  <1>3. o.left
    <2>1. objects[x][i] \in Object
      BY <1>1
    <2>2. \A q \in Object : /\ [q EXCEPT !.left = TRUE].left
                            /\ [q EXCEPT !.status = "FAILED", !.left = TRUE].left
      BY DEF Object
    <2> QED  BY <1>2, <2>1, <2>2
  <1> QED  BY <1>1, <1>2, <1>3

\* Nobody strands a session.
LEMMA HandlerStrandsNone ==
    ASSUME TypeInv, StrandInv, NEW h \in Handlers, HandlerStep(h),
           NEW x \in Sids, table'[x] # None, Current(x)'.status \notin MayFinalize
    PROVE  Current(x)'.left \/ Attended(x, table[x])'
  <1>0. TypeOK /\ RestTyped /\ ObjectsFit
    BY TypeParts DEF TypeInv
  <1>1. table'[x] = table[x]
    <2>1. SUFFICES ASSUME table'[x] # table[x] PROVE FALSE
      OBVIOUS
    <2>2. objects'[x][table'[x]] = [status |-> "INIT", got |-> {}, left |-> FALSE]
      BY <2>1, TableTurns
    <2> QED  BY <2>2 DEF Current, MayFinalize
  <1>2. PICK i \in Objects : i = table[x] /\ i = table'[x] /\ objects[x][i] # None
    BY <1>0, <1>1 DEF RestTyped, ObjectsFit, Current
  <1>3. objects'[x][i].status \notin MayFinalize
    BY <1>2 DEF Current
  <1>4. CASE objects[x][i].status \notin MayFinalize
    <2>1. objects[x][i].left \/ Attended(x, i)
      BY <1>0, <1>2, <1>4, StrandIs DEF Current
    <2>2. objects[x][i].left => objects'[x][i].left
      BY <1>2, ObjectTurns
    <2>3. FinalizeThrows(h) /\ Sid(h) = x /\ handlers[h].obj = i => objects'[x][i].left
      BY <1>0, <1>2, LeftIs
    <2> QED  BY <1>2, <2>1, <2>2, <2>3, AttendedGoesOn DEF Current
  <1>5. CASE objects[x][i].status \in MayFinalize
    <2>1. \/ Marks(h, x, i) \/ Begins(h, x, i) \/ Breaks(h, x, i) \/ Completes(h, x, i)
          \/ Leaves(h, x, i)
      BY <1>2, <1>3, <1>5, ObjectTurns
    <2>2. ~Marks(h, x, i)
      BY <1>3, <1>5 DEF Marks, MayFinalize
    <2>3. CASE Begins(h, x, i)
      <3>1. handlers'[h].pc = "assemble" /\ handlers'[h].sid = x /\ handlers'[h].obj = i
        BY <1>0, <1>2, <2>3, FinalizeUploadMoves DEF Begins
      <3> QED  BY <1>2, <3>1 DEF Attended, Sid, FinalizePcs
    <2>4. CASE Breaks(h, x, i)
      <3>1. handlers'[h].pc = "clean" /\ handlers'[h].sid = x /\ handlers'[h].obj = i
        BY <2>4 DEF Breaks, FailsWith, Sid
      <3> QED  BY <1>2, <3>1 DEF Attended, Sid, FinalizePcs
    <2>5. ~Completes(h, x, i)
      BY <1>0 DEF Completes, Forget, RestTyped
    <2>6. CASE Leaves(h, x, i)
      BY <1>2, <2>6 DEF Leaves, Current
    <2> QED  BY <2>1, <2>2, <2>3, <2>4, <2>5, <2>6
  <1> QED  BY <1>4, <1>5

\* A finalize at its answer has left the table.
LEMMA AnswersOutside ==
    ASSUME TypeInv, StrandInv, NEW h \in Handlers, HandlerStep(h),
           NEW g \in Handlers, handlers'[g].pc = "answer"
    PROVE  table'[handlers'[g].sid] # handlers'[g].obj
  <1>0. TypeOK /\ OthersStay(h) /\ RestTyped
    BY HandlersMove, TypeParts DEF TypeInv
  <1>1. CASE g = h
    <2>1. ~Ended(h)
      BY <1>1 DEF Ended
    <2>2. Forget(h)
      <3>1. ~(\E y \in Sids : OpenUpload(h, y) \/ FinalizeUpload(h, y))
        BY <1>0, <1>1, OpenUploadMoves, FinalizeUploadMoves
      <3>2. ~(\E y \in Sids, k \in Chunks, piece \in Pieces : UploadChunk(h, y, k, piece))
        BY <1>0, <1>1, UploadChunkMoves
      <3>3. ~(AnswerDuplicate(h) \/ LookUp(h) \/ CreateDir(h) \/ SaveMeta(h) \/ PutSession(h)
              \/ WriteChunk(h) \/ MarkChunk(h))
        BY <1>0, <1>1, <2>1, OpeningLeads, StoringLeads
      <3>4. ~(OpenAssembled(h) \/ CopyChunk(h) \/ Verify(h) \/ FinalizeThrows(h) \/ ScanAccepts(h)
              \/ ScanRejects(h) \/ Commit(h) \/ IoError(h))
        BY <1>0, <1>1, <2>1, FinalizingLeads DEF FailsWith
      <3>5. ~(CleanSessionDir(h) \/ RemoveSessionDir(h) \/ Register(h) \/ Answer(h) \/ AnswerFails(h))
        BY <1>0, <1>1, <2>1, EndingLeads DEF FailsWith
      <3> QED  BY <3>1, <3>2, <3>3, <3>4, <3>5 DEF HandlerStep
    <2>3. /\ handlers[h].pc = "forget" /\ handlers'[h].sid = Sid(h)
          /\ handlers'[h].obj = handlers[h].obj /\ table' = [table EXCEPT ![Sid(h)] = None]
      BY <1>0, <2>1, <2>2, EndingLeads DEF GoesOn, Sid
    <2>4. Sid(h) \in Sids /\ handlers[h].obj \in Objects
      BY <1>0, <2>3, Shapes DEF FinalizePcs, Finalizing
    <2> QED  BY <1>0, <1>1, <2>3, <2>4, NoneIsNone DEF RestTyped
  <1>2. CASE g # h
    <2>1. handlers'[g] = handlers[g] /\ handlers[g].pc = "answer"
      BY <1>0, <1>2 DEF OthersStay
    <2>2. /\ Sid(g) \in Sids /\ handlers[g].obj \in Objects /\ table[Sid(g)] # handlers[g].obj
          /\ objects[Sid(g)][handlers[g].obj] # None
      BY <1>0, <2>1, Shapes DEF FinalizePcs, Finalizing, StrandInv, TypeInv, ObjectsFit
    <2>3. table'[Sid(g)] # handlers[g].obj
      BY <2>2, TableTurns, NoneIsNone
    <2> QED  BY <2>1, <2>3 DEF Sid
  <1> QED  BY <1>1, <1>2

LEMMA FinalizingNext ==
    ASSUME HandlersTyped', NEW g \in Handlers, handlers'[g].pc \in FinalizePcs
    PROVE  handlers'[g] \in Finalizing
  BY DEF HandlersTyped, HandlerStates, Ready, Opening, Storing, FinalizePcs

\* StrandInv of the next state, from its parts.
LEMMA StrandNext ==
    ASSUME HandlersTyped',
           \A x \in Sids : table'[x] # None /\ Current(x)'.status \notin MayFinalize =>
               Current(x)'.left \/ Attended(x, table[x])',
           \A g \in Handlers : handlers'[g].pc = "answer" => table'[handlers'[g].sid] # handlers'[g].obj
    PROVE  StrandInv'
  BY FinalizingNext DEF StrandInv, NoSessionIsStranded, Attended, Sid

LEMMA StrandStep ==
    ASSUME TypeInv, StrandInv, [Next]_vars
    PROVE  StrandInv'
  <1>0. TypeOK /\ RestTyped /\ HandlersTyped
    BY TypeParts DEF TypeInv
  <1>a. HandlersTyped'
    <2>1. TypeOK'
      BY TypeStep DEF TypeInv
    <2> QED  BY <2>1 DEF TypeOK, HandlersTyped, HandlerStates
  <1>1. ASSUME NEW h \in Handlers, HandlerStep(h) PROVE StrandInv'
    <2>2. ASSUME NEW x \in Sids, table'[x] # None, Current(x)'.status \notin MayFinalize
          PROVE  Current(x)'.left \/ Attended(x, table[x])'
      BY <1>1, <2>2, HandlerStrandsNone
    <2>3. \A g \in Handlers : handlers'[g].pc = "answer" => table'[handlers'[g].sid] # handlers'[g].obj
      BY <1>1, AnswersOutside
    <2> QED  BY <1>a, <2>2, <2>3, StrandNext
  <1>2. CASE /\ UNCHANGED objects
             /\ \A x \in Sids : table'[x] # None => table'[x] = table[x]
             /\ \A h \in Handlers : /\ handlers'[h].pc = handlers[h].pc
                                    /\ handlers[h].pc \in FinalizePcs =>
                                           /\ handlers'[h].sid = handlers[h].sid
                                           /\ handlers'[h].obj = handlers[h].obj
    <2>1. /\ \A x \in Sids : table[x] # None /\ Current(x).status \notin MayFinalize =>
                 Current(x).left \/ Attended(x, table[x])
          /\ \A h \in Handlers : handlers[h].pc = "answer" => table[Sid(h)] # handlers[h].obj
      BY <1>0, StrandIs
    <2>2. ASSUME NEW x \in Sids, table'[x] # None, Current(x)'.status \notin MayFinalize
          PROVE  Current(x)'.left \/ Attended(x, table[x])'
      <3>1. table'[x] = table[x] /\ Current(x)' = Current(x)
        BY <1>2, <2>2 DEF Current
      <3>2. Current(x).left \/ Attended(x, table[x])
        BY <2>1, <2>2, <3>1
      <3>3. Attended(x, table[x]) => Attended(x, table[x])'
        BY <1>2, <3>1 DEF Attended, Sid
      <3> QED  BY <3>1, <3>2, <3>3
    <2>3. ASSUME NEW g \in Handlers, handlers'[g].pc = "answer"
          PROVE  table'[handlers'[g].sid] # handlers'[g].obj
      <3>1. /\ handlers[g].pc = "answer" /\ handlers'[g].sid = Sid(g)
            /\ handlers'[g].obj = handlers[g].obj
        BY <1>2, <2>3 DEF FinalizePcs, Sid
      <3>2. Sid(g) \in Sids /\ handlers[g].obj \in Objects
        BY <1>0, <3>1, Shapes DEF FinalizePcs, Finalizing
      <3> QED  BY <1>2, <2>1, <3>1, <3>2, NoneIsNone
    <2> QED  BY <1>a, <2>2, <2>3, StrandNext
  <1>3. ASSUME NEW x \in Sids, ExpireSession(x) PROVE StrandInv'
    <2>1. table' = [table EXCEPT ![x] = None] /\ UNCHANGED <<objects, handlers>>
      BY <1>3 DEF ExpireSession
    <2>2. \A y \in Sids : table'[y] # None => table'[y] = table[y]
      BY <1>0, <2>1 DEF RestTyped
    <2> QED  BY <1>2, <2>1, <2>2
  <1>4. CASE CleanExpired
    <2>1. \A h \in Handlers : /\ handlers'[h].pc = handlers[h].pc
                              /\ handlers[h].pc \in FinalizePcs =>
                                     /\ handlers'[h].sid = handlers[h].sid
                                     /\ handlers'[h].obj = handlers[h].obj
      BY <1>0, <1>4, FollowedIs DEF CleanExpired, Sid
    <2> QED  BY <1>2, <1>4, <2>1 DEF CleanExpired
  <1>5. CASE Restart
    <2>1. ASSUME NEW x \in Sids, table'[x] # None PROVE Current(x)'.status \in MayFinalize
      <3>1. x \in Recoverable /\ table'[x] = 1 /\ 1 \in Objects
        BY <1>5, <2>1, MaxObjectsAssumption DEF Restart, Objects
      <3>2. objects'[x][1] = [status |-> "PAUSED", got |-> OnDisk(x), left |-> FALSE]
        BY <1>5, <3>1 DEF Restart
      <3> QED  BY <3>1, <3>2 DEF Current, MayFinalize
    <2>2. \A h \in Handlers : handlers'[h].pc # "answer"
      BY <1>5 DEF Restart, Ready
    <2> QED  BY <1>a, <2>1, <2>2, StrandNext
  <1>6. CASE UNCHANGED <<table, objects, handlers>>
    BY <1>2, <1>6
  <1> QED
    BY <1>1, <1>3, <1>4, <1>5, <1>6
    DEF Next, TimerStep, RemoveExpired, TimerDies, ReportGone, vars, diskVars, memVars

\* A session that refuses chunks and another finalize is one somebody is still
\* finalizing: by the end of a finalize the session has left the table
\* (ClientHandler.handleFinalizeUpload), unless an exception ended it that is no
\* IOException, which nobody catches.
THEOREM NobodyWaitsForNobody == Spec => []NoSessionIsStranded
  <1>1. Init => StrandInv
    BY DEF Init, StrandInv, NoSessionIsStranded, Ready
  <1>2. StrandInv => NoSessionIsStranded
    BY DEF StrandInv
  <1> QED  BY <1>1, <1>2, TypeInit, TypeStep, StrandStep, PTL DEF Spec

----
(***************************************************************************)
(* Who comes to work on a session, and what becomes of its directory.      *)
(***************************************************************************)
IdlePcs == {"ready", "known", "lookup", "create"}

\* The ways to come to work on x.
Comes(h, x) ==
    \/ CreateDir(h) /\ Sid(h) = x
    \/ \E k \in Chunks, piece \in Pieces : UploadChunk(h, x, k, piece)
    \/ FinalizeUpload(h, x)

\* How h comes to be where it is.
LEMMA HowOneWorks ==
    ASSUME TypeInv, NEW h \in Handlers, HandlerStep(h), NEW x \in Sids,
           handlers'[h].pc \notin IdlePcs, handlers'[h].sid = x
    PROVE  /\ Works(h, x) \/ Comes(h, x)
           /\ handlers'[h].pc \in FinalizePcs =>
                  /\ Finalizes(h, x) \/ FinalizeUpload(h, x)
                  /\ handlers'[h].pc \in {"scan", "commit"} => ~FinalizeUpload(h, x)
           /\ handlers'[h].pc \in {"meta", "put"} =>
                  \/ handlers[h].pc \in {"meta", "put"} /\ Sid(h) = x
                  \/ CreateDir(h) /\ Sid(h) = x
           /\ handlers'[h].pc = "mark" =>
                  /\ WriteChunk(h) /\ handlers[h] \in Storing /\ Sid(h) = x
                  /\ handlers'[h].chunk = handlers[h].chunk /\ dirs[x] # None
           /\ handlers'[h].pc \in {"scan", "commit"} =>
                  \/ handlers[h].pc \in {"scan", "commit"}
                  \/ Verify(h) /\ handlers[h].pc = "verify" /\ handlers'[h].pc = "scan"
           /\ ~PutSession(h)
  <1> USE DEF Works, Finalizes, Comes, Sid
  <1>0. TypeOK
    BY DEF TypeInv
  <1>1. ~Ended(h)
    BY DEF Ended, IdlePcs
  <1>2. ~(\E y \in Sids : OpenUpload(h, y))
    BY <1>0, OpenUploadMoves DEF IdlePcs
  <1>3. ASSUME NEW y \in Sids, FinalizeUpload(h, y)
        PROVE  y = x /\ handlers'[h].pc = "assemble" /\ handlers[h].pc = "ready"
    <2>1. y = x /\ handlers'[h].pc = "assemble"
      BY <1>0, <1>3, FinalizeUploadMoves
    <2>2. handlers[h] = Ready
      BY <1>3 DEF FinalizeUpload
    <2> QED  BY <2>1, <2>2 DEF Ready
  <1>4. ASSUME NEW y \in Sids, NEW k \in Chunks, NEW piece \in Pieces, UploadChunk(h, y, k, piece)
        PROVE  y = x /\ handlers'[h].pc = "write"
    BY <1>0, <1>4, UploadChunkMoves
  <1>5. CASE AnswerDuplicate(h) \/ LookUp(h) \/ CreateDir(h) \/ SaveMeta(h) \/ PutSession(h)
    BY <1>0, <1>1, <1>5, OpeningLeads DEF IdlePcs, FinalizePcs
  <1>6. CASE WriteChunk(h) \/ MarkChunk(h)
    BY <1>0, <1>1, <1>6, OpeningLeads, StoringLeads DEF IdlePcs, FinalizePcs
  <1>7. CASE OpenAssembled(h) \/ CopyChunk(h) \/ Verify(h) \/ FinalizeThrows(h) \/ ScanAccepts(h)
             \/ ScanRejects(h) \/ Commit(h) \/ IoError(h)
    <2>1. handlers[h].pc \in FinalizePcs /\ handlers'[h].pc \in FinalizePcs /\ Sid(h) = x
      BY <1>0, <1>1, <1>7, FinalizingLeads DEF GoesOn, FailsWith, FinalizePcs
    <2>2. handlers[h].pc \notin {"ready", "put"}
      BY <2>1 DEF FinalizePcs
    <2>r. handlers[h] # Ready
      BY <2>2 DEF Ready
    <2>3. ~PutSession(h) /\ ~FinalizeUpload(h, x)
      BY <2>2, <2>r DEF PutSession, FinalizeUpload, At
    <2>4. handlers'[h].pc \in {"scan", "commit"} =>
              \/ handlers[h].pc \in {"scan", "commit"}
              \/ Verify(h) /\ handlers[h].pc = "verify" /\ handlers'[h].pc = "scan"
      BY <1>0, <1>1, <1>7, FinalizingLeads DEF FailsWith
    <2> QED  BY <2>1, <2>3, <2>4 DEF IdlePcs, FinalizePcs
  <1>8. CASE CleanSessionDir(h) \/ RemoveSessionDir(h) \/ Register(h) \/ Forget(h) \/ Answer(h)
             \/ AnswerFails(h)
    <2>1. /\ handlers[h].pc \in FinalizePcs /\ handlers'[h].pc \in FinalizePcs \ {"scan", "commit"}
          /\ Sid(h) = x
      BY <1>0, <1>1, <1>8, EndingLeads DEF GoesOn, FailsWith, FinalizePcs
    <2>2. handlers[h].pc \notin {"ready", "put"}
      BY <2>1 DEF FinalizePcs
    <2>3. ~PutSession(h)
      BY <2>2 DEF PutSession, At
    <2> QED  BY <2>1, <2>3 DEF IdlePcs, FinalizePcs
  <1>9. CASE \E y \in Sids : FinalizeUpload(h, y)
    <2>1. FinalizeUpload(h, x) /\ handlers'[h].pc = "assemble" /\ handlers[h].pc = "ready"
      BY <1>3, <1>9
    <2>2. ~PutSession(h)
      BY <2>1 DEF PutSession, At
    <2> QED  BY <2>1, <2>2 DEF FinalizePcs
  <1>10. CASE \E y \in Sids, k \in Chunks, piece \in Pieces : UploadChunk(h, y, k, piece)
    <2>1. /\ handlers'[h].pc = "write"
          /\ \E k \in Chunks, piece \in Pieces : UploadChunk(h, x, k, piece)
      BY <1>4, <1>10
    <2>r. handlers[h] = Ready
      BY <2>1 DEF UploadChunk
    <2>2. handlers[h].pc = "ready"
      BY <2>r DEF Ready
    <2>3. ~PutSession(h)
      BY <2>2 DEF PutSession, At
    <2> QED  BY <2>1, <2>3 DEF FinalizePcs
  <1> QED  BY <1>2, <1>5, <1>6, <1>7, <1>8, <1>9, <1>10 DEF HandlerStep

\* How any handler comes to be where it is.
LEMMA HowAllWork ==
    ASSUME TypeInv, NEW h \in Handlers, HandlerStep(h), NEW x \in Sids,
           NEW g \in Handlers, handlers'[g].pc \notin IdlePcs, handlers'[g].sid = x
    PROVE  /\ Works(g, x) \/ (g = h /\ Comes(h, x))
           /\ handlers'[g].pc \in FinalizePcs =>
                  \/ Finalizes(g, x)
                  \/ /\ g = h /\ FinalizeUpload(h, x)
                     /\ handlers'[g].pc \notin {"scan", "commit"}
           /\ handlers'[g].pc \in {"meta", "put"} =>
                  \/ handlers[g].pc \in {"meta", "put"} /\ Sid(g) = x
                  \/ g = h /\ CreateDir(h) /\ Sid(h) = x
           /\ handlers'[g].pc = "mark" =>
                  \/ /\ handlers[g].pc = "mark" /\ Sid(g) = x
                     /\ handlers'[g].chunk = handlers[g].chunk
                  \/ /\ g = h /\ WriteChunk(h) /\ handlers[h] \in Storing /\ Sid(h) = x
                     /\ handlers'[g].chunk = handlers[h].chunk /\ dirs[x] # None
           /\ handlers'[g].pc \in {"scan", "commit"} =>
                  \/ handlers[g].pc \in {"scan", "commit"} /\ Sid(g) = x
                  \/ g = h /\ Verify(h) /\ handlers[h].pc = "verify" /\ Sid(h) = x
                     /\ handlers'[h].pc = "scan"
  <1>0. OthersStay(h)
    BY HandlersMove DEF TypeInv
  <1>1. CASE g = h
    BY <1>1, HowOneWorks DEF Finalizes, FinalizePcs
  <1>2. CASE g # h
    <2>1. /\ handlers'[g].pc = handlers[g].pc /\ handlers'[g].sid = handlers[g].sid
          /\ handlers[g].pc # "copy" => handlers'[g] = handlers[g]
      BY <1>0, <1>2 DEF OthersStay
    <2> QED  BY <2>1 DEF Works, Finalizes, Sid, IdlePcs
  <1> QED  BY <1>1, <1>2

\* Only who finalizes x takes its chunks away.
LEMMA DiskStays ==
    ASSUME TypeInv, NEW h \in Handlers, HandlerStep(h), NEW x \in Sids,
           dirs[x] # None, ~Finalizes(h, x)
    PROVE  /\ dirs'[x] # None /\ OnDisk(x) \subseteq OnDisk(x)'
           /\ WriteChunk(h) /\ handlers[h] \in Storing /\ Sid(h) = x => handlers[h].chunk \in OnDisk(x)'
  <1>0. TypeOK /\ DirsTyped /\ DirsTyped' /\ dirs[x] \in Dir
    BY DirsKeepType, TypeParts DEF TypeInv, DirsTyped
  <1>1. ASSUME NEW d, dirs'[x] = d, d \in Dir, OnDisk(x) \subseteq {k \in Chunks : d.chunks[k] # None}
        PROVE  dirs'[x] # None /\ OnDisk(x) \subseteq OnDisk(x)'
    BY <1>1, NoneIsNone DEF OnDisk
  <1>2. CASE dirs'[x] = dirs[x] /\ ~WriteChunk(h)
    BY <1>0, <1>1, <1>2 DEF OnDisk
  <1>3. CASE CreateDir(h)
    BY <1>0, <1>2, <1>3 DEF CreateDir, WriteChunk, At, DirsTyped
  <1>4. CASE SaveMeta(h) /\ dirs'[x] # dirs[x]
    <2>1. ~WriteChunk(h)
      BY <1>4 DEF SaveMeta, WriteChunk, At
    <2>2. PICK d : d = [dirs[x] EXCEPT !.meta = TRUE]
      OBVIOUS
    <2>3. dirs'[x] = d
      BY <1>0, <1>4, <2>2 DEF SaveMeta, DirsTyped
    <2>4. d \in Dir /\ d.chunks = dirs[x].chunks
      BY <1>0, <2>2 DEF Dir
    <2> QED  BY <1>1, <2>1, <2>3, <2>4 DEF OnDisk
  <1>5. CASE WriteChunk(h)
    <2>1. handlers[h] \in Storing /\ Sid(h) \in Sids
      BY <1>0, <1>5, Shapes DEF WriteChunk, At, StorePcs
    <2>2. PICK k \in Chunks, piece \in Pieces : k = handlers[h].chunk /\ piece = handlers[h].piece
      BY <2>1 DEF Storing
    <2>3. CASE Sid(h) # x
      <3>1. dirs'[x] = dirs[x]
        BY <1>0, <1>5, <2>3 DEF WriteChunk, DirsTyped
      <3> QED  BY <1>0, <1>1, <2>3, <3>1 DEF OnDisk
    <2>4. CASE Sid(h) = x
      <3>1. PICK d : d = [dirs[x] EXCEPT !.chunks[k] = piece]
        OBVIOUS
      <3>2. dirs'[x] = d
        BY <1>0, <1>5, <2>2, <2>4, <3>1 DEF WriteChunk, DirsTyped
      <3>3. /\ d \in Dir /\ d.chunks[k] = piece
            /\ \A j \in Chunks : j # k => d.chunks[j] = dirs[x].chunks[j]
        BY <1>0, <3>1 DEF Dir
      <3>4. piece # None
        BY NoneIsNone
      <3>5. k \in OnDisk(x)'
        BY <3>2, <3>3, <3>4 DEF OnDisk
      <3>6. \A j \in Chunks : dirs[x].chunks[j] # None => d.chunks[j] # None
        BY <3>3, <3>4
      <3>7. OnDisk(x) \subseteq {j \in Chunks : d.chunks[j] # None}
        BY <3>6 DEF OnDisk
      <3> QED  BY <1>1, <2>2, <3>2, <3>3, <3>5, <3>7
    <2> QED  BY <2>3, <2>4
  <1>6. CASE OpenAssembled(h) \/ CopyChunk(h) \/ Verify(h) \/ ScanRejects(h) \/ Commit(h)
             \/ CleanSessionDir(h) \/ RemoveSessionDir(h)
    <2>1. handlers[h].pc \in FinalizePcs /\ ~WriteChunk(h)
      BY <1>6
      DEF OpenAssembled, CopyChunk, Verify, ScanRejects, Commit, CleanSessionDir, RemoveSessionDir,
          WriteChunk, At, FinalizePcs
    <2>2. Sid(h) # x
      BY <2>1 DEF Finalizes
    <2>3. CASE CleanSessionDir(h)
      BY <1>0, <1>2, <2>1, <2>2, <2>3, EmptiedIs DEF CleanSessionDir
    <2>4. CASE ~CleanSessionDir(h)
      <3>1. dirs'[x] = dirs[x]
        BY <1>0, <1>6, <2>2, <2>4
        DEF OpenAssembled, CopyChunk, Verify, ScanRejects, Commit, RemoveSessionDir, DirsTyped
      <3> QED  BY <1>2, <2>1, <3>1
    <2> QED  BY <2>3, <2>4
  <1>7. CASE UNCHANGED dirs /\ ~WriteChunk(h)
    BY <1>2, <1>7
  <1>8. SaveMeta(h) => ~WriteChunk(h)
    BY DEF SaveMeta, WriteChunk, At
  <1>9. CASE FinalizeThrows(h)
    <2>1. handlers[h].pc \in FinalizePcs /\ ~WriteChunk(h)
      BY <1>0, <1>9, ThrowsAre DEF WriteChunk, At, FinalizePcs
    <2>2. Sid(h) # x
      BY <2>1 DEF Finalizes
    <2>3. dirs'[x] = dirs[x]
      BY <1>0, <1>9, <2>2, ThrowsAre DEF DirsTyped
    <2> QED  BY <1>2, <2>1, <2>3
  <1> QED
    BY <1>2, <1>3, <1>4, <1>5, <1>6, <1>7, <1>8, <1>9
    DEF HandlerStep, OpenUpload, AnswerDuplicate, LookUp, PutSession, UploadChunk, MarkChunk,
        FinalizeUpload, ScanAccepts, IoError, Register, Forget, Answer, AnswerFails,
        diskVars


----
(***************************************************************************)
(* What becomes of the bytes.                                              *)
(***************************************************************************)

\* A copy comes to go to the store as another handler commits the file.
LEMMA StoreCopies ==
    ASSUME TypeInv, NEW h \in Handlers, HandlerStep(h),
           NEW g \in Handlers, handlers'[g].pc = "copy", handlers'[g].out = "store"
    PROVE  \/ handlers[g].pc = "copy" /\ handlers[g].out = "store" /\ handlers'[g].sid = Sid(g)
           \/ /\ g # h /\ handlers[g].pc = "copy" /\ handlers'[g].sid = Sid(g)
              /\ Commit(h) /\ handlers[h].pc = "commit" /\ Sid(h) = Sid(g)
  <1>0. TypeOK /\ OthersStay(h) /\ OutsFollow(h)
    BY HandlersMove, OutsAre DEF TypeInv
  <1>1. CASE g # h
    <2>1. handlers[g].pc = "copy" /\ handlers'[g].sid = Sid(g)
      BY <1>0, <1>1 DEF OthersStay, Sid
    <2>2. CASE handlers[g].out = "store"
      BY <2>1, <2>2
    <2>3. CASE handlers[g].out # "store"
      <3>1. handlers[g].out = "dir" /\ handlers'[g] # handlers[g]
        BY <1>0, <1>1, <2>1, <2>3 DEF OutsFollow
      <3>2. CASE Commit(h)
        <4>1. handlers[h].pc = "commit" /\ Sid(g) = Sid(h)
          BY <1>0, <1>1, <2>1, <3>1, <3>2, CommitMoves, FollowedIs DEF Commit, At
        <4> QED  BY <1>1, <2>1, <3>2, <4>1
      <3>3. CASE CleanSessionDir(h)
        BY <1>0, <1>1, <2>1, <3>1, <3>3, CleanMoves, FollowedIs
      <3>4. CASE Verify(h) \/ ScanRejects(h) \/ IoError(h) \/ AnswerFails(h)
        <4>1. handlers[h].pc \in FinalizePcs /\ Sid(h) \in Sids
          BY <1>0, <3>4, Shapes DEF Verify, ScanRejects, IoError, AnswerFails, At, FinalizePcs
        <4>2. ~Done(h) /\ ~Goto(h, "scan")
          BY <1>0, <1>1, <3>1 DEF Done, Goto, TypeOK
        <4>3. PICK end \in {"mismatch", "rejected", "io", "gone"} :
                  \/ handlers' = Failed(handlers, h, end)
                  \/ \E x \in Sids : handlers' = Failed(Followed(x, "nowhere"), h, end)
          BY <3>4, <4>1, <4>2 DEF Verify, ScanRejects, IoError, AnswerFails
        <4> QED  BY <1>0, <1>1, <3>1, <4>1, <4>3, FailsTo
      <3>5. CASE \E r : handlers' = [handlers EXCEPT ![h] = r]
        BY <1>0, <1>1, <3>1, <3>5 DEF TypeOK
      <3>6. CASE FinalizeThrows(h)
        BY <1>0, <1>1, <2>1, <3>1, <3>6, ThrowsAre, FollowedIs
      <3> QED
        BY <3>2, <3>3, <3>4, <3>5, <3>6
        DEF HandlerStep, OpenUpload, AnswerDuplicate, LookUp, CreateDir, SaveMeta, PutSession,
            UploadChunk, WriteChunk, MarkChunk, FinalizeUpload, OpenAssembled, CopyChunk,
            ScanAccepts, RemoveSessionDir, Register, Forget, Answer, Goto, Done
    <2> QED  BY <2>2, <2>3
  <1>2. CASE g = h
    <2>1. ~Ended(h)
      BY <1>2 DEF Ended
    <2>2. ~(\E x \in Sids : OpenUpload(h, x) \/ FinalizeUpload(h, x))
      BY <1>0, <1>2, OpenUploadMoves, FinalizeUploadMoves
    <2>3. ~(\E x \in Sids, k \in Chunks, piece \in Pieces : UploadChunk(h, x, k, piece))
      BY <1>0, <1>2, UploadChunkMoves
    <2>4. ~(AnswerDuplicate(h) \/ LookUp(h) \/ CreateDir(h) \/ SaveMeta(h) \/ PutSession(h)
            \/ WriteChunk(h) \/ MarkChunk(h))
      BY <1>0, <1>2, <2>1, OpeningLeads, StoringLeads
    <2>5. ~(CleanSessionDir(h) \/ RemoveSessionDir(h) \/ Register(h) \/ Forget(h) \/ Answer(h)
            \/ AnswerFails(h))
      BY <1>0, <1>2, <2>1, EndingLeads DEF FailsWith
    <2>6. ~(Verify(h) \/ FinalizeThrows(h) \/ ScanAccepts(h) \/ ScanRejects(h) \/ Commit(h) \/ IoError(h))
      BY <1>0, <1>2, <2>1, FinalizingLeads DEF FailsWith
    <2>7. ~OpenAssembled(h)
      BY <1>0, <1>2, OpenAssembledMoves, SMTT(40)
    <2>8. CASE CopyChunk(h)
      BY <1>0, <1>2, <2>8, CopyChunkMoves DEF CopyChunk, At, Sid
    <2> QED  BY <2>2, <2>3, <2>4, <2>5, <2>6, <2>7, <2>8 DEF HandlerStep
  <1> QED  BY <1>1, <1>2

\* Only who finalizes x writes its file "assembled".
LEMMA AssembledTurns ==
    ASSUME TypeInv, NEW h \in Handlers, HandlerStep(h), NEW x \in Sids,
           dirs'[x] # None, dirs'[x].assembled # None
    PROVE  \/ dirs[x] # None /\ dirs'[x].assembled = dirs[x].assembled
           \/ /\ OpenAssembled(h) \/ CopyChunk(h)
              /\ Finalizes(h, x) /\ handlers[h].pc \in {"assemble", "copy"}
  <1>0. TypeOK /\ DirsTyped /\ (handlers[h].pc # "ready" => Sid(h) \in Sids)
    BY Shapes, TypeParts DEF TypeInv
  <1>1. CASE dirs'[x] = dirs[x]
    BY <1>1
  <1>2. CASE dirs'[x] = EmptyDir
    BY <1>2 DEF EmptyDir
  <1>3. CASE OpenAssembled(h) \/ CopyChunk(h)
    <2>1. handlers[h].pc \in {"assemble", "copy"} /\ Sid(h) \in Sids
      BY <1>0, <1>3 DEF OpenAssembled, CopyChunk, At
    <2>2. CASE Sid(h) = x
      BY <1>3, <2>1, <2>2 DEF Finalizes, FinalizePcs
    <2>3. CASE Sid(h) # x
      BY <1>0, <1>1, <1>3, <2>3 DEF OpenAssembled, CopyChunk, DirsTyped
    <2> QED  BY <2>2, <2>3
  <1>4. CASE Verify(h) \/ ScanRejects(h) \/ Commit(h)
    <2>1. Sid(h) \in Sids
      BY <1>0, <1>4 DEF Verify, ScanRejects, Commit, At
    <2>2. dirs' = dirs \/ (dirs[Sid(h)] # None /\ dirs' = [dirs EXCEPT ![Sid(h)].assembled = None])
      BY <1>4 DEF Verify, ScanRejects, Commit
    <2>3. PICK d : d = [dirs[Sid(h)] EXCEPT !.assembled = None]
      OBVIOUS
    <2>4. dirs[Sid(h)] # None => d.assembled = None
      BY <1>0, <2>1, <2>3 DEF DirsTyped, Dir
    <2>5. dirs' = dirs \/ (dirs[Sid(h)] # None /\ dirs' = [dirs EXCEPT ![Sid(h)] = d])
      BY <2>2, <2>3
    <2> QED  BY <1>0, <1>1, <2>1, <2>4, <2>5 DEF DirsTyped
  <1>5. CASE SaveMeta(h)
    <2>1. Sid(h) \in Sids
      BY <1>0, <1>5 DEF SaveMeta, At
    <2>2. PICK d : d = [dirs[Sid(h)] EXCEPT !.meta = TRUE]
      OBVIOUS
    <2>3. dirs[Sid(h)] # None => d \in Dir /\ d.assembled = dirs[Sid(h)].assembled
      BY <1>0, <2>1, <2>2 DEF DirsTyped, Dir
    <2>4. \/ dirs' = dirs
          \/ dirs[Sid(h)] # None /\ dirs' = [dirs EXCEPT ![Sid(h)] = d]
      BY <1>5, <2>2 DEF SaveMeta
    <2> QED  BY <1>0, <1>1, <2>1, <2>3, <2>4 DEF DirsTyped
  <1>6. CASE WriteChunk(h)
    <2>1. handlers[h] \in Storing /\ Sid(h) \in Sids
      BY <1>0, <1>6, Shapes DEF WriteChunk, At, StorePcs
    <2>2. PICK k \in Chunks, piece \in Pieces : k = handlers[h].chunk /\ piece = handlers[h].piece
      BY <2>1 DEF Storing
    <2>3. PICK d : d = [dirs[Sid(h)] EXCEPT !.chunks[k] = piece]
      OBVIOUS
    <2>4. dirs[Sid(h)] # None => d.assembled = dirs[Sid(h)].assembled
      BY <1>0, <2>1, <2>3 DEF DirsTyped, Dir
    <2>5. dirs' = dirs \/ (dirs[Sid(h)] # None /\ dirs' = [dirs EXCEPT ![Sid(h)] = d])
      BY <1>6, <2>2, <2>3 DEF WriteChunk
    <2> QED  BY <1>0, <1>1, <2>1, <2>4, <2>5 DEF DirsTyped
  <1>7. CASE CreateDir(h)
    BY <1>0, <1>1, <1>2, <1>7 DEF CreateDir, DirsTyped
  <1>8. CASE CleanSessionDir(h)
    BY <1>0, <1>1, <1>2, <1>8, EmptiedIs DEF CleanSessionDir
  <1>9. CASE RemoveSessionDir(h)
    BY <1>0, <1>1, <1>9 DEF RemoveSessionDir, DirsTyped
  <1>10. CASE UNCHANGED dirs
    BY <1>1, <1>10
  <1>11. CASE FinalizeThrows(h)
    <2>1. /\ Sid(h) \in Sids
          /\ \/ dirs' = dirs
             \/ dirs[Sid(h)] # None /\ dirs' = [dirs EXCEPT ![Sid(h)].assembled = None]
      BY <1>0, <1>11, ThrowsAre
    <2>2. PICK d : d = [dirs[Sid(h)] EXCEPT !.assembled = None]
      OBVIOUS
    <2>3. dirs[Sid(h)] # None => d.assembled = None
      BY <1>0, <2>1, <2>2 DEF DirsTyped, Dir
    <2>4. \/ dirs' = dirs
          \/ dirs[Sid(h)] # None /\ dirs' = [dirs EXCEPT ![Sid(h)] = d]
      BY <2>1, <2>2
    <2> QED  BY <1>0, <1>1, <2>1, <2>3, <2>4 DEF DirsTyped
  <1> QED
    BY <1>3, <1>4, <1>5, <1>6, <1>7, <1>8, <1>9, <1>10, <1>11
    DEF HandlerStep, OpenUpload, AnswerDuplicate, LookUp, PutSession, UploadChunk, MarkChunk,
        FinalizeUpload, ScanAccepts, IoError, Register, Forget, Answer, AnswerFails,
        diskVars


----
(***************************************************************************)
(* Theorems: blobs are intact, and sessions keep their chunks.             *)
(***************************************************************************)

LEMMA Untouched ==
    ASSUME TypeOK, NEW h \in Handlers, HandlerStep(h)
    PROVE  /\ timer' = timer
           /\ overlapped \subseteq overlapped'
           /\ CreateDir(h) /\ Sid(h) \notin overlapped' => ~Busy(h, Sid(h))
  <1>1. CASE CreateDir(h)
    <2>1. timer' = timer /\ overlapped \subseteq overlapped'
      BY <1>1 DEF CreateDir
    <2>2. Busy(h, Sid(h)) => Sid(h) \in overlapped'
      BY <1>1, SMTT(40) DEF CreateDir
    <2> QED  BY <2>1, <2>2
  <1>2. CASE ~CreateDir(h)
    BY <1>2, ThrowsAre
    DEF HandlerStep, OpenUpload, AnswerDuplicate, LookUp, SaveMeta, PutSession, UploadChunk,
        WriteChunk, MarkChunk, FinalizeUpload, OpenAssembled, CopyChunk, Verify,
        ScanAccepts, ScanRejects, Commit, IoError, CleanSessionDir, RemoveSessionDir, Register,
        Forget, Answer, AnswerFails, memVars
  <1> QED  BY <1>1, <1>2

\* A session that is made while the same one is nowhere about.
LEMMA MadeAlone ==
    ASSUME TypeInv, NEW h \in Handlers, HandlerStep(h), CreateDir(h), NEW x \in Sids \ overlapped',
           Sid(h) = x
    PROVE  /\ table[x] = None /\ table'[x] = None /\ ~Clears(x) /\ dirs'[x] # None
           /\ \A g \in Handlers \ {h} : ~Works(g, x)
  <1>0. TypeOK /\ DirsTyped
    BY TypeParts DEF TypeInv
  <1>1. ~Busy(h, x)
    BY <1>0, Untouched
  <1>2. dirs'[x] # None
    BY <1>0, EmptyDirIs, NoneIsNone DEF CreateDir, DirsTyped
  <1>3. table[x] = None /\ ~Clears(x) /\ \A g \in Handlers \ {h} : ~Works(g, x)
    BY <1>1 DEF Busy, Clears, Works
  <1> QED  BY <1>2, <1>3 DEF CreateDir

\* Who makes a session is alone with it.
LEMMA MakerIsAlone ==
    ASSUME TypeInv, SessionInv, NEW h \in Handlers, HandlerStep(h), NEW x \in Sids \ overlapped',
           NEW g \in Handlers, handlers'[g].pc \in {"meta", "put"}, handlers'[g].sid = x
    PROVE  /\ table'[x] = None /\ ~Clears(x) /\ dirs'[x] # None
           /\ \A k \in Handlers \ {g} : ~(handlers'[k].pc \notin IdlePcs /\ handlers'[k].sid = x)
  <1>0. TypeOK /\ RestTyped /\ x \notin overlapped /\ Alone(x)
    BY Untouched, TypeParts DEF TypeInv, SessionInv
  <1>1. CASE g = h /\ CreateDir(h) /\ Sid(h) = x
    <2>1. /\ table[x] = None /\ table'[x] = None /\ ~Clears(x) /\ dirs'[x] # None
          /\ \A k \in Handlers \ {h} : ~Works(k, x)
      BY <1>1, MadeAlone
    <2>2. ASSUME NEW k \in Handlers \ {g}, handlers'[k].pc \notin IdlePcs, handlers'[k].sid = x
          PROVE  FALSE
      <3>1. Works(k, x) \/ k = h
        BY <2>2, HowAllWork
      <3> QED  BY <1>1, <2>1, <2>2, <3>1
    <2> QED  BY <2>1, <2>2
  <1>2. CASE handlers[g].pc \in {"meta", "put"} /\ Sid(g) = x
    <2>1. /\ table[x] = None /\ ~Clears(x) /\ dirs[x] # None
          /\ \A k \in Handlers \ {g} : ~Works(k, x)
      BY <1>0, <1>2 DEF Alone
    <2>2. table'[x] = None
      <3>1. SUFFICES ASSUME table'[x] # None PROVE FALSE
        OBVIOUS
      <3>2. PutSession(h) /\ handlers[h].pc = "put" /\ Sid(h) = x
        BY <2>1, <3>1, TableTurns
      <3>3. h = g
        BY <2>1, <3>2 DEF Works
      <3>4. ~PutSession(h)
        BY <3>3, HowOneWorks DEF IdlePcs
      <3> QED  BY <3>2, <3>4
    <2>3. ~Finalizes(h, x)
      BY <1>2, <2>1 DEF Finalizes, Works, FinalizePcs
    <2>4. dirs'[x] # None
      BY <2>1, <2>3, DiskStays
    <2>5. ASSUME NEW k \in Handlers \ {g}, handlers'[k].pc \notin IdlePcs, handlers'[k].sid = x
          PROVE  FALSE
      <3>1. k = h /\ Comes(h, x)
        BY <2>1, <2>5, HowAllWork
      <3>2. CreateDir(h) /\ Sid(h) = x
        BY <2>1, <3>1 DEF Comes, UploadChunk, FinalizeUpload
      <3>3. ~Works(g, x)
        BY <2>5, <3>1, <3>2, MadeAlone
      <3> QED  BY <1>2, <3>3 DEF Works
    <2> QED  BY <2>1, <2>2, <2>4, <2>5
  <1>3. handlers'[g].pc \notin IdlePcs
    BY DEF IdlePcs
  <1> QED  BY <1>1, <1>2, <1>3, HowAllWork

\* A finalize that begins stops the session from accepting chunks.
LEMMA BeginsTo ==
    ASSUME TypeInv, NEW h \in Handlers, NEW x \in Sids, FinalizeUpload(h, x)
    PROVE  objects'[x][table[x]].status = "FINALIZING"
  <1>1. /\ objects \in [Sids -> [Objects -> Object \cup {None}]]
        /\ table[x] \in Objects /\ objects[x][table[x]] # None
    BY DEF TypeInv, TypeOK, ObjectsFit, FinalizeUpload, Current
  <1>2. PICK i \in Objects : i = table[x]
    BY <1>1
  <1>3. PICK o : /\ o = [objects[x][i] EXCEPT !.status = "FINALIZING"]
                 /\ objects' = [objects EXCEPT ![x] = [objects[x] EXCEPT ![i] = o]]
    BY <1>2 DEF FinalizeUpload
  <1>4. o.status = "FINALIZING"
    BY <1>1, <1>2, <1>3 DEF Object
  <1>5. objects'[x][i] = o
    BY <1>1, <1>3
  <1> QED  BY <1>2, <1>4, <1>5

\* A session that accepts chunks is whole.
LEMMA AcceptingIsWhole ==
    ASSUME TypeInv, SessionInv, NEW h \in Handlers, HandlerStep(h), NEW x \in Sids \ overlapped',
           table'[x] # None, Current(x)'.status \in MayFinalize
    PROVE  /\ ~Clears(x)
           /\ \A g \in Handlers : ~(handlers'[g].pc \in FinalizePcs /\ handlers'[g].sid = x)
           /\ dirs'[x] # None /\ Current(x)'.got \subseteq OnDisk(x)'
           /\ \A g \in Handlers : handlers'[g].pc = "mark" /\ handlers'[g].sid = x =>
                  handlers'[g].chunk \in OnDisk(x)'
  <1>0. TypeOK /\ RestTyped /\ x \notin overlapped /\ Alone(x)
    BY Untouched, TypeParts DEF TypeInv, SessionInv
  <1>1. CASE table'[x] # table[x]
    <2>1. /\ PutSession(h) /\ handlers[h].pc = "put" /\ Sid(h) = x
          /\ objects'[x][table'[x]] = [status |-> "INIT", got |-> {}, left |-> FALSE]
      BY <1>1, TableTurns
    <2>2. ~Clears(x) /\ dirs[x] # None /\ \A k \in Handlers \ {h} : ~Works(k, x)
      BY <1>0, <2>1 DEF Alone
    <2>3. dirs'[x] # None
      BY <2>1, <2>2, DiskStays DEF Finalizes, FinalizePcs
    <2>4. ASSUME NEW g \in Handlers, handlers'[g].pc \notin IdlePcs, handlers'[g].sid = x
          PROVE  FALSE
      <3>1. Works(g, x) \/ g = h
        BY <2>4, HowAllWork
      <3>2. g = h
        BY <2>2, <3>1
      <3> QED  BY <2>1, <2>4, <3>2, HowOneWorks
    <2>5. Current(x)'.got = {}
      BY <2>1 DEF Current
    <2>6. \A g \in Handlers : handlers'[g].sid = x => handlers'[g].pc \notin FinalizePcs \cup {"mark"}
      BY <2>4 DEF IdlePcs, FinalizePcs
    <2> QED  BY <2>2, <2>3, <2>5, <2>6
  <1>2. CASE table'[x] = table[x]
    <2>1. PICK i \in Objects : i = table[x] /\ i = table'[x] /\ objects[x][i] # None
      BY <1>0, <1>2 DEF RestTyped, TypeInv, ObjectsFit, Current
    <2>2. objects'[x][i].status \in MayFinalize
      BY <2>1 DEF Current
    <2>3. objects'[x][i] = objects[x][i] \/ Marks(h, x, i)
      <3>1. SUFFICES ASSUME objects'[x][i] # objects[x][i] PROVE Marks(h, x, i)
        OBVIOUS
      <3>2. \/ Marks(h, x, i) \/ Begins(h, x, i) \/ Breaks(h, x, i) \/ Completes(h, x, i)
            \/ Leaves(h, x, i)
        BY <2>1, <3>1, ObjectTurns
      <3>3. ~Leaves(h, x, i)
        <4>1. SUFFICES ASSUME Leaves(h, x, i) PROVE FALSE
          OBVIOUS
        <4>2. handlers[h].pc \in FinalizePcs /\ Sid(h) = x
          BY <1>0, <4>1, ThrowsAre DEF Leaves, FinalizePcs
        <4>3. objects[x][i].status \in MayFinalize
          BY <2>2, <4>1 DEF Leaves, MayFinalize
        <4> QED  BY <1>0, <2>1, <4>2, <4>3 DEF Alone, Current, Finalizes
      <3> QED  BY <2>2, <3>2, <3>3 DEF Begins, Breaks, Completes, MayFinalize
    <2>4. objects[x][i].status \in MayFinalize
      BY <2>2, <2>3 DEF Marks, MayFinalize
    <2>5. /\ ~Clears(x)
          /\ \A g \in Handlers : ~Finalizes(g, x)
          /\ dirs[x] # None /\ objects[x][i].got \subseteq OnDisk(x)
          /\ \A g \in Handlers : handlers[g].pc = "mark" /\ Sid(g) = x => handlers[g].chunk \in OnDisk(x)
      BY <1>0, <2>1, <2>4 DEF Alone, Current
    <2>6. /\ dirs'[x] # None /\ OnDisk(x) \subseteq OnDisk(x)'
          /\ WriteChunk(h) /\ handlers[h] \in Storing /\ Sid(h) = x => handlers[h].chunk \in OnDisk(x)'
      BY <2>5, DiskStays
    <2>7. ASSUME NEW g \in Handlers, handlers'[g].pc \in FinalizePcs, handlers'[g].sid = x
          PROVE  FALSE
      <3>1. handlers'[g].pc \notin IdlePcs
        BY <2>7 DEF IdlePcs, FinalizePcs
      <3>2. FinalizeUpload(h, x)
        BY <2>5, <2>7, <3>1, HowAllWork
      <3> QED  BY <2>1, <2>2, <3>2, BeginsTo DEF MayFinalize
    <2>8. objects'[x][i].got \subseteq OnDisk(x)'
      <3>1. CASE objects'[x][i] = objects[x][i]
        BY <2>5, <2>6, <3>1
      <3>2. CASE Marks(h, x, i)
        <4>1. handlers[h].pc = "mark" /\ Sid(h) = x
          BY <3>2 DEF Marks, MarkChunk, At
        <4> QED  BY <2>5, <2>6, <3>2, <4>1 DEF Marks
      <3> QED  BY <2>3, <3>1, <3>2
    <2>9. ASSUME NEW g \in Handlers, handlers'[g].pc = "mark", handlers'[g].sid = x
          PROVE  handlers'[g].chunk \in OnDisk(x)'
      <3>1. handlers'[g].pc \notin IdlePcs
        BY <2>9 DEF IdlePcs
      <3>2. \/ /\ handlers[g].pc = "mark" /\ Sid(g) = x /\ handlers'[g].chunk = handlers[g].chunk
            \/ /\ WriteChunk(h) /\ handlers[h] \in Storing /\ Sid(h) = x
               /\ handlers'[g].chunk = handlers[h].chunk
        BY <2>9, <3>1, HowAllWork
      <3> QED  BY <2>5, <2>6, <3>2
    <2>10. Current(x)'.got \subseteq OnDisk(x)'
      BY <2>1, <2>8 DEF Current
    <2> QED  BY <2>5, <2>6, <2>7, <2>9, <2>10
  <1> QED  BY <1>1, <1>2


\* A session is finalized by one handler at a time.
LEMMA OneFinalizes ==
    ASSUME TypeInv, SessionInv, NEW h \in Handlers, HandlerStep(h), NEW x \in Sids \ overlapped',
           NEW f \in Handlers, handlers'[f].pc \in FinalizePcs, handlers'[f].sid = x,
           NEW g \in Handlers, handlers'[g].pc \in FinalizePcs, handlers'[g].sid = x
    PROVE  f = g
  <1>0. x \notin overlapped /\ Alone(x)
    BY Untouched DEF TypeInv, SessionInv
  <1>1. handlers'[f].pc \notin IdlePcs /\ handlers'[g].pc \notin IdlePcs
    BY DEF IdlePcs, FinalizePcs
  <1>2. /\ Finalizes(f, x) \/ (f = h /\ FinalizeUpload(h, x))
        /\ Finalizes(g, x) \/ (g = h /\ FinalizeUpload(h, x))
    BY <1>1, HowAllWork
  <1>3. FinalizeUpload(h, x) => \A k \in Handlers : ~Finalizes(k, x)
    BY <1>0 DEF FinalizeUpload, Alone
  <1> QED  BY <1>0, <1>2, <1>3 DEF Alone

\* What was verified is what is committed.
LEMMA VerifiedStays ==
    ASSUME TypeInv, SessionInv, NEW h \in Handlers, HandlerStep(h), NEW x \in Sids \ overlapped',
           NEW g \in Handlers, handlers'[g].sid = x
    PROVE  /\ handlers'[g].pc \in {"scan", "commit"} =>
                  dirs'[x] = None \/ dirs'[x].assembled = None \/ Intact(dirs'[x].assembled)
           /\ handlers'[g].pc = "copy" => handlers'[g].out # "store"
  <1>0. TypeOK /\ x \notin overlapped /\ Alone(x) /\ Verified(x)
    BY Untouched DEF TypeInv, SessionInv
  <1>1. ASSUME handlers'[g].pc \in {"scan", "commit"}, dirs'[x] # None, dirs'[x].assembled # None
        PROVE  Intact(dirs'[x].assembled)
    <2>1. handlers'[g].pc \notin IdlePcs /\ handlers'[g].pc \in FinalizePcs
      BY <1>1 DEF IdlePcs, FinalizePcs
    <2>2. /\ Finalizes(g, x)
          /\ \/ handlers[g].pc \in {"scan", "commit"} /\ Sid(g) = x
             \/ g = h /\ Verify(h) /\ handlers[h].pc = "verify" /\ Sid(h) = x /\ handlers'[h].pc = "scan"
      BY <1>1, <2>1, HowAllWork
    <2>3. handlers[h].pc \in {"assemble", "copy"} => ~Finalizes(h, x)
      BY <1>0, <2>2 DEF Alone
    <2>4. dirs[x] # None /\ dirs'[x].assembled = dirs[x].assembled
      BY <1>1, <2>3, AssembledTurns
    <2>5. CASE handlers[g].pc \in {"scan", "commit"} /\ Sid(g) = x
      BY <1>0, <1>1, <2>4, <2>5 DEF Verified
    <2>6. CASE Verify(h) /\ handlers[h].pc = "verify" /\ Sid(h) = x /\ handlers'[h].pc = "scan"
      <3>1. SUFFICES ASSUME ~Intact(dirs[x].assembled) PROVE FALSE
        BY <2>4
      <3>2. handlers' = Failed(Followed(x, "nowhere"), h, "mismatch")
        BY <2>6, <3>1 DEF Verify
      <3>3. handlers'[h].pc = "clean"
        BY <1>0, <2>6, <3>2, FailsTo DEF FinalizePcs
      <3> QED  BY <2>6, <3>3
    <2> QED  BY <2>2, <2>5, <2>6
  <1>2. ASSUME handlers'[g].pc = "copy", handlers'[g].out = "store" PROVE FALSE
    <2>1. \/ handlers[g].pc = "copy" /\ handlers[g].out = "store" /\ Sid(g) = x
          \/ /\ g # h /\ handlers[g].pc = "copy" /\ handlers[h].pc = "commit"
             /\ Sid(h) = x /\ Sid(g) = x
      BY <1>2, StoreCopies
    <2>2. ~(handlers[g].pc = "copy" /\ handlers[g].out = "store" /\ Sid(g) = x)
      BY <1>0 DEF Verified
    <2>3. Finalizes(g, x) /\ Finalizes(h, x) => g = h
      BY <1>0 DEF Alone
    <2> QED  BY <2>1, <2>2, <2>3 DEF Finalizes, FinalizePcs
  <1> QED  BY <1>1, <1>2

\* SessionInv of the next state, from its parts.
LEMMA SessionNext ==
    ASSUME NEW x \in Sids,
           \A h \in Handlers : handlers'[h].pc \in {"meta", "put"} /\ handlers'[h].sid = x =>
               /\ table'[x] = None /\ ~Clears(x)' /\ dirs'[x] # None
               /\ \A g \in Handlers \ {h} : ~(handlers'[g].pc \notin IdlePcs /\ handlers'[g].sid = x),
           table'[x] # None /\ Current(x)'.status \in MayFinalize =>
               /\ ~Clears(x)'
               /\ \A g \in Handlers : ~(handlers'[g].pc \in FinalizePcs /\ handlers'[g].sid = x)
               /\ dirs'[x] # None /\ Current(x)'.got \subseteq OnDisk(x)'
               /\ \A g \in Handlers : handlers'[g].pc = "mark" /\ handlers'[g].sid = x =>
                      handlers'[g].chunk \in OnDisk(x)',
           \A f, g \in Handlers : /\ handlers'[f].pc \in FinalizePcs /\ handlers'[f].sid = x
                                  /\ handlers'[g].pc \in FinalizePcs /\ handlers'[g].sid = x
                                  => f = g,
           \A g \in Handlers : handlers'[g].sid = x =>
               /\ handlers'[g].pc \in {"scan", "commit"} =>
                      dirs'[x] = None \/ dirs'[x].assembled = None \/ Intact(dirs'[x].assembled)
               /\ handlers'[g].pc = "copy" => handlers'[g].out # "store"
    PROVE  Alone(x)' /\ Verified(x)'
  <1>1. Verified(x)'
    BY DEF Verified, Sid
  <1>2. Alone(x)'
    BY DEF Alone, Works, Finalizes, Sid, IdlePcs
  <1> QED  BY <1>1, <1>2

LEMMA HandlerKeepsSessions ==
    ASSUME TypeInv, SessionInv, NEW h \in Handlers, HandlerStep(h)
    PROVE  SessionInv'
  <1>1. ASSUME NEW x \in Sids \ overlapped' PROVE Alone(x)' /\ Verified(x)'
    <2>1. Clears(x)' <=> Clears(x)
      BY Untouched DEF TypeInv, Clears
    <2>2. \A g \in Handlers : handlers'[g].pc \in {"meta", "put"} /\ handlers'[g].sid = x =>
              /\ table'[x] = None /\ ~Clears(x)' /\ dirs'[x] # None
              /\ \A k \in Handlers \ {g} : ~(handlers'[k].pc \notin IdlePcs /\ handlers'[k].sid = x)
      BY <2>1, MakerIsAlone
    <2>3. table'[x] # None /\ Current(x)'.status \in MayFinalize =>
              /\ ~Clears(x)'
              /\ \A g \in Handlers : ~(handlers'[g].pc \in FinalizePcs /\ handlers'[g].sid = x)
              /\ dirs'[x] # None /\ Current(x)'.got \subseteq OnDisk(x)'
              /\ \A g \in Handlers : handlers'[g].pc = "mark" /\ handlers'[g].sid = x =>
                     handlers'[g].chunk \in OnDisk(x)'
      BY <2>1, AcceptingIsWhole
    <2>4. \A f, g \in Handlers : /\ handlers'[f].pc \in FinalizePcs /\ handlers'[f].sid = x
                                 /\ handlers'[g].pc \in FinalizePcs /\ handlers'[g].sid = x
                                 => f = g
      BY OneFinalizes
    <2>5. \A g \in Handlers : handlers'[g].sid = x =>
              /\ handlers'[g].pc \in {"scan", "commit"} =>
                     dirs'[x] = None \/ dirs'[x].assembled = None \/ Intact(dirs'[x].assembled)
              /\ handlers'[g].pc = "copy" => handlers'[g].out # "store"
      BY VerifiedStays
    <2> QED  BY <2>2, <2>3, <2>4, <2>5, SessionNext
  <1> QED  BY <1>1 DEF SessionInv

\* A step that takes nobody to work, and leaves the sessions it touches empty.
LEMMA QuietKeepsSessions ==
    ASSUME TypeInv, SessionInv, overlapped' = overlapped, objects' = objects,
           \A h \in Handlers : /\ handlers'[h].pc = handlers[h].pc
                               /\ handlers[h].pc # "copy" => handlers'[h] = handlers[h]
                               /\ handlers[h].pc = "copy" =>
                                      /\ handlers'[h].sid = handlers[h].sid
                                      /\ handlers'[h].out = "store" => handlers[h].out = "store",
           \A x \in Sids :
               /\ table'[x] = table[x] \/ (table'[x] = None /\ table[x] # None)
               /\ Clears(x)' => Clears(x) \/ (table'[x] = None /\ table[x] # None)
               /\ \/ dirs'[x] = dirs[x]
                  \/ Clears(x) /\ dirs'[x] \in {None, EmptyDir}
    PROVE  SessionInv'
  <1>1. ASSUME NEW x \in Sids \ overlapped' PROVE Alone(x)' /\ Verified(x)'
    <2>0. /\ Alone(x) /\ Verified(x)
          /\ \A h \in Handlers : handlers'[h].pc = handlers[h].pc
          /\ \A h \in Handlers : handlers[h].pc # "ready" => handlers'[h].sid = Sid(h)
          /\ \A h \in Handlers : handlers[h].pc # "copy" => handlers'[h] = handlers[h]
      BY <1>1 DEF SessionInv, Sid
    <2>1. ASSUME NEW h \in Handlers, handlers'[h].pc \in {"meta", "put"}, handlers'[h].sid = x
          PROVE  /\ table'[x] = None /\ ~Clears(x)' /\ dirs'[x] # None
                 /\ \A g \in Handlers \ {h} : ~(handlers'[g].pc \notin IdlePcs /\ handlers'[g].sid = x)
      <3>1. handlers[h].pc \in {"meta", "put"} /\ Sid(h) = x
        BY <2>0, <2>1
      <3>2. /\ table[x] = None /\ ~Clears(x) /\ dirs[x] # None
            /\ \A g \in Handlers \ {h} : ~Works(g, x)
        BY <2>0, <3>1 DEF Alone
      <3>3. ASSUME NEW g \in Handlers \ {h}, handlers'[g].pc \notin IdlePcs, handlers'[g].sid = x
            PROVE  FALSE
        BY <2>0, <3>2, <3>3 DEF Works, IdlePcs
      <3> QED  BY <3>2, <3>3
    <2>2. ASSUME table'[x] # None, Current(x)'.status \in MayFinalize
          PROVE  /\ ~Clears(x)'
                 /\ \A g \in Handlers : ~(handlers'[g].pc \in FinalizePcs /\ handlers'[g].sid = x)
                 /\ dirs'[x] # None /\ Current(x)'.got \subseteq OnDisk(x)'
                 /\ \A g \in Handlers : handlers'[g].pc = "mark" /\ handlers'[g].sid = x =>
                        handlers'[g].chunk \in OnDisk(x)'
      <3>1. table'[x] = table[x] /\ Current(x)' = Current(x)
        BY <2>2 DEF Current
      <3>2. /\ ~Clears(x)
            /\ \A h \in Handlers : ~Finalizes(h, x)
            /\ dirs[x] # None /\ Current(x).got \subseteq OnDisk(x)
            /\ \A h \in Handlers : handlers[h].pc = "mark" /\ Sid(h) = x => handlers[h].chunk \in OnDisk(x)
        BY <2>0, <2>2, <3>1 DEF Alone
      <3>3. dirs'[x] = dirs[x] /\ OnDisk(x)' = OnDisk(x)
        BY <3>2 DEF OnDisk
      <3>4. ASSUME NEW g \in Handlers, handlers'[g].pc \in FinalizePcs, handlers'[g].sid = x
            PROVE  FALSE
        BY <2>0, <3>2, <3>4 DEF Finalizes, FinalizePcs
      <3>5. ASSUME NEW g \in Handlers, handlers'[g].pc = "mark", handlers'[g].sid = x
            PROVE  handlers'[g].chunk \in OnDisk(x)'
        BY <2>0, <3>2, <3>3, <3>5 DEF Sid
      <3> QED  BY <2>2, <3>1, <3>2, <3>3, <3>4, <3>5
    <2>3. ASSUME NEW f \in Handlers, handlers'[f].pc \in FinalizePcs, handlers'[f].sid = x,
                 NEW g \in Handlers, handlers'[g].pc \in FinalizePcs, handlers'[g].sid = x
          PROVE  f = g
      BY <2>0, <2>3 DEF Alone, Finalizes, FinalizePcs
    <2>4. ASSUME NEW g \in Handlers, handlers'[g].sid = x
          PROVE  /\ handlers'[g].pc \in {"scan", "commit"} =>
                        dirs'[x] = None \/ dirs'[x].assembled = None \/ Intact(dirs'[x].assembled)
                 /\ handlers'[g].pc = "copy" => handlers'[g].out # "store"
      BY <2>0, <2>4 DEF Verified, EmptyDir
    <2> QED  BY <2>1, <2>2, <2>3, <2>4, SessionNext
  <1> QED  BY <1>1 DEF SessionInv


\* The timer keeps to one session, which it has taken out of the table.
LEMMA TimerKeepsSessions ==
    ASSUME TypeInv, SessionInv, TimerStep
    PROVE  SessionInv'
  <1>0. TypeOK /\ RestTyped /\ DirsTyped /\ None \notin Expired
    BY TypeParts, NoneIsNone DEF TypeInv
  <1>1. ASSUME NEW x \in Sids, ExpireSession(x) PROVE SessionInv'
    <2>1. PICK t : t = [pc |-> "clean", sid |-> x] /\ timer' = t
      BY <1>1 DEF ExpireSession
    <2>2. t.sid = x
      BY <2>1
    <2>3. ASSUME NEW y \in Sids
          PROVE  /\ table'[y] = table[y] \/ (table'[y] = None /\ table[y] # None)
                 /\ Clears(y)' => Clears(y) \/ (table'[y] = None /\ table[y] # None)
      BY <1>0, <1>1, <2>1, <2>2 DEF ExpireSession, RestTyped, Clears
    <2>4. /\ overlapped' = overlapped /\ objects' = objects /\ dirs' = dirs
          /\ handlers' = handlers
      BY <1>1 DEF ExpireSession, diskVars
    <2> QED  BY <2>3, <2>4, QuietKeepsSessions
  <1>2. CASE CleanExpired
    <2>1. PICK x \in Sids : x = timer.sid
      BY <1>0, <1>2 DEF CleanExpired, TypeOK, Expired
    <2>2. PICK t : t = [timer EXCEPT !.pc = "rmdir"] /\ timer' = t
      BY <1>2 DEF CleanExpired
    <2>3. t.sid = x
      BY <1>0, <1>2, <2>1, <2>2 DEF CleanExpired, TypeOK, Expired
    <2>4. ASSUME NEW y \in Sids
          PROVE  /\ table'[y] = table[y]
                 /\ Clears(y)' => Clears(y)
                 /\ dirs'[y] = dirs[y] \/ (Clears(y) /\ dirs'[y] \in {None, EmptyDir})
      BY <1>0, <1>2, <2>1, <2>2, <2>3, EmptiedIs DEF CleanExpired, Clears
    <2>5. handlers' = Followed(x, "nowhere") /\ overlapped' = overlapped /\ objects' = objects
      BY <1>2, <2>1 DEF CleanExpired
    <2>6. ASSUME NEW h \in Handlers
          PROVE  /\ handlers'[h].pc = handlers[h].pc
                 /\ handlers[h].pc # "copy" => handlers'[h] = handlers[h]
                 /\ handlers[h].pc = "copy" =>
                        /\ handlers'[h].sid = handlers[h].sid
                        /\ handlers'[h].out = "store" => handlers[h].out = "store"
      BY <1>0, <2>5, FollowedIs DEF Sid
    <2> QED  BY <2>4, <2>5, <2>6, QuietKeepsSessions
  <1>3. CASE RemoveExpired
    <2>1. PICK x \in Sids : x = timer.sid
      BY <1>0, <1>3 DEF RemoveExpired, TypeOK, Expired
    <2>2. ASSUME NEW y \in Sids
          PROVE  /\ table'[y] = table[y]
                 /\ ~Clears(y)'
                 /\ dirs'[y] = dirs[y] \/ (Clears(y) /\ dirs'[y] \in {None, EmptyDir})
      BY <1>0, <1>3, <2>1 DEF RemoveExpired, Clears, DirsTyped
    <2>3. overlapped' = overlapped /\ objects' = objects /\ handlers' = handlers
      BY <1>3 DEF RemoveExpired
    <2> QED  BY <2>2, <2>3, QuietKeepsSessions
  <1>4. CASE TimerDies
    <2>1. [timer EXCEPT !.pc = "dead"].pc = "dead"
      BY <1>0, <1>4 DEF TimerDies, TypeOK, Expired
    <2>2. ASSUME NEW y \in Sids PROVE ~Clears(y)'
      BY <1>4, <2>1 DEF TimerDies, Clears
    <2>3. UNCHANGED <<dirs, table, objects, handlers, overlapped>>
      BY <1>4 DEF TimerDies, diskVars
    <2> QED  BY <2>2, <2>3, QuietKeepsSessions
  <1> QED  BY <1>1, <1>2, <1>3, <1>4 DEF TimerStep

\* recoverSessions makes a session of what is on the disk.
LEMMA RestartKeepsSessions ==
    ASSUME TypeInv, SessionInv, Restart
    PROVE  SessionInv'
  <1>1. ASSUME NEW x \in Sids \ overlapped' PROVE Alone(x)' /\ Verified(x)'
    <2>1. \A h \in Handlers : handlers'[h] = Ready /\ handlers'[h].pc = "ready"
      BY DEF Restart, Ready
    <2>2. \A h \in Handlers : handlers'[h].pc \notin FinalizePcs \cup {"meta", "put", "mark"}
      BY <2>1 DEF FinalizePcs
    <2>3. ASSUME table'[x] # None
          PROVE  ~Clears(x)' /\ dirs'[x] # None /\ Current(x)'.got \subseteq OnDisk(x)'
      <3>1. x \in Recoverable /\ table'[x] = 1 /\ 1 \in Objects
        BY <2>3, MaxObjectsAssumption DEF Restart, Objects
      <3>2. objects'[x][1] = [status |-> "PAUSED", got |-> OnDisk(x), left |-> FALSE]
        BY <3>1 DEF Restart
      <3>3. Current(x)'.got = OnDisk(x)
        BY <3>1, <3>2 DEF Current
      <3>4. dirs' = dirs /\ timer' = None /\ dirs[x] # None
        BY <3>1 DEF Restart, Recoverable, diskVars
      <3> QED  BY <3>3, <3>4 DEF Clears, OnDisk
    <2>4. ASSUME NEW g \in Handlers, handlers'[g].pc \in {"scan", "commit", "copy"} PROVE FALSE
      BY <2>1, <2>4
    <2> QED  BY <2>2, <2>3, <2>4, SessionNext
  <1> QED  BY <1>1 DEF SessionInv

LEMMA SessionStep ==
    ASSUME TypeInv, SessionInv, [Next]_vars
    PROVE  SessionInv'
  <1>1. ASSUME NEW h \in Handlers, HandlerStep(h) PROVE SessionInv'
    BY <1>1, HandlerKeepsSessions
  <1>2. CASE TimerStep
    BY <1>2, TimerKeepsSessions
  <1>3. CASE Restart
    BY <1>3, RestartKeepsSessions
  <1>4. CASE UNCHANGED <<table, objects, dirs, handlers, timer, overlapped>>
    <2>1. \A x \in Sids : Clears(x)' <=> Clears(x)
      BY <1>4 DEF Clears
    <2> QED  BY <1>4, <2>1, QuietKeepsSessions
  <1> QED
    BY <1>1, <1>2, <1>3, <1>4 DEF Next, ReportGone, vars, diskVars, memVars

LEMMA SessionInit == Init => SessionInv
  <1>1. ASSUME Init, NEW x \in Sids PROVE Alone(x) /\ Verified(x)
    <2>1. table[x] = None /\ \A h \in Handlers : handlers[h] = Ready /\ handlers[h].pc = "ready"
      BY <1>1 DEF Init, Ready
    <2> QED  BY <2>1 DEF Alone, Verified, Finalizes, FinalizePcs
  <1> QED  BY <1>1 DEF SessionInv

\* How the bytes of the store come about.
LEMMA BlobsStay ==
    ASSUME TypeInv, SessionInv, BlobsAreIntact, NEW h \in Handlers, HandlerStep(h)
    PROVE  BlobsAreIntact'
  <1>0. /\ TypeOK /\ StoreTyped /\ overlapped \subseteq overlapped'
        /\ handlers[h].pc # "ready" => Sid(h) \in Sids
    BY Untouched, Shapes, TypeParts, SMTT(40) DEF TypeInv
  <1>1. ASSUME NEW s \in Shas, store'[s] # None, ~Intact(store'[s])
        PROVE  \E x \in overlapped' : ShaOf[x] = s
    <2>1. CASE store'[s] = store[s]
      BY <1>0, <1>1, <2>1 DEF BlobsAreIntact
    <2>2. CASE Commit(h) /\ store'[s] # store[s]
      <3>1. handlers[h].pc = "commit" /\ Sid(h) \in Sids
        BY <1>0, <2>2 DEF Commit, At
      <3>2. PICK x \in Sids : x = Sid(h)
        BY <3>1
      <3>3. /\ s = ShaOf[x] /\ store'[s] = dirs[x].assembled
            /\ dirs[x] # None /\ dirs[x].assembled # None
        BY <1>0, <2>2, <3>2 DEF Commit, StoreTyped
      <3>4. x \in overlapped
        BY <1>1, <3>1, <3>2, <3>3 DEF SessionInv, Verified
      <3> QED  BY <1>0, <3>3, <3>4
    <2>3. CASE CopyChunk(h) /\ store'[s] # store[s]
      <3>1. handlers[h].pc = "copy" /\ Sid(h) \in Sids
        BY <1>0, <2>3 DEF CopyChunk, At
      <3>2. PICK x \in Sids : x = Sid(h)
        BY <3>1
      <3>3. handlers[h].out = "store" /\ s = ShaOf[x]
        BY <1>0, <2>3, <3>2 DEF CopyChunk, StoreTyped
      <3>4. x \in overlapped
        BY <3>1, <3>2, <3>3 DEF SessionInv, Verified
      <3> QED  BY <1>0, <3>3, <3>4
    <2>4. CASE UNCHANGED store
      BY <2>1, <2>4
    <2> QED
      BY <1>0, <2>1, <2>2, <2>3, <2>4, ThrowsAre
      DEF HandlerStep, OpenUpload, AnswerDuplicate, LookUp, CreateDir, SaveMeta, PutSession,
          UploadChunk, WriteChunk, MarkChunk, FinalizeUpload, OpenAssembled, Verify,
          ScanAccepts, ScanRejects, IoError, CleanSessionDir, RemoveSessionDir, Register, Forget,
          Answer, AnswerFails, diskVars
  <1> QED  BY <1>1 DEF BlobsAreIntact

\* A blob has the bytes that its name promises (FileStore.commitAssembledFile
\* after verifySha256), unless a session of that content was made while the
\* same session was still about.
THEOREM BlobsAlwaysIntact == Spec => []BlobsAreIntact
  <1>1. Init => TypeInv /\ SessionInv /\ BlobsAreIntact
    BY TypeInit, SessionInit DEF Init, BlobsAreIntact
  <1>2. TypeInv /\ SessionInv /\ [Next]_vars => (TypeInv /\ SessionInv)'
    BY TypeStep, SessionStep
  <1>3. TypeInv /\ SessionInv /\ BlobsAreIntact /\ [Next]_vars => BlobsAreIntact'
    <2>1. SUFFICES ASSUME TypeInv, SessionInv, BlobsAreIntact, [Next]_vars PROVE BlobsAreIntact'
      OBVIOUS
    <2>2. ASSUME NEW h \in Handlers, HandlerStep(h) PROVE BlobsAreIntact'
      BY <2>1, <2>2, BlobsStay
    <2>3. CASE UNCHANGED <<store, overlapped>>
      BY <2>1, <2>3 DEF BlobsAreIntact
    <2> QED
      BY <2>1, <2>2, <2>3
      DEF Next, TimerStep, ExpireSession, CleanExpired, RemoveExpired, TimerDies, ReportGone,
          Restart, vars, diskVars
  <1> QED  BY <1>1, <1>2, <1>3, PTL DEF Spec

\* A session that accepts chunks has those it says it has on disk (the chunk is
\* written before markChunkReceived, and recoverSessions reads the directory),
\* with the same exception.
THEOREM ChunksAreKept == Spec => []SessionsKeepTheirChunks
  <1>1. SessionInv => SessionsKeepTheirChunks
    BY DEF SessionInv, Alone, SessionsKeepTheirChunks
  <1> QED  BY <1>1, TypeInit, TypeStep, SessionInit, SessionStep, PTL DEF Spec

----
(***************************************************************************)
(* The link to the coordinator.                                            *)
(***************************************************************************)
LEMMA BoundsAre ==
    MaxConns \in Nat /\ MaxFaults \in Nat
  BY BoundsAssumption

----
(***************************************************************************)
(* Type correctness, which needs to know who is in cleanup() and that only *)
(* the first dial finds no connection.                                     *)
(***************************************************************************)

LinkType ==
    /\ sockets    \in [Conns -> Socket]
    /\ registered \in 0..MaxConns
    /\ queue      \in Seq(Conns)
    /\ proof      \in 0..MaxConns
    /\ timedOut   \subseteq Conns
    /\ faults     \in 0..MaxFaults

FieldType ==
    /\ socket        \in 0..MaxConns
    /\ running       \in BOOLEAN
    /\ authenticated \in BOOLEAN
    /\ receiver      \in 0..socket
    /\ heartbeat     \in 0..socket
    /\ supervisor # "dial" => socket \in Conns

Supervisors == {"dial", "connect", "start", "auth", "await", "make",
                "schedule", "poll", "clean", "abort", "gone"}

ThreadType ==
    /\ receivers  \in [Conns -> Receiver]
    /\ hearts     \in [Conns -> Heart]
    /\ supervisor \in Supervisors
    /\ monitor    \in [by : Threads, at : {"heart", "close", "join"}]
                          \cup {Free}

\* The thread that holds the monitor is in its cleanup() and goes nowhere.
InCleanup ==
    /\ monitor.by[1] = "supervisor" => supervisor \in {"clean", "abort"}
    /\ monitor.by[1] = "receiver" =>
           monitor.by[2] \in Conns /\ receivers[monitor.by[2]].pc = "ending"
    /\ monitor.by[1] = "heart" =>
           monitor.by[2] \in Conns /\ hearts[monitor.by[2]].pc = "ending"

\* A connection's threads are not there before the supervisor starts them.
Unstarted ==
    /\ \A c \in Conns : c > socket =>
           receivers[c].pc = "none" /\ hearts[c].pc = "none"
    /\ supervisor \in {"connect", "start"} => receivers[socket].pc = "none"
    /\ supervisor \in {"connect", "start", "auth", "await", "make"}
           => hearts[socket].pc = "none"
    /\ supervisor = "schedule" /\ heartbeat = socket
           => hearts[socket].pc = "made"

LinkInv == LinkType /\ FieldType /\ ThreadType /\ InCleanup /\ Unstarted

LEMMA LinkParts == LinkInv => LinkTypeOK
  BY DEF LinkInv, LinkTypeOK, LinkType, FieldType, ThreadType, Supervisors

LEMMA EmptyIsSeq == \A S : <<>> \in Seq(S)
  OBVIOUS

LEMMA InitType ==
    LinkInit => LinkInv
  <1> SUFFICES ASSUME LinkInit PROVE LinkInv
    OBVIOUS
  <1>0. 0 \in 0..MaxConns /\ 0 \in 0..MaxFaults /\ 0 \in 0..0
    BY BoundsAre
  <1>1. LinkType
    BY <1>0, EmptyIsSeq DEF LinkInit, LinkType, Socket
  <1>2. FieldType
    BY <1>0 DEF LinkInit, FieldType
  <1>3. ThreadType /\ InCleanup /\ Unstarted
    BY <1>0
    DEF LinkInit, ThreadType, InCleanup, Unstarted, Receiver, Heart, Supervisors,
        Free
  <1> QED  BY <1>1, <1>2, <1>3 DEF LinkInv

\* A fault is counted.
LEMMA FaultCounts ==
    ASSUME faults \in 0..MaxFaults, NEW happens \in BOOLEAN, Fault(happens)
    PROVE  faults' \in 0..MaxFaults
  BY BoundsAre DEF Fault

LEMMA WholeIsBoolean ==
    ASSUME LinkType, NEW c \in Conns PROVE Whole(c) \in BOOLEAN
  BY DEF Whole, LinkType, Socket

\* What a step may leave as it was.
LEMMA LinkKept ==
    ASSUME LinkType, UNCHANGED <<registered, timedOut, faults>>,
           sockets' \in [Conns -> Socket], queue' \in Seq(Conns),
           proof' \in 0..MaxConns
    PROVE  LinkType'
  BY DEF LinkType

LEMMA FieldKept ==
    ASSUME FieldType, UNCHANGED <<fields, supervisor>> PROVE FieldType'
  BY DEF FieldType, fields

LEMMA DialType ==
    ASSUME LinkInv, Dial
    PROVE  LinkInv'
  <1>1. /\ supervisor = "dial" /\ socket < MaxConns /\ Fault(Pending)
        /\ socket' = socket + 1 /\ supervisor' = "connect"
        /\ sockets' = [sockets EXCEPT ![socket + 1].open = TRUE]
        /\ UNCHANGED <<registered, running, authenticated, receiver, heartbeat,
                       receivers, hearts, monitor, queue, proof, timedOut>>
    BY DEF Dial, Goes
  <1>2. socket + 1 \in Conns
    BY <1>1, BoundsAre DEF LinkInv, FieldType, Conns
  <1>3. FieldType'
    <2>1. receiver \in 0 .. socket + 1 /\ heartbeat \in 0 .. socket + 1
          /\ socket + 1 \in 0..MaxConns
      BY <1>1, BoundsAre DEF LinkInv, FieldType
    <2> QED  BY <1>1, <1>2, <2>1 DEF LinkInv, FieldType
  <1>4. Pending \in BOOLEAN
    BY DEF Pending
  <1>5. faults' \in 0..MaxFaults
    BY <1>1, <1>4, FaultCounts DEF LinkInv, LinkType
  <1>6. LinkType'
    BY <1>1, <1>2, <1>5 DEF LinkInv, LinkType, Socket
  <1>7. ThreadType' /\ InCleanup'
    BY <1>1 DEF LinkInv, ThreadType, InCleanup, Supervisors
  <1>8. Unstarted'
    <2>1. socket + 1 > socket /\ \A c \in Conns : c > socket + 1 => c > socket
      BY <1>2 DEF LinkInv, FieldType, Conns
    <2>2. heartbeat' # socket'
      BY <1>1, BoundsAre DEF LinkInv, FieldType
    <2> QED  BY <1>1, <1>2, <2>1, <2>2 DEF LinkInv, Unstarted
  <1> QED  BY <1>3, <1>6, <1>7, <1>8 DEF LinkInv

\* The other steps of doConnect and of the supervisor.
LEMMA SuperviseType ==
    ASSUME LinkInv,
           \/ Connect \/ ConnectFails \/ StartReceiver \/ NoStreams
           \/ SendAuth \/ AuthFails \/ TakeAnswer \/ AwaitTimesOut
           \/ MakeHeartbeat \/ ScheduleHeartbeat \/ ScheduleFails
           \/ FindLinkDown
    PROVE  LinkInv'
  <1> USE DEF Goes
  <1>1. socket \in Conns /\ socket' = socket
    BY DEF LinkInv, FieldType, fields, Connect, ConnectFails, StartReceiver,
           NoStreams, SendAuth, AuthFails, TakeAnswer, AwaitTimesOut,
           MakeHeartbeat, ScheduleHeartbeat, ScheduleFails, FindLinkDown
  <1>2. /\ supervisor \notin {"clean", "abort", "dial"}
        /\ supervisor' \in Supervisors \ {"dial"}
        /\ monitor' = monitor
    BY DEF Connect, ConnectFails, StartReceiver, NoStreams, SendAuth,
       AuthFails,
           TakeAnswer, AwaitTimesOut, MakeHeartbeat, ScheduleHeartbeat,
           ScheduleFails, FindLinkDown, AfterFailure, Supervisors
  <1>3. LinkType'
    <2>1. CASE Connect \/ SendAuth
      BY <1>1, <2>1
      DEF Connect, SendAuth, LinkInv, LinkType, Socket, history
    <2>2. CASE TakeAnswer
      <3>1. Head(queue) \in 0..MaxConns /\ Tail(queue) \in Seq(Conns)
        BY <2>2, BoundsAre DEF TakeAnswer, LinkInv, LinkType, Conns
      <3> QED  BY <2>2, <3>1 DEF TakeAnswer, LinkInv, LinkType, links
    <2>3. CASE ConnectFails \/ AwaitTimesOut
      <3>1. sockets[socket].open \in BOOLEAN /\ Whole(socket) \in BOOLEAN
        BY <1>1, WholeIsBoolean DEF LinkInv, LinkType, Socket
      <3>2. faults' \in 0..MaxFaults
        BY <2>3, <3>1, FaultCounts
        DEF ConnectFails, AwaitTimesOut, LinkInv, LinkType
      <3> QED
        BY <1>1, <2>3, <3>2
        DEF ConnectFails, AwaitTimesOut, LinkInv, LinkType, links
    <2>4. CASE StartReceiver \/ NoStreams \/ AuthFails \/ MakeHeartbeat
               \/ ScheduleHeartbeat \/ ScheduleFails \/ FindLinkDown
      BY <2>4
      DEF StartReceiver, NoStreams, AuthFails, MakeHeartbeat,
          ScheduleHeartbeat,
          ScheduleFails, FindLinkDown, links, history, LinkInv, LinkType
    <2> QED  BY <2>1, <2>2, <2>3, <2>4
  <1>4. FieldType'
    <2>1. socket \in 0 .. socket
      BY <1>1, BoundsAre DEF Conns
    <2> QED
      BY <1>1, <2>1
      DEF Connect, ConnectFails, StartReceiver, NoStreams, SendAuth,
          AuthFails,
          TakeAnswer, AwaitTimesOut, MakeHeartbeat, ScheduleHeartbeat,
          ScheduleFails, FindLinkDown, fields, LinkInv, FieldType
  <1>5. receivers' \in [Conns -> Receiver] /\ hearts' \in [Conns -> Heart]
    <2>1. CASE UNCHANGED <<receivers, hearts>>
      BY <2>1 DEF LinkInv, ThreadType
    <2>2. CASE StartReceiver
      BY <1>1, <2>2 DEF StartReceiver, LinkInv, ThreadType, Receiver
    <2>3. CASE MakeHeartbeat \/ ScheduleHeartbeat
      BY <1>1, <2>3 DEF MakeHeartbeat, ScheduleHeartbeat, LinkInv, ThreadType, Heart
    <2> QED
      BY <2>1, <2>2, <2>3
      DEF Connect, ConnectFails, NoStreams, SendAuth, AuthFails,
          TakeAnswer,
          AwaitTimesOut, ScheduleFails, FindLinkDown
  <1>6. /\ \A c \in Conns : receivers'[c] # receivers[c] =>
               c = socket /\ StartReceiver
        /\ \A c \in Conns : hearts'[c] # hearts[c] =>
               c = socket /\ (MakeHeartbeat \/ ScheduleHeartbeat)
    BY <1>1
    DEF Connect, ConnectFails, StartReceiver, NoStreams, SendAuth,
        AuthFails,
        TakeAnswer, AwaitTimesOut, MakeHeartbeat, ScheduleHeartbeat,
        ScheduleFails, FindLinkDown, LinkInv, ThreadType
  <1>7. /\ StartReceiver => receivers[socket].pc = "none"
        /\ MakeHeartbeat => hearts[socket].pc = "none"
        /\ ScheduleHeartbeat => hearts[socket].pc = "made"
    BY DEF LinkInv, Unstarted, StartReceiver, MakeHeartbeat, ScheduleHeartbeat
  <1>8. ThreadType'
    BY <1>2, <1>5 DEF LinkInv, ThreadType
  <1>9. InCleanup'
    BY <1>2, <1>6, <1>7 DEF LinkInv, InCleanup
  <1>10. Unstarted'
    <2>1. \A c \in Conns : c > socket => c # socket
      BY <1>1 DEF Conns
    <2>2. \/ supervisor' \in {"poll", "abort", "gone"}
          \/ Connect /\ supervisor = "connect" /\ supervisor' = "start"
          \/ StartReceiver /\ supervisor = "start" /\ supervisor' = "auth"
          \/ SendAuth /\ supervisor = "auth" /\ supervisor' = "await"
          \/ TakeAnswer /\ supervisor = "await" /\ supervisor' = "make"
          \/ /\ MakeHeartbeat /\ supervisor' = "schedule"
             /\ hearts' = [hearts EXCEPT ![socket].pc = "made"]
          \/ FindLinkDown /\ supervisor' = "clean"
      BY DEF Connect, ConnectFails, StartReceiver, NoStreams,
         SendAuth,
             AuthFails, TakeAnswer, AwaitTimesOut, MakeHeartbeat,
             ScheduleHeartbeat, ScheduleFails, FindLinkDown, AfterFailure
    <2>3. \A c \in Conns : c > socket' =>
              receivers'[c].pc = "none" /\ hearts'[c].pc = "none"
      BY <1>1, <1>6, <2>1 DEF LinkInv, Unstarted
    <2>4. CASE supervisor' \in {"poll", "abort", "gone", "clean"}
      BY <2>3, <2>4 DEF Unstarted
    <2>5. CASE Connect \/ StartReceiver \/ SendAuth \/ TakeAnswer
      <3>1. hearts' = hearts /\ (StartReceiver \/ receivers' = receivers)
        BY <2>5 DEF Connect, StartReceiver, SendAuth, TakeAnswer
      <3> QED
        BY <1>1, <2>2, <2>3, <2>4, <2>5, <3>1
        DEF LinkInv, Unstarted, Connect, StartReceiver, SendAuth, TakeAnswer
    <2>6. CASE /\ MakeHeartbeat /\ supervisor' = "schedule"
               /\ hearts' = [hearts EXCEPT ![socket].pc = "made"]
      <3>1. hearts'[socket].pc = "made"
        BY <1>1, <2>6 DEF LinkInv, ThreadType, Heart
      <3> QED  BY <1>1, <2>3, <2>6, <3>1 DEF Unstarted
    <2> QED  BY <2>2, <2>4, <2>5, <2>6
  <1> QED  BY <1>3, <1>4, <1>8, <1>9, <1>10 DEF LinkInv

\* A receiver or a heartbeat that does not hold the monitor moves on.
LEMMA ReceiveType ==
    ASSUME LinkInv, NEW c \in Conns,
           \/ Turn(c)
           \/ \E d \in Conns :
                  ReceiveAnswer(c, d) \/ ReceiveGarbage(c, d) \/ LoseLink(c, d)
    PROVE  LinkInv'
  <1>1. /\ UNCHANGED <<fields, hearts, monitor, supervisor, registered, history>>
        /\ receivers[c].pc \in {"loop", "read"}
        /\ \A b \in Conns : b # c => receivers'[b] = receivers[b]
    <2>1. CASE Turn(c)
      BY <2>1 DEF Turn, links, LinkInv, ThreadType
    <2>2. ASSUME NEW d \in Conns,
                 ReceiveAnswer(c, d) \/ ReceiveGarbage(c, d) \/ LoseLink(c, d)
          PROVE  /\ UNCHANGED <<fields, hearts, monitor, supervisor, registered,
                              history>>
                 /\ receivers[c].pc \in {"loop", "read"}
                 /\ \A b \in Conns : b # c => receivers'[b] = receivers[b]
      BY <2>2
      DEF ReceiveAnswer, ReceiveGarbage, LoseLink, Reading, links,
          LinkInv,
          ThreadType
    <2> QED  BY <2>1, <2>2
  <1>2. receivers' \in [Conns -> Receiver]
    <2>1. CASE Turn(c)
      <3>1. receiver \in 0..MaxConns /\ 0 \in 0..MaxConns
        BY BoundsAre DEF LinkInv, FieldType
      <3> QED  BY <2>1, <3>1 DEF Turn, LinkInv, ThreadType, Receiver
    <2>2. ASSUME NEW d \in Conns,
                 ReceiveAnswer(c, d) \/ ReceiveGarbage(c, d) \/ LoseLink(c, d)
          PROVE  receivers' \in [Conns -> Receiver]
      BY <2>2, ZenonT(40)
      DEF ReceiveAnswer, ReceiveGarbage, LoseLink, LinkInv, ThreadType,
          Receiver
    <2> QED  BY <2>1, <2>2
  <1>3. sockets' \in [Conns -> Socket] /\ queue' \in Seq(Conns)
    <2>1. ASSUME NEW d \in Conns, ReceiveAnswer(c, d) \/ ReceiveGarbage(c, d)
          PROVE  sockets' \in [Conns -> Socket] /\ queue' \in Seq(Conns)
      <3>1. /\ sockets' = [sockets EXCEPT ![d].answer = FALSE]
            /\ queue' \in {queue, Append(queue, d)}
        BY <2>1 DEF ReceiveAnswer, ReceiveGarbage
      <3>2. sockets' \in [Conns -> Socket]
        BY <3>1 DEF LinkInv, LinkType, Socket
      <3>3. Append(queue, d) \in Seq(Conns) /\ queue \in Seq(Conns)
        BY DEF LinkInv, LinkType
      <3> QED  BY <3>1, <3>2, <3>3
    <2>2. CASE Turn(c) \/ \E d \in Conns : LoseLink(c, d)
      BY <2>2 DEF Turn, LoseLink, links, LinkInv, LinkType
    <2> QED  BY <2>1, <2>2
  <1>4. LinkType' /\ FieldType'
    BY <1>1, <1>3, LinkKept, FieldKept DEF LinkInv, LinkType, history
  <1>5. ThreadType' /\ InCleanup'
    BY <1>1, <1>2 DEF LinkInv, ThreadType, InCleanup
  <1>6. Unstarted'
    BY <1>1 DEF LinkInv, Unstarted, FieldType, fields
  <1> QED  BY <1>4, <1>5, <1>6 DEF LinkInv

LEMMA BeatType ==
    ASSUME LinkInv, NEW c \in Conns, Ping(c) \/ SendPing(c) \/ PingFails(c)
    PROVE  LinkInv'
  <1>1. /\ UNCHANGED <<links, fields, receivers, monitor, supervisor, queue,
                       history>>
        /\ hearts[c].pc \in {"beating", "ping"}
        /\ \A b \in Conns : b # c => hearts'[b] = hearts[b]
    BY DEF Ping, SendPing, PingFails, LinkInv, ThreadType
  <1>2. hearts' \in [Conns -> Heart]
    BY DEF Ping, SendPing, PingFails, LinkInv, ThreadType, Heart
  <1>3. LinkType' /\ FieldType'
    BY <1>1, LinkKept, FieldKept DEF LinkInv, LinkType, links, history
  <1>4. ThreadType' /\ InCleanup'
    BY <1>1, <1>2 DEF LinkInv, ThreadType, InCleanup
  <1>5. Unstarted'
    BY <1>1 DEF LinkInv, Unstarted, FieldType, fields
  <1> QED  BY <1>3, <1>4, <1>5 DEF LinkInv

LEMMA StartCleanupType ==
    ASSUME LinkInv,
           \/ SupervisorCleans
           \/ \E c \in Conns : ReceiverCleans(c) \/ HeartCleans(c)
    PROVE  LinkInv'
  <1>1. PICK by \in Threads :
            /\ StartCleanup(by)
            /\ by[1] = "supervisor" => supervisor \in {"clean", "abort"}
            /\ by[1] = "receiver" =>
                   by[2] \in Conns /\ receivers[by[2]].pc = "ending"
            /\ by[1] = "heart" => by[2] \in Conns /\ hearts[by[2]].pc = "ending"
    <2>1. 0 \in 0..MaxConns /\ Conns \subseteq 0..MaxConns
      BY BoundsAre DEF Conns
    <2>2. CASE SupervisorCleans
      <3>1. <<"supervisor", 0>> \in Threads
        BY <2>1 DEF Threads
      <3> QED  BY <2>2, <3>1 DEF SupervisorCleans
    <2>3. ASSUME NEW c \in Conns, ReceiverCleans(c)
          PROVE  <<"receiver", c>> \in Threads
      BY <2>1 DEF Threads
    <2>4. ASSUME NEW c \in Conns, HeartCleans(c)
          PROVE  <<"heart", c>> \in Threads
      BY <2>1 DEF Threads
    <2> QED  BY <2>2, <2>3, <2>4 DEF ReceiverCleans, HeartCleans
  <1>2. LinkType' /\ FieldType' /\ Unstarted'
    BY <1>1
    DEF StartCleanup, LinkInv, LinkType, FieldType, Unstarted, links, history
  <1>3. ThreadType' /\ InCleanup'
    BY <1>1 DEF StartCleanup, LinkInv, ThreadType, InCleanup
  <1> QED  BY <1>2, <1>3 DEF LinkInv

LEMMA CleanType ==
    ASSUME LinkInv, Clean
    PROVE  LinkInv'
  <1>1. CASE StopHeartbeat
    <2>1. /\ hearts' \in [Conns -> Heart]
          /\ \A c \in Conns : hearts[c].pc \in {"none", "ending"}
                              => hearts'[c].pc = hearts[c].pc
      BY <1>1 DEF StopHeartbeat, LinkInv, ThreadType, Heart
    <2>2. heartbeat' = 0 /\ 0 \in 0..socket /\ (supervisor # "dial" => socket # 0)
      BY <1>1, BoundsAre DEF StopHeartbeat, LinkInv, FieldType, Conns
    <2>3. /\ monitor'.by = monitor.by
          /\ monitor' \in [by : Threads, at : {"heart", "close", "join"}] \cup {Free}
      BY <1>1 DEF StopHeartbeat, LinkInv, ThreadType, Free
    <2>4. LinkType' /\ FieldType'
      BY <1>1, <2>2
      DEF StopHeartbeat, LinkInv, LinkType, FieldType, links, history
    <2>5. ThreadType' /\ InCleanup'
      BY <1>1, <2>1, <2>3 DEF StopHeartbeat, LinkInv, ThreadType, InCleanup
    <2>6. Unstarted'
      BY <1>1, <2>1, <2>2 DEF StopHeartbeat, LinkInv, Unstarted, FieldType
    <2> QED  BY <2>4, <2>5, <2>6 DEF LinkInv
  <1>2. CASE CloseSocket
    <2>1. sockets' \in [Conns -> Socket]
      BY <1>2 DEF CloseSocket, LinkInv, LinkType, Socket
    <2>2. /\ monitor'.by = monitor.by
          /\ monitor' \in [by : Threads, at : {"heart", "close", "join"}] \cup {Free}
      BY <1>2 DEF CloseSocket, LinkInv, ThreadType, Free
    <2>3. LinkType' /\ FieldType'
      BY <1>2, <2>1, LinkKept, FieldKept
      DEF CloseSocket, LinkInv, LinkType, history
    <2>4. ThreadType' /\ InCleanup' /\ Unstarted'
      BY <1>2, <2>2
      DEF CloseSocket, LinkInv, ThreadType, InCleanup, Unstarted, fields
    <2> QED  BY <2>3, <2>4 DEF LinkInv
  <1>3. CASE EndCleanup
    <2> DEFINE who == monitor.by[1]
               c   == monitor.by[2]
    <2>1. /\ monitor' = Free /\ UNCHANGED <<links, fields, queue, history>>
          /\ supervisor' = IF who # "supervisor" THEN supervisor
                           ELSE IF supervisor = "clean" THEN "dial"
                           ELSE AfterFailure
          /\ receivers' = IF who = "receiver"
                          THEN [receivers EXCEPT ![c].pc = "done"]
                          ELSE receivers
          /\ hearts' = IF who = "heart"
                       THEN [hearts EXCEPT ![c].pc =
                                 IF hearts[c].shut THEN "off" ELSE "beating"]
                       ELSE hearts
      BY <1>3 DEF EndCleanup
    <2>2. /\ who = "receiver" => c \in Conns /\ receivers[c].pc = "ending"
          /\ who = "heart" => c \in Conns /\ hearts[c].pc = "ending"
          /\ who = "supervisor" => supervisor \in {"clean", "abort"}
      BY DEF LinkInv, InCleanup
    <2> HIDE DEF who, c
    <2>3. receivers' \in [Conns -> Receiver] /\ hearts' \in [Conns -> Heart]
      BY <2>1, <2>2 DEF LinkInv, ThreadType, Receiver, Heart
    <2>4. /\ \A b \in Conns : receivers[b].pc = "none" => receivers'[b] = receivers[b]
          /\ \A b \in Conns : hearts[b].pc \in {"none", "made"} => hearts'[b] = hearts[b]
      BY <2>1, <2>2 DEF LinkInv, ThreadType
    <2>5. \/ supervisor' = supervisor
          \/ supervisor' \in {"dial", "poll", "gone"} /\ supervisor # "dial"
      BY <2>1, <2>2 DEF AfterFailure
    <2>6. LinkType' /\ FieldType'
      BY <2>1, <2>5
      DEF LinkInv, LinkType, FieldType, links, fields, history
    <2>7. ThreadType' /\ InCleanup'
      BY <2>1, <2>3, <2>5
      DEF LinkInv, ThreadType, InCleanup, Supervisors, Free
    <2>8. Unstarted'
      <3>1. supervisor # "dial" => socket \in Conns
        BY DEF LinkInv, FieldType
      <3> QED  BY <2>1, <2>4, <2>5, <3>1 DEF LinkInv, Unstarted, fields
    <2> QED  BY <2>6, <2>7, <2>8 DEF LinkInv
  <1> QED  BY <1>1, <1>2, <1>3 DEF Clean

\* The coordinator and the network leave the node alone.
LEMMA CoordinatorType ==
    ASSUME LinkInv,
           Faults \/ \E c \in Conns : Coordinate(c)
    PROVE  LinkInv' /\ UNCHANGED <<fields, threads, queue, proof, timedOut>>
  <1>1. UNCHANGED <<fields, threads, queue, proof, timedOut>>
    BY DEF Faults, Coordinate, DropLink, CoordinatorRestart,
       AcceptAuth, SendAnswer,
           history
  <1>2. faults' \in 0..MaxFaults
    BY FaultCounts
    DEF Faults, Coordinate, DropLink, CoordinatorRestart, AcceptAuth,
        SendAnswer,
        history, LinkInv, LinkType
  <1>3. registered' \in 0..MaxConns
    <2>1. 0 \in 0..MaxConns /\ Conns \subseteq 0..MaxConns
      BY BoundsAre DEF Conns
    <2> QED
      BY <2>1
      DEF Faults, Coordinate, DropLink, CoordinatorRestart,
          AcceptAuth,
          SendAnswer, LinkInv, LinkType
  <1>4. sockets' \in [Conns -> Socket]
    <2>1. ASSUME NEW c \in Conns, AcceptAuth(c)
          PROVE  sockets' \in [Conns -> Socket]
      BY <2>1 DEF AcceptAuth, LinkInv, LinkType, Socket
    <2>2. ASSUME NEW c \in Conns, SendAnswer(c)
          PROVE  sockets' \in [Conns -> Socket]
      <3>1. Whole(c) \in BOOLEAN
        BY WholeIsBoolean DEF LinkInv
      <3> QED  BY <2>2, <3>1 DEF SendAnswer, LinkInv, LinkType, Socket
    <2>3. ASSUME NEW c \in Conns, NEW how \in {"closed", "silent"},
                 DropLink(c, how)
          PROVE  sockets' \in [Conns -> Socket]
      <3>1. sockets' = [sockets EXCEPT ![c] =
                            [sockets[c] EXCEPT !.peer = how, !.answer = FALSE]]
        BY <2>3 DEF DropLink, LinkInv, LinkType
      <3>2. [sockets[c] EXCEPT !.peer = how, !.answer = FALSE] \in Socket
        BY DEF LinkInv, LinkType, Socket
      <3> QED  BY <3>1, <3>2 DEF LinkInv, LinkType
    <2>4. CASE CoordinatorRestart
      BY <2>4 DEF CoordinatorRestart, LinkInv, LinkType, Socket
    <2> QED  BY <2>1, <2>2, <2>3, <2>4 DEF Faults, Coordinate
  <1>5. LinkType' /\ FieldType'
    BY <1>1, <1>2, <1>3, <1>4 DEF LinkInv, LinkType, FieldType, fields, threads
  <1>6. ThreadType' /\ InCleanup' /\ Unstarted'
    BY <1>1 DEF LinkInv, ThreadType, InCleanup, Unstarted, fields, threads
  <1> QED  BY <1>1, <1>5, <1>6 DEF LinkInv

LEMMA NextType ==
    ASSUME LinkInv, [LinkNext]_linkVars
    PROVE  LinkInv'
  <1>1. CASE UNCHANGED linkVars
    BY <1>1
    DEF linkVars, links, fields, threads, history, LinkInv, LinkType,
        FieldType,
        ThreadType, InCleanup, Unstarted
  <1> QED
    BY <1>1, DialType, SuperviseType, ReceiveType, BeatType, StartCleanupType,
       CleanType, CoordinatorType
    DEF LinkNext, Supervise, Receive, Beat

\* Every variable keeps its type, however the threads of old connections run
\* into a new one.
THEOREM LinkTypeCorrect == LinkSpec => []LinkTypeOK
  BY InitType, NextType, LinkParts, PTL DEF LinkSpec

----
(***************************************************************************)
(* The heartbeats.  The field is empty from a cleanup() of the supervisor  *)
(* to the next heartbeat: what other threads' cleanups do in between can   *)
(* only empty it again.                                                    *)
(***************************************************************************)

HeartInv ==
    /\ NoHeartIsLost
    /\ supervisor \in {"dial", "connect", "start", "auth", "await", "make",
                       "abort"}
           => heartbeat = 0
    /\ monitor.by[1] = "supervisor" /\ monitor.at \in {"close", "join"}
           => heartbeat = 0

LEMMA InitHeart == LinkInit => HeartInv
  BY DEF LinkInit, HeartInv, NoHeartIsLost, Free

LEMMA NextHeart ==
    ASSUME LinkInv, HeartInv, [LinkNext]_linkVars
    PROVE  HeartInv'
  <1>0. /\ hearts \in [Conns -> Heart] /\ heartbeat \in Nat /\ 0 \notin Conns
        /\ supervisor # "dial" => socket \in Conns
    BY BoundsAre DEF LinkInv, ThreadType, FieldType, Conns
  \* Steps that leave the heartbeats and the monitor alone.
  <1>1. ASSUME UNCHANGED <<heartbeat, hearts, monitor>>,
               \/ supervisor' = supervisor
               \/ /\ supervisor \in {"dial", "connect", "start", "auth", "await"}
                  /\ supervisor' \in {"connect", "start", "auth", "await", "make",
                                      "abort"}
               \/ supervisor' \in {"poll", "gone", "clean"}
        PROVE  HeartInv'
    BY <1>1 DEF HeartInv, NoHeartIsLost
  <1>2. CASE \/ Dial \/ Connect \/ ConnectFails \/ StartReceiver \/ NoStreams
             \/ SendAuth \/ AuthFails \/ TakeAnswer \/ AwaitTimesOut
             \/ ScheduleFails \/ FindLinkDown
    BY <1>1, <1>2
    DEF Dial, Connect, ConnectFails, StartReceiver, NoStreams,
        SendAuth,
        AuthFails, TakeAnswer, AwaitTimesOut, ScheduleFails,
        FindLinkDown,
        AfterFailure, Goes, fields
  <1>3. CASE MakeHeartbeat
    <2>1. /\ supervisor = "make" /\ heartbeat = 0 /\ socket \in Conns
          /\ heartbeat' = socket /\ supervisor' = "schedule" /\ monitor' = monitor
          /\ hearts' = [hearts EXCEPT ![socket].pc = "made"]
      BY <1>0, <1>3 DEF MakeHeartbeat, HeartInv, Goes
    <2>2. \A c \in Conns : c # socket => hearts'[c] = hearts[c]
      BY <1>0, <2>1
    <2>3. NoHeartIsLost'
      BY <1>0, <2>1, <2>2 DEF HeartInv, NoHeartIsLost
    <2>4. monitor.by[1] # "supervisor"
      BY <2>1 DEF LinkInv, InCleanup
    <2> QED  BY <2>1, <2>3, <2>4 DEF HeartInv
  <1>4. CASE ScheduleHeartbeat
    <2>1. /\ supervisor = "schedule" /\ heartbeat = socket /\ socket \in Conns
          /\ heartbeat' = heartbeat /\ supervisor' = "poll" /\ monitor' = monitor
          /\ \A c \in Conns : c # socket => hearts'[c] = hearts[c]
      BY <1>0, <1>4 DEF ScheduleHeartbeat, Goes, fields
    <2> QED  BY <2>1 DEF HeartInv, NoHeartIsLost
  \* A heartbeat that goes on beats no more once it is shut down.
  <1>5. ASSUME NEW c \in Conns, hearts[c].pc # "none",
               \A b \in Conns : b # c => hearts'[b] = hearts[b],
               hearts'[c].shut = hearts[c].shut, UNCHANGED <<heartbeat>>
        PROVE  NoHeartIsLost'
    BY <1>5 DEF HeartInv, NoHeartIsLost
  <1>6. ASSUME NEW c \in Conns, Ping(c) \/ SendPing(c) \/ PingFails(c)
        PROVE  HeartInv'
    <2>1. /\ hearts[c].pc # "none" /\ UNCHANGED <<heartbeat, monitor, supervisor>>
          /\ \A b \in Conns : b # c => hearts'[b] = hearts[b]
          /\ hearts'[c].shut = hearts[c].shut
      BY <1>0, <1>6 DEF Ping, SendPing, PingFails, fields, Heart
    <2> QED  BY <1>5, <2>1 DEF HeartInv
  <1>7. CASE \/ SupervisorCleans
             \/ \E c \in Conns : ReceiverCleans(c) \/ HeartCleans(c)
    BY <1>7
    DEF SupervisorCleans, ReceiverCleans, HeartCleans, StartCleanup, HeartInv,
        NoHeartIsLost
  <1>8. CASE StopHeartbeat
    <2>1. /\ heartbeat' = 0 /\ UNCHANGED supervisor
          /\ \A c \in Conns : c = heartbeat => hearts'[c].shut
          /\ \A c \in Conns : c # heartbeat => hearts'[c] = hearts[c]
      BY <1>8 DEF StopHeartbeat
    <2> QED  BY <2>1 DEF HeartInv, NoHeartIsLost
  <1>9. CASE CloseSocket
    <2>1. /\ UNCHANGED <<heartbeat, hearts, supervisor>>
          /\ monitor.at = "close" /\ monitor'.by = monitor.by
      BY <1>9 DEF CloseSocket, fields, LinkInv, ThreadType, Free
    <2> QED  BY <2>1 DEF HeartInv, NoHeartIsLost
  <1>10. CASE EndCleanup
    <2> DEFINE who == monitor.by[1]
               c   == monitor.by[2]
    <2>1. /\ monitor.at = "join" /\ monitor' = Free /\ UNCHANGED heartbeat
          /\ supervisor' = IF who # "supervisor" THEN supervisor
                           ELSE IF supervisor = "clean" THEN "dial"
                           ELSE AfterFailure
          /\ hearts' = IF who = "heart"
                       THEN [hearts EXCEPT ![c].pc =
                                 IF hearts[c].shut THEN "off" ELSE "beating"]
                       ELSE hearts
      BY <1>10 DEF EndCleanup, fields
    <2>2. who = "heart" => c \in Conns /\ hearts[c].pc = "ending"
      BY DEF LinkInv, InCleanup
    <2>3. who = "supervisor" => heartbeat = 0
      BY <2>1 DEF HeartInv
    <2> HIDE DEF who, c
    <2>4. NoHeartIsLost'
      <3>1. CASE who = "heart"
        <4>1. /\ \A b \in Conns : b # c => hearts'[b] = hearts[b]
              /\ hearts'[c].shut = hearts[c].shut
          BY <1>0, <2>1, <2>2, <3>1 DEF Heart
        <4> QED  BY <1>5, <2>1, <2>2, <3>1, <4>1
      <3>2. CASE who # "heart"
        BY <2>1, <3>2 DEF HeartInv, NoHeartIsLost
      <3> QED  BY <3>1, <3>2
    <2> QED  BY <2>1, <2>3, <2>4 DEF HeartInv, AfterFailure, Free
  <1>11. CASE Faults \/ \E c \in Conns : Coordinate(c)
    BY <1>1, <1>11, CoordinatorType DEF fields, threads
  <1>12. ASSUME NEW c \in Conns, NEW d \in Conns,
                \/ Turn(c)
                \/ ReceiveAnswer(c, d) \/ ReceiveGarbage(c, d) \/ LoseLink(c, d)
         PROVE  HeartInv'
    BY <1>1, <1>12 DEF Turn, ReceiveAnswer, ReceiveGarbage, LoseLink,
       fields
  <1>13. CASE UNCHANGED linkVars
    BY <1>1, <1>13 DEF linkVars, fields, threads
  <1> QED
    BY <1>2, <1>3, <1>4, <1>6, <1>7, <1>8, <1>9, <1>10, <1>11, <1>12, <1>13
    DEF LinkNext, Supervise, Clean, Receive, Beat

\* However the cleanups of old threads run into a new connection, no heartbeat
\* is left behind where no cleanup() finds it.
THEOREM NoHeartLeftBehind == LinkSpec => []NoHeartIsLost
  <1>1. HeartInv => NoHeartIsLost
    BY DEF HeartInv
  <1> QED  BY <1>1, InitType, NextType, InitHeart, NextHeart, PTL DEF LinkSpec

----
(***************************************************************************)
(* The answers.  The coordinator answers a connection it accepted, once.   *)
(* As long as no authentication has timed out, an answer that is under way *)
(* is for the connection that waits for it; an answer that was given up    *)
(* stays in the queue for a later one.                                     *)
(***************************************************************************)

Taken == {"accepted", "answered"}

\* What the supervisor does from one cleanup() of its own to the next answer.
Dialling == {"dial", "connect", "start", "auth", "await", "abort"}

AnswersInv ==
    /\ \A d \in Conns : sockets[d].answer => sockets[d].auth = "answered"
    /\ \A k \in 1 .. Len(queue) : sockets[queue[k]].auth \in Taken
    /\ authenticated => proof \in Conns /\ sockets[proof].auth \in Taken
    /\ \A c \in Conns : c > socket => sockets[c].auth = "unsent"
    /\ supervisor \in {"connect", "start", "auth"}
           => sockets[socket].auth = "unsent"
    /\ supervisor \in Dialling => ~authenticated
    /\ monitor.by[1] = "supervisor" => ~authenticated

UnderWay(d) ==
    sockets[d].auth \in {"sent", "accepted"} \/ sockets[d].answer

TimelyInv ==
    timedOut = {} =>
        /\ \A d \in Conns : UnderWay(d) =>
               d = socket /\ supervisor = "await" /\ queue = << >>
        /\ queue # << >> => queue = << socket >> /\ supervisor = "await"
        /\ authenticated => proof = socket

LEMMA InitAnswers ==
    LinkInit => AnswersInv /\ TimelyInv
  BY BoundsAre
  DEF LinkInit, AnswersInv, TimelyInv, UnderWay, Dialling, Conns, Free

LEMMA ElementsOf == \A q \in Seq(Conns) : \A k \in 1 .. Len(q) : q[k] \in Conns
  OBVIOUS

\* Steps that answer nothing.
LEMMA AnswersQuiet ==
    ASSUME LinkInv, AnswersInv, TimelyInv,
           \A d \in Conns : /\ sockets'[d].auth = sockets[d].auth
                            /\ sockets'[d].answer => sockets[d].answer,
           UNCHANGED <<queue, proof, timedOut, socket>>,
           authenticated' => authenticated,
           monitor'.by[1] = "supervisor"
               => monitor.by[1] = "supervisor" \/ ~authenticated',
           \/ supervisor' = supervisor
           \/ /\ supervisor # "await"
              /\ supervisor' \in {"connect", "start", "auth"}
                     => supervisor \in {"connect", "start"}
              /\ supervisor' \in Dialling => supervisor \in Dialling \/ ~authenticated
    PROVE  AnswersInv' /\ TimelyInv'
  <1>1. supervisor \in {"connect", "start", "auth"} => socket \in Conns
    BY DEF LinkInv, FieldType
  <1>2. \A k \in 1 .. Len(queue) : queue[k] \in Conns
    BY ElementsOf DEF LinkInv, LinkType
  <1>3. supervisor' \in {"connect", "start", "auth"}
            => supervisor \in {"connect", "start", "auth"}
    OBVIOUS
  <1>4. AnswersInv'
    BY <1>1, <1>2, <1>3 DEF AnswersInv
  <1>5. TimelyInv'
    BY DEF TimelyInv, UnderWay
  <1> QED  BY <1>4, <1>5

LEMMA AnswersDial ==
    ASSUME LinkInv, AnswersInv, TimelyInv, Dial
    PROVE  AnswersInv' /\ TimelyInv'
  <1>1. /\ supervisor = "dial" /\ socket' = socket + 1 /\ supervisor' = "connect"
        /\ UNCHANGED <<authenticated, monitor, queue, proof, timedOut>>
        /\ socket + 1 \in Conns /\ ~authenticated
    BY BoundsAre DEF Dial, Goes, AnswersInv, Dialling, LinkInv, FieldType, Conns
  <1>2. \A d \in Conns : /\ sockets'[d].auth = sockets[d].auth
                         /\ sockets'[d].answer = sockets[d].answer
    BY <1>1 DEF Dial, LinkInv, LinkType, Socket
  <1>3. \A k \in 1 .. Len(queue) : queue[k] \in Conns
    BY ElementsOf DEF LinkInv, LinkType
  <1>4. socket + 1 > socket /\ \A c \in Conns : c > socket + 1 => c > socket
    BY <1>1 DEF LinkInv, FieldType, Conns
  <1>5. AnswersInv'
    BY <1>1, <1>2, <1>3, <1>4 DEF AnswersInv
  <1>6. TimelyInv'
    BY <1>1, <1>2 DEF TimelyInv, UnderWay
  <1> QED  BY <1>5, <1>6

LEMMA AnswersAwait ==
    ASSUME LinkInv, AnswersInv, TimelyInv, SendAuth \/ TakeAnswer \/ AwaitTimesOut
    PROVE  AnswersInv' /\ TimelyInv'
  <1>0. /\ socket \in Conns /\ socket' = socket /\ sockets \in [Conns -> Socket]
        /\ queue \in Seq(Conns) /\ monitor' = monitor
        /\ \A k \in 1 .. Len(queue) : queue[k] \in Conns
    BY ElementsOf
    DEF LinkInv, FieldType, LinkType, SendAuth, TakeAnswer, AwaitTimesOut,
        fields
  <1>1. CASE SendAuth
    <2>1. /\ supervisor = "auth" /\ supervisor' = "await"
          /\ UNCHANGED <<authenticated, queue, proof, timedOut>>
          /\ sockets[socket].auth = "unsent"
      BY <1>1 DEF SendAuth, Goes, fields, history, AnswersInv
    <2>2. /\ \A d \in Conns : sockets'[d].answer = sockets[d].answer
          /\ \A d \in Conns : d # socket => sockets'[d].auth = sockets[d].auth
          /\ sockets'[socket].auth \in {"unsent", "sent"}
      BY <1>0, <1>1, <2>1 DEF SendAuth, Socket
    <2>3. \A c \in Conns : c > socket => c # socket
      BY <1>0 DEF Conns
    <2>4. AnswersInv'
      <3>1. \A k \in 1 .. Len(queue) : queue[k] # socket
        BY <2>1 DEF AnswersInv, Taken
      <3>2. \A d \in Conns : sockets'[d].answer => d # socket
        BY <1>0, <2>1, <2>2 DEF AnswersInv
      <3> QED
        BY <1>0, <2>1, <2>2, <2>3, <3>1, <3>2 DEF AnswersInv, Taken, Dialling
    <2>5. TimelyInv'
      BY <1>0, <2>1, <2>2 DEF TimelyInv, UnderWay
    <2> QED  BY <2>4, <2>5
  <1>2. CASE TakeAnswer
    <2>1. /\ supervisor = "await" /\ queue # << >> /\ proof' = Head(queue)
          /\ queue' = Tail(queue) /\ authenticated' = TRUE /\ supervisor' = "make"
          /\ sockets' = sockets /\ timedOut' = timedOut
      BY <1>2 DEF TakeAnswer, Goes, links
    <2>2. /\ 1 \in 1 .. Len(queue) /\ Head(queue) = queue[1]
          /\ \A k \in 1 .. Len(Tail(queue)) :
                 k + 1 \in 1 .. Len(queue) /\ Tail(queue)[k] = queue[k + 1]
      BY <1>0, <2>1
    <2>3. monitor.by[1] # "supervisor"
      BY <2>1 DEF LinkInv, InCleanup
    <2>4. AnswersInv'
      BY <1>0, <2>1, <2>2, <2>3 DEF AnswersInv, Dialling
    <2>5. TimelyInv'
      <3> SUFFICES ASSUME timedOut = {} PROVE TimelyInv'
        BY <2>1 DEF TimelyInv
      <3>1. queue = << socket >> /\ \A d \in Conns : ~UnderWay(d)
        BY <2>1 DEF TimelyInv
      <3>2. Head(<< socket >>) = socket /\ Tail(<< socket >>) = << >>
        OBVIOUS
      <3> QED  BY <1>0, <2>1, <3>1, <3>2 DEF TimelyInv, UnderWay
    <2> QED  BY <2>4, <2>5
  <1>3. CASE AwaitTimesOut
    <2>1. /\ supervisor = "await" /\ supervisor' = "abort" /\ timedOut' # {}
          /\ UNCHANGED <<sockets, authenticated, queue, proof>>
      BY <1>3 DEF AwaitTimesOut, Goes, links, fields
    <2>2. TimelyInv'
      BY <2>1 DEF TimelyInv
    <2>3. AnswersInv'
      BY <1>0, <2>1 DEF AnswersInv, Dialling
    <2> QED  BY <2>2, <2>3
  <1> QED  BY <1>1, <1>2, <1>3

LEMMA AnswersReceived ==
    ASSUME LinkInv, AnswersInv, TimelyInv, NEW c \in Conns, NEW d \in Conns,
           ReceiveAnswer(c, d)
    PROVE  AnswersInv' /\ TimelyInv'
  <1>1. /\ sockets[d].answer /\ queue' = Append(queue, d)
        /\ sockets' = [sockets EXCEPT ![d].answer = FALSE]
        /\ UNCHANGED <<fields, monitor, supervisor, proof, timedOut>>
    BY DEF ReceiveAnswer, history
  <1>2. /\ sockets \in [Conns -> Socket] /\ queue \in Seq(Conns)
        /\ \A k \in 1 .. Len(queue) : queue[k] \in Conns
        /\ supervisor \in {"connect", "start", "auth"} => socket \in Conns
    BY ElementsOf DEF LinkInv, LinkType, FieldType
  <1>3. /\ \A e \in Conns : sockets'[e].auth = sockets[e].auth
        /\ \A e \in Conns : e # d => sockets'[e].answer = sockets[e].answer
        /\ ~sockets'[d].answer
    BY <1>1, <1>2 DEF Socket
  <1>4. sockets[d].auth = "answered"
    BY <1>1 DEF AnswersInv
  <1>5. /\ Len(Append(queue, d)) = Len(queue) + 1 /\ Len(queue) \in Nat
        /\ \A k \in 1 .. Len(queue) : Append(queue, d)[k] = queue[k]
        /\ Append(queue, d)[Len(queue) + 1] = d
        /\ \A k \in 1 .. Len(queue) + 1 : k \in 1 .. Len(queue) \/ k = Len(queue) + 1
    BY <1>2
  <1>6. \A k \in 1 .. Len(queue') : sockets'[queue'[k]].auth \in Taken
    BY <1>1, <1>2, <1>3, <1>4, <1>5 DEF AnswersInv, Taken
  <1>7. AnswersInv'
    BY <1>1, <1>2, <1>3, <1>4, <1>6 DEF AnswersInv, fields
  <1>8. TimelyInv'
    <2> SUFFICES ASSUME timedOut = {} PROVE TimelyInv'
      BY <1>1 DEF TimelyInv
    <2>1. d = socket /\ supervisor = "await" /\ queue = << >>
      BY <1>1 DEF TimelyInv, UnderWay
    <2>2. queue' = << socket >>
      BY <1>1, <2>1
    <2>3. \A e \in Conns : ~UnderWay(e)'
      BY <1>3, <1>4, <2>1 DEF TimelyInv, UnderWay
    <2> QED  BY <1>1, <2>1, <2>2, <2>3 DEF TimelyInv, fields
  <1> QED  BY <1>7, <1>8

\* The coordinator accepts, answers, forgets, and is cut off.
LEMMA AnswersCoordinator ==
    ASSUME LinkInv, AnswersInv, TimelyInv,
           Faults \/ \E c \in Conns : Coordinate(c)
    PROVE  AnswersInv' /\ TimelyInv'
  <1>1. UNCHANGED <<fields, monitor, supervisor, queue, proof, timedOut>>
    BY CoordinatorType DEF threads
  <1>2. /\ sockets \in [Conns -> Socket]
        /\ \A k \in 1 .. Len(queue) : queue[k] \in Conns
        /\ supervisor \in {"connect", "start", "auth"} => socket \in Conns
    BY ElementsOf DEF LinkInv, LinkType, FieldType
  <1>3. \A d \in Conns :
            /\ sockets[d].auth \in Taken => sockets'[d].auth \in Taken
            /\ sockets[d].auth = "unsent" => sockets'[d].auth = "unsent"
            /\ UnderWay(d)' => UnderWay(d)
            /\ sockets'[d].answer => sockets'[d].auth = "answered"
    <2>1. ASSUME NEW c \in Conns, AcceptAuth(c), NEW d \in Conns
          PROVE  /\ sockets[d].auth \in Taken => sockets'[d].auth \in Taken
                 /\ sockets[d].auth = "unsent" => sockets'[d].auth = "unsent"
                 /\ UnderWay(d)' => UnderWay(d)
                 /\ sockets'[d].answer => sockets'[d].auth = "answered"
      <3>1. /\ sockets'[d].answer = sockets[d].answer
            /\ d # c => sockets'[d].auth = sockets[d].auth
            /\ sockets[c].auth = "sent" /\ sockets'[c].auth = "accepted"
        BY <1>2, <2>1 DEF AcceptAuth, Socket
      <3> QED  BY <3>1 DEF Taken, UnderWay, AnswersInv
    <2>2. ASSUME NEW c \in Conns, SendAnswer(c), NEW d \in Conns
          PROVE  /\ sockets[d].auth \in Taken => sockets'[d].auth \in Taken
                 /\ sockets[d].auth = "unsent" => sockets'[d].auth = "unsent"
                 /\ UnderWay(d)' => UnderWay(d)
                 /\ sockets'[d].answer => sockets'[d].auth = "answered"
      <3>1. /\ d # c => sockets'[d] = sockets[d]
            /\ sockets[c].auth = "accepted" /\ sockets'[c].auth = "answered"
        BY <1>2, <2>2 DEF SendAnswer, Socket
      <3> QED  BY <3>1 DEF Taken, UnderWay, AnswersInv
    <2>3. ASSUME NEW c \in Conns, NEW how \in {"closed", "silent"},
                 DropLink(c, how), NEW d \in Conns
          PROVE  /\ sockets'[d].auth = sockets[d].auth
                 /\ sockets'[d].answer => sockets[d].answer
      <3>1. /\ d # c => sockets'[d] = sockets[d]
            /\ sockets'[c].auth = sockets[c].auth /\ ~sockets'[c].answer
        BY <1>2, <2>3 DEF DropLink, Socket
      <3> QED  BY <3>1
    <2>4. ASSUME CoordinatorRestart, NEW d \in Conns
          PROVE  /\ sockets'[d].answer = sockets[d].answer
                 /\ sockets[d].auth # "sent" => sockets'[d].auth = sockets[d].auth
                 /\ sockets[d].auth = "sent" => sockets'[d].auth = "lost"
      BY <1>2, <2>4 DEF CoordinatorRestart, Socket
    <2> QED
      BY <2>1, <2>2, <2>3, <2>4
      DEF Faults, Coordinate, Taken, UnderWay, AnswersInv
  <1>4. AnswersInv'
    BY <1>1, <1>2, <1>3 DEF AnswersInv, fields
  <1>5. TimelyInv'
    BY <1>1, <1>3 DEF TimelyInv, fields
  <1> QED  BY <1>4, <1>5

LEMMA NextAnswers ==
    ASSUME LinkInv, AnswersInv, TimelyInv, [LinkNext]_linkVars
    PROVE  AnswersInv' /\ TimelyInv'
  <1>0. sockets \in [Conns -> Socket]
    BY DEF LinkInv, LinkType
  <1>1. ASSUME \A d \in Conns : /\ sockets'[d].auth = sockets[d].auth
                                /\ sockets'[d].answer => sockets[d].answer,
               UNCHANGED <<queue, proof, timedOut, socket, monitor>>,
               authenticated' = authenticated,
               \/ supervisor' = supervisor
               \/ supervisor = "connect" /\ supervisor' = "start"
               \/ supervisor = "start" /\ supervisor' = "auth"
               \/ supervisor \in {"connect", "start", "auth"} /\ supervisor' = "abort"
               \/ supervisor # "await" /\ supervisor' \notin Dialling
        PROVE  AnswersInv' /\ TimelyInv'
    BY <1>1, AnswersQuiet DEF Dialling
  <1>2. CASE Connect
    <2>1. \A d \in Conns : /\ sockets'[d].auth = sockets[d].auth
                           /\ sockets'[d].answer = sockets[d].answer
      BY <1>0, <1>2 DEF Connect, Socket
    <2> QED  BY <1>1, <1>2, <2>1 DEF Connect, Goes, fields, history
  <1>3. CASE \/ ConnectFails \/ StartReceiver \/ NoStreams \/ AuthFails
             \/ MakeHeartbeat \/ ScheduleHeartbeat \/ ScheduleFails \/ FindLinkDown
    BY <1>1, <1>3
    DEF ConnectFails, StartReceiver, NoStreams, AuthFails,
        MakeHeartbeat,
        ScheduleHeartbeat, ScheduleFails, FindLinkDown, AfterFailure,
        Goes, links,
        fields, history, Dialling
  <1>4. CASE \/ \E c \in Conns :
                     \/ Turn(c) \/ Ping(c) \/ SendPing(c) \/ PingFails(c)
                     \/ \E d \in Conns : LoseLink(c, d)
             \/ StopHeartbeat \/ UNCHANGED linkVars
    <2>1. UNCHANGED <<sockets, queue, proof, timedOut, socket, authenticated,
                      supervisor>>
      BY <1>4
      DEF Turn, Ping, SendPing, PingFails, LoseLink,
          StopHeartbeat, linkVars, links,
          fields, threads, history
    <2>2. monitor'.by = monitor.by
      BY <1>4
      DEF Turn, Ping, SendPing, PingFails, LoseLink,
          StopHeartbeat, linkVars, threads,
          LinkInv, ThreadType, Free
    <2> QED  BY <2>1, <2>2, AnswersQuiet
  <1>5. ASSUME NEW c \in Conns, NEW d \in Conns, ReceiveGarbage(c, d)
        PROVE  AnswersInv' /\ TimelyInv'
    <2>1. \A e \in Conns : /\ sockets'[e].auth = sockets[e].auth
                           /\ sockets'[e].answer => sockets[e].answer
      BY <1>0, <1>5 DEF ReceiveGarbage, Socket
    <2> QED  BY <1>1, <1>5, <2>1 DEF ReceiveGarbage, fields, history
  <1>6. CASE \/ SupervisorCleans
             \/ \E c \in Conns : ReceiverCleans(c) \/ HeartCleans(c)
    <2>1. /\ ~authenticated' /\ UNCHANGED <<links, queue, proof, timedOut, socket,
                                            supervisor>>
      BY <1>6
      DEF SupervisorCleans, ReceiverCleans, HeartCleans, StartCleanup,
          history
    <2> QED  BY <2>1, AnswersQuiet DEF links
  <1>7. CASE CloseSocket
    <2>1. \A d \in Conns : /\ sockets'[d].auth = sockets[d].auth
                           /\ sockets'[d].answer = sockets[d].answer
      BY <1>0, <1>7 DEF CloseSocket, Socket
    <2>2. /\ monitor'.by = monitor.by
          /\ UNCHANGED <<queue, proof, timedOut, socket, authenticated, supervisor>>
      BY <1>7 DEF CloseSocket, LinkInv, ThreadType, Free, fields, history
    <2> QED  BY <2>1, <2>2, AnswersQuiet
  <1>8. CASE EndCleanup
    <2>1. /\ UNCHANGED <<sockets, queue, proof, timedOut, socket, authenticated>>
          /\ monitor'.by[1] # "supervisor"
          /\ \/ supervisor' = supervisor
             \/ /\ monitor.by[1] = "supervisor"
                /\ supervisor' \in {"dial", "poll", "gone"}
      BY <1>8 DEF EndCleanup, AfterFailure, Free, links, fields,
         history
    <2>2. monitor.by[1] = "supervisor" =>
              ~authenticated /\ supervisor \in {"clean", "abort"}
      BY DEF AnswersInv, LinkInv, InCleanup
    <2> QED  BY <2>1, <2>2, AnswersQuiet
  <1> QED
    BY <1>2, <1>3, <1>4, <1>5, <1>6, <1>7, <1>8, AnswersDial, AnswersAwait,
       AnswersReceived, AnswersCoordinator
    DEF LinkNext, Supervise, Clean, Receive, Beat

\* A node that takes itself for connected has the coordinator's answer to this
\* connection; or to an earlier one, once an authentication has timed out.
THEOREM LinksAreGenuine == LinkSpec => []LinkIsGenuine
  <1>1. AnswersInv /\ TimelyInv => LinkIsGenuine
    BY DEF AnswersInv, TimelyInv, LinkIsGenuine, IsConnected, Taken
  <1> QED  BY <1>1, InitType, NextType, InitAnswers, NextAnswers, PTL DEF LinkSpec

====
