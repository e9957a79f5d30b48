---- MODULE ShareTokens_proofs ----
(***************************************************************************)
(* Proofs about ShareTokens, for every number of requests and tokens and   *)
(* whatever each token allows.                                             *)
(***************************************************************************)
EXTENDS ShareTokens, FiniteSetTheorems, TLAPS

----
(***************************************************************************)
(* Type correctness.  It needs to know what a request has got so far: a    *)
(* refund lowers the count of a token that was made.                       *)
(***************************************************************************)

RequestFits(r) ==
    /\ At(r, "new") => Token(r) = None
    /\ requests[r].pc \in {"new", "why", "file", "node", "ticket"}
       => requests[r].answer = None
    /\ At(r, "refund") => requests[r].answer \in Refusals
    /\ requests[r].pc \in {"why", "refund"} => Token(r) # None
    /\ Token(r) # None => count[Token(r)] # None
    /\ r \in burned => At(r, "done") /\ Token(r) # None

TypeInv == TypeOK /\ \A r \in Requests : RequestFits(r)

\* What becomes of a ticket in Redis is nobody's request.
TicketStep(r) == TicketGrowsLate(r) \/ DropTicket(r) \/ VerifyTicket(r)

LEMMA TicketsAlone ==
    ASSUME NEW r \in Requests, TicketStep(r)
    PROVE  UNCHANGED <<count, expired, requests, burned, overtaken>>
  BY DEF TicketStep, TicketGrowsLate, DropTicket, VerifyTicket

LEMMA InitType == Init => TypeInv
  BY DEF Init, TypeInv, TypeOK, Request, RequestFits, At, Token

\* A request that changes alone leaves the others as they are.
LEMMA OthersFit ==
    ASSUME TypeInv, NEW r \in Requests,
           \A q \in Requests \ {r} : requests'[q] = requests[q],
           \A q \in Requests \ {r} : q \in burned' => q \in burned,
           \A t \in Tokens : count[t] # None => count'[t] # None,
           TypeOK', RequestFits(r)'
    PROVE  TypeInv'
  <1>1. ASSUME NEW q \in Requests \ {r} PROVE RequestFits(q)'
    <2>1. requests'[q] = requests[q] /\ RequestFits(q)
      BY DEF TypeInv
    <2>2. Token(q) # None => Token(q) \in Tokens
      BY DEF TypeInv, TypeOK, Request, Token
    <2> QED  BY <2>1, <2>2 DEF RequestFits, At, Token
  <1> QED  BY <1>1 DEF TypeInv

\* The count at a refund.
LEMMA RefundedCount ==
    ASSUME TypeInv, NEW r \in Requests, Refund(r)
    PROVE  /\ Token(r) \in Tokens /\ count[Token(r)] \in Nat
           /\ count' \in [Tokens -> Nat \cup {None}]
           /\ count' = [count EXCEPT ![Token(r)] =
                  IF count[Token(r)] > 0 THEN count[Token(r)] - 1
                  ELSE count[Token(r)]]
  <1>1. Token(r) \in Tokens /\ count[Token(r)] # None
    BY DEF Refund, TypeInv, TypeOK, Request, RequestFits, At, Token
  <1>2. count[Token(r)] \in Nat
    BY <1>1 DEF TypeInv, TypeOK
  <1>3. count' = [count EXCEPT ![Token(r)] =
                  IF count[Token(r)] > 0 THEN count[Token(r)] - 1
                  ELSE count[Token(r)]]
    BY DEF Refund
  <1>4. count' \in [Tokens -> Nat \cup {None}]
    BY <1>1, <1>2, <1>3 DEF TypeInv, TypeOK
  <1> QED  BY <1>1, <1>2, <1>3, <1>4

LEMMA StepType ==
    ASSUME TypeInv, NEW r \in Requests, Step(r)
    PROVE  TypeInv'
  <1> USE DEF TypeOK, Request, At, Token
  <1>0. TypeOK /\ RequestFits(r)
    BY DEF TypeInv
  <1>1. CASE InitDownloadDirect(r)
    <2>1. TypeOK' /\ RequestFits(r)'
      BY <1>0, <1>1 DEF InitDownloadDirect, Begin, RequestFits
    <2> QED  BY <1>1, <2>1, OthersFit DEF InitDownloadDirect, Begin
  <1>2. ASSUME NEW t \in Tokens, Consume(r, t) \/ ConsumeUnanswered(r, t)
        PROVE  TypeInv'
    <2>1. count[t] \in Nat
      BY <1>0, <1>2 DEF Consume, ConsumeUnanswered, Usable
    <2>2. /\ count' \in [Tokens -> Nat \cup {None}]
          /\ count'[t] # None
          /\ \A u \in Tokens : count[u] # None => count'[u] # None
      BY <1>0, <1>2, <2>1, NoneAssumption DEF Consume, ConsumeUnanswered
    <2>3. /\ requests' \in [Requests -> Request] /\ burned' \subseteq Requests
          /\ requests'[r].token = t /\ requests'[r].pc \in {"file", "done"}
          /\ requests'[r].pc = "file" => requests'[r].answer = None
          /\ \A q \in Requests \ {r} : requests'[q] = requests[q]
          /\ \A q \in Requests \ {r} : q \in burned' => q \in burned
          /\ r \in burned' => requests'[r].pc = "done"
      BY <1>0, <1>2
      DEF Consume, ConsumeUnanswered, Begin, RequestFits, Answers, Refusals
    <2>4. TypeOK'
      BY <1>0, <1>2, <2>2, <2>3 DEF Consume, ConsumeUnanswered
    <2>5. RequestFits(r)'
      BY <2>2, <2>3, NoneAssumption DEF RequestFits
    <2> QED  BY <2>2, <2>3, <2>4, <2>5, OthersFit
  <1>3. ASSUME NEW t \in Tokens, FindNoUse(r, t)
        PROVE  TypeInv'
    <2>1. TypeOK' /\ RequestFits(r)'
      BY <1>0, <1>3, NoneAssumption DEF FindNoUse, Begin, RequestFits
    <2> QED  BY <1>3, <2>1, OthersFit DEF FindNoUse, Begin
  <1>4. CASE RefuseInput(r) \/ UnknownToken(r) \/ TellWhy(r) \/ NothingTaken(r)
    <2>1. PICK a \in Answers : Tell(r, a)
      BY <1>4 DEF RefuseInput, UnknownToken, TellWhy, NothingTaken, Answers,
                  Refusals
    <2>2. UNCHANGED <<count, expired, tickets, burned, overtaken>>
      BY <1>4 DEF RefuseInput, UnknownToken, TellWhy, NothingTaken
    <2>3. TypeOK'
      BY <1>0, <2>1, <2>2 DEF Tell
    <2>4. RequestFits(r)'
      BY <1>0, <2>1, <2>2 DEF Tell, RequestFits
    <2> QED  BY <2>1, <2>2, <2>3, <2>4, OthersFit DEF Tell
  <1>5. CASE FindFile(r) \/ ResolveNode(r)
    <2>1. TypeOK' /\ RequestFits(r)'
      BY <1>0, <1>5 DEF FindFile, ResolveNode, Goto, RequestFits
    <2> QED  BY <1>5, <2>1, OthersFit DEF FindFile, ResolveNode, Goto
  <1>6. CASE \/ RefuseFile(r) \/ RefuseNode(r) \/ Fail(r)
             \/ SetTicketUnanswered(r)
    <2>1. PICK a \in Refusals : GiveUp(r, a)
      BY <1>6 DEF RefuseFile, RefuseNode, Fail, SetTicketUnanswered, Refusals
    <2>2. /\ UNCHANGED <<count, expired, burned, overtaken>>
          /\ tickets' \in [Requests -> {"none", "valid", "late"}]
      BY <1>0, <1>6
      DEF RefuseFile, RefuseNode, Fail, SetTicketUnanswered, StoreTicket
    <2>3. TypeOK'
      BY <1>0, <2>1, <2>2 DEF GiveUp, Tell, Answers
    <2>4. RequestFits(r)'
      <3>1. r \notin burned
        BY <1>0, <1>6
        DEF RequestFits, RefuseFile, RefuseNode, Fail, SetTicketUnanswered
      <3> QED  BY <1>0, <2>1, <2>2, <3>1 DEF GiveUp, Tell, RequestFits
    <2> QED  BY <2>1, <2>2, <2>3, <2>4, OthersFit DEF GiveUp, Tell
  <1>7. CASE SetTicket(r)
    <2>1. TypeOK' /\ RequestFits(r)'
      BY <1>0, <1>7 DEF SetTicket, StoreTicket, Tell, RequestFits, Answers
    <2> QED  BY <1>7, <2>1, OthersFit DEF SetTicket, Tell
  <1>8. CASE Refund(r)
    <2>1. /\ count' \in [Tokens -> Nat \cup {None}]
          /\ \A u \in Tokens : count[u] # None => count'[u] # None
      BY <1>0, <1>8, RefundedCount, NoneAssumption
    <2>2. TypeOK'
      BY <1>0, <1>8, <2>1 DEF Refund, Goto
    <2>3. RequestFits(r)'
      BY <1>0, <1>8, <2>1 DEF Refund, Goto, RequestFits
    <2> QED  BY <1>8, <2>1, <2>2, <2>3, OthersFit DEF Refund, Goto
  <1>9. CASE RefundFails(r)
    <2>1. TypeOK' /\ RequestFits(r)'
      BY <1>0, <1>9 DEF RefundFails, Goto, RequestFits
    <2> QED  BY <1>9, <2>1, OthersFit DEF RefundFails, Goto
  <1> QED
    BY <1>1, <1>2, <1>3, <1>4, <1>5, <1>6, <1>7, <1>8, <1>9 DEF Step

LEMMA NextType == TypeInv /\ [Next]_vars => TypeInv'
  <1> SUFFICES ASSUME TypeInv, [Next]_vars PROVE TypeInv'
    OBVIOUS
  <1> USE DEF TypeInv, TypeOK, Request, RequestFits, At, Token
  <1>1. ASSUME NEW t \in Tokens, CreateShareToken(t) \/ Expire(t)
        PROVE  TypeInv'
    BY <1>1, NoneAssumption DEF CreateShareToken, Expire
  <1>2. ASSUME NEW r \in Requests, Step(r)
        PROVE  TypeInv'
    BY <1>2, StepType
  <1>3. CASE CoordinatorRestart
    <2>1. TypeOK'
      BY <1>3 DEF CoordinatorRestart, UnderWay, Answers
    <2>2. ASSUME NEW r \in Requests PROVE RequestFits(r)'
      BY <1>3 DEF CoordinatorRestart, UnderWay, Holding
    <2> QED  BY <2>1, <2>2
  <1>4. CASE UNCHANGED vars
    BY <1>4 DEF vars
  <1>5. ASSUME NEW r \in Requests, TicketStep(r)
        PROVE  TypeInv'
    <2>1. tickets' \in [Requests -> {"none", "valid", "late"}]
      BY <1>5 DEF TicketStep, TicketGrowsLate, DropTicket, VerifyTicket,
                  FindLate, DeleteTicket
    <2> QED  BY <1>5, <2>1, TicketsAlone
  <1> QED  BY <1>1, <1>2, <1>3, <1>4, <1>5 DEF Next, TicketStep

\* Every variable keeps its type, whatever requests run at the same time.
THEOREM TypeCorrect == Spec => []TypeOK
  <1>1. TypeInv => TypeOK
    BY DEF TypeInv
  <1> QED  BY <1>1, InitType, NextType, PTL DEF Spec

----
(***************************************************************************)
(* The uses of a token.  A step of one request changes at most whether     *)
(* that request is among them.                                             *)
(***************************************************************************)

UsesInv == TypeInv /\ UsesAreAccounted

LEMMA InitUses == Init => UsesInv
  <1> SUFFICES ASSUME Init PROVE UsesInv
    OBVIOUS
  <1>1. \A t \in Tokens : count[t] = None
    BY DEF Init
  <1> QED  BY <1>1, InitType DEF UsesInv, UsesAreAccounted

LEMMA UsesFinite == ASSUME NEW t PROVE IsFiniteSet(Uses(t))
  BY RequestsAssumption, FS_Subset DEF Uses

LEMMA UsesUnchanged ==
    ASSUME UsesInv, UNCHANGED count,
           \A r \in Requests, t \in Tokens : InUse(r, t)' <=> InUse(r, t)
    PROVE  UsesAreAccounted'
  <1>1. ASSUME NEW t \in Tokens PROVE Uses(t)' = Uses(t)
    BY DEF Uses
  <1> QED  BY <1>1 DEF UsesInv, UsesAreAccounted

\* A request that changes alone changes no other one's use.
LEMMA OthersUse ==
    ASSUME NEW r \in Requests,
           \A q \in Requests \ {r} : /\ requests'[q] = requests[q]
                                     /\ q \in burned' <=> q \in burned
    PROVE  \A q \in Requests \ {r}, u \in Tokens :
               InUse(q, u)' <=> InUse(q, u)
  <1> TAKE q \in Requests \ {r}, u \in Tokens
  <1>1. requests'[q] = requests[q] /\ (q \in burned' <=> q \in burned)
    OBVIOUS
  <1> QED  BY <1>1 DEF InUse, Holding, Delivered, Token

\* It remains to say what becomes of the one token it is about.
LEMMA OneTokenChanges ==
    ASSUME UsesInv, NEW t \in Tokens, NEW n, count' = [count EXCEPT ![t] = n],
           n = Cardinality(Uses(t)'), n <= MaxDownloads[t],
           \A u \in Tokens \ {t} : Uses(u)' = Uses(u)
    PROVE  UsesAreAccounted'
  <1>1. TypeOK
    BY DEF UsesInv, TypeInv
  <1>2. ASSUME NEW u \in Tokens, count'[u] # None
        PROVE  count'[u] = Cardinality(Uses(u)') /\ count'[u] <= MaxDownloads[u]
    <2>1. CASE u = t
      BY <1>1, <2>1 DEF TypeOK
    <2>2. CASE u # t
      <3>1. count'[u] = count[u] /\ Uses(u)' = Uses(u)
        BY <1>1, <2>2 DEF TypeOK
      <3> QED  BY <1>2, <3>1 DEF UsesInv, UsesAreAccounted
    <2> QED  BY <2>1, <2>2
  <1> QED  BY <1>2 DEF UsesAreAccounted

LEMMA UseTaken ==
    ASSUME UsesInv, NEW r \in Requests, NEW t \in Tokens,
           Consume(r, t) \/ ConsumeUnanswered(r, t)
    PROVE  UsesAreAccounted'
  <1> USE DEF At, Token
  <1>1. /\ TypeOK /\ At(r, "new") /\ Usable(t)
        /\ count' = [count EXCEPT ![t] = count[t] + 1]
        /\ Token(r) = None /\ r \notin burned
    BY DEF UsesInv, TypeInv, RequestFits, Consume, ConsumeUnanswered
  <1>2. /\ requests'[r].token = t
        /\ \/ requests'[r].pc = "file"
           \/ r \in burned'
        /\ \A q \in Requests \ {r} : /\ requests'[q] = requests[q]
                                     /\ q \in burned' <=> q \in burned
    BY <1>1 DEF Consume, ConsumeUnanswered, Begin, TypeOK, Request
  <1>3. Uses(t)' = Uses(t) \cup {r} /\ r \notin Uses(t)
    <2>1. InUse(r, t)' /\ ~InUse(r, t)
      BY <1>1, <1>2, NoneAssumption DEF InUse, Holding, Delivered
    <2> QED  BY <1>2, <2>1, OthersUse DEF Uses
  <1>4. ASSUME NEW u \in Tokens \ {t}
        PROVE  Uses(u)' = Uses(u)
    <2>1. ~InUse(r, u)' /\ ~InUse(r, u)
      BY <1>1, <1>2, NoneAssumption DEF InUse
    <2> QED  BY <1>2, <2>1, OthersUse DEF Uses
  <1>5. Cardinality(Uses(t)') = Cardinality(Uses(t)) + 1
    BY <1>3, UsesFinite, FS_AddElement
  <1>6. count[t] \in Nat /\ MaxDownloads[t] \in Int
    BY <1>1, MaxDownloadsAssumption DEF TypeOK, Usable
  <1>7. count'[t] = Cardinality(Uses(t)') /\ count'[t] <= MaxDownloads[t]
    BY <1>1, <1>5, <1>6 DEF UsesInv, UsesAreAccounted, Usable, TypeOK
  <1> QED  BY <1>1, <1>4, <1>7, OneTokenChanges DEF TypeOK

LEMMA UseGivenBack ==
    ASSUME UsesInv, NEW r \in Requests, Refund(r)
    PROVE  UsesAreAccounted'
  <1> USE DEF At, Token
  <1>0. TypeInv /\ TypeOK /\ RequestFits(r)
    BY DEF UsesInv, TypeInv
  <1>1. PICK t \in Tokens :
            /\ Token(r) = t /\ count[t] \in Nat
            /\ count' = [count EXCEPT ![t] = IF count[t] > 0 THEN count[t] - 1
                                             ELSE count[t]]
    BY <1>0, RefundedCount
  <1>2. /\ At(r, "refund") /\ r \notin burned /\ UNCHANGED burned
        /\ requests[r].answer # "PLAN"
    BY <1>0 DEF Refund, RequestFits, Refusals
  <1>3. /\ requests'[r].token = t /\ requests'[r].pc = "done"
        /\ requests'[r].answer = requests[r].answer
        /\ \A q \in Requests \ {r} : requests'[q] = requests[q]
    BY <1>0, <1>1 DEF Refund, Goto, TypeOK, Request
  <1>4. Uses(t)' = Uses(t) \ {r} /\ r \in Uses(t)
    <2>1. InUse(r, t)
      BY <1>1, <1>2, NoneAssumption DEF InUse, Holding
    <2>2. ~InUse(r, t)'
      BY <1>2, <1>3 DEF InUse, Holding, Delivered
    <2> QED  BY <1>2, <1>3, <2>1, <2>2, OthersUse DEF Uses
  <1>5. ASSUME NEW u \in Tokens \ {t}
        PROVE  Uses(u)' = Uses(u)
    <2>1. ~InUse(r, u)' /\ ~InUse(r, u)
      BY <1>1, <1>3 DEF InUse
    <2> QED  BY <1>2, <1>3, <2>1, OthersUse DEF Uses
  <1>6. Cardinality(Uses(t)') = Cardinality(Uses(t)) - 1
    BY <1>4, UsesFinite, FS_RemoveElement
  <1>7. count[t] = Cardinality(Uses(t)) /\ count[t] <= MaxDownloads[t]
    BY <1>1, NoneAssumption DEF UsesInv, UsesAreAccounted
  <1>8. Cardinality(Uses(t)) # 0
    BY <1>4, UsesFinite, FS_EmptySet
  <1>9. MaxDownloads[t] \in Int /\ count[t] > 0
    BY <1>0, <1>1, <1>7, <1>8, MaxDownloadsAssumption
  <1> DEFINE n == count[t] - 1
  <1>10. count' = [count EXCEPT ![t] = n]
    BY <1>1, <1>9
  <1>11. n = Cardinality(Uses(t)') /\ n <= MaxDownloads[t]
    BY <1>1, <1>6, <1>7, <1>9
  <1> HIDE DEF n
  <1> QED  BY <1>1, <1>5, <1>10, <1>11, OneTokenChanges

LEMMA NextUses == UsesInv /\ [Next]_vars => UsesInv'
  <1> SUFFICES ASSUME UsesInv, [Next]_vars PROVE UsesAreAccounted'
    BY NextType DEF UsesInv
  <1> USE DEF At, Token
  <1>0. TypeInv /\ TypeOK
    BY DEF UsesInv, TypeInv
  <1>1. ASSUME NEW t \in Tokens, CreateShareToken(t)
        PROVE  UsesAreAccounted'
    <2>1. \A u \in Tokens : Uses(u)' = Uses(u)
      BY <1>1 DEF CreateShareToken, Uses, InUse, Holding, Delivered
    <2>2. Uses(t) = {}
      BY <1>0, <1>1, NoneAssumption
      DEF CreateShareToken, TypeInv, RequestFits, Uses, InUse
    <2>3. Cardinality(Uses(t)') = 0
      BY <2>1, <2>2, FS_EmptySet
    <2>4. 0 <= MaxDownloads[t]
      <3> DEFINE limit == MaxDownloads[t]
      <3>1. limit \in 1 .. 10000
        BY <1>1 DEF CreateShareToken, Admitted
      <3> HIDE DEF limit
      <3>2. 0 <= limit
        BY <3>1
      <3> QED  BY <3>2 DEF limit
    <2> QED  BY <1>1, <2>1, <2>3, <2>4, OneTokenChanges DEF CreateShareToken
  <1>2. ASSUME NEW t \in Tokens, Expire(t)
        PROVE  UsesAreAccounted'
    BY <1>2, UsesUnchanged DEF Expire, InUse, Holding, Delivered
  <1>3. ASSUME NEW r \in Requests, Step(r)
        PROVE  UsesAreAccounted'
    <2>1. CASE \E t \in Tokens : Consume(r, t) \/ ConsumeUnanswered(r, t)
      BY <2>1, UseTaken
    <2>2. CASE Refund(r)
      BY <2>2, UseGivenBack
    <2>3. CASE /\ UNCHANGED count
               /\ \A q \in Requests \ {r} : /\ requests'[q] = requests[q]
                                            /\ q \in burned' <=> q \in burned
               /\ \A u \in Tokens : InUse(r, u)' <=> InUse(r, u)
      BY <2>3, OthersUse, UsesUnchanged
    <2> USE <1>0 DEF TypeOK, Request, TypeInv, RequestFits
    <2>4. CASE InitDownloadDirect(r) \/ \E t \in Tokens : FindNoUse(r, t)
      <3>1. \E t \in Tokens \cup {None} :
               Begin(r, "file", None) \/ Begin(r, "why", t)
        BY <2>4 DEF InitDownloadDirect, FindNoUse
      <3> QED
        BY <2>4, <3>1, <2>3, NoneAssumption
        DEF InitDownloadDirect, FindNoUse, Begin, InUse, Holding, Delivered
    <2>5. CASE \/ RefuseInput(r) \/ UnknownToken(r) \/ TellWhy(r)
               \/ NothingTaken(r)
      <3>1. PICK a \in Answers \ {"PLAN"} : Tell(r, a)
        BY <2>5 DEF RefuseInput, UnknownToken, TellWhy, NothingTaken, Answers,
                    Refusals
      <3>2. /\ UNCHANGED <<count, burned>>
            /\ requests[r].pc \in {"new", "why"}
        BY <2>5 DEF RefuseInput, UnknownToken, TellWhy, NothingTaken
      <3> QED
        BY <3>1, <3>2, <2>3, NoneAssumption DEF Tell, InUse, Holding, Delivered
    <2>6. CASE FindFile(r) \/ ResolveNode(r)
      BY <2>6, <2>3
      DEF FindFile, ResolveNode, Goto, InUse, Holding, Delivered
    <2>7. CASE \/ RefuseFile(r) \/ RefuseNode(r) \/ Fail(r)
               \/ SetTicketUnanswered(r)
      <3>1. PICK a \in Refusals : GiveUp(r, a)
        BY <2>7 DEF RefuseFile, RefuseNode, Fail, SetTicketUnanswered, Refusals
      <3>2. /\ UNCHANGED <<count, burned>>
            /\ requests[r].pc \in {"file", "node", "ticket"}
        BY <2>7 DEF RefuseFile, RefuseNode, Fail, SetTicketUnanswered
      <3> QED
        BY <3>1, <3>2, <2>3, NoneAssumption
        DEF GiveUp, Tell, InUse, Holding, Delivered, Refusals
    <2>8. CASE SetTicket(r)
      BY <2>8, <2>3 DEF SetTicket, Tell, InUse, Holding, Delivered
    <2>9. CASE RefundFails(r)
      <3>1. \A q \in Requests \ {r} : /\ requests'[q] = requests[q]
                                      /\ q \in burned' <=> q \in burned
        BY <2>9 DEF RefundFails, Goto
      <3>2. \A u \in Tokens : InUse(r, u)' <=> InUse(r, u)
        BY <2>9 DEF RefundFails, Goto, InUse, Holding, Delivered
      <3> QED  BY <2>9, <3>1, <3>2, <2>3 DEF RefundFails
    <2> QED
      BY <1>3, <2>1, <2>2, <2>4, <2>5, <2>6, <2>7, <2>8, <2>9 DEF Step
  <1>4. CASE CoordinatorRestart
    <2>1. ASSUME NEW r \in Requests, NEW u \in Tokens
          PROVE  InUse(r, u)' <=> InUse(r, u)
      <3>1. /\ RequestFits(r)
            /\ requests[r].pc \in {"new", "why", "file", "node", "ticket",
                                   "refund", "done"}
        BY <1>0 DEF TypeInv, TypeOK, Request
      <3>2. requests'[r] = IF UnderWay(r)
                           THEN [pc |-> "done", token |-> Token(r),
                                 answer |-> "NOTHING"]
                           ELSE requests[r]
        BY <1>4 DEF CoordinatorRestart
      <3>3. r \in burned' <=> r \in burned \/ Holding(r)
        BY <1>4 DEF CoordinatorRestart
      <3>4. CASE UnderWay(r)
        BY <3>1, <3>2, <3>3, <3>4, NoneAssumption
        DEF UnderWay, RequestFits, InUse, Holding, Delivered, Answers, Refusals
      <3>5. CASE ~UnderWay(r)
        BY <3>1, <3>2, <3>3, <3>5
        DEF UnderWay, InUse, Holding, Delivered
      <3> QED  BY <3>4, <3>5
    <2> QED  BY <1>4, <2>1, UsesUnchanged DEF CoordinatorRestart
  <1>5. CASE UNCHANGED vars
    BY <1>5, UsesUnchanged DEF vars, InUse, Holding, Delivered
  <1>6. ASSUME NEW r \in Requests, TicketStep(r)
        PROVE  UsesAreAccounted'
    BY <1>6, TicketsAlone, UsesUnchanged DEF InUse, Holding, Delivered
  <1> QED  BY <1>1, <1>2, <1>3, <1>4, <1>5, <1>6 DEF Next, TicketStep

\* A token's count is the number of its uses and stays within what the token
\* allows, whatever fails and however requests, refunds and restarts mix.
THEOREM UsesAccounted == Spec => []UsesAreAccounted
  <1>1. UsesInv => UsesAreAccounted
    BY DEF UsesInv
  <1> QED  BY <1>1, InitUses, NextUses, PTL DEF Spec

----
(***************************************************************************)
(* Why a request is refused.  Between its UPDATE and its SELECT a request  *)
(* that found no use knows that the token is expired or used up, unless a  *)
(* use was given back since.                                               *)
(***************************************************************************)

AskingWhy ==
    \A r \in Requests \ overtaken :
        At(r, "why") => \/ Token(r) \in expired
                       \/ count[Token(r)] = MaxDownloads[Token(r)]

RefusalsInv == UsesInv /\ RefusalsExplained /\ AskingWhy

LEMMA InitRefusals == Init => RefusalsInv
  BY InitUses
  DEF Init, RefusalsInv, RefusalsExplained, AskingWhy, At, Token

\* A request is not refused wrongly by a step that leaves it alone, unless the
\* step gives a use back.
Explained(r) ==
    r \notin overtaken =>
        /\ Token(r) # None /\ count[Token(r)] # None =>
              /\ requests[r].answer = "SHARE_TOKEN_EXHAUSTED"
                 => count[Token(r)] = MaxDownloads[Token(r)]
              /\ requests[r].answer # "INVALID_SHARE_TOKEN"
        /\ At(r, "why") => \/ Token(r) \in expired
                          \/ count[Token(r)] = MaxDownloads[Token(r)]

LEMMA AllExplained ==
    RefusalsInv <=> UsesInv /\ \A r \in Requests : Explained(r)
  BY DEF RefusalsInv, RefusalsExplained, AskingWhy, Explained

\* The count of a token that is used up does not change but by a refund.
LEMMA StillExplained ==
    ASSUME RefusalsInv, NEW r \in Requests, requests'[r] = requests[r],
           expired \subseteq expired', overtaken \subseteq overtaken',
           \A t \in Tokens :
               /\ count[t] # None /\ count[t] = MaxDownloads[t]
                  => count'[t] = count[t]
               /\ count'[t] # None => count[t] # None \/ Token(r) # t
    PROVE  Explained(r)'
  <1>1. Explained(r) /\ RequestFits(r)
    BY AllExplained DEF RefusalsInv, UsesInv, TypeInv
  <1>2. Token(r) # None => Token(r) \in Tokens
    BY DEF RefusalsInv, UsesInv, TypeInv, TypeOK, Request, Token
  <1>3. At(r, "why") => Token(r) # None /\ count[Token(r)] # None
    BY <1>1 DEF RequestFits, At
  <1> QED  BY <1>1, <1>2, <1>3 DEF Explained, At, Token

LEMMA NextRefusals == RefusalsInv /\ [Next]_vars => RefusalsInv'
  <1> SUFFICES ASSUME RefusalsInv, [Next]_vars, NEW r \in Requests
               PROVE  Explained(r)'
    BY NextUses
    DEF RefusalsInv, RefusalsExplained, AskingWhy, Explained, At, Token
  <1> USE DEF At, Token
  <1>0. TypeInv /\ TypeOK /\ RequestFits(r) /\ Explained(r) /\ UsesAreAccounted
    BY AllExplained DEF RefusalsInv, UsesInv, TypeInv
  <1>t. Token(r) # None => Token(r) \in Tokens /\ count[Token(r)] # None
    BY <1>0 DEF TypeOK, Request, RequestFits
  <1>1. ASSUME NEW t \in Tokens, CreateShareToken(t) \/ Expire(t)
        PROVE  Explained(r)'
    <2>1. /\ requests'[r] = requests[r] /\ overtaken' = overtaken
          /\ expired \subseteq expired'
          /\ \A u \in Tokens : count[u] # None => count'[u] = count[u]
      BY <1>0, <1>1 DEF CreateShareToken, Expire, TypeOK
    <2> QED  BY <1>0, <1>t, <2>1 DEF Explained, RequestFits
  <1>2. ASSUME NEW q \in Requests \ {r}, Step(q)
        PROVE  Explained(r)'
    <2>1. CASE Refund(q)
      <3>1. PICK t \in Tokens :
                /\ Token(q) = t
                /\ \A u \in Tokens \ {t} : count'[u] = count[u]
        BY <1>0, <2>1, RefundedCount DEF TypeOK
      <3>2. /\ requests'[r] = requests[r] /\ expired' = expired
            /\ overtaken \subseteq overtaken'
            /\ Token(r) = t /\ ( \/ requests[r].pc = "why"
                                 \/ requests[r].answer = "SHARE_TOKEN_EXHAUSTED" )
               => r \in overtaken'
        BY <1>2, <2>1, <3>1 DEF Refund, Goto
      <3>3. CASE Token(r) = t
        BY <1>0, <1>t, <3>2, <3>3 DEF Explained
      <3>4. CASE Token(r) # t
        BY <1>0, <1>t, <3>1, <3>2, <3>4, NoneAssumption DEF Explained, RequestFits
      <3> QED  BY <3>3, <3>4
    <2>2. CASE \E t \in Tokens : Consume(q, t) \/ ConsumeUnanswered(q, t)
      <3>1. PICK t \in Tokens :
                /\ count' = [count EXCEPT ![t] = count[t] + 1]
                /\ count[t] # None /\ count[t] < MaxDownloads[t]
                /\ UNCHANGED <<expired, overtaken>>
                /\ requests'[r] = requests[r]
        BY <1>0, <1>2, <2>2
        DEF Consume, ConsumeUnanswered, Usable, Begin, TypeOK
      <3>2. count[t] \in Nat /\ MaxDownloads[t] \in Int
        BY <1>0, <3>1, MaxDownloadsAssumption DEF TypeOK
      <3> QED  BY <1>0, <3>1, <3>2, StillExplained DEF TypeOK
    <2>3. CASE /\ UNCHANGED <<count, expired, overtaken>>
               /\ requests'[r] = requests[r]
      <3>1. /\ expired \subseteq expired' /\ overtaken \subseteq overtaken'
            /\ \A t \in Tokens : count'[t] = count[t]
        BY <2>3
      <3> QED  BY <2>3, <3>1, StillExplained
    <2>4. CASE InitDownloadDirect(q) \/ \E t \in Tokens : FindNoUse(q, t)
      BY <1>0, <1>2, <2>3, <2>4
      DEF InitDownloadDirect, FindNoUse, Begin, TypeOK
    <2>5. CASE \/ RefuseInput(q) \/ UnknownToken(q) \/ TellWhy(q)
               \/ NothingTaken(q) \/ FindFile(q) \/ RefuseFile(q)
               \/ ResolveNode(q) \/ RefuseNode(q) \/ Fail(q)
               \/ SetTicket(q) \/ SetTicketUnanswered(q) \/ RefundFails(q)
      <3>1. UNCHANGED <<count, expired, overtaken>>
        BY <2>5
        DEF RefuseInput, UnknownToken, TellWhy, NothingTaken, FindFile,
            RefuseFile, ResolveNode, RefuseNode, Fail, SetTicket,
            SetTicketUnanswered, RefundFails
      <3>2. requests'[r] = requests[r]
        <4>1. \/ \E a \in Answers : Tell(q, a) \/ GiveUp(q, a)
              \/ Goto(q, "node") \/ Goto(q, "ticket") \/ Goto(q, "done")
          BY <2>5
          DEF RefuseInput, UnknownToken, TellWhy, NothingTaken, FindFile,
              RefuseFile, ResolveNode, RefuseNode, Fail, SetTicket,
              SetTicketUnanswered, RefundFails, Answers, Refusals
        <4> QED  BY <1>0, <1>2, <4>1 DEF Tell, GiveUp, Goto, TypeOK
      <3> QED  BY <2>3, <3>1, <3>2
    <2> QED  BY <1>2, <2>1, <2>2, <2>4, <2>5 DEF Step
  <1>3. ASSUME Step(r) PROVE Explained(r)'
    <2> USE <1>0 DEF TypeOK, Request
    <2>1. CASE \/ InitDownloadDirect(r)
               \/ \E t \in Tokens : Consume(r, t) \/ ConsumeUnanswered(r, t)
      <3>1. /\ requests'[r].pc \in {"file", "done"}
            /\ requests'[r].answer \in {None, "DATABASE_ERROR"}
        BY <2>1 DEF InitDownloadDirect, Consume, ConsumeUnanswered, Begin,
                    RequestFits
      <3> QED
        BY <3>1, NoneAssumption DEF Explained, Answers, Refusals
    <2>2. ASSUME NEW t \in Tokens, FindNoUse(r, t)
          PROVE  Explained(r)'
      <3>1. /\ requests'[r].token = t /\ requests'[r].answer = None
            /\ UNCHANGED <<count, expired>> /\ count[t] # None
            /\ t \in expired \/ ~(count[t] < MaxDownloads[t])
        BY <2>2 DEF FindNoUse, Begin, Usable, RequestFits
      <3>2. /\ count[t] \in Nat /\ MaxDownloads[t] \in Int
            /\ count[t] <= MaxDownloads[t]
        BY <3>1, MaxDownloadsAssumption DEF UsesAreAccounted
      <3> QED
        BY <3>1, <3>2, NoneAssumption DEF Explained, Answers, Refusals
    <2>3. CASE TellWhy(r)
      <3> DEFINE t == Token(r)
      <3>1. /\ t \in Tokens /\ count[t] \in Nat /\ requests[r].pc = "why"
        BY <1>t, <2>3 DEF TellWhy, RequestFits
      <3>2. MaxDownloads[t] \in Int
        BY <3>1, MaxDownloadsAssumption
      <3>3. /\ requests'[r].token = requests[r].token
            /\ requests'[r].pc = "done"
            /\ UNCHANGED <<count, overtaken>>
            /\ t \in expired => requests'[r].answer = "SHARE_TOKEN_EXPIRED"
            /\ t \notin expired /\ count[t] >= MaxDownloads[t]
               => requests'[r].answer = "SHARE_TOKEN_EXHAUSTED"
        BY <2>3 DEF TellWhy, Tell
      <3>4. r \notin overtaken => t \in expired \/ count[t] = MaxDownloads[t]
        BY <3>1 DEF Explained
      <3> QED  BY <3>1, <3>2, <3>3, <3>4 DEF Explained
    <2>4. CASE RefuseInput(r) \/ UnknownToken(r)
      BY <2>4 DEF RefuseInput, UnknownToken, Tell, RequestFits, Explained
    <2>5. CASE NothingTaken(r)
      BY <2>5 DEF NothingTaken, Tell, Explained
    <2>6. CASE FindFile(r) \/ ResolveNode(r)
      BY <2>6 DEF FindFile, ResolveNode, Goto, Explained
    <2>7. CASE \/ RefuseFile(r) \/ RefuseNode(r) \/ Fail(r)
               \/ SetTicketUnanswered(r)
      BY <2>7 DEF RefuseFile, RefuseNode, Fail, SetTicketUnanswered, GiveUp,
                  Tell, Explained
    <2>8. CASE SetTicket(r)
      BY <2>8 DEF SetTicket, Tell, Explained
    <2>9. CASE Refund(r) \/ RefundFails(r)
      <3>1. /\ requests'[r].pc = "done"
            /\ requests'[r].answer \in Refusals
        BY <2>9 DEF Refund, RefundFails, Goto, RequestFits
      <3> QED  BY <3>1 DEF Explained, Refusals
    <2> QED
      BY <1>3, <2>1, <2>2, <2>3, <2>4, <2>5, <2>6, <2>7, <2>8, <2>9 DEF Step
  <1>4. CASE CoordinatorRestart
    BY <1>0, <1>4 DEF CoordinatorRestart, UnderWay, Explained, TypeOK, Request
  <1>5. CASE UNCHANGED vars
    BY <1>5, StillExplained DEF vars
  <1>6. ASSUME NEW q \in Requests, TicketStep(q)
        PROVE  Explained(r)'
    BY <1>6, TicketsAlone, StillExplained
  <1> QED  BY <1>1, <1>2, <1>3, <1>4, <1>5, <1>6 DEF Next, TicketStep

\* Whoever is told that a token is exhausted or unknown asked for it when all
\* of its uses were taken, or a use was given back while the request asked.
THEOREM RefusalsAreExplained == Spec => []RefusalsExplained
  <1>1. RefusalsInv => RefusalsExplained
    BY DEF RefusalsInv
  <1> QED  BY <1>1, InitRefusals, NextRefusals, PTL DEF Spec

====
