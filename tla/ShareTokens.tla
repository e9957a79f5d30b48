---- MODULE ShareTokens ----
(***************************************************************************)
(* INIT_DOWNLOAD at the coordinator: a plan for a user who may download    *)
(* the file, or for whoever has a share token, each of whose uses is taken *)
(* by one conditional UPDATE and given back by another if no plan comes of *)
(* it.  Requests are handled by a pool of workers; every statement is a    *)
(* transaction of its own.                                                 *)
(*                                                                         *)
(* What the file's row, the room and the registry say is left open: a      *)
(* request finds the file READY, for a user who may have it, or does not,  *)
(* then a node that has it, or does not.  The ticket of a plan is kept in  *)
(* Redis, where a storage node may ask for it.  burned and overtaken are   *)
(* history.                                                                *)
(***************************************************************************)
EXTENDS FiniteSets, Integers

CONSTANTS
    Requests,      \* requests, each made once (bound)
    Tokens,        \* share tokens
    MaxDownloads,  \* the limit each token is asked for with
    None

ASSUME RequestsAssumption == IsFiniteSet(Requests)

\* Any integer: handle_create_share_token looks at it.
ASSUME MaxDownloadsAssumption == MaxDownloads \in [Tokens -> Int]

VARIABLES
    count,      \* download_count of each token, None before it is made
    expired,    \* tokens past their expires_at
    requests,   \* what each request is doing, or was answered
    tickets,    \* the ticket each request has stored
    burned,     \* history: requests whose use nobody had or gave back
    overtaken   \* history: requests refused a use before one was given back

vars == <<count, expired, requests, tickets, burned, overtaken>>

\* REFUSED: FILE_NOT_FOUND, FILE_NOT_READY or PERMISSION_DENIED.  UNAVAILABLE:
\* STORAGE_NODE_UNAVAILABLE or FILE_NOT_ON_NODE.
Refusals == {"REFUSED", "UNAVAILABLE", "DATABASE_ERROR"}

Answers ==
    Refusals \cup
    {"PLAN", "INVALID_INPUT", "INVALID_SHARE_TOKEN", "SHARE_TOKEN_EXPIRED",
     "SHARE_TOKEN_EXHAUSTED", "NOTHING"}

ASSUME NoneAssumption == None \notin Tokens \cup Nat \cup Answers

Request ==
    [pc : {"new", "why", "file", "node", "ticket", "refund", "done"},
     token : Tokens \cup {None}, answer : Answers \cup {None}]

TypeOK ==
    /\ count     \in [Tokens -> Nat \cup {None}]
    /\ expired   \subseteq Tokens
    /\ requests  \in [Requests -> Request]
    /\ tickets   \in [Requests -> {"none", "valid", "late"}]
    /\ burned    \subseteq Requests
    /\ overtaken \subseteq Requests

Init ==
    /\ count     = [t \in Tokens |-> None]
    /\ expired   = {}
    /\ requests  = [r \in Requests |->
                        [pc |-> "new", token |-> None, answer |-> None]]
    /\ tickets   = [r \in Requests |-> "none"]
    /\ burned    = {}
    /\ overtaken = {}

-----------------------------------------------------------------------------
At(r, pc) == requests[r].pc = pc
Token(r)  == requests[r].token

Goto(r, pc) == requests' = [requests EXCEPT ![r].pc = pc]

Tell(r, answer) ==
    requests' = [requests EXCEPT ![r].pc = "done", ![r].answer = answer]

Begin(r, pc, t) == requests' = [requests EXCEPT ![r].pc = pc, ![r].token = t]

\* Mutant: the last use is never handed out.
SparesTheLastUse(t) ==
    /\ count[t] # None
    /\ t \notin expired
    /\ count[t] + 1 < MaxDownloads[t]

Usable(t) ==
    /\ count[t] # None
    /\ t \notin expired
    /\ count[t] < MaxDownloads[t]

-----------------------------------------------------------------------------
\* handle_create_share_token: at least one use and at most ten thousand, and
\* a time that is still to come.  The desktop client asks for none, which it
\* takes to mean any number, and is refused.
Admitted(t) ==
    /\ MaxDownloads[t] \in 1 .. 10000
    /\ t \notin expired

CreateShareToken(t) ==
    /\ Admitted(t)
    /\ count[t] = None
    /\ count' = [count EXCEPT ![t] = 0]
    /\ UNCHANGED <<expired, requests, tickets, burned, overtaken>>

\* The time a token is to expire comes, of one not made yet as well.
Expire(t) ==
    /\ expired' = expired \cup {t}
    /\ UNCHANGED <<count, requests, tickets, burned, overtaken>>

\* Without the fields it needs a request is turned away at once.
RefuseInput(r) ==
    /\ At(r, "new")
    /\ Tell(r, "INVALID_INPUT")
    /\ UNCHANGED <<count, expired, tickets, burned, overtaken>>

\* handle_init_download_direct
InitDownloadDirect(r) ==
    /\ At(r, "new")
    /\ Begin(r, "file", None)
    /\ UNCHANGED <<count, expired, tickets, burned, overtaken>>

\* Mutant: the count is compared as if it were raised already.
ConsumesOneMore(r, t) ==
    /\ At(r, "new")
    /\ count[t] # None
    /\ t \notin expired
    /\ count[t] <= MaxDownloads[t]
    /\ count' = [count EXCEPT ![t] = @ + 1]
    /\ Begin(r, "file", t)
    /\ UNCHANGED <<expired, tickets, burned, overtaken>>

\* handle_init_download_share: the conditional UPDATE takes a use.
Consume(r, t) ==
    /\ At(r, "new")
    /\ Usable(t)
    /\ count' = [count EXCEPT ![t] = @ + 1]
    /\ Begin(r, "file", t)
    /\ UNCHANGED <<expired, tickets, burned, overtaken>>

\* The UPDATE is committed, and its result is lost.
ConsumeUnanswered(r, t) ==
    /\ At(r, "new")
    /\ Usable(t)
    /\ count' = [count EXCEPT ![t] = @ + 1]
    /\ requests' = [requests EXCEPT ![r] = [pc |-> "done", token |-> t,
                                            answer |-> "DATABASE_ERROR"]]
    /\ burned' = burned \cup {r}
    /\ UNCHANGED <<expired, tickets, overtaken>>

\* A token nobody made, or of another file.
UnknownToken(r) ==
    /\ At(r, "new")
    /\ Tell(r, "INVALID_SHARE_TOKEN")
    /\ UNCHANGED <<count, expired, tickets, burned, overtaken>>

FindNoUse(r, t) ==
    /\ At(r, "new")
    /\ count[t] # None
    /\ ~Usable(t)
    /\ Begin(r, "why", t)
    /\ UNCHANGED <<count, expired, tickets, burned, overtaken>>

\* A SELECT tells the reason; the row may have changed since.
TellWhy(r) ==
    /\ At(r, "why")
    /\ LET t == Token(r)
       IN  Tell(r, IF t \in expired THEN "SHARE_TOKEN_EXPIRED"
                   ELSE IF count[t] >= MaxDownloads[t]
                   THEN "SHARE_TOKEN_EXHAUSTED"
                   ELSE "INVALID_SHARE_TOKEN")
    /\ UNCHANGED <<count, expired, tickets, burned, overtaken>>

\* The database fails before a use is taken or as the reason is looked up.
NothingTaken(r) ==
    /\ requests[r].pc \in {"new", "why"}
    /\ Tell(r, "DATABASE_ERROR")
    /\ UNCHANGED <<count, expired, tickets, burned, overtaken>>

FindFile(r) ==
    /\ At(r, "file")
    /\ Goto(r, "node")
    /\ UNCHANGED <<count, expired, tickets, burned, overtaken>>

\* _resolve_storage_node: the registry has an address of the node, whose
\* manifest lists the content.
ResolveNode(r) ==
    /\ At(r, "node")
    /\ Goto(r, "ticket")
    /\ UNCHANGED <<count, expired, tickets, burned, overtaken>>

\* No plan comes of the request.  A use that was taken is given back first.
GiveUp(r, answer) ==
    IF Token(r) = None THEN Tell(r, answer)
    ELSE requests' = [requests EXCEPT ![r].pc = "refund",
                                      ![r].answer = answer]

RefuseFile(r) ==
    /\ At(r, "file")
    /\ GiveUp(r, "REFUSED")
    /\ UNCHANGED <<count, expired, tickets, burned, overtaken>>

RefuseNode(r) ==
    /\ At(r, "node")
    /\ GiveUp(r, "UNAVAILABLE")
    /\ UNCHANGED <<count, expired, tickets, burned, overtaken>>

\* An exception.
Fail(r) ==
    /\ requests[r].pc \in {"file", "node", "ticket"}
    /\ GiveUp(r, "DATABASE_ERROR")
    /\ UNCHANGED <<count, expired, tickets, burned, overtaken>>

StoreTicket(r) == tickets' = [tickets EXCEPT ![r] = "valid"]

\* The ticket is stored; what follows cannot fail.
SetTicket(r) ==
    /\ At(r, "ticket")
    /\ StoreTicket(r)
    /\ Tell(r, "PLAN")
    /\ UNCHANGED <<count, expired, burned, overtaken>>

\* It is stored and Redis is heard of no more: nobody learns of this ticket.
SetTicketUnanswered(r) ==
    /\ At(r, "ticket")
    /\ StoreTicket(r)
    /\ GiveUp(r, "DATABASE_ERROR")
    /\ UNCHANGED <<count, expired, burned, overtaken>>

\* _refund_share_download
Refund(r) ==
    /\ At(r, "refund")
    /\ LET t == Token(r)
       IN  /\ count' = [count EXCEPT ![t] = IF @ > 0 THEN @ - 1 ELSE @]
           /\ overtaken' = overtaken \cup
                  {q \in Requests :
                      /\ Token(q) = t
                      /\ \/ At(q, "why")
                         \/ requests[q].answer = "SHARE_TOKEN_EXHAUSTED"}
    /\ Goto(r, "done")
    /\ UNCHANGED <<expired, tickets, burned>>

\* Its exception is logged.
RefundFails(r) ==
    /\ At(r, "refund")
    /\ Goto(r, "done")
    /\ burned' = burned \cup {r}
    /\ UNCHANGED <<count, expired, tickets, overtaken>>

\* expiresAt was read off the clock before SETEX: it comes first.
TicketGrowsLate(r) ==
    /\ tickets[r] = "valid"
    /\ tickets' = [tickets EXCEPT ![r] = "late"]
    /\ UNCHANGED <<count, expired, requests, burned, overtaken>>

DeleteTicket(r) == tickets' = [tickets EXCEPT ![r] = "none"]

\* Redis drops the key when its time is up.
DropTicket(r) ==
    /\ tickets[r] = "late"
    /\ DeleteTicket(r)
    /\ UNCHANGED <<count, expired, requests, burned, overtaken>>

\* verify_ticket: a ticket that is found late is deleted.
FindLate(r) == tickets[r] = "late" /\ DeleteTicket(r)

\* VERIFY_TICKET of a storage node.  One still valid is read and left alone.
VerifyTicket(r) ==
    /\ FindLate(r)
    /\ UNCHANGED <<count, expired, requests, burned, overtaken>>

\* A use is taken, and not yet handed out or given back.
Holding(r) ==
    Token(r) # None /\ requests[r].pc \in {"file", "node", "ticket", "refund"}

UnderWay(r) == requests[r].pc \notin {"new", "done"}

CoordinatorRestart ==
    /\ requests' = [r \in Requests |->
                       IF UnderWay(r) THEN [pc |-> "done", token |-> Token(r),
                                            answer |-> "NOTHING"]
                       ELSE requests[r]]
    /\ burned' = burned \cup {r \in Requests : Holding(r)}
    /\ UNCHANGED <<count, expired, tickets, overtaken>>

-----------------------------------------------------------------------------
Step(r) ==
    \/ RefuseInput(r)
    \/ InitDownloadDirect(r)
    \/ \E t \in Tokens :
           Consume(r, t) \/ ConsumeUnanswered(r, t) \/ FindNoUse(r, t)
    \/ UnknownToken(r) \/ TellWhy(r) \/ NothingTaken(r)
    \/ FindFile(r) \/ RefuseFile(r) \/ ResolveNode(r) \/ RefuseNode(r)
    \/ Fail(r) \/ SetTicket(r) \/ SetTicketUnanswered(r)
    \/ Refund(r) \/ RefundFails(r)

Next ==
    \/ \E t \in Tokens : CreateShareToken(t) \/ Expire(t)
    \/ \E r \in Requests : Step(r)
    \/ \E r \in Requests :
           TicketGrowsLate(r) \/ DropTicket(r) \/ VerifyTicket(r)
    \/ CoordinatorRestart

Spec == Init /\ [][Next]_vars

-----------------------------------------------------------------------------
Delivered(r) == Token(r) # None /\ requests[r].answer = "PLAN"

InUse(r, t) == Token(r) = t /\ (Holding(r) \/ Delivered(r) \/ r \in burned)

Uses(t) == {r \in Requests : InUse(r, t)}

\* Every use of a token that is counted is one that a request holds, that was
\* handed out with a plan, or that a crash or a database error has burned, and
\* there are never more of them than the token allows: no refund is given
\* twice, and none for a use that was not taken (handle_init_download_share,
\* _refund_share_download).
UsesAreAccounted ==
    \A t \in Tokens :
        count[t] # None => /\ count[t] = Cardinality(Uses(t))
                           /\ count[t] <= MaxDownloads[t]

\* A request is told that a token which exists is exhausted, or unknown, only
\* if all of its uses are taken or one was given back after the request asked
\* for one; unknown only in the second case (handle_init_download_share).
RefusalsExplained ==
    \A r \in Requests \ overtaken : Token(r) # None /\ count[Token(r)] # None =>
        /\ requests[r].answer = "SHARE_TOKEN_EXHAUSTED"
           => count[Token(r)] = MaxDownloads[Token(r)]
        /\ requests[r].answer # "INVALID_SHARE_TOKEN"
====
