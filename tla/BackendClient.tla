---- MODULE BackendClient ----
(***************************************************************************)
(* The connection of the desktop client to the coordinator (BackendClient  *)
(* of the SDK), shared by the threads that make requests and by a listener *)
(* thread.  _socket, _state and _running are read and written without a    *)
(* lock common to all; _socket_lock guards sending and closing, and is not *)
(* reentrant.                                                              *)
(*                                                                         *)
(* An answer comes in two pieces, which recv returns one at a time, and is *)
(* delivered when the buffer holds both.  causes is history: an old        *)
(* listener was alive as the client connected, two calls connected or      *)
(* disconnected at once, the buffer was cleared while a listener had bytes *)
(* in hand.                                                                *)
(***************************************************************************)
EXTENDS FiniteSets, Integers, Sequences

CONSTANTS
    Callers,      \* threads that use the client
    MaxSockets,   \* bound: connections made
    MaxRequests,  \* bound: requests made
    Nothing

Sockets   == 1 .. MaxSockets
Requests  == 1 .. MaxRequests
Listeners == 1 .. MaxSockets      \* one is started per connection at most

VARIABLES
    dialled,    \* connections made so far
    conn,       \* state of each connection
    received,   \* requests the coordinator has received on each
    inbound,    \* pieces of answers on their way back on each
    socket,     \* _socket
    state,      \* _state
    running,    \* _running
    lock,       \* who holds _socket_lock
    buffer,     \* _frame_buffer: a first piece, or bytes that are no frame
    callers,    \* what each caller is doing
    made,       \* requests made so far
    answered,   \* pending requests whose event is set
    listeners,  \* what each listener is doing
    causes      \* history: what has happened that can go wrong

netVars    == <<conn, received, inbound>>
clientVars == <<socket, state, running, buffer>>
connectionVars == <<dialled, netVars, clientVars, lock, callers, made, answered,
                    listeners, causes>>

BlendCauses == {"old listener", "two calls", "bytes in hand"}

Garbage == <<Nothing, Nothing>>
Piece   == Requests \X {1, 2}

ASSUME ConnectionBounds == MaxSockets \in Nat /\ MaxRequests \in Nat

ASSUME NothingAssumption == Nothing \notin Callers \cup Nat \cup Piece \cup {Garbage}

Caller ==
    [pc : {"idle", "connecting", "starting", "close", "reset", "lock", "send",
           "stuck", "waiting"},
     request : Requests \cup {Nothing}]

Listener ==
    [pc : {"none", "top", "recv", "append", "close", "reset", "done"},
     sock : Sockets \cup {Nothing}, piece : Piece \cup {Nothing}]

ClientTypeOK ==
    /\ dialled  \in 0 .. MaxSockets
    /\ conn     \in [Sockets -> {"none", "open", "broken", "closed"}]
    /\ received \in [Sockets -> SUBSET Requests]
    /\ inbound  \in [Sockets -> Seq(Piece)]
    /\ socket   \in Sockets \cup {Nothing}
    /\ state    \in {"DISCONNECTED", "CONNECTING", "CONNECTED", "ERROR"}
    /\ running  \in BOOLEAN
    /\ lock     \in Callers \cup {Nothing}
    /\ \A c \in Callers : lock = c <=> callers[c].pc \in {"send", "stuck"}
    /\ buffer   \in Piece \cup {Nothing, Garbage}
    /\ callers  \in [Callers -> Caller]
    /\ made     \in 0 .. MaxRequests
    /\ answered \subseteq Requests
    /\ listeners \in [Listeners -> Listener]
    /\ causes   \subseteq BlendCauses

Idle == [pc |-> "idle", request |-> Nothing]

Listening(pc, s, p) == [pc |-> pc, sock |-> s, piece |-> p]

ClientInit ==
    /\ dialled   = 0
    /\ conn      = [s \in Sockets |-> "none"]
    /\ received  = [s \in Sockets |-> {}]
    /\ inbound   = [s \in Sockets |-> <<>>]
    /\ socket    = Nothing
    /\ state     = "DISCONNECTED"
    /\ running   = FALSE
    /\ lock      = Nothing
    /\ buffer    = Nothing
    /\ callers   = [c \in Callers |-> Idle]
    /\ made      = 0
    /\ answered  = {}
    /\ listeners = [l \in Listeners |-> Listening("none", Nothing, Nothing)]
    /\ causes    = {}

-----------------------------------------------------------------------------
Listens(l)   == listeners[l].pc \notin {"none", "done"}
At(c, pc)  == callers[c].pc = pc
In(l, pc)  == listeners[l].pc = pc

Goto(c, pc)    == callers' = [callers EXCEPT ![c].pc = pc]
Return(c)      == callers' = [callers EXCEPT ![c] = Idle]
Continue(l, pc) ==
    listeners' = [listeners EXCEPT ![l] = Listening(pc, Nothing, Nothing)]

SwitchUnderWay ==
    \E c \in Callers :
        callers[c].pc \in {"connecting", "starting", "close", "reset"}

Pending == {callers[c].request : c \in Callers} \ {Nothing}

CausedBy(cause, p) == causes' = IF p THEN causes \cup {cause} ELSE causes

NextListener ==
    CHOOSE l \in Listeners :
        In(l, "none") /\ \A k \in Listeners : In(k, "none") => l <= k

\* The first half of _cleanup_socket, under the lock.
CloseSocket ==
    /\ conn' = [s \in Sockets |-> IF s = socket THEN "closed" ELSE conn[s]]
    /\ socket' = Nothing

\* The second half, after the lock is given back.  _state is left alone.
Reset ==
    /\ buffer' = Nothing
    /\ running' = FALSE
    /\ CausedBy("bytes in hand", \E l \in Listeners : In(l, "append"))

-----------------------------------------------------------------------------
(* connect *)

\* A client that takes itself to be connected is left as it is.
Connect(c) ==
    /\ At(c, "idle")
    /\ state # "CONNECTED"
    /\ state' = "CONNECTING"
    /\ Goto(c, "connecting")
    /\ CausedBy("two calls", SwitchUnderWay)
    /\ UNCHANGED <<dialled, netVars, socket, running, buffer, lock, made,
                   answered, listeners>>

Dial(c) ==
    /\ At(c, "connecting")
    /\ dialled < MaxSockets
    /\ dialled' = dialled + 1
    /\ socket' = dialled'
    /\ conn' = [conn EXCEPT ![dialled'] = "open"]
    /\ Goto(c, "starting")
    /\ CausedBy("old listener", \E l \in Listeners : Listens(l))
    /\ UNCHANGED <<received, inbound, state, running, buffer, lock, made,
                   answered, listeners>>

\* Every attempt has failed, in place of the socket there was, and was
\* cleaned up after.
DialFails(c) ==
    /\ At(c, "connecting")
    /\ lock = Nothing
    /\ socket' = Nothing
    /\ Reset
    /\ state' = "ERROR"
    /\ Return(c)
    /\ UNCHANGED <<dialled, netVars, lock, made, answered, listeners>>

StartListener(c) ==
    /\ At(c, "starting")
    /\ IF running
       THEN UNCHANGED <<running, listeners>>
       ELSE /\ running' = TRUE
            /\ listeners' = [listeners EXCEPT ![NextListener].pc = "top"]
    /\ state' = "CONNECTED"
    /\ Return(c)
    /\ UNCHANGED <<dialled, netVars, socket, buffer, lock, made, answered,
                   causes>>

-----------------------------------------------------------------------------
(* disconnect; reconnect is disconnect and, a second later, connect *)

Disconnect(c) ==
    /\ At(c, "idle")
    /\ running' = FALSE
    /\ Goto(c, "close")
    /\ CausedBy("two calls", SwitchUnderWay)
    /\ UNCHANGED <<dialled, netVars, socket, state, buffer, lock, made,
                   answered, listeners>>

DisconnectCloses(c) ==
    /\ At(c, "close")
    /\ lock = Nothing
    /\ CloseSocket
    /\ Goto(c, "reset")
    /\ UNCHANGED <<dialled, received, inbound, state, running, buffer, lock,
                   made, answered, listeners, causes>>

DisconnectEnds(c) ==
    /\ At(c, "reset")
    /\ Reset
    /\ state' = "DISCONNECTED"
    /\ Return(c)
    /\ UNCHANGED <<dialled, netVars, socket, lock, made, answered, listeners>>

-----------------------------------------------------------------------------
(* Requests *)

\* _send_request: connected as far as _state says, and there is a socket.
SendRequest(c) ==
    /\ At(c, "idle")
    /\ state = "CONNECTED"
    /\ socket # Nothing
    /\ made < MaxRequests
    /\ made' = made + 1
    /\ callers' = [callers EXCEPT ![c] = [pc |-> "lock", request |-> made']]
    /\ UNCHANGED <<dialled, netVars, clientVars, lock, answered, listeners,
                   causes>>

Sendable == socket # Nothing /\ conn[socket] = "open"

TakeLock(c) ==
    /\ At(c, "lock")
    /\ lock = Nothing
    /\ lock' = c
    /\ Goto(c, "send")
    /\ UNCHANGED <<dialled, netVars, clientVars, made, answered, listeners,
                   causes>>

SendSucceeds(c) ==
    /\ At(c, "send")
    /\ Sendable
    /\ received' = [received EXCEPT ![socket] = @ \cup {callers[c].request}]
    /\ lock' = Nothing
    /\ Goto(c, "waiting")
    /\ UNCHANGED <<dialled, conn, inbound, clientVars, made, answered,
                   listeners, causes>>

\* sendall times out; the socket is kept.
SendTimesOut(c) ==
    /\ At(c, "send")
    /\ socket # Nothing
    /\ lock' = Nothing
    /\ Return(c)
    /\ UNCHANGED <<dialled, netVars, clientVars, made, answered, listeners,
                   causes>>

\* Any other failure is handled by _cleanup_socket, which waits for the lock
\* that its caller holds.
SendFails(c) ==
    /\ At(c, "send")
    /\ ~Sendable
    /\ Goto(c, "stuck")
    /\ UNCHANGED <<dialled, netVars, clientVars, lock, made, answered,
                   listeners, causes>>

\* The event is set, with an answer or an error.
GetAnswer(c) ==
    /\ At(c, "waiting")
    /\ callers[c].request \in answered
    /\ answered' = answered \ {callers[c].request}
    /\ Return(c)
    /\ UNCHANGED <<dialled, netVars, clientVars, lock, made, listeners, causes>>

\* Mutant: the wait has no timeout.
WaitsForever(c) == FALSE

RequestTimesOut(c) ==
    /\ At(c, "waiting")
    /\ callers[c].request \notin answered
    /\ Return(c)
    /\ UNCHANGED <<dialled, netVars, clientVars, lock, made, answered,
                   listeners, causes>>

-----------------------------------------------------------------------------
(* The listener, _listen_loop *)

\* The socket is looked up anew for every recv.
LoopTop(l) ==
    /\ In(l, "top")
    /\ listeners' = [listeners EXCEPT ![l] =
                        IF running /\ socket # Nothing
                        THEN Listening("recv", socket, Nothing)
                        ELSE Listening("done", Nothing, Nothing)]
    /\ UNCHANGED <<dialled, netVars, clientVars, lock, callers, made, answered,
                   causes>>

ReceivePiece(l) ==
    LET s == listeners[l].sock
    IN  /\ In(l, "recv")
        /\ conn[s] # "closed"
        /\ inbound[s] # <<>>
        /\ listeners' = [listeners EXCEPT ![l] =
                            Listening("append", s, Head(inbound[s]))]
        /\ inbound' = [inbound EXCEPT ![s] = Tail(@)]
        /\ UNCHANGED <<dialled, conn, received, clientVars, lock, callers, made,
                       answered, causes>>

\* Nothing came for five seconds.
ReceiveTimesOut(l) ==
    LET s == listeners[l].sock
    IN  /\ In(l, "recv")
        /\ conn[s] = "closed" \/ (conn[s] = "open" /\ inbound[s] = <<>>)
        /\ Continue(l, "top")
        /\ UNCHANGED <<dialled, netVars, clientVars, lock, callers, made,
                       answered, causes>>

\* The peer has closed, or recv raises an exception; one on a client that is
\* stopping is passed over.
ReceiveFails(l) ==
    LET s == listeners[l].sock
    IN  /\ In(l, "recv")
        /\ \/ conn[s] = "broken" /\ inbound[s] = <<>> /\ Continue(l, "close")
           \/ conn[s] = "closed" /\ running /\ Continue(l, "close")
           \/ conn[s] = "closed" /\ ~running /\ Continue(l, "top")
        /\ UNCHANGED <<dialled, netVars, clientVars, lock, callers, made,
                       answered, causes>>

\* Mutant: the first piece of an answer is taken for all of it.
AppendsOnlyFirst(l) ==
    LET p == listeners[l].piece
    IN  /\ In(l, "append")
        /\ buffer' = IF p[2] = 1 THEN Nothing ELSE Garbage
        /\ answered' = IF p[1] \in Pending THEN answered \cup {p[1]} ELSE answered
        /\ Continue(l, "top")
        /\ UNCHANGED <<dialled, netVars, socket, state, running, lock, callers,
                       made, causes>>

\* A complete frame is taken out of the buffer and handed to the request it
\* answers, if that one is still pending.
AppendPiece(l) ==
    LET p == listeners[l].piece
        whole == p[2] = 2 /\ buffer = <<p[1], 1>>
    IN  /\ In(l, "append")
        /\ buffer' = CASE whole -> Nothing
                        [] ~whole /\ buffer = Nothing /\ p[2] = 1 -> p
                        [] OTHER -> Garbage
        /\ answered' = IF whole /\ p[1] \in Pending
                       THEN answered \cup {p[1]} ELSE answered
        /\ Continue(l, "top")
        /\ UNCHANGED <<dialled, netVars, socket, state, running, lock, callers,
                       made, causes>>

\* Mutant: the listener leaves without closing the socket.
ListenerLeaves(l) ==
    /\ In(l, "close")
    /\ Continue(l, "done")
    /\ UNCHANGED <<dialled, netVars, clientVars, lock, callers, made, answered,
                   causes>>

\* Whatever the client's socket is by now is closed.
ListenerCloses(l) ==
    /\ In(l, "close")
    /\ lock = Nothing
    /\ CloseSocket
    /\ Continue(l, "reset")
    /\ UNCHANGED <<dialled, received, inbound, state, running, buffer, lock,
                   callers, made, answered, causes>>

ListenerResets(l) ==
    /\ In(l, "reset")
    /\ Reset
    /\ Continue(l, "done")
    /\ UNCHANGED <<dialled, netVars, socket, state, lock, callers, made,
                   answered>>

-----------------------------------------------------------------------------
(* The coordinator and the network *)

Reply(s, r) ==
    /\ conn[s] = "open"
    /\ r \in received[s]
    /\ received' = [received EXCEPT ![s] = @ \ {r}]
    /\ inbound' = [inbound EXCEPT ![s] = @ \o <<<<r, 1>>, <<r, 2>>>>]
    /\ UNCHANGED <<dialled, conn, clientVars, lock, callers, made, answered,
                   listeners, causes>>

Break(s) ==
    /\ conn[s] = "open"
    /\ conn' = [conn EXCEPT ![s] = "broken"]
    /\ UNCHANGED <<dialled, received, inbound, clientVars, lock, callers, made,
                   answered, listeners, causes>>

-----------------------------------------------------------------------------
Call(c) == Connect(c) \/ Disconnect(c) \/ SendRequest(c)

Proceed(c) ==
    \/ Dial(c) \/ DialFails(c) \/ StartListener(c)
    \/ DisconnectCloses(c) \/ DisconnectEnds(c)
    \/ TakeLock(c) \/ SendSucceeds(c) \/ SendTimesOut(c) \/ SendFails(c)
    \/ GetAnswer(c) \/ RequestTimesOut(c)

Listen(l) ==
    \/ LoopTop(l)
    \/ ReceivePiece(l) \/ ReceiveTimesOut(l) \/ ReceiveFails(l)
    \/ AppendPiece(l)
    \/ ListenerCloses(l) \/ ListenerResets(l)

ClientNext ==
    \/ \E c \in Callers : Call(c) \/ Proceed(c)
    \/ \E l \in Listeners : Listen(l)
    \/ \E s \in Sockets, r \in Requests : Reply(s, r)
    \/ \E s \in Sockets : Break(s)

Fairness ==
    /\ \A c \in Callers : WF_connectionVars(Proceed(c))
    /\ \A l \in Listeners : WF_connectionVars(Listen(l))

ClientSpec == ClientInit /\ [][ClientNext]_connectionVars /\ Fairness

-----------------------------------------------------------------------------
Stuck == \E c \in Callers : At(c, "stuck")

\* A request, a connection or a disconnection comes to an end, unless some
\* thread waits for the lock it holds (_send_frame, _cleanup_socket).
CallsEnd == \A c \in Callers : ~At(c, "idle") ~> At(c, "idle") \/ Stuck

\* The bytes of two frames get mixed up only when a listener of an earlier
\* connection was alive as the client connected, two calls connected or
\* disconnected at once, or the buffer was cleared while a listener had bytes
\* in hand (_listen_loop, _cleanup_socket, reconnect).
FramesStayWhole == buffer = Garbage => causes # {}

\* A client that has a socket and takes itself to be connected has a
\* listener, unless one of an earlier connection was alive or another thread
\* was at it as well when the client connected (connect, _cleanup_socket).
ConnectedIsHeard ==
    /\ state = "CONNECTED"
    /\ socket # Nothing
    /\ \A c \in Callers : callers[c].pc \in {"idle", "waiting"}
    => causes \cap {"old listener", "two calls"} # {} \/ \E l \in Listeners : Listens(l)
====
