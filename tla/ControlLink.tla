---- MODULE ControlLink ----
(***************************************************************************)
(* The storage node's end of its link to the coordinator                   *)
(* (ControlPlaneClient): a supervisor that connects and authenticates, a   *)
(* receiver thread and a heartbeat for each connection, and cleanup(),     *)
(* which any of them runs when it finds the link broken.  All of them      *)
(* share the fields socket, running, authenticated, receiverThread and     *)
(* heartbeatExecutor and one queue of answers.  cleanup() and sendMessage  *)
(* hold the object's monitor; doConnect does not.                          *)
(*                                                                         *)
(* Connections are numbered in the order they are dialled; a receiver and  *)
(* a heartbeat have the number of the connection they were started for.    *)
(* The coordinator does what it owes a node here: it handles STORAGE_AUTH  *)
(* when a worker gets to it, and closes the connection that the one it     *)
(* accepts replaces.  Sockets it never reads are among the silent ones.    *)
(***************************************************************************)
EXTENDS Integers, Sequences

CONSTANTS
    MaxConns,   \* how many connections are dialled at most (bound)
    MaxFaults   \* faults of the network, the coordinator and timing (bound)

ASSUME BoundsAssumption == MaxConns \in Nat /\ MaxFaults \in Nat

VARIABLES
    sockets,        \* each connection, as both of its ends have it
    registered,     \* the connection the coordinator knows the node by, or 0
    socket,         \* the fields of the client, 0 for null
    running,
    authenticated,
    receiver,       \* receiverThread, and the connection of in and out
    heartbeat,      \* heartbeatExecutor
    receivers,      \* each receiver thread, and the stream it reads
    hearts,         \* each heartbeat, and whether shutdown() was called on it
    queue,          \* responseQueue: the connections the answers came from
    monitor,        \* who holds the monitor in cleanup(), and where it is
    supervisor,     \* what the supervisor, or connect() before it, is doing
    proof,          \* history: where the answer authenticate() took came from
    timedOut,       \* history: connections given up before their answer
    faults          \* faults so far

links   == <<sockets, registered>>
fields  == <<socket, running, authenticated, receiver, heartbeat>>
threads == <<receivers, hearts, monitor, supervisor>>
history == <<proof, timedOut, faults>>
linkVars    == <<links, fields, threads, queue, history>>

Conns == 1..MaxConns

\* open: not closed by the node.  peer: what is left of the other end; a silent
\* one never answers, and only writing to it tells.  answer: one is under way.
Socket ==
    [open : BOOLEAN, peer : {"none", "up", "closed", "silent"},
     auth : {"unsent", "sent", "lost", "accepted", "answered"},
     answer : BOOLEAN]

Threads == {"supervisor", "receiver", "heart"} \X (0..MaxConns)

Free == [by |-> <<"nobody", 0>>, at |-> "free"]

Receiver == [pc : {"none", "loop", "read", "ending", "done"}, from : 0..MaxConns]

Heart ==
    [pc : {"none", "made", "beating", "ping", "ending", "off"}, shut : BOOLEAN]

LinkTypeOK ==
    /\ sockets       \in [Conns -> Socket]
    /\ registered    \in 0..MaxConns
    /\ socket        \in 0..MaxConns
    /\ running       \in BOOLEAN
    /\ authenticated \in BOOLEAN
    /\ receiver      \in 0..socket
    /\ heartbeat     \in 0..socket
    /\ receivers     \in [Conns -> Receiver]
    /\ hearts        \in [Conns -> Heart]
    /\ queue         \in Seq(Conns)
    /\ monitor       \in [by : Threads, at : {"heart", "close", "join"}]
                             \cup {Free}
    /\ supervisor    \in {"dial", "connect", "start", "auth", "await", "make",
                          "schedule", "poll", "clean", "abort", "gone"}
    /\ proof         \in 0..MaxConns
    /\ timedOut      \subseteq Conns
    /\ faults        \in 0..MaxFaults

LinkInit ==
    /\ sockets       = [c \in Conns |-> [open |-> FALSE, peer |-> "none",
                                         auth |-> "unsent", answer |-> FALSE]]
    /\ registered    = 0
    /\ socket        = 0
    /\ running       = FALSE
    /\ authenticated = FALSE
    /\ receiver      = 0
    /\ heartbeat     = 0
    /\ receivers     = [c \in Conns |-> [pc |-> "none", from |-> 0]]
    /\ hearts        = [c \in Conns |-> [pc |-> "none", shut |-> FALSE]]
    /\ queue         = << >>
    /\ monitor       = Free
    /\ supervisor    = "dial"
    /\ proof         = 0
    /\ timedOut      = {}
    /\ faults        = 0

-----------------------------------------------------------------------------
IsConnected == running /\ authenticated /\ socket # 0

\* Both ends of c are there.
Whole(c) == sockets[c].open /\ sockets[c].peer = "up"

\* A fault, if it is one, and if the bound allows it.
Fault(happens) ==
    /\ happens => faults < MaxFaults
    /\ faults' = IF happens THEN faults + 1 ELSE faults

Goes(pc) == supervisor' = pc

\* Threads of earlier connections that have not run their cleanup() yet.
Pending ==
    \E c \in Conns : \/ receivers[c].pc \in {"loop", "read", "ending"}
                     \/ hearts[c].pc \in {"ping", "ending"}

-----------------------------------------------------------------------------
(***************************************************************************)
(* connect(), then superviseLoop(): doConnect step by step.                *)
(***************************************************************************)

\* A thread that waits for the monitor as the last cleanup() ends gets it long
\* before a connection is made; that it does not is taken for a fault.
Dial ==
    /\ supervisor = "dial" /\ socket < MaxConns
    /\ Fault(Pending)
    /\ socket' = socket + 1
    /\ sockets' = [sockets EXCEPT ![socket + 1].open = TRUE]
    /\ Goes("connect")
    /\ UNCHANGED <<registered, running, authenticated, receiver, heartbeat,
                   receivers, hearts, monitor, queue, proof, timedOut>>

Connect ==
    /\ supervisor = "connect" /\ sockets[socket].open
    /\ sockets' = [sockets EXCEPT ![socket].peer = "up"]
    /\ Goes("start")
    /\ UNCHANGED <<registered, fields, receivers, hearts, monitor, queue,
                   history>>

ConnectFails ==
    /\ supervisor = "connect"
    /\ Fault(sockets[socket].open)
    /\ Goes("abort")
    /\ UNCHANGED <<links, fields, receivers, hearts, monitor, queue, proof,
                   timedOut>>

\* The streams, running, and the receiver thread.
StartReceiver ==
    /\ supervisor = "start" /\ sockets[socket].open
    /\ running' = TRUE
    /\ receiver' = socket
    /\ receivers' = [receivers EXCEPT ![socket].pc = "loop"]
    /\ Goes("auth")
    /\ UNCHANGED <<links, socket, authenticated, heartbeat, hearts, monitor,
                   queue, history>>

NoStreams ==
    /\ supervisor = "start" /\ ~sockets[socket].open
    /\ Goes("abort")
    /\ UNCHANGED <<links, fields, receivers, hearts, monitor, queue, history>>

\* authenticate(): STORAGE_AUTH is sent; to a broken link it is lost.
SendAuth ==
    /\ supervisor = "auth" /\ monitor = Free /\ running
    /\ sockets' = IF Whole(socket)
                  THEN [sockets EXCEPT ![socket].auth = "sent"] ELSE sockets
    /\ Goes("await")
    /\ UNCHANGED <<registered, fields, receivers, hearts, monitor, queue,
                   history>>

AuthFails ==
    /\ supervisor = "auth" /\ monitor = Free
    /\ ~running \/ ~Whole(socket)
    /\ Goes("abort")
    /\ UNCHANGED <<links, fields, receivers, hearts, monitor, queue, history>>

\* waitForResponse takes whatever answer is first in the queue.
TakeAnswer ==
    /\ supervisor = "await" /\ queue # << >>
    /\ proof' = Head(queue)
    /\ queue' = Tail(queue)
    /\ authenticated' = TRUE
    /\ Goes("make")
    /\ UNCHANGED <<links, socket, running, receiver, heartbeat, receivers,
                   hearts, monitor, timedOut, faults>>

\* Mutant: no answer is as good as one.
TakesSilence ==
    /\ supervisor = "await" /\ queue = << >>
    /\ proof' = socket
    /\ authenticated' = TRUE
    /\ Goes("make")
    /\ UNCHANGED <<links, socket, running, receiver, heartbeat, receivers,
                   hearts, monitor, queue, timedOut, faults>>

\* RESPONSE_TIMEOUT_MS pass; a fault unless the link is broken.
AwaitTimesOut ==
    /\ supervisor = "await" /\ queue = << >>
    /\ Fault(Whole(socket))
    /\ timedOut' = timedOut \cup {socket}
    /\ Goes("abort")
    /\ UNCHANGED <<links, fields, receivers, hearts, monitor, queue, proof>>

MakeHeartbeat ==
    /\ supervisor = "make"
    /\ heartbeat' = socket
    /\ hearts' = [hearts EXCEPT ![socket].pc = "made"]
    /\ Goes("schedule")
    /\ UNCHANGED <<links, socket, running, authenticated, receiver, receivers,
                   monitor, queue, history>>

ScheduleHeartbeat ==
    /\ supervisor = "schedule" /\ heartbeat = socket
    /\ hearts' = [hearts EXCEPT ![socket].pc = "beating"]
    /\ Goes("poll")
    /\ UNCHANGED <<links, fields, receivers, monitor, queue, history>>

\* After the first attempt nothing connects again: without a connection the
\* node goes on alone, and this exception ends it.
AfterFailure == IF socket = 1 THEN "gone" ELSE "poll"

\* A cleanup() has shut the executor down or forgotten it: no IOException.
ScheduleFails ==
    /\ supervisor = "schedule" /\ heartbeat # socket
    /\ Goes(AfterFailure)
    /\ UNCHANGED <<links, fields, receivers, hearts, monitor, queue, history>>

\* Mutant: the supervisor leaves cleaning up to the receiver.
DialsAtOnce ==
    /\ supervisor = "poll" /\ ~IsConnected
    /\ Goes("dial")
    /\ UNCHANGED <<links, fields, receivers, hearts, monitor, queue, history>>

\* The supervisor looks every SUPERVISOR_POLL_MS, and after each backoff.
FindLinkDown ==
    /\ supervisor = "poll" /\ ~IsConnected
    /\ Goes("clean")
    /\ UNCHANGED <<links, fields, receivers, hearts, monitor, queue, history>>

-----------------------------------------------------------------------------
(***************************************************************************)
(* receiveLoop() and the heartbeat.                                        *)
(***************************************************************************)

\* Each turn of the loop reads the stream that is in the field by then.
Turn(c) ==
    /\ receivers[c].pc = "loop"
    /\ receivers' = [receivers EXCEPT ![c] =
           IF running THEN [pc |-> "read", from |-> receiver]
           ELSE [pc |-> "ending", from |-> 0]]
    /\ UNCHANGED <<links, fields, hearts, monitor, supervisor, queue, history>>

Reading(c, d) == receivers[c] = [pc |-> "read", from |-> d]

ReceiveAnswer(c, d) ==
    /\ Reading(c, d) /\ sockets[d].open /\ sockets[d].answer
    /\ sockets' = [sockets EXCEPT ![d].answer = FALSE]
    /\ queue' = Append(queue, d)
    /\ receivers' = [receivers EXCEPT ![c].pc = "loop"]
    /\ UNCHANGED <<registered, fields, hearts, monitor, supervisor, history>>

\* Two threads each read a part of the frame.
ReceiveGarbage(c, d) ==
    /\ Reading(c, d) /\ sockets[d].open /\ sockets[d].answer
    /\ \E b \in Conns \ {c} : Reading(b, d)
    /\ sockets' = [sockets EXCEPT ![d].answer = FALSE]
    /\ receivers' = [receivers EXCEPT ![c].pc = "ending"]
    /\ UNCHANGED <<registered, fields, hearts, monitor, supervisor, queue,
                   history>>

LoseLink(c, d) ==
    /\ Reading(c, d) /\ (~sockets[d].open \/ sockets[d].peer = "closed")
    /\ receivers' = [receivers EXCEPT ![c].pc = "ending"]
    /\ UNCHANGED <<links, fields, hearts, monitor, supervisor, queue, history>>

Ping(c) ==
    /\ hearts[c].pc = "beating" /\ authenticated /\ running
    /\ hearts' = [hearts EXCEPT ![c].pc = "ping"]
    /\ UNCHANGED <<links, fields, receivers, monitor, supervisor, queue,
                   history>>

SendPing(c) ==
    /\ hearts[c].pc = "ping" /\ monitor = Free
    /\ running /\ Whole(receiver)
    /\ hearts' = [hearts EXCEPT ![c].pc =
                      IF hearts[c].shut THEN "off" ELSE "beating"]
    /\ UNCHANGED <<links, fields, receivers, monitor, supervisor, queue,
                   history>>

\* Mutant: a ping that fails is only logged.
PingIsLogged(c) ==
    /\ hearts[c].pc = "ping" /\ monitor = Free
    /\ ~running \/ ~Whole(receiver)
    /\ hearts' = [hearts EXCEPT ![c].pc =
                      IF hearts[c].shut THEN "off" ELSE "beating"]
    /\ UNCHANGED <<links, fields, receivers, monitor, supervisor, queue,
                   history>>

\* At the latest when TCP has tried often enough to get a ping through.
PingFails(c) ==
    /\ hearts[c].pc = "ping" /\ monitor = Free
    /\ ~running \/ ~Whole(receiver)
    /\ hearts' = [hearts EXCEPT ![c].pc = "ending"]
    /\ UNCHANGED <<links, fields, receivers, monitor, supervisor, queue,
                   history>>

-----------------------------------------------------------------------------
(***************************************************************************)
(* cleanup(), run by the supervisor, a receiver or a heartbeat, on         *)
(* whatever the fields hold by then.                                       *)
(***************************************************************************)
StartCleanup(by) ==
    /\ monitor = Free
    /\ running' = FALSE
    /\ authenticated' = FALSE
    /\ monitor' = [by |-> by, at |-> "heart"]
    /\ UNCHANGED <<links, socket, receiver, heartbeat, receivers, hearts,
                   supervisor, queue, history>>

StopHeartbeat ==
    /\ monitor.at = "heart"
    /\ heartbeat' = 0
    /\ hearts' = [c \in Conns |->
           IF c # heartbeat THEN hearts[c]
           ELSE [pc |-> IF hearts[c].pc \in {"made", "beating"} THEN "off"
                        ELSE hearts[c].pc,
                 shut |-> TRUE]]
    /\ monitor' = [monitor EXCEPT !.at = "close"]
    /\ UNCHANGED <<links, socket, running, authenticated, receiver, receivers,
                   supervisor, queue, history>>

CloseSocket ==
    /\ monitor.at = "close"
    /\ sockets' = IF socket = 0 THEN sockets
                  ELSE [sockets EXCEPT ![socket].open = FALSE]
    /\ monitor' = [monitor EXCEPT !.at = "join"]
    /\ UNCHANGED <<registered, fields, receivers, hearts, supervisor, queue,
                   history>>

\* The receiver has ended, or join(2000) has; it cannot end while it waits for
\* the monitor.  The thread goes on after its cleanup().
EndCleanup ==
    /\ monitor.at = "join"
    /\ monitor' = Free
    /\ LET who == monitor.by[1]
           c   == monitor.by[2]
       IN  /\ supervisor' = IF who # "supervisor" THEN supervisor
                            ELSE IF supervisor = "clean" THEN "dial"
                            ELSE AfterFailure
           /\ receivers' = IF who = "receiver"
                           THEN [receivers EXCEPT ![c].pc = "done"]
                           ELSE receivers
           /\ hearts' = IF who = "heart"
                        THEN [hearts EXCEPT ![c].pc =
                                  IF hearts[c].shut THEN "off" ELSE "beating"]
                        ELSE hearts
    /\ UNCHANGED <<links, fields, queue, history>>

SupervisorCleans ==
    supervisor \in {"clean", "abort"} /\ StartCleanup(<<"supervisor", 0>>)

ReceiverCleans(c) ==
    receivers[c].pc = "ending" /\ StartCleanup(<<"receiver", c>>)

HeartCleans(c) == hearts[c].pc = "ending" /\ StartCleanup(<<"heart", c>>)

-----------------------------------------------------------------------------
(***************************************************************************)
(* The coordinator and the network.                                        *)
(***************************************************************************)

\* registry.authenticate; the manifest is reconciled before the answer is sent.
AcceptAuth(c) ==
    /\ sockets[c].auth = "sent"
    /\ registered' = c
    /\ sockets' = [d \in Conns |->
           IF d = c THEN [sockets[d] EXCEPT !.auth = "accepted"]
           ELSE IF d = registered /\ sockets[d].peer = "up"
           THEN [sockets[d] EXCEPT !.peer = "closed"]
           ELSE sockets[d]]
    /\ UNCHANGED <<fields, threads, queue, history>>

SendAnswer(c) ==
    /\ sockets[c].auth = "accepted"
    /\ sockets' = [sockets EXCEPT ![c].auth = "answered",
                                  ![c].answer = Whole(c)]
    /\ UNCHANGED <<registered, fields, threads, queue, history>>

DropLink(c, how) ==
    /\ Whole(c)
    /\ Fault(TRUE)
    /\ sockets' = [sockets EXCEPT ![c].peer = how, ![c].answer = FALSE]
    /\ UNCHANGED <<registered, fields, threads, queue, proof, timedOut>>

CoordinatorRestart ==
    /\ Fault(TRUE)
    /\ registered' = 0
    /\ sockets' = [c \in Conns |->
           [sockets[c] EXCEPT
               !.peer = IF @ = "up" THEN "closed" ELSE @,
               !.auth = IF @ = "sent" THEN "lost" ELSE @]]
    /\ UNCHANGED <<fields, threads, queue, proof, timedOut>>

-----------------------------------------------------------------------------
Supervise ==
    \/ Dial \/ Connect \/ ConnectFails \/ StartReceiver \/ NoStreams
    \/ SendAuth \/ AuthFails \/ TakeAnswer \/ AwaitTimesOut
    \/ MakeHeartbeat \/ ScheduleHeartbeat \/ ScheduleFails
    \/ FindLinkDown \/ SupervisorCleans

Receive(c) ==
    \/ Turn(c) \/ ReceiverCleans(c)
    \/ \E d \in Conns :
           ReceiveAnswer(c, d) \/ ReceiveGarbage(c, d) \/ LoseLink(c, d)

Beat(c) == Ping(c) \/ SendPing(c) \/ PingFails(c) \/ HeartCleans(c)

Clean == StopHeartbeat \/ CloseSocket \/ EndCleanup

Coordinate(c) == AcceptAuth(c) \/ SendAnswer(c)

Faults ==
    \/ \E c \in Conns : DropLink(c, "closed") \/ DropLink(c, "silent")
    \/ CoordinatorRestart

LinkNext ==
    \/ Supervise \/ Clean \/ Faults
    \/ \E c \in Conns : Receive(c) \/ Beat(c) \/ Coordinate(c)

\* Every thread runs on, a beat comes every 30 seconds, and the coordinator's
\* workers get to every message.
Fairness ==
    /\ WF_linkVars(Supervise) /\ WF_linkVars(Clean)
    /\ \A c \in Conns :
           /\ WF_linkVars(Receive(c)) /\ WF_linkVars(Beat(c)) /\ WF_linkVars(Coordinate(c))

LinkSpec == LinkInit /\ [][LinkNext]_linkVars /\ Fairness

-----------------------------------------------------------------------------
(***************************************************************************)
(* Properties.                                                             *)
(***************************************************************************)

\* A node that takes itself for connected has an answer the coordinator gave
\* when it accepted this very connection; or, once an authentication has timed
\* out, an earlier one whose answer came late and stayed in responseQueue
\* (authenticate, waitForResponse).
LinkIsGenuine ==
    IsConnected =>
        /\ proof = socket \/ timedOut # {}
        /\ sockets[proof].auth \in {"accepted", "answered"}

\* However the cleanups of old threads run into a new connection, no heartbeat
\* is left behind: one that nobody shut down is in the field, where the next
\* cleanup() finds it (startHeartbeat, cleanup).
NoHeartIsLost ==
    \A c \in Conns : hearts[c].pc # "none" /\ ~hearts[c].shut => heartbeat = c

Linked ==
    /\ IsConnected /\ Whole(socket)
    /\ sockets[socket].auth \in {"accepted", "answered"}
    /\ registered = socket

\* After the last fault the node and the coordinator come to agree on a link
\* again and keep it, unless the very first connection failed: then the node
\* never tries again (superviseLoop, receiveLoop, startHeartbeat).
LinkComesBack == <>[]Linked \/ <>[](supervisor = "gone")
====
