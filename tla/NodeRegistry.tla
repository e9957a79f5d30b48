---- MODULE NodeRegistry ----
(***************************************************************************)
(* The registry of connected storage nodes (StorageNodeRegistry), the      *)
(* socket server that feeds it, and the upload slots it counts to spread   *)
(* the load.  Every method of the registry runs under one lock, so each is *)
(* one action; what interleaves is the acceptor thread, the worker threads *)
(* that run STORAGE_AUTH, the request threads that take and give back      *)
(* slots, and the nodes, which come and go on connections of their own.    *)
(*                                                                         *)
(* Connections are numbered in the order they are accepted.  An entry of   *)
(* the registry is found by its connection (info) and by its node (byId).  *)
(***************************************************************************)
EXTENDS FiniteSets, Integers

CONSTANTS
    Nodes,      \* storage nodes, by the nodeId they send
    Uploads,    \* identifiers of uploads, which double as reservation ids
    Fds,        \* file descriptors a socket may get
    MaxConns,   \* how many connections are accepted at most (bound)
    None

ASSUME NoneAssumption == None \notin Nodes /\ None \notin Nat
ASSUME MaxConnsAssumption == MaxConns \in Nat
ASSUME UploadsAssumption == IsFiniteSet(Uploads)

VARIABLES
    link,       \* link[n]: the connection node n uses, as n sees it
    sockets,    \* the server's side of each connection
    batch,      \* events select() returned that _run_loop has not come to
    closing,    \* the connection the acceptor has closed but not yet removed
    info,       \* _nodes_by_connection
    byId,       \* _nodes_by_id, as the connection of the entry
    slots,      \* _reservations
    begun,      \* uploads a slot was taken for
    strained    \* history: nodes whose entry went away while slots were held
                \* against them, until none is

socketVars == <<link, sockets, batch, closing>>
tableVars  == <<info, byId>>
slotVars   == <<slots, begun, strained>>
vars       == <<socketVars, tableVars, slotVars>>

Conns == 1..MaxConns

\* The listening socket, which no connection is.
Listener == 0

\* watched: the selector has an entry for the socket's descriptor.
\* replaced: authenticate has closed it, for a newer entry; late: its handshake
\* was handled after the connection had been removed (both history).
Socket ==
    [node : Nodes, fd : Fds, open : BOOLEAN, watched : BOOLEAN, replaced : BOOLEAN,
     late : BOOLEAN, auth : {"unsent", "queued", "handled"}]

NoSocket == [open |-> FALSE, watched |-> FALSE]

\* fresh: the last ping is less than timeout_seconds old.  load: active_uploads.
Info == [authenticated : BOOLEAN, fresh : BOOLEAN, load : Nat]

NoInfo == [authenticated |-> FALSE]

Slot == [node : Nodes, expired : BOOLEAN]

NoSlot == [node |-> None]

TypeOK ==
    /\ link     \in [Nodes -> Conns \cup {None}]
    /\ sockets  \in [Conns -> Socket \cup {NoSocket}]
    /\ batch    \subseteq Conns \cup {Listener}
    /\ closing  \in Conns \cup {None}
    /\ info     \in [Conns -> Info \cup {NoInfo}]
    /\ byId     \in [Nodes -> Conns \cup {None}]
    /\ slots    \in [Uploads -> Slot \cup {NoSlot}]
    /\ begun    \subseteq Uploads
    /\ strained \subseteq Nodes

\* A registry that was just made.
EmptyInfo  == [c \in Conns |-> NoInfo]
EmptyById  == [n \in Nodes |-> None]
EmptySlots == [u \in Uploads |-> NoSlot]

\* The server listens, and has accepted nothing.
Init ==
    /\ link     = [n \in Nodes |-> None]
    /\ sockets  = [c \in Conns |-> NoSocket]
    /\ batch    = {}
    /\ closing  = None
    /\ info     = EmptyInfo
    /\ byId     = EmptyById
    /\ slots    = EmptySlots
    /\ begun    = {}
    /\ strained = {}

\* The slots held against n.
Held(n) == {u \in Uploads : slots[u].node = n}

\* n's entry goes away, or another takes its place, and slots stay behind.
LosingSlots(n) == IF Held(n) = {} THEN {} ELSE {n}

----
(***************************************************************************)
(* The socket server.  One acceptor thread accepts, reads and closes; what *)
(* it reads it hands to a pool of workers.                                 *)
(***************************************************************************)

\* select() returns what is readable of the sockets it watches.  The batch is
\* worked off one event at a time, and before the next select(), whatever the
\* workers do to its sockets meanwhile.
Select ==
    /\ batch = {} /\ closing = None
    /\ batch' \in SUBSET ({c \in Conns : sockets[c].open /\ sockets[c].watched} \cup {Listener})
    /\ UNCHANGED <<link, sockets, closing, tableVars, slotVars>>

\* _run_loop comes to an event, once the callbacks of a close have returned.
Handles(e) ==
    /\ closing = None
    /\ e \in batch
    /\ batch' = batch \ {e}

\* Accepting fails, or what is read is nothing the registry hears of.
Pass(e) ==
    /\ Handles(e)
    /\ e # Listener => sockets[e].open
    /\ UNCHANGED <<link, sockets, closing, tableVars, slotVars>>

\* receive_data returns None: the peer has closed or reset the connection.
PeerGone(c) == link[sockets[c].node] # c

\* Node n opens a connection; the kernel gives it any descriptor that is free.
\* selector.register raises KeyError when the selector still has an entry for
\* that descriptor: the exception is logged, the socket stays in _connections,
\* and neither is it read nor does the registry hear of it.
Accept(n, c, d) ==
    /\ link[n] = None /\ Handles(Listener)
    /\ sockets[c] = NoSocket /\ \A b \in 1..(c - 1) : sockets[b] # NoSocket
    /\ \A b \in Conns : sockets[b].open => sockets[b].fd # d
    /\ LET served == \A b \in Conns : sockets[b].watched => sockets[b].fd # d
       IN  /\ sockets' = [sockets EXCEPT ![c] =
                  [node |-> n, fd |-> d, open |-> TRUE, watched |-> served,
                   replaced |-> FALSE, late |-> FALSE, auth |-> "unsent"]]
           /\ info' = [info EXCEPT ![c] =
                  IF served THEN [authenticated |-> FALSE, fresh |-> TRUE, load |-> 0] ELSE @]
    /\ link' = [link EXCEPT ![n] = c]
    /\ UNCHANGED <<closing, byId, slotVars>>

\* The node crashes, gives up waiting, or the network cuts it off.
Disconnect(n) ==
    /\ link[n] # None
    /\ link' = [link EXCEPT ![n] = None]
    /\ UNCHANGED <<sockets, batch, closing, tableVars, slotVars>>

\* STORAGE_AUTH, the first message on a connection, is read and queued.
QueueAuth(c) ==
    /\ Handles(c)
    /\ sockets[c].open /\ sockets[c].auth = "unsent"
    /\ sockets' = [sockets EXCEPT ![c].auth = "queued"]
    /\ UNCHANGED <<link, closing, tableVars, slotVars>>

\* The peer is gone, or authenticate has closed the socket since select()
\* returned and reading it raises.
CannotRead(c) == PeerGone(c) \/ ~sockets[c].open

\* Fault: the selector lets go of the socket and nobody closes it.
StopsWatching(c) ==
    /\ Handles(c) /\ CannotRead(c)
    /\ sockets' = [sockets EXCEPT ![c].watched = FALSE]
    /\ closing' = c
    /\ UNCHANGED <<link, tableVars, slotVars>>

\* _close_connection up to the callback.  The entry the selector has for the
\* socket goes, of a closed socket too: it is found by the object then.
CloseConnection(c) ==
    /\ Handles(c) /\ CannotRead(c)
    /\ sockets' = [sockets EXCEPT ![c].open = FALSE, ![c].watched = FALSE]
    /\ closing' = c
    /\ UNCHANGED <<link, tableVars, slotVars>>

----
(***************************************************************************)
(* Entries of the registry.                                                *)
(***************************************************************************)

\* Fault: a connection that is not its node's current one is left alone.
RemoveCurrent(c) ==
    LET n    == sockets[c].node
        last == info[c] # NoInfo /\ byId[n] = c
    IN  /\ info' = IF last THEN [info EXCEPT ![c] = NoInfo] ELSE info
        /\ byId' = IF last THEN [byId EXCEPT ![n] = None] ELSE byId
        /\ strained' = IF last THEN strained \cup LosingSlots(n) ELSE strained

\* Fault: the entry is looked up by the node, not by the connection.
RemoveNode(c) ==
    /\ info' = [info EXCEPT ![c] = NoInfo]
    /\ byId' = [byId EXCEPT ![sockets[c].node] = None]
    /\ strained' = strained \cup LosingSlots(sockets[c].node)

\* remove_connection: the node's entry goes only if it is this connection's.
RemoveConnection(c) ==
    LET n    == sockets[c].node
        last == info[c] # NoInfo /\ byId[n] = c
    IN  /\ info' = [info EXCEPT ![c] = NoInfo]
        /\ byId' = IF last THEN [byId EXCEPT ![n] = None] ELSE byId
        /\ strained' = IF last THEN strained \cup LosingSlots(n) ELSE strained

\* _on_connection_closed, the callback that ends a close.
OnConnectionClosed(c) ==
    /\ closing = c
    /\ RemoveConnection(c)
    /\ closing' = None
    /\ UNCHANGED <<link, sockets, batch, slots, begun>>

\* c is closed, and OnConnectionClosed is through with it.
Removed(c) == ~sockets[c].open /\ closing # c

\* Fault: the socket that is closed is the one that authenticates.
ClosesNewSocket(old, c) ==
    [sockets EXCEPT ![c].auth = "handled", ![c].late = Removed(c),
                    ![c].open = old \in {None, c}]

\* The socket of the entry c replaces is closed; the selector is not told.
ClosesOldSocket(old, c) ==
    [b \in Conns |->
        IF b = c THEN [sockets[b] EXCEPT !.auth = "handled", !.late = Removed(c)]
        ELSE IF b = old /\ sockets[b].open THEN [sockets[b] EXCEPT !.open = FALSE, !.replaced = TRUE]
        ELSE sockets[b]]

\* _run_handler: a worker takes the message whenever it comes to it, and does
\* not ask what became of the connection.
Taken(c) == sockets[c] # NoSocket /\ sockets[c].auth = "queued"

\* authenticate, on a worker.  It may run after the connection was removed,
\* and then makes an entry that nothing will remove.
Authenticate(c) ==
    /\ Taken(c)
    /\ LET n   == sockets[c].node
           old == byId[n]
           new == [authenticated |-> TRUE, fresh |-> TRUE,
                   load |-> IF info[c] = NoInfo THEN 0 ELSE info[c].load]
       IN  /\ info' = [b \in Conns |->
                  IF b = c THEN new ELSE IF b = old THEN NoInfo ELSE info[b]]
           /\ byId' = [byId EXCEPT ![n] = c]
           /\ sockets' = ClosesOldSocket(old, c)
           /\ strained' = IF old = c THEN strained ELSE strained \cup LosingSlots(n)
    /\ UNCHANGED <<link, batch, closing, slots, begun>>

\* heartbeat, of whatever entry the connection has.
Heartbeat(c) == info' = [info EXCEPT ![c].fresh = TRUE]

\* A PING that arrives.
Ping(c) ==
    /\ info[c].authenticated /\ ~PeerGone(c)
    /\ Heartbeat(c)
    /\ UNCHANGED <<socketVars, byId, slotVars>>

\* timeout_seconds pass without a ping.
FallSilent(c) ==
    /\ info[c].authenticated /\ info[c].fresh
    /\ info' = [info EXCEPT ![c].fresh = FALSE]
    /\ UNCHANGED <<socketVars, byId, slotVars>>

----
(***************************************************************************)
(* Slots: select_for_upload takes one for an upload and release_           *)
(* reservation gives it back.  Slots past their TTL go at the next select. *)
(***************************************************************************)

FlooredMinus(load, k) == IF load > k THEN load - k ELSE 0

\* Fault: one pass takes one slot at most off a node's counter.
UnloadedOnce(us) ==
    [c \in Conns |->
        IF info[c].authenticated /\ byId[sockets[c].node] = c
           /\ \E u \in us : slots[u].node = sockets[c].node
        THEN [info[c] EXCEPT !.load = FlooredMinus(@, 1)]
        ELSE info[c]]

\* The entries after _release_reservation_locked on each slot of us: the
\* counter it lowers is that of the node's entry by now, if it has one.
Unloaded(us) ==
    [c \in Conns |->
        IF info[c].authenticated /\ byId[sockets[c].node] = c
        THEN [info[c] EXCEPT !.load =
                 FlooredMinus(@, Cardinality({u \in us : slots[u].node = sockets[c].node}))]
        ELSE info[c]]

\* The slots without those of us.
Without(us) == [u \in Uploads |-> IF u \in us THEN NoSlot ELSE slots[u]]

\* What is left of strained: its nodes that still have slots held against them.
StillStrained == {n \in strained : \E u \in Uploads : slots'[u].node = n}

\* When the INSERT fails, a node reports how the upload ended, or the cleanup
\* finds the row orphaned; any number of times, without a slot to no effect.
ReleaseReservation(u) ==
    /\ slots[u] # NoSlot
    /\ info' = Unloaded({u})
    /\ slots' = Without({u})
    /\ strained' = StillStrained
    /\ UNCHANGED <<socketVars, byId, begun>>

\* The slot is older than its TTL (60 seconds; an upload may well take longer).
ExpireSlot(u) ==
    /\ slots[u] # NoSlot /\ ~slots[u].expired
    /\ slots' = [slots EXCEPT ![u].expired = TRUE]
    /\ UNCHANGED <<socketVars, tableVars, begun, strained>>

Expired == {u \in Uploads : slots[u] # NoSlot /\ slots[u].expired}

Healthy == {n \in Nodes : byId[n] # None /\ info[byId[n]].authenticated /\ info[byId[n]].fresh}

\* Power of two choices: one of two random nodes, and not the busier one.  Ties
\* go by free space and name, which are left open here.
Picks(entries) ==
    {n \in Healthy :
        \/ Healthy = {n}
        \/ \E m \in Healthy \ {n} : entries[byId[n]].load <= entries[byId[m]].load}

\* INIT_UPLOAD takes a slot on a healthy node for the new upload u.
SelectForUpload(u) ==
    /\ u \notin begun
    /\ \E n \in Picks(Unloaded(Expired)) :
          /\ info' = [Unloaded(Expired) EXCEPT ![byId[n]].load = @ + 1]
          /\ slots' = [Without(Expired) EXCEPT ![u] = [node |-> n, expired |-> FALSE]]
    /\ begun' = begun \cup {u}
    /\ strained' = StillStrained
    /\ UNCHANGED <<socketVars, byId>>

\* STORAGE_NODE_UNAVAILABLE: expired slots are reaped all the same.
SelectNone ==
    /\ Healthy = {} /\ Expired # {}
    /\ info' = Unloaded(Expired)
    /\ slots' = Without(Expired)
    /\ strained' = StillStrained
    /\ UNCHANGED <<socketVars, byId, begun>>

----
\* stop closes every socket and the selector, and waits for the workers.
Stopped ==
    [c \in Conns |->
        IF sockets[c] = NoSocket THEN NoSocket
        ELSE [sockets[c] EXCEPT !.open = FALSE, !.watched = FALSE, !.auth = "handled"]]

\* The coordinator process stops and starts; nothing of this is persisted.
CoordinatorRestart ==
    /\ link' = [n \in Nodes |-> None]
    /\ sockets' = Stopped
    /\ batch' = {}
    /\ closing' = None
    /\ info' = EmptyInfo
    /\ byId' = EmptyById
    /\ slots' = EmptySlots
    /\ strained' = {}
    /\ UNCHANGED begun

Next ==
    \/ \E n \in Nodes, c \in Conns, d \in Fds : Accept(n, c, d)
    \/ \E n \in Nodes : Disconnect(n)
    \/ Select \/ \E e \in Conns \cup {Listener} : Pass(e)
    \/ \E c \in Conns : QueueAuth(c) \/ CloseConnection(c) \/ OnConnectionClosed(c)
    \/ \E c \in Conns : Authenticate(c) \/ Ping(c) \/ FallSilent(c)
    \/ \E u \in Uploads : SelectForUpload(u) \/ ReleaseReservation(u) \/ ExpireSlot(u)
    \/ SelectNone
    \/ CoordinatorRestart

Spec == Init /\ [][Next]_vars

----
(***************************************************************************)
(* Properties.                                                             *)
(***************************************************************************)

\* The two tables of the registry agree: an authenticated entry is its node's
\* entry, and a node's entry is reached by its connection too, however
\* reconnections and late closes interleave (authenticate, remove_connection).
TablesAgree ==
    /\ \A c \in Conns : info[c].authenticated => byId[sockets[c].node] = c
    /\ \A n \in Nodes : byId[n] # None =>
           info[byId[n]].authenticated /\ sockets[byId[n]].node = n

\* A node that is gone stays in the registry, with a connection that the server
\* has closed, only if its handshake was handled after that close: a worker had
\* the message still when OnConnectionClosed ran (authenticate makes the entry
\* of a connection nobody will close again).
ClosedEntriesExplained ==
    \A c \in Conns : info[c] # NoInfo /\ Removed(c) => sockets[c].late

Load(n) == info[byId[n]].load

\* The balancer never takes a node for busier than the slots held against it
\* make it, and it counts them exactly unless the node's entry went away while
\* slots were held: slots taken from an earlier entry may then be given back to
\* a later one, and the counter is right again when all of them are back.
LoadExplained ==
    \A n \in Nodes : byId[n] # None =>
        /\ Load(n) <= Cardinality(Held(n))
        /\ n \in strained \/ Load(n) = Cardinality(Held(n))

\* authenticate closes the connection a node still uses only if it runs for an
\* older connection of that node, overtaken by the newer one in the pool.
LiveLinksAreSpared ==
    [][\A n \in Nodes :
          link[n] # None /\ link'[n] = link[n] /\ sockets[link[n]].open
                         /\ ~sockets'[link[n]].open
          => \E c \in 1..(link[n] - 1) : sockets[c] # NoSocket /\ sockets[c].node = n
                                         /\ sockets[c].auth = "queued"]_vars

\* A socket that is open and never read is one whose descriptor an earlier
\* socket had, which authenticate closed without telling the selector: the
\* selector had an entry for that descriptor still when the later socket was
\* accepted, and it does not learn of the later one, though a stale event may
\* remove that entry afterwards (authenticate, _accept_connection, _run_loop).
SocketsLeakExplained ==
    \A c \in Conns : sockets[c].open /\ ~sockets[c].watched =>
        \E b \in 1..(c - 1) : sockets[b].fd = sockets[c].fd /\ sockets[b].replaced

====
