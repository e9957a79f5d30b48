---- MODULE NodeRegistry_proofs ----
(***************************************************************************)
(* Proofs about NodeRegistry, for every set of nodes, of descriptors and   *)
(* of uploads (finite, where slots are counted), and however many          *)
(* connections are accepted.                                               *)
(***************************************************************************)
EXTENDS NodeRegistry, FiniteSetTheorems, TLAPS

----
(***************************************************************************)
(* The inductive invariant.  Both tables speak of sockets that were        *)
(* accepted; connections are numbered without a gap, so that a socket that *)
(* is accepted is the last; and the link of a node is the last one it      *)
(* opened.                                                                 *)
(***************************************************************************)

Known(c) == sockets[c] # NoSocket

EntriesAreKnown ==
    /\ \A c \in Conns : info[c] # NoInfo => Known(c)
    /\ closing # None => Known(closing)
    /\ \A e \in batch \ {Listener} : Known(e)

Numbered == \A c \in Conns : Known(c) => \A b \in 1..(c - 1) : Known(b)

LinksAreLatest ==
    \A n \in Nodes : link[n] # None =>
        /\ Known(link[n]) /\ sockets[link[n]].node = n
        /\ \A c \in Conns : Known(c) /\ sockets[c].node = n => c <= link[n]

\* The selector keeps the entry of a closed socket only if authenticate closed it.
ClosedAreReplaced ==
    \A c \in Conns : sockets[c].watched /\ ~sockets[c].open => sockets[c].replaced

RegistryInv ==
    /\ TypeOK
    /\ EntriesAreKnown
    /\ Numbered
    /\ LinksAreLatest
    /\ TablesAgree
    /\ SocketsLeakExplained
    /\ ClosedAreReplaced

LEMMA SocketIsSome == \A s \in Socket : s # NoSocket
  BY DEF Socket, NoSocket

LEMMA InfoIsSome == \A i \in Info : i # NoInfo
  BY DEF Info, NoInfo

LEMMA NoneIsNoConn == None \notin Conns
  BY NoneAssumption, MaxConnsAssumption DEF Conns

LEMMA SlotIsSome == \A s \in Slot : s # NoSlot
  BY DEF Slot, NoSlot

\* Only an entry is authenticated, and only a socket that was accepted is open.
LEMMA SomeIsReal ==
    ASSUME TypeOK, NEW c \in Conns
    PROVE  /\ c \in Nat
           /\ info[c].authenticated => info[c] \in Info
           /\ sockets[c].open \/ sockets[c].watched => sockets[c] \in Socket
           /\ Known(c) => sockets[c] \in Socket
  BY MaxConnsAssumption DEF TypeOK, Conns, NoInfo, NoSocket, Known

LEMMA InitRegistry == Init => RegistryInv
  BY DEF Init, RegistryInv, TypeOK, EntriesAreKnown, Known, Numbered,
         LinksAreLatest, TablesAgree, SocketsLeakExplained, ClosedAreReplaced, EmptyInfo,
         EmptyById, EmptySlots, NoInfo, NoSocket, NoSlot

\* The sockets change in nothing but what was sent and whether they are open.
SocketsKept ==
    \A c \in Conns : /\ Known(c)' <=> Known(c)
                     /\ Known(c) => sockets'[c].node = sockets[c].node

\* What follows when the sockets stay the same or only age.
LEMMA SameSockets ==
    ASSUME RegistryInv, SocketsKept, TypeOK',
           \A n \in Nodes : link'[n] \in {link[n], None},
           \A c \in Conns : info'[c] # NoInfo => Known(c),
           closing' # None => Known(closing'),
           batch' \subseteq batch
    PROVE  EntriesAreKnown' /\ Numbered' /\ LinksAreLatest'
  <1>1. EntriesAreKnown'
    BY DEF RegistryInv, EntriesAreKnown, SocketsKept, TypeOK, Known
  <1>2. Numbered'
    <2> SUFFICES ASSUME NEW c \in Conns, Known(c)', NEW b \in 1..(c - 1)
                 PROVE  Known(b)'
      BY DEF Numbered
    <2>1. b \in Conns
      BY MaxConnsAssumption DEF Conns
    <2> QED  BY <2>1 DEF RegistryInv, Numbered, SocketsKept
  <1>3. LinksAreLatest'
    <2> SUFFICES ASSUME NEW n \in Nodes, link'[n] # None
                 PROVE  /\ sockets'[link'[n]] # NoSocket /\ sockets'[link'[n]].node = n
                        /\ \A c \in Conns : Known(c)' /\ sockets'[c].node = n
                                            => c <= link'[n]
      BY DEF LinksAreLatest, Known
    <2>1. link'[n] = link[n] /\ link[n] \in Conns
      BY DEF RegistryInv, TypeOK
    <2>2. /\ Known(link[n]) /\ sockets[link[n]].node = n
          /\ \A c \in Conns : Known(c) /\ sockets[c].node = n => c <= link[n]
      BY <2>1 DEF RegistryInv, LinksAreLatest
    <2>3. Known(link[n])' /\ sockets'[link[n]].node = n
      BY <2>1, <2>2 DEF SocketsKept
    <2>4. ASSUME NEW c \in Conns, Known(c)', sockets'[c].node = n
          PROVE  c <= link[n]
      BY <2>2, <2>4 DEF SocketsKept
    <2> QED  BY <2>1, <2>3, <2>4 DEF Known
  <1> QED  BY <1>1, <1>2, <1>3

----
(***************************************************************************)
(* The socket server.                                                      *)
(***************************************************************************)

LEMMA AcceptKeeps ==
    ASSUME RegistryInv, NEW n \in Nodes, NEW c \in Conns, NEW d \in Fds,
           Accept(n, c, d)
    PROVE  RegistryInv'
  <1>0. TypeOK /\ ~Known(c) /\ c \in Nat
    BY SomeIsReal DEF RegistryInv, Accept, Known
  <1> DEFINE served == \A b \in Conns : sockets[b].watched => sockets[b].fd # d
             new == [node |-> n, fd |-> d, open |-> TRUE, watched |-> served,
                     replaced |-> FALSE, late |-> FALSE, auth |-> "unsent"]
  <1>1. new \in Socket
    BY DEF Socket
  <1>2. /\ sockets' = [sockets EXCEPT ![c] = new]
        /\ link' = [link EXCEPT ![n] = c]
        /\ info' = [info EXCEPT ![c] =
               IF served THEN [authenticated |-> FALSE, fresh |-> TRUE, load |-> 0]
               ELSE @]
        /\ batch' \subseteq batch
        /\ UNCHANGED <<closing, byId, slots, begun, strained>>
    BY DEF Accept, Handles, slotVars
  <1>3. TypeOK'
    BY <1>0, <1>1, <1>2 DEF TypeOK, Info
  <1>4. /\ sockets'[c] = new /\ Known(c)'
        /\ \A b \in Conns \ {c} : sockets'[b] = sockets[b]
    BY <1>0, <1>1, <1>2, SocketIsSome DEF TypeOK, Known
  <1>5. \A b \in Conns : Known(b) => b < c
    <2> SUFFICES ASSUME NEW b \in Conns, Known(b), ~(b < c) PROVE FALSE
      OBVIOUS
    <2>1. b \in Nat /\ c # b
      BY <1>0, SomeIsReal
    <2>2. c \in 1..(b - 1)
      BY <1>0, <2>1 DEF Conns
    <2> QED  BY <1>0, <2>2 DEF RegistryInv, Numbered
  <1>6. EntriesAreKnown'
    BY <1>0, <1>2, <1>4 DEF RegistryInv, EntriesAreKnown, TypeOK, Known
  <1>7. Numbered'
    <2> SUFFICES ASSUME NEW a \in Conns, Known(a)', NEW b \in 1..(a - 1)
                 PROVE  Known(b)'
      BY DEF Numbered
    <2>1. b \in Conns
      BY MaxConnsAssumption DEF Conns
    <2>2. CASE a = c
      BY <2>1, <2>2, <1>4 DEF Accept, Known, Conns
    <2>3. CASE a # c
      BY <2>1, <2>3, <1>4 DEF RegistryInv, Numbered, Known
    <2> QED  BY <2>2, <2>3
  <1>8. LinksAreLatest'
    <2> SUFFICES ASSUME NEW m \in Nodes, link'[m] # None
                 PROVE  /\ sockets'[link'[m]] # NoSocket /\ sockets'[link'[m]].node = m
                        /\ \A b \in Conns : Known(b)' /\ sockets'[b].node = m
                                            => b <= link'[m]
      BY DEF LinksAreLatest, Known
    <2>1. CASE m = n
      <3>1. link'[m] = c
        BY <1>0, <1>2, <2>1 DEF TypeOK
      <3>2. \A b \in Conns : Known(b)' => b <= c
        BY <1>0, <1>4, <1>5, SomeIsReal DEF Known
      <3>3. sockets'[c] # NoSocket /\ sockets'[c].node = m
        BY <1>4, <2>1 DEF Known
      <3> QED  BY <3>1, <3>2, <3>3
    <2>2. CASE m # n
      <3>1. link'[m] = link[m] /\ link[m] \in Conns
        BY <1>0, <1>2, <2>2 DEF TypeOK
      <3>2. Known(link[m]) /\ link[m] # c
        BY <1>0, <3>1 DEF RegistryInv, LinksAreLatest
      <3>3. sockets'[link[m]] # NoSocket /\ sockets'[link[m]].node = m
        BY <1>4, <2>2, <3>1, <3>2 DEF RegistryInv, LinksAreLatest, Known
      <3>4. ASSUME NEW b \in Conns, Known(b)', sockets'[b].node = m
            PROVE  b <= link[m]
        <4>1. b # c
          BY <1>1, <1>4, <2>2, <3>4
        <4> QED
          BY <1>4, <3>1, <3>4, <4>1 DEF RegistryInv, LinksAreLatest, Known
      <3> QED  BY <3>1, <3>3, <3>4
    <2> QED  BY <2>1, <2>2
  <1>9. TablesAgree'
    <2>1. \A b \in Conns : info'[b].authenticated
                           => b # c /\ info[b].authenticated
      BY <1>0, <1>2 DEF RegistryInv, EntriesAreKnown, TypeOK, NoInfo
    <2>2. ASSUME NEW m \in Nodes, byId[m] # None
          PROVE  byId[m] \in Conns \ {c} /\ info'[byId[m]] = info[byId[m]]
      <3>1. byId[m] \in Conns /\ info[byId[m]].authenticated
        BY <1>0, <2>2 DEF RegistryInv, TablesAgree, TypeOK
      <3>2. info[byId[m]] # NoInfo
        BY <3>1 DEF NoInfo
      <3>3. byId[m] # c
        BY <1>0, <3>1, <3>2 DEF RegistryInv, EntriesAreKnown
      <3> QED  BY <1>0, <1>2, <3>1, <3>3 DEF TypeOK
    <2> QED  BY <1>2, <1>4, <2>1, <2>2 DEF RegistryInv, TablesAgree
  <1>10. SocketsLeakExplained'
    <2> SUFFICES ASSUME NEW a \in Conns, sockets'[a].open, ~sockets'[a].watched
                 PROVE  \E b \in 1..(a - 1) :
                            sockets'[b].fd = sockets'[a].fd /\ sockets'[b].replaced
      BY DEF SocketsLeakExplained
    <2>1. CASE a = c
      <3>1. PICK b \in Conns : sockets[b].watched /\ sockets[b].fd = d
        BY <1>4, <2>1
      <3>2. Known(b) /\ b # c /\ b < c /\ b \in Nat
        BY <1>0, <1>5, <3>1, SomeIsReal DEF Known, NoSocket
      <3>3. sockets[b].replaced
        BY <3>1 DEF Accept, RegistryInv, ClosedAreReplaced
      <3>4. b \in 1..(c - 1)
        BY <1>0, <3>2 DEF Conns
      <3> QED  BY <1>4, <2>1, <3>1, <3>2, <3>3, <3>4
    <2>2. CASE a # c
      <3>1. PICK b \in 1..(a - 1) : sockets[b].fd = sockets[a].fd /\ sockets[b].replaced
        BY <1>4, <2>2 DEF RegistryInv, SocketsLeakExplained
      <3>2. b \in Conns
        BY MaxConnsAssumption DEF Conns
      <3>3. b # c
        <4>1. Known(a)
          BY <1>4, <2>2 DEF Known, NoSocket
        <4>2. a < c
          BY <1>5, <4>1
        <4> QED  BY <1>0, <4>2, <3>2 DEF Conns
      <3> QED  BY <1>4, <2>2, <3>1, <3>2, <3>3
    <2> QED  BY <2>1, <2>2
  <1>11. ClosedAreReplaced'
    BY <1>4 DEF RegistryInv, ClosedAreReplaced
  <1> QED  BY <1>3, <1>6, <1>7, <1>8, <1>9, <1>10, <1>11 DEF RegistryInv

LEMMA DisconnectKeeps ==
    ASSUME RegistryInv, NEW n \in Nodes, Disconnect(n)
    PROVE  RegistryInv'
  <1>1. /\ link' = [link EXCEPT ![n] = None]
        /\ UNCHANGED <<sockets, batch, closing, info, byId, slots, begun, strained>>
    BY DEF Disconnect, tableVars, slotVars
  <1>2. TypeOK' /\ \A m \in Nodes : link'[m] \in {link[m], None}
    BY <1>1 DEF RegistryInv, TypeOK
  <1>3. EntriesAreKnown' /\ Numbered' /\ LinksAreLatest'
    <2>1. SocketsKept
      BY <1>1 DEF SocketsKept, Known
    <2> QED  BY <1>1, <1>2, <2>1, SameSockets DEF RegistryInv, EntriesAreKnown
  <1>4. TablesAgree' /\ SocketsLeakExplained' /\ ClosedAreReplaced'
    BY <1>1 DEF RegistryInv, TablesAgree, SocketsLeakExplained, ClosedAreReplaced
  <1> QED  BY <1>2, <1>3, <1>4 DEF RegistryInv

LEMMA SelectKeeps ==
    ASSUME RegistryInv, Select
    PROVE  RegistryInv'
  <1>1. /\ UNCHANGED <<link, sockets, closing, info, byId, slots, begun, strained>>
        /\ \A e \in batch' \ {Listener} : e \in Conns /\ sockets[e].open
    BY DEF Select, tableVars, slotVars
  <1>2. \A e \in batch' \ {Listener} : Known(e)
    BY <1>1 DEF Known, NoSocket
  <1>3. TypeOK'
    BY <1>1 DEF RegistryInv, TypeOK, Select
  <1>4. EntriesAreKnown' /\ Numbered' /\ LinksAreLatest'
    BY <1>1, <1>2 DEF RegistryInv, EntriesAreKnown, Numbered, LinksAreLatest, Known
  <1>5. TablesAgree' /\ SocketsLeakExplained' /\ ClosedAreReplaced'
    BY <1>1 DEF RegistryInv, TablesAgree, SocketsLeakExplained, ClosedAreReplaced
  <1> QED  BY <1>3, <1>4, <1>5 DEF RegistryInv

LEMMA PassKeeps ==
    ASSUME RegistryInv, NEW e \in Conns \cup {Listener}, Pass(e)
    PROVE  RegistryInv'
  <1>1. /\ UNCHANGED <<link, sockets, closing, info, byId, slots, begun, strained>>
        /\ batch' \subseteq batch
    BY DEF Pass, Handles, tableVars, slotVars
  <1>2. TypeOK' /\ SocketsKept
    BY <1>1 DEF RegistryInv, TypeOK, SocketsKept, Known
  <1>3. EntriesAreKnown' /\ Numbered' /\ LinksAreLatest'
    BY <1>1, <1>2, SameSockets DEF RegistryInv, EntriesAreKnown
  <1>4. TablesAgree' /\ SocketsLeakExplained' /\ ClosedAreReplaced'
    BY <1>1 DEF RegistryInv, TablesAgree, SocketsLeakExplained, ClosedAreReplaced
  <1> QED  BY <1>2, <1>3, <1>4 DEF RegistryInv

LEMMA QueueAuthKeeps ==
    ASSUME RegistryInv, NEW c \in Conns, QueueAuth(c)
    PROVE  RegistryInv'
  <1>1. /\ sockets' = [sockets EXCEPT ![c].auth = "queued"]
        /\ batch' \subseteq batch
        /\ UNCHANGED <<link, closing, info, byId, slots, begun, strained>>
    BY DEF QueueAuth, Handles, tableVars, slotVars
  <1>2. sockets[c] \in Socket /\ sockets'[c] \in Socket
    BY <1>1, SomeIsReal DEF RegistryInv, QueueAuth, TypeOK, Socket
  <1>3. TypeOK' /\ SocketsKept
    <2>1. Known(c) /\ Known(c)'
      BY <1>2, SocketIsSome DEF Known
    <2> QED
      BY <1>1, <1>2, <2>1 DEF RegistryInv, TypeOK, SocketsKept, Known
  <1>4. EntriesAreKnown' /\ Numbered' /\ LinksAreLatest'
    BY <1>1, <1>3, SameSockets DEF RegistryInv, EntriesAreKnown
  <1>5. TablesAgree' /\ SocketsLeakExplained' /\ ClosedAreReplaced'
    <2>1. \A b \in Conns : /\ sockets'[b].node = sockets[b].node
                           /\ sockets'[b].fd = sockets[b].fd
                           /\ sockets'[b].replaced = sockets[b].replaced
                           /\ sockets'[b].open = sockets[b].open
                           /\ sockets'[b].watched = sockets[b].watched
      BY <1>1, <1>2 DEF RegistryInv, TypeOK
    <2>2. TablesAgree'
      BY <1>1, <2>1 DEF RegistryInv, TypeOK, TablesAgree
    <2>3. ASSUME NEW a \in Conns PROVE 1..(a - 1) \subseteq Conns
      BY MaxConnsAssumption DEF Conns
    <2>4. SocketsLeakExplained'
      BY <2>1, <2>3 DEF RegistryInv, SocketsLeakExplained
    <2>5. ClosedAreReplaced'
      BY <2>1 DEF RegistryInv, ClosedAreReplaced
    <2> QED  BY <2>2, <2>4, <2>5
  <1> QED  BY <1>3, <1>4, <1>5 DEF RegistryInv

LEMMA CloseConnectionKeeps ==
    ASSUME RegistryInv, NEW c \in Conns, CloseConnection(c)
    PROVE  RegistryInv'
  <1>1. /\ sockets' = [sockets EXCEPT ![c].open = FALSE, ![c].watched = FALSE]
        /\ closing' = c
        /\ batch' \subseteq batch /\ c \in batch
        /\ UNCHANGED <<link, info, byId, slots, begun, strained>>
    BY DEF CloseConnection, Handles, tableVars, slotVars
  <1>2. sockets[c] \in Socket /\ sockets'[c] \in Socket
    <2>1. Known(c)
      BY <1>1, MaxConnsAssumption DEF RegistryInv, EntriesAreKnown, Conns, Listener
    <2> QED  BY <1>1, <2>1, SomeIsReal DEF RegistryInv, TypeOK, Socket
  <1>3. TypeOK' /\ SocketsKept /\ Known(c)
    <2>1. Known(c) /\ Known(c)'
      BY <1>2, SocketIsSome DEF Known
    <2>2. TypeOK'
      BY <1>1, <1>2 DEF RegistryInv, TypeOK
    <2>3. ASSUME NEW b \in Conns
          PROVE  /\ sockets'[b].node = sockets[b].node
                 /\ b # c => sockets'[b] = sockets[b]
      BY <1>1 DEF RegistryInv, TypeOK
    <2> QED  BY <2>1, <2>2, <2>3 DEF SocketsKept, Known
  <1>4. EntriesAreKnown' /\ Numbered' /\ LinksAreLatest'
    BY <1>1, <1>3, SameSockets DEF RegistryInv, EntriesAreKnown
  <1>5. /\ \A b \in Conns : sockets'[b].node = sockets[b].node
        /\ ~sockets'[c].open
        /\ \A b \in Conns \ {c} : sockets'[b] = sockets[b]
    BY <1>1, <1>2 DEF RegistryInv, TypeOK
  <1>6. TablesAgree'
    BY <1>1, <1>5 DEF RegistryInv, TypeOK, TablesAgree
  <1>7. SocketsLeakExplained'
    <2>1. \A b \in Conns : /\ sockets'[b].fd = sockets[b].fd
                           /\ sockets'[b].replaced = sockets[b].replaced
      BY <1>1 DEF RegistryInv, TypeOK
    <2>2. ASSUME NEW a \in Conns PROVE 1..(a - 1) \subseteq Conns
      BY MaxConnsAssumption DEF Conns
    <2>3. ASSUME NEW a \in Conns, sockets'[a].open
          PROVE  sockets[a].open /\ sockets'[a].watched = sockets[a].watched
      BY <1>5, <2>3
    <2> QED  BY <2>1, <2>2, <2>3 DEF RegistryInv, SocketsLeakExplained
  <1>8. ClosedAreReplaced'
    <2>1. ~sockets'[c].watched
      BY <1>1, <1>2 DEF RegistryInv, TypeOK, Socket
    <2> QED  BY <1>5, <2>1 DEF RegistryInv, ClosedAreReplaced
  <1> QED  BY <1>3, <1>4, <1>6, <1>7, <1>8 DEF RegistryInv

----
(***************************************************************************)
(* Entries of the registry.                                                *)
(***************************************************************************)

LEMMA OnConnectionClosedKeeps ==
    ASSUME RegistryInv, NEW c \in Conns, OnConnectionClosed(c)
    PROVE  RegistryInv'
  <1> DEFINE n == sockets[c].node
             last == info[c] # NoInfo /\ byId[n] = c
  <1>0. TypeOK /\ Known(c) /\ n \in Nodes
    <2>1. Known(c)
      BY NoneIsNoConn DEF OnConnectionClosed, RegistryInv, EntriesAreKnown
    <2> QED  BY <2>1, SomeIsReal DEF RegistryInv, Socket
  <1>1. /\ info' = [info EXCEPT ![c] = NoInfo]
        /\ byId' = IF last THEN [byId EXCEPT ![n] = None] ELSE byId
        /\ strained' = IF last THEN strained \cup LosingSlots(n) ELSE strained
        /\ closing' = None
        /\ UNCHANGED <<link, sockets, batch, slots, begun>>
    BY DEF OnConnectionClosed, RemoveConnection
  <1>2. TypeOK'
    BY <1>0, <1>1 DEF TypeOK, LosingSlots
  <1>3. EntriesAreKnown' /\ Numbered' /\ LinksAreLatest'
    <2>1. SocketsKept
      BY <1>1 DEF SocketsKept, Known
    <2>2. \A b \in Conns : info'[b] # NoInfo => Known(b)
      BY <1>0, <1>1 DEF RegistryInv, EntriesAreKnown, TypeOK
    <2> QED  BY <1>1, <1>2, <2>1, <2>2, SameSockets DEF RegistryInv
  <1>4. TablesAgree'
    <2>1. \A b \in Conns : info'[b].authenticated
                           => b # c /\ info[b].authenticated
      BY <1>0, <1>1 DEF TypeOK, NoInfo
    <2>2. \A m \in Nodes : m # n => byId'[m] = byId[m]
      BY <1>0, <1>1 DEF TypeOK
    <2>3. byId[n] = c => byId'[n] = None
      <3>1. byId[n] = c => info[c] # NoInfo
        BY <1>0, NoneIsNoConn DEF RegistryInv, TablesAgree, NoInfo
      <3> QED  BY <1>0, <1>1, <3>1 DEF TypeOK
    <2>4. byId[n] # c => byId' = byId
      BY <1>1
    <2>5. ASSUME NEW b \in Conns, info'[b].authenticated
          PROVE  byId'[sockets[b].node] = b
      <3>1. b # c /\ byId[sockets[b].node] = b
        BY <2>1, <2>5 DEF RegistryInv, TablesAgree
      <3>2. sockets[b].node \in Nodes
        <4>1. info[b] # NoInfo
          BY <2>1, <2>5 DEF NoInfo
        <4> QED
          BY <1>0, <4>1, SomeIsReal
          DEF RegistryInv, EntriesAreKnown, Socket
      <3> QED  BY <2>2, <2>4, <3>1, <3>2
    <2>6. ASSUME NEW m \in Nodes, byId'[m] # None
          PROVE  info'[byId'[m]].authenticated /\ sockets[byId'[m]].node = m
      <3>1. byId'[m] = byId[m] /\ byId[m] # c
        <4>1. CASE m = n
          BY <2>3, <2>4, <2>6, <4>1
        <4>2. CASE m # n
          <5>1. byId'[m] = byId[m]
            BY <2>2, <4>2
          <5> QED
            BY <2>6, <4>2, <5>1 DEF RegistryInv, TablesAgree
        <4> QED  BY <4>1, <4>2
      <3>2. info[byId[m]].authenticated /\ sockets[byId[m]].node = m
        BY <2>6, <3>1 DEF RegistryInv, TablesAgree
      <3>3. info'[byId[m]] = info[byId[m]]
        BY <1>0, <1>1, <2>6, <3>1 DEF TypeOK
      <3> QED  BY <3>1, <3>2, <3>3
    <2> QED  BY <1>1, <2>5, <2>6 DEF TablesAgree
  <1>5. SocketsLeakExplained' /\ ClosedAreReplaced'
    BY <1>1 DEF RegistryInv, SocketsLeakExplained, ClosedAreReplaced
  <1> QED  BY <1>2, <1>3, <1>4, <1>5 DEF RegistryInv

\* The entry that authenticate replaces, if any, is of a socket of that node.
LEMMA ReplacedEntry ==
    ASSUME RegistryInv, NEW c \in Conns, Authenticate(c)
    PROVE  /\ sockets[c] \in Socket /\ Known(c)
           /\ sockets[c].auth = "queued"
           /\ sockets[c].node \in Nodes
           /\ LET old == byId[sockets[c].node]
              IN  old # None => /\ old \in Conns
                                /\ sockets[old] \in Socket
                                /\ sockets[old].node = sockets[c].node
  <1>1. sockets[c] \in Socket /\ Known(c) /\ sockets[c].auth = "queued"
    BY SomeIsReal DEF RegistryInv, Authenticate, Taken, Known
  <1>2. sockets[c].node \in Nodes
    BY <1>1 DEF Socket
  <1> DEFINE old == byId[sockets[c].node]
  <1>3. ASSUME old # None
        PROVE  /\ old \in Conns
               /\ sockets[old] \in Socket
               /\ sockets[old].node = sockets[c].node
    <2>1. old \in Conns
      BY <1>2, <1>3 DEF RegistryInv, TypeOK
    <2>2. info[old].authenticated /\ sockets[old].node = sockets[c].node
      BY <1>2, <1>3 DEF RegistryInv, TablesAgree
    <2>3. info[old] # NoInfo
      BY <2>2 DEF NoInfo
    <2> QED
      BY <2>1, <2>2, <2>3, SomeIsReal DEF RegistryInv, EntriesAreKnown
  <1> QED  BY <1>1, <1>2, <1>3

LEMMA AuthenticateKeeps ==
    ASSUME RegistryInv, NEW c \in Conns, Authenticate(c)
    PROVE  RegistryInv'
  <1> DEFINE n   == sockets[c].node
             old == byId[n]
             new == [authenticated |-> TRUE, fresh |-> TRUE,
                     load |-> IF info[c] = NoInfo THEN 0 ELSE info[c].load]
  <1>0. /\ TypeOK /\ Known(c) /\ n \in Nodes
        /\ sockets[c] \in Socket
        /\ old # None => /\ old \in Conns /\ sockets[old] \in Socket
                         /\ sockets[old].node = n
    BY ReplacedEntry DEF RegistryInv
  <1>1. new \in Info
    BY <1>0 DEF TypeOK, Info
  <1>2. /\ info' = [b \in Conns |-> IF b = c THEN new
                                    ELSE IF b = old THEN NoInfo ELSE info[b]]
        /\ byId' = [byId EXCEPT ![n] = c]
        /\ sockets' = ClosesOldSocket(old, c)
        /\ strained' = IF old = c THEN strained ELSE strained \cup LosingSlots(n)
        /\ UNCHANGED <<link, batch, closing, slots, begun>>
    BY DEF Authenticate
  <1> HIDE DEF n, old, new
  <1>3. ASSUME NEW b \in Conns
        PROVE  /\ Known(b) => sockets'[b] \in Socket
               /\ ~Known(b) => sockets'[b] = sockets[b]
               /\ sockets'[b].node = sockets[b].node
               /\ sockets'[b].fd = sockets[b].fd
               /\ sockets'[b].watched = sockets[b].watched
               /\ sockets'[b].open => sockets[b].open
               /\ sockets[b].replaced => sockets'[b].replaced
               /\ sockets[b].open => sockets'[b].open \/ sockets'[b].replaced
    <2>1. CASE b = c
      <3>1. sockets'[b] = [sockets[b] EXCEPT !.auth = "handled", !.late = Removed(c)]
        BY <1>2, <2>1 DEF ClosesOldSocket
      <3>2. Removed(c) \in BOOLEAN
        BY DEF Removed
      <3> QED  BY <1>0, <2>1, <3>1, <3>2 DEF Socket
    <2>2. CASE b # c /\ b = old /\ sockets[b].open
      <3>1. sockets'[b] = [sockets[b] EXCEPT !.open = FALSE, !.replaced = TRUE]
        BY <1>2, <2>2 DEF ClosesOldSocket
      <3>2. sockets[b] \in Socket
        BY <1>0, <2>2, NoneIsNoConn
      <3> QED  BY <3>1, <3>2, SocketIsSome DEF Socket, Known
    <2>3. CASE b # c /\ ~(b = old /\ sockets[b].open)
      <3>1. sockets'[b] = sockets[b]
        BY <1>2, <2>3 DEF ClosesOldSocket
      <3> QED  BY <1>0, <3>1, SomeIsReal
    <2> QED  BY <2>1, <2>2, <2>3
  <1>4. TypeOK'
    <2>1. sockets' \in [Conns -> Socket \cup {NoSocket}]
      <3>1. sockets' = [b \in Conns |-> sockets'[b]]
        BY <1>2 DEF ClosesOldSocket
      <3>2. \A b \in Conns : sockets'[b] \in Socket \cup {NoSocket}
        BY <1>3 DEF Known
      <3> QED  BY <3>1, <3>2
    <2>2. info' \in [Conns -> Info \cup {NoInfo}]
      BY <1>0, <1>1, <1>2 DEF TypeOK
    <2>3. byId' \in [Nodes -> Conns \cup {None}] /\ strained' \subseteq Nodes
      BY <1>0, <1>2 DEF TypeOK, LosingSlots
    <2> QED  BY <1>0, <1>2, <2>1, <2>2, <2>3 DEF TypeOK
  <1>5. SocketsKept
    BY <1>3, SocketIsSome DEF SocketsKept, Known
  <1>6. EntriesAreKnown' /\ Numbered' /\ LinksAreLatest'
    <2>1. \A b \in Conns : info'[b] # NoInfo => Known(b)
      BY <1>0, <1>2 DEF RegistryInv, EntriesAreKnown
    <2> QED
      BY <1>2, <1>4, <1>5, <2>1, SameSockets DEF RegistryInv, EntriesAreKnown
  <1>7. TablesAgree'
    <2>1. ASSUME NEW b \in Conns, info'[b].authenticated
          PROVE  byId'[sockets'[b].node] = b
      <3>1. CASE b = c
        BY <1>0, <1>2, <1>3, <3>1 DEF TypeOK, n
      <3>2. CASE b # c
        <4>1. b # old /\ info[b].authenticated
          BY <1>2, <2>1, <3>2 DEF NoInfo
        <4>2. byId[sockets[b].node] = b
          BY <4>1 DEF RegistryInv, TablesAgree
        <4>3. sockets[b].node # n
          BY <4>1, <4>2 DEF old
        <4> QED  BY <1>0, <1>2, <1>3, <4>2, <4>3 DEF TypeOK
      <3> QED  BY <3>1, <3>2
    <2>2. ASSUME NEW m \in Nodes, byId'[m] # None
          PROVE  info'[byId'[m]].authenticated /\ sockets'[byId'[m]].node = m
      <3>1. CASE m = n
        <4>1. byId'[m] = c
          BY <1>0, <1>2, <3>1 DEF TypeOK
        <4>2. info'[c].authenticated
          BY <1>2 DEF new
        <4> QED  BY <1>3, <3>1, <4>1, <4>2 DEF n
      <3>2. CASE m # n
        <4>1. byId'[m] = byId[m] /\ byId[m] \in Conns
          BY <1>0, <1>2, <2>2, <3>2 DEF TypeOK
        <4>2. info[byId[m]].authenticated /\ sockets[byId[m]].node = m
          BY <2>2, <4>1 DEF RegistryInv, TablesAgree
        <4>3. byId[m] # c
          BY <3>2, <4>2 DEF n
        <4>4. byId[m] # old
          BY <1>0, <2>2, <3>2, <4>1, <4>2
        <4> QED  BY <1>2, <1>3, <4>1, <4>2, <4>3, <4>4
      <3> QED  BY <3>1, <3>2
    <2> QED  BY <2>1, <2>2 DEF TablesAgree
  <1>8. SocketsLeakExplained'
    <2>1. ASSUME NEW a \in Conns PROVE 1..(a - 1) \subseteq Conns
      BY MaxConnsAssumption DEF Conns
    <2> QED  BY <1>3, <2>1 DEF RegistryInv, SocketsLeakExplained
  <1>9. ClosedAreReplaced'
    BY <1>3 DEF RegistryInv, ClosedAreReplaced
  <1> QED  BY <1>4, <1>6, <1>7, <1>8, <1>9 DEF RegistryInv

\* The entries stay where they are: only what they count and when they were
\* heard of may change.
EntriesKept ==
    /\ info' \in [Conns -> Info \cup {NoInfo}]
    /\ \A c \in Conns : /\ info'[c].authenticated = info[c].authenticated
                        /\ info[c] = NoInfo => info'[c] = NoInfo

LEMMA EntriesKeptKeeps ==
    ASSUME RegistryInv, EntriesKept, UNCHANGED <<link, sockets, batch, closing, byId>>,
           slots' \in [Uploads -> Slot \cup {NoSlot}],
           begun' \subseteq Uploads, strained' \subseteq Nodes
    PROVE  RegistryInv'
  <1>1. TypeOK'
    BY DEF RegistryInv, TypeOK, EntriesKept
  <1>2. EntriesAreKnown' /\ Numbered' /\ LinksAreLatest'
    BY DEF RegistryInv, EntriesAreKnown, Numbered, LinksAreLatest, Known,
           EntriesKept
  <1>3. TablesAgree'
    BY DEF RegistryInv, TablesAgree, TypeOK, EntriesKept
  <1>4. SocketsLeakExplained' /\ ClosedAreReplaced'
    BY DEF RegistryInv, SocketsLeakExplained, ClosedAreReplaced
  <1> QED  BY <1>1, <1>2, <1>3, <1>4 DEF RegistryInv

\* A counter is lowered to zero at most.
LEMMA FlooredMinusIsNat ==
    ASSUME NEW load \in Nat, NEW k \in Nat
    PROVE  /\ FlooredMinus(load, k) \in Nat
           /\ FlooredMinus(load, k) = IF load > k THEN load - k ELSE 0
  BY DEF FlooredMinus

\* The slots of us that are held against n.
Among(us, n) == {u \in us : slots[u].node = n}

LEMMA AmongIsFinite ==
    ASSUME NEW us \in SUBSET Uploads, NEW n
    PROVE  /\ IsFiniteSet(Among(us, n)) /\ Cardinality(Among(us, n)) \in Nat
           /\ IsFiniteSet(Held(n)) /\ Cardinality(Held(n)) \in Nat
  BY UploadsAssumption, FS_Subset, FS_CardinalityType DEF Among, Held

\* Giving slots back lowers the counters of the entries their nodes have.
LEMMA UnloadedEntries ==
    ASSUME RegistryInv, NEW us \in SUBSET Uploads
    PROVE  /\ Unloaded(us) \in [Conns -> Info \cup {NoInfo}]
           /\ \A c \in Conns :
                 /\ Unloaded(us)[c].authenticated = info[c].authenticated
                 /\ info[c] = NoInfo => Unloaded(us)[c] = NoInfo
                 /\ ~info[c].authenticated => Unloaded(us)[c] = info[c]
           /\ \A n \in Nodes : byId[n] # None =>
                 Unloaded(us)[byId[n]].load =
                     FlooredMinus(Load(n), Cardinality(Among(us, n)))
  <1> DEFINE counted(c) == info[c].authenticated /\ byId[sockets[c].node] = c
             left(c) == FlooredMinus(info[c].load,
                            Cardinality({u \in us : slots[u].node = sockets[c].node}))
  <1>1. ASSUME NEW c \in Conns
        PROVE  /\ Unloaded(us)[c] \in Info \cup {NoInfo}
               /\ Unloaded(us)[c].authenticated = info[c].authenticated
               /\ info[c] = NoInfo => Unloaded(us)[c] = NoInfo
               /\ ~info[c].authenticated => Unloaded(us)[c] = info[c]
               /\ counted(c) => Unloaded(us)[c].load = left(c)
    <2>1. CASE counted(c)
      <3>1. info[c] \in Info /\ info[c] # NoInfo
        BY <2>1, SomeIsReal DEF RegistryInv, NoInfo
      <3>2. left(c) \in Nat
        <4>1. info[c].load \in Nat
          BY <3>1 DEF Info
        <4> QED
          BY <4>1, AmongIsFinite, FlooredMinusIsNat DEF Among
      <3>3. Unloaded(us)[c] = [info[c] EXCEPT !.load = left(c)]
        BY <2>1 DEF Unloaded
      <3> HIDE DEF left
      <3>4. /\ Unloaded(us)[c] \in Info
            /\ Unloaded(us)[c].authenticated = info[c].authenticated
            /\ Unloaded(us)[c].load = left(c)
        BY <3>1, <3>2, <3>3 DEF Info
      <3> QED  BY <2>1, <3>1, <3>4
    <2>2. CASE ~counted(c)
      <3>1. Unloaded(us)[c] = info[c]
        BY <2>2 DEF Unloaded
      <3> QED  BY <2>2, <3>1 DEF RegistryInv, TypeOK
    <2> QED  BY <2>1, <2>2
  <1>2. Unloaded(us) = [c \in Conns |-> Unloaded(us)[c]]
    BY DEF Unloaded
  <1>3. ASSUME NEW n \in Nodes, byId[n] # None
        PROVE  Unloaded(us)[byId[n]].load =
                   FlooredMinus(Load(n), Cardinality(Among(us, n)))
    <2>1. /\ byId[n] \in Conns /\ counted(byId[n])
          /\ sockets[byId[n]].node = n
      BY <1>3 DEF RegistryInv, TablesAgree, TypeOK
    <2> QED  BY <1>1, <2>1 DEF Load, Among
  <1> HIDE DEF counted, left
  <1>4. Unloaded(us) \in [Conns -> Info \cup {NoInfo}]
    BY <1>1, <1>2
  <1> QED  BY <1>1, <1>3, <1>4

LEMMA EntryStepKeeps ==
    ASSUME RegistryInv, NEW c \in Conns, Ping(c) \/ FallSilent(c)
    PROVE  /\ RegistryInv'
           /\ \A b \in Conns : info'[b].load = info[b].load
  <1>1. /\ UNCHANGED <<link, sockets, batch, closing, byId, slots, begun, strained>>
        /\ \E f \in BOOLEAN : info' = [info EXCEPT ![c].fresh = f]
        /\ info[c] \in Info /\ info[c].authenticated
    BY SomeIsReal
    DEF RegistryInv, Ping, FallSilent, Heartbeat, socketVars, slotVars
  <1>2. EntriesKept /\ \A b \in Conns : info'[b].load = info[b].load
    BY <1>1, InfoIsSome DEF RegistryInv, TypeOK, EntriesKept, Info
  <1>3. RegistryInv'
    BY <1>1, <1>2, EntriesKeptKeeps DEF RegistryInv, TypeOK
  <1> QED  BY <1>2, <1>3

----
(***************************************************************************)
(* Slots: a step gives some back, and may take one.                        *)
(***************************************************************************)

LEMMA ExpiredAreUploads == Expired \subseteq Uploads
  BY DEF Expired

LEMMA WithoutIsTyped ==
    ASSUME TypeOK, NEW us \in SUBSET Uploads
    PROVE  Without(us) \in [Uploads -> Slot \cup {NoSlot}]
  BY DEF TypeOK, Without

\* ReleaseReservation and SelectNone.
GivesBack(us) ==
    /\ info' = Unloaded(us) /\ slots' = Without(us) /\ strained' = StillStrained
    /\ UNCHANGED <<link, sockets, batch, closing, byId, begun>>

LEMMA GivesBackKeeps ==
    ASSUME RegistryInv, NEW us \in SUBSET Uploads, GivesBack(us)
    PROVE  RegistryInv'
  <1>1. EntriesKept
    BY UnloadedEntries DEF GivesBack, EntriesKept
  <1>2. strained' \subseteq Nodes
    BY DEF GivesBack, StillStrained, RegistryInv, TypeOK
  <1> QED
    BY <1>1, <1>2, EntriesKeptKeeps, WithoutIsTyped
    DEF GivesBack, RegistryInv, TypeOK

\* SelectForUpload, once the node is picked.
Takes(u, n) ==
    /\ info' = [Unloaded(Expired) EXCEPT ![byId[n]].load = @ + 1]
    /\ slots' = [Without(Expired) EXCEPT ![u] = [node |-> n, expired |-> FALSE]]
    /\ begun' = begun \cup {u}
    /\ strained' = StillStrained
    /\ UNCHANGED <<link, sockets, batch, closing, byId>>

LEMMA PickedEntry ==
    ASSUME RegistryInv, NEW n \in Nodes, byId[n] # None
    PROVE  /\ byId[n] \in Conns
           /\ info[byId[n]].authenticated /\ info[byId[n]] # NoInfo
           /\ info[byId[n]] \in Info /\ Load(n) \in Nat
           /\ sockets[byId[n]].node = n
           /\ Unloaded(Expired)[byId[n]] \in Info
           /\ Unloaded(Expired)[byId[n]].authenticated
           /\ Unloaded(Expired)[byId[n]].load \in Nat
  <1>1. /\ byId[n] \in Conns /\ info[byId[n]].authenticated
        /\ sockets[byId[n]].node = n
    BY DEF RegistryInv, TablesAgree, TypeOK
  <1>2. info[byId[n]] \in Info /\ info[byId[n]] # NoInfo
    BY <1>1, SomeIsReal DEF RegistryInv, NoInfo
  <1>3. /\ Unloaded(Expired)[byId[n]] \in Info \cup {NoInfo}
        /\ Unloaded(Expired)[byId[n]].authenticated
    BY <1>1, UnloadedEntries, ExpiredAreUploads
  <1> QED  BY <1>1, <1>2, <1>3 DEF Info, NoInfo, Load

LEMMA TakesKeeps ==
    ASSUME RegistryInv, NEW u \in Uploads, NEW n \in Nodes, byId[n] # None,
           Takes(u, n)
    PROVE  RegistryInv'
  <1> DEFINE before == Unloaded(Expired)
  <1>0. /\ before \in [Conns -> Info \cup {NoInfo}]
        /\ \A c \in Conns : /\ before[c].authenticated = info[c].authenticated
                            /\ info[c] = NoInfo => before[c] = NoInfo
        /\ before[byId[n]] \in Info /\ byId[n] \in Conns
        /\ info[byId[n]] # NoInfo
    BY UnloadedEntries, ExpiredAreUploads, PickedEntry
  <1>1. EntriesKept
    <2>1. info' = [before EXCEPT ![byId[n]].load = @ + 1]
      BY DEF Takes
    <2> HIDE DEF before
    <2> QED  BY <1>0, <2>1 DEF EntriesKept, Info
  <1>2. slots' \in [Uploads -> Slot \cup {NoSlot}]
    <2>1. Without(Expired) \in [Uploads -> Slot \cup {NoSlot}]
      BY WithoutIsTyped, ExpiredAreUploads DEF RegistryInv
    <2>2. [node |-> n, expired |-> FALSE] \in Slot
      BY DEF Slot
    <2> QED  BY <2>1, <2>2 DEF Takes
  <1>3. strained' \subseteq Nodes /\ begun' \subseteq Uploads
    BY DEF Takes, StillStrained, RegistryInv, TypeOK
  <1> QED  BY <1>1, <1>2, <1>3, EntriesKeptKeeps DEF Takes

\* Every step on the slots is one of these, or makes a slot older.
LEMMA SlotStep ==
    ASSUME RegistryInv
    PROVE  /\ \A u \in Uploads : ReleaseReservation(u) => GivesBack({u})
           /\ SelectNone => GivesBack(Expired)
           /\ \A u \in Uploads : SelectForUpload(u) =>
                 u \notin begun /\ \E n \in Nodes : byId[n] # None /\ Takes(u, n)
  BY DEF ReleaseReservation, SelectNone, GivesBack, SelectForUpload, Takes,
         socketVars, Picks, Healthy

LEMMA ExpireSlotKeeps ==
    ASSUME RegistryInv, NEW u \in Uploads, ExpireSlot(u)
    PROVE  /\ RegistryInv'
           /\ \A v \in Uploads : slots'[v].node = slots[v].node
           /\ \A v \in Uploads : slots'[v] # NoSlot => slots[v] # NoSlot
  <1>1. slots[u] \in Slot /\ slots' = [slots EXCEPT ![u].expired = TRUE]
    BY DEF RegistryInv, TypeOK, ExpireSlot
  <1>2. /\ slots' \in [Uploads -> Slot \cup {NoSlot}]
        /\ \A v \in Uploads : slots'[v].node = slots[v].node
        /\ \A v \in Uploads : slots'[v] # NoSlot => slots[v] # NoSlot
    BY <1>1, SlotIsSome DEF RegistryInv, TypeOK, Slot
  <1>3. EntriesKept
    BY DEF RegistryInv, TypeOK, EntriesKept, ExpireSlot, tableVars
  <1> QED
    BY <1>2, <1>3, EntriesKeptKeeps
    DEF ExpireSlot, socketVars, tableVars, RegistryInv, TypeOK

----
LEMMA RestartKeeps ==
    ASSUME RegistryInv, CoordinatorRestart
    PROVE  RegistryInv'
  <1>1. ASSUME NEW c \in Conns
        PROVE  /\ sockets'[c] \in Socket \cup {NoSocket}
               /\ Known(c)' <=> Known(c)
               /\ ~sockets'[c].open /\ ~sockets'[c].watched
    <2>1. CASE Known(c)
      <3>1. /\ sockets[c] \in Socket
            /\ sockets'[c] = [sockets[c] EXCEPT !.open = FALSE,
                                 !.watched = FALSE, !.auth = "handled"]
        BY <2>1, SomeIsReal DEF RegistryInv, Known, CoordinatorRestart, Stopped
      <3> QED  BY <2>1, <3>1, SocketIsSome DEF Socket, Known
    <2>2. CASE ~Known(c)
      BY <2>2 DEF Known, CoordinatorRestart, Stopped, NoSocket
    <2> QED  BY <2>1, <2>2
  <1>2. TypeOK'
    BY <1>1
    DEF RegistryInv, TypeOK, CoordinatorRestart, EmptyInfo, EmptyById,
        EmptySlots, Stopped
  <1>3. EntriesAreKnown' /\ TablesAgree' /\ LinksAreLatest'
    BY DEF EntriesAreKnown, TablesAgree, LinksAreLatest, CoordinatorRestart,
           EmptyInfo, EmptyById, NoInfo
  <1>4. Numbered'
    <2>1. ASSUME NEW a \in Conns PROVE 1..(a - 1) \subseteq Conns
      BY MaxConnsAssumption DEF Conns
    <2> QED  BY <1>1, <2>1 DEF RegistryInv, Numbered
  <1>5. SocketsLeakExplained' /\ ClosedAreReplaced'
    BY <1>1 DEF SocketsLeakExplained, ClosedAreReplaced
  <1> QED  BY <1>2, <1>3, <1>4, <1>5 DEF RegistryInv

LEMMA NextRegistry == RegistryInv /\ [Next]_vars => RegistryInv'
  <1> SUFFICES ASSUME RegistryInv, [Next]_vars PROVE RegistryInv'
    OBVIOUS
  <1>1. ASSUME NEW n \in Nodes, NEW c \in Conns, NEW d \in Fds, Accept(n, c, d)
        PROVE  RegistryInv'
    BY <1>1, AcceptKeeps
  <1>2. ASSUME \/ \E n \in Nodes : Disconnect(n)
               \/ Select \/ \E e \in Conns \cup {Listener} : Pass(e)
        PROVE  RegistryInv'
    BY <1>2, DisconnectKeeps, SelectKeeps, PassKeeps
  <1>3. ASSUME NEW c \in Conns,
               QueueAuth(c) \/ CloseConnection(c) \/ OnConnectionClosed(c)
        PROVE  RegistryInv'
    BY <1>3, QueueAuthKeeps, CloseConnectionKeeps, OnConnectionClosedKeeps
  <1>4. ASSUME NEW c \in Conns, Authenticate(c) \/ Ping(c) \/ FallSilent(c)
        PROVE  RegistryInv'
    BY <1>4, AuthenticateKeeps, EntryStepKeeps
  <1>5. ASSUME NEW u \in Uploads,
               SelectForUpload(u) \/ ReleaseReservation(u) \/ ExpireSlot(u)
        PROVE  RegistryInv'
    BY <1>5, SlotStep, TakesKeeps, GivesBackKeeps, ExpireSlotKeeps
  <1>6. CASE SelectNone
    BY <1>6, SlotStep, GivesBackKeeps, ExpiredAreUploads
  <1>7. CASE CoordinatorRestart
    BY <1>7, RestartKeeps
  <1>8. CASE UNCHANGED vars
    <2>1. TypeOK' /\ TablesAgree' /\ SocketsLeakExplained' /\ ClosedAreReplaced'
      BY <1>8
      DEF RegistryInv, TypeOK, TablesAgree, SocketsLeakExplained, ClosedAreReplaced, vars,
          socketVars, tableVars, slotVars
    <2>2. EntriesAreKnown' /\ Numbered' /\ LinksAreLatest'
      BY <1>8
      DEF RegistryInv, EntriesAreKnown, Numbered, LinksAreLatest, Known, vars,
          socketVars, tableVars, slotVars
    <2> QED  BY <2>1, <2>2 DEF RegistryInv
  <1> QED  BY <1>1, <1>2, <1>3, <1>4, <1>5, <1>6, <1>7, <1>8 DEF Next

LEMMA RegistryAlways == Spec => []RegistryInv
  BY InitRegistry, NextRegistry, PTL DEF Spec

\* Every variable keeps its type; what the tables hold are entries of
\* connections that were accepted.
THEOREM TypeCorrect == Spec => []TypeOK
  <1>1. RegistryInv => TypeOK
    BY DEF RegistryInv
  <1> QED  BY <1>1, RegistryAlways, PTL

\* The two tables agree at all times, however reconnections, late closes and
\* handshakes overtake each other (authenticate, remove_connection).
THEOREM TablesAlwaysAgree == Spec => []TablesAgree
  <1>1. RegistryInv => TablesAgree
    BY DEF RegistryInv
  <1> QED  BY <1>1, RegistryAlways, PTL

\* Steps that leave the entries of closed connections explained: a connection
\* that gets an entry is open, is being closed, or is late from then on.
LEMMA ClosedEntriesStep ==
    ASSUME RegistryInv, Next, ClosedEntriesExplained
    PROVE  ClosedEntriesExplained'
  <1> SUFFICES ASSUME NEW a \in Conns, info'[a] # NoInfo, Removed(a)'
               PROVE  sockets'[a].late
    BY DEF ClosedEntriesExplained
  <1>0. TypeOK /\ (info[a] # NoInfo => Known(a) /\ sockets[a] \in Socket)
    BY SomeIsReal DEF RegistryInv, EntriesAreKnown
  <1>1. info[a] # NoInfo /\ Removed(a) => sockets[a].late
    BY DEF ClosedEntriesExplained
  <1>2. ASSUME NEW n \in Nodes, NEW c \in Conns, NEW d \in Fds, Accept(n, c, d)
        PROVE  sockets'[a].late
    <2>1. a = c => sockets'[a].open
      BY <1>0, <1>2 DEF Accept, TypeOK
    <2>2. a # c => sockets'[a] = sockets[a] /\ info'[a] = info[a] /\ closing' = closing
      BY <1>0, <1>2 DEF Accept, TypeOK
    <2> QED  BY <1>1, <2>1, <2>2 DEF Removed
  <1>3. ASSUME NEW c \in Conns, QueueAuth(c)
        PROVE  sockets'[a].late
    <2>1. /\ info' = info /\ closing' = closing
          /\ sockets' = [sockets EXCEPT ![c].auth = "queued"]
      BY <1>3 DEF QueueAuth, tableVars
    <2>2. sockets'[a].open = sockets[a].open /\ sockets'[a].late = sockets[a].late
      BY <1>0, <2>1 DEF TypeOK
    <2> QED  BY <1>1, <2>1, <2>2 DEF Removed
  <1>4. ASSUME NEW c \in Conns, CloseConnection(c)
        PROVE  sockets'[a].late
    <2>1. /\ info' = info /\ closing' = c /\ closing = None
          /\ sockets' = [sockets EXCEPT ![c].open = FALSE, ![c].watched = FALSE]
      BY <1>4 DEF CloseConnection, Handles, tableVars
    <2>2. a # c /\ sockets'[a] = sockets[a]
      BY <1>0, <2>1 DEF TypeOK, Removed
    <2> QED  BY <1>1, <2>1, <2>2, NoneIsNoConn DEF Removed
  <1>5. ASSUME NEW c \in Conns, OnConnectionClosed(c)
        PROVE  sockets'[a].late
    <2>1. /\ info' = [info EXCEPT ![c] = NoInfo] /\ sockets' = sockets /\ closing = c
      BY <1>5 DEF OnConnectionClosed, RemoveConnection
    <2>2. a # c /\ info'[a] = info[a]
      BY <1>0, <2>1 DEF TypeOK
    <2> QED  BY <1>1, <2>1, <2>2 DEF Removed
  <1>6. ASSUME NEW c \in Conns, Authenticate(c)
        PROVE  sockets'[a].late
    <2> DEFINE old == byId[sockets[c].node]
    <2>1. /\ sockets' = ClosesOldSocket(old, c) /\ closing' = closing
          /\ a # c => a # old /\ info'[a] = info[a]
          /\ sockets[c] \in Socket
      BY <1>0, <1>6, ReplacedEntry DEF Authenticate, TypeOK
    <2> HIDE DEF old
    <2>2. CASE a = c
      <3>1. sockets'[a].open = sockets[c].open /\ sockets'[a].late = Removed(c)
        BY <2>1, <2>2 DEF ClosesOldSocket, Socket
      <3> QED  BY <2>1, <2>2, <3>1 DEF Removed
    <2>3. CASE a # c
      <3>1. sockets'[a] = sockets[a]
        BY <2>1, <2>3 DEF ClosesOldSocket
      <3> QED  BY <1>1, <2>1, <2>3, <3>1 DEF Removed
    <2> QED  BY <2>2, <2>3
  <1>7. CASE CoordinatorRestart
    BY <1>7 DEF CoordinatorRestart, EmptyInfo
  <1>8. CASE UNCHANGED <<sockets, closing>> /\ (info'[a] # NoInfo => info[a] # NoInfo)
    BY <1>1, <1>8 DEF Removed
  <1>9. ASSUME NEW c \in Conns, Ping(c) \/ FallSilent(c)
        PROVE  UNCHANGED <<sockets, closing>> /\ (info'[a] # NoInfo => info[a] # NoInfo)
    <2>1. /\ info[c].authenticated /\ UNCHANGED <<sockets, closing>>
          /\ \E f \in BOOLEAN : info' = [info EXCEPT ![c].fresh = f]
      BY <1>9 DEF Ping, FallSilent, Heartbeat, socketVars
    <2>2. info[c] # NoInfo
      BY <2>1 DEF NoInfo
    <2>3. a # c => info'[a] = info[a]
      BY <1>0, <2>1 DEF TypeOK
    <2> QED  BY <2>1, <2>2, <2>3
  <1>10. ASSUME NEW u \in Uploads, SelectForUpload(u)
         PROVE  UNCHANGED <<sockets, closing>> /\ (info'[a] # NoInfo => info[a] # NoInfo)
    <2>1. PICK n \in Picks(Unloaded(Expired)) :
              info' = [Unloaded(Expired) EXCEPT ![byId[n]].load = @ + 1]
      BY <1>10 DEF SelectForUpload
    <2>2. n \in Nodes /\ byId[n] # None
      BY <2>1 DEF Picks, Healthy
    <2>3. info[byId[n]] # NoInfo /\ info[a] = NoInfo => Unloaded(Expired)[a] = NoInfo
      BY <2>2, PickedEntry, UnloadedEntries, ExpiredAreUploads
    <2>4. info[a] = NoInfo => info'[a] = NoInfo
      BY <2>1, <2>2, <2>3, PickedEntry, UnloadedEntries, ExpiredAreUploads
    <2> QED  BY <1>10, <2>4 DEF SelectForUpload, socketVars
  <1>11. ASSUME NEW us \in SUBSET Uploads, GivesBack(us)
         PROVE  UNCHANGED <<sockets, closing>> /\ (info'[a] # NoInfo => info[a] # NoInfo)
    BY <1>11, UnloadedEntries DEF GivesBack
  <1>12. \A u \in Uploads : ReleaseReservation(u) => GivesBack({u})
    BY DEF ReleaseReservation, GivesBack, socketVars
  <1>13. SelectNone => GivesBack(Expired)
    BY DEF SelectNone, GivesBack, socketVars
  <1>14. ASSUME NEW n \in Nodes, Disconnect(n)
         PROVE  UNCHANGED <<sockets, closing, info>>
    BY <1>14 DEF Disconnect, tableVars
  <1>15. ASSUME NEW e \in Conns \cup {Listener}, Pass(e)
         PROVE  UNCHANGED <<sockets, closing, info>>
    BY <1>15 DEF Pass, tableVars
  <1>16. ASSUME Select PROVE UNCHANGED <<sockets, closing, info>>
    BY <1>16 DEF Select, tableVars
  <1>17. ASSUME NEW u \in Uploads, ExpireSlot(u)
         PROVE  UNCHANGED <<sockets, closing, info>>
    BY <1>17 DEF ExpireSlot, socketVars, tableVars
  <1> QED
    BY <1>2, <1>3, <1>4, <1>5, <1>6, <1>7, <1>8, <1>9, <1>10, <1>11, <1>12, <1>13,
       <1>14, <1>15, <1>16, <1>17, ExpiredAreUploads DEF Next

\* The registry keeps an entry for a connection that is closed and done with
\* only when the handshake came to a worker too late, and for no other reason.
THEOREM ClosedEntriesAlwaysExplained == Spec => []ClosedEntriesExplained
  <1>1. Init => ClosedEntriesExplained
    BY DEF Init, EmptyInfo, ClosedEntriesExplained
  <1>2. RegistryInv /\ ClosedEntriesExplained /\ [Next]_vars => ClosedEntriesExplained'
    <2>1. CASE Next
      BY <2>1, ClosedEntriesStep
    <2>2. CASE UNCHANGED vars
      BY <2>2 DEF vars, socketVars, tableVars, ClosedEntriesExplained, Removed
    <2> QED  BY <2>1, <2>2
  <1> QED  BY <1>1, <1>2, RegistryAlways, PTL DEF Spec

\* A socket nobody reads has the descriptor of an earlier one that authenticate
\* closed behind the selector's back, stale events of the selector's included;
\* there is no other way to lose one.
THEOREM LeaksExplained == Spec => []SocketsLeakExplained
  <1>1. RegistryInv => SocketsLeakExplained
    BY DEF RegistryInv
  <1> QED  BY <1>1, RegistryAlways, PTL

----
(***************************************************************************)
(* Live links.                                                             *)
(***************************************************************************)

\* A step that closes the socket of a link its node keeps is an authenticate
\* of an earlier connection.
LEMMA SparedStep ==
    ASSUME RegistryInv, Next, NEW n \in Nodes, link[n] # None,
           link'[n] = link[n], sockets[link[n]].open, ~sockets'[link[n]].open
    PROVE  \E c \in 1..(link[n] - 1) :
               /\ sockets[c] # NoSocket /\ sockets[c].node = n
               /\ sockets[c].auth = "queued"
  <1> DEFINE l == link[n]
  <1>0. /\ l \in Conns /\ l \in Nat /\ Known(l) /\ sockets[l].node = n
        /\ sockets[l] \in Socket
        /\ \A c \in Conns : Known(c) /\ sockets[c].node = n => c <= l
    BY SomeIsReal DEF RegistryInv, TypeOK, LinksAreLatest
  <1>1. ASSUME NEW m \in Nodes, NEW c \in Conns, NEW d \in Fds, Accept(m, c, d)
        PROVE  FALSE
    <2>1. c # l
      BY <1>0, <1>1 DEF Accept, Known
    <2> QED  BY <1>0, <1>1, <2>1 DEF Accept, RegistryInv, TypeOK
  <1>2. ASSUME NEW c \in Conns, QueueAuth(c) PROVE FALSE
    BY <1>0, <1>2 DEF QueueAuth, RegistryInv, TypeOK
  <1>3. ASSUME NEW c \in Conns, CloseConnection(c) PROVE FALSE
    <2>1. c # l
      BY <1>0, <1>3 DEF CloseConnection, CannotRead, PeerGone
    <2> QED  BY <1>0, <1>3, <2>1 DEF CloseConnection, RegistryInv, TypeOK
  <1>4. ASSUME NEW c \in Conns, Authenticate(c)
        PROVE  /\ c \in 1..(l - 1)
               /\ sockets[c] # NoSocket /\ sockets[c].node = n
               /\ sockets[c].auth = "queued"
    <2>1. /\ sockets[c] \in Socket /\ Known(c) /\ sockets[c].auth = "queued"
          /\ LET old == byId[sockets[c].node]
             IN  old # None => /\ old \in Conns
                               /\ sockets[old] \in Socket
                               /\ sockets[old].node = sockets[c].node
      BY <1>4, ReplacedEntry
    <2>2. sockets' = ClosesOldSocket(byId[sockets[c].node], c)
      BY <1>4 DEF Authenticate
    <2>3. c # l /\ l = byId[sockets[c].node]
      BY <1>0, <2>1, <2>2 DEF ClosesOldSocket, Socket
    <2>4. sockets[c].node = n
      BY <1>0, <2>1, <2>3, NoneIsNoConn
    <2>5. c <= l /\ c \in Nat
      BY <1>0, <2>1, <2>4, SomeIsReal DEF RegistryInv
    <2>6. c \in 1..(l - 1)
      BY <1>0, <2>3, <2>5 DEF Conns
    <2> QED  BY <2>1, <2>4, <2>6 DEF Known
  <1>5. CASE CoordinatorRestart
    BY <1>5 DEF CoordinatorRestart
  <1>6. sockets' # sockets
    OBVIOUS
  <1>7. \/ \E m \in Nodes, c \in Conns, d \in Fds : Accept(m, c, d)
        \/ \E c \in Conns : QueueAuth(c) \/ CloseConnection(c)
        \/ \E c \in Conns : Authenticate(c)
        \/ CoordinatorRestart
    BY <1>6
    DEF Next, Disconnect, Select, Pass, OnConnectionClosed, Ping, FallSilent,
        SelectForUpload, ReleaseReservation, ExpireSlot, SelectNone, socketVars
  <1> QED  BY <1>1, <1>2, <1>3, <1>4, <1>5, <1>7

\* The coordinator closes a connection that its node still uses only when it
\* authenticates an older one of that node's, whatever else is under way.
THEOREM LiveLinksSpared == Spec => LiveLinksAreSpared
  <1>1. RegistryInv /\ [Next]_vars =>
            [\A n \in Nodes :
                link[n] # None /\ link'[n] = link[n] /\ sockets[link[n]].open
                               /\ ~sockets'[link[n]].open
                => \E c \in 1..(link[n] - 1) : sockets[c] # NoSocket /\ sockets[c].node = n
                                               /\ sockets[c].auth = "queued"]_vars
    BY SparedStep
  <1> QED
    BY <1>1, InitRegistry, NextRegistry, PTL DEF Spec, LiveLinksAreSpared

----
(***************************************************************************)
(* The load.  An entry that has not authenticated counts nothing, and a    *)
(* handshake is handled once: an entry that authenticates starts from 0.   *)
(***************************************************************************)

LoadInv ==
    /\ RegistryInv
    /\ LoadExplained
    /\ \A c \in Conns : info[c].authenticated => sockets[c].auth = "handled"
    /\ \A c \in Conns : info[c] # NoInfo /\ ~info[c].authenticated
                        => info[c].load = 0
    /\ \A u \in Uploads : slots[u] # NoSlot => u \in begun

\* When entries and slots stay, so does the load of every node.
LEMMA SameLoads ==
    ASSUME RegistryInv, LoadExplained,
           \A n \in Nodes : byId'[n] # None =>
               byId'[n] = byId[n] /\ info'[byId[n]].load = info[byId[n]].load,
           \A u \in Uploads : slots'[u].node = slots[u].node,
           strained \subseteq strained'
    PROVE  LoadExplained'
  <1>1. \A n \in Nodes : Held(n)' = Held(n)
    BY DEF Held
  <1>2. \A n \in Nodes : byId'[n] # None => Load(n)' = Load(n)
    BY DEF Load
  <1> QED  BY <1>1, <1>2 DEF LoadExplained

\* What is left against n when slots are given back.
LEMMA HeldWithout ==
    ASSUME NEW us \in SUBSET Uploads, NEW n \in Nodes
    PROVE  LET left == {u \in Uploads : Without(us)[u].node = n}
           IN  /\ left = Held(n) \ Among(us, n)
               /\ IsFiniteSet(left)
               /\ Cardinality(left) = Cardinality(Held(n)) - Cardinality(Among(us, n))
               /\ Cardinality(Among(us, n)) <= Cardinality(Held(n))
  <1> DEFINE left == {u \in Uploads : Without(us)[u].node = n}
  <1>1. left = Held(n) \ Among(us, n)
    BY NoneAssumption DEF Without, Held, Among, NoSlot
  <1>2. Among(us, n) \in SUBSET Held(n) /\ Held(n) \cap Among(us, n) = Among(us, n)
    BY DEF Among, Held
  <1>3. IsFiniteSet(left)
    BY UploadsAssumption, FS_Subset
  <1>4. Cardinality(Held(n) \ Among(us, n)) =
            Cardinality(Held(n)) - Cardinality(Among(us, n))
    BY <1>2, AmongIsFinite, FS_Difference
  <1>5. Cardinality(Among(us, n)) <= Cardinality(Held(n))
    BY <1>2, AmongIsFinite, FS_Subset
  <1> QED  BY <1>1, <1>3, <1>4, <1>5

\* The counter of a node and the slots held against it, when slots are given
\* back: what explained the one explains what is left of it.
LEMMA LoadAfterGivingBack ==
    ASSUME RegistryInv, LoadExplained, NEW us \in SUBSET Uploads,
           NEW n \in Nodes, byId[n] # None
    PROVE  LET load == Unloaded(us)[byId[n]].load
               left == Cardinality({u \in Uploads : Without(us)[u].node = n})
           IN  /\ load \in Nat /\ left \in Nat
               /\ load <= left
               /\ n \in strained \/ load = left
  <1> DEFINE load == Unloaded(us)[byId[n]].load
             left == Cardinality({u \in Uploads : Without(us)[u].node = n})
             held == Cardinality(Held(n))
             back == Cardinality(Among(us, n))
  <1>1. Load(n) \in Nat /\ held \in Nat /\ back \in Nat
    BY PickedEntry, AmongIsFinite
  <1>2. load = IF Load(n) > back THEN Load(n) - back ELSE 0
    BY <1>1, UnloadedEntries, FlooredMinusIsNat
  <1>3. left = held - back /\ back <= held
    BY HeldWithout
  <1>4. Load(n) <= held /\ (n \in strained \/ Load(n) = held)
    BY DEF LoadExplained
  <1> HIDE DEF load, left, held, back
  <1>5. /\ load \in Nat /\ left \in Nat /\ load <= left
        /\ n \in strained \/ load = left
    BY <1>1, <1>2, <1>3, <1>4
  <1> QED  BY <1>5 DEF load, left

LEMMA GivesBackLoad ==
    ASSUME LoadInv, NEW us \in SUBSET Uploads, GivesBack(us)
    PROVE  LoadExplained'
  <1> SUFFICES ASSUME NEW n \in Nodes, byId'[n] # None
               PROVE  /\ Load(n)' <= Cardinality(Held(n)')
                      /\ n \in strained' \/ Load(n)' = Cardinality(Held(n)')
    BY DEF LoadExplained
  <1>1. /\ byId' = byId /\ info' = Unloaded(us) /\ slots' = Without(us)
        /\ strained' = StillStrained
    BY DEF GivesBack
  <1>2. /\ Load(n)' = Unloaded(us)[byId[n]].load
        /\ Held(n)' = {u \in Uploads : Without(us)[u].node = n}
    BY <1>1 DEF Load, Held
  <1>3. /\ Load(n)' \in Nat /\ Cardinality(Held(n)') \in Nat
        /\ Load(n)' <= Cardinality(Held(n)')
        /\ n \in strained \/ Load(n)' = Cardinality(Held(n)')
    BY <1>1, <1>2, LoadAfterGivingBack DEF LoadInv
  <1>4. ASSUME n \notin strained', n \in strained
        PROVE  Cardinality(Held(n)') = 0
    <2>1. Held(n)' = {}
      BY <1>1, <1>4 DEF StillStrained, Held
    <2> QED  BY <2>1, FS_EmptySet
  <1> QED  BY <1>3, <1>4

LEMMA TakesLoad ==
    ASSUME LoadInv, NEW u \in Uploads, u \notin begun, NEW n \in Nodes,
           byId[n] # None, Takes(u, n)
    PROVE  LoadExplained'
  <1> DEFINE before == Unloaded(Expired)
             left(m) == {v \in Uploads : Without(Expired)[v].node = m}
  <1>1. /\ byId' = byId /\ strained' = StillStrained
        /\ info' = [before EXCEPT ![byId[n]].load = @ + 1]
        /\ slots' = [Without(Expired) EXCEPT ![u] = [node |-> n, expired |-> FALSE]]
    BY DEF Takes
  <1>2. slots[u] = NoSlot /\ Without(Expired)[u] = NoSlot
    BY DEF LoadInv, Without
  <1>3. \A v \in Uploads : slots'[v].node = IF v = u THEN n ELSE Without(Expired)[v].node
    BY <1>1, WithoutIsTyped, ExpiredAreUploads DEF LoadInv, RegistryInv
  <1>4. before \in [Conns -> Info \cup {NoInfo}]
    BY UnloadedEntries, ExpiredAreUploads DEF LoadInv
  <1> SUFFICES ASSUME NEW m \in Nodes, byId[m] # None
               PROVE  /\ Load(m)' <= Cardinality(Held(m)')
                      /\ m \in strained' \/ Load(m)' = Cardinality(Held(m)')
    BY <1>1 DEF LoadExplained
  <1>5. /\ before[byId[m]].load \in Nat /\ Cardinality(left(m)) \in Nat
        /\ before[byId[m]].load <= Cardinality(left(m))
        /\ m \in strained \/ before[byId[m]].load = Cardinality(left(m))
    BY LoadAfterGivingBack, ExpiredAreUploads DEF LoadInv
  <1>6. CASE m = n
    <2>1. Load(m)' = before[byId[m]].load + 1
      <3>1. byId[n] \in Conns /\ before[byId[n]] \in Info
        BY PickedEntry DEF LoadInv
      <3> HIDE DEF before
      <3> QED  BY <1>1, <1>4, <1>6, <3>1 DEF Load, Info
    <2>2. Held(m)' = left(m) \cup {u} /\ u \notin left(m)
      BY <1>2, <1>3, <1>6, NoneAssumption DEF Held, NoSlot
    <2>3. Cardinality(Held(m)') = Cardinality(left(m)) + 1
      <3>1. IsFiniteSet(left(m))
        BY HeldWithout, ExpiredAreUploads
      <3> HIDE DEF left
      <3> QED  BY <2>2, <3>1, FS_AddElement
    <2>4. m \in strained' <=> m \in strained
      BY <1>1, <1>3, <1>6 DEF StillStrained
    <2> HIDE DEF before, left
    <2> QED  BY <1>5, <2>1, <2>3, <2>4
  <1>7. CASE m # n
    <2>1. Load(m)' = before[byId[m]].load
      <3>1. byId[m] # byId[n] /\ byId[m] \in Conns /\ byId[n] \in Conns
        BY <1>7, PickedEntry DEF LoadInv
      <3> HIDE DEF before
      <3> QED  BY <1>1, <1>4, <3>1 DEF Load
    <2>2. Held(m)' = left(m)
      BY <1>2, <1>3, <1>7, NoneAssumption DEF Held, NoSlot
    <2>3. ASSUME m \notin strained', m \in strained
          PROVE  Cardinality(left(m)) = 0
      <3>1. left(m) = {}
        BY <1>1, <2>2, <2>3 DEF StillStrained, Held
      <3> QED  BY <3>1, FS_EmptySet
    <2> HIDE DEF before, left
    <2> QED  BY <1>5, <2>1, <2>2, <2>3
  <1> QED  BY <1>6, <1>7

\* A node whose entry goes away leaves its slots behind, and is strained.
LEMMA ClosedLoad ==
    ASSUME LoadInv, RegistryInv', NEW c \in Conns, OnConnectionClosed(c)
    PROVE  LoadExplained'
  <1> DEFINE n == sockets[c].node
  <1>1. /\ info' = [info EXCEPT ![c] = NoInfo]
        /\ UNCHANGED <<slots, sockets>> /\ strained \subseteq strained'
    BY DEF OnConnectionClosed, RemoveConnection
  <1>2. ASSUME NEW m \in Nodes, byId'[m] # None
        PROVE  byId'[m] = byId[m] /\ info'[byId[m]].load = info[byId[m]].load
    <2>1. byId'[m] = byId[m] /\ byId[m] \in Conns
      BY <1>2
      DEF LoadInv, RegistryInv, TypeOK, OnConnectionClosed, RemoveConnection
    <2>2. byId[m] # c
      <3>1. info'[byId'[m]].authenticated
        BY <1>2 DEF RegistryInv, TablesAgree
      <3> QED
        BY <1>1, <2>1, <3>1 DEF LoadInv, RegistryInv, TypeOK, NoInfo
    <2> QED
      BY <1>1, <2>1, <2>2 DEF LoadInv, RegistryInv, TypeOK
  <1> QED  BY <1>1, <1>2, SameLoads DEF LoadInv

LEMMA AuthenticateLoad ==
    ASSUME LoadInv, NEW c \in Conns, Authenticate(c)
    PROVE  LoadExplained'
  <1> DEFINE n   == sockets[c].node
             old == byId[n]
  <1>0. RegistryInv /\ n \in Nodes /\ sockets[c].auth = "queued"
    BY ReplacedEntry DEF LoadInv
  <1>1. ~info[c].authenticated
    BY <1>0 DEF LoadInv
  <1>2. /\ info' = [b \in Conns |->
               IF b = c THEN [authenticated |-> TRUE, fresh |-> TRUE, load |-> 0]
               ELSE IF b = old THEN NoInfo ELSE info[b]]
        /\ byId' = [byId EXCEPT ![n] = c]
        /\ slots' = slots
        /\ strained' = IF old = c THEN strained ELSE strained \cup LosingSlots(n)
    BY <1>1 DEF Authenticate, LoadInv
  <1>3. old # c
    BY <1>0, <1>1, NoneIsNoConn DEF LoadInv, RegistryInv, TablesAgree
  <1> SUFFICES ASSUME NEW m \in Nodes, byId'[m] # None
               PROVE  /\ Load(m)' <= Cardinality(Held(m)')
                      /\ m \in strained' \/ Load(m)' = Cardinality(Held(m)')
    BY DEF LoadExplained
  <1>4. Held(m)' = Held(m) /\ Cardinality(Held(m)) \in Nat
    BY <1>2, AmongIsFinite DEF Held
  <1>5. CASE m = n
    <2>1. Load(m)' = 0
      BY <1>0, <1>2, <1>5 DEF Load, RegistryInv, TypeOK
    <2>2. Held(m) = {} \/ m \in strained'
      BY <1>2, <1>3, <1>5 DEF LosingSlots
    <2> QED  BY <1>4, <2>1, <2>2, FS_EmptySet
  <1>6. CASE m # n
    <2>1. byId'[m] = byId[m] /\ byId[m] \in Conns
      BY <1>0, <1>2, <1>6 DEF RegistryInv, TypeOK
    <2>2. sockets[byId[m]].node = m
      BY <1>0, <2>1, NoneIsNoConn DEF RegistryInv, TablesAgree
    <2>3. byId[m] # c /\ byId[m] # old
      <3>1. old # None => sockets[old].node = n
        BY <1>0 DEF RegistryInv, TablesAgree
      <3> QED  BY <1>6, <2>1, <2>2, <3>1, NoneIsNoConn
    <2>4. Load(m)' = Load(m)
      BY <1>2, <2>1, <2>3 DEF Load
    <2> QED
      BY <1>2, <1>4, <2>1, <2>4, NoneIsNoConn DEF LoadInv, LoadExplained
  <1> QED  BY <1>5, <1>6

LEMMA InitLoad == Init => LoadInv
  <1> SUFFICES ASSUME Init PROVE LoadInv
    OBVIOUS
  <1>1. RegistryInv
    BY InitRegistry
  <1>2. LoadExplained
    BY DEF Init, EmptyById, LoadExplained
  <1> QED
    BY <1>1, <1>2 DEF Init, LoadInv, EmptyInfo, EmptySlots, NoInfo

\* What LoadInv says of entries that do not count, and of slots.
LEMMA NextCounts ==
    ASSUME LoadInv, Next, RegistryInv'
    PROVE  /\ \A c \in Conns : info'[c].authenticated
                               => sockets'[c].auth = "handled"
           /\ \A c \in Conns : info'[c] # NoInfo /\ ~info'[c].authenticated
                               => info'[c].load = 0
           /\ \A u \in Uploads : slots'[u] # NoSlot => u \in begun'
  <1> DEFINE Handled == \A c \in Conns : info'[c].authenticated
                                         => sockets'[c].auth = "handled"
             Idle == \A c \in Conns : info'[c] # NoInfo /\ ~info'[c].authenticated
                                      => info'[c].load = 0
             Begun == \A u \in Uploads : slots'[u] # NoSlot => u \in begun'
  <1>0. /\ RegistryInv /\ TypeOK /\ TypeOK'
        /\ \A c \in Conns : info[c].authenticated => info[c] # NoInfo
    BY DEF LoadInv, RegistryInv, NoInfo
  <1>1. ASSUME NEW n \in Nodes, NEW c \in Conns, NEW d \in Fds, Accept(n, c, d)
        PROVE  Handled /\ Idle /\ Begun
    <2>1. /\ info[c] = NoInfo /\ ~info[c].authenticated
          /\ \A b \in Conns \ {c} : info'[b] = info[b] /\ sockets'[b] = sockets[b]
          /\ ~info'[c].authenticated
          /\ info'[c] # NoInfo => info'[c].load = 0
      BY <1>0, <1>1
      DEF Accept, TypeOK, RegistryInv, EntriesAreKnown, Known, NoInfo
    <2> QED  BY <1>1, <2>1 DEF LoadInv, Accept, slotVars
  <1>2. ASSUME \/ \E n \in Nodes : Disconnect(n)
               \/ Select \/ \E e \in Conns \cup {Listener} : Pass(e)
        PROVE  Handled /\ Idle /\ Begun
    BY <1>2 DEF Disconnect, Select, Pass, LoadInv, tableVars, slotVars
  <1>3. ASSUME NEW c \in Conns, QueueAuth(c)
        PROVE  Handled /\ Idle /\ Begun
    <2>1. ~info[c].authenticated
      BY <1>3 DEF QueueAuth, LoadInv
    <2> QED
      BY <1>0, <1>3, <2>1 DEF QueueAuth, LoadInv, tableVars, slotVars, TypeOK
  <1>4. ASSUME NEW c \in Conns, CloseConnection(c)
        PROVE  Handled /\ Idle /\ Begun
    <2>1. sockets[c] \in Socket
      <3>1. Known(c)
        BY <1>0, <1>4, MaxConnsAssumption
        DEF CloseConnection, Handles, RegistryInv, EntriesAreKnown, Conns, Listener
      <3> QED  BY <1>0, <3>1, SomeIsReal
    <2> QED
      BY <1>0, <1>4, <2>1 DEF CloseConnection, LoadInv, tableVars, slotVars, TypeOK, Socket
  <1>5. ASSUME NEW c \in Conns, OnConnectionClosed(c)
        PROVE  Handled /\ Idle /\ Begun
    BY <1>0, <1>5
    DEF OnConnectionClosed, RemoveConnection, LoadInv, TypeOK, NoInfo
  <1>6. ASSUME NEW c \in Conns, Authenticate(c)
        PROVE  Handled /\ Idle /\ Begun
    <2>1. /\ sockets' = ClosesOldSocket(byId[sockets[c].node], c)
          /\ sockets[c] \in Socket
          /\ \A b \in Conns \ {c} : info'[b] \in {NoInfo, info[b]}
          /\ info'[c].authenticated
          /\ UNCHANGED <<slots, begun>>
      BY <1>0, <1>6, ReplacedEntry DEF Authenticate
    <2>2. sockets'[c].auth = "handled"
      BY <2>1 DEF ClosesOldSocket, Socket
    <2>3. \A b \in Conns \ {c} : /\ info'[b].authenticated => sockets[b] \in Socket
      BY <1>0, <2>1, SomeIsReal, SMTT(40) DEF RegistryInv, EntriesAreKnown, NoInfo
    <2>4. \A b \in Conns \ {c} : sockets[b] \in Socket
                                 => sockets'[b].auth = sockets[b].auth
      BY <2>1 DEF ClosesOldSocket, Socket
    <2>5. ASSUME NEW b \in Conns, info'[b].authenticated
          PROVE  sockets'[b].auth = "handled"
      BY <2>1, <2>2, <2>3, <2>4, <2>5 DEF LoadInv, NoInfo
    <2>6. ASSUME NEW b \in Conns, info'[b] # NoInfo, ~info'[b].authenticated
          PROVE  info'[b].load = 0
      BY <2>1, <2>6 DEF LoadInv
    <2> QED  BY <2>1, <2>5, <2>6 DEF LoadInv
  <1>7. ASSUME NEW c \in Conns, Ping(c) \/ FallSilent(c)
        PROVE  Handled /\ Idle /\ Begun
    <2>1. \A b \in Conns \ {c} : info'[b] = info[b]
      BY <1>7 DEF Ping, FallSilent, Heartbeat, TypeOK, RegistryInv, LoadInv
    <2>2. /\ UNCHANGED <<sockets, slots, begun>>
          /\ info[c].authenticated /\ info'[c].authenticated
      <3>1. /\ \E f \in BOOLEAN : info' = [info EXCEPT ![c].fresh = f]
            /\ info[c] \in Info /\ info[c].authenticated
            /\ UNCHANGED <<sockets, slots, begun>>
        BY <1>0, <1>7, SomeIsReal
        DEF Ping, FallSilent, Heartbeat, socketVars, slotVars
      <3> QED  BY <1>0, <3>1 DEF TypeOK, Info
    <2> QED  BY <2>1, <2>2 DEF LoadInv
  <1>8. ASSUME NEW us \in SUBSET Uploads, GivesBack(us)
        PROVE  Handled /\ Idle /\ Begun
    <2>1. \A c \in Conns :
              /\ info'[c].authenticated = info[c].authenticated
              /\ ~info[c].authenticated => info'[c] = info[c]
      BY <1>0, <1>8, UnloadedEntries DEF GivesBack
    <2> QED  BY <1>8, <2>1 DEF LoadInv, GivesBack, Without
  <1>9. ASSUME NEW u \in Uploads, NEW n \in Nodes, byId[n] # None, Takes(u, n)
        PROVE  Handled /\ Idle /\ Begun
    <2> DEFINE before == Unloaded(Expired)
    <2>1. /\ \A c \in Conns :
                /\ before[c].authenticated = info[c].authenticated
                /\ ~info[c].authenticated => before[c] = info[c]
          /\ before \in [Conns -> Info \cup {NoInfo}]
          /\ byId[n] \in Conns /\ before[byId[n]] \in Info
          /\ info[byId[n]].authenticated
      BY <1>0, <1>9, UnloadedEntries, ExpiredAreUploads, PickedEntry
    <2>2. info' = [before EXCEPT ![byId[n]].load = @ + 1]
      BY <1>9 DEF Takes
    <2> HIDE DEF before
    <2>3. \A c \in Conns :
              /\ info'[c].authenticated = info[c].authenticated
              /\ ~info[c].authenticated => info'[c] = info[c]
      BY <2>1, <2>2 DEF Info
    <2>4. Begun
      BY <1>0, <1>9, WithoutIsTyped, ExpiredAreUploads
      DEF Takes, Without, LoadInv
    <2> QED  BY <1>9, <2>3, <2>4 DEF LoadInv, Takes
  <1>10. ASSUME NEW u \in Uploads, ExpireSlot(u)
        PROVE  Handled /\ Idle /\ Begun
    <2>1. UNCHANGED <<info, sockets, begun>>
      BY <1>10 DEF ExpireSlot, tableVars, socketVars
    <2> QED  BY <1>0, <1>10, <2>1, ExpireSlotKeeps DEF LoadInv
  <1>11. ASSUME CoordinatorRestart
        PROVE  Handled /\ Idle /\ Begun
    BY <1>11 DEF CoordinatorRestart, EmptyInfo, EmptySlots, NoInfo
  <1> HIDE DEF Handled, Idle, Begun
  <1>12. Handled /\ Idle /\ Begun
    BY <1>0, <1>1, <1>2, <1>3, <1>4, <1>5, <1>6, <1>7, <1>8, <1>9, <1>10, <1>11,
       SlotStep, ExpiredAreUploads
    DEF Next
  <1> QED  BY <1>12 DEF Handled, Idle, Begun

LEMMA NextLoad == LoadInv /\ [Next]_vars => LoadInv'
  <1> SUFFICES ASSUME LoadInv, [Next]_vars PROVE LoadInv'
    OBVIOUS
  <1>0. RegistryInv /\ RegistryInv' /\ LoadExplained
    BY NextRegistry DEF LoadInv
  <1>1. ASSUME NEW n \in Nodes, NEW c \in Conns, NEW d \in Fds, Accept(n, c, d)
        PROVE  LoadExplained'
    <2>1. \A m \in Nodes : byId[m] # None => byId[m] \in Conns \ {c}
      <3>1. info[c] = NoInfo /\ ~info[c].authenticated
        BY <1>0, <1>1
        DEF Accept, RegistryInv, EntriesAreKnown, Known, NoInfo
      <3> QED  BY <1>0, <3>1, PickedEntry
    <2> QED
      BY <1>0, <1>1, <2>1, SameLoads DEF Accept, slotVars, RegistryInv, TypeOK
  <1>2. ASSUME NEW c \in Conns, Ping(c) \/ FallSilent(c)
        PROVE  LoadExplained'
    <2>1. UNCHANGED <<byId, slots, strained>>
      BY <1>2 DEF Ping, FallSilent, slotVars
    <2> QED
      BY <1>0, <1>2, <2>1, EntryStepKeeps, SameLoads DEF RegistryInv, TypeOK
  <1>3. ASSUME NEW u \in Uploads, ExpireSlot(u)
        PROVE  LoadExplained'
    BY <1>0, <1>3, ExpireSlotKeeps, SameLoads DEF ExpireSlot, tableVars
  <1>4. ASSUME NEW u \in Uploads, SelectForUpload(u) \/ ReleaseReservation(u)
        PROVE  LoadExplained'
    BY <1>0, <1>4, SlotStep, TakesLoad, GivesBackLoad
  <1>5. ASSUME SelectNone PROVE LoadExplained'
    BY <1>0, <1>5, SlotStep, GivesBackLoad, ExpiredAreUploads
  <1>6. ASSUME CoordinatorRestart PROVE LoadExplained'
    BY <1>6 DEF CoordinatorRestart, LoadExplained, EmptyById
  <1>7. ASSUME NEW c \in Conns, OnConnectionClosed(c) \/ Authenticate(c)
        PROVE  LoadExplained'
    BY <1>0, <1>7, ClosedLoad, AuthenticateLoad
  <1>8. ASSUME \/ \E n \in Nodes : Disconnect(n)
               \/ Select \/ \E e \in Conns \cup {Listener} : Pass(e)
               \/ \E c \in Conns : QueueAuth(c) \/ CloseConnection(c)
               \/ UNCHANGED vars
        PROVE  LoadExplained'
    <2>1. UNCHANGED <<byId, info, slots, strained>>
      BY <1>8
      DEF Disconnect, Select, Pass, QueueAuth, CloseConnection, vars, tableVars, slotVars
    <2> QED  BY <1>0, <2>1, SameLoads
  <1>9. LoadExplained'
    BY <1>1, <1>2, <1>3, <1>4, <1>5, <1>6, <1>7, <1>8 DEF Next
  <1>10. CASE Next
    BY <1>0, <1>9, <1>10, NextCounts DEF LoadInv
  <1>11. CASE UNCHANGED vars
    BY <1>0, <1>9, <1>11
    DEF LoadInv, vars, socketVars, tableVars, slotVars
  <1> QED  BY <1>10, <1>11

\* A node is never taken for busier than the slots held against it, and its
\* counter is exact unless its entry went away under slots that are still out.
THEOREM LoadAlwaysExplained == Spec => []LoadExplained
  <1>1. LoadInv => LoadExplained
    BY DEF LoadInv
  <1> QED  BY <1>1, InitLoad, NextLoad, PTL DEF Spec

====
