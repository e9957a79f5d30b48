---- MODULE RoomMembership_proofs ----
(***************************************************************************)
(* Proofs about RoomMembership, for every number of users, rooms,          *)
(* connections and threads.                                                *)
(***************************************************************************)
EXTENDS RoomMembership, FiniteSetTheorems, TLAPS

----
(***************************************************************************)
(* What a thread knows.  Its request has the fields its next statement     *)
(* uses, and what it has read of the room's members still holds unless     *)
(* another request changed them, which marks it as overlapped.             *)
(***************************************************************************)

Changing ==
    {"FindMember", "InsertMember", "FindRole", "CountOwners", "DeleteMember",
     "FindTarget", "UpdateRole"}

\* Its permission, and that an owner is left when it deletes one.
Fits(q) ==
    /\ q.pc = "AddSubscriber" => q.conn \in Conns
    /\ q.pc \in Changing => q.user \in Users
    /\ q.pc \in Changing \cup {"InsertOwner"}
       => q.overlapped \/ CanManage(q.actor, q.room)
    /\ q.pc = "DeleteMember"
       => \/ q.overlapped
          \/ q.user \notin Owners(q.room)
          \/ Owners(q.room) \ {q.user} # {}

WorkersInv == TypeOK /\ \A w \in Workers : Fits(workers[w])

LEMMA BusyRequest ==
    ASSUME TypeOK, NEW w \in Workers, workers[w].pc # "idle"
    PROVE  workers[w] \in Request
  BY DEF TypeOK, Idle

LEMMA IdleFits == Fits(Idle)
  BY DEF Fits, Idle, Changing

\* What a step of another thread, or of nobody, does to thread v.
Bystander(v) ==
    \/ workers'[v] = Idle
    \/ /\ workers'[v] = workers[v]
       /\ members'[workers[v].room] = members[workers[v].room]
    \/ /\ workers[v] \in Request
       /\ workers'[v] = [workers[v] EXCEPT !.overlapped = TRUE]

LEMMA BystanderFits ==
    ASSUME WorkersInv, NEW v \in Workers, Bystander(v)
    PROVE  Fits(workers[v])'
  <1>1. Fits(workers[v])
    BY DEF WorkersInv
  <1>2. CASE workers'[v] = Idle
    BY <1>2 DEF Fits, Idle, Changing
  <1>3. CASE /\ workers'[v] = workers[v]
             /\ members'[workers[v].room] = members[workers[v].room]
    BY <1>1, <1>3 DEF Fits, CanManage, Owners
  <1>4. CASE /\ workers[v] \in Request
             /\ workers'[v] = [workers[v] EXCEPT !.overlapped = TRUE]
    BY <1>1, <1>4 DEF Fits, Request
  <1> QED  BY <1>2, <1>3, <1>4 DEF Bystander

\* A write of thread w leaves the other rooms alone and marks the other
\* requests for its own.
LEMMA WriteBystanders ==
    ASSUME TypeOK, NEW w \in Workers, workers[w] \in Request, NEW next,
           NEW u, NEW ro, NEW cause, Write(workers[w].room, u, ro, cause),
           AfterWrite(w, next), NEW v \in Workers \ {w}
    PROVE  Bystander(v)
  <1>1. CASE workers[v] = Idle
    BY <1>1 DEF AfterWrite, Bystander
  <1>2. CASE workers[v] # Idle /\ workers[v].room = workers[w].room
    BY <1>2 DEF AfterWrite, Bystander, TypeOK
  <1>3. CASE workers[v] # Idle /\ workers[v].room # workers[w].room
    <2>1. workers[v].room \in Rooms /\ workers'[v] = workers[v]
      BY <1>3 DEF AfterWrite, TypeOK, Request
    <2> QED  BY <1>3, <2>1 DEF Write, Bystander, TypeOK
  <1> QED  BY <1>1, <1>2, <1>3

\* A new row, or none, of a user of the room keeps the types.
LEMMA WriteType ==
    ASSUME TypeOK, NEW r \in Rooms, NEW u, NEW ro \in Roles \cup {None},
           NEW cause \in Causes \cup {None}, Write(r, u, ro, cause)
    PROVE  /\ members' \in [Rooms -> [Users -> Roles \cup {None}]]
           /\ lost' \in [Rooms -> Causes \cup {None}]
  BY DEF TypeOK, Write

LEMMA AfterWriteType ==
    ASSUME TypeOK, NEW w \in Workers, NEW next \in Request \cup {Idle},
           AfterWrite(w, next)
    PROVE  /\ workers' \in [Workers -> Request \cup {Idle}]
           /\ workers'[w] = next
  <1>1. ASSUME NEW v \in Workers, workers[v] # Idle
        PROVE  [workers[v] EXCEPT !.overlapped = TRUE] \in Request
    BY <1>1 DEF TypeOK, Request
  <1> QED  BY <1>1 DEF TypeOK, AfterWrite

LEMMA InitWorkers == Init => WorkersInv
  BY IdleFits, AdminsAssumption DEF Init, WorkersInv, TypeOK

\* A thread goes on alone, without a write.
LEMMA OneWorker ==
    ASSUME WorkersInv, NEW w \in Workers, NEW q \in Request \cup {Idle},
           workers' = [workers EXCEPT ![w] = q], UNCHANGED members,
           rooms' \subseteq Rooms, lost' \in [Rooms -> Causes \cup {None}],
           conns' = conns, subs' \in [Rooms -> SUBSET Conns],
           late' \subseteq Conns, UNCHANGED authVars, Fits(q)
    PROVE  WorkersInv'
  <1>1. TypeOK'
    BY DEF WorkersInv, TypeOK, authVars
  <1>2. ASSUME NEW v \in Workers PROVE Fits(workers[v])'
    <2>1. CASE v = w
      <3>1. workers'[v] = q
        BY <2>1 DEF WorkersInv, TypeOK
      <3> QED  BY <3>1 DEF Fits, CanManage, Owners
    <2>2. CASE v # w
      BY <2>2, BystanderFits DEF Bystander, WorkersInv, TypeOK
    <2> QED  BY <2>1, <2>2
  <1> QED  BY <1>1, <1>2 DEF WorkersInv

\* A thread writes a row of its room.
LEMMA OneWrite ==
    ASSUME WorkersInv, NEW w \in Workers, workers[w] \in Request,
           NEW q \in Request \cup {Idle}, q.pc \in {"idle", "CopySubscribers"},
           NEW u, NEW ro \in Roles \cup {None}, NEW cause \in Causes \cup {None},
           Write(workers[w].room, u, ro, cause), AfterWrite(w, q),
           UNCHANGED <<rooms, subVars, authVars>>
    PROVE  WorkersInv'
  <1>1. TypeOK /\ workers[w].room \in Rooms
    BY DEF WorkersInv, Request
  <1>2. TypeOK'
    <2>1. /\ members' \in [Rooms -> [Users -> Roles \cup {None}]]
          /\ lost' \in [Rooms -> Causes \cup {None}]
      BY <1>1, WriteType
    <2>2. workers' \in [Workers -> Request \cup {Idle}]
      BY <1>1, AfterWriteType
    <2> QED  BY <1>1, <2>1, <2>2 DEF TypeOK, subVars, authVars
  <1>3. ASSUME NEW v \in Workers PROVE Fits(workers[v])'
    <2>1. CASE v = w
      <3>1. workers'[v] = q
        BY <1>1, <2>1, AfterWriteType
      <3> QED  BY <3>1 DEF Fits, Changing
    <2>2. CASE v # w
      BY <1>1, <2>2, WriteBystanders, BystanderFits
    <2> QED  BY <2>1, <2>2
  <1> QED  BY <1>2, <1>3 DEF WorkersInv

----
(***************************************************************************)
(* Every step keeps types and what the threads know.                       *)
(***************************************************************************)

\* A request is taken up with its permission just looked up.
LEMMA Accepted ==
    ASSUME WorkersInv, NEW w \in Workers, NEW a \in Users, NEW r \in Rooms,
           NEW pc \in Steps, NEW u \in Users \cup {None},
           NEW ro \in Roles \cup {None}, NEW c \in Conns \cup {None},
           workers' = [workers EXCEPT ![w] = NewRequest(pc, a, r, u, ro, c)],
           UNCHANGED <<members, lost, subVars, authVars>>, rooms' \subseteq Rooms,
           pc = "AddSubscriber" => c \in Conns,
           pc \in Changing => u \in Users,
           pc \in Changing \cup {"InsertOwner"} => CanManage(a, r),
           pc # "DeleteMember"
    PROVE  WorkersInv'
  <1> DEFINE q == NewRequest(pc, a, r, u, ro, c)
  <1>2. /\ q \in Request /\ q.pc = pc /\ q.actor = a /\ q.room = r
        /\ q.user = u /\ q.conn = c
    BY DEF NewRequest, Request
  <1>3. /\ lost' \in [Rooms -> Causes \cup {None}] /\ conns' = conns
        /\ subs' \in [Rooms -> SUBSET Conns] /\ late' \subseteq Conns
        /\ members' = members /\ UNCHANGED authVars
        /\ workers' = [workers EXCEPT ![w] = q]
    BY DEF WorkersInv, TypeOK, subVars
  <1> HIDE DEF q
  <1>4. Fits(q)
    BY <1>2 DEF Fits, Changing
  <1> QED  BY <1>2, <1>3, <1>4, OneWorker

\* What was read of a thread's own request.
LEMMA OwnRequest ==
    ASSUME WorkersInv, NEW w \in Workers, workers[w].pc # "idle"
    PROVE  workers[w] \in Request /\ Fits(workers[w])
  BY BusyRequest DEF WorkersInv

\* Counting two or more owners leaves one that is not the user.
LEMMA AnOwnerIsLeft ==
    ASSUME NEW r, NEW u, ~(Cardinality(Owners(r)) <= 1)
    PROVE  Owners(r) \ {u} # {}
  <1>1. IsFiniteSet(Owners(r))
    BY UsersAssumption, FS_Subset DEF Owners
  <1>2. SUFFICES ASSUME Owners(r) \ {u} = {} PROVE FALSE
    OBVIOUS
  <1>3. Owners(r) = {} \/ Owners(r) = {u}
    BY <1>2
  <1>4. Cardinality(Owners(r)) = 0 \/ Cardinality(Owners(r)) = 1
    <2>1. CASE Owners(r) = {}
      BY <2>1, FS_EmptySet
    <2>2. CASE Owners(r) = {u}
      BY <2>2, FS_Singleton
    <2> QED  BY <1>3, <2>1, <2>2
  <1> QED  BY <1>4

\* The statements that read, fail, send or subscribe.
Quiet(w) ==
    \/ InsertOwnerFails(w) \/ FindMember(w) \/ FindRole(w) \/ CountOwners(w)
    \/ FindTarget(w) \/ StatementFails(w) \/ AddSubscriber(w)
    \/ CopySubscribers(w) \/ RemoveDead(w) \/ \E c \in Conns : SendEvent(w, c)

LEMMA QuietWorkers ==
    ASSUME WorkersInv, NEW w \in Workers, Quiet(w)
    PROVE  WorkersInv'
  <1>1. workers[w] \in Request /\ Fits(workers[w]) /\ TypeOK
    <2>1. workers[w].pc # "idle"
      BY DEF Quiet, InsertOwnerFails, FindMember, FindRole, CountOwners,
             FindTarget, StatementFails, AddSubscriber, CopySubscribers,
             RemoveDead, SendEvent, Busy
    <2> QED  BY <2>1, OwnRequest DEF WorkersInv
  <1>2. /\ UNCHANGED <<rooms, members, authVars, conns>>
        /\ lost' \in [Rooms -> Causes \cup {None}]
    BY <1>1 DEF Quiet, InsertOwnerFails, FindMember, FindRole, CountOwners,
           FindTarget, StatementFails, AddSubscriber, CopySubscribers,
           RemoveDead, SendEvent, tableVars, subVars, TypeOK, Causes
  <1>3. subs' \in [Rooms -> SUBSET Conns] /\ late' \subseteq Conns
    <2>1. CASE AddSubscriber(w)
      BY <1>1, <2>1 DEF AddSubscriber, Busy, Fits, TypeOK, Request
    <2>2. CASE RemoveDead(w)
      BY <1>1, <2>2 DEF RemoveDead, Without, TypeOK
    <2>3. CASE UNCHANGED subVars
      BY <1>1, <2>3 DEF subVars, TypeOK
    <2> QED
      BY <2>1, <2>2, <2>3
      DEF Quiet, InsertOwnerFails, FindMember, FindRole, CountOwners,
          FindTarget, StatementFails, CopySubscribers, SendEvent
  <1>4. ASSUME NEW q \in Request \cup {Idle}, Fits(q),
               workers' = [workers EXCEPT ![w] = q]
        PROVE  WorkersInv'
    <2>1. rooms' \subseteq Rooms
      BY <1>1, <1>2 DEF TypeOK
    <2> QED  BY <1>2, <1>3, <1>4, <2>1, OneWorker
  <1>5. CASE Finish(w)
    BY <1>4, <1>5, IdleFits DEF Finish
  <1>6. CASE \E pc \in {"InsertMember", "CountOwners", "UpdateRole"} :
                 Goto(w, pc) /\ workers[w].pc \in Changing
    <2>1. PICK pc \in {"InsertMember", "CountOwners", "UpdateRole"} :
              workers' = [workers EXCEPT ![w] = [workers[w] EXCEPT !.pc = pc]]
      BY <1>1, <1>6 DEF Goto, TypeOK
    <2>2. /\ [workers[w] EXCEPT !.pc = pc] \in Request
          /\ Fits([workers[w] EXCEPT !.pc = pc])
      BY <1>1, <1>6 DEF Request, Steps, Fits, Changing
    <2> QED  BY <2>1, <2>2, <1>4
  <1>7. CASE /\ Goto(w, "DeleteMember") /\ workers[w].pc \in Changing
             /\ \/ workers[w].user \notin Owners(workers[w].room)
                \/ Owners(workers[w].room) \ {workers[w].user} # {}
    <2> DEFINE q == [workers[w] EXCEPT !.pc = "DeleteMember"]
    <2>1. workers' = [workers EXCEPT ![w] = q]
      BY <1>1, <1>7 DEF Goto, TypeOK
    <2>2. q \in Request /\ Fits(q)
      BY <1>1, <1>7 DEF Request, Steps, Fits, Changing
    <2> QED  BY <2>1, <2>2, <1>4
  <1>8. CASE CopySubscribers(w) \/ \E c \in Conns : SendEvent(w, c)
    <2>1. CASE Finish(w)
      BY <1>5, <2>1
    <2>2. CASE CopySubscribers(w) /\ ~Finish(w)
      <3> DEFINE q == [workers[w] EXCEPT !.pc = "SendEvent",
                                         !.todo = subs[workers[w].room]]
      <3>1. workers' = [workers EXCEPT ![w] = q]
        BY <1>1, <2>2 DEF CopySubscribers, TypeOK
      <3>2. q \in Request /\ Fits(q)
        BY <1>1 DEF Request, Steps, Fits, Changing, TypeOK
      <3> QED  BY <3>1, <3>2, <1>4
    <2>3. ASSUME NEW c \in Conns, SendEvent(w, c)
          PROVE  WorkersInv'
      <3>0. PICK failed \in SUBSET {c} :
                workers' = [workers EXCEPT ![w].todo = @ \ {c}, ![w].dead = @ \cup failed]
        BY <2>3 DEF SendEvent
      <3> DEFINE q == [workers[w] EXCEPT !.todo = workers[w].todo \ {c},
                                         !.dead = workers[w].dead \cup failed]
      <3>1. workers' = [workers EXCEPT ![w] = q]
        BY <1>1, <3>0 DEF TypeOK
      <3>2. q \in Request
        BY <1>1 DEF Request
      <3>3. Fits(q)
        BY <1>1, <2>3 DEF SendEvent, Busy, Request, Fits, Changing
      <3> QED  BY <3>1, <3>2, <3>3, <1>4
    <2> QED  BY <1>8, <2>1, <2>2, <2>3
  <1>9. CASE FindRole(w)
    <2>1. CASE Goto(w, "DeleteMember")
      <3>1. workers[w].user \notin Owners(workers[w].room)
        BY <1>9, <2>1, <1>1 DEF FindRole, Goto, Finish, Owners, Idle, TypeOK, Request
      <3> QED  BY <1>7, <1>9, <2>1, <3>1 DEF FindRole, Busy, Changing
    <2> QED  BY <1>5, <1>6, <1>9, <2>1 DEF FindRole, Busy, Changing
  <1>10. CASE CountOwners(w)
    <2>1. CASE Cardinality(Owners(workers[w].room)) <= 1
      BY <1>5, <1>10, <2>1 DEF CountOwners
    <2>2. CASE ~(Cardinality(Owners(workers[w].room)) <= 1)
      BY <1>7, <1>10, <2>2, AnOwnerIsLeft DEF CountOwners, Busy, Changing
    <2> QED  BY <2>1, <2>2
  <1> QED
    BY <1>5, <1>6, <1>8, <1>9, <1>10
    DEF Quiet, InsertOwnerFails, FindMember, FindTarget, StatementFails,
        AddSubscriber, RemoveDead, Busy, Changing

\* A thread takes up a request.
LEMMA RequestWorkers ==
    ASSUME WorkersInv, NEW w \in Workers, NEW a \in Users, NEW r \in Rooms,
           \/ CreateRoom(w, a, r)
           \/ \E u \in Users, ro \in Roles : AddMember(w, a, r, u, ro)
           \/ \E u \in Users : RemoveMember(w, a, r, u)
           \/ \E u \in Users, ro \in Roles : SetRole(w, a, r, u, ro)
           \/ \E c \in Conns : SubscribeRoom(w, a, r, c)
    PROVE  WorkersInv'
  <1>1. rooms' \subseteq Rooms /\ UNCHANGED <<members, lost, subVars, authVars>>
    BY DEF CreateRoom, InsertRoom, AddMember, RemoveMember, SetRole,
           SubscribeRoom, tableVars, WorkersInv, TypeOK
  <1>2. CASE CreateRoom(w, a, r)
    <2>1. /\ workers' = [workers EXCEPT ![w] =
                 NewRequest("InsertOwner", a, r, None, None, None)]
          /\ CanManage(a, r)
      BY <1>2 DEF CreateRoom, InsertRoom, CanManage
    <2> QED  BY <1>1, <2>1, Accepted DEF Steps, Changing
  <1>3. ASSUME NEW u \in Users, NEW ro \in Roles, AddMember(w, a, r, u, ro)
        PROVE  WorkersInv'
    <2>1. /\ workers' = [workers EXCEPT ![w] =
                 NewRequest("FindMember", a, r, u, ro, None)]
          /\ CanManage(a, r)
      BY <1>3 DEF AddMember
    <2> QED  BY <1>1, <2>1, Accepted DEF Steps, Changing
  <1>4. ASSUME NEW u \in Users, RemoveMember(w, a, r, u)
        PROVE  WorkersInv'
    <2>1. /\ workers' = [workers EXCEPT ![w] =
                 NewRequest("FindRole", a, r, u, None, None)]
          /\ CanManage(a, r)
      BY <1>4 DEF RemoveMember
    <2> QED  BY <1>1, <2>1, Accepted DEF Steps, Changing
  <1>5. ASSUME NEW u \in Users, NEW ro \in Roles, SetRole(w, a, r, u, ro)
        PROVE  WorkersInv'
    <2>1. /\ workers' = [workers EXCEPT ![w] =
                 NewRequest("FindTarget", a, r, u, ro, None)]
          /\ CanManage(a, r)
      BY <1>5 DEF SetRole
    <2> QED  BY <1>1, <2>1, Accepted DEF Steps, Changing
  <1>6. ASSUME NEW c \in Conns, SubscribeRoom(w, a, r, c)
        PROVE  WorkersInv'
    <2>1. /\ workers' = [workers EXCEPT ![w] =
                 NewRequest("AddSubscriber", a, r, None, None, c)]
          /\ c \in Conns
      BY <1>6 DEF SubscribeRoom
    <2> QED  BY <1>1, <2>1, Accepted DEF Steps, Changing
  <1> QED  BY <1>2, <1>3, <1>4, <1>5, <1>6

\* A thread writes.
LEMMA WriteWorkers ==
    ASSUME WorkersInv, NEW w \in Workers,
           InsertOwner(w) \/ InsertMember(w) \/ DeleteMember(w) \/ UpdateRole(w)
    PROVE  WorkersInv'
  <1>1. workers[w] \in Request /\ Fits(workers[w]) /\ TypeOK
    <2>1. workers[w].pc # "idle"
      BY DEF InsertOwner, InsertMember, DeleteMember, UpdateRole, Busy
    <2> QED  BY <2>1, OwnRequest DEF WorkersInv
  <1> DEFINE q == [workers[w] EXCEPT !.pc = "CopySubscribers"]
  <1>2. q \in Request /\ q.pc = "CopySubscribers"
    BY <1>1 DEF Request, Steps
  <1>3. ASSUME NEW u, NEW ro \in Roles \cup {None},
               NEW cause \in Causes \cup {None},
               NEW next \in {Idle, q}, Write(workers[w].room, u, ro, cause),
               AfterWrite(w, next), UNCHANGED <<rooms, subVars, authVars>>
        PROVE  WorkersInv'
    <2> HIDE DEF q
    <2>1. next \in Request \cup {Idle} /\ next.pc \in {"idle", "CopySubscribers"}
      BY <1>2 DEF Idle
    <2> QED  BY <1>1, <1>3, <2>1, OneWrite
  <1>4. CASE InsertOwner(w)
    BY <1>3, <1>4, RolesAssumption DEF InsertOwner
  <1>5. CASE InsertMember(w)
    <2>1. workers[w].role \in Roles \cup {None}
      BY <1>1 DEF Request
    <2> QED  BY <1>3, <1>5, <2>1 DEF InsertMember, Broadcasting
  <1>6. CASE DeleteMember(w)
    BY <1>3, <1>6 DEF DeleteMember, Causes, Broadcasting
  <1>7. CASE UpdateRole(w)
    <2>1. workers[w].role \in Roles \cup {None}
      BY <1>1 DEF Request
    <2>2. CASE UNCHANGED members
      <3>1. CASE Goto(w, "CopySubscribers") /\ lost' = lost
        <4>1. workers' = [workers EXCEPT ![w] = q]
          BY <1>1, <3>1 DEF Goto, TypeOK
        <4>2. Fits(q)
          BY <1>2 DEF Fits, Changing
        <4>3. /\ rooms' \subseteq Rooms /\ lost' \in [Rooms -> Causes \cup {None}]
              /\ conns' = conns /\ subs' \in [Rooms -> SUBSET Conns]
              /\ late' \subseteq Conns /\ UNCHANGED authVars
          BY <1>1, <1>7, <3>1 DEF UpdateRole, TypeOK, subVars
        <4> HIDE DEF q
        <4> QED  BY <1>2, <2>2, <4>1, <4>2, <4>3, OneWorker
      <3> QED  BY <1>3, <1>7, <2>1, <3>1 DEF UpdateRole, Causes, Broadcasting
    <2> QED  BY <1>3, <1>7, <2>1, <2>2 DEF UpdateRole, Causes, Broadcasting
  <1> QED  BY <1>4, <1>5, <1>6, <1>7

LEMMA NextWorkers == WorkersInv /\ [Next]_vars => WorkersInv'
  <1> SUFFICES ASSUME WorkersInv, [Next]_vars PROVE WorkersInv'
    OBVIOUS
  <1>0. TypeOK
    BY DEF WorkersInv
  <1>1. ASSUME NEW w \in Workers, Step(w) PROVE WorkersInv'
    BY <1>1, QuietWorkers, WriteWorkers DEF Step, Quiet
  <1>2. CASE workers' = workers /\ members' = members /\ TypeOK'
    <2>1. \A v \in Workers : Fits(workers[v])'
      BY <1>2, BystanderFits DEF Bystander
    <2> QED  BY <1>2, <2>1 DEF WorkersInv
  <1>3. ASSUME NEW r \in Rooms, NEW c \in Conns, UnsubscribeRoom(r, c)
        PROVE  WorkersInv'
    BY <1>0, <1>2, <1>3 DEF UnsubscribeRoom, tableVars, authVars, TypeOK
  <1>4. ASSUME NEW c \in Conns,
               PeerGoes(c) \/ CloseConnection(c) \/ OnConnectionClosed(c)
        PROVE  WorkersInv'
    BY <1>0, <1>2, <1>4
    DEF PeerGoes, CloseConnection, OnConnectionClosed, Without, tableVars,
        authVars, TypeOK
  <1>5. ASSUME NEW a \in Users,
               Signup(a) \/ Login(a) \/ Logout(a) \/ ExpireSession(a)
        PROVE  WorkersInv'
    <2>1. /\ users' \subseteq Users /\ sessions' \subseteq users'
          /\ UNCHANGED <<tableVars, subVars, workers>>
      BY <1>0, <1>5
      DEF Signup, InsertUser, Login, CreateSession, Logout, ExpireSession,
          EndSession, TypeOK
    <2> QED  BY <1>0, <1>2, <2>1 DEF tableVars, subVars, TypeOK
  <1>6. CASE Restart
    <2>1. TypeOK'
      BY <1>0, <1>6 DEF Restart, TypeOK, Causes, authVars
    <2>2. \A v \in Workers : Fits(workers[v])'
      BY <1>6, BystanderFits DEF Restart, Bystander
    <2> QED  BY <2>1, <2>2 DEF WorkersInv
  <1>7. CASE UNCHANGED vars
    BY <1>0, <1>2, <1>7 DEF vars, tableVars, subVars, authVars, TypeOK
  <1>8. ASSUME NEW w \in Workers, NEW a \in Users, NEW r \in Rooms,
               \/ CreateRoom(w, a, r)
               \/ \E u \in Users, ro \in Roles : AddMember(w, a, r, u, ro)
               \/ \E u \in Users : RemoveMember(w, a, r, u)
               \/ \E u \in Users, ro \in Roles : SetRole(w, a, r, u, ro)
               \/ \E c \in Conns : SubscribeRoom(w, a, r, c)
        PROVE  WorkersInv'
    BY <1>8, RequestWorkers
  <1> QED  BY <1>1, <1>3, <1>4, <1>5, <1>6, <1>7, <1>8 DEF Next

\* Every variable keeps its type.
THEOREM TypeCorrect == Spec => []TypeOK
  <1>1. WorkersInv => TypeOK
    BY DEF WorkersInv
  <1> QED  BY <1>1, InitWorkers, NextWorkers, PTL DEF Spec

----
(***************************************************************************)
(* Writes: who makes them, and what they do to a room's owners.            *)
(***************************************************************************)

Writing(w) ==
    InsertOwner(w) \/ InsertMember(w) \/ DeleteMember(w) \/ UpdateRole(w)

\* A thread takes up a request.
Taking(w, a, r) ==
    \/ CreateRoom(w, a, r)
    \/ \E u \in Users, ro \in Roles : AddMember(w, a, r, u, ro)
    \/ \E u \in Users : RemoveMember(w, a, r, u)
    \/ \E u \in Users, ro \in Roles : SetRole(w, a, r, u, ro)
    \/ \E c \in Conns : SubscribeRoom(w, a, r, c)

\* Connections and sessions come and go.
Around ==
    \/ \E r \in Rooms, c \in Conns : UnsubscribeRoom(r, c)
    \/ \E c \in Conns :
           PeerGoes(c) \/ CloseConnection(c) \/ OnConnectionClosed(c)
    \/ \E a \in Users : Signup(a) \/ Login(a) \/ Logout(a) \/ ExpireSession(a)

LEMMA Cases ==
    ASSUME [Next]_vars
    PROVE  \/ \E w \in Workers, a \in Users, r \in Rooms : Taking(w, a, r)
           \/ \E w \in Workers : Quiet(w) \/ Writing(w)
           \/ Around
           \/ Restart
           \/ UNCHANGED vars
  BY DEF Next, Step, Taking, Quiet, Writing, Around

LEMMA TakingKeeps ==
    ASSUME NEW w \in Workers, NEW a \in Users, NEW r \in Rooms, Taking(w, a, r)
    PROVE  /\ UNCHANGED <<members, lost, subVars, authVars>>
           /\ workers[w] = Idle
           /\ \E q : workers' = [workers EXCEPT ![w] = q]
  BY DEF Taking, CreateRoom, AddMember, RemoveMember, SetRole, SubscribeRoom,
         tableVars, Accepts

LEMMA QuietKeeps ==
    ASSUME NEW w \in Workers, Quiet(w)
    PROVE  UNCHANGED <<rooms, members, conns>>
  BY DEF Quiet, InsertOwnerFails, FindMember, FindRole, CountOwners,
         FindTarget, StatementFails, AddSubscriber, CopySubscribers,
         SendEvent, RemoveDead, tableVars, subVars

LEMMA AroundKeeps == Around => UNCHANGED <<tableVars, workers>>
  BY DEF Around, UnsubscribeRoom, PeerGoes, CloseConnection,
         OnConnectionClosed, Signup, Login, Logout, ExpireSession, tableVars

\* Only the writes touch the members.
LEMMA WritersOnly ==
    ASSUME [Next]_vars, \A w \in Workers : ~Writing(w)
    PROVE  UNCHANGED members
  <1>1. CASE Restart
    BY <1>1 DEF Restart
  <1>2. CASE Around
    BY <1>2, AroundKeeps DEF tableVars
  <1>3. CASE UNCHANGED vars
    BY <1>3 DEF vars, tableVars
  <1> QED  BY <1>1, <1>2, <1>3, Cases, TakingKeeps, QuietKeeps

LEMMA AuthorizedStep ==
    ASSUME WorkersInv, [Next]_vars, NEW r \in Rooms, NEW u \in Users,
           members'[r][u] # members[r][u]
    PROVE  \E w \in Workers : MayChange(w, r)
  <1>1. PICK w \in Workers : Writing(w)
    BY WritersOnly
  <1>2. workers[w] \in Request /\ Fits(workers[w]) /\ TypeOK
    <2>1. workers[w].pc # "idle"
      BY <1>1 DEF Writing, InsertOwner, InsertMember, DeleteMember, UpdateRole,
                  Busy
    <2> QED  BY <2>1, OwnRequest DEF WorkersInv
  <1>3. PICK v, ro, cause : Write(workers[w].room, v, ro, cause)
    BY <1>1 DEF Writing, InsertOwner, InsertMember, DeleteMember, UpdateRole
  <1>4. workers[w].room = r
    BY <1>2, <1>3 DEF Write, TypeOK
  <1>5. /\ workers[w].pc \in Changing \cup {"InsertOwner"}
        /\ workers[w] # Idle
    BY <1>1 DEF Writing, InsertOwner, InsertMember, DeleteMember, UpdateRole,
                Busy, Changing, Idle
  <1> QED  BY <1>2, <1>4, <1>5 DEF Fits, MayChange

\* Whoever changes a room's members may do so at that moment or was overtaken,
\* with any number of users, rooms and threads.
THEOREM ChangesAuthorized == Spec => ChangesAreAuthorized
  <1>1. WorkersInv /\ [Next]_vars =>
            [\A r \in Rooms, u \in Users :
                 members'[r][u] # members[r][u]
                 => \E w \in Workers : MayChange(w, r)]_vars
    BY AuthorizedStep
  <1> QED
    BY <1>1, InitWorkers, NextWorkers, PTL DEF Spec, ChangesAreAuthorized

----
(***************************************************************************)
(* Closed connections.                                                     *)
(***************************************************************************)

SubscribersInv == WorkersInv /\ ClosedSubscribersExplained

LEMMA NextSubscribers == SubscribersInv /\ [Next]_vars => SubscribersInv'
  <1> SUFFICES ASSUME SubscribersInv, [Next]_vars
               PROVE  ClosedSubscribersExplained'
    BY NextWorkers DEF SubscribersInv
  <1> USE DEF ClosedSubscribersExplained
  <1>0. WorkersInv /\ TypeOK /\ ClosedSubscribersExplained
    BY DEF SubscribersInv, WorkersInv
  <1>1. CASE UNCHANGED subVars
    BY <1>0, <1>1 DEF subVars
  <1>2. ASSUME NEW w \in Workers, AddSubscriber(w)
        PROVE  ClosedSubscribersExplained'
    <2>1. /\ conns' = conns /\ late \subseteq late'
          /\ subs' = [subs EXCEPT ![workers[w].room] =
                          subs[workers[w].room] \cup {workers[w].conn}]
          /\ conns[workers[w].conn] = "closed" => workers[w].conn \in late'
      BY <1>2 DEF AddSubscriber
    <2> QED  BY <1>0, <2>1 DEF TypeOK
  <1>3. ASSUME NEW w \in Workers, RemoveDead(w)
        PROVE  ClosedSubscribersExplained'
    BY <1>0, <1>3 DEF RemoveDead, Without, TypeOK
  <1>4. ASSUME NEW r \in Rooms, NEW c \in Conns, UnsubscribeRoom(r, c)
        PROVE  ClosedSubscribersExplained'
    BY <1>0, <1>4 DEF UnsubscribeRoom, TypeOK
  <1>5. ASSUME NEW c \in Conns, PeerGoes(c) \/ CloseConnection(c)
        PROVE  ClosedSubscribersExplained'
    BY <1>0, <1>5 DEF PeerGoes, CloseConnection, TypeOK
  <1>6. ASSUME NEW c \in Conns, OnConnectionClosed(c)
        PROVE  ClosedSubscribersExplained'
    BY <1>0, <1>6 DEF OnConnectionClosed, Without, TypeOK
  <1>7. CASE Restart
    BY <1>7 DEF Restart
  <1>8. ASSUME NEW w \in Workers, Quiet(w)
        PROVE  ClosedSubscribersExplained'
    BY <1>1, <1>2, <1>3, <1>8
    DEF Quiet, InsertOwnerFails, FindMember, FindRole, CountOwners,
        FindTarget, StatementFails, CopySubscribers, SendEvent
  <1>9. ASSUME NEW w \in Workers, Writing(w)
        PROVE  ClosedSubscribersExplained'
    BY <1>1, <1>9
    DEF Writing, InsertOwner, InsertMember, DeleteMember, UpdateRole
  <1>10. CASE Around
    BY <1>1, <1>4, <1>5, <1>6, <1>10
    DEF Around, Signup, Login, Logout, ExpireSession
  <1>11. ASSUME NEW w \in Workers, NEW a \in Users, NEW r \in Rooms,
                Taking(w, a, r)
         PROVE  ClosedSubscribersExplained'
    BY <1>1, <1>11, TakingKeeps
  <1>12. CASE UNCHANGED vars
    BY <1>1, <1>12 DEF vars
  <1> QED  BY <1>7, <1>8, <1>9, <1>10, <1>11, <1>12, Cases

\* A closed connection is subscribed to nothing but what it asked for too late.
THEOREM ClosedSubscribers == Spec => []ClosedSubscribersExplained
  <1>1. Init => SubscribersInv
    BY InitWorkers DEF Init, SubscribersInv, ClosedSubscribersExplained
  <1>2. SubscribersInv => ClosedSubscribersExplained
    BY DEF SubscribersInv
  <1> QED  BY <1>1, <1>2, NextSubscribers, PTL DEF Spec

----
(***************************************************************************)
(* Rooms without an owner.                                                 *)
(***************************************************************************)

Creating(w, r) == Busy(w, "InsertOwner") /\ workers[w].room = r

Explained(r) ==
    HasOwner(r) \/ lost[r] # None \/ \E w \in Workers : Creating(w, r)

OwnersInv == WorkersInv /\ \A r \in rooms : Explained(r)

\* Nothing happens to room r.
LEMMA NothingHappens ==
    ASSUME NEW r, Explained(r), members'[r] = members[r], lost'[r] = lost[r],
           \A v \in Workers : Creating(v, r) => Creating(v, r)'
    PROVE  Explained(r)'
  BY DEF Explained, HasOwner, Owners

\* A write of thread w that gives room r's last owner away names its cause.
LEMMA WriteExplained ==
    ASSUME WorkersInv, NEW w \in Workers, workers[w] \in Request,
           NEW u \in Users, NEW ro \in Roles \cup {None},
           NEW cause \in Causes \cup {None}, NEW next,
           Write(workers[w].room, u, ro, cause), AfterWrite(w, next),
           \/ cause # None \/ ro = "OWNER"
           \/ u \notin Owners(workers[w].room)
           \/ Owners(workers[w].room) \ {u} # {},
           Busy(w, "InsertOwner") => ro = "OWNER",
           NEW r \in Rooms, Explained(r)
    PROVE  Explained(r)'
  <1>0. TypeOK /\ workers[w].room \in Rooms
    BY DEF WorkersInv, Request
  <1>1. ASSUME NEW v \in Workers \ {w}, Creating(v, r)
        PROVE  Creating(v, r)'
    <2>1. workers[v] \in Request
      BY <1>0, <1>1, BusyRequest DEF Creating, Busy
    <2>2. /\ workers'[v].pc = workers[v].pc
          /\ workers'[v].room = workers[v].room
      BY <1>0, <2>1 DEF AfterWrite, TypeOK, Request
    <2> QED  BY <1>1, <2>2 DEF Creating, Busy
  <1>2. CASE r # workers[w].room
    <2>1. members'[r] = members[r] /\ lost'[r] = lost[r]
      BY <1>0, <1>2 DEF Write, TypeOK
    <2>2. \A v \in Workers : Creating(v, r) => v # w
      BY <1>2 DEF Creating
    <2> QED  BY <1>1, <2>1, <2>2, NothingHappens
  <1>3. CASE r = workers[w].room
    <2>1. /\ members'[r] = [members[r] EXCEPT ![u] = ro]
          /\ lost'[r] = IF Owners(r) \ {u} # {} \/ ro = "OWNER" THEN None
                        ELSE IF u \in Owners(r) THEN cause ELSE lost[r]
      BY <1>0, <1>3 DEF Write, TypeOK
    <2>2. \A v \in Users : members'[r][v] = IF v = u THEN ro ELSE members[r][v]
      BY <1>0, <2>1 DEF TypeOK
    <2>3. CASE Owners(r) \ {u} # {}
      <3>1. PICK v \in Users : v # u /\ members[r][v] = "OWNER"
        BY <2>3 DEF Owners
      <3> QED  BY <3>1, <2>2 DEF Explained, HasOwner, Owners
    <2>4. CASE ro = "OWNER"
      BY <2>4, <2>2 DEF Explained, HasOwner, Owners
    <2>5. CASE Owners(r) \ {u} = {} /\ ro # "OWNER" /\ u \in Owners(r)
      BY <1>3, <2>1, <2>5 DEF Explained
    <2>6. CASE Owners(r) \ {u} = {} /\ ro # "OWNER" /\ u \notin Owners(r)
      <3>1. ~HasOwner(r) /\ lost'[r] = lost[r]
        BY <2>1, <2>6 DEF HasOwner
      <3>2. \A v \in Workers : Creating(v, r) => v # w
        BY <2>6 DEF Creating
      <3> QED  BY <1>1, <3>1, <3>2 DEF Explained
    <2> QED  BY <2>3, <2>4, <2>5, <2>6
  <1> QED  BY <1>2, <1>3

LEMMA WritingExplained ==
    ASSUME OwnersInv, NEW w \in Workers, Writing(w), NEW r \in rooms'
    PROVE  Explained(r)'
  <1>1. /\ workers[w] \in Request /\ Fits(workers[w]) /\ TypeOK /\ WorkersInv
        /\ rooms' = rooms
    <2>1. workers[w].pc # "idle"
      BY DEF Writing, InsertOwner, InsertMember, DeleteMember, UpdateRole,
             Busy
    <2>2. rooms' = rooms
      BY DEF Writing, InsertOwner, InsertMember, DeleteMember, UpdateRole
    <2> QED  BY <2>1, <2>2, OwnRequest DEF OwnersInv, WorkersInv
  <1>2. r \in Rooms /\ Explained(r)
    BY <1>1 DEF OwnersInv, TypeOK
  <1>3. /\ workers[w].room \in Rooms /\ workers[w].actor \in Users
        /\ workers[w].role \in Roles \cup {None}
    BY <1>1 DEF Request
  <1>4. CASE InsertOwner(w)
    <2>1. /\ Write(workers[w].room, workers[w].actor, "OWNER", None)
          /\ AfterWrite(w, Idle)
      BY <1>4 DEF InsertOwner
    <2> QED  BY <1>1, <1>2, <1>3, <2>1, RolesAssumption, WriteExplained
  <1>5. CASE InsertMember(w)
    <2>1. /\ Write(workers[w].room, workers[w].user, workers[w].role, None)
          /\ AfterWrite(w, [workers[w] EXCEPT !.pc = "CopySubscribers"])
          /\ members[workers[w].room][workers[w].user] = None
          /\ ~Busy(w, "InsertOwner")
      BY <1>5 DEF InsertMember, Busy, Broadcasting
    <2>2. workers[w].user \notin Owners(workers[w].room)
      BY <2>1, RolesAssumption DEF Owners
    <2>3. workers[w].user \in Users
      BY <1>1, <1>5 DEF InsertMember, Busy, Fits, Changing
    <2> QED  BY <1>1, <1>2, <1>3, <2>1, <2>2, <2>3, WriteExplained
  <1>6. CASE DeleteMember(w)
    <2> DEFINE cause == IF workers[w].overlapped THEN "overlap" ELSE None
    <2>1. /\ Write(workers[w].room, workers[w].user, None, cause)
          /\ AfterWrite(w, [workers[w] EXCEPT !.pc = "CopySubscribers"])
          /\ ~Busy(w, "InsertOwner")
      BY <1>6 DEF DeleteMember, Busy, Broadcasting
    <2>2. cause \in Causes \cup {None}
      BY DEF Causes
    <2>3. \/ cause # None
          \/ workers[w].user \notin Owners(workers[w].room)
          \/ Owners(workers[w].room) \ {workers[w].user} # {}
      BY <1>1, <1>6, NoneAssumption DEF DeleteMember, Busy, Fits, Causes
    <2>4. workers[w].user \in Users
      BY <1>1, <1>6 DEF DeleteMember, Busy, Fits, Changing
    <2> HIDE DEF cause
    <2> QED  BY <1>1, <1>2, <1>3, <2>1, <2>2, <2>3, <2>4, WriteExplained
  <1>7. CASE UpdateRole(w)
    <2>0. ~Busy(w, "InsertOwner") /\ workers[w].user \in Users
      BY <1>1, <1>7 DEF UpdateRole, Busy, Fits, Changing
    <2>1. CASE members[workers[w].room][workers[w].user] # None
      <3>1. /\ Write(workers[w].room, workers[w].user, workers[w].role,
                     "demotion")
            /\ AfterWrite(w, [workers[w] EXCEPT !.pc = "CopySubscribers"])
        BY <1>7, <2>1 DEF UpdateRole, Broadcasting
      <3>2. "demotion" \in Causes \cup {None} /\ "demotion" # None
        BY NoneAssumption DEF Causes
      <3> QED  BY <1>1, <1>2, <1>3, <2>0, <3>1, <3>2, WriteExplained
    <2>2. CASE ~(members[workers[w].room][workers[w].user] # None)
      <3>1. /\ workers' = [workers EXCEPT ![w].pc = "CopySubscribers"]
            /\ members' = members /\ lost' = lost
        BY <1>7, <2>2 DEF UpdateRole, Goto
      <3>2. \A v \in Workers : Creating(v, r) => Creating(v, r)'
        BY <2>0, <3>1 DEF Creating, Busy
      <3> QED  BY <1>2, <3>1, <3>2, NothingHappens
    <2> QED  BY <2>1, <2>2
  <1> QED  BY <1>4, <1>5, <1>6, <1>7 DEF Writing

LEMMA QuietExplained ==
    ASSUME OwnersInv, NEW w \in Workers, Quiet(w), NEW r \in rooms'
    PROVE  Explained(r)'
  <1>1. /\ TypeOK /\ r \in Rooms /\ Explained(r) /\ members' = members
    BY QuietKeeps DEF OwnersInv, WorkersInv, TypeOK
  <1>2. CASE InsertOwnerFails(w)
    <2>1. /\ workers' = [workers EXCEPT ![w] = Idle]
          /\ lost' = [lost EXCEPT ![workers[w].room] =
                          IF HasOwner(workers[w].room) THEN lost[workers[w].room]
                          ELSE "creation"]
      BY <1>2 DEF InsertOwnerFails, Finish
    <2>2. CASE r = workers[w].room
      <3>1. HasOwner(r) => HasOwner(r)'
        BY <1>1 DEF HasOwner, Owners
      <3>2. ~HasOwner(r) => lost'[r] # None
        BY <1>1, <2>1, <2>2, NoneAssumption DEF TypeOK, Causes
      <3> QED  BY <3>1, <3>2 DEF Explained
    <2>3. CASE r # workers[w].room
      <3>1. lost'[r] = lost[r]
        BY <2>1, <2>3, <1>1 DEF TypeOK
      <3>2. \A v \in Workers : Creating(v, r) => Creating(v, r)'
        BY <2>1, <2>3 DEF Creating, Busy
      <3> QED  BY <1>1, <3>1, <3>2, NothingHappens
    <2> QED  BY <2>2, <2>3
  <1>3. CASE ~InsertOwnerFails(w)
    <2>1. /\ ~Busy(w, "InsertOwner")
          /\ lost' = lost
      BY <1>3
      DEF Quiet, FindMember, FindRole, CountOwners, FindTarget,
          StatementFails, AddSubscriber, CopySubscribers, SendEvent,
          RemoveDead, Busy, tableVars
    <2>2. \A v \in Workers \ {w} : workers'[v] = workers[v]
      BY <1>1, <1>3
      DEF Quiet, FindMember, FindRole, CountOwners, FindTarget,
          StatementFails, AddSubscriber, CopySubscribers, SendEvent,
          RemoveDead, Goto, Finish, TypeOK
    <2>3. \A v \in Workers : Creating(v, r) => Creating(v, r)'
      BY <2>1, <2>2 DEF Creating, Busy
    <2> QED  BY <1>1, <2>1, <2>3, NothingHappens
  <1> QED  BY <1>2, <1>3

LEMMA TakingExplained ==
    ASSUME OwnersInv, NEW w \in Workers, NEW a \in Users, NEW s \in Rooms,
           Taking(w, a, s), NEW r \in rooms'
    PROVE  Explained(r)'
  <1>1. members' = members /\ lost' = lost /\ workers[w] = Idle /\ TypeOK
    BY TakingKeeps DEF OwnersInv, WorkersInv
  <1>2. PICK q : workers' = [workers EXCEPT ![w] = q]
    BY TakingKeeps
  <1>3. CASE r \in rooms
    <2>1. Explained(r)
      BY <1>3 DEF OwnersInv
    <2>2. \A v \in Workers : Creating(v, r) => v # w
      BY <1>1 DEF Creating, Busy, Idle
    <2>3. \A v \in Workers : Creating(v, r) => Creating(v, r)'
      BY <1>1, <1>2, <2>2 DEF Creating, Busy, TypeOK
    <2> QED  BY <1>1, <2>1, <2>3, NothingHappens
  <1>4. CASE r \notin rooms
    <2>1. r = s /\ CreateRoom(w, a, s)
      BY <1>4 DEF Taking, CreateRoom, InsertRoom, AddMember, RemoveMember, SetRole,
                  SubscribeRoom, tableVars
    <2>2. workers'[w] = NewRequest("InsertOwner", a, r, None, None, None)
      BY <1>1, <2>1 DEF CreateRoom, TypeOK
    <2>3. Creating(w, r)'
      BY <2>2 DEF Creating, Busy, NewRequest
    <2> QED  BY <2>3 DEF Explained
  <1> QED  BY <1>3, <1>4

LEMMA RestartExplained ==
    ASSUME OwnersInv, Restart, NEW r \in rooms'
    PROVE  Explained(r)'
  <1>1. r \in Rooms /\ Explained(r) /\ members' = members
    BY DEF Restart, OwnersInv, WorkersInv, TypeOK
  <1>2. HasOwner(r) => HasOwner(r)'
    BY <1>1 DEF HasOwner, Owners
  <1>3. ~HasOwner(r) => lost'[r] # None
    BY <1>1, NoneAssumption DEF Restart, Explained, Creating, Causes
  <1> QED  BY <1>2, <1>3 DEF Explained

LEMMA NextOwners == OwnersInv /\ [Next]_vars => OwnersInv'
  <1> SUFFICES ASSUME OwnersInv, [Next]_vars, NEW r \in rooms'
               PROVE  Explained(r)'
    BY NextWorkers DEF OwnersInv
  <1>1. CASE UNCHANGED <<tableVars, workers>>
    BY <1>1, NothingHappens DEF tableVars, OwnersInv, Creating, Busy
  <1>2. CASE Around
    BY <1>1, <1>2, AroundKeeps
  <1>3. CASE UNCHANGED vars
    BY <1>1, <1>3 DEF vars
  <1> QED
    BY <1>2, <1>3, Cases, TakingExplained, QuietExplained, WritingExplained,
       RestartExplained

\* A room has lost its last owner for one of the three reasons, however many
\* requests interleave.
THEOREM OwnerlessRooms == Spec => []OwnerlessExplained
  <1>1. Init => OwnersInv
    BY InitWorkers DEF Init, OwnersInv
  <1>2. OwnersInv => OwnerlessExplained
    BY DEF OwnersInv, OwnerlessExplained, Explained, Creating
  <1> QED  BY <1>1, <1>2, NextOwners, PTL DEF Spec
====
