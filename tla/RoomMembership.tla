---- MODULE RoomMembership ----
(***************************************************************************)
(* Rooms, their members and the connections subscribed to their events     *)
(* (RoomService, AuthorizationService, NotificationService), and the       *)
(* sessions that requests are made with (AuthService).  A request is run   *)
(* by a worker thread of the client port as a series of SQL statements,    *)
(* each a transaction of its own, and may then broadcast an event.  The    *)
(* acceptor thread closes connections meanwhile.                           *)
(*                                                                         *)
(* A worker's record holds the statement it runs next and its local        *)
(* variables.  overlapped is history: whether a row of the room's members  *)
(* was written by another request since this one was accepted.             *)
(***************************************************************************)
EXTENDS FiniteSets, Integers

CONSTANTS
    Users,      \* user ids
    Admins,     \* users whose row says ADMIN, which no request writes
    Rooms,      \* room ids, each used by one CREATE_ROOM at most
    Roles,      \* roles of a member
    Conns,      \* client connections
    Workers,    \* threads of the worker pool
    None

ASSUME UsersAssumption  == IsFiniteSet(Users) /\ None \notin Users
ASSUME ConnsAssumption  == None \notin Conns
ASSUME AdminsAssumption == Admins \subseteq Users
ASSUME RolesAssumption  == "OWNER" \in Roles /\ None \notin Roles

VARIABLES
    rooms,      \* rows of the table rooms
    members,    \* members[r][u]: role of u in room r, None without a row
    lost,       \* history: what took a room's last owner away
    conns,      \* state of each connection
    subs,       \* _subscribers[r]
    late,       \* history: connections subscribed when they were closed
    users,      \* rows of the table users
    sessions,   \* users a session token of whom is in Redis
    workers

tableVars == <<rooms, members, lost>>
subVars   == <<conns, subs, late>>
authVars  == <<users, sessions>>
vars      == <<tableVars, subVars, authVars, workers>>

Causes == {"creation", "demotion", "overlap"}

ASSUME NoneAssumption == None \notin Causes

Steps ==
    {"InsertOwner", "FindMember", "InsertMember", "FindRole", "CountOwners",
     "DeleteMember", "FindTarget", "UpdateRole", "AddSubscriber",
     "CopySubscribers", "SendEvent"}

\* todo and dead: subscribers still to be sent the event, and those whose
\* send failed.
Request ==
    [pc : Steps, actor : Users, room : Rooms, user : Users \cup {None},
     role : Roles \cup {None}, conn : Conns \cup {None},
     todo : SUBSET Conns, dead : SUBSET Conns, overlapped : BOOLEAN]

Idle == [pc |-> "idle"]

NewRequest(pc, a, r, u, ro, c) ==
    [pc |-> pc, actor |-> a, room |-> r, user |-> u, role |-> ro,
     conn |-> c, todo |-> {}, dead |-> {}, overlapped |-> FALSE]

TypeOK ==
    /\ rooms   \subseteq Rooms
    /\ members \in [Rooms -> [Users -> Roles \cup {None}]]
    /\ lost    \in [Rooms -> Causes \cup {None}]
    /\ conns   \in [Conns -> {"open", "broken", "closing", "closed"}]
    /\ subs    \in [Rooms -> SUBSET Conns]
    /\ late    \subseteq Conns
    /\ users    \subseteq Users
    /\ sessions \subseteq users
    /\ workers \in [Workers -> Request \cup {Idle}]

Init ==
    /\ rooms   = {}
    /\ members = [r \in Rooms |-> [u \in Users |-> None]]
    /\ lost    = [r \in Rooms |-> None]
    /\ conns   = [c \in Conns |-> "open"]
    /\ subs    = [r \in Rooms |-> {}]
    /\ late    = {}
    /\ users    = Admins
    /\ sessions = {}
    /\ workers = [w \in Workers |-> Idle]

-----------------------------------------------------------------------------
Owners(r)   == {u \in Users : members[r][u] = "OWNER"}
HasOwner(r) == Owners(r) # {}

\* _can_manage_members and check_permission for VIEW_FILES: a SELECT each.
CanManage(a, r) == a \in Admins \/ members[r][a] = "OWNER"
CanView(a, r)   == a \in Admins \/ members[r][a] # None

Busy(w, pc) == workers[w].pc = pc

Goto(w, pc) == workers' = [workers EXCEPT ![w].pc = pc]
Finish(w)   == workers' = [workers EXCEPT ![w] = Idle]

\* The handler goes on to tell the room's subscribers: MEMBER_ADDED,
\* MEMBER_REMOVED or ROLE_UPDATED.
Broadcasting(q) == [q EXCEPT !.pc = "CopySubscribers"]

\* The other requests for the room as they are after a write of w, which
\* goes on with pc or ends.
AfterWrite(w, next) ==
    workers' = [v \in Workers |->
                    IF v = w THEN next
                    ELSE IF workers[v] # Idle /\ workers[v].room = workers[w].room
                    THEN [workers[v] EXCEPT !.overlapped = TRUE]
                    ELSE workers[v]]

\* Row (r, u) of room_members gets the role ro, or goes; cause is what took
\* the last owner away if this does.
Write(r, u, ro, cause) ==
    /\ members' = [members EXCEPT ![r][u] = ro]
    /\ lost' = [lost EXCEPT ![r] =
                    IF Owners(r) \ {u} # {} \/ ro = "OWNER" THEN None
                    ELSE IF u \in Owners(r) THEN cause
                    ELSE @]

-----------------------------------------------------------------------------
(* Accounts and sessions *)

\* signup: two SELECTs look for the name and the address, and their UNIQUE
\* indexes let one INSERT through, whoever else was told that they are free.
InsertUser(a) ==
    /\ a \notin users
    /\ users' = users \cup {a}

\* SIGNUP asks for no token; whoever signs up is no administrator.
Signup(a) ==
    /\ InsertUser(a)
    /\ UNCHANGED <<tableVars, subVars, sessions, workers>>

\* _authenticate_and_create_session: the password is that of the user's row;
\* a token is stored with the user's id and role.
CreateSession(a) ==
    /\ a \in users
    /\ sessions' = sessions \cup {a}

Login(a) ==
    /\ CreateSession(a)
    /\ UNCHANGED <<tableVars, subVars, users, workers>>

\* The key goes from Redis; deleting it again succeeds as well.
EndSession(a) ==
    /\ a \in sessions
    /\ sessions' = sessions \ {a}

Logout(a) ==
    /\ EndSession(a)
    /\ UNCHANGED <<tableVars, subVars, users, workers>>

\* SETEX: Redis drops the key when the token's time is up.
ExpireSession(a) ==
    /\ EndSession(a)
    /\ UNCHANGED <<tableVars, subVars, users, workers>>

\* The token names a session that has not ended.
ValidToken(a) == a \in sessions

\* A worker takes up a request: the token is looked up once, before anything
\* else; a request already taken up outlives its session.
Accepts(w, a) == workers[w] = Idle /\ ValidToken(a)

-----------------------------------------------------------------------------
(* CREATE_ROOM *)

\* The room's row is inserted by an administrator.
InsertRoom(a, r) ==
    /\ a \in Admins
    /\ r \notin rooms
    /\ rooms' = rooms \cup {r}

CreateRoom(w, a, r) ==
    /\ Accepts(w, a)
    /\ InsertRoom(a, r)
    /\ workers' = [workers EXCEPT ![w] =
                       NewRequest("InsertOwner", a, r, None, None, None)]
    /\ UNCHANGED <<members, lost, subVars, authVars>>

\* Then its creator becomes a member; by now somebody may have added them.
InsertOwner(w) ==
    LET q == workers[w]
    IN  /\ Busy(w, "InsertOwner")
        /\ members[q.room][q.actor] = None
        /\ Write(q.room, q.actor, "OWNER", None)
        /\ AfterWrite(w, Idle)
        /\ UNCHANGED <<rooms, subVars, authVars>>

\* The second INSERT fails; the first is not undone.
InsertOwnerFails(w) ==
    LET r == workers[w].room
    IN  /\ Busy(w, "InsertOwner")
        /\ lost' = [lost EXCEPT ![r] = IF HasOwner(r) THEN @ ELSE "creation"]
        /\ Finish(w)
        /\ UNCHANGED <<rooms, members, subVars, authVars>>

-----------------------------------------------------------------------------
(* ADD_MEMBER *)

\* Mutant: the permission is not asked for.
AddMemberUnchecked(w, a, r, u, ro) ==
    /\ Accepts(w, a)
    /\ r \in rooms
    /\ workers' = [workers EXCEPT ![w] =
                       NewRequest("FindMember", a, r, u, ro, None)]
    /\ UNCHANGED <<tableVars, subVars, authVars>>

AddMember(w, a, r, u, ro) ==
    /\ Accepts(w, a)
    /\ r \in rooms
    /\ CanManage(a, r)
    /\ workers' = [workers EXCEPT ![w] =
                       NewRequest("FindMember", a, r, u, ro, None)]
    /\ UNCHANGED <<tableVars, subVars, authVars>>

FindMember(w) ==
    LET q == workers[w]
    IN  /\ Busy(w, "FindMember")
        /\ IF members[q.room][q.user] # None
           THEN Finish(w)
           ELSE Goto(w, "InsertMember")
        /\ UNCHANGED <<tableVars, subVars, authVars>>

\* The primary key (room, user) refuses a second row, and the foreign key one
\* of a user there is not.
InsertMember(w) ==
    LET q == workers[w]
    IN  /\ Busy(w, "InsertMember")
        /\ members[q.room][q.user] = None
        /\ q.user \in users
        /\ Write(q.room, q.user, q.role, None)
        /\ AfterWrite(w, Broadcasting(q))
        /\ UNCHANGED <<rooms, subVars, authVars>>

-----------------------------------------------------------------------------
(* REMOVE_MEMBER *)

RemoveMember(w, a, r, u) ==
    /\ Accepts(w, a)
    /\ r \in rooms
    /\ CanManage(a, r)
    /\ workers' = [workers EXCEPT ![w] =
                       NewRequest("FindRole", a, r, u, None, None)]
    /\ UNCHANGED <<tableVars, subVars, authVars>>

\* Only an owner is counted.
FindRole(w) ==
    LET q    == workers[w]
        role == members[q.room][q.user]
    IN  /\ Busy(w, "FindRole")
        /\ CASE role = None    -> Finish(w)
             [] role = "OWNER" -> Goto(w, "CountOwners")
             [] OTHER          -> Goto(w, "DeleteMember")
        /\ UNCHANGED <<tableVars, subVars, authVars>>

\* Mutant: the boundary is off by one.
CountsNobodyLeft(w) ==
    /\ Busy(w, "CountOwners")
    /\ IF Cardinality(Owners(workers[w].room)) < 1
       THEN Finish(w)
       ELSE Goto(w, "DeleteMember")
    /\ UNCHANGED <<tableVars, subVars, authVars>>

CountOwners(w) ==
    /\ Busy(w, "CountOwners")
    /\ IF Cardinality(Owners(workers[w].room)) <= 1
       THEN Finish(w)
       ELSE Goto(w, "DeleteMember")
    /\ UNCHANGED <<tableVars, subVars, authVars>>

\* The number of deleted rows is not looked at.
DeleteMember(w) ==
    LET q == workers[w]
    IN  /\ Busy(w, "DeleteMember")
        /\ Write(q.room, q.user, None, IF q.overlapped THEN "overlap" ELSE None)
        /\ AfterWrite(w, Broadcasting(q))
        /\ UNCHANGED <<rooms, subVars, authVars>>

-----------------------------------------------------------------------------
(* SET_ROLE *)

SetRole(w, a, r, u, ro) ==
    /\ Accepts(w, a)
    /\ r \in rooms
    /\ CanManage(a, r)
    /\ a # u
    /\ workers' = [workers EXCEPT ![w] =
                       NewRequest("FindTarget", a, r, u, ro, None)]
    /\ UNCHANGED <<tableVars, subVars, authVars>>

FindTarget(w) ==
    LET q == workers[w]
    IN  /\ Busy(w, "FindTarget")
        /\ IF members[q.room][q.user] = None
           THEN Finish(w)
           ELSE Goto(w, "UpdateRole")
        /\ UNCHANGED <<tableVars, subVars, authVars>>

\* Nobody counts owners here.  The row may be gone by now.
UpdateRole(w) ==
    LET q == workers[w]
    IN  /\ Busy(w, "UpdateRole")
        /\ IF members[q.room][q.user] # None
           THEN /\ Write(q.room, q.user, q.role, "demotion")
                /\ AfterWrite(w, Broadcasting(q))
           ELSE /\ Goto(w, "CopySubscribers")
                /\ UNCHANGED <<members, lost>>
        /\ UNCHANGED <<rooms, subVars, authVars>>

\* Any statement may raise an exception: the request is answered with an
\* error, and what it wrote before stays.
StatementFails(w) ==
    /\ \E pc \in {"FindMember", "InsertMember", "FindRole", "CountOwners",
                 "DeleteMember", "FindTarget", "UpdateRole"} : Busy(w, pc)
    /\ Finish(w)
    /\ UNCHANGED <<tableVars, subVars, authVars>>

-----------------------------------------------------------------------------
(* SUBSCRIBE_ROOM, UNSUBSCRIBE_ROOM and broadcasts *)

\* The message was read while the connection was open.  The membership is
\* looked up here; how long the message waited for a worker is part of the
\* time until AddSubscriber.
SubscribeRoom(w, a, r, c) ==
    /\ Accepts(w, a)
    /\ CanView(a, r)
    /\ conns[c] \in {"open", "broken"}
    /\ workers' = [workers EXCEPT ![w] =
                       NewRequest("AddSubscriber", a, r, None, None, c)]
    /\ UNCHANGED <<tableVars, subVars, authVars>>

AddSubscriber(w) ==
    LET q == workers[w]
    IN  /\ Busy(w, "AddSubscriber")
        /\ subs' = [subs EXCEPT ![q.room] = @ \cup {q.conn}]
        /\ late' = IF conns[q.conn] = "closed" THEN late \cup {q.conn} ELSE late
        /\ Finish(w)
        /\ UNCHANGED <<tableVars, conns, authVars>>

\* An unsubscription asks for a valid session only.
UnsubscribeRoom(r, c) ==
    /\ sessions # {}
    /\ conns[c] \in {"open", "broken"}
    /\ c \in subs[r]
    /\ subs' = [subs EXCEPT ![r] = @ \ {c}]
    /\ UNCHANGED <<tableVars, conns, late, workers, authVars>>

Without(dead) == [r \in Rooms |-> subs[r] \ dead]

CopySubscribers(w) ==
    LET q == workers[w]
    IN  /\ Busy(w, "CopySubscribers")
        /\ IF subs[q.room] = {}
           THEN Finish(w)
           ELSE workers' = [workers EXCEPT ![w].pc = "SendEvent",
                                           ![w].todo = subs[q.room]]
        /\ UNCHANGED <<tableVars, subVars, authVars>>

\* A send may fail, because the peer is gone or does not read and the send
\* buffer is full.  To a connection the server itself has closed nothing is
\* sent, and nothing fails.
SendEvent(w, c) ==
    /\ Busy(w, "SendEvent")
    /\ c \in workers[w].todo
    /\ \E failed \in SUBSET {c} :
          /\ failed # {} => conns[c] \in {"open", "broken"}
          /\ workers' = [workers EXCEPT ![w].todo = @ \ {c}, ![w].dead = @ \cup failed]
    /\ UNCHANGED <<tableVars, subVars, authVars>>

RemoveDead(w) ==
    /\ Busy(w, "SendEvent")
    /\ workers[w].todo = {}
    /\ subs' = Without(workers[w].dead)
    /\ Finish(w)
    /\ UNCHANGED <<tableVars, conns, late, authVars>>

-----------------------------------------------------------------------------
(* Connections *)

PeerGoes(c) ==
    /\ conns[c] = "open"
    /\ conns' = [conns EXCEPT ![c] = "broken"]
    /\ UNCHANGED <<tableVars, subs, late, workers, authVars>>

\* The acceptor closes the socket, then removes the subscriptions.
CloseConnection(c) ==
    /\ conns[c] = "broken"
    /\ conns' = [conns EXCEPT ![c] = "closing"]
    /\ UNCHANGED <<tableVars, subs, late, workers, authVars>>

\* Mutant: the subscriptions are forgotten.
ClosedWithoutCleanup(c) ==
    /\ conns[c] = "closing"
    /\ conns' = [conns EXCEPT ![c] = "closed"]
    /\ UNCHANGED <<tableVars, subs, late, workers, authVars>>

OnConnectionClosed(c) ==
    /\ conns[c] = "closing"
    /\ conns' = [conns EXCEPT ![c] = "closed"]
    /\ subs' = Without({c})
    /\ UNCHANGED <<tableVars, late, workers, authVars>>

\* The process ends at any point; the tables stay.
Restart ==
    /\ workers' = [w \in Workers |-> Idle]
    /\ conns' = [c \in Conns |-> "closed"]
    /\ subs' = [r \in Rooms |-> {}]
    /\ late' = {}
    /\ lost' = [r \in Rooms |->
                    IF /\ ~HasOwner(r)
                       /\ \E w \in Workers :
                              Busy(w, "InsertOwner") /\ workers[w].room = r
                    THEN "creation" ELSE lost[r]]
    /\ UNCHANGED <<rooms, members, authVars>>

-----------------------------------------------------------------------------
Step(w) ==
    \/ InsertOwner(w) \/ InsertOwnerFails(w)
    \/ FindMember(w) \/ InsertMember(w)
    \/ FindRole(w) \/ CountOwners(w) \/ DeleteMember(w)
    \/ FindTarget(w) \/ UpdateRole(w)
    \/ StatementFails(w)
    \/ AddSubscriber(w)
    \/ CopySubscribers(w)
    \/ \E c \in Conns : SendEvent(w, c)
    \/ RemoveDead(w)

Next ==
    \/ \E w \in Workers, a \in Users, r \in Rooms :
           \/ CreateRoom(w, a, r)
           \/ \E u \in Users, ro \in Roles : AddMember(w, a, r, u, ro)
           \/ \E u \in Users : RemoveMember(w, a, r, u)
           \/ \E u \in Users, ro \in Roles : SetRole(w, a, r, u, ro)
           \/ \E c \in Conns : SubscribeRoom(w, a, r, c)
    \/ \E w \in Workers : Step(w)
    \/ \E r \in Rooms, c \in Conns : UnsubscribeRoom(r, c)
    \/ \E c \in Conns : PeerGoes(c) \/ CloseConnection(c) \/ OnConnectionClosed(c)
    \/ \E a \in Users : Signup(a) \/ Login(a) \/ Logout(a) \/ ExpireSession(a)
    \/ Restart

Spec == Init /\ [][Next]_vars

-----------------------------------------------------------------------------
\* A room without an owner has its creation under way, or lost its last owner
\* to one of three things: an INSERT of the owner that failed or was cut off
\* (create_room), a SET_ROLE, which counts no owners, or a removal whose
\* reads another change of the members overtook.
OwnerlessExplained ==
    \A r \in rooms :
        \/ HasOwner(r)
        \/ lost[r] # None
        \/ \E w \in Workers : Busy(w, "InsertOwner") /\ workers[w].room = r

\* A thread that works on room r, and may change its members now or could when
\* it asked and another request has changed them since.
MayChange(w, r) ==
    /\ workers[w] # Idle
    /\ workers[w].room = r
    /\ CanManage(workers[w].actor, r) \/ workers[w].overlapped

\* Who changes a room's members may do so at that moment, unless the members
\* changed after the permission was read; and a creator's row is their own.
ChangesAreAuthorized ==
    [][\A r \in Rooms, u \in Users :
           members'[r][u] # members[r][u]
           => \E w \in Workers : MayChange(w, r)]_vars

\* A connection that is closed and cleaned up is subscribed to nothing,
\* unless its SUBSCRIBE_ROOM was handled after that.
ClosedSubscribersExplained ==
    \A r \in Rooms : \A c \in subs[r] : conns[c] = "closed" => c \in late
====
