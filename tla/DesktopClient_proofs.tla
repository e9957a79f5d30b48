---- MODULE DesktopClient_proofs ----
(***************************************************************************)
(* Proofs about the desktop client: RoomPage, the page that shows a room,  *)
(* whose specification is Spec, and BackendClient, the connection its      *)
(* threads make their requests on, whose specification is ClientSpec.      *)
(***************************************************************************)
EXTENDS RoomPage, BackendClient, FiniteSetTheorems, WellFoundedInduction, TLAPS

----
(***************************************************************************)
(* The page: what a job, a signal and a load are.                          *)
(***************************************************************************)
Sent(q) == {i \in 1 .. Len(q) : q[i].type # "event"}

\* The answer of a worker is in the queue until its thread leaves its loop;
\* then the end of the thread is, until it is freed.
SignalFits(q, i) ==
    /\ threads[q[i].thread].state =
           IF q[i].type = "cleanup" THEN "finished" ELSE "answered"
    /\ \A j \in Sent(q) : q[j].thread = q[i].thread => j = i

QueueFits == \A i \in Sent(queue) : SignalFits(queue, i)

\* Details and deletions are asked for of a file.
JobsFit ==
    \A t \in Threads :
        threads[t].state \in {"starting", "answered"} /\ threads[t].kind # "data"
            => threads[t].arg \in Files

PageInv == TypeOK /\ QueueFits /\ JobsFit

\* Something will make the page load again.
Coming == inFlight > 0 \/ \E i \in 1 .. Len(queue) : queue[i].type = "event"

\* As long as nothing has gone wrong, at most one load is under way, and what
\* the page shows is right, or will be read, or is about to be shown, or the
\* page will hear of it.
LoadInv ==
    page = "open" /\ behind = None =>
        /\ \A t, u \in Loads : t = u
        /\ Loads # {} => loading
        /\ \A i \in 1 .. Len(queue) :
               queue[i].type = "failure" => threads[queue[i].thread].kind # "data"
        /\ \/ WillRead \/ Coming
           \/ \E t \in Loads : threads[t].found = Present
           \/ Loads = {} /\ (loading \/ cards = Present)

\* A deletion that the page is about to hear succeeded has succeeded, and the
\* panel names its file.
DeletionInv ==
    /\ \A i \in 1 .. Len(queue) :
           queue[i].type = "result" /\ threads[queue[i].thread].kind = "delete"
               => server[threads[queue[i].thread].arg] = "deleted"
    /\ ~cancelled => \A t \in Deletions : threads[t].arg = panel

----
(***************************************************************************)
(* Facts about queues and threads.                                         *)
(***************************************************************************)
LEMMA TailIs ==
    ASSUME NEW S, NEW q \in Seq(S), q # <<>>
    PROVE  /\ Tail(q) \in Seq(S) /\ Head(q) \in S /\ Head(q) = q[1]
           /\ 1 \in 1 .. Len(q) /\ Len(q) \in Nat /\ Len(Tail(q)) = Len(q) - 1
           /\ \A i \in 1 .. Len(Tail(q)) :
                  i + 1 \in 1 .. Len(q) /\ i + 1 # 1 /\ Tail(q)[i] = q[i + 1]
           /\ \A i \in 1 .. Len(q) :
                  i # 1 => i - 1 \in 1 .. Len(Tail(q)) /\ Tail(q)[i - 1] = q[i]
  OBVIOUS

LEMMA AppendIs ==
    ASSUME NEW S, NEW q \in Seq(S), NEW e \in S
    PROVE  /\ Append(q, e) \in Seq(S) /\ Len(q) \in Nat
           /\ Len(Append(q, e)) = Len(q) + 1
           /\ Len(q) + 1 \in 1 .. Len(Append(q, e))
           /\ \A i \in 1 .. Len(q) :
                  i \in 1 .. Len(Append(q, e)) /\ Append(q, e)[i] = q[i]
           /\ Append(q, e)[Len(q) + 1] = e
           /\ \A i \in 1 .. Len(Append(q, e)) : i \in 1 .. Len(q) \/ i = Len(q) + 1
  OBVIOUS

LEMMA ThreadIs ==
    ASSUME TypeOK, NEW t \in Threads
    PROVE  /\ threads[t] = NoThread <=> threads[t].state = "free"
           /\ threads[t] # NoThread => threads[t] \in Thread
  BY DEF TypeOK, Thread, NoThread

LEMMA JobIs ==
    ASSUME NEW k \in Kinds, NEW f \in Optional
    PROVE  /\ Job(k, f) \in Thread /\ Job(k, f) # NoThread
           /\ Job(k, f).state = "starting" /\ Job(k, f).kind = k /\ Job(k, f).arg = f
  BY DEF Job, Thread, NoThread

LEMMA SignalIs ==
    ASSUME TypeOK, NEW i \in 1 .. Len(queue)
    PROVE  /\ queue[i] \in Signal
           /\ queue[i].type \in {"result", "failure", "cleanup", "event"}
           /\ queue[i].type # "event" => queue[i].thread \in Threads
  BY DEF TypeOK, Signal

\* A new thread is one that was free.
Begins(t, k, f) ==
    /\ threads[t] = NoThread
    /\ threads' = [threads EXCEPT ![t] = Job(k, f)]
    /\ ref' = [ref EXCEPT ![k] = t]

LEMMA StartIs ==
    ASSUME NEW k, NEW f, Start(k, f)
    PROVE  \E t \in Threads : Begins(t, k, f)
  <1> DEFINE free == {t \in Threads : threads[t] = NoThread}
             first == CHOOSE u \in free : \A v \in free : u <= v
  <1>1. free \subseteq Nat /\ free # {}
    BY DEF Threads, Start
  <1>2. \E m \in free : \A u \in free : ~(<<u, m>> \in OpToRel(<, Nat))
    <2> HIDE DEF free
    <2> QED  BY <1>1, NatLessThanWellFounded, WFMin
  <1>3. PICK m \in free : \A u \in free : ~(u < m)
    <2> HIDE DEF free
    <2> QED  BY <1>1, <1>2 DEF OpToRel
  <1>4. first \in free
    <2> HIDE DEF free
    <2>1. \A u \in free : m <= u
      BY <1>1, <1>3
    <2> QED  BY <1>3, <2>1
  <1>5. /\ threads' = [threads EXCEPT ![first] = Job(k, f)]
        /\ ref' = [ref EXCEPT ![k] = first]
    BY DEF Start
  <1> QED  BY <1>4, <1>5 DEF Begins

Same == UNCHANGED <<threads, ref>>

LEMMA SelectFileIs ==
    ASSUME NEW f, SelectFile(f)
    PROVE  Same \/ \E t \in Threads : Begins(t, "detail", f)
  BY StartIs DEF SelectFile, Same

LEMMA ReloadIs ==
    ASSUME Reload
    PROVE  \/ Same /\ UNCHANGED loading /\ behind' = Missed("dropped")
           \/ /\ loading' = TRUE
              /\ behind' = IF Loads # {} THEN "overtaken" ELSE None
              /\ \E t \in Threads : Begins(t, "data", None)
  BY StartIs DEF Reload, Same

LEMMA StartDeleteIs ==
    ASSUME NEW f, StartDelete(f)
    PROVE  \/ Same /\ UNCHANGED cancelled
           \/ /\ cancelled' = (Deletions # {})
              /\ \E t \in Threads : Begins(t, "delete", f)
  BY StartIs DEF StartDelete, Same

----
(***************************************************************************)
(* The types.                                                              *)
(***************************************************************************)
LEMMA InitPage == Init => PageInv
  <1> SUFFICES ASSUME Init PROVE PageInv
    OBVIOUS
  <1>1. 1 \in Threads /\ Job("data", None) \in Thread
    <2>1. "data" \in Kinds /\ None \in Optional
      BY DEF Optional, Kinds
    <2>2. 1 \in Threads
      BY BoundsAssumption DEF Threads
    <2> QED  BY <2>1, <2>2, JobIs
  <1>2. threads \in [Threads -> Thread \cup {NoThread}] /\ ref \in [Kinds -> Threads \cup {None}]
    BY <1>1 DEF Init, Kinds
  <1>3. queue \in Seq(Signal) /\ Len(queue) = 0
    BY DEF Init
  <1>4. TypeOK
    <2>1. server \in [Files -> States]
      BY DEF Init, AtFirst, States
    <2>2. faults \in 0 .. MaxFaults /\ clicks \in 0 .. MaxClicks /\ inFlight \in Nat
      BY BoundsAssumption DEF Init
    <2>3. {highlight, selected, panel} \subseteq Optional /\ {overridden, cancelled} \subseteq BOOLEAN
      BY DEF Init, Optional
    <2>4. /\ link \in {"connecting", "subscribed", "down"} /\ page \in {"open", "deleted", "crashed"}
          /\ loading \in BOOLEAN /\ cards \subseteq Files /\ behind \in Causes \cup {None}
          /\ told \subseteq Files
      BY DEF Init
    <2> QED  BY <1>2, <1>3, <2>1, <2>2, <2>3, <2>4 DEF TypeOK
  <1>5. QueueFits
    BY <1>3 DEF QueueFits, Sent
  <1>6. \A t \in Threads : threads[t].state = "starting" => threads[t].kind = "data"
    BY DEF Init, Job, NoThread
  <1>7. \A t \in Threads : threads[t].state # "answered"
    BY DEF Init, Job, NoThread
  <1> QED  BY <1>4, <1>5, <1>6, <1>7 DEF PageInv, JobsFit

LEMMA BeginsType ==
    ASSUME TypeOK, NEW t \in Threads, NEW k \in Kinds, NEW f \in Optional, Begins(t, k, f)
    PROVE  /\ threads' \in [Threads -> Thread \cup {NoThread}]
           /\ ref' \in [Kinds -> Threads \cup {None}]
  BY JobIs DEF TypeOK, Begins

LEMMA SameType ==
    ASSUME TypeOK, Same
    PROVE  /\ threads' \in [Threads -> Thread \cup {NoThread}]
           /\ ref' \in [Kinds -> Threads \cup {None}]
  BY DEF TypeOK, Same

LEMMA MissedType ==
    ASSUME TypeOK, NEW cause \in Causes
    PROVE  /\ Missed(cause) \in Causes \cup {None} /\ First(cause) \in Causes
           /\ Missed(cause) = None => WillRead
  BY NoneAssumption DEF TypeOK, Missed, First

LEMMA SelectFileType ==
    ASSUME TypeOK, NEW f \in Files, SelectFile(f)
    PROVE  /\ threads' \in [Threads -> Thread \cup {NoThread}]
           /\ ref' \in [Kinds -> Threads \cup {None}]
           /\ {highlight', selected'} \subseteq Optional /\ overridden' \in BOOLEAN
  <1>1. {highlight', selected'} \subseteq Optional /\ overridden' \in BOOLEAN
    BY DEF SelectFile, Optional
  <1>2. CASE Same
    BY <1>1, <1>2, SameType
  <1>3. CASE \E t \in Threads : Begins(t, "detail", f)
    BY <1>1, <1>3, BeginsType DEF Kinds, Optional
  <1> QED  BY <1>2, <1>3, SelectFileIs

LEMMA ReloadType ==
    ASSUME TypeOK, Reload
    PROVE  /\ threads' \in [Threads -> Thread \cup {NoThread}]
           /\ ref' \in [Kinds -> Threads \cup {None}]
           /\ loading' \in BOOLEAN /\ behind' \in Causes \cup {None}
  <1>1. CASE Same /\ UNCHANGED loading /\ behind' = Missed("dropped")
    <2>1. Missed("dropped") \in Causes \cup {None}
      BY MissedType DEF Causes
    <2> QED  BY <1>1, <2>1, SameType DEF TypeOK
  <1>2. CASE /\ loading' = TRUE
             /\ behind' = IF Loads # {} THEN "overtaken" ELSE None
             /\ \E t \in Threads : Begins(t, "data", None)
    <2>1. PICK t \in Threads : Begins(t, "data", None)
      BY <1>2
    <2>2. behind' \in Causes \cup {None} /\ loading' \in BOOLEAN
      BY <1>2 DEF Causes
    <2> QED  BY <2>1, <2>2, BeginsType DEF Kinds, Optional
  <1> QED  BY <1>1, <1>2, ReloadIs

\* An answer, or the end of a thread, is appended to the queue.
LEMMA AnswerType ==
    ASSUME TypeOK, NEW t \in Threads, NEW type \in {"result", "failure"},
           threads[t] # NoThread, Answer(t, type)
    PROVE  /\ threads' \in [Threads -> Thread \cup {NoThread}]
           /\ queue' \in Seq(Signal)
  <1>1. [type |-> type, thread |-> t] \in Signal
    BY DEF Signal
  <1>2. [threads[t] EXCEPT !.state = "answered"] \in Thread
    BY ThreadIs DEF Thread
  <1> QED  BY <1>1, <1>2, AppendIs DEF Answer, TypeOK

LEMMA ArrivesType ==
    ASSUME TypeOK, NEW type, Arrives(type)
    PROVE  /\ queue # <<>> /\ queue' = Tail(queue) /\ queue' \in Seq(Signal)
           /\ 1 \in 1 .. Len(queue) /\ Head(queue) = queue[1]
           /\ queue[1].type = type /\ page = "open"
           /\ type # "event" => Sender \in Threads /\ Sender = queue[1].thread
  BY TailIs, SignalIs DEF Arrives, TypeOK, Sender

Meanwhile ==
    \/ \E f \in Files : FileArrives(f) \/ FileGoes(f) \/ FileIsMissing(f)
    \/ Subscribe \/ LosesLink \/ PassOnEvent

LEMMA ChangesType ==
    ASSUME TypeOK, NEW f \in Files, NEW status \in States,
           Changes(f, status) \/ ChangesSilently(f, status)
    PROVE  /\ server' \in [Files -> States] /\ inFlight' \in Nat
           /\ behind' \in Causes \cup {None}
  <1>1. {Missed("unheard"), Missed("silent")} \subseteq Causes \cup {None}
    BY MissedType DEF Causes
  <1> QED  BY <1>1 DEF Changes, ChangesSilently, Becomes, TypeOK

LEMMA MeanwhileType ==
    ASSUME TypeOK, Meanwhile
    PROVE  TypeOK'
  <1>2. ASSUME NEW f \in Files, FileArrives(f) \/ FileGoes(f) \/ FileIsMissing(f) PROVE TypeOK'
    <2>1. PICK status \in States : Changes(f, status) \/ ChangesSilently(f, status)
      BY <1>2 DEF FileArrives, FileGoes, FileIsMissing, States
    <2>2. UNCHANGED <<link, queue, threads, ref, bounds, page, pageVars, deleteVars, overridden>>
      BY <1>2 DEF FileArrives, FileGoes, FileIsMissing
    <2> QED  BY <2>1, <2>2, ChangesType DEF TypeOK, bounds, pageVars, deleteVars
  <1>3. CASE Subscribe
    BY <1>3 DEF Subscribe, TypeOK, bounds, pageVars, deleteVars, historyVars
  <1>4. CASE LosesLink
    <2>1. Missed("unheard") \in Causes \cup {None}
      BY MissedType DEF Causes
    <2>2. faults' \in 0 .. MaxFaults
      BY <1>4, BoundsAssumption DEF LosesLink, Fault, TypeOK
    <2>3. inFlight' \in Nat
      BY <1>4 DEF LosesLink, TypeOK
    <2> QED  BY <1>4, <2>1, <2>2, <2>3 DEF LosesLink, Fault, TypeOK, pageVars, deleteVars
  <1>5. CASE PassOnEvent
    <2>1. queue' \in Seq(Signal)
      BY <1>5, AppendIs DEF PassOnEvent, TypeOK, Signal
    <2>2. inFlight' \in Nat
      BY <1>5 DEF PassOnEvent, TypeOK
    <2> QED  BY <1>5, <2>1, <2>2 DEF PassOnEvent, TypeOK, bounds, pageVars, deleteVars, historyVars
  <1> QED  BY <1>2, <1>3, <1>4, <1>5 DEF Meanwhile

LEMMA WorkType ==
    ASSUME TypeOK, JobsFit, NEW t \in Threads, Work(t)
    PROVE  TypeOK'
  <1>1. threads[t] # NoThread /\ threads[t] \in Thread
    BY ThreadIs DEF Work, ReadData, AnswerData, DataFails, AnswerDetail, AnswerDelete, Finish,
                    InState
  <1>2. Fault => faults' \in 0 .. MaxFaults /\ clicks' = clicks
    BY BoundsAssumption DEF Fault, TypeOK
  <1>3. First("failed") \in Causes /\ Missed("unheard") \in Causes \cup {None}
    BY MissedType DEF Causes
  <1>4. CASE ReadData(t) /\ ListFiles(t) /\ UNCHANGED <<queue, behind, bounds>>
    <2>1. [threads[t] EXCEPT !.state = "served", !.found = Present] \in Thread
      BY <1>1 DEF Thread, Present
    <2>2. threads' \in [Threads -> Thread \cup {NoThread}]
      BY <1>4, <2>1 DEF ListFiles, TypeOK
    <2> QED  BY <1>4, <2>2 DEF ReadData, TypeOK, bounds, roomVars, pageVars, deleteVars
  <1>5. CASE \E type \in {"result", "failure"} : Answer(t, type)
    <2>1. threads' \in [Threads -> Thread \cup {NoThread}] /\ queue' \in Seq(Signal)
      BY <1>1, <1>5, AnswerType
    <2>2. CASE ReadData(t) \/ AnswerData(t) \/ DataFails(t) \/ AnswerDetail(t)
      <3>1. behind' \in Causes \cup {None} /\ faults' \in 0 .. MaxFaults /\ clicks' = clicks
        BY <1>2, <1>3, <2>2 DEF ReadData, AnswerData, DataFails, AnswerDetail, GetsNoFiles,
           ListFiles, GetsNoDetail, TypeOK, bounds, historyVars
      <3>2. UNCHANGED <<roomVars, ref, page, pageVars, deleteVars, overridden>>
        BY <2>2 DEF ReadData, AnswerData, DataFails, AnswerDetail, historyVars
      <3> QED  BY <2>1, <3>1, <3>2 DEF TypeOK, roomVars, pageVars, deleteVars
    <2>3. CASE AnswerDelete(t)
      <3>1. threads[t].arg \in Files
        BY <2>3 DEF AnswerDelete, InState, JobsFit
      <3>2. /\ server' \in [Files -> States] /\ inFlight' \in Nat
            /\ behind' \in Causes \cup {None} /\ faults' \in 0 .. MaxFaults /\ clicks' = clicks
        <4>1. CASE Changes(threads[t].arg, "deleted")
          <5>1. (faults' = faults /\ clicks' = clicks) \/ Fault
            BY <2>3, <4>1 DEF AnswerDelete, bounds
          <5>2. faults' \in 0 .. MaxFaults /\ clicks' = clicks
            BY <1>2, <5>1 DEF TypeOK
          <5> QED  BY <3>1, <4>1, <5>2, ChangesType DEF States
        <4>2. CASE UNCHANGED <<server, inFlight, behind>> /\ Fault
          BY <1>2, <2>3, <4>2 DEF TypeOK
        <4> QED  BY <2>3, <4>1, <4>2 DEF AnswerDelete
      <3>3. UNCHANGED <<link, ref, page, pageVars, deleteVars, overridden>>
        BY <2>3 DEF AnswerDelete
      <3> QED  BY <2>1, <3>2, <3>3 DEF TypeOK, pageVars, deleteVars
    <2>4. CASE Finish(t)
      BY <1>5, <2>4 DEF Finish, Answer
    <2> QED  BY <2>2, <2>3, <2>4 DEF Work
  <1>6. CASE Finish(t)
    <2>1. [Job(threads[t].kind, None) EXCEPT !.state = "finished"] \in Thread
      BY <1>1 DEF Job, Thread, Optional
    <2>2. threads' \in [Threads -> Thread \cup {NoThread}]
      BY <1>6, <2>1 DEF Finish, TypeOK
    <2>3. queue' \in Seq(Signal)
      BY <1>6, AppendIs DEF Finish, TypeOK, Signal
    <2> QED  BY <1>6, <2>2, <2>3 DEF Finish, TypeOK, bounds, roomVars, pageVars, deleteVars, historyVars
  <1> QED
    BY <1>4, <1>5, <1>6 DEF Work, ReadData, AnswerData, DataFails, AnswerDetail, AnswerDelete,
       GetsNoFiles, FileDetail, GetsNoDetail

LEMMA SenderIs ==
    ASSUME PageInv, NEW type \in {"result", "failure", "cleanup"}, Arrives(type)
    PROVE  /\ Sender \in Threads /\ threads[Sender] # NoThread /\ threads[Sender] \in Thread
           /\ threads[Sender].state = IF type = "cleanup" THEN "finished" ELSE "answered"
           /\ \A j \in 1 .. Len(queue) :
                  j # 1 /\ queue[j].type # "event" => queue[j].thread # Sender
  <1>1. /\ 1 \in Sent(queue) /\ Sender = queue[1].thread /\ queue[1].type = type
        /\ Sender \in Threads
    BY ArrivesType DEF PageInv, Sent
  <1>2. SignalFits(queue, 1)
    BY <1>1 DEF PageInv, QueueFits
  <1> QED  BY <1>1, <1>2, ThreadIs DEF SignalFits, PageInv, Sent

LEMMA HandleType ==
    ASSUME PageInv, HandleSignal
    PROVE  TypeOK'
  <1>0. TypeOK
    BY DEF PageInv
  <1>1. CASE RoomDataLoaded
    <2>1. queue' \in Seq(Signal) /\ threads[Sender].found \subseteq Files
      <3>1. threads[Sender] \in Thread
        BY <1>1, SenderIs DEF RoomDataLoaded
      <3> QED  BY <1>0, <1>1, <3>1, ArrivesType DEF RoomDataLoaded, Thread
    <2>2. /\ threads' \in [Threads -> Thread \cup {NoThread}]
          /\ ref' \in [Kinds -> Threads \cup {None}]
          /\ {highlight', selected'} \subseteq Optional /\ overridden' \in BOOLEAN
      <3>1. CASE ShowNothing
        BY <1>0, <3>1 DEF ShowNothing, TypeOK, Optional
      <3>2. CASE \E f \in Files : SelectFile(f)
        BY <1>0, <3>2, SelectFileType
      <3>3. ShowNothing \/ \E f \in Preferred(threads[Sender].found) : SelectFile(f)
        BY <1>1 DEF RoomDataLoaded
      <3>4. Preferred(threads[Sender].found) \subseteq Files
        BY <2>1 DEF Preferred
      <3> QED  BY <3>1, <3>2, <3>3, <3>4
    <2>3. cards' \subseteq Files /\ loading' \in BOOLEAN
      BY <1>1, <2>1 DEF RoomDataLoaded
    <2>4. UNCHANGED <<roomVars, bounds, page, deleteVars, behind>>
      BY <1>1 DEF RoomDataLoaded
    <2> QED  BY <1>0, <2>1, <2>2, <2>3, <2>4 DEF TypeOK, roomVars, bounds, deleteVars
  <1>2. CASE RoomDataFailed \/ FileDetailFailed
    <2>1. queue' \in Seq(Signal)
      BY <1>0, <1>2, ArrivesType DEF RoomDataFailed, FileDetailFailed
    <2> QED
      BY <1>0, <1>2, <2>1 DEF RoomDataFailed, FileDetailFailed, ShowNothing, TypeOK, roomVars, bounds,
         pageVars, deleteVars, historyVars, Optional
  <1>3. CASE FileDetailLoaded
    <2>1. queue' \in Seq(Signal) /\ threads[Sender].arg \in Optional
      <3>1. threads[Sender] \in Thread
        BY <1>3, SenderIs DEF FileDetailLoaded
      <3> QED  BY <1>0, <1>3, <3>1, ArrivesType DEF FileDetailLoaded, Thread
    <2> QED
      BY <1>0, <1>3, <2>1 DEF FileDetailLoaded, TypeOK, roomVars, bounds, deleteVars
  <1>4. CASE DeleteSucceeds
    <2>1. queue' \in Seq(Signal)
      BY <1>0, <1>4, ArrivesType DEF DeleteSucceeds
    <2>2. told' \subseteq Files /\ {highlight', selected', panel'} \subseteq Optional
      BY <1>0, <1>4 DEF DeleteSucceeds, TypeOK, Optional
    <2>3. {overridden', cancelled'} \subseteq BOOLEAN
      BY <1>0, <1>4 DEF DeleteSucceeds, TypeOK
    <2>4. UNCHANGED <<roomVars, bounds, page, cards>>
      BY <1>4 DEF DeleteSucceeds
    <2>5. Reload
      BY <1>4 DEF DeleteSucceeds
    <2> QED  BY <1>0, <2>1, <2>2, <2>3, <2>4, <2>5, ReloadType DEF TypeOK, roomVars, bounds
  <1>5. CASE DeleteFails
    <2>1. queue' \in Seq(Signal)
      BY <1>0, <1>5, ArrivesType DEF DeleteFails
    <2> QED
      BY <1>0, <1>5, <2>1 DEF DeleteFails, TypeOK, roomVars, bounds, pageVars, historyVars, Optional
  <1>6. CASE RoomEvent
    <2>1. queue' \in Seq(Signal)
      BY <1>0, <1>6, ArrivesType DEF RoomEvent
    <2>2. UNCHANGED <<roomVars, bounds, page, cards, highlight, selected, deleteVars, overridden>>
      BY <1>6 DEF RoomEvent
    <2>3. Reload
      BY <1>6 DEF RoomEvent
    <2> QED  BY <1>0, <2>1, <2>2, <2>3, ReloadType DEF TypeOK, roomVars, bounds, deleteVars
  <1>7. CASE Cleanup
    <2>1. queue' \in Seq(Signal)
      BY <1>0, <1>7, ArrivesType DEF Cleanup
    <2>2. Sender \in Threads /\ threads[Sender].kind \in Kinds
      BY <1>7, SenderIs DEF Cleanup, Thread
    <2>3. ref' \in [Kinds -> Threads \cup {None}]
      BY <1>0, <1>7 DEF Cleanup, TypeOK
    <2>4. threads' \in [Threads -> Thread \cup {NoThread}]
      <3>1. PICK now : /\ now = ref[threads[Sender].kind]
                       /\ \/ threads' = [threads EXCEPT ![Sender] = NoThread]
                          \/ /\ now \notin {None, Sender} /\ threads[now].state = "starting"
                             /\ threads' = [threads EXCEPT ![Sender] = NoThread,
                                                           ![now].state = "collected"]
        BY <1>7 DEF Cleanup
      <3>2. CASE threads' = [threads EXCEPT ![Sender] = NoThread]
        BY <1>0, <3>2 DEF TypeOK
      <3>3. CASE /\ now \notin {None, Sender} /\ threads[now].state = "starting"
                 /\ threads' = [threads EXCEPT ![Sender] = NoThread, ![now].state = "collected"]
        <4>1. now \in Threads
          BY <1>0, <2>2, <3>1, <3>3 DEF TypeOK
        <4>2. threads[now] \in Thread
          BY <1>0, <3>3, <4>1, ThreadIs DEF NoThread
        <4>3. [threads[now] EXCEPT !.state = "collected"] \in Thread
          BY <4>2 DEF Thread
        <4> QED  BY <1>0, <2>2, <3>3, <4>1, <4>3 DEF TypeOK
      <3> QED  BY <3>1, <3>2, <3>3
    <2> QED
      BY <1>0, <1>7, <2>1, <2>3, <2>4 DEF Cleanup, TypeOK, roomVars, bounds, pageVars, deleteVars,
         historyVars
  <1> QED  BY <1>1, <1>2, <1>3, <1>4, <1>5, <1>6, <1>7 DEF HandleSignal

LEMMA ClickType ==
    ASSUME TypeOK, Click
    PROVE  TypeOK'
  <1>1. OnPage \/ OnPanel => clicks' \in 0 .. MaxClicks /\ faults' = faults
    BY BoundsAssumption DEF OnPage, OnPanel, TypeOK
  <1>2. ASSUME NEW f \in Files, ClickCard(f) PROVE TypeOK'
    <2>1. SelectFile(f) /\ OnPage
      BY <1>2 DEF ClickCard
    <2>2. UNCHANGED <<roomVars, queue, page, loading, cards, deleteVars, behind>>
      BY <1>2 DEF ClickCard
    <2> QED  BY <1>1, <2>1, <2>2, SelectFileType DEF TypeOK, roomVars, deleteVars
  <1>3. CASE ClickRefresh
    <2>1. Reload /\ OnPage
      BY <1>3 DEF ClickRefresh
    <2>2. UNCHANGED <<roomVars, queue, page, cards, highlight, selected, deleteVars, overridden>>
      BY <1>3 DEF ClickRefresh
    <2> QED  BY <1>1, <2>1, <2>2, ReloadType DEF TypeOK, roomVars, deleteVars
  <1>4. CASE ClickDelete \/ CancelDelete
    <2>1. /\ panel' \in Optional /\ cancelled' \in BOOLEAN
          /\ UNCHANGED <<roomVars, queue, threads, ref, page, pageVars, told, historyVars>>
      BY <1>4 DEF ClickDelete, CancelDelete, TypeOK, Optional
    <2>2. OnPage \/ OnPanel
      BY <1>4 DEF ClickDelete, CancelDelete
    <2> QED  BY <1>1, <2>1, <2>2 DEF TypeOK, roomVars, pageVars, historyVars
  <1>5. CASE ConfirmDelete
    <2>1. /\ StartDelete(panel) /\ OnPanel /\ panel \in Optional
          /\ UNCHANGED <<roomVars, queue, page, pageVars, panel, told, historyVars>>
      BY <1>5 DEF ConfirmDelete, TypeOK
    <2>2. /\ threads' \in [Threads -> Thread \cup {NoThread}]
          /\ ref' \in [Kinds -> Threads \cup {None}] /\ cancelled' \in BOOLEAN
      <3>1. CASE Same /\ UNCHANGED cancelled
        BY <3>1, SameType DEF TypeOK
      <3>2. CASE /\ cancelled' = (Deletions # {})
                 /\ \E t \in Threads : Begins(t, "delete", panel)
        BY <2>1, <3>2, BeginsType DEF Kinds
      <3> QED  BY <2>1, <3>1, <3>2, StartDeleteIs
    <2> QED  BY <1>1, <2>1, <2>2 DEF TypeOK, roomVars, pageVars, historyVars
  <1>6. CASE OpenAnotherRoom
    <2>1. threads' \in [Threads -> Thread \cup {NoThread}] /\ ref' \in [Kinds -> Threads \cup {None}]
      BY <1>6 DEF OpenAnotherRoom
    <2>2. faults' \in 0 .. MaxFaults /\ clicks' \in 0 .. MaxClicks /\ queue' \in Seq(Signal)
      BY <1>6, BoundsAssumption DEF OpenAnotherRoom
    <2> QED  BY <1>6, <2>1, <2>2 DEF OpenAnotherRoom, TypeOK, roomVars, Optional
  <1> QED  BY <1>2, <1>3, <1>4, <1>5, <1>6 DEF Click

----
(***************************************************************************)
(* Signals and threads agree.                                              *)
(***************************************************************************)
Taken == queue # <<>> /\ queue' = Tail(queue)
Event == [type |-> "event"]

\* What a step may do to threads and signals.
Kept    == threads' = threads /\ (queue' = queue \/ Taken \/ queue' = Append(queue, Event))
Begun   == /\ queue' = queue \/ Taken
           /\ \E t \in Threads :
                  \/ \E f \in Files : Begins(t, "detail", f)
                  \/ /\ Begins(t, "data", None)
                     /\ loading' = TRUE
                     /\ behind' = IF Loads # {} THEN "overtaken" ELSE None
                  \/ /\ Begins(t, "delete", panel) /\ panel \in Files /\ panel' = panel
                     /\ cancelled' = (Deletions # {})
Read    == /\ queue' = queue
           /\ \E t \in Threads :
                  /\ threads[t] # NoThread /\ threads[t].state = "starting"
                  /\ threads[t].kind = "data" /\ ListFiles(t)
           /\ UNCHANGED <<roomVars, pageVars, behind>>
Replied == \E t \in Threads, type \in {"result", "failure"} :
               /\ threads[t] # NoThread /\ threads[t].state \in {"starting", "served"}
               /\ threads[t].state = "served" => threads[t].kind = "data"
               /\ Answer(t, type)
               /\ threads[t].kind = "delete" /\ type = "result" =>
                      server'[threads[t].arg] = "deleted"
               /\ threads[t].kind = "data" /\ (threads[t].state = "starting" \/ type = "failure")
                      => behind' # None
Ended   == \E t \in Threads : Finish(t)
Gone    == queue' = <<>> /\ threads' = [t \in Threads |-> NoThread] /\ page' # "open"

LEMMA StepIs ==
    ASSUME PageInv, [Next]_vars
    PROVE  Kept \/ Begun \/ Read \/ Replied \/ Ended \/ Cleanup \/ Gone
  <1>0. TypeOK
    BY DEF PageInv
  <1>1. CASE Meanwhile \/ UNCHANGED vars
    BY <1>1 DEF Meanwhile, FileArrives, FileGoes, FileIsMissing, Subscribe, LosesLink, PassOnEvent, vars, Kept, Event
  <1>2. ASSUME NEW t \in Threads, Work(t) PROVE Read \/ Replied \/ Ended
    <2>1. CASE ReadData(t)
      <3>0. InState(t, "data", "starting") /\ First("failed") # None
        BY <2>1, NoneAssumption DEF ReadData, First, Causes
      <3>1. CASE ListFiles(t) /\ UNCHANGED <<queue, behind>>
        BY <2>1, <3>0, <3>1 DEF ReadData, InState, Read
      <3>2. CASE GetsNoFiles(t)
        BY <3>0, <3>2 DEF GetsNoFiles, InState, Replied
      <3> QED  BY <2>1, <3>1, <3>2 DEF ReadData
    <2>2. CASE AnswerData(t)
      BY <2>2 DEF AnswerData, InState, Replied
    <2>5. CASE DataFails(t)
      <3>1. First("failed") # None
        BY NoneAssumption DEF First, Causes
      <3> QED  BY <2>5, <3>1 DEF DataFails, InState, Replied
    <2>6. CASE AnswerDetail(t)
      BY <2>6 DEF AnswerDetail, FileDetail, GetsNoDetail, InState, Replied
    <2>4. CASE AnswerDelete(t)
      <3>1. threads[t] # NoThread /\ threads[t].state = "starting" /\ threads[t].arg \in Files
        BY <2>4 DEF AnswerDelete, InState, PageInv, JobsFit
      <3>2. Changes(threads[t].arg, "deleted") => server'[threads[t].arg] = "deleted"
        BY <1>0, <3>1 DEF Changes, Becomes, TypeOK
      <3>3. threads[t].kind = "delete"
        BY <2>4 DEF AnswerDelete, InState
      <3> QED  BY <2>4, <3>1, <3>2, <3>3 DEF AnswerDelete, Replied
    <2>3. CASE Finish(t)
      BY <2>3 DEF Ended
    <2> QED
      BY <1>2, <2>1, <2>2, <2>3, <2>4, <2>5, <2>6 DEF Work
  <1>3. ASSUME queue' = queue \/ Taken
        PROVE  /\ (\E f \in Files : SelectFile(f)) => Kept \/ Begun
               /\ Reload => Kept \/ Begun
               /\ StartDelete(panel) /\ panel \in Files /\ panel' = panel => Kept \/ Begun
               /\ Same => Kept \/ Begun
    <2>1. ASSUME Same PROVE Kept \/ Begun
      BY <1>3, <2>1 DEF Same, Kept
    <2>2. ASSUME NEW f \in Files, SelectFile(f) PROVE Kept \/ Begun
      <3>1. Same \/ \E t \in Threads : Begins(t, "detail", f)
        BY <2>2, SelectFileIs
      <3> QED  BY <1>3, <2>1, <3>1 DEF Begun
    <2>3. ASSUME Reload PROVE Kept \/ Begun
      BY <1>3, <2>1, <2>3, ReloadIs DEF Begun
    <2>4. ASSUME StartDelete(panel), panel \in Files, panel' = panel PROVE Kept \/ Begun
      BY <1>3, <2>1, <2>4, StartDeleteIs DEF Begun
    <2> QED  BY <2>1, <2>2, <2>3, <2>4
  <1>4. ASSUME HandleSignal PROVE Kept \/ Begun \/ Cleanup
    <2>1. CASE RoomDataLoaded
      <3>1. Taken
        BY <2>1 DEF RoomDataLoaded, Arrives, Taken
      <3>2. threads[Sender].found \subseteq Files
        BY <2>1, SenderIs DEF RoomDataLoaded, Thread
      <3>3. Preferred(threads[Sender].found) \subseteq Files
        BY <3>2 DEF Preferred
      <3>4. ShowNothing \/ \E f \in Files : SelectFile(f)
        BY <2>1, <3>3 DEF RoomDataLoaded
      <3> QED  BY <1>3, <3>1, <3>4 DEF ShowNothing, Same
    <2>2. CASE RoomDataFailed \/ FileDetailLoaded \/ FileDetailFailed \/ DeleteFails
      BY <2>2 DEF RoomDataFailed, FileDetailLoaded, FileDetailFailed, DeleteFails, ShowNothing,
                  Arrives, Taken, Kept
    <2>3. CASE DeleteSucceeds \/ RoomEvent
      <3>1. Reload /\ Taken
        BY <2>3 DEF DeleteSucceeds, RoomEvent, Arrives, Taken
      <3> QED  BY <1>3, <3>1
    <2> QED  BY <1>4, <2>1, <2>2, <2>3 DEF HandleSignal
  <1>5. ASSUME Click PROVE Kept \/ Begun \/ Gone
    <2>1. ASSUME NEW f \in Files, ClickCard(f) PROVE Kept \/ Begun
      BY <1>3, <2>1 DEF ClickCard
    <2>2. CASE ClickRefresh
      <3>1. Reload /\ queue' = queue
        BY <2>2 DEF ClickRefresh
      <3> QED  BY <1>3, <3>1
    <2>3. CASE ClickDelete \/ CancelDelete
      BY <2>3 DEF ClickDelete, CancelDelete, Kept
    <2>4. CASE ConfirmDelete
      <3>1. StartDelete(panel) /\ panel \in Files /\ panel' = panel /\ queue' = queue
        BY <1>0, <2>4 DEF ConfirmDelete, OnPanel, TypeOK, Optional
      <3> QED  BY <1>3, <3>1
    <2>5. CASE OpenAnotherRoom
      BY <2>5 DEF OpenAnotherRoom, Gone
    <2> QED  BY <1>5, <2>1, <2>2, <2>3, <2>4, <2>5 DEF Click
  <1> QED  BY <1>1, <1>2, <1>4, <1>5 DEF Next, Meanwhile

\* A thread that has not answered, or is not there, has no signal in the queue.
LEMMA NoSignal ==
    ASSUME TypeOK, QueueFits, NEW t \in Threads, threads[t].state \notin {"answered", "finished"}
    PROVE  /\ \A i \in Sent(queue) : queue[i].thread # t
           /\ ~Posted(t)
  <1>1. \A i \in Sent(queue) : queue[i].thread # t
    BY DEF QueueFits, SignalFits
  <1> QED  BY <1>1 DEF Posted, Sent, TypeOK

LEMMA QueueStays ==
    ASSUME TypeOK, QueueFits,
           queue' = queue \/ Taken \/ queue' = Append(queue, Event),
           \A i \in Sent(queue') : threads'[queue'[i].thread].state = threads[queue'[i].thread].state
    PROVE  QueueFits'
  <1>1. CASE queue' = queue
    BY <1>1 DEF QueueFits, SignalFits, Sent
  <1>2. CASE Taken
    <2>1. /\ \A i \in Sent(queue') : i + 1 \in Sent(queue) /\ queue'[i] = queue[i + 1]
          /\ Len(queue') \in Nat
      BY <1>2, TailIs DEF TypeOK, Taken, Sent
    <2>2. ASSUME NEW i \in Sent(queue') PROVE SignalFits(queue, i)'
      <3>1. SignalFits(queue, i + 1) /\ queue'[i] = queue[i + 1]
        BY <2>1 DEF QueueFits
      <3>2. ASSUME NEW j \in Sent(queue'), queue'[j].thread = queue'[i].thread PROVE j = i
        <4>1. j + 1 = i + 1 /\ i \in Nat /\ j \in Nat
          BY <2>1, <3>1, <3>2 DEF SignalFits, Sent
        <4> QED  BY <4>1
      <3> QED  BY <3>1, <3>2 DEF SignalFits
    <2> QED  BY <2>2 DEF QueueFits
  <1>3. CASE queue' = Append(queue, Event)
    <2>1. Sent(queue') = Sent(queue) /\ \A i \in Sent(queue) : queue'[i] = queue[i]
      <3>1. Event \in Signal /\ Event.type = "event"
        BY DEF Event, Signal
      <3> QED  BY <1>3, <3>1, AppendIs DEF TypeOK, Sent
    <2> QED  BY <2>1 DEF QueueFits, SignalFits
  <1> QED  BY <1>1, <1>2, <1>3

LEMMA QueueGrows ==
    ASSUME TypeOK, QueueFits, NEW t \in Threads, NEW type \in {"result", "failure", "cleanup"},
           \A i \in Sent(queue) : queue[i].thread # t,
           queue' = Append(queue, [type |-> type, thread |-> t]),
           threads'[t].state = IF type = "cleanup" THEN "finished" ELSE "answered",
           \A u \in Threads \ {t} : threads'[u] = threads[u]
    PROVE  QueueFits'
  <1>1. /\ [type |-> type, thread |-> t] \in Signal
        /\ [type |-> type, thread |-> t].type = type /\ [type |-> type, thread |-> t].thread = t
        /\ type # "event"
    BY DEF Signal
  <1> DEFINE new == Len(queue) + 1
  <1>2. /\ \A i \in Sent(queue) : i \in Sent(queue') /\ queue'[i] = queue[i]
        /\ new \in Sent(queue') /\ queue'[new].type = type /\ queue'[new].thread = t
        /\ \A i \in Sent(queue') : i \in Sent(queue) \/ i = new
    BY <1>1, AppendIs DEF TypeOK, Sent
  <1> HIDE DEF new
  <1>3. \A i \in Sent(queue) : queue[i].thread \in Threads
    BY SignalIs DEF Sent
  <1>4. ASSUME NEW i \in Sent(queue') PROVE SignalFits(queue, i)'
    <2>1. CASE i = new
      BY <1>2, <2>1 DEF SignalFits
    <2>2. CASE i \in Sent(queue)
      <3>1. SignalFits(queue, i) /\ threads'[queue[i].thread] = threads[queue[i].thread]
        BY <1>3, <2>2 DEF QueueFits
      <3> QED  BY <1>2, <2>2, <3>1, ZenonT(40) DEF SignalFits
    <2> QED  BY <1>2, <2>1, <2>2
  <1> QED  BY <1>4 DEF QueueFits

LEMMA BegunFits ==
    ASSUME PageInv, Begun
    PROVE  QueueFits' /\ JobsFit'
  <1>1. PICK t \in Threads, k \in Kinds, f \in Optional : Begins(t, k, f) /\ (k = "data" \/ f \in Files)
    BY DEF Begun, Kinds, Optional
  <1>2. threads[t].state = "free"
    BY <1>1 DEF Begins, NoThread
  <1>3. /\ threads'[t] = Job(k, f) /\ \A u \in Threads \ {t} : threads'[u] = threads[u]
    BY <1>1 DEF Begins, PageInv, TypeOK
  <1>4. \A i \in Sent(queue) : queue[i].thread # t /\ queue[i].thread \in Threads
    BY <1>2, NoSignal, SignalIs DEF PageInv, Sent
  <1>5. \A i \in Sent(queue') : \E j \in Sent(queue) : queue'[i] = queue[j]
    <2>1. CASE queue' = queue
      BY <2>1
    <2>2. CASE Taken
      BY <2>2, TailIs DEF PageInv, TypeOK, Taken, Sent
    <2> QED  BY <2>1, <2>2 DEF Begun
  <1>6. QueueFits'
    BY <1>3, <1>4, <1>5, QueueStays DEF PageInv, Begun
  <1>7. JobsFit'
    BY <1>1, <1>3, JobIs DEF PageInv, JobsFit
  <1> QED  BY <1>6, <1>7

LEMMA RepliedFits ==
    ASSUME PageInv, Replied
    PROVE  QueueFits' /\ JobsFit'
  <1>1. PICK t \in Threads, type \in {"result", "failure"} :
            /\ threads[t] # NoThread /\ threads[t].state \in {"starting", "served"}
            /\ threads[t].state = "served" => threads[t].kind = "data"
            /\ Answer(t, type)
    BY DEF Replied
  <1>2. /\ threads[t] \in Thread /\ \A u \in Threads \ {t} : threads'[u] = threads[u]
        /\ threads'[t] = [threads[t] EXCEPT !.state = "answered"]
        /\ queue' = Append(queue, [type |-> type, thread |-> t])
    BY <1>1, ThreadIs DEF Answer, PageInv, TypeOK
  <1>3. /\ threads'[t].state = "answered" /\ threads'[t].kind = threads[t].kind
        /\ threads'[t].arg = threads[t].arg
    BY <1>2 DEF Thread
  <1>4. \A i \in Sent(queue) : queue[i].thread # t
    BY <1>1, NoSignal DEF PageInv
  <1>5. QueueFits'
    BY <1>1, <1>2, <1>3, <1>4, QueueGrows DEF PageInv
  <1>6. JobsFit'
    BY <1>1, <1>2, <1>3 DEF PageInv, JobsFit
  <1> QED  BY <1>5, <1>6

LEMMA EndedFits ==
    ASSUME PageInv, Ended
    PROVE  QueueFits' /\ JobsFit'
  <1>1. PICK t \in Threads : Finish(t)
    BY DEF Ended
  <1>2. /\ threads[t].state = "answered" /\ ~Posted(t)
        /\ threads'[t].state = "finished" /\ \A u \in Threads \ {t} : threads'[u] = threads[u]
        /\ queue' = Append(queue, [type |-> "cleanup", thread |-> t])
    BY <1>1 DEF Finish, Job, PageInv, TypeOK
  <1>3. ASSUME NEW i \in Sent(queue), queue[i].thread = t PROVE FALSE
    <2>1. queue[i].type \in {"result", "failure"}
      BY <1>2, <1>3, SignalIs DEF PageInv, QueueFits, SignalFits, Sent
    <2> QED  BY <1>2, <1>3, <2>1 DEF Posted, Sent, PageInv, TypeOK
  <1>4. QueueFits'
    BY <1>2, <1>3, QueueGrows DEF PageInv
  <1>5. JobsFit'
    BY <1>2 DEF PageInv, JobsFit
  <1> QED  BY <1>4, <1>5

\* The thread that has ended is freed, and one that was never begun may wait
\* for ever.
LEMMA CleanupIs ==
    ASSUME PageInv, Cleanup
    PROVE  /\ Taken /\ Sender \in Threads /\ threads[Sender].state = "finished"
           /\ threads[Sender] # NoThread
           /\ threads'[Sender] = NoThread
           /\ \A i \in Sent(queue') : queue'[i].thread \in Threads \ {Sender}
           /\ \/ \A u \in Threads \ {Sender} : threads'[u] = threads[u]
              \/ \E now \in Threads \ {Sender} :
                     /\ threads[now] \in Thread /\ threads[now].state = "starting"
                     /\ threads'[now] = [threads[now] EXCEPT !.state = "collected"]
                     /\ \A u \in Threads \ {Sender, now} : threads'[u] = threads[u]
           /\ UNCHANGED <<roomVars, page, pageVars, deleteVars, historyVars>>
  <1>1. /\ Taken /\ Sender \in Threads /\ threads[Sender].state = "finished"
        /\ threads[Sender] # NoThread /\ threads[Sender].kind \in Kinds
        /\ \A j \in 1 .. Len(queue) :
               j # 1 /\ queue[j].type # "event" => queue[j].thread # Sender
    BY SenderIs, ArrivesType DEF Cleanup, PageInv, Taken, Thread
  <1>2. \A i \in Sent(queue') : queue'[i].thread \in Threads \ {Sender}
    <2>1. \A i \in Sent(queue') : i + 1 \in Sent(queue) /\ i + 1 # 1 /\ queue'[i] = queue[i + 1]
      BY <1>1, TailIs DEF PageInv, TypeOK, Taken, Sent
    <2> QED  BY <1>1, <2>1, SignalIs DEF PageInv, Sent
  <1>3. PICK now : /\ now = ref[threads[Sender].kind]
                   /\ \/ threads' = [threads EXCEPT ![Sender] = NoThread]
                      \/ /\ now \notin {None, Sender} /\ threads[now].state = "starting"
                         /\ threads' = [threads EXCEPT ![Sender] = NoThread,
                                                       ![now].state = "collected"]
    BY DEF Cleanup
  <1>4. now \in Threads \cup {None} /\ threads \in [Threads -> Thread \cup {NoThread}]
    BY <1>1, <1>3 DEF PageInv, TypeOK
  <1>5. CASE threads' = [threads EXCEPT ![Sender] = NoThread]
    BY <1>1, <1>2, <1>4, <1>5 DEF Cleanup
  <1>6. CASE /\ now \notin {None, Sender} /\ threads[now].state = "starting"
             /\ threads' = [threads EXCEPT ![Sender] = NoThread, ![now].state = "collected"]
    <2>1. now \in Threads \ {Sender}
      BY <1>4, <1>6
    <2>2. threads[now] \in Thread
      BY <1>6, <2>1, ThreadIs DEF PageInv, NoThread
    <2>3. /\ threads'[Sender] = NoThread
          /\ threads'[now] = [threads[now] EXCEPT !.state = "collected"]
          /\ \A u \in Threads \ {Sender, now} : threads'[u] = threads[u]
      BY <1>1, <1>4, <1>6, <2>1
    <2> QED  BY <1>1, <1>2, <1>6, <2>1, <2>2, <2>3 DEF Cleanup
  <1> QED  BY <1>3, <1>5, <1>6

LEMMA CleanupFits ==
    ASSUME PageInv, Cleanup
    PROVE  QueueFits' /\ JobsFit'
  <1>1. ASSUME NEW u \in Threads \ {Sender}
        PROVE  threads'[u] = threads[u] \/ (threads[u].state = "starting" /\ threads'[u].state = "collected")
    BY CleanupIs DEF Thread
  <1>2. \A i \in Sent(queue') : \E j \in Sent(queue) : queue'[i] = queue[j]
    <2>1. Taken /\ queue \in Seq(Signal)
      BY CleanupIs DEF PageInv, TypeOK
    <2>2. \A i \in Sent(queue') : i + 1 \in Sent(queue) /\ queue'[i] = queue[i + 1]
      BY <2>1, TailIs DEF Taken, Sent
    <2> QED  BY <2>2
  <1>3. \A i \in Sent(queue') : threads[queue'[i].thread].state # "starting"
    BY <1>2 DEF PageInv, QueueFits, SignalFits
  <1>4. QueueFits'
    BY <1>1, <1>3, CleanupIs, QueueStays DEF PageInv
  <1>5. JobsFit'
    BY <1>1, CleanupIs DEF PageInv, JobsFit, NoThread
  <1> QED  BY <1>4, <1>5

LEMMA ReadFits ==
    ASSUME PageInv, Read
    PROVE  QueueFits' /\ JobsFit'
  <1>1. PICK t \in Threads :
            /\ threads[t] # NoThread /\ threads[t].state = "starting"
            /\ threads[t].kind = "data" /\ ListFiles(t)
    BY DEF Read
  <1>2. /\ threads[t] \in Thread /\ \A u \in Threads \ {t} : threads'[u] = threads[u]
        /\ threads'[t].state = "served" /\ threads'[t].kind = "data"
    BY <1>1, ThreadIs DEF ListFiles, PageInv, TypeOK, Thread
  <1>3. \A i \in Sent(queue) : queue[i].thread \in Threads \ {t}
    BY <1>1, NoSignal, SignalIs DEF PageInv, Sent
  <1>4. QueueFits'
    BY <1>2, <1>3, QueueStays DEF PageInv, Read
  <1>5. JobsFit'
    BY <1>2 DEF PageInv, JobsFit
  <1> QED  BY <1>4, <1>5

LEMMA NextPage ==
    ASSUME PageInv, [Next]_vars
    PROVE  PageInv'
  <1>1. TypeOK'
    BY HandleType, ClickType, WorkType, MeanwhileType
    DEF PageInv, Next, Meanwhile, TypeOK, vars, roomVars, bounds, pageVars, deleteVars, historyVars
  <1>2. CASE Kept
    <2>1. QueueFits'
      BY <1>2, QueueStays DEF Kept, PageInv
    <2> QED  BY <1>1, <1>2, <2>1 DEF Kept, PageInv, JobsFit
  <1>3. CASE Gone
    <2>1. QueueFits'
      BY <1>3 DEF Gone, QueueFits, Sent
    <2> QED  BY <1>1, <1>3, <2>1 DEF Gone, PageInv, JobsFit, NoThread
  <1> QED
    BY <1>1, <1>2, <1>3, StepIs, BegunFits, RepliedFits, EndedFits, CleanupFits, ReadFits DEF PageInv

\* The page's variables have their types, each signal that waits comes from a
\* thread at the step that posts it, and jobs that need a file have one.
THEOREM PageTypeCorrect == Spec => []TypeOK
  <1>1. PageInv => TypeOK
    BY DEF PageInv
  <1> QED  BY <1>1, InitPage, NextPage, PTL DEF Spec

----
(***************************************************************************)
(* What the selection is.                                                  *)
(***************************************************************************)

\* Download and Delete act on the card shown as selected, unless the details
\* of another file replaced the selection.
THEOREM SelectionAlwaysExplained == Spec => []SelectionExplained
  <1>1. Init => SelectionExplained
    BY DEF Init, SelectionExplained
  <1>2. SelectionExplained /\ [Next]_vars => SelectionExplained'
    <2> SUFFICES ASSUME SelectionExplained, [Next]_vars PROVE SelectionExplained'
      OBVIOUS
    <2>1. CASE UNCHANGED <<selected, highlight, overridden>>
      BY <2>1 DEF SelectionExplained
    <2>2. CASE (\E f \in Optional : SelectFile(f)) \/ ShowNothing \/ selected' = None
      BY <2>2 DEF SelectFile, ShowNothing, SelectionExplained
    <2>3. CASE FileDetailLoaded
      BY <2>3 DEF FileDetailLoaded, SelectionExplained
    <2>4. CASE Meanwhile \/ UNCHANGED vars \/ \E t \in Threads : Work(t)
      BY <2>1, <2>4 DEF Meanwhile, FileArrives, FileGoes, FileIsMissing, Subscribe, LosesLink, PassOnEvent, Work,
         ReadData, AnswerData, DataFails, AnswerDetail, AnswerDelete, Finish, vars, pageVars,
         historyVars
    <2>5. CASE HandleSignal
      <3>1. CASE RoomDataLoaded
        <4>1. ShowNothing \/ \E f : SelectFile(f)
          BY <3>1 DEF RoomDataLoaded
        <4> QED  BY <4>1, <2>2 DEF SelectFile, SelectionExplained
      <3> QED
        BY <2>1, <2>2, <2>3, <2>5, <3>1 DEF HandleSignal, RoomDataFailed, FileDetailFailed,
           DeleteSucceeds, DeleteFails, RoomEvent, Cleanup, pageVars, historyVars
    <2>6. CASE Click
      BY <2>1, <2>2, <2>6 DEF Click, ClickCard, ClickRefresh, ClickDelete, ConfirmDelete,
         CancelDelete, OpenAnotherRoom, pageVars, historyVars, Optional
    <2> QED  BY <2>4, <2>5, <2>6 DEF Next, Meanwhile
  <1> QED  BY <1>1, <1>2, PTL DEF Spec

----
(***************************************************************************)
(* What the user is told of deletions.                                     *)
(***************************************************************************)
LEMMA EventIs == Event \in Signal /\ Event.type = "event"
  BY DEF Event, Signal

\* An answer that waits has waited, unless it has just been posted.
LEMMA PostedWas ==
    ASSUME TypeOK, NEW t, Posted(t)',
           \/ queue' = queue \/ Taken
           \/ \E e \in Signal : queue' = Append(queue, e) /\
                                (e.type \in {"result", "failure"} => e.thread # t)
    PROVE  Posted(t)
  <1>0. queue \in Seq(Signal) /\ DOMAIN queue = 1 .. Len(queue)
    BY DEF TypeOK
  <1>1. PICK i \in DOMAIN queue' : queue'[i].type \in {"result", "failure"} /\ queue'[i].thread = t
    BY DEF Posted
  <1>2. CASE queue' = queue
    BY <1>1, <1>2 DEF Posted
  <1>3. CASE Taken
    <2>0. queue # <<>> /\ queue' = Tail(queue) /\ Tail(queue) \in Seq(Signal)
      BY <1>0, <1>3, TailIs DEF Taken
    <2>1. i \in 1 .. Len(Tail(queue))
      BY <1>1, <2>0, SMTT(40)
    <2>2. i + 1 \in 1 .. Len(queue) /\ queue'[i] = queue[i + 1]
      BY <1>0, <1>3, <2>1, TailIs DEF Taken
    <2> QED  BY <1>0, <1>1, <2>2, SMTT(40) DEF Posted
  <1>4. ASSUME NEW e \in Signal, queue' = Append(queue, e),
               e.type \in {"result", "failure"} => e.thread # t
        PROVE  Posted(t)
    <2>0. /\ Append(queue, e) \in Seq(Signal)
          /\ \A j \in 1 .. Len(queue) : Append(queue, e)[j] = queue[j]
          /\ Append(queue, e)[Len(queue) + 1] = e
          /\ \A j \in 1 .. Len(Append(queue, e)) : j \in 1 .. Len(queue) \/ j = Len(queue) + 1
      <3>1. queue \in Seq(Signal) /\ e \in Signal
        BY <1>0, <1>4
      <3> QED  BY <3>1, AppendIs, SMTT(40)
    <2>1. i \in 1 .. Len(Append(queue, e))
      BY <1>1, <1>4, <2>0
    <2>2. i \in 1 .. Len(queue) /\ queue'[i] = queue[i]
      BY <1>1, <1>4, <2>0, <2>1
    <2> QED  BY <1>0, <1>1, <2>2 DEF Posted
  <1> QED  BY <1>2, <1>3, <1>4

LEMMA PostedAnswered ==
    ASSUME PageInv, NEW t, Posted(t)
    PROVE  t \in Threads /\ threads[t].state = "answered"
  <1>1. PICK i \in DOMAIN queue : queue[i].type \in {"result", "failure"} /\ queue[i].thread = t
    BY DEF Posted
  <1>2. i \in Sent(queue)
    BY <1>1 DEF Sent, PageInv, TypeOK
  <1> QED  BY <1>1, <1>2, SignalIs DEF PageInv, QueueFits, SignalFits, Sent

\* The answer that is being handled waits no more.
LEMMA SenderAnswered ==
    ASSUME PageInv, NEW type \in {"result", "failure"}, Arrives(type), NEW t, t = Sender
    PROVE  Posted(t) /\ ~Posted(t)'
  <1>1. /\ 1 \in 1 .. Len(queue) /\ queue[1].type = type /\ t = queue[1].thread
        /\ queue # <<>> /\ queue' = Tail(queue)
    BY ArrivesType DEF PageInv
  <1>2. Posted(t)
    BY <1>1 DEF Posted, PageInv, TypeOK
  <1>3. ASSUME NEW i \in DOMAIN queue', queue'[i].type \in {"result", "failure"},
               queue'[i].thread = t
        PROVE  FALSE
    <2>1. i \in 1 .. Len(Tail(queue))
      <3>1. Tail(queue) \in Seq(Signal)
        BY <1>1, TailIs DEF PageInv, TypeOK
      <3> QED  BY <1>1, <3>1
    <2>2. i + 1 \in 1 .. Len(queue) /\ i + 1 # 1 /\ queue'[i] = queue[i + 1]
      BY <1>1, <2>1, TailIs DEF PageInv, TypeOK
    <2> QED  BY <1>3, <2>2, SenderIs
  <1> QED  BY <1>2, <1>3 DEF Posted

\* Deletions go on, end, or have just been begun.
LEMMA DeletionsWere ==
    ASSUME PageInv, [Next]_vars, NEW t \in Deletions'
    PROVE  \/ t \in Deletions /\ threads'[t].arg = threads[t].arg
           \/ /\ Begins(t, "delete", panel) /\ panel' = panel /\ threads'[t].arg = panel
              /\ cancelled' = (Deletions # {})
  <1>0. /\ t \in Threads /\ threads'[t] # NoThread /\ threads'[t].kind = "delete"
        /\ (threads'[t].state = "starting" \/ Posted(t)') /\ TypeOK
    BY DEF Deletions, PageInv
  <1>1. ASSUME threads'[t] = threads[t], Posted(t)' => Posted(t) PROVE t \in Deletions
    BY <1>0, <1>1 DEF Deletions
  <1>2. queue' = queue \/ Taken \/ queue' = Append(queue, Event) => (Posted(t)' => Posted(t))
    BY <1>0, EventIs, PostedWas
  <1>3. CASE Kept
    BY <1>1, <1>2, <1>3 DEF Kept
  <1>4. CASE Begun
    <2>1. PICK u \in Threads :
            \/ \E f \in Files : Begins(u, "detail", f)
            \/ Begins(u, "data", None)
            \/ /\ Begins(u, "delete", panel) /\ panel \in Files /\ panel' = panel
               /\ cancelled' = (Deletions # {})
      BY <1>4 DEF Begun
    <2>2. CASE t # u
      <3>1. threads'[t] = threads[t]
        BY <1>0, <2>1, <2>2 DEF Begins, TypeOK
      <3> QED  BY <1>1, <1>2, <1>4, <3>1 DEF Begun
    <2>3. CASE t = u
      <3>1. ASSUME NEW k, NEW f, Begins(t, k, f) PROVE threads'[t].kind = k /\ threads'[t].arg = f
        BY <1>0, <3>1 DEF Begins, Job, TypeOK
      <3>2. Begins(t, "delete", panel) /\ panel' = panel /\ cancelled' = (Deletions # {})
        BY <1>0, <2>1, <2>3, <3>1
      <3> QED  BY <3>1, <3>2
    <2> QED  BY <2>2, <2>3
  <1>5. CASE Read
    BY <1>0, <1>1, <1>2, <1>5 DEF Read, ListFiles, TypeOK, Thread
  <1>6. CASE Replied
    <2>1. PICK u \in Threads, type \in {"result", "failure"} :
            /\ threads[u] # NoThread /\ threads[u].state \in {"starting", "served"}
            /\ threads[u].state = "served" => threads[u].kind = "data"
            /\ Answer(u, type)
      BY <1>6 DEF Replied
    <2>2. CASE t # u
      <3>1. /\ threads'[t] = threads[t] /\ [type |-> type, thread |-> u] \in Signal
            /\ queue' = Append(queue, [type |-> type, thread |-> u])
        BY <1>0, <2>1, <2>2 DEF Answer, TypeOK, Signal
      <3> QED  BY <1>0, <1>1, <2>2, <3>1, PostedWas
    <2>3. CASE t = u
      <3>1. /\ threads[t] \in Thread /\ threads'[t] = [threads[t] EXCEPT !.state = "answered"]
        BY <1>0, <2>1, <2>3, ThreadIs DEF Answer, TypeOK
      <3>2. threads'[t].kind = threads[t].kind /\ threads'[t].arg = threads[t].arg
        BY <3>1 DEF Thread
      <3> QED  BY <1>0, <2>1, <2>3, <3>2 DEF Deletions
    <2> QED  BY <2>2, <2>3
  <1>7. CASE Ended
    <2>1. PICK u \in Threads : Finish(u)
      BY <1>7 DEF Ended
    <2>2. /\ [type |-> "cleanup", thread |-> u] \in Signal /\ ~Posted(u)
          /\ queue' = Append(queue, [type |-> "cleanup", thread |-> u])
          /\ threads'[u].state = "finished" /\ (t # u => threads'[t] = threads[t])
      BY <1>0, <2>1 DEF Finish, TypeOK, Signal, Job
    <2>3. Posted(t)' => Posted(t)
      BY <1>0, <2>2, PostedWas
    <2> QED  BY <1>0, <1>1, <2>2, <2>3
  <1>8. CASE Cleanup
    <2>1. Posted(t)' => Posted(t)
      BY <1>2, <1>8, CleanupIs
    <2>2. t # Sender
      BY <1>0, <1>8, CleanupIs
    <2>3. ASSUME NEW now \in Threads, threads[now].state = "starting", t = now,
                 threads'[now] = [threads[now] EXCEPT !.state = "collected"], threads[now] \in Thread
          PROVE  FALSE
      <3>1. threads'[t].state # "starting"
        BY <2>3 DEF Thread
      <3> QED  BY <1>0, <2>1, <2>3, <3>1, PostedAnswered
    <2> QED  BY <1>0, <1>1, <1>8, <2>1, <2>2, <2>3, CleanupIs
  <1>9. CASE Gone
    BY <1>0, <1>9 DEF Gone
  <1> QED  BY <1>3, <1>4, <1>5, <1>6, <1>7, <1>8, <1>9, StepIs

\* What has been deleted stays deleted.
LEMMA DeletedStays ==
    ASSUME PageInv, [Next]_vars, NEW f \in Files, server[f] = "deleted"
    PROVE  server'[f] = "deleted"
  <1>1. CASE UNCHANGED server
    BY <1>1
  <1>2. ASSUME NEW g, Changes(g, "deleted") PROVE server'[f] = "deleted"
    BY <1>2 DEF Changes, Becomes, PageInv, TypeOK
  <1>3. ASSUME NEW g \in Files, FileArrives(g) \/ FileIsMissing(g) PROVE server'[f] = "deleted"
    BY <1>3 DEF FileArrives, FileIsMissing, Changes, ChangesSilently, Becomes, PageInv, TypeOK
  <1>4. CASE Meanwhile \/ UNCHANGED vars
    BY <1>1, <1>2, <1>3, <1>4 DEF Meanwhile, FileGoes, Subscribe, LosesLink, PassOnEvent, vars,
       roomVars
  <1>5. ASSUME NEW t \in Threads, Work(t) PROVE server'[f] = "deleted"
    BY <1>1, <1>2, <1>5 DEF Work, ReadData, AnswerData, DataFails, AnswerDetail, AnswerDelete, Finish,
       roomVars
  <1>6. CASE HandleSignal
    BY <1>1, <1>6 DEF HandleSignal, RoomDataLoaded, RoomDataFailed, FileDetailLoaded,
       FileDetailFailed, DeleteSucceeds, DeleteFails, RoomEvent, Cleanup, roomVars
  <1>7. CASE Click
    BY <1>1, <1>7 DEF Click, ClickCard, ClickRefresh, ClickDelete, ConfirmDelete, CancelDelete,
       OpenAnotherRoom, roomVars
  <1> QED  BY <1>4, <1>5, <1>6, <1>7 DEF Next, Meanwhile

\* Signals that wait have waited, unless they have just been posted.
LEMMA SignalsWere ==
    ASSUME PageInv, [Next]_vars, NEW i \in 1 .. Len(queue'), queue'[i].type \in {"result", "failure"}
    PROVE  /\ queue'[i].thread \in Threads
           /\ \/ /\ \E j \in 1 .. Len(queue) : queue[j] = queue'[i]
                 /\ threads'[queue'[i].thread] = threads[queue'[i].thread]
              \/ \E t \in Threads :
                     /\ t = queue'[i].thread /\ threads[t] \in Thread
                     /\ threads[t].state \in {"starting", "served"}
                     /\ threads[t].state = "served" => threads[t].kind = "data"
                     /\ Answer(t, queue'[i].type)
                     /\ threads'[t] = [threads[t] EXCEPT !.state = "answered"]
                     /\ threads[t].kind = "delete" /\ queue'[i].type = "result" =>
                            server'[threads[t].arg] = "deleted"
                     /\ threads[t].kind = "data" /\ queue'[i].type = "failure" => behind' # None
  <1>0. /\ TypeOK /\ queue \in Seq(Signal) /\ PageInv' /\ i \in Sent(queue')
        /\ queue'[i].thread \in Threads
    <2>1. PageInv'
      BY NextPage
    <2>2. /\ queue' \in Seq(Signal) /\ queue'[i] \in Signal
      BY <2>1 DEF PageInv, TypeOK
    <2> QED  BY <2>1, <2>2 DEF PageInv, TypeOK, Signal, Sent
  <1> DEFINE t == queue'[i].thread
             was == \E j \in 1 .. Len(queue) : queue[j] = queue'[i]
  <1>1. threads'[t].state = "answered" /\ threads'[t] # NoThread
    BY <1>0 DEF PageInv, QueueFits, SignalFits, NoThread
  <1>2. ASSUME queue' = queue \/ Taken PROVE was
    <2>1. CASE queue' = queue
      BY <2>1
    <2>2. CASE Taken
      BY <1>0, <2>2, TailIs DEF Taken
    <2> QED  BY <1>2, <2>1, <2>2
  <1>3. ASSUME NEW e \in Signal, queue' = Append(queue, e), queue'[i] # e PROVE was
    BY <1>0, <1>3, AppendIs
  <1>4. ASSUME was PROVE t \in Threads /\ threads[t].state = "answered"
    <2>1. PICK j \in 1 .. Len(queue) : queue[j] = queue'[i]
      BY <1>4
    <2> QED  BY <1>0, <2>1 DEF PageInv, QueueFits, SignalFits, Sent
  <1> HIDE DEF t, was
  <1>5. CASE Kept
    <2>1. was
      BY <1>2, <1>3, <1>5, EventIs DEF Kept
    <2> QED  BY <1>0, <1>5, <2>1 DEF Kept, was
  <1>6. CASE Begun
    <2>1. was /\ threads[t].state = "answered"
      BY <1>2, <1>4, <1>6 DEF Begun
    <2>2. ASSUME NEW u \in Threads, NEW k, NEW f, Begins(u, k, f) PROVE threads'[t] = threads[t]
      BY <1>0, <2>1, <2>2 DEF Begins, NoThread, TypeOK, t
    <2>3. threads'[t] = threads[t]
      BY <1>6, <2>2 DEF Begun
    <2> QED  BY <1>0, <2>1, <2>3 DEF was, t
  <1>7. CASE Read
    <2>1. was /\ threads[t].state = "answered"
      BY <1>2, <1>4, <1>7 DEF Read
    <2>2. threads'[t] = threads[t]
      BY <1>0, <1>7, <2>1 DEF Read, ListFiles, TypeOK, t
    <2> QED  BY <1>0, <2>1, <2>2 DEF was, t
  <1>8. CASE Replied
    <2>1. PICK u \in Threads, type \in {"result", "failure"} :
               /\ threads[u] # NoThread /\ threads[u].state \in {"starting", "served"}
               /\ threads[u].state = "served" => threads[u].kind = "data"
               /\ Answer(u, type)
               /\ threads[u].kind = "delete" /\ type = "result" =>
                      server'[threads[u].arg] = "deleted"
               /\ threads[u].kind = "data" /\ (threads[u].state = "starting" \/ type = "failure")
                      => behind' # None
      BY <1>8 DEF Replied
    <2> DEFINE e == [type |-> type, thread |-> u]
    <2>2. /\ e \in Signal /\ queue' = Append(queue, e) /\ e.type = type /\ e.thread = u
          /\ threads[u] \in Thread /\ threads' = [threads EXCEPT ![u].state = "answered"]
      BY <1>0, <2>1, ThreadIs DEF Answer, Signal
    <2> HIDE DEF e
    <2>3. CASE queue'[i] = e
      BY <1>0, <2>1, <2>2, <2>3 DEF TypeOK
    <2>4. CASE queue'[i] # e
      <3>1. was
        BY <1>3, <2>2, <2>4
      <3>2. t # u
        BY <1>4, <2>1, <3>1
      <3>3. threads'[t] = threads[t]
        BY <1>0, <1>4, <2>2, <3>1, <3>2 DEF TypeOK
      <3> QED  BY <1>0, <3>1, <3>3 DEF was, t
    <2> QED  BY <2>3, <2>4
  <1>9. CASE Ended
    <2>1. PICK u \in Threads : Finish(u)
      BY <1>9 DEF Ended
    <2>2. /\ [type |-> "cleanup", thread |-> u] \in Signal
          /\ queue' = Append(queue, [type |-> "cleanup", thread |-> u])
          /\ threads'[u].state = "finished" /\ (t # u => threads'[t] = threads[t])
      BY <1>0, <2>1 DEF Finish, TypeOK, Signal, Job, t
    <2>3. t # u /\ queue'[i] # [type |-> "cleanup", thread |-> u]
      BY <1>1, <2>2
    <2> QED  BY <1>0, <1>3, <2>2, <2>3 DEF was, t
  <1>10. CASE Cleanup
    <2>1. was /\ threads[t].state = "answered" /\ t # Sender /\ t \in Threads
      BY <1>1, <1>2, <1>4, <1>10, CleanupIs
    <2>2. threads'[t] = threads[t]
      BY <1>10, <2>1, CleanupIs
    <2> QED  BY <1>0, <2>1, <2>2 DEF was, t
  <1>11. CASE Gone
    BY <1>11 DEF Gone
  <1> QED  BY <1>5, <1>6, <1>7, <1>8, <1>9, <1>10, <1>11, StepIs

GoneInv == DeletionInv /\ ToldFilesAreGone

\* What becomes of the confirm panel.
LEMMA PanelIs ==
    ASSUME PageInv, [Next]_vars
    PROVE  \/ UNCHANGED <<panel, cancelled, told>>
           \/ DeleteSucceeds \/ DeleteFails
           \/ ClickDelete \/ ConfirmDelete \/ CancelDelete \/ OpenAnotherRoom
  <1>1. CASE Meanwhile \/ UNCHANGED vars \/ \E t \in Threads : Work(t)
    BY <1>1 DEF Meanwhile, FileArrives, FileGoes, FileIsMissing, Subscribe, LosesLink, PassOnEvent, Work,
       ReadData, AnswerData, DataFails, AnswerDetail, AnswerDelete, Finish, vars, deleteVars
  <1>2. CASE HandleSignal
    BY <1>2 DEF HandleSignal, RoomDataLoaded, RoomDataFailed, FileDetailLoaded, FileDetailFailed,
       RoomEvent, Cleanup, deleteVars
  <1>3. CASE Click
    BY <1>3 DEF Click, ClickCard, ClickRefresh, deleteVars
  <1> QED  BY <1>1, <1>2, <1>3 DEF Next, Meanwhile

\* A deletion is of a file of the room.
LEMMA DeletionsAreOfFiles ==
    ASSUME PageInv, NEW t \in Deletions
    PROVE  t \in Threads /\ threads[t].arg \in Files
  BY PostedAnswered DEF Deletions, PageInv, JobsFit

LEMMA NextDeletion ==
    ASSUME PageInv, GoneInv, [Next]_vars
    PROVE  DeletionInv'
  <1>1. ASSUME NEW i \in 1 .. Len(queue'), queue'[i].type = "result",
               threads'[queue'[i].thread].kind = "delete"
        PROVE  server'[threads'[queue'[i].thread].arg] = "deleted"
    <2> DEFINE t == queue'[i].thread
    <2>1. t \in Threads
      BY <1>1, SignalsWere
    <2>2. CASE /\ \E j \in 1 .. Len(queue) : queue[j] = queue'[i]
               /\ threads'[t] = threads[t]
      <3>1. PICK j \in 1 .. Len(queue) : queue[j] = queue'[i]
        BY <2>2
      <3>2. server[threads[t].arg] = "deleted" /\ threads[t].arg \in Files
        <4>1. threads[t].state = "answered"
          BY <1>1, <3>1 DEF PageInv, QueueFits, SignalFits, Sent
        <4> QED  BY <1>1, <2>1, <2>2, <3>1, <4>1 DEF PageInv, JobsFit, GoneInv, DeletionInv
      <3> QED  BY <2>2, <3>2, DeletedStays
    <2>3. ASSUME NEW u \in Threads, u = t, threads[u] \in Thread,
                 threads'[u] = [threads[u] EXCEPT !.state = "answered"],
                 threads[u].kind = "delete" => server'[threads[u].arg] = "deleted"
          PROVE  server'[threads'[t].arg] = "deleted"
      <3>1. threads'[u].kind = threads[u].kind /\ threads'[u].arg = threads[u].arg
        BY <2>3 DEF Thread
      <3> QED  BY <1>1, <2>3, <3>1
    <2> HIDE DEF t
    <2>4. \/ /\ \E j \in 1 .. Len(queue) : queue[j] = queue'[i]
             /\ threads'[t] = threads[t]
          \/ \E u \in Threads :
                 /\ u = t /\ threads[u] \in Thread
                 /\ threads'[u] = [threads[u] EXCEPT !.state = "answered"]
                 /\ threads[u].kind = "delete" => server'[threads[u].arg] = "deleted"
      BY <1>1, SignalsWere DEF t
    <2> QED  BY <2>2, <2>3, <2>4 DEF t
  <1>2. ASSUME ~cancelled', NEW t \in Deletions' PROVE threads'[t].arg = panel'
    <2>1. CASE /\ Begins(t, "delete", panel) /\ panel' = panel /\ threads'[t].arg = panel
      BY <2>1
    <2>2. CASE t \in Deletions /\ threads'[t].arg = threads[t].arg
      <3>1. ~cancelled => threads[t].arg = panel
        BY <2>2 DEF GoneInv, DeletionInv
      <3>2. CASE UNCHANGED <<panel, cancelled>>
        BY <1>2, <2>2, <3>1, <3>2
      <3>3. CASE DeleteSucceeds \/ DeleteFails
        <4>1. PICK type \in {"result", "failure"} : Arrives(type)
          BY <3>3 DEF DeleteSucceeds, DeleteFails
        <4>2. t # Sender
          <5>1. t # Sender \/ ~Posted(t)'
            BY <4>1, SenderAnswered
          <5>2. Taken
            BY <4>1 DEF Arrives, Taken
          <5>3. t = Sender => threads[t].state = "answered"
            BY <4>1, SenderIs
          <5>4. ASSUME t = Sender PROVE threads'[t].state # "starting"
            <6>1. threads'[t] = threads[t]
              <7>1. CASE DeleteFails
                BY <7>1 DEF DeleteFails
              <7>2. CASE DeleteSucceeds
                <8>1. Same \/ \E u \in Threads : Begins(u, "data", None)
                  BY <7>2, ReloadIs DEF DeleteSucceeds
                <8>2. ASSUME NEW u \in Threads, Begins(u, "data", None)
                      PROVE  threads'[t] = threads[t]
                  <9>1. t # u
                    BY <5>3, <5>4, <8>2 DEF Begins, NoThread
                  <9> QED  BY <8>2, <9>1, DeletionsAreOfFiles, <2>2 DEF Begins, PageInv, TypeOK
                <8> QED  BY <8>1, <8>2 DEF Same
              <7> QED  BY <3>3, <7>1, <7>2
            <6> QED  BY <5>3, <5>4, <6>1
          <5> QED  BY <5>1, <5>4 DEF Deletions
        <4>3. cancelled' = (Deletions \ {Sender} # {})
          BY <3>3 DEF DeleteSucceeds, DeleteFails
        <4> QED  BY <1>2, <2>2, <4>2, <4>3
      <3>4. CASE CancelDelete
        BY <1>2, <2>2, <3>4 DEF CancelDelete
      <3>5. CASE ClickDelete
        <4>1. panel = None /\ cancelled' = cancelled
          BY <3>5 DEF ClickDelete, OnPage
        <4> QED  BY <1>2, <2>2, <3>1, <4>1, DeletionsAreOfFiles, NoneAssumption
      <3>6. CASE ConfirmDelete
        <4>1. StartDelete(panel) /\ panel' = panel
          BY <3>6 DEF ConfirmDelete
        <4>2. CASE cancelled' = cancelled
          BY <1>2, <2>2, <3>1, <4>1, <4>2
        <4>3. CASE cancelled' = (Deletions # {})
          BY <1>2, <2>2, <4>3
        <4> QED  BY <4>1, <4>2, <4>3 DEF StartDelete
      <3>7. CASE OpenAnotherRoom
        BY <1>2, <3>7 DEF OpenAnotherRoom, Deletions
      <3> QED  BY <3>2, <3>3, <3>4, <3>5, <3>6, <3>7, PanelIs
    <2> QED  BY <2>1, <2>2, DeletionsWere
  <1> QED  BY <1>1, <1>2 DEF DeletionInv

LEMMA NextTold ==
    ASSUME PageInv, GoneInv, [Next]_vars
    PROVE  ToldFilesAreGone'
  <1>1. CASE told' \subseteq told
    BY <1>1, DeletedStays DEF GoneInv, ToldFilesAreGone, PageInv, TypeOK
  <1>2. CASE DeleteSucceeds
    <2>1. Arrives("result") /\ Of("delete")
      BY <1>2 DEF DeleteSucceeds
    <2>2. /\ 1 \in 1 .. Len(queue) /\ queue[1].type = "result" /\ queue[1].thread = Sender
          /\ Sender \in Threads /\ threads[Sender].kind = "delete" /\ threads[Sender] # NoThread
      BY <2>1, ArrivesType, SenderIs DEF PageInv, Of
    <2>3. Sender \in Deletions
      BY <2>1, <2>2, SenderAnswered DEF Deletions
    <2>4. server[threads[Sender].arg] = "deleted" /\ threads[Sender].arg \in Files
      BY <2>2, <2>3, DeletionsAreOfFiles DEF GoneInv, DeletionInv
    <2>5. cancelled \/ threads[Sender].arg = panel
      BY <2>3 DEF GoneInv, DeletionInv
    <2>6. told' \subseteq told \cup {threads[Sender].arg} /\ server' = server
      <3>1. panel # None \/ cancelled
        BY <2>4, <2>5, NoneAssumption
      <3> QED  BY <1>2, <2>5, <3>1 DEF DeleteSucceeds, roomVars
    <2> QED  BY <2>4, <2>6 DEF GoneInv, ToldFilesAreGone
  <1>3. told' \subseteq told \/ DeleteSucceeds
    BY PanelIs DEF DeleteFails, ClickDelete, ConfirmDelete, CancelDelete, OpenAnotherRoom
  <1> QED  BY <1>1, <1>2, <1>3

\* A file that the user is told is deleted is deleted for good: the answer of
\* a deletion is shown with the name in the panel, which names its file as
\* long as no other deletion may be under way.
THEOREM ToldFilesAlwaysGone == Spec => []ToldFilesAreGone
  <1>1. Init => GoneInv
    BY DEF Init, GoneInv, DeletionInv, ToldFilesAreGone, Deletions, Posted, Job, NoThread
  <1>2. PageInv /\ GoneInv /\ [Next]_vars => GoneInv'
    BY NextDeletion, NextTold DEF GoneInv
  <1>3. GoneInv => ToldFilesAreGone
    BY DEF GoneInv
  <1> QED  BY <1>1, <1>2, <1>3, InitPage, NextPage, PTL DEF Spec

----
(***************************************************************************)
(* What the page shows.                                                    *)
(***************************************************************************)

\* An answer waits until it is handled.
LEMMA PostedStays ==
    ASSUME TypeOK, NEW t, Posted(t),
           \/ queue' = queue
           \/ Taken /\ ~(queue[1].type \in {"result", "failure"} /\ queue[1].thread = t)
           \/ \E e \in Signal : queue' = Append(queue, e)
    PROVE  Posted(t)'
  <1>0. queue \in Seq(Signal) /\ DOMAIN queue = 1 .. Len(queue)
    BY DEF TypeOK
  <1>1. PICK i \in 1 .. Len(queue) : queue[i].type \in {"result", "failure"} /\ queue[i].thread = t
    BY <1>0 DEF Posted
  <1>2. CASE queue' = queue
    BY <1>0, <1>1, <1>2 DEF Posted
  <1>3. CASE Taken /\ ~(queue[1].type \in {"result", "failure"} /\ queue[1].thread = t)
    <2>1. /\ i # 1 /\ queue # <<>> /\ queue' = Tail(queue) /\ Tail(queue) \in Seq(Signal)
      BY <1>0, <1>1, <1>3, TailIs, ZenonT(40) DEF Taken
    <2>2. i - 1 \in 1 .. Len(queue') /\ queue'[i - 1] = queue[i]
      BY <1>0, <1>1, <2>1, TailIs
    <2>3. i - 1 \in DOMAIN queue'
      BY <2>1, <2>2
    <2> QED  BY <1>1, <2>2, <2>3, SMTT(40) DEF Posted
  <1>4. ASSUME NEW e \in Signal, queue' = Append(queue, e) PROVE Posted(t)'
    <2>1. Append(queue, e) \in Seq(Signal)
      BY <1>0, AppendIs
    <2>2. i \in 1 .. Len(Append(queue, e)) /\ Append(queue, e)[i] = queue[i]
      BY <1>0, <1>1, AppendIs
    <2>3. i \in DOMAIN queue' /\ queue'[i] = queue[i]
      BY <1>4, <2>1, <2>2
    <2> QED  BY <1>1, <2>3 DEF Posted
  <1> QED  BY <1>2, <1>3, <1>4

BeginsLoad(t) ==
    /\ Begins(t, "data", None)
    /\ loading' = TRUE
    /\ behind' = IF Loads # {} THEN "overtaken" ELSE None

LEMMA BeginsLoadIs ==
    ASSUME PageInv, NEW t \in Threads, BeginsLoad(t)
    PROVE  /\ t \notin Loads /\ t \in Loads' /\ Data(t)' /\ threads'[t].state = "starting"
           /\ ref'["data"] = t /\ WillRead'
  <1>1. threads'[t] = Job("data", None) /\ ref'["data"] = t /\ threads[t] = NoThread
    BY DEF BeginsLoad, Begins, PageInv, TypeOK, Kinds
  <1>2. Data(t)' /\ threads'[t].state = "starting"
    BY <1>1 DEF Job, Data, NoThread
  <1> QED  BY <1>1, <1>2 DEF Loads, WillRead, Data

\* A load is under way from its beginning on.
LEMMA LoadsWere ==
    ASSUME PageInv, [Next]_vars, NEW t \in Loads'
    PROVE  t \in Loads \/ BeginsLoad(t)
  <1>0. /\ t \in Threads /\ threads'[t] # NoThread /\ threads'[t].kind = "data"
        /\ (threads'[t].state \in {"starting", "served"} \/ Posted(t)') /\ TypeOK
    BY DEF Loads, Data, PageInv
  <1>1. ASSUME threads'[t] = threads[t], Posted(t)' => Posted(t) PROVE t \in Loads
    BY <1>0, <1>1 DEF Loads, Data
  <1>2. queue' = queue \/ Taken \/ queue' = Append(queue, Event) => (Posted(t)' => Posted(t))
    BY <1>0, EventIs, PostedWas
  <1>3. CASE Kept
    BY <1>1, <1>2, <1>3 DEF Kept
  <1>4. CASE Begun
    <2>1. PICK u \in Threads :
            \/ \E f \in Files : Begins(u, "detail", f)
            \/ BeginsLoad(u)
            \/ Begins(u, "delete", panel)
      BY <1>4 DEF Begun, BeginsLoad
    <2>2. CASE t # u
      <3>1. threads'[t] = threads[t]
        BY <1>0, <2>1, <2>2 DEF BeginsLoad, Begins, TypeOK
      <3> QED  BY <1>1, <1>2, <1>4, <3>1 DEF Begun
    <2>3. CASE t = u
      <3>1. ASSUME NEW k, NEW f, Begins(t, k, f) PROVE threads'[t].kind = k
        BY <1>0, <3>1 DEF Begins, Job, TypeOK
      <3> QED  BY <1>0, <2>1, <2>3, <3>1
    <2> QED  BY <2>2, <2>3
  <1>5. CASE Read
    <2>1. PICK u \in Threads :
            /\ threads[u] # NoThread /\ threads[u].state = "starting"
            /\ threads[u].kind = "data" /\ ListFiles(u)
      BY <1>5 DEF Read
    <2>2. t # u => threads'[t] = threads[t]
      BY <1>0, <2>1 DEF ListFiles, TypeOK
    <2> QED  BY <1>1, <1>2, <1>5, <2>1, <2>2 DEF Read, Loads, Data
  <1>6. CASE Replied
    <2>1. PICK u \in Threads, type \in {"result", "failure"} :
            /\ threads[u] # NoThread /\ threads[u].state \in {"starting", "served"}
            /\ Answer(u, type)
      BY <1>6 DEF Replied
    <2>2. CASE t # u
      <3>1. /\ threads'[t] = threads[t] /\ [type |-> type, thread |-> u] \in Signal
            /\ queue' = Append(queue, [type |-> type, thread |-> u])
        BY <1>0, <2>1, <2>2 DEF Answer, TypeOK, Signal
      <3> QED  BY <1>0, <1>1, <2>2, <3>1, PostedWas
    <2>3. CASE t = u
      <3>1. /\ threads[t] \in Thread /\ threads'[t] = [threads[t] EXCEPT !.state = "answered"]
        BY <1>0, <2>1, <2>3, ThreadIs DEF Answer, TypeOK
      <3>2. threads'[t].kind = threads[t].kind
        BY <3>1 DEF Thread
      <3> QED  BY <1>0, <2>1, <2>3, <3>2 DEF Loads, Data
    <2> QED  BY <2>2, <2>3
  <1>7. CASE Ended
    <2>1. PICK u \in Threads : Finish(u)
      BY <1>7 DEF Ended
    <2>2. /\ [type |-> "cleanup", thread |-> u] \in Signal /\ ~Posted(u)
          /\ queue' = Append(queue, [type |-> "cleanup", thread |-> u])
          /\ threads'[u].state = "finished" /\ (t # u => threads'[t] = threads[t])
      BY <1>0, <2>1 DEF Finish, TypeOK, Signal, Job
    <2>3. Posted(t)' => Posted(t)
      BY <1>0, <2>2, PostedWas
    <2> QED  BY <1>0, <1>1, <2>2, <2>3
  <1>8. CASE Cleanup
    <2>1. Posted(t)' => Posted(t)
      BY <1>2, <1>8, CleanupIs
    <2>2. t # Sender
      BY <1>0, <1>8, CleanupIs
    <2>3. ASSUME NEW now \in Threads, threads[now].state = "starting", t = now,
                 threads'[now] = [threads[now] EXCEPT !.state = "collected"], threads[now] \in Thread
          PROVE  FALSE
      <3>1. threads'[t].state \notin {"starting", "served"}
        BY <2>3 DEF Thread
      <3> QED  BY <1>0, <2>1, <2>3, <3>1, PostedAnswered
    <2> QED  BY <1>0, <1>1, <1>8, <2>1, <2>2, <2>3, CleanupIs
  <1>9. CASE Gone
    BY <1>0, <1>9 DEF Gone
  <1> QED  BY <1>3, <1>4, <1>5, <1>6, <1>7, <1>8, <1>9, StepIs

Collected(t) == Cleanup /\ threads[t].state = "starting" /\ threads'[t].state = "collected"

\* A load is under way until its answer is shown, and finds what it has read.
LEMMA LoadsStay ==
    ASSUME PageInv, [Next]_vars, page' = "open", NEW t \in Loads
    PROVE  \/ t \in Loads' /\ (threads'[t].found = threads[t].found \/ threads[t].state = "starting")
           \/ Taken /\ queue[1].type \in {"result", "failure"} /\ queue[1].thread = t
           \/ Collected(t)
  <1>0. /\ t \in Threads /\ threads[t] # NoThread /\ threads[t].kind = "data"
        /\ (threads[t].state \in {"starting", "served"} \/ Posted(t)) /\ TypeOK
        /\ threads[t] \in Thread
    BY ThreadIs DEF Loads, Data, PageInv
  <1>1. ASSUME threads'[t] = threads[t],
               queue' = queue \/ Taken \/ \E e \in Signal : queue' = Append(queue, e)
        PROVE  \/ t \in Loads' /\ threads'[t].found = threads[t].found
               \/ Taken /\ queue[1].type \in {"result", "failure"} /\ queue[1].thread = t
    <2>1. CASE Posted(t)'
      BY <1>0, <1>1, <2>1 DEF Loads, Data
    <2>2. CASE threads[t].state \in {"starting", "served"}
      BY <1>0, <1>1, <2>2 DEF Loads, Data
    <2> QED  BY <1>0, <1>1, <2>1, <2>2, PostedStays
  <1>3. CASE Kept
    BY <1>1, <1>3, EventIs DEF Kept
  <1>4. CASE Begun
    <2>1. ASSUME NEW u \in Threads, NEW k, NEW f, Begins(u, k, f) PROVE threads'[t] = threads[t]
      BY <1>0, <2>1 DEF Begins, TypeOK
    <2>2. threads'[t] = threads[t]
      BY <1>4, <2>1 DEF Begun
    <2> QED  BY <1>1, <1>4, <2>2 DEF Begun
  <1>5. CASE Read
    <2>1. PICK u \in Threads :
            /\ threads[u] # NoThread /\ threads[u].state = "starting"
            /\ threads[u].kind = "data" /\ ListFiles(u)
      BY <1>5 DEF Read
    <2>2. t # u => threads'[t] = threads[t]
      BY <1>0, <2>1 DEF ListFiles, TypeOK
    <2>3. t = u => Data(t)' /\ threads'[t].state = "served"
      BY <1>0, <2>1 DEF ListFiles, TypeOK, Data, Thread, NoThread
    <2>4. t = u => t \in Loads'
      BY <1>0, <2>3 DEF Loads
    <2> QED  BY <1>1, <1>5, <2>1, <2>2, <2>4 DEF Read
  <1>6. CASE Replied
    <2>1. PICK u \in Threads, type \in {"result", "failure"} :
            /\ threads[u] # NoThread /\ threads[u].state \in {"starting", "served"}
            /\ Answer(u, type)
      BY <1>6 DEF Replied
    <2> DEFINE e == [type |-> type, thread |-> u]
    <2>2. /\ e \in Signal /\ queue' = Append(queue, e) /\ e.type = type /\ e.thread = u
      BY <2>1 DEF Answer, Signal
    <2> HIDE DEF e
    <2>3. CASE t # u
      <3>1. threads'[t] = threads[t]
        BY <1>0, <2>1, <2>3 DEF Answer, TypeOK
      <3> QED  BY <1>1, <2>2, <3>1
    <2>4. CASE t = u
      <3>1. threads'[t] = [threads[t] EXCEPT !.state = "answered"]
        BY <1>0, <2>1, <2>4 DEF Answer, TypeOK
      <3>2. Data(t)' /\ threads'[t].found = threads[t].found
        BY <1>0, <3>1 DEF Thread, Data, NoThread
      <3>3. queue \in Seq(Signal) /\ Append(queue, e) \in Seq(Signal)
        BY <1>0, <2>2, AppendIs DEF TypeOK
      <3>4. Len(queue) + 1 \in 1 .. Len(queue') /\ queue'[Len(queue) + 1] = e
        BY <2>2, <3>3, AppendIs
      <3>5. Posted(t)'
        BY <2>2, <2>4, <3>3, <3>4 DEF Posted
      <3> QED  BY <1>0, <3>2, <3>5 DEF Loads
    <2> QED  BY <2>3, <2>4
  <1>7. CASE Ended
    <2>1. PICK u \in Threads : Finish(u)
      BY <1>7 DEF Ended
    <2>2. /\ [type |-> "cleanup", thread |-> u] \in Signal /\ ~Posted(u) /\ threads[u].state = "answered"
          /\ queue' = Append(queue, [type |-> "cleanup", thread |-> u])
          /\ (t # u => threads'[t] = threads[t])
      BY <1>0, <2>1 DEF Finish, TypeOK, Signal
    <2> QED  BY <1>0, <1>1, <2>2
  <1>8. CASE Cleanup
    <2>1. t # Sender
      BY <1>0, <1>8, CleanupIs, PostedAnswered
    <2>2. CASE threads'[t] = threads[t]
      BY <1>1, <1>8, <2>2, CleanupIs
    <2>3. ASSUME NEW now \in Threads, threads[now].state = "starting", t = now,
                 threads'[now] = [threads[now] EXCEPT !.state = "collected"], threads[now] \in Thread
          PROVE  Collected(t)
      BY <1>8, <2>3 DEF Thread, Collected
    <2> QED  BY <1>0, <1>8, <2>1, <2>2, <2>3, CleanupIs
  <1>9. CASE Gone
    BY <1>9 DEF Gone
  <1> QED  BY <1>3, <1>4, <1>5, <1>6, <1>7, <1>8, <1>9, StepIs

\* A load that has not read yet still has not, or has just read.
LEMMA WillReadStays ==
    ASSUME PageInv, [Next]_vars, page' = "open", behind' = None,
           NEW t \in Threads, Data(t), threads[t].state = "starting"
    PROVE  \/ WillRead'
           \/ t \in Loads' /\ threads'[t].found = Present'
           \/ Collected(t)
  <1>0. TypeOK /\ threads[t] \in Thread /\ threads[t].kind = "data" /\ threads[t] # NoThread
    BY ThreadIs DEF PageInv, Data
  <1>1. ASSUME threads'[t] = threads[t] PROVE WillRead'
    BY <1>1 DEF WillRead, Data
  <1>2. CASE Kept
    BY <1>1, <1>2 DEF Kept
  <1>3. CASE Begun
    <2>1. ASSUME NEW u \in Threads, NEW k, NEW f, Begins(u, k, f) PROVE threads'[t] = threads[t]
      BY <1>0, <2>1 DEF Begins, TypeOK
    <2> QED  BY <1>1, <1>3, <2>1 DEF Begun
  <1>4. CASE Read
    <2>1. PICK u \in Threads : ListFiles(u) /\ server' = server
      BY <1>4 DEF Read, roomVars
    <2>2. t # u => threads'[t] = threads[t]
      BY <1>0, <2>1 DEF ListFiles, TypeOK
    <2>3. CASE t = u
      <3>1. threads'[t] = [threads[t] EXCEPT !.state = "served", !.found = Present]
        BY <1>0, <2>1, <2>3 DEF ListFiles, TypeOK
      <3>2. Data(t)' /\ threads'[t].state = "served" /\ threads'[t].found = Present
        BY <1>0, <3>1 DEF Thread, Data, NoThread
      <3> QED  BY <2>1, <3>2 DEF Loads, Present
    <2> QED  BY <1>1, <2>2, <2>3
  <1>5. CASE Replied
    <2>1. PICK u \in Threads, type \in {"result", "failure"} :
            /\ Answer(u, type)
            /\ threads[u].kind = "data" /\ (threads[u].state = "starting" \/ type = "failure")
                      => behind' # None
      BY <1>5 DEF Replied
    <2> QED  BY <1>0, <1>1, <2>1 DEF Answer, TypeOK
  <1>6. CASE Ended
    <2>1. PICK u \in Threads : Finish(u)
      BY <1>6 DEF Ended
    <2> QED  BY <1>0, <1>1, <2>1 DEF Finish, TypeOK
  <1>7. CASE Cleanup
    <2>1. t # Sender
      BY <1>7, CleanupIs
    <2>2. CASE threads'[t] = threads[t]
      BY <1>1, <2>2
    <2>3. ASSUME NEW now \in Threads, t = now,
                 threads'[now] = [threads[now] EXCEPT !.state = "collected"], threads[now] \in Thread
          PROVE  Collected(t)
      BY <1>7, <2>3 DEF Thread, Collected
    <2> QED  BY <1>7, <2>1, <2>2, <2>3, CleanupIs
  <1>8. CASE Gone
    BY <1>8 DEF Gone
  <1> QED  BY <1>2, <1>3, <1>4, <1>5, <1>6, <1>7, <1>8, StepIs

LEMMA MissedIs ==
    ASSUME NEW cause \in Causes
    PROVE  /\ First(cause) # None
           /\ Missed(cause) = None => WillRead /\ behind = None
  BY NoneAssumption DEF Missed, First

\* Only a new load makes up for what went wrong.
LEMMA BehindWas ==
    ASSUME PageInv, [Next]_vars, page' = "open", behind' = None
    PROVE  /\ page = "open"
           /\ behind = None \/ (Loads = {} /\ \E t \in Threads : BeginsLoad(t))
  <1>0. /\ {"unheard", "silent", "dropped", "failed", "overtaken"} \subseteq Causes
        /\ "overtaken" # None
    BY NoneAssumption DEF Causes
  <1>1. page = "open"
    BY DEF Next, HandleSignal, RoomDataLoaded, RoomDataFailed, FileDetailLoaded, FileDetailFailed,
       DeleteSucceeds, DeleteFails, RoomEvent, Cleanup, Arrives, Click, ClickCard, ClickRefresh,
       ClickDelete, ConfirmDelete, CancelDelete, OpenAnotherRoom, OnPage, OnPanel, Work, ReadData,
       AnswerData, DataFails, AnswerDetail, AnswerDelete, Finish, InState, FileArrives, FileGoes,
       FileIsMissing, Subscribe, LosesLink, PassOnEvent, vars
  <1>2. CASE behind' = behind
    BY <1>1, <1>2
  <1>3. CASE \E cause \in Causes : behind' = Missed(cause) \/ behind' = First(cause)
    BY <1>1, <1>3, MissedIs
  <1>4. CASE Reload
    <2>1. Same /\ UNCHANGED loading /\ behind' = Missed("dropped") => behind = None
      BY <1>0, MissedIs
    <2>2. ASSUME loading' = TRUE, behind' = IF Loads # {} THEN "overtaken" ELSE None,
                 NEW t \in Threads, Begins(t, "data", None)
          PROVE  BeginsLoad(t) /\ Loads = {}
      BY <1>0, <2>2 DEF BeginsLoad
    <2> QED  BY <1>1, <1>4, <2>1, <2>2, ReloadIs
  <1>5. ASSUME NEW f, NEW status, Changes(f, status) \/ ChangesSilently(f, status)
        PROVE  \/ behind' = behind
               \/ \E cause \in Causes : behind' = Missed(cause) \/ behind' = First(cause)
    BY <1>0, <1>5 DEF Changes, ChangesSilently
  <1>6. CASE Meanwhile \/ UNCHANGED vars
    BY <1>0, <1>2, <1>3, <1>5, <1>6 DEF Meanwhile, FileArrives, FileGoes, FileIsMissing, Subscribe, LosesLink,
       PassOnEvent, vars, historyVars
  <1>7. ASSUME NEW t \in Threads, Work(t) PROVE behind' = behind \/ \E cause \in Causes :
                                    behind' = Missed(cause) \/ behind' = First(cause)
    BY <1>0, <1>5, <1>7 DEF Work, ReadData, GetsNoFiles, AnswerData, DataFails, AnswerDetail,
       AnswerDelete, Finish, historyVars
  <1>8. ASSUME HandleSignal PROVE Reload \/ behind' = behind
    BY <1>8 DEF HandleSignal, RoomDataLoaded, RoomDataFailed, FileDetailLoaded, FileDetailFailed,
       DeleteSucceeds, DeleteFails, RoomEvent, Cleanup, historyVars
  <1>9. ASSUME Click PROVE Reload \/ behind' = behind
    BY <1>9 DEF Click, ClickCard, ClickRefresh, ClickDelete, ConfirmDelete, CancelDelete,
       OpenAnotherRoom, historyVars
  <1> QED
    BY <1>2, <1>3, <1>4, <1>6, <1>7, <1>8, <1>9 DEF Next, Meanwhile

\* The load whose answer is handled.
LEMMA HandledIs ==
    ASSUME PageInv, [Next]_vars, page' = "open", NEW t \in Threads, Data(t),
           Taken, queue[1].type \in {"result", "failure"}, queue[1].thread = t
    PROVE  /\ RoomDataLoaded \/ RoomDataFailed
           /\ t = Sender /\ queue[1].type = IF RoomDataLoaded THEN "result" ELSE "failure"
  <1>0. /\ queue \in Seq(Signal) /\ queue # <<>> /\ queue' = Tail(queue) /\ queue' # queue
        /\ \A e \in Signal : queue' # Append(queue, e)
        /\ queue[1] = Head(queue) /\ t = Sender
    <2>1. queue \in Seq(Signal) /\ queue # <<>> /\ queue' = Tail(queue)
      BY DEF PageInv, TypeOK, Taken
    <2>2. Len(queue') = Len(queue) - 1 /\ Len(queue) \in Nat /\ queue[1] = Head(queue)
      BY <2>1, TailIs
    <2>3. \A e \in Signal : Len(Append(queue, e)) = Len(queue) + 1
      BY <2>1, AppendIs
    <2>4. queue' # queue /\ \A e \in Signal : queue' # Append(queue, e)
      BY <2>2, <2>3
    <2> QED  BY <2>1, <2>2, <2>4 DEF Sender
  <1>1. CASE Meanwhile \/ UNCHANGED vars
    BY <1>0, <1>1, EventIs DEF Meanwhile, FileArrives, FileGoes, FileIsMissing, Subscribe, LosesLink, PassOnEvent,
       vars, Event
  <1>2. ASSUME NEW u \in Threads, Work(u) PROVE FALSE
    <2>1. \A type \in {"result", "failure", "cleanup"} : [type |-> type, thread |-> u] \in Signal
      BY DEF Signal
    <2> QED
      BY <1>0, <1>2, <2>1 DEF Work, ReadData, GetsNoFiles, ListFiles, AnswerData, DataFails, Answer,
         AnswerDetail, FileDetail, GetsNoDetail, AnswerDelete, Finish
  <1>3. CASE Click
    BY <1>0, <1>3 DEF Click, ClickCard, ClickRefresh, ClickDelete, ConfirmDelete, CancelDelete,
       OpenAnotherRoom
  <1>4. CASE HandleSignal
    <2>1. RoomDataLoaded \/ RoomDataFailed
      BY <1>0, <1>4 DEF HandleSignal, RoomDataLoaded, RoomDataFailed, FileDetailLoaded,
         FileDetailFailed, DeleteSucceeds, DeleteFails, RoomEvent, Cleanup, Arrives, Of, Data
    <2>2. /\ RoomDataLoaded => queue[1].type = "result"
          /\ RoomDataFailed => queue[1].type = "failure"
      BY <1>0 DEF RoomDataLoaded, RoomDataFailed, Arrives
    <2> QED  BY <1>0, <2>1, <2>2
  <1> QED  BY <1>1, <1>2, <1>3, <1>4, SMTT(40) DEF Next, Meanwhile

\* What the page shows changes when a load's answer is handled.
LEMMA ShownIs ==
    ASSUME PageInv, [Next]_vars, page' = "open"
    PROVE  \/ cards' = cards /\ (loading' = loading \/ loading' = TRUE)
           \/ /\ RoomDataLoaded \/ RoomDataFailed
              /\ Sender \in Loads /\ Taken
              /\ \A t : t = Sender => t \notin Loads'
  <1>1. CASE Meanwhile \/ UNCHANGED vars \/ \E t \in Threads : Work(t)
    BY <1>1 DEF Meanwhile, FileArrives, FileGoes, FileIsMissing, Subscribe, LosesLink, PassOnEvent, Work,
       ReadData, AnswerData, DataFails, AnswerDetail, AnswerDelete, Finish, vars, pageVars
  <1>2. Reload => loading' = loading \/ loading' = TRUE
    BY DEF Reload
  <1>3. CASE Click
    BY <1>2, <1>3 DEF Click, ClickCard, ClickRefresh, ClickDelete, ConfirmDelete, CancelDelete,
       OpenAnotherRoom, pageVars
  <1>4. CASE RoomDataLoaded \/ RoomDataFailed
    <2>1. PICK type \in {"result", "failure"} : Arrives(type) /\ Of("data")
      BY <1>4 DEF RoomDataLoaded, RoomDataFailed
    <2>2. /\ Sender \in Threads /\ threads[Sender] # NoThread /\ threads[Sender].state = "answered"
          /\ Posted(Sender) /\ threads[Sender].kind = "data"
      BY <2>1, SenderIs, SenderAnswered DEF Of
    <2>3. Sender \in Loads /\ Taken
      BY <2>1, <2>2 DEF Loads, Data, Arrives, Taken
    <2>4. ASSUME NEW t, t = Sender PROVE t \notin Loads'
      <3>1. ~Posted(t)'
        BY <2>1, <2>4, SenderAnswered
      <3>2. threads'[t] = threads[t]
        <4>1. Same \/ \E f : SelectFile(f)
          BY <1>4 DEF RoomDataLoaded, RoomDataFailed, ShowNothing, Same
        <4>2. Same \/ \E u \in Threads : \E f : Begins(u, "detail", f)
          BY <4>1, SelectFileIs
        <4> QED  BY <2>2, <2>4, <4>2 DEF Same, Begins, PageInv, TypeOK
      <3> QED  BY <2>2, <2>4, <3>1, <3>2 DEF Loads
    <2> QED  BY <1>4, <2>3, <2>4
  <1>5. CASE HandleSignal
    BY <1>2, <1>4, <1>5 DEF HandleSignal, FileDetailLoaded, FileDetailFailed, DeleteSucceeds,
       DeleteFails, RoomEvent, Cleanup, pageVars
  <1> QED  BY <1>1, <1>3, <1>5 DEF Next, Meanwhile

\* A change that no load will read is one that the page will hear of.
LEMMA PresentKept ==
    ASSUME PageInv, [Next]_vars, page' = "open", behind' = None, ~WillRead
    PROVE  Present' = Present \/ inFlight' > 0
  <1>0. /\ {"unheard", "silent"} \subseteq Causes /\ inFlight \in Nat
        /\ server \in [Files -> States]
    BY DEF Causes, PageInv, TypeOK
  <1>1. CASE UNCHANGED server
    BY <1>1 DEF Present
  <1>2. ASSUME NEW f \in Files, NEW status, Changes(f, status)
        PROVE  Present' = Present \/ inFlight' > 0
    <2>1. CASE link = "subscribed"
      BY <1>0, <1>2, <2>1 DEF Changes
    <2>2. CASE link # "subscribed"
      <3>1. ~Matters(f, status) /\ Becomes(f, status)
        BY <1>0, <1>2, <2>2, MissedIs DEF Changes
      <3> QED  BY <1>0, <3>1 DEF Matters, Becomes, Present
    <2> QED  BY <2>1, <2>2
  <1>7. ASSUME NEW f, NEW status, ChangesSilently(f, status) PROVE FALSE
    BY <1>0, <1>7, MissedIs DEF ChangesSilently
  <1>3. CASE Meanwhile \/ UNCHANGED vars
    BY <1>1, <1>2, <1>3, <1>7 DEF Meanwhile, FileArrives, FileGoes, FileIsMissing, Subscribe,
       LosesLink, PassOnEvent, vars, roomVars
  <1>4. ASSUME NEW t \in Threads, Work(t) PROVE Present' = Present \/ inFlight' > 0
    <2>1. CASE AnswerDelete(t)
      <3>1. threads[t].arg \in Files
        BY <2>1 DEF AnswerDelete, InState, PageInv, JobsFit
      <3> QED  BY <1>1, <1>2, <2>1, <3>1 DEF AnswerDelete
    <2> QED
      BY <1>1, <1>4, <2>1 DEF Work, ReadData, AnswerData, DataFails, AnswerDetail, Finish, roomVars
  <1>5. CASE HandleSignal
    BY <1>1, <1>5 DEF HandleSignal, RoomDataLoaded, RoomDataFailed, FileDetailLoaded,
       FileDetailFailed, DeleteSucceeds, DeleteFails, RoomEvent, Cleanup, roomVars
  <1>6. CASE Click
    BY <1>1, <1>6 DEF Click, ClickCard, ClickRefresh, ClickDelete, ConfirmDelete, CancelDelete,
       OpenAnotherRoom, roomVars
  <1> QED  BY <1>3, <1>4, <1>5, <1>6 DEF Next, Meanwhile

HasEvent == \E i \in 1 .. Len(queue) : queue[i].type = "event"

\* An event that waits still does, or has made the page load again.
LEMMA EventStays ==
    ASSUME PageInv, HasEvent,
           \/ queue' = queue
           \/ Taken /\ queue[1].type # "event"
           \/ \E e \in Signal : queue' = Append(queue, e)
    PROVE  HasEvent'
  <1>0. queue \in Seq(Signal)
    BY DEF PageInv, TypeOK
  <1>1. PICK i \in 1 .. Len(queue) : queue[i].type = "event"
    BY DEF HasEvent
  <1>2. CASE queue' = queue
    BY <1>1, <1>2 DEF HasEvent
  <1>3. CASE Taken /\ queue[1].type # "event"
    <2>1. i - 1 \in 1 .. Len(queue') /\ queue'[i - 1] = queue[i]
      BY <1>0, <1>1, <1>3, TailIs DEF Taken
    <2> QED  BY <1>1, <2>1 DEF HasEvent
  <1>4. ASSUME NEW e \in Signal, queue' = Append(queue, e) PROVE HasEvent'
    <2>1. i \in 1 .. Len(Append(queue, e)) /\ Append(queue, e)[i] = queue[i]
      BY <1>0, <1>1, AppendIs
    <2> QED  BY <1>1, <1>4, <2>1 DEF HasEvent
  <1> QED  BY <1>2, <1>3, <1>4

LEMMA ComingKept ==
    ASSUME PageInv, [Next]_vars, page' = "open", behind' = None, ~WillRead, Coming
    PROVE  Coming' \/ \E t \in Threads : BeginsLoad(t)
  <1>0. /\ {"unheard", "dropped"} \subseteq Causes /\ inFlight \in Nat /\ queue \in Seq(Signal)
        /\ \A type \in {"result", "failure", "cleanup"} : \A t \in Threads :
               [type |-> type, thread |-> t] \in Signal
    BY DEF Causes, PageInv, TypeOK, Signal
  <1>1. ASSUME inFlight' >= inFlight, inFlight' \in Nat,
               \/ queue' = queue
               \/ Taken /\ queue[1].type # "event"
               \/ \E e \in Signal : queue' = Append(queue, e)
        PROVE  Coming'
    <2>1. CASE inFlight > 0
      BY <1>0, <1>1, <2>1 DEF Coming
    <2>2. CASE HasEvent
      BY <1>1, <2>2, EventStays DEF Coming, HasEvent
    <2> QED  BY <2>1, <2>2 DEF Coming, HasEvent
  <1>2. ASSUME NEW f, NEW status, Changes(f, status) \/ ChangesSilently(f, status)
        PROVE  inFlight' >= inFlight /\ inFlight' \in Nat
    BY <1>0, <1>2 DEF Changes, ChangesSilently
  <1>3. CASE LosesLink
    <2>1. inFlight' = inFlight /\ queue' = queue
      BY <1>0, <1>3, MissedIs DEF LosesLink
    <2> QED  BY <1>0, <1>1, <2>1
  <1>4. CASE PassOnEvent
    <2>1. Len(queue) + 1 \in 1 .. Len(queue') /\ queue'[Len(queue) + 1].type = "event"
      BY <1>0, <1>4, AppendIs, EventIs DEF PassOnEvent, Event
    <2> QED  BY <2>1 DEF Coming
  <1>5. CASE Meanwhile \/ UNCHANGED vars
    BY <1>0, <1>1, <1>2, <1>3, <1>4, <1>5 DEF Meanwhile, FileArrives, FileGoes, FileIsMissing, Subscribe, vars,
       roomVars
  <1>6. ASSUME NEW t \in Threads, Work(t) PROVE Coming'
    <2>1. queue' = queue \/ \E e \in Signal : queue' = Append(queue, e)
      BY <1>0, <1>6 DEF Work, ReadData, GetsNoFiles, AnswerData, DataFails, Answer,
         AnswerDetail, FileDetail, GetsNoDetail, AnswerDelete, Finish
    <2>2. inFlight' >= inFlight /\ inFlight' \in Nat
      BY <1>0, <1>2, <1>6 DEF Work, ReadData, AnswerData, DataFails, AnswerDetail, AnswerDelete,
         Finish, roomVars
    <2> QED  BY <1>1, <2>1, <2>2
  <1>7. CASE Click
    BY <1>0, <1>1, <1>7 DEF Click, ClickCard, ClickRefresh, ClickDelete, ConfirmDelete, CancelDelete,
       OpenAnotherRoom, roomVars
  <1>8. CASE RoomEvent
    <2>1. Reload
      BY <1>8 DEF RoomEvent
    <2>2. behind' # Missed("dropped")
      BY <1>0, MissedIs
    <2> QED  BY <2>1, <2>2, ReloadIs DEF BeginsLoad
  <1>9. ASSUME HandleSignal, ~RoomEvent PROVE Coming'
    <2>1. PICK type \in {"result", "failure", "cleanup"} : Arrives(type)
      BY <1>9 DEF HandleSignal, RoomDataLoaded, RoomDataFailed, FileDetailLoaded,
         FileDetailFailed, DeleteSucceeds, DeleteFails, Cleanup
    <2>2. Taken /\ queue[1].type # "event"
      BY <2>1, ArrivesType DEF PageInv, Taken
    <2>3. inFlight' = inFlight
      BY <1>9 DEF HandleSignal, RoomDataLoaded, RoomDataFailed, FileDetailLoaded,
         FileDetailFailed, DeleteSucceeds, DeleteFails, Cleanup, roomVars
    <2> QED  BY <1>0, <1>1, <2>2, <2>3
  <1> QED  BY <1>5, <1>6, <1>7, <1>8, <1>9 DEF Next, Meanwhile

LEMMA NextPostedAnswered ==
    ASSUME PageInv', NEW t, Posted(t)'
    PROVE  threads'[t].state = "answered"
  <1>1. PICK i \in DOMAIN queue' : queue'[i].type \in {"result", "failure"} /\ queue'[i].thread = t
    BY DEF Posted
  <1>2. i \in Sent(queue')
    BY <1>1 DEF Sent, PageInv, TypeOK
  <1> QED  BY <1>1, <1>2 DEF PageInv, QueueFits, SignalFits

LEMMA NextLoad ==
    ASSUME PageInv, LoadInv, [Next]_vars
    PROVE  LoadInv'
  <1> SUFFICES ASSUME page' = "open", behind' = None
               PROVE  /\ \A t, u \in Loads' : t = u
                      /\ Loads' # {} => loading'
                      /\ \A i \in 1 .. Len(queue') : queue'[i].type = "failure" =>
                             threads'[queue'[i].thread].kind # "data"
                      /\ \/ WillRead' \/ Coming'
                         \/ \E t \in Loads' : threads'[t].found = Present'
                         \/ Loads' = {} /\ (loading' \/ cards' = Present')
    BY DEF LoadInv
  <1>0. PageInv' /\ Loads \subseteq Threads /\ Loads' \subseteq Threads
    BY NextPage DEF Loads
  <1>1. /\ page = "open" /\ (behind = None \/ Loads = {})
        /\ (behind = None \/ \E t \in Threads : BeginsLoad(t))
    BY BehindWas
  <1>2. ASSUME behind = None
        PROVE  /\ \A t, u \in Loads : t = u
               /\ Loads # {} => loading
               /\ \A i \in 1 .. Len(queue) :
                      queue[i].type = "failure" => threads[queue[i].thread].kind # "data"
               /\ \/ WillRead \/ Coming
                  \/ \E t \in Loads : threads[t].found = Present
                  \/ Loads = {} /\ (loading \/ cards = Present)
    BY <1>1, <1>2 DEF LoadInv
  <1>3. ASSUME NEW t \in Threads, BeginsLoad(t) PROVE Loads = {} /\ loading' /\ WillRead'
    BY <1>3, BeginsLoadIs, NoneAssumption DEF BeginsLoad, Causes
  <1>4. \A t, u \in Loads' : t = u
    <2> SUFFICES ASSUME NEW t \in Loads', NEW u \in Loads' PROVE t = u
      OBVIOUS
    <2>1. CASE t \in Loads /\ u \in Loads
      BY <1>1, <1>2, <2>1
    <2>2. ASSUME BeginsLoad(t) \/ BeginsLoad(u) PROVE BeginsLoad(t) /\ BeginsLoad(u)
      BY <1>0, <1>3, <2>2, LoadsWere
    <2>3. CASE BeginsLoad(t) /\ BeginsLoad(u)
      BY <1>0, <2>3, BeginsLoadIs
    <2> QED  BY <2>1, <2>2, <2>3, LoadsWere
  <1>5. Loads' # {} => loading'
    <2> SUFFICES ASSUME NEW t \in Loads' PROVE loading'
      OBVIOUS
    <2>1. CASE BeginsLoad(t)
      BY <2>1 DEF BeginsLoad
    <2>2. CASE t \in Loads
      <3>1. behind = None /\ loading
        BY <1>1, <1>2, <2>2
      <3>2. t = Sender \/ Sender \notin Loads
        BY <1>2, <2>2, <3>1
      <3> QED  BY <3>1, <3>2, ShownIs
    <2> QED  BY <2>1, <2>2, LoadsWere
  <1>6. ASSUME NEW i \in 1 .. Len(queue'), queue'[i].type = "failure",
               threads'[queue'[i].thread].kind = "data"
        PROVE  FALSE
    <2> DEFINE t == queue'[i].thread
    <2>1. CASE /\ \E j \in 1 .. Len(queue) : queue[j] = queue'[i]
               /\ threads'[t] = threads[t]
      <3>1. PICK j \in 1 .. Len(queue) : queue[j] = queue'[i]
        BY <2>1
      <3>2. t \in Loads
        <4>1. /\ threads[t].kind = "data" /\ threads[t].state = "answered" /\ t \in Threads
          BY <1>6, <2>1, <3>1, SignalIs DEF PageInv, QueueFits, SignalFits, Sent
        <4>2. Posted(t) /\ threads[t] # NoThread
          BY <1>6, <3>1, <4>1 DEF Posted, PageInv, TypeOK, NoThread
        <4> QED  BY <4>1, <4>2 DEF Loads, Data
      <3> QED  BY <1>1, <1>2, <1>6, <2>1, <3>1, <3>2
    <2>2. ASSUME NEW u \in Threads, u = t, threads[u] \in Thread,
                 threads'[u] = [threads[u] EXCEPT !.state = "answered"],
                 threads[u].kind = "data" => behind' # None
          PROVE  FALSE
      <3>1. threads'[u].kind = threads[u].kind
        BY <2>2 DEF Thread
      <3> QED  BY <1>6, <2>2, <3>1
    <2> HIDE DEF t
    <2>3. \/ /\ \E j \in 1 .. Len(queue) : queue[j] = queue'[i]
             /\ threads'[t] = threads[t]
          \/ \E u \in Threads :
                 /\ u = t /\ threads[u] \in Thread
                 /\ threads'[u] = [threads[u] EXCEPT !.state = "answered"]
                 /\ threads[u].kind = "data" => behind' # None
      BY <1>6, SignalsWere DEF t
    <2> QED  BY <2>1, <2>2, <2>3
  <1>7. \/ WillRead' \/ Coming'
        \/ \E t \in Loads' : threads'[t].found = Present'
        \/ Loads' = {} /\ (loading' \/ cards' = Present')
    <2> SUFFICES ASSUME ~WillRead', ~Coming', ~\E t \in Threads : BeginsLoad(t)
                 PROVE  \/ \E t \in Loads' : threads'[t].found = Present'
                        \/ Loads' = {} /\ (loading' \/ cards' = Present')
      BY <1>3
    <2>1. behind = None /\ Loads' \subseteq Loads
      BY <1>0, <1>1, LoadsWere
    <2>2. ASSUME NEW t \in Loads, Collected(t) PROVE Loads' = {} /\ loading'
      <3>1. t \notin Loads'
        <4>1. threads'[t].state = "collected" /\ t \in Threads
          BY <1>0, <2>2 DEF Collected
        <4> QED  BY <1>0, <4>1, NextPostedAnswered DEF Loads
      <3>2. Loads' = {}
        BY <1>2, <2>1, <2>2, <3>1
      <3>3. loading' = loading
        BY <2>2 DEF Collected, Cleanup, pageVars
      <3> QED  BY <1>2, <2>1, <2>2, <3>2, <3>3
    <2>3. CASE WillRead
      <3>1. PICK t \in Threads : Data(t) /\ threads[t].state = "starting"
        BY <2>3 DEF WillRead
      <3>2. t \in Loads
        BY <3>1 DEF Loads
      <3> QED  BY <2>2, <3>1, <3>2, WillReadStays
    <2>4. CASE ~WillRead /\ Coming
      BY <2>4, ComingKept
    <2>5. ASSUME ~WillRead, NEW t \in Loads, threads[t].found = Present
          PROVE  \/ \E u \in Loads' : threads'[u].found = Present'
                 \/ Loads' = {} /\ (loading' \/ cards' = Present')
      <3>0. Present' = Present
        BY <2>5, PresentKept DEF Coming
      <3>1. threads[t].state # "starting" /\ Data(t) /\ t \in Threads
        BY <2>5 DEF WillRead, Loads
      <3>2. CASE t \in Loads' /\ threads'[t].found = threads[t].found
        BY <2>5, <3>0, <3>2
      <3>3. CASE Taken /\ queue[1].type \in {"result", "failure"} /\ queue[1].thread = t
        <4>1. /\ RoomDataLoaded \/ RoomDataFailed
              /\ t = Sender /\ queue[1].type = IF RoomDataLoaded THEN "result" ELSE "failure"
          BY <3>1, <3>3, HandledIs
        <4>2. queue[1].type # "failure"
          <5>1. 1 \in 1 .. Len(queue)
            BY <3>3, TailIs DEF PageInv, TypeOK, Taken
          <5> QED  BY <1>2, <2>1, <3>1, <3>3, <5>1 DEF Data
        <4>3. RoomDataLoaded
          BY <4>1, <4>2
        <4>4. cards' = threads[t].found
          BY <4>1, <4>3 DEF RoomDataLoaded
        <4>5. t \notin Loads'
          <5>1. cards' = cards /\ (loading' = loading \/ loading' = TRUE) => loading = FALSE \/ loading'
            BY DEF PageInv, TypeOK
          <5>2. loading' = FALSE /\ loading
            BY <1>2, <2>1, <2>5, <4>3 DEF RoomDataLoaded
          <5> QED  BY <4>1, <5>1, <5>2, ShownIs
        <4>6. Loads' = {}
          BY <1>2, <2>1, <2>5, <4>5
        <4> QED  BY <2>5, <3>0, <4>4, <4>6
      <3>4. CASE Collected(t)
        BY <3>1, <3>4 DEF Collected
      <3> QED  BY <3>1, <3>2, <3>3, <3>4, LoadsStay
    <2>6. CASE ~WillRead /\ Loads = {} /\ (loading \/ cards = Present)
      <3>1. cards' = cards /\ (loading' = loading \/ loading' = TRUE)
        BY <2>6, ShownIs
      <3>2. Present' = Present
        BY <2>6, PresentKept DEF Coming
      <3> QED  BY <2>1, <2>6, <3>1, <3>2
    <2> QED  BY <1>2, <2>1, <2>3, <2>4, <2>5, <2>6
  <1> QED  BY <1>4, <1>5, <1>6, <1>7

LEMMA InitLoad == Init => LoadInv
  <1> SUFFICES ASSUME Init PROVE LoadInv
    OBVIOUS
  <1>1. threads[1] = Job("data", None) /\ 1 \in Threads /\ \A t \in Threads \ {1} : threads[t] = NoThread
    BY BoundsAssumption DEF Init, Threads
  <1>2. WillRead /\ \A t \in Loads : t = 1
    BY <1>1 DEF WillRead, Loads, Data, Job, NoThread
  <1>3. Len(queue) = 0 /\ loading
    BY DEF Init
  <1> QED  BY <1>2, <1>3 DEF LoadInv

\* A page that has come to rest shows the room's files, unless an event was
\* not heard, a change was told to nobody, a reload was dropped, a load failed
\* or loads overtook each other.
THEOREM StaleAlwaysExplained == Spec => []StaleExplained
  <1>1. PageInv /\ LoadInv => StaleExplained
    <2> SUFFICES ASSUME PageInv, LoadInv, Quiet, behind = None PROVE cards = Present
      BY DEF StaleExplained
    <2>1. ~WillRead /\ ~Coming /\ Loads = {} /\ ~loading /\ page = "open"
      BY DEF Quiet, WillRead, Loads, Coming
    <2> QED  BY <2>1 DEF LoadInv
  <1>2. PageInv /\ LoadInv /\ [Next]_vars => PageInv' /\ LoadInv'
    BY NextPage, NextLoad
  <1> QED  BY <1>1, <1>2, InitPage, InitLoad, PTL DEF Spec

----
(***************************************************************************)
(* The connection: what is true while calls and listeners keep out of each *)
(* other's way.                                                            *)
(***************************************************************************)
Apart == causes \cap {"old listener", "two calls"} = {}

Switching(c) == callers[c].pc \in {"connecting", "starting", "close", "reset"}

\* One thread connects or disconnects at a time, and its step says what the
\* client looks like.
CallersApart ==
    /\ \A c, d \in Callers : Switching(c) /\ Switching(d) => c = d
    /\ \A c \in Callers : callers[c].pc \in {"connecting", "starting"} => state = "CONNECTING"
    /\ \A c \in Callers : At(c, "starting") =>
           /\ socket # Nothing
           /\ ~running
           /\ dialled >= 1
           /\ \A l \in Listeners : ~Listens(l)
           /\ \A l \in Listeners : ~In(l, "none") => l < dialled
    /\ \A c \in Callers : callers[c].pc \in {"close", "reset"} => ~running
    /\ \A c \in Callers : At(c, "reset") => socket = Nothing

\* There is one listener as long as the client takes itself to be running.
ListenersApart ==
    /\ \A l, k \in Listeners : Listens(l) /\ Listens(k) => l = k
    /\ \A l \in Listeners : In(l, "reset") => socket = Nothing
    /\ \A l \in Listeners : ~In(l, "none") => l <= dialled
    /\ running => \E l \in Listeners : Listens(l)
    /\ running => socket # Nothing \/ \E l \in Listeners : In(l, "reset")

\* _state, _socket and _running agree, but for a switch that is under way.
StateAgrees ==
    /\ state # "CONNECTED" => socket = Nothing \/ \E c \in Callers : At(c, "starting")
    /\ state = "CONNECTED" /\ ~running => socket = Nothing \/ \E c \in Callers : At(c, "close")

HeardInv == Apart => CallersApart /\ ListenersApart /\ StateAgrees

\* Connections are numbered as they are made.
Dialled ==
    /\ dialled \in 0 .. MaxSockets
    /\ \A s \in Sockets : s > dialled => conn[s] = "none" /\ inbound[s] = <<>> /\ socket # s

Busy(l) == listeners[l].pc \in {"recv", "append"}

\* A caller that sends has a request, a listener that receives a connection.
PartsFit ==
    /\ \A c \in Callers :
           callers[c].pc \in {"lock", "send", "waiting"} => callers[c].request \in Requests
    /\ \A l \in Listeners : Busy(l) => listeners[l].sock \in Sockets
    /\ \A l \in Listeners : In(l, "append") => listeners[l].piece \in Piece

TypeInv == ClientTypeOK /\ PartsFit /\ Dialled

\* A piece that begins a frame is followed by the other one of that frame.
Closed(p)     == p = Nothing \/ p[2] = 2
Follows(p, n) == IF Closed(p) THEN n[2] = 1 ELSE n = <<p[1], 2>>

\* The pieces q make up whole frames after p.
Fits(p, q) ==
    IF q = <<>>
    THEN Closed(p)
    ELSE /\ Follows(p, q[1])
         /\ \A i \in 1 .. Len(q) : i + 1 \in 1 .. Len(q) => Follows(q[i], q[i + 1])
         /\ Closed(q[Len(q)])

\* A listener receives from the socket there is, or from one that was closed.
Reading ==
    \A l \in Listeners : Busy(l) =>
        \/ listeners[l].sock = socket
        \/ socket = Nothing /\ conn[listeners[l].sock] = "closed"

\* What the buffer holds belongs to the connection there is.
BufferInv ==
    /\ buffer = Nothing \/ (buffer \in Piece /\ buffer[2] = 1)
    /\ buffer # Nothing \/ (\E l \in Listeners : In(l, "append")) =>
           running \/ \E c \in Callers : callers[c].pc \in {"close", "reset"}
    /\ \A l \in Listeners : In(l, "append") =>
           /\ Follows(buffer, listeners[l].piece)
           /\ socket # Nothing => Fits(listeners[l].piece, inbound[socket])
    /\ socket # Nothing /\ ~(\E l \in Listeners : In(l, "append")) => Fits(buffer, inbound[socket])

\* What was received and what is yet to be received make up whole frames.
FrameInv == causes = {} => Reading /\ BufferInv

----
(***************************************************************************)
(* The types.                                                              *)
(***************************************************************************)
LEMMA BoundsAre ==
    MaxSockets \in Nat /\ MaxRequests \in Nat
  BY ConnectionBounds

LEMMA NoneIs ==
    /\ Nothing \notin Callers /\ Nothing \notin Sockets /\ Nothing \notin Requests
    /\ Nothing \notin Piece /\ Nothing # Garbage /\ Garbage \notin Piece
    /\ Sockets \subseteq Nat /\ Listeners \subseteq Nat /\ Requests \subseteq Nat
    /\ Nothing \notin Nat
  BY ConnectionBounds, NothingAssumption DEF Sockets, Requests, Listeners, Piece, Garbage

LEMMA InitType ==
    ClientInit => TypeInv
  <1> SUFFICES ASSUME ClientInit PROVE TypeInv
    OBVIOUS
  <1>1. dialled \in 0 .. MaxSockets /\ made \in 0 .. MaxRequests
    BY BoundsAre DEF ClientInit
  <1>2. callers \in [Callers -> Caller] /\ \A c \in Callers : ~(callers[c].pc \in {"send", "stuck"})
    BY DEF ClientInit, Idle, Caller
  <1>3. listeners \in [Listeners -> Listener]
    BY DEF ClientInit, Listening, Listener
  <1>4. inbound \in [Sockets -> Seq(Piece)]
    BY DEF ClientInit
  <1>5. \A c \in Callers : lock = c <=> callers[c].pc \in {"send", "stuck"}
    BY <1>2, NoneIs DEF ClientInit
  <1>6. ClientTypeOK
    BY <1>1, <1>2, <1>3, <1>4, <1>5 DEF ClientInit, ClientTypeOK
  <1>7. Dialled
    BY <1>1, NoneIs DEF ClientInit, Dialled
  <1>8. PartsFit
    BY DEF ClientInit, Idle, Listening, PartsFit, Busy, In
  <1> QED  BY <1>6, <1>7, <1>8 DEF TypeInv

\* A caller takes a step that leaves the lock alone.
LEMMA CallerType ==
    ASSUME ClientTypeOK, NEW c \in Callers, NEW v \in Caller, UNCHANGED lock,
           callers' = [callers EXCEPT ![c] = v],
           v.pc \in {"send", "stuck"} <=> callers[c].pc \in {"send", "stuck"}
    PROVE  /\ callers' \in [Callers -> Caller]
           /\ lock' \in Callers \cup {Nothing}
           /\ \A d \in Callers : lock' = d <=> callers'[d].pc \in {"send", "stuck"}
  BY DEF ClientTypeOK

\* A caller takes the lock, or gives it back.
LEMMA LockType ==
    ASSUME ClientTypeOK, NEW c \in Callers, NEW v \in Caller,
           callers' = [callers EXCEPT ![c] = v],
           \/ lock = Nothing /\ lock' = c /\ v.pc = "send"
           \/ lock = c /\ lock' = Nothing /\ v.pc \notin {"send", "stuck"}
    PROVE  /\ callers' \in [Callers -> Caller]
           /\ lock' \in Callers \cup {Nothing}
           /\ \A d \in Callers : lock' = d <=> callers'[d].pc \in {"send", "stuck"}
  <1>1. callers' \in [Callers -> Caller] /\ lock' \in Callers \cup {Nothing}
    BY DEF ClientTypeOK
  <1>2. \A d \in Callers : lock = d <=> callers[d].pc \in {"send", "stuck"}
    BY DEF ClientTypeOK
  <1>3. \A d \in Callers : callers'[d] = IF d = c THEN v ELSE callers[d]
    BY DEF ClientTypeOK
  <1> QED  BY <1>1, <1>2, <1>3, NoneIs

CallerTypes ==
    /\ callers' \in [Callers -> Caller]
    /\ lock' \in Callers \cup {Nothing}
    /\ \A d \in Callers : lock' = d <=> callers'[d].pc \in {"send", "stuck"}

LEMMA GotoType ==
    ASSUME ClientTypeOK, NEW c \in Callers,
           NEW pc \in {"connecting", "starting", "close", "reset"},
           callers[c].pc \notin {"send", "stuck"}, Goto(c, pc) \/ Return(c), UNCHANGED lock
    PROVE  CallerTypes
  <1>1. /\ callers[c] \in Caller /\ [callers[c] EXCEPT !.pc = pc] \in Caller /\ Idle \in Caller
        /\ [callers[c] EXCEPT !.pc = pc].pc = pc /\ Idle.pc = "idle"
    BY DEF ClientTypeOK, Caller, Idle
  <1> DEFINE v == [callers[c] EXCEPT !.pc = pc]
  <1>2. callers' = [callers EXCEPT ![c] = v] \/ callers' = [callers EXCEPT ![c] = Idle]
    BY DEF Goto, Return
  <1>3. v \in Caller /\ v.pc = pc
    BY <1>1
  <1> HIDE DEF v
  <1>4. v.pc \notin {"send", "stuck"} /\ Idle.pc \notin {"send", "stuck"}
    BY <1>1, <1>3
  <1>5. CASE callers' = [callers EXCEPT ![c] = v]
    BY <1>3, <1>4, <1>5, CallerType DEF CallerTypes
  <1>6. CASE callers' = [callers EXCEPT ![c] = Idle]
    BY <1>1, <1>4, <1>6, CallerType DEF CallerTypes
  <1> QED  BY <1>2, <1>5, <1>6

LEMMA CloseSocketType ==
    ASSUME ClientTypeOK, CloseSocket
    PROVE  /\ conn' \in [Sockets -> {"none", "open", "broken", "closed"}] /\ socket' = Nothing
           /\ \A s \in Sockets : conn'[s] = IF s = socket THEN "closed" ELSE conn[s]
  BY DEF ClientTypeOK, CloseSocket

LEMMA ResetType ==
    ASSUME ClientTypeOK, Reset
    PROVE  buffer' = Nothing /\ running' = FALSE /\ causes' \subseteq BlendCauses
  BY DEF ClientTypeOK, Reset, CausedBy, BlendCauses

LEMMA CausedByType ==
    ASSUME ClientTypeOK, NEW cause \in BlendCauses, NEW p, CausedBy(cause, p)
    PROVE  causes' \subseteq BlendCauses
  BY DEF ClientTypeOK, CausedBy

LEMMA CallType ==
    ASSUME ClientTypeOK, NEW c \in Callers, Call(c)
    PROVE  ClientTypeOK'
  <1>1. CASE Connect(c) \/ Disconnect(c)
    <2>1. CallerTypes
      BY <1>1, GotoType DEF Connect, Disconnect, At
    <2>2. causes' \subseteq BlendCauses
      BY <1>1, CausedByType DEF Connect, Disconnect, BlendCauses
    <2> QED  BY <1>1, <2>1, <2>2 DEF Connect, Disconnect, ClientTypeOK, netVars, CallerTypes
  <1>2. CASE SendRequest(c)
    <2>1. made' \in 0 .. MaxRequests /\ made' \in Requests
      BY <1>2, BoundsAre DEF SendRequest, ClientTypeOK, Requests
    <2>2. [pc |-> "lock", request |-> made'] \in Caller
      BY <2>1 DEF Caller
    <2>3. CallerTypes
      BY <1>2, <2>2, CallerType DEF SendRequest, At, CallerTypes
    <2> QED  BY <1>2, <2>1, <2>3 DEF SendRequest, ClientTypeOK, netVars, clientVars, CallerTypes
  <1> QED  BY <1>1, <1>2 DEF Call

LEMMA ProceedType ==
    ASSUME ClientTypeOK, PartsFit, NEW c \in Callers, Proceed(c)
    PROVE  ClientTypeOK'
  <1>0. callers[c] \in Caller
    BY DEF ClientTypeOK
  <1>1. CASE Dial(c)
    <2>1. CallerTypes
      BY <1>1, GotoType DEF Dial, At
    <2>2. dialled' \in 0 .. MaxSockets /\ dialled' \in Sockets
      <3>1. dialled \in 0 .. MaxSockets /\ dialled < MaxSockets /\ dialled' = dialled + 1
        BY <1>1 DEF Dial, ClientTypeOK
      <3> QED  BY <3>1, BoundsAre DEF Sockets
    <2>3. causes' \subseteq BlendCauses
      BY <1>1, CausedByType DEF Dial, BlendCauses
    <2> QED  BY <1>1, <2>1, <2>2, <2>3 DEF Dial, ClientTypeOK, CallerTypes
  <1>2. CASE DialFails(c)
    <2>1. CallerTypes
      BY <1>2, GotoType DEF DialFails, At
    <2>2. buffer' = Nothing /\ running' = FALSE /\ causes' \subseteq BlendCauses
      BY <1>2, ResetType DEF DialFails
    <2> QED  BY <1>2, <2>1, <2>2 DEF DialFails, ClientTypeOK, netVars, CallerTypes
  <1>3. CASE StartListener(c)
    <2>1. CallerTypes
      BY <1>3, GotoType DEF StartListener, At
    <2>2. listeners' \in [Listeners -> Listener] /\ running' \in BOOLEAN
      <3>1. running' \in BOOLEAN
        BY <1>3 DEF StartListener, ClientTypeOK
      <3>2. \A l \in Listeners :
                listeners[l] \in Listener /\ [listeners[l] EXCEPT !.pc = "top"] \in Listener
        <4> SUFFICES ASSUME NEW l \in Listeners
                     PROVE  listeners[l] \in Listener /\ [listeners[l] EXCEPT !.pc = "top"] \in Listener
          OBVIOUS
        <4>1. listeners[l] \in Listener
          BY DEF ClientTypeOK
        <4> QED  BY <4>1 DEF Listener
      <3>3. listeners' = listeners \/ listeners' = [listeners EXCEPT ![NextListener].pc = "top"]
        BY <1>3 DEF StartListener
      <3>4. listeners \in [Listeners -> Listener]
        BY DEF ClientTypeOK
      <3> QED  BY <3>1, <3>2, <3>3, <3>4
    <2> QED  BY <1>3, <2>1, <2>2 DEF StartListener, ClientTypeOK, netVars, CallerTypes
  <1>4. CASE DisconnectCloses(c)
    <2>1. CallerTypes
      BY <1>4, GotoType DEF DisconnectCloses, At
    <2>2. conn' \in [Sockets -> {"none", "open", "broken", "closed"}] /\ socket' = Nothing
      BY <1>4, CloseSocketType DEF DisconnectCloses
    <2> QED  BY <1>4, <2>1, <2>2 DEF DisconnectCloses, ClientTypeOK, CallerTypes
  <1>5. CASE DisconnectEnds(c)
    <2>1. CallerTypes
      BY <1>5, GotoType DEF DisconnectEnds, At
    <2>2. buffer' = Nothing /\ running' = FALSE /\ causes' \subseteq BlendCauses
      BY <1>5, ResetType DEF DisconnectEnds
    <2> QED  BY <1>5, <2>1, <2>2 DEF DisconnectEnds, ClientTypeOK, netVars, CallerTypes
  <1>6. CASE TakeLock(c)
    <2>1. [callers[c] EXCEPT !.pc = "send"] \in Caller /\ [callers[c] EXCEPT !.pc = "send"].pc = "send"
      BY <1>0 DEF Caller
    <2>2. CallerTypes
      BY <1>6, <2>1, LockType DEF TakeLock, Goto, CallerTypes
    <2> QED  BY <1>6, <2>2 DEF TakeLock, ClientTypeOK, netVars, clientVars, CallerTypes
  <1>7. CASE SendSucceeds(c)
    <2>1. [callers[c] EXCEPT !.pc = "waiting"] \in Caller /\ [callers[c] EXCEPT !.pc = "waiting"].pc = "waiting"
      BY <1>0 DEF Caller
    <2>2. lock = c
      BY <1>7 DEF SendSucceeds, At, ClientTypeOK
    <2>3. CallerTypes
      BY <1>7, <2>1, <2>2, LockType DEF SendSucceeds, Goto, CallerTypes
    <2>4. received' \in [Sockets -> SUBSET Requests]
      <3>1. callers[c].request \in Requests
        BY <1>7 DEF SendSucceeds, At, PartsFit
      <3> QED  BY <1>7, <3>1 DEF SendSucceeds, ClientTypeOK
    <2> QED  BY <1>7, <2>3, <2>4 DEF SendSucceeds, ClientTypeOK, clientVars, CallerTypes
  <1>8. CASE SendTimesOut(c) \/ GetAnswer(c) \/ RequestTimesOut(c)
    <2>1. Idle \in Caller /\ Idle.pc = "idle"
      BY DEF Caller, Idle
    <2>2. CASE SendTimesOut(c)
      <3>1. lock = c
        BY <2>2 DEF SendTimesOut, At, ClientTypeOK
      <3>2. CallerTypes
        BY <2>1, <2>2, <3>1, LockType DEF SendTimesOut, Return, CallerTypes
      <3> QED  BY <2>2, <3>2 DEF SendTimesOut, ClientTypeOK, netVars, clientVars, CallerTypes
    <2>3. CASE GetAnswer(c) \/ RequestTimesOut(c)
      <3>1. CallerTypes
        BY <2>1, <2>3, CallerType DEF GetAnswer, RequestTimesOut, Return, CallerTypes, At
      <3> QED  BY <2>3, <3>1 DEF GetAnswer, RequestTimesOut, ClientTypeOK, netVars,
                  clientVars, CallerTypes
    <2> QED  BY <1>8, <2>2, <2>3
  <1>9. CASE SendFails(c)
    <2>1. [callers[c] EXCEPT !.pc = "stuck"] \in Caller /\ [callers[c] EXCEPT !.pc = "stuck"].pc = "stuck"
      BY <1>0 DEF Caller
    <2>2. CallerTypes
      BY <1>9, <2>1, CallerType DEF SendFails, Goto, CallerTypes, At
    <2> QED  BY <1>9, <2>2 DEF SendFails, ClientTypeOK, netVars, clientVars, CallerTypes
  <1> QED
    BY <1>1, <1>2, <1>3, <1>4, <1>5, <1>6, <1>7, <1>8, <1>9 DEF Proceed

LEMMA PiecesType ==
    ASSUME NEW q \in Seq(Piece), NEW r \in Requests
    PROVE  /\ q # <<>> => Head(q) \in Piece /\ Tail(q) \in Seq(Piece)
           /\ q \o <<<<r, 1>>, <<r, 2>>>> \in Seq(Piece)
  <1>1. <<r, 1>> \in Piece /\ <<r, 2>> \in Piece
    BY DEF Piece
  <1> QED  BY <1>1

LEMMA ListenType ==
    ASSUME ClientTypeOK, PartsFit, NEW l \in Listeners, Listen(l)
    PROVE  ClientTypeOK'
  <1>0. /\ \A pc \in {"top", "close", "reset", "done"} : Listening(pc, Nothing, Nothing) \in Listener
        /\ \A s \in Sockets : Listening("recv", s, Nothing) \in Listener
        /\ \A s \in Sockets, p \in Piece : Listening("append", s, p) \in Listener
    BY DEF Listening, Listener
  <1>1. \A v \in Listener :
            listeners' = [listeners EXCEPT ![l] = v] => listeners' \in [Listeners -> Listener]
    BY DEF ClientTypeOK
  <1>2. \A pc \in {"top", "close", "reset", "done"} :
            Continue(l, pc) => listeners' \in [Listeners -> Listener]
    BY <1>0, <1>1 DEF Continue
  <1>3. CASE LoopTop(l)
    <2>1. listeners' \in [Listeners -> Listener]
      BY <1>0, <1>1, <1>3 DEF LoopTop, ClientTypeOK
    <2> QED  BY <1>3, <2>1 DEF LoopTop, ClientTypeOK, netVars, clientVars
  <1>4. CASE ReceivePiece(l)
    <2>1. PICK s \in Sockets : s = listeners[l].sock
      BY <1>4 DEF ReceivePiece, PartsFit, Busy, In
    <2>2. inbound[s] \in Seq(Piece) /\ inbound[s] # <<>>
      BY <1>4, <2>1 DEF ReceivePiece, ClientTypeOK
    <2>3. Head(inbound[s]) \in Piece /\ Tail(inbound[s]) \in Seq(Piece)
      BY <2>2
    <2>4. listeners' \in [Listeners -> Listener]
      BY <1>0, <1>1, <1>4, <2>1, <2>3 DEF ReceivePiece
    <2>5. inbound' \in [Sockets -> Seq(Piece)]
      BY <1>4, <2>1, <2>3 DEF ReceivePiece, ClientTypeOK
    <2> QED  BY <1>4, <2>4, <2>5 DEF ReceivePiece, ClientTypeOK, clientVars
  <1>5. CASE ReceiveTimesOut(l) \/ ReceiveFails(l)
    <2>1. listeners' \in [Listeners -> Listener]
      BY <1>2, <1>5 DEF ReceiveTimesOut, ReceiveFails
    <2> QED  BY <1>5, <2>1 DEF ReceiveTimesOut, ReceiveFails, ClientTypeOK, netVars,
                clientVars
  <1>6. CASE AppendPiece(l)
    <2>1. listeners[l].piece \in Piece
      BY <1>6 DEF AppendPiece, PartsFit
    <2>2. listeners' \in [Listeners -> Listener]
      BY <1>2, <1>6 DEF AppendPiece
    <2>3. buffer' \in Piece \cup {Nothing, Garbage}
      BY <1>6, <2>1 DEF AppendPiece
    <2>4. answered' \subseteq Requests
      <3>1. Pending \subseteq Requests
        BY DEF Pending, ClientTypeOK, Caller
      <3> QED  BY <1>6, <3>1 DEF AppendPiece, ClientTypeOK
    <2> QED  BY <1>6, <2>2, <2>3, <2>4 DEF AppendPiece, ClientTypeOK, netVars
  <1>7. CASE ListenerCloses(l)
    <2>1. conn' \in [Sockets -> {"none", "open", "broken", "closed"}] /\ socket' = Nothing
      BY <1>7, CloseSocketType DEF ListenerCloses
    <2> QED  BY <1>2, <1>7, <2>1 DEF ListenerCloses, ClientTypeOK
  <1>8. CASE ListenerResets(l)
    <2>1. buffer' = Nothing /\ running' = FALSE /\ causes' \subseteq BlendCauses
      BY <1>8, ResetType DEF ListenerResets
    <2> QED  BY <1>2, <1>8, <2>1 DEF ListenerResets, ClientTypeOK, netVars
  <1> QED  BY <1>3, <1>4, <1>5, <1>6, <1>7, <1>8 DEF Listen

LEMMA NetType ==
    ASSUME ClientTypeOK, NEW s \in Sockets, (\E r \in Requests : Reply(s, r)) \/ Break(s)
    PROVE  ClientTypeOK'
  <1>1. ASSUME NEW r \in Requests, Reply(s, r) PROVE ClientTypeOK'
    <2>1. inbound[s] \o <<<<r, 1>>, <<r, 2>>>> \in Seq(Piece)
      BY PiecesType DEF ClientTypeOK
    <2>2. inbound' \in [Sockets -> Seq(Piece)] /\ received' \in [Sockets -> SUBSET Requests]
      BY <1>1, <2>1 DEF Reply, ClientTypeOK
    <2> QED  BY <1>1, <2>2 DEF Reply, ClientTypeOK, clientVars
  <1>2. CASE Break(s)
    BY <1>2 DEF Break, ClientTypeOK, clientVars
  <1> QED  BY <1>1, <1>2

\* Where a step takes a caller or a listener.
Moves(c, pc) ==
    /\ callers'[c].pc = pc
    /\ \A d \in Callers \ {c} : callers'[d] = callers[d]

Turns(l, pc) ==
    /\ listeners'[l].pc = pc
    /\ \A k \in Listeners \ {l} : listeners'[k] = listeners[k]

LEMMA MovesIs ==
    ASSUME ClientTypeOK, NEW c \in Callers
    PROVE  /\ \A pc : Goto(c, pc) => Moves(c, pc) /\ callers'[c].request = callers[c].request
           /\ Return(c) => Moves(c, "idle")
  <1>1. callers \in [Callers -> Caller] /\ callers[c] \in Caller
    BY DEF ClientTypeOK
  <1>2. ASSUME NEW pc, Goto(c, pc) PROVE Moves(c, pc) /\ callers'[c].request = callers[c].request
    <2>1. callers' = [callers EXCEPT ![c] = [callers[c] EXCEPT !.pc = pc]]
      BY <1>2 DEF Goto
    <2>2. [callers[c] EXCEPT !.pc = pc].pc = pc
      BY <1>1 DEF Caller
    <2>3. [callers[c] EXCEPT !.pc = pc].request = callers[c].request
      BY <1>1 DEF Caller
    <2> QED  BY <1>1, <2>1, <2>2, <2>3 DEF Moves
  <1>3. ASSUME Return(c) PROVE Moves(c, "idle")
    BY <1>1, <1>3 DEF Return, Idle, Moves
  <1> QED  BY <1>2, <1>3

LEMMA TurnsIs ==
    ASSUME ClientTypeOK, NEW l \in Listeners
    PROVE  /\ \A pc, s, p : listeners' = [listeners EXCEPT ![l] = Listening(pc, s, p)] =>
                  Turns(l, pc) /\ listeners'[l].sock = s /\ listeners'[l].piece = p
           /\ \A pc : Continue(l, pc) => Turns(l, pc)
  <1>1. listeners \in [Listeners -> Listener]
    BY DEF ClientTypeOK
  <1>2. ASSUME NEW pc, NEW s, NEW p, listeners' = [listeners EXCEPT ![l] = Listening(pc, s, p)]
        PROVE  Turns(l, pc) /\ listeners'[l].sock = s /\ listeners'[l].piece = p
    BY <1>1, <1>2 DEF Turns, Listening
  <1> QED  BY <1>2 DEF Continue

----
(***************************************************************************)
(* What the steps are.                                                     *)
(***************************************************************************)
CallSteps == {"idle", "lock", "send", "stuck", "waiting"}

\* A step of a request.
Asks ==
    /\ UNCHANGED <<dialled, conn, inbound, clientVars, listeners, causes>>
    /\ \E c \in Callers : \E pc \in CallSteps :
           /\ callers[c].pc \in CallSteps
           /\ Moves(c, pc)
           /\ pc \in {"lock", "send", "waiting"} => callers'[c].request \in Requests

\* The listener gives a receive up.
GivesUp ==
    /\ UNCHANGED <<dialled, netVars, clientVars, callers, causes>>
    /\ \E l \in Listeners : In(l, "recv") /\ (Turns(l, "top") \/ Turns(l, "close"))

StartsListener(c) == StartListener(c) /\ ~running

SwitchStep(c) ==
    \/ Connect(c) \/ Dial(c) \/ DialFails(c) \/ StartListener(c)
    \/ Disconnect(c) \/ DisconnectCloses(c) \/ DisconnectEnds(c)

ListenStep(l) ==
    \/ LoopTop(l) \/ ReceivePiece(l) \/ AppendPiece(l)
    \/ ListenerCloses(l) \/ ListenerResets(l)

NetStep(s) == Break(s) \/ \E r \in Requests : Reply(s, r)

LEMMA LinkStepIs ==
    ASSUME TypeInv, [ClientNext]_connectionVars
    PROVE  \/ UNCHANGED connectionVars
           \/ Asks \/ GivesUp
           \/ \E c \in Callers : SwitchStep(c)
           \/ \E l \in Listeners : ListenStep(l)
           \/ \E s \in Sockets : NetStep(s)
  <1>0. ClientTypeOK /\ PartsFit
    BY DEF TypeInv
  <1>1. ASSUME NEW c \in Callers, Call(c) \/ Proceed(c) PROVE SwitchStep(c) \/ Asks
    <2>1. CASE SendRequest(c)
      <3>1. made' \in Requests
        <4>1. made \in 0 .. MaxRequests /\ made < MaxRequests /\ made' = made + 1
          BY <1>0, <2>1 DEF SendRequest, ClientTypeOK
        <4> QED  BY <4>1, BoundsAre DEF Requests
      <3>2. Moves(c, "lock") /\ callers'[c].request = made'
        BY <1>0, <2>1 DEF SendRequest, Moves, ClientTypeOK
      <3> QED  BY <2>1, <3>1, <3>2 DEF SendRequest, Asks, CallSteps, At, netVars
    <2>2. CASE TakeLock(c) \/ SendSucceeds(c) \/ SendFails(c)
      <3>1. PICK pc \in {"send", "waiting", "stuck"} : Goto(c, pc)
        BY <2>2 DEF TakeLock, SendSucceeds, SendFails
      <3>2. Moves(c, pc) /\ callers'[c].request = callers[c].request
        BY <1>0, <3>1, MovesIs
      <3>3. callers[c].pc \in {"lock", "send"}
        BY <2>2 DEF TakeLock, SendSucceeds, SendFails, At
      <3>4. UNCHANGED <<dialled, conn, inbound, clientVars, listeners, causes>>
        BY <2>2 DEF TakeLock, SendSucceeds, SendFails, netVars
      <3> QED  BY <1>0, <3>1, <3>2, <3>3, <3>4 DEF Asks, CallSteps, PartsFit
    <2>3. CASE SendTimesOut(c) \/ GetAnswer(c) \/ RequestTimesOut(c)
      <3>1. Moves(c, "idle")
        BY <1>0, <2>3, MovesIs DEF SendTimesOut, GetAnswer, RequestTimesOut
      <3> QED  BY <2>3, <3>1 DEF SendTimesOut, GetAnswer, RequestTimesOut, Asks, CallSteps,
                  At, netVars
    <2> QED  BY <1>1, <2>1, <2>2, <2>3 DEF Call, Proceed, SwitchStep
  <1>2. ASSUME NEW l \in Listeners, Listen(l) PROVE ListenStep(l) \/ GivesUp
    <2>1. CASE ReceiveTimesOut(l) \/ ReceiveFails(l)
      <3>1. In(l, "recv") /\ (Continue(l, "top") \/ Continue(l, "close"))
        BY <2>1 DEF ReceiveTimesOut, ReceiveFails
      <3>2. Turns(l, "top") \/ Turns(l, "close")
        BY <1>0, <3>1, TurnsIs
      <3> QED  BY <2>1, <3>1, <3>2 DEF ReceiveTimesOut, ReceiveFails, GivesUp
    <2> QED  BY <1>2, <2>1 DEF Listen, ListenStep
  <1> QED  BY <1>1, <1>2 DEF ClientNext, NetStep

LEMMA LoopTopIs ==
    ASSUME TypeInv, NEW l \in Listeners, LoopTop(l)
    PROVE  /\ UNCHANGED <<dialled, netVars, clientVars, callers, causes>> /\ In(l, "top")
           /\ \/ Turns(l, "recv") /\ listeners'[l].sock = socket /\ socket \in Sockets
              \/ Turns(l, "done") /\ (running => socket = Nothing)
  <1>1. CASE running /\ socket # Nothing
    <2>1. listeners' = [listeners EXCEPT ![l] = Listening("recv", socket, Nothing)]
      BY <1>1 DEF LoopTop
    <2>2. Turns(l, "recv") /\ listeners'[l].sock = socket
      BY <2>1, TurnsIs DEF TypeInv
    <2> QED  BY <1>1, <2>2 DEF TypeInv, ClientTypeOK, LoopTop
  <1>2. CASE ~(running /\ socket # Nothing)
    <2>1. listeners' = [listeners EXCEPT ![l] = Listening("done", Nothing, Nothing)]
      BY <1>2 DEF LoopTop
    <2>2. Turns(l, "done")
      BY <2>1, TurnsIs DEF TypeInv
    <2> QED  BY <1>2, <2>2 DEF LoopTop
  <1> QED  BY <1>1, <1>2

LEMMA ReceiveIs ==
    ASSUME TypeInv, NEW l \in Listeners, ReceivePiece(l)
    PROVE  /\ UNCHANGED <<dialled, conn, clientVars, callers, causes>> /\ In(l, "recv")
           /\ \E s \in Sockets, h \in Piece :
                  /\ s = listeners[l].sock /\ conn[s] # "closed"
                  /\ inbound[s] \in Seq(Piece) /\ inbound[s] # <<>> /\ h = Head(inbound[s])
                  /\ inbound'[s] = Tail(inbound[s])
                  /\ Turns(l, "append") /\ listeners'[l].sock = s /\ listeners'[l].piece = h
  <1>1. PICK s \in Sockets : s = listeners[l].sock
    BY DEF ReceivePiece, TypeInv, PartsFit, Busy, In
  <1>2. inbound[s] \in Seq(Piece) /\ inbound[s] # <<>> /\ conn[s] # "closed"
        /\ inbound'[s] = Tail(inbound[s])
    BY <1>1 DEF ReceivePiece, TypeInv, ClientTypeOK
  <1>3. PICK h \in Piece : h = Head(inbound[s])
    BY <1>2
  <1>4. listeners' = [listeners EXCEPT ![l] = Listening("append", s, h)]
    BY <1>1, <1>3 DEF ReceivePiece
  <1>5. Turns(l, "append") /\ listeners'[l].sock = s /\ listeners'[l].piece = h
    BY <1>4, TurnsIs DEF TypeInv
  <1>6. UNCHANGED <<dialled, conn, clientVars, callers, causes>> /\ In(l, "recv")
    BY DEF ReceivePiece
  <1> QED  BY <1>1, <1>2, <1>3, <1>5, <1>6

LEMMA NextType ==
    ASSUME TypeInv, [ClientNext]_connectionVars
    PROVE  TypeInv'
  <1>0. ClientTypeOK /\ PartsFit /\ Dialled
    BY DEF TypeInv
  <1>1. ClientTypeOK'
    <2>1. CASE UNCHANGED connectionVars
      BY <1>0, <2>1 DEF ClientTypeOK, connectionVars, netVars, clientVars
    <2> QED  BY <1>0, <2>1, CallType, ProceedType, ListenType, NetType DEF ClientNext
  <1>2. PartsFit'
    <2>1. CASE UNCHANGED <<callers, listeners>>
      BY <1>0, <2>1 DEF PartsFit, Busy, In
    <2>2. CASE Asks
      BY <1>0, <2>2 DEF Asks, Moves, PartsFit, Busy, In
    <2>3. CASE GivesUp
      BY <1>0, <2>3 DEF GivesUp, Turns, PartsFit, Busy, In
    <2>4. ASSUME NEW c \in Callers, SwitchStep(c) PROVE PartsFit'
      <3>1. PICK pc \in {"connecting", "starting", "close", "reset", "idle"} : Moves(c, pc)
        BY <1>0, <2>4, MovesIs DEF SwitchStep, Connect, Dial, DialFails, StartListener,
           Disconnect,
           DisconnectCloses, DisconnectEnds
      <3>2. \A l \in Listeners : Busy(l)' => listeners'[l] = listeners[l]
        <4>1. CASE UNCHANGED listeners
          BY <4>1
        <4>2. CASE listeners' = [listeners EXCEPT ![NextListener].pc = "top"]
          BY <1>0, <4>2 DEF ClientTypeOK, Listener, Busy
        <4> QED  BY <2>4, <4>1, <4>2 DEF SwitchStep, Connect, Dial, DialFails,
                    StartListener,
                 Disconnect, DisconnectCloses, DisconnectEnds
      <3> QED  BY <1>0, <3>1, <3>2 DEF Moves, PartsFit, Busy, In
    <2>5. ASSUME NEW l \in Listeners, ListenStep(l) PROVE PartsFit'
      <3>1. \/ \E pc \in {"top", "reset", "done"} : Turns(l, pc)
            \/ Turns(l, "recv") /\ listeners'[l].sock \in Sockets
            \/ Turns(l, "append") /\ listeners'[l].sock \in Sockets /\ listeners'[l].piece \in Piece
        <4>1. CASE LoopTop(l)
          BY <4>1, LoopTopIs
        <4>2. CASE ReceivePiece(l)
          BY <4>2, ReceiveIs
        <4>3. CASE AppendPiece(l) \/ ListenerCloses(l) \/ ListenerResets(l)
          BY <1>0, <4>3, TurnsIs DEF AppendPiece, ListenerCloses, ListenerResets
        <4> QED  BY <2>5, <4>1, <4>2, <4>3 DEF ListenStep
      <3>2. callers' = callers
        BY <2>5 DEF ListenStep, LoopTop, ReceivePiece, AppendPiece, ListenerCloses,
           ListenerResets
      <3> QED  BY <1>0, <3>1, <3>2 DEF Turns, PartsFit, Busy, In
    <2>6. ASSUME NEW s \in Sockets, NetStep(s) PROVE PartsFit'
      BY <2>1, <2>6 DEF NetStep, Reply, Break
    <2> QED  BY <2>1, <2>2, <2>3, <2>4, <2>5, <2>6, LinkStepIs DEF connectionVars
  <1>3. Dialled'
    <2>1. CASE UNCHANGED <<dialled, conn, inbound, socket>>
      BY <1>0, <2>1 DEF Dialled
    <2>2. ASSUME dialled' = dialled, inbound' = inbound, CloseSocket PROVE Dialled'
      BY <1>0, <2>2, CloseSocketType, NoneIs DEF Dialled
    <2>3. ASSUME NEW c \in Callers, SwitchStep(c) PROVE Dialled'
      <3>1. CASE Dial(c)
        <4>1. /\ dialled \in 0 .. MaxSockets /\ dialled < MaxSockets /\ dialled' = dialled + 1
              /\ socket' = dialled' /\ inbound' = inbound
              /\ \A s \in Sockets \ {dialled'} : conn'[s] = conn[s]
          BY <1>0, <3>1 DEF Dial, ClientTypeOK
        <4>2. \A s \in Sockets : s > dialled' => s > dialled /\ s # dialled'
          BY <4>1, NoneIs
        <4> QED  BY <1>0, <4>1, <4>2, BoundsAre DEF Dialled
      <3>2. CASE DialFails(c)
        BY <1>0, <3>2, NoneIs DEF DialFails, Dialled, netVars
      <3> QED
        BY <2>1, <2>2, <2>3, <3>1, <3>2 DEF SwitchStep, Connect, StartListener, Disconnect,
           DisconnectCloses, DisconnectEnds, netVars
    <2>4. ASSUME NEW l \in Listeners, ListenStep(l) PROVE Dialled'
      <3>1. CASE ReceivePiece(l)
        <4>1. \A s \in Sockets : inbound[s] = <<>> => inbound'[s] = <<>>
          BY <1>0, <3>1 DEF ReceivePiece, ClientTypeOK
        <4> QED  BY <1>0, <3>1, <4>1 DEF ReceivePiece, Dialled, clientVars
      <3> QED
        BY <2>1, <2>2, <2>4, <3>1 DEF ListenStep, LoopTop, AppendPiece, ListenerCloses,
           ListenerResets, netVars, clientVars
    <2>5. ASSUME NEW s \in Sockets, NetStep(s) PROVE Dialled'
      <3>1. /\ conn[s] = "open" /\ dialled' = dialled /\ socket' = socket
            /\ \A u \in Sockets \ {s} : conn'[u] = conn[u] /\ inbound'[u] = inbound[u]
        BY <1>0, <2>5 DEF NetStep, Reply, Break, clientVars, ClientTypeOK
      <3> QED  BY <1>0, <3>1 DEF Dialled
    <2>6. CASE Asks \/ GivesUp \/ UNCHANGED connectionVars
      BY <2>1, <2>6 DEF Asks, GivesUp, connectionVars, netVars, clientVars
    <2> QED  BY <2>3, <2>4, <2>5, <2>6, LinkStepIs
  <1> QED  BY <1>1, <1>2, <1>3 DEF TypeInv

----
(***************************************************************************)
(* Callers and listeners that keep out of each other's way.                *)
(***************************************************************************)
LEMMA CausesGrow ==
    ASSUME [ClientNext]_connectionVars
    PROVE  causes \subseteq causes'
  <1>1. ASSUME NEW cause, NEW p, CausedBy(cause, p) PROVE causes \subseteq causes'
    BY <1>1 DEF CausedBy
  <1>2. Reset => causes \subseteq causes'
    BY <1>1 DEF Reset
  <1> QED
    BY <1>1, <1>2 DEF ClientNext, Call, Proceed, Listen, Connect, Dial,
       DialFails, StartListener, Disconnect,
       DisconnectCloses, DisconnectEnds, SendRequest, TakeLock, SendSucceeds,
       SendTimesOut, SendFails,
       GetAnswer, RequestTimesOut, LoopTop, ReceivePiece, ReceiveTimesOut,
       ReceiveFails, AppendPiece,
       ListenerCloses, ListenerResets, Reply, Break, connectionVars

\* A connection is made by a client that does nothing else.
LEMMA ApartIs ==
    ASSUME Apart'
    PROVE  /\ \A p : CausedBy("two calls", p) => ~p
           /\ \A p : CausedBy("old listener", p) => ~p
  BY DEF Apart, CausedBy

LEMMA NextListenerIs ==
    ASSUME NEW n \in Listeners, In(n, "none")
    PROVE  /\ NextListener \in Listeners /\ In(NextListener, "none") /\ NextListener <= n
  <1> DEFINE free == {l \in Listeners : In(l, "none")}
  <1>1. free \subseteq Nat /\ free # {}
    BY NoneIs
  <1>2. \E m \in free : \A u \in free : ~(<<u, m>> \in OpToRel(<, Nat))
    <2> HIDE DEF free
    <2> QED  BY <1>1, NatLessThanWellFounded, WFMin
  <1>3. PICK m \in free : \A u \in free : ~(u < m)
    <2> HIDE DEF free
    <2> QED  BY <1>1, <1>2 DEF OpToRel
  <1>4. \A k \in Listeners : In(k, "none") => m <= k
    BY <1>1, <1>3
  <1>5. \E l \in Listeners : In(l, "none") /\ \A k \in Listeners : In(k, "none") => l <= k
    BY <1>3, <1>4
  <1>6. /\ NextListener \in Listeners /\ In(NextListener, "none")
        /\ \A k \in Listeners : In(k, "none") => NextListener <= k
    BY <1>5 DEF NextListener
  <1> QED  BY <1>6

HeardParts == CallersApart /\ ListenersApart /\ StateAgrees

LEMMA SwitchHeard ==
    ASSUME TypeInv, HeardParts, Apart', NEW c \in Callers, SwitchStep(c)
    PROVE  HeardParts'
  <1>0. ClientTypeOK /\ CallersApart /\ ListenersApart /\ StateAgrees /\ Dialled
    BY DEF TypeInv, HeardParts
  <1>00. "two calls" \in BlendCauses
    BY DEF BlendCauses
  <1>1. CASE Connect(c)
    <2>1. Moves(c, "connecting") /\ state # "CONNECTED" /\ state' = "CONNECTING"
          /\ UNCHANGED <<dialled, socket, running, listeners>>
      BY <1>0, <1>1, MovesIs DEF Connect
    <2>2. \A d \in Callers : ~Switching(d)
      BY <1>1, ApartIs DEF Connect, SwitchUnderWay, Switching
    <2>3. socket = Nothing
      BY <1>0, <2>1, <2>2 DEF StateAgrees, Switching, At
    <2>4. CallersApart'
      BY <1>0, <2>1, <2>2 DEF CallersApart, Moves, Switching, At
    <2>5. ListenersApart'
      BY <1>0, <2>1 DEF ListenersApart, Listens, In
    <2> QED  BY <2>1, <2>3, <2>4, <2>5 DEF HeardParts, StateAgrees
  <1>2. CASE Dial(c)
    <2>1. Moves(c, "starting") /\ At(c, "connecting") /\ dialled' = dialled + 1 /\ socket' = dialled'
          /\ UNCHANGED <<state, running, listeners>>
      BY <1>0, <1>2, MovesIs DEF Dial
    <2>2. \A l \in Listeners : ~Listens(l)
      BY <1>2, ApartIs DEF Dial
    <2>3. ~running /\ state = "CONNECTING"
      BY <1>0, <2>1, <2>2 DEF ListenersApart, CallersApart, At
    <2>4. dialled \in Nat /\ dialled' > dialled /\ dialled' >= 1 /\ socket' # Nothing /\ dialled' \in Nat
      <3>1. dialled \in Nat
        BY <1>0 DEF ClientTypeOK
      <3> QED  BY <2>1, <3>1, NoneIs
    <2>5. \A l \in Listeners : ~In(l, "none") => l < dialled' /\ l <= dialled'
      BY <1>0, <2>1, <2>4, NoneIs DEF ListenersApart
    <2>6. \A d \in Callers \ {c} : ~Switching(d) /\ callers'[d] = callers[d]
      BY <1>0, <2>1 DEF CallersApart, Switching, Moves, At
    <2>7. CallersApart'
      BY <2>1, <2>2, <2>3, <2>4, <2>5, <2>6 DEF CallersApart, Moves, Switching, At, Listens, In
    <2>8. ListenersApart'
      BY <2>1, <2>2, <2>3, <2>5 DEF ListenersApart, Listens, In
    <2> QED  BY <2>1, <2>3, <2>7, <2>8 DEF HeardParts, StateAgrees, Moves, At
  <1>3. CASE DialFails(c)
    <2>1. Moves(c, "idle") /\ At(c, "connecting") /\ socket' = Nothing /\ running' = FALSE
          /\ state' = "ERROR" /\ UNCHANGED <<dialled, listeners>>
      BY <1>0, <1>3, MovesIs DEF DialFails, Reset
    <2>2. \A d \in Callers : ~Switching(d)'
      BY <1>0, <2>1 DEF CallersApart, Switching, Moves, At
    <2>3. CallersApart' /\ ListenersApart'
      BY <1>0, <2>1, <2>2 DEF CallersApart, ListenersApart, Switching, At, Listens, In
    <2> QED  BY <2>1, <2>3 DEF HeardParts, StateAgrees
  <1>4. CASE StartListener(c)
    <2>1. Moves(c, "idle") /\ At(c, "starting") /\ state' = "CONNECTED"
          /\ UNCHANGED <<dialled, socket>>
      BY <1>0, <1>4, MovesIs DEF StartListener
    <2>2. ~running /\ socket # Nothing /\ dialled >= 1 /\ (\A l \in Listeners : ~Listens(l))
          /\ \A l \in Listeners : ~In(l, "none") => l < dialled
      BY <1>0, <2>1 DEF CallersApart
    <2>3. dialled \in Listeners /\ dialled \in Nat
      BY <1>0, <2>2, BoundsAre DEF ClientTypeOK, Listeners
    <2>4. In(dialled, "none")
      BY <2>2, <2>3
    <2>5. NextListener \in Listeners /\ NextListener <= dialled
      BY <2>3, <2>4, NextListenerIs
    <2>6. PICK n \in Listeners : n = NextListener
      BY <2>5
    <2>7. Turns(n, "top") /\ running' = TRUE
      <3>1. listeners' = [listeners EXCEPT ![n].pc = "top"] /\ running' = TRUE
        BY <1>4, <2>2, <2>6 DEF StartListener
      <3>2. listeners \in [Listeners -> Listener] /\ listeners[n] \in Listener
        BY <1>0 DEF ClientTypeOK
      <3>3. [listeners[n] EXCEPT !.pc = "top"].pc = "top"
        BY <3>2 DEF Listener
      <3> QED  BY <3>1, <3>2, <3>3 DEF Turns
    <2>8. \A d \in Callers : ~Switching(d)'
      BY <1>0, <2>1 DEF CallersApart, Switching, Moves, At
    <2>9. CallersApart'
      BY <2>8 DEF CallersApart, Switching, At
    <2>10. \A l \in Listeners \ {n} :
               ~Listens(l)' /\ ~In(l, "reset")' /\ In(l, "none")' = In(l, "none")
      BY <2>2, <2>7 DEF Turns, Listens, In
    <2>11. Listens(n)' /\ ~In(n, "reset")'
      BY <2>7 DEF Turns, Listens, In
    <2>12. \A l \in Listeners : ~In(l, "none") => l <= dialled
      BY <2>2, <2>3, NoneIs
    <2>13. ListenersApart'
      BY <2>1, <2>2, <2>5, <2>6, <2>10, <2>11, <2>12 DEF ListenersApart
    <2> QED  BY <2>1, <2>7, <2>9, <2>13 DEF HeardParts, StateAgrees
  <1>5. CASE Disconnect(c)
    <2>1. Moves(c, "close") /\ running' = FALSE /\ UNCHANGED <<dialled, socket, state, listeners>>
      BY <1>0, <1>5, MovesIs DEF Disconnect
    <2>2. \A d \in Callers : ~Switching(d)
      BY <1>5, ApartIs DEF Disconnect, SwitchUnderWay, Switching
    <2>3. CallersApart'
      BY <2>1, <2>2 DEF CallersApart, Switching, Moves, At
    <2>4. ListenersApart'
      BY <1>0, <2>1 DEF ListenersApart, Listens, In
    <2>5. state # "CONNECTED" => socket = Nothing
      BY <1>0, <2>2 DEF StateAgrees, Switching, At
    <2> QED  BY <2>1, <2>3, <2>4, <2>5 DEF HeardParts, StateAgrees, Moves, At
  <1>6. CASE DisconnectCloses(c)
    <2>1. Moves(c, "reset") /\ At(c, "close") /\ socket' = Nothing
          /\ UNCHANGED <<dialled, state, running, listeners>>
      BY <1>0, <1>6, MovesIs, CloseSocketType DEF DisconnectCloses
    <2>2. ~running /\ \A d \in Callers \ {c} : ~Switching(d) /\ callers'[d] = callers[d]
      BY <1>0, <2>1 DEF CallersApart, Switching, Moves, At
    <2>3. CallersApart'
      BY <2>1, <2>2 DEF CallersApart, Switching, Moves, At
    <2>4. ListenersApart'
      BY <1>0, <2>1, <2>2 DEF ListenersApart, Listens, In
    <2> QED  BY <2>1, <2>3, <2>4 DEF HeardParts, StateAgrees
  <1>7. CASE DisconnectEnds(c)
    <2>1. Moves(c, "idle") /\ At(c, "reset") /\ running' = FALSE /\ state' = "DISCONNECTED"
          /\ UNCHANGED <<dialled, socket, listeners>>
      BY <1>0, <1>7, MovesIs DEF DisconnectEnds, Reset
    <2>2. socket = Nothing /\ \A d \in Callers : ~Switching(d)'
      BY <1>0, <2>1 DEF CallersApart, Switching, Moves, At
    <2>3. CallersApart' /\ ListenersApart'
      BY <1>0, <2>1, <2>2 DEF CallersApart, ListenersApart, Switching, At, Listens, In
    <2> QED  BY <2>1, <2>2, <2>3 DEF HeardParts, StateAgrees
  <1> QED  BY <1>1, <1>2, <1>3, <1>4, <1>5, <1>6, <1>7 DEF SwitchStep

LEMMA ListenHeard ==
    ASSUME TypeInv, HeardParts, NEW l \in Listeners, ListenStep(l)
    PROVE  HeardParts'
  <1>0. ClientTypeOK /\ CallersApart /\ ListenersApart /\ StateAgrees
    BY DEF TypeInv, HeardParts
  <1>1. Listens(l) /\ callers' = callers /\ state' = state /\ dialled' = dialled
    BY DEF ListenStep, LoopTop, ReceivePiece, AppendPiece, ListenerCloses,
       ListenerResets, Listens, In,
       clientVars
  <1>2. /\ \A k \in Listeners \ {l} : ~Listens(k)
        /\ \A c \in Callers : ~At(c, "starting")
    BY <1>0, <1>1 DEF ListenersApart, CallersApart
  <1>3. ASSUME NEW pc \in {"top", "recv", "append", "close", "reset", "done"}, Turns(l, pc)
        PROVE  /\ \A k \in Listeners \ {l} :
                      ~Listens(k)' /\ ~In(k, "reset")' /\ In(k, "none")' = In(k, "none")
               /\ ~In(l, "none") /\ In(l, pc)' /\ ~In(l, "none")'
               /\ pc # "done" => Listens(l)'
    BY <1>1, <1>2, <1>3 DEF Turns, Listens, In
  <1>4. ASSUME UNCHANGED <<socket, running>>, NEW pc \in {"top", "recv", "append"}, Turns(l, pc),
               ~In(l, "reset")
        PROVE  HeardParts'
    <2>1. CallersApart' /\ StateAgrees'
      BY <1>0, <1>1, <1>2, <1>4 DEF CallersApart, StateAgrees, Switching, At
    <2>2. running => socket # Nothing
      BY <1>0, <1>2, <1>4 DEF ListenersApart, Listens, In
    <2>3. ~In(l, "reset")'
      BY <1>3, <1>4 DEF In
    <2>4. ListenersApart'
      BY <1>0, <1>1, <1>3, <1>4, <2>2, <2>3 DEF ListenersApart
    <2> QED  BY <2>1, <2>4 DEF HeardParts
  <1>5. CASE LoopTop(l)
    <2>1. UNCHANGED <<socket, running>> /\ ~In(l, "reset") /\ In(l, "top")
      BY <1>5, LoopTopIs DEF clientVars, In
    <2>2. CASE Turns(l, "recv")
      BY <1>4, <2>1, <2>2
    <2>3. CASE Turns(l, "done") /\ (running => socket = Nothing)
      <3>1. ~running
        BY <1>0, <1>2, <2>1, <2>3 DEF ListenersApart, Listens, In
      <3>2. CallersApart' /\ StateAgrees'
        BY <1>0, <1>1, <1>2, <2>1 DEF CallersApart, StateAgrees, Switching, At
      <3>3. ~Listens(l)' /\ ~In(l, "reset")'
        BY <2>3 DEF Turns, Listens, In
      <3>4. ListenersApart'
        BY <1>0, <1>1, <1>3, <2>1, <2>3, <3>1, <3>3 DEF ListenersApart
      <3> QED  BY <3>2, <3>4 DEF HeardParts
    <2> QED  BY <1>5, <2>2, <2>3, LoopTopIs
  <1>6. CASE ReceivePiece(l)
    BY <1>4, <1>6, ReceiveIs DEF clientVars, In
  <1>7. CASE AppendPiece(l)
    <2>1. Turns(l, "top") /\ UNCHANGED <<socket, running>> /\ ~In(l, "reset")
      BY <1>0, <1>7, TurnsIs DEF AppendPiece, In
    <2> QED  BY <1>4, <2>1
  <1>8. CASE ListenerCloses(l)
    <2>1. Turns(l, "reset") /\ socket' = Nothing /\ running' = running
      BY <1>0, <1>8, TurnsIs, CloseSocketType DEF ListenerCloses
    <2>2. CallersApart' /\ StateAgrees'
      BY <1>0, <1>1, <1>2, <2>1 DEF CallersApart, StateAgrees, Switching, At
    <2>3. ListenersApart'
      BY <1>0, <1>1, <1>3, <2>1 DEF ListenersApart
    <2> QED  BY <2>2, <2>3 DEF HeardParts
  <1>9. CASE ListenerResets(l)
    <2>1. Turns(l, "done") /\ socket' = socket /\ running' = FALSE /\ In(l, "reset")
      BY <1>0, <1>9, TurnsIs DEF ListenerResets, Reset
    <2>2. socket = Nothing
      BY <1>0, <2>1 DEF ListenersApart
    <2>3. CallersApart' /\ StateAgrees'
      BY <1>0, <1>1, <1>2, <2>1, <2>2 DEF CallersApart, StateAgrees, Switching, At
    <2>4. ~Listens(l)' /\ ~In(l, "reset")'
      BY <2>1 DEF Turns, Listens, In
    <2>5. ListenersApart'
      BY <1>0, <1>1, <1>3, <2>1, <2>4 DEF ListenersApart
    <2> QED  BY <2>3, <2>5 DEF HeardParts
  <1> QED  BY <1>5, <1>6, <1>7, <1>8, <1>9 DEF ListenStep

LEMMA NextHeard ==
    ASSUME TypeInv, HeardInv, [ClientNext]_connectionVars
    PROVE  HeardInv'
  <1> SUFFICES ASSUME Apart' PROVE HeardParts'
    BY DEF HeardInv, HeardParts
  <1>0. Apart
    BY CausesGrow DEF Apart
  <1>1. HeardParts /\ CallersApart /\ ListenersApart /\ StateAgrees
    BY <1>0 DEF HeardInv, HeardParts
  <1>2. CASE UNCHANGED connectionVars \/ \E s \in Sockets : NetStep(s)
    <2>1. UNCHANGED <<dialled, clientVars, callers, listeners>>
      BY <1>2 DEF NetStep, Reply, Break, connectionVars
    <2> QED
      BY <1>1, <2>1 DEF HeardParts, CallersApart, ListenersApart, StateAgrees, Switching, At, In,
         Listens,
         clientVars
  <1>3. CASE Asks
    <2>1. PICK c \in Callers, pc \in CallSteps : callers[c].pc \in CallSteps /\ Moves(c, pc)
      BY <1>3 DEF Asks
    <2>2. /\ \A d \in Callers : Switching(d)' = Switching(d)
          /\ \A d \in Callers : Switching(d) => callers'[d] = callers[d]
      BY <2>1 DEF Moves, CallSteps, Switching
    <2>3. UNCHANGED <<dialled, socket, state, running, listeners>>
      BY <1>3 DEF Asks, clientVars
    <2>4. CallersApart'
      BY <1>1, <2>2, <2>3 DEF CallersApart, Switching, At, In, Listens
    <2>5. ListenersApart'
      BY <1>1, <2>3 DEF ListenersApart, In, Listens
    <2>6. StateAgrees'
      BY <1>1, <2>2, <2>3 DEF StateAgrees, Switching, At
    <2> QED  BY <2>4, <2>5, <2>6 DEF HeardParts
  <1>4. CASE GivesUp
    <2>1. PICK l \in Listeners : In(l, "recv") /\ (Turns(l, "top") \/ Turns(l, "close"))
      BY <1>4 DEF GivesUp
    <2>2. \A k \in Listeners : /\ Listens(k)' = Listens(k) /\ In(k, "reset")' = In(k, "reset")
                               /\ In(k, "none")' = In(k, "none")
      BY <2>1 DEF Turns, Listens, In
    <2>3. UNCHANGED <<dialled, socket, state, running, callers>>
      BY <1>4 DEF GivesUp, clientVars
    <2> QED
      BY <1>1, <2>2, <2>3 DEF HeardParts, CallersApart, ListenersApart, StateAgrees, Switching, At
  <1> QED  BY <1>1, <1>2, <1>3, <1>4, SwitchHeard, ListenHeard, LinkStepIs

LEMMA InitHeard == ClientInit => HeardInv
  BY DEF ClientInit, Idle, Listening, HeardInv, CallersApart, ListenersApart, StateAgrees,
     Switching, At, In, Listens

\* The variables keep their types, whatever the connection goes through.
THEOREM ClientTypeCorrect == ClientSpec => []ClientTypeOK
  <1>1. ClientInit => TypeInv
    BY InitType
  <1>2. TypeInv /\ [ClientNext]_connectionVars => TypeInv'
    BY NextType
  <1>3. TypeInv => ClientTypeOK
    BY DEF TypeInv
  <1> QED  BY <1>1, <1>2, <1>3, PTL DEF ClientSpec

LEMMA HeardIs == TypeInv /\ HeardInv => ConnectedIsHeard
  <1> SUFFICES ASSUME TypeInv, HeardInv, state = "CONNECTED", socket # Nothing,
                      \A c \in Callers : callers[c].pc \in {"idle", "waiting"}, Apart
               PROVE  \E l \in Listeners : Listens(l)
    BY DEF ConnectedIsHeard, Apart
  <1>1. ListenersApart /\ StateAgrees
    BY DEF HeardInv
  <1>2. running
    BY <1>1 DEF StateAgrees, At, TypeInv, ClientTypeOK
  <1> QED  BY <1>1, <1>2 DEF ListenersApart

\* A client that has a socket and takes itself to be connected has a
\* listener, unless one of an earlier connection was alive or another thread
\* was at it as well when the client connected (connect, _cleanup_socket).
THEOREM ConnectedAlwaysHeard == ClientSpec => []ConnectedIsHeard
  <1>1. ClientInit => TypeInv /\ HeardInv
    BY InitType, InitHeard
  <1>2. TypeInv /\ HeardInv /\ [ClientNext]_connectionVars => TypeInv' /\ HeardInv'
    BY NextType, NextHeard
  <1>3. TypeInv /\ HeardInv => ConnectedIsHeard
    BY HeardIs
  <1> QED  BY <1>1, <1>2, <1>3, PTL DEF ClientSpec

----
(***************************************************************************)
(* The bytes of an answer.                                                 *)
(***************************************************************************)
LEMMA FitsTail ==
    ASSUME NEW p, NEW q \in Seq(Piece), q # <<>>, Fits(p, q)
    PROVE  Follows(p, Head(q)) /\ Fits(Head(q), Tail(q))
  <1> DEFINE t == Tail(q)
  <1>1. Head(q) = q[1] /\ Len(q) \in Nat /\ Len(q) >= 1
    OBVIOUS
  <1>2. t \in Seq(Piece) /\ Len(t) = Len(q) - 1
        /\ \A i \in 1 .. Len(q) - 1 : t[i] = q[i + 1]
    OBVIOUS
  <1>9. Follows(p, Head(q)) /\ Fits(Head(q), t) => Follows(p, Head(q)) /\ Fits(Head(q), Tail(q))
    OBVIOUS
  <1> HIDE DEF t
  <1>6. t = <<>> <=> Len(t) = 0
    BY <1>2
  <1>3. Follows(p, q[1]) /\ Closed(q[Len(q)])
        /\ \A i \in 1 .. Len(q) : i + 1 \in 1 .. Len(q) => Follows(q[i], q[i + 1])
    BY DEF Fits
  <1>4. CASE t = <<>>
    <2>1. Len(q) = 1
      BY <1>1, <1>2, <1>4, <1>6
    <2> QED  BY <1>1, <1>3, <1>4, <1>9, <2>1 DEF Fits
  <1>5. CASE t # <<>>
    <2>1. Len(q) > 1
      BY <1>1, <1>2, <1>5, <1>6
    <2>2. t[1] = q[2] /\ t[Len(t)] = q[Len(q)]
      BY <1>1, <1>2, <2>1
    <2>3. Follows(Head(q), t[1])
      BY <1>1, <1>3, <2>1, <2>2
    <2>4. ASSUME NEW i \in 1 .. Len(t), i + 1 \in 1 .. Len(t)
          PROVE  Follows(t[i], t[i + 1])
      <3>1. t[i] = q[i + 1] /\ t[i + 1] = q[(i + 1) + 1]
        BY <1>1, <1>2, <2>4
      <3>2. i + 1 \in 1 .. Len(q) /\ (i + 1) + 1 \in 1 .. Len(q)
        BY <1>1, <1>2, <2>4
      <3> QED  BY <1>3, <3>1, <3>2
    <2> QED  BY <1>1, <1>3, <1>5, <2>2, <2>3, <2>4, <1>9 DEF Fits
  <1> QED  BY <1>4, <1>5, <1>9

LEMMA FitsReply ==
    ASSUME NEW p, NEW q \in Seq(Piece), NEW r \in Requests, Fits(p, q)
    PROVE  Fits(p, q \o <<<<r, 1>>, <<r, 2>>>>)
  <1> DEFINE m == q \o <<<<r, 1>>, <<r, 2>>>>
  <1>0. <<r, 1>> \in Piece /\ <<r, 2>> \in Piece
    BY DEF Piece
  <1>1. /\ m \in Seq(Piece) /\ Len(m) = Len(q) + 2 /\ Len(q) \in Nat
        /\ \A i \in 1 .. Len(q) : m[i] = q[i]
        /\ m[Len(q) + 1] = <<r, 1>> /\ m[Len(q) + 2] = <<r, 2>>
    BY <1>0
  <1> HIDE DEF m
  <1>2. Closed(m[Len(m)]) /\ Follows(<<r, 1>>, <<r, 2>>)
    <2>1. ~Closed(<<r, 1>>) /\ Closed(<<r, 2>>)
      <3>1. <<r, 1>> # Nothing /\ <<r, 1>>[2] = 1 /\ <<r, 2>>[2] = 2
        BY <1>0, NoneIs
      <3> QED  BY <3>1 DEF Closed
    <2>2. Follows(<<r, 1>>, <<r, 2>>)
      <3>1. <<<<r, 1>>[1], 2>> = <<r, 2>>
        OBVIOUS
      <3> QED  BY <2>1, <3>1 DEF Follows
    <2>3. m[Len(m)] = <<r, 2>>
      BY <1>1
    <2> QED  BY <2>1, <2>2, <2>3
  <1>3. \A u : Closed(u) => Follows(u, <<r, 1>>)
    BY DEF Follows
  <1>4. m # <<>>
    BY <1>1
  <1>5. CASE q = <<>>
    <2>1. Len(q) = 0 /\ Closed(p)
      BY <1>5 DEF Fits
    <2>2. m[1] = <<r, 1>> /\ m[2] = <<r, 2>> /\ Len(m) = 2
      BY <1>1, <2>1
    <2>3. Follows(p, m[1])
      BY <1>3, <2>1, <2>2
    <2>4. \A i \in 1 .. Len(m) : i + 1 \in 1 .. Len(m) => i = 1
      BY <2>2
    <2>5. \A i \in 1 .. Len(m) : i + 1 \in 1 .. Len(m) => Follows(m[i], m[i + 1])
      BY <1>2, <2>2, <2>4
    <2> QED  BY <1>2, <1>4, <2>3, <2>5 DEF Fits, m
  <1>6. CASE q # <<>>
    <2>1. Len(q) >= 1 /\ Follows(p, q[1]) /\ Closed(q[Len(q)])
          /\ \A i \in 1 .. Len(q) : i + 1 \in 1 .. Len(q) => Follows(q[i], q[i + 1])
      BY <1>1, <1>6 DEF Fits
    <2>2. Follows(p, m[1])
      BY <1>1, <2>1
    <2>3. ASSUME NEW i \in 1 .. Len(m), i + 1 \in 1 .. Len(m)
          PROVE  Follows(m[i], m[i + 1])
      <3>1. CASE i < Len(q)
        BY <1>1, <2>1, <3>1
      <3>2. CASE i = Len(q)
        BY <1>1, <1>3, <2>1, <3>2, SMTT(40)
      <3>3. CASE i = Len(q) + 1
        <4>1. i + 1 = Len(q) + 2
          BY <1>1, <3>3
        <4> QED  BY <1>1, <1>2, <3>3, <4>1
      <3>4. i < Len(q) \/ i = Len(q) \/ i = Len(q) + 1
        BY <1>1, <2>3
      <3> QED  BY <3>1, <3>2, <3>3, <3>4
    <2> QED  BY <1>2, <1>4, <2>2, <2>3 DEF Fits, m
  <1> QED  BY <1>5, <1>6

\* What follows a complete frame, or none, begins a new one.
LEMMA FitsClosed ==
    ASSUME NEW p, NEW q, Closed(p), Fits(p, q)
    PROVE  Fits(Nothing, q)
  BY DEF Fits, Follows, Closed

Appending == \E l \in Listeners : In(l, "append")
Leaving   == \E c \in Callers : callers[c].pc \in {"close", "reset"}

\* A buffer is cleared when no listener has bytes in hand.
LEMMA ResetIs ==
    ASSUME causes' = {}, Reset
    PROVE  buffer' = Nothing /\ running' = FALSE /\ ~Appending
  BY DEF Reset, CausedBy, Appending

\* Closing a socket leaves no listener on an open one.
LEMMA CloseReads ==
    ASSUME TypeInv, Reading, CloseSocket,
           \A l \in Listeners : Busy(l)' => Busy(l) /\ listeners'[l].sock = listeners[l].sock
    PROVE  Reading'
  <1>1. ClientTypeOK /\ PartsFit
    BY DEF TypeInv
  <1>2. /\ socket' = Nothing
        /\ \A s \in Sockets : conn'[s] = IF s = socket THEN "closed" ELSE conn[s]
    BY <1>1, CloseSocketType
  <1>3. ASSUME NEW l \in Listeners, Busy(l)' PROVE conn'[listeners'[l].sock] = "closed"
    <2>1. Busy(l) /\ listeners'[l].sock = listeners[l].sock /\ listeners[l].sock \in Sockets
      BY <1>1, <1>3 DEF PartsFit
    <2>2. listeners[l].sock = socket \/ conn[listeners[l].sock] = "closed"
      BY <2>1 DEF Reading
    <2> QED  BY <1>2, <2>1, <2>2
  <1> QED  BY <1>2, <1>3 DEF Reading

\* A client that is idle but for requests reads whole frames.
LEMMA SwitchFrame ==
    ASSUME TypeInv, HeardParts, Reading, BufferInv, causes' = {}, NEW c \in Callers,
           SwitchStep(c)
    PROVE  Reading' /\ BufferInv'
  <1>0. ClientTypeOK /\ PartsFit /\ Dialled /\ CallersApart /\ ListenersApart /\ StateAgrees
    BY DEF TypeInv, HeardParts
  <1>00. Apart'
    BY DEF Apart
  <1>1. CASE Connect(c)
    <2>1. Moves(c, "connecting") /\ UNCHANGED <<socket, running, buffer, listeners, conn, inbound>>
      BY <1>0, <1>1, MovesIs DEF Connect, netVars
    <2>2. \A d \in Callers : ~Switching(d)
      BY <1>00, <1>1, ApartIs DEF Connect, SwitchUnderWay, Switching
    <2>3. Reading'
      BY <2>1 DEF Reading, Busy
    <2>4. BufferInv'
      BY <2>1, <2>2 DEF BufferInv, Switching, In
    <2> QED  BY <2>3, <2>4
  <1>2. CASE Dial(c)
    <2>1. Moves(c, "starting") /\ At(c, "connecting") /\ dialled' = dialled + 1 /\ socket' = dialled'
          /\ UNCHANGED <<running, buffer, listeners, inbound>>
      BY <1>0, <1>2, MovesIs DEF Dial
    <2>2. \A l \in Listeners : ~Listens(l)
      BY <1>00, <1>2, ApartIs DEF Dial
    <2>3. \A l \in Listeners : ~Busy(l) /\ ~In(l, "append")
      BY <2>2 DEF Busy, Listens, In
    <2>4. ~running
      BY <1>0, <2>2 DEF ListenersApart
    <2>5. \A d \in Callers : callers[d].pc \notin {"close", "reset"}
      BY <1>0, <2>1 DEF CallersApart, Switching, At
    <2>6. buffer = Nothing
      BY <2>4, <2>5 DEF BufferInv
    <2>7. socket' \in Sockets /\ socket' > dialled
      <3>1. dialled \in 0 .. MaxSockets /\ dialled < MaxSockets /\ socket' = dialled + 1
        BY <1>0, <1>2, <2>1 DEF Dial, ClientTypeOK
      <3> QED  BY <3>1, BoundsAre DEF Sockets
    <2>8. inbound'[socket'] = <<>>
      BY <1>0, <2>1, <2>7 DEF Dialled
    <2>9. Reading' /\ \A l \in Listeners : ~In(l, "append")'
      BY <2>1, <2>3 DEF Reading, Busy, In
    <2>10. Fits(buffer', inbound'[socket'])
      BY <2>1, <2>6, <2>8 DEF Fits, Closed
    <2> QED  BY <2>1, <2>6, <2>9, <2>10 DEF BufferInv
  <1>3. CASE DialFails(c)
    <2>1. At(c, "connecting") /\ socket' = Nothing /\ UNCHANGED <<listeners, conn>>
      BY <1>3 DEF DialFails, netVars
    <2>2. buffer' = Nothing /\ ~Appending
      BY <1>3, ResetIs DEF DialFails
    <2>3. state = "CONNECTING" /\ ~(\E d \in Callers : At(d, "starting"))
      BY <1>0, <2>1 DEF CallersApart, Switching, At
    <2>4. socket = Nothing
      BY <1>0, <2>3 DEF StateAgrees
    <2> QED  BY <2>1, <2>2, <2>4 DEF Reading, BufferInv, Busy, Appending, In
  <1>4. CASE StartListener(c)
    <2>1. At(c, "starting") /\ UNCHANGED <<socket, buffer, conn, inbound>>
      BY <1>4 DEF StartListener, netVars
    <2>2. ~running /\ \A l \in Listeners : ~Listens(l)
      BY <1>0, <2>1 DEF CallersApart
    <2>3. running' = TRUE /\ listeners' = [listeners EXCEPT ![NextListener].pc = "top"]
      BY <1>4, <2>2 DEF StartListener
    <2>4. \A l \in Listeners : ~Busy(l) /\ ~In(l, "append") /\ ~Busy(l)' /\ ~In(l, "append")'
      BY <1>0, <2>2, <2>3 DEF ClientTypeOK, Listener, Busy, In, Listens
    <2> QED  BY <2>1, <2>3, <2>4 DEF Reading, BufferInv
  <1>5. CASE Disconnect(c)
    <2>1. Moves(c, "close") /\ UNCHANGED <<socket, buffer, listeners, conn, inbound>>
      BY <1>0, <1>5, MovesIs DEF Disconnect, netVars
    <2>2. Leaving'
      BY <2>1 DEF Moves, Leaving
    <2> QED  BY <2>1, <2>2 DEF Reading, BufferInv, Busy, In, Leaving
  <1>6. CASE DisconnectCloses(c)
    <2>1. Moves(c, "reset") /\ UNCHANGED <<buffer, listeners>> /\ socket' = Nothing
      BY <1>0, <1>6, MovesIs, CloseSocketType DEF DisconnectCloses
    <2>2. Leaving'
      BY <2>1 DEF Moves, Leaving
    <2>3. Reading'
      BY <1>6, <2>1, CloseReads DEF DisconnectCloses, Busy
    <2>4. BufferInv'
      BY <2>1, <2>2 DEF BufferInv, In, Leaving
    <2> QED  BY <2>3, <2>4
  <1>7. CASE DisconnectEnds(c)
    <2>1. At(c, "reset") /\ UNCHANGED <<listeners, conn, socket>>
      BY <1>7 DEF DisconnectEnds, netVars
    <2>2. buffer' = Nothing /\ ~Appending
      BY <1>7, ResetIs DEF DisconnectEnds
    <2>3. socket = Nothing
      BY <1>0, <2>1 DEF CallersApart
    <2> QED  BY <2>1, <2>2, <2>3 DEF Reading, BufferInv, Busy, Appending, In
  <1> QED  BY <1>1, <1>2, <1>3, <1>4, <1>5, <1>6, <1>7 DEF SwitchStep

\* The listener there is takes a step.
LEMMA ListenFrame ==
    ASSUME TypeInv, HeardParts, Reading, BufferInv, causes' = {}, NEW l \in Listeners,
           ListenStep(l)
    PROVE  Reading' /\ BufferInv'
  <1>0. ClientTypeOK /\ PartsFit /\ CallersApart /\ ListenersApart /\ StateAgrees
    BY DEF TypeInv, HeardParts
  <1>1. Listens(l) /\ callers' = callers
    BY DEF ListenStep, LoopTop, ReceivePiece, AppendPiece, ListenerCloses,
       ListenerResets, Listens, In
  <1>2. /\ \A k \in Listeners \ {l} : ~Listens(k) /\ ~Busy(k) /\ ~In(k, "append")
        /\ \A c \in Callers : ~At(c, "starting")
    BY <1>0, <1>1 DEF ListenersApart, CallersApart, Listens, Busy, In
  <1>3. ASSUME NEW pc \in {"top", "recv", "append", "reset", "done"}, Turns(l, pc)
        PROVE  /\ \A k \in Listeners \ {l} : ~Busy(k)' /\ ~In(k, "append")'
               /\ Busy(l)' <=> pc \in {"recv", "append"}
               /\ In(l, "append")' <=> pc = "append"
    BY <1>2, <1>3 DEF Turns, Busy, In
  <1>4. CASE LoopTop(l)
    <2>1. UNCHANGED <<conn, inbound, socket, running, buffer>> /\ In(l, "top")
      BY <1>4, LoopTopIs DEF netVars, clientVars
    <2>2. \A k \in Listeners : ~In(k, "append")
      BY <1>2, <2>1 DEF In
    <2>3. CASE Turns(l, "recv") /\ listeners'[l].sock = socket
      BY <1>1, <1>3, <2>1, <2>2, <2>3 DEF Reading, BufferInv
    <2>4. CASE Turns(l, "done")
      BY <1>1, <1>3, <2>1, <2>2, <2>4 DEF Reading, BufferInv
    <2> QED  BY <1>4, <2>3, <2>4, LoopTopIs
  <1>5. CASE ReceivePiece(l)
    <2>1. UNCHANGED <<conn, socket, running, buffer, state>> /\ In(l, "recv")
      BY <1>5, ReceiveIs DEF clientVars
    <2>2. PICK s \in Sockets, h \in Piece :
              /\ s = listeners[l].sock /\ conn[s] # "closed"
              /\ inbound[s] \in Seq(Piece) /\ inbound[s] # <<>> /\ h = Head(inbound[s])
              /\ inbound'[s] = Tail(inbound[s])
              /\ Turns(l, "append") /\ listeners'[l].sock = s /\ listeners'[l].piece = h
      BY <1>5, ReceiveIs
    <2>3. s = socket /\ socket # Nothing
      BY <2>1, <2>2, NoneIs DEF Reading, Busy, In
    <2>4. \A k \in Listeners : ~In(k, "append")
      BY <1>2, <2>1 DEF In
    <2>5. Fits(buffer, inbound[s])
      BY <2>3, <2>4 DEF BufferInv
    <2>6. Follows(buffer, h) /\ Fits(h, inbound'[s])
      BY <2>2, <2>5, FitsTail
    <2>7. state = "CONNECTED"
      BY <1>0, <1>2, <2>3 DEF StateAgrees
    <2>8. running \/ \E c \in Callers : callers[c].pc \in {"close", "reset"}
      BY <1>0, <2>3, <2>7 DEF StateAgrees, ClientTypeOK, At
    <2>9. Reading'
      BY <1>3, <2>1, <2>2, <2>3 DEF Reading
    <2>10. \A k \in Listeners : In(k, "append")' <=> k = l
      BY <1>3, <2>2
    <2>11. BufferInv'
      BY <1>1, <2>1, <2>2, <2>3, <2>6, <2>8, <2>10 DEF BufferInv
    <2> QED  BY <2>9, <2>11
  <1>6. CASE AppendPiece(l)
    <2>1. UNCHANGED <<conn, inbound, socket, running>> /\ In(l, "append")
      BY <1>6 DEF AppendPiece, netVars
    <2>2. Turns(l, "top")
      BY <1>0, <1>6, TurnsIs DEF AppendPiece
    <2>3. PICK p \in Piece : p = listeners[l].piece
      BY <1>0, <2>1 DEF PartsFit
    <2>4. Follows(buffer, p) /\ (socket # Nothing => Fits(p, inbound[socket]))
          /\ (running \/ \E c \in Callers : callers[c].pc \in {"close", "reset"})
      BY <2>1, <2>3 DEF BufferInv
    <2>5. \/ buffer' = p /\ p[2] = 1
          \/ buffer' = Nothing /\ Closed(p)
      <3>1. buffer' = CASE p[2] = 2 /\ buffer = <<p[1], 1>> -> Nothing
                        [] ~(p[2] = 2 /\ buffer = <<p[1], 1>>) /\ buffer = Nothing /\ p[2] = 1 -> p
                        [] OTHER -> Garbage
        BY <1>6, <2>3 DEF AppendPiece
      <3>2. CASE buffer = Nothing
        <4>1. p[2] = 1
          BY <2>4, <3>2 DEF Follows, Closed
        <4> QED  BY <3>1, <3>2, <4>1
      <3>3. CASE buffer # Nothing
        <4>1. buffer \in Piece /\ buffer[2] = 1
          BY <3>3 DEF BufferInv
        <4>2. p = <<buffer[1], 2>>
          BY <2>4, <3>3, <4>1 DEF Follows, Closed
        <4>3. buffer = <<p[1], 1>> /\ p[2] = 2
          BY <4>1, <4>2 DEF Piece
        <4> QED  BY <3>1, <4>3 DEF Closed
      <3> QED  BY <3>2, <3>3
    <2>6. \A k \in Listeners : ~Busy(k)' /\ ~In(k, "append")'
      BY <1>3, <2>2
    <2>7. socket # Nothing => Fits(buffer', inbound[socket])
      BY <2>4, <2>5, FitsClosed
    <2>8. BufferInv'
      BY <1>1, <2>1, <2>4, <2>5, <2>6, <2>7 DEF BufferInv
    <2> QED  BY <2>6, <2>8 DEF Reading
  <1>7. CASE ListenerCloses(l)
    <2>1. Turns(l, "reset") /\ socket' = Nothing /\ UNCHANGED <<running, buffer>> /\ In(l, "close")
      BY <1>0, <1>7, TurnsIs, CloseSocketType DEF ListenerCloses
    <2>2. \A k \in Listeners : ~Busy(k)' /\ ~In(k, "append")'
      BY <1>3, <2>1
    <2>3. BufferInv'
      BY <1>1, <2>1, <2>2 DEF BufferInv
    <2> QED  BY <2>2, <2>3 DEF Reading
  <1>8. CASE ListenerResets(l)
    <2>1. Turns(l, "done") /\ UNCHANGED <<socket, conn>> /\ In(l, "reset")
      BY <1>0, <1>8, TurnsIs DEF ListenerResets, netVars
    <2>2. buffer' = Nothing
      BY <1>8, ResetIs DEF ListenerResets
    <2>3. \A k \in Listeners : ~Busy(k)' /\ ~In(k, "append")'
      BY <1>3, <2>1
    <2>4. socket = Nothing
      BY <1>0, <2>1 DEF ListenersApart
    <2> QED  BY <2>1, <2>2, <2>3, <2>4 DEF Reading, BufferInv
  <1> QED  BY <1>4, <1>5, <1>6, <1>7, <1>8 DEF ListenStep

\* An answer is sent on a connection, or the connection breaks.
LEMMA NetFrame ==
    ASSUME TypeInv, Reading, BufferInv, NEW s \in Sockets, NetStep(s)
    PROVE  Reading' /\ BufferInv'
  <1>0. ClientTypeOK /\ PartsFit
    BY DEF TypeInv
  <1>1. /\ UNCHANGED <<socket, running, buffer, callers, listeners>>
        /\ \A u \in Sockets : conn[u] = "closed" => conn'[u] = "closed"
    BY <1>0 DEF NetStep, Break, Reply, clientVars, ClientTypeOK
  <1>2. Reading'
    BY <1>0, <1>1 DEF Reading, Busy, PartsFit
  <1>3. ASSUME NEW p, NEW u \in Sockets, Fits(p, inbound[u]) PROVE Fits(p, inbound'[u])
    <2>1. CASE Break(s)
      BY <1>3, <2>1 DEF Break
    <2>2. ASSUME NEW r \in Requests, Reply(s, r) PROVE Fits(p, inbound'[u])
      <3>1. CASE u = s
        <4>1. inbound[s] \in Seq(Piece) /\ inbound'[s] = inbound[s] \o <<<<r, 1>>, <<r, 2>>>>
          BY <1>0, <2>2 DEF Reply, ClientTypeOK
        <4> QED  BY <1>3, <3>1, <4>1, FitsReply
      <3>2. CASE u # s
        BY <1>0, <1>3, <2>2, <3>2 DEF Reply, ClientTypeOK
      <3> QED  BY <3>1, <3>2
    <2> QED  BY <2>1, <2>2 DEF NetStep
  <1>4. socket # Nothing => socket \in Sockets
    BY <1>0 DEF ClientTypeOK
  <1>5. BufferInv'
    BY <1>1, <1>3, <1>4 DEF BufferInv, In
  <1> QED  BY <1>2, <1>5

LEMMA NextFrame ==
    ASSUME TypeInv, HeardInv, FrameInv, [ClientNext]_connectionVars
    PROVE  FrameInv'
  <1> SUFFICES ASSUME causes' = {} PROVE Reading' /\ BufferInv'
    BY DEF FrameInv
  <1>1. causes = {} /\ Reading /\ BufferInv
    BY CausesGrow DEF FrameInv
  <1>2. HeardParts
    BY <1>1 DEF HeardInv, HeardParts, Apart
  <1>3. CASE UNCHANGED connectionVars
    BY <1>1, <1>3 DEF Reading, BufferInv, Busy, In, connectionVars, netVars, clientVars
  <1>4. CASE Asks
    <2>1. PICK c \in Callers, pc \in CallSteps : callers[c].pc \in CallSteps /\ Moves(c, pc)
      BY <1>4 DEF Asks
    <2>2. \A d \in Callers : callers[d].pc \in {"close", "reset"} => callers'[d] = callers[d]
      BY <2>1 DEF Moves, CallSteps
    <2>3. UNCHANGED <<conn, inbound, socket, running, buffer, listeners>>
      BY <1>4 DEF Asks, clientVars
    <2>4. Reading'
      BY <1>1, <2>3 DEF Reading, Busy
    <2>5. BufferInv'
      BY <1>1, <2>2, <2>3 DEF BufferInv, In
    <2> QED  BY <2>4, <2>5
  <1>5. CASE GivesUp
    <2>1. PICK m \in Listeners : In(m, "recv") /\ (Turns(m, "top") \/ Turns(m, "close"))
      BY <1>5 DEF GivesUp
    <2>2. \A k \in Listeners : /\ Busy(k)' => Busy(k) /\ listeners'[k] = listeners[k]
                               /\ In(k, "append")' = In(k, "append")
                               /\ In(k, "append") => listeners'[k] = listeners[k]
      BY <2>1 DEF Turns, Busy, In
    <2>3. UNCHANGED <<conn, inbound, socket, running, buffer, callers>>
      BY <1>5 DEF GivesUp, netVars, clientVars
    <2>4. Reading'
      BY <1>1, <2>2, <2>3 DEF Reading, Busy
    <2>5. BufferInv'
      BY <1>1, <2>2, <2>3 DEF BufferInv, In
    <2> QED  BY <2>4, <2>5
  <1> QED  BY <1>1, <1>2, <1>3, <1>4, <1>5, LinkStepIs, SwitchFrame, ListenFrame, NetFrame

LEMMA InitFrame == ClientInit => FrameInv
  BY DEF ClientInit, Listening, FrameInv, Reading, BufferInv, Busy, In

\* The bytes of two frames get mixed up only when a listener of an earlier
\* connection was alive, two calls connected or disconnected at once, or the
\* buffer was cleared under a listener's hands (_listen_loop, reconnect).
THEOREM FramesAlwaysWhole == ClientSpec => []FramesStayWhole
  <1>1. ClientInit => TypeInv /\ HeardInv /\ FrameInv
    BY InitType, InitHeard, InitFrame
  <1>2. TypeInv /\ HeardInv /\ FrameInv /\ [ClientNext]_connectionVars => TypeInv' /\ HeardInv' /\ FrameInv'
    BY NextType, NextHeard, NextFrame
  <1>3. FrameInv => FramesStayWhole
    BY NoneIs DEF FrameInv, BufferInv, FramesStayWhole
  <1> QED  BY <1>1, <1>2, <1>3, PTL DEF ClientSpec

====
