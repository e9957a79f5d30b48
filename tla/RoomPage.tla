---- MODULE RoomPage ----
(***************************************************************************)
(* The page of the desktop client that shows one room (RoomPage): its list *)
(* of files, the selected file, and the jobs it hands to threads: loading  *)
(* the room's data, a file's details, deleting a file.  A job runs         *)
(* in a QThread and answers by signals, which Qt queues for the UI thread; *)
(* the UI thread handles one signal or one click at a time.  A listener    *)
(* pushes the coordinator's events to the page.                            *)
(*                                                                         *)
(* behind, overridden, cancelled and told are history.                     *)
(***************************************************************************)
EXTENDS FiniteSets, Integers, Sequences

CONSTANTS
    Files,      \* files of the room
    Initial,    \* those that are there when the page is opened
    MaxChanges, \* bound: files that come or go meanwhile
    MaxThreads, \* bound: QThread objects that may exist at a time
    MaxFaults,  \* bound: requests that fail and connections that are lost
    MaxClicks,  \* bound: clicks of the user
    None

ASSUME FilesAssumption == Initial \subseteq Files

VARIABLES
    server,         \* state of each file at the coordinator
    link,           \* connection of the listener
    inFlight,       \* changes the listener has not passed on yet
    queue,          \* signals posted to the UI thread
    threads,        \* QThread objects and their workers
    ref,            \* ref[k]: _data_thread, _detail_thread, ...
    faults,         \* faults so far
    clicks,         \* clicks so far
    page,           \* "open", "deleted", or "crashed" with the program
    loading,        \* _set_loading_state
    cards,          \* _files
    highlight,      \* card shown as selected
    selected,       \* _selected_file
    panel,          \* _pending_delete_file, shown by the confirm panel
    behind,         \* what first made the cards miss the server's files
    overridden,     \* details of another file replaced the selection
    cancelled,      \* the panel may name another file than is being deleted
    told            \* files the user was told are deleted

bounds      == <<faults, clicks>>
pageVars    == <<loading, cards, highlight, selected>>
deleteVars  == <<panel, cancelled, told>>
roomVars    == <<server, link, inFlight>>
historyVars == <<behind, overridden>>
vars == <<roomVars, queue, threads, ref, bounds, page, pageVars, deleteVars,
          historyVars>>

Threads  == 1 .. MaxThreads
Kinds    == {"data", "detail", "delete"}
Optional == Files \cup {None}

\* A worker's job is about the file arg; found is what a data job has read.
Thread ==
    [kind : Kinds, arg : Optional, found : SUBSET Files,
     state : {"starting", "served", "answered", "finished", "collected"}]
NoThread == [state |-> "free"]

Signal ==
    [type : {"result", "failure", "cleanup"}, thread : Threads]
        \cup {[type |-> "event"]}

Causes == {"unheard", "silent", "dropped", "failed", "overtaken"}
States == {"absent", "present", "missing", "deleted"}

ASSUME BoundsAssumption ==
    /\ MaxThreads \in Nat \ {0}
    /\ MaxFaults \in Nat
    /\ MaxClicks \in Nat

ASSUME NoneAssumption ==
    None \notin Files /\ None \notin Threads /\ None \notin Causes

TypeOK ==
    /\ server   \in [Files -> States]
    /\ link     \in {"connecting", "subscribed", "down"}
    /\ inFlight \in Nat
    /\ queue    \in Seq(Signal)
    /\ threads  \in [Threads -> Thread \cup {NoThread}]
    /\ ref      \in [Kinds -> Threads \cup {None}]
    /\ faults   \in 0 .. MaxFaults
    /\ clicks   \in 0 .. MaxClicks
    /\ page     \in {"open", "deleted", "crashed"}
    /\ loading  \in BOOLEAN
    /\ cards    \subseteq Files
    /\ {highlight, selected, panel} \subseteq Optional
    /\ behind     \in Causes \cup {None}
    /\ {overridden, cancelled} \subseteq BOOLEAN
    /\ told       \subseteq Files

\* The files of LIST_FILES.
Present == {f \in Files : server[f] = "present"}

\* QThread.isRunning: the thread has been started and has not left its loop.
Alive(t)   == threads[t].state \notin {"free", "finished"}
Running(k) == ref[k] # None /\ Alive(ref[k])

\* The answer of t waits for the UI thread.
Posted(t) == \E i \in DOMAIN queue :
                 queue[i].type \in {"result", "failure"} /\ queue[i].thread = t

Job(k, f) == [kind |-> k, arg |-> f, found |-> {}, state |-> "starting"]

\* Something outside the client fails.
Fault == faults < MaxFaults /\ faults' = faults + 1 /\ UNCHANGED clicks

\* A new thread for a job of kind k.
Start(k, f) ==
    LET free == {t \in Threads : threads[t] = NoThread}
        t    == CHOOSE u \in free : \A v \in free : u <= v
    IN  /\ free # {}
        /\ threads' = [threads EXCEPT ![t] = Job(k, f)]
        /\ ref' = [ref EXCEPT ![k] = t]

AtFirst(f) == IF f \in Initial THEN "present" ELSE "absent"

\* A page is opened: it loads its data and starts the listener.
Init ==
    /\ server   = [f \in Files |-> AtFirst(f)]
    /\ link     = "connecting"
    /\ inFlight = 0
    /\ queue    = <<>>
    /\ threads  = [t \in Threads |->
                       IF t = 1 THEN Job("data", None) ELSE NoThread]
    /\ ref      = [k \in Kinds |-> IF k = "data" THEN 1 ELSE None]
    /\ faults   = 0
    /\ clicks   = 0
    /\ page     = "open"
    /\ loading  = TRUE
    /\ cards    = {}
    /\ highlight = None /\ selected = None
    /\ panel = None
    /\ behind     = None
    /\ overridden = FALSE
    /\ cancelled  = FALSE
    /\ told       = {}

-----------------------------------------------------------------------------
(* What the handlers of the UI thread have in common *)

Data(t) == threads[t] # NoThread /\ threads[t].kind = "data"

\* A load that has not read yet reads what there is now.
WillRead == \E t \in Threads : Data(t) /\ threads[t].state = "starting"

\* Loads that have not shown their result yet.
Loads ==
    {t \in Threads :
        Data(t) /\ (threads[t].state \in {"starting", "served"} \/ Posted(t))}

\* Deletions that have not been answered to the page yet.
Deletions ==
    {t \in Threads :
        /\ threads[t] # NoThread /\ threads[t].kind = "delete"
        /\ threads[t].state = "starting" \/ Posted(t)}

First(cause)  == IF behind = None THEN cause ELSE behind
Missed(cause) == IF WillRead THEN behind ELSE First(cause)

\* reload_room_data: one load at a time, as far as _data_thread knows.
Reload ==
    IF Running("data")
    THEN /\ behind' = Missed("dropped")
         /\ UNCHANGED <<loading, threads, ref>>
    ELSE /\ loading' = TRUE
         /\ Start("data", None)
         /\ behind' = IF Loads # {} THEN "overtaken" ELSE None

\* Mutant: a click is ignored while the details of another file are loading.
SelectsWhenIdle(f) ==
    /\ highlight' = f
    /\ overridden' = FALSE
    /\ IF Running("detail")
       THEN UNCHANGED <<selected, threads, ref>>
       ELSE selected' = f /\ Start("detail", f)

\* _on_file_selected: the details are asked for unless others are loading.
SelectFile(f) ==
    /\ selected' = f
    /\ highlight' = f
    /\ overridden' = FALSE
    /\ IF Running("detail")
       THEN UNCHANGED <<threads, ref>>
       ELSE Start("detail", f)

-----------------------------------------------------------------------------
(* The coordinator and the listener *)

\* The row of f changes; whether LIST_FILES answers otherwise from now on.
Becomes(f, state) == server' = [server EXCEPT ![f] = state]
Matters(f, state) == (server[f] = "present") # (state = "present")

\* A file is READY or goes, and subscribers are told, of a file that had gone
\* already too.
Changes(f, state) ==
    /\ Becomes(f, state)
    /\ IF link = "subscribed"
       THEN inFlight' = inFlight + 1 /\ UNCHANGED behind
       ELSE /\ behind' = IF Matters(f, state) THEN Missed("unheard") ELSE behind
            /\ UNCHANGED inFlight

\* A file is READY or goes, and nobody is told.
ChangesSilently(f, state) ==
    /\ Becomes(f, state)
    /\ behind' = Missed("silent")
    /\ UNCHANGED inFlight

Changed(f) == server[f] # AtFirst(f)

MayChange == Cardinality({g \in Files : Changed(g)}) < MaxChanges

\* Another member's upload is reported complete, which is broadcast unless
\* the broadcast fails; or INIT_UPLOAD finds the content stored already, and
\* the row is READY at once with no event.
FileArrives(f) ==
    /\ page = "open"
    /\ MayChange
    /\ server[f] = "absent"
    /\ Changes(f, "present") \/ ChangesSilently(f, "present")
    /\ UNCHANGED <<link, queue, threads, ref, bounds, page, pageVars,
                   deleteVars, overridden>>

\* Another member's DELETE_FILE, or a report that marks the row DELETED.
FileGoes(f) ==
    /\ page = "open"
    /\ MayChange
    /\ server[f] = "present"
    /\ Changes(f, "deleted")
    /\ UNCHANGED <<link, queue, threads, ref, bounds, page, pageVars,
                   deleteVars, overridden>>

\* Reconciliation: the node's manifest has not got the file's content.
FileIsMissing(f) ==
    /\ page = "open"
    /\ MayChange
    /\ server[f] = "present"
    /\ ChangesSilently(f, "missing")
    /\ UNCHANGED <<link, queue, threads, ref, bounds, page, pageVars,
                   deleteVars, overridden>>

\* _run: callbacks first, then the subscription.
Subscribe ==
    /\ page = "open"
    /\ link = "connecting"
    /\ link' = "subscribed"
    /\ UNCHANGED <<server, inFlight, queue, threads, ref, bounds, page,
                   pageVars, deleteVars, historyVars>>

\* The connection cannot be made or is lost, with events on it, and the
\* failure is swallowed and nobody connects again; or the coordinator drops a
\* subscriber whose send buffer is full, and sends no more.
LosesLink ==
    /\ page = "open"
    /\ link # "down"
    /\ Fault
    /\ link' = "down"
    /\ inFlight' \in 0 .. inFlight
    /\ behind' = IF inFlight' < inFlight THEN Missed("unheard") ELSE behind
    /\ UNCHANGED <<server, queue, threads, ref, page, pageVars, deleteVars,
                   overridden>>

\* _on_sdk_event, on the SDK's thread.
PassOnEvent ==
    /\ page = "open"
    /\ inFlight > 0
    /\ inFlight' = inFlight - 1
    /\ queue' = Append(queue, [type |-> "event"])
    /\ UNCHANGED <<server, link, threads, ref, bounds, page, pageVars,
                   deleteVars, historyVars>>

-----------------------------------------------------------------------------
(* Threads *)

\* success or failure is connected to the page first, then to quit: the
\* thread leaves its loop once the answer has been handled.
Answer(t, type) ==
    /\ threads' = [threads EXCEPT ![t].state = "answered"]
    /\ queue' = Append(queue, [type |-> type, thread |-> t])

InState(t, kind, state) ==
    /\ page = "open"
    /\ threads[t] # NoThread
    /\ threads[t].kind = kind
    /\ threads[t].state = state

\* LIST_FILES is answered with the files there are.
ListFiles(t) ==
    threads' = [threads EXCEPT ![t].state = "served", ![t].found = Present]

\* get_files: a list that cannot be read is an empty one.
GetsNoFiles(t) ==
    /\ Fault
    /\ Answer(t, "result")
    /\ behind' = First("failed")

\* RoomDataWorker reads the lists.
ReadData(t) ==
    /\ InState(t, "data", "starting")
    /\ \/ ListFiles(t) /\ UNCHANGED <<queue, behind, bounds>>
       \/ GetsNoFiles(t)
    /\ UNCHANGED <<roomVars, ref, page, pageVars, deleteVars, overridden>>

AnswerData(t) ==
    /\ InState(t, "data", "served")
    /\ Answer(t, "result")
    /\ UNCHANGED <<roomVars, ref, bounds, page, pageVars, deleteVars,
                   historyVars>>

\* The coordinator cannot be reached.
DataFails(t) ==
    /\ InState(t, "data", "starting")
    /\ Fault
    /\ Answer(t, "failure")
    /\ behind' = First("failed")
    /\ UNCHANGED <<roomVars, ref, page, pageVars, deleteVars, overridden>>

\* get_file_detail: whatever its status, a file has a row once it was there.
HasRow(f) == server[f] # "absent"

FileDetail(t) == HasRow(threads[t].arg) /\ Answer(t, "result")

\* Whatever goes wrong, the client gets no details.
GetsNoDetail(t) == Fault /\ Answer(t, "failure")

AnswerDetail(t) ==
    /\ InState(t, "detail", "starting")
    /\ \/ FileDetail(t) /\ UNCHANGED bounds
       \/ GetsNoDetail(t)
    /\ UNCHANGED <<roomVars, ref, page, pageVars, deleteVars, historyVars>>

\* DELETE_FILE, which succeeds for a file that has gone as well; it may fail,
\* or the answer be lost after the file has gone.
AnswerDelete(t) ==
    /\ InState(t, "delete", "starting")
    /\ \/ Changes(threads[t].arg, "deleted") /\ Answer(t, "result")
          /\ UNCHANGED bounds
       \/ Changes(threads[t].arg, "deleted") /\ Answer(t, "failure") /\ Fault
       \/ /\ Answer(t, "failure")
          /\ Fault
          /\ UNCHANGED <<server, inFlight, behind>>
    /\ UNCHANGED <<link, ref, page, pageVars, deleteVars, overridden>>

\* The thread leaves its loop; isRunning is false from here on, finished is
\* still to be handled.
Finish(t) ==
    /\ page = "open"
    /\ threads[t].state = "answered"
    /\ ~Posted(t)
    /\ threads' = [threads EXCEPT ![t] =
                       [Job(@.kind, None) EXCEPT !.state = "finished"]]
    /\ queue' = Append(queue, [type |-> "cleanup", thread |-> t])
    /\ UNCHANGED <<roomVars, ref, bounds, page, pageVars, deleteVars,
                   historyVars>>

-----------------------------------------------------------------------------
(* Signals, in the order they were posted *)

Arrives(type) ==
    /\ page = "open"
    /\ queue # <<>>
    /\ Head(queue).type = type
    /\ queue' = Tail(queue)

Sender  == Head(queue).thread
Of(k)   == threads[Sender].kind = k

ShowNothing ==
    /\ highlight' = None
    /\ selected' = None
    /\ overridden' = FALSE
    /\ UNCHANGED <<threads, ref>>

\* The card to select again: the selected one, or the first if it has gone.
Preferred(files) == IF selected \in files THEN {selected} ELSE files

\* _on_room_data_loaded with _render_file_cards.
RoomDataLoaded ==
    /\ Arrives("result")
    /\ Of("data")
    /\ loading' = FALSE
    /\ LET files == threads[Sender].found
       IN  /\ cards' = files
           /\ IF files = {}
              THEN ShowNothing
              ELSE \E f \in Preferred(files) : SelectFile(f)
    /\ UNCHANGED <<roomVars, bounds, page, deleteVars, behind>>

RoomDataFailed ==
    /\ Arrives("failure")
    /\ Of("data")
    /\ loading' = FALSE
    /\ cards' = {}
    /\ ShowNothing
    /\ UNCHANGED <<roomVars, bounds, page, deleteVars, behind>>

\* The details replace the selection, whatever it is by now.
FileDetailLoaded ==
    /\ Arrives("result")
    /\ Of("detail")
    /\ selected' = threads[Sender].arg
    /\ overridden' = (overridden \/ selected # threads[Sender].arg)
    /\ UNCHANGED <<roomVars, threads, ref, bounds, page, loading, cards,
                   highlight, deleteVars, behind>>

FileDetailFailed ==
    /\ Arrives("failure")
    /\ Of("detail")
    /\ UNCHANGED <<roomVars, threads, ref, bounds, page, pageVars, deleteVars,
                   historyVars>>

\* The user is told the name in the panel or, without it, of the selection.
DeleteSucceeds ==
    /\ Arrives("result")
    /\ Of("delete")
    /\ LET named == IF panel # None THEN panel ELSE selected
       IN  told' = IF cancelled THEN told ELSE told \cup ({named} \ {None})
    /\ panel' = None
    /\ selected' = None
    /\ cancelled' = (Deletions \ {Sender} # {})
    /\ Reload
    /\ UNCHANGED <<roomVars, bounds, page, cards, highlight, overridden>>

DeleteFails ==
    /\ Arrives("failure")
    /\ Of("delete")
    /\ panel' = None
    /\ cancelled' = (Deletions \ {Sender} # {})
    /\ UNCHANGED <<roomVars, threads, ref, bounds, page, pageVars, told,
                   historyVars>>

\* Mutant: an event is ignored while a file's details are loading.
IgnoresWhileBusy ==
    /\ Arrives("event")
    /\ IF Running("detail")
       THEN UNCHANGED <<loading, threads, ref, behind>>
       ELSE Reload
    /\ UNCHANGED <<roomVars, bounds, page, cards, highlight, selected,
                   deleteVars, overridden>>

RoomEvent ==
    /\ Arrives("event")
    /\ Reload
    /\ UNCHANGED <<roomVars, bounds, page, cards, highlight, selected,
                   deleteVars, overridden>>

\* _cleanup_*_thread drops the page's references, to whichever thread they
\* are.  A worker that has not begun and is referred to no more may be
\* collected: its thread then waits for ever.
Cleanup ==
    /\ Arrives("cleanup")
    /\ LET k   == threads[Sender].kind
           now == ref[k]
           freed == [threads EXCEPT ![Sender] = NoThread]
       IN  /\ ref' = [ref EXCEPT ![k] = None]
           /\ \/ threads' = freed
              \/ /\ now \notin {None, Sender}
                 /\ threads[now].state = "starting"
                 /\ threads' = [freed EXCEPT ![now].state = "collected"]
    /\ UNCHANGED <<roomVars, bounds, page, pageVars, deleteVars, historyVars>>

-----------------------------------------------------------------------------
(* Clicks; the confirm panel covers the page *)

OnPage ==
    /\ page = "open"
    /\ panel = None
    /\ clicks < MaxClicks
    /\ clicks' = clicks + 1
    /\ UNCHANGED faults

OnPanel ==
    /\ page = "open"
    /\ panel # None
    /\ clicks < MaxClicks
    /\ clicks' = clicks + 1
    /\ UNCHANGED faults

ClickCard(f) ==
    /\ OnPage
    /\ f \in cards
    /\ SelectFile(f)
    /\ UNCHANGED <<roomVars, queue, page, loading, cards, deleteVars, behind>>

ClickRefresh ==
    /\ OnPage
    /\ ~loading
    /\ Reload
    /\ UNCHANGED <<roomVars, queue, page, cards, highlight, selected,
                   deleteVars, overridden>>

\* _delete_selected_file: the panel keeps a copy of what is selected now.
ClickDelete ==
    /\ OnPage
    /\ selected # None
    /\ panel' = selected
    /\ UNCHANGED <<roomVars, queue, threads, ref, page, pageVars, cancelled,
                   told, historyVars>>

\* _start_delete_worker: nothing is started while a deletion runs, as far as
\* _delete_thread knows.
StartDelete(f) ==
    IF Running("delete")
    THEN UNCHANGED <<threads, ref, cancelled>>
    ELSE Start("delete", f) /\ cancelled' = (Deletions # {})

\* Mutant: the selection is deleted, not the file in the panel.
DeletesSelection ==
    /\ OnPanel
    /\ selected # None
    /\ StartDelete(selected)
    /\ UNCHANGED <<roomVars, queue, page, pageVars, panel, told, historyVars>>

\* _execute_delete_confirmed.
ConfirmDelete ==
    /\ OnPanel
    /\ StartDelete(panel)
    /\ UNCHANGED <<roomVars, queue, page, pageVars, panel, told, historyVars>>

CancelDelete ==
    /\ OnPanel
    /\ panel' = None
    /\ cancelled' = (cancelled \/ Deletions # {})
    /\ UNCHANGED <<roomVars, queue, threads, ref, page, pageVars, told,
                   historyVars>>

\* Another room is opened: the page goes with its threads, and the program
\* with a thread that runs.  Nobody stops the listener.
OpenAnotherRoom ==
    /\ page = "open"
    /\ page' = IF \E t \in Threads : Alive(t) THEN "crashed" ELSE "deleted"
    /\ queue' = <<>>
    /\ threads' = [t \in Threads |-> NoThread]
    /\ ref' = [k \in Kinds |-> None]
    /\ faults' = 0
    /\ clicks' = 0
    /\ loading' = FALSE /\ cards' = {} /\ highlight' = None /\ selected' = None
    /\ panel' = None /\ cancelled' = FALSE /\ told' = {}
    /\ behind' = None /\ overridden' = FALSE
    /\ UNCHANGED roomVars

-----------------------------------------------------------------------------
HandleSignal ==
    \/ RoomDataLoaded \/ RoomDataFailed
    \/ FileDetailLoaded \/ FileDetailFailed
    \/ DeleteSucceeds \/ DeleteFails
    \/ RoomEvent \/ Cleanup

Work(t) ==
    \/ ReadData(t) \/ AnswerData(t) \/ DataFails(t)
    \/ AnswerDetail(t) \/ AnswerDelete(t)
    \/ Finish(t)

Click ==
    \/ \E f \in Files : ClickCard(f)
    \/ ClickRefresh
    \/ ClickDelete \/ ConfirmDelete \/ CancelDelete
    \/ OpenAnotherRoom

Next ==
    \/ HandleSignal
    \/ Click
    \/ \E t \in Threads : Work(t)
    \/ \E f \in Files : FileArrives(f) \/ FileGoes(f) \/ FileIsMissing(f)
    \/ Subscribe \/ LosesLink \/ PassOnEvent

Spec == Init /\ [][Next]_vars

-----------------------------------------------------------------------------
\* Nothing is under way that may still bring the page up to date.
Quiet ==
    /\ page = "open"
    /\ ~loading
    /\ Loads = {}
    /\ inFlight = 0
    /\ queue = <<>>

\* A quiet page shows the room's files, unless a change was not heard of, a
\* change was told to nobody (a deduplicated INIT_UPLOAD, reconciliation), a
\* reload asked for was dropped because a load that had read already was
\* running, the last load failed, or two loads ran at once
\* (reload_room_data, _on_room_event, _cleanup_data_thread).
StaleExplained == Quiet => cards = Present \/ behind # None

\* The file that Download and Delete act on is the one shown as selected,
\* unless the details of another file, asked for earlier, came in
\* (_on_file_detail_loaded).
SelectionExplained == selected \in {None, highlight} \/ overridden

\* A file the user was told is deleted is deleted, though the selection may
\* change under the confirm panel, unless the panel was closed, or another
\* deletion begun, while one was under way (_on_delete_success).
ToldFilesAreGone == \A f \in told : server[f] = "deleted"
====
