----------------------------- MODULE DaemonLoop -----------------------------
(***************************************************************************)
(* The life of one copperd process: run_daemon of daemon/src/daemon.rs and *)
(* what its loop calls (daemon_transport.rs, daemon_scheduler.rs, the      *)
(* loading of the registry in extension.rs and of the core config in       *)
(* core_config.rs), the tray threads it joins, and the clients of its      *)
(* control plane.                                                          *)
(*                                                                         *)
(* One thread does everything the daemon is asked for: it takes a request  *)
(* from the queue of the HTTP server, serves it to the end, reloads the    *)
(* registry when that is due, and looks at the flag that ends it.          *)
(* Meanwhile a person installs and removes extensions on the disk, the     *)
(* settings UI changes the core config, and clients give up after ten      *)
(* seconds without withdrawing their request.                              *)
(*                                                                         *)
(* A load reads the directories of the extensions one after the other and  *)
(* then the core config.  The running of a triggered extension is one step *)
(* here (module DenoRun), and so is a save of the core config (module      *)
(* StateFile).  DaemonState.core_config, a second reading of the core      *)
(* config, is left out with the background polls that alone use it: no     *)
(* capability of host_extensions.rs has one.  External: the HTTP server's  *)
(* queue, the disk, the people.                                            *)
(***************************************************************************)
EXTENDS Naturals, Sequences

CONSTANTS
    Extensions,      \* ids of extensions that may be on the disk
    Clients,         \* copperd commands and the hotkey thread
    Nobody,          \* the client that gave up
    Trays,           \* tray threads that are joined at the end (on Windows)
    Requests,        \* kinds of requests the clients send
    Faults,          \* what may fail
    MaxQueue,        \* bound on the requests in the queue
    MaxChanges       \* bound on the changes of the disk and the core config

ASSUME DaemonLoopAssumption ==
    /\ Nobody \notin Clients
    /\ Requests \subseteq {"trigger", "reload", "shutdown", "other", "unreadable"}
    /\ Faults \subseteq {"start", "config", "tray"}
    /\ MaxQueue \in Nat
    /\ MaxChanges \in Nat

VARIABLES
    main,      \* what the main thread does
    task,      \* why it loads, or the request it serves
    running,   \* the flag shared by all threads
    registry,  \* DaemonState.registry
    todo,      \* directories the load under way has not read
    found,     \* extensions it has read
    tray,      \* state of the tray threads
    queue,     \* requests the HTTP server has accepted
    client,    \* what the clients wait for, or the latest answer
    disk,      \* what is in the directory of each extension
    disabled,  \* disabledExtensions in the core config on the disk
    changes,   \* number of changes of the disk and the core config
    since,     \* history: extensions changed since the load under way began
    stale,     \* history: ... since the load the registry comes from began
    unseen     \* history: ... since each client sent its request

loadVars == <<registry, todo, found>>
worldVars == <<disk, disabled, changes>>
historyVars == <<since, stale, unseen>>
vars == <<main, task, running, registry, todo, found, tray, queue, client,
          disk, disabled, changes, since, stale, unseen>>

-----------------------------------------------------------------------------

NoTask == [kind |-> "none", from |-> Nobody]
Task(kind) == [kind |-> kind, from |-> Nobody]

\* "partial": anything a load fails on, such as a manifest.json without a
\* main.ts, or with an invalid content.
DiskStates == {"absent", "partial", "whole"}

Init ==
    /\ main = "load"
    /\ task = Task("start")
    /\ running = TRUE
    /\ registry = {}
    /\ todo = Extensions
    /\ found = {}
    /\ tray = [t \in Trays |-> "none"]
    /\ queue = <<>>
    /\ client = [c \in Clients |-> "idle"]
    /\ disk \in [Extensions -> DiskStates]
    /\ disabled \in SUBSET Extensions
    /\ changes = 0
    /\ since = {}
    /\ stale = Extensions
    /\ unseen = [c \in Clients |-> {}]

\* The response reaches the client if it still waits; one that is gone is no
\* error for the HTTP server.
Answer(r, reply) ==
    client' = [c \in Clients |-> IF c = r.from THEN reply ELSE client[c]]

-----------------------------------------------------------------------------
(***************************************************************************)
(* Loading: DaemonState::load and DaemonState::reload.                     *)
(***************************************************************************)

BeginLoad(t) ==
    /\ main' = "load"
    /\ task' = t
    /\ todo' = Extensions
    /\ found' = {}
    /\ since' = {}
    /\ UNCHANGED <<registry, stale, unseen>>

\* A failed load, had the request for it been forgotten.
LoadFails_Unanswered ==
    /\ todo' = {}
    /\ found' = {}
    /\ task' = NoTask
    /\ main' = IF task.kind = "reload" THEN "due" ELSE "leaving"
    /\ UNCHANGED client

\* A failed load, had the daemon gone on with it.
LoadFails_KeepsTask ==
    /\ todo' = {}
    /\ found' = {}
    /\ Answer(task, "error")
    /\ main' = IF task.kind = "reload" THEN "due" ELSE "leaving"
    /\ UNCHANGED task

\* A load that fails changes nothing.  A client is told; at the start and on
\* schedule the error leaves run_daemon.
LoadFails ==
    /\ todo' = {}
    /\ found' = {}
    /\ task' = NoTask
    /\ Answer(task, "error")
    /\ main' = IF task.kind = "reload" THEN "due" ELSE "leaving"

\* Registry::load_from_dirs: the next directory, in the order of the disk.
LoadDir ==
    /\ main = "load"
    /\ \E e \in todo :
         \/ /\ disk[e] = "partial"
            /\ LoadFails
         \/ /\ disk[e] # "partial"
            /\ todo' = todo \ {e}
            /\ found' = IF disk[e] = "whole" THEN found \cup {e} ELSE found
            /\ UNCHANGED <<main, task, client>>
    /\ UNCHANGED <<running, registry, tray, queue, worldVars, historyVars>>

\* load_runtime_registry, had it added to the entries it had.
Registered_Added == (registry \cup found) \ disabled

\* filter_for_runtime, with the core config as it is now.
Registered == found \ disabled

FinishLoad ==
    /\ registry' = Registered
    /\ stale' = since
    /\ found' = {}
    /\ task' = NoTask
    /\ Answer(task, "reloaded")
    /\ main' = CASE task.kind = "start" -> "begin"
                 [] task.kind = "reload" -> "due"
                 [] task.kind = "schedule" -> "tick"
    /\ UNCHANGED todo

\* load_runtime_registry: with the directories read, the core config is read,
\* which may fail, and the registry filtered.
LoadCoreConfig ==
    /\ main = "load"
    /\ todo = {}
    /\ \/ FinishLoad
       \/ "config" \in Faults /\ LoadFails /\ UNCHANGED <<registry, stale>>
    /\ UNCHANGED <<running, tray, queue, worldVars, since, unseen>>

\* The rest of the start: the token of the control plane, the settings UI, the
\* trays and the hotkeys.  An error drops what has been started.
Begin ==
    /\ main = "begin"
    /\ \/ /\ tray' = [t \in Trays |-> "loop"]
          /\ main' = "recv"
       \/ /\ "start" \in Faults
          /\ tray' \in [Trays -> {"none", "loop"}]
          /\ main' = "leaving"
    /\ UNCHANGED <<task, running, loadVars, queue, client, worldVars, historyVars>>

-----------------------------------------------------------------------------
(***************************************************************************)
(* The loop of run_daemon.                                                 *)
(***************************************************************************)

\* `while running.load(..)`
Leave ==
    /\ main = "recv"
    /\ ~running
    /\ main' = "leaving"
    /\ UNCHANGED <<task, running, loadVars, tray, queue, client, worldVars, historyVars>>

\* recv_timeout returns nothing.
Idle ==
    /\ main = "recv"
    /\ running
    /\ queue = <<>>
    /\ main' = "due"
    /\ UNCHANGED <<task, running, loadVars, tray, queue, client, worldVars, historyVars>>

\* IpcRequest::Reload, had it been left to the schedule.
ServeReload_Scheduled(r) ==
    /\ r.kind = "reload"
    /\ Answer(r, "reloaded")
    /\ main' = "due"
    /\ UNCHANGED <<task, running, loadVars, since, stale, unseen>>

ServeReload(r) ==
    /\ r.kind = "reload"
    /\ BeginLoad(r)
    /\ UNCHANGED <<running, client>>

\* IpcRequest::Trigger: an extension that is not in the registry is an error.
ServeTrigger(r) ==
    /\ r.kind = "trigger"
    /\ \/ registry # {} /\ main' = "run" /\ task' = r /\ UNCHANGED client
       \/ main' = "due" /\ Answer(r, "error") /\ UNCHANGED task
    /\ UNCHANGED <<running, loadVars, historyVars>>

\* IpcRequest::Shutdown
ServeShutdown(r) ==
    /\ r.kind = "shutdown"
    /\ running' = FALSE
    /\ Answer(r, "ok")
    /\ main' = "due"
    /\ UNCHANGED <<task, loadVars, historyVars>>

\* Requests that change nothing, and those without the token.
ServeOther(r) ==
    /\ \E reply \in {"ok", "error"} : Answer(r, reply)
    /\ main' = "due"
    /\ UNCHANGED <<task, running, loadVars, historyVars>>

\* The body of a trigger cannot be read as text: the error leaves run_daemon,
\* and the HTTP server answers the request that was dropped.
ServeUnreadable(r) ==
    /\ r.kind = "unreadable"
    /\ main' = "leaving"
    /\ Answer(r, "error")
    /\ UNCHANGED <<task, running, loadVars, historyVars>>

\* handle_http_request
Serve ==
    /\ main = "recv"
    /\ running
    /\ queue # <<>>
    /\ queue' = Tail(queue)
    /\ LET r == Head(queue) IN
         \/ ServeReload(r)
         \/ ServeTrigger(r)
         \/ ServeShutdown(r)
         \/ ServeOther(r)
         \/ ServeUnreadable(r)
    /\ UNCHANGED <<tray, worldVars>>

\* The triggered extension returns or fails.
RunEnds ==
    /\ main = "run"
    /\ \E reply \in {"ok", "error"} : Answer(task, reply)
    /\ task' = NoTask
    /\ main' = "due"
    /\ UNCHANGED <<running, loadVars, tray, queue, worldVars, historyVars>>

\* scheduler.reload_due(): the time is not modelled.
Due ==
    /\ main = "due"
    /\ \/ BeginLoad(Task("schedule"))
       \/ main' = "tick" /\ UNCHANGED <<task, loadVars, historyVars>>
    /\ UNCHANGED <<running, tray, queue, client, worldVars>>

\* tick_background has nothing to poll.
Tick ==
    /\ main = "tick"
    /\ main' = "recv"
    /\ UNCHANGED <<task, running, loadVars, tray, queue, client, worldVars, historyVars>>

\* run_daemon has returned: the tray threads are joined, then the HTTP server is
\* dropped with the requests in its queue, and the process ends.
Join ==
    /\ main = "leaving"
    /\ \A t \in Trays : tray[t] # "loop"
    /\ main' = "stopped"
    /\ queue' = <<>>
    /\ client' = [c \in Clients |-> IF client[c] = "waiting" THEN "error" ELSE client[c]]
    /\ UNCHANGED <<task, running, loadVars, tray, worldVars, historyVars>>

MainStep ==
    \/ LoadDir \/ LoadCoreConfig \/ Begin
    \/ Leave \/ Idle \/ Serve \/ RunEnds \/ Due \/ Tick \/ Join

-----------------------------------------------------------------------------
(***************************************************************************)
(* The tray threads.                                                       *)
(***************************************************************************)

TrayEnds(t) ==
    /\ tray[t] = "loop"
    /\ tray' = [tray EXCEPT ![t] = "gone"]
    /\ UNCHANGED <<main, task, running, loadVars, queue, client, worldVars, historyVars>>

\* The tray's loop, had it ended with the main thread and not with the flag.
TrayStops_AfterMain(t) == main = "stopped" /\ TrayEnds(t)

\* The tray's loop sees the flag.
TrayStops(t) == ~running /\ TrayEnds(t)

\* Its thread cannot set up its window.
TrayFails(t) == "tray" \in Faults /\ TrayEnds(t)

\* Ctrl-C, or Exit in the menu of a tray.
Exit ==
    /\ running
    /\ main # "stopped"
    /\ running' = FALSE
    /\ UNCHANGED <<main, task, loadVars, tray, queue, client, worldVars, historyVars>>

-----------------------------------------------------------------------------
(***************************************************************************)
(* The clients, the people and the settings UI.                            *)
(***************************************************************************)

\* send_request: the port is open before the load and until the end.
Send(c) ==
    /\ main # "stopped"
    /\ client[c] # "waiting"
    /\ Len(queue) < MaxQueue
    /\ \E kind \in Requests : queue' = Append(queue, [kind |-> kind, from |-> c])
    /\ client' = [client EXCEPT ![c] = "waiting"]
    /\ unseen' = [unseen EXCEPT ![c] = {}]
    /\ UNCHANGED <<main, task, running, loadVars, tray, worldVars, since, stale>>

Disown(r, c) == IF r.from = c THEN [r EXCEPT !.from = Nobody] ELSE r

\* send_request times out; the request stays where it is and will be served.
GiveUp(c) ==
    /\ client[c] = "waiting"
    /\ client' = [client EXCEPT ![c] = "idle"]
    /\ task' = Disown(task, c)
    /\ queue' = [i \in DOMAIN queue |-> Disown(queue[i], c)]
    /\ UNCHANGED <<main, running, loadVars, tray, worldVars, historyVars>>

Changed(e) ==
    /\ changes < MaxChanges
    /\ changes' = changes + 1
    /\ since' = since \cup {e}
    /\ stale' = stale \cup {e}
    /\ unseen' = [c \in Clients |-> unseen[c] \cup {e}]
    /\ UNCHANGED <<main, task, running, loadVars, tray, queue, client>>

\* Files of an extension are copied, edited or removed.
ChangeDisk(e) ==
    /\ disk' \in {[disk EXCEPT ![e] = s] : s \in DiskStates \ {disk[e]}}
    /\ Changed(e)
    /\ UNCHANGED disabled

\* The extensions tab of the settings UI.
Toggle(e) ==
    /\ disabled' = IF e \in disabled THEN disabled \ {e} ELSE disabled \cup {e}
    /\ Changed(e)
    /\ UNCHANGED disk

-----------------------------------------------------------------------------

Next ==
    \/ MainStep
    \/ \E t \in Trays : TrayStops(t) \/ TrayFails(t)
    \/ Exit
    \/ \E c \in Clients : Send(c) \/ GiveUp(c)
    \/ \E e \in Extensions : ChangeDisk(e) \/ Toggle(e)

Spec == Init /\ [][Next]_vars

\* The threads run on, which takes it for granted that a triggered extension
\* returns: nothing in the daemon stops one that does not.
Fairness == WF_vars(MainStep) /\ \A t \in Trays : WF_vars(TrayStops(t))
FairSpec == Spec /\ Fairness

\* The same where a triggered extension may be one that never returns.
HangSpec ==
    /\ Spec
    /\ WF_vars(MainStep /\ main # "run")
    /\ \A t \in Trays : WF_vars(TrayStops(t))

-----------------------------------------------------------------------------
(***************************************************************************)
(* Properties                                                              *)
(***************************************************************************)

TaskKinds == {"none", "start", "schedule", "trigger", "reload"}

Request == [kind : Requests, from : Clients \cup {Nobody}]

\* The variables hold what the code's variables can hold; in particular the
\* main thread has a task exactly while it loads or runs an extension.
TypeOK ==
    /\ main \in {"load", "begin", "recv", "run", "due", "tick", "leaving", "stopped"}
    /\ task \in [kind : TaskKinds, from : Clients \cup {Nobody}]
    /\ task.kind # "none" <=> main \in {"load", "run"}
    /\ running \in BOOLEAN
    /\ registry \subseteq Extensions
    /\ todo \subseteq Extensions
    /\ found \subseteq Extensions
    /\ tray \in [Trays -> {"none", "loop", "gone"}]
    /\ queue \in Seq(Request) /\ Len(queue) <= MaxQueue
    /\ client \in [Clients -> {"idle", "waiting", "ok", "reloaded", "error"}]
    /\ disk \in [Extensions -> DiskStates]
    /\ disabled \subseteq Extensions
    /\ changes \in 0 .. MaxChanges
    /\ since \subseteq Extensions
    /\ stale \subseteq Extensions
    /\ unseen \in [Clients -> SUBSET Extensions]

\* The daemon knows of every extension what the disk and the core config say,
\* unless they changed since the latest successful load began: neither the
\* steps of a load nor loads that fail make it wrong (Registry::load_from_dirs,
\* load_runtime_registry, DaemonState::reload).
RegistryTracksDisk ==
    \A e \in Extensions \ stale :
       e \in registry <=> disk[e] = "whole" /\ e \notin disabled

\* A client that is told "reloaded" gets a registry that has every change made
\* before it asked.
ReloadIsFresh ==
    [][\A c \in Clients :
          client[c] = "waiting" /\ client'[c] = "reloaded" => stale' \subseteq unseen[c]]_vars

\* Once the flag is down, by Ctrl-C, a tray or a request, the process ends:
\* main thread and tray threads do not wait for each other.
ShutdownEnds == ~running ~> main = "stopped"

\* A request is answered unless the daemon is on its way out, even if it fails
\* or others keep sending.
RequestsAreAnswered ==
    \A c \in Clients :
       client[c] = "waiting" ~> client[c] # "waiting" \/ main \in {"leaving", "stopped"}

\* "Rust daemon (`copperd run`) - always-on background process.": once it has
\* started, the daemon leaves its loop only when it was told to.
AlwaysOn ==
    [][main \notin {"begin", "leaving"} /\ task.kind # "start" /\ main' = "leaving"
         => ~running]_vars
=============================================================================
