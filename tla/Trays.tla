------------------------------- MODULE Trays -------------------------------
(***************************************************************************)
(* The tray icons on Windows, from their start by run_daemon to the end of *)
(* the process: the main icon (tray.rs) and one for every extension whose  *)
(* manifest declares a tray (tray_extension.rs).                           *)
(*                                                                         *)
(* Every icon has a thread with a message loop, and ends with the flag     *)
(* `running`.  A window procedure finds the state of its icon through a    *)
(* static pointer: one for the main icon, one for all the others.  When    *)
(* run_daemon returns, with an error too, it drops the controllers, which  *)
(* join the threads.                                                       *)
(*                                                                         *)
(* What an action of the display icons does to the display and the files   *)
(* is module WindowsDisplay; here an action is the use of a state.         *)
(***************************************************************************)
CONSTANTS
    MainTray,       \* the icon of Copper
    Specs,          \* extensions whose manifest has a tray
    Null,
    Faults          \* what may fail

TraysAssumption ==
    /\ MainTray \notin Specs /\ Null \notin Specs \cup {MainTray}
    /\ Faults \subseteq {"spawn", "provider", "window", "icon", "loop"}

Icons == Specs \cup {MainTray}

VARIABLES
    main,       \* where run_daemon is
    todo,       \* specs that have not been started
    running,    \* the flag all threads share
    asked,      \* a shutdown request is in the queue of the control plane
    thread,     \* what the thread of each icon does
    pointer,    \* WINDOWS_TRAY_STATE and WINDOWS_DISPLAY_STATE
    open,       \* the state an icon has begun to act on, or opened its menu with
    used        \* history: the latest use of a state by an icon, whether it was still
                \* there, and whether UsesAreSafe has it that it was

vars == <<main, todo, running, asked, thread, pointer, open, used>>

\* Each module has a static of its own, for all the icons it shows.
Static(t) == IF t = MainTray THEN "main" ELSE "display"

Alive(t) == thread[t] \in {"setup", "icon", "loop", "act", "menu"}

\* Every display icon that has been in its static pointer is there, or has taken
\* it out.
Orderly == \A s \in Specs : thread[s] # "failed"

Init ==
    /\ main = "start"
    /\ todo = Specs
    /\ running = TRUE
    /\ asked = FALSE
    /\ thread = [t \in Icons |-> "none"]
    /\ pointer = [x \in {"main", "display"} |-> Null]
    /\ open = [t \in Icons |-> Null]
    /\ used = [icon |-> Null, state |-> Null, alive |-> TRUE, sure |-> TRUE]
-----------------------------------------------------------------------------
(* run_daemon.                                                             *)

Spawn(t, next) ==
    \/ thread' = [thread EXCEPT ![t] = "setup"] /\ main' = next
    \/ "spawn" \in Faults /\ main' = "leaving" /\ UNCHANGED thread

StartMainTray ==
    /\ main = "start"
    /\ Spawn(MainTray, "specs")
    /\ UNCHANGED <<todo, running, asked, pointer, open, used>>

\* A provider that is not "windows-display" is an error, after the specs before
\* it have started.
StartSpec(s) ==
    /\ main = "specs" /\ s \in todo
    /\ todo' = todo \ {s}
    /\ \/ Spawn(s, "specs")
       \/ "provider" \in Faults /\ main' = "leaving" /\ UNCHANGED thread
    /\ UNCHANGED <<running, asked, pointer, open, used>>

\* The hotkey thread is started too, and nobody joins it.
BeginLoop ==
    /\ main = "specs" /\ todo = {}
    /\ main' \in {"loop"} \cup (IF "spawn" \in Faults THEN {"leaving"} ELSE {})
    /\ UNCHANGED <<todo, running, asked, thread, pointer, open, used>>

\* `copperd daemon shutdown`: the port is open from the start to the end.
Ask ==
    /\ main # "ended" /\ ~asked
    /\ asked' = TRUE
    /\ UNCHANGED <<main, todo, running, thread, pointer, open, used>>

ServeShutdown ==
    /\ main = "loop" /\ running /\ asked
    /\ running' = FALSE
    /\ UNCHANGED <<main, todo, asked, thread, pointer, open, used>>

\* The flag is down, or an error leaves the loop.
Leave ==
    /\ main = "loop"
    /\ ~running \/ "loop" \in Faults
    /\ main' = "leaving"
    /\ UNCHANGED <<todo, running, asked, thread, pointer, open, used>>

\* The controllers are dropped and join the threads that were started.
Join ==
    /\ main = "leaving"
    /\ \A t \in Icons : ~Alive(t)
    /\ main' = "ended"
    /\ UNCHANGED <<todo, running, asked, thread, pointer, open, used>>
-----------------------------------------------------------------------------
(* The thread of an icon.                                                  *)

\* The window is made; then the state is where the window procedure looks.
Setup(t) ==
    /\ thread[t] = "setup"
    /\ \/ /\ thread' = [thread EXCEPT ![t] = "icon"]
          /\ pointer' = [pointer EXCEPT ![Static(t)] = t]
       \/ /\ "window" \in Faults
          /\ thread' = [thread EXCEPT ![t] = "gone"]
          /\ UNCHANGED pointer
    /\ UNCHANGED <<main, todo, running, asked, open, used>>

\* The thread that cannot add its icon returns and leaves the pointer.
AddIcon(t) ==
    /\ thread[t] = "icon"
    /\ \E next \in {"loop"} \cup (IF "icon" \in Faults THEN {"failed"} ELSE {}) :
          thread' = [thread EXCEPT ![t] = next]
    /\ UNCHANGED <<main, todo, running, asked, pointer, open, used>>

Use(t, s, sure) == used' = [icon |-> t, state |-> s, alive |-> Alive(s), sure |-> sure]

\* An icon finds a state and goes on with it.
Take(t, place) ==
    /\ thread[t] = "loop" /\ pointer[Static(t)] # Null
    /\ thread' = [thread EXCEPT ![t] = place]
    /\ open' = [open EXCEPT ![t] = pointer[Static(t)]]
    /\ UNCHANGED <<main, todo, running, asked, pointer>>

\* The window procedure returns, had it kept its state.
GiveBack_KeepsState(t, place) ==
    /\ thread[t] = place
    /\ thread' = [thread EXCEPT ![t] = "loop"]
    /\ UNCHANGED <<main, todo, asked, pointer, open>>
GiveBack(t, place) ==
    /\ thread[t] = place
    /\ thread' = [thread EXCEPT ![t] = "loop"]
    /\ open' = [open EXCEPT ![t] = Null]
    /\ UNCHANGED <<main, todo, asked, pointer>>

\* Left click: the UI is opened, or the taskbar toggled.  A display icon also
\* refreshes its status every 250 ms.
BeginAct(t) == Take(t, "act") /\ Use(t, pointer[Static(t)], Orderly)

\* What has been begun takes seconds, and its result goes into the same state.
EndAct(t) == GiveBack(t, "act") /\ Use(t, open[t], Orderly /\ running) /\ UNCHANGED running

\* Right click: TrackPopupMenu returns when the menu is closed.
OpenMenu(t) == Take(t, "menu") /\ UNCHANGED used

Dismiss(t) == GiveBack(t, "menu") /\ UNCHANGED <<running, used>>

\* The flag is in the state, too.
ChooseExit(t) == GiveBack(t, "menu") /\ Use(t, open[t], Orderly /\ running) /\ running' = FALSE

Choose(t) ==
    /\ thread[t] = "menu"
    /\ thread' = [thread EXCEPT ![t] = "act"]
    /\ Use(t, open[t], Orderly /\ running)
    /\ UNCHANGED <<main, todo, running, asked, pointer, open>>

\* WM_CLOSE of a hidden window, which the loop of a menu dispatches too.
CloseWindow(t) ==
    /\ thread[t] \in {"loop", "menu"} /\ pointer[Static(t)] # Null
    /\ running' = FALSE
    /\ Use(t, pointer[Static(t)], Orderly)
    /\ UNCHANGED <<main, todo, asked, thread, pointer, open>>

\* The end of an icon, had it left its state where the others look.
EndLoop_KeepsPointer(t) ==
    /\ thread[t] = "loop" /\ ~running
    /\ thread' = [thread EXCEPT ![t] = "gone"]
    /\ UNCHANGED <<main, todo, running, asked, pointer, open, used>>

\* The loop sees the flag between two turns, never within an action or a menu.
EndLoop(t) ==
    /\ thread[t] = "loop" /\ ~running
    /\ thread' = [thread EXCEPT ![t] = "gone"]
    /\ pointer' = [pointer EXCEPT ![Static(t)] = Null]
    /\ UNCHANGED <<main, todo, running, asked, open, used>>

\* Ctrl-C.
Interrupt ==
    /\ running /\ main # "ended"
    /\ running' = FALSE
    /\ UNCHANGED <<main, todo, asked, thread, pointer, open, used>>
-----------------------------------------------------------------------------
MainStep ==
    \/ StartMainTray \/ BeginLoop \/ ServeShutdown \/ Leave \/ Join
    \/ \E s \in Specs : StartSpec(s)

TrayStep(t) == Setup(t) \/ AddIcon(t) \/ EndLoop(t)

Next ==
    \/ MainStep
    \/ \E t \in Icons :
        \/ TrayStep(t) \/ BeginAct(t) \/ EndAct(t)
        \/ OpenMenu(t) \/ Dismiss(t) \/ Choose(t) \/ ChooseExit(t) \/ CloseWindow(t)
    \/ Ask \/ Interrupt

Spec == Init /\ [][Next]_vars

\* All threads run on, and what an icon has begun comes to an end.  A menu does
\* not stay open for ever: it closes when the user turns to something else.
\* Between two of them the loop looks at the flag, however many there are.
FairSpec ==
    /\ Spec
    /\ WF_vars(MainStep)
    /\ \A t \in Icons :
        /\ WF_vars(Setup(t)) /\ WF_vars(AddIcon(t))
        /\ SF_vars(EndLoop(t)) /\ WF_vars(EndAct(t)) /\ WF_vars(Dismiss(t))
-----------------------------------------------------------------------------
TypeOK ==
    /\ main \in {"start", "specs", "loop", "leaving", "ended"}
    /\ todo \subseteq Specs
    /\ running \in BOOLEAN /\ asked \in BOOLEAN
    /\ thread \in [Icons -> {"none", "setup", "icon", "loop", "act", "menu", "gone", "failed"}]
    /\ pointer \in [{"main", "display"} -> Icons \cup {Null}]
    /\ \A t \in Icons : (thread[t] \in {"act", "menu"}) <=> (open[t] # Null)
    /\ used \in [icon : Icons \cup {Null}, state : Icons \cup {Null},
                alive : BOOLEAN, sure : BOOLEAN]

\* However many extensions share the one static pointer, and in whatever order
\* their threads come and go: the main icon acts on its own state, which is still
\* there; a display icon never acts on the main icon's, and the state it acts on,
\* its own or another's, is still there, unless the thread of a display icon
\* returned with an error before, or the flag went down since the icon found it.
UsesAreSafe ==
    /\ used.icon = MainTray => used.state = MainTray /\ used.alive
    /\ used.icon \in Specs => used.state \in Specs /\ (used.sure => used.alive)

\* docs/ARCHITECTURE.md: "extensions can declare dedicated tray icons", so that
\* an icon acts on its own state.
OwnState == used.state = used.icon

\* Once the flag is down the process ends, wherever the start, the threads
\* and their menus are.
StopEnds == ~running ~> main = "ended"

\* The help of the command line: "Ask daemon to exit gracefully".
AskedEnds == asked ~> main = "ended"
=============================================================================
