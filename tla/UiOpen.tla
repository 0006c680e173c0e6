------------------------------- MODULE UiOpen -------------------------------
(***************************************************************************)
(* The command "ui open" (cli.rs, open_extension_config): a process that   *)
(* opens a port, shows its address in a window or a browser, serves the    *)
(* connections one after the other, and ends with the window, on "close",  *)
(* or after some time without a connection.  What a connection does is in  *)
(* module UiServer; this one is about the life of the process.             *)
(*                                                                         *)
(* External: the window, the browser, and the backlog of the port, which   *)
(* holds connections from the moment the port is open.                     *)
(***************************************************************************)
EXTENDS Naturals

CONSTANTS
    Modes,            \* some of "window", "browser", "headless"
    MaxConnections    \* bound on the connections

UiOpenAssumption ==
    Modes \subseteq {"window", "browser", "headless"} /\ MaxConnections \in Nat

VARIABLES
    mode,
    main,      \* what the main thread does
    server,    \* what the loop of serve_ui_listener does, in whichever thread
    port,      \* the listener
    window,    \* the window or the page in the browser
    pending,   \* connections in the backlog
    left,      \* connections the bound leaves
    told       \* the address has been printed

vars == <<mode, main, server, port, window, pending, left, told>>

Over == {"ended", "failed"}
-----------------------------------------------------------------------------
Init ==
    /\ mode \in Modes
    /\ main = "bind" /\ server = "none" /\ port = "none" /\ window = "none"
    /\ pending = 0 /\ left = MaxConnections /\ told = FALSE

\* The end of the process takes everything with it, wherever the server is.
Exit(how) ==
    /\ main' = how /\ port' = "closed" /\ pending' = 0
    /\ server' = IF server = "none" THEN "none" ELSE "over"
    /\ window' = IF window = "open" /\ mode = "window" THEN "closed" ELSE window
    /\ UNCHANGED <<mode, left, told>>

\* The listener is bound, and the extensions and settings are read.
Bind ==
    /\ main = "bind"
    /\ \/ /\ main' = "launch" /\ port' = "open"
          /\ UNCHANGED <<mode, server, window, pending, left, told>>
       \/ Exit("failed")

\* In a browser the page is opened before the server is started, a window
\* after; a failure ends the process either way.
OpenBrowser ==
    /\ main = "launch" /\ mode = "browser"
    /\ \/ /\ main' = "serve" /\ server' = "idle" /\ window' = "open"
          /\ UNCHANGED <<mode, port, pending, left, told>>
       \/ Exit("failed")

SpawnServer ==
    /\ main = "launch" /\ mode = "window"
    /\ main' = "window" /\ server' = "idle"
    /\ UNCHANGED <<mode, port, window, pending, left, told>>

OpenWindow ==
    /\ main = "window" /\ window = "none"
    /\ \/ window' = "open" /\ UNCHANGED <<mode, main, server, port, pending, left, told>>
       \/ Exit("failed")

Headless ==
    /\ main = "launch" /\ mode = "headless"
    /\ main' = "serve" /\ server' = "idle"
    /\ UNCHANGED <<mode, port, window, pending, left, told>>

\* The user closes the window; the main thread has waited for that.
CloseWindow ==
    /\ window = "open" /\ window' = "closed"
    /\ main' = IF main = "window" THEN "print" ELSE main
    /\ UNCHANGED <<mode, server, port, pending, left, told>>

\* cmd_ui
Tell ==
    /\ main = "print" /\ ~told /\ told' = TRUE
    /\ UNCHANGED <<mode, main, server, port, window, pending, left>>
End == main = "print" /\ told /\ Exit("ended")
-----------------------------------------------------------------------------
(* serve_ui_listener.                                                      *)

Accept ==
    /\ server = "idle" /\ pending > 0
    /\ pending' = pending - 1 /\ server' = "busy"
    /\ UNCHANGED <<mode, main, port, window, left, told>>

\* The loop is left: the listener is dropped, and with it what waits there.
\* Without a window the main thread goes on from here.
Stop(ok) ==
    /\ server' = "over" /\ port' = "closed" /\ pending' = 0
    /\ main' = IF main # "serve" THEN main ELSE IF ok THEN "print" ELSE "failed"
    /\ UNCHANGED <<mode, window, left, told>>

\* The connection is answered; "close" and errors end the server.
Handle ==
    /\ server = "busy"
    /\ \/ server' = "idle" /\ UNCHANGED <<mode, main, port, window, pending, left, told>>
       \/ \E ok \in BOOLEAN : Stop(ok)

\* The time without a connection is over, looked at before each accept.
TimeOut == server = "idle" /\ main \notin Over /\ Stop(TRUE)

Connect ==
    /\ port = "open" /\ left > 0
    /\ pending' = pending + 1 /\ left' = left - 1
    /\ UNCHANGED <<mode, main, server, port, window, told>>
-----------------------------------------------------------------------------
Main == Bind \/ OpenBrowser \/ SpawnServer \/ OpenWindow \/ Headless \/ Tell \/ End
Serve == Accept \/ Handle

Next == Main \/ Serve \/ TimeOut \/ Connect \/ CloseWindow
Spec == Init /\ [][Next]_vars

\* Threads go on, connections are handled to their end (see UiServer for those
\* that send nothing), and time passes; nobody has to close a window.
FairSpec == Spec /\ WF_vars(Main) /\ WF_vars(Serve) /\ WF_vars(TimeOut)
-----------------------------------------------------------------------------
\* Types, and connections wait only at an open port.
TypeOK ==
    /\ main \in {"bind", "launch", "serve", "window", "print"} \cup Over
    /\ server \in {"none", "idle", "busy", "over"}
    /\ pending \in 0 .. MaxConnections /\ left \in 0 .. MaxConnections
    /\ port \in {"none", "open", "closed"} /\ window \in {"none", "open", "closed"}
    /\ pending > 0 => port = "open"

\* A connection to the port is served or ends with the port, also one that
\* was made before the server was started, or that waits while it ends.
ConnectionsEnd == pending > 0 ~> pending = 0

\* Without a window the process ends by itself, whatever pages are left open.
ServerEnds == main = "serve" ~> main \in Over

\* cli.rs: "Config UI available at", with the address, when it is available.
ToldWhileServed == [][ told' /\ ~told => port = "open" ]_vars
=============================================================================
