------------------------------ MODULE Settings ------------------------------
(***************************************************************************)
(* The settings: the two servers and their clients (UiServer), and the     *)
(* process of "ui open" (UiOpen).  The two share no variable, so that one  *)
(* of them moves at a time; the servers' parts differ in their constants   *)
(* only and use the same variables.                                        *)
(*   saves     pages that save core settings, and an installer;            *)
(*   runs      triggers of an extension that is removed, disabled or       *)
(*             copied meanwhile; accepted sockets may be non-blocking, as  *)
(*             they are on some systems;                                   *)
(*   live      requests that go wrong, and clients that leave;             *)
(*   opens     the ways to open the settings.                              *)
(***************************************************************************)
EXTENDS Naturals

CONSTANTS
    Unset, Keep,                                                    \* marks, see UiServer
    Extensions, Foreign, Applying, Clients, AbsentIsError,
    SaveRequests, RunRequests, LiveRequests,                        \* requests of each part
    MaxConnections, MaxInstalls, MaxChanges, MaxFaults,
    Modes, MaxPages                                                 \* UiOpen

VARIABLES
    part,
    disk, core, entry, conn, server, left,
    mode, main, loop, port, window, pending, connections, told

serverVars == <<disk, core, entry, conn, server, left>>
openVars == <<mode, main, loop, port, window, pending, connections, told>>
vars == <<part, serverVars, openVars>>

Saves == INSTANCE UiServer WITH
    Requests <- SaveRequests, Inherits <- FALSE, MaxChanges <- 0
Runs == INSTANCE UiServer WITH
    Requests <- RunRequests, Inherits <- TRUE, MaxInstalls <- 0, MaxFaults <- 0
Live == INSTANCE UiServer WITH
    Requests <- LiveRequests, Inherits <- FALSE, MaxInstalls <- 0

Opens == INSTANCE UiOpen WITH
    MaxConnections <- MaxPages, server <- loop, left <- connections

ASSUME SettingsAssumption ==
    /\ Saves!ConstantsAssumption /\ Saves!RequestsAssumption
    /\ Runs!ConstantsAssumption /\ Runs!RequestsAssumption
    /\ Live!ConstantsAssumption /\ Live!RequestsAssumption
    /\ Opens!UiOpenAssumption
-----------------------------------------------------------------------------
\* A part that does not move is in one of its initial states.
Init ==
    /\ part \in {"saves", "runs", "live", "opens"}
    /\ CASE part = "saves" -> Saves!Init
         [] part = "runs" -> Runs!Init
         [] OTHER -> Live!Init
    /\ Opens!Init
    /\ part # "opens" => mode = CHOOSE m \in Modes : TRUE

Next ==
    \/ part = "saves" /\ Saves!Next /\ UNCHANGED <<part, openVars>>
    \/ part = "runs" /\ Runs!Next /\ UNCHANGED <<part, openVars>>
    \/ part = "live" /\ Live!Next /\ UNCHANGED <<part, openVars>>
    \/ part = "opens" /\ Opens!Next /\ UNCHANGED <<part, serverVars>>

Spec == Init /\ [][Next]_vars

\* The fairness of UiServer and UiOpen.
FairSpec ==
    /\ Spec
    /\ WF_serverVars(part = "live" /\ Live!ServerStep("daemon"))
    /\ \A c \in Clients : WF_serverVars(part = "live" /\ (Live!Send(c) \/ Live!Leave(c)))
    /\ WF_openVars(part = "opens" /\ Opens!Main)
    /\ WF_openVars(part = "opens" /\ Opens!Serve)
    /\ WF_openVars(part = "opens" /\ Opens!TimeOut)
-----------------------------------------------------------------------------
\* A server that is busy serves one connection, and connections wait only at
\* an open port.
TypeOK ==
    CASE part = "saves" -> Saves!TypeOK
      [] part = "runs" -> Runs!TypeOK
      [] part = "live" -> Live!TypeOK
      [] part = "opens" -> Opens!TypeOK

\* Core settings that are answered with success are those the login follows,
\* unless somebody else has saved or installed meanwhile.
OkMeansApplied ==
    /\ part = "saves" => Saves!OkMeansApplied
    /\ part = "runs" => Runs!OkMeansApplied

\* An extension runs only if it is for this platform, was installed at some
\* moment since its request was accepted and enabled at some moment since then,
\* and never for a request whose body ended early.
TriggerRunsEnabled ==
    part = "runs" => Runs!TriggerRunsEnabled /\ Runs!NoRunFromHalfABody

\* Whoever connects to the daemon's server gets an answer or sees the connection
\* end, whatever is wrong with the requests, the files and the extensions; so
\* does a connection to the port of "ui open", whose process ends by itself when
\* it has no window.
EverybodyIsAnswered ==
    /\ part = "live" => Live!RequestsAnswered
    /\ part = "opens" => Opens!ConnectionsEnd /\ Opens!ServerEnds
=============================================================================
