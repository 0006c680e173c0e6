------------------------------ MODULE UiServer ------------------------------
(***************************************************************************)
(* The two settings servers.  The daemon's has one thread and lives as     *)
(* long as the daemon; it looks at extensions and core settings anew for   *)
(* every connection.  The one of "ui open" is a process of its own that    *)
(* looks once, when it starts, and ends with its window, after a time      *)
(* without connections, on "close", and on any error of a connection.      *)
(* Both save the core settings and then change what the system starts at   *)
(* login: two places, not one.                                             *)
(***************************************************************************)
EXTENDS Naturals, FiniteSets

CONSTANTS
    Extensions,
    Foreign,        \* those of another platform: shown, but never run
    Applying,       \* those the host can apply settings for
    Clients,        \* connections
    Requests,       \* what a client may send
    Unset,          \* a key the core settings lack; in an update, its removal
    Keep,           \* an update that does not name the key
    Inherits,       \* accepted sockets are non-blocking, like the listener
    AbsentIsError,  \* removing a registration that is not there is an error
    MaxConnections, MaxInstalls, MaxChanges, MaxFaults  \* bounds of the model

ConstantsAssumption ==
    /\ Foreign \subseteq Extensions /\ Applying \subseteq Extensions
    /\ {Inherits, AbsentIsError} \subseteq BOOLEAN
    /\ MaxConnections \in Nat /\ MaxInstalls \in Nat
    /\ MaxChanges \in Nat /\ MaxFaults \in Nat

Servers == {"daemon", "local"}

VARIABLES
    disk,       \* the installed extensions, and whether all can be read
    core,       \* core settings: disabledExtensions and autoStart
    entry,      \* the system starts Copper at login
    conn,       \* per client: its connection
    server,     \* per server: where its thread is
    left        \* what the bounds leave

vars == <<disk, core, entry, conn, server, left>>

Operations == {"page", "descriptor", "core", "coreInfo", "close",
               "apply", "info", "config", "trigger"}
Page == [op |-> "page", post |-> FALSE, ext |-> Unset, token |-> FALSE,
         origin |-> "none", body |-> "none", cut |-> "none",
         autoStart |-> Keep, disabled |-> Keep]
Bad == [Page EXCEPT !.op = "bad"]

\* What a client can send: a prefix of a request counts as a request that is cut.
Request == [op : Operations, post : BOOLEAN, ext : Extensions \cup {Unset}, token : BOOLEAN,
            origin : {"none", "own", "other"}, body : {"none", "object", "other"},
            cut : {"none", "line", "headers", "body"},
            autoStart : BOOLEAN \cup {Unset, Keep}, disabled : (SUBSET Extensions) \cup {Keep}]

RequestsAssumption == Requests \subseteq Request

NoConnection == [at |-> "daemon", state |-> "none", sent |-> FALSE,
                 gone |-> FALSE, request |-> Page]

\* known, all: the extensions in the state of the server, enabled or not.
\* since: what was so at some moment since the connection was accepted;
\* before: autoStart before the save; clean: nobody else has touched
\* settings or registration since.  No step looks at these three.
Idle(known, all) ==
    [pc |-> "idle", client |-> Unset, known |-> known, all |-> all,
     request |-> Page, code |-> 0, wanted |-> Unset,
     since |-> {}, before |-> Unset, clean |-> TRUE]

\* What is so of each extension: that its folder is there, that it is enabled.
Facts == {"installed", "enabled"} \X Extensions
Now == {fact \in Facts : IF fact[1] = "installed" THEN fact[2] \in disk.installed
                         ELSE fact[2] \notin core.disabled}

Init ==
    /\ disk = [installed |-> Extensions, readable |-> TRUE]
    /\ core = [disabled |-> {}, autoStart |-> Unset]
    /\ entry = FALSE
    /\ conn = [c \in Clients |-> NoConnection]
    /\ server = [s \in Servers |-> Idle(disk.installed, disk.installed)]
    /\ left = [connections |-> MaxConnections, installs |-> MaxInstalls,
               changes |-> MaxChanges, faults |-> MaxFaults]

Free(c) == conn[c].state \in {"none", "answered", "dropped"}

Spend(bound) ==
    /\ left[bound] > 0
    /\ left' = [left EXCEPT ![bound] = @ - 1]

\* What else changes settings, registration or extensions.
Crossed(servers, s) == [u \in Servers |->
    IF u = s THEN servers[u]
    ELSE [servers[u] EXCEPT !.clean = FALSE]]
Seeing(servers, facts) == [u \in Servers |->
    [servers[u] EXCEPT !.since = @ \cup facts]]
-----------------------------------------------------------------------------
(* The clients: the page, and whoever else knows the port.                 *)

Connect(c, s) ==
    /\ Free(c) /\ server[s].pc # "ended" /\ Spend("connections")
    /\ conn' = [conn EXCEPT ![c] = [NoConnection EXCEPT !.at = s, !.state = "waiting"]]
    /\ UNCHANGED <<disk, core, entry, server>>

\* A request whose connection ends in its middle is sent and gone.
Send(c) ==
    /\ conn[c].state \in {"waiting", "served"} /\ ~conn[c].sent /\ ~conn[c].gone
    /\ \E r \in Requests :
          conn' = [conn EXCEPT ![c].sent = TRUE, ![c].request = r,
                               ![c].gone = (r.cut # "none")]
    /\ UNCHANGED <<disk, core, entry, server, left>>

Leave(c) ==
    /\ conn[c].state \in {"waiting", "served"} /\ ~conn[c].gone
    /\ conn' = [conn EXCEPT ![c].gone = TRUE]
    /\ UNCHANGED <<disk, core, entry, server, left>>
-----------------------------------------------------------------------------
(* accept and parse_request.                                               *)

At(s, pc) == [server EXCEPT ![s].pc = pc]
Client(s) == server[s].client
Asked(s) == server[s].request

\* An error of a connection: the daemon logs it, the other server ends and
\* with it everything that waits for it.
Dropped(s, ends) == [c \in Clients |->
    IF /\ conn[c].at = s
       /\ (conn[c].state = "served" \/ (ends /\ conn[c].state = "waiting"))
    THEN [NoConnection EXCEPT !.state = "dropped"] ELSE conn[c]]

Over(s, pc) ==
    [server EXCEPT ![s] = [Idle(@.known, @.all) EXCEPT !.pc = pc]]

Fail_EndsBoth(s) ==
    /\ server' = Over(s, "ended")
    /\ conn' = Dropped(s, TRUE)
Fail(s) ==
    /\ server' = Over(s, IF s = "local" THEN "ended" ELSE "idle")
    /\ conn' = Dropped(s, s = "local")

\* The daemon builds its state for the connection it has accepted: it reads
\* the folders first and the settings after them.  The other server has built
\* its state when it started.
Serving(s, c) ==
    IF s = "daemon"
    THEN [Idle({}, disk.installed) EXCEPT !.pc = "state", !.client = c, !.since = Now]
    ELSE [server[s] EXCEPT !.pc = "parse", !.client = c, !.since = Now]

\* An extension that cannot be read costs the connection.
Accept_WhenReadable(s) ==
    /\ server[s].pc = "idle" /\ (s = "daemon" => disk.readable)
    /\ \E c \in Clients :
        /\ conn[c].at = s /\ conn[c].state = "waiting"
        /\ conn' = [conn EXCEPT ![c].state = "served"]
        /\ server' = [server EXCEPT ![s] = Serving(s, c)]
    /\ UNCHANGED <<disk, core, entry, left>>
Accept(s) ==
    /\ server[s].pc = "idle"
    /\ \E c \in Clients :
        /\ conn[c].at = s /\ conn[c].state = "waiting"
        /\ IF s = "daemon" /\ ~disk.readable
           THEN /\ conn' = [conn EXCEPT ![c] = [NoConnection EXCEPT !.state = "dropped"]]
                /\ UNCHANGED server
           ELSE /\ conn' = [conn EXCEPT ![c].state = "served"]
                /\ server' = [server EXCEPT ![s] = Serving(s, c)]
    /\ UNCHANGED <<disk, core, entry, left>>

\* Without the settings, or without the folder of the store, no state.
BuildState(s) ==
    /\ server[s].pc = "state"
    /\ \/ /\ server' = [At(s, "parse") EXCEPT ![s].known = server[s].all \ core.disabled]
          /\ UNCHANGED <<conn, left>>
       \/ Spend("faults") /\ Fail(s)
    /\ UNCHANGED <<disk, core, entry>>

\* What becomes of a request that ends early.  In the first line it has lost
\* everything but a prefix of its path; in the headers it counts as whole,
\* with the headers that came and no body; in the body, however its length
\* was to be found, it is an error.
Seen(request) ==
    CASE request.cut = "line" -> {Bad, Page, [request EXCEPT !.token = FALSE, !.body = "none"]}
      [] request.cut = "headers" ->
            {[request EXCEPT !.token = t, !.origin = o, !.body = "none"] :
                t \in {FALSE, request.token}, o \in {"none", request.origin}}
      [] request.cut = "body" -> {Bad}
      [] OTHER -> {request}

\* There is no time limit: the thread waits for the client.  Where accepted
\* sockets do not block, what has not come yet is an error instead.
Parse(s) ==
    /\ server[s].pc = "parse"
    /\ \E request \in
            (IF conn[Client(s)].sent THEN Seen(conn[Client(s)].request)
             ELSE IF conn[Client(s)].gone THEN {Bad} ELSE {})
            \cup (IF Inherits THEN {Bad} ELSE {}) :
          server' = [At(s, "route") EXCEPT ![s].request = request]
    /\ UNCHANGED <<disk, core, entry, conn, left>>
-----------------------------------------------------------------------------
(* handle_connection.                                                      *)

Answer(s, code) ==
    /\ server' = [At(s, "respond") EXCEPT ![s].code = code]
    /\ UNCHANGED conn

Authorized(r) ==
    \/ r.op = "page" /\ ~r.post
    \/ r.token /\ (r.post => r.origin # "other")

\* What is answered without a look at anything that changes.
Denied(s) ==
    /\ Asked(s).op # "bad" /\ ~Authorized(Asked(s)) /\ Answer(s, 403)

\* A path that does not take the method, or that names an extension the
\* server does not know; settings are looked up for all extensions.
Missing(s) ==
    LET r == Asked(s)
        wrongMethod == (r.post /\ r.op \in {"page", "descriptor", "coreInfo"})
                       \/ (~r.post /\ r.op \in {"close", "apply", "trigger"})
        unknown == \/ r.op \in {"apply", "config", "trigger"} /\ r.ext \notin server[s].known
                   \/ r.op = "info" /\ r.ext \notin server[s].all
    IN  wrongMethod \/ unknown

\* A file that cannot be read or written is an error of the connection.
Touches(r) ==
    \/ r.op \in {"coreInfo", "info"}
    \/ r.op \in {"core", "config"} /\ (~r.post \/ r.body = "object")
    \/ r.op = "trigger" /\ r.body = "none"

FileFails(s) == Touches(Asked(s)) /\ Spend("faults") /\ Fail(s)

Show(s) ==
    /\ \/ Asked(s).op \in {"page", "descriptor", "coreInfo", "info"}
       \/ Asked(s).op \in {"core", "config"} /\ ~Asked(s).post
    /\ Answer(s, 200)

SaveConfig(s) ==
    /\ Asked(s).op = "config" /\ Asked(s).post
    /\ Answer(s, IF Asked(s).body = "object" THEN 200 ELSE 400)

Close(s) == Asked(s).op = "close" /\ Answer(s, IF s = "local" THEN 204 ELSE 400)

\* applyActions are carried out one after the other: see WindowsDisplay.
BeginApply(s) ==
    /\ Asked(s).op = "apply"
    /\ IF Asked(s).ext \in Applying
       THEN server' = At(s, "apply") /\ UNCHANGED conn ELSE Answer(s, 400)

\* A body that is no object is answered for settings, but for a trigger it
\* is an error of the connection.
BeginTrigger(s) ==
    /\ Asked(s).op = "trigger"
    /\ IF Asked(s).body = "other" THEN Fail(s)
       ELSE server' = At(s, "registry") /\ UNCHANGED conn

\* The core settings are merged and saved first.
SaveCore(s) ==
    LET r == Asked(s)
        Or(update, old) == IF update = Keep THEN old ELSE update
    IN  /\ server[s].pc = "route" /\ Authorized(r) /\ r.op = "core" /\ r.post
        /\ UNCHANGED <<disk, entry, left>>
        /\ IF r.body # "object" THEN Answer(s, 400) /\ UNCHANGED core
           ELSE /\ core' = [autoStart |-> Or(r.autoStart, core.autoStart),
                            disabled |-> Or(r.disabled, core.disabled)]
                /\ server' = [Seeing(Crossed(At(s, "sync"), s), Now') EXCEPT
                                ![s].wanted = core'.autoStart, ![s].clean = TRUE,
                                ![s].before = core.autoStart]
                /\ UNCHANGED conn

Handle(s) ==
    /\ \/ Show(s) \/ SaveConfig(s) \/ Close(s)
       \/ BeginApply(s) \/ BeginTrigger(s)
    /\ UNCHANGED left

Route(s) ==
    /\ server[s].pc = "route"
    /\ \/ Asked(s).op = "bad" /\ Answer(s, 400) /\ UNCHANGED left
       \/ Denied(s) /\ UNCHANGED left
       \/ /\ Asked(s).op # "bad" /\ Authorized(Asked(s))
          /\ IF Missing(s) THEN Answer(s, 404) /\ UNCHANGED left
             ELSE Handle(s) \/ FileFails(s)
    /\ UNCHANGED <<disk, core, entry>>

\* sync_from_core_config, with the settings as they were saved.  What can
\* fail is told to the client, and the settings stay saved.
Desired_OfBody(s) == Asked(s).autoStart = TRUE
Desired(s) == server[s].wanted = TRUE

Sync(s) ==
    /\ server[s].pc = "sync"
    /\ LET refused == ~Desired(s) /\ ~entry /\ AbsentIsError
           done == [At(s, "respond") EXCEPT ![s].code = IF refused THEN 400 ELSE 200]
       IN  \/ /\ entry' = Desired(s) /\ server' = Crossed(done, s)
              /\ UNCHANGED left
           \/ /\ Spend("faults") /\ UNCHANGED entry
              /\ server' = [done EXCEPT ![s].code = 400]
    /\ UNCHANGED <<disk, core, conn>>

ApplyEnds(s) ==
    /\ server[s].pc = "apply"
    /\ \/ Answer(s, 200) /\ UNCHANGED left
       \/ Answer(s, 400) /\ Spend("faults")
    /\ UNCHANGED <<disk, core, entry>>

\* handle_trigger_extension loads the registry of this moment, an extension
\* that the state of the server shows need not be in it: the folders first,
\* the settings after them.  What is not found is answered like what is not
\* to be run, after the settings are read; nothing tells the two apart.
LoadRegistry_Known(s) ==
    /\ server[s].pc = "registry"
    /\ IF disk.readable /\ Asked(s).ext \in server[s].known
       THEN server' = At(s, "filter") /\ UNCHANGED conn
       ELSE Answer(s, 400)
    /\ UNCHANGED <<disk, core, entry, left>>
LoadRegistry(s) ==
    /\ server[s].pc = "registry"
    /\ IF disk.readable /\ Asked(s).ext \in disk.installed
       THEN server' = At(s, "filter") /\ UNCHANGED conn
       ELSE Answer(s, 400)
    /\ UNCHANGED <<disk, core, entry, left>>

\* Settings that cannot be read are told to the client.
FilterRegistry(s) ==
    /\ server[s].pc = "filter"
    /\ \/ /\ Asked(s).ext \notin core.disabled \cup Foreign
          /\ server' = At(s, "run") /\ UNCHANGED <<conn, left>>
       \/ Asked(s).ext \in core.disabled \cup Foreign /\ Answer(s, 400) /\ UNCHANGED left
       \/ Spend("faults") /\ Answer(s, 400)
    /\ UNCHANGED <<disk, core, entry>>

\* execute_trigger; the thread waits for the extension.
RunEnds(s) ==
    /\ server[s].pc = "run"
    /\ \E code \in {200, 400} : Answer(s, code)
    /\ UNCHANGED <<disk, core, entry, left>>

\* write_response: that the client is gone may be noticed or not.
Respond(s) ==
    /\ server[s].pc = "respond"
    /\ \/ /\ conn' = [Dropped(s, server[s].code = 204) EXCEPT ![Client(s)].state = "answered"]
          /\ server' = Over(s, IF server[s].code = 204 THEN "ended" ELSE "idle")
       \/ /\ conn[Client(s)].gone /\ Fail(s)
    /\ UNCHANGED <<disk, core, entry, left>>
-----------------------------------------------------------------------------
(* The end of the other server, and what else happens to the state.        *)

\* Nobody has connected for five minutes, or the window is closed: the
\* process ends, wherever the thread of the server is.
LocalEnds ==
    /\ server["local"].pc # "ended"
    /\ server["local"].pc # "idle" => Spend("faults")
    /\ server["local"].pc = "idle" => UNCHANGED left
    /\ server' = Over("local", "ended")
    /\ conn' = Dropped("local", TRUE)
    /\ UNCHANGED <<disk, core, entry>>

\* The installer with -AutoStart and -NoAutoStart writes the same entry.
Install(registered) ==
    /\ Spend("installs")
    /\ entry' = registered
    /\ server' = Crossed(server, "installer")
    /\ UNCHANGED <<disk, core, conn>>

\* A person copies or removes an extension; half a copy cannot be read.
ChangeDisk ==
    /\ Spend("changes") /\ UNCHANGED <<core, entry, conn>>
    /\ \/ \E e \in Extensions :
            /\ disk' = [disk EXCEPT !.installed = (@ \ {e}) \cup ({e} \ @)]
       \/ disk' = [disk EXCEPT !.readable = ~@]
    /\ server' = Seeing(server, Now')

ServerStep(s) ==
    \/ Accept(s) \/ BuildState(s) \/ Parse(s) \/ Route(s) \/ SaveCore(s) \/ Sync(s)
    \/ ApplyEnds(s) \/ LoadRegistry(s) \/ FilterRegistry(s) \/ RunEnds(s) \/ Respond(s)

Next ==
    \/ \E c \in Clients, s \in Servers : Connect(c, s)
    \/ \E c \in Clients : Send(c) \/ Leave(c)
    \/ \E s \in Servers : ServerStep(s)
    \/ LocalEnds \/ ChangeDisk
    \/ \E registered \in BOOLEAN : Install(registered)

Spec == Init /\ [][Next]_vars

\* The thread runs, and what it calls returns.
ServerFairness == WF_vars(ServerStep("daemon"))
\* A client sends what it has to say, or goes away.
ClientFairness == \A c \in Clients : WF_vars(Send(c) \/ Leave(c))

FairServerSpec == Spec /\ ServerFairness
FairSpec == Spec /\ ServerFairness /\ ClientFairness
-----------------------------------------------------------------------------
TypeOK ==
    /\ disk.installed \subseteq Extensions /\ disk.readable \in BOOLEAN
    /\ core.disabled \subseteq Extensions /\ core.autoStart \in BOOLEAN \cup {Unset}
    /\ entry \in BOOLEAN
    /\ \A c \in Clients :
        /\ conn[c].state \in {"none", "waiting", "served", "answered", "dropped"}
        /\ conn[c].state = "served" => Client(conn[c].at) = c
    /\ \A s \in Servers :
        /\ server[s].pc \in {"idle", "state", "parse", "route", "sync", "apply",
                             "registry", "filter", "run", "respond", "ended"}
        /\ server[s].pc \notin {"idle", "ended"} => conn[Client(s)].state = "served"
        /\ s = "daemon" => server[s].pc # "ended"
    /\ \A bound \in DOMAIN left : left[bound] \in Nat

\* The page of a server may be old, and folders and settings are read one
\* after the other, but an extension runs only if it is for this platform, was
\* installed at some moment since the request was accepted, and was enabled
\* at some moment since then.
TriggerRunsEnabled ==
    \A s \in Servers : server[s].pc = "run" =>
        /\ Asked(s).ext \notin Foreign
        /\ {"installed", "enabled"} \X {Asked(s).ext} \subseteq server[s].since

\* A trigger whose body ends early does not run: it would run with the
\* saved settings instead of the inputs that were meant.
NoRunFromHalfABody ==
    \A s \in Servers :
        (server[s].pc = "run" /\ conn[Client(s)].sent) => conn[Client(s)].request.cut # "body"

\* When the core settings are answered with success and nobody else has
\* saved them or installed Copper meanwhile, the system starts Copper at
\* login exactly if the saved settings, not only the request, say so.
OkMeansApplied ==
    \A s \in Servers :
        (/\ server[s].pc = "respond" /\ server[s].code = 200 /\ server[s].clean
         /\ Asked(s).op = "core" /\ Asked(s).post)
        => entry = (core.autoStart = TRUE)

\* Whoever connects to the daemon's server gets an answer or sees the
\* connection end, also when requests are malformed, cut short or abandoned,
\* when files cannot be read and while extensions are being copied.
RequestsAnswered ==
    \A c \in Clients :
        (conn[c].at = "daemon" /\ conn[c].state = "waiting")
            ~> conn[c].state \in {"answered", "dropped"}

\* The document on the settings page: "Daemon-hosted config UI is always on
\* while daemon runs".  A request that was sent is answered or refused.
UiAlwaysOn ==
    \A c \in Clients :
        (conn[c].at = "daemon" /\ conn[c].state = "waiting" /\ conn[c].sent)
            ~> conn[c].state \in {"answered", "dropped"}

\* The same document: "Launch Copper at login, which applies user-level
\* autostart registration when saved".  When all saves are done, settings
\* and registration agree.
AutostartFollowsSetting ==
    (\A s \in Servers : server[s].pc \in {"idle", "ended"})
        => entry = (core.autoStart = TRUE)

\* The README on the installer: "`-AutoStart` registers the launcher for the
\* next login. `-NoAutoStart` removes that registration."  A save that
\* leaves the setting as it was leaves the registration alone.
RegistrationStays ==
    [][\A s \in Servers :
        (/\ server[s].pc = "sync" /\ server'[s].pc = "respond"
         /\ server[s].before = server[s].wanted)
        => entry' = entry]_vars
=============================================================================
