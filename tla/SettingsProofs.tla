--------------------------- MODULE SettingsProofs ---------------------------
(***************************************************************************)
(* Proofs about Settings.  The servers' parts differ in what clients send  *)
(* and in what a socket does; their steps are among those of one server    *)
(* whose sockets do not block and whose clients send anything.             *)
(***************************************************************************)
EXTENDS Settings, TLAPS

\* Sends, with any request.
Sends(c) ==
    /\ conn[c].state \in {"waiting", "served"} /\ ~conn[c].sent /\ ~conn[c].gone
    /\ \E r \in Runs!Request :
          conn' = [conn EXCEPT ![c].sent = TRUE, ![c].request = r,
                               ![c].gone = (r.cut # "none")]
    /\ UNCHANGED <<disk, core, entry, server, left>>

ServersStep ==
    \/ \E c \in Clients, s \in Runs!Servers : Runs!Connect(c, s)
    \/ \E c \in Clients : Sends(c) \/ Runs!Leave(c)
    \/ \E s \in Runs!Servers : Runs!ServerStep(s)
    \/ Runs!LocalEnds \/ Runs!ChangeDisk
    \/ \E registered \in BOOLEAN : Runs!Install(registered)

\* Clients of the part runs.
LEMMA RunsStep == Runs!Next => ServersStep
  BY SettingsAssumption DEF Runs!Next, ServersStep, Runs!Send, Sends, Runs!RequestsAssumption

\* Clients of the part saves.
LEMMA SavesStep == Saves!Next => ServersStep
  <1> SUFFICES ASSUME Saves!Next
               PROVE  ServersStep
    OBVIOUS
  <1>1. Saves!Servers = Runs!Servers
    BY DEF Saves!Servers, Runs!Servers
  <1>2. ASSUME NEW c \in Clients, Saves!Send(c) \/ Saves!Leave(c)
        PROVE  Sends(c) \/ Runs!Leave(c)
    BY <1>2, SettingsAssumption DEF Saves!Send, Saves!Leave, Runs!Leave, Sends,
       Saves!RequestsAssumption, Saves!Request, Runs!Request, Saves!Operations,
       Runs!Operations
  <1>3. ASSUME NEW c \in Clients, NEW s \in Runs!Servers, Saves!Connect(c, s)
        PROVE  Runs!Connect(c, s)
      BY <1>3 DEF Saves!Connect, Runs!Connect, Saves!Free, Runs!Free, Saves!Spend,
         Runs!Spend, Saves!NoConnection, Runs!NoConnection, Saves!Page, Runs!Page
  <1>4. ASSUME NEW s \in Runs!Servers, Saves!ServerStep(s)
        PROVE  Runs!ServerStep(s)
    <2>1. Saves!Accept(s) => Runs!Accept(s)
      BY DEF Saves!Accept, Runs!Accept, Saves!Servers, Runs!Servers, Saves!Page, Runs!Page,
         Saves!NoConnection, Runs!NoConnection, Saves!Idle, Runs!Idle, Saves!Serving,
         Runs!Serving, Saves!Now, Runs!Now, Saves!Facts, Runs!Facts
    <2>2. Saves!Parse(s) => Runs!Parse(s)
      <3>1. /\ Saves!Client(s) = Runs!Client(s) /\ Saves!At(s, "route") = Runs!At(s, "route")
            /\ Saves!Seen(conn[Saves!Client(s)].request) = Runs!Seen(conn[Saves!Client(s)].request)
            /\ Saves!Bad = Runs!Bad
        BY DEF Saves!At, Runs!At, Saves!Client, Runs!Client, Saves!Seen, Runs!Seen,
           Saves!Bad, Runs!Bad,
           Saves!Page, Runs!Page
      <3> SUFFICES ASSUME Saves!Parse(s)
                   PROVE  Runs!Parse(s)
        OBVIOUS
      <3>2. PICK request :
                /\ \/ conn[Saves!Client(s)].sent /\ request \in Saves!Seen(conn[Saves!Client(s)].request)
                   \/ ~conn[Saves!Client(s)].sent /\ conn[Saves!Client(s)].gone /\ request = Saves!Bad
                /\ server' = [Saves!At(s, "route") EXCEPT ![s].request = request]
        BY DEF Saves!Parse
      <3>3. \/ conn[Runs!Client(s)].sent /\ request \in Runs!Seen(conn[Runs!Client(s)].request)
            \/ ~conn[Runs!Client(s)].sent /\ conn[Runs!Client(s)].gone /\ request = Runs!Bad
        BY <3>1, <3>2
      <3>4. server' = [Runs!At(s, "route") EXCEPT ![s].request = request]
        BY <3>1, <3>2
      <3> QED
        BY <3>3, <3>4 DEF Saves!Parse, Runs!Parse
    <2>3. Saves!Route(s) => Runs!Route(s)
      BY DEF Saves!Route, Runs!Route, Saves!Asked, Runs!Asked, Saves!Answer,
         Runs!Answer, Saves!At, Runs!At, Saves!Denied, Runs!Denied, Saves!Authorized,
         Runs!Authorized, Saves!Missing, Runs!Missing, Saves!Handle, Runs!Handle,
         Saves!Show, Runs!Show, Saves!SaveConfig, Runs!SaveConfig, Saves!Close,
         Runs!Close, Saves!BeginApply, Runs!BeginApply, Saves!BeginTrigger,
         Runs!BeginTrigger, Saves!Fail, Runs!Fail, Saves!Over, Runs!Over, Saves!Idle,
         Runs!Idle, Saves!Dropped, Runs!Dropped, Saves!NoConnection, Runs!NoConnection,
         Saves!Page, Runs!Page, Saves!FileFails, Runs!FileFails, Saves!Touches,
         Runs!Touches, Saves!Spend, Runs!Spend
    <2>4. Saves!SaveCore(s) => Runs!SaveCore(s)
      BY DEF Saves!SaveCore, Runs!SaveCore, Saves!Asked, Runs!Asked, Saves!Authorized,
         Runs!Authorized, Saves!Answer, Runs!Answer, Saves!At, Runs!At, Saves!Seeing,
         Runs!Seeing, Saves!Crossed, Runs!Crossed, Saves!Servers, Runs!Servers,
         Saves!Now, Runs!Now, Saves!Facts,
         Runs!Facts
    <2>5. Saves!Sync(s) => Runs!Sync(s)
      BY DEF Saves!Sync, Runs!Sync, Saves!Desired, Runs!Desired, Saves!At, Runs!At,
         Saves!Crossed, Runs!Crossed, Saves!Servers, Runs!Servers, Saves!Spend,
         Runs!Spend
    <2>6. Saves!ApplyEnds(s) => Runs!ApplyEnds(s)
      BY DEF Saves!ApplyEnds, Runs!ApplyEnds, Saves!Answer, Runs!Answer, Saves!At,
         Runs!At, Saves!Spend, Runs!Spend
    <2>7. Saves!LoadRegistry(s) => Runs!LoadRegistry(s)
      BY DEF Saves!LoadRegistry, Runs!LoadRegistry, Saves!Asked, Runs!Asked, Saves!At, Runs!At,
         Saves!Answer, Runs!Answer
    <2>8. Saves!RunEnds(s) => Runs!RunEnds(s)
      BY DEF Saves!RunEnds, Runs!RunEnds, Saves!Answer, Runs!Answer, Saves!At, Runs!At
    <2>9. Saves!Respond(s) => Runs!Respond(s)
      BY DEF Saves!Respond, Runs!Respond, Saves!Dropped, Runs!Dropped, Saves!Client,
         Runs!Client, Saves!Over, Runs!Over, Saves!Idle, Runs!Idle, Saves!Page,
         Runs!Page, Saves!NoConnection, Runs!NoConnection, Saves!Fail, Runs!Fail
    <2>10. Saves!BuildState(s) => Runs!BuildState(s)
      BY DEF Saves!BuildState, Runs!BuildState, Saves!At, Runs!At, Saves!Spend, Runs!Spend,
         Saves!Fail, Runs!Fail, Saves!Over, Runs!Over, Saves!Idle, Runs!Idle, Saves!Dropped,
         Runs!Dropped, Saves!NoConnection, Runs!NoConnection, Saves!Page, Runs!Page
    <2>11. Saves!FilterRegistry(s) => Runs!FilterRegistry(s)
      BY DEF Saves!FilterRegistry, Runs!FilterRegistry, Saves!Asked, Runs!Asked, Saves!At,
         Runs!At, Saves!Answer, Runs!Answer, Saves!Spend, Runs!Spend
    <2> QED
      BY <1>4, <2>1, <2>2, <2>3, <2>4, <2>5, <2>6, <2>7, <2>8, <2>9, <2>10, <2>11
         DEF Saves!ServerStep, Runs!ServerStep
  <1>5. Saves!LocalEnds => Runs!LocalEnds
      BY DEF Saves!LocalEnds, Runs!LocalEnds, Saves!Spend, Runs!Spend, Saves!Over,
         Runs!Over, Saves!Idle, Runs!Idle, Saves!Page, Runs!Page, Saves!Dropped,
         Runs!Dropped, Saves!NoConnection, Runs!NoConnection
  <1>6. Saves!ChangeDisk => Runs!ChangeDisk
      BY DEF Saves!ChangeDisk, Runs!ChangeDisk, Saves!Spend, Runs!Spend, Saves!Seeing,
         Runs!Seeing, Saves!Servers, Runs!Servers, Saves!Now, Runs!Now, Saves!Facts,
         Runs!Facts
  <1>7. ASSUME NEW b, Saves!Install(b)
        PROVE  Runs!Install(b)
      BY <1>7 DEF Saves!Install, Runs!Install, Saves!Spend, Runs!Spend, Saves!Crossed,
         Runs!Crossed, Saves!Servers, Runs!Servers
  <1> QED
    BY <1>1, <1>2, <1>3, <1>4, <1>5, <1>6, <1>7 DEF Saves!Next, ServersStep

\* Clients of the part live.
LEMMA LiveStep == Live!Next => ServersStep
  <1> SUFFICES ASSUME Live!Next
               PROVE  ServersStep
    OBVIOUS
  <1>1. Live!Servers = Runs!Servers
    BY DEF Live!Servers, Runs!Servers
  <1>2. ASSUME NEW c \in Clients, Live!Send(c) \/ Live!Leave(c)
        PROVE  Sends(c) \/ Runs!Leave(c)
    BY <1>2, SettingsAssumption DEF Live!Send, Live!Leave, Runs!Leave, Sends,
       Live!RequestsAssumption, Live!Request, Runs!Request, Live!Operations,
       Runs!Operations
  <1>3. ASSUME NEW c \in Clients, NEW s \in Runs!Servers, Live!Connect(c, s)
        PROVE  Runs!Connect(c, s)
      BY <1>3 DEF Live!Connect, Runs!Connect, Live!Free, Runs!Free, Live!Spend, Runs!Spend,
         Live!NoConnection, Runs!NoConnection, Live!Page, Runs!Page
  <1>4. ASSUME NEW s \in Runs!Servers, Live!ServerStep(s)
        PROVE  Runs!ServerStep(s)
    <2>1. Live!Accept(s) => Runs!Accept(s)
      BY DEF Live!Accept, Runs!Accept, Live!Servers, Runs!Servers, Live!Page, Runs!Page,
         Live!NoConnection, Runs!NoConnection, Live!Idle, Runs!Idle, Live!Serving,
         Runs!Serving, Live!Now, Runs!Now, Live!Facts, Runs!Facts
    <2>2. Live!Parse(s) => Runs!Parse(s)
      <3>1. /\ Live!Client(s) = Runs!Client(s) /\ Live!At(s, "route") = Runs!At(s, "route")
            /\ Live!Seen(conn[Live!Client(s)].request) = Runs!Seen(conn[Live!Client(s)].request)
            /\ Live!Bad = Runs!Bad
        BY DEF Live!At, Runs!At, Live!Client, Runs!Client, Live!Seen, Runs!Seen,
           Live!Bad, Runs!Bad,
           Live!Page, Runs!Page
      <3> SUFFICES ASSUME Live!Parse(s)
                   PROVE  Runs!Parse(s)
        OBVIOUS
      <3>2. PICK request :
                /\ \/ conn[Live!Client(s)].sent /\ request \in Live!Seen(conn[Live!Client(s)].request)
                   \/ ~conn[Live!Client(s)].sent /\ conn[Live!Client(s)].gone /\ request = Live!Bad
                /\ server' = [Live!At(s, "route") EXCEPT ![s].request = request]
        BY DEF Live!Parse
      <3>3. \/ conn[Runs!Client(s)].sent /\ request \in Runs!Seen(conn[Runs!Client(s)].request)
            \/ ~conn[Runs!Client(s)].sent /\ conn[Runs!Client(s)].gone /\ request = Runs!Bad
        BY <3>1, <3>2
      <3>4. server' = [Runs!At(s, "route") EXCEPT ![s].request = request]
        BY <3>1, <3>2
      <3> QED
        BY <3>3, <3>4 DEF Live!Parse, Runs!Parse
    <2>3. Live!Route(s) => Runs!Route(s)
      BY DEF Live!Route, Runs!Route, Live!Asked, Runs!Asked, Live!Answer, Runs!Answer,
         Live!At, Runs!At, Live!Denied, Runs!Denied, Live!Authorized, Runs!Authorized,
         Live!Missing, Runs!Missing, Live!Handle, Runs!Handle, Live!Show, Runs!Show,
         Live!SaveConfig, Runs!SaveConfig, Live!Close, Runs!Close, Live!BeginApply,
         Runs!BeginApply, Live!BeginTrigger, Runs!BeginTrigger, Live!Fail, Runs!Fail,
         Live!Over, Runs!Over, Live!Idle, Runs!Idle, Live!Dropped, Runs!Dropped,
         Live!NoConnection, Runs!NoConnection, Live!Page, Runs!Page, Live!FileFails,
         Runs!FileFails, Live!Touches, Runs!Touches, Live!Spend, Runs!Spend
    <2>4. Live!SaveCore(s) => Runs!SaveCore(s)
      BY DEF Live!SaveCore, Runs!SaveCore, Live!Asked, Runs!Asked, Live!Authorized,
         Runs!Authorized, Live!Answer, Runs!Answer, Live!At, Runs!At, Live!Seeing,
         Runs!Seeing, Live!Crossed, Runs!Crossed, Live!Servers, Runs!Servers,
         Live!Now, Runs!Now, Live!Facts,
         Runs!Facts
    <2>5. Live!Sync(s) => Runs!Sync(s)
      BY DEF Live!Sync, Runs!Sync, Live!Desired, Runs!Desired, Live!At, Runs!At,
         Live!Crossed, Runs!Crossed, Live!Servers, Runs!Servers, Live!Spend, Runs!Spend
    <2>6. Live!ApplyEnds(s) => Runs!ApplyEnds(s)
      BY DEF Live!ApplyEnds, Runs!ApplyEnds, Live!Answer, Runs!Answer, Live!At, Runs!At,
         Live!Spend, Runs!Spend
    <2>7. Live!LoadRegistry(s) => Runs!LoadRegistry(s)
      BY DEF Live!LoadRegistry, Runs!LoadRegistry, Live!Asked, Runs!Asked, Live!At, Runs!At,
         Live!Answer, Runs!Answer
    <2>8. Live!RunEnds(s) => Runs!RunEnds(s)
      BY DEF Live!RunEnds, Runs!RunEnds, Live!Answer, Runs!Answer, Live!At, Runs!At
    <2>9. Live!Respond(s) => Runs!Respond(s)
      BY DEF Live!Respond, Runs!Respond, Live!Dropped, Runs!Dropped, Live!Client,
         Runs!Client, Live!Over, Runs!Over, Live!Idle, Runs!Idle, Live!Page, Runs!Page,
         Live!NoConnection, Runs!NoConnection, Live!Fail, Runs!Fail
    <2>10. Live!BuildState(s) => Runs!BuildState(s)
      BY DEF Live!BuildState, Runs!BuildState, Live!At, Runs!At, Live!Spend, Runs!Spend,
         Live!Fail, Runs!Fail, Live!Over, Runs!Over, Live!Idle, Runs!Idle, Live!Dropped,
         Runs!Dropped, Live!NoConnection, Runs!NoConnection, Live!Page, Runs!Page
    <2>11. Live!FilterRegistry(s) => Runs!FilterRegistry(s)
      BY DEF Live!FilterRegistry, Runs!FilterRegistry, Live!Asked, Runs!Asked, Live!At,
         Runs!At, Live!Answer, Runs!Answer, Live!Spend, Runs!Spend
    <2> QED
      BY <1>4, <2>1, <2>2, <2>3, <2>4, <2>5, <2>6, <2>7, <2>8, <2>9, <2>10, <2>11
         DEF Live!ServerStep, Runs!ServerStep
  <1>5. Live!LocalEnds => Runs!LocalEnds
      BY DEF Live!LocalEnds, Runs!LocalEnds, Live!Spend, Runs!Spend, Live!Over,
         Runs!Over, Live!Idle, Runs!Idle, Live!Page, Runs!Page, Live!Dropped,
         Runs!Dropped, Live!NoConnection, Runs!NoConnection
  <1>6. Live!ChangeDisk => Runs!ChangeDisk
      BY DEF Live!ChangeDisk, Runs!ChangeDisk, Live!Spend, Runs!Spend, Live!Seeing,
         Runs!Seeing, Live!Servers, Runs!Servers, Live!Now, Runs!Now, Live!Facts,
         Runs!Facts
  <1>7. ASSUME NEW b, Live!Install(b)
        PROVE  Runs!Install(b)
      BY <1>7 DEF Live!Install, Runs!Install, Live!Spend, Runs!Spend, Live!Crossed,
         Runs!Crossed, Live!Servers, Runs!Servers
  <1> QED
    BY <1>1, <1>2, <1>3, <1>4, <1>5, <1>6, <1>7 DEF Live!Next, ServersStep
-----------------------------------------------------------------------------
(* The values of the servers' variables.                                   *)

Threads == {"idle", "state", "parse", "route", "sync", "apply", "registry", "filter", "run",
            "respond", "ended"}
Connection == [at : Runs!Servers, state : {"none", "waiting", "served", "answered", "dropped"},
               sent : BOOLEAN, gone : BOOLEAN, request : Runs!Request]
Thread == [pc : Threads, client : Clients \cup {Unset},
           known : SUBSET Extensions, all : SUBSET Extensions,
           request : Runs!Request \cup {Runs!Bad}, code : Nat,
           wanted : BOOLEAN \cup {Unset}, since : SUBSET Runs!Facts,
           before : BOOLEAN \cup {Unset}, clean : BOOLEAN]
Core == [disabled : SUBSET Extensions, autoStart : BOOLEAN \cup {Unset}]
Disk == [installed : SUBSET Extensions, readable : BOOLEAN]
Bounds == [{"connections", "installs", "changes", "faults"} -> Nat]

Shape ==
    /\ disk \in Disk /\ core \in Core /\ entry \in BOOLEAN
    /\ conn \in [Clients -> Connection]
    /\ server \in [Runs!Servers -> Thread]
    /\ left \in Bounds

\* The records that actions start from.
LEMMA Records ==
    /\ Runs!Page \in Runs!Request
    /\ Runs!NoConnection \in Connection
    /\ \A known, all \in SUBSET Extensions : Runs!Idle(known, all) \in Thread
  <1>1. Runs!Page \in Runs!Request
    BY DEF Runs!Page, Runs!Request, Runs!Operations
  <1>2. Runs!NoConnection \in Connection
    BY <1>1 DEF Runs!NoConnection, Connection, Runs!Servers
  <1>3. ASSUME NEW known \in SUBSET Extensions, NEW all \in SUBSET Extensions
        PROVE  Runs!Idle(known, all) \in Thread
    BY <1>1 DEF Runs!Idle, Thread, Threads
  <1> QED
    BY <1>1, <1>2, <1>3

\* What a server sees of a request is a request or a bad one.
LEMMA SeenIsRequest ==
    ASSUME NEW request \in Runs!Request, NEW seen \in Runs!Seen(request)
    PROVE  /\ seen \in Runs!Request \cup {Runs!Bad}
           /\ request.cut = "body" => seen = Runs!Bad
  <1>1. CASE request.cut = "line"
    <2>1. [request EXCEPT !.token = FALSE, !.body = "none"] \in Runs!Request
      BY DEF Runs!Request
    <2> QED
      BY <1>1, <2>1, Records DEF Runs!Seen
  <1>2. CASE request.cut = "headers"
    <2>1. PICK t \in {FALSE, request.token}, o \in {"none", request.origin} :
              seen = [request EXCEPT !.token = t, !.origin = o, !.body = "none"]
      BY <1>2 DEF Runs!Seen
    <2> QED
      BY <2>1, <1>2 DEF Runs!Request
  <1>3. CASE request.cut = "body"
    BY <1>3 DEF Runs!Seen
  <1>4. CASE request.cut \notin {"line", "headers", "body"}
    BY <1>4 DEF Runs!Seen
  <1> QED
    BY <1>1, <1>2, <1>3, <1>4

\* The bounds are spent one by one.
LEMMA SpendShape ==
    ASSUME Shape, NEW bound \in {"connections", "installs", "changes", "faults"}, Runs!Spend(bound)
    PROVE  left' \in Bounds
  <1>1. left[bound] \in Nat /\ left[bound] > 0
    BY DEF Runs!Spend, Shape, Bounds
  <1>2. left[bound] - 1 \in Nat
    BY <1>1
  <1> QED
    BY <1>2 DEF Runs!Spend, Shape, Bounds

\* Connections after an error.
LEMMA DroppedShape ==
    ASSUME Shape, NEW s, NEW ends
    PROVE  Runs!Dropped(s, ends) \in [Clients -> Connection]
  <1>1. [Runs!NoConnection EXCEPT !.state = "dropped"] \in Connection
    BY Records DEF Connection
  <1> QED
    BY <1>1 DEF Runs!Dropped, Shape

\* Threads after a connection.
LEMMA OverShape ==
    ASSUME Shape, NEW s \in Runs!Servers, NEW pc \in Threads
    PROVE  Runs!Over(s, pc) \in [Runs!Servers -> Thread]
  <1>1. [Runs!Idle(server[s].known, server[s].all) EXCEPT !.pc = pc] \in Thread
    <2>1. server[s] \in Thread
      BY DEF Shape
    <2>2. Runs!Idle(server[s].known, server[s].all) \in Thread
      BY <2>1, Records DEF Thread
    <2> HIDE DEF Runs!Idle
    <2> QED
      BY <2>2 DEF Thread
  <1> QED
    BY <1>1 DEF Runs!Over, Shape

\* A failure leaves the shape.
LEMMA FailShape ==
    ASSUME Shape, NEW s \in Runs!Servers, Runs!Fail(s)
    PROVE  conn' \in [Clients -> Connection] /\ server' \in [Runs!Servers -> Thread]
  BY DroppedShape, OverShape DEF Runs!Fail, Threads

\* An answer leaves the shape.
LEMMA AnswerShape ==
    ASSUME Shape, NEW s \in Runs!Servers, NEW code \in Nat, Runs!Answer(s, code)
    PROVE  conn' \in [Clients -> Connection] /\ server' \in [Runs!Servers -> Thread]
  <1>1. [server[s] EXCEPT !.pc = "respond", !.code = code] \in Thread
    BY DEF Shape, Thread, Threads
  <1>2. server' = [server EXCEPT ![s] = [server[s] EXCEPT !.pc = "respond", !.code = code]]
    BY DEF Runs!Answer, Runs!At, Shape, Thread
  <1> QED
    BY <1>1, <1>2 DEF Runs!Answer, Shape

\* A step of a thread to another place leaves the shape.
LEMMA AtShape ==
    ASSUME Shape, NEW s \in Runs!Servers, NEW pc \in Threads
    PROVE  Runs!At(s, pc) \in [Runs!Servers -> Thread]
  <1>1. [server[s] EXCEPT !.pc = pc] \in Thread
    BY DEF Shape, Thread
  <1> QED
    BY <1>1 DEF Runs!At, Shape

\* Others see what crosses them.
LEMMA CrossedShape ==
    ASSUME NEW threads \in [Runs!Servers -> Thread], NEW s
    PROVE  Runs!Crossed(threads, s) \in [Runs!Servers -> Thread]
  <1>1. \A u \in Runs!Servers : [threads[u] EXCEPT !.clean = FALSE] \in Thread
    BY DEF Thread
  <1> QED
    BY <1>1 DEF Runs!Crossed

\* What can be run is added to what threads have seen.
LEMMA SeeingShape ==
    ASSUME NEW threads \in [Runs!Servers -> Thread], NEW facts \in SUBSET Runs!Facts
    PROVE  Runs!Seeing(threads, facts) \in [Runs!Servers -> Thread]
  <1>1. \A u \in Runs!Servers : [threads[u] EXCEPT !.since = @ \cup facts] \in Thread
    BY DEF Thread
  <1> QED
    BY <1>1 DEF Runs!Seeing

\* What is so is a fact.
LEMMA NowFacts == Runs!Now \in SUBSET Runs!Facts /\ Runs!Now' \in SUBSET Runs!Facts
  BY DEF Runs!Now

\* A server that has accepted.
LEMMA ServingThread ==
    ASSUME Shape, NEW s \in Runs!Servers, NEW c \in Clients
    PROVE  /\ Runs!Serving(s, c) \in Thread
           /\ Runs!Serving(s, c).pc = IF s = "daemon" THEN "state" ELSE "parse"
           /\ Runs!Serving(s, c).client = c /\ Runs!Serving(s, c).since = Runs!Now
           /\ Runs!Serving(s, c).code = IF s = "daemon" THEN 0 ELSE server[s].code
  <1> DEFINE thread == IF s = "daemon" THEN Runs!Idle({}, disk.installed) ELSE server[s]
             pc == IF s = "daemon" THEN "state" ELSE "parse"
  <1>1. thread \in Thread /\ thread.code = IF s = "daemon" THEN 0 ELSE server[s].code
    <2>1. Runs!Idle({}, disk.installed) \in Thread /\ Runs!Idle({}, disk.installed).code = 0
      BY Records DEF Shape, Disk, Runs!Idle
    <2> QED
      BY <2>1 DEF Shape
  <1>2. Runs!Serving(s, c) = [thread EXCEPT !.pc = pc, !.client = c, !.since = Runs!Now]
    BY DEF Runs!Serving
  <1>3. pc \in Threads /\ Runs!Now \in SUBSET Runs!Facts
    BY NowFacts DEF Threads
  <1> HIDE DEF thread, pc
  <1>4. [thread EXCEPT !.pc = pc, !.client = c, !.since = Runs!Now] \in Thread
    BY <1>1, <1>3 DEF Thread
  <1> QED
    BY <1>1, <1>2, <1>4 DEF Thread, pc

\* A server that is busy and a connection that is served belong together.
Busy ==
    /\ \A c \in Clients : conn[c].state = "served" =>
          server[conn[c].at].pc \notin {"idle", "ended"} /\ server[conn[c].at].client = c
    /\ \A s \in Runs!Servers : server[s].pc \notin {"idle", "ended"} =>
          /\ server[s].client \in Clients
          /\ conn[server[s].client].state = "served" /\ conn[server[s].client].at = s
    /\ server["daemon"].pc # "ended" /\ server["daemon"].code # 204

\* handle_connection answers, fails, or goes on to apply settings or to a trigger.
LEMMA RouteMoves ==
    ASSUME NEW s \in Runs!Servers, Runs!Route(s)
    PROVE  \/ \E code \in {200, 204, 400, 403, 404} :
                 /\ Runs!Answer(s, code) /\ UNCHANGED left
                 /\ code = 204 => s = "local"
                 /\ (code = 200 /\ server[s].request.op = "core") => ~server[s].request.post
           \/ Runs!Fail(s) /\ (UNCHANGED left \/ Runs!Spend("faults"))
           \/ /\ server[s].request.op = "apply" /\ server' = Runs!At(s, "apply")
              /\ UNCHANGED <<conn, left>>
           \/ /\ server[s].request.op = "trigger" /\ server' = Runs!At(s, "registry")
              /\ UNCHANGED <<conn, left>>
  BY DEF Runs!Route, Runs!Asked, Runs!Denied, Runs!Missing, Runs!Handle, Runs!Show,
         Runs!SaveConfig, Runs!Close, Runs!BeginApply, Runs!BeginTrigger, Runs!FileFails

\* No step gives a variable another shape.
LEMMA ShapeStep ==
    ASSUME Shape, Busy, ServersStep
    PROVE  Shape'
  <1> USE DEF Runs!Client, Runs!Asked
  <1>1. ASSUME NEW c \in Clients, NEW s \in Runs!Servers, Runs!Connect(c, s)
        PROVE  Shape'
    <2>1. [Runs!NoConnection EXCEPT !.at = s, !.state = "waiting"] \in Connection
      BY Records DEF Connection
    <2>2. left' \in Bounds
      BY <1>1, SpendShape DEF Runs!Connect
    <2> QED
      BY <1>1, <2>1, <2>2 DEF Runs!Connect, Shape
  <1>2. ASSUME NEW c \in Clients, Sends(c)
        PROVE  Shape'
    <2>1. PICK r \in Runs!Request :
              conn' = [conn EXCEPT ![c].sent = TRUE, ![c].request = r, ![c].gone = (r.cut # "none")]
      BY <1>2 DEF Sends
    <2>2. [conn[c] EXCEPT !.sent = TRUE, !.request = r, !.gone = (r.cut # "none")] \in Connection
      BY DEF Shape, Connection
    <2>3. conn' = [conn EXCEPT ![c] = [conn[c] EXCEPT !.sent = TRUE, !.request = r, !.gone = (r.cut # "none")]]
      BY <2>1 DEF Shape, Connection
    <2> QED
      BY <1>2, <2>2, <2>3 DEF Sends, Shape
  <1>3. ASSUME NEW c \in Clients, Runs!Leave(c)
        PROVE  Shape'
    BY <1>3 DEF Runs!Leave, Shape, Connection
  <1>4. ASSUME NEW s \in Runs!Servers, Runs!Accept(s)
        PROVE  Shape'
    <2>1. PICK c \in Clients :
              \/ /\ conn' = [conn EXCEPT ![c] = [Runs!NoConnection EXCEPT !.state = "dropped"]]
                 /\ UNCHANGED server
              \/ /\ conn' = [conn EXCEPT ![c].state = "served"]
                 /\ server' = [server EXCEPT ![s] = Runs!Serving(s, c)]
      BY <1>4 DEF Runs!Accept
    <2>2. /\ [Runs!NoConnection EXCEPT !.state = "dropped"] \in Connection
          /\ [conn[c] EXCEPT !.state = "served"] \in Connection
      BY Records DEF Shape, Connection
    <2>3. conn' \in [Clients -> Connection]
      BY <2>1, <2>2 DEF Shape
    <2>4. server' \in [Runs!Servers -> Thread]
      BY <2>1, ServingThread DEF Shape
    <2> QED
      BY <1>4, <2>3, <2>4 DEF Runs!Accept, Shape
  <1>5. ASSUME NEW s \in Runs!Servers, Runs!Parse(s)
        PROVE  Shape'
    <2>1. PICK request :
              /\ \/ conn[Runs!Client(s)].sent /\ request \in Runs!Seen(conn[Runs!Client(s)].request)
                 \/ request = Runs!Bad
              /\ server' = [Runs!At(s, "route") EXCEPT ![s].request = request]
      BY <1>5 DEF Runs!Parse
    <2>2. conn[Runs!Client(s)].request \in Runs!Request
      BY <1>5 DEF Runs!Parse, Busy, Shape, Connection
    <2>3. request \in Runs!Request \cup {Runs!Bad}
      BY <2>1, <2>2, SeenIsRequest
    <2>4. Runs!At(s, "route") \in [Runs!Servers -> Thread]
      BY AtShape DEF Threads
    <2>5. server' \in [Runs!Servers -> Thread]
      BY <2>1, <2>3, <2>4 DEF Thread
    <2> QED
      BY <1>5, <2>5 DEF Runs!Parse, Shape
  <1>6. ASSUME NEW s \in Runs!Servers, Runs!Route(s)
        PROVE  Shape'
    <2>1. CASE \E code \in {200, 204, 400, 403, 404} : Runs!Answer(s, code) /\ UNCHANGED left
      BY <1>6, <2>1, AnswerShape DEF Runs!Route, Shape
    <2>2. CASE Runs!Fail(s) /\ (UNCHANGED left \/ Runs!Spend("faults"))
      BY <1>6, <2>2, FailShape, SpendShape DEF Runs!Route, Shape
    <2>3. CASE \E pc \in {"apply", "registry"} : server' = Runs!At(s, pc) /\ UNCHANGED <<conn, left>>
      BY <1>6, <2>3, AtShape DEF Runs!Route, Shape, Threads
    <2> QED
      BY <1>6, <2>1, <2>2, <2>3, RouteMoves
  <1>7. ASSUME NEW s \in Runs!Servers, Runs!SaveCore(s)
        PROVE  Shape'
    <2>1. CASE server[s].request.body # "object"
      BY <1>7, <2>1, AnswerShape DEF Runs!SaveCore, Shape
    <2>2. CASE server[s].request.body = "object"
      <3>1. server[s].request \in Runs!Request
        BY <2>2 DEF Shape, Thread, Runs!Bad, Runs!Page
      <3>2. core' \in Core
        BY <1>7, <2>2, <3>1 DEF Runs!SaveCore, Shape, Core, Runs!Request
      <3>3. Runs!Crossed(Runs!At(s, "sync"), s) \in [Runs!Servers -> Thread]
        BY AtShape, CrossedShape DEF Threads
      <3>4. Runs!Now' \in SUBSET Runs!Facts
        BY NowFacts
      <3>5. PICK threads \in [Runs!Servers -> Thread] :
                threads = Runs!Seeing(Runs!Crossed(Runs!At(s, "sync"), s), Runs!Now')
        BY <3>3, <3>4, SeeingShape
      <3>6. server' = [threads EXCEPT ![s].wanted = core'.autoStart, ![s].clean = TRUE,
                                      ![s].before = core.autoStart]
        BY <1>7, <2>2, <3>5 DEF Runs!SaveCore
      <3>7. server' \in [Runs!Servers -> Thread]
        <4>1. core'.autoStart \in BOOLEAN \cup {Unset} /\ core.autoStart \in BOOLEAN \cup {Unset}
          BY <3>2 DEF Shape, Core
        <4>2. ASSUME NEW w \in BOOLEAN \cup {Unset}, NEW b \in BOOLEAN \cup {Unset}
              PROVE  [threads EXCEPT ![s].wanted = w, ![s].clean = TRUE, ![s].before = b]
                        \in [Runs!Servers -> Thread]
          <5>1. [threads[s] EXCEPT !.wanted = w, !.clean = TRUE, !.before = b] \in Thread
            BY DEF Thread
          <5>2. [threads EXCEPT ![s] = [threads[s] EXCEPT !.wanted = w, !.clean = TRUE, !.before = b]]
                    \in [Runs!Servers -> Thread]
            BY <5>1
          <5>3. [threads EXCEPT ![s].wanted = w, ![s].clean = TRUE, ![s].before = b]
                    = [threads EXCEPT ![s] = [threads[s] EXCEPT !.wanted = w, !.clean = TRUE, !.before = b]]
            OBVIOUS
          <5> QED
            BY <5>2, <5>3
        <4> QED
          BY <3>6, <4>1, <4>2
      <3> QED
        BY <1>7, <2>2, <3>2, <3>7 DEF Runs!SaveCore, Shape
    <2> QED
      BY <2>1, <2>2
  <1>8. ASSUME NEW s \in Runs!Servers, Runs!Sync(s)
        PROVE  Shape'
    <2>1. \A code \in {200, 400} : [Runs!At(s, "respond") EXCEPT ![s].code = code] \in [Runs!Servers -> Thread]
      <3>1. Runs!At(s, "respond") \in [Runs!Servers -> Thread]
        BY AtShape DEF Threads
      <3> QED
        BY <3>1 DEF Thread
    <2> DEFINE refused == ~Runs!Desired(s) /\ ~entry /\ AbsentIsError
               done == [Runs!At(s, "respond") EXCEPT ![s].code = IF refused THEN 400 ELSE 200]
    <2>2. done \in [Runs!Servers -> Thread] /\ [done EXCEPT ![s].code = 400] \in [Runs!Servers -> Thread]
      <3>1. done \in [Runs!Servers -> Thread]
        BY <2>1
      <3> HIDE DEF done
      <3> QED
        BY <3>1 DEF Thread
    <2>3. \/ /\ entry' = Runs!Desired(s) /\ server' = Runs!Crossed(done, s)
             /\ UNCHANGED left
          \/ /\ Runs!Spend("faults") /\ UNCHANGED entry
             /\ server' = [done EXCEPT ![s].code = 400]
      BY <1>8 DEF Runs!Sync
    <2> HIDE DEF done
    <2>4. server' \in [Runs!Servers -> Thread]
      BY <2>2, <2>3, CrossedShape
    <2>5. entry' \in BOOLEAN /\ left' \in Bounds
      BY <2>3, SpendShape DEF Runs!Desired, Shape
    <2> QED
      BY <1>8, <2>4, <2>5 DEF Runs!Sync, Shape
  <1>9. ASSUME NEW s \in Runs!Servers, Runs!ApplyEnds(s)
        PROVE  Shape'
    BY <1>9, AnswerShape, SpendShape DEF Runs!ApplyEnds, Shape
  <1>10. ASSUME NEW s \in Runs!Servers, Runs!LoadRegistry(s)
         PROVE  Shape'
    BY <1>10, AnswerShape, AtShape DEF Runs!LoadRegistry, Shape, Threads
  <1>11. ASSUME NEW s \in Runs!Servers, Runs!RunEnds(s)
         PROVE  Shape'
    BY <1>11, AnswerShape DEF Runs!RunEnds, Shape
  <1>12. ASSUME NEW s \in Runs!Servers, Runs!Respond(s)
         PROVE  Shape'
    <2>1. CASE Runs!Fail(s)
      BY <1>12, <2>1, FailShape DEF Runs!Respond, Shape
    <2>2. CASE /\ conn' = [Runs!Dropped(s, server[s].code = 204) EXCEPT ![Runs!Client(s)].state = "answered"]
               /\ server' = Runs!Over(s, IF server[s].code = 204 THEN "ended" ELSE "idle")
      <3>1. Runs!Dropped(s, server[s].code = 204) \in [Clients -> Connection]
        BY DroppedShape
      <3>2. conn' \in [Clients -> Connection]
        <4>1. ASSUME NEW conns \in [Clients -> Connection], NEW c
              PROVE  [conns EXCEPT ![c].state = "answered"] \in [Clients -> Connection]
          BY DEF Connection
        <4> QED
          BY <2>2, <3>1, <4>1
      <3>3. server' \in [Runs!Servers -> Thread]
        BY <2>2, OverShape DEF Threads
      <3> QED
        BY <1>12, <3>2, <3>3 DEF Runs!Respond, Shape
    <2> QED
      BY <1>12, <2>1, <2>2 DEF Runs!Respond
  <1>16. ASSUME NEW s \in Runs!Servers, Runs!BuildState(s)
         PROVE  Shape'
    <2>1. CASE server' = [Runs!At(s, "parse") EXCEPT ![s].known = server[s].all \ core.disabled]
               /\ UNCHANGED <<conn, left>>
      <3>1. Runs!At(s, "parse") \in [Runs!Servers -> Thread]
        BY AtShape DEF Threads
      <3>2. server[s].all \ core.disabled \in SUBSET Extensions
        BY DEF Shape, Thread
      <3>3. server' \in [Runs!Servers -> Thread]
        BY <2>1, <3>1, <3>2 DEF Thread
      <3> QED
        BY <1>16, <2>1, <3>3 DEF Runs!BuildState, Shape
    <2>2. CASE Runs!Spend("faults") /\ Runs!Fail(s)
      BY <1>16, <2>2, FailShape, SpendShape DEF Runs!BuildState, Shape
    <2> QED
      BY <1>16, <2>1, <2>2 DEF Runs!BuildState
  <1>17. ASSUME NEW s \in Runs!Servers, Runs!FilterRegistry(s)
         PROVE  Shape'
    BY <1>17, AnswerShape, AtShape, SpendShape DEF Runs!FilterRegistry, Shape, Threads
  <1>13. ASSUME Runs!LocalEnds
         PROVE  Shape'
    BY <1>13, OverShape, DroppedShape, SpendShape DEF Runs!LocalEnds, Shape, Threads,
       Runs!Servers
  <1>14. ASSUME Runs!ChangeDisk
         PROVE  Shape'
    <2>1. disk' \in Disk
      <3>1. ASSUME NEW e \in Extensions
            PROVE  [disk EXCEPT !.installed = (@ \ {e}) \cup ({e} \ @)] \in Disk
        BY DEF Shape, Disk
      <3>2. [disk EXCEPT !.readable = ~@] \in Disk
        BY DEF Shape, Disk
      <3> QED
        BY <1>14, <3>1, <3>2 DEF Runs!ChangeDisk
    <2>2. Runs!Now' \in SUBSET Runs!Facts
      BY NowFacts
    <2>3. server' \in [Runs!Servers -> Thread]
      BY <1>14, <2>2, SeeingShape DEF Runs!ChangeDisk, Shape
    <2> QED
      BY <1>14, <2>1, <2>3, SpendShape DEF Runs!ChangeDisk, Shape
  <1>15. ASSUME NEW b \in BOOLEAN, Runs!Install(b)
         PROVE  Shape'
    BY <1>15, CrossedShape, SpendShape DEF Runs!Install, Shape
  <1> QED
    BY <1>1, <1>2, <1>3, <1>4, <1>5, <1>6, <1>7, <1>8, <1>9, <1>10, <1>11, <1>12,
       <1>13, <1>14, <1>15, <1>16, <1>17
       DEF ServersStep, Runs!ServerStep
-----------------------------------------------------------------------------
(* Servers and their connections.                                          *)

\* What most steps leave alone of a thread.
Alike(one, other) ==
    /\ one.client = other.client /\ one.request = other.request
    /\ one.since = other.since /\ one.wanted = other.wanted

\* A thread that only goes to another place.
LEMMA AtMoves ==
    ASSUME Shape, NEW s \in Runs!Servers, NEW pc \in Threads
    PROVE  \A u \in Runs!Servers :
              /\ Alike(Runs!At(s, pc)[u], server[u])
              /\ Runs!At(s, pc)[u].code = server[u].code
              /\ (Runs!At(s, pc)[u].clean <=> server[u].clean)
              /\ u = s => Runs!At(s, pc)[u].pc = pc
              /\ u # s => Runs!At(s, pc)[u].pc = server[u].pc
  BY DEF Runs!At, Shape, Thread, Alike

\* A thread that has read the settings.
LEMMA BuiltMoves ==
    ASSUME Shape, NEW s \in Runs!Servers, NEW shown
    PROVE  LET built == [Runs!At(s, "parse") EXCEPT ![s].known = shown]
           IN  \A u \in Runs!Servers :
                  /\ Alike(built[u], server[u]) /\ built[u].code = server[u].code
                  /\ (built[u].clean <=> server[u].clean)
                  /\ u = s => built[u].pc = "parse"
                  /\ u # s => built[u].pc = server[u].pc
  BY DEF Runs!At, Shape, Thread, Alike

\* A thread that answers.
LEMMA AnswerMoves ==
    ASSUME Shape, NEW s \in Runs!Servers, NEW code \in Nat, Runs!Answer(s, code)
    PROVE  \A u \in Runs!Servers :
              /\ Alike(server'[u], server[u]) /\ (server'[u].clean <=> server[u].clean)
              /\ u = s => server'[u].pc = "respond" /\ server'[u].code = code
              /\ u # s => server'[u].pc = server[u].pc /\ server'[u].code = server[u].code
  <1>1. server' = [Runs!At(s, "respond") EXCEPT ![s].code = code]
    BY DEF Runs!Answer
  <1>2. Runs!At(s, "respond") \in [Runs!Servers -> Thread]
    BY AtShape DEF Threads
  <1>3. \A u \in Runs!Servers :
              /\ Alike(server'[u], Runs!At(s, "respond")[u])
              /\ (server'[u].clean <=> Runs!At(s, "respond")[u].clean)
              /\ server'[u].pc = Runs!At(s, "respond")[u].pc
              /\ u = s => server'[u].code = code
              /\ u # s => server'[u].code = Runs!At(s, "respond")[u].code
    BY <1>1, <1>2 DEF Thread, Alike
  <1> QED
    BY <1>3, AtMoves DEF Alike, Threads

\* What crosses the other threads.
LEMMA CrossedMoves ==
    ASSUME NEW threads \in [Runs!Servers -> Thread], NEW s
    PROVE  \A u \in Runs!Servers :
              /\ Alike(Runs!Crossed(threads, s)[u], threads[u])
              /\ Runs!Crossed(threads, s)[u].pc = threads[u].pc
              /\ Runs!Crossed(threads, s)[u].code = threads[u].code
              /\ u = s => (Runs!Crossed(threads, s)[u].clean <=> threads[u].clean)
              /\ u # s => ~Runs!Crossed(threads, s)[u].clean
  BY DEF Runs!Crossed, Thread, Alike

\* What every thread sees.
LEMMA SeeingMoves ==
    ASSUME NEW threads \in [Runs!Servers -> Thread], NEW facts
    PROVE  \A u \in Runs!Servers :
              /\ Runs!Seeing(threads, facts)[u].client = threads[u].client
              /\ Runs!Seeing(threads, facts)[u].request = threads[u].request
              /\ Runs!Seeing(threads, facts)[u].wanted = threads[u].wanted
              /\ Runs!Seeing(threads, facts)[u].since = threads[u].since \cup facts
              /\ Runs!Seeing(threads, facts)[u].pc = threads[u].pc
              /\ Runs!Seeing(threads, facts)[u].code = threads[u].code
              /\ (Runs!Seeing(threads, facts)[u].clean <=> threads[u].clean)
  BY DEF Runs!Seeing, Thread

\* What the end of a connection changes of a thread.
LEMMA OverMoves ==
    ASSUME Shape, NEW s \in Runs!Servers, NEW pc \in Threads
    PROVE  \A u \in Runs!Servers :
              /\ u # s => Runs!Over(s, pc)[u] = server[u]
              /\ u = s => Runs!Over(s, pc)[u].pc = pc /\ Runs!Over(s, pc)[u].code = 0
  BY DEF Runs!Over, Runs!Idle, Shape

\* A server that goes on with its connection.
LEMMA GoesOn ==
    ASSUME Shape, Busy,
           \A u \in Runs!Servers :
              /\ server'[u].client = server[u].client
              /\ \/ server'[u].pc = server[u].pc
                 \/ server[u].pc \notin {"idle", "ended"} /\ server'[u].pc \notin {"idle", "ended"}
              /\ u = "daemon" => server'[u].code # 204,
           \A c \in Clients :
              /\ conn'[c].state = "served" <=> conn[c].state = "served"
              /\ conn[c].state = "served" => conn'[c].at = conn[c].at
    PROVE  Busy'
  <1>1. ASSUME NEW c \in Clients, conn'[c].state = "served"
        PROVE  server'[conn'[c].at].pc \notin {"idle", "ended"} /\ server'[conn'[c].at].client = c
    <2>1. conn[c].at \in Runs!Servers
      BY DEF Shape, Connection
    <2> QED
      BY <1>1, <2>1 DEF Busy
  <1>2. ASSUME NEW s \in Runs!Servers, server'[s].pc \notin {"idle", "ended"}
        PROVE  /\ server'[s].client \in Clients
               /\ conn'[server'[s].client].state = "served" /\ conn'[server'[s].client].at = s
    BY <1>2 DEF Busy
  <1>3. server'["daemon"].pc # "ended" /\ server'["daemon"].code # 204
    BY DEF Busy, Runs!Servers
  <1> QED
    BY <1>1, <1>2, <1>3 DEF Busy

\* A server that is done with its connection, or that ends.
LEMMA IsDone ==
    ASSUME Shape, Busy, NEW s \in Runs!Servers, NEW pc \in {"idle", "ended"},
           s = "daemon" => pc = "idle",
           server' = Runs!Over(s, pc),
           \A c \in Clients :
              /\ conn'[c].state = "served" => conn[c].state = "served" /\ conn[c].at # s
              /\ conn[c].state = "served" /\ conn[c].at # s
                    => conn'[c].state = "served" /\ conn'[c].at = conn[c].at
    PROVE  Busy'
  <1>0. \A u \in Runs!Servers :
              /\ u # s => server'[u] = server[u]
              /\ u = s => server'[u].pc = pc /\ server'[u].code = 0
    BY OverMoves DEF Threads
  <1>1. ASSUME NEW c \in Clients, conn'[c].state = "served"
        PROVE  server'[conn'[c].at].pc \notin {"idle", "ended"} /\ server'[conn'[c].at].client = c
    <2>1. conn[c].at \in Runs!Servers
      BY DEF Shape, Connection
    <2> QED
      BY <1>0, <1>1, <2>1 DEF Busy
  <1>2. ASSUME NEW u \in Runs!Servers, server'[u].pc \notin {"idle", "ended"}
        PROVE  /\ server'[u].client \in Clients
               /\ conn'[server'[u].client].state = "served" /\ conn'[server'[u].client].at = u
    BY <1>0, <1>2 DEF Busy
  <1>3. server'["daemon"].pc # "ended" /\ server'["daemon"].code # 204
    BY <1>0 DEF Busy, Runs!Servers
  <1> QED
    BY <1>1, <1>2, <1>3 DEF Busy

\* The connections that an error ends.
LEMMA DroppedMoves ==
    ASSUME Shape, NEW s \in Runs!Servers, NEW ends \in BOOLEAN
    PROVE  \A c \in Clients :
              /\ Runs!Dropped(s, ends)[c].state = "served" => conn[c].state = "served" /\ conn[c].at # s
              /\ conn[c].state = "served" /\ conn[c].at # s => Runs!Dropped(s, ends)[c] = conn[c]
  BY DEF Runs!Dropped, Runs!NoConnection, Shape, Connection

\* After a failure.
LEMMA FailBusy ==
    ASSUME Shape, Busy, NEW s \in Runs!Servers, Runs!Fail(s)
    PROVE  Busy'
  BY DroppedMoves, IsDone DEF Runs!Fail, Runs!Servers

\* After an answer.
LEMMA AnswerBusy ==
    ASSUME Shape, Busy, NEW s \in Runs!Servers, NEW code \in Nat, Runs!Answer(s, code),
           server[s].pc \notin {"idle", "ended"}, code = 204 => s = "local"
    PROVE  Busy'
  <1>1. \A u \in Runs!Servers :
              /\ server'[u].client = server[u].client
              /\ \/ server'[u].pc = server[u].pc
                 \/ server[u].pc \notin {"idle", "ended"} /\ server'[u].pc \notin {"idle", "ended"}
              /\ u = "daemon" => server'[u].code # 204
    <2> TAKE u \in Runs!Servers
    <2>1. /\ server'[u].client = server[u].client
          /\ u = s => server'[u].pc = "respond" /\ server'[u].code = code
          /\ u # s => server'[u].pc = server[u].pc /\ server'[u].code = server[u].code
      BY AnswerMoves DEF Alike
    <2> QED
      BY <2>1 DEF Busy
  <1> QED
    BY <1>1, GoesOn DEF Runs!Answer

\* After a step to another place.
LEMMA AtBusy ==
    ASSUME Shape, Busy, NEW s \in Runs!Servers, NEW pc \in Threads \ {"idle", "ended"},
           server[s].pc \notin {"idle", "ended"}, server' = Runs!At(s, pc), UNCHANGED conn
    PROVE  Busy'
  <1>1. server[s] \in Thread
    BY DEF Shape
  <1>2. \A u \in Runs!Servers :
              /\ server'[u].client = server[u].client /\ server'[u].code = server[u].code
              /\ u = s => server'[u].pc = pc
              /\ u # s => server'[u].pc = server[u].pc
    BY <1>1 DEF Runs!At, Shape, Thread
  <1> QED
    BY <1>2, GoesOn DEF Busy

\* The threads after a save, whose last step is to note what was saved.
Saved(threads, s, now, before) ==
    [threads EXCEPT ![s].wanted = now, ![s].clean = TRUE, ![s].before = before]

\* What saving changes of a thread.
LEMMA ThreadsSave ==
    ASSUME NEW threads \in [Runs!Servers -> Thread], NEW s \in Runs!Servers,
           NEW now \in BOOLEAN \cup {Unset}, NEW before \in BOOLEAN \cup {Unset},
           NEW u \in Runs!Servers
    PROVE  LET saved == Saved(threads, s, now, before)
           IN  /\ saved[u].client = threads[u].client /\ saved[u].request = threads[u].request
               /\ saved[u].since = threads[u].since
               /\ saved[u].pc = threads[u].pc /\ saved[u].code = threads[u].code
               /\ u = s => saved[u].wanted = now
               /\ u = s => saved[u].clean
               /\ u # s => (saved[u].clean <=> threads[u].clean)
  <1>0. ASSUME NEW two \in [Runs!Servers -> Thread]
        PROVE  [two EXCEPT ![s].before = before] \in [Runs!Servers -> Thread]
    BY DEF Thread
  <1>1. PICK one \in [Runs!Servers -> Thread] : one = [threads EXCEPT ![s].wanted = now]
    BY DEF Thread
  <1>2. /\ one[u].client = threads[u].client /\ one[u].request = threads[u].request
        /\ one[u].since = threads[u].since
        /\ one[u].pc = threads[u].pc /\ one[u].code = threads[u].code
        /\ u = s => one[u].wanted = now
        /\ one[u].clean <=> threads[u].clean
    BY <1>1 DEF Thread
  <1>3. PICK two \in [Runs!Servers -> Thread] : two = [one EXCEPT ![s].clean = TRUE]
    BY DEF Thread
  <1>4. /\ two[u].client = one[u].client /\ two[u].request = one[u].request
        /\ two[u].since = one[u].since /\ two[u].wanted = one[u].wanted
        /\ two[u].pc = one[u].pc /\ two[u].code = one[u].code
        /\ u = s => two[u].clean
        /\ u # s => (two[u].clean <=> one[u].clean)
    BY <1>3 DEF Thread
  <1>5. PICK saved \in [Runs!Servers -> Thread] : saved = [two EXCEPT ![s].before = before]
    BY <1>0
  <1>6. /\ saved[u].client = two[u].client /\ saved[u].request = two[u].request
        /\ saved[u].since = two[u].since /\ saved[u].wanted = two[u].wanted
        /\ saved[u].pc = two[u].pc /\ saved[u].code = two[u].code
        /\ saved[u].clean <=> two[u].clean
    BY <1>5 DEF Thread
  <1>7. saved = Saved(threads, s, now, before)
    BY <1>1, <1>3, <1>5 DEF Saved
  <1> QED
    BY <1>2, <1>4, <1>6, <1>7

\* What a save changes of the threads.
LEMMA SaveMoves ==
    ASSUME Shape, NEW s \in Runs!Servers, NEW facts \in SUBSET Runs!Facts,
           NEW now \in BOOLEAN \cup {Unset}, NEW before \in BOOLEAN \cup {Unset},
           server' = Saved(Runs!Seeing(Runs!Crossed(Runs!At(s, "sync"), s), facts), s, now, before)
    PROVE  \A u \in Runs!Servers :
              /\ server'[u].client = server[u].client /\ server'[u].code = server[u].code
              /\ server'[u].request = server[u].request
              /\ server'[u].since = server[u].since \cup facts
              /\ u = s => /\ server'[u].pc = "sync" /\ server'[u].wanted = now
                          /\ server'[u].clean
              /\ u # s => server'[u].pc = server[u].pc /\ ~server'[u].clean
  <1> DEFINE at == Runs!At(s, "sync")
             crossed == Runs!Crossed(at, s)
             seeing == Runs!Seeing(crossed, facts)
  <1>1. at \in [Runs!Servers -> Thread]
    BY AtShape DEF Threads
  <1>2. \A u \in Runs!Servers :
            /\ Alike(at[u], server[u]) /\ at[u].code = server[u].code
            /\ u = s => at[u].pc = "sync"
            /\ u # s => at[u].pc = server[u].pc
    BY AtMoves DEF Threads
  <1> HIDE DEF at
  <1>3. crossed \in [Runs!Servers -> Thread]
    BY <1>1, CrossedShape
  <1>4. \A u \in Runs!Servers :
            /\ Alike(crossed[u], at[u]) /\ crossed[u].code = at[u].code /\ crossed[u].pc = at[u].pc
            /\ u # s => ~crossed[u].clean
    BY <1>1, CrossedMoves
  <1> HIDE DEF crossed
  <1>5. seeing \in [Runs!Servers -> Thread]
    BY <1>3, SeeingShape
  <1>6. \A u \in Runs!Servers :
            /\ seeing[u].client = crossed[u].client /\ seeing[u].request = crossed[u].request
            /\ seeing[u].since = crossed[u].since \cup facts
            /\ seeing[u].pc = crossed[u].pc /\ seeing[u].code = crossed[u].code
            /\ (seeing[u].clean <=> crossed[u].clean)
    BY <1>3, SeeingMoves
  <1>7. server' = Saved(seeing, s, now, before)
    BY DEF at, crossed
  <1> HIDE DEF seeing
  <1>8. \A u \in Runs!Servers :
            /\ server'[u].client = seeing[u].client /\ server'[u].request = seeing[u].request
            /\ server'[u].since = seeing[u].since
            /\ server'[u].pc = seeing[u].pc /\ server'[u].code = seeing[u].code
            /\ u = s => server'[u].wanted = now /\ server'[u].clean
            /\ u # s => (server'[u].clean <=> seeing[u].clean)
    <2> TAKE u \in Runs!Servers
    <2> QED
      BY <1>5, <1>7, ThreadsSave
  <1> TAKE u \in Runs!Servers
  <1>9. CASE u = s
    BY <1>2, <1>4, <1>6, <1>8, <1>9 DEF Alike
  <1>10. CASE u # s
    BY <1>2, <1>4, <1>6, <1>8, <1>10 DEF Alike
  <1> QED
    BY <1>9, <1>10

\* What changing the login changes of the threads.
LEMMA SyncMoves ==
    ASSUME Shape, NEW s \in Runs!Servers, Runs!Sync(s)
    PROVE  \A u \in Runs!Servers :
              /\ Alike(server'[u], server[u])
              /\ u = s => /\ server'[u].pc = "respond" /\ server'[u].code \in {200, 400}
                          /\ (server'[u].clean <=> server[u].clean)
              /\ u # s => server'[u].pc = server[u].pc /\ server'[u].code = server[u].code
              /\ u # s => \/ ~server'[u].clean
                          \/ (server'[u].clean <=> server[u].clean) /\ UNCHANGED entry
  <1> DEFINE refused == ~Runs!Desired(s) /\ ~entry /\ AbsentIsError
             at == Runs!At(s, "respond")
             done == [at EXCEPT ![s].code = IF refused THEN 400 ELSE 200]
  <1>1. \A u \in Runs!Servers :
            /\ Alike(at[u], server[u]) /\ at[u].code = server[u].code /\ (at[u].clean <=> server[u].clean)
            /\ u = s => at[u].pc = "respond"
            /\ u # s => at[u].pc = server[u].pc
    BY AtMoves DEF Threads
  <1>2. at \in [Runs!Servers -> Thread]
    BY AtShape DEF Threads
  <1>3. \/ server' = Runs!Crossed(done, s)
        \/ UNCHANGED entry /\ server' = [done EXCEPT ![s].code = 400]
    BY DEF Runs!Sync
  <1> HIDE DEF at
  <1>4. PICK code \in {200, 400} : done = [at EXCEPT ![s].code = code]
    OBVIOUS
  <1> HIDE DEF done
  <1>5. \A u \in Runs!Servers :
            /\ Alike(done[u], at[u]) /\ (done[u].clean <=> at[u].clean) /\ done[u].pc = at[u].pc
            /\ u = s => done[u].code = code
            /\ u # s => done[u].code = at[u].code
    BY <1>2, <1>4 DEF Thread, Alike
  <1>6. done \in [Runs!Servers -> Thread]
    BY <1>2, <1>4 DEF Thread
  <1>7. CASE server' = Runs!Crossed(done, s)
    <2>1. \A u \in Runs!Servers :
            /\ Alike(server'[u], done[u]) /\ server'[u].pc = done[u].pc /\ server'[u].code = done[u].code
            /\ u = s => (server'[u].clean <=> done[u].clean)
            /\ u # s => ~server'[u].clean
      <3>1. \A u \in Runs!Servers :
            /\ Alike(Runs!Crossed(done, s)[u], done[u])
            /\ Runs!Crossed(done, s)[u].pc = done[u].pc /\ Runs!Crossed(done, s)[u].code = done[u].code
            /\ u = s => (Runs!Crossed(done, s)[u].clean <=> done[u].clean)
            /\ u # s => ~Runs!Crossed(done, s)[u].clean
        BY <1>6, CrossedMoves
      <3> QED
        BY <1>7, <3>1
    <2> QED
      BY <1>1, <1>5, <2>1 DEF Alike
  <1>8. CASE UNCHANGED entry /\ server' = [done EXCEPT ![s].code = 400]
    <2>1. \A u \in Runs!Servers :
            /\ Alike(server'[u], done[u]) /\ server'[u].pc = done[u].pc /\ (server'[u].clean <=> done[u].clean)
            /\ u = s => server'[u].code = 400
            /\ u # s => server'[u].code = done[u].code
      BY <1>6, <1>8 DEF Thread, Alike
    <2> QED
      BY <1>1, <1>5, <1>8, <2>1 DEF Alike
  <1> QED
    BY <1>3, <1>7, <1>8

\* Every step keeps servers and their connections together.
LEMMA BusyStep ==
    ASSUME Shape, Busy, ServersStep
    PROVE  Busy'
  <1> USE DEF Runs!Client, Runs!Asked
  <1>1. ASSUME NEW c \in Clients, NEW s \in Runs!Servers, Runs!Connect(c, s)
        PROVE  Busy'
    <2>1. \A d \in Clients :
              /\ conn'[d].state = "served" <=> conn[d].state = "served"
              /\ conn[d].state = "served" => conn'[d].at = conn[d].at
      BY <1>1 DEF Runs!Connect, Runs!Free, Runs!NoConnection, Shape
    <2> QED
      BY <1>1, <2>1, GoesOn DEF Runs!Connect, Busy
  <1>2. ASSUME NEW c \in Clients, Sends(c)
        PROVE  Busy'
    <2>1. \A d \in Clients : conn'[d].state = conn[d].state /\ conn'[d].at = conn[d].at
      BY <1>2 DEF Sends, Shape, Connection
    <2> QED
      BY <1>2, <2>1, GoesOn DEF Sends, Busy
  <1>3. ASSUME NEW c \in Clients, Runs!Leave(c)
        PROVE  Busy'
    <2>1. \A d \in Clients : conn'[d].state = conn[d].state /\ conn'[d].at = conn[d].at
      BY <1>3 DEF Runs!Leave, Shape, Connection
    <2> QED
      BY <1>3, <2>1, GoesOn DEF Runs!Leave, Busy
  <1>4. ASSUME NEW s \in Runs!Servers, Runs!Accept(s)
        PROVE  Busy'
    <2>1. PICK c \in Clients :
              /\ conn[c].at = s /\ conn[c].state = "waiting"
              /\ \/ /\ conn' = [conn EXCEPT ![c] = [Runs!NoConnection EXCEPT !.state = "dropped"]]
                    /\ UNCHANGED server
                 \/ /\ conn' = [conn EXCEPT ![c].state = "served"]
                    /\ server' = [server EXCEPT ![s] = Runs!Serving(s, c)]
      BY <1>4 DEF Runs!Accept
    <2>2. CASE /\ conn' = [conn EXCEPT ![c] = [Runs!NoConnection EXCEPT !.state = "dropped"]]
               /\ UNCHANGED server
      <3>1. \A d \in Clients :
                /\ conn'[d].state = "served" <=> conn[d].state = "served"
                /\ conn[d].state = "served" => conn'[d].at = conn[d].at
        BY <2>1, <2>2 DEF Shape, Runs!NoConnection
      <3> QED
        BY <2>2, <3>1, GoesOn DEF Busy
    <2>3. CASE /\ conn' = [conn EXCEPT ![c].state = "served"]
               /\ server' = [server EXCEPT ![s] = Runs!Serving(s, c)]
      <3>1. /\ server'[s].pc \in {"state", "parse"} /\ server'[s].client = c
            /\ s = "daemon" => server'[s].code = 0
            /\ s # "daemon" => server'[s].code = server[s].code
        BY <2>3, ServingThread DEF Shape
      <3>2. \A u \in Runs!Servers : u # s => server'[u] = server[u]
        BY <2>3 DEF Shape
      <3>3. \A d \in Clients : d # c => conn'[d] = conn[d]
        BY <2>3 DEF Shape
      <3>4. conn'[c].state = "served" /\ conn'[c].at = s
        BY <2>1, <2>3 DEF Shape, Connection
      <3>5. server[s].pc = "idle"
        BY <1>4 DEF Runs!Accept
      <3>6. ASSUME NEW d \in Clients, conn'[d].state = "served"
            PROVE  server'[conn'[d].at].pc \notin {"idle", "ended"} /\ server'[conn'[d].at].client = d
        <4>1. conn[d].at \in Runs!Servers
          BY DEF Shape, Connection
        <4> QED
          BY <2>1, <3>1, <3>2, <3>3, <3>4, <3>5, <3>6, <4>1 DEF Busy
      <3>7. ASSUME NEW u \in Runs!Servers, server'[u].pc \notin {"idle", "ended"}
            PROVE  /\ server'[u].client \in Clients
                   /\ conn'[server'[u].client].state = "served" /\ conn'[server'[u].client].at = u
        BY <2>1, <3>1, <3>2, <3>3, <3>4, <3>7 DEF Busy
      <3>8. server'["daemon"].pc # "ended" /\ server'["daemon"].code # 204
        BY <3>1, <3>2 DEF Busy, Runs!Servers
      <3> QED
        BY <3>6, <3>7, <3>8 DEF Busy
    <2> QED
      BY <2>1, <2>2, <2>3
  <1>5. ASSUME NEW s \in Runs!Servers, Runs!Parse(s)
        PROVE  Busy'
    <2>1. PICK request : server' = [Runs!At(s, "route") EXCEPT ![s].request = request]
      BY <1>5 DEF Runs!Parse
    <2>2. \A u \in Runs!Servers :
              /\ server'[u].client = server[u].client /\ server'[u].code = server[u].code
              /\ u = s => server'[u].pc = "route"
              /\ u # s => server'[u].pc = server[u].pc
      BY <2>1 DEF Runs!At, Shape, Thread
    <2> QED
      BY <1>5, <2>2, GoesOn DEF Runs!Parse, Busy
  <1>6. ASSUME NEW s \in Runs!Servers, Runs!Route(s)
        PROVE  Busy'
    <2>0. server[s].pc = "route"
      BY <1>6 DEF Runs!Route
    <2>1. CASE \E code \in {200, 204, 400, 403, 404} :
                  Runs!Answer(s, code) /\ (code = 204 => s = "local")
      BY <2>0, <2>1, AnswerBusy
    <2>2. CASE \E pc \in {"apply", "registry"} : server' = Runs!At(s, pc) /\ UNCHANGED conn
      BY <2>0, <2>2, AtBusy DEF Threads
    <2> QED
      BY <1>6, <2>1, <2>2, RouteMoves, FailBusy
  <1>7. ASSUME NEW s \in Runs!Servers, Runs!SaveCore(s)
        PROVE  Busy'
    <2>0. server[s].pc = "route"
      BY <1>7 DEF Runs!SaveCore
    <2>1. CASE Runs!Answer(s, 400)
      BY <2>0, <2>1, AnswerBusy
    <2>2. CASE /\ server' = Saved(Runs!Seeing(Runs!Crossed(Runs!At(s, "sync"), s), Runs!Now'), s,
                                  core'.autoStart, core.autoStart)
               /\ UNCHANGED conn
      <3>1. \A u \in Runs!Servers :
              /\ server'[u].client = server[u].client /\ server'[u].code = server[u].code
              /\ u = s => server'[u].pc = "sync"
              /\ u # s => server'[u].pc = server[u].pc
        <4>1. Runs!Now' \in SUBSET Runs!Facts
          BY NowFacts
        <4>2. core'.autoStart \in BOOLEAN \cup {Unset} /\ core.autoStart \in BOOLEAN \cup {Unset}
          BY <1>7, ShapeStep DEF Shape, Core, ServersStep, Runs!ServerStep
        <4> QED
          BY <2>2, <4>1, <4>2, SaveMoves
      <3>2. \A u \in Runs!Servers :
              /\ server'[u].client = server[u].client
              /\ \/ server'[u].pc = server[u].pc
                 \/ server[u].pc \notin {"idle", "ended"} /\ server'[u].pc \notin {"idle", "ended"}
              /\ u = "daemon" => server'[u].code # 204
        BY <2>0, <3>1 DEF Busy
      <3> QED
        BY <2>2, <3>2, GoesOn
    <2> QED
      BY <1>7, <2>1, <2>2 DEF Runs!SaveCore, Saved
  <1>8. ASSUME NEW s \in Runs!Servers, Runs!Sync(s)
        PROVE  Busy'
    <2>1. \A u \in Runs!Servers :
              /\ server'[u].client = server[u].client
              /\ u = s => server'[u].pc = "respond" /\ server'[u].code \in {200, 400}
              /\ u # s => server'[u].pc = server[u].pc /\ server'[u].code = server[u].code
      <3> TAKE u \in Runs!Servers
      <3>1. /\ Alike(server'[u], server[u])
            /\ u = s => server'[u].pc = "respond" /\ server'[u].code \in {200, 400}
            /\ u # s => server'[u].pc = server[u].pc /\ server'[u].code = server[u].code
        BY <1>8, SyncMoves
      <3> QED
        BY <3>1 DEF Alike
    <2> QED
      BY <1>8, <2>1, GoesOn DEF Runs!Sync, Busy
  <1>9. ASSUME NEW s \in Runs!Servers, Runs!ApplyEnds(s)
        PROVE  Busy'
    BY <1>9, AnswerBusy DEF Runs!ApplyEnds
  <1>10. ASSUME NEW s \in Runs!Servers, Runs!LoadRegistry(s)
         PROVE  Busy'
    <2>0. server[s].pc = "registry"
      BY <1>10 DEF Runs!LoadRegistry
    <2>1. CASE Runs!Answer(s, 400)
      BY <2>0, <2>1, AnswerBusy
    <2>2. CASE server' = Runs!At(s, "filter") /\ UNCHANGED conn
      BY <2>0, <2>2, AtBusy DEF Threads
    <2> QED
      BY <1>10, <2>1, <2>2 DEF Runs!LoadRegistry
  <1>11. ASSUME NEW s \in Runs!Servers, Runs!RunEnds(s)
         PROVE  Busy'
    BY <1>11, AnswerBusy DEF Runs!RunEnds
  <1>12. ASSUME NEW s \in Runs!Servers, Runs!Respond(s)
         PROVE  Busy'
    <2>1. CASE /\ conn' = [Runs!Dropped(s, server[s].code = 204) EXCEPT ![Runs!Client(s)].state = "answered"]
               /\ server' = Runs!Over(s, IF server[s].code = 204 THEN "ended" ELSE "idle")
      <3>1. \A c \in Clients :
              /\ conn'[c].state = "served" => conn[c].state = "served" /\ conn[c].at # s
              /\ conn[c].state = "served" /\ conn[c].at # s
                    => conn'[c].state = "served" /\ conn'[c].at = conn[c].at
        <4>1. server[s].client \in Clients /\ conn[server[s].client].at = s
          BY <1>12 DEF Runs!Respond, Busy
        <4> DEFINE dropped == Runs!Dropped(s, server[s].code = 204)
        <4>2. dropped \in [Clients -> Connection]
          BY DroppedShape
        <4>3. \A c \in Clients :
              /\ dropped[c].state = "served" => conn[c].state = "served" /\ conn[c].at # s
              /\ conn[c].state = "served" /\ conn[c].at # s => dropped[c] = conn[c]
          BY DEF Runs!Dropped, Runs!NoConnection, Shape, Connection
        <4>4. conn' = [dropped EXCEPT ![server[s].client].state = "answered"]
          BY <2>1
        <4> HIDE DEF dropped
        <4> QED
          BY <4>1, <4>2, <4>3, <4>4 DEF Connection
      <3> QED
        BY <2>1, <3>1, IsDone DEF Busy
    <2> QED
      BY <1>12, <2>1, FailBusy DEF Runs!Respond
  <1>16. ASSUME NEW s \in Runs!Servers, Runs!BuildState(s)
         PROVE  Busy'
    <2>1. CASE server' = [Runs!At(s, "parse") EXCEPT ![s].known = server[s].all \ core.disabled]
               /\ UNCHANGED conn
      <3>1. \A u \in Runs!Servers :
                /\ server'[u].client = server[u].client /\ server'[u].code = server[u].code
                /\ u = s => server'[u].pc = "parse"
                /\ u # s => server'[u].pc = server[u].pc
        BY <2>1, BuiltMoves DEF Alike
      <3> QED
        BY <1>16, <2>1, <3>1, GoesOn DEF Runs!BuildState, Busy
    <2>2. CASE Runs!Fail(s)
      BY <2>2, FailBusy
    <2> QED
      BY <1>16, <2>1, <2>2 DEF Runs!BuildState
  <1>17. ASSUME NEW s \in Runs!Servers, Runs!FilterRegistry(s)
         PROVE  Busy'
    <2>0. server[s].pc = "filter"
      BY <1>17 DEF Runs!FilterRegistry
    <2>1. CASE Runs!Answer(s, 400)
      BY <2>0, <2>1, AnswerBusy
    <2>2. CASE server' = Runs!At(s, "run") /\ UNCHANGED conn
      BY <2>0, <2>2, AtBusy DEF Threads
    <2> QED
      BY <1>17, <2>1, <2>2 DEF Runs!FilterRegistry
  <1>13. ASSUME Runs!LocalEnds
         PROVE  Busy'
    BY <1>13, IsDone, DroppedMoves DEF Runs!LocalEnds, Runs!Servers
  <1>14. ASSUME Runs!ChangeDisk
         PROVE  Busy'
    <2>1. \A u \in Runs!Servers : server'[u].client = server[u].client
                /\ server'[u].pc = server[u].pc /\ server'[u].code = server[u].code
      BY <1>14 DEF Runs!ChangeDisk, Runs!Seeing, Shape, Thread
    <2> QED
      BY <1>14, <2>1, GoesOn DEF Runs!ChangeDisk, Busy
  <1>15. ASSUME NEW b \in BOOLEAN, Runs!Install(b)
         PROVE  Busy'
    <2>1. \A u \in Runs!Servers : server'[u].client = server[u].client
                /\ server'[u].pc = server[u].pc /\ server'[u].code = server[u].code
      BY <1>15 DEF Runs!Install, Runs!Crossed, Shape, Thread
    <2> QED
      BY <1>15, <2>1, GoesOn DEF Runs!Install, Busy
  <1> QED
    BY <1>1, <1>2, <1>3, <1>4, <1>5, <1>6, <1>7, <1>8, <1>9, <1>10, <1>11, <1>12,
       <1>13, <1>14, <1>15, <1>16, <1>17
       DEF ServersStep, Runs!ServerStep
-----------------------------------------------------------------------------
(* What a thread knows: what could be run since it accepted, that the      *)
(* client it works for sent a whole request, and that settings that it     *)
(* saved, and nobody crossed, are the settings.                            *)

Active(s) == server[s].pc \notin {"idle", "ended"}

ThreadRuns(s) ==
    /\ Active(s) => Runs!Now \subseteq server[s].since
    /\ server[s].pc \in {"registry", "filter", "run"} => server[s].request.op = "trigger"
    /\ server[s].pc = "apply" => server[s].request.op = "apply"
    /\ server[s].pc \in {"filter", "run"} =>
          <<"installed", server[s].request.ext>> \in server[s].since
    /\ server[s].pc = "run" =>
          /\ <<"enabled", server[s].request.ext>> \in server[s].since
          /\ server[s].request.ext \notin Foreign

ThreadHeard(s) ==
    (Active(s) /\ server[s].pc \notin {"state", "parse"} /\ server[s].request.op # "bad") =>
        conn[server[s].client].sent /\ conn[server[s].client].request.cut # "body"

SavedOf(s) == server[s].request.op = "core" /\ server[s].request.post
ThreadSaved(s) ==
    /\ server[s].pc = "sync" /\ server[s].clean => server[s].wanted = core.autoStart
    /\ server[s].pc = "respond" /\ server[s].code = 200 /\ server[s].clean /\ SavedOf(s) =>
          entry = (core.autoStart = TRUE)

ThreadInv(s) == ThreadRuns(s) /\ ThreadHeard(s) /\ ThreadSaved(s)

\* A step of somebody else, which a thread does not notice.
LEMMA Quiet ==
    ASSUME NEW u, ThreadInv(u),
           server'[u].pc = server[u].pc, server'[u].request = server[u].request,
           server'[u].client = server[u].client, server'[u].code = server[u].code,
           server'[u].wanted = server[u].wanted,
           server[u].since \subseteq server'[u].since,
           Active(u) => Runs!Now' \subseteq server'[u].since,
           server'[u].clean => server[u].clean /\ UNCHANGED <<core, entry>>,
           Active(u) /\ conn[server[u].client].sent =>
              conn'[server[u].client].sent
              /\ conn'[server[u].client].request = conn[server[u].client].request
    PROVE  ThreadInv(u)'
  <1>1. ThreadRuns(u)'
    BY DEF ThreadInv, ThreadRuns, Active
  <1>2. ThreadHeard(u)'
    BY DEF ThreadInv, ThreadHeard, Active
  <1>3. ThreadSaved(u)'
    BY DEF ThreadInv, ThreadSaved, SavedOf
  <1> QED
    BY <1>1, <1>2, <1>3 DEF ThreadInv

\* A thread without a connection.
LEMMA Rests ==
    ASSUME NEW u, server'[u].pc \in {"idle", "ended"}
    PROVE  ThreadInv(u)'
  BY DEF ThreadInv, ThreadRuns, ThreadHeard, ThreadSaved, Active

\* An answer, also that of a thread that has not saved.
LEMMA AnswerInv ==
    ASSUME Shape, NEW s \in Runs!Servers, NEW code \in Nat, Runs!Answer(s, code),
           \A u \in Runs!Servers : ThreadInv(u),
           UNCHANGED <<disk, core, entry>>, server[s].pc \notin {"idle", "state", "parse", "ended"},
           code = 200 => ~SavedOf(s)
    PROVE  \A u \in Runs!Servers : ThreadInv(u)'
  <1> TAKE u \in Runs!Servers
  <1>1. UNCHANGED conn /\ Runs!Now' = Runs!Now
    BY DEF Runs!Answer, Runs!Now
  <1>2. /\ server'[u].client = server[u].client /\ server'[u].request = server[u].request
        /\ server'[u].since = server[u].since /\ server'[u].wanted = server[u].wanted
        /\ server'[u].clean <=> server[u].clean
        /\ u = s => server'[u].pc = "respond" /\ server'[u].code = code
        /\ u # s => server'[u].pc = server[u].pc /\ server'[u].code = server[u].code
    BY AnswerMoves DEF Alike
  <1>3. CASE u # s
    BY <1>1, <1>2, <1>3, Quiet DEF ThreadInv, ThreadRuns
  <1>4. CASE u = s
    <2>1. ThreadRuns(u)'
      BY <1>1, <1>2, <1>4 DEF ThreadInv, ThreadRuns, Active
    <2>2. ThreadHeard(u)'
      BY <1>1, <1>2, <1>4 DEF ThreadInv, ThreadHeard, Active
    <2>3. ThreadSaved(u)'
      BY <1>2, <1>4 DEF ThreadSaved, SavedOf
    <2> QED
      BY <2>1, <2>2, <2>3 DEF ThreadInv
  <1> QED
    BY <1>3, <1>4

\* The end of a connection.
LEMMA OverInv ==
    ASSUME Shape, Busy, NEW s \in Runs!Servers, NEW pc \in {"idle", "ended"},
           server' = Runs!Over(s, pc),
           \A c \in Clients : conn[c].state = "served" /\ conn[c].at # s => conn'[c] = conn[c],
           \A u \in Runs!Servers : ThreadInv(u),
           UNCHANGED <<disk, core, entry>>
    PROVE  \A u \in Runs!Servers : ThreadInv(u)'
  <1> TAKE u \in Runs!Servers
  <1>1. Runs!Now' = Runs!Now
    BY DEF Runs!Now
  <1>2. /\ u # s => server'[u] = server[u]
        /\ u = s => server'[u].pc = pc
    BY OverMoves DEF Threads
  <1>3. CASE u # s
    <2>1. Active(u) => conn'[server[u].client] = conn[server[u].client]
      BY <1>3 DEF Busy, Active
    <2> QED
      BY <1>1, <1>2, <1>3, <2>1, Quiet DEF ThreadInv, ThreadRuns
  <1>4. CASE u = s
    BY <1>2, <1>4, Rests
  <1> QED
    BY <1>3, <1>4

\* A failure.
LEMMA FailInv ==
    ASSUME Shape, Busy, NEW s \in Runs!Servers, Runs!Fail(s),
           \A u \in Runs!Servers : ThreadInv(u),
           UNCHANGED <<disk, core, entry>>
    PROVE  \A u \in Runs!Servers : ThreadInv(u)'
  <1>1. \A c \in Clients : conn[c].state = "served" /\ conn[c].at # s => conn'[c] = conn[c]
    BY DEF Runs!Fail, Runs!Dropped
  <1>2. PICK pc \in {"idle", "ended"} : server' = Runs!Over(s, pc)
    BY DEF Runs!Fail
  <1> QED
    BY <1>1, <1>2, OverInv

\* A step to another place.
LEMMA AtInv ==
    ASSUME Shape, NEW s \in Runs!Servers, NEW pc \in {"apply", "registry", "filter", "run"},
           server' = Runs!At(s, pc), server[s].pc \in {"route", "registry", "filter"},
           pc \in {"registry", "filter", "run"} => server[s].request.op = "trigger",
           pc = "apply" => server[s].request.op = "apply",
           pc \in {"filter", "run"} => <<"installed", server[s].request.ext>> \in server[s].since,
           pc = "run" => /\ <<"enabled", server[s].request.ext>> \in server[s].since
                         /\ server[s].request.ext \notin Foreign,
           \A u \in Runs!Servers : ThreadInv(u),
           UNCHANGED <<disk, core, entry, conn>>
    PROVE  \A u \in Runs!Servers : ThreadInv(u)'
  <1> TAKE u \in Runs!Servers
  <1>1. Runs!Now' = Runs!Now
    BY DEF Runs!Now
  <1>2. /\ server'[u].client = server[u].client /\ server'[u].request = server[u].request
        /\ server'[u].since = server[u].since /\ server'[u].wanted = server[u].wanted
        /\ server'[u].clean <=> server[u].clean
        /\ server'[u].code = server[u].code
        /\ u = s => server'[u].pc = pc
        /\ u # s => server'[u].pc = server[u].pc
    BY AtMoves DEF Alike, Threads
  <1>3. CASE u # s
    BY <1>1, <1>2, <1>3, Quiet DEF ThreadInv, ThreadRuns
  <1>4. CASE u = s
    <2>1. ThreadRuns(u)'
      BY <1>1, <1>2, <1>4 DEF ThreadInv, ThreadRuns, Active
    <2>2. ThreadHeard(u)'
      BY <1>1, <1>2, <1>4 DEF ThreadInv, ThreadHeard, Active
    <2>3. ThreadSaved(u)'
      BY <1>2, <1>4 DEF ThreadSaved
    <2> QED
      BY <2>1, <2>2, <2>3 DEF ThreadInv
  <1> QED
    BY <1>3, <1>4

\* Success of the registration is what was wanted.
LEMMA SyncApplies ==
    ASSUME Shape, NEW s \in Runs!Servers, Runs!Sync(s), server'[s].code = 200
    PROVE  entry' = (server[s].wanted = TRUE)
  <1> DEFINE refused == ~Runs!Desired(s) /\ ~entry /\ AbsentIsError
             done == [Runs!At(s, "respond") EXCEPT ![s].code = IF refused THEN 400 ELSE 200]
  <1>1. Runs!At(s, "respond") \in [Runs!Servers -> Thread]
    BY AtShape DEF Threads
  <1>2. done \in [Runs!Servers -> Thread]
    <2>1. PICK code \in Nat : code = IF refused THEN 400 ELSE 200
      OBVIOUS
    <2> QED
      BY <1>1, <2>1 DEF Thread
  <1>3. \/ entry' = Runs!Desired(s)
        \/ server' = [done EXCEPT ![s].code = 400]
    BY DEF Runs!Sync
  <1> HIDE DEF done
  <1>4. server' = [done EXCEPT ![s].code = 400] => server'[s].code = 400
    BY <1>2 DEF Thread
  <1> QED
    BY <1>3, <1>4 DEF Runs!Desired

\* No step makes a thread forget.
LEMMA ThreadStep ==
    ASSUME Shape, Busy, ServersStep, \A u \in Runs!Servers : ThreadInv(u)
    PROVE  \A u \in Runs!Servers : ThreadInv(u)'
  <1> USE DEF Runs!Client, Runs!Asked
  <1>0. Shape'
    BY ShapeStep
  <1>R. ASSUME UNCHANGED <<disk, core>>
        PROVE  Runs!Now' = Runs!Now
    BY <1>R DEF Runs!Now
  <1>K. ASSUME UNCHANGED <<disk, core, entry, server>>,
               \A u \in Runs!Servers : Active(u) /\ conn[server[u].client].sent =>
                  conn'[server[u].client].sent
                  /\ conn'[server[u].client].request = conn[server[u].client].request
        PROVE  \A u \in Runs!Servers : ThreadInv(u)'
    BY <1>K, <1>R, Quiet DEF ThreadInv, ThreadRuns
  <1>1. ASSUME NEW c \in Clients, NEW s \in Runs!Servers, Runs!Connect(c, s)
        PROVE  \A u \in Runs!Servers : ThreadInv(u)'
    <2>1. \A u \in Runs!Servers : Active(u) => conn'[server[u].client] = conn[server[u].client]
      BY <1>1 DEF Runs!Connect, Runs!Free, Busy, Active, Shape
    <2> QED
      BY <1>1, <1>K, <2>1 DEF Runs!Connect
  <1>2. ASSUME NEW c \in Clients, Sends(c)
        PROVE  \A u \in Runs!Servers : ThreadInv(u)'
    <2>1. \A d \in Clients : d # c => conn'[d] = conn[d]
      BY <1>2 DEF Sends, Shape
    <2>2. \A u \in Runs!Servers : Active(u) /\ conn[server[u].client].sent =>
              conn'[server[u].client] = conn[server[u].client]
      BY <1>2, <2>1 DEF Sends, Busy, Active
    <2> QED
      BY <1>2, <1>K, <2>2 DEF Sends
  <1>3. ASSUME NEW c \in Clients, Runs!Leave(c)
        PROVE  \A u \in Runs!Servers : ThreadInv(u)'
    <2>1. \A d \in Clients : (conn[d].sent => conn'[d].sent) /\ conn'[d].request = conn[d].request
      BY <1>3 DEF Runs!Leave, Shape, Connection
    <2>2. \A u \in Runs!Servers : Active(u) => server[u].client \in Clients
      BY DEF Busy, Active
    <2> QED
      BY <1>3, <1>K, <2>1, <2>2 DEF Runs!Leave
  <1>4. ASSUME NEW s \in Runs!Servers, Runs!Accept(s)
        PROVE  \A u \in Runs!Servers : ThreadInv(u)'
    <2>1. PICK c \in Clients :
              /\ conn[c].at = s /\ conn[c].state = "waiting"
              /\ \/ /\ conn' = [conn EXCEPT ![c] = [Runs!NoConnection EXCEPT !.state = "dropped"]]
                    /\ UNCHANGED server
                 \/ /\ conn' = [conn EXCEPT ![c].state = "served"]
                    /\ server' = [server EXCEPT ![s] = Runs!Serving(s, c)]
      BY <1>4 DEF Runs!Accept
    <2>2. \A u \in Runs!Servers : Active(u) => conn'[server[u].client] = conn[server[u].client]
      <3>1. \A d \in Clients : d # c => conn'[d] = conn[d]
        BY <2>1 DEF Shape
      <3> QED
        BY <2>1, <3>1 DEF Busy, Active
    <2>3. CASE UNCHANGED server
      BY <1>4, <1>K, <2>2, <2>3 DEF Runs!Accept
    <2>4. CASE server' = [server EXCEPT ![s] = Runs!Serving(s, c)]
      <3>1. server'[s].pc \in {"state", "parse"} /\ server'[s].since = Runs!Now
        BY <2>4, ServingThread DEF Shape
      <3>2. \A u \in Runs!Servers : u # s => server'[u] = server[u]
        BY <2>4 DEF Shape
      <3>3. UNCHANGED <<disk, core, entry>> /\ Runs!Now' = Runs!Now
        BY <1>4, <1>R DEF Runs!Accept
      <3>4. ThreadInv(s)'
        BY <3>1, <3>3 DEF ThreadInv, ThreadRuns, ThreadHeard, ThreadSaved
      <3>5. ASSUME NEW u \in Runs!Servers, u # s
            PROVE  ThreadInv(u)'
        BY <2>2, <3>2, <3>3, <3>5, Quiet DEF ThreadInv, ThreadRuns
      <3> QED
        BY <3>4, <3>5
    <2> QED
      BY <2>1, <2>3, <2>4
  <1>5. ASSUME NEW s \in Runs!Servers, Runs!Parse(s)
        PROVE  \A u \in Runs!Servers : ThreadInv(u)'
    <2>1. PICK request :
              /\ \/ /\ conn[server[s].client].sent
                    /\ request \in Runs!Seen(conn[server[s].client].request)
                 \/ request = Runs!Bad
              /\ server' = [Runs!At(s, "route") EXCEPT ![s].request = request]
      BY <1>5 DEF Runs!Parse
    <2>2. conn[server[s].client].request \in Runs!Request
      BY <1>5 DEF Runs!Parse, Busy, Shape, Connection
    <2>3. request.op # "bad" =>
              conn[server[s].client].sent /\ conn[server[s].client].request.cut # "body"
      BY <2>1, <2>2, SeenIsRequest DEF Runs!Bad, Runs!Page
    <2>4. \A u \in Runs!Servers :
              /\ server'[u].client = server[u].client
              /\ server'[u].since = server[u].since /\ server'[u].wanted = server[u].wanted
              /\ server'[u].clean <=> server[u].clean
              /\ server'[u].code = server[u].code
              /\ u = s => server'[u].pc = "route" /\ server'[u].request = request
              /\ u # s => server'[u].pc = server[u].pc /\ server'[u].request = server[u].request
      BY <2>1 DEF Runs!At, Shape, Thread
    <2>5. UNCHANGED <<disk, core, entry, conn>> /\ Runs!Now' = Runs!Now
      BY <1>5, <1>R DEF Runs!Parse
    <2>6. ThreadRuns(s)'
      BY <1>5, <2>4, <2>5 DEF Runs!Parse, ThreadInv, ThreadRuns, Active
    <2>7. ThreadHeard(s)'
      BY <2>3, <2>4, <2>5 DEF ThreadHeard
    <2>8. ThreadSaved(s)'
      BY <2>4 DEF ThreadSaved
    <2>9. ASSUME NEW u \in Runs!Servers, u # s
          PROVE  ThreadInv(u)'
      BY <2>4, <2>5, <2>9, Quiet DEF ThreadInv, ThreadRuns
    <2> QED
      BY <2>6, <2>7, <2>8, <2>9 DEF ThreadInv
  <1>6. ASSUME NEW s \in Runs!Servers, Runs!Route(s)
        PROVE  \A u \in Runs!Servers : ThreadInv(u)'
    <2>0. server[s].pc = "route" /\ UNCHANGED <<disk, core, entry>>
      BY <1>6 DEF Runs!Route
    <2>1. ASSUME NEW code \in {200, 204, 400, 403, 404}, Runs!Answer(s, code),
                 (code = 200 /\ server[s].request.op = "core") => ~server[s].request.post
          PROVE  \A u \in Runs!Servers : ThreadInv(u)'
      BY <2>0, <2>1, AnswerInv DEF SavedOf
    <2>2. ASSUME server[s].request.op = "apply", server' = Runs!At(s, "apply"), UNCHANGED conn
          PROVE  \A u \in Runs!Servers : ThreadInv(u)'
      BY <2>0, <2>2, AtInv
    <2>3. ASSUME server[s].request.op = "trigger", server' = Runs!At(s, "registry"), UNCHANGED conn
          PROVE  \A u \in Runs!Servers : ThreadInv(u)'
      BY <2>0, <2>3, AtInv
    <2>4. ASSUME Runs!Fail(s)
          PROVE  \A u \in Runs!Servers : ThreadInv(u)'
      BY <2>0, <2>4, FailInv
    <2> QED
      BY <1>6, <2>1, <2>2, <2>3, <2>4, RouteMoves
  <1>7. ASSUME NEW s \in Runs!Servers, Runs!SaveCore(s)
        PROVE  \A u \in Runs!Servers : ThreadInv(u)'
    <2>0. server[s].pc = "route"
      BY <1>7 DEF Runs!SaveCore
    <2>1. CASE Runs!Answer(s, 400) /\ UNCHANGED core
      BY <1>7, <2>0, <2>1, AnswerInv DEF Runs!SaveCore
    <2>2. CASE /\ server' = Saved(Runs!Seeing(Runs!Crossed(Runs!At(s, "sync"), s), Runs!Now'), s,
                                  core'.autoStart, core.autoStart)
               /\ UNCHANGED conn
      <3>0. core' \in Core /\ core \in Core /\ Runs!Now' \in SUBSET Runs!Facts
        BY <1>0, NowFacts DEF Shape
      <3>1. core'.autoStart \in BOOLEAN \cup {Unset} /\ core.autoStart \in BOOLEAN \cup {Unset}
        BY <3>0 DEF Core
      <3>2. \A u \in Runs!Servers :
              /\ server'[u].client = server[u].client /\ server'[u].code = server[u].code
              /\ server'[u].request = server[u].request
              /\ server'[u].since = server[u].since \cup Runs!Now'
              /\ u = s => server'[u].pc = "sync" /\ server'[u].wanted = core'.autoStart
              /\ u # s => server'[u].pc = server[u].pc /\ ~server'[u].clean
        BY <2>2, <3>0, <3>1, SaveMoves
      <3>3. ASSUME NEW u \in Runs!Servers
            PROVE  ThreadRuns(u)'
        BY <2>0, <3>2 DEF ThreadInv, ThreadRuns, Active
      <3>4. ASSUME NEW u \in Runs!Servers
            PROVE  ThreadHeard(u)'
        BY <2>0, <2>2, <3>2 DEF ThreadInv, ThreadHeard, Active
      <3>5. ASSUME NEW u \in Runs!Servers
            PROVE  ThreadSaved(u)'
        BY <3>2 DEF ThreadSaved
      <3> QED
        BY <3>3, <3>4, <3>5 DEF ThreadInv
    <2> QED
      BY <1>7, <2>1, <2>2 DEF Runs!SaveCore, Saved
  <1>8. ASSUME NEW s \in Runs!Servers, Runs!Sync(s)
        PROVE  \A u \in Runs!Servers : ThreadInv(u)'
    <2>1. \A u \in Runs!Servers :
              /\ Alike(server'[u], server[u])
              /\ u = s => /\ server'[u].pc = "respond" /\ server'[u].code \in {200, 400}
                          /\ server'[u].clean <=> server[u].clean
              /\ u # s => server'[u].pc = server[u].pc /\ server'[u].code = server[u].code
              /\ u # s => \/ ~server'[u].clean
                          \/ (server'[u].clean <=> server[u].clean) /\ UNCHANGED entry
      BY <1>8, SyncMoves
    <2>2. /\ server[s].pc = "sync" /\ UNCHANGED <<disk, core, conn>>
          /\ Runs!Now' = Runs!Now
      BY <1>8, <1>R DEF Runs!Sync
    <2>3. ThreadRuns(s)'
      BY <2>1, <2>2 DEF Alike, ThreadInv, ThreadRuns, Active
    <2>4. ThreadHeard(s)'
      BY <2>1, <2>2 DEF Alike, ThreadInv, ThreadHeard, Active
    <2>5. ThreadSaved(s)'
      <3>1. server'[s].code = 200 => entry' = (server[s].wanted = TRUE)
        BY <1>8, SyncApplies
      <3>2. server'[s].clean => server[s].wanted = core.autoStart
        BY <2>1, <2>2 DEF ThreadInv, ThreadSaved
      <3>3. server'[s].pc = "respond" /\ core' = core
        BY <2>1, <2>2
      <3> QED
        BY <3>1, <3>2, <3>3 DEF ThreadSaved
    <2>6. ASSUME NEW u \in Runs!Servers, u # s
          PROVE  ThreadInv(u)'
      BY <2>1, <2>2, <2>6, Quiet DEF Alike, ThreadInv, ThreadRuns
    <2> QED
      BY <2>3, <2>4, <2>5, <2>6 DEF ThreadInv
  <1>9. ASSUME NEW s \in Runs!Servers, Runs!ApplyEnds(s)
        PROVE  \A u \in Runs!Servers : ThreadInv(u)'
    <2>1. ~SavedOf(s)
      BY <1>9 DEF Runs!ApplyEnds, SavedOf, ThreadInv, ThreadRuns
    <2> QED
      BY <1>9, <2>1, AnswerInv DEF Runs!ApplyEnds
  <1>10. ASSUME NEW s \in Runs!Servers, Runs!LoadRegistry(s)
         PROVE  \A u \in Runs!Servers : ThreadInv(u)'
    <2>0. /\ server[s].pc = "registry" /\ UNCHANGED <<disk, core, entry>>
          /\ server[s].request.op = "trigger"
      BY <1>10 DEF Runs!LoadRegistry, ThreadInv, ThreadRuns
    <2>1. CASE Runs!Answer(s, 400)
      BY <2>0, <2>1, AnswerInv
    <2>2. CASE /\ server' = Runs!At(s, "filter") /\ UNCHANGED conn
               /\ server[s].request.ext \in disk.installed
      <3>1. <<"installed", server[s].request.ext>> \in Runs!Now
        BY <2>2 DEF Runs!Now, Runs!Facts, Shape, Disk
      <3>2. <<"installed", server[s].request.ext>> \in server[s].since
        BY <2>0, <3>1 DEF ThreadInv, ThreadRuns, Active
      <3> QED
        BY <2>0, <2>2, <3>2, AtInv
    <2> QED
      BY <1>10, <2>1, <2>2 DEF Runs!LoadRegistry
  <1>16. ASSUME NEW s \in Runs!Servers, Runs!BuildState(s)
         PROVE  \A u \in Runs!Servers : ThreadInv(u)'
    <2>0. server[s].pc = "state" /\ UNCHANGED <<disk, core, entry>>
      BY <1>16 DEF Runs!BuildState
    <2>1. CASE server' = [Runs!At(s, "parse") EXCEPT ![s].known = server[s].all \ core.disabled]
               /\ UNCHANGED conn
      <3>1. \A u \in Runs!Servers :
                /\ Alike(server'[u], server[u]) /\ server'[u].code = server[u].code
                /\ (server'[u].clean <=> server[u].clean)
                /\ u = s => server'[u].pc = "parse"
                /\ u # s => server'[u].pc = server[u].pc
        BY <2>1, BuiltMoves
      <3>2. Runs!Now' = Runs!Now
        BY <2>0, <1>R
      <3>3. ThreadRuns(s)'
        BY <2>0, <3>1, <3>2 DEF Alike, ThreadInv, ThreadRuns, Active
      <3>4. ThreadHeard(s)' /\ ThreadSaved(s)'
        BY <3>1 DEF ThreadHeard, ThreadSaved
      <3>5. ASSUME NEW u \in Runs!Servers, u # s
            PROVE  ThreadInv(u)'
        BY <2>0, <2>1, <3>1, <3>2, <3>5, Quiet DEF Alike, ThreadInv, ThreadRuns
      <3> QED
        BY <3>3, <3>4, <3>5 DEF ThreadInv
    <2>2. CASE Runs!Fail(s)
      BY <2>0, <2>2, FailInv
    <2> QED
      BY <1>16, <2>1, <2>2 DEF Runs!BuildState
  <1>17. ASSUME NEW s \in Runs!Servers, Runs!FilterRegistry(s)
         PROVE  \A u \in Runs!Servers : ThreadInv(u)'
    <2>0. /\ server[s].pc = "filter" /\ UNCHANGED <<disk, core, entry>>
          /\ server[s].request.op = "trigger"
          /\ <<"installed", server[s].request.ext>> \in server[s].since
          /\ Runs!Now \subseteq server[s].since
      BY <1>17 DEF Runs!FilterRegistry, ThreadInv, ThreadRuns, Active
    <2>1. CASE Runs!Answer(s, 400)
      BY <2>0, <2>1, AnswerInv
    <2>2. CASE /\ server' = Runs!At(s, "run") /\ UNCHANGED conn
               /\ server[s].request.ext \notin core.disabled \cup Foreign
      <3>1. server[s].since \subseteq Runs!Facts
        BY DEF Shape, Thread
      <3>2. <<"enabled", server[s].request.ext>> \in Runs!Now
        BY <2>0, <2>2, <3>1 DEF Runs!Now, Runs!Facts
      <3> QED
        BY <2>0, <2>2, <3>2, AtInv
    <2> QED
      BY <1>17, <2>1, <2>2 DEF Runs!FilterRegistry
  <1>11. ASSUME NEW s \in Runs!Servers, Runs!RunEnds(s)
         PROVE  \A u \in Runs!Servers : ThreadInv(u)'
    <2>1. ~SavedOf(s)
      BY <1>11 DEF Runs!RunEnds, SavedOf, ThreadInv, ThreadRuns
    <2> QED
      BY <1>11, <2>1, AnswerInv DEF Runs!RunEnds
  <1>12. ASSUME NEW s \in Runs!Servers, Runs!Respond(s)
         PROVE  \A u \in Runs!Servers : ThreadInv(u)'
    <2>1. CASE /\ conn' = [Runs!Dropped(s, server[s].code = 204) EXCEPT ![server[s].client].state = "answered"]
               /\ server' = Runs!Over(s, IF server[s].code = 204 THEN "ended" ELSE "idle")
      <3>1. conn[server[s].client].at = s
        BY <1>12 DEF Runs!Respond, Busy
      <3>2. \A c \in Clients : conn[c].state = "served" /\ conn[c].at # s => conn'[c] = conn[c]
        BY <2>1, <3>1 DEF Runs!Dropped
      <3> QED
        BY <1>12, <2>1, <3>2, OverInv DEF Runs!Respond
    <2>2. CASE Runs!Fail(s)
      BY <1>12, <2>2, FailInv DEF Runs!Respond
    <2> QED
      BY <1>12, <2>1, <2>2 DEF Runs!Respond
  <1>13. ASSUME Runs!LocalEnds
         PROVE  \A u \in Runs!Servers : ThreadInv(u)'
    <2>1. \A c \in Clients : conn[c].state = "served" /\ conn[c].at # "local" => conn'[c] = conn[c]
      BY <1>13 DEF Runs!LocalEnds, Runs!Dropped
    <2> QED
      BY <1>13, <2>1, OverInv DEF Runs!LocalEnds, Runs!Servers
  <1>14. ASSUME Runs!ChangeDisk
         PROVE  \A u \in Runs!Servers : ThreadInv(u)'
    <2> DEFINE seeing == Runs!Seeing(server, Runs!Now')
    <2>1. \A u \in Runs!Servers :
              /\ seeing[u].client = server[u].client
              /\ seeing[u].request = server[u].request
              /\ seeing[u].wanted = server[u].wanted
              /\ seeing[u].since = server[u].since \cup Runs!Now'
              /\ seeing[u].pc = server[u].pc
              /\ seeing[u].code = server[u].code
              /\ seeing[u].clean <=> server[u].clean
      BY SeeingMoves DEF Shape
    <2>2. server' = seeing /\ UNCHANGED <<core, entry, conn>>
      BY <1>14 DEF Runs!ChangeDisk
    <2> HIDE DEF seeing
    <2> QED
      BY <2>1, <2>2, Quiet
  <1>15. ASSUME NEW b \in BOOLEAN, Runs!Install(b)
         PROVE  \A u \in Runs!Servers : ThreadInv(u)'
    <2> DEFINE crossed == Runs!Crossed(server, "installer")
    <2>1. \A u \in Runs!Servers :
              /\ Alike(crossed[u], server[u])
              /\ crossed[u].pc = server[u].pc /\ crossed[u].code = server[u].code
              /\ ~crossed[u].clean
      BY CrossedMoves DEF Shape, Runs!Servers
    <2>2. server' = crossed /\ UNCHANGED <<disk, core, conn>> /\ Runs!Now' = Runs!Now
      BY <1>15, <1>R DEF Runs!Install
    <2> HIDE DEF crossed
    <2> QED
      BY <2>1, <2>2, Quiet DEF Alike, ThreadInv, ThreadRuns
  <1> QED
    BY <1>1, <1>2, <1>3, <1>4, <1>5, <1>6, <1>7, <1>8, <1>9, <1>10, <1>11, <1>12,
       <1>13, <1>14, <1>15, <1>16, <1>17
       DEF ServersStep, Runs!ServerStep
-----------------------------------------------------------------------------
(* The inductive invariant.                                                *)

ServersInv == Shape /\ Busy /\ \A u \in Runs!Servers : ThreadInv(u)

\* Connections are counted: those that wait and those that may come.
OpensInv == Opens!TypeOK /\ pending + connections <= MaxPages

IInv == part \in {"saves", "runs", "live", "opens"} /\ ServersInv /\ OpensInv

\* The first state of the servers, whichever the part.
LEMMA ServersInit ==
    ASSUME disk = [installed |-> Extensions, readable |-> TRUE],
           core = [disabled |-> {}, autoStart |-> Unset], entry = FALSE,
           conn = [c \in Clients |-> Runs!NoConnection],
           server = [s \in Runs!Servers |-> Runs!Idle(disk.installed, disk.installed)],
           left \in Bounds
    PROVE  ServersInv
  <1>1. Runs!Idle(disk.installed, disk.installed) \in Thread
    BY Records
  <1>2. Shape
    <2>1. disk \in Disk
      BY DEF Disk
    <2>2. core \in Core
      BY DEF Core
    <2>3. conn \in [Clients -> Connection]
      BY Records
    <2>4. server \in [Runs!Servers -> Thread]
      BY <1>1
    <2> QED
      BY <2>1, <2>2, <2>3, <2>4 DEF Shape
  <1>3. \A s \in Runs!Servers : server[s].pc = "idle" /\ server[s].code = 0
    BY DEF Runs!Idle
  <1>4. Busy
    BY <1>3 DEF Busy, Runs!NoConnection, Runs!Servers
  <1>5. \A u \in Runs!Servers : ThreadInv(u)
    BY <1>3 DEF ThreadInv, ThreadRuns, ThreadHeard, ThreadSaved, Active
  <1> QED
    BY <1>2, <1>4, <1>5 DEF ServersInv

\* The inductive invariant holds initially.
LEMMA InitIInv == Init => IInv
  <1> SUFFICES ASSUME Init
               PROVE  IInv
    OBVIOUS
  <1>1. Saves!Init => ServersInv
    <2>1. Saves!Init => left \in Bounds
      BY SettingsAssumption DEF Saves!Init, Bounds, Saves!ConstantsAssumption
    <2> QED
      BY <2>1, ServersInit DEF Saves!Init, Saves!NoConnection, Runs!NoConnection,
         Saves!Page, Runs!Page,
         Saves!Idle, Runs!Idle, Saves!Servers, Runs!Servers
  <1>2. Runs!Init => ServersInv
    <2>1. Runs!Init => left \in Bounds
      BY SettingsAssumption DEF Runs!Init, Bounds, Runs!ConstantsAssumption
    <2> QED
      BY <2>1, ServersInit DEF Runs!Init
  <1>3. Live!Init => ServersInv
    <2>1. Live!Init => left \in Bounds
      BY SettingsAssumption DEF Live!Init, Bounds, Live!ConstantsAssumption
    <2> QED
      BY <2>1, ServersInit DEF Live!Init, Live!NoConnection, Runs!NoConnection,
         Live!Page, Runs!Page,
         Live!Idle, Runs!Idle, Live!Servers, Runs!Servers
  <1>4. OpensInv
    <2>1. Opens!Init /\ MaxPages \in Nat
      BY SettingsAssumption DEF Init, Opens!UiOpenAssumption
    <2> QED
      BY <2>1 DEF Opens!Init, OpensInv, Opens!TypeOK, Opens!Over
  <1> QED
    BY <1>1, <1>2, <1>3, <1>4 DEF Init, IInv

\* The process of "ui open": a connection waits only at an open port.
LEMMA OpensStep ==
    ASSUME OpensInv, Opens!Next
    PROVE  OpensInv'
  <1> USE DEF OpensInv, Opens!TypeOK, Opens!Over
  <1>0. MaxPages \in Nat
    BY SettingsAssumption DEF Opens!UiOpenAssumption
  <1>1. ASSUME NEW how \in {"ended", "failed"}, Opens!Exit(how)
        PROVE  OpensInv'
    BY <1>0, <1>1 DEF Opens!Exit
  <1>2. CASE Opens!Main
    BY <1>0, <1>1, <1>2 DEF Opens!Main, Opens!Bind, Opens!OpenBrowser, Opens!SpawnServer,
       Opens!OpenWindow, Opens!Headless, Opens!Tell, Opens!End
  <1>3. ASSUME NEW ok \in BOOLEAN, Opens!Stop(ok)
        PROVE  OpensInv'
    BY <1>0, <1>3 DEF Opens!Stop
  <1>4. CASE Opens!Serve
    BY <1>0, <1>3, <1>4 DEF Opens!Serve, Opens!Accept, Opens!Handle
  <1>5. CASE Opens!TimeOut
    BY <1>3, <1>5 DEF Opens!TimeOut
  <1>6. CASE Opens!Connect
    BY <1>0, <1>6 DEF Opens!Connect
  <1>7. CASE Opens!CloseWindow
    BY <1>0, <1>7 DEF Opens!CloseWindow
  <1> QED
    BY <1>2, <1>4, <1>5, <1>6, <1>7 DEF Opens!Next

\* Every step keeps it.
LEMMA NextIInv == IInv /\ [Next]_vars => IInv'
  <1> SUFFICES ASSUME IInv, [Next]_vars
               PROVE  IInv'
    OBVIOUS
  <1>1. ASSUME UNCHANGED serverVars
        PROVE  ServersInv'
    <2>1. Shape'
      BY <1>1 DEF serverVars, IInv, ServersInv, Shape
    <2>2. Busy'
      BY <1>1 DEF serverVars, IInv, ServersInv, Busy
    <2>3. \A u \in Runs!Servers : ThreadInv(u)'
      BY <1>1 DEF serverVars, IInv, ServersInv, ThreadInv, ThreadRuns, ThreadHeard, ThreadSaved,
         Active, SavedOf, Runs!Now
    <2> QED
      BY <2>1, <2>2, <2>3 DEF ServersInv
  <1>2. ASSUME UNCHANGED openVars
        PROVE  OpensInv'
    BY <1>2 DEF openVars, IInv, OpensInv, Opens!TypeOK
  <1>3. ASSUME ServersStep
        PROVE  ServersInv'
    BY <1>3, ShapeStep, BusyStep, ThreadStep DEF IInv, ServersInv
  <1>4. CASE Saves!Next /\ UNCHANGED <<part, openVars>>
    BY <1>2, <1>3, <1>4, SavesStep DEF IInv
  <1>5. CASE Runs!Next /\ UNCHANGED <<part, openVars>>
    BY <1>2, <1>3, <1>5, RunsStep DEF IInv
  <1>6. CASE Live!Next /\ UNCHANGED <<part, openVars>>
    BY <1>2, <1>3, <1>6, LiveStep DEF IInv
  <1>7. CASE Opens!Next /\ UNCHANGED <<part, serverVars>>
    BY <1>1, <1>7, OpensStep DEF IInv
  <1>8. CASE UNCHANGED vars
    BY <1>1, <1>2, <1>8 DEF IInv, vars
  <1> QED
    BY <1>4, <1>5, <1>6, <1>7, <1>8 DEF Next

\* The inductive invariant, for any extensions, clients, requests and bounds.
THEOREM Invariant == Spec => []IInv
  BY InitIInv, NextIInv, PTL DEF Spec
-----------------------------------------------------------------------------
(* What follows from it.                                                   *)

\* What Shape and Busy say of the variables, as TypeOK says it.
LEMMA ShapeTypes ==
    ASSUME Shape, Busy
    PROVE  Runs!TypeOK
  <1>1. /\ disk.installed \subseteq Extensions /\ disk.readable \in BOOLEAN
        /\ core.disabled \subseteq Extensions /\ core.autoStart \in BOOLEAN \cup {Unset}
        /\ entry \in BOOLEAN
    BY DEF Shape, Disk, Core
  <1>2. \A c \in Clients :
        /\ conn[c].state \in {"none", "waiting", "served", "answered", "dropped"}
        /\ conn[c].state = "served" => server[conn[c].at].client = c
    BY DEF Shape, Busy, Connection
  <1>3. \A s \in Runs!Servers :
        /\ server[s].pc \in Threads
        /\ server[s].pc \notin {"idle", "ended"} => conn[server[s].client].state = "served"
        /\ s = "daemon" => server[s].pc # "ended"
    BY DEF Shape, Busy, Thread
  <1>4. \A bound \in DOMAIN left : left[bound] \in Nat
    BY DEF Shape, Bounds
  <1> QED
    BY <1>1, <1>2, <1>3, <1>4 DEF Runs!TypeOK, Runs!Client, Threads

\* Types of the settings: a busy server serves one connection, a connection
\* that is served has its server, and connections wait only at an open port.
THEOREM TypeCorrect == Spec => []TypeOK
  <1>1. IInv => TypeOK
    <2> SUFFICES ASSUME IInv
                 PROVE  TypeOK
      OBVIOUS
    <2>1. Runs!TypeOK
      BY ShapeTypes DEF IInv, ServersInv
    <2>2. Saves!TypeOK
      BY <2>1 DEF Saves!TypeOK, Runs!TypeOK, Saves!Client, Runs!Client, Saves!Servers,
         Runs!Servers
    <2>3. Live!TypeOK
      BY <2>1 DEF Live!TypeOK, Runs!TypeOK, Live!Client, Runs!Client, Live!Servers, Runs!Servers
    <2>4. Opens!TypeOK
      BY DEF IInv, OpensInv
    <2>5. part \in {"saves", "runs", "live", "opens"}
      BY DEF IInv
    <2> QED
      BY <2>1, <2>2, <2>3, <2>4, <2>5 DEF TypeOK
  <1> QED
    BY <1>1, Invariant, PTL

\* The settings that are answered with success are those the login follows, if
\* nobody else has saved or installed meanwhile, whatever pages send, in whatever
\* order, to either server.
THEOREM SavesAreApplied == Spec => []OkMeansApplied
  <1>1. IInv => OkMeansApplied
    <2> SUFFICES ASSUME IInv
                 PROVE  OkMeansApplied
      OBVIOUS
    <2>1. Runs!OkMeansApplied
      BY DEF IInv, ServersInv, ThreadInv, ThreadSaved, SavedOf, Runs!OkMeansApplied, Runs!Asked
    <2>2. Saves!OkMeansApplied
      BY <2>1 DEF Saves!OkMeansApplied, Runs!OkMeansApplied, Saves!Asked, Runs!Asked,
         Saves!Servers, Runs!Servers
    <2> QED
      BY <2>1, <2>2 DEF OkMeansApplied
  <1> QED
    BY <1>1, Invariant, PTL

\* A trigger runs only what was installed at some moment since it was accepted
\* and enabled at some moment since then, although the page, the folders and the
\* settings are of different moments; and none runs whose body ended early.
THEOREM TriggersRunEnabled == Spec => []TriggerRunsEnabled
  <1>1. IInv => TriggerRunsEnabled
    <2> SUFFICES ASSUME IInv
                 PROVE  TriggerRunsEnabled
      OBVIOUS
    <2>1. Runs!TriggerRunsEnabled
      <3> SUFFICES ASSUME NEW s \in Runs!Servers, server[s].pc = "run"
                   PROVE  /\ server[s].request.ext \notin Foreign
                          /\ {"installed", "enabled"} \X {server[s].request.ext}
                                \subseteq server[s].since
        BY DEF Runs!TriggerRunsEnabled, Runs!Asked
      <3> DEFINE ext == server[s].request.ext
      <3>1. /\ ext \notin Foreign
            /\ <<"installed", ext>> \in server[s].since /\ <<"enabled", ext>> \in server[s].since
        BY DEF IInv, ServersInv, ThreadInv, ThreadRuns
      <3> HIDE DEF ext
      <3> QED
        BY <3>1 DEF ext
    <2>2. Runs!NoRunFromHalfABody
      BY DEF IInv, ServersInv, ThreadInv, ThreadRuns, ThreadHeard, Active,
         Runs!NoRunFromHalfABody, Runs!Client
    <2> QED
      BY <2>1, <2>2 DEF TriggerRunsEnabled
  <1> QED
    BY <1>1, Invariant, PTL
-----------------------------------------------------------------------------
(* That connections get on: the safety half of EverybodyIsAnswered.        *)

\* A connection that has no answer yet.
UnderWay(c) == conn[c].state \in {"waiting", "served"}

\* No connection waits for a server that has ended.
Listening == \A c \in Clients : UnderWay(c) => server[conn[c].at].pc # "ended"

\* The stages before a thread and before a connection.
StagesLeft(pc) ==
    CASE pc = "state" -> 7
      [] pc = "parse" -> 6
      [] pc = "route" -> 5
      [] pc \in {"sync", "apply", "registry"} -> 4
      [] pc = "filter" -> 3
      [] pc = "run" -> 2
      [] pc = "respond" -> 1
      [] OTHER -> 0
StagesOf(c) ==
    IF conn[c].state = "waiting" THEN 8
    ELSE IF conn[c].state = "served" THEN StagesLeft(server[conn[c].at].pc) ELSE 0

\* The step brings the connection nearer to its answer, or leaves it where it is.
Stays(c) ==
    /\ conn'[c].state = conn[c].state /\ conn'[c].at = conn[c].at
    /\ conn[c].state = "served" => server'[conn[c].at].pc = server[conn[c].at].pc
Nearer(c) == StagesOf(c)' < StagesOf(c) \/ Stays(c)

\* The guards of a server's steps; there is an answer to every operation.
RouteCan(s) ==
    LET r == server[s].request
    IN  \/ r.op = "bad" \/ ~Runs!Authorized(r) \/ Runs!Missing(s)
        \/ r.op \in {"page", "descriptor", "coreInfo", "info", "close", "apply", "trigger"}
        \/ r.op \in {"core", "config"} /\ ~r.post
        \/ r.op \in {"core", "config"} /\ r.post
ServerCan(s) ==
    LET client == conn[server[s].client]
    IN  \/ server[s].pc = "idle" /\ \E c \in Clients : conn[c].at = s /\ conn[c].state = "waiting"
        \/ server[s].pc = "parse" /\ client.sent /\ Runs!Seen(client.request) # {}
        \/ server[s].pc = "parse" /\ ~client.sent /\ client.gone
        \/ server[s].pc = "route" /\ RouteCan(s)
        \/ server[s].pc \in {"state", "sync", "apply", "registry", "filter", "run", "respond"}

\* A server that waits for the client it has accepted, with no limit of time.
WaitsForClient(s) ==
    /\ server[s].pc = "parse"
    /\ ~conn[server[s].client].sent /\ ~conn[server[s].client].gone

\* The guards of the threads of "ui open".
MainCan ==
    \/ main \in {"bind", "print"}
    \/ main = "launch" /\ mode \in {"browser", "window", "headless"}
    \/ main = "window" /\ window = "none"
ServeCan == loop \in {"idle", "busy"}

\* How far the process is from its end.
MainLeft ==
    CASE main = "bind" -> 4 [] main = "launch" -> 3 [] main \in {"serve", "window"} -> 2
      [] main = "print" -> 1 [] OTHER -> 0
LoopLeft == CASE loop = "busy" -> 2 [] loop \in {"none", "idle"} -> 1 [] OTHER -> 0
WindowLeft == CASE window = "none" -> 2 [] window = "open" -> 1 [] OTHER -> 0
ToldLeft == IF told THEN 0 ELSE 1
OpensLeft == 3 * connections + 2 * pending + MainLeft + LoopLeft + WindowLeft + ToldLeft

\* The port is open while the process listens or is about to.
Opened ==
    /\ mode \in Modes
    /\ port = "open" => main \notin Opens!Over
    /\ port = "open" => main = "launch" \/ loop \in {"idle", "busy"}
    /\ main \in {"bind", "launch"} => loop = "none" /\ window = "none"
    /\ main = "serve" => loop \in {"idle", "busy"}
    /\ main = "window" => window # "closed"

\* Where a thread with work is on its way.
LEMMA StagesFacts ==
    /\ \A pc \in Threads : StagesLeft(pc) \in 0 .. 7
    /\ \A pc \in Threads \ {"idle", "ended"} : StagesLeft(pc) > 0
    /\ StagesLeft("state") = 7 /\ StagesLeft("parse") = 6 /\ StagesLeft("route") = 5
    /\ StagesLeft("sync") = 4 /\ StagesLeft("apply") = 4 /\ StagesLeft("registry") = 4
    /\ StagesLeft("filter") = 3 /\ StagesLeft("run") = 2 /\ StagesLeft("respond") = 1
  <1>1. ASSUME NEW pc \in Threads \ {"idle", "ended"}
        PROVE  StagesLeft(pc) \in 1 .. 7
    BY DEF StagesLeft, Threads
  <1>2. StagesLeft("idle") = 0 /\ StagesLeft("ended") = 0
    BY DEF StagesLeft
  <1>3. /\ StagesLeft("state") = 7 /\ StagesLeft("parse") = 6 /\ StagesLeft("route") = 5
        /\ StagesLeft("sync") = 4 /\ StagesLeft("apply") = 4 /\ StagesLeft("registry") = 4
        /\ StagesLeft("filter") = 3 /\ StagesLeft("run") = 2 /\ StagesLeft("respond") = 1
    BY DEF StagesLeft
  <1> QED
    BY <1>1, <1>2, <1>3

\* What a step does for the connections.
GetOn == Listening' /\ \A c \in Clients : UnderWay(c) => Nearer(c)

\* A step that leaves threads and connections where they are.
LEMMA NobodyMoves ==
    ASSUME Shape, Listening,
           \A u \in Runs!Servers : server'[u].pc = server[u].pc,
           \A c \in Clients : conn'[c].state = conn[c].state /\ conn'[c].at = conn[c].at
    PROVE  GetOn
  <1>1. \A c \in Clients : conn[c].at \in Runs!Servers
    BY DEF Shape, Connection
  <1> QED
    BY <1>1 DEF GetOn, Listening, UnderWay, Nearer, Stays

\* A step of a thread to a later stage.
LEMMA ThreadMoves ==
    ASSUME Shape, Listening, NEW s \in Runs!Servers,
           \A u \in Runs!Servers : u # s => server'[u].pc = server[u].pc,
           server'[s].pc \in Threads \ {"ended"}, server[s].pc \in Threads,
           StagesLeft(server'[s].pc) < StagesLeft(server[s].pc),
           UNCHANGED conn
    PROVE  GetOn
  <1>1. \A c \in Clients : conn[c].at \in Runs!Servers
    BY DEF Shape, Connection
  <1>2. Listening'
    BY <1>1 DEF Listening, UnderWay
  <1>3. ASSUME NEW c \in Clients, UnderWay(c)
        PROVE  Nearer(c)
    <2>1. CASE conn[c].state = "served" /\ conn[c].at = s
      BY <2>1 DEF Nearer, StagesOf
    <2>2. CASE ~(conn[c].state = "served" /\ conn[c].at = s)
      BY <1>1, <2>2 DEF Nearer, Stays
    <2> QED
      BY <2>1, <2>2
  <1> QED
    BY <1>2, <1>3 DEF GetOn

\* The end of what a thread works for: those it leaves have an answer or see
\* the connection end.
LEMMA ThreadIsDone ==
    ASSUME Shape, Busy, Listening, NEW s \in Runs!Servers, NEW pc \in {"idle", "ended"},
           server' = Runs!Over(s, pc),
           \A c \in Clients : conn'[c] = conn[c] \/ conn'[c].state \in {"answered", "dropped"},
           \A c \in Clients : conn[c].at = s /\ conn[c].state = "served"
                                 => conn'[c].state \in {"answered", "dropped"},
           \A c \in Clients : pc = "ended" /\ conn[c].at = s /\ conn[c].state = "waiting"
                                 => conn'[c].state \in {"answered", "dropped"}
    PROVE  GetOn
  <1>1. \A c \in Clients : conn[c].at \in Runs!Servers
    BY DEF Shape, Connection
  <1>2. \A u \in Runs!Servers : /\ u # s => server'[u] = server[u]
                                /\ u = s => server'[u].pc = pc
    BY OverMoves DEF Threads
  <1>3. Listening'
    <2> SUFFICES ASSUME NEW c \in Clients, UnderWay(c)'
                 PROVE  server'[conn'[c].at].pc # "ended"
      BY DEF Listening
    <2>1. conn'[c] = conn[c] /\ UnderWay(c)
      BY DEF UnderWay
    <2>2. CASE conn[c].at = s
      BY <1>2, <2>1, <2>2 DEF UnderWay
    <2>3. CASE conn[c].at # s
      BY <1>1, <1>2, <2>1, <2>3 DEF Listening
    <2> QED
      BY <2>2, <2>3
  <1>4. ASSUME NEW c \in Clients, UnderWay(c)
        PROVE  Nearer(c)
    <2>1. CASE conn'[c].state \in {"answered", "dropped"}
      <3>1. StagesOf(c)' = 0
        BY <2>1 DEF StagesOf
      <3>2. CASE conn[c].state = "served"
        <4>1. server[conn[c].at].pc \in Threads \ {"idle", "ended"}
          BY <1>1, <3>2 DEF Busy, Shape, Thread
        <4> QED
          BY <3>1, <3>2, <4>1, StagesFacts DEF StagesOf, Nearer
      <3>3. CASE conn[c].state = "waiting"
        BY <3>1, <3>3 DEF StagesOf, Nearer
      <3> QED
        BY <1>4, <3>2, <3>3 DEF UnderWay
    <2>2. CASE conn'[c] = conn[c] /\ conn'[c].state \notin {"answered", "dropped"}
      BY <1>1, <1>2, <2>2 DEF Nearer, Stays
    <2> QED
      BY <2>1, <2>2
  <1> QED
    BY <1>3, <1>4 DEF GetOn

\* An error of a connection.
LEMMA FailGetsOn ==
    ASSUME Shape, Busy, Listening, NEW s \in Runs!Servers, Runs!Fail(s)
    PROVE  GetOn
  <1> DEFINE pc == IF s = "local" THEN "ended" ELSE "idle"
  <1>1. server' = Runs!Over(s, pc) /\ conn' = Runs!Dropped(s, s = "local")
    BY DEF Runs!Fail
  <1>2. \A c \in Clients :
            /\ conn'[c] = conn[c] \/ conn'[c].state = "dropped"
            /\ conn[c].at = s /\ conn[c].state = "served" => conn'[c].state = "dropped"
            /\ s = "local" /\ conn[c].at = s /\ conn[c].state = "waiting" => conn'[c].state = "dropped"
    BY <1>1 DEF Runs!Dropped, Runs!NoConnection
  <1> QED
    BY <1>1, <1>2, ThreadIsDone

\* An answer is the last stage but one.
LEMMA AnswerGetsOn ==
    ASSUME Shape, Busy, Listening, NEW s \in Runs!Servers, NEW code \in Nat, Runs!Answer(s, code),
           server[s].pc \in {"route", "apply", "registry", "filter", "run"}
    PROVE  GetOn
  <1>1. \A u \in Runs!Servers : /\ u = s => server'[u].pc = "respond"
                                /\ u # s => server'[u].pc = server[u].pc
    BY AnswerMoves
  <1>2. UNCHANGED conn
    BY DEF Runs!Answer
  <1> QED
    BY <1>1, <1>2, ThreadMoves, StagesFacts DEF Threads

\* Every step of servers, clients and everything else.
LEMMA GetOnStep ==
    ASSUME Shape, Busy, Listening, ServersStep
    PROVE  GetOn
  <1> USE DEF Runs!Client, Runs!Asked
  <1>0. \A c \in Clients : conn[c].at \in Runs!Servers
    BY DEF Shape, Connection
  <1>1. ASSUME NEW c \in Clients, NEW s \in Runs!Servers, Runs!Connect(c, s)
        PROVE  GetOn
    <2>1. /\ conn'[c].at = s /\ ~UnderWay(c) /\ server[s].pc # "ended" /\ UNCHANGED server
          /\ \A d \in Clients : d # c => conn'[d] = conn[d]
      BY <1>1 DEF Runs!Connect, Runs!Free, Runs!NoConnection, Shape, UnderWay
    <2> QED
      BY <1>0, <2>1 DEF GetOn, Listening, UnderWay, Nearer, Stays
  <1>2. ASSUME NEW c \in Clients, Sends(c) \/ Runs!Leave(c)
        PROVE  GetOn
    <2>1. \A d \in Clients : conn'[d].state = conn[d].state /\ conn'[d].at = conn[d].at
      <3>1. CASE Sends(c)
        BY <3>1 DEF Sends, Shape, Connection
      <3>2. CASE Runs!Leave(c)
        BY <3>2 DEF Runs!Leave, Shape, Connection
      <3> QED
        BY <1>2, <3>1, <3>2
    <2> QED
      BY <1>2, <2>1, NobodyMoves DEF Sends, Runs!Leave
  <1>3. ASSUME NEW s \in Runs!Servers, Runs!Accept(s)
        PROVE  GetOn
    <2>1. PICK c \in Clients :
              /\ conn[c].at = s /\ conn[c].state = "waiting"
              /\ \/ /\ conn' = [conn EXCEPT ![c] = [Runs!NoConnection EXCEPT !.state = "dropped"]]
                    /\ UNCHANGED server
                 \/ /\ conn' = [conn EXCEPT ![c].state = "served"]
                    /\ server' = [server EXCEPT ![s] = Runs!Serving(s, c)]
      BY <1>3 DEF Runs!Accept
    <2>2. CASE /\ conn' = [conn EXCEPT ![c] = [Runs!NoConnection EXCEPT !.state = "dropped"]]
               /\ UNCHANGED server
      <3>1. conn'[c].state = "dropped" /\ \A d \in Clients : d # c => conn'[d] = conn[d]
        BY <2>2 DEF Shape, Runs!NoConnection
      <3>2. Nearer(c)
        BY <2>1, <3>1 DEF Nearer, StagesOf
      <3> QED
        BY <1>0, <2>2, <3>1, <3>2 DEF GetOn, Listening, UnderWay, Nearer, Stays
    <2>3. CASE /\ conn' = [conn EXCEPT ![c].state = "served"]
               /\ server' = [server EXCEPT ![s] = Runs!Serving(s, c)]
      <3>1. server'[s].pc \in {"state", "parse"}
        BY <2>3, ServingThread DEF Shape
      <3>2. \A u \in Runs!Servers : u # s => server'[u] = server[u]
        BY <2>3 DEF Shape
      <3>3. \A d \in Clients : d # c => conn'[d] = conn[d]
        BY <2>3 DEF Shape
      <3>4. conn'[c].state = "served" /\ conn'[c].at = s
        BY <2>1, <2>3 DEF Shape, Connection
      <3>5. server[s].pc = "idle"
        BY <1>3 DEF Runs!Accept
      <3>6. Listening'
        BY <1>0, <3>1, <3>2, <3>3, <3>4 DEF Listening, UnderWay
      <3>7. StagesOf(c) = 8 /\ StagesOf(c)' \in {6, 7}
        BY <2>1, <3>1, <3>4, StagesFacts DEF StagesOf
      <3>8. ASSUME NEW d \in Clients, d # c, UnderWay(d)
            PROVE  Stays(d)
        <4>1. conn[d].state = "served" => conn[d].at # s
          BY <3>5 DEF Busy
        <4> QED
          BY <1>0, <3>2, <3>3, <3>8, <4>1 DEF Stays
      <3>9. Nearer(c)
        BY <3>7 DEF Nearer
      <3> QED
        BY <3>6, <3>8, <3>9 DEF GetOn, Nearer
    <2> QED
      BY <2>1, <2>2, <2>3
  <1>4. ASSUME NEW s \in Runs!Servers, Runs!Parse(s)
        PROVE  GetOn
    <2>1. PICK request : server' = [Runs!At(s, "route") EXCEPT ![s].request = request]
      BY <1>4 DEF Runs!Parse
    <2>2. \A u \in Runs!Servers : /\ u = s => server'[u].pc = "route"
                                  /\ u # s => server'[u].pc = server[u].pc
      BY <2>1 DEF Runs!At, Shape, Thread
    <2>3. server[s].pc = "parse" /\ UNCHANGED conn
      BY <1>4 DEF Runs!Parse
    <2> QED
      BY <2>2, <2>3, ThreadMoves, StagesFacts DEF Threads
  <1>5. ASSUME NEW s \in Runs!Servers, NEW pc \in {"apply", "registry", "filter", "run"},
               server' = Runs!At(s, pc), UNCHANGED conn,
               pc = "run" => server[s].pc = "filter",
               pc = "filter" => server[s].pc = "registry",
               pc \in {"apply", "registry"} => server[s].pc = "route"
        PROVE  GetOn
    <2>1. \A u \in Runs!Servers : /\ u = s => server'[u].pc = pc
                                  /\ u # s => server'[u].pc = server[u].pc
      BY <1>5, AtMoves DEF Threads
    <2>2. StagesLeft(pc) < StagesLeft(server[s].pc)
      BY <1>5, StagesFacts
    <2> QED
      BY <1>5, <2>1, <2>2, ThreadMoves DEF Threads
  <1>6. ASSUME NEW s \in Runs!Servers, Runs!Route(s)
        PROVE  GetOn
    <2>0. server[s].pc = "route"
      BY <1>6 DEF Runs!Route
    <2>1. CASE \E code \in {200, 204, 400, 403, 404} : Runs!Answer(s, code)
      BY <2>0, <2>1, AnswerGetsOn
    <2>2. CASE \E pc \in {"apply", "registry"} : server' = Runs!At(s, pc) /\ UNCHANGED conn
      BY <1>5, <2>0, <2>2
    <2> QED
      BY <1>6, <2>1, <2>2, RouteMoves, FailGetsOn
  <1>7. ASSUME NEW s \in Runs!Servers, Runs!SaveCore(s)
        PROVE  GetOn
    <2>0. server[s].pc = "route"
      BY <1>7 DEF Runs!SaveCore
    <2>1. CASE Runs!Answer(s, 400)
      BY <2>0, <2>1, AnswerGetsOn
    <2>2. CASE /\ server' = Saved(Runs!Seeing(Runs!Crossed(Runs!At(s, "sync"), s), Runs!Now'), s,
                                  core'.autoStart, core.autoStart)
               /\ UNCHANGED conn
      <3>1. Runs!Now' \in SUBSET Runs!Facts
        BY NowFacts
      <3>2. core'.autoStart \in BOOLEAN \cup {Unset} /\ core.autoStart \in BOOLEAN \cup {Unset}
        BY <1>7, ShapeStep DEF Shape, Core, ServersStep, Runs!ServerStep
      <3>3. \A u \in Runs!Servers : /\ u = s => server'[u].pc = "sync"
                                    /\ u # s => server'[u].pc = server[u].pc
        BY <2>2, <3>1, <3>2, SaveMoves
      <3> QED
        BY <2>0, <2>2, <3>3, ThreadMoves, StagesFacts DEF Threads
    <2> QED
      BY <1>7, <2>1, <2>2 DEF Runs!SaveCore, Saved
  <1>8. ASSUME NEW s \in Runs!Servers, Runs!Sync(s)
        PROVE  GetOn
    <2>1. \A u \in Runs!Servers : /\ u = s => server'[u].pc = "respond"
                                  /\ u # s => server'[u].pc = server[u].pc
      BY <1>8, SyncMoves
    <2>2. server[s].pc = "sync" /\ UNCHANGED conn
      BY <1>8 DEF Runs!Sync
    <2> QED
      BY <2>1, <2>2, ThreadMoves, StagesFacts DEF Threads
  <1>9. ASSUME NEW s \in Runs!Servers, Runs!ApplyEnds(s) \/ Runs!RunEnds(s)
        PROVE  GetOn
    BY <1>9, AnswerGetsOn DEF Runs!ApplyEnds, Runs!RunEnds
  <1>10. ASSUME NEW s \in Runs!Servers, Runs!LoadRegistry(s)
         PROVE  GetOn
    <2>0. server[s].pc = "registry"
      BY <1>10 DEF Runs!LoadRegistry
    <2>1. CASE Runs!Answer(s, 400)
      BY <2>0, <2>1, AnswerGetsOn
    <2>2. CASE server' = Runs!At(s, "filter") /\ UNCHANGED conn
      BY <1>5, <2>0, <2>2
    <2> QED
      BY <1>10, <2>1, <2>2 DEF Runs!LoadRegistry
  <1>14. ASSUME NEW s \in Runs!Servers, Runs!FilterRegistry(s)
         PROVE  GetOn
    <2>0. server[s].pc = "filter"
      BY <1>14 DEF Runs!FilterRegistry
    <2>1. CASE Runs!Answer(s, 400)
      BY <2>0, <2>1, AnswerGetsOn
    <2>2. CASE server' = Runs!At(s, "run") /\ UNCHANGED conn
      BY <1>5, <2>0, <2>2
    <2> QED
      BY <1>14, <2>1, <2>2 DEF Runs!FilterRegistry
  <1>15. ASSUME NEW s \in Runs!Servers, Runs!BuildState(s)
         PROVE  GetOn
    <2>1. CASE server' = [Runs!At(s, "parse") EXCEPT ![s].known = server[s].all \ core.disabled]
               /\ UNCHANGED conn
      <3>1. \A u \in Runs!Servers : /\ u = s => server'[u].pc = "parse"
                                    /\ u # s => server'[u].pc = server[u].pc
        BY <2>1, BuiltMoves DEF Alike
      <3> QED
        BY <1>15, <2>1, <3>1, ThreadMoves, StagesFacts DEF Runs!BuildState, Threads
    <2> QED
      BY <1>15, <2>1, FailGetsOn DEF Runs!BuildState
  <1>11. ASSUME NEW s \in Runs!Servers, Runs!Respond(s)
         PROVE  GetOn
    <2>1. CASE /\ conn' = [Runs!Dropped(s, server[s].code = 204) EXCEPT ![Runs!Client(s)].state = "answered"]
               /\ server' = Runs!Over(s, IF server[s].code = 204 THEN "ended" ELSE "idle")
      <3> DEFINE pc == IF server[s].code = 204 THEN "ended" ELSE "idle"
                 dropped == Runs!Dropped(s, server[s].code = 204)
      <3>1. server[s].client \in Clients
        BY <1>11 DEF Runs!Respond, Busy
      <3>2. \A c \in Clients :
                /\ dropped[c] = conn[c] \/ dropped[c].state = "dropped"
                /\ conn[c].at = s /\ conn[c].state = "served" => dropped[c].state = "dropped"
                /\ pc = "ended" /\ conn[c].at = s /\ conn[c].state = "waiting"
                      => dropped[c].state = "dropped"
        BY DEF Runs!Dropped, Runs!NoConnection
      <3>3. dropped \in [Clients -> Connection]
        BY DroppedShape
      <3>4. conn' = [dropped EXCEPT ![server[s].client].state = "answered"]
        BY <2>1
      <3> HIDE DEF dropped
      <3>5. conn'[server[s].client].state = "answered"
            /\ \A c \in Clients : c # server[s].client => conn'[c] = dropped[c]
        BY <3>1, <3>3, <3>4 DEF Connection
      <3> QED
        BY <2>1, <3>2, <3>5, ThreadIsDone
    <2> QED
      BY <1>11, <2>1, FailGetsOn DEF Runs!Respond
  <1>12. ASSUME Runs!LocalEnds
         PROVE  GetOn
    <2>1. server' = Runs!Over("local", "ended") /\ conn' = Runs!Dropped("local", TRUE)
      BY <1>12 DEF Runs!LocalEnds
    <2>2. \A c \in Clients :
            /\ conn'[c] = conn[c] \/ conn'[c].state = "dropped"
            /\ conn[c].at = "local" /\ UnderWay(c) => conn'[c].state = "dropped"
      BY <2>1 DEF Runs!Dropped, Runs!NoConnection, UnderWay
    <2> QED
      BY <2>1, <2>2, ThreadIsDone DEF Runs!Servers, UnderWay
  <1>13. ASSUME Runs!ChangeDisk \/ \E b \in BOOLEAN : Runs!Install(b)
         PROVE  GetOn
    <2>1. \A u \in Runs!Servers : server'[u].pc = server[u].pc
      BY <1>13 DEF Runs!ChangeDisk, Runs!Install, Runs!Seeing, Runs!Crossed, Shape, Thread
    <2>2. UNCHANGED conn
      BY <1>13 DEF Runs!ChangeDisk, Runs!Install
    <2> QED
      BY <2>1, <2>2, NobodyMoves
  <1> QED
    BY <1>1, <1>2, <1>3, <1>4, <1>6, <1>7, <1>8, <1>9, <1>10, <1>11, <1>12, <1>13, <1>14,
       <1>15
       DEF ServersStep, Runs!ServerStep

\* What a server sees of a request is never nothing.
LEMMA SomethingIsSeen == \A request : Runs!Seen(request) # {}
  <1> TAKE request
  <1>1. CASE request.cut = "line"
    BY <1>1 DEF Runs!Seen
  <1>2. CASE request.cut = "headers"
    <2>1. [request EXCEPT !.token = FALSE, !.origin = "none", !.body = "none"] \in Runs!Seen(request)
      BY <1>2 DEF Runs!Seen
    <2> QED
      BY <2>1
  <1>3. CASE request.cut = "body"
    BY <1>3 DEF Runs!Seen
  <1>4. CASE request.cut \notin {"line", "headers", "body"}
    BY <1>4 DEF Runs!Seen
  <1> QED
    BY <1>1, <1>2, <1>3, <1>4

\* A connection that is under way has a server that can go on, or that waits
\* for the client it has accepted.
LEMMA SomebodyCan ==
    ASSUME Shape, Busy, Listening, NEW c \in Clients, UnderWay(c)
    PROVE  ServerCan(conn[c].at) \/ WaitsForClient(conn[c].at)
  <1> DEFINE s == conn[c].at
  <1>1. s \in Runs!Servers /\ server[s].pc # "ended"
    BY DEF Shape, Connection, Listening
  <1>2. server[s].pc \in Threads /\ server[s].request \in Runs!Request \cup {Runs!Bad}
    BY <1>1 DEF Shape, Thread
  <1> HIDE DEF s
  <1>3. CASE server[s].pc = "idle"
    <2>1. conn[c].state = "waiting" /\ conn[c].at = s
      BY <1>3 DEF Busy, UnderWay, s
    <2> QED
      BY <1>3, <2>1 DEF ServerCan, s
  <1>4. CASE server[s].pc = "parse"
    BY <1>4, SomethingIsSeen DEF ServerCan, WaitsForClient, s
  <1>5. CASE server[s].pc = "route"
    <2>1. server[s].request.op \in Runs!Operations \cup {"bad"}
      BY <1>2 DEF Runs!Request, Runs!Bad, Runs!Page
    <2> QED
      BY <1>5, <2>1 DEF ServerCan, RouteCan, Runs!Operations, s
  <1>6. CASE server[s].pc \in {"state", "sync", "apply", "registry", "filter", "run", "respond"}
    BY <1>6 DEF ServerCan, s
  <1> QED
    BY <1>1, <1>2, <1>3, <1>4, <1>5, <1>6 DEF Threads

\* The safety half of EverybodyIsAnswered, for both servers and all requests: a
\* connection that is under way has a server that can go on, or that waits for
\* the client it has accepted; and every step, of whomever, brings it nearer to
\* its answer or leaves it where it is.  So a connection hangs only behind a
\* client that neither sends nor leaves.
THEOREM ConnectionsGetOn ==
  Spec => /\ []\A c \in Clients :
                  UnderWay(c) => ServerCan(conn[c].at) \/ WaitsForClient(conn[c].at)
          /\ [][\A c \in Clients : UnderWay(c) => Nearer(c)]_serverVars
  <1>1. Init => Listening
    BY DEF Init, Listening, UnderWay, Saves!Init, Runs!Init, Live!Init,
       Saves!NoConnection, Runs!NoConnection, Live!NoConnection
  <1>2. ASSUME IInv, Listening, [Next]_vars
        PROVE  Listening' /\ [\A c \in Clients : UnderWay(c) => Nearer(c)]_serverVars
    <2>1. CASE ServersStep
      BY <1>2, <2>1, GetOnStep DEF IInv, ServersInv, GetOn
    <2>2. CASE UNCHANGED serverVars
      BY <1>2, <2>2 DEF Listening, UnderWay, serverVars
    <2> QED
      BY <1>2, <2>1, <2>2, SavesStep, RunsStep, LiveStep DEF Next, vars, serverVars
  <1>3. ASSUME IInv, Listening
        PROVE  \A c \in Clients :
                  UnderWay(c) => ServerCan(conn[c].at) \/ WaitsForClient(conn[c].at)
    BY <1>3, SomebodyCan DEF IInv, ServersInv
  <1> QED
    BY <1>1, <1>2, <1>3, Invariant, PTL DEF Spec

\* Where the process of "ui open" is.
LEMMA OpenedStep ==
    ASSUME Opened, Opens!Next
    PROVE  Opened'
  <1> USE DEF Opened, Opens!Over
  <1>1. ASSUME NEW how \in {"ended", "failed"}, Opens!Exit(how)
        PROVE  Opened'
    BY <1>1 DEF Opens!Exit
  <1>2. CASE Opens!Main
    <2>1. CASE Opens!Bind \/ Opens!End
      <3>1. CASE main = "bind" /\ main' = "launch" /\ UNCHANGED <<mode, loop, window>>
        BY <3>1
      <3>2. CASE \E how \in {"ended", "failed"} : Opens!Exit(how)
        BY <1>1, <3>2
      <3> QED
        BY <2>1, <3>1, <3>2 DEF Opens!Bind, Opens!End
    <2>2. CASE Opens!OpenBrowser
      BY <1>1, <2>2 DEF Opens!OpenBrowser
    <2>3. CASE Opens!SpawnServer \/ Opens!Headless
      BY <2>3 DEF Opens!SpawnServer, Opens!Headless
    <2>4. CASE Opens!OpenWindow
      BY <1>1, <2>4 DEF Opens!OpenWindow
    <2>5. CASE Opens!Tell
      BY <2>5 DEF Opens!Tell
    <2> QED
      BY <1>2, <2>1, <2>2, <2>3, <2>4, <2>5 DEF Opens!Main
  <1>3. ASSUME NEW ok \in BOOLEAN, Opens!Stop(ok), loop \in {"idle", "busy"}
        PROVE  Opened'
    BY <1>3 DEF Opens!Stop
  <1>4. CASE Opens!Serve
    BY <1>3, <1>4 DEF Opens!Serve, Opens!Accept, Opens!Handle
  <1>5. CASE Opens!TimeOut
    BY <1>3, <1>5 DEF Opens!TimeOut
  <1>6. CASE Opens!Connect
    BY <1>6 DEF Opens!Connect
  <1>7. CASE Opens!CloseWindow
    BY <1>7 DEF Opens!CloseWindow
  <1> QED
    BY <1>2, <1>4, <1>5, <1>6, <1>7 DEF Opens!Next

\* What is left of each thread and of the window, and that it can be counted.
PartsCount ==
    /\ pending \in Nat /\ connections \in Nat
    /\ MainLeft \in 0 .. 4 /\ LoopLeft \in 0 .. 2 /\ WindowLeft \in 0 .. 2
    /\ ToldLeft \in 0 .. 1
    /\ main = "bind" => MainLeft = 4
    /\ main = "launch" => MainLeft = 3
    /\ main \in {"serve", "window"} => MainLeft = 2
    /\ main = "print" => MainLeft = 1
    /\ main \in {"ended", "failed"} => MainLeft = 0
    /\ loop = "busy" => LoopLeft = 2
    /\ loop \in {"none", "idle"} => LoopLeft = 1
    /\ loop = "over" => LoopLeft = 0
    /\ window = "none" => WindowLeft = 2
    /\ window = "open" => WindowLeft = 1
    /\ window = "closed" => WindowLeft = 0

\* It follows from the types.
LEMMA PartsLeft == OpensInv => PartsCount
  <1> SUFFICES ASSUME OpensInv
               PROVE  PartsCount
    OBVIOUS
  <1>1. main \in {"bind", "launch", "serve", "window", "print", "ended", "failed"}
    BY DEF OpensInv, Opens!TypeOK, Opens!Over
  <1>2. loop \in {"none", "idle", "busy", "over"} /\ window \in {"none", "open", "closed"}
    BY DEF OpensInv, Opens!TypeOK
  <1>3. /\ main = "bind" => MainLeft = 4
        /\ main = "launch" => MainLeft = 3
        /\ main \in {"serve", "window"} => MainLeft = 2
        /\ main = "print" => MainLeft = 1
        /\ main \in {"ended", "failed"} => MainLeft = 0
    BY DEF MainLeft
  <1>4. /\ loop = "busy" => LoopLeft = 2
        /\ loop \in {"none", "idle"} => LoopLeft = 1
        /\ loop = "over" => LoopLeft = 0
    BY DEF LoopLeft
  <1>5. /\ window = "none" => WindowLeft = 2
        /\ window = "open" => WindowLeft = 1
        /\ window = "closed" => WindowLeft = 0
    BY DEF WindowLeft
  <1>6. pending \in Nat /\ connections \in Nat
    BY SettingsAssumption DEF Opens!UiOpenAssumption, OpensInv, Opens!TypeOK
  <1>7. ToldLeft \in 0 .. 1
    BY DEF ToldLeft
  <1> QED
    BY <1>1, <1>2, <1>3, <1>4, <1>5, <1>6, <1>7 DEF PartsCount

\* A sum of which one part gets less, and none more.
LEMMA LessSum ==
    ASSUME NEW a \in Nat, NEW b \in Nat, NEW c \in Nat, NEW d \in Nat,
           NEW a1 \in Nat, NEW b1 \in Nat, NEW c1 \in Nat, NEW d1 \in Nat,
           NEW k \in Nat, NEW n \in Nat, NEW n1 \in Nat,
           n1 <= n, a1 <= a, b1 <= b, c1 <= c, d1 <= d,
           a1 < a \/ b1 < b \/ c1 < c
    PROVE  3 * k + 2 * n1 + a1 + b1 + c1 + d1 < 3 * k + 2 * n + a + b + c + d
  OBVIOUS

\* What is left of the process is a number, and every step takes of it.
LEMMA OpensGetsLess ==
    ASSUME OpensInv, Opened, PartsCount, PartsCount', Opens!Next
    PROVE  OpensLeft' < OpensLeft
  <1> USE DEF PartsCount
  <1>0. /\ loop \in {"none", "idle", "busy", "over"}
        /\ window \in {"none", "open", "closed"}
    BY DEF OpensInv, Opens!TypeOK
  <1>told. told' = told => ToldLeft' = ToldLeft
    BY DEF ToldLeft
  <1>less. ASSUME connections' = connections, pending' <= pending, told' = told,
                  MainLeft' <= MainLeft, LoopLeft' <= LoopLeft, WindowLeft' <= WindowLeft,
                  MainLeft' < MainLeft \/ LoopLeft' < LoopLeft \/ WindowLeft' < WindowLeft
           PROVE  OpensLeft' < OpensLeft
    <2>1. /\ MainLeft \in Nat /\ LoopLeft \in Nat /\ WindowLeft \in Nat /\ ToldLeft \in Nat
          /\ MainLeft' \in Nat /\ LoopLeft' \in Nat /\ WindowLeft' \in Nat /\ ToldLeft' \in Nat
          /\ connections \in Nat /\ pending \in Nat /\ pending' \in Nat
          /\ ToldLeft' <= ToldLeft
      BY <1>told, <1>less
    <2> HIDE DEF PartsCount
    <2>2. 3 * connections + 2 * pending' + MainLeft' + LoopLeft' + WindowLeft' + ToldLeft'
          < 3 * connections + 2 * pending + MainLeft + LoopLeft + WindowLeft + ToldLeft
      BY <1>less, <2>1, LessSum
    <2> QED
      BY <1>less, <2>2 DEF OpensLeft
  <1>1. ASSUME NEW how \in {"ended", "failed"}, Opens!Exit(how),
               main \in {"bind", "launch", "window", "print"}
        PROVE  OpensLeft' < OpensLeft
    <2>1. MainLeft' < MainLeft
      BY <1>1 DEF Opens!Exit
    <2>2. LoopLeft' <= LoopLeft
      BY <1>0, <1>1 DEF Opens!Exit
    <2>3. WindowLeft' <= WindowLeft
      BY <1>0, <1>1 DEF Opens!Exit, WindowLeft
    <2>4. connections' = connections /\ pending' = 0 /\ told' = told
      BY <1>1 DEF Opens!Exit
    <2> QED
      BY <1>less, <2>1, <2>2, <2>3, <2>4
  <1>2. ASSUME NEW ok \in BOOLEAN, Opens!Stop(ok), loop \in {"idle", "busy"}
        PROVE  OpensLeft' < OpensLeft
    <2>1. LoopLeft' < LoopLeft
      BY <1>2 DEF Opens!Stop
    <2>2. MainLeft' <= MainLeft
      <3>1. CASE main = "serve"
        BY <1>2, <3>1 DEF Opens!Stop
      <3>2. CASE main # "serve"
        BY <1>2, <3>2 DEF Opens!Stop, MainLeft
      <3> QED
        BY <3>1, <3>2
    <2>3. connections' = connections /\ pending' = 0 /\ told' = told /\ window' = window
      BY <1>2 DEF Opens!Stop
    <2>4. WindowLeft' = WindowLeft
      BY <2>3 DEF WindowLeft
    <2> QED
      BY <1>less, <2>1, <2>2, <2>3, <2>4
  <1>3. ASSUME Opens!Bind \/ Opens!OpenBrowser \/ Opens!SpawnServer \/ Opens!Headless
        PROVE  OpensLeft' < OpensLeft
    <2>1. CASE \E how \in {"ended", "failed"} : Opens!Exit(how) /\ main \in {"bind", "launch"}
      BY <1>1, <2>1
    <2>2. CASE main = "bind" /\ main' = "launch"
               /\ UNCHANGED <<loop, window, pending, connections, told>>
      <3>1. LoopLeft' = LoopLeft /\ WindowLeft' = WindowLeft
        BY <2>2 DEF LoopLeft, WindowLeft
      <3> QED
        BY <1>less, <2>2, <3>1
    <2>3. CASE /\ main = "launch" /\ main' \in {"serve", "window"} /\ loop' = "idle"
               /\ window' = window \/ window' = "open"
               /\ UNCHANGED <<pending, connections, told>>
      <3>1. MainLeft = 3 /\ LoopLeft = 1 /\ WindowLeft = 2
        BY <2>3 DEF Opened
      <3>2. MainLeft' = 2 /\ LoopLeft' = 1
        BY <2>3
      <3>3. window' \in {"none", "open"}
        BY <2>3 DEF Opened
      <3>4. WindowLeft' <= 2
        BY <3>3
      <3> QED
        BY <1>less, <2>3, <3>1, <3>2, <3>4
    <2> QED
      BY <1>3, <2>1, <2>2, <2>3
         DEF Opens!Bind, Opens!OpenBrowser, Opens!SpawnServer, Opens!Headless
  <1>4. ASSUME Opens!OpenWindow \/ Opens!Tell \/ Opens!End
        PROVE  OpensLeft' < OpensLeft
    <2>1. CASE \E how \in {"ended", "failed"} : Opens!Exit(how) /\ main \in {"window", "print"}
      BY <1>1, <2>1
    <2>2. CASE window = "none" /\ window' = "open"
               /\ UNCHANGED <<main, loop, pending, connections, told>>
      <3>1. MainLeft' = MainLeft /\ LoopLeft' = LoopLeft
        BY <2>2 DEF LoopLeft, MainLeft
      <3> QED
        BY <1>less, <2>2, <3>1
    <2>3. CASE ~told /\ told' = TRUE /\ UNCHANGED <<main, loop, window, pending, connections>>
      <3>1. MainLeft' = MainLeft /\ LoopLeft' = LoopLeft /\ WindowLeft' = WindowLeft
        BY <2>3 DEF LoopLeft, MainLeft, WindowLeft
      <3>2. ToldLeft = 1 /\ ToldLeft' = 0
        BY <2>3 DEF ToldLeft
      <3> QED
        BY <2>3, <3>1, <3>2 DEF OpensLeft
    <2> QED
      BY <1>4, <2>1, <2>2, <2>3 DEF Opens!OpenWindow, Opens!Tell, Opens!End
  <1>5. ASSUME Opens!Serve \/ Opens!TimeOut \/ Opens!Connect
        PROVE  OpensLeft' < OpensLeft
    <2>1. CASE \E ok \in BOOLEAN : Opens!Stop(ok) /\ loop \in {"idle", "busy"}
      BY <1>2, <2>1
    <2>2. ASSUME UNCHANGED <<main, window>>
          PROVE  MainLeft' = MainLeft /\ WindowLeft' = WindowLeft
      BY <2>2 DEF MainLeft, WindowLeft
    <2>3. CASE Opens!Accept
      <3>1. LoopLeft = 1 /\ LoopLeft' = 2
        BY <2>3 DEF Opens!Accept
      <3> QED
        BY <1>told, <2>2, <2>3, <3>1 DEF Opens!Accept, OpensLeft
    <2>4. CASE /\ loop = "busy" /\ loop' = "idle"
               /\ UNCHANGED <<main, window, pending, connections, told>>
      BY <1>less, <2>2, <2>4
    <2>5. CASE Opens!Connect
      <3>1. LoopLeft' = LoopLeft
        BY <2>5 DEF Opens!Connect, LoopLeft
      <3> QED
        BY <1>told, <2>2, <2>5, <3>1 DEF Opens!Connect, OpensLeft
    <2> QED
      BY <1>5, <2>1, <2>3, <2>4, <2>5 DEF Opens!Serve, Opens!Handle, Opens!TimeOut
  <1>6. ASSUME Opens!CloseWindow
        PROVE  OpensLeft' < OpensLeft
    <2>1. WindowLeft = 1 /\ WindowLeft' = 0
      BY <1>6 DEF Opens!CloseWindow
    <2>2. LoopLeft' = LoopLeft
      BY <1>6 DEF Opens!CloseWindow, LoopLeft
    <2>3. MainLeft' <= MainLeft
      <3>1. CASE main = "window"
        BY <1>6, <3>1 DEF Opens!CloseWindow
      <3>2. CASE main # "window"
        BY <1>6, <3>2 DEF Opens!CloseWindow, MainLeft
      <3> QED
        BY <3>1, <3>2
    <2> QED
      BY <1>less, <1>6, <2>1, <2>2, <2>3 DEF Opens!CloseWindow
  <1> QED
    BY <1>3, <1>4, <1>5, <1>6 DEF Opens!Next, Opens!Main, Opens!Serve

\* The safety half of EverybodyIsAnswered for the process of "ui open": until it
\* is over one of its threads can go on, or its window is open; a connection in
\* the backlog has a thread that can go on, which opens the window, serves the
\* port or ends it; and every step, those of users and pages too, brings the
\* process nearer to its end.
THEOREM OpenNearsItsEnd ==
  Spec => /\ [](part = "opens" =>
                  /\ main \in Opens!Over \/ MainCan \/ ServeCan \/ window = "open"
                  /\ pending > 0 => main \notin Opens!Over /\ (MainCan \/ ServeCan)
                  /\ OpensLeft \in Nat)
          /\ [][OpensLeft' < OpensLeft]_openVars
  <1>1. Init => Opened
    BY DEF Init, Opens!Init, Opened, Opens!Over
  <1>2. (OpensInv => PartsCount) /\ (OpensInv => PartsCount)'
    BY PartsLeft, PTL
  <1>3. ASSUME IInv, Opened, [Next]_vars
        PROVE  Opened' /\ [OpensLeft' < OpensLeft]_openVars
    <2>1. OpensInv /\ OpensInv'
      BY <1>3, NextIInv DEF IInv
    <2>2. CASE Opens!Next
      BY <1>2, <1>3, <2>1, <2>2, OpenedStep, OpensGetsLess
    <2>3. CASE UNCHANGED openVars
      BY <1>3, <2>3 DEF Opened, openVars
    <2> QED
      BY <1>3, <2>2, <2>3 DEF Next, vars, openVars
  <1>4. ASSUME IInv, Opened
        PROVE  /\ main \in Opens!Over \/ MainCan \/ ServeCan \/ window = "open"
               /\ pending > 0 => main \notin Opens!Over /\ (MainCan \/ ServeCan)
               /\ OpensLeft \in Nat
    <2>1. OpensLeft \in Nat
      BY <1>4, PartsLeft DEF IInv, PartsCount, OpensLeft
    <2>2. mode \in {"window", "browser", "headless"}
      BY <1>4, SettingsAssumption DEF Opened, Opens!UiOpenAssumption
    <2> QED
      BY <1>4, <2>1, <2>2 DEF IInv, OpensInv, Opens!TypeOK, Opens!Over, Opened,
         MainCan, ServeCan
  <1> QED
    BY <1>1, <1>3, <1>4, Invariant, PTL DEF Spec
=============================================================================
