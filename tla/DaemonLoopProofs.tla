-------------------------- MODULE DaemonLoopProofs --------------------------
(***************************************************************************)
(* Proofs about DaemonLoop, for every number of extensions, clients and    *)
(* trays, and whatever fails.  The inductive invariant adds to the types   *)
(* why the main thread loads or runs, what the part of a load that is done *)
(* knows of the disk, and that a request in the queue or being served      *)
(* belongs to a client that waits, and to one request only.                *)
(***************************************************************************)
EXTENDS DaemonLoop, TLAPS

\* Why the main thread does what it does; what it does for itself is for nobody.
Purpose ==
    /\ main = "load" => task.kind \in {"start", "schedule", "reload"}
    /\ main = "run" => task.kind = "trigger"
    /\ task.kind \in {"none", "start", "schedule"} => task.from = Nobody

\* What the load under way has read is what is on the disk, unless it changed.
Loaded ==
    main = "load" =>
       /\ found \cap todo = {}
       /\ \A e \in (Extensions \ todo) \ since : e \in found <=> disk[e] = "whole"

Waits(r) == r.from \in Clients => client[r.from] = "waiting"

\* A client waits for one request, in the queue or being served.
Asked ==
    /\ Waits(task)
    /\ \A i \in 1 .. Len(queue) :
         Waits(queue[i]) /\ (queue[i].from \in Clients => queue[i].from # task.from)
    /\ \A i, j \in 1 .. Len(queue) :
         queue[i].from \in Clients /\ queue[i].from = queue[j].from => i = j

\* What has changed since a client asked has changed since the load it waits
\* for began.
Fresh ==
    main = "load" /\ task.from \in Clients => since \subseteq unseen[task.from]

IInv == TypeOK /\ Purpose /\ Loaded /\ RegistryTracksDisk /\ Asked /\ Fresh

-----------------------------------------------------------------------------
(***************************************************************************)
(* The queue.                                                              *)
(***************************************************************************)

\* A request that is taken is the first one; the others keep their order.
LEMMA TakeRequest ==
    ASSUME NEW q \in Seq(Request), q # <<>>
    PROVE  /\ Len(q) \in Nat \ {0} /\ 1 \in 1 .. Len(q)
           /\ Head(q) = q[1] /\ Head(q) \in Request
           /\ Tail(q) \in Seq(Request) /\ Len(Tail(q)) = Len(q) - 1
           /\ \A i \in 1 .. Len(Tail(q)) :
                 i + 1 \in 1 .. Len(q) /\ Tail(q)[i] = q[i + 1]
  OBVIOUS

\* A request that is sent comes last.
LEMMA PutRequest ==
    ASSUME NEW q \in Seq(Request), NEW r \in Request
    PROVE  /\ Append(q, r) \in Seq(Request)
           /\ Len(q) \in Nat /\ Len(Append(q, r)) = Len(q) + 1
           /\ \A i \in 1 .. Len(Append(q, r)) :
                 Append(q, r)[i] = IF i \in 1 .. Len(q) THEN q[i] ELSE r
  OBVIOUS

\* A client that gives up leaves its requests where they are, as nobody's.
LEMMA DisownQueue ==
    ASSUME NEW q \in Seq(Request), NEW c \in Clients, NEW r,
           r = [i \in DOMAIN q |-> Disown(q[i], c)]
    PROVE  /\ r \in Seq(Request) /\ Len(r) = Len(q) /\ Len(q) \in Nat
           /\ \A i \in 1 .. Len(q) :
                 r[i] \in Request
                   /\ r[i].from = IF q[i].from = c THEN Nobody ELSE q[i].from
  <1>1. DOMAIN q = 1 .. Len(q) /\ Len(q) \in Nat
    OBVIOUS
  <1>2. \A i \in 1 .. Len(q) : q[i] \in Request
    OBVIOUS
  <1>3. \A i \in 1 .. Len(q) :
           /\ Disown(q[i], c) \in Request
           /\ Disown(q[i], c).from = IF q[i].from = c THEN Nobody ELSE q[i].from
    BY <1>2 DEF Disown, Request
  <1>4. r \in [1 .. Len(q) -> Request]
    BY <1>1, <1>3
  <1>5. r \in Seq(Request) /\ Len(r) = Len(q)
    BY <1>1, <1>4
  <1>6. QED
    BY <1>1, <1>3, <1>5

-----------------------------------------------------------------------------
(***************************************************************************)
(* The inductive invariant.                                                *)
(***************************************************************************)

LEMMA InitIInv == Init => IInv
  <1> SUFFICES ASSUME Init
               PROVE  IInv
    OBVIOUS
  <1>1. TypeOK
    <2>1. <<>> \in Seq(Request) /\ Len(<<>>) <= MaxQueue /\ 0 \in 0 .. MaxChanges
      BY DaemonLoopAssumption
    <2>2. QED
      BY <2>1 DEF Init, TypeOK, Task, TaskKinds
  <1>2. Purpose /\ Fresh /\ Asked
    BY DaemonLoopAssumption DEF Init, Purpose, Fresh, Asked, Waits, Task
  <1>3. Loaded /\ RegistryTracksDisk
    BY DEF Init, Loaded, RegistryTracksDisk
  <1>4. QED
    BY <1>1, <1>2, <1>3 DEF IInv

LEMMA NextTypeOK == IInv /\ [Next]_vars => TypeOK'
  <1> SUFFICES ASSUME IInv, [Next]_vars
               PROVE  TypeOK'
    OBVIOUS
  <1> USE DaemonLoopAssumption DEF TypeOK, IInv, loadVars, worldVars, historyVars
  <1>1. ASSUME NEW r, NEW reply \in {"ok", "reloaded", "error"}, Answer(r, reply)
        PROVE  client' \in [Clients -> {"idle", "waiting", "ok", "reloaded", "error"}]
    BY <1>1 DEF Answer
  <1>2. NoTask \in [kind : TaskKinds, from : Clients \cup {Nobody}] /\ NoTask.kind = "none"
    BY DEF NoTask, TaskKinds
  <1>3. ASSUME LoadFails, main = "load"
        PROVE  /\ main' \in {"due", "leaving"} /\ task' = NoTask /\ todo' = {} /\ found' = {}
               /\ client' \in [Clients -> {"idle", "waiting", "ok", "reloaded", "error"}]
    BY <1>1, <1>3 DEF LoadFails
  <1>4. CASE LoadDir
    <2>1. UNCHANGED <<running, registry, tray, queue, worldVars, historyVars>> /\ main = "load"
      BY <1>4 DEF LoadDir
    <2>2. CASE LoadFails
      BY <1>2, <1>3, <2>1, <2>2
    <2>3. CASE UNCHANGED <<main, task, client>> /\ todo' \subseteq todo /\ found' \subseteq Extensions
      BY <2>1, <2>3
    <2>4. QED
      BY <1>4, <2>2, <2>3 DEF LoadDir
  <1>5. CASE LoadCoreConfig
    <2>1. UNCHANGED <<running, tray, queue, worldVars, since, unseen>> /\ main = "load"
      BY <1>5 DEF LoadCoreConfig
    <2>2. CASE LoadFails /\ UNCHANGED <<registry, stale>>
      BY <1>2, <1>3, <2>1, <2>2
    <2>3. CASE FinishLoad
      <3>1. main' \in {"begin", "due", "tick"} /\ task' = NoTask
        BY <2>1, <2>3 DEF FinishLoad, Purpose
      <3>2. client' \in [Clients -> {"idle", "waiting", "ok", "reloaded", "error"}]
        BY <1>1, <2>3 DEF FinishLoad
      <3>3. QED
        BY <1>2, <2>1, <2>3, <3>1, <3>2 DEF FinishLoad, Registered
    <2>4. QED
      BY <1>5, <2>2, <2>3 DEF LoadCoreConfig
  <1>6. CASE Begin \/ Leave \/ Idle \/ Tick
    BY <1>6 DEF Begin, Leave, Idle, Tick
  <1>7. CASE Serve
    <2> DEFINE r == Head(queue)
    <2>1. /\ UNCHANGED <<tray, worldVars>> /\ main = "recv" /\ queue # <<>>
          /\ queue' \in Seq(Request) /\ Len(queue') <= MaxQueue /\ r \in Request
      BY <1>7, TakeRequest DEF Serve
    <2> HIDE DEF r
    <2>2. CASE ServeReload(r)
      <3>1. task' = r /\ r.kind = "reload" /\ r \in [kind : TaskKinds, from : Clients \cup {Nobody}]
        BY <2>1, <2>2 DEF ServeReload, BeginLoad, Request, TaskKinds
      <3>2. QED
        BY <2>1, <2>2, <3>1 DEF ServeReload, BeginLoad
    <2>3. CASE ServeTrigger(r)
      <3>1. r.kind = "trigger" /\ r \in [kind : TaskKinds, from : Clients \cup {Nobody}]
        BY <2>1, <2>3 DEF ServeTrigger, Request, TaskKinds
      <3>2. \/ main' = "run" /\ task' = r /\ UNCHANGED client
            \/ main' = "due" /\ Answer(r, "error") /\ UNCHANGED task
        BY <2>3 DEF ServeTrigger
      <3>3. client' \in [Clients -> {"idle", "waiting", "ok", "reloaded", "error"}]
        BY <1>1, <3>2
      <3>4. QED
        BY <2>1, <2>3, <3>1, <3>2, <3>3 DEF ServeTrigger
    <2>4. CASE ServeShutdown(r) \/ ServeOther(r) \/ ServeUnreadable(r)
      <3>1. \E reply \in {"ok", "error"} : Answer(r, reply)
        BY <2>4 DEF ServeShutdown, ServeOther, ServeUnreadable
      <3>2. client' \in [Clients -> {"idle", "waiting", "ok", "reloaded", "error"}]
        BY <1>1, <3>1
      <3>3. QED
        BY <2>1, <2>4, <3>2 DEF ServeShutdown, ServeOther, ServeUnreadable
    <2>5. QED
      BY <1>7, <2>2, <2>3, <2>4 DEF Serve, r
  <1>8. CASE RunEnds
    <2>1. client' \in [Clients -> {"idle", "waiting", "ok", "reloaded", "error"}]
      BY <1>1, <1>8 DEF RunEnds
    <2>2. QED
      BY <1>2, <1>8, <2>1 DEF RunEnds
  <1>9. CASE Due
    BY <1>9 DEF Due, BeginLoad, Task, TaskKinds
  <1>10. CASE Join
    <2>1. <<>> \in Seq(Request) /\ Len(<<>>) = 0
      OBVIOUS
    <2>2. QED
      BY <1>10, <2>1 DEF Join
  <1>11. ASSUME NEW t \in Trays, TrayStops(t) \/ TrayFails(t)
         PROVE  TypeOK'
    BY <1>11 DEF TrayStops, TrayFails, TrayEnds
  <1>12. CASE Exit
    BY <1>12 DEF Exit
  <1>13. ASSUME NEW c \in Clients, Send(c)
         PROVE  TypeOK'
    <2>1. PICK kind \in Requests : queue' = Append(queue, [kind |-> kind, from |-> c])
      BY <1>13 DEF Send
    <2>2. [kind |-> kind, from |-> c] \in Request
      BY DEF Request
    <2>3. queue' \in Seq(Request) /\ Len(queue') = Len(queue) + 1 /\ Len(queue) \in Nat
      BY <2>1, <2>2, PutRequest
    <2>4. QED
      BY <1>13, <2>3 DEF Send
  <1>14. ASSUME NEW c \in Clients, GiveUp(c)
         PROVE  TypeOK'
    <2>1. queue' \in Seq(Request) /\ Len(queue') = Len(queue)
      BY <1>14, DisownQueue DEF GiveUp
    <2>2. task' \in [kind : TaskKinds, from : Clients \cup {Nobody}] /\ task'.kind = task.kind
      BY <1>14 DEF GiveUp, Disown
    <2>3. QED
      BY <1>14, <2>1, <2>2 DEF GiveUp
  <1>15. ASSUME NEW e \in Extensions, ChangeDisk(e) \/ Toggle(e)
         PROVE  TypeOK'
    <2>1. changes' \in 0 .. MaxChanges
      BY <1>15 DEF ChangeDisk, Toggle, Changed
    <2>2. disk' \in [Extensions -> DiskStates] /\ disabled' \subseteq Extensions
      BY <1>15 DEF ChangeDisk, Toggle
    <2>3. QED
      BY <1>15, <2>1, <2>2 DEF ChangeDisk, Toggle, Changed
  <1>16. CASE UNCHANGED vars
    BY <1>16 DEF vars
  <1>17. QED
    BY <1>4, <1>5, <1>6, <1>7, <1>8, <1>9, <1>10, <1>11, <1>12, <1>13, <1>14, <1>15, <1>16
    DEF Next, MainStep

LEMMA NextPurpose == IInv /\ [Next]_vars => Purpose'
  <1> SUFFICES ASSUME IInv, [Next]_vars
               PROVE  Purpose'
    OBVIOUS
  <1> USE DEF Purpose, loadVars, historyVars
  <1> Purpose /\ (task.kind # "none" <=> main \in {"load", "run"})
        /\ task \in [kind : TaskKinds, from : Clients \cup {Nobody}]
    BY DEF IInv, TypeOK
  <1>1. CASE LoadDir \/ LoadCoreConfig
    BY <1>1 DEF LoadDir, LoadCoreConfig, LoadFails, FinishLoad, NoTask
  <1>2. CASE Begin \/ Leave \/ Idle \/ RunEnds \/ Due \/ Tick \/ Join
    BY <1>2 DEF Begin, Leave, Idle, RunEnds, Due, BeginLoad, Task, Tick, Join, NoTask
  <1>3. CASE Serve
    BY <1>3 DEF Serve, ServeReload, BeginLoad, ServeTrigger, ServeShutdown, ServeOther,
                ServeUnreadable
  <1>4. CASE (\E t \in Trays : TrayStops(t) \/ TrayFails(t)) \/ Exit
    BY <1>4 DEF TrayStops, TrayFails, TrayEnds, Exit
  <1>5. ASSUME NEW c \in Clients, Send(c) \/ GiveUp(c)
        PROVE  Purpose'
    BY <1>5 DEF Send, GiveUp, Disown
  <1>6. CASE (\E e \in Extensions : ChangeDisk(e) \/ Toggle(e)) \/ UNCHANGED vars
    BY <1>6 DEF ChangeDisk, Toggle, Changed, vars
  <1>7. QED
    BY <1>1, <1>2, <1>3, <1>4, <1>5, <1>6 DEF Next, MainStep

LEMMA NextLoaded == IInv /\ [Next]_vars => Loaded'
  <1> SUFFICES ASSUME IInv, [Next]_vars
               PROVE  Loaded'
    OBVIOUS
  <1> USE DEF Loaded, loadVars, worldVars, historyVars
  <1> Loaded /\ disk \in [Extensions -> DiskStates] /\ todo \subseteq Extensions
        /\ found \subseteq Extensions
    BY DEF IInv, TypeOK
  <1>1. CASE LoadDir
    <2>1. CASE LoadFails
      BY <2>1 DEF LoadFails
    <2>2. PICK e \in todo : LoadFails \/
                 /\ disk[e] # "partial"
                 /\ todo' = todo \ {e}
                 /\ found' = IF disk[e] = "whole" THEN found \cup {e} ELSE found
                 /\ UNCHANGED <<main, task, client>>
      BY <1>1 DEF LoadDir
    <2>3. UNCHANGED <<disk, since>> /\ main = "load"
      BY <1>1 DEF LoadDir
    <2>4. CASE ~LoadFails /\ main' = "load"
      <3>1. ASSUME NEW f \in (Extensions \ todo') \ since'
            PROVE  f \in found' <=> disk'[f] = "whole"
        <4>1. CASE f = e
          <5>1. e \notin found
            BY <2>3
          <5>2. QED
            BY <2>2, <2>3, <2>4, <4>1, <5>1
        <4>2. CASE f # e
          <5>1. f \in (Extensions \ todo) \ since
            BY <2>2, <2>3, <2>4, <3>1, <4>2
          <5>2. QED
            BY <2>2, <2>3, <2>4, <4>2, <5>1
        <4>3. QED
          BY <4>1, <4>2
      <3>2. found' \cap todo' = {}
        BY <2>2, <2>3, <2>4
      <3>3. QED
        BY <3>1, <3>2
    <2>5. QED
      BY <2>1, <2>2, <2>3, <2>4
  <1>2. CASE LoadCoreConfig
    BY <1>2 DEF LoadCoreConfig, LoadFails, FinishLoad, IInv, Purpose
  <1>3. CASE Begin \/ Leave \/ Idle \/ RunEnds \/ Tick \/ Join
    BY <1>3 DEF Begin, Leave, Idle, RunEnds, Tick, Join
  <1>4. CASE Due
    BY <1>4 DEF Due, BeginLoad
  <1>5. CASE Serve
    BY <1>5 DEF Serve, ServeReload, BeginLoad, ServeTrigger, ServeShutdown, ServeOther,
                ServeUnreadable
  <1>6. CASE \/ Exit \/ \E t \in Trays : TrayStops(t) \/ TrayFails(t)
             \/ \E c \in Clients : Send(c) \/ GiveUp(c)
    BY <1>6 DEF TrayStops, TrayFails, TrayEnds, Exit, Send, GiveUp
  <1>7. ASSUME NEW e \in Extensions, ChangeDisk(e) \/ Toggle(e)
        PROVE  Loaded'
    <2>1. /\ UNCHANGED <<main, todo, found>> /\ since' = since \cup {e}
          /\ \A f \in Extensions \ {e} : disk'[f] = disk[f]
      BY <1>7 DEF ChangeDisk, Toggle, Changed
    <2>2. QED
      BY <2>1
  <1>8. CASE UNCHANGED vars
    BY <1>8 DEF vars
  <1>9. QED
    BY <1>1, <1>2, <1>3, <1>4, <1>5, <1>6, <1>7, <1>8 DEF Next, MainStep

LEMMA NextRegistry == IInv /\ [Next]_vars => RegistryTracksDisk'
  <1> SUFFICES ASSUME IInv, [Next]_vars
               PROVE  RegistryTracksDisk'
    OBVIOUS
  <1> USE DEF RegistryTracksDisk, loadVars, worldVars, historyVars
  <1> RegistryTracksDisk /\ disk \in [Extensions -> DiskStates]
    BY DEF IInv, TypeOK
  <1>1. CASE FinishLoad /\ LoadCoreConfig
    <2>1. \A e \in Extensions \ since : e \in found <=> disk[e] = "whole"
      BY <1>1 DEF LoadCoreConfig, IInv, Loaded
    <2>2. UNCHANGED <<disk, disabled>> /\ stale' = since /\ registry' = found \ disabled
      BY <1>1 DEF LoadCoreConfig, FinishLoad, Registered
    <2>3. QED
      BY <2>1, <2>2
  <1>2. ASSUME NEW e \in Extensions, ChangeDisk(e) \/ Toggle(e)
        PROVE  RegistryTracksDisk'
    <2>1. /\ UNCHANGED registry /\ stale' = stale \cup {e}
          /\ \A f \in Extensions \ {e} :
               disk'[f] = disk[f] /\ (f \in disabled' <=> f \in disabled)
      BY <1>2 DEF ChangeDisk, Toggle, Changed
    <2>2. QED
      BY <2>1
  <1>3. CASE UNCHANGED <<registry, stale, disk, disabled>>
    BY <1>3
  <1>4. QED
    BY <1>1, <1>2, <1>3
    DEF Next, MainStep, LoadDir, LoadCoreConfig, Begin, Leave, Idle, Serve, ServeReload,
        BeginLoad, ServeTrigger, ServeShutdown, ServeOther, ServeUnreadable, RunEnds, Due,
        Tick, Join, TrayStops, TrayFails, TrayEnds, Exit, Send, GiveUp, vars

\* An answer leaves the other clients alone.
LEMMA AnswerOthers ==
    ASSUME NEW r, NEW reply, Answer(r, reply), NEW q, Waits(q),
           q.from \in Clients => q.from # r.from
    PROVE  Waits(q)'
  BY DEF Answer, Waits

LEMMA NextAsked == IInv /\ [Next]_vars => Asked'
  <1> SUFFICES ASSUME IInv, [Next]_vars
               PROVE  Asked'
    OBVIOUS
  <1> USE DaemonLoopAssumption DEF Asked, loadVars, worldVars, historyVars
  <1> /\ Asked /\ TypeOK /\ queue \in Seq(Request)
      /\ client \in [Clients -> {"idle", "waiting", "ok", "reloaded", "error"}]
      /\ task \in [kind : TaskKinds, from : Clients \cup {Nobody}]
    BY DEF IInv, TypeOK
  <1>1. ASSUME UNCHANGED queue, task' = NoTask, NEW reply, Answer(task, reply)
        PROVE  Asked'
    <2>1. NoTask.from \notin Clients
      BY DEF NoTask
    <2>2. \A i \in 1 .. Len(queue) : Waits(queue[i])'
      BY <1>1, AnswerOthers DEF Waits
    <2>3. QED
      BY <1>1, <2>1, <2>2 DEF Waits
  <1>2. ASSUME UNCHANGED <<task, queue, client>>
        PROVE  Asked'
    BY <1>2 DEF Waits
  <1>3. CASE LoadDir \/ LoadCoreConfig \/ RunEnds
    BY <1>1, <1>2, <1>3 DEF LoadDir, LoadCoreConfig, LoadFails, FinishLoad, RunEnds
  <1>4. CASE \/ Begin \/ Leave \/ Idle \/ Tick \/ Exit
             \/ \E t \in Trays : TrayStops(t) \/ TrayFails(t)
    BY <1>2, <1>4 DEF Begin, Leave, Idle, Tick, Exit, TrayStops, TrayFails, TrayEnds
  <1>5. CASE Due
    BY <1>2, <1>5, <1>1 DEF Due, BeginLoad, Task, Waits
  <1>6. CASE Serve
    <2> DEFINE r == Head(queue)
    <2>1. /\ queue # <<>> /\ queue' = Tail(queue) /\ r = queue[1] /\ 1 \in 1 .. Len(queue)
          /\ \A i \in 1 .. Len(queue') :
               i + 1 \in 1 .. Len(queue) /\ queue'[i] = queue[i + 1] /\ i + 1 # 1
          /\ Len(queue') \in Nat
      BY <1>6, TakeRequest DEF Serve
    <2>2. task.from \notin Clients
      BY <1>6 DEF Serve, IInv, Purpose, TypeOK
    <2>3. Waits(r) /\ \A i \in 1 .. Len(queue') :
             Waits(queue'[i]) /\ (queue'[i].from \in Clients => queue'[i].from # r.from)
      BY <2>1 DEF Waits
    <2>4. \A i, j \in 1 .. Len(queue') :
             queue'[i].from \in Clients /\ queue'[i].from = queue'[j].from => i = j
      BY <2>1
    <2> HIDE DEF r
    <2>5. CASE task' = r /\ UNCHANGED client
      BY <2>3, <2>4, <2>5 DEF Waits
    <2>6. ASSUME UNCHANGED task, NEW reply, Answer(r, reply)
          PROVE  Asked'
      <3>1. \A i \in 1 .. Len(queue') : client'[queue'[i].from] = client[queue'[i].from]
                                          \/ queue'[i].from \notin Clients
        BY <2>3, <2>6 DEF Answer
      <3>2. QED
        BY <2>2, <2>3, <2>4, <2>6, <3>1 DEF Waits
    <2>7. QED
      BY <1>6, <2>5, <2>6
      DEF Serve, ServeReload, BeginLoad, ServeTrigger, ServeShutdown, ServeOther,
          ServeUnreadable, r
  <1>7. CASE Join
    <2>1. task.from \notin Clients
      BY <1>7 DEF Join, IInv, Purpose, TypeOK
    <2>2. UNCHANGED task /\ Len(queue') = 0
      BY <1>7 DEF Join
    <2>3. QED
      BY <2>1, <2>2 DEF Waits
  <1>8. ASSUME NEW c \in Clients, Send(c)
        PROVE  Asked'
    <2>1. PICK kind \in Requests : queue' = Append(queue, [kind |-> kind, from |-> c])
      BY <1>8 DEF Send
    <2>2. [kind |-> kind, from |-> c] \in Request
      BY DEF Request
    <2>3. /\ Len(queue) \in Nat /\ Len(queue') = Len(queue) + 1
          /\ \A i \in 1 .. Len(queue') :
               IF i \in 1 .. Len(queue) THEN queue'[i] = queue[i]
                                        ELSE queue'[i].from = c /\ i = Len(queue) + 1
      BY <2>1, <2>2, PutRequest
    <2>4. /\ client[c] # "waiting" /\ UNCHANGED task
          /\ client' = [client EXCEPT ![c] = "waiting"]
      BY <1>8 DEF Send
    <2>5. task.from # c /\ \A i \in 1 .. Len(queue) : queue[i].from # c
      BY <2>4 DEF Waits
    <2>6. \A i \in 1 .. Len(queue') :
             Waits(queue[i])' /\ (queue'[i].from \in Clients => queue'[i].from # task'.from)
      BY <2>3, <2>4, <2>5 DEF Waits
    <2>7. \A i, j \in 1 .. Len(queue') :
             queue'[i].from \in Clients /\ queue'[i].from = queue'[j].from => i = j
      BY <2>3, <2>5
    <2>8. QED
      BY <2>4, <2>5, <2>6, <2>7 DEF Waits
  <1>9. ASSUME NEW c \in Clients, GiveUp(c)
        PROVE  Asked'
    <2>1. /\ Len(queue') = Len(queue)
          /\ \A i \in 1 .. Len(queue) :
               queue'[i].from = IF queue[i].from = c THEN Nobody ELSE queue[i].from
      BY <1>9, DisownQueue DEF GiveUp
    <2>2. /\ client' = [client EXCEPT ![c] = "idle"]
          /\ task'.from = IF task.from = c THEN Nobody ELSE task.from
      BY <1>9 DEF GiveUp, Disown
    <2>3. QED
      BY <2>1, <2>2 DEF Waits
  <1>10. CASE (\E e \in Extensions : ChangeDisk(e) \/ Toggle(e)) \/ UNCHANGED vars
    BY <1>2, <1>10 DEF ChangeDisk, Toggle, Changed, vars
  <1>11. QED
    BY <1>3, <1>4, <1>5, <1>6, <1>7, <1>8, <1>9, <1>10 DEF Next, MainStep

LEMMA NextFresh == IInv /\ [Next]_vars => Fresh'
  <1> SUFFICES ASSUME IInv, [Next]_vars
               PROVE  Fresh'
    OBVIOUS
  <1> USE DaemonLoopAssumption DEF Fresh, loadVars, worldVars, historyVars
  <1> /\ Fresh /\ Asked /\ since \subseteq Extensions
      /\ unseen \in [Clients -> SUBSET Extensions]
    BY DEF IInv, TypeOK
  <1>1. CASE LoadDir \/ LoadCoreConfig
    BY <1>1 DEF LoadDir, LoadCoreConfig, LoadFails, FinishLoad, IInv, Purpose
  <1>2. CASE Begin \/ Leave \/ Idle \/ RunEnds \/ Tick \/ Join
    BY <1>2 DEF Begin, Leave, Idle, RunEnds, Tick, Join
  <1>3. CASE Due \/ Serve
    BY <1>3 DEF Due, Serve, ServeReload, BeginLoad, ServeTrigger, ServeShutdown, ServeOther,
                ServeUnreadable
  <1>4. CASE (\E t \in Trays : TrayStops(t) \/ TrayFails(t)) \/ Exit \/ UNCHANGED vars
    BY <1>4 DEF TrayStops, TrayFails, TrayEnds, Exit, vars
  <1>5. ASSUME NEW c \in Clients, Send(c)
        PROVE  Fresh'
    <2>1. /\ client[c] # "waiting" /\ UNCHANGED <<main, task, since>>
          /\ unseen' = [unseen EXCEPT ![c] = {}]
      BY <1>5 DEF Send
    <2>2. task.from # c
      BY <2>1 DEF Asked, Waits
    <2>3. QED
      BY <2>1, <2>2
  <1>6. ASSUME NEW c \in Clients, GiveUp(c)
        PROVE  Fresh'
    BY <1>6 DEF GiveUp, Disown
  <1>7. ASSUME NEW e \in Extensions, ChangeDisk(e) \/ Toggle(e)
        PROVE  Fresh'
    <2>1. /\ UNCHANGED <<main, task>> /\ since' = since \cup {e}
          /\ unseen' = [c \in Clients |-> unseen[c] \cup {e}]
      BY <1>7 DEF ChangeDisk, Toggle, Changed
    <2>2. QED
      BY <2>1
  <1>8. QED
    BY <1>1, <1>2, <1>3, <1>4, <1>5, <1>6, <1>7 DEF Next, MainStep

LEMMA NextIInv == IInv /\ [Next]_vars => IInv'
  BY NextTypeOK, NextPurpose, NextLoaded, NextRegistry, NextAsked, NextFresh DEF IInv

THEOREM Invariance == Spec => []IInv
  BY InitIInv, NextIInv, PTL DEF Spec

\* The variables keep their types: the main thread has a task exactly while it
\* loads or runs an extension, and the queue keeps within its bound.
THEOREM TypeCorrect == Spec => []TypeOK
  BY Invariance, PTL DEF IInv

\* Whatever fails and whatever changes while a load is under way, the registry
\* has what the disk and the core config say of every extension that has not
\* changed since the latest successful load began (Registry::load_from_dirs,
\* load_runtime_registry, DaemonState::reload).
THEOREM RegistryFollows == Spec => []RegistryTracksDisk
  BY Invariance, PTL DEF IInv

\* A client that waits has its request in the queue or being served, and after
\* the end of the daemon none waits.
Kept ==
    /\ \A c \in Clients : client[c] = "waiting" =>
          task.from = c \/ \E i \in 1 .. Len(queue) : queue[i].from = c
    /\ main = "stopped" => \A c \in Clients : client[c] # "waiting"

\* Every step that takes a request away answers it, or hands it to the load or
\* the run that will.
LEMMA NextKept == IInv /\ Kept /\ [Next]_vars => Kept'
  <1> SUFFICES ASSUME IInv, Kept, [Next]_vars
               PROVE  Kept'
    OBVIOUS
  <1> USE DEF loadVars, worldVars, historyVars
  <1>1. /\ client \in [Clients -> {"idle", "waiting", "ok", "reloaded", "error"}]
        /\ queue \in Seq(Request) /\ Nobody \notin Clients
        /\ main \notin {"load", "run"} => task.from \notin Clients
    BY DaemonLoopAssumption DEF IInv, TypeOK, Purpose
  <1>2. CASE UNCHANGED <<client, task, queue>> /\ (main' = main \/ main' # "stopped")
    BY <1>2 DEF Kept
  <1>3. ASSUME NEW reply \in {"ok", "reloaded", "error"}, Answer(task, reply), task' = NoTask,
               UNCHANGED queue, main' # "stopped"
        PROVE  Kept'
    <2>1. \A c \in Clients : client'[c] = "waiting" => client[c] = "waiting" /\ c # task.from
      BY <1>3 DEF Answer
    <2> QED
      BY <1>3, <2>1 DEF Kept
  <1>4. CASE LoadDir
    <2>1. CASE LoadFails
      <3>1. UNCHANGED queue
        BY <1>4 DEF LoadDir
      <3> QED
        BY <1>3, <2>1, <3>1 DEF LoadFails
    <2>2. CASE UNCHANGED <<main, task, client>>
      BY <1>2, <1>4, <2>2 DEF LoadDir
    <2> QED
      BY <1>4, <2>1, <2>2 DEF LoadDir
  <1>5. CASE LoadCoreConfig
    <2>1. UNCHANGED queue /\ main = "load"
      BY <1>5 DEF LoadCoreConfig
    <2>2. CASE FinishLoad
      <3>1. main' # "stopped"
        BY <2>1, <2>2 DEF FinishLoad, IInv, Purpose
      <3> QED
        BY <1>3, <2>1, <2>2, <3>1 DEF FinishLoad
    <2>3. CASE LoadFails
      BY <1>3, <2>1, <2>3 DEF LoadFails
    <2> QED
      BY <1>5, <2>2, <2>3 DEF LoadCoreConfig
  <1>6. CASE RunEnds
    BY <1>3, <1>6 DEF RunEnds
  <1>7. CASE Begin \/ Leave \/ Idle \/ Tick
    BY <1>2, <1>7 DEF Begin, Leave, Idle, Tick
  <1>8. CASE Due
    <2>1. UNCHANGED <<client, queue>> /\ main' # "stopped" /\ task.from \notin Clients
      BY <1>1, <1>8 DEF Due, BeginLoad
    <2> QED
      BY <2>1 DEF Kept
  <1>9. CASE Serve
    <2> DEFINE r == Head(queue)
    <2>1. /\ main = "recv" /\ queue # <<>> /\ queue' = Tail(queue) /\ task.from \notin Clients
          /\ ServeReload(r) \/ ServeTrigger(r) \/ ServeShutdown(r) \/ ServeOther(r)
                \/ ServeUnreadable(r)
      BY <1>1, <1>9 DEF Serve
    <2>2. /\ r = queue[1] /\ Len(queue) \in Nat /\ Len(Tail(queue)) = Len(queue) - 1
          /\ \A i \in 1 .. Len(queue) :
                i = 1 \/ (i - 1 \in 1 .. Len(Tail(queue)) /\ Tail(queue)[i - 1] = queue[i])
      <3>1. /\ r = queue[1] /\ Len(queue) \in Nat /\ Len(Tail(queue)) = Len(queue) - 1
            /\ \A i \in 1 .. Len(Tail(queue)) : Tail(queue)[i] = queue[i + 1]
        BY <1>1, <2>1, TakeRequest
      <3> QED
        BY <3>1
    <2> HIDE DEF r
    <2>3. /\ main' # "stopped"
          /\ \/ UNCHANGED client /\ task' = r
             \/ \E reply \in {"ok", "reloaded", "error"} : Answer(r, reply)
      BY <2>1 DEF ServeReload, ServeTrigger, ServeShutdown, ServeOther,
         ServeUnreadable, BeginLoad
    <2>4. ASSUME NEW c \in Clients, client'[c] = "waiting"
          PROVE  task'.from = c \/ \E i \in 1 .. Len(queue') : queue'[i].from = c
      <3>1. client[c] = "waiting" /\ (task' = r \/ c # r.from)
        BY <2>3, <2>4 DEF Answer
      <3>2. PICK i \in 1 .. Len(queue) : queue[i].from = c
        BY <2>1, <3>1 DEF Kept
      <3> QED
        BY <2>1, <2>2, <3>1, <3>2
    <2> QED
      BY <2>3, <2>4 DEF Kept
  <1>10. CASE Join
    BY <1>10 DEF Join, Kept
  <1>11. CASE (\E t \in Trays : TrayStops(t) \/ TrayFails(t)) \/ Exit
    BY <1>2, <1>11 DEF TrayStops, TrayFails, TrayEnds, Exit
  <1>12. ASSUME NEW d \in Clients, Send(d)
         PROVE  Kept'
    <2>1. PICK kind \in Requests : queue' = Append(queue, [kind |-> kind, from |-> d])
      BY <1>12 DEF Send
    <2> DEFINE r == [kind |-> kind, from |-> d]
    <2>2. r \in Request /\ r.from = d
      BY DEF Request
    <2> HIDE DEF r
    <2>3. /\ Len(queue) \in Nat /\ Len(queue') = Len(queue) + 1
          /\ \A i \in 1 .. Len(queue') : queue'[i] = IF i \in 1 .. Len(queue) THEN queue[i] ELSE r
      BY <1>1, <2>1, <2>2, PutRequest DEF r
    <2>4. /\ Len(queue') \in 1 .. Len(queue') /\ queue'[Len(queue')].from = d
          /\ \A i \in 1 .. Len(queue) : i \in 1 .. Len(queue') /\ queue'[i] = queue[i]
      BY <2>2, <2>3
    <2>5. /\ main # "stopped" /\ UNCHANGED <<main, task>>
          /\ client' = [client EXCEPT ![d] = "waiting"]
      BY <1>12 DEF Send
    <2>6. ASSUME NEW c \in Clients, client'[c] = "waiting"
          PROVE  task'.from = c \/ \E i \in 1 .. Len(queue') : queue'[i].from = c
      <3>1. CASE c = d
        BY <2>4, <3>1
      <3>2. CASE c # d
        <4>1. client[c] = "waiting"
          BY <1>1, <2>5, <2>6, <3>2
        <4> QED
          BY <2>4, <2>5, <4>1 DEF Kept
      <3> QED
        BY <3>1, <3>2
    <2> QED
      BY <2>5, <2>6 DEF Kept
  <1>13. ASSUME NEW d \in Clients, GiveUp(d)
         PROVE  Kept'
    <2>1. /\ client' = [client EXCEPT ![d] = "idle"] /\ task' = Disown(task, d)
          /\ queue' = [i \in DOMAIN queue |-> Disown(queue[i], d)] /\ UNCHANGED main
      BY <1>13 DEF GiveUp
    <2>2. /\ Len(queue') = Len(queue)
          /\ \A i \in 1 .. Len(queue) :
                queue'[i].from = IF queue[i].from = d THEN Nobody ELSE queue[i].from
      BY <1>1, <2>1, DisownQueue
    <2>3. task.from # d => task' = task
      BY <2>1 DEF Disown
    <2>4. \A c \in Clients : client'[c] = "waiting" => client[c] = "waiting" /\ c # d
      BY <1>1, <2>1
    <2> QED
      BY <2>1, <2>2, <2>3, <2>4 DEF Kept
  <1>14. CASE \E e \in Extensions : ChangeDisk(e) \/ Toggle(e)
    BY <1>2, <1>14 DEF ChangeDisk, Toggle, Changed
  <1>15. CASE UNCHANGED vars
    BY <1>2, <1>15 DEF vars
  <1> QED
    BY <1>4, <1>5, <1>6, <1>7, <1>8, <1>9, <1>10, <1>11, <1>12, <1>13, <1>14, <1>15
       DEF Next, MainStep

\* No client is forgotten: as long as it waits there is exactly one request of
\* its own, in the queue or being served, whatever fails and however often it
\* has given up before; and when the daemon has ended nobody waits.  That the
\* main thread gets to it in the end is the rest of RequestsAreAnswered
\* (handle_http_request, send_request).
THEOREM NobodyIsForgotten ==
  Spec => []/\ Kept
            /\ \A i, j \in 1 .. Len(queue) :
                  queue[i].from \in Clients =>
                     /\ client[queue[i].from] = "waiting" /\ queue[i].from # task.from
                     /\ queue[i].from = queue[j].from => i = j
  <1>1. Init => Kept
    BY DEF Init, Kept
  <1>2. IInv => \A i, j \in 1 .. Len(queue) :
                   queue[i].from \in Clients =>
                      /\ client[queue[i].from] = "waiting" /\ queue[i].from # task.from
                      /\ queue[i].from = queue[j].from => i = j
    BY DEF IInv, Asked, Waits
  <1> QED
    BY <1>1, <1>2, NextKept, Invariance, PTL DEF Spec

\* However many clients send, give up and send again, the one that is told
\* "reloaded" gets a registry with every change made before it asked
\* (handle_http_request, DaemonState::reload, send_request).
THEOREM FreshReloads == Spec => ReloadIsFresh
  <1> DEFINE Reloaded ==
               \A c \in Clients : client[c] = "waiting" /\ client'[c] = "reloaded"
                                    => stale' \subseteq unseen[c]
  <1>1. IInv /\ [Next]_vars => [Reloaded]_vars
    <2> SUFFICES ASSUME IInv, Next, NEW c \in Clients,
                        client[c] = "waiting", client'[c] = "reloaded"
                 PROVE  stale' \subseteq unseen[c]
      OBVIOUS
    <2> USE DEF loadVars, worldVars, historyVars
    <2>1. CASE FinishLoad /\ LoadCoreConfig
      <3>1. c = task.from
        BY <2>1 DEF FinishLoad, Answer
      <3>2. main = "load" /\ stale' = since
        BY <2>1 DEF FinishLoad, LoadCoreConfig
      <3>3. QED
        BY <3>1, <3>2 DEF IInv, Fresh
    <2>2. CASE LoadDir \/ (LoadFails /\ LoadCoreConfig)
      BY <2>2 DEF LoadDir, LoadFails, LoadCoreConfig, Answer
    <2>3. CASE Serve
      BY <2>3 DEF Serve, ServeReload, ServeTrigger, ServeShutdown, ServeOther,
                  ServeUnreadable, Answer
    <2>4. CASE Begin \/ Leave \/ Idle \/ RunEnds \/ Due \/ Tick \/ Join
      BY <2>4 DEF Begin, Leave, Idle, RunEnds, Due, Tick, Join, Answer
    <2>5. CASE (\E t \in Trays : TrayStops(t) \/ TrayFails(t)) \/ Exit
      BY <2>5 DEF TrayStops, TrayFails, TrayEnds, Exit
    <2>6. ASSUME NEW d \in Clients, Send(d) \/ GiveUp(d)
          PROVE  FALSE
      <3>1. client' \in {[client EXCEPT ![d] = "waiting"], [client EXCEPT ![d] = "idle"]}
        BY <2>6 DEF Send, GiveUp
      <3>2. QED
        BY <3>1 DEF IInv, TypeOK
    <2>7. CASE \E e \in Extensions : ChangeDisk(e) \/ Toggle(e)
      BY <2>7 DEF ChangeDisk, Toggle, Changed
    <2>8. QED
      BY <2>1, <2>2, <2>3, <2>4, <2>5, <2>6, <2>7 DEF Next, MainStep, LoadCoreConfig
  <1>2. QED
    BY <1>1, Invariance, PTL DEF Spec, ReloadIsFresh

-----------------------------------------------------------------------------
(***************************************************************************)
(* The end of the daemon.                                                  *)
(***************************************************************************)

\* How far the main thread is from its end once the flag is down: a request it
\* serves, one more load that was due, and then the loop is left.
StagesLeft ==
    CASE main = "load" /\ task.kind = "start" -> 8
      [] main = "begin" -> 7
      [] main = "run" -> 6
      [] main = "load" /\ task.kind = "reload" -> 6
      [] main = "due" -> 5
      [] main = "load" /\ task.kind = "schedule" -> 4
      [] main = "tick" -> 3
      [] main = "recv" -> 2
      [] main = "leaving" -> 1
      [] main = "stopped" -> 0

\* A step on the way: the next stage, or the same load with a directory less.
Advances ==
    \/ StagesLeft' < StagesLeft
    \/ StagesLeft' = StagesLeft /\ todo' \subseteq todo /\ todo' # todo

\* What the main thread does when the flag is down brings it nearer to its end.
LEMMA MainAdvances ==
    ASSUME IInv, ~running, MainStep
    PROVE  StagesLeft \in Nat /\ StagesLeft' \in Nat /\ Advances
  <1> USE DEF IInv, Purpose, StagesLeft, Advances, loadVars, worldVars, historyVars
  <1>1. /\ main \in {"load", "begin", "recv", "run", "due", "tick", "leaving", "stopped"}
        /\ main = "load" => task.kind \in {"start", "schedule", "reload"}
    BY DEF TypeOK
  <1>2. ~Serve /\ ~Idle
    BY DEF Serve, Idle
  <1>3. CASE LoadDir
    <2>1. CASE LoadFails
      <3>1. main = "load" /\ main' = (IF task.kind = "reload" THEN "due" ELSE "leaving")
        BY <1>3, <2>1 DEF LoadDir, LoadFails
      <3> QED
        BY <1>1, <3>1
    <2>2. CASE /\ UNCHANGED <<main, task, client>>
               /\ \E e \in todo : todo' = todo \ {e}
      BY <1>1, <1>3, <2>2 DEF LoadDir
    <2> QED
      BY <1>3, <2>1, <2>2 DEF LoadDir
  <1>4. CASE LoadCoreConfig
    <2>1. CASE LoadFails
      <3>1. main = "load" /\ main' = (IF task.kind = "reload" THEN "due" ELSE "leaving")
        BY <1>4, <2>1 DEF LoadCoreConfig, LoadFails
      <3> QED
        BY <1>1, <3>1
    <2>2. CASE FinishLoad
      <3>1. /\ main = "load"
            /\ main' = CASE task.kind = "start" -> "begin" [] task.kind = "reload" -> "due"
                         [] task.kind = "schedule" -> "tick"
        BY <1>4, <2>2 DEF LoadCoreConfig, FinishLoad
      <3> QED
        BY <1>1, <3>1
    <2> QED
      BY <1>4, <2>1, <2>2 DEF LoadCoreConfig
  <1>5. CASE Due
    <2>1. CASE BeginLoad(Task("schedule"))
      <3>1. main = "due" /\ main' = "load" /\ task'.kind = "schedule"
        BY <1>5, <2>1 DEF Due, BeginLoad, Task
      <3> QED
        BY <3>1
    <2>2. CASE main' = "tick"
      BY <1>5, <2>2 DEF Due
    <2> QED
      BY <1>5, <2>1, <2>2 DEF Due
  <1>6. CASE Begin \/ Leave \/ RunEnds \/ Tick \/ Join
    BY <1>6 DEF Begin, Leave, RunEnds, Tick, Join
  <1> QED
    BY <1>2, <1>3, <1>4, <1>5, <1>6 DEF MainStep

\* Main thread and tray threads have something to do: the guards of their steps
\* while the flag is down.
MainCan ==
    \/ main \in {"load", "begin", "run", "recv", "due", "tick"}
    \/ main = "leaving" /\ \A t \in Trays : tray[t] # "loop"
TrayCan(t) == tray[t] = "loop"

\* Once the flag is down, it stays down; until the daemon has ended the main
\* thread can go on, or waits for a tray thread that can; no step of others sends
\* the main thread back, and each of its own brings it nearer to its end, the
\* running of an extension taken for a step that ends.  That both get the
\* processor is the rest of ShutdownEnds (run_daemon, run_tray).
THEOREM ShutdownNears ==
  Spec => /\ [](~running => main = "stopped" \/ MainCan \/ \E t \in Trays : TrayCan(t))
          /\ [][~running => /\ ~running'
                            /\ \/ UNCHANGED <<main, todo>> \/ Advances]_vars
          /\ [][~running /\ MainStep => Advances]_vars
  <1>1. IInv => (~running => main = "stopped" \/ MainCan \/ \E t \in Trays : TrayCan(t))
    BY DEF IInv, TypeOK, MainCan, TrayCan
  <1>2. IInv /\ [Next]_vars => [~running /\ MainStep => Advances]_vars
    BY MainAdvances
  <1>3. IInv /\ [Next]_vars =>
           [~running => /\ ~running' /\ \/ UNCHANGED <<main, todo>> \/ Advances]_vars
    <2> SUFFICES ASSUME IInv, Next, ~running
                 PROVE  ~running' /\ (UNCHANGED <<main, todo>> \/ Advances)
      OBVIOUS
    <2> USE DEF loadVars, worldVars, historyVars
    <2>1. CASE MainStep
      <3>1. running' = running
        BY <2>1 DEF MainStep, LoadDir, LoadCoreConfig, Begin, Leave, Idle, Serve, RunEnds, Due,
           Tick, Join
      <3> QED
        BY <2>1, <3>1, MainAdvances
    <2>2. CASE (\E t \in Trays : TrayStops(t) \/ TrayFails(t)) \/ Exit
      BY <2>2 DEF TrayStops, TrayFails, TrayEnds, Exit
    <2>3. CASE \E c \in Clients : Send(c) \/ GiveUp(c)
      BY <2>3 DEF Send, GiveUp
    <2>4. CASE \E e \in Extensions : ChangeDisk(e) \/ Toggle(e)
      BY <2>4 DEF ChangeDisk, Toggle, Changed
    <2> QED
      BY <2>1, <2>2, <2>3, <2>4 DEF Next
  <1> QED
    BY <1>1, <1>2, <1>3, Invariance, PTL DEF Spec
=============================================================================
