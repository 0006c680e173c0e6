---------------------------- MODULE CopperProofs ----------------------------
(***************************************************************************)
(* Proofs about Copper: the daemon with its runs is a daemon, and whatever *)
(* a run does, a trigger is answered "ok" only for an extension that ended *)
(* well.  Both parts bring their theorems and their inductive invariants   *)
(* with them.                                                              *)
(***************************************************************************)
EXTENDS Copper, TLAPS

DaemonP == INSTANCE DaemonLoopProofs
RunP == INSTANCE DenoRunProofs

-----------------------------------------------------------------------------
(***************************************************************************)
(* The daemon.                                                             *)
(***************************************************************************)

\* A step of the whole is one of the daemon, or none of its own.
LEMMA StepOfDaemon == [Next]_vars => [Daemon!Next]_(Daemon!vars)
  <1>1. RunReturns => Daemon!Next
    BY DEF RunReturns, Daemon!Next, Daemon!MainStep
  <1>2. UNCHANGED daemonVars => UNCHANGED Daemon!vars
    BY DEF daemonVars, Daemon!vars
  <1>3. QED
    BY <1>1, <1>2 DEF Next, HostStep, ChildStep, vars

\* The whole is a daemon: what is one step there, the run of a triggered
\* extension, is here many that the daemon does not see.
THEOREM Refines == Spec => Daemon!Spec
  <1>1. Init => Daemon!Init
    BY DEF Init
  <1>2. QED
    BY <1>1, StepOfDaemon, PTL DEF Spec, Daemon!Spec

\* Daemon and DaemonP are one specification.
LEMMA SameDaemon ==
    /\ Daemon!Init <=> DaemonP!Init
    /\ [Daemon!Next]_(Daemon!vars) <=> [DaemonP!Next]_(DaemonP!vars)
  <1> USE DEF Daemon!loadVars, DaemonP!loadVars, Daemon!worldVars, DaemonP!worldVars,
          Daemon!historyVars, DaemonP!historyVars, Daemon!NoTask, DaemonP!NoTask,
          Daemon!Task, DaemonP!Task
  <1>1. Daemon!Init <=> DaemonP!Init
    BY DEF Daemon!Init, DaemonP!Init, Daemon!DiskStates, DaemonP!DiskStates
  <1>2. UNCHANGED Daemon!vars <=> UNCHANGED DaemonP!vars
    BY DEF Daemon!vars, DaemonP!vars
  <1>3. \A r, answer : Daemon!Answer(r, answer) <=> DaemonP!Answer(r, answer)
    BY DEF Daemon!Answer, DaemonP!Answer
  <1>4. /\ Daemon!LoadFails <=> DaemonP!LoadFails
        /\ Daemon!FinishLoad <=> DaemonP!FinishLoad
        /\ \A r : Daemon!BeginLoad(r) <=> DaemonP!BeginLoad(r)
    BY <1>3 DEF Daemon!LoadFails, DaemonP!LoadFails, Daemon!FinishLoad, DaemonP!FinishLoad,
           Daemon!Registered, DaemonP!Registered, Daemon!BeginLoad, DaemonP!BeginLoad
  <1>5. /\ Daemon!LoadDir <=> DaemonP!LoadDir
        /\ Daemon!LoadCoreConfig <=> DaemonP!LoadCoreConfig
    BY <1>4 DEF Daemon!LoadDir, DaemonP!LoadDir, Daemon!LoadCoreConfig, DaemonP!LoadCoreConfig
  <1>6. Daemon!Serve <=> DaemonP!Serve
    <2>1. \A r : /\ Daemon!ServeReload(r) <=> DaemonP!ServeReload(r)
                 /\ Daemon!ServeTrigger(r) <=> DaemonP!ServeTrigger(r)
                 /\ Daemon!ServeShutdown(r) <=> DaemonP!ServeShutdown(r)
                 /\ Daemon!ServeOther(r) <=> DaemonP!ServeOther(r)
                 /\ Daemon!ServeUnreadable(r) <=> DaemonP!ServeUnreadable(r)
      BY <1>3, <1>4 DEF Daemon!ServeReload, DaemonP!ServeReload, Daemon!ServeTrigger,
             DaemonP!ServeTrigger, Daemon!ServeShutdown, DaemonP!ServeShutdown,
             Daemon!ServeOther, DaemonP!ServeOther, Daemon!ServeUnreadable,
             DaemonP!ServeUnreadable
    <2>2. QED
      BY <2>1 DEF Daemon!Serve, DaemonP!Serve
  <1>7. /\ Daemon!Begin <=> DaemonP!Begin
        /\ Daemon!Leave <=> DaemonP!Leave
        /\ Daemon!Idle <=> DaemonP!Idle
        /\ Daemon!RunEnds <=> DaemonP!RunEnds
        /\ Daemon!Due <=> DaemonP!Due
        /\ Daemon!Tick <=> DaemonP!Tick
        /\ Daemon!Join <=> DaemonP!Join
    BY <1>3, <1>4 DEF Daemon!Begin, DaemonP!Begin, Daemon!Leave, DaemonP!Leave, Daemon!Idle,
           DaemonP!Idle, Daemon!RunEnds, DaemonP!RunEnds, Daemon!Due, DaemonP!Due,
           Daemon!Tick, DaemonP!Tick, Daemon!Join, DaemonP!Join
  <1>8. /\ \A t : (Daemon!TrayStops(t) <=> DaemonP!TrayStops(t))
                 /\ (Daemon!TrayFails(t) <=> DaemonP!TrayFails(t))
        /\ Daemon!Exit <=> DaemonP!Exit
    BY DEF Daemon!TrayStops, DaemonP!TrayStops, Daemon!TrayFails, DaemonP!TrayFails,
           Daemon!TrayEnds, DaemonP!TrayEnds, Daemon!Exit, DaemonP!Exit
  <1>9. \A c : (Daemon!Send(c) <=> DaemonP!Send(c)) /\ (Daemon!GiveUp(c) <=> DaemonP!GiveUp(c))
    BY DEF Daemon!Send, DaemonP!Send, Daemon!GiveUp, DaemonP!GiveUp, Daemon!Disown,
           DaemonP!Disown
  <1>10. \A e : /\ Daemon!ChangeDisk(e) <=> DaemonP!ChangeDisk(e)
                /\ Daemon!Toggle(e) <=> DaemonP!Toggle(e)
    BY DEF Daemon!ChangeDisk, DaemonP!ChangeDisk, Daemon!Toggle, DaemonP!Toggle,
           Daemon!Changed, DaemonP!Changed, Daemon!DiskStates, DaemonP!DiskStates
  <1>11. Daemon!MainStep <=> DaemonP!MainStep
    BY <1>5, <1>6, <1>7 DEF Daemon!MainStep, DaemonP!MainStep
  <1>12. Daemon!Next <=> DaemonP!Next
    BY <1>8, <1>9, <1>10, <1>11 DEF Daemon!Next, DaemonP!Next
  <1>13. QED
    BY <1>1, <1>2, <1>12

LEMMA DaemonAssumed == DaemonP!DaemonLoopAssumption
  BY CopperAssumption DEF Daemon!DaemonLoopAssumption, DaemonP!DaemonLoopAssumption

\* The inductive invariant of the daemon holds of the whole.
LEMMA DaemonInvariance == Spec => []DaemonP!IInv
  <1>1. Daemon!Spec => DaemonP!Spec
    BY SameDaemon, PTL DEF Daemon!Spec, DaemonP!Spec
  <1>2. DaemonP!Spec => []DaemonP!IInv
    BY DaemonAssumed, DaemonP!Invariance
  <1>3. QED
    BY Refines, <1>1, <1>2, PTL

\* With the runs in place of one step, the registry is still what the disk and
\* the core config say, and "reloaded" still promises every earlier change.
THEOREM DaemonIsRight == Spec => []Daemon!RegistryTracksDisk /\ Daemon!ReloadIsFresh
  <1>1. DaemonP!IInv => Daemon!RegistryTracksDisk
    BY DEF DaemonP!IInv, DaemonP!RegistryTracksDisk, Daemon!RegistryTracksDisk
  <1> DEFINE Fresh ==
               \A c \in Clients : client[c] = "waiting" /\ client'[c] = "reloaded"
                                    => stale' \subseteq unseen[c]
  <1>2. [Fresh]_(DaemonP!vars) => [Fresh]_(Daemon!vars)
    BY DEF Daemon!vars, DaemonP!vars
  <1>3. Spec => DaemonP!Spec
    BY Refines, SameDaemon, PTL DEF Daemon!Spec, DaemonP!Spec
  <1>4. DaemonP!Spec => DaemonP!ReloadIsFresh
    BY DaemonAssumed, DaemonP!FreshReloads
  <1>5. DaemonP!ReloadIsFresh => Daemon!ReloadIsFresh
    BY <1>2, PTL DEF Daemon!ReloadIsFresh, DaemonP!ReloadIsFresh
  <1>6. QED
    BY <1>1, <1>3, <1>4, <1>5, DaemonInvariance, PTL

-----------------------------------------------------------------------------
(***************************************************************************)
(* The run.                                                                *)
(***************************************************************************)

\* A step of the whole is one of the run, a new run, or none of its own.
LEMMA StepOfRun == [Next]_vars => [Run!Next]_(Run!vars) \/ NewRun
  <1>1. UNCHANGED runVars => UNCHANGED Run!vars
    BY DEF runVars, Run!vars
  <1>2. UNCHANGED vars => UNCHANGED runVars
    BY DEF vars
  <1>3. QED
    BY <1>1, <1>2 DEF Next, WithRun, RunReturns, HostStep, ChildStep, Run!Next

\* Run and RunP are one specification.
LEMMA SameRun ==
    /\ [Run!Next]_(Run!vars) => [RunP!Next]_(RunP!vars)
    /\ NewRun => RunP!Init'
    /\ Run!SuccessIsEarned <=> RunP!SuccessIsEarned
    /\ Run!AnswersMatchCalls <=> RunP!AnswersMatchCalls
    /\ Run!NoFullPipeDeadlock <=> RunP!NoFullPipeDeadlock
    /\ Run!DenoRunAssumption <=> RunP!DenoRunAssumption
  <1> USE DEF Run!NoLine, RunP!NoLine, Run!Line, RunP!Line, Run!CallLine, RunP!CallLine,
              Run!hostVars, RunP!hostVars, Run!childVars, RunP!childVars
  <1>1. UNCHANGED Run!vars <=> UNCHANGED RunP!vars
    BY DEF Run!vars, RunP!vars
  <1>2. Run!ReadLine <=> RunP!ReadLine
    BY DEF Run!ReadLine, RunP!ReadLine, Run!LeaveLoop, RunP!LeaveLoop,
           Run!ReadDone, RunP!ReadDone, Run!ReadError, RunP!ReadError,
           Run!ReadNoise, RunP!ReadNoise, Run!ReadBinary, RunP!ReadBinary,
           Run!ReadCall, RunP!ReadCall
  <1>3. Run!HostStep <=> RunP!HostStep
    BY <1>2
    DEF Run!HostStep, RunP!HostStep, Run!Start, RunP!Start, Run!StartFails, RunP!StartFails,
        Run!ReadEof, RunP!ReadEof, Run!WriteReply, RunP!WriteReply,
        Run!WaitReturns, RunP!WaitReturns, Run!LeaveLoop, RunP!LeaveLoop
  <1>4. \A l : Run!BeginWrite(l) <=> RunP!BeginWrite(l)
    BY DEF Run!BeginWrite, RunP!BeginWrite
  <1>5. Run!ExtensionStep <=> RunP!ExtensionStep
    <2>1. Run!Owed = RunP!Owed
      BY DEF Run!Owed, RunP!Owed, Run!Cardinality, RunP!Cardinality
    <2>2. Run!Call <=> RunP!Call
      BY <1>4, <2>1 DEF Run!Call, RunP!Call
    <2>3. \A kind : Run!PrintLine(kind) <=> RunP!PrintLine(kind)
      BY <1>4, <2>1 DEF Run!PrintLine, RunP!PrintLine
    <2>4. (Run!Finish <=> RunP!Finish) /\ (Run!Throw <=> RunP!Throw)
      BY <1>4 DEF Run!Finish, RunP!Finish, Run!Throw, RunP!Throw
    <2>5. QED
      BY <2>2, <2>3, <2>4 DEF Run!ExtensionStep, RunP!ExtensionStep
  <1>6. (Run!BridgeStep <=> RunP!BridgeStep) /\ (Run!Die <=> RunP!Die)
    BY DEF Run!BridgeStep, RunP!BridgeStep, Run!WriteLine, RunP!WriteLine,
           Run!WriteBroken, RunP!WriteBroken, Run!Receive, RunP!Receive,
           Run!StdinEof, RunP!StdinEof, Run!Die, RunP!Die
  <1>7. NewRun => RunP!Init'
    BY DEF NewRun, RunP!Init, Run!FirstId, RunP!FirstId, Run!Ids, RunP!Ids
  <1>8. /\ Run!SuccessIsEarned <=> RunP!SuccessIsEarned
        /\ Run!AnswersMatchCalls <=> RunP!AnswersMatchCalls
        /\ Run!NoFullPipeDeadlock <=> RunP!NoFullPipeDeadlock
        /\ Run!DenoRunAssumption <=> RunP!DenoRunAssumption
    BY DEF Run!SuccessIsEarned, RunP!SuccessIsEarned, Run!Ids, RunP!Ids,
           Run!AnswersMatchCalls, RunP!AnswersMatchCalls,
           Run!NoFullPipeDeadlock, RunP!NoFullPipeDeadlock,
           Run!DenoRunAssumption, RunP!DenoRunAssumption
  <1>9. Run!Next <=> RunP!Next
    BY <1>3, <1>5, <1>6 DEF Run!Next, RunP!Next
  <1>10. QED
    BY <1>1, <1>7, <1>8, <1>9

\* Before the first run, nothing is under way.
LEMMA NoRunHolds == NoRun => RunP!IInv
  <1> SUFFICES ASSUME NoRun
               PROVE  RunP!IInv
    OBVIOUS
  <1>1. RunP!DenoRunAssumption
    BY CopperAssumption, SameRun
  <1>2. RunP!NoLine \in RunP!LineType /\ RunP!Anonymous(RunP!NoLine) /\ Run!NoLine = RunP!NoLine
    BY <1>1, RunP!MadeLines DEF Run!NoLine, RunP!NoLine
  <1>3. RunP!TypeOK
    <2>1. <<>> \in Seq(RunP!LineType) /\ Len(<<>>) <= Capacity
      BY <1>1 DEF RunP!DenoRunAssumption
    <2>2. nextId \in 0 .. MaxCalls + 1
      BY <1>1 DEF RunP!DenoRunAssumption, NoRun, Run!FirstId
    <2>3. settled \in [RunP!Ids -> {"none", "own", "foreign"}]
      BY DEF NoRun, Run!Ids, RunP!Ids
    <2>4. QED
      BY <1>2, <2>1, <2>2, <2>3 DEF NoRun, RunP!TypeOK
  <1>4. RunP!Opened /\ RunP!Told
    BY DEF NoRun, RunP!Opened, RunP!Told, Run!NoLine
  <1>5. RunP!Addressed
    BY <1>2 DEF NoRun, RunP!Addressed, Run!FirstId
  <1>6. RunP!AnswersMatchCalls
    BY DEF NoRun, RunP!AnswersMatchCalls, Run!Ids, RunP!Ids
  <1>7. QED
    BY <1>3, <1>4, <1>5, <1>6 DEF RunP!IInv

\* The runs of the daemon, one after the other, keep the invariant of one run,
\* and the child of the run before may go on while there is none.
LEMMA RunInvariance == Spec => []RunP!IInv
  <1>1. Init => RunP!IInv
    BY NoRunHolds DEF Init
  <1>2. RunP!DenoRunAssumption
    BY CopperAssumption, SameRun
  <1>3. RunP!IInv /\ [Next]_vars => RunP!IInv'
    <2>1. NewRun => RunP!IInv'
      <3>1. RunP!Init' => RunP!IInv'
        BY <1>2, RunP!InitIInv, PTL
      <3>2. QED
        BY <3>1, SameRun
    <2>2. RunP!IInv /\ [RunP!Next]_(RunP!vars) => RunP!IInv'
      BY <1>2, RunP!NextIInv
    <2>3. QED
      BY <2>1, <2>2, StepOfRun, SameRun
  <1>4. QED
    BY <1>1, <1>3, PTL DEF Spec

\* In the daemon, as alone, no call is settled by an answer that was computed
\* for another line, and success is earned.
THEOREM RunsAreRight == Spec => [](Run!AnswersMatchCalls /\ Run!SuccessIsEarned)
  <1>1. RunP!IInv => Run!AnswersMatchCalls /\ Run!SuccessIsEarned
    BY SameRun DEF RunP!IInv, RunP!Told, RunP!SuccessIsEarned
  <1>2. QED
    BY <1>1, RunInvariance, PTL

\* In the daemon, as alone, host and child never wait for each other to make room
\* in a pipe: each run begins with empty pipes, and the child that a run before
\* has left behind is owed nothing more.
THEOREM RunsDoNotBlock == Spec => []Run!NoFullPipeDeadlock
  <1>1. RunP!DenoRunAssumption
    BY CopperAssumption, SameRun
  <1>2. Init => RunP!Bounded
    <2>1. NoRun => RunP!IInv
      BY NoRunHolds
    <2>2. NoRun => RunP!Bounded
      BY <1>1, <2>1, RunP!EmptyBounded DEF NoRun, RunP!IInv, Run!NoLine, RunP!NoLine
    <2>3. QED
      BY <2>2 DEF Init
  <1>3. RunP!IInv /\ RunP!Bounded /\ [Next]_vars => RunP!Bounded'
    <2>1. NewRun => RunP!Bounded'
      <3>1. RunP!Init => RunP!Bounded
        BY <1>1, RunP!InitIInv, RunP!EmptyBounded DEF RunP!IInv, RunP!Init
      <3>2. RunP!Init' => RunP!Bounded'
        BY <3>1, PTL
      <3>3. QED
        BY <3>2, SameRun
    <2>2. RunP!IInv /\ RunP!Bounded /\ [RunP!Next]_(RunP!vars) => RunP!Bounded'
      BY <1>1, RunP!NextBounded
    <2>3. QED
      BY <2>1, <2>2, StepOfRun, SameRun
  <1>4. RunP!IInv /\ RunP!Bounded => Run!NoFullPipeDeadlock
    BY <1>1, RunP!BoundedHasRoom, SameRun
  <1>5. QED
    BY <1>2, <1>3, <1>4, RunInvariance, PTL DEF Spec

\* However the child ends and whatever it writes, a client is told "ok" by a
\* trigger only of an extension that ended without throwing or was killed
\* (trigger_payload, drive_extension).
THEOREM OkEarned == Spec => OkIsEarned
  <1> DEFINE Earned ==
               \A c \in Clients :
                  main = "run" /\ client[c] = "waiting" /\ client'[c] = "ok"
                    => ended \in {"done", "died"}
  <1>1. RunP!IInv /\ DaemonP!IInv /\ [Next]_vars => [Earned]_vars
    <2> SUFFICES ASSUME RunP!IInv, DaemonP!IInv, Next, NEW c \in Clients, main = "run",
                        client[c] = "waiting", client'[c] = "ok"
                 PROVE  ended \in {"done", "died"}
      OBVIOUS
    <2>1. CASE RunReturns
      <3>1. c = task.from
        BY <2>1 DEF RunReturns, Daemon!RunEnds, Daemon!Answer
      <3>2. result = "ok"
        BY <2>1, <3>1 DEF RunReturns, Answer
      <3>3. QED
        BY <3>2 DEF RunP!IInv, RunP!Told
    <2>2. CASE HostStep \/ ChildStep
      BY <2>2 DEF HostStep, ChildStep, daemonVars
    <2>3. CASE Daemon!Next /\ WithRun
      <3>1. main' = "run"
        BY <2>3 DEF WithRun
      <3>2. ~Daemon!MainStep
        BY <3>1
        DEF Daemon!MainStep, Daemon!LoadDir, Daemon!LoadCoreConfig, Daemon!Begin,
            Daemon!Leave, Daemon!Idle, Daemon!Serve, Daemon!RunEnds, Daemon!Due,
            Daemon!Tick, Daemon!Join
      <3>3. CASE Daemon!Exit \/ \E t \in Trays : Daemon!TrayStops(t) \/ Daemon!TrayFails(t)
        BY <3>3 DEF Daemon!Exit, Daemon!TrayStops, Daemon!TrayFails, Daemon!TrayEnds
      <3>4. ASSUME NEW d \in Clients, Daemon!Send(d) \/ Daemon!GiveUp(d)
            PROVE  FALSE
        <4>1. client' \in {[client EXCEPT ![d] = "waiting"], [client EXCEPT ![d] = "idle"]}
          BY <3>4 DEF Daemon!Send, Daemon!GiveUp
        <4>2. client'[c] \in {client[c], "waiting", "idle"}
          BY <4>1 DEF DaemonP!IInv, DaemonP!TypeOK
        <4>3. QED
          BY <4>2
      <3>5. CASE \E e \in Extensions : Daemon!ChangeDisk(e) \/ Daemon!Toggle(e)
        BY <3>5 DEF Daemon!ChangeDisk, Daemon!Toggle, Daemon!Changed
      <3>6. QED
        BY <2>3, <3>2, <3>3, <3>4, <3>5 DEF Daemon!Next
    <2>4. QED
      BY <2>1, <2>2, <2>3 DEF Next
  <1>2. QED
    BY <1>1, RunInvariance, DaemonInvariance, PTL DEF Spec, OkIsEarned
=============================================================================
