------------------------------- MODULE Copper -------------------------------
(***************************************************************************)
(* The daemon (DaemonLoop) with the runs of its triggers (DenoRun): what   *)
(* DaemonLoop takes for one step, the end of a triggered extension, is     *)
(* here the whole execution, with the child process, its pipes and the     *)
(* host's loop, in the main thread of the daemon.                          *)
(*                                                                         *)
(* trigger_payload of daemon_service.rs calls execute_extension and        *)
(* answers with its result.  A child the host has turned away from may     *)
(* still write; the next run has a process and pipes of its own.           *)
(***************************************************************************)
EXTENDS Naturals, Sequences

CONSTANTS
    Extensions, Clients, Nobody, Trays, Requests, Faults, MaxQueue, MaxChanges,
    Capacity, MaxCalls, MaxOutstanding, Prints, MayThrow, MayDie

VARIABLES
    main, task, running, registry, todo, found, tray, queue, client,
    disk, disabled, changes, since, stale, unseen,
    host, result, bridgeFile, reply, stdinOpen, stdoutOpen,
    toHost, toChild, child, line, nextId, pending, settled, ended

Daemon == INSTANCE DaemonLoop
Run == INSTANCE DenoRun

ASSUME CopperAssumption ==
    /\ Daemon!DaemonLoopAssumption
    /\ Run!DenoRunAssumption

daemonVars == <<main, task, running, registry, todo, found, tray, queue, client,
                disk, disabled, changes, since, stale, unseen>>
runVars == <<host, result, bridgeFile, reply, stdinOpen, stdoutOpen,
             toHost, toChild, child, line, nextId, pending, settled, ended>>
vars == <<daemonVars, runVars>>
-----------------------------------------------------------------------------
\* No run yet: as after one.
NoRun ==
    /\ host = "returned" /\ result = "none" /\ bridgeFile = FALSE
    /\ reply = Run!NoLine /\ stdinOpen = FALSE /\ stdoutOpen = FALSE
    /\ toHost = <<>> /\ toChild = <<>> /\ child = "exited" /\ line = Run!NoLine
    /\ nextId = Run!FirstId /\ pending = {} /\ settled = [id \in Run!Ids |-> "none"]
    /\ ended = "no"

Init == Daemon!Init /\ NoRun

\* execute_extension is called.
NewRun ==
    /\ host' = "start" /\ result' = "none" /\ bridgeFile' = FALSE
    /\ reply' = Run!NoLine /\ stdinOpen' = FALSE /\ stdoutOpen' = FALSE
    /\ toHost' = <<>> /\ toChild' = <<>> /\ child' = "none" /\ line' = Run!NoLine
    /\ nextId' = Run!FirstId /\ pending' = {} /\ settled' = [id \in Run!Ids |-> "none"]
    /\ ended' = "no"

\* What goes with a step of the daemon that does not end a run.
WithRun ==
    /\ main = "run" => main' = "run"
    /\ IF main # "run" /\ main' = "run" THEN NewRun ELSE UNCHANGED runVars

Answer == IF result = "ok" THEN "ok" ELSE "error"

\* execute_extension has returned, and the trigger is answered with its result.
RunReturns ==
    /\ host = "returned"
    /\ Daemon!RunEnds
    /\ task.from \in Clients => client'[task.from] = Answer
    /\ UNCHANGED runVars

MainStep == (Daemon!MainStep /\ WithRun) \/ RunReturns
HostStep == Run!HostStep /\ UNCHANGED daemonVars
ChildStep == (Run!ExtensionStep \/ Run!BridgeStep \/ Run!Die) /\ UNCHANGED daemonVars

Next == (Daemon!Next /\ WithRun) \/ RunReturns \/ HostStep \/ ChildStep

Spec == Init /\ [][Next]_vars

\* The fairness of the two parts.
PartsFair ==
    /\ WF_vars(MainStep)
    /\ \A t \in Trays : WF_vars(Daemon!TrayStops(t) /\ UNCHANGED runVars)
    /\ WF_vars(HostStep)
    /\ WF_vars(Run!BridgeStep /\ UNCHANGED daemonVars)
    /\ SF_vars(Run!Receive /\ UNCHANGED daemonVars)

\* The extension ends, or throws where it may, after some time.
ExtensionEnds == SF_vars((Run!Finish \/ Run!Throw) /\ UNCHANGED daemonVars)

FairSpec == Spec /\ PartsFair /\ ExtensionEnds
-----------------------------------------------------------------------------
\* A client is told "ok" by a trigger only of an extension that ended without
\* throwing, or whose process was killed.
OkIsEarned ==
    [][ \A c \in Clients :
          main = "run" /\ client[c] = "waiting" /\ client'[c] = "ok"
            => ended \in {"done", "died"} ]_vars

\* The daemon and its runs do what DaemonLoop says of the daemon alone, and have
\* its fairness too - a run is one step that comes to an end - unless an
\* extension has thrown, whose process the main thread may wait for in vain.
ImplementsDaemonLoop ==
    /\ Daemon!Spec
    /\ <>[](main = "run" /\ ended = "error") \/ Daemon!Fairness

=============================================================================
