------------------------------- MODULE DenoRun -------------------------------
(***************************************************************************)
(* One execution of an extension: execute_extension and drive_extension of *)
(* daemon/src/runtime/deno_runner.rs in the thread that runs the trigger,  *)
(* and sdk/bridge.ts in the Deno process it starts.                        *)
(*                                                                         *)
(* The two talk over the pipes of the child: lines of stdout carry calls   *)
(* of the host API and the end of the run, lines of stdin carry answers.   *)
(* Both write to a pipe by blocking until it has room, and the child reads *)
(* its stdin only when the extension's code gives way to the event loop.   *)
(*                                                                         *)
(* A line is abstracted to its kind and, for a call, its id; what a call   *)
(* does on the host is the subject of other modules.  External: the pipes, *)
(* Deno's event loop and the code of the extension, which calls, prints,   *)
(* ends and throws when it likes.                                          *)
(***************************************************************************)
EXTENDS Naturals, Sequences, FiniteSets

CONSTANTS
    Capacity,        \* lines a pipe holds
    MaxCalls,        \* bound on the calls of the run
    MaxOutstanding,  \* calls the extension leaves unanswered at a time
    Prints,          \* kinds of other lines it prints on stdout
    MayThrow,        \* its code may throw
    MayDie           \* its process may be killed

(***************************************************************************)
(* "noise" is not JSON, "stray" is JSON without an id (a line with the id  *)
(* of an open call would pass for that call), "binary" is not even UTF-8.  *)
(***************************************************************************)
ASSUME DenoRunAssumption ==
    /\ Capacity \in Nat \ {0}
    /\ MaxCalls \in Nat
    /\ MaxOutstanding \in Nat
    /\ Prints \subseteq {"noise", "stray", "binary"}
    /\ MayThrow \in BOOLEAN
    /\ MayDie \in BOOLEAN

VARIABLES
    host,        \* what the thread that runs the trigger does
    result,      \* of execute_extension; before it returns, the one it will return
    bridgeFile,  \* the temporary copy of bridge.ts exists
    reply,       \* the answer the host is writing
    stdinOpen,   \* the host holds its end of the child's stdin
    stdoutOpen,  \* the host holds its end of the child's stdout
    toHost,      \* lines in the pipe of stdout
    toChild,     \* lines in the pipe of stdin
    child,       \* what the Deno process does
    line,        \* the line it is writing
    nextId,      \* _nextId
    pending,     \* ids in _pending
    settled,     \* the answer that settled each call
    ended        \* history: how the extension ended

hostVars == <<host, result, bridgeFile, reply, stdinOpen, stdoutOpen>>
childVars == <<child, line, nextId, pending, settled, ended>>
vars == <<host, result, bridgeFile, reply, stdinOpen, stdoutOpen,
          toHost, toChild, child, line, nextId, pending, settled, ended>>

\* Lines of the same shape in both pipes; an answer names the call it was
\* computed for, which is "stray" for a line that was no call of the bridge.
NoLine == [kind |-> "none", id |-> 0]
Line(kind) == [kind |-> kind, id |-> 0]
CallLine(id) == [kind |-> "call", id |-> id]

Ids == 0 .. MaxCalls

LineKinds == {"none", "call", "done", "error", "noise", "stray", "binary"}

-----------------------------------------------------------------------------

\* `let _nextId = 0`
FirstId_Zero == 0

\* `let _nextId = 1`
FirstId == 1

Init ==
    /\ host = "start"
    /\ result = "none"
    /\ bridgeFile = FALSE
    /\ reply = NoLine
    /\ stdinOpen = FALSE
    /\ stdoutOpen = FALSE
    /\ toHost = <<>>
    /\ toChild = <<>>
    /\ child = "none"
    /\ line = NoLine
    /\ nextId = FirstId
    /\ pending = {}
    /\ settled = [id \in Ids |-> "none"]
    /\ ended = "no"

-----------------------------------------------------------------------------
(***************************************************************************)
(* The host.                                                               *)
(***************************************************************************)

\* execute_extension up to the spawn.
Start ==
    /\ host = "start"
    /\ bridgeFile' = TRUE
    /\ host' = "read"
    /\ stdinOpen' = TRUE
    /\ stdoutOpen' = TRUE
    /\ child' = "running"
    /\ UNCHANGED <<result, reply, toHost, toChild, line, nextId, pending, settled, ended>>

\* deno is not installed, bridge.ts cannot be written, or the spawn fails; the
\* last of these leaves the temporary file behind.
StartFails ==
    /\ host = "start"
    /\ host' = "returned"
    /\ result' = "error"
    /\ bridgeFile' \in BOOLEAN
    /\ UNCHANGED <<reply, stdinOpen, stdoutOpen, toHost, toChild, childVars>>

\* The loop of drive_extension is left: drop(stdin), and the lines() iterator
\* drops the other pipe.
LeaveLoop ==
    /\ host' = "wait"
    /\ result' = "ok"
    /\ stdinOpen' = FALSE
    /\ stdoutOpen' = FALSE

\* `_done`
ReadDone_KeepsStdin ==
    /\ Head(toHost).kind = "done"
    /\ host' = "wait"
    /\ result' = "ok"
    /\ stdoutOpen' = FALSE
    /\ UNCHANGED <<stdinOpen, reply>>

ReadDone ==
    /\ Head(toHost).kind = "done"
    /\ LeaveLoop
    /\ UNCHANGED reply

\* `_error`, had the loop been left by a break
ReadError_Breaks ==
    /\ Head(toHost).kind = "error"
    /\ LeaveLoop
    /\ UNCHANGED reply

\* `_error`: child.wait() comes before the return that drops both pipes.
ReadError ==
    /\ Head(toHost).kind = "error"
    /\ host' = "wait"
    /\ result' = "error"
    /\ UNCHANGED <<stdinOpen, stdoutOpen, reply>>

\* A line that does not parse, had it been answered with an error.
ReadNoise_Answers ==
    /\ Head(toHost).kind = "noise"
    /\ reply' = Head(toHost)
    /\ host' = "answer"
    /\ UNCHANGED <<result, bridgeFile, stdinOpen, stdoutOpen>>

\* A line that does not parse is skipped.
ReadNoise ==
    /\ Head(toHost).kind = "noise"
    /\ UNCHANGED hostVars

\* A line that is not UTF-8 is a read error, which returns without waiting.
ReadBinary ==
    /\ Head(toHost).kind = "binary"
    /\ host' = "returned"
    /\ result' = "error"
    /\ bridgeFile' = FALSE
    /\ stdinOpen' = FALSE
    /\ stdoutOpen' = FALSE
    /\ UNCHANGED reply

\* A call, had its answer been left to someone else.
ReadCall_Deferred ==
    /\ Head(toHost).kind \in {"call", "stray"}
    /\ reply' = Head(toHost)
    /\ UNCHANGED <<host, result, bridgeFile, stdinOpen, stdoutOpen>>

\* A call, had dispatch_api no answer for an unknown method.
ReadCall_IgnoresUnknown ==
    /\ Head(toHost).kind \in {"call", "stray"}
    /\ \/ /\ reply' = Head(toHost)
          /\ host' = "answer"
       \/ UNCHANGED <<reply, host>>
    /\ UNCHANGED <<result, bridgeFile, stdinOpen, stdoutOpen>>

\* Anything else is dispatched; a missing id counts as 0 and a missing or
\* unknown method is answered with an error.
ReadCall ==
    /\ Head(toHost).kind \in {"call", "stray"}
    /\ reply' = Head(toHost)
    /\ host' = "answer"
    /\ UNCHANGED <<result, bridgeFile, stdinOpen, stdoutOpen>>

ReadLine ==
    /\ host = "read"
    /\ toHost # <<>>
    /\ toHost' = Tail(toHost)
    /\ \/ ReadDone /\ UNCHANGED bridgeFile
       \/ ReadError /\ UNCHANGED bridgeFile
       \/ ReadNoise
       \/ ReadBinary
       \/ ReadCall
    /\ UNCHANGED <<toChild, childVars>>

\* The child is gone and nothing is left to read: the loop ends.
ReadEof ==
    /\ host = "read"
    /\ toHost = <<>>
    /\ child = "exited"
    /\ LeaveLoop
    /\ UNCHANGED <<bridgeFile, reply, toHost, toChild, childVars>>

\* stdin.write_all; a write to a child that is gone breaks the loop.
WriteReply ==
    /\ host = "answer"
    /\ reply' = NoLine
    /\ \/ /\ child # "exited"
          /\ Len(toChild) < Capacity
          /\ toChild' = Append(toChild, reply)
          /\ host' = "read"
          /\ UNCHANGED <<result, stdinOpen, stdoutOpen>>
       \/ /\ child = "exited"
          /\ LeaveLoop
          /\ UNCHANGED toChild
    /\ UNCHANGED <<bridgeFile, toHost, childVars>>

\* child.wait() returns, and execute_extension removes its copy of bridge.ts.
WaitReturns ==
    /\ host = "wait"
    /\ child = "exited"
    /\ host' = "returned"
    /\ bridgeFile' = FALSE
    /\ stdinOpen' = FALSE
    /\ stdoutOpen' = FALSE
    /\ UNCHANGED <<result, reply, toHost, toChild, childVars>>

HostStep == Start \/ StartFails \/ ReadLine \/ ReadEof \/ WriteReply \/ WaitReturns

-----------------------------------------------------------------------------
(***************************************************************************)
(* The bridge and the extension.                                           *)
(***************************************************************************)

\* Answers on their way to the child, or that lines on their way will cause.
Owed ==
    Len(toChild)
      + Cardinality({i \in 1 .. Len(toHost) : toHost[i].kind \in {"call", "stray"}})
      + (IF reply = NoLine THEN 0 ELSE 1)

\* writeSync: the child is in it until the pipe takes the line.
BeginWrite(l) ==
    /\ child = "running"
    /\ line' = l
    /\ child' = "writing"
    /\ UNCHANGED <<hostVars, toHost, toChild, settled>>

\* _rpc
Call ==
    /\ nextId <= MaxCalls
    /\ Owed < MaxOutstanding
    /\ pending' = pending \cup {nextId}
    /\ nextId' = nextId + 1
    /\ BeginWrite(CallLine(nextId))
    /\ UNCHANGED ended

\* The extension writes to stdout itself.
PrintLine(kind) ==
    /\ kind = "stray" => Owed < MaxOutstanding
    /\ BeginWrite(Line(kind))
    /\ UNCHANGED <<nextId, pending, ended>>

\* onTrigger and onUnload have returned; calls nobody awaited may be open.
Finish ==
    /\ BeginWrite(Line("done"))
    /\ ended' = "done"
    /\ UNCHANGED <<nextId, pending>>

\* main.ts cannot be imported, or a function of the extension throws.
Throw ==
    /\ MayThrow
    /\ BeginWrite(Line("error"))
    /\ ended' = "error"
    /\ UNCHANGED <<nextId, pending>>

\* The pipe takes the line; after the last one the bridge awaits _stdinDone.
WriteLine ==
    /\ child = "writing"
    /\ stdoutOpen
    /\ Len(toHost) < Capacity
    /\ toHost' = Append(toHost, line)
    /\ child' = IF line.kind \in {"done", "error"} THEN "closing" ELSE "running"
    /\ line' = NoLine
    /\ UNCHANGED <<hostVars, toChild, nextId, pending, settled, ended>>

\* Nobody reads stdout any more: the write throws, so does that of `_error`,
\* and the process ends.
WriteBroken ==
    /\ child = "writing"
    /\ ~stdoutOpen
    /\ child' = "exited"
    /\ line' = NoLine
    /\ UNCHANGED <<hostVars, toHost, toChild, nextId, pending, settled, ended>>

\* _stdinLoop: an answer settles the pending call with its id, if there is one.
Receive ==
    /\ child \in {"running", "closing"}
    /\ toChild # <<>>
    /\ toChild' = Tail(toChild)
    /\ LET id == Head(toChild).id IN
       /\ pending' = pending \ {id}
       /\ settled' = IF id \in pending
                     THEN [settled EXCEPT ![id] =
                             IF Head(toChild).kind = "call" THEN "own" ELSE "foreign"]
                     ELSE settled
    /\ UNCHANGED <<hostVars, toHost, child, line, nextId, ended>>

\* stdin is closed: the bridge ends, and an extension that still awaits an
\* answer is stuck, which ends the process too.
StdinEof ==
    /\ child \in {"running", "closing"}
    /\ ~stdinOpen
    /\ toChild = <<>>
    /\ child' = "exited"
    /\ UNCHANGED <<hostVars, toHost, toChild, line, nextId, pending, settled, ended>>

\* The process is killed, or Deno itself fails.
Die ==
    /\ MayDie
    /\ child \in {"running", "writing", "closing"}
    /\ child' = "exited"
    /\ ended' = "died"
    /\ line' = NoLine
    /\ UNCHANGED <<hostVars, toHost, toChild, nextId, pending, settled>>

ExtensionStep == Call \/ (\E kind \in Prints : PrintLine(kind)) \/ Finish \/ Throw

BridgeStep == WriteLine \/ WriteBroken \/ Receive \/ StdinEof

Next == HostStep \/ ExtensionStep \/ BridgeStep \/ Die

Spec == Init /\ [][Next]_vars

\* The host's thread and the pipes run on, and an extension that goes on gives
\* way to the event loop of Deno again and again.  When it calls, ends or
\* throws is its own affair.
FairSpec == Spec /\ WF_vars(HostStep) /\ WF_vars(BridgeStep) /\ SF_vars(Receive)

-----------------------------------------------------------------------------
(***************************************************************************)
(* Properties                                                              *)
(***************************************************************************)

LineType == [kind : LineKinds, id : Ids]

\* The variables hold what the code's variables can hold: in particular the
\* host has an answer to write exactly while it is about to write one, and no
\* pipe holds more than its capacity.
TypeOK ==
    /\ host \in {"start", "read", "answer", "wait", "returned"}
    /\ result \in {"none", "ok", "error"}
    /\ bridgeFile \in BOOLEAN
    /\ reply \in LineType
    /\ (reply # NoLine) <=> (host = "answer")
    /\ stdinOpen \in BOOLEAN
    /\ stdoutOpen \in BOOLEAN
    /\ toHost \in Seq(LineType) /\ Len(toHost) <= Capacity
    /\ toChild \in Seq(LineType) /\ Len(toChild) <= Capacity
    /\ child \in {"none", "running", "writing", "closing", "exited"}
    /\ line \in LineType
    /\ (line # NoLine) <=> (child = "writing")
    /\ nextId \in 0 .. MaxCalls + 1
    /\ pending \subseteq Ids
    /\ settled \in [Ids -> {"none", "own", "foreign"}]
    /\ ended \in {"no", "done", "error", "died"}

\* A call is settled by the answer the host computed for it, whatever else the
\* extension prints on stdout and however many calls it has open: `id` defaults
\* to 0 on the host, and the bridge never uses 0 (drive_extension, _rpc,
\* _stdinLoop).
AnswersMatchCalls == \A id \in Ids : settled[id] # "foreign"

\* The thread that runs the trigger reports success only for an extension that
\* ended without throwing, or whose process was killed.
SuccessIsEarned ==
    host = "returned" /\ result = "ok" => ended \in {"done", "died"}

\* Host and child never block writing to each other, as long as the extension
\* leaves no more calls unanswered than one pipe holds answers.
NoFullPipeDeadlock ==
    MaxOutstanding <= Capacity =>
       ~ /\ host = "answer" /\ Len(toChild) = Capacity
         /\ child = "writing" /\ Len(toHost) = Capacity

\* Once the extension is over without having thrown, the trigger returns and no
\* Deno process is left waiting (drop(stdin) and child.wait() of
\* drive_extension); one that throws is the business of StdinIsClosed.
OverReturns ==
    child \in {"closing", "exited"} /\ ended # "error"
        ~> host = "returned" /\ child = "exited"

\* Every call is answered, or the process is gone, or the extension threw.
CallsAreAnswered ==
    \A id \in Ids :
       id \in pending ~> id \notin pending \/ child = "exited" \/ ended = "error"

\* "Wait for stdin to close (host closes it after receiving _done or _error)."
StdinIsClosed == child = "closing" ~> ~stdinOpen
=============================================================================
