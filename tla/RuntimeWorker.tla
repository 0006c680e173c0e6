--------------------------- MODULE RuntimeWorker ---------------------------
(***************************************************************************)
(* A trigger from its request to the run of the extension: the engine      *)
(* (execution.rs) has a worker process choose the action                   *)
(* (runtime/mod.rs), runs the host's part of it, and then runs main.ts.    *)
(*                                                                         *)
(* The engine writes its request into the pipe of the worker and reads the *)
(* answer until the pipe ends; the worker reads until its pipe ends before *)
(* it answers.  A pipe holds PipeSize parts of a message and blocks its    *)
(* writer when it is full.  The worker may be killed at any time, may fail *)
(* to start, and may be of another version than the engine when the        *)
(* program's file was replaced.                                            *)
(***************************************************************************)
EXTENDS Naturals, Sequences, SequencesExt

CONSTANTS
    Manifests,     \* the action ids of the manifests tried, in their order
    Names,         \* action ids that are asked for
    NoAction,      \* no action id is asked for
    HostOwned,     \* the trigger is of an extension with a host capability
    RequestParts, AnswerParts, PipeSize   \* sizes of messages and pipes

Kinds == {"none", "ok", "invalid-action", "abi-mismatch", "io", "serde", "no-response",
          "host-failed"}

RuntimeWorkerAssumption ==
    /\ \A m \in Manifests : m \in Seq(Names)
    /\ NoAction \notin Names
    /\ HostOwned \in BOOLEAN
    /\ {RequestParts, AnswerParts, PipeSize} \subseteq Nat \ {0}

VARIABLES
    via,         \* who triggers: the command line or the control plane
    actions,     \* the action ids of the extension's manifest
    asked,       \* the action id asked for
    input,       \* the caller's own input "action", or NoAction
    version,     \* whether the worker is of the engine's version
    engine,      \* where the engine is
    unwritten,   \* parts of the request still to write
    stdin, stdinOpen,
    worker,      \* where the worker is
    read,        \* parts of the request the worker has read
    unanswered,  \* parts of the answer still to write
    stdout,
    received,    \* parts of the answer the engine has read
    prepared,    \* the outcome of the preparation: its kind and the action id
    ran          \* history: what of the extension ran, with its action id

vars == <<via, actions, asked, input, version, engine, unwritten, stdin, stdinOpen, worker,
          read, unanswered, stdout, received, prepared, ran>>
given == <<via, actions, asked, input, version>>

Outcome(kind, action) == [kind |-> kind, action |-> action]
-----------------------------------------------------------------------------
Init ==
    /\ via \in {"cli", "daemon"}
    /\ actions \in Manifests /\ asked \in Names \cup {NoAction}
    /\ input \in IF via = "cli" THEN Names \cup {NoAction} ELSE {NoAction}
    /\ version \in {"same", "newer"}
    /\ engine = "spawn" /\ worker = "none"
    /\ unwritten = RequestParts /\ stdin = 0 /\ stdinOpen = TRUE /\ read = 0
    /\ unanswered = AnswerParts /\ stdout = 0 /\ received = 0
    /\ prepared = Outcome("none", NoAction) /\ ran = <<>>
-----------------------------------------------------------------------------
(* The worker: run_protocol_worker.                                        *)

\* The choice, had an unknown id been taken for no id.
SelectAction_Lenient ==
    IF asked \in ToSet(actions) THEN Outcome("ok", asked)
    ELSE IF actions # <<>> THEN Outcome("ok", Head(actions))
    ELSE Outcome("invalid-action", NoAction)

\* select_action: the id that was asked for, or the first of the manifest.
SelectAction ==
    IF asked # NoAction
    THEN IF asked \in ToSet(actions) THEN Outcome("ok", asked)
                                     ELSE Outcome("invalid-action", NoAction)
    ELSE IF actions # <<>> THEN Outcome("ok", Head(actions))
                           ELSE Outcome("invalid-action", NoAction)

WorkerAnswer == IF version = "same" THEN SelectAction ELSE Outcome("abi-mismatch", NoAction)

WorkerReads ==
    /\ worker = "reading" /\ stdin > 0
    /\ stdin' = stdin - 1 /\ read' = read + 1
    /\ UNCHANGED <<given, engine, unwritten, stdinOpen, worker, unanswered, stdout, received,
                   prepared, ran>>

\* A request that was cut off does not parse: the worker ends without a word
\* on its output.
WorkerAtEnd ==
    /\ worker = "reading" /\ stdin = 0 /\ ~stdinOpen
    /\ worker' = IF read = RequestParts THEN "answering" ELSE "ended"
    /\ UNCHANGED <<given, engine, unwritten, stdin, stdinOpen, read, unanswered, stdout,
                   received, prepared, ran>>

WorkerWrites ==
    /\ worker = "answering" /\ stdout < PipeSize
    /\ stdout' = stdout + 1 /\ unanswered' = unanswered - 1
    /\ worker' = IF unanswered = 1 THEN "ended" ELSE worker
    /\ UNCHANGED <<given, engine, unwritten, stdin, stdinOpen, read, received, prepared, ran>>

\* The worker is killed, or crashes.
WorkerDies ==
    /\ worker \in {"reading", "answering"}
    /\ worker' = "ended"
    /\ UNCHANGED <<given, engine, unwritten, stdin, stdinOpen, read, unanswered, stdout,
                   received, prepared, ran>>
-----------------------------------------------------------------------------
(* The engine: SubprocessRuntime::prepare_trigger.                         *)

\* The end of the preparation: with a result the host's part is next.
Finish(outcome) ==
    /\ prepared' = outcome
    /\ engine' = IF outcome.kind = "ok" THEN "host" ELSE "over"

Spawn ==
    /\ engine = "spawn"
    /\ \/ engine' = "writing" /\ worker' = "reading" /\ UNCHANGED prepared
       \/ Finish(Outcome("io", NoAction)) /\ UNCHANGED worker
    /\ UNCHANGED <<given, unwritten, stdin, stdinOpen, read, unanswered, stdout, received, ran>>

\* A part of the request: refused when the worker is gone.
WriteRequest ==
    /\ engine = "writing" /\ unwritten > 0
    /\ IF worker = "ended"
       THEN /\ Finish(Outcome("serde", NoAction)) /\ stdinOpen' = FALSE
            /\ UNCHANGED <<unwritten, stdin>>
       ELSE /\ stdin < PipeSize
            /\ stdin' = stdin + 1 /\ unwritten' = unwritten - 1
            /\ UNCHANGED <<engine, prepared, stdinOpen>>
    /\ UNCHANGED <<given, worker, read, unanswered, stdout, received, ran>>

\* The wait, had it left the worker's input open.
BeginWait_KeepsStdin ==
    /\ engine = "writing" /\ unwritten = 0
    /\ engine' = "waiting"
    /\ UNCHANGED <<given, unwritten, stdin, stdinOpen, worker, read, unanswered, stdout,
                   received, prepared, ran>>

\* wait_with_output closes the worker's input.
BeginWait ==
    /\ engine = "writing" /\ unwritten = 0
    /\ engine' = "waiting" /\ stdinOpen' = FALSE
    /\ UNCHANGED <<given, unwritten, stdin, worker, read, unanswered, stdout, received,
                   prepared, ran>>

ReadAnswer ==
    /\ engine = "waiting" /\ stdout > 0
    /\ stdout' = stdout - 1 /\ received' = received + 1
    /\ UNCHANGED <<given, engine, unwritten, stdin, stdinOpen, worker, read, unanswered,
                   prepared, ran>>

\* What came out of the worker by its end: nothing, a text that was cut off, or
\* the answer.
ReadOutcome ==
    IF received = 0 THEN Outcome("no-response", NoAction)
    ELSE IF received < AnswerParts THEN Outcome("serde", NoAction)
    ELSE WorkerAnswer

EndWait ==
    /\ engine = "waiting" /\ worker = "ended" /\ stdout = 0
    /\ Finish(ReadOutcome)
    /\ UNCHANGED <<given, unwritten, stdin, stdinOpen, worker, read, unanswered, stdout,
                   received, ran>>
-----------------------------------------------------------------------------
(* The engine: ExecutionEngine.                                            *)

\* trigger_payload of a host extension runs the prepared action there and then.
RunHost ==
    /\ engine = "host"
    /\ IF ~HostOwned
       THEN engine' = "script" /\ UNCHANGED <<prepared, ran>>
       ELSE /\ ran' = Append(ran, <<"host", prepared.action>>)
            /\ \/ engine' = "script" /\ UNCHANGED prepared
               \/ Finish(Outcome("host-failed", NoAction))
    /\ UNCHANGED <<given, unwritten, stdin, stdinOpen, worker, read, unanswered, stdout, received>>

\* The caller's own input "action" wins over the resolved action.
MergedAction == IF input # NoAction THEN input ELSE prepared.action

\* execute_trigger: main.ts runs, DenoRun says how.
RunScript ==
    /\ engine = "script"
    /\ engine' = "over"
    /\ ran' = Append(ran, <<"main", MergedAction>>)
    /\ UNCHANGED <<given, unwritten, stdin, stdinOpen, worker, read, unanswered, stdout,
                   received, prepared>>
-----------------------------------------------------------------------------
WorkerStep == WorkerReads \/ WorkerAtEnd \/ WorkerWrites
EngineStep == Spawn \/ WriteRequest \/ BeginWait \/ ReadAnswer \/ EndWait \/ RunHost \/ RunScript

Next == WorkerStep \/ WorkerDies \/ EngineStep

Spec == Init /\ [][Next]_vars

\* Both processes get the processor.  A host action and main.ts end.
FairSpec == Spec /\ WF_vars(WorkerStep) /\ WF_vars(EngineStep)
-----------------------------------------------------------------------------
\* Types, and no part of a message comes out of nothing or is lost in a pipe.
TypeOK ==
    /\ via \in {"cli", "daemon"} /\ version \in {"same", "newer"}
    /\ engine \in {"spawn", "writing", "waiting", "host", "script", "over"}
    /\ worker \in {"none", "reading", "answering", "ended"}
    /\ stdin \in 0..PipeSize /\ stdout \in 0..PipeSize /\ stdinOpen \in BOOLEAN
    /\ prepared.kind \in Kinds /\ prepared.action \in Names \cup {NoAction}
    /\ unwritten + stdin + read = RequestParts
    /\ unanswered + stdout + received = AnswerParts

\* Nothing of an extension runs but an action its manifest has, which is the
\* one that was asked for, or the first when none was: whatever the worker
\* answers, wherever its answer is cut off, and also when the file of the
\* program was replaced.  Only the caller's own input runs main.ts with another.
RunsTheAskedAction ==
    \A i \in 1 .. Len(ran) :
        LET action == IF asked = NoAction THEN Head(actions) ELSE asked
        IN  /\ ran[i] = <<"host", action>> \/ ran[i] = <<"main", action>>
                \/ (input # NoAction /\ ran[i] = <<"main", input>>)
            /\ action \in ToSet(actions)

\* One trigger runs one action: main.ts does not get another one than the host,
\* unless the caller says so.  The comment of execute_trigger gives the
\* caller's input precedence.
CallerDecides ==
    \A i \in 1 .. Len(ran) :
        ran[i][1] = "main" => ran[i][2] = IF input # NoAction THEN input ELSE ran[1][2]

\* docs/ARCHITECTURE.md, design invariants: a failure of the preparation is an
\* error of the trigger.  It comes to an end, whichever of the two processes
\* dies, stalls in a pipe or answers nothing.
TriggerEnds == <>(engine = "over")

\* The help text of copperd trigger: "Trigger an extension in dry-run mode
\* (prints selected action + permissions)".
DryRunRunsNothing == via = "cli" => ran = <<>>
=============================================================================
