----------------------------- MODULE Extensions -----------------------------
(***************************************************************************)
(* What stands between a trigger and its extension: the token of the       *)
(* control plane (ControlPlane), the registry (Registry), and the choice   *)
(* of the action by the worker process (RuntimeWorker); and the state that *)
(* shipped extensions keep through calls of the host: store.json           *)
(* (ExtStore), the torrents of two folders (TorrentOrganizer) and the text *)
(* in the keychain (SafeInput).  They share no variable, so that one of    *)
(* them moves at a time, while the others rest:                            *)
(*   token     one daemon that starts several times, and its clients;      *)
(*   load      one load of the registry;                                   *)
(*   worker    one trigger;                                                *)
(*   crossed, serial   runs of session-counter in processes of their own,  *)
(*                     or one run after the other;                         *)
(*   meeting, failing  runs of the organizer, or one whose copies fail and *)
(*                     whose host may end;                                 *)
(*   typing            runs of safe-input-key.                             *)
(***************************************************************************)
EXTENDS Naturals

CONSTANTS
    Missing, Absent, Bad, Empty, Torn, Nothing, NoAction,   \* marks, see the parts
    Server, Clients, MaxStarts,                             \* ControlPlane
    Candidates, User, Real, Slots, Contents, Ids, MaxChanges,              \* Registry
    Names, Manifests, HostOwned, RequestParts, AnswerParts, PipeSize,      \* RuntimeWorker
    Keys, Counter, MaxCount, MaxFaults,                     \* ExtStore
    Files,                                                  \* TorrentOrganizer
    Texts, Surfaces, Length, MaxLocks,                      \* SafeInput
    Tokens, Runs, Sole                                      \* Sole: the only run of some parts

VARIABLES
    part,
    auth, daemonPc, token, used, starts, client, target, sent, reply,
    disk, exists, disabled, loadPc, roots, listing, dir, at, entries, result, past, changes,
    via, actions, asked, input, version, engine, unwritten, stdin, stdinOpen, worker,
    read, unanswered, stdout, received, prepared, ran,
    file, storePc, key, value, base, count, answer, faults, alone, begun,
    saved, oneVolume, desktop, torrents, made, alive, movePc, folder, todo,
    current, found, moved, failed, moveVia,
    setting, keychain, available, locks, typePc, typeVia, text, told, typed, held

tokenVars == <<auth, daemonPc, token, used, starts, client, target, sent, reply>>
loadVars == <<disk, exists, disabled, loadPc, roots, listing, dir, at, entries, result,
              past, changes>>
workerVars == <<via, actions, asked, input, version, engine, unwritten, stdin, stdinOpen,
                worker, read, unanswered, stdout, received, prepared, ran>>
triggerVars == <<tokenVars, loadVars, workerVars>>

storeVars == <<file, storePc, key, value, base, count, answer, faults, alone, begun>>
moveVars == <<saved, oneVolume, desktop, torrents, made, alive, movePc, folder, todo,
              current, found, moved, failed, moveVia>>
typeVars == <<setting, keychain, available, locks, typePc, typeVia, text, told, typed, held>>
extensionVars == <<storeVars, moveVars, typeVars>>
vars == <<part, triggerVars, extensionVars>>

Token == INSTANCE ControlPlane WITH Daemons <- {Server}, pc <- daemonPc, file <- auth

Load == INSTANCE Registry WITH pc <- loadPc

Worker == INSTANCE RuntimeWorker

Crossed == INSTANCE ExtStore WITH
    Values <- 1 .. MaxCount, Processes <- {{r} : r \in Runs}, pc <- storePc
Serial == INSTANCE ExtStore WITH
    Values <- 1 .. MaxCount, Runs <- {Sole}, Processes <- {{Sole}}, pc <- storePc

Meeting == INSTANCE TorrentOrganizer WITH Faults <- FALSE, pc <- movePc, via <- moveVia
Failing == INSTANCE TorrentOrganizer WITH
    Runs <- {Sole}, Faults <- TRUE, pc <- movePc, via <- moveVia

Typing == INSTANCE SafeInput WITH pc <- typePc, via <- typeVia

ASSUME ExtensionsAssumption ==
    /\ Token!ControlPlaneAssumption /\ Load!RegistryAssumption
    /\ Worker!RuntimeWorkerAssumption
    /\ Crossed!ExtStoreAssumption /\ Serial!ExtStoreAssumption
    /\ Meeting!TorrentOrganizerAssumption /\ Failing!TorrentOrganizerAssumption
    /\ Typing!SafeInputAssumption
-----------------------------------------------------------------------------
\* A part that does not move is in one of its initial states.
TriggerInit ==
    /\ Token!Init
    /\ part # "token" => auth = Absent
    /\ IF part = "load" THEN Load!Init
       ELSE /\ disk = [s \in Slots |-> Nothing] /\ exists = {} /\ disabled = {}
            /\ Load!Init
    /\ Worker!Init
    /\ part # "worker"
        => via = "cli" /\ asked = NoAction /\ input = NoAction /\ version = "same"
            /\ actions = CHOOSE m \in Manifests : TRUE
ExtensionInit ==
    /\ IF part = "serial" THEN Serial!Init ELSE Crossed!Init
    /\ IF part = "failing" THEN Failing!Init ELSE Meeting!Init
    /\ part \notin {"meeting", "failing"}
        => saved = Meeting!Desktop /\ oneVolume /\ made /\ desktop = {}
    /\ Typing!Init
    /\ part # "typing"
        => setting = Typing!NoText /\ keychain = Typing!NoText /\ available
Init ==
    /\ part \in {"token", "load", "worker", "crossed", "serial", "meeting", "failing",
                 "typing"}
    /\ TriggerInit /\ ExtensionInit

TriggerNext ==
    \/ part = "token" /\ Token!Next /\ UNCHANGED <<part, loadVars, workerVars, extensionVars>>
    \/ part = "load" /\ Load!Next /\ UNCHANGED <<part, tokenVars, workerVars, extensionVars>>
    \/ part = "worker" /\ Worker!Next /\ UNCHANGED <<part, tokenVars, loadVars, extensionVars>>
StoreNext ==
    /\ \/ part = "crossed" /\ Crossed!Next
       \/ part = "serial" /\ Serial!Next
    /\ UNCHANGED <<part, triggerVars, moveVars, typeVars>>
MoveNext ==
    /\ \/ part = "meeting" /\ Meeting!Next
       \/ part = "failing" /\ Failing!Next
    /\ UNCHANGED <<part, triggerVars, storeVars, typeVars>>
TypeNext ==
    /\ part = "typing" /\ Typing!Next
    /\ UNCHANGED <<part, triggerVars, storeVars, moveVars>>

Next == TriggerNext \/ StoreNext \/ MoveNext \/ TypeNext

Spec == Init /\ [][Next]_vars

\* Engine and worker get the processor, and a host action and main.ts end.
FairSpec ==
    /\ Spec
    /\ WF_workerVars(part = "worker" /\ Worker!WorkerStep)
    /\ WF_workerVars(part = "worker" /\ Worker!EngineStep)
-----------------------------------------------------------------------------
\* A daemon that serves has a token, an entry of the registry is an extension,
\* no part of a message is lost in a pipe, and the sets a run of the organizer
\* counts with fit together.
TypeOK ==
    CASE part = "token" -> Token!TypeOK
      [] part = "load" -> Load!TypeOK
      [] part = "worker" -> Worker!TypeOK
      [] part = "crossed" -> Crossed!TypeOK
      [] part = "serial" -> Serial!TypeOK
      [] part = "meeting" -> Meeting!TypeOK
      [] part = "failing" -> Failing!TypeOK
      [] part = "typing" -> Typing!TypeOK

\* While a daemon serves, auth.json has the token it asks for, however many
\* starts ended in the middle of a write before; and a request with the token
\* that auth.json had is not refused as unauthorized, though the daemon may have
\* started again since the client read it.
TokenServes == part = "token" => Token!TokenIsOnDisk /\ Token!TokenIsAccepted

\* Whatever is installed, removed or set while it runs, a discovery that succeeds
\* leaves out no extension that was there all the time and is enabled, unless a
\* folder held one of its id for another platform; it has passed over no broken
\* folder that stayed; what it returns was not disabled when the load ended, and
\* is the user's where the user's was there all the time.
DiscoveryIsRight ==
    part = "load" =>
        /\ Load!NothingIsMissed
        /\ Load!DisabledIsSuppressed
        /\ Load!UserOverrides
        /\ Load!BrokenIsReported

\* Nothing runs but the action that was asked for, or the first of the manifest,
\* whatever the worker answers and wherever it dies; and main.ts gets the action
\* the host ran, unless the caller's input says another.
RunsTheAskedAction ==
    part = "worker" => Worker!RunsTheAskedAction /\ Worker!CallerDecides

\* A trigger comes to an end, wherever the worker dies or stalls in a pipe.
TriggerEnds == part = "worker" => Worker!TriggerEnds

\* store.json.  With one run at a time it is a map that an interrupted set can
\* empty; a set that no other run crossed changes its key and no other; and
\* however runs cross, fail and end, the counter never tells more than there were.
Map == INSTANCE KeyValueStore WITH
    Values <- 1 .. MaxCount,
    map <- IF part = "serial" THEN Serial!Stored ELSE Serial!EmptyObject
StoreIsAMap ==
    /\ Map!Spec
    /\ [][ IF part = "serial" THEN Serial!KeepsOthers ELSE Crossed!KeepsOthers ]_vars
    /\ [] Crossed!NoRunIsCountedTwice

\* A torrent that a run of the organizer found is never lost, where two runs
\* meet, and where copies of one fail or its host ends; and what a run reports
\* as moved has left the desktop, and no other run counts it.
TorrentsAreAccounted ==
    /\ part = "failing" => Failing!NoTorrentIsLost /\ Failing!CountsAreTrue
    /\ part = "meeting" => Meeting!NoTorrentIsLost /\ Meeting!CountsAreTrue

\* safe-input-key types only what the keychain held since its run began, never
\* in pieces of two runs of the daemon; and a text in the keychain stays until
\* it is cleared or replaced.
SecretIsKept ==
    /\ [] (Typing!OnlyStoredIsTyped /\ Typing!DaemonRunsDoNotMix)
    /\ Typing!StaysUntilCleared
=============================================================================
