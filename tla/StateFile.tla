------------------------------ MODULE StateFile ------------------------------
(***************************************************************************)
(* One state file of daemon/src/state_store.rs (an extension's config.json *)
(* or status.json, or the core config) and the threads that save it: the   *)
(* connection handler of the settings UI, the Windows tray thread, the     *)
(* host actions of windows-display-manager, in one or more copperd         *)
(* processes.                                                              *)
(*                                                                         *)
(* Nothing locks the file.  A save reads it, works out the new object in   *)
(* memory, writes the object to a temporary file of its own next to it,    *)
(* syncs that, and renames it over the file.  Every step can fail, and     *)
(* other threads, the end of the process and a loss of power can come      *)
(* between any two of them.                                                *)
(*                                                                         *)
(* The file system is external: a rename is atomic and reaches the disk    *)
(* some time later; the data of a file that was not synced may be lost     *)
(* even though its name survived.                                          *)
(***************************************************************************)
EXTENDS JsonObject

CONSTANTS
    Process,           \* copperd processes that share the data directory
    Thread,            \* threads that save the file
    ProcessOf,         \* the process each thread belongs to
    Patches,           \* bodies of the saves
    Edits,             \* what a person leaves in the file with a text editor
    InitialFiles,      \* contents of the file when the first process starts
    InitialLegacy,     \* contents of data.json, the file of older versions
    None               \* no draft

ASSUME StateFileAssumption ==
    /\ ProcessOf \in [Thread -> Process]
    /\ Patches \subseteq Patch
    /\ Edits \subseteq Content
    /\ InitialFiles \subseteq Content
    /\ InitialLegacy \subseteq Content
    /\ None \notin Object

VARIABLES
    file,        \* content behind the path, as running processes see it
    fileSynced,  \* the data of that file is on the disk
    durable,     \* content behind the path after a loss of power
    legacy,      \* content of data.json: the program only reads it
    temp,        \* content of the temporary file of each thread
    tempSynced,  \* the data of the temporary file is on the disk
    pc,          \* what the thread does next
    patch,       \* body of the thread's latest save
    draft,       \* the object it is saving
    answer,      \* result of the thread's latest save
    alone        \* history: nobody else changed the file since that save began

fileVars == <<file, fileSynced, durable, legacy>>
tempVars == <<temp, tempSynced>>
vars == <<file, fileSynced, durable, legacy, temp, tempSynced,
          pc, patch, draft, answer, alone>>

-----------------------------------------------------------------------------

Init ==
    /\ file \in InitialFiles
    /\ fileSynced = TRUE
    /\ durable = file
    /\ legacy \in InitialLegacy
    /\ temp = [t \in Thread |-> Absent]
    /\ tempSynced = [t \in Thread |-> FALSE]
    /\ pc = [t \in Thread |-> "idle"]
    /\ patch \in [Thread -> {[insert |-> EmptyObject, remove |-> {}]}]
    /\ draft = [t \in Thread |-> EmptyObject]
    /\ answer = [t \in Thread |-> "none"]
    /\ alone = [t \in Thread |-> FALSE]

Goto(t, label) == pc' = [pc EXCEPT ![t] = label]

\* The step from a read to the object that will be written.
Draft(t, base, p) ==
    /\ pc[t] = "idle"
    /\ patch' = [patch EXCEPT ![t] = p]
    /\ draft' = [draft EXCEPT ![t] = MergeObject(base, p)]
    /\ answer' = [answer EXCEPT ![t] = "none"]
    /\ alone' = [alone EXCEPT ![t] = TRUE]
    /\ Goto(t, "create")
    /\ UNCHANGED <<fileVars, tempVars>>

\* merge_json_object, had it used the object the thread saved last instead of
\* reading the file again.
Merge_Cached(t) == \E p \in Patches : Draft(t, draft[t], p)

\* merge_json_object, and the status updates of the host actions: they read
\* the path itself.
Merge(t) == \E p \in Patches : Draft(t, ReadObject(file), p)

\* execute_action of the tray reads the legacy file when the path is absent;
\* its overrides never remove a key.
TrayMerge(t) ==
    \E p \in Patches :
        /\ p.remove = {}
        /\ Draft(t, ReadOrLegacy(file, legacy), p)

\* The file exists and cannot be read: the save ends before it wrote anything.
ReadFails(t) ==
    /\ pc[t] = "idle"
    /\ file # Absent
    /\ answer' = [answer EXCEPT ![t] = "error"]
    /\ alone' = [alone EXCEPT ![t] = FALSE]
    /\ UNCHANGED <<fileVars, tempVars, pc, patch, draft>>

\* write_file_atomically: File::create(&temp_path).
Create(t) ==
    /\ pc[t] = "create"
    /\ temp' = [temp EXCEPT ![t] = Bad]
    /\ tempSynced' = [tempSynced EXCEPT ![t] = FALSE]
    /\ Goto(t, "write")
    /\ UNCHANGED <<fileVars, patch, draft, answer, alone>>

\* write_file_atomically: file.write_all(contents).
Write(t) ==
    /\ pc[t] = "write"
    /\ temp' = [temp EXCEPT ![t] = draft[t]]
    /\ Goto(t, "sync")
    /\ UNCHANGED <<fileVars, tempSynced, patch, draft, answer, alone>>

\* write_file_atomically, had it not called file.sync_all().
Sync_Skipped(t) ==
    /\ pc[t] = "sync"
    /\ Goto(t, "replace")
    /\ UNCHANGED <<fileVars, tempVars, patch, draft, answer, alone>>

\* write_file_atomically: file.sync_all().
Sync(t) ==
    /\ pc[t] = "sync"
    /\ tempSynced' = [tempSynced EXCEPT ![t] = TRUE]
    /\ Goto(t, "replace")
    /\ UNCHANGED <<fileVars, temp, patch, draft, answer, alone>>

\* write_file_atomically: replace_file(&temp_path, path), then Ok.
Replace(t) ==
    /\ pc[t] = "replace"
    /\ file' = temp[t]
    /\ fileSynced' = tempSynced[t]
    /\ temp' = [temp EXCEPT ![t] = Absent]
    /\ tempSynced' = [tempSynced EXCEPT ![t] = FALSE]
    /\ answer' = [answer EXCEPT ![t] = "ok"]
    /\ alone' = [u \in Thread |-> u = t /\ alone[u]]
    /\ Goto(t, "idle")
    /\ UNCHANGED <<durable, legacy, patch, draft>>

\* Any of the calls of write_file_atomically returns an error; a write that
\* fails may have written part of the data, which leaves the file Bad.
Fail(t) ==
    /\ pc[t] \in {"create", "write", "sync", "replace"}
    /\ Goto(t, "cleanup")
    /\ UNCHANGED <<fileVars, tempVars, patch, draft, answer, alone>>

\* write_file_atomically, had it dropped the error.
Cleanup_DropsError(t) ==
    /\ pc[t] = "cleanup"
    /\ temp' = [temp EXCEPT ![t] = Absent]
    /\ answer' = [answer EXCEPT ![t] = "ok"]
    /\ Goto(t, "idle")
    /\ UNCHANGED <<fileVars, tempSynced, patch, draft, alone>>

\* write_file_atomically, had it tried again after an error.
Cleanup_Retries(t) ==
    /\ pc[t] = "cleanup"
    /\ temp' = [temp EXCEPT ![t] = Absent]
    /\ Goto(t, "create")
    /\ UNCHANGED <<fileVars, tempSynced, patch, draft, answer, alone>>

\* write_file_atomically after an error: remove the temporary file if there is
\* one, ignore an error of the removal, and return the first error.
Cleanup(t) ==
    /\ pc[t] = "cleanup"
    /\ \/ temp' = [temp EXCEPT ![t] = Absent]
       \/ UNCHANGED temp
    /\ answer' = [answer EXCEPT ![t] = "error"]
    /\ Goto(t, "idle")
    /\ UNCHANGED <<fileVars, tempSynced, patch, draft, alone>>

-----------------------------------------------------------------------------
(***************************************************************************)
(* External: the operating system, the file system and the user.           *)
(***************************************************************************)

\* The threads end where they are.  A new process names its temporary files
\* after its own id and the time, so that it never meets those left behind.
Stop(threads) ==
    /\ pc' = [t \in Thread |-> IF t \in threads THEN "idle" ELSE pc[t]]
    /\ temp' = [t \in Thread |-> IF t \in threads THEN Absent ELSE temp[t]]
    /\ tempSynced' = [t \in Thread |-> t \notin threads /\ tempSynced[t]]
    /\ UNCHANGED <<legacy, patch, draft>>

Kill(p) ==
    LET threads == {t \in Thread : ProcessOf[t] = p}
    IN  /\ Stop(threads)
        /\ UNCHANGED <<file, fileSynced, durable, answer, alone>>

Flush ==
    /\ durable' = IF fileSynced THEN file ELSE Bad
    /\ UNCHANGED <<file, fileSynced, legacy, tempVars, pc, patch, draft, answer, alone>>

PowerLoss ==
    /\ Stop(Thread)
    /\ file' = durable
    /\ fileSynced' = TRUE
    /\ answer' = [t \in Thread |-> "none"]
    /\ alone' = [t \in Thread |-> FALSE]
    /\ UNCHANGED durable

Edit ==
    /\ file' \in Edits
    /\ durable' = file'
    /\ fileSynced' = TRUE
    /\ alone' = [t \in Thread |-> FALSE]
    /\ UNCHANGED <<legacy, tempVars, pc, patch, draft, answer>>

-----------------------------------------------------------------------------

\* The next step of the save a thread is in, whatever its outcome.
SaveStep(t) ==
    Create(t) \/ Write(t) \/ Sync(t) \/ Replace(t) \/ Fail(t) \/ Cleanup(t)

Next ==
    \/ \E t \in Thread : Merge(t) \/ TrayMerge(t) \/ ReadFails(t) \/ SaveStep(t)
    \/ \E p \in Process : Kill(p)
    \/ Flush
    \/ PowerLoss
    \/ Edit

Spec == Init /\ [][Next]_vars

\* A save is straight code without a lock or a wait: its thread runs on.
FairSpec == Spec /\ \A t \in Thread : WF_vars(SaveStep(t))

-----------------------------------------------------------------------------
(***************************************************************************)
(* Properties                                                              *)
(***************************************************************************)

Labels == {"idle", "create", "write", "sync", "replace", "cleanup"}

\* The variables hold what the code's variables can hold; in particular a save
\* always has an object to write.
TypeOK ==
    /\ file \in Content
    /\ fileSynced \in BOOLEAN
    /\ durable \in Content
    /\ legacy \in Content
    /\ temp \in [Thread -> Content]
    /\ tempSynced \in [Thread -> BOOLEAN]
    /\ pc \in [Thread -> Labels]
    /\ patch \in [Thread -> Patch]
    /\ draft \in [Thread -> Object]
    /\ answer \in [Thread -> {"none", "ok", "error"}]
    /\ alone \in [Thread -> BOOLEAN]

\* Neither a reader nor a restart after a loss of power ever meets a state file
\* that the program left half written, whichever steps of the concurrent saves
\* failed or never happened (write_file_atomically).
NeverTorn ==
    Bad \notin Edits \cup InitialFiles => file # Bad /\ durable # Bad

\* A save that was answered with success is what the file holds, until another
\* save, an edit or a loss of power: errors are not swallowed on the way, and
\* the end of the process does not undo it.
AcknowledgedSaveStands ==
    \A t \in Thread : answer[t] = "ok" /\ alone[t] => file = draft[t]

\* A save that met no other change of the file leaves every key it does not
\* name as the program showed it before (merge_json_object, and the reads of
\* inspect_path_or_legacy that the settings UI and the runtime use).
UnnamedKeysSurvive ==
    [][\A t \in Thread :
          alone[t] /\ pc[t] = "replace" /\ answer'[t] = "ok" =>
             \A k \in Keys \ Named(patch[t]) :
                ReadOrLegacy(file', legacy)[k] = ReadOrLegacy(file, legacy)[k]]_vars

\* Every save returns: an error in the middle ends it as well.
SaveReturns == \A t \in Thread : pc[t] # "idle" ~> pc[t] = "idle"

\* The object a thread is about to install, as a reader of the code sees it:
\* there is one from the read to the rename or the first error.
Pending == [t \in Thread |->
    IF pc[t] \in {"create", "write", "sync", "replace"} THEN draft[t] ELSE None]

\* The file behaves like one atomic object: all the reader ever sees is whole
\* versions, installed in one step each.
Atomic == INSTANCE AtomicObject WITH
    Client <- Thread, object <- file, draft <- Pending

ImplementsAtomicObject == Atomic!Spec
=============================================================================
