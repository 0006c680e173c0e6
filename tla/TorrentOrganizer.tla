-------------------------- MODULE TorrentOrganizer --------------------------
(***************************************************************************)
(* The extension desktop-torrent-organizer (main.ts) on the host's file    *)
(* calls (api/fs.rs): a run lists the desktop folder and moves each        *)
(* torrent it finds to the torrents folder.                                *)
(*                                                                         *)
(* Runs are started by the settings page, the command line and the control *)
(* plane, each with other inputs, and two of them may be under way at the  *)
(* same time.  A move renames the file, or, where that fails, as it does   *)
(* between two volumes and may on one, copies it and removes the original, *)
(* which may fail too.  The process that serves the calls may end between  *)
(* any two steps.                                                          *)
(***************************************************************************)
CONSTANTS
    Files,       \* names of torrents
    Runs,
    Faults       \* the host may end in the middle of a run, and a copy may fail

None == "none"    \* no torrent

TorrentOrganizerAssumption == Faults \in BOOLEAN /\ None \notin Files

VARIABLES
    saved,      \* the folders of config.json, or Default
    oneVolume,  \* the two folders are on one volume
    desktop,    \* the torrents in the desktop folder
    torrents,   \* for each name: what the torrents folder has
    made,       \* the torrents folder exists
    alive,      \* the host runs
    pc,         \* where each run is
    folder,     \* the desktop folder a run works on
    todo,       \* torrents a run has listed and not tried yet
    current,    \* the torrent it is moving
    found, moved, failed,   \* what a run counts, as sets of torrents
    via         \* who started a run

folders == <<desktop, torrents, made>>
counts == <<found, moved, failed>>
vars == <<saved, oneVolume, folders, alive, pc, folder, todo, current, counts, via>>

\* The folder the desktop really is, and the default of the extension, which no
\* call of the host expands.
Desktop == "desktop"
Default == "~/Desktop"
-----------------------------------------------------------------------------
Init ==
    /\ saved \in {Desktop, Default}
    /\ oneVolume \in BOOLEAN
    /\ desktop \in SUBSET Files
    /\ torrents = [f \in Files |-> "absent"]
    /\ made \in BOOLEAN /\ alive = TRUE
    /\ pc = [r \in Runs |-> "idle"] /\ folder = [r \in Runs |-> Default]
    /\ todo = [r \in Runs |-> {}] /\ current = [r \in Runs |-> None]
    /\ found = [r \in Runs |-> {}] /\ moved = [r \in Runs |-> {}]
    /\ failed = [r \in Runs |-> {}] /\ via = [r \in Runs |-> None]

Goto(r, l) == pc' = [pc EXCEPT ![r] = l]
-----------------------------------------------------------------------------
(* The start of a run.                                                     *)

\* Extensions the daemon polls for on its own: none has the capability.
BackgroundCapabilities == {}
Starters == {"page", "cli", "daemon"} \cup BackgroundCapabilities

\* The page sends the saved settings, the command line what the user typed, the
\* control plane nothing.
Inputs(starter) ==
    CASE starter = "page" -> {saved}
      [] starter = "cli" -> {Desktop, Default}
      [] starter = "daemon" -> {Default}

\* normalizeConfig, then ensureFolder: without pwsh the run ends in an error.
\* What New-Item answers is not looked at.
Start(r, starter) ==
    /\ alive /\ pc[r] = "idle"
    /\ via' = [via EXCEPT ![r] = starter]
    /\ \E f \in Inputs(starter) : folder' = [folder EXCEPT ![r] = f]
    /\ \/ Goto(r, "list") /\ made' = TRUE
       \/ Goto(r, "list") /\ UNCHANGED made
       \/ Goto(r, "failed") /\ UNCHANGED made
    /\ UNCHANGED <<saved, oneVolume, desktop, torrents, alive, todo, current, counts>>

\* list: a folder that cannot be read has no entries.
List(r) ==
    LET files == IF folder[r] = Desktop THEN desktop ELSE {}
    IN  /\ alive /\ pc[r] = "list"
        /\ todo' = [todo EXCEPT ![r] = files] /\ found' = [found EXCEPT ![r] = files]
        /\ Goto(r, "move")
        /\ UNCHANGED <<saved, oneVolume, folders, alive, folder, current>>
        /\ UNCHANGED <<moved, failed, via>>
-----------------------------------------------------------------------------
(* move_file.                                                              *)

Fails(r, f) ==
    /\ failed' = [failed EXCEPT ![r] = @ \cup {f}]
    /\ UNCHANGED <<found, moved>>
Succeeds(r, f) ==
    /\ moved' = [moved EXCEPT ![r] = @ \cup {f}]
    /\ UNCHANGED <<found, failed>>

\* The original is there to be opened, and its copy can be created.
CanMove(f) == f \in desktop /\ made

Rename(r, f) ==
    /\ alive /\ pc[r] = "move" /\ f \in todo[r]
    /\ oneVolume /\ CanMove(f)
    /\ desktop' = desktop \ {f} /\ torrents' = [torrents EXCEPT ![f] = "whole"]
    /\ todo' = [todo EXCEPT ![r] = @ \ {f}]
    /\ Succeeds(r, f)
    /\ UNCHANGED <<saved, oneVolume, made, alive, pc, folder, current, via>>

\* A move that fails, had the copy been created before the original is opened.
NoMove_CreatesFirst(r, f) ==
    /\ alive /\ pc[r] = "move" /\ f \in todo[r]
    /\ torrents' = IF made THEN [torrents EXCEPT ![f] = "partial"] ELSE torrents
    /\ todo' = [todo EXCEPT ![r] = @ \ {f}]
    /\ Fails(r, f)
    /\ UNCHANGED <<saved, oneVolume, desktop, made, alive, pc, folder, current, via>>

\* Neither the renaming nor the opening of the two files succeeds, for another
\* reason where both are there.
NoMove(r, f) ==
    /\ alive /\ pc[r] = "move" /\ f \in todo[r]
    /\ todo' = [todo EXCEPT ![r] = @ \ {f}]
    /\ Fails(r, f)
    /\ UNCHANGED <<saved, oneVolume, folders, alive, pc, folder, current, via>>

\* Whatever the reason for which the renaming failed.
BeginCopy(r, f) ==
    /\ alive /\ pc[r] = "move" /\ f \in todo[r]
    /\ CanMove(f)
    /\ todo' = [todo EXCEPT ![r] = @ \ {f}] /\ current' = [current EXCEPT ![r] = f]
    /\ torrents' = [torrents EXCEPT ![f] = "partial"]
    /\ Goto(r, "copy")
    /\ UNCHANGED <<saved, oneVolume, desktop, made, alive, folder, counts, via>>

\* The copy is whole, or ends in an error, as on a full disk.
EndCopy(r) ==
    /\ alive /\ pc[r] = "copy"
    /\ \/ /\ Goto(r, "remove") /\ torrents' = [torrents EXCEPT ![current[r]] = "whole"]
          /\ UNCHANGED <<current, counts>>
       \/ /\ Faults /\ Goto(r, "move") /\ Fails(r, current[r])
          /\ current' = [current EXCEPT ![r] = None]
          /\ UNCHANGED torrents
    /\ UNCHANGED <<saved, oneVolume, desktop, made, alive, folder, todo, via>>

\* The original is removed, or stays, as a file that is open elsewhere does; or
\* another run has removed it before.
Remove(r) ==
    /\ alive /\ pc[r] = "remove"
    /\ \/ /\ current[r] \in desktop
          /\ desktop' = desktop \ {current[r]} /\ Succeeds(r, current[r])
       \/ UNCHANGED desktop /\ Fails(r, current[r])
    /\ current' = [current EXCEPT ![r] = None]
    /\ Goto(r, "move")
    /\ UNCHANGED <<saved, oneVolume, torrents, made, alive, folder, todo, via>>

\* The last torrent is done: the counts are stored and shown.
Report(r) ==
    /\ alive /\ pc[r] = "move" /\ todo[r] = {}
    /\ Goto(r, "done")
    /\ UNCHANGED <<saved, oneVolume, folders, alive, folder, todo, current, counts, via>>

\* The process that serves the calls ends, and no call is answered.
Stop ==
    /\ Faults /\ alive
    /\ alive' = FALSE
    /\ UNCHANGED <<saved, oneVolume, folders, pc, folder, todo, current, counts, via>>
-----------------------------------------------------------------------------
Step(r) ==
    \/ List(r) \/ EndCopy(r) \/ Remove(r) \/ Report(r)
    \/ \E f \in Files : Rename(r, f) \/ NoMove(r, f) \/ BeginCopy(r, f)

Next == (\E r \in Runs : (\E s \in Starters : Start(r, s)) \/ Step(r)) \/ Stop

Spec == Init /\ [][Next]_vars

\* A run that has started goes on.  Whether one is started is up to the user,
\* and to the daemon where it has the capability.
FairSpec ==
    /\ Spec
    /\ \A r \in Runs : WF_vars(Step(r))
    /\ \A r \in Runs : WF_vars(\E s \in BackgroundCapabilities : Start(r, s))
-----------------------------------------------------------------------------
\* Types, and a run works on one of the torrents it has found at a time.
TypeOK ==
    /\ desktop \subseteq Files /\ oneVolume \in BOOLEAN /\ made \in BOOLEAN /\ alive \in BOOLEAN
    /\ torrents \in [Files -> {"absent", "partial", "whole"}]
    /\ \A r \in Runs :
        /\ pc[r] \in {"idle", "list", "move", "copy", "remove", "done", "failed"}
        /\ found[r] = todo[r] \cup moved[r] \cup failed[r] \cup ({current[r]} \ {None})
        /\ pc[r] \in {"copy", "remove"} <=> current[r] # None

\* A torrent that was found is never lost, wherever two runs meet, and wherever
\* the host ends or a copy fails in one run: it is whole in one of the two
\* folders, or, where two runs copy it, still open as the source of the second.
NoTorrentIsLost ==
    \A r \in Runs : \A f \in found[r] :
        \/ f \in desktop \/ torrents[f] = "whole"
        \/ alive /\ \E s \in Runs : pc[s] = "copy" /\ current[s] = f

\* What is reported as moved is no longer on the desktop, and no torrent is
\* counted by two runs.
CountsAreTrue ==
    \A r \in Runs :
        /\ moved[r] \cap desktop = {} /\ moved[r] \cap failed[r] = {}
        /\ \A s \in Runs \ {r} : moved[r] \cap moved[s] = {}

\* manifest.json: "Run the organizer immediately using the saved monitor
\* settings", of the action move-torrents, however it is triggered without
\* inputs of the user's own.
UsesSavedSettings ==
    \A r \in Runs : via[r] \in {"page", "daemon"} => folder[r] = saved

\* manifest.json: the default folder is the "Folder Copper scans for incoming
\* .torrent files", so a run that is over has found what lay there from the
\* beginning.
DefaultIsScanned ==
    \A r \in Runs : pc[r] = "done" => desktop \subseteq found[r]

\* manifest.json: "Continuously monitor the desktop and move new torrent files
\* automatically", with autoRun on, which is the default.
AutoRunMoves == \A f \in Files : (f \in desktop) ~> (f \notin desktop)
=============================================================================
