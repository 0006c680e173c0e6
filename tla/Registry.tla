------------------------------ MODULE Registry ------------------------------
(***************************************************************************)
(* Discovery of extensions (extension.rs, schema.rs, core_config.rs): the  *)
(* directories beside the program and the user's are read one after the    *)
(* other, folder by folder, each folder by three looks at it, and the      *)
(* result is filtered by the core config and the platform.  Folders are    *)
(* put, completed and removed meanwhile, between any two looks, by whoever *)
(* installs an extension.                                                  *)
(*                                                                         *)
(* DaemonLoop has what the daemon makes of such a load; this module has    *)
(* the load itself.                                                        *)
(***************************************************************************)
EXTENDS Naturals, Sequences

CONSTANTS
    Candidates,   \* directories beside the program, in the order of the code
    User,         \* the user's directory, a path
    Real,         \* the directory a path leads to
    Slots,        \* where an extension can be: pairs of directory and folder
    Contents,     \* what a folder can hold: records, see Content
    Nothing,      \* a name that is not there
    Ids,          \* extension ids
    MaxChanges    \* bound on the changes during the load

ManifestKinds == {"absent", "not-json", "violation", "unsupported", "bad-version", "valid"}
Content == [id : Ids, main : BOOLEAN, manifest : ManifestKinds, platform : {"this", "any", "other"}]

\* The paths in the order of the code; a root is the place of a path in it.
Paths == Append(Candidates, User)
Root(i) == Real[Paths[i]]
Dirs == {Root(i) : i \in DOMAIN Paths}
Folders == {s[2] : s \in Slots}

RegistryAssumption ==
    /\ Candidates \in Seq(DOMAIN Real) /\ User \in DOMAIN Real
    /\ Slots \subseteq Dirs \X Folders
    /\ Contents \subseteq Content /\ Nothing \notin Content \cup (Dirs \X Content) \cup Folders
    /\ MaxChanges \in Nat

VARIABLES
    disk,       \* for each directory and folder: its content, or Nothing
    exists,     \* the directories that exist
    disabled,   \* disabledExtensions of the core config
    pc,         \* where the load is, see Places
    roots,      \* roots still to read
    listing,    \* folders of the open directory that were not visited yet
    dir,        \* the open directory
    at,         \* the folder that is visited, or Nothing
    entries,    \* for each id: directory and content, or Nothing
    result,     \* "none", "ok" or the error of the load
    past,       \* history: what each folder has held since the load began
    changes

vars == <<disk, exists, disabled, pc, roots, listing, dir, at, entries, result, past, changes>>
world == <<disk, exists, disabled, past, changes>>

\* In a folder, "main" and "manifest" are before the second and the third look.
Inside == {"folders", "main", "manifest"}
Places == {"idle", "roots", "config", "over"} \cup Inside
Outcomes == {"none", "ok", "missing-file", "validation", "io"}
NoEntries == [i \in Ids |-> Nothing]
-----------------------------------------------------------------------------
(* The order of the directories.                                           *)

\* core_extension_roots_from_exe_dir: the candidates that exist; then the user's.
IsRoot(i, present) == i = Len(Paths) \/ Root(i) \in present

\* runtime_extension_roots: of two paths to one directory the first counts.
RuntimeRoots(present) ==
    {i \in DOMAIN Paths : /\ IsRoot(i, present)
                          /\ \A j \in 1 .. i - 1 : Root(j) = Root(i) => ~IsRoot(j, present)}
-----------------------------------------------------------------------------
\* What the disk holds is all that a folder has held when a load begins.
Now == [s \in Slots |-> {disk[s]}]

Init ==
    /\ disk \in [Slots -> Contents \cup {Nothing}]
    /\ exists \in SUBSET Dirs
    /\ \A s \in Slots : s[1] \notin exists => disk[s] = Nothing
    /\ disabled \in SUBSET Ids
    /\ pc = "idle" /\ roots = {} /\ listing = {} /\ dir = Real[User]
    /\ at = Nothing /\ entries = NoEntries /\ result = "none"
    /\ past = Now /\ changes = 0

EndLoad(outcome) ==
    /\ pc' = "over" /\ result' = outcome
    /\ entries' = NoEntries /\ at' = Nothing
    /\ UNCHANGED <<world, roots, listing, dir>>

Start ==
    /\ pc = "idle"
    /\ pc' = "roots" /\ roots' = RuntimeRoots(exists)
    /\ past' = Now
    /\ UNCHANGED <<disk, exists, disabled, listing, dir, at, entries, result, changes>>

\* A root that does not exist is passed over.
OpenRoot ==
    /\ pc = "roots"
    /\ \E i \in roots :
        /\ \A j \in roots : i <= j
        /\ roots' = roots \ {i} /\ dir' = Root(i)
        /\ IF Root(i) \in exists
           THEN /\ pc' = "folders"
                /\ listing' = {s[2] : s \in {t \in Slots : t[1] = Root(i) /\ disk[t] # Nothing}}
           ELSE UNCHANGED <<pc, listing>>
    /\ UNCHANGED <<world, at, entries, result>>

IsExtension(c) == IF c = Nothing THEN FALSE ELSE c.manifest # "absent"
HasMain(c) == IF c = Nothing THEN FALSE ELSE c.main

\* The first look, at manifest.json: without one the folder is passed over.
\* Folders come in no order.
Visit(f) ==
    /\ pc = "folders" /\ f \in listing
    /\ listing' = listing \ {f}
    /\ IF IsExtension(disk[<<dir, f>>])
       THEN pc' = "main" /\ at' = f
       ELSE UNCHANGED <<pc, at>>
    /\ UNCHANGED <<world, roots, dir, entries, result>>

\* The second look, at main.ts: without it the load ends.
LookForMain ==
    /\ pc = "main"
    /\ IF HasMain(disk[<<dir, at>>])
       THEN /\ pc' = "manifest"
            /\ UNCHANGED <<world, roots, listing, dir, at, entries, result>>
       ELSE EndLoad("missing-file")

\* parse_and_validate.
ParseAndValidate(manifest) == manifest = "valid"

Insert(c) == [entries EXCEPT ![c.id] = <<dir, c>>]

\* The third look, had a manifest that is gone ended the directory.
ReadManifest_Stops ==
    /\ pc = "manifest"
    /\ LET c == disk[<<dir, at>>]
       IN  IF ~IsExtension(c)
           THEN /\ pc' = "roots" /\ at' = Nothing
                /\ UNCHANGED <<world, roots, listing, dir, entries, result>>
           ELSE IF ~ParseAndValidate(c.manifest) THEN EndLoad("validation")
           ELSE /\ pc' = "folders" /\ entries' = Insert(c) /\ at' = Nothing
                /\ UNCHANGED <<world, roots, listing, dir, result>>

\* The third look reads the manifest, which may be gone again, or another.
ReadManifest ==
    /\ pc = "manifest"
    /\ LET c == disk[<<dir, at>>]
       IN  IF ~IsExtension(c) THEN EndLoad("io")
           ELSE IF ~ParseAndValidate(c.manifest) THEN EndLoad("validation")
           ELSE /\ pc' = "folders" /\ entries' = Insert(c) /\ at' = Nothing
                /\ UNCHANGED <<world, roots, listing, dir, result>>

CloseRoot ==
    /\ pc = "folders" /\ listing = {}
    /\ pc' = "roots"
    /\ UNCHANGED <<world, roots, listing, dir, at, entries, result>>

CloseRoots ==
    /\ pc = "roots" /\ roots = {}
    /\ pc' = "config"
    /\ UNCHANGED <<world, roots, listing, dir, at, entries, result>>

SupportsPlatform(c) == c.platform \in {"this", "any"}

\* filter_for_runtime: both conditions.
FilterForRuntime(all) ==
    [i \in Ids |-> IF all[i] = Nothing THEN Nothing
                   ELSE IF i \notin disabled /\ SupportsPlatform(all[i][2]) THEN all[i]
                   ELSE Nothing]

\* The core config is read when all directories have been.
Finish ==
    /\ pc = "config"
    /\ pc' = "over" /\ result' = "ok"
    /\ entries' = FilterForRuntime(entries)
    /\ UNCHANGED <<world, roots, listing, dir, at>>

\* The listing of a directory, the read of a manifest and that of the core
\* config can fail at any time, each with `?`.
ReadFails == pc \in {"folders", "manifest", "config"} /\ EndLoad("io")
-----------------------------------------------------------------------------
(* Installations and settings.                                             *)

Busy == pc \in Places \ {"idle", "over"} /\ changes < MaxChanges /\ changes' = changes + 1

\* A folder appears, changes or goes; its directory is made with it.  One that
\* appears in the directory that is being listed may or may not be in the listing.
ChangeFolder(s, content) ==
    /\ Busy /\ content # disk[s]
    /\ disk' = [disk EXCEPT ![s] = content]
    /\ exists' = exists \cup {s[1]}
    /\ past' = [past EXCEPT ![s] = @ \cup {content}]
    /\ \/ UNCHANGED listing
       \/ /\ pc \in Inside /\ s[1] = dir /\ disk[s] = Nothing
          /\ listing' = listing \cup {s[2]}
    /\ UNCHANGED <<disabled, pc, roots, dir, at, entries, result>>

SetDisabled(ids) ==
    /\ Busy /\ ids # disabled
    /\ disabled' = ids
    /\ UNCHANGED <<disk, exists, pc, roots, listing, dir, at, entries, result, past>>
-----------------------------------------------------------------------------
Next ==
    \/ Start \/ OpenRoot \/ CloseRoot \/ CloseRoots \/ Finish
    \/ \E f \in Folders : Visit(f)
    \/ LookForMain \/ ReadManifest \/ ReadFails
    \/ \E s \in Slots, c \in Contents \cup {Nothing} : ChangeFolder(s, c)
    \/ \E ids \in SUBSET Ids : SetDisabled(ids)

Spec == Init /\ [][Next]_vars
-----------------------------------------------------------------------------
\* Types, and an entry is what some folder of its directory has held since the
\* load began, a valid manifest of its id.
TypeOK ==
    /\ pc \in Places /\ result \in Outcomes
    /\ roots \subseteq DOMAIN Paths /\ dir \in Dirs
    /\ \A f \in listing : <<dir, f>> \in Slots
    /\ IF pc \in {"main", "manifest"} THEN <<dir, at>> \in Slots ELSE at = Nothing
    /\ \A i \in Ids : entries[i] # Nothing =>
           LET c == entries[i][2]
           IN  /\ c.id = i /\ c.manifest = "valid"
               /\ \E s \in Slots : s[1] = entries[i][1] /\ c \in past[s]

Steady(s) == past[s] = {disk[s]}

Loadable(c) == IF c = Nothing THEN FALSE ELSE c.main /\ c.manifest = "valid"

\* The id of an extension for another platform.
Foreign(c, id) ==
    IF c = Nothing THEN FALSE
    ELSE c.manifest = "valid" /\ c.id = id /\ ~SupportsPlatform(c)

\* A load that succeeds leaves no extension out, whatever else changes while it
\* runs: one that was on the disk all the time and was enabled at the end is in
\* the registry, unless a folder has held, at some moment of the load, an
\* extension of its id that is not for this platform.
NothingIsMissed ==
    (pc = "over" /\ result = "ok") =>
        \A s \in Slots :
            Steady(s) /\ Loadable(disk[s]) /\ entries[disk[s].id] = Nothing =>
                \/ disk[s].id \in disabled
                \/ \E t \in Slots : \E c \in past[t] : Foreign(c, disk[s].id)

\* What runs was not disabled when the load ended, whenever in the load it was,
\* and is for this platform.
DisabledIsSuppressed ==
    (pc = "over" /\ result = "ok") =>
        \A i \in Ids : entries[i] # Nothing => i \notin disabled /\ SupportsPlatform(entries[i][2])

\* A broken folder is not passed over in silence: a load that succeeds has seen
\* none among those that did not change.
BrokenIsReported ==
    (pc = "over" /\ result = "ok") =>
        \A s \in Slots :
            Steady(s) => disk[s] = Nothing \/ disk[s].manifest = "absent" \/ Loadable(disk[s])

\* That the user's extensions win takes this: no directory beside the program
\* comes after one that is the user's own.
UserIsLast ==
    \A i, j \in DOMAIN Paths : i < j /\ Root(i) = Real[User] => Root(j) = Real[User]

\* docs/ARCHITECTURE.md: "user extensions override same-id core extensions".
UserOverrides ==
    (pc = "over" /\ result = "ok") =>
        \A s \in Slots :
            LET c == disk[s]
            IN  /\ s[1] = Real[User] /\ Steady(s)
                /\ Loadable(c) /\ c.id \notin disabled /\ entries[c.id] # Nothing
                => entries[c.id][1] = Real[User]
=============================================================================
