----------------------------- MODULE JsonObject -----------------------------
(***************************************************************************)
(* The contents of Copper's state files and the pure operators of          *)
(* daemon/src/state_store.rs on them.                                      *)
(*                                                                         *)
(* A state file is absent, holds a JSON object, or holds anything else: a  *)
(* truncated text, a text that does not parse, or JSON that is not an      *)
(* object (Bad).  An object is a function of all the keys of the model;    *)
(* Missing marks the keys it does not have.                                *)
(***************************************************************************)
CONSTANTS
    Keys,     \* keys of the object, e.g. "disabledExtensions"
    Values,   \* values the keys can have
    Missing,  \* the mark of a key that the object does not have
    Absent,   \* there is no file
    Bad       \* the file does not hold a JSON object

Object == [Keys -> Values \cup {Missing}]

Content == Object \cup {Absent, Bad}

ASSUME JsonObjectAssumption ==
    /\ Missing \notin Values
    /\ Absent # Bad
    /\ Absent \notin Object
    /\ Bad \notin Object

\* `{}`
EmptyObject == [k \in Keys |-> Missing]

\* read_json_object_detailed: what a reader gets from a file.  A missing
\* file, a text that does not parse and a value that is no object read as {}.
ReadObject(file) == IF file \in Object THEN file ELSE EmptyObject

\* inspect_path_or_legacy: the legacy file counts only while the primary file
\* does not exist; an invalid primary file hides it.
ReadOrLegacy(file, legacyFile) ==
    IF file # Absent THEN ReadObject(file) ELSE ReadObject(legacyFile)

\* The body of a save: keys to insert, and the keys named by "__remove".
Patch == [insert : Object, remove : SUBSET Keys]

\* The keys a save speaks about.
Named(patch) == {k \in Keys : patch.insert[k] # Missing} \cup patch.remove

\* The loop of merge_json_object, had it dropped an object with no key left.
MergeObject_DropsEmpty(object, patch) ==
    IF \A k \in Keys : k \in patch.remove \/ {patch.insert[k], object[k]} = {Missing}
    THEN Absent
    ELSE [k \in Keys |->
             IF k \in patch.remove THEN Missing
             ELSE IF patch.insert[k] # Missing THEN patch.insert[k] ELSE object[k]]

\* The loop of merge_json_object: insert the keys, then remove those named by
\* "__remove", so that a key in both ends up removed.
MergeObject(object, patch) ==
    [k \in Keys |->
        IF k \in patch.remove THEN Missing
        ELSE IF patch.insert[k] # Missing THEN patch.insert[k] ELSE object[k]]
=============================================================================
