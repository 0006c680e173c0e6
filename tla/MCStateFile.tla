----------------------------- MODULE MCStateFile -----------------------------
(***************************************************************************)
(* Instances of StateFile for TLC: the settings UI and the tray thread of  *)
(* one daemon, and the settings UI of a second process, save one file with *)
(* two keys.                                                               *)
(***************************************************************************)
EXTENDS StateFile

CONSTANTS k1, k2, v1, v2, daemon, cli, uiThread, trayThread, cliThread

MCProcessOf == [t \in Thread |-> IF t = cliThread THEN cli ELSE daemon]

Obj(a, b) == [k \in Keys |-> IF k = k1 THEN a ELSE b]

\* Set one key; set and remove the other, which removes it.
MCPatches == {
    [insert |-> Obj(Missing, v2), remove |-> {}],
    [insert |-> Obj(v1, Missing), remove |-> {k1}]}

MCFilesNew == {Absent}
MCLegacy == {Obj(v1, v2)}
MCNoLegacy == {Absent}

MCNoEdits == {}
MCEdits == {Obj(v1, v1)}
=============================================================================
