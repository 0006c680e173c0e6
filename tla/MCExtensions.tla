---------------------------- MODULE MCExtensions ----------------------------
(***************************************************************************)
(* The parts of Extensions for TLC: a daemon that starts three times, and  *)
(* two clients; a directory beside the program and the workspace's, which  *)
(* is also the user's when the daemon runs from a source tree              *)
(* (scripts/daemon.ps1), with one folder and two, which may declare one    *)
(* id;                                                                     *)
(* manifests with no action, one and two, an id that none of them has,     *)
(* messages longer than a pipe; and two runs where runs meet.              *)
(***************************************************************************)
EXTENDS Extensions

CONSTANTS n1, n2

MCCandidates == <<"beside", "workspace">>
MCReal ==
    [p \in {"beside", "workspace", "user"} |-> IF p = "workspace" THEN "user" ELSE p]
MCSlots == {<<"beside", "first">>, <<"user", "first">>, <<"user", "second">>}
MCIds == {"alpha", "beta"}
Ext(id, main, manifest, platform) ==
    [id |-> id, main |-> main, manifest |-> manifest, platform |-> platform]
MCContents ==
    {Ext("alpha", TRUE, "valid", "any"), Ext("alpha", TRUE, "valid", "other"),
     Ext("beta", TRUE, "valid", "this"), Ext("beta", FALSE, "valid", "any"),
     Ext("beta", TRUE, "violation", "any"), Ext("beta", TRUE, "absent", "any")}
MCManifests == {<<>>, <<n1>>, <<n1, n2>>}

\* No other directory beside the program comes after the workspace's.
ASSUME MCExtensionsAssumption == Load!UserIsLast
=============================================================================
