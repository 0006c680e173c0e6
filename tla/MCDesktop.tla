----------------------------- MODULE MCDesktop -----------------------------
(***************************************************************************)
(* The parts of Desktop for TLC:                                           *)
(*   clicks    a host action and a click, with a failing call;             *)
(*   refresh   a host action and the refresh, with a change of settings;   *)
(*   scales    displays with one scale only to some that go on beyond the  *)
(*             script's table; every level, both ends, values halfway;     *)
(*   icons     the main icon and two of extensions, and everything that    *)
(*             can fail at their start and after it;                       *)
(*   thread    two hotkeys, the one that is replaced and the one that      *)
(*             replaces it; another program; three presses;                *)
(*   field     a key of every kind the code tells apart.                   *)
(***************************************************************************)
EXTENDS Desktop

CONSTANTS m1, m2, s1, s2

\* 100 is among the scales that are always offered.
MCStandardScales == <<s1>>

\* A width without a height, which defaults make m2.
MCCompleted == [width |-> m2]

\* The settings of a fresh installation; of page and tray, with the default mode
\* on top; and those of a file whose resolution lacks keys.
None == [hide |-> FALSE, mode |-> Unset, size |-> Unset, scale |-> Unset]
MCClickConfigs == {None}
MCRefreshConfigs ==
    {None, [hide |-> TRUE, mode |-> m1, size |-> m2, scale |-> s2],
     [None EXCEPT !.size = "width"]}

MCPercents == {100, 112, 113, 137, 138, 150, 275, 299, 325, 350}
MCDisplays == {<<1, 1>>, <<1, 4>>, <<3, 5>>, <<3, 9>>, <<5, 8>>, <<7, 10>>,
               <<9, 12>>, <<10, 12>>}
=============================================================================
