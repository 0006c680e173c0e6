------------------------------ MODULE Desktop ------------------------------
(***************************************************************************)
(* What Copper is to a Windows desktop: the display and its taskbar        *)
(* (WindowsDisplay), the arithmetic of scales (DisplayScale), the icons    *)
(* (Trays), the hotkey thread (Hotkey) and the name of a hotkey            *)
(* (HotkeyKeys).  The five share no variable, so that one of them moves at *)
(* a time; the two parts of the display differ in their constants only and *)
(* use the same variables.                                                 *)
(*   clicks    host actions and clicks, with calls that fail;              *)
(*   refresh   host actions and the refresh, with changes of settings;     *)
(*   scales    displays whose scale is set;                                *)
(*   icons     the main icon and those of extensions;                      *)
(*   thread    hotkeys, other programs and presses;                        *)
(*   field     keys that are pressed in the field of the page.             *)
(***************************************************************************)
EXTENDS Naturals

CONSTANTS
    Modes, DefaultMode, Scales, DefaultScale,           \* WindowsDisplay
    StandardScales, Completed, Unset,
    ClickConfigs, RefreshConfigs,                       \* configs of each part
    MaxJobs, MaxClicks, MaxFaults, MaxClickEdits, MaxRefreshEdits,
    Percents, Displays,                                 \* DisplayScale
    MainTray, Specs, Null, Faults,                      \* Trays
    Hotkeys, Default, Unsupported, Cleared,             \* Hotkey
    MaxSaves, MaxPresses, MaxOthers, MaxToggles,
    Keys, MaxDowns                                      \* HotkeyKeys

VARIABLES
    part,
    device, config, status, view, task, left,
    recommended, highest, relative, logPixels,
    main, todo, traysRun, asked, thread, pointer, open, used,
    setting, combo, registered, owner, presses, pc, queue, enabled, running, pressed,
    typed, budget,
    value, down, downs

displayVars == <<device, config, status, view, task, left>>
scaleVars == <<recommended, highest, relative, logPixels>>
trayVars == <<main, todo, traysRun, asked, thread, pointer, open, used>>
keyVars == <<setting, combo, registered, owner, presses, pc, queue, enabled, running,
             pressed, typed, budget>>
fieldVars == <<value, down, downs>>
vars == <<part, displayVars, scaleVars, trayVars, keyVars, fieldVars>>

Clicks == INSTANCE WindowsDisplay WITH
    Configs <- ClickConfigs, MaxEdits <- MaxClickEdits
Refresh == INSTANCE WindowsDisplay WITH
    Configs <- RefreshConfigs, MaxClicks <- 0, MaxFaults <- 0, MaxEdits <- MaxRefreshEdits

Scale == INSTANCE DisplayScale

Icons == INSTANCE Trays WITH running <- traysRun

HotkeyThread == INSTANCE Hotkey

Field == INSTANCE HotkeyKeys

ASSUME DesktopAssumption ==
    /\ Clicks!DefaultsAssumption /\ Refresh!DefaultsAssumption
    /\ Scale!PercentsAssumption /\ Scale!DisplaysAssumption
    /\ Icons!TraysAssumption /\ HotkeyThread!HotkeyAssumption /\ Field!HotkeyKeysAssumption
-----------------------------------------------------------------------------
\* A part that does not move is in one of its initial states.
Init ==
    /\ part \in {"clicks", "refresh", "scales", "icons", "thread", "field"}
    /\ IF part = "clicks" THEN Clicks!Init ELSE Refresh!Init
    /\ part \notin {"clicks", "refresh"} => ~device.hide /\ config = CHOOSE c \in RefreshConfigs : TRUE
    /\ Scale!Init
    /\ part # "scales" => highest = 1
    /\ Icons!Init /\ HotkeyThread!Init /\ Field!Init
    /\ part # "thread"
        => setting = Default /\ \A h \in Hotkeys : owner[h] = "nobody"

Next ==
    \/ part = "clicks" /\ Clicks!Next
        /\ UNCHANGED <<part, scaleVars, trayVars, keyVars, fieldVars>>
    \/ part = "refresh" /\ Refresh!Next
        /\ UNCHANGED <<part, scaleVars, trayVars, keyVars, fieldVars>>
    \/ part = "scales" /\ Scale!Next
        /\ UNCHANGED <<part, displayVars, trayVars, keyVars, fieldVars>>
    \/ part = "icons" /\ Icons!Next
        /\ UNCHANGED <<part, displayVars, scaleVars, keyVars, fieldVars>>
    \/ part = "thread" /\ HotkeyThread!Next
        /\ UNCHANGED <<part, displayVars, scaleVars, trayVars, fieldVars>>
    \/ part = "field" /\ Field!Next
        /\ UNCHANGED <<part, displayVars, scaleVars, trayVars, keyVars>>

Spec == Init /\ [][Next]_vars

\* The fairness of WindowsDisplay, Trays and Hotkey.
RefreshFair ==
    /\ \A t \in {"host", "tray"} :
        WF_displayVars(part = "refresh" /\ Refresh!ActionStep(t))
    /\ WF_displayVars(part = "refresh" /\ Refresh!HostEnds)
    /\ WF_displayVars(part = "refresh" /\ Refresh!TrayEnds)
    /\ WF_displayVars(part = "refresh" /\ Refresh!BeginRefresh)
IconsFair ==
    /\ WF_trayVars(part = "icons" /\ Icons!MainStep)
    /\ \A t \in Icons!Icons :
        /\ WF_trayVars(part = "icons" /\ Icons!Setup(t))
        /\ WF_trayVars(part = "icons" /\ Icons!AddIcon(t))
        /\ SF_trayVars(part = "icons" /\ Icons!EndLoop(t))
        /\ WF_trayVars(part = "icons" /\ Icons!EndAct(t))
        /\ WF_trayVars(part = "icons" /\ Icons!Dismiss(t))
ThreadFair ==
    /\ WF_keyVars(part = "thread" /\ HotkeyThread!ThreadStep)
    /\ SF_keyVars(part = "thread" /\ HotkeyThread!Poll)

FairSpec == Spec /\ RefreshFair /\ IconsFair /\ ThreadFair
-----------------------------------------------------------------------------
\* Display, settings and status hold what they can hold, scales stay in the
\* range of the display, an icon acts or has a menu open exactly when it
\* knows a state, the hotkey thread waits only for a request that is still in the
\* queue, and a captured name ends in at most one key.
TypeOK ==
    CASE part = "clicks" -> Clicks!TypeOK
      [] part = "refresh" -> Refresh!TypeOK
      [] part = "scales" -> Scale!TypeOK
      [] part = "icons" -> Icons!TypeOK
      [] part = "thread" -> HotkeyThread!TypeOK
      [] part = "field" -> Field!TypeOK

\* What the user asks of the display is what comes: a click on its icon that
\* nothing crossed flips the taskbar, and icon and status.json say so; a scale
\* the page offers is what is set when it is chosen, and a percentage becomes the
\* nearest scale within the script's table.
DisplayObeys ==
    /\ part = "clicks" => Clicks!ClickFlips
    /\ part = "scales" => Scale!OfferedIsSet /\ Scale!SetIsClosest

\* However many extensions show their icons through one static pointer, the
\* main icon acts on its own state, and the state that any icon acts on is
\* still there, while it acts too, as long as no thread has failed and the flag
\* has not gone down since the icon found that state.
UsesAreSafe == part = "icons" => Icons!UsesAreSafe

\* The hotkey thread believes what Windows knows, one hotkey or none, and every
\* run of type-text goes back to a press of its own, however late it is served.
HotkeyIsHeld == part = "thread" => HotkeyThread!OneKeyHeld /\ HotkeyThread!NoExtraRuns

\* The fields of the page mean what the daemon reads of them: resolutions and
\* scales that are shown or picked are the ones that are requested, but where the
\* default resolution uncovers three keys, and the hotkey that is registered is the
\* key that was pressed in its field, but for marks of punctuation.
FieldsAreTrue ==
    /\ part = "clicks" => Clicks!OptionsAreTrue
    /\ part = "refresh" => Refresh!OptionsAreTrue
    /\ part = "field" => Field!RegistersThePressedKey

\* When the display is left alone, status.json and the icon end up showing it,
\* whatever the host wrote from an old copy; once the flag is down the process
\* ends, wherever its icons and menus are; and a hotkey that is no longer
\* configured is given back in the end.
ThreadsSettle ==
    /\ part = "refresh" => Refresh!StatusConverges
    /\ part = "icons" => Icons!StopEnds
    /\ part = "thread" => HotkeyThread!OldKeyReleased
=============================================================================
