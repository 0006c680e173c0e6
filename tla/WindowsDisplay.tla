--------------------------- MODULE WindowsDisplay ---------------------------
(***************************************************************************)
(* windows-display-manager: one display, changed from four sides.          *)
(*                                                                         *)
(* A host thread carries out triggers and "save and apply"; the tray       *)
(* thread of the extension carries out clicks and menu choices, and asks   *)
(* for the status every 250 ms; the user changes the taskbar and the       *)
(* display in Windows, and saves settings in the page.  Every action of    *)
(* the extension takes seconds (it starts PowerShell), reads the taskbar   *)
(* before and after, and ends in status.json, which both threads write:    *)
(* the host into the copy it read before the action, the tray into the     *)
(* file as it is after it.                                                 *)
(***************************************************************************)
EXTENDS Naturals, Sequences, SequencesExt, FiniteSets

CONSTANTS
    Modes,          \* what resolutionMode may name
    DefaultMode,    \* 1920x1080@60
    Scales,
    DefaultScale,   \* 100
    StandardScales, \* the scales that are always offered
    Completed,      \* for three keys of which some are missing: what defaults add
    Unset,          \* a key the object lacks
    Configs,        \* the settings a person may have saved
    MaxJobs, MaxClicks, MaxEdits, MaxFaults     \* bounds of the model

Threads == {"host", "tray"}

TaskbarActions == {"toggle-taskbar-autohide", "set-taskbar-autohide"}
Actions == TaskbarActions \cup {"status", "set-resolution", "set-scale"}

VARIABLES
    device,     \* the taskbar, the mode and the scale that are in force
    config,     \* config.json
    status,     \* status.json
    view,       \* what icon and menu of the tray show
    task,       \* per thread: the action under way
    left        \* what the bounds leave: jobs, clicks, edits, faults

vars == <<device, config, status, view, task, left>>

\* Width, height and rate, of which some are there.
Partials == DOMAIN Completed

\* mode is resolutionMode, size the three separate keys.
Config == [hide : BOOLEAN, mode : Modes \cup {Unset},
           size : Modes \cup Partials \cup {Unset}, scale : Scales \cup {Unset}]

DefaultsAssumption ==
    /\ DefaultMode \in Modes /\ DefaultScale \in Scales /\ Unset \notin Modes \cup Scales
    /\ StandardScales \in Seq(Scales) /\ DefaultScale \in ToSet(StandardScales)
    /\ Completed \in [Partials -> Modes] /\ Partials \cap (Modes \cup {Unset}) = {}
    /\ Configs \subseteq Config
    /\ MaxJobs \in Nat /\ MaxClicks \in Nat /\ MaxEdits \in Nat /\ MaxFaults \in Nat

NoConfig == [hide |-> FALSE, mode |-> Unset, size |-> Unset, scale |-> Unset]

Or(value, default) == IF value = Unset THEN default ELSE value

\* Each of the three keys has a default of its own.
ReadSize(size) == IF size \in Partials THEN Completed[size] ELSE Or(size, DefaultMode)

\* build_request: a resolutionMode hides the three separate keys.
BuildRequest(object) ==
    [hide |-> object.hide,
     mode |-> Or(object.mode, ReadSize(object.size)),
     scale |-> Or(object.scale, DefaultScale)]

\* The parameters main.ts passes on without inputs, as the dispatcher names
\* them: "enabled" is not a key that build_request reads.
ScriptConfig ==
    [NoConfig EXCEPT !.size = DefaultMode, !.scale = DefaultScale]

EmptyStatus == [hide |-> Unset, mode |-> Unset, scale |-> Unset,
                ok |-> Unset, contract |-> FALSE]

NoResult == [hide |-> FALSE, mode |-> Unset, scale |-> Unset]

\* before: the taskbar when the action started; clean: nobody else changed
\* display or settings since, and no call failed; wanted: the choice in the
\* menu.  No step looks at these three.
Idle == [pc |-> "idle", kind |-> "none", action |-> "status", rest |-> <<>>,
         request |-> BuildRequest(NoConfig), sampled |-> EmptyStatus,
         result |-> NoResult, before |-> FALSE, clean |-> FALSE, wanted |-> Unset]

-----------------------------------------------------------------------------
(* dynamic_options: what the settings page offers.                         *)

\* A value is kept where it comes for the first time.
UniquePreservingOrder(values) ==
    LET unique[n \in 0 .. Len(values)] ==
            IF n = 0 THEN <<>>
            ELSE LET seen == unique[n - 1]
                 IN  IF values[n] \in ToSet(seen) THEN seen ELSE Append(seen, values[n])
    IN  unique[Len(values)]

\* resolutionMode, or the three keys when all of them are there.
ConfiguredMode ==
    IF config.mode # Unset THEN config.mode
    ELSE IF config.size \in Partials THEN DefaultMode ELSE Or(config.size, DefaultMode)

\* The resolutions, had resolutionMode been left out.
ResolutionOptions_WithoutMode(told, presets) ==
    UniquePreservingOrder(told \o presets \o <<ReadSize(config.size)>>)

\* told: the modes of the display, <<>> when it could not be asked.
ResolutionOptions(told, presets) ==
    UniquePreservingOrder(told \o presets \o <<ConfiguredMode>>)

\* The scales, had the configured one been left out.
ScaleOptions_WithoutConfigured(told) == UniquePreservingOrder(told \o StandardScales)

ScaleOptions(told) ==
    UniquePreservingOrder(told \o <<Or(config.scale, DefaultScale)>> \o StandardScales)
-----------------------------------------------------------------------------
(* The settings page of the extension.                                     *)

\* The list of modes keeps a value that is not offered; the control of the scale
\* then has none.
ShownMode == Or(config.mode, DefaultMode)

ShownScale(offered) ==
    LET scale == Or(config.scale, DefaultScale)
    IN  IF scale \in ToSet(offered) THEN scale ELSE Unset

\* What "save" makes of the file: a default is removed.  The three keys of a
\* resolution have no control.
PageSaves(mode, scale) ==
    [config EXCEPT !.mode = IF mode = DefaultMode THEN Unset ELSE mode,
                   !.scale = IF scale = DefaultScale THEN Unset ELSE scale]
-----------------------------------------------------------------------------
Init ==
    /\ device \in [hide : BOOLEAN, mode : {DefaultMode}, scale : {DefaultScale}]
    /\ config \in Configs
    /\ status = EmptyStatus
    /\ view = [hide |-> FALSE, mode |-> DefaultMode, scale |-> DefaultScale]
    /\ task = [t \in Threads |-> Idle]
    /\ left = [jobs |-> MaxJobs, clicks |-> MaxClicks,
               edits |-> MaxEdits, faults |-> MaxFaults]

\* Somebody else than t has changed the display or the settings.
Cross(tasks, t) == [u \in Threads |->
    IF u = t THEN tasks[u] ELSE [tasks[u] EXCEPT !.clean = FALSE]]

Free(t) == task[t].pc \in {"idle", "over"}

\* The action a thread turns to: toggle reads the taskbar first.
First(action) ==
    CASE action = "toggle-taskbar-autohide" -> "read"
      [] action = "set-taskbar-autohide" -> "set"
      [] OTHER -> "bridge"

\* execute_windows_display_action reads config and status before it acts.
Job(kind, actions, object) ==
    [Idle EXCEPT !.pc = First(Head(actions)), !.kind = kind,
                 !.action = Head(actions), !.rest = Tail(actions),
                 !.request = BuildRequest(object), !.sampled = status,
                 !.before = device.hide, !.clean = TRUE]

\* A trigger: prepare_trigger runs the action, before the script does.
Trigger(action) ==
    /\ Free("host") /\ left.jobs > 0
    /\ task' = [task EXCEPT !["host"] = Job("trigger", <<action>>, config)]
    /\ left' = [left EXCEPT !.jobs = @ - 1]
    /\ UNCHANGED <<device, config, status, view>>

\* "Save and apply": the applyActions of the manifest, in their order.
ApplyActions == <<"set-taskbar-autohide", "set-resolution", "set-scale">>

Apply ==
    /\ Free("host") /\ left.jobs > 0
    /\ task' = [task EXCEPT !["host"] = Job("apply", ApplyActions, config)]
    /\ left' = [left EXCEPT !.jobs = @ - 1]
    /\ UNCHANGED <<device, config, status, view>>

\* A click or a choice: the overrides are saved, then the action starts.
TrayAct(action, wanted) ==
    /\ Free("tray") /\ left.clicks > 0
    /\ config' = CASE action = "set-resolution" -> [config EXCEPT !.size = wanted]
                   [] action = "set-scale" -> [config EXCEPT !.scale = wanted]
                   [] OTHER -> config
    /\ task' = [Cross(task, "tray") EXCEPT
            !["tray"] = [Job("click", <<action>>, config') EXCEPT !.wanted = wanted]]
    /\ left' = [left EXCEPT !.clicks = @ - 1]
    /\ UNCHANGED <<device, status, view>>

\* The presets of the menu come from the config or the last status.
MenuChoice ==
    \/ \E mode \in Modes : TrayAct("set-resolution", mode)
    \/ \E scale \in Scales : TrayAct("set-scale", scale)

LeftClick == TrayAct("toggle-taskbar-autohide", Unset)

BeginRefresh ==
    /\ Free("tray")
    /\ task' = [task EXCEPT !["tray"] =
            [Job("refresh", <<"status">>, config)
                EXCEPT !.before = FALSE, !.sampled = EmptyStatus]]
    /\ UNCHANGED <<device, config, status, view, left>>
-----------------------------------------------------------------------------
(* execute_action.                                                         *)

To(t, pc) == [task EXCEPT ![t].pc = pc]

Over(t) == [Idle EXCEPT !.pc = "over", !.kind = task[t].kind,
                        !.action = task[t].action, !.before = task[t].before,
                        !.clean = task[t].clean, !.wanted = task[t].wanted]

\* toggle_taskbar_auto_hide: the state is read, then its opposite is set.
ReadTaskbar_FromView(t) ==
    /\ task[t].pc = "read"
    /\ task' = [To(t, "set") EXCEPT ![t].request.hide = ~view.hide]
    /\ UNCHANGED <<device, config, status, view, left>>
ReadTaskbar(t) ==
    /\ task[t].pc = "read"
    /\ task' = [To(t, "set") EXCEPT ![t].request.hide = ~device.hide]
    /\ UNCHANGED <<device, config, status, view, left>>

SetTaskbar(t) ==
    /\ task[t].pc = "set"
    /\ device' = [device EXCEPT !.hide = task[t].request.hide]
    /\ task' = Cross(To(t, "bridge"), t)
    /\ UNCHANGED <<config, status, view, left>>

\* The bridge reports mode and scale.  When it fails, the action goes on
\* without them.
BridgeReports(t) ==
    /\ task[t].pc = "bridge"
    /\ task[t].action \in TaskbarActions \cup {"status"}
    /\ \/ /\ task' = [To(t, "look") EXCEPT ![t].result =
                        [hide |-> FALSE, mode |-> device.mode, scale |-> device.scale]]
          /\ UNCHANGED left
       \/ /\ left.faults > 0
          /\ left' = [left EXCEPT !.faults = @ - 1]
          /\ task' = [To(t, "look") EXCEPT ![t].clean = FALSE, ![t].result =
                        NoResult]
    /\ UNCHANGED <<device, config, status, view>>

\* The setters of the bridge.  The script then assigns "requested" and
\* "applied" to an object that has no such properties, which PowerShell
\* refuses: the display is changed and the action fails.
BridgeSets(t) ==
    /\ task[t].pc = "bridge"
    /\ task[t].action \in {"set-resolution", "set-scale"}
    /\ device' = IF task[t].action = "set-resolution"
                 THEN [device EXCEPT !.mode = task[t].request.mode]
                 ELSE [device EXCEPT !.scale = task[t].request.scale]
    /\ task' = Cross(To(t, "failed"), t)
    /\ UNCHANGED <<config, status, view, left>>

\* The taskbar is read last.
LookAtTaskbar(t) ==
    /\ task[t].pc = "look"
    /\ task' = [To(t, "save") EXCEPT ![t].result.hide = device.hide]
    /\ UNCHANGED <<device, config, status, view, left>>

\* The taskbar's window is not there, or the bridge cannot be started.
CallFails(t) ==
    /\ \/ task[t].pc \in {"read", "set", "look"}
       \/ task[t].pc = "bridge" /\ task[t].action \in {"set-resolution", "set-scale"}
    /\ left.faults > 0
    /\ left' = [left EXCEPT !.faults = @ - 1]
    /\ task' = [To(t, "failed") EXCEPT ![t].clean = FALSE]
    /\ UNCHANGED <<device, config, status, view>>
-----------------------------------------------------------------------------
(* What is done with the result.                                           *)

\* update_windows_display_status and update_status_snapshot: what the result
\* does not tell stays.
Updated(old, result) ==
    [old EXCEPT !.ok = TRUE, !.hide = result.hide,
                !.mode = Or(result.mode, @), !.scale = Or(result.scale, @)]

\* The next action of "apply"; each reads config and status anew.
Continue(t) ==
    IF task[t].kind = "apply" /\ task[t].rest # <<>>
    THEN [Job("apply", task[t].rest, config)
            EXCEPT !.clean = task[t].clean, !.sampled = status']
    ELSE IF task[t].kind = "trigger" THEN To(t, "script")[t] ELSE Over(t)

HostSaves ==
    /\ task["host"].pc = "save" /\ task["host"].kind \in {"trigger", "apply"}
    /\ status' = [Updated(task["host"].sampled, task["host"].result)
                    EXCEPT !.contract = TRUE]
    /\ task' = [task EXCEPT !["host"] = Continue("host")]
    /\ UNCHANGED <<device, config, view, left>>

\* The error is saved; a trigger ends before its script, and "apply" before
\* its next action.
HostFails ==
    /\ task["host"].pc = "failed" /\ task["host"].kind \in {"trigger", "apply"}
    /\ status' = [task["host"].sampled EXCEPT !.ok = FALSE, !.contract = TRUE]
    /\ task' = [task EXCEPT !["host"] = Over("host")]
    /\ UNCHANGED <<device, config, view, left>>

\* main.ts, started after the host action, calls the same action again.
RunScript ==
    /\ task["host"].pc = "script"
    /\ task' = [task EXCEPT !["host"].pc = First(task["host"].action),
                    !["host"].kind = "script",
                    !["host"].request = BuildRequest(ScriptConfig)]
    /\ UNCHANGED <<device, config, status, view, left>>

\* A call of the script leaves no trace in status.json.
ScriptEnds ==
    /\ task["host"].pc \in {"save", "failed"} /\ task["host"].kind = "script"
    /\ task' = [task EXCEPT !["host"] = Over("host")]
    /\ UNCHANGED <<device, config, status, view, left>>

\* parse_status falls back to defaults, and the configured scale is shown
\* instead of the reported one.
View(result) ==
    [hide |-> result.hide, mode |-> Or(result.mode, DefaultMode),
     scale |-> Or(config.scale, Or(result.scale, DefaultScale))]

TraySaves_ViewOnly ==
    /\ task["tray"].pc = "save"
    /\ view' = View(task["tray"].result)
    /\ task' = [task EXCEPT !["tray"] = Over("tray")]
    /\ UNCHANGED <<device, config, status, left>>
TraySaves ==
    /\ task["tray"].pc = "save"
    /\ status' = Updated(status, task["tray"].result)
    /\ view' = View(task["tray"].result)
    /\ task' = [task EXCEPT !["tray"] = Over("tray")]
    /\ UNCHANGED <<device, config, left>>

\* An error of an action of the tray is dropped.
TrayFails ==
    /\ task["tray"].pc = "failed"
    /\ task' = [task EXCEPT !["tray"] = Over("tray")]
    /\ UNCHANGED <<device, config, status, view, left>>
-----------------------------------------------------------------------------
\* Somebody uses the settings of Windows, or saves the settings page.
Edit ==
    /\ left.edits > 0
    /\ left' = [left EXCEPT !.edits = @ - 1]
    /\ \/ /\ \/ device' = [device EXCEPT !.hide = ~@]
             \/ \E mode \in Modes : device' = [device EXCEPT !.mode = mode]
             \/ \E scale \in Scales : device' = [device EXCEPT !.scale = scale]
          /\ UNCHANGED config
       \/ config' \in Configs /\ UNCHANGED device
    /\ task' = Cross(task, "user")
    /\ UNCHANGED <<status, view>>

ActionStep(t) ==
    \/ ReadTaskbar(t) \/ SetTaskbar(t) \/ LookAtTaskbar(t)
    \/ BridgeReports(t) \/ BridgeSets(t)

HostEnds == HostSaves \/ HostFails \/ RunScript \/ ScriptEnds
TrayEnds == TraySaves \/ TrayFails

Next ==
    \/ \E action \in Actions : Trigger(action)
    \/ Apply \/ MenuChoice \/ LeftClick \/ BeginRefresh \/ Edit
    \/ \E t \in Threads : ActionStep(t) \/ CallFails(t)
    \/ HostEnds \/ TrayEnds

Spec == Init /\ [][Next]_vars

\* PowerShell answers, and the tray loop comes round every 250 ms.
FairSpec ==
    /\ Spec
    /\ \A t \in Threads : WF_vars(ActionStep(t))
    /\ WF_vars(HostEnds) /\ WF_vars(TrayEnds) /\ WF_vars(BeginRefresh)
-----------------------------------------------------------------------------
TypeOK ==
    /\ device \in [hide : BOOLEAN, mode : Modes, scale : Scales]
    /\ config \in Config
    /\ status.mode \in Modes \cup {Unset} /\ status.scale \in Scales \cup {Unset}
    /\ view \in [hide : BOOLEAN, mode : Modes, scale : Scales]
    /\ \A t \in Threads :
        /\ task[t].pc \in {"idle", "read", "set", "bridge", "look", "save",
                           "failed", "script", "over"}
        /\ task[t].action \in Actions
        /\ task[t].pc = "script" => t = "host"
    /\ \A bound \in DOMAIN left : left[bound] \in Nat

Done(t, kind) == task[t].pc = "over" /\ task[t].kind = kind /\ task[t].clean

\* A left click on the icon that nothing crossed has moved the taskbar to
\* its other state, and status.json and the icon say so, although the
\* action read the taskbar three times with PowerShell in between.
ClickFlips ==
    (Done("tray", "click") /\ task["tray"].action = "toggle-taskbar-autohide") =>
        /\ device.hide <=> ~task["tray"].before
        /\ view.hide <=> device.hide

\* When the display is left alone, status.json and the icon end up showing
\* it, whatever the host wrote from an old copy and whatever failed before.
StatusConverges ==
    <>[](/\ status.hide = device.hide /\ status.mode = device.mode
         /\ status.scale = device.scale /\ view.hide = device.hide)

\* Answers of the display, and presets of the tray; the first: none.
ToldModes == {<<>>, <<device.mode, view.mode>>}
Presets == {<<>>, <<view.mode>>}
ToldScales == {<<>>, <<device.scale>>}

\* Three keys come to light when the page saves the default mode.
Uncovers(mode) == mode = DefaultMode /\ ReadSize(config.size) # DefaultMode

\* The page and the daemon read one file in two ways, with defaults of their
\* own, and mean the same by it, whatever the display answers and whatever the
\* tray has saved: the mode that is requested is offered exactly once, unless
\* some of three keys are missing; a save of any mode or scale that is offered
\* makes it the one that is requested, and a save of what is shown, untouched,
\* leaves the request as it was, each with one exception: the page saves the
\* default mode by removing resolutionMode, and three keys may come to light.
OptionsAreTrue ==
    /\ \A modes \in ToldModes, presets \in Presets :
          LET offered == ResolutionOptions(modes, presets)
          IN  /\ (config.mode # Unset \/ config.size \notin Partials) =>
                    Cardinality({i \in DOMAIN offered :
                                    offered[i] = BuildRequest(config).mode}) = 1
              /\ \A mode \in ToSet(offered) :
                    (BuildRequest(PageSaves(mode, config.scale)).mode # mode) <=> Uncovers(mode)
    /\ \A told \in ToldScales :
          LET scales == ScaleOptions(told)
          IN  /\ \A scale \in ToSet(scales) :
                    BuildRequest(PageSaves(config.mode, scale)).scale = scale
              /\ LET before == BuildRequest(config)
                     after == BuildRequest(PageSaves(ShownMode, ShownScale(scales)))
                 IN  /\ after.scale = before.scale
                     /\ (after.mode # before.mode) <=> Uncovers(config.mode)

\* The manifest on "toggle-taskbar-autohide": "Flip the taskbar between
\* pinned and auto-hide states."
TriggerFlips ==
    (Done("host", "script") /\ task["host"].action = "toggle-taskbar-autohide") =>
        device.hide = ~task["host"].before

\* The manifest on "set-taskbar-autohide": "Apply the saved taskbar
\* auto-hide setting."
TriggerAppliesSetting ==
    (Done("host", "script") /\ task["host"].action = "set-taskbar-autohide") =>
        device.hide = config.hide

\* The README on the tray menu: "Right click: taskbar/resolution/scale menu".
\* The resolution that is chosen there is the one that is set.
PresetIsSet ==
    (Done("tray", "click") /\ task["tray"].action = "set-resolution") =>
        device.mode = task["tray"].wanted

\* The manifest on resolutionMode: "Target display mode picked from the
\* detected resolution list."
PickIsRequested ==
    \A mode \in ToSet(ResolutionOptions(<<device.mode>>, <<>>)) :
        BuildRequest(PageSaves(mode, ShownScale(ScaleOptions(<<>>)))).mode = mode

\* The README on the settings page: it "can save and immediately apply the
\* configured taskbar, resolution, and scale values."
ApplyIsComplete ==
    Done("host", "apply") => device = BuildRequest(config)

\* The architecture document: "Host-managed status files now carry
\* `_stateContract` metadata with capability ownership and schema version."
StatusIsStamped == status # EmptyStatus => status.contract
=============================================================================
