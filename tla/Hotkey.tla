------------------------------- MODULE Hotkey -------------------------------
(***************************************************************************)
(* The hotkey thread of the daemon (hotkey.rs): it keeps the hotkey of     *)
(* safe-input-key registered with Windows and turns every press of it into *)
(* a trigger request to its own daemon (daemon_transport.rs).              *)
(*                                                                         *)
(* One loop of the thread polls the configured hotkey at most once a       *)
(* second, then handles all messages, waiting up to ten seconds for the    *)
(* answer to each.  The daemon serves its requests one after the other, at *)
(* its own pace: what the thread has given up is served all the same.      *)
(*                                                                         *)
(* External: RegisterHotKey and UnregisterHotKey, where another program    *)
(* may hold a key, and the posting of WM_HOTKEY to the thread.             *)
(***************************************************************************)
EXTENDS Naturals

CONSTANTS
    Hotkeys,       \* names of hotkeys the thread can parse
    Default,       \* the hotkey of a configuration that has none
    Unsupported,   \* a name it cannot parse
    Cleared,       \* the empty name, also combo at the start
    MaxSaves, MaxPresses, MaxOthers, MaxToggles   \* bounds on the environment

HotkeyAssumption ==
    /\ Default \in Hotkeys
    /\ Unsupported \notin Hotkeys /\ Cleared \notin Hotkeys
    /\ Unsupported # Cleared
    /\ MaxSaves \in Nat /\ MaxPresses \in Nat /\ MaxOthers \in Nat /\ MaxToggles \in Nat

VARIABLES
    setting,      \* triggerKey in config.json
    combo,        \* RegisteredHotkey.combo
    registered,   \* RegisteredHotkey.registered
    owner,        \* who has registered each hotkey with Windows
    presses,      \* WM_HOTKEY messages in the queue of the thread
    pc,           \* where the thread is
    queue,        \* trigger requests in the queue of the daemon
    enabled,      \* safe-input-key is in the daemon's registry
    running,      \* the flag all threads share
    pressed,      \* history: presses of a hotkey of Copper
    typed,        \* history: runs of type-text
    budget        \* what the environment may still do

thread == <<combo, registered, pc>>
vars == <<setting, thread, owner, presses, queue, enabled, running, pressed, typed, budget>>

Settings == Hotkeys \cup {Unsupported, Cleared}
Owners == {"nobody", "copper", "other"}

Spend(what) == budget[what] > 0 /\ budget' = [budget EXCEPT ![what] = @ - 1]
-----------------------------------------------------------------------------
Init ==
    /\ setting \in {Default, Unsupported}
    /\ combo = Cleared /\ registered = FALSE /\ pc = "poll"
    /\ owner \in [Hotkeys -> {"nobody", "other"}]
    /\ presses = 0 /\ queue = 0 /\ pressed = 0 /\ typed = 0
    /\ enabled = TRUE /\ running = TRUE
    /\ budget = [saves |-> MaxSaves, presses |-> MaxPresses,
                 others |-> MaxOthers, toggles |-> MaxToggles]
-----------------------------------------------------------------------------
(* The thread.                                                             *)

\* The hotkeys of all programs once Copper has let go of its own.
Released == [h \in Hotkeys |-> IF registered /\ owner[h] = "copper" THEN "nobody" ELSE owner[h]]

\* The update, had the old hotkey been forgotten instead of released.
Update_NoClear ==
    LET free == setting \in Hotkeys /\ owner[setting] = "nobody"
    IN  /\ registered' = free
        /\ owner' = IF free THEN [owner EXCEPT ![setting] = "copper"] ELSE owner

\* A changed name: the old hotkey is released, the new one registered if it
\* can be parsed and no other program holds it.
Update ==
    LET free == setting \in Hotkeys /\ Released[setting] = "nobody"
    IN  /\ registered' = free
        /\ owner' = IF free THEN [Released EXCEPT ![setting] = "copper"] ELSE Released

\* The second is over.  The name is the current one whatever became of it.
Poll ==
    /\ pc = "poll" /\ running
    /\ pc' = "drain"
    /\ combo' = setting
    /\ IF setting = combo THEN UNCHANGED <<registered, owner>> ELSE Update
    /\ UNCHANGED <<setting, presses, queue, enabled, running, pressed, typed, budget>>

\* The second is not over, or the configuration cannot be read.
SkipPoll ==
    /\ pc = "poll" /\ running
    /\ pc' = "drain"
    /\ UNCHANGED <<setting, combo, registered, owner, presses, queue, enabled, running,
                   pressed, typed, budget>>

\* trigger_safe_input: the request reaches the daemon while it runs.
Take ==
    /\ pc = "drain" /\ presses > 0
    /\ presses' = presses - 1
    /\ IF running THEN pc' = "waiting" /\ queue' = queue + 1 ELSE UNCHANGED <<pc, queue>>
    /\ UNCHANGED <<setting, combo, registered, owner, enabled, running, pressed, typed, budget>>

\* Ten seconds without an answer, or the end of the connection: an error is
\* logged.  The request stays where it is.
Timeout ==
    /\ pc = "waiting"
    /\ pc' = "drain"
    /\ UNCHANGED <<setting, combo, registered, owner, presses, queue, enabled, running,
                   pressed, typed, budget>>

Idle ==
    /\ pc = "drain" /\ presses = 0
    /\ pc' = "poll"
    /\ UNCHANGED <<setting, combo, registered, owner, presses, queue, enabled, running,
                   pressed, typed, budget>>

EndLoop ==
    /\ pc = "poll" /\ ~running
    /\ pc' = "ended"
    /\ registered' = FALSE /\ owner' = Released
    /\ UNCHANGED <<setting, combo, presses, queue, enabled, running, pressed, typed, budget>>
-----------------------------------------------------------------------------
(* The daemon.                                                             *)

\* Requests are served in their order: the one the thread waits for is the last.
\* An extension that is not in the registry is an error answer.
Serve ==
    /\ running /\ queue > 0
    /\ queue' = queue - 1
    /\ typed' = typed + IF enabled THEN 1 ELSE 0
    /\ pc' = IF pc = "waiting" /\ queue = 1 THEN "drain" ELSE pc
    /\ UNCHANGED <<setting, combo, registered, owner, presses, enabled, running, pressed, budget>>

\* A shutdown request, a menu or a signal.
Shutdown ==
    /\ running
    /\ running' = FALSE
    /\ UNCHANGED <<setting, thread, owner, presses, queue, enabled, pressed, typed, budget>>

\* The extension is disabled or enabled in the core settings and reloaded.
Toggle ==
    /\ running /\ Spend("toggles")
    /\ enabled' = ~enabled
    /\ UNCHANGED <<setting, thread, owner, presses, queue, running, pressed, typed>>
-----------------------------------------------------------------------------
(* The user and the other programs.                                        *)

Save(s) ==
    /\ s # setting /\ Spend("saves")
    /\ setting' = s
    /\ UNCHANGED <<thread, owner, presses, queue, enabled, running, pressed, typed>>

\* A press, or a repetition of a key that is held down.
Press(h) ==
    /\ owner[h] = "copper" /\ Spend("presses")
    /\ presses' = presses + 1 /\ pressed' = pressed + 1
    /\ UNCHANGED <<setting, thread, owner, queue, enabled, running, typed>>

OtherTakes(h) ==
    /\ owner[h] = "nobody" /\ Spend("others")
    /\ owner' = [owner EXCEPT ![h] = "other"]
    /\ UNCHANGED <<setting, thread, presses, queue, enabled, running, pressed, typed>>

OtherReleases(h) ==
    /\ owner[h] = "other"
    /\ owner' = [owner EXCEPT ![h] = "nobody"]
    /\ UNCHANGED <<setting, thread, presses, queue, enabled, running, pressed, typed, budget>>
-----------------------------------------------------------------------------
ThreadStep == Poll \/ SkipPoll \/ Take \/ Timeout \/ Idle \/ EndLoop

Next ==
    \/ ThreadStep
    \/ Serve \/ Shutdown \/ Toggle
    \/ \E s \in Settings : Save(s)
    \/ \E h \in Hotkeys : Press(h) \/ OtherTakes(h) \/ OtherReleases(h)

Spec == Init /\ [][Next]_vars

\* The thread runs, its clock advances and its configuration is not unreadable
\* for good.  Nothing is asked of the daemon, the user or other programs.
FairSpec == Spec /\ WF_vars(ThreadStep) /\ SF_vars(Poll)
-----------------------------------------------------------------------------
\* Types, and the thread waits only for a request the daemon has not answered.
TypeOK ==
    /\ setting \in Settings /\ combo \in Settings
    /\ registered \in BOOLEAN /\ enabled \in BOOLEAN /\ running \in BOOLEAN
    /\ owner \in [Hotkeys -> Owners]
    /\ pc \in {"poll", "drain", "waiting", "ended"}
    /\ presses \in 0..MaxPresses /\ queue \in 0..MaxPresses
    /\ pc = "waiting" => queue > 0

\* What the thread believes is what Windows knows: it has one hotkey, the
\* current name, or none, and none once it has ended.  A key it has forgotten
\* would be lost to every other program.
OneKeyHeld ==
    /\ \A h \in Hotkeys : owner[h] = "copper" <=> registered /\ combo = h
    /\ pc = "ended" => ~registered

\* Every run of type-text goes back to a press of its own, whatever the thread
\* gives up and the daemon serves late: the secret is never typed twice.
NoExtraRuns == typed + queue + presses <= pressed

\* A hotkey that is no longer the configured one is given back in the end,
\* whatever the new one is, and also when the daemon stops.
OldKeyReleased ==
    \A h \in Hotkeys : (owner[h] = "copper" /\ setting # h) ~> (owner[h] # "copper" \/ setting = h)

\* docs/EXTENSION_UI_ACCESS.md: the saved hotkey is the one that is registered.
\* Once it is saved and no other program holds it, the daemon has it in the end.
SavedHotkeyRegistered ==
    \A h \in Hotkeys :
        <>[](running /\ setting = h /\ owner[h] # "other") => []<>(owner[h] = "copper")

\* docs/ARCHITECTURE.md: a disabled extension is not active.  It does not keep
\* its key from the programs of the user.
DisabledHoldsNoKey == <>[](~enabled) => []<>(\A h \in Hotkeys : owner[h] # "copper")
=============================================================================
