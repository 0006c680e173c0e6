# TLA+ models of Copper

Copper is a long-running daemon, `copperd`, that runs small TypeScript
extensions when a person, a hotkey or a command triggers them. This directory
holds the TLA+ models of the daemon, the TLC instances that check them and the
proofs about them. Paths below are relative to the repository; `daemon/src/` is
left out where a file name is unique.

To check: `tlc -config StateFile.cfg MCStateFile.tla`, and so on for each
configuration in the table under "Runs"; `tlapm StateFileProofs.tla`, and so on for each
`...Proofs` module, for the proofs.

## The system

| Component | Code | State it keeps | Operations |
|---|---|---|---|
| State store | `state_store.rs` | `config.json` and `status.json` per extension, core config; `data.json` of older versions, read only | read with fallback, merge and save, write atomically, collect warnings |
| Daemon loop and control plane | `daemon.rs`, `daemon_transport.rs`, `daemon_scheduler.rs`, `daemon_service.rs` | the registry, a copy of the core config, the `running` flag, the queue of the HTTP server | health, list, trigger, reload, verify, shutdown; scheduled reload; background tick |
| Registry | `extension.rs`, `core_config.rs` | nothing between loads | load directories, override by later roots, filter by platform and core config |
| Execution engine | `execution.rs`, `runtime/mod.rs` | nothing | prepare a trigger (host action, worker process), execute it |
| Extension execution | `runtime/deno_runner.rs`, `sdk/bridge.ts` | the two pipes of the Deno process, the calls that are open | start, answer calls, end |
| Settings UI server | `config_ui*.rs` | none: it loads a registry per connection | read and save settings, apply, trigger; `ui open`: a server with a window, in a process of its own |
| Settings UI page | `daemon/ui/*.js` | section shown, settings loaded, controls | navigate, edit, save, apply, trigger, reload |
| Trays | `tray.rs`, `tray_extension.rs` | the status they show | menu actions, status refresh every 250 ms, exit |
| Host extensions | `host_extensions.rs`, `api/windows_display.rs` | taskbar, resolution and scale of the desktop; a status file | status, toggle and set actions |
| Store API | `api/store.rs` | `store.json` per extension | get, set |
| Hotkey thread | `hotkey.rs` | the registered combination | poll the setting, register, trigger |
| Control plane token | `control_plane.rs` | the token file | create, load |
| Autostart | `autostart.rs` | an entry of the operating system | synchronize with the core config |
| Shipped extensions | `extensions/*/main.ts` | the keychain, files of the user | organize torrents, type a text, count runs, set the display |
| Validation | `descriptor.rs`, `schema.rs` | none | validate a manifest |
| Host API calls | `api/*.rs` | none of their own | files, keychain, keyboard, shell |
| Command line | `cli.rs` | none | requests to the daemon, a trigger of its own, `ui open` |
| Window, browser, rendering; scripts | `ui_*.rs`, `scripts/` | none of their own | |

How they interact. The main thread owns the registry and serves the control
plane one request at a time, and it runs a triggered extension to its end before
the next request. The settings UI server is another thread: it reads the disk
anew for every connection, saves through the state store, and runs triggers
itself, at the same time as the main thread. Tray threads save through the state
store too. The hotkey thread is an HTTP client of its own process. All these
threads share nothing in memory but the `running` flag; they share the files, and
nothing locks a file. On Windows the main thread joins the tray threads at the
end. The command line is another process, which may run its own settings UI on
the same files.

What is hard: unlocked read-modify-write of files by threads and processes;
crashes between the steps of a save; the end of a run, in which two processes
wait for each other over pipes; loads that take a while, fail half way and go
out of date; requests that outlive the client that sent them; the shutdown of
threads that wait for each other.

What makes each part correct:

- State store: no torn file, no acknowledged save lost without another change, no
  setting changed by a save that does not name it, every save returns.
- Extension execution: each call gets its own answer, success is reported only
  when earned, neither side blocks forever.
- Daemon loop: the registry follows the disk, a failing load harms nothing, a
  request is answered, a shutdown ends the process, nothing else does.
- Store API: `set` changes one key and loses no other.
- Registry: what is whole is found, what is broken is reported, what is disabled is
  left out, and the user's directory wins.
- Execution engine: the action that was asked for runs, on the inputs of the caller,
  and a trigger ends whatever becomes of the worker.
- Host extensions and trays: one trigger acts once; the status file tells the
  latest action; an icon acts for its own extension; trays end with the daemon.
- Hotkey: the key that was pressed is the key that is registered, the registered
  one is eventually the configured one, one press is one run.
- Control plane token: clients find the token the daemon checks.
- UI server and page: what is saved is what was shown and edited; what is
  registered at login is what is saved; no request hangs.
- Shipped extensions: no file is lost, only the stored text is typed.

The hazards behind these lines, each with its place in the code, are in
`PROJECT.json`.

## Modules

| Module | Models | Checked by |
|---|---|---|
| `JsonObject` | contents of state files, reads and merge of `state_store.rs` | through `StateFile` |
| `AtomicObject` | what the store promises: one atomic object | refined by `StateFile` |
| `StateFile` | the threads that save one file, step by step | `MCStateFile` |
| `StateFileProofs` | proofs about `StateFile` | tlapm |
| `DenoRun` | one execution: `deno_runner.rs` and `bridge.ts` | `MCDenoRun` |
| `DenoRunProofs` | proofs about `DenoRun` | tlapm |
| `DaemonLoop` | one daemon process, its trays and its clients | `MCDaemonLoop` |
| `DaemonLoopProofs` | proofs about `DaemonLoop` | tlapm |
| `Copper` | `DaemonLoop` with a `DenoRun` for every trigger | `MCCopper`; refines `DaemonLoop` |
| `CopperProofs` | the refinement, and what both parts prove, for the composition | tlapm |
| `Extensions` | the six modules below side by side, as one specification | `MCExtensions` |
| `ExtensionsProofs` | proofs about `Extensions` | tlapm |
| `Registry` | a load: directories, folders, overriding, filter | `MCExtensions` |
| `RuntimeWorker` | a trigger: worker process, choice of action, host part, run | `MCExtensions` |
| `KeyValueStore` | what the store API promises to one run at a time | refined by `ExtStore` |
| `ExtStore` | `store.json` under overlapping runs | `MCExtensions` |
| `ControlPlane` | the token file, daemons and clients | `MCExtensions` |
| `TorrentOrganizer` | `desktop-torrent-organizer` on `api/fs.rs` | `MCExtensions` |
| `SafeInput` | `safe-input-key` on the keychain and the keyboard | `MCExtensions` |
| `Desktop` | the five modules below side by side, as one specification | `MCDesktop` |
| `DesktopProofs` | proofs about `Desktop` | tlapm |
| `DisplayScale` | the arithmetic of display scales in the bridge script | `MCDesktop` |
| `WindowsDisplay` | host actions, tray, status and options of one display | `MCDesktop` |
| `Trays` | the icons' threads on Windows, their start and end | `MCDesktop` |
| `HotkeyKeys` | the name of a hotkey, from keyboard to registration | `MCDesktop` |
| `Hotkey` | the hotkey thread, its keys and its requests | `MCDesktop` |
| `Settings` | the two modules below side by side, as one specification | `MCSettings` |
| `SettingsProofs` | proofs about `Settings` | tlapm |
| `UiServer` | both settings servers, the core settings, the registration at login | `MCSettings` |
| `UiOpen` | the life of the process of `ui open` | `MCSettings` |
| `UiPage` | the handlers of the page between their awaits | `MCUiPage` |
| `UiPageProofs` | proofs about `UiPage` | tlapm |

A module begins with what it is about and names what it takes from outside the
repository; `PROJECT.json` maps every definition to its lines.

### StateFile

`file` is what a reader finds behind the path, `durable` what a loss of power
leaves there. A thread's save is `Merge` (`merge_json_object`, and the status
updates of the host actions) or `TrayMerge` (`execute_action` of the tray, which
alone reads `data.json` as well), then the calls of `write_file_atomically` one
by one: `Create`, `Write`, `Sync`, `Replace`. `Fail` is an error of any of them and
`Cleanup` what follows. `Kill` ends a process, `PowerLoss` all of them; `Flush` is
the file system's write-back, which makes a rename durable with the data of the
file behind it, if that data was synced. A text that does not parse is `Bad`; the
code reads it as `{}`.

An object is a function from keys to values or `Missing`. Two keys with one value tell
apart a key that is set, kept and removed, and two saves of different keys can cross.
`Edit` is a person who writes the file with an editor. The names of temporary files are
taken to be unique: each thread has its own `temp[t]`, and files left by a killed
process are not met again.

`AtomicObject` says what remains after that: a save drafts a new version from one
it has seen and installs it in one step, or gives up. It does *not* promise that
concurrent saves keep each other's keys: the last one wins, and the specification
says so.

### DenoRun

The host's thread (`host`), the child's (`child`) and the two pipes, `toHost` and
`toChild`, of `Capacity` lines each. A line is its kind and the id of the call.
`ReadDone`, `ReadError`, `ReadNoise`, `ReadBinary` and `ReadCall` are the branches of the
loop of `drive_extension`. The child calls without waiting for answers as often as
`MaxOutstanding` allows, prints lines of its own, ends, throws or is killed. The
host's answer carries the kind of the line it was computed for, so that
`AnswersMatchCalls` can tell whose answer settled a call. A line printed by the
extension itself that happens to have the id of an open call is not modelled: the
bridge could not know better.

### DaemonLoop

`main` is the place of the main thread: `load`, `begin` (the rest of the start),
`recv`, `run` (a trigger), `due`, `tick`, `leaving` (joining the trays), `stopped`. A load
reads one directory per step (`LoadDir`), then the core config (`LoadCoreConfig`),
with changes of both in between; `task` says whether it is the start, a request or
the schedule. Time is not modelled: a reload is due or not. A client that gives
up leaves its request in the queue with nobody to answer (`Disown`).
`tick_background` does nothing, because `capability_specs` of `host_extensions.rs`
has no capability with background polling; the second reading of the core config
of a load serves only those polls and is left out with them. The directories
appear as `absent`, `whole` or `partial`, which stands for everything a load fails on.
Three history variables hold the extensions that changed since the load under way
began, since the load behind the registry began, and since each client asked.

### Copper

`Copper` has the variables of `DaemonLoop` and of `DenoRun` and uses both through
`INSTANCE`. The main thread's step into `run` starts a new child (`NewRun`), and its
step out of it, one step of `DaemonLoop`, needs the host's loop to have returned
(`RunReturns`) and answers what it returned. `ImplementsDaemonLoop` is the specification
of `DaemonLoop` with its fairness: the assumption of that module that a trigger comes to
an end is here derived from the host's loop, the bridge, the two pipes and an extension
that stops. It has one exception, an extension that threw: then host and child wait for
each other and the main thread stays in `run` (the finding of `denorun_error`). A child
the host has turned away from may still write; it is dropped when the next run begins,
because nothing reads its pipes.

### Registry

The paths of `runtime_extension_roots` (`Candidates` beside the program, then the
user's) in their order, each with the directory it leads to (`Real`), walked one after
the other; a root is the position of a path. A folder is looked at three times: is there
a `manifest.json` (`Visit`), is there a `main.ts` (`LookForMain`), what does the
manifest say (`ReadManifest`). What `parse_and_validate` can say of a folder is its
content: nothing, incomplete, broken, or whole with an id and a platform. Folders and
the core config change between any two of these steps (`ChangeFolder`, `SetDisabled`),
so that a manifest may be gone when it is read; that, and any other error of listing,
reading or of the core config, ends the load (`ReadFails`). `past` remembers what each
folder has held since the load began: what is said of a folder nobody touched is said
while the others change. `runtime_extension_roots` keeps the first of two equal
directories; of two folders with one id in one directory either may win, as the
operating system orders them. The core config is read last (`Finish`) and filters, with
the platform. A directory may be created during a load and is not removed. `DaemonLoop`
has what the daemon makes of a load, this module what a load finds.

### RuntimeWorker

The engine writes its request in parts into the worker's pipe, which may fill,
and reads the answer to its end; the worker reads all, chooses the action of the
manifest, answers and ends, or is killed. A different `version` and an answer
that cannot be parsed lead to the engine's own choice. What follows is the host's part
of the action, if a host capability owns the extension, then the run with the
inputs of the caller over those of the settings.

### KeyValueStore, ExtStore

A run gets and sets the counter, and sets a key it has not read. A set is: read,
change, open (the file is empty from then on), write; the text is laid over what
is there, so that two writers of different lengths leave a tail. `Bad` is a text that
does not parse. `KeyValueStore` has one action for a set that replaces one key and
one for a set that was interrupted and leaves nothing; with one run at a time
`ExtStore` implements it.

### ControlPlane

A start of a daemon looks for the file, reads it or makes a token, empties the
file, writes a part, writes the rest, serves. Any of these may fail, which ends the start
where it is, and `Stop` may come anywhere. A client reads, which may fail too, and sends.
Daemons at several addresses share the file.

### DisplayScale

The part of the script that turns percent into the levels of Windows and back:
`SetScalePercent`, `GetConfiguredScalePercent`, `ScaleInfo`, and the registry value that
the fallback writes (`SetScaleFallback`). The
user changes the scale by other means (`UserSets`). The displays of the instance have
their recommended level at several places of the table, with ranges cut at both
ends. From 400 percent, asking for 350 changes nothing, because the table of the
script stops there; the properties are limited to scales in the table.

### WindowsDisplay

One display, its taskbar, `config.json` and `status.json`; a host thread with the
actions of a trigger or of "save and apply", and the tray thread with clicks, menu
choices and the refresh. An action is: read the taskbar, run the script (its steps
may fail), read again, write the status, where the host writes into the copy it
read before and the tray into the file as it is. A trigger runs the action twice,
from `prepare_trigger` and from `main.ts`.

The options of the page are here too, because the file is read in two ways: by
`build_request`, which completes width, height and rate one by one, and by
`configured_resolution_mode`, which takes all three or none. So a resolution in
`config.json` is `resolutionMode`, the three keys, some of them (`Partials`) or nothing.
The display may have answered or not (`ToldModes`, `ToldScales`). `PageSaves` is what the
page makes of a control, a default being saved by removing its key. Left out are values
out of the range that `build_request` clamps to, and a `resolutionMode` that does not
parse.

### Trays

The main thread starts the main icon and one for each extension that declares a tray,
and serves; a thread creates its window, adds its icon, loops, and may fail at each of
these. The two static pointers are part of the state: one for the main icon, one for the
icons of all extensions, each of whose threads writes it. An icon that acts, or opens
its menu, finds a state through its pointer and keeps it (`open`) until it is done,
which takes seconds (`act`) or as long as the user looks (`menu`); meanwhile other
threads start, end and move the pointer. Failures of the start unwind as `run_daemon`
does: the controllers are dropped, which joins the threads.

### HotkeyKeys, Hotkey

`HotkeyKeys` follows a key with its modifiers through `normalizeHotkeyEvent` of the page
and `parse_hotkey` of the daemon to the code that is registered. `Hotkey` has the thread:
`Poll`, the messages, the request and its timeout; the system's table of keys, where
another program may be first; the daemon's queue, which serves what the thread has
given up.

### UiServer, UiOpen, UiPage

`UiServer` has the daemon's server and the one of `ui open` on the same files. A
connection is accepted, read up to what was sent (a request may come in halves or not at
all), routed, carried out and answered. `SaveCore` and `Sync` (the registration at
login) are two steps. The daemon's server loads the registry for each connection, the other
one once. A load reads the folders first and the core config afterwards (`LoadRegistry`,
then `FilterRegistry`; `Accept`, then `BuildState`), with changes of both in between, and
either may fail. `UiOpen` has the process around the second server: port, window or browser,
backlog, idle time, close, and when the address is printed. `UiPage` has the handlers
of `sections.js` and `handlers.js`: a task runs to its next await, `Serve` is the answer
and `Fails` its failure, `Resume` goes on with what the others have left in the shared
variables.

### TorrentOrganizer, SafeInput

A run of the organizer lists, then per file renames, or, whatever a rename fails for, copies
in two steps and removes; a removal may fail and leave the original beside its copy.
`Faults` adds failing copies and the end of the process. Two runs *with* a
failing copy can lose a torrent (one removes the original while the other's copy
has truncated and then fails): the runs keep the two apart, and the reader should
know it. A file of the same name in the destination is replaced. The default
folder (`~/Desktop/...`) is not expanded by the host and appears as one that cannot be
read. `SafeInput` takes the calls of the keychain as steps and typing as one step per
character; runs of the daemon follow each other, those of the page and the command
line do not.

## Runs

| Run | Configuration of | Question | Result |
|---|---|---|---|
| `statefile` | `StateFile.cfg`, `MCStateFile` | do concurrent saves with failures, kills, losses of power and edits tear a file, lose an acknowledged save or change other keys; do they return; do they implement `AtomicObject`? | holds |
| `statefile_migration` | `StateFile_migration.cfg`, `MCStateFile` | does the first save after an upgrade keep the settings of `data.json`? | **violated** |
| `denorun` | `DenoRun.cfg`, `MCDenoRun` | do answers match calls, is success earned, can full pipes block both sides, is every call answered, does a run that is over return? | holds, the last two for extensions that did not throw |
| `denorun_error` | `DenoRun_error.cfg`, `MCDenoRun` | does the host close stdin after `_error`, as the bridge says? | **violated** |
| `daemonloop` | `DaemonLoop.cfg`, `MCDaemonLoop` | does the registry follow the disk; is a reload that was asked for fresh; does a shutdown end the process; are requests answered? | holds |
| `daemonloop_alwayson` | `DaemonLoop_alwaysOn.cfg`, `MCDaemonLoop` | does the daemon stay when nobody ends it? | **violated** |
| `copper` | `Copper.cfg`, `MCCopper` | is a client told "ok" only of a run that ended well; do daemon and runs together implement the daemon alone, with its fairness? | holds |
| `extensions` | `Extensions.cfg`, `MCExtensions` | do token, discovery, choice of the action, store, torrents and secret keep what they promise? | holds |
| `desktop` | `Desktop.cfg`, `MCDesktop` | do host actions, scales, fields and hotkeys agree with what is shown, saved and pressed; do icons act on states that are there; do the threads settle? | holds |
| `trays_ownstate` | `Trays_ownState.cfg`, `Trays` | does the icon of an extension act on its own extension's state? | **violated** |
| `settings` | `Settings.cfg`, `MCSettings` | is an answered save applied; do only enabled extensions run; is everybody answered? | holds |
| `uipage` | `UiPage.cfg`, `MCUiPage` | does the page show and save one section's settings, and come to rest? | holds |

### Runs of several parts

`Extensions`, `Desktop` and `Settings` put components side by side that share no
variable with each other. Such a module instantiates each of them, with constants of its
own where two parts differ in them only; the variable `part` says which one moves, and
the others rest in one initial state. The module is checked (the MC module gives the
constants their values) and proved about as it stands; `part` never changes, so that the
states of the run are the sum of those of its parts and not the product. A property
`part = "..." => P` says `P` of the behaviours of that part. A property of several parts
is a conjunction of the modules' own properties, and its comment names them all; the
modules state them one by one:

| Property | Conjunction of |
|---|---|
| `TokenServes` | `ControlPlane`: `TokenIsOnDisk`, `TokenIsAccepted` |
| `DiscoveryIsRight` | `Registry`: `NothingIsMissed`, `DisabledIsSuppressed`, `UserOverrides`, `BrokenIsReported` |
| `RunsTheAskedAction` | `RuntimeWorker`: `RunsTheAskedAction`, `CallerDecides` |
| `StoreIsAMap` | `ExtStore` implements `KeyValueStore` one run at a time; `KeepsOthers` for uncrossed sets, `NoRunIsCountedTwice` |
| `TorrentsAreAccounted` | `TorrentOrganizer`: `NoTorrentIsLost`, `CountsAreTrue` |
| `SecretIsKept` | `SafeInput`: `OnlyStoredIsTyped`, `StaysUntilCleared`, `DaemonRunsDoNotMix` |
| `DisplayObeys` | `WindowsDisplay`: `ClickFlips`; `DisplayScale`: `OfferedIsSet`, `SetIsClosest` |
| `HotkeyIsHeld` | `Hotkey`: `OneKeyHeld`, `NoExtraRuns` |
| `UsesAreSafe` | `Trays`: `UsesAreSafe` |
| `FieldsAreTrue` | `WindowsDisplay`: `OptionsAreTrue`, in both of its parts; `HotkeyKeys`: `RegistersThePressedKey` |
| `ThreadsSettle` | `WindowsDisplay`: `StatusConverges`; `Trays`: `StopEnds`; `Hotkey`: `OldKeyReleased` |
| `TriggerRunsEnabled` | `UiServer`: `TriggerRunsEnabled`, `NoRunFromHalfABody` |
| `EverybodyIsAnswered` | `UiServer`: `RequestsAnswered`; `UiOpen`: `ConnectionsEnd`, `ServerEnds` |
| `PageIsTrue` | `UiPage`: `ContentIsCurrent`, `SaveIsWhatIsShown` |

The four violations:

- **Migration.** `merge_json_object` (`state_store.rs:205`) reads only `config.json`. As
  long as that is absent, readers are shown `data.json`
  (`docs/ARCHITECTURE.md:61`: "Legacy `data.json` is still read as a fallback during config
  migration."), but the first save starts from `{}`, and the new `config.json`
  hides the old settings. The save of the tray reads the fallback and is not
  affected.
- **An extension that throws.** After `_error`, `drive_extension` waits for the child
  (`deno_runner.rs:123`) with its stdin still open, and the child waits for the end of
  its stdin (`sdk/bridge.ts:143`). The thread of the trigger, which may be the main
  thread, waits forever.
- **Scheduled reload.** `state.reload()?` in the loop (`daemon.rs:254`) ends the daemon
  when a load fails, which it does as soon as one directory has a `manifest.json`
  and no `main.ts`, for instance while an extension is copied into place. A reload
  that is requested only answers the error. `docs/ARCHITECTURE.md:16` calls the
  daemon "always-on". On Windows the process does not even end: the trays are
  joined while `running` is still true.
- **Dedicated icons.** The loop of `AdditionalTrayController::initialize`
  (`tray_extension.rs:66`) starts an icon for every extension that declares a tray, and
  each of their threads sets one and the same pointer (`tray_extension.rs:336`). With
  two of them a click on the first icon acts on the state of the one that set itself up
  last, where `docs/ARCHITECTURE.md:47` says: "extensions can declare dedicated tray
  icons". One extension that Copper ships declares a tray, so it takes another one. What
  does hold of any number of icons is `UsesAreSafe`.

### Bounds

- `statefile`: two threads in two processes, two keys, one value, two bodies of
  saves. Two saves are enough for every crossing of read and rename, because a save
  touches nothing of another thread but `file`; nothing bounds the number of saves.
  `statefile_migration` adds `data.json`.
- `denorun`: pipes of `Capacity` 2 lines, `MaxCalls` 4, `MaxOutstanding` 2 answers: enough
  to fill both pipes. `denorun_error` needs one call.
- `daemonloop`: two clients and one queued request, so that one client can keep sending
  while the other waits; a tray; one extension and the core config, of which each can
  change before and after it is read, twice in all; failing starts, loads and
  trays. Two extensions of which one changes before and one after it is read, and longer
  queues, are left to `RegistryFollows`, `FreshReloads` and `NobodyIsForgotten`, which hold
  for all constants.
- `copper`: one extension, one client, one tray, pipes of one line and one call: the run
  is long enough for both sides to wait for each other, and every step of the
  composition happens; the crossings within one run are the question of `denorun`, those
  within one loop of `daemonloop`.
- `extensions`. `token`: one daemon that starts three times, so that a start that ended
  while it wrote is followed by one that finds the half and one that finds the whole;
  two clients. `load`: two paths, to a directory beside the program and to the user's,
  which is the workspace's; one folder in the one and two in the other, two ids, one
  change between any two steps, so that a folder can be completed, broken or removed
  between two looks at it while the others stay. `worker`: three names, manifests of
  none, one and two actions, requests and answers of three parts in pipes of two, which
  is enough to fill them. `crossed`: two runs; `serial`: one run after another; counters
  to 3 and two faults in both. `meeting`: two runs and two torrents; `failing`: one run
  and two, so that one has been moved when the other fails. `typing`: two runs of two
  characters each, two texts, one lock of the keychain.
- `desktop`. `clicks`: one host action, one click, one failing call; `refresh`: one host
  action and one change of settings (taskbar, mode and scale), any number of refreshes,
  from the settings of a new installation, from those of page and tray together, and
  from a width without a height. Two modes, two scales. `scales`: ten percentages (the
  levels, halves between them, both ends) on eight displays; it is exhaustive in the
  operations' inputs, whose number has no bound. `icons`: the main icon and those of two
  extensions, every failure, no bound on what users do. `thread`: two hotkeys, one
  unknown name, two saves, three presses, one other program. `field`: a key of each kind
  that the code tells apart, "." and "+" among them, two key-downs. `trays_ownstate`:
  two extensions and nothing that fails.
- `settings`. Two clients, each with one request at a time and together two connections;
  `saves` has one installation and one fault, `runs` one change of the disk, `live` one of
  each kind of failure. `opens`: three connections.
- `uipage`: one extension besides the core settings, two handlers under way, two clicks,
  one edit, one save by somebody else and one failed request. Two handlers are the
  least that cross; two clicks are enough to leave a section and come back to it.

`CHECK_DEADLOCK FALSE` is in every configuration: a run ends, a daemon stops, and a file
nobody saves may rest.

### Fairness

- `StateFile`: weak fairness of each thread's steps: a save is straight code without
  a lock. Nothing is assumed of the start of saves, kills or write-back.
- `DenoRun`: weak fairness of the host's thread and of the pipes and the bridge;
  strong fairness of `Receive`, because an extension that keeps calling turns to the
  event loop again and again and not continuously. Nothing is assumed of the
  extension: it need not call, end or throw.
- `DaemonLoop`: weak fairness of the main thread and of each tray thread, which poll the
  flag in a loop; that a tray fails instead is not assumed. This includes the end of a
  triggered extension, which the code does not enforce: an extension that never returns
  holds the main thread, and then neither property holds. Clients, people and the
  schedule are free.
- `Copper`: the fairness of the two modules' own threads, and strong fairness of the
  extension's end, which the code does not enforce either. Nothing is assumed of
  the step from `run` to the next: that it comes is what is shown.
- `RuntimeWorker`: weak fairness of engine and worker; a host action and `main.ts` end.
- `WindowsDisplay`: weak fairness of the steps of an action, of its end on either thread,
  and of the refresh, which a timer starts again and again. Clicks, menus, triggers and
  changes are free.
- `Trays`: weak fairness of the main thread, of a thread's start, of the end of what an
  icon has begun and of the closing of a menu; strong fairness of `EndLoop`, because a
  thread looks at the flag between menus only, and the user may open one after the
  other.
- `Hotkey`: weak fairness of the thread; strong fairness of `Poll`, because the thread
  returns to it after every message while presses may keep coming.
- `UiServer`: weak fairness of the server's thread; a client that has connected sends or
  leaves some time. Without the latter requests wait (see "Disagreements").
- `UiOpen`: weak fairness of the main thread, of the server's thread and of its timeout.
- `UiPage`: weak fairness of the answer to and the resumption of each task. The user is
  free.
- The safety-only modules (`Registry`, `ExtStore`, `ControlPlane`, `DisplayScale`,
  `HotkeyKeys`, `TorrentOrganizer`, `SafeInput`) assume none in their run.

## Disagreements

Besides the four findings above, the modules state what documents, comments or
manifests of the repository say and the code does not do. Each was refuted by TLC on
an instance of the size of those above, with the definition as its only property; they
are not among the runs. Where the instance differs from that of the run, the last
column says how.

| Definition | What the code does | What is said | Instance |
|---|---|---|---|
| `ExtStore!StoreIsNeverTorn` | `store.set` writes in place (`api/store.rs:21`); two runs that truncate and then write texts of different lengths leave one that does not parse | `docs/ARCHITECTURE.md:59`, atomic replacement | `crossed` |
| `DisplayScale!StatusIsCurrent` | a status prefers `LogPixels`, which only the fallback writes (`windows_display.rs:656`) | manifest of `windows-display-manager`, action `status` | `scales` |
| `WindowsDisplay!TriggerFlips` | the host action runs in `prepare_trigger` (`execution.rs:54`) and again in `main.ts`: two toggles | manifest, line 52 | `clicks` |
| `WindowsDisplay!TriggerAppliesSetting` | the value is passed as `enabled` and read as `taskbarAutoHide` (`deno_runner.rs:273`, `windows_display.rs:108`) | manifest, line 58 | `refresh` |
| `WindowsDisplay!PresetIsSet` | the tray saves width, height and rate, the request prefers `resolutionMode` (`windows_display.rs:94`) | `README.md:125` | settings with a mode |
| `WindowsDisplay!PickIsRequested` | the page saves the default resolution by removing `resolutionMode` (`handlers.js:9`), and three keys that the tray saved come to light (`windows_display.rs:97`) | manifest of `windows-display-manager`, line 21 | `refresh` |
| `WindowsDisplay!ApplyIsComplete` | the script assigns to fields the status object lacks and stops (`windows_display.rs:838`), so that the scale is not set | `README.md:121` | `refresh` |
| `WindowsDisplay!StatusIsStamped` | the tray writes `status.json` without `_stateContract` (`tray_extension.rs:645`) | `docs/ARCHITECTURE.md:63` | `clicks` |
| `Trays!AskedEnds` | after an error of the start the icons are joined while `running` is true (`tray_extension.rs:67`), the port stays bound | `cli.rs:150` | `icons` |
| `HotkeyKeys!HotkeyIsThePressedKey` | a punctuation mark is registered by its character code, another key's: "." is Delete (`hotkey.rs:196`) | manifest of `safe-input-key`, line 13 | `field` |
| `Hotkey!SavedHotkeyRegistered` | a registration that failed is not tried again for the same name (`hotkey.rs:112`) | `docs/EXTENSION_UI_ACCESS.md:56` | `thread` |
| `Hotkey!DisabledHoldsNoKey` | the key of a disabled extension stays registered (`hotkey.rs:75`) | `docs/ARCHITECTURE.md:60` | `thread` |
| `UiServer!UiAlwaysOn` | a client that sends nothing holds the only thread (`config_ui_http.rs:87`) | `docs/EXTENSION_UI_ACCESS.md:43` | `FairServerSpec` |
| `UiServer!AutostartFollowsSetting` | two servers save in one order and register in the other (`config_ui_server.rs:262`) | `docs/EXTENSION_UI_ACCESS.md:60` | `saves` |
| `UiServer!RegistrationStays` | the first save of any core setting undoes what the installer registered (`autostart.rs:50`) | `README.md:61` | `saves` |
| `UiPage!DisabledStays` | a save while no controls are shown posts another section's settings and enables what was disabled (`handlers.js:57`) | `docs/EXTENSION_UI_ACCESS.md:61` | `uipage` |
| `UiPage!EditsStay` | what is edited while a save is under way is drawn over (`handlers.js:134`) | `docs/EXTENSION_UI_ACCESS.md:27` | `uipage` |
| `UiOpen!ToldWhileServed` | without a browser the address is printed when the server has ended (`config_ui_server.rs:196`) | `cli.rs:297` | `opens` |
| `RuntimeWorker!DryRunRunsNothing` | a dry run prints the action and runs it (`cli.rs:418`) | `cli.rs:71` | `worker` |
| `Registry!UserOverrides` | the first of two paths to one directory counts, and the older `core-extensions` come last of those beside the program (`extension.rs:171`): when the user's directory is the workspace's, one of those can win over it | `docs/ARCHITECTURE.md:35` | the workspace's path first |
| `ControlPlane!TokenIsAccepted` | two daemons that start together serve with different tokens (`control_plane.rs:34`) | `cli.rs:150` | two daemons |
| `TorrentOrganizer!UsesSavedSettings` | a trigger through the daemon runs with inputs `{}` (`daemon_service.rs:97`) | manifest of `desktop-torrent-organizer`, line 42 | `meeting` |
| `TorrentOrganizer!DefaultIsScanned` | the default `~/Desktop` is not expanded (`api/fs.rs:12`) | manifest, line 13 | `meeting` |
| `TorrentOrganizer!AutoRunMoves` | no capability polls in the background (`host_extensions.rs:186`) | manifest, line 27 | `FairSpec` |
| `SafeInput!TypedInOnePiece` | runs of two processes mix their characters (`api/keyboard.rs:99`) | manifest of `safe-input-key`, line 28 | `typing` |
| `SafeInput!NoticeIsTrue` | the keychain's error is dropped and success reported (`api/secure_store.rs:16`) | `main.ts:52` | `typing` |
| `DaemonLoop!ShutdownEnds` | an extension that never returns holds the thread that serves (`daemon_service.rs:97`) | `cli.rs:150` | `HangSpec` |
| `DaemonLoop!AlwaysOn` | a body that is not UTF-8 ends the daemon (`daemon_transport.rs:111`) | `docs/ARCHITECTURE.md:16` | a request "unreadable" |

A trigger whose extension throws holds the main thread for good: this follows from the
finding of `denorun_error`, and is the exception in `ImplementsDaemonLoop`.

## Proofs

Every safety property of a passing run is a theorem, the safety half of every refinement,
and of every liveness property the part that is not fairness: that nobody is stuck or
lost, and that what remains to be done gets less. They hold for all values of the
constants that satisfy the assumptions of the modules, so for any number of threads,
clients, extensions, files, texts and faults, where a run has two or three.

| Module | Theorem | States |
|---|---|---|
| `StateFileProofs` | `TypeCorrect` | `[]TypeOK` |
| | `NoTornFile` | `[]NeverTorn` |
| | `AcknowledgedSaves` | `[]AcknowledgedSaveStands` |
| | `UnnamedKeys` | `UnnamedKeysSurvive`, if `InitialLegacy` is at most `{Absent}` |
| | `Implementation` | `ImplementsAtomicObject` |
| | `SaveAdvances` | a save is never stuck and comes nearer to its end |
| `DenoRunProofs` | `TypeCorrect` | `[]TypeOK` |
| | `AnswersAreOwn` | `[]AnswersMatchCalls` |
| | `Success` | `[]SuccessIsEarned` |
| | `NoDeadlock` | `[]NoFullPipeDeadlock` |
| | `OverNearsItsEnd` | a run that is over, without an error, is not stuck and comes nearer to its return |
| | `CallsAreOnTheirWay` | `[]NoCallIsLost`: an open call is on its way to its answer |
| `DaemonLoopProofs` | `TypeCorrect` | `[]TypeOK` |
| | `RegistryFollows` | `[]RegistryTracksDisk` |
| | `FreshReloads` | `ReloadIsFresh` |
| | `NobodyIsForgotten` | a client that waits has exactly one request |
| | `ShutdownNears` | with the flag down the loop is not stuck and comes nearer to its end |
| `CopperProofs` | `Refines` | `Daemon!Spec`: the composition is a daemon |
| | `DaemonIsRight` | `RegistryTracksDisk` and `ReloadIsFresh` of the composition |
| | `RunsAreRight` | `AnswersMatchCalls` and `SuccessIsEarned` of all its runs |
| | `OkEarned` | `OkIsEarned` |
| | `RunsDoNotBlock` | `NoFullPipeDeadlock` of all its runs |
| `ExtensionsProofs` | `TypeCorrect` | `[]TypeOK` |
| | `TokenIsRight` | `[]TokenServes` |
| | `Discovers` | `DiscoveryIsRight` but for `UserOverrides`, whatever changes during a load |
| | `DiscoversRight` | `[]DiscoveryIsRight`, if `UserIsLast` |
| | `AskedRuns` | `[]RunsTheAskedAction` |
| | `Accounted` | `[]TorrentsAreAccounted` |
| | `StoreIsRight` | `StoreIsAMap`, with the refinement of `KeyValueStore` |
| | `SecretKept` | `SecretIsKept` |
| | `TriggerNearsItsEnd` | a trigger is not stuck and comes nearer to its end |
| `DesktopProofs` | `TypeCorrect` | `[]TypeOK` |
| | `DisplayDoes` | `[]DisplayObeys` |
| | `IconsActSafely` | `[]UsesAreSafe`, for any number of display icons |
| | `KeyIsHeld` | `[]HotkeyIsHeld` |
| | `FieldsTrue` | `[]FieldsAreTrue` |
| | `StatusComesRight` | an uncrossed refresh saves the truth; one comes nearer, and the truth stays |
| | `StopIsNear` | with the flag down the process is not stuck and comes nearer to its end |
| | `ReleaseIsNear` | an old hotkey can be given back, and its release comes nearer |
| `SettingsProofs` | `TypeCorrect` | `[]TypeOK` |
| | `SavesAreApplied` | `[]OkMeansApplied` |
| | `TriggersRunEnabled` | `[]TriggerRunsEnabled` |
| | `ConnectionsGetOn` | a connection has a server that can go on, and comes nearer to its answer |
| | `OpenNearsItsEnd` | `ui open` is not stuck and comes nearer to its end |
| `UiPageProofs` | `TypeCorrect` | `[]TypeOK` |
| | `PageTrue` | `PageIsTrue` |
| | `NeverBlankForGood` | the page is not blank and silent for good, and handlers come nearer to their end |

### Assumptions

Each module with constants names what it assumes of them (`...Assumption`), mostly their
types and that a mark such as `Absent` is no value. `Extensions`, `Desktop` and
`Settings` assume this of all their parts, and every assumption is evaluated by TLC for
the constants of a run. Those that say something about the system:

- `UnnamedKeys` has no `data.json`: with one it is false (`statefile_migration`).
- `DiscoversRight` has `UserIsLast`: no directory beside the program is read after one
  that is the user's. Without it the user's extension need not win (see
  "Disagreements"). `Discovers` does without.
- `UiPageAssumption`: no extension is `core` or `commands`. The page's keys of extensions
  begin with `ext:`, those of its own sections do not.
- `HotkeyAssumption`: a hotkey, no hotkey and one that cannot be parsed are distinct.
- `DisplaysAssumption`: a display has its recommended scale in the twelve levels
  of Windows, and its highest at or above it.

### Invariants

An inductive invariant is called `IInv`, or `Inv` where there are parts. What each adds
to the types, and why:

- `StateFile`: the file behind the path is synced; a thread about to sync or rename has
  all of its draft in its temporary file; one about to rename has synced it.
  `Replace` puts `temp[t]` behind the path, and only this says that it is a whole object
  and on the disk; `Flush` then always stores a whole object. `AcknowledgedSaves` adds
  that an acknowledged save that is still alone is what the file holds, `UnnamedKeys`
  that the draft of such a save agrees with the file outside the keys it names
  (`Based`). `Implementation` maps each action to one of `AtomicObject` or to a stutter.
- `DenoRun`: the pipes are open while the host loops (`Opened`), only calls have an id
  other than 0, on whichever pipe (`Addressed`), and what the host reads and returns
  goes back to how the extension ended (`Told`). `NoDeadlock` needs `Bounded`: the
  answers that are owed, counted over both pipes, the host's hand and the line the child
  is writing, are at most `MaxOutstanding`. The lemmas `Asking...` count the calls in a
  pipe. `OverNearsItsEnd` adds `Ending`: where the last line of an extension is, and
  which end of a run leaves the child's stdin open. `CallsAreOnTheirWay` adds
  `NoCallIsLost` itself.
- `DaemonLoop`: for whom and why the main thread loads (`Purpose`); what the load under
  way has read is on the disk unless it changed since (`Loaded`); a client waits for one
  request, in the queue or served (`Asked`), which is what makes a client's history
  belong to the load that answers it; what changed since it asked changed since that
  load began (`Fresh`). `NobodyIsForgotten` adds the converse of `Asked`: a client that
  waits has a request (`Kept`).
- `Copper`: no invariant of its own. Each of its steps is a step of `DaemonLoop`, and one of
  `DenoRun`, a stutter or `NewRun`, which begins the latter anew; so
  the invariants of both parts carry over. `OkEarned` combines them; `RunsDoNotBlock` needs
  that a new run owes its pipes nothing (`EmptyBounded`).
- `Extensions`. Token (`TokenInv`): the file is written only while no token is in it, so
  a token that a client has read stays the one that is served. Load (`LoadInv`): a
  folder nobody has touched since the load began is still to be read, or being looked
  at, its `main.ts` found if it is past that look, or has an entry under its id, or is
  no extension (`LoadSees`); an entry is what a folder of its directory has held since
  (`LoadReads`), which is what can take the place of another; `UserInv` says which
  directory the entry is from. Worker (`WorkerInv`): the parts of both messages add up,
  and past the preparation the action is the one `select_action` chooses for the caller.
  Store (`StoreInv`): what a run has read or is about to write is no more than the sets
  that began, and a set nobody crossed has emptied the file itself; `SerialReads` is
  what the refinement needs. Torrents (`MeetingInv`, `FailingInv`): a torrent that was
  found is on the desktop, whole in its new place, or the source of a copy under way,
  and what a run counts as moved, failed and left fits what it found. Typing
  (`TypingInv`): what a run is about to type it has seen in the keychain, and of two
  runs of the daemon one is over.
- `Settings`. The three server parts differ in bounds and requests; every step of theirs
  is a step of one server with all requests (`ServersStep`), so that one proof serves
  them. A server that is busy and a connection that is served belong together (`Busy`).
  Each thread knows what was installed and what was enabled since it accepted
  (`ThreadRuns`), has heard the request whole if it acts on one (`ThreadHeard`), and has
  saved what the login follows, unless somebody crossed it (`ThreadSaved`). `OpensInv`
  counts the connections of `ui open`. `ConnectionsGetOn` adds that none waits for a
  server that has ended (`Listening`).
- `UiPage`: what a handler holds between two awaits (`Stage`), what a save carries
  (`Carries`: the values of its controls, and what is saved for those nobody
  touched), and that the controls are those of the section named and show what was
  loaded unless edited (`PageInv`). `NeverBlankForGood` adds `NeverSilent`: controls, a
  message, or a load that the page will take.
- `Desktop`. Display: at each step of a click what it knows of the taskbar, if nobody
  crossed it (`Click`). Scales: types, and lemmas about the table: the first nearest
  level is the nearest (`FirstLeast`, `FindsClosest`), and a level is found again from
  its dpi (`LevelIsFound`). Icons (`SafeStates`): a pointer, and a state that an icon
  has found, is that of an icon of its own kind that has set itself up, and is still
  there as long as no thread has failed and, for one that was found, the flag is up: a
  thread that ends takes its pointer away and not what others have of it. Hotkey:
  presses that are not yet runs, requests in the queue and presses that may still come
  add up to the bound, so that a late request is no extra run (`ThreadInv`). Field: what
  is registered is what was pressed (`FieldTrue`), by the parts of a name that are no
  modifier. The choices of the page need no invariant: what `unique_preserving_order`
  keeps is shown number by number, from the least that would be an exception.
  `StatusComesRight` adds that an uncrossed refresh has been told the truth so far
  (`Telling`).

`ImplementsAtomicObject`, `ReloadIsFresh`, `OkIsEarned`, `PageIsTrue` and the action
properties in `StoreIsAMap` and `SecretIsKept` speak of steps: their proofs show
`IInv /\ [Next]_vars => A` action by action.

### Progress

The theorems about progress have two parts. One says that as long as there is something to
do, one of those who have to do it has a step: the guards are written out (`HostCan`,
`WorkerCan`, `MainCan`, ...). The other has a number, the stages and lines that are left,
and says which steps make it smaller, and what the others may do to it: they leave it,
but for those that begin something new (the start of an icon's thread, while
extensions are left) and a turn of the hotkey thread in which its second is not over.

| Liveness | Theorems | What gets smaller |
|---|---|---|
| `SaveReturns` | `SaveAdvances` | the stages of the thread |
| `OverReturns` | `OverNearsItsEnd` | the lines in both pipes and the ends that are to come, with every step |
| `CallsAreAnswered` | `CallsAreOnTheirWay` | no number: an extension may call without end; no call is lost |
| `ShutdownEnds` | `ShutdownNears` | the stages of the main thread, and what it has still to load |
| `RequestsAreAnswered` | `NobodyIsForgotten` | no number: the queue may grow; no request is lost or doubled |
| `TriggerEnds` | `TriggerNearsItsEnd` | what both sides have to write and to read, with every step |
| `ThreadsSettle` | `StatusComesRight` | the tray's stages before its next refresh |
| | `StopIsNear` | the stages of `run_daemon` and of each icon, and the extensions not yet started, of which there are finitely many |
| | `ReleaseIsNear` | what may come before the thread's next poll |
| `EverybodyIsAnswered` | `ConnectionsGetOn` | the stages before a connection's answer |
| | `OpenNearsItsEnd` | stages, connections and what users may still do, with every step |
| `PageSettles` | `NeverBlankForGood` | the stages of a handler, with those of its requests |

### Left to TLC

- That those who have a step take it: fairness and ENABLED are beyond the proof
  system. So of liveness (`SaveReturns`, `OverReturns`, `CallsAreAnswered`,
  `ShutdownEnds`, `RequestsAreAnswered`, `TriggerEnds`, `ThreadsSettle`,
  `EverybodyIsAnswered`, `PageSettles`) what is under "Progress" is proved and the rest
  is checked, as is the fairness in `ImplementsDaemonLoop`; `Refines` is the safety half
  of the latter.
- That crossed sets of the host store implement anything: `StoreIsAMap` says of them only
  what it conjoins to the refinement, and that is proved.
- The four violations and the table under "Disagreements".

## Not modelled

- What the JSON schema asks of a manifest: data, checked by a library. A load tells
  apart only the outcomes of validation.
- Rendering, icons, logging, wording and layout: output.
- `validate`, `list`, `verify` and `doctor` of the command line only read;
  `generate-main` writes one file nobody else has.
- Host API: `fs.delete`, which no shipped extension calls; `sendKey` and `sendCombo`, which
  do nothing; `normalizeCombo`, pure text; `ui` and `notify`, which only log.
- `sort-downloads` lists a folder and notifies; it changes nothing.
- Installation (but for the registration at login), build and CI.
- Icons of other systems than Windows are a library with callbacks; only their effect
  on the flag is in `DaemonLoop`.
- Of the modelled parts: two temporary files of one name, and those left by a killed
  process; changes within one directory while `DaemonLoop` reads it (`Registry` has
  them); the contents of answers; a line printed by an extension that looks like one of
  the bridge's.

## Plan

Every component that changes state is modelled, as listed under "Modules"; the safety
properties of every run, the safety half of both refinements and the progress behind every
liveness property are proved, as listed under "Proofs".

Open is an abstract specification of crossed runs of the host store: `KeyValueStore`
weakened to what holds there, with its refinement.
