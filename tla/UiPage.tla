------------------------------- MODULE UiPage -------------------------------
(***************************************************************************)
(* The settings page in its window: one thread of JavaScript that runs a   *)
(* handler up to its next await, and the user, who clicks meanwhile.  All  *)
(* handlers share the section that is shown, the settings last loaded and  *)
(* the controls; a handler that comes back finds what the others left.     *)
(*                                                                         *)
(* A save posts every setting of the section: the controls' values, for    *)
(* those without a control the loaded ones, for the rest the defaults; a   *)
(* default is posted as the removal of its key.                            *)
(***************************************************************************)
EXTENDS Naturals, FiniteSets

CONSTANTS
    Extensions,     \* by the keys of their sections, "ext:" and the id
    Applying,       \* those with applyActions
    Values,         \* what settings may be
    Default,        \* the default; an extension is enabled by default
    Unset,          \* no such key, no such control, no such section
    Tasks,          \* handlers that may be under way at once
    MaxClicks, MaxEdits, MaxOthers, MaxFaults   \* bounds of the model

Editable == {"core"} \cup Extensions
Sections == Editable \cup {"commands"}

\* Core settings: a switch for every extension, and all the rest.
Keys(s) == IF s = "core" THEN Extensions \cup {"autoStart"} ELSE {"input"}
AllKeys == Extensions \cup {"autoStart", "input"}

ASSUME UiPageAssumption ==
    /\ Applying \subseteq Extensions /\ Default \in Values
    /\ {"core", "commands"} \cap Extensions = {}
    /\ Unset \notin Values \cup Sections
    /\ Unset \notin [AllKeys -> Values \cup {Unset}]
    /\ MaxClicks \in Nat /\ MaxEdits \in Nat /\ MaxOthers \in Nat /\ MaxFaults \in Nat

VARIABLES
    saved,      \* per section: its settings on disk
    section,    \* currentSection
    known,      \* descriptors: the extensions the page has pages for
    config,     \* currentConfig, and whose it is
    content,    \* the section whose controls are shown, and their values
    saveShown,  \* the save button is not hidden
    generation, \* renderGeneration
    status,     \* the line of text at the bottom
    task,       \* the handlers that wait for an answer
    edited,     \* what the user has changed in the controls shown
    left        \* what the bounds leave

page == <<section, known, config, content, saveShown, generation, status, edited>>
vars == <<saved, page, task, left>>

Nothing == [k \in AllKeys |-> Unset]
Blank == [of |-> Unset, value |-> Nothing]

\* job: what the user clicked; settings: posted or loaded, Unset when a post
\* names none; edits and shown: what the user had changed, and the controls;
\* clean: nobody else has written since they were loaded.  No step looks at
\* these three.
Idle == [job |-> "none", pc |-> "none", section |-> "core", generation |-> 0,
         settings |-> Nothing, ok |-> TRUE, known |-> {},
         edits |-> {}, shown |-> Blank, clean |-> TRUE]

Or(value, default) == IF value = Unset THEN default ELSE value
Enabled(e) == Or(saved["core"][e], Default) = Default

\* What there is of a section on the server: a disabled extension has none.
Served(s) == s = "core" \/ Enabled(s)

Spend(bound) ==
    /\ left[bound] > 0
    /\ left' = [left EXCEPT ![bound] = @ - 1]
-----------------------------------------------------------------------------
(* renderSection up to its await, for the section s.                       *)

Load_PostIncrement(job, s) ==
    [Idle EXCEPT !.job = job, !.pc = "load", !.section = s,
                 !.generation = generation]
Load(job, s) == [Idle EXCEPT !.job = job, !.pc = "load", !.section = s,
                             !.generation = generation + 1]

\* The settings last loaded and the save button stay as they are; only the
\* page of commands hides the button.
Render(t, job, s) ==
    /\ generation' = generation + 1
    /\ content' = IF s = "commands" THEN [Blank EXCEPT !.of = s] ELSE Blank
    /\ saveShown' = (saveShown /\ s # "commands")
    /\ edited' = {}
    /\ task' = [task EXCEPT ![t] = IF s = "commands" THEN Idle ELSE Load(job, s)]
    /\ UNCHANGED config
-----------------------------------------------------------------------------
Init ==
    /\ \E e \in Extensions, v \in Values :
          saved = [s \in Editable |->
                     IF s = "core" THEN [Nothing EXCEPT ![e] = v] ELSE Nothing]
    /\ known = {e \in Extensions : Enabled(e)}
    /\ section \in {"core"} \cup known
    /\ config = Blank /\ content = Blank
    /\ saveShown = TRUE
    /\ generation = 1
    /\ status = ""
    /\ \E t \in Tasks :
          task = [u \in Tasks |-> IF u # t THEN Idle ELSE
            [Idle EXCEPT !.job = "show", !.pc = "load", !.section = section,
                         !.generation = 1]]
    /\ edited = {}
    /\ left = [clicks |-> MaxClicks, edits |-> MaxEdits,
               others |-> MaxOthers, faults |-> MaxFaults]

FreeTask(t) == task[t].pc = "none"

\* A button of the navigation, or "Open settings" on the card of an
\* extension whose switch is on, saved or not.
Navigate(s) ==
    /\ Spend("clicks")
    /\ \/ s \in {"core", "commands"} \cup known
       \/ content.of = "core" /\ s \in Extensions /\ content.value[s] = Default
    /\ \E t \in Tasks :
        /\ FreeTask(t)
        /\ Render(t, "show", s)
    /\ section' = s /\ status' = ""
    /\ UNCHANGED <<saved, known>>

\* Cards of the other tabs are hidden, their controls stay; a tab may have
\* nothing to save.
SwitchTab ==
    /\ content.of \in Extensions /\ Spend("clicks")
    /\ saveShown' = ~saveShown
    /\ UNCHANGED <<saved, task, section, known, config, content, generation, status, edited>>

Edit(k, v) ==
    /\ content.of \in Editable /\ k \in Keys(content.of) /\ Spend("edits")
    /\ content' = [content EXCEPT !.value[k] = v]
    /\ edited' = edited \cup {k}
    /\ UNCHANGED <<saved, task, section, known, config, saveShown, generation, status>>
-----------------------------------------------------------------------------
(* The save handler.                                                       *)

\* collectCurrentPayload: the default means that the key is removed.
Collected(k) == Or(content.value[k], Or(config.value[k], Default))

Payload_SkipsDefaults(s) ==
    [k \in AllKeys |-> IF k \notin Keys(s) THEN Unset
                       ELSE IF Collected(k) = Default THEN saved[s][k] ELSE Collected(k)]
Payload(s) ==
    IF s \in Extensions \ known THEN Unset
    ELSE [k \in AllKeys |-> IF k \notin Keys(s) \/ Collected(k) = Default
                            THEN Unset ELSE Collected(k)]

Save ==
    /\ saveShown /\ section \in Editable /\ Spend("clicks")
    /\ \E t \in Tasks :
        /\ FreeTask(t)
        /\ task' = [task EXCEPT ![t] = [Idle EXCEPT
                !.job = "save", !.pc = "post", !.section = section,
                !.settings = Payload(section), !.edits = edited, !.shown = content,
                !.clean = (config.of = section /\ config.value = saved[section])]]
    /\ UNCHANGED <<saved, page>>

\* "Reload extensions".
Reload ==
    /\ Spend("clicks")
    /\ \E t \in Tasks :
        /\ FreeTask(t)
        /\ task' = [task EXCEPT ![t] = [Idle EXCEPT !.job = "reload", !.pc = "descriptor"]]
    /\ UNCHANGED <<saved, page>>
-----------------------------------------------------------------------------
(* The server, which answers one request at a time.                        *)

Answered(t, pc, ok) == [task EXCEPT ![t].pc = pc, ![t].ok = ok]

ServePost(t) ==
    /\ task[t].pc = "post"
    /\ LET s == task[t].section
       IN  IF Served(s)
           THEN /\ saved' = [saved EXCEPT ![s] = Or(task[t].settings, @)]
                /\ task' = [u \in Tasks |-> IF u = t THEN Answered(t, "posted", TRUE)[t]
                                            ELSE [task[u] EXCEPT !.clean = FALSE]]
           ELSE task' = Answered(t, "posted", FALSE) /\ UNCHANGED saved
    /\ UNCHANGED <<page, left>>

ServeLoad(t) ==
    /\ task[t].pc = "load"
    /\ LET s == task[t].section
       IN  task' = [Answered(t, "loaded", Served(s)) EXCEPT ![t].settings = saved[s]]
    /\ UNCHANGED <<saved, page, left>>

ServeOther(t) ==
    /\ task[t].pc \in {"apply", "descriptor"}
    /\ task' = [Answered(t, IF task[t].pc = "apply" THEN "applied" ELSE "described", TRUE)
                    EXCEPT ![t].known = {e \in Extensions : Enabled(e)}]
    /\ UNCHANGED <<saved, page, left>>

\* A request fails: the daemon is gone or a file cannot be read.
Fails(t) ==
    /\ task[t].pc \in {"post", "load", "apply", "descriptor"} /\ Spend("faults")
    /\ task' = Answered(t, CASE task[t].pc = "post" -> "posted"
                             [] task[t].pc = "load" -> "loaded"
                             [] task[t].pc = "apply" -> "applied"
                             [] OTHER -> "described", FALSE)
    /\ UNCHANGED <<saved, page>>

\* The tray, another page or an editor saves.
OtherSaves(s, k, v) ==
    /\ k \in Keys(s) /\ Spend("others")
    /\ saved' = [saved EXCEPT ![s][k] = v]
    /\ task' = [t \in Tasks |-> [task[t] EXCEPT !.clean = FALSE]]
    /\ UNCHANGED page
-----------------------------------------------------------------------------
(* The handlers come back.                                                 *)

\* An error of any stage ends the handler with its message.
Thrown(t) ==
    /\ status' = CASE task[t].job = "show" -> "load failed"
                   [] task[t].job = "save" -> "save failed"
                   [] OTHER -> "reload failed"
    /\ task' = [task EXCEPT ![t] = Idle]
    /\ UNCHANGED <<section, known, content, saveShown, generation, edited>>

\* What a handler says when it is done.
Said(t) == CASE task[t].job = "show" -> status
             [] task[t].job = "save" -> "saved"
             [] OTHER -> "reloaded"

\* After the post the handler goes by the section that is shown by now.
Posted(t) ==
    /\ task[t].pc = "posted"
    /\ IF ~task[t].ok THEN Thrown(t) /\ UNCHANGED config
       ELSE IF task[t].section \in Applying /\ task[t].settings # Unset
       THEN task' = [task EXCEPT ![t].pc = "apply"] /\ UNCHANGED page
       ELSE IF section = "core"
       THEN task' = [task EXCEPT ![t].pc = "descriptor"] /\ UNCHANGED page
       ELSE /\ Render(t, "save", section)
            /\ status' = IF section = "commands" THEN "saved" ELSE ""
            /\ UNCHANGED <<section, known>>
    /\ UNCHANGED <<saved, left>>

Applied(t) ==
    /\ task[t].pc = "applied"
    /\ IF ~task[t].ok THEN Thrown(t) /\ UNCHANGED config
       ELSE /\ Render(t, "save", section)
            /\ status' = IF section = "commands" THEN "saved" ELSE ""
            /\ UNCHANGED <<section, known>>
    /\ UNCHANGED <<saved, left>>

\* replaceDescriptorModel: the page leaves a section that is gone.
Described(t) ==
    /\ task[t].pc = "described"
    /\ IF ~task[t].ok THEN Thrown(t) /\ UNCHANGED config
       ELSE LET next == IF section \in Extensions \ task[t].known THEN "core" ELSE section
            IN  /\ known' = task[t].known
                /\ section' = next
                /\ Render(t, task[t].job, next)
                /\ status' = IF next = "commands" THEN Said(t) ELSE ""
    /\ UNCHANGED <<saved, left>>

\* createInput: a setting that is not saved shows its default.
Controls_NoDefaults(s, settings) ==
    [k \in AllKeys |-> IF k \in Keys(s) THEN settings[k] ELSE Unset]
Controls(s, settings) ==
    [k \in AllKeys |-> IF k \in Keys(s) THEN Or(settings[k], Default) ELSE Unset]

\* renderSection after its await: a load that is not the latest, or not of
\* the section shown by now, is dropped; its handler goes on as if it was
\* done.  The page may not know the extension (any more).
Current(t) == task[t].generation = generation /\ task[t].section = section

Loaded(t) ==
    LET s == task[t].section
        loaded == [of |-> s, value |-> task[t].settings]
    IN  /\ task[t].pc = "loaded"
        /\ IF ~task[t].ok THEN Thrown(t) /\ UNCHANGED config
           ELSE IF ~Current(t)
           THEN /\ status' = Said(t) /\ task' = [task EXCEPT ![t] = Idle]
                /\ UNCHANGED <<section, known, config, content, saveShown, generation, edited>>
           ELSE IF s \in Extensions \ known
           THEN config' = loaded /\ Thrown(t)
           ELSE /\ status' = Said(t) /\ task' = [task EXCEPT ![t] = Idle]
                /\ config' = loaded
                /\ content' = [of |-> s, value |-> Controls(s, task[t].settings)]
                /\ saveShown' \in (IF s = "core" THEN {TRUE} ELSE BOOLEAN)
                /\ edited' = {}
                /\ UNCHANGED <<section, known, generation>>
        /\ UNCHANGED <<saved, left>>
-----------------------------------------------------------------------------
Resume(t) == Posted(t) \/ Applied(t) \/ Described(t) \/ Loaded(t)
Serve(t) == ServePost(t) \/ ServeLoad(t) \/ ServeOther(t)

Next ==
    \/ \E s \in Sections : Navigate(s)
    \/ \E k \in AllKeys, v \in Values : Edit(k, v)
    \/ SwitchTab \/ Save \/ Reload
    \/ \E t \in Tasks : Serve(t) \/ Fails(t) \/ Resume(t)
    \/ \E s \in Editable, k \in AllKeys, v \in Values \cup {Unset} : OtherSaves(s, k, v)

Spec == Init /\ [][Next]_vars

\* A request is answered or fails, and the page runs what is ready.
FairSpec == Spec /\ \A t \in Tasks : WF_vars(Serve(t)) /\ WF_vars(Resume(t))
-----------------------------------------------------------------------------
TypeOK ==
    /\ saved \in [Editable -> [AllKeys -> Values \cup {Unset}]]
    /\ section \in Sections /\ known \subseteq Extensions
    /\ config.value \in [AllKeys -> Values \cup {Unset}]
    /\ content.of \in Sections \cup {Unset}
    /\ \A k \in AllKeys :
        (content.of \in Editable /\ k \in Keys(content.of)) <=> content.value[k] \in Values
    /\ saveShown \in BOOLEAN /\ generation \in Nat
    /\ \A t \in Tasks : task[t].pc = "loaded" => task[t].section \in Editable

\* Whatever was clicked while answers were under way, the controls on the
\* page are those of the section it names, with the settings of that
\* section behind them: a save cannot post one section's settings to
\* another one from controls that are there.
ContentIsCurrent ==
    content.of # Unset =>
        /\ content.of = section
        /\ section \in Editable => config.of = section

\* What a setting is when the files are these.
Means(files, s, k) == Or(files[s][k], Default)

SavesWhatItShows(t) ==
    LET s == task[t].section
    IN  (/\ task[t].pc = "post" /\ task'[t].pc = "posted" /\ task'[t].ok
         /\ task[t].shown.of = s)
        => \A k \in Keys(s) :
             /\ Means(saved', s, k) = task[t].shown.value[k]
             /\ Means(saved', s, k) # Means(saved, s, k) =>
                    k \in task[t].edits \/ ~task[t].clean

\* A save from controls that are there makes every setting mean what its
\* control showed, defaults included; and as long as nobody else has written
\* since they were loaded, it changes no setting the user did not touch.
SaveIsWhatIsShown == [][\A t \in Tasks : SavesWhatItShows(t)]_vars

\* Both: what is shown is the section's, and what is saved is what is shown.
PageIsTrue == []ContentIsCurrent /\ SaveIsWhatIsShown

\* The page comes to rest with the controls of its section or with a
\* message, never blank and silent.
PageSettles == <>[](content.of = section \/ status # "")

\* The document on the settings page: "Core settings also include
\* per-extension enable/disable toggles".  An extension that is disabled
\* stays so until its switch is used.
DisabledStays ==
    [][\A t \in Tasks, e \in Extensions :
        (task[t].pc = "post" /\ task'[t].pc = "posted" /\ ~Enabled(e))
            => (~Enabled(e)' \/ e \in task[t].edits)]_vars

\* The same document: the renderer "highlights unsaved changes at the
\* field/card level and upgrades the save button state while edits are
\* pending".  When a save redraws the page, the edits it takes away are
\* those it has posted.
EditsStay ==
    [][\A t \in Tasks :
        (task[t].job = "save" /\ Resume(t) /\ content' # content)
            => edited = {} \/ content = task[t].shown]_vars
=============================================================================
