---------------------------- MODULE UiPageProofs ----------------------------
(***************************************************************************)
(* Proofs about UiPage: its types, and that the page is true: the controls *)
(* are those of the section it names, and a save from controls makes every *)
(* setting mean what its control showed, and changes nothing else.         *)
(***************************************************************************)
EXTENDS UiPage, TLAPS

Settings == [AllKeys -> Values \cup {Unset}]
Jobs == {"none", "show", "save", "reload"}
Stages == {"none", "load", "loaded", "post", "posted", "apply", "applied",
           "descriptor", "described"}
Shown == [of : Sections \cup {Unset}, value : Settings]
Handler == [job : Jobs, pc : Stages, section : Sections, generation : Nat,
            settings : Settings \cup {Unset}, ok : BOOLEAN, known : SUBSET Extensions,
            edits : SUBSET AllKeys, shown : Shown, clean : BOOLEAN]
-----------------------------------------------------------------------------
(* The values of the variables.                                            *)

Shape ==
    /\ saved \in [Editable -> Settings]
    /\ section \in Sections /\ known \in SUBSET Extensions
    /\ config \in Shown /\ content \in Shown
    /\ saveShown \in BOOLEAN /\ generation \in Nat
    /\ task \in [Tasks -> Handler]
    /\ edited \in SUBSET AllKeys

\* Only a section that can be edited is loaded or posted, and what was loaded
\* are settings.
Stage(h) ==
    /\ h.pc \in {"load", "loaded", "post", "posted"} => h.section \in Editable
    /\ h.pc \in {"load", "loaded"} => h.settings \in Settings

\* Controls show values: each key of the section has one, and no other.
Controlled(c) ==
    \A k \in AllKeys : (c.of \in Editable /\ k \in Keys(c.of)) <=> c.value[k] \in Values

\* The sections the page can show: those of the extensions it knows.
ShownIsKnown == content.of \in Extensions => content.of \in known

\* A control that the user has not touched shows what was loaded.
Untouched ==
    content.of \in Editable =>
        \A k \in Keys(content.of) \ edited : content.value[k] = Or(config.value[k], Default)

\* What a save carries: the values of its controls, and, if nobody has written
\* since, for those the user has not touched what is saved.
Carries(h, files) ==
    (h.pc = "post" /\ h.shown.of = h.section) =>
        /\ h.settings \in Settings
        /\ \A k \in Keys(h.section) :
            /\ Or(h.settings[k], Default) = h.shown.value[k]
            /\ k \notin h.edits /\ h.clean => Or(files[h.section][k], Default) = h.shown.value[k]

Handlers == \A t \in Tasks : Stage(task[t]) /\ Carries(task[t], saved)

PageInv == Controlled(content) /\ ContentIsCurrent /\ ShownIsKnown /\ Untouched

IInv == Shape /\ Handlers /\ PageInv
-----------------------------------------------------------------------------
(* Records the actions start from.                                         *)

\* Settings, sections and controls of nothing.
LEMMA Blanks ==
    /\ Nothing \in Settings /\ Blank \in Shown /\ Idle \in Handler
    /\ [Blank EXCEPT !.of = "commands"] \in Shown
  <1>1. Nothing \in Settings
    BY DEF Nothing, Settings
  <1>2. Blank \in Shown /\ [Blank EXCEPT !.of = "commands"] \in Shown
    BY <1>1 DEF Blank, Shown, Sections
  <1>3. Idle \in Handler
    BY <1>1, <1>2 DEF Idle, Handler, Jobs, Stages, Sections, Editable
  <1> QED
    BY <1>1, <1>2, <1>3

\* The marks are none of the values.
LEMMA Marks ==
    /\ Unset \notin Values /\ Unset \notin Sections /\ Unset \notin Settings
    /\ Default \in Values /\ Applying \subseteq Extensions
    /\ "commands" \notin Editable /\ Editable \subseteq Sections
    /\ "core" \notin Extensions
  BY UiPageAssumption DEF Settings, Editable, Sections

\* The keys of a section.
LEMMA KeysOf ==
    ASSUME NEW s
    PROVE  Keys(s) \subseteq AllKeys
  BY DEF Keys, AllKeys

\* A load that is begun is a handler with settings to come.
LEMMA LoadHandler ==
    ASSUME generation \in Nat, NEW job \in Jobs, NEW s \in Editable
    PROVE  /\ Load(job, s) \in Handler /\ Load(job, s).pc = "load"
           /\ Load(job, s).section = s /\ Load(job, s).settings = Nothing
  <1>1. s \in Sections /\ generation + 1 \in Nat
    BY DEF Sections
  <1> QED
    BY <1>1, Blanks DEF Load, Handler, Stages, Idle

\* One handler goes on, and nothing is written.
LEMMA OneHandler ==
    ASSUME Handlers, NEW t \in Tasks, UNCHANGED saved,
           \A u \in Tasks \ {t} : task'[u] = task[u],
           Stage(task'[t]), task'[t].pc # "post"
    PROVE  Handlers'
  <1>1. Carries(task'[t], saved')
    BY DEF Carries
  <1>2. ASSUME NEW u \in Tasks
        PROVE  Stage(task'[u]) /\ Carries(task'[u], saved')
    <2>1. CASE u = t
      BY <1>1, <2>1
    <2>2. CASE u # t
      BY <2>2 DEF Handlers
    <2> QED
      BY <2>1, <2>2
  <1> QED
    BY <1>2 DEF Handlers

\* The server answers a handler.
LEMMA AnsweredIs ==
    ASSUME Shape, NEW t \in Tasks, NEW pc \in Stages, NEW ok \in BOOLEAN
    PROVE  /\ Answered(t, pc, ok) \in [Tasks -> Handler]
           /\ \A u \in Tasks \ {t} : Answered(t, pc, ok)[u] = task[u]
           /\ Answered(t, pc, ok)[t].pc = pc
           /\ Answered(t, pc, ok)[t].ok <=> ok
           /\ Answered(t, pc, ok)[t].section = task[t].section
           /\ Answered(t, pc, ok)[t].settings = task[t].settings
  <1>1. [task EXCEPT ![t].pc = pc] \in [Tasks -> Handler]
    BY DEF Shape, Handler
  <1>2. ASSUME NEW tasks \in [Tasks -> Handler]
        PROVE  [tasks EXCEPT ![t].ok = ok] \in [Tasks -> Handler]
    BY DEF Handler
  <1>3. Answered(t, pc, ok) \in [Tasks -> Handler]
    BY <1>1, <1>2 DEF Answered
  <1> QED
    BY <1>3 DEF Answered, Shape, Handler

\* The page is drawn anew: whatever was on it is gone.
LEMMA Renders ==
    ASSUME Shape, Handlers, NEW t \in Tasks, NEW job \in Jobs, NEW s \in Sections,
           Render(t, job, s), UNCHANGED saved, section' = s, known' \in SUBSET Extensions
    PROVE  IInv'
  <1>1. generation' \in Nat /\ edited' \in SUBSET AllKeys /\ saveShown' \in BOOLEAN
    BY DEF Render, Shape
  <1>2. content' \in Shown /\ (content'.of # Unset => content'.of = "commands" /\ s = "commands")
        /\ content'.value = Nothing
    <2>1. CASE s = "commands"
      BY <2>1, Blanks DEF Render, Blank
    <2>2. CASE s # "commands"
      BY <2>2, Blanks DEF Render, Blank
    <2> QED
      BY <2>1, <2>2
  <1>3. PICK h \in Handler : task' = [task EXCEPT ![t] = h] /\ Stage(h) /\ h.pc # "post"
    <2>1. CASE s = "commands"
      BY <2>1, Blanks DEF Render, Stage, Idle
    <2>2. CASE s # "commands"
      <3>1. s \in Editable
        BY <2>2 DEF Sections
      <3>2. Load(job, s) \in Handler /\ Stage(Load(job, s)) /\ Load(job, s).pc # "post"
        BY <3>1, LoadHandler, Blanks DEF Stage, Shape
      <3>3. task' = [task EXCEPT ![t] = Load(job, s)]
        BY <2>2 DEF Render
      <3> QED
        BY <3>2, <3>3
    <2> QED
      BY <2>1, <2>2
  <1>4. task' \in [Tasks -> Handler]
    BY <1>3 DEF Shape
  <1>5. Shape'
    BY <1>1, <1>2, <1>4 DEF Shape, Render
  <1>6. Handlers'
    BY <1>3, OneHandler DEF Shape
  <1>7. Controlled(content)'
    BY <1>2, Marks DEF Controlled, Nothing, Editable, Sections
  <1>8. ContentIsCurrent'
    BY <1>2, Marks DEF ContentIsCurrent
  <1>9. ShownIsKnown' /\ Untouched'
    BY <1>2, Marks DEF ShownIsKnown, Untouched, Editable, Sections
  <1> QED
    BY <1>5, <1>6, <1>7, <1>8, <1>9 DEF IInv, PageInv

\* A handler ends with its message.
LEMMA Throws ==
    ASSUME IInv, NEW t \in Tasks, Thrown(t), UNCHANGED saved
    PROVE  /\ task' \in [Tasks -> Handler] /\ Handlers'
           /\ UNCHANGED <<section, known, content, saveShown, generation, edited>>
  <1>1. task' = [task EXCEPT ![t] = Idle]
    BY DEF Thrown
  <1>2. task' \in [Tasks -> Handler]
    BY <1>1, Blanks DEF IInv, Shape
  <1>3. Stage(task'[t]) /\ task'[t].pc # "post"
    BY <1>1 DEF IInv, Shape, Stage, Idle
  <1>4. Handlers'
    BY <1>1, <1>3, OneHandler DEF IInv, Shape
  <1> QED
    BY <1>2, <1>4 DEF Thrown

\* A step that only handlers and messages notice.
LEMMA PageStays ==
    ASSUME IInv, task' \in [Tasks -> Handler], Handlers', saved' \in [Editable -> Settings],
           UNCHANGED <<section, known, config, content, generation, edited>>,
           saveShown' \in BOOLEAN
    PROVE  IInv'
  BY DEF IInv, Shape, PageInv, Controlled, ContentIsCurrent, ShownIsKnown, Untouched
-----------------------------------------------------------------------------
(* The steps, one by one.                                                  *)

\* The page before its first answer.
LEMMA InitIInv == Init => IInv
  <1> SUFFICES ASSUME Init
               PROVE  IInv
    OBVIOUS
  <1>1. saved \in [Editable -> Settings]
    <2>1. PICK e \in Extensions, v \in Values :
              saved = [s \in Editable |->
                        IF s = "core" THEN [Nothing EXCEPT ![e] = v] ELSE Nothing]
      BY DEF Init
    <2>2. [Nothing EXCEPT ![e] = v] \in Settings
      BY Blanks DEF Settings
    <2> QED
      BY <2>1, <2>2, Blanks
  <1>2. section \in Editable /\ known \in SUBSET Extensions
    BY DEF Init, Editable
  <1>3. PICK t \in Tasks : task = [u \in Tasks |-> IF u # t THEN Idle ELSE
            [Idle EXCEPT !.job = "show", !.pc = "load", !.section = section,
                         !.generation = 1]]
    BY DEF Init
  <1>4. [Idle EXCEPT !.job = "show", !.pc = "load", !.section = section, !.generation = 1]
            \in Handler
    <2>1. section \in Sections
      BY <1>2, Marks
    <2> QED
      BY <2>1, Blanks DEF Handler, Jobs, Stages
  <1>5. task \in [Tasks -> Handler]
    BY <1>3, <1>4, Blanks
  <1>6. Shape
    BY <1>1, <1>2, <1>5, Blanks, Marks DEF Init, Shape
  <1>7. ASSUME NEW u \in Tasks
        PROVE  Stage(task[u]) /\ task[u].pc # "post"
    <2>1. CASE u = t
      BY <1>2, <1>3, <2>1, Blanks DEF Stage, Idle
    <2>2. CASE u # t
      BY <1>3, <2>2 DEF Stage, Idle
    <2> QED
      BY <2>1, <2>2
  <1>8. Handlers
    BY <1>7 DEF Handlers, Carries
  <1>9. PageInv
    BY Marks DEF Init, PageInv, Controlled, ContentIsCurrent, ShownIsKnown, Untouched,
       Blank, Nothing,
       Editable, Sections
  <1> QED
    BY <1>6, <1>8, <1>9 DEF IInv

\* A click in the navigation draws the page anew.
LEMMA NavigateStep ==
    ASSUME IInv, NEW s \in Sections, Navigate(s)
    PROVE  IInv'
  <1>1. PICK t \in Tasks : Render(t, "show", s)
    BY DEF Navigate
  <1> QED
    BY <1>1, Renders DEF Navigate, IInv, Shape, Jobs

\* Another tab has its own need of the save button.
LEMMA SwitchTabStep ==
    ASSUME IInv, SwitchTab
    PROVE  IInv'
  BY PageStays DEF SwitchTab, IInv, Shape, Handlers

\* The user uses a control: it shows another value, and counts as touched.
LEMMA EditStep ==
    ASSUME IInv, NEW k \in AllKeys, NEW v \in Values, Edit(k, v)
    PROVE  IInv'
  <1>1. content.of \in Editable /\ k \in Keys(content.of)
    BY DEF Edit
  <1>2. /\ content' \in Shown /\ content'.of = content.of
        /\ \A j \in AllKeys : /\ j = k => content'.value[j] = v
                              /\ j # k => content'.value[j] = content.value[j]
    BY DEF Edit, IInv, Shape, Shown, Settings
  <1>3. edited' = edited \cup {k} /\ UNCHANGED <<saved, task, section, known, config, saveShown, generation>>
    BY DEF Edit
  <1>4. Shape'
    BY <1>2, <1>3 DEF IInv, Shape
  <1>5. Handlers'
    BY <1>3 DEF IInv, Handlers
  <1>6. Controlled(content)'
    BY <1>1, <1>2 DEF IInv, PageInv, Controlled
  <1>7. ContentIsCurrent' /\ ShownIsKnown'
    BY <1>2, <1>3 DEF IInv, PageInv, ContentIsCurrent, ShownIsKnown
  <1>8. Untouched'
    BY <1>2, <1>3, KeysOf DEF IInv, PageInv, Untouched
  <1> QED
    BY <1>4, <1>5, <1>6, <1>7, <1>8 DEF IInv, PageInv

\* What a save of controls that are there posts.
LEMMA PayloadCarries ==
    ASSUME IInv, section \in Editable, content.of = section
    PROVE  /\ Payload(section) \in Settings
           /\ \A k \in Keys(section) :
                /\ Or(Payload(section)[k], Default) = content.value[k]
                /\ (k \notin edited /\ config.of = section /\ config.value = saved[section]) =>
                      Or(saved[section][k], Default) = content.value[k]
  <1>1. section \notin Extensions \ known
    BY DEF IInv, PageInv, ShownIsKnown
  <1>2. Payload(section) = [k \in AllKeys |->
            IF k \notin Keys(section) \/ Collected(k) = Default THEN Unset ELSE Collected(k)]
    BY <1>1 DEF Payload
  <1>3. ASSUME NEW k \in Keys(section)
        PROVE  content.value[k] \in Values /\ Collected(k) = content.value[k]
    BY KeysOf, Marks DEF IInv, PageInv, Controlled, Collected, Or
  <1>4. Payload(section) \in Settings
    BY <1>2, <1>3 DEF Settings
  <1>5. ASSUME NEW k \in Keys(section)
        PROVE  Or(Payload(section)[k], Default) = content.value[k]
    <2>1. k \in AllKeys
      BY KeysOf
    <2>2. Payload(section)[k] = IF Collected(k) = Default THEN Unset ELSE Collected(k)
      BY <1>2, <2>1
    <2> QED
      BY <1>3, <2>2, Marks DEF Or
  <1>6. ASSUME NEW k \in Keys(section), k \notin edited, config.value = saved[section]
        PROVE  Or(saved[section][k], Default) = content.value[k]
    BY <1>6 DEF IInv, PageInv, Untouched
  <1> QED
    BY <1>4, <1>5, <1>6

\* A save starts with what the controls show.
LEMMA SaveStep ==
    ASSUME IInv, Save
    PROVE  IInv'
  <1>1. PICK t \in Tasks : task' = [task EXCEPT ![t] = [Idle EXCEPT
                !.job = "save", !.pc = "post", !.section = section,
                !.settings = Payload(section), !.edits = edited, !.shown = content,
                !.clean = (config.of = section /\ config.value = saved[section])]]
    BY DEF Save
  <1>2. section \in Editable /\ UNCHANGED <<saved, page>>
    BY DEF Save
  <1>3. Payload(section) \in Settings \cup {Unset}
    <2>1. \A k \in AllKeys : Collected(k) \in Values \cup {Unset}
      BY Marks DEF Collected, Or, IInv, Shape, Shown, Settings
    <2> QED
      BY <2>1 DEF Payload, Settings
  <1> DEFINE clean == config.of = section /\ config.value = saved[section]
             h == [Idle EXCEPT
                !.job = "save", !.pc = "post", !.section = section,
                !.settings = Payload(section), !.edits = edited, !.shown = content,
                !.clean = clean]
  <1>4. /\ h \in Handler /\ h.pc = "post" /\ h.section = section /\ h.settings = Payload(section)
        /\ h.edits = edited /\ h.shown = content
        /\ h.clean <=> clean
    <2>1. /\ section \in Sections /\ edited \in SUBSET AllKeys /\ content \in Shown
          /\ clean \in BOOLEAN
      BY DEF IInv, Shape
    <2> HIDE DEF clean
    <2> QED
      BY <1>3, <2>1, Blanks DEF Handler, Jobs, Stages
  <1>5. Stage(h)
    BY <1>2, <1>4 DEF Stage
  <1>6. Carries(h, saved)
    <2>1. SUFFICES ASSUME content.of = section
                   PROVE  Carries(h, saved)
      BY <1>4 DEF Carries
    <2>2. /\ Payload(section) \in Settings
          /\ \A k \in Keys(section) :
                /\ Or(Payload(section)[k], Default) = content.value[k]
                /\ (k \notin edited /\ config.of = section /\ config.value = saved[section]) =>
                      Or(saved[section][k], Default) = content.value[k]
      BY <1>2, <2>1, PayloadCarries
    <2> HIDE DEF h
    <2> QED
      BY <1>4, <2>2 DEF Carries
  <1>7. task' = [task EXCEPT ![t] = h]
    BY <1>1
  <1> HIDE DEF h
  <1>8. task' \in [Tasks -> Handler]
    BY <1>4, <1>7 DEF IInv, Shape
  <1>9. Handlers'
    <2>1. ASSUME NEW u \in Tasks
          PROVE  Stage(task'[u]) /\ Carries(task'[u], saved')
      BY <1>2, <1>5, <1>6, <1>7 DEF IInv, Shape, Handlers
    <2> QED
      BY <2>1 DEF Handlers
  <1> QED
    BY <1>2, <1>8, <1>9, PageStays DEF page, IInv, Shape

\* The extensions are to be read again.
LEMMA ReloadStep ==
    ASSUME IInv, Reload
    PROVE  IInv'
  <1>1. PICK t \in Tasks :
            task' = [task EXCEPT ![t] = [Idle EXCEPT !.job = "reload", !.pc = "descriptor"]]
    BY DEF Reload
  <1>2. [Idle EXCEPT !.job = "reload", !.pc = "descriptor"] \in Handler
    BY Blanks DEF Handler, Jobs, Stages
  <1>3. task' \in [Tasks -> Handler]
    BY <1>1, <1>2 DEF IInv, Shape
  <1>4. task'[t].pc = "descriptor"
    BY <1>1, Blanks DEF IInv, Shape, Idle
  <1>5. Handlers'
    BY <1>1, <1>4, OneHandler DEF Reload, IInv, Shape, Stage
  <1> QED
    BY <1>3, <1>5, PageStays DEF Reload, page, IInv, Shape

\* Somebody has written: the save is of controls that may be out of date.
LEMMA Unclean ==
    ASSUME NEW h \in Handler, NEW g, g = [h EXCEPT !.clean = FALSE],
           NEW before, NEW after, Stage(h), Carries(h, before)
    PROVE  g \in Handler /\ Stage(g) /\ Carries(g, after)
  <1>1. /\ g \in Handler /\ g.pc = h.pc /\ g.section = h.section /\ g.settings = h.settings
        /\ g.edits = h.edits /\ g.shown = h.shown
        /\ ~g.clean
    BY DEF Handler
  <1>2. Stage(g)
    BY <1>1 DEF Stage
  <1>3. Carries(g, after)
    BY <1>1 DEF Carries
  <1> QED
    BY <1>1, <1>2, <1>3

\* The server answers a handler and writes nothing; the page is as it was.
LEMMA Answers ==
    ASSUME IInv, NEW t \in Tasks, NEW pc \in Stages \ {"load", "post"},
           task' \in [Tasks -> Handler], \A u \in Tasks \ {t} : task'[u] = task[u],
           task'[t].pc = pc, task'[t].section = task[t].section,
           pc \in {"loaded", "posted"} => task[t].pc \in {"load", "post"},
           pc = "loaded" => task'[t].settings \in Settings,
           UNCHANGED <<saved, page>>
    PROVE  IInv'
  <1>1. Stage(task'[t]) /\ task'[t].pc # "post"
    BY DEF Stage, IInv, Handlers
  <1>2. Handlers'
    BY <1>1, OneHandler DEF IInv
  <1> QED
    BY <1>2, PageStays DEF IInv, Shape, page

\* A post is written, to the section's file and no other.
LEMMA ServePostStep ==
    ASSUME IInv, NEW t \in Tasks, ServePost(t)
    PROVE  IInv'
  <1> DEFINE s == task[t].section
  <1>1. s \in Editable /\ task[t].settings \in Settings \cup {Unset} /\ task[t].pc = "post"
    BY DEF ServePost, IInv, Shape, Handlers, Stage, Handler
  <1>2. ASSUME NEW ok \in BOOLEAN
        PROVE  /\ Answered(t, "posted", ok) \in [Tasks -> Handler]
               /\ \A u \in Tasks \ {t} : Answered(t, "posted", ok)[u] = task[u]
               /\ Answered(t, "posted", ok)[t].pc = "posted"
               /\ Answered(t, "posted", ok)[t].section = s
    BY AnsweredIs DEF Stages, IInv
  <1>3. UNCHANGED page
    BY DEF ServePost
  <1>4. CASE ~Served(s)
    <2>1. task' = Answered(t, "posted", FALSE) /\ UNCHANGED saved
      BY <1>4 DEF ServePost
    <2> QED
      BY <1>1, <1>2, <1>3, <2>1, Answers DEF Stages
  <1>5. CASE Served(s)
    <2>1. /\ saved' = [saved EXCEPT ![s] = Or(task[t].settings, @)]
          /\ task' = [u \in Tasks |-> IF u = t THEN Answered(t, "posted", TRUE)[t]
                                      ELSE [task[u] EXCEPT !.clean = FALSE]]
      BY <1>5 DEF ServePost
    <2>2. saved' \in [Editable -> Settings]
      BY <1>1, <2>1 DEF Or, IInv, Shape
    <2>3. ASSUME NEW u \in Tasks
          PROVE  task'[u] \in Handler /\ Stage(task'[u]) /\ Carries(task'[u], saved')
      <3>1. CASE u = t
        <4>1. task'[u] = Answered(t, "posted", TRUE)[t]
          BY <2>1, <3>1
        <4>2. Stage(task'[u]) /\ Carries(task'[u], saved')
          BY <1>1, <1>2, <4>1 DEF Stage, Carries
        <4> QED
          BY <1>2, <4>1, <4>2
      <3>2. CASE u # t
        <4>1. task'[u] = [task[u] EXCEPT !.clean = FALSE]
          BY <2>1, <3>2
        <4> QED
          BY <4>1, Unclean DEF IInv, Shape, Handlers
      <3> QED
        BY <3>1, <3>2
    <2>4. task' \in [Tasks -> Handler]
      <3>1. DOMAIN task' = Tasks /\ task' = [u \in Tasks |-> task'[u]]
        BY <2>1
      <3> QED
        BY <2>3, <3>1
    <2>5. Handlers'
      BY <2>3 DEF Handlers
    <2> QED
      BY <1>3, <2>2, <2>4, <2>5, PageStays DEF page, IInv, Shape
  <1> QED
    BY <1>4, <1>5

\* A load is answered with what is saved.
LEMMA ServeLoadStep ==
    ASSUME IInv, NEW t \in Tasks, ServeLoad(t)
    PROVE  IInv'
  <1> DEFINE s == task[t].section
             answered == Answered(t, "loaded", Served(s))
  <1>1. s \in Editable /\ task[t].pc = "load" /\ saved[s] \in Settings
    BY DEF ServeLoad, IInv, Shape, Handlers, Stage
  <1>2. Served(s) \in BOOLEAN
    BY DEF Served, Enabled
  <1>3. /\ answered \in [Tasks -> Handler]
        /\ \A u \in Tasks \ {t} : answered[u] = task[u]
        /\ answered[t].pc = "loaded" /\ answered[t].section = s
    BY <1>2, AnsweredIs DEF Stages, IInv
  <1>4. task' = [answered EXCEPT ![t].settings = saved[s]] /\ UNCHANGED <<saved, page>>
    BY DEF ServeLoad
  <1> HIDE DEF answered
  <1>5. /\ task' \in [Tasks -> Handler]
        /\ \A u \in Tasks \ {t} : task'[u] = answered[u]
        /\ task'[t].pc = answered[t].pc /\ task'[t].section = answered[t].section
        /\ task'[t].settings = saved[s]
    BY <1>1, <1>3, <1>4 DEF Handler
  <1> QED
    BY <1>1, <1>3, <1>4, <1>5, Answers DEF Stages

\* A run of applyActions and a new list of extensions are answered.
LEMMA ServeOtherStep ==
    ASSUME IInv, NEW t \in Tasks, ServeOther(t)
    PROVE  IInv'
  <1> DEFINE pc == IF task[t].pc = "apply" THEN "applied" ELSE "described"
             answered == Answered(t, pc, TRUE)
  <1>1. pc \in Stages \ {"load", "post", "loaded", "posted"}
    BY DEF Stages
  <1>2. /\ answered \in [Tasks -> Handler]
        /\ \A u \in Tasks \ {t} : answered[u] = task[u]
        /\ answered[t].pc = pc /\ answered[t].section = task[t].section
    BY <1>1, AnsweredIs DEF IInv
  <1>3. task' = [answered EXCEPT ![t].known = {e \in Extensions : Enabled(e)}]
        /\ UNCHANGED <<saved, page>>
    BY DEF ServeOther
  <1> HIDE DEF answered, pc
  <1>4. /\ task' \in [Tasks -> Handler]
        /\ \A u \in Tasks \ {t} : task'[u] = answered[u]
        /\ task'[t].pc = answered[t].pc /\ task'[t].section = answered[t].section
    <2>1. {e \in Extensions : Enabled(e)} \in SUBSET Extensions
      OBVIOUS
    <2> QED
      BY <1>2, <1>3, <2>1 DEF Handler
  <1> QED
    BY <1>1, <1>2, <1>3, <1>4, Answers

\* A request fails.
LEMMA FailsStep ==
    ASSUME IInv, NEW t \in Tasks, Fails(t)
    PROVE  IInv'
  <1> DEFINE pc == CASE task[t].pc = "post" -> "posted"
                     [] task[t].pc = "load" -> "loaded"
                     [] task[t].pc = "apply" -> "applied"
                     [] OTHER -> "described"
  <1>1. /\ pc \in Stages \ {"load", "post"}
        /\ pc \in {"loaded", "posted"} => task[t].pc \in {"load", "post"}
        /\ pc = "loaded" => task[t].settings \in Settings
    BY DEF Stages, IInv, Handlers, Stage
  <1>2. task' = Answered(t, pc, FALSE) /\ UNCHANGED <<saved, page>>
    BY DEF Fails
  <1> HIDE DEF pc
  <1>3. /\ task' \in [Tasks -> Handler]
        /\ \A u \in Tasks \ {t} : task'[u] = task[u]
        /\ task'[t].pc = pc /\ task'[t].section = task[t].section
        /\ task'[t].settings = task[t].settings
    <2>1. Shape /\ pc \in Stages
      BY <1>1 DEF IInv
    <2>2. ASSUME NEW ok \in BOOLEAN
          PROVE  /\ Answered(t, pc, ok) \in [Tasks -> Handler]
                 /\ \A u \in Tasks \ {t} : Answered(t, pc, ok)[u] = task[u]
                 /\ Answered(t, pc, ok)[t].pc = pc
                 /\ Answered(t, pc, ok)[t].section = task[t].section
                 /\ Answered(t, pc, ok)[t].settings = task[t].settings
      BY <2>1, AnsweredIs
    <2> QED
      BY <1>2, <2>2
  <1> QED
    BY <1>1, <1>2, <1>3, Answers

\* Somebody else writes a setting.
LEMMA OtherSavesStep ==
    ASSUME IInv, NEW s \in Editable, NEW k \in AllKeys, NEW v \in Values \cup {Unset},
           OtherSaves(s, k, v)
    PROVE  IInv'
  <1>1. /\ saved' = [saved EXCEPT ![s][k] = v] /\ UNCHANGED page
        /\ task' = [t \in Tasks |-> [task[t] EXCEPT !.clean = FALSE]]
    BY DEF OtherSaves
  <1>2. saved' \in [Editable -> Settings]
    BY <1>1 DEF IInv, Shape, Settings
  <1>3. ASSUME NEW u \in Tasks
        PROVE  task'[u] \in Handler /\ Stage(task'[u]) /\ Carries(task'[u], saved')
    <2>1. task'[u] = [task[u] EXCEPT !.clean = FALSE]
      BY <1>1
    <2> QED
      BY <2>1, Unclean DEF IInv, Shape, Handlers
  <1>4. task' \in [Tasks -> Handler]
    <2>1. task' = [u \in Tasks |-> task'[u]]
      BY <1>1
    <2> QED
      BY <1>3, <2>1
  <1>5. Handlers'
    BY <1>3 DEF Handlers
  <1> QED
    BY <1>1, <1>2, <1>4, <1>5, PageStays DEF page, IInv, Shape

\* A handler asks the server for something more, or starts over on the page.
LEMMA GoesOn ==
    ASSUME IInv, NEW t \in Tasks, NEW pc \in {"apply", "descriptor"},
           task' = [task EXCEPT ![t].pc = pc], UNCHANGED <<saved, page>>
    PROVE  IInv'
  <1>1. /\ task' \in [Tasks -> Handler]
        /\ \A u \in Tasks \ {t} : task'[u] = task[u]
        /\ task'[t].pc = pc /\ task'[t].section = task[t].section
    BY DEF IInv, Shape, Handler, Stages
  <1> QED
    BY <1>1, Answers DEF Stages

\* A post has come back.
LEMMA PostedStep ==
    ASSUME IInv, NEW t \in Tasks, Posted(t)
    PROVE  IInv'
  <1>1. UNCHANGED saved
    BY DEF Posted
  <1>2. CASE Thrown(t) /\ UNCHANGED config
    BY <1>1, <1>2, Throws, PageStays DEF IInv, Shape
  <1>3. CASE task' = [task EXCEPT ![t].pc = "apply"] /\ UNCHANGED page
    BY <1>1, <1>3, GoesOn
  <1>4. CASE task' = [task EXCEPT ![t].pc = "descriptor"] /\ UNCHANGED page
    BY <1>1, <1>4, GoesOn
  <1>5. CASE Render(t, "save", section) /\ UNCHANGED <<section, known>>
    BY <1>1, <1>5, Renders DEF IInv, Shape, Jobs
  <1> QED
    BY <1>2, <1>3, <1>4, <1>5 DEF Posted

\* A run of applyActions has come back.
LEMMA AppliedStep ==
    ASSUME IInv, NEW t \in Tasks, Applied(t)
    PROVE  IInv'
  <1>1. UNCHANGED saved
    BY DEF Applied
  <1>2. CASE Thrown(t) /\ UNCHANGED config
    BY <1>1, <1>2, Throws, PageStays DEF IInv, Shape
  <1>3. CASE Render(t, "save", section) /\ UNCHANGED <<section, known>>
    BY <1>1, <1>3, Renders DEF IInv, Shape, Jobs
  <1> QED
    BY <1>2, <1>3 DEF Applied

\* The new list of extensions has come.
LEMMA DescribedStep ==
    ASSUME IInv, NEW t \in Tasks, Described(t)
    PROVE  IInv'
  <1> DEFINE next == IF section \in Extensions \ task[t].known THEN "core" ELSE section
  <1>1. UNCHANGED saved
    BY DEF Described
  <1>2. CASE Thrown(t) /\ UNCHANGED config
    BY <1>1, <1>2, Throws, PageStays DEF IInv, Shape
  <1>3. CASE known' = task[t].known /\ section' = next /\ Render(t, task[t].job, next)
    <2>1. next \in Sections /\ task[t].job \in Jobs /\ known' \in SUBSET Extensions
      BY <1>3 DEF IInv, Shape, Handler, Sections, Editable
    <2> HIDE DEF next
    <2> QED
      BY <1>1, <1>3, <2>1, Renders DEF IInv
  <1> QED
    BY <1>2, <1>3 DEF Described

\* What a control shows of what was loaded.
LEMMA ControlsShow ==
    ASSUME NEW s \in Editable, NEW settings \in Settings
    PROVE  /\ Controls(s, settings) \in Settings
           /\ \A k \in AllKeys : /\ k \in Keys(s) <=> Controls(s, settings)[k] \in Values
                                 /\ k \in Keys(s) => Controls(s, settings)[k] = Or(settings[k], Default)
  BY Marks DEF Controls, Settings, Or

\* A load has come back.
LEMMA LoadedStep ==
    ASSUME IInv, NEW t \in Tasks, Loaded(t)
    PROVE  IInv'
  <1> DEFINE s == task[t].section
             loaded == [of |-> s, value |-> task[t].settings]
  <1>1. UNCHANGED saved
    BY DEF Loaded
  <1>2. /\ s \in Editable /\ s \in Sections /\ task[t].settings \in Settings
        /\ loaded \in Shown /\ loaded.of = s /\ loaded.value = task[t].settings
    BY Marks DEF Loaded, IInv, Handlers, Stage, Shown
  <1>3. CASE Thrown(t) /\ UNCHANGED config
    BY <1>1, <1>3, Throws, PageStays DEF IInv, Shape
  <1>4. ASSUME task' = [task EXCEPT ![t] = Idle]
        PROVE  task' \in [Tasks -> Handler] /\ Handlers'
    <2>1. task' \in [Tasks -> Handler]
      BY <1>4, Blanks DEF IInv, Shape
    <2>2. Stage(task'[t]) /\ task'[t].pc # "post"
      BY <1>4 DEF IInv, Shape, Stage, Idle
    <2> QED
      BY <1>1, <1>4, <2>1, <2>2, OneHandler DEF IInv, Shape
  <1>5. CASE /\ task' = [task EXCEPT ![t] = Idle]
             /\ UNCHANGED <<section, known, config, content, saveShown, generation, edited>>
    BY <1>1, <1>4, <1>5, PageStays DEF IInv, Shape
  <1>6. CASE Current(t) /\ s \in Extensions \ known /\ config' = loaded /\ Thrown(t)
    <2>1. content.of = Unset
      BY <1>6 DEF Current, IInv, PageInv, ContentIsCurrent, ShownIsKnown
    <2>2. task' \in [Tasks -> Handler] /\ Handlers'
          /\ UNCHANGED <<section, known, content, saveShown, generation, edited>>
      BY <1>1, <1>6, Throws
    <2>3. Shape'
      BY <1>1, <1>2, <1>6, <2>2 DEF IInv, Shape
    <2>4. PageInv'
      BY <2>1, <2>2, Marks DEF IInv, PageInv, Controlled, ContentIsCurrent,
         ShownIsKnown, Untouched,
         Editable, Sections
    <2> QED
      BY <2>2, <2>3, <2>4 DEF IInv
  <1>7. CASE /\ Current(t) /\ s \notin Extensions \ known
             /\ task' = [task EXCEPT ![t] = Idle]
             /\ config' = loaded
             /\ content' = [of |-> s, value |-> Controls(s, task[t].settings)]
             /\ saveShown' \in BOOLEAN
             /\ edited' = {}
             /\ UNCHANGED <<section, known, generation>>
    <2> DEFINE controls == Controls(s, task[t].settings)
    <2>1. /\ controls \in Settings
          /\ \A k \in AllKeys : /\ k \in Keys(s) <=> controls[k] \in Values
                                /\ k \in Keys(s) => controls[k] = Or(task[t].settings[k], Default)
      BY <1>2, ControlsShow
    <2> HIDE DEF controls
    <2>2. content'.of = s /\ content'.value = controls /\ content' \in Shown
      BY <1>2, <1>7, <2>1 DEF controls, Shown
    <2>3. section = s /\ config'.of = s /\ config'.value = task[t].settings
      BY <1>2, <1>7 DEF Current
    <2>4. task' \in [Tasks -> Handler] /\ Handlers'
      BY <1>4, <1>7
    <2>5. Shape'
      BY <1>1, <1>2, <1>7, <2>2, <2>4 DEF IInv, Shape
    <2>6. Controlled(content)'
      BY <1>2, <2>1, <2>2 DEF Controlled
    <2>7. ContentIsCurrent' /\ ShownIsKnown'
      BY <1>7, <2>2, <2>3 DEF ContentIsCurrent, ShownIsKnown
    <2>8. Untouched'
      BY <2>1, <2>2, <2>3, KeysOf DEF Untouched
    <2> QED
      BY <2>4, <2>5, <2>6, <2>7, <2>8 DEF IInv, PageInv
  <1> QED
    BY <1>3, <1>5, <1>6, <1>7 DEF Loaded

\* Every step keeps the invariant.
LEMMA NextIInv == IInv /\ [Next]_vars => IInv'
  <1> SUFFICES ASSUME IInv, [Next]_vars
               PROVE  IInv'
    OBVIOUS
  <1>1. ASSUME NEW s \in Sections, Navigate(s)
        PROVE  IInv'
    BY <1>1, NavigateStep
  <1>2. ASSUME NEW k \in AllKeys, NEW v \in Values, Edit(k, v)
        PROVE  IInv'
    BY <1>2, EditStep
  <1>3. CASE SwitchTab
    BY <1>3, SwitchTabStep
  <1>4. CASE Save
    BY <1>4, SaveStep
  <1>5. CASE Reload
    BY <1>5, ReloadStep
  <1>6. ASSUME NEW t \in Tasks, Serve(t)
        PROVE  IInv'
    BY <1>6, ServePostStep, ServeLoadStep, ServeOtherStep DEF Serve
  <1>7. ASSUME NEW t \in Tasks, Fails(t)
        PROVE  IInv'
    BY <1>7, FailsStep
  <1>8. ASSUME NEW t \in Tasks, Resume(t)
        PROVE  IInv'
    BY <1>8, PostedStep, AppliedStep, DescribedStep, LoadedStep DEF Resume
  <1>9. ASSUME NEW s \in Editable, NEW k \in AllKeys, NEW v \in Values \cup {Unset},
               OtherSaves(s, k, v)
        PROVE  IInv'
    BY <1>9, OtherSavesStep
  <1>10. CASE UNCHANGED vars
    BY <1>10, PageStays DEF vars, page, IInv, Shape, Handlers
  <1> QED
    BY <1>1, <1>2, <1>3, <1>4, <1>5, <1>6, <1>7, <1>8, <1>9, <1>10 DEF Next
-----------------------------------------------------------------------------
(* Saves.                                                                  *)

\* A post that comes back well is one the server has answered just now.
LEMMA OnlyServed ==
    ASSUME IInv, [Next]_vars, NEW t \in Tasks,
           task[t].pc = "post", task'[t].pc = "posted", task'[t].ok
    PROVE  ServePost(t)
  <1>1. SUFFICES ASSUME ~ServePost(t)
                 PROVE  FALSE
    OBVIOUS
  <1>2. task[t].pc # task'[t].pc
    OBVIOUS
  <1>3. ASSUME NEW u \in Tasks, NEW h, task' = [task EXCEPT ![u] = h], h.pc # "posted"
        PROVE  FALSE
    BY <1>2, <1>3 DEF IInv, Shape
  <1>4. ASSUME NEW u \in Tasks, NEW job, NEW s \in Sections, Render(u, job, s)
        PROVE  FALSE
    <2>1. Idle.pc # "posted" /\ Load(job, s).pc # "posted"
      BY DEF Idle, Load
    <2> QED
      BY <1>3, <1>4, <2>1 DEF Render
  <1>5. ASSUME NEW u \in Tasks, Thrown(u)
        PROVE  FALSE
    <2>1. Idle.pc # "posted"
      BY DEF Idle
    <2> QED
      BY <1>3, <1>5, <2>1 DEF Thrown
  <1>6. ASSUME NEW u \in Tasks, NEW pc \in Stages, NEW ok \in BOOLEAN,
               u # t, task'[t] = Answered(u, pc, ok)[t]
        PROVE  FALSE
    BY <1>2, <1>6, AnsweredIs DEF IInv
  <1>7. ASSUME NEW s \in Sections, Navigate(s)
        PROVE  FALSE
    BY <1>4, <1>7 DEF Navigate
  <1>8. CASE UNCHANGED task
    BY <1>2, <1>8
  <1>9. CASE Save
    <2>1. PICK u \in Tasks : task' = [task EXCEPT ![u] = [Idle EXCEPT
                !.job = "save", !.pc = "post", !.section = section,
                !.settings = Payload(section), !.edits = edited, !.shown = content,
                !.clean = (config.of = section /\ config.value = saved[section])]]
      BY <1>9 DEF Save
    <2>2. task'[u].pc = "post" /\ (t # u => task'[t] = task[t])
      BY <2>1 DEF IInv, Shape, Idle
    <2> QED
      BY <1>2, <2>2
  <1>10. CASE Reload
    <2>1. PICK u \in Tasks :
              task' = [task EXCEPT ![u] = [Idle EXCEPT !.job = "reload", !.pc = "descriptor"]]
      BY <1>10 DEF Reload
    <2>2. task'[u].pc = "descriptor" /\ (t # u => task'[t] = task[t])
      BY <2>1 DEF IInv, Shape, Idle
    <2> QED
      BY <1>2, <2>2
  <1>11. ASSUME NEW u \in Tasks, Serve(u)
         PROVE  FALSE
    <2>1. u # t
      BY <1>1, <1>11 DEF Serve, ServeLoad, ServeOther
    <2>2. CASE ServePost(u)
      <3>1. \/ task'[t] = [task[t] EXCEPT !.clean = FALSE]
            \/ task'[t] = Answered(u, "posted", FALSE)[t]
        BY <2>1, <2>2 DEF ServePost
      <3>2. CASE task'[t] = [task[t] EXCEPT !.clean = FALSE]
        BY <1>2, <3>2 DEF IInv, Shape, Handler
      <3>3. CASE task'[t] = Answered(u, "posted", FALSE)[t]
        BY <1>6, <2>1, <3>3 DEF Stages
      <3> QED
        BY <3>1, <3>2, <3>3
    <2>3. CASE ServeLoad(u)
      <3> DEFINE answered == Answered(u, "loaded", Served(task[u].section))
      <3>1. Served(task[u].section) \in BOOLEAN
        BY DEF Served, Enabled
      <3>2. answered \in [Tasks -> Handler]
        BY <3>1, AnsweredIs DEF Stages, IInv
      <3>3. task' = [answered EXCEPT ![u].settings = saved[task[u].section]]
        BY <2>3 DEF ServeLoad
      <3> HIDE DEF answered
      <3>4. task'[t] = answered[t]
        BY <2>1, <3>2, <3>3
      <3> QED
        BY <1>6, <2>1, <3>1, <3>4 DEF Stages, answered
    <2>4. CASE ServeOther(u)
      <3> DEFINE pc == IF task[u].pc = "apply" THEN "applied" ELSE "described"
                 answered == Answered(u, pc, TRUE)
      <3>1. pc \in Stages
        BY DEF Stages
      <3>2. answered \in [Tasks -> Handler]
        BY <3>1, AnsweredIs DEF IInv
      <3>3. task' = [answered EXCEPT ![u].known = {e \in Extensions : Enabled(e)}]
        BY <2>4 DEF ServeOther
      <3> HIDE DEF answered
      <3>4. task'[t] = answered[t]
        BY <2>1, <3>2, <3>3
      <3> QED
        BY <1>6, <2>1, <3>1, <3>4 DEF answered
    <2> QED
      BY <1>11, <2>2, <2>3, <2>4 DEF Serve
  <1>12. ASSUME NEW u \in Tasks, Fails(u)
         PROVE  FALSE
    <2> DEFINE pc == CASE task[u].pc = "post" -> "posted"
                       [] task[u].pc = "load" -> "loaded"
                       [] task[u].pc = "apply" -> "applied"
                       [] OTHER -> "described"
    <2>1. pc \in Stages
      BY DEF Stages
    <2>2. task' = Answered(u, pc, FALSE)
      BY <1>12 DEF Fails
    <2> HIDE DEF pc
    <2>3. ASSUME NEW ok \in BOOLEAN, ~ok, task' = Answered(t, pc, ok)
          PROVE  FALSE
      BY <2>1, <2>3, AnsweredIs DEF IInv
    <2>4. CASE u = t
      BY <2>2, <2>3, <2>4
    <2> QED
      BY <1>6, <2>1, <2>2, <2>4
  <1>13. ASSUME NEW u \in Tasks, Resume(u)
         PROVE  FALSE
    <2>1. u # t
      BY <1>13 DEF Resume, Posted, Applied, Described, Loaded
    <2>2. ASSUME NEW pc, task' = [task EXCEPT ![u].pc = pc]
          PROVE  FALSE
      BY <1>2, <2>1, <2>2 DEF IInv, Shape
    <2>3. section \in Sections /\ section' \in Sections
      BY <1>13, NextIInv DEF IInv, Shape
    <2>4. CASE Posted(u)
      BY <1>4, <1>5, <2>2, <2>3, <2>4 DEF Posted
    <2>5. CASE Applied(u)
      BY <1>4, <1>5, <2>3, <2>5 DEF Applied
    <2>6. CASE Described(u)
      BY <1>4, <1>5, <2>3, <2>6 DEF Described
    <2>7. CASE Loaded(u)
      <3>1. task' = [task EXCEPT ![u] = Idle]
        BY <2>7 DEF Loaded, Thrown
      <3> QED
        BY <1>3, <3>1 DEF Idle
    <2> QED
      BY <1>13, <2>4, <2>5, <2>6, <2>7 DEF Resume
  <1>14. ASSUME NEW s, NEW k, NEW v, OtherSaves(s, k, v)
         PROVE  FALSE
    <2>1. task'[t] = [task[t] EXCEPT !.clean = FALSE]
      BY <1>14 DEF OtherSaves
    <2> QED
      BY <1>2, <2>1 DEF IInv, Shape, Handler
  <1>15. ASSUME NEW k, NEW v, Edit(k, v)
         PROVE  UNCHANGED task
    BY <1>15 DEF Edit
  <1> QED
    BY <1>7, <1>8, <1>9, <1>10, <1>11, <1>12, <1>13, <1>14, <1>15 DEF Next, SwitchTab, vars

\* A save that the server has answered saves what was shown.
LEMMA StepSaves ==
    ASSUME IInv, [Next]_vars
    PROVE  [\A t \in Tasks : SavesWhatItShows(t)]_vars
  <1>1. SUFFICES ASSUME NEW t \in Tasks,
                        task[t].pc = "post", task'[t].pc = "posted", task'[t].ok,
                        task[t].shown.of = task[t].section,
                        NEW k \in Keys(task[t].section)
                 PROVE  /\ Means(saved', task[t].section, k) = task[t].shown.value[k]
                        /\ Means(saved', task[t].section, k) # Means(saved, task[t].section, k) =>
                               k \in task[t].edits \/ ~task[t].clean
    BY DEF SavesWhatItShows
  <1> DEFINE s == task[t].section
  <1>2. /\ s \in Editable /\ task[t].settings \in Settings
        /\ Or(task[t].settings[k], Default) = task[t].shown.value[k]
        /\ k \notin task[t].edits /\ task[t].clean => Or(saved[s][k], Default) = task[t].shown.value[k]
    BY <1>1 DEF IInv, Handlers, Stage, Carries
  <1>3. ServePost(t)
    BY <1>1, OnlyServed
  <1>4. Served(s)
    <2>1. ASSUME NEW ok \in BOOLEAN, ~ok, task' = Answered(t, "posted", ok)
          PROVE  FALSE
      BY <1>1, <2>1, AnsweredIs DEF IInv, Stages
    <2> QED
      BY <1>3, <2>1 DEF ServePost
  <1>5. saved' = [saved EXCEPT ![s] = Or(task[t].settings, @)]
    BY <1>3, <1>4 DEF ServePost
  <1>6. saved'[s] = task[t].settings
    BY <1>2, <1>5, Marks DEF Or, IInv, Shape
  <1> QED
    BY <1>2, <1>6 DEF Means
-----------------------------------------------------------------------------
(* The theorems.                                                           *)

\* The page and the handlers that wait for it are, after every step, as the
\* invariant has them.
THEOREM Invariant == Spec => []IInv
  BY InitIInv, NextIInv, PTL DEF Spec

\* The files, the controls and the handlers have the types the code gives
\* them: each key of the section shown has a control, and no other.
THEOREM TypeCorrect == Spec => []TypeOK
  <1>1. IInv => TypeOK
    BY DEF IInv, Shape, Settings, Shown, PageInv, Controlled, Handlers, Stage, TypeOK
  <1> QED
    BY <1>1, Invariant, PTL

\* Whatever was clicked while answers were under way, the controls on the page
\* are those of the section it names, and a save from them saves what they
\* show and nothing else.
THEOREM PageTrue == Spec => PageIsTrue
  <1>1. IInv => ContentIsCurrent
    BY DEF IInv, PageInv
  <1>2. IInv /\ [Next]_vars => [\A t \in Tasks : SavesWhatItShows(t)]_vars
    BY StepSaves
  <1> QED
    BY <1>1, <1>2, Invariant, PTL DEF Spec, PageIsTrue, SaveIsWhatIsShown
-----------------------------------------------------------------------------
(* That the page comes to rest: the safety half of PageSettles.            *)

\* A load is under way that the page will take.
Loading == \E t \in Tasks : task[t].pc \in {"load", "loaded"} /\ Current(t)

\* The page has its controls, or a message, or they are on their way.
NeverSilent == content.of = section \/ status # "" \/ Loading

\* The stages before a handler; a save may run applyActions and reload, and
\* then draws the page anew.
StagesLeft(pc) ==
    CASE pc = "post" -> 8 [] pc = "posted" -> 7
      [] pc = "apply" -> 6 [] pc = "applied" -> 5
      [] pc = "descriptor" -> 4 [] pc = "described" -> 3
      [] pc = "load" -> 2 [] pc = "loaded" -> 1
      [] OTHER -> 0

\* The guards of the steps of a handler and of the server that it asks.
HandlerCan(t) ==
    \/ task[t].pc \in {"post", "load", "apply", "descriptor"}
    \/ task[t].pc \in {"posted", "loaded", "applied", "described"}

\* Each handler stays where it is or comes nearer to its end, and only one that
\* is over begins anew.
Advance ==
    \A t \in Tasks : \/ task'[t].pc = task[t].pc
                     \/ StagesLeft(task'[t].pc) < StagesLeft(task[t].pc)
                     \/ task[t].pc = "none"

\* The stages, one by one.
LEMMA StagesFacts ==
    /\ StagesLeft("none") = 0
    /\ StagesLeft("post") = 8 /\ StagesLeft("posted") = 7
    /\ StagesLeft("apply") = 6 /\ StagesLeft("applied") = 5
    /\ StagesLeft("descriptor") = 4 /\ StagesLeft("described") = 3
    /\ StagesLeft("load") = 2 /\ StagesLeft("loaded") = 1
  BY DEF StagesLeft

\* What a step that keeps the promise does.
Rests == NeverSilent' /\ Advance

\* One handler goes on to a later stage, or begins.
LEMMA OneAdvances ==
    ASSUME NEW t \in Tasks, \A u \in Tasks \ {t} : task'[u].pc = task[u].pc,
           StagesLeft(task'[t].pc) < StagesLeft(task[t].pc) \/ task[t].pc = "none"
    PROVE  Advance
  BY DEF Advance

\* A step that the load under way does not notice.
LEMMA StillLoading ==
    ASSUME NeverSilent, content'.of = content.of, UNCHANGED <<section, generation, status>>,
           \A u \in Tasks : task[u].pc \in {"load", "loaded"} =>
               /\ task'[u].pc \in {"load", "loaded"}
               /\ task'[u].section = task[u].section
               /\ task'[u].generation = task[u].generation
    PROVE  NeverSilent'
  BY DEF NeverSilent, Loading, Current

\* The page is drawn anew: the load that this begins is the one it will take.
LEMMA RenderRests ==
    ASSUME IInv, NEW t \in Tasks, NEW job \in Jobs, NEW s \in Sections,
           Render(t, job, s), section' = s,
           task[t].pc \in {"none", "posted", "applied", "described"}
    PROVE  Rests
  <1>1. CASE s = "commands"
    <2>1. content'.of = section'
      BY <1>1, Blanks DEF Render, Blank
    <2>2. task'[t].pc = "none" /\ \A u \in Tasks \ {t} : task'[u].pc = task[u].pc
      BY <1>1 DEF Render, Idle, IInv, Shape
    <2>3. Advance
      BY <2>2, OneAdvances, StagesFacts
    <2> QED
      BY <2>1, <2>3 DEF Rests, NeverSilent
  <1>2. CASE s # "commands"
    <2>1. task' = [task EXCEPT ![t] = Load(job, s)] /\ generation' = generation + 1
      BY <1>2 DEF Render
    <2>2. /\ Load(job, s).pc = "load" /\ Load(job, s).section = s
          /\ Load(job, s).generation = generation + 1
      BY DEF Load, Idle
    <2>3. task'[t] = Load(job, s) /\ \A u \in Tasks \ {t} : task'[u] = task[u]
      BY <2>1 DEF IInv, Shape
    <2>4. NeverSilent'
      BY <2>1, <2>2, <2>3 DEF NeverSilent, Loading, Current
    <2>5. Advance
      BY <2>2, <2>3, OneAdvances, StagesFacts
    <2> QED
      BY <2>4, <2>5 DEF Rests
  <1> QED
    BY <1>1, <1>2

\* A handler that ends with an error says so.
LEMMA ThrownRests ==
    ASSUME IInv, NEW t \in Tasks, Thrown(t),
           task[t].pc \in {"posted", "applied", "described", "loaded"}
    PROVE  Rests
  <1>1. status' # ""
    BY DEF Thrown
  <1>2. task'[t].pc = "none" /\ \A u \in Tasks \ {t} : task'[u].pc = task[u].pc
    BY DEF Thrown, Idle, IInv, Shape
  <1>3. Advance
    BY <1>2, OneAdvances, StagesFacts
  <1> QED
    BY <1>1, <1>3 DEF Rests, NeverSilent

\* A request that is answered, or a handler that asks for more.
LEMMA AnswerRests ==
    ASSUME NeverSilent, NEW t \in Tasks, UNCHANGED page,
           \A u \in Tasks \ {t} : /\ task'[u].pc = task[u].pc
                                  /\ task'[u].section = task[u].section
                                  /\ task'[u].generation = task[u].generation,
           task'[t].section = task[t].section, task'[t].generation = task[t].generation,
           StagesLeft(task'[t].pc) < StagesLeft(task[t].pc),
           task[t].pc \in {"load", "loaded"} => task'[t].pc \in {"load", "loaded"}
    PROVE  Rests
  <1>1. NeverSilent'
    <2>1. \A u \in Tasks : task[u].pc \in {"load", "loaded"} =>
               /\ task'[u].pc \in {"load", "loaded"}
               /\ task'[u].section = task[u].section
               /\ task'[u].generation = task[u].generation
      OBVIOUS
    <2> QED
      BY <2>1, StillLoading DEF page
  <1>2. Advance
    BY OneAdvances
  <1> QED
    BY <1>1, <1>2 DEF Rests

\* What an answer leaves of a handler.
LEMMA AnsweredKeeps ==
    ASSUME Shape, NEW t \in Tasks, NEW pc, NEW ok
    PROVE  /\ \A u \in Tasks \ {t} : Answered(t, pc, ok)[u] = task[u]
           /\ Answered(t, pc, ok)[t].pc = pc
           /\ Answered(t, pc, ok)[t].section = task[t].section
           /\ Answered(t, pc, ok)[t].generation = task[t].generation
           /\ DOMAIN Answered(t, pc, ok) = Tasks
           /\ DOMAIN Answered(t, pc, ok)[t] = DOMAIN task[t]
  BY DEF Answered, Shape, Handler

\* The server answers, or fails.
LEMMA ServeRests ==
    ASSUME IInv, NeverSilent, NEW t \in Tasks, Serve(t) \/ Fails(t)
    PROVE  Rests
  <1>0. Shape
    BY DEF IInv
  <1>1. CASE ServePost(t)
    <2>1. task[t].pc = "post" /\ UNCHANGED page
      BY <1>1 DEF ServePost
    <2>2. CASE task' = [u \in Tasks |-> IF u = t THEN Answered(t, "posted", TRUE)[t]
                                        ELSE [task[u] EXCEPT !.clean = FALSE]]
      <3>1. /\ task'[t].pc = "posted" /\ task'[t].section = task[t].section
            /\ task'[t].generation = task[t].generation
        <4>1. PICK ok : task'[t] = Answered(t, "posted", ok)[t]
          BY <2>2
        <4> QED
          BY <1>0, <4>1, AnsweredKeeps
      <3>2. \A u \in Tasks \ {t} : /\ task'[u].pc = task[u].pc
                                   /\ task'[u].section = task[u].section
                                   /\ task'[u].generation = task[u].generation
        BY <1>0, <2>2 DEF Shape, Handler
      <3> QED
        BY <2>1, <3>1, <3>2, AnswerRests, StagesFacts
    <2>3. CASE task' = Answered(t, "posted", FALSE)
      <3>1. PICK ok : task' = Answered(t, "posted", ok)
        BY <2>3
      <3>2. /\ \A u \in Tasks \ {t} : task'[u] = task[u]
            /\ task'[t].pc = "posted" /\ task'[t].section = task[t].section
            /\ task'[t].generation = task[t].generation
        BY <1>0, <3>1, AnsweredKeeps
      <3> QED
        BY <2>1, <3>2, AnswerRests, StagesFacts
    <2> QED
      BY <1>1, <2>2, <2>3 DEF ServePost
  <1>2. CASE ServeLoad(t)
    <2>1. task[t].pc = "load" /\ UNCHANGED page
      BY <1>2 DEF ServeLoad
    <2>2. PICK ok : task' = [Answered(t, "loaded", ok) EXCEPT ![t].settings = saved[task[t].section]]
      BY <1>2 DEF ServeLoad
    <2>3. /\ \A u \in Tasks \ {t} : task'[u] = task[u]
          /\ task'[t].pc = "loaded" /\ task'[t].section = task[t].section
          /\ task'[t].generation = task[t].generation
      BY <1>0, <2>2, AnsweredKeeps
    <2> QED
      BY <2>1, <2>3, AnswerRests, StagesFacts
  <1>3. CASE ServeOther(t)
    <2>1. task[t].pc \in {"apply", "descriptor"} /\ UNCHANGED page
      BY <1>3 DEF ServeOther
    <2> DEFINE pc == IF task[t].pc = "apply" THEN "applied" ELSE "described"
    <2>2. PICK ok, known1 : task' = [Answered(t, pc, ok) EXCEPT ![t].known = known1]
      BY <1>3 DEF ServeOther
    <2> HIDE DEF pc
    <2>3. /\ \A u \in Tasks \ {t} : task'[u] = task[u]
          /\ task'[t].pc = pc /\ task'[t].section = task[t].section
          /\ task'[t].generation = task[t].generation
      BY <1>0, <2>2, AnsweredKeeps
    <2>4. StagesLeft(pc) < StagesLeft(task[t].pc)
      BY <2>1, StagesFacts DEF pc
    <2> QED
      BY <2>1, <2>3, <2>4, AnswerRests
  <1>4. CASE Fails(t)
    <2>1. UNCHANGED page
      BY <1>4 DEF Fails
    <2>2. ASSUME NEW from \in {"post", "load", "apply", "descriptor"},
                 NEW to \in {"posted", "loaded", "applied", "described"},
                 task[t].pc = from, task' = Answered(t, to, FALSE),
                 StagesLeft(to) < StagesLeft(from), from = "load" => to = "loaded"
          PROVE  Rests
      <3>1. PICK ok : task' = Answered(t, to, ok)
        BY <2>2
      <3>2. /\ \A u \in Tasks \ {t} : task'[u] = task[u]
            /\ task'[t].pc = to /\ task'[t].section = task[t].section
            /\ task'[t].generation = task[t].generation
        BY <1>0, <3>1, AnsweredKeeps
      <3> QED
        BY <2>1, <2>2, <3>2, AnswerRests
    <2>3. CASE task[t].pc = "post"
      BY <1>4, <2>2, <2>3, StagesFacts DEF Fails
    <2>4. CASE task[t].pc = "load"
      BY <1>4, <2>2, <2>4, StagesFacts DEF Fails
    <2>5. CASE task[t].pc = "apply"
      BY <1>4, <2>2, <2>5, StagesFacts DEF Fails
    <2>6. CASE task[t].pc = "descriptor"
      BY <1>4, <2>2, <2>6, StagesFacts DEF Fails
    <2> QED
      BY <1>4, <2>3, <2>4, <2>5, <2>6 DEF Fails
  <1> QED
    BY <1>1, <1>2, <1>3, <1>4 DEF Serve

\* A handler goes on with what it was answered.
LEMMA ResumeRests ==
    ASSUME IInv, NeverSilent, NEW t \in Tasks, Resume(t)
    PROVE  Rests
  <1>1. CASE Posted(t)
    <2>1. task[t].pc = "posted" /\ section \in Sections /\ "save" \in Jobs
      BY <1>1 DEF Posted, IInv, Shape, Jobs
    <2>2. CASE Thrown(t)
      BY <2>1, <2>2, ThrownRests
    <2>3. ASSUME NEW pc \in {"apply", "descriptor"}, task' = [task EXCEPT ![t].pc = pc], UNCHANGED page
          PROVE  Rests
      <3>1. /\ \A u \in Tasks \ {t} : task'[u] = task[u]
            /\ task'[t].pc = pc /\ task'[t].section = task[t].section
            /\ task'[t].generation = task[t].generation
        BY <2>3 DEF IInv, Shape, Handler
      <3>2. StagesLeft(pc) < StagesLeft("posted")
        BY StagesFacts
      <3> QED
        BY <2>1, <2>3, <3>1, <3>2, AnswerRests
    <2>4. CASE Render(t, "save", section) /\ UNCHANGED section
      BY <2>1, <2>4, RenderRests
    <2> QED
      BY <1>1, <2>2, <2>3, <2>4 DEF Posted
  <1>2. CASE Applied(t)
    <2>1. task[t].pc = "applied" /\ section \in Sections /\ "save" \in Jobs
      BY <1>2 DEF Applied, IInv, Shape, Jobs
    <2> QED
      BY <1>2, <2>1, ThrownRests, RenderRests DEF Applied
  <1>3. CASE Described(t)
    <2>1. task[t].pc = "described"
      BY <1>3 DEF Described
    <2>2. CASE Thrown(t)
      BY <2>1, <2>2, ThrownRests
    <2>3. CASE section' \in Sections /\ Render(t, task[t].job, section')
      <3>1. task[t].job \in Jobs
        BY DEF IInv, Shape, Handler
      <3> QED
        BY <2>1, <2>3, <3>1, RenderRests
    <2>4. section \in Sections /\ "core" \in Sections
      BY DEF IInv, Shape, Sections, Editable
    <2> QED
      BY <1>3, <2>2, <2>3, <2>4 DEF Described
  <1>4. CASE Loaded(t)
    <2>1. task[t].pc = "loaded"
      BY <1>4 DEF Loaded
    <2>2. CASE Thrown(t)
      BY <2>1, <2>2, ThrownRests
    <2>3. ASSUME task' = [task EXCEPT ![t] = Idle]
          PROVE  Advance /\ \A u \in Tasks \ {t} : task'[u] = task[u]
      <3>1. task'[t].pc = "none" /\ \A u \in Tasks \ {t} : task'[u] = task[u]
        BY <2>3 DEF Idle, IInv, Shape
      <3> QED
        BY <2>1, <3>1, OneAdvances, StagesFacts
    <2>4. CASE /\ ~Current(t) /\ status' = Said(t) /\ task' = [task EXCEPT ![t] = Idle]
               /\ UNCHANGED <<section, content, generation>>
      <3>1. status' = status \/ status' # ""
        BY <2>4 DEF Said
      <3>2. CASE status' # ""
        BY <2>3, <2>4, <3>2 DEF Rests, NeverSilent
      <3>3. CASE status' = status
        <4>1. CASE content.of = section \/ status # ""
          BY <2>3, <2>4, <3>3, <4>1 DEF Rests, NeverSilent
        <4>2. CASE Loading
          <5>1. PICK u \in Tasks : task[u].pc \in {"load", "loaded"} /\ Current(u)
            BY <4>2 DEF Loading
          <5>2. task'[u] = task[u]
            BY <2>3, <2>4, <5>1
          <5>3. Loading'
            BY <2>4, <5>1, <5>2 DEF Loading, Current
          <5> QED
            BY <2>3, <2>4, <5>3 DEF Rests, NeverSilent
        <4> QED
          BY <4>1, <4>2 DEF NeverSilent
      <3> QED
        BY <3>1, <3>2, <3>3
    <2>5. CASE /\ Current(t) /\ task' = [task EXCEPT ![t] = Idle] /\ UNCHANGED section
               /\ content' = [of |-> task[t].section,
                              value |-> Controls(task[t].section, task[t].settings)]
      <3>1. content'.of = section'
        BY <2>5 DEF Current
      <3> QED
        BY <2>3, <2>5, <3>1 DEF Rests, NeverSilent
    <2> QED
      BY <1>4, <2>2, <2>4, <2>5 DEF Loaded
  <1> QED
    BY <1>1, <1>2, <1>3, <1>4 DEF Resume

\* The user clicks, and somebody else saves.
LEMMA OthersRest ==
    ASSUME IInv, NeverSilent, [Next]_vars
    PROVE  Rests
  <1>1. ASSUME NEW s \in Sections, Navigate(s)
        PROVE  Rests
    <2>1. PICK t \in Tasks : FreeTask(t) /\ Render(t, "show", s)
      BY <1>1 DEF Navigate
    <2>2. section' = s
      BY <1>1 DEF Navigate
    <2> QED
      BY <2>1, <2>2, RenderRests DEF FreeTask, Jobs
  <1>2. ASSUME UNCHANGED <<task, section, generation, status>>, content'.of = content.of
        PROVE  Rests
    BY <1>2, StillLoading DEF Rests, Advance
  <1>3. ASSUME NEW k \in AllKeys, NEW v \in Values, Edit(k, v)
        PROVE  Rests
    <2>1. content'.of = content.of
      BY <1>3 DEF Edit, IInv, Shape, Shown
    <2> QED
      BY <1>2, <1>3, <2>1 DEF Edit
  <1>4. CASE SwitchTab
    BY <1>2, <1>4 DEF SwitchTab
  <1>5. ASSUME NEW t \in Tasks, NEW h, FreeTask(t), task' = [task EXCEPT ![t] = h], UNCHANGED page
        PROVE  Rests
    <2>1. \A u \in Tasks \ {t} : task'[u] = task[u]
      BY <1>5
    <2>2. Advance
      BY <1>5, <2>1, OneAdvances DEF FreeTask
    <2>3. NeverSilent'
      BY <1>5, <2>1, StillLoading DEF FreeTask, page
    <2> QED
      BY <2>2, <2>3 DEF Rests
  <1>6. CASE Save
    BY <1>5, <1>6 DEF Save
  <1>7. CASE Reload
    BY <1>5, <1>7 DEF Reload
  <1>8. ASSUME NEW t \in Tasks, Serve(t) \/ Fails(t) \/ Resume(t)
        PROVE  Rests
    BY <1>8, ServeRests, ResumeRests
  <1>9. ASSUME NEW s \in Editable, NEW k \in AllKeys, NEW v \in Values \cup {Unset},
               OtherSaves(s, k, v)
        PROVE  Rests
    <2>1. \A u \in Tasks : /\ task'[u].pc = task[u].pc
                           /\ task'[u].section = task[u].section
                           /\ task'[u].generation = task[u].generation
      BY <1>9 DEF OtherSaves, IInv, Shape, Handler
    <2> QED
      BY <1>9, <2>1, StillLoading DEF OtherSaves, Rests, Advance, page
  <1>10. CASE UNCHANGED vars
    BY <1>2, <1>10 DEF vars, page
  <1> QED
    BY <1>1, <1>3, <1>4, <1>6, <1>7, <1>8, <1>9, <1>10 DEF Next

\* The safety half of PageSettles: however handlers overtake each other, the page
\* has the controls of its section, or a message, or the load that will bring
\* one of them is under way and not overtaken; every handler under way can go
\* on, or the server can answer it; and every step brings it nearer to its end
\* or leaves it where it is.  So the page is never blank and silent for good.
THEOREM NeverBlankForGood ==
  Spec => /\ []NeverSilent
          /\ [](\A t \in Tasks : task[t].pc # "none" => HandlerCan(t))
          /\ [][Advance]_vars
  <1>1. Init => NeverSilent
    <2> SUFFICES ASSUME Init
                 PROVE  NeverSilent
      OBVIOUS
    <2>1. PICK t \in Tasks : task[t].pc = "load" /\ task[t].section = section
                             /\ task[t].generation = generation
      BY DEF Init, Idle
    <2> QED
      BY <2>1 DEF NeverSilent, Loading, Current
  <1>2. IInv /\ NeverSilent /\ [Next]_vars => NeverSilent' /\ [Advance]_vars
    BY OthersRest DEF Rests
  <1>3. IInv => \A t \in Tasks : task[t].pc # "none" => HandlerCan(t)
    BY DEF IInv, Shape, Handler, Stages, HandlerCan
  <1> QED
    BY <1>1, <1>2, <1>3, Invariant, PTL DEF Spec
=============================================================================
