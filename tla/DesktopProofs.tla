--------------------------- MODULE DesktopProofs ---------------------------
(***************************************************************************)
(* Proofs about Desktop, part by part: the display under clicks and what   *)
(* the page offers (WindowsDisplay), the icons (Trays), the hotkey's field *)
(* and its thread (HotkeyKeys, Hotkey) and the arithmetic of scales        *)
(* (DisplayScale); and that what the threads do comes to an end.           *)
(***************************************************************************)
EXTENDS Desktop, Integers, SequenceTheorems, FiniteSetTheorems, WellFoundedInduction, TLAPS

\* What the constants have to be.
LEMMA Constants ==
    /\ Clicks!DefaultsAssumption /\ Refresh!DefaultsAssumption
    /\ Scale!PercentsAssumption /\ Scale!DisplaysAssumption
    /\ Icons!TraysAssumption /\ HotkeyThread!HotkeyAssumption /\ Field!HotkeyKeysAssumption
  BY DesktopAssumption
-----------------------------------------------------------------------------
(* The hotkey thread.                                                      *)

\* A press that has not become a run is a message, a request or lost, and
\* the bound on presses is what is left of it and those.
ThreadInv ==
    /\ HotkeyThread!TypeOK /\ HotkeyThread!OneKeyHeld /\ HotkeyThread!NoExtraRuns
    /\ pressed \in Nat /\ typed \in Nat
    /\ budget \in [{"saves", "presses", "others", "toggles"} -> Nat]
    /\ presses + queue + budget["presses"] <= MaxPresses

\* At its start the thread holds no hotkey.
LEMMA ThreadInit == HotkeyThread!Init => ThreadInv
  <1> SUFFICES ASSUME HotkeyThread!Init
               PROVE  ThreadInv
    OBVIOUS
  <1>1. /\ setting \in HotkeyThread!Settings /\ combo \in HotkeyThread!Settings
        /\ owner \in [Hotkeys -> HotkeyThread!Owners]
        /\ \A h \in Hotkeys : owner[h] # "copper"
    BY Constants DEF HotkeyThread!Init, HotkeyThread!HotkeyAssumption, HotkeyThread!Settings,
       HotkeyThread!Owners
  <1>2. ~registered /\ registered \in BOOLEAN /\ enabled \in BOOLEAN /\ running \in BOOLEAN
    BY DEF HotkeyThread!Init
  <1>3. /\ presses = 0 /\ queue = 0 /\ typed = 0 /\ pressed = 0 /\ pc = "poll"
        /\ budget \in [{"saves", "presses", "others", "toggles"} -> Nat]
        /\ budget["presses"] = MaxPresses /\ MaxPresses \in Nat
    BY Constants DEF HotkeyThread!Init, HotkeyThread!HotkeyAssumption
  <1> QED
    BY <1>1, <1>2, <1>3 DEF ThreadInv, HotkeyThread!TypeOK, HotkeyThread!OneKeyHeld,
       HotkeyThread!NoExtraRuns

\* What is left of a bound.
LEMMA Spends ==
    ASSUME NEW what \in {"saves", "presses", "others", "toggles"},
           budget \in [{"saves", "presses", "others", "toggles"} -> Nat],
           HotkeyThread!Spend(what)
    PROVE  /\ budget' \in [{"saves", "presses", "others", "toggles"} -> Nat]
           /\ budget'[what] = budget[what] - 1
           /\ \A w \in {"saves", "presses", "others", "toggles"} \ {what} : budget'[w] = budget[w]
  BY DEF HotkeyThread!Spend

\* When the thread has let go of its hotkey it holds none.
LEMMA Lets ==
    ASSUME ThreadInv
    PROVE  /\ HotkeyThread!Released \in [Hotkeys -> HotkeyThread!Owners]
           /\ \A h \in Hotkeys : HotkeyThread!Released[h] # "copper"
  BY DEF ThreadInv, HotkeyThread!TypeOK, HotkeyThread!OneKeyHeld, HotkeyThread!Released,
         HotkeyThread!Owners

\* The steps of the thread.
LEMMA ThreadSteps ==
    ASSUME ThreadInv, HotkeyThread!ThreadStep
    PROVE  ThreadInv'
  <1> USE DEF ThreadInv, HotkeyThread!TypeOK, HotkeyThread!OneKeyHeld, HotkeyThread!NoExtraRuns
  <1>1. CASE HotkeyThread!Poll
    <2>1. CASE setting = combo
      BY <1>1, <2>1 DEF HotkeyThread!Poll
    <2>2. CASE setting # combo
      <3>1. HotkeyThread!Update
        BY <1>1, <2>2 DEF HotkeyThread!Poll
      <3> DEFINE free == setting \in Hotkeys /\ HotkeyThread!Released[setting] = "nobody"
      <3>2. CASE free
        <4>1. registered' /\ owner' = [HotkeyThread!Released EXCEPT ![setting] = "copper"]
              /\ registered' \in BOOLEAN
          BY <3>1, <3>2 DEF HotkeyThread!Update
        <4>2. /\ owner' \in [Hotkeys -> HotkeyThread!Owners]
              /\ \A h \in Hotkeys : owner'[h] = "copper" <=> h = setting
          BY <3>2, <4>1, Lets DEF HotkeyThread!Owners
        <4> QED
          BY <1>1, <4>1, <4>2 DEF HotkeyThread!Poll
      <3>3. CASE ~free
        <4>1. ~registered' /\ owner' = HotkeyThread!Released /\ registered' \in BOOLEAN
          BY <3>1, <3>3 DEF HotkeyThread!Update
        <4> QED
          BY <1>1, <4>1, Lets DEF HotkeyThread!Poll
      <3> QED
        BY <3>2, <3>3
    <2> QED
      BY <2>1, <2>2
  <1>2. CASE HotkeyThread!SkipPoll
    BY <1>2 DEF HotkeyThread!SkipPoll
  <1>3. CASE HotkeyThread!Take
    BY <1>3, Constants DEF HotkeyThread!Take, HotkeyThread!HotkeyAssumption
  <1>4. CASE HotkeyThread!Timeout
    BY <1>4 DEF HotkeyThread!Timeout
  <1>5. CASE HotkeyThread!Idle
    BY <1>5 DEF HotkeyThread!Idle
  <1>6. CASE HotkeyThread!EndLoop
    <2>1. ~registered' /\ owner' = HotkeyThread!Released /\ registered' \in BOOLEAN
      BY <1>6 DEF HotkeyThread!EndLoop
    <2> QED
      BY <1>6, <2>1, Lets DEF HotkeyThread!EndLoop
  <1> QED
    BY <1>1, <1>2, <1>3, <1>4, <1>5, <1>6 DEF HotkeyThread!ThreadStep

\* The steps of the daemon, the user and the other programs.
LEMMA ThreadNext == ThreadInv /\ [HotkeyThread!Next]_keyVars => ThreadInv'
  <1> SUFFICES ASSUME ThreadInv, [HotkeyThread!Next]_keyVars
               PROVE  ThreadInv'
    OBVIOUS
  <1> USE Constants DEF ThreadInv, HotkeyThread!TypeOK, HotkeyThread!OneKeyHeld,
          HotkeyThread!NoExtraRuns, HotkeyThread!HotkeyAssumption, HotkeyThread!thread
  <1>1. CASE HotkeyThread!ThreadStep
    BY <1>1, ThreadSteps
  <1>2. CASE HotkeyThread!Serve
    BY <1>2 DEF HotkeyThread!Serve
  <1>3. CASE HotkeyThread!Shutdown
    BY <1>3 DEF HotkeyThread!Shutdown
  <1>4. CASE HotkeyThread!Toggle
    BY <1>4, Spends DEF HotkeyThread!Toggle
  <1>5. ASSUME NEW s \in HotkeyThread!Settings, HotkeyThread!Save(s)
        PROVE  ThreadInv'
    BY <1>5, Spends DEF HotkeyThread!Save
  <1>6. ASSUME NEW h \in Hotkeys, HotkeyThread!Press(h)
        PROVE  ThreadInv'
    BY <1>6, Spends DEF HotkeyThread!Press
  <1>7. ASSUME NEW h \in Hotkeys, HotkeyThread!OtherTakes(h)
        PROVE  ThreadInv'
    BY <1>7, Spends DEF HotkeyThread!OtherTakes, HotkeyThread!Owners
  <1>8. ASSUME NEW h \in Hotkeys, HotkeyThread!OtherReleases(h)
        PROVE  ThreadInv'
    BY <1>8 DEF HotkeyThread!OtherReleases, HotkeyThread!Owners
  <1>9. CASE UNCHANGED keyVars
    BY <1>9 DEF keyVars
  <1> QED
    BY <1>1, <1>2, <1>3, <1>4, <1>5, <1>6, <1>7, <1>8, <1>9 DEF HotkeyThread!Next
-----------------------------------------------------------------------------
(* The icons.                                                              *)

Uses == [icon : Icons!Icons \cup {Null}, state : Icons!Icons \cup {Null},
         alive : BOOLEAN, sure : BOOLEAN]

\* The state s, if it is one, is still there.
Here(s) == s = Null \/ Icons!Alive(s)

\* A static pointer, and what an icon has found through it, lead to an icon of their
\* own kind that has set itself up.  It is still there until a thread fails; what
\* another has found may also go when the flag is down, for the icon itself takes
\* its pointer away and not what others have of it.
SafeStates ==
    /\ pointer["main"] \in {Null, MainTray} /\ pointer["display"] \in Specs \cup {Null}
    /\ open[MainTray] \in {Null, MainTray} /\ \A s \in Specs : open[s] \in Specs \cup {Null}
    /\ \A s \in Specs : thread[s] \in {"none", "setup"} =>
            pointer["display"] # s /\ \A r \in Specs : open[r] # s
    /\ Icons!Orderly => Here(pointer["display"])
    /\ Icons!Orderly /\ traysRun => \A s \in Specs : Here(open[s])

\* Only icons that have not been started are still to be started.
IconsInv ==
    /\ Icons!TypeOK
    /\ open \in [Icons!Icons -> Icons!Icons \cup {Null}] /\ used \in Uses
    /\ main = "start" => thread[MainTray] = "none"
    /\ \A s \in todo : thread[s] = "none"
    /\ SafeStates /\ Icons!UsesAreSafe

\* At the start there are no icons.
LEMMA IconsInit == Icons!Init => IconsInv
  <1> SUFFICES ASSUME Icons!Init
               PROVE  IconsInv
    OBVIOUS
  <1>1. Null \notin Icons!Icons /\ Icons!Icons = Specs \cup {MainTray}
    BY Constants DEF Icons!TraysAssumption, Icons!Icons
  <1>2. used \in Uses /\ used.icon = Null
    BY DEF Icons!Init, Uses
  <1>3. /\ thread \in [Icons!Icons -> {"none"}] /\ open \in [Icons!Icons -> {Null}]
        /\ pointer \in [{"main", "display"} -> {Null}]
        /\ main = "start" /\ todo = Specs /\ traysRun \in BOOLEAN /\ asked \in BOOLEAN
    BY DEF Icons!Init
  <1>4. Icons!TypeOK
    BY <1>1, <1>2, <1>3 DEF Icons!TypeOK, Uses
  <1>5. open \in [Icons!Icons -> Icons!Icons \cup {Null}] /\ Icons!UsesAreSafe
    BY <1>1, <1>2, <1>3 DEF Icons!UsesAreSafe
  <1>6. \A t \in Specs \cup {MainTray} : thread[t] = "none"
    BY <1>1, <1>3
  <1>7. SafeStates
    BY <1>1, <1>3 DEF SafeStates, Here
  <1> QED
    BY <1>2, <1>3, <1>4, <1>5, <1>6, <1>7 DEF IconsInv

\* A use of a state that is there whenever the use is sure of it is safe.
LEMMA UsesState ==
    ASSUME NEW t \in Icons!Icons, NEW s \in Icons!Icons, NEW sure \in BOOLEAN,
           Icons!Use(t, s, sure),
           t = MainTray => s = MainTray /\ Icons!Alive(s),
           t \in Specs => s \in Specs /\ (sure => Icons!Alive(s))
    PROVE  used' \in Uses /\ Icons!UsesAreSafe'
  <1>1. Icons!Alive(s) \in BOOLEAN
    BY DEF Icons!Alive
  <1>2. used' = [icon |-> t, state |-> s, alive |-> Icons!Alive(s), sure |-> sure]
    BY DEF Icons!Use
  <1>3. /\ used' \in Uses /\ used'.icon = t /\ used'.state = s /\ used'.sure = sure
        /\ used'.alive = Icons!Alive(s)
    BY <1>1, <1>2 DEF Uses
  <1> QED
    BY <1>3 DEF Icons!UsesAreSafe

\* What an icon finds through its static pointer.
LEMMA StateOf ==
    ASSUME IconsInv, NEW t \in Icons!Icons, thread[t] \in {"loop", "menu"},
           pointer[Icons!Static(t)] # Null
    PROVE  LET s == pointer[Icons!Static(t)]
           IN  /\ s \in Icons!Icons
               /\ t = MainTray => s = MainTray /\ Icons!Alive(s)
               /\ t \in Specs => s \in Specs /\ (Icons!Orderly => Icons!Alive(s))
  BY Constants DEF IconsInv, SafeStates, Here, Icons!Static, Icons!Alive, Icons!Icons,
     Icons!TraysAssumption

\* What an action was begun or a menu opened with.
LEMMA StateOfTurn ==
    ASSUME IconsInv, NEW t \in Icons!Icons, thread[t] \in {"act", "menu"}
    PROVE  LET s == open[t]
           IN  /\ s \in Icons!Icons
               /\ t = MainTray => s = MainTray /\ Icons!Alive(s)
               /\ t \in Specs => s \in Specs /\ (Icons!Orderly /\ traysRun => Icons!Alive(s))
  BY Constants DEF IconsInv, SafeStates, Here, Icons!TypeOK, Icons!Alive, Icons!Icons,
     Icons!TraysAssumption

\* States stay where they are when no thread leaves its loop.
LEMMA StatesStay ==
    ASSUME SafeStates, UNCHANGED <<pointer, open>>,
           traysRun' => traysRun, Icons!Orderly' => Icons!Orderly,
           \A s \in Specs : thread'[s] \in {"none", "setup"} => thread[s] \in {"none", "setup"},
           Icons!Orderly' => \A s \in Specs :
                Icons!Alive(s) /\ thread[s] # "setup" => Icons!Alive(s)'
    PROVE  SafeStates'
  <1>1. \A s \in Specs : thread[s] \in {"none", "setup"} =>
            pointer["display"] # s /\ \A r \in Specs : open[r] # s
    BY DEF SafeStates
  <1>2. ASSUME Icons!Orderly'
        PROVE  Here(pointer["display"])'
    <2>1. Here(pointer["display"]) /\ pointer["display"] \in Specs \cup {Null}
      BY <1>2 DEF SafeStates
    <2> QED
      BY <1>1, <1>2, <2>1 DEF Here
  <1>3. ASSUME Icons!Orderly', traysRun', NEW s \in Specs
        PROVE  Here(open[s])'
    <2>1. Here(open[s]) /\ open[s] \in Specs \cup {Null}
      BY <1>3 DEF SafeStates
    <2> QED
      BY <1>1, <1>3, <2>1 DEF Here
  <1> QED
    BY <1>2, <1>3 DEF SafeStates

\* A thread that has failed stays failed.
LEMMA StaysOrderly ==
    ASSUME IconsInv, NEW t \in Icons!Icons, thread[t] # "failed", NEW where,
           thread' = [thread EXCEPT ![t] = where]
    PROVE  /\ \A s \in Specs : thread'[s] = IF s = t THEN where ELSE thread[s]
           /\ Icons!Orderly' => Icons!Orderly /\ (t \in Specs => where # "failed")
  <1>1. \A s \in Specs : thread'[s] = IF s = t THEN where ELSE thread[s]
    BY DEF IconsInv, Icons!TypeOK, Icons!Icons
  <1>2. ASSUME Icons!Orderly'
        PROVE  Icons!Orderly /\ (t \in Specs => where # "failed")
    BY <1>1, <1>2 DEF Icons!Orderly
  <1> QED
    BY <1>1, <1>2

\* An action is over, or a menu closed.
LEMMA Closes ==
    ASSUME IconsInv, NEW t \in Icons!Icons, NEW place \in {"act", "menu"},
           Icons!GiveBack(t, place),
           traysRun' \in BOOLEAN, traysRun' => traysRun,
           used' \in Uses, Icons!UsesAreSafe'
    PROVE  IconsInv'
  <1>1. /\ thread' = [thread EXCEPT ![t] = "loop"]
        /\ open' = [open EXCEPT ![t] = Null]
        /\ UNCHANGED <<main, todo, asked, pointer>>
        /\ thread[t] = place
    BY DEF Icons!GiveBack
  <1>2. Icons!TypeOK' /\ open' \in [Icons!Icons -> Icons!Icons \cup {Null}]
    BY <1>1 DEF IconsInv, Icons!TypeOK, Uses, Icons!Icons
  <1>3. \A s \in Icons!Icons : thread'[s] = "none" <=> thread[s] = "none"
    BY <1>1 DEF IconsInv, Icons!TypeOK
  <1>4. Icons!Icons = Specs \cup {MainTray} /\ todo \subseteq Specs
    BY DEF IconsInv, Icons!TypeOK, Icons!Icons
  <1>5. /\ \A s \in Specs : thread'[s] = IF s = t THEN "loop" ELSE thread[s]
        /\ Icons!Orderly' => Icons!Orderly
    BY <1>1, StaysOrderly
  <1>6. \A s \in Specs : Here(s) => Here(s)'
    BY <1>1, <1>5 DEF Here, Icons!Alive
  <1>7. \A s \in Icons!Icons : open'[s] = IF s = t THEN Null ELSE open[s]
    BY <1>1 DEF IconsInv
  <1>8. SafeStates'
    <2>1. SafeStates
      BY DEF IconsInv
    <2>2. /\ pointer'["main"] \in {Null, MainTray} /\ pointer'["display"] \in Specs \cup {Null}
          /\ open'[MainTray] \in {Null, MainTray}
          /\ \A s \in Specs : open'[s] \in Specs \cup {Null}
      BY <1>1, <1>4, <1>7, <2>1 DEF SafeStates
    <2>3. \A s \in Specs : thread'[s] \in {"none", "setup"} =>
            pointer'["display"] # s /\ \A r \in Specs : open'[r] # s
      BY <1>1, <1>4, <1>5, <1>7, <2>1, Constants DEF SafeStates, Icons!TraysAssumption
    <2>4. Icons!Orderly' => Here(pointer["display"])'
      BY <1>1, <1>5, <1>6, <2>1 DEF SafeStates, Here
    <2>5. Icons!Orderly' /\ traysRun' => \A s \in Specs : Here(open[s])'
      BY <1>4, <1>5, <1>6, <1>7, <2>1 DEF SafeStates, Here
    <2> QED
      BY <2>2, <2>3, <2>4, <2>5 DEF SafeStates
  <1> QED
    BY <1>1, <1>2, <1>3, <1>4, <1>8 DEF IconsInv

\* The start of the daemon makes threads, which have no states yet.
LEMMA Spawns ==
    ASSUME IconsInv, NEW t \in Icons!Icons, thread[t] = "none", NEW next,
           next \in {"specs", "leaving"},
           Icons!Spawn(t, next) \/ (main' = "leaving" /\ UNCHANGED thread),
           (t = MainTray /\ todo' = todo) \/ (t \in todo /\ todo' = todo \ {t}),
           UNCHANGED <<traysRun, asked, pointer, open, used>>
    PROVE  IconsInv'
  <1>1. CASE UNCHANGED thread
    BY <1>1 DEF IconsInv, Icons!TypeOK, SafeStates, Here, Icons!Alive, Icons!Orderly,
       Icons!UsesAreSafe, Uses, Icons!Spawn
  <1>2. CASE thread' = [thread EXCEPT ![t] = "setup"] /\ main' = next
    <2>1. /\ \A s \in Specs : thread'[s] = IF s = t THEN "setup" ELSE thread[s]
          /\ Icons!Orderly' => Icons!Orderly
      BY <1>2, StaysOrderly
    <2>2. SafeStates'
      BY <2>1, StatesStay DEF IconsInv, Icons!Alive
    <2> QED
      BY <1>2, <2>1, <2>2, Constants DEF IconsInv, Icons!TypeOK, Icons!UsesAreSafe, Uses,
         Icons!Icons, Icons!TraysAssumption
  <1> QED
    BY <1>1, <1>2 DEF Icons!Spawn

\* A thread sets itself up, and its pointer with it.
LEMMA SetsUp ==
    ASSUME IconsInv, NEW t \in Icons!Icons, Icons!Setup(t)
    PROVE  IconsInv'
  <1>0. thread[t] = "setup"
    BY DEF Icons!Setup
  <1>1. CASE thread' = [thread EXCEPT ![t] = "gone"] /\ UNCHANGED pointer
    <2>1. /\ \A s \in Specs : thread'[s] = IF s = t THEN "gone" ELSE thread[s]
          /\ Icons!Orderly' => Icons!Orderly
      BY <1>0, <1>1, StaysOrderly
    <2>2. SafeStates'
      BY <1>1, <2>1, StatesStay DEF IconsInv, Icons!Alive, Icons!Setup
    <2> QED
      BY <1>1, <2>1, <2>2 DEF Icons!Setup, IconsInv, Icons!TypeOK, Icons!UsesAreSafe, Uses,
         Icons!Icons
  <1>2. CASE /\ thread' = [thread EXCEPT ![t] = "icon"]
             /\ pointer' = [pointer EXCEPT ![Icons!Static(t)] = t]
    <2>1. /\ \A s \in Specs : thread'[s] = IF s = t THEN "icon" ELSE thread[s]
          /\ Icons!Orderly' => Icons!Orderly
      BY <1>0, <1>2, StaysOrderly
    <2>2. /\ t = MainTray => pointer'["main"] = t /\ pointer'["display"] = pointer["display"]
          /\ t \in Specs => pointer'["display"] = t /\ pointer'["main"] = pointer["main"]
          /\ Icons!Icons = Specs \cup {MainTray} /\ MainTray \notin Specs /\ open' = open
      BY <1>2, Constants DEF Icons!Setup, Icons!Static, IconsInv, Icons!TypeOK, Icons!Icons,
         Icons!TraysAssumption
    <2>3. \A s \in Specs : Here(s) => Here(s)'
      BY <2>1 DEF Here, Icons!Alive
    <2>4. t \in Specs => Here(t)'
      BY <2>1 DEF Here, Icons!Alive
    <2>5. SafeStates'
      <3>1. SafeStates /\ traysRun' = traysRun
        BY DEF IconsInv, Icons!Setup
      <3>2. \A s \in Specs : thread'[s] \in {"none", "setup"} =>
              pointer'["display"] # s /\ \A r \in Specs : open'[r] # s
        BY <2>1, <2>2, <3>1 DEF SafeStates
      <3>3. Icons!Orderly' => Here(pointer["display"])'
        BY <2>1, <2>2, <2>3, <2>4, <3>1 DEF SafeStates, Here
      <3>4. Icons!Orderly' /\ traysRun' => \A s \in Specs : Here(open[s])'
        BY <2>1, <2>2, <2>3, <3>1 DEF SafeStates, Here
      <3> QED
        BY <2>2, <3>1, <3>2, <3>3, <3>4 DEF SafeStates
    <2>6. /\ pointer' \in [{"main", "display"} -> Icons!Icons \cup {Null}]
          /\ \A s \in Specs : thread'[s] = "none" <=> thread[s] = "none"
      BY <1>2, <2>1 DEF IconsInv, Icons!TypeOK, Icons!Static, Icons!Setup
    <2> QED
      BY <1>2, <2>2, <2>5, <2>6 DEF Icons!Setup, IconsInv, Icons!TypeOK, Icons!UsesAreSafe, Uses
  <1> QED
    BY <1>1, <1>2 DEF Icons!Setup

\* An icon that ends takes out whatever pointer it finds.
LEMMA Ends ==
    ASSUME IconsInv, NEW t \in Icons!Icons, Icons!EndLoop(t)
    PROVE  IconsInv'
  <1>1. /\ \A s \in Specs : thread'[s] = IF s = t THEN "gone" ELSE thread[s]
        /\ Icons!Orderly' => Icons!Orderly
    BY StaysOrderly DEF Icons!EndLoop
  <1>2. /\ t = MainTray => pointer'["main"] = Null /\ pointer'["display"] = pointer["display"]
        /\ t \in Specs => pointer'["display"] = Null /\ pointer'["main"] = pointer["main"]
        /\ Icons!Icons = Specs \cup {MainTray} /\ MainTray \notin Specs /\ Null \notin Specs
        /\ open' = open /\ traysRun' = traysRun /\ ~traysRun
    BY Constants DEF Icons!EndLoop, Icons!Static, IconsInv, Icons!TypeOK, Icons!Icons,
       Icons!TraysAssumption
  <1>3. t = MainTray => \A s \in Specs : Here(s) => Here(s)'
    BY <1>1, <1>2 DEF Here, Icons!Alive
  <1>4. SafeStates'
    <2>1. SafeStates
      BY DEF IconsInv
    <2>2. \A s \in Specs : thread'[s] \in {"none", "setup"} =>
            pointer'["display"] # s /\ \A r \in Specs : open'[r] # s
      BY <1>1, <1>2, <2>1 DEF SafeStates
    <2>3. Icons!Orderly' => Here(pointer["display"])'
      BY <1>1, <1>2, <1>3, <2>1 DEF SafeStates, Here
    <2> QED
      BY <1>2, <2>1, <2>2, <2>3 DEF SafeStates
  <1>5. /\ pointer' \in [{"main", "display"} -> Icons!Icons \cup {Null}]
        /\ \A s \in Specs : thread'[s] = "none" <=> thread[s] = "none"
    BY <1>1 DEF IconsInv, Icons!TypeOK, Icons!Static, Icons!EndLoop
  <1> QED
    BY <1>2, <1>4, <1>5 DEF Icons!EndLoop, IconsInv, Icons!TypeOK, Icons!UsesAreSafe, Uses

\* An action is begun, or a menu opened, with what the pointer leads to.
LEMMA Opens ==
    ASSUME IconsInv, NEW t \in Icons!Icons, NEW place \in {"act", "menu"},
           Icons!Take(t, place), used' \in Uses, Icons!UsesAreSafe'
    PROVE  IconsInv'
  <1> DEFINE p == pointer[Icons!Static(t)]
  <1>1. /\ thread[t] = "loop" /\ p # Null
        /\ thread' = [thread EXCEPT ![t] = place] /\ open' = [open EXCEPT ![t] = p]
        /\ UNCHANGED <<main, todo, traysRun, asked, pointer>>
    BY DEF Icons!Take
  <1>2. /\ p \in Icons!Icons
        /\ t = MainTray => p = MainTray
        /\ t \in Specs => p \in Specs /\ p = pointer["display"]
    BY <1>1, StateOf, Constants DEF Icons!Static, Icons!TraysAssumption
  <1> HIDE DEF p
  <1>3. /\ \A s \in Specs : thread'[s] = IF s = t THEN place ELSE thread[s]
        /\ Icons!Orderly' => Icons!Orderly
    BY <1>1, StaysOrderly
  <1>4. \A s \in Specs : Here(s) => Here(s)'
    BY <1>1, <1>3 DEF Here, Icons!Alive
  <1>5. /\ \A s \in Icons!Icons : open'[s] = IF s = t THEN p ELSE open[s]
        /\ Icons!Icons = Specs \cup {MainTray} /\ MainTray \notin Specs /\ Null \notin Icons!Icons
    BY <1>1, Constants DEF IconsInv, Icons!Icons, Icons!TraysAssumption
  <1>6. SafeStates'
    <2>1. SafeStates
      BY DEF IconsInv
    <2>2. /\ open'[MainTray] \in {Null, MainTray}
          /\ \A s \in Specs : open'[s] \in Specs \cup {Null}
      BY <1>2, <1>5, <2>1 DEF SafeStates
    <2>3. \A s \in Specs : thread'[s] \in {"none", "setup"} =>
            pointer'["display"] # s /\ \A r \in Specs : open'[r] # s
      BY <1>1, <1>2, <1>3, <1>5, <2>1 DEF SafeStates
    <2>4. Icons!Orderly' => Here(pointer["display"])'
      BY <1>1, <1>3, <1>4, <2>1 DEF SafeStates, Here
    <2>5. Icons!Orderly' /\ traysRun' => \A s \in Specs : Here(open[s])'
      BY <1>1, <1>2, <1>3, <1>4, <1>5, <2>1 DEF SafeStates, Here
    <2> QED
      BY <1>1, <2>1, <2>2, <2>3, <2>4, <2>5 DEF SafeStates
  <1>7. /\ \A s \in Icons!Icons : thread'[s] = "none" <=> thread[s] = "none"
        /\ Icons!TypeOK' /\ open' \in [Icons!Icons -> Icons!Icons \cup {Null}]
    BY <1>1, <1>2, <1>5 DEF IconsInv, Icons!TypeOK, Uses
  <1>8. todo \subseteq Specs
    BY DEF IconsInv, Icons!TypeOK
  <1> QED
    BY <1>1, <1>5, <1>6, <1>7, <1>8 DEF IconsInv, Icons!UsesAreSafe

\* Every step keeps the invariant.
LEMMA IconsNext == IconsInv /\ [Icons!Next]_trayVars => IconsInv'
  <1> SUFFICES ASSUME IconsInv, [Icons!Next]_trayVars
               PROVE  IconsInv'
    OBVIOUS
  <1>1. /\ Icons!Icons = Specs \cup {MainTray} /\ todo \subseteq Specs
        /\ traysRun \in BOOLEAN /\ asked \in BOOLEAN
    BY DEF Icons!Icons, IconsInv, Icons!TypeOK
  <1>2. CASE Icons!StartMainTray
    <2>1. thread[MainTray] = "none"
      BY <1>2 DEF Icons!StartMainTray, IconsInv
    <2> QED
      BY <1>1, <1>2, <2>1, Spawns DEF Icons!StartMainTray
  <1>3. ASSUME NEW s \in Specs, Icons!StartSpec(s)
        PROVE  IconsInv'
    <2>1. thread[s] = "none"
      BY <1>3 DEF Icons!StartSpec, IconsInv
    <2> QED
      BY <1>1, <1>3, <2>1, Spawns DEF Icons!StartSpec
  <1>4. ASSUME UNCHANGED <<thread, pointer, open, todo>>,
               used' = used \/ (used' \in Uses /\ Icons!UsesAreSafe'),
               main' = "start" => main = "start",
               main' \in {"start", "specs", "loop", "leaving", "ended"},
               traysRun' \in BOOLEAN, traysRun' => traysRun, asked' \in BOOLEAN
        PROVE  IconsInv'
    BY <1>4 DEF IconsInv, Icons!TypeOK, SafeStates, Here, Icons!Alive, Icons!Orderly,
       Icons!UsesAreSafe, Uses
  <1>5. CASE Icons!BeginLoop \/ Icons!ServeShutdown \/ Icons!Leave \/ Icons!Join
    <2>1. main \in {"start", "specs", "loop", "leaving", "ended"}
      BY DEF IconsInv, Icons!TypeOK
    <2> QED
      BY <1>1, <1>4, <1>5, <2>1 DEF Icons!BeginLoop, Icons!ServeShutdown, Icons!Leave, Icons!Join
  <1>6. CASE Icons!Ask \/ Icons!Interrupt \/ UNCHANGED trayVars
    <2>1. main \in {"start", "specs", "loop", "leaving", "ended"}
      BY DEF IconsInv, Icons!TypeOK
    <2>2. CASE Icons!Ask
      BY <1>1, <1>4, <2>1, <2>2 DEF Icons!Ask
    <2>3. CASE Icons!Interrupt
      BY <1>1, <1>4, <2>1, <2>3 DEF Icons!Interrupt
    <2>4. CASE UNCHANGED trayVars
      BY <1>1, <1>4, <2>1, <2>4 DEF trayVars
    <2> QED
      BY <1>6, <2>2, <2>3, <2>4
  <1>7. ASSUME NEW t \in Icons!Icons, thread[t] \in {"loop", "menu"},
               pointer[Icons!Static(t)] # Null,
               Icons!Use(t, pointer[Icons!Static(t)], Icons!Orderly)
        PROVE  used' \in Uses /\ Icons!UsesAreSafe'
    <2> DEFINE s == pointer[Icons!Static(t)]
               sure == Icons!Orderly
    <2>1. Icons!Use(t, s, sure)
      BY <1>7
    <2>2. /\ s \in Icons!Icons /\ (t = MainTray => s = MainTray /\ Icons!Alive(s))
          /\ t \in Specs => s \in Specs /\ (sure => Icons!Alive(s))
      BY <1>7, StateOf
    <2>3. sure \in BOOLEAN
      BY DEF Icons!Orderly
    <2> HIDE DEF s, sure
    <2> QED
      BY <2>1, <2>2, <2>3, UsesState
  <1>8. ASSUME NEW t \in Icons!Icons, Icons!AddIcon(t)
        PROVE  IconsInv'
    <2>1. PICK where \in {"loop", "failed"} : thread' = [thread EXCEPT ![t] = where]
      BY <1>8 DEF Icons!AddIcon
    <2>2. /\ thread[t] = "icon" /\ UNCHANGED <<main, todo, traysRun, asked, pointer, open, used>>
      BY <1>8 DEF Icons!AddIcon
    <2>3. /\ \A s \in Specs : thread'[s] = IF s = t THEN where ELSE thread[s]
          /\ Icons!Orderly' => Icons!Orderly /\ (t \in Specs => where # "failed")
      BY <2>1, <2>2, StaysOrderly
    <2>4. SafeStates'
      BY <2>2, <2>3, StatesStay DEF IconsInv, Icons!Alive
    <2> QED
      BY <1>1, <2>1, <2>2, <2>3, <2>4 DEF IconsInv, Icons!TypeOK, Icons!UsesAreSafe, Uses
  <1>9. ASSUME NEW t \in Icons!Icons, Icons!BeginAct(t)
        PROVE  IconsInv'
    <2>1. /\ thread[t] = "loop" /\ pointer[Icons!Static(t)] # Null
          /\ Icons!Use(t, pointer[Icons!Static(t)], Icons!Orderly)
          /\ Icons!Take(t, "act")
      BY <1>9 DEF Icons!BeginAct, Icons!Take
    <2>2. used' \in Uses /\ Icons!UsesAreSafe'
      BY <1>7, <2>1
    <2> QED
      BY <2>1, <2>2, Opens
  <1>10. ASSUME NEW t \in Icons!Icons, thread[t] \in {"act", "menu"},
                Icons!Use(t, open[t], Icons!Orderly /\ traysRun)
         PROVE  used' \in Uses /\ Icons!UsesAreSafe'
    <2> DEFINE s == open[t]
               sure == Icons!Orderly /\ traysRun
    <2>1. Icons!Use(t, s, sure)
      BY <1>10
    <2>2. /\ s \in Icons!Icons /\ (t = MainTray => s = MainTray /\ Icons!Alive(s))
          /\ t \in Specs => s \in Specs /\ (sure => Icons!Alive(s))
      BY <1>10, StateOfTurn
    <2>3. sure \in BOOLEAN
      BY <1>1 DEF Icons!Orderly
    <2> HIDE DEF s, sure
    <2> QED
      BY <2>1, <2>2, <2>3, UsesState
  <1>11. ASSUME NEW t \in Icons!Icons, Icons!EndAct(t)
         PROVE  IconsInv'
    <2>1. /\ thread[t] = "act" /\ Icons!Use(t, open[t], Icons!Orderly /\ traysRun)
          /\ Icons!GiveBack(t, "act") /\ UNCHANGED traysRun
      BY <1>11 DEF Icons!EndAct, Icons!GiveBack
    <2> QED
      BY <1>1, <1>10, <2>1, Closes
  <1>12. ASSUME NEW t \in Icons!Icons, Icons!Choose(t)
         PROVE  IconsInv'
    <2>1. /\ thread[t] = "menu" /\ Icons!Use(t, open[t], Icons!Orderly /\ traysRun)
          /\ thread' = [thread EXCEPT ![t] = "act"]
          /\ UNCHANGED <<main, todo, traysRun, asked, pointer, open>>
      BY <1>12 DEF Icons!Choose
    <2>2. used' \in Uses /\ Icons!UsesAreSafe'
      BY <1>10, <2>1
    <2>3. /\ \A s \in Specs : thread'[s] = IF s = t THEN "act" ELSE thread[s]
          /\ Icons!Orderly' => Icons!Orderly
      BY <2>1, StaysOrderly
    <2>4. SafeStates'
      BY <2>1, <2>3, StatesStay DEF IconsInv, Icons!Alive
    <2> QED
      BY <1>1, <2>1, <2>2, <2>4 DEF IconsInv, Icons!TypeOK, Uses
  <1>13. ASSUME NEW t \in Icons!Icons, Icons!OpenMenu(t)
         PROVE  IconsInv'
    <2>1. Icons!Take(t, "menu") /\ used' = used
      BY <1>13 DEF Icons!OpenMenu
    <2>2. used' \in Uses /\ Icons!UsesAreSafe'
      BY <2>1 DEF IconsInv, Icons!UsesAreSafe, Uses
    <2> QED
      BY <2>1, <2>2, Opens
  <1>14. ASSUME NEW t \in Icons!Icons, Icons!Dismiss(t)
         PROVE  IconsInv'
    <2>1. Icons!GiveBack(t, "menu") /\ used' = used /\ traysRun' = traysRun
      BY <1>14 DEF Icons!Dismiss
    <2>2. used' \in Uses /\ Icons!UsesAreSafe'
      BY <2>1 DEF IconsInv, Icons!UsesAreSafe, Uses
    <2> QED
      BY <1>1, <2>1, <2>2, Closes
  <1>15. ASSUME NEW t \in Icons!Icons, Icons!ChooseExit(t)
         PROVE  IconsInv'
    <2>1. /\ thread[t] = "menu" /\ Icons!Use(t, open[t], Icons!Orderly /\ traysRun)
          /\ Icons!GiveBack(t, "menu") /\ traysRun' = FALSE
      BY <1>15 DEF Icons!ChooseExit, Icons!GiveBack
    <2>2. used' \in Uses /\ Icons!UsesAreSafe'
      BY <1>10, <2>1
    <2> QED
      BY <2>1, <2>2, Closes
  <1>16. ASSUME NEW t \in Icons!Icons, Icons!CloseWindow(t)
         PROVE  IconsInv'
    <2>1. main \in {"start", "specs", "loop", "leaving", "ended"}
      BY DEF IconsInv, Icons!TypeOK
    <2>2. used' \in Uses /\ Icons!UsesAreSafe'
      BY <1>7, <1>16 DEF Icons!CloseWindow
    <2> QED
      BY <1>1, <1>4, <1>16, <2>1, <2>2 DEF Icons!CloseWindow
  <1> QED
    BY <1>2, <1>3, <1>5, <1>6, <1>8, <1>9, <1>14, <1>11, <1>12, <1>13, <1>16, <1>15, SetsUp, Ends
       DEF Icons!Next, Icons!MainStep, Icons!TrayStep
-----------------------------------------------------------------------------
(* The arithmetic of scales.                                               *)

\* The tables, entry by entry.
LEMMA Tables ==
    /\ DOMAIN Scale!ScaleLevels = 1..9 /\ Len(Scale!ScaleLevels) = 9
    /\ Scale!ScaleLevels[1] = 100 /\ Scale!ScaleLevels[2] = 125 /\ Scale!ScaleLevels[3] = 150
    /\ Scale!ScaleLevels[4] = 175 /\ Scale!ScaleLevels[5] = 200 /\ Scale!ScaleLevels[6] = 225
    /\ Scale!ScaleLevels[7] = 250 /\ Scale!ScaleLevels[8] = 300 /\ Scale!ScaleLevels[9] = 350
    /\ \A k \in 1..9 : Scale!WindowsLevels[k] = Scale!ScaleLevels[k]
    /\ Scale!WindowsLevels[10] = 400 /\ Scale!WindowsLevels[11] = 450
    /\ Scale!WindowsLevels[12] = 500
  BY DEF Scale!ScaleLevels, Scale!WindowsLevels

\* Of nine distances one is the first of the least.
LEMMA FirstLeast ==
    ASSUME NEW d \in [1..9 -> Int]
    PROVE  \E i \in 1..9 : \A j \in 1..9 : d[i] < d[j] \/ (d[i] = d[j] /\ i <= j)
  <1> DEFINE First(n) == \E i \in 1..n : \A j \in 1..n : d[i] < d[j] \/ (d[i] = d[j] /\ i <= j)
  <1>1. First(1)
    OBVIOUS
  <1>2. ASSUME NEW n \in 1..8, First(n)
        PROVE  First(n + 1)
    <2>1. PICK i \in 1..n : \A j \in 1..n : d[i] < d[j] \/ (d[i] = d[j] /\ i <= j)
      BY <1>2
    <2>2. CASE d[n + 1] < d[i]
      <3>1. \A j \in 1..(n + 1) : d[n + 1] < d[j] \/ (d[n + 1] = d[j] /\ n + 1 <= j)
        BY <2>1, <2>2
      <3> QED
        BY <3>1
    <2>3. CASE ~(d[n + 1] < d[i])
      <3>1. \A j \in 1..(n + 1) : d[i] < d[j] \/ (d[i] = d[j] /\ i <= j)
        BY <2>1, <2>3
      <3> QED
        BY <3>1
    <2> QED
      BY <2>2, <2>3
  <1> HIDE DEF First
  <1>3. First(2) /\ First(3)
    BY <1>1, <1>2
  <1>4. First(4) /\ First(5)
    BY <1>2, <1>3
  <1>5. First(6) /\ First(7)
    BY <1>2, <1>4
  <1>6. First(8) /\ First(9)
    BY <1>2, <1>5
  <1> QED
    BY <1>6 DEF First

\* FindClosestIndex finds a closest level of the table.
LEMMA FindsClosest ==
    ASSUME NEW percent \in Int
    PROVE  /\ Scale!FindClosestIndex(percent) \in 1..9
           /\ \A j \in 1..9 :
                Scale!Abs(Scale!ScaleLevels[Scale!FindClosestIndex(percent)] - percent)
                    <= Scale!Abs(Scale!ScaleLevels[j] - percent)
  <1> DEFINE distance == [k \in 1..9 |-> Scale!Abs(Scale!ScaleLevels[k] - percent)]
             Is(i) == \A j \in 1..9 : \/ distance[i] < distance[j]
                                      \/ distance[i] = distance[j] /\ i <= j
  <1>1. \A k \in 1..9 : Scale!ScaleLevels[k] \in Int
    BY Tables
  <1>2. distance \in [1..9 -> Int]
    BY <1>1 DEF Scale!Abs
  <1>3. \E i \in 1..9 : Is(i)
    <2> HIDE DEF distance
    <2> QED
      BY <1>2, FirstLeast
  <1>4. \E i \in DOMAIN Scale!ScaleLevels : \A j \in DOMAIN Scale!ScaleLevels :
            LET d(k) == Scale!Abs(Scale!ScaleLevels[k] - percent)
            IN  d(i) < d(j) \/ (d(i) = d(j) /\ i <= j)
    BY <1>3, Tables
  <1>5. /\ Scale!FindClosestIndex(percent) \in DOMAIN Scale!ScaleLevels
        /\ \A j \in DOMAIN Scale!ScaleLevels :
            LET d(k) == Scale!Abs(Scale!ScaleLevels[k] - percent)
                i == Scale!FindClosestIndex(percent)
            IN  d(i) < d(j) \/ (d(i) = d(j) /\ i <= j)
    BY <1>4 DEF Scale!FindClosestIndex
  <1>6. \A k \in 1..9 : Scale!Abs(Scale!ScaleLevels[k] - percent) \in Int
    BY <1>1 DEF Scale!Abs
  <1> QED
    BY <1>5, <1>6, Tables

\* A level of the table is the closest to itself, and survives the way to dpi
\* and back.
LEMMA LevelIsFound ==
    ASSUME NEW i \in 1..9
    PROVE  /\ Scale!FindClosestIndex(Scale!ScaleLevels[i]) = i
           /\ Scale!PercentToDpi(Scale!ScaleLevels[i]) \in 96..336
           /\ Scale!DpiToPercent(Scale!PercentToDpi(Scale!ScaleLevels[i])) = Scale!ScaleLevels[i]
  <1>1. Scale!FindClosestIndex(Scale!ScaleLevels[i]) = i
    <2> DEFINE found == Scale!FindClosestIndex(Scale!ScaleLevels[i])
    <2>1. Scale!ScaleLevels[i] \in Int
      BY Tables
    <2>2. found \in 1..9
          /\ Scale!Abs(Scale!ScaleLevels[found] - Scale!ScaleLevels[i])
                <= Scale!Abs(Scale!ScaleLevels[i] - Scale!ScaleLevels[i])
      BY <2>1, FindsClosest
    <2> HIDE DEF found
    <2>3. Scale!ScaleLevels[found] = Scale!ScaleLevels[i]
      BY <2>1, <2>2, Tables DEF Scale!Abs
    <2>4. found = i
      BY <2>2, <2>3, Tables
    <2> QED
      BY <2>4 DEF found
  <1>2. /\ Scale!PercentToDpi(Scale!ScaleLevels[i]) \in 96..336
        /\ Scale!DpiToPercent(Scale!PercentToDpi(Scale!ScaleLevels[i])) = Scale!ScaleLevels[i]
    BY Tables DEF Scale!PercentToDpi, Scale!DpiToPercent, Scale!Round
  <1> QED
    BY <1>1, <1>2

\* The dpi of a percentage of the script.
LEMMA DpiOf ==
    ASSUME NEW percent \in 100..350
    PROVE  Scale!PercentToDpi(percent) \in 96..336
  BY DEF Scale!PercentToDpi, Scale!Round

\* A scale that is set is one the display can have.
LEMMA SetsInRange ==
    ASSUME NEW percent \in Int, NEW told \in Int, relative \in Int,
           recommended \in 1..12, highest \in recommended..12
    PROVE  Scale!ScaleRelative(percent, told) \in Scale!Lowest..Scale!Top
  <1>1. Scale!DpiToPercent(told) \in Int
    BY DEF Scale!DpiToPercent, Scale!Round
  <1>2. Scale!FindClosestIndex(percent) \in Int
        /\ Scale!FindClosestIndex(Scale!DpiToPercent(told)) \in Int
    BY <1>1, FindsClosest
  <1>3. Scale!RecommendedIndex(Scale!DpiToPercent(told)) \in Int
    BY <1>2, Tables DEF Scale!RecommendedIndex, Scale!Clamp
  <1> QED
    BY <1>2, <1>3 DEF Scale!ScaleRelative, Scale!Clamp, Scale!Lowest, Scale!Top

\* Types, and what the displays have to be for them.
ScaleInv ==
    /\ Scale!TypeOK
    /\ recommended \in 1..12 /\ highest \in recommended..12 /\ relative \in Int

\* At the start the level in force is one the display can have.
LEMMA ScaleInit == Scale!Init => ScaleInv
  <1> SUFFICES ASSUME Scale!Init
               PROVE  ScaleInv
    OBVIOUS
  <1>1. PICK display \in Displays : recommended = display[1] /\ highest = display[2]
    BY DEF Scale!Init
  <1>2. display \in (1..12) \X (1..12) /\ display[1] <= display[2]
    BY Constants DEF Scale!DisplaysAssumption
  <1>3. <<recommended, highest>> \in Displays
    BY <1>1, <1>2
  <1> QED
    BY <1>1, <1>2, <1>3 DEF Scale!Init, ScaleInv, Scale!TypeOK, Scale!Lowest, Scale!Top

\* The level in force is one of Windows, and its dpi a number.
LEMMA InForceIs ==
    ASSUME ScaleInv
    PROVE  recommended + relative \in 1..highest /\ Scale!GetPrimaryDpi \in Int
  <1>1. recommended + relative \in 1..highest /\ highest \in 1..12
    BY DEF ScaleInv, Scale!TypeOK, Scale!Lowest, Scale!Top
  <1>2. Scale!InForce \in Int
    BY <1>1, Tables DEF Scale!InForce
  <1> QED
    BY <1>1, <1>2 DEF Scale!GetPrimaryDpi, Scale!PercentToDpi, Scale!Round

\* Every step keeps the level in the range of the display.
LEMMA ScaleNext == ScaleInv /\ [Scale!Next]_scaleVars => ScaleInv'
  <1> SUFFICES ASSUME ScaleInv, [Scale!Next]_scaleVars
               PROVE  ScaleInv'
    OBVIOUS
  <1>1. \A percent \in Percents : percent \in 100..350 /\ percent \in Int
    BY Constants DEF Scale!PercentsAssumption
  <1>2. ASSUME NEW percent \in Percents, NEW told \in Scale!Told, Scale!SetScalePercent(percent, told)
        PROVE  ScaleInv'
    <2>1. told \in Int
      BY InForceIs DEF Scale!Told
    <2>2. Scale!ScaleRelative(percent, told) \in Scale!Lowest..Scale!Top
      BY <1>1, <2>1, SetsInRange DEF ScaleInv
    <2> QED
      BY <1>2, <2>2 DEF Scale!SetScalePercent, ScaleInv, Scale!TypeOK, Scale!Lowest, Scale!Top
  <1>3. ASSUME NEW percent \in Percents, Scale!SetScaleFallback(percent)
        PROVE  ScaleInv'
    <2>1. logPixels' \in 96..336 /\ UNCHANGED <<recommended, highest, relative>>
      <3>1. percent \in 100..350
        BY <1>1
      <3>2. Scale!PercentToDpi(percent) \in 96..336
        BY <3>1, DpiOf
      <3> QED
        BY <1>3, <3>2 DEF Scale!SetScaleFallback
    <2> QED
      BY <2>1 DEF ScaleInv, Scale!TypeOK, Scale!Lowest, Scale!Top
  <1>4. CASE Scale!UserSets
    BY <1>4 DEF Scale!UserSets, ScaleInv, Scale!TypeOK, Scale!Lowest, Scale!Top
  <1>5. CASE UNCHANGED scaleVars
    BY <1>5 DEF scaleVars, ScaleInv, Scale!TypeOK, Scale!Lowest, Scale!Top
  <1> QED
    BY <1>2, <1>3, <1>4, <1>5 DEF Scale!Next

\* Higher levels are larger scales.
LEMMA Increasing ==
    ASSUME NEW a \in 1..12, NEW b \in 1..12, a < b
    PROVE  /\ Scale!WindowsLevels[a] \in 100..500 /\ Scale!WindowsLevels[b] \in 100..500
           /\ Scale!WindowsLevels[a] < Scale!WindowsLevels[b]
  BY Tables

\* A script that was told the dpi sets the level it has found, or the highest
\* one of the display.
LEMMA SetsFound ==
    ASSUME ScaleInv, Scale!InTable(recommended + relative), NEW percent \in Int
    PROVE  recommended + Scale!ScaleRelative(percent, Scale!GetPrimaryDpi)
               = IF Scale!FindClosestIndex(percent) <= highest
                 THEN Scale!FindClosestIndex(percent) ELSE highest
  <1> DEFINE level == recommended + relative
  <1>1. level \in 1..9 /\ recommended \in 1..9
    BY InForceIs, Tables DEF Scale!InTable, ScaleInv
  <1>2. Scale!GetPrimaryDpi = Scale!PercentToDpi(Scale!ScaleLevels[level])
    BY <1>1, Tables DEF Scale!GetPrimaryDpi, Scale!InForce
  <1>3. Scale!FindClosestIndex(Scale!DpiToPercent(Scale!GetPrimaryDpi)) = level
    BY <1>1, <1>2, LevelIsFound
  <1>4. Scale!RecommendedIndex(Scale!DpiToPercent(Scale!GetPrimaryDpi)) = recommended
    BY <1>1, <1>3, Tables DEF Scale!RecommendedIndex, Scale!Clamp, ScaleInv
  <1>5. Scale!FindClosestIndex(percent) \in 1..9
    BY FindsClosest
  <1> QED
    BY <1>1, <1>4, <1>5 DEF Scale!ScaleRelative, Scale!Clamp, Scale!Lowest, Scale!Top, ScaleInv

\* A percentage becomes the nearest scale the display can have.
LEMMA Nearest == ScaleInv => Scale!SetIsClosest
  <1> SUFFICES ASSUME ScaleInv, Scale!InTable(recommended + relative), NEW percent \in Percents,
                      NEW other \in 1..highest
               PROVE  Scale!Abs(Scale!WindowsLevels[recommended
                              + Scale!ScaleRelative(percent, Scale!GetPrimaryDpi)] - percent)
                          <= Scale!Abs(Scale!WindowsLevels[other] - percent)
    BY DEF Scale!SetIsClosest, Scale!Closest
  <1> DEFINE found == Scale!FindClosestIndex(percent)
  <1>1. percent \in 100..350 /\ highest \in 1..12
    BY Constants DEF Scale!PercentsAssumption, ScaleInv
  <1>2. /\ found \in 1..9
        /\ \A j \in 1..9 : Scale!Abs(Scale!ScaleLevels[found] - percent)
                               <= Scale!Abs(Scale!ScaleLevels[j] - percent)
    BY <1>1, FindsClosest
  <1>3. recommended + Scale!ScaleRelative(percent, Scale!GetPrimaryDpi)
            = IF found <= highest THEN found ELSE highest
    BY <1>1, SetsFound
  <1> HIDE DEF found
  <1>4. CASE found <= highest
    <2>1. CASE other \in 1..9
      BY <1>2, <1>3, <1>4, <2>1, Tables
    <2>2. CASE other \notin 1..9
      <3>1. other \in 10..12
        BY <1>1, <2>2
      <3>2. Scale!WindowsLevels[other] >= 400 /\ Scale!WindowsLevels[other] \in Int
        BY <3>1, Tables
      <3>3. Scale!Abs(Scale!ScaleLevels[found] - percent) <= 350 - percent
        BY <1>1, <1>2, Tables DEF Scale!Abs
      <3>4. Scale!Abs(Scale!WindowsLevels[other] - percent) >= 50 + (350 - percent)
        BY <1>1, <3>2 DEF Scale!Abs
      <3>5. Scale!WindowsLevels[found] = Scale!ScaleLevels[found] /\ Scale!ScaleLevels[found] \in Int
        BY <1>2, Tables
      <3>6. Scale!Abs(Scale!ScaleLevels[found] - percent) \in Int
            /\ Scale!Abs(Scale!WindowsLevels[other] - percent) \in Int
        BY <1>1, <3>2, <3>5 DEF Scale!Abs
      <3> QED
        BY <1>1, <1>3, <1>4, <3>3, <3>4, <3>5, <3>6
    <2> QED
      BY <2>1, <2>2
  <1>5. CASE highest < found
    <2>1. highest \in 1..8 /\ other \in 1..8 /\ other <= highest
      BY <1>1, <1>2, <1>5
    <2>2. /\ Scale!WindowsLevels[highest] < Scale!WindowsLevels[found]
          /\ Scale!WindowsLevels[highest] \in Int /\ Scale!WindowsLevels[found] \in Int
      <3>1. highest \in 1..12 /\ found \in 1..12 /\ highest < found
        BY <1>2, <1>5, <2>1
      <3>2. /\ Scale!WindowsLevels[highest] \in 100..500 /\ Scale!WindowsLevels[found] \in 100..500
            /\ Scale!WindowsLevels[highest] < Scale!WindowsLevels[found]
        BY <3>1, Increasing
      <3> QED
        BY <3>2
    <2>3. Scale!Abs(Scale!WindowsLevels[found] - percent)
              <= Scale!Abs(Scale!WindowsLevels[highest] - percent)
      BY <1>2, <2>1, Tables
    <2>4. Scale!WindowsLevels[highest] <= percent
      BY <1>1, <2>2, <2>3 DEF Scale!Abs
    <2>5. recommended + Scale!ScaleRelative(percent, Scale!GetPrimaryDpi) = highest
      BY <1>1, <1>2, <1>3, <1>5
    <2>6. CASE other = highest
      BY <1>1, <2>2, <2>5, <2>6 DEF Scale!Abs
    <2>7. CASE other < highest
      <3>1. /\ Scale!WindowsLevels[other] < Scale!WindowsLevels[highest]
            /\ Scale!WindowsLevels[other] \in Int
        <4>1. other \in 1..12 /\ highest \in 1..12
          BY <2>1
        <4>2. /\ Scale!WindowsLevels[other] \in 100..500
              /\ Scale!WindowsLevels[other] < Scale!WindowsLevels[highest]
          BY <2>7, <4>1, Increasing
        <4> QED
          BY <4>2
      <3> QED
        BY <1>1, <2>2, <2>4, <2>5, <3>1 DEF Scale!Abs
    <2> QED
      BY <2>1, <2>6, <2>7
  <1> QED
    BY <1>1, <1>2, <1>4, <1>5

\* The levels that are offered are those of the display within the table, and
\* to choose one sets it.
LEMMA Offers == ScaleInv => Scale!OfferedIsSet
  <1> SUFFICES ASSUME ScaleInv, Scale!InTable(recommended + relative),
                      logPixels \in {0, Scale!GetPrimaryDpi}
               PROVE  /\ Scale!ScaleInfo.current = Scale!InForce
                      /\ \A i \in DOMAIN Scale!ScaleInfo.offered :
                            Scale!WindowsLevels[recommended
                                + Scale!ScaleRelative(Scale!ScaleInfo.offered[i], Scale!GetPrimaryDpi)]
                                    = Scale!ScaleInfo.offered[i]
    BY DEF Scale!OfferedIsSet
  <1> DEFINE level == recommended + relative
             most == IF highest <= 9 THEN highest ELSE 9
  <1>1. /\ level \in 1..9 /\ level <= highest /\ recommended \in 1..9 /\ highest \in recommended..12
        /\ most \in 1..9 /\ level <= most /\ recommended <= most /\ most <= highest
        /\ relative \in Int
    BY InForceIs, Tables DEF Scale!InTable, ScaleInv
  <1>2. Scale!InForce = Scale!ScaleLevels[level]
        /\ Scale!GetPrimaryDpi = Scale!PercentToDpi(Scale!ScaleLevels[level])
    BY <1>1, Tables DEF Scale!GetPrimaryDpi, Scale!InForce
  <1>3. Scale!GetConfiguredScalePercent = Scale!ScaleLevels[level]
    BY <1>1, <1>2, LevelIsFound DEF Scale!GetConfiguredScalePercent
  <1>4. Scale!FindClosestIndex(Scale!GetConfiguredScalePercent) = level
    BY <1>1, <1>3, LevelIsFound
  <1>5. Scale!RecommendedIndex(Scale!GetConfiguredScalePercent) = recommended
    BY <1>1, <1>4, Tables DEF Scale!RecommendedIndex, Scale!Clamp
  <1>6. /\ Scale!Clamp(recommended + Scale!Lowest, 1, recommended) = 1
        /\ Scale!Clamp(recommended + Scale!Top, recommended, 9) = most
        /\ Scale!Clamp(level, 1, most) = level
    BY <1>1 DEF Scale!Clamp, Scale!Lowest, Scale!Top
  <1> HIDE DEF level, most
  <1>7. /\ Scale!ScaleInfo.current = Scale!ScaleLevels[level]
        /\ Scale!ScaleInfo.offered = SubSeq(Scale!ScaleLevels, 1, most)
    <2> DEFINE base == Scale!RecommendedIndex(Scale!GetConfiguredScalePercent)
               least == Scale!Clamp(base + Scale!Lowest, 1, base)
               last == Scale!Clamp(base + Scale!Top, base, Len(Scale!ScaleLevels))
    <2>1. Scale!ScaleInfo =
            [current |-> Scale!ScaleLevels[Scale!Clamp(
                            Scale!FindClosestIndex(Scale!GetConfiguredScalePercent), least, last)],
             offered |-> SubSeq(Scale!ScaleLevels, least, last)]
      BY DEF Scale!ScaleInfo
    <2>2. least = 1 /\ last = most
      BY <1>5, <1>6, Tables
    <2> HIDE DEF base, least, last
    <2> QED
      BY <1>4, <1>6, <2>1, <2>2
  <1>8. ASSUME NEW i \in DOMAIN Scale!ScaleInfo.offered
        PROVE  Scale!WindowsLevels[recommended
                    + Scale!ScaleRelative(Scale!ScaleInfo.offered[i], Scale!GetPrimaryDpi)]
                        = Scale!ScaleInfo.offered[i]
    <2>1. i \in 1..most /\ Scale!ScaleInfo.offered[i] = Scale!ScaleLevels[i]
      <3>1. most \in Int /\ \A k \in 1..most : Scale!ScaleLevels[k] \in Int
        BY <1>1, Tables
      <3>2. /\ SubSeq(Scale!ScaleLevels, 1, most) \in Seq(Int)
            /\ Len(SubSeq(Scale!ScaleLevels, 1, most)) = IF 1 <= most THEN most - 1 + 1 ELSE 0
            /\ \A k \in 1..(most - 1 + 1) :
                  SubSeq(Scale!ScaleLevels, 1, most)[k] = Scale!ScaleLevels[1 + k - 1]
        BY <3>1, SubSeqProperties
      <3>3. i \in 1..most
        BY <1>1, <1>7, <3>2
      <3>4. 1 + i - 1 = i /\ i \in 1..(most - 1 + 1)
        BY <1>1, <3>3
      <3> QED
        BY <1>7, <3>2, <3>3, <3>4
    <2>2. i \in 1..9 /\ i <= highest /\ Scale!ScaleLevels[i] \in Int
      BY <1>1, <2>1, Tables
    <2>3. recommended + Scale!ScaleRelative(Scale!ScaleLevels[i], Scale!GetPrimaryDpi) = i
      BY <2>2, SetsFound, LevelIsFound
    <2> QED
      BY <2>1, <2>2, <2>3, Tables
  <1> QED
    BY <1>2, <1>7, <1>8
-----------------------------------------------------------------------------
(* The display.                                                            *)

Pcs == {"idle", "read", "set", "bridge", "look", "save", "failed", "script", "over"}
Kinds == {"none", "trigger", "apply", "script", "click", "refresh"}
Bounds == {"jobs", "clicks", "edits", "faults"}
Device == [hide : BOOLEAN, mode : Modes, scale : Scales]
Result == [hide : BOOLEAN, mode : Modes \cup {Unset}, scale : Scales \cup {Unset}]
Status == [hide : BOOLEAN \cup {Unset}, mode : Modes \cup {Unset}, scale : Scales \cup {Unset},
           ok : BOOLEAN \cup {Unset}, contract : BOOLEAN]
Task == [pc : Pcs, kind : Kinds, action : Clicks!Actions, rest : Seq(Clicks!Actions),
         request : Device, sampled : Status, result : Result, before : BOOLEAN,
         clean : BOOLEAN, wanted : Modes \cup Scales \cup {Unset}]

DisplayShape ==
    /\ device \in Device /\ config \in Clicks!Config /\ status \in Status /\ view \in Device
    /\ task \in [Clicks!Threads -> Task]
    /\ left \in [Bounds -> Nat]
    /\ task["tray"].pc # "script"

\* What a click knows that nobody crossed: the taskbar is as it was before until
\* the thread sets it, then the opposite, and that is what the thread sees last
\* and the icon shows.
Click(h) ==
    (h.kind = "click" /\ h.action = "toggle-taskbar-autohide" /\ h.clean) =>
        /\ h.pc = "read" => (device.hide <=> h.before)
        /\ h.pc = "set" => (h.request.hide <=> ~h.before)
        /\ h.pc \in {"bridge", "look", "save", "over"} => (device.hide <=> ~h.before)
        /\ h.pc = "save" => (h.result.hide <=> device.hide)
        /\ h.pc = "over" => (view.hide <=> device.hide)
        /\ h.pc # "failed"

DisplayInv == DisplayShape /\ Click(task["tray"])

\* The assumption, and what follows from it.
LEMMA Defaults ==
    /\ DefaultMode \in Modes /\ DefaultScale \in Scales
    /\ Unset \notin Modes /\ Unset \notin Scales
    /\ StandardScales \in Seq(Scales)
    /\ Completed \in [Clicks!Partials -> Modes]
    /\ Clicks!Partials \cap (Modes \cup {Unset}) = {}
    /\ ClickConfigs \subseteq Clicks!Config /\ RefreshConfigs \subseteq Clicks!Config
    /\ MaxJobs \in Nat /\ MaxClicks \in Nat /\ MaxFaults \in Nat
    /\ MaxClickEdits \in Nat /\ MaxRefreshEdits \in Nat
  BY Constants DEF Clicks!DefaultsAssumption, Refresh!DefaultsAssumption, Clicks!Config,
     Refresh!Config, Clicks!Partials, Refresh!Partials

\* A request has all three values.
LEMMA Requests ==
    ASSUME NEW object \in Clicks!Config
    PROVE  Clicks!BuildRequest(object) \in Device
  BY Defaults DEF Clicks!Config, Clicks!BuildRequest, Clicks!ReadSize, Clicks!Or, Device

\* A thread at rest.
LEMMA IdleTask ==
    /\ Clicks!Idle \in Task /\ Clicks!Idle.pc = "idle" /\ Clicks!Idle.kind = "none"
    /\ Clicks!EmptyStatus \in Status /\ Clicks!NoResult \in Result
  <1>1. Clicks!NoConfig \in Clicks!Config
    BY DEF Clicks!NoConfig, Clicks!Config
  <1>2. Clicks!BuildRequest(Clicks!NoConfig) \in Device
    BY <1>1, Requests
  <1>3. Clicks!EmptyStatus \in Status /\ Clicks!NoResult \in Result
    BY DEF Clicks!EmptyStatus, Status, Clicks!NoResult, Result
  <1>4. /\ "idle" \in Pcs /\ "none" \in Kinds /\ "status" \in Clicks!Actions
        /\ <<>> \in Seq(Clicks!Actions)
    BY DEF Pcs, Kinds, Clicks!Actions
  <1> QED
    BY <1>2, <1>3, <1>4 DEF Clicks!Idle, Task

\* A new action of a thread.
LEMMA JobIs ==
    ASSUME DisplayShape, NEW kind \in Kinds, NEW actions \in Seq(Clicks!Actions), actions # <<>>,
           NEW object \in Clicks!Config
    PROVE  /\ Clicks!Job(kind, actions, object) \in Task
           /\ Clicks!Job(kind, actions, object).pc = Clicks!First(Head(actions))
           /\ Clicks!Job(kind, actions, object).kind = kind
           /\ Clicks!Job(kind, actions, object).action = Head(actions)
           /\ Clicks!Job(kind, actions, object).before <=> device.hide
  <1> DEFINE first == Clicks!First(Head(actions))
             request == Clicks!BuildRequest(object)
             hide == device.hide
  <1>1. Head(actions) \in Clicks!Actions /\ Tail(actions) \in Seq(Clicks!Actions)
    OBVIOUS
  <1>2. first \in Pcs
    BY DEF Clicks!First, Pcs
  <1>3. request \in Device /\ hide \in BOOLEAN /\ status \in Status
    BY Requests DEF DisplayShape, Device
  <1>4. Clicks!Job(kind, actions, object) =
            [Clicks!Idle EXCEPT !.pc = first, !.kind = kind,
                 !.action = Head(actions), !.rest = Tail(actions),
                 !.request = request, !.sampled = status,
                 !.before = hide, !.clean = TRUE]
    BY DEF Clicks!Job
  <1> DEFINE chosen == [Clicks!Idle EXCEPT !.pc = first, !.kind = kind,
                 !.action = Head(actions), !.rest = Tail(actions)]
             begun == [chosen EXCEPT !.request = request, !.sampled = status]
  <1> HIDE DEF first, request, hide
  <1>5. /\ chosen \in Task /\ chosen.pc = first /\ chosen.kind = kind
        /\ chosen.action = Head(actions)
    BY <1>1, <1>2, IdleTask DEF Task
  <1>6. Clicks!Job(kind, actions, object) = [begun EXCEPT !.before = hide, !.clean = TRUE]
    BY <1>4
  <1> HIDE DEF chosen
  <1>7. /\ begun \in Task /\ begun.pc = first /\ begun.kind = kind
        /\ begun.action = Head(actions)
    BY <1>3, <1>5 DEF Task
  <1> HIDE DEF begun
  <1>8. /\ Clicks!Job(kind, actions, object) \in Task
        /\ Clicks!Job(kind, actions, object).pc = first
        /\ Clicks!Job(kind, actions, object).kind = kind
        /\ Clicks!Job(kind, actions, object).action = Head(actions)
        /\ Clicks!Job(kind, actions, object).before <=> hide
    BY <1>3, <1>6, <1>7 DEF Task
  <1> QED
    BY <1>8 DEF first, hide

\* Somebody else has changed the display or the settings.
LEMMA CrossIs ==
    ASSUME NEW tasks \in [Clicks!Threads -> Task], NEW t
    PROVE  /\ Clicks!Cross(tasks, t) \in [Clicks!Threads -> Task]
           /\ t \in Clicks!Threads => Clicks!Cross(tasks, t)[t] = tasks[t]
           /\ \A u \in Clicks!Threads \ {t} :
                /\ ~Clicks!Cross(tasks, t)[u].clean
                /\ Clicks!Cross(tasks, t)[u].pc = tasks[u].pc
  BY DEF Clicks!Cross, Task

\* A thread goes on to another stage.
LEMMA ToIs ==
    ASSUME DisplayShape, NEW t \in Clicks!Threads, NEW stage \in Pcs
    PROVE  /\ Clicks!To(t, stage) \in [Clicks!Threads -> Task]
           /\ \A u \in Clicks!Threads \ {t} : Clicks!To(t, stage)[u] = task[u]
           /\ Clicks!To(t, stage)[t].pc = stage
           /\ Clicks!To(t, stage)[t].kind = task[t].kind
           /\ Clicks!To(t, stage)[t].action = task[t].action
           /\ Clicks!To(t, stage)[t].request = task[t].request
           /\ Clicks!To(t, stage)[t].result = task[t].result
           /\ Clicks!To(t, stage)[t].before <=> task[t].before
           /\ Clicks!To(t, stage)[t].clean <=> task[t].clean
  BY DEF Clicks!To, DisplayShape, Task

\* A thread has ended its action.
LEMMA OverIs ==
    ASSUME DisplayShape, NEW t \in Clicks!Threads
    PROVE  /\ Clicks!Over(t) \in Task /\ Clicks!Over(t).pc = "over"
           /\ Clicks!Over(t).kind = task[t].kind
           /\ Clicks!Over(t).action = task[t].action
           /\ Clicks!Over(t).before <=> task[t].before
           /\ Clicks!Over(t).clean <=> task[t].clean
  <1>1. /\ task[t].kind \in Kinds /\ task[t].action \in Clicks!Actions
        /\ task[t].before \in BOOLEAN /\ task[t].clean \in BOOLEAN
        /\ task[t].wanted \in Modes \cup Scales \cup {Unset} /\ "over" \in Pcs
    BY DEF DisplayShape, Task, Pcs
  <1> QED
    BY <1>1, IdleTask DEF Clicks!Over, Task

\* What the display and its files are after an action.
LEMMA UpdatedIs ==
    ASSUME NEW old \in Status, NEW result \in Result
    PROVE  Clicks!Updated(old, result) \in Status
  BY Defaults DEF Clicks!Updated, Clicks!Or, Status, Result

\* The two threads.
LEMMA TwoThreads ==
    /\ Clicks!Threads = {"host", "tray"}
    /\ Pcs = {"idle", "read", "set", "bridge", "look", "save", "failed", "script", "over"}
  BY DEF Clicks!Threads, Pcs

\* A step of one thread that leaves the display alone: the tray's, when it is
\* the tray's.
LEMMA OneMoves ==
    ASSUME DisplayInv, NEW t \in Clicks!Threads, task' \in [Clicks!Threads -> Task],
           \A u \in Clicks!Threads \ {t} : task'[u] = task[u],
           t = "tray" => Click(task["tray"])' /\ task'["tray"].pc # "script",
           t = "host" => UNCHANGED view,
           UNCHANGED <<device, config>>, status' \in Status, view' \in Device,
           left' \in [Bounds -> Nat]
    PROVE  DisplayInv'
  <1>1. CASE t = "tray"
    BY <1>1 DEF DisplayInv, DisplayShape
  <1>2. CASE t = "host"
    <2>1. task'["tray"] = task["tray"]
      BY <1>2, TwoThreads
    <2> QED
      BY <1>2, <2>1 DEF DisplayInv, DisplayShape, Click
  <1> QED
    BY <1>1, <1>2, TwoThreads

\* The taskbar is read, and the opposite will be set.
LEMMA ReadTaskbarStep ==
    ASSUME DisplayInv, NEW t \in Clicks!Threads, Clicks!ReadTaskbar(t)
    PROVE  DisplayInv'
  <1> DEFINE moved == Clicks!To(t, "set")
             hide == ~device.hide
  <1>1. /\ moved \in [Clicks!Threads -> Task]
        /\ \A u \in Clicks!Threads \ {t} : moved[u] = task[u]
        /\ moved[t].pc = "set" /\ moved[t].kind = task[t].kind /\ moved[t].action = task[t].action
        /\ moved[t].before <=> task[t].before
        /\ moved[t].clean <=> task[t].clean
    BY ToIs, TwoThreads DEF DisplayInv
  <1>2. /\ task' = [moved EXCEPT ![t].request.hide = hide]
        /\ task[t].pc = "read" /\ hide \in BOOLEAN
        /\ UNCHANGED <<device, config, status, view, left>>
    BY DEF Clicks!ReadTaskbar
  <1> HIDE DEF moved, hide
  <1>3. /\ task' \in [Clicks!Threads -> Task]
        /\ \A u \in Clicks!Threads \ {t} : task'[u] = moved[u]
        /\ task'[t].pc = "set" /\ task'[t].kind = moved[t].kind /\ task'[t].action = moved[t].action
        /\ task'[t].before <=> moved[t].before
        /\ task'[t].clean <=> moved[t].clean
        /\ task'[t].request.hide <=> hide
    <2> DEFINE request == [moved[t].request EXCEPT !.hide = hide]
    <2>1. request \in Device /\ (request.hide <=> hide)
      BY <1>1, <1>2 DEF Task, Device
    <2>2. task' = [moved EXCEPT ![t].request = request]
      BY <1>2
    <2> HIDE DEF request
    <2> QED
      BY <1>1, <2>1, <2>2 DEF Task
  <1>4. t = "tray" => Click(task["tray"])'
    BY <1>1, <1>2, <1>3 DEF DisplayInv, Click, hide
  <1> QED
    BY <1>1, <1>2, <1>3, <1>4, OneMoves DEF DisplayInv, DisplayShape

\* The taskbar is set.
LEMMA SetTaskbarStep ==
    ASSUME DisplayInv, NEW t \in Clicks!Threads, Clicks!SetTaskbar(t)
    PROVE  DisplayInv'
  <1> DEFINE moved == Clicks!To(t, "bridge")
  <1>1. /\ moved \in [Clicks!Threads -> Task]
        /\ \A u \in Clicks!Threads \ {t} : moved[u] = task[u]
        /\ moved[t].pc = "bridge" /\ moved[t].kind = task[t].kind /\ moved[t].action = task[t].action
        /\ moved[t].before <=> task[t].before
        /\ moved[t].clean <=> task[t].clean
    BY ToIs, TwoThreads DEF DisplayInv
  <1>2. /\ device' = [device EXCEPT !.hide = task[t].request.hide]
        /\ task' = Clicks!Cross(moved, t) /\ task[t].pc = "set"
        /\ UNCHANGED <<config, status, view, left>>
    BY DEF Clicks!SetTaskbar
  <1> HIDE DEF moved
  <1>3. device' \in Device /\ (device'.hide <=> task[t].request.hide)
    BY <1>2 DEF DisplayInv, DisplayShape, Task, Device
  <1>4. /\ task' \in [Clicks!Threads -> Task] /\ task'[t] = moved[t]
        /\ \A u \in Clicks!Threads \ {t} : ~task'[u].clean /\ task'[u].pc = moved[u].pc
    BY <1>1, <1>2, CrossIs
  <1>5. CASE t = "tray"
    <2>1. Click(task["tray"])'
      BY <1>1, <1>2, <1>3, <1>4, <1>5 DEF DisplayInv, Click
    <2> QED
      BY <1>1, <1>2, <1>3, <1>4, <1>5, <2>1 DEF DisplayInv, DisplayShape
  <1>6. CASE t = "host"
    <2>1. ~task'["tray"].clean /\ task'["tray"].pc = task["tray"].pc
      BY <1>1, <1>4, <1>6, TwoThreads
    <2> QED
      BY <1>2, <1>3, <1>4, <2>1 DEF DisplayInv, DisplayShape, Click
  <1> QED
    BY <1>5, <1>6, TwoThreads

\* The bridge reports.
LEMMA BridgeReportsStep ==
    ASSUME DisplayInv, NEW t \in Clicks!Threads, Clicks!BridgeReports(t)
    PROVE  DisplayInv'
  <1> DEFINE moved == Clicks!To(t, "look")
             told == [hide |-> FALSE, mode |-> device.mode, scale |-> device.scale]
             unclean == [moved EXCEPT ![t].clean = FALSE]
  <1>1. /\ moved \in [Clicks!Threads -> Task]
        /\ \A u \in Clicks!Threads \ {t} : moved[u] = task[u]
        /\ moved[t].pc = "look" /\ moved[t].kind = task[t].kind /\ moved[t].action = task[t].action
        /\ moved[t].before <=> task[t].before
        /\ moved[t].clean <=> task[t].clean
    BY ToIs, TwoThreads DEF DisplayInv
  <1>2. /\ task[t].pc = "bridge" /\ UNCHANGED <<device, config, status, view>>
        /\ \/ task' = [moved EXCEPT ![t].result = told] /\ UNCHANGED left
           \/ /\ left.faults > 0 /\ left' = [left EXCEPT !.faults = @ - 1]
              /\ task' = [unclean EXCEPT ![t].result = Clicks!NoResult]
    BY DEF Clicks!BridgeReports
  <1>3. told \in Result /\ Clicks!NoResult \in Result
    BY IdleTask DEF Result, DisplayInv, DisplayShape, Device
  <1>4. left' \in [Bounds -> Nat]
    BY <1>2 DEF DisplayInv, DisplayShape, Bounds
  <1> HIDE DEF moved, told
  <1>5. /\ unclean \in [Clicks!Threads -> Task]
        /\ \A u \in Clicks!Threads \ {t} : unclean[u] = moved[u]
        /\ unclean[t].pc = "look" /\ ~unclean[t].clean
    BY <1>1 DEF Task
  <1> HIDE DEF unclean
  <1>6. /\ task' \in [Clicks!Threads -> Task]
        /\ \A u \in Clicks!Threads \ {t} : task'[u] = task[u]
        /\ task'[t].pc = "look"
        /\ \/ ~task'[t].clean
           \/ /\ task'[t].kind = task[t].kind /\ task'[t].action = task[t].action
              /\ task'[t].before <=> task[t].before
              /\ task'[t].clean <=> task[t].clean
    <2>1. CASE task' = [moved EXCEPT ![t].result = told]
      BY <1>1, <1>3, <2>1 DEF Task
    <2>2. CASE task' = [unclean EXCEPT ![t].result = Clicks!NoResult]
      <3>1. /\ task' \in [Clicks!Threads -> Task]
            /\ \A u \in Clicks!Threads \ {t} : task'[u] = unclean[u]
            /\ task'[t].pc = unclean[t].pc
            /\ task'[t].clean <=> unclean[t].clean
        BY <1>3, <1>5, <2>2 DEF Task
      <3> QED
        BY <1>1, <1>5, <3>1
    <2> QED
      BY <1>2, <2>1, <2>2
  <1>7. t = "tray" => Click(task["tray"])'
    BY <1>2, <1>6 DEF DisplayInv, Click
  <1> QED
    BY <1>2, <1>4, <1>6, <1>7, OneMoves DEF DisplayInv, DisplayShape

\* The bridge sets a mode or a scale, and fails.
LEMMA BridgeSetsStep ==
    ASSUME DisplayInv, NEW t \in Clicks!Threads, Clicks!BridgeSets(t)
    PROVE  DisplayInv'
  <1> DEFINE moved == Clicks!To(t, "failed")
  <1>1. /\ moved \in [Clicks!Threads -> Task]
        /\ \A u \in Clicks!Threads \ {t} : moved[u] = task[u]
        /\ moved[t].pc = "failed" /\ moved[t].action = task[t].action
    BY ToIs, TwoThreads DEF DisplayInv
  <1>2. /\ task[t].action \in {"set-resolution", "set-scale"}
        /\ device' = IF task[t].action = "set-resolution"
                     THEN [device EXCEPT !.mode = task[t].request.mode]
                     ELSE [device EXCEPT !.scale = task[t].request.scale]
        /\ task' = Clicks!Cross(moved, t)
        /\ UNCHANGED <<config, status, view, left>>
    BY DEF Clicks!BridgeSets
  <1> HIDE DEF moved
  <1>3. device' \in Device
    BY <1>2 DEF DisplayInv, DisplayShape, Task, Device
  <1>4. /\ task' \in [Clicks!Threads -> Task] /\ task'[t] = moved[t]
        /\ \A u \in Clicks!Threads \ {t} : ~task'[u].clean /\ task'[u].pc = moved[u].pc
    BY <1>1, <1>2, CrossIs
  <1>5. Click(task["tray"])' /\ task'["tray"].pc # "script"
    BY <1>1, <1>2, <1>4, TwoThreads DEF Click, DisplayInv, DisplayShape
  <1> QED
    BY <1>2, <1>3, <1>4, <1>5 DEF DisplayInv, DisplayShape

\* The taskbar is read last.
LEMMA LookAtTaskbarStep ==
    ASSUME DisplayInv, NEW t \in Clicks!Threads, Clicks!LookAtTaskbar(t)
    PROVE  DisplayInv'
  <1> DEFINE moved == Clicks!To(t, "save")
             hide == device.hide
  <1>1. /\ moved \in [Clicks!Threads -> Task]
        /\ \A u \in Clicks!Threads \ {t} : moved[u] = task[u]
        /\ moved[t].pc = "save" /\ moved[t].kind = task[t].kind /\ moved[t].action = task[t].action
        /\ moved[t].before <=> task[t].before
        /\ moved[t].clean <=> task[t].clean
    BY ToIs, TwoThreads DEF DisplayInv
  <1>2. /\ task' = [moved EXCEPT ![t].result.hide = hide]
        /\ task[t].pc = "look" /\ UNCHANGED <<device, config, status, view, left>>
    BY DEF Clicks!LookAtTaskbar
  <1>3. hide \in BOOLEAN
    BY DEF DisplayInv, DisplayShape, Device
  <1> HIDE DEF moved, hide
  <1>4. /\ task' \in [Clicks!Threads -> Task]
        /\ \A u \in Clicks!Threads \ {t} : task'[u] = moved[u]
        /\ task'[t].pc = "save" /\ task'[t].kind = moved[t].kind /\ task'[t].action = moved[t].action
        /\ task'[t].before <=> moved[t].before
        /\ task'[t].clean <=> moved[t].clean
        /\ task'[t].result.hide <=> hide
    <2> DEFINE result == [moved[t].result EXCEPT !.hide = hide]
    <2>1. result \in Result /\ (result.hide <=> hide)
      BY <1>1, <1>3 DEF Task, Result
    <2>2. task' = [moved EXCEPT ![t].result = result]
      BY <1>2
    <2> HIDE DEF result
    <2> QED
      BY <1>1, <2>1, <2>2 DEF Task
  <1>5. t = "tray" => Click(task["tray"])'
    BY <1>1, <1>2, <1>4 DEF DisplayInv, Click, hide
  <1> QED
    BY <1>1, <1>2, <1>4, <1>5, OneMoves DEF DisplayInv, DisplayShape

\* A call fails.
LEMMA CallFailsStep ==
    ASSUME DisplayInv, NEW t \in Clicks!Threads, Clicks!CallFails(t)
    PROVE  DisplayInv'
  <1> DEFINE moved == Clicks!To(t, "failed")
  <1>1. /\ moved \in [Clicks!Threads -> Task]
        /\ \A u \in Clicks!Threads \ {t} : moved[u] = task[u]
        /\ moved[t].pc = "failed"
    BY ToIs, TwoThreads DEF DisplayInv
  <1>2. /\ task' = [moved EXCEPT ![t].clean = FALSE]
        /\ left.faults > 0 /\ left' = [left EXCEPT !.faults = @ - 1]
        /\ UNCHANGED <<device, config, status, view>>
    BY DEF Clicks!CallFails
  <1>3. left' \in [Bounds -> Nat]
    BY <1>2 DEF DisplayInv, DisplayShape, Bounds
  <1> HIDE DEF moved
  <1>4. /\ task' \in [Clicks!Threads -> Task]
        /\ \A u \in Clicks!Threads \ {t} : task'[u] = moved[u]
        /\ task'[t].pc = "failed" /\ ~task'[t].clean
    BY <1>1, <1>2 DEF Task
  <1>5. t = "tray" => Click(task["tray"])'
    BY <1>4 DEF Click
  <1> QED
    BY <1>1, <1>2, <1>3, <1>4, <1>5, OneMoves DEF DisplayInv, DisplayShape

\* The host thread turns to something else.
LEMMA HostMoves ==
    ASSUME DisplayInv, NEW h \in Task, task' = [task EXCEPT !["host"] = h],
           UNCHANGED <<device, config, view>>, status' \in Status, left' \in [Bounds -> Nat]
    PROVE  DisplayInv'
  <1>1. /\ task' \in [Clicks!Threads -> Task]
        /\ \A u \in Clicks!Threads \ {"host"} : task'[u] = task[u]
    BY DEF DisplayInv, DisplayShape
  <1> QED
    BY <1>1, OneMoves, TwoThreads DEF DisplayInv, DisplayShape

\* The tray thread turns to something else, and the display stays as it is.
LEMMA TrayMoves ==
    ASSUME DisplayInv, NEW h \in Task, task' = [task EXCEPT !["tray"] = h],
           h.pc # "script", Click(h)',
           UNCHANGED <<device, config, left>>, status' \in Status, view' \in Device
    PROVE  DisplayInv'
  <1>1. /\ task' \in [Clicks!Threads -> Task]
        /\ \A u \in Clicks!Threads \ {"tray"} : task'[u] = task[u]
        /\ task'["tray"] = h
    BY TwoThreads DEF DisplayInv, DisplayShape
  <1>2. Click(task["tray"])' /\ task'["tray"].pc # "script"
    BY <1>1 DEF Click
  <1> QED
    BY <1>1, <1>2, OneMoves, TwoThreads DEF DisplayInv, DisplayShape

\* A trigger begins.
LEMMA TriggerStep ==
    ASSUME DisplayInv, NEW action \in Clicks!Actions, Clicks!Trigger(action)
    PROVE  DisplayInv'
  <1> DEFINE job == Clicks!Job("trigger", <<action>>, config)
  <1>1. job \in Task
    <2>1. <<action>> \in Seq(Clicks!Actions) /\ <<action>> # <<>> /\ "trigger" \in Kinds
      BY DEF Kinds
    <2>2. DisplayShape /\ config \in Clicks!Config
      BY DEF DisplayInv, DisplayShape
    <2> QED
      BY <2>1, <2>2, JobIs
  <1>2. left' \in [Bounds -> Nat]
    BY DEF Clicks!Trigger, DisplayInv, DisplayShape, Bounds
  <1>3. task' = [task EXCEPT !["host"] = job] /\ UNCHANGED <<device, config, status, view>>
    BY DEF Clicks!Trigger
  <1> HIDE DEF job
  <1> QED
    BY <1>1, <1>2, <1>3, HostMoves DEF DisplayInv, DisplayShape

\* "Save and apply" begins.
LEMMA ApplyStep ==
    ASSUME DisplayInv, Clicks!Apply
    PROVE  DisplayInv'
  <1> DEFINE job == Clicks!Job("apply", Clicks!ApplyActions, config)
  <1>1. Clicks!ApplyActions \in Seq(Clicks!Actions) /\ Clicks!ApplyActions # <<>>
    BY DEF Clicks!ApplyActions, Clicks!Actions, Clicks!TaskbarActions
  <1>2. job \in Task
    BY <1>1, JobIs DEF DisplayInv, DisplayShape, Kinds
  <1>3. left' \in [Bounds -> Nat]
    BY DEF Clicks!Apply, DisplayInv, DisplayShape, Bounds
  <1>4. task' = [task EXCEPT !["host"] = job] /\ UNCHANGED <<device, config, status, view>>
    BY DEF Clicks!Apply
  <1> HIDE DEF job
  <1> QED
    BY <1>2, <1>3, <1>4, HostMoves DEF DisplayInv, DisplayShape

\* A click or a choice in the menu.
LEMMA TrayActStep ==
    ASSUME DisplayInv, NEW action, NEW wanted, Clicks!TrayAct(action, wanted),
           \/ action = "set-resolution" /\ wanted \in Modes
           \/ action = "set-scale" /\ wanted \in Scales
           \/ action = "toggle-taskbar-autohide" /\ wanted = Unset
    PROVE  DisplayInv'
  <1> DEFINE crossed == Clicks!Cross(task, "tray")
             job == Clicks!Job("click", <<action>>, config')
             click == [job EXCEPT !.wanted = wanted]
  <1>1. config' \in Clicks!Config
    BY DEF Clicks!TrayAct, DisplayInv, DisplayShape, Clicks!Config
  <1>2. /\ <<action>> \in Seq(Clicks!Actions) /\ <<action>> # <<>> /\ Head(<<action>>) = action
        /\ wanted \in Modes \cup Scales \cup {Unset}
    BY DEF Clicks!Actions, Clicks!TaskbarActions
  <1>3. /\ job \in Task /\ job.pc = Clicks!First(action)
        /\ job.action = action
        /\ job.before <=> device.hide
    <2>1. DisplayShape /\ "click" \in Kinds
      BY DEF DisplayInv, Kinds
    <2> QED
      BY <1>1, <1>2, <2>1, JobIs
  <1>4. crossed \in [Clicks!Threads -> Task]
    BY CrossIs DEF DisplayInv, DisplayShape
  <1>5. /\ left' \in [Bounds -> Nat] /\ UNCHANGED <<device, status, view>>
        /\ task' = [crossed EXCEPT !["tray"] = click]
    BY DEF Clicks!TrayAct, DisplayInv, DisplayShape, Bounds
  <1> HIDE DEF crossed, job
  <1>6. /\ click \in Task /\ click.pc = Clicks!First(action) /\ click.action = action
        /\ click.before <=> device.hide
    BY <1>2, <1>3 DEF Task
  <1> HIDE DEF click
  <1>7. task' \in [Clicks!Threads -> Task] /\ task'["tray"] = click
    BY <1>4, <1>5, <1>6, TwoThreads
  <1>8. Clicks!First("toggle-taskbar-autohide") = "read" /\ Clicks!First(action) # "script"
    BY DEF Clicks!First
  <1>9. Click(task["tray"])'
    BY <1>5, <1>6, <1>7, <1>8 DEF Click
  <1> QED
    BY <1>1, <1>5, <1>6, <1>7, <1>8, <1>9 DEF DisplayInv, DisplayShape

\* The tray asks for the status.
LEMMA BeginRefreshStep ==
    ASSUME DisplayInv, Clicks!BeginRefresh
    PROVE  DisplayInv'
  <1>1. /\ <<"status">> \in Seq(Clicks!Actions) /\ <<"status">> # <<>>
        /\ Head(<<"status">>) = "status" /\ "refresh" \in Kinds
    BY DEF Clicks!Actions, Kinds
  <1>2. DisplayShape /\ config \in Clicks!Config
    BY DEF DisplayInv, DisplayShape
  <1> DEFINE begun == Clicks!Job("refresh", <<"status">>, config)
             blank == [begun EXCEPT !.before = FALSE]
             refreshed == [blank EXCEPT !.sampled = Clicks!EmptyStatus]
  <1>3. /\ begun \in Task /\ begun.pc = Clicks!First(Head(<<"status">>))
        /\ begun.kind = "refresh"
    BY <1>1, <1>2, JobIs
  <1>4. refreshed \in Task /\ refreshed.pc = begun.pc /\ refreshed.kind = begun.kind
    <2> HIDE DEF begun
    <2>1. blank \in Task /\ blank.pc = begun.pc /\ blank.kind = begun.kind
      BY <1>3 DEF Task
    <2> HIDE DEF blank
    <2> QED
      BY <2>1, IdleTask DEF Task
  <1>5. task' = [task EXCEPT !["tray"] = refreshed]
        /\ UNCHANGED <<device, config, status, view, left>>
    BY DEF Clicks!BeginRefresh
  <1> HIDE DEF refreshed
  <1>6. PICK ask \in Task : ask = refreshed
    BY <1>4
  <1>7. ask.pc # "script" /\ ask.kind = "refresh"
    BY <1>1, <1>3, <1>4, <1>6 DEF Clicks!First
  <1>8. Click(ask)'
    BY <1>7 DEF Click
  <1> QED
    BY <1>5, <1>6, <1>7, <1>8, TrayMoves DEF DisplayInv, DisplayShape

\* The host saves what its action has reported.
LEMMA HostSavesStep ==
    ASSUME DisplayInv, Clicks!HostSaves
    PROVE  DisplayInv'
  <1> DEFINE h == task["host"]
             updated == Clicks!Updated(h.sampled, h.result)
             job == Clicks!Job("apply", h.rest, config)
             known == [job EXCEPT !.clean = h.clean]
             next == Clicks!Continue("host")
  <1>1. h \in Task /\ "host" \in Clicks!Threads
    BY TwoThreads DEF DisplayInv, DisplayShape
  <1>2. updated \in Status
    BY <1>1, UpdatedIs DEF Task
  <1>3. /\ status' = [updated EXCEPT !.contract = TRUE]
        /\ task' = [task EXCEPT !["host"] = next] /\ UNCHANGED <<device, config, view, left>>
    BY DEF Clicks!HostSaves
  <1> HIDE DEF updated
  <1>4. status' \in Status
    BY <1>2, <1>3 DEF Status
  <1>5. next \in Task
    <2>1. CASE h.kind = "apply" /\ h.rest # <<>>
      <3>1. job \in Task
        BY <1>1, <2>1, JobIs DEF DisplayInv, DisplayShape, Task, Kinds
      <3>2. next = [known EXCEPT !.sampled = status']
        BY <2>1 DEF Clicks!Continue
      <3> HIDE DEF job, h
      <3>3. known \in Task
        BY <1>1, <3>1 DEF Task
      <3> HIDE DEF known
      <3> QED
        BY <1>4, <3>2, <3>3 DEF Task
    <2>2. CASE ~(h.kind = "apply" /\ h.rest # <<>>) /\ h.kind = "trigger"
      <3>1. next = Clicks!To("host", "script")["host"]
        BY <2>2 DEF Clicks!Continue
      <3> QED
        BY <1>1, <3>1, ToIs, TwoThreads DEF DisplayInv
    <2>3. CASE ~(h.kind = "apply" /\ h.rest # <<>>) /\ h.kind # "trigger"
      <3>1. next = Clicks!Over("host")
        BY <2>3 DEF Clicks!Continue
      <3> QED
        BY <1>1, <3>1, OverIs DEF DisplayInv
    <2> QED
      BY <2>1, <2>2, <2>3
  <1> HIDE DEF next
  <1> QED
    BY <1>3, <1>4, <1>5, HostMoves DEF DisplayInv, DisplayShape

\* The host's action has failed, or its script has ended.
LEMMA HostEndsStep ==
    ASSUME DisplayInv, Clicks!HostFails \/ Clicks!ScriptEnds
    PROVE  DisplayInv'
  <1>1. Clicks!Over("host") \in Task /\ task["host"].sampled \in Status
    BY OverIs, TwoThreads DEF DisplayInv, DisplayShape, Task
  <1>2. CASE Clicks!HostFails
    <2>1. /\ status' = [task["host"].sampled EXCEPT !.ok = FALSE, !.contract = TRUE]
          /\ task' = [task EXCEPT !["host"] = Clicks!Over("host")]
          /\ UNCHANGED <<device, config, view, left>>
      BY <1>2 DEF Clicks!HostFails
    <2>2. status' \in Status
      BY <1>1, <2>1 DEF Status
    <2> QED
      BY <1>1, <2>1, <2>2, HostMoves DEF DisplayInv, DisplayShape
  <1>3. CASE Clicks!ScriptEnds
    BY <1>1, <1>3, HostMoves DEF Clicks!ScriptEnds, DisplayInv, DisplayShape
  <1> QED
    BY <1>2, <1>3

\* The host starts the script of a trigger.
LEMMA RunScriptStep ==
    ASSUME DisplayInv, Clicks!RunScript
    PROVE  DisplayInv'
  <1> DEFINE first == Clicks!First(task["host"].action)
             request == Clicks!BuildRequest(Clicks!ScriptConfig)
             begun == [task EXCEPT !["host"].pc = first]
             script == [begun EXCEPT !["host"].kind = "script"]
  <1>1. "host" \in Clicks!Threads /\ task \in [Clicks!Threads -> Task]
    BY TwoThreads DEF DisplayInv, DisplayShape
  <1>2. first \in Pcs /\ "script" \in Kinds
    BY DEF Clicks!First, Pcs, Kinds
  <1>3. Clicks!ScriptConfig \in Clicks!Config
    BY Defaults DEF Clicks!ScriptConfig, Clicks!NoConfig, Clicks!Config
  <1>4. request \in Device
    BY <1>3, Requests
  <1>5. task' = [script EXCEPT !["host"].request = request]
        /\ UNCHANGED <<device, config, status, view, left>>
    BY DEF Clicks!RunScript
  <1> HIDE DEF first, request
  <1>6. begun \in [Clicks!Threads -> Task] /\ begun["tray"] = task["tray"]
    BY <1>1, <1>2, TwoThreads DEF Task
  <1> HIDE DEF begun
  <1>7. script \in [Clicks!Threads -> Task] /\ script["tray"] = begun["tray"]
    BY <1>1, <1>2, <1>6, TwoThreads DEF Task
  <1> HIDE DEF script
  <1>8. task' \in [Clicks!Threads -> Task] /\ task'["tray"] = script["tray"]
    <2>1. script["host"] \in Task /\ [script["host"] EXCEPT !.request = request] \in Task
      BY <1>1, <1>4, <1>7 DEF Task
    <2>2. task' = [script EXCEPT !["host"] = [script["host"] EXCEPT !.request = request]]
      BY <1>5
    <2> QED
      BY <1>1, <1>7, <2>1, <2>2, TwoThreads
  <1> QED
    BY <1>1, <1>5, <1>6, <1>7, <1>8, OneMoves, TwoThreads DEF DisplayInv, DisplayShape

\* The tray saves what its action has reported, and shows it.
LEMMA TraySavesStep ==
    ASSUME DisplayInv, Clicks!TraySaves
    PROVE  DisplayInv'
  <1> DEFINE h == task["tray"]
  <1>1. h \in Task /\ "tray" \in Clicks!Threads
    BY TwoThreads DEF DisplayInv, DisplayShape
  <1>2. PICK over \in Task :
            /\ over = Clicks!Over("tray")
            /\ over.pc = "over" /\ over.kind = h.kind /\ over.action = h.action
            /\ over.before <=> h.before
            /\ over.clean <=> h.clean
    BY <1>1, OverIs DEF DisplayInv
  <1>3. /\ h.pc = "save" /\ status' = Clicks!Updated(status, h.result)
        /\ view' = Clicks!View(h.result)
        /\ task' = [task EXCEPT !["tray"] = over]
        /\ UNCHANGED <<device, config, left>>
    BY <1>2 DEF Clicks!TraySaves
  <1>4. status' \in Status
    BY <1>1, <1>3, UpdatedIs DEF DisplayInv, DisplayShape, Task
  <1>5. view' \in Device /\ (view'.hide <=> h.result.hide)
    BY <1>1, <1>3, Defaults DEF Clicks!View, Clicks!Or, Device, Result, Task, DisplayInv,
       DisplayShape, Clicks!Config
  <1>6. Click(over)'
    BY <1>2, <1>3, <1>5 DEF DisplayInv, Click
  <1> QED
    BY <1>2, <1>3, <1>4, <1>5, <1>6, TrayMoves

\* An action of the tray has failed.
LEMMA TrayFailsStep ==
    ASSUME DisplayInv, Clicks!TrayFails
    PROVE  DisplayInv'
  <1> DEFINE h == task["tray"]
  <1>1. PICK over \in Task :
            /\ over = Clicks!Over("tray")
            /\ over.pc = "over" /\ over.kind = h.kind /\ over.action = h.action
            /\ over.clean <=> h.clean
    BY OverIs, TwoThreads DEF DisplayInv
  <1>2. /\ h.pc = "failed" /\ task' = [task EXCEPT !["tray"] = over]
        /\ UNCHANGED <<device, config, status, view, left>>
    BY <1>1 DEF Clicks!TrayFails
  <1>3. Click(over)'
    BY <1>1, <1>2 DEF DisplayInv, Click
  <1> QED
    BY <1>1, <1>2, <1>3, TrayMoves DEF DisplayInv, DisplayShape

\* Somebody else changes the display or the settings.
LEMMA EditStep ==
    ASSUME DisplayInv, Clicks!Edit \/ Refresh!Edit
    PROVE  DisplayInv'
  <1>1. /\ left' \in [Bounds -> Nat] /\ UNCHANGED <<status, view>>
        /\ task' = Clicks!Cross(task, "user")
    BY DEF Clicks!Edit, Refresh!Edit, Clicks!Cross, Refresh!Cross, Clicks!Threads,
       Refresh!Threads,
       DisplayInv, DisplayShape, Bounds
  <1>2. device' \in Device /\ config' \in Clicks!Config
    BY Defaults DEF Clicks!Edit, Refresh!Edit, DisplayInv, DisplayShape, Device
  <1>3. /\ task' \in [Clicks!Threads -> Task]
        /\ ~task'["tray"].clean /\ task'["tray"].pc = task["tray"].pc
    BY <1>1, CrossIs, TwoThreads DEF DisplayInv, DisplayShape
  <1> QED
    BY <1>1, <1>2, <1>3 DEF DisplayInv, DisplayShape, Click

\* The display before anything is done to it.
LEMMA DisplayInit == Clicks!Init \/ Refresh!Init => DisplayInv
  <1> SUFFICES ASSUME Clicks!Init \/ Refresh!Init
               PROVE  DisplayInv
    OBVIOUS
  <1>1. /\ device \in [hide : BOOLEAN, mode : {DefaultMode}, scale : {DefaultScale}]
        /\ config \in ClickConfigs \cup RefreshConfigs
        /\ status = Clicks!EmptyStatus
        /\ view = [hide |-> FALSE, mode |-> DefaultMode, scale |-> DefaultScale]
        /\ task = [t \in Clicks!Threads |-> Clicks!Idle]
    BY DEF Clicks!Init, Refresh!Init, Clicks!EmptyStatus, Refresh!EmptyStatus, Clicks!Threads,
       Refresh!Threads, Clicks!Idle, Refresh!Idle, Clicks!BuildRequest, Refresh!BuildRequest,
       Clicks!ReadSize, Refresh!ReadSize, Clicks!Partials, Refresh!Partials, Clicks!Or,
       Refresh!Or, Clicks!NoConfig, Refresh!NoConfig, Clicks!NoResult, Refresh!NoResult
  <1>2. left \in [Bounds -> Nat]
    BY Defaults DEF Clicks!Init, Refresh!Init, Bounds
  <1>3. device \in Device /\ view \in Device /\ config \in Clicks!Config
    BY <1>1, Defaults DEF Device
  <1>4. /\ task \in [Clicks!Threads -> Task] /\ status \in Status
        /\ task["tray"].pc = "idle" /\ task["tray"].kind = "none"
    BY <1>1, IdleTask, TwoThreads
  <1> QED
    BY <1>2, <1>3, <1>4 DEF DisplayInv, DisplayShape, Click

\* The steps of an action.
LEMMA ActionSteps ==
    ASSUME DisplayInv, NEW t \in Clicks!Threads, Clicks!ActionStep(t)
    PROVE  DisplayInv'
  BY ReadTaskbarStep, SetTaskbarStep, LookAtTaskbarStep, BridgeReportsStep, BridgeSetsStep
     DEF Clicks!ActionStep

\* A choice in the menu and a left click.
LEMMA TrayActSteps ==
    ASSUME DisplayInv, Clicks!MenuChoice \/ Clicks!LeftClick
    PROVE  DisplayInv'
  <1>1. ASSUME NEW mode \in Modes, Clicks!TrayAct("set-resolution", mode)
        PROVE  DisplayInv'
    BY <1>1, TrayActStep
  <1>2. ASSUME NEW scale \in Scales, Clicks!TrayAct("set-scale", scale)
        PROVE  DisplayInv'
    BY <1>2, TrayActStep
  <1>3. ASSUME Clicks!TrayAct("toggle-taskbar-autohide", Unset)
        PROVE  DisplayInv'
    BY <1>3, TrayActStep
  <1> QED
    BY <1>1, <1>2, <1>3 DEF Clicks!MenuChoice, Clicks!LeftClick

\* Every step of the part with clicks keeps the invariant.
LEMMA ClicksNext == DisplayInv /\ [Clicks!Next]_displayVars => DisplayInv'
  <1> SUFFICES ASSUME DisplayInv, [Clicks!Next]_displayVars
               PROVE  DisplayInv'
    OBVIOUS
  <1>1. CASE UNCHANGED displayVars
    BY <1>1 DEF displayVars, DisplayInv, DisplayShape, Click
  <1>2. CASE Clicks!Next
    BY <1>2, TriggerStep, ApplyStep, TrayActSteps, BeginRefreshStep, EditStep, ActionSteps,
       CallFailsStep, HostSavesStep, HostEndsStep, RunScriptStep, TraySavesStep, TrayFailsStep
       DEF Clicks!Next, Clicks!HostEnds, Clicks!TrayEnds
  <1> QED
    BY <1>1, <1>2

\* What the two parts have in common.
LEMMA SameHelpers ==
    /\ Clicks!Threads = Refresh!Threads
    /\ Clicks!Idle = Refresh!Idle /\ Clicks!EmptyStatus = Refresh!EmptyStatus
    /\ Clicks!NoResult = Refresh!NoResult /\ Clicks!ScriptConfig = Refresh!ScriptConfig
    /\ \A object : Clicks!BuildRequest(object) = Refresh!BuildRequest(object)
    /\ \A kind, actions, object :
            Clicks!Job(kind, actions, object) = Refresh!Job(kind, actions, object)
    /\ \A t, stage : Clicks!To(t, stage) = Refresh!To(t, stage)
    /\ \A tasks, t : Clicks!Cross(tasks, t) = Refresh!Cross(tasks, t)
    /\ \A t : Clicks!Over(t) = Refresh!Over(t)
    /\ \A t : Clicks!Free(t) <=> Refresh!Free(t)
    /\ \A action : Clicks!First(action) = Refresh!First(action)
  BY DEF Clicks!Threads, Refresh!Threads, Clicks!ScriptConfig, Refresh!ScriptConfig,
     Clicks!To, Refresh!To, Clicks!Cross, Refresh!Cross, Clicks!Over, Refresh!Over,
     Clicks!Free, Refresh!Free, Clicks!Job, Refresh!Job, Clicks!Idle, Refresh!Idle,
     Clicks!BuildRequest, Refresh!BuildRequest, Clicks!ReadSize, Refresh!ReadSize,
     Clicks!Partials, Refresh!Partials, Clicks!Or, Refresh!Or, Clicks!NoConfig,
     Refresh!NoConfig, Clicks!EmptyStatus, Refresh!EmptyStatus, Clicks!NoResult,
     Refresh!NoResult, Clicks!First, Refresh!First

\* Their steps are the same, except what the user saves.
LEMMA SameSteps ==
    /\ \A action : Refresh!Trigger(action) => Clicks!Trigger(action)
    /\ Refresh!Apply => Clicks!Apply
    /\ Refresh!MenuChoice => Clicks!MenuChoice
    /\ Refresh!LeftClick => Clicks!LeftClick
    /\ Refresh!BeginRefresh => Clicks!BeginRefresh
    /\ \A t : Refresh!ActionStep(t) => Clicks!ActionStep(t)
    /\ \A t : Refresh!CallFails(t) => Clicks!CallFails(t)
    /\ Refresh!HostEnds => Clicks!HostEnds
    /\ Refresh!TrayEnds => Clicks!TrayEnds
  <1>1. \A action : Refresh!Trigger(action) => Clicks!Trigger(action)
    BY SameHelpers DEF Clicks!Trigger, Refresh!Trigger
  <1>2. Refresh!Apply => Clicks!Apply
    BY SameHelpers DEF Clicks!Apply, Refresh!Apply, Clicks!ApplyActions,
       Refresh!ApplyActions
  <1>3. \A action, wanted : Refresh!TrayAct(action, wanted) => Clicks!TrayAct(action,
     wanted)
    BY SameHelpers DEF Clicks!TrayAct, Refresh!TrayAct
  <1>4. Refresh!BeginRefresh => Clicks!BeginRefresh
    BY SameHelpers DEF Clicks!BeginRefresh, Refresh!BeginRefresh
  <1>5. \A t : Refresh!ActionStep(t) => Clicks!ActionStep(t)
    BY SameHelpers DEF Clicks!ActionStep, Refresh!ActionStep, Clicks!ReadTaskbar,
       Refresh!ReadTaskbar, Clicks!SetTaskbar, Refresh!SetTaskbar, Clicks!LookAtTaskbar,
       Refresh!LookAtTaskbar, Clicks!BridgeReports, Refresh!BridgeReports,
       Clicks!BridgeSets, Refresh!BridgeSets, Clicks!TaskbarActions, Refresh!TaskbarActions
  <1>6. \A t : Refresh!CallFails(t) => Clicks!CallFails(t)
    BY SameHelpers DEF Clicks!CallFails, Refresh!CallFails
  <1>7. Refresh!HostSaves => Clicks!HostSaves
    BY SameHelpers DEF Clicks!HostSaves, Refresh!HostSaves, Clicks!Continue,
       Refresh!Continue, Clicks!Updated, Refresh!Updated, Clicks!Or, Refresh!Or
  <1>8. (Refresh!HostFails => Clicks!HostFails) /\ (Refresh!ScriptEnds => Clicks!ScriptEnds)
    BY SameHelpers DEF Clicks!HostFails, Refresh!HostFails, Clicks!ScriptEnds,
       Refresh!ScriptEnds
  <1>9. Refresh!RunScript => Clicks!RunScript
    BY SameHelpers DEF Clicks!RunScript, Refresh!RunScript
  <1>10. Refresh!TrayEnds => Clicks!TrayEnds
    BY SameHelpers DEF Clicks!TrayEnds, Refresh!TrayEnds, Clicks!TraySaves,
       Refresh!TraySaves, Clicks!TrayFails, Refresh!TrayFails, Clicks!Updated,
       Refresh!Updated, Clicks!Or, Refresh!Or, Clicks!View, Refresh!View
  <1> QED
    BY <1>1, <1>2, <1>3, <1>4, <1>5, <1>6, <1>7, <1>8, <1>9, <1>10
       DEF Clicks!MenuChoice, Refresh!MenuChoice, Clicks!LeftClick, Refresh!LeftClick,
          Clicks!HostEnds, Refresh!HostEnds

\* So does every step of the part with the refresh: the two parts differ in
\* their constants, which only Init and Edit mention.
LEMMA RefreshNext == DisplayInv /\ [Refresh!Next]_displayVars => DisplayInv'
  <1> SUFFICES ASSUME DisplayInv, [Refresh!Next]_displayVars
               PROVE  DisplayInv'
    OBVIOUS
  <1>1. CASE UNCHANGED displayVars
    BY <1>1 DEF displayVars, DisplayInv, DisplayShape, Click
  <1>2. CASE Refresh!Edit
    BY <1>2, EditStep
  <1>3. CASE Refresh!Next /\ ~Refresh!Edit
    <2>1. Clicks!Next
      BY <1>3, SameSteps DEF Clicks!Next, Refresh!Next, Clicks!TaskbarActions,
         Refresh!TaskbarActions, Clicks!Actions, Refresh!Actions, Clicks!Threads, Refresh!Threads
    <2> QED
      BY <2>1, ClicksNext
  <1> QED
    BY <1>1, <1>2, <1>3
-----------------------------------------------------------------------------
(* The field of the page.                                                  *)

\* A name to which a modifier is added, when it is down.
LEMMA Pushed ==
    ASSUME NEW S, NEW name \in Seq(S), NEW m \in S, NEW modifiers
    PROVE  /\ name \o Field!Push(m \in modifiers, m) \in Seq(S)
           /\ Field!ToSet(name \o Field!Push(m \in modifiers, m))
                = Field!ToSet(name) \cup ({m} \cap modifiers)
  <1>1. CASE m \in modifiers
    <2>1. name \o Field!Push(m \in modifiers, m) = Append(name, m)
      BY <1>1 DEF Field!Push
    <2>2. /\ Append(name, m) \in Seq(S) /\ DOMAIN name = 1..Len(name)
          /\ DOMAIN Append(name, m) = 1..(Len(name) + 1) /\ Len(name) \in Nat
          /\ Append(name, m)[Len(name) + 1] = m
          /\ \A i \in 1..Len(name) : Append(name, m)[i] = name[i]
      BY AppendProperties
    <2>3. Field!ToSet(Append(name, m)) = Field!ToSet(name) \cup {m}
      <3>1. 1..(Len(name) + 1) = 1..Len(name) \cup {Len(name) + 1}
        BY <2>2
      <3> QED
        BY <2>2, <3>1 DEF Field!ToSet
    <2> QED
      BY <1>1, <2>1, <2>2, <2>3
  <1>2. CASE m \notin modifiers
    <2>1. name \o Field!Push(m \in modifiers, m) = name
      BY <1>2 DEF Field!Push
    <2> QED
      BY <1>2, <2>1
  <1> QED
    BY <1>1, <1>2

\* The name of a key is none of the modifiers, unless the key is one.
LEMMA KeyNames ==
    ASSUME NEW key \in Field!OtherKeys
    PROVE  Field!KeyTable[key][1] \notin Field!Modifiers
  <1> DEFINE row == Field!KeyTable[key]
  <1>1. row[1] \in {"a", "7", ".", "+", "space", "enter", "esc", "delete", "page_up", "arrow_up",
                    "scroll_lock", "capslock", "f1", "f12", "f24", "find"}
    BY DEF Field!OtherKeys, Field!KeyTable
  <1> QED
    BY <1>1 DEF Field!Modifiers

\* What is captured are the modifiers and then the key.
LEMMA Captures ==
    ASSUME NEW e \in Field!Events
    PROVE  LET name == Field!NormalizeHotkeyEvent(e)
           IN  /\ DOMAIN name = 1 .. Len(name) /\ Len(name) \in Nat
               /\ Field!ToSet(name) \cap Field!Modifiers = e.modifiers
               /\ \A i \in 1 .. Len(name) - 1 : name[i] \in Field!Modifiers
               /\ e.key \in DOMAIN Field!ModifierKeys =>
                      \A i \in 1 .. Len(name) : name[i] \in Field!Modifiers
               /\ e.key \notin DOMAIN Field!ModifierKeys =>
                      Len(name) > 0 /\ name[Len(name)] = Field!NormalizeKey(e.key)
  <1> DEFINE M == Field!Modifiers
             empty == <<>>
             one == empty \o Field!Push("ctrl" \in e.modifiers, "ctrl")
             two == one \o Field!Push("alt" \in e.modifiers, "alt")
             three == two \o Field!Push("shift" \in e.modifiers, "shift")
             four == three \o Field!Push("meta" \in e.modifiers, "meta")
             last == Field!Push(e.key \notin DOMAIN Field!ModifierKeys, Field!NormalizeKey(e.key))
             name == Field!NormalizeHotkeyEvent(e)
  <1>1. /\ "ctrl" \in M /\ "alt" \in M /\ "shift" \in M /\ "meta" \in M
        /\ M \subseteq {"ctrl", "alt", "shift", "meta"} /\ e.modifiers \subseteq M
    BY DEF Field!Modifiers, Field!Events
  <1>2. name = four \o last
    BY DEF Field!NormalizeHotkeyEvent
  <1> HIDE DEF M, name, last
  <1>3. empty \in Seq(M) /\ Field!ToSet(empty) = {}
    BY DEF Field!ToSet
  <1> HIDE DEF empty
  <1>4. one \in Seq(M) /\ Field!ToSet(one) = ({"ctrl"} \cap e.modifiers)
    BY <1>1, <1>3, Pushed DEF Field!Push
  <1> HIDE DEF one
  <1>5. /\ two \in Seq(M)
        /\ Field!ToSet(two) = Field!ToSet(one) \cup ({"alt"} \cap e.modifiers)
    BY <1>1, <1>4, Pushed DEF Field!Push
  <1> HIDE DEF two
  <1>6. /\ three \in Seq(M)
        /\ Field!ToSet(three) = Field!ToSet(two) \cup ({"shift"} \cap e.modifiers)
    BY <1>1, <1>5, Pushed DEF Field!Push
  <1> HIDE DEF three
  <1>7. /\ four \in Seq(M)
        /\ Field!ToSet(four) = Field!ToSet(three) \cup ({"meta"} \cap e.modifiers)
    BY <1>1, <1>6, Pushed DEF Field!Push
  <1> HIDE DEF four
  <1>8. Field!ToSet(four) = e.modifiers
    BY <1>1, <1>4, <1>5, <1>6, <1>7
  <1>9. CASE e.key \in DOMAIN Field!ModifierKeys
    <2>1. name = four
      BY <1>2, <1>7, <1>9 DEF last, Field!Push
    <2>2. /\ \A i \in 1 .. Len(four) : four[i] \in M
          /\ DOMAIN four = 1 .. Len(four) /\ Len(four) \in Nat
      BY <1>7
    <2> QED
      BY <1>1, <1>8, <1>9, <2>1, <2>2 DEF M, name
  <1>10. CASE e.key \notin DOMAIN Field!ModifierKeys
    <2> DEFINE key == Field!NormalizeKey(e.key)
    <2>1. e.key \in Field!OtherKeys
      BY <1>10, Constants DEF Field!HotkeyKeysAssumption, Field!Events
    <2>2. key \notin M
      BY <1>10, <2>1, KeyNames DEF Field!NormalizeKey, M
    <2> HIDE DEF key
    <2>3. name = Append(four, key)
      BY <1>2, <1>10 DEF last, Field!Push, key
    <2>4. /\ Len(Append(four, key)) = Len(four) + 1 /\ Len(four) \in Nat
          /\ DOMAIN Append(four, key) = 1..(Len(four) + 1) /\ DOMAIN four = 1..Len(four)
          /\ \A i \in 1..Len(four) : Append(four, key)[i] = four[i] /\ four[i] \in M
          /\ Append(four, key)[Len(four) + 1] = key
      <3>1. four \in Seq(M \cup {key}) /\ key \in M \cup {key}
        BY <1>7
      <3>2. \A i \in 1..Len(four) : four[i] \in M
        BY <1>7
      <3> QED
        BY <3>1, <3>2, AppendProperties
    <2>5. Field!ToSet(name) = Field!ToSet(four) \cup {key}
      <3>1. 1..(Len(four) + 1) = 1..Len(four) \cup {Len(four) + 1}
        BY <2>4
      <3> QED
        BY <2>3, <2>4, <3>1 DEF Field!ToSet
    <2> QED
      BY <1>1, <1>8, <1>10, <2>2, <2>3, <2>4, <2>5 DEF M, name, key
  <1> QED
    BY <1>9, <1>10

\* In the beginning the field shows the default.
LEMMA FieldInit == Field!Init => Field!TypeOK
  <1> SUFFICES ASSUME Field!Init
               PROVE  Field!TypeOK
    OBVIOUS
  <1>1. value = <<"scroll_lock">> /\ down.modifiers = {}
    BY DEF Field!Init
  <1>2. Field!ToSet(value) = {"scroll_lock"} /\ Len(value) = 1
    BY <1>1 DEF Field!ToSet
  <1> QED
    BY <1>1, <1>2 DEF Field!TypeOK, Field!Modifiers

\* Every key that is pressed leaves a name of that form.
LEMMA FieldNext == Field!TypeOK /\ [Field!Next]_fieldVars => Field!TypeOK'
  <1> SUFFICES ASSUME Field!TypeOK, [Field!Next]_fieldVars
               PROVE  Field!TypeOK'
    OBVIOUS
  <1>1. CASE Field!Clear
    <2>1. value' = <<>> /\ down'.modifiers = {}
      BY <1>1 DEF Field!Clear, Field!NoKey
    <2>2. Field!ToSet(value') = {} /\ Len(value') = 0
      BY <2>1 DEF Field!ToSet
    <2> QED
      BY <2>1, <2>2 DEF Field!TypeOK, Field!ToSet
  <1>2. ASSUME NEW e \in Field!Events, Field!KeyDown(e)
        PROVE  Field!TypeOK'
    <2>1. value' = Field!NormalizeHotkeyEvent(e) /\ down' = e
      BY <1>2 DEF Field!KeyDown
    <2> QED
      BY <2>1, Captures DEF Field!TypeOK, Field!ToSet, Field!Modifiers
  <1>3. CASE UNCHANGED fieldVars
    BY <1>3 DEF fieldVars, Field!TypeOK, Field!ToSet, Field!Modifiers
  <1> QED
    BY <1>1, <1>2, <1>3 DEF Field!Next
-----------------------------------------------------------------------------
(* The choices of the page.                                                *)

\* A set of numbers has a least one.
LEMMA LeastNumber ==
    ASSUME NEW T, T \subseteq Nat, T # {}
    PROVE  \E x \in T : \A y \in T : x <= y
  <1>1. PICK x \in T : \A y \in T : ~ (<<y, x>> \in OpToRel(<, Nat))
    BY WFMin, NatLessThanWellFounded
  <1>2. \A y \in T : ~ (y < x)
    BY <1>1 DEF OpToRel
  <1> QED
    BY <1>2

\* What is kept when one more value comes.
Kept(seen, v) == IF v \in Refresh!ToSet(seen) THEN seen ELSE Append(seen, v)

\* What is kept of the first values, as far as n.
KeptOf(values, f, n) ==
    f = [k \in 0 .. n |-> IF k = 0 THEN <<>> ELSE Kept(f[k - 1], values[k])]

\* The values are finite, so there is such a function.
LEMMA KeptExists ==
    ASSUME NEW S, NEW values \in Seq(S), NEW n \in 0 .. Len(values)
    PROVE  \E f : KeptOf(values, f, n)
  <1> DEFINE T == {k \in 0 .. Len(values) : ~ \E f : KeptOf(values, f, k)}
  <1>1. ASSUME T # {}
        PROVE  FALSE
    <2>1. PICK x \in T : \A y \in T : x <= y
      <3>1. T \subseteq Nat
        OBVIOUS
      <3> HIDE DEF T
      <3> QED
        BY <1>1, <3>1, LeastNumber
    <2>2. CASE x = 0
      <3> DEFINE f == [k \in 0 .. 0 |-> <<>>]
      <3>1. KeptOf(values, f, 0)
        BY DEF KeptOf
      <3> QED
        BY <2>1, <2>2, <3>1
    <2>3. CASE x # 0
      <3>1. x \in Nat /\ x - 1 \in 0 .. Len(values) /\ x - 1 \notin T
        BY <2>1, <2>3
      <3>2. PICK g : KeptOf(values, g, x - 1)
        BY <3>1
      <3> DEFINE f == [k \in 0 .. x |-> IF k = x THEN Kept(g[x - 1], values[x]) ELSE g[k]]
      <3>3. \A k \in 0 .. x : k # x => k \in 0 .. x - 1
        BY <3>1
      <3>4. \A k \in 0 .. x - 1 :
               g[k] = IF k = 0 THEN <<>> ELSE Kept(g[k - 1], values[k])
        BY <3>2 DEF KeptOf
      <3>5. \A k \in 0 .. x : f[k] = IF k = 0 THEN <<>> ELSE Kept(f[k - 1], values[k])
        <4> SUFFICES ASSUME NEW k \in 0 .. x
                     PROVE  f[k] = IF k = 0 THEN <<>> ELSE Kept(f[k - 1], values[k])
          OBVIOUS
        <4>1. CASE k = x
          <5>1. f[k] = Kept(g[k - 1], values[k]) /\ k # 0 /\ k - 1 \in 0 .. x /\ k - 1 # x
            BY <2>3, <3>1, <4>1
          <5> QED
            BY <5>1
        <4>2. CASE k # x
          <5>1. k \in 0 .. x - 1 /\ f[k] = g[k]
            BY <3>3, <4>2
          <5>2. k # 0 => k - 1 \in 0 .. x /\ k - 1 # x /\ f[k - 1] = g[k - 1]
            BY <3>1, <5>1
          <5> QED
            BY <3>4, <5>1, <5>2
        <4> QED
          BY <4>1, <4>2
      <3>6. f = [k \in 0 .. x |-> IF k = 0 THEN <<>> ELSE Kept(f[k - 1], values[k])]
        BY <3>5
      <3> QED
        BY <2>1, <3>6 DEF KeptOf
    <2> QED
      BY <2>2, <2>3
  <1> QED
    BY <1>1

\* unique_preserving_order keeps each value once, and no other.
LEMMA KeepsOnce ==
    ASSUME NEW S, NEW values \in Seq(S), NEW v \in S, \E k \in 1 .. Len(values) : values[k] = v,
           NEW u, u = Refresh!UniquePreservingOrder(values)
    PROVE  /\ u \in Seq(S) /\ v \in Refresh!ToSet(u)
           /\ Refresh!Cardinality({i \in DOMAIN u : u[i] = v}) = 1
  <1> DEFINE f == CHOOSE f : KeptOf(values, f, Len(values))
             Right(n) ==
                /\ f[n] \in Seq(S)
                /\ \A i, j \in 1 .. Len(f[n]) : f[n][i] = f[n][j] => i = j
                /\ \A k \in 1 .. n : \E i \in 1 .. Len(f[n]) : f[n][i] = values[k]
             T == {n \in 0 .. Len(values) : ~ Right(n)}
  <1>1. KeptOf(values, f, Len(values)) /\ Len(values) \in Nat
    BY KeptExists
  <1>2. Refresh!UniquePreservingOrder(values) = f[Len(values)]
    BY DEF Refresh!UniquePreservingOrder, KeptOf, Kept
  <1>3. /\ f[0] = <<>>
        /\ \A n \in 1 .. Len(values) : f[n] = Kept(f[n - 1], values[n])
    <2>1. \A k \in 0 .. Len(values) :
             f[k] = IF k = 0 THEN <<>> ELSE Kept(f[k - 1], values[k])
      BY <1>1 DEF KeptOf
    <2> HIDE DEF f
    <2> QED
      BY <1>1, <2>1
  <1> HIDE DEF f
  <1>4. ASSUME NEW x \in 1 .. Len(values), Right(x - 1)
        PROVE  Right(x)
    <2>1. f[x - 1] \in Seq(S) /\ values[x] \in S /\ f[x] = Kept(f[x - 1], values[x])
          /\ Len(f[x - 1]) \in Nat
      BY <1>3, <1>4
    <2>2. CASE values[x] \in Refresh!ToSet(f[x - 1])
      <3>1. f[x] = f[x - 1]
        BY <2>1, <2>2 DEF Kept
      <3>2. \E i \in 1 .. Len(f[x - 1]) : f[x - 1][i] = values[x]
        BY <2>1, <2>2 DEF Refresh!ToSet
      <3>3. \A k \in 1 .. x : k \in 1 .. x - 1 \/ k = x
        OBVIOUS
      <3> QED
        BY <1>4, <3>1, <3>2, <3>3
    <2>3. CASE values[x] \notin Refresh!ToSet(f[x - 1])
      <3> DEFINE s == f[x - 1]
                 t == f[x]
      <3>1. /\ t \in Seq(S) /\ Len(t) = Len(s) + 1 /\ t[Len(s) + 1] = values[x]
            /\ \A i \in 1 .. Len(s) : t[i] = s[i] /\ s[i] # values[x]
        <4>1. t = Append(s, values[x])
          BY <2>1, <2>3 DEF Kept
        <4>2. \A i \in 1 .. Len(s) : s[i] # values[x]
          BY <2>1, <2>3 DEF Refresh!ToSet
        <4> QED
          BY <2>1, <4>1, <4>2, AppendProperties
      <3>2. \A i \in 1 .. Len(t) : i \in 1 .. Len(s) \/ i = Len(s) + 1
        BY <2>1, <3>1
      <3>3. \A k \in 1 .. x : k \in 1 .. x - 1 \/ k = x
        OBVIOUS
      <3>4. /\ \A i, j \in 1 .. Len(s) : s[i] = s[j] => i = j
            /\ \A k \in 1 .. x - 1 : \E i \in 1 .. Len(s) : s[i] = values[k]
        BY <1>4
      <3>5. Len(s) + 1 \in 1 .. Len(t) /\ \A i \in 1 .. Len(s) : i \in 1 .. Len(t)
        BY <2>1, <3>1
      <3> HIDE DEF s, t
      <3>6. \A i, j \in 1 .. Len(t) : t[i] = t[j] => i = j
        BY <3>1, <3>2, <3>4
      <3>7. \A k \in 1 .. x : \E i \in 1 .. Len(t) : t[i] = values[k]
        BY <3>1, <3>3, <3>4, <3>5
      <3> QED
        BY <3>1, <3>6, <3>7 DEF t
    <2> QED
      BY <2>2, <2>3
  <1>5. Right(0)
    BY <1>3
  <1>6. T = {}
    <2> SUFFICES ASSUME T # {}
                 PROVE  FALSE
      OBVIOUS
    <2> HIDE DEF Right
    <2>1. PICK x \in T : \A y \in T : x <= y
      <3>1. T \subseteq Nat
        BY <1>1
      <3> HIDE DEF T
      <3> QED
        BY <3>1, LeastNumber
    <2>2. x \in 1 .. Len(values) /\ x - 1 \in 0 .. Len(values)
      BY <1>5, <2>1
    <2>3. Right(x - 1)
      BY <2>1, <2>2
    <2> QED
      BY <1>4, <2>1, <2>2, <2>3
  <1>7. Right(Len(values))
    <2> HIDE DEF Right
    <2> QED
      BY <1>1, <1>6
  <1>8. u \in Seq(S) /\ DOMAIN u = 1 .. Len(u)
    BY <1>2, <1>7
  <1>9. v \in Refresh!ToSet(u) /\ Refresh!Cardinality({i \in DOMAIN u : u[i] = v}) = 1
    <2>1. PICK i \in 1 .. Len(u) : u[i] = v
      BY <1>2, <1>7
    <2>2. {j \in DOMAIN u : u[j] = v} = {i}
      BY <1>2, <1>7, <1>8, <2>1
    <2>3. Cardinality({i}) = 1
      BY FS_Singleton
    <2>4. Refresh!Cardinality({j \in DOMAIN u : u[j] = v}) = 1
      BY <2>2, <2>3 DEF Refresh!Cardinality, Cardinality
    <2>5. v \in Refresh!ToSet(u)
      BY <1>8, <2>1 DEF Refresh!ToSet
    <2> QED
      BY <2>4, <2>5
  <1> QED
    BY <1>8, <1>9

\* What the daemon requests after a save of the page.
LEMMA Saved ==
    ASSUME DisplayShape, NEW mode \in Modes \cup {Unset}, NEW scale \in Scales \cup {Unset}
    PROVE  LET request == Refresh!BuildRequest(Refresh!PageSaves(mode, scale))
               size == Refresh!ReadSize(config.size)
           IN  /\ size \in Modes
               /\ request.mode = IF mode \in {Unset, DefaultMode} THEN size ELSE mode
               /\ request.scale = IF scale = Unset THEN DefaultScale ELSE scale
  <1>1. config \in Clicks!Config
    BY DEF DisplayShape
  <1>2. Refresh!ReadSize(config.size) \in Modes
    BY <1>1, Defaults DEF Clicks!Config, Clicks!Partials, Refresh!ReadSize, Refresh!Partials,
       Refresh!Or
  <1> DEFINE saved == Refresh!PageSaves(mode, scale)
  <1>3. /\ saved.mode = IF mode = DefaultMode THEN Unset ELSE mode
        /\ saved.scale = IF scale = DefaultScale THEN Unset ELSE scale
        /\ saved.size = config.size
    BY <1>1 DEF Refresh!PageSaves, Clicks!Config
  <1> HIDE DEF saved
  <1>4. /\ Refresh!BuildRequest(saved).mode =
              IF saved.mode = Unset THEN Refresh!ReadSize(saved.size) ELSE saved.mode
        /\ Refresh!BuildRequest(saved).scale =
              IF saved.scale = Unset THEN DefaultScale ELSE saved.scale
    BY DEF Refresh!BuildRequest, Refresh!Or
  <1> QED
    BY <1>2, <1>3, <1>4, Defaults DEF saved

\* The mode that is requested is offered once, and a mode that is picked is the one
\* that is requested, unless it is the default and three keys come to light.
LEMMA ModesAreTrue ==
    ASSUME DisplayShape, NEW told \in Seq(Modes), NEW presets \in Seq(Modes)
    PROVE  LET offered == Refresh!ResolutionOptions(told, presets)
               request == Refresh!BuildRequest(config)
           IN  /\ (config.mode # Unset \/ config.size \notin Refresh!Partials) =>
                      Refresh!Cardinality({i \in DOMAIN offered : offered[i] = request.mode}) = 1
               /\ \A mode \in Refresh!ToSet(offered) :
                      (Refresh!BuildRequest(Refresh!PageSaves(mode, config.scale)).mode # mode)
                         <=> Refresh!Uncovers(mode)
  <1> DEFINE values == told \o presets \o <<Refresh!ConfiguredMode>>
             offered == Refresh!UniquePreservingOrder(values)
             mine == Refresh!ConfiguredMode
  <1>1. /\ config.mode \in Modes \cup {Unset} /\ config.scale \in Scales \cup {Unset}
        /\ config.size \in Modes \cup Refresh!Partials \cup {Unset}
    BY DEF DisplayShape, Clicks!Config, Clicks!Partials, Refresh!Partials
  <1>2. mine \in Modes
    BY <1>1, Defaults DEF Refresh!ConfiguredMode, Refresh!Or
  <1>3. (config.mode # Unset \/ config.size \notin Refresh!Partials) =>
            Refresh!BuildRequest(config).mode = mine
    BY DEF Refresh!ConfiguredMode, Refresh!BuildRequest, Refresh!ReadSize, Refresh!Or
  <1>4. Refresh!ResolutionOptions(told, presets) = offered
    BY DEF Refresh!ResolutionOptions
  <1> HIDE DEF mine
  <1>5. values \in Seq(Modes) /\ Len(values) \in 1 .. Len(values) /\ values[Len(values)] = mine
    <2>1. told \o presets \in Seq(Modes)
      BY ConcatProperties
    <2> QED
      BY <1>2, <2>1 DEF mine
  <1> HIDE DEF values
  <1>6. /\ Refresh!Cardinality({i \in DOMAIN offered : offered[i] = mine}) = 1
        /\ offered \in Seq(Modes)
    <2>1. \E k \in 1 .. Len(values) : values[k] = mine
      BY <1>5
    <2>2. values \in Seq(Modes) /\ offered = Refresh!UniquePreservingOrder(values)
      BY <1>5
    <2> HIDE DEF offered
    <2> QED
      BY <1>2, <2>1, <2>2, KeepsOnce
  <1> HIDE DEF offered
  <1>7. ASSUME NEW mode \in Refresh!ToSet(offered)
        PROVE  (Refresh!BuildRequest(Refresh!PageSaves(mode, config.scale)).mode # mode)
                  <=> Refresh!Uncovers(mode)
    <2>1. mode \in Modes
      BY <1>6, <1>7 DEF Refresh!ToSet
    <2>2. Refresh!BuildRequest(Refresh!PageSaves(mode, config.scale)).mode =
              IF mode \in {Unset, DefaultMode} THEN Refresh!ReadSize(config.size) ELSE mode
      BY <1>1, <2>1, Saved
    <2> QED
      BY <2>1, <2>2, Defaults DEF Refresh!Uncovers
  <1> QED
    BY <1>3, <1>4, <1>6, <1>7

\* A scale that is picked is the one that is requested, and a save of what is shown
\* leaves scale and mode as they were, unless three keys come to light.
LEMMA ScalesAreTrue ==
    ASSUME DisplayShape, NEW told \in Seq(Scales)
    PROVE  LET scales == Refresh!ScaleOptions(told)
               before == Refresh!BuildRequest(config)
               after == Refresh!BuildRequest(
                            Refresh!PageSaves(Refresh!ShownMode, Refresh!ShownScale(scales)))
           IN  /\ \A scale \in Refresh!ToSet(scales) :
                      Refresh!BuildRequest(Refresh!PageSaves(config.mode, scale)).scale = scale
               /\ after.scale = before.scale
               /\ (after.mode # before.mode) <=> Refresh!Uncovers(config.mode)
  <1> DEFINE mine == Refresh!Or(config.scale, DefaultScale)
             mode == Refresh!Or(config.mode, DefaultMode)
             values == told \o <<mine>> \o StandardScales
             scales == Refresh!UniquePreservingOrder(values)
  <1>1. /\ config.mode \in Modes \cup {Unset} /\ config.scale \in Scales \cup {Unset}
        /\ mine \in Scales /\ mode \in Modes
    BY Defaults DEF DisplayShape, Clicks!Config, Refresh!Or
  <1>2. /\ Refresh!ScaleOptions(told) = scales /\ Refresh!ShownMode = mode
        /\ Refresh!BuildRequest(config).scale = mine
        /\ mode = IF config.mode = Unset THEN DefaultMode ELSE config.mode
        /\ Refresh!BuildRequest(config).mode =
              IF config.mode = Unset THEN Refresh!ReadSize(config.size) ELSE config.mode
    BY DEF Refresh!ScaleOptions, Refresh!ShownMode, Refresh!BuildRequest, Refresh!Or
  <1>3. Refresh!ShownScale(scales) = IF mine \in Refresh!ToSet(scales) THEN mine ELSE Unset
    BY DEF Refresh!ShownScale
  <1> HIDE DEF mine, mode
  <1>4. /\ values \in Seq(Scales) /\ Len(told) + 1 \in 1 .. Len(values)
        /\ values[Len(told) + 1] = mine
    <2>1. StandardScales \in Seq(Scales) /\ <<mine>> \in Seq(Scales)
      BY <1>1, Defaults
    <2>2. /\ told \o <<mine>> \in Seq(Scales) /\ Len(told \o <<mine>>) = Len(told) + 1
          /\ (told \o <<mine>>)[Len(told) + 1] = mine /\ Len(told) \in Nat
      BY <2>1, ConcatProperties
    <2>3. /\ values \in Seq(Scales) /\ Len(values) = Len(told) + 1 + Len(StandardScales)
          /\ values[Len(told) + 1] = (told \o <<mine>>)[Len(told) + 1]
      BY <2>1, <2>2, ConcatProperties
    <2> QED
      BY <2>1, <2>2, <2>3
  <1> HIDE DEF values
  <1>5. scales \in Seq(Scales) /\ mine \in Refresh!ToSet(scales)
    <2>1. /\ mine \in Scales /\ values \in Seq(Scales)
          /\ \E k \in 1 .. Len(values) : values[k] = mine
          /\ scales = Refresh!UniquePreservingOrder(values)
      BY <1>1, <1>4
    <2> HIDE DEF scales
    <2> QED
      BY <2>1, KeepsOnce
  <1> HIDE DEF scales
  <1>6. ASSUME NEW scale \in Refresh!ToSet(scales)
        PROVE  Refresh!BuildRequest(Refresh!PageSaves(config.mode, scale)).scale = scale
    <2>1. scale \in Scales
      BY <1>5, <1>6 DEF Refresh!ToSet
    <2> QED
      BY <1>1, <2>1, Saved, Defaults
  <1> DEFINE after == Refresh!BuildRequest(Refresh!PageSaves(mode, mine))
  <1>7. /\ after.scale = mine
        /\ after.mode = IF mode \in {Unset, DefaultMode} THEN Refresh!ReadSize(config.size)
                        ELSE mode
    BY <1>1, Saved, Defaults
  <1> HIDE DEF after
  <1>8. (after.mode # Refresh!BuildRequest(config).mode) <=> Refresh!Uncovers(config.mode)
    BY <1>1, <1>2, <1>7, Defaults DEF Refresh!Uncovers
  <1> QED
    BY <1>2, <1>3, <1>5, <1>6, <1>7, <1>8 DEF after

\* Both parts of the display say the same of the page.
LEMMA SameOptions == Clicks!OptionsAreTrue <=> Refresh!OptionsAreTrue
  BY DEF Clicks!OptionsAreTrue, Refresh!OptionsAreTrue, Clicks!ToldModes, Refresh!ToldModes,
     Clicks!Presets, Refresh!Presets, Clicks!ToldScales, Refresh!ToldScales,
     Clicks!ResolutionOptions, Refresh!ResolutionOptions, Clicks!ScaleOptions,
     Refresh!ScaleOptions, Clicks!ConfiguredMode, Refresh!ConfiguredMode,
     Clicks!UniquePreservingOrder, Refresh!UniquePreservingOrder, Clicks!ToSet, Refresh!ToSet,
     Clicks!BuildRequest, Refresh!BuildRequest, Clicks!ReadSize, Refresh!ReadSize,
     Clicks!Partials, Refresh!Partials, Clicks!Or, Refresh!Or, Clicks!PageSaves,
     Refresh!PageSaves, Clicks!ShownMode, Refresh!ShownMode, Clicks!ShownScale,
     Refresh!ShownScale, Clicks!Uncovers, Refresh!Uncovers, Clicks!Cardinality,
     Refresh!Cardinality

\* Whatever the display reports and page and tray have saved, page and daemon mean
\* the same by it.
LEMMA OptionsTrue == DisplayShape => Clicks!OptionsAreTrue /\ Refresh!OptionsAreTrue
  <1> SUFFICES ASSUME DisplayShape
               PROVE  Refresh!OptionsAreTrue
    BY SameOptions
  <1>1. device.mode \in Modes /\ view.mode \in Modes /\ device.scale \in Scales
    BY DEF DisplayShape, Device
  <1>2. /\ Refresh!ToldModes \subseteq Seq(Modes) /\ Refresh!Presets \subseteq Seq(Modes)
        /\ Refresh!ToldScales \subseteq Seq(Scales)
    BY <1>1 DEF Refresh!ToldModes, Refresh!Presets, Refresh!ToldScales
  <1> QED
    BY <1>2, ModesAreTrue, ScalesAreTrue DEF Refresh!OptionsAreTrue
-----------------------------------------------------------------------------
(* The key that is registered.                                             *)

\* The rows of the table: name, code and virtual key of a key.
KeyRows ==
    {<<"a", 97, 65>>, <<"7", 55, 55>>, <<".", 46, 190>>, <<"+", 43, 187>>,
     <<"space", 32, 32>>, <<"enter", 0, 13>>, <<"esc", 0, 27>>, <<"delete", 0, 46>>,
     <<"page_up", 0, 33>>, <<"arrow_up", 0, 38>>, <<"scroll_lock", 0, 145>>,
     <<"capslock", 0, 20>>, <<"f1", 0, 112>>, <<"f12", 0, 123>>, <<"f24", 0, 135>>,
     <<"find", 0, 0>>}

\* Every key has one of them.
LEMMA Rows ==
    ASSUME NEW key \in Field!OtherKeys
    PROVE  /\ Field!KeyTable[key] \in KeyRows
           /\ Field!KeyTable[key][1] = "." => key = "."
           /\ Field!KeyTable[key][1] = "+" => key = "+"
           /\ Field!KeyTable[key][2] \in {0, 32, 55, 97} \/ key \in {".", "+"}
  <1>1. CASE key \in {"a", "A", "7"}
    <2>1. Field!KeyTable[key] = IF key = "7" THEN <<"7", 55, 55>> ELSE <<"a", 97, 65>>
      BY <1>1 DEF Field!KeyTable, Field!OtherKeys
    <2> QED
      BY <2>1 DEF KeyRows
  <1>4. CASE key \in {".", "+", " "}
    <2>1. /\ key = "." => Field!KeyTable[key] = <<".", 46, 190>>
          /\ key = "+" => Field!KeyTable[key] = <<"+", 43, 187>>
          /\ key = " " => Field!KeyTable[key] = <<"space", 32, 32>>
      BY <1>4 DEF Field!KeyTable, Field!OtherKeys
    <2>2. CASE key = "."
      BY <2>1, <2>2 DEF KeyRows
    <2>3. CASE key = "+"
      BY <2>1, <2>3 DEF KeyRows
    <2>4. CASE key = " "
      <3>1. \A row : row = <<"space", 32, 32>> =>
               row \in KeyRows /\ row[1] # "." /\ row[1] # "+" /\ row[2] = 32
        BY DEF KeyRows
      <3> QED
        BY <2>1, <2>4, <3>1, Zenon
    <2> QED
      BY <1>4, <2>2, <2>3, <2>4
  <1>2. CASE key \in {"Enter", "Escape", "Delete", "PageUp", "ArrowUp"}
    <2>1. Field!KeyTable[key] =
             CASE key = "Enter" -> <<"enter", 0, 13>> [] key = "Escape" -> <<"esc", 0, 27>>
               [] key = "Delete" -> <<"delete", 0, 46>>
               [] key = "PageUp" -> <<"page_up", 0, 33>>
               [] key = "ArrowUp" -> <<"arrow_up", 0, 38>>
      BY <1>2 DEF Field!KeyTable, Field!OtherKeys
    <2> QED
      BY <1>2, <2>1 DEF KeyRows
  <1>3. CASE key \in {"ScrollLock", "CapsLock", "F1", "F12", "F24", "Find"}
    <2>1. Field!KeyTable[key] =
             CASE key = "ScrollLock" -> <<"scroll_lock", 0, 145>>
               [] key = "CapsLock" -> <<"capslock", 0, 20>> [] key = "F1" -> <<"f1", 0, 112>>
               [] key = "F12" -> <<"f12", 0, 123>> [] key = "F24" -> <<"f24", 0, 135>>
               [] key = "Find" -> <<"find", 0, 0>>
      BY <1>3 DEF Field!KeyTable, Field!OtherKeys
    <2> QED
      BY <1>3, <2>1 DEF KeyRows
  <1> QED
    BY <1>1, <1>2, <1>3, <1>4 DEF Field!OtherKeys

\* The name of "+" is the character between the parts.
LEMMA PlusRow == "+" \in Field!OtherKeys /\ Field!KeyTable["+"][1] = "+"
  BY DEF Field!KeyTable, Field!OtherKeys

\* A name leads to its row.
LEMMA EntryOf ==
    ASSUME NEW key \in Field!OtherKeys
    PROVE  Field!Entry(Field!KeyTable[key][1]) = Field!KeyTable[key]
  <1> DEFINE rows == {Field!KeyTable[k] : k \in Field!OtherKeys}
  <1>1. \A r, s \in rows : r[1] = s[1] => r = s
    <2>1. rows \subseteq KeyRows
      BY Rows
    <2>2. \A r, s \in KeyRows : r[1] = s[1] => r = s
      BY DEF KeyRows
    <2> HIDE DEF rows
    <2> QED
      BY <2>1, <2>2
  <1>2. Field!KeyTable[key] \in rows
    OBVIOUS
  <1> HIDE DEF rows
  <1>3. (CHOOSE e \in rows : e[1] = Field!KeyTable[key][1]) = Field!KeyTable[key]
    BY <1>1, <1>2
  <1> QED
    BY <1>3 DEF Field!Entry, rows

\* The virtual key of a name is that of its key, or none; punctuation is not.
LEMMA VkOf ==
    ASSUME NEW key \in Field!OtherKeys \ {".", "+"}
    PROVE  Field!KeyToVk(Field!KeyTable[key][1]) \in {0, Field!KeyTable[key][3]}
  <1> DEFINE row == Field!KeyTable[key]
             name == row[1]
             named == Field!NamedKeys
  <1>1. row \in KeyRows /\ name \notin {".", "+"} /\ Field!Entry(name) = row
    BY EntryOf, Rows
  <1>2. /\ {"space", "enter", "esc", "delete", "page_up", "arrow_up", "scroll_lock"}
              \subseteq DOMAIN named
        /\ {"a", "7", "capslock", "f1", "f12", "f24", "find"} \cap DOMAIN named = {}
    BY DEF Field!NamedKeys
  <1>3. /\ named["space"] = 32 /\ named["enter"] = 13 /\ named["esc"] = 27
        /\ named["delete"] = 46 /\ named["page_up"] = 33 /\ named["arrow_up"] = 38
        /\ named["scroll_lock"] = 145
    BY DEF Field!NamedKeys
  <1>4. /\ DOMAIN Field!FunctionKeys = {"f1", "f12", "f24"}
        /\ Field!FunctionKeys["f1"] = 1 /\ Field!FunctionKeys["f12"] = 12
        /\ Field!FunctionKeys["f24"] = 24
    BY DEF Field!FunctionKeys
  <1> HIDE DEF row, named
  <1>5. \/ name \in DOMAIN named /\ named[name] = row[3]
        \/ name \notin DOMAIN named /\ row \in {<<"a", 97, 65>>, <<"7", 55, 55>>}
        \/ name \notin DOMAIN named /\ row[2] = 0 /\ name \in DOMAIN Field!FunctionKeys
           /\ 112 + Field!FunctionKeys[name] - 1 = row[3]
        \/ name \notin DOMAIN named /\ row[2] = 0 /\ name \notin DOMAIN Field!FunctionKeys
    BY <1>1, <1>2, <1>3, <1>4 DEF KeyRows
  <1>6. Field!KeyToVk(name) =
           CASE name \in DOMAIN named -> named[name]
             [] name \notin DOMAIN named /\ row[2] # 0 ->
                   IF row[2] \in 97..122 THEN row[2] - 32 ELSE row[2]
             [] name \in DOMAIN Field!FunctionKeys -> 112 + Field!FunctionKeys[name] - 1
             [] OTHER -> 0
    BY <1>1 DEF Field!KeyToVk, named
  <1>7. CASE name \in DOMAIN named /\ named[name] = row[3]
    <2>1. name \notin DOMAIN Field!FunctionKeys
      BY <1>2, <1>4, <1>7
    <2> HIDE DEF name
    <2> QED
      BY <1>6, <1>7, <2>1 DEF row, name
  <1>8. CASE name \notin DOMAIN named /\ row \in {<<"a", 97, 65>>, <<"7", 55, 55>>}
    <2>1. name \notin DOMAIN Field!FunctionKeys
          /\ (IF row[2] \in 97..122 THEN row[2] - 32 ELSE row[2]) = row[3] /\ row[2] # 0
      BY <1>4, <1>8
    <2> HIDE DEF name
    <2> QED
      BY <1>6, <1>8, <2>1 DEF row, name
  <1>9. CASE /\ name \notin DOMAIN named /\ row[2] = 0 /\ name \in DOMAIN Field!FunctionKeys
             /\ 112 + Field!FunctionKeys[name] - 1 = row[3]
    <2> HIDE DEF name
    <2> QED
      BY <1>6, <1>9 DEF row, name
  <1>10. CASE name \notin DOMAIN named /\ row[2] = 0 /\ name \notin DOMAIN Field!FunctionKeys
    <2> HIDE DEF name
    <2> QED
      BY <1>6, <1>10 DEF row, name
  <1> QED
    BY <1>5, <1>7, <1>8, <1>9, <1>10

\* A "." is registered as the key whose virtual key is its code.
LEMMA VkOfMark ==
    /\ Field!KeyTable["."] = <<".", 46, 190>> /\ "." \in Field!OtherKeys
    /\ Field!KeyToVk(".") = 46
  <1>1. /\ Field!KeyTable["."] = <<".", 46, 190>> /\ "." \in Field!OtherKeys
        /\ "." \notin DOMAIN Field!NamedKeys /\ "." \notin DOMAIN Field!FunctionKeys
    BY DEF Field!KeyTable, Field!OtherKeys, Field!NamedKeys, Field!FunctionKeys
  <1>2. Field!Entry(".") = <<".", 46, 190>>
    BY <1>1, EntryOf
  <1> QED
    BY <1>1, <1>2 DEF Field!KeyToVk

\* The marks of the table.
LEMMA MarksAre == Field!Marks = {".", "+"}
  <1>1. Field!KeyTable["."][2] = 46 /\ Field!KeyTable["+"][2] = 43
        /\ {".", "+"} \subseteq Field!OtherKeys
    BY DEF Field!KeyTable, Field!OtherKeys
  <1>2. \A key \in Field!OtherKeys \ {".", "+"} : Field!KeyTable[key][2] \in {0, 32, 55, 97}
    BY Rows
  <1> QED
    BY <1>1, <1>2 DEF Field!Marks

\* Of the parts of a captured name at most the last one is a key: the name is
\* parsed into the modifiers that were down and that key.
LEMMA ParsesWhatIsCaptured ==
    ASSUME NEW e \in Field!Events
    PROVE  LET name == Field!NormalizeHotkeyEvent(e)
           IN  Field!IsSupported(name) =>
                  /\ Field!ParseHotkey(name).modifiers = e.modifiers
                  /\ Field!ParseHotkey(name).vk =
                        IF e.key \in Field!Marks THEN Field!KeyTable[e.key][2]
                        ELSE Field!KeyTable[e.key][3]
                  /\ e.key # "+"
  <1> DEFINE name == Field!NormalizeHotkeyEvent(e)
             parts == {i \in DOMAIN name : name[i] # "+"}
             others == {i \in parts : name[i] \notin Field!Modifiers}
             last == CHOOSE i \in others : \A j \in others : j <= i
  <1>1. Field!ParseHotkey(name) =
           [modifiers |-> {name[i] : i \in parts} \cap Field!Modifiers,
            vk |-> IF others = {} THEN 0 ELSE Field!KeyToVk(name[last])]
    BY DEF Field!ParseHotkey
  <1>2. /\ DOMAIN name = 1 .. Len(name) /\ Len(name) \in Nat
        /\ {name[i] : i \in DOMAIN name} \cap Field!Modifiers = e.modifiers
        /\ \A i \in 1 .. Len(name) - 1 : name[i] \in Field!Modifiers
        /\ e.key \in DOMAIN Field!ModifierKeys =>
               \A i \in 1 .. Len(name) : name[i] \in Field!Modifiers
        /\ e.key \notin DOMAIN Field!ModifierKeys =>
               Len(name) > 0 /\ name[Len(name)] = Field!NormalizeKey(e.key)
    BY Captures DEF Field!ToSet
  <1> HIDE DEF name
  <1>3. {name[i] : i \in parts} \cap Field!Modifiers = e.modifiers
    BY <1>2 DEF Field!Modifiers
  <1>4. others \subseteq {Len(name)}
    <2>1. \A i \in 1 .. Len(name) : i \in 1 .. Len(name) - 1 \/ i = Len(name)
      <3>1. Len(name) \in Nat
        BY <1>2
      <3> QED
        BY <3>1
    <2> QED
      BY <1>2, <2>1
  <1>5. CASE others = {}
    BY <1>1, <1>5 DEF Field!IsSupported, name
  <1>6. CASE others # {}
    <2>1. others = {Len(name)} /\ last = Len(name)
      BY <1>2, <1>4, <1>6
    <2>2. /\ name[Len(name)] # "+" /\ name[Len(name)] \notin Field!Modifiers
          /\ Len(name) \in 1 .. Len(name)
      BY <1>2, <2>1
    <2>3. e.key \notin DOMAIN Field!ModifierKeys
      BY <1>2, <2>2
    <2>4. e.key \in Field!OtherKeys /\ name[last] = Field!KeyTable[e.key][1]
      BY <1>2, <2>1, <2>3, Constants DEF Field!HotkeyKeysAssumption, Field!Events,
         Field!NormalizeKey
    <2>5. e.key # "+"
      BY <2>1, <2>2, <2>4, PlusRow
    <2>6. Field!KeyToVk(name[last]) \in
              {0, IF e.key \in Field!Marks THEN Field!KeyTable[e.key][2]
                  ELSE Field!KeyTable[e.key][3]}
      BY <2>4, <2>5, VkOf, VkOfMark, MarksAre
    <2> HIDE DEF last, others, parts
    <2> QED
      BY <1>1, <1>3, <1>6, <2>5, <2>6 DEF Field!IsSupported, name
  <1> QED
    BY <1>5, <1>6

\* In the beginning the hotkey is Scroll Lock, and so is the key.
LEMMA FieldStartsTrue == Field!Init => Field!RegistersThePressedKey
  <1> SUFFICES ASSUME Field!Init
               PROVE  Field!RegistersThePressedKey
    OBVIOUS
  <1>1. /\ value = <<"scroll_lock">> /\ down.modifiers = {} /\ down.key = "ScrollLock"
    BY DEF Field!Init
  <1> DEFINE parts == {i \in DOMAIN value : value[i] # "+"}
             others == {i \in parts : value[i] \notin Field!Modifiers}
             last == CHOOSE i \in others : \A j \in others : j <= i
  <1>2. DOMAIN value = {1} /\ value[1] = "scroll_lock"
    BY <1>1
  <1>3. parts = {1} /\ others = {1} /\ {value[i] : i \in parts} \cap Field!Modifiers = {}
    BY <1>2 DEF Field!Modifiers
  <1>4. last = 1
    BY <1>3
  <1>5. Field!ParseHotkey(value) =
           [modifiers |-> {value[i] : i \in parts} \cap Field!Modifiers,
            vk |-> IF others = {} THEN 0 ELSE Field!KeyToVk(value[last])]
    BY DEF Field!ParseHotkey
  <1>6. Field!KeyTable["ScrollLock"] = <<"scroll_lock", 0, 145>> /\ "ScrollLock" \in Field!OtherKeys
    BY DEF Field!KeyTable, Field!OtherKeys
  <1>7. Field!KeyToVk("scroll_lock") \in {0, 145}
    BY <1>6, VkOf
  <1> HIDE DEF parts, others, last
  <1>8. "ScrollLock" \notin Field!Marks
    BY MarksAre
  <1> QED
    BY <1>1, <1>2, <1>3, <1>4, <1>5, <1>6, <1>7, <1>8
       DEF Field!RegistersThePressedKey, Field!IsSupported

\* Every key that is pressed in the field, and clearing it, keeps it true.
LEMMA FieldStaysTrue ==
    Field!RegistersThePressedKey /\ [Field!Next]_fieldVars => Field!RegistersThePressedKey'
  <1> SUFFICES ASSUME Field!RegistersThePressedKey, [Field!Next]_fieldVars
               PROVE  Field!RegistersThePressedKey'
    OBVIOUS
  <1>1. CASE Field!Clear
    <2>1. value' = <<>>
      BY <1>1 DEF Field!Clear
    <2>2. Field!ParseHotkey(value').vk = 0
      BY <2>1 DEF Field!ParseHotkey
    <2> QED
      BY <2>2 DEF Field!RegistersThePressedKey, Field!IsSupported
  <1>2. ASSUME NEW e \in Field!Events, Field!KeyDown(e)
        PROVE  Field!RegistersThePressedKey'
    <2>1. value' = Field!NormalizeHotkeyEvent(e) /\ down' = e
      BY <1>2 DEF Field!KeyDown
    <2> QED
      BY <2>1, ParsesWhatIsCaptured DEF Field!RegistersThePressedKey
  <1>3. CASE UNCHANGED fieldVars
    BY <1>3 DEF fieldVars, Field!RegistersThePressedKey
  <1> QED
    BY <1>1, <1>2, <1>3 DEF Field!Next
-----------------------------------------------------------------------------
(* The desktop.                                                            *)

\* All parts together: those that do not move keep their invariant.
IInv ==
    /\ part \in {"clicks", "refresh", "scales", "icons", "thread", "field"}
    /\ DisplayInv /\ ScaleInv /\ IconsInv /\ ThreadInv /\ Field!TypeOK

\* The first state.
LEMMA InitIInv == Init => IInv
  BY DisplayInit, ScaleInit, IconsInit, ThreadInit, FieldInit DEF Init, IInv

\* A step of one part leaves the others alone.
LEMMA NextIInv == IInv /\ [Next]_vars => IInv'
  <1> SUFFICES ASSUME IInv, [Next]_vars
               PROVE  IInv'
    OBVIOUS
  <1>1. part' = part /\ ([Clicks!Next]_displayVars \/ [Refresh!Next]_displayVars)
        /\ [Scale!Next]_scaleVars /\ [Icons!Next]_trayVars
        /\ [HotkeyThread!Next]_keyVars /\ [Field!Next]_fieldVars
    BY DEF Next, vars
  <1> QED
    BY <1>1, ClicksNext, RefreshNext, ScaleNext, IconsNext, ThreadNext, FieldNext DEF IInv

\* The invariant holds in every state.
THEOREM Invariant == Spec => []IInv
  BY InitIInv, NextIInv, PTL DEF Spec

\* Every part keeps its types, for every value of the constants.
THEOREM TypeCorrect == Spec => []TypeOK
  <1>1. IInv => TypeOK
    <2> SUFFICES ASSUME IInv
                 PROVE  TypeOK
      OBVIOUS
    <2>1. Clicks!TypeOK
      BY TwoThreads DEF IInv, DisplayInv, DisplayShape, Clicks!TypeOK, Device, Status,
         Task, Pcs, Bounds
    <2>2. Refresh!TypeOK
      BY <2>1 DEF Clicks!TypeOK, Refresh!TypeOK, Clicks!Config, Refresh!Config,
         Clicks!Partials, Refresh!Partials, Clicks!Threads, Refresh!Threads, Clicks!Actions,
         Refresh!Actions, Clicks!TaskbarActions, Refresh!TaskbarActions
    <2>3. Scale!TypeOK /\ Icons!TypeOK /\ HotkeyThread!TypeOK /\ Field!TypeOK
      BY DEF IInv, ScaleInv, IconsInv, ThreadInv
    <2> QED
      BY <2>1, <2>2, <2>3 DEF TypeOK, IInv
  <1> QED
    BY <1>1, Invariant, PTL

\* A click that nothing crossed has flipped the taskbar, and status and icon
\* say so, however many displays, modes and faults there are; and on every
\* display whose scales are in the script's table what the page offers is what is
\* set, and any percentage becomes the nearest scale there is.
THEOREM DisplayDoes == Spec => []DisplayObeys
  <1>1. IInv => Clicks!ClickFlips
    BY DEF IInv, DisplayInv, Click, Clicks!ClickFlips, Clicks!Done
  <1>2. IInv => Scale!OfferedIsSet /\ Scale!SetIsClosest
    BY Nearest, Offers DEF IInv
  <1>3. IInv => DisplayObeys
    BY <1>1, <1>2 DEF DisplayObeys
  <1> QED
    BY <1>3, Invariant, PTL

\* However many extensions have an icon of the display and share one pointer, no
\* icon acts on a state that is gone while no thread has failed and the flag is
\* up, and the main icon never acts on another's.
THEOREM IconsActSafely == Spec => []UsesAreSafe
  <1>1. IInv => UsesAreSafe
    BY DEF IInv, IconsInv, UsesAreSafe
  <1> QED
    BY <1>1, Invariant, PTL

\* The hotkey thread holds what it believes it holds, and never runs type-text
\* more often than the key was pressed, for any number of presses and hotkeys.
THEOREM KeyIsHeld == Spec => []HotkeyIsHeld
  <1>1. IInv => HotkeyIsHeld
    BY DEF IInv, ThreadInv, HotkeyIsHeld
  <1> QED
    BY <1>1, Invariant, PTL

\* Whatever resolutions and scales the display reports and page, tray or hand have
\* saved, what the page shows or a person picks there is what the daemon requests,
\* but where the default resolution uncovers three keys; and whatever keys are
\* pressed in its field, the hotkey that is registered is the last one with the
\* modifiers that were down, or none, but for marks of punctuation.
THEOREM FieldsTrue == Spec => []FieldsAreTrue
  <1>1. Init => Field!RegistersThePressedKey
    BY FieldStartsTrue DEF Init
  <1>2. Field!RegistersThePressedKey /\ [Next]_vars => Field!RegistersThePressedKey'
    <2>1. [Next]_vars => [Field!Next]_fieldVars
      BY DEF Next, vars
    <2> QED
      BY <2>1, FieldStaysTrue
  <1>3. IInv /\ Field!RegistersThePressedKey => FieldsAreTrue
    BY OptionsTrue DEF IInv, DisplayInv, FieldsAreTrue
  <1> QED
    BY <1>1, <1>2, <1>3, Invariant, PTL DEF Spec
-----------------------------------------------------------------------------
(* That the display's status comes right.                                  *)

\* A refresh of the tray that nobody has crossed.
Fresh(h) == h.kind = "refresh" /\ h.clean

\* What such a refresh has been told so far is so.
Telling(h) ==
    Fresh(h) =>
        /\ h.action = "status" /\ h.pc \in {"bridge", "look", "save", "over"}
        /\ h.pc \in {"look", "save"} =>
              h.result.mode = device.mode /\ h.result.scale = device.scale
        /\ h.pc = "save" => (h.result.hide <=> device.hide)

\* status.json and the icon show the display.
Shown ==
    /\ status.hide = device.hide /\ status.mode = device.mode
    /\ status.scale = device.scale /\ view.hide = device.hide

\* The display is left alone: the host is done, and nobody clicks, edits or fails
\* any more.
Quiet == Clicks!Free("host") /\ \A bound \in Bounds : left[bound] = 0

\* The steps the tray has before it is free for the next refresh.
TrayLeft ==
    CASE task["tray"].pc = "read" -> 5 [] task["tray"].pc = "set" -> 4
      [] task["tray"].pc = "bridge" -> 3 [] task["tray"].pc = "look" -> 2
      [] task["tray"].pc \in {"save", "failed"} -> 1 [] OTHER -> 0

\* Left alone, the display stays so; the tray comes to the end of what it does and
\* begins a refresh, which nobody crosses and which cannot fail; and what is shown
\* right stays right.
ComesRight ==
    Quiet =>
        /\ Quiet'
        /\ Refresh!BeginRefresh \/ TrayLeft' < TrayLeft
        /\ Refresh!BeginRefresh \/ Fresh(task["tray"]) => Fresh(task["tray"])'
        /\ Fresh(task["tray"]) /\ Shown => Shown'

\* A refresh that nobody has crossed saves what the display is.
SavesTheTruth == Refresh!TraySaves /\ Fresh(task["tray"]) => Shown'

\* What a step of an action of the tray does to its task.
TrayGoes(h, g) ==
    /\ g.kind = h.kind /\ g.action = h.action
    /\ \/ /\ h.pc \in {"read", "set"} /\ (g.clean <=> h.clean)
          /\ h.pc = "read" => g.pc = "set"
          /\ h.pc = "set" => g.pc = "bridge"
       \/ /\ h.pc = "bridge" /\ g.pc = "look" /\ UNCHANGED device
          /\ \/ (g.clean <=> h.clean) /\ g.result.mode = device.mode
                  /\ g.result.scale = device.scale
             \/ ~g.clean /\ left["faults"] > 0
       \/ /\ h.pc = "bridge" /\ g.pc = "failed" /\ (g.clean <=> h.clean)
          /\ h.action \in {"set-resolution", "set-scale"}
       \/ /\ h.pc = "look" /\ g.pc = "save" /\ (g.clean <=> h.clean) /\ UNCHANGED device
          /\ g.result.mode = h.result.mode /\ g.result.scale = h.result.scale
          /\ g.result.hide <=> device.hide

\* A step of an action of the tray, which the host's task survives.
LEMMA TrayActs ==
    ASSUME DisplayInv, Clicks!ActionStep("tray")
    PROVE  /\ TrayGoes(task["tray"], task'["tray"])
           /\ task'["host"].pc = task["host"].pc
           /\ UNCHANGED <<config, status, view>>
           /\ (task'["tray"].clean <=> task["tray"].clean) => UNCHANGED left \/ left["faults"] > 0
  <1> DEFINE h == task["tray"]
  <1>1. /\ DisplayShape /\ "tray" \in Clicks!Threads /\ "host" \in Clicks!Threads \ {"tray"}
        /\ h \in Task /\ task["host"] \in Task
    BY TwoThreads DEF DisplayInv, DisplayShape
  <1>2. ASSUME NEW stage \in Pcs, NEW moved, moved = Clicks!To("tray", stage)
        PROVE  /\ moved \in [Clicks!Threads -> Task] /\ moved["host"] = task["host"]
               /\ moved["tray"].pc = stage /\ moved["tray"].kind = h.kind
               /\ moved["tray"].action = h.action /\ moved["tray"].result = h.result
               /\ moved["tray"].clean <=> h.clean
    BY <1>1, <1>2, ToIs
  <1>3. CASE Clicks!ReadTaskbar("tray")
    <2>1. PICK moved : moved = Clicks!To("tray", "set")
      OBVIOUS
    <2>2. moved \in [Clicks!Threads -> Task] /\ moved["host"] = task["host"]
          /\ moved["tray"].pc = "set" /\ moved["tray"].kind = h.kind
          /\ moved["tray"].action = h.action
          /\ (moved["tray"].clean <=> h.clean)
      BY <1>2, <2>1, TwoThreads
    <2>3. /\ task' = [moved EXCEPT !["tray"].request.hide = ~device.hide]
          /\ h.pc = "read" /\ UNCHANGED <<device, config, status, view, left>>
      BY <1>3, <2>1 DEF Clicks!ReadTaskbar
    <2>4. PICK request : request = [moved["tray"].request EXCEPT !.hide = ~device.hide]
      OBVIOUS
    <2>5. task' = [moved EXCEPT !["tray"].request = request]
      BY <2>3, <2>4
    <2>6. /\ task'["host"] = task["host"] /\ task'["tray"].pc = "set"
          /\ task'["tray"].kind = h.kind /\ task'["tray"].action = h.action
          /\ task'["tray"].clean <=> h.clean
      BY <1>1, <2>2, <2>5 DEF Task
    <2> QED
      BY <2>3, <2>6 DEF TrayGoes
  <1>4. ASSUME NEW moved \in [Clicks!Threads -> Task], task' = Clicks!Cross(moved, "tray")
        PROVE  task'["tray"] = moved["tray"] /\ task'["host"].pc = moved["host"].pc
    BY <1>1, <1>4, CrossIs
  <1>5. CASE Clicks!SetTaskbar("tray")
    <2>1. PICK moved : moved = Clicks!To("tray", "bridge")
      OBVIOUS
    <2>2. task' = Clicks!Cross(moved, "tray") /\ h.pc = "set"
          /\ UNCHANGED <<config, status, view, left>>
      BY <1>5, <2>1 DEF Clicks!SetTaskbar
    <2> QED
      BY <1>2, <1>4, <2>1, <2>2, TwoThreads DEF TrayGoes
  <1>6. CASE Clicks!BridgeSets("tray")
    <2>1. PICK moved : moved = Clicks!To("tray", "failed")
      OBVIOUS
    <2>2. task' = Clicks!Cross(moved, "tray") /\ h.pc = "bridge"
          /\ h.action \in {"set-resolution", "set-scale"}
          /\ UNCHANGED <<config, status, view, left>>
      BY <1>6, <2>1 DEF Clicks!BridgeSets
    <2> QED
      BY <1>2, <1>4, <2>1, <2>2, TwoThreads DEF TrayGoes
  <1>7. CASE Clicks!BridgeReports("tray")
    <2>1. PICK moved : moved = Clicks!To("tray", "look")
      OBVIOUS
    <2>2. moved \in [Clicks!Threads -> Task] /\ moved["host"] = task["host"]
          /\ moved["tray"].pc = "look" /\ moved["tray"].kind = h.kind
          /\ moved["tray"].action = h.action
          /\ (moved["tray"].clean <=> h.clean)
      BY <1>2, <2>1, TwoThreads
    <2>3. PICK told : told = [hide |-> FALSE, mode |-> device.mode, scale |-> device.scale]
      OBVIOUS
    <2>4. PICK unclean : unclean = [moved EXCEPT !["tray"].clean = FALSE]
      OBVIOUS
    <2>5. /\ h.pc = "bridge" /\ UNCHANGED <<device, config, status, view>>
          /\ \/ task' = [moved EXCEPT !["tray"].result = told] /\ UNCHANGED left
             \/ left["faults"] > 0 /\ task' = [unclean EXCEPT !["tray"].result = Clicks!NoResult]
      BY <1>7, <2>1, <2>3, <2>4 DEF Clicks!BridgeReports
    <2>6. CASE task' = [moved EXCEPT !["tray"].result = told] /\ UNCHANGED left
      <3>1. /\ task'["host"] = task["host"] /\ task'["tray"].pc = "look"
            /\ task'["tray"].kind = h.kind /\ task'["tray"].action = h.action
            /\ task'["tray"].clean <=> h.clean
            /\ task'["tray"].result = told
        BY <1>1, <2>2, <2>6 DEF Task
      <3> QED
        BY <2>3, <2>5, <2>6, <3>1 DEF TrayGoes
    <2>7. CASE left["faults"] > 0 /\ task' = [unclean EXCEPT !["tray"].result = Clicks!NoResult]
      <3>1. /\ unclean \in [Clicks!Threads -> Task] /\ unclean["host"] = task["host"]
            /\ unclean["tray"].pc = "look" /\ unclean["tray"].kind = h.kind
            /\ unclean["tray"].action = h.action /\ ~unclean["tray"].clean
        BY <1>1, <2>2, <2>4 DEF Task
      <3>2. /\ task'["host"] = task["host"] /\ task'["tray"].pc = "look"
            /\ task'["tray"].kind = h.kind /\ task'["tray"].action = h.action
            /\ ~task'["tray"].clean
        BY <1>1, <2>7, <3>1 DEF Task
      <3> QED
        BY <2>5, <2>7, <3>2 DEF TrayGoes
    <2> QED
      BY <2>5, <2>6, <2>7
  <1>8. CASE Clicks!LookAtTaskbar("tray")
    <2>1. PICK moved : moved = Clicks!To("tray", "save")
      OBVIOUS
    <2>2. moved \in [Clicks!Threads -> Task] /\ moved["host"] = task["host"]
          /\ moved["tray"].pc = "save" /\ moved["tray"].kind = h.kind
          /\ moved["tray"].action = h.action /\ moved["tray"].result = h.result
          /\ (moved["tray"].clean <=> h.clean)
      BY <1>2, <2>1, TwoThreads
    <2>3. /\ task' = [moved EXCEPT !["tray"].result.hide = device.hide]
          /\ h.pc = "look" /\ UNCHANGED <<device, config, status, view, left>>
      BY <1>8, <2>1 DEF Clicks!LookAtTaskbar
    <2>4. PICK result : result = [moved["tray"].result EXCEPT !.hide = device.hide]
      OBVIOUS
    <2>5. /\ result.mode = h.result.mode /\ result.scale = h.result.scale
          /\ result.hide <=> device.hide
      <3>1. h.result \in Result
        BY <1>1 DEF Task
      <3> QED
        BY <2>2, <2>4, <3>1 DEF Result
    <2>6. task' = [moved EXCEPT !["tray"].result = result]
      BY <2>3, <2>4
    <2>7. /\ task'["host"] = task["host"] /\ task'["tray"].pc = "save"
          /\ task'["tray"].kind = h.kind /\ task'["tray"].action = h.action
          /\ task'["tray"].clean <=> h.clean
          /\ task'["tray"].result = result
      BY <1>1, <2>2, <2>6 DEF Task
    <2> QED
      BY <2>3, <2>5, <2>7 DEF TrayGoes
  <1> QED
    BY <1>3, <1>5, <1>6, <1>7, <1>8 DEF Clicks!ActionStep

\* A step of the host leaves the display and the tray's task alone, or crosses it.
LEMMA HostCrosses ==
    ASSUME DisplayInv,
           \/ Clicks!ActionStep("host") \/ Clicks!CallFails("host") \/ Clicks!HostEnds
           \/ Clicks!Apply \/ \E action \in Clicks!Actions : Clicks!Trigger(action)
    PROVE  \/ UNCHANGED device /\ task'["tray"] = task["tray"]
           \/ ~task'["tray"].clean
  <1>1. /\ DisplayShape /\ "host" \in Clicks!Threads /\ "tray" \in Clicks!Threads \ {"host"}
        /\ task \in [Clicks!Threads -> Task]
    BY TwoThreads DEF DisplayInv, DisplayShape
  <1>2. ASSUME NEW stage \in Pcs
        PROVE  /\ Clicks!To("host", stage) \in [Clicks!Threads -> Task]
               /\ Clicks!To("host", stage)["tray"] = task["tray"]
    BY <1>1, ToIs
  <1>3. CASE Clicks!SetTaskbar("host") \/ Clicks!BridgeSets("host")
    <2>1. PICK stage \in Pcs : task' = Clicks!Cross(Clicks!To("host", stage), "host")
      BY <1>3, TwoThreads DEF Clicks!SetTaskbar, Clicks!BridgeSets
    <2>2. Clicks!To("host", stage) \in [Clicks!Threads -> Task]
      BY <1>2
    <2> QED
      BY <1>1, <2>1, <2>2, CrossIs
  <1>4. CASE \/ Clicks!ReadTaskbar("host") \/ Clicks!LookAtTaskbar("host")
             \/ Clicks!BridgeReports("host") \/ Clicks!CallFails("host")
    <2>1. PICK stage \in {"set", "save", "look", "failed"} :
            LET moved == Clicks!To("host", stage)
            IN  /\ UNCHANGED device
                /\ \/ task' = [moved EXCEPT !["host"].request.hide = ~device.hide]
                   \/ task' = [moved EXCEPT !["host"].result.hide = device.hide]
                   \/ task' = [moved EXCEPT !["host"].result =
                                [hide |-> FALSE, mode |-> device.mode, scale |-> device.scale]]
                   \/ task' = [moved EXCEPT !["host"].clean = FALSE,
                                            !["host"].result = Clicks!NoResult]
                   \/ task' = [moved EXCEPT !["host"].clean = FALSE]
      BY <1>4 DEF Clicks!ReadTaskbar, Clicks!LookAtTaskbar, Clicks!BridgeReports,
         Clicks!CallFails
    <2>2. PICK moved : moved = Clicks!To("host", stage)
      OBVIOUS
    <2>3. moved \in [Clicks!Threads -> Task] /\ moved["tray"] = task["tray"]
      BY <1>2, <2>2, TwoThreads
    <2>4. task'["tray"] = moved["tray"] /\ UNCHANGED device
      BY <1>1, <2>1, <2>2, <2>3
    <2> QED
      BY <2>3, <2>4
  <1>5. CASE Clicks!HostEnds
    <2>1. PICK g : task' = [task EXCEPT !["host"] = g]
      <3>1. CASE Clicks!HostSaves
        BY <3>1 DEF Clicks!HostSaves
      <3>2. CASE Clicks!HostFails \/ Clicks!ScriptEnds
        BY <3>2 DEF Clicks!HostFails, Clicks!ScriptEnds
      <3>3. CASE Clicks!RunScript
        <4>1. PICK g : g = [task["host"] EXCEPT !.pc = Clicks!First(task["host"].action),
                              !.kind = "script",
                              !.request = Clicks!BuildRequest(Clicks!ScriptConfig)]
          OBVIOUS
        <4>2. task' = [task EXCEPT !["host"] = g]
          BY <1>1, <3>3, <4>1 DEF Clicks!RunScript
        <4> QED
          BY <4>2
      <3> QED
        BY <1>5, <3>1, <3>2, <3>3 DEF Clicks!HostEnds
    <2>2. UNCHANGED device
      BY <1>5 DEF Clicks!HostEnds, Clicks!HostSaves, Clicks!HostFails, Clicks!ScriptEnds,
         Clicks!RunScript
    <2> QED
      BY <1>1, <2>1, <2>2
  <1>6. CASE Clicks!Apply \/ \E action \in Clicks!Actions : Clicks!Trigger(action)
    BY <1>1, <1>6 DEF Clicks!Apply, Clicks!Trigger
  <1> QED
    BY <1>3, <1>4, <1>5, <1>6 DEF Clicks!ActionStep

\* A refresh begins with a task that nobody has crossed yet.
LEMMA RefreshBegins ==
    ASSUME DisplayInv, Clicks!BeginRefresh
    PROVE  /\ Fresh(task["tray"])' /\ task'["tray"].pc = "bridge"
           /\ task'["tray"].action = "status" /\ task'["host"].pc = task["host"].pc
  <1>1. /\ <<"status">> \in Seq(Clicks!Actions) /\ <<"status">> # <<>>
        /\ Head(<<"status">>) = "status" /\ "refresh" \in Kinds
        /\ Clicks!First("status") = "bridge"
    BY DEF Clicks!Actions, Kinds, Clicks!First
  <1>2. DisplayShape /\ config \in Clicks!Config /\ Clicks!Threads = {"host", "tray"}
    BY TwoThreads DEF DisplayInv, DisplayShape
  <1>3. PICK begun : begun = Clicks!Job("refresh", <<"status">>, config)
    OBVIOUS
  <1>4. /\ begun \in Task /\ begun.pc = Clicks!First(Head(<<"status">>))
        /\ begun.kind = "refresh" /\ begun.action = Head(<<"status">>)
    <2>1. \A actions \in Seq(Clicks!Actions) : actions # <<>> =>
             /\ Clicks!Job("refresh", actions, config) \in Task
             /\ Clicks!Job("refresh", actions, config).pc = Clicks!First(Head(actions))
             /\ Clicks!Job("refresh", actions, config).kind = "refresh"
             /\ Clicks!Job("refresh", actions, config).action = Head(actions)
      BY <1>1, <1>2, JobIs
    <2> QED
      BY <1>1, <1>3, <2>1
  <1>5. begun.clean
    BY <1>3 DEF Clicks!Job, Clicks!Idle
  <1>6. PICK blank : blank = [begun EXCEPT !.before = FALSE]
    OBVIOUS
  <1>7. PICK refreshed : refreshed = [blank EXCEPT !.sampled = Clicks!EmptyStatus]
    OBVIOUS
  <1>8. /\ refreshed.pc = "bridge" /\ refreshed.kind = "refresh"
        /\ refreshed.action = "status" /\ refreshed.clean
    BY <1>1, <1>4, <1>5, <1>6, <1>7 DEF Task
  <1>9. task' = [task EXCEPT !["tray"] = refreshed]
    BY <1>3, <1>6, <1>7 DEF Clicks!BeginRefresh
  <1> QED
    BY <1>2, <1>8, <1>9 DEF Fresh, DisplayShape

\* A click is no refresh.
LEMMA ClickIsNone ==
    ASSUME DisplayInv, NEW action \in {"toggle-taskbar-autohide", "set-resolution", "set-scale"},
           NEW wanted \in Modes \cup Scales \cup {Unset},
           Clicks!TrayAct(action, wanted)
    PROVE  task'["tray"].kind # "refresh"
  <1>1. PICK begun : begun = Clicks!Job("click", <<action>>, config')
    OBVIOUS
  <1>2. begun.kind = "click"
    BY <1>1 DEF Clicks!Job, Clicks!Idle
  <1>3. Clicks!Cross(task, "tray") \in [Clicks!Threads -> Task] /\ "tray" \in Clicks!Threads
    BY CrossIs, TwoThreads DEF DisplayInv, DisplayShape
  <1>4. task' = [Clicks!Cross(task, "tray") EXCEPT !["tray"] = [begun EXCEPT !.wanted = wanted]]
    BY <1>1 DEF Clicks!TrayAct
  <1>5. task'["tray"] = [begun EXCEPT !.wanted = wanted]
    BY <1>3, <1>4
  <1> QED
    BY <1>2, <1>5

\* The tray's action ends.
LEMMA TrayIsOver ==
    ASSUME DisplayInv, Clicks!TrayEnds
    PROVE  /\ task'["tray"].pc = "over" /\ task["tray"].pc \in {"save", "failed"}
           /\ task'["tray"].kind = task["tray"].kind
           /\ task'["tray"].action = task["tray"].action
           /\ task'["tray"].clean <=> task["tray"].clean
           /\ task'["host"] = task["host"] /\ UNCHANGED <<device, left>>
           /\ task["tray"].pc = "failed" => UNCHANGED <<status, view>>
  <1>1. PICK over \in Task :
            /\ over = Clicks!Over("tray")
            /\ over.pc = "over" /\ over.kind = task["tray"].kind
            /\ over.action = task["tray"].action
            /\ over.clean <=> task["tray"].clean
    BY OverIs, TwoThreads DEF DisplayInv
  <1>2. /\ task["tray"].pc \in {"save", "failed"}
        /\ task' = [task EXCEPT !["tray"] = over] /\ UNCHANGED <<device, left>>
        /\ task["tray"].pc = "failed" => UNCHANGED <<status, view>>
    BY <1>1 DEF Clicks!TrayEnds, Clicks!TraySaves, Clicks!TrayFails
  <1> QED
    BY <1>1, <1>2, TwoThreads DEF DisplayInv, DisplayShape

\* What an uncrossed refresh has been told stays so in every step.
LEMMA TellingNext ==
    DisplayInv /\ Telling(task["tray"]) /\ [Refresh!Next]_displayVars => Telling(task["tray"])'
  <1> SUFFICES ASSUME DisplayInv, Telling(task["tray"]), [Refresh!Next]_displayVars
               PROVE  Telling(task["tray"])'
    OBVIOUS
  <1>1. CASE UNCHANGED displayVars
    BY <1>1 DEF displayVars, Telling, Fresh
  <1>2. CASE Refresh!Edit
    <2>1. ~task'["tray"].clean
      BY <1>2, SameHelpers, CrossIs, TwoThreads DEF Refresh!Edit, DisplayInv, DisplayShape
    <2> QED
      BY <2>1 DEF Telling, Fresh
  <1>3. CASE \/ Clicks!ActionStep("host") \/ Clicks!CallFails("host") \/ Clicks!HostEnds
             \/ Clicks!Apply \/ \E action \in Clicks!Actions : Clicks!Trigger(action)
    BY <1>3, HostCrosses DEF Telling, Fresh
  <1>4. CASE Clicks!BeginRefresh
    BY <1>4, RefreshBegins DEF Telling, Fresh
  <1>5. CASE Clicks!MenuChoice \/ Clicks!LeftClick
    <2>1. task'["tray"].kind # "refresh"
      BY <1>5, ClickIsNone DEF Clicks!MenuChoice, Clicks!LeftClick
    <2> QED
      BY <2>1 DEF Telling, Fresh
  <1>6. CASE Clicks!ActionStep("tray")
    <2>1. TrayGoes(task["tray"], task'["tray"])
      BY <1>6, TrayActs
    <2> QED
      BY <2>1 DEF Telling, Fresh, TrayGoes
  <1>7. CASE Clicks!CallFails("tray")
    <2>1. PICK moved : moved = Clicks!To("tray", "failed")
      OBVIOUS
    <2>2. moved \in [Clicks!Threads -> Task]
      BY <2>1, ToIs, TwoThreads DEF DisplayInv
    <2>3. ~task'["tray"].clean
      BY <1>7, <2>1, <2>2, TwoThreads DEF Clicks!CallFails, Task
    <2> QED
      BY <2>3 DEF Telling, Fresh
  <1>8. CASE Clicks!TrayEnds
    BY <1>8, TrayIsOver DEF Telling, Fresh
  <1> QED
    BY <1>1, <1>2, <1>3, <1>4, <1>5, <1>6, <1>7, <1>8, SameSteps, TwoThreads
       DEF Refresh!Next, Clicks!Actions, Refresh!Actions, Clicks!TaskbarActions,
           Refresh!TaskbarActions, Clicks!Threads, Refresh!Threads

\* So what it saves is the display.
LEMMA FreshSaves == DisplayInv /\ Telling(task["tray"]) => SavesTheTruth
  <1> SUFFICES ASSUME DisplayInv, Telling(task["tray"]), Refresh!TraySaves,
                      Fresh(task["tray"])
               PROVE  Shown'
    BY DEF SavesTheTruth
  <1> DEFINE result == task["tray"].result
  <1>1. /\ device \in Device /\ status \in Status /\ result \in Result
        /\ config \in Clicks!Config
    BY TwoThreads DEF DisplayInv, DisplayShape, Task
  <1>2. /\ status' = Refresh!Updated(status, result) /\ view' = Refresh!View(result)
        /\ task["tray"].pc = "save" /\ UNCHANGED device
    BY DEF Refresh!TraySaves
  <1>3. /\ result.mode = device.mode /\ result.scale = device.scale
        /\ result.hide <=> device.hide
    BY <1>2 DEF Telling
  <1>4. device.mode # Unset /\ device.scale # Unset /\ device.hide \in BOOLEAN
          /\ result.hide \in BOOLEAN
    BY <1>1, Defaults DEF Device, Result
  <1> HIDE DEF result
  <1>5. /\ status'.mode = device.mode /\ status'.scale = device.scale
        /\ status'.hide = result.hide
    BY <1>1, <1>2, <1>3, <1>4 DEF Refresh!Updated, Refresh!Or, Status
  <1>6. view'.hide = result.hide
    BY <1>2 DEF Refresh!View
  <1> QED
    BY <1>2, <1>3, <1>4, <1>5, <1>6 DEF Shown

\* While the display is left alone only the tray moves.
LEMMA OnlyTheTray ==
    ASSUME DisplayInv, Quiet, Refresh!Next
    PROVE  Clicks!BeginRefresh \/ Clicks!ActionStep("tray") \/ Clicks!TrayEnds
  <1>1. /\ left["jobs"] = 0 /\ left["clicks"] = 0 /\ left["edits"] = 0 /\ left["faults"] = 0
        /\ task["host"].pc \in {"idle", "over"} /\ Refresh!Threads = {"host", "tray"}
    BY SameHelpers, TwoThreads DEF Quiet, Bounds, Clicks!Free
  <1>2. ~Refresh!Edit /\ ~Refresh!Apply /\ ~Refresh!MenuChoice /\ ~Refresh!LeftClick
        /\ \A action \in Refresh!Actions : ~Refresh!Trigger(action)
    BY <1>1 DEF Refresh!Edit, Refresh!Apply, Refresh!MenuChoice, Refresh!LeftClick,
       Refresh!TrayAct, Refresh!Trigger
  <1>3. \A t \in Refresh!Threads : ~Refresh!CallFails(t)
    BY <1>1 DEF Refresh!CallFails
  <1>4. ~Refresh!ActionStep("host")
    BY <1>1 DEF Refresh!ActionStep, Refresh!ReadTaskbar, Refresh!SetTaskbar,
       Refresh!LookAtTaskbar, Refresh!BridgeReports, Refresh!BridgeSets
  <1>5. ~Refresh!HostEnds
    BY <1>1 DEF Refresh!HostEnds, Refresh!HostSaves, Refresh!HostFails, Refresh!RunScript,
       Refresh!ScriptEnds
  <1> QED
    BY <1>1, <1>2, <1>3, <1>4, <1>5, SameSteps DEF Refresh!Next

\* And what it does comes right.
LEMMA QuietComesRight == DisplayInv /\ Telling(task["tray"]) /\ Refresh!Next => ComesRight
  <1> SUFFICES ASSUME DisplayInv, Telling(task["tray"]), Refresh!Next, Quiet
               PROVE  /\ Quiet'
                      /\ Refresh!BeginRefresh \/ TrayLeft' < TrayLeft
                      /\ Refresh!BeginRefresh \/ Fresh(task["tray"]) => Fresh(task["tray"])'
                      /\ Fresh(task["tray"]) /\ Shown => Shown'
    BY DEF ComesRight
  <1>1. left["faults"] = 0
    BY DEF Quiet, Bounds
  <1>2. Refresh!BeginRefresh <=> Clicks!BeginRefresh
    BY SameHelpers DEF Clicks!BeginRefresh, Refresh!BeginRefresh
  <1>3. CASE Clicks!BeginRefresh
    <2>1. UNCHANGED <<device, status, view, left>>
      BY <1>3 DEF Clicks!BeginRefresh
    <2> QED
      BY <1>2, <1>3, <2>1, RefreshBegins DEF Quiet, Clicks!Free, Shown
  <1>4. CASE Clicks!ActionStep("tray")
    <2>1. /\ TrayGoes(task["tray"], task'["tray"])
          /\ task'["host"].pc = task["host"].pc /\ UNCHANGED <<status, view>>
      BY <1>4, TrayActs
    <2>2. task'["tray"].clean <=> task["tray"].clean
      BY <1>1, <2>1 DEF TrayGoes
    <2>3. UNCHANGED left
      BY <1>1, <1>4, <2>2, TrayActs
    <2>4. TrayLeft' < TrayLeft
      BY <2>1 DEF TrayGoes, TrayLeft
    <2>5. Fresh(task["tray"]) => Fresh(task["tray"])' /\ UNCHANGED device
      BY <2>1, <2>2 DEF TrayGoes, Fresh, Telling
    <2>6. task["tray"].pc \in {"read", "set", "bridge", "look"}
      BY <2>1 DEF TrayGoes
    <2>7. ~Refresh!BeginRefresh
      BY <2>6 DEF Refresh!BeginRefresh, Refresh!Free
    <2> QED
      BY <2>1, <2>3, <2>4, <2>5, <2>7 DEF Quiet, Clicks!Free, Shown
  <1>5. CASE Clicks!TrayEnds
    <2>1. TrayLeft' < TrayLeft
      BY <1>5, TrayIsOver DEF TrayLeft
    <2>2. Quiet' /\ (Fresh(task["tray"]) => Fresh(task["tray"])') /\ ~Refresh!BeginRefresh
      BY <1>5, TrayIsOver DEF Quiet, Clicks!Free, Fresh, Refresh!BeginRefresh, Refresh!Free
    <2>3. Fresh(task["tray"]) => Refresh!TraySaves
      <3>1. Refresh!TrayEnds
        BY <1>5, SameHelpers DEF Clicks!TrayEnds, Refresh!TrayEnds, Clicks!TraySaves,
           Refresh!TraySaves, Clicks!TrayFails, Refresh!TrayFails, Clicks!Updated,
           Refresh!Updated, Clicks!Or, Refresh!Or, Clicks!View, Refresh!View
      <3> QED
        BY <3>1 DEF Telling, Refresh!TrayEnds, Refresh!TrayFails
    <2>4. Fresh(task["tray"]) => Shown'
      BY <2>3, FreshSaves DEF SavesTheTruth
    <2> QED
      BY <2>1, <2>2, <2>4
  <1> QED
    BY <1>3, <1>4, <1>5, OnlyTheTray
-----------------------------------------------------------------------------
(* That the process ends.                                                  *)

\* How far the thread of an icon is from its end; an action or a menu is a turn of the
\* loop.
IconStage(t) ==
    CASE thread[t] = "setup" -> 3 [] thread[t] = "icon" -> 2
      [] thread[t] \in {"loop", "act", "menu"} -> 1 [] thread[t] \in {"none", "gone", "failed"} -> 0

\* How far run_daemon is from its own.
MainStage ==
    CASE main = "start" -> 4 [] main = "specs" -> 3 [] main = "loop" -> 2
      [] main = "leaving" -> 1 [] main = "ended" -> 0

\* With the flag down run_daemon can go on, unless it joins a thread that lives.
MainCan ==
    \/ main \in {"start", "specs", "loop"}
    \/ main = "leaving" /\ \A t \in Icons!Icons : ~Icons!Alive(t)

\* So can the thread of an icon; a menu waits for the user to turn to something else.
IconCan(t) == thread[t] \in {"setup", "icon", "loop", "act", "menu"}

\* With the flag down, every step of run_daemon and of the threads leads to the
\* end, and none of anybody leads away from it: a thread is only started once.
StopNears ==
    ~traysRun =>
        /\ ~traysRun'
        /\ MainStage' <= MainStage /\ todo' \subseteq todo
        /\ Icons!MainStep => MainStage' < MainStage \/ todo' # todo
        /\ \A t \in Icons!Icons :
            /\ IconStage(t)' <= IconStage(t) \/ (thread[t] = "none" /\ thread'[t] = "setup")
            /\ thread'[t] = "none" => thread[t] = "none"
            /\ Icons!TrayStep(t) => IconStage(t)' < IconStage(t)
            /\ Icons!Dismiss(t) \/ Icons!EndAct(t) => thread'[t] = "loop"
-----------------------------------------------------------------------------
(* That a hotkey is given back.                                            *)

\* Copper holds a hotkey that is no longer the configured one.
HeldTooLong(h) == owner[h] = "copper" /\ setting # h

\* The hotkey thread has a step: it has not ended.
KeyThreadCan == pc \in {"poll", "drain", "waiting"}

\* The steps the thread has before it is back at its poll, with those for presses
\* that may still come.
BeforePoll ==
    2 * (presses + budget["presses"])
      + (IF pc = "waiting" THEN 2 ELSE IF pc = "drain" THEN 1 ELSE 0)

\* The next poll gives such a hotkey back, and so does the end of the thread; every
\* other step of the thread brings its poll nearer, but for a turn in which the
\* second is not over, and nobody else puts it off.
ReleaseNears(h) ==
    HeldTooLong(h) =>
        /\ HotkeyThread!Poll \/ HotkeyThread!EndLoop => owner'[h] # "copper"
        /\ HotkeyThread!Take \/ HotkeyThread!Timeout \/ HotkeyThread!Idle
             => BeforePoll' < BeforePoll
        /\ HotkeyThread!ThreadStep \/ BeforePoll' <= BeforePoll

\* Poll and end release.
LEMMA PollReleases ==
    ASSUME ThreadInv, NEW h \in Hotkeys, HeldTooLong(h),
           HotkeyThread!Poll \/ HotkeyThread!EndLoop
    PROVE  owner'[h] # "copper"
  <1>1. registered /\ combo = h /\ owner \in [Hotkeys -> HotkeyThread!Owners]
    BY DEF ThreadInv, HeldTooLong, HotkeyThread!OneKeyHeld, HotkeyThread!TypeOK
  <1>2. HotkeyThread!Released \in [Hotkeys -> HotkeyThread!Owners]
          /\ HotkeyThread!Released[h] # "copper"
    BY Lets
  <1>3. CASE HotkeyThread!Poll
    <2>1. HotkeyThread!Update
      BY <1>1, <1>3 DEF HotkeyThread!Poll, HeldTooLong
    <2> QED
      BY <1>2, <2>1 DEF HotkeyThread!Update, HeldTooLong
  <1>4. CASE HotkeyThread!EndLoop
    BY <1>2, <1>4 DEF HotkeyThread!EndLoop
  <1> QED
    BY <1>3, <1>4

\* The rest of it, step by step.
LEMMA KeyStepsNear ==
    ThreadInv /\ [HotkeyThread!Next]_keyVars => \A h \in Hotkeys : ReleaseNears(h)
  <1> SUFFICES ASSUME ThreadInv, [HotkeyThread!Next]_keyVars,
                      NEW h \in Hotkeys, HeldTooLong(h)
               PROVE  /\ HotkeyThread!Poll \/ HotkeyThread!EndLoop => owner'[h] # "copper"
                      /\ HotkeyThread!Take \/ HotkeyThread!Timeout \/ HotkeyThread!Idle
                           => BeforePoll' < BeforePoll
                      /\ HotkeyThread!ThreadStep \/ BeforePoll' <= BeforePoll
    BY DEF ReleaseNears
  <1>1. /\ presses \in Nat /\ queue \in Nat
        /\ budget \in [{"saves", "presses", "others", "toggles"} -> Nat]
        /\ budget["presses"] \in Nat
    BY DEF ThreadInv, HotkeyThread!TypeOK
  <1>2. HotkeyThread!Take \/ HotkeyThread!Timeout \/ HotkeyThread!Idle
          => BeforePoll' < BeforePoll
    BY <1>1 DEF HotkeyThread!Take, HotkeyThread!Timeout, HotkeyThread!Idle, BeforePoll
  <1>3. ASSUME HotkeyThread!Serve
        PROVE  BeforePoll' <= BeforePoll
    BY <1>1, <1>3 DEF HotkeyThread!Serve, BeforePoll
  <1>4. ASSUME HotkeyThread!Shutdown \/ UNCHANGED keyVars
        PROVE  BeforePoll' <= BeforePoll
    BY <1>1, <1>4 DEF HotkeyThread!Shutdown, HotkeyThread!thread, keyVars, BeforePoll
  <1>5. ASSUME NEW what \in {"saves", "others", "toggles"}, HotkeyThread!Spend(what),
               UNCHANGED <<presses, pc>>
        PROVE  BeforePoll' <= BeforePoll
    <2>1. budget'["presses"] = budget["presses"]
      BY <1>1, <1>5, Spends
    <2> QED
      BY <1>1, <1>5, <2>1 DEF BeforePoll
  <1>6. ASSUME \/ HotkeyThread!Toggle
               \/ \E s \in HotkeyThread!Settings : HotkeyThread!Save(s)
               \/ \E k \in Hotkeys : HotkeyThread!OtherTakes(k)
        PROVE  BeforePoll' <= BeforePoll
    BY <1>5, <1>6 DEF HotkeyThread!Toggle, HotkeyThread!Save, HotkeyThread!OtherTakes,
       HotkeyThread!thread
  <1>7. ASSUME NEW k \in Hotkeys, HotkeyThread!Press(k)
        PROVE  BeforePoll' <= BeforePoll
    <2>1. /\ budget'["presses"] = budget["presses"] - 1 /\ presses' = presses + 1
          /\ pc' = pc
      BY <1>1, <1>7, Spends DEF HotkeyThread!Press, HotkeyThread!thread
    <2> QED
      BY <1>1, <2>1 DEF BeforePoll
  <1>8. ASSUME NEW k \in Hotkeys, HotkeyThread!OtherReleases(k)
        PROVE  BeforePoll' <= BeforePoll
    BY <1>1, <1>8 DEF HotkeyThread!OtherReleases, HotkeyThread!thread, BeforePoll
  <1>9. HotkeyThread!ThreadStep \/ BeforePoll' <= BeforePoll
    BY <1>3, <1>4, <1>6, <1>7, <1>8 DEF HotkeyThread!Next, BeforePoll
  <1> QED
    BY <1>2, <1>9, PollReleases

\* The steps of the icons.
LEMMA StopStepsNear == IconsInv /\ [Icons!Next]_trayVars => StopNears
  <1> SUFFICES ASSUME IconsInv, [Icons!Next]_trayVars, ~traysRun
               PROVE  /\ ~traysRun'
                      /\ MainStage' <= MainStage /\ todo' \subseteq todo
                      /\ Icons!MainStep => MainStage' < MainStage \/ todo' # todo
                      /\ \A t \in Icons!Icons :
                          /\ \/ IconStage(t)' <= IconStage(t)
                             \/ thread[t] = "none" /\ thread'[t] = "setup"
                          /\ thread'[t] = "none" => thread[t] = "none"
                          /\ Icons!TrayStep(t) => IconStage(t)' < IconStage(t)
                          /\ Icons!Dismiss(t) \/ Icons!EndAct(t) => thread'[t] = "loop"
    BY DEF StopNears
  <1>1. /\ main \in {"start", "specs", "loop", "leaving", "ended"} /\ todo \subseteq Specs
        /\ thread \in [Icons!Icons -> {"none", "setup", "icon", "loop", "act", "menu", "gone",
                                    "failed"}]
        /\ Icons!Icons = Specs \cup {MainTray}
        /\ main = "start" => thread[MainTray] = "none"
        /\ \A s \in todo : thread[s] = "none"
    BY DEF IconsInv, Icons!TypeOK, Icons!Icons
  <1>2. CASE Icons!MainStep
    <2>1. /\ MainStage' <= MainStage /\ todo' \subseteq todo
          /\ MainStage' < MainStage \/ todo' # todo
          /\ main' # main \/ todo' # todo
          /\ UNCHANGED traysRun
      BY <1>1, <1>2 DEF Icons!MainStep, Icons!StartMainTray, Icons!StartSpec, Icons!BeginLoop,
         Icons!ServeShutdown, Icons!Leave, Icons!Join, Icons!Spawn, MainStage
    <2>2. \/ UNCHANGED thread
          \/ \E t \in Icons!Icons :
                thread[t] = "none" /\ thread' = [thread EXCEPT ![t] = "setup"]
      BY <1>1, <1>2 DEF Icons!MainStep, Icons!StartMainTray, Icons!StartSpec, Icons!BeginLoop,
         Icons!ServeShutdown, Icons!Leave, Icons!Join, Icons!Spawn
    <2>3. \A t \in Icons!Icons :
            \/ thread'[t] = thread[t] /\ IconStage(t)' = IconStage(t)
            \/ thread[t] = "none" /\ thread'[t] = "setup"
      BY <1>1, <2>2 DEF IconStage
    <2>4. \A t \in Icons!Icons : IconStage(t) \in 0 .. 3
      BY <1>1 DEF IconStage
    <2>5. \A t \in Icons!Icons : ~Icons!TrayStep(t) /\ ~Icons!Dismiss(t) /\ ~Icons!EndAct(t)
      BY <2>1 DEF Icons!TrayStep, Icons!Setup, Icons!AddIcon, Icons!EndLoop, Icons!Dismiss,
         Icons!EndAct, Icons!GiveBack
    <2> QED
      BY <2>1, <2>3, <2>4, <2>5
  <1>3. CASE ~Icons!MainStep
    <2>1. UNCHANGED <<main, todo>> /\ ~traysRun'
      BY <1>3 DEF Icons!Next, Icons!TrayStep, Icons!Setup, Icons!AddIcon, Icons!EndLoop,
         Icons!BeginAct, Icons!EndAct, Icons!OpenMenu, Icons!Dismiss, Icons!Choose,
         Icons!ChooseExit, Icons!Take, Icons!GiveBack, Icons!CloseWindow, Icons!Ask, Icons!Interrupt, trayVars
    <2>2. MainStage' = MainStage /\ MainStage \in 0 .. 4
      BY <1>1, <2>1 DEF MainStage
    <2>3. ASSUME NEW t \in Icons!Icons
          PROVE  /\ IconStage(t)' <= IconStage(t)
                 /\ thread'[t] = "none" => thread[t] = "none"
                 /\ Icons!TrayStep(t) => IconStage(t)' < IconStage(t)
                 /\ Icons!Dismiss(t) \/ Icons!EndAct(t) => thread'[t] = "loop"
      <3>1. ASSUME NEW u \in Icons!Icons,
                   \/ Icons!Setup(u) \/ Icons!AddIcon(u) \/ Icons!EndLoop(u)
                   \/ Icons!BeginAct(u) \/ Icons!EndAct(u) \/ Icons!OpenMenu(u)
                   \/ Icons!Dismiss(u) \/ Icons!Choose(u) \/ Icons!ChooseExit(u)
                   \/ Icons!CloseWindow(u)
            PROVE  /\ thread'[u] # "none" \/ thread[u] = "none"
                   /\ IconStage(u)' <= IconStage(u) /\ (t # u => thread'[t] = thread[t])
        BY <1>1, <3>1 DEF Icons!Setup, Icons!AddIcon, Icons!EndLoop, Icons!BeginAct,
           Icons!EndAct, Icons!OpenMenu, Icons!Dismiss, Icons!Choose, Icons!ChooseExit,
           Icons!Take, Icons!GiveBack, Icons!CloseWindow, IconStage
      <3>2. Icons!TrayStep(t) => IconStage(t)' < IconStage(t)
        BY <1>1 DEF Icons!TrayStep, Icons!Setup, Icons!AddIcon, Icons!EndLoop, IconStage
      <3>3. Icons!Dismiss(t) \/ Icons!EndAct(t) => thread'[t] = "loop"
        BY <1>1 DEF Icons!Dismiss, Icons!EndAct, Icons!GiveBack
      <3>4. IconStage(t) \in 0 .. 3 /\ (thread'[t] = thread[t] => IconStage(t)' = IconStage(t))
        BY <1>1 DEF IconStage
      <3>5. CASE UNCHANGED thread
        BY <3>2, <3>3, <3>4, <3>5
      <3>6. CASE \E u \in Icons!Icons :
                   \/ Icons!Setup(u) \/ Icons!AddIcon(u) \/ Icons!EndLoop(u)
                   \/ Icons!BeginAct(u) \/ Icons!EndAct(u) \/ Icons!OpenMenu(u)
                   \/ Icons!Dismiss(u) \/ Icons!Choose(u) \/ Icons!ChooseExit(u)
                   \/ Icons!CloseWindow(u)
        <4>1. PICK u \in Icons!Icons :
                   \/ Icons!Setup(u) \/ Icons!AddIcon(u) \/ Icons!EndLoop(u)
                   \/ Icons!BeginAct(u) \/ Icons!EndAct(u) \/ Icons!OpenMenu(u)
                   \/ Icons!Dismiss(u) \/ Icons!Choose(u) \/ Icons!ChooseExit(u)
                   \/ Icons!CloseWindow(u)
          BY <3>6
        <4>2. CASE t = u
          BY <3>1, <3>2, <3>3, <4>1, <4>2
        <4>3. CASE t # u
          BY <3>1, <3>2, <3>3, <3>4, <4>1, <4>3
        <4> QED
          BY <4>2, <4>3
      <3>7. CASE Icons!Ask \/ Icons!Interrupt \/ UNCHANGED trayVars
        BY <3>5, <3>7 DEF Icons!Ask, Icons!Interrupt, trayVars
      <3> QED
        BY <1>3, <3>6, <3>7 DEF Icons!Next, Icons!TrayStep
    <2> QED
      BY <1>3, <2>1, <2>2, <2>3
  <1> QED
    BY <1>2, <1>3

\* While the flag is down somebody has a step, until all is over.
LEMMA StopNotStuck ==
    IconsInv => main = "ended" \/ MainCan \/ \E t \in Icons!Icons : IconCan(t)
  BY DEF IconsInv, Icons!TypeOK, MainCan, IconCan, Icons!Alive
-----------------------------------------------------------------------------
(* So all of them settle, but that each gets the processor (ThreadsSettle). *)

\* A refresh that nobody has crossed saves what the display is, whatever the host
\* has written from an old copy; and once the display is left alone the tray
\* comes to the end of what it does, begins such refreshes, and what is shown right
\* stays right (refresh_status of windows_display.rs).
THEOREM StatusComesRight ==
  Spec => /\ [](part = "refresh" => TrayLeft \in Nat /\ (TrayLeft = 0 => Clicks!Free("tray")))
          /\ [][part = "refresh" => SavesTheTruth /\ ComesRight]_displayVars
  <1> DEFINE Told == part = "refresh" => Telling(task["tray"])
  <1>1. Init => Told
    BY IdleTask, SameHelpers, TwoThreads
       DEF Init, Refresh!Init, Telling, Fresh
  <1>2. IInv /\ Told /\ [Next]_vars => Told'
    <2>1. ASSUME [Next]_vars, part' = "refresh"
          PROVE  part = "refresh" /\ [Refresh!Next]_displayVars
      BY <2>1 DEF Next, vars
    <2> QED
      BY <2>1, TellingNext DEF IInv
  <1>3. IInv => TrayLeft \in Nat /\ (TrayLeft = 0 => Clicks!Free("tray"))
    <2>1. IInv => task["tray"].pc \in Pcs \ {"script"}
      BY TwoThreads DEF IInv, DisplayInv, DisplayShape, Task
    <2> QED
      BY <2>1 DEF TrayLeft, Pcs, Clicks!Free
  <1>4. IInv /\ Told /\ [Next]_vars
          => [part = "refresh" => SavesTheTruth /\ ComesRight]_displayVars
    <2>1. part = "refresh" /\ [Next]_vars => Refresh!Next \/ UNCHANGED displayVars
      BY DEF Next, vars
    <2> QED
      BY <2>1, FreshSaves, QuietComesRight DEF IInv
  <1> QED
    BY <1>1, <1>2, <1>3, <1>4, Invariant, PTL DEF Spec

\* With the flag down the process comes to its end: until then run_daemon or the
\* thread of an icon has a step, and each of theirs leads there, wherever the
\* start, the icons and their menus are (run_daemon, tray.rs, tray_extension.rs).
THEOREM StopIsNear ==
  Spec => /\ [](part = "icons" /\ ~traysRun =>
                   main = "ended" \/ MainCan \/ \E t \in Icons!Icons : IconCan(t))
          /\ [](part = "icons" => /\ MainStage \in Nat
                                  /\ \A t \in Icons!Icons : IconStage(t) \in Nat)
          /\ [][part = "icons" => StopNears]_trayVars
  <1>1. IInv => /\ MainStage \in Nat
                /\ \A t \in Icons!Icons : IconStage(t) \in Nat
    BY DEF IInv, IconsInv, Icons!TypeOK, MainStage, IconStage
  <1>2. IInv => main = "ended" \/ MainCan \/ \E t \in Icons!Icons : IconCan(t)
    BY StopNotStuck DEF IInv
  <1>3. IInv /\ [Next]_vars => [part = "icons" => StopNears]_trayVars
    <2>1. [Next]_vars => [Icons!Next]_trayVars
      BY DEF Next, vars
    <2> QED
      BY <2>1, StopStepsNear DEF IInv
  <1> QED
    BY <1>1, <1>2, <1>3, Invariant, PTL DEF Spec

\* A hotkey that is no longer the configured one is given back by the next poll, or
\* by the end of the thread, which always has a step; and neither presses nor
\* answers that fail to come put its poll off for good (hotkey.rs).
THEOREM ReleaseIsNear ==
  Spec => /\ [](part = "thread" => \A h \in Hotkeys : HeldTooLong(h) => KeyThreadCan)
          /\ [](part = "thread" => BeforePoll \in Nat)
          /\ [][part = "thread" => \A h \in Hotkeys : ReleaseNears(h)]_keyVars
  <1>1. IInv => BeforePoll \in Nat /\ \A h \in Hotkeys : HeldTooLong(h) => KeyThreadCan
    <2> SUFFICES ASSUME IInv
                 PROVE  BeforePoll \in Nat /\ \A h \in Hotkeys : HeldTooLong(h) => KeyThreadCan
      OBVIOUS
    <2>1. /\ presses \in Nat /\ budget["presses"] \in Nat
          /\ pc \in {"poll", "drain", "waiting", "ended"} /\ HotkeyThread!OneKeyHeld
      BY DEF IInv, ThreadInv, HotkeyThread!TypeOK
    <2> QED
      BY <2>1 DEF BeforePoll, HeldTooLong, KeyThreadCan, HotkeyThread!OneKeyHeld
  <1>2. IInv /\ [Next]_vars
          => [part = "thread" => \A h \in Hotkeys : ReleaseNears(h)]_keyVars
    <2>1. [Next]_vars => [HotkeyThread!Next]_keyVars
      BY DEF Next, vars
    <2> QED
      BY <2>1, KeyStepsNear DEF IInv
  <1> QED
    BY <1>1, <1>2, Invariant, PTL DEF Spec
=============================================================================
