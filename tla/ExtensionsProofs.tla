-------------------------- MODULE ExtensionsProofs --------------------------
(***************************************************************************)
(* Proofs about Extensions.  Each part has an inductive invariant over its *)
(* own variables; the parts do not touch each other, so that the invariant *)
(* of the whole is that each part's holds while it moves.                  *)
(***************************************************************************)
EXTENDS Extensions, Sequences, FiniteSetTheorems, WellFoundedInduction, TLAPS
-----------------------------------------------------------------------------
(***************************************************************************)
(* The token (ControlPlane, of one daemon).                                *)
(***************************************************************************)

TokenShape ==
    /\ auth \in used \cup {Absent, Torn} /\ used \subseteq Tokens
    /\ daemonPc \in [{Server} -> {"off", "exists", "read", "generate", "truncate", "write",
                                  "serving"}]
    /\ token \in [{Server} -> used \cup {Absent}]
    /\ client \in [Clients -> {"idle", "read", "send", "queued", "done"}]
    /\ target \in [Clients -> {Server}]
    /\ sent \in [Clients -> used \cup {Absent}] /\ reply \in [Clients -> Token!Replies]

\* A daemon writes the file only when there is no token in it, and serves with
\* the token that is in it; so a token that was in the file stays, and what a
\* client has read is still there.
TokenStays ==
    /\ daemonPc[Server] \in {"truncate", "write", "serving"} => token[Server] # Absent
    /\ daemonPc[Server] \in {"generate", "truncate", "write"} => auth \notin Tokens
    /\ daemonPc[Server] = "serving" => auth = token[Server]
    /\ \A c \in Clients :
        /\ sent[c] # Absent => sent[c] = auth
        /\ reply[c] = "unauthorized" => sent[c] = Absent /\ client[c] = "done"

TokenInv == TokenShape /\ TokenStays

\* What is assumed of the marks and the bound of ControlPlane.
LEMMA TokenMarks == Absent \notin Tokens /\ Torn \notin Tokens /\ Absent # Torn
  BY ExtensionsAssumption DEF Token!ControlPlaneAssumption

\* The invariant of the token holds at first.
LEMMA TokenBegins == Token!Init => TokenInv
  BY TokenMarks DEF Token!Init, TokenInv, TokenShape, TokenStays, Token!Replies

\* It is inductive: every step of the daemon and of its clients keeps it.
LEMMA TokenGoesOn ==
  ASSUME TokenInv, [Token!Next]_tokenVars
  PROVE  TokenInv'
  <1> USE TokenMarks DEF TokenInv, TokenShape, TokenStays, Token!Replies
  <1>1. CASE UNCHANGED tokenVars
    BY <1>1 DEF tokenVars
  <1>2. CASE Token!DaemonStep(Server)
    <2> USE DEF Token!Goto, Token!clientVars
    <2>1. CASE Token!Start(Server)
      BY <2>1 DEF Token!Start
    <2>2. CASE Token!FileExists(Server)
      BY <2>2 DEF Token!FileExists
    <2>3. CASE Token!ReadSaved(Server)
      BY <2>3 DEF Token!ReadSaved
    <2>4. CASE Token!Generate(Server)
      BY <2>4 DEF Token!Generate
    <2>5. CASE Token!Truncate(Server)
      BY <2>5 DEF Token!Truncate
    <2>6. CASE Token!Write(Server)
      BY <2>6 DEF Token!Write
    <2>7. CASE Token!Stop(Server)
      BY <2>7 DEF Token!Stop
    <2> QED
      BY <1>2, <2>1, <2>2, <2>3, <2>4, <2>5, <2>6, <2>7 DEF Token!DaemonStep
  <1>3. ASSUME NEW c \in Clients, Token!ClientStep(c)
        PROVE  TokenInv'
    <2> USE DEF Token!ClientGoto, Token!Answer, Token!daemonVars
    <2>1. CASE Token!LookForToken(c)
      BY <2>1 DEF Token!LookForToken
    <2>2. CASE Token!LoadToken(c)
      <3>1. CASE auth \in Tokens
        BY <2>2, <3>1 DEF Token!LoadToken
      <3>2. CASE auth \notin Tokens
        BY <2>2, <3>2 DEF Token!LoadToken
      <3> QED
        BY <3>1, <3>2
    <2>3. CASE Token!Send(c)
      BY <2>3 DEF Token!Send
    <2>4. CASE Token!Serve(c)
      BY <2>4 DEF Token!Serve
    <2> QED
      BY <1>3, <2>1, <2>2, <2>3, <2>4 DEF Token!ClientStep
  <1> QED
    BY <1>1, <1>2, <1>3 DEF Token!Next

\* It is as strong as the type invariant and TokenServes ask for.
LEMMA TokenImplies ==
  TokenInv => Token!TypeOK /\ Token!TokenIsOnDisk /\ Token!TokenIsAccepted
  BY TokenMarks DEF TokenInv, TokenShape, TokenStays, Token!TypeOK, Token!TokenIsOnDisk,
     Token!TokenIsAccepted, Token!Replies
-----------------------------------------------------------------------------
(***************************************************************************)
(* The load (Registry).                                                    *)
(***************************************************************************)

LoadShape ==
    /\ loadPc \in Load!Places /\ result \in Load!Outcomes
    /\ disk \in [Slots -> Load!Content \cup {Nothing}]
    /\ past \in [Slots -> SUBSET (Load!Content \cup {Nothing})]
    /\ \A s \in Slots : disk[s] \in past[s] /\ (disk[s] # Nothing => s[1] \in exists)
    /\ roots \subseteq DOMAIN Load!Paths /\ dir \in Load!Dirs
    /\ \A f \in listing : <<dir, f>> \in Slots
    /\ loadPc \in {"idle", "roots", "config"} => listing = {}
    /\ IF loadPc \in {"main", "manifest"} THEN <<dir, at>> \in Slots ELSE at = Nothing
    /\ entries \in [Ids -> {Nothing} \cup (Load!Dirs \X Load!Content)]

\* An entry is what a folder of its directory has held since the load began.
LoadReads ==
    \A i \in Ids : entries[i] # Nothing =>
        /\ entries[i][2].id = i /\ entries[i][2].manifest = "valid"
        /\ \E s \in Slots : s[1] = entries[i][1] /\ entries[i][2] \in past[s]

Running == loadPc \in {"roots", "config"} \cup Load!Inside

\* The load has not come to a folder yet, or not done with it.
Unread(s) ==
    \/ \E i \in roots : Load!Root(i) = s[1]
    \/ loadPc \in Load!Inside /\ dir = s[1] /\ (s[2] \in listing \/ s[2] = at)

\* What has been read of a folder: it is none, or an extension that has an entry
\* under its id.
Seen(s) ==
    \/ disk[s] = Nothing \/ disk[s].manifest = "absent"
    \/ Load!Loadable(disk[s]) /\ entries[disk[s].id] # Nothing

\* What is there all the time is still to be read, or seen; its main.ts was
\* there when the load looked for it.
LoadSees ==
    Running =>
        /\ \A s \in Slots : Load!Steady(s) => Unread(s) \/ Seen(s)
        /\ loadPc = "config" => roots = {}
        /\ loadPc = "manifest" /\ Load!Steady(<<dir, at>>) => Load!HasMain(disk[<<dir, at>>])

LoadEnds == Load!NothingIsMissed /\ Load!DisabledIsSuppressed /\ Load!BrokenIsReported

LoadIdle == loadPc = "idle" => \A i \in Ids : entries[i] = Nothing

LoadInv == LoadShape /\ LoadReads /\ LoadIdle /\ LoadSees /\ LoadEnds

\* What is assumed of the paths, the places and the contents of Registry.
LEMMA LoadMarks ==
  /\ DOMAIN Load!Paths = 1 .. Len(Candidates) + 1 /\ Len(Candidates) \in Nat
  /\ Load!Paths \in Seq(DOMAIN Real) /\ Len(Load!Paths) = Len(Candidates) + 1
  /\ Load!Root(Len(Candidates) + 1) = Real[User]
  /\ Contents \subseteq Load!Content
  /\ \A c \in Load!Content :
        c # Nothing /\ c.id \in Ids /\ c.main \in BOOLEAN /\ c.manifest \in Load!ManifestKinds
  /\ \A e \in Load!Dirs \X Load!Content : e # Nothing
  /\ \A s \in Slots : s = <<s[1], s[2]>> /\ s[1] \in Load!Dirs /\ s[2] # Nothing
  <1>1. Candidates \in Seq(DOMAIN Real) /\ User \in DOMAIN Real
    BY ExtensionsAssumption DEF Load!RegistryAssumption
  <1>2. /\ Load!Paths \in Seq(DOMAIN Real) /\ Len(Load!Paths) = Len(Candidates) + 1
        /\ Load!Paths[Len(Candidates) + 1] = User
        /\ DOMAIN Load!Paths = 1 .. Len(Candidates) + 1 /\ Len(Candidates) \in Nat
    BY <1>1 DEF Load!Paths
  <1>3. /\ Contents \subseteq Load!Content
        /\ Nothing \notin Load!Content /\ Nothing \notin Load!Dirs \X Load!Content
        /\ Nothing \notin Load!Folders /\ Slots \subseteq Load!Dirs \X Load!Folders
    BY ExtensionsAssumption DEF Load!RegistryAssumption
  <1>4. \A s \in Slots : s = <<s[1], s[2]>> /\ s[1] \in Load!Dirs /\ s[2] # Nothing
    BY <1>3
  <1> QED
    BY <1>2, <1>3, <1>4 DEF Load!Root, Load!Content

\* Every directory that is there is read, by the first path that leads to it:
\* runtime_extension_roots drops no more than doublets.
LEMMA RootsCover ==
  ASSUME NEW present, NEW j \in DOMAIN Load!Paths, Load!IsRoot(j, present)
  PROVE  \E i \in Load!RuntimeRoots(present) : Load!Root(i) = Load!Root(j)
  <1> DEFINE T == {i \in DOMAIN Load!Paths :
                     Load!Root(i) = Load!Root(j) /\ Load!IsRoot(i, present)}
  <1>1. T \subseteq Nat /\ T # {}
    BY LoadMarks
  <1>2. PICK x \in T : \A y \in T : ~ (<<y, x>> \in OpToRel(<, Nat))
    BY <1>1, WFMin, NatLessThanWellFounded
  <1>3. \A y \in T : ~ (y < x)
    BY <1>1, <1>2 DEF OpToRel
  <1>4. x \in Load!RuntimeRoots(present)
    BY <1>3, LoadMarks DEF Load!RuntimeRoots
  <1> QED
    BY <1>4

\* Where a load begins every folder that holds something is in one of its roots.
LEMMA RootsHold ==
  ASSUME LoadShape, NEW s \in Slots, disk[s] # Nothing
  PROVE  \E i \in Load!RuntimeRoots(exists) : Load!Root(i) = s[1]
  <1>1. s[1] \in exists /\ s[1] \in Load!Dirs
    BY LoadMarks DEF LoadShape
  <1>2. PICK j \in DOMAIN Load!Paths : Load!Root(j) = s[1]
    BY <1>1 DEF Load!Dirs
  <1>3. Load!IsRoot(j, exists)
    BY <1>1, <1>2 DEF Load!IsRoot
  <1> QED
    BY <1>2, <1>3, RootsCover

\* The invariant of the load holds at first.
LEMMA LoadBegins == Load!Init => LoadInv
  <1> SUFFICES ASSUME Load!Init
               PROVE  LoadInv
    OBVIOUS
  <1>1. Real[User] \in Load!Dirs
    BY LoadMarks DEF Load!Dirs
  <1>2. \A s \in Slots : disk[s] # Nothing => s[1] \in exists
    BY DEF Load!Init
  <1>3. disk \in [Slots -> Load!Content \cup {Nothing}]
    BY LoadMarks DEF Load!Init
  <1>4. entries = [i \in Ids |-> Nothing]
    BY DEF Load!Init, Load!NoEntries
  <1>5. LoadShape
    BY <1>1, <1>2, <1>3, <1>4
       DEF Load!Init, Load!Now, LoadShape, Load!Outcomes, Load!Places, Load!Inside
  <1> QED
    BY <1>4, <1>5 DEF Load!Init, LoadInv, LoadIdle, LoadReads, LoadSees, Running, LoadEnds,
       Load!NothingIsMissed, Load!DisabledIsSuppressed, Load!BrokenIsReported, Load!Inside

\* The start of a load lists a root for every directory that is there.
LEMMA LoadStarts ==
  ASSUME LoadInv, Load!Start
  PROVE  LoadInv'
  <1> USE DEF Load!Start
  <1>1. LoadShape'
    BY DEF LoadInv, LoadShape, Load!RuntimeRoots, Load!Now, Load!Places, Load!Inside
  <1>2. \A i \in Ids : entries'[i] = Nothing
    BY DEF LoadInv, LoadIdle
  <1>3. LoadSees'
    BY <1>2, RootsHold DEF LoadInv, LoadSees, Unread, Seen
  <1>4. LoadEnds'
    BY DEF LoadEnds, Load!NothingIsMissed, Load!DisabledIsSuppressed, Load!BrokenIsReported
  <1> QED
    BY <1>1, <1>2, <1>3, <1>4 DEF LoadInv, LoadReads, LoadIdle

\* The next directory is opened: its listing has every folder that is there.
LEMMA LoadOpens ==
  ASSUME LoadInv, Load!OpenRoot
  PROVE  LoadInv'
  <1>1. PICK i \in roots :
          /\ roots' = roots \ {i} /\ dir' = Load!Root(i) /\ loadPc = "roots"
          /\ IF Load!Root(i) \in exists
             THEN /\ loadPc' = "folders"
                  /\ listing' = {s[2] : s \in {t \in Slots :
                                                  t[1] = Load!Root(i) /\ disk[t] # Nothing}}
             ELSE UNCHANGED <<loadPc, listing>>
          /\ UNCHANGED <<disk, exists, disabled, past, changes, at, entries, result>>
    BY DEF Load!OpenRoot, Load!world
  <1>2. loadPc' \in {"roots", "folders"} /\ roots' \subseteq roots /\ at = Nothing
    BY <1>1 DEF LoadInv, LoadShape
  <1>3. dir' \in Load!Dirs
    BY <1>1 DEF LoadInv, LoadShape, Load!Dirs
  <1>4. Load!Root(i) \in exists => \A f \in listing' : <<dir', f>> \in Slots
    BY <1>1, LoadMarks
  <1>5. LoadShape'
    <2>1. CASE Load!Root(i) \in exists
      BY <1>1, <1>2, <1>3, <1>4, <2>1 DEF LoadInv, LoadShape, Load!Places, Load!Inside
    <2>2. CASE Load!Root(i) \notin exists
      BY <1>1, <1>2, <1>3, <2>2 DEF LoadInv, LoadShape, Load!Places, Load!Inside
    <2> QED
      BY <2>1, <2>2
  <1>6. ASSUME NEW s \in Slots, Unread(s), disk[s] # Nothing
        PROVE  Unread(s)'
    <2>1. s = <<s[1], s[2]>> /\ s[1] \in exists
      BY <1>6, LoadMarks DEF LoadInv, LoadShape
    <2>2. CASE s[1] = Load!Root(i)
      BY <1>1, <1>6, <2>1, <2>2 DEF Unread, Load!Inside
    <2>3. CASE s[1] # Load!Root(i)
      BY <1>1, <1>6, <2>1, <2>3 DEF Unread, Load!Inside
    <2> QED
      BY <2>2, <2>3
  <1>7. LoadSees'
    BY <1>1, <1>2, <1>6 DEF LoadInv, LoadSees, Running, Seen, Load!Loadable, Load!Steady
  <1>8. LoadEnds'
    BY <1>2 DEF LoadEnds, Load!NothingIsMissed, Load!DisabledIsSuppressed,
       Load!BrokenIsReported
  <1> QED
    BY <1>1, <1>2, <1>5, <1>7, <1>8 DEF LoadInv, LoadReads, LoadIdle

\* An error ends the load without an entry.
LEMMA LoadFails ==
  ASSUME LoadInv, Running, NEW o \in {"missing-file", "validation", "io"}, Load!EndLoad(o)
  PROVE  LoadInv'
  <1>1. /\ loadPc' = "over" /\ result' = o /\ entries' = [i \in Ids |-> Nothing]
        /\ at' = Nothing /\ UNCHANGED <<disk, exists, disabled, past, roots, listing, dir>>
    BY DEF Load!EndLoad, Load!world, Load!NoEntries
  <1>2. LoadShape'
    BY <1>1 DEF LoadInv, LoadShape, Load!Outcomes, Load!Places
  <1> QED
    BY <1>1, <1>2 DEF LoadInv, LoadReads, LoadIdle, LoadSees, Running, Load!Inside, LoadEnds,
       Load!NothingIsMissed, Load!DisabledIsSuppressed, Load!BrokenIsReported

\* The first look at a folder: it is passed over, or stays to be read.
LEMMA LoadVisits ==
  ASSUME LoadInv, NEW f \in Load!Folders, Load!Visit(f)
  PROVE  LoadInv'
  <1> DEFINE s == <<dir, f>>
             c == disk[s]
  <1>1. /\ loadPc = "folders" /\ f \in listing /\ listing' = listing \ {f}
        /\ IF Load!IsExtension(c) THEN loadPc' = "main" /\ at' = f ELSE UNCHANGED <<loadPc, at>>
        /\ UNCHANGED <<disk, exists, disabled, past, changes, roots, dir, entries, result>>
    BY DEF Load!Visit, Load!world
  <1>2. s \in Slots /\ c \in Load!Content \cup {Nothing} /\ at = Nothing
    BY <1>1 DEF LoadInv, LoadShape
  <1>3. loadPc' \in {"folders", "main"}
    BY <1>1
  <1>4. LoadShape'
    BY <1>1, <1>2, <1>3 DEF LoadInv, LoadShape, Load!Places, Load!Inside
  <1>5. ASSUME NEW t \in Slots, Unread(t)
        PROVE  Unread(t)' \/ Seen(t)
    <2>1. t = <<t[1], t[2]>> /\ t[2] # Nothing
      BY LoadMarks
    <2>2. CASE t = s /\ ~Load!IsExtension(c)
      BY <1>2, <2>2 DEF Seen, Load!IsExtension
    <2>3. CASE t = s /\ Load!IsExtension(c)
      BY <1>1, <2>3 DEF Unread, Load!Inside
    <2>4. CASE t # s
      BY <1>1, <1>2, <1>3, <1>5, <2>1, <2>4 DEF Unread, Load!Inside
    <2> QED
      BY <2>2, <2>3, <2>4
  <1>6. \A t \in Slots : Seen(t) => Seen(t)'
    BY <1>1 DEF Seen, Load!Loadable
  <1>7. LoadSees'
    BY <1>1, <1>3, <1>5, <1>6 DEF LoadInv, LoadSees, Running, Load!Steady, Seen, Load!Loadable,
       Load!Inside
  <1>8. LoadEnds'
    BY <1>3 DEF LoadEnds, Load!NothingIsMissed, Load!DisabledIsSuppressed,
       Load!BrokenIsReported
  <1> QED
    BY <1>1, <1>3, <1>4, <1>7, <1>8 DEF LoadInv, LoadReads, LoadIdle

\* The second look finds main.ts, or ends the load.
LEMMA LoadLooks ==
  ASSUME LoadInv, Load!LookForMain
  PROVE  LoadInv'
  <1>1. CASE Load!HasMain(disk[<<dir, at>>])
    <2>1. /\ loadPc = "main" /\ loadPc' = "manifest"
          /\ UNCHANGED <<disk, exists, disabled, past, changes, roots, listing, dir, at,
                         entries, result>>
      BY <1>1 DEF Load!LookForMain, Load!world
    <2>2. LoadShape'
      BY <2>1 DEF LoadInv, LoadShape, Load!Places, Load!Inside
    <2>3. \A t \in Slots : Unread(t) => Unread(t)'
      BY <2>1 DEF Unread, Load!Inside
    <2>4. LoadSees'
      BY <1>1, <2>1, <2>3 DEF LoadInv, LoadSees, Running, Seen, Load!Steady, Load!HasMain,
         Load!Loadable, Load!Inside
    <2> QED
      BY <2>1, <2>2, <2>4 DEF LoadInv, LoadReads, LoadIdle, LoadEnds, Load!NothingIsMissed,
         Load!DisabledIsSuppressed, Load!BrokenIsReported
  <1>2. CASE ~Load!HasMain(disk[<<dir, at>>])
    BY <1>2, LoadFails DEF Load!LookForMain, Running, Load!Inside
  <1> QED
    BY <1>1, <1>2

\* The third look reads the manifest: its id gets the entry, or the load ends.
LEMMA LoadReadsManifest ==
  ASSUME LoadInv, Load!ReadManifest
  PROVE  LoadInv'
  <1> DEFINE s == <<dir, at>>
             c == disk[s]
  <1>1. loadPc = "manifest" /\ Running
    BY DEF Load!ReadManifest, Running, Load!Inside
  <1>2. CASE ~Load!IsExtension(c) \/ ~Load!ParseAndValidate(c.manifest)
    BY <1>1, <1>2, LoadFails DEF Load!ReadManifest
  <1>3. CASE Load!IsExtension(c) /\ Load!ParseAndValidate(c.manifest)
    <2>1. /\ loadPc' = "folders" /\ entries' = [entries EXCEPT ![c.id] = <<dir, c>>]
          /\ at' = Nothing
          /\ UNCHANGED <<disk, exists, disabled, past, changes, roots, listing, dir, result>>
      BY <1>3 DEF Load!ReadManifest, Load!Insert, Load!world
    <2>2. s \in Slots /\ c \in Load!Content /\ c.id \in Ids /\ c.manifest = "valid"
          /\ c \in past[s]
      BY <1>1, <1>3, LoadMarks DEF LoadInv, LoadShape, Load!IsExtension, Load!ParseAndValidate
    <2>3. LoadShape'
      BY <2>1, <2>2 DEF LoadInv, LoadShape, Load!Places, Load!Inside
    <2>4. <<dir, c>> # Nothing /\ entries'[c.id] = <<dir, c>>
      BY <2>1, <2>2, LoadMarks DEF LoadInv, LoadShape
    <2>5. \A i \in Ids : i # c.id => entries'[i] = entries[i]
      BY <2>1 DEF LoadInv, LoadShape
    <2>6. LoadReads'
      <3>1. s[1] = dir
        OBVIOUS
      <3>2. ASSUME NEW i \in Ids, entries'[i] # Nothing
            PROVE  /\ entries'[i][2].id = i /\ entries'[i][2].manifest = "valid"
                   /\ \E t \in Slots : t[1] = entries'[i][1] /\ entries'[i][2] \in past[t]
        <4>1. CASE i = c.id
          BY <2>2, <2>4, <3>1, <4>1
        <4>2. CASE i # c.id
          BY <2>5, <3>2, <4>2 DEF LoadInv, LoadReads
        <4> QED
          BY <4>1, <4>2
      <3> QED
        BY <2>1, <3>2 DEF LoadReads
    <2>7. ASSUME NEW t \in Slots, Load!Steady(t)
          PROVE  Unread(t)' \/ Seen(t)'
      <3>1. t = <<t[1], t[2]>> /\ t[2] # Nothing
        BY LoadMarks
      <3>2. CASE t = s
        <4>1. Load!Loadable(c)
          BY <1>1, <2>2, <2>7, <3>2, LoadMarks
             DEF LoadInv, LoadSees, Running, Load!HasMain, Load!Loadable
        <4> QED
          BY <2>1, <2>4, <3>2, <4>1 DEF Seen, Load!Loadable
      <3>3. CASE t # s
        <4>1. Unread(t) \/ Seen(t)
          BY <1>1, <2>7 DEF LoadInv, LoadSees
        <4>2. Unread(t) => Unread(t)'
          BY <1>1, <2>1, <3>1, <3>3 DEF Unread, Load!Inside
        <4>3. Load!Loadable(disk[t]) => disk[t].id \in Ids
          BY LoadMarks DEF LoadInv, LoadShape, Load!Loadable
        <4>4. Seen(t) => Seen(t)'
          BY <2>1, <2>4, <2>5, <4>3 DEF Seen, Load!Loadable
        <4> QED
          BY <4>1, <4>2, <4>4
      <3> QED
        BY <3>2, <3>3
    <2>8. LoadSees'
      BY <2>1, <2>7 DEF LoadSees, Load!Steady
    <2>9. LoadEnds'
      BY <2>1 DEF LoadEnds, Load!NothingIsMissed, Load!DisabledIsSuppressed,
         Load!BrokenIsReported
    <2> QED
      BY <2>1, <2>3, <2>6, <2>8, <2>9 DEF LoadInv, LoadIdle
  <1> QED
    BY <1>2, <1>3

\* The next directory, or the core config, is come to.
LEMMA LoadCloses ==
  ASSUME LoadInv, Load!CloseRoot \/ Load!CloseRoots
  PROVE  LoadInv'
  <1>1. /\ loadPc' \in {"roots", "config"} /\ (loadPc' = "config" => roots = {}) /\ Running
        /\ listing = {} /\ at = Nothing
        /\ UNCHANGED <<disk, exists, disabled, past, changes, roots, listing, dir, at,
                       entries, result>>
    BY DEF Load!CloseRoot, Load!CloseRoots, Load!world, LoadInv, LoadShape, Running,
       Load!Inside
  <1>2. LoadShape'
    BY <1>1 DEF LoadInv, LoadShape, Load!Places, Load!Inside
  <1>3. \A t \in Slots : (Unread(t) => Unread(t)') /\ (Seen(t) => Seen(t)')
    BY <1>1, LoadMarks DEF Unread, Seen, Load!Loadable
  <1>4. LoadSees'
    BY <1>1, <1>3 DEF LoadInv, LoadSees, Load!Steady
  <1> QED
    BY <1>1, <1>2, <1>4 DEF LoadInv, LoadReads, LoadIdle, LoadEnds, Load!NothingIsMissed,
       Load!DisabledIsSuppressed, Load!BrokenIsReported

\* A load that has read everything filters its entries.
LEMMA LoadFinishes ==
  ASSUME LoadInv, Load!Finish
  PROVE  LoadInv'
  <1>1. /\ loadPc = "config" /\ roots = {} /\ loadPc' = "over" /\ result' = "ok"
        /\ entries' = Load!FilterForRuntime(entries)
        /\ UNCHANGED <<disk, exists, disabled, past, changes, roots, listing, dir, at>>
    BY DEF Load!Finish, Load!world, LoadInv, LoadSees, Running
  <1>2. \A i \in Ids : entries'[i] =
            IF entries[i] = Nothing THEN Nothing
            ELSE IF i \notin disabled /\ Load!SupportsPlatform(entries[i][2]) THEN entries[i]
            ELSE Nothing
    BY <1>1 DEF Load!FilterForRuntime
  <1>3. entries' \in [Ids -> {Nothing} \cup (Load!Dirs \X Load!Content)]
    BY <1>1, <1>2 DEF Load!FilterForRuntime, LoadInv, LoadShape
  <1>4. LoadShape'
    BY <1>1, <1>3 DEF LoadInv, LoadShape, Load!Outcomes, Load!Places
  <1>5. LoadReads'
    BY <1>1, <1>2 DEF LoadInv, LoadReads
  <1>6. ASSUME NEW s \in Slots, Load!Steady(s)
        PROVE  Seen(s)
    BY <1>1, <1>6 DEF LoadInv, LoadSees, Running, Unread, Load!Inside
  <1>7. Load!BrokenIsReported'
    BY <1>1, <1>6 DEF Load!BrokenIsReported, Load!Loadable, Load!Steady, Seen
  <1>8. Load!DisabledIsSuppressed'
    BY <1>1, <1>2 DEF Load!DisabledIsSuppressed
  <1>9. ASSUME NEW s \in Slots, Load!Steady(s), Load!Loadable(disk[s]),
               entries'[disk[s].id] = Nothing, disk[s].id \notin disabled
        PROVE  \E t \in Slots : \E c \in past[t] : Load!Foreign(c, disk[s].id)
    <2> DEFINE i == disk[s].id
    <2>1. i \in Ids /\ disk[s] # Nothing /\ disk[s].manifest = "valid"
      BY <1>9, LoadMarks DEF LoadInv, LoadShape, Load!Loadable
    <2>2. entries[i] # Nothing
      BY <1>6, <1>9, <2>1 DEF Seen
    <2>3. ~Load!SupportsPlatform(entries[i][2])
      BY <1>2, <1>9, <2>1, <2>2
    <2>4. PICK t \in Slots : entries[i][2] \in past[t]
      BY <2>1, <2>2 DEF LoadInv, LoadReads
    <2>5. /\ entries[i] \in Load!Dirs \X Load!Content
          /\ entries[i][2].id = i /\ entries[i][2].manifest = "valid"
      BY <2>1, <2>2 DEF LoadInv, LoadShape, LoadReads
    <2>6. entries[i][2] # Nothing
      BY <2>5, LoadMarks
    <2> QED
      BY <2>3, <2>4, <2>5, <2>6 DEF Load!Foreign
  <1>10. Load!NothingIsMissed'
    BY <1>1, <1>9 DEF Load!NothingIsMissed, Load!Loadable, Load!Steady, Load!Foreign
  <1> QED
    BY <1>1, <1>4, <1>5, <1>7, <1>8, <1>10 DEF LoadInv, LoadIdle, LoadSees, Running,
       Load!Inside, LoadEnds

\* What stays of a folder that did not change while another did.
LEMMA Untouched ==
  ASSUME LoadShape, NEW s \in Slots, NEW c \in Contents \cup {Nothing},
         Load!ChangeFolder(s, c)
  PROVE  /\ past' = [past EXCEPT ![s] = @ \cup {c}] /\ disk' = [disk EXCEPT ![s] = c]
         /\ exists' = exists \cup {s[1]} /\ listing \subseteq listing'
         /\ listing' # listing =>
            loadPc \in Load!Inside /\ s[1] = dir /\ listing' = listing \cup {s[2]}
         /\ Running /\ UNCHANGED <<loadPc, roots, dir, at, entries, result, disabled>>
         /\ \A t \in Slots : Load!Steady(t)' => t # s /\ Load!Steady(t) /\ disk'[t] = disk[t]
         /\ \A t \in Slots : past[t] \subseteq past'[t]
  <1>1. /\ past' = [past EXCEPT ![s] = @ \cup {c}] /\ disk' = [disk EXCEPT ![s] = c]
        /\ exists' = exists \cup {s[1]} /\ listing \subseteq listing' /\ disk[s] # c
        /\ listing' # listing =>
           loadPc \in Load!Inside /\ s[1] = dir /\ listing' = listing \cup {s[2]}
        /\ Running /\ UNCHANGED <<loadPc, roots, dir, at, entries, result, disabled>>
    BY DEF Load!ChangeFolder, Load!Busy, Load!Places, Running
  <1>2. ASSUME NEW t \in Slots, Load!Steady(t)'
        PROVE  t # s /\ Load!Steady(t) /\ disk'[t] = disk[t]
    <2>1. CASE t = s
      <3>1. disk[s] \in past'[s] /\ disk'[s] = c
        BY <1>1 DEF LoadShape
      <3> QED
        BY <1>1, <1>2, <2>1, <3>1 DEF Load!Steady
    <2>2. CASE t # s
      BY <1>1, <1>2, <2>2 DEF Load!Steady, LoadShape
    <2> QED
      BY <2>1, <2>2
  <1>3. \A t \in Slots : past[t] \subseteq past'[t]
    BY <1>1 DEF LoadShape
  <1> QED
    BY <1>1, <1>2, <1>3

\* Installations and settings that change meanwhile leave the invariant as it
\* is for what they do not touch.
LEMMA LoadChanges ==
  ASSUME LoadInv,
         \/ \E s \in Slots, c \in Contents \cup {Nothing} : Load!ChangeFolder(s, c)
         \/ \E ids \in SUBSET Ids : Load!SetDisabled(ids)
  PROVE  LoadInv'
  <1>1. CASE \E ids \in SUBSET Ids : Load!SetDisabled(ids)
    <2>1. /\ Running
          /\ UNCHANGED <<disk, exists, past, loadPc, roots, listing, dir, at, entries, result>>
      BY <1>1 DEF Load!SetDisabled, Load!Busy, Running, Load!Places
    <2>2. LoadShape' /\ LoadReads' /\ LoadIdle'
      BY <2>1 DEF LoadInv, LoadShape, LoadReads, LoadIdle
    <2>3. LoadSees'
      BY <2>1 DEF LoadInv, LoadSees, Running, Unread, Seen, Load!Steady, Load!Loadable,
         Load!HasMain
    <2>4. LoadEnds'
      BY <2>1 DEF Running, Load!Inside, LoadEnds, Load!NothingIsMissed,
         Load!DisabledIsSuppressed, Load!BrokenIsReported
    <2> QED
      BY <2>2, <2>3, <2>4 DEF LoadInv
  <1>2. ASSUME NEW s \in Slots, NEW c \in Contents \cup {Nothing}, Load!ChangeFolder(s, c)
        PROVE  LoadInv'
    <2>1. /\ past' = [past EXCEPT ![s] = @ \cup {c}] /\ disk' = [disk EXCEPT ![s] = c]
          /\ exists' = exists \cup {s[1]} /\ listing \subseteq listing'
          /\ listing' # listing =>
             loadPc \in Load!Inside /\ s[1] = dir /\ listing' = listing \cup {s[2]}
          /\ Running /\ UNCHANGED <<loadPc, roots, dir, at, entries, result, disabled>>
          /\ \A t \in Slots :
                 Load!Steady(t)' => t # s /\ Load!Steady(t) /\ disk'[t] = disk[t]
          /\ \A t \in Slots : past[t] \subseteq past'[t]
      BY <1>2, Untouched DEF LoadInv
    <2>2. s = <<s[1], s[2]>> /\ c \in Load!Content \cup {Nothing}
      BY LoadMarks
    <2>3. LoadShape'
      <3>1. disk' \in [Slots -> Load!Content \cup {Nothing}]
            /\ past' \in [Slots -> SUBSET (Load!Content \cup {Nothing})]
        BY <2>1, <2>2 DEF LoadInv, LoadShape
      <3>2. \A t \in Slots : disk'[t] \in past'[t] /\ (disk'[t] # Nothing => t[1] \in exists')
        BY <2>1, <2>2 DEF LoadInv, LoadShape
      <3>3. /\ \A f \in listing' : <<dir', f>> \in Slots
            /\ loadPc' \in {"idle", "roots", "config"} => listing' = {}
        BY <2>1, <2>2 DEF LoadInv, LoadShape, Load!Inside
      <3> QED
        BY <2>1, <3>1, <3>2, <3>3 DEF LoadInv, LoadShape
    <2>4. LoadReads'
      BY <2>1 DEF LoadInv, LoadReads
    <2>5. \A t \in Slots : Unread(t) => Unread(t)'
      BY <2>1 DEF Unread
    <2>6. \A t \in Slots : Seen(t) /\ disk'[t] = disk[t] => Seen(t)'
      BY <2>1 DEF Seen, Load!Loadable
    <2>7. loadPc = "manifest" => <<dir, at>> \in Slots
      BY DEF LoadInv, LoadShape
    <2>8. LoadSees'
      BY <2>1, <2>5, <2>6, <2>7 DEF LoadInv, LoadSees, Load!HasMain
    <2>9. LoadEnds' /\ LoadIdle'
      BY <2>1 DEF Running, Load!Inside, LoadEnds, Load!NothingIsMissed,
         Load!DisabledIsSuppressed, Load!BrokenIsReported, LoadIdle
    <2> QED
      BY <2>3, <2>4, <2>8, <2>9 DEF LoadInv
  <1> QED
    BY <1>1, <1>2

\* The invariant of the load is inductive.
LEMMA LoadGoesOn ==
  ASSUME LoadInv, [Load!Next]_loadVars
  PROVE  LoadInv'
  <1>1. CASE UNCHANGED loadVars
    <2>1. LoadShape' /\ LoadReads' /\ LoadIdle'
      BY <1>1 DEF loadVars, LoadInv, LoadShape, LoadReads, LoadIdle
    <2>2. LoadSees'
      BY <1>1 DEF loadVars, LoadInv, LoadSees, Running, Unread, Seen, Load!Steady,
         Load!Loadable, Load!HasMain
    <2>3. LoadEnds'
      BY <1>1 DEF loadVars, LoadInv, LoadEnds, Load!NothingIsMissed,
         Load!DisabledIsSuppressed, Load!BrokenIsReported, Load!Loadable, Load!Steady
    <2> QED
      BY <2>1, <2>2, <2>3 DEF LoadInv
  <1>2. CASE Load!ReadFails
    BY <1>2, LoadFails DEF Load!ReadFails, Running, Load!Inside
  <1> QED
    BY <1>1, <1>2, LoadStarts, LoadOpens, LoadVisits, LoadLooks, LoadReadsManifest, LoadCloses,
       LoadFinishes, LoadChanges DEF Load!Next

\* The user's directory is the last that is read; and what it had all the time
\* is still to be read or has the entry of its id.
UserWins ==
    Running =>
        /\ \A i, j \in roots : Load!Root(i) = Real[User] => j <= i
        /\ \/ \E j \in roots : Load!Root(j) = Real[User]
           \/ roots = {} /\ (loadPc \in Load!Inside => dir = Real[User])
        /\ \A s \in Slots :
               s[1] = Real[User] /\ Load!Steady(s) /\ Load!Loadable(disk[s]) =>
                   Unread(s) \/ entries[disk[s].id][1] = Real[User]

UserInv == UserWins /\ Load!UserOverrides

\* The user's directory is the last of the roots, and it is one.
LEMMA UserRoot ==
  ASSUME Load!UserIsLast, NEW present
  PROVE  /\ \E j \in Load!RuntimeRoots(present) : Load!Root(j) = Real[User]
         /\ \A i, j \in Load!RuntimeRoots(present) : Load!Root(i) = Real[User] => j <= i
  <1> DEFINE n == Len(Candidates) + 1
  <1>1. n \in DOMAIN Load!Paths /\ Load!Root(n) = Real[User] /\ Load!IsRoot(n, present)
    BY LoadMarks DEF Load!IsRoot
  <1>2. ASSUME NEW i \in Load!RuntimeRoots(present), NEW j \in Load!RuntimeRoots(present),
               Load!Root(i) = Real[User], i < j
        PROVE  FALSE
    <2>1. /\ i \in DOMAIN Load!Paths /\ j \in DOMAIN Load!Paths /\ Load!IsRoot(i, present)
          /\ \A k \in 1 .. j - 1 : Load!Root(k) = Load!Root(j) => ~Load!IsRoot(k, present)
      BY DEF Load!RuntimeRoots
    <2>2. Load!Root(j) = Load!Root(i)
      BY <1>2, <2>1 DEF Load!UserIsLast
    <2>3. i \in 1 .. j - 1
      BY <1>2, <2>1, LoadMarks
    <2> QED
      BY <2>1, <2>2, <2>3
  <1>3. \A i \in Load!RuntimeRoots(present) : i \in Nat
    BY LoadMarks DEF Load!RuntimeRoots
  <1> QED
    BY <1>1, <1>2, <1>3, RootsCover

\* The user's directory stays the last to be read.
LEMMA UserGoesOn ==
  ASSUME Load!UserIsLast, LoadInv, UserInv, [Load!Next]_loadVars
  PROVE  UserInv'
  <1>1. CASE UNCHANGED loadVars
    BY <1>1 DEF loadVars, UserInv, UserWins, Running, Unread, Load!UserOverrides,
       Load!Loadable, Load!Steady
  <1>2. CASE Load!Start
    <2>1. /\ loadPc = "idle" /\ loadPc' = "roots" /\ roots' = Load!RuntimeRoots(exists)
          /\ UNCHANGED disk
      BY <1>2 DEF Load!Start
    <2>2. \A s \in Slots : Load!Loadable(disk[s]) =>
              \E i \in Load!RuntimeRoots(exists) : Load!Root(i) = s[1]
      BY RootsHold DEF LoadInv, Load!Loadable
    <2>3. UserWins'
      BY <2>1, <2>2, UserRoot DEF UserWins, Unread, Load!Loadable
    <2> QED
      BY <2>1, <2>3 DEF UserInv, Load!UserOverrides
  <1>3. CASE Load!OpenRoot
    <2>1. PICK i \in roots :
            /\ \A j \in roots : i <= j
            /\ roots' = roots \ {i} /\ dir' = Load!Root(i) /\ loadPc = "roots"
            /\ IF Load!Root(i) \in exists
               THEN /\ loadPc' = "folders"
                    /\ listing' = {s[2] : s \in {t \in Slots :
                                                    t[1] = Load!Root(i) /\ disk[t] # Nothing}}
               ELSE UNCHANGED <<loadPc, listing>>
            /\ UNCHANGED <<disk, exists, disabled, past, changes, at, entries, result>>
      BY <1>3 DEF Load!OpenRoot, Load!world
    <2>2. roots \subseteq Nat
      BY LoadMarks DEF LoadInv, LoadShape
    <2>3. Running /\ loadPc' \in {"roots", "folders"}
      BY <2>1 DEF Running
    <2>4. \A j, k \in roots' : Load!Root(j) = Real[User] => k <= j
      BY <2>1, <2>3 DEF UserInv, UserWins
    <2>5. \/ \E j \in roots' : Load!Root(j) = Real[User]
          \/ roots' = {} /\ dir' = Real[User]
      <3>1. PICK j \in roots : Load!Root(j) = Real[User]
        BY <2>1, <2>3 DEF UserInv, UserWins
      <3>2. CASE j = i
        <4>1. \A k \in roots : k <= i /\ i <= k
          BY <2>1, <2>3, <3>1, <3>2 DEF UserInv, UserWins
        <4>2. roots' = {}
          BY <2>1, <2>2, <4>1
        <4> QED
          BY <2>1, <3>1, <3>2, <4>2
      <3> QED
        BY <2>1, <3>1, <3>2
    <2>6. ASSUME NEW s \in Slots, s[1] = Real[User], Load!Steady(s), Load!Loadable(disk[s])
          PROVE  (Unread(s) \/ entries[disk[s].id][1] = Real[User])'
      <3>1. s = <<s[1], s[2]>> /\ s[1] \in exists /\ disk[s] # Nothing
        BY <2>6, LoadMarks DEF LoadInv, LoadShape, Load!Loadable
      <3>2. Unread(s) \/ entries[disk[s].id][1] = Real[User]
        BY <2>3, <2>6 DEF UserInv, UserWins
      <3>3. CASE Load!Root(i) = s[1]
        BY <2>1, <3>1, <3>3 DEF Unread, Load!Inside
      <3>4. CASE Load!Root(i) # s[1]
        BY <2>1, <3>2, <3>4 DEF Unread, Load!Inside
      <3> QED
        BY <3>3, <3>4
    <2>7. UserWins'
      BY <2>1, <2>3, <2>4, <2>5, <2>6 DEF UserWins, Load!Loadable, Load!Steady
    <2> QED
      BY <2>3, <2>7 DEF UserInv, Load!UserOverrides
  <1>4. CASE Load!CloseRoot \/ Load!CloseRoots
    <2>1. /\ Running /\ loadPc' \in {"roots", "config"} /\ listing = {} /\ at = Nothing
          /\ UNCHANGED <<disk, past, roots, listing, dir, at, entries, result>>
      BY <1>4 DEF Load!CloseRoot, Load!CloseRoots, Load!world, LoadInv, LoadShape, Running,
         Load!Inside
    <2>2. \A s \in Slots : Unread(s) => Unread(s)'
      BY <2>1, LoadMarks DEF Unread
    <2>3. UserWins'
      BY <2>1, <2>2 DEF UserInv, UserWins, Load!Loadable, Load!Steady, Load!Inside
    <2> QED
      BY <2>1, <2>3 DEF UserInv, Load!UserOverrides
  <1>5. CASE Load!Finish
    <2>1. /\ loadPc = "config" /\ roots = {} /\ loadPc' = "over" /\ result' = "ok"
          /\ entries' = Load!FilterForRuntime(entries) /\ UNCHANGED <<disk, past, disabled>>
      BY <1>5 DEF Load!Finish, Load!world, LoadInv, LoadSees, Running
    <2>2. \A i \in Ids : entries'[i] \in {Nothing, entries[i]}
      BY <2>1 DEF Load!FilterForRuntime
    <2>3. ASSUME NEW s \in Slots, s[1] = Real[User], Load!Steady(s), Load!Loadable(disk[s]),
                 entries'[disk[s].id] # Nothing
          PROVE  entries'[disk[s].id][1] = Real[User]
      <3>1. disk[s].id \in Ids
        BY <2>3, LoadMarks DEF LoadInv, LoadShape, Load!Loadable
      <3>2. entries[disk[s].id][1] = Real[User]
        BY <2>1, <2>3 DEF UserInv, UserWins, Running, Unread, Load!Inside
      <3> QED
        BY <2>2, <2>3, <3>1, <3>2
    <2>4. Load!UserOverrides'
      BY <2>1, <2>3 DEF Load!UserOverrides, Load!Loadable, Load!Steady
    <2> QED
      BY <2>1, <2>4 DEF UserInv, UserWins, Running, Load!Inside
  <1>6. ASSUME NEW f \in Load!Folders, Load!Visit(f)
        PROVE  UserInv'
    <2> DEFINE c == disk[<<dir, f>>]
    <2>1. /\ loadPc = "folders" /\ f \in listing /\ listing' = listing \ {f}
          /\ IF Load!IsExtension(c) THEN loadPc' = "main" /\ at' = f
             ELSE UNCHANGED <<loadPc, at>>
          /\ UNCHANGED <<disk, exists, disabled, past, changes, roots, dir, entries, result>>
      BY <1>6 DEF Load!Visit, Load!world
    <2>2. Running /\ loadPc' \in {"folders", "main"} /\ at = Nothing
      BY <2>1 DEF Running, Load!Inside, LoadInv, LoadShape
    <2>3. ASSUME NEW s \in Slots, Unread(s), Load!Loadable(disk[s])
          PROVE  Unread(s)'
      <3>1. s = <<s[1], s[2]>> /\ s[2] # Nothing
        BY LoadMarks
      <3>2. s = <<dir, f>> => Load!IsExtension(c)
        BY <2>3 DEF Load!Loadable, Load!IsExtension
      <3> QED
        BY <2>1, <2>2, <2>3, <3>1, <3>2 DEF Unread, Load!Inside
    <2>4. UserWins'
      BY <2>1, <2>2, <2>3 DEF UserInv, UserWins, Load!Loadable, Load!Steady, Load!Inside
    <2> QED
      BY <2>2, <2>4 DEF UserInv, Load!UserOverrides
  <1>7. CASE Load!LookForMain \/ Load!ReadFails
    <2>1. CASE loadPc' = "over" /\ result' # "ok"
      BY <2>1 DEF UserInv, UserWins, Running, Load!Inside, Load!UserOverrides
    <2>2. CASE /\ loadPc = "main" /\ loadPc' = "manifest"
               /\ UNCHANGED <<disk, past, roots, listing, dir, at, entries, result>>
      <3>1. \A s \in Slots : Unread(s) => Unread(s)'
        BY <2>2 DEF Unread, Load!Inside
      <3>2. UserWins'
        BY <2>2, <3>1 DEF UserInv, UserWins, Running, Load!Loadable, Load!Steady, Load!Inside
      <3> QED
        BY <2>2, <3>2 DEF UserInv, Load!UserOverrides
    <2> QED
      BY <1>7, <2>1, <2>2 DEF Load!LookForMain, Load!ReadFails, Load!EndLoad, Load!world
  <1>8. CASE Load!ReadManifest
    <2> DEFINE c == disk[<<dir, at>>]
    <2>1. CASE ~Load!IsExtension(c) \/ ~Load!ParseAndValidate(c.manifest)
      <3>1. loadPc' = "over" /\ result' # "ok"
        BY <1>8, <2>1 DEF Load!ReadManifest, Load!EndLoad
      <3> QED
        BY <3>1 DEF UserInv, UserWins, Running, Load!Inside, Load!UserOverrides
    <2>2. CASE Load!IsExtension(c) /\ Load!ParseAndValidate(c.manifest)
      <3>1. /\ loadPc = "manifest" /\ loadPc' = "folders" /\ at' = Nothing
            /\ entries' = [entries EXCEPT ![c.id] = <<dir, c>>]
            /\ UNCHANGED <<disk, past, roots, listing, dir, result>>
        BY <1>8, <2>2 DEF Load!ReadManifest, Load!Insert, Load!world
      <3>2. /\ \A i \in Ids : i # c.id => entries'[i] = entries[i]
            /\ \A i \in Ids : i = c.id => entries'[i][1] = dir
        BY <3>1 DEF LoadInv, LoadShape
      <3>3. Running /\ loadPc \in Load!Inside /\ loadPc' \in Load!Inside
        BY <3>1 DEF Running, Load!Inside
      <3>4. ASSUME NEW s \in Slots, s[1] = Real[User], Load!Steady(s), Load!Loadable(disk[s])
            PROVE  (Unread(s) \/ entries[disk[s].id][1] = Real[User])'
        <4>1. disk[s].id \in Ids /\ s = <<s[1], s[2]>>
          BY <3>4, LoadMarks DEF LoadInv, LoadShape, Load!Loadable
        <4>2. Unread(s) \/ entries[disk[s].id][1] = Real[User]
          BY <3>3, <3>4 DEF UserInv, UserWins
        <4>3. CASE dir = Real[User]
          <5>1. CASE disk[s].id = c.id
            BY <3>1, <3>2, <4>1, <4>3, <5>1
          <5>2. CASE disk[s].id # c.id
            <6>1. s # <<dir, at>>
              BY <5>2
            <6> QED
              BY <3>1, <3>2, <3>3, <4>1, <4>2, <5>2, <6>1 DEF Unread
          <5> QED
            BY <5>1, <5>2
        <4>4. CASE dir # Real[User]
          BY <3>1, <3>3, <3>4, <4>4 DEF UserInv, UserWins, Unread
        <4> QED
          BY <4>3, <4>4
      <3>5. UserWins'
        BY <3>1, <3>3, <3>4 DEF UserInv, UserWins, Load!Loadable, Load!Steady
      <3> QED
        BY <3>1, <3>5 DEF UserInv, Load!UserOverrides
    <2> QED
      BY <2>1, <2>2
  <1>9. CASE \E ids \in SUBSET Ids : Load!SetDisabled(ids)
    BY <1>9 DEF Load!SetDisabled, Load!Busy, UserInv, UserWins, Running, Unread,
       Load!UserOverrides, Load!Loadable, Load!Steady
  <1>10. ASSUME NEW s \in Slots, NEW c \in Contents \cup {Nothing}, Load!ChangeFolder(s, c)
         PROVE  UserInv'
    <2>1. /\ Running /\ listing \subseteq listing'
          /\ UNCHANGED <<loadPc, roots, dir, at, entries, result>>
          /\ \A t \in Slots : Load!Steady(t)' => Load!Steady(t) /\ disk'[t] = disk[t]
      BY <1>10, Untouched DEF LoadInv
    <2>2. \A t \in Slots : Unread(t) => Unread(t)'
      BY <2>1 DEF Unread
    <2>3. UserWins'
      BY <2>1, <2>2 DEF UserInv, UserWins, Load!Loadable
    <2> QED
      BY <2>1, <2>3 DEF UserInv, Load!UserOverrides, Running, Load!Inside
  <1> QED
    BY <1>1, <1>2, <1>3, <1>4, <1>5, <1>6, <1>7, <1>8, <1>9, <1>10 DEF Load!Next

\* The two invariants are as strong as the type invariant and DiscoveryIsRight
\* ask for.
LEMMA LoadImplies ==
  LoadInv => /\ Load!TypeOK
             /\ Load!NothingIsMissed /\ Load!DisabledIsSuppressed /\ Load!BrokenIsReported
  BY DEF LoadInv, LoadShape, LoadReads, LoadEnds, Load!TypeOK
-----------------------------------------------------------------------------
(***************************************************************************)
(* The worker process (RuntimeWorker).                                     *)
(***************************************************************************)

WorkerShape ==
    /\ via \in {"cli", "daemon"} /\ version \in {"same", "newer"}
    /\ actions \in Manifests /\ asked \in Names \cup {NoAction} /\ input \in Names \cup {NoAction}
    /\ engine \in {"spawn", "writing", "waiting", "host", "script", "over"}
    /\ worker \in {"none", "reading", "answering", "ended"}
    /\ prepared \in [kind : Worker!Kinds, action : Names \cup {NoAction}]

\* The parts of the two messages: none is lost in a pipe, and the worker answers
\* as long as it has something to say; its input is open while the engine
\* writes, and it answers when that has ended.
WorkerParts ==
    /\ unwritten \in Nat /\ read \in Nat /\ unanswered \in Nat /\ received \in Nat
    /\ stdin \in 0 .. PipeSize /\ stdout \in 0 .. PipeSize /\ stdinOpen \in BOOLEAN
    /\ unwritten + stdin + read = RequestParts
    /\ unanswered + stdout + received = AnswerParts
    /\ worker # "ended" => unanswered > 0
    /\ engine = "spawn" => worker = "none"
    /\ engine \in {"spawn", "writing"} => stdinOpen
    /\ engine = "waiting" => ~stdinOpen
    /\ engine \in {"writing", "waiting"} => worker # "none"
    /\ worker = "answering" => ~stdinOpen

Chosen == IF asked = NoAction THEN Head(actions) ELSE asked

\* Past the preparation the outcome is the choice of select_action, and what
\* has run is no more than the host's part of it.
WorkerRan ==
    /\ engine \in {"spawn", "writing", "waiting", "host"} => ran = <<>>
    /\ engine = "script" => ran = <<>> \/ ran = <<<<"host", Chosen>>>>
    /\ engine \in {"host", "script"} =>
           prepared.action = Chosen /\ \E k \in DOMAIN actions : actions[k] = Chosen
    /\ Worker!RunsTheAskedAction /\ Worker!CallerDecides

WorkerInv == WorkerShape /\ WorkerParts /\ WorkerRan

\* What is assumed of the manifests and the sizes of RuntimeWorker.
LEMMA WorkerMarks ==
  /\ \A m \in Manifests : m \in Seq(Names)
  /\ NoAction \notin Names
  /\ RequestParts \in Nat /\ RequestParts > 0
  /\ AnswerParts \in Nat /\ AnswerParts > 0
  /\ PipeSize \in Nat /\ PipeSize > 0
  BY ExtensionsAssumption DEF Worker!RuntimeWorkerAssumption

\* select_action takes the id that was asked for, or else the first, and
\* nothing that the manifest does not have.
LEMMA SelectsChosen ==
  ASSUME actions \in Seq(Names), asked \in Names \cup {NoAction}
  PROVE  /\ Worker!SelectAction \in [kind : Worker!Kinds, action : Names \cup {NoAction}]
         /\ Worker!SelectAction.kind = "ok" =>
                /\ Worker!SelectAction.action = Chosen
                /\ \E k \in DOMAIN actions : actions[k] = Chosen
  <1>1. actions # <<>> => Head(actions) = actions[1] /\ 1 \in DOMAIN actions
    OBVIOUS
  <1>2. Worker!ToSet(actions) = {actions[k] : k \in DOMAIN actions}
    BY DEF Worker!ToSet
  <1>3. CASE asked # NoAction
    BY <1>2, <1>3 DEF Worker!SelectAction, Worker!Outcome, Worker!Kinds, Chosen
  <1>4. CASE asked = NoAction
    BY <1>1, <1>4 DEF Worker!SelectAction, Worker!Outcome, Worker!Kinds, Chosen
  <1> QED
    BY <1>3, <1>4

\* The invariant of the worker holds at first.
LEMMA WorkerBegins == Worker!Init => WorkerInv
  <1> SUFFICES ASSUME Worker!Init
               PROVE  WorkerInv
    OBVIOUS
  <1>1. WorkerShape
    BY WorkerMarks DEF Worker!Init, WorkerShape, Worker!Kinds, Worker!Outcome
  <1>2. WorkerParts
    BY WorkerMarks DEF Worker!Init, WorkerParts
  <1>3. ran = <<>> /\ engine = "spawn"
    BY DEF Worker!Init
  <1>4. WorkerRan
    BY <1>3 DEF WorkerRan, Worker!RunsTheAskedAction, Worker!CallerDecides
  <1> QED
    BY <1>1, <1>2, <1>4 DEF WorkerInv

\* What the worker does changes pipes and counts, and nothing of the outcome.
LEMMA WorkerSteps ==
  ASSUME WorkerInv, Worker!WorkerStep \/ Worker!WorkerDies
  PROVE  WorkerInv'
  <1>1. UNCHANGED <<via, actions, asked, input, version, engine, prepared, ran>>
    BY DEF Worker!WorkerStep, Worker!WorkerReads, Worker!WorkerAtEnd, Worker!WorkerWrites,
       Worker!WorkerDies, Worker!given
  <1>2. WorkerRan'
    BY <1>1 DEF WorkerInv, WorkerRan, Chosen, Worker!RunsTheAskedAction, Worker!CallerDecides
  <1>3. worker' \in {"answering", "ended", worker} /\ WorkerParts'
    <2> USE WorkerMarks, <1>1 DEF WorkerInv, WorkerParts
    <2>1. CASE Worker!WorkerReads
      BY <2>1 DEF Worker!WorkerReads
    <2>2. CASE Worker!WorkerAtEnd
      BY <2>2 DEF Worker!WorkerAtEnd
    <2>3. CASE Worker!WorkerWrites
      BY <2>3 DEF Worker!WorkerWrites
    <2>4. CASE Worker!WorkerDies
      BY <2>4 DEF Worker!WorkerDies
    <2> QED
      BY <2>1, <2>2, <2>3, <2>4 DEF Worker!WorkerStep
  <1>4. WorkerShape'
    BY <1>1, <1>3 DEF WorkerInv, WorkerShape
  <1> QED
    BY <1>2, <1>3, <1>4 DEF WorkerInv

\* The engine up to the end of the preparation.
LEMMA EnginePrepares ==
  ASSUME WorkerInv,
         Worker!Spawn \/ Worker!WriteRequest \/ Worker!BeginWait \/ Worker!ReadAnswer
             \/ Worker!EndWait
  PROVE  WorkerInv'
  <1>1. /\ UNCHANGED <<via, actions, asked, input, version, ran>>
        /\ engine \in {"spawn", "writing", "waiting"}
    BY DEF Worker!Spawn, Worker!WriteRequest, Worker!BeginWait, Worker!ReadAnswer,
       Worker!EndWait, Worker!given
  <1>2. ran = <<>>
    BY <1>1 DEF WorkerInv, WorkerRan
  <1>3. WorkerParts' /\ worker' \in {worker, "reading"}
    <2> USE WorkerMarks DEF WorkerInv, WorkerParts, Worker!Finish
    <2>1. CASE Worker!Spawn
      BY <2>1 DEF Worker!Spawn
    <2>2. CASE Worker!WriteRequest
      <3>1. CASE worker = "ended"
        BY <2>2, <3>1 DEF Worker!WriteRequest
      <3>2. CASE worker # "ended"
        BY <2>2, <3>2 DEF Worker!WriteRequest
      <3> QED
        BY <3>1, <3>2
    <2>3. CASE Worker!BeginWait
      BY <2>3 DEF Worker!BeginWait
    <2>4. CASE Worker!ReadAnswer
      BY <2>4 DEF Worker!ReadAnswer
    <2>5. CASE Worker!EndWait
      BY <2>5 DEF Worker!EndWait
    <2> QED
      BY <2>1, <2>2, <2>3, <2>4, <2>5
  <1>4. \/ /\ engine' \in {"writing", "waiting"} /\ UNCHANGED prepared
        \/ \E o \in [kind : Worker!Kinds, action : Names \cup {NoAction}] :
               /\ Worker!Finish(o)
               /\ o.kind = "ok" => o = Worker!SelectAction
    <2> USE DEF Worker!Outcome, Worker!Kinds
    <2>1. CASE Worker!Spawn
      BY <2>1 DEF Worker!Spawn
    <2>2. CASE Worker!WriteRequest
      BY <2>2 DEF Worker!WriteRequest
    <2>3. CASE Worker!BeginWait
      BY <2>3 DEF Worker!BeginWait
    <2>4. CASE Worker!ReadAnswer
      BY <2>4 DEF Worker!ReadAnswer
    <2>5. CASE Worker!EndWait
      <3>1. Worker!SelectAction \in [kind : Worker!Kinds, action : Names \cup {NoAction}]
        BY SelectsChosen, WorkerMarks DEF WorkerInv, WorkerShape
      <3> QED
        BY <2>5, <3>1 DEF Worker!EndWait, Worker!ReadOutcome, Worker!WorkerAnswer
    <2> QED
      BY <2>1, <2>2, <2>3, <2>4, <2>5
  <1>5. /\ prepared' \in [kind : Worker!Kinds, action : Names \cup {NoAction}]
        /\ engine' \in {"writing", "waiting", "host", "over"}
        /\ engine' = "host" =>
               prepared'.action = Chosen /\ \E k \in DOMAIN actions : actions[k] = Chosen
    BY <1>4, SelectsChosen, WorkerMarks DEF WorkerInv, WorkerShape, Worker!Finish
  <1>6. WorkerShape'
    BY <1>1, <1>3, <1>5 DEF WorkerInv, WorkerShape
  <1>7. WorkerRan'
    BY <1>1, <1>2, <1>5 DEF WorkerRan, Chosen, Worker!RunsTheAskedAction, Worker!CallerDecides
  <1> QED
    BY <1>3, <1>6, <1>7 DEF WorkerInv

\* The host's part: it runs the prepared action, and main.ts is next unless it
\* fails.
LEMMA HostRuns ==
  ASSUME WorkerInv, Worker!RunHost
  PROVE  WorkerInv'
  <1>1. /\ engine = "host" /\ engine' \in {"script", "over"} /\ ran = <<>>
        /\ UNCHANGED <<via, actions, asked, input, version, unwritten, stdin, stdinOpen, worker,
                      read, unanswered, stdout, received>>
        /\ prepared.action = Chosen /\ \E k \in DOMAIN actions : actions[k] = Chosen
    BY DEF Worker!RunHost, Worker!Finish, Worker!Outcome, Worker!given, WorkerInv, WorkerRan
  <1>2. /\ prepared' \in [kind : Worker!Kinds, action : Names \cup {NoAction}]
        /\ engine' = "script" => UNCHANGED prepared
    BY DEF Worker!RunHost, Worker!Finish, Worker!Outcome, Worker!Kinds, WorkerInv, WorkerShape
  <1>3. WorkerShape' /\ WorkerParts'
    BY <1>1, <1>2 DEF WorkerInv, WorkerShape, WorkerParts
  <1>4. Chosen' = Chosen
    BY <1>1 DEF Chosen
  <1>5. ran' = <<>> \/ ran' = <<<<"host", Chosen>>>>
    BY <1>1 DEF Worker!RunHost
  <1>6. Worker!RunsTheAskedAction' /\ Worker!CallerDecides'
    <2>1. CASE ran' = <<>>
      BY <2>1 DEF Worker!RunsTheAskedAction, Worker!CallerDecides
    <2>2. CASE ran' = <<<<"host", Chosen>>>>
      <3>1. /\ Len(ran') = 1 /\ ran'[1] = <<"host", Chosen>>
            /\ Chosen \in Worker!ToSet(actions)
        BY <1>1, <2>2 DEF Worker!ToSet
      <3> QED
        BY <1>1, <3>1 DEF Worker!RunsTheAskedAction, Worker!CallerDecides, Chosen
    <2> QED
      BY <1>5, <2>1, <2>2
  <1>7. WorkerRan'
    BY <1>1, <1>2, <1>4, <1>5, <1>6 DEF WorkerRan
  <1> QED
    BY <1>3, <1>7 DEF WorkerInv

\* main.ts runs: with the host's action, or the one that the caller says.
LEMMA ScriptRuns ==
  ASSUME WorkerInv, Worker!RunScript
  PROVE  WorkerInv'
  <1> DEFINE main == IF input # NoAction THEN input ELSE Chosen
  <1>1. /\ engine = "script" /\ engine' = "over"
        /\ ran = <<>> \/ ran = <<<<"host", Chosen>>>>
        /\ ran' = Append(ran, <<"main", main>>)
        /\ UNCHANGED <<via, actions, asked, input, version, unwritten, stdin, stdinOpen, worker,
                      read, unanswered, stdout, received, prepared>>
        /\ \E k \in DOMAIN actions : actions[k] = Chosen
    BY DEF Worker!RunScript, Worker!MergedAction, Worker!given, WorkerInv, WorkerRan
  <1>2. WorkerShape' /\ WorkerParts'
    BY <1>1 DEF WorkerInv, WorkerShape, WorkerParts
  <1>3. Chosen \in Worker!ToSet(actions)
    BY <1>1 DEF Worker!ToSet
  <1>4. Worker!RunsTheAskedAction' /\ Worker!CallerDecides'
    <2>1. CASE ran = <<>>
      <3>1. Len(ran') = 1 /\ ran'[1] = <<"main", main>>
        BY <1>1, <2>1
      <3> QED
        BY <1>1, <1>3, <3>1 DEF Worker!RunsTheAskedAction, Worker!CallerDecides, Chosen
    <2>2. CASE ran = <<<<"host", Chosen>>>>
      <3>1. Len(ran') = 2 /\ ran'[1] = <<"host", Chosen>> /\ ran'[2] = <<"main", main>>
        BY <1>1, <2>2
      <3> QED
        BY <1>1, <1>3, <3>1 DEF Worker!RunsTheAskedAction, Worker!CallerDecides, Chosen
    <2> QED
      BY <1>1, <2>1, <2>2
  <1>5. WorkerRan'
    BY <1>1, <1>4 DEF WorkerRan
  <1> QED
    BY <1>2, <1>5 DEF WorkerInv

\* The invariant of the worker is inductive.
LEMMA WorkerGoesOn ==
  ASSUME WorkerInv, [Worker!Next]_workerVars
  PROVE  WorkerInv'
  <1>1. CASE UNCHANGED workerVars
    BY <1>1 DEF workerVars, WorkerInv, WorkerShape, WorkerParts, WorkerRan, Chosen,
       Worker!RunsTheAskedAction, Worker!CallerDecides
  <1> QED
    BY <1>1, WorkerSteps, EnginePrepares, HostRuns, ScriptRuns
       DEF Worker!Next, Worker!EngineStep

\* It is as strong as the type invariant and RunsTheAskedAction ask for.
LEMMA WorkerImplies ==
  WorkerInv => Worker!TypeOK /\ Worker!RunsTheAskedAction /\ Worker!CallerDecides
  BY DEF WorkerInv, WorkerShape, WorkerParts, WorkerRan, Worker!TypeOK

\* What is still to do for a trigger: every part of a message is written and
\* read, and both processes go through their stages.
WorkerStages ==
    CASE worker = "none" -> 3 [] worker = "reading" -> 2 [] worker = "answering" -> 1
      [] worker = "ended" -> 0
EngineStages ==
    CASE engine = "spawn" -> 5 [] engine = "writing" -> 4 [] engine = "waiting" -> 3
      [] engine = "host" -> 2 [] engine = "script" -> 1 [] engine = "over" -> 0
WorkLeft == 2 * unwritten + stdin + 2 * unanswered + stdout + WorkerStages + EngineStages

\* One of the two processes has something to do: the guards of its steps.
WorkerCan ==
    \/ worker = "reading" /\ (stdin > 0 \/ ~stdinOpen)
    \/ worker = "answering" /\ stdout < PipeSize
EngineCan ==
    \/ engine \in {"spawn", "host", "script"}
    \/ engine = "writing" /\ (unwritten = 0 \/ worker = "ended" \/ stdin < PipeSize)
    \/ engine = "waiting" /\ (stdout > 0 \/ worker = "ended")

\* The two never wait for each other: where the engine cannot write the worker
\* can read, and where it has nothing to read the worker reads or answers.
LEMMA NeverStuck == WorkerInv => engine = "over" \/ WorkerCan \/ EngineCan
  <1> SUFFICES ASSUME WorkerInv, engine # "over"
               PROVE  WorkerCan \/ EngineCan
    OBVIOUS
  <1> USE WorkerMarks DEF WorkerInv, WorkerShape, WorkerParts, WorkerCan, EngineCan
  <1>1. CASE engine \in {"spawn", "host", "script"}
    BY <1>1
  <1>2. CASE engine = "writing"
    <2>1. worker \in {"reading", "ended"} /\ (stdin < PipeSize \/ stdin > 0)
      BY <1>2
    <2> QED
      BY <1>2, <2>1
  <1>3. CASE engine = "waiting"
    <2>1. worker \in {"reading", "answering", "ended"} /\ ~stdinOpen
          /\ (stdout > 0 \/ stdout < PipeSize)
      BY <1>3
    <2> QED
      BY <1>3, <2>1
  <1> QED
    BY <1>1, <1>2, <1>3 DEF WorkerShape

\* The work is a number.
LEMMA WorkCounts == WorkerInv => WorkLeft \in Nat
  <1> SUFFICES ASSUME WorkerInv
               PROVE  WorkLeft \in Nat
    OBVIOUS
  <1>1. unwritten \in Nat /\ unanswered \in Nat /\ stdin \in Nat /\ stdout \in Nat
    BY WorkerMarks DEF WorkerInv, WorkerParts
  <1>2. WorkerStages \in Nat /\ EngineStages \in Nat
    BY DEF WorkerInv, WorkerShape, WorkerStages, EngineStages
  <1> QED
    BY <1>1, <1>2 DEF WorkLeft

\* Whatever either of them does, and also when the worker dies, it is less.
LEMMA WorkGetsLess == WorkerInv /\ Worker!Next => WorkLeft' < WorkLeft
  <1> SUFFICES ASSUME WorkerInv, Worker!Next
               PROVE  WorkLeft' < WorkLeft
    OBVIOUS
  <1>1. /\ unwritten \in Nat /\ unanswered \in Nat /\ stdin \in Nat /\ stdout \in Nat
        /\ WorkerStages \in 0 .. 3 /\ EngineStages \in 0 .. 5
        /\ worker # "ended" => unanswered > 0
        /\ engine = "spawn" => worker = "none"
    BY WorkerMarks DEF WorkerInv, WorkerParts, WorkerShape, WorkerStages, EngineStages
  <1> DEFINE Parts == 2 * unwritten + stdin + 2 * unanswered + stdout
  <1>2. UNCHANGED worker => WorkerStages' = WorkerStages
    BY DEF WorkerStages
  <1>3. UNCHANGED engine => EngineStages' = EngineStages
    BY DEF EngineStages
  <1>4. CASE Worker!WorkerReads \/ Worker!ReadAnswer
    <2>1. Parts' = Parts - 1 /\ WorkerStages' = WorkerStages /\ EngineStages' = EngineStages
      BY <1>1, <1>2, <1>3, <1>4 DEF Worker!WorkerReads, Worker!ReadAnswer
    <2> QED
      BY <1>1, <2>1 DEF WorkLeft
  <1>5. CASE Worker!WorkerAtEnd \/ Worker!WorkerDies
    <2>1. Parts' = Parts /\ EngineStages' = EngineStages
      BY <1>3, <1>5 DEF Worker!WorkerAtEnd, Worker!WorkerDies
    <2>2. WorkerStages' \in Nat /\ WorkerStages' < WorkerStages
      BY <1>5 DEF Worker!WorkerAtEnd, Worker!WorkerDies, WorkerStages
    <2> QED
      BY <1>1, <2>1, <2>2 DEF WorkLeft
  <1>6. CASE Worker!WorkerWrites
    <2>1. Parts' = Parts - 1 /\ EngineStages' = EngineStages
      BY <1>1, <1>3, <1>6 DEF Worker!WorkerWrites
    <2>2. WorkerStages' \in Nat /\ WorkerStages' <= WorkerStages
      BY <1>6 DEF Worker!WorkerWrites, WorkerStages
    <2> QED
      BY <1>1, <2>1, <2>2 DEF WorkLeft
  <1>7. CASE Worker!Spawn
    <2>1. Parts' = Parts /\ EngineStages' \in Nat /\ EngineStages' < EngineStages
      BY <1>7 DEF Worker!Spawn, Worker!Finish, Worker!Outcome, EngineStages
    <2>2. WorkerStages' \in Nat /\ WorkerStages' <= WorkerStages
      BY <1>1, <1>7 DEF Worker!Spawn, WorkerStages
    <2> QED
      BY <1>1, <2>1, <2>2 DEF WorkLeft
  <1>8. CASE Worker!WriteRequest
    <2>1. CASE worker = "ended"
      <3>1. Parts' = Parts /\ EngineStages' \in Nat /\ EngineStages' < EngineStages
        BY <1>8, <2>1 DEF Worker!WriteRequest, Worker!Finish, Worker!Outcome, EngineStages
      <3>2. WorkerStages' = WorkerStages
        BY <1>2, <1>8 DEF Worker!WriteRequest
      <3> QED
        BY <1>1, <3>1, <3>2 DEF WorkLeft
    <2>2. CASE worker # "ended"
      <3>1. Parts' = Parts - 1 /\ WorkerStages' = WorkerStages /\ EngineStages' = EngineStages
        BY <1>1, <1>2, <1>3, <1>8, <2>2 DEF Worker!WriteRequest
      <3> QED
        BY <1>1, <3>1 DEF WorkLeft
    <2> QED
      BY <2>1, <2>2
  <1>9. CASE Worker!BeginWait \/ Worker!EndWait \/ Worker!RunHost \/ Worker!RunScript
    <2>1. Parts' = Parts /\ WorkerStages' = WorkerStages
      BY <1>2, <1>9 DEF Worker!BeginWait, Worker!EndWait, Worker!RunHost, Worker!RunScript
    <2>2. EngineStages' \in Nat /\ EngineStages' < EngineStages
      BY <1>9 DEF Worker!BeginWait, Worker!EndWait, Worker!RunHost, Worker!RunScript,
         Worker!Finish, Worker!Outcome, EngineStages
    <2> QED
      BY <1>1, <2>1, <2>2 DEF WorkLeft
  <1> QED
    BY <1>4, <1>5, <1>6, <1>7, <1>8, <1>9
       DEF Worker!Next, Worker!WorkerStep, Worker!EngineStep
-----------------------------------------------------------------------------
(***************************************************************************)
(* The organizer (TorrentOrganizer): where several runs meet (Meeting),    *)
(* and where the copies of one fail and its host may end (Failing).  What  *)
(* is true of the counts is true of both, so it is stated for a set R of   *)
(* runs and proved for the steps of Failing, which Meeting has too.        *)
(***************************************************************************)

\* What a run counts: a torrent it has found is to be tried, being moved, moved
\* or failed, and no two of them.
RunCounts(r) ==
    /\ found[r] = todo[r] \cup moved[r] \cup failed[r] \cup ({current[r]} \ {"none"})
    /\ movePc[r] \in {"copy", "remove"} <=> current[r] # "none"
    /\ movePc[r] \in {"idle", "list"} => found[r] = {}
    /\ todo[r] \cap (moved[r] \cup failed[r]) = {} /\ moved[r] \cap failed[r] = {}
    /\ current[r] \notin todo[r] \cup moved[r] \cup failed[r]
    /\ moved[r] \cap desktop = {}

MoveShape(R) ==
    /\ desktop \subseteq Files /\ torrents \in [Files -> {"absent", "partial", "whole"}]
    /\ oneVolume \in BOOLEAN /\ made \in BOOLEAN /\ alive \in BOOLEAN
    /\ movePc \in [R -> {"idle", "list", "move", "copy", "remove", "done", "failed"}]
    /\ todo \in [R -> SUBSET Files] /\ found \in [R -> SUBSET Files]
    /\ moved \in [R -> SUBSET Files] /\ failed \in [R -> SUBSET Files]
    /\ current \in [R -> Files \cup {"none"}]

MoveCounts(R) ==
    /\ MoveShape(R)
    /\ \A r \in R : RunCounts(r)
    /\ \A r \in R : \A s \in R \ {r} : moved[r] \cap moved[s] = {}

MoveStep(r) == (\E s \in Failing!Starters : Failing!Start(r, s)) \/ Failing!Step(r)

\* What is assumed of the names of torrents.
LEMMA MoveMarks == "none" \notin Files
  BY ExtensionsAssumption DEF Meeting!TorrentOrganizerAssumption, Meeting!None

\* A run of Meeting does what a run of Failing does that has no fault.
LEMMA MeetingStep == ASSUME NEW r, (\E s \in Meeting!Starters : Meeting!Start(r, s)) \/ Meeting!Step(r)
                     PROVE  MoveStep(r)
  <1> USE DEF Meeting!Goto, Failing!Goto, Meeting!folders, Failing!folders, Meeting!counts,
              Failing!counts, Meeting!CanMove, Failing!CanMove, Meeting!Fails, Failing!Fails,
              Meeting!Succeeds, Failing!Succeeds, Meeting!None, Failing!None
  <1>1. \A s \in Meeting!Starters : Meeting!Start(r, s) => s \in Failing!Starters /\ Failing!Start(r, s)
    BY DEF Meeting!Starters, Failing!Starters, Meeting!BackgroundCapabilities,
       Failing!BackgroundCapabilities, Meeting!Start, Failing!Start, Meeting!Inputs,
       Failing!Inputs, Meeting!Desktop, Failing!Desktop, Meeting!Default, Failing!Default
  <1>2. Meeting!List(r) => Failing!List(r)
    BY DEF Meeting!List, Failing!List, Meeting!Desktop, Failing!Desktop
  <1>3. Meeting!EndCopy(r) => Failing!EndCopy(r)
    BY DEF Meeting!EndCopy, Failing!EndCopy
  <1>4. Meeting!Remove(r) => Failing!Remove(r)
    BY DEF Meeting!Remove, Failing!Remove
  <1>5. Meeting!Report(r) => Failing!Report(r)
    BY DEF Meeting!Report, Failing!Report
  <1>6. \A f \in Files : Meeting!Rename(r, f) => Failing!Rename(r, f)
    BY DEF Meeting!Rename, Failing!Rename
  <1>7. \A f \in Files : Meeting!NoMove(r, f) => Failing!NoMove(r, f)
    BY DEF Meeting!NoMove, Failing!NoMove
  <1>8. \A f \in Files : Meeting!BeginCopy(r, f) => Failing!BeginCopy(r, f)
    BY DEF Meeting!BeginCopy, Failing!BeginCopy
  <1> QED
    BY <1>1, <1>2, <1>3, <1>4, <1>5, <1>6, <1>7, <1>8 DEF Meeting!Step, Failing!Step, MoveStep

\* The counts stay right whatever a run does: what is moved has left the desktop,
\* and only one run has moved it.
LEMMA MovesCount ==
  ASSUME NEW R, NEW r \in R, MoveCounts(R), MoveStep(r)
  PROVE  MoveCounts(R)'
  <1> USE MoveMarks DEF MoveCounts, MoveShape, RunCounts, Failing!Goto, Failing!folders,
          Failing!counts, Failing!Fails, Failing!Succeeds, Failing!None
  <1>1. ASSUME NEW s \in Failing!Starters, Failing!Start(r, s)
        PROVE  MoveCounts(R)'
    <2>1. /\ \/ movePc' = [movePc EXCEPT ![r] = "list"]
             \/ movePc' = [movePc EXCEPT ![r] = "failed"]
          /\ movePc[r] = "idle" /\ made' \in BOOLEAN
          /\ UNCHANGED <<oneVolume, desktop, torrents, alive, todo, current, found, moved, failed>>
      BY <1>1 DEF Failing!Start
    <2> QED
      BY <2>1
  <1>2. CASE Failing!List(r)
    BY <1>2 DEF Failing!List
  <1>3. CASE Failing!EndCopy(r)
    BY <1>3 DEF Failing!EndCopy
  <1>4. CASE Failing!Remove(r)
    BY <1>4 DEF Failing!Remove
  <1>5. CASE Failing!Report(r)
    BY <1>5 DEF Failing!Report
  <1>6. ASSUME NEW f \in Files, Failing!Rename(r, f)
        PROVE  MoveCounts(R)'
    BY <1>6 DEF Failing!Rename, Failing!CanMove
  <1>7. ASSUME NEW f \in Files, Failing!NoMove(r, f)
        PROVE  MoveCounts(R)'
    BY <1>7 DEF Failing!NoMove
  <1>8. ASSUME NEW f \in Files, Failing!BeginCopy(r, f)
        PROVE  MoveCounts(R)'
    BY <1>8 DEF Failing!BeginCopy
  <1> QED
    BY <1>1, <1>2, <1>3, <1>4, <1>5, <1>6, <1>7, <1>8 DEF MoveStep, Failing!Step

\* Where runs meet: a torrent that was found is on the desktop, whole in the
\* torrents folder, or the source of a copy that is under way; and a copy that
\* was whole when its run ended it is so still, or another run makes it anew.
MeetingKeeps ==
    /\ alive
    /\ Meeting!NoTorrentIsLost
    /\ \A r \in Runs : movePc[r] = "remove" =>
           \/ torrents[current[r]] = "whole"
           \/ \E s \in Runs : movePc[s] = "copy" /\ current[s] = current[r]

MeetingInv == MoveCounts(Runs) /\ MeetingKeeps

\* Where copies fail, and the host may end: the original of the one run is there
\* until its copy is whole.
FailingKeeps ==
    /\ movePc[Sole] = "copy" => current[Sole] \in desktop
    /\ movePc[Sole] = "remove" => current[Sole] \in desktop /\ torrents[current[Sole]] = "whole"
    /\ \A f \in found[Sole] : f \in desktop \/ torrents[f] = "whole"

FailingInv == MoveCounts({Sole}) /\ FailingKeeps

\* The invariants of the organizer hold at first.
LEMMA MovesBegin ==
  /\ Meeting!Init => MeetingInv
  /\ Failing!Init => FailingInv
  <1> USE DEF MoveCounts, MoveShape, RunCounts, MeetingInv, MeetingKeeps, FailingInv, FailingKeeps
  <1>1. Meeting!Init => MeetingInv
    BY DEF Meeting!Init, Meeting!None, Meeting!NoTorrentIsLost
  <1>2. Failing!Init => FailingInv
    BY DEF Failing!Init, Failing!None
  <1> QED
    BY <1>1, <1>2

\* They are inductive.
LEMMA MeetingGoesOn ==
  ASSUME MeetingInv, [Meeting!Next]_moveVars
  PROVE  MeetingInv'
  <1> USE MoveMarks DEF MeetingInv, MeetingKeeps, Meeting!NoTorrentIsLost
  <1>1. CASE UNCHANGED moveVars
    BY <1>1 DEF moveVars, MoveCounts, MoveShape, RunCounts
  <1>2. ASSUME NEW r \in Runs, (\E s \in Meeting!Starters : Meeting!Start(r, s)) \/ Meeting!Step(r)
        PROVE  MeetingInv'
    <2>1. MoveCounts(Runs)'
      BY <1>2, MeetingStep, MovesCount
    <2>2. MeetingKeeps'
      <3> USE DEF MoveCounts, MoveShape, RunCounts, Meeting!Goto, Meeting!folders,
              Meeting!counts, Meeting!Fails, Meeting!Succeeds, Meeting!None
      <3>1. ASSUME NEW s \in Meeting!Starters, Meeting!Start(r, s)
            PROVE  MeetingKeeps'
        <4>1. /\ \/ movePc' = [movePc EXCEPT ![r] = "list"]
                 \/ movePc' = [movePc EXCEPT ![r] = "failed"]
              /\ movePc[r] = "idle"
              /\ UNCHANGED <<desktop, torrents, alive, current, found>>
          BY <3>1 DEF Meeting!Start
        <4> QED
          BY <4>1
      <3>2. CASE Meeting!List(r)
        BY <3>2 DEF Meeting!List
      <3>3. CASE Meeting!EndCopy(r)
        BY <3>3 DEF Meeting!EndCopy
      <3>4. CASE Meeting!Remove(r)
        BY <3>4 DEF Meeting!Remove
      <3>5. CASE Meeting!Report(r)
        BY <3>5 DEF Meeting!Report
      <3>6. ASSUME NEW f \in Files, Meeting!Rename(r, f)
            PROVE  MeetingKeeps'
        BY <3>6 DEF Meeting!Rename, Meeting!CanMove
      <3>7. ASSUME NEW f \in Files, Meeting!NoMove(r, f)
            PROVE  MeetingKeeps'
        BY <3>7 DEF Meeting!NoMove
      <3>8. ASSUME NEW f \in Files, Meeting!BeginCopy(r, f)
            PROVE  MeetingKeeps'
        BY <3>8 DEF Meeting!BeginCopy, Meeting!CanMove
      <3> QED
        BY <1>2, <3>1, <3>2, <3>3, <3>4, <3>5, <3>6, <3>7, <3>8 DEF Meeting!Step
    <2> QED
      BY <2>1, <2>2
  <1> QED
    BY <1>1, <1>2 DEF Meeting!Next, Meeting!Stop

LEMMA FailingGoesOn ==
  ASSUME FailingInv, [Failing!Next]_moveVars
  PROVE  FailingInv'
  <1> USE MoveMarks DEF FailingInv, FailingKeeps
  <1>1. CASE UNCHANGED moveVars
    BY <1>1 DEF moveVars, MoveCounts, MoveShape, RunCounts
  <1>2. CASE Failing!Stop
    BY <1>2 DEF Failing!Stop, Failing!folders, Failing!counts, MoveCounts, MoveShape, RunCounts
  <1>3. CASE MoveStep(Sole)
    <2>1. MoveCounts({Sole})'
      BY <1>3, MovesCount
    <2>2. FailingKeeps'
      <3> USE DEF MoveCounts, MoveShape, RunCounts, Failing!Goto, Failing!folders,
              Failing!counts, Failing!Fails, Failing!Succeeds, Failing!None
      <3>1. ASSUME NEW s \in Failing!Starters, Failing!Start(Sole, s)
            PROVE  FailingKeeps'
        <4>1. /\ movePc'[Sole] \in {"list", "failed"}
              /\ UNCHANGED <<desktop, torrents, current, found>>
          BY <3>1 DEF Failing!Start
        <4> QED
          BY <4>1
      <3>2. CASE Failing!List(Sole)
        BY <3>2 DEF Failing!List
      <3>3. CASE Failing!EndCopy(Sole)
        BY <3>3 DEF Failing!EndCopy
      <3>4. CASE Failing!Remove(Sole)
        BY <3>4 DEF Failing!Remove
      <3>5. CASE Failing!Report(Sole)
        BY <3>5 DEF Failing!Report
      <3>6. ASSUME NEW f \in Files, Failing!Rename(Sole, f)
            PROVE  FailingKeeps'
        BY <3>6 DEF Failing!Rename, Failing!CanMove
      <3>7. ASSUME NEW f \in Files, Failing!NoMove(Sole, f)
            PROVE  FailingKeeps'
        BY <3>7 DEF Failing!NoMove
      <3>8. ASSUME NEW f \in Files, Failing!BeginCopy(Sole, f)
            PROVE  FailingKeeps'
        BY <3>8 DEF Failing!BeginCopy, Failing!CanMove
      <3> QED
        BY <1>3, <3>1, <3>2, <3>3, <3>4, <3>5, <3>6, <3>7, <3>8 DEF MoveStep, Failing!Step
    <2> QED
      BY <2>1, <2>2
  <1> QED
    BY <1>1, <1>2, <1>3 DEF Failing!Next, MoveStep

\* They are as strong as the type invariant and TorrentsAreAccounted ask for.
LEMMA MovesImply ==
  /\ MeetingInv => Meeting!TypeOK /\ Meeting!NoTorrentIsLost /\ Meeting!CountsAreTrue
  /\ FailingInv => Failing!TypeOK /\ Failing!NoTorrentIsLost /\ Failing!CountsAreTrue
  <1> USE DEF MoveCounts, MoveShape, RunCounts
  <1>1. MeetingInv => Meeting!TypeOK /\ Meeting!NoTorrentIsLost /\ Meeting!CountsAreTrue
    BY DEF MeetingInv, MeetingKeeps, Meeting!TypeOK, Meeting!None, Meeting!CountsAreTrue
  <1>2. FailingInv => Failing!TypeOK /\ Failing!NoTorrentIsLost /\ Failing!CountsAreTrue
    BY DEF FailingInv, FailingKeeps, Failing!TypeOK, Failing!None, Failing!NoTorrentIsLost,
       Failing!CountsAreTrue
  <1> QED
    BY <1>1, <1>2
-----------------------------------------------------------------------------
(***************************************************************************)
(* store.json (ExtStore): where runs cross (Crossed), and where one run    *)
(* follows the other (Serial).                                             *)
(***************************************************************************)

Objects == [Keys -> (1 .. MaxCount) \cup {Missing}]

StoreShape(R) ==
    /\ file \in Objects \cup {Absent, Bad, Empty}
    /\ file = Empty => faults > 0 \/ \E r \in R : storePc[r] = "write"
    /\ storePc \in [R -> {"idle", "counted", "open", "write"}]
    /\ key \in [R -> Keys] /\ value \in [R -> 1 .. MaxCount]
    /\ base \in [R -> Objects] /\ count \in [R -> (1 .. MaxCount) \cup {Missing}]
    /\ answer \in [R -> {"none", "ok", "error"}]
    /\ faults \in 0 .. MaxFaults /\ alone \in [R -> BOOLEAN] /\ begun \in 0 .. MaxCount

\* What a run has read, or is about to write, of the counter is no more than the
\* sets that were begun.
StoreCounts(R) ==
    /\ Crossed!NoRunIsCountedTwice
    /\ \A r \in R :
        /\ Crossed!Count(count[r]) <= begun
        /\ Crossed!Count(base[r][Counter]) <= begun
        /\ storePc[r] \in {"open", "write"} /\ key[r] = Counter => value[r] <= begun

\* A set that nobody crossed has the file it emptied; it has no answer yet.
StoreAlone(R) ==
    \A r \in R :
        /\ storePc[r] = "write" /\ alone[r] => file = Empty
        /\ storePc[r] \in {"open", "write"} => answer[r] = "none"

StoreInv(R) == StoreShape(R) /\ StoreCounts(R) /\ StoreAlone(R)

\* What is assumed of the keys, the bounds and the contents of store.json.
LEMMA StoreMarks ==
  /\ Counter \in Keys /\ MaxCount \in Nat /\ MaxFaults \in Nat
  /\ 1 \in 1 .. MaxCount /\ Missing \notin 1 .. MaxCount
  /\ Empty # Absent /\ Empty # Bad
  /\ Absent \notin Objects /\ Bad \notin Objects /\ Empty \notin Objects
  BY ExtensionsAssumption DEF Crossed!ExtStoreAssumption, Crossed!Object, Objects

\* Whatever is in the file, a reader gets an object: the one that is there, or
\* one without a key.
LEMMA StoreReads ==
  /\ \A x : Crossed!ReadObject(x) = Serial!ReadObject(x) /\ Crossed!ReadObject(x) \in Objects
  /\ \A x \in Objects : Crossed!ReadObject(x) = x
  /\ \A x : x \notin Objects => Crossed!ReadObject(x) = [k \in Keys |-> Missing]
  /\ \A x : Crossed!Count(x) = Serial!Count(x)
  /\ \A x \in (1 .. MaxCount) \cup {Missing} : Crossed!Count(x) \in 0 .. MaxCount
  /\ \A x \in 1 .. MaxCount : Crossed!Count(x) = x
  /\ Crossed!Count(Missing) = 0
  BY StoreMarks DEF Crossed!ReadObject, Serial!ReadObject, Crossed!Object, Serial!Object,
     Crossed!EmptyObject, Serial!EmptyObject, Objects, Crossed!Count, Serial!Count

\* The object with one key set, and what it counts.
LEMMA StoreDrafts ==
  ASSUME NEW o \in Objects, NEW k \in Keys, NEW v \in 1 .. MaxCount
  PROVE  /\ [o EXCEPT ![k] = v] \in Objects
         /\ [o EXCEPT ![k] = v][Counter] = IF k = Counter THEN v ELSE o[Counter]
  BY StoreMarks DEF Objects

\* The invariant of the store holds at first.
LEMMA StoreBegins ==
  /\ Crossed!Init => StoreInv(Runs)
  /\ Serial!Init => StoreInv({Sole})
  <1> USE StoreMarks, StoreReads DEF StoreInv, StoreShape, StoreCounts, StoreAlone,
          Crossed!NoRunIsCountedTwice, Objects
  <1>1. Crossed!Init => StoreInv(Runs)
    BY DEF Crossed!Init, Crossed!EmptyObject
  <1>2. Serial!Init => StoreInv({Sole})
    BY DEF Serial!Init, Serial!EmptyObject
  <1> QED
    BY <1>1, <1>2

\* A run reads the counter, or reads the file for a set.
LEMMA CrossedBegins ==
  ASSUME StoreInv(Runs), NEW r \in Runs, Crossed!Get(r) \/ Crossed!Increment(r) \/ Crossed!Note(r)
  PROVE  StoreInv(Runs)'
  <1> USE StoreMarks, StoreReads DEF StoreInv
  <1>1. CASE Crossed!Get(r)
    <2>1. /\ count' = [count EXCEPT ![r] = Crossed!ReadObject(file)[Counter]]
          /\ storePc' = [storePc EXCEPT ![r] = "counted"] /\ storePc[r] = "idle"
          /\ UNCHANGED <<file, key, value, base, answer, faults, alone, begun>>
      BY <1>1 DEF Crossed!Get, Crossed!Goto
    <2>2. Crossed!ReadObject(file)[Counter] \in (1 .. MaxCount) \cup {Missing}
      BY DEF Objects
    <2>3. StoreShape(Runs)'
      BY <2>1, <2>2 DEF StoreShape
    <2>4. StoreCounts(Runs)'
      BY <2>1, <2>2 DEF StoreShape, StoreCounts, Crossed!NoRunIsCountedTwice
    <2>5. StoreAlone(Runs)'
      BY <2>1 DEF StoreShape, StoreAlone
    <2> QED
      BY <2>3, <2>4, <2>5
  <1>2. ASSUME NEW k \in Keys, NEW v \in 1 .. MaxCount, Crossed!BeginSet(r, k, v),
               storePc[r] \in {"idle", "counted"}, begun' \in begun .. MaxCount,
               k = Counter => v <= begun'
        PROVE  StoreInv(Runs)'
    <2>1. /\ base' = [base EXCEPT ![r] = Crossed!ReadObject(file)]
          /\ key' = [key EXCEPT ![r] = k] /\ value' = [value EXCEPT ![r] = v]
          /\ \E b \in BOOLEAN : alone' = [alone EXCEPT ![r] = b]
          /\ answer' = [answer EXCEPT ![r] = "none"]
          /\ storePc' = [storePc EXCEPT ![r] = "open"]
          /\ UNCHANGED <<file, count, faults>>
      BY <1>2 DEF Crossed!BeginSet, Crossed!Goto
    <2>2. Crossed!ReadObject(file) \in Objects
      OBVIOUS
    <2>3. PICK n \in begun .. MaxCount : n = begun'
      BY <1>2
    <2>4. StoreShape(Runs)'
      BY <1>2, <2>1, <2>2, <2>3 DEF StoreShape
    <2>5. StoreCounts(Runs)'
      <3>1. Crossed!NoRunIsCountedTwice'
        BY <2>1, <2>3 DEF StoreShape, StoreCounts, Crossed!NoRunIsCountedTwice, Objects
      <3>2. ASSUME NEW q \in Runs
            PROVE  (/\ Crossed!Count(count[q]) <= begun
                    /\ Crossed!Count(base[q][Counter]) <= begun
                    /\ storePc[q] \in {"open", "write"} /\ key[q] = Counter => value[q] <= begun)'
        <4>1. count[q] \in (1 .. MaxCount) \cup {Missing} /\ base[q][Counter] \in (1 .. MaxCount) \cup {Missing}
          BY DEF StoreShape, Objects
        <4>2. Crossed!Count(count[q])' <= n
          BY <2>1, <2>3, <4>1 DEF StoreShape, StoreCounts
        <4>3. Crossed!Count(base[q][Counter])' <= n
          <5>1. Crossed!Count(Crossed!ReadObject(file)[Counter]) <= begun
            BY DEF StoreCounts, Crossed!NoRunIsCountedTwice
          <5>2. Crossed!ReadObject(file)[Counter] \in (1 .. MaxCount) \cup {Missing}
            BY DEF Objects
          <5>3. base'[q] = Crossed!ReadObject(file) \/ base'[q] = base[q]
            BY <2>1 DEF StoreShape
          <5>4. Crossed!Count(base[q][Counter]) <= begun
            BY DEF StoreCounts
          <5>5. ASSUME NEW x \in (1 .. MaxCount) \cup {Missing}, Crossed!Count(x) <= begun
                PROVE  Crossed!Count(x) <= n
            BY <2>3, <5>5 DEF StoreShape
          <5> QED
            BY <4>1, <5>1, <5>2, <5>3, <5>4, <5>5 DEF Crossed!Count
        <4>4. CASE q = r
          BY <1>2, <2>1, <2>3, <4>2, <4>3, <4>4 DEF StoreShape
        <4>5. CASE q # r
          BY <2>1, <2>3, <4>2, <4>3, <4>5 DEF StoreShape, StoreCounts
        <4> QED
          BY <4>4, <4>5
      <3> QED
        BY <3>1, <3>2 DEF StoreCounts
    <2>6. StoreAlone(Runs)'
      BY <1>2, <2>1 DEF StoreShape, StoreAlone
    <2> QED
      BY <2>4, <2>5, <2>6
  <1>3. CASE Crossed!Increment(r)
    <2>1. Crossed!Count(count[r]) \in 0 .. MaxCount /\ Crossed!Count(count[r]) <= begun
      BY DEF StoreShape, StoreCounts
    <2>2. PICK v \in 1 .. MaxCount : v = Crossed!Count(count[r]) + 1 /\ v <= begun + 1
      BY <1>3, <2>1 DEF Crossed!Increment, StoreShape
    <2>3. Crossed!BeginSet(r, Counter, v) /\ storePc[r] \in {"idle", "counted"}
      BY <1>3, <2>2 DEF Crossed!Increment
    <2>4. begun' \in begun .. MaxCount /\ v <= begun'
      BY <1>3, <2>2 DEF Crossed!Increment, StoreShape
    <2> QED
      BY <1>2, <2>3, <2>4
  <1>4. CASE Crossed!Note(r)
    <2>1. PICK k \in Keys \ {Counter} : Crossed!BeginSet(r, k, 1) /\ begun' = begun
      BY <1>4 DEF Crossed!Note
    <2>2. 1 \in 1 .. MaxCount /\ begun \in begun .. MaxCount
      BY DEF StoreShape
    <2> QED
      BY <1>2, <1>4, <2>1, <2>2 DEF Crossed!Note
  <1> QED
    BY <1>1, <1>3, <1>4

\* A run empties the file, writes its text or is ended.
LEMMA CrossedEnds ==
  ASSUME StoreInv(Runs),
         \/ \E r \in Runs : Crossed!Open(r) \/ Crossed!Write(r)
         \/ \E r \in Runs : Crossed!Kill({r})
  PROVE  StoreInv(Runs)'
  <1> USE StoreMarks, StoreReads DEF StoreInv
  <1>1. UNCHANGED <<key, value, base, count, begun>>
    BY DEF Crossed!Open, Crossed!Write, Crossed!Kill, Crossed!callVars
  <1>2. \A r \in Runs : storePc'[r] \in {"open", "write"} => storePc[r] \in {"open", "write"}
    BY DEF Crossed!Open, Crossed!Write, Crossed!Kill, Crossed!Goto, StoreShape
  <1>3. ASSUME Crossed!NoRunIsCountedTwice'
        PROVE  StoreCounts(Runs)'
    BY <1>1, <1>2, <1>3 DEF StoreCounts
  <1>4. Crossed!Fault => faults' \in 1 .. MaxFaults
    BY DEF Crossed!Fault, StoreShape
  <1>5. Crossed!Count(Crossed!ReadObject(Empty)[Counter]) = 0
        /\ Crossed!Count(Crossed!ReadObject(Bad)[Counter]) = 0 /\ 0 <= begun
    BY DEF StoreShape
  <1>6. ASSUME NEW r \in Runs, Crossed!Open(r)
        PROVE  StoreInv(Runs)'
    <2>1. storePc[r] = "open"
      BY <1>6 DEF Crossed!Open
    <2>2. CASE storePc' = [storePc EXCEPT ![r] = "write"]
      <3>1. /\ file' = Empty /\ storePc' = [storePc EXCEPT ![r] = "write"] /\ UNCHANGED <<answer, faults>>
            /\ alone' = [o \in Runs |-> o = r /\ alone[r]]
        BY <1>6, <2>2 DEF Crossed!Open, Crossed!Goto, Crossed!Disturb, StoreShape
      <3>2. StoreShape(Runs)'
        BY <1>1, <3>1 DEF StoreShape
      <3>3. StoreAlone(Runs)'
        BY <2>1, <3>1 DEF StoreShape, StoreAlone
      <3> QED
        BY <1>1, <1>3, <1>5, <3>1, <3>2, <3>3 DEF Crossed!NoRunIsCountedTwice
    <2>3. CASE storePc' # [storePc EXCEPT ![r] = "write"]
      <3>1. /\ Crossed!Fault /\ storePc' = [storePc EXCEPT ![r] = "idle"]
            /\ answer' = [answer EXCEPT ![r] = "error"] /\ UNCHANGED <<file, alone>>
        BY <1>6, <2>3 DEF Crossed!Open, Crossed!Goto
      <3>2. StoreShape(Runs)'
        BY <1>1, <1>4, <2>1, <3>1 DEF StoreShape
      <3>3. StoreAlone(Runs)'
        BY <3>1 DEF StoreShape, StoreAlone
      <3> QED
        BY <1>1, <1>3, <3>1, <3>2, <3>3 DEF StoreCounts, Crossed!NoRunIsCountedTwice
    <2> QED
      BY <2>2, <2>3
  <1>7. ASSUME NEW r \in Runs, Crossed!Write(r)
        PROVE  StoreInv(Runs)'
    <2>1. /\ storePc[r] = "write" /\ storePc' = [storePc EXCEPT ![r] = "idle"]
          /\ alone' = [o \in Runs |-> o = r /\ alone[r]]
          /\ \E a \in {"ok", "error"} : answer' = [answer EXCEPT ![r] = a]
          /\ \/ file' = Crossed!Draft(r) /\ UNCHANGED faults
             \/ file' = Bad /\ faults' \in {faults} \cup (1 .. MaxFaults)
             \/ file' = Empty /\ Crossed!Fault
      BY <1>4, <1>7 DEF Crossed!Write, Crossed!Goto, Crossed!Disturb
    <2>2. Crossed!Draft(r) \in Objects /\ Crossed!Count(Crossed!Draft(r)[Counter]) <= begun
      <3>1. /\ base[r] \in Objects /\ key[r] \in Keys /\ value[r] \in 1 .. MaxCount
            /\ Crossed!Count(base[r][Counter]) <= begun
            /\ key[r] = Counter => value[r] <= begun
        BY <2>1 DEF StoreShape, StoreCounts
      <3> QED
        BY <3>1, StoreDrafts DEF Crossed!Draft
    <2>3. StoreShape(Runs)'
      BY <1>1, <1>4, <2>1, <2>2 DEF StoreShape
    <2>4. StoreAlone(Runs)'
      BY <2>1 DEF StoreShape, StoreAlone
    <2>5. Crossed!NoRunIsCountedTwice'
      BY <1>1, <1>5, <2>1, <2>2 DEF Crossed!NoRunIsCountedTwice
    <2> QED
      BY <1>3, <2>3, <2>4, <2>5
  <1>8. ASSUME NEW r \in Runs, Crossed!Kill({r})
        PROVE  StoreInv(Runs)'
    <2>1. /\ storePc' = [q \in Runs |-> IF q \in {r} THEN "idle" ELSE storePc[q]]
          /\ answer' = [q \in Runs |-> IF q \in {r} THEN "error" ELSE answer[q]]
          /\ faults' \in 1 .. MaxFaults /\ UNCHANGED <<file, alone>>
      BY <1>4, <1>8 DEF Crossed!Kill
    <2>2. StoreShape(Runs)'
      BY <1>1, <2>1 DEF StoreShape
    <2>3. StoreAlone(Runs)'
      BY <2>1 DEF StoreShape, StoreAlone
    <2> QED
      BY <1>1, <1>3, <2>1, <2>2, <2>3 DEF StoreCounts, Crossed!NoRunIsCountedTwice
  <1> QED
    BY <1>6, <1>7, <1>8

\* The invariant of the store is inductive.
LEMMA CrossedGoesOn ==
  ASSUME StoreInv(Runs), [Crossed!Next]_storeVars
  PROVE  StoreInv(Runs)'
  <1>1. CASE UNCHANGED storeVars
    BY <1>1 DEF storeVars, StoreInv, StoreShape, StoreCounts, StoreAlone,
       Crossed!NoRunIsCountedTwice
  <1> QED
    BY <1>1, CrossedBegins, CrossedEnds DEF Crossed!Next

\* The same, where one run follows the other.
LEMMA SerialBegins ==
  ASSUME StoreInv({Sole}), NEW r \in {Sole}, Serial!Get(r) \/ Serial!Increment(r) \/ Serial!Note(r)
  PROVE  StoreInv({Sole})'
  <1> USE StoreMarks, StoreReads DEF StoreInv
  <1>1. CASE Serial!Get(r)
    <2>1. /\ count' = [count EXCEPT ![r] = Serial!ReadObject(file)[Counter]]
          /\ storePc' = [storePc EXCEPT ![r] = "counted"] /\ storePc[r] = "idle"
          /\ UNCHANGED <<file, key, value, base, answer, faults, alone, begun>>
      BY <1>1 DEF Serial!Get, Serial!Goto
    <2>2. Serial!ReadObject(file)[Counter] \in (1 .. MaxCount) \cup {Missing}
      BY DEF Objects
    <2>3. StoreShape({Sole})'
      BY <2>1, <2>2 DEF StoreShape
    <2>4. StoreCounts({Sole})'
      BY <2>1, <2>2 DEF StoreShape, StoreCounts, Crossed!NoRunIsCountedTwice
    <2>5. StoreAlone({Sole})'
      BY <2>1 DEF StoreShape, StoreAlone
    <2> QED
      BY <2>3, <2>4, <2>5
  <1>2. ASSUME NEW k \in Keys, NEW v \in 1 .. MaxCount, Serial!BeginSet(r, k, v),
               storePc[r] \in {"idle", "counted"}, begun' \in begun .. MaxCount,
               k = Counter => v <= begun'
        PROVE  StoreInv({Sole})'
    <2>1. /\ base' = [base EXCEPT ![r] = Serial!ReadObject(file)]
          /\ key' = [key EXCEPT ![r] = k] /\ value' = [value EXCEPT ![r] = v]
          /\ \E b \in BOOLEAN : alone' = [alone EXCEPT ![r] = b]
          /\ answer' = [answer EXCEPT ![r] = "none"]
          /\ storePc' = [storePc EXCEPT ![r] = "open"]
          /\ UNCHANGED <<file, count, faults>>
      BY <1>2 DEF Serial!BeginSet, Serial!Goto
    <2>2. Serial!ReadObject(file) \in Objects
      OBVIOUS
    <2>3. PICK n \in begun .. MaxCount : n = begun'
      BY <1>2
    <2>4. StoreShape({Sole})'
      BY <1>2, <2>1, <2>2, <2>3 DEF StoreShape
    <2>5. StoreCounts({Sole})'
      <3>1. Crossed!NoRunIsCountedTwice'
        BY <2>1, <2>3 DEF StoreShape, StoreCounts, Crossed!NoRunIsCountedTwice, Objects
      <3>2. ASSUME NEW q \in {Sole}
            PROVE  (/\ Crossed!Count(count[q]) <= begun
                    /\ Crossed!Count(base[q][Counter]) <= begun
                    /\ storePc[q] \in {"open", "write"} /\ key[q] = Counter => value[q] <= begun)'
        <4>1. count[q] \in (1 .. MaxCount) \cup {Missing} /\ base[q][Counter] \in (1 .. MaxCount) \cup {Missing}
          BY DEF StoreShape, Objects
        <4>2. Crossed!Count(count[q])' <= n
          BY <2>1, <2>3, <4>1 DEF StoreShape, StoreCounts
        <4>3. Crossed!Count(base[q][Counter])' <= n
          <5>1. Crossed!Count(Serial!ReadObject(file)[Counter]) <= begun
            BY DEF StoreCounts, Crossed!NoRunIsCountedTwice
          <5>2. Serial!ReadObject(file)[Counter] \in (1 .. MaxCount) \cup {Missing}
            BY DEF Objects
          <5>3. base'[q] = Serial!ReadObject(file) \/ base'[q] = base[q]
            BY <2>1 DEF StoreShape
          <5>4. Crossed!Count(base[q][Counter]) <= begun
            BY DEF StoreCounts
          <5>5. ASSUME NEW x \in (1 .. MaxCount) \cup {Missing}, Crossed!Count(x) <= begun
                PROVE  Crossed!Count(x) <= n
            BY <2>3, <5>5 DEF StoreShape
          <5> QED
            BY <4>1, <5>1, <5>2, <5>3, <5>4, <5>5 DEF Crossed!Count
        <4>4. CASE q = r
          BY <1>2, <2>1, <2>3, <4>2, <4>3, <4>4 DEF StoreShape
        <4>5. CASE q # r
          BY <2>1, <2>3, <4>2, <4>3, <4>5 DEF StoreShape, StoreCounts
        <4> QED
          BY <4>4, <4>5
      <3> QED
        BY <3>1, <3>2 DEF StoreCounts
    <2>6. StoreAlone({Sole})'
      BY <1>2, <2>1 DEF StoreShape, StoreAlone
    <2> QED
      BY <2>4, <2>5, <2>6
  <1>3. CASE Serial!Increment(r)
    <2>1. Crossed!Count(count[r]) \in 0 .. MaxCount /\ Crossed!Count(count[r]) <= begun
      BY DEF StoreShape, StoreCounts
    <2>2. PICK v \in 1 .. MaxCount : v = Crossed!Count(count[r]) + 1 /\ v <= begun + 1
      BY <1>3, <2>1 DEF Serial!Increment, StoreShape
    <2>3. Serial!BeginSet(r, Counter, v) /\ storePc[r] \in {"idle", "counted"}
      BY <1>3, <2>2 DEF Serial!Increment
    <2>4. begun' \in begun .. MaxCount /\ v <= begun'
      BY <1>3, <2>2 DEF Serial!Increment, StoreShape
    <2> QED
      BY <1>2, <2>3, <2>4
  <1>4. CASE Serial!Note(r)
    <2>1. PICK k \in Keys \ {Counter} : Serial!BeginSet(r, k, 1) /\ begun' = begun
      BY <1>4 DEF Serial!Note
    <2>2. 1 \in 1 .. MaxCount /\ begun \in begun .. MaxCount
      BY DEF StoreShape
    <2> QED
      BY <1>2, <1>4, <2>1, <2>2 DEF Serial!Note
  <1> QED
    BY <1>1, <1>3, <1>4

\* A run empties the file, writes its text or is ended.
LEMMA SerialEnds ==
  ASSUME StoreInv({Sole}),
         \/ \E r \in {Sole} : Serial!Open(r) \/ Serial!Write(r)
         \/ \E r \in {Sole} : Serial!Kill({r})
  PROVE  StoreInv({Sole})'
  <1> USE StoreMarks, StoreReads DEF StoreInv
  <1>1. UNCHANGED <<key, value, base, count, begun>>
    BY DEF Serial!Open, Serial!Write, Serial!Kill, Serial!callVars
  <1>2. \A r \in {Sole} : storePc'[r] \in {"open", "write"} => storePc[r] \in {"open", "write"}
    BY DEF Serial!Open, Serial!Write, Serial!Kill, Serial!Goto, StoreShape
  <1>3. ASSUME Crossed!NoRunIsCountedTwice'
        PROVE  StoreCounts({Sole})'
    BY <1>1, <1>2, <1>3 DEF StoreCounts
  <1>4. Serial!Fault => faults' \in 1 .. MaxFaults
    BY DEF Serial!Fault, StoreShape
  <1>5. Crossed!Count(Crossed!ReadObject(Empty)[Counter]) = 0
        /\ Crossed!Count(Crossed!ReadObject(Bad)[Counter]) = 0 /\ 0 <= begun
    BY DEF StoreShape
  <1>6. ASSUME NEW r \in {Sole}, Serial!Open(r)
        PROVE  StoreInv({Sole})'
    <2>1. storePc[r] = "open"
      BY <1>6 DEF Serial!Open
    <2>2. CASE storePc' = [storePc EXCEPT ![r] = "write"]
      <3>1. /\ file' = Empty /\ storePc' = [storePc EXCEPT ![r] = "write"] /\ UNCHANGED <<answer, faults>>
            /\ alone' = [o \in {Sole} |-> o = r /\ alone[r]]
        BY <1>6, <2>2 DEF Serial!Open, Serial!Goto, Serial!Disturb, StoreShape
      <3>2. StoreShape({Sole})'
        BY <1>1, <3>1 DEF StoreShape
      <3>3. StoreAlone({Sole})'
        BY <2>1, <3>1 DEF StoreShape, StoreAlone
      <3> QED
        BY <1>1, <1>3, <1>5, <3>1, <3>2, <3>3 DEF Crossed!NoRunIsCountedTwice
    <2>3. CASE storePc' # [storePc EXCEPT ![r] = "write"]
      <3>1. /\ Serial!Fault /\ storePc' = [storePc EXCEPT ![r] = "idle"]
            /\ answer' = [answer EXCEPT ![r] = "error"] /\ UNCHANGED <<file, alone>>
        BY <1>6, <2>3 DEF Serial!Open, Serial!Goto
      <3>2. StoreShape({Sole})'
        BY <1>1, <1>4, <2>1, <3>1 DEF StoreShape
      <3>3. StoreAlone({Sole})'
        BY <3>1 DEF StoreShape, StoreAlone
      <3> QED
        BY <1>1, <1>3, <3>1, <3>2, <3>3 DEF StoreCounts, Crossed!NoRunIsCountedTwice
    <2> QED
      BY <2>2, <2>3
  <1>7. ASSUME NEW r \in {Sole}, Serial!Write(r)
        PROVE  StoreInv({Sole})'
    <2>1. /\ storePc[r] = "write" /\ storePc' = [storePc EXCEPT ![r] = "idle"]
          /\ alone' = [o \in {Sole} |-> o = r /\ alone[r]]
          /\ \E a \in {"ok", "error"} : answer' = [answer EXCEPT ![r] = a]
          /\ \/ file' = Serial!Draft(r) /\ UNCHANGED faults
             \/ file' = Bad /\ faults' \in {faults} \cup (1 .. MaxFaults)
             \/ file' = Empty /\ Serial!Fault
      BY <1>4, <1>7 DEF Serial!Write, Serial!Goto, Serial!Disturb
    <2>2. Serial!Draft(r) \in Objects /\ Crossed!Count(Serial!Draft(r)[Counter]) <= begun
      <3>1. /\ base[r] \in Objects /\ key[r] \in Keys /\ value[r] \in 1 .. MaxCount
            /\ Crossed!Count(base[r][Counter]) <= begun
            /\ key[r] = Counter => value[r] <= begun
        BY <2>1 DEF StoreShape, StoreCounts
      <3> QED
        BY <3>1, StoreDrafts DEF Serial!Draft
    <2>3. StoreShape({Sole})'
      BY <1>1, <1>4, <2>1, <2>2 DEF StoreShape
    <2>4. StoreAlone({Sole})'
      BY <2>1 DEF StoreShape, StoreAlone
    <2>5. Crossed!NoRunIsCountedTwice'
      BY <1>1, <1>5, <2>1, <2>2 DEF Crossed!NoRunIsCountedTwice
    <2> QED
      BY <1>3, <2>3, <2>4, <2>5
  <1>8. ASSUME NEW r \in {Sole}, Serial!Kill({r})
        PROVE  StoreInv({Sole})'
    <2>1. /\ storePc' = [q \in {Sole} |-> IF q \in {r} THEN "idle" ELSE storePc[q]]
          /\ answer' = [q \in {Sole} |-> IF q \in {r} THEN "error" ELSE answer[q]]
          /\ faults' \in 1 .. MaxFaults /\ UNCHANGED <<file, alone>>
      BY <1>4, <1>8 DEF Serial!Kill
    <2>2. StoreShape({Sole})'
      BY <1>1, <2>1 DEF StoreShape
    <2>3. StoreAlone({Sole})'
      BY <2>1 DEF StoreShape, StoreAlone
    <2> QED
      BY <1>1, <1>3, <2>1, <2>2, <2>3 DEF StoreCounts, Crossed!NoRunIsCountedTwice
  <1> QED
    BY <1>6, <1>7, <1>8

\* The invariant of the store is inductive.
LEMMA SerialGoesOn ==
  ASSUME StoreInv({Sole}), [Serial!Next]_storeVars
  PROVE  StoreInv({Sole})'
  <1>1. CASE UNCHANGED storeVars
    BY <1>1 DEF storeVars, StoreInv, StoreShape, StoreCounts, StoreAlone,
       Crossed!NoRunIsCountedTwice
  <1> QED
    BY <1>1, SerialBegins, SerialEnds DEF Serial!Next

\* A set that returns and that nobody crossed writes what it had read, with its
\* key changed: a step of another run gives it no answer.
LEMMA StoreKeepsOthers ==
  /\ StoreInv(Runs) /\ [Crossed!Next]_storeVars => Crossed!KeepsOthers
  /\ StoreInv({Sole}) /\ [Serial!Next]_storeVars => Serial!KeepsOthers
  <1>1. ASSUME StoreInv(Runs), [Crossed!Next]_storeVars, NEW r \in Runs,
               storePc[r] = "write", answer'[r] = "ok", alone[r]
        PROVE  file' = [base[r] EXCEPT ![key[r]] = value[r]]
    <2>1. file = Empty /\ answer[r] = "none" /\ answer \in [Runs -> {"none", "ok", "error"}]
      BY <1>1 DEF StoreInv, StoreShape, StoreAlone
    <2>2. ~ UNCHANGED storeVars
      BY <1>1, <2>1 DEF storeVars
    <2>3. Crossed!Next
      BY <1>1, <2>2
    <2>4. PICK q \in Runs : Crossed!Get(q) \/ Crossed!Increment(q) \/ Crossed!Note(q)
                            \/ Crossed!Open(q) \/ Crossed!Write(q) \/ Crossed!Kill({q})
      BY <2>3 DEF Crossed!Next
    <2>5. Crossed!Write(r)
      BY <1>1, <2>1, <2>4 DEF Crossed!Get, Crossed!Increment, Crossed!Note, Crossed!BeginSet,
         Crossed!Open, Crossed!Write, Crossed!Kill, Crossed!Goto
    <2> QED
      BY <1>1, <2>1, <2>5 DEF Crossed!Write, Crossed!Draft
  <1>2. ASSUME StoreInv({Sole}), [Serial!Next]_storeVars,
               storePc[Sole] = "write", answer'[Sole] = "ok", alone[Sole]
        PROVE  file' = [base[Sole] EXCEPT ![key[Sole]] = value[Sole]]
    <2>1. file = Empty /\ answer[Sole] = "none" /\ answer \in [{Sole} -> {"none", "ok", "error"}]
      BY <1>2 DEF StoreInv, StoreShape, StoreAlone
    <2>2. ~ UNCHANGED storeVars
      BY <1>2, <2>1 DEF storeVars
    <2>3. Serial!Next
      BY <1>2, <2>2
    <2>4. Serial!Write(Sole)
      BY <1>2, <2>1, <2>3 DEF Serial!Next, Serial!Get, Serial!Increment, Serial!Note,
         Serial!BeginSet, Serial!Open, Serial!Kill, Serial!Goto
    <2> QED
      BY <1>2, <2>1, <2>4 DEF Serial!Write, Serial!Draft
  <1> QED
    BY <1>1, <1>2 DEF Crossed!KeepsOthers, Serial!KeepsOthers

\* Where one run follows the other, it writes the file it has emptied, and sets
\* a key of the object that is in the file.
SerialReads ==
    /\ storePc[Sole] = "write" => file = Empty
    /\ storePc[Sole] = "open" => base[Sole] = Serial!ReadObject(file)

\* The object behind the store, and an object that is none.
LEMMA SerialStored ==
  /\ SerialReads =>
        Serial!Stored = IF storePc[Sole] = "write" THEN base[Sole] ELSE Serial!ReadObject(file)
  /\ Serial!EmptyObject = Map!EmptyMap
  BY DEF SerialReads, Serial!Stored, Serial!EmptyObject, Map!EmptyMap

\* A step of the one run sets one key of the object, empties it, or leaves it.
LEMMA SerialSets ==
  ASSUME StoreInv({Sole}), SerialReads, [Serial!Next]_storeVars
  PROVE  /\ SerialReads'
         /\ \/ Serial!Stored' = Serial!Stored
            \/ Serial!Stored' = Serial!EmptyObject
            \/ \E k \in Keys, v \in 1 .. MaxCount : Serial!Stored' = [Serial!Stored EXCEPT ![k] = v]
  <1>1. SerialReads' =>
          Serial!Stored' = IF storePc'[Sole] = "write" THEN base'[Sole]
                           ELSE Serial!ReadObject(file')
    BY DEF SerialReads, Serial!Stored, Serial!ReadObject
  <1>2. Serial!Stored = IF storePc[Sole] = "write" THEN base[Sole] ELSE Serial!ReadObject(file)
    BY SerialStored
  <1>3. CASE UNCHANGED storeVars
    BY <1>1, <1>2, <1>3 DEF storeVars, SerialReads
  <1>4. CASE Serial!Get(Sole)
    BY <1>1, <1>2, <1>4 DEF Serial!Get, Serial!Goto, SerialReads, StoreInv, StoreShape
  <1>5. CASE Serial!Increment(Sole) \/ Serial!Note(Sole)
    <2>1. /\ base' = [base EXCEPT ![Sole] = Serial!ReadObject(file)]
          /\ storePc' = [storePc EXCEPT ![Sole] = "open"] /\ UNCHANGED file
          /\ storePc[Sole] # "write"
      BY <1>5 DEF Serial!Increment, Serial!Note, Serial!BeginSet, Serial!Goto
    <2> QED
      BY <1>1, <1>2, <2>1 DEF SerialReads, StoreInv, StoreShape
  <1>6. CASE Serial!Open(Sole)
    BY <1>1, <1>2, <1>6 DEF Serial!Open, Serial!Goto, Serial!callVars, SerialReads, StoreInv,
       StoreShape
  <1>7. CASE Serial!Write(Sole)
    <2>1. /\ storePc[Sole] = "write" /\ storePc' = [storePc EXCEPT ![Sole] = "idle"]
          /\ file' \in {Serial!Draft(Sole), Empty, Bad} /\ UNCHANGED base
      BY <1>7 DEF Serial!Write, Serial!Goto, Serial!callVars
    <2>2. SerialReads'
      BY <2>1 DEF SerialReads, StoreInv, StoreShape
    <2>3. base[Sole] \in Objects /\ key[Sole] \in Keys /\ value[Sole] \in 1 .. MaxCount
      BY DEF StoreInv, StoreShape
    <2>4. Serial!Stored' = Serial!ReadObject(file') /\ Serial!Stored = base[Sole]
      BY <1>1, <1>2, <2>1, <2>2 DEF StoreInv, StoreShape
    <2>5. CASE file' = Serial!Draft(Sole)
      <3>1. Serial!Stored' = [base[Sole] EXCEPT ![key[Sole]] = value[Sole]]
        BY <2>3, <2>4, <2>5, StoreDrafts, StoreReads DEF Serial!Draft
      <3> QED
        BY <2>2, <2>3, <2>4, <3>1
    <2>6. CASE file' \in {Empty, Bad}
      BY <2>2, <2>4, <2>6, StoreReads, StoreMarks DEF Serial!EmptyObject
    <2> QED
      BY <2>1, <2>5, <2>6
  <1>8. CASE Serial!Kill({Sole})
    <2>1. storePc'[Sole] = "idle" /\ UNCHANGED <<file, base>>
      BY <1>8 DEF Serial!Kill, Serial!callVars
    <2>2. SerialReads' /\ Serial!Stored' = Serial!ReadObject(file)
      BY <1>1, <2>1 DEF SerialReads
    <2>3. CASE storePc[Sole] = "write"
      BY <2>2, <2>3, StoreReads, StoreMarks DEF SerialReads, Serial!EmptyObject
    <2>4. CASE storePc[Sole] # "write"
      BY <1>2, <2>2, <2>4
    <2> QED
      BY <2>3, <2>4
  <1> QED
    BY <1>3, <1>4, <1>5, <1>6, <1>7, <1>8 DEF Serial!Next

\* The invariant of the store is as strong as its type invariant asks for.
LEMMA StoreImplies ==
  /\ StoreInv(Runs) => Crossed!TypeOK
  /\ StoreInv({Sole}) => Serial!TypeOK
  BY DEF StoreInv, StoreShape, Objects, Crossed!TypeOK, Serial!TypeOK, Crossed!Content,
     Serial!Content, Crossed!Object, Serial!Object
-----------------------------------------------------------------------------
(***************************************************************************)
(* The text in the keychain (SafeInput).                                   *)
(***************************************************************************)

TextOrNone == Texts \cup {"none"}

TypingShape ==
    /\ setting \in TextOrNone /\ keychain \in TextOrNone /\ available \in BOOLEAN
    /\ typePc \in [Runs -> {"idle", "get", "type", "set", "delete", "done"}]
    /\ typeVia \in [Runs -> Surfaces \cup {"nobody"}]
    /\ text \in [Runs -> TextOrNone]
    /\ told \in [Runs -> {"nothing", "provide a text", "no text saved", "saved", "cleared"}]
    /\ held \in [Runs -> SUBSET TextOrNone]
    /\ typed \in Seq([by : Runs, char : TextOrNone \X Nat])
    /\ \A r \in Runs : typePc[r] \in {"type", "set"} => text[r] # "none"

\* A run types its text once.
TypingLength ==
    \A r \in Runs :
        /\ Typing!TypedBy(r) \in 0 .. Length
        /\ typePc[r] = "type" => Typing!TypedBy(r) < Length
        /\ typePc[r] \notin {"type", "done"} => Typing!TypedBy(r) = 0

\* What the keychain holds, a run under way has seen; it types what it has read
\* there; and what it typed it goes on to have seen.
TypingSeen ==
    /\ \A r \in Runs :
        /\ Typing!Active(r) => keychain \in held[r]
        /\ typePc[r] = "type" => text[r] \in held[r]
    /\ \A i \in DOMAIN typed : typePc[typed[i].by] \in {"type", "done"}
    /\ Typing!OnlyStoredIsTyped

\* The daemon has one run under way: when the characters of another come, a run
\* that typed before is over.
TypingTurns ==
    /\ \A r \in Runs : \A s \in Runs \ {r} :
           ~ (typeVia[r] = "daemon" /\ typeVia[s] = "daemon" /\ Typing!Active(r) /\ Typing!Active(s))
    /\ \A i, j \in DOMAIN typed :
           i < j /\ typed[i].by # typed[j].by
               /\ typeVia[typed[i].by] = "daemon" /\ typeVia[typed[j].by] = "daemon"
           => ~ Typing!Active(typed[i].by)
    /\ Typing!DaemonRunsDoNotMix

TypingInv == TypingShape /\ TypingLength /\ TypingSeen /\ TypingTurns

\* What is assumed of the texts and of their length.
LEMMA TypingMarks ==
  "none" \notin Texts /\ Length \in Nat /\ Length > 0 /\ Typing!NoText = "none"
  /\ Typing!TextOrNone = TextOrNone
  BY ExtensionsAssumption DEF Typing!SafeInputAssumption, Typing!NoText, Typing!TextOrNone,
     TextOrNone

\* SafeInput counts with the same operator as the theorems on finite sets.
LEMMA SameCardinality == \A S : Typing!Cardinality(S) = Cardinality(S)
  BY DEF Typing!Cardinality, Cardinality

\* A character more is one more of its run, and of no other.
LEMMA TypedByGrows ==
  ASSUME typed \in Seq([by : Runs, char : TextOrNone \X Nat]),
         NEW r \in Runs, NEW c \in [by : Runs, char : TextOrNone \X Nat], c.by = r,
         typed' = Append(typed, c)
  PROVE  /\ Typing!TypedBy(r)' = Typing!TypedBy(r) + 1 /\ Typing!TypedBy(r) \in Nat
         /\ \A q \in Runs \ {r} : Typing!TypedBy(q)' = Typing!TypedBy(q)
  <1> DEFINE P(q) == {i \in DOMAIN typed : typed[i].by = q}
             Q(q) == {i \in DOMAIN typed' : typed'[i].by = q}
  <1>1. /\ DOMAIN typed = 1 .. Len(typed) /\ DOMAIN typed' = 1 .. Len(typed) + 1
        /\ Len(typed) \in Nat /\ typed'[Len(typed) + 1] = c
        /\ \A i \in 1 .. Len(typed) : typed'[i] = typed[i]
    OBVIOUS
  <1>2. Q(r) = P(r) \cup {Len(typed) + 1} /\ Len(typed) + 1 \notin P(r)
    BY <1>1
  <1>3. \A q \in Runs \ {r} : Q(q) = P(q)
    BY <1>1
  <1>4. IsFiniteSet(P(r))
    <2>1. IsFiniteSet(1 .. Len(typed))
      BY <1>1, FS_Interval
    <2> QED
      BY <1>1, <2>1, FS_Subset
  <1>5. Cardinality(Q(r)) = Cardinality(P(r)) + 1 /\ Cardinality(P(r)) \in Nat
    <2> HIDE DEF P, Q
    <2>1. Cardinality(P(r) \cup {Len(typed) + 1}) = Cardinality(P(r)) + 1
      BY <1>2, <1>4, FS_AddElement
    <2> QED
      BY <1>2, <1>4, <2>1, FS_CardinalityType
  <1>6. \A q : Typing!TypedBy(q) = Cardinality(P(q)) /\ Typing!TypedBy(q)' = Cardinality(Q(q))
    BY SameCardinality DEF Typing!TypedBy
  <1> QED
    BY <1>3, <1>5, <1>6

\* The invariant of the keychain's text holds at first.
LEMMA TypingBegins == Typing!Init => TypingInv
  <1> SUFFICES ASSUME Typing!Init
               PROVE  TypingInv
    OBVIOUS
  <1>1. typed = <<>> /\ \A r \in Runs : typePc[r] = "idle" /\ typeVia[r] = "nobody"
    BY DEF Typing!Init
  <1>2. TypingShape
    <2>1. <<>> \in Seq([by : Runs, char : TextOrNone \X Nat])
      OBVIOUS
    <2>2. setting \in TextOrNone /\ keychain \in TextOrNone /\ available \in BOOLEAN
      BY TypingMarks DEF Typing!Init
    <2>3. text = [r \in Runs |-> "none"] /\ "none" \in TextOrNone
      BY TypingMarks DEF Typing!Init, TextOrNone
    <2>4. /\ typePc \in [Runs -> {"idle", "get", "type", "set", "delete", "done"}]
          /\ typeVia \in [Runs -> Surfaces \cup {"nobody"}]
          /\ told \in [Runs -> {"nothing", "provide a text", "no text saved", "saved", "cleared"}]
          /\ held \in [Runs -> SUBSET TextOrNone]
      BY DEF Typing!Init
    <2> QED
      BY <1>1, <2>1, <2>2, <2>3, <2>4 DEF TypingShape
  <1>3. \A r \in Runs : Typing!TypedBy(r) = 0
    <2>1. \A r \in Runs : {i \in DOMAIN typed : typed[i].by = r} = {}
      BY <1>1
    <2> QED
      BY <2>1, FS_EmptySet, SameCardinality DEF Typing!TypedBy
  <1>4. TypingLength
    BY <1>1, <1>3, TypingMarks DEF TypingLength
  <1>5. TypingSeen /\ TypingTurns
    BY <1>1 DEF TypingSeen, TypingTurns, Typing!Active, Typing!OnlyStoredIsTyped,
       Typing!DaemonRunsDoNotMix
  <1> QED
    BY <1>2, <1>4, <1>5 DEF TypingInv

\* An element of a sequence is of its set.
LEMMA SeqElement == ASSUME NEW S, NEW s \in Seq(S), NEW i \in DOMAIN s
                    PROVE  s[i] \in S
  OBVIOUS

\* What is typed is a character of a run.
LEMMA TypedRecords ==
  ASSUME NEW s \in Seq([by : Runs, char : TextOrNone \X Nat]), NEW i \in DOMAIN s
  PROVE  s[i].by \in Runs /\ s[i].char[1] \in TextOrNone
  <1>1. s[i] \in [by : Runs, char : TextOrNone \X Nat]
    BY SeqElement
  <1> QED
    BY <1>1

\* Steps that type nothing and tell the runs under way what the keychain holds
\* keep what is said of the characters.
LEMMA TypingRests ==
  ASSUME TypingInv, UNCHANGED <<typed, typeVia>>,
         \A r \in Runs : Typing!Active(r)' => Typing!Active(r),
         \A r \in Runs : held[r] \subseteq held'[r],
         \A r \in Runs : typePc[r] \in {"type", "done"} => typePc'[r] = typePc[r],
         \A r \in Runs : typePc'[r] \notin {"type", "done"} => typePc[r] \notin {"type", "done"}
  PROVE  /\ TypingLength'
         /\ \A i \in DOMAIN typed' : typePc'[typed'[i].by] \in {"type", "done"}
         /\ Typing!OnlyStoredIsTyped'
         /\ TypingTurns'
  <1>1. \A r \in Runs : Typing!TypedBy(r)' = Typing!TypedBy(r)
    BY DEF Typing!TypedBy
  <1>2. \A i \in DOMAIN typed : typed[i].by \in Runs
    BY TypedRecords DEF TypingInv, TypingShape
  <1>3. TypingLength'
    <2> SUFFICES ASSUME NEW r \in Runs
                 PROVE  /\ Typing!TypedBy(r)' \in 0 .. Length
                        /\ typePc'[r] = "type" => Typing!TypedBy(r)' < Length
                        /\ typePc'[r] \notin {"type", "done"} => Typing!TypedBy(r)' = 0
      BY DEF TypingLength
    <2>1. PICK n \in 0 .. Length : n = Typing!TypedBy(r)
      BY DEF TypingInv, TypingLength
    <2> QED
      BY <1>1, <2>1, TypingMarks DEF TypingInv, TypingLength
  <1>4. \A i \in DOMAIN typed' : typePc'[typed'[i].by] \in {"type", "done"}
    BY <1>2 DEF TypingInv, TypingSeen
  <1>5. Typing!OnlyStoredIsTyped'
    BY <1>2 DEF TypingInv, TypingSeen, Typing!OnlyStoredIsTyped
  <1>6. TypingTurns'
    BY <1>2 DEF TypingInv, TypingTurns, Typing!DaemonRunsDoNotMix
  <1> QED
    BY <1>3, <1>4, <1>5, <1>6

\* A saving or a clearing: the keychain changes for all runs under way.
LEMMA TypingKeeps ==
  ASSUME TypingInv, NEW r \in Runs, Typing!Set(r) \/ Typing!Delete(r)
  PROVE  TypingInv'
  <1>1. /\ keychain' \in TextOrNone /\ typePc[r] \in {"set", "delete"}
        /\ typePc' = [typePc EXCEPT ![r] = "done"]
        /\ held' = [q \in Runs |-> IF Typing!Active(q) THEN held[q] \cup {keychain'} ELSE held[q]]
        /\ UNCHANGED <<setting, available, typeVia, text, typed>>
        /\ told' \in [Runs -> {"nothing", "provide a text", "no text saved", "saved", "cleared"}]
    BY TypingMarks DEF Typing!Set, Typing!Delete, Typing!Keep, Typing!Tell, Typing!Goto,
       TypingInv, TypingShape, TextOrNone
  <1>2. TypingShape'
    BY <1>1 DEF TypingInv, TypingShape
  <1>3. \A q \in Runs : Typing!Active(q)' <=> Typing!Active(q) /\ q # r
    BY <1>1 DEF TypingInv, TypingShape, Typing!Active
  <1>4. /\ TypingLength' /\ TypingTurns' /\ Typing!OnlyStoredIsTyped'
        /\ \A i \in DOMAIN typed' : typePc'[typed'[i].by] \in {"type", "done"}
    BY <1>1, <1>3, TypingRests DEF TypingInv, TypingShape
  <1>5. (\A q \in Runs :
            /\ Typing!Active(q) => keychain \in held[q]
            /\ typePc[q] = "type" => text[q] \in held[q])'
    BY <1>1, <1>3 DEF TypingInv, TypingShape, TypingSeen
  <1> QED
    BY <1>2, <1>4, <1>5 DEF TypingInv, TypingSeen

\* What the user and the system do beside.
LEMMA TypingBeside ==
  ASSUME TypingInv, Typing!SaveSettings \/ Typing!Lock
  PROVE  TypingInv'
  <1>1. /\ setting' \in TextOrNone /\ available' \in BOOLEAN
        /\ UNCHANGED <<keychain, typePc, typeVia, text, told, typed, held>>
    BY TypingMarks DEF Typing!SaveSettings, Typing!Lock, Typing!run, TypingInv, TypingShape
  <1>2. TypingShape'
    BY <1>1 DEF TypingInv, TypingShape
  <1>3. /\ TypingLength' /\ TypingTurns' /\ Typing!OnlyStoredIsTyped'
        /\ \A i \in DOMAIN typed' : typePc'[typed'[i].by] \in {"type", "done"}
    BY <1>1, TypingRests DEF Typing!Active
  <1> QED
    BY <1>1, <1>2, <1>3 DEF TypingInv, TypingSeen, Typing!Active

\* The text is read from the keychain, to be typed.
LEMMA TypingGets ==
  ASSUME TypingInv, NEW r \in Runs, Typing!Get(r)
  PROVE  TypingInv'
  <1> DEFINE got == IF available THEN keychain ELSE "none"
  <1>1. /\ typePc[r] = "get" /\ text' = [text EXCEPT ![r] = got]
        /\ \/ /\ got = "none" /\ typePc' = [typePc EXCEPT ![r] = "done"]
              /\ told' = [told EXCEPT ![r] = "no text saved"]
           \/ got # "none" /\ typePc' = [typePc EXCEPT ![r] = "type"] /\ told' = told
        /\ UNCHANGED <<setting, keychain, available, typeVia, typed, held>>
    BY TypingMarks DEF Typing!Get, Typing!Tell, Typing!Goto
  <1>2. got \in TextOrNone
    BY TypingMarks DEF TypingInv, TypingShape, TextOrNone
  <1>3. TypingShape'
    BY <1>1, <1>2 DEF TypingInv, TypingShape
  <1>4. \A q \in Runs : Typing!Active(q)' => Typing!Active(q)
    BY <1>1 DEF TypingInv, TypingShape, Typing!Active
  <1>5. /\ TypingLength' /\ TypingTurns' /\ Typing!OnlyStoredIsTyped'
        /\ \A i \in DOMAIN typed' : typePc'[typed'[i].by] \in {"type", "done"}
    BY <1>1, <1>4, TypingRests DEF TypingInv, TypingShape
  <1>6. (\A q \in Runs :
            /\ Typing!Active(q) => keychain \in held[q]
            /\ typePc[q] = "type" => text[q] \in held[q])'
    BY <1>1, <1>4 DEF TypingInv, TypingShape, TypingSeen, Typing!Active
  <1> QED
    BY <1>3, <1>5, <1>6 DEF TypingInv, TypingSeen

\* A run begins: it has typed nothing, and sees what the keychain holds.
LEMMA TypingStarts ==
  ASSUME TypingInv, NEW r \in Runs, NEW s \in Surfaces, Typing!Begin(r, s)
  PROVE  TypingInv'
  <1>1. PICK in \in TextOrNone :
          /\ typePc[r] = "idle" /\ typeVia' = [typeVia EXCEPT ![r] = s]
          /\ s = "daemon" => \A q \in Runs : ~ (typeVia[q] = "daemon" /\ Typing!Active(q))
          /\ held' = [held EXCEPT ![r] = {keychain}] /\ text' = [text EXCEPT ![r] = in]
          /\ \E l \in {"get", "delete", "set", "done"} :
                typePc' = [typePc EXCEPT ![r] = l] /\ (l = "set" => in # "none")
          /\ told' \in {told, [told EXCEPT ![r] = "provide a text"]}
          /\ UNCHANGED <<setting, keychain, available, typed>>
    <2>1. Typing!Inputs(s) \subseteq TextOrNone
      <3>1. s \in {"page", "cli", "daemon"}
        BY ExtensionsAssumption DEF Typing!SafeInputAssumption
      <3>2. setting \in TextOrNone /\ "none" \in TextOrNone
        BY DEF TypingInv, TypingShape, TextOrNone
      <3>3. CASE s = "page"
        BY <3>2, <3>3 DEF Typing!Inputs
      <3>4. CASE s = "cli"
        BY <3>4, TypingMarks DEF Typing!Inputs
      <3>5. CASE s = "daemon"
        BY <3>2, <3>5, TypingMarks DEF Typing!Inputs
      <3> QED
        BY <3>1, <3>3, <3>4, <3>5
    <2>2. PICK in \in Typing!Inputs(s) :
            /\ text' = [text EXCEPT ![r] = in]
            /\ \/ Typing!Goto(r, "get") /\ UNCHANGED told
               \/ Typing!Goto(r, "delete") /\ UNCHANGED told
               \/ in # "none" /\ Typing!Goto(r, "set") /\ UNCHANGED told
               \/ Typing!Tell(r, "provide a text")
      BY TypingMarks DEF Typing!Begin
    <2>3. \E l \in {"get", "delete", "set", "done"} :
              typePc' = [typePc EXCEPT ![r] = l] /\ (l = "set" => in # "none")
      BY <2>2 DEF Typing!Goto, Typing!Tell
    <2>4. told' \in {told, [told EXCEPT ![r] = "provide a text"]}
      BY <2>2 DEF Typing!Tell
    <2> QED
      BY <2>1, <2>2, <2>3, <2>4 DEF Typing!Begin, Typing!MayStart
  <1>2. TypingShape'
    BY <1>1 DEF TypingInv, TypingShape
  <1>3. \A i \in DOMAIN typed : typed[i].by \in Runs /\ typed[i].by # r
    BY <1>1, TypedRecords DEF TypingInv, TypingShape, TypingSeen
  <1>4. TypingLength'
    <2> SUFFICES ASSUME NEW q \in Runs
                 PROVE  /\ Typing!TypedBy(q)' \in 0 .. Length
                        /\ typePc'[q] = "type" => Typing!TypedBy(q)' < Length
                        /\ typePc'[q] \notin {"type", "done"} => Typing!TypedBy(q)' = 0
      BY DEF TypingLength
    <2>1. Typing!TypedBy(q)' = Typing!TypedBy(q)
      BY <1>1 DEF Typing!TypedBy
    <2>2. PICK n \in 0 .. Length : n = Typing!TypedBy(q)
      BY DEF TypingInv, TypingLength
    <2> QED
      BY <1>1, <2>1, <2>2, TypingMarks DEF TypingInv, TypingShape, TypingLength
  <1>5. TypingSeen'
    BY <1>1, <1>3 DEF TypingInv, TypingShape, TypingSeen, Typing!Active,
       Typing!OnlyStoredIsTyped
  <1>6. TypingTurns'
    <2>1. \A q \in Runs \ {r} : typeVia'[q] = typeVia[q] /\ (Typing!Active(q)' <=> Typing!Active(q))
      BY <1>1 DEF TypingInv, TypingShape, Typing!Active
    <2>2. typeVia'[r] = s
      BY <1>1 DEF TypingInv, TypingShape
    <2>3. (\A p \in Runs : \A q \in Runs \ {p} :
             ~ (typeVia[p] = "daemon" /\ typeVia[q] = "daemon" /\ Typing!Active(p) /\ Typing!Active(q)))'
      BY <1>1, <2>1, <2>2 DEF TypingInv, TypingTurns
    <2>4. \A i \in DOMAIN typed :
              typeVia'[typed[i].by] = typeVia[typed[i].by] /\ typePc'[typed[i].by] = typePc[typed[i].by]
      BY <1>1, <1>3 DEF TypingInv, TypingShape
    <2>5. (\A i, j \in DOMAIN typed :
             i < j /\ typed[i].by # typed[j].by
                 /\ typeVia[typed[i].by] = "daemon" /\ typeVia[typed[j].by] = "daemon"
             => ~ Typing!Active(typed[i].by))'
      <3>1. \A i, j \in DOMAIN typed :
               i < j /\ typed[i].by # typed[j].by
                   /\ typeVia[typed[i].by] = "daemon" /\ typeVia[typed[j].by] = "daemon"
               => typePc[typed[i].by] \in {"idle", "done"}
        BY DEF TypingInv, TypingTurns, Typing!Active
      <3>2. typed' = typed
        BY <1>1
      <3> QED
        BY <2>4, <3>1, <3>2 DEF Typing!Active
    <2>6. Typing!DaemonRunsDoNotMix'
      <3>1. typed' = typed /\ Typing!DaemonRunsDoNotMix
        BY <1>1 DEF TypingInv, TypingTurns
      <3> QED
        BY <2>4, <3>1 DEF Typing!DaemonRunsDoNotMix
    <2> QED
      BY <2>3, <2>5, <2>6 DEF TypingTurns
  <1> QED
    BY <1>2, <1>4, <1>5, <1>6 DEF TypingInv

\* A character is typed: of a text its run has seen in the keychain, and after
\* the last one of every other run of the daemon.
LEMMA TypingTypes ==
  ASSUME TypingInv, NEW r \in Runs, Typing!TypeUnit(r)
  PROVE  TypingInv'
  <1> DEFINE n == Typing!TypedBy(r) + 1
             c == [by |-> r, char |-> <<text[r], n>>]
             last == Len(typed) + 1
  <1>1. /\ typePc[r] = "type" /\ typed' = Append(typed, c)
        /\ typePc' = [typePc EXCEPT ![r] = IF n = Length THEN "done" ELSE "type"]
        /\ UNCHANGED <<setting, keychain, available, typeVia, text, told, held>>
    BY DEF Typing!TypeUnit, Typing!Goto
  <1>2. PICK m \in Nat : m = Typing!TypedBy(r) /\ m < Length
    BY <1>1, TypingMarks DEF TypingInv, TypingLength
  <1>3. text[r] \in TextOrNone /\ typed \in Seq([by : Runs, char : TextOrNone \X Nat])
    BY DEF TypingInv, TypingShape
  <1>4. c \in [by : Runs, char : TextOrNone \X Nat]
    BY <1>2, <1>3
  <1>5. /\ DOMAIN typed = 1 .. Len(typed) /\ DOMAIN typed' = 1 .. last
        /\ Len(typed) \in Nat /\ typed'[last] = c
        /\ \A i \in 1 .. Len(typed) : typed'[i] = typed[i]
        /\ typed' \in Seq([by : Runs, char : TextOrNone \X Nat])
    BY <1>1, <1>3, <1>4
  <1>5a. last \in Nat /\ \A i \in 1 .. last : i = last \/ i \in 1 .. Len(typed)
    <2> SUFFICES ASSUME NEW l \in Nat, NEW i \in 1 .. l + 1, i # l + 1
                 PROVE  i \in 1 .. l
      BY <1>5
    <2> QED
      OBVIOUS
  <1>5b. \A i \in 1 .. last : ~ last < i
    BY <1>5a
  <1>6. \A i \in 1 .. Len(typed) : typed[i].by \in Runs
    BY <1>3, <1>5, TypedRecords
  <1>7. TypingShape'
    BY <1>1, <1>5 DEF TypingInv, TypingShape
  <1>8. TypingLength'
    <2>1. /\ Typing!TypedBy(r)' = m + 1
          /\ \A q \in Runs \ {r} : Typing!TypedBy(q)' = Typing!TypedBy(q)
      <3>1. c.by = r
        OBVIOUS
      <3> HIDE DEF c
      <3> QED
        BY <1>1, <1>2, <1>3, <1>4, <3>1, TypedByGrows
    <2>2. ASSUME NEW q \in Runs
          PROVE  (/\ Typing!TypedBy(q) \in 0 .. Length
                  /\ typePc[q] = "type" => Typing!TypedBy(q) < Length
                  /\ typePc[q] \notin {"type", "done"} => Typing!TypedBy(q) = 0)'
      <3>1. CASE q = r
        <4>1. typePc'[r] = IF m + 1 = Length THEN "done" ELSE "type"
          BY <1>1, <1>2 DEF TypingInv, TypingShape
        <4>2. m + 1 \in 0 .. Length /\ (m + 1 # Length => m + 1 < Length)
          BY <1>2, TypingMarks
        <4>3. PICK k \in Nat : k = Typing!TypedBy(q)' /\ k = m + 1
          BY <1>2, <2>1, <3>1
        <4>4. k \in 0 .. Length /\ (typePc'[q] = "type" => k < Length)
              /\ typePc'[q] \in {"type", "done"}
          BY <3>1, <4>1, <4>2, <4>3
        <4> QED
          BY <4>3, <4>4
      <3>2. CASE q # r
        <4>1. Typing!TypedBy(q)' = Typing!TypedBy(q) /\ typePc'[q] = typePc[q]
          BY <1>1, <2>1, <3>2 DEF TypingInv, TypingShape
        <4> QED
          BY <4>1 DEF TypingInv, TypingLength
      <3> QED
        BY <3>1, <3>2
    <2> QED
      BY <2>2 DEF TypingLength
  <1>9. TypingSeen'
    <2>1. text[r] \in held[r] /\ c.by = r /\ c.char[1] = text[r]
      BY <1>1 DEF TypingInv, TypingSeen
    <2>2. (\A q \in Runs :
              /\ Typing!Active(q) => keychain \in held[q]
              /\ typePc[q] = "type" => text[q] \in held[q])'
      BY <1>1 DEF TypingInv, TypingShape, TypingSeen, Typing!Active
    <2>3. \A i \in DOMAIN typed' : typePc'[typed'[i].by] \in {"type", "done"}
      <3>1. \A q \in Runs : typePc[q] \in {"type", "done"} => typePc'[q] \in {"type", "done"}
        BY <1>1 DEF TypingInv, TypingShape
      <3>2. \A i \in 1 .. Len(typed) : typePc[typed[i].by] \in {"type", "done"}
        BY <1>5 DEF TypingInv, TypingSeen
      <3> SUFFICES ASSUME NEW i \in 1 .. last
                   PROVE  typePc'[typed'[i].by] \in {"type", "done"}
        BY <1>5
      <3>3. CASE i = last
        BY <1>1, <1>5, <2>1, <3>1, <3>3
      <3>4. CASE i # last
        BY <1>5, <1>5a, <1>6, <3>1, <3>2, <3>4
      <3> QED
        BY <3>3, <3>4
    <2>4. Typing!OnlyStoredIsTyped'
      BY <1>1, <1>5, <2>1 DEF TypingInv, TypingSeen, Typing!OnlyStoredIsTyped
    <2> QED
      BY <2>2, <2>3, <2>4 DEF TypingSeen
  <1>10. TypingTurns'
    <2>1. c.by = r /\ Typing!Active(r)
      BY <1>1 DEF Typing!Active
    <2>2. \A q \in Runs : Typing!Active(q)' => Typing!Active(q)
      BY <1>1, <2>1 DEF TypingInv, TypingShape, Typing!Active
    <2>3. (\A p \in Runs : \A q \in Runs \ {p} :
             ~ (typeVia[p] = "daemon" /\ typeVia[q] = "daemon" /\ Typing!Active(p) /\ Typing!Active(q)))'
      BY <1>1, <2>2 DEF TypingInv, TypingTurns
    <2>4. \A i, j \in 1 .. last :
             i < j /\ typed'[i].by # typed'[j].by
                 /\ typeVia[typed'[i].by] = "daemon" /\ typeVia[typed'[j].by] = "daemon"
             => ~ Typing!Active(typed'[i].by)
      <3>1. \A i, j \in 1 .. Len(typed) :
               i < j /\ typed[i].by # typed[j].by
                   /\ typeVia[typed[i].by] = "daemon" /\ typeVia[typed[j].by] = "daemon"
               => ~ Typing!Active(typed[i].by)
        BY <1>5 DEF TypingInv, TypingTurns
      <3> SUFFICES ASSUME NEW i \in 1 .. last, NEW j \in 1 .. last,
                          i < j, typed'[i].by # typed'[j].by,
                          typeVia[typed'[i].by] = "daemon", typeVia[typed'[j].by] = "daemon"
                   PROVE  ~ Typing!Active(typed'[i].by)
        OBVIOUS
      <3>2. i \in 1 .. Len(typed)
        BY <1>5
      <3>3. typed'[i] = typed[i] /\ typed[i].by \in Runs
        BY <1>5, <1>6, <3>2
      <3>4. CASE j = last
        <4>1. typed'[j].by = r
          BY <1>5, <2>1, <3>4
        <4>2. PICK p \in Runs : p = typed[i].by /\ p = typed'[i].by
          BY <3>3
        <4>3. ~ Typing!Active(p)
          BY <2>1, <4>1, <4>2 DEF TypingInv, TypingTurns
        <4> QED
          BY <4>2, <4>3 DEF Typing!Active
      <3>5. CASE j # last
        <4>1. j \in 1 .. Len(typed) /\ typed'[j] = typed[j]
          BY <1>5, <1>5a, <3>5
        <4>2. ~ Typing!Active(typed[i].by)
          BY <3>1, <3>2, <3>3, <4>1
        <4> QED
          BY <3>3, <4>2 DEF Typing!Active
      <3> QED
        BY <3>4, <3>5
    <2>5. (\A i, j \in DOMAIN typed :
             i < j /\ typed[i].by # typed[j].by
                 /\ typeVia[typed[i].by] = "daemon" /\ typeVia[typed[j].by] = "daemon"
             => ~ Typing!Active(typed[i].by))'
      <3>1. \A i \in 1 .. last : typed'[i].by \in Runs
        BY <1>5, TypedRecords
      <3> QED
        BY <1>1, <1>5, <2>2, <2>4, <3>1 DEF Typing!Active
    <2>6. \A i, j, k \in 1 .. last :
             i < j /\ j < k /\ typed'[i].by = typed'[k].by /\ typeVia[typed'[i].by] = "daemon"
             => typed'[j].by = typed'[i].by \/ typeVia[typed'[j].by] # "daemon"
      <3> SUFFICES ASSUME NEW i \in 1 .. last, NEW j \in 1 .. last, NEW k \in 1 .. last,
                          i < j, j < k, typed'[i].by = typed'[k].by,
                          typeVia[typed'[i].by] = "daemon"
                   PROVE  typed'[j].by = typed'[i].by \/ typeVia[typed'[j].by] # "daemon"
        OBVIOUS
      <3>1. CASE k = last
        <4>1. r \in Runs /\ typed'[i].by = r
          BY <1>5, <2>1, <3>1
        <4>2. i < j => ~ (typed'[i].by # typed'[j].by /\ typeVia[typed'[j].by] = "daemon")
          BY <2>1, <2>4, <4>1 DEF Typing!Active
        <4> QED
          BY <4>2
      <3>2. CASE k # last
        <4>1. \A a, b, d \in 1 .. Len(typed) :
                 a < b /\ b < d /\ typed[a].by = typed[d].by /\ typeVia[typed[a].by] = "daemon"
                 => typed[b].by = typed[a].by \/ typeVia[typed[b].by] # "daemon"
          BY <1>5 DEF TypingInv, TypingTurns, Typing!DaemonRunsDoNotMix
        <4>2. i \in 1 .. Len(typed) /\ j \in 1 .. Len(typed) /\ k \in 1 .. Len(typed)
          BY <1>5a, <1>5b, <3>2
        <4>3. typed'[i] = typed[i] /\ typed'[j] = typed[j] /\ typed'[k] = typed[k]
          BY <1>5, <4>2
        <4> QED
          BY <4>1, <4>2, <4>3
      <3> QED
        BY <3>1, <3>2
    <2> QED
      <3>1. Typing!DaemonRunsDoNotMix'
        <4>1. DOMAIN typed' = 1 .. last /\ typeVia' = typeVia
          BY <1>1, <1>5
        <4> HIDE DEF last
        <4> QED
          BY <4>1, <2>6 DEF Typing!DaemonRunsDoNotMix
      <3> QED
        BY <2>3, <2>5, <3>1 DEF TypingTurns
  <1> QED
    BY <1>7, <1>8, <1>9, <1>10 DEF TypingInv

\* Every step keeps the invariant of the texts.
LEMMA TypingGoesOn == TypingInv /\ [Typing!Next]_typeVars => TypingInv'
  <1> SUFFICES ASSUME TypingInv, [Typing!Next]_typeVars
               PROVE  TypingInv'
    OBVIOUS
  <1>1. ASSUME NEW r \in Runs, \E s \in Surfaces : Typing!Begin(r, s)
        PROVE  TypingInv'
    BY <1>1, TypingStarts
  <1>2. ASSUME NEW r \in Runs, Typing!Step(r)
        PROVE  TypingInv'
    BY <1>2, TypingGets, TypingTypes, TypingKeeps DEF Typing!Step
  <1>3. CASE Typing!SaveSettings \/ Typing!Lock
    BY <1>3, TypingBeside
  <1>4. CASE UNCHANGED typeVars
    <2>1. UNCHANGED <<setting, keychain, available, typePc, typeVia, text, told, typed, held>>
      BY <1>4 DEF typeVars
    <2>2. TypingShape' /\ TypingSeen'
      BY <2>1 DEF TypingInv, TypingShape, TypingSeen, Typing!Active, Typing!OnlyStoredIsTyped
    <2>3. TypingLength' /\ TypingTurns'
      BY <2>1, TypingRests DEF Typing!Active
    <2> QED
      BY <2>2, <2>3 DEF TypingInv
  <1> QED
    BY <1>1, <1>2, <1>3, <1>4 DEF Typing!Next

\* What empties the keychain is a clearing, which says so.
LEMMA TypingClears ==
  ASSUME TypingInv, Typing!Next, keychain # "none", keychain' = "none"
  PROVE  \E r \in Runs : typePc[r] = "delete" /\ told'[r] = "cleared"
  <1>1. ASSUME NEW r \in Runs, \E s \in Surfaces : Typing!Begin(r, s)
        PROVE  FALSE
    BY <1>1 DEF Typing!Begin
  <1>2. ASSUME NEW r \in Runs, Typing!Get(r) \/ Typing!TypeUnit(r)
        PROVE  FALSE
    BY <1>2 DEF Typing!Get, Typing!TypeUnit
  <1>3. ASSUME NEW r \in Runs, Typing!Set(r)
        PROVE  FALSE
    BY <1>3 DEF Typing!Set, Typing!Keep, TypingInv, TypingShape
  <1>4. ASSUME NEW r \in Runs, Typing!Delete(r)
        PROVE  typePc[r] = "delete" /\ told'[r] = "cleared"
    BY <1>4 DEF Typing!Delete, Typing!Tell, TypingInv, TypingShape
  <1>5. ~ Typing!SaveSettings /\ ~ Typing!Lock
    BY DEF Typing!SaveSettings, Typing!Lock
  <1> QED
    BY <1>1, <1>2, <1>3, <1>4, <1>5 DEF Typing!Next, Typing!Step

\* The invariant of the texts is as strong as the properties ask for.
LEMMA TypingImplies ==
  ASSUME TypingInv
  PROVE  Typing!TypeOK /\ Typing!OnlyStoredIsTyped /\ Typing!DaemonRunsDoNotMix
  <1>1. \A r \in Runs : Typing!TypedBy(r) <= Length
    <2> SUFFICES ASSUME NEW r \in Runs
                 PROVE  Typing!TypedBy(r) <= Length
      OBVIOUS
    <2>1. PICK n \in 0 .. Length : n = Typing!TypedBy(r)
      BY DEF TypingInv, TypingLength
    <2> QED
      BY <2>1, TypingMarks
  <1>2. Typing!TypeOK
    BY <1>1, TypingMarks DEF TypingInv, TypingShape, TypingLength, Typing!TypeOK
  <1> QED
    BY <1>2 DEF TypingInv, TypingSeen, TypingTurns
-----------------------------------------------------------------------------
(***************************************************************************)
(* All parts together.  One moves, the others rest in an initial state, so *)
(* the conjunction of their invariants is inductive.                       *)
(***************************************************************************)

Inv ==
    /\ part \in {"token", "load", "worker", "crossed", "serial", "meeting", "failing", "typing"}
    /\ TokenInv /\ LoadInv /\ WorkerInv /\ TypingInv
    /\ IF part = "serial" THEN StoreInv({Sole}) /\ SerialReads ELSE StoreInv(Runs)
    /\ IF part = "failing" THEN FailingInv ELSE MeetingInv

\* Every part begins in its invariant.
LEMMA AllBegin == Init => Inv
  <1> SUFFICES ASSUME Init
               PROVE  Inv
    OBVIOUS
  <1>1. TokenInv /\ LoadInv /\ WorkerInv /\ TypingInv
    BY TokenBegins, LoadBegins, WorkerBegins, TypingBegins DEF Init, TriggerInit, ExtensionInit
  <1>2. part = "serial" => StoreInv({Sole}) /\ SerialReads
    <2> SUFFICES ASSUME part = "serial"
                 PROVE  StoreInv({Sole}) /\ SerialReads
      OBVIOUS
    <2>1. Serial!Init
      BY DEF Init, ExtensionInit
    <2>2. storePc[Sole] = "idle"
      BY <2>1 DEF Serial!Init
    <2> QED
      BY <2>1, <2>2, StoreBegins DEF SerialReads
  <1>3. part # "serial" => StoreInv(Runs)
    BY StoreBegins DEF Init, ExtensionInit
  <1>4. IF part = "failing" THEN FailingInv ELSE MeetingInv
    BY MovesBegin DEF Init, ExtensionInit
  <1> QED
    BY <1>1, <1>2, <1>3, <1>4 DEF Inv, Init

\* A step is one of one part, and leaves the others as they are.
LEMMA OneMoves ==
  ASSUME [Next]_vars
  PROVE  /\ part' = part
         /\ [Token!Next]_tokenVars /\ [Load!Next]_loadVars /\ [Worker!Next]_workerVars
         /\ IF part = "serial" THEN [Serial!Next]_storeVars ELSE [Crossed!Next]_storeVars
         /\ IF part = "failing" THEN [Failing!Next]_moveVars ELSE [Meeting!Next]_moveVars
         /\ [Typing!Next]_typeVars
  <1> USE DEF triggerVars, extensionVars
  <1>1. CASE TriggerNext
    BY <1>1 DEF TriggerNext
  <1>2. CASE StoreNext
    BY <1>2 DEF StoreNext
  <1>3. CASE MoveNext
    BY <1>3 DEF MoveNext
  <1>4. CASE TypeNext
    BY <1>4 DEF TypeNext
  <1>5. CASE UNCHANGED vars
    BY <1>5 DEF vars
  <1> QED
    BY <1>1, <1>2, <1>3, <1>4, <1>5 DEF Next

\* So every step keeps the invariants of all parts.
LEMMA AllGoOn == Inv /\ [Next]_vars => Inv'
  <1> SUFFICES ASSUME Inv, [Next]_vars
               PROVE  Inv'
    OBVIOUS
  <1>1. TokenInv' /\ LoadInv' /\ WorkerInv' /\ TypingInv'
    BY OneMoves, TokenGoesOn, LoadGoesOn, WorkerGoesOn, TypingGoesOn DEF Inv
  <1>2. CASE part = "serial"
    BY <1>1, <1>2, OneMoves, SerialGoesOn, SerialSets, MeetingGoesOn DEF Inv
  <1>3. CASE part = "failing"
    BY <1>1, <1>3, OneMoves, CrossedGoesOn, FailingGoesOn DEF Inv
  <1>4. CASE part \notin {"serial", "failing"}
    BY <1>1, <1>4, OneMoves, CrossedGoesOn, MeetingGoesOn DEF Inv
  <1> QED
    BY <1>2, <1>3, <1>4

\* The invariant is one of the specification.
THEOREM Invariant == Spec => []Inv
  BY AllBegin, AllGoOn, PTL DEF Spec

\* Every variable keeps its type, a serving daemon has a token, no part of a
\* message is lost in a pipe, and the sets of the organizer fit together.
THEOREM TypeCorrect == Spec => []TypeOK
  <1>1. Inv => TypeOK
    BY TokenImplies, LoadImplies, WorkerImplies, StoreImplies, MovesImply, TypingImplies
       DEF Inv, TypeOK
  <1> QED
    BY <1>1, Invariant, PTL

\* The token in auth.json is the one that the serving daemon asks for, and a
\* client that read it is not refused, for any number of starts, clients and
\* tokens.
THEOREM TokenIsRight == Spec => []TokenServes
  <1>1. Inv => TokenServes
    BY TokenImplies DEF Inv, TokenServes
  <1> QED
    BY <1>1, Invariant, PTL

\* Nothing but the chosen action runs, whatever the manifest, the worker's
\* answer and the size of the pipe.
THEOREM AskedRuns == Spec => []RunsTheAskedAction
  <1>1. Inv => RunsTheAskedAction
    BY WorkerImplies DEF Inv, RunsTheAskedAction
  <1> QED
    BY <1>1, Invariant, PTL

\* A trigger comes to its end: until then engine or worker has something to do,
\* and every step, one that kills the worker as well, leaves less to do.  Only
\* that each of them gets the processor is not in it.
THEOREM TriggerNearsItsEnd ==
  Spec => /\ [](part = "worker" => engine = "over" \/ WorkerCan \/ EngineCan)
          /\ [](WorkLeft \in Nat)
          /\ [][WorkLeft' < WorkLeft]_workerVars
  <1>1. Inv => WorkLeft \in Nat /\ (engine = "over" \/ WorkerCan \/ EngineCan)
    BY NeverStuck, WorkCounts DEF Inv
  <1>2. Inv /\ [Next]_vars => [WorkLeft' < WorkLeft]_workerVars
    BY OneMoves, WorkGetsLess DEF Inv
  <1> QED
    BY <1>1, <1>2, Invariant, PTL DEF Spec

\* No torrent is lost and no count is wrong, for any number of torrents and of
\* runs that meet.
THEOREM Accounted == Spec => []TorrentsAreAccounted
  <1>1. Inv => TorrentsAreAccounted
    BY MovesImply DEF Inv, TorrentsAreAccounted
  <1> QED
    BY <1>1, Invariant, PTL

\* A load that succeeds misses no enabled extension that was there all the time,
\* save where a folder held one of its id for another platform meanwhile; it
\* returns no disabled one and has passed over no broken one: whatever the paths
\* are and whatever other folders become between any two looks at them.
THEOREM Discovers ==
  Spec => [](part = "load" => /\ Load!NothingIsMissed /\ Load!DisabledIsSuppressed
                              /\ Load!BrokenIsReported)
  <1>1. Inv => Load!NothingIsMissed /\ Load!DisabledIsSuppressed /\ Load!BrokenIsReported
    BY LoadImplies DEF Inv
  <1> QED
    BY <1>1, Invariant, PTL

\* And where no directory beside the program comes after the user's own, the
\* user's extensions win.
THEOREM DiscoversRight == ASSUME Load!UserIsLast
                          PROVE  Spec => []DiscoveryIsRight
  <1>1. Init => UserInv
    BY DEF Init, TriggerInit, Load!Init, UserInv, UserWins, Running, Load!Inside,
       Load!UserOverrides
  <1>2. Inv /\ UserInv /\ [Next]_vars => UserInv'
    BY UserGoesOn, OneMoves DEF Inv
  <1>3. Inv /\ UserInv => DiscoveryIsRight
    BY LoadImplies DEF Inv, UserInv, DiscoveryIsRight
  <1> QED
    BY <1>1, <1>2, <1>3, Invariant, PTL DEF Spec

\* safe-input-key types only what the keychain held since the run began, the
\* runs of the daemon never mix, and the text stays until it is cleared, for any
\* number of runs and of characters.
THEOREM SecretKept == Spec => SecretIsKept
  <1>1. Inv => Typing!OnlyStoredIsTyped /\ Typing!DaemonRunsDoNotMix
    BY TypingImplies DEF Inv
  <1>2. ASSUME Inv, [Next]_vars
        PROVE  [keychain # "none" /\ keychain' = "none"
                  => \E r \in Runs : typePc[r] = "delete" /\ told'[r] = "cleared"]_(Typing!vars)
    <2>1. [Typing!Next]_typeVars /\ TypingInv
      BY <1>2, OneMoves DEF Inv
    <2>2. CASE Typing!Next
      BY <2>1, <2>2, TypingClears
    <2>3. CASE UNCHANGED typeVars
      BY <2>3 DEF typeVars, Typing!vars, Typing!run
    <2> QED
      BY <2>1, <2>2, <2>3
  <1>3. Inv /\ [Next]_vars
          => [keychain # Typing!NoText /\ keychain' = Typing!NoText
                => \E r \in Runs : typePc[r] = "delete" /\ told'[r] = "cleared"]_(Typing!vars)
    BY <1>2, TypingMarks
  <1> QED
    BY <1>1, <1>3, Invariant, PTL DEF Spec, SecretIsKept, Typing!StaysUntilCleared

\* The map that store.json stands for where one run follows the other.
LEMMA MapMoves ==
  ASSUME Inv, [Next]_vars
  PROVE  [Map!Next]_(IF part = "serial" THEN Serial!Stored ELSE Serial!EmptyObject)
  <1>1. CASE part = "serial"
    <2>1. /\ part' = "serial" /\ Serial!EmptyObject = Map!EmptyMap
          /\ \/ Serial!Stored' = Serial!Stored
             \/ Serial!Stored' = Serial!EmptyObject
             \/ \E k \in Keys, v \in 1 .. MaxCount :
                   Serial!Stored' = [Serial!Stored EXCEPT ![k] = v]
      BY <1>1, OneMoves, SerialSets, SerialStored DEF Inv
    <2> QED
      BY <1>1, <2>1 DEF Map!Next, Map!Set, Map!Lose
  <1>2. CASE part # "serial"
    BY <1>2, OneMoves DEF Serial!EmptyObject
  <1> QED
    BY <1>1, <1>2

\* store.json is a map that an interrupted set can empty where one run follows
\* the other; a set that no run crossed keeps the other keys; and no run is
\* counted twice, for any number of runs, keys and faults.
THEOREM StoreIsRight == Spec => StoreIsAMap
  <1>1. Init => Map!Init
    <2> SUFFICES ASSUME Init
                 PROVE  Map!Init
      OBVIOUS
    <2>1. Serial!EmptyObject \in [Keys -> (1 .. MaxCount) \cup {Missing}]
      BY DEF Serial!EmptyObject
    <2>2. CASE part = "serial"
      <3>1. Serial!Init /\ Inv
        BY <2>2, AllBegin DEF Init, ExtensionInit
      <3>2. storePc[Sole] = "idle" /\ Serial!Stored = Serial!ReadObject(file)
        BY <2>2, <3>1, SerialStored DEF Serial!Init, Inv
      <3>3. file = Absent
        BY <3>1 DEF Serial!Init
      <3>4. Serial!ReadObject(file) \in [Keys -> (1 .. MaxCount) \cup {Missing}]
        BY <2>1, <3>3 DEF Serial!ReadObject, Serial!Object
      <3> QED
        BY <2>2, <3>2, <3>4 DEF Map!Init
    <2> QED
      BY <2>1, <2>2 DEF Map!Init
  <1>2. Inv /\ [Next]_vars
          => [Map!Next]_(IF part = "serial" THEN Serial!Stored ELSE Serial!EmptyObject)
    BY MapMoves
  <1>3. Inv /\ [Next]_vars
          => [IF part = "serial" THEN Serial!KeepsOthers ELSE Crossed!KeepsOthers]_vars
    BY OneMoves, StoreKeepsOthers DEF Inv
  <1>4. Inv => Crossed!NoRunIsCountedTwice
    BY DEF Inv, StoreInv, StoreCounts
  <1> QED
    BY <1>1, <1>2, <1>3, <1>4, Invariant, PTL DEF Spec, StoreIsAMap, Map!Spec
=============================================================================
