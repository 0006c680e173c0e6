--------------------------- MODULE StateFileProofs ---------------------------
(***************************************************************************)
(* Proofs about StateFile, for all sets of threads, processes, keys and    *)
(* saves.  Everything rests on one inductive invariant: what is behind the *)
(* path is synced, and a thread that is about to sync or to rename has its *)
(* whole object in its temporary file.                                     *)
(***************************************************************************)
EXTENDS StateFile, Naturals, TLAPS

IInv ==
    /\ TypeOK
    /\ fileSynced
    /\ \A t \in Thread : pc[t] \in {"sync", "replace"} => temp[t] = draft[t]
    /\ \A t \in Thread : pc[t] = "replace" => tempSynced[t]

-----------------------------------------------------------------------------
(***************************************************************************)
(* The operators on objects.                                               *)
(***************************************************************************)

\* Every read of a state file yields an object, whatever the file holds.
LEMMA ReadIsObject ==
    ASSUME NEW content, NEW legacyContent
    PROVE  /\ EmptyObject \in Object
           /\ ReadObject(content) \in Object
           /\ ReadOrLegacy(content, legacyContent) \in Object
  BY DEF EmptyObject, Object, ReadObject, ReadOrLegacy

\* Merging a body into an object yields an object with the same keys outside
\* the body.
LEMMA MergeIsObject ==
    ASSUME NEW object \in Object, NEW body \in Patch
    PROVE  /\ MergeObject(object, body) \in Object
           /\ \A k \in Keys \ Named(body) : MergeObject(object, body)[k] = object[k]
  BY DEF MergeObject, Object, Patch, Named

-----------------------------------------------------------------------------
(***************************************************************************)
(* The inductive invariant.                                                *)
(***************************************************************************)

LEMMA InitIInv == Init => IInv
  BY StateFileAssumption, ReadIsObject
  DEF Init, IInv, TypeOK, Labels, Content, Patch

LEMMA DraftIInv ==
    ASSUME IInv, NEW t \in Thread, NEW base \in Object, NEW p \in Patches,
           Draft(t, base, p)
    PROVE  IInv'
  <1>1. p \in Patch /\ MergeObject(base, p) \in Object
    BY StateFileAssumption, MergeIsObject
  <1>2. TypeOK'
    BY <1>1 DEF IInv, Draft, TypeOK, Labels, Goto, fileVars, tempVars
  <1>3. QED
    BY <1>2 DEF IInv, Draft, TypeOK, Goto, fileVars, tempVars

LEMMA StopIInv ==
    ASSUME IInv, NEW threads \in SUBSET Thread, Stop(threads),
           file' \in Content, fileSynced', durable' \in Content,
           answer' \in [Thread -> {"none", "ok", "error"}],
           alone' \in [Thread -> BOOLEAN]
    PROVE  IInv'
  <1>1. TypeOK'
    BY DEF IInv, Stop, TypeOK, Labels, Content
  <1>2. QED
    BY <1>1 DEF IInv, Stop, TypeOK

LEMMA NextIInv == IInv /\ [Next]_vars => IInv'
  <1> SUFFICES ASSUME IInv, [Next]_vars
               PROVE  IInv'
    OBVIOUS
  <1> USE DEF IInv, TypeOK, Labels, Goto, fileVars, tempVars
  <1>1. ASSUME NEW t \in Thread, Merge(t)
        PROVE  IInv'
    BY <1>1, DraftIInv, ReadIsObject DEF Merge
  <1>2. ASSUME NEW t \in Thread, TrayMerge(t)
        PROVE  IInv'
    BY <1>2, DraftIInv, ReadIsObject DEF TrayMerge
  <1>3. ASSUME NEW t \in Thread, ReadFails(t)
        PROVE  IInv'
    BY <1>3 DEF ReadFails
  <1>4. ASSUME NEW t \in Thread, Create(t)
        PROVE  IInv'
    BY <1>4 DEF Create, Content
  <1>5. ASSUME NEW t \in Thread, Write(t)
        PROVE  IInv'
    BY <1>5 DEF Write, Content
  <1>6. ASSUME NEW t \in Thread, Sync(t)
        PROVE  IInv'
    BY <1>6 DEF Sync
  <1>7. ASSUME NEW t \in Thread, Replace(t)
        PROVE  IInv'
    BY <1>7 DEF Replace, Content
  <1>8. ASSUME NEW t \in Thread, Fail(t)
        PROVE  IInv'
    BY <1>8 DEF Fail
  <1>9. ASSUME NEW t \in Thread, Cleanup(t)
        PROVE  IInv'
    BY <1>9 DEF Cleanup, Content
  <1>10. ASSUME NEW p \in Process, Kill(p)
         PROVE  IInv'
    BY <1>10, StopIInv DEF Kill
  <1>11. CASE Flush
    BY <1>11 DEF Flush, Content
  <1>12. CASE PowerLoss
    BY <1>12, StopIInv DEF PowerLoss
  <1>13. CASE Edit
    BY <1>13, StateFileAssumption DEF Edit
  <1>14. CASE UNCHANGED vars
    BY <1>14 DEF vars
  <1>15. QED
    BY <1>1, <1>2, <1>3, <1>4, <1>5, <1>6, <1>7, <1>8, <1>9, <1>10, <1>11,
       <1>12, <1>13, <1>14
    DEF Next, SaveStep

THEOREM Invariance == Spec => []IInv
  BY InitIInv, NextIInv, PTL DEF Spec

\* The variables keep their types (state_store.rs): a save always has a whole
\* object to write, whatever it read.
THEOREM TypeCorrect == Spec => []TypeOK
  BY Invariance, PTL DEF IInv

-----------------------------------------------------------------------------
(***************************************************************************)
(* No torn files.                                                          *)
(***************************************************************************)

Whole == file # Bad /\ durable # Bad

LEMMA NextWhole ==
    ASSUME Bad \notin Edits
    PROVE  IInv /\ Whole /\ [Next]_vars => Whole'
  <1> SUFFICES ASSUME IInv, Whole, [Next]_vars
               PROVE  Whole'
    OBVIOUS
  <1> USE DEF Whole, fileVars, tempVars
  <1>1. ASSUME NEW t \in Thread, Replace(t)
        PROVE  Whole'
    <2>1. file' = draft[t] /\ draft[t] \in Object
      BY <1>1 DEF Replace, IInv, TypeOK
    <2>2. QED
      BY <1>1, <2>1, JsonObjectAssumption DEF Replace
  <1>2. ASSUME NEW t \in Thread,
               Merge(t) \/ TrayMerge(t) \/ ReadFails(t) \/ Create(t) \/ Write(t)
                 \/ Sync(t) \/ Fail(t) \/ Cleanup(t)
        PROVE  Whole'
    BY <1>2 DEF Merge, TrayMerge, Draft, ReadFails, Create, Write, Sync, Fail, Cleanup
  <1>3. CASE Flush
    BY <1>3 DEF Flush, IInv
  <1>4. CASE PowerLoss
    BY <1>4 DEF PowerLoss
  <1>5. CASE Edit
    BY <1>5 DEF Edit
  <1>6. ASSUME NEW p \in Process, Kill(p)
        PROVE  Whole'
    BY <1>6 DEF Kill
  <1>7. CASE UNCHANGED vars
    BY <1>7 DEF vars
  <1>8. QED
    BY <1>1, <1>2, <1>3, <1>4, <1>5, <1>6, <1>7 DEF Next, SaveStep

\* Whatever steps of the concurrent saves fail, are cut short by the end of a
\* process or are undone by a loss of power, no reader meets a half-written
\* file (write_file_atomically).
THEOREM NoTornFile == Spec => []NeverTorn
  <1>1. CASE Bad \notin Edits \cup InitialFiles
    <2>1. Init => Whole
      BY <1>1 DEF Init, Whole
    <2>2. IInv /\ Whole /\ [Next]_vars => Whole'
      BY <1>1, NextWhole
    <2>3. Whole => NeverTorn
      BY DEF Whole, NeverTorn
    <2>4. QED
      BY <2>1, <2>2, <2>3, Invariance, PTL DEF Spec
  <1>2. CASE ~(Bad \notin Edits \cup InitialFiles)
    <2>1. NeverTorn
      BY <1>2 DEF NeverTorn
    <2>2. QED
      BY <2>1, PTL
  <1>3. QED
    BY <1>1, <1>2

-----------------------------------------------------------------------------
(***************************************************************************)
(* Acknowledged saves.                                                     *)
(***************************************************************************)

LEMMA NextAcknowledged ==
    IInv /\ AcknowledgedSaveStands /\ [Next]_vars => AcknowledgedSaveStands'
  <1> SUFFICES ASSUME IInv, AcknowledgedSaveStands, [Next]_vars
               PROVE  AcknowledgedSaveStands'
    OBVIOUS
  <1> USE DEF AcknowledgedSaveStands, fileVars, tempVars, IInv, TypeOK
  <1>1. ASSUME NEW t \in Thread, Merge(t) \/ TrayMerge(t)
        PROVE  AcknowledgedSaveStands'
    BY <1>1 DEF Merge, TrayMerge, Draft
  <1>2. ASSUME NEW t \in Thread, Replace(t)
        PROVE  AcknowledgedSaveStands'
    BY <1>2 DEF Replace
  <1>3. ASSUME NEW t \in Thread, ReadFails(t) \/ Cleanup(t)
        PROVE  AcknowledgedSaveStands'
    BY <1>3 DEF ReadFails, Cleanup
  <1>4. ASSUME NEW t \in Thread, Create(t) \/ Write(t) \/ Sync(t) \/ Fail(t)
        PROVE  AcknowledgedSaveStands'
    BY <1>4 DEF Create, Write, Sync, Fail
  <1>5. ASSUME NEW p \in Process, Kill(p)
        PROVE  AcknowledgedSaveStands'
    BY <1>5 DEF Kill, Stop
  <1>6. CASE PowerLoss \/ Edit
    BY <1>6 DEF PowerLoss, Edit
  <1>7. CASE Flush \/ UNCHANGED vars
    BY <1>7 DEF Flush, vars
  <1>8. QED
    BY <1>1, <1>2, <1>3, <1>4, <1>5, <1>6, <1>7 DEF Next, SaveStep

\* A save answered with success is what the file holds until another save, an
\* edit or a loss of power; the end of the process does not undo it.
THEOREM AcknowledgedSaves == Spec => []AcknowledgedSaveStands
  <1>1. Init => AcknowledgedSaveStands
    BY DEF Init, AcknowledgedSaveStands
  <1>2. QED
    BY <1>1, NextAcknowledged, Invariance, PTL DEF Spec

-----------------------------------------------------------------------------
(***************************************************************************)
(* Keys a save does not name.                                              *)
(***************************************************************************)

Saving == {"create", "write", "sync", "replace"}

\* Without a legacy file, the draft of a save that met no other change agrees
\* with the file on the keys the save does not name, and has no answer yet.
Based ==
    /\ legacy = Absent
    /\ \A t \in Thread : pc[t] # "idle" => answer[t] = "none"
    /\ \A t \in Thread : alone[t] /\ pc[t] \in Saving =>
          \A k \in Keys \ Named(patch[t]) : draft[t][k] = ReadObject(file)[k]

LEMMA DraftBased ==
    ASSUME IInv, Based, NEW t \in Thread, NEW p \in Patches,
           Draft(t, ReadObject(file), p)
    PROVE  Based'
  <1>1. \A k \in Keys \ Named(p) : MergeObject(ReadObject(file), p)[k] = ReadObject(file)[k]
    BY StateFileAssumption, ReadIsObject, MergeIsObject
  <1>2. /\ patch'[t] = p
        /\ draft'[t] = MergeObject(ReadObject(file), p)
        /\ file' = file /\ legacy' = legacy
    BY DEF Draft, IInv, TypeOK, fileVars
  <1>3. ASSUME NEW u \in Thread, u # t
        PROVE  /\ patch'[u] = patch[u]
               /\ draft'[u] = draft[u]
               /\ pc'[u] = pc[u]
               /\ answer'[u] = answer[u]
               /\ alone'[u] = alone[u]
    BY <1>3 DEF Draft, IInv, TypeOK, Goto
  <1>4. answer'[t] = "none"
    BY DEF Draft, IInv, TypeOK
  <1>5. ReadObject(file)' = ReadObject(file)
    BY <1>2 DEF ReadObject
  <1>6. \A u \in Thread : alone'[u] /\ pc'[u] \in Saving =>
          \A k \in Keys \ Named(patch'[u]) : draft'[u][k] = ReadObject(file)[k]
    BY <1>1, <1>2, <1>3 DEF Based
  <1>7. QED
    BY <1>2, <1>3, <1>4, <1>5, <1>6 DEF Based

LEMMA NextBased == IInv /\ Based /\ [Next]_vars => Based'
  <1> SUFFICES ASSUME IInv, Based, [Next]_vars
               PROVE  Based'
    OBVIOUS
  <1> USE DEF fileVars, tempVars, Goto, Saving
  <1>1. ASSUME NEW t \in Thread, Merge(t)
        PROVE  Based'
    BY <1>1, DraftBased DEF Merge
  <1>2. ASSUME NEW t \in Thread, TrayMerge(t)
        PROVE  Based'
    <2>1. ReadOrLegacy(file, legacy) = ReadObject(file)
      BY DEF Based, ReadOrLegacy
    <2>2. QED
      BY <1>2, <2>1, DraftBased DEF TrayMerge
  <1>3. ASSUME NEW t \in Thread, ReadFails(t)
        PROVE  Based'
    BY <1>3 DEF ReadFails, Based, IInv, TypeOK
  <1>4. ASSUME NEW t \in Thread,
               Create(t) \/ Write(t) \/ Sync(t) \/ Fail(t)
        PROVE  Based'
    <2>1. UNCHANGED <<file, legacy, patch, draft, answer, alone>>
      BY <1>4 DEF Create, Write, Sync, Fail
    <2>2. \A u \in Thread \ {t} : pc'[u] = pc[u]
      BY <1>4 DEF Create, Write, Sync, Fail, IInv, TypeOK
    <2>3. pc[t] \in Saving
      BY <1>4 DEF Create, Write, Sync, Fail
    <2>4. ReadObject(file)' = ReadObject(file)
      BY <2>1 DEF ReadObject
    <2>5. QED
      BY <2>1, <2>2, <2>3, <2>4 DEF Based
  <1>5. ASSUME NEW t \in Thread, Replace(t)
        PROVE  Based'
    BY <1>5 DEF Replace, Based, IInv, TypeOK
  <1>6. ASSUME NEW t \in Thread, Cleanup(t)
        PROVE  Based'
    BY <1>6 DEF Cleanup, Based, IInv, TypeOK
  <1>7. ASSUME NEW p \in Process, Kill(p)
        PROVE  Based'
    BY <1>7 DEF Kill, Stop, Based, IInv, TypeOK
  <1>8. CASE PowerLoss
    BY <1>8 DEF PowerLoss, Stop, Based, IInv, TypeOK
  <1>9. CASE Edit
    BY <1>9 DEF Edit, Based
  <1>10. CASE Flush \/ UNCHANGED vars
    BY <1>10 DEF Flush, vars, Based
  <1>11. QED
    BY <1>1, <1>2, <1>3, <1>4, <1>5, <1>6, <1>7, <1>8, <1>9, <1>10
    DEF Next, SaveStep

\* The step of UnnamedKeysSurvive.
KeepsUnnamed ==
    \A t \in Thread :
       alone[t] /\ pc[t] = "replace" /\ answer'[t] = "ok" =>
          \A k \in Keys \ Named(patch[t]) :
             ReadOrLegacy(file', legacy)[k] = ReadOrLegacy(file, legacy)[k]

LEMMA NextKeepsUnnamed == IInv /\ Based /\ [Next]_vars => [KeepsUnnamed]_vars
  <1> SUFFICES ASSUME IInv, Based, Next,
                      NEW t \in Thread, alone[t], pc[t] = "replace", answer'[t] = "ok",
                      NEW k \in Keys \ Named(patch[t])
               PROVE  ReadOrLegacy(file', legacy)[k] = ReadOrLegacy(file, legacy)[k]
    BY DEF KeepsUnnamed
  <1> USE DEF fileVars, tempVars, Goto
  <1>1. answer[t] = "none"
    BY DEF Based
  <1>2. Replace(t)
    <2>1. ASSUME NEW u \in Thread, Merge(u) \/ TrayMerge(u)
          PROVE  FALSE
      BY <1>1, <2>1 DEF Merge, TrayMerge, Draft, IInv, TypeOK
    <2>2. ASSUME NEW u \in Thread, ReadFails(u) \/ Cleanup(u)
          PROVE  FALSE
      BY <1>1, <2>2 DEF ReadFails, Cleanup, IInv, TypeOK
    <2>3. ASSUME NEW u \in Thread, Create(u) \/ Write(u) \/ Sync(u) \/ Fail(u)
          PROVE  FALSE
      BY <1>1, <2>3 DEF Create, Write, Sync, Fail
    <2>4. ASSUME NEW u \in Thread, Replace(u), u # t
          PROVE  FALSE
      BY <1>1, <2>4 DEF Replace, IInv, TypeOK
    <2>5. ASSUME (\E p \in Process : Kill(p)) \/ Flush \/ PowerLoss \/ Edit
          PROVE  FALSE
      BY <1>1, <2>5 DEF Kill, Flush, PowerLoss, Edit
    <2>6. QED
      BY <2>1, <2>2, <2>3, <2>4, <2>5 DEF Next, SaveStep
  <1>3. file' = draft[t] /\ draft[t] \in Object
    BY <1>2 DEF Replace, IInv, TypeOK
  <1>4. draft[t][k] = ReadObject(file)[k]
    BY DEF Based, Saving
  <1>5. QED
    BY <1>3, <1>4, JsonObjectAssumption DEF ReadOrLegacy, ReadObject, Based

\* While there is no data.json, a save that met no other change of the file
\* leaves the keys it does not name as they were (merge_json_object).  With
\* one, it does not: StateFile_migration.cfg.
THEOREM UnnamedKeys ==
    ASSUME InitialLegacy \subseteq {Absent}
    PROVE  Spec => UnnamedKeysSurvive
  <1>1. Init => Based
    BY DEF Init, Based
  <1>2. IInv /\ Based /\ [Next]_vars => [KeepsUnnamed]_vars
    BY NextKeepsUnnamed
  <1>3. Spec => [][KeepsUnnamed]_vars
    BY <1>1, <1>2, NextBased, Invariance, PTL DEF Spec
  <1>4. QED
    BY <1>3 DEF KeepsUnnamed, UnnamedKeysSurvive

-----------------------------------------------------------------------------
(***************************************************************************)
(* The end of a save.                                                      *)
(***************************************************************************)

\* How many steps a save has before it returns, an error included.
StepsLeft(label) ==
    CASE label = "create" -> 5 [] label = "write" -> 4 [] label = "sync" -> 3
      [] label = "replace" -> 2 [] label = "cleanup" -> 1 [] label = "idle" -> 0

\* A save never waits and never starts again: whatever other threads, the
\* system and the user do, its thread has a step until it is idle, and no step
\* but one that ends it leaves it where it was or takes it further from its
\* end, its own brings it nearer.  That the thread runs on is the rest of
\* SaveReturns (write_file_atomically).
THEOREM SaveAdvances ==
  Spec => /\ []\A t \in Thread :
                  pc[t] # "idle" => pc[t] \in {"create", "write", "sync", "replace", "cleanup"}
          /\ [][\A t \in Thread : pc[t] # "idle" =>
                  /\ StepsLeft(pc'[t]) <= StepsLeft(pc[t])
                  /\ SaveStep(t) => StepsLeft(pc'[t]) < StepsLeft(pc[t])]_vars
  <1> DEFINE Nearer ==
               \A t \in Thread : pc[t] # "idle" =>
                  /\ StepsLeft(pc'[t]) <= StepsLeft(pc[t])
                  /\ SaveStep(t) => StepsLeft(pc'[t]) < StepsLeft(pc[t])
  <1>1. IInv => \A t \in Thread : pc[t] # "idle" =>
                   pc[t] \in {"create", "write", "sync", "replace", "cleanup"}
    BY DEF IInv, TypeOK, Labels
  <1>2. ASSUME IInv, Next
        PROVE  Nearer
    <2> SUFFICES ASSUME NEW t \in Thread, pc[t] # "idle"
                 PROVE  /\ StepsLeft(pc'[t]) <= StepsLeft(pc[t])
                        /\ SaveStep(t) => StepsLeft(pc'[t]) < StepsLeft(pc[t])
      OBVIOUS
    <2> USE DEF StepsLeft, Goto
    <2>1. pc \in [Thread -> Labels] /\ pc[t] \in Labels /\ StepsLeft(pc[t]) \in 1 .. 5
      BY <1>2 DEF IInv, TypeOK, Labels
    <2>2. ASSUME SaveStep(t)
          PROVE  StepsLeft(pc'[t]) \in 0 .. 5 /\ StepsLeft(pc'[t]) < StepsLeft(pc[t])
      BY <2>1, <2>2 DEF SaveStep, Create, Write, Sync, Replace, Fail, Cleanup, Labels
    <2>3. ASSUME NEW u \in Thread,
                 Merge(u) \/ TrayMerge(u) \/ ReadFails(u) \/ (u # t /\ SaveStep(u))
          PROVE  pc'[t] = pc[t]
      BY <2>1, <2>3
      DEF Merge, TrayMerge, ReadFails, Draft, SaveStep, Create, Write, Sync, Replace, Fail, Cleanup
    <2>4. ASSUME PowerLoss \/ (\E p \in Process : Kill(p)) \/ Flush \/ Edit
          PROVE  pc'[t] \in {pc[t], "idle"}
      BY <2>1, <2>4 DEF PowerLoss, Kill, Stop, Flush, Edit
    <2>5. SaveStep(t) \/ pc'[t] \in {pc[t], "idle"}
      BY <1>2, <2>3, <2>4 DEF Next
    <2>6. pc'[t] \in {pc[t], "idle"} => StepsLeft(pc'[t]) \in {StepsLeft(pc[t]), 0}
      OBVIOUS
    <2> HIDE DEF StepsLeft
    <2>7. QED
      BY <2>1, <2>2, <2>5, <2>6
  <1>3. QED
    BY <1>1, <1>2, Invariance, PTL DEF Spec

-----------------------------------------------------------------------------
(***************************************************************************)
(* The saves implement one atomic object.                                  *)
(***************************************************************************)

LEMMA SameOperators ==
    /\ Atomic!Object = Object
    /\ Atomic!Content = Content
    /\ \A content : Atomic!ReadObject(content) = ReadObject(content)
    /\ \A content, old : Atomic!ReadOrLegacy(content, old) = ReadOrLegacy(content, old)
    /\ \A object, body : Atomic!MergeObject(object, body) = MergeObject(object, body)
  BY DEF Atomic!Object, Object, Atomic!Content, Content, Atomic!ReadObject, ReadObject,
         Atomic!ReadOrLegacy, ReadOrLegacy, Atomic!MergeObject, MergeObject,
         Atomic!EmptyObject, EmptyObject

LEMMA InitAtomic == Init => Atomic!Init
  BY StateFileAssumption, SameOperators DEF Init, Atomic!Init, Pending

LEMMA DraftAtomic ==
    ASSUME IInv, NEW t \in Thread, NEW p \in Patches,
           NEW base \in {ReadObject(file), ReadOrLegacy(file, legacy)}, Draft(t, base, p)
    PROVE  Atomic!Begin(t)
  <1>1. Pending[t] = None
    BY DEF Draft, Pending
  <1>2. Pending' = [Pending EXCEPT ![t] = Atomic!MergeObject(base, p)]
    BY SameOperators DEF Draft, Pending, Goto, IInv, TypeOK
  <1>3. UNCHANGED <<file, durable, legacy>>
    BY DEF Draft, fileVars
  <1>4. base \in {Atomic!ReadObject(file), Atomic!ReadOrLegacy(file, legacy)}
    BY SameOperators
  <1>5. QED
    BY <1>1, <1>2, <1>3, <1>4 DEF Atomic!Begin

LEMMA NextAtomic == IInv /\ [Next]_vars => [Atomic!Next]_Atomic!vars
  <1> SUFFICES ASSUME IInv, [Next]_vars
               PROVE  Atomic!Next \/ UNCHANGED Atomic!vars
    OBVIOUS
  <1> USE DEF fileVars, tempVars, Goto, Atomic!vars
  <1>1. ASSUME NEW t \in Thread, Merge(t) \/ TrayMerge(t)
        PROVE  Atomic!Next
    BY <1>1, DraftAtomic DEF Merge, TrayMerge, Atomic!Next
  <1>2. ASSUME NEW t \in Thread,
               ReadFails(t) \/ Create(t) \/ Write(t) \/ Sync(t) \/ Cleanup(t)
        PROVE  UNCHANGED Atomic!vars
    <2>1. Pending' = Pending
      BY <1>2 DEF ReadFails, Create, Write, Sync, Cleanup, Pending, IInv, TypeOK
    <2>2. QED
      BY <1>2, <2>1 DEF ReadFails, Create, Write, Sync, Cleanup
  <1>3. ASSUME NEW t \in Thread, Replace(t)
        PROVE  Atomic!Next
    <2>1. Pending[t] # None /\ file' = Pending[t]
      BY <1>3, StateFileAssumption DEF Replace, Pending, IInv, TypeOK
    <2>2. Pending' = [Pending EXCEPT ![t] = None]
      BY <1>3 DEF Replace, Pending, IInv, TypeOK
    <2>3. Atomic!Install(t)
      BY <1>3, <2>1, <2>2 DEF Replace, Atomic!Install
    <2>4. QED
      BY <2>3 DEF Atomic!Next
  <1>4. ASSUME NEW t \in Thread, Fail(t)
        PROVE  Atomic!Next
    <2>1. Pending' = [u \in Thread |-> IF u \in {t} THEN None ELSE Pending[u]]
      BY <1>4 DEF Fail, Pending, IInv, TypeOK
    <2>2. Atomic!Abandon({t})
      BY <1>4, <2>1 DEF Fail, Atomic!Abandon
    <2>3. QED
      BY <2>2 DEF Atomic!Next
  <1>5. ASSUME NEW p \in Process, Kill(p)
        PROVE  Atomic!Next
    <2> DEFINE threads == {t \in Thread : ProcessOf[t] = p}
    <2>1. Pending' = [u \in Thread |-> IF u \in threads THEN None ELSE Pending[u]]
      BY <1>5 DEF Kill, Stop, Pending, IInv, TypeOK
    <2>2. Atomic!Abandon(threads)
      BY <1>5, <2>1 DEF Kill, Stop, Atomic!Abandon
    <2>3. QED
      BY <2>2 DEF Atomic!Next
  <1>6. CASE Flush
    <2>1. Pending' = Pending
      BY <1>6 DEF Flush, Pending
    <2>2. Atomic!Settle
      BY <1>6, <2>1 DEF Flush, IInv, Atomic!Settle
    <2>3. QED
      BY <2>2 DEF Atomic!Next
  <1>7. CASE PowerLoss
    <2>1. Pending' = [u \in Thread |-> None]
      BY <1>7 DEF PowerLoss, Stop, Pending
    <2>2. Atomic!PowerLoss
      BY <1>7, <2>1 DEF PowerLoss, Stop, Atomic!PowerLoss
    <2>3. QED
      BY <2>2 DEF Atomic!Next
  <1>8. CASE Edit
    <2>1. Pending' = Pending
      BY <1>8 DEF Edit, Pending
    <2>2. Atomic!Edit
      BY <1>8, <2>1 DEF Edit, Atomic!Edit
    <2>3. QED
      BY <2>2 DEF Atomic!Next
  <1>9. CASE UNCHANGED vars
    BY <1>9 DEF vars, Pending
  <1>10. QED
    BY <1>1, <1>2, <1>3, <1>4, <1>5, <1>6, <1>7, <1>8, <1>9 DEF Next, SaveStep

\* The unlocked saves, with their temporary files, failures, kills and losses of
\* power, show every reader whole versions that change in one step each.
THEOREM Implementation == Spec => ImplementsAtomicObject
  BY InitAtomic, NextAtomic, Invariance, PTL
  DEF Spec, ImplementsAtomicObject, Atomic!Spec
=============================================================================
