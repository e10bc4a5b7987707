------------------------- MODULE PluginSession_proofs -------------------------
(***************************************************************************)
(* Proofs about module PluginSession, for any parameters and numbers of    *)
(* edits and saves.  The bridge with its plugin is the bridge of module    *)
(* BridgeLife, so what is proved there holds here.                         *)
(***************************************************************************)
EXTENDS PluginSession, BridgeLife_proofs

\* A step of the plugin's module is a step of the bridge, or changes nothing
\* of it (an edit, and the moment when process takes the changes).
LEMMA StepRefines ==
  ASSUME [PNext]_allVars
  PROVE  [Next]_vars
<1> USE DEF Next, Main, Handler, Proc, Save
<1>1. CASE PMain
  <2>1. CASE LoadState
    BY <2>1 DEF LoadState, Restore
  <2>2. CASE PSave("main")
    BY <2>2 DEF PSave, Snapshot, StateWritten, Files
  <2>3. CASE ShowUI
    BY <2>3 DEF ShowUI
  <2> QED
    BY <1>1, <2>1, <2>2, <2>3 DEF PMain
<1>2. CASE PHandler
  <2>1. CASE PSave("handler")
    BY <2>1 DEF PSave, Snapshot, StateWritten, Files
  <2> QED
    BY <1>2, <2>1 DEF PHandler
<1>3. CASE PProc
  BY <1>3 DEF PProc, Take, Process, NoBlock
<1>4. ASSUME NEW s \in Helpers, PStream(s) PROVE [Next]_vars
  BY <1>4 DEF PStream
<1>5. ASSUME NEW p \in Params, Edit(p) PROVE [Next]_vars
  BY <1>5 DEF Edit
<1>6. CASE UserCloses
  BY <1>6 DEF UserCloses
<1>7. CASE Autosave /\ UNCHANGED plugin
  BY <1>7
<1>8. ASSUME NEW type \in {"c", "close"}, Ctrl(type), UNCHANGED plugin PROVE [Next]_vars
  BY <1>8
<1>9. CASE Crash /\ UNCHANGED plugin
  BY <1>9
<1>10. ASSUME NEW s \in Trackers, TrackerCaught(s) PROVE [Next]_vars
  BY <1>10
<1>11. CASE UNCHANGED allVars
  BY <1>11 DEF allVars
<1> QED
  BY <1>1, <1>2, <1>3, <1>4, <1>5, <1>6, <1>7, <1>8, <1>9, <1>10, <1>11 DEF PNext

\* The bridge with its plugin implements the bridge (VSTHost changes nothing of
\* the threads, the view or the flag).
THEOREM PluginRefinesLife == PSpec => Spec
<1>1. PInit => Init
  BY DEF PInit
<1>2. [PNext]_allVars => [Next]_vars
  BY StepRefines
<1> QED
  BY <1>1, <1>2, PTL DEF PSpec, Spec

\* The queue, the batch and the component are empty and at their defaults.
LEMMA InitEdits ==
  ASSUME PInit
  PROVE  EditInv
<1> USE PluginAssumption
    DEF PInit, Values, Changes, Nothing, AllAt, NoChange, Default, Over
<1>1. PluginTypeOK
  <2>1. shown \in [Params -> Values] /\ comp \in [Params -> Values]
    OBVIOUS
  <2>2. pending \in Changes /\ batch \in Changes
    OBVIOUS
  <2>3. shot \in [Enders -> [Params -> Values]] /\ content \in [Params -> Values]
    OBVIOUS
  <2>4. edits \in 0 .. MaxEdits /\ atClose \in [Params -> Values]
    OBVIOUS
  <2>5. accepts \in SUBSET Parts
    OBVIOUS
  <2>6. taken \in BOOLEAN
    OBVIOUS
  <2>7. hydrated \subseteq Params
    OBVIOUS
  <2> QED
    BY <2>1, <2>2, <2>3, <2>4, <2>5, <2>6, <2>7 DEF PluginTypeOK
<1>2. NoEditLost
  BY DEF NoEditLost, Arriving
<1>3. NumbersInOrder
  BY DEF NumbersInOrder, Arriving
<1>4. Unset
  BY DEF Unset
<1> QED
  BY <1>1, <1>2, <1>3, <1>4 DEF EditInv

\* Steps of the bridge's own leave the settings alone.
LEMMA QuietStep ==
  ASSUME EditInv, UNCHANGED plugin, Loaded => Loaded'
  PROVE  EditInv'
<1> USE DEF EditInv, plugin
<1>1. PluginTypeOK'
  BY DEF PluginTypeOK
<1>2. NoEditLost'
  BY DEF NoEditLost, Arriving, Over
<1>3. NumbersInOrder'
  BY DEF NumbersInOrder, Arriving, Over
<1>4. Unset'
  BY DEF Unset
<1> QED
  BY <1>1, <1>2, <1>3, <1>4

\* loadState.
LEMMA LoadKeeps ==
  ASSUME JoinInv, EditInv, LoadState
  PROVE  EditInv'
<1> USE PluginAssumption
    DEF EditInv, LoadState, Restore, Load, At, Goto, Values, Changes, Nothing, AllAt,
        NoChange, Default, Saved, settings, states, Over
<1>1. ~ Loaded /\ Loaded'
  BY DEF Loaded, JoinInv, TypeOK, Enders
<1>2. PluginTypeOK'
  BY DEF PluginTypeOK
<1>3. /\ batch' = Nothing
      /\ comp' = AllAt(IF "component" \in accepts THEN Saved ELSE Default)
      /\ shown' = AllAt(IF "controller" \in accepts THEN Saved ELSE Default)
      /\ pending' = IF "controller" \in accepts THEN AllAt(Saved) ELSE Nothing
      /\ shot' = shot /\ content' = content /\ edits' = edits
      /\ content = AllAt(Default) /\ shot = [t \in Enders |-> AllAt(Default)]
      /\ edits \in Nat
  BY <1>1 DEF PluginTypeOK, Unset
<1>4. Arriving' = AllAt(IF accepts = {} THEN Default ELSE Saved)
  BY <1>3 DEF PluginTypeOK, Arriving, Parts
<1>5. NoEditLost'
  <2>1. CASE "controller" \in accepts
    BY <1>3, <1>4, <2>1 DEF NoEditLost
  <2>2. CASE "controller" \notin accepts
    <3>1. accepts' = accepts /\ \A x \in accepts : x = "component"
      BY <2>2 DEF PluginTypeOK, Parts
    <3>2. accepts = {} \/ accepts = {"component"}
      BY <3>1
    <3> QED
      BY <1>3, <1>4, <2>2, <3>1, <3>2 DEF NoEditLost
  <2> QED
    BY <2>1, <2>2
<1>6. NumbersInOrder'
  BY <1>3, <1>4 DEF NumbersInOrder, PluginTypeOK, Parts
<1> QED
  BY <1>1, <1>2, <1>3, <1>5, <1>6 DEF Unset

\* performEdit: the new number is greater than all others.
LEMMA EditKeeps ==
  ASSUME JoinInv, EditInv, NEW p \in Params, Edit(p)
  PROVE  EditInv'
<1> USE PluginAssumption
    DEF EditInv, Edit, At, Values, Changes, Nothing, NoChange, vars, states, Over
<1>1. Loaded /\ UNCHANGED Loaded
  BY DEF Loaded
<1>2. PluginTypeOK'
  BY DEF PluginTypeOK
<1>3. NoEditLost'
  <2>1. Arriving'[p] = shown'[p]
    BY DEF PluginTypeOK, Arriving
  <2>2. ASSUME NEW q \in Params \ {p}
        PROVE  Arriving'[q] = Arriving[q] /\ shown'[q] = shown[q]
    BY DEF PluginTypeOK, Arriving
  <2> QED
    BY <2>1, <2>2 DEF NoEditLost
<1>4. NumbersInOrder'
  BY DEF PluginTypeOK, NumbersInOrder, NoEditLost, Arriving
<1> QED
  BY <1>1, <1>2, <1>3, <1>4 DEF Unset

\* process takes the changes under the lock: they are still on their way.
LEMMA TakeKeeps ==
  ASSUME JoinInv, EditInv, Take
  PROVE  EditInv'
<1> USE DEF EditInv, Take, Values, Changes, Nothing, NoChange, vars, states, Over
<1>1. Loaded /\ UNCHANGED Loaded
  BY DEF Loaded, JoinInv, TypeOK, ThreadOwned, Starting
<1>2. PluginTypeOK'
  BY DEF PluginTypeOK
<1>3. NoEditLost'
  BY DEF PluginTypeOK, NoEditLost, Arriving
<1>4. NumbersInOrder'
  BY DEF PluginTypeOK, NumbersInOrder, NoEditLost, Arriving
<1> QED
  BY <1>1, <1>2, <1>3, <1>4 DEF Unset

\* The component has them after the block.
LEMMA ProcessKeeps ==
  ASSUME JoinInv, EditInv, Process
  PROVE  EditInv'
<1> USE DEF EditInv, Process, ProcProcess, Touched, Values, Changes, Nothing,
            NoChange, vars, states, Over
<1>1. Loaded /\ UNCHANGED Loaded
  BY DEF Loaded, JoinInv, TypeOK, ThreadOwned, Starting
<1>2. PluginTypeOK'
  BY DEF PluginTypeOK
<1>3. NoEditLost'
  BY DEF PluginTypeOK, NoEditLost, Arriving
<1>4. NumbersInOrder'
  BY DEF PluginTypeOK, NumbersInOrder, NoEditLost, Arriving
<1> QED
  BY <1>1, <1>2, <1>3, <1>4 DEF Unset

\* What loadPlugin has set up stays set up: no step leads main back.
LEMMA StaysLoaded ==
  ASSUME JoinInv, [Next]_vars, Loaded
  PROVE  Loaded'
<1> USE DEF Loaded, JoinInv, TypeOK, Enders, Streams, Trackers, Helpers, Files, ShutdownPcs, LeavePcs, SavePcs,
            At, Goto
<1>1. CASE IpcInit \/ LoadFails \/ Load \/ Start \/ Track \/ Show \/ CloseWindow
  BY <1>1 DEF IpcInit, LoadFails, Load, Start, Track, Show, CloseWindow
<1>2. CASE StreamInit("capture", "keepAliveInit") \/ StreamInit("keepAlive", "load")
  BY <1>2 DEF StreamInit, InitOf
<1>3. CASE Autosave \/ Quit \/ Clear \/ MainReturns
  BY <1>3 DEF Autosave, Quit, Clear, MainReturns
<1>4. ASSUME NEW t \in Enders, SaveBegin(t) PROVE Loaded'
  BY <1>4 DEF SaveBegin, OpenOf, SaveDone, MainSaved
<1>5. ASSUME NEW t \in Enders, NEW f \in Files, SaveOpen(t, f) \/ SaveWrite(t, f)
      PROVE  Loaded'
  BY <1>5 DEF SaveOpen, SaveWrite, OpenOf, WriteOf, SaveDone, MainSaved
<1>6. ASSUME NEW t \in Enders, Halt(t) \/ Join(t) \/ Detach(t) PROVE Loaded'
  BY <1>6 DEF Halt, Join, Detach, StopOf
<1>7. ASSUME NEW t \in Enders, NEW s \in Helpers, StopStream(t, s) \/ JoinStream(t, s)
      PROVE  Loaded'
  BY <1>7 DEF StopStream, JoinStream, StopOf, JoinOf, AfterOf
<1>8. ASSUME NEW type \in {"c", "close"}, Ctrl(type) PROVE Loaded'
  BY <1>8 DEF Ctrl
<1>9. CASE Post \/ HandlerReturns \/ Crash
  BY <1>9 DEF Post, HandlerReturns, Crash
<1>10. CASE Proc
  BY <1>10 DEF Proc, ProcLook, ProcRead, ProcProcess, ProcWrite
<1>11. ASSUME NEW s \in Helpers, StreamEnds(s) \/ TrackerCaught(s) PROVE Loaded'
  BY <1>11 DEF StreamEnds, TrackerCaught
<1>12. CASE UNCHANGED vars
  BY <1>12 DEF vars
<1> QED
  BY <1>1, <1>2, <1>3, <1>4, <1>5, <1>6, <1>7, <1>8, <1>9, <1>10, <1>11, <1>12
     DEF Next, Main, Handler, Save, Shutdown, Leave

\* saveState, and the window's end.
LEMMA SaveKeeps ==
  ASSUME JoinInv, EditInv, NEW t \in Enders, Snapshot(t) \/ StateWritten(t)
  PROVE  EditInv'
<1> USE DEF EditInv, Snapshot, StateWritten, settings
<1>1. Loaded'
  <2>1. pc["main"] \in SavePcs \/ pc["handler"] \in SavePcs
    BY DEF SaveOpen, SaveWrite, OpenOf, WriteOf, At, Files, Enders, SavePcs
  <2>2. Loaded
    BY <2>1 DEF JoinInv, StartsAlone, Starting, SavePcs, Loaded, TypeOK
  <2>3. [Next]_vars
    BY DEF Next, Main, Handler, Save, Enders, Files
  <2> QED
    BY <2>2, <2>3, StaysLoaded
<1>2. PluginTypeOK'
  BY DEF PluginTypeOK
<1>3. NoEditLost'
  BY DEF NoEditLost, Arriving, Over
<1>4. NumbersInOrder'
  <2>1. \A p \in Params : comp[p] <= Arriving[p]
    BY DEF NumbersInOrder, PluginTypeOK, Values, Changes, Over, NoChange, Arriving
  <2>2. UNCHANGED <<comp, batch, pending, shown, edits>>
    OBVIOUS
  <2>3. \A p \in Params : content'[p] <= Arriving[p]
                          /\ \A u \in Enders : shot'[u][p] <= Arriving[p]
    BY <2>1 DEF PluginTypeOK, NumbersInOrder
  <2> QED
    BY <2>2, <2>3 DEF NumbersInOrder, Arriving, Over
<1> QED
  BY <1>1, <1>2, <1>3, <1>4 DEF Unset

\* The window closes, or does not come up.
LEMMA CloseKeeps ==
  ASSUME JoinInv, EditInv, UserCloses \/ ShowUI
  PROVE  EditInv'
<1> USE DEF EditInv, UserCloses, CloseWindow, ShowUI, Show, settings, states
<1>1. Loaded'
  BY DEF Loaded, At, Goto, JoinInv, TypeOK, Enders
<1>2. PluginTypeOK'
  BY DEF PluginTypeOK
<1>3. NoEditLost'
  BY DEF NoEditLost, Arriving, Over
<1>4. NumbersInOrder'
  BY DEF NumbersInOrder, Arriving, Over
<1> QED
  BY <1>1, <1>2, <1>3, <1>4 DEF Unset

\* Every step keeps what is said of the edits.
LEMMA EditStep ==
  ASSUME JoinInv, EditInv, [PNext]_allVars
  PROVE  EditInv'
<1>1. Loaded => Loaded'
  BY StepRefines, StaysLoaded
<1>2. CASE UNCHANGED plugin
  BY <1>1, <1>2, QuietStep
<1>3. CASE LoadState
  BY <1>3, LoadKeeps
<1>4. ASSUME NEW t \in Enders, Snapshot(t) \/ StateWritten(t) PROVE EditInv'
  BY <1>4, SaveKeeps
<1>5. CASE Take
  BY <1>5, TakeKeeps
<1>6. CASE Process
  BY <1>6, ProcessKeeps
<1>7. ASSUME NEW p \in Params, Edit(p) PROVE EditInv'
  BY <1>7, EditKeeps
<1>8. CASE UserCloses \/ ShowUI
  BY <1>8, CloseKeeps
<1> QED
  BY <1>2, <1>3, <1>4, <1>5, <1>6, <1>7, <1>8
     DEF PNext, PMain, PHandler, PProc, PStream, PSave, NoBlock, Enders, allVars

\* The bridge's steps that have no part of the plugin's.
BridgeOnly ==
  \/ IpcInit \/ StreamInit("capture", "keepAliveInit")
  \/ StreamInit("keepAlive", "load") \/ LoadFails \/ Start \/ Track
  \/ Autosave \/ Quit \/ Clear \/ Leave
  \/ \E t \in Enders : SaveBegin(t) \/ SaveOpen(t, "ctrl") \/ SaveWrite(t, "ctrl")
                       \/ Shutdown(t)
  \/ \E type \in {"c", "close"} : Ctrl(type)
  \/ Post \/ HandlerReturns \/ Crash \/ Proc
  \/ \E s \in Helpers : StreamEnds(s)
  \/ \E s \in Trackers : TrackerCaught(s)

\* The final save's progress, in those steps.
LEMMA FinalQuiet ==
  ASSUME Hazards = {}, LifeInv, FinalSave, BridgeOnly,
         UNCHANGED <<comp, shot, content, atClose>>
  PROVE  FinalSave'
<1> USE DEF FinalSave, LifeInv, JoinInv, TypeOK, StartsAlone, LetGo, EndersApart, MainEnds, Written,
            Enders, Streams, Trackers, Helpers, Files, Starting, ShutdownPcs, LeavePcs, SavePcs, At, Goto, Alive,
            session, streams, ui, disk
<1>1. CASE IpcInit
  BY <1>1 DEF IpcInit
<1>2. CASE StreamInit("capture", "keepAliveInit") \/ StreamInit("keepAlive", "load")
  BY <1>2 DEF StreamInit, InitOf
<1>3. CASE LoadFails \/ Start \/ Track
  BY <1>3 DEF LoadFails, Start, Track
<1>4. CASE Autosave \/ Quit
  BY <1>4 DEF Autosave, Quit
<1>5. CASE Clear \/ MainReturns
  BY <1>5 DEF Clear, MainReturns
<1>6. ASSUME NEW t \in Enders, SaveBegin(t) PROVE FinalSave'
  BY <1>6 DEF SaveBegin, OpenOf, SaveDone, MainSaved, Loaded
<1>7. ASSUME NEW t \in Enders, SaveOpen(t, "ctrl") PROVE FinalSave'
  BY <1>7 DEF SaveOpen, OpenOf, WriteOf
<1>8. ASSUME NEW t \in Enders, SaveWrite(t, "ctrl") PROVE FinalSave'
  BY <1>8 DEF SaveWrite, OpenOf, WriteOf, SaveDone, MainSaved
<1>9. ASSUME NEW t \in Enders, Halt(t) \/ Join(t) \/ Detach(t) PROVE FinalSave'
  BY <1>9 DEF Halt, Join, Detach, StopOf
<1>10. ASSUME NEW t \in Enders, NEW s \in Helpers, StopStream(t, s) \/ JoinStream(t, s)
       PROVE  FinalSave'
  BY <1>10 DEF StopStream, JoinStream, StopOf, JoinOf, AfterOf
<1>11. ASSUME NEW type \in {"c", "close"}, Ctrl(type) PROVE FinalSave'
  BY <1>11 DEF Ctrl
<1>12. CASE Post \/ HandlerReturns \/ Crash
  BY <1>12 DEF Post, HandlerReturns, Crash
<1>13. CASE Proc
  BY <1>13 DEF Proc, ProcLook, ProcRead, ProcProcess, ProcWrite
<1>14. ASSUME NEW s \in Helpers, StreamEnds(s) \/ TrackerCaught(s) PROVE FinalSave'
  BY <1>14 DEF StreamEnds, TrackerCaught
<1> QED
  BY <1>1, <1>2, <1>3, <1>4, <1>5, <1>6, <1>7, <1>8, <1>9, <1>10, <1>11, <1>12,
     <1>13, <1>14
     DEF BridgeOnly, Shutdown, Leave, Helpers, Enders

\* The final save's progress, in the steps that save or change the settings.
LEMMA FinalBusy ==
  ASSUME Hazards = {}, LifeInv, EditInv, FinalSave,
         \/ \E t \in Enders : Snapshot(t) \/ StateWritten(t)
         \/ LoadState \/ ShowUI \/ UserCloses \/ Take \/ Process
         \/ \E p \in Params : Edit(p)
  PROVE  FinalSave'
<1> USE DEF FinalSave, LifeInv, JoinInv, TypeOK, StartsAlone, LetGo, EndersApart, MainEnds, Written,
            Enders, Streams, Trackers, Helpers, Files, Starting, ShutdownPcs, LeavePcs, SavePcs, At, Goto, Alive,
            session, streams, ui, disk, states, settings, vars
<1>1. ASSUME NEW t \in Enders, Snapshot(t) PROVE FinalSave'
  BY <1>1 DEF Snapshot, SaveOpen, OpenOf, WriteOf, EditInv, PluginTypeOK
<1>2. ASSUME NEW t \in Enders, StateWritten(t) PROVE FinalSave'
  BY <1>2 DEF StateWritten, SaveWrite, OpenOf, WriteOf
<1>3. CASE LoadState
  BY <1>3 DEF LoadState, Restore, Load
<1>4. CASE UserCloses \/ ShowUI
  <2>1. \A p \in Params : comp[p] <= comp[p]
    BY DEF EditInv, PluginTypeOK, Values
  <2>2. CASE UserCloses
    BY <2>1, <2>2 DEF UserCloses, CloseWindow
  <2>3. CASE ShowUI
    BY <2>1, <2>3 DEF ShowUI, Show
  <2> QED
    BY <1>4, <2>2, <2>3
<1>5. CASE Take
  BY <1>5 DEF Take
<1>6. CASE Process
  <2>1. \A p \in Params : comp[p] <= comp'[p]
    BY <1>6 DEF Process, EditInv, NumbersInOrder
  <2>2. quit => \A p \in Params : atClose[p] <= comp'[p]
    BY <2>1, PluginAssumption, <1>6
       DEF EditInv, PluginTypeOK, Values, Changes, Process, Over, NoChange
  <2> QED
    BY <1>6, <2>2 DEF Process, ProcProcess
<1>7. ASSUME NEW p \in Params, Edit(p) PROVE FinalSave'
  BY <1>7 DEF Edit
<1> QED
  BY <1>1, <1>2, <1>3, <1>4, <1>5, <1>6, <1>7

\* Every step keeps what is said of the final save.
LEMMA FinalStep ==
  ASSUME Hazards = {}, LifeInv, EditInv, FinalSave, [PNext]_allVars
  PROVE  FinalSave'
<1>1. CASE \/ \E t \in Enders : Snapshot(t) \/ StateWritten(t)
           \/ LoadState \/ ShowUI \/ UserCloses \/ Take \/ Process
           \/ \E p \in Params : Edit(p)
  BY <1>1, FinalBusy
<1>2. CASE UNCHANGED allVars
  BY <1>2 DEF allVars, vars, plugin, FinalSave
<1>3. CASE BridgeOnly /\ UNCHANGED plugin
  BY <1>3, FinalQuiet DEF plugin
<1> QED
  BY <1>1, <1>2, <1>3
     DEF PNext, PMain, PHandler, PProc, PStream, PSave, NoBlock, Proc, BridgeOnly,
         Enders

\* The settings go right as long as the console is not closed while main starts.
LEMMA EditInvariant ==
  ASSUME "earlyCtrl" \notin Hazards
  PROVE  PSpec => [](JoinInv /\ EditInv)
<1>1. PInit => JoinInv /\ EditInv
  <2>1. PInit => JoinInv
    BY InitLife DEF PInit, LifeInv
  <2> QED
    BY <2>1, InitEdits
<1>2. JoinInv /\ [PNext]_allVars => JoinInv'
  BY StepRefines, OwnedStep, ServedStep DEF JoinInv, Owned
<1>3. JoinInv /\ EditInv /\ [PNext]_allVars => (JoinInv /\ EditInv)'
  BY <1>2, EditStep
<1> QED
  BY <1>1, <1>3, PTL DEF PSpec

\* Every variable of both modules keeps to its invariant.
LEMMA PluginInvariant ==
  ASSUME Hazards = {}
  PROVE  PSpec => []PluginInv
<1>1. PInit => PluginInv
  <2> SUFFICES ASSUME PInit PROVE LifeInv /\ EditInv /\ FinalSave
    BY DEF PluginInv
  <2>1. LifeInv
    BY InitLife DEF PInit
  <2>2. FinalSave
    BY DEF FinalSave, PInit, Init, SavePcs, Enders
  <2> QED
    BY <2>1, <2>2, InitEdits
<1>2. PluginInv /\ [PNext]_allVars => PluginInv'
  BY StepRefines, LifeStep, EditStep, FinalStep DEF PluginInv, LifeInv
<1> QED
  BY <1>1, <1>2, PTL DEF PSpec

\* PluginInv, for any parameters and numbers of edits and saves.
THEOREM PluginCorrect ==
  ASSUME Hazards = {}
  PROVE  PSpec => []PluginInv
BY PluginInvariant, PTL

\* Every edit reaches the component or is on its way there (performEdit, process),
\* also when window and console are closed at once.
THEOREM EditsArrive ==
  ASSUME "earlyCtrl" \notin Hazards
  PROVE  PSpec => []NoEditLost
<1>1. EditInv => NoEditLost
  BY DEF EditInv
<1> QED
  BY <1>1, EditInvariant, PTL

\* A session that ends by its window leaves two complete files with every edit
\* that the component had when it was closed.
THEOREM WindowEndSaved ==
  ASSUME Hazards = {}
  PROVE  PSpec => []WindowEndKeepsEdits
<1>1. PluginInv => WindowEndKeepsEdits
  BY DEF PluginInv, EditInv, NumbersInOrder, FinalSave, WindowEndKeepsEdits,
         Written, ShutdownPcs, LeavePcs, Files
<1> QED
  BY <1>1, PluginInvariant, PTL

=============================================================================
