---------------------------- MODULE PluginSession ----------------------------
(***************************************************************************)
(* The plugin's settings during a life of the bridge (module BridgeLife):  *)
(* loadState restores them before the component is activated, the user     *)
(* edits them in the window, performEdit queues each edit, the processing  *)
(* thread hands the queue to the component with the next block, and        *)
(* saveState takes what the component has.                                 *)
(*                                                                         *)
(* Every step of BridgeLife is a step here, with its effect on the         *)
(* settings.  A parameter's value is the number of the edit that set it:   *)
(* Default, then Saved if state.bin was read, then 2, 3, ...  The queue    *)
(* and the batch keep a parameter's last change only, as ParameterChanges  *)
(* does for changes at the same sample.  The plugin itself, and the        *)
(* contents of state.bin.ctrl, are outside of this repository.             *)
(***************************************************************************)
EXTENDS BridgeLife

CONSTANTS
  Params,   \* the plugin's parameters
  MaxEdits  \* bound: edits of one session

ASSUME PluginAssumption == MaxEdits \in Nat

NoChange == -1
Default  == 0
Saved    == 1
Parts    == {"component", "controller"}
Values   == 0 .. MaxEdits + 1
Changes  == [Params -> Values \cup {NoChange}]
Nothing  == [p \in Params |-> NoChange]
AllAt(v) == [p \in Params |-> v]

VARIABLES
  accepts,  \* the parts of the plugin that accept an earlier session's state.bin
  shown,    \* the controller's parameters, what the window shows
  pending,  \* pendingParamChanges, under paramMutex
  batch,    \* inputParamChanges of the call of process that is under way
  taken,    \* a block was read and process has taken the pending changes
  comp,     \* the component's parameters
  hydrated, \* parameters that the processor has been told through process
  shot,     \* [Enders -> ...]  what the component answered to getState
  content,  \* what is in state.bin while it is "new"
  edits,    \* edits so far
  atClose   \* history: comp when the window was closed

settings == <<shown, pending, batch, taken, comp, hydrated>>
states   == <<shot, content>>
plugin   == <<accepts, shown, pending, batch, taken, comp, hydrated, shot,
              content, edits, atClose>>
allVars  == <<vars, plugin>>

Over(new, old) == [p \in Params |-> IF new[p] # NoChange THEN new[p] ELSE old[p]]
Touched(c)     == {p \in Params : c[p] # NoChange}

PInit ==
  /\ Init
  /\ accepts \in SUBSET Parts
  /\ shown = AllAt(Default) /\ comp = AllAt(Default) /\ hydrated = {}
  /\ pending = Nothing /\ batch = Nothing /\ taken = FALSE
  /\ shot = [t \in Enders |-> AllAt(Default)] /\ content = AllAt(Default)
  /\ edits = 0 /\ atClose = AllAt(Default)

-----------------------------------------------------------------------------
(* The main thread *)

\* setState of the component, setComponentState of the controller.
Restore ==
  /\ Load
  /\ comp' = IF "component" \in accepts THEN AllAt(Saved) ELSE comp
  /\ shown' = IF "controller" \in accepts THEN AllAt(Saved) ELSE shown
  /\ UNCHANGED <<accepts, batch, taken, hydrated, states, edits, atClose>>

\* Mutant: the parameters are not pushed after setComponentState.
LoadUnhydrated == Restore /\ UNCHANGED pending

\* loadState: the component and the controller take the file, each for itself, and
\* every parameter that a controller which took it then has goes to the component
\* through process.  A file that is missing is taken by neither.
LoadState ==
  /\ Restore
  /\ pending' = IF "controller" \in accepts THEN AllAt(Saved) ELSE pending

\* The user turns a knob in the window: the controller shows it and calls
\* performEdit.
Edit(p) ==
  /\ At("main", "loop") /\ window /\ edits < MaxEdits
  /\ edits' = edits + 1
  /\ shown' = [shown EXCEPT ![p] = edits + 2]
  /\ pending' = [pending EXCEPT ![p] = edits + 2]
  /\ UNCHANGED <<vars, accepts, batch, taken, comp, hydrated, states, atClose>>

\* A window that is not attached to the plugin is gone at once.
ShowUI ==
  /\ Show
  /\ atClose' = IF quit' THEN comp ELSE atClose
  /\ UNCHANGED <<accepts, settings, states, edits>>

UserCloses ==
  /\ CloseWindow
  /\ atClose' = comp
  /\ UNCHANGED <<accepts, settings, states, edits>>

-----------------------------------------------------------------------------
(* saveState, by either thread *)

\* getState, then the file is opened and cut.
Snapshot(t) ==
  /\ SaveOpen(t, "state")
  /\ shot' = [shot EXCEPT ![t] = comp]
  /\ UNCHANGED <<accepts, settings, content, edits, atClose>>

StateWritten(t) ==
  /\ SaveWrite(t, "state")
  /\ content' = shot[t]
  /\ UNCHANGED <<accepts, settings, shot, edits, atClose>>

PSave(t) ==
  \/ (SaveBegin(t) \/ SaveOpen(t, "ctrl") \/ SaveWrite(t, "ctrl"))
     /\ UNCHANGED plugin
  \/ Snapshot(t) \/ StateWritten(t)

-----------------------------------------------------------------------------
(* VSTHost::process, by the processing thread *)

\* A block was read: the queue is copied and emptied under the lock.
Take ==
  /\ Alive /\ proc = "reading" /\ ~ taken
  /\ taken' = TRUE
  /\ batch' = pending
  /\ pending' = Nothing
  /\ UNCHANGED <<vars, accepts, shown, comp, hydrated, states, edits, atClose>>

\* Mutant: the queue is emptied once the block has been processed.
ProcessClears ==
  /\ ProcProcess /\ taken
  /\ view => proc' = "writing"
  /\ comp' = Over(batch, comp)
  /\ hydrated' = hydrated \cup Touched(batch)
  /\ batch' = Nothing /\ taken' = FALSE
  /\ pending' = Nothing
  /\ UNCHANGED <<accepts, shown, states, edits, atClose>>

\* processor->process with the batch.
Process ==
  /\ ProcProcess /\ taken
  /\ view => proc' = "writing"
  /\ comp' = Over(batch, comp)
  /\ hydrated' = hydrated \cup Touched(batch)
  /\ batch' = Nothing /\ taken' = FALSE
  /\ UNCHANGED <<accepts, shown, pending, states, edits, atClose>>

\* There was no block to process.
NoBlock == ProcProcess /\ proc' = "wait" /\ ~ taken /\ UNCHANGED plugin

-----------------------------------------------------------------------------

PMain ==
  \/ (\/ IpcInit \/ StreamInit("capture", "keepAliveInit")
      \/ StreamInit("keepAlive", "load") \/ LoadFails \/ Start \/ Track
      \/ Quit \/ Clear \/ Shutdown("main") \/ Leave)
     /\ UNCHANGED plugin
  \/ LoadState \/ ShowUI \/ PSave("main")

PHandler ==
  \/ (Shutdown("handler") \/ Post \/ HandlerReturns) /\ UNCHANGED plugin
  \/ PSave("handler")

PProc ==
  \/ (ProcLook \/ ProcRead \/ ProcWrite) /\ UNCHANGED plugin
  \/ Take \/ Process \/ NoBlock

PStream(s) == StreamEnds(s) /\ UNCHANGED plugin

PNext ==
  \/ PMain \/ PHandler \/ PProc
  \/ \E s \in Helpers : PStream(s)
  \/ \E s \in Trackers : TrackerCaught(s) /\ UNCHANGED plugin
  \/ \E p \in Params : Edit(p)
  \/ UserCloses
  \/ Autosave /\ UNCHANGED plugin
  \/ \E type \in {"c", "close"} : Ctrl(type) /\ UNCHANGED plugin
  \/ Crash /\ UNCHANGED plugin

PSpec == PInit /\ [][PNext]_allVars

\* No thread is starved; nobody has to close or edit anything.
PFairSpec ==
  /\ PSpec
  /\ WF_allVars(PMain) /\ WF_allVars(PHandler) /\ WF_allVars(PProc)
  /\ \A s \in Helpers : WF_allVars(PStream(s))

-----------------------------------------------------------------------------
(* Properties *)

\* Every variable of the plugin's side keeps to its type.
PluginTypeOK ==
  /\ accepts \in SUBSET Parts /\ taken \in BOOLEAN
  /\ shown \in [Params -> Values] /\ comp \in [Params -> Values]
  /\ pending \in Changes /\ batch \in Changes
  /\ hydrated \subseteq Params
  /\ shot \in [Enders -> [Params -> Values]] /\ content \in [Params -> Values]
  /\ edits \in 0 .. MaxEdits /\ atClose \in [Params -> Values]

\* What the component will have once all that is on its way has arrived.
Arriving == Over(pending, Over(batch, comp))

\* No edit is lost or overtaken between the window and the component, wherever
\* the processing thread is when it is made (performEdit, process), and no restored
\* value; only a parameter that the component restored and the controller did not,
\* and that was not edited since, is not what the window shows.
NoEditLost ==
  \A p \in Params : Arriving[p] # shown[p] =>
    accepts = {"component"} /\ Arriving[p] = Saved /\ shown[p] = Default

\* What the user hears: a restored value is heard once process was told of it.
Heard == [p \in Params |-> IF p \in hydrated THEN comp[p] ELSE Default]

\* VSTHost.cpp: "Neumann RIME requires this explicit hydration via process()":
\* if blocks go on being processed, the user hears what the window shows.
HeardAsShown == []<><<Process>>_allVars => <>[](Heard = shown)

\* A session that ends by its window leaves two complete files, with every edit
\* that the component had when the window was closed, also if the console
\* handler saved before (main's final save comes last), and also if main then
\* waits for a tracking thread for ever.
WindowEndKeepsEdits ==
  quit /\ (process = "returned" \/ pc["main"] \in LeavePcs) =>
    /\ \A f \in Files : file[f] = "new"
    /\ \A p \in Params : atClose[p] <= content[p] /\ content[p] <= Arriving[p]

-----------------------------------------------------------------------------
(* Inductive invariants: the edits', and for enders that do not overlap the *)
(* final save's                                                             *)

\* A later edit has a greater number, from the component to the window.
NumbersInOrder ==
  \A p \in Params :
    /\ comp[p] <= Over(batch, comp)[p]
    /\ Over(batch, comp)[p] <= Arriving[p]
    /\ Arriving[p] <= edits + 1 /\ shown[p] <= edits + 1
    /\ content[p] <= Arriving[p] /\ \A t \in Enders : shot[t][p] <= Arriving[p]

\* What main's final save has done so far.
Written == {"ctrlOpen", "ctrlWrite", "clear"} \cup ShutdownPcs \cup LeavePcs
FinalSave ==
  /\ pc["main"] \in {"loop", "clear"} \cup SavePcs => engineSet
  /\ process = "returned" => pc["main"] = "return"
  /\ quit =>
       /\ \A p \in Params : atClose[p] <= comp[p]
       /\ pc["main"] = "stateWrite" => \A p \in Params : atClose[p] <= shot["main"][p]
       /\ pc["main"] \in Written => \A p \in Params : atClose[p] <= content[p]
       /\ pc["main"] \in Written => file["state"] = "new"
       /\ pc["main"] \in Written \ {"ctrlOpen", "ctrlWrite"} => file["ctrl"] = "new"
       /\ pc["main"] \notin Starting

\* Before loadPlugin nothing is set, saved or on its way.
Unset ==
  ~ Loaded =>
    /\ ~ taken /\ pending = Nothing
    /\ shown = AllAt(Default) /\ comp = AllAt(Default)
    /\ content = AllAt(Default) /\ shot = [t \in Enders |-> AllAt(Default)]

EditInv ==
  /\ PluginTypeOK
  /\ Unset
  /\ ~ taken => batch = Nothing
  /\ NoEditLost
  /\ NumbersInOrder

PluginInv == LifeInv /\ EditInv /\ FinalSave

-----------------------------------------------------------------------------
(* Where two savers meet *)

\* When the console is closed the handler saves what the component has.  It does
\* not hold if main is in the middle of an autosave, which it ends afterwards.
ConsoleCloseKeepsEdits ==
  process = "closed" => \A p \in Params : comp[p] <= content[p]

=============================================================================
