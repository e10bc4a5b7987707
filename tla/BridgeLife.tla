----------------------------- MODULE BridgeLife -----------------------------
(***************************************************************************)
(* The life of rime_bridge.exe: what its main thread brings up, the        *)
(* processing thread, the two device streams' threads, the two threads of  *)
(* the head tracking, the console control handler's thread, and how the    *)
(* main thread or the handler takes it all down again: the threads are     *)
(* joined before the view of the IPC block is unmapped, hostIsRunning is   *)
(* lowered, and the plugin's state is saved.                               *)
(*                                                                         *)
(* Two threads can end the engine, the main thread after WM_QUIT and the   *)
(* handler's; both run AudioEngine::shutdown and saveState.  The plugin's  *)
(* contents and the audio are left out; a state file is the settings of    *)
(* the last session, of this one, or cut short.                            *)
(***************************************************************************)
EXTENDS Integers

CONSTANTS
  MaxSaves,  \* bound: autosaves of one session
  Hazards    \* what the two enders may do, see below

Hazard == {"earlyCtrl",   \* Ctrl+C or console close while main initialises
           "bothEnders"}  \* the window and the console are closed at once

ASSUME LifeAssumption == MaxSaves \in Nat /\ Hazards \subseteq Hazard

Enders  == {"main", "handler"}
Streams == {"capture", "keepAlive"}  \* WASAPICapture, WASAPIKeepAlive
Trackers == {"solar", "osc"}         \* SolarXrClient, OscProxy
Helpers == Streams \cup Trackers
Files   == {"state", "ctrl"}         \* state.bin and state.bin.ctrl

VARIABLES
  process,   \* "alive", or how the process ended
  pc,        \* [Enders -> ...]   where the two threads are
  ctrlType,  \* the event the handler was called for
  engineSet, \* g_engine # nullptr
  quit,      \* WM_QUIT is in the main thread's queue
  window,    \* the plugin's window is open
  view,      \* sharedMem # nullptr
  flag,      \* hostIsRunning in the block
  running,   \* AudioEngine::running
  proc,      \* the processing thread
  joinable,  \* processingThread.joinable()
  on,        \* the helpers whose isRunning, m_running is set
  thread,    \* [Helpers -> ...]       the helper's thread
  file,      \* [Files -> ...]         the state on the disk
  saves      \* autosaves so far

session == <<view, flag, running, proc, joinable>>
streams == <<on, thread>>
ui      == <<quit, window>>
disk    == <<file, saves>>
vars    == <<process, pc, ctrlType, engineSet, quit, window, view, flag,
             running, proc, joinable, on, thread, file, saves>>

Alive == process = "alive"

\* The steps about a helper or a file.
InitOf  == [capture |-> "captureInit", keepAlive |-> "keepAliveInit"]
StopOf  == [capture |-> "captureStop", keepAlive |-> "keepAliveStop",
            solar |-> "solarStop", osc |-> "oscStop"]
JoinOf  == [capture |-> "captureJoin", keepAlive |-> "keepAliveJoin",
            solar |-> "solarJoin", osc |-> "oscJoin"]
AfterOf == [capture |-> "keepAliveStop", keepAlive |-> "detach",
            solar |-> "oscStop", osc |-> "return"]
OpenOf  == [state |-> "stateOpen", ctrl |-> "ctrlOpen"]
WriteOf == [state |-> "stateWrite", ctrl |-> "ctrlWrite"]

\* Where main is before its message loop, both are in the shared handlers, and
\* main is once it has shut down the engine.
Starting == {"ipc", "captureInit", "keepAliveInit", "load", "start", "track", "show"}
ShutdownPcs == {"halt", "join", "captureStop", "captureJoin", "keepAliveStop",
                "keepAliveJoin", "detach"}
AfterJoin == ShutdownPcs \ {"halt", "join"}
SavePcs == {"save", "stateOpen", "stateWrite", "ctrlOpen", "ctrlWrite"}
LeavePcs == {"solarStop", "solarJoin", "oscStop", "oscJoin", "return"}

Init ==
  /\ process = "alive"
  /\ pc = [t \in Enders |-> IF t = "main" THEN "ipc" ELSE "none"]
  /\ ctrlType = "none"
  /\ engineSet = TRUE
  /\ quit = FALSE /\ window = FALSE
  /\ view = FALSE /\ flag = FALSE /\ running = FALSE
  /\ proc = "none" /\ joinable = FALSE
  /\ on = {}
  /\ thread = [s \in Helpers |-> "none"]
  /\ file = [f \in Files |-> "old"]
  /\ saves = 0

\* Where the handler is once it has detached.
AfterDetach == SavePcs \cup {"post", "sleep", "done"}

At(t, p)   == Alive /\ pc[t] = p
Goto(t, p) == pc' = [pc EXCEPT ![t] = p]

-----------------------------------------------------------------------------
(* The main thread: initialize, start, showUI *)

\* IpcAudioClient::initialize, or its failure; then nothing was mapped.
IpcInit ==
  /\ At("main", "ipc")
  /\ \/ view' = TRUE /\ flag' = TRUE /\ Goto("main", "captureInit")
     \/ UNCHANGED <<view, flag>> /\ Goto("main", "halt")
  /\ UNCHANGED <<process, ctrlType, engineSet, ui, running, proc, joinable,
                 streams, disk>>

\* A stream is initialised and started, or reset when that fails or it is not
\* configured: the engine goes on without it.
StreamInit(s, next) ==
  /\ At("main", InitOf[s])
  /\ \/ on' = on \cup {s} /\ thread' = [thread EXCEPT ![s] = "on"]
     \/ UNCHANGED streams
  /\ Goto("main", next)
  /\ UNCHANGED <<process, ctrlType, engineSet, ui, session, disk>>

\* Mutant: a plugin that cannot be loaded leaves main without ~AudioEngine.
LoadFailsBare ==
  /\ At("main", "load")
  /\ process' = "returned"
  /\ UNCHANGED <<pc, ctrlType, engineSet, ui, session, streams, disk>>

\* loadPlugin fails: main returns 1 and ~AudioEngine shuts down.
LoadFails ==
  /\ At("main", "load")
  /\ Goto("main", "halt")
  /\ UNCHANGED <<process, ctrlType, engineSet, ui, session, streams, disk>>

Load ==
  /\ At("main", "load")
  /\ Goto("main", "start")
  /\ UNCHANGED <<process, ctrlType, engineSet, ui, session, streams, disk>>

\* Mutant: the thread is started before running is set, and ends at once.
StartForgets ==
  /\ At("main", "start")
  /\ proc' = "wait" /\ joinable' = TRUE
  /\ Goto("main", "track")
  /\ UNCHANGED <<process, ctrlType, engineSet, ui, view, flag, running, streams,
                 disk>>

\* AudioEngine::start.
Start ==
  /\ At("main", "start")
  /\ running' = TRUE
  /\ proc' = "wait" /\ joinable' = TRUE
  /\ Goto("main", "track")
  /\ UNCHANGED <<process, ctrlType, engineSet, ui, view, flag, streams, disk>>

\* OscProxy::start, which may fail, and SolarXrClient::start, which does not.
Track ==
  /\ At("main", "track")
  /\ \E K \in {Trackers, {"solar"}} :
       /\ on' = on \cup K
       /\ thread' = [s \in Helpers |-> IF s \in K THEN "on" ELSE thread[s]]
  /\ Goto("main", "show")
  /\ UNCHANGED <<process, ctrlType, engineSet, ui, session, disk>>

\* showUI; main enters its message loop also if it fails.  A view that is not for
\* a window of this kind has its new window destroyed, which posts WM_QUIT.
Show ==
  /\ At("main", "show")
  /\ \/ window' = TRUE /\ UNCHANGED quit
     \/ quit' \in BOOLEAN /\ UNCHANGED window
  /\ Goto("main", "loop")
  /\ UNCHANGED <<process, ctrlType, engineSet, session, streams, disk>>

-----------------------------------------------------------------------------
(* The message loop *)

\* The user closes the window: WM_CLOSE, WM_DESTROY, PostQuitMessage on the
\* thread that owns the queue.
CloseWindow ==
  /\ At("main", "loop") /\ window
  /\ "bothEnders" \in Hazards \/ pc["handler"] \in {"none", "done"}
  /\ window' = FALSE
  /\ quit' = TRUE
  /\ UNCHANGED <<process, pc, ctrlType, engineSet, session, streams, disk>>

\* The timer's message: SaveStateIfPossible.
Autosave ==
  /\ At("main", "loop") /\ ~ quit /\ saves < MaxSaves
  /\ saves' = saves + 1
  /\ Goto("main", "save")
  /\ UNCHANGED <<process, ctrlType, engineSet, ui, session, streams, file>>

\* Mutant: the final save is left out, as if g_engine were cleared before it.
QuitUnsaved ==
  /\ At("main", "loop") /\ quit
  /\ Goto("main", "clear")
  /\ UNCHANGED <<process, ctrlType, engineSet, ui, session, streams, disk>>

\* GetMessageW returns 0: the final save.
Quit ==
  /\ At("main", "loop") /\ quit
  /\ Goto("main", "save")
  /\ UNCHANGED <<process, ctrlType, engineSet, ui, session, streams, disk>>

\* g_engine = nullptr, then shutdown.
Clear ==
  /\ At("main", "clear")
  /\ engineSet' = FALSE
  /\ Goto("main", "halt")
  /\ UNCHANGED <<process, ctrlType, ui, session, streams, disk>>

\* main has returned; every other thread ends with the process.
MainReturns ==
  /\ At("main", "return")
  /\ process' = "returned"
  /\ UNCHANGED <<pc, ctrlType, engineSet, ui, session, streams, disk>>

-----------------------------------------------------------------------------
(* SaveStateIfPossible, by either thread *)

\* Main goes back to its loop, or on to its end.
MainSaved == IF quit THEN "clear" ELSE "loop"

SaveDone(t) == IF t = "handler" THEN "post" ELSE MainSaved

\* VSTHost's component is there: main is past loadPlugin.
Loaded == pc["main"] \notin {"ipc", "captureInit", "keepAliveInit", "load"}

\* The checks of g_engine and of the component.
SaveBegin(t) ==
  /\ At(t, "save")
  /\ Goto(t, IF engineSet /\ Loaded THEN OpenOf["state"] ELSE SaveDone(t))
  /\ UNCHANGED <<process, ctrlType, engineSet, ui, session, streams, disk>>

\* std::ofstream(path): an existing file is cut to nothing.
SaveOpen(t, f) ==
  /\ At(t, OpenOf[f])
  /\ file' = [file EXCEPT ![f] = "cut"]
  /\ Goto(t, WriteOf[f])
  /\ UNCHANGED <<process, ctrlType, engineSet, ui, session, streams, saves>>

\* write and close.
SaveWrite(t, f) ==
  /\ At(t, WriteOf[f])
  /\ file' = [file EXCEPT ![f] = "new"]
  /\ Goto(t, IF f = "state" THEN OpenOf["ctrl"] ELSE SaveDone(t))
  /\ UNCHANGED <<process, ctrlType, engineSet, ui, session, streams, saves>>

Save(t) == SaveBegin(t) \/ \E f \in Files : SaveOpen(t, f) \/ SaveWrite(t, f)

-----------------------------------------------------------------------------
(* AudioEngine::shutdown, by either thread *)

\* Mutant: running stays set, and the thread is waited for in vain.
HaltForgets(t) ==
  /\ At(t, "halt")
  /\ Goto(t, "join")
  /\ UNCHANGED <<process, ctrlType, engineSet, ui, session, streams, disk>>

Halt(t) ==
  /\ At(t, "halt")
  /\ running' = FALSE
  /\ Goto(t, "join")
  /\ UNCHANGED <<process, ctrlType, engineSet, ui, view, flag, proc, joinable,
                 streams, disk>>

\* Mutant: the processing thread is left to itself.
JoinNever(t) ==
  /\ At(t, "join")
  /\ joinable' = FALSE
  /\ Goto(t, "captureStop")
  /\ UNCHANGED <<process, ctrlType, engineSet, ui, view, flag, running, proc,
                 streams, disk>>

Join(t) ==
  /\ At(t, "join")
  /\ joinable => proc = "ended"
  /\ joinable' = FALSE
  /\ Goto(t, "captureStop")
  /\ UNCHANGED <<process, ctrlType, engineSet, ui, view, flag, running, proc,
                 streams, disk>>

\* stop(): nothing to do if the helper is not running, else tell and join.
StopStream(t, s) ==
  /\ At(t, StopOf[s])
  /\ on' = on \ {s}
  /\ Goto(t, IF s \in on THEN JoinOf[s] ELSE AfterOf[s])
  /\ UNCHANGED <<process, ctrlType, engineSet, ui, session, thread, disk>>

JoinStream(t, s) ==
  /\ At(t, JoinOf[s]) /\ thread[s] = "ended"
  /\ Goto(t, AfterOf[s])
  /\ UNCHANGED <<process, ctrlType, engineSet, ui, session, streams, disk>>

\* IpcAudioClient::shutdown.
Detach(t) ==
  /\ At(t, "detach")
  /\ flag' = (flag /\ ~ view)
  /\ view' = FALSE
  /\ Goto(t, IF t = "main" THEN StopOf["solar"] ELSE "save")
  /\ UNCHANGED <<process, ctrlType, engineSet, ui, running, proc, joinable,
                 streams, disk>>

Shutdown(t) ==
  \/ Halt(t) \/ Join(t) \/ Detach(t)
  \/ \E s \in Streams : StopStream(t, s) \/ JoinStream(t, s)

\* The end of main destroys the SolarXrClient, then the OscProxy, and with them
\* waits for their threads; ~AudioEngine finds nothing left to shut down.
Leave ==
  \/ \E s \in Trackers : StopStream("main", s) \/ JoinStream("main", s)
  \/ MainReturns

-----------------------------------------------------------------------------
(* ConsoleCtrlHandler, on a thread that the console creates *)

MainEnds == quit \/ pc["main"] \in ShutdownPcs \cup LeavePcs

Ctrl(type) ==
  /\ Alive /\ pc["handler"] = "none"
  /\ "earlyCtrl" \in Hazards \/ pc["main"] \notin Starting
  /\ "bothEnders" \in Hazards \/ ~ MainEnds
  /\ ctrlType' = type
  /\ Goto("handler", IF engineSet THEN "halt" ELSE "save")
  /\ UNCHANGED <<process, engineSet, ui, session, streams, disk>>

\* PostQuitMessage(0) posts to the calling thread's queue, the handler's own,
\* which nobody reads; the main thread's queue does not change.  Then Sleep.
Post ==
  /\ At("handler", "post")
  /\ Goto("handler", "sleep")
  /\ UNCHANGED <<process, ctrlType, engineSet, ui, session, streams, disk>>

\* Sleep is over and the handler returns TRUE: after CTRL_CLOSE_EVENT the
\* system ends the process, after CTRL_C_EVENT it goes on.
HandlerReturns ==
  /\ At("handler", "sleep")
  /\ Goto("handler", "done")
  /\ process' = IF ctrlType = "close" THEN "closed" ELSE process
  /\ UNCHANGED <<ctrlType, engineSet, ui, session, streams, disk>>

-----------------------------------------------------------------------------
(* The engine's threads *)

\* processingLoop: between two blocks the thread looks at running.
ProcLook ==
  /\ Alive /\ proc = "wait"
  /\ proc' = IF running THEN "read" ELSE "ended"
  /\ UNCHANGED <<process, pc, ctrlType, engineSet, ui, view, flag, running,
                 joinable, streams, disk>>

\* readFromApo returns at once when sharedMem is null; else it reads the block.
ProcRead ==
  /\ Alive /\ proc = "read"
  /\ proc' = IF view THEN "reading" ELSE "wait"
  /\ UNCHANGED <<process, pc, ctrlType, engineSet, ui, view, flag, running,
                 joinable, streams, disk>>

\* No block, or one to process; writeToApo makes the same check before it writes.
ProcProcess ==
  /\ Alive /\ proc = "reading"
  /\ proc' \in {"wait", IF view THEN "writing" ELSE "wait"}
  /\ UNCHANGED <<process, pc, ctrlType, engineSet, ui, view, flag, running,
                 joinable, streams, disk>>

ProcWrite ==
  /\ Alive /\ proc = "writing"
  /\ proc' = "wait"
  /\ UNCHANGED <<process, pc, ctrlType, engineSet, ui, view, flag, running,
                 joinable, streams, disk>>

Proc == ProcLook \/ ProcRead \/ ProcProcess \/ ProcWrite

\* captureLoop and renderLoop look at isRunning after each wait, which times
\* out, and end; clientLoop and proxyLoop look at m_running after a second's
\* sleep, and when their WebSocket and socket are closed.
StreamEnds(s) ==
  /\ Alive /\ thread[s] = "on" /\ s \notin on
  /\ thread' = [thread EXCEPT ![s] = "ended"]
  /\ UNCHANGED <<process, pc, ctrlType, engineSet, ui, session, on, disk>>

\* A yaw or an offset that is not finite keeps a tracking thread in a loop of
\* applyDriftCorrection for ever.  It may be so long before it is told to end;
\* here it makes a difference only then.
TrackerCaught(s) ==
  /\ Alive /\ thread[s] = "on" /\ s \notin on
  /\ thread' = [thread EXCEPT ![s] = "caught"]
  /\ UNCHANGED <<process, pc, ctrlType, engineSet, ui, session, on, disk>>

\* The process is killed, or the machine stops.
Crash ==
  /\ Alive
  /\ process' = "crashed"
  /\ UNCHANGED <<pc, ctrlType, engineSet, ui, session, streams, disk>>

-----------------------------------------------------------------------------

Main ==
  \/ IpcInit \/ StreamInit("capture", "keepAliveInit")
  \/ StreamInit("keepAlive", "load") \/ LoadFails \/ Load \/ Start \/ Track \/ Show
  \/ Quit \/ Save("main") \/ Clear \/ Shutdown("main") \/ Leave

Handler == Shutdown("handler") \/ Save("handler") \/ Post \/ HandlerReturns

Next ==
  \/ Main \/ Handler \/ Proc
  \/ \E s \in Helpers : StreamEnds(s)
  \/ \E s \in Trackers : TrackerCaught(s)
  \/ CloseWindow \/ Autosave
  \/ \E type \in {"c", "close"} : Ctrl(type)
  \/ Crash

Spec == Init /\ [][Next]_vars

\* No thread is starved; nobody has to close anything.
FairSpec ==
  /\ Spec
  /\ WF_vars(Main) /\ WF_vars(Handler) /\ WF_vars(Proc)
  /\ \A s \in Helpers : WF_vars(StreamEnds(s))

-----------------------------------------------------------------------------
(* Properties *)

MainPcs == Starting \cup SavePcs \cup ShutdownPcs \cup LeavePcs \cup {"loop", "clear"}
HandlerPcs == SavePcs \cup ShutdownPcs \cup {"none", "post", "sleep", "done"}

FlagsOK ==
  /\ engineSet \in BOOLEAN /\ quit \in BOOLEAN /\ window \in BOOLEAN
  /\ view \in BOOLEAN /\ flag \in BOOLEAN
  /\ running \in BOOLEAN /\ joinable \in BOOLEAN

\* Every variable keeps to its type.
TypeOK ==
  /\ process \in {"alive", "returned", "closed", "crashed"}
  /\ pc \in [Enders -> MainPcs \cup HandlerPcs]
  /\ pc["main"] \in MainPcs /\ pc["handler"] \in HandlerPcs
  /\ ctrlType \in {"none", "c", "close"}
  /\ FlagsOK
  /\ proc \in {"none", "wait", "read", "reading", "writing", "ended"}
  /\ on \subseteq Helpers
  /\ thread \in [Helpers -> {"none", "on", "caught", "ended"}]
  /\ file \in [Files -> {"old", "cut", "new"}]
  /\ saves \in 0 .. MaxSaves

\* The processing thread is never inside the IPC block when its view has been
\* unmapped: shutdown joins it first (AudioEngine::shutdown).
NoUseAfterUnmap == proc \in {"reading", "writing"} => view

\* When the bridge ends by itself (main returned, also after a failed start,
\* or the console was closed) the block says so: the instances that still hold
\* it pass their audio through again (hostIsRunning); also while main still waits
\* for a tracking thread.
FlagLoweredAtEnd ==
  process \in {"returned", "closed"} \/ pc["main"] \in LeavePcs => ~ flag

\* While the bridge sits in its message loop and nobody is shutting it down,
\* hostIsRunning means that the processing thread is there to serve.
AnnouncedIsServed ==
  Alive /\ pc["main"] \in {"loop"} \cup SavePcs /\ flag
    /\ pc["handler"] \notin ShutdownPcs
      => proc \in {"wait", "read", "reading", "writing"}

\* Main waits for a tracking thread that is caught in a loop.
Hung == \E s \in Trackers : At("main", JoinOf[s]) /\ thread[s] = "caught"

\* Closing the window ends the process: no join waits forever, but for the last
\* two, on a tracking thread that is caught in a loop.
WindowEnds == quit ~> ~ Alive \/ Hung

-----------------------------------------------------------------------------
(* Inductive invariants *)

\* The handler does not start before main is in its message loop.
StartsAlone == pc["main"] \in Starting => pc["handler"] = "none"

\* main lets go of the engine only on its way out by the window.
LetGo ==
  /\ pc["main"] = "clear" => quit
  /\ ~ engineSet => quit /\ pc["main"] \in ShutdownPcs \cup LeavePcs

\* The processing thread: unborn until start, then joinable until joined.
ThreadOwned ==
  /\ pc["main"] \in Starting \ {"track", "show"} => proc = "none"
  /\ ~ joinable => proc \in {"none", "ended"}
  /\ \A t \in Enders : pc[t] \in AfterJoin => ~ joinable

\* The view is there until one of the enders detaches, and the flag with it; a
\* handler that finds the engine gone leaves that to main.
ViewOwned ==
  /\ pc["main"] = "ipc" => ~ view
  /\ flag <=> view
  /\ pc["main"] \in LeavePcs => ~ view
  /\ pc["handler"] \in AfterDetach => ~ view \/ ~ engineSet
  /\ process = "returned" => ~ view

\* From start on, and until an ender begins, the thread goes on serving.
Served ==
  pc["main"] \in {"track", "show", "loop"} \cup SavePcs /\ pc["handler"] = "none"
    => running /\ proc \in {"wait", "read", "reading", "writing"}

\* Also when window and console are closed at once.
JoinInv ==
  /\ TypeOK /\ StartsAlone /\ LetGo /\ ThreadOwned /\ ViewOwned /\ Served
  /\ NoUseAfterUnmap

\* The handler works only before main begins to end.
EndersApart ==
  /\ pc["handler"] \notin {"none", "done"} => engineSet /\ ~ MainEnds
  /\ process = "closed" => ~ view

\* When only one of them is closed.
LifeInv == JoinInv /\ EndersApart

-----------------------------------------------------------------------------
(* What the code promises and does not keep *)

\* main.cpp: "Close the UI window or press Ctrl+C to stop."
CtrlCEnds == ctrlType = "c" ~> ~ Alive

\* main.cpp: "Auto-save every 5 seconds to prevent data loss on ungraceful
\* exits": however the process ends, what was saved is still there.
SavedStateKept == ~ Alive => \A f \in Files : file[f] # "cut"

=============================================================================
