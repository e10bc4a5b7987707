-------------------------------- MODULE Setup --------------------------------
(***************************************************************************)
(* rime_setup.exe: the steps of DoInstall and DoUninstall on the machine   *)
(* they change, while the audio service, the audio engine (audiodg.exe),   *)
(* which has loaded the APO DLL, the bridge and the user go on.            *)
(*                                                                         *)
(* Neither procedure looks at the result of a call: the next step follows  *)
(* also when one has failed.  A step may fail because a file is in use,    *)
(* which the model knows, or for a reason of its own (rights, a full disk, *)
(* a scanner), which it may choose at each step; a copy that fails or is   *)
(* cut short may leave its target missing or cut.  Setup may be killed     *)
(* anywhere and run again, also from another release of the package.  Left *)
(* out: the texts, config.json (written only if there is none), the        *)
(* install folder and the VB-Cable driver, which stays.                    *)
(***************************************************************************)
EXTENDS Integers, FiniteSets

CONSTANTS
  Devices,   \* render endpoints in the registry
  Releases,  \* versions of the package: 1 .. n
  MaxRuns,   \* bound: times setup is started
  MaxFails,  \* bound: steps of a procedure that fail for reasons of their own
  Hazards    \* what else may happen, see below

Hazard == {"startsDuring", \* the user starts a bridge while setup is at work
           "freeLive"}     \* audiodg frees "unused" libraries during playback

ASSUME SetupAssumption ==
  /\ Releases \subseteq Nat \ {0} /\ MaxRuns \in Nat /\ MaxFails \in Nat
  /\ Hazards \subseteq Hazard

None == 0   \* no file, no image
Cut  == -1  \* a file that a copy has begun and not finished

\* What can be loaded or started.
Whole(f) == f \notin {None, Cut}

VARIABLES
  \* the disk and the registry
  dll,      \* release of System32\rime_apo.dll
  exe,      \* release of rime_bridge.exe in the install folder
  fx,       \* [Devices -> ...]  the endpoint's FX_PKEY: whose effect it names
  com,      \* the COM class and both APO registrations
  signing,  \* DisableProtectedAudioDG = 0
  runKey,   \* the value in HKCU\...\Run
  \* the processes
  service,  \* Audiosrv: "running", "stopping", "stopped"
  loaded,   \* release of the DLL that audiodg has loaded
  streams,  \* endpoints with a live RimeApo
  bridges,  \* [Releases -> Nat]  running bridges
  \* setup
  pc,       \* where it is; "closed": not running, "idle": in its message loop
  then,     \* where RestartAudioService returns to
  pkg,      \* release of the package it was started from
  dev,      \* the endpoint DoInstall was called for
  todo,     \* the installed endpoints DoUninstall has not cleaned yet
  buttons,  \* which of Install and Uninstall are enabled
  failed,   \* history: the steps of this procedure that have failed
  inUse,    \* history: an installation was in use when Install was pressed
  lost,     \* history: what endpoints may lack since a step failed or was cut
            \* short and has not been done since: "dll", "com"
  runs      \* times setup was started

machine == <<dll, exe, fx, com, signing, runKey>>
procs   == <<service, loaded, streams, bridges>>
task    == <<then, pkg, dev, todo, buttons, inUse, runs>>
history == <<failed, lost>>
job     == <<task, history>>
vars    == <<dll, exe, fx, com, signing, runKey,
             service, loaded, streams, bridges,
             pc, then, pkg, dev, todo, buttons, failed, inUse, lost, runs>>

NoBridge == [r \in Releases |-> 0]
Attached == {d \in Devices : fx[d] = "rime"}
Buttons  == {"install", "uninstall"}
Goto(p)  == pc' = p

\* A step fails for a reason that is not in the model.
Fails(step) == Cardinality(failed) < MaxFails /\ failed' = failed \cup {step}

\* Another product's effect may be on an endpoint, and signing may be off.
Init ==
  /\ dll = None /\ exe = None
  /\ fx \in [Devices -> {"none", "vendor"}]
  /\ com = FALSE /\ signing \in BOOLEAN /\ runKey = FALSE
  /\ service = "running" /\ loaded = None /\ streams = {}
  /\ bridges = NoBridge
  /\ pc = "closed" /\ then = "idle" /\ pkg \in Releases
  /\ dev \in Devices /\ todo = {} /\ buttons = {} /\ inUse = FALSE
  /\ failed = {} /\ lost = {} /\ runs = 0

InUse == loaded # None \/ bridges # NoBridge \/ Attached # {}

-----------------------------------------------------------------------------
(* The window *)

\* wWinMain: the window comes up, with /uninstall DoUninstall starts at once.
Start ==
  /\ pc = "closed" /\ runs < MaxRuns
  /\ runs' = runs + 1
  /\ pkg' \in Releases
  /\ buttons' = Buttons
  /\ pc' \in {"idle", "kill"}
  /\ UNCHANGED <<machine, procs, history, then, dev, todo, inUse>>

\* "Install" with an endpoint selected from the list; the package is complete.
PressInstall ==
  /\ pc = "idle" /\ "install" \in buttons
  /\ dev' \in Devices
  /\ inUse' = InUse
  /\ then' = "copyDll"
  /\ Goto("stop")
  /\ UNCHANGED <<machine, procs, history, pkg, todo, buttons, runs>>

PressUninstall ==
  /\ pc = "idle" /\ "uninstall" \in buttons
  /\ Goto("kill")
  /\ UNCHANGED <<machine, procs, job>>

\* The window is closed, which the thread notices in its message loop, ...
Close ==
  /\ pc = "idle"
  /\ Goto("closed")
  /\ UNCHANGED <<machine, procs, job>>

\* ... or the process ends wherever it is: a copy that is under way leaves a cut
\* file, a sequence of registry calls its beginning.
CutShort ==
  /\ dll' \in IF pc = "copyDll" /\ loaded = None THEN {dll, Cut} ELSE {dll}
  /\ exe' \in IF pc = "copyExe" /\ bridges = NoBridge THEN {exe, Cut} ELSE {exe}
  /\ signing' \in IF pc = "register" THEN {signing, FALSE} ELSE {signing}
  /\ com' \in IF pc = "detach" /\ todo = {} THEN {com, FALSE} ELSE {com}
  /\ lost' = lost \cup {x \in {"dll"} : dll' # dll}
                  \cup {x \in {"com"} : com' # com /\ "detach" \in failed}
  /\ failed' = {}
  /\ Goto("closed")
  /\ UNCHANGED <<fx, runKey, task>>

Killed ==
  /\ pc \notin {"closed", "idle"}
  /\ CutShort
  /\ UNCHANGED procs

-----------------------------------------------------------------------------
(* RestartAudioService *)

\* The first restart of a procedure, before its files, and the one at its end.
ThisRestart == IF then \in {"copyDll", "deleteDll"} THEN "firstRestart"
                                                   ELSE "lastRestart"

\* ControlService(STOP) fails unless the service is running, and may be refused.
\* Nothing is restarted if the service cannot be opened.
StopService ==
  /\ pc = "stop"
  /\ \/ /\ service' = IF service = "running" THEN "stopping" ELSE service
        /\ Goto("await")
        /\ UNCHANGED failed
     \/ /\ service = "running" /\ Fails("stop")
        /\ Goto("await")
        /\ UNCHANGED service
     \/ /\ Fails(ThisRestart)
        /\ Goto(then)
        /\ UNCHANGED service
  /\ UNCHANGED <<machine, loaded, streams, bridges, task, lost>>

\* Mutant: the service is not waited for.
AwaitNothing ==
  /\ pc = "await"
  /\ Goto("start")
  /\ UNCHANGED <<machine, procs, job>>

\* At most 50 looks at the state, 100 ms apart: the service has stopped, goes on
\* because the stop was refused, or needs more time than that.
AwaitStop ==
  /\ pc = "await"
  /\ \/ service # "stopping" /\ UNCHANGED failed
     \/ service = "stopping" /\ Fails(ThisRestart)
  /\ Goto("start")
  /\ UNCHANGED <<machine, procs, task, lost>>

\* StartService fails unless the service has stopped.
StartService ==
  /\ pc = "start"
  /\ service' = IF service = "stopped" THEN "running" ELSE service
  /\ Goto(then)
  /\ UNCHANGED <<machine, loaded, streams, bridges, job>>

Restart == StopService \/ AwaitStop \/ StartService

-----------------------------------------------------------------------------
(* DoInstall *)

\* Mutant: the endpoint is changed before there is anything to load.
AttachFirst ==
  /\ pc = "copyDll"
  /\ fx' = [fx EXCEPT ![dev] = "rime"]
  /\ dll' = IF loaded = None THEN pkg ELSE dll
  /\ Goto("copyExe")
  /\ UNCHANGED <<exe, com, signing, runKey, procs, job>>

\* Mutant: CopyFile is told to keep a file that is there.
CopyDllIfMissing ==
  /\ pc = "copyDll"
  /\ dll' = IF dll = None THEN pkg ELSE dll
  /\ Goto("copyExe")
  /\ UNCHANGED <<exe, fx, com, signing, runKey, procs, job>>

\* CopyFile over the DLL.  It cannot be opened while a process has loaded it;
\* else the copy may still fail, before it starts or half-way.
CopyDll ==
  /\ pc = "copyDll"
  /\ \/ /\ loaded # None
        /\ failed' = failed \cup {"dllInUse"}
        /\ UNCHANGED <<dll, lost>>
     \/ /\ loaded = None
        /\ dll' = pkg /\ lost' = lost \ {"dll"}
        /\ UNCHANGED failed
     \/ /\ loaded = None /\ Fails("copyDll")
        /\ dll' \in {dll, None, Cut} /\ lost' = lost \cup {"dll"}
  /\ Goto("copyExe")
  /\ UNCHANGED <<exe, fx, com, signing, runKey, procs, task>>

\* Likewise for the bridge, which nobody has stopped; then VB-Cable's setup is
\* run and waited for.
CopyExe ==
  /\ pc = "copyExe"
  /\ \/ /\ bridges # NoBridge
        /\ failed' = failed \cup {"exeInUse"}
        /\ UNCHANGED exe
     \/ /\ bridges = NoBridge /\ exe' = pkg
        /\ UNCHANGED failed
     \/ /\ bridges = NoBridge /\ Fails("copyExe")
        /\ exe' \in {exe, None, Cut}
  /\ Goto("register")
  /\ UNCHANGED <<dll, fx, com, signing, runKey, procs, task, lost>>

\* Signing enforcement is switched off, the class and the APO are registered.
Register ==
  /\ pc = "register"
  /\ \/ /\ signing' = FALSE /\ com' = TRUE
        /\ lost' = lost \ {"com"}
        /\ UNCHANGED failed
     \/ /\ Fails("register")
        /\ signing' \in {signing, FALSE} /\ com' \in {com, TRUE}
        /\ lost' = lost \cup {"com"}
  /\ Goto("attach")
  /\ UNCHANGED <<dll, exe, fx, runKey, procs, task>>

\* The endpoint's effect is replaced; what it was is not kept.
Attach ==
  /\ pc = "attach"
  /\ \/ fx' = [fx EXCEPT ![dev] = "rime"] /\ UNCHANGED failed
     \/ Fails("attach") /\ UNCHANGED fx
  /\ Goto("autostart")
  /\ UNCHANGED <<dll, exe, com, signing, runKey, procs, task, lost>>

AutoStart ==
  /\ pc = "autostart"
  /\ \/ runKey' = TRUE /\ UNCHANGED failed
     \/ Fails("autostart") /\ UNCHANGED runKey
  /\ then' = "launch"
  /\ Goto("stop")
  /\ UNCHANGED <<dll, exe, fx, com, signing, procs, pkg, dev, todo,
                 buttons, inUse, lost, runs>>

\* A bridge more of whatever release the file is.
WithBridge(running, file) ==
  IF Whole(file) THEN [running EXCEPT ![file] = @ + 1] ELSE running

\* ShellExecute of what is in the install folder.
Launch ==
  /\ pc = "launch"
  /\ bridges' = WithBridge(bridges, exe)
  /\ Goto("installed")
  /\ UNCHANGED <<machine, service, loaded, streams, job>>

\* "Installation complete!", whatever has failed.
Installed ==
  /\ pc = "installed"
  /\ buttons' = buttons \ {"install"}
  /\ failed' = {}
  /\ Goto("idle")
  /\ UNCHANGED <<machine, procs, then, pkg, dev, todo, inUse, lost, runs>>

Install == \/ CopyDll \/ CopyExe \/ Register \/ Attach \/ AutoStart \/ Launch
           \/ Installed

-----------------------------------------------------------------------------
(* DoUninstall *)

\* taskkill /F ends every bridge.
KillBridges ==
  /\ pc = "kill"
  /\ \/ bridges' = NoBridge /\ UNCHANGED failed
     \/ Fails("kill") /\ UNCHANGED bridges
  /\ Goto("noStart")
  /\ UNCHANGED <<machine, service, loaded, streams, task, lost>>

\* The Run value goes; EnumerateDevices lists the installed endpoints but for those
\* whose name or effect it cannot read.
NoAutoStart ==
  /\ pc = "noStart"
  /\ \/ runKey' = FALSE /\ todo' = Attached /\ UNCHANGED failed
     \/ Fails("noStart") /\ todo' = Attached /\ UNCHANGED runKey
     \/ Fails("detach") /\ todo' \in SUBSET Attached /\ runKey' = FALSE
  /\ Goto("detach")
  /\ UNCHANGED <<dll, exe, fx, com, signing, procs, then, pkg, dev,
                 buttons, inUse, lost, runs>>

\* Mutant: the loop leaves out one endpoint.
DetachAllButOne(d) ==
  /\ pc = "detach" /\ d \in todo
  /\ fx' = [fx EXCEPT ![d] = "none"]
  /\ todo' = {}
  /\ UNCHANGED <<dll, exe, com, signing, runKey, procs, pc, then, pkg, dev,
                 buttons, inUse, runs, history>>

\* FX_PKEY of an endpoint is deleted; the vendor's value does not come back.
Detach(d) ==
  /\ pc = "detach" /\ d \in todo
  /\ \/ fx' = [fx EXCEPT ![d] = "none"] /\ UNCHANGED failed
     \/ Fails("detach") /\ UNCHANGED fx
  /\ todo' = todo \ {d}
  /\ UNCHANGED <<dll, exe, com, signing, runKey, procs, pc, then, pkg, dev,
                 buttons, inUse, lost, runs>>

\* Mutant: the files are deleted before the audio engine is restarted.
UnregisterNoRestart ==
  /\ pc = "detach" /\ todo = {}
  /\ com' = FALSE /\ signing' = TRUE
  /\ then' = "deleteDll"
  /\ Goto("deleteDll")
  /\ UNCHANGED <<dll, exe, fx, runKey, procs, pkg, dev, todo, buttons,
                 inUse, runs, history>>

\* The registrations are deleted, signing enforcement is switched on.  An
\* endpoint that could not be detached is left without its class.
Unregister ==
  /\ pc = "detach" /\ todo = {}
  /\ \/ com' = FALSE /\ signing' = TRUE /\ UNCHANGED failed
     \/ Fails("unregister") /\ com' \in {com, FALSE} /\ signing' \in {signing, TRUE}
  /\ lost' = lost \cup (IF "detach" \in failed THEN {"com"} ELSE {})
  /\ then' = "deleteDll"
  /\ Goto("stop")
  /\ UNCHANGED <<dll, exe, fx, runKey, procs, pkg, dev, todo, buttons,
                 inUse, runs>>

\* "stop to release DLL" restarted the service: the DLL can be deleted because
\* nothing makes audiodg load it any more.
DeleteDll ==
  /\ pc = "deleteDll"
  /\ \/ dll' = (IF loaded = None THEN None ELSE dll) /\ UNCHANGED failed
     \/ Fails("deleteDll") /\ UNCHANGED dll
  /\ lost' = lost \cup (IF "detach" \in failed THEN {"dll"} ELSE {})
  /\ Goto("deleteExe")
  /\ UNCHANGED <<exe, fx, com, signing, runKey, procs, task>>

DeleteExe ==
  /\ pc = "deleteExe"
  /\ \/ exe' = (IF bridges = NoBridge THEN None ELSE exe) /\ UNCHANGED failed
     \/ Fails("deleteExe") /\ UNCHANGED exe
  /\ then' = "removed"
  /\ Goto("stop")
  /\ UNCHANGED <<dll, fx, com, signing, runKey, procs, pkg, dev, todo,
                 buttons, inUse, lost, runs>>

\* "Uninstall complete."
Removed ==
  /\ pc = "removed"
  /\ buttons' = buttons \ {"uninstall"}
  /\ failed' = {}
  /\ Goto("idle")
  /\ UNCHANGED <<machine, procs, then, pkg, dev, todo, inUse, lost, runs>>

Uninstall == \/ KillBridges \/ NoAutoStart \/ (\E d \in Devices : Detach(d))
             \/ Unregister \/ DeleteDll \/ DeleteExe \/ Removed

-----------------------------------------------------------------------------
(* The machine *)

\* The service stops, and audiodg with all its streams.
ServiceStops ==
  /\ service = "stopping"
  /\ service' = "stopped" /\ loaded' = None /\ streams' = {}
  /\ UNCHANGED <<machine, bridges, pc, job>>

\* audiodg builds a stream's graph: the class is looked up, the DLL is loaded
\* unless it is already, DllGetClassObject and CreateInstance make a RimeApo.
\* A cut DLL cannot be loaded.
Play(d) ==
  /\ service = "running" /\ d \notin streams
  /\ fx[d] = "rime" /\ com /\ ~ signing /\ Whole(dll)
  /\ loaded' = IF loaded = None THEN dll ELSE loaded
  /\ streams' = streams \cup {d}
  /\ UNCHANGED <<machine, service, bridges, pc, job>>

\* The last reference to the RimeApo is released; the DLL stays loaded.
EndPlay(d) ==
  /\ d \in streams
  /\ streams' = streams \ {d}
  /\ UNCHANGED <<machine, service, loaded, bridges, pc, job>>

\* audiodg frees unused libraries.  DllCanUnloadNow counts no objects
\* (g_lComponents is never changed) and agrees also when a RimeApo lives.
FreeLibraries ==
  /\ loaded # None
  /\ streams = {} \/ "freeLive" \in Hazards
  /\ loaded' = None
  /\ UNCHANGED <<machine, service, streams, bridges, pc, job>>

\* The user starts the bridge (nothing keeps a second one from running).
StartBridge ==
  /\ pc \in {"closed", "idle"} \/ "startsDuring" \in Hazards
  /\ Whole(exe) /\ bridges[exe] = 0
  /\ bridges' = WithBridge(bridges, exe)
  /\ UNCHANGED <<machine, service, loaded, streams, pc, job>>

BridgeEnds(r) ==
  /\ bridges[r] > 0
  /\ bridges' = [bridges EXCEPT ![r] = @ - 1]
  /\ UNCHANGED <<machine, service, loaded, streams, pc, job>>

\* A restart of the machine, which ends setup as well; at logon the Run value
\* starts the bridge.
Reboot ==
  /\ runKey
  /\ CutShort
  /\ service' = "running" /\ loaded' = None /\ streams' = {}
  /\ bridges' = WithBridge(NoBridge, exe')

-----------------------------------------------------------------------------

SetupStep == Restart \/ Install \/ Uninstall

Next ==
  \/ Start \/ PressInstall \/ PressUninstall \/ Close \/ Killed
  \/ SetupStep
  \/ ServiceStops \/ FreeLibraries \/ StartBridge \/ Reboot
  \/ \E d \in Devices : Play(d) \/ EndPlay(d)
  \/ \E r \in Releases : BridgeEnds(r)

Spec == Init /\ [][Next]_vars

-----------------------------------------------------------------------------
(* Properties *)

Pcs == {"closed", "idle", "stop", "await", "start",
        "copyDll", "copyExe", "register", "attach", "autostart", "launch",
        "installed", "kill", "noStart", "detach", "deleteDll", "deleteExe",
        "removed"}

Steps == {"firstRestart", "lastRestart", "stop", "copyDll", "dllInUse", "copyExe",
          "exeInUse", "register", "attach", "autostart", "kill", "noStart",
          "detach", "unregister", "deleteDll", "deleteExe"}

\* Every variable keeps to its type.
TypeOK ==
  /\ dll \in Releases \cup {None, Cut} /\ exe \in Releases \cup {None, Cut}
  /\ fx \in [Devices -> {"none", "vendor", "rime"}]
  /\ com \in BOOLEAN /\ signing \in BOOLEAN /\ runKey \in BOOLEAN
  /\ service \in {"running", "stopping", "stopped"}
  /\ loaded \in Releases \cup {None} /\ streams \subseteq Devices
  /\ bridges \in [Releases -> Nat]
  /\ pc \in Pcs /\ then \in {"idle", "copyDll", "launch", "deleteDll", "removed"}
  /\ pkg \in Releases /\ dev \in Devices /\ todo \subseteq Devices
  /\ buttons \subseteq Buttons /\ inUse \in BOOLEAN /\ runs \in 0 .. MaxRuns
  /\ failed \subseteq Steps /\ lost \subseteq {"dll", "com"}

\* An endpoint names an effect that cannot be loaded only after a step that would
\* have put it there, or taken the endpoint off it, has failed or was cut short:
\* the order of the steps never brings it about, wherever setup is killed, since
\* DoInstall attaches the endpoint last and DoUninstall detaches it first.
NoDanglingEndpoint ==
  Attached # {} => /\ com \/ "com" \in lost
                   /\ Whole(dll) \/ "dll" \in lost

\* README: Uninstall "will cleanly remove the APO from your headphones,
\* unregister all COM servers, and remove the background startup tasks": when it
\* says it is complete and no call has failed, nothing is left to be loaded or
\* started, and no file, whatever earlier runs have left.  (A file in use is not
\* taken for a call that fails: that it is not in use is part of the property.)
UninstallLeavesNothing ==
  pc = "removed" /\ failed = {} =>
    /\ \A d \in Devices : fx[d] # "rime"
    /\ ~ com /\ ~ runKey
    /\ dll = None /\ exe = None /\ bridges = NoBridge

\* "Installation complete!" comes also after failures, and each costs its own
\* part only: what the package brings is there wherever its own step has not
\* failed, with the release it comes from, over whatever earlier runs, failures
\* or a kill have left; a stream that plays has loaded that release.  Where RIME
\* is not in use setup itself does not bring a file into use.
OnlyFailedStepsMissing ==
  pc = "installed" =>
    /\ failed \cap {"copyDll", "dllInUse"} = {} => dll = pkg /\ loaded \in {None, pkg}
    /\ failed \cap {"copyExe", "exeInUse"} = {} => exe = pkg
    /\ "register" \notin failed => com /\ ~ signing
    /\ "attach" \notin failed => fx[dev] = "rime"
    /\ "autostart" \notin failed => runKey
    /\ ~ inUse => "dllInUse" \notin failed
    /\ ~ inUse /\ "startsDuring" \notin Hazards => "exeInUse" \notin failed

\* When a procedure says it is complete, Windows has its sound back, unless the
\* restart at its end could not open the service or gave up waiting for it: also
\* after the first restart came too early, the stop was refused, or an earlier
\* run was killed while the service was down.
SoundIsBack ==
  pc \in {"installed", "removed"} /\ "lastRestart" \notin failed
    => service = "running"

-----------------------------------------------------------------------------
(* The invariant behind them *)

\* Where DoUninstall is past its first steps.
Removing == {"deleteDll", "deleteExe", "removed"}

\* The step that follows, also while the audio service is restarted before it.
Point == IF pc \in {"stop", "await", "start"} THEN then ELSE pc

Afters == {"copyExe", "register", "attach", "autostart", "launch", "installed"}

ServiceInv ==
  /\ service = "stopped" => loaded = None /\ streams = {}
  /\ pc = "await" /\ "stop" \notin failed => service # "running"
  /\ pc = "start" /\ ThisRestart \notin failed => service # "stopping"
  /\ pc = "start" /\ failed = {} => service = "stopped"
  /\ pc \in {"launch", "installed", "removed"} /\ "lastRestart" \notin failed
       => service = "running"

FilesInv ==
  /\ loaded # None => Whole(dll)
  /\ bridges # NoBridge => Whole(exe)
  /\ Attached # {} \/ pc = "attach" => com \/ "com" \in lost
  /\ Attached # {} \/ pc \in {"copyExe", "register", "attach"}
       => Whole(dll) \/ "dll" \in lost

\* DoUninstall finds all endpoints, and none comes back.
DetachInv ==
  "detach" \notin failed =>
    /\ pc = "detach" => todo = Attached
    /\ Point \in Removing => Attached = {}

UninstallInv ==
  failed = {} =>
    /\ Point \in Removing \cup {"noStart", "detach"} => bridges = NoBridge
    /\ Point \in Removing \cup {"detach"} => ~ runKey
    /\ Point \in Removing => ~ com
    /\ pc = "deleteDll" => loaded = None
    /\ Point \in {"deleteExe", "removed"} => dll = None /\ loaded = None
    /\ Point = "removed" => exe = None

\* What DoInstall has done so far.
InstallInv ==
  /\ Point \in Afters /\ failed \cap {"copyDll", "dllInUse"} = {}
       => dll = pkg /\ loaded \in {None, pkg}
  /\ Point \in Afters \ {"copyExe"} /\ failed \cap {"copyExe", "exeInUse"} = {}
       => exe = pkg
  /\ Point \in Afters \ {"copyExe", "register"} /\ "register" \notin failed
       => com /\ ~ signing
  /\ Point \in {"autostart", "launch", "installed"} /\ "attach" \notin failed
       => fx[dev] = "rime"
  /\ Point \in {"launch", "installed"} /\ "autostart" \notin failed => runKey

\* Nothing is in use before an endpoint is attached or a bridge launched.
UnusedInv ==
  /\ Point \in {"closed", "idle"} => pc = Point /\ failed = {}
  /\ Point \in Afters \cup {"copyDll"} /\ ~ inUse =>
       /\ "dllInUse" \notin failed
       /\ Point = "copyDll" => Attached = {} /\ loaded = None
       /\ "startsDuring" \notin Hazards =>
            /\ "exeInUse" \notin failed
            /\ Point \in {"copyDll", "copyExe"} => bridges = NoBridge

\* What every state of an installation has in common; its last part needs that
\* nobody starts a bridge while setup is at work.
SetupInv ==
  /\ TypeOK /\ ServiceInv /\ FilesInv /\ InstallInv /\ UnusedInv /\ DetachInv
  /\ "startsDuring" \notin Hazards => UninstallInv

=============================================================================
