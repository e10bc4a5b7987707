----------------------------- MODULE Setup_proofs -----------------------------
(***************************************************************************)
(* Proofs about module Setup, for all endpoints, releases, numbers of runs *)
(* and of failures.  Each part of SetupInv is proved from the parts before *)
(* it, and the last one under the condition that SetupInv names: nobody    *)
(* starts a bridge while setup is at work.                                 *)
(*                                                                         *)
(* Setup tests no result, so what a step may count on is only what every   *)
(* state of the machine has in common: SetupInv says, for each Point of a  *)
(* procedure, which of its effects are there if their steps have not       *)
(* failed, since nobody has undone them.                                   *)
(***************************************************************************)
EXTENDS Setup, TLAPS

\* A machine without RIME, and setup closed.
LEMMA InitSetup ==
  ASSUME Init
  PROVE  SetupInv
<1> USE SetupAssumption DEF Init, None, Cut, Whole, Point, Attached, NoBridge, Pcs, Afters,
                                Removing
<1>1. TypeOK
  <2>1. fx \in [Devices -> {"none", "vendor", "rime"}]
    OBVIOUS
  <2>2. com \in BOOLEAN /\ signing \in BOOLEAN /\ runKey \in BOOLEAN
    OBVIOUS
  <2>3. bridges \in [Releases -> Nat]
    OBVIOUS
  <2>4. /\ dll = None /\ exe = None /\ service = "running" /\ loaded = None
        /\ streams = {} /\ pc = "closed" /\ then = "idle" /\ pkg \in Releases
        /\ dev \in Devices /\ todo = {} /\ buttons = {}
        /\ failed = {} /\ lost = {}
    OBVIOUS
  <2>5. runs \in 0 .. MaxRuns
    OBVIOUS
  <2>6. inUse \in BOOLEAN
    OBVIOUS
  <2> HIDE DEF Init
  <2> QED
    BY <2>1, <2>2, <2>3, <2>4, <2>5, <2>6 DEF TypeOK, Buttons
<1>3. ServiceInv
  BY DEF ServiceInv
<1>4. FilesInv
  BY DEF FilesInv
<1>5. UninstallInv /\ DetachInv
  BY DEF UninstallInv, DetachInv
<1>6. InstallInv /\ UnusedInv
  BY DEF InstallInv, UnusedInv
<1> QED
  BY <1>1, <1>3, <1>4, <1>5, <1>6 DEF SetupInv

\* Every step of setup and of the machine keeps the types.
LEMMA TypeStep ==
  ASSUME TypeOK, Next
  PROVE  TypeOK'
<1> USE SetupAssumption
    DEF TypeOK, Goto, Fails, machine, procs, task, history, job, None, Cut, Whole,
        Pcs, Buttons, NoBridge, Attached
<1>30. ThisRestart \in Steps
  BY DEF ThisRestart, Steps
<1>31. /\ {"stop", "copyDll", "dllInUse", "copyExe", "exeInUse"} \subseteq Steps
       /\ {"register", "attach", "autostart", "kill", "noStart"} \subseteq Steps
       /\ {"detach", "unregister", "deleteDll", "deleteExe"} \subseteq Steps
  BY DEF Steps
<1>32. ASSUME CutShort
       PROVE  /\ dll' \in Releases \cup {None, Cut} /\ exe' \in Releases \cup {None, Cut}
              /\ fx' \in [Devices -> {"none", "vendor", "rime"}]
              /\ com' \in BOOLEAN /\ signing' \in BOOLEAN /\ runKey' \in BOOLEAN
              /\ pc' \in Pcs
              /\ then' \in {"idle", "copyDll", "launch", "deleteDll", "removed"}
              /\ pkg' \in Releases /\ dev' \in Devices /\ todo' \subseteq Devices
              /\ buttons' \subseteq Buttons /\ inUse' \in BOOLEAN
              /\ runs' \in 0 .. MaxRuns
              /\ failed' \subseteq Steps /\ lost' \subseteq {"dll", "com"}
  <2>1. dll' \in Releases \cup {None, Cut} /\ exe' \in Releases \cup {None, Cut}
    BY <1>32 DEF CutShort
  <2>2. com' \in {com, FALSE} /\ signing' \in {signing, FALSE} /\ runKey' = runKey
    BY <1>32 DEF CutShort
  <2>3. com' \in BOOLEAN /\ signing' \in BOOLEAN /\ runKey' \in BOOLEAN
    BY <2>2, Zenon
  <2>4. lost' \subseteq {"dll", "com"} /\ failed' = {}
    BY <1>32 DEF CutShort
  <2>5. UNCHANGED <<fx, then, pkg, dev, todo, buttons, inUse, runs>>
        /\ pc' = "closed"
    BY <1>32 DEF CutShort
  <2> QED
    BY <2>1, <2>3, <2>4, <2>5
<1>1. CASE Start
  BY <1>1 DEF Start
<1>2. CASE PressInstall
  BY <1>2 DEF PressInstall, InUse
<1>3. CASE PressUninstall
  BY <1>3 DEF PressUninstall
<1>4. CASE Close
  BY <1>4 DEF Close
<1>5. CASE Killed
  BY <1>5, <1>32 DEF Killed
<1>6. CASE StopService
  BY <1>6, <1>30, <1>31 DEF StopService
<1>7. CASE AwaitStop
  BY <1>7, <1>30, <1>31 DEF AwaitStop
<1>8. CASE StartService
  BY <1>8 DEF StartService
<1>9. CASE CopyDll
  <2>1. dll' \in Releases \cup {None, Cut} /\ exe' \in Releases \cup {None, Cut}
    BY <1>9 DEF CopyDll
  <2>2. UNCHANGED <<com, signing, runKey>>
    BY <1>9 DEF CopyDll
  <2>3. com' \in BOOLEAN /\ signing' \in BOOLEAN /\ runKey' \in BOOLEAN
    BY <2>2, Zenon
  <2>4. failed' \subseteq Steps /\ lost' \subseteq {"dll", "com"}
    BY <1>9, <1>31 DEF CopyDll
  <2>5. UNCHANGED <<fx, procs, inUse, runs, pkg, dev, buttons>>
        /\ UNCHANGED <<then, todo>> /\ pc' = "copyExe"
    BY <1>9 DEF CopyDll
  <2> QED
    BY <2>1, <2>3, <2>4, <2>5
<1>10. CASE CopyExe
  BY <1>10, <1>31 DEF CopyExe
<1>11. CASE Register
  <2>1. dll' \in Releases \cup {None, Cut} /\ exe' \in Releases \cup {None, Cut}
    BY <1>11 DEF Register
  <2>2. com' \in {com, TRUE} /\ signing' \in {signing, FALSE} /\ runKey' = runKey
    BY <1>11 DEF Register
  <2>3. com' \in BOOLEAN /\ signing' \in BOOLEAN /\ runKey' \in BOOLEAN
    BY <2>2, Zenon
  <2>4. failed' \subseteq Steps /\ lost' \subseteq {"dll", "com"}
    BY <1>11, <1>31 DEF Register
  <2>5. UNCHANGED <<fx, procs, inUse, runs, pkg, dev, buttons>>
        /\ UNCHANGED <<then, todo>> /\ pc' = "attach"
    BY <1>11 DEF Register
  <2> QED
    BY <2>1, <2>3, <2>4, <2>5
<1>12. CASE Attach
  BY <1>12, <1>31 DEF Attach
<1>13. CASE AutoStart
  BY <1>13, <1>31 DEF AutoStart
<1>14. CASE Launch
  BY <1>14 DEF Launch, WithBridge
<1>15. CASE Installed
  BY <1>15 DEF Installed
<1>16. CASE KillBridges
  BY <1>16, <1>31 DEF KillBridges
<1>17. CASE NoAutoStart
  <2>1. dll' \in Releases \cup {None, Cut} /\ exe' \in Releases \cup {None, Cut}
    BY <1>17 DEF NoAutoStart
  <2>2. UNCHANGED <<com, signing>> /\ runKey' \in {runKey, FALSE}
    BY <1>17 DEF NoAutoStart
  <2>3. com' \in BOOLEAN /\ signing' \in BOOLEAN /\ runKey' \in BOOLEAN
    BY <2>2, Zenon
  <2>4. failed' \subseteq Steps /\ lost' \subseteq {"dll", "com"}
    BY <1>17, <1>31 DEF NoAutoStart
  <2>5. UNCHANGED <<fx, procs, inUse, runs, pkg, dev, buttons>>
        /\ then' = then /\ todo' \subseteq Devices /\ pc' = "detach"
    BY <1>17 DEF NoAutoStart
  <2> QED
    BY <2>1, <2>3, <2>4, <2>5
<1>18. ASSUME NEW d \in Devices, Detach(d) PROVE TypeOK'
  BY <1>18, <1>31 DEF Detach
<1>19. CASE Unregister
  <2>1. dll' \in Releases \cup {None, Cut} /\ exe' \in Releases \cup {None, Cut}
    BY <1>19 DEF Unregister
  <2>2. com' \in {com, FALSE} /\ signing' \in {signing, TRUE} /\ runKey' = runKey
    BY <1>19 DEF Unregister
  <2>3. com' \in BOOLEAN /\ signing' \in BOOLEAN /\ runKey' \in BOOLEAN
    BY <2>2, Zenon
  <2>4. failed' \subseteq Steps /\ lost' \subseteq {"dll", "com"}
    BY <1>19, <1>31 DEF Unregister
  <2>5. UNCHANGED <<fx, procs, inUse, runs, pkg, dev, buttons>>
        /\ todo' = todo /\ then' = "deleteDll" /\ pc' = "stop"
    BY <1>19 DEF Unregister
  <2> QED
    BY <2>1, <2>3, <2>4, <2>5
<1>20. CASE DeleteDll
  BY <1>20, <1>31 DEF DeleteDll
<1>21. CASE DeleteExe
  BY <1>21, <1>31 DEF DeleteExe
<1>22. CASE Removed
  BY <1>22 DEF Removed
<1>23. CASE ServiceStops
  BY <1>23 DEF ServiceStops
<1>24. CASE FreeLibraries
  BY <1>24 DEF FreeLibraries
<1>25. CASE StartBridge
  BY <1>25 DEF StartBridge, WithBridge
<1>26. CASE Reboot
  <2>1. bridges' \in [Releases -> Nat]
    BY <1>26, <1>32 DEF Reboot, WithBridge
  <2> QED
    BY <1>26, <1>32, <2>1 DEF Reboot
<1>27. ASSUME NEW d \in Devices, Play(d) PROVE TypeOK'
  BY <1>27 DEF Play
<1>28. ASSUME NEW d \in Devices, EndPlay(d) PROVE TypeOK'
  BY <1>28 DEF EndPlay
<1>29. ASSUME NEW r \in Releases, BridgeEnds(r) PROVE TypeOK'
  BY <1>29 DEF BridgeEnds
<1> QED
  BY <1>1, <1>2, <1>3, <1>4, <1>5, <1>6, <1>7, <1>8, <1>9, <1>10, <1>11,
     <1>12, <1>13, <1>14, <1>15, <1>16, <1>17, <1>18, <1>19, <1>20, <1>21,
     <1>22, <1>23, <1>24, <1>25, <1>26, <1>27, <1>28, <1>29
  DEF Next, SetupStep, Restart, Install, Uninstall

\* The audio service runs again where setup has waited for it to stop, so that
\* starting it does not fail.
LEMMA ServiceStep ==
  ASSUME TypeOK, ServiceInv, Next
  PROVE  ServiceInv'
<1> USE SetupAssumption
    DEF TypeOK, ServiceInv, Goto, Fails, machine, procs, task, history, job,
        None, Cut, Whole, ThisRestart
<1>1. CASE Start
  BY <1>1 DEF Start
<1>2. CASE PressInstall
  BY <1>2 DEF PressInstall, InUse
<1>3. CASE PressUninstall
  BY <1>3 DEF PressUninstall
<1>4. CASE Close
  BY <1>4 DEF Close
<1>5. CASE Killed
  BY <1>5 DEF Killed, CutShort
<1>6. CASE StopService
  BY <1>6 DEF StopService
<1>7. CASE AwaitStop
  BY <1>7 DEF AwaitStop
<1>8. CASE StartService
  BY <1>8 DEF StartService
<1>9. CASE CopyDll
  BY <1>9 DEF CopyDll
<1>10. CASE CopyExe
  BY <1>10 DEF CopyExe
<1>11. CASE Register
  BY <1>11 DEF Register
<1>12. CASE Attach
  BY <1>12 DEF Attach
<1>13. CASE AutoStart
  BY <1>13 DEF AutoStart
<1>14. CASE Launch
  BY <1>14 DEF Launch, WithBridge
<1>15. CASE Installed
  BY <1>15 DEF Installed
<1>16. CASE KillBridges
  BY <1>16 DEF KillBridges
<1>17. CASE NoAutoStart
  BY <1>17 DEF NoAutoStart
<1>18. ASSUME NEW d \in Devices, Detach(d) PROVE ServiceInv'
  BY <1>18 DEF Detach
<1>19. CASE Unregister
  BY <1>19 DEF Unregister
<1>20. CASE DeleteDll
  BY <1>20 DEF DeleteDll
<1>21. CASE DeleteExe
  BY <1>21 DEF DeleteExe
<1>22. CASE Removed
  BY <1>22 DEF Removed
<1>23. CASE ServiceStops
  BY <1>23 DEF ServiceStops
<1>24. CASE FreeLibraries
  BY <1>24 DEF FreeLibraries
<1>25. CASE StartBridge
  BY <1>25 DEF StartBridge, WithBridge
<1>26. CASE Reboot
  BY <1>26 DEF Reboot, CutShort, WithBridge
<1>27. ASSUME NEW d \in Devices, Play(d) PROVE ServiceInv'
  BY <1>27 DEF Play
<1>28. ASSUME NEW d \in Devices, EndPlay(d) PROVE ServiceInv'
  BY <1>28 DEF EndPlay
<1>29. ASSUME NEW r \in Releases, BridgeEnds(r) PROVE ServiceInv'
  BY <1>29 DEF BridgeEnds
<1> QED
  BY <1>1, <1>2, <1>3, <1>4, <1>5, <1>6, <1>7, <1>8, <1>9, <1>10, <1>11,
     <1>12, <1>13, <1>14, <1>15, <1>16, <1>17, <1>18, <1>19, <1>20, <1>21,
     <1>22, <1>23, <1>24, <1>25, <1>26, <1>27, <1>28, <1>29
  DEF Next, SetupStep, Restart, Install, Uninstall

\* DoUninstall finds all endpoints, and none is attached again while it works.
LEMMA DetachStep ==
  ASSUME TypeOK, DetachInv, Next
  PROVE  DetachInv'
<1> USE SetupAssumption
    DEF TypeOK, DetachInv, Goto, Fails, machine, procs, task, history, job,
        None, Cut, Whole, Point, Attached, Removing, ThisRestart
<1>1. CASE Start
  BY <1>1 DEF Start
<1>2. CASE PressInstall
  BY <1>2 DEF PressInstall, InUse
<1>3. CASE PressUninstall
  BY <1>3 DEF PressUninstall
<1>4. CASE Close
  BY <1>4 DEF Close
<1>5. CASE Killed
  BY <1>5 DEF Killed, CutShort
<1>6. CASE StopService
  BY <1>6 DEF StopService
<1>7. CASE AwaitStop
  BY <1>7 DEF AwaitStop
<1>8. CASE StartService
  BY <1>8 DEF StartService
<1>9. CASE CopyDll
  BY <1>9 DEF CopyDll
<1>10. CASE CopyExe
  BY <1>10 DEF CopyExe
<1>11. CASE Register
  BY <1>11 DEF Register
<1>12. CASE Attach
  BY <1>12 DEF Attach
<1>13. CASE AutoStart
  BY <1>13 DEF AutoStart
<1>14. CASE Launch
  BY <1>14 DEF Launch, WithBridge
<1>15. CASE Installed
  BY <1>15 DEF Installed
<1>16. CASE KillBridges
  BY <1>16 DEF KillBridges
<1>17. CASE NoAutoStart
  BY <1>17 DEF NoAutoStart
<1>18. ASSUME NEW d \in Devices, Detach(d) PROVE DetachInv'
  BY <1>18 DEF Detach
<1>19. CASE Unregister
  BY <1>19 DEF Unregister
<1>20. CASE DeleteDll
  BY <1>20 DEF DeleteDll
<1>21. CASE DeleteExe
  BY <1>21 DEF DeleteExe
<1>22. CASE Removed
  BY <1>22 DEF Removed
<1>23. CASE ServiceStops
  BY <1>23 DEF ServiceStops
<1>24. CASE FreeLibraries
  BY <1>24 DEF FreeLibraries
<1>25. CASE StartBridge
  BY <1>25 DEF StartBridge, WithBridge
<1>26. CASE Reboot
  BY <1>26 DEF Reboot, CutShort, WithBridge
<1>27. ASSUME NEW d \in Devices, Play(d) PROVE DetachInv'
  BY <1>27 DEF Play
<1>28. ASSUME NEW d \in Devices, EndPlay(d) PROVE DetachInv'
  BY <1>28 DEF EndPlay
<1>29. ASSUME NEW r \in Releases, BridgeEnds(r) PROVE DetachInv'
  BY <1>29 DEF BridgeEnds
<1> QED
  BY <1>1, <1>2, <1>3, <1>4, <1>5, <1>6, <1>7, <1>8, <1>9, <1>10, <1>11,
     <1>12, <1>13, <1>14, <1>15, <1>16, <1>17, <1>18, <1>19, <1>20, <1>21,
     <1>22, <1>23, <1>24, <1>25, <1>26, <1>27, <1>28, <1>29
  DEF Next, SetupStep, Restart, Install, Uninstall

\* A file that a process uses stays whole, and an endpoint's effect has its
\* class and its DLL unless a step has failed.
LEMMA FilesStep ==
  ASSUME TypeOK, FilesInv, DetachInv, Next
  PROVE  FilesInv'
<1> USE SetupAssumption
    DEF TypeOK, FilesInv, DetachInv, Goto, Fails, machine, procs, task, history, job,
        None, Cut, Whole, Point, Attached, NoBridge, Removing, ThisRestart
<1>1. CASE Start
  BY <1>1 DEF Start
<1>2. CASE PressInstall
  BY <1>2 DEF PressInstall, InUse
<1>3. CASE PressUninstall
  BY <1>3 DEF PressUninstall
<1>4. CASE Close
  BY <1>4 DEF Close
<1>5. CASE Killed
  BY <1>5 DEF Killed, CutShort
<1>6. CASE StopService
  BY <1>6 DEF StopService
<1>7. CASE AwaitStop
  BY <1>7 DEF AwaitStop
<1>8. CASE StartService
  BY <1>8 DEF StartService
<1>9. CASE CopyDll
  BY <1>9 DEF CopyDll
<1>10. CASE CopyExe
  BY <1>10 DEF CopyExe
<1>11. CASE Register
  BY <1>11 DEF Register
<1>12. CASE Attach
  BY <1>12 DEF Attach
<1>13. CASE AutoStart
  BY <1>13 DEF AutoStart
<1>14. CASE Launch
  BY <1>14 DEF Launch, WithBridge
<1>15. CASE Installed
  BY <1>15 DEF Installed
<1>16. CASE KillBridges
  BY <1>16 DEF KillBridges
<1>17. CASE NoAutoStart
  BY <1>17 DEF NoAutoStart
<1>18. ASSUME NEW d \in Devices, Detach(d) PROVE FilesInv'
  BY <1>18 DEF Detach
<1>19. CASE Unregister
  BY <1>19 DEF Unregister
<1>20. CASE DeleteDll
  BY <1>20 DEF DeleteDll
<1>21. CASE DeleteExe
  BY <1>21 DEF DeleteExe
<1>22. CASE Removed
  BY <1>22 DEF Removed
<1>23. CASE ServiceStops
  BY <1>23 DEF ServiceStops
<1>24. CASE FreeLibraries
  BY <1>24 DEF FreeLibraries
<1>25. CASE StartBridge
  BY <1>25 DEF StartBridge, WithBridge
<1>26. CASE Reboot
  BY <1>26 DEF Reboot, CutShort, WithBridge
<1>27. ASSUME NEW d \in Devices, Play(d) PROVE FilesInv'
  BY <1>27 DEF Play
<1>28. ASSUME NEW d \in Devices, EndPlay(d) PROVE FilesInv'
  BY <1>28 DEF EndPlay
<1>29. ASSUME NEW r \in Releases, BridgeEnds(r) PROVE FilesInv'
  BY <1>29 DEF BridgeEnds
<1> QED
  BY <1>1, <1>2, <1>3, <1>4, <1>5, <1>6, <1>7, <1>8, <1>9, <1>10, <1>11,
     <1>12, <1>13, <1>14, <1>15, <1>16, <1>17, <1>18, <1>19, <1>20, <1>21,
     <1>22, <1>23, <1>24, <1>25, <1>26, <1>27, <1>28, <1>29
  DEF Next, SetupStep, Restart, Install, Uninstall

\* What DoUninstall has removed does not come back while it works.
LEMMA UninstallStep ==
  ASSUME "startsDuring" \notin Hazards, TypeOK, ServiceInv, DetachInv, UninstallInv, Next
  PROVE  UninstallInv'
<1> USE SetupAssumption
    DEF TypeOK, ServiceInv, DetachInv, UninstallInv, Goto, Fails, machine, procs, task, history, job,
        None, Cut, Whole, Point, Attached, NoBridge, Removing, ThisRestart
<1>1. CASE Start
  BY <1>1 DEF Start
<1>2. CASE PressInstall
  BY <1>2 DEF PressInstall, InUse
<1>3. CASE PressUninstall
  BY <1>3 DEF PressUninstall
<1>4. CASE Close
  BY <1>4 DEF Close
<1>5. CASE Killed
  BY <1>5 DEF Killed, CutShort
<1>6. CASE StopService
  BY <1>6 DEF StopService
<1>7. CASE AwaitStop
  BY <1>7 DEF AwaitStop
<1>8. CASE StartService
  BY <1>8 DEF StartService
<1>9. CASE CopyDll
  BY <1>9 DEF CopyDll
<1>10. CASE CopyExe
  BY <1>10 DEF CopyExe
<1>11. CASE Register
  BY <1>11 DEF Register
<1>12. CASE Attach
  BY <1>12 DEF Attach
<1>13. CASE AutoStart
  BY <1>13 DEF AutoStart
<1>14. CASE Launch
  BY <1>14 DEF Launch, WithBridge
<1>15. CASE Installed
  BY <1>15 DEF Installed
<1>16. CASE KillBridges
  BY <1>16 DEF KillBridges
<1>17. CASE NoAutoStart
  BY <1>17 DEF NoAutoStart
<1>18. ASSUME NEW d \in Devices, Detach(d) PROVE UninstallInv'
  BY <1>18 DEF Detach
<1>19. CASE Unregister
  BY <1>19 DEF Unregister
<1>20. CASE DeleteDll
  BY <1>20 DEF DeleteDll
<1>21. CASE DeleteExe
  BY <1>21 DEF DeleteExe
<1>22. CASE Removed
  BY <1>22 DEF Removed
<1>23. CASE ServiceStops
  BY <1>23 DEF ServiceStops
<1>24. CASE FreeLibraries
  BY <1>24 DEF FreeLibraries
<1>25. CASE StartBridge
  BY <1>25 DEF StartBridge, WithBridge
<1>26. CASE Reboot
  BY <1>26 DEF Reboot, CutShort, WithBridge
<1>27. ASSUME NEW d \in Devices, Play(d) PROVE UninstallInv'
  BY <1>27 DEF Play
<1>28. ASSUME NEW d \in Devices, EndPlay(d) PROVE UninstallInv'
  BY <1>28 DEF EndPlay
<1>29. ASSUME NEW r \in Releases, BridgeEnds(r) PROVE UninstallInv'
  BY <1>29 DEF BridgeEnds
<1> QED
  BY <1>1, <1>2, <1>3, <1>4, <1>5, <1>6, <1>7, <1>8, <1>9, <1>10, <1>11,
     <1>12, <1>13, <1>14, <1>15, <1>16, <1>17, <1>18, <1>19, <1>20, <1>21,
     <1>22, <1>23, <1>24, <1>25, <1>26, <1>27, <1>28, <1>29
  DEF Next, SetupStep, Restart, Install, Uninstall

\* What a step of DoInstall has put in place stays there while it works.
LEMMA InstallStep ==
  ASSUME TypeOK, InstallInv, Next
  PROVE  InstallInv'
<1> USE SetupAssumption
    DEF TypeOK, InstallInv, Goto, Fails, machine, procs, task, history, job,
        None, Cut, Whole, Point, Attached, NoBridge, Afters, ThisRestart
<1>1. CASE Start
  BY <1>1 DEF Start
<1>2. CASE PressInstall
  BY <1>2 DEF PressInstall, InUse
<1>3. CASE PressUninstall
  BY <1>3 DEF PressUninstall
<1>4. CASE Close
  BY <1>4 DEF Close
<1>5. CASE Killed
  BY <1>5 DEF Killed, CutShort
<1>6. CASE StopService
  BY <1>6 DEF StopService
<1>7. CASE AwaitStop
  BY <1>7 DEF AwaitStop
<1>8. CASE StartService
  BY <1>8 DEF StartService
<1>9. CASE CopyDll
  BY <1>9 DEF CopyDll
<1>10. CASE CopyExe
  BY <1>10 DEF CopyExe
<1>11. CASE Register
  BY <1>11 DEF Register
<1>12. CASE Attach
  BY <1>12 DEF Attach
<1>13. CASE AutoStart
  BY <1>13 DEF AutoStart
<1>14. CASE Launch
  BY <1>14 DEF Launch, WithBridge
<1>15. CASE Installed
  BY <1>15 DEF Installed
<1>16. CASE KillBridges
  BY <1>16 DEF KillBridges
<1>17. CASE NoAutoStart
  BY <1>17 DEF NoAutoStart
<1>18. ASSUME NEW d \in Devices, Detach(d) PROVE InstallInv'
  BY <1>18 DEF Detach
<1>19. CASE Unregister
  BY <1>19 DEF Unregister
<1>20. CASE DeleteDll
  BY <1>20 DEF DeleteDll
<1>21. CASE DeleteExe
  BY <1>21 DEF DeleteExe
<1>22. CASE Removed
  BY <1>22 DEF Removed
<1>23. CASE ServiceStops
  BY <1>23 DEF ServiceStops
<1>24. CASE FreeLibraries
  BY <1>24 DEF FreeLibraries
<1>25. CASE StartBridge
  BY <1>25 DEF StartBridge, WithBridge
<1>26. CASE Reboot
  BY <1>26 DEF Reboot, CutShort, WithBridge
<1>27. ASSUME NEW d \in Devices, Play(d) PROVE InstallInv'
  BY <1>27 DEF Play
<1>28. ASSUME NEW d \in Devices, EndPlay(d) PROVE InstallInv'
  BY <1>28 DEF EndPlay
<1>29. ASSUME NEW r \in Releases, BridgeEnds(r) PROVE InstallInv'
  BY <1>29 DEF BridgeEnds
<1> QED
  BY <1>1, <1>2, <1>3, <1>4, <1>5, <1>6, <1>7, <1>8, <1>9, <1>10, <1>11,
     <1>12, <1>13, <1>14, <1>15, <1>16, <1>17, <1>18, <1>19, <1>20, <1>21,
     <1>22, <1>23, <1>24, <1>25, <1>26, <1>27, <1>28, <1>29
  DEF Next, SetupStep, Restart, Install, Uninstall

\* Where RIME is not in use, nothing makes audiodg load it before an endpoint
\* is attached, and no bridge runs before setup launches one.
LEMMA UnusedStep ==
  ASSUME TypeOK, UnusedInv, Next
  PROVE  UnusedInv'
<1> USE SetupAssumption
    DEF TypeOK, UnusedInv, Goto, Fails, machine, procs, task, history, job,
        None, Cut, Whole, Point, Attached, NoBridge, Afters, ThisRestart
<1>1. CASE Start
  BY <1>1 DEF Start
<1>2. CASE PressInstall
  BY <1>2 DEF PressInstall, InUse
<1>3. CASE PressUninstall
  BY <1>3 DEF PressUninstall
<1>4. CASE Close
  BY <1>4 DEF Close
<1>5. CASE Killed
  BY <1>5 DEF Killed, CutShort
<1>6. CASE StopService
  <2>1. Point' = Point /\ pc' \in {"await", then} /\ pc \notin {"closed", "idle"}
    BY <1>6 DEF StopService
  <2>2. /\ UNCHANGED <<fx, loaded, bridges, inUse>>
        /\ failed' \subseteq failed \cup {"stop", "firstRestart", "lastRestart"}
    BY <1>6 DEF StopService
  <2>3. pc' \notin {"closed", "idle"}
    BY <2>1
  <2> QED
    BY <2>1, <2>2, <2>3
<1>7. CASE AwaitStop
  BY <1>7 DEF AwaitStop
<1>8. CASE StartService
  <2>1. Point' = Point /\ pc' \in {"await", then} /\ pc \notin {"closed", "idle"}
    BY <1>8 DEF StartService
  <2>2. /\ UNCHANGED <<fx, loaded, bridges, inUse>>
        /\ failed' = failed
    BY <1>8 DEF StartService
  <2>3. pc' \notin {"closed", "idle"}
    BY <2>1
  <2> QED
    BY <2>1, <2>2, <2>3
<1>9. CASE CopyDll
  BY <1>9 DEF CopyDll
<1>10. CASE CopyExe
  BY <1>10 DEF CopyExe
<1>11. CASE Register
  BY <1>11 DEF Register
<1>12. CASE Attach
  BY <1>12 DEF Attach
<1>13. CASE AutoStart
  BY <1>13 DEF AutoStart
<1>14. CASE Launch
  BY <1>14 DEF Launch, WithBridge
<1>15. CASE Installed
  BY <1>15 DEF Installed
<1>16. CASE KillBridges
  BY <1>16 DEF KillBridges
<1>17. CASE NoAutoStart
  BY <1>17 DEF NoAutoStart
<1>18. ASSUME NEW d \in Devices, Detach(d) PROVE UnusedInv'
  BY <1>18 DEF Detach
<1>19. CASE Unregister
  BY <1>19 DEF Unregister
<1>20. CASE DeleteDll
  BY <1>20 DEF DeleteDll
<1>21. CASE DeleteExe
  BY <1>21 DEF DeleteExe
<1>22. CASE Removed
  BY <1>22 DEF Removed
<1>23. CASE ServiceStops
  BY <1>23 DEF ServiceStops
<1>24. CASE FreeLibraries
  BY <1>24 DEF FreeLibraries
<1>25. CASE StartBridge
  BY <1>25 DEF StartBridge, WithBridge
<1>26. CASE Reboot
  BY <1>26 DEF Reboot, CutShort, WithBridge
<1>27. ASSUME NEW d \in Devices, Play(d) PROVE UnusedInv'
  BY <1>27 DEF Play
<1>28. ASSUME NEW d \in Devices, EndPlay(d) PROVE UnusedInv'
  BY <1>28 DEF EndPlay
<1>29. ASSUME NEW r \in Releases, BridgeEnds(r) PROVE UnusedInv'
  BY <1>29 DEF BridgeEnds
<1> QED
  BY <1>1, <1>2, <1>3, <1>4, <1>5, <1>6, <1>7, <1>8, <1>9, <1>10, <1>11,
     <1>12, <1>13, <1>14, <1>15, <1>16, <1>17, <1>18, <1>19, <1>20, <1>21,
     <1>22, <1>23, <1>24, <1>25, <1>26, <1>27, <1>28, <1>29
  DEF Next, SetupStep, Restart, Install, Uninstall

\* Whoever moves, and also when setup is killed or the machine restarted, the
\* invariant stays.
LEMMA SetupStepInv ==
  ASSUME SetupInv, [Next]_vars
  PROVE  SetupInv'
<1>1. CASE Next
  <2>1. TypeOK' /\ ServiceInv'
    BY <1>1, TypeStep, ServiceStep DEF SetupInv
  <2>2. InstallInv' /\ UnusedInv'
    BY <1>1, InstallStep, UnusedStep DEF SetupInv
  <2>3. DetachInv' /\ FilesInv'
    BY <1>1, DetachStep, FilesStep DEF SetupInv
  <2>4. "startsDuring" \notin Hazards => UninstallInv'
    BY <1>1, UninstallStep DEF SetupInv
  <2> QED
    BY <2>1, <2>2, <2>3, <2>4 DEF SetupInv
<1>2. CASE UNCHANGED vars
  <2>1. UNCHANGED <<TypeOK, ServiceInv, FilesInv>>
    BY <1>2 DEF vars, TypeOK, ServiceInv, FilesInv, Attached, ThisRestart
  <2>2. UNCHANGED <<DetachInv, UninstallInv, InstallInv, UnusedInv>>
    BY <1>2 DEF vars, DetachInv, UninstallInv, InstallInv, UnusedInv, Point,
                Attached
  <2> QED
    BY <2>1, <2>2 DEF SetupInv
<1> QED
  BY <1>1, <1>2

\* Setup.cpp, DoInstall and DoUninstall: SetupInv holds whoever moves, whatever
\* fails and wherever setup is killed.
THEOREM SetupInvariant == Spec => []SetupInv
<1>1. Init => SetupInv
  BY InitSetup
<1>2. SetupInv /\ [Next]_vars => SetupInv'
  BY SetupStepInv
<1> QED
  BY <1>1, <1>2, PTL DEF Spec

\* An endpoint names an effect that audiodg cannot load only after a step of
\* setup has failed or a copy was cut short, and until that step is done again:
\* attaching comes after the DLL and its class, detaching before they go
\* (DoInstall step 5, DoUninstall steps 3 to 5).  An endpoint that EnumerateDevices
\* cannot read is one whose detaching fails.
THEOREM EndpointsLoadable == Spec => []NoDanglingEndpoint
<1>1. SetupInv => NoDanglingEndpoint
  BY DEF SetupInv, FilesInv, NoDanglingEndpoint
<1> QED
  BY <1>1, SetupInvariant, PTL

\* When DoUninstall says it is complete and none of its calls has failed,
\* nothing of RIME is left, unless somebody starts a bridge meanwhile.
THEOREM UninstallComplete ==
  ASSUME "startsDuring" \notin Hazards
  PROVE  Spec => []UninstallLeavesNothing
<1>1. SetupInv => UninstallLeavesNothing
  BY DEF SetupInv, DetachInv, UninstallInv, UninstallLeavesNothing, Point,
         Attached, Removing
<1> QED
  BY <1>1, SetupInvariant, PTL

\* When DoInstall says it is complete, each part is that of the package it came
\* from unless its own step has failed, whatever else has.
THEOREM InstallComplete == Spec => []OnlyFailedStepsMissing
<1>1. SetupInv => OnlyFailedStepsMissing
  BY DEF SetupInv, InstallInv, UnusedInv, OnlyFailedStepsMissing, Point, Afters
<1> QED
  BY <1>1, SetupInvariant, PTL

\* RestartAudioService gives Windows its sound back before either procedure
\* says it is complete, unless the service could not be opened or did not stop
\* within 5 seconds at that restart.
THEOREM ServiceRestarted == Spec => []SoundIsBack
<1>1. SetupInv => SoundIsBack
  BY DEF SetupInv, ServiceInv, SoundIsBack
<1> QED
  BY <1>1, SetupInvariant, PTL

===============================================================================
