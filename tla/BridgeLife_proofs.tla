-------------------------- MODULE BridgeLife_proofs --------------------------
(***************************************************************************)
(* Proofs about module BridgeLife, for any number of autosaves.  JoinInv   *)
(* is inductive as long as the console is not closed while main starts,    *)
(* also when window and console are closed at once: the processing thread  *)
(* is joinable until an ender joined it, an ender detaches only after      *)
(* that, and the flag is up exactly as long as the view is mapped.  With   *)
(* enders that do not overlap (Hazards = {}) LifeInv is inductive too.     *)
(***************************************************************************)
EXTENDS BridgeLife, TLAPS

\* The bridge starts in the invariant.
LEMMA InitLife ==
  ASSUME Init
  PROVE  LifeInv
<1> USE LifeAssumption
    DEF Init, MainEnds, Enders, Streams, Trackers, Helpers, Files, MainPcs, HandlerPcs, Starting,
        SavePcs, ShutdownPcs, LeavePcs, AfterJoin, AfterDetach
<1>1. FlagsOK
  BY DEF FlagsOK
<1>2. pc \in [Enders -> MainPcs \cup HandlerPcs]
  OBVIOUS
<1>3. pc["main"] \in MainPcs /\ pc["handler"] \in HandlerPcs
  OBVIOUS
<1>4. thread \in [Helpers -> {"none", "on", "caught", "ended"}] /\ on \subseteq Helpers
  OBVIOUS
<1>5. file \in [Files -> {"old", "cut", "new"}] /\ saves \in 0 .. MaxSaves
  OBVIOUS
<1>6. TypeOK
  BY <1>1, <1>2, <1>3, <1>4, <1>5 DEF TypeOK
<1>7. StartsAlone /\ LetGo /\ EndersApart
  BY DEF StartsAlone, LetGo, EndersApart
<1>8. ThreadOwned
  BY DEF ThreadOwned
<1>9. ViewOwned /\ Served
  BY DEF ViewOwned, Served
<1> QED
  BY <1>6, <1>7, <1>8, <1>9 DEF LifeInv, JoinInv, NoUseAfterUnmap

\* Every step keeps the Boolean variables Boolean.
LEMMA FlagsStep ==
  ASSUME FlagsOK, [Next]_vars
  PROVE  FlagsOK'
<1> USE DEF FlagsOK, Next, Main, Handler, Save, Shutdown, Leave, vars, session, streams, ui, disk,
           IpcInit, StreamInit, LoadFails, Load, Track, Show, CloseWindow, Start,
           Autosave, Quit, Clear, MainReturns, SaveBegin, SaveOpen, SaveWrite,
           Halt, Join, StopStream, JoinStream, Detach, Ctrl, Post,
           HandlerReturns, Proc, ProcLook, ProcRead, ProcProcess, ProcWrite,
           StreamEnds, TrackerCaught, Crash
<1>1. engineSet' \in BOOLEAN
  OBVIOUS
<1>2. quit' \in BOOLEAN
  OBVIOUS
<1>3. window' \in BOOLEAN
  OBVIOUS
<1>4. view' \in BOOLEAN
  OBVIOUS
<1>5. flag' \in BOOLEAN
  OBVIOUS
<1>6. running' \in BOOLEAN
  OBVIOUS
<1>7. joinable' \in BOOLEAN
  OBVIOUS
<1> QED
  BY <1>1, <1>2, <1>3, <1>4, <1>5, <1>6, <1>7

PcOK ==
  /\ pc \in [Enders -> MainPcs \cup HandlerPcs]
  /\ pc["main"] \in MainPcs /\ pc["handler"] \in HandlerPcs

\* Every step leaves both enders where they can be.
LEMMA PcStep ==
  ASSUME PcOK, [Next]_vars
  PROVE  PcOK'
<1> USE DEF PcOK, Enders, Streams, Trackers, Helpers, Files, MainPcs, HandlerPcs, Starting, SavePcs,
            ShutdownPcs, LeavePcs, At, Goto
<1>1. CASE IpcInit
  BY <1>1 DEF IpcInit
<1>2. CASE StreamInit("capture", "keepAliveInit") \/ StreamInit("keepAlive", "load")
  BY <1>2 DEF StreamInit, InitOf
<1>3. CASE LoadFails \/ Load \/ Track \/ Show \/ CloseWindow
  BY <1>3 DEF LoadFails, Load, Track, Show, CloseWindow
<1>4. CASE Start
  BY <1>4 DEF Start
<1>5. CASE Autosave \/ Quit \/ Clear \/ MainReturns
  BY <1>5 DEF Autosave, Quit, Clear, MainReturns
<1>6. ASSUME NEW t \in Enders, SaveBegin(t)
      PROVE  PcOK'
  <2>1. CASE t = "main"
    BY <1>6, <2>1 DEF SaveBegin, OpenOf, SaveDone, MainSaved
  <2>2. CASE t = "handler"
    BY <1>6, <2>2 DEF SaveBegin, OpenOf, SaveDone, MainSaved
  <2> QED
    BY <2>1, <2>2
<1>7. ASSUME NEW t \in Enders, NEW f \in Files, SaveOpen(t, f) \/ SaveWrite(t, f)
      PROVE  PcOK'
  <2>1. CASE SaveOpen(t, f)
    BY <2>1 DEF SaveOpen, WriteOf
  <2>2. CASE SaveWrite(t, f) /\ t = "main"
    BY <2>2 DEF SaveWrite, OpenOf, SaveDone, MainSaved
  <2>3. CASE SaveWrite(t, f) /\ t = "handler"
    BY <2>3 DEF SaveWrite, OpenOf, SaveDone, MainSaved
  <2> QED
    BY <1>7, <2>1, <2>2, <2>3
<1>8. ASSUME NEW t \in Enders, Halt(t)
      PROVE  PcOK'
  BY <1>8 DEF Halt
<1>9. ASSUME NEW t \in Enders, Join(t)
      PROVE  PcOK'
  BY <1>9 DEF Join
<1>10. ASSUME NEW t \in Enders, NEW s \in Helpers, StopStream(t, s) \/ JoinStream(t, s)
       PROVE  PcOK'
  BY <1>10 DEF StopStream, JoinStream, StopOf, JoinOf, AfterOf
<1>11. ASSUME NEW t \in Enders, Detach(t)
       PROVE  PcOK'
  BY <1>11 DEF Detach, StopOf
<1>12. ASSUME NEW type \in {"c", "close"}, Ctrl(type)
       PROVE  PcOK'
  BY <1>12 DEF Ctrl
<1>13. CASE Post \/ HandlerReturns
  BY <1>13 DEF Post, HandlerReturns
<1>14. CASE Proc
  BY <1>14 DEF Proc, ProcLook, ProcRead, ProcProcess, ProcWrite
<1>15. ASSUME NEW s \in Helpers, StreamEnds(s) \/ TrackerCaught(s)
       PROVE  PcOK'
  BY <1>15 DEF StreamEnds, TrackerCaught
<1>16. CASE Crash
  BY <1>16 DEF Crash
<1>17. CASE UNCHANGED vars
  BY <1>17 DEF vars
<1> QED
  BY <1>1, <1>2, <1>3, <1>4, <1>5, <1>6, <1>7, <1>8, <1>9, <1>10, <1>11, <1>12,
     <1>13, <1>14, <1>15, <1>16, <1>17
     DEF Next, Main, Handler, Save, Shutdown, Leave, Enders, Helpers

\* Every step keeps every variable to its type.
LEMMA TypeStep ==
  ASSUME TypeOK, [Next]_vars
  PROVE  TypeOK'
<1> USE DEF TypeOK, Next, Main, Handler, Save, Shutdown, Leave, vars, session, streams, ui, disk,
           IpcInit, StreamInit, LoadFails, Load, Track, Show, CloseWindow, Start,
           Autosave, Quit, Clear, MainReturns, SaveBegin, SaveOpen, SaveWrite,
           Halt, Join, StopStream, JoinStream, Detach, Ctrl, Post,
           HandlerReturns, Proc, ProcLook, ProcRead, ProcProcess, ProcWrite,
           StreamEnds, TrackerCaught, Crash
<1>1. FlagsOK' /\ PcOK'
  BY FlagsStep, PcStep DEF PcOK
<1>2. process' \in {"alive", "returned", "closed", "crashed"}
  OBVIOUS
<1>3. ctrlType' \in {"none", "c", "close"}
  OBVIOUS
<1>4. proc' \in {"none", "wait", "read", "reading", "writing", "ended"}
  OBVIOUS
<1>5. on' \subseteq Helpers
  BY DEF Helpers, Streams, Trackers
<1>6. thread' \in [Helpers -> {"none", "on", "caught", "ended"}]
  BY DEF Helpers, Streams, Trackers
<1>7. file' \in [Files -> {"old", "cut", "new"}]
  OBVIOUS
<1>8. saves' \in 0 .. MaxSaves
  BY LifeAssumption
<1> QED
  BY <1>1, <1>2, <1>3, <1>4, <1>5, <1>6, <1>7, <1>8 DEF PcOK

\* Who starts, owns and lets go of what: JoinInv but for Served.
Owned == TypeOK /\ StartsAlone /\ LetGo /\ ThreadOwned /\ ViewOwned /\ NoUseAfterUnmap

\* Each step of main's own, of saving, of shutting down, of the handler's own
\* and of the engine's threads keeps the invariant.
LEMMA OwnedStep ==
  ASSUME "earlyCtrl" \notin Hazards, JoinInv, [Next]_vars
  PROVE  Owned'
<1> USE LifeAssumption
    DEF Owned, JoinInv, TypeOK, StartsAlone, LetGo, ThreadOwned, ViewOwned, NoUseAfterUnmap,
        MainEnds, Enders, Streams, Trackers, Helpers, Files, MainPcs, HandlerPcs, Starting,
        SavePcs, ShutdownPcs, LeavePcs, AfterJoin, AfterDetach, At, Goto, Alive,
        session, streams, ui, disk
<1>0. TypeOK'
  BY TypeStep DEF JoinInv
<1>1. CASE IpcInit
  BY <1>0, <1>1 DEF IpcInit
<1>2. CASE StreamInit("capture", "keepAliveInit") \/ StreamInit("keepAlive", "load")
  BY <1>0, <1>2 DEF StreamInit, InitOf
<1>3. CASE LoadFails \/ Load \/ Track \/ Show \/ CloseWindow
  BY <1>0, <1>3 DEF LoadFails, Load, Track, Show, CloseWindow
<1>4. CASE Start
  BY <1>0, <1>4 DEF Start
<1>5. CASE Autosave \/ Quit \/ Clear \/ MainReturns
  BY <1>0, <1>5 DEF Autosave, Quit, Clear, MainReturns
<1>6. ASSUME NEW t \in Enders, SaveBegin(t)
      PROVE  Owned'
  BY <1>0, <1>6 DEF SaveBegin, SaveDone, MainSaved, OpenOf
<1>7. ASSUME NEW t \in Enders, NEW f \in Files, SaveOpen(t, f) \/ SaveWrite(t, f)
      PROVE  Owned'
  BY <1>0, <1>7 DEF SaveOpen, SaveWrite, SaveDone, MainSaved, OpenOf, WriteOf
<1>8. ASSUME NEW t \in Enders, Halt(t)
      PROVE  Owned'
  BY <1>0, <1>8 DEF Halt
<1>9. ASSUME NEW t \in Enders, Join(t)
      PROVE  Owned'
  BY <1>0, <1>9 DEF Join
<1>10. ASSUME NEW t \in Enders, NEW s \in Helpers, StopStream(t, s) \/ JoinStream(t, s)
       PROVE  Owned'
  BY <1>0, <1>10 DEF StopStream, JoinStream, StopOf, JoinOf, AfterOf
<1>11. ASSUME NEW t \in Enders, Detach(t)
       PROVE  Owned'
  <2>1. view' = FALSE /\ flag' = FALSE
    BY <1>11 DEF Detach, FlagsOK, StopOf
  <2>2. StartsAlone' /\ LetGo'
    BY <1>11 DEF Detach, StopOf
  <2>3. ThreadOwned'
    BY <1>11 DEF Detach, StopOf
  <2>4. ViewOwned'
    BY <1>11, <2>1 DEF Detach, StopOf
  <2>5. NoUseAfterUnmap'
    BY <1>11, <2>1 DEF Detach, StopOf
  <2> QED
    BY <1>0, <2>2, <2>3, <2>4, <2>5
<1>12. ASSUME NEW type \in {"c", "close"}, Ctrl(type)
       PROVE  Owned'
  BY <1>0, <1>12 DEF Ctrl
<1>13. CASE Post \/ HandlerReturns
  BY <1>0, <1>13 DEF Post, HandlerReturns
<1>14. CASE Proc
  BY <1>0, <1>14 DEF Proc, ProcLook, ProcRead, ProcProcess, ProcWrite
<1>15. ASSUME NEW s \in Helpers, StreamEnds(s) \/ TrackerCaught(s)
       PROVE  Owned'
  BY <1>0, <1>15 DEF StreamEnds, TrackerCaught
<1>16. CASE Crash
  BY <1>0, <1>16 DEF Crash
<1>17. CASE UNCHANGED vars
  BY <1>0, <1>17 DEF vars
<1> QED
  BY <1>1, <1>2, <1>3, <1>4, <1>5, <1>6, <1>7, <1>8, <1>9, <1>10, <1>11, <1>12,
     <1>13, <1>14, <1>15, <1>16, <1>17
     DEF Next, Main, Handler, Save, Shutdown, Leave, Enders, Helpers

\* The processing thread that start has created serves until an ender halts it.
LEMMA ServedStep ==
  ASSUME JoinInv, [Next]_vars
  PROVE  Served'
<1> USE DEF Served, JoinInv, TypeOK, StartsAlone, LetGo, FlagsOK, MainEnds, Enders,
        Starting, SavePcs, ShutdownPcs, LeavePcs, At, Goto, Alive, session, streams, ui, disk
<1>1. CASE IpcInit \/ StreamInit("capture", "keepAliveInit")
           \/ StreamInit("keepAlive", "load") \/ LoadFails \/ Load
  BY <1>1 DEF IpcInit, StreamInit, InitOf, LoadFails, Load
<1>2. CASE Start
  BY <1>2 DEF Start
<1>3. CASE Track \/ Show \/ CloseWindow \/ Autosave \/ Quit \/ Clear \/ MainReturns
  BY <1>3 DEF Track, Show, CloseWindow, Autosave, Quit, Clear, MainReturns
<1>4. ASSUME NEW t \in Enders, SaveBegin(t)
      PROVE  Served'
  BY <1>4 DEF SaveBegin, SaveDone, MainSaved, OpenOf
<1>5. ASSUME NEW t \in Enders, NEW f \in Files, SaveOpen(t, f) \/ SaveWrite(t, f)
      PROVE  Served'
  BY <1>5 DEF SaveOpen, SaveWrite, SaveDone, MainSaved, OpenOf, WriteOf, Files
<1>6. ASSUME NEW t \in Enders, Halt(t) \/ Join(t) \/ Detach(t)
      PROVE  Served'
  BY <1>6 DEF Halt, Join, Detach, StopOf
<1>7. ASSUME NEW t \in Enders, NEW s \in Helpers, StopStream(t, s) \/ JoinStream(t, s)
      PROVE  Served'
  BY <1>7 DEF StopStream, JoinStream, StopOf, JoinOf, AfterOf, Streams, Trackers, Helpers
<1>8. ASSUME NEW type \in {"c", "close"}, Ctrl(type)
      PROVE  Served'
  BY <1>8 DEF Ctrl
<1>9. CASE Post \/ HandlerReturns
  BY <1>9 DEF Post, HandlerReturns
<1>10. CASE Proc
  BY <1>10 DEF Proc, ProcLook, ProcRead, ProcProcess, ProcWrite
<1>11. CASE Crash \/ \E s \in Helpers : StreamEnds(s) \/ TrackerCaught(s)
  BY <1>11 DEF Crash, StreamEnds, TrackerCaught
<1>12. CASE UNCHANGED vars
  BY <1>12 DEF vars
<1> QED
  BY <1>1, <1>2, <1>3, <1>4, <1>5, <1>6, <1>7, <1>8, <1>9, <1>10, <1>11, <1>12
     DEF Next, Main, Handler, Save, Shutdown, Leave, Enders, Helpers

\* JoinInv is an invariant of the bridge unless the console is closed too early.
LEMMA JoinInvariant ==
  ASSUME "earlyCtrl" \notin Hazards
  PROVE  Spec => []JoinInv
<1>1. Init => JoinInv
  BY InitLife DEF LifeInv
<1>2. JoinInv /\ [Next]_vars => JoinInv'
  BY OwnedStep, ServedStep DEF JoinInv, Owned
<1> QED
  BY <1>1, <1>2, PTL DEF Spec

\* Enders that may not overlap do not.
LEMMA ApartStep ==
  ASSUME Hazards = {}, JoinInv, EndersApart, [Next]_vars
  PROVE  EndersApart'
<1> USE DEF JoinInv, TypeOK, StartsAlone, LetGo, ViewOwned, EndersApart, MainEnds, Enders,
        Streams, Trackers, Helpers, Files, MainPcs, HandlerPcs, Starting, SavePcs, ShutdownPcs, LeavePcs, AfterDetach,
        At, Goto, Alive, session, streams, ui, disk
<1>1. CASE IpcInit
  BY <1>1 DEF IpcInit
<1>2. CASE StreamInit("capture", "keepAliveInit") \/ StreamInit("keepAlive", "load")
  BY <1>2 DEF StreamInit, InitOf
<1>3. CASE LoadFails \/ Load \/ Track \/ Show \/ CloseWindow
  BY <1>3 DEF LoadFails, Load, Track, Show, CloseWindow
<1>4. CASE Start
  BY <1>4 DEF Start
<1>5. CASE Autosave \/ Quit \/ Clear \/ MainReturns
  BY <1>5 DEF Autosave, Quit, Clear, MainReturns
<1>6. ASSUME NEW t \in Enders, SaveBegin(t)
      PROVE  EndersApart'
  BY <1>6 DEF SaveBegin, SaveDone, MainSaved, OpenOf
<1>7. ASSUME NEW t \in Enders, NEW f \in Files, SaveOpen(t, f) \/ SaveWrite(t, f)
      PROVE  EndersApart'
  BY <1>7 DEF SaveOpen, SaveWrite, SaveDone, MainSaved, OpenOf, WriteOf
<1>8. ASSUME NEW t \in Enders, Halt(t)
      PROVE  EndersApart'
  BY <1>8 DEF Halt
<1>9. ASSUME NEW t \in Enders, Join(t)
      PROVE  EndersApart'
  BY <1>9 DEF Join
<1>10. ASSUME NEW t \in Enders, NEW s \in Helpers, StopStream(t, s) \/ JoinStream(t, s)
       PROVE  EndersApart'
  BY <1>10 DEF StopStream, JoinStream, StopOf, JoinOf, AfterOf
<1>11. ASSUME NEW t \in Enders, Detach(t)
       PROVE  EndersApart'
  BY <1>11 DEF Detach, StopOf
<1>12. ASSUME NEW type \in {"c", "close"}, Ctrl(type)
       PROVE  EndersApart'
  BY <1>12 DEF Ctrl
<1>13. CASE Post \/ HandlerReturns
  BY <1>13 DEF Post, HandlerReturns
<1>14. CASE Proc
  BY <1>14 DEF Proc, ProcLook, ProcRead, ProcProcess, ProcWrite
<1>15. ASSUME NEW s \in Helpers, StreamEnds(s) \/ TrackerCaught(s)
       PROVE  EndersApart'
  BY <1>15 DEF StreamEnds, TrackerCaught
<1>16. CASE Crash
  BY <1>16 DEF Crash
<1>17. CASE UNCHANGED vars
  BY <1>17 DEF vars
<1> QED
  BY <1>1, <1>2, <1>3, <1>4, <1>5, <1>6, <1>7, <1>8, <1>9, <1>10, <1>11, <1>12,
     <1>13, <1>14, <1>15, <1>16, <1>17
     DEF Next, Main, Handler, Save, Shutdown, Leave, Enders, Helpers

\* LifeInv is an invariant of the bridge if only one of them is closed.
LEMMA LifeStep ==
  ASSUME Hazards = {}, LifeInv, [Next]_vars
  PROVE  LifeInv'
BY OwnedStep, ServedStep, ApartStep DEF LifeInv, JoinInv, Owned

LEMMA LifeInvariant ==
  ASSUME Hazards = {}
  PROVE  Spec => []LifeInv
BY InitLife, LifeStep, PTL DEF Spec

\* Every variable keeps to its type, in every life of the bridge.
THEOREM TypeCorrect == Spec => []TypeOK
<1>1. Init => TypeOK
  BY InitLife DEF LifeInv, JoinInv
<1> QED
  BY <1>1, TypeStep, PTL DEF Spec

\* The processing thread never works on the IPC block after either ender has
\* unmapped it, also when both are at work.
THEOREM JoinedBeforeUnmap ==
  ASSUME "earlyCtrl" \notin Hazards
  PROVE  Spec => []NoUseAfterUnmap
<1>1. JoinInv => NoUseAfterUnmap
  BY DEF JoinInv
<1> QED
  BY <1>1, JoinInvariant, PTL

\* A bridge that ends by itself leaves hostIsRunning lowered, on every path.
THEOREM FlagLowered ==
  ASSUME Hazards = {}
  PROVE  Spec => []FlagLoweredAtEnd
<1>1. LifeInv => FlagLoweredAtEnd
  BY DEF LifeInv, JoinInv, EndersApart, ViewOwned, FlagLoweredAtEnd
<1> QED
  BY <1>1, LifeInvariant, PTL

\* While main is in its message loop and nobody is shutting the bridge down, a
\* raised hostIsRunning means that the processing thread is there to serve.
THEOREM FlagIsServed ==
  ASSUME "earlyCtrl" \notin Hazards
  PROVE  Spec => []AnnouncedIsServed
<1>1. JoinInv => AnnouncedIsServed
  BY DEF JoinInv, TypeOK, HandlerPcs, LetGo, ViewOwned, AfterDetach, Served,
         SavePcs, ShutdownPcs, LeavePcs, AnnouncedIsServed
<1> QED
  BY <1>1, JoinInvariant, PTL

=============================================================================
