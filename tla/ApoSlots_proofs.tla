--------------------------- MODULE ApoSlots_proofs ---------------------------
(***************************************************************************)
(* Machine-checked facts about ApoSlots, for any number of instances and   *)
(* slots, any clock width and any limit of the heartbeat's age.            *)
(***************************************************************************)
EXTENDS ApoSlots, TLAPS

\* What the sets of the model have in common with the numbers they consist of.
LEMMA Consts ==
  /\ 0 \in Slots /\ 0 \in Times /\ 1 \in Apos
  /\ NoId \notin Apos /\ NoSlot \notin Slots
  BY SlotsAssumption DEF Slots, Times, Apos, NoId, NoSlot

-----------------------------------------------------------------------------
(* Type correctness *)

LEMMA InitType == Init => TypeOK
<1> SUFFICES ASSUME Init PROVE TypeOK
  OBVIOUS
<1>1. hostIsRunning \in BOOLEAN /\ hostAlive \in BOOLEAN /\ leaked \in BOOLEAN
  BY DEF Init
<1>2. inLock \in [Apos -> BOOLEAN] /\ mapped \in [Apos -> BOOLEAN]
  BY DEF Init
<1> QED
  BY <1>1, <1>2, Consts DEF Init, TypeOK, Pcs

\* The locals of a thread that leaves its handler.
LEMMA ReturnType ==
  ASSUME TypeOK, NEW a \in Apos, Return(a)
  PROVE  /\ pc' \in [Apos -> Pcs]
         /\ scan' \in [Apos -> Slots]
         /\ now' \in [Apos -> Times]
         /\ seen' \in [Apos -> Apos \cup {NoId}]
         /\ heard' \in [Apos -> Times]
  BY Consts DEF TypeOK, Return, Pcs

LEMMA NextSlotType ==
  ASSUME TypeOK, NEW a \in Apos, NextSlot(a)
  PROVE  /\ pc' \in [Apos -> Pcs]
         /\ scan' \in [Apos -> Slots]
         /\ now' \in [Apos -> Times]
         /\ seen' \in [Apos -> Apos \cup {NoId}]
         /\ heard' \in [Apos -> Times]
         /\ inLock' \in [Apos -> BOOLEAN]
<1>1. CASE scan[a] + 1 \in Slots
  BY <1>1 DEF TypeOK, NextSlot, Pcs
<1>2. CASE scan[a] + 1 \notin Slots
  <2>1. Return(a) /\ inLock' = [inLock EXCEPT ![a] = TRUE]
    BY <1>2 DEF NextSlot
  <2>2. inLock' \in [Apos -> BOOLEAN]
    BY <2>1 DEF TypeOK
  <2> QED
    BY <2>1, <2>2, ReturnType
<1> QED
  BY <1>1, <1>2

LEMMA DropType ==
  ASSUME DropSection
  PROVE  /\ owner' \in [Slots -> Apos \cup {NoId}]
         /\ lastTime' \in [Slots -> Times]
         /\ master' \in Apos \cup {NoId}
         /\ masterTime' \in Times
         /\ hostIsRunning' \in BOOLEAN
  BY Consts DEF DropSection

LEMMA MapType ==
  ASSUME TypeOK, NEW a \in Apos
  PROVE  MapOutcomes(a) \subseteq BOOLEAN
  BY DEF TypeOK, MapOutcomes

LEMMA NextType == TypeOK /\ [Next]_vars => TypeOK'
<1> SUFFICES ASSUME TypeOK, [Next]_vars PROVE TypeOK'
  OBVIOUS
<1> USE Consts
<1>1. ASSUME NEW a \in Apos, Create(a) PROVE TypeOK'
  BY <1>1, SlotsAssumption, MapType DEF Create, Apos, TypeOK, Pcs, shared, locals
<1>2. ASSUME NEW a \in Apos, LockForProcess(a) PROVE TypeOK'
  <2>1. inLock' \in [Apos -> BOOLEAN]
    BY <1>2 DEF LockForProcess, TypeOK
  <2>2. leaked' \in BOOLEAN
    BY <1>2 DEF LockForProcess, TypeOK
  <2>3. mapped' \in [Apos -> BOOLEAN]
    BY <1>2, MapType DEF LockForProcess, TypeOK
  <2> QED
    BY <1>2, <2>1, <2>2, <2>3
       DEF LockForProcess, BeginClaim, TypeOK, Pcs, shared, locals
<1>3. ASSUME NEW a \in Apos, UnlockForProcess(a) PROVE TypeOK'
  BY <1>3 DEF UnlockForProcess, TypeOK, shared, env, locals
<1>4. ASSUME NEW a \in Apos, Destroy(a) PROVE TypeOK'
  BY <1>4, DropType DEF Destroy, ReleaseSlot, TypeOK, Pcs, env, locals
<1>5. ASSUME NEW a \in Apos, Enter(a) PROVE TypeOK'
  <2>1. mapped' \in [Apos -> BOOLEAN]
    <3>1. (IF mapped[a] THEN {TRUE} ELSE {FALSE} \cup MapOutcomes(a)) \subseteq BOOLEAN
      BY MapType
    <3>2. PICK m \in BOOLEAN : mapped' = [mapped EXCEPT ![a] = m]
      BY <1>5, <3>1 DEF Enter
    <3> QED
      BY <3>2 DEF TypeOK
  <2> QED
    BY <1>5, <2>1 DEF Enter, BeginClaim, TypeOK, Pcs, shared, env, locals
<1>6. ASSUME NEW a \in Apos, Verify(a) PROVE TypeOK'
  BY <1>6, ReturnType DEF Verify, TypeOK, Pcs, shared, env, locals
<1>7. ASSUME NEW a \in Apos, Scan(a) PROVE TypeOK'
  BY <1>7, NextSlotType DEF Scan, TypeOK, Pcs, shared, env
<1>8. ASSUME NEW a \in Apos, Cas(a) PROVE TypeOK'
  BY <1>8, NextSlotType DEF Cas, TypeOK, Pcs, env, locals
<1>9. ASSUME NEW a \in Apos, Stamp(a) PROVE TypeOK'
  <2>1. lastTime' \in [Slots -> Times]
    BY <1>9 DEF Stamp, TypeOK
  <2>2. CASE inLock[a]
    BY <1>9, <2>1, <2>2 DEF Stamp, TypeOK, Pcs, env
  <2>3. CASE ~ inLock[a]
    <3>1. Return(a) /\ inLock' = [inLock EXCEPT ![a] = TRUE]
      BY <1>9, <2>3 DEF Stamp
    <3>2. inLock' \in [Apos -> BOOLEAN]
      BY <3>1 DEF TypeOK
    <3> QED
      BY <1>9, <2>1, <3>1, <3>2, ReturnType DEF Stamp, TypeOK, env
  <2> QED
    BY <2>2, <2>3
<1>10. ASSUME NEW a \in Apos, Write(a) PROVE TypeOK'
  BY <1>10 DEF Write, TypeOK, Pcs, shared, env
<1>11. ASSUME NEW a \in Apos, Hear(a) \/ Decide(a) PROVE TypeOK'
  BY <1>11 DEF Hear, Decide, Judge, TypeOK, Pcs, shared, env
<1>12. ASSUME NEW a \in Apos, Crown(a) PROVE TypeOK'
  BY <1>12 DEF Crown, TypeOK, Pcs, env, locals
<1>13. ASSUME NEW a \in Apos, CrownTime(a) PROVE TypeOK'
  BY <1>13 DEF CrownTime, TypeOK, Pcs, env, locals
<1>14. ASSUME NEW a \in Apos, Play(a) \/ Beat(a) PROVE TypeOK'
  BY <1>14, ReturnType DEF Play, Beat, TypeOK, Pcs, shared, env
<1>15. ASSUME HostStart PROVE TypeOK'
  BY <1>15 DEF HostStart, TypeOK, locals
<1>16. ASSUME NEW flag \in BOOLEAN, HostEnd(flag) PROVE TypeOK'
  BY <1>16, DropType DEF HostEnd, TypeOK, locals
<1>17. ASSUME EngineCrash PROVE TypeOK'
  BY <1>17, DropType DEF EngineCrash, TypeOK, Pcs, shared
<1>18. ASSUME Tick PROVE TypeOK'
  BY <1>18, SlotsAssumption DEF Tick, Times, TypeOK, shared, locals
<1>19. CASE UNCHANGED vars
  BY <1>19 DEF vars, TypeOK
<1> QED
  BY <1>1, <1>2, <1>3, <1>4, <1>5, <1>6, <1>7, <1>8, <1>9, <1>10, <1>11, <1>12,
     <1>13, <1>14, <1>15, <1>16, <1>17, <1>18, <1>19
     DEF Next, Thread, HostStop, HostCrash, TypeOK

\* Every reachable state is type-correct.
THEOREM TypeCorrect == Spec => []TypeOK
  BY InitType, NextType, PTL DEF Spec

-----------------------------------------------------------------------------
(* What an instance holds, by the place of its thread *)

LEMMA InitPlace == Init => PlaceInv
  BY DEF Init, PlaceInv, Using, NoSlot

LEMMA NextPlace == TypeOK /\ PlaceInv /\ [Next]_vars => PlaceInv'
<1> SUFFICES ASSUME TypeOK, PlaceInv, [Next]_vars PROVE PlaceInv'
  OBVIOUS
<1> USE Consts DEF TypeOK, PlaceInv, Using, shared, env, locals
<1>1. ASSUME NEW a \in Apos, Create(a) PROVE PlaceInv'
  BY <1>1 DEF Create, MapOutcomes
<1>2. ASSUME NEW a \in Apos, LockForProcess(a) PROVE PlaceInv'
  BY <1>2 DEF LockForProcess, BeginClaim
<1>3. ASSUME NEW a \in Apos, UnlockForProcess(a) PROVE PlaceInv'
  BY <1>3 DEF UnlockForProcess
<1>4. ASSUME NEW a \in Apos, Destroy(a) PROVE PlaceInv'
  BY <1>4 DEF Destroy, ReleaseSlot, DropSection
<1>5. ASSUME NEW a \in Apos, Enter(a) PROVE PlaceInv'
  <2>1. PICK m \in IF mapped[a] THEN {TRUE} ELSE {FALSE} \cup MapOutcomes(a) :
          /\ mapped' = [mapped EXCEPT ![a] = m]
          /\ \/ UNCHANGED pc
             \/ m /\ mySlot[a] = NoSlot /\ pc' = [pc EXCEPT ![a] = "scan"]
             \/ mySlot[a] # NoSlot /\ pc' = [pc EXCEPT ![a] = "verify"]
    BY <1>5 DEF Enter, BeginClaim
  <2>2. mapped[a] => m
    BY <2>1
  <2>3. pc[a] = "idle" /\ UNCHANGED <<mySlot, scan, leaked>>
    BY <1>5 DEF Enter, BeginClaim
  <2> QED
    BY <2>1, <2>2, <2>3
<1>6. ASSUME NEW a \in Apos, Verify(a) PROVE PlaceInv'
  BY <1>6 DEF Verify, Return
<1>7. ASSUME NEW a \in Apos, Scan(a) PROVE PlaceInv'
  BY <1>7 DEF Scan, NextSlot, Return
<1>8. ASSUME NEW a \in Apos, Cas(a) PROVE PlaceInv'
  BY <1>8 DEF Cas, NextSlot, Return
<1>9. ASSUME NEW a \in Apos, Stamp(a) PROVE PlaceInv'
  BY <1>9 DEF Stamp, Return
<1>10. ASSUME NEW a \in Apos, Write(a) PROVE PlaceInv'
  BY <1>10 DEF Write
<1>11. ASSUME NEW a \in Apos, Hear(a) \/ Decide(a) PROVE PlaceInv'
  BY <1>11 DEF Hear, Decide, Judge
<1>12. ASSUME NEW a \in Apos, Crown(a) PROVE PlaceInv'
  BY <1>12 DEF Crown
<1>13. ASSUME NEW a \in Apos, CrownTime(a) PROVE PlaceInv'
  BY <1>13 DEF CrownTime
<1>14. ASSUME NEW a \in Apos, Play(a) \/ Beat(a) PROVE PlaceInv'
  BY <1>14 DEF Play, Beat, Return
<1>15. ASSUME HostStart PROVE PlaceInv'
  BY <1>15 DEF HostStart
<1>16. ASSUME NEW flag, HostEnd(flag) PROVE PlaceInv'
  BY <1>16 DEF HostEnd, DropSection
<1>17. ASSUME EngineCrash PROVE PlaceInv'
  BY <1>17 DEF EngineCrash, DropSection
<1>18. ASSUME Tick PROVE PlaceInv'
  BY <1>18 DEF Tick
<1>19. CASE UNCHANGED vars
  BY <1>19 DEF vars
<1> QED
  BY <1>1, <1>2, <1>3, <1>4, <1>5, <1>6, <1>7, <1>8, <1>9, <1>10, <1>11, <1>12, <1>13, <1>14, <1>15, <1>16, <1>17, <1>18, <1>19 DEF Next, Thread, HostStop, HostCrash

-----------------------------------------------------------------------------
(* Ids and slots agree *)

LEMMA InitId == Init => IdInv
  BY InitType, Consts DEF Init, IdInv, OneSlotPerId

LEMMA NextId ==
  ASSUME "engineCrash" \notin Hazards
  PROVE  IdInv /\ PlaceInv /\ [Next]_vars => IdInv'
<1> SUFFICES ASSUME IdInv, PlaceInv, [Next]_vars PROVE IdInv'
  OBVIOUS
<1> DEFINE Same == owner' = owner /\ mySlot' = mySlot
                   /\ \A a \in Apos : pc[a] = "gone" => pc'[a] = "gone"
<1> USE DEF IdInv, OneSlotPerId
<1>0. TypeOK'
  BY NextType
<1>1. CASE Same
  BY <1>0, <1>1 DEF TypeOK
<1>2. ASSUME NEW a \in Apos, Destroy(a) PROVE IdInv'
  BY <1>0, <1>2, Consts DEF Destroy, ReleaseSlot, DropSection, TypeOK
<1>3. ASSUME NEW a \in Apos, Verify(a) PROVE IdInv'
  BY <1>0, <1>3, Consts DEF Verify, Return, PlaceInv, TypeOK, shared
<1>4. ASSUME NEW a \in Apos, Cas(a) PROVE IdInv'
  <2>1. CASE owner[scan[a]] = seen[a]
    <3>1. /\ owner' = [owner EXCEPT ![scan[a]] = a]
          /\ mySlot' = [mySlot EXCEPT ![a] = scan[a]]
          /\ pc[a] = "cas" /\ pc' = [pc EXCEPT ![a] = "stamp"]
          /\ scan[a] \in Slots
      BY <1>4, <2>1 DEF Cas, TypeOK
    <3>2. \A j \in Slots : owner[j] # a
      BY <3>1, Consts DEF PlaceInv
    <3>3. OneSlotPerId'
      BY <3>1, <3>2 DEF TypeOK
    <3>4. \A i \in Slots, b \in Apos : owner'[i] = b /\ pc'[b] # "gone"
            => mySlot'[b] = i
      BY <3>1, <3>2 DEF TypeOK
    <3> QED
      BY <1>0, <3>3, <3>4
  <2>2. CASE owner[scan[a]] # seen[a]
    BY <1>0, <1>1, <1>4, <2>2 DEF Cas, NextSlot, Return, TypeOK
  <2> QED
    BY <2>1, <2>2
<1>5. ASSUME NEW flag, HostEnd(flag) PROVE IdInv'
  BY <1>0, <1>5, Consts DEF HostEnd, DropSection, TypeOK
<1>6. ASSUME NEW a \in Apos,
             \/ Create(a) \/ LockForProcess(a) \/ UnlockForProcess(a) \/ Enter(a)
             \/ Scan(a) \/ Stamp(a) \/ Write(a) \/ Hear(a) \/ Decide(a)
             \/ Crown(a) \/ CrownTime(a) \/ Play(a) \/ Beat(a)
      PROVE  Same
  BY <1>6 DEF Create, LockForProcess, UnlockForProcess, Enter, Scan, Stamp, Write,
       Hear, Decide, Judge, Crown, CrownTime, Play, Beat, BeginClaim, NextSlot, Return, TypeOK,
       shared, env, locals
<1>7. ASSUME HostStart \/ Tick \/ UNCHANGED vars PROVE Same
  BY <1>7 DEF HostStart, Tick, vars, shared
<1>8. ~ EngineCrash
  BY DEF EngineCrash
<1> QED
  BY <1>1, <1>2, <1>3, <1>4, <1>5, <1>6, <1>7, <1>8
     DEF Next, Thread, HostStop, HostCrash

\* While audiodg does not crash, an instance id is registered in one slot at
\* most, whatever the clock, the claims, the bridge and the mapping do.
THEOREM IdsUnique == "engineCrash" \notin Hazards => (Spec => []OneSlotPerId)
<1> SUFFICES ASSUME "engineCrash" \notin Hazards PROVE Spec => []OneSlotPerId
  OBVIOUS
<1>1. IdInv /\ PlaceInv /\ [Next]_vars => (IdInv /\ PlaceInv)'
  BY NextId, NextPlace DEF IdInv
<1>2. IdInv => OneSlotPerId
  BY DEF IdInv
<1> QED
  BY InitId, InitPlace, <1>1, <1>2, PTL DEF Spec

\* Nor does a living instance ever lose track of a slot registered to it.
THEOREM SlotsKnown == "engineCrash" \notin Hazards => (Spec => []SlotKnownToOwner)
<1> SUFFICES ASSUME "engineCrash" \notin Hazards PROVE Spec => []SlotKnownToOwner
  OBVIOUS
<1>1. IdInv /\ PlaceInv /\ [Next]_vars => (IdInv /\ PlaceInv)'
  BY NextId, NextPlace DEF IdInv
<1>2. IdInv => SlotKnownToOwner
  BY DEF IdInv, SlotKnownToOwner, Living
<1> QED
  BY InitId, InitPlace, <1>1, <1>2, PTL DEF Spec

\* A slot becomes free only by the end of its owner.
THEOREM OwnerFrees == "engineCrash" \notin Hazards => (Spec => FreedByOwnerOnly)
<1> SUFFICES ASSUME "engineCrash" \notin Hazards PROVE Spec => FreedByOwnerOnly
  OBVIOUS
<1> DEFINE Freed == \A i \in Slots : owner[i] # NoId /\ owner'[i] = NoId
                      => pc'[owner[i]] \in {"absent", "gone"}
<1>1. IdInv /\ PlaceInv /\ [Next]_vars => (IdInv /\ PlaceInv)'
  BY NextId, NextPlace DEF IdInv
<1>2. ASSUME IdInv, PlaceInv, [Next]_vars PROVE [Freed]_vars
  <2> USE DEF IdInv, Freed
  <2>1. CASE UNCHANGED owner
    BY <1>2, <2>1
  <2>2. ASSUME NEW a \in Apos, Destroy(a) PROVE Freed
    <3> SUFFICES ASSUME NEW i \in Slots, owner[i] # NoId, owner'[i] = NoId,
                        pc'[owner[i]] \notin {"absent", "gone"}
                 PROVE  FALSE
      OBVIOUS
    <3>1. owner[i] \in Apos /\ owner[i] # a /\ pc'[owner[i]] = pc[owner[i]]
      BY <1>2, <2>2 DEF Destroy, ReleaseSlot, TypeOK
    <3>2. mySlot[owner[i]] = i /\ (mapped[owner[i]] \/ leaked)
      BY <1>2, <3>1, Consts DEF PlaceInv
    <3> QED
      BY <2>2, <3>1, <3>2 DEF Destroy, ReleaseSlot
  <2>3. ASSUME NEW a \in Apos, Cas(a) PROVE Freed
    BY <1>2, <2>3, Consts DEF Cas, TypeOK
  <2>4. ASSUME NEW flag, HostEnd(flag) PROVE Freed
    BY <1>2, <2>4, Consts DEF HostEnd, PlaceInv, TypeOK
  <2>5. ASSUME NEW a \in Apos,
               \/ Create(a) \/ LockForProcess(a) \/ UnlockForProcess(a) \/ Enter(a)
               \/ Verify(a) \/ Scan(a) \/ Stamp(a) \/ Write(a) \/ Hear(a)
               \/ Decide(a) \/ Crown(a) \/ CrownTime(a) \/ Play(a) \/ Beat(a)
        PROVE  UNCHANGED owner
    BY <2>5 DEF Create, LockForProcess, UnlockForProcess, Enter, Verify, Scan,
         Stamp, Write, Hear, Decide, Judge, Crown, CrownTime, Play, Beat, shared
  <2>6. ASSUME HostStart \/ Tick \/ UNCHANGED vars PROVE UNCHANGED owner
    BY <2>6 DEF HostStart, Tick, vars, shared
  <2>7. ~ EngineCrash
    BY DEF EngineCrash
  <2> QED
    BY <1>2, <2>1, <2>2, <2>3, <2>4, <2>5, <2>6, <2>7
       DEF Next, Thread, HostStop, HostCrash
<1> QED
  BY InitId, InitPlace, <1>1, <1>2, PTL DEF Spec, FreedByOwnerOnly

-----------------------------------------------------------------------------
(* Using a slot and owning it, under every hazard *)

\* The steps by which an instance comes inside, or is inside and goes on.
LEMMA InsideStep ==
  ASSUME TypeOK, PlaceInv, [Next]_vars, NEW a \in Apos, Inside(a)'
  PROVE  \/ owner'[mySlot'[a]] = a
         \/ /\ Inside(a) /\ mySlot'[a] = mySlot[a]
            /\ \/ owner'[mySlot[a]] = owner[mySlot[a]]
               \/ owner[mySlot[a]] # a
               \/ \E b \in Apos \ {a} :
                    pc[b] = "cas" /\ seen[b] = a /\ owner'[mySlot[a]] = b
<1> DEFINE Goal ==
      \/ owner'[mySlot'[a]] = a
      \/ /\ Inside(a) /\ mySlot'[a] = mySlot[a]
         /\ \/ owner'[mySlot[a]] = owner[mySlot[a]]
            \/ owner[mySlot[a]] # a
            \/ \E b \in Apos \ {a} :
                 pc[b] = "cas" /\ seen[b] = a /\ owner'[mySlot[a]] = b
<1> SUFFICES Goal
  OBVIOUS
<1> USE Consts DEF TypeOK, PlaceInv, Inside, Using
<1>1. CASE Inside(a) /\ UNCHANGED <<owner, mySlot>>
  BY <1>1
<1>2. ASSUME NEW b \in Apos, Destroy(b) PROVE Goal
  <2>1. b # a /\ pc'[a] = pc[a] /\ mySlot'[a] = mySlot[a] /\ Inside(a)
    BY <1>2 DEF Destroy
  <2>2. mySlot[a] \in Slots /\ (mapped[a] \/ leaked)
    BY <2>1
  <2>3. owner' = [i \in Slots |-> IF i = mySlot[b] /\ mapped[b] /\ owner[i] = b
                                    THEN NoId ELSE owner[i]]
    BY <1>2, <2>1, <2>2 DEF Destroy, ReleaseSlot
  <2> QED
    BY <2>1, <2>2, <2>3
<1>3. ASSUME NEW b \in Apos, Verify(b) PROVE Goal
  BY <1>3 DEF Verify, Return, shared
<1>4. ASSUME NEW b \in Apos, Cas(b) PROVE Goal
  <2>1. CASE owner[scan[b]] = seen[b]
    <3>1. /\ owner' = [owner EXCEPT ![scan[b]] = b]
          /\ mySlot' = [mySlot EXCEPT ![b] = scan[b]]
          /\ pc' = [pc EXCEPT ![b] = "stamp"]
          /\ pc[b] = "cas"
      BY <1>4, <2>1 DEF Cas
    <3>2. CASE a = b
      BY <3>1, <3>2
    <3>3. CASE a # b
      <4>1. Inside(a) /\ mySlot'[a] = mySlot[a] /\ mySlot[a] \in Slots
        BY <3>1, <3>3
      <4>2. CASE mySlot[a] = scan[b] /\ owner[mySlot[a]] = a
        BY <2>1, <3>1, <3>3, <4>1, <4>2
      <4>3. CASE mySlot[a] # scan[b] \/ owner[mySlot[a]] # a
        BY <3>1, <4>1, <4>3
      <4> QED
        BY <4>2, <4>3
    <3> QED
      BY <3>2, <3>3
  <2>2. CASE owner[scan[b]] # seen[b]
    BY <1>1, <1>4, <2>2 DEF Cas, NextSlot, Return
  <2> QED
    BY <2>1, <2>2
<1>5. ASSUME NEW flag, HostEnd(flag) PROVE Goal
  BY <1>5 DEF HostEnd
<1>6. ASSUME NEW b \in Apos,
             \/ Create(b) \/ LockForProcess(b) \/ UnlockForProcess(b) \/ Enter(b)
             \/ Scan(b) \/ Stamp(b) \/ Write(b) \/ Hear(b) \/ Decide(b)
             \/ Crown(b) \/ CrownTime(b) \/ Play(b) \/ Beat(b)
      PROVE  Inside(a) /\ UNCHANGED <<owner, mySlot>>
  <2>1. UNCHANGED <<owner, mySlot>>
    BY <1>6 DEF Create, LockForProcess, UnlockForProcess, Enter, Scan, Stamp, Write,
       Hear, Decide, Judge, Crown, CrownTime, Play, Beat, shared
  <2>3. CASE Create(b) \/ LockForProcess(b) \/ UnlockForProcess(b) \/ Enter(b)
    <3>1. UNCHANGED pc \/ \E p \in {"idle", "scan", "verify"} : pc' = [pc EXCEPT ![b] = p]
      BY <2>3 DEF Create, LockForProcess, UnlockForProcess, Enter, BeginClaim
    <3> QED
      BY <2>1, <3>1
  <2>4. CASE Scan(b)
    <3>1. \E p \in {"idle", "scan", "cas"} : pc' = [pc EXCEPT ![b] = p]
      BY <2>4 DEF Scan, NextSlot, Return
    <3> QED
      BY <2>1, <3>1
  <2>5. CASE ~ (Create(b) \/ LockForProcess(b) \/ UnlockForProcess(b) \/ Enter(b) \/ Scan(b))
    BY <1>6, <2>1, <2>5
       DEF Stamp, Write, Hear, Decide, Judge, Crown, CrownTime, Play, Beat, Return
  <2> QED
    BY <2>3, <2>4, <2>5
<1>7. ASSUME HostStart \/ Tick \/ UNCHANGED vars
      PROVE  Inside(a) /\ UNCHANGED <<owner, mySlot>>
  BY <1>7 DEF HostStart, Tick, vars, shared
<1>8. ~ EngineCrash
  BY DEF EngineCrash
<1> QED
  BY <1>1, <1>2, <1>3, <1>4, <1>5, <1>6, <1>7, <1>8
     DEF Next, Thread, HostStop, HostCrash

LEMMA TypeAndPlace == Spec => [](TypeOK /\ PlaceInv)
<1>1. Init => TypeOK /\ PlaceInv
  BY InitType, InitPlace
<1>2. TypeOK /\ PlaceInv /\ [Next]_vars => (TypeOK /\ PlaceInv)'
  BY NextType, NextPlace
<1> QED
  BY <1>1, <1>2, PTL DEF Spec

\* Whatever the schedule, the bridge and audiodg do, an instance comes to work
\* on a slot as its owner and loses it there only to a compare-exchange.
THEOREM OwnersUse == Spec => UseIsOwned
<1> DEFINE Owned ==
      \A a \in Apos : Inside(a)' =>
        \/ owner'[mySlot'[a]] = a
        \/ Inside(a) /\ owner[mySlot[a]] # a
        \/ Inside(a) /\ \E b \in Apos \ {a} :
             pc[b] = "cas" /\ seen[b] = a /\ owner'[mySlot[a]] = b
<1>1. TypeOK /\ PlaceInv /\ [Next]_vars => Owned
  BY InsideStep
<1>2. TypeOK /\ PlaceInv /\ [Next]_vars => [Owned]_vars
  BY <1>1
<1> QED
  BY TypeAndPlace, <1>2, PTL DEF Spec, UseIsOwned

\* Two instances use one slot's rings only after one has been robbed of its
\* slot while it was working on it: nothing else leads to sharing, neither
\* bridge restarts and audiodg crashes nor overlapping claims as such.
THEOREM ExclusiveUse == Spec => (NobodyRobbed => []SlotExclusive)
<1> DEFINE Owns == \A a \in Apos : Inside(a) => owner[mySlot[a]] = a
           Safe == \A a \in Apos : ~ Robbed(a)
<1>1. Init => Owns
  BY DEF Init, Inside, Using
<1>2. ASSUME TypeOK, PlaceInv, Owns, [Next]_vars, [Safe]_vars PROVE Owns'
  <2>1. CASE UNCHANGED vars
    BY <1>2, <2>1 DEF vars, Inside, Using
  <2>2. CASE Safe
    <3> SUFFICES ASSUME NEW a \in Apos, Inside(a)' PROVE owner'[mySlot'[a]] = a
      OBVIOUS
    <3>1. Inside(a) => owner[mySlot[a]] = a
      BY <1>2
    <3>2. ~ Robbed(a)
      BY <2>2
    <3>3. owner'[mySlot'[a]] = a \/ Inside(a)
      BY <1>2, InsideStep
    <3> QED
      BY <3>1, <3>2, <3>3 DEF Robbed
  <2> QED
    BY <1>2, <2>1, <2>2
<1>3. Owns => SlotExclusive
  BY DEF Inside, SlotExclusive
<1> QED
  BY TypeAndPlace, <1>1, <1>2, <1>3, PTL DEF Spec, NobodyRobbed

-----------------------------------------------------------------------------
(* The protocol implements SlotLease *)

LEMMA LeaseInitially == Init => Lease!LeaseInit
  BY Consts DEF Init, Lease!LeaseInit, Tenant

LEMMA LeaseStep ==
  ASSUME TypeOK, PlaceInv, [Next]_vars
  PROVE  [Lease!HarshLeaseNext]_Tenant
<1> DEFINE Goal == [Lease!HarshLeaseNext]_Tenant
<1> USE Consts DEF Lease!HarshLeaseNext, Lease!LeaseNext, Lease!Rent, Lease!Vacate,
                   Lease!VacateAll, Lease!Evict
<1>1. CASE UNCHANGED <<owner, mySlot>>
  BY <1>1 DEF Tenant
<1>2. ASSUME NEW a \in Apos, Destroy(a) PROVE Goal
  <2>1. CASE DropSection
    <3>1. Tenant' = [i \in Slots |-> NoId]
      BY <2>1 DEF DropSection, Tenant
    <3> QED
      BY <3>1
  <2>2. CASE ReleaseSlot(a)
    <3>1. mySlot' = [mySlot EXCEPT ![a] = NoSlot]
      BY <1>2 DEF Destroy
    <3>2. ASSUME NEW j \in Slots
          PROVE  Tenant'[j] = IF Tenant[j] = a THEN NoId ELSE Tenant[j]
      <4>1. CASE owner[j] = a
        BY <2>2, <3>1, <4>1 DEF ReleaseSlot, Tenant, TypeOK
      <4>2. CASE owner[j] # a
        BY <2>2, <3>1, <4>2 DEF ReleaseSlot, Tenant, TypeOK
      <4> QED
        BY <4>1, <4>2
    <3>3. CASE \A j \in Slots : Tenant[j] # a
      <4>1. UNCHANGED Tenant
        BY <3>2, <3>3 DEF Tenant
      <4> QED
        BY <4>1
    <3>4. ASSUME NEW i \in Slots, Tenant[i] = a PROVE Goal
      <4>1. \A j \in Slots : Tenant[j] = a => j = i
        BY <3>4 DEF Tenant
      <4>2. Tenant' = [Tenant EXCEPT ![i] = NoId]
        BY <3>2, <3>4, <4>1 DEF Tenant
      <4> QED
        BY <3>4, <4>2
    <3> QED
      BY <3>3, <3>4
  <2> QED
    BY <1>2, <2>1, <2>2 DEF Destroy
<1>3. ASSUME NEW a \in Apos, Verify(a) PROVE UNCHANGED Tenant
  <2>1. CASE owner[mySlot[a]] = a
    BY <1>3, <2>1 DEF Verify, Tenant, shared
  <2>2. CASE owner[mySlot[a]] # a
    <3>1. owner' = owner /\ mySlot' = [mySlot EXCEPT ![a] = NoSlot]
      BY <1>3, <2>2 DEF Verify, shared
    <3>2. ASSUME NEW j \in Slots PROVE Tenant'[j] = Tenant[j]
      BY <2>2, <3>1 DEF Tenant, TypeOK
    <3> QED
      BY <3>2 DEF Tenant
  <2> QED
    BY <2>1, <2>2
<1>4. ASSUME NEW a \in Apos, Cas(a) PROVE Goal
  <2>1. CASE owner[scan[a]] = seen[a]
    <3> DEFINE i == scan[a]
    <3>1. /\ owner' = [owner EXCEPT ![i] = a]
          /\ mySlot' = [mySlot EXCEPT ![a] = i]
          /\ i \in Slots /\ mySlot[a] = NoSlot
      BY <1>4, <2>1 DEF Cas, TypeOK, PlaceInv
    <3>2. \A j \in Slots : Tenant[j] # a
      BY <3>1 DEF Tenant
    <3>3. Tenant' = [Tenant EXCEPT ![i] = a]
      <4>1. ASSUME NEW j \in Slots
            PROVE  Tenant'[j] = IF j = i THEN a ELSE Tenant[j]
        <5>1. CASE j = i
          BY <3>1, <5>1 DEF Tenant, TypeOK
        <5>2. CASE j # i /\ owner[j] = a
          BY <3>1, <5>2 DEF Tenant, TypeOK
        <5>3. CASE j # i /\ owner[j] # a
          BY <3>1, <5>3 DEF Tenant, TypeOK
        <5> QED
          BY <5>1, <5>2, <5>3
      <4> QED
        BY <4>1 DEF Tenant
    <3>4. Lease!Rent(i, a) \/ Lease!Evict(i, a)
      BY <3>1, <3>2, <3>3
    <3> QED
      BY <3>1, <3>4
  <2>2. CASE owner[scan[a]] # seen[a]
    BY <1>1, <1>4, <2>2 DEF Cas
  <2> QED
    BY <2>1, <2>2
<1>5. ASSUME NEW flag, HostEnd(flag) PROVE Goal
  <2>1. CASE UNCHANGED owner
    BY <1>1, <1>5, <2>1 DEF HostEnd
  <2>2. CASE DropSection
    <3>1. Tenant' = [j \in Slots |-> NoId]
      BY <2>2 DEF DropSection, Tenant
    <3> QED
      BY <3>1
  <2> QED
    BY <1>5, <2>1, <2>2 DEF HostEnd
<1>6. ASSUME EngineCrash PROVE Goal
  <2>1. Tenant' = [i \in Slots |-> NoId]
    <3>1. TypeOK'
      BY NextType
    <3> QED
      BY <1>6, <3>1 DEF EngineCrash, Tenant, TypeOK
  <2> QED
    BY <2>1
<1>7. ASSUME NEW a \in Apos,
             \/ Create(a) \/ LockForProcess(a) \/ UnlockForProcess(a) \/ Enter(a)
             \/ Scan(a) \/ Stamp(a) \/ Write(a) \/ Hear(a) \/ Decide(a)
             \/ Crown(a) \/ CrownTime(a) \/ Play(a) \/ Beat(a)
      PROVE  UNCHANGED <<owner, mySlot>>
  BY <1>7 DEF Create, LockForProcess, UnlockForProcess, Enter, Scan, Stamp, Write,
       Hear, Decide, Judge, Crown, CrownTime, Play, Beat, shared
<1>8. ASSUME HostStart \/ Tick \/ UNCHANGED vars PROVE UNCHANGED <<owner, mySlot>>
  BY <1>8 DEF HostStart, Tick, vars, shared
<1> QED
  BY <1>1, <1>2, <1>3, <1>4, <1>5, <1>6, <1>7, <1>8
     DEF Next, Thread, HostStop, HostCrash

\* Whatever happens, the slots are rented out one to a tenant and one tenant to
\* a slot, and the only departure from SlotLease is the eviction of a tenant by
\* one that has no slot.
THEOREM ImplementsHarshLease == Spec => HarshLeaseSpec
<1>1. TypeOK /\ PlaceInv /\ [Next]_vars => [Lease!HarshLeaseNext]_Tenant
  BY LeaseStep
<1> QED
  BY LeaseInitially, TypeAndPlace, <1>1, PTL
     DEF Spec, HarshLeaseSpec, Lease!HarshLeaseSpec

=============================================================================
