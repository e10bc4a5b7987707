--------------------------- MODULE SlotMix_proofs ---------------------------
(***************************************************************************)
(* Proofs about SlotMix: the rings are race free, no audio of an earlier   *)
(* tenant survives a claim's flush, and whole blocks are mixed, for every  *)
(* number of slots and every size of ring, block and period.               *)
(***************************************************************************)
EXTENDS SlotMix, TLAPS

USE MixAssumption

\* The initial state satisfies the invariant.
LEMMA InitMix == Init => MixInv
BY DEF Init, MixInv, TypeOK, Pending, RingsRaceFree, Owing, HotIsRented, Waited, OldAudioForgotten, Slots

\* A stamp touches nothing but the heartbeat and what the gate will make of it.
LEMMA StampKeeps ==
  ASSUME TypeOK, Owing, Waited, NEW i \in Slots, Stamp(i), bpc' = bpc, bi' = bi
  PROVE  /\ hot' \in [Slots -> BOOLEAN]
         /\ recent' \subseteq Slots /\ began' \subseteq began
         /\ \A j \in recent' : bpc' = "gate" /\ j >= bi'
         /\ bpc' = "gate" => began' \subseteq active \cup recent'
<1>1. hot' \in [Slots -> BOOLEAN]
  BY DEF Stamp, TypeOK
<1>2. CASE bpc = "gate" /\ i >= bi /\ recent' = recent \cup {i} /\ UNCHANGED began
  BY <1>1, <1>2 DEF TypeOK, Owing, Waited
<1>3. CASE bpc = "gate" /\ i >= bi /\ recent' = recent \ {i} /\ began' = began \ {i}
  BY <1>1, <1>3 DEF TypeOK, Owing, Waited
<1>4. CASE UNCHANGED <<recent, began>>
  BY <1>1, <1>4 DEF TypeOK, Owing, Waited
<1> QED
  BY <1>2, <1>3, <1>4 DEF Stamp

\* A tenant's step, which changes neither the call in progress nor takes frames
\* out of a ring, keeps what the call has looked up.
LEMMA TenantStep ==
  ASSUME MixInv, NEW i \in Slots,
         Claim(i) \/ AskFlush(i) \/ Process(i) \/ Pause(i) \/ Cool(i) \/ Release(i)
  PROVE  MixInv'
<1> USE DEF MixInv, callVars, countVars
<1>1. CASE Claim(i)
  <2>1. /\ Stamp(i) /\ bpc' = bpc /\ bi' = bi /\ active' = active
        /\ ready' = ready /\ toRead' = toRead /\ unread' = unread /\ flush' = flush
        /\ rented' = [rented EXCEPT ![i] = TRUE]
        /\ pc' = [pc EXCEPT ![i] = "claimed"]
        /\ dirty' = [dirty EXCEPT ![i] = unread[i] > 0]
        /\ paused' = [paused EXCEPT ![i] = FALSE]
        /\ claims' = claims + 1 /\ claims < MaxClaims
    BY <1>1 DEF Claim
  <2>2. /\ hot' \in [Slots -> BOOLEAN]
        /\ recent' \subseteq Slots /\ began' \subseteq began
        /\ \A j \in recent' : bpc' = "gate" /\ j >= bi'
        /\ bpc' = "gate" => began' \subseteq active \cup recent'
    BY <2>1, StampKeeps
  <2>3. TypeOK'
    <3> DEFINE old == unread[i] > 0
    <3>3. old \in BOOLEAN /\ dirty' = [dirty EXCEPT ![i] = old]
      BY <2>1
    <3> HIDE DEF old
    <3>1. /\ rented' \in [Slots -> BOOLEAN] /\ paused' \in [Slots -> BOOLEAN]
          /\ dirty' \in [Slots -> BOOLEAN]
          /\ pc' \in [Slots -> {"out", "claimed", "idle", "fill", "beat"}]
      BY <2>1, <3>3 DEF TypeOK
    <3>2. claims' \in 0 .. MaxClaims /\ began' \subseteq Slots
      BY <2>1, <2>2 DEF TypeOK
    <3> QED
      BY <2>1, <2>2, <3>1, <3>2 DEF TypeOK
  <2>4. Pending' /\ Owing'
    BY <2>1, <2>2 DEF TypeOK, Pending, RingsRaceFree, Owing
  <2>5. Waited' /\ HotIsRented'
    BY <2>1, <2>2 DEF Stamp, TypeOK, Waited, HotIsRented
  <2>6. OldAudioForgotten'
    BY <2>1 DEF TypeOK, OldAudioForgotten
  <2> QED
    BY <2>3, <2>4, <2>5, <2>6
<1>2. CASE AskFlush(i)
  BY <1>2 DEF AskFlush, TypeOK, Pending, RingsRaceFree, Owing, HotIsRented, Waited, OldAudioForgotten
<1>3. CASE Measure(i)
  BY <1>3 DEF Measure, TypeOK, Pending, RingsRaceFree, Owing, HotIsRented, Waited, OldAudioForgotten
<1>4. CASE Publish(i)
  <2>1. unread[i] + Period <= Room
    BY <1>4 DEF Publish, Pending, RingsRaceFree
  <2>2. \A j \in Slots : unread'[j] >= unread[j]
    BY <1>4 DEF Publish, TypeOK
  <2>3. TypeOK'
    BY <1>4, <2>1 DEF Publish, TypeOK
  <2>4. Pending'
    BY <1>4, <2>2, <2>3 DEF Publish, TypeOK, Pending, RingsRaceFree, Slots
  <2>5. Owing'
    BY <1>4, <2>2, <2>3 DEF Publish, TypeOK, Owing, Slots
  <2>6. OldAudioForgotten' /\ Waited' /\ HotIsRented'
    BY <1>4 DEF Publish, TypeOK, OldAudioForgotten, Waited, HotIsRented
  <2> QED
    BY <2>3, <2>4, <2>5, <2>6
<1>5. CASE Beat(i)
  <2>1. /\ Stamp(i) /\ bpc' = bpc /\ bi' = bi /\ active' = active
        /\ ready' = ready /\ toRead' = toRead /\ unread' = unread
        /\ flush' = flush /\ rented' = rented /\ dirty' = dirty
        /\ paused' = paused /\ claims' = claims
        /\ pc[i] = "beat" /\ pc' = [pc EXCEPT ![i] = "idle"]
    BY <1>5 DEF Beat
  <2>2. /\ hot' \in [Slots -> BOOLEAN]
        /\ recent' \subseteq Slots /\ began' \subseteq began
        /\ \A j \in recent' : bpc' = "gate" /\ j >= bi'
        /\ bpc' = "gate" => began' \subseteq active \cup recent'
    BY <2>1, StampKeeps
  <2>3. TypeOK'
    BY <2>1, <2>2 DEF TypeOK
  <2>4. Pending' /\ Owing'
    BY <2>1, <2>2 DEF TypeOK, Pending, RingsRaceFree, Owing
  <2>5. Waited' /\ HotIsRented'
    BY <2>1, <2>2 DEF Stamp, TypeOK, Waited, HotIsRented
  <2>6. OldAudioForgotten'
    BY <2>1 DEF TypeOK, OldAudioForgotten
  <2> QED
    BY <2>3, <2>4, <2>5, <2>6
<1>6. CASE Pause(i)
  BY <1>6 DEF Pause, TypeOK, Pending, RingsRaceFree, Owing, HotIsRented, Waited, OldAudioForgotten
<1>7. CASE Cool(i)
  BY <1>7 DEF Cool, TypeOK, Pending, RingsRaceFree, Owing, HotIsRented, Waited, OldAudioForgotten
<1>8. CASE Release(i)
  BY <1>8 DEF Release, TypeOK, Pending, RingsRaceFree, Owing, HotIsRented, Waited, OldAudioForgotten
<1> QED
  BY <1>1, <1>2, <1>3, <1>4, <1>5, <1>6, <1>7, <1>8 DEF Process

\* A step of the processing thread keeps the invariant.
LEMMA BridgeStep ==
  ASSUME MixInv, ReadFromApo
  PROVE  MixInv'
<1> USE DEF MixInv, slotVars, countVars
<1>0. HotIsRented'
  <2>1. rented' = rented /\ hot' = hot /\ pc' = pc
    BY DEF ReadFromApo, Look, Gate, Decide, Flush, Avail, Copy, Done
  <2> QED
    BY <2>1 DEF HotIsRented
<1>1. CASE Gate
  <2> DEFINE counted == rented[bi] /\ bi \in recent
  <2>1. /\ bpc = "gate" /\ bpc' = bpc /\ bi \in Slots /\ bi' = bi + 1
        /\ recent' = recent \ {bi} /\ began' = began /\ toRead' = toRead
        /\ active' = IF counted THEN active \cup {bi} ELSE active
        /\ ready' = IF counted /\ unread[bi] >= Block THEN ready \cup {bi} ELSE ready
        /\ rented' = rented /\ hot' = hot /\ flush' = flush /\ unread' = unread
        /\ pc' = pc /\ paused' = paused /\ claims' = claims /\ dirty' = dirty
    BY <1>1 DEF Gate
  <2> HIDE DEF counted
  <2>2. bi' \in 0 .. NumSlots /\ active' \subseteq Slots /\ ready' \subseteq Slots
    BY <2>1 DEF TypeOK, Slots
  <2>3. TypeOK'
    BY <2>1, <2>2 DEF TypeOK
  <2>4. Pending' /\ OldAudioForgotten'
    BY <2>1 DEF Pending, RingsRaceFree, OldAudioForgotten
  <2>5. Owing'
    BY <2>1 DEF TypeOK, Owing, Slots
  <2>6. Waited'
    BY <2>1 DEF Waited, counted
  <2> QED
    BY <1>0, <2>3, <2>4, <2>5, <2>6
<1>2. CASE Look
  <2>1. /\ bpc = "look" /\ bpc' = "gate" /\ recent' = {i \in Slots : hot[i]}
        /\ began' = recent' /\ UNCHANGED slotVars /\ UNCHANGED countVars
    BY <1>2 DEF Look
  <2>2. TypeOK'
    BY <2>1 DEF TypeOK
  <2>3. Pending' /\ OldAudioForgotten'
    BY <2>1 DEF Pending, RingsRaceFree, OldAudioForgotten
  <2>4. bi = 0 /\ bi' = 0 /\ active' = {} /\ ready' = {} /\ recent' \subseteq Slots
    BY <2>1 DEF Owing
  <2>5. \A j \in recent' : j >= bi'
    BY <2>4 DEF Slots
  <2>6. Owing' /\ Waited'
    <3>1. \A j \in began' : hot[j] /\ rented'[j]
      BY <2>1 DEF HotIsRented
    <3> QED
      BY <2>1, <2>4, <2>5, <3>1 DEF Owing, Waited
  <2> QED
    BY <1>0, <2>2, <2>3, <2>6
<1>3. CASE Decide
  <2>1. /\ rented' = rented /\ hot' = hot /\ flush' = flush /\ unread' = unread
        /\ pc' = pc /\ paused' = paused /\ claims' = claims /\ dirty' = dirty
        /\ toRead' = toRead /\ bi' = 0 /\ ready' = {} /\ bpc = "gate"
        /\ recent' = recent /\ bi \notin Slots
    BY <1>3 DEF Decide
  <2>2. \/ active' = {} /\ bpc' = "look" /\ began' = {}
        \/ active' = active /\ ready = active /\ bpc' = "flush" /\ began' = began
    BY <1>3 DEF Decide
  <2>6. recent = {}
    BY <2>1 DEF TypeOK, Owing, Slots
  <2>3. TypeOK'
    BY <2>1, <2>2 DEF TypeOK
  <2>4. Pending' /\ OldAudioForgotten'
    BY <2>1, <2>2 DEF Pending, RingsRaceFree, OldAudioForgotten
  <2>5. Owing'
    <3>1. CASE active' = {} /\ bpc' = "look" /\ began' = {}
      BY <2>1, <2>6, <3>1 DEF Owing
    <3>2. CASE active' = active /\ ready = active /\ bpc' = "flush"
      <4>1. \A j \in active' : j >= bi' /\ unread'[j] >= Block
        BY <2>1, <3>2 DEF TypeOK, Owing, Slots
      <4> QED
        BY <2>1, <2>6, <3>2, <4>1 DEF Owing
    <3> QED
      BY <2>2, <3>1, <3>2
  <2>7. Waited'
    BY <2>1, <2>2, <2>6 DEF Waited
  <2> QED
    BY <1>0, <2>3, <2>4, <2>5, <2>7
<1>4. CASE Flush
  <2>1. /\ rented' = rented /\ hot' = hot /\ pc' = pc /\ paused' = paused
        /\ claims' = claims /\ toRead' = toRead /\ ready' = ready
        /\ bpc = "flush" /\ bi \in Slots /\ recent' = recent
    BY <1>4 DEF Flush
  <2>2. CASE ~ rented[bi]
    <3>1. /\ bi' = bi + 1 /\ active' = active \ {bi}
          /\ bpc' = bpc /\ flush' = flush /\ unread' = unread /\ dirty' = dirty
          /\ began' = began
      BY <1>4, <2>2 DEF Flush
    <3>2. bi' \in 0 .. NumSlots /\ active' \subseteq Slots
      BY <2>1, <3>1 DEF Slots, TypeOK
    <3>3. TypeOK'
      BY <2>1, <3>1, <3>2 DEF TypeOK
    <3>4. Pending' /\ OldAudioForgotten'
      BY <2>1, <3>1 DEF Pending, RingsRaceFree, OldAudioForgotten
    <3>5. Owing'
      BY <2>1, <3>1 DEF TypeOK, Owing, Slots
    <3>6. Waited'
      BY <2>1, <2>2, <3>1 DEF Waited
    <3> QED
      BY <1>0, <3>3, <3>4, <3>5, <3>6
  <2>3. CASE rented[bi] /\ ~ flush[bi]
    <3>1. /\ bi' = bi /\ active' = active /\ unread' = unread /\ dirty' = dirty
          /\ began' = began
          /\ bpc' = "avail" /\ flush' = [flush EXCEPT ![bi] = FALSE]
      BY <1>4, <2>3 DEF Flush
    <3>2. flush' = flush
      BY <2>1, <2>3, <3>1 DEF TypeOK
    <3>3. TypeOK' /\ Pending' /\ OldAudioForgotten'
      BY <2>1, <3>1, <3>2 DEF TypeOK, Pending, RingsRaceFree, OldAudioForgotten
    <3>4. Owing' /\ Waited'
      BY <2>1, <3>1 DEF Owing, Waited
    <3> QED
      BY <1>0, <3>3, <3>4
  <2>4. CASE rented[bi] /\ flush[bi]
    <3>1. /\ bi' = bi /\ active' = active \ {bi} /\ bpc' = "avail"
          /\ began' = began \ {bi}
          /\ unread' = [unread EXCEPT ![bi] = 0]
          /\ dirty' = [dirty EXCEPT ![bi] = FALSE]
          /\ flush' = [flush EXCEPT ![bi] = FALSE]
      BY <1>4, <2>4 DEF Flush
    <3>2. active' \subseteq Slots /\ unread' \in [Slots -> 0 .. Room]
          /\ dirty' \in [Slots -> BOOLEAN] /\ flush' \in [Slots -> BOOLEAN]
      BY <2>1, <3>1 DEF TypeOK
    <3>3. TypeOK'
      BY <2>1, <3>1, <3>2 DEF TypeOK
    <3>4. Pending'
      BY <2>1, <3>1 DEF TypeOK, Pending, RingsRaceFree
    <3>5. OldAudioForgotten'
      BY <2>1, <3>1 DEF TypeOK, OldAudioForgotten
    <3>6. Owing'
      BY <2>1, <3>1 DEF TypeOK, Owing, Slots
    <3>7. Waited'
      BY <2>1, <3>1 DEF Waited
    <3> QED
      BY <1>0, <3>3, <3>4, <3>5, <3>6, <3>7
  <2> QED
    BY <1>0, <2>2, <2>3, <2>4
<1>5. CASE Avail
  <2> DEFINE n == unread[bi]
             left == IF n > Behind THEN Block ELSE n
  <2>1. bi \in Slots /\ n \in 0 .. Room /\ left \in 0 .. n
    BY <1>5 DEF Avail, TypeOK, Pending
  <2>2. unread' = [unread EXCEPT ![bi] = left] /\ toRead' = Lesser(left, Block)
    BY <1>5 DEF Avail
  <2>3. Lesser(left, Block) \in 0 .. Block /\ Lesser(left, Block) <= left
        /\ (left >= Block => Lesser(left, Block) = Block)
    BY <2>1 DEF Lesser
  <2>4. n >= Block => left >= Block
    BY <2>1
  <2> HIDE DEF n, left
  <2>5. TypeOK'
    BY <1>5, <2>1, <2>2, <2>3 DEF Avail, TypeOK, Slots, n
  <2>6. Pending'
    BY <1>5, <2>1, <2>2, <2>3, <2>5 DEF Avail, TypeOK, Pending, RingsRaceFree, n, Lesser
  <2>7. Owing'
    BY <1>5, <2>1, <2>2, <2>3, <2>4 DEF Avail, TypeOK, Owing, Slots, n
  <2>8. OldAudioForgotten' /\ Waited'
    BY <1>5 DEF Avail, OldAudioForgotten, Waited
  <2> QED
    BY <1>0, <2>5, <2>6, <2>7, <2>8
<1>6. CASE Copy
  <2>1. bi \in Slots /\ toRead <= unread[bi]
    BY <1>6 DEF Copy, Pending, RingsRaceFree
  <2>2. TypeOK'
    BY <1>6, <2>1 DEF Copy, TypeOK, Slots
  <2>3. Pending'
    BY <1>6, <2>1 DEF Copy, TypeOK, Pending, RingsRaceFree
  <2>4. Owing'
    BY <1>6, <2>1 DEF Copy, TypeOK, Owing, Slots
  <2>5. OldAudioForgotten' /\ Waited'
    BY <1>6 DEF Copy, OldAudioForgotten, Waited
  <2> QED
    BY <1>0, <2>2, <2>3, <2>4, <2>5
<1>7. CASE Done
  BY <1>7 DEF Done, TypeOK, Pending, RingsRaceFree, Owing, HotIsRented, Waited, OldAudioForgotten, Slots
<1> QED
  BY <1>1, <1>2, <1>3, <1>4, <1>5, <1>6, <1>7 DEF ReadFromApo

\* The inductive invariant: rings, the tenants' writes under way, what the call of
\* readFromApo still owes, and what an unanswered flush leaves.
THEOREM MixInvariant == Spec => []MixInv
<1>1. MixInv /\ [Next]_vars => MixInv'
  <2> SUFFICES ASSUME MixInv, [Next]_vars PROVE MixInv'
    OBVIOUS
  <2>1. CASE Next
    BY <2>1, TenantStep, BridgeStep DEF Next
  <2>2. CASE UNCHANGED vars
    BY <2>2 DEF vars, MixInv, TypeOK, Pending, RingsRaceFree, Owing, HotIsRented, Waited, OldAudioForgotten
  <2> QED
    BY <2>1, <2>2
<1> QED
  BY InitMix, <1>1, PTL DEF Spec

\* Every variable keeps to its type (the rings and the call of readFromApo).
THEOREM TypeCorrect == Spec => []TypeOK
<1>1. MixInv => TypeOK
  BY DEF MixInv
<1> QED
  BY MixInvariant, <1>1, PTL

\* The tenant's writes and the bridge's reads of a toHost ring never meet,
\* whatever the bridge flushes and skips in between.
THEOREM RaceFree == Spec => []RingsRaceFree
<1>1. MixInv => RingsRaceFree
  BY DEF MixInv, Pending
<1> QED
  BY MixInvariant, <1>1, PTL

\* An answered flush leaves nothing of an earlier tenant in the slot.
THEOREM FlushForgets == Spec => []OldAudioForgotten
<1>1. MixInv => OldAudioForgotten
  BY DEF MixInv
<1> QED
  BY MixInvariant, <1>1, PTL

\* readFromApo mixes whole blocks of the slots that it has counted at its gate.
THEOREM WholeBlocks == Spec => []WholeBlocksMixed
<1>1. MixInv => WholeBlocksMixed
  BY DEF MixInv, TypeOK, Owing, WholeBlocksMixed, Slots
<1> QED
  BY MixInvariant, <1>1, PTL
\* readFromApo waits for every slot in use when it is called: what it mixes holds
\* a whole block of each that is not given up, flushed or stamped too late for it.
THEOREM AllAreWaitedFor == Spec => []AllWaitedFor
<1>1. MixInv => AllWaitedFor
  BY DEF MixInv, TypeOK, Owing, Waited, AllWaitedFor, Slots
<1> QED
  BY MixInvariant, <1>1, PTL

=============================================================================
