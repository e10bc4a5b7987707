------------------------ MODULE VirtualCable_proofs -------------------------
(***************************************************************************)
(* Machine-checked facts about VirtualCable: for every capacity, packet    *)
(* size and block size the ring is race-free, it is the bounded FIFO queue *)
(* of FrameQueue, and the latency sync bounds how far a block lags.        *)
(***************************************************************************)
EXTENDS VirtualCable, TLAPS

-----------------------------------------------------------------------------
(* Arithmetic on the circle of positions *)

LEMMA IdxIs == Capacity \in Nat /\ \A x : x \in Idx <=> x \in Nat /\ x < Capacity
  BY CableAssumption DEF Idx

LEMMA DistType ==
  ASSUME NEW r \in Idx, NEW w \in Idx
  PROVE  Dist(r, w) \in Idx
  BY CableAssumption DEF Idx, Dist

\* Moving the far end by n moves it n further away, as long as it stays behind
\* the near end.
LEMMA FarEnd ==
  ASSUME NEW r \in Idx, NEW w \in Idx, NEW n \in Nat,
         n <= Capacity - Dist(r, w) - 1
  PROVE  Wrap(w + n) \in Idx /\ Dist(r, Wrap(w + n)) = Dist(r, w) + n
  BY CableAssumption DEF Idx, Wrap, Dist

\* Moving the near end by k brings everything k closer, but for what is passed.
LEMMA NearEnd ==
  ASSUME NEW r \in Idx, NEW i \in Idx, NEW k \in Idx
  PROVE  /\ Wrap(r + k) \in Idx
         /\ Dist(Wrap(r + k), i) = IF k <= Dist(r, i) THEN Dist(r, i) - k
                                   ELSE Capacity - k + Dist(r, i)
  BY CableAssumption DEF Idx, Wrap, Dist

\* The cell k after r has distance k; cells of equal distance are equal.
LEMMA CellAt ==
  ASSUME NEW r \in Idx, NEW k \in Idx
  PROVE  Wrap(r + k) \in Idx /\ Dist(r, Wrap(r + k)) = k
  BY CableAssumption DEF Idx, Wrap, Dist

LEMMA SameDist ==
  ASSUME NEW r \in Idx, NEW i \in Idx, NEW j \in Idx, Dist(r, i) = Dist(r, j)
  PROVE  i = j
  BY CableAssumption DEF Idx, Dist

\* The variables as numbers.
LEMMA Numbers ==
  ASSUME TypeOK
  PROVE  /\ AvailableRead \in Idx /\ AvailableRead \in Nat /\ AvailableRead < Capacity
         /\ AvailableWrite \in Nat /\ AvailableWrite = Capacity - AvailableRead - 1
         /\ wn \in Nat /\ wi \in Nat /\ wi <= wn /\ rn \in Nat /\ ri \in Nat /\ ri <= rn
         /\ need \in Nat /\ avail \in Nat /\ tail \in Nat /\ head \in Nat /\ polled \in Nat
         /\ \A i \in Idx : Dist(readPos, i) \in Nat /\ Dist(readPos, i) < Capacity
<1>1. AvailableRead \in Idx
  BY DistType DEF TypeOK, AvailableRead
<1>2. AvailableRead \in Nat /\ AvailableRead < Capacity /\ Capacity \in Nat
  BY <1>1, IdxIs
<1>3. AvailableWrite \in Nat /\ AvailableWrite = Capacity - AvailableRead - 1
  BY <1>2 DEF AvailableWrite
<1>4. \A i \in Idx : Dist(readPos, i) \in Nat /\ Dist(readPos, i) < Capacity
  BY DistType, IdxIs DEF TypeOK
<1>5. /\ wn \in Nat /\ rn \in Nat /\ need \in Nat /\ tail \in Nat /\ polled \in Nat
      /\ head \in Nat /\ avail \in Nat
  BY IdxIs, CableAssumption DEF TypeOK
<1>6. wi \in Nat /\ wi <= wn /\ ri \in Nat /\ ri <= rn
  BY <1>5 DEF TypeOK
<1> QED
  BY <1>1, <1>2, <1>3, <1>4, <1>5, <1>6

\* The cell the writer fills next.
LEMMA WriterCell ==
  ASSUME TypeOK, Positions, NEW j \in 0 .. wn - 1
  PROVE  /\ Wrap(writePos + j) \in Idx
         /\ Dist(readPos, Wrap(writePos + j)) = AvailableRead + j
<1>1. j \in Nat /\ j <= Capacity - AvailableRead - 1
  BY Numbers DEF Positions
<1> QED
  BY <1>1, FarEnd DEF TypeOK, AvailableRead

-----------------------------------------------------------------------------
(* The invariant *)

LEMMA InitCable == Init => CableInv
<1> SUFFICES ASSUME Init PROVE CableInv
  OBVIOUS
<1>1. TypeOK
  BY CableAssumption, IdxIs DEF Init, TypeOK
<1>2. AvailableRead = 0
  BY DEF Init, AvailableRead, Dist
<1>3. Positions /\ Lag
  BY <1>2, CableAssumption DEF Init, Positions, Lag, AvailableWrite
<1>4. \A i \in Idx : ~ (Dist(readPos, i) < AvailableRead + wi)
  BY <1>1, <1>2, Numbers DEF Init
<1>5. Contents
  BY <1>4 DEF Init, Contents
<1> QED
  BY <1>1, <1>3, <1>5 DEF CableInv

LEMMA NextCable == CableInv /\ [Next]_vars => CableInv'
<1> SUFFICES ASSUME CableInv, [Next]_vars PROVE CableInv'
  OBVIOUS
<1> USE DEF CableInv
<1>0. /\ Capacity \in Nat /\ MaxFrames \in Nat /\ MaxBlock \in Nat /\ MaxPacket \in Nat
      /\ AvailableRead \in Idx /\ AvailableRead \in Nat /\ AvailableRead < Capacity
      /\ AvailableWrite \in Nat /\ AvailableWrite = Capacity - AvailableRead - 1
      /\ wn \in Nat /\ wi \in Nat /\ wi <= wn /\ rn \in Nat /\ ri \in Nat /\ ri <= rn
      /\ need \in Nat /\ avail \in Nat /\ tail \in Nat /\ head \in Nat /\ polled \in Nat
      /\ \A i \in Idx : Dist(readPos, i) \in Nat /\ Dist(readPos, i) < Capacity
      /\ readPos \in Idx /\ writePos \in Idx
      /\ AvailableWrite' = Capacity - AvailableRead' - 1
  BY Numbers, CableAssumption DEF TypeOK, AvailableWrite
<1>1. ASSUME NEW n \in 1 .. MaxPacket, WriteBegin(n) PROVE CableInv'
  <2>1. TypeOK'
    BY <1>0, <1>1 DEF TypeOK, WriteBegin, Positions, Lesser, ring, consumer
  <2>2. UNCHANGED <<AvailableRead, AvailableWrite>>
    BY <1>1 DEF WriteBegin, AvailableRead, AvailableWrite, ring
  <2>3. Positions'
    BY <1>0, <1>1, <2>2 DEF TypeOK, WriteBegin, Positions, Lesser, ring, consumer
  <2>4. Contents' /\ Lag'
    BY <1>1, <2>2 DEF WriteBegin, Contents, Lag, ring, consumer
  <2> QED
    BY <2>1, <2>3, <2>4
<1>2. ASSUME WriteCopy PROVE CableInv'
  <2> DEFINE c == Wrap(writePos + wi)
  <2>1. wi \in 0 .. wn - 1 /\ wi \in Nat
    BY <1>2 DEF WriteCopy, TypeOK
  <2>2. c \in Idx /\ Dist(readPos, c) = AvailableRead + wi
    BY <2>1, WriterCell
  <2>3. TypeOK'
    BY <1>2, <2>1, <2>2, CableAssumption
       DEF WriteCopy, TypeOK, Positions, consumer
  <2>4. UNCHANGED <<AvailableRead, AvailableWrite>>
    BY <1>2 DEF WriteCopy, AvailableRead, AvailableWrite
  <2>5. Positions' /\ Lag'
    BY <1>2, <2>4 DEF WriteCopy, Positions, Lag, consumer
  <2>6. ASSUME NEW i \in Idx, Dist(readPos, i) < AvailableRead + wi + 1
        PROVE  buf'[i] = head + Dist(readPos, i) + 1
    <3>1. CASE i = c
      BY <1>2, <2>2, <3>1, <1>0 DEF WriteCopy, TypeOK, Positions
    <3>2. CASE i # c
      <4>1. Dist(readPos, i) # AvailableRead + wi
        BY <2>2, <3>2, SameDist DEF TypeOK
      <4>2. Dist(readPos, i) < AvailableRead + wi
        BY <1>0, <2>1, <2>6, <4>1
      <4> QED
        BY <1>2, <3>2, <4>2 DEF WriteCopy, Contents, TypeOK
    <3> QED
      BY <3>1, <3>2
  <2>7. Contents'
    BY <1>0, <1>2, <2>1, <2>4, <2>6 DEF WriteCopy, Contents, consumer
  <2> QED
    BY <2>3, <2>5, <2>7
<1>3. ASSUME WritePublish PROVE CableInv'
  <2>1. /\ writePos' \in Idx
        /\ AvailableRead' = AvailableRead + wn
    BY <1>0, <1>3, FarEnd
       DEF WritePublish, TypeOK, Positions, AvailableRead, AvailableWrite
  <2>2. TypeOK'
    BY <1>3, <2>1, CableAssumption DEF WritePublish, TypeOK, Positions, consumer
  <2>3. Positions' /\ Lag'
    BY <1>0, <1>3, <2>1 DEF WritePublish, Positions, Lag, consumer
  <2>4. Contents'
    BY <1>0, <1>3, <2>1 DEF WritePublish, Contents, TypeOK, consumer
  <2> QED
    BY <2>2, <2>3, <2>4
<1>4. ASSUME NEW n \in 1 .. MaxBlock, Poll(n) PROVE CableInv'
  <2>1. UNCHANGED <<AvailableRead, AvailableWrite>>
    BY <1>4 DEF Poll, AvailableRead, AvailableWrite, ring
  <2>2. TypeOK' /\ Contents'
    BY <1>0, <1>4, <2>1 DEF Poll, TypeOK, Contents, ring, producer
  <2>3. Positions' /\ Lag'
    BY <1>0, <1>4, <2>1 DEF Poll, TypeOK, Positions, Lag, ring, producer
  <2> QED
    BY <2>2, <2>3
\* Both ways the reader moves on: k frames leave at the near end.
<1>5. ASSUME NEW k \in Nat, k <= AvailableRead, readPos' = Wrap(readPos + k),
             head' = head + k, UNCHANGED <<buf, writePos, producer>>, ri' = 0
      PROVE  /\ readPos' \in Idx
             /\ AvailableRead' = AvailableRead - k
             /\ Contents'
  <2>1. k \in Idx
    BY <1>0, <1>5, CableAssumption DEF Idx
  <2>2. readPos' \in Idx /\ AvailableRead' = AvailableRead - k
    BY <1>5, <2>1, NearEnd DEF TypeOK, AvailableRead
  <2>3. ASSUME NEW i \in Idx, Dist(readPos', i) < AvailableRead' + wi
        PROVE  buf[i] = head' + Dist(readPos', i) + 1
    <3>1. AvailableRead + wi < Capacity /\ wi \in Nat
      BY <1>0, CableAssumption DEF TypeOK, Positions, AvailableWrite
    <3>2. k <= Dist(readPos, i) /\ Dist(readPos', i) = Dist(readPos, i) - k
      <4>1. Dist(readPos', i) = IF k <= Dist(readPos, i) THEN Dist(readPos, i) - k
                                ELSE Capacity - k + Dist(readPos, i)
        BY <1>0, <1>5, <2>1, NearEnd
      <4> QED
        BY <1>0, <1>5, <2>2, <2>3, <3>1, <4>1
    <3> QED
      <4>1. Dist(readPos, i) < AvailableRead + wi
        BY <1>0, <1>5, <2>2, <2>3, <3>1, <3>2
      <4> QED
        BY <1>0, <1>5, <3>2, <4>1 DEF Contents
  <2> QED
    BY <1>5, <2>2, <2>3 DEF Contents, producer
<1>6. ASSUME Skip PROVE CableInv'
  <2> DEFINE k == avail - 2 * need
  <2>1. k \in Nat /\ k <= AvailableRead /\ need \in Nat /\ avail \in Nat
    BY <1>0, <1>6 DEF Skip, Positions, Lag
  <2>2. readPos' = Wrap(readPos + k) /\ head' = head + k
    BY <1>0, <1>6, <2>1 DEF Skip, Lesser
  <2>3. ri' = 0 /\ ri = 0
    BY <1>6 DEF Skip, TypeOK, Positions
  <2>4. readPos' \in Idx /\ AvailableRead' = AvailableRead - k /\ Contents'
    BY <1>5, <1>6, <2>1, <2>2, <2>3 DEF Skip
  <2>5. TypeOK'
    <3>1. head' \in Nat
      BY <1>0, <2>1, <2>2
    <3> QED
      BY <1>6, <2>4, <3>1 DEF Skip, TypeOK, producer
  <2>6. Positions' /\ Lag'
    BY <1>0, <1>6, <2>1, <2>2, <2>4
       DEF Skip, Positions, Lag, producer
  <2> QED
    BY <2>4, <2>5, <2>6
<1>7. ASSUME Measure PROVE CableInv'
  <2>1. UNCHANGED <<AvailableRead, AvailableWrite>>
    BY <1>7 DEF Measure, AvailableRead, AvailableWrite, ring
  <2>2. TypeOK' /\ Contents'
    BY <1>0, <1>7, <2>1 DEF Measure, TypeOK, Contents, ring, producer
  <2>3. Positions' /\ Lag'
    BY <1>0, <1>7, <2>1 DEF Measure, TypeOK, Positions, Lag, ring, producer
  <2> QED
    BY <2>2, <2>3
<1>8. ASSUME ReadBegin PROVE CableInv'
  <2>1. UNCHANGED <<AvailableRead, AvailableWrite>>
    BY <1>8 DEF ReadBegin, AvailableRead, AvailableWrite, ring
  <2> DEFINE k == Lesser(Lesser(avail, need), AvailableRead)
  <2>4. k \in Nat /\ k <= need /\ k <= AvailableRead /\ rn = 0 /\ ri = 0
    BY <1>0, <1>8 DEF Lesser, ReadBegin, Positions
  <2>5. \/ k > 0 /\ rpc' = "copy" /\ rn' = k
        \/ rpc' = "idle" /\ rn' = rn
    BY <1>8, <2>4 DEF ReadBegin
  <2>2. TypeOK' /\ Contents'
    <3>1. rn' \in 0 .. MaxBlock /\ ri' \in 0 .. rn'
      BY <1>0, <1>8, <2>4, <2>5 DEF ReadBegin, TypeOK
    <3>2. rpc' \in {"idle", "skip", "measure", "read", "copy"}
      BY <2>5
    <3> QED
      BY <1>8, <2>1, <3>1, <3>2 DEF ReadBegin, TypeOK, Contents, ring, producer
  <2>3. Positions' /\ Lag'
    BY <1>0, <1>8, <2>1, <2>4, <2>5 DEF ReadBegin, Positions, Lag, ring, producer
  <2> QED
    BY <2>2, <2>3
<1>9. ASSUME ReadCopy PROVE CableInv'
  <2>1. ri \in Idx /\ ri \in Nat /\ ri < rn /\ ri + 1 \in 1 .. MaxBlock
    <3>1. rn <= MaxBlock
      BY <1>0 DEF TypeOK
    <3>2. ri < rn /\ ri < Capacity
      BY <1>0, <1>9 DEF ReadCopy, Positions
    <3> QED
      BY <1>0, <3>1, <3>2, IdxIs
  <2> DEFINE c == Wrap(readPos + ri)
  <2>2. c \in Idx /\ Dist(readPos, c) = ri
    BY <1>0, <2>1, CellAt
  <2>3. buf[c] = head + ri + 1
    <3> HIDE DEF c
    <3>1. ri < AvailableRead + wi
      BY <1>0, <2>1 DEF Positions
    <3> QED
      BY <2>2, <3>1 DEF Contents
  <2>4. UNCHANGED <<AvailableRead, AvailableWrite>>
    BY <1>9 DEF ReadCopy, AvailableRead, AvailableWrite, ring
  <2>5. TypeOK'
    <3>1. buf[c] \in 0 .. MaxFrames
      BY <2>2 DEF TypeOK
    <3>2. block' \in [1 .. MaxBlock -> 0 .. MaxFrames]
      BY <1>9, <3>1 DEF ReadCopy, TypeOK
    <3>3. ri' \in 0 .. rn
      BY <1>0, <1>9, <2>1 DEF ReadCopy
    <3> QED
      BY <1>9, <3>2, <3>3 DEF ReadCopy, TypeOK, ring, producer
  <2>6. Positions' /\ Lag'
    BY <1>9, <2>4 DEF ReadCopy, Positions, Lag, ring, producer
  <2>7. Contents'
    <3>1. \A j \in 1 .. ri + 1 : block'[j] = head + j
      <4>1. block' = [block EXCEPT ![ri + 1] = head + ri + 1]
        BY <1>9, <2>3 DEF ReadCopy
      <4>2. ASSUME NEW j \in 1 .. ri PROVE block'[j] = head + j
        BY <1>0, <2>1, <4>1, <4>2 DEF Contents, TypeOK
      <4>3. block'[ri + 1] = head + (ri + 1)
        BY <1>0, <2>1, <4>1 DEF TypeOK
      <4> QED
        BY <1>0, <4>2, <4>3
    <3> QED
      BY <1>9, <2>4, <3>1 DEF ReadCopy, Contents, ring, producer
  <2> QED
    BY <2>5, <2>6, <2>7
<1>10. ASSUME ReadRelease PROVE CableInv'
  <2>1. rn \in Nat /\ rn <= AvailableRead
    BY <1>10 DEF ReadRelease, TypeOK, Positions
  <2>2. readPos' \in Idx /\ AvailableRead' = AvailableRead - rn /\ Contents'
    BY <1>5, <1>10, <2>1 DEF ReadRelease
  <2>3. TypeOK'
    <3>1. head' \in Nat
      BY <1>0, <1>10 DEF ReadRelease
    <3>2. rn' = 0 /\ ri' = 0 /\ 0 \in 0 .. MaxBlock /\ 0 \in 0 .. 0
      BY <1>0, <1>10 DEF ReadRelease
    <3> QED
      BY <1>10, <2>2, <3>1, <3>2 DEF ReadRelease, TypeOK, producer
  <2>4. Positions' /\ Lag'
    BY <1>0, <1>10, <2>1, <2>2
       DEF ReadRelease, Positions, Lag, producer
  <2> QED
    BY <2>2, <2>3, <2>4
<1>11. CASE UNCHANGED vars
  BY <1>11 DEF vars, TypeOK, Positions, Contents, Lag, AvailableRead, AvailableWrite
<1> QED
  BY <1>1, <1>2, <1>3, <1>4, <1>6, <1>7, <1>8, <1>9, <1>10, <1>11 DEF Next

\* The inductive invariant: what the ring holds, where the copies are, how far
\* the iteration is behind.
THEOREM CableInvariant == Spec => []CableInv
  BY InitCable, NextCable, PTL DEF Spec

-----------------------------------------------------------------------------
(* What follows from it *)

\* Every reachable state is type-correct.
THEOREM TypeCorrect == Spec => []TypeOK
  BY CableInvariant, PTL DEF CableInv

\* The two threads never copy into and out of the same cell.
THEOREM RaceFree == Spec => []CopiesDisjoint
<1>1. CableInv => CopiesDisjoint
  <2> SUFFICES ASSUME CableInv, NEW j \in wi .. wn - 1, NEW k \in ri .. rn - 1
               PROVE  Wrap(writePos + j) # Wrap(readPos + k)
    BY DEF CopiesDisjoint
  <2>1. j \in 0 .. wn - 1 /\ k \in Nat /\ k < AvailableRead
    BY Numbers DEF CableInv, Positions
  <2>2. k \in Idx
    BY <2>1, Numbers, IdxIs DEF CableInv
  <2>3. Dist(readPos, Wrap(writePos + j)) = AvailableRead + j
    BY <2>1, WriterCell DEF CableInv
  <2>4. Dist(readPos, Wrap(readPos + k)) = k
    BY <2>2, CellAt DEF CableInv, TypeOK
  <2> QED
    BY <2>1, <2>3, <2>4, Numbers DEF CableInv
<1> QED
  BY CableInvariant, <1>1, PTL

\* A block that is being copied begins at most three blocks behind the newest
\* frame there was when its iteration looked at the buffer.
THEOREM LagIsBounded == Spec => []LagBounded
<1>1. CableInv => LagBounded
  BY DEF CableInv, Lag, LagBounded
<1> QED
  BY CableInvariant, <1>1, PTL

\* The latency sync of the drain loop leaves a full block.
THEOREM SyncIsMild == Spec => SyncLeavesBlock
<1> DEFINE Mild == rpc = "measure" => avail' >= need /\ polled - head = 2 * need
<1>1. ASSUME CableInv, [Next]_vars PROVE [Mild]_vars
  <2> SUFFICES ASSUME Next, rpc = "measure"
               PROVE  avail' >= need /\ polled - head = 2 * need
    BY <1>1
  <2>1. /\ polled - head = 2 * need /\ AvailableRead >= 2 * need /\ avail > 3 * need
        /\ need \in Nat /\ avail \in Nat /\ AvailableRead \in Nat
    BY <1>1, Numbers, IdxIs DEF CableInv, TypeOK, Lag
  <2>2. avail' \in {avail, AvailableRead}
    BY DEF Next, WriteBegin, WriteCopy, WritePublish, Poll, Skip, Measure, ReadBegin,
           ReadCopy, ReadRelease, consumer
  <2> QED
    BY <2>1, <2>2
<1> QED
  BY CableInvariant, <1>1, PTL DEF Spec, SyncLeavesBlock

\* The ring is a bounded FIFO queue of whole frames.
THEOREM ImplementsQueue == Spec => FifoSpec
<1>1. Init => Queue!QInit
  BY DEF Init, Queue!QInit
<1>2. ASSUME CableInv, [Next]_vars PROVE [Queue!QNext]_<<head, tail, out>>
  <2> USE DEF Queue!QNext
  <2>0. AvailableRead \in Nat /\ AvailableRead <= Capacity - 1 /\ Capacity - 1 \in Nat
    BY <1>2, Numbers, IdxIs DEF CableInv
  <2>1. CASE WritePublish
    <3>1. wn \in 1 .. Capacity - 1 /\ Queue!Put(wn)
      <4>1. wn \in Nat /\ tail \in Nat /\ head \in Nat /\ AvailableWrite = Capacity - AvailableRead - 1
        BY <1>2, Numbers DEF CableInv
      <4>2. wn > 0 /\ wn <= AvailableWrite /\ tail - head = AvailableRead
        BY <1>2, <2>1 DEF CableInv, Positions, WritePublish
      <4>3. tail + wn - head <= Capacity - 1 /\ wn \in 1 .. Capacity - 1
        BY <2>0, <4>1, <4>2, IdxIs
      <4> QED
        BY <2>1, <4>3 DEF WritePublish, consumer, Queue!Put
    <3> QED
      BY <3>1
  <2>2. CASE Skip
    <3> DEFINE k == avail - 2 * need
    <3>1. k \in 1 .. Capacity - 1 /\ k <= AvailableRead
      BY <1>2, <2>0, <2>2 DEF CableInv, TypeOK, Positions, Lag, Skip, Idx
    <3>2. Queue!Drop(k)
      BY <1>2, <2>0, <2>2, <3>1
         DEF CableInv, TypeOK, Positions, Skip, Lesser, producer, Queue!Drop
    <3> QED
      BY <3>1, <3>2
  <2>3. CASE ReadRelease
    <3>1. rn \in 1 .. Capacity - 1 /\ rn <= tail - head
      BY <1>2, <2>0, <2>3 DEF CableInv, TypeOK, Positions, ReadRelease
    <3>2. out' = [i \in 1 .. rn |-> head + i]
      BY <1>2, <2>3 DEF CableInv, Contents, ReadRelease
    <3>3. Queue!Get(rn)
      BY <2>3, <3>1, <3>2 DEF ReadRelease, producer, Queue!Get
    <3> QED
      BY <3>1, <3>3
  <2>4. CASE \/ \E n \in 1 .. MaxPacket : WriteBegin(n)
             \/ WriteCopy
             \/ \E n \in 1 .. MaxBlock : Poll(n)
             \/ Measure \/ ReadBegin \/ ReadCopy \/ UNCHANGED vars
    BY <2>4 DEF WriteBegin, WriteCopy, Poll, Measure, ReadBegin, ReadCopy, vars,
         consumer, producer
  <2> QED
    BY <1>2, <2>1, <2>2, <2>3, <2>4 DEF Next
<1> QED
  BY CableInvariant, <1>1, <1>2, PTL DEF Spec, FifoSpec, Queue!QSpec

=============================================================================
