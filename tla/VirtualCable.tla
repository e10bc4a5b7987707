---------------------------- MODULE VirtualCable ----------------------------
(***************************************************************************)
(* The path from the virtual cable into the mixer: WASAPICapture's thread  *)
(* writes packets into a RingBuffer, AudioEngine's processing thread reads *)
(* one block from it for every block that comes from the APO, after a      *)
(* latency sync that throws old frames away.                               *)
(*                                                                         *)
(* The two positions are atomic, the samples are not: the copies move one  *)
(* frame per step and interleave with the other thread.  A frame's samples *)
(* are abstracted to the number of the frame.                              *)
(***************************************************************************)
EXTENDS Integers

CONSTANTS
  Capacity,   \* RingBuffer::capacity, in frames
  MaxPacket,  \* bound: frames in one capture packet
  MaxBlock,   \* MAX_BLOCK of processingLoop
  MaxFrames   \* bound: frames ever written

ASSUME CableAssumption ==
  /\ Capacity \in Nat /\ Capacity > 1
  /\ MaxPacket \in Nat \ {0}
  /\ MaxBlock \in Nat \ {0}
  /\ MaxFrames \in Nat \ {0}

Idx == 0 .. Capacity - 1

VARIABLES
  buf,      \* [Idx -> frame numbers]      buffer (0: the initial silence)
  writePos, \* writePos
  readPos,  \* readPos
  wpc,      \* place of the capture thread
  wn,       \* framesToWrite
  wi,       \* frames copied by the write in progress
  rpc,      \* place of the processing thread
  need,     \* readCount of this iteration
  avail,    \* available of this iteration
  rn,       \* framesToRead
  ri,       \* frames copied by the read in progress
  block,    \* virtualBlock
  head,     \* history: frames that were read or skipped
  tail,     \* history: frames that were written
  out,      \* history: the block read last
  polled    \* history: tail when this iteration looked at the buffer

ring     == <<buf, writePos, readPos>>
producer == <<wpc, wn, wi, tail>>
consumer == <<rpc, need, avail, rn, ri, block, head, out, polled>>
vars     == <<buf, writePos, readPos, wpc, wn, wi, rpc, need, avail, rn, ri,
              block, head, tail, out, polled>>

\* Mutant: the wrap-around comes one frame too late.
WrapLate(x) == IF x <= Capacity THEN x ELSE x - Capacity

\* (x + n) % capacity, for the x < Capacity and n < Capacity that occur.
Wrap(x) == IF x < Capacity THEN x ELSE x - Capacity

\* The number of frames from position r up to position w: availableRead.
Dist(r, w) == IF w >= r THEN w - r ELSE Capacity - r + w

AvailableRead  == Dist(readPos, writePos)
\* Mutant: no cell is left free, full looks like empty.
AvailableWriteFull == Capacity - AvailableRead
AvailableWrite == Capacity - AvailableRead - 1

Lesser(x, y) == IF x < y THEN x ELSE y

-----------------------------------------------------------------------------

Init ==
  /\ buf = [i \in Idx |-> 0]
  /\ writePos = 0 /\ readPos = 0
  /\ wpc = "idle" /\ wn = 0 /\ wi = 0
  /\ rpc = "idle" /\ need = 0 /\ avail = 0 /\ rn = 0 /\ ri = 0
  /\ block = [i \in 1 .. MaxBlock |-> 0]
  /\ head = 0 /\ tail = 0 /\ out = << >> /\ polled = 0

(* The capture thread: RingBuffer::write of a packet of n frames *)

\* The room is taken from the reader's position now; what does not fit is lost
\* (a packet that finds no room at all changes nothing).
WriteBegin(n) ==
  /\ wpc = "idle"
  /\ tail + n <= MaxFrames
  /\ AvailableWrite > 0
  /\ wn' = Lesser(n, AvailableWrite)
  /\ wpc' = "copy"
  /\ UNCHANGED <<ring, wi, tail, consumer>>

WriteCopy ==
  /\ wpc = "copy" /\ wi < wn
  /\ buf' = [buf EXCEPT ![Wrap(writePos + wi)] = tail + wi + 1]
  /\ wi' = wi + 1
  /\ UNCHANGED <<writePos, readPos, wpc, wn, tail, consumer>>

\* Mutant: the position is published before the frames are there.
PublishEarly ==
  /\ wpc = "copy"
  /\ writePos' = Wrap(writePos + wn)
  /\ tail' = tail + wn
  /\ wpc' = "idle" /\ wn' = 0 /\ wi' = 0
  /\ UNCHANGED <<buf, readPos, consumer>>

\* writePos.store(nextW, release)
WritePublish ==
  /\ wpc = "copy" /\ wi = wn
  /\ writePos' = Wrap(writePos + wn)
  /\ tail' = tail + wn
  /\ wpc' = "idle" /\ wn' = 0 /\ wi' = 0
  /\ UNCHANGED <<buf, readPos, consumer>>

(* The processing thread: one iteration of the drain loop *)

\* Mutant: the sync waits for a fourth block.
PollLate(n) ==
  /\ rpc = "idle"
  /\ need' = n
  /\ avail' = AvailableRead
  /\ polled' = tail
  /\ rpc' = IF AvailableRead > 4 * n THEN "skip" ELSE "read"
  /\ UNCHANGED <<ring, producer, rn, ri, block, head, out>>

\* readFromApo returned n frames; "available" is loaded.
Poll(n) ==
  /\ rpc = "idle"
  /\ need' = n
  /\ avail' = AvailableRead
  /\ polled' = tail
  /\ rpc' = IF AvailableRead > 3 * n THEN "skip" ELSE "read"
  /\ UNCHANGED <<ring, producer, rn, ri, block, head, out>>

\* Mutant: everything is skipped.
SkipAll ==
  /\ rpc = "skip"
  /\ readPos' = writePos
  /\ head' = tail
  /\ rpc' = "measure"
  /\ UNCHANGED <<buf, writePos, producer, need, avail, rn, ri, block, out, polled>>

\* skip(excess): fast-forward; it bounds itself by a fresh availableRead.
Skip ==
  /\ rpc = "skip"
  /\ LET k == Lesser(avail - 2 * need, AvailableRead) IN
       /\ readPos' = Wrap(readPos + k)
       /\ head' = head + k
  /\ rpc' = "measure"
  /\ UNCHANGED <<buf, writePos, producer, need, avail, rn, ri, block, out, polled>>

Measure ==
  /\ rpc = "measure"
  /\ avail' = AvailableRead
  /\ rpc' = "read"
  /\ UNCHANGED <<ring, producer, need, rn, ri, block, head, out, polled>>

\* read(toRead) begins; with nothing to read the block is all padding.
ReadBegin ==
  /\ rpc = "read"
  /\ LET k == Lesser(Lesser(avail, need), AvailableRead) IN
       IF k > 0 THEN rpc' = "copy" /\ rn' = k
                ELSE rpc' = "idle" /\ UNCHANGED rn
  /\ UNCHANGED <<ring, producer, need, avail, ri, block, head, out, polled>>

ReadCopy ==
  /\ rpc = "copy" /\ ri < rn
  /\ block' = [block EXCEPT ![ri + 1] = buf[Wrap(readPos + ri)]]
  /\ ri' = ri + 1
  /\ UNCHANGED <<ring, producer, rpc, need, avail, rn, head, out, polled>>

\* readPos.store(nextR, release): only now may the cells be written again.
ReadRelease ==
  /\ rpc = "copy" /\ ri = rn
  /\ readPos' = Wrap(readPos + rn)
  /\ head' = head + rn
  /\ out' = [i \in 1 .. rn |-> block[i]]
  /\ rpc' = "idle" /\ rn' = 0 /\ ri' = 0
  /\ UNCHANGED <<buf, writePos, producer, need, avail, block, polled>>

Next ==
  \/ \E n \in 1 .. MaxPacket : WriteBegin(n)
  \/ WriteCopy \/ WritePublish
  \/ \E n \in 1 .. MaxBlock : Poll(n)
  \/ Skip \/ Measure \/ ReadBegin \/ ReadCopy \/ ReadRelease

Spec == Init /\ [][Next]_vars

-----------------------------------------------------------------------------
(* Properties *)

\* Every variable keeps to its type.
TypeOK ==
  /\ buf \in [Idx -> 0 .. MaxFrames]
  /\ writePos \in Idx /\ readPos \in Idx
  /\ wpc \in {"idle", "copy"} /\ wn \in 0 .. MaxPacket /\ wi \in 0 .. wn
  /\ rpc \in {"idle", "skip", "measure", "read", "copy"}
  /\ need \in 0 .. MaxBlock /\ avail \in Idx
  /\ rn \in 0 .. MaxBlock /\ ri \in 0 .. rn
  /\ block \in [1 .. MaxBlock -> 0 .. MaxFrames]
  /\ head \in Nat /\ tail \in 0 .. MaxFrames /\ polled \in 0 .. MaxFrames

\* The cells the capture thread is filling and the cells the processing thread
\* is reading are disjoint: the plain (non-atomic) copies never race.
CopiesDisjoint ==
  \A j \in wi .. wn - 1, k \in ri .. rn - 1 :
    Wrap(writePos + j) # Wrap(readPos + k)

Queue == INSTANCE FrameQueue WITH Room <- Capacity - 1

\* The processing thread gets the captured frames whole, in order, none twice,
\* none before it was completely written, whatever the interleaving.
FifoSpec == Queue!QSpec

\* "If the buffer accumulates more than 3 blocks of data (30ms), we fast-forward":
\* no block that is about to be copied begins more than three blocks behind what
\* had been captured when the iteration looked.
LagBounded == rpc = "copy" => polled - head <= 3 * need

\* The fast-forward is not overdone: a block that needed it is still a full one.
SyncLeavesBlock ==
  [][rpc = "measure" => avail' >= need /\ polled - head = 2 * need]_vars

-----------------------------------------------------------------------------
(* Inductive invariant *)

\* The positions agree with the history and with the operations in progress.
Positions ==
  /\ tail - head = AvailableRead
  /\ wn <= AvailableWrite /\ tail + wn <= MaxFrames
  /\ wpc = "idle" => wn = 0
  /\ wpc = "copy" => wn > 0
  /\ rn <= AvailableRead
  /\ rpc # "copy" => rn = 0
  /\ rpc = "copy" => rn > 0
  /\ rpc \in {"skip", "read"} => avail <= AvailableRead

\* Every cell from the read position to the last frame copied, the unpublished
\* ones included, holds the frame of its distance.
Contents ==
  /\ \A i \in Idx : Dist(readPos, i) < AvailableRead + wi
       => buf[i] = head + Dist(readPos, i) + 1
  /\ \A j \in 1 .. ri : block[j] = head + j

\* How far the iteration is behind what it saw when it began.
Lag ==
  /\ polled <= tail
  /\ rpc = "skip" => polled - head = avail /\ avail > 3 * need
  /\ rpc = "measure" =>
       polled - head = 2 * need /\ AvailableRead >= 2 * need /\ avail > 3 * need
  /\ rpc \in {"read", "copy"} => polled - head <= 3 * need

CableInv == TypeOK /\ Positions /\ Contents /\ Lag

=============================================================================
