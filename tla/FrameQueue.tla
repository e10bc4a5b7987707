----------------------------- MODULE FrameQueue -----------------------------
(***************************************************************************)
(* What a ring buffer promises to its one writer and its one reader: a     *)
(* bounded first-in first-out queue of frames.  Frames are numbered in the *)
(* order they are put; the queue holds the numbers head + 1 .. tail.  What *)
(* the reader gets is exactly the next numbers, whole and in order.        *)
(***************************************************************************)
EXTENDS Integers

CONSTANT Room      \* how many frames fit

VARIABLES
  head,   \* number of the last frame that left the queue
  tail,   \* number of the last frame that entered it
  out     \* the block the reader got last

QInit == head = 0 /\ tail = 0 /\ out = << >>

Put(k) ==
  /\ tail + k - head <= Room
  /\ tail' = tail + k
  /\ UNCHANGED <<head, out>>

Get(k) ==
  /\ k <= tail - head
  /\ out' = [i \in 1 .. k |-> head + i]
  /\ head' = head + k
  /\ UNCHANGED tail

\* The reader gives up frames it will not play.
Drop(k) ==
  /\ k <= tail - head
  /\ head' = head + k
  /\ UNCHANGED <<tail, out>>

QNext == \E k \in 1 .. Room : Put(k) \/ Get(k) \/ Drop(k)

QSpec == QInit /\ [][QNext]_<<head, tail, out>>

=============================================================================
