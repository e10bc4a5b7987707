------------------------------- MODULE SlotMix -------------------------------
(***************************************************************************)
(* From the instances to the mixer: every slot's tenant writes its audio   *)
(* into the slot's toHost ring (RimeApo::APOProcess), the bridge's         *)
(* processing thread waits until all active slots have a block and mixes   *)
(* one block of each (IpcAudioClient::readFromApo, called in a loop by     *)
(* AudioEngine::processingLoop).                                           *)
(*                                                                         *)
(* A ring is abstracted to the number of frames in it: module VirtualCable *)
(* shows that such positions and copies make a queue.  The clock is        *)
(* abstracted to "hot": the heartbeat is at most 100 ms old; and, for a    *)
(* gate under way, to which stamps its look at the clock finds recent.     *)
(* Slots are rented as module SlotLease says, and a robbed tenant is not   *)
(* inside APOProcess (module ApoSlots).                                    *)
(***************************************************************************)
EXTENDS Integers

CONSTANTS
  NumSlots,   \* MAX_IPC_SLOTS
  Room,       \* capacityFrames - 1, what a ring can hold
  Block,      \* maxFrames of readFromApo, MAX_BLOCK of processingLoop
  Period,     \* numFrames of APOProcess
  Behind,     \* maxAllowedLatency
  MaxClaims   \* bound: claims made in all

ASSUME MixAssumption ==
  /\ NumSlots \in Nat \ {0} /\ MaxClaims \in Nat
  /\ Block \in Nat \ {0} /\ Period \in Nat \ {0}
  /\ Behind \in Nat /\ Behind >= Block
  /\ Room \in Nat /\ Room >= Block + Period

Slots == 0 .. NumSlots - 1

VARIABLES
  rented,   \* slots[i].instanceId # 0
  hot,      \* ... and slots[i].lastProcessTime is at most 100 ms old
  flush,    \* flushRequestCount # m_lastFlushCount[i]
  unread,   \* getAvailableRead(slots[i].toHost)
  pc,       \* where the tenant's thread is
  paused,   \* the audio engine does not call the tenant
  claims,   \* claims made so far
  bpc,      \* where the processing thread is
  recent,   \* the slots still to come at the gate whose lastProcessTime is at
            \* most 100 ms before its now
  bi,       \* loop variable i of readFromApo
  active,   \* the slots counted in activeSlots; past the gate those of them
            \* (history) that have not given their block yet
  ready,    \* the slots counted in readySlots
  toRead,   \* toRead
  dirty,    \* history: an earlier tenant's frames may be in the ring
  began     \* history: the slots in use when the call began, less those given
            \* up, flushed or stamped too late since, and those whose block is
            \* taken

slotVars == <<rented, hot, flush, unread, pc, paused, claims, dirty>>
countVars == <<bi, active, ready, toRead>>
callVars == <<bpc, recent, countVars>>
vars == <<rented, hot, flush, unread, pc, paused, claims,
          bpc, recent, bi, active, ready, toRead, dirty, began>>

Lesser(x, y) == IF x < y THEN x ELSE y

Init ==
  /\ rented = [i \in Slots |-> FALSE]
  /\ hot = [i \in Slots |-> FALSE]
  /\ flush = [i \in Slots |-> FALSE]
  /\ unread = [i \in Slots |-> 0]
  /\ pc = [i \in Slots |-> "out"]
  /\ paused = [i \in Slots |-> TRUE]
  /\ claims = 0
  /\ bpc = "look" /\ bi = 0 /\ toRead = 0
  /\ active = {} /\ ready = {}
  /\ recent = {} /\ began = {}
  /\ dirty = [i \in Slots |-> FALSE]

-----------------------------------------------------------------------------
(* The tenant of slot i *)

\* lastProcessTime.store(GetTickCount()): to a gate that has not come to the slot
\* yet the stamp is recent, unless the clock has advanced since the gate read it.
Stamp(i) ==
  /\ hot' = [hot EXCEPT ![i] = TRUE]
  /\ \/ bpc = "gate" /\ i >= bi /\ recent' = recent \cup {i} /\ UNCHANGED began
     \/ bpc = "gate" /\ i >= bi /\ recent' = recent \ {i} /\ began' = began \ {i}
     \/ ~ (bpc = "gate" /\ i >= bi) /\ UNCHANGED <<recent, began>>

\* tryClaimSlot takes a slot that is free or not heartbeaten, and stamps it.
Claim(i) ==
  /\ claims < MaxClaims
  /\ ~ rented[i] \/ ~ hot[i]
  /\ pc[i] \in {"out", "idle"}
  /\ claims' = claims + 1
  /\ rented' = [rented EXCEPT ![i] = TRUE]
  /\ Stamp(i)
  /\ paused' = [paused EXCEPT ![i] = FALSE]
  /\ dirty' = [dirty EXCEPT ![i] = unread[i] > 0]
  /\ pc' = [pc EXCEPT ![i] = "claimed"]
  /\ UNCHANGED <<flush, unread, bpc, countVars>>

\* Mutant: the claim does not ask for a flush.
NoFlush(i) ==
  /\ pc[i] = "claimed"
  /\ pc' = [pc EXCEPT ![i] = "idle"]
  /\ UNCHANGED <<rented, hot, flush, unread, paused, claims, dirty, began, callVars>>

\* flushRequestCount.fetch_add(1)
AskFlush(i) ==
  /\ pc[i] = "claimed"
  /\ flush' = [flush EXCEPT ![i] = TRUE]
  /\ pc' = [pc EXCEPT ![i] = "idle"]
  /\ UNCHANGED <<rented, hot, unread, paused, claims, dirty, began, callVars>>

\* APOProcess is called and loads the positions: a block is written whole, or
\* dropped when there is no room for it.
Measure(i) ==
  /\ pc[i] = "idle" /\ rented[i]
  /\ paused' = [paused EXCEPT ![i] = FALSE]
  /\ pc' = [pc EXCEPT ![i] = IF Room - unread[i] >= Period THEN "fill" ELSE "beat"]
  /\ UNCHANGED <<rented, hot, flush, unread, claims, dirty, began, callVars>>

\* The frames are in the ring: writePos.store, SetEvent.
Publish(i) ==
  /\ pc[i] = "fill"
  /\ unread' = [unread EXCEPT ![i] = unread[i] + Period]
  /\ pc' = [pc EXCEPT ![i] = "beat"]
  /\ UNCHANGED <<rented, hot, flush, paused, claims, dirty, began, callVars>>

\* The end of APOProcess: the heartbeat.
Beat(i) ==
  /\ pc[i] = "beat"
  /\ Stamp(i)
  /\ pc' = [pc EXCEPT ![i] = "idle"]
  /\ UNCHANGED <<rented, flush, unread, paused, claims, dirty, bpc, countVars>>

\* The stream stops; the slot stays rented until its instance is destroyed.
Pause(i) ==
  /\ pc[i] = "idle" /\ ~ paused[i]
  /\ paused' = [paused EXCEPT ![i] = TRUE]
  /\ UNCHANGED <<rented, hot, flush, unread, pc, claims, dirty, began, callVars>>

\* 100 ms pass without a call.
Cool(i) ==
  /\ paused[i] /\ hot[i]
  /\ hot' = [hot EXCEPT ![i] = FALSE]
  /\ UNCHANGED <<rented, flush, unread, pc, paused, claims, dirty, began, callVars>>

\* releaseSlot: what is in the ring stays there.
Release(i) ==
  /\ pc[i] = "idle" /\ rented[i]
  /\ rented' = [rented EXCEPT ![i] = FALSE]
  /\ hot' = [hot EXCEPT ![i] = FALSE]
  /\ paused' = [paused EXCEPT ![i] = TRUE]
  /\ pc' = [pc EXCEPT ![i] = "out"]
  /\ began' = began \ {i}
  /\ UNCHANGED <<flush, unread, claims, dirty, callVars>>

-----------------------------------------------------------------------------
(* The processing thread: one call of readFromApo *)

\* now = GetTickCount()
Look ==
  /\ bpc = "look"
  /\ recent' = {i \in Slots : hot[i]}
  /\ began' = recent'
  /\ bpc' = "gate"
  /\ UNCHANGED <<slotVars, countVars>>

\* Mutants: a slot counts as active however old its heartbeat is; a slot is
\* ready as soon as it has any data.
GateEternal ==
  /\ bpc = "gate" /\ bi \in Slots
  /\ active' = IF rented[bi] THEN active \cup {bi} ELSE active
  /\ ready' = IF rented[bi] /\ unread[bi] >= Block THEN ready \cup {bi} ELSE ready
  /\ bi' = bi + 1
  /\ recent' = recent \ {bi}
  /\ UNCHANGED <<slotVars, began, bpc, toRead>>

GateHasty ==
  /\ bpc = "gate" /\ bi \in Slots
  /\ LET counted == rented[bi] /\ bi \in recent IN
       /\ active' = IF counted THEN active \cup {bi} ELSE active
       /\ ready' = IF counted /\ unread[bi] > 0 THEN ready \cup {bi} ELSE ready
  /\ bi' = bi + 1
  /\ recent' = recent \ {bi}
  /\ UNCHANGED <<slotVars, began, bpc, toRead>>

\* First loop: count the active slots and those of them that have a block.  The
\* age is unsigned: a stamp later than now counts as very old.
Gate ==
  /\ bpc = "gate" /\ bi \in Slots
  /\ LET counted == rented[bi] /\ bi \in recent IN
       /\ active' = IF counted THEN active \cup {bi} ELSE active
       /\ ready' = IF counted /\ unread[bi] >= Block THEN ready \cup {bi} ELSE ready
  /\ bi' = bi + 1
  /\ recent' = recent \ {bi}
  /\ UNCHANGED <<slotVars, began, bpc, toRead>>

\* Mutant: the bridge waits only while no slot is ready.
DecideAny ==
  /\ bpc = "gate" /\ bi \notin Slots
  /\ bi' = 0
  /\ ready' = {}
  /\ IF active # {} /\ ready = {}
       THEN bpc' = "look" /\ active' = {} /\ began' = {}
       ELSE bpc' = "flush" /\ UNCHANGED <<active, began>>
  /\ UNCHANGED <<slotVars, recent, toRead>>

\* "If there are active slots, but not all of them have data yet, we must
\* wait!": readFromApo returns 0 and is called again; else the second loop.
Decide ==
  /\ bpc = "gate" /\ bi \notin Slots
  /\ bi' = 0
  /\ ready' = {}
  /\ IF ready # active
       THEN bpc' = "look" /\ active' = {} /\ began' = {}
       ELSE bpc' = "flush" /\ UNCHANGED <<active, began>>
  /\ UNCHANGED <<slotVars, recent, toRead>>

\* Second loop: a free slot is left out, a requested flush drops what is there
\* (neither owes a block any more).
Flush ==
  /\ bpc = "flush" /\ bi \in Slots
  /\ IF ~ rented[bi]
       THEN /\ bi' = bi + 1
            /\ active' = active \ {bi}
            /\ UNCHANGED <<bpc, flush, unread, dirty, began>>
       ELSE /\ bpc' = "avail"
            /\ flush' = [flush EXCEPT ![bi] = FALSE]
            /\ IF flush[bi]
                 THEN /\ unread' = [unread EXCEPT ![bi] = 0]
                      /\ dirty' = [dirty EXCEPT ![bi] = FALSE]
                      /\ active' = active \ {bi}
                      /\ began' = began \ {bi}
                 ELSE UNCHANGED <<unread, dirty, active, began>>
            /\ UNCHANGED bi
  /\ UNCHANGED <<rented, hot, pc, paused, claims, recent, ready, toRead>>

\* Mutant: the skip goes by the limit, not by the block.
AvailSkipMore ==
  /\ bpc = "avail"
  /\ LET n == unread[bi]
         left == IF n > Behind THEN n - Behind ELSE n IN
       /\ toRead' = Lesser(n, Block)
       /\ unread' = [unread EXCEPT ![bi] = left]
       /\ IF n = 0 THEN bpc' = "flush" /\ bi' = bi + 1
                   ELSE bpc' = "copy" /\ UNCHANGED bi
  /\ UNCHANGED <<rented, hot, flush, pc, paused, claims, dirty, began,
                 recent, active, ready>>

\* An empty ring is left out; more than Behind frames are cut to one block.
Avail ==
  /\ bpc = "avail"
  /\ LET n == unread[bi]
         left == IF n > Behind THEN Block ELSE n IN
       /\ toRead' = Lesser(left, Block)
       /\ unread' = [unread EXCEPT ![bi] = left]
       /\ IF n = 0 THEN bpc' = "flush" /\ bi' = bi + 1
                   ELSE bpc' = "copy" /\ UNCHANGED bi
  /\ UNCHANGED <<rented, hot, flush, pc, paused, claims, dirty, began,
                 recent, active, ready>>

\* The frames are mixed into outData and given back to the tenant.
Copy ==
  /\ bpc = "copy"
  /\ LET served == IF toRead = Block THEN {bi} ELSE {} IN
       active' = active \ served /\ began' = began \ served
  /\ unread' = [unread EXCEPT ![bi] = unread[bi] - toRead]
  /\ toRead' = 0
  /\ bpc' = "flush" /\ bi' = bi + 1
  /\ UNCHANGED <<rented, hot, flush, pc, paused, claims, dirty, recent, ready>>

\* readFromApo returns maxRead, the longest of the parts: the block is processed and
\* sent back when there is one (module IpcSession), and the loop goes on.
Done ==
  /\ bpc = "flush" /\ bi \notin Slots
  /\ bpc' = "look" /\ bi' = 0
  /\ active' = {} /\ began' = {}
  /\ UNCHANGED <<slotVars, recent, ready, toRead>>

-----------------------------------------------------------------------------

Process(i) == Measure(i) \/ Publish(i) \/ Beat(i)
ReadFromApo == Look \/ Gate \/ Decide \/ Flush \/ Avail \/ Copy \/ Done

Next ==
  \/ \E i \in Slots : \/ Claim(i) \/ AskFlush(i) \/ Process(i)
                      \/ Pause(i) \/ Cool(i) \/ Release(i)
  \/ ReadFromApo

Spec == Init /\ [][Next]_vars

\* The processing thread wakes at least every 5 ms; a call of APOProcess ends;
\* a stream that is not paused is called again; 100 ms pass.
FairSpec ==
  /\ Spec
  /\ WF_vars(ReadFromApo)
  /\ \A i \in Slots :
       /\ WF_vars(AskFlush(i) \/ Publish(i) \/ Beat(i) \/ (~ paused[i] /\ Measure(i)))
       /\ WF_vars(Cool(i))

-----------------------------------------------------------------------------
(* Properties *)

\* Every variable keeps to its type.
TypeOK ==
  /\ rented \in [Slots -> BOOLEAN] /\ hot \in [Slots -> BOOLEAN]
  /\ flush \in [Slots -> BOOLEAN] /\ paused \in [Slots -> BOOLEAN]
  /\ unread \in [Slots -> 0 .. Room] /\ dirty \in [Slots -> BOOLEAN]
  /\ pc \in [Slots -> {"out", "claimed", "idle", "fill", "beat"}]
  /\ claims \in 0 .. MaxClaims
  /\ bpc \in {"look", "gate", "flush", "avail", "copy"} /\ bi \in 0 .. NumSlots
  /\ active \subseteq Slots /\ ready \subseteq Slots
  /\ recent \subseteq Slots /\ began \subseteq Slots
  /\ toRead \in 0 .. Block

\* The tenant never fills a cell whose frame the bridge has not given back,
\* however the bridge flushes, skips and copies between the tenant's look at
\* the positions and its store of the new one; the bridge copies published
\* frames only.
RingsRaceFree ==
  /\ \A i \in Slots : pc[i] = "fill" => unread[i] + Period <= Room
  /\ bpc = "copy" => toRead <= unread[bi]

\* Once the bridge has answered a claim's flush request, nothing of an earlier
\* tenant's audio is left in the slot ("CLAIMED IPC slot (buffers flushed)").
OldAudioForgotten ==
  \A i \in Slots : rented[i] /\ pc[i] # "claimed" /\ ~ flush[i] => ~ dirty[i]

\* A call that mixes takes a whole block of every slot that it has counted as
\* active, unless the slot was flushed or given up during the call: no slot's
\* audio is cut into pieces because another one is ahead.
WholeBlocksMixed == bpc = "flush" /\ bi \notin Slots => active = {}

\* A call that mixes takes a whole block of every slot in use when the call began
\* ("we must wait until ALL active slots have data"), unless the slot was given up,
\* flushed, or stamped at the gate later than the gate's look at the clock.
AllWaitedFor == bpc = "flush" /\ bi \notin Slots => began = {}

\* "If the slot has been processed within the last 100ms, consider it actively
\* running": a slot with audio whose heartbeat is young when the gate comes to it
\* is counted.
CountedIfRecent ==
  [][Gate => (rented[bi] /\ hot[bi] /\ unread[bi] > 0 => bi \in active')]_vars

\* No stream waits forever for the others: while a slot with a full block stays
\* rented, the second loop gets to it, however the other tenants come, pause
\* and go.
EveryBlockTaken ==
  \A i \in Slots :
    rented[i] /\ unread[i] >= Block ~> ~ rented[i] \/ (bpc = "avail" /\ bi = i)

-----------------------------------------------------------------------------
(* Inductive invariant *)

\* What the threads have looked up is still so when they act on it.
Pending ==
  /\ RingsRaceFree
  /\ bpc \in {"avail", "copy"} => bi \in Slots
  /\ bpc # "copy" => toRead = 0

\* At the gate, a ready slot has a block and was counted; past it, the slots
\* that owe a block are still to come and still have it.
Owing ==
  /\ ready \subseteq active
  /\ bpc # "gate" => ready = {}
  /\ bpc = "look" => bi = 0 /\ active = {} /\ began = {}
  /\ \A j \in ready : unread[j] >= Block
  /\ bpc = "gate" => \A j \in active : j < bi
  /\ \A j \in recent : bpc = "gate" /\ j >= bi
  /\ bpc # "gate" => \A j \in active :
       /\ j >= bi
       /\ bpc = "copy" /\ j = bi => toRead = Block
       /\ unread[j] >= Block

\* A tenant that heartbeats, or is inside APOProcess, has the slot.
HotIsRented ==
  \A i \in Slots : hot[i] \/ pc[i] \notin {"out", "idle"} => rented[i]

\* The slots that began the call are still rented; at the gate they count as recent,
\* so that it finds them active, and past it they are among those that owe a block.
Waited ==
  /\ \A j \in began : rented[j]
  /\ bpc = "gate" => began \subseteq active \cup recent
  /\ bpc # "gate" => began \subseteq active

MixInv ==
  TypeOK /\ Pending /\ Owing /\ HotIsRented /\ Waited /\ OldAudioForgotten

=============================================================================
