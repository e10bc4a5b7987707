----------------------------- MODULE IpcSession -----------------------------
(***************************************************************************)
(* One stream's instance and the bridge across the sessions of both: who   *)
(* creates the IPC block, who clears and sizes it, what a start of the     *)
(* bridge finds in it, and the way of the audio through the bridge and     *)
(* back.                                                                   *)
(*                                                                         *)
(* One instance at a time (several: ApoSlots, SlotMix), whose slot is the  *)
(* first one.  A period of 480 frames is P units, the 48 frames of         *)
(* prefillSilence are one.  A unit in a ring is its age, the number of     *)
(* units recorded after it, in the instance's calls; what is older than    *)
(* Old, silence included, has age Old.  A block of toHost, which is        *)
(* written and read whole, is the age of its last unit.                    *)
(***************************************************************************)
EXTENDS Integers, Sequences

CONSTANTS
  P,          \* units of a period
  Room,       \* blocks a ring can hold
  Behind,     \* maxAllowedLatency, in blocks
  Old,        \* bound: ages are counted up to this
  MaxLate,    \* bound: calls that come before the serving bridge has finished
  MaxStarts,  \* bound: starts of the bridge
  MaxLives,   \* bound: instances created
  Hazards     \* what Windows may do to a start of the bridge, see below

Hazard == {"denied"}  \* a block that exists is got from OpenFileMappingW only

ASSUME SessionAssumption ==
  /\ P \in Nat \ {0} /\ Behind \in Nat \ {0} /\ Room \in Nat /\ Room > Behind
  /\ Old \in Nat /\ Old > P
  /\ MaxLate \in Nat /\ MaxStarts \in Nat /\ MaxLives \in Nat
  /\ Hazards \subseteq Hazard

VARIABLES
  \* the block
  capacity,      \* capacityFrames of the rings: "none", "partly" or "set"
  hostIsRunning,
  owned,         \* the slot has the instance's id (else it is free)
  master,        \* masterInstanceId: nobody, the instance, an earlier instance
                 \* ("gone"), one whose time is more than 100 ms ago ("stale")
  asked,         \* flushRequestCount
  toHost,        \* ages of the blocks between the positions
  fromHost,      \* ages of the units between the positions
  tail,          \* ages of the P units before fromHost's writePos
  leaked,        \* audiodg.exe holds a view that no instance will unmap
  \* the instance
  pc,            \* where its thread is
  inLock,        \* between LockForProcess and UnlockForProcess
  hasSlot,       \* m_hasSlot
  lives,         \* instances so far
  \* the bridge
  bpc,           \* where initialize or the processing thread is
  answered,      \* m_lastFlushCount
  batch,         \* the block being processed
  starts,        \* starts so far
  late,          \* calls so far that found the bridge busy
  \* history
  heard,         \* age of the newest unit played in this life of the instance
  since          \* units recorded since hostIsRunning was raised

claim    == <<owned, asked>>
rings    == <<toHost, fromHost, tail>>
block    == <<capacity, hostIsRunning, owned, master, asked, toHost, fromHost, tail>>
instance == <<pc, inLock, hasSlot, lives, leaked>>
bridge   == <<bpc, answered, batch, starts>>
history  == <<heard, since>>
vars     == <<capacity, hostIsRunning, owned, master, asked, toHost, fromHost,
              tail, leaked, pc, inLock, hasSlot, lives, bpc, answered, batch,
              starts, late, heard, since>>

Ages    == 0 .. Old
Silence(n) == [k \in 1 .. n |-> Old]
Older(age) == IF age + P < Old THEN age + P ELSE Old
AllOlder(ages) == [k \in DOMAIN ages |-> Older(ages[k])]
Last(ages, n) == SubSeq(ages, Len(ages) - n + 1, Len(ages))
Lowest(ages) == CHOOSE a \in ages : \A b \in ages : a <= b

\* A block's units, the first recorded first.
Units(b) == [j \in 1 .. P |-> IF b + P - j < Old THEN b + P - j ELSE Old]

Starting == {"created", "opened", "size", "sizing", "announce", "prefill", "load"}
Announcing == {"prefill", "load", "read", "send"}
Serving  == bpc \in {"read", "send"}
Using    == {"write", "elect", "pull", "play", "pass", "mute"}

Init ==
  /\ capacity = "none" /\ hostIsRunning = FALSE
  /\ owned = FALSE /\ master = "nobody" /\ asked = 0
  /\ toHost = << >> /\ fromHost = << >> /\ tail = Silence(P)
  /\ leaked = FALSE
  /\ pc = "absent" /\ inLock = FALSE /\ hasSlot = FALSE /\ lives = 0
  /\ bpc = "off" /\ answered = 0 /\ batch = 0 /\ starts = 0 /\ late = 0
  /\ heard = Old /\ since = 0

\* The block as the kernel creates it and as memset leaves it.
Zeroed ==
  /\ capacity' = "none" /\ hostIsRunning' = FALSE
  /\ owned' = FALSE /\ master' = "nobody" /\ asked' = 0
  /\ toHost' = << >> /\ fromHost' = << >> /\ tail' = Silence(P)

\* The section is discarded with its last handle or view.
Closed(held) == IF held THEN UNCHANGED block ELSE Zeroed

-----------------------------------------------------------------------------
(* Life of the instance *)

\* Initialize maps the block, creating it if need be.
Create ==
  /\ pc = "absent" /\ lives < MaxLives
  /\ pc' = "idle" /\ lives' = lives + 1
  /\ UNCHANGED <<block, inLock, hasSlot, leaked, bridge, late, history>>

\* tryClaimSlot: the bridge is asked to flush toHost, and fromHost is set back by
\* a period if it has been sized.
ClaimSlot ==
  /\ owned' = TRUE /\ hasSlot' = TRUE
  /\ asked' = asked + 1
  /\ fromHost' = IF capacity = "set" THEN tail ELSE fromHost

\* LockForProcess maps once more, which leaks the view of Initialize, and claims,
\* whether there is a bridge or not.
LockForProcess ==
  /\ pc = "idle" /\ ~ inLock
  /\ inLock' = TRUE /\ leaked' = TRUE
  /\ IF hasSlot THEN UNCHANGED <<claim, fromHost, hasSlot>> ELSE ClaimSlot
  /\ UNCHANGED <<capacity, hostIsRunning, master, toHost, tail, pc, lives, bridge,
                 late, history>>

UnlockForProcess ==
  /\ pc = "idle" /\ inLock
  /\ inLock' = FALSE
  /\ UNCHANGED <<block, pc, hasSlot, lives, leaked, bridge, late, history>>

\* unmapSharedMemory: releaseSlot and the instance's last view.
Destroy ==
  /\ pc = "idle" /\ ~ inLock
  /\ pc' = "absent" /\ hasSlot' = FALSE /\ heard' = Old
  /\ IF leaked \/ bpc # "off"
       THEN /\ owned' = (owned /\ ~ hasSlot)
            /\ master' = IF master = "instance" THEN "gone" ELSE master
            /\ UNCHANGED <<capacity, hostIsRunning, asked, rings>>
       ELSE Zeroed
  /\ UNCHANGED <<inLock, lives, leaked, bridge, late, since>>

\* audiodg.exe ends when no stream is left.
EngineEnds ==
  /\ pc = "absent" /\ leaked
  /\ leaked' = FALSE
  /\ Closed(bpc # "off")
  /\ UNCHANGED <<pc, inLock, hasSlot, lives, bridge, late, history>>

\* 100 ms pass since an earlier master's last call.
MasterAges ==
  /\ master = "gone" /\ master' = "stale"
  /\ UNCHANGED <<capacity, hostIsRunning, claim, rings, instance, bridge, late,
                 history>>

-----------------------------------------------------------------------------
(* APOProcess *)

\* The bridge has nothing left to do.
BridgeIsDone == Serving => bpc = "read" /\ (toHost = << >> \/ ~ owned)

\* Windows calls with the next period.  Without hostIsRunning it is passed
\* through.
Call ==
  /\ pc = "idle" /\ inLock
  /\ IF BridgeIsDone THEN UNCHANGED late ELSE late < MaxLate /\ late' = late + 1
  /\ toHost' = AllOlder(toHost) /\ fromHost' = AllOlder(fromHost)
  /\ tail' = AllOlder(tail)
  /\ batch' = IF bpc = "send" THEN Older(batch) ELSE batch
  /\ heard' = Older(heard)
  /\ since' = IF bpc \in Announcing THEN Older(since) ELSE since
  /\ pc' = IF hostIsRunning THEN "slot" ELSE "through"
  /\ UNCHANGED <<capacity, hostIsRunning, claim, master, inLock, hasSlot, lives,
                 leaked, bpc, answered, starts>>

\* A slot is claimed.
CallClaims ==
  /\ pc = "slot" /\ ~ hasSlot
  /\ ClaimSlot
  /\ pc' = "guard"
  /\ UNCHANGED <<capacity, hostIsRunning, master, toHost, tail, inLock, lives,
                 leaked, bridge, late, history>>

\* Or the slot is verified; one that was lost is given up.
CallVerifies ==
  /\ pc = "slot" /\ hasSlot
  /\ hasSlot' = owned
  /\ pc' = IF owned THEN "guard" ELSE "through"
  /\ UNCHANGED <<block, inLock, lives, leaked, bridge, late, history>>

\* Mutant: the slot's capacities are not looked at.
GuardMissing ==
  /\ pc = "guard"
  /\ pc' = "write"
  /\ UNCHANGED <<block, inLock, hasSlot, lives, leaked, bridge, late, history>>

\* "Prevent divide-by-zero if shared memory is not fully initialized".
Guard ==
  /\ pc = "guard"
  /\ pc' = IF capacity = "set" THEN "write" ELSE "through"
  /\ UNCHANGED <<block, inLock, hasSlot, lives, leaked, bridge, late, history>>

\* The block goes to toHost if there is room.
Write ==
  /\ pc = "write"
  /\ toHost' = IF Len(toHost) < Room THEN Append(toHost, 0) ELSE toHost
  /\ pc' = "elect"
  /\ UNCHANGED <<capacity, hostIsRunning, claim, master, fromHost, tail, inLock,
                 hasSlot, lives, leaked, bridge, late, history>>

\* Mutant: the age of the master's last call is not looked at.
ElectFirst ==
  /\ pc = "elect"
  /\ master' = IF master \in {"nobody", "instance"} THEN "instance" ELSE master
  /\ pc' = IF master' = "instance" THEN "pull" ELSE "mute"
  /\ UNCHANGED <<capacity, hostIsRunning, claim, rings, inLock, hasSlot, lives,
                 leaked, bridge, late, history>>

Elect ==
  /\ pc = "elect"
  /\ master' = IF master = "gone" THEN "gone" ELSE "instance"
  /\ pc' = IF master' = "instance" THEN "pull" ELSE "mute"
  /\ UNCHANGED <<capacity, hostIsRunning, claim, rings, inLock, hasSlot, lives,
                 leaked, bridge, late, history>>

\* Mutant: the cushion is never cut.
PullNoSkip ==
  /\ pc = "pull"
  /\ pc' = IF Len(fromHost) < P THEN "pass" ELSE "play"
  /\ UNCHANGED <<block, inLock, hasSlot, lives, leaked, bridge, late, history>>

\* Less than a period in fromHost means passthrough, more than two are cut to one.
Pull ==
  /\ pc = "pull"
  /\ pc' = IF Len(fromHost) < P THEN "pass" ELSE "play"
  /\ fromHost' = IF Len(fromHost) > 2 * P THEN Last(fromHost, P) ELSE fromHost
  /\ UNCHANGED <<capacity, hostIsRunning, claim, master, toHost, tail, inLock,
                 hasSlot, lives, leaked, bridge, late, history>>

\* Mutant: the read position is not stored.
PlayKeep ==
  /\ pc = "play"
  /\ heard' = Lowest({heard} \cup {fromHost[k] : k \in 1 .. P})
  /\ pc' = "idle"
  /\ UNCHANGED <<block, inLock, hasSlot, lives, leaked, bridge, late, since>>

\* A period is played and given back.
Play ==
  /\ pc = "play"
  /\ heard' = Lowest({heard} \cup {fromHost[k] : k \in 1 .. P})
  /\ fromHost' = SubSeq(fromHost, P + 1, Len(fromHost))
  /\ pc' = "idle"
  /\ UNCHANGED <<capacity, hostIsRunning, claim, master, toHost, tail, inLock,
                 hasSlot, lives, leaked, bridge, late, since>>

\* The call ends with the input passed through ("through" and, for want of audio
\* from the bridge, "pass") or with silence.
PassOrMute ==
  /\ pc \in {"through", "pass", "mute"}
  /\ pc' = "idle"
  /\ UNCHANGED <<block, inLock, hasSlot, lives, leaked, bridge, late, history>>

-----------------------------------------------------------------------------
(* IpcAudioClient::initialize and shutdown *)

\* Some process has the block open.
Found == leaked \/ pc # "absent"

\* How CreateFileMappingW leaves it: the bridge takes a block for its own when the
\* last error is not ERROR_ALREADY_EXISTS, which is also so when it got the block
\* from OpenFileMappingW after ERROR_ACCESS_DENIED.
OpenOutcomes ==
  IF ~ Found THEN {"created"}
  ELSE IF "denied" \in Hazards THEN {"opened", "created"} ELSE {"opened"}

\* Mutant: a bridge that starts takes the requests so far for answered.
OpenCatchesUp ==
  /\ bpc = "off" /\ starts < MaxStarts
  /\ starts' = starts + 1
  /\ bpc' \in OpenOutcomes
  /\ answered' = asked
  /\ UNCHANGED <<block, instance, batch, late, history>>

Open ==
  /\ bpc = "off" /\ starts < MaxStarts
  /\ starts' = starts + 1
  /\ bpc' \in OpenOutcomes
  /\ UNCHANGED <<block, instance, answered, batch, late, history>>

\* Who created the block clears it, with what an instance that opened it since
\* has put there.
Clear ==
  /\ bpc = "created"
  /\ Zeroed
  /\ bpc' = "size"
  /\ UNCHANGED <<instance, answered, batch, starts, late, history>>

\* Mutant: a block that was found is taken to be sized.
LookTrusting ==
  /\ bpc = "opened"
  /\ bpc' = "announce"
  /\ UNCHANGED <<block, instance, answered, batch, starts, late, history>>

\* A block that was found is sized if the first slot's toHost has no capacity.
Look ==
  /\ bpc = "opened"
  /\ bpc' = IF capacity = "none" THEN "size" ELSE "announce"
  /\ UNCHANGED <<block, instance, answered, batch, starts, late, history>>

\* The rings get their capacity and start empty, the first slot's toHost first.
Size ==
  /\ \/ bpc = "size" /\ capacity' = "partly" /\ bpc' = "sizing"
     \/ bpc = "sizing" /\ capacity' = "set" /\ bpc' = "announce"
  /\ toHost' = << >>
  /\ fromHost' = IF bpc = "sizing" THEN << >> ELSE fromHost
  /\ tail' = IF bpc = "sizing" THEN Silence(P) ELSE tail
  /\ UNCHANGED <<hostIsRunning, claim, master, instance, answered, batch, starts,
                 late, history>>

Announce ==
  /\ bpc = "announce"
  /\ hostIsRunning' = TRUE
  /\ bpc' = "prefill"
  /\ UNCHANGED <<capacity, claim, master, rings, instance, answered, batch, starts,
                 late, history>>

\* What fits of the units is added to fromHost.
Fill(units) ==
  LET room == Room * P - Len(fromHost)
      new  == SubSeq(units, 1, IF room < Len(units) THEN room ELSE Len(units))
  IN  /\ fromHost' = fromHost \o new
      /\ tail' = Last(tail \o new, P)

PrefillSilence ==
  /\ bpc = "prefill"
  /\ IF capacity = "set" THEN Fill(Silence(1)) ELSE UNCHANGED <<fromHost, tail>>
  /\ bpc' = "load"
  /\ UNCHANGED <<capacity, hostIsRunning, claim, master, toHost, instance, answered,
                 batch, starts, late, history>>

\* The rest of AudioEngine::initialize, and start.
StartLoop ==
  /\ bpc = "load"
  /\ bpc' = "read"
  /\ UNCHANGED <<block, instance, answered, batch, starts, late, history>>

\* After a failed start, or when the loop has ended.
Shutdown ==
  /\ bpc \in {"load", "read"}
  /\ bpc' = "off" /\ answered' = 0 /\ batch' = 0 /\ since' = 0
  /\ IF Found
       THEN /\ hostIsRunning' = FALSE
            /\ UNCHANGED <<capacity, claim, master, rings>>
       ELSE Zeroed
  /\ UNCHANGED <<instance, starts, late, heard>>

\* rime_bridge.exe dies.
Crash ==
  /\ bpc # "off"
  /\ bpc' = "off" /\ answered' = 0 /\ batch' = 0 /\ since' = 0
  /\ Closed(Found)
  /\ UNCHANGED <<instance, starts, late, heard>>

-----------------------------------------------------------------------------
(* The processing thread *)

\* readFromApo takes the next block; a queue that is too long is cut to the
\* newest one.
Take ==
  /\ bpc = "read" /\ owned /\ asked = answered /\ toHost # << >>
  /\ LET queue == IF Len(toHost) > Behind THEN Last(toHost, 1) ELSE toHost IN
       /\ batch' = Head(queue)
       /\ toHost' = Tail(queue)
  /\ bpc' = "send"
  /\ UNCHANGED <<capacity, hostIsRunning, claim, master, fromHost, tail, instance,
                 answered, starts, late, history>>

\* readFromApo answers a flush request: what is in toHost is lost.  (With an
\* empty toHost it gets here only while the slot's heartbeat is old.)
Flush ==
  /\ bpc = "read" /\ owned /\ asked # answered
  /\ answered' = asked
  /\ toHost' = << >>
  /\ UNCHANGED <<capacity, hostIsRunning, claim, master, fromHost, tail, instance,
                 bpc, batch, starts, late, history>>

\* Where writeToApo finds masterInstanceId: 0 is also the id of a free slot.
FindsSlot == IF owned THEN master = "instance" ELSE master = "nobody"

\* writeToApo: what fits of the processed block goes to the master's slot; without
\* one it is lost.
Send ==
  /\ bpc = "send"
  /\ IF FindsSlot THEN Fill(Units(batch)) ELSE UNCHANGED <<fromHost, tail>>
  /\ bpc' = "read" /\ batch' = 0
  /\ UNCHANGED <<capacity, hostIsRunning, claim, master, toHost, instance, answered,
                 starts, late, history>>

-----------------------------------------------------------------------------

ApoProcess ==
  \/ Call \/ CallClaims \/ CallVerifies \/ Guard \/ Write \/ Elect \/ Pull
  \/ Play \/ PassOrMute

Bridge ==
  \/ Clear \/ Look \/ Size \/ Announce \/ PrefillSilence \/ StartLoop
  \/ Take \/ Flush \/ Send

Next ==
  \/ Create \/ LockForProcess \/ UnlockForProcess \/ Destroy \/ EngineEnds
  \/ MasterAges \/ ApoProcess
  \/ Open \/ Shutdown \/ Crash \/ Bridge

Spec == Init /\ [][Next]_vars

\* The audio engine goes on calling a locked instance, a bridge that was started
\* goes on running, and time goes on.
FairSpec ==
  Spec /\ WF_vars(ApoProcess) /\ WF_vars(Bridge) /\ WF_vars(MasterAges)

-----------------------------------------------------------------------------
(* Properties *)

\* APOProcess works on the rings only while the slot is its own and both rings
\* have a capacity: no division by zero, also when a bridge died half-way through
\* sizing the block, and no bridge that starts clears a block in use.
ReadyWhileUsed == pc \in Using => owned /\ capacity = "set"

\* No audio is processed that was recorded before the bridge announced itself,
\* whatever an earlier bridge has left in the ring (m_lastFlushCount starts at 0,
\* flushRequestCount does not).
NoOldSession == bpc = "send" => batch <= since

\* Audio is played in the order it was recorded and no unit twice, through skips,
\* drops, underruns and restarts of the bridge; only the period that a claim goes
\* back to may have been played before, by the former instance.
PlayedInOrder ==
  [][pc = "play" /\ pc' = "idle" =>
       \A k \in 1 .. P :
         /\ fromHost[k] < Old => fromHost[k] < heard
         /\ \A j \in 1 .. k - 1 :
              fromHost[k] < Old => fromHost[j] > fromHost[k]]_vars

\* With a bridge that serves and keeps up in the end, what is played was in the
\* end recorded at most two calls before: no lateness, leftover of an earlier
\* session or prefilled silence adds up ("Keep at most numFrames of cushion to
\* prevent permanent latency buildup").
LatencySettles ==
  <>[](Serving /\ inLock) => <>[](pc = "play" => Head(fromHost) < 3 * P)

\* With a bridge that serves and keeps up in the end, every call in the end plays
\* processed audio, whoever created the block, and whatever was cleared under an
\* early claim or left by a crash, unless that crash left the block half sized.
GapsEnd ==
  <>[](Serving /\ inLock /\ capacity = "set") => <>[](pc \notin {"through", "pass", "mute"})

-----------------------------------------------------------------------------
(* Inductive invariant *)

ControlOK ==
  /\ capacity \in {"none", "partly", "set"}
  /\ hostIsRunning \in BOOLEAN /\ owned \in BOOLEAN /\ leaked \in BOOLEAN
  /\ inLock \in BOOLEAN /\ hasSlot \in BOOLEAN
  /\ master \in {"nobody", "instance", "gone", "stale"}
  /\ pc \in {"absent", "idle", "slot", "guard", "through"} \cup Using
  /\ bpc \in {"off", "read", "send"} \cup Starting

CountersOK ==
  /\ asked \in Nat /\ answered \in Nat
  /\ lives \in 0 .. MaxLives /\ starts \in 0 .. MaxStarts /\ late \in 0 .. MaxLate

RingsOK ==
  /\ toHost \in Seq(Ages) /\ Len(toHost) <= Room
  /\ fromHost \in Seq(Ages) /\ Len(fromHost) <= Room * P
  /\ tail \in Seq(Ages) /\ Len(tail) = P
  /\ batch \in Ages /\ heard \in Ages /\ since \in Ages
  /\ pc = "play" => Len(fromHost) >= P

\* Every variable keeps to its type.
TypeOK == ControlOK /\ CountersOK /\ RingsOK

\* The bridge raises hostIsRunning after it has sized the block; a block that
\* nobody holds is gone.
Announced ==
  /\ bpc = "off" /\ ~ Found => ~ hostIsRunning
  /\ hostIsRunning => capacity # "none"
  /\ bpc \in {"announce"} \cup Announcing => capacity # "none"
  /\ bpc \in {"created", "size", "sizing"} => ~ hostIsRunning
  /\ bpc \in Announcing => hostIsRunning

\* Past the look at hostIsRunning no start of a bridge clears the block any more.
Claimed ==
  /\ owned => hasSlot
  /\ pc = "absent" => ~ inLock /\ ~ hasSlot
  /\ pc \in {"slot", "guard"} \cup Using => bpc \notin {"created", "size", "sizing"}
  /\ pc \in {"slot", "guard"} => capacity # "none"
  /\ pc = "guard" => owned

\* Without a claim nothing was written.
Unclaimed ==
  /\ owned => asked > 0
  /\ asked = 0 => toHost = << >>

\* A flush that is due is never taken for one that was answered.
FlushDue ==
  /\ answered <= asked
  /\ ~ Serving => answered = 0
  /\ Serving /\ asked = answered => \A k \in DOMAIN toHost : toHost[k] <= since

(* The order of the audio, from what was played back to what is recorded *)

\* Units in the order they were recorded, silence aside; units not played yet;
\* units recorded before the block b.
InOrder(ages) ==
  \A k \in DOMAIN ages : ages[k] < Old => \A j \in 1 .. k - 1 : ages[j] > ages[k]
Unheard(ages) == \A k \in DOMAIN ages : ages[k] < Old => ages[k] < heard
Before(ages, b) == \A k \in DOMAIN ages : ages[k] >= Older(b)

\* The block b was recorded after all that has been through the bridge.
Newest(b) == heard >= Older(b) /\ Before(fromHost, b) /\ Before(tail, b)

\* A period was recorded and may still be written.
Recording == pc \in {"slot", "guard", "write"}

\* fromHost has what was not played, in order, and so has the period before it
\* that the next claim goes back to.
ReturnInOrder ==
  /\ InOrder(fromHost) /\ Unheard(fromHost)
  /\ InOrder(tail) /\ (~ owned => Unheard(tail))

\* The blocks on their way to the bridge are in order, and newer than what has
\* been there.
WayInOrder ==
  /\ \A k \in DOMAIN toHost : \A j \in 1 .. k - 1 : toHost[j] >= Older(toHost[k])
  /\ \A k \in DOMAIN toHost : Newest(toHost[k])
  /\ bpc = "send" => Newest(batch) /\ \A k \in DOMAIN toHost : batch >= Older(toHost[k])
  /\ Recording => /\ Newest(0) /\ Before(toHost, 0)
                  /\ bpc = "send" => batch >= Older(0)

SessionInv ==
  /\ TypeOK /\ Announced /\ Claimed /\ ReadyWhileUsed
  /\ Unclaimed /\ FlushDue /\ NoOldSession
  /\ ReturnInOrder /\ WayInOrder

=============================================================================
