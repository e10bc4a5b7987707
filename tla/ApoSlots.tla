------------------------------ MODULE ApoSlots ------------------------------
(***************************************************************************)
(* The slot protocol by which the audio processing objects (RimeApo), one  *)
(* per audio stream and all inside audiodg.exe, share the IPC block with   *)
(* the bridge: claiming a slot, proving that it is still in use by a       *)
(* heartbeat, stealing a slot whose heartbeat is old, electing the one     *)
(* "master" instance that plays the mixed audio back.                      *)
(*                                                                         *)
(* Every load, store and compare-exchange of the shared block that another *)
(* instance can tell apart is a step of its own; the steps of different    *)
(* instances interleave (each stream has its own real-time thread).  The   *)
(* sample data of the rings is left to modules SlotMix and IpcSession.     *)
(***************************************************************************)
EXTENDS Integers

CONSTANTS
  NumApos,   \* bound: instances one audiodg process creates in its lifetime
  NumSlots,  \* MAX_IPC_SLOTS
  TickMod,   \* GetTickCount() counts modulo this (2^32 in the code)
  Stale,     \* a heartbeat older than this is dead (100 ms in the code)
  Hazards    \* what the schedule may do to the instances, see below

Hazard == {"parallelClaims", \* two instances are inside tryClaimSlot at once
           "ticksInClaim",   \* the clock advances during a tryClaimSlot
           "pauses",         \* a slot's holder lets its heartbeat grow old
           "hostChurn",      \* the bridge starts late, stops or crashes
           "mapFailures",    \* mapSharedMemory may fail
           "engineCrash"}    \* audiodg.exe dies and is restarted

ASSUME SlotsAssumption ==
  /\ NumApos \in Nat \ {0}
  /\ NumSlots \in Nat \ {0}
  /\ Stale \in Nat \ {0}
  /\ TickMod \in Nat /\ TickMod > Stale + 1
  /\ Hazards \subseteq Hazard

Apos  == 1 .. NumApos      \* instance ids, in the order of s_nextInstanceId
NoId  == 0                 \* instanceId / masterInstanceId: none
Slots == 0 .. NumSlots - 1
NoSlot == -1
Times == 0 .. TickMod - 1

VARIABLES
  \* the shared block (IpcMemoryLayout)
  owner,          \* [Slots -> Apos \cup {NoId}]   slots[i].instanceId
  lastTime,       \* [Slots -> Times]              slots[i].lastProcessTime
  master,         \* masterInstanceId
  masterTime,     \* masterLastProcessTime
  hostIsRunning,  \* hostIsRunning
  \* the environment
  clock,          \* GetTickCount()
  hostAlive,      \* the bridge process holds the section and serves it
  nextId,         \* s_nextInstanceId of the running audiodg
  leaked,         \* audiodg holds a view that no instance will unmap
  \* the instances
  pc,             \* where the instance's thread is
  inLock,         \* between LockForProcess and UnlockForProcess
  mapped,         \* m_sharedMem # nullptr
  mySlot,         \* m_mySlot; m_hasSlot is mySlot # NoSlot
  scan,           \* local i of tryClaimSlot
  now,            \* local now of tryClaimSlot and APOProcess
  seen,           \* local owner of tryClaimSlot, currentMaster of APOProcess
  heard           \* local masterLastTime of APOProcess

shared == <<owner, lastTime, master, masterTime, hostIsRunning>>
env    == <<clock, hostAlive, nextId, leaked>>
locals == <<scan, now, seen, heard>>
vars   == <<owner, lastTime, master, masterTime, hostIsRunning,
            clock, hostAlive, nextId, leaked,
            pc, inLock, mapped, mySlot, scan, now, seen, heard>>

\* uint32_t subtraction: a stamp later than "now" looks very old.
Age(t, stamp) == IF stamp <= t THEN t - stamp ELSE TickMod - (stamp - t)

Claiming(a) == pc[a] \in {"scan", "cas", "stamp"}
\* Past the ownership check of APOProcess: the instance uses its slot's rings.
Using(a)    == pc[a] \in {"write", "hear", "decide", "crown", "crownTime", "read", "mute",
                          "beat"}
Living(a)   == pc[a] \notin {"absent", "gone"}

-----------------------------------------------------------------------------

Init ==
  /\ owner = [i \in Slots |-> NoId]
  /\ lastTime = [i \in Slots |-> 0]
  /\ master = NoId
  /\ masterTime = 0
  /\ hostAlive \in BOOLEAN
  /\ hostAlive <=> "hostChurn" \notin Hazards
  /\ hostIsRunning = hostAlive
  /\ clock \in Times
  /\ nextId = 1
  /\ leaked = FALSE
  /\ pc = [a \in Apos |-> "absent"]
  /\ inLock = [a \in Apos |-> FALSE]
  /\ mapped = [a \in Apos |-> FALSE]
  /\ mySlot = [a \in Apos |-> NoSlot]
  /\ scan = [a \in Apos |-> 0]
  /\ now = [a \in Apos |-> 0]
  /\ seen = [a \in Apos |-> NoId]
  /\ heard = [a \in Apos |-> 0]

\* What mapSharedMemory may leave in m_sharedMem: the view; null when
\* MapViewOfFile failed; the old pointer when CreateFileMapping failed.
MapOutcomes(a) ==
  IF "mapFailures" \in Hazards THEN {TRUE, FALSE, mapped[a]} ELSE {TRUE}

\* The thread leaves the handler; its locals are gone.
Return(a) ==
  /\ pc' = [pc EXCEPT ![a] = "idle"]
  /\ scan' = [scan EXCEPT ![a] = 0]
  /\ now' = [now EXCEPT ![a] = 0]
  /\ seen' = [seen EXCEPT ![a] = NoId]
  /\ heard' = [heard EXCEPT ![a] = 0]

\* The last handle on the section is closed: the kernel discards the block,
\* and the next process to create it finds zeros.
DropSection ==
  /\ owner' = [i \in Slots |-> NoId]
  /\ lastTime' = [i \in Slots |-> 0]
  /\ master' = NoId
  /\ masterTime' = 0
  /\ hostIsRunning' = FALSE

-----------------------------------------------------------------------------
(* Life of an instance *)

\* CoCreateInstance and Initialize: the constructor draws an id, Initialize maps.
Create(a) ==
  /\ pc[a] = "absent" /\ a = nextId
  /\ nextId' = nextId + 1
  /\ \E m \in MapOutcomes(a) : mapped' = [mapped EXCEPT ![a] = m]
  /\ pc' = [pc EXCEPT ![a] = "idle"]
  /\ UNCHANGED <<shared, clock, hostAlive, leaked, inLock, mySlot, locals>>

\* tryClaimSlot is entered: now = GetTickCount(), i = 0.
BeginClaim(a) ==
  /\ "parallelClaims" \in Hazards \/ \A b \in Apos \ {a} : ~ Claiming(b)
  /\ pc' = [pc EXCEPT ![a] = "scan"]
  /\ now' = [now EXCEPT ![a] = clock]
  /\ UNCHANGED <<scan, seen, heard>>

\* Mutant: LockForProcess claims a second slot.
LockTwice(a) ==
  /\ pc[a] = "idle" /\ ~ inLock[a]
  /\ leaked' = (leaked \/ mapped[a])
  /\ mapped' = [mapped EXCEPT ![a] = TRUE]
  /\ BeginClaim(a)
  /\ UNCHANGED <<shared, clock, hostAlive, nextId, inLock, mySlot>>

\* LockForProcess maps again (the old view and handle are overwritten, never
\* closed) and claims a slot unless the instance has one.
LockForProcess(a) ==
  /\ pc[a] = "idle" /\ ~ inLock[a]
  /\ leaked' = (leaked \/ mapped[a])
  /\ \E m \in MapOutcomes(a) :
       /\ mapped' = [mapped EXCEPT ![a] = m]
       /\ \/ /\ m /\ mySlot[a] = NoSlot
             /\ BeginClaim(a)
             /\ UNCHANGED inLock
          \/ /\ ~ m \/ mySlot[a] # NoSlot
             /\ inLock' = [inLock EXCEPT ![a] = TRUE]
             /\ UNCHANGED <<pc, locals>>
  /\ UNCHANGED <<shared, clock, hostAlive, nextId, mySlot>>

\* Mutant: UnlockForProcess forgets the slot without releasing it.
UnlockForgets(a) ==
  /\ pc[a] = "idle" /\ inLock[a]
  /\ inLock' = [inLock EXCEPT ![a] = FALSE]
  /\ mySlot' = [mySlot EXCEPT ![a] = NoSlot]
  /\ UNCHANGED <<shared, env, pc, mapped, locals>>

\* UnlockForProcess keeps the slot: the stream is paused.
UnlockForProcess(a) ==
  /\ "pauses" \in Hazards
  /\ pc[a] = "idle" /\ inLock[a]
  /\ inLock' = [inLock EXCEPT ![a] = FALSE]
  /\ UNCHANGED <<shared, env, pc, mapped, mySlot, locals>>

\* Mutant: releaseSlot stores 0 instead of exchanging it for the own id.
DestroyBlind(a) ==
  /\ pc[a] = "idle"
  /\ pc' = [pc EXCEPT ![a] = "gone"]
  /\ inLock' = [inLock EXCEPT ![a] = FALSE]
  /\ mapped' = [mapped EXCEPT ![a] = FALSE]
  /\ mySlot' = [mySlot EXCEPT ![a] = NoSlot]
  /\ owner' = [i \in Slots |-> IF i = mySlot[a] THEN NoId ELSE owner[i]]
  /\ UNCHANGED <<lastTime, master, masterTime, hostIsRunning, env, locals>>

\* releaseSlot gives the slot back by a compare-exchange from the own id, which
\* is skipped when the view is gone.
ReleaseSlot(a) ==
  owner' = [i \in Slots |-> IF i = mySlot[a] /\ mapped[a] /\ owner[i] = a
                              THEN NoId ELSE owner[i]]

\* The destructor releases the slot and closes the view.
Destroy(a) ==
  /\ pc[a] = "idle"
  /\ pc' = [pc EXCEPT ![a] = "gone"]
  /\ inLock' = [inLock EXCEPT ![a] = FALSE]
  /\ mapped' = [mapped EXCEPT ![a] = FALSE]
  /\ mySlot' = [mySlot EXCEPT ![a] = NoSlot]
  /\ IF hostAlive \/ leaked \/ \E b \in Apos \ {a} : mapped[b]
       THEN /\ ReleaseSlot(a)
            /\ UNCHANGED <<lastTime, master, masterTime, hostIsRunning>>
       ELSE DropSection
  /\ UNCHANGED <<env, locals>>

-----------------------------------------------------------------------------
(* APOProcess *)

\* The prologue: a missing view is mapped again on one call in a hundred; no
\* view or no bridge means passthrough; then claim, or verify the slot.
Enter(a) ==
  /\ pc[a] = "idle" /\ inLock[a]
  /\ \E m \in IF mapped[a] THEN {TRUE} ELSE {FALSE} \cup MapOutcomes(a) :
       /\ mapped' = [mapped EXCEPT ![a] = m]
       /\ \/ /\ ~ m \/ ~ hostIsRunning
             /\ UNCHANGED <<pc, locals>>
          \/ /\ m /\ hostIsRunning /\ mySlot[a] = NoSlot
             /\ BeginClaim(a)
          \/ /\ m /\ hostIsRunning /\ mySlot[a] # NoSlot
             /\ pc' = [pc EXCEPT ![a] = "verify"]
             /\ UNCHANGED locals
  /\ UNCHANGED <<shared, env, inLock, mySlot>>

\* Mutant: once claimed, a slot is used without looking whose it is now.
VerifyBlind(a) ==
  /\ pc[a] = "verify"
  /\ pc' = [pc EXCEPT ![a] = "write"]
  /\ UNCHANGED <<shared, env, inLock, mapped, mySlot, locals>>

\* "Verify we still own our slot": a lost slot is forgotten, this call passes
\* the audio through and the next one claims again.
Verify(a) ==
  /\ pc[a] = "verify"
  /\ IF owner[mySlot[a]] = a
       THEN /\ pc' = [pc EXCEPT ![a] = "write"]
            /\ UNCHANGED <<mySlot, locals>>
       ELSE /\ mySlot' = [mySlot EXCEPT ![a] = NoSlot]
            /\ Return(a)
  /\ UNCHANGED <<shared, env, inLock, mapped>>

\* The loop of tryClaimSlot moves on, or fails after the last slot: the caller
\* ignores it (LockForProcess) or passes the audio through (APOProcess).
NextSlot(a) ==
  IF scan[a] + 1 \in Slots
    THEN /\ pc' = [pc EXCEPT ![a] = "scan"]
         /\ scan' = [scan EXCEPT ![a] = scan[a] + 1]
         /\ seen' = [seen EXCEPT ![a] = NoId]
         /\ UNCHANGED <<now, heard, inLock>>
    ELSE /\ Return(a)
         /\ inLock' = [inLock EXCEPT ![a] = TRUE]

\* Mutant: a slot is taken whatever its heartbeat says.
ScanGreedy(a) ==
  /\ pc[a] = "scan"
  /\ seen' = [seen EXCEPT ![a] = owner[scan[a]]]
  /\ pc' = [pc EXCEPT ![a] = "cas"]
  /\ UNCHANGED <<shared, env, mapped, mySlot, scan, now, heard, inLock>>

\* tryClaimSlot loads owner and lastProcessTime of slot i.  (Loading them in
\* one step loses nothing: the compare-exchange rechecks the owner.)
Scan(a) ==
  /\ pc[a] = "scan"
  /\ IF owner[scan[a]] = NoId \/ Age(now[a], lastTime[scan[a]]) > Stale
       THEN /\ seen' = [seen EXCEPT ![a] = owner[scan[a]]]
            /\ pc' = [pc EXCEPT ![a] = "cas"]
            /\ UNCHANGED <<scan, now, heard, inLock>>
       ELSE NextSlot(a)
  /\ UNCHANGED <<shared, env, mapped, mySlot>>

\* compare_exchange_strong(owner, m_instanceId): it validates the owner only,
\* not the heartbeat the decision was taken on.
Cas(a) ==
  /\ pc[a] = "cas"
  /\ IF owner[scan[a]] = seen[a]
       THEN /\ owner' = [owner EXCEPT ![scan[a]] = a]
            /\ mySlot' = [mySlot EXCEPT ![a] = scan[a]]
            /\ pc' = [pc EXCEPT ![a] = "stamp"]
            /\ UNCHANGED <<locals, inLock>>
       ELSE /\ NextSlot(a)
            /\ UNCHANGED <<owner, mySlot>>
  /\ UNCHANGED <<lastTime, master, masterTime, hostIsRunning, env, mapped>>

\* Mutant: the claim does not stamp the slot.
StampMissing(a) ==
  /\ pc[a] = "stamp"
  /\ Return(a)
  /\ inLock' = [inLock EXCEPT ![a] = TRUE]
  /\ UNCHANGED <<shared, env, mapped, mySlot>>

\* The claim is completed: the heartbeat is set to the "now" read when
\* tryClaimSlot began, the rings are flushed and rewound (SlotMix, IpcSession).
Stamp(a) ==
  /\ pc[a] = "stamp"
  /\ lastTime' = [lastTime EXCEPT ![scan[a]] = now[a]]
  /\ IF inLock[a]
       THEN /\ pc' = [pc EXCEPT ![a] = "write"]
            /\ scan' = [scan EXCEPT ![a] = 0]
            /\ now' = [now EXCEPT ![a] = 0]
            /\ seen' = [seen EXCEPT ![a] = NoId]
            /\ UNCHANGED <<heard, inLock>>
       ELSE /\ Return(a)
            /\ inLock' = [inLock EXCEPT ![a] = TRUE]
  /\ UNCHANGED <<owner, master, masterTime, hostIsRunning, env, mapped, mySlot>>

\* The input goes to the slot's toHost ring, the event is set, and
\* currentMaster is loaded.
Write(a) ==
  /\ pc[a] = "write"
  /\ seen' = [seen EXCEPT ![a] = master]
  /\ pc' = [pc EXCEPT ![a] = "hear"]
  /\ UNCHANGED <<shared, env, inLock, mapped, mySlot, scan, now, heard>>

\* masterLastTime is loaded; the clock is read later, and the master may
\* store a newer time and the clock may tick before it is.
Hear(a) ==
  /\ pc[a] = "hear"
  /\ heard' = [heard EXCEPT ![a] = masterTime]
  /\ pc' = [pc EXCEPT ![a] = "decide"]
  /\ UNCHANGED <<shared, env, inLock, mapped, mySlot, scan, now, seen>>

\* now is read, and the instance goes on to crown itself or to be a slave (its
\* place says which: what it has read is forgotten as soon as it is used).
Judge(a, elect) ==
  /\ pc[a] = "decide"
  /\ pc' = [pc EXCEPT ![a] = IF elect THEN "crown" ELSE "mute"]
  /\ now' = [now EXCEPT ![a] = IF elect THEN clock ELSE 0]
  /\ seen' = [seen EXCEPT ![a] = NoId]
  /\ heard' = [heard EXCEPT ![a] = 0]
  /\ UNCHANGED <<shared, env, inLock, mapped, mySlot, scan>>

\* Mutants: everybody elects itself; a dead master is kept.
DecideSelfish(a) == Judge(a, TRUE)
DecideLoyal(a)   == Judge(a, seen[a] \in {NoId, a})

\* No master, own mastership or a stale master make this instance the master,
\* anything else a slave.
Decide(a) == Judge(a, seen[a] \in {NoId, a} \/ Age(clock, heard[a]) > Stale)

\* masterInstanceId.store(m_instanceId)
Crown(a) ==
  /\ pc[a] = "crown"
  /\ master' = a
  /\ pc' = [pc EXCEPT ![a] = "crownTime"]
  /\ UNCHANGED <<owner, lastTime, masterTime, hostIsRunning, env, inLock, mapped,
                 mySlot, locals>>

\* masterLastProcessTime.store(now)
CrownTime(a) ==
  /\ pc[a] = "crownTime"
  /\ masterTime' = now[a]
  /\ now' = [now EXCEPT ![a] = 0]
  /\ pc' = [pc EXCEPT ![a] = "read"]
  /\ UNCHANGED <<owner, lastTime, master, hostIsRunning, env, inLock, mapped,
                 mySlot, scan, seen, heard>>

\* The master ("read") plays the mixed audio from fromHost, a slave ("mute")
\* plays silence; both then read the clock ...
Play(a) ==
  /\ pc[a] \in {"read", "mute"}
  /\ pc' = [pc EXCEPT ![a] = "beat"]
  /\ now' = [now EXCEPT ![a] = clock]
  /\ UNCHANGED <<shared, env, inLock, mapped, mySlot, scan, seen, heard>>

\* ... store it as the slot's heartbeat and return.
Beat(a) ==
  /\ pc[a] = "beat"
  /\ lastTime' = [lastTime EXCEPT ![mySlot[a]] = now[a]]
  /\ Return(a)
  /\ UNCHANGED <<owner, master, masterTime, hostIsRunning, env, inLock, mapped,
                 mySlot>>

-----------------------------------------------------------------------------
(* The bridge process, the engine process and time *)

\* IpcAudioClient::initialize: the section exists (and may keep what an
\* earlier bridge left in it), the flag is raised last.
HostStart ==
  /\ ~ hostAlive
  /\ hostAlive' = TRUE /\ hostIsRunning' = TRUE
  /\ UNCHANGED <<owner, lastTime, master, masterTime, clock, nextId, leaked,
                 pc, inLock, mapped, mySlot, locals>>

\* The bridge ends: shutdown lowers the flag, a crash or a kill does not.
HostEnd(flag) ==
  /\ "hostChurn" \in Hazards
  /\ hostAlive
  /\ hostAlive' = FALSE
  /\ IF leaked \/ \E a \in Apos : mapped[a]
       THEN /\ hostIsRunning' = flag
            /\ UNCHANGED <<owner, lastTime, master, masterTime>>
       ELSE DropSection
  /\ UNCHANGED <<clock, nextId, leaked, pc, inLock, mapped, mySlot, locals>>

HostStop  == HostEnd(FALSE)
HostCrash == HostEnd(hostIsRunning)

\* audiodg.exe dies: no destructor runs, and the next audiodg counts its
\* instances from 1 again.
EngineCrash ==
  /\ "engineCrash" \in Hazards
  /\ \E a \in Apos : pc[a] # "absent"
  /\ pc' = [a \in Apos |-> "absent"]
  /\ inLock' = [a \in Apos |-> FALSE]
  /\ mapped' = [a \in Apos |-> FALSE]
  /\ mySlot' = [a \in Apos |-> NoSlot]
  /\ scan' = [a \in Apos |-> 0]
  /\ now' = [a \in Apos |-> 0]
  /\ seen' = [a \in Apos |-> NoId]
  /\ heard' = [a \in Apos |-> 0]
  /\ nextId' = 1
  /\ leaked' = FALSE
  /\ IF hostAlive THEN UNCHANGED shared ELSE DropSection
  /\ UNCHANGED <<clock, hostAlive>>

\* Every holder that can heartbeat (and the master) has been called again
\* before its heartbeat reaches the limit: a 10 ms period against 100 ms.
\* Nobody heartbeats while the bridge is down or the view is missing.
Prompt ==
  hostIsRunning => \A a \in Apos : mySlot[a] # NoSlot /\ mapped[a] =>
    /\ Age(clock, lastTime[mySlot[a]]) < Stale
    /\ master = a => Age(clock, masterTime) < Stale

Tick ==
  /\ "pauses" \in Hazards \/ Prompt
  /\ "ticksInClaim" \in Hazards \/ \A a \in Apos : ~ Claiming(a)
  /\ clock' = IF clock + 1 = TickMod THEN 0 ELSE clock + 1
  /\ UNCHANGED <<shared, hostAlive, nextId, leaked, pc, inLock, mapped, mySlot,
                 locals>>

-----------------------------------------------------------------------------

\* One step of the thread that is inside instance a.
Thread(a) ==
  \/ Enter(a) \/ Verify(a)
  \/ Scan(a) \/ Cas(a) \/ Stamp(a)
  \/ Write(a) \/ Hear(a) \/ Decide(a) \/ Crown(a) \/ CrownTime(a) \/ Play(a) \/ Beat(a)

Next ==
  \/ \E a \in Apos : \/ Create(a) \/ LockForProcess(a) \/ UnlockForProcess(a)
                     \/ Thread(a) \/ Destroy(a)
  \/ HostStart \/ HostStop \/ HostCrash \/ EngineCrash
  \/ Tick

Spec == Init /\ [][Next]_vars

\* The audio engine keeps calling a locked instance and its thread is not
\* starved; time passes whenever the schedule's promises let it.
FairSpec ==
  /\ Spec
  /\ \A a \in Apos : WF_vars(Thread(a))
  /\ SF_vars(Tick)

-----------------------------------------------------------------------------
(* Properties *)

Pcs == {"absent", "idle", "verify", "scan", "cas", "stamp", "write", "hear",
        "decide", "crown", "crownTime", "read", "mute", "beat", "gone"}

\* Every variable keeps to its type.
TypeOK ==
  /\ owner \in [Slots -> Apos \cup {NoId}]
  /\ lastTime \in [Slots -> Times]
  /\ master \in Apos \cup {NoId}
  /\ masterTime \in Times
  /\ hostIsRunning \in BOOLEAN
  /\ clock \in Times
  /\ hostAlive \in BOOLEAN
  /\ nextId \in Apos \cup {NumApos + 1}
  /\ leaked \in BOOLEAN
  /\ pc \in [Apos -> Pcs]
  /\ inLock \in [Apos -> BOOLEAN]
  /\ mapped \in [Apos -> BOOLEAN]
  /\ mySlot \in [Apos -> Slots \cup {NoSlot}]
  /\ scan \in [Apos -> Slots]
  /\ now \in [Apos -> Times]
  /\ seen \in [Apos -> Apos \cup {NoId}]
  /\ heard \in [Apos -> Times]

\* No two slots are registered to one instance: stealing, losing, releasing
\* and claiming again never leave an id behind (tryClaimSlot, releaseSlot).
OneSlotPerId ==
  \A i, j \in Slots : owner[i] = owner[j] /\ owner[i] # NoId => i = j

\* A slot registered to a living instance is known to it, so that it is fed,
\* heartbeaten and released: no living instance blocks a slot it forgot.
SlotKnownToOwner ==
  \A i \in Slots, a \in Apos : owner[i] = a /\ Living(a) => mySlot[a] = i

\* Past the check of APOProcess ("Verify we still own our slot") no two
\* instances write one slot's toHost ring or read one slot's fromHost ring.
SlotExclusive ==
  \A a, b \in Apos : Using(a) /\ Using(b) /\ mySlot[a] = mySlot[b] => a = b

\* A slot becomes free only by the end of the instance that owns it: an
\* instance that lost its slot does not free the new owner's when destroyed.
FreedByOwnerOnly ==
  [][\A i \in Slots : owner[i] # NoId /\ owner'[i] = NoId
       => pc'[owner[i]] \in {"absent", "gone"}]_vars

\* The instance works on its slot: it completes its claim or uses the rings.
Inside(a) == pc[a] = "stamp" \/ Using(a)

\* Whatever happens to clock, claims, bridge and audiodg, an instance comes to
\* work on a slot ("Verify we still own our slot", tryClaimSlot) as its owner,
\* and while inside loses it only to the compare-exchange of another instance
\* that had found it there: no release, restart or discarded block takes a
\* slot from under an instance, and nothing lets it in again after a theft.
UseIsOwned ==
  [][\A a \in Apos : Inside(a)' =>
       \/ owner'[mySlot'[a]] = a
       \/ Inside(a) /\ owner[mySlot[a]] # a
       \/ Inside(a) /\ \E b \in Apos \ {a} :
            pc[b] = "cas" /\ seen[b] = a /\ owner'[mySlot[a]] = b]_vars

\* An instance that works on its slot and owns it is robbed of it.
Robbed(a) ==
  /\ Inside(a) /\ owner[mySlot[a]] = a
  /\ Inside(a)' /\ owner'[mySlot'[a]] # a

NobodyRobbed == [][\A a \in Apos : ~ Robbed(a)]_vars

\* The slots' tenants as the instances see them.
Tenant == [i \in Slots |-> IF owner[i] # NoId /\ mySlot[owner[i]] = i
                             THEN owner[i] ELSE NoId]

Lease == INSTANCE SlotLease WITH Tenants <- Apos, None <- NoId, tenant <- Tenant

\* While no instance is robbed, slots are rented out as SlotLease promises.
LeaseSpec == Lease!LeaseSpec

\* With robberies, they are rented out as by a lease that may evict.
HarshLeaseSpec == Lease!HarshLeaseSpec

-----------------------------------------------------------------------------
(* Inductive invariants *)

\* The ids in the block and the slots the instances remember agree, whatever
\* the schedule does to the clock, the bridge and the claims.
IdInv ==
  /\ TypeOK
  /\ OneSlotPerId
  /\ \A i \in Slots, a \in Apos : owner[i] = a /\ pc[a] # "gone" => mySlot[a] = i

\* What an instance holds depends on where its thread is.
PlaceInv ==
  \A a \in Apos :
    /\ pc[a] \in {"absent", "scan", "cas", "gone"} => mySlot[a] = NoSlot
    /\ pc[a] \in {"verify", "stamp"} \/ Using(a) => mySlot[a] # NoSlot
    /\ pc[a] = "stamp" => mySlot[a] = scan[a]
    /\ pc[a] \in {"scan", "cas"} => mapped[a]
    /\ mySlot[a] # NoSlot => mapped[a] \/ leaked

-----------------------------------------------------------------------------
(* Liveness *)

\* From some time on audiodg.exe is not restarted.
EngineLasts == <>[][nextId' >= nextId]_vars

\* From some time on the clock does not tick between an instance's load of
\* masterLastProcessTime and its GetTickCount (RimeApo.cpp:412-413).
TicksMissReads ==
  <>[][clock' # clock => \A a \in Apos : pc[a] # "decide"]_vars

\* Two instances may both elect themselves in one round, but only ticks that
\* fall between the two reads of an election again and again (the time loaded
\* then looks stale though the master has stored a newer one) keep them at it:
\* otherwise in the end at most one instance at a time plays the bridge's mix.
EventuallyOneMaster ==
  EngineLasts /\ TicksMissReads
    => <>[](\A a, b \in Apos : pc[a] = "read" /\ pc[b] = "read" => a = b)

\* Mastership outlives the master: as long as somebody holds a slot, sooner or
\* later some instance is the master and plays the mix (not all stay silent).
SoundGoesOn ==
  EngineLasts =>
    \A a \in Apos : mySlot[a] # NoSlot ~>
      \/ \E b \in Apos : pc[b] = "read"
      \/ \A b \in Apos : mySlot[b] = NoSlot

\* RimeApo.cpp: "If host is not connected [...]: Passthrough!"  When the bridge
\* is gone for good and no stream ends, no instance goes on replacing its audio
\* by silence.
NotMutedWithoutHost ==
  <>[](~ hostAlive /\ \A a \in Apos : pc[a] # "gone")
    => <>[](\A a \in Apos : pc[a] # "mute")

=============================================================================
