# RIME Standalone: TLA+ models, checks and proofs

RIME Standalone sends the sound of Windows through the Neumann RIME VST3 plugin. An audio processing
object (APO) inside `audiodg.exe` hands each stream's audio to a bridge process over shared memory;
the bridge mixes it with a virtual cable, runs the plugin and hands the result back. Almost every
step of that is done by one of several unsynchronised threads in two or more processes, each of which
can be late, pause, crash or restart. This directory models that part of the program in TLA+, checks
it with TLC and proves its main safety properties with TLAPS.

Contents: [Inventory](#inventory), [Modules](#modules), [Runs](#runs), [Fairness](#fairness),
[Proofs](#proofs), [Disagreements found](#disagreements-found), [Observations](#observations),
[Not modelled](#not-modelled), [Plan](#plan), [How to run](#how-to-run).
All source paths are relative to the repository; its sources are in `src/`.

## Inventory

| Component | State | Operations | Talks to | What is hard | What makes it correct |
|---|---|---|---|---|---|
| APO instance (`src/apo/RimeApo.*`), one per stream, in `audiodg.exe` | view, slot, id | create, `LockForProcess`, `APOProcess` (10 ms, real time), `UnlockForProcess`, destroy | the other instances and the bridge, only through the IPC block | claims race without a lock; heartbeat and clock; takeover of dead slots; the election; crashes of both processes | a slot has one user; it is taken only when dead; somebody plays the mix; silence is not played for a dead bridge |
| IPC block (`src/audio/IpcSharedMemory.h`) | 4 slots with two rings each, `hostIsRunning`, master id and time | atomic loads, stores, compare-exchanges | both processes | outlives either process; whoever creates it, only the bridge sizes it | every reader copes with what the last process left |
| Bridge side of the block (`src/audio/IpcAudioClient.*`) | view, flush counters | `initialize`, `readFromApo`, `writeToApo`, `shutdown` | the slots' tenants; the processing thread | slots change hands between two lines of one call; a slow stream must not hold up the rest; instances are there before the block is sized | whole blocks are mixed; nothing of an earlier tenant or session is heard; rings are race-free and never used unsized |
| Processing loop (`src/audio/AudioEngine.*`) | `running`, thread | start, drain, shutdown | APOs, cable ring, plugin | latency built up by one late round; end while inside the block | order kept, latency settles, joined before the unmap |
| Virtual cable ring (`src/audio/RingBuffer.*`) | two atomic positions, samples | `write`, `read`, `skip` | capture thread, processing thread | unlocked copies; full against empty; a stale availability | first-in first-out, race-free, bounded lag |
| Streams (`src/audio/WASAPICapture.*`, `WASAPIKeepAlive.*`) | `isRunning`, thread | initialize, start, stop | device, cable ring | a join on a waiting thread | stop returns |
| Bridge process (`src/main.cpp`) | `g_engine`, message queue | start, message loop, autosave, console handler | everything above | two threads can end the engine; failed starts; five joins on the way out | flag lowered, state saved, process ends |
| VST host (`src/vst/*`) | component, controller, pending edits, window | load, process, save, load state, edits | plugin, files | kill during a save; edits race with the audio thread and with saves; restored settings reach the processor only through `process` | no edit is lost; the restored settings are heard; the last save has them |
| OSC proxy (`src/audio/OscProxy.*`) | drift offset, last yaw, time, multiplier, `m_solarXrActive` | `/ypr`, `/rime/...`, correction | SolarXR client, plugin (UDP) | two threads load and store plain floats; the circle; switch of source | the view drifts gently where nobody interferes, settles, and has one source |
| SolarXR client (`src/audio/SolarXrClient.*`) | WinHTTP handles | connect, receive, retry | SlimeVR server, OSC proxy | server comes and goes | tracking resumes |
| COM server (`src/apo/DllMain.cpp`) | lock count | class factory | `audiodg.exe` | unload while instances live; a loaded DLL cannot be replaced | an endpoint's effect can be loaded |
| Setup (`src/setup/Setup.cpp`) | files, registry, audio service | install, uninstall, restart of the service | Windows, `audiodg.exe`, the bridge | no result is looked at; audio goes on meanwhile; setup is killed half-way, also inside a copy | a failed step costs its own part only; no order of steps leaves an endpoint with an effect that cannot be loaded; uninstall removes what install did; Windows has sound |
| Configuration (`src/config/*`) | values | load once | bridge | | |
| `WASAPIOutput.*` | | | nothing creates it | | |

`PROJECT.json` lists the same components with what is modelled of each, the hazards at their lines
with the properties that watch them, and for every definition the lines it stands for.

How they interact: every 10 ms Windows calls `APOProcess` of each stream. It claims or verifies a slot,
writes its block into `toHost`, signals the event, and then, if it is the master, plays a block of its
`fromHost`; a slave plays silence. The bridge's processing thread waits for the event, waits until
all active slots have a block, mixes them with the cable's block, and writes the result to the
master's `fromHost`. No lock is shared between any two of these; `hostIsRunning`, slot owners,
heartbeats and ring positions are all there is.

## Modules

| Module | Models | Composes with |
|---|---|---|
| `ApoSlots` | claim, heartbeat, takeover, release, election; bridge and engine crashes | implements `SlotLease`: the strict lease while nobody is robbed, the harsh one always |
| `SlotLease` | abstract: a slot is rented by one tenant at a time and passes on only through vacancy; `HarshLeaseSpec` adds `Evict`, the one thing a theft does | |
| `SlotMix` | `toHost` rings, gate, flush and mix of `readFromApo`, tenants that come and go | relies on `SlotLease`'s promise and on the queue that `VirtualCable` shows such a ring to be |
| `IpcSession` | lives of the block, the bridge and a stream: creation, clearing, sizing, prefill, crashes and restarts; the audio's way through the bridge and back, by age | relies on `SlotMix` for whole blocks and on `ApoSlots` for the election among several |
| `VirtualCable` | `RingBuffer` frame by frame, capture thread, latency sync of the drain loop | implements `FrameQueue` |
| `FrameQueue` | abstract: a bounded queue that may drop its oldest frames | |
| `BridgeLife` | start, failed start, message loop, saves, both ways to shut down, main's way out, the engine's and the head tracking's threads | raises and lowers the flag that `ApoSlots` reads |
| `PluginSession` | `BridgeLife` with the plugin's settings: restored, edited, queued, processed, saved | extends `BridgeLife` and implements it (`PluginRefinesLife`) |
| `HeadTracking` | drift correction on two threads, load by load and store by store; SolarXR connection | its threads' end is in `BridgeLife` |
| `Setup` | install and uninstall step by step, each of which may fail; the audio service, the loaded DLL, bridges, kills and reboots | starts and kills the process that `BridgeLife` is about |
| `*_proofs` | theorems about the module before the underscore | |

The configurations name these modules directly: constants are numbers and sets of strings, so no module
for model checking only is needed. `Mutant:` comments mark definitions that are no part of a
specification: each is a definition changed the way a plausible bug would change it, and shows which
property notices that bug.

### ApoSlots

State: the block's owners, heartbeats, master and its time, the flag; per instance the place in the
handler, `inLock`, view, slot and locals. Each load, store or compare-exchange that another instance
can tell apart is a step, and so is each reading of the clock that another step's effect depends on: `Write` ends with
the load of the master, `Hear` loads its time, `Decide` reads the clock and judges, `Crown` and `CrownTime`
are the two stores, `Play` reads the clock for the heartbeat that `Beat` stores. Two places merge steps.
`Scan` loads owner and heartbeat of a slot at once, since the compare-exchange rechecks the owner. `Stamp`
stores the heartbeat together with the flush request and the rewind, which `SlotMix` separates. The clock is
modulo `TickMod` and subtraction is unsigned, as in the code. `leaked` remembers that `LockForProcess` overwrote a
view without closing it; the section lives while any process holds a handle or view, and `DropSection` is its end.

What the code leaves to luck is a switch in the constant `Hazards`: overlapping claims, ticks during a
claim, pauses, bridge restarts, failed mappings, crashes of `audiodg.exe`. `slots_timely` has only the last one on
and checks what the code is meant to achieve; `slots_hostile` has the others on. `Prompt`, the guard of `Tick`
without `"pauses"`, says that a holder is called again (10 ms) before its heartbeat is 100 ms old. The
theorems do not depend on these switches, but for the crash of `audiodg.exe`: what the code promises whatever happens
is `UseIsOwned` (an instance loses a slot it is at work on only to another's compare-exchange), and `Robbed` names that one event.
Without it slots are used exclusively and rented out as `LeaseSpec` says, with it as `HarshLeaseSpec` does.

### SlotMix

It counts the frames in each `toHost` ring; frame positions are `VirtualCable`'s subject. The
clock is reduced to two questions: `hot[i]`, "the heartbeat is at most 100 ms old", and `recent`, the
slots the gate has still to come to whose stamp is at most 100 ms before the `now` that the gate read
(`Look`). A stamp during the gate is recent, or, if the clock has advanced, later than `now`, and the
unsigned difference then makes it look very old (`Stamp` leaves both open; that in one gate no stamp can be in
an earlier tick than another that came before it is not modelled, which allows more behaviours, not fewer).
Load and store of the flush counter are one step, as only the bridge's thread writes its copy. A robbed
tenant is not inside `APOProcess`: that is `SlotExclusive` of `ApoSlots`, under its schedule. `dirty`,
`began` and, past the gate, `active` are history.

### IpcSession

One stream's instance at a time and one bridge, each through several lives, in any order. The block is
there while anybody holds it (`Found`; `leaked` is the view that `LockForProcess` overwrites) and is
zero when it is created. A start of the bridge is the steps of `IpcAudioClient::initialize`: open or
create, clear if created, look at the first capacity, size the rings one after the other, raise the
flag, prefill, load the plugin and start the loop. An instance can be created, claim and call between
any two of them, and the bridge can die between any two. `APOProcess` is split wherever the bridge can
come in between: the look at the flag, the claim or the check of the slot, the look at the capacities,
the write, the election, the read and the playing.

Audio is modelled by its age: a unit in a ring is the number of units recorded since. A period of 480
frames is `P` = 2 units, the 48 frames of `prefillSilence` are one unit, so that they make the later blocks
straddle the calls, as in the code. `tail` keeps what lies before `fromHost`'s write position, because a claim moves
the read position back over it. Capacities are "none", "partly" (the first ring is sized) and
"set". Two clocks are abstracted: a heartbeat's age is not modelled with one slot, and a former master's time is
`gone` until it is `stale`. `since` and `heard` (the age of the latest audio played, `Lowest` of the block) are history.

### VirtualCable

Samples are frame numbers, so "right content, right order" can be stated; positions wrap; each copied
frame is a step. `head`, `tail`, `out`, `polled` are history. The counts of a block (`need`) vary
between 1 and `MaxBlock`, as `readFromApo` may return less than a full block.

### BridgeLife

`pc` holds the main thread and the console handler's; both run the shared steps of
`SaveStateIfPossible` and `AudioEngine::shutdown`. The processing thread is inside the block in
`reading` and `writing`, which it enters after its check of the view. Null check, lowering of the flag and
unmapping in `IpcAudioClient::shutdown` are one step; a crash just before or after it is allowed. A state file is
`old`, `cut` or `new`; the plugin and the disk are assumed to deliver when asked, so that the branches of `saveState` for a
failing `getState` or a file that cannot be opened are left out.

The two threads of the head tracking are started by `Track` and told to end and joined by `Leave`, when the
destructors at main's end run (`LeavePcs`); by then the engine is down and its own destructor finds nothing to do. A tracker may be
`caught` for ever in one of the loops that wrap an angle. The model decides so once the thread is told to end, since before that
it makes no difference here. `Hung` is main waiting for such a thread. The log pipe's thread is left out. `Show` has the window of a kind the plugin does
not support, which is destroyed again and so posts WM_QUIT. `Hazards` can switch on a
console event during start, and both ways of ending at once.

### PluginSession

Every action of `BridgeLife` is here with its effect on the plugin's settings. A parameter's value is
the number of the edit that set it, so that "later" can be said of values. An edit goes from the
controller (`shown`) into the queue (`pending`), with the next block into the batch of `process`
(`batch`), and from there into the component (`comp`); `saveState` takes what the component has (`shot`) and
writes it (`content`). `loadState` sets the component and the controller, each of which takes the file or refuses it
(`accepts`), and pushes every parameter into the queue if the controller took it;
`hydrated` are the parameters that `process` has been told since. A file that only the component takes leaves the window
showing defaults; `NoEditLost` allows that difference, for parameters not edited since, and no other. Edits happen in
main's message loop, as `performEdit` is called by the window's code there.

### HeadTracking

Angles are integers on a circle of `2 * Half`; a time step is usable (always the same length) or not.
Every load and every store of `m_driftOffset` in `applyDriftCorrection` is a step, with the other thread free to come in
between: the load for the target (`Aim`), the one for the distance (`Measure`), load and store of `+=`, `-=` and `=`
(`Add`, `Put`), and each test and turn of the two loops that wrap the stored offset (`Test`, with `loop` for the loop that
the thread is in). `val` is what the thread has computed and not stored yet. Time and last yaw are stored apart. The members
that one look reads together (`m_lastTimeMs`, `m_lastRawYaw`) are one load, as they are only compared. The code's two
wrapping conventions are kept apart (`WrapBoth` keeps -180, `Wrap` does not).

`lone` and `from` are history: the offset a thread found in `Aim`, and whether the other one has stored offset or
multiplier since. `DriftIsGentle` speaks of corrections that were left alone, from whatever offset earlier races have
left, and `Settles` of what becomes of the rest. The offset is an unbounded integer: with both threads past the test of a
loop it is turned twice. `CorrectionsEnd`, the premise of the two liveness properties, says that this does not go on for
ever. Packets that are only passed on are left out, the tuning commands `/rime/drift_speed` and
`/rime/drift_threshold` too.

### Setup

Each call of `DoInstall` and `DoUninstall` that changes the machine is a step. No result is looked at, so the next step
follows also when one has failed. A step fails because a file is in use, which the model knows (`"dllInUse"`,
`"exeInUse"`), or for reasons of its own, which it may choose at each step (`Fails`): a copy then leaves its target as it
was, gone, or `Cut`; registry calls are done in part; the service cannot be opened, refuses to stop, or takes longer than
the 5 s (`AwaitStop`). `failed` is the history of this in the procedure under way. A kill or a restart of the machine
(`CutShort`) may come inside a copy, which leaves a cut file as well. `lost` outlives the procedure: what an endpoint may lack since a
step failed or was cut short, until it is done again.

Around the steps the audio service stops when told to, `audiodg.exe` loads and frees the DLL as streams begin and end, users start bridges, setup
is killed anywhere and started again from the same or another release, and the machine is restarted. `Point`
says which step follows, also while the service is restarted before it. `Hazards` has what an
ordinary machine does not do: a bridge started while setup is at work, and a library
freed while a stream uses it.

## Runs

| Run | Module | Question | Bounds | Result |
|---|---|---|---|---|
| `slots_timely` | ApoSlots | exclusive use, refinement of `SlotLease`, one master in the end, a dead master replaced, where claims are alone and see no tick and holders heartbeat in time, with any number of engine crashes | 2 instances, 2 slots, clock mod 4, limit 1 | holds, 390 154 states |
| `slots_hostile` | ApoSlots | agreement of ids and memories, and who may take a slot from whom, when anything but an engine crash may happen | 2 instances, 2 slots, clock mod 3, limit 1 | holds, 2 472 936 states |
| `slots_orphaned_mute` | ApoSlots | passthrough when the bridge is gone | 2 instances, 2 slots, clock mod 3 | violated |
| `mix` | SlotMix | race-free rings, forgotten audio, whole blocks of all, no waiting for ever | 2 slots, ring of 3, block 2, period 1, 3 claims | holds, 562 041 states |
| `session` | IpcSession | sized rings only, nothing from before the bridge, order, latency, gaps | rings of 3 blocks, cut above 2, 3 late calls, 2 lives of bridge and instance | holds, 1 152 709 states |
| `cable` | VirtualCable | race-free copies, queue, lag, no over-cutting | ring of 8, packets to 3, blocks to 2, 12 frames | holds, 51 551 states |
| `life` | PluginSession | no use after unmap, flag, served, edits kept and heard, ends | 1 autosave, 1 parameter, 2 edits | holds, 506 160 states |
| `life_ctrl_c` | BridgeLife | Ctrl+C ends the bridge | 1 autosave | violated |
| `life_torn_state` | BridgeLife | a kill keeps what was saved | 1 autosave | violated |
| `head` | HeadTracking | gentle, settling drift; one source in the end | circle of 16, snap 4, poses 0, 6 and 8, 3 whims | holds, 292 319 states |
| `head_osc_muted` | HeadTracking | OSC is heard again without a connection | circle of 16, 1 whim | violated |
| `setup` | Setup | loadable endpoints, install and uninstall but for what failed, sound afterwards | 2 endpoints, 2 releases, 2 runs of setup, 2 failures in a procedure, `"freeLive"` on | holds, 3 928 668 states |

Why the bounds are enough to be interesting: two instances and two slots contain a claimant, a victim,
a free slot and a slot to lose; a clock of `Stale + 2` or more values contains fresh, limit, dead and
wrapped stamps, and wraps many times in a run. Two slots in `mix` are one that is ahead and one that
holds it up; a ring of a block and a period is full after three writes, drops the next, and with a limit of two
frames the bridge then skips; three claims give a slot to three tenants in turn. In `session` three late
calls fill both rings of three blocks, so that drops and skips occur on either; two lives of each side contain the
block that outlives its bridge, its instance, or neither, and ages are counted to 12 units, past anything that
a ring of 6 units and 3 late calls can hold back. A ring of 8 with 12 frames wraps, fills up, and the sync (more than
3 blocks of 2) triggers. One autosave, the final save and the handler's make three saves that may meet; two edits of one parameter
are enough for one to overtake another, and to be made while another is under way, and parameters do not touch each other. A circle
of 16 with a snap of 4 and a forward zone of 4 has targets in front, at the back and across the wrap; three whims are a pose, a
reset that falls into a correction, and one change more.
Each run of setup may install and uninstall several times, the second follows on a kill; two failures let one step fail and
the step that would make up for it as well. A file in use counts towards them.
The proofs remove these bounds for the safety properties listed below.

What each property says is in the comment above it. The ones a reader should look at first:
`UseIsOwned`, `SlotExclusive`, `LeaseSpec` (who may use a slot), `EventuallyOneMaster`, `SoundGoesOn` (the
election), `AllWaitedFor`, `OldAudioForgotten` (the mixer), `ReadyWhileUsed`, `NoOldSession` (lives of the block),
`PlayedInOrder`, `LatencySettles`, `GapsEnd` (lateness and restarts leave no trace), `FifoSpec` (the cable), `NoUseAfterUnmap`,
`FlagLoweredAtEnd` (the shutdown), `NoEditLost`, `WindowEndKeepsEdits` (the settings), `DriftIsGentle`, `Settles` (the
drift), `NoDanglingEndpoint`, `OnlyFailedStepsMissing`, `UninstallLeavesNothing` (the installer).

The invariants `CableInv`, `MixInv`, `SessionInv`, `PluginInv` and `SetupInv` are the inductive ones of the
proofs, with the type invariant of their module among their conjuncts; the runs check them before the proofs rely on them.

`cable` and `mix` check for deadlock as well: the bridge's thread can always look again. The other models
have states in which the system may stop for good (all instances destroyed, the process ended, nobody
sends packets, setup and the machine left alone), so their configurations switch that check off.

## Fairness

- `ApoSlots!FairSpec`: a thread inside an instance is not starved, and the audio engine keeps calling a
  locked instance (it does so every period); the clock advances whenever `Prompt` allows (strongly fair,
  as `Prompt` comes and goes with the heartbeats). Creation, locking and destruction are not fair: nobody has to do them.
  `EventuallyOneMaster` assumes besides that audiodg is not restarted for ever (`EngineLasts`) and that ticks do not fall for
  ever between an instance's load of the master's time and its reading of the clock (`TicksMissReads`). In the code these
  are two adjacent lines (`RimeApo.cpp:412-413`), and a tick falls between them once in a great while; nothing
  excludes it, so it is a premise and no part of the schedule.
- `SlotMix!FairSpec`: the processing thread wakes at least every 5 ms (`waitForData(5)`), a call of
  `APOProcess` ends, a stream that is not paused is called again, and 100 ms pass for one that is.
- `IpcSession!FairSpec`: a locked instance is called again, a call ends, a bridge that was started goes on
  (`Bridge`), and 100 ms pass (`MasterAges`). Coming, going and crashing are not fair. Lateness is bounded by
  `MaxLate`, so "in the end the bridge keeps up"; the two liveness properties say what follows if then both sides stay.
- `BridgeLife!FairSpec`: no thread is starved; all waits of the engine's threads time out (5 ms, 100 ms,
  2 s), SolarXR's retry too (1 s), and closing socket and WebSocket ends the other waits of the tracking threads. A tracker that is caught is
  not held to be fair. Closing the window, the console event and the crash are not fair. `PluginSession!PFairSpec` is the same for
  its actions; edits are not fair, and `HeardAsShown` assumes that blocks go on being processed.
- `HeadTracking!FairSpec`: `/ypr` packets keep coming, the server streams while it is there, usable time
  steps do not fail to come. It is strong fairness on the look at a usable time step, as between two corrections the
  other thread's packet may make the step of length 0. `Settles` and `SolarWins` assume `CorrectionsEnd`.

## Proofs

All for arbitrary values of the constants, under the assumptions named in the modules.

| Theorem | States | Assumes | Inductive invariant |
|---|---|---|---|
| `ApoSlots_proofs!TypeCorrect` | `TypeOK` | nothing more | itself |
| `IdsUnique`, `SlotsKnown`, `OwnerFrees` | `OneSlotPerId`, `SlotKnownToOwner`, `FreedByOwnerOnly` | no engine crash | `IdInv`, `PlaceInv` |
| `OwnersUse` | `UseIsOwned` | nothing more | `TypeOK`, `PlaceInv` |
| `ExclusiveUse` | `NobodyRobbed => []SlotExclusive` | nothing more | and *who is at work owns* |
| `ImplementsHarshLease` | `HarshLeaseSpec` | nothing more | `TypeOK`, `PlaceInv` |
| `VirtualCable_proofs!CableInvariant`, `TypeCorrect`, `RaceFree`, `LagIsBounded`, `SyncIsMild`, `ImplementsQueue` | `CableInv`, `TypeOK`, `CopiesDisjoint`, `LagBounded`, `SyncLeavesBlock`, `FifoSpec` | nothing more | `CableInv` |
| `SlotMix_proofs!MixInvariant`, `TypeCorrect`, `RaceFree`, `FlushForgets`, `WholeBlocks`, `AllAreWaitedFor` | `MixInv`, `TypeOK`, `RingsRaceFree`, `OldAudioForgotten`, `WholeBlocksMixed`, `AllWaitedFor` | nothing more | `MixInv` |
| `IpcSession_proofs!SessionInvariant`, `CapacityGuarded`, `SessionsApart` | `SessionInv`, `ReadyWhileUsed`, `NoOldSession` | `Hazards = {}` | `SessionInv` |
| `OrderOfPlay` | `PlayedInOrder` | `Hazards = {}` | `SessionInv`, of it `WayInOrder` and `ReturnInOrder` |
| `BridgeLife_proofs!TypeCorrect` | `TypeOK` | nothing more | itself |
| `JoinedBeforeUnmap`, `FlagIsServed` | `NoUseAfterUnmap`, `AnnouncedIsServed` | no `"earlyCtrl"` | `JoinInv` |
| `FlagLowered` | `FlagLoweredAtEnd` | `Hazards = {}` | `LifeInv` |
| `PluginSession_proofs!PluginRefinesLife` | every behaviour is one of `BridgeLife` | nothing more | none |
| `EditsArrive` | `NoEditLost` | no `"earlyCtrl"` | `JoinInv`, `EditInv` |
| `PluginCorrect`, `WindowEndSaved` | `PluginInv`, `WindowEndKeepsEdits` | `Hazards = {}` | `LifeInv`, `EditInv`, `FinalSave` |
| `HeadTracking_proofs!TypeCorrect` | `TypeOK` | nothing more | itself |
| `GentleDrift` | `DriftIsGentle` | nothing more | `TypeOK`, `Alone` |
| `Setup_proofs!SetupInvariant` | `SetupInv` | nothing more | itself |
| `EndpointsLoadable` | `NoDanglingEndpoint` | nothing more | `SetupInv` |
| `UninstallComplete` | `UninstallLeavesNothing` | no `"startsDuring"` | `SetupInv` |
| `InstallComplete` | `OnlyFailedStepsMissing` | nothing more | `SetupInv` |
| `ServiceRestarted` | `SoundIsBack` | nothing more | `SetupInv` |

Why the strengthenings are needed:

- `UseIsOwned` compares two states, and what it needs is where a slot can have come from: `PlaceInv` ties what is held to the
  place of the thread, so that an instance is let in only by `Verify` and `Cas`, which have just seen it as the owner. `IdInv`
  alone would let an instance claim while it has a slot.
- `ExclusiveUse` states `SlotExclusive` under the temporal premise that nobody is robbed. Step by step: if everybody at
  work owns the slot, and the step robs nobody, everybody at work owns it afterwards.
- `CopiesDisjoint` needs the lengths of the operations in progress measured against the positions
  (`Positions`); the queue needs the content of every cell from the read position on, the unpublished ones
  included (`Contents`).
- `WholeBlocksMixed` needs what the gate found to be still true when the second loop arrives
  (`Owing`): only the bridge takes frames out of a ring.
- `AllWaitedFor` starts at the call's look at the clock, before the gate has counted anybody. `Waited` carries each
  slot from "recent" over "counted" to "owes a block", and has to know that nobody else's stamp, claim or pause
  in between can take it out; `HotIsRented` that a slot that heartbeats is one that the gate does not leave out as free.
- `NoUseAfterUnmap` needs that nobody is past the join of a running thread (`LetGo`, `ThreadOwned`), that the view is
  there for whoever runs on it (`ViewOwned`), and that main is alone until the thread is started (`StartsAlone`). All of that,
  with `Served`, is `JoinInv` and holds also when main and the handler end the engine at once, as both must
  pass the join; only `FlagLoweredAtEnd` needs them apart (`EndersApart`).
- `PlayedInOrder` is about one step, but what is played next was recorded long before. `WayInOrder` has the blocks in
  `toHost` and in the bridge's hands in order and younger than all that went back; `ReturnInOrder` has `fromHost` in order
  and not older than what was heard. `tail` must be in order too, as a claim moves the read position back over it.
- `DriftIsGentle` rests on lemmas about the circle: that the code's two ways of wrapping give the same direction, that
  `Arc` does not depend on which is used, and that a pull by at most the distance shortens it. They turn the modulo into two
  cases of linear arithmetic, which the solver can do. `Alone` carries the pull through the steps: what a thread that
  nobody interferes with has in `val`, and that each turn of a loop keeps the direction that the offset had after the pull.
- `ReadyWhileUsed` says that the capacity seen at the guard is still there some steps later. What keeps it is
  that no bridge is between opening and sizing once the call has seen `hostIsRunning` (`Claimed`), which
  holds because a bridge clears and sizes only what nobody else had open, and before it raises the flag (`Announced`).
- `NoOldSession` rests on `FlushDue`: a bridge's count of answered flushes, which starts at 0, never reaches the block's
  count without the ring having been emptied. That needs each claim to have asked once (`Unclaimed`).
- `WindowEndKeepsEdits` compares values at three times; `NumbersInOrder` has that a later edit has a greater
  number all the way from the file to the window, and `FinalSave` how far main's last save has come.
- `NoEditLost` is inductive once the batch is known to be empty when nothing is taken. Because
  `PluginRefinesLife` makes every step one of `BridgeLife`, `LifeInv` needs no second proof.
- `UninstallLeavesNothing` needs, at each step of `DoUninstall`, all that was removed before to have stayed so
  (`UninstallInv`): no class and no endpoint means that `audiodg.exe` cannot load the DLL again, and only then can the file go.

`SetupInv` puts only `UninstallInv` under a switch of `Hazards` (`"startsDuring"`); its other parts hold with every switch on.
With no step failing its parts are what each step has done so far; with failures each conjunct is bound to the steps that it
depends on (`failed`), or that it depended on in an earlier procedure (`lost`).

`Hazards = {}` and the switches that the table names are real restrictions: [Observations](#observations) says which
property fails with which. `LeaseSpec` is model-checked under the timely schedule only; the theorems about the slots have no such condition.

Model-checked only: the liveness properties (`EventuallyOneMaster`, `SoundGoesOn`, `EveryBlockTaken`,
`LatencySettles`, `GapsEnd`, `WindowEnds`, `HeardAsShown`, `Settles`, `SolarWins`), which are beyond this prover together
with fairness and `ENABLED`, and `LeaseSpec`, of which `ImplementsHarshLease` proves what holds under every schedule. Every other safety
property that a passing run checks is a theorem, `SlotExclusive` under `NobodyRobbed`; `WholeBlocksMixed` and `TypeOK` of
`ApoSlots` and `HeadTracking` are theorems that no run lists.

## Disagreements found

- **Muted by a dead bridge** (`slots_orphaned_mute`). `RimeApo.cpp:341` promises passthrough when the host
  is not connected. The flag is lowered by `IpcAudioClient::shutdown` only; after a crash it stays set in
  the block that the instances keep alive, and slaves go on playing silence.
- **Ctrl+C does not stop the bridge** (`life_ctrl_c`). `main.cpp:78` says "press Ctrl+C to stop".
  `PostQuitMessage` in the handler posts to the handler's own thread; main stays in its loop with the
  engine shut down.
- **A kill during a save loses the state** (`life_torn_state`). `main.cpp:96` autosaves "to prevent data
  loss on ungraceful exits", but `std::ofstream` cuts the only copy before it is rewritten.
- **OSC stays suppressed** (`head_osc_muted`). `OscProxy.cpp:169` suppresses `/ypr` while SolarXR is
  "actively streaming"; `m_solarXrActive` is never reset.

## Observations

Runs kept out of the suite that show why the assumptions are there; each takes one change to a configuration.

- `ApoSlots` with `"parallelClaims"`: `SlotExclusive` fails. The new owner of a slot is visible before its
  heartbeat is, and a second claimant takes the slot in between.
- With `"ticksInClaim"`: `SlotExclusive` and `LeaseSpec` fail. `now` is read first, a later heartbeat makes the
  unsigned difference huge, and a live slot is taken (`RimeApo.cpp:269-275`).
- With `"pauses"` or `"hostChurn"`: `SlotExclusive` fails. Nobody heartbeats while a stream or the bridge is away; on its return a
  claimant takes the slot of an instance that has just passed its check. Each of these is a `Robbed` step, and by `ExclusiveUse` no
  sharing comes about in another way.
- The election under the timely schedule, without `TicksMissReads`: `EventuallyOneMaster` fails. A slave loads the master's time when it
  is as old as it may be, the master stores a new one, the clock ticks, and the slave reads the clock and finds the time it has
  loaded too old (`RimeApo.cpp:412-413`): it crowns itself over a living master, which has read itself as the master and plays
  as well. With the roles swapped this can go on for ever.
- With `"engineCrash"`: `OneSlotPerId` fails, as ids start again at 1 while the block keeps the old ones.
- `SlotMix`: `CountedIfRecent` fails. `IpcAudioClient.cpp:153` takes a slot processed within the last 100 ms to be "actively
  running", but `now` is read before the loop and the difference is unsigned, so a heartbeat one tick later than `now`
  looks 2^32 ms old: for this call the slot is not waited for, and with periods below 480 frames (441 at
  44.1 kHz) a piece of a block is mixed. `AllWaitedFor` shows that only the slot stamped so suffers.
- Several instances hold slots at once, although `src/README.md:72` says that only one claims the channel,
  and two of them may elect themselves in one round; `EventuallyOneMaster` shows when this ends.
- `IpcSession`: after one late bridge the latency is two periods for good, as a cushion of one block is never
  cut; `src/README.md:77` says one period.
- `IpcSession` with `"denied"`: `ReadyWhileUsed` fails. When `CreateFileMappingW` is denied and the block is got
  from `OpenFileMappingW`, the last error is not `ERROR_ALREADY_EXISTS`, so the bridge clears a block in
  use (`IpcAudioClient.cpp:35-38,56-60`).
- `IpcSession`: a bridge that dies while it sizes the block leaves capacities of 0 that no later bridge sets,
  since only the first ring is looked at; the guard of `APOProcess` then passes the audio through until all
  holders of the block are gone. `GapsEnd` says so by its premise `capacity = "set"`.
- `IpcSession`: what an ended bridge left in `fromHost` is played first after the next start, at most a
  ring's worth and in order; the session's `NoOldSession` is about what the bridge processes.
- `BridgeLife` with `"earlyCtrl"`: `NoUseAfterUnmap` fails, as main starts the thread after the handler has looked
  for it, and so does `FlagLoweredAtEnd`, as the handler shut down before the flag was raised. With
  `"bothEnders"`: `FlagLoweredAtEnd` fails, and a state file may be left cut, when the handler's end of the process
  overtakes main, or main returns while the handler still writes the file.
- `PluginSession`: `ConsoleCloseKeepsEdits` fails when the console is closed while main is in an autosave, which
  then ends last with an older snapshot.
- `PluginSession` with `"bothEnders"`: `JoinInv`, `NoUseAfterUnmap`,
  `AnnouncedIsServed`, `NoEditLost` and `WindowEnds` hold, the safety ones as theorems. A thread joined or a view unmapped
  twice is undefined behaviour in the code; the model lets the second call find nothing to do, and `Crash`
  stands for the other outcomes.
- `Setup`: "Installation complete!" says nothing of what has failed (`failed` may hold any step at `installed`). Two failures
  are to be expected: installing over an installation in use leaves the old bridge, which nobody stops, and the old DLL if
  `audiodg.exe` has loaded it again after the restart of the service. The old bridge is then launched a second time, and nothing
  keeps two from running. A `CopyFileW` that fails otherwise (`Setup.cpp:256`) leaves an attached endpoint without a DLL, as attaching
  follows all the same (`:305`), and so does a kill inside the copy: `NoDanglingEndpoint` shows that such failures are the only
  way to it and that it ends when the step is done again.
- `Setup`: a service that needs more than 5 s to stop is not started again, as `StartService` comes while it is still stopping
  (`Setup.cpp:93-100`); Windows stays without sound unless a later restart finds it stopped, which the one at the procedure's
  end mostly does.
- `Setup` with `"startsDuring"`: `UninstallLeavesNothing` fails, as the bridge's file
  is in use again. `"freeLive"` is allowed by `DllCanUnloadNow`, whose count of objects is never changed. An endpoint whose
  name cannot be read is not listed by `EnumerateDevices` and therefore not detached: in the model, one whose detaching fails.
- `Setup`: another product's effect that `DoInstall` replaced does not come back with `DoUninstall`, and signing
  enforcement is switched on even if it was off before.
- `HeadTracking`: a correction that the other thread interferes with may do what neither would do alone. A step chosen for one
  offset is added to another, so the view may turn away from its target or by more than its rate; a reset is overwritten (`OscProxy.cpp:135`);
  both threads turn an offset that is half a turn too large, and leave it unwrapped until the next correction. `Settles` shows that
  the view recovers by drifting.
- `HeadTracking` without `CorrectionsEnd`: `Settles` fails. The two threads can keep each other in the loops of lines 265-266 for ever, each
  adding its turn to what the other has just turned. It needs both to be in step all the time; in the code it is a delay, in the model
  a premise.
- An empty or too long datagram ends the proxy's thread (`OscProxy.cpp:108`), which `RecvFails` has. The wrapping loops (`:209`) do not end
  for a yaw or an offset that is not finite; the model's angles are integers, and what such a loop does to the end of the
  process is `TrackerCaught` and `Hung` of `BridgeLife`: main waits for the thread for ever, with the state saved and the flag lowered.
- `HeadTracking`: a target may lie in the forward zone. A view at 15.4 degrees is first drawn to 15, the whole degree
  next to it, and from there, since 15 counts as forward, to 0. `DriftIsGentle` therefore speaks of the target of each
  correction and not of one target for the whole way.

## Not modelled

Sample arithmetic, device enumeration, format negotiation and COM interfaces (pure data or calls into
Windows); the plugin itself and what it keeps in `state.bin.ctrl`; the memory stream, which one thread fills and
reads within one call; JSON configuration; vendored FlatBuffers and the generated protocol; `WASAPIOutput` (nothing
creates it); the log pipe (best effort, dropped when absent); the reading of OSC and SolarXR messages and the two tuning
commands; the handles that `LockForProcess` overwrites, except that they keep the block alive; failures of `saveState` (see
`BridgeLife`); the installer's texts, its configuration file (written only if there is none) and the VB-Cable driver, which stays installed.

## Plan

Done: all modules of the table above, with their proofs. Worth doing next, in this order:

1. `IpcSession` with two instances, composed from `ApoSlots`' election: a block goes to one slot only, and an
   old master's leftovers are not played after its slot was rewound.
2. A statement of what `SlotMix` assumes of `ApoSlots` as a refinement: its tenants are those of `SlotLease`, or a robbed
   one is outside `APOProcess`.
3. `IpcSession`'s theorems under `"denied"`: `NoOldSession` and `OrderOfPlay` may need less than `Hazards = {}`.
4. The safety part of `SolarWins`: once the flag is set, at most the packet already being corrected is still from OSC.

## How to run

In this directory: `tlc -workers 2 -config slots_timely.cfg ApoSlots.tla` and likewise for the other
configurations (the module of each is in `PROJECT.json` and in the table above); `tlapm
ApoSlots_proofs.tla` and likewise for the other proof modules.
