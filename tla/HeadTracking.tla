---------------------------- MODULE HeadTracking ----------------------------
(***************************************************************************)
(* The head tracking of the bridge: OscProxy receives /ypr packets and     *)
(* commands by UDP, SolarXrClient receives rotations over a WebSocket that *)
(* comes and goes, and both, each on its thread and without a lock, run    *)
(* applyDriftCorrection, which slowly turns the view towards the centre or *)
(* the nearest whole degree while the head is still, and forward the       *)
(* corrected yaw to the plugin.                                            *)
(*                                                                         *)
(* Each load and each store of m_driftOffset is a step of its own, and so  *)
(* are those of the other members that both threads use.                   *)
(*                                                                         *)
(* Angles are integers, 2 * Half of them a whole turn.  A time step is     *)
(* either usable (0 < dt < 1 s), always of the same length, or not.        *)
(* Packets that are only passed on are left out.                           *)
(***************************************************************************)
EXTENDS Integers

CONSTANTS
  Half,      \* 180 degrees
  Snap,      \* SNAP_INTERVAL
  Forward,   \* the zone that is snapped to 0 (15 degrees)
  NearZero,  \* a jump that lands nearer to 0 than this ... (2 degrees)
  Fast,      \* ... and is wider than this is a reset (1000 degrees/s)
  Still,     \* m_stillThreshold: the head turns less than this per step
  Speed,     \* m_driftSpeed: units per step
  Mults,     \* values of m_driftMultiplier
  Poses,     \* bound: the yaws the head may have
  MaxMoves   \* bound: turns of the head, resets and changes of the multiplier

ASSUME HeadAssumption ==
  /\ {Half, Snap, NearZero, Fast, Still} \subseteq Nat \ {0}
  /\ {Forward, Speed, MaxMoves} \subseteq Nat
  /\ Poses \subseteq 1 - Half .. Half
  /\ 1 \in Mults /\ Mults \subseteq Nat

Threads == {"osc", "solar"}
Yaws == 1 - Half .. Half

VARIABLES
  head,        \* the yaw the trackers report
  server,      \* the SlimeVR server is there
  moves,       \* bound on the environment's whims
  conn,        \* the WebSocket is open
  pc,          \* [Threads -> ...]  the two threads
  raw,         \* [Threads -> Yaws] rawYaw
  target,      \* [Threads -> Yaws] targetYaw
  val,         \* [Threads -> Int]  offsetError, then what is added or stored
  loop,        \* [Threads -> ...]  the wrapping loop the thread is in or enters next
  offset,      \* m_driftOffset
  last,        \* m_lastRawYaw
  started,     \* m_lastTimeMs # 0
  mult,        \* m_driftMultiplier
  solarActive, \* m_solarXrActive
  lone,        \* history: nobody else has stored offset or multiplier since the
               \* thread began to correct the offset, ...
  from         \* ... and what the offset was then

env     == <<head, server, moves>>
locals  == <<raw, target, val, loop>>
tracker == <<offset, last, started, mult, lone, from>>
vars    == <<head, server, moves, conn, pc, raw, target, val, loop, offset, last,
             started, mult, solarActive, lone, from>>

-----------------------------------------------------------------------------
(* applyDriftCorrection as a function of what it loads *)

Dist(x) == IF x < 0 THEN - x ELSE x

\* The loops "while (x > 180) x -= 360; while (x < -180) x += 360" ...
WrapBoth(x) == IF x > 0 THEN Half - ((Half - x) % (2 * Half))
                         ELSE ((x + Half) % (2 * Half)) - Half
\* ... and the same with "x <= -180".
Wrap(x) == Half - ((Half - x) % (2 * Half))

\* std::round: halves are rounded away from zero.
Rounded(x) ==
  LET up == Snap * ((2 * Dist(x) + Snap) \div (2 * Snap))
  IN  IF x < 0 THEN - up ELSE up

\* Where a view at this corrected yaw should come to rest.
Target(yaw) == IF Dist(yaw) <= Forward THEN 0 ELSE Wrap(Rounded(yaw))

Rate(aim, m) == (IF aim = 0 THEN 3 ELSE 1) * Speed * m

Turn(yaw)   == Dist(WrapBoth(yaw - last))
Jumped(yaw) == Dist(yaw) < NearZero /\ Turn(yaw) > Fast

-----------------------------------------------------------------------------

Init ==
  /\ head \in Poses
  /\ server \in BOOLEAN
  /\ moves = 0
  /\ conn = FALSE
  /\ pc = [t \in Threads |-> "recv"]
  /\ raw = [t \in Threads |-> 0]
  /\ target = [t \in Threads |-> 0]
  /\ val = [t \in Threads |-> 0]
  /\ loop = [t \in Threads |-> "down"]
  /\ offset = 0 /\ last = 0 /\ started = FALSE /\ mult = 1
  /\ lone = [t \in Threads |-> FALSE]
  /\ from = [t \in Threads |-> 0]
  /\ solarActive = FALSE

(* The environment *)

Whim == moves < MaxMoves /\ moves' = moves + 1

TurnHead ==
  /\ Whim /\ head' \in Poses \ {head}
  /\ UNCHANGED <<server, conn, pc, locals, tracker, solarActive>>

ServerChange ==
  /\ Whim /\ server' = ~ server
  /\ UNCHANGED <<head, conn, pc, locals, tracker, solarActive>>

(* The drift correction, on either thread *)

\* A yaw to correct has arrived.
Begin(t) ==
  /\ pc' = [pc EXCEPT ![t] = "look"]
  /\ raw' = [raw EXCEPT ![t] = head]
  /\ UNCHANGED <<target, val, loop>>

Goto(t, place) == pc' = [pc EXCEPT ![t] = place]

\* The threads in T are not alone any more, or have finished.
Forget(T) ==
  /\ lone' = [u \in Threads |-> lone[u] /\ u \notin T]
  /\ from' = [u \in Threads |-> IF u \in T THEN 0 ELSE from[u]]

\* m_driftOffset is stored by thread t.
StoreOffset(t, x) == offset' = x /\ Forget(Threads \ {t})

\* m_lastTimeMs and m_lastRawYaw are loaded: nothing is done after a pause or
\* while the head turns, a jump to the centre is a reset.
Look(t, usable) ==
  /\ pc[t] = "look"
  /\ Goto(t, IF ~ (started /\ usable) THEN "time"
             ELSE IF Jumped(raw[t]) THEN "zero"
             ELSE IF Turn(raw[t]) < Still THEN "aim" ELSE "time")
  /\ UNCHANGED <<env, conn, locals, tracker, solarActive>>

\* "Instant reset"
Zero(t) ==
  /\ pc[t] = "zero"
  /\ StoreOffset(t, 0)
  /\ Goto(t, "time")
  /\ UNCHANGED <<env, conn, locals, last, started, mult, solarActive>>

\* The offset is loaded to find where the view should come to rest ...
Aim(t) ==
  /\ pc[t] = "aim"
  /\ target' = [target EXCEPT ![t] = Target(WrapBoth(raw[t] - offset))]
  /\ lone' = [lone EXCEPT ![t] = TRUE]
  /\ from' = [from EXCEPT ![t] = offset]
  /\ Goto(t, "measure")
  /\ UNCHANGED <<env, conn, raw, val, loop, offset, last, started, mult, solarActive>>

\* Mutant: the distance is not wrapped.
MeasureUnwrapped(t) ==
  /\ pc[t] = "measure"
  /\ val' = [val EXCEPT ![t] = raw[t] - target[t] - offset]
  /\ Goto(t, "rate")
  /\ UNCHANGED <<env, conn, raw, target, loop, tracker, solarActive>>

\* ... loaded again for the distance to the offset that would do it ...
Measure(t) ==
  /\ pc[t] = "measure"
  /\ val' = [val EXCEPT ![t] = WrapBoth(raw[t] - target[t] - offset)]
  /\ Goto(t, "rate")
  /\ UNCHANGED <<env, conn, raw, target, loop, tracker, solarActive>>

\* ... which is either snapped to, or approached by the rate.
SetRate(t) ==
  /\ pc[t] = "rate"
  /\ LET drift == Rate(target[t], mult)
     IN  IF Dist(val[t]) <= drift
           THEN /\ val' = [val EXCEPT ![t] = raw[t] - target[t]]
                /\ Goto(t, "put")
           ELSE /\ val' = [val EXCEPT ![t] = IF val[t] > 0 THEN drift ELSE - drift]
                /\ Goto(t, "add")
  /\ target' = [target EXCEPT ![t] = 0]
  /\ loop' = [loop EXCEPT ![t] = "down"]
  /\ UNCHANGED <<env, conn, raw, tracker, solarActive>>

\* The load of "m_driftOffset += x" and "-= x" ...
Add(t) ==
  /\ pc[t] = "add"
  /\ val' = [val EXCEPT ![t] = offset + val[t]]
  /\ Goto(t, "put")
  /\ UNCHANGED <<env, conn, raw, target, loop, tracker, solarActive>>

\* ... and the store; then on to the test of the loop.
Put(t) ==
  /\ pc[t] = "put"
  /\ StoreOffset(t, val[t])
  /\ val' = [val EXCEPT ![t] = 0]
  /\ Goto(t, "test")
  /\ UNCHANGED <<env, conn, raw, target, loop, last, started, mult, solarActive>>

\* "while (m_driftOffset > 180) -= 360; while (m_driftOffset <= -180) += 360;"
Test(t) ==
  /\ pc[t] = "test"
  /\ \/ /\ loop[t] = "down" /\ offset > Half
        /\ val' = [val EXCEPT ![t] = - 2 * Half]
        /\ Goto(t, "add")
        /\ UNCHANGED loop
     \/ /\ loop[t] = "down" /\ ~ offset > Half
        /\ loop' = [loop EXCEPT ![t] = "up"]
        /\ UNCHANGED <<pc, val>>
     \/ /\ loop[t] = "up" /\ offset <= - Half
        /\ val' = [val EXCEPT ![t] = 2 * Half]
        /\ Goto(t, "add")
        /\ UNCHANGED loop
     \/ /\ loop[t] = "up" /\ ~ offset <= - Half
        /\ loop' = [loop EXCEPT ![t] = "down"]
        /\ Goto(t, "time")
        /\ UNCHANGED val
  /\ UNCHANGED <<env, conn, raw, target, tracker, solarActive>>

\* m_lastTimeMs is stored ...
StoreTime(t) ==
  /\ pc[t] = "time"
  /\ started' = TRUE
  /\ Goto(t, "yaw")
  /\ UNCHANGED <<env, conn, locals, offset, last, mult, solarActive, lone, from>>

\* ... then m_lastRawYaw, and the packet is forwarded.
Finish(t, newLast) ==
  /\ pc[t] = "yaw"
  /\ last' = newLast
  /\ raw' = [raw EXCEPT ![t] = 0]
  /\ Forget({t})
  /\ Goto(t, "recv")
  /\ UNCHANGED <<env, conn, target, val, loop, offset, started, mult, solarActive>>

\* Mutant: the last yaw is not kept up to date.
FinishForgets(t) == Finish(t, last)

StoreYaw(t) == Finish(t, raw[t])

Correct(t) ==
  \/ \E usable \in BOOLEAN : Look(t, usable)
  \/ Zero(t) \/ Aim(t) \/ Measure(t) \/ SetRate(t) \/ Add(t) \/ Put(t)
  \/ Test(t) \/ StoreTime(t) \/ StoreYaw(t)

-----------------------------------------------------------------------------
(* OscProxy's thread *)

\* Mutant: /ypr packets are corrected whatever SolarXR does.
YprUnchecked ==
  /\ pc["osc"] = "recv"
  /\ Begin("osc")
  /\ UNCHANGED <<env, conn, tracker, solarActive>>

\* /ypr: dropped once SolarXR is active, else corrected.
Ypr ==
  /\ pc["osc"] = "recv" /\ ~ solarActive
  /\ Begin("osc")
  /\ UNCHANGED <<env, conn, tracker, solarActive>>

\* /rime/reset; ResetResponse FINISHED on the other thread.
Reset(t) ==
  /\ Whim
  /\ pc[t] = "recv"
  /\ t = "solar" => conn
  /\ StoreOffset(t, 0)
  /\ UNCHANGED <<head, server, conn, pc, locals, last, started, mult,
                 solarActive>>

\* recv fails, or an empty or too long datagram arrives: the thread ends.
RecvFails ==
  /\ Whim /\ pc["osc"] = "recv"
  /\ pc' = [pc EXCEPT !["osc"] = "ended"]
  /\ UNCHANGED <<head, server, conn, locals, tracker, solarActive>>

(* SolarXrClient's thread *)

\* connectAndReceive up to the subscription; it fails, and is tried again
\* after a second, as long as there is no server.
Connect ==
  /\ pc["solar"] = "recv" /\ ~ conn /\ server
  /\ conn' = TRUE
  /\ UNCHANGED <<env, pc, locals, tracker, solarActive>>

\* The connection is lost: the handles are closed.
Disconnect ==
  /\ pc["solar"] = "recv" /\ conn /\ ~ server
  /\ conn' = FALSE
  /\ UNCHANGED <<env, pc, locals, tracker, solarActive>>

\* The head tracker's IMU type: setDriftMultiplier.
ImuType ==
  /\ Whim /\ pc["solar"] = "recv" /\ conn /\ server
  /\ mult' \in Mults
  /\ Forget(Threads)
  /\ UNCHANGED <<head, server, conn, pc, locals, offset, last, started,
                 solarActive>>

\* A rotation of the synthetic head tracker: injectSolarXrRotation.
Rotation ==
  /\ pc["solar"] = "recv" /\ conn /\ server
  /\ solarActive' = TRUE
  /\ Begin("solar")
  /\ UNCHANGED <<env, conn, tracker>>

-----------------------------------------------------------------------------

Next ==
  \/ TurnHead \/ ServerChange
  \/ \E t \in Threads : Correct(t) \/ Reset(t)
  \/ Ypr \/ RecvFails
  \/ Connect \/ Disconnect \/ ImuType \/ Rotation

Spec == Init /\ [][Next]_vars

\* /ypr packets keep coming, the server streams while it is there, neither
\* thread is starved, and usable time steps do not fail to come.
FairSpec ==
  /\ Spec
  /\ WF_vars(Ypr) /\ WF_vars(Connect) /\ WF_vars(Disconnect) /\ WF_vars(Rotation)
  /\ \A t \in Threads : WF_vars(Correct(t)) /\ SF_vars(Look(t, TRUE))

-----------------------------------------------------------------------------
(* Properties *)

Pcs == {"recv", "look", "zero", "aim", "measure", "rate", "add", "put", "test",
        "time", "yaw", "ended"}

\* Every variable keeps to its type.
TypeOK ==
  /\ head \in Yaws /\ moves \in 0 .. MaxMoves
  /\ server \in BOOLEAN /\ conn \in BOOLEAN
  /\ started \in BOOLEAN /\ solarActive \in BOOLEAN
  /\ pc \in [Threads -> Pcs]
  /\ raw \in [Threads -> Yaws] /\ target \in [Threads -> Yaws]
  /\ val \in [Threads -> Int] /\ loop \in [Threads -> {"down", "up"}]
  /\ offset \in Int /\ last \in Yaws
  /\ mult \in Mults
  /\ lone \in [Threads -> BOOLEAN] /\ from \in [Threads -> Int]

\* The angle between two directions, either way round.
Arc(a, b) == Dist(WrapBoth(a - b))

\* A correction during which the other thread stores neither offset nor
\* multiplier turns the view by at most its rate, and if it turns it at all then
\* nearer to the target it had, also across the back (+-180) and from an offset
\* that the other thread's race had left unwrapped; and it leaves it wrapped.
DriftIsGentle ==
  \A t \in Threads : pc[t] = "time" /\ lone[t] =>
    LET goal == Target(WrapBoth(raw[t] - from[t]))
    IN  /\ offset \in Yaws
        /\ Arc(offset, from[t]) <= 3 * Speed * mult
        /\ Arc(offset, from[t]) > 0 =>
             Arc(raw[t] - offset, goal) < Arc(raw[t] - from[t], goal)

\* Some thread has yaws to correct.
Fed == (conn /\ server) \/ (~ solarActive /\ pc["osc"] # "ended")

\* No correction goes on for ever: the loops that wrap the offset do not meet,
\* each time they look, a value that the other thread has just not wrapped yet.
CorrectionsEnd == \A t \in Threads : []<>(pc[t] \in {"recv", "ended"})

\* The view is on its target.
AtRest == LET view == WrapBoth(head - offset) IN Arc(view, Target(view)) = 0

\* When the head comes to rest and drift is allowed, the view comes to rest on
\* its target, whatever the threads did to each other's stores before.
Settles == CorrectionsEnd /\ <>[](Fed /\ mult > 0) => <>[]AtRest

\* Once SolarXR has delivered a rotation the two sources do not go on taking
\* turns: sooner or later only SolarXR's yaw moves the view.
SolarWins ==
  CorrectionsEnd /\ <>[]solarActive => <>[](pc["osc"] \in {"recv", "ended"})

\* OscProxy.cpp: "Suppress UDP OSC drift correction if native FlatBuffers are
\* actively streaming to us": without a connection /ypr packets get through.
OscResumes ==
  <>[](~ conn /\ pc["osc"] # "ended") => []<>(pc["osc"] = "look")

=============================================================================
