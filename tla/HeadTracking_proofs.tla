------------------------- MODULE HeadTracking_proofs -------------------------
(***************************************************************************)
(* Machine-checked facts about HeadTracking: the wrapping loops agree on   *)
(* every direction and differ only at the back, and a correction whose     *)
(* offset the other thread leaves alone is gentle for every width of the   *)
(* zones, speed and multiplier, one load and one store at a time, and from *)
(* any offset that a race of the two threads has left.                     *)
(***************************************************************************)
EXTENDS HeadTracking, TLAPS

-----------------------------------------------------------------------------
(* Directions: angles up to whole turns *)

Same(x, y) == \E k \in Int : x = y + k * (2 * Half)

LEMMA Constants ==
  /\ Half \in Nat \ {0} /\ Snap \in Nat \ {0}
  /\ Forward \in Nat /\ Speed \in Nat /\ MaxMoves \in Nat
  /\ Poses \subseteq Yaws /\ 1 \in Mults /\ Mults \subseteq Nat
  BY HeadAssumption DEF Yaws

LEMMA ZeroIsYaw == 0 \in Yaws /\ Yaws \subseteq Int
  BY Constants DEF Yaws

LEMMA SameItself ==
  ASSUME NEW x \in Int
  PROVE  Same(x, x)
<1>1. x = x + 0 * (2 * Half)
  BY Constants
<1> QED
  BY <1>1 DEF Same

\* Directions may be compared through a third, and added and subtracted.
LEMMA SameThrough ==
  ASSUME NEW x \in Int, NEW y \in Int, NEW z \in Int, Same(x, y), Same(y, z)
  PROVE  Same(x, z)
<1>1. PICK k \in Int : x = y + k * (2 * Half)
  BY DEF Same
<1>2. PICK j \in Int : y = z + j * (2 * Half)
  BY DEF Same
<1>3. x = z + (k + j) * (2 * Half) /\ k + j \in Int
  BY <1>1, <1>2, Constants
<1> QED
  BY <1>3 DEF Same

LEMMA SameDifference ==
  ASSUME NEW x \in Int, NEW y \in Int, NEW z \in Int, Same(x, y)
  PROVE  /\ Same(x - z, y - z)
         /\ Same(z - x, z - y)
<1>1. PICK k \in Int : x = y + k * (2 * Half)
  BY DEF Same
<1>2. x - z = (y - z) + k * (2 * Half)
  BY <1>1, Constants
<1>3. z - x = (z - y) + (- k) * (2 * Half) /\ - k \in Int
  BY <1>1, Constants
<1> QED
  BY <1>2, <1>3 DEF Same

\* Only the two names of the back are the same direction within half a turn.
LEMMA SameWithinHalf ==
  ASSUME NEW x \in - Half .. Half, NEW y \in - Half .. Half, Same(x, y)
  PROVE  Dist(x) = Dist(y)
<1>1. PICK k \in Int : x = y + k * (2 * Half)
  BY DEF Same
<1>2. CASE k = 0
  BY <1>1, <1>2, Constants
<1>3. CASE k >= 1
  <2>1. k * (2 * Half) >= 2 * Half
    BY <1>3, Constants
  <2> QED
    BY <1>1, <2>1, Constants DEF Dist
<1>4. CASE k <= - 1
  <2>1. k * (2 * Half) <= - (2 * Half)
    BY <1>4, Constants
  <2> QED
    BY <1>1, <2>1, Constants DEF Dist
<1> QED
  BY <1>2, <1>3, <1>4

-----------------------------------------------------------------------------
(* The wrapping loops *)

\* Both loops keep the direction and bring it within half a turn.
LEMMA WrapKeepsDirection ==
  ASSUME NEW x \in Int
  PROVE  Wrap(x) \in Yaws /\ Same(Wrap(x), x)
<1> DEFINE turns == (Half - x) \div (2 * Half)
           rest  == (Half - x) % (2 * Half)
<1>1. 2 * Half \in Nat \ {0} /\ Half - x \in Int
  BY Constants
<1>2. turns \in Int /\ rest \in 0 .. 2 * Half - 1 /\ Half - x = (2 * Half) * turns + rest
  BY <1>1
<1>3. Wrap(x) = x + turns * (2 * Half)
  BY <1>1, <1>2, Constants DEF Wrap
<1> QED
  BY <1>2, <1>3, Constants DEF Wrap, Yaws, Same

LEMMA WrapBothKeepsDirection ==
  ASSUME NEW x \in Int
  PROVE  WrapBoth(x) \in - Half .. Half /\ Same(WrapBoth(x), x)
<1>1. CASE x > 0
  <2>1. WrapBoth(x) = Wrap(x)
    BY <1>1 DEF WrapBoth, Wrap
  <2> QED
    BY <2>1, WrapKeepsDirection, Constants DEF Yaws
<1>2. CASE ~ x > 0
  <2> DEFINE turns == (x + Half) \div (2 * Half)
             rest  == (x + Half) % (2 * Half)
  <2>1. 2 * Half \in Nat \ {0} /\ x + Half \in Int
    BY Constants
  <2>2. turns \in Int /\ rest \in 0 .. 2 * Half - 1 /\ x + Half = (2 * Half) * turns + rest
    BY <2>1
  <2>3. WrapBoth(x) = rest - Half
    BY <1>2 DEF WrapBoth
  <2> HIDE DEF turns, rest
  <2>4. (- turns) * (2 * Half) = - ((2 * Half) * turns) /\ - turns \in Int
    BY <2>1, <2>2
  <2>5. WrapBoth(x) = x + (- turns) * (2 * Half)
    BY <2>1, <2>2, <2>3, <2>4, Constants
  <2>6. rest - Half \in - Half .. Half
    BY <2>2, Constants
  <2> QED
    BY <2>3, <2>4, <2>5, <2>6 DEF Same
<1> QED
  BY <1>1, <1>2

\* An angle within half a turn that has the direction from b to a is as wide as
\* the arc between them.
LEMMA ArcIs ==
  ASSUME NEW a \in Int, NEW b \in Int, NEW e \in - Half .. Half, Same(a - b, e)
  PROVE  Arc(a, b) = Dist(e)
<1>1. a - b \in Int /\ e \in Int
  BY Constants
<1>2. WrapBoth(a - b) \in - Half .. Half /\ Same(WrapBoth(a - b), a - b)
  BY <1>1, WrapBothKeepsDirection
<1>3. Same(WrapBoth(a - b), e)
  BY <1>1, <1>2, SameThrough, Constants
<1> QED
  BY <1>2, <1>3, SameWithinHalf DEF Arc

-----------------------------------------------------------------------------
(* One correction *)

LEMMA TargetIsYaw ==
  ASSUME NEW x \in Int
  PROVE  Target(x) \in Yaws
<1>1. Dist(x) \in Nat
  BY DEF Dist
<1>2. 2 * Dist(x) + Snap \in Int /\ 2 * Snap \in Nat \ {0}
  BY <1>1, Constants
<1>3. (2 * Dist(x) + Snap) \div (2 * Snap) \in Int
  BY <1>2
<1>4. Rounded(x) \in Int
  BY <1>3, Constants DEF Rounded
<1> QED
  BY <1>4, WrapKeepsDirection, ZeroIsYaw DEF Target

LEMMA RateIsBounded ==
  ASSUME NEW x \in Int, NEW m \in Nat
  PROVE  Rate(x, m) \in Nat /\ Rate(x, m) <= 3 * Speed * m
<1>1. Speed * m \in Nat
  BY Constants
<1>2. 3 * Speed * m = 3 * (Speed * m) /\ 1 * Speed * m = Speed * m
  BY Constants
<1> QED
  BY <1>1, <1>2 DEF Rate

\* Where a correction takes the offset, before it is wrapped.
Moved(yaw, off, m) ==
  LET aim == Target(WrapBoth(yaw - off))
      error  == WrapBoth(yaw - aim - off)
      drift  == Rate(aim, m)
  IN  IF Dist(error) <= drift THEN yaw - aim
      ELSE IF error > 0 THEN off + drift ELSE off - drift

\* A correction by at most its rate, that turns the view nearer to its target if
\* it turns it at all, from an offset that need not be wrapped.
LEMMA PullIsGentle ==
  ASSUME NEW yaw \in Yaws, NEW off \in Int, NEW m \in Nat, NEW new \in Int,
         Same(new, Moved(yaw, off, m))
  PROVE  /\ Arc(new, off) <= 3 * Speed * m
         /\ Arc(new, off) > 0 =>
              LET aim == Target(WrapBoth(yaw - off))
              IN  Arc(yaw - new, aim) < Arc(yaw - off, aim)
<1> DEFINE aim == Target(WrapBoth(yaw - off))
           error  == WrapBoth(yaw - aim - off)
           drift  == Rate(aim, m)
           next   == IF Dist(error) <= drift THEN yaw - aim
                     ELSE IF error > 0 THEN off + drift ELSE off - drift
<1>1. yaw \in Int /\ off \in Int /\ yaw - off \in Int /\ WrapBoth(yaw - off) \in Int
  <2>1. yaw \in Int /\ off \in Int /\ yaw - off \in Int
    BY ZeroIsYaw
  <2>2. WrapBoth(yaw - off) \in - Half .. Half
    BY <2>1, WrapBothKeepsDirection
  <2> QED
    BY <2>1, <2>2, Constants
<1>2. aim \in Int /\ yaw - aim - off \in Int
  <2>1. aim \in Int
    BY <1>1, TargetIsYaw, ZeroIsYaw
  <2> HIDE DEF aim
  <2> QED
    BY <1>1, <2>1
<1>3. error \in - Half .. Half /\ error \in Int /\ Same(error, yaw - aim - off)
  BY <1>2, WrapBothKeepsDirection, Constants
<1>4. drift \in Nat /\ drift <= 3 * Speed * m
  BY <1>2, RateIsBounded
<1>5. Dist(error) \in 0 .. Half
  BY <1>3, Constants DEF Dist
<1>6. next = Moved(yaw, off, m) /\ next \in Int
  BY <1>1, <1>2, <1>3, <1>4 DEF Moved
<1>7. Same(new, next) /\ new \in Int
  BY <1>6
<1> HIDE DEF aim, error, drift, next
<1>8. Same(yaw - aim - off, error)
  <2>1. PICK k \in Int : error = yaw - aim - off + k * (2 * Half)
    BY <1>3 DEF Same
  <2>2. yaw - aim - off = error + (- k) * (2 * Half) /\ - k \in Int
    BY <1>2, <1>3, <2>1, Constants
  <2> QED
    BY <2>2 DEF Same
<1>9. Arc(yaw - off, aim) = Dist(error)
  <2>1. yaw - off - aim = yaw - aim - off
    BY <1>1, <1>2
  <2> QED
    BY <1>1, <1>2, <1>3, <1>8, <2>1, ArcIs
\* What the new offset is away from the old one, and the view from its target.
<1>10. ASSUME NEW e \in - Half .. Half, NEW r \in - Half .. Half,
              Same(next - off, e), Same(yaw - next - aim, r)
       PROVE  Arc(new, off) = Dist(e) /\ Arc(yaw - new, aim) = Dist(r)
  <2>1. e \in Int /\ r \in Int /\ new - off \in Int /\ next - off \in Int
    BY <1>1, <1>6, <1>7, Constants
  <2>2. Same(new - off, next - off)
    BY <1>1, <1>6, <1>7, SameDifference
  <2>3. Arc(new, off) = Dist(e)
    BY <1>1, <1>7, <1>10, <2>1, <2>2, SameThrough, ArcIs
  <2>4. Same(yaw - new, yaw - next) /\ yaw - new \in Int /\ yaw - next \in Int
    BY <1>1, <1>6, <1>7, SameDifference
  <2>5. Same(yaw - new - aim, yaw - next - aim)
    BY <1>2, <2>4, SameDifference
  <2>6. yaw - new - aim \in Int /\ yaw - next - aim \in Int
    BY <1>2, <2>4
  <2>7. Same(yaw - new - aim, r)
    BY <1>10, <2>1, <2>5, <2>6, SameThrough
  <2> QED
    BY <1>2, <2>3, <2>4, <2>7, ArcIs
<1>11. CASE Dist(error) <= drift
  <2>1. next = yaw - aim
    BY <1>11 DEF next
  <2>2. Same(next - off, error)
    BY <1>8, <2>1
  <2>3. 0 \in - Half .. Half /\ Same(yaw - next - aim, 0)
    <3>1. yaw - next - aim = 0
      BY <1>1, <1>2, <2>1
    <3> QED
      BY <3>1, SameItself, Constants
  <2>4. Arc(new, off) = Dist(error) /\ Arc(yaw - new, aim) = Dist(0)
    BY <1>3, <1>10, <2>2, <2>3
  <2>5. Dist(error) > 0 => Dist(0) < Dist(error)
    BY DEF Dist
  <2> QED
    BY <1>4, <1>5, <1>9, <1>11, <2>4, <2>5, Constants DEF aim
<1>12. ASSUME Dist(error) > drift,
              NEW d \in Int, next = off + d, d = drift \/ d = - drift,
              Dist(error - d) = Dist(error) - drift
       PROVE  /\ Arc(new, off) = drift
              /\ Arc(new, off) > 0 => Arc(yaw - new, aim) < Dist(error)
  <2>1. drift < Half /\ drift \in Nat
    BY <1>4, <1>5, <1>12, Constants
  <2>2. d \in - Half .. Half /\ Dist(d) = drift /\ error - d \in - Half .. Half
    BY <1>3, <1>5, <1>12, <2>1, Constants DEF Dist
  <2>3. Same(next - off, d)
    <3>1. next - off = d
      BY <1>1, <1>12
    <3> QED
      BY <3>1, SameItself
  <2>4. Same(yaw - next - aim, error - d)
    <3>1. yaw - next - aim = (yaw - aim - off) - d
      BY <1>1, <1>2, <1>12
    <3> QED
      BY <1>2, <1>3, <1>8, <3>1, SameDifference
  <2>5. Arc(new, off) = drift /\ Arc(yaw - new, aim) = Dist(error) - drift
    BY <1>10, <1>12, <2>2, <2>3, <2>4
  <2> QED
    BY <1>5, <2>1, <2>5
<1>13. CASE Dist(error) > drift /\ error > 0
  <2>1. next = off + drift /\ Dist(error - drift) = Dist(error) - drift
    BY <1>1, <1>3, <1>4, <1>13 DEF Dist, next
  <2>2. Arc(new, off) = drift /\ (Arc(new, off) > 0 => Arc(yaw - new, aim) < Dist(error))
    BY <1>4, <1>12, <1>13, <2>1
  <2> QED
    BY <1>4, <1>7, <1>9, <2>2 DEF aim
<1>14. CASE Dist(error) > drift /\ ~ error > 0
  <2>1. next = off + (- drift) /\ Dist(error - (- drift)) = Dist(error) - drift
    BY <1>1, <1>3, <1>4, <1>14 DEF Dist, next
  <2>2. Arc(new, off) = drift /\ (Arc(new, off) > 0 => Arc(yaw - new, aim) < Dist(error))
    BY <1>4, <1>12, <1>14, <2>1
  <2> QED
    BY <1>4, <1>7, <1>9, <2>2 DEF aim
<1> QED
  BY <1>4, <1>5, <1>11, <1>13, <1>14

-----------------------------------------------------------------------------
(* The two threads *)


LEMMA InitType == Init => TypeOK
<1> SUFFICES ASSUME Init
             PROVE  TypeOK
  OBVIOUS
<1>1. head \in Yaws /\ moves \in 0 .. MaxMoves /\ mult \in Mults
  BY Constants DEF Init
<1>2. /\ server \in BOOLEAN /\ conn \in BOOLEAN
      /\ started \in BOOLEAN /\ solarActive \in BOOLEAN
  BY DEF Init
<1> QED
  BY <1>1, <1>2, ZeroIsYaw DEF Init, TypeOK, Pcs

LEMMA AimType ==
  ASSUME TypeOK, NEW t \in Threads, Aim(t)
  PROVE  TypeOK'
<1>1. raw[t] \in Int /\ offset \in Int
  BY ZeroIsYaw DEF TypeOK
<1>2. WrapBoth(raw[t] - offset) \in Int
  BY <1>1, WrapBothKeepsDirection, Constants
<1>3. Target(WrapBoth(raw[t] - offset)) \in Yaws
  BY <1>2, TargetIsYaw
<1> QED
  BY <1>3 DEF TypeOK, Aim, Goto, Pcs, env

LEMMA MeasureType ==
  ASSUME TypeOK, NEW t \in Threads, Measure(t)
  PROVE  TypeOK'
<1>1. raw[t] \in Int /\ offset \in Int /\ target[t] \in Int
  BY ZeroIsYaw DEF TypeOK
<1>2. raw[t] - target[t] - offset \in Int
  BY <1>1
<1>3. WrapBoth(raw[t] - target[t] - offset) \in Int
  BY <1>2, WrapBothKeepsDirection, Constants
<1> QED
  BY <1>3 DEF TypeOK, Measure, Goto, Pcs, env, tracker

LEMMA SetRateType ==
  ASSUME TypeOK, NEW t \in Threads, SetRate(t)
  PROVE  TypeOK'
<1>1. raw[t] \in Int /\ target[t] \in Int /\ mult \in Nat
  BY ZeroIsYaw, Constants DEF TypeOK
<1>2. Rate(target[t], mult) \in Int /\ - Rate(target[t], mult) \in Int
  <2>1. Rate(target[t], mult) \in Nat
    BY <1>1, RateIsBounded
  <2> QED
    BY <2>1
<1>3. val' \in [Threads -> Int] /\ pc' \in [Threads -> Pcs]
  BY <1>1, <1>2 DEF TypeOK, SetRate, Goto, Pcs
<1>4. target' \in [Threads -> Yaws] /\ loop' \in [Threads -> {"down", "up"}]
  BY ZeroIsYaw DEF TypeOK, SetRate
<1> QED
  BY <1>3, <1>4 DEF TypeOK, SetRate, env, tracker

LEMMA TestType ==
  ASSUME TypeOK, NEW t \in Threads, Test(t)
  PROVE  TypeOK'
<1>1. pc' \in [Threads -> Pcs] /\ loop' \in [Threads -> {"down", "up"}]
  BY DEF TypeOK, Test, Goto, Pcs
<1>2. val' \in [Threads -> Int]
  BY Constants DEF TypeOK, Test
<1> QED
  BY <1>1, <1>2 DEF TypeOK, Test, env, tracker

LEMMA CorrectType ==
  ASSUME TypeOK, NEW t \in Threads, Correct(t)
  PROVE  TypeOK'
<1>1. ASSUME NEW usable \in BOOLEAN, Look(t, usable)
      PROVE  TypeOK'
  BY <1>1 DEF TypeOK, Look, Goto, Pcs, env, locals, tracker
<1>2. ASSUME Zero(t)
      PROVE  TypeOK'
  BY <1>2 DEF TypeOK, Zero, StoreOffset, Forget, Goto, Pcs, env, locals
<1>3. ASSUME Add(t)
      PROVE  TypeOK'
  BY <1>3 DEF TypeOK, Add, Goto, Pcs, env, tracker
<1>4. ASSUME Put(t)
      PROVE  TypeOK'
  BY <1>4 DEF TypeOK, Put, StoreOffset, Forget, Goto, Pcs, env
<1>5. ASSUME StoreTime(t)
      PROVE  TypeOK'
  BY <1>5 DEF TypeOK, StoreTime, Goto, Pcs, env, locals
<1>6. ASSUME StoreYaw(t)
      PROVE  TypeOK'
  BY <1>6, ZeroIsYaw DEF TypeOK, StoreYaw, Finish, Forget, Goto, Pcs, env
<1> QED
  BY <1>1, <1>2, <1>3, <1>4, <1>5, <1>6, AimType, MeasureType, SetRateType,
     TestType DEF Correct

LEMMA TypeKept == TypeOK /\ [Next]_vars => TypeOK'
<1> SUFFICES ASSUME TypeOK, [Next]_vars
             PROVE  TypeOK'
  OBVIOUS
<1>1. ASSUME TurnHead \/ ServerChange  PROVE TypeOK'
  <2>1. moves' \in 0 .. MaxMoves /\ head' \in Yaws
    BY <1>1, Constants DEF TypeOK, TurnHead, ServerChange, Whim
  <2>2. server' \in BOOLEAN
    BY <1>1 DEF TypeOK, TurnHead, ServerChange
  <2> QED
    BY <1>1, <2>1, <2>2 DEF TypeOK, TurnHead, ServerChange, locals, tracker
<1>2. ASSUME NEW t \in Threads, Reset(t)  PROVE TypeOK'
  BY <1>2, Constants DEF TypeOK, Reset, StoreOffset, Forget, Whim, locals
<1>3. ASSUME Ypr \/ Rotation  PROVE TypeOK'
  BY <1>3 DEF TypeOK, Ypr, Rotation, Begin, Threads, Pcs, env, tracker
<1>4. ASSUME RecvFails  PROVE TypeOK'
  BY <1>4, Constants DEF TypeOK, RecvFails, Whim, Threads, Pcs, locals, tracker
<1>5. ASSUME ImuType  PROVE TypeOK'
  BY <1>5, Constants DEF TypeOK, ImuType, Forget, Whim, locals
<1>6. ASSUME Connect \/ Disconnect  PROVE TypeOK'
  BY <1>6 DEF TypeOK, Connect, Disconnect, env, locals, tracker
<1>7. ASSUME UNCHANGED vars  PROVE TypeOK'
  BY <1>7 DEF TypeOK, vars
<1> QED
  BY <1>1, <1>2, <1>3, <1>4, <1>5, <1>6, <1>7, CorrectType DEF Next

\* Every variable keeps to its type, for circles, zones, speeds and multipliers of
\* any size; the stored offset is an integer, wrapped or not.
THEOREM TypeCorrect == Spec => []TypeOK
BY InitType, TypeKept, PTL DEF Spec

-----------------------------------------------------------------------------
(* A correction that the other thread leaves alone *)

Goal(t) == Target(WrapBoth(raw[t] - from[t]))

\* How far thread t is with a correction it began at the offset from[t]: until its
\* first store the offset is that one, after it the offset goes where the correction
\* takes it, by whole turns only.
Alone(t) ==
  /\ pc[t] \in {"recv", "look", "zero", "ended"} => ~ lone[t]
  /\ lone[t] =>
       /\ pc[t] \in {"measure", "rate"} => offset = from[t] /\ target[t] = Goal(t)
       /\ pc[t] = "rate" => val[t] = WrapBoth(raw[t] - Goal(t) - from[t])
       /\ pc[t] = "add" => /\ Same(offset + val[t], Moved(raw[t], from[t], mult))
                           /\ loop[t] = "up" => offset + val[t] <= Half
       /\ pc[t] = "put" => /\ Same(val[t], Moved(raw[t], from[t], mult))
                           /\ loop[t] = "up" => val[t] <= Half
       /\ pc[t] \in {"test", "time"} => Same(offset, Moved(raw[t], from[t], mult))
       /\ pc[t] = "test" => (loop[t] = "up" => offset <= Half)
       /\ pc[t] = "time" => offset \in Yaws

\* A step that leaves the thread where it is ...
Unmoved(t) ==
  /\ pc'[t] = pc[t] /\ raw'[t] = raw[t] /\ target'[t] = target[t]
  /\ val'[t] = val[t] /\ loop'[t] = loop[t]

\* ... and what its correction rests on.
Untouched(t) ==
  lone'[t] = lone[t] /\ from'[t] = from[t] /\ offset' = offset /\ mult' = mult

LEMMA MovedIsInt ==
  ASSUME TypeOK, NEW t \in Threads
  PROVE  Moved(raw[t], from[t], mult) \in Int
<1>1. raw[t] \in Int /\ from[t] \in Int /\ mult \in Nat
  BY ZeroIsYaw, Constants DEF TypeOK
<1>2. WrapBoth(raw[t] - from[t]) \in Int
  BY <1>1, WrapBothKeepsDirection, Constants
<1>3. Target(WrapBoth(raw[t] - from[t])) \in Int
  BY <1>2, TargetIsYaw, ZeroIsYaw
<1>4. Rate(Target(WrapBoth(raw[t] - from[t])), mult) \in Nat
  BY <1>1, <1>3, RateIsBounded
<1> QED
  BY <1>1, <1>3, <1>4 DEF Moved

\* Such a step keeps Alone, and so does one that ends the claim to have been alone.
LEMMA AloneStays ==
  ASSUME NEW t \in Threads, Alone(t), Unmoved(t), ~ lone'[t] \/ Untouched(t)
  PROVE  Alone(t)'
<1>1. CASE ~ lone'[t]
  BY <1>1 DEF Alone, Unmoved
<1>2. CASE Untouched(t)
  BY <1>2 DEF Alone, Goal, Unmoved, Untouched
<1> QED
  BY <1>1, <1>2

\* The other thread.
LEMMA OtherAlone ==
  ASSUME TypeOK, NEW t \in Threads, NEW u \in Threads \ {t}, Correct(u), Alone(t)
  PROVE  Alone(t)'
<1>1. ASSUME Zero(u)
      PROVE  ~ lone'[t] /\ Unmoved(t)
  BY <1>1 DEF TypeOK, Unmoved, Zero, StoreOffset, Forget, Goto, locals
<1>2. ASSUME Put(u)
      PROVE  ~ lone'[t] /\ Unmoved(t)
  BY <1>2 DEF TypeOK, Unmoved, Put, StoreOffset, Forget, Goto
<1>3. ASSUME NEW usable \in BOOLEAN, Look(u, usable)
      PROVE  Unmoved(t) /\ Untouched(t)
  BY <1>3 DEF TypeOK, Unmoved, Untouched, Look, Goto, locals, tracker
<1>4. ASSUME Aim(u)
      PROVE  Unmoved(t) /\ Untouched(t)
  BY <1>4 DEF TypeOK, Unmoved, Untouched, Aim, Goto
<1>5. ASSUME Measure(u)
      PROVE  Unmoved(t) /\ Untouched(t)
  BY <1>5 DEF TypeOK, Unmoved, Untouched, Measure, Goto, tracker
<1>6. ASSUME SetRate(u)
      PROVE  Unmoved(t) /\ Untouched(t)
  BY <1>6 DEF TypeOK, Unmoved, Untouched, SetRate, Goto, tracker
<1>7. ASSUME Add(u)
      PROVE  Unmoved(t) /\ Untouched(t)
  BY <1>7 DEF TypeOK, Unmoved, Untouched, Add, Goto, tracker
<1>8. ASSUME Test(u)
      PROVE  Unmoved(t) /\ Untouched(t)
  BY <1>8 DEF TypeOK, Unmoved, Untouched, Test, Goto, tracker
<1>9. ASSUME StoreTime(u)
      PROVE  Unmoved(t) /\ Untouched(t)
  BY <1>9 DEF TypeOK, Unmoved, Untouched, StoreTime, Goto, locals
<1>10. ASSUME StoreYaw(u)
       PROVE  Unmoved(t) /\ Untouched(t)
  BY <1>10 DEF TypeOK, Unmoved, Untouched, StoreYaw, Finish, Forget, Goto
<1> QED
  BY <1>1, <1>2, <1>3, <1>4, <1>5, <1>6, <1>7, <1>8, <1>9, <1>10, AloneStays
  DEF Correct

\* The thread itself, from the choice of the target to the end of the wrapping.
LEMMA AimAlone ==
  ASSUME TypeOK, NEW t \in Threads, Aim(t)
  PROVE  Alone(t)'
BY DEF TypeOK, Aim, Goto, Alone, Goal

LEMMA MeasureAlone ==
  ASSUME TypeOK, NEW t \in Threads, Measure(t), Alone(t)
  PROVE  Alone(t)'
BY DEF TypeOK, Measure, Goto, tracker, Alone, Goal

LEMMA SetRateAlone ==
  ASSUME TypeOK, NEW t \in Threads, SetRate(t), Alone(t)
  PROVE  Alone(t)'
<1> DEFINE moved == Moved(raw[t], from[t], mult)
<1>1. /\ raw' = raw /\ offset' = offset /\ mult' = mult
      /\ lone' = lone /\ from' = from /\ pc'[t] \in {"put", "add"}
      /\ loop'[t] = "down"
  BY DEF TypeOK, SetRate, Goto, tracker
<1>2. ASSUME lone[t]
      PROVE  /\ pc'[t] = "put" => val'[t] = moved
             /\ pc'[t] = "add" => offset + val'[t] = moved
  <2>1. /\ offset = from[t] /\ target[t] = Goal(t)
        /\ val[t] = WrapBoth(raw[t] - Goal(t) - from[t])
    BY <1>2 DEF Alone, SetRate
  <2>2. raw[t] \in Int /\ offset \in Int /\ target[t] \in Int /\ val[t] \in Int
    BY ZeroIsYaw DEF TypeOK
  <2>3. Rate(target[t], mult) \in Nat
    <3>1. mult \in Nat
      BY Constants DEF TypeOK
    <3> QED
      BY <2>2, <3>1, RateIsBounded
  <2>4. moved = IF Dist(val[t]) <= Rate(target[t], mult) THEN raw[t] - target[t]
                ELSE IF val[t] > 0 THEN offset + Rate(target[t], mult)
                                   ELSE offset - Rate(target[t], mult)
    BY <2>1 DEF Moved, Goal
  <2> HIDE DEF moved
  <2>5. CASE Dist(val[t]) <= Rate(target[t], mult)
    BY <2>4, <2>5 DEF TypeOK, SetRate, Goto
  <2>6. CASE ~ Dist(val[t]) <= Rate(target[t], mult)
    <3>1. pc'[t] = "add" /\ val'[t] = IF val[t] > 0 THEN Rate(target[t], mult)
                                      ELSE - Rate(target[t], mult)
      BY <2>6 DEF TypeOK, SetRate, Goto
    <3> QED
      BY <2>2, <2>3, <2>4, <2>6, <3>1
  <2> QED
    BY <2>5, <2>6
<1>3. moved \in Int
  BY MovedIsInt DEF TypeOK
<1> QED
  BY <1>1, <1>2, <1>3, SameItself DEF Alone

LEMMA AddAlone ==
  ASSUME TypeOK, NEW t \in Threads, Add(t), Alone(t)
  PROVE  Alone(t)'
BY DEF TypeOK, Add, Goto, tracker, Alone

LEMMA PutAlone ==
  ASSUME TypeOK, NEW t \in Threads, Put(t), Alone(t)
  PROVE  Alone(t)'
BY DEF TypeOK, Put, StoreOffset, Forget, Goto, Alone

\* A whole turn more or less does not change where the offset goes.
LEMMA TestAlone ==
  ASSUME TypeOK, NEW t \in Threads, Test(t), Alone(t)
  PROVE  Alone(t)'
<1> DEFINE moved == Moved(raw[t], from[t], mult)
<1>1. /\ raw' = raw /\ offset' = offset /\ mult' = mult
      /\ lone' = lone /\ from' = from
  BY DEF Test, tracker
<1>2. offset \in Int /\ moved \in Int
  BY MovedIsInt DEF TypeOK
<1>3. lone[t] => Same(offset, moved) /\ (loop[t] = "up" => offset <= Half)
  BY DEF Alone, Test
<1> HIDE DEF moved
<1>4. ASSUME lone[t], NEW d \in {- 2 * Half, 2 * Half}
      PROVE  Same(offset + d, moved)
  <2>1. PICK k \in Int : offset = moved + k * (2 * Half)
    BY <1>3, <1>4 DEF Same
  <2>2. \/ offset + d = moved + (k + 1) * (2 * Half)
        \/ offset + d = moved + (k - 1) * (2 * Half)
    BY <1>2, <2>1, Constants
  <2> QED
    BY <2>2 DEF Same
<1>5. CASE pc'[t] = "add"
  <2>1. \/ val'[t] = - 2 * Half /\ loop'[t] = "down"
        \/ val'[t] = 2 * Half /\ loop'[t] = "up" /\ offset <= - Half
    BY <1>5 DEF TypeOK, Test, Goto
  <2>2. lone[t] => Same(offset + val'[t], moved)
    BY <1>4, <2>1
  <2>3. loop'[t] = "up" => offset + val'[t] <= Half
    BY <1>2, <2>1, Constants
  <2> QED
    BY <1>1, <1>5, <2>2, <2>3 DEF Alone, moved
<1>6. CASE pc'[t] = "test"
  <2>1. loop'[t] = "up" => offset <= Half
    BY <1>2, <1>6, Constants DEF TypeOK, Test, Goto
  <2> QED
    BY <1>1, <1>3, <1>6, <2>1 DEF Alone, moved
<1>7. CASE pc'[t] = "time"
  <2>1. loop[t] = "up" /\ ~ offset <= - Half
    BY <1>7 DEF TypeOK, Test, Goto
  <2>2. lone[t] => offset \in Yaws
    BY <1>2, <1>3, <2>1, Constants DEF Yaws
  <2> QED
    BY <1>1, <1>3, <1>7, <2>2 DEF Alone, moved
<1> QED
  BY <1>5, <1>6, <1>7 DEF TypeOK, Test, Goto

LEMMA SelfAlone ==
  ASSUME TypeOK, NEW t \in Threads, Correct(t), Alone(t)
  PROVE  Alone(t)'
<1>1. ASSUME NEW usable \in BOOLEAN, Look(t, usable)
      PROVE  Alone(t)'
  <2>1. ~ lone[t] /\ lone' = lone /\ pc'[t] \in {"time", "zero", "aim"}
    BY <1>1 DEF TypeOK, Alone, Look, Goto, tracker
  <2> QED
    BY <2>1 DEF Alone
<1>2. ASSUME Zero(t)
      PROVE  Alone(t)'
  BY <1>2 DEF TypeOK, Alone, Zero, StoreOffset, Forget, Goto
<1>3. ASSUME StoreTime(t)
      PROVE  Alone(t)'
  BY <1>3 DEF TypeOK, Alone, StoreTime, Goto, locals
<1>4. ASSUME StoreYaw(t)
      PROVE  Alone(t)'
  BY <1>4 DEF TypeOK, Alone, StoreYaw, Finish, Forget, Goto
<1> QED
  BY <1>1, <1>2, <1>3, <1>4, AimAlone, MeasureAlone, SetRateAlone, AddAlone,
     PutAlone, TestAlone DEF Correct

\* Every other step.
LEMMA RestAlone ==
  ASSUME TypeOK, [Next]_vars, ~ \E u \in Threads : Correct(u),
         NEW t \in Threads, Alone(t)
  PROVE  Alone(t)'
<1>1. ASSUME TurnHead \/ ServerChange \/ Connect \/ Disconnect \/ UNCHANGED vars
      PROVE  Unmoved(t) /\ Untouched(t)
  BY <1>1 DEF Unmoved, Untouched, TurnHead, ServerChange, Connect, Disconnect,
              vars, locals, tracker
<1>2. ASSUME NEW u \in Threads, Reset(u)
      PROVE  Unmoved(t) /\ ~ lone'[t]
  BY <1>2 DEF Alone, Unmoved, Reset, StoreOffset, Forget, locals
<1>3. ASSUME ImuType
      PROVE  Unmoved(t) /\ ~ lone'[t]
  BY <1>3 DEF Unmoved, ImuType, Forget, locals
<1>4. ASSUME NEW u \in Threads, pc[u] = "recv", Begin(u), UNCHANGED tracker
      PROVE  Alone(t)'
  <2>1. CASE u = t
    <3>1. ~ lone'[t] /\ pc'[t] = "look"
      BY <1>4, <2>1 DEF TypeOK, Alone, Begin, tracker
    <3> QED
      BY <3>1 DEF Alone
  <2>2. CASE u # t
    BY <1>4, <2>2, AloneStays DEF TypeOK, Unmoved, Untouched, Begin, tracker
  <2> QED
    BY <2>1, <2>2
<1>5. ASSUME RecvFails
      PROVE  Alone(t)'
  <2>1. CASE t = "osc"
    BY <1>5, <2>1 DEF TypeOK, Alone, RecvFails, tracker
  <2>2. CASE t # "osc"
    BY <1>5, <2>2, AloneStays DEF TypeOK, Unmoved, Untouched, RecvFails, locals, tracker
  <2> QED
    BY <2>1, <2>2
<1>6. ASSUME Ypr \/ Rotation
      PROVE  Alone(t)'
  BY <1>4, <1>6 DEF Ypr, Rotation, Threads
<1> QED
  BY <1>1, <1>2, <1>3, <1>5, <1>6, AloneStays DEF Next

LEMMA AloneKept ==
  TypeOK /\ [Next]_vars /\ (\A t \in Threads : Alone(t)) => \A t \in Threads : Alone(t)'
<1> SUFFICES ASSUME TypeOK, [Next]_vars, \A t \in Threads : Alone(t),
                    NEW t \in Threads
             PROVE  Alone(t)'
  OBVIOUS
<1>1. CASE Correct(t)
  BY <1>1, SelfAlone
<1>2. ASSUME NEW u \in Threads \ {t}, Correct(u)
      PROVE  Alone(t)'
  BY <1>2, OtherAlone
<1>3. CASE ~ \E u \in Threads : Correct(u)
  BY <1>3, RestAlone
<1> QED
  BY <1>1, <1>2, <1>3

\* Left alone by the other thread, no correction jumps, none turns the view away
\* from its target, and each leaves the offset wrapped.
THEOREM GentleDrift == Spec => []DriftIsGentle
<1> DEFINE AllAlone == \A t \in Threads : Alone(t)
<1>1. Init => AllAlone
  BY DEF Init, Alone
<1>2. TypeOK /\ AllAlone /\ [Next]_vars => AllAlone'
  BY AloneKept
<1>3. TypeOK /\ AllAlone => DriftIsGentle
  <2> SUFFICES ASSUME TypeOK, AllAlone, NEW t \in Threads, pc[t] = "time", lone[t]
               PROVE  LET goal == Target(WrapBoth(raw[t] - from[t]))
                      IN  /\ offset \in Yaws
                          /\ Arc(offset, from[t]) <= 3 * Speed * mult
                          /\ Arc(offset, from[t]) > 0 =>
                               Arc(raw[t] - offset, goal) < Arc(raw[t] - from[t], goal)
    BY DEF DriftIsGentle
  <2>1. offset \in Yaws /\ Same(offset, Moved(raw[t], from[t], mult))
    BY DEF Alone
  <2>2. raw[t] \in Yaws /\ from[t] \in Int /\ mult \in Nat /\ offset \in Int
    BY Constants DEF TypeOK
  <2> QED
    BY <2>1, <2>2, PullIsGentle
<1> QED
  BY <1>1, <1>2, <1>3, TypeCorrect, PTL DEF Spec

=============================================================================
