-------------------------- MODULE IpcSession_proofs --------------------------
(***************************************************************************)
(* Theorems of IpcSession for every size of ring, period and bound, as     *)
(* long as a start of the bridge is not denied its own block.              *)
(***************************************************************************)
EXTENDS IpcSession, SequenceTheorems, WellFoundedInduction, TLAPS

-----------------------------------------------------------------------------
(* Operators on ages *)

LEMMA Constants ==
  /\ P \in Nat /\ P >= 1 /\ Room \in Nat /\ Room >= 1
  /\ Old \in Nat /\ Old > P /\ 0 \in Ages /\ Old \in Ages
  /\ Room * P \in Nat /\ P <= Room * P
<1>1. P \in Nat /\ P >= 1 /\ Room \in Nat /\ Room >= 1 /\ Old \in Nat /\ Old > P
  BY SessionAssumption
<1>2. 0 \in Ages /\ Old \in Ages
  BY <1>1 DEF Ages
<1>3. Room * P \in Nat /\ P <= Room * P
  <2>1. Room * P = (Room - 1) * P + P
    BY <1>1
  <2>2. (Room - 1) * P \in Nat
    BY <1>1
  <2> QED
    BY <1>1, <2>1, <2>2
<1> QED
  BY <1>1, <1>2, <1>3

\* Older keeps to the ages and keeps their order.
LEMMA OlderOrder ==
  ASSUME NEW a \in Ages, NEW b \in Ages
  PROVE  /\ Older(a) \in Ages
         /\ a <= b => Older(a) <= Older(b)
BY Constants DEF Older, Ages

LEMMA AllOlderType ==
  ASSUME NEW ages \in Seq(Ages)
  PROVE  /\ AllOlder(ages) \in Seq(Ages)
         /\ Len(AllOlder(ages)) = Len(ages)
         /\ DOMAIN AllOlder(ages) = DOMAIN ages
         /\ \A k \in DOMAIN ages : AllOlder(ages)[k] = Older(ages[k])
<1>1. DOMAIN ages = 1 .. Len(ages) /\ Len(ages) \in Nat
  OBVIOUS
<1>2. \A k \in 1 .. Len(ages) : ages[k] \in Ages
  OBVIOUS
<1>3. \A k \in 1 .. Len(ages) : Older(ages[k]) \in Ages
  BY <1>2, OlderOrder
<1>4. AllOlder(ages) = [k \in 1 .. Len(ages) |-> Older(ages[k])]
  BY <1>1 DEF AllOlder
<1> QED
  BY <1>1, <1>3, <1>4

LEMMA LastType ==
  ASSUME NEW ages \in Seq(Ages), NEW n \in Nat, n <= Len(ages)
  PROVE  /\ Last(ages, n) \in Seq(Ages)
         /\ Len(Last(ages, n)) = n
         /\ \A k \in DOMAIN Last(ages, n) : \E j \in DOMAIN ages : Last(ages, n)[k] = ages[j]
<1> DEFINE m == Len(ages) - n + 1
<1>1. m \in Nat /\ m >= 1 /\ Len(ages) \in Nat /\ Len(ages) - m + 1 = n
  OBVIOUS
<1>2. Last(ages, n) = SubSeq(ages, m, Len(ages))
  BY DEF Last
<1>3. /\ Last(ages, n) \in Seq(Ages) /\ Len(Last(ages, n)) = n
      /\ \A k \in 1 .. n : Last(ages, n)[k] = ages[m + k - 1]
  BY <1>1, <1>2
<1>4. \A k \in 1 .. n : m + k - 1 \in DOMAIN ages
  BY <1>1
<1>5. DOMAIN Last(ages, n) = 1 .. n
  BY <1>3
<1> HIDE DEF m
<1> QED
  BY <1>3, <1>4, <1>5

LEMMA EmptyType == << >> \in Seq(Ages) /\ Len(<< >>) = 0 /\ Len(<< >>) <= Room
BY Constants

LEMMA NoneOlder == AllOlder(<< >>) = << >>
BY DEF AllOlder

LEMMA SilenceType ==
  ASSUME NEW n \in Nat
  PROVE  Silence(n) \in Seq(Ages) /\ Len(Silence(n)) = n
BY Constants DEF Silence

LEMMA UnitsType ==
  ASSUME NEW b \in Ages
  PROVE  Units(b) \in Seq(Ages)
<1>1. \A j \in 1 .. P : (IF b + P - j < Old THEN b + P - j ELSE Old) \in Ages
  BY Constants DEF Ages
<1> QED
  BY <1>1, Constants DEF Units

\* What Fill does to fromHost and tail.
LEMMA FillType ==
  ASSUME RingsOK, NEW units \in Seq(Ages), Fill(units)
  PROVE  /\ fromHost' \in Seq(Ages) /\ Len(fromHost') <= Room * P
         /\ Len(fromHost') >= Len(fromHost)
         /\ tail' \in Seq(Ages) /\ Len(tail') = P
<1> DEFINE room == Room * P - Len(fromHost)
           len  == IF room < Len(units) THEN room ELSE Len(units)
           new  == SubSeq(units, 1, len)
<1>1. /\ fromHost \in Seq(Ages) /\ Len(fromHost) <= Room * P
      /\ tail \in Seq(Ages) /\ Len(tail) = P
  BY DEF RingsOK
<1>2. room \in Nat /\ len \in Nat /\ len <= room /\ len <= Len(units)
  BY <1>1, Constants
<1>3. new \in Seq(Ages) /\ Len(new) = len
  BY <1>2
<1>4. fromHost' = fromHost \o new /\ tail' = Last(tail \o new, P)
  BY DEF Fill
<1> HIDE DEF new, len, room
<1>5. tail \o new \in Seq(Ages) /\ Len(tail \o new) = P + len
  BY <1>1, <1>2, <1>3, ConcatProperties
<1>6. tail' \in Seq(Ages) /\ Len(tail') = P
  <2>1. P <= Len(tail \o new)
    BY <1>2, <1>5, Constants
  <2> QED
    BY <1>4, <1>5, <2>1, LastType, Constants
<1>7. fromHost \o new \in Seq(Ages) /\ Len(fromHost \o new) = Len(fromHost) + len
  BY <1>1, <1>2, <1>3, ConcatProperties
<1>8. Len(fromHost) + len <= Room * P /\ Len(fromHost) + len >= Len(fromHost)
  BY <1>1, <1>2, Constants DEF room
<1> QED
  BY <1>4, <1>6, <1>7, <1>8

-----------------------------------------------------------------------------
(* Operators on ages in order *)

\* There is a lowest age, and it is one of them.
LEMMA LowestAge ==
  ASSUME NEW ages \in SUBSET Ages, ages # {}
  PROVE  /\ Lowest(ages) \in ages
         /\ \A a \in ages : Lowest(ages) <= a
<1>1. ages \in SUBSET Nat
  BY Constants DEF Ages
<1> DEFINE less == OpToRel(<, Nat)
<1>2. IsWellFoundedOn(less, Nat)
  BY NatLessThanWellFounded
<1>3. \A a, b \in Nat : <<b, a>> \in less <=> b < a
  BY DEF OpToRel
<1> HIDE DEF less
<1>4. \E a \in ages : \A b \in ages : <<b, a>> \notin less
  BY <1>1, <1>2, WFMin
<1>5. PICK a \in ages : \A b \in ages : <<b, a>> \notin less
  BY <1>4
<1>6. ASSUME NEW b \in ages
      PROVE  a <= b
  <2>1. a \in Nat /\ b \in Nat
    BY <1>1
  <2>2. ~ (b < a)
    BY <1>3, <1>5, <2>1, Zenon
  <2> QED
    BY <2>1, <2>2
<1> QED
  BY <1>6 DEF Lowest

\* Units get older together.
LEMMA OlderFacts ==
  ASSUME NEW a \in Ages, NEW b \in Ages
  PROVE  /\ Older(a) \in Ages /\ Older(a) >= a /\ Older(a) >= Older(0)
         /\ Older(a) < Old => Older(a) = a + P /\ a < Old
         /\ a >= b => Older(a) >= Older(b)
         /\ a > b /\ Older(b) < Old => Older(a) > Older(b)
BY Constants DEF Older, Ages

LEMMA OlderKeepsOrder ==
  ASSUME NEW x \in Seq(Ages)
  PROVE  /\ InOrder(x) => InOrder(AllOlder(x))
         /\ Before(AllOlder(x), 0)
         /\ \A b \in Ages : Before(x, b) => Before(AllOlder(x), Older(b))
         /\ \A h \in Ages : (\A k \in DOMAIN x : x[k] < Old => x[k] < h)
              => \A k \in DOMAIN AllOlder(x) : AllOlder(x)[k] < Old => AllOlder(x)[k] < Older(h)
<1>1. /\ DOMAIN AllOlder(x) = DOMAIN x /\ DOMAIN x = 1 .. Len(x) /\ Len(x) \in Nat
      /\ \A k \in DOMAIN x : x[k] \in Ages /\ AllOlder(x)[k] = Older(x[k])
  BY AllOlderType
<1>2. InOrder(x) => InOrder(AllOlder(x))
  <2> SUFFICES ASSUME InOrder(x), NEW k \in DOMAIN x, Older(x[k]) < Old, NEW j \in 1 .. k - 1
               PROVE  Older(x[j]) > Older(x[k])
    BY <1>1 DEF InOrder
  <2>1. j \in DOMAIN x /\ x[k] < Old
    BY <1>1, OlderFacts
  <2>2. x[j] > x[k]
    BY <2>1 DEF InOrder
  <2> QED
    BY <1>1, <2>1, <2>2, OlderFacts
<1>3. Before(AllOlder(x), 0)
  BY <1>1, OlderFacts, Constants DEF Before
<1>4. ASSUME NEW b \in Ages, Before(x, b)
      PROVE  Before(AllOlder(x), Older(b))
  BY <1>1, <1>4, OlderFacts DEF Before
<1>5. ASSUME NEW h \in Ages, \A k \in DOMAIN x : x[k] < Old => x[k] < h,
             NEW k \in DOMAIN x, Older(x[k]) < Old
      PROVE  Older(x[k]) < Older(h)
  BY <1>1, <1>5, OlderFacts
<1> QED
  BY <1>1, <1>2, <1>3, <1>4, <1>5

\* A part of what is in order is in order.
LEMMA PartInOrder ==
  ASSUME NEW x \in Seq(Ages), NEW m \in 1 .. Len(x) + 1
  PROVE  LET y == SubSeq(x, m, Len(x)) IN
         /\ y \in Seq(Ages) /\ Len(y) = Len(x) + 1 - m
         /\ \A k \in DOMAIN y : k + m - 1 \in DOMAIN x /\ y[k] = x[k + m - 1]
         /\ InOrder(x) => InOrder(y)
         /\ \A b : Before(x, b) => Before(y, b)
<1> DEFINE y == SubSeq(x, m, Len(x))
<1>1. /\ y \in Seq(Ages) /\ Len(y) = Len(x) + 1 - m /\ Len(x) \in Nat
      /\ DOMAIN x = 1 .. Len(x) /\ DOMAIN y = 1 .. Len(x) + 1 - m
      /\ \A k \in 1 .. Len(x) + 1 - m : y[k] = x[k + m - 1]
  BY SubSeqProperties
<1>2. \A k \in DOMAIN y : k + m - 1 \in DOMAIN x /\ y[k] = x[k + m - 1]
  BY <1>1
<1> HIDE DEF y
<1>3. ASSUME InOrder(x)  PROVE InOrder(y)
  <2> SUFFICES ASSUME NEW k \in DOMAIN y, y[k] < Old, NEW j \in 1 .. k - 1
               PROVE  y[j] > y[k]
    BY DEF InOrder
  <2>1. j \in DOMAIN y /\ j + m - 1 \in 1 .. (k + m - 1) - 1
    BY <1>1
  <2> QED
    BY <1>2, <1>3, <2>1 DEF InOrder
<1>4. ASSUME NEW b, Before(x, b)  PROVE Before(y, b)
  BY <1>2, <1>4 DEF Before
<1> QED
  BY <1>1, <1>2, <1>3, <1>4 DEF y

\* So is what is put behind something older, ...
LEMMA JoinInOrder ==
  ASSUME NEW x \in Seq(Ages), NEW y \in Seq(Ages), InOrder(x), InOrder(y),
         \A k \in DOMAIN y : y[k] < Old => \A j \in DOMAIN x : x[j] > y[k]
  PROVE  InOrder(x \o y)
<1>1. /\ x \o y \in Seq(Ages) /\ Len(x) \in Nat /\ Len(y) \in Nat
      /\ DOMAIN x = 1 .. Len(x) /\ DOMAIN y = 1 .. Len(y)
      /\ DOMAIN (x \o y) = 1 .. Len(x) + Len(y)
      /\ \A k \in 1 .. Len(x) + Len(y) :
           (x \o y)[k] = IF k <= Len(x) THEN x[k] ELSE y[k - Len(x)]
  BY ConcatProperties
<1> SUFFICES ASSUME NEW k \in DOMAIN (x \o y), (x \o y)[k] < Old, NEW j \in 1 .. k - 1
             PROVE  (x \o y)[j] > (x \o y)[k]
  BY DEF InOrder
<1>2. j \in 1 .. Len(x) + Len(y)
  BY <1>1
<1>3. CASE k <= Len(x)
  BY <1>1, <1>2, <1>3 DEF InOrder
<1>4. CASE k > Len(x) /\ j <= Len(x)
  <2>1. k - Len(x) \in DOMAIN y /\ j \in DOMAIN x
    BY <1>1, <1>4
  <2> QED
    BY <1>1, <1>2, <1>4, <2>1
<1>5. CASE k > Len(x) /\ j > Len(x)
  <2>1. k - Len(x) \in DOMAIN y /\ j - Len(x) \in 1 .. (k - Len(x)) - 1
    BY <1>1, <1>5
  <2> QED
    BY <1>1, <1>2, <1>5, <2>1 DEF InOrder
<1> QED
  BY <1>1, <1>2, <1>3, <1>4, <1>5

\* ... and the first units of what is in order.
LEMMA FirstInOrder ==
  ASSUME NEW x \in Seq(Ages), NEW n \in 0 .. Len(x)
  PROVE  LET y == SubSeq(x, 1, n) IN
         /\ y \in Seq(Ages) /\ Len(y) = n
         /\ \A k \in DOMAIN y : k \in DOMAIN x /\ y[k] = x[k]
         /\ InOrder(x) => InOrder(y)
BY DEF InOrder

\* The units of a block are in order, and younger than what was before it.
LEMMA UnitsInOrder ==
  ASSUME NEW b \in Ages
  PROVE  /\ Units(b) \in Seq(Ages) /\ InOrder(Units(b))
         /\ \A k \in DOMAIN Units(b) : Units(b)[k] >= b
         /\ \A a \in Ages : a >= Older(b) =>
              \A k \in DOMAIN Units(b) : Units(b)[k] < Old => Units(b)[k] < a
<1>1. Units(b) \in Seq(Ages)
  BY UnitsType
<1>2. DOMAIN Units(b) = 1 .. P
  BY Constants DEF Units
<1>3. \A k \in 1 .. P : Units(b)[k] = IF b + P - k < Old THEN b + P - k ELSE Old
  BY DEF Units
<1>4. b \in Nat /\ b <= Old
  BY Constants DEF Ages
<1> QED
  BY <1>1, <1>2, <1>3, <1>4, Constants DEF InOrder, Older, Ages

LEMMA SilenceInOrder ==
  ASSUME NEW n \in Nat
  PROVE  /\ Silence(n) \in Seq(Ages)
         /\ \A k \in DOMAIN Silence(n) : Silence(n)[k] = Old
         /\ InOrder(Silence(n))
         /\ \A b \in Ages : Before(Silence(n), b)
<1>1. Silence(n) \in Seq(Ages)
  BY SilenceType
<1>2. \A k \in DOMAIN Silence(n) : Silence(n)[k] = Old
  BY DEF Silence
<1> QED
  BY <1>1, <1>2, Constants, OlderOrder DEF InOrder, Before, Ages

\* What Fill makes of the order: fromHost and tail may be followed by units that
\* are younger.
LEMMA FillInOrder ==
  ASSUME RingsOK, InOrder(fromHost), InOrder(tail), NEW units \in Seq(Ages), Fill(units),
         InOrder(units),
         \A k \in DOMAIN units : units[k] < Old =>
           /\ \A j \in DOMAIN fromHost : fromHost[j] > units[k]
           /\ \A j \in DOMAIN tail : tail[j] > units[k]
  PROVE  /\ InOrder(fromHost') /\ InOrder(tail')
         /\ \A k \in DOMAIN fromHost' : \/ \E j \in DOMAIN fromHost : fromHost'[k] = fromHost[j]
                                        \/ \E j \in DOMAIN units : fromHost'[k] = units[j]
         /\ \A k \in DOMAIN tail' : \/ \E j \in DOMAIN tail : tail'[k] = tail[j]
                                    \/ \E j \in DOMAIN units : tail'[k] = units[j]
<1> DEFINE room == Room * P - Len(fromHost)
           len  == IF room < Len(units) THEN room ELSE Len(units)
           new  == SubSeq(units, 1, len)
           long == tail \o new
<1>1. /\ fromHost \in Seq(Ages) /\ Len(fromHost) <= Room * P
      /\ tail \in Seq(Ages) /\ Len(tail) = P
  BY DEF RingsOK
<1>2. len \in 0 .. Len(units)
  BY <1>1, Constants
<1>3. fromHost' = fromHost \o new /\ tail' = Last(long, P)
  BY DEF Fill
<1> HIDE DEF len
<1>4. /\ new \in Seq(Ages) /\ InOrder(new)
      /\ \A k \in DOMAIN new : k \in DOMAIN units /\ new[k] = units[k]
  BY <1>2, FirstInOrder
<1> HIDE DEF new
<1>5. InOrder(fromHost \o new) /\ InOrder(long)
  BY <1>1, <1>4, JoinInOrder
<1>6. /\ \A k \in DOMAIN (fromHost \o new) :
           \/ \E j \in DOMAIN fromHost : (fromHost \o new)[k] = fromHost[j]
           \/ \E j \in DOMAIN units : (fromHost \o new)[k] = units[j]
      /\ long \in Seq(Ages) /\ Len(long) >= P
      /\ \A k \in DOMAIN long :
           \/ \E j \in DOMAIN tail : long[k] = tail[j]
           \/ \E j \in DOMAIN units : long[k] = units[j]
  <2>1. ASSUME NEW x \in Seq(Ages)
        PROVE  /\ x \o new \in Seq(Ages) /\ Len(x \o new) >= Len(x)
               /\ \A k \in DOMAIN (x \o new) :
                    \/ \E j \in DOMAIN x : (x \o new)[k] = x[j]
                    \/ \E j \in DOMAIN units : (x \o new)[k] = units[j]
    <3>1. /\ x \o new \in Seq(Ages) /\ Len(x) \in Nat /\ Len(new) \in Nat
          /\ Len(x \o new) = Len(x) + Len(new)
          /\ DOMAIN x = 1 .. Len(x) /\ DOMAIN new = 1 .. Len(new)
          /\ DOMAIN (x \o new) = 1 .. Len(x) + Len(new)
          /\ \A k \in 1 .. Len(x) + Len(new) :
               (x \o new)[k] = IF k <= Len(x) THEN x[k] ELSE new[k - Len(x)]
      BY <1>4, ConcatProperties
    <3>2. \A k \in 1 .. Len(x) + Len(new) : k > Len(x) => k - Len(x) \in DOMAIN new
      BY <3>1
    <3> QED
      BY <1>4, <3>1, <3>2
  <2> QED
    BY <1>1, <2>1
<1> HIDE DEF long
<1>7. /\ InOrder(Last(long, P))
      /\ \A k \in DOMAIN Last(long, P) : \E j \in DOMAIN long : Last(long, P)[k] = long[j]
  <2>1. Len(long) - P + 1 \in 1 .. Len(long) + 1
    BY <1>6, Constants
  <2> QED
    BY <1>5, <1>6, <2>1, PartInOrder DEF Last
<1>8. ASSUME NEW k \in DOMAIN Last(long, P)
      PROVE  \/ \E j \in DOMAIN tail : Last(long, P)[k] = tail[j]
             \/ \E j \in DOMAIN units : Last(long, P)[k] = units[j]
  <2>1. PICK i \in DOMAIN long : Last(long, P)[k] = long[i]
    BY <1>7
  <2> QED
    BY <1>6, <2>1
<1>9. InOrder(fromHost') /\ InOrder(tail')
  BY <1>3, <1>5, <1>7
<1>10. \A k \in DOMAIN fromHost' : \/ \E j \in DOMAIN fromHost : fromHost'[k] = fromHost[j]
                                  \/ \E j \in DOMAIN units : fromHost'[k] = units[j]
  BY <1>3, <1>6
<1>11. \A k \in DOMAIN tail' : \/ \E j \in DOMAIN tail : tail'[k] = tail[j]
                               \/ \E j \in DOMAIN units : tail'[k] = units[j]
  BY <1>3, <1>8
<1> QED
  BY <1>9, <1>10, <1>11

-----------------------------------------------------------------------------
(* Preservation, conjunct by conjunct *)

LEMMA ControlKept ==
  ASSUME ControlOK, [Next]_vars
  PROVE  ControlOK'
<1> USE DEF ControlOK, Using, Starting, block, rings, claim, instance, bridge, history, vars
<1>1. CASE Create
  BY <1>1 DEF Create
<1>2. CASE LockForProcess
  BY <1>2 DEF LockForProcess, ClaimSlot
<1>3. CASE UnlockForProcess
  BY <1>3 DEF UnlockForProcess
<1>4. CASE Destroy
  BY <1>4 DEF Destroy, Zeroed
<1>5. CASE EngineEnds
  BY <1>5 DEF EngineEnds, Closed, Zeroed
<1>6. CASE MasterAges
  BY <1>6 DEF MasterAges
<1>7. CASE Call
  BY <1>7 DEF Call
<1>8. CASE CallClaims
  BY <1>8 DEF CallClaims, ClaimSlot
<1>9. CASE CallVerifies
  BY <1>9 DEF CallVerifies
<1>10. CASE Guard
  BY <1>10 DEF Guard
<1>11. CASE Write
  BY <1>11 DEF Write
<1>12. CASE Elect
  BY <1>12 DEF Elect
<1>13. CASE Pull
  BY <1>13 DEF Pull
<1>14. CASE Play
  BY <1>14 DEF Play
<1>15. CASE PassOrMute
  BY <1>15 DEF PassOrMute
<1>16. CASE Open
  BY <1>16 DEF Open, OpenOutcomes
<1>17. CASE Shutdown
  BY <1>17 DEF Shutdown, Zeroed
<1>18. CASE Crash
  BY <1>18 DEF Crash, Closed, Zeroed
<1>19. CASE Clear
  BY <1>19 DEF Clear, Zeroed
<1>20. CASE Look
  BY <1>20 DEF Look
<1>21. CASE Size
  BY <1>21 DEF Size
<1>22. CASE Announce
  BY <1>22 DEF Announce
<1>23. CASE PrefillSilence
  BY <1>23 DEF PrefillSilence
<1>24. CASE StartLoop
  BY <1>24 DEF StartLoop
<1>25. CASE Take
  BY <1>25 DEF Take
<1>26. CASE Flush
  BY <1>26 DEF Flush
<1>27. CASE Send
  BY <1>27 DEF Send
<1>28. CASE UNCHANGED vars
  BY <1>28
<1> QED
  BY <1>1, <1>2, <1>3, <1>4, <1>5, <1>6, <1>7, <1>8, <1>9, <1>10, <1>11, <1>12, <1>13, <1>14, <1>15, <1>16, <1>17, <1>18, <1>19, <1>20, <1>21, <1>22, <1>23, <1>24, <1>25, <1>26, <1>27, <1>28 DEF Next, ApoProcess, Bridge

LEMMA AnnouncedKept ==
  ASSUME Hazards = {}, ControlOK, Announced, Claimed, [Next]_vars
  PROVE  Announced'
<1> USE DEF ControlOK, Announced, Found, Claimed, Announcing, Using, Starting, block, rings, claim, instance, bridge, history, vars
<1>1. CASE Create
  BY <1>1 DEF Create
<1>2. CASE LockForProcess
  BY <1>2 DEF LockForProcess, ClaimSlot
<1>3. CASE UnlockForProcess
  BY <1>3 DEF UnlockForProcess
<1>4. CASE Destroy
  BY <1>4 DEF Destroy, Zeroed
<1>5. CASE EngineEnds
  BY <1>5 DEF EngineEnds, Closed, Zeroed
<1>6. CASE MasterAges
  BY <1>6 DEF MasterAges
<1>7. CASE Call
  BY <1>7 DEF Call
<1>8. CASE CallClaims
  BY <1>8 DEF CallClaims, ClaimSlot
<1>9. CASE CallVerifies
  BY <1>9 DEF CallVerifies
<1>10. CASE Guard
  BY <1>10 DEF Guard
<1>11. CASE Write
  BY <1>11 DEF Write
<1>12. CASE Elect
  BY <1>12 DEF Elect
<1>13. CASE Pull
  BY <1>13 DEF Pull
<1>14. CASE Play
  BY <1>14 DEF Play
<1>15. CASE PassOrMute
  BY <1>15 DEF PassOrMute
<1>16. CASE Open
  BY <1>16 DEF Open, OpenOutcomes
<1>17. CASE Shutdown
  BY <1>17 DEF Shutdown, Zeroed
<1>18. CASE Crash
  BY <1>18 DEF Crash, Closed, Zeroed
<1>19. CASE Clear
  BY <1>19 DEF Clear, Zeroed
<1>20. CASE Look
  BY <1>20 DEF Look
<1>21. CASE Size
  BY <1>21 DEF Size
<1>22. CASE Announce
  BY <1>22 DEF Announce
<1>23. CASE PrefillSilence
  BY <1>23 DEF PrefillSilence
<1>24. CASE StartLoop
  BY <1>24 DEF StartLoop
<1>25. CASE Take
  BY <1>25 DEF Take
<1>26. CASE Flush
  BY <1>26 DEF Flush
<1>27. CASE Send
  BY <1>27 DEF Send
<1>28. CASE UNCHANGED vars
  BY <1>28
<1> QED
  BY <1>1, <1>2, <1>3, <1>4, <1>5, <1>6, <1>7, <1>8, <1>9, <1>10, <1>11, <1>12, <1>13, <1>14, <1>15, <1>16, <1>17, <1>18, <1>19, <1>20, <1>21, <1>22, <1>23, <1>24, <1>25, <1>26, <1>27, <1>28 DEF Next, ApoProcess, Bridge

LEMMA ClaimedKept ==
  ASSUME Hazards = {}, ControlOK, Announced, Claimed, ReadyWhileUsed, [Next]_vars
  PROVE  Claimed'
<1> USE DEF ControlOK, Announced, Found, Claimed, ReadyWhileUsed, Announcing, Using, Starting, block, rings, claim, instance, bridge, history, vars
<1>1. CASE Create
  BY <1>1 DEF Create
<1>2. CASE LockForProcess
  BY <1>2 DEF LockForProcess, ClaimSlot
<1>3. CASE UnlockForProcess
  BY <1>3 DEF UnlockForProcess
<1>4. CASE Destroy
  BY <1>4 DEF Destroy, Zeroed
<1>5. CASE EngineEnds
  BY <1>5 DEF EngineEnds, Closed, Zeroed
<1>6. CASE MasterAges
  BY <1>6 DEF MasterAges
<1>7. CASE Call
  BY <1>7 DEF Call
<1>8. CASE CallClaims
  BY <1>8 DEF CallClaims, ClaimSlot
<1>9. CASE CallVerifies
  BY <1>9 DEF CallVerifies
<1>10. CASE Guard
  BY <1>10 DEF Guard
<1>11. CASE Write
  BY <1>11 DEF Write
<1>12. CASE Elect
  BY <1>12 DEF Elect
<1>13. CASE Pull
  BY <1>13 DEF Pull
<1>14. CASE Play
  BY <1>14 DEF Play
<1>15. CASE PassOrMute
  BY <1>15 DEF PassOrMute
<1>16. CASE Open
  BY <1>16 DEF Open, OpenOutcomes
<1>17. CASE Shutdown
  BY <1>17 DEF Shutdown, Zeroed
<1>18. CASE Crash
  BY <1>18 DEF Crash, Closed, Zeroed
<1>19. CASE Clear
  BY <1>19 DEF Clear, Zeroed
<1>20. CASE Look
  BY <1>20 DEF Look
<1>21. CASE Size
  BY <1>21 DEF Size
<1>22. CASE Announce
  BY <1>22 DEF Announce
<1>23. CASE PrefillSilence
  BY <1>23 DEF PrefillSilence
<1>24. CASE StartLoop
  BY <1>24 DEF StartLoop
<1>25. CASE Take
  BY <1>25 DEF Take
<1>26. CASE Flush
  BY <1>26 DEF Flush
<1>27. CASE Send
  BY <1>27 DEF Send
<1>28. CASE UNCHANGED vars
  BY <1>28
<1> QED
  BY <1>1, <1>2, <1>3, <1>4, <1>5, <1>6, <1>7, <1>8, <1>9, <1>10, <1>11, <1>12, <1>13, <1>14, <1>15, <1>16, <1>17, <1>18, <1>19, <1>20, <1>21, <1>22, <1>23, <1>24, <1>25, <1>26, <1>27, <1>28 DEF Next, ApoProcess, Bridge

LEMMA ReadyKept ==
  ASSUME Hazards = {}, ControlOK, Announced, Claimed, ReadyWhileUsed, [Next]_vars
  PROVE  ReadyWhileUsed'
<1> USE DEF ControlOK, Announced, Found, Claimed, ReadyWhileUsed, Announcing, Using, Starting, block, rings, claim, instance, bridge, history, vars
<1>1. CASE Create
  BY <1>1 DEF Create
<1>2. CASE LockForProcess
  BY <1>2 DEF LockForProcess, ClaimSlot
<1>3. CASE UnlockForProcess
  BY <1>3 DEF UnlockForProcess
<1>4. CASE Destroy
  BY <1>4 DEF Destroy, Zeroed
<1>5. CASE EngineEnds
  BY <1>5 DEF EngineEnds, Closed, Zeroed
<1>6. CASE MasterAges
  BY <1>6 DEF MasterAges
<1>7. CASE Call
  BY <1>7 DEF Call
<1>8. CASE CallClaims
  BY <1>8 DEF CallClaims, ClaimSlot
<1>9. CASE CallVerifies
  BY <1>9 DEF CallVerifies
<1>10. CASE Guard
  BY <1>10 DEF Guard
<1>11. CASE Write
  BY <1>11 DEF Write
<1>12. CASE Elect
  BY <1>12 DEF Elect
<1>13. CASE Pull
  BY <1>13 DEF Pull
<1>14. CASE Play
  BY <1>14 DEF Play
<1>15. CASE PassOrMute
  BY <1>15 DEF PassOrMute
<1>16. CASE Open
  BY <1>16 DEF Open, OpenOutcomes
<1>17. CASE Shutdown
  BY <1>17 DEF Shutdown, Zeroed
<1>18. CASE Crash
  BY <1>18 DEF Crash, Closed, Zeroed
<1>19. CASE Clear
  BY <1>19 DEF Clear, Zeroed
<1>20. CASE Look
  BY <1>20 DEF Look
<1>21. CASE Size
  BY <1>21 DEF Size
<1>22. CASE Announce
  BY <1>22 DEF Announce
<1>23. CASE PrefillSilence
  BY <1>23 DEF PrefillSilence
<1>24. CASE StartLoop
  BY <1>24 DEF StartLoop
<1>25. CASE Take
  BY <1>25 DEF Take
<1>26. CASE Flush
  BY <1>26 DEF Flush
<1>27. CASE Send
  BY <1>27 DEF Send
<1>28. CASE UNCHANGED vars
  BY <1>28
<1> QED
  BY <1>1, <1>2, <1>3, <1>4, <1>5, <1>6, <1>7, <1>8, <1>9, <1>10, <1>11, <1>12, <1>13, <1>14, <1>15, <1>16, <1>17, <1>18, <1>19, <1>20, <1>21, <1>22, <1>23, <1>24, <1>25, <1>26, <1>27, <1>28 DEF Next, ApoProcess, Bridge

LEMMA CountersKept ==
  ASSUME CountersOK, [Next]_vars
  PROVE  CountersOK'
<1> USE DEF CountersOK, block, rings, claim, instance, bridge, history, vars
<1>1. CASE Create
  BY <1>1, SessionAssumption DEF Create
<1>2. CASE LockForProcess
  BY <1>2 DEF LockForProcess, ClaimSlot
<1>3. CASE UnlockForProcess
  BY <1>3 DEF UnlockForProcess
<1>4. CASE Destroy
  BY <1>4 DEF Destroy, Zeroed
<1>5. CASE EngineEnds
  BY <1>5 DEF EngineEnds, Closed, Zeroed
<1>6. CASE MasterAges
  BY <1>6 DEF MasterAges
<1>7. CASE Call
  BY <1>7, SessionAssumption DEF Call
<1>8. CASE CallClaims
  BY <1>8 DEF CallClaims, ClaimSlot
<1>9. CASE CallVerifies
  BY <1>9 DEF CallVerifies
<1>10. CASE Guard
  BY <1>10 DEF Guard
<1>11. CASE Write
  BY <1>11 DEF Write
<1>12. CASE Elect
  BY <1>12 DEF Elect
<1>13. CASE Pull
  BY <1>13 DEF Pull
<1>14. CASE Play
  BY <1>14 DEF Play
<1>15. CASE PassOrMute
  BY <1>15 DEF PassOrMute
<1>16. CASE Open
  BY <1>16, SessionAssumption DEF Open, OpenOutcomes
<1>17. CASE Shutdown
  BY <1>17 DEF Shutdown, Zeroed
<1>18. CASE Crash
  BY <1>18 DEF Crash, Closed, Zeroed
<1>19. CASE Clear
  BY <1>19 DEF Clear, Zeroed
<1>20. CASE Look
  BY <1>20 DEF Look
<1>21. CASE Size
  BY <1>21 DEF Size
<1>22. CASE Announce
  BY <1>22 DEF Announce
<1>23. CASE PrefillSilence
  BY <1>23 DEF PrefillSilence
<1>24. CASE StartLoop
  BY <1>24 DEF StartLoop
<1>25. CASE Take
  BY <1>25 DEF Take
<1>26. CASE Flush
  BY <1>26 DEF Flush
<1>27. CASE Send
  BY <1>27 DEF Send
<1>28. CASE UNCHANGED vars
  BY <1>28
<1> QED
  BY <1>1, <1>2, <1>3, <1>4, <1>5, <1>6, <1>7, <1>8, <1>9, <1>10, <1>11, <1>12, <1>13, <1>14, <1>15, <1>16, <1>17, <1>18, <1>19, <1>20, <1>21, <1>22, <1>23, <1>24, <1>25, <1>26, <1>27, <1>28 DEF Next, ApoProcess, Bridge

\* A block that is zeroed has empty rings.
LEMMA RingsZeroed ==
  ASSUME Zeroed, pc' # "play", batch' \in Ages, heard' \in Ages, since' \in Ages
  PROVE  RingsOK'
BY SilenceType, EmptyType, Constants DEF Zeroed, RingsOK

LEMMA RingsKept ==
  ASSUME RingsOK, ControlOK, Claimed, [Next]_vars
  PROVE  RingsOK'
<1> USE DEF RingsOK, block, rings, claim, instance, bridge, history, vars
<1>1. CASE Create
  BY <1>1 DEF Create
<1>2. CASE LockForProcess
  BY <1>2, Constants DEF LockForProcess, ClaimSlot
<1>3. CASE UnlockForProcess
  BY <1>3 DEF UnlockForProcess
<1>4. CASE Destroy
  <2>1. CASE Zeroed
    BY <1>4, <2>1, RingsZeroed, Constants DEF Destroy
  <2>2. CASE UNCHANGED rings
    BY <1>4, <2>2, Constants DEF Destroy
  <2> QED
    BY <1>4, <2>1, <2>2 DEF Destroy
<1>5. CASE EngineEnds
  <2>1. CASE Zeroed
    BY <1>5, <2>1, RingsZeroed, Constants DEF EngineEnds
  <2>2. CASE UNCHANGED rings
    BY <1>5, <2>2, Constants DEF EngineEnds
  <2> QED
    BY <1>5, <2>1, <2>2 DEF EngineEnds, Closed
<1>6. CASE MasterAges
  BY <1>6 DEF MasterAges
<1>7. CASE Call
  BY <1>7, AllOlderType, OlderOrder DEF Call
<1>8. CASE CallClaims
  BY <1>8, Constants DEF CallClaims, ClaimSlot
<1>9. CASE CallVerifies
  BY <1>9 DEF CallVerifies
<1>10. CASE Guard
  BY <1>10 DEF Guard
<1>11. CASE Write
  BY <1>11, Constants DEF Write
<1>12. CASE Elect
  BY <1>12 DEF Elect
<1>13. CASE Pull
  BY <1>13, LastType, Constants DEF Pull
<1>14. CASE Play
  <2>1. /\ {heard} \cup {fromHost[k] : k \in 1 .. P} \in SUBSET Ages
        /\ heard' = Lowest({heard} \cup {fromHost[k] : k \in 1 .. P})
    BY <1>14, Constants DEF Play
  <2>2. heard' \in Ages
    BY <2>1, LowestAge
  <2>3. fromHost' \in Seq(Ages) /\ Len(fromHost') <= Room * P /\ pc' = "idle"
    BY <1>14, Constants DEF Play
  <2> QED
    BY <1>14, <2>2, <2>3 DEF Play
<1>15. CASE PassOrMute
  BY <1>15 DEF PassOrMute
<1>16. CASE Open
  BY <1>16 DEF Open, OpenOutcomes
<1>17. CASE Shutdown
  <2>1. CASE Zeroed /\ ~ Found
    BY <1>17, <2>1, RingsZeroed, Constants DEF Shutdown, Found
  <2>2. CASE UNCHANGED rings
    BY <1>17, <2>2, Constants DEF Shutdown
  <2> QED
    BY <1>17, <2>1, <2>2 DEF Shutdown
<1>18. CASE Crash
  <2>1. CASE Zeroed /\ ~ Found
    BY <1>18, <2>1, RingsZeroed, Constants DEF Crash, Found, Closed
  <2>2. CASE UNCHANGED rings
    BY <1>18, <2>2, Constants DEF Crash
  <2> QED
    BY <1>18, <2>1, <2>2 DEF Crash, Closed
<1>19. CASE Clear
  BY <1>19, SilenceType, EmptyType, Constants DEF Clear, Claimed, Using, Zeroed
<1>20. CASE Look
  BY <1>20 DEF Look
<1>21. CASE Size
  <2>1. toHost' = << >> /\ pc # "play" /\ pc' = pc
    BY <1>21 DEF Size, Claimed, Using
  <2>2. /\ fromHost' \in {<< >>, fromHost} /\ tail' \in {Silence(P), tail}
        /\ UNCHANGED <<batch, heard, since>>
    BY <1>21 DEF Size
  <2>3. /\ fromHost' \in Seq(Ages) /\ Len(fromHost') <= Room * P
        /\ tail' \in Seq(Ages) /\ Len(tail') = P
    <3>1. Silence(P) \in Seq(Ages) /\ Len(Silence(P)) = P /\ 0 <= Room * P
      BY SilenceType, Constants
    <3>2. CASE fromHost' = << >>
      BY <2>2, <3>1, <3>2, EmptyType
    <3>3. CASE fromHost' = fromHost
      BY <2>2, <3>1, <3>3
    <3> QED
      BY <2>2, <3>2, <3>3
  <2>4. toHost' \in Seq(Ages) /\ Len(toHost') <= Room
    BY <2>1, EmptyType
  <2> QED
    BY <2>1, <2>2, <2>3, <2>4
<1>22. CASE Announce
  BY <1>22 DEF Announce
<1>23. CASE PrefillSilence
  BY <1>23, FillType, SilenceType DEF PrefillSilence
<1>24. CASE StartLoop
  BY <1>24 DEF StartLoop
<1>25. CASE Take
  BY <1>25, LastType, Constants DEF Take
<1>26. CASE Flush
  BY <1>26, EmptyType DEF Flush
<1>27. CASE Send
  BY <1>27, FillType, UnitsType, Constants DEF Send
<1>28. CASE UNCHANGED vars
  BY <1>28
<1> QED
  BY <1>1, <1>2, <1>3, <1>4, <1>5, <1>6, <1>7, <1>8, <1>9, <1>10, <1>11, <1>12, <1>13, <1>14, <1>15, <1>16, <1>17, <1>18, <1>19, <1>20, <1>21, <1>22, <1>23, <1>24, <1>25, <1>26, <1>27, <1>28 DEF Next, ApoProcess, Bridge

LEMMA UnclaimedKept ==
  ASSUME CountersOK, Claimed, ReadyWhileUsed, Unclaimed, [Next]_vars
  PROVE  Unclaimed'
<1> USE DEF CountersOK, Claimed, ReadyWhileUsed, Unclaimed, Using, block, rings, claim, instance, bridge, history, vars
<1>1. CASE Create
  BY <1>1 DEF Create
<1>2. CASE LockForProcess
  BY <1>2 DEF LockForProcess, ClaimSlot
<1>3. CASE UnlockForProcess
  BY <1>3 DEF UnlockForProcess
<1>4. CASE Destroy
  BY <1>4 DEF Destroy, Zeroed
<1>5. CASE EngineEnds
  BY <1>5 DEF EngineEnds, Closed, Zeroed
<1>6. CASE MasterAges
  BY <1>6 DEF MasterAges
<1>7. CASE Call
  BY <1>7, NoneOlder DEF Call
<1>8. CASE CallClaims
  BY <1>8 DEF CallClaims, ClaimSlot
<1>9. CASE CallVerifies
  BY <1>9 DEF CallVerifies
<1>10. CASE Guard
  BY <1>10 DEF Guard
<1>11. CASE Write
  BY <1>11 DEF Write
<1>12. CASE Elect
  BY <1>12 DEF Elect
<1>13. CASE Pull
  BY <1>13 DEF Pull
<1>14. CASE Play
  BY <1>14 DEF Play
<1>15. CASE PassOrMute
  BY <1>15 DEF PassOrMute
<1>16. CASE Open
  BY <1>16 DEF Open, OpenOutcomes
<1>17. CASE Shutdown
  BY <1>17 DEF Shutdown, Zeroed
<1>18. CASE Crash
  BY <1>18 DEF Crash, Closed, Zeroed
<1>19. CASE Clear
  BY <1>19 DEF Clear, Zeroed
<1>20. CASE Look
  BY <1>20 DEF Look
<1>21. CASE Size
  BY <1>21 DEF Size
<1>22. CASE Announce
  BY <1>22 DEF Announce
<1>23. CASE PrefillSilence
  BY <1>23 DEF PrefillSilence
<1>24. CASE StartLoop
  BY <1>24 DEF StartLoop
<1>25. CASE Take
  BY <1>25 DEF Take
<1>26. CASE Flush
  BY <1>26 DEF Flush
<1>27. CASE Send
  BY <1>27 DEF Send
<1>28. CASE UNCHANGED vars
  BY <1>28
<1> QED
  BY <1>1, <1>2, <1>3, <1>4, <1>5, <1>6, <1>7, <1>8, <1>9, <1>10, <1>11, <1>12, <1>13, <1>14, <1>15, <1>16, <1>17, <1>18, <1>19, <1>20, <1>21, <1>22, <1>23, <1>24, <1>25, <1>26, <1>27, <1>28 DEF Next, ApoProcess, Bridge

LEMMA FlushDueKept ==
  ASSUME Hazards = {}, ControlOK, CountersOK, RingsOK, Claimed, Unclaimed, FlushDue, [Next]_vars
  PROVE  FlushDue'
<1> USE DEF FlushDue, Unclaimed, CountersOK, Serving, block, rings, claim, instance, bridge, history, vars
<1>1. CASE Create
  BY <1>1 DEF Create
<1>2. CASE LockForProcess
  BY <1>2 DEF LockForProcess, ClaimSlot
<1>3. CASE UnlockForProcess
  BY <1>3 DEF UnlockForProcess
<1>4. CASE Destroy
  BY <1>4 DEF Destroy, Zeroed
<1>5. CASE EngineEnds
  BY <1>5 DEF EngineEnds, Closed, Zeroed
<1>6. CASE MasterAges
  BY <1>6 DEF MasterAges
<1>7. CASE Call
  <2>1. /\ UNCHANGED <<bpc, asked, answered>> /\ toHost' = AllOlder(toHost)
        /\ Serving => since' = Older(since)
    BY <1>7 DEF Call, Announcing
  <2>2. toHost \in Seq(Ages) /\ since \in Ages
    BY DEF RingsOK
  <2>3. ASSUME Serving, asked = answered, NEW k \in DOMAIN toHost'
        PROVE  toHost'[k] <= since'
    <3>1. k \in DOMAIN toHost /\ toHost'[k] = Older(toHost[k]) /\ toHost[k] \in Ages
      BY <2>1, <2>2, <2>3, AllOlderType
    <3>2. toHost[k] <= since
      BY <2>3, <3>1
    <3> QED
      BY <2>1, <2>2, <2>3, <3>1, <3>2, OlderOrder
  <2> QED
    BY <2>1, <2>3
<1>8. CASE CallClaims
  BY <1>8 DEF CallClaims, ClaimSlot
<1>9. CASE CallVerifies
  BY <1>9 DEF CallVerifies
<1>10. CASE Guard
  BY <1>10 DEF Guard
<1>11. CASE Write
  <2>1. /\ UNCHANGED <<bpc, asked, answered, since>>
        /\ toHost' \in {toHost, Append(toHost, 0)}
    BY <1>11 DEF Write
  <2>2. toHost \in Seq(Ages) /\ 0 <= since
    BY DEF RingsOK, Ages
  <2>3. ASSUME NEW k \in DOMAIN toHost'
        PROVE  \/ k \in DOMAIN toHost /\ toHost'[k] = toHost[k]
               \/ toHost'[k] = 0
    BY <2>1, <2>2
  <2> QED
    BY <2>1, <2>2, <2>3
<1>12. CASE Elect
  BY <1>12 DEF Elect
<1>13. CASE Pull
  BY <1>13 DEF Pull
<1>14. CASE Play
  BY <1>14 DEF Play
<1>15. CASE PassOrMute
  BY <1>15 DEF PassOrMute
<1>16. CASE Open
  BY <1>16 DEF Open, OpenOutcomes
<1>17. CASE Shutdown
  BY <1>17 DEF Shutdown, Zeroed
<1>18. CASE Crash
  BY <1>18 DEF Crash, Closed, Zeroed
<1>19. CASE Clear
  BY <1>19 DEF Clear, Zeroed
<1>20. CASE Look
  BY <1>20 DEF Look
<1>21. CASE Size
  BY <1>21 DEF Size
<1>22. CASE Announce
  BY <1>22 DEF Announce
<1>23. CASE PrefillSilence
  BY <1>23 DEF PrefillSilence
<1>24. CASE StartLoop
  BY <1>24 DEF StartLoop
<1>25. CASE Take
  <2> DEFINE queue == IF Len(toHost) > Behind THEN Last(toHost, 1) ELSE toHost
  <2>1. /\ bpc = "read" /\ asked = answered /\ toHost # << >>
        /\ batch' = Head(queue) /\ toHost' = Tail(queue)
        /\ UNCHANGED <<asked, answered, since>>
    BY <1>25 DEF Take
  <2>2. \A k \in DOMAIN toHost : toHost[k] <= since
    BY <2>1 DEF FlushDue, Serving
  <2>3. toHost \in Seq(Ages) /\ Len(toHost) >= 1
    BY <2>1 DEF RingsOK
  <2>4. /\ queue \in Seq(Ages) /\ queue # << >>
        /\ \A k \in DOMAIN queue : queue[k] <= since
    BY <2>2, <2>3, LastType
  <2> HIDE DEF queue
  <2>5. \A k \in DOMAIN Tail(queue) : Tail(queue)[k] <= since
    BY <2>4
  <2> QED
    BY <1>25, <2>1, <2>5 DEF Take
<1>26. CASE Flush
  BY <1>26 DEF Flush
<1>27. CASE Send
  BY <1>27 DEF Send
<1>28. CASE UNCHANGED vars
  BY <1>28
<1> QED
  BY <1>1, <1>2, <1>3, <1>4, <1>5, <1>6, <1>7, <1>8, <1>9, <1>10, <1>11, <1>12, <1>13, <1>14, <1>15, <1>16, <1>17, <1>18, <1>19, <1>20, <1>21, <1>22, <1>23, <1>24, <1>25, <1>26, <1>27, <1>28 DEF Next, ApoProcess, Bridge

LEMMA NoOldSessionKept ==
  ASSUME RingsOK, FlushDue, NoOldSession, [Next]_vars
  PROVE  NoOldSession'
<1> USE DEF NoOldSession, block, rings, claim, instance, bridge, history, vars
<1>1. CASE Create
  BY <1>1 DEF Create
<1>2. CASE LockForProcess
  BY <1>2 DEF LockForProcess, ClaimSlot
<1>3. CASE UnlockForProcess
  BY <1>3 DEF UnlockForProcess
<1>4. CASE Destroy
  BY <1>4 DEF Destroy, Zeroed
<1>5. CASE EngineEnds
  BY <1>5 DEF EngineEnds, Closed, Zeroed
<1>6. CASE MasterAges
  BY <1>6 DEF MasterAges
<1>7. CASE Call
  <2>1. /\ bpc' = bpc
        /\ bpc = "send" => batch' = Older(batch) /\ since' = Older(since)
    BY <1>7 DEF Call, Announcing
  <2>2. batch \in Ages /\ since \in Ages
    BY DEF RingsOK
  <2> QED
    BY <2>1, <2>2, OlderOrder
<1>8. CASE CallClaims
  BY <1>8 DEF CallClaims, ClaimSlot
<1>9. CASE CallVerifies
  BY <1>9 DEF CallVerifies
<1>10. CASE Guard
  BY <1>10 DEF Guard
<1>11. CASE Write
  BY <1>11 DEF Write
<1>12. CASE Elect
  BY <1>12 DEF Elect
<1>13. CASE Pull
  BY <1>13 DEF Pull
<1>14. CASE Play
  BY <1>14 DEF Play
<1>15. CASE PassOrMute
  BY <1>15 DEF PassOrMute
<1>16. CASE Open
  BY <1>16 DEF Open, OpenOutcomes
<1>17. CASE Shutdown
  BY <1>17 DEF Shutdown, Zeroed
<1>18. CASE Crash
  BY <1>18 DEF Crash, Closed, Zeroed
<1>19. CASE Clear
  BY <1>19 DEF Clear, Zeroed
<1>20. CASE Look
  BY <1>20 DEF Look
<1>21. CASE Size
  BY <1>21 DEF Size
<1>22. CASE Announce
  BY <1>22 DEF Announce
<1>23. CASE PrefillSilence
  BY <1>23 DEF PrefillSilence
<1>24. CASE StartLoop
  BY <1>24 DEF StartLoop
<1>25. CASE Take
  <2> DEFINE queue == IF Len(toHost) > Behind THEN Last(toHost, 1) ELSE toHost
  <2>1. /\ bpc = "read" /\ asked = answered /\ toHost # << >>
        /\ batch' = Head(queue) /\ toHost' = Tail(queue)
        /\ UNCHANGED <<asked, answered, since>>
    BY <1>25 DEF Take
  <2>2. \A k \in DOMAIN toHost : toHost[k] <= since
    BY <2>1 DEF FlushDue, Serving
  <2>3. toHost \in Seq(Ages) /\ Len(toHost) >= 1
    BY <2>1 DEF RingsOK
  <2>4. /\ queue \in Seq(Ages) /\ queue # << >>
        /\ \A k \in DOMAIN queue : queue[k] <= since
    BY <2>2, <2>3, LastType
  <2> HIDE DEF queue
  <2>5. Head(queue) <= since
    BY <2>4
  <2> QED
    BY <2>1, <2>5
<1>26. CASE Flush
  BY <1>26 DEF Flush
<1>27. CASE Send
  BY <1>27 DEF Send
<1>28. CASE UNCHANGED vars
  BY <1>28
<1> QED
  BY <1>1, <1>2, <1>3, <1>4, <1>5, <1>6, <1>7, <1>8, <1>9, <1>10, <1>11, <1>12, <1>13, <1>14, <1>15, <1>16, <1>17, <1>18, <1>19, <1>20, <1>21, <1>22, <1>23, <1>24, <1>25, <1>26, <1>27, <1>28 DEF Next, ApoProcess, Bridge

\* Steps that neither play nor move audio keep its order, ...
LEMMA OrderQuiet ==
  ASSUME ReturnInOrder, WayInOrder, UNCHANGED <<toHost, fromHost, tail, heard>>,
         owned => owned', bpc' = "send" => bpc = "send" /\ batch' = batch,
         Recording' => Recording
  PROVE  ReturnInOrder' /\ WayInOrder'
BY DEF ReturnInOrder, WayInOrder, InOrder, Unheard, Newest, Before, Older

\* ... and a block that is cleared has nothing out of order.
LEMMA OrderZeroed ==
  ASSUME Zeroed, heard' \in Ages, bpc' # "send", ~ Recording'
  PROVE  ReturnInOrder' /\ WayInOrder'
<1>1. toHost' = << >> /\ fromHost' = << >> /\ tail' = Silence(P)
  BY DEF Zeroed
<1>2. DOMAIN toHost' = {} /\ DOMAIN fromHost' = {}
  BY <1>1
<1>3. InOrder(tail') /\ \A k \in DOMAIN tail' : tail'[k] = Old
  BY <1>1, SilenceInOrder, Constants
<1>4. ReturnInOrder'
  BY <1>2, <1>3, Constants DEF ReturnInOrder, InOrder, Unheard
<1> QED
  BY <1>2, <1>4 DEF WayInOrder

\* A claim goes back to what was not played by this instance.
LEMMA OrderClaim ==
  ASSUME ReturnInOrder, WayInOrder, Claimed, ~ hasSlot, ClaimSlot,
         UNCHANGED <<toHost, tail, heard, batch, bpc>>, Recording' => Recording
  PROVE  ReturnInOrder' /\ WayInOrder'
<1>1. fromHost' \in {tail, fromHost} /\ owned' /\ ~ owned
  BY DEF ClaimSlot, Claimed
<1>2. ReturnInOrder'
  BY <1>1 DEF ReturnInOrder, InOrder, Unheard
<1>3. ASSUME NEW b, Newest(b)
      PROVE  Newest(b)'
  BY <1>1, <1>3 DEF Newest, Before, Older
<1>4. WayInOrder'
  <2>1. \A b : b \in DOMAIN toHost => Newest(toHost[b])'
    BY <1>3 DEF WayInOrder
  <2> QED
    BY <1>3, <2>1 DEF WayInOrder, Before, Older, Newest
<1> QED
  BY <1>2, <1>4

\* All audio grows older together.
LEMMA OrderCall ==
  ASSUME RingsOK, ReturnInOrder, WayInOrder, Call
  PROVE  ReturnInOrder' /\ WayInOrder'
<1>1. /\ toHost' = AllOlder(toHost) /\ fromHost' = AllOlder(fromHost)
      /\ tail' = AllOlder(tail) /\ heard' = Older(heard)
      /\ bpc' = bpc /\ owned' = owned /\ pc # "write" /\ pc = "idle"
      /\ bpc = "send" => batch' = Older(batch)
  BY DEF Call, claim
<1>2. /\ toHost \in Seq(Ages) /\ fromHost \in Seq(Ages) /\ tail \in Seq(Ages)
      /\ heard \in Ages /\ batch \in Ages
  BY DEF RingsOK
<1>3. ReturnInOrder'
  <2>1. InOrder(fromHost') /\ InOrder(tail')
    BY <1>1, <1>2, OlderKeepsOrder DEF ReturnInOrder
  <2>2. \A k \in DOMAIN fromHost' : fromHost'[k] < Old => fromHost'[k] < heard'
    BY <1>1, <1>2, OlderKeepsOrder DEF ReturnInOrder, Unheard
  <2>3. ~ owned => \A k \in DOMAIN tail' : tail'[k] < Old => tail'[k] < heard'
    BY <1>1, <1>2, OlderKeepsOrder DEF ReturnInOrder, Unheard
  <2> QED
    BY <1>1, <2>1, <2>2, <2>3 DEF ReturnInOrder, Unheard, InOrder
<1>4. ASSUME NEW b \in Ages, Newest(b)
      PROVE  heard' >= Older(Older(b)) /\ Before(fromHost', Older(b)) /\ Before(tail', Older(b))
  <2>1. heard >= Older(b) /\ Before(fromHost, b) /\ Before(tail, b) /\ Older(b) \in Ages
    BY <1>4, OlderFacts DEF Newest
  <2>2. Older(heard) >= Older(Older(b))
    BY <1>2, <2>1, OlderFacts
  <2>3. Before(AllOlder(fromHost), Older(b)) /\ Before(AllOlder(tail), Older(b))
    BY <1>2, <2>1, OlderKeepsOrder
  <2> QED
    BY <1>1, <2>2, <2>3
<1>5. /\ DOMAIN toHost' = DOMAIN toHost /\ DOMAIN toHost = 1 .. Len(toHost) /\ Len(toHost) \in Nat
      /\ \A k \in DOMAIN toHost : toHost[k] \in Ages /\ toHost'[k] = Older(toHost[k])
  BY <1>1, <1>2, AllOlderType
<1>6. \A k \in DOMAIN toHost' : \A j \in 1 .. k - 1 : toHost'[j] >= Older(toHost'[k])
  <2> SUFFICES ASSUME NEW k \in DOMAIN toHost, NEW j \in 1 .. k - 1
               PROVE  Older(toHost[j]) >= Older(Older(toHost[k]))
    BY <1>5
  <2>1. toHost[j] >= Older(toHost[k]) /\ j \in DOMAIN toHost /\ Older(toHost[k]) \in Ages
    BY <1>5, OlderFacts DEF WayInOrder
  <2> QED
    BY <1>5, <2>1, OlderFacts
<1>7. \A k \in DOMAIN toHost' : Newest(toHost[k])'
  <2> SUFFICES ASSUME NEW k \in DOMAIN toHost
               PROVE  Newest(toHost[k])'
    BY <1>5
  <2>1. toHost[k] \in Ages /\ Newest(toHost[k]) /\ toHost'[k] = Older(toHost[k])
    BY <1>5 DEF WayInOrder
  <2>2. /\ heard' >= Older(Older(toHost[k])) /\ Before(fromHost', Older(toHost[k]))
        /\ Before(tail', Older(toHost[k]))
    BY <1>4, <2>1
  <2> QED
    BY <2>1, <2>2 DEF Newest
<1>8. bpc = "send" => Newest(batch)' /\ \A k \in DOMAIN toHost' : batch' >= Older(toHost'[k])
  <2> SUFFICES ASSUME bpc = "send"
               PROVE  Newest(batch)' /\ \A k \in DOMAIN toHost' : batch' >= Older(toHost'[k])
    OBVIOUS
  <2>1. Newest(batch)'
    <3>1. Newest(batch) /\ batch' = Older(batch)
      BY <1>1 DEF WayInOrder
    <3>2. /\ heard' >= Older(Older(batch)) /\ Before(fromHost', Older(batch))
          /\ Before(tail', Older(batch))
      BY <1>2, <1>4, <3>1
    <3> QED
      BY <3>1, <3>2 DEF Newest
  <2>2. ASSUME NEW k \in DOMAIN toHost
        PROVE  Older(batch) >= Older(Older(toHost[k]))
    <3>1. batch >= Older(toHost[k]) /\ Older(toHost[k]) \in Ages
      BY <1>5, OlderFacts DEF WayInOrder
    <3> QED
      BY <1>2, <3>1, OlderFacts
  <2> QED
    BY <1>1, <1>5, <2>1, <2>2
<1>9. Newest(0)' /\ Before(toHost', 0) /\ (bpc = "send" => batch' >= Older(0))
  <2>1. heard' >= Older(0) /\ (bpc = "send" => batch' >= Older(0))
    BY <1>1, <1>2, OlderFacts, Constants
  <2>2. Before(fromHost', 0) /\ Before(tail', 0) /\ Before(toHost', 0)
    BY <1>1, <1>2, OlderKeepsOrder
  <2> QED
    BY <2>1, <2>2 DEF Newest
<1> QED
  BY <1>1, <1>3, <1>6, <1>7, <1>8, <1>9 DEF WayInOrder

\* Units that are younger than all in fromHost may follow it.
LEMMA OrderFill ==
  ASSUME RingsOK, ReturnInOrder, WayInOrder, NEW units \in Seq(Ages), Fill(units),
         InOrder(units),
         \A k \in DOMAIN units : units[k] < Old =>
           /\ units[k] < heard
           /\ \A j \in DOMAIN fromHost : fromHost[j] > units[k]
           /\ \A j \in DOMAIN tail : tail[j] > units[k],
         \A j \in DOMAIN toHost : Before(units, toHost[j]),
         Recording => Before(units, 0),
         UNCHANGED <<toHost, heard, owned, pc>>, bpc' # "send"
  PROVE  ReturnInOrder' /\ WayInOrder'
<1>1. /\ InOrder(fromHost) /\ InOrder(tail)
      /\ \A k \in DOMAIN fromHost : fromHost[k] < Old => fromHost[k] < heard
      /\ ~ owned => \A k \in DOMAIN tail : tail[k] < Old => tail[k] < heard
  BY DEF ReturnInOrder, Unheard
<1>2. /\ InOrder(fromHost') /\ InOrder(tail')
      /\ \A k \in DOMAIN fromHost' : \/ \E j \in DOMAIN fromHost : fromHost'[k] = fromHost[j]
                                     \/ \E j \in DOMAIN units : fromHost'[k] = units[j]
      /\ \A k \in DOMAIN tail' : \/ \E j \in DOMAIN tail : tail'[k] = tail[j]
                                 \/ \E j \in DOMAIN units : tail'[k] = units[j]
  BY <1>1, FillInOrder
<1>3. ReturnInOrder'
  <2>1. \A k \in DOMAIN fromHost' : fromHost'[k] < Old => fromHost'[k] < heard
    BY <1>1, <1>2
  <2>2. ~ owned => \A k \in DOMAIN tail' : tail'[k] < Old => tail'[k] < heard
    BY <1>1, <1>2
  <2> QED
    BY <1>2, <2>1, <2>2 DEF ReturnInOrder, Unheard, InOrder
<1>4. ASSUME NEW b, Before(fromHost, b), Before(tail, b), Before(units, b)
      PROVE  Before(fromHost', b) /\ Before(tail', b)
  BY <1>2, <1>4 DEF Before
<1>5. \A k \in DOMAIN toHost' : Newest(toHost[k])'
  BY <1>4 DEF WayInOrder, Newest
<1>6. Recording' => Newest(0)' /\ Before(toHost', 0)
  BY <1>4 DEF WayInOrder, Newest, Recording
<1> QED
  BY <1>3, <1>5, <1>6 DEF WayInOrder

\* A processed block is the youngest audio that the bridge has.
LEMMA OrderSend ==
  ASSUME RingsOK, ReturnInOrder, WayInOrder, Send
  PROVE  ReturnInOrder' /\ WayInOrder'
<1>1. /\ batch \in Ages /\ heard \in Ages
      /\ DOMAIN fromHost = 1 .. Len(fromHost) /\ DOMAIN tail = 1 .. Len(tail)
      /\ \A k \in DOMAIN fromHost : fromHost[k] \in Ages
      /\ \A k \in DOMAIN tail : tail[k] \in Ages
      /\ \A k \in DOMAIN toHost : toHost[k] \in Ages
  BY DEF RingsOK
<1>2. /\ bpc = "send" /\ bpc' = "read"
      /\ UNCHANGED <<toHost, heard, owned, pc>>
      /\ Fill(Units(batch)) \/ UNCHANGED <<fromHost, tail>>
  BY DEF Send, claim, instance, history
<1>3. CASE UNCHANGED <<fromHost, tail>>
  BY <1>2, <1>3, OrderQuiet DEF Recording
<1>4. CASE Fill(Units(batch))
  <2>1. /\ Newest(batch)
        /\ \A k \in DOMAIN toHost : batch >= Older(toHost[k])
        /\ Recording => batch >= Older(0)
    BY <1>2 DEF WayInOrder
  <2>2. /\ Units(batch) \in Seq(Ages) /\ InOrder(Units(batch))
        /\ \A k \in DOMAIN Units(batch) : Units(batch)[k] >= batch /\ Units(batch)[k] \in Ages
    BY <1>1, UnitsInOrder
  <2>3. \A k \in DOMAIN Units(batch) : Units(batch)[k] < Old =>
          /\ Units(batch)[k] < heard
          /\ \A j \in DOMAIN fromHost : fromHost[j] > Units(batch)[k]
          /\ \A j \in DOMAIN tail : tail[j] > Units(batch)[k]
    <3>1. ASSUME NEW a \in Ages, a >= Older(batch), NEW k \in DOMAIN Units(batch),
                 Units(batch)[k] < Old
          PROVE  Units(batch)[k] < a /\ a > Units(batch)[k]
      <4>1. Units(batch)[k] < a
        BY <1>1, <3>1, UnitsInOrder
      <4> QED
        BY <2>2, <4>1 DEF Ages
    <3> QED
      BY <1>1, <2>1, <3>1 DEF Newest, Before
  <2>4. ASSUME NEW b \in Ages, batch >= Older(b)
        PROVE  Before(Units(batch), b)
    <3>1. batch \in Nat /\ Older(b) \in Nat
      BY <1>1, OlderFacts, Constants DEF Ages
    <3> QED
      BY <2>2, <2>4, <3>1 DEF Before, Ages
  <2>5. /\ \A j \in DOMAIN toHost : Before(Units(batch), toHost[j])
        /\ Recording => Before(Units(batch), 0)
    BY <1>1, <2>1, <2>4, Constants
  <2> QED
    BY <1>2, <1>4, <2>2, <2>3, <2>5, OrderFill
<1> QED
  BY <1>2, <1>3, <1>4

\* Silence is not in anybody's way.
LEMMA OrderPrefill ==
  ASSUME RingsOK, ReturnInOrder, WayInOrder, PrefillSilence
  PROVE  ReturnInOrder' /\ WayInOrder'
<1>1. /\ bpc' = "load" /\ UNCHANGED <<toHost, heard, owned, pc>>
      /\ Fill(Silence(1)) \/ UNCHANGED <<fromHost, tail>>
  BY DEF PrefillSilence, claim, instance, history
<1>2. CASE UNCHANGED <<fromHost, tail>>
  BY <1>1, <1>2, OrderQuiet DEF Recording
<1>3. CASE Fill(Silence(1))
  <2>1. /\ Silence(1) \in Seq(Ages) /\ InOrder(Silence(1))
        /\ \A k \in DOMAIN Silence(1) : Silence(1)[k] = Old
        /\ \A b \in Ages : Before(Silence(1), b)
    BY SilenceInOrder
  <2>2. \A k \in DOMAIN toHost : toHost[k] \in Ages
    BY DEF RingsOK
  <2>3. \A k \in DOMAIN Silence(1) : ~ (Silence(1)[k] < Old)
    BY <2>1, Constants
  <2> QED
    BY <1>1, <1>3, <2>1, <2>2, <2>3, Constants, OrderFill
<1> QED
  BY <1>1, <1>2, <1>3

\* The block that was recorded last is written.
LEMMA OrderWrite ==
  ASSUME RingsOK, ReturnInOrder, WayInOrder, Write
  PROVE  ReturnInOrder' /\ WayInOrder'
<1>1. /\ pc = "write" /\ pc' = "elect" /\ Recording /\ ~ Recording'
      /\ UNCHANGED <<fromHost, tail, heard, owned, bpc, batch>>
      /\ toHost' \in {Append(toHost, 0), toHost}
  BY DEF Write, claim, bridge, history, Recording
<1>2. CASE toHost' = toHost
  BY <1>1, <1>2, OrderQuiet
<1>3. CASE toHost' = Append(toHost, 0)
  <2>1. /\ toHost \in Seq(Ages) /\ Len(toHost) \in Nat /\ DOMAIN toHost = 1 .. Len(toHost)
        /\ DOMAIN toHost' = 1 .. Len(toHost) + 1
        /\ \A k \in 1 .. Len(toHost) : toHost'[k] = toHost[k]
        /\ toHost'[Len(toHost) + 1] = 0
    BY <1>3, Constants DEF RingsOK
  <2>2. ReturnInOrder'
    BY <1>1 DEF ReturnInOrder, Unheard, InOrder
  <2>3. Newest(0) /\ Before(toHost, 0) /\ (bpc = "send" => batch >= Older(0))
    BY <1>1 DEF WayInOrder
  <2>4. \A k \in DOMAIN toHost' : \A j \in 1 .. k - 1 : toHost'[j] >= Older(toHost'[k])
    <3> SUFFICES ASSUME NEW k \in 1 .. Len(toHost) + 1, NEW j \in 1 .. k - 1
                 PROVE  toHost'[j] >= Older(toHost'[k])
      BY <2>1
    <3>1. j \in 1 .. Len(toHost) /\ toHost'[j] = toHost[j]
      BY <2>1
    <3>2. CASE k = Len(toHost) + 1
      BY <2>1, <2>3, <3>1, <3>2 DEF Before
    <3>3. CASE k \in 1 .. Len(toHost)
      BY <2>1, <3>1, <3>3 DEF WayInOrder
    <3> QED
      BY <2>1, <3>2, <3>3
  <2>5. ASSUME NEW k \in DOMAIN toHost'
        PROVE  Newest(toHost[k])' /\ (bpc = "send" => batch >= Older(toHost'[k]))
    <3>1. CASE k = Len(toHost) + 1
      BY <1>1, <2>1, <2>3, <3>1 DEF Newest
    <3>2. CASE k \in 1 .. Len(toHost)
      BY <1>1, <2>1, <3>2 DEF WayInOrder, Newest
    <3> QED
      BY <2>1, <2>5, <3>1, <3>2
  <2>6. bpc = "send" => Newest(batch)'
    BY <1>1 DEF WayInOrder, Newest
  <2> QED
    BY <1>1, <2>2, <2>4, <2>5, <2>6 DEF WayInOrder
<1> QED
  BY <1>1, <1>2, <1>3

\* The bridge takes the blocks in order, and may leave out the older ones.
LEMMA OrderTake ==
  ASSUME RingsOK, ReturnInOrder, WayInOrder, Take
  PROVE  ReturnInOrder' /\ WayInOrder'
<1> DEFINE queue == IF Len(toHost) > Behind THEN Last(toHost, 1) ELSE toHost
<1>1. /\ toHost # << >> /\ batch' = Head(queue) /\ toHost' = Tail(queue) /\ bpc' = "send"
      /\ UNCHANGED <<fromHost, tail, heard, owned, pc>>
  BY DEF Take, claim, instance, history
<1>2. toHost \in Seq(Ages) /\ Len(toHost) \in Nat /\ Len(toHost) >= 1
  BY <1>1 DEF RingsOK
<1>3. PICK n \in 0 .. Len(toHost) - 1 :
        /\ queue \in Seq(Ages) /\ Len(queue) = Len(toHost) - n
        /\ \A k \in 1 .. Len(queue) : queue[k] = toHost[k + n]
  <2>1. CASE Len(toHost) > Behind
    <3>1. /\ queue = SubSeq(toHost, Len(toHost), Len(toHost))
          /\ Len(toHost) \in 1 .. Len(toHost) + 1
      BY <1>2, <2>1 DEF Last
    <3> HIDE DEF queue
    <3>2. /\ queue \in Seq(Ages) /\ Len(queue) = 1 /\ queue[1] = toHost[Len(toHost)]
      BY <1>2, <3>1
    <3>3. \A k \in 1 .. 1 : queue[k] = toHost[k + (Len(toHost) - 1)]
      BY <1>2, <3>2
    <3> QED
      BY <1>2, <3>2, <3>3
  <2>2. CASE ~ (Len(toHost) > Behind)
    BY <1>2, <2>2
  <2> QED
    BY <2>1, <2>2
<1> HIDE DEF queue
<1>4. /\ batch' = toHost[n + 1] /\ n + 1 \in DOMAIN toHost
      /\ DOMAIN toHost' = 1 .. Len(toHost) - n - 1
      /\ \A k \in 1 .. Len(toHost) - n - 1 : toHost'[k] = toHost[k + n + 1]
  <2>1. /\ batch' = queue[1] /\ Len(Tail(queue)) = Len(queue) - 1
        /\ Tail(queue) \in Seq(Ages)
        /\ \A k \in 1 .. Len(queue) - 1 : Tail(queue)[k] = queue[k + 1]
    BY <1>1, <1>2, <1>3
  <2>2. DOMAIN Tail(queue) = 1 .. Len(queue) - 1
    BY <2>1
  <2>3. \A k \in 1 .. Len(queue) - 1 : k + 1 \in 1 .. Len(queue) /\ (k + 1) + n = k + n + 1
    BY <1>2, <1>3
  <2>4. 1 \in 1 .. Len(queue) /\ Len(queue) - 1 = Len(toHost) - n - 1
    BY <1>2, <1>3
  <2> QED
    BY <1>1, <1>2, <1>3, <2>1, <2>2, <2>3, <2>4
<1>5. \A k \in 1 .. Len(toHost) - n - 1 : k + n + 1 \in DOMAIN toHost
  BY <1>2, <1>3
<1>6. ReturnInOrder'
  BY <1>1 DEF ReturnInOrder, Unheard, InOrder
<1>7. \A k \in DOMAIN toHost' : \A j \in 1 .. k - 1 : toHost'[j] >= Older(toHost'[k])
  <2> SUFFICES ASSUME NEW k \in 1 .. Len(toHost) - n - 1, NEW j \in 1 .. k - 1
               PROVE  toHost'[j] >= Older(toHost'[k])
    BY <1>4
  <2>1. /\ j \in 1 .. Len(toHost) - n - 1
        /\ j + n + 1 \in 1 .. (k + n + 1) - 1
    BY <1>2, <1>3
  <2> QED
    BY <1>4, <1>5, <2>1 DEF WayInOrder
<1>8. ASSUME NEW k \in DOMAIN toHost'
      PROVE  Newest(toHost[k])' /\ batch' >= Older(toHost'[k])
  <2>1. toHost'[k] = toHost[k + n + 1] /\ k + n + 1 \in DOMAIN toHost
    BY <1>4, <1>5, <1>8
  <2>2. n + 1 \in 1 .. (k + n + 1) - 1
    BY <1>2, <1>3, <1>4, <1>8
  <2> QED
    BY <1>1, <1>4, <2>1, <2>2 DEF WayInOrder, Newest
<1>9. Newest(batch)'
  BY <1>1, <1>4 DEF WayInOrder, Newest
<1>10. Recording' => Newest(0)' /\ Before(toHost', 0) /\ batch' >= Older(0)
  <2> SUFFICES ASSUME Recording
               PROVE  Newest(0)' /\ Before(toHost', 0) /\ batch' >= Older(0)
    BY <1>1 DEF Recording
  <2>1. Newest(0) /\ Before(toHost, 0)
    BY DEF WayInOrder
  <2>2. Newest(0)'
    BY <1>1, <2>1 DEF Newest
  <2> QED
    BY <1>4, <1>5, <2>1, <2>2 DEF Before
<1> QED
  BY <1>6, <1>7, <1>8, <1>9, <1>10 DEF WayInOrder

\* What is cut from fromHost is older than what stays.
LEMMA OrderPull ==
  ASSUME RingsOK, ReturnInOrder, WayInOrder, Pull
  PROVE  ReturnInOrder' /\ WayInOrder'
<1>1. /\ UNCHANGED <<toHost, tail, heard, owned, bpc, batch>> /\ ~ Recording'
      /\ fromHost' = IF Len(fromHost) > 2 * P THEN Last(fromHost, P) ELSE fromHost
  BY DEF Pull, claim, bridge, history, Recording
<1>2. CASE fromHost' = fromHost
  BY <1>1, <1>2, OrderQuiet
<1>3. CASE Len(fromHost) > 2 * P /\ fromHost' = Last(fromHost, P)
  <2> DEFINE m == Len(fromHost) - P + 1
  <2>1. m \in 1 .. Len(fromHost) + 1 /\ fromHost' = SubSeq(fromHost, m, Len(fromHost))
    BY <1>3, Constants DEF Last, RingsOK
  <2> HIDE DEF m
  <2>2. /\ \A k \in DOMAIN fromHost' : k + m - 1 \in DOMAIN fromHost /\ fromHost'[k] = fromHost[k + m - 1]
        /\ InOrder(fromHost) => InOrder(fromHost')
        /\ \A b : Before(fromHost, b) => Before(fromHost', b)
    BY <2>1, PartInOrder DEF RingsOK
  <2>3. ReturnInOrder'
    BY <1>1, <2>2 DEF ReturnInOrder, Unheard, InOrder
  <2>4. WayInOrder'
    BY <1>1, <2>2 DEF WayInOrder, Newest
  <2> QED
    BY <2>3, <2>4
<1> QED
  BY <1>1, <1>2, <1>3

\* What is played is older than what stays.
LEMMA OrderPlay ==
  ASSUME RingsOK, ReadyWhileUsed, ReturnInOrder, WayInOrder, Play
  PROVE  ReturnInOrder' /\ WayInOrder'
<1> DEFINE played == {heard} \cup {fromHost[k] : k \in 1 .. P}
<1>1. /\ pc = "play" /\ owned /\ ~ Recording'
      /\ UNCHANGED <<toHost, tail, owned, bpc, batch>>
      /\ heard' = Lowest(played)
      /\ fromHost' = SubSeq(fromHost, P + 1, Len(fromHost))
  BY DEF Play, claim, bridge, ReadyWhileUsed, Using, Recording
<1>2. /\ fromHost \in Seq(Ages) /\ Len(fromHost) >= P /\ heard \in Ages
      /\ 1 .. P \subseteq DOMAIN fromHost
      /\ P + 1 \in 1 .. Len(fromHost) + 1
      /\ \A k \in DOMAIN fromHost : fromHost[k] \in Ages
  BY <1>1, Constants DEF RingsOK
<1>3. played \in SUBSET Ages /\ played # {}
  BY <1>2
<1>4. /\ heard' \in played /\ heard' \in Ages /\ heard' <= heard
  BY <1>1, <1>3, LowestAge
<1>5. heard' = heard \/ \E k \in 1 .. P : heard' = fromHost[k]
  BY <1>4
<1> HIDE DEF played
<1>6. /\ \A k \in DOMAIN fromHost' : k + (P + 1) - 1 \in DOMAIN fromHost
                                   /\ fromHost'[k] = fromHost[k + (P + 1) - 1]
      /\ InOrder(fromHost) => InOrder(fromHost')
      /\ \A b : Before(fromHost, b) => Before(fromHost', b)
      /\ DOMAIN fromHost' \subseteq Nat \ {0}
  BY <1>1, <1>2, PartInOrder
<1>7. ReturnInOrder'
  <2>1. InOrder(fromHost) /\ InOrder(tail) /\ Unheard(fromHost)
    BY DEF ReturnInOrder
  <2>2. ASSUME NEW k \in DOMAIN fromHost', fromHost'[k] < Old
        PROVE  fromHost'[k] < heard'
    <3>1. /\ k + (P + 1) - 1 \in DOMAIN fromHost
          /\ fromHost'[k] = fromHost[k + (P + 1) - 1]
          /\ \A j \in 1 .. P : j \in 1 .. (k + (P + 1) - 1) - 1
      BY <1>6, <2>2, Constants
    <3>2. \A j \in 1 .. P : fromHost[j] > fromHost'[k]
      BY <2>1, <2>2, <3>1 DEF InOrder
    <3>3. fromHost'[k] < heard
      BY <2>1, <2>2, <3>1 DEF Unheard
    <3>4. CASE heard' = heard
      BY <3>3, <3>4
    <3>5. ASSUME NEW j \in 1 .. P, heard' = fromHost[j]
          PROVE  fromHost'[k] < heard'
      <4>1. fromHost[j] > fromHost'[k]
        BY <3>2
      <4>2. fromHost[j] \in Nat /\ fromHost'[k] \in Nat
        BY <1>2, <3>1, Constants DEF Ages
      <4> QED
        BY <3>5, <4>1, <4>2
    <3> QED
      BY <1>5, <3>4, <3>5
  <2> QED
    BY <1>1, <1>6, <2>1, <2>2 DEF ReturnInOrder, Unheard, InOrder
<1>8. ASSUME NEW b, Newest(b)
      PROVE  Newest(b)'
  <2>1. heard >= Older(b) /\ Before(fromHost, b) /\ Before(tail, b)
    BY <1>8 DEF Newest
  <2>2. heard' >= Older(b)
    <3>1. CASE heard' = heard
      BY <2>1, <3>1
    <3>2. ASSUME NEW k \in 1 .. P, heard' = fromHost[k]
          PROVE  heard' >= Older(b)
      BY <1>2, <2>1, <3>2 DEF Before
    <3> QED
      BY <1>5, <3>1, <3>2
  <2> QED
    BY <1>1, <1>6, <2>1, <2>2 DEF Newest
<1>9. WayInOrder'
  <2>1. \A k \in DOMAIN toHost : Newest(toHost[k])'
    BY <1>1, <1>8 DEF WayInOrder
  <2>2. bpc = "send" => Newest(batch)'
    BY <1>1, <1>8 DEF WayInOrder
  <2>3. \A k \in DOMAIN toHost' : Newest(toHost[k])'
    BY <1>1, <2>1 DEF Newest
  <2> QED
    BY <1>1, <2>2, <2>3 DEF WayInOrder
<1> QED
  BY <1>7, <1>9

\* An instance that is destroyed has heard nothing; the next one starts anew.
LEMMA OrderDestroy ==
  ASSUME RingsOK, ReturnInOrder, WayInOrder, Destroy
  PROVE  ReturnInOrder' /\ WayInOrder'
<1>1. /\ pc' = "absent" /\ heard' = Old /\ ~ Recording' /\ UNCHANGED <<bpc, batch>>
  BY DEF Destroy, bridge, Recording
<1>2. CASE Zeroed /\ bpc = "off"
  BY <1>1, <1>2, OrderZeroed, Constants
<1>3. CASE UNCHANGED rings
  <2>1. UNCHANGED <<toHost, fromHost, tail>>
    BY <1>3 DEF rings
  <2>2. ReturnInOrder'
    BY <1>1, <2>1 DEF ReturnInOrder, Unheard, InOrder
  <2>3. \A b \in Ages : Old >= Older(b)
    BY OlderFacts, Constants DEF Ages
  <2>4. ASSUME NEW b \in Ages, Newest(b)
        PROVE  Newest(b)'
    BY <1>1, <2>1, <2>3, <2>4 DEF Newest
  <2>5. batch \in Ages /\ \A k \in DOMAIN toHost : toHost[k] \in Ages
    BY DEF RingsOK
  <2>6. \A k \in DOMAIN toHost : Newest(toHost[k])'
    BY <2>1, <2>4, <2>5 DEF WayInOrder
  <2>7. bpc = "send" => Newest(batch)'
    BY <1>1, <2>4, <2>5 DEF WayInOrder
  <2>8. \A k \in DOMAIN toHost' : Newest(toHost[k])'
    BY <2>1, <2>6 DEF Newest
  <2> QED
    BY <1>1, <2>1, <2>2, <2>7, <2>8 DEF WayInOrder
<1> QED
  BY <1>2, <1>3 DEF Destroy

\* The rings are sized while nobody uses them.
LEMMA OrderSize ==
  ASSUME RingsOK, Claimed, ReturnInOrder, WayInOrder, Size
  PROVE  ReturnInOrder' /\ WayInOrder'
<1>1. /\ toHost' = << >> /\ ~ Recording' /\ bpc' # "send"
      /\ UNCHANGED <<heard, owned>>
      /\ \/ fromHost' = fromHost /\ tail' = tail
         \/ fromHost' = << >> /\ tail' = Silence(P)
  BY DEF Size, Claimed, Using, claim, history, instance, Recording
<1>2. DOMAIN toHost' = {}
  BY <1>1
<1>3. ReturnInOrder'
  <2>1. CASE fromHost' = fromHost /\ tail' = tail
    BY <1>1, <2>1 DEF ReturnInOrder, Unheard, InOrder
  <2>2. CASE fromHost' = << >> /\ tail' = Silence(P)
    <3>1. DOMAIN fromHost' = {} /\ InOrder(tail') /\ \A k \in DOMAIN tail' : tail'[k] = Old
      BY <2>2, SilenceInOrder, Constants
    <3> QED
      BY <3>1, Constants DEF ReturnInOrder, InOrder, Unheard
  <2> QED
    BY <1>1, <2>1, <2>2
<1> QED
  BY <1>1, <1>2, <1>3 DEF WayInOrder

LEMMA OrderKept ==
  ASSUME Hazards = {}, SessionInv, [Next]_vars
  PROVE  ReturnInOrder' /\ WayInOrder'
<1>0. /\ RingsOK /\ RingsOK' /\ Claimed /\ Claimed' /\ ReadyWhileUsed
      /\ ReturnInOrder /\ WayInOrder /\ heard' \in Ages
  BY ControlKept, RingsKept, ClaimedKept DEF SessionInv, TypeOK, RingsOK
<1> USE <1>0 DEF Recording, block, rings, claim, instance, bridge, history, vars
<1>1. CASE Create \/ UnlockForProcess \/ MasterAges
  BY <1>1, OrderQuiet DEF Create, UnlockForProcess, MasterAges
<1>2. CASE LockForProcess
  <2>1. CASE hasSlot
    BY <1>2, <2>1, OrderQuiet DEF LockForProcess
  <2>2. CASE ~ hasSlot
    BY <1>2, <2>2, OrderClaim DEF LockForProcess
  <2> QED
    BY <2>1, <2>2
<1>3. CASE Destroy
  BY <1>3, OrderDestroy
<1>4. CASE EngineEnds
  <2>1. CASE bpc # "off"
    BY <1>4, <2>1, OrderQuiet DEF EngineEnds, Closed
  <2>2. CASE bpc = "off"
    BY <1>4, <2>2, OrderZeroed DEF EngineEnds, Closed
  <2> QED
    BY <2>1, <2>2
<1>5. CASE Call
  BY <1>5, OrderCall
<1>6. CASE CallClaims
  BY <1>6, OrderClaim DEF CallClaims
<1>7. CASE CallVerifies \/ Guard
  BY <1>7, OrderQuiet DEF CallVerifies, Guard
<1>8. CASE Elect \/ PassOrMute
  BY <1>8, OrderQuiet DEF Elect, PassOrMute
<1>9. CASE Write
  BY <1>9, OrderWrite
<1>10. CASE Pull
  BY <1>10, OrderPull
<1>11. CASE Play
  BY <1>11, OrderPlay
<1>12. CASE Open \/ Look \/ Announce \/ StartLoop
  BY <1>12, OrderQuiet DEF Open, OpenOutcomes, Look, Announce, StartLoop
<1>13. CASE Shutdown
  <2>1. CASE Found
    BY <1>13, <2>1, OrderQuiet DEF Shutdown
  <2>2. CASE ~ Found
    BY <1>13, <2>2, OrderZeroed DEF Shutdown, Found
  <2> QED
    BY <2>1, <2>2
<1>14. CASE Crash
  <2>1. CASE Found
    BY <1>14, <2>1, OrderQuiet DEF Crash, Closed
  <2>2. CASE ~ Found
    BY <1>14, <2>2, OrderZeroed DEF Crash, Closed, Found
  <2> QED
    BY <2>1, <2>2
<1>15. CASE Clear
  BY <1>15, OrderZeroed DEF Clear, Claimed, Using
<1>16. CASE Size
  BY <1>16, OrderSize
<1>17. CASE PrefillSilence
  BY <1>17, OrderPrefill
<1>18. CASE Take
  BY <1>18, OrderTake
<1>19. CASE Flush
  <2>1. /\ DOMAIN toHost' = {} /\ bpc' = "read"
        /\ UNCHANGED <<fromHost, tail, heard, owned, pc>>
    BY <1>19 DEF Flush
  <2>2. ReturnInOrder'
    BY <2>1 DEF ReturnInOrder, Unheard, InOrder
  <2>3. WayInOrder'
    BY <2>1 DEF WayInOrder, Newest, Before
  <2> QED
    BY <2>2, <2>3
<1>20. CASE Send
  BY <1>20, OrderSend
<1>21. CASE UNCHANGED vars
  BY <1>21, OrderQuiet
<1> QED
  BY <1>1, <1>2, <1>3, <1>4, <1>5, <1>6, <1>7, <1>8, <1>9, <1>10, <1>11, <1>12,
     <1>13, <1>14, <1>15, <1>16, <1>17, <1>18, <1>19, <1>20, <1>21
     DEF Next, ApoProcess, Bridge

-----------------------------------------------------------------------------
(* Theorems *)

LEMMA InitSession == Init => SessionInv
<1> SUFFICES ASSUME Init PROVE SessionInv
  OBVIOUS
<1>1. ControlOK
  BY DEF Init, ControlOK
<1>2. CountersOK
  BY SessionAssumption DEF Init, CountersOK
<1>3. RingsOK
  BY EmptyType, SilenceType, Constants DEF Init, RingsOK
<1>4. Announced /\ Claimed /\ ReadyWhileUsed
  BY DEF Init, Announced, Announcing, Claimed, ReadyWhileUsed, Using
<1>5. Unclaimed /\ FlushDue /\ NoOldSession
  BY DEF Init, Unclaimed, FlushDue, Serving, NoOldSession
<1>6. ReturnInOrder /\ WayInOrder
  <2>1. DOMAIN toHost = {} /\ DOMAIN fromHost = {} /\ tail = Silence(P)
    BY DEF Init
  <2>2. InOrder(tail) /\ \A k \in DOMAIN tail : tail[k] = Old
    BY <2>1, SilenceInOrder, Constants
  <2> QED
    BY <2>1, <2>2, Constants
       DEF Init, ReturnInOrder, InOrder, Unheard, WayInOrder, Recording
<1> QED
  BY <1>1, <1>2, <1>3, <1>4, <1>5, <1>6 DEF SessionInv, TypeOK

LEMMA NextSession ==
  ASSUME Hazards = {}, SessionInv, [Next]_vars
  PROVE  SessionInv'
<1> USE DEF SessionInv, TypeOK
<1>1. TypeOK'
  BY ControlKept, CountersKept, RingsKept
<1>2. Announced' /\ Claimed' /\ ReadyWhileUsed'
  BY AnnouncedKept, ClaimedKept, ReadyKept
<1>3. Unclaimed' /\ FlushDue' /\ NoOldSession'
  BY UnclaimedKept, FlushDueKept, NoOldSessionKept
<1>4. ReturnInOrder' /\ WayInOrder'
  BY OrderKept
<1> QED
  BY <1>1, <1>2, <1>3, <1>4

\* The block is sized before it is announced, a claim is not cleared once it is
\* used, flushes are never forgotten, and the audio in the rings is in order, for
\* any sizes and any number of starts.
THEOREM SessionInvariant ==
  ASSUME Hazards = {}
  PROVE  Spec => []SessionInv
BY InitSession, NextSession, PTL DEF Spec

\* APOProcess never computes with a capacity of 0 nor in a slot that is not its own.
THEOREM CapacityGuarded ==
  ASSUME Hazards = {}
  PROVE  Spec => []ReadyWhileUsed
<1>1. SessionInv => ReadyWhileUsed
  BY DEF SessionInv
<1> QED
  BY <1>1, SessionInvariant, PTL

\* The bridge processes nothing that was recorded before it announced itself.
THEOREM SessionsApart ==
  ASSUME Hazards = {}
  PROVE  Spec => []NoOldSession
<1>1. SessionInv => NoOldSession
  BY DEF SessionInv
<1> QED
  BY <1>1, SessionInvariant, PTL

\* Audio is played in the order it was recorded and no unit twice in the life of an
\* instance, for rings, periods and limits of any size, any number of late calls,
\* crashes and restarts.
THEOREM OrderOfPlay ==
  ASSUME Hazards = {}
  PROVE  Spec => PlayedInOrder
<1>1. ASSUME SessionInv, pc = "play"
      PROVE  \A k \in 1 .. P :
               /\ fromHost[k] < Old => fromHost[k] < heard
               /\ \A j \in 1 .. k - 1 : fromHost[k] < Old => fromHost[j] > fromHost[k]
  <2>1. /\ InOrder(fromHost) /\ Unheard(fromHost)
        /\ fromHost \in Seq(Ages) /\ Len(fromHost) >= P
    BY <1>1 DEF SessionInv, TypeOK, RingsOK, ReturnInOrder
  <2>2. 1 .. P \subseteq DOMAIN fromHost
    BY <2>1, Constants
  <2> QED
    BY <2>1, <2>2 DEF InOrder, Unheard
<1>2. SessionInv =>
        [pc = "play" /\ pc' = "idle" =>
           \A k \in 1 .. P :
             /\ fromHost[k] < Old => fromHost[k] < heard
             /\ \A j \in 1 .. k - 1 : fromHost[k] < Old => fromHost[j] > fromHost[k]]_vars
  BY <1>1
<1> QED
  BY <1>2, SessionInvariant, PTL DEF PlayedInOrder

=============================================================================
