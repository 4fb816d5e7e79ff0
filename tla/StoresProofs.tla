---------------------------- MODULE StoresProofs ----------------------------
(***************************************************************************)
(* Proofs about what keeps data.  OsalClock, for any gaps below three      *)
(* rounds of the conversion: it is exact.  OsalMemory, for a heap of any   *)
(* size, divided anywhere, and any sizes asked for: blocks never overlap,  *)
(* an allocation fails only when there is no room, and no free block is    *)
(* passed by for good.  Sapi, for any commands, offers and bounds: each    *)
(* request is answered once, and what was bound is saved.  ZdLinkKeys, for *)
(* any devices, table, addresses and numbers of calls, frames and faults:  *)
(* a key that was established is found again, and no counter is used twice.*)
(***************************************************************************)
EXTENDS OsalClock, OsalMemory, Sapi, ZdLinkKeys,
        SequenceTheorems, FiniteSetTheorems, TLAPS

-----------------------------------------------------------------------------
(* The clock.                                                              *)

(***************************************************************************)
(* For every set of gaps below three rounds of the loop (24564 ticks,      *)
(* about 7.8 s) the sum fits in 16 bits and the clock is exact for ever.   *)
(***************************************************************************)

ShortGaps == \A gap \in Gaps : gap < 3 * MAXCALCTICKS

\* The counter at the last call is that of the last tick.
Synchronised == previousMacTimerTick = macMcuPrecisionCount(ticks)

ClockInv == TypeOK /\ Synchronised /\ ClockExact

-----------------------------------------------------------------------------
(* Arithmetic. *)

\* The ticks of a gap below 65536 are recovered from two 16-bit counts.
LEMMA DeltaIsGap ==
    ASSUME NEW dt \in Nat, NEW gap \in Nat, gap < 65536
    PROVE  (macMcuPrecisionCount(dt + gap) - macMcuPrecisionCount(dt)) % UINT16 = gap
BY DEF macMcuPrecisionCount, UINT16

\* A 16-bit count.
LEMMA CountRange ==
    ASSUME NEW dt \in Nat
    PROVE  macMcuPrecisionCount(dt) \in Nat /\ macMcuPrecisionCount(dt) < UINT16
BY DEF macMcuPrecisionCount, UINT16

\* Below three rounds the sum fits, and is 8 times the ticks the loop leaves
\* plus the remainder and 4 for each round.
LEMMA SumBelow ==
    ASSUME NEW dt \in Nat, dt < 24564, NEW rem \in Nat, rem < 25
    PROVE  /\ Rounds(dt) \in Nat /\ Rounds(dt) <= 2
           /\ Sum(dt, rem) \in Nat /\ Sum(dt, rem) < 65536
           /\ Sum(dt, rem) = 8 * dt + rem - Rounds(dt) * 65500
<1>1. CASE dt <= 8188
  <2>1. Rounds(dt) = 0
    BY <1>1 DEF Rounds, MAXCALCTICKS
  <2>2. Sum(dt, rem) = 8 * dt + rem
    BY <2>1, <1>1 DEF Sum, MAXCALCTICKS
  <2>3. QED
    BY <1>1, <2>1, <2>2
<1>2. CASE 8188 < dt /\ dt <= 16376
  <2>1. Rounds(dt) = 1
    BY <1>2 DEF Rounds, MAXCALCTICKS
  <2>2. Sum(dt, rem) = 8 * dt + rem - 65500
    BY <2>1, <1>2 DEF Sum, MAXCALCTICKS
  <2>3. QED
    BY <1>2, <2>1, <2>2
<1>3. CASE 16376 < dt
  <2>1. Rounds(dt) = 2
    BY <1>3 DEF Rounds, MAXCALCTICKS
  <2>2. Sum(dt, rem) = 8 * dt + rem - 131000
    BY <2>1, <1>3 DEF Sum, MAXCALCTICKS
  <2>3. QED
    BY <1>3, <2>1, <2>2
<1>4. QED
  BY <1>1, <1>2, <1>3

\* Division by 25 with remainder, of a 16-bit number.
LEMMA DivisionBy25 ==
    ASSUME NEW s \in Nat, s < 65536
    PROVE  /\ s % 65536 = s
           /\ s \div 25 \in Nat /\ s \div 25 <= 2621
           /\ s % 25 \in Nat /\ s % 25 < 25
           /\ s = 25 * (s \div 25) + (s % 25)
OBVIOUS

\* The same of a sum of milliseconds.
LEMMA DivisionBy1000 ==
    ASSUME NEW s \in Nat
    PROVE  /\ s \div 1000 \in Nat
           /\ s % 1000 \in Nat /\ s % 1000 < 1000
           /\ s = 1000 * (s \div 1000) + (s % 1000)
OBVIOUS

\* The conversion is exact: milliseconds and new remainder account for the
\* ticks and the old remainder.
LEMMA ConversionExact ==
    ASSUME NEW dt \in Nat, dt < 24564, NEW rem \in Nat, rem < 25
    PROVE  LET ms   == elapsedMSec(dt, rem)
               left == (Sum(dt, rem) % UINT16) % 25
           IN  /\ ms \in Nat /\ ms <= 20971
               /\ left \in Nat /\ left < 25
               /\ 25 * ms + left = 8 * dt + rem
<1> DEFINE r == Rounds(dt)
           s == Sum(dt, rem)
<1>1. /\ r \in Nat /\ r <= 2
      /\ s \in Nat /\ s < 65536
      /\ s = 8 * dt + rem - r * 65500
  <2>1. /\ Rounds(dt) \in Nat /\ Rounds(dt) <= 2
        /\ Sum(dt, rem) \in Nat /\ Sum(dt, rem) < 65536
        /\ Sum(dt, rem) = 8 * dt + rem - Rounds(dt) * 65500
    BY SumBelow
  <2> QED
    BY <2>1
<1>2. elapsedMSec(dt, rem) = r * 2620 + ((s % 65536) \div 25)
  BY DEF elapsedMSec, MAXCALCTICKS, UINT16
<1>3. (Sum(dt, rem) % UINT16) % 25 = (s % 65536) % 25
  BY DEF UINT16
<1> HIDE DEF r, s
<1>4. /\ s % 65536 = s
      /\ s \div 25 \in Nat /\ s \div 25 <= 2621
      /\ s % 25 \in Nat /\ s % 25 < 25
      /\ s = 25 * (s \div 25) + (s % 25)
  BY <1>1, DivisionBy25
<1> DEFINE q == s \div 25
           m == s % 25
<1>5. /\ elapsedMSec(dt, rem) = r * 2620 + q /\ (Sum(dt, rem) % UINT16) % 25 = m
      /\ q \in Nat /\ q <= 2621 /\ m \in Nat /\ m < 25 /\ s = 25 * q + m
  BY <1>2, <1>3, <1>4
<1> HIDE DEF q, m
<1>6. 25 * (r * 2620 + q) + m = 8 * dt + rem
  BY <1>1, <1>5
<1>7. QED
  BY <1>1, <1>5, <1>6

\* osalClockUpdate keeps the milliseconds in 0 .. 1000 and adds exactly ms.
LEMMA ClockUpdateExact ==
    ASSUME TypeOK, NEW ms \in Nat, ms <= 20971, osalClockUpdate(ms)
    PROVE  /\ timeMSec' \in 0 .. 1000
           /\ OSAL_timeSeconds' \in Nat
           /\ 1000 * OSAL_timeSeconds' + timeMSec' = 1000 * OSAL_timeSeconds + timeMSec + ms
<1> DEFINE total == timeMSec + ms
<1>1. timeMSec \in Nat /\ timeMSec <= 1000 /\ OSAL_timeSeconds \in Nat
  BY DEF TypeOK
<1>2. total \in Nat /\ total <= 21971 /\ (timeMSec + ms) % UINT16 = total
  BY <1>1 DEF UINT16
<1>3. CASE total > 1000
  <2>1. OSAL_timeSeconds' = OSAL_timeSeconds + (total \div 1000) /\ timeMSec' = total % 1000
    BY <1>2, <1>3 DEF osalClockUpdate
  <2> HIDE DEF total
  <2>2. /\ total \div 1000 \in Nat /\ total % 1000 \in Nat /\ total % 1000 < 1000
        /\ total = 1000 * (total \div 1000) + (total % 1000)
    BY <1>2, DivisionBy1000
  <2> DEFINE m == total % 1000
  <2>5. m \in Nat /\ m < 1000 /\ timeMSec' = m
    BY <2>1, <2>2
  <2> HIDE DEF m
  <2>3. timeMSec' \in 0 .. 1000
    BY <2>5
  <2>4. QED
    BY <1>1, <2>1, <2>2, <2>3 DEF total
<1>4. CASE ~(total > 1000)
  <2>1. OSAL_timeSeconds' = OSAL_timeSeconds /\ timeMSec' = total
    BY <1>2, <1>4 DEF osalClockUpdate
  <2>2. QED
    BY <1>1, <1>2, <1>4, <2>1
<1>5. QED
  BY <1>3, <1>4

-----------------------------------------------------------------------------
(* The inductive invariant. *)

LEMMA InitClockInv == Init => ClockInv
BY DEF Init, ClockInv, TypeOK, Synchronised, ClockExact, macMcuPrecisionCount, UINT16

\* One call after a gap below three rounds.
LEMMA CallClockInv ==
    ASSUME ClockInv, NEW gap \in Nat, gap < 24564,
           ticks' = ticks + gap, osalTimeUpdate(ticks + gap)
    PROVE  ClockInv'
<1>1. ticks' = ticks + gap /\ osalTimeUpdate(ticks + gap)
  OBVIOUS
<1>2. gap \in Nat /\ gap < 24564
  OBVIOUS
<1>3. ticks \in Nat /\ ticks' \in Nat
  BY <1>1, <1>2 DEF ClockInv, TypeOK
<1>4. previousMacTimerTick' = macMcuPrecisionCount(ticks')
  BY <1>1 DEF osalTimeUpdate
<1>5. previousMacTimerTick' \in Nat /\ previousMacTimerTick' < UINT16
  BY <1>3, <1>4, CountRange
<1>6. (macMcuPrecisionCount(ticks + gap) - previousMacTimerTick) % UINT16 = gap
  BY <1>2, <1>3, DeltaIsGap DEF ClockInv, Synchronised
<1>7. /\ remUsTicks \in Nat /\ remUsTicks < 25
      /\ timeMSec \in 0 .. 1000 /\ OSAL_timeSeconds \in Nat
  BY DEF ClockInv, TypeOK
<1>8. 25 * (1000 * OSAL_timeSeconds + timeMSec) + remUsTicks = 8 * ticks
  BY DEF ClockInv, ClockExact
<1>9. CASE gap = 0
  <2>1. UNCHANGED <<remUsTicks, timeMSec, OSAL_timeSeconds>>
    BY <1>1, <1>6, <1>9 DEF osalTimeUpdate
  <2>2. QED
    BY <1>1, <1>3, <1>4, <1>5, <1>7, <1>8, <1>9, <2>1
    DEF ClockInv, TypeOK, Synchronised, ClockExact
<1>10. CASE gap # 0
  <2> DEFINE ms   == elapsedMSec(gap, remUsTicks)
             left == (Sum(gap, remUsTicks) % UINT16) % 25
  <2>1. remUsTicks' = left /\ osalClockUpdate(ms)
    BY <1>1, <1>6, <1>10 DEF osalTimeUpdate
  <2>2. /\ ms \in Nat /\ ms <= 20971
        /\ left \in Nat /\ left < 25
        /\ 25 * ms + left = 8 * gap + remUsTicks
    BY <1>2, <1>7, ConversionExact
  <2> HIDE DEF ms, left
  <2>3. /\ timeMSec' \in 0 .. 1000
        /\ OSAL_timeSeconds' \in Nat
        /\ 1000 * OSAL_timeSeconds' + timeMSec' = 1000 * OSAL_timeSeconds + timeMSec + ms
    BY <2>1, <2>2, ClockUpdateExact DEF ClockInv
  <2>4. TypeOK'
    BY <1>3, <1>5, <2>1, <2>2, <2>3 DEF TypeOK
  <2>5. ClockExact'
    <3>1. remUsTicks' = left /\ ticks' = ticks + gap
      BY <1>1, <2>1
    <3> DEFINE old == 1000 * OSAL_timeSeconds + timeMSec
    <3>2. 1000 * OSAL_timeSeconds' + timeMSec' = old + ms
      BY <2>3
    <3>3. old \in Nat /\ 25 * old + remUsTicks = 8 * ticks
      BY <1>7, <1>8
    <3> HIDE DEF old
    <3>4. 25 * (old + ms) + left = 8 * (ticks + gap)
      BY <1>2, <1>3, <1>7, <2>2, <3>3
    <3>5. QED
      BY <3>1, <3>2, <3>4 DEF ClockExact, old
  <2>6. QED
    BY <1>4, <2>4, <2>5 DEF ClockInv, Synchronised
<1>11. QED
  BY <1>9, <1>10

LEMMA TimePassesClockInv ==
    ASSUME ShortGaps, ClockInv, TimePasses
    PROVE  ClockInv'
<1>1. PICK gap \in Gaps : ticks' = ticks + gap /\ osalTimeUpdate(ticks + gap)
  BY DEF TimePasses
<1>2. gap \in Nat /\ gap < 24564
  BY GapsAssumption DEF ShortGaps, MAXCALCTICKS
<1>3. QED
  BY <1>1, <1>2, CallClockInv

LEMMA ClockInvAlways == ASSUME ShortGaps PROVE Spec => []ClockInv
<1>1. ClockInv /\ [Next]_vars => ClockInv'
  <2>1. SUFFICES ASSUME ClockInv, [Next]_vars PROVE ClockInv'
    OBVIOUS
  <2>2. CASE TimePasses
    BY <2>1, <2>2, TimePassesClockInv
  <2>3. CASE UNCHANGED vars
    BY <2>1, <2>3
    DEF vars, ClockInv, TypeOK, Synchronised, ClockExact
  <2>4. QED
    BY <2>1, <2>2, <2>3 DEF Next
<1>2. QED
  BY InitClockInv, <1>1, PTL DEF Spec

\* With calls less than three rounds of the conversion loop apart, the clock
\* shows exactly the time that has passed (osalTimeUpdate, osalClockUpdate).
THEOREM ClockIsExact == ASSUME ShortGaps PROVE Spec => []ClockExact
<1>1. ClockInv => ClockExact
  BY DEF ClockInv
<1>2. QED
  BY ClockInvAlways, <1>1, PTL

\* With calls less than three rounds apart the sum fits in 16 bits, as the
\* comment at OSAL_Clock.c 56 asks of it.
THEOREM SumFitsBelowThreeRounds == ASSUME ShortGaps PROVE Spec => SumFits
<1> DEFINE Fits == Sum((macMcuPrecisionCount(ticks') - previousMacTimerTick) % UINT16, remUsTicks) < UINT16
<1>1. ClockInv /\ [Next]_vars => [Fits]_vars
  <2>1. SUFFICES ASSUME ClockInv, TimePasses PROVE Fits
    BY DEF Next
  <2>2. PICK gap \in Gaps : ticks' = ticks + gap
    BY <2>1 DEF TimePasses
  <2>3. gap \in Nat /\ gap < 24564
    BY GapsAssumption DEF ShortGaps, MAXCALCTICKS
  <2>4. (macMcuPrecisionCount(ticks') - previousMacTimerTick) % UINT16 = gap
    BY <2>1, <2>2, <2>3, DeltaIsGap DEF ClockInv, TypeOK, Synchronised
  <2>5. remUsTicks \in Nat /\ remUsTicks < 25
    BY <2>1 DEF ClockInv, TypeOK
  <2>6. Sum(gap, remUsTicks) < 65536
    BY <2>3, <2>5, SumBelow
  <2>7. QED
    BY <2>4, <2>6 DEF UINT16
<1>2. QED
  BY ClockInvAlways, <1>1, PTL DEF SumFits, Spec

\* The comment is wrong beyond: it leaves out the 4 that each round adds to the
\* remainder.  From start-up a call after 3 ticks leaves the remainder 24, and
\* with that remainder a gap of exactly three rounds makes the sum 65536: it
\* wraps, and the clock is no longer exact.
THEOREM SumWrapsAtThreeRounds ==
    /\ Init /\ TimePasses /\ ticks' = 3 => ClockInv' /\ remUsTicks' = 24
    /\ ClockInv /\ remUsTicks = 24 /\ TimePasses /\ ticks' = ticks + 3 * MAXCALCTICKS
       => /\ Sum((macMcuPrecisionCount(ticks') - previousMacTimerTick) % UINT16, remUsTicks) = UINT16
          /\ ~ClockExact'
<1>1. ASSUME Init, TimePasses, ticks' = 3 PROVE ClockInv' /\ remUsTicks' = 24
  <2>1. ticks' = ticks + 3 /\ osalTimeUpdate(ticks + 3) /\ ClockInv
    BY <1>1, InitClockInv, GapsAssumption DEF Init, TimePasses
  <2>2. (macMcuPrecisionCount(ticks + 3) - previousMacTimerTick) % UINT16 = 3 /\ remUsTicks = 0
    BY <1>1, DeltaIsGap DEF Init, macMcuPrecisionCount, UINT16
  <2>3. Rounds(3) = 0
    BY DEF Rounds, MAXCALCTICKS
  <2>4. Sum(3, 0) = 24
    BY <2>3 DEF Sum, MAXCALCTICKS
  <2>5. remUsTicks' = 24
    BY <2>1, <2>2, <2>4 DEF osalTimeUpdate, UINT16
  <2>6. QED
    BY <2>1, <2>5, CallClockInv
<1>2. ASSUME ClockInv, remUsTicks = 24, TimePasses, ticks' = ticks + 3 * MAXCALCTICKS
      PROVE  /\ Sum((macMcuPrecisionCount(ticks') - previousMacTimerTick) % UINT16, remUsTicks) = UINT16
             /\ ~ClockExact'
  <2>1. ticks \in Nat /\ ticks' = ticks + 24564 /\ osalTimeUpdate(ticks')
    BY <1>2, GapsAssumption DEF TimePasses, ClockInv, TypeOK, MAXCALCTICKS
  <2>2. (macMcuPrecisionCount(ticks') - previousMacTimerTick) % UINT16 = 24564
    BY <1>2, <2>1, DeltaIsGap DEF ClockInv, Synchronised
  <2>3. Rounds(24564) = 2
    BY DEF Rounds, MAXCALCTICKS
  <2>4. Sum(24564, 24) = 65536
    BY <2>3 DEF Sum, MAXCALCTICKS
  <2>5. elapsedMSec(24564, 24) = 5240
    BY <2>3, <2>4 DEF elapsedMSec, MAXCALCTICKS, UINT16
  <2>6. remUsTicks' = 0 /\ osalClockUpdate(5240)
    BY <1>2, <2>1, <2>2, <2>4, <2>5 DEF osalTimeUpdate, UINT16
  <2>7. 1000 * OSAL_timeSeconds' + timeMSec' = 1000 * OSAL_timeSeconds + timeMSec + 5240
    BY <1>2, <2>6, ClockUpdateExact DEF ClockInv
  <2> DEFINE old == 1000 * OSAL_timeSeconds + timeMSec
  <2>8. old \in Nat /\ 25 * old + 24 = 8 * ticks
    BY <1>2 DEF ClockInv, TypeOK, ClockExact
  <2>9. 1000 * OSAL_timeSeconds' + timeMSec' = old + 5240
    BY <2>7
  <2> HIDE DEF old
  <2>10. 25 * (old + 5240) + 0 # 8 * (ticks + 24564)
    BY <2>1, <2>8
  <2>11. ~ClockExact'
    BY <2>1, <2>6, <2>9, <2>10 DEF ClockExact
  <2>12. QED
    BY <1>2, <2>2, <2>4, <2>11 DEF UINT16
<1>3. QED
  BY <1>1, <1>2

-----------------------------------------------------------------------------
(* The heap.                                                               *)

\* What a table of headers must be to tile the heap.
Tiled(h) ==
    /\ DOMAIN h \subseteq Address /\ 0 \in DOMAIN h
    /\ \A a \in DOMAIN h : h[a] \in 1 .. HeapEnd /\ a + h[a] \in DOMAIN h \cup {HeapEnd}
    /\ \A a, b \in DOMAIN h : a < b => a + h[a] <= b

\* The wall is a header that nobody holds, and ff1 never passes ff2.
WallKept == len[Wall] = HDRSZ /\ ff1 <= ff2 /\ Wall + HDRSZ \notin DOMAIN live

HeapInv == HeapTypeOK /\ BlocksApart /\ NothingStranded /\ WallKept

-----------------------------------------------------------------------------
(* Numbers.                                                                *)

LEMMA LeastOfSome ==
    ASSUME NEW n \in Nat, NEW S \in SUBSET (0 .. n), S # {}
    PROVE  \E x \in S : \A y \in S : x <= y
<1> DEFINE T == {0 .. x : x \in S}
<1>1. T \subseteq FiniteSubsetsOf(0 .. n) /\ T # {}
  <2>1. ASSUME NEW x \in S PROVE 0 .. x \subseteq 0 .. n /\ IsFiniteSet(0 .. x)
    BY FS_Interval
  <2>2. QED
    BY <2>1 DEF FiniteSubsetsOf
<1>2. PICK v \in T : \A u \in T : ~ (<<u, v>> \in StrictSubsetOrdering(0 .. n))
  <2> HIDE DEF T
  <2>1. QED
    BY <1>1, FS_StrictSubsetOrderingWellFounded, WFMin
<1>3. PICK x \in S : v = 0 .. x
  BY <1>2
<1>4. ASSUME NEW y \in S PROVE x <= y
  <2>1. 0 .. y \in T /\ 0 .. y \subseteq 0 .. n /\ 0 .. x \subseteq 0 .. n
    OBVIOUS
  <2>2. ~ (0 .. y \subseteq 0 .. x /\ 0 .. y # 0 .. x)
    BY <1>2, <1>3, <2>1 DEF StrictSubsetOrdering
  <2>3. x \in Nat /\ y \in Nat
    OBVIOUS
  <2>4. QED
    BY <2>2, <2>3
<1>5. QED
  BY <1>4

LEMMA MinIsLowest ==
    ASSUME NEW n \in Nat, NEW S \in SUBSET (0 .. n), S # {}
    PROVE  Min(S) \in S /\ \A y \in S : Min(S) <= y
BY LeastOfSome DEF Min

LEMMA MaxIsHighest ==
    ASSUME NEW n \in Nat, NEW S \in SUBSET (0 .. n), S # {}
    PROVE  Max(S) \in S /\ \A y \in S : Max(S) >= y
<1> DEFINE T == {n - x : x \in S}
<1>1. T \in SUBSET (0 .. n) /\ T # {}
  <2>1. ASSUME NEW x \in S PROVE n - x \in 0 .. n
    <3>1. x \in 0 .. n
      OBVIOUS
    <3>2. QED
      BY <3>1
  <2>2. T \subseteq 0 .. n
    BY <2>1
  <2>3. T # {}
    OBVIOUS
  <2>4. QED
    BY <2>2, <2>3
<1>2. PICK z \in T : \A y \in T : z <= y
  <2> HIDE DEF T
  <2>1. QED
    BY <1>1, LeastOfSome
<1>3. PICK x \in S : z = n - x
  BY <1>2
<1>4. \A y \in S : x >= y
  <2> TAKE y \in S
  <2>1. n - y \in T
    OBVIOUS
  <2>2. x \in 0 .. n /\ y \in 0 .. n
    OBVIOUS
  <2>3. n - x <= n - y
    BY <1>2, <1>3, <2>1
  <2>4. QED
    BY <2>2, <2>3
<1>5. QED
  BY <1>4 DEF Max

-----------------------------------------------------------------------------
(* The scan.                                                               *)

LEMMA BlocksKnown ==
    ASSUME HeapInv
    PROVE  /\ HeapEnd \in Nat /\ Free \subseteq Block /\ inUse \subseteq Block
           /\ \A a \in Block : /\ a \in Nat /\ After(a) \in Nat /\ a < After(a)
                               /\ len[a] \in Nat /\ len[a] = After(a) - a
                               /\ After(a) <= HeapEnd /\ After(a) \in Block \cup {HeapEnd}
           /\ \A a, b \in Block : a < b => After(a) <= b
<1>1. HeapEnd \in Nat
  BY HeapAssumption
<1>2. \A a \in Block : a \in Nat /\ a <= HeapEnd /\ len[a] \in Nat /\ len[a] > 0
  BY <1>1 DEF HeapInv, HeapTypeOK, Address
<1>3. \A a \in Block : After(a) \in Block \cup {HeapEnd}
  BY DEF HeapInv, BlocksApart, Tiling
<1>4. \A a, b \in Block : a < b => After(a) <= b
  BY DEF HeapInv, BlocksApart, Tiling
<1>5. \A a \in Block : After(a) = a + len[a] /\ After(a) <= HeapEnd
  BY <1>1, <1>2, <1>3 DEF After
<1>6. QED
  BY <1>1, <1>2, <1>3, <1>4, <1>5 DEF Free, HeapInv, HeapTypeOK

\* The block c is in one stretch of free blocks with the block a.
Together(a, c) == c \in Free /\ c >= a /\ \A x \in a .. c : x \notin inUse

LEMMA JoinedEnds ==
    ASSUME HeapInv, NEW a \in Free, NEW n \in Nat
    PROVE  /\ Joined(a, n) \in Nat
           /\ \E c \in Free : Together(a, c) /\ Joined(a, n) = After(c)
           /\ (\E c \in Free : Together(a, c) /\ After(c) - a >= n) => Joined(a, n) - a >= n
<1>1. Ends(a) = {After(b) : b \in {c \in Free : Together(a, c)}}
  BY DEF Ends, Together
<1>2. Ends(a) \in SUBSET (0 .. HeapEnd)
  BY <1>1, BlocksKnown
<1>3. After(a) \in Ends(a)
  <2>1. Together(a, a)
    BY BlocksKnown DEF Together, Free
  <2>2. QED
    BY <1>1, <2>1
<1> DEFINE enough == {e \in Ends(a) : e - a >= n}
<1>4. Joined(a, n) = IF enough = {} THEN Max(Ends(a)) ELSE Min(enough)
  BY DEF Joined
<1>5. HeapEnd \in Nat
  BY HeapAssumption
<1>6. CASE enough = {}
  <2>1. Joined(a, n) \in Ends(a)
    BY <1>2, <1>3, <1>4, <1>5, <1>6, MaxIsHighest
  <2>2. ~ \E c \in Free : Together(a, c) /\ After(c) - a >= n
    BY <1>1, <1>6
  <2>3. QED
    BY <1>1, <1>2, <2>1, <2>2
<1>7. CASE enough # {}
  <2>1. Joined(a, n) \in enough
    <3>1. enough \in SUBSET (0 .. HeapEnd)
      BY <1>2
    <3>2. QED
      BY <1>4, <1>5, <1>7, <3>1, MinIsLowest
  <2>2. Joined(a, n) \in Ends(a) /\ Joined(a, n) - a >= n
    BY <2>1
  <2>3. QED
    BY <1>1, <1>2, <2>2
<1>8. QED
  BY <1>6, <1>7

\* What is joined to one head ends before the next.
LEMMA HeadsApart ==
    ASSUME HeapInv, NEW from \in Nat, NEW n \in Nat,
           NEW x \in Heads(from), NEW y \in Heads(from), x < y
    PROVE  Joined(x, n) <= y
<1>1. x \in Free /\ y \in Free /\ x >= from /\ x \in Nat /\ y \in Nat
  BY BlocksKnown DEF Heads
<1>2. PICK b \in inUse : After(b) = y
  BY <1>1 DEF Heads
<1>3. PICK c \in Free : Together(x, c) /\ Joined(x, n) = After(c)
  BY <1>1, JoinedEnds
<1>4. b \in Block /\ c \in Block /\ x \in Block
  BY <1>1, BlocksKnown
<1>5. x <= b
  BY <1>1, <1>2, <1>4, BlocksKnown
<1>6. ~ (b <= c)
  BY <1>1, <1>3, <1>4, <1>5, BlocksKnown DEF Together
<1>7. QED
  BY <1>2, <1>3, <1>4, <1>6, BlocksKnown

\* The scan takes off every header within what it joins.
LEMMA InnerAbsorbed ==
    ASSUME HeapInv, NEW n \in Nat, NEW a \in Visited(n), NEW b \in Block, a < b, b < Joined(a, n)
    PROVE  b \in Absorbed(n)
<1>1. a \in Free /\ a \in Block
  BY BlocksKnown DEF Visited, Heads
<1>2. PICK c \in Free : Together(a, c) /\ Joined(a, n) = After(c)
  BY <1>1, JoinedEnds
<1>3. b <= c
  BY <1>1, <1>2, BlocksKnown
<1>4. b \in a .. c
  BY <1>1, <1>2, <1>3, BlocksKnown
<1>5. b \in Free
  BY <1>2, <1>4 DEF Together, Free
<1>6. QED
  BY <1>5 DEF Absorbed

LEMMA StartKnown ==
    ASSUME HeapInv, NEW n \in Nat
    PROVE  Start(n) \in Block /\ Start(n) \in Nat /\ ff1 <= Start(n) /\ Start(n) <= ff2
<1>1. ff1 \in Block /\ ff2 \in Block /\ ff1 <= ff2
  BY DEF HeapInv, BlocksApart, Tiling, WallKept
<1>2. ff1 \in Nat /\ ff2 \in Nat
  BY <1>1, BlocksKnown
<1>3. QED
  BY <1>1, <1>2 DEF Start

\* The scan leaves a tiling, with what is in use and the places to start from.
LEMMA ScanTiles ==
    ASSUME HeapInv, NEW n \in Nat
    PROVE  /\ Tiled(Scanned(n)) /\ Visited(n) \subseteq DOMAIN Scanned(n)
           /\ DOMAIN Scanned(n) \subseteq Block /\ inUse \subseteq DOMAIN Scanned(n)
           /\ {ff1, ff2} \subseteq DOMAIN Scanned(n)
           /\ \A a \in inUse : Scanned(n)[a] = len[a]
<1> DEFINE h == Scanned(n)
<1>1. DOMAIN h = Block \ Absorbed(n)
  BY DEF Scanned
<1>2. \A a \in DOMAIN h : a + h[a] = IF a \in Visited(n) THEN Joined(a, n) ELSE After(a)
  <2>1. ASSUME NEW a \in DOMAIN h, a \in Visited(n) PROVE a + h[a] = Joined(a, n)
    <3>1. h[a] = Joined(a, n) - a /\ a \in Free
      BY <1>1, <2>1 DEF Scanned, Visited, Heads
    <3>2. Joined(a, n) \in Nat /\ a \in Nat
      BY <3>1, JoinedEnds, BlocksKnown
    <3>3. QED
      BY <3>1, <3>2
  <2>2. ASSUME NEW a \in DOMAIN h, a \notin Visited(n) PROVE a + h[a] = After(a)
    BY <1>1, <2>2 DEF Scanned, After
  <2>3. QED
    BY <2>1, <2>2
<1>3. \A a \in Visited(n) : a \in Free /\ a \in Block /\ a \in Heads(Start(n)) /\ a >= Start(n)
  BY BlocksKnown DEF Visited, Heads
<1>4. \A b \in Absorbed(n) : /\ b \in Free /\ b \in Block
                             /\ \E a \in Visited(n) : a < b /\ b < Joined(a, n)
  BY BlocksKnown DEF Absorbed
<1>5. ASSUME NEW a \in Visited(n), NEW b \in Visited(n), a < b PROVE Joined(a, n) <= b
  BY <1>3, <1>5, StartKnown, HeadsApart
<1>6. Visited(n) \subseteq DOMAIN h
  <2>1. ASSUME NEW a \in Visited(n), a \in Absorbed(n) PROVE FALSE
    <3>1. PICK b \in Visited(n) : b < a /\ a < Joined(b, n)
      BY <1>4, <2>1
    <3>2. Joined(b, n) <= a
      BY <1>5, <3>1
    <3>3. Joined(b, n) \in Nat /\ a \in Nat
      BY <1>3, JoinedEnds, BlocksKnown
    <3>4. QED
      BY <3>1, <3>2, <3>3
  <2>2. QED
    BY <1>1, <1>3, <2>1
<1>7. ASSUME NEW a \in DOMAIN h
      PROVE  /\ a + h[a] \in Block \cup {HeapEnd} /\ a < a + h[a]
             /\ a + h[a] \in Nat /\ a + h[a] <= HeapEnd /\ a \in Nat
  <2>1. CASE a \in Visited(n)
    <3>1. PICK c \in Free : Together(a, c) /\ Joined(a, n) = After(c)
      BY <1>3, <2>1, JoinedEnds
    <3>2. c >= a /\ c \in Block /\ a \in Block
      BY <1>3, <2>1, <3>1, BlocksKnown DEF Together
    <3>3. QED
      BY <1>2, <2>1, <3>1, <3>2, BlocksKnown
  <2>2. CASE a \notin Visited(n)
    BY <1>1, <1>2, <2>2, BlocksKnown
  <2>3. QED
    BY <2>1, <2>2
<1>8. ASSUME NEW a \in DOMAIN h, NEW y \in Absorbed(n), a < y PROVE a + h[a] # y
  <2>1. PICK v \in Visited(n) : v < y /\ y < Joined(v, n)
    BY <1>4
  <2>2. /\ v \in Block /\ v \in Nat /\ a \in Block /\ a \in Nat /\ y \in Block /\ y \in Nat
        /\ Joined(v, n) \in Nat
    <3>1. v \in Free /\ v \in Block /\ a \in Block /\ y \in Block
      BY <1>1, <1>3, <1>4
    <3>2. QED
      BY <3>1, JoinedEnds, BlocksKnown
  <2>3. CASE a = v
    BY <1>2, <2>1, <2>2, <2>3
  <2>4. CASE a > v
    <3>1. a < Joined(v, n)
      BY <1>8, <2>1, <2>2
    <3>2. a \in Absorbed(n)
      BY <2>2, <2>4, <3>1, InnerAbsorbed
    <3>3. QED
      BY <1>1, <3>2
  <2>5. CASE a < v
    <3>1. a + h[a] <= v
      <4>1. CASE a \in Visited(n)
        BY <1>2, <1>5, <2>5, <4>1
      <4>2. CASE a \notin Visited(n)
        BY <1>2, <2>2, <2>5, <4>2, BlocksKnown
      <4>3. QED
        BY <4>1, <4>2
    <3>2. a + h[a] \in Nat
      BY <1>7
    <3>3. QED
      BY <2>1, <2>2, <3>1, <3>2
  <2>6. QED
    BY <2>2, <2>3, <2>4, <2>5
<1>9. ASSUME NEW a \in DOMAIN h PROVE a + h[a] \in DOMAIN h \cup {HeapEnd}
  BY <1>1, <1>7, <1>8
<1>10. ASSUME NEW a \in DOMAIN h, NEW b \in DOMAIN h, a < b PROVE a + h[a] <= b
  <2>1. a \in Block /\ b \in Block /\ a \in Nat /\ b \in Nat
    BY <1>1, BlocksKnown
  <2>2. CASE a \in Visited(n)
    <3>1. Joined(a, n) \in Nat
      BY <1>3, <2>2, JoinedEnds, BlocksKnown
    <3>2. ~ (b < Joined(a, n))
      BY <1>1, <1>10, <2>1, <2>2, InnerAbsorbed
    <3>3. QED
      BY <1>2, <2>1, <2>2, <3>1, <3>2
  <2>3. CASE a \notin Visited(n)
    BY <1>2, <1>10, <2>1, <2>3, BlocksKnown
  <2>4. QED
    BY <2>2, <2>3
<1>11. 0 \in DOMAIN h
  <2>1. 0 \in Block /\ \A b \in Absorbed(n) : b # 0
    <3>1. ASSUME NEW b \in Absorbed(n) PROVE b # 0
      <4>1. PICK a \in Visited(n) : a < b
        BY <1>4
      <4>2. a \in Nat /\ b \in Nat
        BY <1>3, <1>4, BlocksKnown
      <4>3. QED
        BY <4>1, <4>2
    <3>2. QED
      BY <3>1 DEF HeapInv, BlocksApart, Tiling
  <2>2. QED
    BY <1>1, <2>1
<1>12. inUse \subseteq DOMAIN h /\ \A a \in inUse : h[a] = len[a]
  <2>1. \A a \in inUse : a \in Block /\ a \notin Free
    BY BlocksKnown DEF Free
  <2>2. QED
    BY <1>1, <1>3, <1>4, <2>1 DEF Scanned
<1>13. {ff1, ff2} \subseteq DOMAIN h
  <2>1. /\ ff1 \in Block /\ ff2 \in Block /\ ff1 \in Nat /\ ff2 \in Nat
        /\ ff1 <= Start(n) /\ Start(n) \in Nat
    BY StartKnown, BlocksKnown DEF HeapInv, BlocksApart, Tiling
  <2>2. ASSUME NEW a \in Visited(n) PROVE ~ (a < ff1)
    <3>1. a \in Nat /\ a >= Start(n)
      BY <1>3, BlocksKnown
    <3>2. QED
      BY <2>1, <3>1
  <2>3. ASSUME NEW a \in Visited(n), a < ff2 PROVE ~ (ff2 < Joined(a, n))
    <3>1. PICK c \in Free : Together(a, c) /\ Joined(a, n) = After(c)
      BY <1>3, JoinedEnds
    <3>2. /\ Wall \in inUse /\ Wall \in Block /\ Wall \in Nat /\ After(Wall) = ff2
          /\ a \in Block /\ a \in Nat /\ c \in Block /\ c \in Nat
      BY <1>3, BlocksKnown DEF HeapInv, BlocksApart, Tiling, WallKept, After, Wall, ff2
    <3>3. a <= Wall
      BY <2>1, <2>3, <3>2, BlocksKnown
    <3>4. ~ (Wall <= c)
      BY <3>1, <3>2, <3>3 DEF Together
    <3>5. After(c) <= Wall
      BY <3>2, <3>4, BlocksKnown
    <3>6. After(c) \in Nat /\ Wall < ff2
      BY <3>2, BlocksKnown
    <3>7. QED
      BY <2>1, <3>1, <3>2, <3>5, <3>6
  <2>4. QED
    BY <1>1, <1>4, <2>1, <2>2, <2>3
<1>14. Tiled(h)
  <2>1. DOMAIN h \subseteq Address
    BY <1>1 DEF HeapInv, HeapTypeOK
  <2>2. \A a \in DOMAIN h : h[a] \in 1 .. HeapEnd
    <3>1. ASSUME NEW a \in DOMAIN h PROVE h[a] \in Int
      <4>1. CASE a \in Visited(n)
        <5>1. h[a] = Joined(a, n) - a /\ Joined(a, n) \in Nat /\ a \in Nat
          BY <1>1, <1>3, <4>1, JoinedEnds, BlocksKnown DEF Scanned
        <5>2. QED
          BY <5>1
      <4>2. CASE a \notin Visited(n)
        BY <1>1, <4>2, BlocksKnown DEF Scanned
      <4>3. QED
        BY <4>1, <4>2
    <3>2. HeapEnd \in Nat
      BY HeapAssumption
    <3>3. QED
      <4> HIDE DEF h
      <4>1. QED
        BY <1>7, <3>1, <3>2
  <2>3. QED
    BY <1>9, <1>10, <1>11, <2>1, <2>2 DEF Tiled
<1>15. DOMAIN h \subseteq Block
  BY <1>1
<1>16. QED
  BY <1>6, <1>12, <1>13, <1>14, <1>15
-----------------------------------------------------------------------------
(* The calls keep the invariant.                                           *)

\* What the first n bytes of a block are not needed for is a block again.
LEMMA SplitTiles ==
    ASSUME NEW h, Tiled(h), NEW a \in DOMAIN h, NEW n \in Nat, 0 < n, n < h[a]
    PROVE  /\ Tiled(Split(h, a, n)) /\ a + n \notin DOMAIN h
           /\ DOMAIN Split(h, a, n) = DOMAIN h \cup {a + n}
           /\ \A x \in DOMAIN h : x # a => Split(h, a, n)[x] = h[x]
<1> DEFINE g == Split(h, a, n)
<1>1. /\ HeapEnd \in Nat
      /\ \A x \in DOMAIN h : /\ x \in Nat /\ h[x] \in Nat /\ h[x] > 0 /\ x <= HeapEnd
                             /\ x + h[x] \in DOMAIN h \cup {HeapEnd} /\ x + h[x] <= HeapEnd
      /\ \A x, y \in DOMAIN h : x < y => x + h[x] <= y
  <2>1. HeapEnd \in Nat
    BY HeapAssumption
  <2>2. QED
    BY <2>1 DEF Tiled, Address
<1>2. a + n \notin DOMAIN h /\ a + n \in Nat /\ a < a + n /\ a + n < HeapEnd
  BY <1>1
<1>3. DOMAIN g = DOMAIN h \cup {a + n}
  BY DEF Split
<1>4. g[a] = n /\ g[a + n] = h[a] - n /\ \A x \in DOMAIN h : x # a => g[x] = h[x]
  BY <1>1, <1>2 DEF Split
<1> HIDE DEF g
<1>5. \A x \in DOMAIN g : g[x] \in 1 .. HeapEnd
  <2>1. \A x \in DOMAIN h : h[x] <= HeapEnd
    BY <1>1
  <2>2. g[a] \in 1 .. HeapEnd /\ g[a + n] \in 1 .. HeapEnd
    BY <1>1, <1>4, <2>1
  <2>3. QED
    BY <1>1, <1>3, <1>4, <2>1, <2>2
<1>6. \A x \in DOMAIN g : x + g[x] \in DOMAIN g \cup {HeapEnd}
  <2>1. a + g[a] = a + n /\ (a + n) + g[a + n] = a + h[a]
    BY <1>1, <1>4
  <2>2. QED
    BY <1>1, <1>3, <1>4, <2>1
<1>7. ASSUME NEW x \in DOMAIN g, NEW y \in DOMAIN g, x < y PROVE x + g[x] <= y
  <2>1. CASE x = a
    BY <1>1, <1>2, <1>3, <1>4, <1>7, <2>1
  <2>2. CASE x = a + n
    <3>1. y \in DOMAIN h /\ a < y
      BY <1>1, <1>2, <1>3, <1>7, <2>2
    <3>2. QED
      BY <1>1, <1>4, <2>2, <3>1
  <2>3. CASE x # a /\ x # a + n
    <3>1. x \in DOMAIN h /\ g[x] = h[x]
      BY <1>3, <1>4, <2>3
    <3>2. CASE y = a + n
      <4>1. x < a
        BY <1>1, <1>2, <1>4, <1>7, <2>3, <3>1, <3>2
      <4>2. QED
        BY <1>1, <1>2, <3>1, <3>2, <4>1
    <3>3. CASE y # a + n
      BY <1>1, <1>3, <1>7, <3>1, <3>3
    <3>4. QED
      BY <3>2, <3>3
  <2>4. QED
    BY <2>1, <2>2, <2>3
<1>8. DOMAIN g \subseteq Address /\ 0 \in DOMAIN g
  BY <1>1, <1>2, <1>3 DEF Tiled, Address
<1>9. QED
  BY <1>2, <1>3, <1>4, <1>5, <1>6, <1>7, <1>8 DEF Tiled, g

\* What a caller holds lies in its block.
LEMMA LiveWithin ==
    ASSUME HeapInv, NEW p \in DOMAIN live
    PROVE  /\ p \in Nat /\ live[p] \in Nat /\ live[p] \in Sizes
           /\ p - HDRSZ \in inUse /\ p - HDRSZ \in Block /\ p - HDRSZ \in Nat
           /\ p + live[p] <= After(p - HDRSZ)
<1>1. p \in Nat /\ live[p] \in Sizes
  BY DEF HeapInv, HeapTypeOK, Range, Address
<1>2. live[p] \in Nat
  BY <1>1, SizesAssumption
<1>3. p - HDRSZ \in inUse /\ p - HDRSZ \in Block /\ p - HDRSZ \in Nat
  BY BlocksKnown DEF HeapInv, BlocksApart, LiveApart
<1>4. /\ p + live[p] <= HeapEnd
      /\ \A a \in Block : a + HDRSZ <= p \/ a >= p + live[p]
  BY DEF HeapInv, BlocksApart, LiveApart
<1>5. After(p - HDRSZ) \in Nat /\ p - HDRSZ < After(p - HDRSZ)
  BY <1>3, BlocksKnown
<1>6. ASSUME After(p - HDRSZ) = HeapEnd PROVE p + live[p] <= After(p - HDRSZ)
  BY <1>4, <1>6
<1>7. ASSUME After(p - HDRSZ) \in Block PROVE p + live[p] <= After(p - HDRSZ)
  <2>1. ~ (After(p - HDRSZ) + HDRSZ <= p)
    BY <1>1, <1>5 DEF HDRSZ
  <2>2. QED
    BY <1>4, <1>5, <1>7, <2>1
<1>8. QED
  BY <1>1, <1>2, <1>3, <1>6, <1>7, BlocksKnown

LEMMA InitHolds == HeapInit => HeapInv
<1> SUFFICES ASSUME HeapInit PROVE HeapInv
  OBVIOUS
<1>1. /\ SMALLBLKHEAP \in Nat /\ HeapEnd \in Nat /\ OSALMEM_MIN_BLKSZ \in Nat
      /\ SMALLBLKHEAP >= 2 /\ OSALMEM_MIN_BLKSZ >= 2
      /\ HeapEnd >= SMALLBLKHEAP + 2 + OSALMEM_MIN_BLKSZ
  BY HeapAssumption, BlocksAssumption DEF HDRSZ
<1>2. Wall = SMALLBLKHEAP /\ ff2 = SMALLBLKHEAP + 2 /\ 0 # Wall /\ 0 # ff2 /\ Wall # ff2
  BY <1>1 DEF Wall, ff2, HDRSZ
<1>3. /\ Block = {0, Wall, ff2} /\ len[0] = SMALLBLKHEAP /\ len[Wall] = 2
      /\ len[ff2] = HeapEnd - ff2
  BY <1>2 DEF HeapInit, Block, HDRSZ
<1>4. After(0) = Wall /\ After(Wall) = ff2 /\ After(ff2) = HeapEnd
  BY <1>1, <1>2, <1>3 DEF After
<1>5. inUse = {Wall} /\ ff1 = 0 /\ kicked = FALSE /\ parked = {} /\ DOMAIN live = {} /\ Range(live) = {}
  BY DEF HeapInit, Range
<1>6. HeapTypeOK
  <2>1. {0, Wall, ff2} \subseteq 0 .. HeapEnd
    BY <1>1, <1>2
  <2>2. \A a \in Block : len[a] \in 1 .. HeapEnd
    BY <1>1, <1>2, <1>3
  <2>3. QED
    BY <1>1, <1>3, <1>5, <2>1, <2>2 DEF HeapTypeOK, Address
<1>7. Tiling
  <2>1. \A a, b \in Block : a < b => After(a) <= b
    BY <1>1, <1>2, <1>3, <1>4
  <2>2. QED
    BY <1>3, <1>4, <1>5, <2>1 DEF Tiling
<1>8. LiveApart /\ NothingStranded
  <2>1. \A a \in Block : ~ (a < 0)
    BY <1>1, <1>2, <1>3
  <2>2. QED
    BY <1>5, <2>1 DEF LiveApart, NothingStranded, Free
<1>9. WallKept
  BY <1>1, <1>2, <1>3, <1>5 DEF WallKept, HDRSZ
<1>10. QED
  BY <1>6, <1>7, <1>8, <1>9 DEF HeapInv, BlocksApart

\* A table that tiles the heap, in which what must stand stands.
LEMMA TilesTile ==
    ASSUME Tiled(len)', inUse' \subseteq Block', {ff1', ff2} \subseteq Block', Wall \in inUse'
    PROVE  Tiling' /\ Block' \subseteq Address /\ \A a \in Block' : len'[a] \in 1 .. HeapEnd
BY DEF Tiled, Tiling, Block, After, Wall, ff2, HDRSZ, Address

LEMMA AllocKeeps ==
    ASSUME HeapInv, NEW size \in Sizes, Fitting(Bytes(size)) # {}, Allocated(Bytes(size)),
           live' = [q \in DOMAIN live \cup {Min(Fitting(Bytes(size))) + HDRSZ} |->
                      IF q = Min(Fitting(Bytes(size))) + HDRSZ THEN size ELSE live[q]],
           UNCHANGED <<ff1, kicked, parked>>
    PROVE  HeapInv'
<1> DEFINE n == Bytes(size)
           h == Scanned(n)
<1>1. n \in Nat /\ n = size + 2 /\ size \in Nat /\ n >= 2 /\ HeapEnd \in Nat
  BY SizesAssumption, HeapAssumption DEF Bytes, HDRSZ
<1>2. PICK a \in Fitting(n) : a = Min(Fitting(n)) /\ \A b \in Fitting(n) : a <= b
  <2>1. Fitting(n) \in SUBSET (0 .. HeapEnd)
    <3>1. ASSUME NEW b \in Fitting(n) PROVE b \in 0 .. HeapEnd
      BY DEF Fitting, Heads, Free, HeapInv, HeapTypeOK, Address
    <3>2. QED
      BY <3>1
  <2>2. QED
    BY <1>1, <2>1, MinIsLowest
<1>3. a \in Visited(n) /\ a \in Free /\ a \in Block /\ a \in Nat /\ a \notin inUse
  BY <1>2, BlocksKnown DEF Visited, Fitting, Heads, Free
<1>4. /\ Tiled(h) /\ a \in DOMAIN h /\ DOMAIN h \subseteq Block /\ inUse \subseteq DOMAIN h
      /\ {ff1, ff2} \subseteq DOMAIN h /\ \A b \in inUse : h[b] = len[b]
  BY <1>1, <1>3, ScanTiles
<1>5. h[a] \in Nat /\ h[a] >= n /\ a + h[a] <= HeapEnd /\ \A x \in DOMAIN h : a < x => a + h[a] <= x
  <2>1. h[a] = Joined(a, n) - a /\ Joined(a, n) - a >= n
    BY <1>2, <1>3, <1>4 DEF Scanned, Fitting
  <2>2. h[a] \in Nat /\ a + h[a] <= HeapEnd
    BY <1>1, <1>3, <1>4 DEF Tiled, Address
  <2>3. QED
    BY <1>4, <2>1, <2>2 DEF Tiled
<1>6. a >= Start(n) /\ a >= ff1
  <2>1. a >= Start(n)
    BY <1>2 DEF Fitting, Heads
  <2>2. ff1 \in Nat
    BY BlocksKnown DEF HeapInv, BlocksApart, Tiling
  <2>3. QED
    BY <1>1, <1>3, <2>1, <2>2, StartKnown
<1>7. inUse' = inUse \cup {a} /\ len' = IF WorthSplitting(h[a] - n) THEN Split(h, a, n) ELSE h
  BY <1>2 DEF Allocated
<1> HIDE DEF n, h
<1>8. /\ Tiled(len)'
      /\ DOMAIN h \subseteq Block'
      /\ \A x \in Block' : x \in DOMAIN h \/ (x = a + n /\ x \notin DOMAIN h /\ h[a] - n >= 2)
      /\ \A x \in DOMAIN h : x # a => len'[x] = h[x]
  <2>1. CASE WorthSplitting(h[a] - n)
    <3>1. h[a] - n >= 2
      BY <1>1, <1>5, <2>1, BlocksAssumption DEF WorthSplitting, HDRSZ
    <3>2. n < h[a] /\ 0 < n
      BY <1>1, <1>5, <3>1
    <3>3. len' = Split(h, a, n)
      BY <1>7, <2>1
    <3>4. QED
      <4>1. /\ Tiled(len') /\ a + n \notin DOMAIN h /\ DOMAIN len' = DOMAIN h \cup {a + n}
            /\ \A x \in DOMAIN h : x # a => len'[x] = h[x]
        BY SMTT(30), <1>1, <1>4, <3>2, <3>3, SplitTiles
      <4>2. QED
        BY <3>1, <4>1 DEF Block, Tiled
  <2>2. CASE ~ WorthSplitting(h[a] - n)
    <3>1. len' = h
      BY <1>7, <2>2
    <3>2. QED
      BY <1>4, <3>1 DEF Block, Tiled
  <2>3. QED
    BY <2>1, <2>2
<1>9. Wall \in inUse /\ Wall # a
  BY <1>3 DEF HeapInv, BlocksApart, Tiling
<1>10. Tiling' /\ Block' \subseteq Address /\ (\A x \in Block' : len'[x] \in 1 .. HeapEnd)
       /\ inUse' \subseteq Block'
  <2>1. inUse' \subseteq Block' /\ {ff1', ff2} \subseteq Block' /\ Wall \in inUse'
    BY <1>4, <1>7, <1>8, <1>9
  <2>2. QED
    BY <1>8, <2>1, TilesTile
<1> DEFINE p == a + HDRSZ
<1>11. /\ DOMAIN live' = DOMAIN live \cup {p} /\ live'[p] = size
       /\ \A q \in DOMAIN live : q # p => live'[q] = live[q]
       /\ p = a + 2 /\ p - HDRSZ = a
  BY <1>2, <1>3 DEF n, HDRSZ
<1>12. HeapTypeOK'
  <2>1. p \in Address
    BY <1>1, <1>3, <1>5, <1>11 DEF Address
  <2>2. Range(live') \subseteq Sizes
    BY <1>11, LiveWithin DEF Range
  <2>3. QED
    BY <1>10, <1>11, <2>1, <2>2 DEF HeapInv, HeapTypeOK
<1>13. LiveApart'
  <2>1. ASSUME NEW q \in DOMAIN live, q # p
        PROVE  /\ q - HDRSZ \in inUse' /\ q + live'[q] <= HeapEnd
               /\ \A x \in Block' : x + HDRSZ <= q \/ x >= q + live'[q]
    <3>1. /\ q - HDRSZ \in inUse /\ q + live[q] <= HeapEnd /\ live'[q] = live[q]
          /\ \A x \in Block : x + HDRSZ <= q \/ x >= q + live[q]
      BY <1>11, <2>1 DEF HeapInv, BlocksApart, LiveApart
    <3>2. ASSUME h[a] - n >= 2 PROVE (a + n) + HDRSZ <= q \/ a + n >= q + live[q]
      <4>1. PICK b \in inUse : b = q - HDRSZ /\ b \in DOMAIN h /\ b \in Block
        BY <1>4, <3>1
      <4>2. b \in Nat /\ q \in Nat /\ live[q] \in Nat /\ q = b + 2 /\ q + live[q] <= After(b) /\ After(b) \in Nat
        BY <4>1, LiveWithin, BlocksKnown DEF HDRSZ
      <4>3. b # a
        BY <1>3
      <4>4. CASE a < b
        <5>1. a + h[a] <= b
          BY <1>5, <4>1, <4>4
        <5>2. QED
          BY <1>1, <1>3, <1>5, <3>2, <4>2, <5>1 DEF HDRSZ
      <4>5. CASE b < a
        <5>1. After(b) <= a
          BY <1>3, <4>1, <4>5, BlocksKnown
        <5>2. QED
          BY <1>1, <1>3, <4>2, <5>1
      <4>6. QED
        BY <1>3, <4>2, <4>3, <4>4, <4>5
    <3>3. QED
      BY <1>4, <1>7, <1>8, <3>1, <3>2
  <2>2. /\ p - HDRSZ \in inUse' /\ p + size <= HeapEnd
        /\ \A x \in Block' : x + HDRSZ <= p \/ x >= p + size
    <3>1. p + size = a + n /\ a + n <= a + h[a]
      BY <1>1, <1>3, <1>5, <1>11
    <3>2. ASSUME NEW x \in DOMAIN h PROVE x + HDRSZ <= p \/ x >= p + size
      <4>1. x \in Nat
        BY <1>4, BlocksKnown
      <4>2. CASE x <= a
        BY <1>3, <1>11, <4>1, <4>2 DEF HDRSZ
      <4>3. CASE a < x
        <5>1. a + h[a] <= x
          BY <1>5, <4>3
        <5>2. QED
          BY <1>1, <1>3, <1>5, <3>1, <4>1, <5>1
      <4>4. QED
        BY <1>3, <4>1, <4>2, <4>3
    <3>3. a + n >= p + size
      BY <1>1, <1>3, <3>1
    <3>4. p + size <= HeapEnd
      BY <1>1, <1>3, <1>5, <3>1
    <3>5. QED
      BY <1>7, <1>8, <1>11, <3>2, <3>3, <3>4
  <2>3. ASSUME NEW q \in DOMAIN live'
        PROVE  /\ q - HDRSZ \in inUse' /\ q + live'[q] <= HeapEnd
               /\ \A x \in Block' : x + HDRSZ <= q \/ x >= q + live'[q]
    BY <1>11, <2>1, <2>2
  <2>4. QED
    BY <2>3 DEF LiveApart, HDRSZ
<1>14. NothingStranded'
  <2>1. ASSUME NEW x \in Free', x < ff1 PROVE x \in parked
    <3>1. x \in Block' /\ x \notin inUse
      BY <1>7 DEF Free
    <3>2. CASE x \in DOMAIN h
      <4>1. x \in Free
        BY <1>4, <3>1, <3>2 DEF Free
      <4>2. QED
        BY <2>1, <4>1 DEF HeapInv, NothingStranded
    <3>3. CASE x = a + n
      <4>1. ff1 \in Nat
        BY BlocksKnown DEF HeapInv, BlocksApart, Tiling
      <4>2. QED
        BY <1>1, <1>3, <1>6, <2>1, <3>3, <4>1
    <3>4. QED
      BY <1>8, <3>1, <3>2, <3>3
  <2>2. QED
    BY <2>1 DEF NothingStranded
<1>15. WallKept'
  <2>1. len'[Wall] = len[Wall]
    BY <1>4, <1>8, <1>9
  <2>2. Wall + HDRSZ # p
    BY <1>3, <1>9, <1>11, HeapAssumption DEF Wall, HDRSZ
  <2>3. QED
    BY <1>11, <2>1, <2>2 DEF HeapInv, WallKept, Wall, ff2, HDRSZ
<1>16. QED
  BY <1>10, <1>12, <1>13, <1>14, <1>15 DEF HeapInv, BlocksApart

LEMMA NullKeeps == ASSUME HeapInv, osal_mem_alloc_NULL PROVE HeapInv'
<1>1. PICK size \in Sizes : len' = Scanned(Bytes(size))
  BY DEF osal_mem_alloc_NULL
<1>2. UNCHANGED <<inUse, ff1, kicked, live, parked>>
  BY DEF osal_mem_alloc_NULL
<1>3. Bytes(size) \in Nat
  BY SizesAssumption DEF Bytes, HDRSZ
<1>4. /\ Tiled(len)' /\ Block' \subseteq Block /\ inUse' \subseteq Block' /\ {ff1', ff2} \subseteq Block'
      /\ \A a \in inUse : len'[a] = len[a]
  BY <1>1, <1>2, <1>3, ScanTiles DEF Block, Tiled
<1>5. Wall \in inUse
  BY DEF HeapInv, BlocksApart, Tiling
<1>6. Tiling' /\ Block' \subseteq Address /\ \A a \in Block' : len'[a] \in 1 .. HeapEnd
  BY <1>2, <1>4, <1>5, TilesTile
<1>7. HeapTypeOK'
  BY <1>2, <1>4, <1>6 DEF HeapInv, HeapTypeOK
<1>8. LiveApart'
  BY <1>2, <1>4 DEF HeapInv, BlocksApart, LiveApart, HDRSZ
<1>9. NothingStranded'
  BY <1>2, <1>4 DEF HeapInv, NothingStranded, Free
<1>10. WallKept'
  BY <1>2, <1>4, <1>5 DEF HeapInv, WallKept, Wall, ff2, HDRSZ
<1>11. QED
  BY <1>6, <1>7, <1>8, <1>9, <1>10 DEF HeapInv, BlocksApart

LEMMA FreeKeeps == ASSUME HeapInv, osal_mem_free PROVE HeapInv'
<1>1. PICK p \in DOMAIN live : /\ inUse' = inUse \ {p - HDRSZ}
                               /\ ff1' = Lowest(p - HDRSZ)
                               /\ live' = [q \in DOMAIN live \ {p} |-> live[q]]
  BY DEF osal_mem_free
<1>2. UNCHANGED <<len, kicked, parked>> /\ Block' = Block
  BY DEF osal_mem_free, Block
<1>3. /\ p \in Nat /\ p - HDRSZ \in Block /\ p - HDRSZ \in Nat
      /\ \A q \in DOMAIN live : q \in Nat /\ q - HDRSZ \in inUse /\ (q - HDRSZ = p - HDRSZ => q = p)
  BY LiveWithin DEF HDRSZ
<1>4. ff1 \in Block /\ ff1 \in Nat /\ ff2 \in Nat /\ ff1 <= ff2
  BY BlocksKnown DEF HeapInv, BlocksApart, Tiling, WallKept
<1>5. /\ ff1' \in Block /\ ff1' \in Nat /\ ff1' <= ff1 /\ ff1' <= p - HDRSZ /\ ff1' <= ff2
  BY <1>1, <1>3, <1>4 DEF Lowest
<1>6. p - HDRSZ # Wall
  BY <1>3 DEF HeapInv, WallKept, HDRSZ
<1>7. HeapTypeOK'
  <2>1. DOMAIN live' \subseteq DOMAIN live /\ Range(live') \subseteq Range(live)
    BY <1>1 DEF Range
  <2>2. QED
    BY <1>1, <1>2, <1>5, <2>1 DEF HeapInv, HeapTypeOK
<1>8. Tiling'
  <2>1. \A a \in Block : After(a)' = After(a)
    BY <1>2 DEF After
  <2>2. QED
    BY <1>1, <1>2, <1>5, <1>6, <2>1 DEF HeapInv, BlocksApart, Tiling, Wall, ff2, HDRSZ
<1>9. LiveApart'
  <2>1. \A q \in DOMAIN live' : q \in DOMAIN live /\ live'[q] = live[q] /\ q - HDRSZ \in inUse'
    BY <1>1, <1>3
  <2>2. QED
    BY <1>2, <2>1 DEF HeapInv, BlocksApart, LiveApart, HDRSZ
<1>10. NothingStranded'
  <2>1. ASSUME NEW x \in Free', x < ff1' PROVE x \in parked
    <3>1. x \in Block /\ x \in Nat
      BY <1>2, BlocksKnown DEF Free
    <3>2. x # p - HDRSZ /\ x < ff1
      BY <1>3, <1>4, <1>5, <2>1, <3>1
    <3>3. x \in Free
      BY <1>1, <1>2, <3>2 DEF Free
    <3>4. QED
      BY <3>2, <3>3 DEF HeapInv, NothingStranded
  <2>2. QED
    BY <1>2, <2>1 DEF NothingStranded
<1>11. WallKept'
  BY <1>1, <1>2, <1>5 DEF HeapInv, WallKept, Wall, ff2, HDRSZ
<1>12. QED
  BY <1>7, <1>8, <1>9, <1>10, <1>11 DEF HeapInv, BlocksApart

LEMMA KickKeeps == ASSUME HeapInv, osal_mem_kick PROVE HeapInv'
<1>1. UNCHANGED <<len, inUse, live>> /\ Block' = Block /\ Free' = Free
  BY DEF osal_mem_kick, Block, Free
<1>2. ff1' = ff2 /\ parked' = Free /\ kicked' = TRUE
  BY DEF osal_mem_kick
<1>3. HeapTypeOK'
  BY <1>1, <1>2, BlocksKnown DEF HeapInv, HeapTypeOK, BlocksApart, Tiling
<1>4. Tiling'
  <2>1. \A a \in Block : After(a)' = After(a)
    BY <1>1 DEF After
  <2>2. QED
    BY <1>1, <1>2, <2>1 DEF HeapInv, BlocksApart, Tiling, Wall, ff2, HDRSZ
<1>5. LiveApart'
  BY <1>1 DEF HeapInv, BlocksApart, LiveApart, HDRSZ
<1>6. NothingStranded'
  BY <1>1, <1>2 DEF NothingStranded
<1>7. WallKept'
  <2>1. ff2 <= ff2
    BY HeapAssumption DEF ff2, HDRSZ
  <2>2. QED
    BY <1>1, <1>2, <2>1 DEF HeapInv, WallKept, Wall, ff2, HDRSZ
<1>8. QED
  BY <1>3, <1>4, <1>5, <1>6, <1>7 DEF HeapInv, BlocksApart

LEMMA Invariance == HeapSpec => []HeapInv
<1>1. HeapInv /\ [HeapNext]_heapVars => HeapInv'
  <2> SUFFICES ASSUME HeapInv, [HeapNext]_heapVars PROVE HeapInv'
    OBVIOUS
  <2>1. CASE osal_mem_alloc
    <3>1. PICK size \in Sizes :
            /\ Fitting(Bytes(size)) # {}
            /\ Allocated(Bytes(size))
            /\ live' = [q \in DOMAIN live \cup {Min(Fitting(Bytes(size))) + HDRSZ} |->
                          IF q = Min(Fitting(Bytes(size))) + HDRSZ THEN size ELSE live[q]]
      BY <2>1 DEF osal_mem_alloc
    <3>2. UNCHANGED <<ff1, kicked, parked>>
      BY <2>1 DEF osal_mem_alloc
    <3>3. QED
      BY <3>1, <3>2, AllocKeeps
  <2>2. CASE osal_mem_alloc_NULL
    BY <2>2, NullKeeps
  <2>3. CASE osal_mem_free
    BY <2>3, FreeKeeps
  <2>4. CASE osal_mem_kick
    BY <2>4, KickKeeps
  <2>5. CASE UNCHANGED heapVars
    BY <2>5 DEF heapVars, HeapInv, HeapTypeOK, BlocksApart, Tiling, LiveApart, NothingStranded, WallKept,
                Block, Free, After
  <2>6. QED
    BY <2>1, <2>2, <2>3, <2>4, <2>5 DEF HeapNext
<1>2. QED
  BY <1>1, InitHolds, PTL DEF HeapSpec

-----------------------------------------------------------------------------
(* NULL means that there is no room.                                       *)

\* Every place behind a block is in a block: the last that begins no later.
LEMMA PlaceInBlock ==
    ASSUME HeapInv, NEW s \in Block, NEW p \in Nat, s <= p, p < HeapEnd
    PROVE  \E c \in Block : /\ s <= c /\ c <= p /\ p < After(c)
                            /\ \A b \in Block : b <= p => b <= c
<1> DEFINE S == {b \in Block : b <= p}
<1>1. S \in SUBSET (0 .. HeapEnd) /\ s \in S /\ HeapEnd \in Nat /\ s \in Nat
  BY BlocksKnown DEF HeapInv, HeapTypeOK, Address
<1>2. Max(S) \in S /\ \A y \in S : Max(S) >= y
  <2> HIDE DEF S
  <2>1. QED
    BY <1>1, MaxIsHighest
<1>3. PICK c \in Block : c <= p /\ \A b \in Block : b <= p => c >= b
  BY <1>2
<1>4. /\ c \in Nat /\ After(c) \in Nat /\ c < After(c) /\ After(c) \in Block \cup {HeapEnd}
      /\ \A b \in Block : b \in Nat
  BY BlocksKnown
<1>5. p < After(c)
  BY <1>1, <1>3, <1>4
<1>6. QED
  BY <1>1, <1>3, <1>4, <1>5

\* The stretch of free blocks that a free block is in begins at a head.
LEMMA StretchHasHead ==
    ASSUME HeapInv, NEW from \in Block, NEW c \in Free, from <= c
    PROVE  \E a \in Heads(from) : Together(a, c)
<1> DEFINE S == {x \in Free : x >= from /\ x <= c /\ Together(x, c)}
<1>1. /\ c \in Block /\ c \in Nat /\ from \in Nat /\ HeapEnd \in Nat
      /\ \A b \in Block : /\ b \in Nat /\ After(b) \in Nat /\ b < After(b)
                          /\ After(b) \in Block \cup {HeapEnd} /\ b < HeapEnd
      /\ \A b \in Free : b \in Block /\ b \notin inUse
      /\ \A b \in Block : b \in inUse \/ b \in Free
      /\ inUse \subseteq Block
  BY BlocksKnown DEF Free
<1>2. S \in SUBSET (0 .. HeapEnd) /\ c \in S
  <2>1. Together(c, c)
    BY <1>1 DEF Together
  <2>2. ASSUME NEW x \in S PROVE x \in 0 .. HeapEnd
    <3>1. x \in Block
      BY <1>1
    <3>2. QED
      BY <1>1, <3>1
  <2>3. c \in S
    BY <1>1, <2>1
  <2>4. QED
    <3> HIDE DEF S
    <3>1. S \subseteq 0 .. HeapEnd
      BY <2>2
    <3>2. QED
      BY <2>3, <3>1
<1>3. Min(S) \in S /\ \A y \in S : Min(S) <= y
  <2> HIDE DEF S
  <2>1. QED
    BY <1>1, <1>2, MinIsLowest
<1>4. PICK a \in Free : /\ a >= from /\ a <= c /\ Together(a, c)
                        /\ \A y \in Free : y >= from /\ y <= c /\ Together(y, c) => a <= y
  BY <1>3
<1>5. CASE a = from
  BY <1>4, <1>5 DEF Heads
<1>6. CASE a # from
  <2>1. a \in Block /\ a \in Nat /\ a - 1 \in Nat /\ from <= a - 1 /\ a - 1 < HeapEnd
    BY <1>1, <1>4, <1>6
  <2>2. PICK b \in Block : from <= b /\ b <= a - 1 /\ a - 1 < After(b)
                           /\ \A x \in Block : x <= a - 1 => x <= b
    BY <2>1, PlaceInBlock
  <2>3. After(b) = a
    <3>1. After(b) <= a
      BY <1>1, <2>1, <2>2, BlocksKnown
    <3>2. QED
      BY <1>1, <2>1, <2>2, <3>1
  <2>4. b \in inUse
    <3>1. ASSUME b \in Free PROVE FALSE
      <4>1. \A x \in b .. c : x \in inUse => x \in a .. c
        BY <1>1, <2>1, <2>2, <3>1
      <4>2. Together(b, c)
        BY <1>1, <1>4, <2>1, <2>2, <4>1 DEF Together
      <4>3. QED
        BY <1>1, <1>4, <2>1, <2>2, <3>1, <4>2
    <3>2. QED
      BY <1>1, <3>1
  <2>5. a \in Heads(from)
    BY <1>4, <2>3, <2>4 DEF Heads
  <2>6. QED
    BY <1>4, <2>5
<1>7. QED
  BY <1>5, <1>6

LEMMA NullIsFull == HeapInv => NullMeansFull
<1> SUFFICES ASSUME HeapInv, NEW size \in Sizes, Fitting(Bytes(size)) = {},
                    NEW p \in Start(Bytes(size)) .. HeapEnd - Bytes(size),
                    \A a \in inUse : ~ (a < p + Bytes(size) /\ p < After(a))
             PROVE  FALSE
  BY DEF NullMeansFull
<1> DEFINE n == Bytes(size)
           s == Start(n)
<1>1. n \in Nat /\ n >= 2 /\ HeapEnd \in Nat
  BY SizesAssumption, HeapAssumption DEF Bytes, HDRSZ
<1>2. s \in Block /\ s \in Nat
  BY <1>1, StartKnown
<1> HIDE DEF n
<1>3. p \in Nat /\ s <= p /\ p + n <= HeapEnd /\ p < HeapEnd /\ p + n - 1 \in Nat /\ p + n - 1 < HeapEnd
  BY <1>1, <1>2 DEF n
<1> HIDE DEF s
<1>4. /\ \A b \in Block : /\ b \in Nat /\ After(b) \in Nat /\ b < After(b)
                          /\ After(b) \in Block \cup {HeapEnd}
      /\ \A b \in Block : b \in inUse \/ b \in Free
      /\ \A x, y \in Block : x < y => After(x) <= y
      /\ inUse \subseteq Block /\ Free \subseteq Block
      /\ \A b \in Free : b \notin inUse
  BY BlocksKnown DEF Free
<1>5. PICK c \in Block : s <= c /\ c <= p /\ p < After(c)
  BY <1>2, <1>3, PlaceInBlock
<1>6. c \in Free
  <2>1. c < p + n
    BY <1>1, <1>3, <1>4, <1>5
  <2>2. QED
    BY <1>4, <1>5, <2>1 DEF n
<1>7. PICK a \in Heads(s) : Together(a, c)
  BY <1>2, <1>5, <1>6, StretchHasHead
<1>8. a \in Free /\ a \in Block /\ a \in Nat /\ a <= c
  BY <1>4, <1>7 DEF Heads, Together
<1>9. PICK d \in Block : /\ c <= d /\ d <= p + n - 1 /\ p + n - 1 < After(d)
  <2>1. c <= p + n - 1
    BY <1>1, <1>3, <1>4, <1>5
  <2>2. QED
    BY <1>3, <2>1, PlaceInBlock
<1>10. ASSUME NEW x \in inUse, x \in a .. d PROVE FALSE
  <2>1. x \in Block /\ x \in Nat /\ a <= x /\ x <= d
    BY <1>4, <1>8, <1>10
  <2>2. ~ (x <= c)
    BY <1>7, <1>8, <2>1 DEF Together
  <2>3. After(c) <= x /\ x < After(x)
    BY <1>4, <2>1, <2>2
  <2>4. p < After(x) /\ x < p + n
    BY <1>1, <1>3, <1>4, <1>5, <1>9, <2>1, <2>3
  <2>5. QED
    BY <2>4 DEF n
<1>11. d \in Free /\ Together(a, d)
  <2>1. d \in a .. d /\ d >= a
    BY <1>4, <1>8, <1>9
  <2>2. QED
    BY <1>4, <1>10, <2>1 DEF Together
<1>12. After(d) - a >= n
  BY <1>1, <1>3, <1>4, <1>5, <1>8, <1>9
<1>13. Joined(a, n) - a >= n
  BY <1>1, <1>8, <1>11, <1>12, JoinedEnds
<1>14. a \in Fitting(n)
  BY <1>7, <1>13 DEF Fitting, s
<1>15. QED
  BY <1>14 DEF n

\* The heap of OSAL_Memory.c, whatever is asked for and freed in whatever
\* order: its blocks tile it and what callers hold lies apart, osal_mem_alloc
\* fails only if every stretch of so many bytes that it may use touches a
\* block in use, and what is freed after osal_mem_kick is found again.
THEOREM HeapIsSound == HeapSpec => []HeapSound
<1>1. HeapInv => HeapSound
  BY NullIsFull DEF HeapInv, HeapSound
<1>2. QED
  BY <1>1, Invariance, PTL

-----------------------------------------------------------------------------
(* The simple API: the inductive invariant.                                *)

\* What is answered: requests to bind, handles and starts.
Abouts == Commands \cup {Handle, SapiStart}
Answers == {"BIND", "DATA", "START"}
Found == {"NWK_addr_rsp", "Match_Desc_rsp"}

SapiMessages ==
    {m \in [kind : Answers \cup Found, about : Abouts \cup {"address"},
            status : {"success", "refused", "invalid", "sent"}, from : Partners \cup {Stray}] :
        m.kind \in Answers => m.about \in Abouts}

SapiTypeInv ==
    /\ owed \in [Abouts -> Nat] /\ lost \in [Abouts -> Nat]
    /\ sapi_bindInProgress \in Commands \cup {NoBind} /\ sending \in Nat
    /\ extra \in BOOLEAN /\ stale \in BOOLEAN /\ nvTimer \in BOOLEAN
    /\ queue \in Seq(SapiMessages)
    /\ air \subseteq (Commands \cup {"address"}) \X Partners

\* The event of a timer that no request waits for, or that is not the only one, is one
\* that outlived its request.
TimerInv ==
    /\ sapi_bindInProgress = NoBind /\ "BIND" \in timers \cup sapiEvents => stale
    /\ "BIND" \in timers /\ "BIND" \in sapiEvents => stale
    /\ sapi_bindInProgress # NoBind => "BIND" \in timers \cup sapiEvents
    /\ extra => stale

\* The answers that wait in a queue, and those that wait or are lost.
IsAnswer(q, i, a) == q[i].kind \in Answers /\ q[i].about = a
Waiting(q, a) == Cardinality({i \in DOMAIN q : IsAnswer(q, i, a)})
Ready(a) == lost[a] + Waiting(queue, a)

One(b) == IF b THEN 1 ELSE 0

OwedInv ==
    /\ \A c \in Commands : owed[c] = Ready(c) + One(sapi_bindInProgress = c)
    /\ owed[Handle] = Ready(Handle) + sending
    /\ owed[SapiStart] = Ready(SapiStart)

SapiInv == SapiTypeInv /\ TimerInv /\ OwedInv /\ TableSaved

-----------------------------------------------------------------------------
(* The queue                                                               *)

LEMMA WaitingType ==
    ASSUME NEW q \in Seq(SapiMessages), NEW a
    PROVE  Waiting(q, a) \in Nat
<1> DEFINE W == {i \in DOMAIN q : IsAnswer(q, i, a)}
<1>0. Len(q) \in Nat /\ DOMAIN q = 1 .. Len(q)
  BY LenProperties
<1>1. IsFiniteSet(1 .. Len(q)) /\ W \subseteq 1 .. Len(q)
  BY <1>0, FS_Interval
<1>2. IsFiniteSet(W)
  BY <1>1, FS_Subset
<1> QED
  BY <1>2, FS_CardinalityType DEF Waiting

LEMMA WaitingAppend ==
    ASSUME NEW q \in Seq(SapiMessages), NEW m \in SapiMessages, NEW a
    PROVE  /\ Append(q, m) \in Seq(SapiMessages)
           /\ Waiting(Append(q, m), a) = Waiting(q, a) + One(m.kind \in Answers /\ m.about = a)
<1> DEFINE r == Append(q, m)
           n == Len(q) + 1
           W == {i \in DOMAIN q : IsAnswer(q, i, a)}
           V == {i \in DOMAIN r : IsAnswer(r, i, a)}
<1>1. /\ r \in Seq(SapiMessages) /\ Len(r) = n /\ r[n] = m
      /\ \A i \in 1 .. Len(q) : r[i] = q[i]
      /\ Len(q) \in Nat /\ DOMAIN q = 1 .. Len(q) /\ DOMAIN r = 1 .. n
  BY AppendProperties, LenProperties
<1>2. IsFiniteSet(W) /\ n \notin W
  <2>0. Len(q) \in Nat
    BY <1>1
  <2>1. IsFiniteSet(1 .. Len(q))
    BY <2>0, FS_Interval
  <2>2. W \subseteq 1 .. Len(q) /\ n \notin 1 .. Len(q)
    BY <1>1
  <2> QED
    BY <2>1, <2>2, FS_Subset
<1> HIDE DEF r
<1>3. CASE m.kind \in Answers /\ m.about = a
  <2>1. V = W \cup {n}
    BY <1>1, <1>3 DEF IsAnswer
  <2>2. Cardinality(V) = Cardinality(W) + 1
    BY <1>2, <2>1, FS_AddElement
  <2> QED
    BY <1>1, <1>3, <2>2 DEF Waiting, One, r
<1>4. CASE ~(m.kind \in Answers /\ m.about = a)
  <2>1. V = W
    BY <1>1, <1>4 DEF IsAnswer
  <2>2. Waiting(q, a) \in Nat
    BY WaitingType
  <2> QED
    BY SMTT(30), <1>1, <1>4, <2>1, <2>2 DEF Waiting, One, r
<1> QED
  BY <1>3, <1>4

LEMMA WaitingTail ==
    ASSUME NEW q \in Seq(SapiMessages), q # <<>>, NEW a
    PROVE  /\ Head(q) \in SapiMessages /\ Tail(q) \in Seq(SapiMessages)
           /\ Waiting(q, a) =
                Waiting(Tail(q), a) + One(Head(q).kind \in Answers /\ Head(q).about = a)
<1> DEFINE r == Tail(q)
           n == Len(q)
           W == {i \in DOMAIN q : IsAnswer(q, i, a)}
           V == {i \in DOMAIN r : IsAnswer(r, i, a)}
           U == W \ {1}
<1>1. /\ Head(q) \in SapiMessages /\ r \in Seq(SapiMessages) /\ Len(r) = n - 1
      /\ \A i \in 1 .. n - 1 : r[i] = q[i + 1]
      /\ n \in Nat /\ DOMAIN q = 1 .. n /\ DOMAIN r = 1 .. n - 1
      /\ Head(q) = q[1] /\ n > 0
  BY HeadTailProperties, LenProperties, EmptySeq
<1> HIDE DEF r, n
<1>2. IsFiniteSet(W) /\ IsFiniteSet(V)
  <2>1. IsFiniteSet(1 .. n) /\ IsFiniteSet(1 .. n - 1)
    BY <1>1, FS_Interval
  <2>2. W \subseteq 1 .. n /\ V \subseteq 1 .. n - 1
    BY <1>1
  <2> QED
    BY <2>1, <2>2, FS_Subset
<1>3. Cardinality(U) = Cardinality(V)
  <2> DEFINE f == [i \in V |-> i + 1]
  <2>1. \A i \in V : f[i] \in U
    BY <1>1 DEF IsAnswer
  <2>2. \A j \in U : j - 1 \in V /\ f[j - 1] = j
    BY <1>1 DEF IsAnswer
  <2>3. \A i, j \in V : f[i] = f[j] => i = j
    BY <1>1
  <2> HIDE DEF V, U
  <2>a. f \in [V -> U]
    BY <2>1
  <2>b. \A j \in U : \E i \in V : f[i] = j
    BY <2>2
  <2> HIDE DEF f
  <2>4. f \in Bijection(V, U)
    BY <2>a, <2>b, <2>3 DEF Bijection, Injection, Surjection, IsInjective
  <2>5. ExistsBijection(V, U)
    BY <2>4 DEF ExistsBijection
  <2> QED
    BY <1>2, <2>5, FS_Bijection
<1>4. IsFiniteSet(U) /\ Cardinality(W) \in Nat /\ Cardinality(V) \in Nat
      /\ Cardinality(U) = IF 1 \in W THEN Cardinality(W) - 1 ELSE Cardinality(W)
  BY <1>2, FS_RemoveElement, FS_CardinalityType
<1>5. 1 \in W <=> Head(q).kind \in Answers /\ Head(q).about = a
  BY <1>1 DEF IsAnswer
<1> HIDE DEF W, V, U
<1>6. Cardinality(W) = Cardinality(V) + One(Head(q).kind \in Answers /\ Head(q).about = a)
  BY <1>3, <1>4, <1>5 DEF One
<1> QED
  BY <1>1, <1>6 DEF Waiting, W, V, r

LEMMA ReadyType == ASSUME SapiTypeInv, NEW a \in Abouts PROVE Ready(a) \in Nat
  BY WaitingType DEF SapiTypeInv, Ready

LEMMA AnswersApart ==
    /\ \A c \in Commands : c # Handle /\ c # SapiStart /\ c # NoBind
    /\ Handle # SapiStart /\ Handle # NoBind /\ SapiStart # NoBind
    /\ Commands \subseteq Abouts /\ Handle \in Abouts /\ SapiStart \in Abouts
  BY CommandsAssumption DEF Handle, SapiStart, NoBind, Abouts

-----------------------------------------------------------------------------
(* Answers                                                                 *)

\* A message that is sent waits, or is lost.
LEMMA CbackReady ==
    ASSUME SapiTypeInv, NEW m \in SapiMessages, NEW set,
           m.kind \in Answers, SAPI_SendCback(m, set)
    PROVE  /\ queue' \in Seq(SapiMessages) /\ lost' \in [Abouts -> Nat]
           /\ sapiEvents' = set \/ sapiEvents' = set \cup {"SYS"}
           /\ \A a \in Abouts : Ready(a)' = Ready(a) + One(m.about = a)
<1>0. queue \in Seq(SapiMessages) /\ lost \in [Abouts -> Nat] /\ m.about \in Abouts
  BY DEF SapiTypeInv, SapiMessages
<1>a. \A a \in Abouts : Waiting(queue, a) \in Nat
  BY <1>0, WaitingType
<1>1. CASE /\ queue' = Append(queue, m) /\ sapiEvents' = set \cup {"SYS"}
           /\ UNCHANGED lost
  <2>1. \A a \in Abouts : Waiting(queue', a) = Waiting(queue, a) + One(m.about = a)
    BY <1>0, <1>1, WaitingAppend
  <2>2. queue' \in Seq(SapiMessages)
    BY <1>0, <1>1, WaitingAppend
  <2> QED
    BY <1>0, <1>a, <1>1, <2>1, <2>2 DEF Ready, One
<1>2. CASE /\ lost' = [lost EXCEPT ![m.about] = @ + 1]
           /\ sapiEvents' = set /\ UNCHANGED queue
  <2>1. /\ lost' \in [Abouts -> Nat]
        /\ \A a \in Abouts : lost'[a] = lost[a] + One(m.about = a)
    BY <1>0, <1>2 DEF One
  <2> QED
    BY SMTT(30), <1>0, <1>a, <1>2, <2>1 DEF Ready, One
<1> QED
  BY <1>1, <1>2 DEF SAPI_SendCback

LEMMA CnfMessage ==
    ASSUME NEW kind \in Answers, NEW about \in Abouts,
           NEW status \in {"success", "refused", "invalid", "sent"}
    PROVE  /\ Cnf(kind, about, status) \in SapiMessages
           /\ Cnf(kind, about, status).kind = kind /\ Cnf(kind, about, status).about = about
  BY DEF Cnf, SapiMessages

LEMMA AskedOwes ==
    ASSUME SapiTypeInv, NEW about \in Abouts, Asked(about)
    PROVE  /\ owed' \in [Abouts -> Nat]
           /\ \A a \in Abouts : owed'[a] = owed[a] + One(about = a)
  BY DEF SapiTypeInv, Asked, One

LEMMA QuietlyReady ==
    ASSUME SapiTypeInv, Quietly
    PROVE  /\ queue' \in Seq(SapiMessages) /\ lost' \in [Abouts -> Nat]
           /\ sapiEvents' = sapiEvents
           /\ \A a \in Abouts : Ready(a)' = Ready(a)
  BY DEF SapiTypeInv, Quietly, Ready

\* What is asked for and answered at once, or not at all, leaves everything even.
LEMMA Even ==
    ASSUME SapiInv, NEW more \in [Abouts -> Nat],
           \A a \in Abouts : owed'[a] = owed[a] + more[a] /\ Ready(a)' = Ready(a) + more[a],
           UNCHANGED <<sapi_bindInProgress, sending>>
    PROVE  OwedInv'
<1>1. \A a \in Abouts : Ready(a) \in Nat /\ owed[a] \in Nat /\ more[a] \in Nat
  BY ReadyType DEF SapiInv, SapiTypeInv
<1>2. Commands \subseteq Abouts /\ Handle \in Abouts /\ SapiStart \in Abouts
  BY AnswersApart
<1>3. sending \in Nat
  BY DEF SapiInv, SapiTypeInv
<1>4. OwedInv
  BY DEF SapiInv
<1> QED
  BY <1>1, <1>2, <1>3, <1>4 DEF OwedInv, One

LEMMA EvenOne ==
    ASSUME SapiInv, NEW about \in Abouts,
           \A a \in Abouts : owed'[a] = owed[a] + One(about = a),
           \A a \in Abouts : Ready(a)' = Ready(a) + One(about = a),
           UNCHANGED <<sapi_bindInProgress, sending>>
    PROVE  OwedInv'
<1> DEFINE more == [a \in Abouts |-> One(about = a)]
<1>1. more \in [Abouts -> Nat]
  BY DEF One
<1> QED
  BY <1>1, Even

LEMMA EvenNone ==
    ASSUME SapiInv, owed' = owed, \A a \in Abouts : Ready(a)' = Ready(a),
           UNCHANGED <<sapi_bindInProgress, sending>>
    PROVE  OwedInv'
  BY AnswersApart DEF SapiInv, OwedInv

\* What leaves the timer and the request as they are keeps TimerInv.
LEMMA TimerKept ==
    ASSUME SapiInv, UNCHANGED <<sapi_bindInProgress, extra, stale>>,
           "BIND" \in timers' <=> "BIND" \in timers,
           "BIND" \in sapiEvents' <=> "BIND" \in sapiEvents
    PROVE  TimerInv'
  BY DEF SapiInv, TimerInv

-----------------------------------------------------------------------------
(* The application's calls                                                 *)

LEMMA BindKnownStep ==
    ASSUME SapiInv, NEW c \in Commands, NEW d, BindKnown(c, d)
    PROVE  SapiInv'
<1>0. SapiTypeInv /\ c \in Abouts
  BY AnswersApart DEF SapiInv
<1>1. \E status \in {"success", "refused"} :
         SAPI_SendCback(Cnf("BIND", c, status), sapiEvents)
  BY DEF BindKnown
<1>2. PICK status \in {"success", "refused"} :
         SAPI_SendCback(Cnf("BIND", c, status), sapiEvents)
  BY <1>1
<1> DEFINE m == Cnf("BIND", c, status)
<1>3. m \in SapiMessages /\ m.kind \in Answers /\ m.about = c
  BY <1>0, CnfMessage DEF Answers
<1> HIDE DEF m
<1>4. /\ queue' \in Seq(SapiMessages) /\ lost' \in [Abouts -> Nat]
      /\ sapiEvents' = sapiEvents \/ sapiEvents' = sapiEvents \cup {"SYS"}
      /\ \A a \in Abouts : Ready(a)' = Ready(a) + One(c = a)
  BY <1>0, <1>2, <1>3, CbackReady DEF m
<1>5. /\ owed' \in [Abouts -> Nat] /\ \A a \in Abouts : owed'[a] = owed[a] + One(c = a)
  BY <1>0, AskedOwes DEF BindKnown
<1>6. UNCHANGED <<timers, sapi_bindInProgress, saved, air, sending, extra, stale>>
  BY DEF BindKnown
<1>7. UNCHANGED <<bindings, nvTimer>> \/ nvTimer' = TRUE
  BY DEF BindKnown, Update
<1>8. SapiTypeInv'
  BY <1>0, <1>4, <1>5, <1>6, <1>7 DEF SapiTypeInv
<1>9. TimerInv'
  BY <1>4, <1>6, TimerKept
<1>10. OwedInv'
  BY <1>0, <1>4, <1>5, <1>6, EvenOne
<1>11. TableSaved'
  BY <1>6, <1>7 DEF SapiInv, TableSaved
<1> QED
  BY <1>8, <1>9, <1>10, <1>11 DEF SapiInv

LEMMA BindAnyStep ==
    ASSUME SapiInv, NEW c \in Commands, BindAny(c)
    PROVE  SapiInv'
<1>0. SapiTypeInv /\ c \in Abouts /\ c # NoBind
  BY AnswersApart DEF SapiInv
<1>1. /\ owed' \in [Abouts -> Nat] /\ \A a \in Abouts : owed'[a] = owed[a] + One(c = a)
  BY <1>0, AskedOwes DEF BindAny
<1>2. UNCHANGED <<bindings, nvTimer, saved, sending, extra, stale>>
  BY DEF BindAny
<1>3. CASE /\ sapi_bindInProgress = NoBind
           /\ timers' = timers \cup {"BIND"}
           /\ sapi_bindInProgress' = c
           /\ air' = air \cup {<<c, dev>> : dev \in Offers[c]}
           /\ Quietly
  <2>1. /\ queue' \in Seq(SapiMessages) /\ lost' \in [Abouts -> Nat]
        /\ sapiEvents' = sapiEvents /\ \A a \in Abouts : Ready(a)' = Ready(a)
    BY <1>0, <1>3, QuietlyReady
  <2>2. {<<c, dev>> : dev \in Offers[c]} \subseteq (Commands \cup {"address"}) \X Partners
    BY DEF Partners
  <2>3. SapiTypeInv'
    BY <1>0, <1>1, <1>2, <1>3, <2>1, <2>2 DEF SapiTypeInv
  <2>4. TimerInv'
    BY <1>0, <1>2, <1>3, <2>1 DEF SapiInv, TimerInv
  <2>5. OwedInv'
    <3>1. \A a \in Abouts : Ready(a) \in Nat /\ owed[a] \in Nat
      BY <1>0, ReadyType DEF SapiTypeInv
    <3>2. sending \in Nat
      BY <1>0 DEF SapiTypeInv
    <3> QED
      BY <1>0, <1>1, <1>2, <1>3, <2>1, <3>1, <3>2, AnswersApart DEF SapiInv, OwedInv, One
  <2>6. TableSaved'
    BY <1>2 DEF SapiInv, TableSaved
  <2> QED
    BY <2>3, <2>4, <2>5, <2>6 DEF SapiInv
<1>4. CASE /\ SAPI_SendCback(Cnf("BIND", c, "refused"), sapiEvents)
           /\ UNCHANGED <<timers, sapi_bindInProgress, air>>
  <2> DEFINE m == Cnf("BIND", c, "refused")
  <2>1. m \in SapiMessages /\ m.kind \in Answers /\ m.about = c
    BY <1>0, CnfMessage DEF Answers
  <2> HIDE DEF m
  <2>2. /\ queue' \in Seq(SapiMessages) /\ lost' \in [Abouts -> Nat]
        /\ sapiEvents' = sapiEvents \/ sapiEvents' = sapiEvents \cup {"SYS"}
        /\ \A a \in Abouts : Ready(a)' = Ready(a) + One(c = a)
    BY <1>0, <1>4, <2>1, CbackReady DEF m
  <2>3. SapiTypeInv'
    BY <1>0, <1>1, <1>2, <1>4, <2>2 DEF SapiTypeInv
  <2>4. TimerInv'
    BY <1>2, <1>4, <2>2, TimerKept
  <2>5. OwedInv'
    BY <1>0, <1>1, <1>2, <1>4, <2>2, EvenOne
  <2>6. TableSaved'
    BY <1>2 DEF SapiInv, TableSaved
  <2> QED
    BY <2>3, <2>4, <2>5, <2>6 DEF SapiInv
<1> QED
  BY <1>3, <1>4 DEF BindAny

\* What asks for nothing and is told nothing.
LEMMA QuietStep ==
    ASSUME SapiInv, Quietly, UNCHANGED <<sapi_bindInProgress, sending, owed, extra, stale>>,
           "BIND" \in timers' <=> "BIND" \in timers,
           air' \subseteq (Commands \cup {"address"}) \X Partners,
           UNCHANGED <<bindings, nvTimer>> \/ nvTimer' = TRUE, saved' = saved
    PROVE  SapiInv'
<1>0. SapiTypeInv
  BY DEF SapiInv
<1>1. /\ queue' \in Seq(SapiMessages) /\ lost' \in [Abouts -> Nat]
      /\ sapiEvents' = sapiEvents /\ \A a \in Abouts : Ready(a)' = Ready(a)
  BY <1>0, QuietlyReady
<1>2. SapiTypeInv'
  BY <1>0, <1>1 DEF SapiTypeInv
<1>3. TimerInv'
  BY <1>1, TimerKept
<1>4. OwedInv'
  BY <1>1, EvenNone
<1>5. TableSaved'
  BY DEF SapiInv, TableSaved
<1> QED
  BY <1>2, <1>3, <1>4, <1>5 DEF SapiInv

LEMMA UnbindStep == ASSUME SapiInv, NEW c, Unbind(c) PROVE SapiInv'
<1>1. air' \subseteq (Commands \cup {"address"}) \X Partners
  BY DEF Unbind, SapiInv, SapiTypeInv
<1> QED
  BY <1>1, QuietStep DEF Unbind, Update

LEMMA AllowBindStep == ASSUME SapiInv, NEW timeout, zb_AllowBind(timeout) PROVE SapiInv'
<1>1. air' \subseteq (Commands \cup {"address"}) \X Partners
  BY DEF zb_AllowBind, SapiInv, SapiTypeInv
<1>2. "BIND" \in timers' <=> "BIND" \in timers
  BY DEF zb_AllowBind
<1> QED
  BY <1>1, <1>2, QuietStep DEF zb_AllowBind, request

LEMMA FindDeviceStep == ASSUME SapiInv, zb_FindDeviceRequest PROVE SapiInv'
<1>1. air' \subseteq (Commands \cup {"address"}) \X Partners
  BY DEF zb_FindDeviceRequest, SapiInv, SapiTypeInv
<1> QED
  BY <1>1, QuietStep DEF zb_FindDeviceRequest, request

LEMMA LostAnswerStep == ASSUME SapiInv, LostAnswer PROVE SapiInv'
<1>1. air' \subseteq (Commands \cup {"address"}) \X Partners
  BY DEF LostAnswer, SapiInv, SapiTypeInv
<1> QED
  BY <1>1, QuietStep DEF LostAnswer, request

LEMMA SendDataStep == ASSUME SapiInv, zb_SendDataRequest PROVE SapiInv'
<1>0. SapiTypeInv /\ Handle \in Abouts
  BY AnswersApart DEF SapiInv
<1>1. /\ owed' \in [Abouts -> Nat] /\ \A a \in Abouts : owed'[a] = owed[a] + One(Handle = a)
  BY <1>0, AskedOwes DEF zb_SendDataRequest
<1>2. UNCHANGED <<timers, bindings, nvTimer, sapi_bindInProgress, saved, air, extra, stale>>
  BY DEF zb_SendDataRequest, request
<1>3. TableSaved'
  BY <1>2 DEF SapiInv, TableSaved
<1>4. CASE sending' = sending + 1 /\ Quietly
  <2>1. /\ queue' \in Seq(SapiMessages) /\ lost' \in [Abouts -> Nat]
        /\ sapiEvents' = sapiEvents /\ \A a \in Abouts : Ready(a)' = Ready(a)
    BY <1>0, <1>4, QuietlyReady
  <2>2. SapiTypeInv'
    BY <1>0, <1>1, <1>2, <1>4, <2>1 DEF SapiTypeInv
  <2>3. TimerInv'
    BY <1>2, <2>1, TimerKept
  <2>4. OwedInv'
    <3>1. \A a \in Abouts : Ready(a) \in Nat /\ owed[a] \in Nat
      BY <1>0, ReadyType DEF SapiTypeInv
    <3>2. sending \in Nat
      BY <1>0 DEF SapiTypeInv
    <3> QED
      BY <1>0, <1>1, <1>2, <1>4, <2>1, <3>1, <3>2, AnswersApart DEF SapiInv, OwedInv, One
  <2> QED
    BY <1>3, <2>2, <2>3, <2>4 DEF SapiInv
<1>5. CASE SAPI_SendCback(Cnf("DATA", Handle, "refused"), sapiEvents) /\ UNCHANGED sending
  <2> DEFINE m == Cnf("DATA", Handle, "refused")
  <2>1. m \in SapiMessages /\ m.kind \in Answers /\ m.about = Handle
    BY <1>0, CnfMessage DEF Answers
  <2> HIDE DEF m
  <2>2. /\ queue' \in Seq(SapiMessages) /\ lost' \in [Abouts -> Nat]
        /\ sapiEvents' = sapiEvents \/ sapiEvents' = sapiEvents \cup {"SYS"}
        /\ \A a \in Abouts : Ready(a)' = Ready(a) + One(Handle = a)
    BY <1>0, <1>5, <2>1, CbackReady DEF m
  <2>3. SapiTypeInv'
    BY <1>0, <1>1, <1>2, <1>5, <2>2 DEF SapiTypeInv
  <2>4. TimerInv'
    BY <1>2, <2>2, TimerKept
  <2>5. OwedInv'
    BY <1>0, <1>1, <1>2, <1>5, <2>2, EvenOne
  <2> QED
    BY <1>3, <2>3, <2>4, <2>5 DEF SapiInv
<1> QED
  BY <1>4, <1>5 DEF zb_SendDataRequest

\* A start that is refused is told; set is what is left of the events.
LEMMA StartStep ==
    ASSUME SapiInv, NEW set, "BIND" \in set <=> "BIND" \in sapiEvents,
           \/ zb_StartRequest(set)
           \/ sapiEvents' = set /\ UNCHANGED <<queue, owed, lost>>,
           UNCHANGED <<timers, bindings, nvTimer, sapi_bindInProgress, saved, air, sending, extra, stale>>
    PROVE  SapiInv'
<1>0. SapiTypeInv /\ SapiStart \in Abouts
  BY AnswersApart DEF SapiInv
<1>1. TableSaved'
  BY DEF SapiInv, TableSaved
<1>2. CASE SAPI_SendCback(Cnf("START", SapiStart, "invalid"), set) /\ Asked(SapiStart)
  <2> DEFINE m == Cnf("START", SapiStart, "invalid")
  <2>0. m \in SapiMessages /\ m.kind \in Answers /\ m.about = SapiStart
    BY <1>0, CnfMessage DEF Answers
  <2> HIDE DEF m
  <2>1. /\ owed' \in [Abouts -> Nat] /\ \A a \in Abouts : owed'[a] = owed[a] + One(SapiStart = a)
    BY <1>0, <1>2, AskedOwes
  <2>2. /\ queue' \in Seq(SapiMessages) /\ lost' \in [Abouts -> Nat]
        /\ sapiEvents' = set \/ sapiEvents' = set \cup {"SYS"}
        /\ \A a \in Abouts : Ready(a)' = Ready(a) + One(SapiStart = a)
    BY <1>0, <1>2, <2>0, CbackReady DEF m
  <2>3. SapiTypeInv'
    BY <1>0, <2>1, <2>2 DEF SapiTypeInv
  <2>4. TimerInv'
    BY <2>2, TimerKept
  <2>5. OwedInv'
    BY <1>0, <2>1, <2>2, EvenOne
  <2> QED
    BY <1>1, <2>3, <2>4, <2>5 DEF SapiInv
<1>3. CASE sapiEvents' = set /\ UNCHANGED <<queue, owed, lost>>
  <2>1. SapiTypeInv'
    BY <1>0, <1>3 DEF SapiTypeInv
  <2>2. TimerInv'
    BY <1>3, TimerKept
  <2>3. OwedInv'
    BY <1>3, EvenNone DEF Ready
  <2> QED
    BY <1>1, <2>1, <2>2, <2>3 DEF SapiInv
<1> QED
  BY <1>2, <1>3 DEF zb_StartRequest

LEMMA StartCallStep == ASSUME SapiInv, StartCall PROVE SapiInv'
<1>1. zb_StartRequest(sapiEvents)
  BY DEF StartCall
<1>2. UNCHANGED <<timers, bindings, nvTimer, sapi_bindInProgress, saved, air, sending, extra, stale>>
  BY DEF StartCall, request
<1> QED
  BY <1>1, <1>2, StartStep

LEMMA EntryStep == ASSUME SapiInv, Entry PROVE SapiInv'
<1> DEFINE set == sapiEvents \ {"ENTRY"}
<1>1. "BIND" \in set <=> "BIND" \in sapiEvents
  OBVIOUS
<1>2. \/ zb_StartRequest(set)
      \/ sapiEvents' = set /\ UNCHANGED <<queue, owed, lost>>
  BY DEF Entry
<1>3. UNCHANGED <<timers, bindings, nvTimer, sapi_bindInProgress, saved, air, sending, extra, stale>>
  BY DEF Entry, request
<1> HIDE DEF set
<1> QED
  BY <1>1, <1>2, <1>3, StartStep

-----------------------------------------------------------------------------
(* The other tasks                                                         *)

LEMMA PostReady ==
    ASSUME SapiTypeInv, NEW m \in SapiMessages, Post(m)
    PROVE  /\ queue' \in Seq(SapiMessages) /\ lost' = lost
           /\ "BIND" \in sapiEvents' <=> "BIND" \in sapiEvents
           /\ \A a \in Abouts :
                Ready(a)' = Ready(a) + One(m.kind \in Answers /\ m.about = a)
<1>0. queue \in Seq(SapiMessages) /\ lost \in [Abouts -> Nat]
  BY DEF SapiTypeInv
<1>1. /\ queue' = Append(queue, m) /\ lost' = lost
      /\ "BIND" \in sapiEvents' <=> "BIND" \in sapiEvents
  BY DEF Post
<1>2. queue' \in Seq(SapiMessages)
  BY <1>0, <1>1, WaitingAppend
<1>3. ASSUME NEW a \in Abouts
      PROVE  Ready(a)' = Ready(a) + One(m.kind \in Answers /\ m.about = a)
  <2>1. Waiting(queue', a) = Waiting(queue, a) + One(m.kind \in Answers /\ m.about = a)
    BY <1>0, <1>1, WaitingAppend
  <2>2. Waiting(queue, a) \in Nat /\ lost[a] \in Nat
    BY <1>0, WaitingType
  <2>3. One(m.kind \in Answers /\ m.about = a) \in Nat
    BY DEF One
  <2>4. Ready(a)' = lost[a] + Waiting(queue', a)
    BY <1>1 DEF Ready
  <2> HIDE DEF Answers
  <2> QED
    BY <2>1, <2>2, <2>3, <2>4 DEF Ready
<1> QED
  BY <1>1, <1>2, <1>3

LEMMA AnswerStep == ASSUME SapiInv, Answer PROVE SapiInv'
<1>0. SapiTypeInv
  BY DEF SapiInv
<1>1. PICK a \in air :
         /\ air' = air \ {a}
         /\ Post([kind |-> IF a[1] = "address" THEN "NWK_addr_rsp" ELSE "Match_Desc_rsp",
                  about |-> a[1], status |-> "success", from |-> a[2]])
  BY DEF Answer
<1> DEFINE m == [kind |-> IF a[1] = "address" THEN "NWK_addr_rsp" ELSE "Match_Desc_rsp",
                 about |-> a[1], status |-> "success", from |-> a[2]]
<1>2. m \in SapiMessages /\ m.kind \notin Answers
  <2>1. a[1] \in Commands \cup {"address"} /\ a[2] \in Partners
    BY <1>0 DEF SapiTypeInv
  <2> QED
    BY <2>1 DEF SapiMessages, Answers, Found, Abouts
<1> HIDE DEF m
<1>3. /\ queue' \in Seq(SapiMessages) /\ lost' = lost
      /\ "BIND" \in sapiEvents' <=> "BIND" \in sapiEvents
      /\ \A b \in Abouts : Ready(b)' = Ready(b) + One(m.kind \in Answers /\ m.about = b)
  BY <1>0, <1>1, <1>2, PostReady DEF m
<1>4. \A b \in Abouts : Ready(b)' = Ready(b)
  BY <1>0, <1>2, <1>3, ReadyType DEF One
<1>5. UNCHANGED <<timers, sapi_bindInProgress, bindings, nvTimer, saved, sending, owed, extra, stale>>
  BY DEF Answer, request
<1>6. SapiTypeInv'
  BY <1>0, <1>1, <1>3, <1>5 DEF SapiTypeInv
<1>7. TimerInv'
  BY <1>3, <1>5, TimerKept
<1>8. OwedInv'
  BY <1>4, <1>5, EvenNone
<1>9. TableSaved'
  BY <1>5 DEF SapiInv, TableSaved
<1> QED
  BY <1>6, <1>7, <1>8, <1>9 DEF SapiInv

LEMMA DataConfirmStep == ASSUME SapiInv, DataConfirm PROVE SapiInv'
<1>0. SapiTypeInv /\ Handle \in Abouts
  BY AnswersApart DEF SapiInv
<1> DEFINE m == Cnf("DATA", Handle, "sent")
<1>1. m \in SapiMessages /\ m.kind \in Answers /\ m.about = Handle
  BY <1>0, CnfMessage DEF Answers
<1>2. Post(m) /\ sending > 0 /\ sending' = sending - 1
  BY DEF DataConfirm
<1> HIDE DEF m
<1>3. /\ queue' \in Seq(SapiMessages) /\ lost' = lost
      /\ "BIND" \in sapiEvents' <=> "BIND" \in sapiEvents
      /\ \A b \in Abouts : Ready(b)' = Ready(b) + One(m.kind \in Answers /\ m.about = b)
  BY <1>0, <1>1, <1>2, PostReady
<1>4. \A b \in Abouts : Ready(b)' = Ready(b) + One(Handle = b)
  BY <1>1, <1>3
<1>5. UNCHANGED <<timers, sapi_bindInProgress, bindings, nvTimer, saved, air, owed, extra, stale>>
  BY DEF DataConfirm, request
<1>6. SapiTypeInv'
  BY <1>0, <1>2, <1>3, <1>5 DEF SapiTypeInv
<1>7. TimerInv'
  BY <1>3, <1>5, TimerKept
<1>8. OwedInv'
  <2>1. \A a \in Abouts : Ready(a) \in Nat
    BY <1>0, ReadyType
  <2>2. sending \in Nat
    BY <1>0 DEF SapiTypeInv
  <2> QED
    BY <1>2, <1>4, <1>5, <2>1, <2>2, AnswersApart DEF SapiInv, OwedInv, One
<1>9. TableSaved'
  BY <1>5 DEF SapiInv, TableSaved
<1> QED
  BY <1>6, <1>7, <1>8, <1>9 DEF SapiInv

\* What leaves the queue and what is owed as they are keeps the two counts.
LEMMA Undisturbed ==
    ASSUME SapiInv, UNCHANGED <<queue, owed, lost, sapi_bindInProgress, sending, air, extra, stale>>,
           nvTimer' \in BOOLEAN
    PROVE  SapiTypeInv' /\ OwedInv'
<1>1. SapiTypeInv'
  BY DEF SapiInv, SapiTypeInv
<1>2. OwedInv'
  BY EvenNone DEF Ready
<1> QED
  BY <1>1, <1>2

LEMMA ExpireStep == ASSUME SapiInv, Expire PROVE SapiInv'
<1>1. UNCHANGED <<queue, owed, lost, sapi_bindInProgress, bindings, saved, nvTimer,
                  sending, air, extra, stale>>
  BY DEF Expire, request, sapiHistory
<1>2. PICK e \in timers : timers' = timers \ {e} /\ sapiEvents' = sapiEvents \cup {e}
  BY DEF Expire
<1>3. SapiTypeInv' /\ OwedInv'
  BY <1>1, Undisturbed DEF SapiInv, SapiTypeInv
<1>4. TimerInv'
  BY <1>1, <1>2 DEF SapiInv, TimerInv
<1>5. TableSaved'
  BY <1>1 DEF SapiInv, TableSaved
<1> QED
  BY <1>3, <1>4, <1>5 DEF SapiInv

LEMMA UpdateNvStep == ASSUME SapiInv, UpdateNv PROVE SapiInv'
<1>1. UNCHANGED <<queue, owed, lost, sapi_bindInProgress, bindings, timers, sapiEvents,
                  sending, air, extra, stale>>
  BY DEF UpdateNv, sapiHistory
<1>2. nvTimer' = FALSE /\ saved' = bindings
  BY DEF UpdateNv
<1>3. SapiTypeInv' /\ OwedInv'
  BY <1>1, <1>2, Undisturbed
<1>4. TimerInv'
  BY <1>1, TimerKept
<1>5. TableSaved'
  BY <1>1, <1>2 DEF TableSaved
<1> QED
  BY <1>3, <1>4, <1>5 DEF SapiInv

-----------------------------------------------------------------------------
(* SAPI's events                                                           *)

LEMMA ReceiveStep == ASSUME SapiInv, Receive \/ NoMessage \/ AllowEnds PROVE SapiInv'
<1>1. /\ UNCHANGED <<queue, owed, lost, sapi_bindInProgress, bindings, saved, nvTimer,
                     sending, air, extra, stale, timers>>
      /\ "BIND" \in sapiEvents' <=> "BIND" \in sapiEvents
  BY DEF Receive, NoMessage, AllowEnds, request, sapiHistory
<1>2. SapiTypeInv' /\ OwedInv'
  BY <1>1, Undisturbed DEF SapiInv, SapiTypeInv
<1>3. TimerInv'
  BY <1>1, TimerKept
<1>4. TableSaved'
  BY <1>1 DEF SapiInv, TableSaved
<1> QED
  BY <1>2, <1>3, <1>4 DEF SapiInv

\* An answer to what is owed is not one too many.
LEMMA TellOwes ==
    ASSUME SapiTypeInv, NEW about \in Abouts, owed[about] > 0, Tell(about)
    PROVE  /\ owed' \in [Abouts -> Nat] /\ extra' = extra
           /\ \A a \in Abouts : owed'[a] = owed[a] - One(about = a)
<1>1. about # NoBind
  BY AnswersApart DEF Abouts
<1>2. owed \in [Abouts -> Nat] /\ extra \in BOOLEAN
  BY DEF SapiTypeInv
<1>3. owed' = [owed EXCEPT ![about] = @ - 1] /\ extra' = extra
  BY <1>1, <1>2 DEF Tell
<1> QED
  BY <1>2, <1>3 DEF One

LEMMA TellNobody ==
    ASSUME Tell(NoBind) PROVE owed' = owed /\ extra' = TRUE
  BY DEF Tell

\* The request under way is owed an answer, and so is what waits in the queue.
LEMMA RequestIsOwed ==
    ASSUME SapiInv, sapi_bindInProgress # NoBind
    PROVE  sapi_bindInProgress \in Abouts /\ owed[sapi_bindInProgress] > 0
<1>1. sapi_bindInProgress \in Commands /\ sapi_bindInProgress \in Abouts
  BY AnswersApart DEF SapiInv, SapiTypeInv
<1>2. Ready(sapi_bindInProgress) \in Nat
  BY <1>1, ReadyType DEF SapiInv
<1> QED
  BY <1>1, <1>2 DEF SapiInv, OwedInv, One

\* The request under way is over, and told so.
LEMMA RequestOver ==
    ASSUME SapiInv, sapi_bindInProgress # NoBind, Tell(sapi_bindInProgress),
           sapi_bindInProgress' = NoBind, sending' = sending,
           \A a \in Abouts : Ready(a)' = Ready(a)
    PROVE  OwedInv'
<1>1. sapi_bindInProgress \in Abouts /\ owed[sapi_bindInProgress] > 0
  BY RequestIsOwed
<1>2. \A a \in Abouts : owed'[a] = owed[a] - One(sapi_bindInProgress = a)
  BY <1>1, TellOwes DEF SapiInv
<1>3. \A a \in Abouts : Ready(a) \in Nat /\ owed[a] \in Nat
  BY ReadyType DEF SapiInv, SapiTypeInv
<1>4. sending \in Nat /\ sapi_bindInProgress \in Commands
  BY DEF SapiInv, SapiTypeInv
<1> QED
  BY <1>2, <1>3, <1>4, AnswersApart DEF SapiInv, OwedInv, One

LEMMA BindTimesOutStep == ASSUME SapiInv, BindTimesOut PROVE SapiInv'
<1>0. SapiTypeInv /\ TimerInv
  BY DEF SapiInv
<1>1. UNCHANGED <<queue, lost, bindings, saved, nvTimer, sending, air, stale, timers>>
  BY DEF BindTimesOut
<1>2. /\ "BIND" \in sapiEvents /\ sapiEvents' = sapiEvents \ {"BIND"}
      /\ Tell(sapi_bindInProgress) /\ sapi_bindInProgress' = NoBind
  BY DEF BindTimesOut, Serves, AfterTimeout
<1>3. TableSaved'
  BY <1>1 DEF SapiInv, TableSaved
<1>4. \A a \in Abouts : Ready(a)' = Ready(a)
  BY <1>1 DEF Ready
<1>5. CASE sapi_bindInProgress = NoBind
  <2>1. owed' = owed /\ extra' = TRUE
    BY <1>2, <1>5, TellNobody
  <2>2. SapiTypeInv'
    BY <1>0, <1>1, <1>2, <2>1 DEF SapiTypeInv
  <2>3. TimerInv'
    BY <1>0, <1>1, <1>2, <1>5, <2>1 DEF TimerInv
  <2>4. OwedInv'
    BY <1>1, <1>2, <1>4, <1>5, <2>1, EvenNone
  <2> QED
    BY <1>3, <2>2, <2>3, <2>4 DEF SapiInv
<1>6. CASE sapi_bindInProgress # NoBind
  <2>1. owed' \in [Abouts -> Nat] /\ extra' = extra
    BY <1>0, <1>2, <1>6, RequestIsOwed, TellOwes
  <2>2. SapiTypeInv'
    BY <1>0, <1>1, <1>2, <2>1 DEF SapiTypeInv
  <2>3. TimerInv'
    BY <1>0, <1>1, <1>2, <2>1 DEF TimerInv
  <2>4. OwedInv'
    BY <1>1, <1>2, <1>4, <1>6, RequestOver
  <2> QED
    BY <1>3, <2>2, <2>3, <2>4 DEF SapiInv
<1> QED
  BY <1>5, <1>6

\* A message that answers nothing is taken off the queue.
LEMMA FoundTaken ==
    ASSUME SapiInv, queue # <<>>, queue' = Tail(queue), lost' = lost,
           Head(queue).kind \notin Answers
    PROVE  queue' \in Seq(SapiMessages) /\ \A a \in Abouts : Ready(a)' = Ready(a)
<1>0. queue \in Seq(SapiMessages)
  BY DEF SapiInv, SapiTypeInv
<1>1. queue' \in Seq(SapiMessages)
  BY <1>0, WaitingTail
<1>2. ASSUME NEW a \in Abouts PROVE Waiting(queue', a) = Waiting(queue, a)
  <2>1. /\ Waiting(queue, a) =
             Waiting(queue', a) + One(Head(queue).kind \in Answers /\ Head(queue).about = a)
    BY <1>0, WaitingTail
  <2>2. Waiting(queue', a) \in Nat
    BY <1>1, WaitingType
  <2> QED
    BY <2>1, <2>2 DEF One
<1> QED
  BY <1>1, <1>2 DEF Ready

LEMMA MatchedStep ==
    ASSUME SapiInv, Message, Head(queue).kind = "Match_Desc_rsp", Matched(Head(queue)), lost' = lost
    PROVE  SapiInv'
<1>0. SapiTypeInv /\ TimerInv
  BY DEF SapiInv
<1>1. /\ queue # <<>> /\ queue' = Tail(queue)
      /\ UNCHANGED <<sapiEvents, saved, air, sending>>
  BY DEF Message
<1>2. queue' \in Seq(SapiMessages) /\ \A a \in Abouts : Ready(a)' = Ready(a)
  BY <1>1, FoundTaken DEF Answers
<1>3. CASE UNCHANGED <<request, timers, stale, owed, extra>>
  <2>1. UNCHANGED <<sapi_bindInProgress, bindings, nvTimer>>
    BY <1>3 DEF request
  <2>2. SapiTypeInv'
    BY <1>0, <1>1, <1>2, <1>3, <2>1 DEF SapiTypeInv
  <2>3. TimerInv'
    BY <1>1, <1>3, <2>1, TimerKept
  <2>4. OwedInv'
    BY <1>1, <1>2, <1>3, <2>1, EvenNone
  <2>5. TableSaved'
    BY <1>1, <2>1 DEF SapiInv, TableSaved
  <2> QED
    BY <2>2, <2>3, <2>4, <2>5 DEF SapiInv
<1>4. CASE /\ sapi_bindInProgress # NoBind
           /\ timers' = timers \ {"BIND"}
           /\ Update
           /\ stale' = (stale \/ "BIND" \in sapiEvents)
           /\ Tell(sapi_bindInProgress)
           /\ sapi_bindInProgress' = NoBind
  <2>1. owed' \in [Abouts -> Nat] /\ extra' = extra
    BY <1>0, <1>4, RequestIsOwed, TellOwes
  <2>2. SapiTypeInv'
    BY <1>0, <1>1, <1>2, <1>4, <2>1 DEF SapiTypeInv, Update
  <2>3. TimerInv'
    BY <1>0, <1>1, <1>4, <2>1 DEF TimerInv, SapiTypeInv
  <2>4. OwedInv'
    BY <1>1, <1>2, <1>4, RequestOver
  <2>5. TableSaved'
    BY <1>4 DEF TableSaved, Update
  <2> QED
    BY <2>2, <2>3, <2>4, <2>5 DEF SapiInv
<1> QED
  BY <1>3, <1>4 DEF Matched

LEMMA CnfStep ==
    ASSUME SapiInv, Message, Head(queue).kind \in Answers, Tell(Head(queue).about),
           UNCHANGED <<timers, request, lost, stale>>
    PROVE  SapiInv'
<1>0. SapiTypeInv /\ TimerInv /\ queue \in Seq(SapiMessages)
  BY DEF SapiInv, SapiTypeInv
<1>1. /\ queue # <<>> /\ queue' = Tail(queue)
      /\ UNCHANGED <<sapiEvents, saved, air, sending>>
      /\ UNCHANGED <<sapi_bindInProgress, bindings, nvTimer>>
  BY DEF Message, request
<1> DEFINE about == Head(queue).about
<1>2. queue' \in Seq(SapiMessages) /\ about \in Abouts
  BY <1>0, <1>1, WaitingTail DEF SapiMessages
<1> HIDE DEF about
<1>3. \A a \in Abouts : /\ Ready(a) = Ready(a)' + One(about = a)
                        /\ Ready(a)' \in Nat
  <2> SUFFICES ASSUME NEW a \in Abouts PROVE Ready(a) = Ready(a)' + One(about = a) /\ Ready(a)' \in Nat
    OBVIOUS
  <2>1. Waiting(queue, a) = Waiting(queue', a) + One(about = a)
    BY <1>0, <1>1, WaitingTail DEF about
  <2>2. Waiting(queue', a) \in Nat /\ lost[a] \in Nat
    BY <1>0, <1>2, WaitingType DEF SapiTypeInv
  <2>3. One(about = a) \in Nat
    BY DEF One
  <2> QED
    BY <2>1, <2>2, <2>3 DEF Ready
<1>4. \A a \in Abouts : owed[a] \in Nat /\ Ready(a) \in Nat
  BY <1>0, ReadyType DEF SapiTypeInv
<1>5. owed[about] > 0
  <2>1. Ready(about) > 0
    BY <1>2, <1>3 DEF One
  <2>2. sending \in Nat
    BY <1>0 DEF SapiTypeInv
  <2>3. about \in Commands \/ about = Handle \/ about = SapiStart
    BY <1>2 DEF Abouts
  <2> QED
    BY <1>2, <1>4, <2>1, <2>2, <2>3 DEF SapiInv, OwedInv, One
<1>6. /\ owed' \in [Abouts -> Nat] /\ extra' = extra
      /\ \A a \in Abouts : owed'[a] = owed[a] - One(about = a)
  BY <1>0, <1>2, <1>5, TellOwes DEF about
<1>7. SapiTypeInv'
  BY <1>0, <1>1, <1>2, <1>6 DEF SapiTypeInv
<1>8. TimerInv'
  BY <1>1, <1>6, TimerKept
<1>9. OwedInv'
  <2>1. sending \in Nat
    BY <1>0 DEF SapiTypeInv
  <2> QED
    BY SMTT(30), <1>1, <1>3, <1>4, <1>6, <2>1, AnswersApart DEF SapiInv, OwedInv, One
<1>10. TableSaved'
  BY <1>1 DEF SapiInv, TableSaved
<1> QED
  BY <1>7, <1>8, <1>9, <1>10 DEF SapiInv

LEMMA MessageStep == ASSUME SapiInv, Message PROVE SapiInv'
<1>1. CASE Head(queue).kind = "Match_Desc_rsp" /\ Matched(Head(queue)) /\ lost' = lost
  BY <1>1, MatchedStep
<1>2. CASE /\ Head(queue).kind = "NWK_addr_rsp" /\ lost' = lost
           /\ UNCHANGED <<timers, request, owed, extra, stale>>
  <2>1. /\ queue # <<>> /\ queue' = Tail(queue)
        /\ UNCHANGED <<sapiEvents, saved, air, sending>>
        /\ UNCHANGED <<sapi_bindInProgress, bindings, nvTimer>>
    BY <1>2 DEF Message, request
  <2>2. queue' \in Seq(SapiMessages) /\ \A a \in Abouts : Ready(a)' = Ready(a)
    BY <1>2, <2>1, FoundTaken DEF Answers
  <2>3. SapiTypeInv'
    BY <1>2, <2>1, <2>2 DEF SapiInv, SapiTypeInv
  <2>4. TimerInv'
    BY <1>2, <2>1, TimerKept
  <2>5. OwedInv'
    BY <1>2, <2>1, <2>2, EvenNone
  <2>6. TableSaved'
    BY <2>1 DEF SapiInv, TableSaved
  <2> QED
    BY <2>3, <2>4, <2>5, <2>6 DEF SapiInv
<1>3. CASE /\ Head(queue).kind \in Answers /\ Tell(Head(queue).about)
           /\ UNCHANGED <<timers, request, lost, stale>>
  BY <1>3, CnfStep
<1> QED
  BY <1>1, <1>2, <1>3 DEF Message, SAPI_ProcessZDOMsgs, Answers

-----------------------------------------------------------------------------
(* The theorem                                                             *)

LEMMA SapiInvInit == SapiInit => SapiInv
<1> SUFFICES ASSUME SapiInit PROVE SapiInv
  OBVIOUS
<1>0. owed = [c \in Abouts |-> 0] /\ lost = owed /\ queue = <<>> /\ sending = 0
  BY DEF SapiInit, Abouts
<1>1. SapiTypeInv
  <2>1. <<>> \in Seq(SapiMessages)
    BY EmptySeq
  <2>2. lost = [c \in Abouts |-> 0] /\ air = {}
    BY <1>0 DEF SapiInit
  <2>3. /\ sapi_bindInProgress = NoBind /\ extra = FALSE /\ stale = FALSE /\ nvTimer = FALSE
    BY DEF SapiInit
  <2>4. owed \in [Abouts -> Nat] /\ lost \in [Abouts -> Nat]
    BY <1>0, <2>2
  <2>5. air \subseteq (Commands \cup {"address"}) \X Partners
    BY <2>2
  <2> QED
    BY <1>0, <2>1, <2>3, <2>4, <2>5 DEF SapiTypeInv
<1>2. \A a \in Abouts : Ready(a) = 0
  <2> SUFFICES ASSUME NEW a \in Abouts PROVE Ready(a) = 0
    OBVIOUS
  <2>1. {i \in DOMAIN queue : IsAnswer(queue, i, a)} = {}
    BY <1>0
  <2>2. Waiting(queue, a) = 0
    BY <2>1, FS_EmptySet DEF Waiting
  <2> QED
    BY <1>0, <2>2 DEF Ready
<1>3. OwedInv
  BY <1>0, <1>2, AnswersApart DEF OwedInv, One, SapiInit
<1>4. TimerInv /\ TableSaved
  BY DEF SapiInit, TimerInv, TableSaved
<1> QED
  BY <1>1, <1>3, <1>4 DEF SapiInv

LEMMA SapiInvKept == SapiInv /\ [SapiNext]_sapiVars => SapiInv'
<1> SUFFICES ASSUME SapiInv, [SapiNext]_sapiVars PROVE SapiInv'
  OBVIOUS
<1>1. CASE App
  <2>1. CASE \E c \in Commands : BindAny(c)
    BY <2>1, BindAnyStep
  <2>2. CASE \E c \in Commands : Unbind(c)
    BY <2>2, UnbindStep
  <2>3. CASE \E c \in Commands, d \in Partners : BindKnown(c, d)
    BY <2>3, BindKnownStep
  <2>4. CASE \E e \in {"no", "seconds", "ever"} : zb_AllowBind(e)
    BY <2>4, AllowBindStep
  <2>5. CASE zb_SendDataRequest
    BY <2>5, SendDataStep
  <2>6. CASE StartCall
    BY <2>6, StartCallStep
  <2>7. CASE zb_FindDeviceRequest
    BY <2>7, FindDeviceStep
  <2> QED
    BY <1>1, <2>1, <2>2, <2>3, <2>4, <2>5, <2>6, <2>7 DEF App
<1>2. CASE OtherTasks
  BY <1>2, AnswerStep, LostAnswerStep, DataConfirmStep, ExpireStep, UpdateNvStep DEF OtherTasks
<1>3. CASE SAPI_ProcessEvent
  BY <1>3, ReceiveStep, MessageStep, BindTimesOutStep, EntryStep DEF SAPI_ProcessEvent
<1>4. CASE UNCHANGED sapiVars
  <2>1. /\ UNCHANGED <<queue, owed, lost, sapi_bindInProgress, bindings, saved, nvTimer>>
        /\ UNCHANGED <<sending, air, extra, stale, timers, sapiEvents>>
    BY <1>4 DEF sapiVars, request, sapiHistory
  <2>2. SapiTypeInv' /\ OwedInv'
    BY <2>1, Undisturbed DEF SapiInv, SapiTypeInv
  <2>3. TimerInv'
    BY <2>1, TimerKept
  <2>4. TableSaved'
    BY <2>1 DEF SapiInv, TableSaved
  <2> QED
    BY <2>2, <2>3, <2>4 DEF SapiInv
<1> QED
  BY <1>1, <1>2, <1>3, <1>4 DEF SapiNext

LEMMA SapiInvSound == SapiInv => SapiSound
<1> SUFFICES ASSUME SapiInv PROVE SapiSound
  OBVIOUS
<1>1. \A a : Queued(a) = Waiting(queue, a)
  BY DEF Queued, Waiting, IsAnswer, Answers
<1>2. AnsweredOnce
  BY <1>1 DEF SapiInv, TimerInv, OwedInv, AnsweredOnce, Ready, One
<1> QED
  BY <1>2 DEF SapiSound, SapiInv

\* For every set of commands, every table and every bound: each request to
\* bind, each message sent and each refused start is answered exactly once,
\* unless there was no memory for the answer or the event of a timer outlived
\* the request it timed, and a binding table that differs from the saved one
\* has its timer running (zb_BindDevice to SAPI_ProcessEvent).
THEOREM SapiIsSound == SapiSpec => []SapiSound
<1>1. SapiSpec => []SapiInv
  BY SapiInvInit, SapiInvKept, PTL DEF SapiSpec
<1> QED
  BY <1>1, SapiInvSound, PTL

-----------------------------------------------------------------------------
(* Link keys: the inductive invariant                                      *)

\* A slot whose key an entry uses, or whose counter waits to be inNv.
InUse(k) == k = 0 \/ \E e \in Indices : keyNvId[e] = k

\* A restart will skip what was used.
Covered(k) ==
    used[k] <= nvKeys[k].tx + MaxChanges + 1 \/ late[k] > 1 \/ k \in lapsed

\* The counter in RAM has passed what was used, and between the inNv one and it there
\* is a multiple of MaxChanges only if the save is pending.
Ahead(k) ==
    LET inNv == nvKeys[k].tx
        next == ram[k].tx IN
    /\ used[k] <= next \/ k \in lapsed
    /\ inNv <= next
    /\ ram[k].pending => next <= inNv + MaxChanges + late[k]
    /\ ~ram[k].pending => \A j \in inNv + 1 .. next : j % MaxChanges # 0

SlotOK(k) ==
    k = 0 \/ nvKeys[k].owner # Nobody => Covered(k) /\ (InUse(k) \/ ram[k].pending => Ahead(k))

Counted == ~leftover => \A k \in KeySlots : SlotOK(k)

LateIsPending == \A k \in KeySlots : late[k] > 0 => ram[k].pending

FreeHasNone == ~leftover => \A i \in Indices : t.ami[i] = Nobody => keyNvId[i] = 0

\* The table in NV has no device twice.
NvApart == \A x, y \in DOMAIN nvTable : nvTable[x].ami = nvTable[y].ami => x = y

OwnSlots == ~shifted => \A i \in Indices : keyNvId[i] \in {0, i}

\* A partner's entry is in the table and in NV, and the slot it has is its own.
Kept(d) ==
    \E e \in Indices :
        /\ t.ami[e] = d /\ keyNvId[e] = e /\ option[e] /\ nvKeys[e].owner = d
        /\ \E x \in DOMAIN nvTable : nvTable[x] = [ami |-> d, keyNvId |-> e, option |-> TRUE]

MineKept == ~leftover /\ ~shifted => \A d \in mine : Kept(d)

\* No control records, and no device twice.
TableOK(s) == s \in Table /\ s.ctrl = CtrlInit /\ EntriesSound(s)

KeysInv ==
    /\ KeysTypeOK /\ TableOK(t) /\ NvApart
    /\ LateIsPending /\ Counted /\ FreeHasNone /\ OwnSlots /\ MineKept

-----------------------------------------------------------------------------
(* Link keys: the table                                                    *)

\* First finds a member, 0 if there is none.
LEMMA FirstFound ==
    ASSUME NEW S \in SUBSET Indices
    PROVE  First(S) \in S \cup {0} /\ (First(S) = 0 <=> S = {})
<1>1. 0 \notin S /\ Size \in Nat /\ S \in SUBSET (0 .. Size)
  BY SizeAssumption DEF Indices
<1>2. CASE S = {}
  BY <1>2 DEF First
<1>3. CASE S # {}
  <2>1. \E x \in S : \A y \in S : x <= y
    BY <1>1, <1>3, LeastOfSome
  <2>2. First(S) \in S
    BY <1>3, <2>1 DEF First
  <2>3. QED
    BY <1>1, <1>3, <2>2
<1>4. QED
  BY <1>2, <1>3

LEMMA FoundByDevice ==
    ASSUME NEW s, NEW d
    PROVE  /\ EntryLookupAMI(s, d) \in Indices \cup {0}
           /\ EntryLookupAMI(s, d) = 0 <=> \A i \in Indices : s.ami[i] # d
           /\ EntryLookupAMI(s, d) # 0 => s.ami[EntryLookupAMI(s, d)] = d
<1> DEFINE S == {i \in Indices : s.ami[i] = d}
<1>1. S \in SUBSET Indices /\ EntryLookupAMI(s, d) = First(S)
  BY DEF EntryLookupAMI
<1>2. First(S) \in S \cup {0} /\ (First(S) = 0 <=> S = {})
  BY <1>1, FirstFound
<1> QED
  BY <1>1, <1>2

\* A device d gets the entry e, its own or a free one.
Entered(s, d, e) ==
    e \in Indices /\ s.ami[e] \in {Nobody, d} /\ \A x \in Indices : s.ami[x] = d => x = e

LEMMA EntryFound ==
    ASSUME NEW s, EntriesSound(s), NEW d \in Devices, EntryFor(s, d) # 0
    PROVE  Entered(s, d, EntryFor(s, d))
<1>0. d # Nobody
  BY NobodyAssumption
<1>1. CASE EntryLookupAMI(s, d) # 0
  BY <1>0, <1>1, FoundByDevice DEF EntryFor, Entered, EntriesSound
<1>2. CASE EntryLookupAMI(s, d) = 0
  <2> DEFINE S == {i \in Indices : s.ami[i] = Nobody}
  <2>1. S \in SUBSET Indices /\ EntryFor(s, d) = First(S)
    BY <1>2 DEF EntryFor, EntryNew
  <2>2. First(S) \in S
    BY <2>1, FirstFound
  <2> QED
    BY <1>2, <2>1, <2>2, FoundByDevice DEF Entered
<1> QED
  BY <1>1, <1>2

LEMMA Shape ==
    ASSUME NEW s \in Table
    PROVE  /\ s = [addr |-> s.addr, ami |-> s.ami, ctrl |-> s.ctrl]
           /\ s.addr \in [Devices -> Addrs \cup {Nowhere}]
           /\ s.ami \in [Indices -> Devices \cup {Nobody}]
BY DEF Table

LEMMA TableEntered ==
    ASSUME NEW s, TableOK(s), NEW d \in Devices, NEW e, Entered(s, d, e)
    PROVE  LET q == [s EXCEPT !.ami[e] = d] IN
           /\ TableOK(q) /\ q.addr = s.addr /\ q.ami = [s.ami EXCEPT ![e] = d]
<1> DEFINE q == [s EXCEPT !.ami[e] = d]
           f == [s.ami EXCEPT ![e] = d]
<1>1. s \in Table /\ s.ami \in [Indices -> Devices \cup {Nobody}] /\ s.ctrl = CtrlInit
  BY Shape DEF TableOK
<1>2. f \in [Indices -> Devices \cup {Nobody}]
  BY <1>1
<1>3. q = [s EXCEPT !.ami = f]
  OBVIOUS
<1>4. \A i \in Indices : f[i] = IF i = e THEN d ELSE s.ami[i]
  BY <1>1
<1> HIDE DEF f
<1>5. q \in Table /\ q.ami = f /\ q.addr = s.addr /\ q.ctrl = CtrlInit
  BY <1>1, <1>2, <1>3 DEF Table
<1>6. EntriesSound(q)
  BY <1>4, <1>5 DEF EntriesSound, TableOK, Entered
<1> QED
  BY <1>5, <1>6 DEF TableOK, f

LEMMA TableFreed ==
    ASSUME NEW s, TableOK(s), NEW e \in Indices
    PROVE  LET q == DeviceEntryRemove(s, e) IN
           /\ TableOK(q) /\ q.addr = s.addr /\ q.ami = [s.ami EXCEPT ![e] = Nobody]
<1> DEFINE q == [s EXCEPT !.ami[e] = Nobody]
           f == [s.ami EXCEPT ![e] = Nobody]
<1>1. s \in Table /\ s.ami \in [Indices -> Devices \cup {Nobody}] /\ s.ctrl = CtrlInit
  BY Shape DEF TableOK
<1>2. f \in [Indices -> Devices \cup {Nobody}]
  BY <1>1
<1>3. q = [s EXCEPT !.ami = f]
  OBVIOUS
<1>4. \A i \in Indices : f[i] = IF i = e THEN Nobody ELSE s.ami[i]
  BY <1>1
<1> HIDE DEF f
<1>5. q \in Table /\ q.ami = f /\ q.addr = s.addr /\ q.ctrl = CtrlInit
  BY <1>1, <1>2, <1>3 DEF Table
<1>6. EntriesSound(q)
  BY <1>4, <1>5 DEF EntriesSound, TableOK
<1>7. DeviceEntryRemove(s, e) = q
  <2>1. \A i \in Indices : s.ctrl[i].state = "NONE"
    BY <1>1 DEF CtrlInit
  <2>2. {i \in Active(s) : s.ctrl[i].entry = e} = {}
    BY <2>1 DEF Active
  <2>3. CtrlLookup(s, e) = 0
    BY <2>2 DEF CtrlLookup, First
  <2> QED
    BY <2>3 DEF DeviceEntryRemove, CtrlTerm, EntryFree
<1> QED
  BY <1>5, <1>6, <1>7 DEF TableOK, f

LEMMA AddrStored ==
    ASSUME NEW s, TableOK(s), NEW a \in Addrs, NEW d \in Devices
    PROVE  LET q == AddrStore(s, a, d) IN TableOK(q) /\ q.ami = s.ami
<1> DEFINE f == [x \in Devices |-> IF x = d THEN a ELSE IF s.addr[x] = a THEN Nowhere ELSE s.addr[x]]
           q == [s EXCEPT !.addr = f]
<1>1. AddrStore(s, a, d) = q
  BY DEF AddrStore
<1>2. f \in [Devices -> Addrs \cup {Nowhere}] /\ s \in Table
  BY Shape DEF TableOK
<1> HIDE DEF f
<1>3. q \in Table /\ q.ami = s.ami /\ q.ctrl = s.ctrl
  BY <1>2 DEF Table
<1> QED
  BY <1>1, <1>3 DEF TableOK, EntriesSound

\* What DeviceEntryAdd comes to without control records: the entry with the address, if
\* it is another device's, is freed, and the device has one unless the table is full.
LEMMA DeviceEntered ==
    ASSUME NEW s, TableOK(s), NEW dev, dev.ami \in Devices, dev.addr \in Addrs
    PROVE  LET q == DeviceEntryAdd(s, dev, FALSE).table IN
           /\ TableOK(q)
           /\ \A i \in Indices : q.ami[i] \in {s.ami[i], Nobody, dev.ami}
           /\ \A i \in Indices : s.ami[i] = dev.ami => q.ami[i] = dev.ami
<1> DEFINE byAddr == EntryLookup(s, dev.addr)
           clash == byAddr /= 0 /\ s.ami[byAddr] /= dev.ami
           t1 == IF clash THEN DeviceEntryRemove(s, byAddr) ELSE s
           e == EntryFor(t1, dev.ami)
           t2 == [t1 EXCEPT !.ami[e] = dev.ami]
           t3 == AddrMgrUpdate(t2, dev.ami, dev.addr)
<1>1. DeviceEntryAdd(s, dev, FALSE).table = IF e = 0 THEN t1 ELSE t3
  BY DEF DeviceEntryAdd, Added, EntryFor
<1>2. byAddr \in Indices \cup {0}
  <2> DEFINE S == {i \in Indices : s.ami[i] /= Nobody /\ s.addr[s.ami[i]] = dev.addr}
  <2>1. S \in SUBSET Indices /\ byAddr = First(S)
    BY DEF EntryLookup
  <2> QED
    BY <2>1, FirstFound
<1>3. /\ TableOK(t1) /\ \A i \in Indices : t1.ami[i] \in {s.ami[i], Nobody}
      /\ \A i \in Indices : s.ami[i] = dev.ami => t1.ami[i] = dev.ami
  <2>1. CASE clash
    <3>1. byAddr \in Indices /\ s.ami[byAddr] # dev.ami
      BY <1>2, <2>1
    <3>2. TableOK(t1) /\ t1.ami = [s.ami EXCEPT ![byAddr] = Nobody]
      BY <2>1, <3>1, TableFreed
    <3>3. s.ami \in [Indices -> Devices \cup {Nobody}]
      BY Shape DEF TableOK
    <3> QED
      BY <3>1, <3>2, <3>3
  <2>2. CASE ~clash
    BY <2>2
  <2> QED
    BY <2>1, <2>2
<1> HIDE DEF t1
<1>4. CASE e = 0
  BY <1>1, <1>3, <1>4
<1>5. CASE e # 0
  <2>1. Entered(t1, dev.ami, e)
    BY <1>3, <1>5, EntryFound DEF TableOK
  <2> HIDE DEF e
  <2>2. TableOK(t2) /\ t2.ami = [t1.ami EXCEPT ![e] = dev.ami]
    <3>1. TableOK(t1) /\ dev.ami \in Devices
      BY <1>3
    <3> HIDE DEF byAddr, clash
    <3>2. LET q == [t1 EXCEPT !.ami[e] = dev.ami] IN
          TableOK(q) /\ q.addr = t1.addr /\ q.ami = [t1.ami EXCEPT ![e] = dev.ami]
      BY ONLY <2>1, <3>1, TableEntered
    <3> QED
      BY <3>2
  <2>3. t1.ami \in [Indices -> Devices \cup {Nobody}]
    BY <1>3, Shape DEF TableOK
  <2> HIDE DEF t2
  <2>4. TableOK(t3) /\ t3.ami = t2.ami
    BY <2>2, AddrStored DEF AddrMgrUpdate
  <2>5. \A i \in Indices : t3.ami[i] = IF i = e THEN dev.ami ELSE t1.ami[i]
    BY <2>2, <2>3, <2>4, <2>1 DEF Entered
  <2> HIDE DEF t3
  <2> QED
    BY <1>1, <1>3, <1>5, <2>4, <2>5
<1> QED
  BY <1>4, <1>5

-----------------------------------------------------------------------------
(* Link keys: the table in NV                                              *)

RankIn(taken) == [i \in taken |-> Cardinality({j \in taken : j <= i})]

\* The ranks of a set's members are the numbers from 1 to its cardinality.
LEMMA Ranks ==
    ASSUME NEW taken \in SUBSET Indices
    PROVE  LET rank == RankIn(taken) IN
           /\ Cardinality(taken) \in 0 .. Size
           /\ \A i \in taken : rank[i] \in 1 .. Cardinality(taken)
           /\ \A i, j \in taken : rank[i] = rank[j] => i = j
           /\ \A n \in 1 .. Cardinality(taken) : \E i \in taken : rank[i] = n
<1> DEFINE rank == RankIn(taken)
           upTo(i) == {j \in taken : j <= i}
<1>1. Size \in Nat /\ \A i \in taken : i \in Nat /\ i >= 1
  BY SizeAssumption DEF Indices
<1>2. IsFiniteSet(Indices) /\ Cardinality(Indices) = Size
  <2>1. IsFiniteSet(1 .. Size) /\ Cardinality(1 .. Size) = IF 1 > Size THEN 0 ELSE Size - 1 + 1
    BY <1>1, FS_Interval
  <2> QED
    BY <1>1, <2>1, SizeAssumption DEF Indices
<1>3. IsFiniteSet(taken) /\ Cardinality(taken) <= Size
  BY <1>2, FS_Subset
<1>4. Cardinality(taken) \in Nat
  BY <1>3, FS_CardinalityType
<1>5. ASSUME NEW i \in taken
      PROVE  IsFiniteSet(upTo(i)) /\ rank[i] = Cardinality(upTo(i)) /\ rank[i] \in 1 .. Cardinality(taken)
  <2>1. upTo(i) \in SUBSET taken /\ i \in upTo(i)
    BY <1>1
  <2>2. IsFiniteSet(upTo(i)) /\ Cardinality(upTo(i)) <= Cardinality(taken)
    BY <1>3, <2>1, FS_Subset
  <2>3. Cardinality(upTo(i)) \in Nat
    BY <2>2, FS_CardinalityType
  <2>4. Cardinality(upTo(i)) # 0
    BY <2>1, <2>2, FS_EmptySet
  <2>5. rank[i] = Cardinality(upTo(i))
    BY DEF RankIn
  <2> QED
    BY <1>4, <2>2, <2>3, <2>4, <2>5
<1> HIDE DEF rank
<1>6. ASSUME NEW i \in taken, NEW j \in taken, i < j
      PROVE  rank[i] # rank[j]
  <2>1. upTo(i) \in SUBSET upTo(j) /\ j \in upTo(j) /\ j \notin upTo(i)
    BY <1>1, <1>6
  <2>2. IsFiniteSet(upTo(j)) /\ rank[i] = Cardinality(upTo(i)) /\ rank[j] = Cardinality(upTo(j))
    BY <1>5
  <2> HIDE DEF upTo
  <2>3. Cardinality(upTo(j)) = Cardinality(upTo(i)) => upTo(j) = upTo(i)
    BY <2>1, <2>2, FS_Subset
  <2> QED
    BY <2>1, <2>2, <2>3
<1>7. \A i, j \in taken : rank[i] = rank[j] => i = j
  BY <1>1, <1>6
<1>8. rank \in Surjection(taken, 1 .. Cardinality(taken))
  <2> DEFINE N == 1 .. Cardinality(taken)
  <2>1. rank \in [taken -> N]
    BY <1>5 DEF rank, RankIn
  <2>2. rank \in Injection(taken, N)
    BY <1>7, <2>1 DEF Injection, IsInjective
  <2>3. IsFiniteSet(N) /\ Cardinality(N) = Cardinality(taken)
    <3>1. IsFiniteSet(N)
          /\ Cardinality(N) = IF 1 > Cardinality(taken) THEN 0 ELSE Cardinality(taken) - 1 + 1
      BY <1>4, FS_Interval
    <3> HIDE DEF N
    <3> QED
      BY <1>4, <3>1
  <2> HIDE DEF N
  <2>4. Cardinality(taken) = Cardinality(N) <=> rank \in Surjection(taken, N)
    BY <2>2, <2>3, FS_Injection
  <2> QED
    BY <2>3, <2>4 DEF N
<1>9. \A n \in 1 .. Cardinality(taken) : \E i \in taken : rank[i] = n
  BY <1>8 DEF Surjection
<1>10. \A i \in taken : rank[i] \in 1 .. Cardinality(taken)
  BY <1>5
<1>11. Cardinality(taken) \in 0 .. Size
  BY <1>1, <1>3, <1>4
<1> QED
  BY <1>7, <1>9, <1>10, <1>11 DEF rank

Saved(s, ids, opts, i) == [ami |-> s.ami[i], keyNvId |-> ids[i], option |-> opts[i]]

\* The table in NV has the entries in use, each once.
LEMMA WriteNVIs ==
    ASSUME NEW s, TableOK(s), NEW ids \in [Indices -> KeySlots], NEW opts \in [Indices -> BOOLEAN]
    PROVE  LET W == WriteNV(s, ids, opts) IN
           /\ W \in Seq([ami : Devices, keyNvId : KeySlots, option : BOOLEAN])
           /\ Len(W) <= Size
           /\ \A x, y \in DOMAIN W : W[x].ami = W[y].ami => x = y
           /\ \A x \in DOMAIN W : \E i \in Indices : s.ami[i] # Nobody /\ W[x] = Saved(s, ids, opts, i)
           /\ \A i \in Indices : s.ami[i] # Nobody =>
                  \E x \in DOMAIN W : W[x] = Saved(s, ids, opts, i)
<1> DEFINE taken == {i \in Indices : s.ami[i] # Nobody}
           N == Cardinality(taken)
           rank == RankIn(taken)
           at == [n \in 1 .. N |-> CHOOSE i \in taken : Cardinality({j \in taken : j <= i}) = n]
           Rec == [ami : Devices, keyNvId : KeySlots, option : BOOLEAN]
           W == [n \in 1 .. N |-> Saved(s, ids, opts, at[n])]
<1>1. WriteNV(s, ids, opts) = W
  BY DEF WriteNV, Saved
<1>2. /\ N \in 0 .. Size
      /\ \A i \in taken : rank[i] \in 1 .. N
      /\ \A i, j \in taken : rank[i] = rank[j] => i = j
      /\ \A n \in 1 .. N : \E i \in taken : rank[i] = n
  <2>1. taken \in SUBSET Indices
    OBVIOUS
  <2> HIDE DEF taken, at
  <2> QED
    BY <2>1, Ranks
<1>3. \A n \in 1 .. N : at[n] \in taken /\ rank[at[n]] = n
  <2> SUFFICES ASSUME NEW n \in 1 .. N PROVE at[n] \in taken /\ rank[at[n]] = n
    OBVIOUS
  <2>1. PICK i \in taken : rank[i] = n
    BY <1>2
  <2> HIDE DEF taken
  <2>2. Cardinality({j \in taken : j <= i}) = n
    BY <2>1 DEF RankIn
  <2>3. at[n] = CHOOSE x \in taken : Cardinality({j \in taken : j <= x}) = n
    OBVIOUS
  <2>4. at[n] \in taken /\ Cardinality({j \in taken : j <= at[n]}) = n
    BY <2>1, <2>2, <2>3
  <2> QED
    BY <2>4 DEF RankIn
<1>4. \A i \in taken : at[rank[i]] = i
  <2> HIDE DEF at, rank, taken, N
  <2> QED
    BY <1>2, <1>3
<1>5. s.ami \in [Indices -> Devices \cup {Nobody}]
  BY Shape DEF TableOK
<1>6. \A i \in taken : Saved(s, ids, opts, i) \in Rec
  BY <1>5 DEF Saved
<1>7. \A i, j \in taken : s.ami[i] = s.ami[j] => i = j
  BY DEF TableOK, EntriesSound
<1> HIDE DEF at, rank, N
<1>8. N \in Nat /\ N <= Size
  BY <1>2, SizeAssumption
<1>9. W \in [1 .. N -> Rec]
  BY <1>3, <1>6
<1>10. W \in Seq(Rec) /\ Len(W) = N /\ DOMAIN W = 1 .. N
  BY <1>8, <1>9
<1>11. \A n \in 1 .. N : W[n] = Saved(s, ids, opts, at[n])
  OBVIOUS
<1> HIDE DEF W
<1>12. ASSUME NEW x \in DOMAIN W, NEW y \in DOMAIN W, W[x].ami = W[y].ami
       PROVE  x = y
  <2>1. W[x].ami = s.ami[at[x]] /\ W[y].ami = s.ami[at[y]]
    BY <1>10, <1>11 DEF Saved
  <2>2. at[x] = at[y]
    BY <1>3, <1>7, <1>10, <1>12, <2>1
  <2> QED
    BY <1>3, <1>10, <2>2
<1>13. \A x \in DOMAIN W : \E i \in Indices : s.ami[i] # Nobody /\ W[x] = Saved(s, ids, opts, i)
  BY <1>3, <1>10, <1>11
<1>14. \A i \in Indices : s.ami[i] # Nobody => \E x \in DOMAIN W : W[x] = Saved(s, ids, opts, i)
  BY <1>2, <1>4, <1>10, <1>11
<1> QED
  BY <1>1, <1>8, <1>10, <1>12, <1>13, <1>14

-----------------------------------------------------------------------------
(* Link keys: frame counters                                               *)

\* Of so many numbers in a row one is a multiple.
LEMMA MultipleNear ==
    ASSUME NEW s \in Nat, NEW m \in Nat \ {0}
    PROVE  \E j \in s + 1 .. s + m : j % m = 0
<1> DEFINE q == s \div m
           r == s % m
           j == (q + 1) * m
<1>1. q \in Nat /\ r \in 0 .. m - 1 /\ s = m * q + r
  OBVIOUS
<1>2. j % m = 0
  BY <1>1
<1>3. j = m * q + m
  BY <1>1
<1>4. j \in s + 1 .. s + m
  BY <1>1, <1>3
<1> QED
  BY <1>2, <1>4

-----------------------------------------------------------------------------
(* Link keys: what the parts of the invariant rest on                      *)

NvKey   == [owner : Devices \cup {Nobody}, tx : Nat, rx : Nat]
Counter == [tx : Nat, rx : Nat, pending : BOOLEAN]
NvEntry == [ami : Devices, keyNvId : KeySlots, option : BOOLEAN]

\* A slot that no step touches stays as good as it was.
LEMMA SlotSame ==
    ASSUME NEW k \in KeySlots, SlotOK(k),
           nvKeys'[k].owner = nvKeys[k].owner, nvKeys'[k].tx = nvKeys[k].tx,
           ram'[k].tx = ram[k].tx, ram'[k].pending = ram[k].pending,
           used'[k] = used[k], late'[k] = late[k], k \in lapsed => k \in lapsed',
           InUse(k)' => InUse(k)
    PROVE  SlotOK(k)'
<1>1. CASE ~ (k = 0 \/ nvKeys[k].owner # Nobody)
  BY <1>1 DEF SlotOK
<1>2. CASE k = 0 \/ nvKeys[k].owner # Nobody
  <2>1. Covered(k) /\ (InUse(k) \/ ram[k].pending => Ahead(k))
    BY <1>2 DEF SlotOK
  <2>2. Covered(k)'
    BY <2>1 DEF Covered
  <2>3. ASSUME InUse(k)' \/ ram'[k].pending PROVE Ahead(k)'
    <3>1. Ahead(k)
      BY <2>1, <2>3
    <3> QED
      BY <3>1 DEF Ahead
  <2> QED
    BY <2>2, <2>3 DEF SlotOK
<1> QED
  BY <1>1, <1>2

\* A slot that is emptied has nothing to answer for.
LEMMA SlotEmptied ==
    ASSUME NEW k \in KeySlots \ {0}, nvKeys'[k] = NoKey
    PROVE  SlotOK(k)'
BY DEF SlotOK, NoKey

\* A new key begins with counter 0.
LEMMA SlotSet ==
    ASSUME KeysInv, NEW e \in Indices, NEW d \in Devices, LinkKeySet(e, d, TRUE)
    PROVE  /\ \A k \in KeySlots : SlotOK(k) => SlotOK(k)'
           /\ nvKeys' \in [KeySlots -> NvKey] /\ ram' \in [KeySlots -> Counter]
           /\ used' \in [KeySlots -> Nat] /\ late' \in [KeySlots -> Nat] /\ lapsed' \subseteq KeySlots
           /\ keyNvId' \in [Indices -> KeySlots]
           /\ LateIsPending'
           /\ nvKeys'[e].owner = d /\ \A k \in KeySlots \ {e} : nvKeys'[k] = nvKeys[k]
<1> DEFINE new == [owner |-> d, tx |-> 0, rx |-> 0]
           cnt == [ram[e] EXCEPT !.tx = 0, !.rx = 0]
<1>1. /\ keyNvId' = [keyNvId EXCEPT ![e] = e] /\ nvKeys' = [nvKeys EXCEPT ![e] = new]
      /\ ram' = [ram EXCEPT ![e] = cnt]
      /\ used' = [used EXCEPT ![e] = 0] /\ late' = [late EXCEPT ![e] = 0] /\ lapsed' = lapsed \ {e}
  BY DEF LinkKeySet, NoKey
<1>2. /\ nvKeys \in [KeySlots -> NvKey] /\ ram \in [KeySlots -> Counter]
      /\ used \in [KeySlots -> Nat] /\ late \in [KeySlots -> Nat] /\ lapsed \subseteq KeySlots
      /\ keyNvId \in [Indices -> KeySlots]
  BY DEF KeysInv, KeysTypeOK, NvKey, Counter
<1>3. e \in KeySlots /\ e # 0 /\ Size \in Nat
  BY SizeAssumption DEF KeySlots, Indices
<1>4. new \in NvKey /\ new.owner = d /\ new.tx = 0
  BY DEF NvKey
<1>5. cnt \in Counter /\ cnt.tx = 0 /\ cnt.pending = ram[e].pending
  BY <1>2, <1>3 DEF Counter
<1> HIDE DEF new, cnt
<1>6. /\ nvKeys' \in [KeySlots -> NvKey] /\ ram' \in [KeySlots -> Counter]
      /\ used' \in [KeySlots -> Nat] /\ late' \in [KeySlots -> Nat] /\ lapsed' \subseteq KeySlots
      /\ keyNvId' \in [Indices -> KeySlots]
  BY <1>1, <1>2, <1>3, <1>4, <1>5
<1>7. /\ nvKeys'[e] = new /\ ram'[e] = cnt /\ used'[e] = 0 /\ late'[e] = 0
      /\ \A k \in KeySlots \ {e} : /\ nvKeys'[k] = nvKeys[k] /\ ram'[k] = ram[k]
                                   /\ used'[k] = used[k] /\ late'[k] = late[k]
                                   /\ k \in lapsed => k \in lapsed'
      /\ \A i \in Indices : keyNvId'[i] = keyNvId[i] \/ keyNvId'[i] = e
  BY <1>1, <1>2, <1>3
<1>8. LateIsPending'
  BY <1>3, <1>7 DEF LateIsPending, KeysInv
<1>9. ASSUME NEW k \in KeySlots, SlotOK(k) PROVE SlotOK(k)'
  <2>1. CASE k = e
    <3>1. MaxChanges \in Nat
      BY KeysAssumption
    <3>2. Covered(e)'
      BY <1>4, <1>7, <3>1 DEF Covered
    <3>3. Ahead(e)'
      BY <1>4, <1>5, <1>7, <3>1 DEF Ahead
    <3> QED
      BY <2>1, <3>2, <3>3 DEF SlotOK
  <2>2. CASE k # e
    <3>1. InUse(k)' => InUse(k)
      BY <1>7, <2>2 DEF InUse
    <3> QED
      BY <1>7, <1>9, <2>2, <3>1, SlotSame
  <2> QED
    BY <2>1, <2>2
<1> QED
  BY <1>4, <1>6, <1>7, <1>8, <1>9

\* Keys that are freed leave the other slots as they are.
LEMMA KeysFreed ==
    ASSUME KeysInv, NEW E \in SUBSET Indices, FreeKeys(E, TRUE),
           UNCHANGED <<ram, used, late, lapsed>>
    PROVE  /\ \A k \in KeySlots : SlotOK(k) => SlotOK(k)'
           /\ keyNvId' \in [Indices -> KeySlots] /\ nvKeys' \in [KeySlots -> NvKey]
           /\ \A i \in Indices : keyNvId'[i] = IF i \in E THEN 0 ELSE keyNvId[i]
           /\ OwnSlots /\ ~shifted => \A i \in Indices \ E : nvKeys'[i] = nvKeys[i]
<1>1. /\ keyNvId' = [i \in Indices |-> IF i \in E THEN 0 ELSE keyNvId[i]]
      /\ nvKeys' = [k \in KeySlots |-> IF k /= 0 /\ \E i \in E : keyNvId[i] = k THEN NoKey ELSE nvKeys[k]]
  BY DEF FreeKeys
<1>2. nvKeys \in [KeySlots -> NvKey] /\ keyNvId \in [Indices -> KeySlots]
  BY DEF KeysInv, KeysTypeOK, NvKey
<1>3. 0 \in KeySlots /\ 0 \notin Indices /\ Indices \subseteq KeySlots /\ NoKey \in NvKey
  BY SizeAssumption DEF KeySlots, Indices, NoKey, NvKey
<1>4. keyNvId' \in [Indices -> KeySlots] /\ nvKeys' \in [KeySlots -> NvKey]
  BY <1>1, <1>2, <1>3
<1>5. \A i \in Indices : keyNvId'[i] = IF i \in E THEN 0 ELSE keyNvId[i]
  BY <1>1
<1>6. ASSUME NEW k \in KeySlots, SlotOK(k) PROVE SlotOK(k)'
  <2>1. CASE k # 0 /\ nvKeys'[k] = NoKey
    BY <2>1, SlotEmptied
  <2>2. CASE nvKeys'[k] = nvKeys[k]
    <3>1. InUse(k)' => InUse(k)
      BY <1>5 DEF InUse
    <3> QED
      BY <1>6, <2>2, <3>1, SlotSame
  <2> QED
    BY <1>1, <2>1, <2>2
<1>7. ASSUME OwnSlots, ~shifted, NEW i \in Indices \ E PROVE nvKeys'[i] = nvKeys[i]
  BY <1>1, <1>3, <1>7 DEF OwnSlots
<1> QED
  BY <1>4, <1>5, <1>6, <1>7

\* What a device's entry is does not hang on where the table is.
LEMMA KeptSame ==
    ASSUME NEW x \in Devices, NEW e \in Indices,
           t.ami[e] = x, keyNvId[e] = e, option[e], nvKeys[e].owner = x,
           \E n \in DOMAIN nvTable : nvTable[n] = [ami |-> x, keyNvId |-> e, option |-> TRUE],
           t'.ami[e] = x, keyNvId'[e] = e, option'[e], nvKeys'[e].owner = x,
           nvTable' = nvTable
    PROVE  Kept(x)'
BY DEF Kept

-----------------------------------------------------------------------------
(* Link keys: the steps                                                    *)

\* The rest of the type, where a step leaves it alone.
LEMMA TypeFrom ==
    ASSUME TableOK(t'), keyNvId' \in [Indices -> KeySlots], option' \in [Indices -> BOOLEAN],
           masters' \subseteq Devices, mine' \subseteq Devices, known' \subseteq Devices,
           loaded' \in BOOLEAN, tcLoaded' \in BOOLEAN, leftover' \in BOOLEAN, shifted' \in BOOLEAN,
           nvTable' \in Seq(NvEntry), Len(nvTable') <= Size,
           nvKeys' \in [KeySlots -> NvKey], ram' \in [KeySlots -> Counter],
           events' \subseteq {"APS_FRAMECOUNTER", "TCLK_FRAMECOUNTER"},
           used' \in [KeySlots -> Nat], late' \in [KeySlots -> Nat], lapsed' \subseteq KeySlots,
           calls' \in Nat, framesLeft' \in Nat, trouble' \in Nat
    PROVE  KeysTypeOK'
BY DEF KeysTypeOK, TableOK, NvKey, Counter, NvEntry

\* The parts of the type, one by one.
LEMMA TypeParts ==
    ASSUME KeysInv
    PROVE  /\ keyNvId \in [Indices -> KeySlots] /\ option \in [Indices -> BOOLEAN]
           /\ masters \subseteq Devices /\ mine \subseteq Devices /\ known \subseteq Devices
           /\ loaded \in BOOLEAN /\ tcLoaded \in BOOLEAN /\ leftover \in BOOLEAN /\ shifted \in BOOLEAN
           /\ nvTable \in Seq(NvEntry) /\ Len(nvTable) <= Size
           /\ nvKeys \in [KeySlots -> NvKey] /\ ram \in [KeySlots -> Counter]
           /\ events \subseteq {"APS_FRAMECOUNTER", "TCLK_FRAMECOUNTER"}
           /\ used \in [KeySlots -> Nat] /\ late \in [KeySlots -> Nat] /\ lapsed \subseteq KeySlots
           /\ calls \in Nat /\ framesLeft \in Nat /\ trouble \in Nat
           /\ t.ami \in [Indices -> Devices \cup {Nobody}] /\ TableOK(t)
<1>1. KeysTypeOK /\ TableOK(t) /\ t \in Table
  BY DEF KeysInv, TableOK
<1>2. t.ami \in [Indices -> Devices \cup {Nobody}]
  BY <1>1, Shape
<1>3. nvTable \in Seq(NvEntry) /\ nvKeys \in [KeySlots -> NvKey] /\ ram \in [KeySlots -> Counter]
  BY <1>1 DEF KeysTypeOK, NvEntry, NvKey, Counter
<1>4. loaded \in BOOLEAN /\ tcLoaded \in BOOLEAN /\ leftover \in BOOLEAN /\ shifted \in BOOLEAN
  BY <1>1 DEF KeysTypeOK
<1>5. masters \subseteq Devices /\ mine \subseteq Devices /\ known \subseteq Devices
  BY <1>1 DEF KeysTypeOK
<1>6. QED
  BY <1>1, <1>2, <1>3, <1>4, <1>5 DEF KeysTypeOK

LEMMA HeapType ==
    ASSUME KeysInv, NEW heap \in BOOLEAN, Heap(heap)
    PROVE  trouble' \in Nat /\ leftover' \in BOOLEAN /\ (~leftover' => ~leftover /\ heap)
<1>1. trouble' = (IF heap THEN trouble ELSE trouble - 1) /\ trouble \in Nat /\ (heap \/ trouble > 0)
  BY TypeParts DEF Heap
<1>2. leftover' \in BOOLEAN
  BY DEF Heap
<1>3. leftover' = (leftover \/ ~heap) /\ leftover \in BOOLEAN
  BY TypeParts DEF Heap
<1>4. ~leftover' => ~leftover /\ heap
  BY <1>3, Zenon
<1> QED
  BY <1>1, <1>2, <1>4

\* The first sender's address becomes the trust centre's.
LEMMA TCDataLoaded ==
    ASSUME KeysInv, NEW d \in Devices
    PROVE  TableOK(TCDataLoad(d)) /\ TCDataLoad(d).ami = t.ami
BY AddrStored, KeysAssumption DEF TCDataLoad, KeysInv

LEMMA StepAddLinkKey ==
    ASSUME KeysInv, NEW d \in Devices, NEW a \in Addrs, NEW heap \in BOOLEAN,
           AddLinkKey(d, a, heap)
    PROVE  KeysInv'
<1> DEFINE t1 == AddrStore(t, a, d)
           e == EntryFor(t1, d)
           t2 == [t1 EXCEPT !.ami[e] = d]
<1>1. TableOK(t1) /\ t1.ami = t.ami
  BY AddrStored DEF KeysInv
<1>2. UNCHANGED <<masters, loaded, tcLoaded, events, shifted, framesLeft>> /\ known' = known \cup {d}
      /\ KeysCall /\ Heap(heap)
  BY DEF AddLinkKey, keys
<1>3. trouble' \in Nat /\ leftover' \in BOOLEAN /\ (~leftover' => ~leftover /\ heap) /\ calls' \in Nat
      /\ known' \subseteq Devices
  BY <1>2, HeapType, TypeParts DEF KeysCall
<1>4. CASE e = 0
  <2>1. t' = t1 /\ UNCHANGED <<keyNvId, option, nvTable, nvKeys, ram, used, late, lapsed, mine>>
    BY <1>4 DEF AddLinkKey, stored
  <2>2. KeysTypeOK'
    <3> HIDE DEF t1
    <3> QED
      BY <1>1, <1>2, <1>3, <2>1, TypeParts, TypeFrom
  <2>3. t'.ami = t.ami /\ TableOK(t')
    BY <1>1, <2>1
  <2>4. Counted'
    <3>1. ASSUME NEW k \in KeySlots, SlotOK(k) PROVE SlotOK(k)'
      BY <2>1, <3>1, SlotSame DEF InUse
    <3> QED
      BY <1>3, <3>1 DEF Counted, KeysInv
  <2>5. NvApart' /\ LateIsPending' /\ OwnSlots'
    BY <1>2, <2>1 DEF NvApart, LateIsPending, OwnSlots, KeysInv
  <2>6. FreeHasNone'
    BY <1>3, <2>1, <2>3 DEF FreeHasNone, KeysInv
  <2>7. MineKept'
    BY <1>2, <1>3, <2>1, <2>3 DEF MineKept, Kept, KeysInv
  <2> QED
    BY <2>2, <2>3, <2>4, <2>5, <2>6, <2>7 DEF KeysInv
<1>5. CASE e # 0
  <2>1. /\ t' = t2 /\ LinkKeySet(e, d, heap) /\ option' = [option EXCEPT ![e] = TRUE]
        /\ mine' = mine \cup {d} /\ nvTable' = WriteNV(t', keyNvId', option')
    BY <1>5 DEF AddLinkKey
  <2>2. Entered(t1, d, e)
    BY <1>1, <1>5, EntryFound DEF TableOK
  <2> HIDE DEF e
  <2> HIDE DEF t1
  <2>a. TableOK(t2) /\ t2.ami = [t1.ami EXCEPT ![e] = d]
    BY <1>1, <2>2, TableEntered
  <2> HIDE DEF t2
  <2>3. TableOK(t') /\ t'.ami = [t.ami EXCEPT ![e] = d]
    BY <1>1, <2>1, <2>a
  <2>4. /\ e \in Indices /\ t.ami[e] \in {Nobody, d} /\ \A x \in Indices : t.ami[x] = d => x = e
        /\ Indices \subseteq KeySlots
    BY <1>1, <2>2 DEF Entered, Indices, KeySlots
  <2>5. \A i \in Indices : t'.ami[i] = IF i = e THEN d ELSE t.ami[i]
    BY <2>3, <2>4, TypeParts
  <2>6. keyNvId' = [keyNvId EXCEPT ![e] = e] /\ keyNvId' \in [Indices -> KeySlots]
        /\ option' \in [Indices -> BOOLEAN]
    BY <2>1, <2>4, TypeParts DEF LinkKeySet
  <2>7. /\ nvKeys' \in [KeySlots -> NvKey] /\ ram' \in [KeySlots -> Counter]
        /\ used' \in [KeySlots -> Nat] /\ late' \in [KeySlots -> Nat] /\ lapsed' \subseteq KeySlots
        /\ LateIsPending'
    <3>1. CASE heap
      BY <2>1, <2>4, <3>1, SlotSet
    <3>2. CASE ~heap
      <4>1. UNCHANGED <<nvKeys, ram, used, late, lapsed>>
        BY <2>1, <3>2 DEF LinkKeySet
      <4> QED
        BY <4>1, TypeParts DEF LateIsPending, KeysInv
    <3> QED
      BY <3>1, <3>2
  <2>8. /\ nvTable' \in Seq(NvEntry) /\ Len(nvTable') <= Size /\ NvApart'
        /\ \A i \in Indices : t'.ami[i] # Nobody =>
               \E x \in DOMAIN nvTable' : nvTable'[x] = Saved(t', keyNvId', option', i)
    <3>1. TableOK(t') /\ keyNvId' \in [Indices -> KeySlots] /\ option' \in [Indices -> BOOLEAN]
      BY <2>3, <2>6
    <3>2. nvTable' = WriteNV(t', keyNvId', option')
      BY <2>1
    <3>3. LET W == WriteNV(t', keyNvId', option') IN
          /\ W \in Seq(NvEntry)
          /\ Len(W) <= Size
          /\ \A x, y \in DOMAIN W : W[x].ami = W[y].ami => x = y
          /\ \A i \in Indices : t'.ami[i] # Nobody =>
                 \E x \in DOMAIN W : W[x] = Saved(t', keyNvId', option', i)
      BY <3>1, WriteNVIs DEF NvEntry
    <3> QED
      BY <3>2, <3>3 DEF NvApart
  <2>9. KeysTypeOK'
    BY <1>2, <1>3, <2>1, <2>3, <2>6, <2>7, <2>8, TypeParts, TypeFrom
  <2>10. Counted'
    BY <1>3, <2>1, <2>4, SlotSet DEF Counted, KeysInv
  <2>11. FreeHasNone'
    <3>1. d # Nobody
      BY NobodyAssumption
    <3> QED
      BY <1>3, <2>4, <2>5, <2>6, <3>1, TypeParts DEF FreeHasNone, KeysInv
  <2>12. OwnSlots'
    BY <1>2, <2>4, <2>6, TypeParts DEF OwnSlots, KeysInv
  <2>13. MineKept'
    <3> SUFFICES ASSUME ~leftover', ~shifted', NEW x \in mine' PROVE Kept(x)'
      BY DEF MineKept
    <3>1. heap /\ ~leftover /\ ~shifted
      BY <1>2, <1>3
    <3>2. nvKeys'[e].owner = d /\ \A k \in KeySlots \ {e} : nvKeys'[k] = nvKeys[k]
      BY <2>1, <2>4, <3>1, SlotSet
    <3>3. d # Nobody /\ Nobody \notin Devices
      BY NobodyAssumption
    <3>4. CASE x = d
      <4>1. t'.ami[e] = d /\ keyNvId'[e] = e /\ option'[e]
        BY <2>1, <2>4, <2>5, <2>6, TypeParts
      <4>2. \E n \in DOMAIN nvTable' : nvTable'[n] = [ami |-> d, keyNvId |-> e, option |-> TRUE]
        BY <2>4, <2>8, <3>3, <4>1, <2>6 DEF Saved
      <4> QED
        BY <2>4, <3>2, <3>4, <4>1, <4>2 DEF Kept
    <3>5. CASE x # d
      <4>1. x \in mine /\ x \in Devices /\ Kept(x)
        BY <2>1, <3>1, <3>5, TypeParts DEF MineKept, KeysInv
      <4>2. PICK i \in Indices : t.ami[i] = x /\ keyNvId[i] = i /\ option[i] /\ nvKeys[i].owner = x
        BY <4>1 DEF Kept
      <4>3. i # e
        BY <2>4, <3>3, <3>5, <4>1, <4>2
      <4>4. t'.ami[i] = x /\ keyNvId'[i] = i /\ option'[i] /\ nvKeys'[i].owner = x
        BY <2>1, <2>4, <2>5, <2>6, <3>2, <4>2, <4>3, TypeParts
      <4>5. \E n \in DOMAIN nvTable' : nvTable'[n] = Saved(t', keyNvId', option', i)
        BY <2>8, <3>3, <4>1, <4>4
      <4>6. option'[i] = TRUE
        BY <2>6, <4>4
      <4>7. \E n \in DOMAIN nvTable' : nvTable'[n] = [ami |-> x, keyNvId |-> i, option |-> TRUE]
        BY <4>4, <4>5, <4>6 DEF Saved
      <4> QED
        BY <4>4, <4>7 DEF Kept
    <3> QED
      BY <3>4, <3>5
  <2> QED
    BY <2>3, <2>7, <2>8, <2>9, <2>10, <2>11, <2>12, <2>13 DEF KeysInv
<1> QED
  BY <1>4, <1>5

LEMMA StepDeviceRemove ==
    ASSUME KeysInv, NEW d \in Devices, NEW heap \in BOOLEAN, DeviceRemoveByExtAddr(d, heap)
    PROVE  KeysInv'
<1> DEFINE e == EntryLookupExt(t, d)
<1>1. /\ UNCHANGED <<option, known, masters, loaded, tcLoaded, nvTable, ram, events, used, late, lapsed, shifted,
                     framesLeft>>
      /\ KeysCall /\ Heap(heap) /\ e # 0
      /\ t' = DeviceEntryRemove(t, e) /\ FreeKeys({e}, heap) /\ mine' = mine \ {d}
  BY DEF DeviceRemoveByExtAddr, keys
<1>2. e \in Indices /\ t.ami[e] = d /\ d # Nobody
  BY <1>1, FoundByDevice, NobodyAssumption DEF EntryLookupExt
<1> HIDE DEF e
<1>3. trouble' \in Nat /\ leftover' \in BOOLEAN /\ (~leftover' => ~leftover /\ heap) /\ calls' \in Nat
  BY <1>1, HeapType, TypeParts DEF KeysCall
<1>4. TableOK(t') /\ t'.ami = [t.ami EXCEPT ![e] = Nobody]
  BY <1>1, <1>2, TableFreed DEF KeysInv
<1>5. \A i \in Indices : t'.ami[i] = IF i = e THEN Nobody ELSE t.ami[i]
  BY <1>4, TypeParts
<1>6. keyNvId' \in [Indices -> KeySlots] /\ nvKeys' \in [KeySlots -> NvKey]
  <2>1. CASE heap
    BY <1>1, <1>2, <2>1, KeysFreed
  <2>2. CASE ~heap
    BY <1>1, <2>2, TypeParts DEF FreeKeys
  <2> QED
    BY <2>1, <2>2
<1>7. KeysTypeOK'
  BY <1>1, <1>3, <1>4, <1>6, TypeParts, TypeFrom
<1>8. NvApart' /\ LateIsPending'
  BY <1>1 DEF NvApart, LateIsPending, KeysInv
<1>9. OwnSlots'
  <2>1. \A i \in Indices : keyNvId'[i] \in {0, keyNvId[i]}
    <3>1. keyNvId' = keyNvId \/ keyNvId' = [i \in Indices |-> IF i \in {e} THEN 0 ELSE keyNvId[i]]
      BY <1>1 DEF FreeKeys
    <3> QED
      BY <3>1
  <2> QED
    BY <1>1, <2>1 DEF OwnSlots, KeysInv
<1>10. ASSUME ~leftover' PROVE (\A k \in KeySlots : SlotOK(k)') /\ FreeHasNone' /\ MineKept'
  <2>1. heap /\ ~leftover
    BY <1>3, <1>10
  <2>2. /\ \A k \in KeySlots : SlotOK(k) => SlotOK(k)'
        /\ \A i \in Indices : keyNvId'[i] = IF i \in {e} THEN 0 ELSE keyNvId[i]
        /\ OwnSlots /\ ~shifted => \A i \in Indices \ {e} : nvKeys'[i] = nvKeys[i]
    BY <1>1, <1>2, <2>1, KeysFreed
  <2>3. \A k \in KeySlots : SlotOK(k)'
    BY <2>1, <2>2 DEF Counted, KeysInv
  <2>4. FreeHasNone'
    BY <1>5, <2>1, <2>2 DEF FreeHasNone, KeysInv
  <2>5. ASSUME ~shifted', NEW x \in mine' PROVE Kept(x)'
    <3>1. x \in mine /\ x # d /\ x \in Devices /\ Kept(x) /\ OwnSlots /\ ~shifted
      BY <1>1, <2>1, <2>5, TypeParts DEF MineKept, KeysInv
    <3>2. PICK i \in Indices :
               /\ t.ami[i] = x /\ keyNvId[i] = i /\ option[i] /\ nvKeys[i].owner = x
               /\ \E n \in DOMAIN nvTable : nvTable[n] = [ami |-> x, keyNvId |-> i, option |-> TRUE]
      BY <3>1 DEF Kept
    <3>3. i # e
      BY <1>2, <3>1, <3>2
    <3>4. t'.ami[i] = x /\ keyNvId'[i] = i /\ option'[i] /\ nvKeys'[i].owner = x
      BY <1>1, <1>5, <2>2, <3>1, <3>2, <3>3
    <3> QED
      BY <1>1, <3>1, <3>2, <3>4, KeptSame
  <2> QED
    BY <2>3, <2>4, <2>5 DEF MineKept
<1>11. Counted' /\ FreeHasNone' /\ MineKept'
  BY <1>10 DEF Counted, FreeHasNone, MineKept
<1> QED
  BY <1>4, <1>7, <1>8, <1>9, <1>11 DEF KeysInv

LEMMA StepEstablishKey ==
    ASSUME KeysInv, NEW d \in Devices, NEW a \in Addrs, NEW heap \in BOOLEAN,
           EstablishKeyInd(d, a, heap)
    PROVE  KeysInv'
<1> DEFINE t1 == TCDataLoad(d)
           dev == [ami |-> d, parent |-> Nowhere, secure |-> TRUE,
                   addr |-> IF TCExtAddrCheck(t1, d) THEN TrustCenterAddr ELSE a]
           t2 == ValidateSKKE(t1, dev).table
           gone == {i \in Indices : t1.ami[i] /= Nobody /\ t2.ami[i] /= t1.ami[i]}
           new == {i \in Indices : t2.ami[i] /= Nobody /\ t2.ami[i] /= t1.ami[i]}
<1>1. /\ UNCHANGED <<masters, loaded, nvTable, ram, events, used, late, lapsed, shifted, framesLeft>>
      /\ KeysCall /\ Heap(heap)
      /\ t' = t2 /\ FreeKeys(gone, heap)
      /\ option' = [i \in Indices |-> option[i] /\ i \notin new]
      /\ mine' = mine \ {t1.ami[i] : i \in gone}
      /\ known' = known \cup (IF tcLoaded THEN {} ELSE {d}) /\ tcLoaded' = TRUE
  BY DEF EstablishKeyInd
<1>2. TableOK(t1) /\ t1.ami = t.ami
  BY TCDataLoaded
<1>3. dev.ami = d /\ dev.addr \in Addrs
  BY KeysAssumption
<1> HIDE DEF t1, dev
<1>4. /\ TableOK(t2) /\ \A i \in Indices : t2.ami[i] \in {t1.ami[i], Nobody, d}
      /\ \A i \in Indices : t1.ami[i] = d => t2.ami[i] = d
  <2>1. CASE t2 = t1
    <3> HIDE DEF t2
    <3> QED
      BY <1>2, <2>1
  <2>2. CASE t2 = DeviceEntryAdd(t1, dev, FALSE).table
    <3> HIDE DEF t2
    <3>1. LET q == DeviceEntryAdd(t1, dev, FALSE).table IN
          /\ TableOK(q)
          /\ \A i \in Indices : q.ami[i] \in {t1.ami[i], Nobody, dev.ami}
          /\ \A i \in Indices : t1.ami[i] = dev.ami => q.ami[i] = dev.ami
      BY <1>2, <1>3, DeviceEntered
    <3> QED
      BY <1>3, <2>2, <3>1
  <2>3. t2 = t1 \/ t2 = DeviceEntryAdd(t1, dev, FALSE).table
    BY DEF ValidateSKKE, Added
  <2> QED
    BY <2>1, <2>2, <2>3
<1> HIDE DEF t2
<1>5. trouble' \in Nat /\ leftover' \in BOOLEAN /\ (~leftover' => ~leftover /\ heap) /\ calls' \in Nat
  BY <1>1, HeapType, TypeParts DEF KeysCall
<1>6. known' \subseteq Devices /\ mine' \subseteq Devices /\ tcLoaded' \in BOOLEAN
  BY <1>1, TypeParts
<1>7. option' \in [Indices -> BOOLEAN] /\ \A i \in Indices : option'[i] <=> option[i] /\ i \notin new
  <2>1. \A i \in Indices : (option[i] /\ i \notin new) \in BOOLEAN
    OBVIOUS
  <2> HIDE DEF new
  <2> QED
    BY <1>1, <2>1
<1>8. \A i \in Indices : t2.ami[i] = Nobody => t1.ami[i] = Nobody \/ i \in gone
  BY <1>4
<1>9. \A i \in Indices \ gone : t1.ami[i] # Nobody => t2.ami[i] = t1.ami[i] /\ i \notin new
  OBVIOUS
<1>10. gone \subseteq Indices /\ \A i \in gone : t1.ami[i] \notin mine'
  BY <1>1
<1> HIDE DEF gone, new
<1>11. keyNvId' \in [Indices -> KeySlots] /\ nvKeys' \in [KeySlots -> NvKey]
  <2>1. CASE heap
    BY <1>1, <1>10, <2>1, KeysFreed
  <2>2. CASE ~heap
    BY <1>1, <2>2, TypeParts DEF FreeKeys
  <2> QED
    BY <2>1, <2>2
<1>12. KeysTypeOK'
  BY <1>1, <1>4, <1>5, <1>6, <1>7, <1>11, TypeParts, TypeFrom
<1>13. NvApart' /\ LateIsPending'
  BY <1>1 DEF NvApart, LateIsPending, KeysInv
<1>14. OwnSlots'
  <2>1. \A i \in Indices : keyNvId'[i] \in {0, keyNvId[i]}
    <3>1. keyNvId' = keyNvId \/ keyNvId' = [i \in Indices |-> IF i \in gone THEN 0 ELSE keyNvId[i]]
      BY <1>1 DEF FreeKeys
    <3> QED
      BY <3>1
  <2> QED
    BY <1>1, <2>1 DEF OwnSlots, KeysInv
<1>15. ASSUME ~leftover' PROVE (\A k \in KeySlots : SlotOK(k)') /\ FreeHasNone' /\ MineKept'
  <2>1. heap /\ ~leftover
    BY <1>5, <1>15
  <2>2. /\ \A k \in KeySlots : SlotOK(k) => SlotOK(k)'
        /\ \A i \in Indices : keyNvId'[i] = IF i \in gone THEN 0 ELSE keyNvId[i]
        /\ OwnSlots /\ ~shifted => \A i \in Indices \ gone : nvKeys'[i] = nvKeys[i]
    BY <1>1, <1>10, <2>1, KeysFreed
  <2>3. \A k \in KeySlots : SlotOK(k)'
    BY <2>1, <2>2 DEF Counted, KeysInv
  <2>4. FreeHasNone'
    BY <1>1, <1>2, <1>8, <2>1, <2>2 DEF FreeHasNone, KeysInv
  <2>5. ASSUME ~shifted', NEW x \in mine' PROVE Kept(x)'
    <3>1. x \in mine /\ x \in Devices /\ x # Nobody /\ Kept(x) /\ OwnSlots /\ ~shifted
      BY <1>1, <2>1, <2>5, TypeParts, NobodyAssumption DEF MineKept, KeysInv
    <3>2. PICK i \in Indices :
               /\ t.ami[i] = x /\ keyNvId[i] = i /\ option[i] /\ nvKeys[i].owner = x
               /\ \E n \in DOMAIN nvTable : nvTable[n] = [ami |-> x, keyNvId |-> i, option |-> TRUE]
      BY <3>1 DEF Kept
    <3>3. i \notin gone
      BY <1>2, <1>10, <2>5, <3>2
    <3>4. t'.ami[i] = x /\ keyNvId'[i] = i /\ option'[i] /\ nvKeys'[i].owner = x
      BY <1>1, <1>2, <1>7, <1>9, <2>2, <3>1, <3>2, <3>3
    <3> QED
      BY <1>1, <3>1, <3>2, <3>4, KeptSame
  <2> QED
    BY <2>3, <2>4, <2>5 DEF MineKept
<1>16. Counted' /\ FreeHasNone' /\ MineKept'
  BY <1>15 DEF Counted, FreeHasNone, MineKept
<1> QED
  BY <1>1, <1>4, <1>12, <1>13, <1>14, <1>16 DEF KeysInv

\* A device that gets an entry by a key that comes, or no entry if there is none free.
Given(t1, e, d) ==
    /\ t' = IF e # 0 THEN [t1 EXCEPT !.ami[e] = d] ELSE t1
    /\ e # 0 => Entered(t1, d, e)

LEMMA TableGiven ==
    ASSUME KeysInv, NEW t1, TableOK(t1), t1.ami = t.ami, NEW d \in Devices, NEW e, Given(t1, e, d)
    PROVE  /\ TableOK(t')
           /\ \A i \in Indices : t'.ami[i] = IF i = e THEN d ELSE t.ami[i]
           /\ e # 0 => e \in Indices /\ t.ami[e] \in {Nobody, d}
<1>1. CASE e = 0
  BY <1>1, SizeAssumption DEF Given, Indices
<1>2. CASE e # 0
  <2> DEFINE t2 == [t1 EXCEPT !.ami[e] = d]
  <2>1. Entered(t1, d, e) /\ t' = t2
    BY <1>2 DEF Given
  <2>2. TableOK(t2) /\ t2.ami = [t1.ami EXCEPT ![e] = d]
    BY <2>1, TableEntered
  <2> HIDE DEF t2
  <2> QED
    BY <2>1, <2>2, TypeParts DEF Entered
<1> QED
  BY <1>1, <1>2

LEMMA StepTransportMaster ==
    ASSUME KeysInv, NEW d \in Devices, NEW application \in BOOLEAN, NEW initiator \in BOOLEAN,
           KeysCall, TransportMasterKey(d, application, initiator), tcLoaded' = TRUE,
           UNCHANGED <<nvTable, events, mine, shifted, framesLeft>>
    PROVE  KeysInv'
<1> DEFINE t1 == TCDataLoad(d)
           knows == known \cup (IF tcLoaded THEN {} ELSE {d})
           found == EntryFor(t1, d)
           begins == application /\ initiator /\ d \in knows /\ t1.addr[d] /= Nowhere
           e == IF begins THEN found ELSE 0
           out == IF begins /\ found /= 0 /\ t1.ami[found] = Nobody
                  THEN [option EXCEPT ![found] = FALSE] ELSE option
<1>1. /\ UNCHANGED <<keyNvId, loaded, nvKeys, ram, used, late, lapsed, trouble, leftover>>
      /\ known' = (IF application /\ ~initiator THEN knows \cup {d} ELSE knows)
      /\ masters' \in {masters, MasterKeyLoad(known', d)}
      /\ option' = out
  BY DEF TransportMasterKey
<1>2. TableOK(t1) /\ t1.ami = t.ami
  BY TCDataLoaded
<1>3. Given(t1, e, d)
  <2>1. t' = IF begins /\ found # 0 THEN [t1 EXCEPT !.ami[found] = d] ELSE t1
    BY DEF TransportMasterKey
  <2>2. found # 0 => Entered(t1, d, found)
    BY <1>2, EntryFound DEF TableOK
  <2> HIDE DEF t1, found, begins
  <2> QED
    BY <2>1, <2>2 DEF Given
<1>4. known' \subseteq Devices /\ masters' \subseteq Devices /\ calls' \in Nat /\ tcLoaded' \in BOOLEAN
  BY <1>1, TypeParts DEF MasterKeyLoad, KeysCall
<1> HIDE DEF t1, knows, found, begins
<1>5. /\ TableOK(t') /\ \A i \in Indices : t'.ami[i] = IF i = e THEN d ELSE t.ami[i]
      /\ e # 0 => e \in Indices /\ t.ami[e] \in {Nobody, d}
  <2> HIDE DEF e
  <2> QED
    BY <1>2, <1>3, TableGiven
<1>6. option' \in [Indices -> BOOLEAN] /\ \A i \in Indices : t.ami[i] # Nobody => option'[i] = option[i]
  <2>1. option \in [Indices -> BOOLEAN]
    BY TypeParts
  <2>2. CASE option' = option
    BY <2>1, <2>2
  <2>3. CASE option' # option
    <3>1. e # 0 /\ t.ami[e] = Nobody /\ option' = [option EXCEPT ![e] = FALSE]
      BY <1>1, <1>2, <2>3
    <3> QED
      BY <2>1, <3>1
  <2> QED
    BY <2>2, <2>3
<1> HIDE DEF e, out
<1>7. KeysTypeOK'
  BY <1>1, <1>4, <1>5, <1>6, TypeParts, TypeFrom
<1>8. NvApart' /\ LateIsPending' /\ OwnSlots'
  BY <1>1 DEF NvApart, LateIsPending, OwnSlots, KeysInv
<1>9. Counted'
  <2>1. ASSUME NEW k \in KeySlots, SlotOK(k) PROVE SlotOK(k)'
    BY <1>1, <2>1, SlotSame DEF InUse
  <2> QED
    BY <1>1, <2>1 DEF Counted, KeysInv
<1>10. d # Nobody /\ Nobody \notin Devices
  BY NobodyAssumption
<1>11. FreeHasNone'
  BY <1>1, <1>5, <1>10 DEF FreeHasNone, KeysInv
<1>12. MineKept'
  <2> SUFFICES ASSUME ~leftover', ~shifted', NEW x \in mine' PROVE Kept(x)'
    BY DEF MineKept
  <2>1. x \in Devices /\ Kept(x)
    BY <1>1, TypeParts DEF MineKept, KeysInv
  <2>2. PICK i \in Indices :
             /\ t.ami[i] = x /\ keyNvId[i] = i /\ option[i] /\ nvKeys[i].owner = x
             /\ \E n \in DOMAIN nvTable : nvTable[n] = [ami |-> x, keyNvId |-> i, option |-> TRUE]
    BY <2>1 DEF Kept
  <2>a. i = e => x = d
    BY <1>5, <1>10, <2>1, <2>2 DEF Indices
  <2>b. option'[i]
    BY <1>6, <1>10, <2>1, <2>2
  <2>3. t'.ami[i] = x /\ keyNvId'[i] = i /\ option'[i] /\ nvKeys'[i].owner = x
    BY <1>1, <1>5, <2>2, <2>a, <2>b
  <2> QED
    BY <2>1, <2>2, <2>3, KeptSame
<1> QED
  BY <1>5, <1>7, <1>8, <1>9, <1>11, <1>12 DEF KeysInv

LEMMA StepTransportLink ==
    ASSUME KeysInv, NEW d \in Devices, NEW heap \in BOOLEAN,
           KeysCall, TransportLinkKey(d, heap), tcLoaded' = TRUE,
           UNCHANGED <<nvTable, events, mine, shifted, framesLeft>>
    PROVE  KeysInv'
<1> DEFINE t1 == TCDataLoad(d)
           e == EntryFor(t1, d)
<1>1. UNCHANGED <<masters, loaded>> /\ known' = known \cup {d} /\ Heap(heap)
  BY DEF TransportLinkKey
<1>2. TableOK(t1) /\ t1.ami = t.ami
  BY TCDataLoaded
<1>3. Given(t1, e, d)
  <2>1. t' = IF e # 0 THEN [t1 EXCEPT !.ami[e] = d] ELSE t1
    BY DEF TransportLinkKey
  <2>2. e # 0 => Entered(t1, d, e)
    BY <1>2, EntryFound DEF TableOK
  <2> HIDE DEF t1, e
  <2> QED
    BY <2>1, <2>2 DEF Given
<1>4. e = 0 => UNCHANGED <<keyNvId, option, nvKeys, ram, used, late, lapsed>>
  BY DEF TransportLinkKey
<1>5. e # 0 => /\ option' = IF t1.ami[e] = Nobody THEN [option EXCEPT ![e] = FALSE] ELSE option
               /\ LinkKeySet(e, d, heap)
  BY DEF TransportLinkKey
<1>6. /\ trouble' \in Nat /\ leftover' \in BOOLEAN /\ (~leftover' => ~leftover /\ heap) /\ calls' \in Nat
      /\ known' \subseteq Devices /\ tcLoaded' \in BOOLEAN
  BY <1>1, HeapType, TypeParts DEF KeysCall
<1> HIDE DEF t1, e
<1>7. /\ TableOK(t') /\ \A i \in Indices : t'.ami[i] = IF i = e THEN d ELSE t.ami[i]
      /\ e # 0 => e \in Indices /\ t.ami[e] \in {Nobody, d}
  BY <1>2, <1>3, TableGiven
<1>8. option' \in [Indices -> BOOLEAN] /\ \A i \in Indices : t.ami[i] # Nobody => option'[i] = option[i]
  BY <1>2, <1>4, <1>5, <1>7, TypeParts
<1>9. /\ nvKeys' \in [KeySlots -> NvKey] /\ ram' \in [KeySlots -> Counter]
      /\ used' \in [KeySlots -> Nat] /\ late' \in [KeySlots -> Nat] /\ lapsed' \subseteq KeySlots
      /\ LateIsPending'
  <2>1. CASE e = 0 \/ ~heap
    <3>1. UNCHANGED <<nvKeys, ram, used, late, lapsed>>
      BY <1>4, <1>5, <2>1 DEF LinkKeySet
    <3> QED
      BY <3>1, TypeParts DEF LateIsPending, KeysInv
  <2>2. CASE e # 0 /\ heap
    BY <1>5, <1>7, <2>2, SlotSet
  <2> QED
    BY <2>1, <2>2
<1>10. keyNvId' \in [Indices -> KeySlots] /\ \A i \in Indices : keyNvId'[i] = IF i = e THEN e ELSE keyNvId[i]
  <2>1. Indices \subseteq KeySlots /\ 0 \notin Indices
    BY DEF Indices, KeySlots
  <2> QED
    BY <1>4, <1>5, <1>7, <2>1, TypeParts DEF LinkKeySet
<1>11. KeysTypeOK'
  BY <1>1, <1>6, <1>7, <1>8, <1>9, <1>10, TypeParts, TypeFrom
<1>12. NvApart'
  BY DEF NvApart, KeysInv
<1>13. OwnSlots'
  BY <1>7, <1>10 DEF OwnSlots, KeysInv
<1>14. d # Nobody /\ Nobody \notin Devices
  BY NobodyAssumption
<1>15. ASSUME ~leftover' PROVE (\A k \in KeySlots : SlotOK(k)') /\ FreeHasNone' /\ MineKept'
  <2>1. heap /\ ~leftover
    BY <1>6, <1>15
  <2>2. ASSUME e = 0 PROVE \A k \in KeySlots : SlotOK(k) => SlotOK(k)'
    BY <1>4, <2>2, SlotSame DEF InUse
  <2>3. ASSUME e # 0
        PROVE  /\ \A k \in KeySlots : SlotOK(k) => SlotOK(k)'
               /\ nvKeys'[e].owner = d /\ \A k \in KeySlots \ {e} : nvKeys'[k] = nvKeys[k]
    BY <1>5, <1>7, <2>1, <2>3, SlotSet
  <2>4. \A k \in KeySlots : SlotOK(k)'
    BY <2>1, <2>2, <2>3 DEF Counted, KeysInv
  <2>5. FreeHasNone'
    BY <1>7, <1>10, <1>14, <2>1 DEF FreeHasNone, KeysInv
  <2>6. ASSUME ~shifted', NEW x \in mine' PROVE Kept(x)'
    <3>1. x \in Devices /\ Kept(x)
      BY <2>1, <2>6, TypeParts DEF MineKept, KeysInv
    <3>2. PICK i \in Indices :
               /\ t.ami[i] = x /\ keyNvId[i] = i /\ option[i] /\ nvKeys[i].owner = x
               /\ \E n \in DOMAIN nvTable : nvTable[n] = [ami |-> x, keyNvId |-> i, option |-> TRUE]
      BY <3>1 DEF Kept
    <3>3. i = e => x = d
      BY <1>7, <1>14, <3>1, <3>2 DEF Indices
    <3>4. nvKeys'[i].owner = x
      <4>1. CASE e = 0
        BY <1>4, <3>2, <4>1
      <4>2. CASE e # 0
        BY <2>3, <3>2, <3>3, <4>2 DEF Indices, KeySlots
      <4> QED
        BY <4>1, <4>2
    <3>5. t'.ami[i] = x /\ keyNvId'[i] = i /\ option'[i]
      BY <1>7, <1>8, <1>10, <1>14, <3>1, <3>2, <3>3
    <3> QED
      BY <3>1, <3>2, <3>4, <3>5, KeptSame
  <2> QED
    BY <2>4, <2>5, <2>6 DEF MineKept
<1>16. Counted' /\ FreeHasNone' /\ MineKept'
  BY <1>15 DEF Counted, FreeHasNone, MineKept
<1> QED
  BY <1>7, <1>9, <1>11, <1>12, <1>13, <1>16 DEF KeysInv

\* A step that touches neither entries nor slots.
LEMMA StepElsewhere ==
    ASSUME KeysInv, TableOK(t'), t'.ami = t.ami, known' \subseteq Devices, loaded' \in BOOLEAN,
           tcLoaded' \in BOOLEAN, calls' \in Nat,
           UNCHANGED <<keyNvId, option, masters, nvTable, nvKeys, ram, events, history, framesLeft, trouble>>
    PROVE  KeysInv'
<1>1. UNCHANGED <<used, late, lapsed, mine, leftover, shifted>>
  BY DEF history
<1>2. KeysTypeOK'
  BY <1>1, TypeParts, TypeFrom
<1>3. Counted'
  <2>1. ASSUME NEW k \in KeySlots, SlotOK(k) PROVE SlotOK(k)'
    BY <1>1, <2>1, SlotSame DEF InUse
  <2> QED
    BY <1>1, <2>1 DEF Counted, KeysInv
<1>4. NvApart' /\ LateIsPending' /\ OwnSlots' /\ FreeHasNone'
  BY <1>1 DEF NvApart, LateIsPending, OwnSlots, FreeHasNone, KeysInv
<1>5. MineKept'
  BY <1>1 DEF MineKept, Kept, KeysInv
<1> QED
  BY <1>2, <1>3, <1>4, <1>5 DEF KeysInv

LEMMA StepTransportKey ==
    ASSUME KeysInv, NEW d \in Devices, TransportKeyInd(d)
    PROVE  KeysInv'
<1>1. KeysCall /\ tcLoaded' = TRUE /\ UNCHANGED <<nvTable, events, mine, shifted, framesLeft>>
  BY DEF TransportKeyInd
<1>2. CASE \E application, initiator \in BOOLEAN : TransportMasterKey(d, application, initiator)
  BY <1>1, <1>2, StepTransportMaster
<1>3. CASE \E heap \in BOOLEAN : TransportLinkKey(d, heap)
  BY <1>1, <1>3, StepTransportLink
<1>4. CASE TransportNwkKey(d)
  <2>1. TableOK(t') /\ t'.ami = t.ami
    BY <1>4, TCDataLoaded DEF TransportNwkKey
  <2>2. known' \subseteq Devices /\ loaded' \in BOOLEAN /\ tcLoaded' \in BOOLEAN /\ calls' \in Nat
    BY <1>1, <1>4, TypeParts DEF TransportNwkKey, KeysCall
  <2>3. UNCHANGED <<keyNvId, option, masters, nvKeys, ram, history, trouble>>
    BY <1>1, <1>4 DEF TransportNwkKey, history
  <2> QED
    BY <1>1, <2>1, <2>2, <2>3, StepElsewhere
<1> QED
  BY <1>2, <1>3, <1>4 DEF TransportKeyInd

LEMMA StepCount ==
    ASSUME KeysInv, NEW k \in KeySlots, InUse(k), NEW event \in {"APS_FRAMECOUNTER", "TCLK_FRAMECOUNTER"},
           Count(k, event)
    PROVE  KeysInv'
<1> DEFINE n == ram[k].tx + 1
           save == n % MaxChanges = 0
           cnt == [ram[k] EXCEPT !.tx = n, !.pending = @ \/ save]
<1>1. /\ framesLeft' = framesLeft - 1 /\ framesLeft > 0
      /\ ram' = [ram EXCEPT ![k] = cnt]
      /\ events' = (IF save THEN events \cup {event} ELSE events)
      /\ used' = [used EXCEPT ![k] = IF n > @ THEN n ELSE @]
      /\ late' = (IF ram[k].pending THEN [late EXCEPT ![k] = @ + 1] ELSE late)
      /\ UNCHANGED <<t, keyNvId, option, known, masters, loaded, tcLoaded, nvTable, nvKeys, lapsed, mine,
                     leftover, shifted, calls, trouble>>
  BY DEF Count, tables, keys, stored
<1>2. /\ ram \in [KeySlots -> Counter] /\ used \in [KeySlots -> Nat] /\ late \in [KeySlots -> Nat]
      /\ nvKeys \in [KeySlots -> NvKey] /\ framesLeft \in Nat
  BY TypeParts
<1>3. ram[k] \in Counter /\ n \in Nat /\ n = ram[k].tx + 1 /\ ram[k].tx \in Nat /\ MaxChanges \in Nat \ {0}
  BY <1>2, KeysAssumption DEF Counter
<1>4. cnt \in Counter /\ cnt.tx = n /\ (cnt.pending <=> ram[k].pending \/ save)
  <2>1. (ram[k].pending \/ save) \in BOOLEAN
    OBVIOUS
  <2> HIDE DEF save, n
  <2> QED
    BY <1>3, <2>1 DEF Counter
<1> HIDE DEF n, cnt
<1>5. ram' \in [KeySlots -> Counter] /\ used' \in [KeySlots -> Nat] /\ late' \in [KeySlots -> Nat]
  BY <1>1, <1>2, <1>3, <1>4
<1>6. framesLeft' \in Nat /\ events' \subseteq {"APS_FRAMECOUNTER", "TCLK_FRAMECOUNTER"}
  BY <1>1, <1>2, TypeParts
<1>7. KeysTypeOK'
  BY <1>1, <1>5, <1>6, TypeParts, TypeFrom
<1>8. \A j \in KeySlots \ {k} : ram'[j] = ram[j] /\ used'[j] = used[j] /\ late'[j] = late[j]
  BY <1>1, <1>2
<1>9. /\ ram'[k].tx = n /\ (ram'[k].pending <=> ram[k].pending \/ save)
      /\ used'[k] = (IF n > used[k] THEN n ELSE used[k])
      /\ (ram[k].pending => late'[k] = late[k] + 1) /\ (~ram[k].pending => late'[k] = late[k])
  BY <1>1, <1>2, <1>4
<1>10. LateIsPending'
  <2>1. ASSUME NEW j \in KeySlots, late'[j] > 0 PROVE ram'[j].pending
    <3>1. CASE j = k
      BY <1>2, <1>9, <2>1, <3>1 DEF LateIsPending, KeysInv
    <3>2. CASE j # k
      BY <1>8, <2>1, <3>2 DEF LateIsPending, KeysInv
    <3> QED
      BY <3>1, <3>2
  <2> QED
    BY <2>1 DEF LateIsPending
<1>11. ASSUME SlotOK(k), k = 0 \/ nvKeys[k].owner # Nobody
       PROVE  Covered(k)' /\ Ahead(k)'
  <2> DEFINE inNv == nvKeys[k].tx
             tx == ram[k].tx
             M == MaxChanges
  <2>1. Ahead(k)
    BY <1>11 DEF SlotOK
  <2>2. inNv \in Nat /\ tx \in Nat /\ M \in Nat \ {0} /\ used[k] \in Nat /\ late[k] \in Nat
        /\ n \in Nat /\ n = tx + 1
    BY <1>2, <1>3 DEF NvKey
  <2>3. /\ used[k] <= tx \/ k \in lapsed
        /\ inNv <= tx
        /\ ram[k].pending => tx <= inNv + M + late[k]
        /\ ~ram[k].pending => \A j \in inNv + 1 .. tx : j % M # 0
    BY <2>1 DEF Ahead
  <2>4. nvKeys'[k].tx = inNv /\ lapsed' = lapsed
    BY <1>1
  <2>5. PICK j \in inNv + 1 .. inNv + M : j % M = 0
    <3> HIDE DEF inNv, M
    <3> QED
      BY <2>2, MultipleNear
  <2> HIDE DEF inNv, tx, M
  <2>6. ~ram[k].pending => tx < inNv + M
    BY <2>2, <2>3, <2>5
  <2>7. Covered(k)'
    <3>1. used'[k] <= inNv + M + 1 \/ late'[k] > 1 \/ k \in lapsed
      <4>1. CASE k \in lapsed
        BY <4>1
      <4>2. CASE k \notin lapsed /\ ram[k].pending
        BY <1>9, <2>2, <2>3, <4>2
      <4>3. CASE k \notin lapsed /\ ~ram[k].pending
        BY <1>9, <2>2, <2>3, <2>6, <4>3
      <4> QED
        BY <4>1, <4>2, <4>3
    <3> QED
      BY <2>4, <3>1 DEF Covered, M
  <2>8. Ahead(k)'
    <3>1. used'[k] <= n \/ k \in lapsed
      BY <1>9, <2>2, <2>3
    <3>2. inNv <= n
      BY <2>2, <2>3
    <3>3. ram'[k].pending => n <= inNv + M + late'[k]
      <4>1. CASE ram[k].pending
        BY <1>9, <2>2, <2>3, <4>1
      <4>2. CASE ~ram[k].pending
        BY <1>9, <2>2, <2>6, <4>2
      <4> QED
        BY <4>1, <4>2
    <3>4. ASSUME ~ram'[k].pending, NEW i \in inNv + 1 .. n PROVE i % M # 0
      <4>1. ~ram[k].pending /\ n % M # 0
        BY <1>9, <3>4 DEF save, M
      <4>2. i = n \/ i \in inNv + 1 .. tx
        BY <2>2, <3>4
      <4> QED
        BY <2>3, <4>1, <4>2
    <3> QED
      BY <1>9, <2>4, <3>1, <3>2, <3>3, <3>4 DEF Ahead, M
  <2> QED
    BY <2>7, <2>8
<1>12. Counted'
  <2>1. ASSUME NEW j \in KeySlots, SlotOK(j) PROVE SlotOK(j)'
    <3>1. CASE j # k
      BY <1>1, <1>8, <2>1, <3>1, SlotSame DEF InUse
    <3>2. CASE j = k
      BY <1>1, <1>11, <2>1, <3>2 DEF SlotOK
    <3> QED
      BY <3>1, <3>2
  <2> QED
    BY <1>1, <2>1 DEF Counted, KeysInv
<1>13. NvApart' /\ OwnSlots' /\ FreeHasNone' /\ TableOK(t')
  BY <1>1 DEF NvApart, OwnSlots, FreeHasNone, KeysInv
<1>14. MineKept'
  BY <1>1 DEF MineKept, Kept, KeysInv
<1> QED
  BY <1>7, <1>10, <1>12, <1>13, <1>14 DEF KeysInv

LEMMA StepSync ==
    ASSUME KeysInv, NEW n \in {0, 1}, TCLinkKeySync(ram[0].rx + n)
    PROVE  KeysInv'
<1> DEFINE counter == ram[0].rx + n + 1
           cnt == [ram[0] EXCEPT !.rx = counter]
<1>1. /\ framesLeft' = framesLeft - 1 /\ framesLeft > 0
      /\ ram' = [ram EXCEPT ![0] = cnt]
      /\ UNCHANGED <<t, keyNvId, option, known, masters, loaded, tcLoaded, nvTable, nvKeys, events, used,
                     late, lapsed, mine, leftover, shifted, calls, trouble>>
  BY DEF TCLinkKeySync, tables, keys, stored, history
<1>2. 0 \in KeySlots /\ ram \in [KeySlots -> Counter] /\ framesLeft \in Nat
  BY TypeParts, SizeAssumption DEF KeySlots
<1>3. ram[0].rx \in Nat /\ ram[0] \in Counter
  BY <1>2 DEF Counter
<1>4. counter \in Nat
  BY <1>3
<1> HIDE DEF counter
<1>5. cnt \in Counter /\ cnt.tx = ram[0].tx /\ cnt.pending = ram[0].pending
  BY <1>3, <1>4 DEF Counter
<1> HIDE DEF cnt
<1>6. ram' \in [KeySlots -> Counter]
      /\ \A k \in KeySlots : ram'[k].tx = ram[k].tx /\ ram'[k].pending = ram[k].pending
  BY <1>1, <1>2, <1>5
<1>7. KeysTypeOK'
  <2>1. framesLeft' \in Nat
    BY <1>1, <1>2
  <2> QED
    BY <1>1, <1>6, <2>1, TypeParts, TypeFrom
<1>8. Counted'
  <2>1. ASSUME NEW k \in KeySlots, SlotOK(k) PROVE SlotOK(k)'
    BY <1>1, <1>6, <2>1, SlotSame DEF InUse
  <2> QED
    BY <1>1, <2>1 DEF Counted, KeysInv
<1>9. NvApart' /\ LateIsPending' /\ OwnSlots' /\ FreeHasNone' /\ TableOK(t')
  BY <1>1, <1>6 DEF NvApart, LateIsPending, OwnSlots, FreeHasNone, KeysInv
<1>10. MineKept'
  BY <1>1 DEF MineKept, Kept, KeysInv
<1> QED
  BY <1>7, <1>8, <1>9, <1>10 DEF KeysInv

LEMMA StepSave ==
    ASSUME KeysInv, NEW K \in SUBSET KeySlots, Save(K),
           events' \subseteq {"APS_FRAMECOUNTER", "TCLK_FRAMECOUNTER"}
    PROVE  KeysInv'
<1> DEFINE key(k) == [nvKeys[k] EXCEPT !.tx = ram[k].tx, !.rx = ram[k].rx]
           cnt(k) == [ram[k] EXCEPT !.pending = FALSE]
<1>1. /\ nvKeys' = [k \in KeySlots |-> IF k \in K /\ ram[k].pending THEN key(k) ELSE nvKeys[k]]
      /\ ram' = [k \in KeySlots |-> IF k \in K THEN cnt(k) ELSE ram[k]]
      /\ late' = [k \in KeySlots |-> IF k \in K THEN 0 ELSE late[k]]
      /\ UNCHANGED <<t, keyNvId, option, known, masters, loaded, tcLoaded, nvTable, used, lapsed, mine,
                     leftover, shifted, calls, framesLeft, trouble>>
  BY DEF Save, tables, keys, bounds
<1>2. /\ nvKeys \in [KeySlots -> NvKey] /\ ram \in [KeySlots -> Counter] /\ late \in [KeySlots -> Nat]
      /\ used \in [KeySlots -> Nat]
  BY TypeParts
<1>3. \A k \in KeySlots : /\ key(k) \in NvKey /\ key(k).owner = nvKeys[k].owner /\ key(k).tx = ram[k].tx
                          /\ cnt(k) \in Counter /\ cnt(k).tx = ram[k].tx /\ cnt(k).pending = FALSE
                          /\ nvKeys[k].tx \in Nat /\ ram[k].tx \in Nat
  BY <1>2 DEF NvKey, Counter
<1> HIDE DEF key, cnt
<1>4. nvKeys' \in [KeySlots -> NvKey] /\ ram' \in [KeySlots -> Counter] /\ late' \in [KeySlots -> Nat]
  BY <1>1, <1>2, <1>3
<1>5. KeysTypeOK'
  BY <1>1, <1>4, TypeParts, TypeFrom
<1>6. \A k \in KeySlots :
          /\ nvKeys'[k].owner = nvKeys[k].owner /\ ram'[k].tx = ram[k].tx
          /\ k \in K /\ ram[k].pending => nvKeys'[k].tx = ram[k].tx
          /\ ~ (k \in K /\ ram[k].pending) => nvKeys'[k].tx = nvKeys[k].tx
          /\ k \in K => ~ram'[k].pending /\ late'[k] = 0
          /\ k \notin K => ram'[k].pending = ram[k].pending /\ late'[k] = late[k]
  BY <1>1, <1>3
<1>7. LateIsPending'
  <2>1. ASSUME NEW k \in KeySlots, late'[k] > 0 PROVE ram'[k].pending
    BY <1>6, <2>1 DEF LateIsPending, KeysInv
  <2> QED
    BY <2>1 DEF LateIsPending
<1>8. ASSUME NEW k \in KeySlots, SlotOK(k) PROVE SlotOK(k)'
  <2>1. CASE k \notin K
    BY <1>1, <1>6, <1>8, <2>1, SlotSame DEF InUse
  <2>2. CASE k \in K /\ ram[k].pending /\ (k = 0 \/ nvKeys[k].owner # Nobody)
    <3>1. Ahead(k)
      BY <1>8, <2>2 DEF SlotOK
    <3>2. used[k] <= ram[k].tx \/ k \in lapsed
      BY <3>1 DEF Ahead
    <3>3. /\ nvKeys'[k].tx = ram[k].tx /\ ram'[k].tx = ram[k].tx /\ ~ram'[k].pending
          /\ used' = used /\ lapsed' = lapsed
          /\ ram[k].tx \in Nat /\ used[k] \in Nat /\ MaxChanges \in Nat
      BY <1>1, <1>2, <1>3, <1>6, <2>2, KeysAssumption
    <3>4. Covered(k)'
      BY <3>2, <3>3 DEF Covered
    <3>5. Ahead(k)'
      BY <3>2, <3>3 DEF Ahead
    <3> QED
      BY <3>4, <3>5 DEF SlotOK
  <2>3. CASE k \in K /\ ~ram[k].pending /\ (k = 0 \/ nvKeys[k].owner # Nobody)
    <3>1. late[k] = 0 /\ late'[k] = 0
      BY <1>2, <1>6, <2>3 DEF LateIsPending, KeysInv
    <3>2. /\ nvKeys'[k].owner = nvKeys[k].owner /\ nvKeys'[k].tx = nvKeys[k].tx /\ ram'[k].tx = ram[k].tx
          /\ (ram'[k].pending <=> ram[k].pending) /\ used' = used /\ lapsed' = lapsed
      BY <1>1, <1>6, <2>3
    <3>3. Covered(k) /\ (InUse(k) => Ahead(k))
      BY <1>8, <2>3 DEF SlotOK
    <3>4. Covered(k)'
      BY <3>1, <3>2, <3>3 DEF Covered
    <3>5. ASSUME InUse(k)' PROVE Ahead(k)'
      <4>1. Ahead(k)
        BY <1>1, <3>3, <3>5 DEF InUse
      <4> QED
        BY <2>3, <3>1, <3>2, <4>1 DEF Ahead
    <3> QED
      BY <2>3, <3>2, <3>4, <3>5 DEF SlotOK
  <2>4. CASE ~ (k = 0 \/ nvKeys[k].owner # Nobody)
    BY <1>6, <2>4 DEF SlotOK
  <2> QED
    BY <2>1, <2>2, <2>3, <2>4
<1>9. Counted'
  BY <1>1, <1>8 DEF Counted, KeysInv
<1>10. NvApart' /\ OwnSlots' /\ FreeHasNone' /\ TableOK(t')
  BY <1>1 DEF NvApart, OwnSlots, FreeHasNone, KeysInv
<1>11. MineKept'
  <2>1. Indices \subseteq KeySlots
    BY DEF Indices, KeySlots
  <2>2. ASSUME NEW x \in mine, Kept(x) PROVE Kept(x)'
    <3>1. PICK i \in Indices :
               /\ t.ami[i] = x /\ keyNvId[i] = i /\ option[i] /\ nvKeys[i].owner = x
               /\ \E n \in DOMAIN nvTable : nvTable[n] = [ami |-> x, keyNvId |-> i, option |-> TRUE]
      BY <2>2 DEF Kept
    <3>2. nvKeys'[i].owner = x
      BY <1>6, <2>1, <3>1
    <3>3. x \in Devices
      BY TypeParts
    <3> QED
      BY <1>1, <3>1, <3>2, <3>3, KeptSame
  <2> QED
    BY <1>1, <2>2 DEF MineKept, KeysInv
<1> QED
  BY <1>5, <1>7, <1>9, <1>10, <1>11 DEF KeysInv

LEMMA StepRestart ==
    ASSUME KeysInv, NEW restored \in BOOLEAN, Restart(restored)
    PROVE  KeysInv'
<1> DEFINE n == IF restored THEN Len(nvTable) ELSE 0
           back == {nvTable[x].keyNvId : x \in 1 .. n} \ {0}
           key(k) == IF k = 0 THEN TCLinkKeyInit(~restored) ELSE IF k \in back THEN RestoredKey(k) ELSE nvKeys[k]
           cnt(k) == IF k = 0 \/ k \in back
                     THEN [tx |-> nvKeys'[k].tx, rx |-> nvKeys'[k].rx, pending |-> FALSE]
                     ELSE [tx |-> 0, rx |-> 0, pending |-> FALSE]
           addr == IF restored THEN t.addr ELSE [d \in Devices |-> Nowhere]
           ami == [i \in Indices |-> IF i <= n THEN nvTable[i].ami ELSE Nobody]
<1>1. /\ trouble > 0 /\ trouble' = trouble - 1
      /\ t' = [addr |-> addr, ctrl |-> CtrlInit, ami |-> ami]
      /\ known' = (IF restored THEN known ELSE {})
      /\ keyNvId' = [i \in Indices |-> IF i <= n THEN nvTable[i].keyNvId ELSE 0]
      /\ option' = [i \in Indices |-> i <= n /\ nvTable[i].option]
      /\ nvKeys' = [k \in KeySlots |-> key(k)]
      /\ ram' = [k \in KeySlots |-> cnt(k)]
      /\ used' = (IF restored THEN used ELSE [used EXCEPT ![0] = 0])
      /\ lapsed' = (lapsed \cup {k \in KeySlots : late[k] > 1}) \ (IF restored THEN {} ELSE {0})
      /\ late' = [k \in KeySlots |-> 0]
      /\ tcLoaded' = FALSE /\ events' = {} /\ loaded' = (loaded /\ restored)
      /\ mine' = (IF restored THEN mine ELSE {})
      /\ shifted' = (shifted \/ \E x \in 1 .. n : nvTable[x].keyNvId \notin {0, x})
      /\ masters' = {} /\ UNCHANGED <<nvTable, leftover, calls, framesLeft>>
  BY DEF Restart
<1>2. /\ nvTable \in Seq(NvEntry) /\ Len(nvTable) <= Size /\ Len(nvTable) \in Nat
      /\ Size \in Nat \ {0} /\ MaxChanges \in Nat
      /\ nvKeys \in [KeySlots -> NvKey] /\ used \in [KeySlots -> Nat] /\ late \in [KeySlots -> Nat]
      /\ 0 \in KeySlots /\ 0 \notin Indices /\ Indices \subseteq KeySlots
  BY TypeParts, SizeAssumption, KeysAssumption DEF Indices, KeySlots
<1>3. n \in Nat /\ n <= Size /\ 1 .. n \subseteq Indices /\ DOMAIN nvTable = 1 .. Len(nvTable)
      /\ (restored => n = Len(nvTable)) /\ (~restored => n = 0)
      /\ \A i \in Indices : i <= n <=> i \in 1 .. n
  BY <1>2 DEF Indices
<1>4. \A x \in 1 .. Len(nvTable) : nvTable[x] \in NvEntry /\ nvTable[x].ami \in Devices
                                   /\ nvTable[x].keyNvId \in KeySlots /\ nvTable[x].option \in BOOLEAN
  <2>1. \A x \in 1 .. Len(nvTable) : nvTable[x] \in NvEntry
    BY <1>2, ElementOfSeq
  <2> QED
    BY <2>1 DEF NvEntry
<1>5. \A x \in 1 .. n : x \in 1 .. Len(nvTable)
  BY <1>3
<1> HIDE DEF n
<1>6. TableOK(t') /\ t'.ami = ami
  <2>1. ami \in [Indices -> Devices \cup {Nobody}]
    BY <1>3, <1>4, <1>5
  <2>2. addr \in [Devices -> Addrs \cup {Nowhere}]
    BY Shape DEF TableOK, KeysInv
  <2>3. CtrlInit \in [Indices -> [state : CtrlStates, entry : Indices, cntr : Nat,
                                  parent : Parents \cup {Nowhere}, secure : BOOLEAN]]
    BY <1>2 DEF CtrlInit, CtrlStates, Indices
  <2>4. \A i, j \in Indices : ami[i] = ami[j] /\ ami[i] # Nobody => i = j
    BY <1>3, <1>5 DEF NvApart, KeysInv
  <2> HIDE DEF ami, addr
  <2>5. t' \in Table /\ t'.ami = ami /\ t'.ctrl = CtrlInit
    BY <1>1, <2>1, <2>2, <2>3 DEF Table
  <2> QED
    BY <2>4, <2>5 DEF TableOK, EntriesSound
<1>7. \A i \in Indices : /\ i \in 1 .. n => t'.ami[i] = nvTable[i].ami /\ keyNvId'[i] = nvTable[i].keyNvId
                                            /\ (option'[i] <=> nvTable[i].option)
                         /\ i \notin 1 .. n => t'.ami[i] = Nobody /\ keyNvId'[i] = 0
  BY <1>1, <1>3, <1>6
<1>8. keyNvId' \in [Indices -> KeySlots] /\ option' \in [Indices -> BOOLEAN]
  <2>1. keyNvId' \in [Indices -> KeySlots]
    BY <1>1, <1>2, <1>3, <1>4, <1>5
  <2>2. \A i \in Indices : (i <= n /\ nvTable[i].option) \in BOOLEAN
    OBVIOUS
  <2> QED
    BY <1>1, <2>1, <2>2
<1>9. back \subseteq KeySlots \ {0} /\ \A i \in Indices : keyNvId'[i] \in back \cup {0}
  BY <1>4, <1>5, <1>7
<1> HIDE DEF back
<1>10. \A k \in KeySlots :
          /\ key(k) \in NvKey
          /\ k # 0 => key(k).owner = nvKeys[k].owner
          /\ k \in back \/ (k = 0 /\ restored) => key(k).tx = nvKeys[k].tx + MaxChanges + 1
          /\ k = 0 /\ ~restored => key(k).tx = 0
          /\ k # 0 /\ k \notin back => key(k) = nvKeys[k]
          /\ nvKeys[k].tx \in Nat
  <2> SUFFICES ASSUME NEW k \in KeySlots
               PROVE  /\ key(k) \in NvKey
                      /\ k # 0 => key(k).owner = nvKeys[k].owner
                      /\ k \in back \/ (k = 0 /\ restored) => key(k).tx = nvKeys[k].tx + MaxChanges + 1
                      /\ k = 0 /\ ~restored => key(k).tx = 0
                      /\ k # 0 /\ k \notin back => key(k) = nvKeys[k]
                      /\ nvKeys[k].tx \in Nat
    OBVIOUS
  <2>1. nvKeys[k] \in NvKey /\ nvKeys[k].tx \in Nat
    BY <1>2 DEF NvKey
  <2>2. CASE k = 0
    <3> DEFINE v == IF ~restored THEN 0 ELSE nvKeys[0].tx + MaxChanges + 1
               r == [nvKeys[0] EXCEPT !.tx = v]
    <3>1. key(k) = r
      BY <2>2 DEF TCLinkKeyInit
    <3>2. v \in Nat /\ (~restored => v = 0) /\ (restored => v = nvKeys[0].tx + MaxChanges + 1)
      BY <1>2, <2>1, <2>2
    <3> HIDE DEF v
    <3>3. r \in NvKey /\ r.tx = v
      BY <2>1, <2>2, <3>2 DEF NvKey
    <3> HIDE DEF r, key
    <3> QED
      BY <1>9, <2>1, <2>2, <3>1, <3>2, <3>3
  <2>3. CASE k # 0 /\ k \in back
    <3> DEFINE v == nvKeys[k].tx + MaxChanges + 1
               r == [nvKeys[k] EXCEPT !.tx = v]
    <3>1. key(k) = r
      BY <2>3 DEF RestoredKey
    <3>2. v \in Nat
      BY <1>2, <2>1
    <3> HIDE DEF v
    <3>3. r \in NvKey /\ r.tx = v /\ r.owner = nvKeys[k].owner
      BY <2>1, <3>2 DEF NvKey
    <3> HIDE DEF r, key
    <3> QED
      BY <2>1, <2>3, <3>1, <3>3 DEF v
  <2>4. CASE k # 0 /\ k \notin back
    BY <2>1, <2>4
  <2> QED
    BY <2>2, <2>3, <2>4
<1> HIDE DEF key
<1>11. nvKeys' \in [KeySlots -> NvKey] /\ \A k \in KeySlots : nvKeys'[k] = key(k)
  BY <1>1, <1>10
<1>12. \A k \in KeySlots : /\ cnt(k) \in Counter /\ ~cnt(k).pending
                           /\ k = 0 \/ k \in back => cnt(k).tx = nvKeys'[k].tx
  <2> SUFFICES ASSUME NEW k \in KeySlots
               PROVE  /\ cnt(k) \in Counter /\ ~cnt(k).pending
                      /\ k = 0 \/ k \in back => cnt(k).tx = nvKeys'[k].tx
    OBVIOUS
  <2>1. nvKeys'[k].tx \in Nat /\ nvKeys'[k].rx \in Nat
    BY <1>11 DEF NvKey
  <2> QED
    BY <2>1 DEF Counter
<1> HIDE DEF cnt
<1>13. ram' \in [KeySlots -> Counter] /\ \A k \in KeySlots : ram'[k] = cnt(k)
  BY <1>1, <1>12
<1>14. used' \in [KeySlots -> Nat] /\ late' \in [KeySlots -> Nat] /\ lapsed' \subseteq KeySlots
  BY <1>1, <1>2, TypeParts
<1>15. KeysTypeOK'
  <2>1. trouble' \in Nat /\ known' \subseteq Devices /\ mine' \subseteq Devices
    BY <1>1, TypeParts
  <2>2. loaded' \in BOOLEAN /\ tcLoaded' \in BOOLEAN /\ shifted' \in BOOLEAN
    BY <1>1
  <2> QED
    BY <1>1, <1>6, <1>8, <1>11, <1>13, <1>14, <2>1, <2>2, TypeParts, TypeFrom
<1>16. NvApart' /\ LateIsPending'
  BY <1>1 DEF NvApart, LateIsPending, KeysInv
<1>17. FreeHasNone'
  <2>1. Nobody \notin Devices
    BY NobodyAssumption
  <2> QED
    BY <1>4, <1>5, <1>7, <2>1 DEF FreeHasNone
<1>18. \A x \in 1 .. n : ~shifted' => nvTable[x].keyNvId \in {0, x}
  BY <1>1
<1>19. OwnSlots'
  BY <1>7, <1>18 DEF OwnSlots
<1>20. ASSUME NEW k \in KeySlots, SlotOK(k), ~leftover PROVE SlotOK(k)'
  <2> DEFINE M == MaxChanges
             was == nvKeys[k].tx
  <2>1. used[k] \in Nat /\ was \in Nat /\ M \in Nat /\ nvKeys'[k].tx = key(k).tx
    BY <1>2, <1>10, <1>11
  <2>2. k # 0 \/ restored => used'[k] = used[k] /\ (late[k] > 1 \/ k \in lapsed => k \in lapsed')
    BY <1>1, <1>2
  <2>3. CASE k = 0 /\ ~restored
    <3>1. used'[k] = 0 /\ nvKeys'[k].tx = 0 /\ ram'[k].tx = 0 /\ ~ram'[k].pending
      BY <1>1, <1>2, <1>10, <1>11, <1>12, <1>13, <2>3
    <3>2. Covered(k)'
      BY <2>1, <3>1 DEF Covered
    <3>3. Ahead(k)'
      BY <3>1 DEF Ahead
    <3> QED
      BY <3>2, <3>3 DEF SlotOK
  <2>4. CASE ((k = 0 /\ restored) \/ k \in back) /\ (k = 0 \/ nvKeys[k].owner # Nobody)
    <3>1. nvKeys'[k].tx = was + M + 1 /\ ram'[k].tx = was + M + 1 /\ ~ram'[k].pending
      BY <1>10, <1>11, <1>12, <1>13, <2>4
    <3>2. used[k] <= was + M + 1 \/ late[k] > 1 \/ k \in lapsed
      BY <1>20, <2>4 DEF SlotOK, Covered
    <3>3. used'[k] = used[k] /\ (used[k] <= was + M + 1 \/ k \in lapsed')
      BY <1>9, <2>2, <2>4, <3>2
    <3> HIDE DEF was, M
    <3>4. Covered(k)'
      BY <2>1, <3>1, <3>3 DEF Covered, M
    <3>5. Ahead(k)'
      BY <2>1, <3>1, <3>3 DEF Ahead
    <3> QED
      BY <3>4, <3>5 DEF SlotOK
  <2>5. CASE k # 0 /\ k \notin back /\ nvKeys[k].owner # Nobody
    <3>1. ~InUse(k)' /\ ~ram'[k].pending
      BY <1>9, <1>12, <1>13, <2>5 DEF InUse
    <3>2. used[k] <= was + M + 1 \/ late[k] > 1 \/ k \in lapsed
      BY <1>20, <2>5 DEF SlotOK, Covered
    <3>3. Covered(k)'
      BY <1>10, <1>11, <2>2, <2>5, <3>2 DEF Covered
    <3> QED
      BY <3>1, <3>3 DEF SlotOK
  <2>6. CASE k # 0 /\ nvKeys[k].owner = Nobody
    BY <1>10, <1>11, <2>6 DEF SlotOK
  <2> QED
    BY <2>3, <2>4, <2>5, <2>6
<1>21. Counted'
  BY <1>1, <1>20 DEF Counted, KeysInv
<1>22. MineKept'
  <2> SUFFICES ASSUME ~leftover', ~shifted', NEW d \in mine' PROVE Kept(d)'
    BY DEF MineKept
  <2>1. restored /\ d \in mine /\ ~leftover /\ ~shifted
    BY <1>1
  <2>2. Kept(d)
    BY <2>1 DEF MineKept, KeysInv
  <2>3. PICK e \in Indices :
            /\ nvKeys[e].owner = d
            /\ \E x \in DOMAIN nvTable : nvTable[x] = [ami |-> d, keyNvId |-> e, option |-> TRUE]
    BY <2>2 DEF Kept
  <2>4. PICK x \in DOMAIN nvTable : nvTable[x] = [ami |-> d, keyNvId |-> e, option |-> TRUE]
    BY <2>3
  <2>5. x \in 1 .. n
    BY <1>3, <2>1
  <2>6. nvTable[x].ami = d /\ nvTable[x].keyNvId = e /\ nvTable[x].option = TRUE
    BY <2>4
  <2>7. x = e
    BY <1>2, <1>18, <2>5, <2>6
  <2>8. t'.ami[e] = d /\ keyNvId'[e] = e /\ option'[e]
    BY <1>7, <2>5, <2>6, <2>7
  <2>9. nvKeys'[e].owner = d
    BY <1>2, <1>10, <1>11, <2>3
  <2> QED
    BY <1>1, <2>3, <2>8, <2>9 DEF Kept
<1> QED
  BY <1>6, <1>15, <1>16, <1>17, <1>19, <1>21, <1>22 DEF KeysInv

LEMMA KeysInitially ==
    KeysInit => KeysInv
<1> SUFFICES ASSUME KeysInit PROVE KeysInv
  OBVIOUS
<1> DEFINE none == [d \in Devices |-> Nowhere]
           free == [i \in Indices |-> Nobody]
<1>1. 0 \in KeySlots /\ 1 \in Indices /\ Size \in Nat
  BY SizeAssumption DEF KeySlots, Indices
<1>2. TableOK(t) /\ t.ami = free
  <2>1. t = [addr |-> none, ctrl |-> CtrlInit, ami |-> free]
    BY DEF KeysInit
  <2>2. CtrlInit \in [Indices -> [state : CtrlStates, entry : Indices, cntr : Nat,
                                  parent : Parents \cup {Nowhere}, secure : BOOLEAN]]
    BY <1>1 DEF CtrlInit, CtrlStates
  <2>3. none \in [Devices -> Addrs \cup {Nowhere}] /\ free \in [Indices -> Devices \cup {Nobody}]
    OBVIOUS
  <2>4. \A i \in Indices : free[i] = Nobody
    OBVIOUS
  <2> HIDE DEF none, free
  <2>5. t \in Table /\ t.ami = free /\ t.ctrl = CtrlInit
    BY <2>1, <2>2, <2>3 DEF Table
  <2> QED
    BY <2>4, <2>5 DEF TableOK, EntriesSound
<1>3. /\ nvKeys = [k \in KeySlots |-> NoKey] /\ NoKey \in NvKey /\ NoKey.tx = 0
      /\ ram = [k \in KeySlots |-> [tx |-> 0, rx |-> 0, pending |-> FALSE]]
      /\ used = [k \in KeySlots |-> 0] /\ late = [k \in KeySlots |-> 0] /\ lapsed = {}
      /\ keyNvId = [i \in Indices |-> 0] /\ option = [i \in Indices |-> FALSE]
      /\ nvTable = <<>> /\ mine = {} /\ leftover = FALSE /\ shifted = FALSE
      /\ known = {} /\ masters = {} /\ loaded = FALSE /\ tcLoaded = FALSE /\ events = {}
      /\ calls \in 0 .. MaxCalls /\ framesLeft = MaxFrames + (MaxCalls - calls)
      /\ trouble = MaxTrouble
  BY DEF KeysInit, NoKey, NvKey
<1>4. /\ nvKeys \in [KeySlots -> NvKey] /\ ram \in [KeySlots -> Counter]
      /\ used \in [KeySlots -> Nat] /\ late \in [KeySlots -> Nat] /\ lapsed \subseteq KeySlots
      /\ keyNvId \in [Indices -> KeySlots] /\ option \in [Indices -> BOOLEAN]
      /\ nvTable \in Seq(NvEntry) /\ Len(nvTable) = 0 /\ DOMAIN nvTable = {}
  BY <1>1, <1>3 DEF Counter
<1>5. KeysTypeOK
  <2>1. /\ t \in Table /\ keyNvId \in [Indices -> KeySlots] /\ option \in [Indices -> BOOLEAN]
        /\ \A S \in {masters, mine, known} : S \subseteq Devices
    BY <1>2, <1>3, <1>4 DEF TableOK
  <2>2. {loaded, tcLoaded, leftover, shifted} \subseteq BOOLEAN
    BY <1>3
  <2>3. nvTable \in Seq([ami : Devices, keyNvId : KeySlots, option : BOOLEAN]) /\ Len(nvTable) <= Size
    BY <1>1, <1>4 DEF NvEntry
  <2>4. /\ nvKeys \in [KeySlots -> [owner : Devices \cup {Nobody}, tx : Nat, rx : Nat]]
        /\ ram \in [KeySlots -> [tx : Nat, rx : Nat, pending : BOOLEAN]]
    BY <1>4 DEF NvKey, Counter
  <2>5. calls \in Nat /\ framesLeft \in Nat /\ trouble \in Nat
        /\ events \subseteq {"APS_FRAMECOUNTER", "TCLK_FRAMECOUNTER"}
    BY <1>3, KeysAssumption
  <2> QED
    BY <1>4, <2>1, <2>2, <2>3, <2>4, <2>5 DEF KeysTypeOK
<1>6. \A k \in KeySlots : Covered(k) /\ Ahead(k)
  BY <1>3, KeysAssumption DEF Covered, Ahead
<1>7. Counted
  BY <1>6 DEF Counted, SlotOK
<1>8. NvApart /\ LateIsPending /\ FreeHasNone /\ OwnSlots /\ MineKept
  BY <1>3, <1>4 DEF NvApart, LateIsPending, FreeHasNone, OwnSlots, MineKept
<1> QED
  BY <1>2, <1>5, <1>7, <1>8 DEF KeysInv

\* Every step keeps the invariant.
LEMMA KeysStep ==
    KeysInv /\ [KeysNext]_keysVars => KeysInv'
<1> SUFFICES ASSUME KeysInv, [KeysNext]_keysVars PROVE KeysInv'
  OBVIOUS
<1>1. ASSUME NEW d \in Devices, NEW a \in Addrs \ {TrustCenterAddr}, NEW heap \in BOOLEAN,
             AddLinkKey(d, a, heap) \/ EstablishKeyInd(d, a, heap)
      PROVE  KeysInv'
  BY <1>1, StepAddLinkKey, StepEstablishKey
<1>2. ASSUME NEW d \in Devices, NEW heap \in BOOLEAN, DeviceRemoveByExtAddr(d, heap)
      PROVE  KeysInv'
  BY <1>2, StepDeviceRemove
<1>3. ASSUME NEW d \in Devices, LinkKeyLoad(d) PROVE KeysInv'
  <2> DEFINE e == EntryLookupExt(t, d)
  <2>1. e # 0 /\ keyNvId[e] # 0 /\ Count(keyNvId[e], "APS_FRAMECOUNTER")
    BY <1>3 DEF LinkKeyLoad
  <2>2. e \in Indices
    BY <2>1, FoundByDevice DEF EntryLookupExt
  <2> HIDE DEF e
  <2>3. keyNvId[e] \in KeySlots /\ InUse(keyNvId[e])
    BY <2>2, TypeParts DEF InUse
  <2> QED
    BY <2>1, <2>3, StepCount
<1>4. CASE TCLinkKeyLoad
  <2>1. 0 \in KeySlots /\ InUse(0)
    BY SizeAssumption DEF KeySlots, InUse
  <2> QED
    BY <1>4, <2>1, StepCount DEF TCLinkKeyLoad
<1>5. CASE SaveApsLinkKey
  <2>1. Save(Indices) /\ Indices \in SUBSET KeySlots /\ events' \subseteq events
    BY <1>5 DEF SaveApsLinkKey, Indices, KeySlots
  <2> QED
    BY <2>1, StepSave, TypeParts
<1>6. CASE SaveTCLinkKey
  <2>1. Save({0}) /\ {0} \in SUBSET KeySlots /\ events' = {}
    BY <1>6, SizeAssumption DEF SaveTCLinkKey, KeySlots
  <2> QED
    BY <2>1, StepSave
<1>7. CASE UNCHANGED keysVars
  <2>1. /\ t' = t /\ calls' = calls /\ known' = known /\ loaded' = loaded /\ tcLoaded' = tcLoaded
        /\ UNCHANGED <<keyNvId, option, masters, nvTable, nvKeys, ram, events, history, framesLeft, trouble>>
    BY <1>7 DEF keysVars, tables, keys, stored, bounds
  <2>2. TableOK(t') /\ t'.ami = t.ami
    BY <2>1 DEF KeysInv
  <2> QED
    BY <2>1, <2>2, TypeParts, StepElsewhere
<1> QED
  BY <1>1, <1>2, <1>3, <1>4, <1>5, <1>6, <1>7, StepTransportKey, StepSync, StepRestart DEF KeysNext

LEMMA KeysInvSound ==
    KeysInv => LinkKeysSound
<1> SUFFICES ASSUME KeysInv PROVE LinkKeysSound
  OBVIOUS
<1>1. EntriesApart
  BY DEF KeysInv, TableOK, EntriesApart
<1>2. KeysKept
  <2> SUFFICES ASSUME ~leftover, ~shifted, NEW d \in mine
               PROVE  LET e == EntryLookupExt(t, d) IN
                      e /= 0 /\ keyNvId[e] = e /\ option[e] /\ nvKeys[e].owner = d
    BY DEF KeysKept
  <2>1. d \in Devices /\ d # Nobody /\ Kept(d)
    BY TypeParts, NobodyAssumption DEF MineKept, KeysInv
  <2>2. PICK e \in Indices : t.ami[e] = d /\ keyNvId[e] = e /\ option[e] /\ nvKeys[e].owner = d
    BY <2>1 DEF Kept
  <2>3. EntryLookupExt(t, d) = e /\ e # 0
    BY <2>1, <2>2, FoundByDevice DEF EntryLookupExt, EntriesSound, TableOK, KeysInv, Indices
  <2> QED
    BY <2>2, <2>3
<1>3. NeverReused
  <2> SUFFICES ASSUME ~leftover, NEW k \in KeySlots,
                      k = 0 \/ \E e \in Indices : keyNvId[e] = k /\ t.ami[e] = nvKeys[k].owner
               PROVE  ram[k].tx >= used[k] \/ k \in lapsed
    BY DEF NeverReused
  <2>1. InUse(k)
    BY DEF InUse
  <2>2. k = 0 \/ nvKeys[k].owner # Nobody
    BY DEF FreeHasNone, KeysInv
  <2>3. SlotOK(k) /\ used[k] \in Nat /\ ram[k].tx \in Nat
    BY TypeParts DEF Counted, KeysInv, Counter
  <2>4. used[k] <= ram[k].tx \/ k \in lapsed
    BY <2>1, <2>2, <2>3 DEF SlotOK, Ahead
  <2> QED
    BY <2>3, <2>4
<1> QED
  BY <1>1, <1>2, <1>3 DEF LinkKeysSound

\* A partner whose link key was established is found with that key, no partner
\* has two entries, and no frame counter is used twice with a key, over any
\* number of keys that come and go, frames and restarts (ZDSecMgr.c).
THEOREM LinkKeysAreSound == KeysSpec => []LinkKeysSound
<1>1. KeysSpec => []KeysInv
  BY KeysInitially, KeysStep, PTL DEF KeysSpec
<1>2. QED
  BY <1>1, KeysInvSound, PTL
=============================================================================
