---------------------------- MODULE TimerProofs ----------------------------
(***************************************************************************)
(* Proofs about Timer, for every width of a half, every quantum and every  *)
(* bound on the clock.                                                     *)
(***************************************************************************)
EXTENDS Timer, TLAPS

Callers == {"timer_reset", "gettime"}

\* Every variable has the type of its declaration.
TypeOK ==
    /\ mtime \in Nat /\ mtime <= MaxTime /\ mtimecmp \in Nat
    /\ pc \in {"idle", "read_high", "read_low", "read_again",
               "set_low", "set_high"} \cup Callers
    /\ caller \in Callers
    /\ high \in Nat /\ low \in Nat /\ time \in Nat /\ last_time \in Nat
    /\ began \in Nat /\ armed \in Nat

\* What gettime returned last was current before the call that is under way.
InOrder ==
    /\ began <= mtime /\ armed <= began /\ last_time <= mtime
    /\ pc # "idle" => last_time <= began

\* The halves that mtime_get has read were current when it read them.
HalvesRead ==
    /\ pc = "read_low" => \E t \in began .. mtime : high = t \div HALF
    /\ pc = "read_again" =>
          \E t \in began .. mtime : low = t % HALF /\ high <= t \div HALF
    /\ pc \in Callers => began <= time /\ time <= mtime

\* While timer_reset writes mtimecmp, its high half is the largest there is.
Deadline ==
    IF pc \in {"set_low", "set_high"}
    THEN /\ armed + QUANTUM <= time /\ time <= MaxTime + QUANTUM
         /\ mtimecmp \div HALF = HALF - 1
         /\ pc = "set_high" => mtimecmp % HALF = time % HALF
    ELSE armed + QUANTUM <= mtimecmp

\* The inductive invariant.
Inv == TypeOK /\ InOrder /\ HalvesRead /\ Deadline

-----------------------------------------------------------------------------
(***************************************************************************)
(* Halves of a number.                                                     *)
(***************************************************************************)
\* Multiples of HALF are in order.
LEMMA Multiples ==
    ASSUME NEW a \in Nat, NEW b \in Nat
    PROVE  /\ a * HALF \in Nat
           /\ a < b => a * HALF + HALF <= b * HALF
<1>1. HALF \in Nat BY TimerAssumption
<1>2. a * HALF \in Nat BY <1>1
<1>3. ASSUME a < b PROVE a * HALF + HALF <= b * HALF
  <2>1. PICK d \in Nat : b = a + 1 + d
    <3>1. b - a - 1 \in Nat /\ b = a + 1 + (b - a - 1) BY <1>3
    <3> QED BY <3>1
  <2>2. b * HALF = a * HALF + HALF + d * HALF BY <1>1, <2>1
  <2>3. d * HALF \in Nat BY <1>1
  <2> QED BY <1>1, <1>2, <2>2, <2>3
<1> QED BY <1>2, <1>3

\* A number is made of its halves.
LEMMA Halves ==
    ASSUME NEW n \in Nat
    PROVE  /\ n \div HALF \in Nat /\ n % HALF \in Nat /\ n % HALF < HALF
           /\ n = (n \div HALF) * HALF + (n % HALF)
<1>1. HALF \in Nat /\ HALF > 0 BY TimerAssumption
<1> QED BY <1>1

\* Two halves make a number that has them.
LEMMA Joined ==
    ASSUME NEW a \in Nat, NEW b \in Nat, b < HALF
    PROVE  (a * HALF + b) \div HALF = a /\ (a * HALF + b) % HALF = b
<1> DEFINE n == a * HALF + b
<1>1. HALF \in Nat BY TimerAssumption
<1>2. n \in Nat BY <1>1, Multiples
<1> HIDE DEF n
<1>3. PICK d \in Nat, r \in Nat :
         d = n \div HALF /\ r = n % HALF /\ r < HALF /\ n = d * HALF + r
  BY <1>2, Halves
<1>4. a * HALF \in Nat /\ d * HALF \in Nat BY Multiples
<1>5. ~ (d < a)
  <2>1. d < a => d * HALF + HALF <= a * HALF BY Multiples
  <2> QED BY <1>1, <1>3, <1>4, <2>1 DEF n
<1>6. ~ (a < d)
  <2>1. a < d => a * HALF + HALF <= d * HALF BY Multiples
  <2> QED BY <1>1, <1>3, <1>4, <2>1 DEF n
<1>7. a = d BY <1>5, <1>6
<1>8. b = r
  <2>1. a * HALF = d * HALF BY <1>7
  <2> QED BY <1>3, <1>4, <2>1, SMTT(30) DEF n
<1> QED BY <1>3, <1>7, <1>8 DEF n

\* The high half grows with the number.
LEMMA HighGrows ==
    ASSUME NEW m \in Nat, NEW n \in Nat, m <= n
    PROVE  m \div HALF <= n \div HALF
<1>1. PICK a \in Nat, b \in Nat :
         a = m \div HALF /\ b = m % HALF /\ m = a * HALF + b
  BY Halves
<1>2. PICK c \in Nat, d \in Nat :
         c = n \div HALF /\ d < HALF /\ n = c * HALF + d
  BY Halves
<1>3. HALF \in Nat BY TimerAssumption
<1>4. c < a => c * HALF + HALF <= a * HALF BY Multiples
<1>5. a * HALF \in Nat /\ c * HALF \in Nat BY Multiples
<1> QED BY <1>1, <1>2, <1>3, <1>4, <1>5

-----------------------------------------------------------------------------
(***************************************************************************)
(* The invariant.                                                          *)
(***************************************************************************)
\* The clock never reaches a deadline whose high half is the largest.
LEMMA FarAway ==
    ASSUME Inv, mtimecmp \div HALF = HALF - 1
    PROVE  mtime < mtimecmp
<1>1. HALF \in Nat /\ HALF - 1 \in Nat /\ QUANTUM \in Nat /\ MaxTime \in Nat
      /\ MaxTime + QUANTUM < HALF * (HALF - 1)
  BY TimerAssumption
<1>2. mtime \in Nat /\ mtime <= MaxTime /\ mtimecmp \in Nat BY DEF Inv, TypeOK
<1>3. PICK x \in Nat : x = HALF * (HALF - 1) BY <1>1
<1>4. (HALF - 1) * HALF = x BY <1>1, <1>3
<1>5. PICK r \in Nat : mtimecmp = x + r
  <2>1. mtimecmp % HALF \in Nat
        /\ mtimecmp = (mtimecmp \div HALF) * HALF + (mtimecmp % HALF)
    BY <1>2, Halves
  <2> QED BY <1>4, <2>1
<1> QED BY <1>1, <1>2, <1>3, <1>5

\* The invariant holds when the system boots.
LEMMA InvInit == Init => Inv
BY TimerAssumption
   DEF Init, Inv, TypeOK, InOrder, HalvesRead, Deadline, Callers

\* A tick of the clock preserves it: what was read stays in the past.
LEMMA InvTick ==
    ASSUME Inv, tick
    PROVE  Inv'
<1> USE TimerAssumption
<1>1. /\ mtime \in Nat /\ mtime < MaxTime /\ mtime' = mtime + 1
      /\ UNCHANGED <<mtimecmp, pc, caller, high, low, time, last_time, began, armed>>
  BY DEF tick, Inv, TypeOK
<1>2. TypeOK' BY <1>1 DEF Inv, TypeOK
<1>3. InOrder' BY <1>1 DEF Inv, InOrder, TypeOK
<1>4. began .. mtime \subseteq began .. mtime' BY <1>1 DEF Inv, TypeOK
<1>5. HalvesRead'
  <2>1. ASSUME pc = "read_low" PROVE \E t \in began .. mtime' : high = t \div HALF
    BY <1>4, <2>1 DEF Inv, HalvesRead
  <2>2. ASSUME pc = "read_again"
        PROVE  \E t \in began .. mtime' : low = t % HALF /\ high <= t \div HALF
    BY <1>4, <2>2 DEF Inv, HalvesRead
  <2>3. ASSUME pc \in Callers PROVE began <= time /\ time <= mtime'
    BY <1>1, <2>3 DEF Inv, HalvesRead, TypeOK
  <2> QED BY <1>1, <2>1, <2>2, <2>3 DEF HalvesRead
<1>6. Deadline' BY <1>1 DEF Inv, Deadline
<1> QED BY <1>2, <1>3, <1>5, <1>6 DEF Inv

\* So does a call.
LEMMA InvCall ==
    ASSUME Inv, NEW who \in Callers, call(who)
    PROVE  Inv'
<1>1. /\ pc = "idle" /\ pc' = "read_high" /\ caller' = who /\ began' = mtime
      /\ UNCHANGED <<mtime, mtimecmp, high, low, time, last_time, armed>>
  BY DEF call
<1>2. TypeOK' BY <1>1 DEF Inv, TypeOK
<1>3. InOrder' BY <1>1 DEF Inv, InOrder, TypeOK
<1>4. HalvesRead' BY <1>1 DEF HalvesRead, Callers
<1>5. Deadline' BY <1>1 DEF Inv, Deadline
<1> QED BY <1>2, <1>3, <1>4, <1>5 DEF Inv

\* Reading the high half preserves it.
LEMMA InvReadHigh ==
    ASSUME Inv, read_high
    PROVE  Inv'
<1>1. /\ pc = "read_high" /\ pc' = "read_low" /\ high' = mtime \div HALF
      /\ UNCHANGED <<mtime, mtimecmp, caller, low, time, last_time, began, armed>>
  BY DEF read_high, Constant
<1>2. mtime \in Nat /\ began \in Nat /\ began <= mtime
  BY DEF Inv, TypeOK, InOrder
<1>3. mtime \div HALF \in Nat BY <1>2, Halves
<1>4. TypeOK' BY <1>1, <1>3 DEF Inv, TypeOK
<1>5. InOrder' BY <1>1 DEF Inv, InOrder
<1>6. HalvesRead'
  <2>1. mtime \in began .. mtime BY <1>2
  <2>2. \E t \in began .. mtime : high' = t \div HALF BY <1>1, <2>1
  <2> QED BY <1>1, <2>2 DEF HalvesRead, Callers
<1>7. Deadline' BY <1>1 DEF Inv, Deadline
<1> QED BY <1>4, <1>5, <1>6, <1>7 DEF Inv

\* Reading the low half preserves it: the high half was read before.
LEMMA InvReadLow ==
    ASSUME Inv, read_low
    PROVE  Inv'
<1>1. /\ pc = "read_low" /\ pc' = "read_again" /\ low' = mtime % HALF
      /\ UNCHANGED <<mtime, mtimecmp, caller, high, time, last_time, began, armed>>
  BY DEF read_low, Constant
<1>2. mtime \in Nat /\ began \in Nat /\ began <= mtime
  BY DEF Inv, TypeOK, InOrder
<1>3. mtime % HALF \in Nat BY <1>2, Halves
<1>4. TypeOK' BY <1>1, <1>3 DEF Inv, TypeOK
<1>5. InOrder' BY <1>1 DEF Inv, InOrder
<1>6. HalvesRead'
  <2>1. PICK t \in began .. mtime : high = t \div HALF
    BY <1>1 DEF Inv, HalvesRead
  <2>2. t \in Nat /\ t <= mtime BY <1>2
  <2>3. high <= mtime \div HALF BY <1>2, <2>1, <2>2, HighGrows
  <2>4. mtime \in began .. mtime BY <1>2
  <2>5. \E s \in began .. mtime : low' = s % HALF /\ high <= s \div HALF
    BY <1>1, <2>3, <2>4
  <2> QED BY <1>1, <2>5 DEF HalvesRead, Callers
<1>7. Deadline' BY <1>1 DEF Inv, Deadline
<1> QED BY <1>4, <1>5, <1>6, <1>7 DEF Inv

\* When the high half has not changed, both halves are those of one moment.
LEMMA InvReadAgain ==
    ASSUME Inv, read_again
    PROVE  Inv'
<1>1. /\ pc = "read_again"
      /\ UNCHANGED <<mtime, mtimecmp, caller, high, low, last_time, began, armed>>
  BY DEF read_again, Constant
<1>2. /\ mtime \in Nat /\ began \in Nat /\ began <= mtime /\ high \in Nat
      /\ caller \in Callers
  BY DEF Inv, TypeOK, InOrder
<1>3. Deadline'
  <2>1. pc' \notin {"set_low", "set_high"} BY <1>2 DEF read_again, Callers
  <2>2. armed + QUANTUM <= mtimecmp BY <1>1 DEF Inv, Deadline
  <2> QED BY <1>1, <2>1, <2>2 DEF Deadline
<1>4. InOrder' BY <1>1 DEF Inv, InOrder
<1>5. CASE pc' = "read_high" /\ UNCHANGED time
  <2>1. TypeOK' BY <1>1, <1>5 DEF Inv, TypeOK
  <2>2. HalvesRead' BY <1>5 DEF HalvesRead, Callers
  <2> QED BY <1>3, <1>4, <2>1, <2>2 DEF Inv
<1>6. CASE mtime \div HALF = high /\ time' = high * HALF + low /\ pc' = caller
  <2>1. PICK t \in began .. mtime : low = t % HALF /\ high <= t \div HALF
    BY <1>1 DEF Inv, HalvesRead
  <2>2. t \in Nat /\ began <= t /\ t <= mtime BY <1>2
  <2>3. t \div HALF <= mtime \div HALF BY <1>2, <2>2, HighGrows
  <2>4. t \div HALF \in Nat /\ t = (t \div HALF) * HALF + (t % HALF)
    BY <2>2, Halves
  <2>5. t \div HALF = high BY <1>2, <1>6, <2>1, <2>3, <2>4
  <2>6. time' = t BY <1>6, <2>1, <2>4, <2>5
  <2>7. TypeOK' BY <1>1, <1>2, <1>6, <2>2, <2>6 DEF Inv, TypeOK
  <2>8. HalvesRead' BY <1>1, <1>2, <1>6, <2>2, <2>6 DEF HalvesRead, Callers
  <2> QED BY <1>3, <1>4, <2>7, <2>8 DEF Inv
<1> QED BY <1>5, <1>6 DEF read_again

\* The first write of mtimecmp_set puts the deadline out of reach.
LEMMA InvMtimecmpSet ==
    ASSUME Inv, mtimecmp_set
    PROVE  Inv'
<1>1. /\ pc = "timer_reset" /\ pc' = "set_low"
      /\ mtimecmp' = (HALF - 1) * HALF + (mtimecmp % HALF)
      /\ time' = time + QUANTUM /\ armed' = began
      /\ UNCHANGED <<mtime, caller, high, low, last_time, began>>
  BY DEF mtimecmp_set, Rest
<1>2. HALF - 1 \in Nat /\ QUANTUM \in Nat /\ MaxTime \in Nat BY TimerAssumption
<1>3. /\ mtimecmp \in Nat /\ mtime \in Nat /\ mtime <= MaxTime /\ began \in Nat
      /\ time \in Nat /\ began <= time /\ time <= mtime
  BY <1>1 DEF Inv, TypeOK, HalvesRead, Callers
<1>4. mtimecmp % HALF \in Nat /\ mtimecmp % HALF < HALF BY <1>3, Halves
<1>5. mtimecmp' \div HALF = HALF - 1 BY <1>1, <1>2, <1>4, Joined
<1>6. (HALF - 1) * HALF \in Nat BY <1>2, Multiples
<1>7. mtimecmp' \in Nat BY <1>1, <1>4, <1>6
<1>8. TypeOK' BY <1>1, <1>2, <1>3, <1>7 DEF Inv, TypeOK
<1>9. InOrder' BY <1>1, <1>3 DEF Inv, InOrder
<1>10. HalvesRead' BY <1>1 DEF HalvesRead, Callers
<1>11. armed' + QUANTUM <= time' /\ time' <= MaxTime + QUANTUM
  BY <1>1, <1>2, <1>3
<1>12. Deadline' BY <1>1, <1>5, <1>11 DEF Deadline
<1> QED BY <1>8, <1>9, <1>10, <1>12 DEF Inv

\* The second leaves it there.
LEMMA InvSetLow ==
    ASSUME Inv, set_low
    PROVE  Inv'
<1>1. /\ pc = "set_low" /\ pc' = "set_high"
      /\ mtimecmp' = (mtimecmp \div HALF) * HALF + (time % HALF)
      /\ UNCHANGED <<mtime, caller, high, low, last_time, began, time, armed>>
  BY DEF set_low, Rest
<1>2. HALF - 1 \in Nat BY TimerAssumption
<1>3. /\ time \in Nat /\ mtimecmp \div HALF = HALF - 1
      /\ armed + QUANTUM <= time /\ time <= MaxTime + QUANTUM
  BY <1>1 DEF Inv, TypeOK, Deadline
<1>4. time % HALF \in Nat /\ time % HALF < HALF BY <1>3, Halves
<1>5. mtimecmp' \div HALF = HALF - 1 /\ mtimecmp' % HALF = time % HALF
  BY <1>1, <1>2, <1>3, <1>4, Joined
<1>6. (HALF - 1) * HALF \in Nat BY <1>2, Multiples
<1>7. mtimecmp' \in Nat BY <1>1, <1>3, <1>4, <1>6
<1>8. TypeOK' BY <1>1, <1>7 DEF Inv, TypeOK
<1>9. InOrder' BY <1>1 DEF Inv, InOrder
<1>10. HalvesRead' BY <1>1 DEF HalvesRead, Callers
<1>11. Deadline' BY <1>1, <1>3, <1>5 DEF Deadline
<1> QED BY <1>8, <1>9, <1>10, <1>11 DEF Inv

\* The third makes it the new one.
LEMMA InvSetHigh ==
    ASSUME Inv, set_high
    PROVE  Inv'
<1>1. /\ pc = "set_high" /\ pc' = "idle"
      /\ mtimecmp' = (time \div HALF) * HALF + (mtimecmp % HALF)
      /\ UNCHANGED <<mtime, caller, high, low, last_time, began, time, armed>>
  BY DEF set_high, Rest
<1>2. /\ time \in Nat /\ mtimecmp % HALF = time % HALF /\ armed + QUANTUM <= time
  BY <1>1 DEF Inv, TypeOK, Deadline
<1>3. time = (time \div HALF) * HALF + (time % HALF) BY <1>2, Halves
<1>4. mtimecmp' = time BY <1>1, <1>2, <1>3
<1>5. TypeOK' BY <1>1, <1>2, <1>4 DEF Inv, TypeOK
<1>6. InOrder' BY <1>1 DEF Inv, InOrder
<1>7. HalvesRead' BY <1>1 DEF HalvesRead, Callers
<1>8. Deadline' BY <1>1, <1>2, <1>4 DEF Deadline
<1> QED BY <1>5, <1>6, <1>7, <1>8 DEF Inv

\* gettime preserves it.
LEMMA InvGettime ==
    ASSUME Inv, gettime
    PROVE  Inv'
<1>1. /\ pc = "gettime" /\ pc' = "idle" /\ last_time' = time
      /\ UNCHANGED <<mtime, mtimecmp, caller, high, low, time, began, armed>>
  BY DEF gettime
<1>2. TypeOK' BY <1>1 DEF Inv, TypeOK
<1>3. InOrder' BY <1>1 DEF Inv, InOrder, HalvesRead, Callers
<1>4. HalvesRead' BY <1>1 DEF HalvesRead, Callers
<1>5. Deadline' BY <1>1 DEF Inv, Deadline
<1> QED BY <1>2, <1>3, <1>4, <1>5 DEF Inv

\* The invariant holds in every reachable state.
THEOREM Invariance == Spec => []Inv
<1>1. Init => Inv BY InvInit
<1>2. Inv /\ [Next]_vars => Inv'
  <2> SUFFICES ASSUME Inv, [Next]_vars PROVE Inv' OBVIOUS
  <2>1. CASE UNCHANGED vars
    BY <2>1 DEF vars, Inv, TypeOK, InOrder, HalvesRead, Deadline
  <2>2. CASE \E who \in {"timer_reset", "gettime"} : call(who)
    BY <2>2, InvCall DEF Callers
  <2> QED BY <2>1, <2>2, InvTick, InvReadHigh, InvReadLow, InvReadAgain,
             InvMtimecmpSet, InvSetLow, InvSetHigh, InvGettime DEF Next
<1> QED BY <1>1, <1>2, PTL DEF Spec

\* mtime_get returns a moment between its call and its return, for every width
\* of the halves it reads, so the time never goes back in gettime.
THEOREM TimeCurrent == Spec => []TimeIsCurrent
<1>1. Inv => TimeIsCurrent
  <2> SUFFICES ASSUME Inv PROVE TimeIsCurrent OBVIOUS
  <2>1. pc \in Callers => began <= time /\ time <= mtime BY DEF Inv, HalvesRead
  <2>2. pc = "gettime" => last_time <= began BY DEF Inv, InOrder
  <2>3. last_time \in Nat /\ began \in Nat /\ time \in Nat BY DEF Inv, TypeOK
  <2> QED BY <2>1, <2>2, <2>3 DEF TimeIsCurrent, Callers
<1> QED BY <1>1, Invariance, PTL

\* A process has its QUANTUM: no interrupt is pending before, not even between
\* the three writes of mtimecmp_set.
THEOREM Quantum == Spec => []QuantumGuaranteed
<1>1. Inv => QuantumGuaranteed
  <2> SUFFICES ASSUME Inv, mtime >= mtimecmp PROVE mtime >= armed + QUANTUM
    BY DEF QuantumGuaranteed, MTIP
  <2>1. mtime \in Nat /\ mtimecmp \in Nat /\ armed \in Nat BY DEF Inv, TypeOK
  <2>2. mtimecmp \div HALF # HALF - 1 BY <2>1, FarAway
  <2>3. armed + QUANTUM <= mtimecmp BY <2>2 DEF Inv, Deadline
  <2> QED BY <2>1, <2>3, TimerAssumption
<1> QED BY <1>1, Invariance, PTL
=============================================================================
