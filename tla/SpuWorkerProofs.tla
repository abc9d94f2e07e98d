-------------------------- MODULE SpuWorkerProofs ---------------------------
(***************************************************************************)
(* Proofs about SpuWorker, for an array of any length, any voices and any  *)
(* reverb set-ups: type correctness, that the two threads never use a work *)
(* item, spu memory or the reverb set-up against each other, that slices   *)
(* are mixed in order and that the decoder states are never out of date.   *)
(***************************************************************************)
EXTENDS SpuWorker, WellFoundedInduction, SequenceTheorems, TLAPS

-----------------------------------------------------------------------------
(* Facts about remainders                                                  *)

(* Division, for a divisor that is not a number written out: the provers   *)
(* know a remainder only by its range and the equation.                    *)
LEMMA Euclid ==
  ASSUME NEW M \in Nat \ {0}, NEW a \in Int
  PROVE  a % M \in 0 .. M - 1 /\ a \div M \in Int /\ a = M * (a \div M) + (a % M)
BY SMTT(20)

(* A multiple that is less than the divisor is zero.                       *)
LEMMA SmallMultiple ==
  ASSUME NEW M \in Nat \ {0}, NEW q \in Int, M * q < M, -M < M * q
  PROVE  q = 0
<1>1. CASE q >= 1
  <2>1. M * q >= M
    BY <1>1, SMTT(20)
  <2>2. QED  BY <2>1
<1>2. CASE q <= -1
  <2>1. M * q <= -M
    BY <1>2, SMTT(20)
  <2>2. QED  BY <2>1
<1>3. QED  BY <1>1, <1>2

(* The remainder is the one number in range that the equation admits.      *)
LEMMA UniqueRemainder ==
  ASSUME NEW M \in Nat \ {0}, NEW a \in Int, NEW q \in Int, NEW r \in 0 .. M - 1,
         a = M * q + r
  PROVE  a % M = r
<1> DEFINE d == q - (a \div M)
<1>1. a % M \in 0 .. M - 1 /\ a \div M \in Int /\ a = M * (a \div M) + (a % M)
  BY Euclid
<1>2. M * d = (a % M) - r
  <2>1. M * d = M * q - M * (a \div M)
    BY <1>1, SMTT(20)
  <2>2. QED  BY <2>1, <1>1, SMTT(20)
<1>3. d \in Int /\ M * d < M /\ -M < M * d
  BY <1>1, <1>2
<1>4. d = 0
  <2> HIDE DEF d
  <2>1. QED  BY <1>3, SmallMultiple
<1>5. QED  BY <1>1, <1>2, <1>4

(* Adding at most the divisor wraps at most once.                          *)
LEMMA AddMod ==
  ASSUME NEW M \in Nat \ {0}, NEW a \in Int, NEW j \in 0 .. M
  PROVE  (a + j) % M = IF (a % M) + j >= M THEN (a % M) + j - M ELSE (a % M) + j
<1> DEFINE s == (a % M) + j
           q == a \div M
<1>1. a % M \in 0 .. M - 1 /\ q \in Int /\ a = M * q + (a % M)
  BY Euclid
<1>2. CASE s >= M
  <2>1. M * (q + 1) = M * q + M
    BY <1>1, SMTT(20)
  <2>2. s - M \in 0 .. M - 1 /\ q + 1 \in Int /\ a + j \in Int
    BY <1>1, <1>2
  <2>3. a + j = M * (q + 1) + (s - M)
    BY <2>1, <1>1, SMTT(20)
  <2>4. (a + j) % M = s - M
    <3> HIDE DEF s, q
    <3>1. QED  BY <2>2, <2>3, UniqueRemainder
  <2>5. QED  BY <2>4, <1>2
<1>3. CASE ~(s >= M)
  <2>1. s \in 0 .. M - 1 /\ a + j \in Int
    BY <1>1, <1>3
  <2>2. a + j = M * q + s
    BY <1>1, SMTT(20)
  <2>3. (a + j) % M = s
    <3> HIDE DEF s, q
    <3>1. QED  BY <2>1, <2>2, <1>1, UniqueRemainder
  <2>4. QED  BY <2>3, <1>3
<1>4. QED  BY <1>2, <1>3

-----------------------------------------------------------------------------
(* The counters of work items                                              *)

(* A counter goes up by one and wraps to zero, where it is back at slot 0. *)
LEMMA IncWraps ==
  ASSUME NEW n \in Counts
  PROVE  /\ Inc(n) = IF n + 1 = CntMod THEN 0 ELSE n + 1
         /\ Inc(n) \in Counts
         /\ SlotOf(n) \in Slots
         /\ SlotOf(Inc(n)) = IF SlotOf(n) + 1 = MaxCnt THEN 0 ELSE SlotOf(n) + 1
<1>1. CntMod \in Nat \ {0} /\ MaxCnt \in Nat \ {0} /\ CntMod % MaxCnt = 0 /\ n \in Int
      /\ 1 \in 0 .. MaxCnt /\ 1 \in 0 .. CntMod /\ n \in 0 .. CntMod - 1
  BY CntModAssumption, MaxCntAssumption DEF Counts
<1>2. n % CntMod = n
  <2>1. n = CntMod * 0 + n
    BY <1>1
  <2>2. QED  BY <2>1, <1>1, UniqueRemainder
<1>3. 0 % MaxCnt = 0
  <2>1. 0 = MaxCnt * 0 + 0 /\ 0 \in 0 .. MaxCnt - 1
    BY <1>1
  <2>2. QED  BY <2>1, <1>1, UniqueRemainder
<1>4. Inc(n) = IF n + 1 = CntMod THEN 0 ELSE n + 1
  <2>1. (n + 1) % CntMod = IF (n % CntMod) + 1 >= CntMod THEN (n % CntMod) + 1 - CntMod
                           ELSE (n % CntMod) + 1
    BY <1>1, AddMod
  <2>2. QED  BY <2>1, <1>1, <1>2 DEF Inc
<1>5. n % MaxCnt \in 0 .. MaxCnt - 1
  BY <1>1, Euclid
<1>6. (n + 1) % MaxCnt = IF (n % MaxCnt) + 1 >= MaxCnt THEN (n % MaxCnt) + 1 - MaxCnt
                         ELSE (n % MaxCnt) + 1
  BY <1>1, AddMod
<1>7. SlotOf(Inc(n)) = (n + 1) % MaxCnt
  <2>1. CASE n + 1 = CntMod
    BY <2>1, <1>1, <1>3, <1>4 DEF SlotOf
  <2>2. CASE n + 1 # CntMod
    BY <2>2, <1>4 DEF SlotOf
  <2>3. QED  BY <2>1, <2>2
<1>8. Inc(n) \in Counts
  BY <1>1, <1>4 DEF Counts
<1>9. QED  BY <1>1, <1>4, <1>5, <1>6, <1>7, <1>8 DEF SlotOf, Slots

(* Three counters that follow one another within the array's length: what  *)
(* one of them taking a step does to their distances.                      *)
LEMMA Distances ==
  ASSUME NEW r \in Counts, NEW d \in Counts, NEW p \in Counts,
         Diff(r, p) <= MaxCnt, Diff(d, p) <= Diff(r, p),
         Diff(r, d) = Diff(r, p) - Diff(d, p)
  PROVE  /\ Diff(r, p) \in Nat /\ Diff(d, p) \in Nat /\ Diff(r, d) \in Nat
         /\ Diff(r, p) < MaxCnt => /\ Diff(Inc(r), p) = Diff(r, p) + 1
                                  /\ Diff(Inc(r), d) = Diff(r, d) + 1
         /\ Diff(r, d) > 0 => /\ Diff(Inc(d), p) = Diff(d, p) + 1
                              /\ Diff(r, Inc(d)) = Diff(r, d) - 1
         /\ Diff(d, p) > 0 => /\ Diff(r, Inc(p)) = Diff(r, p) - 1
                              /\ Diff(d, Inc(p)) = Diff(d, p) - 1
<1>1. /\ Inc(r) = IF r + 1 = CntMod THEN 0 ELSE r + 1
      /\ Inc(d) = IF d + 1 = CntMod THEN 0 ELSE d + 1
      /\ Inc(p) = IF p + 1 = CntMod THEN 0 ELSE p + 1
  BY IncWraps
<1>2. MaxCnt \in Nat /\ CntMod \in Nat /\ MaxCnt < CntMod
  BY MaxCntAssumption, CntModAssumption
<1>3. r \in 0 .. CntMod - 1 /\ d \in 0 .. CntMod - 1 /\ p \in 0 .. CntMod - 1
  BY DEF Counts
<1>4. QED  BY <1>1, <1>2, <1>3 DEF Diff

(* The positions in the array, counted from the oldest item.               *)
LEMMA SlotArithmetic ==
  ASSUME TypeOK, CountInv
  PROVE  /\ Used \in 0 .. MaxCnt /\ Worked \in 0 .. Used /\ Left \in 0 .. Used
         /\ Used < CntMod /\ MaxCnt \in Nat \ {0}
         /\ SlotOf(i_reaped) \in Slots /\ SlotOf(i_reaped) = SlotAt(0)
         /\ \A k \in 0 .. MaxCnt - 1 : SlotAt(k) \in Slots
         /\ \A j, k \in 0 .. MaxCnt - 1 : SlotAt(j) = SlotAt(k) => j = k
         /\ SlotOf(i_ready) \in Slots /\ SlotOf(i_done) \in Slots
<1>1. MaxCnt \in Nat \ {0} /\ CntMod \in Nat /\ MaxCnt < CntMod
  BY MaxCntAssumption, CntModAssumption
<1>2. i_ready \in Counts /\ i_done \in Counts /\ i_reaped \in Counts
  BY DEF TypeOK
<1>3. SlotOf(i_reaped) \in Slots /\ SlotOf(i_ready) \in Slots /\ SlotOf(i_done) \in Slots
  BY <1>2, IncWraps
<1>4. Used \in Nat /\ Worked \in Nat /\ Left \in Nat
  BY <1>2, Distances DEF CountInv, Used, Worked, Left
<1>5. Used \in 0 .. MaxCnt /\ Worked \in 0 .. Used /\ Left \in 0 .. Used
  BY <1>1, <1>4 DEF CountInv
<1>6. /\ SlotOf(i_reaped) = SlotAt(0)
      /\ \A k \in 0 .. MaxCnt - 1 : SlotAt(k) \in Slots
      /\ \A j, k \in 0 .. MaxCnt - 1 : SlotAt(j) = SlotAt(k) => j = k
  BY <1>1, <1>3 DEF SlotAt, Slots
<1>7. QED  BY <1>1, <1>3, <1>5, <1>6

-----------------------------------------------------------------------------
(* Each part of Handover is kept by every step.                            *)
(* Only five actions touch the counters; turning the thread on or off      *)
(* leaves them or clears them.                                             *)
LEMMA CountersStill ==
  ASSUME [Next]_vars, ~Start, ~Count, ~Mix
  PROVE  UNCHANGED <<i_ready, i_done, i_reaped>> \/ (i_ready' = 0 /\ i_done' = 0 /\ i_reaped' = 0)
<1> USE DEF ring
<1>1. CASE UNCHANGED vars
  BY <1>1 DEF vars
<1>2. CASE MainCall
  BY <1>2 DEF MainCall, SamplesCall, DmaCall, LoadCall, Begin, KeyOn, KeyOff, RvbWrite,
     SwitchOn, SwitchOff, Fresh
<1>3. CASE MainStep
  BY <1>3 DEF MainStep, Sync, Reap, Prep, Direct, Queue, Ram, Load, PostExit, Join, Fresh
<1>4. CASE Thread
  BY <1>4 DEF Thread, Take, Woken, Work, Post, main
<1>5. QED  BY <1>1, <1>2, <1>3, <1>4 DEF Next

(* What the steps do to the numbers of items in use, worked and left.      *)
LEMMA CounterEffects ==
  ASSUME TypeOK, Handover
  PROVE  /\ Start => /\ Used' = Used + 1 /\ Worked' = Worked /\ Left' = Left + 1
                     /\ i_ready' = Inc(i_ready) /\ i_done' = i_done /\ i_reaped' = i_reaped
         /\ Count => /\ Used' = Used /\ Worked' = Worked + 1 /\ Left' = Left - 1
                     /\ i_ready' = i_ready /\ i_done' = Inc(i_done) /\ i_reaped' = i_reaped
         /\ Mix => /\ Used' = Used - 1 /\ Worked' = Worked - 1 /\ Left' = Left /\ Worked > 0
                   /\ i_ready' = i_ready /\ i_done' = i_done /\ i_reaped' = Inc(i_reaped)
         /\ UNCHANGED <<i_ready, i_done, i_reaped>> =>
              Used' = Used /\ Worked' = Worked /\ Left' = Left /\ SlotOf(i_done') = SlotOf(i_done)
              /\ SlotOf(i_ready') = SlotOf(i_ready) /\ \A k : SlotAt(k)' = SlotAt(k)
         /\ i_ready' = 0 /\ i_done' = 0 /\ i_reaped' = 0 => Used' = 0 /\ Worked' = 0 /\ Left' = 0
<1> DEFINE R == i_ready  D == i_done  P == i_reaped
<1>1. R \in Counts /\ D \in Counts /\ P \in Counts
  BY DEF TypeOK
<1>2. /\ Diff(R, P) <= MaxCnt /\ Diff(D, P) <= Diff(R, P)
      /\ Diff(R, D) = Diff(R, P) - Diff(D, P)
  BY DEF Handover, CountInv, Used, Worked, Left
<1>3. ASSUME Start
      PROVE  /\ Used' = Used + 1 /\ Worked' = Worked /\ Left' = Left + 1
             /\ i_ready' = Inc(i_ready) /\ i_done' = i_done /\ i_reaped' = i_reaped
  <2>1. i_ready' = Inc(R) /\ i_done' = D /\ i_reaped' = P /\ Diff(R, P) < MaxCnt
    BY <1>3 DEF Start, Handover, CallInv, Used
  <2>2. QED  BY <1>1, <1>2, <2>1, Distances DEF Used, Worked, Left
<1>4. ASSUME Count
      PROVE  /\ Used' = Used /\ Worked' = Worked + 1 /\ Left' = Left - 1
             /\ i_ready' = i_ready /\ i_done' = Inc(i_done) /\ i_reaped' = i_reaped
  <2>1. i_ready' = R /\ i_done' = Inc(D) /\ i_reaped' = P /\ Diff(R, D) > 0
    BY <1>4 DEF Count, main, Handover, SemInv, Left
  <2>2. QED  BY <1>1, <1>2, <2>1, Distances DEF Used, Worked, Left
<1>5. ASSUME Mix
      PROVE  /\ Used' = Used - 1 /\ Worked' = Worked - 1 /\ Left' = Left /\ Worked > 0
             /\ i_ready' = i_ready /\ i_done' = i_done /\ i_reaped' = Inc(i_reaped)
  <2>1. i_ready' = R /\ i_done' = D /\ i_reaped' = Inc(P) /\ Diff(D, P) > 0
    BY <1>5 DEF Mix, Handover, SemInv, Worked, One, TypeOK
  <2>2. QED  BY <1>1, <1>2, <2>1, Distances DEF Used, Worked, Left
<1>6. Diff(0, 0) = 0
  BY DEF Diff
<1>7. QED  BY <1>3, <1>4, <1>5, <1>6 DEF Used, Worked, Left, SlotAt, SlotOf

(* The counters follow one another, and the array is not overrun.          *)
LEMMA CountStep ==
  ASSUME TypeOK, Handover, [Next]_vars
  PROVE  CountInv'
<1> USE DEF Handover
<1>1. /\ Used \in 0 .. MaxCnt /\ Worked \in 0 .. Used /\ Left \in 0 .. Used
      /\ Left = Used - Worked /\ MaxCnt \in Nat \ {0}
      /\ SlotOf(i_ready) = SlotAt(Used) /\ SlotOf(i_done) = SlotAt(Worked)
  BY SlotArithmetic DEF CountInv
<1>2. /\ SlotOf(i_reaped) \in 0 .. MaxCnt - 1
      /\ \A n \in {i_ready, i_done, i_reaped} :
           SlotOf(Inc(n)) = IF SlotOf(n) + 1 = MaxCnt THEN 0 ELSE SlotOf(n) + 1
  BY IncWraps DEF Slots, TypeOK
<1>3. CASE Start
  <2>1. Used < MaxCnt
    BY <1>3 DEF Start, CallInv
  <2>2. SlotOf(i_ready') = SlotAt(Used)'
    <3>1. SlotOf(i_ready') = IF SlotOf(i_ready) + 1 = MaxCnt THEN 0 ELSE SlotOf(i_ready) + 1
      BY <1>2, <1>3, CounterEffects
    <3>2. Used' = Used + 1 /\ i_reaped' = i_reaped
      BY <1>3, CounterEffects
    <3>3. QED  BY <1>1, <1>2, <2>1, <3>1, <3>2 DEF SlotAt
  <2>3. SlotOf(i_done') = SlotAt(Worked)'
    BY <1>1, <1>3, CounterEffects DEF SlotAt
  <2>4. Used' <= MaxCnt /\ Worked' <= Used' /\ Left' = Used' - Worked'
    BY <1>1, <1>3, <2>1, CounterEffects
  <2>5. QED  BY <2>2, <2>3, <2>4 DEF CountInv
<1>4. CASE Count
  <2>1. Left > 0
    BY <1>4 DEF Count, SemInv
  <2>2. SlotOf(i_done') = SlotAt(Worked)'
    <3>1. SlotOf(i_done') = IF SlotOf(i_done) + 1 = MaxCnt THEN 0 ELSE SlotOf(i_done) + 1
      BY <1>2, <1>4, CounterEffects
    <3>2. Worked' = Worked + 1 /\ i_reaped' = i_reaped
      BY <1>4, CounterEffects
    <3>3. QED  BY <1>1, <1>2, <2>1, <3>1, <3>2 DEF SlotAt
  <2>3. SlotOf(i_ready') = SlotAt(Used)'
    BY <1>1, <1>4, CounterEffects DEF SlotAt
  <2>4. Used' <= MaxCnt /\ Worked' <= Used' /\ Left' = Used' - Worked'
    BY <1>1, <1>4, <2>1, CounterEffects
  <2>5. QED  BY <2>2, <2>3, <2>4 DEF CountInv
<1>5. CASE Mix
  BY <1>1, <1>2, <1>5, CounterEffects DEF CountInv, SlotAt
<1>6. CASE UNCHANGED <<i_ready, i_done, i_reaped>>
  BY <1>6, CounterEffects DEF CountInv, SlotAt
<1>7. CASE i_ready' = 0 /\ i_done' = 0 /\ i_reaped' = 0
  <2>1. 0 \in Counts
    BY <1>1, CntModAssumption DEF Counts
  <2>2. SlotOf(0) \in 0 .. MaxCnt - 1
    BY <2>1, IncWraps DEF Slots
  <2>3. QED  BY <1>1, <1>7, <2>2, CounterEffects DEF CountInv, SlotAt
<1>8. QED  BY <1>3, <1>4, <1>5, <1>6, <1>7, CountersStill

(* The semaphores, the thread's life and the calls.                        *)
LEMMA ControlStep ==
  ASSUME TypeOK, Handover, [Next]_vars
  PROVE  SemInv' /\ LifeInv' /\ CallInv'
<1> USE DEF Handover, SemInv, LifeInv, CallInv, One
<1>1. /\ Used \in 0 .. MaxCnt /\ Worked \in 0 .. Used /\ Left \in 0 .. Used
      /\ Left = Used - Worked /\ MaxCnt \in Nat \ {0}
  BY SlotArithmetic DEF CountInv
<1>2. /\ sem_avail \in Nat /\ sem_done \in Nat /\ op \in OpRecords
      /\ worker \in BOOLEAN /\ exit_thread \in BOOLEAN /\ useThread \in BOOLEAN
  BY DEF TypeOK
<1>3. UNCHANGED <<i_ready, i_done, i_reaped>> => Used' = Used /\ Worked' = Worked /\ Left' = Left
  BY CounterEffects
<1>4. CASE SamplesCall
  BY <1>1, <1>2, <1>3, <1>4 DEF SamplesCall, Call, Begin, ring, sems, life, reverb, OpRecords
<1>5. CASE DmaCall
  <2>1. PICK short \in BOOLEAN : Begin(TRUE, short, "ram")
    BY <1>5 DEF DmaCall
  <2>2. /\ op'.force = TRUE /\ mpc = "idle"
        /\ mpc' \in {"sync", "ram", "prep"} /\ (mpc' = "sync" <=> worker)
    BY <1>2, <1>5, <2>1 DEF DmaCall, Call, Begin
  <2>3. UNCHANGED <<ring, sems, life, reverb, tpc>>
    BY <2>1 DEF Begin
  <2>4. QED  BY <1>1, <1>2, <1>3, <2>2, <2>3 DEF ring, sems, life, reverb
<1>6. CASE LoadCall
  BY <1>1, <1>2, <1>3, <1>6 DEF LoadCall, Call, Begin, ring, sems, life, reverb, OpRecords
<1>7. CASE KeyOn
  BY <1>1, <1>2, <1>3, <1>7 DEF KeyOn, Call, ring, sems, life, reverb, OpRecords
<1>8. CASE KeyOff
  BY <1>1, <1>2, <1>3, <1>8 DEF KeyOff, Call, ring, sems, life, reverb, OpRecords
<1>9. CASE RvbWrite
  BY <1>1, <1>2, <1>3, <1>9 DEF RvbWrite, Call, ring, sems, life, OpRecords
<1>10. CASE SwitchOn
  BY <1>1, <1>2, <1>3, <1>10, CounterEffects DEF SwitchOn, Call, Fresh, ring, sems, reverb, OpRecords
<1>11. CASE SwitchOff
  BY <1>1, <1>2, <1>3, <1>11 DEF SwitchOff, Call, ring, sems, reverb, OpRecords
<1>12. CASE Sync
  BY <1>1, <1>2, <1>3, <1>12 DEF Sync, Again, Full, MustWait, ring, sems, life, reverb, OpRecords
<1>13. CASE Reap
  BY <1>1, <1>2, <1>3, <1>13 DEF Reap, Finished, ring, life, reverb, OpRecords
<1>14. CASE Mix
  <2>1. Used' = Used - 1 /\ Worked' = Worked - 1 /\ Left' = Left
    BY <1>14, CounterEffects
  <2>2. mpc = "mix" /\ mpc' = "sync" /\ UNCHANGED <<sems, life, reverb, op, tpc>>
    BY <1>14 DEF Mix
  <2>3. QED  BY <1>1, <1>2, <2>1, <2>2 DEF sems, life, reverb
<1>15. CASE Prep
  BY <1>1, <1>2, <1>3, <1>15 DEF Prep, InThread, ring, sems, life, OpRecords
<1>16. CASE Direct
  BY <1>1, <1>2, <1>3, <1>16 DEF Direct, Advance, ring, sems, life, reverb, OpRecords
<1>17. CASE Queue
  BY <1>1, <1>2, <1>3, <1>17 DEF Queue, Advance, sems, life, reverb, OpRecords
<1>18. CASE Start
  BY <1>1, <1>2, <1>18, CounterEffects DEF Start, Up, life, reverb, OpRecords
<1>19. CASE Ram
  BY <1>1, <1>2, <1>3, <1>19 DEF Ram, NoOp, ring, sems, life, reverb, OpRecords
<1>20. CASE Load
  BY <1>1, <1>2, <1>3, <1>20 DEF Load, NoOp, ring, sems, life, OpRecords
<1>21. CASE PostExit
  BY <1>1, <1>2, <1>3, <1>21 DEF PostExit, Up, ring, life, reverb, OpRecords
<1>22. CASE Join
  BY <1>1, <1>2, <1>3, <1>22, CounterEffects DEF Join, Fresh, reverb, OpRecords
<1>23. CASE Take
  BY <1>1, <1>2, <1>3, <1>23 DEF Take, main, reverb, OpRecords
<1>24. CASE Woken
  BY <1>1, <1>2, <1>3, <1>24 DEF Woken, main, sems, reverb, OpRecords
<1>25. CASE Work
  BY <1>1, <1>2, <1>3, <1>25 DEF Work, life, sems, reverb, OpRecords
<1>26. CASE Count
  BY <1>1, <1>2, <1>26, CounterEffects DEF Count, main, sems, reverb, OpRecords
<1>27. CASE Post
  BY <1>1, <1>2, <1>3, <1>27 DEF Post, Up, main, reverb, OpRecords
<1>28. CASE UNCHANGED vars
  BY <1>1, <1>2, <1>3, <1>28 DEF vars, ring, sems, life, reverb
<1>29. QED
  BY <1>4, <1>5, <1>6, <1>7, <1>8, <1>9, <1>10, <1>11, <1>12, <1>13, <1>14, <1>15, <1>16, <1>17, <1>18, <1>19, <1>20, <1>21, <1>22, <1>23, <1>24, <1>25, <1>26, <1>27, <1>28
     DEF Next, MainCall, MainStep, Thread

(* What leaves the items, their counters and the reverb set-up alone       *)
(* disturbs nothing that is said of the items.                             *)
LEMMA ItemsStill ==
  ASSUME TypeOK, Handover, UNCHANGED <<items, i_ready, i_done, i_reaped, rvb>>,
         tpc' = "count" => tpc = "count", mpc' = "start" => mpc = "start"
  PROVE  ItemInv'
<1>1. Used' = Used /\ Worked' = Worked
  BY CounterEffects
<1>2. QED  BY <1>1 DEF Handover, ItemInv, SlotAt

(* The items.                                                              *)
LEMMA ItemStep ==
  ASSUME TypeOK, Handover, [Next]_vars
  PROVE  ItemInv'
<1>1. /\ Used \in 0 .. MaxCnt /\ Worked \in 0 .. Used /\ Left \in 0 .. Used
      /\ Left = Used - Worked /\ MaxCnt \in Nat \ {0}
      /\ SlotOf(i_ready) = SlotAt(Used) /\ SlotOf(i_done) = SlotAt(Worked)
      /\ SlotOf(i_ready) \in Slots /\ SlotOf(i_done) \in Slots
  BY SlotArithmetic DEF Handover, CountInv
<1>2. /\ SlotOf(i_reaped) = SlotAt(0) /\ SlotOf(i_reaped) \in 0 .. MaxCnt - 1
      /\ \A k \in 0 .. MaxCnt - 1 : SlotAt(k) \in Slots
      /\ \A j, k \in 0 .. MaxCnt - 1 : SlotAt(j) = SlotAt(k) => j = k
  BY SlotArithmetic DEF Handover, Slots
<1>3. items \in [Slots -> Items]
  BY DEF TypeOK
<1>4. CASE Mix
  <2>1. Used' = Used - 1 /\ Worked' = Worked - 1 /\ Worked > 0
    BY <1>4, CounterEffects
  <2>2. /\ items' = [items EXCEPT ![SlotOf(i_reaped)] = NoItem]
        /\ i_reaped' = Inc(i_reaped) /\ i_done' = i_done /\ rvb' = rvb /\ tpc' = tpc
        /\ mpc' = "sync"
    BY <1>4 DEF Mix, reverb
  <2>3. ASSUME NEW k \in 0 .. Used - 2
        PROVE  SlotAt(k)' = SlotAt(k + 1) /\ items'[SlotAt(k + 1)] = items[SlotAt(k + 1)]
    <3>1. SlotOf(i_reaped') = IF SlotOf(i_reaped) + 1 = MaxCnt THEN 0 ELSE SlotOf(i_reaped) + 1
      BY <2>2, IncWraps DEF TypeOK
    <3>2. SlotAt(k)' = SlotAt(k + 1)
      BY <1>1, <1>2, <3>1 DEF SlotAt
    <3>3. SlotAt(k + 1) # SlotAt(0)
      BY <1>1, <1>2
    <3>4. QED  BY <1>2, <1>3, <2>2, <3>2, <3>3
  <2>4. tpc = "count" => items'[SlotOf(i_done)] = items[SlotOf(i_done)]
    <3>1. tpc = "count" => Worked \in 1 .. MaxCnt - 1
      BY <1>1, <2>1 DEF Handover, SemInv
    <3>2. tpc = "count" => SlotOf(i_done) # SlotOf(i_reaped)
      BY <1>1, <1>2, <3>1
    <3>3. QED  BY <1>1, <1>3, <2>2, <3>2
  <2>5. QED  BY <1>1, <2>1, <2>2, <2>3, <2>4 DEF Handover, ItemInv
<1>5. CASE Prep
  <2>1. /\ UNCHANGED <<items, i_ready, i_done, i_reaped, tpc>> /\ mpc' # "start"
        /\ rvb' = rvb \/ rvb = 0 \/ Used = 0
    BY <1>5 DEF Prep, ring, Handover, CallInv
  <2>2. Used' = Used /\ Worked' = Worked
    BY <2>1, CounterEffects
  <2>3. QED  BY <1>1, <2>1, <2>2 DEF Handover, ItemInv, SlotAt
<1>6. CASE Load
  <2>1. /\ UNCHANGED <<items, i_ready, i_done, i_reaped, tpc>> /\ mpc' # "start" /\ Used = 0
    BY <1>6 DEF Load, ring, Handover, CallInv
  <2>2. Used' = Used /\ Worked' = Worked
    BY <2>1, CounterEffects
  <2>3. QED  BY <1>1, <2>1, <2>2 DEF Handover, ItemInv, SlotAt
<1>7. CASE Queue
  <2>1. /\ UNCHANGED <<i_ready, i_done, i_reaped, rvb, tpc>>
        /\ items' = [items EXCEPT ![SlotOf(i_ready)] =
                       [new |-> newch, on |-> On, rvb |-> rvb, done |-> FALSE]]
        /\ Used < MaxCnt
    BY <1>7 DEF Queue, reverb, Handover, CallInv
  <2>2. Used' = Used /\ Worked' = Worked
    BY <2>1, CounterEffects
  <2>3. \A k \in 0 .. Used - 1 : items'[SlotAt(k)] = items[SlotAt(k)]
    BY <1>1, <1>2, <1>3, <2>1
  <2>4. tpc = "count" => Worked \in 0 .. Used - 1
    BY <1>1 DEF Handover, SemInv
  <2>5. items'[SlotOf(i_ready)].rvb = rvb
    BY <1>1, <1>3, <2>1
  <2>6. tpc = "count" => items'[SlotOf(i_done)] = items[SlotOf(i_done)]
    BY <1>1, <2>3, <2>4
  <2>7. QED  BY <1>1, <2>1, <2>2, <2>3, <2>5, <2>6 DEF Handover, ItemInv, SlotAt
<1>8. CASE Start
  <2>1. /\ Used' = Used + 1 /\ Worked' = Worked /\ i_done' = i_done /\ i_reaped' = i_reaped
    BY <1>8, CounterEffects
  <2>2. UNCHANGED <<items, rvb, tpc>> /\ mpc = "start" /\ mpc' \in {"idle", "ram", "load"}
    BY <1>8 DEF Start, reverb, TypeOK, OpRecords
  <2>3. \A k \in 0 .. Used : items[SlotAt(k)].rvb \in {0, rvb}
    BY <1>1, <2>2 DEF Handover, ItemInv
  <2>4. QED  BY <1>1, <2>1, <2>2, <2>3 DEF Handover, ItemInv, SlotAt
<1>9. CASE Work
  <2>1. /\ UNCHANGED <<i_ready, i_done, i_reaped, rvb, mpc>>
        /\ items' = [items EXCEPT ![SlotOf(i_done)].done = TRUE]
    BY <1>9 DEF Work, reverb
  <2>2. Used' = Used /\ Worked' = Worked
    BY <2>1, CounterEffects
  <2>3. \A i \in Slots : items'[i].rvb = items[i].rvb /\ (items[i].done => items'[i].done)
    BY <1>1, <1>3, <2>1 DEF Items
  <2>4. items'[SlotOf(i_done)].done
    BY <1>1, <1>3, <2>1 DEF Items
  <2>5. \A k \in 0 .. Used - 1 : SlotAt(k) \in Slots
    BY <1>1, <1>2
  <2>6. QED  BY <1>1, <2>1, <2>2, <2>3, <2>4, <2>5 DEF Handover, ItemInv, SlotAt
<1>10. CASE Count
  <2>1. Used' = Used /\ Worked' = Worked + 1 /\ i_ready' = i_ready /\ i_reaped' = i_reaped
    BY <1>10, CounterEffects
  <2>2. UNCHANGED <<items, rvb, mpc>> /\ tpc = "count" /\ tpc' = "post"
    BY <1>10 DEF Count, main, reverb
  <2>3. \A k \in 0 .. Worked : items[SlotAt(k)].done
    BY <1>1, <2>2 DEF Handover, ItemInv
  <2>4. QED  BY <1>1, <2>1, <2>2, <2>3 DEF Handover, ItemInv, SlotAt
<1>11. CASE i_ready' = 0 /\ i_done' = 0 /\ i_reaped' = 0 /\ tpc' # "count" /\ mpc' # "start"
  <2>1. Used' = 0 /\ Worked' = 0
    BY <1>11, CounterEffects
  <2>2. QED  BY <1>11, <2>1 DEF ItemInv
<1>12. CASE SwitchOn
  <2>1. CASE UNCHANGED <<ring, tpc>>
    BY <1>12, <2>1, ItemsStill DEF SwitchOn, ring, reverb
  <2>2. CASE Fresh /\ tpc' = "wait"
    BY <1>11, <1>12, <2>2 DEF SwitchOn, Call, Fresh
  <2>3. QED  BY <1>12, <2>1, <2>2 DEF SwitchOn
<1>13. CASE Join
  BY <1>11, <1>13 DEF Join, Fresh
<1>14. CASE MainCall /\ ~SwitchOn
  BY <1>14, ItemsStill DEF MainCall, SamplesCall, DmaCall, LoadCall, Begin, Call, KeyOn, KeyOff,
     RvbWrite, SwitchOff, ring, reverb
<1>15. CASE Sync \/ Reap \/ Direct \/ Ram \/ PostExit
  BY <1>15, ItemsStill DEF Sync, Reap, Direct, Ram, PostExit, ring, reverb, TypeOK, OpRecords
<1>16. CASE Take \/ Woken \/ Post
  BY <1>16, ItemsStill DEF Take, Woken, Post, main, reverb
<1>17. CASE UNCHANGED vars
  BY <1>17, ItemsStill DEF vars, ring, reverb
<1>18. QED
  BY <1>4, <1>5, <1>6, <1>7, <1>8, <1>9, <1>10, <1>12, <1>13, <1>14, <1>15, <1>16, <1>17
     DEF Next, MainStep, Thread

-----------------------------------------------------------------------------
(* Types                                                                   *)

(* Decoding, restarting and copying give decoder states.                   *)
LEMMA DecoderTypes ==
  ASSUME NEW d \in Decoders, NEW e \in Decoders, NEW cs
  PROVE  Decoded(d, cs) \in Decoders /\ Restarted(d, cs) \in Decoders /\ Copied(d, e, cs) \in Decoders
<1>1. StateMod \in Nat \ {0}
  BY StateModAssumption
<1>2. 0 \in 0 .. StateMod - 1
  BY <1>1
<1>3. \A ch \in Chans : (d[ch] + 1) % StateMod \in 0 .. StateMod - 1
  <2>1. \A ch \in Chans : d[ch] + 1 \in Int
    BY <1>1 DEF Decoders
  <2>2. QED  BY <1>1, <2>1, Euclid
<1>4. QED  BY <1>2, <1>3 DEF Decoders, Decoded, Restarted, Copied

LEMMA ConstantTypes ==
  /\ 0 \in Counts /\ 0 \in Reverbs /\ NoItem \in Items /\ NoOp \in OpRecords
  /\ [i \in Slots |-> NoItem] \in [Slots -> Items] /\ [ch \in Chans |-> 0] \in Decoders
BY CntModAssumption, MaxCntAssumption, ReverbsAssumption, StateModAssumption
   DEF Counts, NoItem, Items, NoOp, OpRecords, Decoders

(* The counters, the semaphores and the program points.                    *)
LEMMA ControlTypes ==
  ASSUME TypeOK, Handover, [Next]_vars
  PROVE  /\ useThread' \in BOOLEAN /\ worker' \in BOOLEAN /\ exit_thread' \in BOOLEAN
         /\ i_ready' \in Counts /\ i_done' \in Counts /\ i_reaped' \in Counts
         /\ prev' \in BOOLEAN /\ dirty' \in BOOLEAN /\ rvb' \in Reverbs
         /\ sem_avail' \in 0 .. MaxCnt + 1 /\ sem_done' \in 0 .. MaxCnt
         /\ mpc' \in MainStates /\ op' \in OpRecords /\ tpc' \in ThreadStates
<1> USE DEF TypeOK, MainStates, ThreadStates
<1>1. /\ Used \in 0 .. MaxCnt /\ Worked \in 0 .. Used /\ Left \in 0 .. Used
      /\ MaxCnt \in Nat \ {0}
  BY SlotArithmetic DEF Handover
<1>2. \A n \in Counts : Inc(n) \in Counts
  BY IncWraps
<1>3. \A f, h \in BOOLEAN, r \in {"idle", "ram", "load"} :
        [force |-> f, short |-> h, ret |-> r] \in OpRecords
  BY DEF OpRecords
<1>4. op.ret \in {"idle", "ram", "load"}
  BY DEF OpRecords
<1>5. CASE MainCall /\ ~SwitchOn /\ ~SamplesCall /\ ~DmaCall /\ ~LoadCall
  BY <1>5 DEF MainCall, Call, KeyOn, KeyOff, RvbWrite, SwitchOff, ring, sems, decoders,
     reverb, life
<1>6. CASE SwitchOn
  <2>1. CASE UNCHANGED <<ring, sems, prev, channels_last, worker, exit_thread, tpc>>
    BY <1>6, <2>1 DEF SwitchOn, ring, sems, reverb
  <2>2. CASE Fresh /\ worker' = TRUE /\ exit_thread' = FALSE /\ tpc' = "wait"
    <3>1. i_ready' \in Counts /\ i_done' \in Counts /\ i_reaped' \in Counts
      BY <2>2, ConstantTypes DEF Fresh
    <3>2. sem_avail' \in 0 .. MaxCnt + 1 /\ sem_done' \in 0 .. MaxCnt
      BY <1>1, <2>2 DEF Fresh
    <3>3. useThread' \in BOOLEAN /\ UNCHANGED <<dirty, rvb, mpc, op>>
      BY <1>6 DEF SwitchOn, reverb
    <3>4. QED  BY <2>2, <3>1, <3>2, <3>3 DEF Fresh
  <2>3. QED  BY <1>6, <2>1, <2>2 DEF SwitchOn
<1>8. CASE SamplesCall \/ DmaCall \/ LoadCall
  <2>1. PICK f \in BOOLEAN, h \in BOOLEAN, r \in {"idle", "ram", "load"} : Begin(f, h, r)
    BY <1>8 DEF SamplesCall, DmaCall, LoadCall
  <2>2. op' \in OpRecords
    BY <1>3, <2>1 DEF Begin
  <2>3. mpc' \in MainStates
    BY <2>1 DEF Begin
  <2>4. QED  BY <2>1, <2>2, <2>3 DEF Begin, ring, sems, decoders, reverb, life
<1>9. CASE Sync \/ Prep \/ Direct \/ Queue
  <2>1. CASE Sync
    BY <1>4, <2>1 DEF Sync, ring, sems, decoders, reverb, life
  <2>2. CASE Prep
    BY <1>4, <2>2 DEF Prep, ring, sems, decoders, reverb, life
  <2>3. CASE Direct
    BY <1>4, <2>3 DEF Direct, ring, sems, decoders, reverb, life
  <2>4. CASE Queue
    BY <1>2, <1>4, <2>4 DEF Queue, ring, sems, decoders, reverb, life
  <2>5. QED  BY <1>9, <2>1, <2>2, <2>3, <2>4
<1>7. CASE Mix
  BY <1>2, <1>7 DEF Mix, sems, decoders, reverb, life
<1>10. CASE Reap
  BY <1>1, <1>10 DEF Reap, Finished, ring, decoders, reverb, life
<1>11. CASE Start
  <2>1. sem_avail < MaxCnt
    BY <1>1, <1>11 DEF Start, Handover, CallInv, SemInv, One
  <2>2. QED  BY <1>1, <1>2, <1>4, <1>11, <2>1 DEF Start, Up, decoders, reverb, life
<1>12. CASE Ram \/ Load
  BY <1>12, ConstantTypes DEF Ram, Load, ring, sems, decoders, reverb, life
<1>13. CASE PostExit
  <2>1. sem_avail <= MaxCnt
    BY <1>1, <1>13 DEF PostExit, Handover, SemInv, One
  <2>2. QED  BY <1>1, <1>13, <2>1 DEF PostExit, Up, ring, decoders, reverb, life
<1>14. CASE Join
  <2>1. i_ready' \in Counts /\ i_done' \in Counts /\ i_reaped' \in Counts
    BY <1>14, ConstantTypes DEF Join, Fresh
  <2>2. sem_avail' \in 0 .. MaxCnt + 1 /\ sem_done' \in 0 .. MaxCnt
    BY <1>1, <1>14 DEF Join, Fresh
  <2>3. /\ worker' \in BOOLEAN /\ exit_thread' \in BOOLEAN /\ prev' \in BOOLEAN
        /\ tpc' = "none" /\ mpc' = "idle" /\ op' = op
        /\ UNCHANGED <<useThread, dirty, rvb>>
    BY <1>14 DEF Join, Fresh, reverb
  <2>4. QED  BY <2>1, <2>2, <2>3
<1>15. CASE Take
  BY <1>1, <1>15 DEF Take, main, reverb
<1>16. CASE Woken \/ Work \/ Count
  BY <1>2, <1>16 DEF Woken, Work, Count, main, sems, decoders, reverb, life
<1>17. CASE Post
  <2>1. sem_done < MaxCnt
    BY <1>1, <1>17 DEF Post, Handover, SemInv, One
  <2>2. QED  BY <1>1, <1>17, <2>1 DEF Post, Up, main, reverb
<1>18. CASE UNCHANGED vars
  BY <1>18 DEF vars, ring, sems, decoders, reverb, life
<1>19. QED
  BY <1>5, <1>6, <1>7, <1>8, <1>9, <1>10, <1>11, <1>12, <1>13, <1>14, <1>15, <1>16, <1>17, <1>18
     DEF Next, MainCall, MainStep, Thread

(* The items, the voices and their decoder states.                         *)
LEMMA DataTypes ==
  ASSUME TypeOK, Handover, [Next]_vars
  PROVE  /\ items' \in [Slots -> Items] /\ channels_last' \subseteq Chans
         /\ sb' \in Decoders /\ sb_thread' \in Decoders /\ truth' \in Decoders
         /\ audible' \subseteq Chans /\ newch' \subseteq Chans
<1> USE DEF TypeOK
<1>1. \A d, e \in Decoders : \A cs : /\ Decoded(d, cs) \in Decoders
                                     /\ Restarted(d, cs) \in Decoders
                                     /\ Copied(d, e, cs) \in Decoders
  BY DecoderTypes
<1>2. On \subseteq Chans
  BY DEF On
<1>3. Advance => truth' \in Decoders /\ audible' \subseteq Chans /\ newch' \subseteq Chans
  BY <1>1, <1>2 DEF Advance
<1>4. CASE MainCall /\ ~SwitchOn
  BY <1>4 DEF MainCall, SamplesCall, DmaCall, LoadCall, Begin, KeyOn, KeyOff, RvbWrite,
     SwitchOff, ring, decoders, voices
<1>5. CASE SwitchOn
  BY <1>5, ConstantTypes DEF SwitchOn, Fresh, ring, voices
<1>6. CASE Sync
  BY <1>1, <1>6 DEF Sync, ring, voices
<1>7. CASE Mix
  BY <1>7, ConstantTypes DEF Mix, decoders, voices
<1>8. CASE Direct
  BY <1>1, <1>3, <1>8 DEF Direct, ring
<1>9. CASE Queue
  <2>1. [new |-> newch, on |-> On, rvb |-> rvb, done |-> FALSE] \in Items
    BY <1>2 DEF Items
  <2>2. items' \in [Slots -> Items]
    BY <1>9, <2>1 DEF Queue
  <2>3. QED  BY <1>1, <1>2, <1>3, <1>9, <2>2 DEF Queue
<1>10. CASE Load
  BY <1>10, ConstantTypes DEF Load, ring
<1>11. CASE Join
  BY <1>11, ConstantTypes DEF Join, Fresh
<1>12. CASE Work
  <2>1. SlotOf(i_done) \in Slots
    BY SlotArithmetic DEF Handover
  <2>2. [items[SlotOf(i_done)] EXCEPT !.done = TRUE] \in Items
    BY <2>1 DEF Items
  <2>3. items' \in [Slots -> Items]
    BY <1>12, <2>1, <2>2 DEF Work
  <2>4. QED  BY <1>1, <1>12, <2>3 DEF Work, voices
<1>13. CASE Reap \/ Prep \/ Start \/ Ram \/ PostExit
  BY <1>13 DEF Reap, Prep, Start, Ram, PostExit, ring, decoders, voices
<1>14. CASE Take \/ Woken \/ Count \/ Post
  BY <1>14 DEF Take, Woken, Count, Post, main, voices
<1>15. CASE UNCHANGED vars
  BY <1>15 DEF vars, ring, decoders, voices
<1>16. QED
  BY <1>4, <1>5, <1>6, <1>7, <1>8, <1>9, <1>10, <1>11, <1>12, <1>13, <1>14, <1>15
     DEF Next, MainStep, Thread

-----------------------------------------------------------------------------
(* What follows for the runs of the program                                *)
Inv == TypeOK /\ Handover

LEMMA InvInit == Init => Inv
<1> SUFFICES ASSUME Init  PROVE Inv
  OBVIOUS
<1>1. MaxCnt \in Nat \ {0} /\ 0 \in 0 .. MaxCnt
  BY MaxCntAssumption
<1>2. TypeOK
  <2>1. sem_avail \in 0 .. MaxCnt + 1 /\ sem_done \in 0 .. MaxCnt
    BY <1>1 DEF Init
  <2>2. QED  BY <2>1, ConstantTypes DEF Init, TypeOK, MainStates, ThreadStates
<1>3. Used = 0 /\ Worked = 0 /\ Left = 0
  BY DEF Init, Used, Worked, Left, Diff
<1>4. SlotOf(0) \in 0 .. MaxCnt - 1
  BY ConstantTypes, IncWraps DEF Slots
<1>5. CountInv
  BY <1>1, <1>3, <1>4 DEF Init, CountInv, SlotAt
<1>6. SemInv /\ LifeInv
  BY <1>3 DEF Init, SemInv, LifeInv, One
<1>7. ItemInv
  BY <1>3 DEF Init, ItemInv
<1>8. CallInv
  BY <1>1, <1>3 DEF Init, CallInv, NoOp
<1>9. QED  BY <1>2, <1>5, <1>6, <1>7, <1>8 DEF Inv, Handover

LEMMA InvNext == Inv /\ [Next]_vars => Inv'
<1> SUFFICES ASSUME TypeOK, Handover, [Next]_vars  PROVE Inv'
  BY DEF Inv
<1>1. TypeOK'
  BY ControlTypes, DataTypes DEF TypeOK
<1>2. CountInv' /\ SemInv' /\ LifeInv' /\ ItemInv' /\ CallInv'
  BY CountStep, ControlStep, ItemStep
<1>3. QED  BY <1>1, <1>2 DEF Inv, Handover

LEMMA InvAlways == Spec => []Inv
BY InvInit, InvNext, PTL DEF Spec

(* Every variable keeps its type: the counters wrap, and each semaphore    *)
(* counts at most the array's length, and one more to end the thread.      *)
THEOREM TypeCorrect == Spec => []TypeOK
<1>1. Inv => TypeOK
  BY DEF Inv
<1>2. QED  BY InvAlways, <1>1, PTL

(* The counters, the semaphores and the calls agree about the work items.  *)
THEOREM ThreadsAgree == Spec => []Handover
<1>1. Inv => Handover
  BY DEF Inv
<1>2. QED  BY InvAlways, <1>1, PTL

(* sync_worker_thread mixes finished items only, queue_channel_work writes *)
(* free ones only, and the sound thread works on queued ones only.         *)
THEOREM SlotsAreSafe == Spec => []SlotsSafe
<1>1. ASSUME Inv  PROVE SlotsSafe
  <2>1. /\ Used \in 0 .. MaxCnt /\ Worked \in 0 .. Used /\ Left \in 0 .. Used
        /\ SlotOf(i_reaped) = SlotAt(0) /\ MaxCnt \in Nat
    BY <1>1, SlotArithmetic DEF Inv, Handover
  <2>2. mpc = "mix" => Worked > 0
    BY <1>1, <2>1 DEF Inv, Handover, SemInv, One, TypeOK
  <2>3. mpc = "mix" => items[SlotOf(i_reaped)].done
    BY <1>1, <2>1, <2>2 DEF Inv, Handover, ItemInv
  <2>4. mpc = "queue" => Used < MaxCnt
    BY <1>1 DEF Inv, Handover, CallInv
  <2>5. tpc \in {"work", "count"} => Left \in 1 .. MaxCnt /\ Used <= MaxCnt
    BY <1>1, <2>1 DEF Inv, Handover, SemInv
  <2>6. QED  BY <2>2, <2>3, <2>4, <2>5 DEF SlotsSafe
<1>2. QED  BY InvAlways, <1>1, PTL

(* When REVERBPrep or a loaded state changes the reverb set-up, no queued  *)
(* item uses one.                                                          *)
THEOREM ReverbIsStable == Spec => []RvbStable
<1>1. ASSUME Inv  PROVE RvbStable
  <2>1. Used \in 0 .. MaxCnt /\ MaxCnt \in Nat \ {0}
    BY <1>1, SlotArithmetic DEF Inv, Handover
  <2>2. SUFFICES ASSUME (mpc = "prep" /\ dirty) \/ mpc = "load", NEW k \in 1 .. Used
                 PROVE  items[SlotOf(i_reaped + k - 1)].rvb = 0
    BY DEF RvbStable, Pending
  <2>3. rvb = 0
    BY <1>1, <2>1, <2>2 DEF Inv, Handover, CallInv
  <2>4. SlotOf(i_reaped + k - 1) = SlotAt(k - 1)
    <3>1. i_reaped \in Int /\ k - 1 \in 0 .. MaxCnt
      BY <1>1, <2>1, CntModAssumption DEF Inv, TypeOK, Counts
    <3>2. (i_reaped + (k - 1)) % MaxCnt =
            IF (i_reaped % MaxCnt) + (k - 1) >= MaxCnt THEN (i_reaped % MaxCnt) + (k - 1) - MaxCnt
            ELSE (i_reaped % MaxCnt) + (k - 1)
      BY <2>1, <3>1, AddMod
    <3>3. i_reaped + k - 1 = i_reaped + (k - 1)
      BY <3>1, <2>1
    <3>4. SlotOf(i_reaped + k - 1) = (i_reaped + (k - 1)) % MaxCnt
      BY <3>3 DEF SlotOf
    <3>5. SlotAt(k - 1) =
            IF (i_reaped % MaxCnt) + (k - 1) >= MaxCnt THEN (i_reaped % MaxCnt) + (k - 1) - MaxCnt
            ELSE (i_reaped % MaxCnt) + (k - 1)
      <4>1. i_reaped % MaxCnt \in 0 .. MaxCnt - 1
        BY <2>1, <3>1, Euclid
      <4>2. QED  BY <2>1, <3>1, <4>1 DEF SlotOf, SlotAt
    <3>6. QED  BY <3>2, <3>4, <3>5
  <2>5. items[SlotAt(k - 1)].rvb \in {0, rvb}
    BY <1>1, <2>1 DEF Inv, Handover, ItemInv
  <2>6. QED  BY <2>3, <2>4, <2>5
<1>2. QED  BY InvAlways, <1>1, PTL

(* DMA, save states and the main thread's own decoding find the sound      *)
(* thread asleep with nothing to do.                                       *)
THEOREM ThreadIsAtRest == Spec => []ThreadAtRest
<1>1. ASSUME Inv  PROVE ThreadAtRest
  <2>1. SUFFICES ASSUME worker, mpc \in {"ram", "load", "direct"}
                 PROVE  i_ready = i_reaped /\ tpc = "wait"
    BY DEF ThreadAtRest
  <2>2. /\ Used \in 0 .. MaxCnt /\ Worked \in 0 .. Used /\ Left \in 0 .. Used
        /\ MaxCnt \in Nat
    BY <1>1, SlotArithmetic DEF Inv, Handover
  <2>3. Used = 0
    BY <1>1, <2>1 DEF Inv, Handover, CallInv
  <2>4. i_ready = i_reaped
    BY <1>1, <2>3, CntModAssumption DEF Inv, TypeOK, Counts, Used, Diff
  <2>5. tpc \notin {"post", "woken", "work", "count", "exited"}
    BY <1>1, <2>1, <2>2, <2>3 DEF Inv, Handover, SemInv, LifeInv, One, TypeOK
  <2>6. tpc = "wait"
    BY <1>1, <2>1, <2>5 DEF Inv, Handover, LifeInv, TypeOK, ThreadStates
  <2>7. QED  BY <2>4, <2>6
<1>2. QED  BY InvAlways, <1>1, PTL

-----------------------------------------------------------------------------
(* The slices of sound that are submitted and not yet mixed, one by one    *)
Slices == {Slice(i) : i \in Items}
TodoInv ==
  /\ Todo \in Seq(Slices)
  /\ Len(Todo) = Used + One(mpc \in {"start", "direct"})
  /\ \A k \in 1 .. Used : Todo[k] = Slice(items[SlotAt(k - 1)])
  /\ mpc = "start" => Todo[Used + 1] = Slice(items[SlotOf(i_ready)])
  /\ mpc = "direct" => Todo[Used + 1] = Slice(NoItem)

(* The k-th item in use, counted from the oldest, is where the array's     *)
(* positions say it is.                                                    *)
LEMMA SlotOfSum ==
  ASSUME Inv, NEW k \in 0 .. MaxCnt
  PROVE  SlotOf(i_reaped + k) = SlotAt(k)
<1>1. i_reaped \in Int /\ MaxCnt \in Nat \ {0}
  BY MaxCntAssumption, CntModAssumption DEF Inv, TypeOK, Counts
<1>2. (i_reaped + k) % MaxCnt = IF (i_reaped % MaxCnt) + k >= MaxCnt
                                THEN (i_reaped % MaxCnt) + k - MaxCnt ELSE (i_reaped % MaxCnt) + k
  BY <1>1, AddMod
<1>3. i_reaped % MaxCnt \in 0 .. MaxCnt - 1
  BY <1>1, Euclid
<1>4. QED  BY <1>1, <1>2, <1>3 DEF SlotOf, SlotAt

LEMMA TodoIs == Inv => TodoInv
<1> SUFFICES ASSUME Inv  PROVE TodoInv
  OBVIOUS
<1> DEFINE head == [k \in DOMAIN Pending |-> Slice(Pending[k])]
           tail == CASE mpc = "start" -> <<Slice(items[SlotOf(i_ready)])>>
                     [] mpc = "direct" -> <<Slice(NoItem)>>
                     [] OTHER -> <<>>
<1>1. /\ Used \in 0 .. MaxCnt /\ MaxCnt \in Nat \ {0} /\ SlotOf(i_ready) \in Slots
      /\ \A k \in 0 .. MaxCnt - 1 : SlotAt(k) \in Slots
      /\ items \in [Slots -> Items] /\ i_reaped \in Int
  BY SlotArithmetic, CntModAssumption DEF Inv, Handover, TypeOK, Counts
<1>2. ASSUME NEW k \in 1 .. Used
      PROVE  head[k] = Slice(items[SlotAt(k - 1)]) /\ head[k] \in Slices
  <2>1. i_reaped + k - 1 = i_reaped + (k - 1) /\ k - 1 \in 0 .. MaxCnt - 1
    BY <1>1
  <2>2. SlotOf(i_reaped + k - 1) = SlotAt(k - 1)
    BY <1>1, <2>1, SlotOfSum
  <2>3. head[k] = Slice(items[SlotAt(k - 1)])
    BY <2>2 DEF Pending
  <2>4. items[SlotAt(k - 1)] \in Items
    BY <1>1, <2>1
  <2>5. QED  BY <2>3, <2>4 DEF Slices
<1>3. head \in Seq(Slices) /\ Len(head) = Used
  <2>1. DOMAIN head = 1 .. Used
    BY DEF Pending
  <2>2. head \in [1 .. Used -> Slices]
    BY <1>2, <2>1
  <2>3. Used \in Nat
    BY <1>1
  <2> HIDE DEF head
  <2>4. QED  BY <2>2, <2>3
<1>4. /\ tail \in Seq(Slices) /\ Len(tail) = One(mpc \in {"start", "direct"})
      /\ mpc = "start" => tail[1] = Slice(items[SlotOf(i_ready)])
      /\ mpc = "direct" => tail[1] = Slice(NoItem)
  <2>1. Slice(items[SlotOf(i_ready)]) \in Slices /\ Slice(NoItem) \in Slices
    BY <1>1, ConstantTypes DEF Slices
  <2> HIDE DEF head
  <2>2. CASE mpc = "start"
    <3>1. tail = <<Slice(items[SlotOf(i_ready)])>>
      BY <2>2
    <3> HIDE DEF tail
    <3>2. QED  BY <2>1, <2>2, <3>1 DEF One
  <2>3. CASE mpc = "direct"
    <3>1. tail = <<Slice(NoItem)>>
      BY <2>3
    <3> HIDE DEF tail
    <3>2. QED  BY <2>1, <2>3, <3>1 DEF One
  <2>4. CASE mpc \notin {"start", "direct"}
    <3>1. tail = <<>>
      BY <2>4
    <3> HIDE DEF tail
    <3>2. QED  BY <2>4, <3>1 DEF One
  <2>5. QED  BY <2>2, <2>3, <2>4
<1>5. Todo = head \o tail
  BY DEF Todo
<1> HIDE DEF head, tail
<1>6. /\ Todo \in Seq(Slices) /\ Len(Todo) = Len(head) + Len(tail)
      /\ \A k \in 1 .. Len(head) + Len(tail) :
           Todo[k] = IF k <= Len(head) THEN head[k] ELSE tail[k - Len(head)]
  BY <1>3, <1>4, <1>5, ConcatProperties
<1>7. ASSUME NEW k \in 1 .. Used  PROVE Todo[k] = Slice(items[SlotAt(k - 1)])
  <2>1. Todo[k] = head[k]
    BY <1>1, <1>3, <1>4, <1>6 DEF One
  <2>2. QED  BY <1>2, <2>1
<1>8. mpc \in {"start", "direct"} => Todo[Used + 1] = tail[1]
  <2>1. mpc \in {"start", "direct"} => Len(tail) = 1
    BY <1>4 DEF One
  <2>2. mpc \in {"start", "direct"} => Todo[Used + 1] = tail[Used + 1 - Used]
    BY <1>1, <1>3, <1>6, <2>1
  <2>3. Used + 1 - Used = 1
    BY <1>1
  <2>4. QED  BY <2>2, <2>3
<1>9. QED  BY <1>3, <1>4, <1>6, <1>7, <1>8 DEF TodoInv

LEMMA TodoStays == Inv' => TodoInv'
BY TodoIs, PTL

(* The steps of CmdFifo, place by place                                    *)
LEMMA Appended ==
  ASSUME NEW S, NEW s \in Seq(S), NEW t \in Seq(S), NEW x \in S, Len(t) = Len(s) + 1,
         \A k \in 1 .. Len(s) : t[k] = s[k], t[Len(s) + 1] = x
  PROVE  t = s \o <<x>>
<1>1. <<x>> \in Seq(S) /\ Len(<<x>>) = 1 /\ <<x>>[1] = x
  OBVIOUS
<1> DEFINE e == <<x>>
<1> HIDE DEF e
<1>2. /\ s \o e \in Seq(S) /\ Len(s \o e) = Len(s) + 1 /\ Len(s) \in Nat
      /\ \A k \in 1 .. Len(s) + 1 : (s \o e)[k] = IF k <= Len(s) THEN s[k] ELSE e[k - Len(s)]
  BY <1>1, ConcatProperties DEF e
<1>3. ASSUME NEW k \in 1 .. Len(t)  PROVE t[k] = (s \o e)[k]
  <2>1. CASE k <= Len(s)
    BY <1>2, <2>1
  <2>2. CASE k = Len(s) + 1
    <3>1. k - Len(s) = 1
      BY <1>2, <2>2
    <3>2. QED  BY <1>1, <1>2, <2>2, <3>1 DEF e
  <2>3. QED  BY <1>2, <2>1, <2>2
<1>4. t = s \o e
  BY <1>2, <1>3, SeqEqual
<1>5. QED  BY <1>4 DEF e

LEMMA OneDropped ==
  ASSUME NEW S, NEW s \in Seq(S), NEW t \in Seq(S), Len(s) = Len(t) + 1,
         \A k \in 1 .. Len(t) : t[k] = s[k + 1]
  PROVE  1 \in 1 .. Len(s) /\ t = SubSeq(s, 1 + 1, Len(s))
<1>1. Len(s) \in Nat /\ Len(t) \in Nat
  OBVIOUS
<1>2. \A k \in 2 .. Len(s) : s[k] \in S
  BY <1>1, ElementOfSeq
<1>3. /\ SubSeq(s, 2, Len(s)) \in Seq(S) /\ Len(SubSeq(s, 2, Len(s))) = Len(t)
      /\ \A k \in 1 .. Len(t) : SubSeq(s, 2, Len(s))[k] = s[2 + k - 1]
  BY <1>1, <1>2, SubSeqProperties
<1>4. \A k \in 1 .. Len(t) : t[k] = SubSeq(s, 2, Len(s))[k]
  BY <1>1, <1>3
<1>5. t = SubSeq(s, 2, Len(s))
  BY <1>3, <1>4, SeqEqual
<1>6. QED  BY <1>1, <1>5

LEMMA AllDropped ==
  ASSUME NEW S, NEW s \in Seq(S), NEW t \in Seq(S), Len(t) = 0
  PROVE  t = s \/ (Len(s) \in 1 .. Len(s) /\ t = SubSeq(s, Len(s) + 1, Len(s)))
<1>1. Len(s) \in Nat /\ t = <<>>
  BY EmptySeq
<1>2. SubSeq(s, Len(s) + 1, Len(s)) = <<>>
  BY <1>1, SubSeqEmpty
<1>3. Len(s) = 0 => s = <<>>
  BY EmptySeq
<1>4. QED  BY <1>1, <1>2, <1>3

(* What neither submits nor mixes changes nothing                          *)
LEMMA TodoSame ==
  ASSUME Inv, Inv', i_ready' = i_ready, i_reaped' = i_reaped,
         \A i \in Slots : Slice(items'[i]) = Slice(items[i]),
         mpc' = mpc \/ {mpc, mpc'} \cap {"start", "direct"} = {}
  PROVE  Todo' = Todo
<1>1. TodoInv /\ TodoInv'
  BY TodoIs, TodoStays
<1>2. Used' = Used /\ SlotOf(i_ready') = SlotOf(i_ready) /\ \A k : SlotAt(k)' = SlotAt(k)
  BY DEF Used, SlotAt
<1>3. /\ Used \in 0 .. MaxCnt /\ MaxCnt \in Nat /\ SlotOf(i_ready) \in Slots
      /\ \A k \in 0 .. MaxCnt - 1 : SlotAt(k) \in Slots
  BY SlotArithmetic DEF Inv, Handover
<1>4. Len(Todo') = Len(Todo)
  BY <1>1, <1>2 DEF TodoInv, One
<1>5. \A k \in 1 .. Used : Todo'[k] = Todo[k]
  <2>1. \A k \in 1 .. Used : SlotAt(k - 1) \in Slots
    BY <1>3
  <2>2. QED  BY <1>1, <1>2, <2>1 DEF TodoInv
<1>6. mpc \in {"start", "direct"} => Todo'[Used + 1] = Todo[Used + 1]
  BY <1>1, <1>2, <1>3 DEF TodoInv
<1>7. \A k \in 1 .. Len(Todo) : Todo'[k] = Todo[k]
  <2>1. mpc \in {"start", "direct"} => \A k \in 1 .. Len(Todo) : k \in 1 .. Used \/ k = Used + 1
    BY <1>1, <1>3 DEF TodoInv, One
  <2>2. mpc \notin {"start", "direct"} => \A k \in 1 .. Len(Todo) : k \in 1 .. Used
    BY <1>1, <1>3 DEF TodoInv, One
  <2>3. QED  BY <1>5, <1>6, <2>1, <2>2
<1>8. QED  BY <1>1, <1>4, <1>7, SeqEqual DEF TodoInv

(* The oldest slice is mixed.                                              *)
LEMMA MixMaps ==
  ASSUME Inv, Inv', Mix
  PROVE  1 \in 1 .. Len(Todo) /\ Todo' = SubSeq(Todo, 1 + 1, Len(Todo))
<1>1. TodoInv /\ TodoInv'
  BY TodoIs, TodoStays
<1>2. Used' = Used - 1 /\ Worked > 0 /\ i_reaped' = Inc(i_reaped)
  BY CounterEffects DEF Inv
<1>3. /\ Used \in 1 .. MaxCnt /\ MaxCnt \in Nat /\ SlotOf(i_reaped) = SlotAt(0)
      /\ \A k \in 0 .. MaxCnt - 1 : SlotAt(k) \in Slots
      /\ \A j, k \in 0 .. MaxCnt - 1 : SlotAt(j) = SlotAt(k) => j = k
  BY <1>2, SlotArithmetic DEF Inv, Handover
<1>4. /\ items' = [items EXCEPT ![SlotOf(i_reaped)] = NoItem] /\ items \in [Slots -> Items]
      /\ mpc = "mix" /\ mpc' = "sync"
  BY DEF Mix, Inv, TypeOK
<1>5. ASSUME NEW k \in 1 .. Used - 1  PROVE Todo'[k] = Todo[k + 1]
  <2>1. SlotAt(k - 1)' = SlotAt(k)
    <3>1. SlotOf(i_reaped') = IF SlotOf(i_reaped) + 1 = MaxCnt THEN 0 ELSE SlotOf(i_reaped) + 1
      BY <1>2, IncWraps DEF Inv, TypeOK
    <3>2. SlotOf(i_reaped) \in 0 .. MaxCnt - 1
      BY <1>3 DEF Slots
    <3>3. QED  BY <1>3, <3>1, <3>2 DEF SlotAt
  <2>2. SlotAt(k) \in Slots /\ SlotAt(k) # SlotAt(0)
    BY <1>3
  <2>3. Todo'[k] = Slice(items'[SlotAt(k)])
    BY <1>1, <1>2, <2>1 DEF TodoInv
  <2>4. items'[SlotAt(k)] = items[SlotAt(k)]
    BY <1>3, <1>4, <2>2
  <2>5. Todo[k + 1] = Slice(items[SlotAt(k + 1 - 1)]) /\ k + 1 - 1 = k
    BY <1>1, <1>3 DEF TodoInv
  <2>6. QED  BY <2>3, <2>4, <2>5
<1>6. Len(Todo) = Used /\ Len(Todo') = Used - 1
  BY <1>1, <1>2, <1>3, <1>4 DEF TodoInv, One
<1>7. Todo \in Seq(Slices) /\ Todo' \in Seq(Slices) /\ Len(Todo) = Len(Todo') + 1
  BY <1>1, <1>3, <1>6 DEF TodoInv
<1>8. QED  BY <1>5, <1>6, <1>7, OneDropped

(* A slice is submitted when the main thread turns to working it out       *)
(* itself, or has written it into an item.                                 *)
LEMMA PrepMaps ==
  ASSUME Inv, Inv', Prep
  PROVE  Todo' = Todo \/ Todo' = Todo \o <<Slice(NoItem)>>
<1>1. TodoInv /\ TodoInv'
  BY TodoIs, TodoStays
<1>2. /\ UNCHANGED <<items, i_ready, i_reaped>> /\ mpc = "prep" /\ mpc' \in {"queue", "direct"}
  BY DEF Prep, ring
<1>3. CASE mpc' = "queue"
  BY <1>2, <1>3, TodoSame
<1>4. CASE mpc' = "direct"
  <2>1. Used' = Used /\ \A k : SlotAt(k)' = SlotAt(k)
    BY <1>2 DEF Used, SlotAt
  <2>2. Used \in Nat /\ Len(Todo) = Used /\ Len(Todo') = Used + 1
    BY <1>1, <1>2, <1>4, <2>1, SlotArithmetic DEF TodoInv, One, Inv, Handover
  <2>3. /\ \A k \in 1 .. Len(Todo) : Todo'[k] = Todo[k]
        /\ Todo'[Len(Todo) + 1] = Slice(NoItem)
    BY <1>1, <1>2, <1>4, <2>1, <2>2 DEF TodoInv
  <2>4. Slice(NoItem) \in Slices
    BY ConstantTypes DEF Slices
  <2>5. QED  BY <1>1, <2>2, <2>3, <2>4, Appended DEF TodoInv
<1>5. QED  BY <1>2, <1>3, <1>4

LEMMA QueueMaps ==
  ASSUME Inv, Inv', Queue
  PROVE  \E i \in Items : Todo' = Todo \o <<Slice(i)>>
<1> DEFINE new == [new |-> newch, on |-> On, rvb |-> rvb, done |-> FALSE]
<1>1. TodoInv /\ TodoInv'
  BY TodoIs, TodoStays
<1>2. /\ UNCHANGED <<i_ready, i_reaped>> /\ mpc = "queue" /\ mpc' = "start"
      /\ items' = [items EXCEPT ![SlotOf(i_ready)] = new] /\ items \in [Slots -> Items]
      /\ Used < MaxCnt
  BY DEF Queue, Inv, TypeOK, Handover, CallInv
<1>3. new \in Items
  BY DEF Inv, TypeOK, On, Items
<1> HIDE DEF new
<1>4. Used' = Used /\ SlotOf(i_ready') = SlotOf(i_ready) /\ \A k : SlotAt(k)' = SlotAt(k)
  BY <1>2 DEF Used, SlotAt
<1>5. /\ Used \in 0 .. MaxCnt /\ MaxCnt \in Nat /\ SlotOf(i_ready) = SlotAt(Used)
      /\ SlotOf(i_ready) \in Slots
      /\ \A k \in 0 .. MaxCnt - 1 : SlotAt(k) \in Slots
      /\ \A j, k \in 0 .. MaxCnt - 1 : SlotAt(j) = SlotAt(k) => j = k
  BY SlotArithmetic DEF Inv, Handover, CountInv
<1>6. ASSUME NEW k \in 1 .. Used  PROVE Todo'[k] = Todo[k]
  <2>1. SlotAt(k - 1) \in Slots /\ SlotAt(k - 1) # SlotOf(i_ready)
    <3>1. k - 1 \in 0 .. MaxCnt - 1 /\ Used \in 0 .. MaxCnt - 1 /\ k - 1 # Used
      BY <1>2, <1>5
    <3>2. QED  BY <1>5, <3>1
  <2>2. items'[SlotAt(k - 1)] = items[SlotAt(k - 1)]
    BY <1>2, <2>1
  <2>3. QED  BY <1>1, <1>4, <2>2 DEF TodoInv
<1>7. Todo'[Used + 1] = Slice(new)
  <2>1. items'[SlotOf(i_ready)] = new
    BY <1>2, <1>5
  <2>2. QED  BY <1>1, <1>2, <1>4, <2>1 DEF TodoInv
<1>8. Len(Todo) = Used /\ Len(Todo') = Used + 1
  BY <1>1, <1>2, <1>4, <1>5 DEF TodoInv, One
<1>9. Slice(new) \in Slices
  BY <1>3 DEF Slices
<1>10. Todo' = Todo \o <<Slice(new)>>
  BY <1>1, <1>6, <1>7, <1>8, <1>9, Appended DEF TodoInv
<1>11. QED  BY <1>3, <1>10

(* The item that is counted is the one that was written.                   *)
LEMMA StartMaps == ASSUME Inv, Inv', Start PROVE Todo' = Todo
<1>1. TodoInv /\ TodoInv'
  BY TodoIs, TodoStays
<1>2. Used' = Used + 1 /\ i_reaped' = i_reaped
  BY CounterEffects DEF Inv
<1>3. mpc = "start" /\ mpc' \notin {"start", "direct"} /\ items' = items
  BY DEF Start, Inv, TypeOK, OpRecords
<1>4. Used \in 0 .. MaxCnt /\ SlotOf(i_ready) = SlotAt(Used) /\ MaxCnt \in Nat
  BY SlotArithmetic DEF Inv, Handover, CountInv
<1>5. \A k : SlotAt(k)' = SlotAt(k)
  BY <1>2 DEF SlotAt
<1>6. Len(Todo) = Used + 1 /\ Len(Todo') = Used + 1
  BY <1>1, <1>2, <1>3, <1>4 DEF TodoInv, One
<1>7. ASSUME NEW k \in 1 .. Used + 1  PROVE Todo'[k] = Todo[k]
  <2>1. Todo'[k] = Slice(items[SlotAt(k - 1)])
    BY <1>1, <1>2, <1>3, <1>5 DEF TodoInv
  <2>2. CASE k = Used + 1
    <3>1. k - 1 = Used
      BY <1>4, <2>2
    <3>2. QED  BY <1>1, <1>3, <1>4, <2>1, <2>2, <3>1 DEF TodoInv
  <2>3. CASE k # Used + 1
    <3>1. k \in 1 .. Used
      BY <1>4, <2>3
    <3>2. QED  BY <1>1, <2>1, <3>1 DEF TodoInv
  <2>4. QED  BY <2>2, <2>3
<1>8. QED  BY <1>1, <1>6, <1>7, SeqEqual DEF TodoInv

(* Nothing is left to be mixed when the main thread has worked a slice out *)
(* itself, and after the thread has ended.                                 *)
LEMMA EndMaps ==
  ASSUME Inv, Inv', Used' = 0, mpc' \notin {"start", "direct"}
  PROVE  Todo' = Todo \/ \E n \in 1 .. Len(Todo) : Todo' = SubSeq(Todo, n + 1, Len(Todo))
<1>1. TodoInv /\ TodoInv'
  BY TodoIs, TodoStays
<1>2. Len(Todo') = 0
  BY <1>1 DEF TodoInv, One
<1>3. QED  BY <1>1, <1>2, AllDropped DEF TodoInv

(* Every step is one of CmdFifo or none.                                   *)
LEMMA StepMaps == Inv /\ Inv' /\ [Next]_vars => [Fifo!Next]_Todo
<1> SUFFICES ASSUME Inv, Inv', [Next]_vars  PROVE Fifo!Next \/ Todo' = Todo
  OBVIOUS
<1> USE DEF Fifo!Next, Fifo!Submit, Fifo!CarryOut
<1>1. CASE Mix
  BY <1>1, MixMaps
<1>2. CASE Prep
  <2>1. NoItem \in Items
    BY ConstantTypes
  <2>2. QED  BY <1>2, <2>1, PrepMaps
<1>3. CASE Queue
  BY <1>3, QueueMaps
<1>4. CASE Start
  BY <1>4, StartMaps
<1>5. CASE Direct
  <2>1. Used' = 0
    <3>1. Used = 0
      BY <1>5, SlotArithmetic DEF Direct, Inv, Handover, CallInv, LifeInv
    <3>2. QED  BY <1>5, <3>1 DEF Direct, ring, Used
  <2>2. mpc' \notin {"start", "direct"}
    BY <1>5 DEF Direct, Inv, TypeOK, OpRecords
  <2>3. QED  BY <2>1, <2>2, EndMaps
<1>6. CASE Join \/ (SwitchOn /\ Fresh)
  <2>1. Used' = 0 /\ mpc' \notin {"start", "direct"}
    BY <1>6 DEF Join, SwitchOn, Call, Fresh, Used, Diff
  <2>2. QED  BY <2>1, EndMaps
<1>7. CASE Work
  <2>1. \A i \in Slots : Slice(items'[i]) = Slice(items[i])
    BY <1>7 DEF Work, Slice, Inv, TypeOK, Items
  <2>2. UNCHANGED <<i_ready, i_reaped, mpc>>
    BY <1>7 DEF Work
  <2>3. QED  BY <2>1, <2>2, TodoSame
<1>8. CASE /\ UNCHANGED <<items, i_ready, i_reaped>>
           /\ mpc' = mpc \/ {mpc, mpc'} \cap {"start", "direct"} = {}
  BY <1>8, TodoSame
<1>9. CASE SwitchOn /\ ~Fresh
  BY <1>8, <1>9 DEF SwitchOn, ring
<1>10. CASE MainCall /\ ~SwitchOn
  BY <1>8, <1>10 DEF MainCall, SamplesCall, DmaCall, LoadCall, Begin, Call, KeyOn, KeyOff,
     RvbWrite, SwitchOff, ring
<1>11. CASE Sync \/ Reap \/ Ram \/ Load \/ PostExit
  BY <1>8, <1>11 DEF Sync, Reap, Ram, Load, PostExit, ring, Inv, TypeOK, OpRecords
<1>12. CASE Take \/ Woken \/ Count \/ Post
  BY <1>8, <1>12 DEF Take, Woken, Count, Post, main
<1>13. CASE UNCHANGED vars
  BY <1>8, <1>13 DEF vars, ring
<1>14. QED
  BY <1>1, <1>2, <1>3, <1>4, <1>5, <1>6, <1>7, <1>9, <1>10, <1>11, <1>12, <1>13
     DEF Next, MainStep, Thread

(* do_samples mixes every slice of sound once and in order, whichever of   *)
(* the threads works it out: SpuWorker implements CmdFifo.                 *)
THEOREM SlicesAreInOrder == Spec => ImplementsFifo
<1>1. Init => Todo = <<>>
  <2> SUFFICES ASSUME Init  PROVE Todo = <<>>
    OBVIOUS
  <2>1. TodoInv
    BY InvInit, TodoIs
  <2>2. Len(Todo) = 0
    BY <2>1 DEF TodoInv, Init, Used, Diff, One
  <2>3. QED  BY <2>1, <2>2, EmptySeq DEF TodoInv
<1>2. Init => Fifo!Init
  BY <1>1 DEF Fifo!Init
<1>3. QED  BY <1>2, InvAlways, StepMaps, PTL DEF Spec, ImplementsFifo, Fifo!Spec

-----------------------------------------------------------------------------
(* DecoderTruth: the unfinished items, taken one after another             *)

(* Induction over the numbers, for a set that a lemma then defines.        *)
LEMMA Induction ==
  ASSUME NEW S, S \subseteq Nat, 0 \in S, \A n \in S : n + 1 \in S
  PROVE  S = Nat
<1> DEFINE R == OpToRel(<, Nat)
           T == Nat \ S
<1>1. IsWellFoundedOn(R, Nat)
  BY NatLessThanWellFounded
<1>2. R = {p \in Nat \X Nat : p[1] < p[2]}
  BY DEF OpToRel
<1>3. ASSUME T # {}
      PROVE  FALSE
  <2>1. PICK m \in T : \A y \in T : ~(<<y, m>> \in R)
    <3>1. T \subseteq Nat
      OBVIOUS
    <3> HIDE DEF R, T
    <3>2. QED  BY <1>1, <1>3, <3>1, WFMin
  <2>2. m \in Nat /\ m \notin S
    OBVIOUS
  <2>3. m # 0 /\ m - 1 \in Nat /\ m - 1 < m /\ m = (m - 1) + 1
    BY <2>2
  <2>4. m - 1 \in S
    <3>1. <<m - 1, m>> \in R
      BY <1>2, <2>2, <2>3
    <3>2. QED  BY <2>1, <2>3, <3>1
  <2>5. QED  BY <2>2, <2>3, <2>4
<1>4. QED  BY <1>3

WorkDone(d, i) == Decoded(Restarted(d, i.new), i.on)

(* f takes the decoder states from s through the n items of u.             *)
Chain(f, n, s, u) ==
  f = [k \in 0 .. n |-> IF k = 0 THEN s ELSE WorkDone(f[k - 1], u[k])]

(* There is such a function: the provers know it from no recursion.        *)
LEMMA ChainExists ==
  ASSUME NEW s, NEW n \in Nat, NEW u
  PROVE  \E f : Chain(f, n, s, u)
<1> DEFINE S == {m \in Nat : \E f : Chain(f, m, s, u)}
<1>1. S \subseteq Nat
  OBVIOUS
<1>2. 0 \in S
  <2> DEFINE g == [k \in 0 .. 0 |-> s]
  <2>1. g = [k \in 0 .. 0 |-> IF k = 0 THEN s ELSE WorkDone(g[k - 1], u[k])]
    <3>1. \A k \in 0 .. 0 : k = 0
      OBVIOUS
    <3>2. QED  BY <3>1
  <2> HIDE DEF g
  <2>2. Chain(g, 0, s, u)
    BY <2>1 DEF Chain
  <2>3. QED  BY <2>2
<1>3. ASSUME NEW m \in S
      PROVE  m + 1 \in S
  <2>1. PICK f : Chain(f, m, s, u)
    OBVIOUS
  <2>2. m \in Nat
    OBVIOUS
  <2> DEFINE g == [k \in 0 .. m + 1 |-> IF k = m + 1 THEN WorkDone(f[m], u[m + 1]) ELSE f[k]]
  <2>3. ASSUME NEW k \in 0 .. m + 1
        PROVE  g[k] = IF k = 0 THEN s ELSE WorkDone(g[k - 1], u[k])
    <3>1. CASE k = 0
      <4>1. k # m + 1 /\ 0 \in 0 .. m
        BY <2>2, <3>1
      <4>2. f[0] = s
        BY <2>1, <4>1 DEF Chain
      <4>3. QED  BY <3>1, <4>1, <4>2
    <3>2. CASE k # 0
      <4>1. k - 1 \in 0 .. m + 1 /\ k - 1 # m + 1
        BY <2>2, <3>2
      <4>2. g[k - 1] = f[k - 1]
        BY <4>1
      <4>3. CASE k = m + 1
        <5>1. k - 1 = m
          BY <2>2, <4>3
        <5>2. QED  BY <3>2, <4>2, <4>3, <5>1
      <4>4. CASE k # m + 1
        <5>1. k \in 0 .. m
          BY <2>2, <4>4
        <5>2. f[k] = WorkDone(f[k - 1], u[k])
          BY <2>1, <3>2, <5>1 DEF Chain
        <5>3. QED  BY <3>2, <4>2, <4>4, <5>2
      <4>5. QED  BY <4>3, <4>4
    <3>3. QED  BY <3>1, <3>2
  <2>4. g = [k \in 0 .. m + 1 |-> g[k]]
    OBVIOUS
  <2> HIDE DEF g
  <2>5. Chain(g, m + 1, s, u)
    BY <2>3, <2>4 DEF Chain
  <2>6. QED  BY <2>2, <2>5
<1> HIDE DEF S
<1>4. S = Nat
  BY <1>1, <1>2, <1>3, Induction
<1>5. QED  BY <1>4 DEF S

(* Two that take the same items from the same states agree; so do one and  *)
(* another that goes on.                                                   *)
LEMMA ChainsAgree ==
  ASSUME NEW n \in Nat, NEW m \in Nat, n <= m, NEW s, NEW u, NEW v, NEW f, NEW g,
         Chain(f, n, s, u), Chain(g, m, s, v),
         \A k \in 1 .. n : u[k].new = v[k].new /\ u[k].on = v[k].on
  PROVE  f[n] = g[n]
<1> DEFINE S == {k \in Nat : k <= n => f[k] = g[k]}
<1>1. S \subseteq Nat
  OBVIOUS
<1>2. 0 \in S
  <2>1. 0 \in 0 .. n /\ 0 \in 0 .. m
    OBVIOUS
  <2>2. f[0] = s /\ g[0] = s
    BY <2>1 DEF Chain
  <2>3. QED  BY <2>2
<1>3. ASSUME NEW k \in S
      PROVE  k + 1 \in S
  <2>1. k + 1 \in Nat /\ k \in Nat
    OBVIOUS
  <2>2. CASE k + 1 <= n
    <3>1. /\ k <= n /\ k + 1 \in 1 .. n /\ k + 1 \in 0 .. n /\ k + 1 \in 0 .. m
          /\ (k + 1) - 1 = k /\ k + 1 # 0
      BY <2>1, <2>2
    <3>2. f[k] = g[k]
      BY <3>1
    <3>3. f[k + 1] = WorkDone(f[k], u[k + 1]) /\ g[k + 1] = WorkDone(g[k], v[k + 1])
      BY <3>1 DEF Chain
    <3>4. QED  BY <2>1, <3>1, <3>2, <3>3 DEF WorkDone
  <2>3. QED  BY <2>1, <2>2
<1> HIDE DEF S
<1>4. S = Nat
  BY <1>1, <1>2, <1>3, Induction
<1>5. QED  BY <1>4 DEF S

(* One item more at the end.                                               *)
LEMMA ChainMore ==
  ASSUME NEW n \in Nat, NEW s, NEW u, NEW v, NEW f, NEW g,
         Chain(f, n, s, u), Chain(g, n + 1, s, v),
         \A k \in 1 .. n : u[k].new = v[k].new /\ u[k].on = v[k].on
  PROVE  g[n + 1] = WorkDone(f[n], v[n + 1])
<1>1. n + 1 \in Nat /\ n <= n + 1 /\ n + 1 \in 0 .. n + 1 /\ n + 1 # 0 /\ (n + 1) - 1 = n
  OBVIOUS
<1>2. f[n] = g[n]
  BY <1>1, ChainsAgree
<1>3. g[n + 1] = WorkDone(g[n], v[n + 1])
  BY <1>1 DEF Chain
<1>4. QED  BY <1>2, <1>3

(* The first item less.                                                    *)
LEMMA ChainLess ==
  ASSUME NEW n \in Nat, NEW s, NEW t, NEW u, NEW v, NEW f, NEW g,
         Chain(f, n + 1, s, u), Chain(g, n, t, v), t = WorkDone(s, u[1]),
         \A k \in 1 .. n : v[k].new = u[k + 1].new /\ v[k].on = u[k + 1].on
  PROVE  g[n] = f[n + 1]
<1> DEFINE h == [k \in 0 .. n |-> f[k + 1]]
           w == [k \in 1 .. n |-> u[k + 1]]
<1>1. ASSUME NEW k \in 0 .. n
      PROVE  h[k] = IF k = 0 THEN t ELSE WorkDone(h[k - 1], w[k])
  <2>1. k + 1 \in 0 .. n + 1 /\ k + 1 # 0 /\ (k + 1) - 1 = k
    OBVIOUS
  <2>2. f[k + 1] = WorkDone(f[k], u[k + 1])
    BY <2>1 DEF Chain
  <2>3. CASE k = 0
    <3>1. f[0] = s
      <4>1. 0 \in 0 .. n + 1
        OBVIOUS
      <4>2. QED  BY <4>1 DEF Chain
    <3>2. k + 1 = 1
      BY <2>3
    <3>3. QED  BY <2>2, <2>3, <3>1, <3>2
  <2>4. CASE k # 0
    <3>1. k \in 1 .. n /\ k - 1 \in 0 .. n /\ (k - 1) + 1 = k
      BY <2>4
    <3>2. h[k - 1] = f[k]
      BY <3>1
    <3>3. QED  BY <2>2, <2>4, <3>1, <3>2
  <2>5. QED  BY <2>3, <2>4
<1>2. h = [k \in 0 .. n |-> h[k]] /\ h[n] = f[n + 1]
  OBVIOUS
<1>3. \A k \in 1 .. n : v[k].new = w[k].new /\ v[k].on = w[k].on
  OBVIOUS
<1> HIDE DEF h, w
<1>4. Chain(h, n, t, w)
  BY <1>1, <1>2 DEF Chain
<1>5. g[n] = h[n]
  BY <1>3, <1>4, ChainsAgree
<1>6. QED  BY <1>2, <1>5

(* The recursive definition of AfterWork has what it describes.            *)
LEMMA AfterWorkIs ==
  ASSUME Len(Unfinished) \in Nat
  PROVE  \E f : Chain(f, Len(Unfinished), sb_thread, Unfinished) /\ AfterWork = f[Len(Unfinished)]
<1> DEFINE n == Len(Unfinished)
           Rec(f) == [k \in 0 .. n |-> IF k = 0 THEN sb_thread
                       ELSE Decoded(Restarted(f[k - 1], Unfinished[k].new), Unfinished[k].on)]
           h == CHOOSE f : f = Rec(f)
<1>1. AfterWork = h[n]
  BY Zenon DEF AfterWork
<1>2. PICK f : Chain(f, n, sb_thread, Unfinished)
  BY ChainExists
<1>3. \A g : Chain(g, n, sb_thread, Unfinished) <=> g = Rec(g)
  BY DEF Chain, WorkDone
<1>4. h = Rec(h)
  <2> HIDE DEF Rec
  <2>1. QED  BY <1>2, <1>3
<1>5. QED  BY <1>1, <1>3, <1>4

Base == Worked + One(tpc = "count")
Size == Left - One(tpc = "count") + One(mpc = "start")
UnfinishedInv ==
  /\ Size \in Nat /\ Base \in Nat /\ Base + Size <= MaxCnt
  /\ Base + Size = Used + One(mpc = "start") /\ Len(Unfinished) = Size
  /\ \A b \in Nat : b = Base =>
       \A k \in 1 .. Size : b + (k - 1) \in 0 .. MaxCnt - 1 /\ Unfinished[k] = items[SlotAt(b + (k - 1))]
AfterInv ==
  /\ UnfinishedInv
  /\ \E f : Chain(f, Size, sb_thread, Unfinished) /\ AfterWork = f[Size]

(* Where the unfinished items lie: in the slots from the first one that is *)
(* not counted as finished.                                                *)
LEMMA UnfinishedIs ==
  ASSUME Inv
  PROVE  UnfinishedInv
<1> DEFINE from == IF tpc = "count" THEN Inc(i_done) ELSE i_done
           c == One(tpc = "count")
<1>1. /\ Used \in 0 .. MaxCnt /\ Worked \in 0 .. Used /\ Left \in 0 .. Used
      /\ Left = Used - Worked /\ MaxCnt \in Nat \ {0}
      /\ SlotOf(i_done) = SlotAt(Worked) /\ SlotOf(i_reaped) \in 0 .. MaxCnt - 1
  BY SlotArithmetic DEF Inv, Handover, CountInv, Slots
<1>2. /\ tpc = "count" => Left > 0
      /\ mpc = "start" => Used < MaxCnt
  BY DEF Inv, Handover, SemInv, CallInv
<1>3. c \in {0, 1} /\ One(mpc = "start") \in {0, 1} /\ (c = 1 => Left > 0)
      /\ (One(mpc = "start") = 1 => Used < MaxCnt)
  BY <1>2 DEF One
<1>4. /\ Size \in Nat /\ Base \in Nat /\ Base + Size <= MaxCnt
      /\ Base + Size = Used + One(mpc = "start") /\ Base = Worked + c /\ Base <= Used
  BY <1>1, <1>3 DEF Base, Size
<1>5. i_ready \in Counts /\ i_done \in Counts /\ i_reaped \in Counts
  BY DEF Inv, TypeOK
<1>6. Diff(i_ready, from) = Left - c /\ from \in Int
  <2>1. tpc = "count" => Diff(i_ready, Inc(i_done)) = Left - 1
    BY <1>1, <1>2, <1>5, Distances DEF Used, Worked, Left
  <2>2. i_done \in Int /\ Inc(i_done) \in Int
    BY <1>5, IncWraps, CntModAssumption DEF Counts
  <2>3. Left - 0 = Left
    BY <1>1
  <2>4. QED  BY <2>1, <2>2, <2>3 DEF Left, One
<1>7. SlotOf(from) = SlotAt(Base)
  <2>1. SlotOf(Inc(i_done)) = IF SlotOf(i_done) + 1 = MaxCnt THEN 0 ELSE SlotOf(i_done) + 1
    BY <1>5, IncWraps
  <2>2. CASE tpc = "count"
    <3>1. Base = Worked + 1 /\ Base <= MaxCnt /\ c = 1
      BY <1>1, <1>4, <2>2 DEF One
    <3>2. SlotAt(Worked + 1) = IF SlotAt(Worked) + 1 = MaxCnt THEN 0 ELSE SlotAt(Worked) + 1
      BY <1>1, <3>1 DEF SlotAt
    <3>3. QED  BY <1>1, <2>1, <2>2, <3>1, <3>2
  <2>3. CASE tpc # "count"
    <3>1. Base = Worked
      BY <1>1, <1>4, <2>3 DEF One
    <3>2. QED  BY <1>1, <2>3, <3>1
  <2>4. QED  BY <2>2, <2>3
<1>8. Unfinished = [k \in 1 .. Size |-> items[SlotOf(from + k - 1)]]
  <2>1. Diff(i_ready, from) + (IF mpc = "start" THEN 1 ELSE 0) = Size
    BY <1>6 DEF Size, One
  <2> HIDE DEF from
  <2>2. Unfinished = [k \in 1 .. Diff(i_ready, from) + (IF mpc = "start" THEN 1 ELSE 0)
                        |-> items[SlotOf(from + k - 1)]]
    BY DEF Unfinished, from
  <2>3. QED  BY <2>1, <2>2
<1>9. Len(Unfinished) = Size
  BY <1>4, <1>8
<1>10. ASSUME NEW k \in 1 .. Size
       PROVE  Base + (k - 1) \in 0 .. MaxCnt - 1 /\ Unfinished[k] = items[SlotAt(Base + (k - 1))]
  <2>1. k - 1 \in 0 .. MaxCnt /\ Base + (k - 1) \in 0 .. MaxCnt - 1 /\ k - 1 \in Nat
    BY <1>1, <1>4
  <2>2. (from + (k - 1)) % MaxCnt = IF (from % MaxCnt) + (k - 1) >= MaxCnt
                                    THEN (from % MaxCnt) + (k - 1) - MaxCnt
                                    ELSE (from % MaxCnt) + (k - 1)
    BY <1>1, <1>6, <2>1, AddMod
  <2>3. from + k - 1 = from + (k - 1)
    BY <1>6
  <2> HIDE DEF from
  <2>4. SlotOf(from + k - 1) = IF SlotAt(Base) + (k - 1) >= MaxCnt
                               THEN SlotAt(Base) + (k - 1) - MaxCnt ELSE SlotAt(Base) + (k - 1)
    BY <1>7, <2>2, <2>3 DEF SlotOf
  <2>5. SlotOf(from + k - 1) = SlotAt(Base + (k - 1))
    BY <1>1, <1>4, <2>1, <2>4 DEF SlotAt
  <2>6. QED  BY <1>8, <2>1, <2>5
<1>11. QED  BY <1>4, <1>9, <1>10 DEF UnfinishedInv

(* What AfterWork is: the end of the chain through those items.            *)
LEMMA AfterIs == Inv => AfterInv
<1> SUFFICES ASSUME Inv  PROVE AfterInv
  OBVIOUS
<1>1. UnfinishedInv
  BY UnfinishedIs
<1>2. Len(Unfinished) = Size /\ Size \in Nat
  BY <1>1 DEF UnfinishedInv
<1>3. \E f : Chain(f, Size, sb_thread, Unfinished) /\ AfterWork = f[Size]
  BY <1>2, AfterWorkIs
<1>4. QED  BY <1>1, <1>3 DEF AfterInv

LEMMA AfterNext == Inv' => AfterInv'
BY AfterIs, PTL

(* A step that leaves them and the thread's decoder states alone.          *)
LEMMA AfterSame ==
  ASSUME Inv, Inv', sb_thread' = sb_thread, Size' = Size,
         \A k \in 1 .. Size : Unfinished'[k].new = Unfinished[k].new /\ Unfinished'[k].on = Unfinished[k].on
  PROVE  AfterWork' = AfterWork
<1>1. Size \in Nat
  BY UnfinishedIs DEF UnfinishedInv
<1>2. PICK f : Chain(f, Size, sb_thread, Unfinished) /\ AfterWork = f[Size]
  BY AfterIs DEF AfterInv
<1>3. PICK g : Chain(g, Size', sb_thread', Unfinished') /\ AfterWork' = g[Size']
  BY AfterNext DEF AfterInv
<1>4. Chain(g, Size, sb_thread, Unfinished')
  BY <1>3
<1>5. g[Size] = f[Size]
  BY <1>1, <1>2, <1>4, ChainsAgree
<1>6. QED  BY <1>2, <1>3, <1>5

(* What leaves the items that are unfinished alone.                        *)
LEMMA AfterStill ==
  ASSUME Inv, Inv', UNCHANGED <<i_ready, i_done, i_reaped, sb_thread>>,
         \A i \in Slots : items'[i].new = items[i].new /\ items'[i].on = items[i].on,
         tpc' = "count" <=> tpc = "count", mpc' = "start" <=> mpc = "start"
  PROVE  AfterWork' = AfterWork
<1>1. UnfinishedInv /\ UnfinishedInv'
  BY AfterIs, AfterNext DEF AfterInv
<1>2. Worked' = Worked /\ Left' = Left /\ \A k : SlotAt(k)' = SlotAt(k)
  BY CounterEffects DEF Inv
<1>3. Size' = Size /\ Base' = Base
  BY <1>2 DEF Size, Base, One
<1>4. MaxCnt \in Nat /\ \A k \in 0 .. MaxCnt - 1 : SlotAt(k) \in Slots
  BY SlotArithmetic DEF Inv, Handover
<1>5. ASSUME NEW k \in 1 .. Size
      PROVE  Unfinished'[k].new = Unfinished[k].new /\ Unfinished'[k].on = Unfinished[k].on
  <2>1. PICK b \in Nat : b = Base
    BY <1>1 DEF UnfinishedInv
  <2>2. b + (k - 1) \in 0 .. MaxCnt - 1 /\ Unfinished[k] = items[SlotAt(b + (k - 1))]
    BY <1>1, <2>1 DEF UnfinishedInv
  <2>3. Unfinished'[k] = items'[SlotAt(b + (k - 1))']
    BY <1>1, <1>3, <2>1 DEF UnfinishedInv
  <2>4. SlotAt(b + (k - 1)) \in Slots /\ SlotAt(b + (k - 1))' = SlotAt(b + (k - 1))
    BY <1>2, <1>4, <2>2
  <2>5. QED  BY <2>2, <2>3, <2>4
<1>6. QED  BY <1>3, <1>5, AfterSame

(* What Inv says of the slots in use.                                      *)
LEMMA Facts ==
  ASSUME Inv
  PROVE  /\ Used \in 0 .. MaxCnt /\ Worked \in 0 .. Used /\ Left \in 0 .. Used
         /\ Left = Used - Worked /\ MaxCnt \in Nat \ {0}
         /\ SlotOf(i_reaped) = SlotAt(0) /\ SlotOf(i_reaped) \in 0 .. MaxCnt - 1
         /\ SlotOf(i_ready) = SlotAt(Used) /\ SlotOf(i_done) = SlotAt(Worked)
         /\ SlotOf(i_ready) \in Slots /\ SlotOf(i_done) \in Slots
         /\ \A k \in 0 .. MaxCnt - 1 : SlotAt(k) \in Slots
         /\ \A j, k \in 0 .. MaxCnt - 1 : SlotAt(j) = SlotAt(k) => j = k
         /\ items \in [Slots -> Items]
<1>1. TypeOK /\ CountInv
  BY DEF Inv, Handover
<1>2. items \in [Slots -> Items]
  BY <1>1 DEF TypeOK
<1>3. SlotOf(i_reaped) \in 0 .. MaxCnt - 1
  BY <1>1, SlotArithmetic DEF Slots
<1>4. /\ Left = Used - Worked /\ SlotOf(i_ready) = SlotAt(Used)
      /\ SlotOf(i_done) = SlotAt(Worked)
  BY <1>1 DEF CountInv
<1>5. QED  BY <1>1, <1>2, <1>3, <1>4, SlotArithmetic

(* Start counts the item that was unfinished before.                       *)
LEMMA StartAfter ==
  ASSUME Inv, Inv', Start
  PROVE  AfterWork' = AfterWork
<1>1. UnfinishedInv /\ UnfinishedInv'
  BY AfterIs, AfterNext DEF AfterInv
<1>2. /\ Worked' = Worked /\ Left' = Left + 1 /\ i_reaped' = i_reaped /\ items' = items
      /\ tpc' = tpc /\ mpc = "start" /\ mpc' # "start" /\ sb_thread' = sb_thread
  BY CounterEffects DEF Inv, Start, TypeOK, OpRecords, decoders
<1>3. Left \in Nat /\ Worked \in Nat
  BY SlotArithmetic DEF Inv, Handover
<1>4. Size' = Size /\ Base' = Base
  BY <1>2, <1>3 DEF Size, Base, One
<1>5. ASSUME NEW k \in 1 .. Size
      PROVE  Unfinished'[k] = Unfinished[k]
  <2>1. PICK b \in Nat : b = Base
    BY <1>1 DEF UnfinishedInv
  <2>2. Unfinished[k] = items[SlotAt(b + (k - 1))]
    BY <1>1, <2>1 DEF UnfinishedInv
  <2>3. Unfinished'[k] = items'[SlotAt(b + (k - 1))']
    BY <1>1, <1>4, <2>1 DEF UnfinishedInv
  <2>4. SlotAt(b + (k - 1))' = SlotAt(b + (k - 1))
    BY <1>2 DEF SlotAt
  <2>5. QED  BY <1>2, <2>2, <2>3, <2>4
<1>6. QED  BY <1>2, <1>4, <1>5, AfterSame

(* The item that is counted is no longer among them.                       *)
LEMMA CountAfter ==
  ASSUME Inv, Inv', Count
  PROVE  AfterWork' = AfterWork
<1>1. UnfinishedInv /\ UnfinishedInv'
  BY AfterIs, AfterNext DEF AfterInv
<1>2. /\ Worked' = Worked + 1 /\ Left' = Left - 1 /\ i_reaped' = i_reaped /\ items' = items
      /\ tpc = "count" /\ tpc' = "post" /\ mpc' = mpc /\ sb_thread' = sb_thread
  BY CounterEffects DEF Inv, Count, main
<1>3. Left \in Nat /\ Worked \in Nat
  BY SlotArithmetic DEF Inv, Handover
<1>4. Size' = Size /\ Base' = Base
  BY <1>2, <1>3 DEF Size, Base, One
<1>5. ASSUME NEW k \in 1 .. Size
      PROVE  Unfinished'[k] = Unfinished[k]
  <2>1. PICK b \in Nat : b = Base
    BY <1>1 DEF UnfinishedInv
  <2>2. Unfinished[k] = items[SlotAt(b + (k - 1))]
    BY <1>1, <2>1 DEF UnfinishedInv
  <2>3. Unfinished'[k] = items'[SlotAt(b + (k - 1))']
    BY <1>1, <1>4, <2>1 DEF UnfinishedInv
  <2>4. SlotAt(b + (k - 1))' = SlotAt(b + (k - 1))
    BY <1>2 DEF SlotAt
  <2>5. QED  BY <1>2, <2>2, <2>3, <2>4
<1>6. QED  BY <1>2, <1>4, <1>5, AfterSame

(* Mix drops a finished item, so the others lie one slot nearer to the     *)
(* first.                                                                  *)
LEMMA MixAfter ==
  ASSUME Inv, Inv', Mix
  PROVE  AfterWork' = AfterWork
<1>1. UnfinishedInv /\ UnfinishedInv'
  BY AfterIs, AfterNext DEF AfterInv
<1>2. /\ Worked' = Worked - 1 /\ Left' = Left /\ Worked > 0 /\ i_reaped' = Inc(i_reaped)
      /\ items' = [items EXCEPT ![SlotOf(i_reaped)] = NoItem]
      /\ tpc' = tpc /\ mpc = "mix" /\ mpc' = "sync" /\ sb_thread' = sb_thread
  BY CounterEffects DEF Inv, Mix, decoders
<1>3. /\ Left \in Nat /\ Worked \in Nat /\ MaxCnt \in Nat \ {0}
      /\ SlotOf(i_reaped) = SlotAt(0) /\ SlotOf(i_reaped) \in 0 .. MaxCnt - 1
      /\ \A k \in 0 .. MaxCnt - 1 : SlotAt(k) \in Slots
      /\ \A j, k \in 0 .. MaxCnt - 1 : SlotAt(j) = SlotAt(k) => j = k
      /\ items \in [Slots -> Items]
  BY Facts
<1>4. Size' = Size /\ Base' = Base - 1 /\ Base > 0 /\ Base \in Nat
  BY <1>2, <1>3 DEF Size, Base, One
<1>5. SlotOf(i_reaped') = IF SlotOf(i_reaped) + 1 = MaxCnt THEN 0 ELSE SlotOf(i_reaped) + 1
  BY <1>2, IncWraps DEF Inv, TypeOK
<1>6. ASSUME NEW k \in 1 .. Size
      PROVE  Unfinished'[k] = Unfinished[k]
  <2>1. PICK b \in Nat : b = Base
    BY <1>4
  <2>2. b + (k - 1) \in 0 .. MaxCnt - 1 /\ Unfinished[k] = items[SlotAt(b + (k - 1))]
    BY <1>1, <2>1 DEF UnfinishedInv
  <2>3. PICK c \in Nat : c = b - 1
    BY <1>4, <2>1
  <2>4. Unfinished'[k] = items'[SlotAt(c + (k - 1))']
    BY <1>1, <1>4, <2>1, <2>3 DEF UnfinishedInv
  <2>5. SlotAt(c + (k - 1))' = SlotAt(b + (k - 1))
    <3>1. b > 0 /\ c + (k - 1) + 1 = b + (k - 1) /\ c + (k - 1) \in Nat
      BY <1>4, <2>1, <2>3
    <3>2. PICK m \in Nat : m = c + (k - 1)
      BY <3>1
    <3>3. m + 1 = b + (k - 1) /\ m + 1 <= MaxCnt - 1
      BY <1>3, <2>2, <3>1, <3>2
    <3>4. SlotAt(m)' = SlotAt(m + 1)
      <4>1. m \in Nat /\ m + 1 \in 0 .. MaxCnt - 1
        BY <1>3, <3>3
      <4>2. SlotOf(i_reaped) \in 0 .. MaxCnt - 1 /\ MaxCnt \in Nat \ {0}
        BY <1>3
      <4>3. QED  BY <1>5, <4>1, <4>2 DEF SlotAt
    <3>5. QED  BY <3>2, <3>3, <3>4
  <2>6. SlotAt(b + (k - 1)) \in Slots /\ SlotAt(b + (k - 1)) # SlotOf(i_reaped)
    <3>1. b + (k - 1) # 0 /\ 0 \in 0 .. MaxCnt - 1
      BY <1>3, <1>4, <2>1
    <3>2. QED  BY <1>3, <2>2, <3>1
  <2>7. items'[SlotAt(b + (k - 1))] = items[SlotAt(b + (k - 1))]
    BY <1>2, <1>3, <2>6
  <2>8. QED  BY <2>2, <2>4, <2>5, <2>7
<1>7. QED  BY <1>2, <1>4, <1>6, AfterSame

(* The thread takes the first item and decodes it: the chain is shorter    *)
(* and begins one item further on.                                         *)
LEMMA WorkAfter ==
  ASSUME Inv, Inv', Work
  PROVE  AfterWork' = AfterWork
<1>1. UnfinishedInv /\ UnfinishedInv'
  BY AfterIs, AfterNext DEF AfterInv
<1>2. /\ UNCHANGED <<i_ready, i_done, i_reaped, mpc>> /\ tpc = "work" /\ tpc' = "count"
      /\ items' = [items EXCEPT ![SlotOf(i_done)].done = TRUE]
      /\ sb_thread' = WorkDone(sb_thread, items[SlotOf(i_done)])
  BY DEF Work, Item, WorkDone
<1>3. /\ Worked' = Worked /\ Left' = Left /\ \A k : SlotAt(k)' = SlotAt(k)
      /\ Left > 0 /\ Left \in Nat /\ Worked \in Nat
  <2>1. Worked' = Worked /\ Left' = Left /\ \A k : SlotAt(k)' = SlotAt(k)
    BY <1>2, CounterEffects DEF Inv
  <2>2. Left > 0
    BY <1>2 DEF Inv, Handover, SemInv
  <2>3. QED  BY <2>1, <2>2, Facts
<1>4. /\ MaxCnt \in Nat \ {0} /\ \A k \in 0 .. MaxCnt - 1 : SlotAt(k) \in Slots
      /\ SlotOf(i_done) = SlotAt(Worked)
      /\ items \in [Slots -> Items] /\ SlotOf(i_done) \in Slots
  BY Facts
<1>5. Base = Worked /\ Base' = Base + 1 /\ Size = Size' + 1 /\ Size' \in Nat
  <2>1. /\ Base = Worked /\ Base' = Worked + 1
        /\ Size = Left + One(mpc = "start") /\ Size' = (Left - 1) + One(mpc = "start")
    BY <1>2, <1>3 DEF Size, Base, One
  <2>2. One(mpc = "start") \in {0, 1}
    BY DEF One
  <2>3. QED  BY <1>3, <2>1, <2>2
<1>6. \A i \in Slots : items'[i].new = items[i].new /\ items'[i].on = items[i].on
  BY <1>2, <1>4 DEF Items
<1>7. PICK b \in Nat : b = Base
  BY <1>3, <1>5
<1>8. Unfinished[1] = items[SlotOf(i_done)]
  <2>1. 1 \in 1 .. Size
    <3>1. PICK n \in Nat : n = Size'
      BY <1>5
    <3>2. Size = n + 1
      BY <1>5, <3>1
    <3>3. QED  BY <3>2
  <2>2. Unfinished[1] = items[SlotAt(b + (1 - 1))]
    BY <1>1, <1>7, <2>1 DEF UnfinishedInv
  <2>3. b + (1 - 1) = Worked
    BY <1>5, <1>7
  <2>4. QED  BY <1>4, <2>2, <2>3
<1>9. ASSUME NEW k \in 1 .. Size'
      PROVE  /\ Unfinished'[k].new = Unfinished[k + 1].new
             /\ Unfinished'[k].on = Unfinished[k + 1].on
  <2>1. k + 1 \in 1 .. Size /\ (k + 1) - 1 = k /\ (b + 1) + (k - 1) = b + k
    <3>1. PICK n \in Nat : n = Size'
      BY <1>5
    <3>2. Size = n + 1 /\ k \in 1 .. n
      BY <1>5, <3>1
    <3>3. QED  BY <3>2
  <2>2. b + k \in 0 .. MaxCnt - 1 /\ Unfinished[k + 1] = items[SlotAt(b + k)]
    <3>1. /\ b + ((k + 1) - 1) \in 0 .. MaxCnt - 1
          /\ Unfinished[k + 1] = items[SlotAt(b + ((k + 1) - 1))]
      BY <1>1, <1>7, <2>1 DEF UnfinishedInv
    <3>2. QED  BY <2>1, <3>1
  <2>3. Unfinished'[k] = items'[SlotAt(b + k)']
    <3>1. PICK c \in Nat : c = b + 1
      BY <1>7
    <3>2. Unfinished'[k] = items'[SlotAt(c + (k - 1))']
      BY <1>1, <1>5, <1>7, <3>1 DEF UnfinishedInv
    <3>3. QED  BY <2>1, <3>1, <3>2
  <2>4. SlotAt(b + k)' = SlotAt(b + k) /\ SlotAt(b + k) \in Slots
    BY <1>3, <1>4, <2>2
  <2>5. QED  BY <1>6, <2>2, <2>3, <2>4
<1>10. PICK f : Chain(f, Size, sb_thread, Unfinished) /\ AfterWork = f[Size]
  BY AfterIs DEF AfterInv
<1>11. PICK g : Chain(g, Size', sb_thread', Unfinished') /\ AfterWork' = g[Size']
  BY AfterNext DEF AfterInv
<1>12. PICK n \in Nat : n = Size'
  BY <1>5
<1>13. Chain(f, n + 1, sb_thread, Unfinished) /\ Chain(g, n, sb_thread', Unfinished')
  BY <1>5, <1>10, <1>11, <1>12
<1>14. sb_thread' = WorkDone(sb_thread, Unfinished[1])
  BY <1>2, <1>8
<1>15. g[n] = f[n + 1]
  BY <1>9, <1>12, <1>13, <1>14, ChainLess
<1>16. QED  BY <1>5, <1>10, <1>11, <1>12, <1>15

(* Queue adds an item: the chain goes one item on, from the main thread's  *)
(* decoder states when the thread had no work.                             *)
LEMMA QueueAfter ==
  ASSUME Inv, Inv', Queue
  PROVE  /\ prev => AfterWork' = Decoded(Restarted(AfterWork, newch), On)
         /\ ~prev /\ Used = 0 =>
              AfterWork' = Decoded(Restarted(Copied(sb_thread, sb, audible \ newch), newch), On)
<1> DEFINE new == [new |-> newch, on |-> On, rvb |-> rvb, done |-> FALSE]
<1>1. UnfinishedInv /\ UnfinishedInv'
  BY AfterIs, AfterNext DEF AfterInv
<1>2. /\ UNCHANGED <<i_ready, i_done, i_reaped, tpc>> /\ mpc = "queue" /\ mpc' = "start"
      /\ items' = [items EXCEPT ![SlotOf(i_ready)] = new]
      /\ sb_thread' = IF ~prev THEN Copied(sb_thread, sb, audible \ newch) ELSE sb_thread
  BY DEF Queue, NotInThread
<1>3. /\ Worked' = Worked /\ Left' = Left /\ \A k : SlotAt(k)' = SlotAt(k)
      /\ Left \in Nat /\ Worked \in Nat /\ Used \in Nat
      /\ Used < MaxCnt /\ MaxCnt \in Nat
  <2>1. Worked' = Worked /\ Left' = Left /\ \A k : SlotAt(k)' = SlotAt(k)
    BY <1>2, CounterEffects DEF Inv
  <2>2. Used < MaxCnt
    BY <1>2 DEF Inv, Handover, CallInv
  <2>3. QED  BY <2>1, <2>2, Facts
<1>4. /\ \A k \in 0 .. MaxCnt - 1 : SlotAt(k) \in Slots
      /\ \A j, k \in 0 .. MaxCnt - 1 : SlotAt(j) = SlotAt(k) => j = k
      /\ SlotOf(i_ready) = SlotAt(Used)
      /\ items \in [Slots -> Items] /\ SlotOf(i_ready) \in Slots
  BY Facts
<1>5. Base' = Base /\ Size' = Size + 1 /\ Base + Size = Used /\ Size \in Nat /\ Base \in Nat
  BY <1>1, <1>2, <1>3 DEF Size, Base, One, UnfinishedInv
<1> HIDE DEF new
<1>6. PICK b \in Nat : b = Base
  BY <1>5
<1>7. ASSUME NEW k \in 1 .. Size
      PROVE  Unfinished'[k] = Unfinished[k]
  <2>1. /\ b + (k - 1) \in 0 .. MaxCnt - 1 /\ Unfinished[k] = items[SlotAt(b + (k - 1))]
        /\ b + (k - 1) # Used /\ Used \in 0 .. MaxCnt - 1 /\ k \in 1 .. Size + 1
    BY <1>1, <1>3, <1>5, <1>6 DEF UnfinishedInv
  <2>2. Unfinished'[k] = items'[SlotAt(b + (k - 1))']
    BY <1>1, <1>5, <1>6, <2>1 DEF UnfinishedInv
  <2>3. SlotAt(b + (k - 1)) \in Slots /\ SlotAt(b + (k - 1)) # SlotOf(i_ready)
    BY <1>4, <2>1
  <2>4. QED  BY <1>2, <1>3, <1>4, <2>1, <2>2, <2>3
<1>8. Unfinished'[Size + 1] = new
  <2>1. PICK n \in Nat : n = Size
    BY <1>5
  <2>2. n + 1 \in 1 .. Size' /\ (n + 1) - 1 = n /\ b + n = Used
    BY <1>5, <1>6, <2>1
  <2>3. Unfinished'[n + 1] = items'[SlotAt(b + ((n + 1) - 1))']
    BY <1>1, <1>5, <1>6, <2>2 DEF UnfinishedInv
  <2>4. Unfinished'[n + 1] = items'[SlotAt(b + n)]
    BY <1>3, <2>2, <2>3
  <2>5. Unfinished'[n + 1] = items'[SlotOf(i_ready)]
    BY <1>4, <2>2, <2>4
  <2>6. items'[SlotOf(i_ready)] = new
    BY <1>2, <1>4
  <2>7. QED  BY <2>1, <2>5, <2>6
<1>9. PICK n \in Nat : n = Size
  BY <1>5
<1>10. PICK g : Chain(g, n + 1, sb_thread', Unfinished') /\ AfterWork' = g[n + 1]
  BY <1>5, <1>9, AfterNext DEF AfterInv
<1>11. PICK f : Chain(f, n, sb_thread', Unfinished)
  BY ChainExists
<1>12. AfterWork' = WorkDone(f[n], new)
  <2>1. \A k \in 1 .. n : Unfinished[k].new = Unfinished'[k].new /\ Unfinished[k].on = Unfinished'[k].on
    BY <1>7, <1>9
  <2>2. g[n + 1] = WorkDone(f[n], Unfinished'[n + 1])
    BY <1>10, <1>11, <2>1, ChainMore
  <2>3. QED  BY <1>8, <1>9, <1>10, <2>2
<1>13. WorkDone(f[n], new) = Decoded(Restarted(f[n], newch), On)
  BY DEF WorkDone, new
<1>14. ASSUME prev
       PROVE  f[n] = AfterWork
  <2>1. PICK h : Chain(h, n, sb_thread, Unfinished) /\ AfterWork = h[n]
    BY <1>9, AfterIs DEF AfterInv
  <2>2. Chain(f, n, sb_thread, Unfinished)
    BY <1>2, <1>11, <1>14
  <2>3. QED  BY <2>1, <2>2, ChainsAgree
<1>15. ASSUME ~prev, Used = 0
       PROVE  f[n] = Copied(sb_thread, sb, audible \ newch)
  <2>1. n = 0
    BY <1>5, <1>9, <1>15
  <2>2. f[0] = sb_thread'
    <3>1. 0 \in 0 .. 0
      OBVIOUS
    <3>2. QED  BY <1>11, <2>1, <3>1 DEF Chain
  <2>3. QED  BY <1>2, <1>15, <2>1, <2>2
<1>16. QED  BY <1>12, <1>13, <1>14, <1>15

(* While the decoder states are the thread's (prev), it exists and         *)
(* channels_last covers the voices that sound; while they are the main     *)
(* thread's, no item is in use.  What decodes in the main thread, uses the *)
(* states or replaces them finds them taken back.                          *)
DecInv ==
  /\ prev => /\ worker /\ audible \subseteq channels_last
             /\ useThread \/ mpc \in {"exit", "join"}
  /\ ~prev => Used = 0 /\ mpc # "start"
  /\ mpc \in {"direct", "ram", "load"} \/ (mpc = "prep" /\ op.force) => ~prev

LEMMA DecInvInit == Init => DecInv
BY DEF Init, DecInv, Used, Diff

LEMMA DecInvStep ==
  ASSUME Inv, Inv', DecInv, [Next]_vars
  PROVE  DecInv'
<1> USE DEF DecInv
<1>1. /\ Used \in 0 .. MaxCnt /\ op \in OpRecords /\ MaxCnt \in Nat \ {0}
      /\ prev \in BOOLEAN /\ worker \in BOOLEAN /\ useThread \in BOOLEAN /\ CallInv /\ LifeInv
  BY Facts DEF Inv, TypeOK, Handover
<1>2. UNCHANGED <<i_ready, i_reaped>> => Used' = Used
  BY DEF Used
<1>3. CASE SamplesCall \/ DmaCall \/ LoadCall
  <2>1. PICK force, short \in BOOLEAN, ret \in {"idle", "ram", "load"} : Begin(force, short, ret)
    BY <1>3 DEF SamplesCall, DmaCall, LoadCall
  <2>2. /\ UNCHANGED <<i_ready, i_reaped, prev, worker, audible, channels_last, useThread>>
        /\ mpc' \in {"sync", ret, "prep"} /\ (worker => mpc' = "sync") /\ mpc = "idle"
    BY <1>3, <2>1 DEF SamplesCall, DmaCall, LoadCall, Call, Begin, ring, decoders, voices, life
  <2>3. QED  BY <1>1, <1>2, <2>2
<1>4. CASE KeyOn \/ KeyOff \/ RvbWrite
  BY <1>1, <1>2, <1>4 DEF KeyOn, KeyOff, RvbWrite, Call, ring, decoders, voices, life
<1>5. CASE SwitchOn
  BY <1>1, <1>2, <1>5, CounterEffects DEF SwitchOn, Call, Fresh, ring, voices, LifeInv, Used, Diff
<1>6. CASE SwitchOff
  BY <1>1, <1>2, <1>6 DEF SwitchOff, Call, ring, decoders, voices
<1>7. CASE Sync
  BY <1>1, <1>2, <1>7 DEF Sync, Again, MustWait, ring, voices, life, OpRecords, CallInv
<1>8. CASE Reap
  BY <1>1, <1>2, <1>8 DEF Reap, ring, decoders, voices, life
<1>9. CASE Mix
  <2>1. Used > 0 /\ mpc = "mix" /\ mpc' = "sync"
    BY <1>1, <1>9, CounterEffects, Facts DEF Mix, Inv
  <2>2. UNCHANGED <<prev, worker, audible, channels_last, useThread>>
    BY <1>9 DEF Mix, decoders, voices, life
  <2>3. QED  BY <1>1, <2>1, <2>2
<1>10. CASE Prep
  BY <1>1, <1>2, <1>10 DEF Prep, InThread, ring, decoders, voices, life
<1>11. CASE Direct
  BY <1>1, <1>2, <1>11 DEF Direct, ring, life, OpRecords
<1>12. CASE Queue
  BY <1>1, <1>2, <1>12 DEF Queue, Advance, life, CallInv, LifeInv
<1>13. CASE Start
  BY <1>1, <1>13 DEF Start, decoders, voices, life, CallInv, OpRecords
<1>14. CASE Ram
  BY <1>1, <1>2, <1>14 DEF Ram, ring, decoders, voices, life
<1>15. CASE Load
  BY <1>1, <1>2, <1>15 DEF Load, ring, life
<1>16. CASE PostExit
  BY <1>1, <1>2, <1>16 DEF PostExit, ring, decoders, voices, life
<1>17. CASE Join
  BY <1>1, <1>17 DEF Join, Fresh, Used, Diff
<1>18. CASE Take \/ Woken \/ Work \/ Count \/ Post
  BY <1>1, <1>2, <1>18 DEF Take, Woken, Work, Count, Post, main, life, voices
<1>19. CASE UNCHANGED vars
  BY <1>1, <1>2, <1>19 DEF vars, ring, decoders, voices, life
<1>20. QED
  BY <1>3, <1>4, <1>5, <1>6, <1>7, <1>8, <1>9, <1>10, <1>11, <1>12, <1>13, <1>14, <1>15,
     <1>16, <1>17, <1>18, <1>19 DEF Next, MainCall, MainStep, Thread

(* A slice more keeps a voice that is decoded from the right state right.  *)
LEMMA AdvanceAgrees ==
  ASSUME Inv, Advance, NEW d, NEW ch \in audible',
         ch \in audible \ newch => truth[ch] = d[ch]
  PROVE  truth'[ch] = Decoded(Restarted(d, newch), On)[ch]
<1>1. audible \subseteq Chans /\ newch \subseteq Chans
  BY DEF Inv, TypeOK
<1>2. ch \in On /\ On \subseteq Chans
  BY <1>1 DEF Advance, On
<1>3. truth' = Decoded(Restarted(truth, newch \cup (Chans \ On)), On)
  BY DEF Advance
<1>4. Restarted(truth, newch \cup (Chans \ On))[ch] = Restarted(d, newch)[ch]
  BY <1>1, <1>2 DEF Restarted, On
<1>5. QED  BY <1>2, <1>3, <1>4 DEF Decoded

(* Steps that touch neither the voices nor what they go on from.           *)
LEMMA TruthKept ==
  ASSUME DecoderTruth, UNCHANGED <<audible, truth, sb, prev>>, AfterWork' = AfterWork,
         mpc' \notin {"exit", "join"} => mpc \notin {"exit", "join"}
  PROVE  DecoderTruth'
BY DEF DecoderTruth

LEMMA TruthStill ==
  ASSUME Inv, Inv', DecoderTruth,
         UNCHANGED <<items, i_ready, i_done, i_reaped, sb_thread, audible, truth, sb, prev>>,
         tpc' = "count" <=> tpc = "count", mpc' = "start" <=> mpc = "start",
         mpc' \notin {"exit", "join"} => mpc \notin {"exit", "join"}
  PROVE  DecoderTruth'
BY AfterStill, TruthKept

(* Each step keeps DecoderTruth.                                           *)
LEMMA TruthStep ==
  ASSUME Inv, Inv', DecInv, DecInv', DecoderTruth, [Next]_vars
  PROVE  DecoderTruth'
<1>1. /\ op \in OpRecords /\ audible \subseteq Chans /\ channels_last \subseteq Chans
      /\ prev \in BOOLEAN
  BY DEF Inv, TypeOK
<1>2. CASE SamplesCall \/ DmaCall \/ LoadCall
  <2>1. PICK force, short \in BOOLEAN, ret \in {"idle", "ram", "load"} : Begin(force, short, ret)
    BY <1>2 DEF SamplesCall, DmaCall, LoadCall
  <2>2. mpc = "idle"
    BY <1>2 DEF SamplesCall, DmaCall, LoadCall, Call
  <2>3. QED  BY <2>1, <2>2, TruthStill DEF Begin, ring, decoders, voices
<1>3. CASE KeyOn \/ KeyOff \/ RvbWrite
  BY <1>3, TruthStill DEF KeyOn, KeyOff, RvbWrite, ring, decoders, voices
<1>4. CASE SwitchOn
  <2>1. CASE Fresh
    <3>1. ~worker \/ UNCHANGED <<ring, prev, tpc>>
      BY <1>4 DEF SwitchOn
    <3>2. UNCHANGED <<sb, sb_thread, audible, truth, mpc>> /\ mpc = "idle" /\ ~prev'
      BY <1>4, <2>1 DEF SwitchOn, Fresh, voices, Call
    <3>3. CASE ~worker
      BY <3>2, <3>3 DEF DecInv, DecoderTruth
    <3>4. CASE UNCHANGED <<ring, prev, tpc>>
      BY <3>2, <3>4, TruthStill DEF ring
    <3>5. QED  BY <3>1, <3>3, <3>4
  <2>2. CASE ~Fresh
    BY <1>4, <2>2, TruthStill DEF SwitchOn, ring, voices
  <2>3. QED  BY <2>1, <2>2
<1>5. CASE SwitchOff
  BY <1>5, TruthStill DEF SwitchOff, Call, ring, decoders, voices
<1>6. CASE Sync
  <2>1. /\ UNCHANGED <<items, i_ready, i_done, i_reaped, sb_thread, audible, truth, tpc>>
        /\ mpc = "sync" /\ mpc' \notin {"start", "exit", "join"}
    BY <1>1, <1>6 DEF Sync, ring, voices, OpRecords
  <2>2. CASE UNCHANGED <<sb, prev>>
    BY <2>1, <2>2, TruthStill
  <2>3. CASE ~UNCHANGED <<sb, prev>>
    <3>1. /\ ~Again /\ op.force /\ prev /\ ~prev'
          /\ sb' = Copied(sb, sb_thread, channels_last)
      BY <1>6, <2>3 DEF Sync
    <3>2. Size = 0
      <4>1. Used = 0 /\ Left = 0
        BY <3>1, Facts DEF Again, MustWait
      <4>2. tpc # "count"
        BY <4>1 DEF Inv, Handover, SemInv
      <4>3. One(tpc = "count") = 0 /\ One(mpc = "start") = 0
        BY <2>1, <4>2 DEF One
      <4>4. QED  BY <4>1, <4>3 DEF Size
    <3>3. AfterWork = sb_thread
      <4>1. PICK f : Chain(f, 0, sb_thread, Unfinished) /\ AfterWork = f[0]
        BY <3>2, AfterIs DEF AfterInv
      <4>2. 0 \in 0 .. 0
        OBVIOUS
      <4>3. QED  BY <4>1, <4>2 DEF Chain
    <3>4. ASSUME NEW ch \in audible'
          PROVE  truth'[ch] = sb'[ch]
      <4>1. ch \in channels_last /\ ch \in Chans /\ ch \in audible
        BY <1>1, <2>1, <3>1 DEF DecInv
      <4>2. truth[ch] = sb_thread[ch]
        BY <2>1, <3>1, <3>3, <4>1 DEF DecoderTruth
      <4>3. QED  BY <2>1, <3>1, <4>1, <4>2 DEF Copied
    <3>5. QED  BY <3>1, <3>4 DEF DecoderTruth
  <2>4. QED  BY <2>2, <2>3
<1>7. CASE Reap \/ Prep \/ Ram \/ PostExit
  BY <1>7, TruthStill DEF Reap, Prep, Ram, PostExit, ring, decoders, voices
<1>8. CASE Mix
  BY <1>8, MixAfter, TruthKept DEF Mix, decoders, voices
<1>9. CASE Direct
  <2>1. ~prev /\ ~prev' /\ sb' = Decoded(Restarted(sb, newch), On) /\ Advance /\ mpc = "direct"
    BY <1>9 DEF Direct, DecInv
  <2>2. \A ch \in audible' : truth'[ch] = sb'[ch]
    BY <2>1, AdvanceAgrees DEF DecoderTruth
  <2>3. QED  BY <2>1, <2>2 DEF DecoderTruth
<1>10. CASE Queue
  <2>1. mpc = "queue" /\ prev' /\ Advance
    BY <1>10 DEF Queue
  <2>2. ASSUME NEW ch \in audible'
        PROVE  truth'[ch] = AfterWork'[ch]
    <3>1. CASE prev
      <4>1. AfterWork' = Decoded(Restarted(AfterWork, newch), On)
        BY <1>10, <3>1, QueueAfter
      <4>2. ch \in audible \ newch => truth[ch] = AfterWork[ch]
        BY <2>1, <3>1 DEF DecoderTruth
      <4>3. QED  BY <2>1, <4>1, <4>2, AdvanceAgrees
    <3>2. CASE ~prev
      <4> DEFINE d == Copied(sb_thread, sb, audible \ newch)
      <4>1. AfterWork' = Decoded(Restarted(d, newch), On)
        BY <1>10, <3>2, QueueAfter DEF DecInv
      <4>2. ch \in audible \ newch => truth[ch] = d[ch]
        BY <1>1, <2>1, <3>2 DEF DecoderTruth, Copied
      <4> HIDE DEF d
      <4>3. QED  BY <2>1, <4>1, <4>2, AdvanceAgrees
    <3>3. QED  BY <1>1, <3>1, <3>2
  <2>3. QED  BY <2>1, <2>2 DEF DecoderTruth
<1>11. CASE Start
  <2>1. mpc' \notin {"exit", "join"} /\ mpc = "start"
    BY <1>1, <1>11 DEF Start, OpRecords
  <2>2. QED  BY <1>11, <2>1, StartAfter, TruthKept DEF Start, decoders, voices
<1>12. CASE Load
  BY <1>12 DEF Load, DecInv, DecoderTruth
<1>13. CASE Join
  BY <1>13 DEF Join, Fresh, DecoderTruth
<1>14. CASE Work
  BY <1>14, WorkAfter, TruthKept DEF Work, voices
<1>15. CASE Count
  BY <1>15, CountAfter, TruthKept DEF Count, main, voices
<1>16. CASE Take \/ Woken \/ Post
  BY <1>16, TruthStill DEF Take, Woken, Post, main, voices
<1>17. CASE UNCHANGED vars
  BY <1>17, TruthStill DEF vars, ring, decoders, voices
<1>18. QED
  BY <1>2, <1>3, <1>4, <1>5, <1>6, <1>7, <1>8, <1>9, <1>10, <1>11, <1>12, <1>13, <1>14,
     <1>15, <1>16, <1>17 DEF Next, MainCall, MainStep, Thread

(* Whichever thread decodes a voice, it goes on from the state its last    *)
(* slice left: no slice is decoded twice, skipped, or begun from the copy  *)
(* of the states that is out of date (spu.c's two copies and               *)
(* prev_work_in_thread).                                                   *)
THEOREM DecodersAreTrue == Spec => []DecoderTruth
<1> DEFINE IInv == Inv /\ DecInv /\ DecoderTruth
<1>1. Init => IInv
  <2>1. Init => DecoderTruth
    BY DEF Init, DecoderTruth
  <2>2. QED  BY <2>1, InvInit, DecInvInit
<1>2. IInv /\ [Next]_vars => IInv'
  BY InvNext, DecInvStep, TruthStep
<1> HIDE DEF IInv
<1>3. IInv => DecoderTruth
  BY DEF IInv
<1>4. QED  BY <1>1, <1>2, <1>3, PTL DEF Spec
=============================================================================
