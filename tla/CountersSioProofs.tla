------------------------ MODULE CountersSioProofs ---------------------------
(***************************************************************************)
(* Proofs about Events, about Counters, which runs on it, and about Sio, a *)
(* component that shares no state and no proof with the two.               *)
(*                                                                         *)
(* Events, for cycles of any width, any events and any handlers that post  *)
(* within the delays assumed: an event is found due exactly when its cycle *)
(* has come, and is served within a bounded time.                          *)
(*                                                                         *)
(* Counters, for frames of any length, any modes, targets and counts, any  *)
(* writes of the program and states loaded at any frame: frames do not     *)
(* drift, and what is posted is what Events assumes.  It is assumed that   *)
(* the frame that is under way is not older than half the range of the     *)
(* cycle counter (InTime).                                                 *)
(*                                                                         *)
(* Sio, for frames of any length, any data, pads of any kind in any of the *)
(* ports, and any moments at which a state is saved: the bytes that come   *)
(* back are the answers to their own exchange, the card holds what was     *)
(* written to it, and an interrupt comes for every byte that is followed   *)
(* by another.  It is assumed that no state is loaded that was saved       *)
(* within an exchange with a pad (~MidPad): the place in such an exchange  *)
(* (reqPos of pad.c) is not saved, and sio_midpad.cfg shows that the bytes *)
(* are then another's.                                                     *)
(***************************************************************************)
EXTENDS Counters, Sio, WellFoundedInduction, SequenceTheorems, TLAPS

-----------------------------------------------------------------------------
(* Facts about remainders, and the least element of a set                  *)

(* Division, for a divisor that is not a number written out: the provers   *)
(* know a remainder only by its range and the equation.                    *)
LEMMA Euclid ==
  ASSUME NEW M \in Nat \ {0}, NEW a \in Int
  PROVE  a % M \in 0 .. M - 1 /\ a \div M \in Int /\ a = M * (a \div M) + (a % M)
BY SMTT(20)

(* A multiple that is less than the divisor is zero.                       *)
LEMMA SmallMultiple ==
  ASSUME NEW M \in Nat \ {0}, NEW q \in Int, M * q < M, -M < M * q
  PROVE  q = 0
<1>1. CASE q >= 1
  <2>1. M * q >= M
    BY <1>1, SMTT(20)
  <2>2. QED  BY <2>1
<1>2. CASE q <= -1
  <2>1. M * q <= -M
    BY <1>2, SMTT(20)
  <2>2. QED  BY <2>1
<1>3. QED  BY <1>1, <1>2

(* The remainder is the one number in range that the equation admits.      *)
LEMMA UniqueRemainder ==
  ASSUME NEW M \in Nat \ {0}, NEW a \in Int, NEW q \in Int, NEW r \in 0 .. M - 1,
         a = M * q + r
  PROVE  a % M = r
<1> DEFINE d == q - (a \div M)
<1>1. a % M \in 0 .. M - 1 /\ a \div M \in Int /\ a = M * (a \div M) + (a % M)
  BY Euclid
<1>2. M * d = (a % M) - r
  <2>1. M * d = M * q - M * (a \div M)
    BY <1>1, SMTT(20)
  <2>2. QED  BY <2>1, <1>1, SMTT(20)
<1>3. d \in Int /\ M * d < M /\ -M < M * d
  BY <1>1, <1>2
<1>4. d = 0
  <2> HIDE DEF d
  <2>1. QED  BY <1>3, SmallMultiple
<1>5. QED  BY <1>1, <1>2, <1>4

(* A number and its remainder differ by a multiple of the divisor.         *)
LEMMA Congruent ==
  ASSUME NEW M \in Nat \ {0}, NEW a \in Int
  PROVE  a % M \in Int /\ \E q \in Int : a % M = a + M * q
<1>1. a % M \in 0 .. M - 1 /\ a \div M \in Int /\ a = M * (a \div M) + (a % M)
  BY Euclid
<1>2. M * (-(a \div M)) = -(M * (a \div M))
  BY <1>1, SMTT(20)
<1>3. a % M = a + M * (-(a \div M))
  BY <1>1, <1>2
<1>4. -(a \div M) \in Int /\ a % M \in Int
  BY <1>1
<1>5. \E q \in Int : a % M = a + M * q
  BY <1>3, <1>4, Zenon
<1>6. QED  BY <1>4, <1>5

(* Numbers that differ by a multiple of the divisor have one remainder.    *)
LEMMA SameRemainder ==
  ASSUME NEW M \in Nat \ {0}, NEW a \in Int, NEW b \in Int, NEW q \in Int,
         a = b + M * q
  PROVE  a % M = b % M
<1>1. b % M \in 0 .. M - 1 /\ b \div M \in Int /\ b = M * (b \div M) + (b % M)
  BY Euclid
<1>2. M * ((b \div M) + q) = M * (b \div M) + M * q
  BY <1>1, SMTT(20)
<1>3. a = M * ((b \div M) + q) + (b % M)
  BY <1>1, <1>2, SMTT(20)
<1>4. (b \div M) + q \in Int
  BY <1>1
<1>5. QED  BY <1>1, <1>3, <1>4, UniqueRemainder

(* A set of integers that is bounded below has a least element.            *)
LEMMA LeastExists ==
  ASSUME NEW S, S \subseteq Int, S # {}, NEW b \in Int, \A x \in S : b <= x
  PROVE  \E x \in S : \A y \in S : x <= y
<1> DEFINE R == OpToRel(<, Nat)
           T == {x - b : x \in S}
<1>1. T \subseteq Nat /\ T # {}
  <2>1. T \subseteq Nat
    <3>1. \A x \in S : x - b \in Nat
      OBVIOUS
    <3>2. QED  BY <3>1
  <2>2. T # {}
    BY Zenon
  <2>3. QED  BY <2>1, <2>2
<1>2. IsWellFoundedOn(R, Nat)
  BY NatLessThanWellFounded
<1>3. PICK m \in T : \A y \in T : ~ (<<y, m>> \in R)
  <2> HIDE DEF R, T
  <2>1. QED  BY <1>1, <1>2, WFMin
<1>4. \A y \in T : m <= y
  <2>1. R = {p \in Nat \X Nat : p[1] < p[2]}
    BY DEF OpToRel
  <2> HIDE DEF R, T
  <2>2. \A y \in T : ~ (y < m)
    BY <1>1, <1>3, <2>1
  <2>3. QED  BY <1>1, <2>2
<1>5. PICK x \in S : m = x - b
  OBVIOUS
<1>6. \A y \in S : x <= y
  <2> TAKE y \in S
  <2>1. y - b \in T
    OBVIOUS
  <2>2. m <= y - b
    BY <2>1, <1>4
  <2>3. QED  BY <2>2, <1>5
<1>7. QED  BY <1>6

-----------------------------------------------------------------------------
Window == Late + Horizon + Slack

(* The inductive invariant: the 32-bit cycles are the true ones modulo     *)
(* 2^32, every event is within a window of the present, and the timeslice  *)
(* ends no later than the events it was not passed over                    *)
TypeInv ==
  /\ interrupt \in SUBSET Event /\ bits \in SUBSET Event /\ missed \in SUBSET interrupt
  /\ pc \in {"run", "test"} /\ resched \in BOOLEAN
  /\ now \in Int /\ slice \in Int /\ due \in [Event -> Int]
  /\ pc = "run" => bits = {}

WrapInv ==
  /\ cycle = now % CycleMod
  /\ next_interupt = slice % CycleMod
  /\ event_cycles = [e \in Event |-> due[e] % CycleMod]

WindowInv ==
  \A e \in interrupt \cup bits : due[e] - now < Half - Window /\ now - due[e] <= Window

SliceInv ==
  /\ slice <= now + Horizon
  /\ now - Late <= slice \/ now - Slack <= slice
  /\ \A e \in interrupt : e \notin missed => slice <= due[e]
  /\ \A e \in missed : slice <= due[e] + Late + Horizon

LateInv ==
  /\ \A e \in interrupt : now <= due[e] + Lateness(e)
  /\ pc = "test" => \A e \in interrupt : e \in bits \/ now <= due[e] + Late

EventInv == TypeInv /\ WrapInv /\ WindowInv /\ SliceInv /\ LateInv

-----------------------------------------------------------------------------
(* What the arithmetic of cycles amounts to                                *)


(* The cycle counter is wide enough for every delay and lateness.          *)
LEMMA Widths ==
  /\ CycleMod \in Nat \ {0} /\ Half \in Nat \ {0} /\ CycleMod = 2 * Half
  /\ Slack \in Nat /\ Late \in Nat /\ Horizon \in Nat /\ Horizon > 0 /\ Window \in Nat
  /\ Window = Late + Horizon + Slack /\ 2 * Window < Half
<1>1. CycleMod \in Nat /\ CycleMod % 2 = 0 /\ Slack \in Nat /\ Late \in Nat
      /\ Horizon \in Nat \ {0} /\ 2 * Late + 2 * Horizon + 2 * Slack < Half
  BY EventsAssumption
<1>2. Half \in Int /\ CycleMod = 2 * Half
  BY <1>1 DEF Half
<1>3. QED  BY <1>1, <1>2 DEF Window

(* A signed difference is the true one when that is less than half the     *)
(* range of a cycle.                                                       *)
LEMMA SignedIs ==
  ASSUME NEW x \in Int, NEW d \in Int, NEW q \in Int, x = d + CycleMod * q,
         -Half <= d, d < Half
  PROVE  Signed(x) = d
<1>1. CycleMod \in Nat \ {0} /\ Half \in Nat \ {0} /\ CycleMod = 2 * Half
  BY Widths
<1>2. x % CycleMod = d % CycleMod
  BY <1>1, SameRemainder
<1>3. CASE d >= 0
  <2>1. CycleMod * 0 = 0
    BY <1>1, SMTT(20)
  <2>2. d \in 0 .. CycleMod - 1 /\ d = CycleMod * 0 + d
    BY <1>1, <1>3, <2>1
  <2>3. d % CycleMod = d
    BY <1>1, <2>2, UniqueRemainder
  <2>4. QED  BY <1>2, <1>3, <2>3 DEF Signed
<1>4. CASE d < 0
  <2>1. CycleMod * (-1) = -CycleMod
    BY <1>1, SMTT(20)
  <2>2. d + CycleMod \in 0 .. CycleMod - 1 /\ d = CycleMod * (-1) + (d + CycleMod)
    BY <1>1, <1>4, <2>1
  <2>3. d % CycleMod = d + CycleMod
    BY <1>1, <2>2, UniqueRemainder
  <2>4. QED  BY <1>1, <1>2, <1>4, <2>3 DEF Signed
<1>5. QED  BY <1>3, <1>4

(* The signed difference of two cycles is the difference of the true ones, *)
(* if they are near.                                                       *)
LEMMA SignedDifference ==
  ASSUME NEW a \in Int, NEW b \in Int, NEW j \in Int, NEW k \in Int,
         -Half <= a + j - (b + k), a + j - (b + k) < Half
  PROVE  Signed((a % CycleMod) + j - ((b % CycleMod) + k)) = a + j - (b + k)
<1>1. CycleMod \in Nat \ {0}
  BY Widths
<1>2. PICK q \in Int : a % CycleMod = a + CycleMod * q
  BY <1>1, Congruent
<1>3. PICK r \in Int : b % CycleMod = b + CycleMod * r
  BY <1>1, Congruent
<1>4. CycleMod * (q - r) = CycleMod * q - CycleMod * r
  BY <1>1, SMTT(20)
<1>5. (a % CycleMod) + j - ((b % CycleMod) + k) = (a + j - (b + k)) + CycleMod * (q - r)
  BY <1>1, <1>2, <1>3, <1>4, SMTT(20)
<1>6. a % CycleMod \in Int /\ b % CycleMod \in Int
  BY <1>1, Congruent
<1>7. (a % CycleMod) + j - ((b % CycleMod) + k) \in Int /\ a + j - (b + k) \in Int /\ q - r \in Int
  BY <1>6
<1>8. QED  BY <1>5, <1>7, SignedIs

(* A delay from a true cycle, in the width of the counter.                 *)
LEMMA AbsIs ==
  ASSUME WrapInv, now \in Int, NEW c \in Int
  PROVE  Abs(c) = (now + c) % CycleMod
<1>1. CycleMod \in Nat \ {0}
  BY Widths
<1>2. PICK q \in Int : now % CycleMod = now + CycleMod * q
  BY <1>1, Congruent
<1>3. (now % CycleMod) + c = (now + c) + CycleMod * q
  BY <1>1, <1>2, SMTT(20)
<1>4. (now % CycleMod) + c \in Int /\ now + c \in Int
  BY <1>1, Congruent
<1>5. ((now % CycleMod) + c) % CycleMod = (now + c) % CycleMod
  BY <1>1, <1>3, <1>4, SameRemainder
<1>6. cycle = now % CycleMod
  BY DEF WrapInv
<1>7. QED  BY <1>5, <1>6 DEF Abs

(* irq_test finds an event due exactly when its cycle has come.            *)
LEMMA DueIs ==
  ASSUME EventInv, NEW e \in interrupt \cup bits
  PROVE  /\ IsDue(e) <=> now >= due[e]
         /\ Signed(event_cycles[e] - cycle) = due[e] - now
<1>1. Half \in Nat /\ Window \in Nat /\ 2 * Window < Half
  BY Widths
<1>2. e \in Event /\ now \in Int /\ due[e] \in Int
      /\ due[e] - now < Half - Window /\ now - due[e] <= Window
  BY DEF EventInv, TypeInv, WindowInv
<1>3. event_cycles[e] = due[e] % CycleMod /\ cycle = now % CycleMod
  BY <1>2 DEF EventInv, WrapInv
<1>4. due[e] % CycleMod \in Int /\ now % CycleMod \in Int
  BY <1>2, Congruent, Widths
<1>5. Signed((now % CycleMod) + 0 - ((due[e] % CycleMod) + 0)) = now + 0 - (due[e] + 0)
  <2>1. 0 \in Int /\ -Half <= now + 0 - (due[e] + 0) /\ now + 0 - (due[e] + 0) < Half
    BY <1>1, <1>2
  <2>2. QED  BY <1>2, <2>1, SignedDifference
<1>6. Signed((due[e] % CycleMod) + 0 - ((now % CycleMod) + 0)) = due[e] + 0 - (now + 0)
  <2>1. 0 \in Int /\ -Half <= due[e] + 0 - (now + 0) /\ due[e] + 0 - (now + 0) < Half
    BY <1>1, <1>2
  <2>2. QED  BY <1>2, <2>1, SignedDifference
<1>7. Signed(cycle - event_cycles[e]) = now - due[e]
  BY <1>2, <1>3, <1>4, <1>5
<1>8. Signed(event_cycles[e] - cycle) = due[e] - now
  BY <1>2, <1>3, <1>4, <1>6
<1>9. QED  BY <1>2, <1>7, <1>8 DEF IsDue

(* schedule_timeslice ends the slice at the first event that is ahead, or  *)
(* after the longest timeslice.                                            *)
LEMMA TimesliceIs ==
  ASSUME EventInv
  PROVE  /\ Timeslice \in 1 .. Horizon
         /\ \A e \in interrupt : due[e] > now => now + Timeslice <= due[e]
<1> DEFINE S == {Horizon} \cup {k \in Ahead : k > 0}
<1>1. \A e \in interrupt : due[e] - now \in Int /\ Signed(event_cycles[e] - cycle) = due[e] - now
  BY DueIs DEF EventInv, TypeInv
<1>2. Ahead \subseteq Int
  BY <1>1 DEF Ahead
<1>3. S \subseteq Int /\ S # {} /\ 1 \in Int /\ \A x \in S : 1 <= x
  <2>1. Horizon \in Int /\ Horizon > 0
    BY Widths
  <2>2. \A x \in S : x \in Int /\ 1 <= x
    BY <1>2, <2>1
  <2>3. Horizon \in S
    OBVIOUS
  <2> HIDE DEF S
  <2>4. S \subseteq Int /\ S # {}
    BY <2>2, <2>3
  <2>5. QED  BY <2>2, <2>4
<1>4. \E x \in S : \A y \in S : x <= y
  <2> HIDE DEF S
  <2>1. QED  BY <1>3, LeastExists
<1>5. Timeslice \in S /\ \A y \in S : Timeslice <= y
  BY <1>4, Zenon DEF Timeslice, Least
<1>6. Timeslice \in 1 .. Horizon
  BY <1>3, <1>5, Widths
<1>7. \A e \in interrupt : due[e] > now => now + Timeslice <= due[e]
  <2> SUFFICES ASSUME NEW e \in interrupt, due[e] > now
               PROVE  now + Timeslice <= due[e]
    OBVIOUS
  <2>1. due[e] - now \in Ahead /\ due[e] - now > 0
    BY <1>1 DEF Ahead, EventInv, TypeInv
  <2>2. Timeslice <= due[e] - now
    BY <1>5, <2>1
  <2>3. due[e] \in Int /\ now \in Int
    BY DEF EventInv, TypeInv
  <2>4. QED  BY <1>6, <2>2, <2>3
<1>8. QED  BY <1>6, <1>7

-----------------------------------------------------------------------------
(* What set_event does: it cuts the timeslice to the first event posted.   *)
LEMMA PostEffect ==
  ASSUME EventInv, NEW on \in SUBSET interrupt, NEW d \in Posts, Post(on, d)
  PROVE  /\ DOMAIN d \in SUBSET Event
         /\ \A e \in DOMAIN d : d[e] \in Int /\ -Late <= d[e] /\ d[e] < Half - Window
         /\ interrupt' = on \cup DOMAIN d
         /\ due' = [e \in Event |-> IF e \in DOMAIN d THEN now + d[e] ELSE due[e]]
         /\ event_cycles' = [e \in Event |-> due'[e] % CycleMod]
         /\ missed' = (missed \cap on) \ DOMAIN d
         /\ slice' \in Int /\ slice' <= slice /\ next_interupt' = slice' % CycleMod
         /\ \A e \in DOMAIN d : slice' <= now + d[e]
         /\ slice' = slice \/ now - Late <= slice'
<1> DEFINE first == Least({d[e] : e \in DOMAIN d})
           cut == DOMAIN d # {} /\ Signed(next_interupt - Abs(first)) > 0
<1>1. /\ now \in Int /\ slice \in Int /\ due \in [Event -> Int]
      /\ next_interupt = slice % CycleMod /\ WrapInv
      /\ slice <= now + Horizon /\ (now - Late <= slice \/ now - Slack <= slice)
  BY DEF EventInv, TypeInv, WrapInv, SliceInv
<1>2. /\ Half \in Nat /\ Slack \in Nat /\ Late \in Nat /\ Horizon \in Nat /\ CycleMod \in Nat \ {0}
      /\ Window = Late + Horizon + Slack /\ 2 * Window < Half
  BY Widths
<1>3. DOMAIN d \in SUBSET Event /\ \A e \in DOMAIN d : d[e] \in Delays
  BY DEF Posts
<1>4. \A e \in DOMAIN d : d[e] \in Int /\ -Late <= d[e] /\ d[e] < Half - Window
  <2>1. \A x \in Delays : x \in Int /\ -Late <= x /\ x + Late + Horizon + Slack < Half
    BY EventsAssumption
  <2>2. \A x \in Delays : x \in Int /\ -Late <= x /\ x < Half - Window
    BY <1>2, <2>1
  <2>3. QED  BY <1>3, <2>2
<1>5. /\ interrupt' = on \cup DOMAIN d
      /\ event_cycles' = [e \in Event |-> IF e \in DOMAIN d THEN Abs(d[e]) ELSE event_cycles[e]]
      /\ next_interupt' = IF cut THEN Abs(first) ELSE next_interupt
      /\ slice' = IF cut THEN now + first ELSE slice
      /\ due' = [e \in Event |-> IF e \in DOMAIN d THEN now + d[e] ELSE due[e]]
      /\ missed' = (missed \cap on) \ DOMAIN d
  BY Zenon DEF Post
<1>6. event_cycles' = [e \in Event |-> due'[e] % CycleMod]
  <2>1. \A e \in DOMAIN d : Abs(d[e]) = (now + d[e]) % CycleMod
    BY <1>1, <1>4, AbsIs
  <2>2. \A e \in Event : event_cycles[e] = due[e] % CycleMod
    BY <1>1 DEF WrapInv
  <2>3. QED  BY <1>5, <2>1, <2>2
<1>7. CASE DOMAIN d = {}
  <2>1. slice' = slice /\ next_interupt' = next_interupt
    BY <1>5, <1>7
  <2>2. QED  BY <1>1, <1>3, <1>4, <1>5, <1>6, <1>7, <2>1
<1>8. CASE DOMAIN d # {}
  <2> DEFINE S == {d[e] : e \in DOMAIN d}
  <2>1. S \subseteq Int /\ S # {} /\ -Late \in Int /\ \A x \in S : -Late <= x
    BY <1>2, <1>4, <1>8
  <2>2. \E x \in S : \A y \in S : x <= y
    <3> HIDE DEF S
    <3>1. QED  BY <2>1, LeastExists
  <2>3. first \in S /\ \A y \in S : first <= y
    BY <2>2, Zenon DEF Least
  <2>4. first \in Int /\ -Late <= first /\ first < Half - Window /\ \A e \in DOMAIN d : first <= d[e]
    BY <1>4, <2>3
  <2> HIDE DEF S, first
  <2>5. Abs(first) = (now + first) % CycleMod
    BY <1>1, <2>4, AbsIs
  <2>6. Signed((slice % CycleMod) + 0 - (((now + first) % CycleMod) + 0)) = slice + 0 - ((now + first) + 0)
    <3>1. /\ 0 \in Int /\ now + first \in Int /\ -Half <= slice + 0 - ((now + first) + 0)
          /\ slice + 0 - ((now + first) + 0) < Half
      BY <1>1, <1>2, <2>4
    <3>2. QED  BY <1>1, <3>1, SignedDifference
  <2>7. Signed(next_interupt - Abs(first)) = slice - (now + first)
    <3>1. slice % CycleMod \in Int /\ (now + first) % CycleMod \in Int
      BY <1>1, <1>2, <2>4, Congruent
    <3>2. QED  BY <1>1, <2>4, <2>5, <2>6, <3>1
  <2>8. slice' = (IF slice > now + first THEN now + first ELSE slice)
        /\ next_interupt' = slice' % CycleMod
    BY <1>1, <1>5, <1>8, <2>4, <2>5, <2>7
  <2>9. /\ slice' \in Int /\ slice' <= slice /\ \A e \in DOMAIN d : slice' <= now + d[e]
        /\ slice' = slice \/ now - Late <= slice'
    BY <1>1, <1>2, <1>4, <2>4, <2>8
  <2>10. QED  BY <1>3, <1>4, <1>5, <1>6, <2>8, <2>9
<1>9. QED  BY <1>7, <1>8

(* Hence posting events keeps the parts of the invariant that do not speak *)
(* of what irq_test has still to do.                                       *)
LEMMA PostKeeps ==
  ASSUME EventInv, NEW on \in SUBSET interrupt, NEW d \in Posts, Post(on, d),
         UNCHANGED <<cycle, pc, resched, now>>, bits' \in SUBSET bits
  PROVE  /\ TypeInv' /\ WrapInv' /\ WindowInv' /\ SliceInv'
         /\ \A e \in interrupt' : now' <= due'[e] + Lateness(e)'
         /\ \A e \in interrupt' : e \in on \/ now <= due'[e] + Late
         /\ \A e \in interrupt' : e \in on => due'[e] = due[e] \/ now <= due'[e] + Late
<1> USE DEF EventInv
<1>1. /\ DOMAIN d \in SUBSET Event
      /\ \A e \in DOMAIN d : d[e] \in Int /\ -Late <= d[e] /\ d[e] < Half - Window
      /\ interrupt' = on \cup DOMAIN d
      /\ due' = [e \in Event |-> IF e \in DOMAIN d THEN now + d[e] ELSE due[e]]
      /\ event_cycles' = [e \in Event |-> due'[e] % CycleMod]
      /\ missed' = (missed \cap on) \ DOMAIN d
      /\ slice' \in Int /\ slice' <= slice /\ next_interupt' = slice' % CycleMod
      /\ \A e \in DOMAIN d : slice' <= now + d[e]
      /\ slice' = slice \/ now - Late <= slice'
  BY PostEffect
<1>2. /\ Half \in Nat /\ Slack \in Nat /\ Late \in Nat /\ Horizon \in Nat /\ Window \in Nat
      /\ Window = Late + Horizon + Slack /\ 2 * Window < Half
  BY Widths
<1>3. /\ interrupt \in SUBSET Event /\ bits \in SUBSET Event /\ missed \in SUBSET interrupt
      /\ pc \in {"run", "test"} /\ resched \in BOOLEAN /\ now \in Int /\ slice \in Int
      /\ due \in [Event -> Int] /\ (pc = "run" => bits = {})
  BY DEF TypeInv
<1>4. \A e \in DOMAIN d : due'[e] = now + d[e]
  BY <1>1
<1>5. \A e \in Event : e \notin DOMAIN d => due'[e] = due[e]
  BY <1>1
<1>6. \A e \in interrupt' : e \in DOMAIN d \/ (e \in on /\ e \in interrupt /\ due'[e] = due[e])
  BY <1>1, <1>3, <1>5
<1>7. TypeInv'
  <2>1. due' \in [Event -> Int]
    BY <1>1, <1>3
  <2>2. QED  BY <1>1, <1>3, <2>1 DEF TypeInv
<1>8. WrapInv'
  BY <1>1 DEF WrapInv
<1>9. WindowInv'
  <2> SUFFICES ASSUME NEW e \in interrupt' \cup bits'
               PROVE  due'[e] - now' < Half - Window /\ now' - due'[e] <= Window
    BY DEF WindowInv
  <2>1. CASE e \in DOMAIN d
    BY <1>1, <1>2, <1>3, <1>4, <2>1
  <2>2. CASE e \notin DOMAIN d
    <3>1. e \in interrupt \cup bits /\ e \in Event
      BY <1>1, <1>3, <2>2
    <3>2. due'[e] = due[e] /\ now' = now
      BY <1>5, <2>2, <3>1
    <3>3. QED  BY <3>1, <3>2 DEF WindowInv
  <2>3. QED  BY <2>1, <2>2
<1>10. SliceInv'
  <2>1. slice' <= now' + Horizon
    BY <1>1, <1>2, <1>3 DEF SliceInv
  <2>2. now' - Late <= slice' \/ now' - Slack <= slice'
    BY <1>1, <1>2, <1>3 DEF SliceInv
  <2>3. ASSUME NEW e \in interrupt', e \notin missed'
        PROVE  slice' <= due'[e]
    <3>1. CASE e \in DOMAIN d
      BY <1>1, <1>4, <3>1
    <3>2. CASE e \notin DOMAIN d
      <4>1. e \in interrupt /\ e \notin missed /\ due'[e] = due[e] /\ due[e] \in Int
        BY <1>1, <1>3, <1>6, <2>3, <3>2
      <4>2. slice <= due[e]
        BY <4>1 DEF SliceInv
      <4>3. QED  BY <1>1, <1>3, <4>1, <4>2
    <3>3. QED  BY <3>1, <3>2
  <2>4. ASSUME NEW e \in missed'
        PROVE  slice' <= due'[e] + Late + Horizon
    <3>1. e \in missed /\ e \in Event /\ due'[e] = due[e] /\ due[e] \in Int
      BY <1>1, <1>3, <1>5, <2>4
    <3>2. slice <= due[e] + Late + Horizon
      BY <3>1 DEF SliceInv
    <3>3. QED  BY <1>1, <1>2, <1>3, <3>1, <3>2
  <2>5. QED  BY <2>1, <2>2, <2>3, <2>4 DEF SliceInv
<1>11. \A e \in interrupt' : now' <= due'[e] + Lateness(e)'
  <2> TAKE e \in interrupt'
  <2>1. CASE e \in DOMAIN d
    BY <1>1, <1>2, <1>3, <1>4, <2>1 DEF Lateness
  <2>2. CASE e \notin DOMAIN d
    <3>1. e \in interrupt /\ due'[e] = due[e] /\ (e \in missed' <=> e \in missed) /\ now' = now
      BY <1>1, <1>6, <2>2
    <3>2. now <= due[e] + Lateness(e)
      BY <3>1 DEF LateInv
    <3>3. QED  BY <3>1, <3>2 DEF Lateness
  <2>3. QED  BY <2>1, <2>2
<1>12. \A e \in DOMAIN d : now <= due'[e] + Late
  BY <1>1, <1>2, <1>3, <1>4
<1>13. \A e \in interrupt' : e \in on \/ now <= due'[e] + Late
  BY <1>6, <1>12
<1>14. \A e \in interrupt' : e \in on => due'[e] = due[e] \/ now <= due'[e] + Late
  BY <1>6, <1>12
<1>15. QED  BY <1>7, <1>8, <1>9, <1>10, <1>11, <1>13, <1>14

-----------------------------------------------------------------------------
(* Each action keeps the invariant                                         *)


(* Translated code runs on.                                                *)
LEMMA RunStep ==
  ASSUME EventInv, NEW k \in 1..(Horizon + Slack), Run(k)
  PROVE  EventInv'
<1> USE DEF EventInv
<1>1. /\ interrupt \in SUBSET Event /\ missed \in SUBSET interrupt /\ bits = {} /\ pc = "run"
      /\ now \in Int /\ slice \in Int /\ due \in [Event -> Int] /\ k \in Int /\ k > 0 /\ k <= Horizon + Slack
      /\ slice <= now + Horizon /\ (now - Late <= slice \/ now - Slack <= slice)
      /\ next_interupt = slice % CycleMod /\ cycle = now % CycleMod
      /\ event_cycles = [e \in Event |-> due[e] % CycleMod]
  BY Widths DEF TypeInv, SliceInv, WrapInv, Run
<1>2. /\ Half \in Nat /\ Slack \in Nat /\ Late \in Nat /\ Horizon \in Nat /\ Window \in Nat
      /\ Window = Late + Horizon + Slack /\ 2 * Window < Half
  BY Widths
<1>3. /\ Signed(next_interupt + Slack - (cycle + k)) >= 0
      /\ cycle' = Abs(k) /\ now' = now + k
      /\ UNCHANGED <<interrupt, event_cycles, next_interupt, pc, bits, resched, due, slice, missed>>
  BY DEF Run
<1>4. now' <= slice + Slack
  <2>1. /\ -Half <= slice + Slack - (now + k) /\ slice + Slack - (now + k) < Half
    BY <1>1, <1>2
  <2>2. Signed((slice % CycleMod) + Slack - ((now % CycleMod) + k)) = slice + Slack - (now + k)
    BY <1>1, <1>2, <2>1, SignedDifference
  <2>3. QED  BY <1>1, <1>2, <1>3, <2>2
<1>5. TypeInv'
  BY <1>1, <1>3 DEF TypeInv
<1>6. WrapInv'
  <2>1. cycle' = now' % CycleMod
    BY <1>1, <1>3, AbsIs
  <2>2. QED  BY <1>1, <1>3, <2>1 DEF WrapInv
<1>7. \A e \in interrupt : e \in missed => now' <= due[e] + Late + Horizon + Slack
  <2> SUFFICES ASSUME NEW e \in interrupt, e \in missed
               PROVE  now' <= due[e] + Late + Horizon + Slack
    OBVIOUS
  <2>1. slice <= due[e] + Late + Horizon /\ due[e] \in Int
    BY <1>1 DEF SliceInv
  <2>2. QED  BY <1>1, <1>2, <1>3, <1>4, <2>1
<1>8. \A e \in interrupt : e \notin missed => now' <= due[e] + Slack
  <2> SUFFICES ASSUME NEW e \in interrupt, e \notin missed
               PROVE  now' <= due[e] + Slack
    OBVIOUS
  <2>1. slice <= due[e] /\ due[e] \in Int
    BY <1>1 DEF SliceInv
  <2>2. QED  BY <1>1, <1>2, <1>3, <1>4, <2>1
<1>9. WindowInv'
  <2> SUFFICES ASSUME NEW e \in interrupt
               PROVE  due[e] - now' < Half - Window /\ now' - due[e] <= Window
    BY <1>1, <1>3 DEF WindowInv
  <2>1. due[e] \in Int /\ due[e] - now < Half - Window
    BY <1>1 DEF WindowInv
  <2>2. now' <= due[e] + Late + Horizon + Slack
    BY <1>1, <1>2, <1>3, <1>7, <1>8, <2>1
  <2>3. QED  BY <1>1, <1>2, <1>3, <2>1, <2>2
<1>10. SliceInv'
  BY <1>1, <1>2, <1>3, <1>4 DEF SliceInv
<1>11. LateInv'
  <2>1. \A e \in interrupt : now' <= due[e] + Lateness(e)
    <3> TAKE e \in interrupt
    <3>1. due[e] \in Int
      BY <1>1
    <3>2. QED  BY <1>1, <1>2, <1>3, <1>7, <1>8, <3>1 DEF Lateness
  <2>2. \A e \in interrupt : Lateness(e)' = Lateness(e)
    BY <1>3 DEF Lateness
  <2>3. QED  BY <1>1, <1>3, <2>1, <2>2 DEF LateInv
<1>12. QED  BY <1>5, <1>6, <1>9, <1>10, <1>11

(* The processor enters irq_test.                                          *)
LEMMA EnterStep ==
  ASSUME EventInv, NEW r \in BOOLEAN, Enter(r)
  PROVE  EventInv'
<1> USE DEF EventInv, Enter
<1>1. TypeInv'
  BY DEF TypeInv
<1>2. WrapInv' /\ SliceInv'
  BY DEF WrapInv, SliceInv
<1>3. WindowInv'
  BY DEF WindowInv
<1>4. LateInv'
  BY DEF LateInv, Lateness
<1>5. QED  BY <1>1, <1>2, <1>3, <1>4

(* A register access posts or cancels events.                              *)
LEMMA AccessStep ==
  ASSUME EventInv, NEW on \in SUBSET interrupt, NEW d \in Posts, Access(on, d)
  PROVE  EventInv'
<1>1. Post(on, d) /\ UNCHANGED <<cycle, pc, resched, now>> /\ bits' = bits /\ pc = "run"
  BY DEF Access
<1>2. /\ TypeInv' /\ WrapInv' /\ WindowInv' /\ SliceInv'
      /\ \A e \in interrupt' : now' <= due'[e] + Lateness(e)'
  BY <1>1, PostKeeps
<1>3. LateInv'
  BY <1>1, <1>2 DEF LateInv
<1>4. QED  BY <1>2, <1>3 DEF EventInv

(* A handler runs.                                                         *)
LEMMA HandleStep ==
  ASSUME EventInv, NEW h \in Event, NEW on \in SUBSET interrupt, NEW d \in Posts, Handle(h, on, d)
  PROVE  EventInv'
<1>1. /\ Post(on \ {h}, d) /\ UNCHANGED <<cycle, pc, resched, now>>
      /\ bits' = {f \in bits : f > h} /\ pc = "test"
      /\ h \in bits /\ \A f \in bits : f < h => ~IsDue(f)
  BY DEF Handle, Serves
<1>2. /\ TypeInv' /\ WrapInv' /\ WindowInv' /\ SliceInv'
      /\ \A e \in interrupt' : now' <= due'[e] + Lateness(e)'
      /\ \A e \in interrupt' : e \in on \ {h} \/ now <= due'[e] + Late
      /\ \A e \in interrupt' : e \in on \ {h} => due'[e] = due[e] \/ now <= due'[e] + Late
  <2>1. on \ {h} \in SUBSET interrupt /\ bits' \in SUBSET bits
    BY <1>1
  <2>2. QED  BY <1>1, <2>1, PostKeeps
<1>3. \A e \in interrupt' : e \in bits' \/ now' <= due'[e] + Late
  <2> TAKE e \in interrupt'
  <2>1. CASE e \notin on \ {h}
    BY <1>1, <1>2, <2>1
  <2>2. CASE e \in on \ {h} /\ now <= due'[e] + Late
    BY <1>1, <2>2
  <2>3. CASE e \in on \ {h} /\ due'[e] = due[e]
    <3>1. e \in interrupt /\ e \in Event /\ h \in Event /\ e # h /\ Event \subseteq Nat
      BY <2>3, EventsAssumption DEF EventInv, TypeInv
    <3>2. now \in Int /\ due[e] \in Int /\ Late \in Nat
      BY <3>1, Widths DEF EventInv, TypeInv
    <3>3. CASE e \notin bits
      BY <1>1, <2>3, <3>1, <3>3 DEF EventInv, LateInv
    <3>4. CASE e \in bits /\ e < h
      <4>1. ~(now >= due[e])
        BY <1>1, <3>4, DueIs
      <4>2. QED  BY <1>1, <2>3, <3>2, <4>1
    <3>5. CASE e \in bits /\ e > h
      BY <1>1, <3>5
    <3>6. QED  BY <3>1, <3>3, <3>4, <3>5
  <2>4. QED  BY <1>2, <2>1, <2>2, <2>3
<1>4. LateInv'
  BY <1>2, <1>3 DEF LateInv
<1>5. QED  BY <1>2, <1>4 DEF EventInv

(* The processor leaves irq_test.                                          *)
LEMMA LeaveStep ==
  ASSUME EventInv, Leave
  PROVE  EventInv'
<1> USE DEF EventInv
<1>1. /\ pc = "test" /\ \A e \in bits : ~IsDue(e)
      /\ pc' = "run" /\ bits' = {}
      /\ next_interupt' = (IF resched THEN Abs(Timeslice) ELSE next_interupt)
      /\ slice' = (IF resched THEN now + Timeslice ELSE slice)
      /\ missed' = (IF resched THEN {e \in interrupt : due[e] <= now} ELSE missed)
      /\ UNCHANGED <<cycle, interrupt, event_cycles, resched, now, due>>
  BY DEF Leave
<1>2. /\ Half \in Nat /\ Slack \in Nat /\ Late \in Nat /\ Horizon \in Nat /\ Window \in Nat
      /\ Window = Late + Horizon + Slack /\ 2 * Window < Half
  BY Widths
<1>3. /\ interrupt \in SUBSET Event /\ missed \in SUBSET interrupt /\ resched \in BOOLEAN
      /\ now \in Int /\ slice \in Int /\ due \in [Event -> Int]
      /\ next_interupt = slice % CycleMod
  BY DEF TypeInv, WrapInv
<1>4. /\ Timeslice \in 1 .. Horizon
      /\ \A e \in interrupt : due[e] > now => now + Timeslice <= due[e]
  BY TimesliceIs
<1>5. \A e \in interrupt : due[e] \in Int /\ now <= due[e] + Late
  <2> TAKE e \in interrupt
  <2>1. due[e] \in Int
    BY <1>3
  <2>2. CASE e \in bits
    <3>1. ~(now >= due[e])
      BY <1>1, <2>2, DueIs
    <3>2. QED  BY <1>2, <1>3, <2>1, <3>1
  <2>3. CASE e \notin bits
    BY <1>1, <2>1, <2>3 DEF LateInv
  <2>4. QED  BY <2>2, <2>3
<1>6. CASE ~resched
  <2>1. UNCHANGED <<next_interupt, slice, missed>>
    BY <1>1, <1>6
  <2>2. TypeInv'
    BY <1>1, <1>3, <2>1 DEF TypeInv
  <2>3. WrapInv' /\ SliceInv'
    BY <1>1, <2>1 DEF WrapInv, SliceInv
  <2>4. WindowInv'
    BY <1>1 DEF WindowInv
  <2>5. LateInv'
    BY <1>1, <2>1 DEF LateInv, Lateness
  <2>6. QED  BY <2>2, <2>3, <2>4, <2>5
<1>7. CASE resched
  <2>1. /\ next_interupt' = Abs(Timeslice) /\ slice' = now + Timeslice
        /\ missed' = {e \in interrupt : due[e] <= now}
    BY <1>1, <1>7
  <2>2. TypeInv'
    <3>1. slice' \in Int /\ missed' \in SUBSET interrupt
      BY <1>3, <1>4, <2>1
    <3>2. QED  BY <1>1, <1>3, <3>1 DEF TypeInv
  <2>3. WrapInv'
    <3>1. Abs(Timeslice) = (now + Timeslice) % CycleMod
      BY <1>3, <1>4, AbsIs
    <3>2. QED  BY <1>1, <2>1, <3>1 DEF WrapInv
  <2>4. WindowInv'
    BY <1>1 DEF WindowInv
  <2>5. SliceInv'
    <3>1. slice' <= now' + Horizon /\ now' - Late <= slice'
      BY <1>1, <1>2, <1>3, <1>4, <2>1
    <3>2. \A e \in interrupt' : e \notin missed' => slice' <= due'[e]
      BY <1>1, <1>3, <1>4, <1>5, <2>1
    <3>3. \A e \in missed' : slice' <= due'[e] + Late + Horizon
      BY <1>1, <1>2, <1>3, <1>4, <1>5, <2>1
    <3>4. QED  BY <3>1, <3>2, <3>3 DEF SliceInv
  <2>6. LateInv'
    <3>1. \A e \in interrupt : e \in missed' => now <= due[e] + Late + Horizon + Slack
      BY <1>2, <1>3, <1>5
    <3>2. \A e \in interrupt : e \notin missed' => now <= due[e]
      BY <1>3, <1>5, <2>1
    <3>3. \A e \in interrupt : now' <= due'[e] + Lateness(e)'
      BY <1>1, <1>2, <1>3, <1>5, <3>1, <3>2 DEF Lateness
    <3>4. QED  BY <1>1, <3>3 DEF LateInv
  <2>7. QED  BY <2>2, <2>3, <2>4, <2>5, <2>6
<1>8. QED  BY <1>3, <1>6, <1>7

(* The first state.                                                        *)
LEMMA Initially ==
  ASSUME InitEvent
  PROVE  EventInv
<1>1. PICK d \in Posts : (\A e \in DOMAIN d : d[e] >= 0) /\ InitEvents(d)
  BY DEF InitEvent
<1>2. /\ Half \in Nat /\ Slack \in Nat /\ Late \in Nat /\ Horizon \in Nat /\ Window \in Nat
      /\ Window = Late + Horizon + Slack /\ 2 * Window < Half /\ Start \in Nat
  BY Widths, EventsAssumption
<1>3. DOMAIN d \in SUBSET Event /\ \A e \in DOMAIN d : d[e] \in Delays
  BY DEF Posts
<1>4. \A e \in DOMAIN d : d[e] \in Int /\ 0 <= d[e] /\ d[e] < Half - Window
  <2>1. \A x \in Delays : x \in Int /\ x + Late + Horizon + Slack < Half
    BY EventsAssumption
  <2>2. \A x \in Delays : x \in Int /\ x < Half - Window
    BY <1>2, <2>1
  <2>3. QED  BY <1>1, <1>3, <2>2
<1>5. /\ now = Start /\ cycle = Start % CycleMod
      /\ interrupt = DOMAIN d /\ missed = {}
      /\ due = [e \in Event |-> IF e \in interrupt THEN now + d[e] ELSE now]
      /\ event_cycles = [e \in Event |-> due[e] % CycleMod]
      /\ next_interupt = cycle /\ slice = now
      /\ pc = "run" /\ bits = {} /\ resched = FALSE
  BY <1>1 DEF InitEvents
<1>6. \A e \in interrupt : due[e] = now + d[e]
  BY <1>3, <1>5
<1>7. TypeInv
  <2>1. now \in Int /\ \A e \in interrupt : now + d[e] \in Int
    BY <1>2, <1>4, <1>5
  <2>2. due \in [Event -> Int]
    BY <1>5, <2>1
  <2>3. bits \in SUBSET Event /\ missed \in SUBSET interrupt /\ slice \in Int
    BY <1>5, <2>1
  <2>4. QED  BY <1>3, <1>5, <2>1, <2>2, <2>3 DEF TypeInv
<1>8. WrapInv
  BY <1>5 DEF WrapInv
<1>9. WindowInv
  BY <1>2, <1>4, <1>5, <1>6 DEF WindowInv
<1>10. SliceInv
  BY <1>2, <1>4, <1>5, <1>6 DEF SliceInv
<1>11. LateInv
  BY <1>2, <1>4, <1>5, <1>6 DEF LateInv, Lateness
<1>12. QED  BY <1>7, <1>8, <1>9, <1>10, <1>11 DEF EventInv

(* Every step keeps the invariant.                                         *)
LEMMA EventStep ==
  ASSUME EventInv, [NextEvent]_evars
  PROVE  EventInv'
<1>1. CASE UNCHANGED evars
  BY <1>1 DEF evars, EventInv, TypeInv, WrapInv, WindowInv, SliceInv, LateInv, Lateness
<1>2. ASSUME NEW k \in 1..(Horizon + Slack), Run(k)  PROVE EventInv'
  BY <1>2, RunStep
<1>3. ASSUME NEW on \in SUBSET interrupt, NEW d \in Posts, Access(on, d)  PROVE EventInv'
  BY <1>3, AccessStep
<1>4. ASSUME NEW r \in BOOLEAN, Enter(r)  PROVE EventInv'
  BY <1>4, EnterStep
<1>5. ASSUME NEW e \in Event, NEW on \in SUBSET interrupt, NEW d \in Posts, Handle(e, on, d)
      PROVE EventInv'
  BY <1>5, HandleStep
<1>6. CASE Leave
  BY <1>6, LeaveStep
<1>7. QED  BY <1>1, <1>2, <1>3, <1>4, <1>5, <1>6 DEF NextEvent

-----------------------------------------------------------------------------
(* The 32-bit comparisons never go wrong, whatever the handlers do, and a  *)
(* handler runs at most a block after its event is due, or a timeslice and *)
(* a block when it was passed over.                                        *)
THEOREM EventsArePunctual == EventSpec => []Punctual
<1>1. InitEvent => EventInv
  BY Initially
<1>2. EventInv /\ [NextEvent]_evars => EventInv'
  BY EventStep
<1>3. EventInv => Punctual
  <2> SUFFICES ASSUME EventInv  PROVE Punctual
    OBVIOUS
  <2>1. \A e \in interrupt \cup bits : IsDue(e) <=> now >= due[e]
    BY DueIs
  <2>2. \A e \in interrupt : now <= due[e] + Lateness(e)
    BY DEF EventInv, LateInv
  <2>3. QED  BY <2>1, <2>2 DEF Punctual
<1>4. QED  BY <1>1, <1>2, <1>3, PTL DEF EventSpec

-----------------------------------------------------------------------------
(* The three counters of the program: their records keep their types,      *)
(* whatever is written to them.                                            *)
Cycles == 0 .. CycleMod - 1
RcntRec ==
  [mode : Mode, target : Nat, rate : Nat \ {0}, cycle : Cycles, start : Cycles, to : BOOLEAN,
   irqd : BOOLEAN, irq : BOOLEAN, hitT : BOOLEAN, hitO : BOOLEAN]

(* The vertical blank is within the frame, and a frame fits the cycle      *)
(* counter twice.                                                          *)
LEMMA FrameLengths ==
  /\ LineCycles \in Nat \ {0} /\ VBlankStart \in Nat \ {0} /\ HSyncTotal \in Nat
  /\ VBlankStart < HSyncTotal
  /\ FrameCycles \in Nat /\ VBlankStart * LineCycles \in Nat
  /\ 0 < VBlankStart * LineCycles /\ VBlankStart * LineCycles < FrameCycles
  /\ 2 * FrameCycles < CycleMod /\ FrameCycles < Half
<1>1. /\ LineCycles \in Nat \ {0} /\ VBlankStart \in Nat \ {0} /\ HSyncTotal \in Nat
      /\ VBlankStart < HSyncTotal /\ 0 .. FrameCycles \subseteq Delays
  BY CountersAssumption
<1>2. FrameCycles \in Nat /\ VBlankStart * LineCycles \in Nat
  BY <1>1, SMTT(20) DEF FrameCycles
<1>3. 0 < VBlankStart * LineCycles
  BY <1>1, SMTT(20)
<1>4. VBlankStart * LineCycles < FrameCycles
  <2>1. PICK n \in Nat : HSyncTotal = VBlankStart + n /\ n > 0
    <3>1. HSyncTotal - VBlankStart \in Nat /\ HSyncTotal - VBlankStart > 0
          /\ HSyncTotal = VBlankStart + (HSyncTotal - VBlankStart)
      BY <1>1
    <3>2. QED  BY <3>1
  <2>2. HSyncTotal * LineCycles = VBlankStart * LineCycles + n * LineCycles
    BY <1>1, <2>1, SMTT(20)
  <2>3. n * LineCycles > 0 /\ n * LineCycles \in Nat
    BY <1>1, <2>1, SMTT(20)
  <2>4. QED  BY <1>2, <2>2, <2>3 DEF FrameCycles
<1>5. FrameCycles < Half
  <2>1. FrameCycles \in Delays
    BY <1>1, <1>2
  <2>2. FrameCycles + Late + Horizon + Slack < Half
    BY <2>1, EventsAssumption
  <2>3. QED  BY <1>2, <2>2, Widths
<1>6. 2 * FrameCycles < CycleMod
  BY <1>2, <1>5, Widths
<1>7. QED  BY <1>1, <1>2, <1>3, <1>4, <1>5, <1>6

(* The two steps of the base counter: to the vertical blank, to the end.   *)
LEMMA BaseCycles ==
  /\ BaseCycle(0) = VBlankStart * LineCycles /\ BaseCycle(VBlankStart) = FrameCycles
  /\ 0 + Steps(0) = VBlankStart /\ VBlankStart + Steps(VBlankStart) = HSyncTotal
BY FrameLengths DEF BaseCycle, Steps

(* Types of what the counters compute.                                     *)
LEMMA W32Typed == ASSUME NEW x \in Int PROVE W32(x) \in Cycles
BY Euclid, Widths DEF W32, Cycles

LEMMA SinceTyped ==
  ASSUME cycle \in Int, NEW start \in Int
  PROVE  Since(start) \in Cycles
BY W32Typed DEF Since

LEMMA ProductTyped == ASSUME NEW a \in Nat, NEW b \in Nat PROVE a * b \in Nat
BY SMTT(20)

LEMMA RemainderTyped == ASSUME NEW a \in Nat, NEW b \in Nat \ {0} PROVE a % b \in Nat /\ a \div b \in Nat
<1>1. a % b \in 0 .. b - 1 /\ a \div b \in Int /\ a = b * (a \div b) + (a % b)
  BY Euclid
<1>2. ASSUME a \div b < 0 PROVE FALSE
  <2>1. b * (a \div b) <= -b
    BY <1>1, <1>2, SMTT(20)
  <2>2. QED  BY <1>1, <2>1
<1>3. QED  BY <1>1, <1>2

(* A written counter.                                                      *)
LEMMA WcountTyped ==
  ASSUME cycle \in Int, NEW r \in RcntRec, NEW value \in Nat
  PROVE  Wcount(r, value) \in RcntRec
<1> DEFINE v == value % Overflow
           to == v < r.target
           start == W32(cycle - v * r.rate)
           till == W32((IF to THEN r.target ELSE Overflow) * r.rate)
<1>1. v \in Nat /\ Overflow \in Nat /\ r.rate \in Nat /\ r.target \in Nat
  BY RemainderTyped, CountersAssumption DEF RcntRec
<1> HIDE DEF v
<1>2. v * r.rate \in Nat /\ r.target * r.rate \in Nat /\ Overflow * r.rate \in Nat
  BY <1>1, ProductTyped
<1>3. start \in Cycles
  BY <1>2, W32Typed
<1>4. till \in Cycles
  BY <1>2, W32Typed
<1>5. Wcount(r, value) = [r EXCEPT !.start = start, !.to = to, !.cycle = till]
  BY DEF Wcount, v
<1>6. to \in BOOLEAN
  BY <1>1
<1> HIDE DEF start, till, to
<1>7. QED  BY <1>3, <1>4, <1>5, <1>6 DEF RcntRec

(* The two halves of psxRcntReset, at a target and at an overflow.         *)
LEMMA RaisesTyped ==
  ASSUME NEW r \in RcntRec, NEW on \in BOOLEAN
  PROVE  Raises(r, on) \in BOOLEAN
BY DEF RcntRec, Mode, Raises

LEMMA AtTargetTyped ==
  ASSUME NEW r \in RcntRec
  PROVE  AtTarget(r) \in RcntRec
<1>1. /\ Overflow \in Nat /\ r.rate \in Nat /\ r.target \in Nat /\ r.start \in Int
      /\ r.mode.tgt \in BOOLEAN /\ r.mode.irqT \in BOOLEAN /\ r.irqd \in BOOLEAN /\ r.irq \in BOOLEAN
  BY CountersAssumption DEF RcntRec, Mode, Cycles
<1>2. r.target * r.rate \in Nat /\ Overflow * r.rate \in Nat
  BY <1>1, ProductTyped
<1> DEFINE span == W32(r.target * r.rate)
           start == W32(r.start + span)
           till == W32(Overflow * r.rate)
           back == [r EXCEPT !.start = start]
           on == [r EXCEPT !.cycle = till, !.to = FALSE]
           s == IF r.mode.tgt THEN back ELSE on
           raise == Raises(r, r.mode.irqT)
<1>3. span \in Int
  BY <1>2, W32Typed DEF Cycles
<1>4. start \in Cycles /\ till \in Cycles
  BY <1>1, <1>2, <1>3, W32Typed
<1>5. raise \in BOOLEAN
  BY <1>1, RaisesTyped
<1>6. AtTarget(r) = [s EXCEPT !.hitT = TRUE, !.irqd = s.irqd \/ r.mode.irqT, !.irq = s.irq \/ raise]
  BY DEF AtTarget
<1> HIDE DEF start, till, raise
<1>7. s \in RcntRec
  BY <1>4 DEF RcntRec
<1> HIDE DEF s
<1>8. (s.irqd \/ r.mode.irqT) \in BOOLEAN /\ (s.irq \/ raise) \in BOOLEAN
  BY <1>1, <1>5, <1>7 DEF RcntRec
<1>9. QED  BY <1>6, <1>7, <1>8 DEF RcntRec

LEMMA AtOverflowTyped ==
  ASSUME cycle \in Int, NEW r \in RcntRec
  PROVE  AtOverflow(r) \in RcntRec
<1>1. /\ Overflow \in Nat /\ r.rate \in Nat /\ r.target \in Nat /\ r.start \in Int
      /\ r.mode.irqO \in BOOLEAN /\ r.irqd \in BOOLEAN /\ r.irq \in BOOLEAN
  BY CountersAssumption DEF RcntRec, Mode, Cycles
<1>2. r.target * r.rate \in Nat /\ Overflow * r.rate \in Nat
  BY <1>1, ProductTyped
<1> DEFINE start == W32(r.start + Overflow * r.rate)
           till == W32(r.target * r.rate)
           again == Since(start) < till
           raise == Raises(r, r.mode.irqO)
<1>3. start \in Cycles /\ till \in Cycles
  BY <1>1, <1>2, W32Typed
<1>4. raise \in BOOLEAN
  BY <1>1, RaisesTyped
<1>5. AtOverflow(r) = [r EXCEPT !.start = start, !.to = again,
                         !.cycle = IF again THEN till ELSE r.cycle, !.hitO = TRUE,
                         !.irqd = r.irqd \/ r.mode.irqO, !.irq = r.irq \/ raise]
  BY DEF AtOverflow
<1>6. again \in BOOLEAN /\ (IF again THEN till ELSE r.cycle) \in Cycles
  BY <1>3 DEF RcntRec
<1> HIDE DEF start, till, again, raise
<1>7. (r.irqd \/ r.mode.irqO) \in BOOLEAN /\ (r.irq \/ raise) \in BOOLEAN
  BY <1>1, <1>4
<1>8. QED  BY <1>3, <1>5, <1>6, <1>7 DEF RcntRec

(* A round of the loops of psxRcntUpdate.                                  *)
LEMMA RoundTyped ==
  ASSUME cycle \in Int, NEW i, NEW r \in RcntRec
  PROVE  Round(i, r) \in RcntRec
<1>1. psxRcntReset(r) \in RcntRec
  BY AtTargetTyped, AtOverflowTyped DEF psxRcntReset
<1> DEFINE start == W32(r.start + (Since(r.start) \div (LineCycles + 1)) * LineCycles)
<1>2. start \in Cycles
  <2>1. r.start \in Int /\ Since(r.start) \in Nat /\ LineCycles \in Nat /\ LineCycles + 1 \in Nat \ {0}
    BY SinceTyped, FrameLengths DEF RcntRec, Cycles
  <2>2. Since(r.start) \div (LineCycles + 1) \in Nat
    BY <2>1, RemainderTyped
  <2>3. (Since(r.start) \div (LineCycles + 1)) * LineCycles \in Nat
    BY <2>1, <2>2, ProductTyped
  <2>4. QED  BY <2>1, <2>3, W32Typed
<1>3. Round(i, r) = [r EXCEPT !.start = start] \/ Round(i, r) = psxRcntReset(r)
  BY DEF Round
<1> HIDE DEF start
<1>4. [r EXCEPT !.start = start] \in RcntRec
  BY <1>2 DEF RcntRec
<1>5. QED  BY <1>1, <1>3, <1>4

-----------------------------------------------------------------------------
(* Induction over the numbers, for a set that a lemma then defines.        *)
LEMMA Induction ==
  ASSUME NEW S, S \subseteq Nat, 0 \in S, \A n \in S : n + 1 \in S
  PROVE  S = Nat
<1> DEFINE T == Nat \ S
<1>1. ASSUME T # {}
      PROVE  FALSE
  <2>1. 0 \in Int /\ T \subseteq Int /\ \A x \in T : 0 <= x
    OBVIOUS
  <2>2. PICK m \in T : \A y \in T : m <= y
    <3> HIDE DEF T
    <3>1. \E x \in T : \A y \in T : x <= y
      BY <1>1, <2>1, LeastExists
    <3>2. QED  BY <3>1
  <2>3. m \in Nat /\ m \notin S /\ m # 0
    BY <2>2
  <2>4. m - 1 \in Nat /\ m = (m - 1) + 1 /\ ~(m <= m - 1)
    BY <2>3
  <2>5. m - 1 \in S
    BY <2>2, <2>4
  <2>6. QED  BY <2>3, <2>4, <2>5
<1>2. QED  BY <1>1

(* f[n] is the state of the counter after n rounds of the loop.            *)
Looped(f, n, i, r) == f = [k \in 0 .. n |-> IF k = 0 THEN r ELSE Round(i, f[k - 1])]

(* The recursion that counts the rounds defines a function.                *)
LEMMA LoopExists ==
  ASSUME NEW n \in Nat, NEW i, NEW r
  PROVE  \E f : Looped(f, n, i, r)
<1> DEFINE S == {m \in Nat : \E f : Looped(f, m, i, r)}
<1>1. S \subseteq Nat
  OBVIOUS
<1>2. 0 \in S
  <2> DEFINE g == [k \in 0 .. 0 |-> r]
  <2>1. g = [k \in 0 .. 0 |-> IF k = 0 THEN r ELSE Round(i, g[k - 1])]
    <3>1. \A k \in 0 .. 0 : k = 0
      OBVIOUS
    <3>2. QED  BY <3>1
  <2> HIDE DEF g
  <2>2. Looped(g, 0, i, r)
    BY <2>1 DEF Looped
  <2>3. QED  BY <2>2
<1>3. ASSUME NEW m \in S
      PROVE  m + 1 \in S
  <2>1. PICK f : Looped(f, m, i, r)
    OBVIOUS
  <2>2. m \in Nat
    OBVIOUS
  <2> DEFINE g == [k \in 0 .. m + 1 |-> IF k = m + 1 THEN Round(i, f[m]) ELSE f[k]]
  <2>3. ASSUME NEW k \in 0 .. m + 1
        PROVE  g[k] = IF k = 0 THEN r ELSE Round(i, g[k - 1])
    <3>1. CASE k = 0
      <4>1. k # m + 1 /\ 0 \in 0 .. m
        BY <2>2, <3>1
      <4>2. f[0] = r
        BY <2>1, <4>1 DEF Looped
      <4>3. QED  BY <3>1, <4>1, <4>2
    <3>2. CASE k # 0
      <4>1. k - 1 \in 0 .. m + 1 /\ k - 1 # m + 1
        BY <2>2, <3>2
      <4>2. g[k - 1] = f[k - 1]
        BY <4>1
      <4>3. CASE k = m + 1
        <5>1. k - 1 = m
          BY <2>2, <4>3
        <5>2. QED  BY <3>2, <4>2, <4>3, <5>1
      <4>4. CASE k # m + 1
        <5>1. k \in 0 .. m
          BY <2>2, <4>4
        <5>2. f[k] = Round(i, f[k - 1])
          BY <2>1, <3>2, <5>1 DEF Looped
        <5>3. QED  BY <3>2, <4>2, <4>4, <5>2
      <4>5. QED  BY <4>3, <4>4
    <3>3. QED  BY <3>1, <3>2
  <2>4. g = [k \in 0 .. m + 1 |-> g[k]]
    OBVIOUS
  <2> HIDE DEF g
  <2>5. Looped(g, m + 1, i, r)
    BY <2>3, <2>4 DEF Looped
  <2>6. QED  BY <2>2, <2>5
<1> HIDE DEF S
<1>4. S = Nat
  BY <1>1, <1>2, <1>3, Induction
<1>5. QED  BY <1>4 DEF S

LEMMA RoundsIs ==
  ASSUME NEW i, NEW r
  PROVE  Looped(Rounds(i, r), CycleMod, i, r)
<1> DEFINE Rec(f) == [k \in 0 .. CycleMod |-> IF k = 0 THEN r ELSE Round(i, f[k - 1])]
           h == CHOOSE f : f = Rec(f)
<1>1. Rounds(i, r) = h
  BY Zenon DEF Rounds
<1>2. PICK f : Looped(f, CycleMod, i, r)
  BY LoopExists, Widths
<1>3. \A g : Looped(g, CycleMod, i, r) <=> g = Rec(g)
  BY DEF Looped
<1>4. h = Rec(h)
  <2> HIDE DEF Rec
  <2>1. QED  BY <1>2, <1>3
<1>5. QED  BY <1>1, <1>3, <1>4

(* Every round, and so the one that ends the loop, leaves a counter.       *)
LEMMA RoundsTyped ==
  ASSUME cycle \in Int, NEW i, NEW r \in RcntRec
  PROVE  \A n \in 0 .. CycleMod : Rounds(i, r)[n] \in RcntRec
<1> DEFINE f == Rounds(i, r)
           S == {n \in Nat : n <= CycleMod => f[n] \in RcntRec}
<1>1. Looped(f, CycleMod, i, r) /\ CycleMod \in Nat
  BY RoundsIs, Widths
<1> HIDE DEF f
<1>2. S \subseteq Nat
  OBVIOUS
<1>3. 0 \in S
  <2>1. 0 \in 0 .. CycleMod
    BY <1>1
  <2>2. QED  BY <1>1, <2>1 DEF Looped
<1>4. ASSUME NEW n \in S
      PROVE  n + 1 \in S
  <2>1. n \in Nat /\ n + 1 \in Nat
    OBVIOUS
  <2>2. CASE n + 1 <= CycleMod
    <3>1. n + 1 \in 0 .. CycleMod /\ n + 1 # 0 /\ (n + 1) - 1 = n /\ n <= CycleMod
      BY <1>1, <2>1, <2>2
    <3>2. f[n + 1] = Round(i, f[n])
      BY <1>1, <3>1 DEF Looped
    <3>3. f[n] \in RcntRec
      BY <3>1
    <3>4. QED  BY <2>1, <3>2, <3>3, RoundTyped
  <2>3. CASE ~(n + 1 <= CycleMod)
    BY <2>1, <2>3
  <2>4. QED  BY <2>2, <2>3
<1> HIDE DEF S
<1>5. S = Nat
  BY <1>2, <1>3, <1>4, Induction
<1>6. QED  BY <1>1, <1>5 DEF S, f

LEMMA CatchUpTyped ==
  ASSUME cycle \in Int, NEW i, NEW r \in RcntRec
  PROVE  CatchUp(i, r) \in RcntRec
<1> DEFINE after == Rounds(i, r)
           Ends(n) == \/ Since(after[n].start) < after[n].cycle
                      \/ n > 0 /\ Resyncs(i, after[n - 1])
                      \/ n = CycleMod
           P(n) == Ends(n) /\ \A m \in 0 .. n - 1 : ~Ends(m)
           S == {n \in 0 .. CycleMod : Ends(n)}
<1>1. CatchUp(i, r) = after[CHOOSE n \in 0 .. CycleMod : P(n)]
  BY Zenon DEF CatchUp
<1>2. CycleMod \in Nat
  BY Widths
<1>3. \E n \in 0 .. CycleMod : P(n)
  <2>1. 0 \in Int /\ S \subseteq Int /\ \A x \in S : 0 <= x
    BY <1>2
  <2>2. CycleMod \in S /\ S # {}
    BY <1>2
  <2>3. PICK n \in S : \A m \in S : n <= m
    <3> HIDE DEF S
    <3>1. \E x \in S : \A y \in S : x <= y
      BY <2>1, <2>2, LeastExists
    <3>2. QED  BY <3>1
  <2> HIDE DEF Ends
  <2>4. n \in 0 .. CycleMod /\ Ends(n) /\ \A m \in 0 .. CycleMod : Ends(m) => n <= m
    BY <2>3
  <2>5. \A m \in 0 .. n - 1 : m \in 0 .. CycleMod /\ ~(n <= m)
    BY <1>2, <2>4
  <2>6. QED  BY <2>4, <2>5
<1> HIDE DEF P
<1>4. (CHOOSE n \in 0 .. CycleMod : P(n)) \in 0 .. CycleMod
  BY <1>3
<1>5. QED  BY <1>1, <1>4, RoundsTyped

-----------------------------------------------------------------------------
(* The inductive invariant.  The frame under way began where frames of one *)
(* length put it, the base counter has the cycle of that begin, and the    *)
(* lines counted have passed.  The event is due no later than the next     *)
(* step of the base counter, unless it is overdue; with one counter in a   *)
(* stop mode it may be overdue for a long time.                            *)
FrameBegin == Start + frames * FrameCycles

FrameInv ==
  /\ rcnts \in [Counter -> RcntRec] /\ DOMAIN raised = 0..3
  /\ now \in Nat /\ frames \in Nat /\ cycle = now % CycleMod
  /\ hSyncCount \in {0, VBlankStart} /\ hsync_steps = Steps(hSyncCount)
  /\ base = [start |-> FrameBegin % CycleMod, cycle |-> BaseCycle(hSyncCount)]
  /\ FrameBegin <= now
  /\ hSyncCount = VBlankStart => FrameBegin + VBlankStart * LineCycles <= now
  /\ raised[3] = IF hSyncCount = 0 THEN 0 ELSE 1

DueInv ==
  /\ due[RCNT] \in Nat /\ event_cycles[RCNT] = due[RCNT] % CycleMod
  /\ FrameBegin <= due[RCNT]
  /\ due[RCNT] <= now \/ due[RCNT] <= FrameBegin + base.cycle

(* A frame begins at a cycle.                                              *)
LEMMA FrameBeginTyped == ASSUME frames \in Nat PROVE FrameBegin \in Nat
<1>1. frames * FrameCycles \in Nat
  BY FrameLengths, ProductTyped
<1>2. QED  BY <1>1, EventsAssumption DEF FrameBegin

(* Cycles that are less than CycleMod apart.                               *)
LEMMA Elapsed ==
  ASSUME NEW n \in Nat, NEW t \in Nat, t <= n, n - t < CycleMod
  PROVE  W32((n % CycleMod) - (t % CycleMod)) = n - t
<1>1. CycleMod \in Nat \ {0} /\ n - t \in 0 .. CycleMod - 1 /\ n \in Int /\ t \in Int
  BY Widths
<1>2. PICK p \in Int : n % CycleMod = n + CycleMod * p
  BY <1>1, Congruent
<1>3. PICK q \in Int : t % CycleMod = t + CycleMod * q
  BY <1>1, Congruent
<1>4. CycleMod * (p - q) = CycleMod * p - CycleMod * q /\ p - q \in Int
  BY <1>1, SMTT(20)
<1>5. (n % CycleMod) - (t % CycleMod) = CycleMod * (p - q) + (n - t)
  <2>1. CycleMod * p \in Int /\ CycleMod * q \in Int
    BY <1>1, SMTT(20)
  <2>2. QED  BY <1>2, <1>3, <1>4, <2>1
<1>6. n % CycleMod \in Int /\ t % CycleMod \in Int
  BY <1>1, Congruent
<1>7. QED  BY <1>1, <1>4, <1>5, <1>6, UniqueRemainder DEF W32

(* A signed difference is in the signed range.                             *)
LEMMA SignedTyped ==
  ASSUME NEW x \in Int
  PROVE  Signed(x) \in Int /\ -Half <= Signed(x) /\ Signed(x) < Half
<1>1. x % CycleMod \in 0 .. CycleMod - 1
  BY Euclid, Widths
<1>2. QED  BY <1>1, Widths DEF Signed

(* psxRcntSet never passes over the base counter.                          *)
LEMMA NextCounterIs ==
  ASSUME NEW rs \in [Counter -> RcntRec], NEW b, NEW t \in Nat, NEW n \in Nat, cycle = n % CycleMod,
         b.start = t % CycleMod, b.cycle \in 0 .. FrameCycles, t <= n, n - t < Half
  PROVE  /\ NextCounter(rs, b) \in 0 .. FrameCycles
         /\ NextCounter(rs, b) = 0 \/ n + NextCounter(rs, b) <= t + b.cycle
<1> DEFINE left == {Signed(r.cycle - Since(r.start)) : r \in {rs[i] : i \in Counter} \cup {b}}
           bounded == {k \in left : k < Half - 1} \cup {Half - 1}
           k0 == b.cycle - (n - t)
<1>1. /\ CycleMod \in Nat \ {0} /\ Half \in Nat \ {0} /\ CycleMod = 2 * Half /\ FrameCycles \in Nat
      /\ FrameCycles < Half - 1
  <2>1. FrameCycles \in Delays /\ Horizon \in Nat \ {0}
    BY FrameLengths, CountersAssumption, EventsAssumption
  <2>2. FrameCycles + Late + Horizon + Slack < Half
    BY <2>1, EventsAssumption
  <2>3. QED  BY <2>1, <2>2, Widths, FrameLengths
<1>2. Since(b.start) = n - t
  <2>1. W32((n % CycleMod) - (t % CycleMod)) = n - t
    <3>1. n - t < CycleMod
      BY <1>1
    <3>2. QED  BY <3>1, Elapsed
  <2>2. QED  BY <2>1 DEF Since
<1>3. Signed(b.cycle - Since(b.start)) = k0 /\ k0 \in Int /\ k0 <= FrameCycles
  <2>1. k0 \in Int /\ -Half <= k0 /\ k0 < Half /\ k0 = k0 + CycleMod * 0
    BY <1>1
  <2>2. Signed(k0) = k0
    BY <2>1, SignedIs
  <2>3. QED  BY <1>1, <1>2, <2>1, <2>2
<1>4. k0 \in left
  BY <1>3
<1>5. left \subseteq Int
  <2>1. cycle \in Int
    BY <1>1, Congruent
  <2>2. ASSUME NEW r \in {rs[i] : i \in Counter} \cup {b}
        PROVE  Signed(r.cycle - Since(r.start)) \in Int
    <3>1. CASE r = b
      BY <1>3, <3>1
    <3>2. CASE r # b
      <4>1. r.cycle \in Int /\ r.start \in Int
        BY <3>2 DEF RcntRec, Cycles
      <4>2. Since(r.start) \in Int
        BY <2>1, <4>1, SinceTyped DEF Cycles
      <4>3. QED  BY <4>1, <4>2, SignedTyped
    <3>3. QED  BY <3>1, <3>2
  <2>3. QED  BY <2>2
<1>6. NextCounter(rs, b) = IF \E k \in left : k < 0 THEN 0 ELSE Least(bounded)
  BY DEF NextCounter
<1> HIDE DEF left
<1>7. CASE \E k \in left : k < 0
  BY <1>1, <1>6, <1>7
<1>8. CASE ~(\E k \in left : k < 0)
  <2>1. 0 \in Int /\ bounded \subseteq Int /\ bounded # {} /\ \A k \in bounded : 0 <= k
    <3>1. Half - 1 \in Int /\ 0 <= Half - 1 /\ Half - 1 \in bounded
      BY <1>1
    <3>2. ASSUME NEW k \in bounded  PROVE k \in Int /\ 0 <= k
      BY <1>5, <1>8, <3>1
    <3>3. QED  BY <3>1, <3>2
  <2>2. k0 \in bounded /\ 0 <= k0
    BY <1>1, <1>3, <1>4, <1>5, <1>8
  <2> HIDE DEF bounded
  <2>3. \E x \in bounded : \A y \in bounded : x <= y
    BY <2>1, LeastExists
  <2>4. Least(bounded) \in bounded /\ \A y \in bounded : Least(bounded) <= y
    BY <2>3 DEF Least
  <2>5. Least(bounded) \in Int /\ 0 <= Least(bounded) /\ Least(bounded) <= k0
    BY <2>1, <2>2, <2>4
  <2>6. NextCounter(rs, b) = Least(bounded)
    BY <1>6, <1>8
  <2>7. QED  BY <1>1, <1>3, <2>5, <2>6
<1>9. QED  BY <1>7, <1>8

(* What set_event leaves for the event of the counters.                    *)
LEMMA Posted ==
  ASSUME NEW on, NEW k \in Nat, NEW n \in Nat, now = n, cycle = n % CycleMod, Post(on, At(k))
  PROVE  due'[RCNT] = n + k /\ event_cycles'[RCNT] = (n + k) % CycleMod
<1>1. RCNT \in Event /\ RCNT \in DOMAIN At(k) /\ At(k)[RCNT] = k
  <2>1. RCNT \in Event
    BY CountersAssumption
  <2>2. QED  BY <2>1 DEF At
<1>2. due'[RCNT] = now + k /\ event_cycles'[RCNT] = Abs(k)
  BY <1>1 DEF Post
<1>3. Abs(k) = (n + k) % CycleMod
  <2>1. CycleMod \in Nat \ {0} /\ n \in Int /\ n + k \in Int
    BY Widths
  <2>2. PICK q \in Int : n % CycleMod = n + CycleMod * q
    BY <2>1, Congruent
  <2>3. (n % CycleMod) + k = (n + k) + CycleMod * q
    <3>1. CycleMod * q \in Int
      BY <2>1, SMTT(20)
    <3>2. QED  BY <2>2, <3>1
  <2>4. n % CycleMod \in Int /\ (n % CycleMod) + k \in Int
    BY <2>1, Congruent
  <2>5. QED  BY <2>1, <2>3, <2>4, SameRemainder DEF Abs
<1>4. QED  BY <1>2, <1>3

-----------------------------------------------------------------------------
(* psxRcntUpdate leaves counters.                                          *)
LEMMA NewCountersTyped ==
  ASSUME cycle \in Int, rcnts \in [Counter -> RcntRec], base.start \in Int
  PROVE  NewCounters \in [Counter -> RcntRec]
<1>1. \A i \in Counter : Caught[i] \in RcntRec
  BY CatchUpTyped DEF Caught
<1>2. FrameStart \in Cycles
  BY W32Typed, FrameLengths DEF FrameStart
<1>3. ASSUME NEW i \in Counter
      PROVE  NewCounters[i] \in RcntRec
  <2> DEFINE r == [Caught[i] EXCEPT !.irq = FALSE]
  <2>1. r \in RcntRec
    <3>1. Caught[i] \in RcntRec
      BY <1>1
    <3>2. QED  BY <3>1 DEF RcntRec
  <2>2. NewCounters[i] =
          IF ~FrameEnd \/ i = 2 THEN r
          ELSE IF ResetSync(r.mode) THEN [r EXCEPT !.start = FrameStart]
          ELSE IF i = 1 /\ r.mode.clk THEN Wcount(r, Since(r.start) \div r.rate)
          ELSE r
    BY DEF NewCounters
  <2> HIDE DEF r
  <2>3. [r EXCEPT !.start = FrameStart] \in RcntRec
    BY <1>2, <2>1 DEF RcntRec
  <2>4. Wcount(r, Since(r.start) \div r.rate) \in RcntRec
    <3>1. r.start \in Int /\ r.rate \in Nat \ {0}
      BY <2>1 DEF RcntRec, Cycles
    <3>2. Since(r.start) \in Nat
      BY <3>1, SinceTyped DEF Cycles
    <3>3. Since(r.start) \div r.rate \in Nat
      BY <3>1, <3>2, RemainderTyped
    <3>4. QED  BY <2>1, <3>3, WcountTyped
  <2>5. QED  BY <2>1, <2>2, <2>3, <2>4
<1>4. NewCounters = [i \in Counter |-> NewCounters[i]]
  BY DEF NewCounters
<1>5. QED  BY <1>3, <1>4

(* psxRcntUpdate: nothing, the vertical blank, or the next frame.          *)
LEMMA UpdateKeeps ==
  ASSUME FrameInv, InTime, Update, UNCHANGED <<now, cycle>>
  PROVE  FrameInv' /\ FrameBegin <= FrameBegin'
<1> DEFINE n == now  t == FrameBegin
<1>1. /\ n \in Nat /\ t \in Nat /\ t <= n /\ n - t < Half /\ n - t < CycleMod
      /\ cycle = n % CycleMod /\ base.start = t % CycleMod /\ cycle \in Int /\ base.start \in Int
      /\ frames \in Nat /\ rcnts \in [Counter -> RcntRec] /\ DOMAIN raised = 0 .. 3
      /\ hSyncCount \in {0, VBlankStart} /\ hsync_steps = Steps(hSyncCount)
      /\ base = [start |-> base.start, cycle |-> BaseCycle(hSyncCount)]
      /\ raised[3] = IF hSyncCount = 0 THEN 0 ELSE 1
      /\ hSyncCount = VBlankStart => t + VBlankStart * LineCycles <= n
  <2>1. /\ n \in Nat /\ t \in Nat /\ t <= n /\ n - t < Half
    BY FrameBeginTyped DEF FrameInv, InTime, FrameBegin
  <2>2. n - t < CycleMod
    BY <2>1, Widths
  <2>3. cycle = n % CycleMod /\ base.start = t % CycleMod /\ cycle \in Int /\ base.start \in Int
    BY <2>1, Widths, RemainderTyped DEF FrameInv
  <2>4. QED  BY <2>1, <2>2, <2>3 DEF FrameInv
<1>2. Since(base.start) = n - t
  BY <1>1, Elapsed DEF Since
<1>3. NewCounters \in [Counter -> RcntRec]
  BY <1>1, NewCountersTyped
<1>4. /\ rcnts' = NewCounters /\ base' = NewBase /\ hSyncCount' = NewLines
      /\ hsync_steps' = (IF BaseDue THEN Steps(NewLines) ELSE hsync_steps)
      /\ frames' = (IF FrameEnd THEN frames + 1 ELSE frames)
      /\ DOMAIN raised' = 0 .. 3
      /\ raised'[3] = IF FrameEnd THEN 0 ELSE raised[3] + (IF VBlank THEN 1 ELSE 0)
  BY DEF Update
<1>5. now' = n /\ cycle' = n % CycleMod
  BY <1>1
<1>6. FrameBegin' = Start + frames' * FrameCycles
  BY DEF FrameBegin
<1> HIDE DEF n, t
<1>7. CASE ~BaseDue
  <2>1. /\ base' = base /\ hSyncCount' = hSyncCount /\ hsync_steps' = hsync_steps
        /\ frames' = frames /\ raised'[3] = raised[3]
    <3>1. ~FrameEnd /\ ~VBlank
      BY <1>7 DEF FrameEnd, VBlank
    <3>2. NewBase = [start |-> base.start, cycle |-> base.cycle]
      BY <1>7, <3>1 DEF NewBase
    <3>3. [start |-> base.start, cycle |-> base.cycle] = base
      BY <1>1
    <3>4. NewLines = hSyncCount
      BY <1>7, <3>1 DEF NewLines
    <3>5. raised[3] + 0 = raised[3]
      BY <1>1
    <3>6. QED  BY <1>4, <1>7, <3>1, <3>2, <3>3, <3>4, <3>5
  <2>2. FrameBegin' = t
    BY <1>6, <2>1 DEF t, FrameBegin
  <2>3. QED  BY <1>1, <1>3, <1>4, <1>5, <2>1, <2>2 DEF FrameInv, t, n
<1>8. CASE BaseDue /\ hSyncCount = 0
  <2>1. Lines = VBlankStart /\ VBlank /\ ~FrameEnd
    BY <1>1, <1>8, BaseCycles, FrameLengths DEF Lines, VBlank, FrameEnd
  <2>2. NewLines = VBlankStart /\ NewBase = [start |-> base.start, cycle |-> BaseCycle(VBlankStart)]
    BY <1>8, <2>1 DEF NewLines, NewBase
  <2>3. frames' = frames /\ FrameBegin' = t
    BY <1>4, <1>6, <2>1 DEF t, FrameBegin
  <2>4. t + VBlankStart * LineCycles <= n
    <3>1. base.cycle = VBlankStart * LineCycles
      BY <1>1, <1>8, BaseCycles
    <3>2. n - t >= VBlankStart * LineCycles
      BY <1>2, <1>8, <3>1 DEF BaseDue
    <3>3. QED  BY <1>1, <3>2, FrameLengths
  <2>5. /\ hSyncCount' = VBlankStart /\ hsync_steps' = Steps(VBlankStart) /\ raised'[3] = 1
        /\ base' = [start |-> t % CycleMod, cycle |-> BaseCycle(VBlankStart)]
    BY <1>1, <1>4, <1>8, <2>1, <2>2
  <2>6. VBlankStart # 0 /\ VBlankStart \in {0, VBlankStart} /\ frames' \in Nat /\ t <= t
    BY <1>1, <2>3, FrameLengths
  <2>7. FrameBegin <= FrameBegin'
    BY <2>3, <2>6 DEF t
  <2>8. FrameInv'
    <3>1. now' \in Nat /\ cycle' = now' % CycleMod /\ FrameBegin' <= now'
      BY <1>1, <1>5, <2>3
    <3>2. FrameBegin' + VBlankStart * LineCycles <= now'
      BY <1>5, <2>3, <2>4
    <3>3. rcnts' \in [Counter -> RcntRec] /\ DOMAIN raised' = 0 .. 3
      BY <1>3, <1>4
    <3>4. base' = [start |-> FrameBegin' % CycleMod, cycle |-> BaseCycle(hSyncCount')]
      BY <2>3, <2>5
    <3>5. raised'[3] = IF hSyncCount' = 0 THEN 0 ELSE 1
      BY <2>5, <2>6
    <3>6. hsync_steps' = Steps(hSyncCount') /\ hSyncCount' \in {0, VBlankStart}
      BY <2>5
    <3>7. QED  BY <2>6, <3>1, <3>2, <3>3, <3>4, <3>5, <3>6 DEF FrameInv
  <2>9. QED  BY <2>7, <2>8
<1>9. CASE BaseDue /\ hSyncCount = VBlankStart
  <2>1. Lines = HSyncTotal /\ ~VBlank /\ FrameEnd
    BY <1>1, <1>9, BaseCycles, FrameLengths DEF Lines, VBlank, FrameEnd
  <2>2. NewLines = 0 /\ NewBase = [start |-> FrameStart, cycle |-> BaseCycle(0)]
    BY <1>9, <2>1 DEF NewLines, NewBase
  <2>3. frames' = frames + 1 /\ FrameBegin' = t + FrameCycles
    <3>1. frames' = frames + 1
      BY <1>4, <2>1
    <3>2. (frames + 1) * FrameCycles = frames * FrameCycles + FrameCycles
      BY <1>1, FrameLengths, SMTT(20)
    <3>3. frames * FrameCycles \in Nat /\ Start \in Nat
      BY <1>1, FrameLengths, ProductTyped, EventsAssumption
    <3>4. QED  BY <1>6, <3>1, <3>2, <3>3, FrameLengths DEF t, FrameBegin
  <2>4. t + FrameCycles <= n
    <3>1. base.cycle = FrameCycles
      BY <1>1, <1>9, BaseCycles
    <3>2. n - t >= FrameCycles
      BY <1>2, <1>9, <3>1 DEF BaseDue
    <3>3. QED  BY <1>1, <3>2, FrameLengths
  <2>5. FrameStart = (t + FrameCycles) % CycleMod
    <3>1. CycleMod \in Nat \ {0} /\ t \in Int /\ FrameCycles \in Nat /\ t + FrameCycles \in Int
      BY <1>1, Widths, FrameLengths
    <3>2. PICK q \in Int : t % CycleMod = t + CycleMod * q
      BY <3>1, Congruent
    <3>3. (t % CycleMod) + FrameCycles = (t + FrameCycles) + CycleMod * q
      <4>1. CycleMod * q \in Int
        BY <3>1, SMTT(20)
      <4>2. QED  BY <3>1, <3>2, <4>1
    <3>4. (t % CycleMod) + FrameCycles \in Int
      BY <3>1, Congruent
    <3>5. ((t % CycleMod) + FrameCycles) % CycleMod = (t + FrameCycles) % CycleMod
      BY <3>1, <3>3, <3>4, SameRemainder
    <3>6. QED  BY <1>1, <3>5 DEF FrameStart, W32
  <2>6. /\ hSyncCount' = 0 /\ hsync_steps' = Steps(0) /\ raised'[3] = 0
        /\ base' = [start |-> (t + FrameCycles) % CycleMod, cycle |-> BaseCycle(0)]
    BY <1>1, <1>4, <1>9, <2>1, <2>2, <2>5
  <2>7. t <= t + FrameCycles /\ 0 # VBlankStart
    BY <1>1, FrameLengths
  <2>8. frames' \in Nat
    BY <1>1, <2>3
  <2>9. QED  BY <1>1, <1>3, <1>4, <1>5, <2>3, <2>4, <2>6, <2>7, <2>8 DEF FrameInv, t
<1>10. QED  BY <1>1, <1>7, <1>8, <1>9

-----------------------------------------------------------------------------
(* psxRcntSet posts the event no later than the step of the base counter.  *)
LEMMA DueKept ==
  ASSUME FrameInv, FrameInv', InTime, UNCHANGED <<now, cycle>>, FrameBegin <= FrameBegin',
         NEW on, Post(on, At(NextCounter(rcnts', base')))
  PROVE  DueInv' /\ NextCounter(rcnts', base') \in 0 .. FrameCycles
<1>1. PICK rs : rs = rcnts'
  OBVIOUS
<1>2. PICK b : b = base'
  OBVIOUS
<1>3. PICK t : t = FrameBegin'
  OBVIOUS
<1>4. PICK n : n = now
  OBVIOUS
<1>5. /\ rs \in [Counter -> RcntRec] /\ n \in Nat /\ cycle = n % CycleMod /\ t <= n
      /\ b.start = t % CycleMod
  BY <1>1, <1>2, <1>3, <1>4 DEF FrameInv
<1>6. t \in Nat
  <2>1. frames' \in Nat
    BY DEF FrameInv
  <2>2. frames' * FrameCycles \in Nat
    BY <2>1, FrameLengths, ProductTyped
  <2>3. FrameBegin' = Start + frames' * FrameCycles
    BY DEF FrameBegin
  <2>4. Start \in Nat
    BY EventsAssumption
  <2>5. t = Start + frames' * FrameCycles
    BY <1>3, <2>3
  <2> HIDE DEF FrameCycles
  <2>6. QED  BY <2>2, <2>4, <2>5
<1>7. n - t < Half
  <2>1. FrameBegin \in Nat
    BY FrameBeginTyped DEF FrameInv
  <2>2. n - FrameBegin < Half
    BY <1>4 DEF InTime, FrameBegin
  <2>3. FrameBegin <= t
    BY <1>3
  <2>4. Half \in Nat
    BY Widths
  <2>5. n \in Nat /\ t \in Nat
    BY <1>5, <1>6
  <2> HIDE DEF FrameBegin, Half
  <2>6. QED  BY <2>1, <2>2, <2>3, <2>4, <2>5
<1>8. b.cycle \in 0 .. FrameCycles
  <2>1. hSyncCount' \in {0, VBlankStart} /\ b.cycle = BaseCycle(hSyncCount')
    BY <1>2 DEF FrameInv
  <2>2. QED  BY <2>1, BaseCycles, FrameLengths
<1>9. PICK k : k = NextCounter(rs, b)
  OBVIOUS
<1>10. k \in 0 .. FrameCycles /\ (k = 0 \/ n + k <= t + b.cycle)
  BY <1>5, <1>6, <1>7, <1>8, <1>9, NextCounterIs
<1>11. Post(on, At(k)) /\ k \in Nat
  BY <1>1, <1>2, <1>9, <1>10
<1>12. due'[RCNT] = n + k /\ event_cycles'[RCNT] = (n + k) % CycleMod
  BY <1>4, <1>5, <1>11, Posted
<1>13. now' = n /\ base'.cycle = b.cycle
  BY <1>2, <1>4
<1>14. DueInv'
  <2>1. t <= n + k
    BY <1>5, <1>6, <1>10
  <2>2. n + k <= n \/ n + k <= t + b.cycle
    BY <1>5, <1>10
  <2>3. QED  BY <1>3, <1>5, <1>10, <1>12, <1>13, <2>1, <2>2 DEF DueInv
<1>15. QED  BY <1>1, <1>2, <1>9, <1>10, <1>14

RcntInv == FrameInv /\ DueInv
(* A step that leaves the base counter and the time alone.                 *)
LEMMA FrameKept ==
  ASSUME FrameInv, rcnts' \in [Counter -> RcntRec], DOMAIN raised' = 0 .. 3, raised'[3] = raised[3],
         UNCHANGED <<base, hSyncCount, hsync_steps, frames, now, cycle>>
  PROVE  FrameInv' /\ FrameBegin' = FrameBegin
BY DEF FrameInv, FrameBegin, BaseCycle, Steps

(* What the three writes of the program share.                             *)
LEMMA WrittenKeeps ==
  ASSUME RcntInv, InTime, NEW i \in Counter, NEW r \in RcntRec, RcntWritten(i, r),
         DOMAIN raised' = 0 .. 3, raised'[3] = raised[3]
  PROVE  RcntInv' /\ NextCounter(rcnts', base) \in 0 .. FrameCycles
<1>1. /\ rcnts' = [rcnts EXCEPT ![i] = r] /\ Access(interrupt, At(NextCounter(rcnts', base)))
      /\ UNCHANGED <<base, hSyncCount, hsync_steps, yield, frames>>
  BY DEF RcntWritten
<1>2. UNCHANGED <<now, cycle>> /\ Post(interrupt, At(NextCounter(rcnts', base)))
  BY <1>1 DEF Access
<1>3. rcnts' \in [Counter -> RcntRec]
  BY <1>1 DEF RcntInv, FrameInv
<1>4. FrameInv' /\ FrameBegin' = FrameBegin
  BY <1>1, <1>2, <1>3, FrameKept DEF RcntInv
<1>5. Post(interrupt, At(NextCounter(rcnts', base'))) /\ NextCounter(rcnts', base) = NextCounter(rcnts', base')
  BY <1>1, <1>2
<1>6. FrameBegin <= FrameBegin'
  <2>1. FrameBegin \in Nat
    BY FrameBeginTyped DEF RcntInv, FrameInv
  <2>2. QED  BY <1>4, <2>1
<1>7. QED  BY <1>2, <1>4, <1>5, <1>6, DueKept DEF RcntInv

-----------------------------------------------------------------------------
(* The types that the steps below need.                                    *)
LEMMA Registers ==
  ASSUME RcntInv
  PROVE  /\ cycle \in Int /\ now \in Nat /\ rcnts \in [Counter -> RcntRec] /\ DOMAIN raised = 0 .. 3
         /\ FrameBegin \in Nat
<1>1. /\ now \in Nat /\ cycle = now % CycleMod /\ rcnts \in [Counter -> RcntRec]
      /\ DOMAIN raised = 0 .. 3 /\ frames \in Nat
  BY DEF RcntInv, FrameInv
<1>2. cycle \in Int
  BY <1>1, Widths, RemainderTyped
<1>3. QED  BY <1>1, <1>2, FrameBeginTyped

(* A rate is never zero.                                                   *)
LEMMA RateTyped ==
  ASSUME NEW i \in Counter, NEW m \in Mode
  PROVE  Rate(i, m) \in Nat \ {0}
<1>1. CycleMod - 1 \in Nat \ {0}
  BY Widths
<1>2. PixelRate \in Nat \ {0} /\ LineCycles \in Nat \ {0} /\ EighthRate \in Nat \ {0}
  BY CountersAssumption
<1>3. i = 0 \/ i = 1 \/ i = 2
  BY DEF Counter
<1>4. m.clk \in BOOLEAN
  BY DEF Mode
<1>5. CASE m.sync = "stop" /\ i = 2
  BY <1>1, <1>5 DEF Rate
<1>6. CASE ~(m.sync = "stop" /\ i = 2) /\ ~m.clk
  BY <1>6 DEF Rate
<1>7. CASE ~(m.sync = "stop" /\ i = 2) /\ m.clk
  <2>1. Rate(i, m) = <<PixelRate, LineCycles, EighthRate>>[i + 1]
    BY <1>7 DEF Rate
  <2>2. QED  BY <1>2, <1>3, <2>1
<1>8. QED  BY <1>4, <1>5, <1>6, <1>7

(* The count that is read.                                                 *)
LEMMA RcountTyped ==
  ASSUME cycle \in Int, NEW r \in RcntRec
  PROVE  Rcount(r) \in Nat
<1>1. r.start \in Int /\ r.rate \in Nat \ {0}
  BY DEF RcntRec, Cycles
<1>2. Since(r.start) \in Nat
  BY <1>1, SinceTyped DEF Cycles
<1>3. Since(r.start) \div r.rate \in Nat
  BY <1>1, <1>2, RemainderTyped
<1>4. Overflow \in Nat \ {0}
  BY CountersAssumption
<1>5. PICK x \in Nat : Rcount(r) = x % Overflow
  BY <1>2, <1>3 DEF Rcount
<1>6. QED  BY <1>4, <1>5, RemainderTyped

(* psxRcntWcount, psxRcntWmode and psxRcntWtarget.                         *)
LEMMA CountKeeps ==
  ASSUME RcntInv, InTime, NEW i \in Counter, NEW v \in Counts, psxRcntWcount(i, v)
  PROVE  RcntInv' /\ NextCounter(rcnts', base) \in 0 .. FrameCycles
<1>1. v \in Nat /\ rcnts[i] \in RcntRec
  BY Registers, CountersAssumption
<1>2. Wcount(rcnts[i], v) \in RcntRec
  BY <1>1, Registers, WcountTyped
<1>3. RcntWritten(i, Wcount(rcnts[i], v)) /\ DOMAIN raised' = 0 .. 3 /\ raised'[3] = raised[3]
  BY Registers DEF psxRcntWcount
<1>4. QED  BY <1>2, <1>3, WrittenKeeps

LEMMA ModeKeeps ==
  ASSUME RcntInv, InTime, NEW i \in Counter, NEW m \in Modes[i], psxRcntWmode(i, m)
  PROVE  RcntInv' /\ NextCounter(rcnts', base) \in 0 .. FrameCycles
<1> DEFINE r == [rcnts[i] EXCEPT !.mode = m, !.rate = Rate(i, m), !.hitT = FALSE, !.hitO = FALSE]
           s == [Wcount(r, 0) EXCEPT !.irqd = FALSE]
<1>1. m \in Mode /\ rcnts[i] \in RcntRec
  BY Registers, CountersAssumption
<1>2. r \in RcntRec
  <2>1. Rate(i, m) \in Nat \ {0}
    BY <1>1, RateTyped
  <2>2. QED  BY <1>1, <2>1 DEF RcntRec
<1>3. RcntWritten(i, s) /\ raised' = [raised EXCEPT ![i] = 0]
  BY DEF psxRcntWmode
<1> HIDE DEF r
<1>4. s \in RcntRec
  <2>1. Wcount(r, 0) \in RcntRec
    BY <1>2, Registers, WcountTyped
  <2>2. QED  BY <2>1 DEF RcntRec
<1> HIDE DEF s
<1>5. DOMAIN raised' = 0 .. 3 /\ raised'[3] = raised[3]
  <2>1. i # 3 /\ 3 \in 0 .. 3
    BY DEF Counter
  <2>2. QED  BY <1>3, <2>1, Registers
<1>6. QED  BY <1>3, <1>4, <1>5, WrittenKeeps

LEMMA TargetKeeps ==
  ASSUME RcntInv, InTime, NEW i \in Counter, NEW t \in Targets, psxRcntWtarget(i, t)
  PROVE  RcntInv' /\ NextCounter(rcnts', base) \in 0 .. FrameCycles
<1> DEFINE r == [rcnts[i] EXCEPT !.target = t]
<1>1. t \in Nat /\ rcnts[i] \in RcntRec
  BY Registers, CountersAssumption
<1>2. r \in RcntRec
  BY <1>1 DEF RcntRec
<1>3. RcntWritten(i, Wcount(r, Rcount(r))) /\ DOMAIN raised' = 0 .. 3 /\ raised'[3] = raised[3]
  BY Registers DEF psxRcntWtarget
<1> HIDE DEF r
<1>4. Wcount(r, Rcount(r)) \in RcntRec
  <2>1. Rcount(r) \in Nat
    BY <1>2, Registers, RcountTyped
  <2>2. QED  BY <1>2, <2>1, Registers, WcountTyped
<1>5. QED  BY <1>3, <1>4, WrittenKeeps

(* The two reads that change a counter touch nothing of the event.         *)
LEMMA QuietKeeps ==
  ASSUME RcntInv, rcnts' \in [Counter -> RcntRec],
         UNCHANGED <<evars, base, hSyncCount, hsync_steps, raised, frames>>
  PROVE  RcntInv'
<1>1. UNCHANGED <<now, cycle, due, event_cycles>>
  BY DEF evars
<1>2. DOMAIN raised' = 0 .. 3 /\ raised'[3] = raised[3]
  BY DEF RcntInv, FrameInv
<1>3. FrameInv' /\ FrameBegin' = FrameBegin
  BY <1>1, <1>2, FrameKept DEF RcntInv
<1>4. DueInv'
  BY <1>1, <1>3 DEF RcntInv, DueInv
<1>5. QED  BY <1>3, <1>4 DEF RcntInv

LEMMA RmodeKeeps ==
  ASSUME RcntInv, NEW i \in Counter, psxRcntRmode(i)
  PROVE  RcntInv' /\ UNCHANGED evars
<1>1. /\ rcnts' = [rcnts EXCEPT ![i].hitT = FALSE, ![i].hitO = FALSE]
      /\ UNCHANGED <<evars, base, hSyncCount, hsync_steps, raised, frames>>
  BY DEF psxRcntRmode
<1>2. rcnts' \in [Counter -> RcntRec]
  BY <1>1, Registers DEF RcntRec
<1>3. QED  BY <1>1, <1>2, QuietKeeps

LEMMA Rcount0Keeps ==
  ASSUME RcntInv, psxRcntRcount0
  PROVE  RcntInv' /\ UNCHANGED evars
<1> DEFINE s == W32(cycle - (Since(rcnts[0].start) % LineCycles))
<1>1. /\ rcnts' = [rcnts EXCEPT ![0].start = s]
      /\ UNCHANGED <<evars, base, hSyncCount, hsync_steps, raised, frames>>
  BY DEF psxRcntRcount0
<1>2. s \in Cycles
  <2>1. 0 \in Counter /\ rcnts[0].start \in Int
    BY Registers DEF RcntRec, Counter, Cycles
  <2>2. Since(rcnts[0].start) \in Nat
    BY <2>1, Registers, SinceTyped DEF Cycles
  <2>3. Since(rcnts[0].start) % LineCycles \in Nat
    BY <2>2, FrameLengths, RemainderTyped
  <2>4. QED  BY <2>3, Registers, W32Typed
<1> HIDE DEF s
<1>3. rcnts' \in [Counter -> RcntRec]
  BY <1>1, <1>2, Registers DEF RcntRec
<1>4. QED  BY <1>1, <1>3, QuietKeeps

-----------------------------------------------------------------------------
(* The update, from psxBranchTest and as the handler of the event.         *)
LEMMA UpdatePosts ==
  ASSUME RcntInv, InTime, Update, UNCHANGED <<now, cycle>>, NEW on, Post(on, RcntDelay)
  PROVE  RcntInv' /\ NextCounter(NewCounters, NewBase) \in 0 .. FrameCycles
<1>1. FrameInv' /\ FrameBegin <= FrameBegin'
  BY UpdateKeeps DEF RcntInv
<1>2. rcnts' = NewCounters /\ base' = NewBase
  BY DEF Update
<1>3. NextCounter(rcnts', base') = NextCounter(NewCounters, NewBase)
  BY <1>2
<1>4. Post(on, At(NextCounter(rcnts', base')))
  BY <1>3 DEF RcntDelay
<1>5. DueInv' /\ NextCounter(rcnts', base') \in 0 .. FrameCycles
  BY <1>1, <1>4, DueKept DEF RcntInv
<1>6. QED  BY <1>1, <1>3, <1>5 DEF RcntInv

LEMMA BranchUpdateKeeps ==
  ASSUME RcntInv, InTime, BranchUpdate
  PROVE  RcntInv' /\ NextCounter(NewCounters, NewBase) \in 0 .. FrameCycles
<1>1. Update /\ UNCHANGED <<now, cycle>> /\ Post(interrupt, RcntDelay)
  BY DEF BranchUpdate, Access
<1>2. QED  BY <1>1, UpdatePosts

LEMMA ServeKeeps ==
  ASSUME RcntInv, InTime, Serve
  PROVE  RcntInv' /\ NextCounter(NewCounters, NewBase) \in 0 .. FrameCycles
<1>1. Update /\ UNCHANGED <<now, cycle>> /\ Post(interrupt \ {RCNT}, RcntDelay)
  BY DEF Serve, Handle
<1>2. QED  BY <1>1, UpdatePosts

(* A state is loaded.                                                      *)
LEMMA LoadedTyped ==
  ASSUME cycle \in Int, rcnts \in [Counter -> RcntRec], NEW i \in Counter
  PROVE  Loaded(i) \in RcntRec
<1> DEFINE r == [rcnts[i] EXCEPT !.rate = Rate(i, rcnts[i].mode)]
           count == Since(r.start) \div r.rate
<1>1. r \in RcntRec
  <2>1. rcnts[i] \in RcntRec /\ rcnts[i].mode \in Mode
    BY DEF RcntRec
  <2>2. Rate(i, rcnts[i].mode) \in Nat \ {0}
    BY <2>1, RateTyped
  <2>3. QED  BY <2>1, <2>2 DEF RcntRec
<1>2. Loaded(i) = IF count > LoadLimit THEN Wcount(r, count % Overflow) ELSE r
  BY DEF Loaded
<1> HIDE DEF r
<1>3. count % Overflow \in Nat
  <2>1. r.start \in Int /\ r.rate \in Nat \ {0}
    BY <1>1 DEF RcntRec, Cycles
  <2>2. Since(r.start) \in Nat
    BY <2>1, SinceTyped DEF Cycles
  <2>3. count \in Nat
    BY <2>1, <2>2, RemainderTyped
  <2>4. Overflow \in Nat \ {0}
    BY CountersAssumption
  <2> HIDE DEF count
  <2>5. QED  BY <2>3, <2>4, RemainderTyped
<1>4. Wcount(r, count % Overflow) \in RcntRec
  BY <1>1, <1>3, WcountTyped
<1>5. QED  BY <1>1, <1>2, <1>4

LEMMA FreezeKeeps ==
  ASSUME RcntInv, InTime, psxRcntFreeze
  PROVE  RcntInv' /\ NextCounter(rcnts', base') \in 0 .. FrameCycles
<1>1. /\ rcnts' = [i \in Counter |-> Loaded(i)] /\ base' = LoadedBase
      /\ hsync_steps' = Steps(hSyncCount) /\ UNCHANGED <<hSyncCount, raised, frames>>
      /\ Access(interrupt, At(NextCounter(rcnts', base')))
  BY DEF psxRcntFreeze
<1>2. UNCHANGED <<now, cycle>> /\ Post(interrupt, At(NextCounter(rcnts', base')))
  BY <1>1 DEF Access
<1>3. UNCHANGED <<base, hsync_steps>>
  BY <1>1 DEF RcntInv, FrameInv, LoadedBase
<1>4. rcnts' \in [Counter -> RcntRec]
  BY <1>1, LoadedTyped, Registers
<1>5. DOMAIN raised' = 0 .. 3 /\ raised'[3] = raised[3]
  BY <1>1, Registers
<1>6. FrameInv' /\ FrameBegin' = FrameBegin
  BY <1>1, <1>2, <1>3, <1>4, <1>5, FrameKept DEF RcntInv
<1>7. FrameBegin <= FrameBegin'
  BY <1>6, Registers
<1>8. DueInv' /\ NextCounter(rcnts', base') \in 0 .. FrameCycles
  BY <1>2, <1>6, <1>7, DueKept DEF RcntInv
<1>9. QED  BY <1>6, <1>8 DEF RcntInv

(* Time passes.                                                            *)
LEMMA ExecuteKeeps ==
  ASSUME RcntInv, NEW k \in Strides, Run(k),
         UNCHANGED <<rcnts, base, hSyncCount, hsync_steps, raised, frames>>
  PROVE  RcntInv'
<1>1. k \in Nat
  <2>1. Strides \subseteq 1..(Horizon + Slack)
    BY CountersAssumption
  <2>2. QED  BY <2>1, Widths
<1>2. now' = now + k /\ cycle' = Abs(k) /\ UNCHANGED <<due, event_cycles>>
  BY DEF Run
<1>3. cycle' = now' % CycleMod
  <2>1. CycleMod \in Nat \ {0} /\ now \in Nat /\ now \in Int /\ cycle = now % CycleMod
    BY Widths DEF RcntInv, FrameInv
  <2>2. PICK q \in Int : now % CycleMod = now + CycleMod * q
    BY <2>1, Congruent
  <2>3. (now % CycleMod) + k = (now + k) + CycleMod * q
    <3>1. CycleMod * q \in Int
      BY <2>1, SMTT(20)
    <3>2. QED  BY <1>1, <2>1, <2>2, <3>1
  <2>4. (now % CycleMod) + k \in Int /\ now + k \in Int
    <3>1. now % CycleMod \in Nat
      BY <2>1, RemainderTyped
    <3>2. QED  BY <1>1, <2>1, <3>1
  <2>5. ((now % CycleMod) + k) % CycleMod = (now + k) % CycleMod
    BY <2>1, <2>3, <2>4, SameRemainder
  <2>6. QED  BY <1>2, <2>1, <2>5 DEF Abs
<1>4. FrameBegin' = FrameBegin /\ FrameBegin \in Nat /\ now \in Nat /\ now' \in Nat /\ now <= now'
  BY <1>1, <1>2, Registers DEF FrameBegin
<1>5. FrameInv'
  <2>1. FrameBegin' <= now'
    BY <1>4 DEF RcntInv, FrameInv
  <2>2. hSyncCount' = VBlankStart => FrameBegin' + VBlankStart * LineCycles <= now'
    <3>1. VBlankStart * LineCycles \in Nat
      BY FrameLengths
    <3>2. hSyncCount = VBlankStart => FrameBegin + VBlankStart * LineCycles <= now
      BY DEF RcntInv, FrameInv
    <3>3. hSyncCount' = hSyncCount
      OBVIOUS
    <3> HIDE DEF FrameBegin
    <3>4. QED  BY <1>4, <3>1, <3>2, <3>3
  <2>3. base' = [start |-> FrameBegin' % CycleMod, cycle |-> BaseCycle(hSyncCount')]
    BY <1>4 DEF RcntInv, FrameInv
  <2>4. hsync_steps' = Steps(hSyncCount') /\ frames' \in Nat /\ hSyncCount' \in {0, VBlankStart}
    BY DEF RcntInv, FrameInv
  <2>5. raised'[3] = IF hSyncCount' = 0 THEN 0 ELSE 1
    BY DEF RcntInv, FrameInv
  <2>6. rcnts' \in [Counter -> RcntRec] /\ DOMAIN raised' = 0 .. 3
    BY Registers
  <2>7. QED  BY <1>3, <1>4, <2>1, <2>2, <2>3, <2>4, <2>5, <2>6 DEF FrameInv
<1>6. DueInv'
  <2>1. due'[RCNT] = due[RCNT] /\ event_cycles'[RCNT] = event_cycles[RCNT] /\ base' = base
    BY <1>2
  <2>2. due[RCNT] <= now => due[RCNT] <= now'
    BY <1>4 DEF RcntInv, DueInv
  <2>3. QED  BY <1>4, <2>1, <2>2 DEF RcntInv, DueInv
<1>7. QED  BY <1>5, <1>6 DEF RcntInv

(* irq_test is entered or left.                                            *)
LEMMA StillKeeps ==
  ASSUME RcntInv, UNCHANGED <<now, cycle, due, event_cycles, cvars>>
  PROVE  RcntInv'
<1>1. UNCHANGED <<rcnts, base, hSyncCount, hsync_steps, raised, frames, now, cycle, due, event_cycles>>
  BY DEF cvars
<1>2. FrameInv' /\ FrameBegin' = FrameBegin
  BY <1>1, Registers, FrameKept DEF RcntInv
<1>3. DueInv'
  BY <1>1, <1>2 DEF RcntInv, DueInv
<1>4. QED  BY <1>2, <1>3 DEF RcntInv

-----------------------------------------------------------------------------
(* psxRcntInit.                                                            *)
LEMMA InitKeeps ==
  ASSUME InitRcnt
  PROVE  RcntInv /\ NextCounter(rcnts, base) \in 0 .. FrameCycles
<1> DEFINE r0 == [mode |-> NoMode, target |-> 0, rate |-> 1, cycle |-> 0, start |-> 0, to |-> FALSE,
                  irqd |-> FALSE, irq |-> FALSE, hitT |-> FALSE, hitO |-> FALSE]
<1>1. /\ cycle = Start % CycleMod /\ now = Start
      /\ rcnts = [i \in Counter |-> Wcount(r0, 0)]
      /\ base = [start |-> cycle, cycle |-> BaseCycle(0)]
      /\ hSyncCount = 0 /\ hsync_steps = Steps(0) /\ psxNextCounter = NextCounter(rcnts, base)
      /\ InitEvents(At(psxNextCounter))
      /\ raised = [i \in 0..3 |-> 0] /\ frames = 0
  BY Zenon DEF InitRcnt
<1>2. CycleMod \in Nat \ {0} /\ Half \in Nat \ {0} /\ Start \in Nat /\ FrameCycles \in Nat
  BY Widths, EventsAssumption, FrameLengths
<1>3. cycle \in Int
  BY <1>1, <1>2, RemainderTyped
<1>4. r0 \in RcntRec
  <2>1. 0 \in Cycles
    BY <1>2 DEF Cycles
  <2>2. NoMode \in Mode
    BY DEF NoMode, Mode
  <2>3. QED  BY <2>1, <2>2 DEF RcntRec
<1> HIDE DEF r0
<1>5. rcnts \in [Counter -> RcntRec]
  <2>1. Wcount(r0, 0) \in RcntRec
    BY <1>3, <1>4, WcountTyped
  <2>2. QED  BY <1>1, <2>1
<1>6. FrameBegin = Start
  <2>1. frames * FrameCycles = 0
    BY <1>1, <1>2, SMTT(20)
  <2>2. QED  BY <1>2, <2>1 DEF FrameBegin
<1>7. FrameInv
  <2>1. VBlankStart # 0 /\ base = [start |-> FrameBegin % CycleMod, cycle |-> BaseCycle(hSyncCount)]
    BY <1>1, <1>6, FrameLengths
  <2>2. FrameBegin <= now /\ now \in Nat /\ frames \in Nat
    BY <1>1, <1>2, <1>6
  <2>3. DOMAIN raised = 0 .. 3 /\ raised[3] = 0
    BY <1>1
  <2>4. QED  BY <1>1, <1>5, <2>1, <2>2, <2>3 DEF FrameInv
<1>8. NextCounter(rcnts, base) \in 0 .. FrameCycles
      /\ (NextCounter(rcnts, base) = 0 \/ now + NextCounter(rcnts, base) <= Start + base.cycle)
  <2>1. base.start = Start % CycleMod /\ base.cycle \in 0 .. FrameCycles
    BY <1>1, BaseCycles, FrameLengths
  <2>2. Start <= now /\ now - Start < Half /\ now \in Nat /\ cycle = now % CycleMod
    BY <1>1, <1>2
  <2>3. QED  BY <1>2, <1>5, <2>1, <2>2, NextCounterIs
<1>9. DueInv
  <2> DEFINE k == psxNextCounter
  <2>1. RCNT \in Event /\ RCNT \in DOMAIN At(k) /\ At(k)[RCNT] = k
    <3>1. RCNT \in Event
      BY CountersAssumption
    <3>2. QED  BY <3>1 DEF At
  <2>2. interrupt = DOMAIN At(k) /\ due = [e \in Event |-> IF e \in interrupt THEN now + At(k)[e] ELSE now]
        /\ event_cycles = [e \in Event |-> due[e] % CycleMod]
    BY <1>1 DEF InitEvents
  <2>3. due[RCNT] = now + k /\ event_cycles[RCNT] = due[RCNT] % CycleMod
    BY <2>1, <2>2
  <2>4. k \in Nat /\ (k = 0 \/ now + k <= Start + base.cycle)
    BY <1>1, <1>2, <1>8
  <2>5. due[RCNT] \in Nat /\ FrameBegin <= due[RCNT]
    BY <1>1, <1>2, <1>6, <2>3, <2>4
  <2>6. due[RCNT] <= now \/ due[RCNT] <= FrameBegin + base.cycle
    BY <1>1, <1>2, <1>6, <2>3, <2>4
  <2>7. QED  BY <2>3, <2>5, <2>6 DEF DueInv
<1>10. QED  BY <1>7, <1>8, <1>9 DEF RcntInv

(* What psxRcntSet posts is a post the scheduler allows.                   *)
LEMMA AtPosts ==
  ASSUME NEW k \in 0 .. FrameCycles
  PROVE  At(k) \in Posts /\ \A e \in DOMAIN At(k) : At(k)[e] >= 0
<1>1. {RCNT} \in SUBSET Event /\ k \in Delays
  BY CountersAssumption
<1>2. At(k) \in [{RCNT} -> Delays]
  BY <1>1 DEF At
<1>3. At(k) \in Posts
  BY <1>1, <1>2 DEF Posts
<1>4. \A e \in DOMAIN At(k) : At(k)[e] >= 0
  BY FrameLengths DEF At
<1>5. QED  BY <1>3, <1>4

(* A step of the counters keeps the invariant and is a step of the         *)
(* scheduler, or leaves the scheduler alone.                               *)
LEMMA StepKeeps ==
  ASSUME RcntInv, InTime, [NextRcnt]_rvars
  PROVE  RcntInv' /\ [NextEvent]_evars
<1>1. ASSUME NEW k \in 0 .. FrameCycles, Access(interrupt, At(k))  PROVE NextEvent
  BY <1>1, AtPosts DEF NextEvent
<1>2. CASE UNCHANGED rvars
  <2>1. UNCHANGED <<now, cycle, due, event_cycles, cvars>> /\ UNCHANGED evars
    BY <1>2 DEF rvars, evars
  <2>2. QED  BY <2>1, StillKeeps
<1>3. CASE Execute
  <2>1. PICK k \in Strides : Run(k)
    BY <1>3 DEF Execute
  <2>2. UNCHANGED <<rcnts, base, hSyncCount, hsync_steps, raised, frames>>
    BY <1>3 DEF Execute
  <2>3. RcntInv'
    BY <2>1, <2>2, ExecuteKeeps
  <2>4. k \in 1..(Horizon + Slack)
    BY CountersAssumption
  <2>5. NextEvent
    BY <2>1, <2>4 DEF NextEvent
  <2>6. QED  BY <2>3, <2>5
<1>4. CASE RcntAccess
  <2>1. Live \subseteq Counter
    BY CountersAssumption
  <2>2. ASSUME NEW i \in Live, NEW v \in Counts, psxRcntWcount(i, v)  PROVE RcntInv' /\ NextEvent
    <3>1. RcntInv' /\ NextCounter(rcnts', base) \in 0 .. FrameCycles
      BY <2>1, <2>2, CountKeeps
    <3>2. Access(interrupt, At(NextCounter(rcnts', base)))
      BY <2>2 DEF psxRcntWcount, RcntWritten
    <3>3. QED  BY <1>1, <3>1, <3>2
  <2>3. ASSUME NEW i \in Live, NEW m \in Modes[i], psxRcntWmode(i, m)  PROVE RcntInv' /\ NextEvent
    <3>1. RcntInv' /\ NextCounter(rcnts', base) \in 0 .. FrameCycles
      BY <2>1, <2>3, ModeKeeps
    <3>2. Access(interrupt, At(NextCounter(rcnts', base)))
      BY <2>3 DEF psxRcntWmode, RcntWritten
    <3>3. QED  BY <1>1, <3>1, <3>2
  <2>4. ASSUME NEW i \in Live, NEW t \in Targets, psxRcntWtarget(i, t)  PROVE RcntInv' /\ NextEvent
    <3>1. RcntInv' /\ NextCounter(rcnts', base) \in 0 .. FrameCycles
      BY <2>1, <2>4, TargetKeeps
    <3>2. Access(interrupt, At(NextCounter(rcnts', base)))
      BY <2>4 DEF psxRcntWtarget, RcntWritten
    <3>3. QED  BY <1>1, <3>1, <3>2
  <2>5. ASSUME NEW i \in Live, psxRcntRmode(i)  PROVE RcntInv' /\ UNCHANGED evars
    BY <2>1, <2>5, RmodeKeeps
  <2>6. CASE psxRcntRcount0
    BY <2>6, Rcount0Keeps
  <2>7. QED  BY <1>4, <2>2, <2>3, <2>4, <2>5, <2>6 DEF RcntAccess
<1>5. CASE psxRcntFreeze
  <2>1. RcntInv' /\ NextCounter(rcnts', base') \in 0 .. FrameCycles
    BY <1>5, FreezeKeeps
  <2>2. Access(interrupt, At(NextCounter(rcnts', base')))
    BY <1>5 DEF psxRcntFreeze
  <2>3. QED  BY <1>1, <2>1, <2>2
<1>6. CASE GenInterupt
  <2>1. UNCHANGED <<now, cycle, due, event_cycles, cvars>> /\ Enter(TRUE)
    BY <1>6 DEF GenInterupt, Enter
  <2>2. QED  BY <2>1, StillKeeps DEF NextEvent
<1>7. CASE BranchUpdate
  <2>1. RcntInv' /\ NextCounter(NewCounters, NewBase) \in 0 .. FrameCycles
    BY <1>7, BranchUpdateKeeps
  <2>2. Access(interrupt, At(NextCounter(NewCounters, NewBase)))
    BY <1>7 DEF BranchUpdate, RcntDelay
  <2>3. QED  BY <1>1, <2>1, <2>2
<1>8. CASE BranchTest
  <2>1. UNCHANGED <<now, cycle, due, event_cycles, cvars>> /\ Enter(FALSE)
    BY <1>8 DEF BranchTest, Enter
  <2>2. QED  BY <2>1, StillKeeps DEF NextEvent
<1>9. CASE Serve
  <2>1. RcntInv' /\ NextCounter(NewCounters, NewBase) \in 0 .. FrameCycles
    BY <1>9, ServeKeeps
  <2>2. Handle(RCNT, interrupt, RcntDelay) /\ RcntDelay \in Posts
    BY <1>9, <2>1, AtPosts DEF Serve, RcntDelay
  <2>3. RCNT \in Event /\ interrupt \in SUBSET interrupt
    BY CountersAssumption
  <2>4. NextEvent
    BY <2>2, <2>3 DEF NextEvent
  <2>5. QED  BY <2>1, <2>4
<1>10. CASE Return
  <2>1. UNCHANGED <<now, cycle, due, event_cycles, cvars>> /\ Leave
    BY <1>10 DEF Return, Leave
  <2>2. QED  BY <2>1, StillKeeps DEF NextEvent
<1>11. QED  BY <1>2, <1>3, <1>4, <1>5, <1>6, <1>7, <1>8, <1>9, <1>10 DEF NextRcnt

(* While the event is not overdue, the position in the frame follows.      *)
LEMMA InvFrame ==
  ASSUME RcntInv, InTime
  PROVE  FrameTruth
<1> DEFINE n == now  t == FrameBegin  d == due[RCNT]
<1>1. /\ n \in Nat /\ t \in Nat /\ d \in Nat /\ frames \in Nat /\ cycle = n % CycleMod
      /\ event_cycles[RCNT] = d % CycleMod /\ t <= n /\ t <= d /\ n - t < Half
      /\ d <= n \/ d <= t + base.cycle
      /\ hSyncCount \in {0, VBlankStart} /\ base.cycle = BaseCycle(hSyncCount)
      /\ hSyncCount = VBlankStart => t + VBlankStart * LineCycles <= n
      /\ raised[3] = IF hSyncCount = 0 THEN 0 ELSE 1
  BY Registers DEF RcntInv, FrameInv, DueInv, InTime, FrameBegin
<1>2. /\ FrameCycles \in Nat \ {0} /\ Half \in Nat /\ FrameCycles < Half /\ VBlankStart * LineCycles \in Nat
      /\ VBlankStart * LineCycles < FrameCycles /\ VBlankStart # 0 /\ Start \in Nat
  BY FrameLengths, Widths, EventsAssumption
<1>3. base.cycle = (IF hSyncCount = 0 THEN VBlankStart * LineCycles ELSE FrameCycles)
  BY <1>1, <1>2, BaseCycles
<1>4. IsDue(RCNT) <=> d <= n
  <2>1. -Half <= n + 0 - (d + 0) /\ n + 0 - (d + 0) < Half
    BY <1>1, <1>2, <1>3
  <2>2. Signed((n % CycleMod) + 0 - ((d % CycleMod) + 0)) = n + 0 - (d + 0)
    <3>1. n \in Int /\ d \in Int /\ 0 \in Int
      BY <1>1
    <3>2. QED  BY <2>1, <3>1, SignedDifference
  <2>3. n % CycleMod \in Nat /\ d % CycleMod \in Nat
    BY <1>1, Widths, RemainderTyped
  <2>4. Signed(cycle - event_cycles[RCNT]) = n - d
    BY <1>1, <2>2, <2>3
  <2>5. QED  BY <1>1, <2>4 DEF IsDue
<1>5. n - Start = FrameCycles * frames + (n - t)
  <2>1. frames * FrameCycles = FrameCycles * frames /\ frames * FrameCycles \in Nat
    BY <1>1, <1>2, SMTT(20)
  <2>2. t = Start + frames * FrameCycles
    BY DEF FrameBegin
  <2> HIDE DEF t, n, FrameCycles
  <2>3. QED  BY <1>1, <1>2, <2>1, <2>2
<1>6. ASSUME ~IsDue(RCNT)
      PROVE  /\ frames = (n - Start) \div FrameCycles
             /\ hSyncCount = IF (n - Start) % FrameCycles < VBlankStart * LineCycles THEN 0 ELSE VBlankStart
  <2>1. n < t + base.cycle
    BY <1>1, <1>2, <1>3, <1>4, <1>6
  <2>2. n - t \in 0 .. FrameCycles - 1 /\ n - Start \in Int
    BY <1>1, <1>2, <1>3, <2>1
  <2>3. (n - Start) % FrameCycles = n - t
    <3>1. frames \in Int
      BY <1>1
    <3> HIDE DEF n, t, FrameCycles
    <3>2. QED  BY <1>2, <1>5, <2>2, <3>1, UniqueRemainder
  <2>4. (n - Start) \div FrameCycles = frames
    <3>1. /\ (n - Start) \div FrameCycles \in Int
          /\ n - Start = FrameCycles * ((n - Start) \div FrameCycles) + ((n - Start) % FrameCycles)
      BY <1>2, <2>2, Euclid
    <3> DEFINE q == (n - Start) \div FrameCycles
    <3>2. FrameCycles * q = FrameCycles * frames
      <4>1. FrameCycles * q \in Int /\ FrameCycles * frames \in Int
        BY <1>1, <1>2, <3>1, SMTT(20)
      <4>2. QED  BY <1>1, <1>5, <2>2, <2>3, <3>1, <4>1
    <3> HIDE DEF q, FrameCycles
    <3>3. q \in Int
      BY <3>1 DEF q
    <3>4. PICK z \in Int : z = q - frames
      BY <1>1, <3>3
    <3>5. FrameCycles * z = 0
      BY <1>1, <1>2, <3>2, <3>3, <3>4, SMTT(20)
    <3>6. z = 0
      <4>1. FrameCycles * z < FrameCycles /\ -FrameCycles < FrameCycles * z
        BY <1>2, <3>5
      <4>2. QED  BY <1>2, <4>1, SmallMultiple
    <3>7. QED  BY <1>1, <3>3, <3>4, <3>6 DEF q
  <2>5. hSyncCount = IF n - t < VBlankStart * LineCycles THEN 0 ELSE VBlankStart
    BY <1>1, <1>2, <1>3, <2>1
  <2>6. QED  BY <2>3, <2>4, <2>5
<1>7. QED  BY <1>1, <1>6 DEF FrameTruth

-----------------------------------------------------------------------------
(* Frames do not drift, whatever the program writes to the three counters  *)
(* and however late a vertical blank is handled: while the event is not    *)
(* overdue, the frames counted and the position in the frame follow from   *)
(* the time alone.                                                         *)
THEOREM FramesAreTrue == RcntSpec /\ []InTime => []FrameTruth
<1>1. InitRcnt => RcntInv
  BY InitKeeps
<1>2. RcntInv /\ InTime /\ [NextRcnt]_rvars => RcntInv'
  BY StepKeeps
<1>3. RcntInv /\ InTime => FrameTruth
  BY InvFrame
<1>4. QED  BY <1>1, <1>2, <1>3, PTL DEF RcntSpec

(* The counters on the scheduler are an instance of it: psxRcntSet posts   *)
(* within the delays Events assumes, and every access, handler and         *)
(* timeslice of theirs is one of its steps.                                *)
THEOREM CountersPostEvents == RcntSpec /\ []InTime => ImplementsEvents
<1>1. InitRcnt => RcntInv /\ InitEvent
  <2> SUFFICES ASSUME InitRcnt  PROVE RcntInv /\ InitEvent
    OBVIOUS
  <2>1. RcntInv /\ NextCounter(rcnts, base) \in 0 .. FrameCycles
    BY InitKeeps
  <2>2. InitEvents(At(NextCounter(rcnts, base)))
    BY DEF InitRcnt
  <2>3. QED  BY <2>1, <2>2, AtPosts DEF InitEvent
<1>2. RcntInv /\ InTime /\ [NextRcnt]_rvars => RcntInv' /\ [NextEvent]_evars
  BY StepKeeps
<1>3. QED  BY <1>1, <1>2, PTL DEF RcntSpec, ImplementsEvents, EventSpec

(* So their event is found due exactly when its cycle has come.            *)
COROLLARY CountersArePunctual == RcntSpec /\ []InTime => []Punctual
BY CountersPostEvents, EventsArePunctual, PTL DEF ImplementsEvents

-----------------------------------------------------------------------------
(* THE SERIAL PORT. The types: what a byte is, what may be in the buffer   *)
(* (a checksum is one of the values, whatever its range), the records of   *)
(* sio.c, of the exchange, of a pad and of a saved state.                  *)
Byte == 0 .. 255
Values == Byte \cup {Checksum(t) : t \in Seq(Byte)}
SioRec ==
  [port : Slots \cup {1}, dtr : BOOLEAN, rx : BOOLEAN, irq : BOOLEAN, padst : 0 .. 2,
   mcdst : 0 .. 5, rdwr : 0 .. 2, adrH : Byte, adrL : Byte, parp : 0 .. FrameLen + 8,
   bufcount : 0 .. FrameLen + 8, buf : [0 .. FrameLen + 8 -> Values]]
ExRec ==
  [sent : Seq(Byte), step : {"ready", "wait"}, got : Values, there : BOOLEAN, flag : BOOLEAN,
   frame : Seq(Byte), id : Byte, len : {0, 1, 4, 8}, gone : BOOLEAN]
PadRec ==
  [type : {"none", "standard", "analog"}, respSize : {0, 1, 4, 8}, rx0 : Byte, cmd : Byte,
   configMode : BOOLEAN, padMode : BOOLEAN]
SavedRec == [sio : SioRec, posted : BOOLEAN, istat : BOOLEAN, pads : [Slots -> PadRec], ex : ExRec]

(* Every variable of Sio has its type.                                     *)
PortTypes ==
  /\ sio \in SioRec /\ posted \in BOOLEAN /\ istat \in BOOLEAN
  /\ pads \in [Slots -> PadRec] /\ reqPos \in Nat /\ replug \in BOOLEAN
  /\ card \in [Slots -> [Frames -> [1 .. FrameLen -> Byte]]]
  /\ McdFlag \in [Slots -> BOOLEAN] /\ McdDisable \in [Slots -> BOOLEAN]
  /\ ex \in ExRec /\ (saved # None => saved \in SavedRec) /\ acts \in Nat

(* What rdwr is during an exchange with a card.                            *)
Task(e) == IF Len(e.sent) = 1 THEN 0 ELSE IF Command(e) = CmdRead THEN 1 ELSE 2
(* The byte that waits in the buffer, or that was read last, is the        *)
(* answer.                                                                 *)
Answered(s, e) ==
  /\ e.step = "wait" => s.rx /\ s.buf[s.parp] = Answer(e)
  /\ e.step = "ready" /\ e.sent # <<>> => e.got = Answer(e)

(* No device takes part, or what it had to say is over.                    *)
AtRest(s, e) ==
  /\ s.padst = 0 /\ s.mcdst = 0 /\ Over(e)
  /\ e.step = "wait" => e.sent # <<>> /\ ~(IsCard(e) /\ Command(e) = CmdWrite)

(* Within an exchange with a pad: the state of sio.c agrees with the       *)
(* number of bytes sent, which is less than the length of the answer, or   *)
(* the last byte has not been read.                                        *)
WithPad(s, e) ==
  /\ IsPad(e) /\ s.mcdst = 0 /\ s.rx /\ s.parp = Len(e.sent) - 1
  /\ \/ s.padst = 1 /\ Len(e.sent) = 1 /\ ~e.gone /\ e.len >= 1 /\ s.bufcount = 1 /\ s.buf[0] = HiZ
     \/ s.padst = 2 /\ Len(e.sent) > 1 /\ ~e.gone /\ Bit6(Command(e))
        /\ Len(e.sent) < 1 + e.len /\ s.bufcount = Len(e.sent)
     \/ s.padst = 2 /\ Over(e) /\ e.step = "wait" /\ s.bufcount = Len(e.sent) - 1

(* The address that a card has taken is the one that was sent.             *)
Addressed(s, e) ==
  /\ Len(e.sent) >= 5 => e.sent[5] = 0 /\ s.adrH = 0
  /\ Len(e.sent) >= 6 => e.sent[6] \in Frames /\ s.adrL = e.sent[6]

(* An exchange with a card goes through the flag and the identity,         *)
Heads(s, e) ==
  /\ s.mcdst = 1 /\ Len(e.sent) \in 1 .. 4 /\ (Len(e.sent) = 4 => e.step = "wait")
  /\ s.parp = Len(e.sent) - 1 /\ s.bufcount = 3
  /\ s.buf[0] = HiZ /\ s.buf[1] = (IF e.flag THEN 8 ELSE 0) /\ s.buf[2] = 90 /\ s.buf[3] = 93

(* the two bytes of the address,                                           *)
Address(s, e) ==
  \/ s.mcdst = 2 /\ Len(e.sent) = 4 /\ e.step = "ready"
  \/ s.mcdst = 3 /\ Len(e.sent) = 5 /\ s.parp = 0 /\ s.bufcount = 1 /\ s.buf[0] = 0
  \/ s.mcdst = 4 /\ Len(e.sent) = 6 /\ s.parp = 0 /\ s.bufcount = 1 /\ s.buf[0] = 0

(* and the data: the whole reply when it is read, what was sent so far and *)
(* the end of the answer when it is written.                               *)
Body(s, e) ==
  /\ s.mcdst = 5 /\ Len(e.sent) \in 7 .. Length(e)
  /\ Len(e.sent) = Length(e) => e.step = "wait"
  /\ s.parp = Len(e.sent) - 7 /\ s.bufcount = Length(e) - 7
  /\ s.rdwr = 1 => \A i \in 0 .. FrameLen + 5 : s.buf[i] = Reply(e)[i + 1]
  /\ s.rdwr = 2 =>
       /\ s.buf[0] = s.adrL
       /\ \A i \in 1 .. FrameLen : i <= Len(e.sent) - 6 => s.buf[i] = e.sent[6 + i]
       /\ s.buf[FrameLen + 1] = 92 /\ s.buf[FrameLen + 2] = 93 /\ s.buf[FrameLen + 3] = 71

WithCard(s, e) ==
  /\ IsCard(e) /\ s.padst = 0 /\ s.rx /\ s.rdwr = Task(e)
  /\ Len(e.sent) > 1 => Command(e) \in {CmdRead, CmdWrite}
  /\ Addressed(s, e)
  /\ Heads(s, e) \/ Address(s, e) \/ Body(s, e)

(* An exchange is with a port that is selected and exists.                 *)
Selected(s, e) == (s.dtr => s.port \in Slots) /\ (e.sent # <<>> => s.dtr)

(* The interrupt after a byte is posted or raised if another is expected.  *)
Wired(s, po, is, e) == (s.irq => is) /\ (e.step = "wait" /\ ~Over(e) => po \/ is)

(* The port and the exchange agree. It is a predicate of the values and    *)
(* not of the variables, for it is kept of the saved state too.            *)
Good(s, po, is, e) ==
  /\ AtRest(s, e) \/ WithPad(s, e) \/ WithCard(s, e)
  /\ Len(e.sent) <= ReadLen
  /\ Answered(s, e) /\ Selected(s, e) /\ Wired(s, po, is, e)

(* A pad that is polled, and not unplugged meanwhile, goes on with the     *)
(* answer it began. The pads are not saved with the place in it (reqPos),  *)
(* so no such thing is said of a saved state, which is not within an       *)
(* exchange with a pad.                                                    *)
PlugInv ==
  sio.padst # 0 /\ ~replug /\ ~Over(ex) =>
    /\ reqPos = Len(ex.sent) - 1
    /\ pads[sio.port].respSize = ex.len
    /\ reqPos = 0 => pads[sio.port].rx0 = ex.id

SavedInv ==
  saved # None =>
    /\ saved.sio.padst = 0
    /\ Good(saved.sio, saved.posted, saved.istat, saved.ex)

PortInv == Good(sio, posted, istat, ex) /\ PlugInv /\ SavedInv

-----------------------------------------------------------------------------
(* The bytes of an exchange                                                *)


(* An exchange is with a pad, with a card or with neither.                 *)
LEMMA KindsAre ==
  ASSUME NEW e \in ExRec
  PROVE  /\ Len(e.sent) \in Nat /\ IsPad(e) \in BOOLEAN /\ IsCard(e) \in BOOLEAN
         /\ ~(IsPad(e) /\ IsCard(e))
         /\ e.sent = <<>> <=> Len(e.sent) = 0
         /\ IsPad(e) \/ IsCard(e) => Len(e.sent) > 0
         /\ \A i \in 1 .. Len(e.sent) : e.sent[i] \in Byte
<1>1. e.sent \in Seq(Byte)
  BY DEF ExRec
<1>2. QED  BY <1>1 DEF IsPad, IsCard, PadSel, CardSel

(* The length of an exchange is that of its kind.                          *)
LEMMA LengthIs ==
  ASSUME NEW e \in ExRec
  PROVE  /\ IsPad(e) => Length(e) = PadLength(e)
         /\ IsCard(e) => Length(e) = CardLength(e)
         /\ ~IsPad(e) /\ ~IsCard(e) => Length(e) = Len(e.sent)
         /\ Length(e) \in Nat /\ Len(e.sent) \in Nat
<1>1. IsCard(e) => ~IsPad(e)
  BY KindsAre
<1>2. Len(e.sent) \in Nat /\ e.len \in Nat /\ ReadLen \in Nat /\ WriteLen \in Nat
  BY KindsAre, SioAssumption DEF ExRec, ReadLen, WriteLen
<1>3. PadLength(e) \in Nat /\ CardLength(e) \in Nat
  BY <1>2 DEF PadLength, CardLength
<1>4. QED  BY <1>1, <1>2, <1>3 DEF Length

(* An exchange with a pad is over after its command if it is refused,      *)
(* otherwise after its answer.                                             *)
LEMMA PadLengthIs ==
  ASSUME NEW e \in ExRec, IsPad(e)
  PROVE  /\ Len(e.sent) = 1 \/ (~e.gone /\ Bit6(Command(e))) => Length(e) = 1 + e.len
         /\ Len(e.sent) > 1 /\ (e.gone \/ ~Bit6(Command(e))) => Length(e) = Len(e.sent)
<1>1. Length(e) = PadLength(e)
  BY LengthIs
<1>2. Len(e.sent) = 1 => PadLength(e) = 1 + e.len
  BY DEF PadLength
<1>3. ~e.gone /\ Bit6(Command(e)) => PadLength(e) = 1 + e.len
  BY DEF PadLength
<1>4. Len(e.sent) > 1 /\ (e.gone \/ ~Bit6(Command(e))) => PadLength(e) = Len(e.sent)
  BY DEF PadLength
<1>5. QED  BY <1>1, <1>2, <1>3, <1>4

(* The answer is that of the device.                                       *)
LEMMA AnswerIs ==
  ASSUME NEW e \in ExRec
  PROVE  /\ IsPad(e) => Answer(e) = PadAnswer(e, Len(e.sent))
         /\ IsCard(e) => Answer(e) = CardAnswer(e, Len(e.sent))
         /\ ~IsPad(e) /\ ~IsCard(e) => Answer(e) = HiZ
BY KindsAre DEF Answer

(* The answers of a card, by the number of bytes sent.                     *)
LEMMA CardAnswerIs ==
  ASSUME NEW e \in ExRec, NEW n \in Nat \ {0}
  PROVE  /\ n = 1 => CardAnswer(e, n) = HiZ
         /\ n = 2 => CardAnswer(e, n) = (IF e.flag THEN 8 ELSE 0)
         /\ n = 3 => CardAnswer(e, n) = 90
         /\ n = 4 => CardAnswer(e, n) = 93
         /\ n = 5 => CardAnswer(e, n) = 0
         /\ n = 6 => CardAnswer(e, n) = e.sent[5]
         /\ n > 6 /\ Command(e) = CmdRead => CardAnswer(e, n) = Reply(e)[n - 6]
         /\ Command(e) = CmdWrite =>
              /\ n = 7 => CardAnswer(e, n) = e.sent[6]
              /\ n \in 8 .. 7 + FrameLen => CardAnswer(e, n) = e.sent[n - 1]
              /\ n = FrameLen + 8 => CardAnswer(e, n) = 92
              /\ n = FrameLen + 9 => CardAnswer(e, n) = 93
              /\ n = FrameLen + 10 => CardAnswer(e, n) = 71
<1> USE SioAssumption DEF CardAnswer, CmdRead, CmdWrite
<1>1. n = 1 => CardAnswer(e, n) = HiZ
  OBVIOUS
<1>a. n = 2 => CardAnswer(e, n) = (IF e.flag THEN 8 ELSE 0)
  OBVIOUS
<1>b. n = 3 => CardAnswer(e, n) = 90
  OBVIOUS
<1>c. n = 4 => CardAnswer(e, n) = 93
  OBVIOUS
<1>d. n = 5 => CardAnswer(e, n) = 0
  OBVIOUS
<1>e. n = 6 => CardAnswer(e, n) = e.sent[5]
  OBVIOUS
<1>2. n > 6 /\ Command(e) = CmdRead => CardAnswer(e, n) = Reply(e)[n - 6]
  OBVIOUS
<1>3. Command(e) = CmdWrite /\ n = 7 => CardAnswer(e, n) = e.sent[6]
  OBVIOUS
<1>4. Command(e) = CmdWrite /\ n \in 8 .. 7 + FrameLen => CardAnswer(e, n) = e.sent[n - 1]
  OBVIOUS
<1>5. Command(e) = CmdWrite /\ n > 7 + FrameLen =>
        CardAnswer(e, n) = <<92, 93, 71>>[n - 7 - FrameLen]
  OBVIOUS
<1> HIDE DEF CardAnswer
<1>6. QED  BY <1>1, <1>a, <1>b, <1>c, <1>d, <1>e, <1>2, <1>3, <1>4, <1>5

(* The bytes that the program may send next.                               *)
LEMMA BytesAre ==
  ASSUME NEW e \in ExRec, NEW b \in Bytes(e)
  PROVE  /\ b \in Byte
         /\ Over(e) => b \in {PadSel, CardSel, 0}
         /\ IsCard(e) /\ ~Over(e) =>
              /\ Len(e.sent) = 1 => b \in {CmdRead, CmdWrite, 0}
              /\ Len(e.sent) = 4 => b = 0
              /\ Len(e.sent) = 5 => b \in Frames
<1> DEFINE n == Len(e.sent)
<1>0. n \in Nat /\ (IsCard(e) => ~IsPad(e))
  BY KindsAre
<1>1. n \in 6 .. 5 + FrameLen => DataBytes(e, n) \subseteq Byte
  <2> SUFFICES ASSUME n \in 6 .. 5 + FrameLen, NEW d \in Data PROVE d[n - 5] \in Byte
    BY DEF DataBytes
  <2>1. d \in [1 .. FrameLen -> Byte]
    BY SioAssumption DEF Byte
  <2>2. n - 5 \in 1 .. FrameLen
    BY <1>0, SioAssumption
  <2>3. QED  BY <2>1, <2>2
<1>2. PadBytes(n) \subseteq {CmdPoll, CmdConfig, CmdMode, 0, 1}
  BY <1>0 DEF PadBytes
<1> HIDE DEF n
<1>3. \A c \in CardBytes(e, n) :
        (n = 1 => c \in {CmdRead, CmdWrite, 0}) /\ (n = 5 => c \in Frames) /\ (n = 4 => c = 0)
  <2>1. n = 4 => n \notin 6 .. 5 + FrameLen
    BY SioAssumption
  <2>2. QED  BY <2>1 DEF CardBytes
<1>6. CardBytes(e, n) \subseteq Byte
  <2>1. {CmdRead, CmdWrite, 0} \subseteq Byte /\ Frames \subseteq Byte /\ {0} \subseteq Byte
    BY SioAssumption DEF CmdRead, CmdWrite, Byte
  <2>2. QED  BY <1>1, <2>1 DEF CardBytes
<1>7. PadBytes(n) \subseteq Byte
  BY <1>2 DEF CmdPoll, CmdConfig, CmdMode, Byte
<1>8. b \in IF Over(e) THEN {PadSel, CardSel, 0} ELSE IF IsPad(e) THEN PadBytes(n) ELSE CardBytes(e, n)
  BY DEF Bytes, n
<1>9. b \in Byte
  BY <1>6, <1>7, <1>8 DEF PadSel, CardSel, Byte
<1>10. IsCard(e) /\ ~Over(e) => b \in CardBytes(e, n)
  BY <1>0, <1>8
<1>11. QED  BY <1>3, <1>8, <1>9, <1>10 DEF n

(* An exchange that goes on is of the same kind.                           *)
Extends(e, b) ==
  /\ e \in ExRec /\ e.sent = Append(ex.sent, b) /\ e.step = "wait" /\ e.there = ex.there
  /\ e.flag = ex.flag

(* What a byte more leaves of the exchange.                                *)
LEMMA ExtendsIs ==
  ASSUME ex \in ExRec, NEW b \in Byte, NEW e, Extends(e, b)
  PROVE  /\ Len(e.sent) = Len(ex.sent) + 1 /\ e.sent # <<>> /\ Len(ex.sent) \in Nat
         /\ \A i \in 1 .. Len(ex.sent) : e.sent[i] = ex.sent[i]
         /\ e.sent[Len(ex.sent) + 1] = b
         /\ IsPad(ex) => IsPad(e)
         /\ IsCard(ex) => IsCard(e)
         /\ Len(ex.sent) > 1 => Command(e) = Command(ex)
         /\ Len(ex.sent) = 1 => Command(e) = b
<1>1. ex.sent \in Seq(Byte) /\ e.sent = Append(ex.sent, b)
  BY DEF ExRec, Extends
<1>2. /\ Len(e.sent) = Len(ex.sent) + 1 /\ e.sent # <<>> /\ Len(ex.sent) \in Nat
      /\ \A i \in 1 .. Len(ex.sent) : e.sent[i] = ex.sent[i]
      /\ e.sent[Len(ex.sent) + 1] = b
  BY <1>1
<1>3. /\ Len(ex.sent) > 0 => e.sent[1] = ex.sent[1]
      /\ Len(ex.sent) > 1 => e.sent[2] = ex.sent[2]
      /\ Len(ex.sent) = 1 => e.sent[2] = b
  <2>1. PICK n \in Nat : n = Len(ex.sent)
    BY <1>2
  <2>2. (n > 0 => 1 \in 1 .. n) /\ (n > 1 => 2 \in 1 .. n) /\ (n = 1 => n + 1 = 2)
    OBVIOUS
  <2>3. QED  BY <1>2, <2>1, <2>2
<1>4. (IsPad(ex) => IsPad(e)) /\ (IsCard(ex) => IsCard(e))
  BY <1>2, <1>3 DEF Extends, IsPad, IsCard
<1>5. (Len(ex.sent) > 1 => Command(e) = Command(ex)) /\ (Len(ex.sent) = 1 => Command(e) = b)
  BY <1>2, <1>3 DEF Command
<1>6. QED  BY <1>2, <1>4, <1>5

(* Sent: the byte begins an exchange if the one before is over, or else    *)
(* goes on with it.                                                        *)
LEMMA SentOver ==
  ASSUME ex \in ExRec, NEW b \in Byte, Over(ex)
  PROVE  /\ Sent(b) \in ExRec /\ Sent(b).sent = <<b>> /\ Sent(b).step = "wait"
         /\ Sent(b).there = FALSE /\ Sent(b).gone = FALSE /\ Sent(b).len = 0
<1>2. <<>> \in Seq(Byte) /\ Append(<<>>, b) = <<b>> /\ <<b>> \in Seq(Byte)
  OBVIOUS
<1>1. Sent(b) = [sent |-> <<b>>, step |-> "wait", got |-> HiZ, there |-> FALSE,
                 flag |-> FALSE, frame |-> <<>>, id |-> HiZ, len |-> 0, gone |-> FALSE]
  <2>1. Sent(b) = [Nothing EXCEPT !.sent = Append(<<>>, b), !.step = "wait"]
    BY DEF Sent, Nothing
  <2>2. QED  BY <1>2, <2>1 DEF Nothing
<1>3. HiZ \in Byte /\ HiZ \in Values
  BY DEF HiZ, Byte, Values
<1>4. QED  BY <1>1, <1>2, <1>3 DEF ExRec

(* A byte more in an exchange that is not over.                            *)
LEMMA SentMore ==
  ASSUME ex \in ExRec, NEW b \in Byte, ~Over(ex)
  PROVE  /\ Sent(b) \in ExRec /\ Extends(Sent(b), b)
         /\ Sent(b) = [ex EXCEPT !.sent = Append(ex.sent, b), !.step = "wait"]
         /\ Sent(b).id = ex.id /\ Sent(b).len = ex.len /\ Sent(b).gone = ex.gone
         /\ Sent(b).frame = ex.frame
<1>1. Sent(b) = [ex EXCEPT !.sent = Append(ex.sent, b), !.step = "wait"]
  BY DEF Sent
<1>2. ex.sent \in Seq(Byte) /\ Append(ex.sent, b) \in Seq(Byte)
  BY DEF ExRec
<1>3. QED  BY <1>1, <1>2 DEF ExRec, Extends

-----------------------------------------------------------------------------
(* The pads                                                                *)


(* What PADstartPoll answers and leaves.                                   *)
LEMMA PADstartPollIs ==
  ASSUME NEW p \in PadRec, NEW t \in {"none", "standard", "analog"}
  PROVE  PADstartPoll(p, t) \in PadRec /\ PADstartPoll(p, t).respSize >= 1
<1> DEFINE q == [p EXCEPT !.type = t]
<1>1. q \in PadRec
  BY DEF PadRec
<1>2. HiZ \in Byte /\ 115 \in Byte /\ 65 \in Byte
  BY DEF HiZ, Byte
<1> DEFINE r(x, n) == [q EXCEPT !.rx0 = x, !.respSize = n]
<1>3. \A x \in Byte, n \in {1, 4, 8} : r(x, n) \in PadRec /\ r(x, n).respSize >= 1
  <2> HIDE DEF q
  <2> SUFFICES ASSUME NEW x \in Byte, NEW n \in {1, 4, 8} PROVE r(x, n) \in PadRec /\ r(x, n).respSize >= 1
    OBVIOUS
  <2>1. r(x, n).respSize = n /\ n >= 1
    BY <1>1 DEF PadRec
  <2>2. r(x, n) \in PadRec
    BY <1>1 DEF PadRec
  <2>3. QED  BY <2>1, <2>2
<1>5. PADstartPoll(p, t) \in {r(HiZ, 1), r(115, 8), r(65, 4)}
  BY DEF PADstartPoll
<1> HIDE DEF q, r
<1>6. QED  BY <1>2, <1>3, <1>5

(* A byte of a poll: the first says what the answer is.                    *)
LEMMA PADpollIs ==
  ASSUME NEW p \in PadRec, NEW v \in Byte, NEW at \in Nat
  PROVE  /\ PADpoll(p, v, at) \in PadRec
         /\ at # 0 => PADpoll(p, v, at).respSize = p.respSize
<1> DEFINE q == [p EXCEPT !.cmd = v]
<1>1. q \in PadRec /\ q.respSize = p.respSize /\ q.type = p.type /\ q.configMode = p.configMode
      /\ q.rx0 = p.rx0
  BY DEF PadRec
<1>2. 243 \in Byte /\ HiZ \in Byte
  BY DEF Byte, HiZ
<1>3. \A r \in PadRec : initBufForRequest(r, v) \in PadRec
  BY <1>2 DEF initBufForRequest, PadRec
<1>4. \A r \in PadRec : reqIndex2Treatment(r, v) \in PadRec /\ reqIndex2Treatment(r, v).respSize = r.respSize
  BY DEF reqIndex2Treatment, PadRec
<1>5. [p EXCEPT !.cmd = v, !.respSize = 1, !.rx0 = HiZ] \in PadRec
  BY <1>2 DEF PadRec
<1> DEFINE r == IF at # 0 THEN p
                ELSE IF v # CmdPoll /\ p.type # "analog"
                     THEN [p EXCEPT !.cmd = v, !.respSize = 1, !.rx0 = HiZ]
                ELSE [p EXCEPT !.cmd = v]
<1>6. r \in PadRec /\ (at # 0 => r = p)
  BY <1>1, <1>5
<1> HIDE DEF q, r
<1>7. \/ at = 0 /\ PADpoll(p, v, at) = initBufForRequest(r, v)
      \/ at = 2 /\ PADpoll(p, v, at) = reqIndex2Treatment(r, v)
      \/ PADpoll(p, v, at) = r
  BY DEF PADpoll, r
<1>8. QED  BY <1>3, <1>4, <1>6, <1>7

(* What a command to a pad makes of the exchange.                          *)
LEMMA PadKindIs ==
  ASSUME NEW p \in PadRec, NEW v \in Byte, NEW e \in ExRec, e.len = p.respSize, e.id = p.rx0, e.len >= 1
  PROVE  /\ PadKind(e, p, v).len = PADpoll(p, v, 0).respSize
         /\ PadKind(e, p, v).id = PADpoll(p, v, 0).rx0
         /\ PadKind(e, p, v).len >= 1
<1>2. CASE p.type = "analog" /\ p.configMode
  <2>1. PadKind(e, p, v).len = 8 /\ PadKind(e, p, v).id = 243
    BY <1>2 DEF PadKind, ExRec
  <2>2. PADpoll(p, v, 0).respSize = 8 /\ PADpoll(p, v, 0).rx0 = 243
    BY <1>2 DEF PADpoll, initBufForRequest, PadRec
  <2>3. QED  BY <2>1, <2>2
<1>3. CASE p.type = "analog" /\ ~p.configMode /\ v \notin {CmdPoll, CmdConfig}
  <2>1. PadKind(e, p, v).len = 1 /\ PadKind(e, p, v).id = e.id
    BY <1>3 DEF PadKind, ExRec
  <2>2. PADpoll(p, v, 0).respSize = 1 /\ PADpoll(p, v, 0).rx0 = p.rx0
    BY <1>3 DEF PADpoll, initBufForRequest, PadRec
  <2>3. QED  BY <2>1, <2>2
<1>4. CASE p.type = "analog" /\ ~p.configMode /\ v \in {CmdPoll, CmdConfig}
  <2>1. PadKind(e, p, v).len = e.len /\ PadKind(e, p, v).id = e.id
    BY <1>4 DEF PadKind, ExRec
  <2>2. PADpoll(p, v, 0).respSize = p.respSize /\ PADpoll(p, v, 0).rx0 = p.rx0
    BY <1>4 DEF PADpoll, initBufForRequest, PadRec
  <2>3. QED  BY <2>1, <2>2
<1>5. CASE p.type # "analog" /\ v # CmdPoll
  <2>1. PadKind(e, p, v).len = 1 /\ PadKind(e, p, v).id = HiZ
    BY <1>5 DEF PadKind, ExRec
  <2>2. PADpoll(p, v, 0).respSize = 1 /\ PADpoll(p, v, 0).rx0 = HiZ
    BY <1>5 DEF PADpoll, PadRec
  <2>3. QED  BY <2>1, <2>2
<1>6. CASE p.type # "analog" /\ v = CmdPoll
  <2>1. PadKind(e, p, v).len = e.len /\ PadKind(e, p, v).id = e.id
    BY <1>6 DEF PadKind, ExRec
  <2>2. PADpoll(p, v, 0).respSize = p.respSize /\ PADpoll(p, v, 0).rx0 = p.rx0
    BY <1>6 DEF PADpoll, PadRec
  <2>3. QED  BY <2>1, <2>2
<1>7. p.configMode \in BOOLEAN
  BY DEF PadRec
<1>8. QED  BY <1>2, <1>3, <1>4, <1>5, <1>6, <1>7

(* A pad's answer to its command.                                          *)
LEMMA PadKindKeeps ==
  ASSUME NEW p \in PadRec, NEW v, NEW e \in ExRec
  PROVE  /\ PadKind(e, p, v) \in ExRec /\ PadKind(e, p, v).sent = e.sent /\ PadKind(e, p, v).step = e.step
         /\ PadKind(e, p, v).there = e.there /\ PadKind(e, p, v).flag = e.flag
         /\ PadKind(e, p, v).gone = e.gone
<1> DEFINE Kept(f) == /\ f \in ExRec /\ f.sent = e.sent /\ f.step = e.step
                      /\ f.there = e.there /\ f.flag = e.flag /\ f.gone = e.gone
<1>1. 243 \in Byte /\ HiZ \in Byte
  BY DEF Byte, HiZ
<1>2. /\ Kept([e EXCEPT !.id = 243, !.len = 8]) /\ Kept([e EXCEPT !.len = 1])
      /\ Kept([e EXCEPT !.id = HiZ, !.len = 1]) /\ Kept(e)
  BY <1>1 DEF ExRec
<1> HIDE DEF Kept
<1>3. \/ PadKind(e, p, v) = [e EXCEPT !.id = 243, !.len = 8]
      \/ PadKind(e, p, v) = [e EXCEPT !.len = 1]
      \/ PadKind(e, p, v) = [e EXCEPT !.id = HiZ, !.len = 1]
      \/ PadKind(e, p, v) = e
  BY DEF PadKind
<1>4. Kept(PadKind(e, p, v))
  BY <1>2, <1>3
<1>5. QED  BY <1>4 DEF Kept

-----------------------------------------------------------------------------
(* What the program sends                                                  *)

(* The state of the port and of the exchange after a step.                 *)
SendKept ==
  /\ sio' \in SioRec /\ posted' \in BOOLEAN /\ pads' \in [Slots -> PadRec]
  /\ reqPos' \in Nat /\ replug' \in BOOLEAN
  /\ ex' \in ExRec /\ Good(sio', posted', istat, ex') /\ PlugInv'
Sending(b) ==
  /\ PortTypes /\ Good(sio, posted, istat, ex) /\ PlugInv
  /\ ex.step = "ready" /\ sio.dtr /\ b \in Bytes(ex)

(* Which of the three an exchange is in that goes on or is over.           *)
LEMMA WhereIs ==
  ASSUME NEW b, Sending(b)
  PROVE  /\ b \in Byte /\ sio.port \in Slots
         /\ \/ Over(ex) /\ sio.padst = 0 /\ sio.mcdst = 0
            \/ ~Over(ex) /\ WithPad(sio, ex) /\ sio.padst # 0
            \/ ~Over(ex) /\ WithCard(sio, ex) /\ sio.padst = 0 /\ sio.mcdst # 0
<1>1. b \in Byte
  BY BytesAre DEF Sending, PortTypes
<1>2. sio.port \in Slots
  BY DEF Sending, Good, Selected
<1>3. Len(ex.sent) \in Nat /\ Length(ex) \in Nat /\ ex \in ExRec
  BY LengthIs DEF Sending, PortTypes
<1>4. CASE AtRest(sio, ex)
  BY <1>1, <1>2, <1>4 DEF AtRest
<1>5. CASE WithPad(sio, ex)
  <2> DEFINE n == Len(ex.sent)
             L == Length(ex)
  <2>1. ex.len \in Nat /\ n \in Nat
    BY <1>3 DEF ExRec
  <2>2. IsPad(ex) /\ ex.step = "ready"
    BY <1>5 DEF WithPad, Sending
  <2>6. \/ n = 1 /\ ex.len >= 1
        \/ ~ex.gone /\ Bit6(Command(ex)) /\ n < 1 + ex.len
    BY <1>5, <2>2 DEF WithPad
  <2>7. n = 1 \/ (~ex.gone /\ Bit6(Command(ex))) => L = 1 + ex.len
    BY <1>3, <2>2, PadLengthIs
  <2> HIDE DEF n, L
  <2>8. n # L
    BY <2>1, <2>6, <2>7
  <2>3. ~Over(ex)
    BY <2>8 DEF Over, n, L
  <2>4. sio.padst # 0
    BY <1>5 DEF WithPad
  <2>5. QED  BY <1>1, <1>2, <1>5, <2>3, <2>4
<1>6. CASE WithCard(sio, ex)
  <2> DEFINE n == Len(ex.sent)
             L == Length(ex)
  <2>1. L = CardLength(ex) /\ n \in Nat
    BY <1>3, <1>6, LengthIs DEF WithCard
  <2>2. Heads(sio, ex) \/ Address(sio, ex) => n \in 1 .. 6 /\ sio.mcdst # 0
    BY DEF Heads, Address
  <2>3. L \in {ReadLen, WriteLen}
    BY <1>6, <2>1 DEF WithCard, CardLength
  <2>4. L > 6 /\ L \in Nat
    BY <2>3, SioAssumption DEF ReadLen, WriteLen
  <2>5. Body(sio, ex) => n # L /\ sio.mcdst # 0
    BY DEF Body, Sending
  <2>9. Heads(sio, ex) \/ Address(sio, ex) \/ Body(sio, ex)
    BY <1>6 DEF WithCard
  <2> HIDE DEF n, L
  <2>10. n \in 1 .. 6 => n # L
    BY <2>4
  <2>6. n # L /\ sio.mcdst # 0
    BY <2>2, <2>5, <2>9, <2>10
  <2>7. sio.padst = 0
    BY <1>6 DEF WithCard
  <2>8. QED  BY <1>1, <1>2, <1>6, <2>6, <2>7 DEF Over, n, L
<1>7. QED  BY <1>4, <1>5, <1>6 DEF Sending, Good

(* A pad is addressed (sioWrite8, 0x01).                                   *)
LEMMA StartPadKeeps ==
  ASSUME Sending(PadSel), Over(ex), StartPad, sio.mcdst = 0
  PROVE  SendKept
<1> DEFINE pad == PADstartPoll(pads[sio.port], Types[sio.port])
<1>1. PadSel \in Byte /\ sio.port \in Slots /\ sio \in SioRec /\ ex \in ExRec /\ replug \in BOOLEAN
      /\ pads \in [Slots -> PadRec]
  BY WhereIs DEF Sending, PortTypes
<1>2. pad \in PadRec /\ pad.respSize >= 1
  BY <1>1, PADstartPollIs, SioAssumption
<1>3. /\ Sent(PadSel) \in ExRec /\ Sent(PadSel).sent = <<PadSel>> /\ Sent(PadSel).step = "wait"
      /\ ~Sent(PadSel).gone
  BY <1>1, SentOver
<1> HIDE DEF pad
<1>4. ex' = [Sent(PadSel) EXCEPT !.id = pad.rx0, !.len = pad.respSize]
  BY DEF StartPad, pad
<1>5. /\ ex' \in ExRec /\ ex'.sent = <<PadSel>> /\ ex'.step = "wait" /\ ~ex'.gone
      /\ ex'.id = pad.rx0 /\ ex'.len = pad.respSize
  BY <1>2, <1>3, <1>4 DEF ExRec, PadRec
<1>6. /\ sio' \in SioRec /\ sio'.rx /\ sio'.buf[0] = HiZ /\ sio'.bufcount = 1 /\ sio'.padst = 1
      /\ sio'.parp = 0 /\ sio'.mcdst = 0 /\ sio'.dtr = sio.dtr /\ sio'.port = sio.port /\ sio'.irq = sio.irq
  <2>1. HiZ \in Values /\ 0 \in 0 .. FrameLen + 8 /\ 1 \in 0 .. FrameLen + 8
    BY SioAssumption DEF HiZ, Values, Byte
  <2>2. sio' = [sio EXCEPT !.rx = TRUE, !.buf[0] = HiZ, !.bufcount = 1, !.parp = 0, !.padst = 1]
    BY DEF StartPad
  <2>3. sio'.buf = [sio.buf EXCEPT ![0] = HiZ] /\ sio.buf \in [0 .. FrameLen + 8 -> Values]
    BY <1>1, <2>2 DEF SioRec
  <2>4. sio'.buf \in [0 .. FrameLen + 8 -> Values] /\ sio'.buf[0] = HiZ
    BY <2>1, <2>3
  <2> DEFINE buf == [sio.buf EXCEPT ![0] = HiZ]
  <2>6. sio' = [sio EXCEPT !.rx = TRUE, !.buf = buf, !.bufcount = 1, !.parp = 0, !.padst = 1]
    BY <2>2
  <2>7. buf \in [0 .. FrameLen + 8 -> Values] /\ buf[0] = HiZ
    BY <2>1, <2>3
  <2> HIDE DEF buf
  <2>8. sio' \in SioRec
    BY <1>1, <2>1, <2>6, <2>7, 1 \in 0 .. 2 DEF SioRec
  <2>9. /\ sio'.rx /\ sio'.bufcount = 1 /\ sio'.padst = 1 /\ sio'.parp = 0
        /\ sio'.mcdst = sio.mcdst /\ sio'.dtr = sio.dtr /\ sio'.port = sio.port
        /\ sio'.irq = sio.irq /\ sio'.buf = buf
    BY <1>1, <2>6 DEF SioRec
  <2>5. QED  BY <2>7, <2>8, <2>9
<1>7. posted' = TRUE /\ pads' = [pads EXCEPT ![sio.port] = pad] /\ reqPos' = 0 /\ replug' = replug
  BY DEF StartPad, pad
<1>8. IsPad(ex') /\ Len(ex'.sent) = 1
  BY <1>5 DEF IsPad
<1>9. Length(ex') = 1 + ex'.len
  BY <1>5, <1>8, PadLengthIs
<1>10. Answer(ex') = HiZ
  BY <1>5, <1>8, AnswerIs DEF PadAnswer
<1>11. WithPad(sio', ex')
  BY <1>2, <1>5, <1>6, <1>8 DEF WithPad
<1>12. Answered(sio', ex') /\ Selected(sio', ex')
  BY <1>1, <1>5, <1>6, <1>10 DEF Answered, Selected, Sending
<1>13. Wired(sio', posted', istat, ex')
  BY <1>6, <1>7 DEF Wired, Sending, Good
<1>14. Len(ex'.sent) <= ReadLen
  BY <1>8, SioAssumption DEF ReadLen
<1>15. PlugInv'
  BY <1>1, <1>5, <1>6, <1>7, <1>8 DEF PlugInv
<1>16. pads' \in [Slots -> PadRec]
  BY <1>1, <1>2, <1>7
<1>17. QED  BY <1>1, <1>5, <1>6, <1>7, <1>11, <1>12, <1>13, <1>14, <1>15, <1>16 DEF SendKept, Good

(* No device answers.                                                      *)
LEMMA RestKeeps ==
  ASSUME NEW b, Sending(b), sio.mcdst = 0, sio.padst = 0,
         ex' \in ExRec, ex'.sent = <<b>>, ex'.step = "wait", ~IsPad(ex'), ~IsCard(ex'),
         sio' = [sio EXCEPT !.rx = TRUE, !.buf[0] = HiZ, !.parp = 0, !.bufcount = 0],
         posted' \in BOOLEAN, UNCHANGED padVars
  PROVE  SendKept
<1>1. sio \in SioRec /\ sio.port \in Slots
  BY WhereIs DEF Sending, PortTypes
<1>2. HiZ \in Values /\ 0 \in 0 .. FrameLen + 8
  BY SioAssumption DEF HiZ, Values, Byte
<1> DEFINE buf == [sio.buf EXCEPT ![0] = HiZ]
<1>3. sio' = [sio EXCEPT !.rx = TRUE, !.buf = buf, !.parp = 0, !.bufcount = 0]
  OBVIOUS
<1>4. buf \in [0 .. FrameLen + 8 -> Values] /\ buf[0] = HiZ
  <2>1. sio.buf \in [0 .. FrameLen + 8 -> Values]
    BY <1>1 DEF SioRec
  <2>2. QED  BY <1>2, <2>1
<1> HIDE DEF buf
<1>5. sio' \in SioRec
  BY <1>1, <1>2, <1>3, <1>4 DEF SioRec
<1>6. /\ sio'.rx /\ sio'.parp = 0 /\ sio'.buf = buf /\ sio'.padst = 0 /\ sio'.mcdst = 0
      /\ sio'.dtr = sio.dtr /\ sio'.port = sio.port /\ sio'.irq = sio.irq
  BY <1>1, <1>3 DEF SioRec
<1>7. Len(ex'.sent) = 1 /\ Over(ex') /\ Answer(ex') = HiZ /\ ex'.sent # <<>>
  <2>1. Len(ex'.sent) = 1 /\ ex'.sent # <<>>
    OBVIOUS
  <2>2. Over(ex')
    BY LengthIs DEF Over
  <2>3. Answer(ex') = HiZ
    BY AnswerIs
  <2>4. QED  BY <2>1, <2>2, <2>3
<1>8. AtRest(sio', ex')
  BY <1>6, <1>7 DEF AtRest
<1>9. Answered(sio', ex') /\ Selected(sio', ex')
  BY <1>1, <1>4, <1>6, <1>7 DEF Answered, Selected, Sending
<1>10. Wired(sio', posted', istat, ex')
  BY <1>6, <1>7 DEF Wired, Sending, Good
<1>11. Len(ex'.sent) <= ReadLen
  BY <1>7, SioAssumption DEF ReadLen
<1>12. PlugInv'
  BY <1>6 DEF PlugInv
<1>13. pads' \in [Slots -> PadRec] /\ reqPos' \in Nat /\ replug' \in BOOLEAN
  BY DEF padVars, Sending, PortTypes
<1>14. QED  BY <1>5, <1>8, <1>9, <1>10, <1>11, <1>12, <1>13 DEF SendKept, Good

(* Nothing is addressed.                                                   *)
LEMMA StartNothingKeeps ==
  ASSUME NEW b, Sending(b), Over(ex), sio.mcdst = 0, sio.padst = 0, StartNothing(b)
  PROVE  SendKept
<1>1. b \in Byte /\ ex \in ExRec /\ posted \in BOOLEAN
  BY WhereIs DEF Sending, PortTypes
<1>2. ex' \in ExRec /\ ex'.sent = <<b>> /\ ex'.step = "wait"
  BY <1>1, SentOver DEF StartNothing
<1>3. ~IsPad(ex') /\ ~IsCard(ex')
  BY <1>2 DEF IsPad, IsCard, StartNothing
<1>4. QED  BY <1>1, <1>2, <1>3, RestKeeps DEF StartNothing

PutIsOf(buf, at, t) ==
  /\ Put(buf, at, t) \in [0 .. FrameLen + 8 -> Values]
  /\ \A i \in 0 .. FrameLen + 8 :
       /\ i \in at .. at + Len(t) - 1 => Put(buf, at, t)[i] = t[i - at + 1]
       /\ i \notin at .. at + Len(t) - 1 => Put(buf, at, t)[i] = buf[i]

(* memcpy leaves the bytes outside alone.                                  *)
LEMMA PutIs ==
  ASSUME NEW buf \in [0 .. FrameLen + 8 -> Values], NEW at \in Nat, NEW t \in Seq(Values)
  PROVE  PutIsOf(buf, at, t)
<1> DEFINE n == Len(t)
<1>1. n \in Nat /\ \A i \in 1 .. n : t[i] \in Values
  OBVIOUS
<1>2. Put(buf, at, t) = [i \in 0 .. FrameLen + 8 |->
                           IF i \in at .. at + n - 1 THEN t[i - at + 1] ELSE buf[i]]
  BY DEF Put
<1> HIDE DEF n
<1>3. \A i \in 0 .. FrameLen + 8 : i \in at .. at + n - 1 => i - at + 1 \in 1 .. n
  BY <1>1, SioAssumption
<1>4. \A i \in 0 .. FrameLen + 8 :
        (IF i \in at .. at + n - 1 THEN t[i - at + 1] ELSE buf[i]) \in Values
  BY <1>1, <1>3
<1> HIDE DEF Put
<1>5. QED  BY <1>2, <1>4 DEF n, PutIsOf

(* A card is addressed (sioWrite8, 0x81).                                  *)
LEMMA StartCardKeeps ==
  ASSUME Sending(CardSel), Over(ex), sio.mcdst = 0, sio.padst = 0, StartCard
  PROVE  SendKept
<1> DEFINE there == ~McdDisable[sio.port]
           flag == McdFlag[sio.port]
<1>1. CardSel \in Byte /\ sio.port \in Slots /\ sio \in SioRec /\ ex \in ExRec /\ posted \in BOOLEAN
  BY WhereIs DEF Sending, PortTypes
<1>2. there \in BOOLEAN /\ flag \in BOOLEAN
  BY <1>1 DEF Sending, PortTypes
<1>3. /\ Sent(CardSel) \in ExRec /\ Sent(CardSel).sent = <<CardSel>>
      /\ Sent(CardSel).step = "wait"
  BY <1>1, SentOver
<1>4. /\ ex' = [Sent(CardSel) EXCEPT !.there = there, !.flag = flag]
      /\ posted' = (posted \/ there) /\ UNCHANGED padVars
  BY DEF StartCard
<1> HIDE DEF there, flag
<1>5. ex' \in ExRec /\ ex'.sent = <<CardSel>> /\ ex'.step = "wait" /\ ex'.there = there /\ ex'.flag = flag
  BY <1>2, <1>3, <1>4 DEF ExRec
<1>6. ~IsPad(ex') /\ (IsCard(ex') <=> there) /\ Len(ex'.sent) = 1
  BY <1>5 DEF IsPad, IsCard, PadSel, CardSel
<1>7. CASE ~there
  <2>1. sio' = [sio EXCEPT !.rx = TRUE, !.buf[0] = HiZ, !.parp = 0, !.bufcount = 0]
    BY <1>7 DEF StartCard, there
  <2>2. posted' \in BOOLEAN
    BY <1>1, <1>2, <1>4
  <2>3. QED  BY <1>4, <1>5, <1>6, <1>7, <2>1, <2>2, RestKeeps
<1>8. CASE there
  <2> DEFINE told == IF flag THEN 8 ELSE 0
             head == <<HiZ, told, 90, 93>>
             buf == Put(sio.buf, 0, head)
  <2>1. sio' = [sio EXCEPT !.buf = buf, !.rx = TRUE, !.parp = 0, !.bufcount = 3, !.mcdst = 1,
                           !.rdwr = 0]
    BY <1>8 DEF StartCard, there, flag
  <2>2. sio.buf \in [0 .. FrameLen + 8 -> Values]
    BY <1>1 DEF SioRec
  <2>3. HiZ \in Values /\ told \in Values /\ 90 \in Values /\ 93 \in Values
    BY DEF HiZ, Values, Byte
  <2>4. /\ head \in Seq(Values) /\ Len(head) = 4 /\ head[1] = HiZ /\ head[2] = told
        /\ head[3] = 90 /\ head[4] = 93
    <3> HIDE DEF told
    <3>1. QED  BY <2>3
  <2> HIDE DEF head, told
  <2>5. {0, 1, 2, 3} \subseteq 0 .. FrameLen + 8
    BY SioAssumption
  <2>6. /\ buf \in [0 .. FrameLen + 8 -> Values]
        /\ \A i \in 0 .. 3 : i \in 0 .. FrameLen + 8 => buf[i] = head[i - 0 + 1]
    <3>0. /\ Put(sio.buf, 0, head) \in [0 .. FrameLen + 8 -> Values]
          /\ \A i \in 0 .. FrameLen + 8 :
               /\ i \in 0 .. 0 + Len(head) - 1 => Put(sio.buf, 0, head)[i] = head[i - 0 + 1]
               /\ i \notin 0 .. 0 + Len(head) - 1 => Put(sio.buf, 0, head)[i] = sio.buf[i]
      <4>1. head \in Seq(Values) /\ 0 \in Nat
        BY <2>4
      <4>2. PutIsOf(sio.buf, 0, head)
        BY <2>2, <4>1, PutIs
      <4>3. QED  BY <4>2 DEF PutIsOf
    <3>1. /\ buf \in [0 .. FrameLen + 8 -> Values]
          /\ \A i \in 0 .. FrameLen + 8 : i \in 0 .. 0 + Len(head) - 1 => buf[i] = head[i - 0 + 1]
      BY <3>0
    <3> HIDE DEF buf
    <3>2. QED  BY <2>4, <3>1
  <2> HIDE DEF buf
  <2>7. buf[0] = HiZ /\ buf[1] = told /\ buf[2] = 90 /\ buf[3] = 93
    BY <2>4, <2>5, <2>6
  <2>8. sio' \in SioRec
    BY <1>1, <2>1, <2>5, <2>6, 1 \in 0 .. 5, 0 \in 0 .. 2 DEF SioRec
  <2>9. /\ sio'.rx /\ sio'.parp = 0 /\ sio'.buf = buf /\ sio'.padst = 0 /\ sio'.mcdst = 1
        /\ sio'.rdwr = 0 /\ sio'.bufcount = 3
        /\ sio'.dtr = sio.dtr /\ sio'.port = sio.port /\ sio'.irq = sio.irq
    BY <1>1, <2>1 DEF SioRec
  <2>10. IsCard(ex') /\ Answer(ex') = HiZ /\ ex'.sent # <<>>
    <3>1. IsCard(ex') /\ ex'.sent # <<>>
      BY <1>5, <1>6, <1>8
    <3>2. Answer(ex') = CardAnswer(ex', 1)
      BY <1>5, <1>6, <3>1, AnswerIs
    <3>3. CardAnswer(ex', 1) = HiZ
      BY <1>5, CardAnswerIs
    <3>4. QED  BY <3>1, <3>2, <3>3
  <2>11. WithCard(sio', ex')
    <3>1. Heads(sio', ex')
      BY <1>5, <1>6, <2>7, <2>9 DEF Heads, told
    <3>2. QED  BY <1>6, <2>9, <2>10, <3>1 DEF WithCard, Task, Addressed
  <2>12. Answered(sio', ex') /\ Selected(sio', ex')
    BY <1>1, <1>5, <2>7, <2>9, <2>10 DEF Answered, Selected, Sending
  <2>13. Wired(sio', posted', istat, ex')
    BY <1>4, <1>8, <2>9 DEF Wired, Sending, Good
  <2>14. Len(ex'.sent) <= ReadLen
    BY <1>6, SioAssumption DEF ReadLen
  <2>15. PlugInv'
    BY <2>9 DEF PlugInv
  <2>16. pads' \in [Slots -> PadRec] /\ reqPos' \in Nat /\ replug' \in BOOLEAN /\ posted' \in BOOLEAN
    BY <1>1, <1>2, <1>4 DEF padVars, Sending, PortTypes
  <2>17. QED  BY <1>5, <2>8, <2>11, <2>12, <2>13, <2>14, <2>15, <2>16 DEF SendKept, Good
<1>9. QED  BY <1>2, <1>7, <1>8

(* A pad is asked for something it does not know: the exchange is over.    *)
LEMMA PadRefusesKeeps ==
  ASSUME NEW b, Sending(b), PadRefuses(b)
  PROVE  SendKept
<1>1. b \in Byte /\ sio.port \in Slots /\ sio \in SioRec /\ ex \in ExRec
  BY WhereIs DEF Sending, PortTypes
<1>2. ~Over(ex) /\ WithPad(sio, ex) /\ sio.padst = 1 /\ ~Bit6(b)
  <2>1. sio.padst = 1 /\ ~Bit6(b)
    BY DEF PadRefuses
  <2>2. QED  BY <2>1, WhereIs
<1>3. /\ IsPad(ex) /\ sio.mcdst = 0 /\ sio.rx /\ sio.parp = 0 /\ Len(ex.sent) = 1
      /\ sio.buf[0] = HiZ
  BY <1>2 DEF WithPad
<1>4. ex' = Sent(b) /\ ex' \in ExRec /\ Extends(ex', b)
  BY <1>1, <1>2, SentMore DEF PadRefuses
<1>5. IsPad(ex') /\ Len(ex'.sent) = 2 /\ Command(ex') = b /\ ex'.sent # <<>>
  BY <1>1, <1>3, <1>4, ExtendsIs
<1>6. ~IsCard(ex')
  BY <1>4, <1>5, KindsAre
<1>7. Over(ex')
  <2>1. Len(ex'.sent) > 1 /\ ~Bit6(Command(ex'))
    BY <1>2, <1>5
  <2>2. Length(ex') = Len(ex'.sent)
    BY <1>4, <1>5, <2>1, PadLengthIs
  <2>3. QED  BY <2>2 DEF Over
<1>8. Answer(ex') = HiZ
  <2>1. Answer(ex') = PadAnswer(ex', 2)
    BY <1>4, <1>5, AnswerIs
  <2>2. PadAnswer(ex', 2) = HiZ
    BY <1>2, <1>5 DEF PadAnswer
  <2>3. QED  BY <2>1, <2>2
<1>9. sio' = [sio EXCEPT !.padst = 0]
  BY DEF PadRefuses
<1>10. sio' \in SioRec
  BY <1>1, <1>9, 0 \in 0 .. 2 DEF SioRec
<1>11. /\ sio'.padst = 0 /\ sio'.mcdst = 0 /\ sio'.rx /\ sio'.parp = 0 /\ sio'.buf = sio.buf
       /\ sio'.dtr = sio.dtr /\ sio'.port = sio.port /\ sio'.irq = sio.irq
  BY <1>1, <1>3, <1>9 DEF SioRec
<1>12. AtRest(sio', ex')
  BY <1>5, <1>6, <1>7, <1>11 DEF AtRest
<1>13. ex'.step = "wait"
  BY <1>4 DEF Extends
<1>14. Answered(sio', ex') /\ Selected(sio', ex')
  BY <1>1, <1>3, <1>8, <1>11, <1>13 DEF Answered, Selected, Sending
<1>15. Wired(sio', posted', istat, ex')
  BY <1>7, <1>11 DEF Wired, Sending, Good
<1>16. Len(ex'.sent) <= ReadLen
  BY <1>5, SioAssumption DEF ReadLen
<1>17. PlugInv'
  BY <1>11 DEF PlugInv
<1>18. pads' \in [Slots -> PadRec] /\ reqPos' \in Nat /\ replug' \in BOOLEAN /\ posted' \in BOOLEAN
  BY DEF PadRefuses, padVars, Sending, PortTypes
<1>19. QED  BY <1>4, <1>10, <1>12, <1>14, <1>15, <1>16, <1>17, <1>18 DEF SendKept, Good

(* What a pad is sent after its selection.                                 *)
LEMMA PadByteIs ==
  ASSUME NEW b, Sending(b), PadByte(b)
  PROVE  /\ ~Over(ex) /\ WithPad(sio, ex) /\ IsPad(ex) /\ sio.mcdst = 0 /\ sio.rx
         /\ Len(ex.sent) \in 1 .. 8 /\ sio.parp = Len(ex.sent) - 1 /\ sio.bufcount = Len(ex.sent)
         /\ sio.padst \in {1, 2} /\ (sio.padst = 1 <=> Len(ex.sent) = 1)
         /\ Len(ex.sent) = 1 => ex.len >= 1 /\ Bit6(b)
         /\ Len(ex.sent) > 1 => Len(ex.sent) < 1 + ex.len /\ Bit6(Command(ex))
<1>1. sio.padst # 0 /\ (sio.padst = 1 => Bit6(b))
  BY DEF PadByte
<1>2. ~Over(ex) /\ WithPad(sio, ex)
  BY <1>1, WhereIs
<1>3. ex \in ExRec /\ ex.step = "ready"
  BY DEF Sending, PortTypes
<1> DEFINE n == Len(ex.sent)
<1>4. ex.len \in {0, 1, 4, 8} /\ n \in Nat
  BY <1>3, KindsAre DEF ExRec
<1>5. /\ IsPad(ex) /\ sio.mcdst = 0 /\ sio.rx /\ sio.parp = n - 1
      /\ \/ sio.padst = 1 /\ n = 1 /\ ex.len >= 1 /\ sio.bufcount = 1
         \/ sio.padst = 2 /\ n > 1 /\ Bit6(Command(ex)) /\ n < 1 + ex.len /\ sio.bufcount = n
  BY <1>2, <1>3 DEF WithPad
<1> HIDE DEF n
<1>6. n \in 1 .. 8
  BY <1>4, <1>5
<1>7. /\ sio.bufcount = n /\ sio.padst \in {1, 2} /\ (sio.padst = 1 <=> n = 1)
      /\ n = 1 => ex.len >= 1 /\ Bit6(b)
      /\ n > 1 => n < 1 + ex.len /\ Bit6(Command(ex))
  BY <1>1, <1>5, <1>6
<1>8. QED  BY <1>2, <1>5, <1>6, <1>7 DEF n

(* The exchange as the pad should see it, and what it says of the answer.  *)
LEMMA PadByteSays ==
  ASSUME NEW b, Sending(b), PadByte(b), NEW pad, pad = PADpoll(pads[sio.port], b, reqPos)
  PROVE  /\ Extends(ex', b) /\ ex'.gone = replug
         /\ IsPad(ex') /\ Len(ex'.sent) = Len(ex.sent) + 1 /\ Bit6(Command(ex'))
         /\ pad \in PadRec
         /\ ~replug => /\ reqPos = Len(ex.sent) - 1 /\ pad.respSize = ex'.len
                       /\ Len(ex.sent) <= ex'.len
                       /\ reqPos = 0 => pad.rx0 = ex'.id
<1> DEFINE n == Len(ex.sent)
           p == sio.port
           f == IF sio.padst = 1 THEN PadKind(Sent(b), pads[p], b) ELSE Sent(b)
<1>1. /\ b \in Byte /\ p \in Slots /\ ex \in ExRec /\ reqPos \in Nat /\ pads[p] \in PadRec
      /\ replug \in BOOLEAN
  BY WhereIs DEF Sending, PortTypes
<1>2. /\ ~Over(ex) /\ IsPad(ex) /\ n \in 1 .. 8 /\ sio.padst \in {1, 2} /\ (sio.padst = 1 <=> n = 1)
      /\ n = 1 => ex.len >= 1 /\ Bit6(b)
      /\ n > 1 => n < 1 + ex.len /\ Bit6(Command(ex))
  BY PadByteIs
<1>3. /\ Sent(b) \in ExRec /\ Extends(Sent(b), b)
      /\ Sent(b).id = ex.id /\ Sent(b).len = ex.len /\ Sent(b).gone = ex.gone
  BY <1>1, <1>2, SentMore
<1>4. f \in ExRec /\ Extends(f, b)
  BY <1>1, <1>3, PadKindKeeps DEF Extends
<1>5. ex' = [f EXCEPT !.gone = replug]
  BY DEF PadByte
<1> HIDE DEF f, n, p
<1>6. ex' \in ExRec /\ Extends(ex', b) /\ ex'.gone = replug /\ ex'.len = f.len /\ ex'.id = f.id
  BY <1>1, <1>4, <1>5 DEF Extends, ExRec
<1>7. IsPad(ex') /\ Len(ex'.sent) = n + 1 /\ Bit6(Command(ex'))
  <2>1. /\ IsPad(ex') /\ Len(ex'.sent) = n + 1
        /\ n > 1 => Command(ex') = Command(ex)
        /\ n = 1 => Command(ex') = b
    BY <1>1, <1>2, <1>6, ExtendsIs DEF n
  <2>2. QED  BY <1>2, <2>1
<1>8. pad \in PadRec /\ (reqPos # 0 => pad.respSize = pads[p].respSize)
  BY <1>1, PADpollIs DEF p
<1>9. ASSUME ~replug
      PROVE  /\ reqPos = n - 1 /\ pad.respSize = ex'.len /\ n <= ex'.len
             /\ reqPos = 0 => pad.rx0 = ex'.id
  <2>1. /\ reqPos = n - 1 /\ pads[p].respSize = ex.len
        /\ reqPos = 0 => pads[p].rx0 = ex.id
    BY <1>2, <1>9 DEF PlugInv, Sending, n, p
  <2>2. ex.len \in Nat
    BY <1>1 DEF ExRec
  <2>3. CASE n = 1
    <3>1. reqPos = 0 /\ pads[p].rx0 = ex.id /\ ex.len >= 1 /\ f = PadKind(Sent(b), pads[p], b)
      BY <1>2, <2>1, <2>3 DEF f
    <3>2. f.len = pad.respSize /\ f.id = pad.rx0 /\ f.len >= 1
      BY <1>1, <1>3, <2>1, <3>1, PadKindIs DEF p
    <3>3. QED  BY <1>6, <2>1, <2>3, <3>2
  <2>4. CASE n # 1
    <3>1. f = Sent(b) /\ reqPos # 0
      BY <1>2, <2>1, <2>4 DEF f
    <3>2. f.len = ex.len /\ pad.respSize = ex.len
      BY <1>3, <1>8, <2>1, <3>1
    <3>3. n <= ex.len
      BY <1>2, <2>2, <2>4
    <3>4. QED  BY <1>6, <2>1, <3>1, <3>2, <3>3
  <2>5. QED  BY <2>3, <2>4
<1>10. QED  BY <1>6, <1>7, <1>8, <1>9 DEF n

(* A byte to a pad (PADpoll).                                              *)
LEMMA PadByteKeeps ==
  ASSUME NEW b, Sending(b), PadByte(b)
  PROVE  SendKept
<1> DEFINE n == Len(ex.sent)
           p == sio.port
           pad == PADpoll(pads[p], b, reqPos)
           more == ~replug /\ more_data(pad, reqPos)
           at == IF sio.padst = 1 THEN 1 ELSE sio.parp + 1
           x == IF replug THEN HiZ ELSE Received(pad, reqPos)
           buf == [sio.buf EXCEPT ![at] = x]
           count == IF more THEN at + 1 ELSE sio.bufcount
<1>1. /\ b \in Byte /\ p \in Slots /\ sio \in SioRec /\ reqPos \in Nat /\ replug \in BOOLEAN
      /\ pads \in [Slots -> PadRec] /\ posted \in BOOLEAN
  BY WhereIs DEF Sending, PortTypes
<1>2. /\ sio.mcdst = 0 /\ sio.rx /\ n \in 1 .. 8 /\ sio.parp = n - 1 /\ sio.bufcount = n
      /\ (sio.padst = 1 <=> n = 1)
      /\ n > 1 => n < 1 + ex.len
  BY PadByteIs
<1>3. /\ Extends(ex', b) /\ ex'.gone = replug
      /\ IsPad(ex') /\ Len(ex'.sent) = n + 1 /\ Bit6(Command(ex')) /\ pad \in PadRec
      /\ ~replug => /\ reqPos = n - 1 /\ pad.respSize = ex'.len /\ n <= ex'.len
                    /\ reqPos = 0 => pad.rx0 = ex'.id
  BY PadByteSays
<1>4. /\ sio' = [sio EXCEPT !.padst = 2, !.parp = at, !.buf = buf, !.bufcount = count]
      /\ posted' = (posted \/ more) /\ reqPos' = reqPos + 1
      /\ IF replug THEN replug' \in BOOLEAN /\ UNCHANGED pads
         ELSE pads' = [pads EXCEPT ![p] = pad] /\ UNCHANGED replug
  BY DEF PadByte
<1> HIDE DEF n, p, pad, buf
<1>5. at = n
  BY <1>2
<1>6. ex' \in ExRec /\ ex'.step = "wait" /\ ex'.sent # <<>> /\ ex'.len \in {0, 1, 4, 8}
  <2>1. ex' \in ExRec /\ ex'.step = "wait"
    BY <1>3 DEF Extends
  <2>2. ex'.sent # <<>>
    BY <2>1, <1>3, KindsAre
  <2>3. QED  BY <2>1, <2>2 DEF ExRec
<1>7. more <=> ~replug /\ n < ex'.len
  <2>1. ~replug => (more_data(pad, reqPos) <=> n < ex'.len)
    BY <1>2, <1>3, <1>6 DEF more_data
  <2>2. QED  BY <2>1
<1>8. count = (IF ~replug /\ n < ex'.len THEN n + 1 ELSE n)
  BY <1>2, <1>5, <1>7
<1>9. n \in 0 .. FrameLen + 8 /\ count \in 0 .. FrameLen + 8
  BY <1>2, <1>6, <1>8, SioAssumption
<1>10. x \in Values
  <2>1. HiZ \in Byte /\ Id5a \in Byte /\ 0 \in Byte /\ pad.rx0 \in Byte
    BY <1>3 DEF HiZ, Id5a, Byte, PadRec
  <2>2. x \in Byte
    BY <2>1 DEF Received
  <2>3. QED  BY <2>2 DEF Values
<1> HIDE DEF at, x, count, more
<1>11. buf \in [0 .. FrameLen + 8 -> Values] /\ buf[n] = x
  <2>1. sio.buf \in [0 .. FrameLen + 8 -> Values]
    BY <1>1 DEF SioRec
  <2>2. QED  BY <2>1, <1>5, <1>9, <1>10 DEF buf
<1>12. sio' \in SioRec
  BY <1>1, <1>4, <1>5, <1>9, <1>11, 2 \in 0 .. 2 DEF SioRec
<1>13. /\ sio'.padst = 2 /\ sio'.mcdst = 0 /\ sio'.rx /\ sio'.parp = n /\ sio'.buf = buf
       /\ sio'.bufcount = count
       /\ sio'.dtr = sio.dtr /\ sio'.port = p /\ sio'.irq = sio.irq
  BY <1>1, <1>2, <1>4, <1>5 DEF SioRec, p
<1>14. replug \/ n = ex'.len => Over(ex')
  <2>6. Len(ex'.sent) > 1
    BY <1>2, <1>3
  <2>7. replug => Length(ex') = Len(ex'.sent)
    BY <1>3, <1>6, <2>6, PadLengthIs
  <2>1. replug => Length(ex') = n + 1
    BY <1>3, <2>7
  <2>2. ~replug => Length(ex') = 1 + ex'.len
    BY <1>3, <1>6, PadLengthIs
  <2>3. ex'.len \in Nat /\ n \in Nat
    BY <1>2, <1>6
  <2>4. replug \/ n = ex'.len => n + 1 = Length(ex')
    BY <2>1, <2>2, <2>3
  <2>5. QED  BY <1>3, <2>4 DEF Over
<1>15. WithPad(sio', ex')
  <2>1. ex'.len \in Nat /\ n \in Nat /\ n >= 1
    BY <1>2, <1>6
  <2>2. CASE ~replug /\ n < ex'.len
    <3>1. Len(ex'.sent) > 1 /\ Len(ex'.sent) < 1 + ex'.len /\ count = n + 1 /\ Len(ex'.sent) - 1 = n
      BY <1>3, <1>8, <2>1, <2>2
    <3>2. QED  BY <1>3, <1>13, <2>2, <3>1 DEF WithPad
  <2>3. CASE replug \/ ~(n < ex'.len)
    <3>1. replug \/ n = ex'.len
      BY <1>3, <2>1, <2>3
    <3>2. count = n /\ Len(ex'.sent) - 1 = n
      BY <1>3, <1>8, <2>1, <2>3
    <3>3. QED  BY <1>3, <1>6, <1>13, <1>14, <3>1, <3>2 DEF WithPad
  <2>4. QED  BY <2>2, <2>3
<1>16. Answer(ex') = x
  <2>1. Answer(ex') = PadAnswer(ex', n + 1)
    BY <1>3, <1>6, AnswerIs
  <2>2. CASE replug
    BY <1>3, <2>1, <2>2 DEF PadAnswer, x
  <2>3. CASE ~replug
    <3>1. ex'.len \in Nat /\ n \in Nat /\ n >= 1
      BY <1>2, <1>6
    <3>2. PadAnswer(ex', n + 1) = (IF n = 1 THEN ex'.id ELSE IF n = 2 THEN Id5a ELSE 0)
      BY <1>3, <2>3, <3>1 DEF PadAnswer
    <3>3. Received(pad, n - 1) = (IF n = 1 THEN pad.rx0 ELSE IF n = 2 THEN Id5a ELSE 0)
      BY <1>3, <2>3, <3>1 DEF Received
    <3>4. n = 1 => pad.rx0 = ex'.id
      BY <1>3, <2>3, <3>1
    <3>5. x = Received(pad, n - 1)
      BY <1>3, <2>3 DEF x
    <3>6. QED  BY <2>1, <3>2, <3>3, <3>4, <3>5
  <2>4. QED  BY <2>2, <2>3
<1>17. Answered(sio', ex') /\ Selected(sio', ex')
  BY <1>1, <1>6, <1>11, <1>13, <1>16 DEF Answered, Selected, Sending
<1>18. Wired(sio', posted', istat, ex')
  <2>5. ex'.len \in Nat /\ n \in Nat
    BY <1>2, <1>6
  <2>3. ~replug /\ ~(n < ex'.len) => n = ex'.len
    BY <1>3, <2>5
  <2>4. ~Over(ex') => more
    BY <1>7, <1>14, <2>3
  <2>1. ~Over(ex') => posted'
    BY <1>4, <2>4
  <2>2. QED  BY <1>13, <2>1 DEF Wired, Sending, Good
<1>19. Len(ex'.sent) <= ReadLen
  BY <1>2, <1>3, SioAssumption DEF ReadLen
<1>20. PlugInv'
  <2> SUFFICES ASSUME ~replug', ~Over(ex')
               PROVE  /\ reqPos' = Len(ex'.sent) - 1
                      /\ pads'[sio'.port].respSize = ex'.len
                      /\ reqPos' # 0
    BY DEF PlugInv
  <2>1. ~replug
    BY <1>14
  <2>2. reqPos' = n /\ n # 0 /\ n = Len(ex'.sent) - 1
    BY <1>2, <1>3, <1>4, <2>1
  <2>3. pads'[p] = pad
    BY <1>1, <1>4, <2>1
  <2>4. QED  BY <1>3, <1>13, <2>1, <2>2, <2>3
<1>21. pads' \in [Slots -> PadRec] /\ reqPos' \in Nat /\ replug' \in BOOLEAN /\ posted' \in BOOLEAN
  <2>1. posted' \in BOOLEAN
    BY <1>1, <1>4, <1>7
  <2>2. CASE replug
    BY <1>1, <1>4, <2>2
  <2>3. CASE ~replug
    BY <1>1, <1>3, <1>4, <2>3
  <2>4. QED  BY <1>1, <1>4, <2>1, <2>2, <2>3
<1>22. QED  BY <1>6, <1>12, <1>15, <1>17, <1>18, <1>19, <1>20, <1>21 DEF SendKept, Good

(* What a card is sent after its selection.                                *)
LEMMA CardSent ==
  ASSUME NEW b, Sending(b), sio.mcdst # 0, Extends(ex', b)
  PROVE  /\ ~Over(ex) /\ WithCard(sio, ex) /\ IsCard(ex) /\ IsCard(ex') /\ ~IsPad(ex')
         /\ Len(ex.sent) \in Nat \ {0} /\ Len(ex'.sent) = Len(ex.sent) + 1
         /\ ex'.sent # <<>>
         /\ \A i \in 1 .. Len(ex.sent) : ex'.sent[i] = ex.sent[i]
         /\ ex'.sent[Len(ex.sent) + 1] = b
         /\ Answer(ex') = CardAnswer(ex', Len(ex.sent) + 1)
         /\ Len(ex.sent) = 1 => sio.rdwr = 0 /\ Command(ex') = b
         /\ Len(ex.sent) > 1 =>
              /\ Command(ex') = Command(ex) /\ Command(ex) \in {CmdRead, CmdWrite}
              /\ Length(ex') = Length(ex) /\ Task(ex') = sio.rdwr
              /\ Command(ex) = CmdRead => sio.rdwr = 1 /\ Length(ex) = ReadLen
              /\ Command(ex) = CmdWrite => sio.rdwr = 2 /\ Length(ex) = WriteLen
<1> DEFINE n == Len(ex.sent)
<1>1. b \in Byte /\ ex \in ExRec /\ ex' \in ExRec
  BY WhereIs DEF Sending, PortTypes, Extends
<1>2. ~Over(ex) /\ WithCard(sio, ex)
  <2>1. WithPad(sio, ex) => sio.mcdst = 0
    BY DEF WithPad
  <2>2. QED  BY <2>1, WhereIs
<1>3. IsCard(ex) /\ sio.rdwr = Task(ex) /\ (n > 1 => Command(ex) \in {CmdRead, CmdWrite})
  BY <1>2 DEF WithCard
<1>4. /\ n \in Nat \ {0} /\ Len(ex'.sent) = n + 1 /\ ex'.sent # <<>>
      /\ \A i \in 1 .. n : ex'.sent[i] = ex.sent[i]
      /\ ex'.sent[n + 1] = b
      /\ IsCard(ex')
      /\ n > 1 => Command(ex') = Command(ex)
      /\ n = 1 => Command(ex') = b
  <2>1. n > 0
    BY <1>3 DEF IsCard
  <2>2. QED  BY <1>1, <1>3, <2>1, ExtendsIs
<1>5. ~IsPad(ex') /\ Answer(ex') = CardAnswer(ex', n + 1)
  BY <1>1, <1>4, KindsAre, AnswerIs
<1> HIDE DEF n
<1>6. n = 1 => sio.rdwr = 0
  BY <1>3 DEF Task, n
<1>7. ASSUME n > 1
      PROVE  /\ Length(ex') = Length(ex) /\ Task(ex') = sio.rdwr
             /\ Command(ex) = CmdRead => sio.rdwr = 1 /\ Length(ex) = ReadLen
             /\ Command(ex) = CmdWrite => sio.rdwr = 2 /\ Length(ex) = WriteLen
  <2>1. Command(ex') = Command(ex) /\ n + 1 > 1 /\ ~(n = 1) /\ ~(n + 1 = 1)
    BY <1>4, <1>7
  <2>2. Length(ex) = CardLength(ex) /\ Length(ex') = CardLength(ex')
    BY <1>1, <1>3, <1>4, LengthIs
  <2>3. sio.rdwr = IF Command(ex) = CmdRead THEN 1 ELSE 2
    BY <1>3, <2>1 DEF Task, n
  <2>4. Task(ex') = IF Command(ex) = CmdRead THEN 1 ELSE 2
    BY <1>4, <2>1 DEF Task
  <2>5. CmdRead # CmdWrite
    BY DEF CmdRead, CmdWrite
  <2>6. /\ CardLength(ex) = IF Command(ex) = CmdWrite THEN WriteLen ELSE ReadLen
        /\ CardLength(ex') = IF Command(ex) = CmdWrite THEN WriteLen ELSE ReadLen
    BY <1>3, <1>4, <1>7, <2>1 DEF CardLength, n
  <2>7. QED  BY <2>2, <2>3, <2>4, <2>5, <2>6
<1>8. QED  BY <1>2, <1>3, <1>4, <1>5, <1>6, <1>7 DEF n

(* What every byte to a card keeps, whatever it means.                     *)
LEMMA CardKeeps ==
  ASSUME NEW b, Sending(b), sio.mcdst # 0, Extends(ex', b),
         sio' \in SioRec, sio'.padst = 0, sio'.rx, sio'.dtr = sio.dtr, sio'.port = sio.port,
         sio'.irq = sio.irq, posted' = TRUE, UNCHANGED padVars,
         AtRest(sio', ex') \/ WithCard(sio', ex'),
         sio'.buf[sio'.parp] = Answer(ex'), Len(ex'.sent) <= ReadLen
  PROVE  SendKept
<1>1. ex' \in ExRec /\ ex'.step = "wait" /\ ex'.sent # <<>> /\ sio.port \in Slots
  BY CardSent, WhereIs DEF Extends
<1>2. Answered(sio', ex') /\ Selected(sio', ex')
  BY <1>1 DEF Answered, Selected, Sending
<1>3. Wired(sio', posted', istat, ex')
  BY DEF Wired, Sending, Good
<1>4. PlugInv'
  BY DEF PlugInv
<1>5. pads' \in [Slots -> PadRec] /\ reqPos' \in Nat /\ replug' \in BOOLEAN /\ posted' \in BOOLEAN
  BY DEF padVars, Sending, PortTypes
<1>6. QED  BY <1>1, <1>2, <1>3, <1>4, <1>5 DEF SendKept, Good

(* The command to a card, and the bytes up to its address.                 *)
LEMMA CardCommandKeeps ==
  ASSUME NEW b, Sending(b), sio.padst = 0, CardCommand(b), posted' = TRUE, UNCHANGED padVars
  PROVE  SendKept
<1> DEFINE n == Len(ex.sent)
<1>1. b \in Byte /\ sio.port \in Slots /\ sio \in SioRec /\ ex \in ExRec
  BY WhereIs DEF Sending, PortTypes
<1>2. sio.mcdst = 1 /\ ex' = Sent(b) /\ 1 # 0
  BY DEF CardCommand
<1>3. ~Over(ex) /\ WithCard(sio, ex)
  <2>1. WithPad(sio, ex) => sio.mcdst = 0
    BY DEF WithPad
  <2>2. QED  BY <1>2, <2>1, WhereIs
<1>4. Extends(ex', b)
  BY <1>1, <1>2, <1>3, SentMore
<1>5. /\ IsCard(ex) /\ IsCard(ex') /\ ~IsPad(ex')
      /\ n \in Nat \ {0} /\ Len(ex'.sent) = n + 1 /\ ex'.sent # <<>>
      /\ Answer(ex') = CardAnswer(ex', n + 1)
      /\ n = 1 => sio.rdwr = 0 /\ Command(ex') = b
      /\ n > 1 => /\ Command(ex') = Command(ex) /\ Command(ex) \in {CmdRead, CmdWrite}
                  /\ Task(ex') = sio.rdwr
                  /\ Command(ex) = CmdRead => sio.rdwr = 1
                  /\ Command(ex) = CmdWrite => sio.rdwr = 2
  BY <1>2, <1>4, CardSent
<1>6. Heads(sio, ex)
  BY <1>2, <1>3 DEF WithCard, Address, Body
<1>7. /\ n \in 1 .. 3 /\ sio.parp = n - 1 /\ sio.bufcount = 3 /\ sio.rx
      /\ sio.buf[0] = HiZ /\ sio.buf[1] = (IF ex.flag THEN 8 ELSE 0)
      /\ sio.buf[2] = 90 /\ sio.buf[3] = 93
  <2>1. /\ n \in 1 .. 4 /\ (n = 4 => ex.step = "wait") /\ ex.step = "ready"
    BY <1>6 DEF Heads, Sending
  <2>2. n \in 1 .. 3
    BY <2>1
  <2>3. QED  BY <1>3, <1>6, <2>2 DEF Heads, WithCard
<1>8. ex'.flag = ex.flag /\ ex'.step = "wait" /\ ex' \in ExRec
  BY <1>4 DEF Extends
<1> HIDE DEF n
<1>9. n \in 0 .. FrameLen + 8 /\ n + 1 <= ReadLen
  BY <1>7, SioAssumption DEF ReadLen
<1>10. sio.buf[n] = Answer(ex')
  <2>1. /\ n = 1 => CardAnswer(ex', n + 1) = (IF ex.flag THEN 8 ELSE 0)
        /\ n = 2 => CardAnswer(ex', n + 1) = 90
        /\ n = 3 => CardAnswer(ex', n + 1) = 93
    BY <1>5, <1>8, CardAnswerIs
  <2>2. QED  BY <1>5, <1>7, <2>1
<1>11. CASE sio.rdwr = 0 /\ b \notin {CmdRead, CmdWrite}
  <2>1. n = 1
    BY <1>5, <1>7, <1>11
  <2>2. sio' = [sio EXCEPT !.parp = 1, !.mcdst = 0]
    BY <1>11 DEF CardCommand
  <2>3. sio' \in SioRec
    BY <1>1, <1>9, <2>1, <2>2, 0 \in 0 .. 5 DEF SioRec
  <2>4. /\ sio'.parp = n /\ sio'.mcdst = 0 /\ sio'.padst = 0 /\ sio'.rx /\ sio'.buf = sio.buf
        /\ sio'.dtr = sio.dtr /\ sio'.port = sio.port /\ sio'.irq = sio.irq
    BY <1>1, <1>7, <2>1, <2>2 DEF SioRec
  <2>5. Over(ex')
    <3>1. Length(ex') = CardLength(ex')
      BY <1>5, <1>8, LengthIs
    <3>2. CardLength(ex') = 2 /\ Len(ex'.sent) = 2
      BY <1>5, <1>11, <2>1 DEF CardLength
    <3>3. QED  BY <3>1, <3>2 DEF Over
  <2>6. AtRest(sio', ex')
    BY <1>5, <1>8, <1>11, <2>1, <2>4, <2>5 DEF AtRest
  <2>7. QED  BY <1>2, <1>4, <1>5, <1>9, <1>10, <2>3, <2>4, <2>6, CardKeeps
<1>12. CASE sio.rdwr # 0 \/ b \in {CmdRead, CmdWrite}
  <2> DEFINE way == IF sio.rdwr # 0 THEN sio.rdwr ELSE IF b = CmdRead THEN 1 ELSE 2
  <2>1. sio.rdwr = 0 => n = 1
    BY <1>5, <1>7
  <2> DEFINE After == /\ sio'.parp = n /\ sio'.mcdst = 1 /\ sio'.padst = 0 /\ sio'.rx
                      /\ sio'.buf = sio.buf /\ sio'.rdwr = way /\ sio'.bufcount = 3
                      /\ sio'.dtr = sio.dtr /\ sio'.port = sio.port /\ sio'.irq = sio.irq
  <2>2. sio' \in SioRec /\ After
    <3>1. CASE sio.rdwr # 0
      <4>1. sio' = [sio EXCEPT !.parp = sio.parp + 1]
        BY <3>1 DEF CardCommand
      <4>2. sio.parp + 1 = n /\ way = sio.rdwr
        BY <1>7, <3>1
      <4> HIDE DEF way
      <4>3. sio' \in SioRec
        BY <1>1, <1>9, <4>1, <4>2 DEF SioRec
      <4>4. After
        BY <1>1, <1>2, <1>7, <4>1, <4>2 DEF SioRec
      <4>5. QED  BY <4>3, <4>4
    <3>2. CASE sio.rdwr = 0
      <4>1. sio' = [sio EXCEPT !.parp = 1, !.rdwr = way]
        <5>1. b = CmdRead => sio' = [sio EXCEPT !.parp = 1, !.rdwr = 1] /\ way = 1
          BY <3>2 DEF CardCommand, CmdRead, CmdWrite
        <5>2. b = CmdWrite => sio' = [sio EXCEPT !.parp = 1, !.rdwr = 2] /\ way = 2
          BY <3>2 DEF CardCommand, CmdRead, CmdWrite
        <5> HIDE DEF way
        <5>3. QED  BY <1>12, <3>2, <5>1, <5>2
      <4>2. n = 1 /\ way \in 0 .. 2
        BY <2>1, <3>2
      <4> HIDE DEF way
      <4>3. sio' \in SioRec
        BY <1>1, <1>9, <4>1, <4>2 DEF SioRec
      <4>4. After
        BY <1>1, <1>2, <1>7, <4>1, <4>2 DEF SioRec
      <4>5. QED  BY <4>3, <4>4
    <3>3. QED  BY <3>1, <3>2
  <2>4. Task(ex') = way /\ Command(ex') \in {CmdRead, CmdWrite}
    <3>1. CASE sio.rdwr # 0
      <4>1. n = 1 \/ n > 1
        BY <1>7
      <4>2. n > 1
        BY <1>5, <3>1, <4>1
      <4>3. QED  BY <1>5, <3>1, <4>2
    <3>2. CASE sio.rdwr = 0
      BY <1>5, <1>12, <2>1, <3>2 DEF Task
    <3>3. QED  BY <3>1, <3>2
  <2> HIDE DEF way
  <2>7. Heads(sio', ex')
    <3>1. Len(ex'.sent) \in 1 .. 4 /\ Len(ex'.sent) - 1 = n
      BY <1>5, <1>7
    <3>2. QED  BY <1>7, <1>8, <2>2, <3>1 DEF Heads
  <2>8. Addressed(sio', ex')
    <3>1. ~(Len(ex'.sent) >= 5) /\ ~(Len(ex'.sent) >= 6)
      BY <1>5, <1>7
    <3>2. QED  BY <3>1 DEF Addressed
  <2>9. WithCard(sio', ex')
    BY <1>5, <2>2, <2>4, <2>7, <2>8 DEF WithCard
  <2>10. QED  BY <1>2, <1>4, <1>5, <1>9, <1>10, <2>2, <2>9, CardKeeps
<1>13. QED  BY <1>11, <1>12

(* The address of a frame.                                                 *)
LEMMA CardAddressKeeps ==
  ASSUME NEW b, Sending(b), sio.padst = 0, CardAddress(b), posted' = TRUE, UNCHANGED padVars
  PROVE  SendKept
<1> DEFINE n == Len(ex.sent)
<1>1. b \in Byte /\ sio.port \in Slots /\ sio \in SioRec /\ ex \in ExRec
  BY WhereIs DEF Sending, PortTypes
<1>2. sio.mcdst \in {2, 3} /\ ex' = Sent(b) /\ sio.mcdst # 0
  BY DEF CardAddress
<1>3. ~Over(ex) /\ WithCard(sio, ex)
  <2>1. WithPad(sio, ex) => sio.mcdst = 0
    BY DEF WithPad
  <2>2. QED  BY <1>2, <2>1, WhereIs
<1>4. Extends(ex', b)
  BY <1>1, <1>2, <1>3, SentMore
<1>5. /\ IsCard(ex) /\ IsCard(ex') /\ n \in Nat \ {0} /\ Len(ex'.sent) = n + 1
      /\ \A i \in 1 .. n : ex'.sent[i] = ex.sent[i]
      /\ ex'.sent[n + 1] = b
      /\ Answer(ex') = CardAnswer(ex', n + 1)
      /\ n > 1 => /\ Command(ex') \in {CmdRead, CmdWrite}
                  /\ Task(ex') = sio.rdwr
  BY <1>2, <1>4, CardSent
<1>6. Address(sio, ex) /\ Addressed(sio, ex) /\ sio.rx
  BY <1>2, <1>3 DEF WithCard, Heads, Body
<1>7. \/ sio.mcdst = 2 /\ n = 4
      \/ sio.mcdst = 3 /\ n = 5
  BY <1>2, <1>6 DEF Address
<1>8. /\ n = 4 => b = 0
      /\ n = 5 => b \in Frames
  <2>1. b \in Bytes(ex)
    BY DEF Sending
  <2>2. QED  BY <1>1, <1>3, <1>5, <2>1, BytesAre
<1>9. /\ n = 5 => ex.sent[5] = 0 /\ sio.adrH = 0
  BY <1>6 DEF Addressed
<1>10. ex' \in ExRec /\ ex'.step = "wait"
  BY <1>4 DEF Extends
<1> HIDE DEF n
<1>11. {0, 1} \subseteq 0 .. FrameLen + 8 /\ 0 \in Values /\ 0 \in Byte /\ 6 <= ReadLen
  BY SioAssumption DEF Values, Byte, ReadLen
<1> DEFINE buf == [sio.buf EXCEPT ![0] = 0]
<1>12. buf \in [0 .. FrameLen + 8 -> Values] /\ buf[0] = 0
  <2>1. sio.buf \in [0 .. FrameLen + 8 -> Values]
    BY <1>1 DEF SioRec
  <2>2. QED  BY <1>11, <2>1
<1>13. CASE n = 4
  <2>1. sio' = [sio EXCEPT !.adrH = 0, !.buf = buf, !.parp = 0, !.bufcount = 1, !.mcdst = 3]
    BY <1>7, <1>8, <1>13 DEF CardAddress
  <2> HIDE DEF buf
  <2>2. sio' \in SioRec
    BY <1>1, <1>11, <1>12, <2>1, 3 \in 0 .. 5 DEF SioRec
  <2>3. /\ sio'.parp = 0 /\ sio'.bufcount = 1 /\ sio'.mcdst = 3 /\ sio'.padst = 0 /\ sio'.rx
        /\ sio'.buf = buf /\ sio'.adrH = 0 /\ sio'.rdwr = sio.rdwr
        /\ sio'.dtr = sio.dtr /\ sio'.port = sio.port /\ sio'.irq = sio.irq
    BY <1>1, <1>6, <2>1 DEF SioRec
  <2>4. Len(ex'.sent) = 5 /\ ex'.sent[5] = 0
    BY <1>5, <1>8, <1>13
  <2>5. Addressed(sio', ex')
    BY <2>3, <2>4 DEF Addressed
  <2>6. Address(sio', ex')
    BY <1>12, <2>3, <2>4 DEF Address
  <2>7. WithCard(sio', ex')
    BY <1>5, <1>13, <2>3, <2>5, <2>6 DEF WithCard
  <2>8. Answer(ex') = 0
    BY <1>5, <1>10, <1>13, CardAnswerIs
  <2>9. Len(ex'.sent) <= ReadLen
    BY <2>4, SioAssumption DEF ReadLen
  <2>10. QED  BY <1>2, <1>4, <1>12, <2>2, <2>3, <2>7, <2>8, <2>9, CardKeeps
<1>14. CASE n = 5
  <2>1. sio' = [sio EXCEPT !.adrL = b, !.buf = buf, !.parp = 0, !.bufcount = 1, !.mcdst = 4]
    <3>1. sio' = [sio EXCEPT !.adrL = b, !.buf[0] = sio.adrH, !.parp = 0, !.bufcount = 1, !.mcdst = 4]
      BY <1>7, <1>14 DEF CardAddress
    <3>2. sio.adrH = 0
      BY <1>9, <1>14
    <3>3. QED  BY <3>1, <3>2
  <2> HIDE DEF buf
  <2>2. sio' \in SioRec
    BY <1>1, <1>11, <1>12, <2>1, 4 \in 0 .. 5 DEF SioRec
  <2>3. /\ sio'.parp = 0 /\ sio'.bufcount = 1 /\ sio'.mcdst = 4 /\ sio'.padst = 0 /\ sio'.rx
        /\ sio'.buf = buf /\ sio'.adrH = 0 /\ sio'.adrL = b /\ sio'.rdwr = sio.rdwr
        /\ sio'.dtr = sio.dtr /\ sio'.port = sio.port /\ sio'.irq = sio.irq
    BY <1>1, <1>6, <1>9, <1>14, <2>1 DEF SioRec
  <2>4. Len(ex'.sent) = 6 /\ ex'.sent[5] = 0 /\ ex'.sent[6] = b
    BY <1>5, <1>9, <1>14
  <2>5. Addressed(sio', ex')
    BY <1>8, <1>14, <2>3, <2>4 DEF Addressed
  <2>6. Address(sio', ex')
    BY <1>12, <2>3, <2>4 DEF Address
  <2>7. WithCard(sio', ex')
    BY <1>5, <1>14, <2>3, <2>5, <2>6 DEF WithCard
  <2>8. Answer(ex') = 0
    BY <1>5, <1>10, <1>14, <2>4, CardAnswerIs
  <2>9. Len(ex'.sent) <= ReadLen
    BY <2>4, SioAssumption DEF ReadLen
  <2>10. QED  BY <1>2, <1>4, <1>12, <2>2, <2>3, <2>7, <2>8, <2>9, CardKeeps
<1>15. QED  BY <1>7, <1>13, <1>14

(* The frame that is addressed.                                            *)
LEMMA FrameIs ==
  ASSUME PortTypes, WithCard(sio, ex), Len(ex.sent) >= 6, sio.port \in Slots
  PROVE  /\ Frame = ex.sent[6] /\ Frame = ex.sent[6] + 256 * ex.sent[5] /\ Frame \in Frames
         /\ sio.adrH = 0 /\ ex.sent[5] = 0 /\ sio.adrL = ex.sent[6]
         /\ card[sio.port][Frame] \in [1 .. FrameLen -> Byte]
<1>1. Len(ex.sent) \in Nat
  BY KindsAre DEF PortTypes
<1>2. /\ sio.adrH = 0 /\ ex.sent[5] = 0 /\ sio.adrL = ex.sent[6] /\ ex.sent[6] \in Frames
  BY <1>1 DEF WithCard, Addressed
<1>3. ex.sent[6] \in Nat
  <2>1. Frames \subseteq Nat
    BY SioAssumption
  <2>2. QED  BY <1>2, <2>1
<1>4. Frame = ex.sent[6] /\ Frame = ex.sent[6] + 256 * ex.sent[5]
  BY <1>2, <1>3 DEF Frame
<1>5. card[sio.port][Frame] \in [1 .. FrameLen -> Byte]
  <2>1. card[sio.port] \in [Frames -> [1 .. FrameLen -> Byte]]
    BY DEF PortTypes
  <2>2. QED  BY <1>2, <1>4, <2>1
<1>6. QED  BY <1>2, <1>4, <1>5

(* The elements of a sequence that is put together.                        *)
LEMMA Joined ==
  ASSUME NEW s \in Seq(Values), NEW t \in Seq(Values), NEW n \in Nat, NEW m \in Nat, Len(s) = n,
         Len(t) = m
  PROVE  s \o t \in Seq(Values) /\ Len(s \o t) = n + m
BY ConcatProperties

(* The first four and the rest.                                            *)
LEMMA JoinedFour ==
  ASSUME NEW s \in Seq(Values), NEW t \in Seq(Values), NEW n \in Nat, Len(s) = 4, Len(t) = n
  PROVE  s \o t \in Seq(Values) /\ Len(s \o t) = 4 + n
BY 4 \in Nat, Joined

ReplyIsOf(e, h, l, data) ==
  /\ Reply(e) = <<92, 93>> \o <<h, l>> \o data \o <<Checksum(<<h, l>> \o data), 71>>
  /\ Reply(e) \in Seq(Values) /\ Len(Reply(e)) = FrameLen + 6

(* The reply to a read: its length, and its bytes.                         *)
LEMMA ReplyIs ==
  ASSUME NEW e, NEW h \in Byte, NEW l \in Byte, NEW data \in [1 .. FrameLen -> Byte],
         e.sent[5] = h, e.sent[6] = l, e.frame = data
  PROVE  ReplyIsOf(e, h, l, data)
<1>1. data \in Seq(Byte) /\ Len(data) = FrameLen
  BY SioAssumption
<1>15. FrameLen \in Nat /\ 4 + FrameLen \in Nat
  BY SioAssumption
<1>2. <<h, l>> \in Seq(Byte) /\ Len(<<h, l>>) = 2
  OBVIOUS
<1> DEFINE hl == <<h, l>>
           sum == Checksum(hl \o data)
           head == <<92, 93>>
           tail == <<sum, 71>>
<1>3. hl \in Seq(Byte) /\ Len(hl) = 2
  BY <1>2
<1> HIDE DEF hl
<1>4. hl \o data \in Seq(Byte)
  BY <1>1, <1>3
<1>5. Byte \subseteq Values /\ sum \in Values /\ 71 \in Values /\ 92 \in Values /\ 93 \in Values
  <2>1. sum \in Values
    BY <1>4 DEF Values
  <2>2. Byte \subseteq Values /\ 71 \in Byte /\ 92 \in Byte /\ 93 \in Byte
    BY DEF Values, Byte
  <2>3. QED  BY <2>1, <2>2
<1> HIDE DEF sum
<1>6. head \in Seq(Values) /\ Len(head) = 2 /\ tail \in Seq(Values) /\ Len(tail) = 2
  BY <1>5
<1>7. hl \in Seq(Values) /\ data \in Seq(Values)
  BY <1>1, <1>3, <1>5
<1> HIDE DEF head, tail
<1>8. head \o hl \in Seq(Values) /\ Len(head \o hl) = 2 + 2
  <2>1. head \in Seq(Values) /\ hl \in Seq(Values)
    BY <1>6, <1>7
  <2>2. Len(head) = 2 /\ Len(hl) = 2 /\ 2 \in Nat
    BY <1>3, <1>6
  <2>3. QED  BY <2>1, <2>2, Joined
<1> DEFINE front == head \o hl
<1>13. front \in Seq(Values) /\ Len(front) = 4
  BY <1>8
<1> HIDE DEF front
<1>9. front \o data \in Seq(Values) /\ Len(front \o data) = 4 + FrameLen
  BY <1>1, <1>7, <1>13, <1>15, JoinedFour
<1> DEFINE most == front \o data
<1>14. most \in Seq(Values) /\ Len(most) = 4 + FrameLen
  BY <1>9
<1> HIDE DEF most
<1>10. most \o tail \in Seq(Values) /\ Len(most \o tail) = FrameLen + 6
  <2>1. most \o tail \in Seq(Values) /\ Len(most \o tail) = 4 + FrameLen + 2
    BY <1>6, <1>14, 2 \in Nat, <1>15, Joined
  <2>2. 4 + FrameLen + 2 = FrameLen + 6
    BY SioAssumption
  <2>3. QED  BY <2>1, <2>2
<1>11. Reply(e) = most \o tail
  BY DEF Reply, head, tail, hl, sum, front, most
<1>12. Reply(e) = <<92, 93>> \o <<h, l>> \o data \o <<Checksum(<<h, l>> \o data), 71>>
  BY <1>11 DEF head, tail, hl, sum, front, most
<1>16. QED  BY <1>10, <1>11, <1>12 DEF ReplyIsOf

(* The address is complete: a read is answered as a whole, and a write     *)
(* begins to be echoed.                                                    *)
LEMMA CardAnswersIs ==
  ASSUME NEW b, Sending(b), CardAnswers(b)
  PROVE  /\ b \in Byte /\ sio \in SioRec /\ sio.port \in Slots
         /\ Extends(ex', b) /\ IsCard(ex') /\ WithCard(sio, ex) /\ sio.rx
         /\ Len(ex.sent) = 6 /\ Len(ex'.sent) = 7 /\ ex'.sent[7] = b
         /\ ex'.sent[5] = sio.adrH /\ ex'.sent[6] = sio.adrL /\ ex'.sent[6] \in Frames
         /\ ex'.frame = card[sio.port][Frame] /\ ex'.frame \in [1 .. FrameLen -> Byte]
         /\ Answer(ex') = CardAnswer(ex', 7)
         /\ Command(ex') \in {CmdRead, CmdWrite} /\ Task(ex') = sio.rdwr
         /\ Command(ex') = CmdRead => sio.rdwr = 1 /\ Length(ex') = ReadLen
         /\ Command(ex') = CmdWrite => sio.rdwr = 2 /\ Length(ex') = WriteLen
<1> DEFINE data == card[sio.port][Frame]
<1>1. b \in Byte /\ sio.port \in Slots /\ sio \in SioRec /\ ex \in ExRec /\ PortTypes
  BY WhereIs DEF Sending, PortTypes
<1>2. sio.mcdst = 4 /\ sio.mcdst # 0 /\ ex' = [Sent(b) EXCEPT !.frame = data]
  BY DEF CardAnswers
<1>3. ~Over(ex) /\ WithCard(sio, ex)
  <2>1. WithPad(sio, ex) => sio.mcdst = 0
    BY DEF WithPad
  <2>2. QED  BY <1>2, <2>1, WhereIs
<1>4. Address(sio, ex) /\ sio.rx /\ Len(ex.sent) = 6
  BY <1>2, <1>3 DEF WithCard, Heads, Body, Address
<1>5. /\ Frame \in Frames /\ Frame = ex.sent[6]
      /\ sio.adrH = 0 /\ ex.sent[5] = 0 /\ sio.adrL = ex.sent[6]
      /\ data \in [1 .. FrameLen -> Byte]
  <2>1. Len(ex.sent) >= 6
    BY <1>4
  <2>2. QED  BY <1>1, <1>3, <2>1, FrameIs
<1>6. data \in Seq(Byte)
  BY <1>5, SioAssumption
<1> HIDE DEF data
<1>7. Extends(ex', b) /\ ex'.frame = data
  <2>1. Sent(b) \in ExRec /\ Extends(Sent(b), b)
    BY <1>1, <1>3, SentMore
  <2>2. ex' \in ExRec /\ ex'.frame = data
    BY <1>2, <1>6, <2>1 DEF ExRec
  <2>3. /\ ex'.sent = Sent(b).sent /\ ex'.step = Sent(b).step /\ ex'.there = Sent(b).there
        /\ ex'.flag = Sent(b).flag
    BY <1>2, <2>1 DEF ExRec
  <2>4. QED  BY <2>1, <2>2, <2>3 DEF Extends
<1>8. /\ IsCard(ex') /\ Len(ex'.sent) = 7 /\ ex'.sent[7] = b
      /\ \A i \in 1 .. 6 : ex'.sent[i] = ex.sent[i]
      /\ Answer(ex') = CardAnswer(ex', 7)
      /\ Command(ex') = Command(ex) /\ Command(ex) \in {CmdRead, CmdWrite}
      /\ Length(ex') = Length(ex) /\ Task(ex') = sio.rdwr
      /\ Command(ex) = CmdRead => sio.rdwr = 1 /\ Length(ex) = ReadLen
      /\ Command(ex) = CmdWrite => sio.rdwr = 2 /\ Length(ex) = WriteLen
  BY <1>2, <1>4, <1>7, CardSent
<1>9. ex'.sent[5] = ex.sent[5] /\ ex'.sent[6] = ex.sent[6]
  BY <1>8
<1>10. QED  BY <1>1, <1>3, <1>4, <1>5, <1>7, <1>8, <1>9 DEF data

(* The card has its address and prepares its reply, or the end of it.      *)
LEMMA CardAnswersKeeps ==
  ASSUME NEW b, Sending(b), sio.padst = 0, CardAnswers(b), posted' = TRUE, UNCHANGED padVars
  PROVE  SendKept
<1> DEFINE data == card[sio.port][Frame]
           reads == <<92, 93>> \o <<sio.adrH, sio.adrL>> \o data
                      \o <<Checksum(<<sio.adrH, sio.adrL>> \o data), 71>>
           echoes == Put(sio.buf, 0, <<sio.adrL, b>>)
           done == <<92, 93, 71>>
           buf == IF sio.rdwr = 1 THEN Put(sio.buf, 0, reads) ELSE Put(echoes, FrameLen + 1, done)
           count == FrameLen + IF sio.rdwr = 1 THEN 5 ELSE 3
<1>1. /\ b \in Byte /\ sio \in SioRec /\ sio.port \in Slots
      /\ Extends(ex', b) /\ IsCard(ex') /\ WithCard(sio, ex) /\ sio.rx
      /\ Len(ex.sent) = 6 /\ Len(ex'.sent) = 7 /\ ex'.sent[7] = b
      /\ ex'.sent[5] = sio.adrH /\ ex'.sent[6] = sio.adrL /\ ex'.sent[6] \in Frames
      /\ ex'.frame = data /\ ex'.frame \in [1 .. FrameLen -> Byte]
      /\ Answer(ex') = CardAnswer(ex', 7)
      /\ Command(ex') \in {CmdRead, CmdWrite} /\ Task(ex') = sio.rdwr
      /\ Command(ex') = CmdRead => sio.rdwr = 1 /\ Length(ex') = ReadLen
      /\ Command(ex') = CmdWrite => sio.rdwr = 2 /\ Length(ex') = WriteLen
  BY CardAnswersIs
<1>2. sio' = [sio EXCEPT !.parp = 0, !.buf = buf, !.bufcount = count, !.mcdst = 5]
  BY DEF CardAnswers
<1>3. sio.mcdst # 0
  BY DEF CardAnswers
<1>15. sio.buf \in [0 .. FrameLen + 8 -> Values] /\ sio.adrH \in Byte /\ sio.adrL \in Byte
  BY <1>1 DEF SioRec
<1>4. Byte \subseteq Values /\ 92 \in Byte /\ 93 \in Byte /\ 71 \in Byte
  BY DEF Byte, Values
<1> HIDE DEF data, buf, count
<1>5. ASSUME Command(ex') = CmdRead
      PROVE  /\ buf \in [0 .. FrameLen + 8 -> Values] /\ count = FrameLen + 5
             /\ \A i \in 0 .. FrameLen + 5 : buf[i] = Reply(ex')[i + 1]
             /\ Answer(ex') = buf[0]
  <2>1. sio.rdwr = 1
    BY <1>1, <1>5
  <2>2. /\ Reply(ex') = reads /\ Reply(ex') \in Seq(Values) /\ Len(Reply(ex')) = FrameLen + 6
    <3>1. sio.adrH \in Byte /\ sio.adrL \in Byte /\ data \in [1 .. FrameLen -> Byte]
      BY <1>1, <1>15
    <3>2. ex'.sent[5] = sio.adrH /\ ex'.sent[6] = sio.adrL /\ ex'.frame = data
      BY <1>1
    <3>3. ReplyIsOf(ex', sio.adrH, sio.adrL, data)
      BY <3>1, <3>2, ReplyIs
    <3>4. QED  BY <3>3 DEF ReplyIsOf
  <2> HIDE DEF reads
  <2>3. buf = Put(sio.buf, 0, Reply(ex')) /\ count = FrameLen + 5
    BY <2>1, <2>2 DEF buf, count
  <2> DEFINE t == Reply(ex')
  <2> HIDE DEF t
  <2>4. /\ Put(sio.buf, 0, t) \in [0 .. FrameLen + 8 -> Values]
        /\ \A i \in 0 .. FrameLen + 8 :
             i \in 0 .. 0 + Len(t) - 1 => Put(sio.buf, 0, t)[i] = t[i - 0 + 1]
    <3>1. t \in Seq(Values) /\ 0 \in Nat
      BY <2>2 DEF t
    <3>2. PutIsOf(sio.buf, 0, t)
      BY <1>15, <3>1, PutIs
    <3>3. QED  BY <3>2 DEF PutIsOf
  <2>5. \A i \in 0 .. FrameLen + 5 : /\ i \in 0 .. FrameLen + 8 /\ i \in 0 .. 0 + (FrameLen + 6) - 1
                                     /\ i - 0 + 1 = i + 1
    BY SioAssumption
  <2>6. Len(t) = FrameLen + 6
    BY <2>2 DEF t
  <2>7. buf \in [0 .. FrameLen + 8 -> Values] /\ \A i \in 0 .. FrameLen + 5 : buf[i] = t[i + 1]
    BY <2>3, <2>4, <2>5, <2>6 DEF t
  <2>8. Answer(ex') = t[1]
    <3>1. CardAnswer(ex', 7) = Reply(ex')[7 - 6]
      <4>1. 7 \in Nat \ {0} /\ 7 > 6 /\ ex' \in ExRec
        BY <1>1 DEF Extends
      <4>2. QED  BY <1>5, <4>1, CardAnswerIs
    <3>2. QED  BY <1>1, <3>1 DEF t
  <2>9. buf[0] = t[1]
    <3>1. 0 \in 0 .. FrameLen + 5 /\ 0 + 1 = 1
      BY SioAssumption
    <3>2. QED  BY <2>7, <3>1
  <2>10. QED  BY <2>3, <2>7, <2>8, <2>9 DEF t
<1>6. ASSUME Command(ex') = CmdWrite
      PROVE  /\ buf \in [0 .. FrameLen + 8 -> Values] /\ count = FrameLen + 3
             /\ buf[0] = sio.adrL /\ buf[1] = b
             /\ buf[FrameLen + 1] = 92 /\ buf[FrameLen + 2] = 93 /\ buf[FrameLen + 3] = 71
             /\ Answer(ex') = buf[0]
  <2>1. sio.rdwr = 2
    BY <1>1, <1>6
  <2>2. buf = Put(echoes, FrameLen + 1, done) /\ count = FrameLen + 3
    BY <2>1 DEF buf, count
  <2> DEFINE two == <<sio.adrL, b>>
  <2>3. two \in Seq(Values) /\ Len(two) = 2 /\ two[1] = sio.adrL /\ two[2] = b
    BY <1>1, <1>4, <1>15
  <2>4. done \in Seq(Values) /\ Len(done) = 3 /\ done[1] = 92 /\ done[2] = 93 /\ done[3] = 71
    BY <1>4
  <2>5. echoes = Put(sio.buf, 0, two)
    OBVIOUS
  <2> HIDE DEF two, done, echoes
  <2>6. /\ echoes \in [0 .. FrameLen + 8 -> Values]
        /\ echoes[0] = sio.adrL /\ echoes[1] = b
    <3>1. 0 \in Nat /\ two \in Seq(Values)
      BY <2>3
    <3>2. /\ echoes \in [0 .. FrameLen + 8 -> Values]
          /\ \A i \in 0 .. FrameLen + 8 : i \in 0 .. 0 + Len(two) - 1 => echoes[i] = two[i - 0 + 1]
      <4>1. PutIsOf(sio.buf, 0, two)
        BY <1>15, <3>1, PutIs
      <4>2. QED  BY <2>5, <4>1 DEF PutIsOf
    <3>3. 0 \in 0 .. FrameLen + 8 /\ 1 \in 0 .. FrameLen + 8
      BY SioAssumption
    <3>4. QED  BY <2>3, <3>2, <3>3
  <2>7. FrameLen + 1 \in Nat /\ FrameLen \in Nat /\ FrameLen >= 2
    BY SioAssumption
  <2>8. /\ buf \in [0 .. FrameLen + 8 -> Values]
        /\ \A i \in 0 .. FrameLen + 8 :
             /\ i \in FrameLen + 1 .. FrameLen + 1 + Len(done) - 1 =>
                  buf[i] = done[i - (FrameLen + 1) + 1]
             /\ i \notin FrameLen + 1 .. FrameLen + 1 + Len(done) - 1 => buf[i] = echoes[i]
    <3>1. done \in Seq(Values)
      BY <2>4
    <3>2. echoes \in [0 .. FrameLen + 8 -> Values]
      BY <2>6
    <3>3. FrameLen + 1 \in Nat /\ buf = Put(echoes, FrameLen + 1, done)
      BY <2>2, <2>7
    <3>4. PutIsOf(echoes, FrameLen + 1, done)
      BY <3>1, <3>2, <3>3, PutIs
    <3>5. QED  BY <3>3, <3>4 DEF PutIsOf
  <2>9. buf[0] = echoes[0] /\ buf[1] = echoes[1]
    <3>1. \A i \in {0, 1} : i \in 0 .. FrameLen + 8 /\ i \notin FrameLen + 1 .. FrameLen + 1 + 3 - 1
      BY <2>7
    <3>2. QED  BY <2>4, <2>8, <3>1
  <2>10. \A k \in 1 .. 3 : buf[FrameLen + k] = done[k]
    <3>1. \A k \in 1 .. 3 : /\ FrameLen + k \in 0 .. FrameLen + 8
                            /\ FrameLen + k \in FrameLen + 1 .. FrameLen + 1 + 3 - 1
                            /\ (FrameLen + k) - (FrameLen + 1) + 1 = k
      BY <2>7
    <3>2. QED  BY <2>4, <2>8, <3>1
  <2>11. Answer(ex') = ex'.sent[6]
    <3>1. 7 \in Nat \ {0} /\ ex' \in ExRec
      BY <1>1 DEF Extends
    <3>2. CardAnswer(ex', 7) = ex'.sent[6]
      BY <1>6, <3>1, CardAnswerIs
    <3>3. QED  BY <1>1, <3>2
  <2>12. QED  BY <1>1, <2>2, <2>4, <2>6, <2>8, <2>9, <2>10, <2>11
<1>7. /\ buf \in [0 .. FrameLen + 8 -> Values] /\ count \in 0 .. FrameLen + 8
      /\ count = Length(ex') - 7 /\ Answer(ex') = buf[0] /\ 0 \in 0 .. FrameLen + 8
      /\ 7 \in 7 .. Length(ex') /\ ~(7 = Length(ex')) /\ 7 <= ReadLen
  <2> DEFINE L == Length(ex')
  <2>1. FrameLen \in Nat /\ FrameLen >= 2
    BY SioAssumption
  <2>2. buf \in [0 .. FrameLen + 8 -> Values] /\ Answer(ex') = buf[0]
    BY <1>1, <1>5, <1>6
  <2>3. \/ L = FrameLen + 12 /\ count = FrameLen + 5
        \/ L = FrameLen + 10 /\ count = FrameLen + 3
    BY <1>1, <1>5, <1>6 DEF ReadLen, WriteLen
  <2> HIDE DEF L
  <2>4. /\ count \in 0 .. FrameLen + 8 /\ count = L - 7 /\ 0 \in 0 .. FrameLen + 8
        /\ 7 \in 7 .. L /\ ~(7 = L) /\ 7 <= ReadLen
    BY <2>1, <2>3 DEF ReadLen
  <2>5. QED  BY <2>2, <2>4 DEF L
<1>8. sio' \in SioRec
  BY <1>1, <1>2, <1>7, 5 \in 0 .. 5 DEF SioRec
<1>9. /\ sio'.parp = 0 /\ sio'.bufcount = count /\ sio'.mcdst = 5 /\ sio'.padst = 0 /\ sio'.rx
      /\ sio'.buf = buf /\ sio'.adrH = sio.adrH /\ sio'.adrL = sio.adrL /\ sio'.rdwr = sio.rdwr
      /\ sio'.dtr = sio.dtr /\ sio'.port = sio.port /\ sio'.irq = sio.irq
  BY <1>1, <1>2 DEF SioRec
<1>10. Addressed(sio', ex')
  <2>1. sio.adrH = 0
    <3>1. PortTypes /\ Len(ex.sent) >= 6
      BY <1>1 DEF Sending
    <3>2. QED  BY <1>1, <3>1, FrameIs
  <2>2. QED  BY <1>1, <1>9, <2>1 DEF Addressed
<1>11. Body(sio', ex')
  <2>1. sio'.rdwr = 1 => Command(ex') = CmdRead
    BY <1>1, <1>9
  <2>2. sio'.rdwr = 2 => Command(ex') = CmdWrite
    BY <1>1, <1>9
  <2>3. sio'.rdwr = 1 => \A i \in 0 .. FrameLen + 5 : sio'.buf[i] = Reply(ex')[i + 1]
    BY <1>5, <1>9, <2>1
  <2>4. sio'.rdwr = 2 =>
          /\ sio'.buf[0] = sio'.adrL
          /\ sio'.buf[FrameLen + 1] = 92 /\ sio'.buf[FrameLen + 2] = 93 /\ sio'.buf[FrameLen + 3] = 71
    BY <1>6, <1>9, <2>2
  <2>5. sio'.rdwr = 2 =>
          \A i \in 1 .. FrameLen : i <= Len(ex'.sent) - 6 => sio'.buf[i] = ex'.sent[6 + i]
    <3> SUFFICES ASSUME sio'.rdwr = 2, NEW i \in 1 .. FrameLen, i <= Len(ex'.sent) - 6
                 PROVE  sio'.buf[i] = ex'.sent[6 + i]
      OBVIOUS
    <3>1. i = 1
      BY <1>1
    <3>2. QED  BY <1>1, <1>6, <1>9, <2>2, <3>1
  <2>6. /\ Len(ex'.sent) \in 7 .. Length(ex') /\ ~(Len(ex'.sent) = Length(ex'))
        /\ sio'.parp = Len(ex'.sent) - 7 /\ sio'.bufcount = Length(ex') - 7
    BY <1>1, <1>7, <1>9
  <2>7. QED  BY <1>9, <2>3, <2>4, <2>5, <2>6 DEF Body
<1>12. WithCard(sio', ex')
  BY <1>1, <1>9, <1>10, <1>11 DEF WithCard
<1>13. Len(ex'.sent) <= ReadLen
  BY <1>1, <1>7
<1>14. QED  BY <1>1, <1>3, <1>7, <1>8, <1>9, <1>12, <1>13, CardKeeps

(* What is known before a byte of data.                                    *)
LEMMA CardDataIs ==
  ASSUME NEW b, Sending(b), CardData(b)
  PROVE  /\ b \in Byte /\ sio \in SioRec /\ sio.port \in Slots
         /\ Extends(ex', b) /\ IsCard(ex') /\ WithCard(sio, ex) /\ sio.rx
         /\ sio.parp = Len(ex.sent) - 7 /\ sio.bufcount = Length(ex) - 7
         /\ Len(ex.sent) \in 7 .. Length(ex) /\ Len(ex.sent) < Length(ex)
         /\ Len(ex'.sent) = Len(ex.sent) + 1
         /\ \A i \in 1 .. Len(ex.sent) : ex'.sent[i] = ex.sent[i]
         /\ ex'.sent[Len(ex.sent) + 1] = b /\ ex'.frame = ex.frame
         /\ sio.adrH = 0 /\ ex.sent[5] = 0 /\ ex.sent[6] = sio.adrL /\ ex.sent[6] \in Frames
         /\ Answer(ex') = CardAnswer(ex', Len(ex.sent) + 1)
         /\ Command(ex') \in {CmdRead, CmdWrite} /\ Task(ex') = sio.rdwr
         /\ Length(ex') = Length(ex)
         /\ Command(ex') = CmdRead => sio.rdwr = 1 /\ Length(ex) = ReadLen
         /\ Command(ex') = CmdWrite => sio.rdwr = 2 /\ Length(ex) = WriteLen
         /\ sio.rdwr = 1 => \A i \in 0 .. FrameLen + 5 : sio.buf[i] = Reply(ex)[i + 1]
         /\ sio.rdwr = 2 =>
              /\ sio.buf[0] = sio.adrL
              /\ \A i \in 1 .. FrameLen : i <= Len(ex.sent) - 6 => sio.buf[i] = ex.sent[6 + i]
              /\ sio.buf[FrameLen + 1] = 92 /\ sio.buf[FrameLen + 2] = 93
              /\ sio.buf[FrameLen + 3] = 71
<1>1. b \in Byte /\ sio.port \in Slots /\ sio \in SioRec /\ ex \in ExRec /\ PortTypes
  BY WhereIs DEF Sending, PortTypes
<1>2. sio.mcdst = 5 /\ sio.mcdst # 0 /\ ex' = Sent(b)
  BY DEF CardData
<1>3. ~Over(ex) /\ WithCard(sio, ex)
  <2>1. WithPad(sio, ex) => sio.mcdst = 0
    BY DEF WithPad
  <2>2. QED  BY <1>2, <2>1, WhereIs
<1>4. Body(sio, ex) /\ sio.rx
  BY <1>2, <1>3 DEF WithCard, Heads, Address
<1>5. Extends(ex', b) /\ ex'.frame = ex.frame
  BY <1>1, <1>2, <1>3, SentMore
<1> DEFINE n == Len(ex.sent)
           L == Length(ex)
<1>6. n \in 7 .. L /\ (n = L => ex.step = "wait") /\ ex.step = "ready" /\ L \in Nat
  BY <1>1, <1>4, LengthIs DEF Body, Sending
<1> HIDE DEF n, L
<1>7. n < L /\ n > 1 /\ n >= 6 /\ n \in Nat
  BY <1>6
<1>8. /\ IsCard(ex') /\ Len(ex'.sent) = n + 1 /\ ex'.sent[n + 1] = b
      /\ \A i \in 1 .. n : ex'.sent[i] = ex.sent[i]
      /\ Answer(ex') = CardAnswer(ex', n + 1)
      /\ Command(ex') = Command(ex) /\ Command(ex) \in {CmdRead, CmdWrite}
      /\ Length(ex') = Length(ex) /\ Task(ex') = sio.rdwr
      /\ Command(ex) = CmdRead => sio.rdwr = 1 /\ Length(ex) = ReadLen
      /\ Command(ex) = CmdWrite => sio.rdwr = 2 /\ Length(ex) = WriteLen
  BY <1>2, <1>5, <1>7, CardSent DEF n
<1>9. /\ sio.adrH = 0 /\ ex.sent[5] = 0 /\ sio.adrL = ex.sent[6] /\ ex.sent[6] \in Frames
  <2>1. Len(ex.sent) >= 6
    BY <1>7 DEF n
  <2>2. Frame = ex.sent[6] /\ Frame \in Frames
    BY <1>1, <1>3, <2>1, FrameIs
  <2>3. QED  BY <1>1, <1>3, <2>1, <2>2, FrameIs
<1>10. /\ sio.parp = n - 7 /\ sio.bufcount = L - 7
       /\ sio.rdwr = 1 => \A i \in 0 .. FrameLen + 5 : sio.buf[i] = Reply(ex)[i + 1]
       /\ sio.rdwr = 2 =>
            /\ sio.buf[0] = sio.adrL
            /\ \A i \in 1 .. FrameLen : i <= n - 6 => sio.buf[i] = ex.sent[6 + i]
            /\ sio.buf[FrameLen + 1] = 92 /\ sio.buf[FrameLen + 2] = 93
            /\ sio.buf[FrameLen + 3] = 71
  BY <1>4 DEF Body, n, L
<1>11. QED  BY <1>1, <1>3, <1>4, <1>5, <1>6, <1>7, <1>8, <1>9, <1>10 DEF n, L

(* What the bytes of a write become in the buffer.                         *)
EchoIsOf(new, buf, at, b) ==
  /\ new \in [0 .. FrameLen + 8 -> Values]
  /\ at < FrameLen => new[at + 1] = b
  /\ \A i \in 0 .. at : new[i] = buf[i]
  /\ \A i \in FrameLen + 1 .. FrameLen + 3 : new[i] = buf[i]
  /\ at >= FrameLen => new = buf

(* A byte of data is put into the buffer where it is read back.            *)
LEMMA EchoIs ==
  ASSUME NEW buf \in [0 .. FrameLen + 8 -> Values], NEW at \in 1 .. FrameLen + 3, NEW b \in Byte,
         NEW new, new = IF at < FrameLen THEN Put(buf, at + 1, <<b>>) ELSE buf
  PROVE  EchoIsOf(new, buf, at, b)
<1>1. FrameLen \in Nat /\ FrameLen >= 2
  BY SioAssumption
<1>2. CASE at < FrameLen
  <2> DEFINE one == <<b>>
  <2>1. one \in Seq(Values) /\ Len(one) = 1 /\ one[1] = b
    <3>1. b \in Values
      BY DEF Values
    <3>2. QED  BY <3>1
  <2> HIDE DEF one
  <2>2. at + 1 \in Nat /\ new = Put(buf, at + 1, one)
    BY <1>2 DEF one
  <2>3. PutIsOf(buf, at + 1, one)
    BY <2>1, <2>2, PutIs
  <2>4. /\ new \in [0 .. FrameLen + 8 -> Values]
        /\ \A i \in 0 .. FrameLen + 8 :
             /\ i \in at + 1 .. at + 1 + 1 - 1 => new[i] = one[i - (at + 1) + 1]
             /\ i \notin at + 1 .. at + 1 + 1 - 1 => new[i] = buf[i]
    BY <2>1, <2>2, <2>3 DEF PutIsOf
  <2>5. new[at + 1] = b
    <3>1. /\ at + 1 \in 0 .. FrameLen + 8 /\ at + 1 \in at + 1 .. at + 1 + 1 - 1
          /\ at + 1 - (at + 1) + 1 = 1
      BY <1>1, <1>2
    <3>2. QED  BY <2>1, <2>4, <3>1
  <2>6. \A i \in 0 .. at : new[i] = buf[i]
    <3>1. \A i \in 0 .. at : i \in 0 .. FrameLen + 8 /\ i \notin at + 1 .. at + 1 + 1 - 1
      BY <1>1
    <3>2. QED  BY <2>4, <3>1
  <2>7. \A i \in FrameLen + 1 .. FrameLen + 3 : new[i] = buf[i]
    <3>1. \A i \in FrameLen + 1 .. FrameLen + 3 :
            i \in 0 .. FrameLen + 8 /\ i \notin at + 1 .. at + 1 + 1 - 1
      BY <1>1, <1>2
    <3>2. QED  BY <2>4, <3>1
  <2>8. ~(at >= FrameLen)
    BY <1>1, <1>2
  <2>9. QED  BY <2>4, <2>5, <2>6, <2>7, <2>8 DEF EchoIsOf
<1>3. CASE ~(at < FrameLen)
  <2>1. new = buf
    BY <1>3
  <2>2. QED  BY <1>3, <2>1 DEF EchoIsOf
<1>4. QED  BY <1>2, <1>3

(* A byte of data to a card.                                               *)
LEMMA CardDataKeeps ==
  ASSUME NEW b, Sending(b), sio.padst = 0, CardData(b), posted' = TRUE, UNCHANGED padVars
  PROVE  SendKept
<1> DEFINE n == Len(ex.sent)
           L == Length(ex)
           at == n - 6
           buf == IF sio.rdwr = 2 /\ at < FrameLen THEN Put(sio.buf, at + 1, <<b>>) ELSE sio.buf
<1>1. /\ b \in Byte /\ sio \in SioRec /\ sio.port \in Slots
      /\ Extends(ex', b) /\ IsCard(ex') /\ sio.rx
      /\ sio.parp = n - 7 /\ sio.bufcount = L - 7
      /\ n \in 7 .. L /\ n < L /\ Len(ex'.sent) = n + 1
      /\ \A i \in 1 .. n : ex'.sent[i] = ex.sent[i]
      /\ ex'.sent[n + 1] = b /\ ex'.frame = ex.frame
      /\ sio.adrH = 0 /\ ex.sent[5] = 0 /\ ex.sent[6] = sio.adrL /\ ex.sent[6] \in Frames
      /\ Answer(ex') = CardAnswer(ex', n + 1)
      /\ Command(ex') \in {CmdRead, CmdWrite} /\ Task(ex') = sio.rdwr /\ Length(ex') = L
      /\ Command(ex') = CmdRead => sio.rdwr = 1 /\ L = ReadLen
      /\ Command(ex') = CmdWrite => sio.rdwr = 2 /\ L = WriteLen
      /\ sio.rdwr = 1 => \A i \in 0 .. FrameLen + 5 : sio.buf[i] = Reply(ex)[i + 1]
      /\ sio.rdwr = 2 =>
           /\ sio.buf[0] = sio.adrL
           /\ \A i \in 1 .. FrameLen : i <= n - 6 => sio.buf[i] = ex.sent[6 + i]
           /\ sio.buf[FrameLen + 1] = 92 /\ sio.buf[FrameLen + 2] = 93
           /\ sio.buf[FrameLen + 3] = 71
  BY CardDataIs
<1>2. sio.mcdst = 5 /\ sio.mcdst # 0
  BY DEF CardData
<1>3. sio' = [sio EXCEPT !.parp = at, !.buf = buf]
  <2>1. sio.parp + 1 = at
    BY <1>1
  <2>2. sio' = [sio EXCEPT !.parp = sio.parp + 1,
                  !.buf = IF sio.rdwr = 2 /\ sio.parp + 1 < FrameLen
                          THEN Put(sio.buf, sio.parp + 1 + 1, <<b>>) ELSE sio.buf]
    BY DEF CardData
  <2> HIDE DEF at
  <2>3. QED  BY <2>1, <2>2
<1>4. ex' \in ExRec /\ n + 1 \in Nat \ {0}
  <2>1. ex' \in ExRec
    BY <1>1 DEF Extends
  <2>2. QED  BY <1>1, <2>1
<1>5. sio.buf \in [0 .. FrameLen + 8 -> Values]
  BY <1>1 DEF SioRec
<1> HIDE DEF n, L
<1>6. FrameLen \in Nat /\ FrameLen >= 2
  BY SioAssumption
<1>7. ex'.sent[5] = ex.sent[5] /\ ex'.sent[6] = ex.sent[6]
  <2>1. 5 \in 1 .. n /\ 6 \in 1 .. n
    BY <1>1
  <2>2. QED  BY <1>1, <2>1
<1> HIDE DEF at, buf
<1>8. ASSUME Command(ex') = CmdRead
      PROVE  /\ buf = sio.buf /\ L = FrameLen + 12
             /\ \A i \in 0 .. FrameLen + 5 : buf[i] = Reply(ex')[i + 1]
             /\ Answer(ex') = buf[at]
  <2>1. sio.rdwr = 1 /\ L = FrameLen + 12
    BY <1>1, <1>8 DEF ReadLen
  <2>2. buf = sio.buf
    BY <2>1 DEF buf
  <2>3. Reply(ex') = Reply(ex)
    BY <1>1, <1>7 DEF Reply
  <2>4. n + 1 > 6 /\ (n + 1) - 6 = at + 1 /\ at \in 0 .. FrameLen + 5
    BY <1>1, <1>6, <2>1 DEF at
  <2>5. CardAnswer(ex', n + 1) = Reply(ex')[(n + 1) - 6]
    <3> DEFINE m == n + 1
    <3>1. m \in Nat \ {0} /\ m > 6
      BY <1>4, <2>4
    <3> HIDE DEF m
    <3>2. CardAnswer(ex', m) = Reply(ex')[m - 6]
      BY <1>4, <1>8, <3>1, CardAnswerIs
    <3>3. QED  BY <3>2 DEF m
  <2>6. Answer(ex') = Reply(ex)[at + 1]
    BY <1>1, <2>3, <2>4, <2>5
  <2>7. QED  BY <1>1, <2>1, <2>2, <2>3, <2>4, <2>6
<1>9. ASSUME Command(ex') = CmdWrite
      PROVE  /\ buf \in [0 .. FrameLen + 8 -> Values] /\ L = FrameLen + 10
             /\ buf[0] = sio.adrL
             /\ \A i \in 1 .. FrameLen : i <= n + 1 - 6 => buf[i] = ex'.sent[6 + i]
             /\ buf[FrameLen + 1] = 92 /\ buf[FrameLen + 2] = 93 /\ buf[FrameLen + 3] = 71
             /\ Answer(ex') = buf[at]
  <2>1. sio.rdwr = 2 /\ L = FrameLen + 10
    BY <1>1, <1>9 DEF WriteLen
  <2>2. buf = IF at < FrameLen THEN Put(sio.buf, at + 1, <<b>>) ELSE sio.buf
    BY <2>1 DEF buf
  <2>3. at \in 1 .. FrameLen + 3 /\ n = at + 6
    <3>1. n \in 7 .. L /\ n < L
      BY <1>1
    <3>2. QED  BY <1>6, <2>1, <3>1 DEF at
  <2>4. /\ buf \in [0 .. FrameLen + 8 -> Values]
        /\ at < FrameLen => buf[at + 1] = b
        /\ \A i \in 0 .. at : buf[i] = sio.buf[i]
        /\ \A i \in FrameLen + 1 .. FrameLen + 3 : buf[i] = sio.buf[i]
        /\ at >= FrameLen => buf = sio.buf
    <3>1. b \in Byte
      BY <1>1
    <3>2. EchoIsOf(buf, sio.buf, at, b)
      BY <1>5, <2>2, <2>3, <3>1, EchoIs
    <3>3. QED  BY <3>2 DEF EchoIsOf
  <2>5. buf[0] = sio.adrL
    BY <1>1, <2>1, <2>3, <2>4
  <2>6. buf[FrameLen + 1] = 92 /\ buf[FrameLen + 2] = 93 /\ buf[FrameLen + 3] = 71
    <3>1. /\ FrameLen + 1 \in FrameLen + 1 .. FrameLen + 3
          /\ FrameLen + 2 \in FrameLen + 1 .. FrameLen + 3
          /\ FrameLen + 3 \in FrameLen + 1 .. FrameLen + 3
      BY <1>6
    <3>2. /\ sio.buf[FrameLen + 1] = 92 /\ sio.buf[FrameLen + 2] = 93
          /\ sio.buf[FrameLen + 3] = 71
      BY <1>1, <2>1
    <3>3. QED  BY <2>4, <3>1, <3>2
  <2>7. ASSUME NEW i \in 1 .. FrameLen, i <= at
        PROVE  buf[i] = ex'.sent[6 + i]
    <3>1. i \in 0 .. at /\ i <= n - 6 /\ 6 + i \in 1 .. n
      BY <1>6, <2>3, <2>7
    <3>2. buf[i] = sio.buf[i] /\ sio.buf[i] = ex.sent[6 + i]
      BY <1>1, <2>1, <2>4, <3>1
    <3>3. QED  BY <1>1, <3>1, <3>2
  <2>8. ASSUME NEW i \in 1 .. FrameLen, i <= n + 1 - 6
        PROVE  buf[i] = ex'.sent[6 + i]
    <3>1. CASE i <= at
      BY <2>7, <3>1
    <3>2. CASE ~(i <= at)
      <4>1. i = at + 1 /\ at < FrameLen /\ 6 + i = n + 1
        BY <1>6, <2>3, <2>8, <3>2
      <4>2. QED  BY <1>1, <2>4, <4>1
    <3>3. QED  BY <3>1, <3>2
  <2>9. Answer(ex') = buf[at]
    <3>1. CASE at <= FrameLen
      <4>1. n + 1 \in 8 .. 7 + FrameLen /\ (n + 1) - 1 = 6 + at /\ at \in 1 .. FrameLen
        BY <1>6, <2>3, <3>1
      <4>2. CardAnswer(ex', n + 1) = ex'.sent[6 + at]
        <5> DEFINE m == n + 1
        <5>1. m \in Nat \ {0} /\ m \in 8 .. 7 + FrameLen
          BY <1>4, <4>1
        <5> HIDE DEF m
        <5>2. CardAnswer(ex', m) = ex'.sent[m - 1]
          BY <1>4, <1>9, <5>1, CardAnswerIs
        <5>3. QED  BY <4>1, <5>2 DEF m
      <4>3. buf[at] = ex'.sent[6 + at]
        BY <2>7, <4>1
      <4>4. QED  BY <1>1, <4>2, <4>3
    <3>2. CASE at > FrameLen
      <4>1. \/ at = FrameLen + 1 /\ n + 1 = FrameLen + 8
            \/ at = FrameLen + 2 /\ n + 1 = FrameLen + 9
            \/ at = FrameLen + 3 /\ n + 1 = FrameLen + 10
        BY <1>6, <2>3, <3>2
      <4>2. /\ n + 1 = FrameLen + 8 => CardAnswer(ex', n + 1) = 92
            /\ n + 1 = FrameLen + 9 => CardAnswer(ex', n + 1) = 93
            /\ n + 1 = FrameLen + 10 => CardAnswer(ex', n + 1) = 71
        BY <1>4, <1>9, CardAnswerIs
      <4>3. QED  BY <1>1, <2>6, <4>1, <4>2
    <3>3. QED  BY <1>6, <2>3, <3>1, <3>2
  <2>10. QED  BY <2>1, <2>4, <2>5, <2>6, <2>8, <2>9
<1>10. /\ buf \in [0 .. FrameLen + 8 -> Values] /\ at \in 0 .. FrameLen + 8
       /\ Answer(ex') = buf[at] /\ n + 1 <= ReadLen /\ n + 1 - 7 = at /\ n + 1 \in 7 .. L
  <2>1. buf \in [0 .. FrameLen + 8 -> Values] /\ Answer(ex') = buf[at]
    BY <1>1, <1>5, <1>8, <1>9
  <2>2. L \in {FrameLen + 10, FrameLen + 12}
    BY <1>1, <1>8, <1>9
  <2>3. /\ at \in 0 .. FrameLen + 8 /\ n + 1 <= ReadLen /\ n + 1 - 7 = at /\ n + 1 \in 7 .. L
    <3>1. n \in 7 .. L /\ n < L
      BY <1>1
    <3>2. QED  BY <1>6, <2>2, <3>1 DEF at, ReadLen
  <2>4. QED  BY <2>1, <2>3
<1>11. sio' \in SioRec
  BY <1>1, <1>3, <1>10 DEF SioRec
<1>12. /\ sio'.parp = at /\ sio'.bufcount = L - 7 /\ sio'.mcdst = 5 /\ sio'.padst = 0 /\ sio'.rx
       /\ sio'.buf = buf /\ sio'.adrH = sio.adrH /\ sio'.adrL = sio.adrL /\ sio'.rdwr = sio.rdwr
       /\ sio'.dtr = sio.dtr /\ sio'.port = sio.port /\ sio'.irq = sio.irq
  BY <1>1, <1>2, <1>3 DEF SioRec
<1>13. ex'.step = "wait"
  BY <1>1 DEF Extends
<1>14. Body(sio', ex')
  <2>1. sio'.rdwr = 1 => Command(ex') = CmdRead
    BY <1>1, <1>12
  <2>2. sio'.rdwr = 2 => Command(ex') = CmdWrite
    BY <1>1, <1>12
  <2>3. sio'.rdwr = 1 => \A i \in 0 .. FrameLen + 5 : sio'.buf[i] = Reply(ex')[i + 1]
    BY <1>8, <1>12, <2>1
  <2>4. sio'.rdwr = 2 =>
          /\ sio'.buf[0] = sio'.adrL
          /\ \A i \in 1 .. FrameLen : i <= Len(ex'.sent) - 6 => sio'.buf[i] = ex'.sent[6 + i]
          /\ sio'.buf[FrameLen + 1] = 92 /\ sio'.buf[FrameLen + 2] = 93 /\ sio'.buf[FrameLen + 3] = 71
    <3> SUFFICES ASSUME sio'.rdwr = 2
                 PROVE  /\ sio'.buf[0] = sio'.adrL
                        /\ \A i \in 1 .. FrameLen :
                             i <= Len(ex'.sent) - 6 => sio'.buf[i] = ex'.sent[6 + i]
                        /\ sio'.buf[FrameLen + 1] = 92 /\ sio'.buf[FrameLen + 2] = 93
                        /\ sio'.buf[FrameLen + 3] = 71
      OBVIOUS
    <3>1. Len(ex'.sent) - 6 = n + 1 - 6
      <4>1. Len(ex'.sent) = n + 1 /\ n \in 7 .. L
        BY <1>1
      <4>2. QED  BY <4>1
    <3>2. /\ buf[0] = sio.adrL
          /\ \A i \in 1 .. FrameLen : i <= n + 1 - 6 => buf[i] = ex'.sent[6 + i]
          /\ buf[FrameLen + 1] = 92 /\ buf[FrameLen + 2] = 93 /\ buf[FrameLen + 3] = 71
      BY <1>9, <2>2
    <3>3. sio'.buf = buf /\ sio'.adrL = sio.adrL
      BY <1>12
    <3>4. QED  BY <3>1, <3>2, <3>3
  <2>5. /\ Len(ex'.sent) \in 7 .. Length(ex')
        /\ sio'.parp = Len(ex'.sent) - 7 /\ sio'.bufcount = Length(ex') - 7
    BY <1>1, <1>10, <1>12
  <2>6. QED  BY <1>12, <1>13, <2>3, <2>4, <2>5 DEF Body
<1>15. WithCard(sio', ex')
  <2>1. Addressed(sio', ex')
    BY <1>1, <1>7, <1>12 DEF Addressed
  <2>2. QED  BY <1>1, <1>12, <1>14, <2>1 DEF WithCard
<1>16. Len(ex'.sent) <= ReadLen
  BY <1>1, <1>10
<1>17. QED  BY <1>1, <1>2, <1>10, <1>11, <1>12, <1>15, <1>16, CardKeeps

-----------------------------------------------------------------------------
(* What the program reads                                                  *)

(* A read changes nothing in the exchange but its last byte.               *)
LEMMA SameExchange ==
  ASSUME NEW e \in ExRec, NEW got \in Values
  PROVE  LET f == [e EXCEPT !.step = "ready", !.got = got] IN
         /\ f \in ExRec /\ f.sent = e.sent /\ f.step = "ready" /\ f.got = got
         /\ f.len = e.len /\ f.id = e.id /\ f.gone = e.gone /\ f.flag = e.flag
         /\ IsPad(f) = IsPad(e) /\ IsCard(f) = IsCard(e) /\ Command(f) = Command(e)
         /\ Length(f) = Length(e) /\ Over(f) = Over(e) /\ Answer(f) = Answer(e)
         /\ Task(f) = Task(e) /\ Reply(f) = Reply(e)
<1> DEFINE f == [e EXCEPT !.step = "ready", !.got = got]
<1>1. f \in ExRec /\ f.step = "ready" /\ f.got = got
  BY DEF ExRec
<1>2. /\ f.sent = e.sent /\ f.there = e.there /\ f.flag = e.flag /\ f.frame = e.frame
      /\ f.id = e.id /\ f.len = e.len /\ f.gone = e.gone
  BY DEF ExRec
<1> HIDE DEF f
<1>3. IsPad(f) = IsPad(e) /\ IsCard(f) = IsCard(e) /\ Command(f) = Command(e)
  BY <1>2 DEF IsPad, IsCard, Command
<1>4. PadLength(f) = PadLength(e) /\ CardLength(f) = CardLength(e)
  BY <1>2, <1>3 DEF PadLength, CardLength
<1>5. Length(f) = Length(e)
  BY <1>2, <1>3, <1>4 DEF Length
<1>6. Over(f) = Over(e)
  BY <1>2, <1>5 DEF Over
<1>7. Task(f) = Task(e) /\ Reply(f) = Reply(e)
  BY <1>2, <1>3 DEF Task, Reply
<1>8. Answer(f) = Answer(e)
  <2>1. \A n : PadAnswer(f, n) = PadAnswer(e, n)
    BY <1>2, <1>3 DEF PadAnswer
  <2>2. \A n : CardAnswer(f, n) = CardAnswer(e, n)
    BY <1>2, <1>3, <1>7 DEF CardAnswer
  <2>3. QED  BY <1>2, <1>3, <2>1, <2>2 DEF Answer
<1>9. QED  BY <1>1, <1>2, <1>3, <1>5, <1>6, <1>7, <1>8 DEF f

(* A byte is read within an exchange: the last one of an answer is the     *)
(* last of the exchange, or of the heads of a card's answer.               *)
LEMMA LastIs ==
  ASSUME PortTypes, Good(sio, posted, istat, ex), ex.step = "wait"
  PROVE  LET last == sio.rx /\ sio.parp = sio.bufcount IN
         /\ sio.rx
         /\ \/ AtRest(sio, ex)
            \/ WithPad(sio, ex) /\ ~last /\ sio.padst # 0 /\ sio.mcdst = 0
            \/ WithPad(sio, ex) /\ last /\ Over(ex) /\ sio.padst = 2 /\ sio.mcdst = 0
            \/ WithCard(sio, ex) /\ ~last /\ sio.padst = 0 /\ sio.mcdst # 0
               /\ ~(sio.mcdst = 1 /\ Len(ex.sent) = 4) /\ Len(ex.sent) # Length(ex)
            \/ WithCard(sio, ex) /\ last /\ sio.padst = 0 /\ sio.mcdst = 1 /\ Len(ex.sent) = 4
               /\ Len(ex.sent) # Length(ex)
            \/ WithCard(sio, ex) /\ last /\ sio.padst = 0 /\ sio.mcdst = 5 /\ Over(ex)
<1> DEFINE last == sio.rx /\ sio.parp = sio.bufcount
           n == Len(ex.sent)
           L == Length(ex)
<1>1. sio.rx
  BY DEF Good, Answered
<1>2. n \in Nat /\ L \in Nat /\ ex \in ExRec
  BY LengthIs DEF PortTypes
<1>3. CASE WithPad(sio, ex)
  <2>1. /\ sio.mcdst = 0 /\ sio.parp = n - 1
        /\ \/ sio.padst = 1 /\ n = 1 /\ sio.bufcount = 1
           \/ sio.padst = 2 /\ sio.bufcount = n
           \/ sio.padst = 2 /\ Over(ex) /\ sio.bufcount = n - 1
    BY <1>3 DEF WithPad
  <2> HIDE DEF n
  <2>2. \/ sio.padst # 0 /\ sio.parp # sio.bufcount
        \/ sio.padst = 2 /\ Over(ex) /\ sio.parp = sio.bufcount
    BY <1>2, <2>1
  <2>3. QED  BY <1>1, <1>3, <2>1, <2>2
<1>4. CASE WithCard(sio, ex)
  <2>1. sio.padst = 0 /\ (Heads(sio, ex) \/ Address(sio, ex) \/ Body(sio, ex))
    BY <1>4 DEF WithCard
  <2>2. L > 6
    <3>1. L = CardLength(ex) /\ (n > 1 => Command(ex) \in {CmdRead, CmdWrite})
      BY <1>2, <1>4, LengthIs DEF WithCard
    <3>2. L \in {ReadLen, WriteLen}
      BY <3>1 DEF CardLength
    <3>3. QED  BY <3>2, SioAssumption DEF ReadLen, WriteLen
  <2>3. Heads(sio, ex) => /\ sio.mcdst = 1 /\ n \in 1 .. 4 /\ sio.parp = n - 1 /\ sio.bufcount = 3
    BY DEF Heads
  <2>4. Address(sio, ex) => /\ sio.mcdst \in {3, 4} /\ n \in {5, 6} /\ sio.parp = 0
                            /\ sio.bufcount = 1
    BY DEF Address
  <2>5. Body(sio, ex) => /\ sio.mcdst = 5 /\ n \in 7 .. L /\ sio.parp = n - 7 /\ sio.bufcount = L - 7
    BY DEF Body
  <2>6. Over(ex) <=> n = L
    BY DEF Over
  <2> HIDE DEF n, L
  <2>7. CASE Heads(sio, ex)
    <3>1. n \in 1 .. 4 /\ ~(n = L)
      BY <1>2, <2>2, <2>3, <2>7
    <3>2. \/ sio.parp = sio.bufcount /\ n = 4
          \/ ~(sio.parp = sio.bufcount) /\ ~(n = 4)
      BY <2>3, <2>7
    <3>3. QED  BY <1>1, <1>4, <2>1, <2>3, <2>7, <3>1, <3>2 DEF n, L
  <2>8. CASE Address(sio, ex)
    <3>1. ~(n = L) /\ ~(sio.parp = sio.bufcount) /\ sio.mcdst # 0 /\ ~(sio.mcdst = 1)
      BY <1>2, <2>2, <2>4, <2>8
    <3>2. QED  BY <1>1, <1>4, <2>1, <3>1 DEF n, L
  <2>9. CASE Body(sio, ex)
    <3>1. \/ sio.parp = sio.bufcount /\ n = L
          \/ ~(sio.parp = sio.bufcount) /\ ~(n = L)
      BY <1>2, <2>5, <2>9
    <3>2. QED  BY <1>1, <1>4, <2>1, <2>5, <2>6, <2>9, <3>1 DEF n, L
  <2>10. QED  BY <2>1, <2>7, <2>8, <2>9
<1>5. QED  BY <1>1, <1>3, <1>4 DEF Good

(* The exchange after a read of it, as SameExchange says.                  *)
SameBut(f, e) ==
  /\ f \in ExRec /\ f.sent = e.sent /\ f.step = "ready"
  /\ f.len = e.len /\ f.id = e.id /\ f.gone = e.gone /\ f.flag = e.flag
  /\ IsPad(f) = IsPad(e) /\ IsCard(f) = IsCard(e) /\ Command(f) = Command(e)
  /\ Length(f) = Length(e) /\ Over(f) = Over(e) /\ Answer(f) = Answer(e)
  /\ Task(f) = Task(e) /\ Reply(f) = Reply(e)

(* What a read finds and leaves.                                           *)
LEMMA ReadIs ==
  ASSUME PortTypes, Good(sio, posted, istat, ex), Read
  PROVE  /\ ex.step = "wait" /\ sio.dtr /\ sio.rx /\ SameBut(ex', ex) /\ ex'.got = Answer(ex')
<1>1. ex.step = "wait" /\ sio.dtr /\ ex \in ExRec /\ sio \in SioRec
  BY DEF Read, PortTypes
<1>2. sio.rx /\ sio.buf[sio.parp] = Answer(ex)
  BY <1>1 DEF Good, Answered
<1>3. sio.buf[sio.parp] \in Values
  BY <1>1 DEF SioRec
<1> DEFINE got == sio.buf[sio.parp]
<1>4. ex' = [ex EXCEPT !.step = "ready", !.got = got]
  BY <1>2 DEF Read
<1> HIDE DEF got
<1>5. SameBut(ex', ex) /\ ex'.got = got
  BY <1>1, <1>3, <1>4, SameExchange DEF SameBut, got
<1>6. QED  BY <1>1, <1>2, <1>5 DEF SameBut, got

(* A read keeps the port and the exchange in agreement.                    *)
LEMMA ReadKeeps ==
  ASSUME PortTypes, Good(sio, posted, istat, ex), PlugInv, Read
  PROVE  sio' \in SioRec /\ ex' \in ExRec /\ Good(sio', posted', istat', ex') /\ PlugInv'
<1> DEFINE n == Len(ex.sent)
           last == sio.rx /\ sio.parp = sio.bufcount
<1>1. /\ ex.step = "wait" /\ sio.dtr /\ sio.rx /\ SameBut(ex', ex) /\ ex'.got = Answer(ex')
  BY ReadIs
<1>2. /\ sio \in SioRec /\ ex \in ExRec /\ ex' \in ExRec /\ sio.port \in Slots
  BY <1>1 DEF PortTypes, SameBut, Good, Selected
<1>3. /\ sio' = (IF last THEN AfterLast(sio) ELSE sio)
      /\ UNCHANGED <<posted, istat, pads, reqPos, replug>>
  BY DEF Read, padVars
<1>4. /\ sio' \in SioRec
      /\ sio'.dtr = sio.dtr /\ sio'.port = sio.port /\ sio'.irq = sio.irq /\ sio'.parp = sio.parp
      /\ sio'.bufcount = sio.bufcount /\ sio'.buf = sio.buf /\ sio'.rdwr = sio.rdwr
      /\ sio'.adrH = sio.adrH /\ sio'.adrL = sio.adrL
      /\ last => /\ sio'.rx = (sio.mcdst = 1)
                 /\ sio'.mcdst = (IF sio.mcdst = 5 THEN 0 ELSE IF sio.mcdst = 1 THEN 2 ELSE sio.mcdst)
                 /\ sio'.padst = (IF sio.padst = 2 THEN 0 ELSE sio.padst)
      /\ ~last => sio' = sio
  <2>1. CASE ~last
    BY <1>2, <1>3, <2>1
  <2>2. CASE last
    <3> DEFINE m == CASE sio.mcdst = 5 -> 0 [] sio.mcdst = 1 -> 2 [] OTHER -> sio.mcdst
               k == IF sio.padst = 2 THEN 0 ELSE sio.padst
               r == sio.mcdst = 1
    <3>1. sio' = [sio EXCEPT !.rx = r, !.mcdst = m, !.padst = k]
      BY <1>3, <2>2 DEF AfterLast
    <3>2. /\ m = (IF sio.mcdst = 5 THEN 0 ELSE IF sio.mcdst = 1 THEN 2 ELSE sio.mcdst)
          /\ m \in 0 .. 5 /\ k \in 0 .. 2 /\ r \in BOOLEAN
      BY <1>2 DEF SioRec
    <3> HIDE DEF m, k, r
    <3>3. sio' \in SioRec
      BY <1>2, <3>1, <3>2 DEF SioRec
    <3>4. /\ sio'.dtr = sio.dtr /\ sio'.port = sio.port /\ sio'.irq = sio.irq
          /\ sio'.parp = sio.parp /\ sio'.bufcount = sio.bufcount /\ sio'.buf = sio.buf
          /\ sio'.rdwr = sio.rdwr /\ sio'.adrH = sio.adrH /\ sio'.adrL = sio.adrL
          /\ sio'.rx = r /\ sio'.mcdst = m /\ sio'.padst = k
      BY <1>2, <3>1 DEF SioRec
    <3>5. QED  BY <2>2, <3>2, <3>3, <3>4 DEF k, r
  <2>3. QED  BY <2>1, <2>2
<1>5. Answered(sio', ex') /\ Selected(sio', ex')
  BY <1>1, <1>2, <1>4 DEF Answered, Selected, SameBut
<1>6. Wired(sio', posted', istat', ex')
  BY <1>1, <1>3, <1>4 DEF Wired, SameBut, Good
<1>7. Len(ex'.sent) <= ReadLen
  BY <1>1 DEF Good, SameBut
<1> HIDE DEF last
<1>8. /\ AtRest(sio', ex') \/ WithPad(sio', ex') \/ WithCard(sio', ex')
      /\ sio'.padst = sio.padst \/ sio'.padst = 0
  <2>1. CASE AtRest(sio, ex)
    <3>1. sio'.padst = 0 /\ sio'.mcdst = 0
      BY <1>4, <2>1 DEF AtRest
    <3>2. QED  BY <1>1, <2>1, <3>1 DEF AtRest, SameBut
  <2>2. CASE WithPad(sio, ex) /\ ~last /\ sio.padst # 0 /\ sio.mcdst = 0
    <3>0. ~(Over(ex) /\ sio.bufcount = Len(ex.sent) - 1)
      BY <1>1, <2>2 DEF WithPad, last
    <3>1. sio' = sio
      BY <1>4, <2>2
    <3>2. WithPad(sio', ex')
      BY <1>1, <2>2, <3>0, <3>1 DEF WithPad, SameBut
    <3>3. QED  BY <3>1, <3>2
  <2>3. CASE WithPad(sio, ex) /\ last /\ Over(ex) /\ sio.padst = 2 /\ sio.mcdst = 0
    <3>1. sio'.padst = 0 /\ sio'.mcdst = 0
      BY <1>4, <2>3
    <3>2. QED  BY <1>1, <2>3, <3>1 DEF AtRest, SameBut
  <2>4. CASE WithCard(sio, ex) /\ ~last /\ sio.padst = 0 /\ sio.mcdst # 0
             /\ ~(sio.mcdst = 1 /\ Len(ex.sent) = 4) /\ Len(ex.sent) # Length(ex)
    <3>1. sio' = sio
      BY <1>4, <2>4
    <3>2. Heads(sio, ex) => Heads(sio', ex')
      BY <1>1, <2>4, <3>1 DEF Heads, SameBut
    <3>3. Address(sio, ex) => Address(sio', ex')
      BY <1>1, <3>1 DEF Address, SameBut
    <3>4. Body(sio, ex) => Body(sio', ex')
      BY <1>1, <2>4, <3>1 DEF Body, SameBut
    <3>5. Addressed(sio, ex) => Addressed(sio', ex')
      BY <1>1, <3>1 DEF Addressed, SameBut
    <3>6. WithCard(sio', ex')
      BY <1>1, <2>4, <3>1, <3>2, <3>3, <3>4, <3>5 DEF WithCard, SameBut
    <3>7. QED  BY <3>1, <3>6
  <2>5. CASE WithCard(sio, ex) /\ last /\ sio.padst = 0 /\ sio.mcdst = 1 /\ Len(ex.sent) = 4
             /\ Len(ex.sent) # Length(ex)
    <3>6. last /\ sio.padst = 0 /\ sio.mcdst = 1
      BY <2>5
    <3>7. sio'.rx = (sio.mcdst = 1)
      BY <1>4, <3>6, Zenon
    <3>8. sio'.padst = 0 /\ sio'.mcdst = 2
      BY <1>4, <3>6
    <3>1. sio'.padst = 0 /\ sio'.mcdst = 2 /\ sio'.rx
      BY <3>6, <3>7, <3>8
    <3>2. Address(sio', ex')
      BY <1>1, <2>5, <3>1 DEF Address, SameBut
    <3>3. Addressed(sio', ex')
      BY <1>1, <1>4, <2>5 DEF Addressed, SameBut, WithCard
    <3>4. WithCard(sio', ex')
      BY <1>1, <1>4, <2>5, <3>1, <3>2, <3>3 DEF WithCard, SameBut
    <3>5. QED  BY <3>1, <3>4
  <2>6. CASE WithCard(sio, ex) /\ last /\ sio.padst = 0 /\ sio.mcdst = 5 /\ Over(ex)
    <3>1. sio'.padst = 0 /\ sio'.mcdst = 0
      BY <1>4, <2>6
    <3>2. QED  BY <1>1, <2>6, <3>1 DEF AtRest, SameBut
  <2>7. QED  BY <1>1, <2>1, <2>2, <2>3, <2>4, <2>5, <2>6, LastIs DEF last
<1>9. PlugInv'
  BY <1>1, <1>3, <1>4, <1>8 DEF PlugInv, SameBut
<1>10. QED  BY <1>2, <1>4, <1>5, <1>6, <1>7, <1>8, <1>9 DEF Good

(* The card is written when the last byte of a write is read.              *)
CardStep ==
  \A p \in Slots :
    IF WriteDone /\ p = sio.port
    THEN card'[p] = [card[p] EXCEPT ![ex.sent[6] + 256 * ex.sent[5]] = Written(ex)]
    ELSE card'[p] = card[p] \/ (card'[p] = Blank /\ McdFlag'[p])

(* A read commits a frame when it reads the last byte of a write.          *)
LEMMA CommitsIs ==
  ASSUME PortTypes, Good(sio, posted, istat, ex), Read, acts' = acts
  PROVE  Commits(sio) <=> WriteDone
<1> DEFINE last == sio.rx /\ sio.parp = sio.bufcount
<1>1. /\ ex.step = "wait" /\ sio.rx /\ ex'.sent = ex.sent /\ ex'.step = "ready"
  BY ReadIs DEF SameBut
<1>2. WriteDone <=> IsCard(ex) /\ Over(ex) /\ Command(ex) = CmdWrite
  BY <1>1 DEF WriteDone
<1>3. Commits(sio) <=> last /\ sio.mcdst = 5 /\ sio.rdwr = 2
  BY DEF Commits
<1> HIDE DEF last
<1>4. WithPad(sio, ex) => sio.mcdst = 0 /\ IsPad(ex)
  BY DEF WithPad
<1>5. ~(IsPad(ex) /\ IsCard(ex))
  BY KindsAre DEF PortTypes
<1>6. AtRest(sio, ex) => sio.mcdst = 0 /\ ~(IsCard(ex) /\ Command(ex) = CmdWrite)
  BY <1>1 DEF AtRest
<1>7. WithCard(sio, ex) /\ sio.mcdst = 5 => (sio.rdwr = 2 <=> Command(ex) = CmdWrite) /\ IsCard(ex)
  <2> SUFFICES ASSUME WithCard(sio, ex), sio.mcdst = 5
               PROVE  (sio.rdwr = 2 <=> Command(ex) = CmdWrite) /\ IsCard(ex)
    OBVIOUS
  <2> DEFINE n == Len(ex.sent)
             L == Length(ex)
  <2>1. n \in 7 .. L
    BY DEF WithCard, Heads, Address, Body
  <2> HIDE DEF n, L
  <2>4. n > 1 /\ ~(n = 1)
    BY <2>1
  <2>2. Len(ex.sent) > 1 /\ ~(Len(ex.sent) = 1)
    BY <2>4 DEF n
  <2>3. QED  BY <2>2 DEF WithCard, Task, CmdRead, CmdWrite
<1>8. CASE AtRest(sio, ex)
  BY <1>2, <1>3, <1>6, <1>8
<1>9. CASE WithPad(sio, ex)
  BY <1>2, <1>3, <1>4, <1>5, <1>9
<1>10. CASE WithCard(sio, ex) /\ ~last /\ Len(ex.sent) # Length(ex)
  BY <1>2, <1>3, <1>10 DEF Over
<1>11. CASE WithCard(sio, ex) /\ sio.mcdst = 1 /\ Len(ex.sent) # Length(ex)
  BY <1>2, <1>3, <1>11 DEF Over
<1>12. CASE WithCard(sio, ex) /\ last /\ sio.mcdst = 5 /\ Over(ex)
  BY <1>2, <1>3, <1>7, <1>12
<1>13. QED  BY <1>1, <1>8, <1>9, <1>10, <1>11, <1>12, LastIs DEF last

(* What a read does to the cards.                                          *)
LEMMA ReadCard ==
  ASSUME PortTypes, Good(sio, posted, istat, ex), Read, acts' = acts
  PROVE  CardStep /\ card' \in [Slots -> [Frames -> [1 .. FrameLen -> Byte]]]
<1> DEFINE data == [i \in 1 .. FrameLen |-> sio.buf[i]]
<1>1. /\ card \in [Slots -> [Frames -> [1 .. FrameLen -> Byte]]] /\ sio.port \in Slots
      /\ ex \in ExRec
  BY ReadIs DEF PortTypes, Good, Selected
<1>2. card' = IF Commits(sio) THEN [card EXCEPT ![sio.port][Frame] = data] ELSE card
  BY DEF Read
<1>3. CASE ~Commits(sio)
  BY <1>1, <1>2, <1>3, CommitsIs DEF CardStep
<1>4. CASE Commits(sio)
  <2>1. WithCard(sio, ex) /\ Over(ex) /\ sio.mcdst = 5 /\ sio.rdwr = 2 /\ IsCard(ex)
        /\ Command(ex) = CmdWrite
    <3>1. WriteDone
      BY <1>4, CommitsIs
    <3>2. IsCard(ex) /\ Over(ex) /\ Command(ex) = CmdWrite /\ sio.mcdst = 5 /\ sio.rdwr = 2
      BY <1>4, <3>1 DEF WriteDone, Commits
    <3>3. QED  BY <3>2 DEF Good, AtRest, WithPad
  <2>2. /\ Len(ex.sent) = FrameLen + 10
        /\ \A i \in 1 .. FrameLen : i <= Len(ex.sent) - 6 => sio.buf[i] = ex.sent[6 + i]
    <3>1. Body(sio, ex)
      BY <2>1 DEF WithCard, Heads, Address
    <3>2. Len(ex.sent) = CardLength(ex) /\ Len(ex.sent) > 1
      BY <1>1, <2>1, <3>1, LengthIs DEF Over, Body
    <3>3. Len(ex.sent) = FrameLen + 10
      BY <2>1, <3>2 DEF CardLength, WriteLen
    <3>4. QED  BY <2>1, <3>1, <3>3 DEF Body
  <2>3. Frame = ex.sent[6] + 256 * ex.sent[5] /\ Frame \in Frames
    <3>1. Len(ex.sent) >= 6
      BY <2>2, SioAssumption
    <3>2. QED  BY <1>1, <2>1, <3>1, FrameIs
  <2>4. \A i \in 1 .. FrameLen : sio.buf[i] = ex.sent[6 + i] /\ ex.sent[6 + i] \in Byte
    <3> SUFFICES ASSUME NEW i \in 1 .. FrameLen PROVE sio.buf[i] = ex.sent[6 + i] /\ ex.sent[6 + i] \in Byte
      OBVIOUS
    <3> DEFINE n == Len(ex.sent)
    <3>1. n = FrameLen + 10 /\ FrameLen \in Nat
      BY <2>2, SioAssumption
    <3> HIDE DEF n
    <3>2. i <= n - 6 /\ 6 + i \in 1 .. n
      BY <3>1
    <3>3. QED  BY <1>1, <2>2, <3>2, KindsAre DEF n
  <2>5. Written(ex) = data
    <3>1. Written(ex) = [i \in 1 .. FrameLen |-> ex.sent[6 + i]]
      <4>1. SubSeq(ex.sent, 7, 6 + FrameLen) = [i \in 1 .. FrameLen |-> ex.sent[6 + i]]
        <5>1. 1 + (6 + FrameLen) - 7 = FrameLen /\ FrameLen \in Nat
          BY SioAssumption
        <5>2. \A i \in 1 .. FrameLen : i + 7 - 1 = 6 + i
          BY <5>1
        <5>3. QED  BY <1>1, <2>2, <5>1, <5>2 DEF ExRec
      <4>2. QED  BY <4>1 DEF Written
    <3>2. QED  BY <2>4, <3>1
  <2>6. data \in [1 .. FrameLen -> Byte]
    BY <2>4
  <2> HIDE DEF data
  <2>7. /\ card'[sio.port] = [card[sio.port] EXCEPT ![Frame] = data]
        /\ \A p \in Slots : p # sio.port => card'[p] = card[p]
        /\ card' \in [Slots -> [Frames -> [1 .. FrameLen -> Byte]]]
    <3>1. card' = [card EXCEPT ![sio.port] = [card[sio.port] EXCEPT ![Frame] = data]]
      BY <1>2, <1>4
    <3> DEFINE new == [card[sio.port] EXCEPT ![Frame] = data]
    <3>2. new \in [Frames -> [1 .. FrameLen -> Byte]]
      <4>1. card[sio.port] \in [Frames -> [1 .. FrameLen -> Byte]]
        BY <1>1
      <4>2. QED  BY <2>6, <4>1
    <3> HIDE DEF new
    <3>3. /\ card'[sio.port] = new /\ \A p \in Slots : p # sio.port => card'[p] = card[p]
          /\ card' \in [Slots -> [Frames -> [1 .. FrameLen -> Byte]]]
      BY <1>1, <3>1, <3>2 DEF new
    <3>4. QED  BY <3>3 DEF new
  <2>8. QED  BY <1>4, <2>3, <2>5, <2>7, CommitsIs DEF CardStep
<1>5. QED  BY <1>3, <1>4

-----------------------------------------------------------------------------
(* The steps                                                               *)
SioInv == PortTypes /\ PortInv
StepKept == PortTypes' /\ PortInv' /\ CardStep

(* A step of the program, of the port or of the frontend but for a load    *)
(* keeps the saved state.                                                  *)
LEMMA SavedKeeps ==
  ASSUME SavedInv, saved' = saved
  PROVE  SavedInv'
BY DEF SavedInv

(* A step that leaves the cards alone.                                     *)
LEMMA CardStays ==
  ASSUME UNCHANGED card, ~WriteDone
  PROVE  CardStep
BY DEF CardStep

(* The first byte of an exchange.                                          *)
LEMMA BeginKeeps ==
  ASSUME NEW b, Sending(b), Begin(b)
  PROVE  SendKept /\ UNCHANGED cardVars
<1>1. sio.padst = 0 /\ sio.mcdst = 0
  BY DEF Begin
<1>2. Over(ex)
  BY <1>1, WhereIs
<1>3. CASE b = PadSel
  <2>1. StartPad
    BY <1>3 DEF Begin
  <2>2. QED  BY <1>1, <1>2, <1>3, <2>1, StartPadKeeps DEF StartPad
<1>4. CASE b = CardSel
  <2>1. StartCard
    BY <1>4 DEF Begin, PadSel, CardSel
  <2>2. QED  BY <1>1, <1>2, <1>4, <2>1, StartCardKeeps DEF StartCard
<1>5. CASE b # PadSel /\ b # CardSel
  <2>1. StartNothing(b)
    BY <1>5 DEF Begin
  <2>2. QED  BY <1>1, <1>2, <2>1, StartNothingKeeps DEF StartNothing
<1>6. QED  BY <1>3, <1>4, <1>5

(* A byte to a card.                                                       *)
LEMMA CardByteKeeps ==
  ASSUME NEW b, Sending(b), CardByte(b)
  PROVE  SendKept /\ UNCHANGED <<card, McdDisable>> /\ McdFlag' \in [Slots -> BOOLEAN]
<1>1. /\ sio.padst = 0 /\ posted' = TRUE /\ UNCHANGED padVars /\ UNCHANGED <<card, McdDisable>>
      /\ CardCommand(b) \/ CardAddress(b) \/ CardAnswers(b) \/ CardData(b)
  BY DEF CardByte
<1>2. McdFlag \in [Slots -> BOOLEAN] /\ sio.port \in Slots
  BY WhereIs DEF Sending, PortTypes
<1>3. CASE CardCommand(b)
  BY <1>1, <1>2, <1>3, CardCommandKeeps DEF CardCommand
<1>4. CASE CardAddress(b)
  BY <1>1, <1>2, <1>4, CardAddressKeeps DEF CardAddress
<1>5. CASE CardAnswers(b)
  BY <1>1, <1>2, <1>5, CardAnswersKeeps DEF CardAnswers
<1>6. CASE CardData(b)
  <2>1. SendKept
    BY <1>1, <1>6, CardDataKeeps
  <2> DEFINE f == McdFlag[sio.port] /\ ~(sio.rdwr = 2 /\ sio.parp + 1 = FrameLen + 1)
  <2>2. McdFlag' = [McdFlag EXCEPT ![sio.port] = f]
    BY <1>6 DEF CardData
  <2>3. f \in BOOLEAN
    OBVIOUS
  <2> HIDE DEF f
  <2>4. McdFlag' \in [Slots -> BOOLEAN]
    BY <1>2, <2>2, <2>3
  <2>5. QED  BY <1>1, <2>1, <2>4
<1>7. QED  BY <1>1, <1>3, <1>4, <1>5, <1>6

(* The program sends a byte.                                               *)
LEMMA SendKeeps ==
  ASSUME SioInv, Send, acts' = acts
  PROVE  StepKept
<1>1. PICK b \in Bytes(ex) : /\ sio.dtr /\ ex.step = "ready"
                             /\ Begin(b) \/ PadRefuses(b) \/ PadByte(b) \/ CardByte(b)
                             /\ UNCHANGED <<istat, saved>>
  BY DEF Send
<1>2. Sending(b)
  BY <1>1 DEF Sending, SioInv, PortInv
<1>3. SendKept /\ UNCHANGED card /\ UNCHANGED McdDisable /\ McdFlag' \in [Slots -> BOOLEAN]
  <2>1. McdFlag \in [Slots -> BOOLEAN]
    BY DEF SioInv, PortTypes
  <2>2. CASE Begin(b)
    BY <1>2, <2>1, <2>2, BeginKeeps DEF cardVars
  <2>3. CASE PadRefuses(b)
    BY <1>2, <2>1, <2>3, PadRefusesKeeps DEF PadRefuses, cardVars
  <2>4. CASE PadByte(b)
    BY <1>2, <2>1, <2>4, PadByteKeeps DEF PadByte, cardVars
  <2>5. CASE CardByte(b)
    BY <1>2, <2>5, CardByteKeeps
  <2>6. QED  BY <1>1, <2>2, <2>3, <2>4, <2>5
<1>4. PortTypes'
  BY <1>1, <1>3 DEF SendKept, SioInv, PortTypes
<1>5. PortInv'
  <2>1. SavedInv'
    BY <1>1, SavedKeeps DEF SioInv, PortInv
  <2>2. QED  BY <1>1, <1>3, <2>1 DEF SendKept, PortInv
<1>6. ~WriteDone
  BY <1>1 DEF WriteDone
<1>7. QED  BY <1>3, <1>4, <1>5, <1>6, CardStays DEF StepKept

(* The program reads a byte.                                               *)
LEMMA ReadStep ==
  ASSUME SioInv, Read, acts' = acts
  PROVE  StepKept
<1>1. sio' \in SioRec /\ ex' \in ExRec /\ Good(sio', posted', istat', ex') /\ PlugInv'
  BY ReadKeeps DEF SioInv, PortInv
<1>2. CardStep /\ card' \in [Slots -> [Frames -> [1 .. FrameLen -> Byte]]]
  BY ReadCard DEF SioInv, PortInv
<1>3. UNCHANGED <<posted, istat, pads, reqPos, replug, McdFlag, McdDisable, saved>>
  BY DEF Read, padVars
<1>4. PortTypes'
  BY <1>1, <1>2, <1>3 DEF SioInv, PortTypes
<1>5. SavedInv'
  BY <1>3, SavedKeeps DEF SioInv, PortInv
<1>6. QED  BY <1>1, <1>2, <1>4, <1>5 DEF StepKept, PortInv

(* No exchange.                                                            *)
LEMMA NothingIs ==
  /\ Nothing \in ExRec /\ Over(Nothing) /\ Nothing.sent = <<>> /\ Nothing.step = "ready"
  /\ Len(Nothing.sent) <= ReadLen
<1>1. HiZ \in Byte /\ HiZ \in Values /\ <<>> \in Seq(Byte)
  BY DEF HiZ, Byte, Values
<1>2. Nothing \in ExRec /\ Nothing.sent = <<>> /\ Nothing.step = "ready" /\ Len(Nothing.sent) = 0
  BY <1>1 DEF Nothing, ExRec
<1>3. Over(Nothing)
  BY <1>2 DEF Over, Length, IsPad, IsCard
<1>4. QED  BY <1>2, <1>3, SioAssumption DEF ReadLen

(* The program selects a port.                                             *)
LEMMA SelectKeeps ==
  ASSUME SioInv, NEW p \in Slots, Select(p), acts' = acts
  PROVE  StepKept
<1>1. /\ ~sio.dtr /\ ~istat /\ sio' = [sio EXCEPT !.port = p, !.dtr = TRUE] /\ ex' = Nothing
      /\ UNCHANGED <<posted, istat, pads, reqPos, replug, card, McdFlag, McdDisable, saved>>
  BY DEF Select, padVars, cardVars
<1>2. sio \in SioRec /\ ex \in ExRec /\ Good(sio, posted, istat, ex)
  BY DEF SioInv, PortTypes, PortInv
<1>3. sio.padst = 0 /\ sio.mcdst = 0 /\ ~sio.irq
  <2>1. ex.sent = <<>>
    BY <1>1, <1>2 DEF Good, Selected
  <2>2. ~IsPad(ex) /\ ~IsCard(ex)
    BY <2>1 DEF IsPad, IsCard
  <2>3. AtRest(sio, ex)
    BY <1>2, <2>2 DEF Good, WithPad, WithCard
  <2>4. ~sio.irq
    BY <1>1, <1>2 DEF Good, Wired
  <2>5. QED  BY <2>3, <2>4 DEF AtRest
<1>4. /\ sio' \in SioRec /\ sio'.padst = 0 /\ sio'.mcdst = 0 /\ ~sio'.irq /\ sio'.port = p
  BY <1>1, <1>2, <1>3 DEF SioRec
<1>5. Good(sio', posted', istat', ex')
  BY <1>1, <1>4, NothingIs DEF Good, AtRest, Answered, Selected, Wired
<1>6. PlugInv'
  BY <1>4 DEF PlugInv
<1>7. SavedInv'
  BY <1>1, SavedKeeps DEF SioInv, PortInv
<1>8. PortTypes'
  BY <1>1, <1>4, NothingIs DEF SioInv, PortTypes
<1>9. CardStep
  <2>1. ~WriteDone
    BY <1>1, NothingIs DEF WriteDone, IsCard
  <2>2. QED  BY <1>1, <2>1, CardStays
<1>10. QED  BY <1>5, <1>6, <1>7, <1>8, <1>9 DEF StepKept, PortInv

(* The program ends the exchange.                                          *)
LEMMA DeselectKeeps ==
  ASSUME SioInv, Deselect, acts' = acts
  PROVE  StepKept
<1>1. /\ sio' = [Idle(sio) EXCEPT !.dtr = FALSE] /\ posted' = FALSE /\ ex' = Nothing
      /\ UNCHANGED <<istat, pads, reqPos, replug, card, McdFlag, McdDisable, saved>>
  BY DEF Deselect, padVars, cardVars
<1>2. sio \in SioRec /\ ex \in ExRec /\ 0 \in 0 .. FrameLen + 8
  BY SioAssumption DEF SioInv, PortTypes
<1>3. /\ Idle(sio) \in SioRec /\ Idle(sio).padst = 0 /\ Idle(sio).mcdst = 0 /\ Idle(sio).irq = FALSE
  BY <1>2, 0 \in 0 .. 2, 0 \in 0 .. 5 DEF Idle, SioRec
<1>4. /\ sio' \in SioRec /\ sio'.padst = 0 /\ sio'.mcdst = 0 /\ ~sio'.irq /\ ~sio'.dtr
  BY <1>1, <1>3 DEF SioRec
<1>5. Good(sio', posted', istat', ex')
  BY <1>1, <1>4, NothingIs DEF Good, AtRest, Answered, Selected, Wired
<1>6. PlugInv'
  BY <1>4 DEF PlugInv
<1>7. SavedInv'
  BY <1>1, SavedKeeps DEF SioInv, PortInv
<1>8. PortTypes'
  BY <1>1, <1>4, NothingIs DEF SioInv, PortTypes
<1>9. CardStep
  <2>1. ~WriteDone
    BY <1>1, NothingIs DEF WriteDone, IsCard
  <2>2. QED  BY <1>1, <2>1, CardStays
<1>10. QED  BY <1>5, <1>6, <1>7, <1>8, <1>9 DEF StepKept, PortInv

(* The exchange as it is says where the port is, whatever its interrupt.   *)
LEMMA IrqOnly ==
  ASSUME NEW s \in SioRec, NEW e, NEW po, NEW is, NEW po2, NEW is2, NEW irq \in BOOLEAN,
         Good(s, po, is, e), Wired([s EXCEPT !.irq = irq], po2, is2, e)
  PROVE  LET t == [s EXCEPT !.irq = irq] IN
         /\ t \in SioRec /\ t.padst = s.padst /\ t.port = s.port
         /\ Good(t, po2, is2, e)
<1> DEFINE t == [s EXCEPT !.irq = irq]
<1>1. /\ t \in SioRec /\ t.port = s.port /\ t.dtr = s.dtr /\ t.rx = s.rx /\ t.padst = s.padst
      /\ t.mcdst = s.mcdst /\ t.rdwr = s.rdwr /\ t.adrH = s.adrH /\ t.adrL = s.adrL
      /\ t.parp = s.parp /\ t.bufcount = s.bufcount /\ t.buf = s.buf
  BY DEF SioRec
<1>2. Wired(t, po2, is2, e)
  OBVIOUS
<1> HIDE DEF t
<1>3. AtRest(s, e) => AtRest(t, e)
  BY <1>1 DEF AtRest
<1>4. WithPad(s, e) => WithPad(t, e)
  BY <1>1 DEF WithPad
<1>5. WithCard(s, e) => WithCard(t, e)
  <2>1. Addressed(s, e) => Addressed(t, e)
    BY <1>1 DEF Addressed
  <2>2. Heads(s, e) => Heads(t, e)
    BY <1>1 DEF Heads
  <2>3. Address(s, e) => Address(t, e)
    BY <1>1 DEF Address
  <2>4. Body(s, e) => Body(t, e)
    BY <1>1 DEF Body
  <2>5. QED  BY <1>1, <2>1, <2>2, <2>3, <2>4 DEF WithCard
<1>6. Answered(t, e) /\ Selected(t, e)
  BY <1>1 DEF Good, Answered, Selected
<1>7. Good(t, po2, is2, e)
  BY <1>2, <1>3, <1>4, <1>5, <1>6 DEF Good
<1>8. QED  BY <1>1, <1>7 DEF t

(* The program acknowledges the interrupt.                                 *)
LEMMA AcknowledgeKeeps ==
  ASSUME SioInv, Acknowledge, acts' = acts
  PROVE  StepKept
<1>1. /\ ex.step = "ready" /\ sio' = [sio EXCEPT !.irq = FALSE] /\ istat' = FALSE
      /\ UNCHANGED <<posted, pads, reqPos, replug, card, McdFlag, McdDisable, saved, ex>>
  BY DEF Acknowledge, padVars, cardVars
<1>2. sio \in SioRec /\ Good(sio, posted, istat, ex)
  BY DEF SioInv, PortTypes, PortInv
<1>3. Wired(sio', posted', istat', ex)
  <2>1. ~sio'.irq
    BY <1>1, <1>2 DEF SioRec
  <2>2. QED  BY <1>1, <2>1 DEF Wired
<1>4. /\ sio' \in SioRec /\ sio'.padst = sio.padst /\ sio'.port = sio.port
      /\ Good(sio', posted', istat', ex)
  BY <1>1, <1>2, <1>3, IrqOnly
<1>5. PlugInv'
  BY <1>1, <1>4 DEF SioInv, PortInv, PlugInv
<1>6. SavedInv'
  BY <1>1, SavedKeeps DEF SioInv, PortInv
<1>7. PortTypes'
  BY <1>1, <1>4 DEF SioInv, PortTypes
<1>8. CardStep
  BY <1>1, CardStays DEF WriteDone
<1>9. QED  BY <1>1, <1>4, <1>5, <1>6, <1>7, <1>8 DEF StepKept, PortInv

(* The interrupt comes.                                                    *)
LEMMA InterruptKeeps ==
  ASSUME SioInv, Interrupt
  PROVE  StepKept
<1>1. /\ posted' = FALSE /\ sio' = [sio EXCEPT !.irq = TRUE] /\ istat' = (istat \/ ~sio.irq)
      /\ UNCHANGED <<pads, reqPos, replug, card, McdFlag, McdDisable, saved, ex, acts>>
  BY DEF Interrupt, sioInterrupt, padVars, cardVars
<1>2. sio \in SioRec /\ Good(sio, posted, istat, ex) /\ istat \in BOOLEAN
  BY DEF SioInv, PortTypes, PortInv
<1>3. istat' = TRUE
  BY <1>1, <1>2 DEF Good, Wired
<1>4. Wired(sio', posted', istat', ex)
  BY <1>3 DEF Wired
<1>5. /\ sio' \in SioRec /\ sio'.padst = sio.padst /\ sio'.port = sio.port
      /\ Good(sio', posted', istat', ex)
  BY <1>1, <1>2, <1>4, IrqOnly
<1>6. PlugInv'
  BY <1>1, <1>5 DEF SioInv, PortInv, PlugInv
<1>7. SavedInv'
  BY <1>1, SavedKeeps DEF SioInv, PortInv
<1>8. PortTypes'
  BY <1>1, <1>3, <1>5 DEF SioInv, PortTypes
<1>9. CardStep
  BY <1>1, CardStays DEF WriteDone
<1>10. QED  BY <1>1, <1>5, <1>6, <1>7, <1>8, <1>9 DEF StepKept, PortInv

(* The frontend changes a card.                                            *)
LEMMA LoadMcdKeeps ==
  ASSUME SioInv, NEW p \in Slots, LoadMcd(p), acts' = acts + 1
  PROVE  StepKept
<1>1. /\ UNCHANGED <<sio, posted, istat, pads, reqPos, replug, saved, ex>>
      /\ McdFlag' = [McdFlag EXCEPT ![p] = TRUE]
      /\ \/ card' = [card EXCEPT ![p] = Blank] /\ McdDisable' = [McdDisable EXCEPT ![p] = FALSE]
         \/ McdDisable' = [McdDisable EXCEPT ![p] = TRUE] /\ UNCHANGED card
  BY DEF LoadMcd, portVars, padVars
<1>2. /\ card \in [Slots -> [Frames -> [1 .. FrameLen -> Byte]]] /\ McdFlag \in [Slots -> BOOLEAN]
      /\ McdDisable \in [Slots -> BOOLEAN]
  BY DEF SioInv, PortTypes
<1>3. Blank \in [Frames -> [1 .. FrameLen -> Byte]]
  BY DEF Blank, Byte
<1>4. /\ card' \in [Slots -> [Frames -> [1 .. FrameLen -> Byte]]] /\ McdFlag' \in [Slots -> BOOLEAN]
      /\ McdDisable' \in [Slots -> BOOLEAN]
  BY <1>1, <1>2, <1>3
<1>5. PortInv'
  BY <1>1 DEF SioInv, PortInv, PlugInv, SavedInv
<1>6. PortTypes'
  BY <1>1, <1>4 DEF SioInv, PortTypes
<1>7. CardStep
  <2>1. ~WriteDone
    BY <1>1 DEF WriteDone
  <2>2. \A q \in Slots : card'[q] = card[q] \/ (card'[q] = Blank /\ McdFlag'[q])
    BY <1>1, <1>2
  <2>3. QED  BY <2>1, <2>2 DEF CardStep
<1>8. QED  BY <1>5, <1>6, <1>7 DEF StepKept

(* A pad that is not there.                                                *)
LEMMA UnpluggedIs == Unplugged \in PadRec
BY DEF Unplugged, PadRec, Byte, HiZ

(* The frontend plugs pads again or switches their mode.                   *)
LEMMA PadsKeep ==
  ASSUME SioInv, acts' = acts + 1, padChanged \/ \E p \in Slots : padToggleAnalog(p)
  PROVE  StepKept
<1>1. UNCHANGED <<sio, posted, istat, card, McdFlag, McdDisable, saved, ex>>
  BY DEF padChanged, padToggleAnalog, portVars, cardVars
<1>2. pads \in [Slots -> PadRec] /\ ex \in ExRec
  BY DEF SioInv, PortTypes
<1>3. /\ pads' \in [Slots -> PadRec] /\ reqPos' \in Nat /\ replug' \in BOOLEAN
      /\ replug' \/ /\ reqPos' = reqPos /\ replug' = replug
                    /\ \A q \in Slots : /\ pads'[q].respSize = pads[q].respSize
                                        /\ pads'[q].rx0 = pads[q].rx0
  <2>1. CASE padChanged
    BY <2>1, UnpluggedIs DEF padChanged
  <2>2. CASE \E p \in Slots : padToggleAnalog(p)
    <3>1. PICK p \in Slots : padToggleAnalog(p)
      BY <2>2
    <3> DEFINE pad == [pads[p] EXCEPT !.padMode = ~pads[p].padMode]
    <3>2. pads' = [pads EXCEPT ![p] = pad] /\ UNCHANGED <<reqPos, replug>>
      BY <3>1 DEF padToggleAnalog
    <3>3. pad \in PadRec /\ pad.respSize = pads[p].respSize /\ pad.rx0 = pads[p].rx0
      <4>1. pads[p] \in PadRec
        BY <1>2
      <4>2. QED  BY <4>1 DEF PadRec
    <3> HIDE DEF pad
    <3>4. QED  BY <1>2, <3>2, <3>3 DEF SioInv, PortTypes
  <2>3. QED  BY <2>1, <2>2
<1>4. PlugInv'
  <2> SUFFICES ASSUME sio.padst # 0, ~replug', ~Over(ex)
               PROVE  /\ reqPos' = Len(ex.sent) - 1
                      /\ pads'[sio.port].respSize = ex.len
                      /\ reqPos' = 0 => pads'[sio.port].rx0 = ex.id
    BY <1>1 DEF PlugInv
  <2>1. ~replug /\ reqPos' = reqPos /\ \A q \in Slots : /\ pads'[q].respSize = pads[q].respSize
                                                        /\ pads'[q].rx0 = pads[q].rx0
    BY <1>3
  <2>2. sio.port \in Slots
    <3>1. ex.sent # <<>>
      <4>1. ~AtRest(sio, ex) /\ Good(sio, posted, istat, ex)
        BY DEF AtRest, SioInv, PortInv
      <4>2. IsPad(ex) \/ IsCard(ex)
        BY <4>1 DEF Good, WithPad, WithCard
      <4>3. QED  BY <1>2, <4>2, KindsAre
    <3>2. QED  BY <3>1 DEF SioInv, PortInv, Good, Selected
  <2>3. QED  BY <2>1, <2>2 DEF SioInv, PortInv, PlugInv
<1>5. PortInv'
  <2>1. SavedInv'
    BY <1>1, SavedKeeps DEF SioInv, PortInv
  <2>2. QED  BY <1>1, <1>4, <2>1 DEF SioInv, PortInv
<1>6. PortTypes'
  BY <1>1, <1>3 DEF SioInv, PortTypes
<1>7. CardStep
  BY <1>1, CardStays DEF WriteDone
<1>8. QED  BY <1>5, <1>6, <1>7 DEF StepKept

(* A state is saved.                                                       *)
LEMMA SaveKeeps ==
  ASSUME SioInv, Save, ~MidPad, acts' = acts + 1
  PROVE  StepKept
<1>1. /\ sio.padst = 0
      /\ saved' = [sio |-> sio, posted |-> posted, istat |-> istat, pads |-> pads, ex |-> ex]
      /\ UNCHANGED <<sio, posted, istat, pads, reqPos, replug, card, McdFlag, McdDisable, ex>>
  BY DEF Save, portVars, padVars, cardVars
<1>2. saved' \in SavedRec
  BY <1>1 DEF SioInv, PortTypes, SavedRec
<1>3. PortTypes'
  BY <1>1, <1>2 DEF SioInv, PortTypes
<1>4. PortInv'
  <2>1. Good(sio', posted', istat', ex') /\ PlugInv'
    BY <1>1 DEF SioInv, PortInv, PlugInv
  <2>2. SavedInv'
    BY <1>1 DEF SioInv, PortInv, SavedInv
  <2>3. QED  BY <2>1, <2>2 DEF PortInv
<1>5. CardStep
  BY <1>1, CardStays DEF WriteDone
<1>6. QED  BY <1>3, <1>4, <1>5 DEF StepKept

(* A state is loaded.                                                      *)
LEMMA LoadKeeps ==
  ASSUME SioInv, Load, acts' = acts + 1
  PROVE  StepKept
<1>1. /\ saved # None
      /\ sio' = saved.sio /\ posted' = saved.posted /\ istat' = saved.istat
      /\ pads' = saved.pads /\ ex' = saved.ex
      /\ McdFlag' = [p \in Slots |-> TRUE]
      /\ UNCHANGED <<reqPos, replug, card, McdDisable, saved>>
  BY DEF Load
<1>2. saved \in SavedRec
  BY <1>1 DEF SioInv, PortTypes
<1>3. PortTypes'
  BY <1>1, <1>2 DEF SioInv, PortTypes, SavedRec
<1>4. PortInv'
  <2>1. sio'.padst = 0 /\ Good(sio', posted', istat', ex')
    BY <1>1 DEF SioInv, PortInv, SavedInv
  <2>2. SavedInv'
    BY <1>1, SavedKeeps DEF SioInv, PortInv
  <2>3. QED  BY <2>1, <2>2 DEF PortInv, PlugInv
<1>5. CardStep
  <2>1. ~WriteDone
    <3>1. acts \in Nat
      BY DEF SioInv, PortTypes
    <3>2. acts' # acts
      BY <3>1
    <3>3. QED  BY <3>2 DEF WriteDone
  <2>2. QED  BY <1>1, <2>1, CardStays
<1>6. QED  BY <1>3, <1>4, <1>5 DEF StepKept

(* Every step keeps the invariant and changes the cards as it may.         *)
LEMMA NextKeeps ==
  ASSUME SioInv, Next, ~MidPad
  PROVE  StepKept
<1>1. CASE Program
  <2>1. acts' = acts /\ ((\E p \in Slots : Select(p)) \/ Deselect \/ Acknowledge \/ Send \/ Read)
    BY <1>1 DEF Program
  <2>2. QED  BY <2>1, SelectKeeps, DeselectKeeps, AcknowledgeKeeps, SendKeeps, ReadStep
<1>2. CASE Interrupt
  BY <1>2, InterruptKeeps
<1>3. CASE Frontend
  <2>1. /\ acts' = acts + 1
        /\ \/ \E p \in Slots : LoadMcd(p)
           \/ padChanged \/ \E p \in Slots : padToggleAnalog(p)
           \/ Save \/ Load
    BY <1>3 DEF Frontend
  <2>2. QED  BY <2>1, LoadMcdKeeps, PadsKeep, SaveKeeps, LoadKeeps
<1>4. QED  BY <1>1, <1>2, <1>3 DEF Next

(* The first state.                                                        *)
LEMMA InitHolds ==
  ASSUME Init
  PROVE  SioInv
<1>1. /\ posted = FALSE /\ istat = FALSE
      /\ pads = [p \in Slots |-> Unplugged] /\ reqPos = 0 /\ replug = FALSE
      /\ card = [p \in Slots |-> Blank] /\ McdFlag = [p \in Slots |-> TRUE]
      /\ McdDisable = [p \in Slots |-> FALSE]
      /\ saved = None /\ ex = Nothing /\ acts = 0
  BY DEF Init
<1> DEFINE buf == [i \in 0 .. FrameLen + 8 |-> 0]
<1>2. sio = [port |-> 1, dtr |-> FALSE, rx |-> FALSE, irq |-> FALSE, padst |-> 0, mcdst |-> 0,
             rdwr |-> 0, adrH |-> 0, adrL |-> 0, parp |-> 0, bufcount |-> 0, buf |-> buf]
  BY DEF Init
<1>3. buf \in [0 .. FrameLen + 8 -> Values] /\ 0 \in 0 .. FrameLen + 8
  BY SioAssumption DEF Values, Byte
<1> HIDE DEF buf
<1>4. sio \in SioRec
  <2>1. 0 \in Byte /\ 0 \in 0 .. 2 /\ 0 \in 0 .. 5
    BY DEF Byte
  <2>2. QED  BY <1>2, <1>3, <2>1 DEF SioRec
<1>5. Blank \in [Frames -> [1 .. FrameLen -> Byte]]
  BY DEF Blank, Byte
<1>6. PortTypes
  BY <1>1, <1>4, <1>5, NothingIs, UnpluggedIs DEF PortTypes
<1>7. ~sio.dtr /\ ~sio.irq /\ sio.padst = 0 /\ sio.mcdst = 0
  BY <1>2
<1>8. Good(sio, posted, istat, ex)
  BY <1>1, <1>7, NothingIs DEF Good, AtRest, Answered, Selected, Wired
<1>9. PlugInv /\ SavedInv
  BY <1>1, <1>7 DEF PlugInv, SavedInv
<1>10. QED  BY <1>6, <1>8, <1>9 DEF SioInv, PortInv

(* A step that changes nothing.                                            *)
LEMMA Stutters ==
  ASSUME SioInv, UNCHANGED vars
  PROVE  StepKept
<1>1. UNCHANGED <<sio, posted, istat, pads, reqPos, replug, card, McdFlag, McdDisable, saved, ex,
                  starts, acts>>
  BY DEF vars
<1>2. PortTypes'
  BY <1>1 DEF SioInv, PortTypes
<1>3. PortInv'
  BY <1>1 DEF SioInv, PortInv, PlugInv, SavedInv
<1>4. CardStep
  BY <1>1, CardStays DEF WriteDone
<1>5. QED  BY <1>2, <1>3, <1>4 DEF StepKept

(* The invariant holds always.                                             *)
LEMMA SioInductive == ASSUME ~MidPad PROVE Spec => []SioInv
<1>1. SioInv /\ [Next]_vars => SioInv'
  BY NextKeeps, Stutters DEF StepKept, SioInv
<1>2. QED  BY <1>1, InitHolds, PTL DEF Spec

-----------------------------------------------------------------------------
(* The registers of the port and the bytes of the exchange are in their    *)
(* ranges, whatever is sent and loaded (sio.c).                            *)
THEOREM SioTypeCorrect == ASSUME ~MidPad PROVE Spec => []TypeOK
<1>1. SioInv => TypeOK
  <2> SUFFICES ASSUME SioInv PROVE TypeOK
    OBVIOUS
  <2>1. sio \in SioRec /\ Len(ex.sent) <= ReadLen /\ ex \in ExRec
    BY DEF SioInv, PortTypes, PortInv, Good
  <2>2. sio.parp \in DOMAIN sio.buf /\ sio.bufcount \in DOMAIN sio.buf
    BY <2>1 DEF SioRec
  <2>3. sio.port \in {1, 2}
    BY <2>1, SioAssumption DEF SioRec
  <2>4. /\ sio.padst \in 0 .. 2 /\ sio.mcdst \in 0 .. 5 /\ sio.rdwr \in 0 .. 2
        /\ {sio.dtr, sio.rx, sio.irq} \subseteq BOOLEAN
    BY <2>1 DEF SioRec
  <2>5. {posted, istat, replug} \subseteq BOOLEAN /\ ex.step \in {"ready", "wait"}
    BY <2>1 DEF SioInv, PortTypes, ExRec
  <2>6. QED  BY <2>1, <2>2, <2>3, <2>4, <2>5 DEF TypeOK
<1>2. QED  BY <1>1, SioInductive, PTL

(* Every byte that comes back is the device's answer to the bytes of this  *)
(* exchange (sioRead8, sioWrite8), whatever card is changed, pad is        *)
(* plugged again or state is loaded meanwhile, if no state is loaded that  *)
(* was saved within an exchange with a pad.                                *)
THEOREM AnswersAreTrue == ASSUME ~MidPad PROVE Spec => []AnswerTruth
<1>1. SioInv => AnswerTruth
  BY DEF SioInv, PortInv, Good, Answered, AnswerTruth
<1>2. QED  BY <1>1, SioInductive, PTL

(* The program that waits for the interrupt after a byte (sioInterrupt)    *)
(* waits for one that comes, whenever the device expects another byte.     *)
THEOREM BytesAreAwaited == ASSUME ~MidPad PROVE Spec => []Awaited
<1>1. SioInv => Awaited
  BY DEF SioInv, PortInv, Good, Wired, Awaited
<1>2. QED  BY <1>1, SioInductive, PTL

(* A frame of a card becomes what the program sent, as a whole, when the   *)
(* last byte of a write is read (sioRead8, SaveMcd), and a card changes    *)
(* otherwise only when the frontend changes it.                            *)
THEOREM CardsAreWritten == ASSUME ~MidPad PROVE Spec => CardTruth
<1>1. SioInv /\ [Next]_vars => [CardStep]_vars
  BY NextKeeps, Stutters DEF StepKept
<1>2. CardTruth <=> [][CardStep]_vars
  BY DEF CardTruth, CardStep
<1>3. QED  BY <1>1, <1>2, SioInductive, PTL DEF Spec

=============================================================================
