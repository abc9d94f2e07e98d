----------------------------- MODULE DmaProofs ------------------------------
(***************************************************************************)
(* Proofs about Dma, for any channels, any sizes of blocks, lists and      *)
(* transfers, and any writes of the registers: interrupts are shown when   *)
(* they should be, blocks are taken in their order, a transfer ends when   *)
(* it is over, and ends.                                                   *)
(***************************************************************************)
EXTENDS Dma, WellFoundedInduction, TLAPS

-----------------------------------------------------------------------------
(* Facts about remainders, and the least element of a set                  *)

(* Division, for a divisor that is not a number written out: the provers   *)
(* know a remainder only by its range and the equation.                    *)
LEMMA Euclid ==
  ASSUME NEW M \in Nat \ {0}, NEW a \in Int
  PROVE  a % M \in 0 .. M - 1 /\ a \div M \in Int /\ a = M * (a \div M) + (a % M)
BY SMTT(20)

(* A multiple that is less than the divisor is zero.                       *)
LEMMA SmallMultiple ==
  ASSUME NEW M \in Nat \ {0}, NEW q \in Int, M * q < M, -M < M * q
  PROVE  q = 0
<1>1. CASE q >= 1
  <2>1. M * q >= M
    BY <1>1, SMTT(20)
  <2>2. QED  BY <2>1
<1>2. CASE q <= -1
  <2>1. M * q <= -M
    BY <1>2, SMTT(20)
  <2>2. QED  BY <2>1
<1>3. QED  BY <1>1, <1>2

(* The remainder is the one number in range that the equation admits.      *)
LEMMA UniqueRemainder ==
  ASSUME NEW M \in Nat \ {0}, NEW a \in Int, NEW q \in Int, NEW r \in 0 .. M - 1,
         a = M * q + r
  PROVE  a % M = r
<1> DEFINE d == q - (a \div M)
<1>1. a % M \in 0 .. M - 1 /\ a \div M \in Int /\ a = M * (a \div M) + (a % M)
  BY Euclid
<1>2. M * d = (a % M) - r
  <2>1. M * d = M * q - M * (a \div M)
    BY <1>1, SMTT(20)
  <2>2. QED  BY <2>1, <1>1, SMTT(20)
<1>3. d \in Int /\ M * d < M /\ -M < M * d
  BY <1>1, <1>2
<1>4. d = 0
  <2> HIDE DEF d
  <2>1. QED  BY <1>3, SmallMultiple
<1>5. QED  BY <1>1, <1>2, <1>4

(* A set of integers that is bounded below has a least element.            *)
LEMMA LeastExists ==
  ASSUME NEW S, S \subseteq Int, S # {}, NEW b \in Int, \A x \in S : b <= x
  PROVE  \E x \in S : \A y \in S : x <= y
<1> DEFINE R == OpToRel(<, Nat)
           T == {x - b : x \in S}
<1>1. T \subseteq Nat /\ T # {}
  <2>1. T \subseteq Nat
    <3>1. \A x \in S : x - b \in Nat
      OBVIOUS
    <3>2. QED  BY <3>1
  <2>2. T # {}
    BY Zenon
  <2>3. QED  BY <2>1, <2>2
<1>2. IsWellFoundedOn(R, Nat)
  BY NatLessThanWellFounded
<1>3. PICK m \in T : \A y \in T : ~ (<<y, m>> \in R)
  <2> HIDE DEF R, T
  <2>1. QED  BY <1>1, <1>2, WFMin
<1>4. \A y \in T : m <= y
  <2>1. R = {p \in Nat \X Nat : p[1] < p[2]}
    BY DEF OpToRel
  <2> HIDE DEF R, T
  <2>2. \A y \in T : ~ (y < m)
    BY <1>1, <1>3, <2>1
  <2>3. QED  BY <1>1, <2>2
<1>5. PICK x \in S : m = x - b
  OBVIOUS
<1>6. \A y \in S : x <= y
  <2> TAKE y \in S
  <2>1. y - b \in T
    OBVIOUS
  <2>2. m <= y - b
    BY <2>1, <1>4
  <2>3. QED  BY <2>2, <1>5
<1>7. QED  BY <1>6

-----------------------------------------------------------------------------
Event == {SIO, NEWDRC_CHECK} \cup {EventOf(n) : n \in Chan}
Dreg == [on : BOOLEAN, mode : {"fit", "odd", "far", "list"}, len : Nat]
MdecState == [cmd : {"none", "decode", "table"}, busy : BOOLEAN, rl : Int, end : Nat, held : Int,
              pending_dma1 : Dreg, decoded : Int, given : Int, want : Int, got : Int,
              bork : BOOLEAN]
Effect == [reg : [Chan -> Dreg], post : SUBSET Event, done : SUBSET Chan, mdec : MdecState,
           left : Nat, moved : [Chan -> {"none", "all", "list"}]]

IcrState == [enable : SUBSET Chan, global : BOOLEAN, bus : BOOLEAN, flags : SUBSET Chan,
             sent : BOOLEAN]

KnownModes(rg, md) == /\ \A n \in Chan : rg[n].mode \in Modes(n)
                      /\ md.pending_dma1.mode # "list"

TypeOK ==
  /\ reg \in [Chan -> Dreg] /\ mdec \in MdecState /\ KnownModes(reg, mdec)
  /\ pcr \subseteq Chan /\ icr \in IcrState
  /\ istat \subseteq Irq /\ imask \subseteq Irq /\ cause \in BOOLEAN
  /\ pending \subseteq Event /\ bits \subseteq pending
  /\ todo \subseteq Chan /\ pc \in {"run", "start", "test"}
  /\ left \in Nat /\ moved \in [Chan -> {"none", "all", "list"}] /\ lost \subseteq Chan
  /\ owed \in BOOLEAN /\ ops \in 0 .. MaxOps /\ irqops \in 0 .. MaxIrqOps

(* The interrupt line: what Cause shows is pending and not masked, even    *)
(* while the handlers of irq_test run                                      *)
LineInv ==
  /\ icr.sent <=> icr.bus \/ (icr.global /\ icr.flags # {})
  /\ DMA \in istat <=> owed
  /\ cause => istat \cap imask # {}

(* What is known of the transfers of registers rg, decoder md and posted   *)
(* events pend, of which mv have moved their data and gone were dropped:   *)
(* an event is posted for a transfer that has moved its data, and without  *)
(* its event a busy channel has yet to move them or waits for the decoder  *)
Tidy(rg, md, mv, pend, gone) ==
  /\ md.busy => rg[0].on /\ mv[0] = "list"
  /\ 4 \in pend /\ rg[0].on => mv[0] # "none"
  /\ \A n \in Chan : rg[n].on /\ EventOf(n) \in pend =>
       mv[n] = "all" \/ (n = 2 /\ mv[n] = "list" /\ rg[n].mode = "list")
  /\ \A n \in Chan : rg[n].on /\ EventOf(n) \notin pend /\ n \notin gone =>
       mv[n] = "none" \/ (n = 0 /\ md.busy)

Waits(md) == md.pending_dma1.on => ~md.busy

TransferInv ==
  /\ Tidy(reg, mdec, moved, pending, lost) /\ Waits(mdec)
  /\ 0 \in todo => reg[0].on /\ moved[0] = "none"
  /\ pc # "start" => todo = {}

(* The units given so far are those decoded, but for what is held of the   *)
(* last block                                                              *)
Stream(md) == /\ md.got = md.want
              /\ md.decoded * BlockUnits - md.held = md.given
StreamInv == Stream(mdec)

-----------------------------------------------------------------------------
(* What the steps of a start or a handler change of an effect *)

LEMMA OffIs ==
  ASSUME NEW e \in Effect, NEW n \in Chan
  PROVE  /\ Off(e, n) \in Effect
         /\ Off(e, n).reg = [e.reg EXCEPT ![n].on = FALSE]
         /\ Off(e, n).post = e.post /\ Off(e, n).done = e.done /\ Off(e, n).mdec = e.mdec
         /\ Off(e, n).left = e.left /\ Off(e, n).moved = e.moved
BY DEF Off, Effect, Dreg

LEMMA MovedIs ==
  ASSUME NEW e \in Effect, NEW n \in Chan, NEW what \in {"none", "all", "list"}
  PROVE  /\ Moved(e, n, what) \in Effect
         /\ Moved(e, n, what).moved = [e.moved EXCEPT ![n] = what]
         /\ Moved(e, n, what).reg = e.reg
         /\ Moved(e, n, what).post = e.post /\ Moved(e, n, what).done = e.done
         /\ Moved(e, n, what).mdec = e.mdec /\ Moved(e, n, what).left = e.left
BY DEF Moved, Effect

LEMMA PostedIs ==
  ASSUME NEW e \in Effect, NEW n \in Chan
  PROVE  /\ Posted(e, n) \in Effect
         /\ Posted(e, n).post = e.post \cup {EventOf(n)}
         /\ Posted(e, n).reg = e.reg /\ Posted(e, n).moved = e.moved
         /\ Posted(e, n).done = e.done
         /\ Posted(e, n).mdec = e.mdec /\ Posted(e, n).left = e.left
BY DmaAssumption DEF Posted, Effect, EventOf, Event

LEMMA EndedIs ==
  ASSUME NEW e \in Effect, NEW n \in Chan
  PROVE  /\ Ended(e, n) \in Effect
         /\ Ended(e, n).reg = [e.reg EXCEPT ![n].on = FALSE]
         /\ Ended(e, n).done \subseteq e.done \cup {n}
         /\ Ended(e, n).post = e.post /\ Ended(e, n).mdec = e.mdec
         /\ Ended(e, n).left = e.left /\ Ended(e, n).moved = e.moved
<1>1. CASE e.reg[n].on
  BY <1>1, OffIs DEF Ended, Effect
<1>2. CASE ~e.reg[n].on
  BY <1>2 DEF Ended, Effect, Dreg
<1>3. QED  BY <1>1, <1>2

LEMMA WithMdec ==
  ASSUME NEW e \in Effect, NEW m \in MdecState
  PROVE  LET f == [e EXCEPT !.mdec = m]
         IN /\ f \in Effect /\ f.mdec = m
            /\ f.reg = e.reg /\ f.post = e.post /\ f.done = e.done
            /\ f.left = e.left /\ f.moved = e.moved
BY DEF Effect

(* The whole blocks that hold what is asked for, less the rest of the last *)
LEMMA BlocksAre ==
  ASSUME NEW x \in Int
  PROVE  LET rest == x % BlockUnits
             blocks == (x + BlockUnits - 1) \div BlockUnits
         IN blocks \in Int /\ blocks * BlockUnits = x + (IF rest = 0 THEN 0 ELSE BlockUnits - rest)
<1> DEFINE B == BlockUnits
           r == x % B
           q == x \div B
           y == x + B - 1
<1>1. B \in Nat \ {0}
  BY DmaAssumption
<1>2. r \in 0 .. B - 1 /\ q \in Int /\ x = B * q + r
  BY <1>1, Euclid
<1>a. y \in Int
  BY <1>1
<1>b. \A z \in Int : z % B \in 0 .. B - 1 /\ z \div B \in Int /\ z = B * (z \div B) + (z % B)
  BY <1>1, Euclid
<1> HIDE DEF q, r
<1>3. y \in Int /\ y % B \in 0 .. B - 1 /\ y \div B \in Int /\ y = B * (y \div B) + (y % B)
  BY <1>a, <1>b, Zenon
<1>4. B * (y \div B) = IF r = 0 THEN B * q ELSE B * q + B
  <2>1. CASE r = 0
    <3>1. y = B * q + (B - 1)
      BY <1>1, <1>2, <2>1
    <3>2. y % B = B - 1
      BY <1>1, <1>2, <1>3, <3>1, UniqueRemainder
    <3>3. QED  BY <1>1, <1>2, <1>3, <2>1, <3>1, <3>2
  <2>2. CASE r # 0
    <3>1. B * (q + 1) = B * q + B
      BY <1>1, <1>2, SMTT(20)
    <3>2. y = B * (q + 1) + (r - 1)
      BY <1>1, <1>2, <3>1
    <3>3. y % B = r - 1
      BY <1>1, <1>2, <1>3, <2>2, <3>2, UniqueRemainder
    <3>4. QED  BY <1>1, <1>2, <1>3, <2>2, <3>1, <3>2, <3>3
  <2>3. QED  BY <2>1, <2>2
<1>5. (y \div B) * B = B * (y \div B)
  BY <1>1, <1>3, SMTT(20)
<1>6. B * q \in Int
  BY <1>1, <1>2
<1>7. (y \div B) * B = x + (IF r = 0 THEN 0 ELSE B - r)
  BY <1>1, <1>2, <1>4, <1>5, <1>6
<1>8. QED  BY <1>3, <1>7, Zenon DEF r

LEMMA DecodedIs ==
  ASSUME NEW m \in MdecState, NEW units \in Nat
  PROVE  /\ Decoded(m, units) \in MdecState
         /\ Decoded(m, units).busy = m.busy
         /\ Decoded(m, units).pending_dma1 = m.pending_dma1
         /\ Stream(m) => Stream(Decoded(m, units))
<1> DEFINE x == units - m.held
           blocks == (x + BlockUnits - 1) \div BlockUnits
           held == IF x % BlockUnits = 0 THEN 0 ELSE BlockUnits - (x % BlockUnits)
           short == units < m.held
           got == m.decoded * BlockUnits - m.held
           d == Decoded(m, units)
<1>1. BlockUnits \in Nat \ {0} /\ m.held \in Int /\ x \in Int
  BY DmaAssumption DEF MdecState
<1>2. blocks \in Int /\ held \in Int /\ blocks * BlockUnits = x + held
  <2>1. blocks \in Int /\ blocks * BlockUnits = x + held
    BY <1>1, BlocksAre, Zenon
  <2>2. x % BlockUnits \in Int
    BY <1>1, Euclid
  <2>3. QED  BY <1>1, <2>1, <2>2
<1>3. short \in BOOLEAN
  OBVIOUS
<1> HIDE DEF blocks, held, short, got
<1>4. d = [m EXCEPT !.rl = @ + blocks, !.decoded = @ + blocks, !.held = held,
                    !.given = @ + units, !.want = m.given, !.got = got,
                    !.bork = short]
  BY <1>1 DEF Decoded, Held, blocks, held, short, got
<1>5. m.decoded * BlockUnits \in Int
  BY <1>1 DEF MdecState
<1> HIDE DEF d
<1>6. /\ d.busy = m.busy /\ d.pending_dma1 = m.pending_dma1
      /\ d.decoded = m.decoded + blocks /\ d.held = held /\ d.given = m.given + units
      /\ d.want = m.given /\ d.got = m.decoded * BlockUnits - m.held
  BY <1>4 DEF MdecState, got
<1>7. d \in MdecState
  <2> DEFINE c == [m EXCEPT !.rl = @ + blocks, !.decoded = @ + blocks, !.held = held,
                            !.given = @ + units, !.want = m.given,
                            !.got = got]
  <2>1. c \in MdecState
    <3>1. got \in Int
      BY <1>1, <1>5 DEF got
    <3>2. /\ m.rl + blocks \in Int /\ m.decoded + blocks \in Int
          /\ m.given + units \in Int /\ m.given \in Int /\ held \in Int
      BY <1>2 DEF MdecState
    <3>3. ASSUME NEW rl \in Int, NEW dec \in Int, NEW giv \in Int, NEW want \in Int,
                 NEW hel \in Int, NEW go \in Int
          PROVE  [m EXCEPT !.rl = rl, !.decoded = dec, !.held = hel, !.given = giv,
                           !.want = want, !.got = go] \in MdecState
      BY DEF MdecState
    <3>4. QED  BY <3>1, <3>2, <3>3
  <2>2. d = [c EXCEPT !.bork = short]
    BY <1>4 DEF MdecState
  <2>3. QED  BY <1>3, <2>1, <2>2 DEF MdecState
<1>8. ASSUME Stream(m) PROVE Stream(d)
  <2>1. (m.decoded + blocks) * BlockUnits = m.decoded * BlockUnits + blocks * BlockUnits
    BY <1>1, <1>2, SMTT(20) DEF MdecState
  <2>2. m.given \in Int /\ m.decoded \in Int
    BY DEF MdecState
  <2>3. QED  BY <1>1, <1>2, <1>5, <1>6, <1>8, <2>1, <2>2 DEF Stream
<1>9. QED  BY <1>6, <1>7, <1>8 DEF d

-----------------------------------------------------------------------------
(* What a start or a handler keeps *)
Sound(e) == e \in Effect /\ KnownModes(e.reg, e.mdec)
TidyEffect(e, pend, gone) == Tidy(e.reg, e.mdec, e.moved, pend \cup e.post, gone)

LEMMA Chans == /\ 0 \in Chan /\ 1 \in Chan /\ Chan \subseteq {0, 1, 2, 4, 6}
               /\ EventOf(0) = 7 /\ EventOf(1) = 4
               /\ 2 \in Chan => EventOf(2) = 3
               /\ 4 \in Chan => EventOf(4) = 5
               /\ 6 \in Chan => EventOf(6) = 8
               /\ \A n \in Chan : EventOf(n) \in Event /\ EventOf(n) \notin {SIO, NEWDRC_CHECK}
               /\ \A n, k \in Chan : EventOf(n) = EventOf(k) => n = k
BY DmaAssumption DEF EventOf, Event, SIO, NEWDRC_CHECK

LEMMA NoDmaIs == NoDma \in Dreg /\ ~NoDma.on /\ NoDma.mode = "fit"
BY DEF NoDma, Dreg

LEMMA Dma1Is ==
  ASSUME NEW e \in Effect, NEW r \in Dreg, r.mode # "list"
  PROVE  LET f == Dma1(e, r)
         IN \/ f = e
            \/ ~e.mdec.busy /\ f = [e EXCEPT !.mdec = [e.mdec EXCEPT !.pending_dma1 = r]]
            \/ e.mdec.busy /\ f = Off(e, 1)
            \/ e.mdec.busy /\ f = Posted(Moved([e EXCEPT !.mdec = Decoded(e.mdec, r.len)], 1, "all"), 1)
<1>1. r.mode \in {"fit", "odd", "far"}
  BY DEF Dreg
<1>2. CASE r.mode = "odd"
  BY <1>2 DEF Dma1
<1>3. CASE r.mode # "odd" /\ ~e.mdec.busy
  BY <1>3 DEF Dma1, Effect
<1>4. CASE r.mode = "far" /\ e.mdec.busy
  BY <1>4 DEF Dma1
<1>5. CASE r.mode = "fit" /\ e.mdec.busy
  BY <1>5 DEF Dma1, Effect
<1>6. QED  BY <1>1, <1>2, <1>3, <1>4, <1>5

LEMMA Dma1Keeps ==
  ASSUME NEW e, Sound(e), NEW r \in Dreg, r.mode # "list"
  PROVE  LET f == Dma1(e, r)
         IN /\ Sound(f) /\ f.done = e.done /\ f.left = e.left
            /\ Stream(e.mdec) => Stream(f.mdec)
            /\ Waits(e.mdec) => Waits(f.mdec)
            /\ \A pend \in SUBSET Event, gone \in SUBSET Chan :
                 TidyEffect(e, pend, gone) => TidyEffect(f, pend, gone)
<1> DEFINE f == Dma1(e, r)
<1>0. e \in Effect /\ e.mdec \in MdecState /\ KnownModes(e.reg, e.mdec)
  BY DEF Sound, Effect
<1>1. CASE f = e
  BY <1>1 DEF Sound
<1>2. CASE ~e.mdec.busy /\ f = [e EXCEPT !.mdec = [e.mdec EXCEPT !.pending_dma1 = r]]
  <2> DEFINE m == [e.mdec EXCEPT !.pending_dma1 = r]
  <2>1. /\ m \in MdecState /\ m.pending_dma1 = r /\ m.busy = e.mdec.busy
        /\ m.got = e.mdec.got /\ m.want = e.mdec.want /\ m.decoded = e.mdec.decoded
        /\ m.held = e.mdec.held /\ m.given = e.mdec.given
    BY <1>0 DEF MdecState
  <2> HIDE DEF m
  <2>2. /\ f \in Effect /\ f.mdec = m
        /\ f.reg = e.reg /\ f.post = e.post /\ f.done = e.done
        /\ f.left = e.left /\ f.moved = e.moved
    BY <1>0, <1>2, <2>1, WithMdec DEF m
  <2> HIDE DEF f
  <2>3. Sound(f)
    BY <1>0, <2>1, <2>2 DEF Sound, KnownModes
  <2>4. Stream(f.mdec) <=> Stream(e.mdec)
    BY <2>1, <2>2 DEF Stream
  <2>5. Waits(f.mdec)
    BY <1>2, <2>1, <2>2 DEF Waits
  <2>6. \A pend, gone : TidyEffect(e, pend, gone) => TidyEffect(f, pend, gone)
    BY <2>1, <2>2 DEF TidyEffect, Tidy
  <2>7. QED  BY <2>2, <2>3, <2>4, <2>5, <2>6 DEF f
<1>3. CASE e.mdec.busy /\ f = Off(e, 1)
  <2>1. /\ f \in Effect /\ f.reg = [e.reg EXCEPT ![1].on = FALSE]
        /\ f.post = e.post /\ f.done = e.done /\ f.mdec = e.mdec
        /\ f.left = e.left /\ f.moved = e.moved
    BY <1>0, <1>3, OffIs, Chans
  <2> HIDE DEF f
  <2>2. \A n \in Chan : /\ f.reg[n].mode = e.reg[n].mode
                        /\ f.reg[n].on => e.reg[n].on
                        /\ n # 1 => f.reg[n] = e.reg[n]
    BY <1>0, <2>1 DEF Effect, Dreg
  <2>3. Sound(f)
    BY <1>0, <2>1, <2>2 DEF Sound, KnownModes
  <2>4. \A pend, gone : TidyEffect(e, pend, gone) => TidyEffect(f, pend, gone)
    BY <2>1, <2>2, Chans DEF TidyEffect, Tidy
  <2>5. QED  BY <2>1, <2>3, <2>4 DEF f
<1>4. CASE e.mdec.busy /\ f = Posted(Moved([e EXCEPT !.mdec = Decoded(e.mdec, r.len)], 1, "all"), 1)
  <2> DEFINE m == Decoded(e.mdec, r.len)
             g == [e EXCEPT !.mdec = m]
             h == Moved(g, 1, "all")
  <2>1. /\ m \in MdecState /\ m.busy = e.mdec.busy /\ m.pending_dma1 = e.mdec.pending_dma1
        /\ Stream(e.mdec) => Stream(m)
    BY <1>0, DecodedIs DEF Dreg
  <2> HIDE DEF m
  <2>2. /\ g \in Effect /\ g.mdec = m
        /\ g.reg = e.reg /\ g.post = e.post /\ g.done = e.done
        /\ g.left = e.left /\ g.moved = e.moved
    BY <1>0, <2>1, WithMdec
  <2> HIDE DEF g
  <2>3. /\ h \in Effect /\ h.moved = [g.moved EXCEPT ![1] = "all"]
        /\ h.reg = g.reg /\ h.post = g.post /\ h.done = g.done
        /\ h.mdec = g.mdec /\ h.left = g.left
    BY <2>2, MovedIs, Chans
  <2> HIDE DEF h
  <2>4. /\ f \in Effect /\ f.post = h.post \cup {4}
        /\ f.reg = h.reg /\ f.moved = h.moved /\ f.done = h.done
        /\ f.mdec = h.mdec /\ f.left = h.left
    BY <1>4, <2>3, PostedIs, Chans DEF m, g, h
  <2> HIDE DEF f
  <2>5. Sound(f)
    BY <1>0, <2>1, <2>2, <2>3, <2>4 DEF Sound, KnownModes
  <2>6. \A n \in Chan : f.moved[n] = IF n = 1 THEN "all" ELSE e.moved[n]
    BY <2>2, <2>3, <2>4, Chans DEF Effect
  <2>7. ASSUME NEW pend, NEW gone, TidyEffect(e, pend, gone) PROVE TidyEffect(f, pend, gone)
    <3>1. f.reg = e.reg /\ f.mdec.busy /\ e.mdec.busy /\ f.post = e.post \cup {4}
      BY <1>4, <2>1, <2>2, <2>3, <2>4
    <3>2. e.moved[0] = "list" /\ f.moved[0] = "list" /\ f.reg[0].on
      BY <2>6, <2>7, <3>1, Chans DEF TidyEffect, Tidy
    <3>3. \A n \in Chan : n # 1 => (EventOf(n) \in pend \cup f.post <=> EventOf(n) \in pend \cup e.post)
      <4>1. \A n \in Chan : n # 1 => EventOf(n) # 4
        BY Chans
      <4>2. QED  BY <3>1, <4>1
    <3>4. QED  BY <2>6, <2>7, <3>1, <3>2, <3>3, Chans DEF TidyEffect, Tidy
  <2>8. QED  BY <2>1, <2>2, <2>3, <2>4, <2>5, <2>7 DEF f, Waits
<1>5. QED  BY <1>0, <1>1, <1>2, <1>3, <1>4, Dma1Is

LEMMA ResumedKeeps ==
  ASSUME NEW e, Sound(e)
  PROVE  LET f == Resumed(e)
         IN /\ Sound(f) /\ Waits(f.mdec)
            /\ Stream(e.mdec) => Stream(f.mdec)
            /\ \A pend \in SUBSET Event, gone \in SUBSET Chan :
                 TidyEffect(e, pend, gone) => TidyEffect(f, pend, gone)
<1>1. CASE ~e.mdec.pending_dma1.on
  BY <1>1 DEF Resumed, Waits
<1>2. CASE e.mdec.pending_dma1.on
  <2> DEFINE r == e.mdec.pending_dma1
             g == Dma1(e, r)
             m == [g.mdec EXCEPT !.pending_dma1 = NoDma]
             f == Resumed(e)
  <2>1. r \in Dreg /\ r.mode # "list"
    BY DEF Sound, Effect, MdecState, KnownModes
  <2>2. /\ Sound(g)
        /\ Stream(e.mdec) => Stream(g.mdec)
        /\ \A pend \in SUBSET Event, gone \in SUBSET Chan :
             TidyEffect(e, pend, gone) => TidyEffect(g, pend, gone)
    BY <2>1, Dma1Keeps
  <2>3. g \in Effect /\ g.mdec \in MdecState
    BY <2>2 DEF Sound, Effect
  <2>4. f = [g EXCEPT !.mdec = m]
    BY <1>2, <2>3 DEF Resumed, Effect
  <2> HIDE DEF g
  <2>5. /\ m \in MdecState /\ m.pending_dma1 = NoDma /\ m.busy = g.mdec.busy
        /\ m.got = g.mdec.got /\ m.want = g.mdec.want /\ m.decoded = g.mdec.decoded
        /\ m.held = g.mdec.held /\ m.given = g.mdec.given
    BY <2>3, NoDmaIs DEF MdecState
  <2> HIDE DEF m
  <2>6. /\ f \in Effect /\ f.mdec = m /\ f.reg = g.reg /\ f.post = g.post /\ f.moved = g.moved
    BY <2>3, <2>4, <2>5, WithMdec
  <2> HIDE DEF f
  <2>7. Sound(f) /\ Waits(f.mdec)
    BY <2>2, <2>5, <2>6, NoDmaIs DEF Sound, KnownModes, Waits
  <2>8. Stream(g.mdec) => Stream(f.mdec)
    BY <2>5, <2>6 DEF Stream
  <2>9. \A pend, gone : TidyEffect(g, pend, gone) => TidyEffect(f, pend, gone)
    BY <2>5, <2>6 DEF TidyEffect, Tidy
  <2>10. QED  BY <2>2, <2>7, <2>8, <2>9 DEF f
<1>3. QED  BY <1>1, <1>2

LEMMA Dma0Keeps ==
  ASSUME NEW e, Sound(e)
  PROVE  LET f == Dma0(e, e.reg[0])
         IN /\ Sound(f)
            /\ Stream(e.mdec) => Stream(f.mdec)
            /\ Waits(e.mdec) => Waits(f.mdec)
            /\ \A pend \in SUBSET Event, gone \in SUBSET Chan :
                 e.reg[0].on /\ e.moved[0] = "none" /\ TidyEffect(e, pend, gone)
                   => TidyEffect(f, pend, gone)
<1> DEFINE r == e.reg[0]
           f == Dma0(e, r)
<1>0. /\ e \in Effect /\ e.mdec \in MdecState /\ KnownModes(e.reg, e.mdec) /\ r \in Dreg
      /\ r.mode \in {"fit", "odd", "far"}
  BY Chans DEF Sound, Effect, KnownModes, Modes
<1>1. CASE r.mode = "odd"
  BY <1>1 DEF Dma0
<1>2. CASE r.mode = "far"
  <2>1. /\ f \in Effect /\ f.reg = [e.reg EXCEPT ![0].on = FALSE]
        /\ f.post = e.post /\ f.mdec = e.mdec /\ f.moved = e.moved
    BY <1>0, <1>2, OffIs, Chans DEF Dma0
  <2> HIDE DEF f
  <2>2. \A n \in Chan : /\ f.reg[n].mode = e.reg[n].mode
                        /\ f.reg[n].on => e.reg[n].on
                        /\ n # 0 => f.reg[n] = e.reg[n]
                        /\ ~f.reg[0].on
    BY <1>0, <2>1, Chans DEF Effect, Dreg
  <2>3. Sound(f)
    BY <1>0, <2>1, <2>2 DEF Sound, KnownModes
  <2>4. ASSUME NEW pend, NEW gone, e.reg[0].on, e.moved[0] = "none", TidyEffect(e, pend, gone)
        PROVE  TidyEffect(f, pend, gone)
    BY <2>1, <2>2, <2>4, Chans DEF TidyEffect, Tidy
  <2>5. QED  BY <2>1, <2>3, <2>4 DEF f
<1>3. CASE r.mode = "fit" /\ e.mdec.cmd = "decode"
  <2> DEFINE m == [e.mdec EXCEPT !.busy = TRUE, !.rl = 0, !.end = r.len]
             g == [e EXCEPT !.mdec = m]
             h == Moved(g, 0, "list")
  <2>1. /\ m \in MdecState /\ m.busy /\ m.pending_dma1 = e.mdec.pending_dma1
        /\ m.got = e.mdec.got /\ m.want = e.mdec.want /\ m.decoded = e.mdec.decoded
        /\ m.held = e.mdec.held /\ m.given = e.mdec.given
    <3>1. r.len \in Nat
      BY <1>0 DEF Dreg
    <3>2. /\ m.busy /\ m.pending_dma1 = e.mdec.pending_dma1
          /\ m.got = e.mdec.got /\ m.want = e.mdec.want /\ m.decoded = e.mdec.decoded
          /\ m.held = e.mdec.held /\ m.given = e.mdec.given
      BY <1>0 DEF MdecState
    <3>3. ASSUME NEW b \in BOOLEAN, NEW rl \in Int, NEW end \in Nat
          PROVE  [e.mdec EXCEPT !.busy = b, !.rl = rl, !.end = end] \in MdecState
      BY <1>0 DEF MdecState
    <3>4. TRUE \in BOOLEAN /\ 0 \in Int
      OBVIOUS
    <3>5. m \in MdecState
      BY <3>1, <3>3, <3>4, Zenon
    <3>6. QED  BY <3>2, <3>5, Zenon
  <2>2. [e EXCEPT !.mdec.busy = TRUE, !.mdec.rl = 0, !.mdec.end = r.len] = g
    BY <1>0 DEF Effect, MdecState
  <2>3. f = Resumed(h)
    BY <1>3, <2>2 DEF Dma0
  <2> HIDE DEF m
  <2>4. /\ g \in Effect /\ g.mdec = m
        /\ g.reg = e.reg /\ g.post = e.post /\ g.moved = e.moved
    BY <1>0, <2>1, WithMdec
  <2> HIDE DEF g
  <2>5. /\ h \in Effect /\ h.moved = [g.moved EXCEPT ![0] = "list"]
        /\ h.reg = g.reg /\ h.post = g.post /\ h.mdec = g.mdec
    BY <2>4, MovedIs, Chans
  <2> HIDE DEF h
  <2>6. Sound(h) /\ (Stream(e.mdec) => Stream(h.mdec))
    BY <1>0, <2>1, <2>4, <2>5 DEF Sound, KnownModes, Stream
  <2>7. \A n \in Chan : h.moved[n] = IF n = 0 THEN "list" ELSE e.moved[n]
    BY <2>4, <2>5, Chans DEF Effect
  <2>8. ASSUME NEW pend, NEW gone, e.reg[0].on, e.moved[0] = "none", TidyEffect(e, pend, gone)
        PROVE  TidyEffect(h, pend, gone)
    <3>1. h.reg = e.reg /\ h.post = e.post /\ h.mdec.busy
      BY <2>1, <2>4, <2>5
    <3>2. ~e.mdec.busy /\ 7 \notin pend \cup e.post /\ h.moved[0] = "list"
      BY <2>7, <2>8, Chans DEF TidyEffect, Tidy
    <3>3. QED  BY <2>7, <2>8, <3>1, <3>2, Chans DEF TidyEffect, Tidy
  <2> HIDE DEF f
  <2>9. QED  BY <2>3, <2>6, <2>8, ResumedKeeps DEF f
<1>4. CASE r.mode = "fit" /\ e.mdec.cmd # "decode"
  <2> DEFINE h == Moved(e, 0, "all")
  <2>1. /\ h \in Effect /\ h.moved = [e.moved EXCEPT ![0] = "all"]
        /\ h.reg = e.reg /\ h.post = e.post /\ h.mdec = e.mdec
    BY <1>0, MovedIs, Chans
  <2>2. f = Posted(h, 0)
    BY <1>4 DEF Dma0
  <2> HIDE DEF h, f
  <2>3. /\ f \in Effect /\ f.post = h.post \cup {7}
        /\ f.reg = h.reg /\ f.moved = h.moved /\ f.mdec = h.mdec
    BY <2>1, <2>2, PostedIs, Chans
  <2>4. Sound(f)
    BY <1>0, <2>1, <2>3 DEF Sound
  <2>5. \A n \in Chan : f.moved[n] = IF n = 0 THEN "all" ELSE e.moved[n]
    BY <1>0, <2>1, <2>3, Chans DEF Effect
  <2>6. ASSUME NEW pend, NEW gone, e.reg[0].on, e.moved[0] = "none", TidyEffect(e, pend, gone)
        PROVE  TidyEffect(f, pend, gone)
    <3>1. f.reg = e.reg /\ f.post = e.post \cup {7} /\ f.mdec = e.mdec
      BY <2>1, <2>3
    <3>2. ~e.mdec.busy /\ f.moved[0] = "all"
      BY <2>5, <2>6, Chans DEF TidyEffect, Tidy
    <3>3. \A n \in Chan : n # 0 => (EventOf(n) \in pend \cup f.post <=> EventOf(n) \in pend \cup e.post)
      <4>1. \A n \in Chan : n # 0 => EventOf(n) # 7
        BY Chans
      <4>2. QED  BY <3>1, <4>1
    <3>4. QED  BY <2>5, <2>6, <3>1, <3>2, <3>3, Chans DEF TidyEffect, Tidy
  <2>7. QED  BY <2>1, <2>3, <2>4, <2>6 DEF f
<1>5. QED  BY <1>0, <1>1, <1>2, <1>3, <1>4

(* A transfer that has moved its data and posts its event *)
LEMMA MovedAndPosted ==
  ASSUME NEW e, Sound(e), NEW n \in Chan \ {0, 1}, NEW what \in {"all", "list"},
         what = "list" => n = 2 /\ e.reg[n].mode = "list"
  PROVE  LET f == Posted(Moved(e, n, what), n)
         IN /\ Sound(f) /\ f.mdec = e.mdec
            /\ \A pend \in SUBSET Event, gone \in SUBSET Chan :
                 TidyEffect(e, pend, gone) => TidyEffect(f, pend, gone)
<1> DEFINE h == Moved(e, n, what)
           f == Posted(h, n)
<1>0. e \in Effect /\ KnownModes(e.reg, e.mdec)
  BY DEF Sound
<1>a. n \in Chan /\ what \in {"none", "all", "list"}
  OBVIOUS
<1>1. /\ h \in Effect /\ h.moved = [e.moved EXCEPT ![n] = what]
      /\ h.reg = e.reg /\ h.post = e.post /\ h.mdec = e.mdec
  BY <1>0, <1>a DEF Moved, Effect
<1> HIDE DEF h
<1>2. /\ f \in Effect /\ f.post = h.post \cup {EventOf(n)}
      /\ f.reg = h.reg /\ f.moved = h.moved /\ f.mdec = h.mdec
  BY <1>1, PostedIs
<1> HIDE DEF f
<1>3. Sound(f)
  BY <1>0, <1>1, <1>2 DEF Sound
<1>4. \A k \in Chan : f.moved[k] = IF k = n THEN what ELSE e.moved[k]
  BY <1>0, <1>1, <1>2 DEF Effect
<1>5. ASSUME NEW pend, NEW gone, TidyEffect(e, pend, gone)
      PROVE  TidyEffect(f, pend, gone)
  <2>1. f.reg = e.reg /\ f.post = e.post \cup {EventOf(n)} /\ f.mdec = e.mdec
    BY <1>1, <1>2
  <2>2. f.moved[0] = e.moved[0] /\ (4 \in pend \cup f.post <=> 4 \in pend \cup e.post)
    BY <1>4, <2>1, Chans
  <2>3. \A k \in Chan : k # n => (EventOf(k) \in pend \cup f.post <=> EventOf(k) \in pend \cup e.post)
    <3>1. \A k \in Chan : k # n => EventOf(k) # EventOf(n)
      BY Chans
    <3>2. QED  BY <2>1, <3>1
  <2>4. QED  BY <1>4, <1>5, <2>1, <2>2, <2>3 DEF TidyEffect, Tidy
<1>6. QED  BY <1>1, <1>2, <1>3, <1>5 DEF f, h

LEMMA EndedKeeps ==
  ASSUME NEW e, Sound(e), NEW n \in Chan
  PROVE  LET f == Ended(e, n)
         IN /\ Sound(f) /\ f.mdec = e.mdec
            /\ \A k \in Chan : f.reg[k].on <=> e.reg[k].on /\ k # n
            /\ \A pend \in SUBSET Event, gone \in SUBSET Chan :
                 (n = 0 => ~e.mdec.busy) /\ TidyEffect(e, pend, gone) => TidyEffect(f, pend, gone)
<1> DEFINE f == Ended(e, n)
<1>0. e \in Effect /\ KnownModes(e.reg, e.mdec)
  BY DEF Sound
<1>1. /\ f \in Effect /\ f.reg = [e.reg EXCEPT ![n].on = FALSE]
      /\ f.post = e.post /\ f.mdec = e.mdec /\ f.moved = e.moved
  BY <1>0, EndedIs
<1> HIDE DEF f
<1>2. \A k \in Chan : /\ f.reg[k].mode = e.reg[k].mode
                      /\ f.reg[k].on <=> e.reg[k].on /\ k # n
  BY <1>0, <1>1 DEF Effect, Dreg
<1>3. Sound(f)
  BY <1>0, <1>1, <1>2 DEF Sound, KnownModes
<1>4. ASSUME NEW pend, NEW gone, n = 0 => ~e.mdec.busy, TidyEffect(e, pend, gone)
      PROVE  TidyEffect(f, pend, gone)
  BY <1>1, <1>2, <1>4, Chans DEF TidyEffect, Tidy
<1>5. QED  BY <1>1, <1>2, <1>3, <1>4 DEF f

LEMMA WithLeft ==
  ASSUME NEW e, Sound(e), NEW k \in Nat
  PROVE  LET f == [e EXCEPT !.left = k]
         IN /\ Sound(f) /\ f.mdec = e.mdec /\ f.reg = e.reg /\ f.post = e.post
            /\ f.moved = e.moved
<1> DEFINE f == [e EXCEPT !.left = k]
<1>1. /\ f \in Effect /\ f.mdec = e.mdec /\ f.reg = e.reg /\ f.post = e.post
      /\ f.moved = e.moved
  BY DEF Sound, Effect
<1> HIDE DEF f
<1>2. Sound(f)
  BY <1>1 DEF Sound
<1>3. QED  BY <1>1, <1>2 DEF f

LEMMA Dma2Keeps ==
  ASSUME NEW e, Sound(e), 2 \in Chan, NEW f \in Dma2(e, e.reg[2])
  PROVE  /\ Sound(f) /\ f.mdec = e.mdec
         /\ \A pend \in SUBSET Event, gone \in SUBSET Chan :
              TidyEffect(e, pend, gone) => TidyEffect(f, pend, gone)
<1> DEFINE r == e.reg[2]
<1>1. r \in Dreg /\ r.mode \in {"fit", "odd", "far", "list"}
  BY DEF Sound, Effect, Dreg
<1>2. CASE r.mode = "fit"
  <2> DEFINE g == [e EXCEPT !.left = 0]
  <2>1. /\ Sound(g) /\ g.mdec = e.mdec /\ g.reg = e.reg /\ g.post = e.post /\ g.moved = e.moved
    BY WithLeft
  <2>2. f = Posted(Moved(g, 2, "all"), 2)
    BY <1>2 DEF Dma2
  <2> HIDE DEF g
  <2>3. \A pend, gone : TidyEffect(e, pend, gone) => TidyEffect(g, pend, gone)
    BY <2>1 DEF TidyEffect
  <2>4. QED  BY <2>1, <2>2, <2>3, MovedAndPosted
<1>3. CASE r.mode = "list"
  <2>1. PICK k \in Nat : f = Posted(Moved([e EXCEPT !.left = k], 2, "list"), 2)
    BY <1>1, <1>3 DEF Dma2, Dreg
  <2> DEFINE g == [e EXCEPT !.left = k]
  <2>2. /\ Sound(g) /\ g.mdec = e.mdec /\ g.reg = e.reg /\ g.post = e.post /\ g.moved = e.moved
    BY WithLeft
  <2>3. f = Posted(Moved(g, 2, "list"), 2)
    BY <2>1
  <2> HIDE DEF g
  <2>4. \A pend, gone : TidyEffect(e, pend, gone) => TidyEffect(g, pend, gone)
    BY <2>2 DEF TidyEffect
  <2>5. g.reg[2].mode = "list"
    BY <1>3, <2>2
  <2>6. QED  BY <2>2, <2>3, <2>4, <2>5, MovedAndPosted
<1>4. CASE r.mode \in {"odd", "far"}
  <2>1. f = Ended(e, 2)
    BY <1>4 DEF Dma2
  <2>2. QED  BY <2>1, EndedKeeps
<1>5. QED  BY <1>1, <1>2, <1>3, <1>4

(* A start of a channel, the first one of channel 0 *)
LEMMA StartKeeps ==
  ASSUME NEW e, Sound(e), NEW n \in Chan, NEW f \in psxDma(e, n)
  PROVE  /\ Sound(f)
         /\ Stream(e.mdec) => Stream(f.mdec)
         /\ Waits(e.mdec) => Waits(f.mdec)
         /\ \A pend \in SUBSET Event, gone \in SUBSET Chan :
              /\ n = 0 => e.reg[0].on /\ e.moved[0] = "none"
              /\ TidyEffect(e, pend, gone)
              => TidyEffect(f, pend, gone)
<1>0. n \in {0, 1, 2, 4, 6}
  BY Chans
<1>1. CASE n = 0
  <2>1. f = Dma0(e, e.reg[0])
    BY <1>1 DEF psxDma
  <2>2. QED  BY <1>1, <2>1, Dma0Keeps
<1>2. CASE n = 1
  <2>1. f = Dma1(e, e.reg[1])
    BY <1>2 DEF psxDma
  <2>2. e.reg[1] \in Dreg /\ e.reg[1].mode # "list"
    BY Chans DEF Sound, Effect, KnownModes, Modes
  <2>3. QED  BY <1>2, <2>1, <2>2, Dma1Keeps
<1>3. CASE n = 2
  <2>1. f \in Dma2(e, e.reg[2])
    BY <1>3 DEF psxDma
  <2>2. QED  BY <1>3, <2>1, Dma2Keeps
<1>4. CASE n \in {4, 6}
  <2>1. f = Dma46(e, n, e.reg[n])
    BY <1>4 DEF psxDma
  <2>2. CASE e.reg[n].mode = "fit"
    BY <1>4, <2>1, <2>2, MovedAndPosted DEF Dma46
  <2>3. CASE e.reg[n].mode # "fit"
    BY <1>4, <2>1, <2>3, EndedKeeps DEF Dma46
  <2>4. QED  BY <2>2, <2>3
<1>5. QED  BY <1>0, <1>1, <1>2, <1>3, <1>4

-----------------------------------------------------------------------------
(* What a handler keeps: its event is served.  It ends no transfer that is *)
(* not over.                                                               *)
LEMMA Served ==
  ASSUME NEW f, NEW pend, NEW gone, NEW i, TidyEffect(f, pend, gone),
         \A n \in Chan : f.reg[n].on /\ EventOf(n) = i => i \in f.post
  PROVE  TidyEffect(f, pend \ {i}, gone)
<1>1. \A n \in Chan : f.reg[n].on =>
        (EventOf(n) \in (pend \ {i}) \cup f.post <=> EventOf(n) \in pend \cup f.post)
  OBVIOUS
<1>2. 4 \in (pend \ {i}) \cup f.post => 4 \in pend \cup f.post
  OBVIOUS
<1>3. QED  BY <1>1, <1>2 DEF TidyEffect, Tidy

EndsOver(f) == \A n \in Chan : reg[n].on /\ ~f.reg[n].on => Over(n)

LEMMA OverIs ==
  ASSUME NEW n
  PROVE  /\ moved[n] = "all" => Over(n)
         /\ moved[n] = "list" /\ n = 0 /\ ListOver => Over(n)
         /\ moved[n] = "list" /\ n = 2 /\ left = 0 => Over(n)
<1>1. ASSUME moved[n] = "all" PROVE Over(n)
  BY <1>1 DEF Over
<1>2. ASSUME moved[n] = "list", n = 0, ListOver PROVE Over(n)
  BY <1>2 DEF Over, ListOver
<1>3. ASSUME moved[n] = "list", n = 2, left = 0 PROVE Over(n)
  BY <1>3 DEF Over
<1>4. QED  BY <1>1, <1>2, <1>3

LEMMA StillIs ==
  ASSUME TypeOK
  PROVE  LET e == Still(reg)
         IN /\ Sound(e) /\ e.reg = reg /\ e.post = {} /\ e.done = {} /\ e.mdec = mdec
            /\ e.left = left /\ e.moved = moved
            /\ \A pend, gone : TidyEffect(e, pend, gone) <=> Tidy(reg, mdec, moved, pend, gone)
<1> DEFINE e == Still(reg)
<1>1. /\ e.reg = reg /\ e.post = {} /\ e.done = {} /\ e.mdec = mdec
      /\ e.left = left /\ e.moved = moved
  BY DEF Still
<1>2. e \in Effect
  BY DEF Still, Effect, TypeOK
<1> HIDE DEF e
<1>3. Sound(e)
  BY <1>1, <1>2 DEF Sound, TypeOK
<1>4. \A pend : pend \cup {} = pend
  OBVIOUS
<1>5. QED  BY <1>1, <1>3, <1>4 DEF e, TidyEffect

LEMMA EndedServed ==
  ASSUME TypeOK, NEW n \in Chan
  PROVE  LET f == Ended(Still(reg), n)
         IN /\ Sound(f) /\ f.mdec = mdec
            /\ EventOf(n) \in pending /\ Tidy(reg, mdec, moved, pending, lost) =>
                 /\ TidyEffect(f, pending \ {EventOf(n)}, lost)
                 /\ (n = 2 /\ reg[2].mode = "list" => left = 0) => EndsOver(f)
<1> DEFINE e == Still(reg)
           f == Ended(e, n)
<1>1. /\ Sound(e) /\ e.reg = reg /\ e.mdec = mdec
      /\ \A pend, gone : TidyEffect(e, pend, gone) <=> Tidy(reg, mdec, moved, pend, gone)
  BY StillIs
<1> HIDE DEF e
<1>2. /\ Sound(f) /\ f.mdec = mdec
      /\ \A k \in Chan : f.reg[k].on <=> reg[k].on /\ k # n
      /\ \A pend \in SUBSET Event, gone \in SUBSET Chan :
           (n = 0 => ~mdec.busy) /\ TidyEffect(e, pend, gone) => TidyEffect(f, pend, gone)
  BY <1>1, EndedKeeps
<1> HIDE DEF f
<1>3. ASSUME EventOf(n) \in pending, Tidy(reg, mdec, moved, pending, lost)
      PROVE  /\ TidyEffect(f, pending \ {EventOf(n)}, lost)
             /\ (n = 2 /\ reg[2].mode = "list" => left = 0) => EndsOver(f)
  <2>1. reg[n].on => moved[n] = "all" \/ (n = 2 /\ moved[n] = "list" /\ reg[n].mode = "list")
    BY <1>3 DEF Tidy
  <2>2. n = 0 => ~mdec.busy
    BY <1>3, <2>1 DEF Tidy
  <2>3. TidyEffect(f, pending, lost)
    BY <1>1, <1>2, <1>3, <2>2 DEF TypeOK
  <2>4. \A k \in Chan : f.reg[k].on => EventOf(k) # EventOf(n)
    BY <1>2, Chans
  <2>5. TidyEffect(f, pending \ {EventOf(n)}, lost)
    BY <2>3, <2>4, Served
  <2>6. ASSUME n = 2 /\ reg[2].mode = "list" => left = 0 PROVE EndsOver(f)
    BY <1>2, <2>1, <2>6, OverIs DEF EndsOver
  <2>7. QED  BY <2>5, <2>6
<1>4. QED  BY <1>2, <1>3 DEF f, e

LEMMA GpuServed ==
  ASSUME TypeOK, 2 \in Chan, NEW f \in gpuInterrupt(Still(reg))
  PROVE  /\ Sound(f) /\ f.mdec = mdec
         /\ 3 \in pending /\ Tidy(reg, mdec, moved, pending, lost) =>
              TidyEffect(f, pending \ {3}, lost) /\ EndsOver(f)
<1> DEFINE e == Still(reg)
<1>1. /\ Sound(e) /\ e.reg = reg /\ e.mdec = mdec /\ e.post = {} /\ e.moved = moved
      /\ \A pend, gone : TidyEffect(e, pend, gone) <=> Tidy(reg, mdec, moved, pend, gone)
  BY StillIs
<1>2. CASE reg[2].on /\ reg[2].mode = "list" /\ left > 0
  <2>1. PICK k \in Nat : f = Posted([e EXCEPT !.left = k], 2)
    BY <1>1, <1>2 DEF gpuInterrupt, TypeOK
  <2> DEFINE g == [e EXCEPT !.left = k]
  <2> HIDE DEF e
  <2>2. Sound(g) /\ g.mdec = mdec /\ g.reg = reg /\ g.post = {} /\ g.moved = moved
    BY <1>1, WithLeft
  <2>3. f = Posted(g, 2)
    BY <2>1
  <2> HIDE DEF g
  <2>4. f \in Effect /\ f.post = {3} /\ f.reg = reg /\ f.moved = moved /\ f.mdec = mdec
    BY <2>2, <2>3, PostedIs, Chans DEF Sound
  <2>5. Sound(f)
    BY <2>4 DEF Sound, TypeOK
  <2>6. ASSUME 3 \in pending, Tidy(reg, mdec, moved, pending, lost)
        PROVE  TidyEffect(f, pending \ {3}, lost)
    <3>1. (pending \ {3}) \cup f.post = pending
      BY <2>4, <2>6
    <3>2. QED  BY <2>4, <2>6, <3>1 DEF TidyEffect
  <2>7. EndsOver(f)
    BY <2>4 DEF EndsOver
  <2>8. QED  BY <2>4, <2>5, <2>6, <2>7
<1>3. CASE ~(reg[2].on /\ reg[2].mode = "list" /\ left > 0)
  <2>1. f = Ended(e, 2)
    BY <1>1, <1>3 DEF gpuInterrupt
  <2>2. reg[2].on /\ reg[2].mode = "list" => left = 0
    BY <1>3 DEF TypeOK
  <2>3. /\ Sound(f) /\ f.mdec = mdec
        /\ 3 \in pending /\ Tidy(reg, mdec, moved, pending, lost) =>
             /\ TidyEffect(f, pending \ {3}, lost)
             /\ (reg[2].mode = "list" => left = 0) => EndsOver(f)
    BY <2>1, EndedServed, Chans
  <2>4. CASE reg[2].on
    BY <2>2, <2>3, <2>4
  <2>5. CASE ~reg[2].on
    <3>1. \A n \in Chan : f.reg[n].on <=> reg[n].on
      BY <1>1, <2>1, <2>5, EndedKeeps
    <3>2. QED  BY <2>3, <3>1 DEF EndsOver
  <2>6. QED  BY <2>4, <2>5
<1>4. QED  BY <1>2, <1>3

LEMMA MdecServed ==
  ASSUME TypeOK, NEW f \in mdec1Interrupt(Still(reg))
  PROVE  /\ Sound(f)
         /\ Stream(mdec) => Stream(f.mdec)
         /\ Waits(mdec) => Waits(f.mdec)
         /\ 4 \in pending /\ Tidy(reg, mdec, moved, pending, lost) =>
              TidyEffect(f, pending \ {4}, lost) /\ EndsOver(f)
<1> DEFINE e == Still(reg)
<1>1. /\ Sound(e) /\ e.reg = reg /\ e.mdec = mdec /\ e.post = {} /\ e.moved = moved
  BY StillIs
<1>2. CASE ~ListOver
  <2>1. f = Ended(Still(reg), 1)
    BY <1>2 DEF mdec1Interrupt
  <2>2. QED  BY <2>1, EndedServed, Chans
<1>3. CASE ListOver
  <2> DEFINE m == [mdec EXCEPT !.busy = FALSE]
             g == [e EXCEPT !.mdec = m]
             h == Ended(g, 0)
  <2>2. f = Ended(h, 1)
    BY <1>1, <1>3 DEF mdec1Interrupt, Still
  <2>3. /\ m \in MdecState /\ m.busy = FALSE /\ m.pending_dma1 = mdec.pending_dma1
        /\ m.got = mdec.got /\ m.want = mdec.want /\ m.decoded = mdec.decoded
        /\ m.held = mdec.held /\ m.given = mdec.given
    BY DEF MdecState, TypeOK
  <2> HIDE DEF e, m
  <2>4. /\ g \in Effect /\ g.mdec = m
        /\ g.reg = reg /\ g.post = {} /\ g.moved = moved
    BY <1>1, <2>3, WithMdec DEF Sound
  <2>5. Sound(g)
    BY <2>3, <2>4 DEF Sound, KnownModes, TypeOK
  <2> HIDE DEF g
  <2>6. Sound(h) /\ h.mdec = m /\ \A k \in Chan : h.reg[k].on <=> reg[k].on /\ k # 0
    BY <2>4, <2>5, EndedKeeps, Chans
  <2>7. h.post = {} /\ h.moved = moved
    BY <2>4, EndedIs, Chans
  <2> HIDE DEF h
  <2>8. Sound(f) /\ f.mdec = m /\ \A k \in Chan : f.reg[k].on <=> reg[k].on /\ k \notin {0, 1}
    BY <2>2, <2>6, EndedKeeps, Chans
  <2>9. f.post = {} /\ f.moved = moved /\ \A k \in Chan : k \notin {0, 1} => f.reg[k] = reg[k]
    <3>1. f.post = {} /\ f.moved = moved
      BY <2>2, <2>6, <2>7, EndedIs, Chans DEF Sound
    <3>2. g.reg = reg /\ h.reg = [g.reg EXCEPT ![0].on = FALSE] /\ f.reg = [h.reg EXCEPT ![1].on = FALSE]
      BY <2>2, <2>4, <2>6, EndedIs, Chans DEF Sound, h
    <3>3. QED  BY <3>1, <3>2 DEF TypeOK
  <2>10. (Stream(mdec) => Stream(f.mdec)) /\ (Waits(mdec) => Waits(f.mdec))
    BY <2>3, <2>8 DEF Stream, Waits
  <2>11. ASSUME 4 \in pending, Tidy(reg, mdec, moved, pending, lost)
         PROVE  TidyEffect(f, pending \ {4}, lost) /\ EndsOver(f)
    <3>1. ~f.mdec.busy /\ ~f.reg[0].on /\ (pending \ {4}) \cup f.post = pending \ {4}
      BY <2>3, <2>8, <2>9, Chans
    <3>2. \A n \in Chan : n \notin {0, 1} => (EventOf(n) \in pending \ {4} <=> EventOf(n) \in pending)
      BY Chans
    <3>3. Tidy(f.reg, f.mdec, f.moved, pending \ {4}, lost)
      BY <2>8, <2>9, <2>11, <3>1, <3>2, Chans DEF Tidy
    <3>4. reg[0].on => moved[0] \in {"list", "all"}
      BY <2>11, Chans DEF Tidy, TypeOK
    <3>5. reg[1].on => moved[1] = "all"
      BY <2>11, Chans DEF Tidy
    <3>6. EndsOver(f)
      BY <1>3, <2>8, <3>4, <3>5, Chans, OverIs DEF EndsOver
    <3>7. QED  BY <3>1, <3>3, <3>6 DEF TidyEffect
  <2>12. QED  BY <2>8, <2>10, <2>11
<1>4. QED  BY <1>2, <1>3

LEMMA HandlerKeeps ==
  ASSUME TypeOK, NEW i \in pending, i \notin {SIO, NEWDRC_CHECK}, NEW f \in Handled(Still(reg), i)
  PROVE  /\ Sound(f)
         /\ Stream(mdec) => Stream(f.mdec)
         /\ Waits(mdec) => Waits(f.mdec)
         /\ Tidy(reg, mdec, moved, pending, lost) =>
              TidyEffect(f, pending \ {i}, lost) /\ EndsOver(f)
<1>1. PICK n \in Chan : i = EventOf(n)
  BY DEF TypeOK, Event
<1>2. n \in {0, 1, 2, 4, 6}
  BY Chans
<1>3. CASE n = 0
  <2>1. f = Ended(Still(reg), 0) /\ i = 7
    BY <1>1, <1>3, Chans DEF Handled
  <2>2. QED  BY <1>1, <1>3, <2>1, EndedServed
<1>4. CASE n = 1
  <2>1. f \in mdec1Interrupt(Still(reg)) /\ i = 4
    BY <1>1, <1>4, Chans DEF Handled
  <2>2. QED  BY <2>1, MdecServed
<1>5. CASE n = 2
  <2>1. f \in gpuInterrupt(Still(reg)) /\ i = 3 /\ 2 \in Chan
    BY <1>1, <1>5, Chans DEF Handled
  <2>2. QED  BY <2>1, GpuServed
<1>6. CASE n = 4
  <2>1. f = Ended(Still(reg), 4) /\ i = 5
    BY <1>1, <1>6, Chans DEF Handled
  <2>2. QED  BY <1>1, <1>6, <2>1, EndedServed
<1>7. CASE n = 6
  <2>1. f = Ended(Still(reg), 6) /\ i = 8
    BY <1>1, <1>7, Chans DEF Handled
  <2>2. QED  BY <1>1, <1>7, <2>1, EndedServed
<1>8. QED  BY <1>2, <1>3, <1>4, <1>5, <1>6, <1>7

-----------------------------------------------------------------------------
(* The steps *)

Kept == /\ TypeOK'
        /\ LineInv => LineInv'
        /\ ~Freezes /\ StreamInv => StreamInv'
        /\ ~Stops /\ TransferInv => TransferInv'

(* The interrupt of the channels that end raises the line and clears       *)
(* nothing                                                                 *)
LEMMA InterruptKeeps ==
  ASSUME TypeOK, NEW S \in SUBSET Chan, DmaInterrupt(S), UNCHANGED cpu
  PROVE  /\ icr' \in IcrState /\ istat' \subseteq Irq /\ owed' \in BOOLEAN
         /\ LineInv => LineInv'
<1> DEFINE rises == icr.global /\ S \cap icr.enable # {}
<1>1. /\ icr.enable \subseteq Chan /\ icr.flags \subseteq Chan
      /\ icr.global \in BOOLEAN /\ icr.bus \in BOOLEAN /\ icr.sent \in BOOLEAN
      /\ istat \subseteq Irq /\ owed \in BOOLEAN /\ DMA \in Irq
  BY DEF TypeOK, IcrState, Irq
<1>2. PICK sent \in BOOLEAN, flags \in SUBSET Chan :
        /\ sent <=> icr.sent \/ rises
        /\ flags = icr.flags \cup (S \cap icr.enable)
        /\ icr' = [icr EXCEPT !.flags = flags, !.sent = sent]
  <2>1. icr.flags \cup (S \cap icr.enable) \in SUBSET Chan /\ (icr.sent \/ rises) \in BOOLEAN
    BY <1>1
  <2>2. icr' = [icr EXCEPT !.flags = icr.flags \cup (S \cap icr.enable), !.sent = (icr.sent \/ rises)]
    BY Zenon DEF DmaInterrupt
  <2>3. QED  BY <2>1, <2>2, Zenon
<1>3. /\ icr'.global = icr.global /\ icr'.bus = icr.bus /\ icr'.enable = icr.enable
      /\ icr'.flags = flags /\ icr'.sent = sent
      /\ icr' \in IcrState
  BY <1>2 DEF TypeOK, IcrState
<1>4. /\ istat' = IF sent /\ ~icr.sent THEN istat \cup {DMA} ELSE istat
      /\ owed' = (owed \/ (sent /\ ~icr.sent))
  BY <1>3 DEF DmaInterrupt
<1>5. istat' \subseteq Irq /\ istat \subseteq istat' /\ owed' \in BOOLEAN
  BY <1>1, <1>4
<1>6. ASSUME LineInv PROVE LineInv'
  <2>1. icr'.sent <=> icr'.bus \/ (icr'.global /\ icr'.flags # {})
    BY <1>2, <1>3, <1>6 DEF LineInv
  <2>2. DMA \in istat' <=> owed'
    BY <1>4, <1>6 DEF LineInv
  <2>3. cause' => istat' \cap imask' # {}
    BY <1>5, <1>6 DEF LineInv, cpu
  <2>4. QED  BY <2>1, <2>2, <2>3 DEF LineInv
<1>7. QED  BY <1>3, <1>5, <1>6

(* What a start or a handler did is applied *)
LEMMA ApplyKeeps ==
  ASSUME TypeOK, NEW f, Sound(f), Apply(f), NEW pend \in SUBSET Event,
         pending' = pend \cup f.post, UNCHANGED cpu
  PROVE  /\ reg' \in [Chan -> Dreg] /\ mdec' \in MdecState /\ KnownModes(reg', mdec')
         /\ left' \in Nat /\ moved' \in [Chan -> {"none", "all", "list"}]
         /\ icr' \in IcrState /\ istat' \subseteq Irq /\ owed' \in BOOLEAN
         /\ imask' \subseteq Irq /\ cause' \in BOOLEAN
         /\ pending' \subseteq Event
         /\ LineInv => LineInv'
         /\ Stream(f.mdec) => StreamInv'
<1>1. f \in Effect /\ KnownModes(f.reg, f.mdec)
  BY DEF Sound
<1>2. /\ f.reg \in [Chan -> Dreg] /\ f.mdec \in MdecState /\ f.left \in Nat
      /\ f.moved \in [Chan -> {"none", "all", "list"}] /\ f.done \subseteq Chan
      /\ f.post \subseteq Event
  BY <1>1 DEF Effect
<1>3. reg' = f.reg /\ mdec' = f.mdec /\ left' = f.left /\ moved' = f.moved /\ DmaInterrupt(f.done)
  BY DEF Apply
<1>4. /\ icr' \in IcrState /\ istat' \subseteq Irq /\ owed' \in BOOLEAN
      /\ LineInv => LineInv'
  BY <1>2, <1>3, InterruptKeeps
<1>5. imask' \subseteq Irq /\ cause' \in BOOLEAN
  BY DEF cpu, TypeOK
<1>6. Stream(f.mdec) => StreamInv'
  BY <1>3 DEF StreamInv
<1>7. pending' \subseteq Event
  BY <1>2
<1>8. QED  BY <1>1, <1>2, <1>3, <1>4, <1>5, <1>6, <1>7

LEMMA LeastIs ==
  ASSUME NEW S, S \subseteq Nat, S # {}
  PROVE  LET n == CHOOSE n \in S : \A k \in S : n <= k
         IN n \in S /\ \A k \in S : n <= k
<1>1. S \subseteq Int /\ 0 \in Int /\ \A k \in S : 0 <= k
  OBVIOUS
<1>2. \E x \in S : \A k \in S : x <= k
  BY <1>1, LeastExists
<1>3. QED  BY <1>2

(* A channel is written, and started if it is enabled *)
LEMMA WriteChcrKeeps ==
  ASSUME TypeOK, NEW n \in Chan, NEW r \in Dreg, r.mode \in Modes(n), WriteChcr(n, r)
  PROVE  Kept
<1> DEFINE new == [reg EXCEPT ![n] = r]
           starts == r.on /\ ~reg[n].on
           fresh == [moved EXCEPT ![n] = IF starts THEN "none" ELSE @]
           e == [Still(new) EXCEPT !.moved = fresh]
<1>1. /\ pc = "run" /\ ops < MaxOps /\ ops' = ops + 1 /\ irqops' = irqops /\ Settled(n)
      /\ lost' = IF r.on = reg[n].on THEN lost ELSE lost \ {n}
      /\ pcr' = pcr /\ UNCHANGED cpu /\ bits' = bits /\ todo' = todo /\ pc' = pc
  BY DEF WriteChcr, Op
<1>2. PICK f \in IF starts /\ n \in pcr THEN psxDma(e, n) ELSE {e} :
        Apply(f) /\ pending' = pending \cup f.post
  BY DEF WriteChcr
<1>3. /\ new \in [Chan -> Dreg] /\ new[n] = r /\ \A k \in Chan : k # n => new[k] = reg[k]
      /\ fresh \in [Chan -> {"none", "all", "list"}]
      /\ fresh[n] = (IF starts THEN "none" ELSE moved[n])
      /\ \A k \in Chan : k # n => fresh[k] = moved[k]
  BY DEF TypeOK
<1> HIDE DEF fresh, new
<1>4. e \in Effect /\ e.reg = new /\ e.mdec = mdec /\ e.moved = fresh /\ e.post = {}
  BY <1>3 DEF Still, Effect, TypeOK
<1>5. Sound(e)
  BY <1>3, <1>4 DEF Sound, KnownModes, TypeOK
<1> HIDE DEF e
<1>6. /\ Sound(f)
      /\ Stream(mdec) => Stream(f.mdec)
      /\ Waits(mdec) => Waits(f.mdec)
      /\ \A gone \in SUBSET Chan :
           /\ n = 0 /\ starts => e.reg[0].on /\ e.moved[0] = "none"
           /\ TidyEffect(e, pending, gone)
           => TidyEffect(f, pending, gone)
  <2>1. CASE starts /\ n \in pcr
    BY <1>2, <1>4, <1>5, <2>1, StartKeeps DEF TypeOK
  <2>2. CASE ~(starts /\ n \in pcr)
    BY <1>2, <1>4, <1>5, <2>2
  <2>3. QED  BY <2>1, <2>2
<1>7. ASSUME ~Stops, TransferInv PROVE TransferInv'
  <2>1. /\ EventOf(n) \notin pending
        /\ n = 0 => ~mdec.busy /\ 4 \notin pending
    BY <1>1, <1>7, Chans DEF Settled
  <2>2. n = 0 /\ starts => e.reg[0].on /\ e.moved[0] = "none"
    BY <1>3, <1>4
  <2>3. lost' \in SUBSET Chan /\ \A k \in Chan : k # n => (k \in lost' <=> k \in lost)
    BY <1>1 DEF TypeOK
  <2>4. r.on /\ ~starts => n \in lost' \/ n \notin lost
    BY <1>1 DEF TypeOK, Dreg
  <2>5. Tidy(new, mdec, fresh, pending, lost')
    <3>1. Tidy(reg, mdec, moved, pending, lost)
      BY <1>7 DEF TransferInv
    <3>2. mdec.busy => new[0].on /\ fresh[0] = "list"
      BY <1>3, <2>1, <3>1, Chans DEF Tidy
    <3>3. 4 \in pending /\ new[0].on => fresh[0] # "none"
      BY <1>3, <2>1, <3>1, Chans DEF Tidy
    <3>4. \A k \in Chan : new[k].on /\ EventOf(k) \in pending =>
            fresh[k] = "all" \/ (k = 2 /\ fresh[k] = "list" /\ new[k].mode = "list")
      BY <1>3, <2>1, <3>1 DEF Tidy
    <3>5. \A k \in Chan : new[k].on /\ EventOf(k) \notin pending /\ k \notin lost' =>
            fresh[k] = "none" \/ (k = 0 /\ mdec.busy)
      BY <1>3, <2>1, <2>3, <2>4, <3>1 DEF Tidy
    <3>6. QED  BY <3>2, <3>3, <3>4, <3>5 DEF Tidy
  <2>6. TidyEffect(e, pending, lost')
    <3>1. pending \cup e.post = pending
      BY <1>4
    <3>2. QED  BY <1>4, <2>5, <3>1 DEF TidyEffect
  <2>7. Tidy(reg', mdec', moved', pending', lost') /\ Waits(mdec')
    BY <1>2, <1>6, <1>7, <2>2, <2>3, <2>6 DEF Apply, TidyEffect, TransferInv
  <2>8. QED  BY <1>1, <1>7, <2>7 DEF TransferInv
<1>8. TypeOK' /\ (LineInv => LineInv') /\ (StreamInv => StreamInv')
  <2>1. pending \in SUBSET Event
    BY DEF TypeOK
  <2>2. /\ reg' \in [Chan -> Dreg] /\ mdec' \in MdecState /\ KnownModes(reg', mdec')
        /\ left' \in Nat /\ moved' \in [Chan -> {"none", "all", "list"}]
        /\ icr' \in IcrState /\ istat' \subseteq Irq /\ owed' \in BOOLEAN
        /\ imask' \subseteq Irq /\ cause' \in BOOLEAN
        /\ pending' \subseteq Event
        /\ LineInv => LineInv'
        /\ Stream(f.mdec) => StreamInv'
    BY <1>1, <1>2, <1>6, <2>1, ApplyKeeps
  <2>3. bits' \subseteq pending' /\ lost' \subseteq Chan
    BY <1>1, <1>2 DEF TypeOK
  <2>4. ops' \in 0 .. MaxOps /\ irqops' \in 0 .. MaxIrqOps
    BY <1>1, DmaAssumption DEF TypeOK
  <2>5. TypeOK'
    BY <1>1, <2>2, <2>3, <2>4 DEF TypeOK
  <2>6. QED  BY <1>6, <2>2, <2>5 DEF StreamInv
<1>9. QED  BY <1>7, <1>8 DEF Kept

LEMMA StartedKeeps == ASSUME TypeOK, Started PROVE Kept
<1>1. CASE todo = {}
  <2>1. /\ pc' = "run" /\ UNCHANGED <<data, irqs, pending, todo, pcr, cpu, bits, lost, ops, irqops>>
    BY <1>1 DEF Started
  <2>2. UNCHANGED <<reg, mdec, left, moved, icr, istat, owed, pending, todo, pcr, imask, cause,
                    bits, lost, ops, irqops>>
    BY <2>1 DEF data, irqs, cpu
  <2>3. TypeOK'
    BY <2>1, <2>2 DEF TypeOK
  <2>4. LineInv => LineInv'
    BY <2>2 DEF LineInv
  <2>5. TransferInv => TransferInv'
    BY <1>1, <2>2 DEF TransferInv
  <2>6. QED  BY <2>2, <2>3, <2>4, <2>5 DEF Kept, StreamInv
<1>2. CASE todo # {}
  <2> DEFINE n == CHOOSE n \in todo : \A k \in todo : n <= k
  <2>1. n \in todo /\ \A k \in todo : n <= k
    <3>1. todo \subseteq Nat
      BY DmaAssumption DEF TypeOK
    <3>2. QED  BY <1>2, <3>1, LeastIs
  <2> HIDE DEF n
  <2>2. /\ pc = "start" /\ todo' = todo \ {n} /\ pc' = pc
        /\ UNCHANGED <<pcr, cpu, bits, lost, ops, irqops>>
        /\ \E f \in psxDma(Still(reg), n) : Apply(f) /\ pending' = pending \cup f.post
    BY <1>2 DEF Started, n
  <2>3. PICK f \in psxDma(Still(reg), n) : Apply(f) /\ pending' = pending \cup f.post
    BY <2>2
  <2> DEFINE e == Still(reg)
  <2>4. /\ Sound(e) /\ e.reg = reg /\ e.mdec = mdec /\ e.moved = moved
        /\ \A pend, gone : TidyEffect(e, pend, gone) <=> Tidy(reg, mdec, moved, pend, gone)
    BY StillIs
  <2> HIDE DEF e
  <2>5. n \in Chan /\ pending \in SUBSET Event /\ lost \in SUBSET Chan
    BY <2>1 DEF TypeOK
  <2>6. /\ Sound(f)
        /\ Stream(mdec) => Stream(f.mdec)
        /\ Waits(mdec) => Waits(f.mdec)
        /\ /\ n = 0 => reg[0].on /\ moved[0] = "none"
           /\ Tidy(reg, mdec, moved, pending, lost)
           => TidyEffect(f, pending, lost)
    BY <2>3, <2>4, <2>5, StartKeeps DEF e
  <2>7. ASSUME TransferInv PROVE TransferInv'
    <3>1. n = 0 => reg[0].on /\ moved[0] = "none"
      BY <2>1, <2>7 DEF TransferInv
    <3>2. Tidy(reg', mdec', moved', pending', lost') /\ Waits(mdec')
      BY <2>2, <2>3, <2>6, <2>7, <3>1 DEF Apply, TidyEffect, TransferInv
    <3>3. 0 \notin todo'
      <4>1. 0 \in todo => n = 0
        BY <2>1, <2>5, DmaAssumption
      <4>2. QED  BY <2>2, <4>1
    <3>4. QED  BY <2>2, <3>2, <3>3 DEF TransferInv
  <2>8. /\ reg' \in [Chan -> Dreg] /\ mdec' \in MdecState /\ KnownModes(reg', mdec')
        /\ left' \in Nat /\ moved' \in [Chan -> {"none", "all", "list"}]
        /\ icr' \in IcrState /\ istat' \subseteq Irq /\ owed' \in BOOLEAN
        /\ imask' \subseteq Irq /\ cause' \in BOOLEAN
        /\ pending' \subseteq Event
        /\ LineInv => LineInv'
        /\ Stream(f.mdec) => StreamInv'
    BY <2>2, <2>3, <2>5, <2>6, ApplyKeeps
  <2>9. TypeOK'
    <3>1. bits' \subseteq pending' /\ todo' \subseteq Chan
      BY <2>2, <2>3 DEF TypeOK
    <3>2. QED  BY <2>2, <2>8, <3>1 DEF TypeOK
  <2>10. QED  BY <2>6, <2>7, <2>8, <2>9 DEF Kept, StreamInv
<1>3. QED  BY <1>1, <1>2

EndsNow == \A n \in Chan : pc = "test" /\ reg[n].on /\ ~reg'[n].on => Over(n)

LEMMA ServeKeeps ==
  ASSUME TypeOK, Serve
  PROVE  Kept /\ (TransferInv => EndsNow)
<1> DEFINE i == CHOOSE i \in bits : \A j \in bits : i <= j
<1>1. i \in bits /\ i \in pending
  <2>1. bits \subseteq Nat
    BY DmaAssumption DEF TypeOK, Event, EventOf, SIO, NEWDRC_CHECK
  <2>2. bits # {}
    BY DEF Serve
  <2>3. i \in bits
    BY <2>1, <2>2, LeastIs
  <2>4. QED  BY <2>3 DEF TypeOK
<1> HIDE DEF i
<1>2. /\ pc = "test" /\ bits' = bits \ {i}
      /\ UNCHANGED <<pcr, cpu, todo, pc, lost, ops, irqops>>
  BY DEF Serve, i
<1>3. CASE i \in {SIO, NEWDRC_CHECK}
  <2>1. /\ istat' = IF i = SIO THEN istat \cup {Other} ELSE istat
        /\ pending' = pending \ {i} /\ UNCHANGED <<data, icr, owed>>
    BY <1>3 DEF Serve, i
  <2>2. UNCHANGED <<reg, mdec, left, moved, icr, owed, imask, cause, pcr, todo, pc, lost, ops, irqops>>
    BY <1>2, <2>1 DEF data, cpu
  <2>3. istat \subseteq istat' /\ istat' \subseteq Irq /\ (DMA \in istat' <=> DMA \in istat)
    BY <2>1 DEF TypeOK, Irq, DMA, Other
  <2>4. TypeOK'
    <3>1. pending' \subseteq Event /\ bits' \subseteq pending'
      BY <1>2, <2>1 DEF TypeOK
    <3>2. QED  BY <2>2, <2>3, <3>1 DEF TypeOK
  <2>5. LineInv => LineInv'
    BY <2>2, <2>3 DEF LineInv
  <2>6. TransferInv => TransferInv'
    <3>1. /\ 4 \in pending' <=> 4 \in pending
          /\ \A n \in Chan : EventOf(n) \in pending' <=> EventOf(n) \in pending
      BY <1>3, <2>1, Chans
    <3>2. ASSUME TransferInv PROVE TransferInv'
      <4>1. Tidy(reg, mdec, moved, pending', lost)
        BY <3>1, <3>2 DEF TransferInv, Tidy
      <4>2. QED  BY <2>2, <3>2, <4>1 DEF TransferInv
    <3>3. QED  BY <3>2
  <2>7. EndsNow
    BY <2>2 DEF EndsNow
  <2>8. QED  BY <2>2, <2>4, <2>5, <2>6, <2>7 DEF Kept, StreamInv
<1>4. CASE i \notin {SIO, NEWDRC_CHECK}
  <2>1. PICK f \in Handled(Still(reg), i) : Apply(f) /\ pending' = (pending \ {i}) \cup f.post
    BY <1>4 DEF Serve, i
  <2>2. /\ Sound(f)
        /\ Stream(mdec) => Stream(f.mdec)
        /\ Waits(mdec) => Waits(f.mdec)
        /\ Tidy(reg, mdec, moved, pending, lost) =>
             TidyEffect(f, pending \ {i}, lost) /\ EndsOver(f)
    BY <1>1, <1>4, HandlerKeeps
  <2>3. pending \ {i} \in SUBSET Event
    BY DEF TypeOK
  <2>4. /\ reg' \in [Chan -> Dreg] /\ mdec' \in MdecState /\ KnownModes(reg', mdec')
        /\ left' \in Nat /\ moved' \in [Chan -> {"none", "all", "list"}]
        /\ icr' \in IcrState /\ istat' \subseteq Irq /\ owed' \in BOOLEAN
        /\ imask' \subseteq Irq /\ cause' \in BOOLEAN
        /\ pending' \subseteq Event
        /\ LineInv => LineInv'
        /\ Stream(f.mdec) => StreamInv'
    BY <1>2, <2>1, <2>2, <2>3, ApplyKeeps
  <2>5. TypeOK'
    <3>1. bits' \subseteq pending'
      BY <1>2, <2>1 DEF TypeOK
    <3>2. QED  BY <1>2, <2>4, <3>1 DEF TypeOK
  <2>6. ASSUME TransferInv, ~Stops PROVE TransferInv'
    <3>1. Tidy(reg', mdec', moved', pending', lost') /\ Waits(mdec')
      BY <1>2, <2>1, <2>2, <2>6 DEF Apply, TidyEffect, TransferInv
    <3>2. todo' = {}
      BY <1>2, <2>6 DEF TransferInv
    <3>3. QED  BY <3>1, <3>2 DEF TransferInv
  <2>7. ASSUME TransferInv PROVE EndsNow
    BY <2>1, <2>2, <2>7 DEF TransferInv, EndsOver, EndsNow, Apply
  <2>8. QED  BY <2>2, <2>4, <2>5, <2>6, <2>7 DEF Kept, StreamInv
<1>5. QED  BY <1>3, <1>4

(* The channel registers that are not started, and the decoder             *)
LEMMA WritePcrKeeps ==
  ASSUME TypeOK, NEW v \in Pcrs, WritePcr(v)
  PROVE  Kept
<1> DEFINE on == {n \in v \ pcr : n # 2 /\ reg[n].on}
<1>1. /\ Stops \/ \A n \in on : moved[n] = "none"
      /\ pcr' = v /\ todo' = on /\ pc' = "start" /\ ops < MaxOps /\ ops' = ops + 1 /\ irqops' = irqops
      /\ UNCHANGED <<data, irqs, cpu, pending, bits, lost>>
  BY DEF WritePcr, Op
<1>2. UNCHANGED <<reg, mdec, left, moved, icr, istat, owed, imask, cause, pending, bits, lost>>
  BY <1>1 DEF data, irqs, cpu
<1>3. v \subseteq Chan /\ on \subseteq Chan
  BY DmaAssumption
<1>4. ops' \in 0 .. MaxOps
  BY <1>1, DmaAssumption DEF TypeOK
<1>5. TypeOK'
  BY <1>1, <1>2, <1>3, <1>4 DEF TypeOK
<1>6. LineInv => LineInv'
  BY <1>2 DEF LineInv
<1>7. ~Stops /\ TransferInv => TransferInv'
  BY <1>1, <1>2 DEF TransferInv
<1>8. QED  BY <1>2, <1>5, <1>6, <1>7 DEF Kept, StreamInv

LEMMA WriteMdec0Keeps ==
  ASSUME TypeOK, NEW c \in {"decode", "table"}, WriteMdec0(c)
  PROVE  Kept
<1>1. /\ ops < MaxOps /\ ops' = ops + 1 /\ irqops' = irqops
      /\ mdec' = [mdec EXCEPT !.cmd = c]
      /\ UNCHANGED <<reg, left, moved, pcr, irqs, cpu, pending, bits, todo, pc, lost>>
  BY DEF WriteMdec0, Op
<1>2. /\ mdec' \in MdecState /\ mdec'.busy = mdec.busy /\ mdec'.pending_dma1 = mdec.pending_dma1
      /\ mdec'.got = mdec.got /\ mdec'.want = mdec.want /\ mdec'.decoded = mdec.decoded
      /\ mdec'.held = mdec.held /\ mdec'.given = mdec.given
  BY <1>1 DEF MdecState, TypeOK
<1>3. UNCHANGED <<reg, left, moved, pcr, icr, istat, owed, imask, cause, pending, bits, todo, pc, lost>>
  BY <1>1 DEF irqs, cpu
<1>4. ops' \in 0 .. MaxOps
  BY <1>1, DmaAssumption DEF TypeOK
<1>5. TypeOK'
  BY <1>1, <1>2, <1>3, <1>4 DEF TypeOK, KnownModes
<1>6. LineInv => LineInv'
  BY <1>3 DEF LineInv
<1>7. TransferInv => TransferInv'
  BY <1>2, <1>3 DEF TransferInv, Tidy, Waits
<1>8. StreamInv => StreamInv'
  BY <1>2 DEF StreamInv, Stream
<1>9. QED  BY <1>5, <1>6, <1>7, <1>8 DEF Kept

LEMMA WriteMdec1Keeps == ASSUME TypeOK, WriteMdec1 PROVE Kept
<1>1. /\ ops < MaxOps /\ ops' = ops + 1 /\ irqops' = irqops /\ pc = "run"
      /\ mdec' = [mdec EXCEPT !.cmd = "none", !.busy = FALSE, !.pending_dma1 = NoDma, !.held = 0,
                              !.decoded = 0, !.given = 0]
      /\ lost' = lost \cup {n \in {0, 1} : reg[n].on}
      /\ UNCHANGED <<reg, left, moved, pcr, irqs, cpu, pending, bits, todo, pc>>
  BY DEF WriteMdec1, Op
<1>2. /\ ~mdec'.busy /\ mdec'.pending_dma1 = NoDma
      /\ mdec'.got = mdec.got /\ mdec'.want = mdec.want /\ mdec'.decoded = 0
      /\ mdec'.held = 0 /\ mdec'.given = 0
  BY <1>1 DEF MdecState, TypeOK
<1>3. mdec' \in MdecState
  <2>1. ASSUME NEW b \in BOOLEAN, NEW p \in Dreg, NEW z \in Int
        PROVE  [mdec EXCEPT !.cmd = "none", !.busy = b, !.pending_dma1 = p, !.held = z,
                            !.decoded = z, !.given = z] \in MdecState
    BY DEF MdecState, TypeOK
  <2>2. FALSE \in BOOLEAN /\ 0 \in Int /\ NoDma \in Dreg
    BY NoDmaIs
  <2>3. [mdec EXCEPT !.cmd = "none", !.busy = FALSE, !.pending_dma1 = NoDma, !.held = 0,
                     !.decoded = 0, !.given = 0] \in MdecState
    BY <2>1, <2>2, Zenon
  <2>4. QED  BY <1>1, <2>3
<1>4. UNCHANGED <<reg, left, moved, pcr, icr, istat, owed, imask, cause, pending, bits, todo, pc>>
  BY <1>1 DEF irqs, cpu
<1>5. ops' \in 0 .. MaxOps /\ lost' \subseteq Chan
  BY <1>1, DmaAssumption DEF TypeOK
<1>6. TypeOK'
  BY <1>1, <1>2, <1>3, <1>4, <1>5, NoDmaIs DEF TypeOK, KnownModes
<1>7. LineInv => LineInv'
  BY <1>4 DEF LineInv
<1>8. ASSUME TransferInv PROVE TransferInv'
  <2>1. \A n \in Chan : reg[n].on /\ EventOf(n) \notin pending /\ n \notin lost' => moved[n] = "none"
    BY <1>1, <1>8, Chans DEF TransferInv, Tidy
  <2>2. Tidy(reg', mdec', moved', pending', lost')
    BY <1>2, <1>4, <1>8, <2>1 DEF TransferInv, Tidy
  <2>3. QED  BY <1>2, <1>4, <1>8, <2>2, NoDmaIs DEF TransferInv, Waits
<1>9. StreamInv => StreamInv'
  <2>1. 0 * BlockUnits = 0
    BY DmaAssumption, SMTT(20)
  <2>2. QED  BY <1>2, <2>1 DEF StreamInv, Stream
<1>10. QED  BY <1>6, <1>7, <1>8, <1>9 DEF Kept

LEMMA FreezeKeeps == ASSUME TypeOK, Freeze PROVE Kept
<1>1. /\ ops < MaxOps /\ ops' = ops + 1 /\ irqops' = irqops
      /\ Freezes \/ mdec.held = 0
      /\ mdec' = [mdec EXCEPT !.held = IF @ = 0 THEN 0 ELSE BlockUnits]
      /\ UNCHANGED <<reg, left, moved, pcr, irqs, cpu, pending, bits, todo, pc, lost>>
  BY DEF Freeze, Op
<1>2. /\ mdec' \in MdecState /\ mdec'.busy = mdec.busy /\ mdec'.pending_dma1 = mdec.pending_dma1
      /\ mdec'.got = mdec.got /\ mdec'.want = mdec.want /\ mdec'.decoded = mdec.decoded
      /\ mdec'.held = (IF mdec.held = 0 THEN 0 ELSE BlockUnits) /\ mdec'.given = mdec.given
  BY <1>1, DmaAssumption DEF MdecState, TypeOK
<1>3. UNCHANGED <<reg, left, moved, pcr, icr, istat, owed, imask, cause, pending, bits, todo, pc, lost>>
  BY <1>1 DEF irqs, cpu
<1>4. ops' \in 0 .. MaxOps
  BY <1>1, DmaAssumption DEF TypeOK
<1>5. TypeOK'
  BY <1>1, <1>2, <1>3, <1>4 DEF TypeOK, KnownModes
<1>6. LineInv => LineInv'
  BY <1>3 DEF LineInv
<1>7. TransferInv => TransferInv'
  BY <1>2, <1>3 DEF TransferInv, Tidy, Waits
<1>8. ~Freezes /\ StreamInv => StreamInv'
  BY <1>1, <1>2 DEF StreamInv, Stream
<1>9. QED  BY <1>5, <1>6, <1>7, <1>8 DEF Kept

(* The interrupt registers and irq_test                                    *)
LEMMA WriteIcrKeeps ==
  ASSUME TypeOK, NEW enable \in Enables, NEW global \in BOOLEAN, NEW bus \in BOOLEAN,
         NEW acks \in SUBSET icr.flags, WriteIcr(enable, global, bus, acks)
  PROVE  Kept
<1> DEFINE flags == icr.flags \ acks
           high == bus \/ (global /\ flags # {})
<1>1. PICK sent \in BOOLEAN : sent <=> high
  OBVIOUS
<1>2. icr' = [enable |-> enable, global |-> global, bus |-> bus, flags |-> flags, sent |-> sent]
  <2>1. icr' = [enable |-> enable, global |-> global, bus |-> bus, flags |-> flags, sent |-> high]
    BY Zenon DEF WriteIcr
  <2>2. sent = high
    BY <1>1
  <2>3. QED  BY <2>1, <2>2, Zenon
<1>3. /\ istat' = IF sent /\ ~icr.sent THEN istat \cup {DMA} ELSE istat
      /\ owed' = (owed \/ (sent /\ ~icr.sent))
      /\ irqops < MaxIrqOps /\ irqops' = irqops + 1 /\ ops' = ops
      /\ UNCHANGED <<data, pcr, cpu, pending, bits, todo, pc, lost>>
  BY <1>1 DEF WriteIcr, IrqOp
<1>4. enable \subseteq Chan /\ flags \subseteq Chan
  BY DmaAssumption DEF TypeOK, IcrState
<1> HIDE DEF flags, high
<1>5. icr' \in IcrState
  BY <1>2, <1>4 DEF IcrState
<1>6. icr'.sent = sent /\ icr'.bus = bus /\ icr'.global = global /\ icr'.flags = flags
  BY <1>2
<1>7. UNCHANGED <<reg, mdec, left, moved, pcr, imask, cause, pending, bits, todo, pc, lost, ops>>
  BY <1>3 DEF data, cpu
<1>8. irqops' \in 0 .. MaxIrqOps
  BY <1>3, DmaAssumption DEF TypeOK
<1>9. istat' \subseteq Irq /\ istat \subseteq istat' /\ owed' \in BOOLEAN
  BY <1>3 DEF TypeOK, Irq, DMA
<1>10. TypeOK'
  BY <1>5, <1>7, <1>8, <1>9 DEF TypeOK
<1>11. ASSUME LineInv PROVE LineInv'
  <2>1. icr'.sent <=> icr'.bus \/ (icr'.global /\ icr'.flags # {})
    BY <1>1, <1>6 DEF high
  <2>2. DMA \in istat' <=> owed'
    BY <1>3, <1>11 DEF LineInv
  <2>3. cause' => istat' \cap imask' # {}
    BY <1>7, <1>9, <1>11 DEF LineInv
  <2>4. QED  BY <2>1, <2>2, <2>3 DEF LineInv
<1>12. TransferInv => TransferInv'
  BY <1>7 DEF TransferInv
<1>13. QED  BY <1>7, <1>10, <1>11, <1>12 DEF Kept, StreamInv

LEMMA LineKeeps ==
  ASSUME TypeOK,
         \/ \E v \in SUBSET Irq : WriteIstat(v) \/ WriteImask(v)
         \/ PostOther \/ Test \/ Leave \/ UNCHANGED vars
  PROVE  Kept
<1>1. UNCHANGED <<reg, mdec, left, moved, pcr, icr, todo, lost, ops>>
  BY DEF WriteIstat, WriteImask, PostOther, Test, Leave, vars, IrqOp, data, irqs, cpu
<1>2. irqops' \in 0 .. MaxIrqOps
  BY DmaAssumption DEF TypeOK, WriteIstat, WriteImask, PostOther, Test, Leave, vars, IrqOp, data, irqs, cpu
<1>3. istat' \subseteq Irq /\ imask' \subseteq Irq
  BY DEF TypeOK, WriteIstat, WriteImask, PostOther, Test, Leave, vars, IrqOp, data, irqs, cpu
<1>4. cause' \in BOOLEAN /\ owed' \in BOOLEAN
  <2>1. CASE \E v \in SUBSET Irq : WriteIstat(v)
    <3>1. cause' = (istat' \cap imask # {}) /\ \E v : owed' = (owed /\ DMA \in v)
      BY <2>1 DEF WriteIstat
    <3>2. QED  BY <3>1
  <2>2. CASE \E v \in SUBSET Irq : WriteImask(v)
    <3>1. (\E v : cause' = (istat \cap v # {})) /\ owed' = owed
      BY <2>2 DEF WriteImask, irqs
    <3>2. QED  BY <3>1 DEF TypeOK
  <2>3. CASE Leave
    <3>1. cause' = (istat \cap imask # {}) /\ owed' = owed
      BY <2>3 DEF Leave, irqs
    <3>2. QED  BY <3>1 DEF TypeOK
  <2>4. CASE PostOther \/ Test \/ UNCHANGED vars
    BY <2>4 DEF TypeOK, PostOther, Test, vars, irqs, cpu
  <2>5. QED  BY <2>1, <2>2, <2>3, <2>4
<1>5. pending \subseteq pending' /\ pending' \subseteq pending \cup {SIO, NEWDRC_CHECK}
  BY DEF WriteIstat, WriteImask, PostOther, Test, Leave, vars
<1>6. bits' \subseteq pending' /\ pc' \in {"run", "start", "test"} /\ pending' \subseteq Event
  BY <1>5 DEF TypeOK, WriteIstat, WriteImask, PostOther, Test, Leave, vars, Event, IrqOp
<1>7. TypeOK'
  BY <1>1, <1>2, <1>3, <1>4, <1>6 DEF TypeOK
<1>8. ASSUME LineInv PROVE LineInv'
  <2>1. icr'.sent <=> icr'.bus \/ (icr'.global /\ icr'.flags # {})
    BY <1>1, <1>8 DEF LineInv
  <2>2. DMA \in istat' <=> owed'
    <3>1. CASE \E v \in SUBSET Irq : WriteIstat(v)
      <4>1. PICK v \in SUBSET Irq : istat' = istat \cap v /\ owed' = (owed /\ DMA \in v)
        BY <3>1 DEF WriteIstat
      <4>2. QED  BY <1>8, <4>1 DEF LineInv
    <3>2. CASE ~\E v \in SUBSET Irq : WriteIstat(v)
      <4>1. istat' = istat /\ owed' = owed
        BY <3>2 DEF WriteImask, PostOther, Test, Leave, vars, irqs
      <4>2. QED  BY <1>8, <4>1 DEF LineInv
    <3>3. QED  BY <3>1, <3>2
  <2>3. cause' => istat' \cap imask' # {}
    BY <1>8 DEF LineInv, WriteIstat, WriteImask, PostOther, Test, Leave, vars, irqs, cpu
  <2>4. QED  BY <2>1, <2>2, <2>3 DEF LineInv
<1>9. ASSUME TransferInv PROVE TransferInv'
  <2>1. /\ 4 \in pending' <=> 4 \in pending
        /\ \A n \in Chan : EventOf(n) \in pending' <=> EventOf(n) \in pending
    BY <1>5, Chans
  <2>2. Tidy(reg', mdec', moved', pending', lost')
    BY <1>1, <1>9, <2>1 DEF TransferInv, Tidy
  <2>3. pc' # "start" => todo' = {}
    BY <1>1, <1>9 DEF TransferInv, WriteIstat, WriteImask, PostOther, Test, Leave, vars, IrqOp
  <2>4. QED  BY <1>1, <1>9, <2>2, <2>3 DEF TransferInv
<1>10. QED  BY <1>1, <1>7, <1>8, <1>9 DEF Kept, StreamInv

LEMMA InitIs == Init => TypeOK /\ LineInv /\ StreamInv /\ TransferInv
<1> SUFFICES ASSUME Init PROVE TypeOK /\ LineInv /\ StreamInv /\ TransferInv
  OBVIOUS
<1>1. /\ mdec \in MdecState /\ mdec.pending_dma1 = NoDma /\ ~mdec.busy
      /\ mdec.got = 0 /\ mdec.want = 0 /\ mdec.decoded = 0 /\ mdec.held = 0 /\ mdec.given = 0
  BY NoDmaIs DEF Init, MdecState
<1>2. reg \in [Chan -> Dreg] /\ \A n \in Chan : reg[n] = NoDma
  BY NoDmaIs DEF Init
<1>3. KnownModes(reg, mdec)
  BY <1>1, <1>2, NoDmaIs DEF KnownModes, Modes
<1>4. icr \in IcrState /\ icr.sent = FALSE /\ icr.bus = FALSE /\ icr.flags = {}
  BY DmaAssumption DEF Init, IcrState
<1>5. TypeOK
  <2>1. pcr \subseteq Chan /\ moved \in [Chan -> {"none", "all", "list"}]
    BY DmaAssumption DEF Init
  <2>2. /\ istat = {} /\ imask = {} /\ cause \in BOOLEAN /\ owed \in BOOLEAN
        /\ pending = {} /\ bits = {} /\ todo = {} /\ lost = {}
        /\ pc \in {"run", "start", "test"}
    BY DEF Init
  <2>3. left \in Nat /\ ops \in 0 .. MaxOps /\ irqops \in 0 .. MaxIrqOps
    BY DmaAssumption DEF Init
  <2>4. QED  BY <1>1, <1>2, <1>3, <1>4, <2>1, <2>2, <2>3 DEF TypeOK
<1>6. LineInv
  BY <1>4 DEF Init, LineInv
<1>7. StreamInv
  <2>1. 0 * BlockUnits = 0
    BY DmaAssumption, SMTT(20)
  <2>2. QED  BY <1>1, <2>1 DEF StreamInv, Stream
<1>8. TransferInv
  BY <1>1, <1>2, NoDmaIs, Chans DEF Init, TransferInv, Tidy, Waits
<1>9. QED  BY <1>5, <1>6, <1>7, <1>8

LEMMA StepKeeps == TypeOK /\ [Next]_vars => Kept /\ (TransferInv => EndsNow \/ UNCHANGED vars)
<1> SUFFICES ASSUME TypeOK, [Next]_vars PROVE Kept /\ (TransferInv => EndsNow \/ UNCHANGED vars)
  OBVIOUS
<1>1. ASSUME NEW n \in Chan, NEW m \in Modes(n), NEW z \in Lens[n],
             WriteChcr(n, [on |-> TRUE, mode |-> m, len |-> IF reg[n].on THEN reg[n].len ELSE z])
      PROVE  Kept
  <2> DEFINE r == [on |-> TRUE, mode |-> m, len |-> IF reg[n].on THEN reg[n].len ELSE z]
  <2>1. z \in Nat /\ reg[n].len \in Nat
    BY DmaAssumption DEF TypeOK, Dreg
  <2>2. r \in Dreg /\ r.mode = m
    BY <2>1 DEF Dreg, Modes
  <2> HIDE DEF r
  <2>3. QED  BY <1>1, <2>2, WriteChcrKeeps DEF r
<1>2. ASSUME NEW n \in Chan, WriteChcr(n, [reg[n] EXCEPT !.on = FALSE]) PROVE Kept
  <2> DEFINE r == [reg[n] EXCEPT !.on = FALSE]
  <2>1. r \in Dreg /\ r.mode \in Modes(n)
    BY DEF TypeOK, Dreg, KnownModes
  <2> HIDE DEF r
  <2>2. QED  BY <1>2, <2>1, WriteChcrKeeps DEF r
<1>3. ASSUME Program PROVE Kept
  BY <1>1, <1>2, <1>3, WritePcrKeeps, WriteIcrKeeps, LineKeeps, WriteMdec0Keeps, WriteMdec1Keeps,
     FreezeKeeps DEF Program
<1>4. Program \/ Started \/ Test \/ Leave => EndsNow
  <2>1. Program => pc # "test"
    BY DEF Program, WriteChcr, WritePcr, WriteIcr, WriteIstat, WriteImask, WriteMdec0, WriteMdec1,
           PostOther, Freeze, Op, IrqOp
  <2>2. Started => pc # "test"
    BY DEF Started
  <2>3. Test \/ Leave => reg' = reg
    BY DEF Test, Leave, data
  <2>4. QED  BY <2>1, <2>2, <2>3 DEF EndsNow
<1>5. QED  BY <1>3, <1>4, StartedKeeps, ServeKeeps, LineKeeps DEF Next

-----------------------------------------------------------------------------
(* The registers, the decoder and the events keep their types.             *)
THEOREM TypeCorrect == Spec => []TypeOK
<1>1. TypeOK /\ [Next]_vars => TypeOK'
  BY StepKeeps DEF Kept
<1>2. QED  BY <1>1, InitIs, PTL DEF Spec

(* The master flag of ICR, the DMA bit of I_STAT and Cause say what is     *)
(* enabled, flagged and not acknowledged, through every write of a         *)
(* register and every end of a transfer.                                   *)
THEOREM InterruptsAreTrue == Spec => []InterruptTruth
<1>1. TypeOK /\ LineInv /\ [Next]_vars => TypeOK' /\ LineInv'
  BY StepKeeps DEF Kept
<1>2. LineInv => InterruptTruth
  BY DEF LineInv, InterruptTruth
<1>3. QED  BY <1>1, <1>2, InitIs, PTL DEF Spec

(* The units channel 1 takes are those of the blocks in their order, none  *)
(* left out and none twice, for every length of a block and of the         *)
(* transfers, unless a state was saved while a part of a block was held.   *)
THEOREM StreamIsTrue == ASSUME ~Freezes PROVE Spec => []StreamTruth
<1>1. TypeOK /\ StreamInv /\ [Next]_vars => TypeOK' /\ StreamInv'
  BY StepKeeps DEF Kept
<1>2. StreamInv => StreamTruth
  BY DEF StreamInv, Stream, StreamTruth
<1>3. QED  BY <1>1, <1>2, InitIs, PTL DEF Spec

(* A channel that has moved its data has its event posted or waits for the *)
(* decoder, which never waits for it, when the program leaves running      *)
(* channels alone.                                                         *)
THEOREM NothingIsStuck == ASSUME ~Stops PROVE Spec => []NeverStuck
<1>1. TypeOK /\ TransferInv /\ [Next]_vars => TypeOK' /\ TransferInv'
  BY StepKeeps DEF Kept
<1>2. TypeOK /\ TransferInv => NeverStuck
  BY Chans DEF TransferInv, Tidy, Waits, NeverStuck
<1>3. QED  BY <1>1, <1>2, InitIs, PTL DEF Spec

(* A handler ends a transfer only when it is over, when the program leaves *)
(* running channels alone.                                                 *)
THEOREM TransfersEndWhenOver == ASSUME ~Stops PROVE Spec => EndsWhenOver
<1>1. TypeOK /\ TransferInv /\ [Next]_vars => TypeOK' /\ TransferInv'
  BY StepKeeps DEF Kept
<1>2. TypeOK /\ TransferInv /\ [Next]_vars =>
        [\A n \in Chan : pc = "test" /\ reg[n].on /\ ~reg'[n].on => Over(n)]_vars
  BY StepKeeps DEF EndsNow
<1>3. QED  BY <1>1, <1>2, InitIs, PTL DEF Spec, EndsWhenOver
=============================================================================
