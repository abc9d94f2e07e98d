-------------------------------- MODULE Dma ---------------------------------
(* The DMA channels and the interrupt controller (psxhw.c, psxhw.h,        *)
(* psxdma.c) with the movie decoder behind channels 0 and 1 (mdec.c).      *)
(* A transfer moves its data when the channel is started; an event ends it *)
(* later, and until then the program may write the registers again.        *)
(*                                                                         *)
(* When an event is due is Events' concern: here any of the posted events  *)
(* may be due in a pass of irq_test.                                       *)
EXTENDS Integers, FiniteSets

CONSTANTS
  Chan,        \* the channels in use, of 0 (MDEC in), 1 (MDEC out), 2 (GPU),
               \* 4 (SPU) and 6 (ordering table)
  BlockUnits,  \* SIZE_OF_16B_BLOCK or SIZE_OF_24B_BLOCK
  Lens,        \* BCR of a channel: blocks of a list, units, chunks of a list
  Pcrs,        \* the values of the enable register
  Enables,     \* the interrupt enable bits written to ICR
  Walking,     \* Config.GpuListWalking
  Stops,       \* the program stops or starts over a channel whose event is posted
  Freezes,     \* the state may be saved while a part of a block is held
  MaxOps,      \* bound: writes of the registers of the channels and the decoder
  MaxIrqOps    \* bound: writes of the interrupt registers, events of others

ASSUME DmaAssumption ==
  /\ {0, 1} \subseteq Chan /\ Chan \subseteq {0, 1, 2, 4, 6}
  /\ BlockUnits \in Nat \ {0}
  /\ \A n \in Chan : Lens[n] \subseteq Nat \ {0}
  /\ \A z \in Lens[1] : z >= BlockUnits - 1
  /\ Pcrs \subseteq SUBSET Chan /\ Enables \subseteq SUBSET Chan
  /\ Walking \in BOOLEAN /\ Stops \in BOOLEAN /\ Freezes \in BOOLEAN
  /\ MaxOps \in Nat /\ MaxIrqOps \in Nat

VARIABLES
  reg,      \* per channel CHCR (on: its busy bit, mode) and BCR (len)
  pcr, icr, \* HW_DMA_PCR; HW_DMA_ICR
  istat, imask, \* 0x1070, 0x1074: bit 3 (DMA) and one other
  cause,    \* CP0 Cause bit 0x400
  pending,  \* psxRegs.interrupt
  bits,     \* irq_test: the events found due and not yet served
  todo,     \* psxHwWriteDmaPcr32: the channels still to start
  pc,       \* "run"; "start": in a write of PCR; "test": in irq_test
  mdec,     \* the movie decoder
  left,     \* chunks of the display list from HW_DMA2_MADR to its end
  moved,    \* history: per channel, what was moved since it was made busy
  lost,     \* history: channels whose transfer a reset of the decoder dropped
  owed,     \* history: a DMA interrupt that is not acknowledged
  ops, irqops

irqs == <<icr, istat, owed>>
cpu == <<imask, cause>>
data == <<reg, mdec, left, moved>>
vars == <<data, pcr, irqs, cpu, pending, bits, todo, pc, lost, ops, irqops>>

DMA == 3
Other == 7      \* another device's
Irq == {DMA, Other}

(* A channel works in a mode it knows, on a display list (channel 2), in   *)
(* one it does not know, or at an address outside the memory               *)
Modes(n) == {"fit", "odd", "far"} \cup IF n = 2 THEN {"list"} ELSE {}

(* PSXINT_ numbers, in whose order irq_test looks *)
EventOf(n) == CASE n = 2 -> 3 [] n = 1 -> 4 [] n = 4 -> 5 [] n = 0 -> 7 [] n = 6 -> 8
SIO == 0
NEWDRC_CHECK == 10

-----------------------------------------------------------------------------
(* What a start or a handler does: the registers, the events it posts, the *)
(* channels that end with an interrupt, the data                           *)
Still(r) == [reg |-> r, post |-> {}, done |-> {}, mdec |-> mdec, left |-> left, moved |-> moved]
Off(e, n) == [e EXCEPT !.reg[n].on = FALSE]
Ended(e, n) == IF e.reg[n].on THEN [Off(e, n) EXCEPT !.done = @ \cup {n}] ELSE e
Moved(e, n, what) == [e EXCEPT !.moved[n] = what]
Posted(e, n) == [e EXCEPT !.post = @ \cup {EventOf(n)}]

(* mutant: every completion interrupts *)
InterruptAlways(S) ==
  /\ icr' = [icr EXCEPT !.flags = @ \cup (S \cap icr.enable),
                        !.sent = @ \/ (icr.global /\ S \cap icr.enable # {})]
  /\ istat' = IF icr.global /\ S \cap icr.enable # {} THEN istat \cup {DMA} ELSE istat
  /\ owed' = (owed \/ (icr'.sent /\ ~icr.sent))

(* DMA_INTERRUPT for the channels of S *)
DmaInterrupt(S) ==
  /\ icr' = [icr EXCEPT !.flags = @ \cup (S \cap icr.enable),
                        !.sent = @ \/ (icr.global /\ S \cap icr.enable # {})]
  /\ istat' = IF icr'.sent /\ ~icr.sent THEN istat \cup {DMA} ELSE istat
  /\ owed' = (owed \/ (icr'.sent /\ ~icr.sent))

Apply(e) == /\ reg' = e.reg /\ mdec' = e.mdec /\ left' = e.left /\ moved' = e.moved
            /\ DmaInterrupt(e.done)

-----------------------------------------------------------------------------
(* mutant: a held rest is not let go when the units end with a block *)
HeldStill(m, units) ==
  LET rest == (units - m.held) % BlockUnits IN IF rest = 0 THEN m.held ELSE BlockUnits - rest

(* psxDma1 decodes: the rest of the block that is held comes first, then   *)
(* whole blocks, and of the last block what is not asked for is held       *)
Held(m, units) ==
  LET rest == (units - m.held) % BlockUnits IN IF rest = 0 THEN 0 ELSE BlockUnits - rest
Decoded(m, units) ==
  LET blocks == (units - m.held + BlockUnits - 1) \div BlockUnits
  IN [m EXCEPT !.rl = @ + blocks, !.decoded = @ + blocks, !.held = Held(m, units),
               !.given = @ + units, !.want = m.given, !.got = m.decoded * BlockUnits - m.held,
               !.bork = units < m.held]

NoDma == [on |-> FALSE, mode |-> "fit", len |-> 0]

(* psxDma1: without a list it waits for one *)
Dma1(e, r) ==
  CASE r.mode = "odd" -> e
    [] r.mode # "odd" /\ ~e.mdec.busy -> [e EXCEPT !.mdec.pending_dma1 = r]
    [] r.mode = "far" /\ e.mdec.busy -> Off(e, 1)
    [] r.mode = "fit" /\ e.mdec.busy ->
         Posted(Moved([e EXCEPT !.mdec = Decoded(@, r.len)], 1, "all"), 1)

(* mutant: the transfer that waits is not resumed *)
ResumedNot(e) == e

Resumed(e) == IF ~e.mdec.pending_dma1.on THEN e
              ELSE [Dma1(e, e.mdec.pending_dma1) EXCEPT !.mdec.pending_dma1 = NoDma]

(* psxDma0: tables are taken at once, a list as channel 1 asks for it *)
Dma0(e, r) ==
  CASE r.mode = "odd" -> e
    [] r.mode = "far" -> Off(e, 0)
    [] r.mode = "fit" /\ e.mdec.cmd = "decode" ->
         Resumed(Moved([e EXCEPT !.mdec.busy = TRUE, !.mdec.rl = 0, !.mdec.end = r.len], 0, "list"))
    [] r.mode = "fit" /\ e.mdec.cmd # "decode" -> Posted(Moved(e, 0, "all"), 0)

(* psxDma2: a display list goes at once, or walked chunk by chunk *)
Dma2(e, r) ==
  CASE r.mode = "fit" -> {Posted(Moved([e EXCEPT !.left = 0], 2, "all"), 2)}
    [] r.mode = "list" -> {Posted(Moved([e EXCEPT !.left = k], 2, "list"), 2) :
                             k \in IF Walking THEN 0..(r.len - 1) ELSE {0}}
    [] r.mode \in {"odd", "far"} -> {Ended(e, 2)}

(* psxDma4, psxDma6 *)
Dma46(e, n, r) == IF r.mode = "fit" THEN Posted(Moved(e, n, "all"), n) ELSE Ended(e, n)

psxDma(e, n) == CASE n = 0 -> {Dma0(e, e.reg[0])}
                  [] n = 1 -> {Dma1(e, e.reg[1])}
                  [] n = 2 -> Dma2(e, e.reg[2])
                  [] n \in {4, 6} -> {Dma46(e, n, e.reg[n])}

-----------------------------------------------------------------------------
(* The handlers.  gpuInterrupt goes on with a list that is not at its end, *)
(* by one chunk or by several                                              *)
gpuInterrupt(e) ==
  IF e.reg[2].on /\ e.reg[2].mode = "list" /\ left > 0
  THEN {Posted([e EXCEPT !.left = k], 2) : k \in 0..(left - 1)}
  ELSE {Ended(e, 2)}

(* mutant: the list is taken to be over before its last block *)
ListOverEarly == mdec.rl + 1 >= mdec.end

ListOver == mdec.rl >= mdec.end
mdec1Interrupt(e) ==
  {Ended(IF ListOver THEN Ended([e EXCEPT !.mdec.busy = FALSE], 0) ELSE e, 1)}

Handled(e, i) ==
  CASE i = 3 -> gpuInterrupt(e)
    [] i = 4 -> mdec1Interrupt(e)
    [] i = 5 -> {Ended(e, 4)}   \* spuInterrupt
    [] i = 7 -> {Ended(e, 0)}   \* mdec0Interrupt
    [] i = 8 -> {Ended(e, 6)}   \* gpuotcInterrupt

(* irq_test and its handlers *)
Test == /\ pc = "run" /\ pending # {}
        /\ pc' = "test"
        /\ bits' \in SUBSET pending \ {{}}
        /\ UNCHANGED <<data, pcr, irqs, cpu, pending, todo, lost, ops, irqops>>

Serve == /\ pc = "test" /\ bits # {}
         /\ LET i == CHOOSE i \in bits : \A j \in bits : i <= j
            IN /\ bits' = bits \ {i}
               /\ IF i \in {SIO, NEWDRC_CHECK}
                  THEN /\ istat' = IF i = SIO THEN istat \cup {Other} ELSE istat
                       /\ pending' = pending \ {i}
                       /\ UNCHANGED <<data, icr, owed>>
                  ELSE \E e \in Handled(Still(reg), i) :
                         Apply(e) /\ pending' = (pending \ {i}) \cup e.post
         /\ UNCHANGED <<pcr, cpu, todo, pc, lost, ops, irqops>>

Leave == /\ pc = "test" /\ bits = {}
         /\ pc' = "run"
         /\ cause' = (istat \cap imask # {})
         /\ UNCHANGED <<data, pcr, irqs, imask, pending, bits, todo, lost, ops, irqops>>

-----------------------------------------------------------------------------
(* The program.  Unless Stops it leaves a channel alone whose event is     *)
(* posted or whose list the decoder still has, and does not enable a       *)
(* channel again that has moved its data.                                  *)
Op == pc = "run" /\ ops < MaxOps /\ ops' = ops + 1 /\ UNCHANGED irqops
IrqOp == pc = "run" /\ irqops < MaxIrqOps /\ irqops' = irqops + 1 /\ UNCHANGED ops
Settled(n) ==
  \/ Stops
  \/ /\ (IF n = 0 THEN {EventOf(0), EventOf(1)} ELSE {EventOf(n)}) \cap pending = {}
     /\ n = 0 => ~mdec.busy

(* psxHwWriteChcr: r is written *)
WriteChcr(n, r) ==
  /\ Op /\ Settled(n)
  /\ r # reg[n]
  /\ LET new == [reg EXCEPT ![n] = r]
         starts == r.on /\ ~reg[n].on
         fresh == [moved EXCEPT ![n] = IF starts THEN "none" ELSE @]
     IN \E e \in IF starts /\ n \in pcr THEN psxDma([Still(new) EXCEPT !.moved = fresh], n)
                 ELSE {[Still(new) EXCEPT !.moved = fresh]} :
          Apply(e) /\ pending' = pending \cup e.post
  /\ lost' = IF r.on = reg[n].on THEN lost ELSE lost \ {n}
  /\ UNCHANGED <<pcr, cpu, bits, todo, pc>>

(* psxHwWriteDmaPcr32 starts the busy channels it enables, but for 2 *)
WritePcr(v) ==
  LET on == {n \in v \ pcr : n # 2 /\ reg[n].on}
  IN /\ Op /\ v # pcr
     /\ Stops \/ \A n \in on : moved[n] = "none"
     /\ pcr' = v /\ todo' = on
     /\ pc' = "start"
     /\ UNCHANGED <<data, irqs, cpu, pending, bits, lost>>
Started == /\ pc = "start"
           /\ IF todo = {} THEN pc' = "run" /\ UNCHANGED <<data, irqs, pending, todo>>
              ELSE LET n == CHOOSE n \in todo : \A k \in todo : n <= k
                   IN /\ todo' = todo \ {n}
                      /\ \E e \in psxDma(Still(reg), n) : Apply(e) /\ pending' = pending \cup e.post
                      /\ UNCHANGED pc
           /\ UNCHANGED <<pcr, cpu, bits, lost, ops, irqops>>

(* psxHwWriteDmaIcr32: enable bits, bus error bit, flags acknowledged *)
WriteIcr(enable, global, bus, acks) ==
  LET flags == icr.flags \ acks
      high == bus \/ (global /\ flags # {})
  IN /\ IrqOp
     /\ icr' = [enable |-> enable, global |-> global, bus |-> bus, flags |-> flags, sent |-> high]
     /\ istat' = IF high /\ ~icr.sent THEN istat \cup {DMA} ELSE istat
     /\ owed' = (owed \/ (high /\ ~icr.sent))
     /\ UNCHANGED <<data, pcr, cpu, pending, bits, todo, pc, lost>>

(* psxHwWriteIstat acknowledges the bits it does not name *)
WriteIstat(v) ==
  /\ IrqOp
  /\ istat' = istat \cap v
  /\ cause' = (istat' \cap imask # {})
  /\ owed' = (owed /\ DMA \in v)
  /\ UNCHANGED <<data, pcr, icr, imask, pending, bits, todo, pc, lost>>

WriteImask(v) ==
  /\ IrqOp
  /\ imask' = v
  /\ cause' = (istat \cap v # {})
  /\ pending' = IF istat \cap v # {} THEN pending \cup {NEWDRC_CHECK} ELSE pending
  /\ UNCHANGED <<data, pcr, irqs, bits, todo, pc, lost>>

(* mdecWrite0; mdecWrite1 resets the decoder *)
WriteMdec0(c) == /\ Op /\ ~mdec.busy
                 /\ mdec' = [mdec EXCEPT !.cmd = c]
                 /\ UNCHANGED <<reg, left, moved, pcr, irqs, cpu, pending, bits, todo, pc, lost>>
WriteMdec1 ==
  /\ Op
  /\ mdec' = [mdec EXCEPT !.cmd = "none", !.busy = FALSE, !.pending_dma1 = NoDma, !.held = 0,
                          !.decoded = 0, !.given = 0]
  /\ lost' = lost \cup {n \in {0, 1} : reg[n].on}
  /\ UNCHANGED <<reg, left, moved, pcr, irqs, cpu, pending, bits, todo, pc>>

(* another device posts its event *)
PostOther == /\ IrqOp
             /\ pending' = pending \cup {SIO}
             /\ UNCHANGED <<data, pcr, irqs, cpu, bits, todo, pc, lost>>

(* mdecFreeze, of a save as of a load: block_buffer_pos comes back as the  *)
(* start of the buffer                                                     *)
Freeze == /\ Op
          /\ Freezes \/ mdec.held = 0
          /\ mdec' = [mdec EXCEPT !.held = IF @ = 0 THEN 0 ELSE BlockUnits]
          /\ UNCHANGED <<reg, left, moved, pcr, irqs, cpu, pending, bits, todo, pc, lost>>

(* A moment at which the program has nothing running *)
Init ==
  /\ reg = [n \in Chan |-> NoDma] /\ pcr \in Pcrs
  /\ icr \in [enable : Enables, global : {TRUE}, bus : {FALSE}, flags : {{}}, sent : {FALSE}]
  /\ istat = {} /\ imask = {} /\ cause = FALSE
  /\ pending = {} /\ bits = {} /\ todo = {} /\ pc = "run"
  /\ mdec = [cmd |-> "none", busy |-> FALSE, rl |-> 0, end |-> 0, held |-> 0,
             pending_dma1 |-> NoDma, decoded |-> 0, given |-> 0, want |-> 0, got |-> 0,
             bork |-> FALSE]
  /\ left = 0 /\ moved = [n \in Chan |-> "none"] /\ lost = {} /\ owed = FALSE
  /\ ops = 0 /\ irqops = 0

Program ==
  \/ \E n \in Chan : \E m \in Modes(n), z \in Lens[n] :
       WriteChcr(n, [on |-> TRUE, mode |-> m, len |-> IF reg[n].on THEN reg[n].len ELSE z])
  \/ \E n \in Chan : WriteChcr(n, [reg[n] EXCEPT !.on = FALSE])
  \/ \E v \in Pcrs : WritePcr(v)
  \/ \E enable \in Enables, global, bus \in BOOLEAN, acks \in SUBSET icr.flags :
       WriteIcr(enable, global, bus, acks)
  \/ \E v \in SUBSET Irq : WriteIstat(v) \/ WriteImask(v)
  \/ \E c \in {"decode", "table"} : WriteMdec0(c)
  \/ WriteMdec1 \/ PostOther \/ Freeze

Next == Program \/ Started \/ Test \/ Serve \/ Leave

Spec == Init /\ [][Next]_vars

-----------------------------------------------------------------------------
(* The units that channel 1 takes are those of the blocks in the order in  *)
(* which they were decoded, none left out and none twice, wherever the     *)
(* transfers cut the blocks                                                *)
StreamTruth == mdec.got = mdec.want

(* A handler ends a transfer only when it is over: the data are moved, the *)
(* list of blocks is decoded, the display list is walked to its end        *)
Over(n) == CASE moved[n] = "all" -> TRUE
             [] moved[n] = "list" /\ n = 0 -> mdec.rl >= mdec.end
             [] moved[n] = "list" /\ n = 2 -> left = 0
             [] moved[n] = "none" -> FALSE
EndsWhenOver == [][\A n \in Chan : pc = "test" /\ reg[n].on /\ ~reg'[n].on => Over(n)]_vars

(* A channel that has moved its data gets its end: its event is posted, or *)
(* for a list the decoder waits for channel 1 - and never both channels    *)
(* for each other                                                          *)
NeverStuck ==
  \A n \in Chan :
    pc = "run" /\ reg[n].on /\ n \notin lost /\ EventOf(n) \notin pending =>
      \/ moved[n] = "none" /\ (n = 1 /\ mdec.pending_dma1.on => ~mdec.busy)
      \/ n = 0 /\ mdec.busy

(* The master flag of ICR is set just when it should be, and a DMA         *)
(* interrupt is pending since it last rose, until it is acknowledged; what *)
(* Cause shows is pending and not masked                                   *)
InterruptTruth ==
  /\ icr.sent <=> icr.bus \/ (icr.global /\ icr.flags # {})
  /\ DMA \in istat <=> owed
  /\ pc = "run" /\ cause => istat \cap imask # {}

(* log_unhandled("mdec: bork"): a held rest is never more than is asked *)
NoBork == ~mdec.bork
=============================================================================
