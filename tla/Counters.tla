------------------------------ MODULE Counters ------------------------------
(* The root counters (psxcounters.c) on the event scheduler: three         *)
(* counters of the program and the base counter that makes the frames.     *)
(* A counter is not advanced: its value is derived from the cycle at which *)
(* it was zero, and one event, PSXINT_RCNT, runs when the first of them    *)
(* reaches its target or overflows.                                        *)
EXTENDS Events

CONSTANTS
  RCNT,            \* PSXINT_RCNT
  Overflow,        \* 0x10000
  LoadLimit,       \* 0x1000, above which a loaded counter is written again
  PixelRate,       \* 5, the dot clock of counter 0
  EighthRate,      \* 8, the slow clock of counter 2
  LineCycles,      \* lineCycles()
  VBlankStart,     \* 240
  HSyncTotal,      \* 263 or 314
  Modes, Counts, Targets, \* what the program writes
  Live,            \* the counters it writes to
  Strides,         \* the cycles that pass at a time
  MaxNow, MaxWrites

Counter == 0..2
FrameCycles == HSyncTotal * LineCycles
Mode == [sync : {"free", "reset", "stop"}, tgt : BOOLEAN, irqT : BOOLEAN, irqO : BOOLEAN,
         regen : BOOLEAN, clk : BOOLEAN]

ASSUME CountersAssumption ==
  /\ RCNT \in Event
  /\ {Overflow, PixelRate, EighthRate, LineCycles, VBlankStart} \subseteq Nat \ {0}
  /\ LoadLimit \in Nat
  /\ HSyncTotal \in Nat /\ VBlankStart < HSyncTotal
  /\ 0..FrameCycles \subseteq Delays
  /\ Modes \in [Counter -> SUBSET Mode]
  /\ Counts \subseteq Nat /\ Targets \subseteq Nat
  /\ Live \subseteq Counter /\ Strides \subseteq 1..(Horizon + Slack)

VARIABLES
  rcnts,        \* 0..2: mode, target, rate, cycle, start (cycleStart), to
                \* (counterState = CountToTarget), irqd (irqState) and the
                \* flags hitT, hitO of mode
  base,         \* rcnts[3]: cycle, start
  hSyncCount, hsync_steps,
  psxNextCounter, psxNextsCounter,
  raised,       \* calls of setIrq per counter since its mode was written, two
                \* at most; 3: the vertical blank, in this frame
  yield,        \* EmuUpdate has asked the processor loop to return
  ref,          \* history: when a counter was last written, with which value
  frames,       \* history: calls of GPU_vBlank(0, field)
  writes        \* history: the writes of each counter

cvars == <<rcnts, base, hSyncCount, hsync_steps, psxNextCounter, psxNextsCounter,
           raised, yield, ref, frames, writes>>
rvars == <<evars, cvars>>

W32(x) == x % CycleMod
Since(start) == W32(cycle - start)

(* _psxRcntWmode: the rate a mode selects; a counter 2 in a stop mode gets *)
(* 0xffffffff                                                              *)
Rate(i, m) == IF m.sync = "stop" /\ i = 2 THEN CycleMod - 1
              ELSE IF m.clk THEN <<PixelRate, LineCycles, EighthRate>>[i + 1] ELSE 1

(* _psxRcntWcount *)
Wcount(r, value) ==
  LET v == value % Overflow
  IN [r EXCEPT !.start = W32(cycle - v * r.rate),
               !.to = v < r.target,
               !.cycle = W32((IF v < r.target THEN r.target ELSE Overflow) * r.rate)]

(* _psxRcntRcount *)
Rcount(r) == (IF r.rate > 1 THEN Since(r.start) \div r.rate ELSE Since(r.start)) % Overflow

(* The reference, of a counter that runs freely: its last written value    *)
(* plus the ticks since, and how often that has been at the target         *)
Ticks(i) == ref[i].v + (now - ref[i].at) \div rcnts[i].rate
Before(i) == ref[i].v < rcnts[i].target
Wraps(i) == rcnts[i].mode.tgt /\ rcnts[i].target > 0
Ideal(i) ==
  LET first == IF Before(i) THEN rcnts[i].target ELSE Overflow
  IN IF ~Wraps(i) THEN Ticks(i) % Overflow
     ELSE IF Ticks(i) < first THEN Ticks(i) ELSE (Ticks(i) - first) % rcnts[i].target
Hits(i) ==
  LET T == rcnts[i].target
      late == Ticks(i) - (IF Before(i) THEN 0 ELSE Overflow) - T
  IN IF T = 0 \/ late < 0 THEN 0
     ELSE late \div (IF Wraps(i) THEN T ELSE Overflow) + 1

ResetSync(m) == m.sync = "reset"

(* the interrupt of psxRcntReset: again only with RcIrqRegenerate *)
Raises(r, on) == on /\ (r.mode.regen \/ ~r.irqd)

(* mutant: the counter restarts when it is handled, not when it was due *)
AtTargetNow(r) ==
  [r EXCEPT !.start = IF r.mode.tgt THEN cycle ELSE @,
            !.cycle = IF r.mode.tgt THEN @ ELSE W32(Overflow * r.rate),
            !.to = r.mode.tgt, !.hitT = TRUE, !.irqd = @ \/ r.mode.irqT,
            !.irq = @ \/ Raises(r, r.mode.irqT)]

(* psxRcntReset at a target: its first half *)
AtTarget(r) ==
  LET span == W32(r.target * r.rate)
      back == [r EXCEPT !.start = W32(r.start + span)]
      on == [r EXCEPT !.cycle = W32(Overflow * r.rate), !.to = FALSE]
  IN [(IF r.mode.tgt THEN back ELSE on)
        EXCEPT !.hitT = TRUE, !.irqd = @ \/ r.mode.irqT,
               !.irq = @ \/ Raises(r, r.mode.irqT)]

(* psxRcntReset at an overflow: its second half *)
AtOverflow(r) ==
  LET start == W32(r.start + Overflow * r.rate)
      again == Since(start) < W32(r.target * r.rate)
  IN [r EXCEPT !.start = start,
               !.to = again,
               !.cycle = IF again THEN W32(r.target * r.rate) ELSE @,
               !.hitO = TRUE, !.irqd = @ \/ r.mode.irqO,
               !.irq = @ \/ Raises(r, r.mode.irqO)]

psxRcntReset(r) ==
  IF ~r.to THEN AtOverflow(r)
  ELSE LET t == AtTarget(r)
           rcycles == W32(Since(r.start) - (IF r.mode.tgt THEN r.target * r.rate ELSE 0))
       IN IF rcycles < W32(Overflow * r.rate) \/ t.to THEN t ELSE AtOverflow(t)

(* a round of the loops of psxRcntUpdate; the first breaks off after it    *)
(* has brought counter 0 to its line                                       *)
Resyncs(i, r) == i = 0 /\ ResetSync(r.mode) /\ Since(r.start) > LineCycles
Round(i, r) ==
  IF Resyncs(i, r)
  THEN [r EXCEPT !.start = W32(@ + (Since(@) \div (LineCycles + 1)) * LineCycles)]
  ELSE psxRcntReset(r)

(* the loops: there are fewer rounds than CycleMod                         *)
Rounds(i, r) ==
  LET after[n \in 0..CycleMod] == IF n = 0 THEN r ELSE Round(i, after[n - 1]) IN after
CatchUp(i, r) ==
  LET after == Rounds(i, r)
      Ends(n) == \/ Since(after[n].start) < after[n].cycle
                 \/ n > 0 /\ Resyncs(i, after[n - 1])
                 \/ n = CycleMod
  IN after[CHOOSE n \in 0..CycleMod : Ends(n) /\ \A m \in 0..(n - 1) : ~Ends(m)]

(* mutant: a counter that is overdue posts its event in the past *)
NextCounterRaw(rs, b) ==
  Least({Signed(r.cycle - Since(r.start)) : r \in {rs[i] : i \in Counter} \cup {b}})

(* psxRcntSet: the cycles to the next event of any counter *)
NextCounter(rs, b) ==
  LET left == {Signed(r.cycle - Since(r.start)) : r \in {rs[i] : i \in Counter} \cup {b}}
      bounded == {k \in left : k < Half - 1} \cup {Half - 1}
  IN IF \E k \in left : k < 0 THEN 0 ELSE Least(bounded)

(* scheduleRcntBase *)
Steps(h) == IF h < VBlankStart THEN VBlankStart - h ELSE HSyncTotal - h
BaseCycle(h) == IF h + Steps(h) = HSyncTotal THEN FrameCycles ELSE Steps(h) * LineCycles
-----------------------------------------------------------------------------
SetNext(rs, b) == /\ psxNextsCounter' = cycle
                  /\ psxNextCounter' = NextCounter(rs, b)

(* psxRcntUpdate: counters 0 to 2 catch up, then the base counter takes    *)
(* one step: into the vertical blank, or into the next frame               *)
Caught == [i \in Counter |-> CatchUp(i, rcnts[i])]
BaseDue == Since(base.start) >= base.cycle
Lines == hSyncCount + hsync_steps
VBlank == BaseDue /\ Lines = VBlankStart
FrameEnd == BaseDue /\ Lines >= HSyncTotal
(* mutant: the frame starts when its end is handled *)
FrameStartNow == cycle

FrameStart == W32(base.start + FrameCycles)

NewCounters ==
  [i \in Counter |->
     LET r == [Caught[i] EXCEPT !.irq = FALSE]
     IN IF ~FrameEnd \/ i = 2 THEN r
        ELSE IF ResetSync(r.mode) THEN [r EXCEPT !.start = FrameStart]
        ELSE IF i = 1 /\ r.mode.clk THEN Wcount(r, Since(r.start) \div r.rate)
        ELSE r]
NewLines == IF FrameEnd THEN 0 ELSE IF BaseDue THEN Lines ELSE hSyncCount
NewBase == [start |-> IF FrameEnd THEN FrameStart ELSE base.start,
            cycle |-> IF BaseDue THEN BaseCycle(NewLines) ELSE base.cycle]

(* a counter written by the code at a frame end starts anew for the history *)
Rebase(r) == [at |-> now, v |-> Rcount(r), hit |-> r.hitT, may |-> FALSE, ack |-> 0]

Update ==
  /\ rcnts' = NewCounters
  /\ base' = NewBase
  /\ hSyncCount' = NewLines
  /\ hsync_steps' = IF BaseDue THEN Steps(NewLines) ELSE hsync_steps
  /\ raised' = [i \in 0..3 |->
                 IF i = 3 THEN IF FrameEnd THEN 0 ELSE raised[3] + (IF VBlank THEN 1 ELSE 0)
                 ELSE IF Caught[i].irq /\ raised[i] < 2 THEN raised[i] + 1 ELSE raised[i]]
  /\ yield' = (yield \/ VBlank)
  /\ frames' = IF FrameEnd THEN frames + 1 ELSE frames
  /\ ref' = [i \in Counter |-> IF FrameEnd /\ i = 1 /\ rcnts[1].mode.clk
                               THEN Rebase(NewCounters[1]) ELSE ref[i]]
  /\ SetNext(NewCounters, NewBase)
  /\ UNCHANGED writes

At(k) == [e \in {RCNT} |-> k]
RcntDelay == At(NextCounter(NewCounters, NewBase))

(* gen_interupt at the end of a timeslice, or psxBranchTest, which runs    *)
(* the update by itself first when its time has come, then enters irq_test *)
GenInterupt == /\ Signed(cycle - next_interupt) >= 0
               /\ Enter(TRUE)
               /\ UNCHANGED cvars
BranchUpdate == /\ W32(cycle - psxNextsCounter) >= psxNextCounter
                /\ Access(interrupt, RcntDelay)
                /\ Update
BranchTest == Enter(FALSE) /\ UNCHANGED cvars
Serve == Handle(RCNT, interrupt, RcntDelay) /\ Update
Return == Leave /\ UNCHANGED cvars

(* the processor: time passes until the loop is asked to return *)
Execute == /\ now < MaxNow
           /\ \E k \in Strides : now + k <= MaxNow /\ Run(k)
           /\ yield' = FALSE
           /\ UNCHANGED <<rcnts, base, hSyncCount, hsync_steps, psxNextCounter,
                          psxNextsCounter, raised, ref, frames, writes>>

-----------------------------------------------------------------------------
(* Bounds: the program makes MaxWrites writes, all of one counter, and     *)
(* reads the mode of that one after them                                   *)
Uses(i) == \A j \in Counter \ {i} : writes[j] = 0

(* the program writes counter i: what the three write functions share *)
RcntWritten(i, r) ==
  /\ Uses(i) /\ writes[i] < MaxWrites
  /\ writes' = [writes EXCEPT ![i] = @ + 1]
  /\ rcnts' = [rcnts EXCEPT ![i] = r]
  /\ ref' = [ref EXCEPT ![i] = Rebase(r)]
  /\ SetNext(rcnts', base)
  /\ Access(interrupt, At(NextCounter(rcnts', base)))
  /\ UNCHANGED <<base, hSyncCount, hsync_steps, yield, frames>>

psxRcntWcount(i, v) == /\ RcntWritten(i, Wcount(rcnts[i], v))
                       /\ UNCHANGED raised

psxRcntWmode(i, m) ==
  LET r == [rcnts[i] EXCEPT !.mode = m, !.rate = Rate(i, m), !.hitT = FALSE, !.hitO = FALSE]
  IN /\ RcntWritten(i, [Wcount(r, 0) EXCEPT !.irqd = FALSE])
     /\ raised' = [raised EXCEPT ![i] = 0]

psxRcntWtarget(i, t) ==
  LET r == [rcnts[i] EXCEPT !.target = t]
  IN /\ RcntWritten(i, Wcount(r, Rcount(r)))
     /\ UNCHANGED raised

(* psxRcntRmode: reading the mode clears its two flags *)
psxRcntRmode(i) ==
  /\ pc = "run" /\ writes[i] = MaxWrites
  /\ rcnts[i].hitT \/ rcnts[i].hitO
  /\ rcnts' = [rcnts EXCEPT ![i].hitT = FALSE, ![i].hitO = FALSE]
  /\ ref' = [ref EXCEPT ![i].hit = FALSE, ![i].may = IsDue(RCNT),
                             ![i].ack = Hits(i)]
  /\ UNCHANGED <<evars, base, hSyncCount, hsync_steps, psxNextCounter, psxNextsCounter,
                 raised, yield, frames, writes>>

(* psxRcntRcount0 of a counter that restarts with every line *)
psxRcntRcount0 ==
  /\ pc = "run"
  /\ ResetSync(rcnts[0].mode)
  /\ rcnts' = [rcnts EXCEPT ![0].start = W32(cycle - (Since(@) % LineCycles))]
  /\ UNCHANGED <<evars, base, hSyncCount, hsync_steps, psxNextCounter, psxNextsCounter,
                 raised, yield, ref, frames, writes>>

(* a state is saved after the processor loop has returned and loaded       *)
(* again: psxRcntFreeze derives the rates and writes the counts anew, and  *)
(* events_restore takes the cycle of the event from what it set            *)
Loaded(i) ==
  LET r == [rcnts[i] EXCEPT !.rate = Rate(i, rcnts[i].mode)]
      count == Since(r.start) \div r.rate
  IN IF count > LoadLimit THEN Wcount(r, count % Overflow) ELSE r
LoadedBase == [base EXCEPT !.cycle = BaseCycle(hSyncCount)]

psxRcntFreeze ==
  /\ pc = "run" /\ yield
  /\ rcnts' = [i \in Counter |-> Loaded(i)]
  /\ base' = LoadedBase
  /\ hsync_steps' = Steps(hSyncCount)
  /\ SetNext(rcnts', base')
  /\ Access(interrupt, At(NextCounter(rcnts', base')))
  /\ ref' = [i \in Counter |-> IF rcnts'[i].start # rcnts[i].start
                               THEN Rebase(rcnts[i]) ELSE ref[i]]
  /\ yield' = FALSE
  /\ UNCHANGED <<hSyncCount, raised, frames, writes>>

-----------------------------------------------------------------------------
NoMode == [sync |-> "free", tgt |-> FALSE, irqT |-> FALSE, irqO |-> FALSE,
           regen |-> FALSE, clk |-> FALSE]

(* psxRcntInit *)
InitRcnt ==
  /\ cycle = Start % CycleMod /\ now = Start
  /\ rcnts = [i \in Counter |->
       Wcount([mode |-> NoMode, target |-> 0, rate |-> 1, cycle |-> 0, start |-> 0, to |-> FALSE,
               irqd |-> FALSE, irq |-> FALSE, hitT |-> FALSE, hitO |-> FALSE], 0)]
  /\ base = [start |-> cycle, cycle |-> BaseCycle(0)]
  /\ hSyncCount = 0 /\ hsync_steps = Steps(0)
  /\ psxNextsCounter = cycle /\ psxNextCounter = NextCounter(rcnts, base)
  /\ InitEvents(At(psxNextCounter))
  /\ raised = [i \in 0..3 |-> 0] /\ yield = FALSE /\ frames = 0
  /\ writes = [i \in Counter |-> 0]
  /\ ref = [i \in Counter |-> Rebase(rcnts[i])]

RcntAccess ==
  \/ \E i \in Live : \/ \E v \in Counts : psxRcntWcount(i, v)
                    \/ \E m \in Modes[i] : psxRcntWmode(i, m)
                    \/ \E t \in Targets : psxRcntWtarget(i, t)
                    \/ psxRcntRmode(i)
  \/ psxRcntRcount0

NextRcnt == \/ Execute \/ RcntAccess \/ psxRcntFreeze
        \/ GenInterupt \/ BranchUpdate \/ BranchTest \/ Serve \/ Return

RcntSpec == InitRcnt /\ [][NextRcnt]_rvars

-----------------------------------------------------------------------------
(* a free-running counter whose target is more than a block overrun away:  *)
(* a shorter one is skipped after an overflow that is handled late         *)
Regular(i) == /\ rcnts[i].mode.sync = "free"
              /\ rcnts[i].target > 0 => rcnts[i].target * rcnts[i].rate > Slack

(* Whenever the counter event is not overdue, a counter reads what its     *)
(* ticks since the last write amount to, and its flag says whether it has  *)
(* been at its target: late handlers, restarts at the target, frames, the  *)
(* wrap of the cycle counter and a save state lose no tick and no target   *)
CounterTruth ==
  (pc = "run" /\ ~IsDue(RCNT)) =>
    \A i \in Counter : Regular(i) =>
      /\ Rcount(rcnts[i]) = Ideal(i)
      /\ (ref[i].hit \/ Hits(i) > ref[i].ack) => rcnts[i].hitT
      /\ rcnts[i].hitT => (ref[i].hit \/ ref[i].may \/ Hits(i) > ref[i].ack)
      /\ (Hits(i) > 0 /\ rcnts[i].mode.irqT) => raised[i] > 0
      /\ ~rcnts[i].mode.regen => raised[i] < 2

(* Frames do not drift: the number of frames and the position in the frame *)
(* follow from the time alone, however late each vertical blank was        *)
(* handled and whatever the program makes of the three counters            *)
FrameTruth ==
  (pc = "run" /\ ~IsDue(RCNT)) =>
    /\ frames = (now - Start) \div FrameCycles
    /\ hSyncCount = IF (now - Start) % FrameCycles < VBlankStart * LineCycles
                    THEN 0 ELSE VBlankStart
    /\ raised[3] = IF hSyncCount = 0 THEN 0 ELSE 1

(* A frame lasts less than half the range of the cycle counter, which is a *)
(* minute.  The event is not passed over (Events!missed) so often that it  *)
(* lasts longer.                                                           *)
InTime == now - (Start + frames * FrameCycles) < Half

(* what the counters do is what the scheduler allows its handlers to do *)
ImplementsEvents == EventSpec
=============================================================================
