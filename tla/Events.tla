------------------------------- MODULE Events -------------------------------
(* The event scheduler (psxevents.c, psxevents.h): every peripheral posts  *)
(* the cycle at which its handler is to run, the processor runs until the  *)
(* earliest of them and then calls the handlers that are due.  Cycles are  *)
(* 32-bit and wrap; all comparisons are of signed differences.             *)
(*                                                                         *)
(* What a handler does is left to the components that extend this module   *)
(* (Counters); here it may cancel any events and post any others.         *)
EXTENDS Integers, FiniteSets

CONSTANTS
  Event,      \* the events in use, by their PSXINT_ number
  CycleMod,   \* 2^32
  Horizon,    \* PSXCLK, the longest timeslice
  Slack,      \* cycles a translated block runs on after its timeslice is over
  Late,       \* how far in the past a handler may post an event
  Delays,     \* the delays posted
  Start       \* the cycle at which the model starts

Half == CycleMod \div 2

ASSUME EventsAssumption ==
  /\ Event \subseteq Nat /\ IsFiniteSet(Event)
  /\ CycleMod \in Nat /\ Slack \in Nat /\ Late \in Nat /\ Horizon \in Nat \ {0}
  /\ Delays \subseteq Int /\ Start \in Nat
  /\ CycleMod % 2 = 0
  /\ \A d \in Delays : -Late <= d /\ d + Late + Horizon + Slack < Half
  /\ 2 * Late + 2 * Horizon + 2 * Slack < Half

VARIABLES
  cycle,          \* psxRegs.cycle
  interrupt,      \* the bits of psxRegs.interrupt
  event_cycles,   \* psxRegs.event_cycles
  next_interupt,  \* psxRegs.next_interupt
  pc,             \* "run": translated code; "test": in irq_test
  bits,           \* irq_bits, the part of the copy that is not yet scanned
  resched,        \* gen_interupt calls schedule_timeslice after irq_test
  now,            \* history: the cycle that does not wrap
  due,            \* history: when each event is due
  slice,          \* history: when the timeslice ends
  missed          \* history: events that were overdue when the slice was set

evars == <<cycle, interrupt, event_cycles, next_interupt, pc, bits, resched,
           now, due, slice, missed>>

(* (s32)x *)
Signed(x) == IF (x % CycleMod) < Half THEN (x % CycleMod) ELSE (x % CycleMod) - CycleMod

Abs(c) == (cycle + c) % CycleMod

Least(S) == CHOOSE x \in S : \A y \in S : x <= y

(* set_event for every event of DOMAIN d, with its delay, by code that     *)
(* leaves only the bits "on" of the others: the timeslice is cut to the    *)
(* earliest                                                                *)
Post(on, d) ==
  LET first == Least({d[e] : e \in DOMAIN d})
      cut == DOMAIN d # {} /\ Signed(next_interupt - Abs(first)) > 0
  IN /\ interrupt' = on \cup DOMAIN d
     /\ event_cycles' = [e \in Event |-> IF e \in DOMAIN d THEN Abs(d[e]) ELSE event_cycles[e]]
     /\ next_interupt' = IF cut THEN Abs(first) ELSE next_interupt
     /\ slice' = IF cut THEN now + first ELSE slice
     /\ due' = [e \in Event |-> IF e \in DOMAIN d THEN now + d[e] ELSE due[e]]
     /\ missed' = (missed \cap on) \ DOMAIN d

Posts == UNION {[S -> Delays] : S \in SUBSET Event}

(* mutant: cycles compared as they are *)
IsDueUnsigned(e) == cycle >= event_cycles[e]

IsDue(e) == Signed(cycle - event_cycles[e]) >= 0

(* schedule_timeslice: the events that are overdue are not looked at *)
Ahead == {Signed(event_cycles[e] - cycle) : e \in interrupt}
Timeslice == Least({Horizon} \cup {k \in Ahead : k > 0})

-----------------------------------------------------------------------------
(* the processor runs k cycles: code is left at the first branch with      *)
(* cycle >= next_interupt, which a block reaches Slack cycles late at most *)
Run(k) ==
  /\ pc = "run"
  /\ k > 0
  /\ Signed(next_interupt + Slack - (cycle + k)) >= 0
  /\ cycle' = Abs(k)
  /\ now' = now + k
  /\ UNCHANGED <<interrupt, event_cycles, next_interupt, pc, bits, resched, due, slice, missed>>

(* a register access of the program that cancels and posts events *)
Access(on, d) ==
  /\ pc = "run"
  /\ \A e \in DOMAIN d : d[e] >= 0
  /\ Post(on, d)
  /\ UNCHANGED <<cycle, pc, bits, resched, now>>

(* irq_test is entered: from gen_interupt (r) at the end of a timeslice or *)
(* after a write of the status register, or from psxBranchTest             *)
Enter(r) ==
  /\ pc = "run"
  /\ pc' = "test"
  /\ bits' = interrupt
  /\ resched' = r
  /\ UNCHANGED <<cycle, interrupt, event_cycles, next_interupt, now, due, slice, missed>>

(* the next handler: of the lowest event of the copy that is due, even if  *)
(* a handler of this pass has cancelled it                                 *)
Serves(e) == /\ pc = "test"
             /\ e \in bits
             /\ IsDue(e)
             /\ \A f \in bits : f < e => ~IsDue(f)

Handle(e, on, d) ==
  /\ Serves(e)
  /\ Post(on \ {e}, d)
  /\ bits' = {f \in bits : f > e}
  /\ UNCHANGED <<cycle, pc, resched, now>>

Leave ==
  /\ pc = "test"
  /\ \A e \in bits : ~IsDue(e)
  /\ pc' = "run"
  /\ bits' = {}
  /\ next_interupt' = IF resched THEN Abs(Timeslice) ELSE next_interupt
  /\ slice' = IF resched THEN now + Timeslice ELSE slice
  /\ missed' = IF resched THEN {e \in interrupt : due[e] <= now} ELSE missed
  /\ UNCHANGED <<cycle, interrupt, event_cycles, resched, now, due>>

(* a reset leaves the events of DOMAIN d posted and the timeslice empty *)
InitEvents(d) ==
  /\ now = Start /\ cycle = Start % CycleMod
  /\ interrupt = DOMAIN d /\ missed = {}
  /\ due = [e \in Event |-> IF e \in interrupt THEN now + d[e] ELSE now]
  /\ event_cycles = [e \in Event |-> due[e] % CycleMod]
  /\ next_interupt = cycle /\ slice = now
  /\ pc = "run" /\ bits = {} /\ resched = FALSE

NextEvent ==
  \/ \E k \in 1..(Horizon + Slack) : Run(k)
  \/ \E on \in SUBSET interrupt, d \in Posts : Access(on, d)
  \/ \E r \in BOOLEAN : Enter(r)
  \/ \E e \in Event, on \in SUBSET interrupt, d \in Posts : Handle(e, on, d)
  \/ Leave

InitEvent == \E d \in Posts : /\ \A e \in DOMAIN d : d[e] >= 0
                              /\ InitEvents(d)

EventSpec == InitEvent /\ [][NextEvent]_evars

-----------------------------------------------------------------------------
(* A handler runs no earlier than its event was due, and the event waits   *)
(* for it no longer than a block overruns its timeslice - or, when a       *)
(* handler posted it in the past and schedule_timeslice passed it over,    *)
(* one whole timeslice more.  So a posted cycle never gets near 2^31       *)
(* cycles away, where the signed comparisons of irq_test, set_event and    *)
(* schedule_timeslice would flip.                                          *)
Lateness(e) == IF e \in missed THEN Late + Horizon + Slack
               ELSE IF Late > Slack THEN Late ELSE Slack
Punctual ==
  /\ \A e \in interrupt \cup bits : IsDue(e) <=> now >= due[e]
  /\ \A e \in interrupt : now <= due[e] + Lateness(e)
=============================================================================
