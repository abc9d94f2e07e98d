----------------------------- MODULE MCCounters -----------------------------
(* Instances of Counters for TLC: a counter overflows after a few ticks,   *)
(* a frame has four lines of two cycles, the cycle counter wraps early.    *)
EXTENDS Counters

OneToTarget == [NoMode EXCEPT !.tgt = TRUE, !.irqT = TRUE]
Repeating == [NoMode EXCEPT !.irqT = TRUE, !.irqO = TRUE, !.regen = TRUE]
Slow == [NoMode EXCEPT !.clk = TRUE]
PerFrame == [NoMode EXCEPT !.sync = "reset"]
Stopped == [NoMode EXCEPT !.sync = "stop"]

AllModes == <<{OneToTarget, PerFrame}, {Slow}, {Repeating, Stopped}>>
ModesOf == [i \in Counter |-> AllModes[i + 1]]
Soon == 0..12
=============================================================================
