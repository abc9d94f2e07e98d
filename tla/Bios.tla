-------------------------------- MODULE Bios --------------------------------
(* The kernel of the replacement BIOS (psxbios.c): threads, the exception  *)
(* handler with its chains, events, pads and cards read at the vertical    *)
(* blank.  Its functions run on the host; handlers of the program run in   *)
(* softCall, a loop of the emulated processor inside the function, that    *)
(* ends when pc0 is at an agreed address or looks as if an exception had   *)
(* returned.  Matches, Restored and Finished have a faulty twin before     *)
(* them, which the specification does not use.                             *)
EXTENDS Integers, FiniteSets, FiniteSetsExt, SequencesExt

CONSTANTS
  Threads,   \* the thread control blocks, 0 for the first thread
  Slots,     \* the event control blocks, in order
  Kinds,     \* [class, mode] of the events that the program opens
  Setups,    \* tables of events that it starts with
  Ports,     \* the ports with a card that the program uses
  Sectors,   \* lengths of what it reads and writes
  Calls,     \* the functions it calls
  Shared,    \* handlers run a subroutine that the program runs as well
  MaxCalls   \* bound: calls of the program

VARIABLES
  pc,      \* where the processor is: the program, the exception vector, the
           \* exception handler (on the host), a handler of the program, the
           \* subroutine called by it, the program's own exit from exceptions
  live,    \* the registers: where the thread is, whose they are, SR
  k0,      \* the address in $k0: "sub", or "none" for one that no handler runs
  cause,   \* Cause: "irq" or "sys"
  irq,     \* bit 0 of I_STAT
  cur,     \* PCB: the current thread
  tcb,     \* TCB: the saved registers
  opened,  \* TCB: the threads whose status is 0x4000
  ev,      \* EvCB
  chain,   \* the entries of chain 2, from the front
  flags,   \* A_PAD_IRQR_ENA, A_CARD_IRQR_ENA, A_PAD_ACK_VBL, A_RCNT_VBL_ACK[3],
           \* A_EEXIT_PTR # A_EEXIT_DEF, bit 0 of I_MASK
  card,    \* the A_CARD_ words, card_io_delay, and McdFlag
  step,    \* how far psxBiosException has come
  pos,     \* where it is in chain 2
  del,     \* the DeliverEvent that a softCall is part of
  ctx,     \* each thread as the program left it
  who,     \* the thread that the program changed to
  cut,     \* a handler has been cut short
  seen,    \* what became of the last vertical blank
  asked, answer,   \* what each card is to do, and what was last reported
  calls

cpu == <<pc, live, k0, cause>>
threads == <<cur, tcb, opened>>
host == <<step, pos, del>>
truth == <<ctx, who, cut>>
irqs == <<irq, chain, flags>>
cards == <<card, asked, answer>>
vars == <<pc, live, k0, cause, irq, cur, tcb, opened, ev, chain, flags, card, step, pos,
          del, ctx, who, cut, seen, asked, answer, calls>>

Classes == {"vbl", "own", "card4", "card2000", "hw4", "hw2000"}
Unused == [class |-> "own", mode |-> "mark", status |-> "unused"]
Enabled(k) == [class |-> k.class, mode |-> k.mode, status |-> "active"]
NoDelivery == [class |-> "own", next |-> 1, m |-> FALSE]
Unseen == [pads |-> FALSE, polls |-> 0, own |-> FALSE, owns |-> 0,
           evs |-> {}, told |-> [i \in Slots |-> 0]]
Fresh(t) == [at |-> "main", to |-> 0, own |-> t, c |-> FALSE, m |-> FALSE]
Lost == -1

(* Handlers are delivered for the vertical blank or by the program: that   *)
(* of a card would run in the middle of card_vint_handler                  *)
ASSUME BiosAssumption ==
  /\ Threads \subseteq Nat /\ 0 \in Threads /\ IsFiniteSet(Threads)
  /\ IsFiniteSet(Slots) /\ Slots = 1 .. Cardinality(Slots)
  /\ Kinds \subseteq [class : Classes, mode : {"call", "mark"}]
  /\ \A k \in Kinds : k.mode = "call" => k.class \in {"vbl", "own"}
  /\ Setups \subseteq [Slots -> {Unused} \cup {Enabled(k) : k \in Kinds}]
  /\ Ports \subseteq {0, 1} /\ Sectors \subseteq Nat \ {0}
  /\ Shared \in BOOLEAN /\ MaxCalls \in Nat

-----------------------------------------------------------------------------
(* After psxBiosInit, with the handlers of the CD-ROM removed from chain 0 *)
(* and some events open; with or without pads and cards started (StartCARD *)
(* and StartPAD), and with or without a second thread.                     *)
Init ==
  /\ pc = "prog" /\ k0 = "none" /\ cause = "sys" /\ irq = FALSE
  /\ cur = 0 /\ tcb = [t \in Threads |-> Fresh(t)] /\ opened \in {{0}, Threads}
  /\ ev \in Setups
  /\ \E on, cds \in BOOLEAN :
       /\ cds => on
       /\ live = [Fresh(0) EXCEPT !.c = on, !.m = on]
       /\ chain = IF on THEN <<"pad">> ELSE <<>>
       /\ flags = [pads |-> on, cards |-> cds, ackPad |-> on, ackVbl |-> ~on,
                   hook |-> FALSE, mask |-> on]
  /\ card = [achan |-> 0, handler |-> "none", left |-> 0, delay |-> 0,
             stat |-> [p \in {0, 1} |-> "idle"], hlvl |-> [p \in {0, 1} |-> "none"],
             fresh |-> [p \in {0, 1} |-> TRUE]]
  /\ step = "none" /\ pos = 1 /\ del = NoDelivery
  /\ ctx = [t \in Threads |-> IF t = 0 THEN live ELSE Fresh(t)] /\ who = 0
  /\ cut = FALSE /\ seen = Unseen
  /\ asked = [p \in {0, 1} |-> "none"]
  /\ answer = [file |-> FALSE, spec |-> "done"] /\ calls = 0

-----------------------------------------------------------------------------
(* Events                                                                  *)

(* DeliverEvent: events of the class from slot i on are marked, up to one  *)
(* that has a handler                                                      *)
MatchesAfter(e, class, i) == {j \in Slots : j > i /\ e[j].status = "active" /\ e[j].class = class}
Matches(e, class, i) == {j \in Slots : j >= i /\ e[j].status = "active" /\ e[j].class = class}
CallAt(e, class, i) ==
  LET calling == {j \in Matches(e, class, i) : e[j].mode = "call"}
  IN  IF calling = {} THEN 0 ELSE Min(calling)
Marked(e, class, i) ==
  [j \in Slots |->
     IF j \in Matches(e, class, i) /\ e[j].mode = "mark"
        /\ (CallAt(e, class, i) = 0 \/ j < CallAt(e, class, i))
     THEN [e[j] EXCEPT !.status = "already"] ELSE e[j]]

(* UnDeliverEvent                                                          *)
Undelivered(e, classes) ==
  [j \in Slots |-> IF e[j].status = "already" /\ e[j].class \in classes /\ e[j].mode = "mark"
                   THEN [e[j] EXCEPT !.status = "active"] ELSE e[j]]

(* softCall gives the interrupt mask back: SR |= ssr & 0x404               *)
RestoredNot(sr, m) == sr
Restored(sr, m) == [sr EXCEPT !.m = @ \/ m]

(* The loop of DeliverEvent from slot i on, as far as the next softCall,   *)
(* which takes the interrupt mask away; after the last slot, the caller    *)
(* goes on: the program behind its call, or the exception handler.         *)
Deliver(class, i, sr) ==
  /\ ev' = Marked(ev, class, i)
  /\ LET at == CallAt(ev, class, i) IN
       IF at # 0
       THEN /\ pc' = "handler" /\ step' = step
            /\ live' = [sr EXCEPT !.m = FALSE]
            /\ del' = [class |-> class, next |-> at + 1, m |-> sr.m]
       ELSE /\ pc' = IF step = "none" THEN "prog" ELSE "exc"
            /\ step' = IF step = "none" THEN "none" ELSE "vback"
            /\ live' = sr /\ del' = NoDelivery

(* What the program's handlers can see of a slot that is changed under     *)
(* them is not counted                                                     *)
Touch(i) == seen' = [seen EXCEPT !.evs = @ \ {i}]
SetStatus(i, s) == ev' = [ev EXCEPT ![i].status = s]

OpenEvent(k) ==
  /\ "open" \in Calls
  /\ LET free == {i \in Slots : ev[i].status = "unused"} IN
       /\ free # {}
       /\ ev' = [ev EXCEPT ![Min(free)] = [class |-> k.class, mode |-> k.mode, status |-> "disabled"]]
  /\ UNCHANGED seen
EnableEvent(i) ==
  /\ "open" \in Calls /\ ev[i].status # "unused" /\ SetStatus(i, "active") /\ Touch(i)
DisableEvent(i) ==
  /\ "open" \in Calls /\ ev[i].status # "unused" /\ SetStatus(i, "disabled") /\ Touch(i)
CloseEvent(i) ==
  /\ "close" \in Calls /\ ev[i].status # "unused" /\ SetStatus(i, "unused") /\ Touch(i)
TestEvent(i) ==      \* and WaitEvent, when it need not wait
  /\ ev[i].status = "already" /\ SetStatus(i, "active") /\ UNCHANGED seen
EventCall ==
  \/ \E k \in Kinds : OpenEvent(k)
  \/ \E i \in Slots : EnableEvent(i) \/ DisableEvent(i) \/ CloseEvent(i) \/ TestEvent(i)

-----------------------------------------------------------------------------
(* Exceptions                                                              *)

(* psxBios_ReturnFromException: the registers of thread t come back, and   *)
(* psxBranchTest takes an interrupt that waits (k0 is the way to tell)     *)
InK0(tc) == IF tc.at = "sub" THEN "sub" ELSE "none"
Resume(tc, pending) ==
  /\ live' = tc /\ k0' = InK0(tc) /\ step' = "none" /\ pos' = 1
  /\ IF pending /\ flags.mask /\ tc.c /\ tc.m
     THEN pc' = "vec" /\ cause' = "irq"
     ELSE pc' = "prog" /\ UNCHANGED cause

(* An interrupt is taken by psxBranchTest, between blocks                  *)
TakeIrq ==
  /\ pc = "prog" /\ irq /\ flags.mask /\ live.c /\ live.m
  /\ pc' = "vec" /\ cause' = "irq"
  /\ UNCHANGED <<live, k0, threads, host, irqs, ev, cards, truth, seen, calls>>

(* The vector and the start of psxBiosException: the registers are saved   *)
(* for the current thread, and $k0 holds an address of the kernel          *)
Vector ==
  /\ pc = "vec"
  /\ tcb' = [tcb EXCEPT ![cur] = live]
  /\ k0' = "none" /\ pc' = "exc" /\ step' = "syscall"
  /\ UNCHANGED <<live, cause, cur, opened, pos, del, irqs, ev, cards, truth, seen, calls>>

(* hleExc0_2_2_syscall                                                     *)
ExcSyscall ==
  /\ pc = "exc" /\ step = "syscall"
  /\ IF cause = "irq"
     THEN step' = "vblank" /\ UNCHANGED <<cpu, cur, tcb, pos>>
     ELSE LET t == tcb[cur]
              on == IF t.at = "exit" THEN TRUE ELSE t.at # "enter" /\ t.c
              im == IF t.at = "exit" THEN TRUE ELSE t.at # "enter" /\ t.m
          IN  /\ tcb' = [tcb EXCEPT ![cur] = [t EXCEPT !.at = "main", !.to = 0, !.c = on, !.m = im]]
              /\ cur' = IF t.at = "switch" THEN t.to ELSE cur
              /\ Resume(tcb'[cur'], irq)
  /\ UNCHANGED <<opened, del, irqs, ev, cards, truth, seen, calls>>

(* hleExc1_0_2: the events of the vertical blank                           *)
ExcVblank ==
  /\ pc = "exc" /\ step = "vblank"
  /\ IF irq /\ flags.mask
     THEN Deliver("vbl", 1, live)
     ELSE step' = "chain" /\ UNCHANGED <<ev, pc, live, del>>
  /\ UNCHANGED <<k0, cause, threads, pos, irqs, cards, truth, seen, calls>>

(* hleExc1_0_1: the interrupt is acknowledged here, and nothing else is    *)
(* done for it, unless ChangeClearRCnt or pads have left it to others      *)
ExcAck ==
  /\ pc = "exc" /\ step = "vback"
  /\ IF flags.ackVbl
     THEN irq' = FALSE /\ Resume(tcb[cur], FALSE)
     ELSE step' = "chain" /\ UNCHANGED <<cpu, irq, pos>>
  /\ UNCHANGED <<threads, del, chain, flags, ev, cards, truth, seen, calls>>

(* hleExcPadCard2 and 1: pads are polled, the interrupt is acknowledged if *)
(* it is left to them, and the cards go on                                 *)
CardPort == IF card.stat[card.achan] = "idle" THEN 1 - card.achan ELSE card.achan
FinishedStatus(p, c) == [c EXCEPT !.stat[p] = "idle"]
Finished(p, c) == [c EXCEPT !.hlvl[p] = "none", !.stat[p] = "idle"]

CardClass(spec) == IF spec = "new" THEN "card2000" ELSE "card4"
HwClass(spec) == IF spec = "new" THEN "hw2000" ELSE "hw4"

CardVint ==      \* card_vint_handler
  IF card.delay > 0
  THEN card' = [card EXCEPT !.delay = @ - 1] /\ UNCHANGED <<ev, asked, answer>>
  ELSE LET e == Undelivered(ev, {"hw4", "hw2000"})
           p == CardPort
           now == [card EXCEPT !.achan = p]
           info == card.handler = "info"
           over == info \/ card.left <= 1
           spec == IF info /\ card.fresh[p] THEN "new" ELSE "done"
           told == over /\ (info \/ card.hlvl[p] # "none")
           e1 == IF told THEN Marked(e, CardClass(spec), 1) ELSE e
       IN  IF card.stat[p] = "idle"
           THEN ev' = e /\ UNCHANGED <<card, asked, answer>>
           ELSE /\ card' = IF info THEN Finished(p, now)
                           ELSE IF over THEN Finished(p, [now EXCEPT !.left = 0])
                           ELSE [now EXCEPT !.left = @ - 1]
                /\ ev' = Marked(e1, HwClass(spec), 1)
                /\ IF over
                   THEN /\ answer' = [file |-> told, spec |-> spec]
                        /\ asked' = [asked EXCEPT ![p] = "none"]
                   ELSE UNCHANGED <<answer, asked>>

ExcPad ==
  /\ pc = "exc" /\ step = "chain" /\ pos <= Len(chain) /\ chain[pos] = "pad"
  /\ pos' = pos + 1
  /\ IF irq /\ flags.mask
     THEN /\ seen' = [seen EXCEPT !.polls = IF flags.pads /\ @ < 2 THEN @ + 1 ELSE @]
          /\ irq' = (irq /\ ~flags.ackPad)
          /\ IF flags.cards THEN CardVint ELSE UNCHANGED <<ev, cards>>
     ELSE UNCHANGED <<seen, irq, ev, cards>>
  /\ UNCHANGED <<cpu, threads, step, del, chain, flags, truth, calls>>

(* An entry of the program                                                 *)
ExcOwn ==
  /\ pc = "exc" /\ step = "chain" /\ pos <= Len(chain) /\ chain[pos] = "own"
  /\ pos' = pos + 1
  /\ seen' = [seen EXCEPT !.owns = IF @ < 2 THEN @ + 1 ELSE @]
  /\ UNCHANGED <<cpu, threads, step, del, irqs, ev, cards, truth, calls>>

(* The end of psxBiosException: to the exit of the program, or back        *)
ExcExit ==
  /\ pc = "exc" /\ step = "chain" /\ pos > Len(chain)
  /\ IF flags.hook
     THEN pc' = "hook" /\ step' = "none" /\ pos' = 1 /\ UNCHANGED <<live, k0, cause>>
     ELSE Resume(tcb[cur], irq)
  /\ UNCHANGED <<threads, del, irqs, ev, cards, truth, seen, calls>>

(* The exit that the program has hooked (external): it acknowledges what   *)
(* nobody else does, and calls ReturnFromException                         *)
HookExit ==
  /\ pc = "hook"
  /\ irq' = (irq /\ flags.ackPad /\ "pad" \in ToSet(chain))
  /\ Resume(tcb[cur], irq')
  /\ UNCHANGED <<threads, del, chain, flags, ev, cards, truth, seen, calls>>

-----------------------------------------------------------------------------
(* Handlers of events, in softCall                                         *)
Told ==
  seen' = IF step = "none" THEN seen
          ELSE [seen EXCEPT !.told[del.next - 1] = IF @ < 2 THEN @ + 1 ELSE @]

(* It may call the functions of events, and a subroutine                   *)
HandlerCall ==
  /\ pc = "handler" /\ calls < MaxCalls /\ calls' = calls + 1
  /\ EventCall
  /\ UNCHANGED <<cpu, threads, host, irqs, cards, truth>>
HandlerSub ==
  /\ pc = "handler" /\ Shared /\ pc' = "sub"
  /\ UNCHANGED <<live, k0, cause, threads, host, irqs, ev, cards, truth, seen, calls>>

(* It returns, and DeliverEvent goes on                                    *)
HandlerReturn ==
  /\ \/ pc = "handler"
     \/ pc = "sub" /\ k0 # "sub"
  /\ Deliver(del.class, del.next, Restored(live, del.m))
  /\ Told
  /\ UNCHANGED <<k0, cause, threads, pos, irqs, cards, truth, calls>>

(* It leaves the exception: softCall ends, but DeliverEvent goes on and so *)
(* does psxBiosException                                                   *)
HandlerLeave ==
  /\ pc = "handler" /\ step # "none"
  /\ Deliver(del.class, del.next, Restored(live, del.m))
  /\ k0' = InK0(tcb[cur])
  /\ Told
  /\ UNCHANGED <<cause, threads, pos, irqs, cards, truth, calls>>

(* returned_from_exception: its subroutine is where an interrupt was taken *)
(* some time, which ends softCall although the handler has not returned    *)
HandlerCut ==
  /\ pc = "sub" /\ k0 = "sub"
  /\ Deliver(del.class, del.next,
             [Restored(live, del.m) EXCEPT !.own = IF step = "none" THEN Lost ELSE @])
  /\ cut' = TRUE
  /\ UNCHANGED <<k0, cause, threads, pos, irqs, cards, ctx, who, seen, calls>>

-----------------------------------------------------------------------------
(* The program                                                             *)
Program == pc = "prog" /\ live.at = "main"
Become(r) == live' = r /\ ctx' = [ctx EXCEPT ![cur] = r]
Call == Program /\ calls < MaxCalls /\ calls' = calls + 1

(* It goes to an instruction that is a syscall, or calls and leaves the    *)
(* subroutine                                                              *)
Goto ==
  /\ Program
  /\ \E a \in {"enter", "exit"} \cup (IF Shared THEN {"sub"} ELSE {}) : Become([live EXCEPT !.at = a])
  /\ UNCHANGED <<pc, k0, cause, threads, host, irqs, ev, cards, who, cut, seen, calls>>
Leave ==
  /\ pc = "prog" /\ live.at = "sub"
  /\ Become([live EXCEPT !.at = "main"])
  /\ UNCHANGED <<pc, k0, cause, threads, host, irqs, ev, cards, who, cut, seen, calls>>

(* The syscall itself (psxException).  What the program expects of it is   *)
(* in ctx and who.                                                         *)
Expected(l, r) ==
  LET on(b) == IF l.at = "switch" THEN b ELSE l.at = "exit"
  IN  [r EXCEPT !.at = "main", !.to = 0, !.c = on(@), !.m = on(@)]
Trap ==
  /\ pc = "prog" /\ live.at \in {"enter", "exit", "switch"}
  /\ pc' = "vec" /\ cause' = "sys"
  /\ ctx' = [ctx EXCEPT ![cur] = Expected(live, @)]
  /\ who' = IF live.at = "switch" THEN live.to ELSE who
  /\ UNCHANGED <<live, k0, threads, host, irqs, ev, cards, cut, seen, calls>>

(* psxBios_OpenTh, psxBios_CloseTh, psxBios_ChangeTh                       *)
OpenTh ==
  /\ "threads" \in Calls /\ Call
  /\ LET free == Threads \ (opened \cup {0}) IN
       /\ free # {}
       /\ LET t == Min(free)
              r == [tcb[t] EXCEPT !.at = "main", !.own = t]
          IN  /\ opened' = opened \cup {t}
              /\ tcb' = [tcb EXCEPT ![t] = r] /\ ctx' = [ctx EXCEPT ![t] = r]
  /\ UNCHANGED <<cpu, cur, host, irqs, ev, cards, who, cut, seen>>
CloseTh ==
  /\ "threads" \in Calls /\ Call
  /\ \E t \in opened \ {cur, 0} : opened' = opened \ {t}
  /\ UNCHANGED <<cpu, cur, tcb, host, irqs, ev, cards, truth, seen>>
ChangeTh ==
  /\ "threads" \in Calls /\ Call
  /\ \E t \in opened : Become([live EXCEPT !.at = "switch", !.to = t])
  /\ UNCHANGED <<pc, k0, cause, threads, host, irqs, ev, cards, who, cut, seen>>

(* The functions of events, and DeliverEvent                               *)
CallEvent ==
  /\ Call /\ EventCall
  /\ UNCHANGED <<cpu, threads, host, irqs, cards, truth>>
DeliverEvent ==
  /\ "deliver" \in Calls /\ Call
  /\ Deliver("own", 1, live)
  /\ UNCHANGED <<k0, cause, threads, pos, irqs, cards, truth, seen>>

(* Who acknowledges the vertical blank; the program sees to it that there  *)
(* is somebody                                                             *)
Acknowledged(f, ch) == f.ackVbl \/ f.hook \/ (f.ackPad /\ "pad" \in ToSet(ch))
Place(e) == Min({i \in DOMAIN chain : chain[i] = e})
Without(e) == IF e \in ToSet(chain) THEN RemoveAt(chain, Place(e)) ELSE chain
SetIrqs(f, ch) ==
  /\ flags' = f /\ chain' = ch /\ Acknowledged(f, ch)
  /\ UNCHANGED <<k0, cause, pc, threads, host, ev, who, cut>>
Forget == seen' = [seen EXCEPT !.pads = FALSE, !.own = FALSE]
Unmasked == Become([live EXCEPT !.c = TRUE, !.m = TRUE])    \* SR |= 0x401

(* psxBios_InitPAD, psxBios_StartPAD, psxBios_StopPAD: write_chain ends    *)
(* the chain with the entry of the pads                                    *)
UpTo(e) == IF e \in ToSet(chain) THEN SubSeq(chain, 1, Place(e)) ELSE chain
NothingBehind == UpTo("pad") = chain
InitPAD ==
  /\ "pads" \in Calls /\ Call /\ NothingBehind
  /\ SetIrqs([flags EXCEPT !.pads = TRUE], UpTo("pad"))
  /\ Forget /\ UNCHANGED <<irq, live, ctx, cards>>
StartPAD ==
  /\ "pads" \in Calls /\ Call
  /\ SetIrqs([flags EXCEPT !.mask = TRUE, !.ackPad = TRUE, !.ackVbl = FALSE],
             <<"pad">> \o Without("pad"))
  /\ irq' = FALSE /\ seen' = Unseen /\ Unmasked /\ UNCHANGED cards
StopPAD ==
  /\ "pads" \in Calls /\ Call
  /\ SetIrqs([flags EXCEPT !.ackVbl = TRUE], Without("pad"))
  /\ Forget /\ Unmasked /\ UNCHANGED <<irq, cards>>

(* psxBios_InitCARD, psxBios_StartCARD, psxBios_StopCARD; the program does *)
(* not initialise cards that are busy                                      *)
InitCARD ==
  /\ "cards" \in Calls /\ Call /\ NothingBehind /\ \A p \in Ports : card.stat[p] = "idle"
  /\ \E b \in BOOLEAN : SetIrqs([flags EXCEPT !.pads = b], UpTo("pad"))
  /\ card' = [card EXCEPT !.stat = [p \in {0, 1} |-> "idle"]]
  /\ asked' = [p \in {0, 1} |-> "none"]
  /\ Forget /\ UNCHANGED <<irq, live, ctx, answer>>
StartCARD ==
  /\ "cards" \in Calls /\ Call
  /\ SetIrqs([flags EXCEPT !.mask = TRUE, !.ackPad = TRUE, !.ackVbl = FALSE, !.cards = TRUE],
             <<"pad">> \o Without("pad"))
  /\ Forget /\ Unmasked /\ UNCHANGED <<irq, cards>>
StopCARD ==
  /\ "cards" \in Calls /\ Call
  /\ SetIrqs([flags EXCEPT !.ackVbl = TRUE, !.cards = FALSE], Without("pad"))
  /\ Forget /\ Unmasked /\ UNCHANGED <<irq, cards>>

(* psxBios_ChangeClearPad, psxBios_ChangeClearRCnt, psxBios_HookEntryInt,  *)
(* psxBios_ResetEntryInt, psxBios_StartRCnt and psxBios_StopRCnt of the    *)
(* vertical blank, psxBios_SysEnqIntRP and psxBios_SysDeqIntRP             *)
ChangeIrqs ==
  /\ "irqs" \in Calls /\ Call
  /\ \/ \E b \in BOOLEAN :
          \E f \in {[flags EXCEPT !.ackPad = b], [flags EXCEPT !.ackVbl = b],
                    [flags EXCEPT !.hook = b], [flags EXCEPT !.mask = b]} : SetIrqs(f, chain)
     \/ "own" \notin ToSet(chain) /\ SetIrqs(flags, <<"own">> \o chain)
     \/ SetIrqs(flags, Without("own"))
  /\ Forget /\ UNCHANGED <<irq, live, ctx, cards>>

(* The calls for cards: files that are read or written asynchronously      *)
(* (card_buf_io), psxBios__card_info, psxBios__card_load_dir,              *)
(* psxBios__card_read_sector, psxBios__card_write_sector.  The last three  *)
(* do not look whether the port is busy; the program does.                 *)
Asked(p, what) ==
  /\ asked' = [asked EXCEPT ![p] = what]
  /\ UNCHANGED <<cpu, threads, host, irqs, answer, truth, seen>>
Idle(p) == card.stat[p] = "idle"
CardFile(p, w, n) ==
  /\ Idle(p)
  /\ ev' = Undelivered(ev, {"card4", "card2000"})
  /\ card' = [card EXCEPT !.achan = p, !.hlvl[p] = w, !.stat[p] = w, !.left = n, !.handler = w,
                          !.delay = 2, !.fresh[p] = @ /\ w # "write"]
  /\ Asked(p, "file")
CardInfo(p) ==
  /\ Idle(p)
  /\ card' = [card EXCEPT !.achan = p, !.hlvl[p] = "info", !.stat[p] = "info", !.handler = "info"]
  /\ Asked(p, "info") /\ UNCHANGED ev
CardLoadDir(p) ==
  /\ Idle(p)
  /\ card' = [card EXCEPT !.achan = p, !.hlvl[p] = "load_dir", !.stat[p] = "read", !.left = 3,
                          !.handler = "read"]
  /\ Asked(p, "file") /\ UNCHANGED ev
CardSector(p, w) ==
  /\ Idle(p)
  /\ card' = [card EXCEPT !.achan = p, !.stat[p] = w, !.left = 1, !.handler = w,
                          !.fresh[p] = @ /\ w # "write"]
  /\ Asked(p, "sector") /\ UNCHANGED ev
CallCard ==
  /\ "cards" \in Calls /\ Call
  /\ \E p \in Ports :
       \/ \E w \in {"read", "write"} : (\E n \in Sectors : CardFile(p, w, n)) \/ CardSector(p, w)
       \/ CardInfo(p) \/ CardLoadDir(p)

-----------------------------------------------------------------------------
(* The hardware: a vertical blank, and what is to become of it             *)
Vblank ==
  /\ ~irq /\ irq' = TRUE
  /\ pc \in {"prog", "handler", "sub", "hook"}
  /\ LET left == ~flags.ackVbl IN
       seen' = [pads |-> left /\ flags.pads /\ "pad" \in ToSet(chain), polls |-> 0,
                own |-> left /\ "own" \in ToSet(chain), owns |-> 0,
                evs |-> {i \in Slots : ev[i].status = "active" /\ ev[i].class = "vbl" /\ ev[i].mode = "call"},
                told |-> [i \in Slots |-> 0]]
  /\ UNCHANGED <<cpu, threads, host, chain, flags, ev, cards, truth, calls>>

Exception ==
  \/ TakeIrq \/ Vector \/ ExcSyscall \/ ExcVblank \/ ExcAck \/ ExcPad \/ ExcOwn \/ ExcExit \/ HookExit
Handler == HandlerCall \/ HandlerSub \/ HandlerReturn \/ HandlerLeave \/ HandlerCut
Main ==
  \/ Goto \/ Leave \/ Trap \/ OpenTh \/ CloseTh \/ ChangeTh \/ CallEvent \/ DeliverEvent
  \/ InitPAD \/ StartPAD \/ StopPAD \/ InitCARD \/ StartCARD \/ StopCARD \/ ChangeIrqs \/ CallCard
Next == Exception \/ Handler \/ Main \/ Vblank
Spec == Init /\ [][Next]_vars

-----------------------------------------------------------------------------
Contexts == [at : {"main", "sub", "enter", "exit", "switch"}, to : Threads, own : Threads \cup {Lost},
             c : BOOLEAN, m : BOOLEAN]
TypeOK ==
  /\ pc \in {"prog", "vec", "exc", "handler", "sub", "hook"} /\ live \in Contexts
  /\ step \in {"none", "syscall", "vblank", "vback", "chain"} /\ pos \in 1 .. Len(chain) + 1
  /\ tcb \in [Threads -> Contexts] /\ cur \in opened /\ opened \subseteq Threads

(* A thread goes on where it was and with what it had, and it is the one   *)
(* that the program has changed to, through interrupts in every place, the *)
(* handlers they run, and handlers that the program runs itself            *)
ThreadTruth ==
  pc = "prog" /\ ~cut =>
    /\ cur = who /\ live = ctx[cur]
    /\ \A t \in opened \ {cur} : tcb[t] = ctx[t]

(* A vertical blank is seen once: before its interrupt is over, the pads   *)
(* are polled and the entry of the program and its handlers are run, and   *)
(* none of them twice, whoever acknowledges it                             *)
VblankOnce ==
  ~cut =>
    /\ seen.polls < 2 /\ seen.owns < 2 /\ \A i \in Slots : seen.told[i] < 2
    /\ ~irq /\ step = "none" =>
         /\ seen.pads => seen.polls = 1
         /\ seen.own => seen.owns = 1
         /\ \A i \in seen.evs : seen.told[i] = 1

(* A handler that is begun returns or leaves the exception                 *)
NeverCut == ~cut

(* What a card was asked to do is reported as that, when it is over: for a *)
(* question, whether the card is new; for a file, that it is done          *)
CardTold ==
  [][\A p \in Ports :
       step = "chain" /\ card.stat[p] # "idle" /\ card'.stat[p] = "idle" =>
         /\ asked[p] # "none" /\ answer'.file = (asked[p] # "sector")
         /\ answer'.spec = IF asked[p] = "info" /\ card.fresh[p] THEN "new" ELSE "done"]_vars
=============================================================================
