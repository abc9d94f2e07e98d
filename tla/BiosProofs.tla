----------------------------- MODULE BiosProofs -----------------------------
(* Proofs about Bios: a thread resumes as it was left, whatever exceptions *)
(* and handlers come between, a vertical blank is seen once by everybody   *)
(* it concerns, and what a card was asked is reported as that.             *)
EXTENDS Bios, FiniteSetTheorems, SequenceTheorems, WellFoundedInduction, TLAPS

-----------------------------------------------------------------------------
(* Types                                                                   *)

Statuses == {"unused", "disabled", "active", "already"}
Entries == [class : Classes, mode : {"call", "mark"}, status : Statuses]

(* no entry is twice in the chain                                          *)
Chains == {s \in Seq({"pad", "own"}) : \A i, j \in 1 .. Len(s) : s[i] = s[j] => i = j}

FlagsType == [pads : BOOLEAN, cards : BOOLEAN, ackPad : BOOLEAN, ackVbl : BOOLEAN,
              hook : BOOLEAN, mask : BOOLEAN]
SeenType == [pads : BOOLEAN, polls : 0 .. 2, own : BOOLEAN, owns : 0 .. 2,
             evs : SUBSET Slots, told : [Slots -> 0 .. 2]]

TypeInv ==
  /\ pc \in {"prog", "vec", "exc", "handler", "sub", "hook"} /\ live \in Contexts
  /\ cause \in {"irq", "sys"} /\ irq \in BOOLEAN /\ cut \in BOOLEAN
  /\ opened \in SUBSET Threads /\ cur \in opened
  /\ tcb \in [Threads -> Contexts] /\ ctx \in [Threads -> Contexts]
  /\ step \in {"none", "syscall", "vblank", "vback", "chain"} /\ pos \in 1 .. Len(chain) + 1
  /\ del \in [class : Classes, next : Nat, m : BOOLEAN]
  /\ ev \in [Slots -> Entries] /\ chain \in Chains
  /\ flags \in FlagsType /\ seen \in SeenType

(* The function on the host, and what the processor does                   *)
PhaseInv ==
  /\ pc \in {"prog", "vec", "hook"} => step = "none"
  /\ pc = "exc" => step # "none"
  /\ pc \in {"handler", "sub"} => step \in {"none", "vblank"}
  /\ step # "chain" => pos = 1

-----------------------------------------------------------------------------
(* Threads: where the registers of the current thread are, and what they   *)
(* are to be                                                               *)

(* A thread changes to one that is open                                    *)
Goes(r) == r.at = "switch" => r.to \in opened
ChangeInv ==
  /\ step = "none" /\ pc # "hook" => Goes(live)
  /\ step # "none" \/ pc = "hook" => Goes(tcb[cur])
  /\ \A t \in opened \ {cur} : tcb[t].at # "switch"

(* the registers at a syscall that the handler is to make those expected   *)
Trapped(r) ==
  /\ r.at \in {"enter", "exit", "switch"} /\ ctx[cur] = Expected(r, r)
  /\ who = IF r.at = "switch" THEN r.to ELSE cur
Same(r) == cur = who /\ r = ctx[cur]

InProgram == pc = "prog" \/ (pc = "vec" /\ cause = "irq")
InSyscall == step = "syscall" /\ cause = "sys"
InInterrupt == (step = "syscall" /\ cause = "irq") \/ step \in {"vblank", "vback", "chain"} \/ pc = "hook"
InOwnHandler == pc \in {"handler", "sub"} /\ step = "none"

ThreadInv ==
  ~cut =>
    /\ InProgram => Same(live)
    /\ pc = "vec" /\ cause = "sys" => Trapped(live)
    /\ InSyscall => Trapped(tcb[cur])
    /\ InInterrupt => Same(tcb[cur])
    /\ InOwnHandler => Same(Restored(live, del.m)) /\ ~live.m
    /\ \A t \in opened \ {cur} : tcb[t] = ctx[t]

-----------------------------------------------------------------------------
(* The vertical blank                                                      *)

(* it is the reason for an interrupt, until it is acknowledged, and there  *)
(* is somebody who acknowledges it                                         *)
IrqInv ==
  /\ Acknowledged(flags, chain)
  /\ cause = "irq" /\ (pc = "vec" \/ step = "syscall") => irq /\ flags.mask
  /\ step \in {"vblank", "vback"} => irq /\ flags.mask
  /\ step = "chain" => flags.mask /\ ~flags.ackVbl

OfVblank(e) == e.status = "active" /\ e.class = "vbl" /\ e.mode = "call"
Passed(e) == \E j \in 1 .. pos - 1 : chain[j] = e

NotPolled == seen.polls = 0 /\ seen.owns = 0
Untold == \A i \in Slots : seen.told[i] = 0 /\ (i \in seen.evs => OfVblank(ev[i]))
ToldUpTo(n) ==
  \A i \in Slots :
    /\ i < n => seen.told[i] < 2 /\ (i \in seen.evs => seen.told[i] = 1)
    /\ i >= n => seen.told[i] = 0 /\ (i \in seen.evs => OfVblank(ev[i]))
AllTold == \A i \in Slots : seen.told[i] < 2 /\ (i \in seen.evs => seen.told[i] = 1)
Owed ==
  /\ seen.pads => ~flags.ackVbl /\ flags.pads /\ "pad" \in ToSet(chain)
  /\ seen.own => ~flags.ackVbl /\ "own" \in ToSet(chain)
Over == AllTold /\ seen.polls < 2 /\ seen.owns < 2 /\ (seen.pads => seen.polls = 1) /\ (seen.own => seen.owns = 1)

(* nobody has seen it yet; or everybody has                                *)
Waits == irq /\ \/ step = "none" /\ pc # "hook"
                \/ step = "syscall"
                \/ step = "vblank" /\ pc = "exc"
                \/ pc = "hook" /\ flags.ackPad /\ "pad" \in ToSet(chain)
Rests == (step \in {"none", "syscall"} /\ ~irq) \/ (pc = "hook" /\ ~Waits)

SeenInv ==
  ~cut =>
    /\ Waits => NotPolled /\ Untold /\ Owed
    /\ Rests => Over
    /\ pc \in {"handler", "sub"} /\ step = "vblank" =>
         /\ del.class = "vbl" /\ del.next - 1 \in Slots
         /\ NotPolled /\ Owed /\ ToldUpTo(del.next - 1)
    /\ step = "vback" => NotPolled /\ Owed /\ AllTold
    /\ pc = "hook" /\ ~irq => flags.ackPad /\ "pad" \in ToSet(chain)
    /\ step = "chain" =>
         /\ Owed /\ AllTold
         /\ seen.polls = IF flags.pads /\ Passed("pad") THEN 1 ELSE 0
         /\ seen.owns = IF Passed("own") THEN 1 ELSE 0
         /\ irq = ~(flags.ackPad /\ Passed("pad"))

-----------------------------------------------------------------------------
(* The cards                                                               *)

CardType ==
  [achan : {0, 1}, handler : {"none", "info", "read", "write"}, left : Int, delay : Int,
   stat : [{0, 1} -> {"idle", "info", "read", "write"}],
   hlvl : [{0, 1} -> {"none", "info", "read", "write", "load_dir"}], fresh : [{0, 1} -> BOOLEAN]]

(* The words from which the end of an operation is told are those of the   *)
(* operation that port p was asked for                                     *)
CardInv ==
  /\ card \in CardType /\ asked \in [{0, 1} -> {"none", "file", "info", "sector"}]
  /\ \A p \in {0, 1} \ Ports : card.stat[p] = "idle"
  /\ \A p \in Ports :
       /\ card.stat[p] = "idle" => card.hlvl[p] = "none"
       /\ card.stat[p] # "idle" =>
            /\ asked[p] # "none"
            /\ card.handler = "info" <=> asked[p] = "info"
            /\ card.hlvl[p] = "none" <=> asked[p] = "sector"

-----------------------------------------------------------------------------
(* Facts about the operators                                               *)

(* What is assumed of the constants, in the form the provers need.         *)
LEMMA Constants ==
  /\ 0 \in Threads /\ Threads \subseteq Nat
  /\ Cardinality(Slots) \in Nat /\ Slots = 1 .. Cardinality(Slots)
  /\ Kinds \subseteq [class : Classes, mode : {"call", "mark"}]
  /\ Setups \subseteq [Slots -> {Unused} \cup {Enabled(k) : k \in Kinds}]
  /\ Ports \subseteq {0, 1}
BY BiosAssumption, FS_CardinalityType, SMT

(* The registers with the interrupt mask given back.                       *)
LEMMA RestoredIs ==
  ASSUME NEW r \in Contexts, NEW m \in BOOLEAN
  PROVE  /\ Restored(r, m) \in Contexts
         /\ Restored(r, m).at = r.at /\ Restored(r, m).to = r.to /\ Restored(r, m).own = r.own
         /\ Restored(r, m).c = r.c /\ Restored(r, m).m = (r.m \/ m)
BY DEF Restored, Contexts

(* The registers with both interrupt bits given, or at another instruction. *)
LEMMA SetMaskIs ==
  ASSUME NEW r \in Contexts, NEW c \in BOOLEAN, NEW m \in BOOLEAN
  PROVE  /\ [r EXCEPT !.c = c, !.m = m] \in Contexts
         /\ [r EXCEPT !.c = c, !.m = m].at = r.at /\ [r EXCEPT !.c = c, !.m = m].to = r.to
BY DEF Contexts

(* The registers at another instruction.                                   *)
LEMMA SetPlaceIs ==
  ASSUME NEW r \in Contexts, NEW a \in {"main", "sub", "enter", "exit", "switch"}
  PROVE  [r EXCEPT !.at = a] \in Contexts /\ [r EXCEPT !.at = a].at = a
BY DEF Contexts

(* The registers of a thread that changes to thread t.                     *)
LEMMA SetGoalIs ==
  ASSUME NEW r \in Contexts, NEW t \in Threads
  PROVE  /\ [r EXCEPT !.at = "switch", !.to = t] \in Contexts
         /\ [r EXCEPT !.at = "switch", !.to = t].at = "switch" /\ [r EXCEPT !.at = "switch", !.to = t].to = t
BY DEF Contexts

(* The registers with the interrupt mask taken away.                       *)
LEMMA MaskedIs ==
  ASSUME NEW r \in Contexts
  PROVE  /\ [r EXCEPT !.m = FALSE] \in Contexts
         /\ [r EXCEPT !.m = FALSE].at = r.at /\ [r EXCEPT !.m = FALSE].to = r.to
         /\ ~ [r EXCEPT !.m = FALSE].m
         /\ Restored([r EXCEPT !.m = FALSE], r.m) = r
BY DEF Restored, Contexts

(* A set of slots has a least one.                                         *)
LEMMA LeastSlot ==
  ASSUME NEW S, S \subseteq Nat, S # {}
  PROVE  Min(S) \in S /\ \A x \in S : Min(S) <= x
<1>1. \E m \in S : \A x \in S : m <= x
  <2> DEFINE R == OpToRel(<, Nat)
  <2>1. PICK m \in S : \A x \in S : ~ (<<x, m>> \in R)
    <3>1. IsWellFoundedOn(R, Nat)
      BY NatLessThanWellFounded
    <3> HIDE DEF R
    <3>2. QED  BY <3>1, WFMin
  <2>2. R = {p \in Nat \X Nat : p[1] < p[2]}
    BY DEF OpToRel
  <2> HIDE DEF R
  <2>3. \A x \in S : ~ (x < m)
    BY <2>1, <2>2
  <2>4. \A x \in S : m <= x
    BY <2>3
  <2>5. QED  BY <2>4
<1>2. QED  BY <1>1, Zenon DEF Min

(* Where DeliverEvent stops: at the first event of the class, from slot i  *)
(* on, that has a handler.                                                 *)
Calling(e, class, i) == {j \in Matches(e, class, i) : e[j].mode = "call"}
LEMMA CallAtIs ==
  ASSUME NEW e, NEW class, NEW i
  PROVE  /\ CallAt(e, class, i) = 0 =>
              \A j \in Slots : j >= i => ~ (e[j].status = "active" /\ e[j].class = class /\ e[j].mode = "call")
         /\ CallAt(e, class, i) # 0 =>
              /\ CallAt(e, class, i) \in Calling(e, class, i)
              /\ \A j \in Calling(e, class, i) : CallAt(e, class, i) <= j
<1> DEFINE S == Calling(e, class, i)
<1>1. S \subseteq Slots /\ Slots \subseteq Nat \ {0}
  BY Constants DEF Calling, Matches
<1>2. CallAt(e, class, i) = IF S = {} THEN 0 ELSE Min(S)
  BY Zenon DEF CallAt, Calling
<1>3. CASE S = {}
  <2>1. CallAt(e, class, i) = 0
    BY <1>2, <1>3
  <2>2. \A j \in Slots : j >= i => ~ (e[j].status = "active" /\ e[j].class = class /\ e[j].mode = "call")
    BY <1>3, Zenon DEF Calling, Matches
  <2>3. QED  BY <2>1, <2>2
<1>4. CASE S # {}
  <2>1. Min(S) \in S /\ \A j \in S : Min(S) <= j
    <3> HIDE DEF S
    <3>1. S \subseteq Nat
      BY <1>1
    <3>2. QED  BY <3>1, <1>4, LeastSlot
  <2>2. CallAt(e, class, i) = Min(S) /\ Min(S) # 0
    <3> HIDE DEF S
    <3>1. QED  BY <1>1, <1>2, <1>4, <2>1
  <2> HIDE DEF S
  <2>3. CallAt(e, class, i) \in S /\ \A j \in S : CallAt(e, class, i) <= j
    BY <2>1, <2>2
  <2>4. QED  BY <2>2, <2>3 DEF S
<1>5. QED  BY <1>3, <1>4

(* What an event may turn into that no call of the program changes: an     *)
(* event with a handler stays as it is.                                    *)
Kept(e, f) == f \in [Slots -> Entries] /\ \A i \in Slots : e[i].mode = "call" => f[i] = e[i]

(* Marking events leaves those with a handler alone.                       *)
LEMMA MarkedKeeps ==
  ASSUME NEW e \in [Slots -> Entries], NEW class, NEW i
  PROVE  Kept(e, Marked(e, class, i))
BY DEF Kept, Marked, Entries, Statuses

(* Taking marks back leaves the events with a handler alone.               *)
LEMMA UndeliveredKeeps ==
  ASSUME NEW e \in [Slots -> Entries], NEW classes
  PROVE  Kept(e, Undelivered(e, classes))
BY DEF Kept, Undelivered, Entries, Statuses

(* Nothing that happens to the events twice is worse than once.            *)
LEMMA KeptTwice ==
  ASSUME NEW e, NEW f, NEW g, Kept(e, f), Kept(f, g)
  PROVE  Kept(e, g)
BY DEF Kept

(* DeliverEvent, as far as the next handler or to its end.                 *)
Stops(class, i, sr) ==
  \E n \in Slots :
    /\ n >= i /\ ev[n].status = "active" /\ ev[n].class = class /\ ev[n].mode = "call"
    /\ \A j \in Slots : j >= i /\ j < n => ~ (ev[j].status = "active" /\ ev[j].class = class /\ ev[j].mode = "call")
    /\ pc' = "handler" /\ step' = step /\ live' = [sr EXCEPT !.m = FALSE]
    /\ del' = [class |-> class, next |-> n + 1, m |-> sr.m]
Ends(class, i, sr) ==
  /\ \A j \in Slots : j >= i => ~ (ev[j].status = "active" /\ ev[j].class = class /\ ev[j].mode = "call")
  /\ pc' = IF step = "none" THEN "prog" ELSE "exc"
  /\ step' = IF step = "none" THEN "none" ELSE "vback"
  /\ live' = sr /\ del' = NoDelivery

(* DeliverEvent stops at the first event with a handler, or ends behind    *)
(* the last.                                                               *)
LEMMA DeliverIs ==
  ASSUME NEW class \in Classes, NEW i \in Nat, NEW sr \in Contexts,
         ev \in [Slots -> Entries], Deliver(class, i, sr)
  PROVE  /\ Kept(ev, ev') /\ live' \in Contexts /\ del' \in [class : Classes, next : Nat, m : BOOLEAN]
         /\ Stops(class, i, sr) \/ Ends(class, i, sr)
<1> DEFINE at == CallAt(ev, class, i)
<1>1. Kept(ev, ev')
  BY MarkedKeeps DEF Deliver
<1>2. CASE at # 0
  <2>1. /\ pc' = "handler" /\ step' = step /\ live' = [sr EXCEPT !.m = FALSE]
        /\ del' = [class |-> class, next |-> at + 1, m |-> sr.m]
    BY <1>2, ZenonT(40) DEF Deliver
  <2>2. at \in Calling(ev, class, i) /\ \A j \in Calling(ev, class, i) : at <= j
    BY <1>2, CallAtIs, Zenon
  <2> HIDE DEF at
  <2>3. at \in Slots /\ at >= i /\ ev[at].status = "active" /\ ev[at].class = class /\ ev[at].mode = "call"
    BY <2>2, Zenon DEF Calling, Matches
  <2>4. at \in Nat /\ Slots \subseteq Nat
    BY <2>3, Constants
  <2>5. \A j \in Slots : j >= i /\ j < at => ~ (ev[j].status = "active" /\ ev[j].class = class /\ ev[j].mode = "call")
    <3> SUFFICES ASSUME NEW j \in Slots, j >= i, j < at,
                        ev[j].status = "active" /\ ev[j].class = class /\ ev[j].mode = "call"
                 PROVE  FALSE
      OBVIOUS
    <3>1. j \in Calling(ev, class, i)
      BY DEF Calling, Matches
    <3>2. at <= j
      BY <3>1, <2>2
    <3>3. QED  BY <3>2, <2>4
  <2>6. Stops(class, i, sr)
    BY <2>1, <2>3, <2>5, Zenon DEF Stops
  <2>7. live' \in Contexts /\ del' \in [class : Classes, next : Nat, m : BOOLEAN]
    <3>1. live' \in Contexts
      BY <2>1, MaskedIs
    <3>2. sr.m \in BOOLEAN
      BY DEF Contexts
    <3>3. QED  BY <3>1, <3>2, <2>1, <2>4
  <2>8. QED  BY <1>1, <2>6, <2>7
<1>3. CASE at = 0
  <2>1. /\ pc' = IF step = "none" THEN "prog" ELSE "exc"
        /\ step' = IF step = "none" THEN "none" ELSE "vback"
        /\ live' = sr /\ del' = NoDelivery
    BY <1>3, ZenonT(40) DEF Deliver
  <2>2. \A j \in Slots : j >= i => ~ (ev[j].status = "active" /\ ev[j].class = class /\ ev[j].mode = "call")
    BY <1>3, CallAtIs, Zenon
  <2>3. Ends(class, i, sr)
    BY <2>1, <2>2, Zenon DEF Ends
  <2>4. live' \in Contexts /\ del' \in [class : Classes, next : Nat, m : BOOLEAN]
    BY <2>1 DEF NoDelivery, Classes
  <2>5. QED  BY <1>1, <2>3, <2>4
<1>4. QED  BY <1>2, <1>3

(* The registers come back, and an interrupt that waits is taken.          *)
LEMMA ResumeIs ==
  ASSUME NEW tc, NEW pending, Resume(tc, pending)
  PROVE  /\ live' = tc /\ step' = "none" /\ pos' = 1
         /\ \/ pc' = "prog" /\ cause' = cause /\ ~ (pending /\ flags.mask /\ tc.c /\ tc.m)
            \/ pc' = "vec" /\ cause' = "irq" /\ pending /\ flags.mask
BY ZenonT(40) DEF Resume

(* The functions of events that the program and its handlers call: an      *)
(* event that is still counted for a vertical blank is as it was.          *)
Watched(i) == OfVblank(ev[i]) => OfVblank(ev'[i])
EventsKept ==
  /\ ev' \in [Slots -> Entries] /\ seen' \in SeenType
  /\ seen'.pads = seen.pads /\ seen'.polls = seen.polls
  /\ seen'.own = seen.own /\ seen'.owns = seen.owns /\ seen'.told = seen.told
  /\ seen'.evs \subseteq seen.evs /\ \A i \in seen'.evs : Watched(i)
(* A call of a function of events takes what it changes out of the         *)
(* account.                                                                *)
LEMMA EventCallIs ==
  ASSUME TypeInv, EventCall
  PROVE  EventsKept
<1>1. ev \in [Slots -> Entries] /\ seen \in SeenType
  BY DEF TypeInv
<1>2. ASSUME NEW k \in Kinds, OpenEvent(k)
      PROVE  EventsKept
  <2> DEFINE free == {i \in Slots : ev[i].status = "unused"}
             f == Min(free)
             new == [class |-> k.class, mode |-> k.mode, status |-> "disabled"]
  <2>1. free # {} /\ ev' = [ev EXCEPT ![f] = new] /\ seen' = seen
    BY <1>2, ZenonT(40) DEF OpenEvent
  <2>2. f \in Slots /\ ev[f].status = "unused"
    <3>1. free \subseteq Nat
      BY Constants
    <3> HIDE DEF free
    <3>2. f \in free
      BY <2>1, <3>1, LeastSlot
    <3>3. QED  BY <3>2 DEF free
  <2>3. new \in Entries
    BY Constants DEF Entries, Statuses
  <2> HIDE DEF new, f
  <2>4. ev' \in [Slots -> Entries]
    BY <2>1, <2>2, <2>3, <1>1
  <2>5. \A i \in seen'.evs : Watched(i)
    <3> SUFFICES ASSUME NEW i \in seen.evs, OfVblank(ev[i])
                 PROVE  OfVblank(ev'[i])
      BY <2>1, Zenon DEF Watched
    <3>1. i # f
      BY <2>2 DEF OfVblank
    <3>2. i \in Slots
      BY <1>1 DEF SeenType
    <3>3. ev'[i] = ev[i]
      BY <3>1, <3>2, <2>1, <1>1
    <3>4. QED  BY <3>3
  <2>6. QED  BY <2>1, <2>4, <2>5, <1>1 DEF EventsKept
<1>3. ASSUME NEW i \in Slots, NEW s \in Statuses, SetStatus(i, s),
             Touch(i) \/ (UNCHANGED seen /\ ev[i].status = "already")
      PROVE  EventsKept
  <2>1. ev' = [ev EXCEPT ![i].status = s]
    BY <1>3 DEF SetStatus
  <2>2. ev' \in [Slots -> Entries] /\ \A j \in Slots : j # i => ev'[j] = ev[j]
    BY <2>1, <1>1 DEF Entries
  <2>3. CASE Touch(i)
    <3>1. seen' = [seen EXCEPT !.evs = @ \ {i}]
      BY <2>3 DEF Touch
    <3>2. /\ seen' \in SeenType /\ seen'.evs = seen.evs \ {i} /\ seen.evs \subseteq Slots
          /\ seen'.pads = seen.pads /\ seen'.polls = seen.polls
          /\ seen'.own = seen.own /\ seen'.owns = seen.owns /\ seen'.told = seen.told
      BY <3>1, <1>1 DEF SeenType
    <3>3. \A j \in seen'.evs : Watched(j)
      BY <3>2, <2>2 DEF Watched
    <3>4. QED  BY <3>2, <3>3, <2>2 DEF EventsKept
  <2>4. CASE UNCHANGED seen /\ ev[i].status = "already"
    <3>1. \A j \in seen'.evs : Watched(j)
      BY <2>4, <2>2, <1>1 DEF Watched, OfVblank, SeenType
    <3>2. QED  BY <3>1, <2>2, <2>4, <1>1 DEF EventsKept
  <2>5. QED  BY <1>3, <2>3, <2>4
<1>4. /\ "active" \in Statuses /\ "disabled" \in Statuses /\ "unused" \in Statuses
  BY DEF Statuses
<1>5. ASSUME NEW i \in Slots, EnableEvent(i) \/ DisableEvent(i) \/ CloseEvent(i) \/ TestEvent(i)
      PROVE  EventsKept
  <2>1. \E s \in Statuses : SetStatus(i, s) /\ (Touch(i) \/ (UNCHANGED seen /\ ev[i].status = "already"))
    BY <1>4, <1>5, ZenonT(40) DEF EnableEvent, DisableEvent, CloseEvent, TestEvent
  <2>2. QED  BY <2>1, <1>3
<1>6. QED  BY <1>2, <1>5, Zenon DEF EventCall

-----------------------------------------------------------------------------
(* Chains                                                                  *)

(* A chain, and what is in it.                                             *)
LEMMA ChainIs ==
  ASSUME NEW s \in Chains
  PROVE  /\ s \in Seq({"pad", "own"}) /\ Len(s) \in Nat /\ DOMAIN s = 1 .. Len(s)
         /\ \A i \in 1 .. Len(s) : s[i] \in {"pad", "own"}
         /\ \A i, j \in 1 .. Len(s) : s[i] = s[j] => i = j
         /\ ToSet(s) = {s[i] : i \in 1 .. Len(s)}
<1>1. s \in Seq({"pad", "own"}) /\ \A i, j \in 1 .. Len(s) : s[i] = s[j] => i = j
  BY DEF Chains
<1>2. Len(s) \in Nat /\ DOMAIN s = 1 .. Len(s) /\ \A i \in 1 .. Len(s) : s[i] \in {"pad", "own"}
  BY <1>1
<1>3. ToSet(s) = {s[i] : i \in 1 .. Len(s)}
  BY <1>2, Zenon DEF ToSet
<1>4. QED  BY <1>1, <1>2, <1>3

(* An entry in front of a chain in which it is not.                        *)
LEMMA InFront ==
  ASSUME NEW s \in Chains, NEW e \in {"pad", "own"}, e \notin ToSet(s)
  PROVE  <<e>> \o s \in Chains /\ ToSet(<<e>> \o s) = ToSet(s) \cup {e}
<1> DEFINE c == <<e>> \o s
<1>1. /\ Len(s) \in Nat /\ \A i \in 1 .. Len(s) : s[i] \in {"pad", "own"}
      /\ \A i, j \in 1 .. Len(s) : s[i] = s[j] => i = j
      /\ ToSet(s) = {s[i] : i \in 1 .. Len(s)} /\ s \in Seq({"pad", "own"})
  BY ChainIs
<1>2. /\ c \in Seq({"pad", "own"}) /\ Len(c) = Len(s) + 1
      /\ c[1] = e /\ \A i \in 1 .. Len(s) : c[i + 1] = s[i]
  <2>1. <<e>> \in Seq({"pad", "own"}) /\ Len(<<e>>) = 1 /\ <<e>>[1] = e
    OBVIOUS
  <2>2. /\ c \in Seq({"pad", "own"}) /\ Len(c) = 1 + Len(s)
        /\ \A i \in 1 .. 1 + Len(s) : c[i] = IF i <= 1 THEN <<e>>[i] ELSE s[i - 1]
    BY <1>1, <2>1, ConcatProperties
  <2> HIDE DEF c
  <2>3. QED  BY <1>1, <2>1, <2>2
<1> HIDE DEF c
<1>3. \A i \in 1 .. Len(c) : i = 1 \/ (i - 1 \in 1 .. Len(s) /\ c[i] = s[i - 1])
  BY <1>1, <1>2
<1>4. \A i \in 1 .. Len(s) : s[i] # e
  BY <1>1
<1>5. \A i, j \in 1 .. Len(c) : c[i] = c[j] => i = j
  <2> TAKE i, j \in 1 .. Len(c)
  <2> HAVE c[i] = c[j]
  <2>1. CASE i = 1 \/ j = 1
    BY <2>1, <1>2, <1>3, <1>4
  <2>2. CASE i # 1 /\ j # 1
    <3>1. i - 1 \in 1 .. Len(s) /\ j - 1 \in 1 .. Len(s) /\ s[i - 1] = s[j - 1]
      BY <2>2, <1>3
    <3>2. i - 1 = j - 1
      BY <3>1, <1>1
    <3>3. QED  BY <3>2
  <2>3. QED  BY <2>1, <2>2
<1>6. c \in Chains
  BY <1>2, <1>5 DEF Chains
<1>7. ToSet(c) = {c[i] : i \in 1 .. Len(c)}
  BY <1>6, ChainIs, Zenon
<1>8. ToSet(c) = ToSet(s) \cup {e}
  <2>1. \A x \in ToSet(c) : x \in ToSet(s) \cup {e}
    BY <1>1, <1>2, <1>3, <1>7
  <2>2. e \in ToSet(c)
    BY <1>1, <1>2, <1>7
  <2>3. \A x \in ToSet(s) : x \in ToSet(c)
    <3>1. \A i \in 1 .. Len(s) : i + 1 \in 1 .. Len(c)
      BY <1>1, <1>2
    <3>2. QED  BY <3>1, <1>1, <1>2, <1>7
  <2>4. QED  BY <2>1, <2>2, <2>3
<1>9. QED  BY <1>6, <1>8 DEF c

(* The chain without an entry.                                             *)
LEMMA WithoutIs ==
  ASSUME chain \in Chains, NEW e \in {"pad", "own"}
  PROVE  Without(e) \in Chains /\ ToSet(Without(e)) = ToSet(chain) \ {e}
<1> DEFINE s == chain
           n == Place(e)
           c == Without(e)
<1>1. /\ Len(s) \in Nat /\ \A i \in 1 .. Len(s) : s[i] \in {"pad", "own"}
      /\ \A i, j \in 1 .. Len(s) : s[i] = s[j] => i = j /\ DOMAIN s = 1 .. Len(s)
      /\ ToSet(s) = {s[i] : i \in 1 .. Len(s)} /\ s \in Seq({"pad", "own"})
  BY ChainIs
<1>2. CASE e \notin ToSet(s)
  <2>1. c = s
    BY <1>2, Zenon DEF Without
  <2>2. QED  BY <1>2, <2>1
<1>3. CASE e \in ToSet(s)
  <2>1. n \in 1 .. Len(s) /\ s[n] = e
    <3> DEFINE S == {i \in DOMAIN s : s[i] = e}
    <3>1. S \subseteq Nat /\ S # {}
      BY <1>1, <1>3
    <3>2. n \in S
      <4> HIDE DEF S
      <4>1. Min(S) \in S
        BY <3>1, LeastSlot
      <4>2. QED  BY <4>1, Zenon DEF S, Place
    <3>3. QED  BY <3>2, <1>1
  <2>2. c = SubSeq(s, 1, n - 1) \o SubSeq(s, n + 1, Len(s))
    BY <1>3, ZenonT(40) DEF Without, RemoveAt
  <2> HIDE DEF n, c
  <2>3. /\ SubSeq(s, 1, n - 1) \in Seq({"pad", "own"}) /\ Len(SubSeq(s, 1, n - 1)) = n - 1
        /\ \A i \in 1 .. n - 1 : SubSeq(s, 1, n - 1)[i] = s[i]
    BY <1>1, <2>1
  <2>4. /\ SubSeq(s, n + 1, Len(s)) \in Seq({"pad", "own"}) /\ Len(SubSeq(s, n + 1, Len(s))) = Len(s) - n
        /\ \A i \in 1 .. Len(s) - n : SubSeq(s, n + 1, Len(s))[i] = s[n + i]
    BY <1>1, <2>1
  <2>5. /\ c \in Seq({"pad", "own"}) /\ Len(c) = Len(s) - 1
        /\ \A i \in 1 .. Len(c) : c[i] = IF i < n THEN s[i] ELSE s[i + 1]
    <3> DEFINE a == SubSeq(s, 1, n - 1)
               b == SubSeq(s, n + 1, Len(s))
    <3>1. c = a \o b /\ a \in Seq({"pad", "own"}) /\ b \in Seq({"pad", "own"})
      BY <2>2, <2>3, <2>4
    <3>2. Len(a) = n - 1 /\ Len(b) = Len(s) - n
      BY <2>3, <2>4
    <3>3. /\ \A i \in 1 .. n - 1 : a[i] = s[i]
          /\ \A i \in 1 .. Len(s) - n : b[i] = s[n + i]
      BY <2>3, <2>4
    <3> HIDE DEF a, b
    <3>4. /\ c \in Seq({"pad", "own"}) /\ Len(c) = Len(a) + Len(b)
          /\ \A i \in 1 .. Len(a) + Len(b) : c[i] = IF i <= Len(a) THEN a[i] ELSE b[i - Len(a)]
      BY <3>1, ConcatProperties
    <3>5. QED  BY <1>1, <2>1, <3>2, <3>3, <3>4
  <2>6. \A i, j \in 1 .. Len(c) : c[i] = c[j] => i = j
    BY <1>1, <2>1, <2>5
  <2>7. c \in Chains
    BY <2>5, <2>6 DEF Chains
  <2>8. ToSet(c) = {c[i] : i \in 1 .. Len(c)}
    BY <2>7, ChainIs, Zenon
  <2>9. \A x \in ToSet(c) : x \in ToSet(s) \ {e}
    BY <1>1, <2>1, <2>5, <2>8
  <2>10. ASSUME NEW i \in 1 .. Len(s), s[i] # e
         PROVE  s[i] \in ToSet(c)
    <3>1. CASE i < n
      BY <3>1, <1>1, <2>1, <2>5, <2>8
    <3>2. CASE i > n
      <4>1. i - 1 \in 1 .. Len(c) /\ c[i - 1] = s[i]
        BY <3>2, <1>1, <2>1, <2>5
      <4>2. QED  BY <4>1, <2>8
    <3>3. QED  BY <3>1, <3>2, <2>1, <2>10
  <2>11. ToSet(c) = ToSet(s) \ {e}
    BY <2>9, <2>10, <1>1
  <2>12. QED  BY <2>7, <2>11 DEF c
<1>4. QED  BY <1>2, <1>3

(* The calls that change who acknowledges: the flags and chains they leave *)
Configures == InitPAD \/ StartPAD \/ StopPAD \/ InitCARD \/ StartCARD \/ StopCARD \/ ChangeIrqs
Configured ==
  /\ Program /\ chain' \in Chains /\ flags' \in FlagsType /\ Acknowledged(flags, chain)'
  /\ UNCHANGED <<k0, cause, pc, cur, tcb, opened, step, pos, del, ev, who, cut>>
  /\ UNCHANGED <<live, ctx>> \/ Unmasked
  /\ (Forget /\ UNCHANGED irq) \/ (seen' = Unseen /\ irq' = FALSE)

(* Every such call leaves somebody to acknowledge the vertical blank.      *)
LEMMA ConfiguresIs ==
  ASSUME TypeInv, Configures
  PROVE  Configured
<1>1. chain \in Chains /\ flags \in FlagsType /\ seen \in SeenType
  BY DEF TypeInv
<1>2. ASSUME NEW f, NEW c, SetIrqs(f, c), f \in FlagsType, c \in Chains
      PROVE  /\ chain' \in Chains /\ flags' \in FlagsType /\ Acknowledged(flags, chain)'
             /\ UNCHANGED <<k0, cause, pc, cur, tcb, opened, step, pos, del, ev, who, cut>>
  BY <1>2, Zenon DEF SetIrqs, Acknowledged, threads, host
<1>3. ASSUME NothingBehind PROVE UpTo("pad") \in Chains
  BY <1>1, <1>3, Zenon DEF NothingBehind
<1>4. <<"pad">> \o Without("pad") \in Chains /\ Without("pad") \in Chains /\ Without("own") \in Chains
  <2>1. /\ Without("pad") \in Chains /\ Without("own") \in Chains
        /\ "pad" \notin ToSet(Without("pad"))
    BY <1>1, WithoutIs
  <2>2. QED  BY <2>1, InFront
<1>5. CASE InitPAD
  <2>1. Program /\ NothingBehind /\ SetIrqs([flags EXCEPT !.pads = TRUE], UpTo("pad"))
        /\ Forget /\ UNCHANGED <<irq, live, ctx>>
    BY <1>5, Zenon DEF InitPAD, Call
  <2>2. [flags EXCEPT !.pads = TRUE] \in FlagsType
    BY <1>1 DEF FlagsType
  <2>3. QED  BY <2>1, <2>2, <1>2, <1>3, Zenon DEF Configured
<1>6. CASE StartPAD
  <2> DEFINE f == [flags EXCEPT !.mask = TRUE, !.ackPad = TRUE, !.ackVbl = FALSE]
  <2>1. Program /\ SetIrqs(f, <<"pad">> \o Without("pad")) /\ irq' = FALSE /\ seen' = Unseen /\ Unmasked
    BY <1>6, Zenon DEF StartPAD, Call
  <2>2. f \in FlagsType
    BY <1>1 DEF FlagsType
  <2>3. QED  BY <2>1, <2>2, <1>2, <1>4, Zenon DEF Configured
<1>7. CASE StopPAD
  <2> DEFINE f == [flags EXCEPT !.ackVbl = TRUE]
  <2>1. Program /\ SetIrqs(f, Without("pad")) /\ Forget /\ Unmasked /\ UNCHANGED irq
    BY <1>7, Zenon DEF StopPAD, Call
  <2>2. f \in FlagsType
    BY <1>1 DEF FlagsType
  <2>3. QED  BY <2>1, <2>2, <1>2, <1>4, Zenon DEF Configured
<1>8. CASE InitCARD
  <2>1. PICK b \in BOOLEAN : SetIrqs([flags EXCEPT !.pads = b], UpTo("pad"))
    BY <1>8, Zenon DEF InitCARD
  <2>2. Program /\ NothingBehind /\ Forget /\ UNCHANGED <<irq, live, ctx>>
    BY <1>8, Zenon DEF InitCARD, Call
  <2>3. [flags EXCEPT !.pads = b] \in FlagsType
    BY <1>1 DEF FlagsType
  <2>4. QED  BY <2>1, <2>2, <2>3, <1>2, <1>3, Zenon DEF Configured
<1>9. CASE StartCARD
  <2> DEFINE f == [flags EXCEPT !.mask = TRUE, !.ackPad = TRUE, !.ackVbl = FALSE, !.cards = TRUE]
  <2>1. Program /\ SetIrqs(f, <<"pad">> \o Without("pad")) /\ Forget /\ Unmasked /\ UNCHANGED irq
    BY <1>9, Zenon DEF StartCARD, Call
  <2>2. f \in FlagsType
    BY <1>1 DEF FlagsType
  <2>3. QED  BY <2>1, <2>2, <1>2, <1>4, Zenon DEF Configured
<1>10. CASE StopCARD
  <2> DEFINE f == [flags EXCEPT !.ackVbl = TRUE, !.cards = FALSE]
  <2>1. Program /\ SetIrqs(f, Without("pad")) /\ Forget /\ Unmasked /\ UNCHANGED irq
    BY <1>10, Zenon DEF StopCARD, Call
  <2>2. f \in FlagsType
    BY <1>1 DEF FlagsType
  <2>3. QED  BY <2>1, <2>2, <1>2, <1>4, Zenon DEF Configured
<1>11. CASE ChangeIrqs
  <2>1. Program /\ Forget /\ UNCHANGED <<irq, live, ctx>>
    BY <1>11, Zenon DEF ChangeIrqs, Call
  <2>2. CASE \E b \in BOOLEAN :
               \E f \in {[flags EXCEPT !.ackPad = b], [flags EXCEPT !.ackVbl = b],
                         [flags EXCEPT !.hook = b], [flags EXCEPT !.mask = b]} : SetIrqs(f, chain)
    <3>1. PICK b \in BOOLEAN :
               \E f \in {[flags EXCEPT !.ackPad = b], [flags EXCEPT !.ackVbl = b],
                         [flags EXCEPT !.hook = b], [flags EXCEPT !.mask = b]} : SetIrqs(f, chain)
      BY <2>2, Zenon
    <3>2. /\ [flags EXCEPT !.ackPad = b] \in FlagsType /\ [flags EXCEPT !.ackVbl = b] \in FlagsType
          /\ [flags EXCEPT !.hook = b] \in FlagsType /\ [flags EXCEPT !.mask = b] \in FlagsType
      BY <1>1 DEF FlagsType
    <3>3. \E f \in FlagsType : SetIrqs(f, chain)
      BY <3>1, <3>2, Zenon
    <3>4. QED  BY <2>1, <3>3, <1>1, <1>2, Zenon DEF Configured
  <2>3. CASE "own" \notin ToSet(chain) /\ SetIrqs(flags, <<"own">> \o chain)
    <3>1. <<"own">> \o chain \in Chains
      BY <2>3, <1>1, InFront
    <3>2. QED  BY <2>1, <2>3, <3>1, <1>1, <1>2, Zenon DEF Configured
  <2>4. CASE SetIrqs(flags, Without("own"))
    BY <2>1, <2>4, <1>1, <1>2, <1>4, Zenon DEF Configured
  <2>5. QED  BY <1>11, <2>2, <2>3, <2>4, Zenon DEF ChangeIrqs
<1>12. QED  BY <1>5, <1>6, <1>7, <1>8, <1>9, <1>10, <1>11, Zenon DEF Configures

(* Pads and cards: what their entry does to events and interrupts          *)
LEMMA PadIs ==
  ASSUME TypeInv, ExcPad
  PROVE  /\ Kept(ev, ev') /\ seen' \in SeenType
         /\ seen'.pads = seen.pads /\ seen'.own = seen.own /\ seen'.owns = seen.owns
         /\ seen'.evs = seen.evs /\ seen'.told = seen.told
         /\ IF irq /\ flags.mask
            THEN /\ irq' = (irq /\ ~flags.ackPad)
                 /\ seen'.polls = IF flags.pads /\ seen.polls < 2 THEN seen.polls + 1 ELSE seen.polls
            ELSE irq' = irq /\ seen' = seen
<1>1. ev \in [Slots -> Entries] /\ seen \in SeenType
  BY DEF TypeInv
<1>2. Kept(ev, ev)
  BY <1>1 DEF Kept
<1>3. ASSUME CardVint
      PROVE  Kept(ev, ev')
  <2> DEFINE e == Undelivered(ev, {"hw4", "hw2000"})
  <2>1. Kept(ev, e) /\ e \in [Slots -> Entries]
    BY <1>1, UndeliveredKeeps DEF Kept
  <2>2. \/ ev' = ev \/ ev' = e \/ \E c : ev' = Marked(e, c, 1)
        \/ \E c, d : ev' = Marked(Marked(e, c, 1), d, 1)
    BY <1>3, ZenonT(60) DEF CardVint
  <2> HIDE DEF e
  <2>3. \A c : Kept(e, Marked(e, c, 1)) /\ Marked(e, c, 1) \in [Slots -> Entries]
    <3>1. ASSUME NEW c PROVE Kept(e, Marked(e, c, 1))
      BY <2>1, MarkedKeeps
    <3>2. QED  BY <3>1, Zenon DEF Kept
  <2>4. \A c : Kept(ev, Marked(e, c, 1))
    BY <2>1, <2>3, KeptTwice, Zenon
  <2>5. \A c, d : Kept(ev, Marked(Marked(e, c, 1), d, 1))
    BY <2>3, <2>4, MarkedKeeps, KeptTwice, Zenon
  <2>6. QED  BY <1>2, <2>1, <2>2, <2>4, <2>5, Zenon
<1>4. CASE irq /\ flags.mask
  <2>1. /\ seen' = [seen EXCEPT !.polls = IF flags.pads /\ @ < 2 THEN @ + 1 ELSE @]
        /\ irq' = (irq /\ ~flags.ackPad)
        /\ CardVint \/ UNCHANGED ev
    BY <1>4, ZenonT(40) DEF ExcPad
  <2>2. Kept(ev, ev')
    BY <2>1, <1>2, <1>3, Zenon
  <2>3. /\ seen' \in SeenType /\ seen'.pads = seen.pads /\ seen'.own = seen.own
        /\ seen'.owns = seen.owns /\ seen'.evs = seen.evs /\ seen'.told = seen.told
        /\ seen'.polls = IF flags.pads /\ seen.polls < 2 THEN seen.polls + 1 ELSE seen.polls
    BY <2>1, <1>1 DEF SeenType
  <2>4. QED  BY <1>4, <2>1, <2>2, <2>3, Zenon
<1>5. CASE ~ (irq /\ flags.mask)
  <2>1. seen' = seen /\ irq' = irq /\ ev' = ev
    BY <1>5, ZenonT(40) DEF ExcPad
  <2>2. QED  BY <1>5, <2>1, <1>1, <1>2, Zenon
<1>6. QED  BY <1>4, <1>5

-----------------------------------------------------------------------------
(* Types, phases and changes of thread are kept by every step              *)
Base == TypeInv /\ PhaseInv /\ ChangeInv

(* A thread that is not started.                                           *)
LEMMA FreshIs ==
  ASSUME NEW t \in Threads
  PROVE  Fresh(t) \in Contexts /\ Fresh(t).at = "main" /\ Fresh(t).m = FALSE /\ Fresh(t).c = FALSE
BY Constants DEF Fresh, Contexts

(* Types, phases and changes of thread at the start.                       *)
LEMMA BaseInit ==
  ASSUME Init
  PROVE  Base
<1>1. /\ pc = "prog" /\ cause = "sys" /\ irq = FALSE /\ cut = FALSE /\ cur = 0 /\ step = "none" /\ pos = 1
      /\ tcb = [t \in Threads |-> Fresh(t)] /\ opened \in {{0}, Threads} /\ del = NoDelivery
      /\ ctx = [t \in Threads |-> IF t = 0 THEN live ELSE Fresh(t)] /\ ev \in Setups /\ seen = Unseen
  BY Zenon DEF Init
<1>2. PICK on, cds \in BOOLEAN :
        /\ live = [Fresh(0) EXCEPT !.c = on, !.m = on]
        /\ chain = IF on THEN <<"pad">> ELSE <<>>
        /\ flags = [pads |-> on, cards |-> cds, ackPad |-> on, ackVbl |-> ~on, hook |-> FALSE, mask |-> on]
  BY Zenon DEF Init
<1>3. live \in Contexts /\ live.at = "main"
  <2>1. Fresh(0) \in Contexts /\ Fresh(0).at = "main"
    BY FreshIs, Constants
  <2>2. QED  BY <1>2, <2>1, SetMaskIs, Zenon
<1>4. tcb \in [Threads -> Contexts] /\ ctx \in [Threads -> Contexts] /\ \A t \in Threads : tcb[t].at = "main"
  BY <1>1, <1>3, FreshIs
<1>5. chain \in Chains /\ Len(chain) \in Nat
  <2>1. <<>> \in Chains /\ <<"pad">> \in Chains
    BY DEF Chains
  <2>2. chain \in Chains
    BY <1>2, <2>1
  <2>3. QED  BY <2>2, ChainIs
<1>6. flags \in FlagsType
  BY <1>2 DEF FlagsType
<1>7. seen \in SeenType
  BY <1>1 DEF Unseen, SeenType
<1>8. ev \in [Slots -> Entries]
  <2>1. Unused \in Entries
    BY DEF Unused, Entries, Classes, Statuses
  <2>2. ASSUME NEW k \in Kinds PROVE Enabled(k) \in Entries
    BY Constants DEF Enabled, Entries, Statuses
  <2>3. {Unused} \cup {Enabled(k) : k \in Kinds} \subseteq Entries
    BY <2>1, <2>2
  <2> HIDE DEF Unused
  <2>4. QED  BY <1>1, <2>3, Constants
<1>9. del \in [class : Classes, next : Nat, m : BOOLEAN]
  BY <1>1 DEF NoDelivery, Classes
<1>10. TypeInv
  <2>1. opened \in SUBSET Threads /\ cur \in opened /\ pos \in 1 .. Len(chain) + 1
    BY <1>1, <1>5, Constants
  <2>2. QED  BY <1>1, <1>3, <1>4, <1>5, <1>6, <1>7, <1>8, <1>9, <2>1, Zenon DEF TypeInv
<1>11. PhaseInv
  BY <1>1 DEF PhaseInv
<1>12. ChangeInv
  BY <1>1, <1>3, <1>4, Constants DEF ChangeInv, Goes
<1>13. QED  BY <1>10, <1>11, <1>12 DEF Base

(* The exception handler gives a thread its registers back.                *)
LEMMA BaseResume ==
  ASSUME Base, NEW pending, NEW tc \in Contexts, Resume(tc, pending),
         UNCHANGED <<del, chain, flags, ev, cut, seen, ctx, opened>>, irq' \in BOOLEAN,
         tcb' \in [Threads -> Contexts], cur' \in opened,
         Goes(tc), \A t \in opened \ {cur'} : tcb'[t].at # "switch"
  PROVE  Base'
<1>1. /\ live' = tc /\ step' = "none" /\ pos' = 1
      /\ pc' \in {"prog", "vec"} /\ cause' \in {"irq", cause}
  BY ResumeIs, Zenon
<1>2. Len(chain) \in Nat
  BY ChainIs DEF Base, TypeInv
<1>3. TypeInv'
  BY <1>1, <1>2 DEF Base, TypeInv
<1>4. PhaseInv'
  BY <1>1 DEF PhaseInv
<1>5. ChangeInv'
  BY <1>1 DEF ChangeInv, Goes
<1>6. QED  BY <1>3, <1>4, <1>5 DEF Base

(* DeliverEvent goes on, from the program or from the exception handler.   *)
LEMMA BaseDeliver ==
  ASSUME Base, NEW class \in Classes, NEW i \in Nat, NEW sr \in Contexts, Deliver(class, i, sr),
         UNCHANGED <<cause, irq, cur, tcb, opened, pos, chain, flags, ctx>>,
         cut' \in BOOLEAN, seen' \in SeenType,
         step \in {"none", "vblank"}, pc # "hook", pos = 1, step = "none" => Goes(sr)
  PROVE  Base'
<1>1. /\ Kept(ev, ev') /\ live' \in Contexts /\ del' \in [class : Classes, next : Nat, m : BOOLEAN]
      /\ Stops(class, i, sr) \/ Ends(class, i, sr)
  BY DeliverIs, Zenon DEF Base, TypeInv
<1>2. /\ \/ pc' = "handler" /\ step' = step
         \/ pc' = "prog" /\ step = "none" /\ step' = "none"
         \/ pc' = "exc" /\ step = "vblank" /\ step' = "vback"
      /\ live' = sr \/ live' = [sr EXCEPT !.m = FALSE]
  <2>1. CASE Stops(class, i, sr)
    BY <2>1, Zenon DEF Stops
  <2>2. CASE Ends(class, i, sr)
    BY <2>2 DEF Ends
  <2>3. QED  BY <1>1, <2>1, <2>2
<1>3. live'.at = sr.at /\ live'.to = sr.to
  BY <1>2, MaskedIs
<1>4. TypeInv'
  BY <1>1, <1>2 DEF Base, TypeInv, Kept
<1>5. PhaseInv'
  BY <1>2 DEF PhaseInv
<1>6. ChangeInv'
  BY <1>2, <1>3 DEF Base, ChangeInv, Goes
<1>7. QED  BY <1>4, <1>5, <1>6 DEF Base

(* A syscall: what the exception handler makes of the thread that does it. *)
Back(r) ==
  LET on == IF r.at = "exit" THEN TRUE ELSE r.at # "enter" /\ r.c
      im == IF r.at = "exit" THEN TRUE ELSE r.at # "enter" /\ r.m
  IN  [r EXCEPT !.at = "main", !.to = 0, !.c = on, !.m = im]

(* The syscall leaves the registers as the program expects them.           *)
LEMMA BackIs ==
  ASSUME NEW r \in Contexts
  PROVE  /\ Back(r) \in Contexts /\ Back(r).at = "main"
         /\ r.at \in {"enter", "exit", "switch"} => Back(r) = Expected(r, r)
<1> DEFINE on == IF r.at = "exit" THEN TRUE ELSE r.at # "enter" /\ r.c
           im == IF r.at = "exit" THEN TRUE ELSE r.at # "enter" /\ r.m
<1>1. r.c \in BOOLEAN /\ r.m \in BOOLEAN
  BY DEF Contexts
<1>2. on \in BOOLEAN /\ im \in BOOLEAN /\ 0 \in Threads
  BY <1>1, Constants
<1>3. ASSUME NEW c \in BOOLEAN, NEW m \in BOOLEAN
      PROVE  [r EXCEPT !.at = "main", !.to = 0, !.c = c, !.m = m] \in Contexts
             /\ [r EXCEPT !.at = "main", !.to = 0, !.c = c, !.m = m].at = "main"
  BY Constants DEF Contexts
<1>4. Back(r) = [r EXCEPT !.at = "main", !.to = 0, !.c = on, !.m = im]
  BY Zenon DEF Back
<1>5. ASSUME r.at \in {"enter", "exit", "switch"} PROVE Back(r) = Expected(r, r)
  <2> DEFINE b(x) == IF r.at = "switch" THEN x ELSE r.at = "exit"
  <2>1. on = b(r.c) /\ im = b(r.m)
    BY <1>1, <1>5
  <2>2. Expected(r, r) = [r EXCEPT !.at = "main", !.to = 0, !.c = b(r.c), !.m = b(r.m)]
    BY Zenon DEF Expected
  <2>3. QED  BY <1>4, <2>1, <2>2
<1> HIDE DEF on, im
<1>6. Back(r) \in Contexts /\ Back(r).at = "main"
  BY <1>2, <1>3, <1>4
<1>7. QED  BY <1>5, <1>6

(* An interrupt is passed on; a syscall changes the registers, and the     *)
(* thread.                                                                 *)
LEMMA SyscallIs ==
  ASSUME Base, ExcSyscall
  PROVE  /\ pc = "exc" /\ step = "syscall"
         /\ UNCHANGED <<opened, del, irq, chain, flags, ev, cut, seen, ctx, who>>
         /\ \/ cause = "irq" /\ step' = "vblank" /\ UNCHANGED <<pc, live, k0, cause, cur, tcb, pos>>
            \/ /\ cause = "sys" /\ tcb' = [tcb EXCEPT ![cur] = Back(tcb[cur])]
               /\ cur' = IF tcb[cur].at = "switch" THEN tcb[cur].to ELSE cur
               /\ Resume(tcb'[cur'], irq)
<1>1. /\ pc = "exc" /\ step = "syscall" /\ cause \in {"irq", "sys"}
      /\ UNCHANGED <<opened, del, irq, chain, flags, ev, cut, seen, ctx, who>>
  BY Zenon DEF ExcSyscall, Base, TypeInv, irqs, truth
<1>2. CASE cause = "irq"
  BY <1>1, <1>2, ZenonT(40) DEF ExcSyscall, cpu
<1>3. CASE cause # "irq"
  BY <1>1, <1>3, ZenonT(40) DEF ExcSyscall, Back
<1>4. QED  BY <1>2, <1>3

(* hleExc0_2_2_syscall keeps types, phases and changes of thread.          *)
LEMMA BaseSyscall ==
  ASSUME Base, ExcSyscall
  PROVE  Base'
<1>1. /\ pc = "exc" /\ step = "syscall"
      /\ UNCHANGED <<opened, del, irq, chain, flags, ev, cut, seen, ctx>>
  BY SyscallIs, Zenon
<1>2. CASE cause = "irq" /\ step' = "vblank" /\ UNCHANGED <<pc, live, k0, cause, cur, tcb, pos>>
  BY <1>1, <1>2 DEF Base, TypeInv, PhaseInv, ChangeInv, Goes
<1>3. CASE /\ cause = "sys" /\ tcb' = [tcb EXCEPT ![cur] = Back(tcb[cur])]
           /\ cur' = IF tcb[cur].at = "switch" THEN tcb[cur].to ELSE cur
           /\ Resume(tcb'[cur'], irq)
  <2>1. /\ tcb \in [Threads -> Contexts] /\ cur \in opened /\ opened \subseteq Threads /\ irq \in BOOLEAN
        /\ Goes(tcb[cur]) /\ \A t \in opened \ {cur} : tcb[t].at # "switch"
    BY <1>1 DEF Base, TypeInv, ChangeInv
  <2>2. tcb[cur] \in Contexts
    BY <2>1
  <2>3. Back(tcb[cur]) \in Contexts /\ Back(tcb[cur]).at = "main"
    BY <2>2, BackIs
  <2>4. cur' \in opened
    BY <1>3, <2>1 DEF Goes
  <2>5. /\ tcb' \in [Threads -> Contexts] /\ \A t \in opened : tcb'[t].at # "switch"
    BY <1>3, <2>1, <2>3
  <2>6. tcb'[cur'] \in Contexts /\ Goes(tcb'[cur'])
    BY <2>1, <2>4, <2>5 DEF Goes
  <2> DEFINE tc == tcb'[cur']
  <2>7. tc \in Contexts /\ Resume(tc, irq) /\ Goes(tc) /\ irq' \in BOOLEAN
    BY <1>1, <1>3, <2>1, <2>6
  <2> HIDE DEF tc
  <2>8. QED  BY <1>1, <2>4, <2>5, <2>7, BaseResume
<1>4. QED  BY <1>2, <1>3, SyscallIs

(* One step per action of the exception handler.                           *)
LEMMA BaseException ==
  ASSUME Base, Exception
  PROVE  Base'
<1>1. CASE TakeIrq
  <2>1. /\ pc = "prog" /\ pc' = "vec" /\ cause' = "irq"
        /\ UNCHANGED <<live, cur, tcb, opened, step, pos, del, irq, chain, flags, ev, cut, seen, ctx>>
    BY <1>1, Zenon DEF TakeIrq, threads, host, irqs, truth
  <2>2. QED  BY <2>1 DEF Base, TypeInv, PhaseInv, ChangeInv, Goes
<1>2. CASE Vector
  <2>1. /\ pc = "vec" /\ pc' = "exc" /\ step' = "syscall" /\ tcb' = [tcb EXCEPT ![cur] = live]
        /\ UNCHANGED <<live, cause, cur, opened, pos, del, irq, chain, flags, ev, cut, seen, ctx>>
    BY <1>2, Zenon DEF Vector, irqs, truth
  <2>2. /\ tcb \in [Threads -> Contexts] /\ cur \in Threads /\ live \in Contexts /\ step = "none" /\ Goes(live)
        /\ \A t \in opened \ {cur} : tcb[t].at # "switch"
    BY <2>1 DEF Base, TypeInv, PhaseInv, ChangeInv
  <2>3. tcb' \in [Threads -> Contexts] /\ tcb'[cur] = live /\ \A t \in Threads \ {cur} : tcb'[t] = tcb[t]
    BY <2>1, <2>2
  <2>4. TypeInv'
    BY <2>1, <2>3 DEF Base, TypeInv
  <2>5. PhaseInv'
    BY <2>1, <2>2 DEF Base, PhaseInv
  <2>6. ChangeInv'
    BY <2>1, <2>2, <2>3 DEF Base, TypeInv, ChangeInv, Goes
  <2>7. QED  BY <2>4, <2>5, <2>6 DEF Base
<1>3. CASE ExcSyscall
  BY <1>3, BaseSyscall
<1>4. CASE ExcVblank
  <2>1. /\ pc = "exc" /\ step = "vblank"
        /\ UNCHANGED <<k0, cause, cur, tcb, opened, pos, irq, chain, flags, cut, seen, ctx>>
    BY <1>4, Zenon DEF ExcVblank, threads, irqs, truth
  <2>2. CASE Deliver("vbl", 1, live)
    <3>1. /\ live \in Contexts /\ pos = 1 /\ cut' \in BOOLEAN /\ seen' \in SeenType /\ "vbl" \in Classes
      BY <2>1 DEF Base, TypeInv, PhaseInv, Classes
    <3>2. QED  BY <2>1, <2>2, <3>1, BaseDeliver
  <2>3. CASE step' = "chain" /\ UNCHANGED <<ev, pc, live, del>>
    BY <2>1, <2>3 DEF Base, TypeInv, PhaseInv, ChangeInv, Goes
  <2>4. QED  BY <1>4, <2>2, <2>3, ZenonT(40) DEF ExcVblank
<1>5. CASE ExcAck
  <2>1. /\ pc = "exc" /\ step = "vback" /\ irq' \in {FALSE, irq}
        /\ UNCHANGED <<cur, tcb, opened, del, chain, flags, ev, cut, seen, ctx>>
        /\ \/ Resume(tcb[cur], FALSE)
           \/ step' = "chain" /\ UNCHANGED <<pc, live, k0, cause, pos>>
    BY <1>5, ZenonT(40) DEF ExcAck, threads, truth, cpu
  <2>2. CASE Resume(tcb[cur], FALSE)
    <3>1. /\ tcb[cur] \in Contexts /\ irq' \in BOOLEAN /\ tcb' \in [Threads -> Contexts] /\ cur' \in opened
          /\ Goes(tcb[cur]) /\ \A t \in opened \ {cur'} : tcb'[t].at # "switch"
      BY <2>1 DEF Base, TypeInv, ChangeInv
    <3>2. QED  BY <2>1, <2>2, <3>1, BaseResume
  <2>3. CASE step' = "chain" /\ UNCHANGED <<pc, live, k0, cause, pos>>
    BY <2>1, <2>3 DEF Base, TypeInv, PhaseInv, ChangeInv, Goes
  <2>4. QED  BY <2>1, <2>2, <2>3
<1>6. CASE ExcPad
  <2>1. /\ pc = "exc" /\ step = "chain" /\ pos <= Len(chain) /\ pos' = pos + 1
        /\ UNCHANGED <<pc, live, k0, cause, cur, tcb, opened, step, del, chain, flags, cut, ctx>>
    BY <1>6, Zenon DEF ExcPad, threads, truth, cpu
  <2>2. ev' \in [Slots -> Entries] /\ seen' \in SeenType /\ (irq' = irq \/ irq' = (irq /\ ~flags.ackPad))
    BY <1>6, PadIs, Zenon DEF Base, Kept
  <2>3. irq' \in BOOLEAN /\ Len(chain) \in Nat /\ pos \in 1 .. Len(chain) + 1
    BY <2>2, ChainIs DEF Base, TypeInv
  <2>4. pos' \in 1 .. Len(chain') + 1
    BY <2>1, <2>3
  <2>5. TypeInv'
    BY <2>1, <2>2, <2>3, <2>4 DEF Base, TypeInv
  <2>6. QED  BY <2>1, <2>5 DEF Base, PhaseInv, ChangeInv, Goes
<1>7. CASE ExcOwn
  <2>1. /\ pc = "exc" /\ step = "chain" /\ pos <= Len(chain) /\ pos' = pos + 1
        /\ seen' = [seen EXCEPT !.owns = IF @ < 2 THEN @ + 1 ELSE @]
        /\ UNCHANGED <<pc, live, k0, cause, cur, tcb, opened, step, del, irq, chain, flags, ev, cut, ctx>>
    BY <1>7, Zenon DEF ExcOwn, threads, truth, cpu, irqs
  <2>2. seen' \in SeenType
    BY <2>1 DEF Base, TypeInv, SeenType
  <2>3. Len(chain) \in Nat /\ pos \in 1 .. Len(chain) + 1
    BY ChainIs DEF Base, TypeInv
  <2>4. pos' \in 1 .. Len(chain') + 1
    BY <2>1, <2>3
  <2>5. TypeInv'
    BY <2>1, <2>2, <2>4 DEF Base, TypeInv
  <2>6. QED  BY <2>1, <2>5 DEF Base, PhaseInv, ChangeInv, Goes
<1>8. CASE ExcExit
  <2>1. /\ pc = "exc" /\ step = "chain"
        /\ UNCHANGED <<cur, tcb, opened, del, irq, chain, flags, ev, cut, seen, ctx>>
        /\ \/ pc' = "hook" /\ step' = "none" /\ pos' = 1 /\ UNCHANGED <<live, k0, cause>>
           \/ Resume(tcb[cur], irq)
    BY <1>8, ZenonT(40) DEF ExcExit, threads, truth, irqs
  <2>2. CASE Resume(tcb[cur], irq)
    <3>1. /\ tcb[cur] \in Contexts /\ irq' \in BOOLEAN /\ tcb' \in [Threads -> Contexts] /\ cur' \in opened
          /\ Goes(tcb[cur]) /\ \A t \in opened \ {cur'} : tcb'[t].at # "switch"
      BY <2>1 DEF Base, TypeInv, ChangeInv
    <3>2. QED  BY <2>1, <2>2, <3>1, BaseResume
  <2>3. CASE pc' = "hook" /\ step' = "none" /\ pos' = 1 /\ UNCHANGED <<live, k0, cause>>
    <3>1. Len(chain) \in Nat
      BY ChainIs DEF Base, TypeInv
    <3>2. QED  BY <2>1, <2>3, <3>1 DEF Base, TypeInv, PhaseInv, ChangeInv, Goes
  <2>4. QED  BY <2>1, <2>2, <2>3
<1>9. CASE HookExit
  <2>1. /\ pc = "hook" /\ irq' = (irq /\ flags.ackPad /\ "pad" \in ToSet(chain)) /\ Resume(tcb[cur], irq')
        /\ UNCHANGED <<cur, tcb, opened, del, chain, flags, ev, cut, seen, ctx>>
    BY <1>9, Zenon DEF HookExit, threads, truth
  <2> DEFINE pending == irq'
  <2>2. irq' \in BOOLEAN /\ Resume(tcb[cur], pending)
    BY <2>1
  <2>3. /\ tcb[cur] \in Contexts /\ tcb' \in [Threads -> Contexts] /\ cur' \in opened
        /\ Goes(tcb[cur]) /\ \A t \in opened \ {cur'} : tcb'[t].at # "switch"
    BY <2>1 DEF Base, TypeInv, ChangeInv
  <2> HIDE DEF pending
  <2>4. QED  BY <2>1, <2>2, <2>3, BaseResume
<1>10. QED  BY <1>1, <1>2, <1>3, <1>4, <1>5, <1>6, <1>7, <1>8, <1>9, Zenon DEF Exception

(* So do the steps of handlers.                                            *)
LEMMA BaseHandler ==
  ASSUME Base, Handler
  PROVE  Base'
<1>1. /\ live \in Contexts /\ del \in [class : Classes, next : Nat, m : BOOLEAN] /\ seen \in SeenType
      /\ cut \in BOOLEAN
  BY DEF Base, TypeInv
<1>2. /\ del.class \in Classes /\ del.next \in Nat /\ Restored(live, del.m) \in Contexts
      /\ Restored(live, del.m).at = live.at /\ Restored(live, del.m).to = live.to
  BY <1>1, RestoredIs
<1>3. CASE HandlerCall
  <2>1. /\ pc = "handler" /\ EventCall
        /\ UNCHANGED <<pc, live, cause, cur, tcb, opened, step, pos, del, irq, chain, flags, cut, ctx>>
    BY <1>3, Zenon DEF HandlerCall, cpu, threads, host, irqs, truth
  <2>2. ev' \in [Slots -> Entries] /\ seen' \in SeenType
    BY <2>1, EventCallIs, Zenon DEF Base, EventsKept
  <2>3. QED  BY <2>1, <2>2 DEF Base, TypeInv, PhaseInv, ChangeInv, Goes
<1>4. CASE HandlerSub
  <2>1. /\ pc = "handler" /\ pc' = "sub"
        /\ UNCHANGED <<live, cause, cur, tcb, opened, step, pos, del, irq, chain, flags, ev, cut, seen, ctx>>
    BY <1>4, Zenon DEF HandlerSub, threads, host, irqs, truth
  <2>2. QED  BY <2>1 DEF Base, TypeInv, PhaseInv, ChangeInv, Goes
<1>5. CASE HandlerReturn \/ HandlerLeave
  <2>1. /\ pc \in {"handler", "sub"} /\ Deliver(del.class, del.next, Restored(live, del.m)) /\ Told
        /\ UNCHANGED <<cause, cur, tcb, opened, pos, irq, chain, flags, cut, ctx>>
    BY <1>5, Zenon DEF HandlerReturn, HandlerLeave, threads, irqs, truth
  <2>2. /\ step \in {"none", "vblank"} /\ pc # "hook" /\ pos = 1 /\ cut' \in BOOLEAN
        /\ step = "none" => Goes(Restored(live, del.m))
    BY <1>1, <1>2, <2>1 DEF Base, PhaseInv, ChangeInv, Goes
  <2>3. seen' \in SeenType
    <3>1. CASE step = "none"
      BY <2>1, <3>1, <1>1 DEF Told
    <3>2. CASE step # "none"
      <4>1. seen' = [seen EXCEPT !.told[del.next - 1] = IF @ < 2 THEN @ + 1 ELSE @]
        BY <2>1, <3>2, Zenon DEF Told
      <4>2. QED  BY <4>1, <1>1, <1>2 DEF SeenType
    <3>3. QED  BY <3>1, <3>2
  <2> DEFINE sr == Restored(live, del.m)
  <2>4. sr \in Contexts /\ Deliver(del.class, del.next, sr) /\ (step = "none" => Goes(sr))
    BY <1>2, <2>1, <2>2
  <2> HIDE DEF sr
  <2>5. QED  BY <1>2, <2>1, <2>2, <2>3, <2>4, BaseDeliver
<1>6. CASE HandlerCut
  <2> DEFINE own == IF step = "none" THEN Lost ELSE Restored(live, del.m).own
             sr == [Restored(live, del.m) EXCEPT !.own = own]
  <2>1. /\ pc = "sub" /\ Deliver(del.class, del.next, sr) /\ cut' = TRUE
        /\ UNCHANGED <<cause, cur, tcb, opened, pos, irq, chain, flags, seen, ctx>>
    BY <1>6, Zenon DEF HandlerCut, threads, irqs
  <2>2. sr \in Contexts /\ sr.at = live.at /\ sr.to = live.to
    <3>1. own \in Threads \cup {Lost}
      BY <1>2 DEF Contexts
    <3> DEFINE r == Restored(live, del.m)
    <3>2. r \in Contexts /\ r.at = live.at /\ r.to = live.to
      BY <1>2
    <3> HIDE DEF own, r
    <3>3. [r EXCEPT !.own = own] \in Contexts /\ [r EXCEPT !.own = own].at = r.at /\ [r EXCEPT !.own = own].to = r.to
      BY <3>1, <3>2 DEF Contexts
    <3>4. QED  BY <3>2, <3>3 DEF r
  <2>3. /\ step \in {"none", "vblank"} /\ pc # "hook" /\ pos = 1 /\ cut' \in BOOLEAN /\ seen' \in SeenType
        /\ step = "none" => Goes(sr)
    BY <1>1, <2>1, <2>2 DEF Base, PhaseInv, ChangeInv, Goes
  <2> HIDE DEF sr
  <2>4. QED  BY <1>2, <2>1, <2>2, <2>3, BaseDeliver
<1>7. QED  BY <1>3, <1>4, <1>5, <1>6, Zenon DEF Handler

(* The program changes its own registers.                                  *)
LEMMA BaseBecome ==
  ASSUME Base, pc = "prog", NEW r \in Contexts, Become(r), Goes(r),
         UNCHANGED <<pc, cause, cur, tcb, opened, step, pos, del, ev, cut>>,
         chain' \in Chains, flags' \in FlagsType, seen' \in SeenType, irq' \in BOOLEAN
  PROVE  Base'
<1>1. live' = r /\ ctx' = [ctx EXCEPT ![cur] = r]
  BY DEF Become
<1>2. ctx' \in [Threads -> Contexts]
  BY <1>1 DEF Base, TypeInv
<1>3. pos = 1 /\ step = "none" /\ Len(chain') \in Nat
  BY ChainIs DEF Base, PhaseInv
<1>4. TypeInv'
  BY <1>1, <1>2, <1>3 DEF Base, TypeInv
<1>5. QED  BY <1>1, <1>3, <1>4 DEF Base, PhaseInv, ChangeInv, Goes

(* The registers with both interrupt bits given.                           *)
LEMMA UnmaskedIs ==
  ASSUME NEW r \in Contexts
  PROVE  /\ [r EXCEPT !.c = TRUE, !.m = TRUE] \in Contexts
         /\ [r EXCEPT !.c = TRUE, !.m = TRUE].at = r.at /\ [r EXCEPT !.c = TRUE, !.m = TRUE].to = r.to
BY SetMaskIs

(* The pads and the entry of the program taken out of the account.         *)
LEMMA ForgetIs ==
  ASSUME seen \in SeenType, Forget
  PROVE  /\ seen' \in SeenType /\ ~seen'.pads /\ ~seen'.own
         /\ seen'.polls = seen.polls /\ seen'.owns = seen.owns /\ seen'.evs = seen.evs /\ seen'.told = seen.told
BY DEF Forget, SeenType

(* The account of no vertical blank.                                       *)
LEMMA UnseenIs ==
  /\ Unseen \in SeenType /\ ~Unseen.pads /\ ~Unseen.own /\ Unseen.polls = 0 /\ Unseen.owns = 0
  /\ Unseen.evs = {} /\ \A i \in Slots : Unseen.told[i] = 0
BY DEF Unseen, SeenType

(* Types, phases and changes of thread when it changes who acknowledges.   *)
LEMMA BaseConfigures ==
  ASSUME Base, Configures
  PROVE  Base'
<1>1. Configured
  BY ConfiguresIs DEF Base
<1>2. /\ pc = "prog" /\ live.at = "main" /\ chain' \in Chains /\ flags' \in FlagsType
      /\ UNCHANGED <<k0, cause, pc, cur, tcb, opened, step, pos, del, ev, cut>>
  BY <1>1, Zenon DEF Configured, Program
<1>3. seen' \in SeenType /\ irq' \in BOOLEAN
  BY <1>1, ForgetIs, UnseenIs DEF Configured, Base, TypeInv
<1>4. CASE UNCHANGED <<live, ctx>>
  <2>1. pos = 1 /\ Len(chain') \in Nat
    BY <1>2, ChainIs DEF Base, PhaseInv
  <2>2. TypeInv'
    BY <1>2, <1>3, <1>4, <2>1 DEF Base, TypeInv
  <2>3. QED  BY <1>2, <1>4, <2>2 DEF Base, PhaseInv, ChangeInv, Goes
<1>5. CASE Unmasked
  <2> DEFINE r == [live EXCEPT !.c = TRUE, !.m = TRUE]
  <2>1. r \in Contexts /\ r.at = "main"
    BY <1>2, UnmaskedIs DEF Base, TypeInv
  <2>2. Become(r)
    BY <1>5 DEF Unmasked
  <2> HIDE DEF r
  <2>3. Goes(r)
    BY <2>1 DEF Goes
  <2>4. QED  BY <1>2, <1>3, <2>1, <2>2, <2>3, BaseBecome
<1>6. QED  BY <1>1, <1>4, <1>5 DEF Configured

(* OpenTh takes a thread that is not open.                                 *)
LEMMA OpenThIs ==
  ASSUME Base, OpenTh
  PROVE  /\ Program
         /\ \E t \in Threads \ (opened \cup {0}) : \E r \in Contexts :
              /\ r.at = "main" /\ opened' = opened \cup {t}
              /\ tcb' = [tcb EXCEPT ![t] = r] /\ ctx' = [ctx EXCEPT ![t] = r]
         /\ UNCHANGED <<pc, live, k0, cause, cur, step, pos, del, irq, chain, flags, ev, who, cut, seen>>
<1> DEFINE free == Threads \ (opened \cup {0})
           t == Min(free)
           r == [tcb[t] EXCEPT !.at = "main", !.own = t]
<1>1. /\ Program
      /\ UNCHANGED <<pc, live, k0, cause, cur, step, pos, del, irq, chain, flags, ev, who, cut, seen>>
  BY Zenon DEF OpenTh, Call, cpu, host, irqs
<1>2. /\ free # {} /\ opened' = opened \cup {t}
      /\ tcb' = [tcb EXCEPT ![t] = r] /\ ctx' = [ctx EXCEPT ![t] = r]
  BY ZenonT(40) DEF OpenTh
<1>3. t \in free
  <2>1. free \subseteq Nat
    BY Constants
  <2> HIDE DEF free
  <2>2. QED  BY <1>2, <2>1, LeastSlot
<1>4. r \in Contexts /\ r.at = "main"
  <2>1. t \in Threads
    BY <1>3
  <2> HIDE DEF t
  <2>2. tcb[t] \in Contexts
    BY <2>1 DEF Base, TypeInv
  <2>3. \A x \in Contexts : [x EXCEPT !.at = "main", !.own = t] \in Contexts
                            /\ [x EXCEPT !.at = "main", !.own = t].at = "main"
    BY <2>1 DEF Contexts
  <2>4. QED  BY <2>2, <2>3
<1> HIDE DEF t, r
<1>5. QED  BY <1>1, <1>2, <1>3, <1>4, Zenon

(* What the program expects of a syscall.                                  *)
LEMMA ExpectedIs ==
  ASSUME NEW l, NEW r \in Contexts
  PROVE  Expected(l, r) \in Contexts
<1> DEFINE on(b) == IF l.at = "switch" THEN b ELSE l.at = "exit"
<1>1. /\ r.c \in BOOLEAN /\ r.m \in BOOLEAN
  BY DEF Contexts
<1>2. on(r.c) \in BOOLEAN /\ on(r.m) \in BOOLEAN
  BY <1>1
<1>3. \A c, m \in BOOLEAN : [r EXCEPT !.at = "main", !.to = 0, !.c = c, !.m = m] \in Contexts
  BY Constants DEF Contexts
<1>4. Expected(l, r) = [r EXCEPT !.at = "main", !.to = 0, !.c = on(r.c), !.m = on(r.m)]
  BY Zenon DEF Expected
<1> HIDE DEF on
<1>5. QED  BY <1>2, <1>3, <1>4

(* The syscall, and what the program expects of it.                        *)
LEMMA TrapIs ==
  ASSUME Trap
  PROVE  /\ pc = "prog" /\ live.at \in {"enter", "exit", "switch"} /\ pc' = "vec" /\ cause' = "sys"
         /\ ctx' = [ctx EXCEPT ![cur] = Expected(live, ctx[cur])]
         /\ who' = IF live.at = "switch" THEN live.to ELSE who
         /\ UNCHANGED <<live, cur, tcb, opened, step, pos, del, irq, chain, flags, ev, cut, seen>>
BY Zenon DEF Trap, threads, host, irqs

(* Types, phases and changes of thread in the steps of the program.        *)
LEMMA BaseMain ==
  ASSUME Base, Main \/ Vblank
  PROVE  Base'
<1>1. /\ live \in Contexts /\ seen \in SeenType /\ chain \in Chains /\ flags \in FlagsType /\ irq \in BOOLEAN
      /\ Len(chain) \in Nat /\ opened \subseteq Threads
  BY ChainIs DEF Base, TypeInv
<1>2. ASSUME NEW r \in Contexts, pc = "prog", Become(r), Goes(r),
             UNCHANGED <<pc, k0, cause, threads, host, irqs, ev, cards, who, cut, seen>>
      PROVE  Base'
  <2>1. UNCHANGED <<pc, cause, cur, tcb, opened, step, pos, del, ev, cut, chain, flags, irq, seen>>
    BY <1>2, Zenon DEF threads, host, irqs
  <2>2. chain' \in Chains /\ flags' \in FlagsType /\ seen' \in SeenType /\ irq' \in BOOLEAN
    BY <2>1, <1>1
  <2>3. QED  BY <1>2, <2>1, <2>2, BaseBecome
<1>3. CASE Goto
  <2>1. PICK a \in {"enter", "exit", "sub"} : Become([live EXCEPT !.at = a])
    BY <1>3 DEF Goto
  <2>2. [live EXCEPT !.at = a] \in Contexts /\ [live EXCEPT !.at = a].at = a
    <3>1. a \in {"main", "sub", "enter", "exit", "switch"}
      OBVIOUS
    <3>2. QED  BY <1>1, <3>1, SetPlaceIs, Zenon
  <2> DEFINE r == [live EXCEPT !.at = a]
  <2>3. r \in Contexts /\ r.at # "switch" /\ Become(r)
    BY <2>1, <2>2
  <2>4. pc = "prog" /\ UNCHANGED <<pc, k0, cause, threads, host, irqs, ev, cards, who, cut, seen>>
    BY <1>3, Zenon DEF Goto, Program
  <2> HIDE DEF r
  <2>5. QED  BY <2>3, <2>4, <1>2 DEF Goes
<1>4. CASE Leave
  <2> DEFINE r == [live EXCEPT !.at = "main"]
  <2>1. r \in Contexts /\ r.at # "switch"
    BY <1>1, SetPlaceIs
  <2>2. pc = "prog" /\ Become(r) /\ UNCHANGED <<pc, k0, cause, threads, host, irqs, ev, cards, who, cut, seen>>
    BY <1>4, Zenon DEF Leave
  <2> HIDE DEF r
  <2>3. QED  BY <2>1, <2>2, <1>2 DEF Goes
<1>5. CASE Trap
  <2>1. /\ pc = "prog" /\ live.at \in {"enter", "exit", "switch"} /\ pc' = "vec" /\ cause' = "sys"
        /\ ctx' = [ctx EXCEPT ![cur] = Expected(live, ctx[cur])]
        /\ UNCHANGED <<live, cur, tcb, opened, step, pos, del, irq, chain, flags, ev, cut, seen>>
    BY <1>5, TrapIs, Zenon
  <2>2. ctx[cur] \in Contexts /\ cur \in Threads /\ ctx \in [Threads -> Contexts]
    BY DEF Base, TypeInv
  <2>3. Expected(live, ctx[cur]) \in Contexts
    BY <2>2, ExpectedIs
  <2>4. ctx' \in [Threads -> Contexts]
    BY <2>1, <2>2, <2>3
  <2>5. QED  BY <2>1, <2>4 DEF Base, TypeInv, PhaseInv, ChangeInv, Goes
<1>6. CASE OpenTh
  <2>1. PICK t \in Threads \ (opened \cup {0}), r \in Contexts :
              /\ r.at = "main" /\ opened' = opened \cup {t}
              /\ tcb' = [tcb EXCEPT ![t] = r] /\ ctx' = [ctx EXCEPT ![t] = r]
    BY <1>6, OpenThIs, Zenon
  <2>2. /\ pc = "prog" /\ live.at = "main"
        /\ UNCHANGED <<pc, live, k0, cause, cur, step, pos, del, irq, chain, flags, ev, who, cut, seen>>
    BY <1>6, OpenThIs, Zenon DEF Program
  <2>3. /\ tcb' \in [Threads -> Contexts] /\ ctx' \in [Threads -> Contexts]
        /\ tcb'[t] = r /\ \A u \in Threads \ {t} : tcb'[u] = tcb[u]
    BY <2>1 DEF Base, TypeInv
  <2>4. TypeInv'
    BY <2>1, <2>2, <2>3 DEF Base, TypeInv
  <2>5. ChangeInv'
    BY <1>1, <2>1, <2>2, <2>3 DEF Base, PhaseInv, ChangeInv, Goes
  <2>6. QED  BY <2>2, <2>4, <2>5 DEF Base, PhaseInv
<1>7. CASE CloseTh
  <2>1. /\ Program /\ \E t \in opened \ {cur, 0} : opened' = opened \ {t}
        /\ UNCHANGED <<pc, live, k0, cause, cur, tcb, step, pos, del, irq, chain, flags, ev, ctx, cut, seen>>
    BY <1>7, Zenon DEF CloseTh, Call, cpu, host, irqs, truth
  <2>2. QED  BY <2>1 DEF Base, TypeInv, PhaseInv, ChangeInv, Goes, Program
<1>8. CASE ChangeTh
  <2>1. PICK t \in opened : Become([live EXCEPT !.at = "switch", !.to = t])
    BY <1>8, Zenon DEF ChangeTh
  <2> DEFINE r == [live EXCEPT !.at = "switch", !.to = t]
  <2>2. r \in Contexts /\ r.to = t
    <3>1. t \in Threads
      BY <1>1
    <3>2. QED  BY <1>1, <3>1, SetGoalIs, Zenon
  <2>3. /\ pc = "prog" /\ Become(r)
        /\ UNCHANGED <<pc, k0, cause, threads, host, irqs, ev, cards, who, cut, seen>>
    BY <1>8, <2>1, Zenon DEF ChangeTh, Call, Program
  <2> HIDE DEF r
  <2>4. QED  BY <2>2, <2>3, <1>2 DEF Goes
<1>9. CASE CallEvent
  <2>1. /\ EventCall
        /\ UNCHANGED <<pc, live, cause, cur, tcb, opened, step, pos, del, irq, chain, flags, cut, ctx>>
    BY <1>9, Zenon DEF CallEvent, cpu, threads, host, irqs, truth
  <2>2. ev' \in [Slots -> Entries] /\ seen' \in SeenType
    BY <2>1, EventCallIs, Zenon DEF Base, EventsKept
  <2>3. QED  BY <2>1, <2>2 DEF Base, TypeInv, PhaseInv, ChangeInv, Goes
<1>10. CASE DeliverEvent
  <2>1. /\ Program /\ Deliver("own", 1, live)
        /\ UNCHANGED <<cause, cur, tcb, opened, pos, irq, chain, flags, cut, ctx, seen>>
    BY <1>10, Zenon DEF DeliverEvent, Call, threads, irqs, truth
  <2>2. /\ step \in {"none", "vblank"} /\ pc # "hook" /\ pos = 1 /\ cut' \in BOOLEAN /\ seen' \in SeenType
        /\ step = "none" => Goes(live)
    BY <2>1 DEF Base, TypeInv, PhaseInv, ChangeInv, Program
  <2>3. "own" \in Classes
    BY DEF Classes
  <2>4. QED  BY <1>1, <2>1, <2>2, <2>3, BaseDeliver
<1>11. CASE Configures
  BY <1>11, BaseConfigures
<1>12. CASE CallCard
  <2>1. /\ Program
        /\ UNCHANGED <<pc, live, cause, cur, tcb, opened, step, pos, del, irq, chain, flags, cut, ctx, seen>>
        /\ ev' = ev \/ ev' = Undelivered(ev, {"card4", "card2000"})
    BY <1>12, ZenonT(60) DEF CallCard, Call, CardFile, CardSector, CardInfo, CardLoadDir, Asked,
       cpu, threads, host, irqs, truth
  <2>2. ev' \in [Slots -> Entries]
    BY <2>1, UndeliveredKeeps DEF Kept, Base, TypeInv
  <2>3. QED  BY <2>1, <2>2 DEF Base, TypeInv, PhaseInv, ChangeInv, Goes
<1>13. CASE Vblank
  <2> DEFINE left == ~flags.ackVbl
             evs == {i \in Slots : ev[i].status = "active" /\ ev[i].class = "vbl" /\ ev[i].mode = "call"}
  <2>1. /\ irq' = TRUE
        /\ seen' = [pads |-> left /\ flags.pads /\ "pad" \in ToSet(chain), polls |-> 0,
                    own |-> left /\ "own" \in ToSet(chain), owns |-> 0, evs |-> evs,
                    told |-> [i \in Slots |-> 0]]
        /\ UNCHANGED <<pc, live, cause, cur, tcb, opened, step, pos, del, chain, flags, ev, cut, ctx>>
    BY <1>13, Zenon DEF Vblank, cpu, threads, host, truth
  <2>2. evs \in SUBSET Slots /\ flags.pads \in BOOLEAN
    BY <1>1 DEF FlagsType
  <2> HIDE DEF evs
  <2>3. seen' \in SeenType
    BY <2>1, <2>2 DEF SeenType
  <2>4. QED  BY <2>1, <2>3 DEF Base, TypeInv, PhaseInv, ChangeInv, Goes
<1>14. QED  BY <1>3, <1>4, <1>5, <1>6, <1>7, <1>8, <1>9, <1>10, <1>11, <1>12, <1>13, Zenon
       DEF Main, Configures

(* Types, phases and changes of thread are kept by every step.             *)
LEMMA BaseStep ==
  ASSUME Base, [Next]_vars
  PROVE  Base'
<1>1. CASE UNCHANGED vars
  BY <1>1 DEF vars, Base, TypeInv, PhaseInv, ChangeInv, Goes
<1>2. CASE Next
  BY <1>2, BaseException, BaseHandler, BaseMain, Zenon DEF Next
<1>3. QED  BY <1>1, <1>2

(* The types of registers, threads and phases, in every state.             *)
THEOREM TypeCorrect == Spec => []TypeOK
<1>1. Spec => []Base
  BY BaseInit, BaseStep, PTL DEF Spec
<1>2. Base => TypeOK
  BY DEF Base, TypeInv, TypeOK
<1>3. QED  BY <1>1, <1>2, PTL

-----------------------------------------------------------------------------
(* Threads resume as they were left                                        *)

(* The registers are where they are to be, at the start.                   *)
LEMMA ThreadInit ==
  ASSUME Init
  PROVE  ThreadInv
<1>1. /\ pc = "prog" /\ cause = "sys" /\ cur = 0 /\ who = 0 /\ step = "none"
      /\ tcb = [t \in Threads |-> Fresh(t)] /\ opened \in {{0}, Threads}
      /\ ctx = [t \in Threads |-> IF t = 0 THEN live ELSE Fresh(t)]
  BY Zenon DEF Init
<1>2. opened \subseteq Threads /\ 0 \in Threads
  BY <1>1, Constants
<1>3. Same(live) /\ \A t \in opened \ {cur} : tcb[t] = ctx[t]
  BY <1>1, <1>2 DEF Same
<1>4. QED  BY <1>1, <1>3 DEF ThreadInv, InProgram, InSyscall, InInterrupt, InOwnHandler

(* The thread that goes on is the one the program has changed to.          *)
LEMMA ThreadResume ==
  ASSUME NEW tc, NEW pending, Resume(tc, pending), UNCHANGED <<opened, ctx, who>>,
         cur' = who, tc = ctx[who], \A t \in opened \ {who} : tcb'[t] = ctx[t]
  PROVE  ThreadInv'
<1>1. /\ live' = tc /\ step' = "none"
      /\ pc' = "prog" \/ (pc' = "vec" /\ cause' = "irq")
  BY ResumeIs, Zenon
<1>2. Same(live)' /\ \A t \in opened' \ {cur'} : tcb'[t] = ctx'[t]
  BY <1>1 DEF Same
<1>3. ~InSyscall' /\ ~InInterrupt' /\ ~InOwnHandler' /\ ~(pc' = "vec" /\ cause' = "sys")
  BY <1>1 DEF InSyscall, InInterrupt, InOwnHandler
<1>4. QED  BY <1>2, <1>3, Zenon DEF ThreadInv

(* DeliverEvent takes the interrupt mask from the program, or returns to   *)
(* it.                                                                     *)
LEMMA ThreadDeliver ==
  ASSUME Base, ~cut, ThreadInv, NEW class \in Classes, NEW i \in Nat, NEW sr \in Contexts, Deliver(class, i, sr),
         UNCHANGED <<cause, cur, tcb, opened, ctx, who>>, step \in {"none", "vblank"},
         step = "none" => Same(sr), step = "vblank" => Same(tcb[cur])
  PROVE  ThreadInv'
<1>1. Stops(class, i, sr) \/ Ends(class, i, sr)
  BY DeliverIs, Zenon DEF Base, TypeInv
<1>2. \A t \in opened' \ {cur'} : tcb'[t] = ctx'[t]
  BY DEF ThreadInv
<1>3. CASE Stops(class, i, sr)
  <2>1. /\ pc' = "handler" /\ step' = step /\ live' = [sr EXCEPT !.m = FALSE] /\ del'.m = sr.m
    BY <1>3 DEF Stops
  <2>2. ~live'.m /\ Restored(live', del'.m) = sr
    BY <2>1, MaskedIs
  <2>3. CASE step = "none"
    <3>1. Same(Restored(live, del.m))' /\ ~live'.m
      BY <2>2, <2>3 DEF Same
    <3>2. InOwnHandler' /\ ~InProgram' /\ ~InSyscall' /\ ~InInterrupt' /\ pc' # "vec"
      BY <2>1, <2>3 DEF InOwnHandler, InProgram, InSyscall, InInterrupt
    <3>3. QED  BY <1>2, <3>1, <3>2, Zenon DEF ThreadInv
  <2>4. CASE step = "vblank"
    <3>1. ~InOwnHandler' /\ ~InProgram' /\ ~InSyscall' /\ InInterrupt' /\ pc' # "vec"
      BY <2>1, <2>4 DEF InOwnHandler, InProgram, InSyscall, InInterrupt
    <3>2. Same(tcb[cur])'
      BY <2>4 DEF Same
    <3>3. QED  BY <1>2, <3>1, <3>2, Zenon DEF ThreadInv
  <2>5. QED  BY <2>3, <2>4
<1>4. CASE Ends(class, i, sr)
  <2>1. /\ pc' = IF step = "none" THEN "prog" ELSE "exc"
        /\ step' = IF step = "none" THEN "none" ELSE "vback"
        /\ live' = sr
    BY <1>4, Zenon DEF Ends
  <2>2. CASE step = "none"
    <3>1. ~InOwnHandler' /\ ~InSyscall' /\ ~InInterrupt' /\ pc' # "vec" /\ Same(live)'
      BY <2>1, <2>2 DEF InOwnHandler, InSyscall, InInterrupt, Same
    <3>2. QED  BY <1>2, <3>1, Zenon DEF ThreadInv
  <2>3. CASE step = "vblank"
    <3>1. ~InOwnHandler' /\ ~InProgram' /\ ~InSyscall' /\ pc' # "vec" /\ Same(tcb[cur])'
      BY <2>1, <2>3 DEF InOwnHandler, InProgram, InSyscall, Same
    <3>2. QED  BY <1>2, <3>1, Zenon DEF ThreadInv
  <2>4. QED  BY <2>2, <2>3
<1>5. QED  BY <1>1, <1>3, <1>4

(* Steps that leave the threads, the registers and the phase alone.        *)
LEMMA ThreadStutter ==
  ASSUME ThreadInv, UNCHANGED <<pc, live, cause, cur, tcb, opened, step, del, cut, ctx, who>>
  PROVE  ThreadInv'
BY DEF ThreadInv, InProgram, InSyscall, InInterrupt, InOwnHandler, Same, Trapped

(* The registers are where they are to be, in the exception handler.       *)
LEMMA ThreadException ==
  ASSUME Base, ~cut, ThreadInv, Exception
  PROVE  ThreadInv'
<1>1. /\ live \in Contexts /\ cur \in opened /\ opened \subseteq Threads /\ tcb \in [Threads -> Contexts]
      /\ \A t \in opened \ {cur} : tcb[t] = ctx[t]
  BY DEF Base, TypeInv, ThreadInv
<1>2. CASE TakeIrq
  <2>1. /\ pc = "prog" /\ pc' = "vec" /\ cause' = "irq"
        /\ UNCHANGED <<live, cur, tcb, opened, step, del, cut, ctx, who>>
    BY <1>2, Zenon DEF TakeIrq, threads, host, truth
  <2>2. Same(live)
    BY <2>1, Zenon DEF ThreadInv, InProgram
  <2>3. Same(live)' /\ step' = "none"
    BY <2>1, <2>2 DEF Same, Base, PhaseInv
  <2>4. QED  BY <1>1, <2>1, <2>3 DEF ThreadInv, InProgram, InSyscall, InInterrupt, InOwnHandler
<1>3. CASE Vector
  <2>1. /\ pc = "vec" /\ pc' = "exc" /\ step' = "syscall" /\ tcb' = [tcb EXCEPT ![cur] = live]
        /\ UNCHANGED <<live, cause, cur, opened, del, cut, ctx, who>>
    BY <1>3, Zenon DEF Vector, truth
  <2>2. tcb'[cur] = live /\ \A t \in opened \ {cur} : tcb'[t] = ctx[t]
    BY <1>1, <2>1
  <2>3. cause = "irq" \/ cause = "sys"
    BY DEF Base, TypeInv
  <2>4. CASE cause = "irq"
    <3>1. Same(live)
      BY <2>1, <2>4, Zenon DEF ThreadInv, InProgram
    <3>2. Same(tcb[cur])'
      BY <2>1, <2>2, <3>1 DEF Same
    <3>3. QED  BY <2>1, <2>2, <2>4, <3>2 DEF ThreadInv, InProgram, InSyscall, InInterrupt, InOwnHandler
  <2>5. CASE cause = "sys"
    <3>1. Trapped(live)
      BY <2>1, <2>5, Zenon DEF ThreadInv
    <3>2. Trapped(tcb[cur])'
      BY <2>1, <2>2, <3>1 DEF Trapped
    <3>3. QED  BY <2>1, <2>2, <2>5, <3>2 DEF ThreadInv, InProgram, InSyscall, InInterrupt, InOwnHandler
  <2>6. QED  BY <2>3, <2>4, <2>5
<1>4. CASE ExcSyscall
  <2>1. /\ pc = "exc" /\ step = "syscall" /\ UNCHANGED <<opened, del, cut, ctx, who>>
    BY <1>4, SyscallIs, Zenon
  <2>2. CASE cause = "irq" /\ step' = "vblank" /\ UNCHANGED <<pc, live, k0, cause, cur, tcb, pos>>
    <3>1. Same(tcb[cur])
      BY <2>1, <2>2, Zenon DEF ThreadInv, InInterrupt
    <3>2. Same(tcb[cur])'
      BY <2>1, <2>2, <3>1 DEF Same
    <3>3. QED  BY <1>1, <2>1, <2>2, <3>2 DEF ThreadInv, InProgram, InSyscall, InInterrupt, InOwnHandler
  <2>3. CASE /\ cause = "sys" /\ tcb' = [tcb EXCEPT ![cur] = Back(tcb[cur])]
             /\ cur' = IF tcb[cur].at = "switch" THEN tcb[cur].to ELSE cur
             /\ Resume(tcb'[cur'], irq)
    <3>1. Trapped(tcb[cur]) /\ Goes(tcb[cur])
      BY <2>1, <2>3, Zenon DEF ThreadInv, InSyscall, Base, ChangeInv
    <3>2. Back(tcb[cur]) = ctx[cur] /\ tcb[cur] \in Contexts
      BY <1>1, <3>1, BackIs DEF Trapped
    <3>3. \A t \in opened : tcb'[t] = ctx[t]
      BY <1>1, <2>3, <3>2
    <3>4. cur' = who /\ who \in opened
      BY <1>1, <2>3, <3>1 DEF Trapped, Goes
    <3> DEFINE tc == tcb'[cur']
    <3>5. tc = ctx[who] /\ Resume(tc, irq)
      BY <2>3, <3>3, <3>4
    <3> HIDE DEF tc
    <3>6. \A t \in opened \ {who} : tcb'[t] = ctx[t]
      BY <3>3
    <3>7. QED  BY <2>1, <3>4, <3>5, <3>6, ThreadResume
  <2>4. QED  BY <1>4, <2>2, <2>3, SyscallIs
<1>5. CASE ExcVblank
  <2>1. /\ pc = "exc" /\ step = "vblank" /\ UNCHANGED <<cause, cur, tcb, opened, cut, ctx, who>>
    BY <1>5, Zenon DEF ExcVblank, threads, truth
  <2>2. Same(tcb[cur])
    BY <2>1, Zenon DEF ThreadInv, InInterrupt
  <2>3. CASE Deliver("vbl", 1, live)
    <3>1. "vbl" \in Classes /\ step \in {"none", "vblank"} /\ (step = "none" => Same(live))
      BY <2>1 DEF Classes
    <3>2. QED  BY <1>1, <2>1, <2>2, <2>3, <3>1, ThreadDeliver
  <2>4. CASE step' = "chain" /\ UNCHANGED <<ev, pc, live, del>>
    <3>1. Same(tcb[cur])'
      BY <2>1, <2>2 DEF Same
    <3>2. QED  BY <1>1, <2>1, <2>4, <3>1 DEF ThreadInv, InProgram, InSyscall, InInterrupt, InOwnHandler
  <2>5. QED  BY <1>5, <2>3, <2>4, ZenonT(40) DEF ExcVblank
<1>6. ASSUME step \in {"vback", "chain"} \/ pc = "hook", UNCHANGED <<cur, tcb, opened, cut, ctx, who>>,
             \/ \E pending : Resume(tcb[cur], pending)
             \/ /\ step' = "chain" \/ (step' = "none" /\ pc' = "hook")
                /\ pc' \in {"exc", "hook"}
      PROVE  ThreadInv'
  <2>1. Same(tcb[cur])
    BY <1>6 DEF ThreadInv, InInterrupt
  <2>2. CASE \E pending : Resume(tcb[cur], pending)
    <3>1. PICK pending : Resume(tcb[cur], pending)
      BY <2>2
    <3>2. cur' = who /\ tcb[cur] = ctx[who] /\ \A t \in opened \ {who} : tcb'[t] = ctx[t]
      BY <1>1, <1>6, <2>1 DEF Same
    <3>3. QED  BY <1>6, <3>1, <3>2, ThreadResume
  <2>3. CASE /\ step' = "chain" \/ (step' = "none" /\ pc' = "hook")
             /\ pc' \in {"exc", "hook"}
    <3>1. Same(tcb[cur])' /\ \A t \in opened' \ {cur'} : tcb'[t] = ctx'[t]
      BY <1>1, <1>6, <2>1 DEF Same
    <3>2. ~InProgram' /\ ~InSyscall' /\ ~InOwnHandler' /\ pc' # "vec"
      BY <2>3 DEF InProgram, InSyscall, InOwnHandler
    <3>3. QED  BY <3>1, <3>2, Zenon DEF ThreadInv
  <2>4. QED  BY <1>6, <2>2, <2>3
<1>7. CASE ExcAck
  <2>1. /\ pc = "exc" /\ step = "vback" /\ UNCHANGED <<cur, tcb, opened, cut, ctx, who>>
        /\ \/ Resume(tcb[cur], FALSE)
           \/ step' = "chain" /\ UNCHANGED <<pc, live, k0, cause, pos>>
    BY <1>7, ZenonT(40) DEF ExcAck, threads, truth, cpu
  <2>2. QED  BY <1>6, <2>1
<1>8. CASE ExcPad
  <2>1. UNCHANGED <<pc, live, cause, cur, tcb, opened, step, del, cut, ctx, who>>
    BY <1>8, Zenon DEF ExcPad, threads, truth, cpu
  <2>2. QED  BY <2>1, ThreadStutter
<1>9. CASE ExcOwn
  <2>1. UNCHANGED <<pc, live, cause, cur, tcb, opened, step, del, cut, ctx, who>>
    BY <1>9, Zenon DEF ExcOwn, threads, truth, cpu
  <2>2. QED  BY <2>1, ThreadStutter
<1>10. CASE ExcExit
  <2>1. /\ pc = "exc" /\ step = "chain" /\ UNCHANGED <<cur, tcb, opened, cut, ctx, who>>
        /\ \/ pc' = "hook" /\ step' = "none"
           \/ Resume(tcb[cur], irq)
    BY <1>10, ZenonT(40) DEF ExcExit, threads, truth
  <2>2. QED  BY <1>6, <2>1
<1>11. CASE HookExit
  <2>1. /\ pc = "hook" /\ Resume(tcb[cur], irq') /\ UNCHANGED <<cur, tcb, opened, cut, ctx, who>>
    BY <1>11, Zenon DEF HookExit, threads, truth
  <2>2. QED  BY <1>6, <2>1
<1>12. QED  BY <1>2, <1>3, <1>4, <1>5, <1>7, <1>8, <1>9, <1>10, <1>11, Zenon DEF Exception

(* The registers are where they are to be, in the handlers of events.      *)
LEMMA ThreadHandler ==
  ASSUME Base, ~cut', ThreadInv, Handler
  PROVE  ThreadInv'
<1>1. /\ del.class \in Classes /\ del.next \in Nat /\ Restored(live, del.m) \in Contexts
  <2>1. live \in Contexts /\ del \in [class : Classes, next : Nat, m : BOOLEAN]
    BY DEF Base, TypeInv
  <2>2. QED  BY <2>1, RestoredIs
<1>2. CASE HandlerCall
  <2>1. UNCHANGED <<pc, live, cause, cur, tcb, opened, step, del, cut, ctx, who>>
    BY <1>2, Zenon DEF HandlerCall, cpu, threads, host, truth
  <2>2. QED  BY <2>1, ThreadStutter
<1>3. CASE HandlerSub
  <2>1. /\ pc = "handler" /\ pc' = "sub"
        /\ UNCHANGED <<live, cause, cur, tcb, opened, step, del, cut, ctx, who>>
    BY <1>3, Zenon DEF HandlerSub, threads, host, truth
  <2>2. /\ InProgram' <=> InProgram
        /\ InSyscall' <=> InSyscall
        /\ InInterrupt' <=> InInterrupt
        /\ InOwnHandler' <=> InOwnHandler
        /\ pc # "vec" /\ pc' # "vec"
    BY <2>1 DEF InProgram, InSyscall, InInterrupt, InOwnHandler
  <2>3. /\ Same(Restored(live, del.m))' <=> Same(Restored(live, del.m))
        /\ Same(tcb[cur])' <=> Same(tcb[cur])
        /\ Same(live)' <=> Same(live)
        /\ Trapped(tcb[cur])' <=> Trapped(tcb[cur])
        /\ live'.m = live.m
    BY <2>1, Zenon DEF Same, Trapped
  <2>4. QED  BY <2>1, <2>2, <2>3, Zenon DEF ThreadInv
<1>4. CASE HandlerReturn \/ HandlerLeave
  <2>1. /\ pc \in {"handler", "sub"} /\ Deliver(del.class, del.next, Restored(live, del.m))
        /\ UNCHANGED <<cause, cur, tcb, opened, cut, ctx, who>>
    BY <1>4, Zenon DEF HandlerReturn, HandlerLeave, threads, truth
  <2> DEFINE sr == Restored(live, del.m)
  <2>2. /\ ~cut /\ step \in {"none", "vblank"}
        /\ step = "none" => Same(sr)
        /\ step = "vblank" => Same(tcb[cur])
    BY <2>1 DEF Base, PhaseInv, ThreadInv, InOwnHandler, InInterrupt
  <2>3. sr \in Contexts /\ Deliver(del.class, del.next, sr)
    BY <1>1, <2>1
  <2> HIDE DEF sr
  <2>4. QED  BY <1>1, <2>1, <2>2, <2>3, ThreadDeliver
<1>5. CASE HandlerCut
  BY <1>5, Zenon DEF HandlerCut
<1>6. QED  BY <1>2, <1>3, <1>4, <1>5, Zenon DEF Handler

(* The registers are where they are to be, in the program.                 *)
LEMMA ThreadMain ==
  ASSUME Base, ~cut, ThreadInv, Main \/ Vblank
  PROVE  ThreadInv'
<1>1. /\ cur \in opened /\ opened \subseteq Threads /\ ctx \in [Threads -> Contexts] /\ tcb \in [Threads -> Contexts]
      /\ \A t \in opened \ {cur} : tcb[t] = ctx[t]
  BY DEF Base, TypeInv, ThreadInv
<1>2. ASSUME pc = "prog"
      PROVE  Same(live) /\ step = "none"
  BY <1>2 DEF Base, PhaseInv, ThreadInv, InProgram
<1>3. ASSUME NEW r, pc = "prog", Become(r), UNCHANGED <<pc, cause, cur, tcb, opened, step, who>>
      PROVE  ThreadInv'
  <2>1. live' = r /\ ctx' = [ctx EXCEPT ![cur] = r]
    BY <1>3 DEF Become
  <2>2. Same(live)' /\ \A t \in opened' \ {cur'} : tcb'[t] = ctx'[t]
    BY <1>1, <1>2, <1>3, <2>1 DEF Same
  <2>3. ~InSyscall' /\ ~InInterrupt' /\ ~InOwnHandler' /\ pc' # "vec"
    BY <1>2, <1>3 DEF InSyscall, InInterrupt, InOwnHandler
  <2>4. QED  BY <2>2, <2>3, Zenon DEF ThreadInv
<1>4. CASE Goto
  <2>1. PICK a : Become([live EXCEPT !.at = a])
    BY <1>4, Zenon DEF Goto
  <2>2. pc = "prog" /\ UNCHANGED <<pc, cause, cur, tcb, opened, step, who>>
    BY <1>4, Zenon DEF Goto, Program, threads, host
  <2>3. QED  BY <1>3, <2>1, <2>2
<1>5. CASE Leave
  <2>1. Become([live EXCEPT !.at = "main"]) /\ pc = "prog" /\ UNCHANGED <<pc, cause, cur, tcb, opened, step, who>>
    BY <1>5, Zenon DEF Leave, threads, host
  <2>2. QED  BY <1>3, <2>1
<1>6. CASE Trap
  <2>1. /\ pc = "prog" /\ live.at \in {"enter", "exit", "switch"} /\ pc' = "vec" /\ cause' = "sys"
        /\ ctx' = [ctx EXCEPT ![cur] = Expected(live, ctx[cur])]
        /\ who' = IF live.at = "switch" THEN live.to ELSE who
        /\ UNCHANGED <<live, cur, tcb, opened, step, del, cut>>
    BY <1>6, TrapIs, Zenon
  <2>2. Same(live) /\ step = "none"
    BY <1>2, <2>1
  <2>3. Trapped(live)'
    BY <1>1, <2>1, <2>2 DEF Trapped, Same, Expected
  <2>4. \A t \in opened' \ {cur'} : tcb'[t] = ctx'[t]
    BY <1>1, <2>1
  <2>5. QED  BY <2>1, <2>2, <2>3, <2>4 DEF ThreadInv, InProgram, InSyscall, InInterrupt, InOwnHandler
<1>7. CASE OpenTh
  <2>1. PICK t \in Threads \ (opened \cup {0}), r \in Contexts :
              /\ r.at = "main" /\ opened' = opened \cup {t}
              /\ tcb' = [tcb EXCEPT ![t] = r] /\ ctx' = [ctx EXCEPT ![t] = r]
    BY <1>7, OpenThIs, Zenon
  <2>2. /\ pc = "prog" /\ UNCHANGED <<pc, live, cause, cur, step, who, cut>>
    BY <1>7, OpenThIs, Zenon DEF Program
  <2>3. Same(live)' /\ \A u \in opened' \ {cur'} : tcb'[u] = ctx'[u]
    BY <1>1, <1>2, <2>1, <2>2 DEF Same
  <2>4. ~InSyscall' /\ ~InInterrupt' /\ ~InOwnHandler' /\ pc' # "vec"
    BY <1>2, <2>2 DEF InSyscall, InInterrupt, InOwnHandler
  <2>5. QED  BY <2>3, <2>4, Zenon DEF ThreadInv
<1>8. CASE CloseTh
  <2>1. /\ pc = "prog" /\ \E t \in opened : opened' = opened \ {t}
        /\ UNCHANGED <<pc, live, cause, cur, tcb, step, del, cut, ctx, who>>
    BY <1>8, Zenon DEF CloseTh, Call, Program, cpu, host, truth
  <2>2. Same(live)' /\ \A u \in opened' \ {cur'} : tcb'[u] = ctx'[u]
    BY <1>1, <1>2, <2>1 DEF Same
  <2>3. ~InSyscall' /\ ~InInterrupt' /\ ~InOwnHandler' /\ pc' # "vec"
    BY <1>2, <2>1 DEF InSyscall, InInterrupt, InOwnHandler
  <2>4. QED  BY <2>2, <2>3, Zenon DEF ThreadInv
<1>9. CASE ChangeTh
  <2>1. PICK t : Become([live EXCEPT !.at = "switch", !.to = t])
    BY <1>9, Zenon DEF ChangeTh
  <2>2. pc = "prog" /\ UNCHANGED <<pc, cause, cur, tcb, opened, step, who>>
    BY <1>9, Zenon DEF ChangeTh, Call, Program, threads, host
  <2>3. QED  BY <1>3, <2>1, <2>2
<1>10. CASE CallEvent \/ Vblank
  <2>1. UNCHANGED <<pc, live, cause, cur, tcb, opened, step, del, cut, ctx, who>>
    BY <1>10, Zenon DEF CallEvent, Vblank, cpu, threads, host, truth
  <2>2. QED  BY <2>1, ThreadStutter
<1>11. CASE DeliverEvent
  <2>1. /\ pc = "prog" /\ Deliver("own", 1, live)
        /\ UNCHANGED <<cause, cur, tcb, opened, cut, ctx, who>>
    BY <1>11, Zenon DEF DeliverEvent, Call, Program, threads, truth
  <2>2. /\ step \in {"none", "vblank"} /\ (step = "none" => Same(live)) /\ (step = "vblank" => Same(tcb[cur]))
    BY <1>2, <2>1
  <2>3. "own" \in Classes /\ live \in Contexts
    BY DEF Classes, Base, TypeInv
  <2>4. QED  BY <2>1, <2>2, <2>3, ThreadDeliver
<1>12. CASE Configures
  <2>1. Configured
    BY <1>12, ConfiguresIs DEF Base
  <2>2. pc = "prog" /\ UNCHANGED <<pc, cause, cur, tcb, opened, step, del, who, cut>>
    BY <2>1, Zenon DEF Configured, Program
  <2>3. CASE UNCHANGED <<live, ctx>>
    BY <2>2, <2>3, ThreadStutter
  <2>4. CASE Unmasked
    BY <1>3, <2>2, <2>4 DEF Unmasked
  <2>5. QED  BY <2>1, <2>3, <2>4 DEF Configured
<1>13. CASE CallCard
  <2>1. UNCHANGED <<pc, live, cause, cur, tcb, opened, step, del, cut, ctx, who>>
    BY <1>13, ZenonT(60) DEF CallCard, Call, CardFile, CardSector, CardInfo, CardLoadDir, Asked,
       cpu, threads, host, truth
  <2>2. QED  BY <2>1, ThreadStutter
<1>14. QED  BY <1>4, <1>5, <1>6, <1>7, <1>8, <1>9, <1>10, <1>11, <1>12, <1>13, Zenon
       DEF Main, Configures

(* Nothing repairs what a handler that was cut short has left.             *)
LEMMA CutStays ==
  ASSUME Base, [Next]_vars, cut
  PROVE  cut'
<1>1. CASE UNCHANGED vars
  BY <1>1 DEF vars
<1>2. CASE Exception
  BY <1>2, ZenonT(40) DEF Exception, TakeIrq, Vector, ExcSyscall, ExcVblank, ExcAck, ExcPad, ExcOwn, ExcExit,
     HookExit, truth
<1>3. CASE Handler
  BY <1>3, ZenonT(40) DEF Handler, HandlerCall, HandlerSub, HandlerReturn, HandlerLeave, HandlerCut, truth
<1>4. CASE Configures
  <2>1. Configured
    BY <1>4, ConfiguresIs DEF Base
  <2>2. QED  BY <2>1, Zenon DEF Configured
<1>5. CASE Vblank \/ Goto \/ Leave \/ Trap \/ OpenTh \/ CloseTh \/ ChangeTh \/ CallEvent \/ DeliverEvent
  BY <1>5, ZenonT(40) DEF Vblank, Goto, Leave, Trap, OpenTh, CloseTh, ChangeTh, CallEvent, DeliverEvent, truth
<1>6. CASE CallCard
  BY <1>6, ZenonT(60) DEF CallCard, CardFile, CardSector, CardInfo, CardLoadDir, Asked, truth
<1>7. QED  BY <1>1, <1>2, <1>3, <1>4, <1>5, <1>6, Zenon DEF Next, Main, Configures

(* The registers are where they are to be, after every step.               *)
LEMMA ThreadStep ==
  ASSUME Base, ThreadInv, [Next]_vars
  PROVE  ThreadInv'
<1>1. CASE cut'
  BY <1>1 DEF ThreadInv
<1>2. CASE ~cut'
  <2>1. ~cut
    BY <1>2, CutStays
  <2>2. CASE UNCHANGED vars
    <3>1. UNCHANGED <<pc, live, cause, cur, tcb, opened, step, del, cut, ctx, who>>
      BY <2>2 DEF vars
    <3>2. QED  BY <3>1, ThreadStutter
  <2>3. CASE Next
    BY <1>2, <2>1, <2>3, ThreadException, ThreadHandler, ThreadMain, Zenon DEF Next
  <2>4. QED  BY <2>2, <2>3
<1>3. QED  BY <1>1, <1>2

(* A thread goes on where it was and with what it had, and it is the one   *)
(* that the program has changed to: through interrupts in every place, the *)
(* handlers that they run, and handlers that the program runs itself.      *)
THEOREM ThreadsAreTrue == Spec => []ThreadTruth
<1>1. Init => Base /\ ThreadInv
  BY BaseInit, ThreadInit
<1>2. Base /\ ThreadInv /\ [Next]_vars => (Base /\ ThreadInv)'
  BY BaseStep, ThreadStep
<1>3. ThreadInv => ThreadTruth
  BY DEF ThreadInv, ThreadTruth, InProgram, Same
<1>4. QED  BY <1>1, <1>2, <1>3, PTL DEF Spec

-----------------------------------------------------------------------------
(* The vertical blank: why it interrupts, and who acknowledges it          *)

(* There is somebody to acknowledge the vertical blank, at the start.      *)
LEMMA IrqInit ==
  ASSUME Init
  PROVE  IrqInv
<1>1. pc = "prog" /\ step = "none"
  BY Zenon DEF Init
<1>2. PICK on, cds \in BOOLEAN :
        /\ chain = IF on THEN <<"pad">> ELSE <<>>
        /\ flags = [pads |-> on, cards |-> cds, ackPad |-> on, ackVbl |-> ~on, hook |-> FALSE, mask |-> on]
  BY Zenon DEF Init
<1>3. CASE on
  <2>1. chain = <<"pad">> /\ flags.ackPad
    BY <1>2, <1>3
  <2>2. chain[1] = "pad" /\ 1 \in DOMAIN chain
    BY <2>1
  <2>3. "pad" \in ToSet(chain)
    BY <2>2, Zenon DEF ToSet
  <2>4. Acknowledged(flags, chain)
    BY <2>1, <2>3, Zenon DEF Acknowledged
  <2>5. QED  BY <1>1, <2>4 DEF IrqInv
<1>4. CASE ~on
  <2>1. flags.ackVbl
    BY <1>2, <1>4
  <2>2. QED  BY <1>1, <2>1 DEF IrqInv, Acknowledged
<1>5. QED  BY <1>3, <1>4

(* Steps after which the processor is in the program or in a handler, or   *)
(* in an interrupt that waited.                                            *)
LEMMA IrqQuiet ==
  ASSUME IrqInv, UNCHANGED <<chain, flags>>,
         step' = "none", pc' = "vec" /\ cause' = "irq" => irq' /\ flags.mask
  PROVE  IrqInv'
BY DEF IrqInv, Acknowledged

(* Steps within the exception handler that leave the interrupt as it is.   *)
LEMMA IrqSame ==
  ASSUME IrqInv, UNCHANGED <<chain, flags, irq, cause, pc, step>>
  PROVE  IrqInv'
BY DEF IrqInv, Acknowledged

(* A thread goes on, or is interrupted again for an interrupt that waits.  *)
LEMMA IrqResume ==
  ASSUME IrqInv, UNCHANGED <<chain, flags>>, NEW tc, NEW pending, Resume(tc, pending), pending => irq'
  PROVE  IrqInv'
<1>1. step' = "none" /\ (pc' = "vec" => pending /\ flags.mask)
  BY ResumeIs DEF Resume
<1>2. QED  BY <1>1, IrqQuiet

(* Whoever acknowledges the vertical blank, every step leaves somebody.    *)
LEMMA IrqStep ==
  ASSUME Base, IrqInv, Next
  PROVE  IrqInv'
<1>1. CASE TakeIrq
  <2>1. pc = "prog" /\ pc' = "vec" /\ irq' = irq /\ irq /\ flags.mask /\ UNCHANGED <<step, chain, flags>>
    BY <1>1, Zenon DEF TakeIrq, host, irqs
  <2>2. step' = "none"
    BY <2>1 DEF Base, PhaseInv
  <2>3. QED  BY <2>1, <2>2, IrqQuiet
<1>2. CASE Vector
  <2>1. pc = "vec" /\ step' = "syscall" /\ UNCHANGED <<cause, irq, chain, flags>>
    BY <1>2, Zenon DEF Vector, irqs
  <2>2. QED  BY <2>1 DEF IrqInv, Acknowledged
<1>3. CASE ExcSyscall
  <2>1. pc = "exc" /\ step = "syscall" /\ UNCHANGED <<irq, chain, flags>>
    BY <1>3, SyscallIs, Zenon
  <2>2. CASE cause = "irq" /\ step' = "vblank" /\ UNCHANGED <<pc, live, k0, cause, cur, tcb, pos>>
    BY <2>1, <2>2 DEF IrqInv, Acknowledged
  <2>3. CASE Resume(tcb'[cur'], irq)
    <3> DEFINE tc == tcb'[cur']
    <3>1. Resume(tc, irq)
      BY <2>3
    <3> HIDE DEF tc
    <3>2. QED  BY <2>1, <3>1, IrqResume
  <2>4. QED  BY <1>3, <2>2, <2>3, SyscallIs
<1>4. ASSUME NEW class \in Classes, NEW i \in Nat, NEW sr \in Contexts, Deliver(class, i, sr),
             UNCHANGED <<irq, cause, chain, flags>>, step \in {"none", "vblank"}
      PROVE  IrqInv'
  <2>1. Stops(class, i, sr) \/ Ends(class, i, sr)
    BY <1>4, DeliverIs, Zenon DEF Base, TypeInv
  <2>2. CASE Stops(class, i, sr)
    <3>1. pc' = "handler" /\ step' = step
      BY <2>2 DEF Stops
    <3>2. QED  BY <1>4, <3>1 DEF IrqInv, Acknowledged
  <2>3. CASE Ends(class, i, sr)
    <3>1. /\ pc' = IF step = "none" THEN "prog" ELSE "exc"
          /\ step' = IF step = "none" THEN "none" ELSE "vback"
      BY <2>3, Zenon DEF Ends
    <3>2. QED  BY <1>4, <3>1 DEF IrqInv, Acknowledged
  <2>4. QED  BY <2>1, <2>2, <2>3
<1>5. CASE ExcVblank
  <2>1. step = "vblank" /\ UNCHANGED <<irq, cause, chain, flags>>
    BY <1>5, Zenon DEF ExcVblank, irqs
  <2>2. Deliver("vbl", 1, live) /\ live \in Contexts /\ "vbl" \in Classes
    <3>1. irq /\ flags.mask
      BY <2>1 DEF IrqInv
    <3>2. Deliver("vbl", 1, live)
      BY <1>5, <3>1, ZenonT(40) DEF ExcVblank
    <3>3. QED  BY <3>2 DEF Base, TypeInv, Classes
  <2>3. QED  BY <1>4, <2>1, <2>2
<1>6. CASE ExcAck
  <2>1. /\ step = "vback" /\ UNCHANGED <<chain, flags>>
        /\ \/ Resume(tcb[cur], FALSE)
           \/ ~flags.ackVbl /\ step' = "chain" /\ UNCHANGED <<pc, live, k0, cause, irq, pos>>
    BY <1>6, ZenonT(40) DEF ExcAck, cpu
  <2>2. CASE Resume(tcb[cur], FALSE)
    BY <2>1, <2>2, IrqResume
  <2>3. CASE ~flags.ackVbl /\ step' = "chain" /\ UNCHANGED <<pc, live, k0, cause, irq, pos>>
    <3>1. pc = "exc"
      BY <1>6, Zenon DEF ExcAck
    <3>2. QED  BY <2>1, <2>3, <3>1 DEF IrqInv, Acknowledged
  <2>4. QED  BY <2>1, <2>2, <2>3
<1>7. CASE ExcPad \/ ExcOwn
  <2>1. step = "chain" /\ pc = "exc" /\ UNCHANGED <<pc, step, chain, flags>>
    BY <1>7, Zenon DEF ExcPad, ExcOwn, cpu, irqs
  <2>2. QED  BY <2>1 DEF IrqInv, Acknowledged
<1>8. CASE ExcExit
  <2>1. /\ UNCHANGED <<irq, chain, flags>>
        /\ \/ pc' = "hook" /\ step' = "none"
           \/ Resume(tcb[cur], irq)
    BY <1>8, ZenonT(40) DEF ExcExit, irqs
  <2>2. CASE pc' = "hook" /\ step' = "none"
    BY <2>1, <2>2, IrqQuiet
  <2>3. CASE Resume(tcb[cur], irq)
    BY <2>1, <2>3, IrqResume
  <2>4. QED  BY <2>1, <2>2, <2>3
<1>9. CASE HookExit
  <2> DEFINE pending == irq'
  <2>1. UNCHANGED <<chain, flags>> /\ Resume(tcb[cur], pending) /\ (pending => irq')
    BY <1>9, Zenon DEF HookExit
  <2> HIDE DEF pending
  <2>2. QED  BY <2>1, IrqResume
<1>10. CASE HandlerCall \/ HandlerSub
  <2>1. pc = "handler" /\ pc' \in {"handler", "sub"} /\ UNCHANGED <<irq, cause, step, chain, flags>>
    BY <1>10, Zenon DEF HandlerCall, HandlerSub, cpu, host, irqs
  <2>2. QED  BY <2>1 DEF IrqInv, Acknowledged
<1>11. CASE HandlerReturn \/ HandlerLeave \/ HandlerCut
  <2>1. /\ pc \in {"handler", "sub"} /\ UNCHANGED <<irq, cause, chain, flags>>
        /\ \E sr : Deliver(del.class, del.next, sr)
    BY <1>11, Zenon DEF HandlerReturn, HandlerLeave, HandlerCut, irqs
  <2>2. step \in {"none", "vblank"}
    BY <2>1 DEF Base, PhaseInv
  <2>3. /\ pc' \in {"handler", "prog", "exc"}
        /\ step' = step \/ (step' = "vback" /\ step = "vblank")
    BY <2>1, <2>2, ZenonT(40) DEF Deliver
  <2>4. QED  BY <2>1, <2>2, <2>3 DEF IrqInv, Acknowledged
<1>12. CASE Configures
  <2>1. Configured
    BY <1>12, ConfiguresIs DEF Base
  <2>2. pc' = "prog" /\ step' = step /\ pc = "prog" /\ Acknowledged(flags, chain)'
    BY <2>1, Zenon DEF Configured, Program
  <2>3. step = "none"
    BY <2>2 DEF Base, PhaseInv
  <2>4. QED  BY <2>2, <2>3 DEF IrqInv
<1>13. CASE Trap
  <2>1. pc = "prog" /\ cause' = "sys" /\ UNCHANGED <<step, chain, flags>>
    BY <1>13, TrapIs, Zenon
  <2>2. step' = "none"
    BY <2>1 DEF Base, PhaseInv
  <2>3. QED  BY <2>1, <2>2, IrqQuiet
<1>14. CASE Goto \/ Leave \/ OpenTh \/ CloseTh \/ ChangeTh \/ CallEvent
  <2>1. pc = "prog" /\ UNCHANGED <<pc, step, chain, flags>>
    BY <1>14, ZenonT(40) DEF Goto, Leave, OpenTh, CloseTh, ChangeTh, CallEvent, Call, Program, cpu, host, irqs
  <2>2. step' = "none"
    BY <2>1 DEF Base, PhaseInv
  <2>3. QED  BY <2>1, <2>2, IrqQuiet
<1>15. CASE DeliverEvent
  <2>1. pc = "prog" /\ Deliver("own", 1, live) /\ UNCHANGED <<irq, cause, chain, flags>>
    BY <1>15, Zenon DEF DeliverEvent, Call, Program, irqs
  <2>2. step \in {"none", "vblank"} /\ "own" \in Classes /\ live \in Contexts
    BY <2>1 DEF Base, PhaseInv, TypeInv, Classes
  <2>3. QED  BY <1>4, <2>1, <2>2
<1>16. CASE CallCard
  <2>1. pc = "prog" /\ UNCHANGED <<pc, step, chain, flags>>
    BY <1>16, ZenonT(60) DEF CallCard, Call, Program, CardFile, CardSector, CardInfo, CardLoadDir, Asked,
       cpu, host, irqs
  <2>2. step' = "none"
    BY <2>1 DEF Base, PhaseInv
  <2>3. QED  BY <2>1, <2>2, IrqQuiet
<1>17. CASE Vblank
  <2>1. irq' = TRUE /\ UNCHANGED <<pc, cause, step, chain, flags>>
    BY <1>17, Zenon DEF Vblank, cpu, host
  <2>2. QED  BY <2>1 DEF IrqInv, Acknowledged
<1>18. QED
  BY <1>1, <1>2, <1>3, <1>5, <1>6, <1>7, <1>8, <1>9, <1>10, <1>11, <1>12, <1>13, <1>14, <1>15, <1>16, <1>17,
     Zenon DEF Next, Exception, Handler, Main, Configures

-----------------------------------------------------------------------------
(* A vertical blank is seen once                                           *)

(* At the start there is no vertical blank to be seen.                     *)
LEMMA SeenInit ==
  ASSUME Init
  PROVE  SeenInv
<1>1. pc = "prog" /\ step = "none" /\ irq = FALSE /\ seen = Unseen
  BY Zenon DEF Init
<1>2. ~Waits
  BY <1>1 DEF Waits
<1>3. Over
  BY <1>1, UnseenIs DEF Over, AllTold
<1>4. QED  BY <1>1, <1>2, <1>3 DEF SeenInv

(* An event with a handler stays one, whatever is marked.                  *)
LEMMA KeptWatched ==
  ASSUME NEW e, NEW f, Kept(e, f), NEW i \in Slots, OfVblank(e[i])
  PROVE  OfVblank(f[i])
<1>1. f[i] = e[i]
  BY Zenon DEF Kept, OfVblank
<1>2. QED  BY <1>1

(* Outside the handling of the vertical blank: it waits, or is over.       *)
Calm == step \in {"none", "syscall"} /\ pc # "hook"
CalmAfter == Calm' \/ (step' = "vblank" /\ pc' = "exc" /\ irq')
LEMMA SeenCalm ==
  ASSUME ~cut, SeenInv, Calm, CalmAfter, UNCHANGED <<irq, chain, flags, seen>>,
         Kept(ev, ev')
  PROVE  SeenInv'
<1>1. /\ Waits' => Waits
      /\ Rests' => Rests
  BY DEF Waits, Rests, Calm, CalmAfter
<1>2. /\ Waits => NotPolled /\ Untold /\ Owed
      /\ Rests => Over
  BY DEF SeenInv
<1>3. NotPolled => NotPolled'
  BY DEF NotPolled
<1>4. Untold => Untold'
  <2> SUFFICES ASSUME Untold, NEW i \in Slots
               PROVE  seen'.told[i] = 0 /\ (i \in seen'.evs => OfVblank(ev'[i]))
    BY DEF Untold
  <2>1. seen.told[i] = 0 /\ (i \in seen.evs => OfVblank(ev[i]))
    BY DEF Untold
  <2>2. i \in seen.evs => OfVblank(ev'[i])
    BY <2>1, KeptWatched
  <2>3. QED  BY <2>1, <2>2
<1>5. Owed => Owed'
  BY DEF Owed
<1>6. Over => Over'
  BY DEF Over, AllTold
<1>7. /\ ~(pc' \in {"handler", "sub"} /\ step' = "vblank") /\ step' # "vback" /\ step' # "chain"
      /\ pc' # "hook"
  BY DEF Calm, CalmAfter
<1>8. QED  BY <1>1, <1>2, <1>3, <1>4, <1>5, <1>6, <1>7, Zenon DEF SeenInv

(* Calls of the functions of events take out of the account what they      *)
(* change.                                                                 *)
LEMMA SeenEvents ==
  ASSUME SeenInv, EventsKept, UNCHANGED <<pc, irq, chain, flags, step, pos, del, cut>>
  PROVE  SeenInv'
<1>1. /\ seen'.pads = seen.pads /\ seen'.polls = seen.polls
      /\ seen'.own = seen.own /\ seen'.owns = seen.owns /\ seen'.told = seen.told
      /\ seen'.evs \subseteq seen.evs /\ \A i \in seen'.evs : OfVblank(ev[i]) => OfVblank(ev'[i])
  BY DEF EventsKept, Watched
<1>2. /\ Waits' <=> Waits
      /\ Rests' <=> Rests
  BY Zenon DEF Waits, Rests
<1>3. /\ NotPolled => NotPolled'
      /\ Untold => Untold'
      /\ Owed => Owed'
      /\ AllTold => AllTold'
  BY <1>1 DEF NotPolled, Untold, Owed, AllTold
<1>4. Over => Over'
  BY <1>1, <1>3 DEF Over
<1>5. ToldUpTo(del.next - 1) => ToldUpTo(del.next - 1)'
  BY <1>1 DEF ToldUpTo
<1>6. (Passed("pad")' <=> Passed("pad")) /\ (Passed("own")' <=> Passed("own"))
  BY Zenon DEF Passed
<1>7. CASE cut
  BY <1>7 DEF SeenInv
<1>8. CASE ~cut
  <2>1. pc' \in {"handler", "sub"} /\ step' = "vblank" =>
          /\ del'.class = "vbl" /\ del'.next - 1 \in Slots
          /\ NotPolled' /\ Owed' /\ ToldUpTo(del.next - 1)'
    BY <1>3, <1>5, <1>8 DEF SeenInv
  <2>2. (Waits' => NotPolled' /\ Untold' /\ Owed') /\ (Rests' => Over')
    BY <1>2, <1>3, <1>4, <1>8 DEF SeenInv
  <2>3. /\ step' = "vback" => NotPolled' /\ Owed' /\ AllTold'
        /\ pc' = "hook" /\ ~irq' => flags'.ackPad /\ "pad" \in ToSet(chain')
    BY <1>3, <1>8 DEF SeenInv
  <2>4. step' = "chain" =>
         /\ Owed' /\ AllTold'
         /\ seen'.polls = IF flags'.pads /\ Passed("pad")' THEN 1 ELSE 0
         /\ seen'.owns = IF Passed("own")' THEN 1 ELSE 0
         /\ irq' = ~(flags'.ackPad /\ Passed("pad")')
    BY <1>1, <1>3, <1>6, <1>8 DEF SeenInv
  <2>5. QED  BY <2>1, <2>2, <2>3, <2>4, Zenon DEF SeenInv
<1>9. QED  BY <1>7, <1>8

(* DeliverEvent in the exception handler: the events before slot i have    *)
(* been told, and now those up to the next one that has a handler, or all. *)
ToldBefore(i) ==
  \A j \in Slots :
    /\ j < i => seen'.told[j] < 2 /\ (j \in seen'.evs => seen'.told[j] = 1)
    /\ j >= i => seen'.told[j] = 0 /\ (j \in seen'.evs => OfVblank(ev[j]))
LEMMA SeenDeliver ==
  ASSUME Base, step = "vblank", NEW i \in Nat, NEW sr \in Contexts, Deliver("vbl", i, sr), ToldBefore(i),
         NotPolled', Owed', seen' \in SeenType
  PROVE  SeenInv'
<1>1. Kept(ev, ev') /\ (Stops("vbl", i, sr) \/ Ends("vbl", i, sr))
  <2>1. "vbl" \in Classes /\ ev \in [Slots -> Entries]
    BY DEF Classes, Base, TypeInv
  <2>2. QED  BY <2>1, DeliverIs, Zenon
<1>2. Slots \subseteq Nat
  BY Constants
<1>3. CASE Stops("vbl", i, sr)
  <2>1. PICK n \in Slots :
          /\ n >= i /\ \A j \in Slots : j >= i /\ j < n => ~ OfVblank(ev[j])
          /\ pc' = "handler" /\ step' = step
          /\ del' = [class |-> "vbl", next |-> n + 1, m |-> sr.m]
    BY <1>3, Zenon DEF Stops, OfVblank
  <2>2. del'.class = "vbl" /\ del'.next - 1 = n
    BY <1>2, <2>1
  <2>3. ASSUME NEW j \in Slots
        PROVE  /\ j < n => seen'.told[j] < 2 /\ (j \in seen'.evs => seen'.told[j] = 1)
               /\ j >= n => seen'.told[j] = 0 /\ (j \in seen'.evs => OfVblank(ev'[j]))
    <3>1. /\ j < i => seen'.told[j] < 2 /\ (j \in seen'.evs => seen'.told[j] = 1)
          /\ j >= i => seen'.told[j] = 0 /\ (j \in seen'.evs => OfVblank(ev[j]))
      BY DEF ToldBefore
    <3>2. j \in Nat /\ n \in Nat /\ i \in Nat
      BY <1>2
    <3>3. CASE j < i
      BY <2>1, <3>1, <3>2, <3>3
    <3>4. CASE j >= i /\ j < n
      <4>1. ~ OfVblank(ev[j])
        BY <2>1, <3>4
      <4>2. QED  BY <3>1, <3>2, <3>4, <4>1
    <3>5. CASE j >= n
      <4>1. seen'.told[j] = 0 /\ (j \in seen'.evs => OfVblank(ev[j]))
        BY <2>1, <3>1, <3>2, <3>5
      <4>2. j \in seen'.evs => OfVblank(ev'[j])
        BY <1>1, <4>1, KeptWatched
      <4>3. QED  BY <3>2, <3>5, <4>1, <4>2
    <3>6. QED  BY <3>2, <3>3, <3>4, <3>5
  <2>4. ToldUpTo(del.next - 1)'
    BY <2>2, <2>3 DEF ToldUpTo
  <2>5. ~Waits' /\ ~Rests' /\ step' # "vback" /\ step' # "chain" /\ pc' # "hook"
    BY <2>1 DEF Waits, Rests
  <2>6. QED  BY <2>1, <2>2, <2>4, <2>5 DEF SeenInv
<1>4. CASE Ends("vbl", i, sr)
  <2>1. /\ pc' = "exc" /\ step' = "vback"
        /\ \A j \in Slots : j >= i => ~ OfVblank(ev[j])
    BY <1>4 DEF Ends, OfVblank
  <2>2. ASSUME NEW j \in Slots
        PROVE  seen'.told[j] < 2 /\ (j \in seen'.evs => seen'.told[j] = 1)
    <3>1. /\ j < i => seen'.told[j] < 2 /\ (j \in seen'.evs => seen'.told[j] = 1)
          /\ j >= i => seen'.told[j] = 0 /\ (j \in seen'.evs => OfVblank(ev[j]))
      BY DEF ToldBefore
    <3>2. j \in Nat /\ i \in Nat
      BY <1>2
    <3>3. CASE j < i
      BY <3>1, <3>3
    <3>4. CASE j >= i
      BY <2>1, <3>1, <3>4
    <3>5. QED  BY <3>2, <3>3, <3>4
  <2>3. AllTold'
    BY <2>2 DEF AllTold
  <2>4. ~Waits' /\ ~Rests' /\ step' # "chain" /\ pc' # "hook" /\ step' # "vblank"
    BY <2>1 DEF Waits, Rests
  <2>5. QED  BY <2>1, <2>3, <2>4 DEF SeenInv
<1>5. QED  BY <1>1, <1>3, <1>4

(* After an exception: it is over, or another one has come.                *)
LEMMA SeenResume ==
  ASSUME ~irq', Over', step' = "none", pc' # "hook"
  PROVE  SeenInv'
<1>1. ~Waits'
  BY DEF Waits
<1>2. QED  BY <1>1 DEF SeenInv

(* Events that do not change keep their handlers.                          *)
LEMMA NoChange ==
  ASSUME Base
  PROVE  Kept(ev, ev)
BY DEF Kept, Base, TypeInv

(* The entry at pos is not among those that have been passed.              *)
LEMMA PassedIs ==
  ASSUME TypeInv, NEW e \in {"pad", "own"}
  PROVE  /\ pos <= Len(chain) /\ chain[pos] = e => ~Passed(e)
         /\ pos > Len(chain) => (Passed(e) <=> e \in ToSet(chain))
         /\ pos = 1 => ~Passed(e)
<1>1. /\ Len(chain) \in Nat /\ pos \in 1 .. Len(chain) + 1
      /\ \A i, j \in 1 .. Len(chain) : chain[i] = chain[j] => i = j
      /\ ToSet(chain) = {chain[i] : i \in 1 .. Len(chain)}
  BY ChainIs DEF TypeInv
<1>2. ASSUME pos <= Len(chain), chain[pos] = e, Passed(e)
      PROVE  FALSE
  <2>1. PICK j \in 1 .. pos - 1 : chain[j] = e
    BY <1>2 DEF Passed
  <2>2. j \in 1 .. Len(chain) /\ pos \in 1 .. Len(chain) /\ j # pos
    BY <1>1, <1>2, <2>1
  <2>3. QED  BY <1>1, <1>2, <2>1, <2>2
<1>3. ASSUME pos > Len(chain)
      PROVE  Passed(e) <=> e \in ToSet(chain)
  <2>1. pos - 1 = Len(chain)
    BY <1>1, <1>3
  <2>2. QED  BY <1>1, <2>1 DEF Passed
<1>4. ASSUME pos = 1 PROVE ~Passed(e)
  BY <1>4 DEF Passed
<1>5. QED  BY <1>2, <1>3, <1>4

(* The entry at pos is passed in this step.                                *)
LEMMA PassedNext ==
  ASSUME TypeInv, pos' = pos + 1, chain' = chain, NEW e
  PROVE  Passed(e)' <=> (Passed(e) \/ chain[pos] = e)
<1>1. pos \in Nat /\ pos >= 1
  <2>1. Len(chain) \in Nat /\ pos \in 1 .. Len(chain) + 1
    BY ChainIs DEF TypeInv
  <2>2. QED  BY <2>1
<1>2. Passed(e)' <=> \E j \in 1 .. pos : chain[j] = e
  <2>1. pos' - 1 = pos
    BY <1>1
  <2>2. Passed(e)' <=> \E j \in 1 .. pos' - 1 : chain'[j] = e
    BY Zenon DEF Passed
  <2>3. QED  BY <2>1, <2>2
<1>3. Passed(e) <=> \E j \in 1 .. pos - 1 : chain[j] = e
  BY Zenon DEF Passed
<1>4. QED  BY <1>1, <1>2, <1>3

(* The pads and the entry of the program see it once, as pos goes along.   *)
LEMMA SeenChain ==
  ASSUME Base, ~cut, IrqInv, SeenInv, ExcPad \/ ExcOwn
  PROVE  SeenInv'
<1>1. /\ pc = "exc" /\ step = "chain" /\ pos <= Len(chain) /\ pos' = pos + 1 /\ chain[pos] \in {"pad", "own"}
      /\ UNCHANGED <<pc, step, chain, flags, cut>>
  BY Zenon DEF ExcPad, ExcOwn, cpu, irqs, truth
<1>2. /\ Owed /\ AllTold
      /\ seen.polls = IF flags.pads /\ Passed("pad") THEN 1 ELSE 0
      /\ seen.owns = IF Passed("own") THEN 1 ELSE 0
      /\ irq = ~(flags.ackPad /\ Passed("pad"))
  BY <1>1 DEF SeenInv
<1>3. /\ Passed("pad")' <=> (Passed("pad") \/ chain[pos] = "pad")
      /\ Passed("own")' <=> (Passed("own") \/ chain[pos] = "own")
      /\ chain[pos] = "pad" => ~Passed("pad")
      /\ chain[pos] = "own" => ~Passed("own")
  <2>1. Passed("pad")' <=> (Passed("pad") \/ chain[pos] = "pad")
    BY <1>1, PassedNext DEF Base
  <2>2. Passed("own")' <=> (Passed("own") \/ chain[pos] = "own")
    BY <1>1, PassedNext DEF Base
  <2>3. QED  BY <1>1, <2>1, <2>2, PassedIs DEF Base
<1>4. flags.mask /\ flags.pads \in BOOLEAN /\ flags.ackPad \in BOOLEAN /\ irq \in BOOLEAN /\ seen \in SeenType
  BY <1>1 DEF IrqInv, Base, TypeInv, FlagsType
<1>5. ASSUME seen'.pads = seen.pads, seen'.own = seen.own, seen'.evs = seen.evs, seen'.told = seen.told,
             seen'.polls = IF flags.pads /\ Passed("pad")' THEN 1 ELSE 0,
             seen'.owns = IF Passed("own")' THEN 1 ELSE 0,
             irq' = ~(flags.ackPad /\ Passed("pad")')
      PROVE  SeenInv'
  <2>1. Owed' /\ AllTold'
    BY <1>1, <1>2, <1>5 DEF Owed, AllTold
  <2>2. ~Waits' /\ ~Rests'
    BY <1>1 DEF Waits, Rests
  <2>3. pc' = "exc" /\ step' = "chain" /\ flags' = flags
    BY <1>1
  <2>4. QED  BY <1>5, <2>1, <2>2, <2>3, Zenon DEF SeenInv
<1>6. CASE ExcPad
  <2>1. chain[pos] = "pad"
    BY <1>6 DEF ExcPad
  <2>2. /\ seen'.pads = seen.pads /\ seen'.own = seen.own /\ seen'.owns = seen.owns
        /\ seen'.evs = seen.evs /\ seen'.told = seen.told
        /\ irq /\ flags.mask => /\ irq' = (irq /\ ~flags.ackPad)
                                /\ seen'.polls = IF flags.pads /\ seen.polls < 2 THEN seen.polls + 1 ELSE seen.polls
    BY <1>6, PadIs, Zenon DEF Base
  <2>3. irq /\ seen.polls = 0
    BY <1>2, <1>3, <2>1
  <2>4. /\ seen'.polls = IF flags.pads /\ Passed("pad")' THEN 1 ELSE 0
        /\ irq' = ~(flags.ackPad /\ Passed("pad")')
    BY <1>3, <1>4, <2>1, <2>2, <2>3
  <2>5. seen'.owns = IF Passed("own")' THEN 1 ELSE 0
    BY <1>2, <1>3, <2>1, <2>2
  <2>6. QED  BY <1>5, <2>2, <2>4, <2>5
<1>7. CASE ExcOwn
  <2>1. /\ chain[pos] = "own" /\ irq' = irq
        /\ seen' = [seen EXCEPT !.owns = IF @ < 2 THEN @ + 1 ELSE @]
    BY <1>7, Zenon DEF ExcOwn, irqs
  <2>2. /\ seen'.pads = seen.pads /\ seen'.own = seen.own /\ seen'.polls = seen.polls
        /\ seen'.evs = seen.evs /\ seen'.told = seen.told
        /\ seen'.owns = IF seen.owns < 2 THEN seen.owns + 1 ELSE seen.owns
    BY <1>4, <2>1 DEF SeenType
  <2>3. seen'.owns = IF Passed("own")' THEN 1 ELSE 0
    BY <1>2, <1>3, <2>1, <2>2
  <2>4. /\ seen'.polls = IF flags.pads /\ Passed("pad")' THEN 1 ELSE 0
        /\ irq' = ~(flags.ackPad /\ Passed("pad")')
    BY <1>2, <1>3, <2>1, <2>2
  <2>5. QED  BY <1>5, <2>2, <2>3, <2>4
<1>8. QED  BY <1>6, <1>7

(* The end of the chain: the pads and the entry of the program have seen   *)
(* what they were to see, and the interrupt is over, or the exit ends it.  *)
LEMMA SeenExit ==
  ASSUME Base, ~cut, IrqInv, SeenInv, ExcExit
  PROVE  SeenInv'
<1>1. /\ pc = "exc" /\ step = "chain" /\ pos > Len(chain) /\ UNCHANGED <<irq, chain, flags, seen, cut>>
      /\ \/ pc' = "hook" /\ step' = "none"
         \/ ~flags.hook /\ Resume(tcb[cur], irq)
  BY ZenonT(40) DEF ExcExit, irqs, truth
<1>2. /\ Owed /\ AllTold
      /\ seen.polls = IF flags.pads /\ Passed("pad") THEN 1 ELSE 0
      /\ seen.owns = IF Passed("own") THEN 1 ELSE 0
      /\ irq = ~(flags.ackPad /\ Passed("pad"))
  BY <1>1 DEF SeenInv
<1>3. (Passed("pad") <=> "pad" \in ToSet(chain)) /\ (Passed("own") <=> "own" \in ToSet(chain))
  BY <1>1, PassedIs DEF Base
<1>4. Over
  BY <1>2, <1>3 DEF Over, Owed
<1>5. Over'
  BY <1>1, <1>4 DEF Over, AllTold
<1>6. CASE pc' = "hook" /\ step' = "none"
  <2>1. ~Waits'
    BY <1>1, <1>2, <1>3, <1>6 DEF Waits
  <2>2. ~irq' => flags'.ackPad /\ "pad" \in ToSet(chain')
    BY <1>1, <1>2, <1>3
  <2>3. QED  BY <1>5, <1>6, <2>1, <2>2 DEF SeenInv
<1>7. CASE ~flags.hook /\ Resume(tcb[cur], irq)
  <2>1. flags.ackPad /\ "pad" \in ToSet(chain)
    BY <1>1, <1>7 DEF IrqInv, Acknowledged
  <2>2. ~irq'
    BY <1>1, <1>2, <1>3, <2>1
  <2>3. step' = "none" /\ pc' # "hook"
    BY <1>7, ResumeIs
  <2>4. QED  BY <1>5, <2>2, <2>3, SeenResume
<1>8. QED  BY <1>1, <1>6, <1>7

(* A vertical blank is seen once: the exception handler.                   *)
LEMMA SeenException ==
  ASSUME Base, ~cut, IrqInv, SeenInv, Exception
  PROVE  SeenInv'
<1>1. Kept(ev, ev)
  BY NoChange
<1>2. CASE TakeIrq
  <2>1. pc = "prog" /\ pc' = "vec" /\ UNCHANGED <<step, irq, chain, flags, seen, ev>>
    BY <1>2, Zenon DEF TakeIrq, host, irqs
  <2>2. Calm /\ CalmAfter
    BY <2>1 DEF Calm, CalmAfter, Base, PhaseInv
  <2>3. QED  BY <1>1, <2>1, <2>2, SeenCalm
<1>3. CASE Vector
  <2>1. pc = "vec" /\ pc' = "exc" /\ step' = "syscall" /\ UNCHANGED <<irq, chain, flags, seen, ev>>
    BY <1>3, Zenon DEF Vector, irqs
  <2>2. Calm /\ CalmAfter
    BY <2>1 DEF Calm, CalmAfter, Base, PhaseInv
  <2>3. QED  BY <1>1, <2>1, <2>2, SeenCalm
<1>4. CASE ExcSyscall
  <2>1. /\ pc = "exc" /\ step = "syscall" /\ UNCHANGED <<irq, chain, flags, seen, ev>>
    BY <1>4, SyscallIs, Zenon
  <2>2. CalmAfter
    <3>1. CASE cause = "irq" /\ step' = "vblank" /\ UNCHANGED <<pc, live, k0, cause, cur, tcb, pos>>
      BY <2>1, <3>1 DEF CalmAfter, IrqInv
    <3>2. CASE Resume(tcb'[cur'], irq)
      <4> DEFINE tc == tcb'[cur']
      <4>1. Resume(tc, irq)
        BY <3>2
      <4> HIDE DEF tc
      <4>2. step' = "none" /\ pc' # "hook"
        BY <4>1, ResumeIs
      <4>3. QED  BY <4>2 DEF CalmAfter, Calm
    <3>3. QED  BY <1>4, <3>1, <3>2, SyscallIs
  <2>3. Calm
    BY <2>1 DEF Calm
  <2>4. QED  BY <1>1, <2>1, <2>2, <2>3, SeenCalm
<1>5. CASE ExcVblank
  <2>1. pc = "exc" /\ step = "vblank" /\ UNCHANGED <<irq, chain, flags, seen>>
    BY <1>5, Zenon DEF ExcVblank, irqs
  <2>2. irq /\ flags.mask /\ NotPolled /\ Untold /\ Owed
    BY <2>1 DEF IrqInv, SeenInv, Waits
  <2>3. Deliver("vbl", 1, live)
    BY <1>5, <2>2, ZenonT(40) DEF ExcVblank
  <2>4. ToldBefore(1)
    <3>1. \A j \in Slots : ~(j < 1)
      BY Constants
    <3>2. QED  BY <2>1, <2>2, <3>1 DEF ToldBefore, Untold
  <2>5. NotPolled' /\ Owed' /\ seen' \in SeenType /\ live \in Contexts
    BY <2>1, <2>2 DEF NotPolled, Owed, Base, TypeInv
  <2>6. QED  BY <2>1, <2>3, <2>4, <2>5, SeenDeliver
<1>6. CASE ExcAck
  <2>1. /\ pc = "exc" /\ step = "vback" /\ UNCHANGED <<chain, flags, seen, cut>>
        /\ \/ flags.ackVbl /\ irq' = FALSE /\ Resume(tcb[cur], FALSE)
           \/ step' = "chain" /\ UNCHANGED <<pc, live, k0, cause, irq, pos>>
    BY <1>6, ZenonT(40) DEF ExcAck, truth, cpu
  <2>2. NotPolled /\ Owed /\ AllTold /\ irq
    BY <2>1 DEF SeenInv, IrqInv
  <2>3. CASE flags.ackVbl /\ irq' = FALSE /\ Resume(tcb[cur], FALSE)
    <3>1. Over'
      BY <2>1, <2>2, <2>3 DEF Over, NotPolled, Owed, AllTold
    <3>2. step' = "none" /\ pc' # "hook" /\ ~irq'
      BY <2>3, ResumeIs
    <3>3. QED  BY <3>1, <3>2, SeenResume
  <2>4. CASE step' = "chain" /\ UNCHANGED <<pc, live, k0, cause, irq, pos>>
    <3>1. ~Passed("pad") /\ ~Passed("own")
      BY <2>1, PassedIs DEF Base, PhaseInv
    <3>2. ~Passed("pad")' /\ ~Passed("own")'
      BY <2>1, <2>4, <3>1, Zenon DEF Passed
    <3>3. /\ seen'.polls = IF flags'.pads /\ Passed("pad")' THEN 1 ELSE 0
          /\ seen'.owns = IF Passed("own")' THEN 1 ELSE 0
          /\ irq' = ~(flags'.ackPad /\ Passed("pad")')
      <4>1. irq = TRUE
        BY <2>2 DEF Base, TypeInv
      <4>2. QED  BY <2>1, <2>2, <2>4, <3>2, <4>1 DEF NotPolled
    <3>4. Owed' /\ AllTold'
      BY <2>1, <2>2 DEF Owed, AllTold
    <3>5. ~Waits' /\ ~Rests' /\ pc' = "exc"
      BY <2>1, <2>4 DEF Waits, Rests
    <3>6. QED  BY <2>4, <3>3, <3>4, <3>5, Zenon DEF SeenInv
  <2>5. QED  BY <2>1, <2>3, <2>4
<1>7. CASE ExcPad \/ ExcOwn
  BY <1>7, SeenChain
<1>8. CASE ExcExit
  BY <1>8, SeenExit
<1>9. CASE HookExit
  <2> DEFINE pending == irq'
  <2>1. /\ pc = "hook" /\ irq' = (irq /\ flags.ackPad /\ "pad" \in ToSet(chain)) /\ Resume(tcb[cur], pending)
        /\ UNCHANGED <<chain, flags, ev, seen, cut>>
    BY <1>9, Zenon DEF HookExit, truth
  <2> HIDE DEF pending
  <2>2. step' = "none" /\ pc' # "hook"
    BY <2>1, ResumeIs
  <2>3. CASE irq /\ flags.ackPad /\ "pad" \in ToSet(chain)
    <3>1. NotPolled /\ Untold /\ Owed
      BY <2>1, <2>3 DEF SeenInv, Waits
    <3>2. NotPolled' /\ Untold' /\ Owed'
      BY <2>1, <3>1 DEF NotPolled, Untold, Owed
    <3>3. irq'
      BY <2>1, <2>3
    <3>4. QED  BY <2>2, <3>2, <3>3 DEF SeenInv, Rests
  <2>4. CASE ~(irq /\ flags.ackPad /\ "pad" \in ToSet(chain))
    <3>1. Over /\ ~irq'
      BY <2>1, <2>4 DEF SeenInv, Waits, Rests, Base, PhaseInv
    <3>2. Over'
      BY <2>1, <3>1 DEF Over, AllTold
    <3>3. QED  BY <2>2, <3>1, <3>2, SeenResume
  <2>5. QED  BY <2>3, <2>4
<1>10. QED  BY <1>2, <1>3, <1>4, <1>5, <1>6, <1>7, <1>8, <1>9, Zenon DEF Exception

(* A handler that the exception handler has run is counted.                *)
LEMMA ToldIs ==
  ASSUME Told, step = "vblank", seen \in SeenType, NEW n \in Slots, n = del.next - 1
  PROVE  /\ seen' \in SeenType /\ seen'.pads = seen.pads /\ seen'.own = seen.own
         /\ seen'.polls = seen.polls /\ seen'.owns = seen.owns /\ seen'.evs = seen.evs
         /\ seen.told[n] = 0 => seen'.told[n] = 1
         /\ \A j \in Slots \ {n} : seen'.told[j] = seen.told[j]
<1>1. seen' = [seen EXCEPT !.told[n] = IF seen.told[n] < 2 THEN seen.told[n] + 1 ELSE seen.told[n]]
  BY Zenon DEF Told
<1>2. seen.told \in [Slots -> 0 .. 2] /\ seen.told[n] \in 0 .. 2
  BY DEF SeenType
<1> DEFINE k == IF seen.told[n] < 2 THEN seen.told[n] + 1 ELSE seen.told[n]
<1>3. k \in 0 .. 2 /\ (seen.told[n] = 0 => k = 1)
  BY <1>2
<1>4. seen' = [seen EXCEPT !.told = [seen.told EXCEPT ![n] = k]]
  BY <1>1
<1> HIDE DEF k
<1>5. [seen.told EXCEPT ![n] = k] \in [Slots -> 0 .. 2]
  BY <1>2, <1>3
<1>6. /\ [seen.told EXCEPT ![n] = k][n] = k
      /\ \A j \in Slots \ {n} : [seen.told EXCEPT ![n] = k][j] = seen.told[j]
  BY <1>2
<1> DEFINE t == [seen.told EXCEPT ![n] = k]
<1> HIDE DEF t
<1>7. seen' = [seen EXCEPT !.told = t] /\ t \in [Slots -> 0 .. 2]
  BY <1>4, <1>5 DEF t
<1>8. /\ seen' \in SeenType /\ seen'.pads = seen.pads /\ seen'.own = seen.own /\ seen'.told = t
      /\ seen'.polls = seen.polls /\ seen'.owns = seen.owns /\ seen'.evs = seen.evs
  BY <1>7 DEF SeenType
<1>9. QED  BY <1>3, <1>6, <1>8 DEF t

(* A vertical blank is seen once: the handlers of events.                  *)
LEMMA SeenHandler ==
  ASSUME Base, ~cut, ~cut', IrqInv, SeenInv, Handler
  PROVE  SeenInv'
<1>1. seen \in SeenType /\ live \in Contexts /\ del \in [class : Classes, next : Nat, m : BOOLEAN]
  BY DEF Base, TypeInv
<1>2. CASE HandlerCall
  <2>1. EventCall /\ UNCHANGED <<pc, irq, chain, flags, step, pos, del, cut>>
    BY <1>2, Zenon DEF HandlerCall, cpu, host, irqs, truth
  <2>2. EventsKept
    BY <2>1, EventCallIs DEF Base
  <2>3. QED  BY <2>1, <2>2, SeenEvents
<1>3. CASE HandlerSub
  <2>1. pc = "handler" /\ pc' = "sub" /\ UNCHANGED <<step, pos, del, irq, chain, flags, ev, seen, cut>>
    BY <1>3, Zenon DEF HandlerSub, host, irqs, truth
  <2>2. step \in {"none", "vblank"}
    BY <2>1 DEF Base, PhaseInv
  <2>3. CASE step = "none"
    <3>1. Calm /\ CalmAfter /\ Kept(ev, ev')
      BY <2>1, <2>3, NoChange DEF Calm, CalmAfter
    <3>2. QED  BY <2>1, <3>1, SeenCalm
  <2>4. CASE step = "vblank"
    <3>1. del.class = "vbl" /\ del.next - 1 \in Slots /\ NotPolled /\ Owed /\ ToldUpTo(del.next - 1)
      BY <2>1, <2>4 DEF SeenInv
    <3>2. NotPolled' /\ Owed' /\ ToldUpTo(del.next - 1)'
      BY <2>1, <3>1 DEF NotPolled, Owed, ToldUpTo
    <3>3. ~Waits' /\ ~Rests'
      BY <2>1, <2>4 DEF Waits, Rests
    <3>4. QED  BY <2>1, <2>4, <3>1, <3>2, <3>3 DEF SeenInv
  <2>5. QED  BY <2>2, <2>3, <2>4
<1>4. CASE HandlerReturn \/ HandlerLeave
  <2> DEFINE sr == Restored(live, del.m)
  <2>1. /\ pc \in {"handler", "sub"} /\ Deliver(del.class, del.next, sr) /\ Told
        /\ UNCHANGED <<irq, chain, flags>>
    BY <1>4, Zenon DEF HandlerReturn, HandlerLeave, irqs
  <2>2. sr \in Contexts /\ del.class \in Classes /\ del.next \in Nat
    BY <1>1, RestoredIs
  <2> HIDE DEF sr
  <2>3. step \in {"none", "vblank"}
    BY <2>1 DEF Base, PhaseInv
  <2>4. CASE step = "none"
    <3>1. seen' = seen
      BY <2>1, <2>4, Zenon DEF Told
    <3>2. Stops(del.class, del.next, sr) \/ Ends(del.class, del.next, sr)
      BY <2>1, <2>2, DeliverIs, Zenon DEF Base, TypeInv
    <3>3. Kept(ev, ev') /\ step' = "none" /\ pc' \in {"handler", "prog"}
      <4>1. Kept(ev, ev')
        BY <2>1, <2>2, DeliverIs, Zenon DEF Base, TypeInv
      <4>2. CASE Stops(del.class, del.next, sr)
        BY <2>4, <4>1, <4>2 DEF Stops
      <4>3. CASE Ends(del.class, del.next, sr)
        BY <2>4, <4>1, <4>3 DEF Ends
      <4>4. QED  BY <3>2, <4>2, <4>3
    <3>4. Calm /\ CalmAfter
      BY <2>1, <2>4, <3>3 DEF Calm, CalmAfter
    <3>5. QED  BY <2>1, <3>1, <3>3, <3>4, SeenCalm
  <2>5. CASE step = "vblank"
    <3>1. del.class = "vbl" /\ del.next - 1 \in Slots /\ NotPolled /\ Owed /\ ToldUpTo(del.next - 1)
      BY <2>1, <2>5 DEF SeenInv
    <3> DEFINE n == del.next - 1
    <3>2. n \in Slots /\ n \in Nat /\ del.next = n + 1 /\ ToldUpTo(n) /\ Slots \subseteq Nat
      BY <2>2, <3>1, Constants
    <3>3. /\ seen' \in SeenType /\ seen'.pads = seen.pads /\ seen'.own = seen.own
          /\ seen'.polls = seen.polls /\ seen'.owns = seen.owns /\ seen'.evs = seen.evs
          /\ seen.told[n] = 0 => seen'.told[n] = 1
          /\ \A j \in Slots \ {n} : seen'.told[j] = seen.told[j]
      <4>1. n \in Slots /\ n = del.next - 1
        BY <3>2
      <4> HIDE DEF n
      <4>2. QED  BY <1>1, <2>1, <2>5, <4>1, ToldIs
    <3> HIDE DEF n
    <3>4. ToldBefore(del.next)
      <4> SUFFICES ASSUME NEW j \in Slots
                   PROVE  /\ j < n + 1 => seen'.told[j] < 2 /\ (j \in seen'.evs => seen'.told[j] = 1)
                          /\ j >= n + 1 => seen'.told[j] = 0 /\ (j \in seen'.evs => OfVblank(ev[j]))
        BY <3>2 DEF ToldBefore
      <4>1. /\ j < n => seen.told[j] < 2 /\ (j \in seen.evs => seen.told[j] = 1)
            /\ j >= n => seen.told[j] = 0 /\ (j \in seen.evs => OfVblank(ev[j]))
        BY <3>2 DEF ToldUpTo
      <4>2. j \in Nat /\ n \in Nat
        BY <3>2
      <4>3. CASE j = n
        BY <3>3, <4>1, <4>2, <4>3
      <4>4. CASE j # n
        BY <3>3, <4>1, <4>2, <4>4
      <4>5. QED  BY <4>3, <4>4
    <3>5. NotPolled' /\ Owed'
      BY <2>1, <3>1, <3>3 DEF NotPolled, Owed
    <3>6. Deliver("vbl", del.next, sr)
      BY <2>1, <3>1
    <3>7. QED  BY <2>2, <2>5, <3>3, <3>4, <3>5, <3>6, SeenDeliver
  <2>6. QED  BY <2>3, <2>4, <2>5
<1>5. CASE HandlerCut
  BY <1>5, Zenon DEF HandlerCut
<1>6. QED  BY <1>2, <1>3, <1>4, <1>5, Zenon DEF Handler

(* Steps of the program that touch nothing of the vertical blank.          *)
LEMMA SeenProgram ==
  ASSUME Base, ~cut, SeenInv, pc = "prog", step' = "none", pc' # "hook", Kept(ev, ev'),
         UNCHANGED <<irq, chain, flags, seen>>
  PROVE  SeenInv'
<1>1. Calm /\ CalmAfter
  BY DEF Calm, CalmAfter, Base, PhaseInv
<1>2. QED  BY <1>1, SeenCalm

(* A call that changes who acknowledges takes the pads and the entry of    *)
(* the program out of the account, or starts afresh.                       *)
LEMMA SeenConfigures ==
  ASSUME Base, ~cut, SeenInv, Configures
  PROVE  SeenInv'
<1>1. Configured
  BY ConfiguresIs DEF Base
<1>2. pc = "prog" /\ UNCHANGED <<pc, step, ev>>
  BY <1>1, Zenon DEF Configured, Program
<1>3. step = "none" /\ seen \in SeenType
  BY <1>2 DEF Base, PhaseInv, TypeInv
<1>4. CASE Forget /\ UNCHANGED irq
  <2>1. /\ ~seen'.pads /\ ~seen'.own /\ seen'.polls = seen.polls /\ seen'.owns = seen.owns
        /\ seen'.evs = seen.evs /\ seen'.told = seen.told
    BY <1>3, <1>4, ForgetIs
  <2>2. CASE irq
    <3>1. NotPolled /\ Untold
      BY <1>2, <1>3, <2>2 DEF SeenInv, Waits
    <3>2. NotPolled' /\ Untold' /\ Owed'
      BY <1>2, <2>1, <3>1 DEF NotPolled, Untold, Owed
    <3>3. ~Rests' /\ step' = "none" /\ pc' = "prog"
      BY <1>2, <1>3, <1>4, <2>2 DEF Rests
    <3>4. QED  BY <3>2, <3>3 DEF SeenInv
  <2>3. CASE ~irq
    <3>1. Over
      BY <1>2, <1>3, <2>3 DEF SeenInv, Rests
    <3>2. Over'
      BY <2>1, <3>1 DEF Over, AllTold
    <3>3. QED  BY <1>2, <1>3, <1>4, <2>3, <3>2, SeenResume
  <2>4. QED  BY <2>2, <2>3
<1>5. CASE seen' = Unseen /\ irq' = FALSE
  <2>1. Over'
    BY <1>5, UnseenIs DEF Over, AllTold
  <2>2. QED  BY <1>2, <1>3, <1>5, <2>1, SeenResume
<1>6. QED  BY <1>1, <1>4, <1>5 DEF Configured

(* A vertical blank: nobody has seen it, and those who are to see it will. *)
LEMMA SeenVblank ==
  ASSUME Base, ~cut, IrqInv, SeenInv, Vblank
  PROVE  SeenInv'
<1> DEFINE left == ~flags.ackVbl
           evs == {i \in Slots : ev[i].status = "active" /\ ev[i].class = "vbl" /\ ev[i].mode = "call"}
<1>1. /\ ~irq /\ irq' = TRUE /\ pc \in {"prog", "handler", "sub", "hook"}
      /\ UNCHANGED <<pc, step, chain, flags, ev, cut>>
      /\ seen' = [pads |-> left /\ flags.pads /\ "pad" \in ToSet(chain), polls |-> 0,
                  own |-> left /\ "own" \in ToSet(chain), owns |-> 0,
                  evs |-> evs, told |-> [i \in Slots |-> 0]]
  BY Zenon DEF Vblank, cpu, host, truth
<1>2. NotPolled' /\ Owed'
  BY <1>1 DEF NotPolled, Owed
<1>3. Untold'
  <2>1. seen'.evs = evs /\ \A i \in Slots : seen'.told[i] = 0
    BY <1>1
  <2>2. \A i \in evs : OfVblank(ev'[i])
    BY <1>1 DEF OfVblank
  <2>3. QED  BY <2>1, <2>2 DEF Untold
<1>4. step = "none"
  <2>1. step \in {"none", "vblank"}
    BY <1>1 DEF Base, PhaseInv
  <2>2. step # "vblank"
    BY <1>1 DEF IrqInv
  <2>3. QED  BY <2>1, <2>2
<1>5. ~Rests'
  <2>1. pc = "hook" => flags.ackPad /\ "pad" \in ToSet(chain)
    BY <1>1 DEF SeenInv
  <2>2. QED  BY <1>1, <1>4, <2>1 DEF Rests, Waits
<1>6. QED  BY <1>1, <1>2, <1>3, <1>4, <1>5 DEF SeenInv

(* A vertical blank is seen once: the program.                             *)
LEMMA SeenMain ==
  ASSUME Base, ~cut, SeenInv, Main
  PROVE  SeenInv'
<1>1. pc = "prog" /\ step = "none" /\ Kept(ev, ev) /\ ev \in [Slots -> Entries]
  <2>1. pc = "prog"
    <3>1. CASE Configures
      BY <3>1, ConfiguresIs, Zenon DEF Base, Configured, Program
    <3>2. CASE ~Configures
      BY <3>2, ZenonT(60) DEF Main, Configures, Goto, Leave, Trap, OpenTh, CloseTh, ChangeTh, CallEvent,
         DeliverEvent, CallCard, Call, Program
    <3>3. QED  BY <3>1, <3>2
  <2>2. QED  BY <2>1, NoChange DEF Base, PhaseInv, TypeInv
<1>2. CASE Goto \/ Leave \/ CloseTh \/ ChangeTh
  <2>1. UNCHANGED <<pc, step, irq, chain, flags, seen, ev>>
    BY <1>2, ZenonT(40) DEF Goto, Leave, CloseTh, ChangeTh, cpu, host, irqs
  <2>2. QED  BY <1>1, <2>1, SeenProgram
<1>3. CASE Trap
  <2>1. pc' = "vec" /\ UNCHANGED <<step, irq, chain, flags, seen, ev>>
    BY <1>3, TrapIs, Zenon
  <2>2. QED  BY <1>1, <2>1, SeenProgram
<1>4. CASE OpenTh
  <2>1. UNCHANGED <<pc, step, irq, chain, flags, seen, ev>>
    BY <1>4, OpenThIs, Zenon
  <2>2. QED  BY <1>1, <2>1, SeenProgram
<1>5. CASE CallEvent
  <2>1. EventCall /\ UNCHANGED <<pc, irq, chain, flags, step, pos, del, cut>>
    BY <1>5, Zenon DEF CallEvent, cpu, host, irqs, truth
  <2>2. EventsKept
    BY <2>1, EventCallIs DEF Base
  <2>3. QED  BY <2>1, <2>2, SeenEvents
<1>6. CASE DeliverEvent
  <2>1. Deliver("own", 1, live) /\ UNCHANGED <<irq, chain, flags, seen>>
    BY <1>6, Zenon DEF DeliverEvent, irqs
  <2>2. "own" \in Classes /\ live \in Contexts
    BY DEF Base, TypeInv, Classes
  <2>3. Kept(ev, ev') /\ (Stops("own", 1, live) \/ Ends("own", 1, live))
    BY <1>1, <2>1, <2>2, DeliverIs
  <2>4. step' = "none" /\ pc' \in {"handler", "prog"}
    <3>1. CASE Stops("own", 1, live)
      BY <1>1, <3>1 DEF Stops
    <3>2. CASE Ends("own", 1, live)
      BY <1>1, <3>2 DEF Ends
    <3>3. QED  BY <2>3, <3>1, <3>2
  <2>5. QED  BY <1>1, <2>1, <2>3, <2>4, SeenProgram
<1>7. CASE Configures
  BY <1>7, SeenConfigures
<1>8. CASE CallCard
  <2>1. /\ UNCHANGED <<pc, step, irq, chain, flags, seen>>
        /\ ev' = ev \/ ev' = Undelivered(ev, {"card4", "card2000"})
    BY <1>8, ZenonT(60) DEF CallCard, CardFile, CardSector, CardInfo, CardLoadDir, Asked, cpu, host, irqs
  <2>2. Kept(ev, ev')
    BY <1>1, <2>1, UndeliveredKeeps
  <2>3. QED  BY <1>1, <2>1, <2>2, SeenProgram
<1>9. QED  BY <1>2, <1>3, <1>4, <1>5, <1>6, <1>7, <1>8, Zenon DEF Main, Configures

(* A vertical blank is seen once: every step.                              *)
LEMMA SeenStep ==
  ASSUME Base, IrqInv, SeenInv, [Next]_vars
  PROVE  IrqInv' /\ SeenInv'
<1>1. CASE UNCHANGED vars
  <2>1. UNCHANGED <<pc, irq, chain, flags, step, pos, del, cut, cause, ev, seen>>
    BY <1>1 DEF vars
  <2>2. IrqInv'
    BY <2>1, IrqSame
  <2>3. SeenInv'
    <3>1. EventsKept
      BY <2>1 DEF EventsKept, Watched, Base, TypeInv
    <3>2. QED  BY <2>1, <3>1, SeenEvents
  <2>4. QED  BY <2>2, <2>3
<1>2. CASE Next
  <2>1. IrqInv'
    BY <1>2, IrqStep
  <2>2. CASE cut'
    BY <2>1, <2>2 DEF SeenInv
  <2>3. CASE ~cut'
    <3>1. ~cut
      BY <2>3, CutStays
    <3>2. QED
      BY <1>2, <2>1, <2>3, <3>1, SeenException, SeenHandler, SeenMain, SeenVblank, Zenon DEF Next
  <2>4. QED  BY <2>2, <2>3
<1>3. QED  BY <1>1, <1>2

(* The invariant is strong enough.                                         *)
LEMMA SeenOnce ==
  ASSUME Base, IrqInv, SeenInv
  PROVE  VblankOnce
<1> SUFFICES ASSUME ~cut
             PROVE  /\ seen.polls < 2 /\ seen.owns < 2 /\ \A i \in Slots : seen.told[i] < 2
                    /\ ~irq /\ step = "none" => /\ seen.pads => seen.polls = 1
                                                /\ seen.own => seen.owns = 1
                                                /\ \A i \in seen.evs : seen.told[i] = 1
  BY DEF VblankOnce
<1>1. seen.evs \subseteq Slots /\ Slots \subseteq Nat
  BY Constants DEF Base, TypeInv, SeenType
<1>2. CASE Waits
  <2>1. NotPolled /\ Untold /\ irq
    BY <1>2 DEF SeenInv, Waits
  <2>2. QED  BY <2>1 DEF NotPolled, Untold
<1>3. CASE Rests
  <2>1. Over
    BY <1>3 DEF SeenInv
  <2>2. QED  BY <1>1, <2>1 DEF Over, AllTold
<1>4. CASE pc \in {"handler", "sub"} /\ step = "vblank"
  <2>1. NotPolled /\ ToldUpTo(del.next - 1) /\ del.next - 1 \in Slots
    BY <1>4 DEF SeenInv
  <2>2. \A i \in Slots : seen.told[i] < 2
    <3> SUFFICES ASSUME NEW i \in Slots PROVE seen.told[i] < 2
      OBVIOUS
    <3>1. i \in Nat /\ del.next - 1 \in Nat
      BY <1>1, <2>1
    <3>2. QED  BY <2>1, <3>1 DEF ToldUpTo
  <2>3. QED  BY <1>4, <2>1, <2>2 DEF NotPolled
<1>5. CASE step = "vback"
  BY <1>5 DEF SeenInv, NotPolled, AllTold
<1>6. CASE step = "chain"
  BY <1>6 DEF SeenInv, AllTold
<1>7. Waits \/ Rests \/ (pc \in {"handler", "sub"} /\ step = "vblank") \/ step = "vback" \/ step = "chain"
  <2>1. step \in {"none", "syscall", "vblank", "vback", "chain"}
        /\ pc \in {"prog", "vec", "exc", "handler", "sub", "hook"}
    BY DEF Base, TypeInv
  <2>2. step = "vblank" => irq /\ pc \in {"exc", "handler", "sub"}
    BY <2>1 DEF Base, PhaseInv, IrqInv
  <2>3. pc = "hook" => Waits \/ Rests
    BY DEF Rests
  <2>4. QED  BY <2>1, <2>2, <2>3 DEF Waits, Rests
<1>8. QED  BY <1>2, <1>3, <1>4, <1>5, <1>6, <1>7

(* Before its interrupt is over, a vertical blank has been seen by the     *)
(* pads, by the entry of the program and by every handler that concerns    *)
(* it, and by none of them twice, whoever acknowledges it.                 *)
THEOREM VblankIsSeenOnce == Spec => []VblankOnce
<1>1. Init => Base /\ IrqInv /\ SeenInv
  BY BaseInit, IrqInit, SeenInit
<1>2. Base /\ IrqInv /\ SeenInv /\ [Next]_vars => (Base /\ IrqInv /\ SeenInv)'
  BY BaseStep, SeenStep
<1>3. Base /\ IrqInv /\ SeenInv => VblankOnce
  BY SeenOnce
<1>4. QED  BY <1>1, <1>2, <1>3, PTL DEF Spec

-----------------------------------------------------------------------------
(* The cards                                                               *)

(* The cards are idle at the start.                                        *)
LEMMA CardInit ==
  ASSUME Init
  PROVE  CardInv
<1>1. /\ card = [achan |-> 0, handler |-> "none", left |-> 0, delay |-> 0,
                 stat |-> [p \in {0, 1} |-> "idle"], hlvl |-> [p \in {0, 1} |-> "none"],
                 fresh |-> [p \in {0, 1} |-> TRUE]]
      /\ asked = [p \in {0, 1} |-> "none"]
  BY Zenon DEF Init
<1>2. Ports \subseteq {0, 1}
  BY Constants
<1>3. card \in CardType
  BY <1>1 DEF CardType
<1>4. \A p \in {0, 1} : card.stat[p] = "idle" /\ card.hlvl[p] = "none"
  BY <1>1
<1>5. QED  BY <1>1, <1>2, <1>3, <1>4 DEF CardInv

(* The words of the cards after the interrupt has gone on with port p, and *)
(* after the operation of port p is over.                                  *)
LEMMA CardNowIs ==
  ASSUME NEW c \in CardType, NEW p \in {0, 1}, NEW n \in Int
  PROVE  /\ [c EXCEPT !.achan = p] \in CardType /\ [c EXCEPT !.achan = p].stat = c.stat
         /\ [c EXCEPT !.achan = p].hlvl = c.hlvl /\ [c EXCEPT !.achan = p].handler = c.handler
         /\ [c EXCEPT !.achan = p].left = c.left /\ [c EXCEPT !.achan = p].fresh = c.fresh
         /\ [c EXCEPT !.left = n] \in CardType /\ [c EXCEPT !.left = n].stat = c.stat
         /\ [c EXCEPT !.left = n].hlvl = c.hlvl /\ [c EXCEPT !.left = n].handler = c.handler
         /\ [c EXCEPT !.delay = n] \in CardType /\ [c EXCEPT !.delay = n].stat = c.stat
         /\ [c EXCEPT !.delay = n].hlvl = c.hlvl /\ [c EXCEPT !.delay = n].handler = c.handler
BY DEF CardType

(* The words of the cards when the operation of port p is over.            *)
LEMMA FinishedIs ==
  ASSUME NEW c \in CardType, NEW p \in {0, 1}
  PROVE  /\ Finished(p, c) \in CardType /\ Finished(p, c).handler = c.handler
         /\ Finished(p, c).stat = [c.stat EXCEPT ![p] = "idle"]
         /\ Finished(p, c).hlvl = [c.hlvl EXCEPT ![p] = "none"]
<1> DEFINE s == [c.stat EXCEPT ![p] = "idle"]
           h == [c.hlvl EXCEPT ![p] = "none"]
<1>1. /\ s \in [{0, 1} -> {"idle", "info", "read", "write"}]
      /\ h \in [{0, 1} -> {"none", "info", "read", "write", "load_dir"}]
  BY DEF CardType
<1>2. Finished(p, c) = [c EXCEPT !.hlvl = h, !.stat = s]
  BY Zenon DEF Finished
<1> HIDE DEF s, h
<1>3. /\ [c EXCEPT !.hlvl = h, !.stat = s] \in CardType /\ [c EXCEPT !.hlvl = h, !.stat = s].handler = c.handler
      /\ [c EXCEPT !.hlvl = h, !.stat = s].stat = s /\ [c EXCEPT !.hlvl = h, !.stat = s].hlvl = h
  BY <1>1 DEF CardType
<1>4. QED  BY <1>2, <1>3 DEF s, h

(* card_vint_handler waits, finds nothing to do, has a block left to go,   *)
(* or ends the operation of a port and tells what became of it.            *)
Ended(p) ==
  /\ card.stat[p] # "idle" /\ asked' = [asked EXCEPT ![p] = "none"]
  /\ card' \in CardType /\ card'.handler = card.handler
  /\ card'.stat = [card.stat EXCEPT ![p] = "idle"] /\ card'.hlvl = [card.hlvl EXCEPT ![p] = "none"]
  /\ IF card.handler = "info"
     THEN answer' = [file |-> TRUE, spec |-> IF card.fresh[p] THEN "new" ELSE "done"]
     ELSE answer' = [file |-> card.hlvl[p] # "none", spec |-> "done"]
GoesOn ==
  /\ card' \in CardType /\ card'.handler = card.handler /\ card'.stat = card.stat /\ card'.hlvl = card.hlvl
  /\ asked' = asked
LEMMA VintIs ==
  ASSUME card \in CardType, CardVint
  PROVE  GoesOn \/ \E p \in {0, 1} : Ended(p)
<1> DEFINE p == CardPort
           now == [card EXCEPT !.achan = p]
<1>1. p \in {0, 1} /\ card.left \in Int /\ card.delay \in Int
  BY DEF CardPort, CardType
<1>2. CASE card.delay > 0
  <2>1. card' = [card EXCEPT !.delay = @ - 1] /\ asked' = asked
    BY <1>2, ZenonT(40) DEF CardVint
  <2>2. card.delay - 1 \in Int
    BY <1>1
  <2>3. QED  BY <2>1, <2>2, <1>1, CardNowIs DEF GoesOn
<1>3. CASE ~ (card.delay > 0) /\ card.stat[p] = "idle"
  <2>1. card' = card /\ asked' = asked
    BY <1>3, ZenonT(40) DEF CardVint
  <2>2. QED  BY <2>1 DEF GoesOn
<1>4. CASE ~ (card.delay > 0) /\ card.stat[p] # "idle" /\ card.handler = "info"
  <2>1. /\ card' = Finished(p, now) /\ asked' = [asked EXCEPT ![p] = "none"]
        /\ answer' = [file |-> TRUE, spec |-> IF card.fresh[p] THEN "new" ELSE "done"]
    BY <1>4, ZenonT(40) DEF CardVint
  <2> HIDE DEF p
  <2>2. now \in CardType /\ now.stat = card.stat /\ now.hlvl = card.hlvl /\ now.handler = card.handler
    BY <1>1, CardNowIs
  <2> HIDE DEF now
  <2>3. Ended(p)
    BY <1>1, <1>4, <2>1, <2>2, FinishedIs DEF Ended
  <2>4. QED  BY <1>1, <2>3
<1>5. CASE ~ (card.delay > 0) /\ card.stat[p] # "idle" /\ card.handler # "info" /\ card.left <= 1
  <2> DEFINE last == [now EXCEPT !.left = 0]
  <2>1. /\ card' = Finished(p, last) /\ asked' = [asked EXCEPT ![p] = "none"]
        /\ answer' = [file |-> card.hlvl[p] # "none", spec |-> "done"]
    BY <1>5, ZenonT(40) DEF CardVint
  <2> HIDE DEF p
  <2>2. now \in CardType /\ now.stat = card.stat /\ now.hlvl = card.hlvl /\ now.handler = card.handler
    BY <1>1, CardNowIs
  <2> HIDE DEF now
  <2>3. last \in CardType /\ last.stat = card.stat /\ last.hlvl = card.hlvl /\ last.handler = card.handler
    <3>1. 0 \in Int
      OBVIOUS
    <3>2. QED  BY <1>1, <2>2, <3>1, CardNowIs, Zenon
  <2> HIDE DEF last
  <2>4. Ended(p)
    BY <1>1, <1>5, <2>1, <2>3, FinishedIs DEF Ended
  <2>5. QED  BY <1>1, <2>4
<1>6. CASE ~ (card.delay > 0) /\ card.stat[p] # "idle" /\ card.handler # "info" /\ ~ (card.left <= 1)
  <2>1. card' = [now EXCEPT !.left = @ - 1] /\ asked' = asked
    BY <1>6, ZenonT(40) DEF CardVint
  <2> HIDE DEF p
  <2>2. /\ now \in CardType /\ now.stat = card.stat /\ now.hlvl = card.hlvl /\ now.handler = card.handler
        /\ now.left = card.left
    BY <1>1, CardNowIs
  <2> HIDE DEF now
  <2>3. now.left - 1 \in Int
    BY <1>1, <2>2
  <2>4. QED  BY <1>1, <2>1, <2>2, <2>3, CardNowIs DEF GoesOn
<1>7. QED  BY <1>2, <1>3, <1>4, <1>5, <1>6

(* With one card, the end of an operation is told from the words of that   *)
(* operation.                                                              *)
LEMMA EndedTells ==
  ASSUME CardInv, NEW q, Ports \subseteq {q}, NEW p \in {0, 1}, Ended(p)
  PROVE  /\ CardInv' /\ p \in Ports /\ \A r \in Ports : r = p
         /\ asked[p] # "none" /\ answer'.file = (asked[p] # "sector")
         /\ answer'.spec = IF asked[p] = "info" /\ card.fresh[p] THEN "new" ELSE "done"
<1>1. p \in Ports /\ Ports \subseteq {0, 1} /\ \A r \in Ports : r = p
  BY Constants DEF CardInv, Ended
<1>2. /\ asked[p] # "none"
      /\ card.handler = "info" <=> asked[p] = "info"
      /\ card.hlvl[p] = "none" <=> asked[p] = "sector"
  BY <1>1 DEF CardInv, Ended
<1>3. card.stat \in [{0, 1} -> {"idle", "info", "read", "write"}]
      /\ card.hlvl \in [{0, 1} -> {"none", "info", "read", "write", "load_dir"}]
  BY DEF CardInv, CardType
<1>4. /\ card'.stat[p] = "idle" /\ card'.hlvl[p] = "none"
      /\ \A r \in {0, 1} \ Ports : card'.stat[r] = "idle"
  BY <1>1, <1>3 DEF Ended, CardInv
<1>5. asked' \in [{0, 1} -> {"none", "file", "info", "sector"}] /\ card' \in CardType
  BY DEF Ended, CardInv
<1>6. CardInv'
  BY <1>1, <1>4, <1>5 DEF CardInv
<1>7. answer'.file = (asked[p] # "sector")
  <2>1. CASE card.handler = "info"
    <3>1. answer'.file = TRUE
      BY <2>1 DEF Ended
    <3>2. QED  BY <1>2, <2>1, <3>1
  <2>2. CASE card.handler # "info"
    <3>1. answer'.file = (card.hlvl[p] # "none")
      BY <2>2 DEF Ended
    <3>2. QED  BY <1>2, <3>1
  <2>3. QED  BY <2>1, <2>2
<1>8. answer'.spec = IF asked[p] = "info" /\ card.fresh[p] THEN "new" ELSE "done"
  BY <1>2 DEF Ended
<1>9. QED  BY <1>1, <1>2, <1>6, <1>7, <1>8

(* The calls for cards: the words are those of the operation.              *)
Begins(p) ==
  /\ card.stat[p] = "idle"
  /\ card' \in CardType
  /\ \E s \in {"info", "read", "write"} : card'.stat = [card.stat EXCEPT ![p] = s]
  /\ \/ /\ asked' = [asked EXCEPT ![p] = "file"] /\ card'.handler # "info"
        /\ \E w \in {"read", "write", "load_dir"} : card'.hlvl = [card.hlvl EXCEPT ![p] = w]
     \/ /\ asked' = [asked EXCEPT ![p] = "info"] /\ card'.handler = "info"
        /\ card'.hlvl = [card.hlvl EXCEPT ![p] = "info"]
     \/ asked' = [asked EXCEPT ![p] = "sector"] /\ card'.handler # "info" /\ card'.hlvl = card.hlvl
(* A file is read or written.                                              *)
LEMMA FileIs ==
  ASSUME card \in CardType, NEW p \in {0, 1},
         NEW w \in {"read", "write"}, NEW n \in Int, NEW m \in Int, NEW b \in BOOLEAN,
         card' = [card EXCEPT !.achan = p, !.hlvl[p] = w, !.stat[p] = w, !.left = n, !.handler = w,
                               !.delay = m, !.fresh[p] = b]
  PROVE  /\ card' \in CardType /\ card'.handler = w /\ card'.stat = [card.stat EXCEPT ![p] = w]
         /\ card'.hlvl = [card.hlvl EXCEPT ![p] = w]
<1> DEFINE st == [card.stat EXCEPT ![p] = w]
           hl == [card.hlvl EXCEPT ![p] = w]
           fr == [card.fresh EXCEPT ![p] = b]
<1>1. card' = [card EXCEPT !.achan = p, !.hlvl = hl, !.stat = st, !.left = n, !.handler = w,
                             !.delay = m, !.fresh = fr]
  BY Zenon
<1>2. /\ st \in [{0, 1} -> {"idle", "info", "read", "write"}]
      /\ hl \in [{0, 1} -> {"none", "info", "read", "write", "load_dir"}]
      /\ fr \in [{0, 1} -> BOOLEAN]
  BY DEF CardType
<1> HIDE DEF st, hl, fr
<1>3. card' \in CardType /\ card'.handler = w /\ card'.stat = st /\ card'.hlvl = hl
  BY <1>1, <1>2 DEF CardType
<1>4. QED  BY <1>3 DEF st, hl

(* A sector is read or written.                                            *)
LEMMA SectorIs ==
  ASSUME card \in CardType, NEW p \in {0, 1}, NEW w \in {"read", "write"}, NEW b \in BOOLEAN, NEW n \in Int,
         card' = [card EXCEPT !.achan = p, !.stat[p] = w, !.left = n, !.handler = w, !.fresh[p] = b]
  PROVE  /\ card' \in CardType /\ card'.handler = w /\ card'.stat = [card.stat EXCEPT ![p] = w]
         /\ card'.hlvl = card.hlvl
<1> DEFINE st == [card.stat EXCEPT ![p] = w]
           fr == [card.fresh EXCEPT ![p] = b]
<1>1. card' = [card EXCEPT !.achan = p, !.stat = st, !.left = n, !.handler = w, !.fresh = fr]
  BY Zenon
<1>2. /\ st \in [{0, 1} -> {"idle", "info", "read", "write"}]
      /\ fr \in [{0, 1} -> BOOLEAN]
  BY DEF CardType
<1> HIDE DEF st, fr
<1>3. card' \in CardType /\ card'.handler = w /\ card'.stat = st /\ card'.hlvl = card.hlvl
  BY <1>1, <1>2 DEF CardType
<1>4. QED  BY <1>3 DEF st

(* It is asked whether a card is new.                                      *)
LEMMA InfoIs ==
  ASSUME card \in CardType, NEW p \in {0, 1},
         card' = [card EXCEPT !.achan = p, !.hlvl[p] = "info", !.stat[p] = "info", !.handler = "info"]
  PROVE  /\ card' \in CardType /\ card'.handler = "info" /\ card'.stat = [card.stat EXCEPT ![p] = "info"]
         /\ card'.hlvl = [card.hlvl EXCEPT ![p] = "info"]
<1> DEFINE st == [card.stat EXCEPT ![p] = "info"]
           hl == [card.hlvl EXCEPT ![p] = "info"]
<1>1. card' = [card EXCEPT !.achan = p, !.hlvl = hl, !.stat = st, !.handler = "info"]
  BY Zenon
<1>2. /\ st \in [{0, 1} -> {"idle", "info", "read", "write"}]
      /\ hl \in [{0, 1} -> {"none", "info", "read", "write", "load_dir"}]
  BY DEF CardType
<1> HIDE DEF st, hl
<1>3. card' \in CardType /\ card'.handler = "info" /\ card'.stat = st /\ card'.hlvl = hl
  BY <1>1, <1>2 DEF CardType
<1>4. QED  BY <1>3 DEF st, hl

(* A directory is read.                                                    *)
LEMMA LoadDirIs ==
  ASSUME card \in CardType, NEW p \in {0, 1}, NEW n \in Int,
         card' = [card EXCEPT !.achan = p, !.hlvl[p] = "load_dir", !.stat[p] = "read", !.left = n, !.handler = "read"]
  PROVE  /\ card' \in CardType /\ card'.handler = "read" /\ card'.stat = [card.stat EXCEPT ![p] = "read"]
         /\ card'.hlvl = [card.hlvl EXCEPT ![p] = "load_dir"]
<1> DEFINE st == [card.stat EXCEPT ![p] = "read"]
           hl == [card.hlvl EXCEPT ![p] = "load_dir"]
<1>1. card' = [card EXCEPT !.achan = p, !.hlvl = hl, !.stat = st, !.left = n, !.handler = "read"]
  BY Zenon
<1>2. /\ st \in [{0, 1} -> {"idle", "info", "read", "write"}]
      /\ hl \in [{0, 1} -> {"none", "info", "read", "write", "load_dir"}]
  BY DEF CardType
<1> HIDE DEF st, hl
<1>3. card' \in CardType /\ card'.handler = "read" /\ card'.stat = st /\ card'.hlvl = hl
  BY <1>1, <1>2 DEF CardType
<1>4. QED  BY <1>3 DEF st, hl

(* Every call for a card gives it the words of its operation.              *)
LEMMA CallCardBegins ==
  ASSUME card \in CardType, CallCard
  PROVE  \E p \in Ports : Begins(p)
<1>1. Ports \subseteq {0, 1} /\ Sectors \subseteq Int /\ 1 \in Int /\ 2 \in Int /\ 3 \in Int
  BY Constants, BiosAssumption
<1>2. ASSUME NEW p \in Ports, NEW w \in {"read", "write"}, NEW n \in Sectors, CardFile(p, w, n)
      PROVE  Begins(p)
  <2> DEFINE b == card.fresh[p] /\ w # "write"
  <2>1. /\ card' = [card EXCEPT !.achan = p, !.hlvl[p] = w, !.stat[p] = w, !.left = n, !.handler = w,
                                !.delay = 2, !.fresh[p] = b]
        /\ asked' = [asked EXCEPT ![p] = "file"] /\ card.stat[p] = "idle"
    BY <1>2, Zenon DEF CardFile, Asked, Idle
  <2>2. b \in BOOLEAN /\ p \in {0, 1} /\ n \in Int /\ w \in {"info", "read", "write", "load_dir"}
        /\ w \in {"info", "read", "write"}
    BY <1>1, <1>2
  <2> HIDE DEF b
  <2>3. card' \in CardType /\ card'.handler = w /\ card'.stat = [card.stat EXCEPT ![p] = w]
        /\ card'.hlvl = [card.hlvl EXCEPT ![p] = w]
    BY <1>1, <2>1, <2>2, FileIs, Zenon
  <2>4. QED  BY <1>2, <2>1, <2>3 DEF Begins
<1>3. ASSUME NEW p \in Ports, NEW w \in {"read", "write"}, CardSector(p, w)
      PROVE  Begins(p)
  <2> DEFINE b == card.fresh[p] /\ w # "write"
  <2>1. /\ card' = [card EXCEPT !.achan = p, !.stat[p] = w, !.left = 1, !.handler = w, !.fresh[p] = b]
        /\ asked' = [asked EXCEPT ![p] = "sector"] /\ card.stat[p] = "idle"
    BY <1>3, Zenon DEF CardSector, Asked, Idle
  <2>2. b \in BOOLEAN /\ p \in {0, 1} /\ w \in {"info", "read", "write", "load_dir"}
        /\ w \in {"info", "read", "write"}
    BY <1>1, <1>3
  <2> HIDE DEF b
  <2>3. card' \in CardType /\ card'.handler = w /\ card'.stat = [card.stat EXCEPT ![p] = w]
        /\ card'.hlvl = card.hlvl
    BY <1>1, <2>1, <2>2, SectorIs, Zenon
  <2>4. QED  BY <1>3, <2>1, <2>3 DEF Begins
<1>4. ASSUME NEW p \in Ports, CardInfo(p)
      PROVE  Begins(p)
  <2>1. /\ card' = [card EXCEPT !.achan = p, !.hlvl[p] = "info", !.stat[p] = "info", !.handler = "info"]
        /\ asked' = [asked EXCEPT ![p] = "info"] /\ card.stat[p] = "idle" /\ p \in {0, 1}
    BY <1>1, <1>4, Zenon DEF CardInfo, Asked, Idle
  <2>2. "info" \in {"info", "read", "write", "load_dir"} /\ "info" \in {"info", "read", "write"} /\ TRUE \in BOOLEAN
    OBVIOUS
  <2>3. card' \in CardType /\ card'.handler = "info" /\ card'.stat = [card.stat EXCEPT ![p] = "info"]
        /\ card'.hlvl = [card.hlvl EXCEPT ![p] = "info"]
    BY <1>1, <2>1, <2>2, InfoIs, Zenon
  <2>4. QED  BY <2>1, <2>3 DEF Begins
<1>5. ASSUME NEW p \in Ports, CardLoadDir(p)
      PROVE  Begins(p)
  <2>1. /\ card' = [card EXCEPT !.achan = p, !.hlvl[p] = "load_dir", !.stat[p] = "read", !.left = 3,
                                !.handler = "read"]
        /\ asked' = [asked EXCEPT ![p] = "file"] /\ card.stat[p] = "idle" /\ p \in {0, 1}
    BY <1>1, <1>5, Zenon DEF CardLoadDir, Asked, Idle
  <2>2. "load_dir" \in {"info", "read", "write", "load_dir"} /\ "read" \in {"info", "read", "write"} /\ TRUE \in BOOLEAN
    OBVIOUS
  <2>3. card' \in CardType /\ card'.handler = "read" /\ card'.stat = [card.stat EXCEPT ![p] = "read"]
        /\ card'.hlvl = [card.hlvl EXCEPT ![p] = "load_dir"]
    BY <1>1, <2>1, <2>2, LoadDirIs, Zenon
  <2>4. QED  BY <2>1, <2>3 DEF Begins
<1>6. QED  BY <1>2, <1>3, <1>4, <1>5, Zenon DEF CallCard

(* With one card, no other operation has its words changed.                *)
LEMMA BeginsKeeps ==
  ASSUME CardInv, NEW q, Ports \subseteq {q}, NEW p \in Ports, Begins(p)
  PROVE  CardInv'
<1>1. p \in {0, 1} /\ \A r \in Ports : r = p
  BY Constants
<1>2. /\ card.stat \in [{0, 1} -> {"idle", "info", "read", "write"}]
      /\ card.hlvl \in [{0, 1} -> {"none", "info", "read", "write", "load_dir"}]
      /\ asked \in [{0, 1} -> {"none", "file", "info", "sector"}]
      /\ card.stat[p] = "idle" /\ card.hlvl[p] = "none"
  BY DEF CardInv, CardType, Begins
<1>3. PICK s \in {"info", "read", "write"} : card'.stat = [card.stat EXCEPT ![p] = s]
  BY DEF Begins
<1>4. card'.stat[p] = s /\ \A r \in {0, 1} \ Ports : card'.stat[r] = "idle"
  BY <1>1, <1>2, <1>3 DEF CardInv
<1>5. /\ asked' \in [{0, 1} -> {"none", "file", "info", "sector"}] /\ asked'[p] # "none"
      /\ card'.handler = "info" <=> asked'[p] = "info"
      /\ card'.hlvl[p] = "none" <=> asked'[p] = "sector"
  <2>1. CASE /\ asked' = [asked EXCEPT ![p] = "file"] /\ card'.handler # "info"
             /\ \E w \in {"read", "write", "load_dir"} : card'.hlvl = [card.hlvl EXCEPT ![p] = w]
    BY <1>1, <1>2, <2>1
  <2>2. CASE /\ asked' = [asked EXCEPT ![p] = "info"] /\ card'.handler = "info"
             /\ card'.hlvl = [card.hlvl EXCEPT ![p] = "info"]
    BY <1>1, <1>2, <2>2
  <2>3. CASE asked' = [asked EXCEPT ![p] = "sector"] /\ card'.handler # "info" /\ card'.hlvl = card.hlvl
    BY <1>1, <1>2, <2>3
  <2>4. QED  BY <2>1, <2>2, <2>3 DEF Begins
<1>6. card' \in CardType
  BY DEF Begins
<1>7. QED  BY <1>1, <1>4, <1>5, <1>6 DEF CardInv

(* The program initialises the cards when none of them is busy.            *)
LEMMA InitCardKeeps ==
  ASSUME CardInv, InitCARD
  PROVE  CardInv'
<1>1. /\ \A p \in Ports : card.stat[p] = "idle"
      /\ card' = [card EXCEPT !.stat = [p \in {0, 1} |-> "idle"]]
      /\ asked' = [p \in {0, 1} |-> "none"]
  BY Zenon DEF InitCARD
<1>2. Ports \subseteq {0, 1} /\ card \in CardType
  BY Constants DEF CardInv
<1>3. card' \in CardType /\ card'.stat = [p \in {0, 1} |-> "idle"] /\ card'.hlvl = card.hlvl
  BY <1>1, <1>2 DEF CardType
<1>4. QED  BY <1>1, <1>2, <1>3 DEF CardInv

(* With one card, its words stay those of its operation, and what is told  *)
(* at the end is right.                                                    *)
LEMMA CardStep ==
  ASSUME CardInv, NEW q, Ports \subseteq {q}, [Next]_vars
  PROVE  /\ CardInv'
         /\ \A p \in Ports :
              step = "chain" /\ card.stat[p] # "idle" /\ card'.stat[p] = "idle" =>
                /\ asked[p] # "none" /\ answer'.file = (asked[p] # "sector")
                /\ answer'.spec = IF asked[p] = "info" /\ card.fresh[p] THEN "new" ELSE "done"
<1> DEFINE Tells == \A p \in Ports :
              step = "chain" /\ card.stat[p] # "idle" /\ card'.stat[p] = "idle" =>
                /\ asked[p] # "none" /\ answer'.file = (asked[p] # "sector")
                /\ answer'.spec = IF asked[p] = "info" /\ card.fresh[p] THEN "new" ELSE "done"
<1> SUFFICES CardInv' /\ Tells
  BY Zenon
<1>1. ASSUME UNCHANGED <<card, asked>>
      PROVE  CardInv' /\ Tells
  BY <1>1 DEF CardInv
<1>2. CASE ExcPad
  <2>1. CASE CardVint
    <3>1. CASE GoesOn
      BY <3>1 DEF GoesOn, CardInv
    <3>2. ASSUME NEW p \in {0, 1}, Ended(p)
          PROVE  CardInv' /\ Tells
      BY <3>2, EndedTells
    <3>3. QED  BY <2>1, <3>1, <3>2, VintIs DEF CardInv
  <2>2. CASE UNCHANGED <<card, asked>>
    BY <1>1, <2>2
  <2>3. QED  BY <1>2, <2>1, <2>2, ZenonT(40) DEF ExcPad, cards
<1>3. CASE InitCARD
  <2>1. \A p \in Ports : card.stat[p] = "idle"
    BY <1>3, Zenon DEF InitCARD
  <2>2. QED  BY <1>3, <2>1, InitCardKeeps
<1>4. CASE CallCard
  <2>1. PICK p \in Ports : Begins(p)
    BY <1>4, CallCardBegins DEF CardInv
  <2>2. CardInv'
    BY <2>1, BeginsKeeps
  <2>3. Tells
    <3>1. \A r \in Ports : card.stat[r] = "idle"
      BY <2>1 DEF Begins
    <3>2. QED  BY <3>1
  <2>4. QED  BY <2>2, <2>3
<1>5. CASE UNCHANGED vars
  BY <1>1, <1>5 DEF vars
<1>6. CASE TakeIrq \/ Vector \/ ExcSyscall \/ ExcVblank \/ ExcAck \/ ExcOwn \/ ExcExit \/ HookExit
  <2>1. UNCHANGED <<card, asked>>
    BY <1>6, ZenonT(60) DEF TakeIrq, Vector, ExcSyscall, ExcVblank, ExcAck, ExcOwn, ExcExit, HookExit, cards
  <2>2. QED  BY <1>1, <2>1
<1>7. CASE Handler
  <2>1. UNCHANGED <<card, asked>>
    BY <1>7, ZenonT(60) DEF Handler, HandlerCall, HandlerSub, HandlerReturn, HandlerLeave, HandlerCut, cards
  <2>2. QED  BY <1>1, <2>1
<1>8. CASE Goto \/ Leave \/ Trap \/ OpenTh \/ CloseTh \/ ChangeTh \/ CallEvent \/ DeliverEvent \/ Vblank
  <2>1. UNCHANGED <<card, asked>>
    BY <1>8, ZenonT(60) DEF Goto, Leave, Trap, OpenTh, CloseTh, ChangeTh, CallEvent, DeliverEvent, Vblank, cards
  <2>2. QED  BY <1>1, <2>1
<1>9. CASE InitPAD \/ StartPAD \/ StopPAD \/ StartCARD \/ StopCARD \/ ChangeIrqs
  <2>1. UNCHANGED <<card, asked>>
    BY <1>9, ZenonT(60) DEF InitPAD, StartPAD, StopPAD, StartCARD, StopCARD, ChangeIrqs, cards
  <2>2. QED  BY <1>1, <2>1
<1> HIDE DEF Tells
<1>10. QED
  <2>1. Next => TakeIrq \/ Vector \/ ExcSyscall \/ ExcVblank \/ ExcAck \/ ExcOwn \/ ExcExit \/ HookExit
                \/ ExcPad \/ Handler \/ InitCARD \/ CallCard \/ Goto \/ Leave \/ Trap \/ OpenTh \/ CloseTh
                \/ ChangeTh \/ CallEvent \/ DeliverEvent \/ Vblank \/ InitPAD \/ StartPAD \/ StopPAD
                \/ StartCARD \/ StopCARD \/ ChangeIrqs
    BY Zenon DEF Next, Exception, Main
  <2>2. QED  BY <1>2, <1>3, <1>4, <1>5, <1>6, <1>7, <1>8, <1>9, <2>1, Zenon

(* With one card: what it was asked to do is reported as that, when it is  *)
(* over.  (With two, card_vint_handler has the words of the last call for  *)
(* both; see the notes on the bounds.)                                     *)
THEOREM CardsAreTold ==
  ASSUME NEW q, Ports \subseteq {q}
  PROVE  Spec => CardTold
<1>1. Init => CardInv
  BY CardInit
<1>2. CardInv /\ [Next]_vars => CardInv'
  BY CardStep
<1>3. CardInv /\ [Next]_vars =>
        [\A p \in Ports :
           step = "chain" /\ card.stat[p] # "idle" /\ card'.stat[p] = "idle" =>
             /\ asked[p] # "none" /\ answer'.file = (asked[p] # "sector")
             /\ answer'.spec = IF asked[p] = "info" /\ card.fresh[p] THEN "new" ELSE "done"]_vars
  BY CardStep
<1>4. QED  BY <1>1, <1>2, <1>3, PTL DEF Spec, CardTold
=============================================================================
