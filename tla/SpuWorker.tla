----------------------------- MODULE SpuWorker ------------------------------
(***************************************************************************)
(* The sound thread of plugins/dfsound/spu.c: queue_channel_work,          *)
(* do_channel_work, sync_worker_thread and do_samples, with the calls that *)
(* reach them (key on and off, reverb registers, DMA, save states, the     *)
(* multithreading option).  The emulation thread (the "main" thread) works *)
(* out slice after slice of sound, or queues a slice as a work item for    *)
(* the thread and mixes its result later.  Items lie in an array of        *)
(* MaxCnt, used in turn; i_ready, i_done and i_reaped count the items      *)
(* queued, worked out and mixed; two semaphores pass them to and fro.      *)
(*                                                                         *)
(* The ADPCM decoder of a voice has a state, of which there are two        *)
(* copies: sb for the main thread, sb_thread for the other.  It is modelled*)
(* by the number of slices decoded since the key-on.                       *)
(*                                                                         *)
(* Full, Finished, NotInThread, MustWait, Again, Up and Inc have a faulty  *)
(* twin before them, which the specification does not use.                 *)
(***************************************************************************)
EXTENDS Integers, Sequences, FiniteSets

CONSTANTS
  MaxCnt,    \* WORK_MAXCNT, 4 in the program
  CntMod,    \* 2^32 in the program: the counters wrap here
  StateMod,  \* bound: the slices decoded since the key-on are counted modulo this
  Chans,     \* the voices
  FMods,     \* the voices that modulate another one (bFMod = 2)
  Reverbs,   \* the reverb set-ups: 0 is off, the others differ in their offsets
  Calls      \* the calls the main thread makes

ASSUME MaxCntAssumption == MaxCnt \in Nat \ {0}
ASSUME CntModAssumption == CntMod \in Nat /\ CntMod > MaxCnt /\ CntMod % MaxCnt = 0
ASSUME StateModAssumption == StateMod \in Nat \ {0}
ASSUME ChansAssumption == FMods \subseteq Chans
ASSUME ReverbsAssumption == Reverbs \subseteq Nat /\ 0 \in Reverbs

Counts == 0 .. CntMod - 1
Slots == 0 .. MaxCnt - 1
Decoders == [Chans -> 0 .. StateMod - 1]

(* struct work_item: channels_new, channels_on, rvb_addr; done is a ghost: *)
(* SSumLR holds the result.                                                *)
Items == [new : SUBSET Chans, on : SUBSET Chans, rvb : Reverbs, done : BOOLEAN]
NoItem == [new |-> {}, on |-> {}, rvb |-> 0, done |-> FALSE]

VARIABLES
  useThread,            \* spu_config.iUseThread
  worker,               \* whether the struct and its thread exist
  items,                \* worker->i
  i_ready, i_done, i_reaped, exit_thread, channels_last,
  prev,                 \* prev_work_in_thread
  sem_avail, sem_done,
  sb, sb_thread,        \* the two copies of the decoder states
  audible, newch,       \* dwChannelsAudible, dwNewChannel
  rvb, dirty,           \* the reverb set-up in force, rvb->dirty
  truth,                \* ghost: what the decoder states should be
  mpc, op, tpc          \* where the threads are, and the call

ring == <<items, i_ready, i_done, i_reaped>>
sems == <<sem_avail, sem_done>>
decoders == <<sb, sb_thread, prev, channels_last>>
voices == <<audible, newch, truth>>
reverb == <<rvb, dirty>>
life == <<useThread, worker, exit_thread>>
vars == <<ring, sems, decoders, voices, reverb, life, mpc, op, tpc>>

Inc(n) == (n + 1) % CntMod
Diff(m, n) == IF m >= n THEN m - n ELSE m - n + CntMod
SlotOf(n) == n % MaxCnt
Used == Diff(i_ready, i_reaped)
Worked == Diff(i_done, i_reaped)
Left == Diff(i_ready, i_done)

UpBinary(s) == 1
Up(s) == s + 1              \* sem_post

Decoded(d, cs) == [ch \in Chans |-> IF ch \in cs THEN (d[ch] + 1) % StateMod ELSE d[ch]]
Restarted(d, cs) == [ch \in Chans |-> IF ch \in cs THEN 0 ELSE d[ch]]
Copied(to, from, cs) == [ch \in Chans |-> IF ch \in cs THEN from[ch] ELSE to[ch]]

(* A call: whether it must have no work in the thread, whether too little  *)
(* time has passed for a slice, what follows it.                           *)
OpRecords == [force : BOOLEAN, short : BOOLEAN, ret : {"idle", "ram", "load"}]
NoOp == [force |-> FALSE, short |-> FALSE, ret |-> "idle"]

Fresh ==          \* the struct is cleared when it is allocated
  /\ items' = [i \in Slots |-> NoItem]
  /\ i_ready' = 0 /\ i_done' = 0 /\ i_reaped' = 0
  /\ prev' = FALSE /\ channels_last' = {}
  /\ sem_avail' = 0 /\ sem_done' = 0

Init ==           \* SPUinit; a game's settings may then change the option
  /\ useThread \in BOOLEAN
  /\ worker \in BOOLEAN
  /\ tpc = IF worker THEN "wait" ELSE "none"
  /\ items = [i \in Slots |-> NoItem]
  /\ i_ready = 0 /\ i_done = 0 /\ i_reaped = 0
  /\ prev = FALSE /\ channels_last = {}
  /\ sem_avail = 0 /\ sem_done = 0
  /\ exit_thread = FALSE
  /\ sb = [ch \in Chans |-> 0] /\ sb_thread = sb /\ truth = sb
  /\ audible = {} /\ newch = {}
  /\ rvb = 0 /\ dirty = FALSE
  /\ mpc = "idle" /\ op = NoOp

-----------------------------------------------------------------------------
(* do_samples                                                              *)
Call(name) == mpc = "idle" /\ name \in Calls

(* The calls that come to do_samples: with force from a DMA and a save,    *)
(* which use spu memory after it, and from the CD's sound when it runs dry.*)
(* When all voices are silent it forces as well.                           *)
Begin(force, short, ret) ==
  /\ op' = [force |-> force \/ audible \cup newch = {}, short |-> short, ret |-> ret]
  /\ mpc' = IF worker THEN "sync" ELSE IF short THEN ret ELSE "prep"
  /\ UNCHANGED <<ring, sems, decoders, voices, reverb, life, tpc>>
SamplesCall == Call("samples") /\ \E force, short \in BOOLEAN : Begin(force, short, "idle")
DmaCall == Call("dma") /\ \E short \in BOOLEAN : Begin(TRUE, short, "ram")

(* SPUfreeze to load a state: sync_worker_thread(1) only.                  *)
LoadCall == Call("load") /\ Begin(TRUE, TRUE, "load")

(* sync_worker_thread: mix what the thread has finished; wait for it when  *)
(* there is no room for another item, when no work may be left in the      *)
(* thread, or when the reverb set-up is about to change under it.          *)
FullLate == Used > MaxCnt
Full == Used >= MaxCnt
MustWaitNot == op.force
MustWait == op.force \/ (dirty /\ rvb # 0)
AgainUnforced == Full \/ Worked > 0
Again == (MustWait /\ Used > 0) \/ Full \/ Worked > 0

(* then take the decoder states back, when no work is left in the thread   *)
Sync ==
  /\ mpc = "sync"
  /\ IF Again
     THEN mpc' = "reap" /\ UNCHANGED <<sb, prev>>
     ELSE /\ mpc' = IF op.short THEN op.ret ELSE "prep"
          /\ IF op.force /\ prev
             THEN prev' = FALSE /\ sb' = Copied(sb, sb_thread, channels_last)
             ELSE UNCHANGED <<sb, prev>>
  /\ UNCHANGED <<ring, sems, sb_thread, channels_last, voices, reverb, life, op, tpc>>

FinishedByCount == Used > 0
Finished == sem_done > 0
Reap ==           \* sem_wait in thread_work_wait_sync
  /\ mpc = "reap" /\ Finished
  /\ sem_done' = sem_done - 1
  /\ mpc' = "mix"
  /\ UNCHANGED <<ring, sem_avail, decoders, voices, reverb, life, op, tpc>>

Mix ==            \* MixCD and do_samples_finish on the oldest item, forgotten then
  /\ mpc = "mix"
  /\ items' = [items EXCEPT ![SlotOf(i_reaped)] = NoItem]
  /\ i_reaped' = Inc(i_reaped)
  /\ mpc' = "sync"
  /\ UNCHANGED <<i_ready, i_done, sems, decoders, voices, reverb, life, op, tpc>>

(* REVERBPrep, which takes what the registers say by now, and the choice   *)
(* between the threads                                                     *)
InThread == worker /\ useThread /\ ~op.force
Prep ==
  /\ mpc = "prep"
  /\ IF dirty THEN rvb' \in Reverbs /\ dirty' = FALSE ELSE UNCHANGED <<rvb, dirty>>
  /\ mpc' = IF InThread THEN "queue" ELSE "direct"
  /\ UNCHANGED <<ring, sems, decoders, voices, life, op, tpc>>

(* StartSound for the new voices; some voices end within the slice.        *)
On == audible \cup newch
Advance ==
  /\ newch' = {}
  /\ \E over \in SUBSET On : audible' = On \ over
  /\ truth' = Decoded(Restarted(truth, newch \cup (Chans \ On)), On)

Direct ==         \* do_channels
  /\ mpc = "direct"
  /\ Advance
  /\ sb' = Decoded(Restarted(sb, newch), On)
  /\ mpc' = op.ret
  /\ UNCHANGED <<ring, sems, sb_thread, prev, channels_last, reverb, life, op, tpc>>

NotInThreadEver == TRUE
NotInThread == ~prev
Queue ==          \* queue_channel_work
  /\ mpc = "queue"
  /\ Advance
  /\ prev' = TRUE
  /\ sb_thread' = IF NotInThread THEN Copied(sb_thread, sb, audible \ newch) ELSE sb_thread
  /\ sb' = Decoded(Restarted(sb, newch), On \cap FMods)
  /\ channels_last' = On
  /\ items' = [items EXCEPT ![SlotOf(i_ready)] =
                 [new |-> newch, on |-> On, rvb |-> rvb, done |-> FALSE]]
  /\ mpc' = "start"
  /\ UNCHANGED <<i_ready, i_done, i_reaped, sems, reverb, life, op, tpc>>

Start ==          \* i_ready++, thread_work_start
  /\ mpc = "start"
  /\ i_ready' = Inc(i_ready)
  /\ sem_avail' = Up(sem_avail)
  /\ mpc' = op.ret
  /\ UNCHANGED <<items, i_done, i_reaped, sem_done, decoders, voices, reverb, life, op, tpc>>

Ram ==            \* the DMA or the save uses spu memory and what the voices are
  /\ mpc = "ram"
  /\ mpc' = "idle" /\ op' = NoOp
  /\ UNCHANGED <<ring, sems, decoders, voices, reverb, life, tpc>>

Load ==           \* DoFreeze puts everything in place but what is the thread's
  /\ mpc = "load"
  /\ rvb' \in Reverbs
  /\ dirty' = TRUE
  /\ newch' \in SUBSET Chans /\ audible' \in SUBSET Chans
  /\ sb' = [ch \in Chans |-> 0] /\ truth' = sb'
  /\ mpc' = "idle" /\ op' = NoOp
  /\ UNCHANGED <<ring, sems, sb_thread, prev, channels_last, life, tpc>>

-----------------------------------------------------------------------------
(* The registers that matter here                                          *)
KeyOn ==
  /\ Call("key")
  /\ \E ch \in Chans \ newch : newch' = newch \cup {ch}
  /\ UNCHANGED <<ring, sems, decoders, audible, truth, reverb, life, mpc, op, tpc>>

KeyOff ==
  /\ Call("key")
  /\ \E ch \in newch : newch' = newch \ {ch}
  /\ UNCHANGED <<ring, sems, decoders, audible, truth, reverb, life, mpc, op, tpc>>

RvbWrite ==
  /\ Call("reverb")
  /\ dirty' = TRUE
  /\ UNCHANGED <<ring, sems, decoders, voices, rvb, life, mpc, op, tpc>>

-----------------------------------------------------------------------------
(* SPUconfigure, after the option was changed.  The thread need not be     *)
(* there when the option is on, as its creation may have failed.           *)
SwitchOn ==       \* init_spu_thread
  /\ Call("config") /\ ~useThread
  /\ useThread' = TRUE
  /\ IF worker THEN UNCHANGED <<ring, sems, prev, channels_last, worker, exit_thread, tpc>>
     ELSE \E ok \in BOOLEAN :
            IF ok THEN Fresh /\ worker' = TRUE /\ exit_thread' = FALSE /\ tpc' = "wait"
            ELSE UNCHANGED <<ring, sems, prev, channels_last, worker, exit_thread, tpc>>
  /\ UNCHANGED <<sb, sb_thread, voices, reverb, mpc, op>>

SwitchOff ==      \* exit_spu_thread
  /\ Call("config") /\ useThread
  /\ useThread' = FALSE
  /\ exit_thread' = worker
  /\ mpc' = IF worker THEN "exit" ELSE "idle"
  /\ UNCHANGED <<ring, sems, decoders, voices, reverb, worker, op, tpc>>

PostExit ==
  /\ mpc = "exit"
  /\ sem_avail' = Up(sem_avail)
  /\ mpc' = "join"
  /\ UNCHANGED <<ring, sem_done, decoders, voices, reverb, life, op, tpc>>

(* What was queued and not mixed is dropped, and the voices go on from the *)
(* main thread's copies of their states, however old.                      *)
Join ==
  /\ mpc = "join" /\ tpc = "exited"
  /\ worker' = FALSE /\ tpc' = "none" /\ exit_thread' = FALSE
  /\ Fresh
  /\ truth' = sb
  /\ mpc' = "idle"
  /\ UNCHANGED <<useThread, sb, sb_thread, audible, newch, reverb, op>>

-----------------------------------------------------------------------------
(* spu_worker_thread                                                       *)
main == <<useThread, worker, exit_thread, items, i_ready, i_reaped, sb, prev,
          channels_last, voices, reverb, mpc, op>>

Take ==           \* sem_wait
  /\ tpc = "wait" /\ sem_avail > 0
  /\ sem_avail' = sem_avail - 1
  /\ tpc' = "woken"
  /\ UNCHANGED <<main, i_done, sem_done, sb_thread>>

Woken ==
  /\ tpc = "woken"
  /\ tpc' = IF exit_thread THEN "exited" ELSE "work"
  /\ UNCHANGED <<main, i_done, sems, sb_thread>>

Item == items[SlotOf(i_done)]
Work ==           \* do_channel_work
  /\ tpc = "work"
  /\ sb_thread' = Decoded(Restarted(sb_thread, Item.new), Item.on)
  /\ items' = [items EXCEPT ![SlotOf(i_done)].done = TRUE]
  /\ tpc' = "count"
  /\ UNCHANGED <<life, i_ready, i_done, i_reaped, sems, sb, prev, channels_last, voices,
                 reverb, mpc, op>>

Count ==          \* i_done++, before sem_post
  /\ tpc = "count"
  /\ i_done' = Inc(i_done)
  /\ tpc' = "post"
  /\ UNCHANGED <<main, sems, sb_thread>>

Post ==
  /\ tpc = "post"
  /\ sem_done' = Up(sem_done)
  /\ tpc' = "wait"
  /\ UNCHANGED <<main, i_done, sem_avail, sb_thread>>

MainCall ==
  \/ SamplesCall \/ DmaCall \/ LoadCall \/ KeyOn \/ KeyOff \/ RvbWrite
  \/ SwitchOn \/ SwitchOff
MainStep ==
  \/ Sync \/ Reap \/ Mix \/ Prep \/ Direct \/ Queue \/ Start \/ Ram \/ Load
  \/ PostExit \/ Join
Thread == Take \/ Woken \/ Work \/ Count \/ Post

Next == MainCall \/ MainStep \/ Thread

(* A call runs on and the thread is scheduled; another call need not come. *)
Spec == Init /\ [][Next]_vars
FairSpec == Spec /\ WF_vars(MainStep) /\ WF_vars(Thread)

-----------------------------------------------------------------------------
MainStates == {"idle", "sync", "reap", "mix", "prep", "direct", "queue", "start", "ram",
               "load", "exit", "join"}
ThreadStates == {"none", "wait", "woken", "work", "count", "post", "exited"}

(* Every variable keeps its type, the semaphores their bounds.             *)
TypeOK ==
  /\ useThread \in BOOLEAN /\ worker \in BOOLEAN /\ exit_thread \in BOOLEAN
  /\ items \in [Slots -> Items]
  /\ i_ready \in Counts /\ i_done \in Counts /\ i_reaped \in Counts
  /\ prev \in BOOLEAN /\ channels_last \subseteq Chans
  /\ sem_avail \in 0 .. MaxCnt + 1 /\ sem_done \in 0 .. MaxCnt
  /\ sb \in Decoders /\ sb_thread \in Decoders /\ truth \in Decoders
  /\ audible \subseteq Chans /\ newch \subseteq Chans
  /\ rvb \in Reverbs /\ dirty \in BOOLEAN
  /\ mpc \in MainStates /\ op \in OpRecords /\ tpc \in ThreadStates

(* The item that is mixed is finished and the one that is written is not   *)
(* in use: the array needs no lock (sync_worker_thread, queue_channel_work)*)
SlotsSafe ==
  /\ mpc = "mix" => items[SlotOf(i_reaped)].done /\ Worked > 0
  /\ mpc = "queue" => Used < MaxCnt
  /\ tpc \in {"work", "count"} => Left \in 1 .. MaxCnt /\ Used <= MaxCnt

(* Why: the slots in use are those from that of i_reaped on, the counters  *)
(* and semaphores agree on how many there are, and the calls that need the *)
(* thread at rest have found nothing in use.  Handover is inductive        *)
(* together with TypeOK.                                                   *)
SlotAt(k) == LET n == SlotOf(i_reaped) + k IN IF n >= MaxCnt THEN n - MaxCnt ELSE n
One(b) == IF b THEN 1 ELSE 0

CountInv ==
  /\ Used <= MaxCnt /\ Worked <= Used /\ Left = Used - Worked
  /\ SlotOf(i_ready) = SlotAt(Used) /\ SlotOf(i_done) = SlotAt(Worked)
SemInv ==
  /\ sem_done + One(tpc = "post") + One(mpc = "mix") = Worked
  /\ sem_avail + One(tpc \in {"woken", "work", "count", "exited"}) = Left + One(mpc = "join")
  /\ tpc \in {"work", "count"} => Left > 0
LifeInv ==
  /\ worker <=> tpc # "none"
  /\ ~worker => Used = 0 /\ sem_avail = 0 /\ sem_done = 0
  /\ exit_thread <=> mpc \in {"exit", "join"}
  /\ tpc = "exited" => exit_thread
  /\ mpc \in {"sync", "reap", "mix", "queue", "start", "exit", "join"} => worker
ItemInv ==
  /\ \A k \in 0 .. Worked - 1 : items[SlotAt(k)].done
  /\ tpc = "count" => items[SlotOf(i_done)].done
  /\ \A k \in 0 .. Used - 1 : items[SlotAt(k)].rvb \in {0, rvb}
  /\ mpc = "start" => items[SlotOf(i_ready)].rvb \in {0, rvb}
CallInv ==
  /\ mpc \in {"prep", "queue", "start"} => Used < MaxCnt
  /\ mpc \in {"queue", "start"} => useThread /\ ~op.force
  /\ op.ret # "idle" => op.force
  /\ mpc \in {"prep", "direct"} /\ op.force => Used = 0
  /\ mpc = "prep" /\ dirty /\ rvb # 0 => Used = 0
  /\ mpc \in {"ram", "load"} => Used = 0
  /\ mpc \notin {"exit", "join"} /\ ~useThread => Used = 0
  /\ mpc = "direct" => op.force \/ ~useThread \/ ~worker
Handover == CountInv /\ SemInv /\ LifeInv /\ ItemInv /\ CallInv

(* The items that are queued and not mixed, and of these the unfinished.   *)
Pending == [k \in 1 .. Used |-> items[SlotOf(i_reaped + k - 1)]]
Unfinished ==
  LET from == IF tpc = "count" THEN Inc(i_done) ELSE i_done
  IN  [k \in 1 .. Diff(i_ready, from) + (IF mpc = "start" THEN 1 ELSE 0)
         |-> items[SlotOf(from + k - 1)]]

(* Each voice that sounds is decoded from the state its last slice left:   *)
(* by the main thread from sb while no work is in the thread, else by the  *)
(* thread, once it has done what is queued, from sb_thread.                *)
AfterWork ==
  LET f[k \in 0 .. Len(Unfinished)] ==
        IF k = 0 THEN sb_thread
        ELSE Decoded(Restarted(f[k - 1], Unfinished[k].new), Unfinished[k].on)
  IN  f[Len(Unfinished)]
DecoderTruth ==
  mpc \notin {"exit", "join"} =>
    \A ch \in audible : truth[ch] = IF prev THEN AfterWork[ch] ELSE sb[ch]

(* The reverb set-up does not change while there is an item that uses it   *)
(* ("rvb offsets will change, thread may be using them", spu.c:954).       *)
RvbStable ==
  (mpc = "prep" /\ dirty) \/ mpc = "load" => \A k \in DOMAIN Pending : Pending[k].rvb = 0

(* While a DMA or a save state uses spu memory and the voices, and while   *)
(* the main thread itself decodes, the sound thread has nothing to do.     *)
ThreadAtRest ==
  worker /\ mpc \in {"ram", "load", "direct"} => i_ready = i_reaped /\ tpc = "wait"

(* Every call returns, however late the thread posts its semaphore.        *)
CallsReturn == mpc # "idle" ~> mpc = "idle"

(* Each slice of sound is mixed once and in order, whichever thread worked *)
(* it out (do_samples).  What turning the thread off drops counts as       *)
(* carried out; slices of the same voices are not told apart.              *)
Slice(i) == [new |-> i.new, on |-> i.on, rvb |-> i.rvb]
Todo ==
  [k \in DOMAIN Pending |-> Slice(Pending[k])]
    \o CASE mpc = "start" -> <<Slice(items[SlotOf(i_ready)])>>
         [] mpc = "direct" -> <<Slice(NoItem)>>
         [] OTHER -> <<>>
Fifo == INSTANCE CmdFifo WITH todo <- Todo, Batches <- {<<Slice(i)>> : i \in Items}
ImplementsFifo == Fifo!Spec
=============================================================================
