----------------------------- MODULE DrcThread ------------------------------
(* The compile thread of the recompiler (new_dynarec/emu_if.c) and the     *)
(* translation cache it shares with the emulation thread (new_dynarec.c).  *)
(* A block that is not translated is posted to the thread and interpreted  *)
(* until the thread is done; the cache has no lock of its own.             *)
EXTENDS Integers, FiniteSets

CONSTANTS
  Addr,        \* block addresses, each on a page of its own
  Bad,         \* the addresses that do not compile
  None,        \* busy_addr ~0u; no translation
  Torn,        \* the source of a block may be written while it is compiled
  MaxVersion,  \* bound: writes of a block's source
  MaxOps       \* bound: calls of the frontend

ASSUME DrcAssumption ==
  /\ Bad \subseteq Addr /\ None \notin Addr /\ None \notin Nat
  /\ Torn \in BOOLEAN /\ MaxVersion \in Nat /\ MaxOps \in Nat

VARIABLES
  mem,     \* what the source of a block holds, by the number of the write
  blocks,  \* blocks[]: the translations of each address, the dirty ones too
  hash,    \* the hash table: the translation an address is looked up to
  busy,    \* ndrc_g.thread.busy_addr
  exit,    \* ndrc_g.thread.exit
  handle,  \* ndrc_g.thread.handle, with its lock and condition variable
  owner,   \* who holds ndrc_g.thread.lock: "none" or "thread"
  tpc,     \* the compile thread
  code,    \* what the compile thread has translated
  mpc,     \* the emulation thread
  arg,     \* its block: the next to run, or the one just written
  next,    \* what it does when it has synced
  back,    \* where it goes on after a write
  rec,     \* cpuInRecursion: bios code runs within a translated block
  ran,     \* history: the translation last started, and its source then
  ops

cache == <<blocks, hash>>
lockv == <<busy, exit, handle, owner>>
mainv == <<mpc, arg, next, back, rec>>
vars == <<mem, blocks, hash, busy, exit, handle, owner, tpc, code, mpc, arg, next, back,
          rec, ran, ops>>

Version == 0..MaxVersion
Block == [code : Version, copy : Version, dirty : BOOLEAN]
Clean(a) == {b \in blocks[a] : ~b.dirty}
Dirtied(S) == {[b EXCEPT !.dirty = TRUE] : b \in S}
Cleaned(S) == {[b EXCEPT !.dirty = FALSE] : b \in S}

-----------------------------------------------------------------------------
(* The translation cache.  ndrc_get_addr_ht_param without compiling: the   *)
(* hash table, a clean block, or a dirty one whose source is what it was   *)
Restorable(a) == {b \in blocks[a] : b.dirty /\ b.copy = mem[a]}
Lookup(a, v) ==
  \/ hash[a] # None /\ v = hash[a] /\ UNCHANGED cache
  \/ /\ hash[a] = None
     /\ \E b \in Clean(a) : v = b.code
     /\ hash' = [hash EXCEPT ![a] = v] /\ UNCHANGED blocks
  \/ /\ hash[a] = None /\ Clean(a) = {}
     /\ \E b \in Restorable(a) :
          /\ v = b.code
          /\ blocks' = [blocks EXCEPT ![a] = (@ \ {b}) \cup Cleaned({b})]
          /\ hash' = [hash EXCEPT ![a] = v]
Found(a) == hash[a] # None \/ Clean(a) # {} \/ Restorable(a) # {}

(* hash_table_add and block_info_finish: the copy of the source that later *)
(* vouches for the translation is taken at the end                         *)
Add(a, v) ==
  /\ blocks' = [blocks EXCEPT ![a] = @ \cup {[code |-> v, copy |-> mem[a], dirty |-> FALSE]}]
  /\ hash' = [hash EXCEPT ![a] = v]

(* mutant: the block stays in the hash table *)
InvalidateHashed(S) ==
  /\ blocks' = [a \in Addr |-> IF a \in S THEN Dirtied(blocks[a]) ELSE blocks[a]]
  /\ UNCHANGED hash

(* new_dynarec_invalidate_range, new_dynarec_invalidate_all_pages *)
Invalidate(S) ==
  /\ blocks' = [a \in Addr |-> IF a \in S THEN Dirtied(blocks[a]) ELSE blocks[a]]
  /\ hash' = [a \in Addr |-> IF a \in S /\ Clean(a) # {} THEN None ELSE hash[a]]

ClearFull == /\ blocks' = [a \in Addr |-> {}]
             /\ hash' = [a \in Addr |-> None]

(* new_dynarec_load_blocks: every block is clean or dirty by its copy, and *)
(* the blocks S of the save state are compiled                             *)
LoadBlocks(S) ==
  LET good(a) == {b \in blocks[a] : b.copy = mem[a]}
      kept(a) == Cleaned(good(a)) \cup Dirtied(blocks[a] \ good(a))
      known(a) == IF good(a) = blocks[a] THEN hash[a] ELSE None
      fresh(a) == a \in S \ Bad /\ known(a) = None /\ \A b \in kept(a) : b.dirty
  IN /\ blocks' = [a \in Addr |-> kept(a) \cup
                     IF fresh(a) THEN {[code |-> mem[a], copy |-> mem[a], dirty |-> FALSE]} ELSE {}]
     /\ hash' = [a \in Addr |-> IF fresh(a) THEN mem[a]
                             ELSE IF a \in S \ Bad /\ known(a) = None
                                  THEN (CHOOSE b \in kept(a) : ~b.dirty).code
                             ELSE known(a)]

-----------------------------------------------------------------------------
(* The compile thread: it holds the lock except while it waits             *)
ThreadLock == /\ tpc \in {"start", "woken"}
              /\ owner = "none"
              /\ owner' = "thread"
              /\ tpc' = IF tpc = "start" THEN "test" ELSE "again"
              /\ UNCHANGED <<mem, cache, busy, exit, handle, code, mainv, ran, ops>>

ThreadTest ==
  /\ tpc = "test"
  /\ tpc' = IF exit THEN "gone" ELSE IF busy = None THEN "wait" ELSE "again"
  /\ owner' = IF exit \/ busy = None THEN "none" ELSE "thread"
  /\ UNCHANGED <<mem, cache, busy, exit, handle, code, mainv, ran, ops>>

(* a condition variable may wake by itself *)
ThreadSpurious == /\ tpc = "wait"
                  /\ tpc' = "woken"
                  /\ UNCHANGED <<mem, cache, lockv, code, mainv, ran, ops>>

ThreadAgain ==
  /\ tpc = "again"
  /\ tpc' = IF busy = None \/ exit THEN "test" ELSE "read"
  /\ UNCHANGED <<mem, cache, lockv, code, mainv, ran, ops>>

(* new_recompile_block: the source is read *)
ThreadRead ==
  /\ tpc = "read"
  /\ \/ /\ \E v \in Version : Lookup(busy, v)
        /\ tpc' = "done" /\ UNCHANGED code
     \/ /\ ~Found(busy) /\ busy \in Bad
        /\ tpc' = "done" /\ UNCHANGED <<code, cache>>
     \/ /\ ~Found(busy) /\ busy \notin Bad
        /\ tpc' = "add" /\ code' = mem[busy] /\ UNCHANGED cache
  /\ UNCHANGED <<mem, lockv, mainv, ran, ops>>

ThreadAdd == /\ tpc = "add"
             /\ Add(busy, code)
             /\ tpc' = "done"
             /\ UNCHANGED <<mem, lockv, code, mainv, ran, ops>>

ThreadDone == /\ tpc = "done"
              /\ busy' = None
              /\ tpc' = "test"
              /\ UNCHANGED <<mem, cache, exit, handle, owner, code, mainv, ran, ops>>

-----------------------------------------------------------------------------
(* ari64_thread_sync: the lock is taken and given back until the thread    *)
(* has nothing to do; then the thread goes on with k                       *)
Sync(k) == IF handle /\ busy # None THEN mpc' = "sync" /\ next' = k
           ELSE mpc' = k /\ UNCHANGED next

(* mutant: one turn is taken for the end *)
OnceSynced == next

Synced == IF busy = None THEN next ELSE "sync"
SyncLock == /\ mpc = "sync"
            /\ owner = "none"
            /\ mpc' = "synced"
            /\ UNCHANGED <<mem, cache, lockv, tpc, code, arg, next, back, rec, ran, ops>>
SyncTest == /\ mpc = "synced"
            /\ mpc' = Synced
            /\ UNCHANGED <<mem, cache, lockv, tpc, code, arg, next, back, rec, ran, ops>>

(* A translated block starts *)
StartCode(a, v) == /\ mpc' = "code"
                   /\ ran' = [code |-> v, source |-> mem[a]]

(* ari64_execute_threaded_once, or without a thread compile and run        *)
Pick ==
  /\ mpc = "pick"
  /\ \/ /\ handle /\ busy = None
        /\ \E v \in Version : Lookup(arg, v) /\ StartCode(arg, v)
     \/ /\ handle /\ (busy # None \/ ~Found(arg))
        /\ mpc' = "enter" /\ UNCHANGED <<cache, ran>>
     \/ /\ ~handle
        /\ \/ \E v \in Version : Lookup(arg, v) /\ StartCode(arg, v)
           \/ ~Found(arg) /\ arg \notin Bad /\ Add(arg, mem[arg]) /\ StartCode(arg, mem[arg])
           \/ ~Found(arg) /\ arg \in Bad /\ mpc' = "code" /\ UNCHANGED <<cache, ran>>
  /\ UNCHANGED <<mem, lockv, tpc, code, arg, next, back, rec, ops>>

(* ari64_execute_threaded_slow: the block is posted under the lock, unless *)
(* another one is being compiled                                           *)
EnterSlow == /\ mpc = "enter"
             /\ mpc' = IF busy = None THEN "post" ELSE "slow"
             /\ UNCHANGED <<mem, cache, lockv, tpc, code, arg, next, back, rec, ran, ops>>
Post == /\ mpc = "post"
        /\ owner = "none"
        /\ busy' = arg
        /\ mpc' = "signal"
        /\ UNCHANGED <<mem, cache, exit, handle, owner, tpc, code, arg, next, back, rec, ran, ops>>

(* mutant: the condition is not signalled *)
WakeNot == tpc

Wake == IF tpc = "wait" THEN "woken" ELSE tpc
SignalPost == /\ mpc = "signal"
              /\ tpc' = Wake
              /\ mpc' = "slow"
              /\ UNCHANGED <<mem, cache, lockv, code, arg, next, back, rec, ran, ops>>

(* Blocks are interpreted until the thread is done, the bios call returns  *)
(* or, outside one, the frame ends                                         *)
Leave(b) == IF rec = 0 THEN mpc' = "pick" /\ arg' = b /\ UNCHANGED next
            ELSE Sync("unwind") /\ arg' = b
Interpret ==
  /\ mpc = "slow"
  /\ \/ busy = None /\ \E b \in Addr : Leave(b)
     \/ rec = 0 /\ mpc' = "front" /\ UNCHANGED <<arg, next>>
     \/ rec = 1 /\ Sync("unwind") /\ UNCHANGED arg
  /\ UNCHANGED <<mem, cache, lockv, tpc, code, back, rec, ran, ops>>

(* Translated code jumps: to a block that is there, or it leaves *)
Jump ==
  /\ mpc = "code"
  /\ \E b \in Addr :
       \/ /\ \E v \in Version : Lookup(b, v) /\ StartCode(b, v)
          /\ arg' = b /\ UNCHANGED next
       \/ Leave(b) /\ UNCHANGED <<cache, ran>>
       \/ rec = 0 /\ mpc' = "front" /\ arg' = b /\ UNCHANGED <<cache, ran, next>>
  /\ UNCHANGED <<mem, lockv, tpc, code, back, rec, ops>>

(* softCall: translated code calls the bios, whose callbacks are blocks;   *)
(* they go on until the call is over                                       *)
SoftCall == /\ mpc = "code" /\ rec = 0
            /\ rec' = 1
            /\ mpc' = "pick"
            /\ \E b \in Addr : arg' = b
            /\ UNCHANGED <<mem, cache, lockv, tpc, code, next, back, ran, ops>>
Unwind == /\ mpc = "unwind"
          /\ \/ mpc' = "pick" /\ UNCHANGED rec
             \/ mpc' = "code" /\ rec' = 0
          /\ UNCHANGED <<mem, cache, lockv, tpc, code, arg, next, back, ran, ops>>

-----------------------------------------------------------------------------
Writable(a) == mem[a] < MaxVersion /\ (Torn \/ busy # a)

(* A store of translated code invalidates the page at once *)
CodeStore(a) == /\ mpc = "code" /\ Writable(a)
                /\ mem' = [mem EXCEPT ![a] = @ + 1]
                /\ Invalidate({a})
                /\ UNCHANGED <<lockv, tpc, code, mainv, ran, ops>>

(* A store of the interpreter, and dma: psxCpu->Clear comes after it *)
Store(a) == /\ mpc \in {"slow", "code"} /\ Writable(a)
            /\ mem' = [mem EXCEPT ![a] = @ + 1]
            /\ back' = mpc
            /\ mpc' = "quick" /\ arg' = a
            /\ UNCHANGED <<cache, lockv, tpc, code, next, rec, ran, ops>>

(* ari64_clear: new_dynarec_quick_check_range, then                        *)
(* ari64_thread_check_range                                                *)
QuickCheck == /\ mpc = "quick"
              /\ IF blocks[arg] # {} THEN Sync("clear") ELSE mpc' = "range" /\ UNCHANGED next
              /\ UNCHANGED <<mem, cache, lockv, tpc, code, arg, back, rec, ran, ops>>
RangeCheck == /\ mpc = "range"
              /\ IF busy = arg THEN Sync("clear") ELSE mpc' = back /\ UNCHANGED next
              /\ UNCHANGED <<mem, cache, lockv, tpc, code, arg, back, rec, ran, ops>>
Clear == /\ mpc = "clear"
         /\ Invalidate({arg})
         /\ mpc' = back
         /\ UNCHANGED <<mem, lockv, tpc, code, arg, next, back, rec, ran, ops>>

-----------------------------------------------------------------------------
(* Between frames: the frontend resets, saves and loads states, changes    *)
(* options and cores; the thread may still be compiling                    *)
Frame == /\ mpc = "front"
         /\ mpc' = "pick"
         /\ \E b \in Addr : arg' = b
         /\ UNCHANGED <<mem, cache, lockv, tpc, code, next, back, rec, ran, ops>>

Overwritten(S) == mem' = [a \in Addr |-> IF a \in S THEN mem[a] + 1 ELSE mem[a]]
Call(k) == /\ mpc = "front" /\ ops < MaxOps
           /\ ops' = ops + 1
           /\ Sync(k)
           /\ UNCHANGED <<cache, lockv, tpc, code, arg, back, rec, ran>>

(* psxReset and LoadState replace the memory before the cache is told *)
Reset == /\ \E S \in SUBSET {a \in Addr : Writable(a)} : Overwritten(S)
         /\ Call("reset")
LoadState == /\ \E S \in SUBSET {a \in Addr : Writable(a)} : Overwritten(S)
             /\ Call("load")
SaveState == UNCHANGED mem /\ Call("save")
ClearCache == UNCHANGED mem /\ Call("full")
ApplyConfig == UNCHANGED mem /\ Call("apply")

Synched(k) == /\ mpc = k
              /\ mpc' = "front"
              /\ UNCHANGED <<mem, lockv, tpc, code, arg, next, back, rec, ran, ops>>
ResetCache == Synched("reset") /\ Invalidate(Addr)
LoadCache == Synched("load") /\ \E S \in SUBSET Addr : LoadBlocks(S)
SaveCache == Synched("save") /\ UNCHANGED cache
FullCache == Synched("full") /\ ClearFull

(* ari64_apply_config: a changed option clears the cache, and the option   *)
(* of the thread stops it or starts it                                     *)
Apply == /\ mpc = "apply"
         /\ \/ mpc' = "front" /\ UNCHANGED cache
            \/ mpc' \in {"front", "toggle"} /\ ClearFull
         /\ UNCHANGED <<mem, lockv, tpc, code, arg, next, back, rec, ran, ops>>

(* ari64_shutdown, when the core is changed, does not sync *)
Shutdown == /\ mpc = "front" /\ ops < MaxOps
            /\ ops' = ops + 1
            /\ mpc' = (IF handle THEN "exit" ELSE "stopped") /\ next' = "stopped"
            /\ UNCHANGED <<mem, cache, lockv, tpc, code, arg, back, rec, ran>>
Init_ == /\ mpc = "stopped"
         /\ ClearFull
         /\ mpc' \in {"front", "toggle"}
         /\ UNCHANGED <<mem, lockv, tpc, code, arg, next, back, rec, ran, ops>>

(* ari64_thread_init *)
Toggle == /\ mpc = "toggle"
          /\ IF handle THEN mpc' = "exit" /\ next' = "front" /\ UNCHANGED <<handle, exit, tpc>>
             ELSE /\ mpc' = "front" /\ exit' = FALSE /\ UNCHANGED next
                  /\ \/ handle' = TRUE /\ tpc' = "start"
                     \/ UNCHANGED <<handle, tpc>>
          /\ UNCHANGED <<mem, cache, busy, owner, code, arg, back, rec, ran, ops>>

(* ari64_thread_shutdown *)
PostExit == /\ mpc = "exit"
            /\ owner = "none"
            /\ exit' = TRUE
            /\ mpc' = "signal_exit"
            /\ UNCHANGED <<mem, cache, busy, handle, owner, tpc, code, arg, next, back, rec, ran, ops>>
SignalExit == /\ mpc = "signal_exit"
              /\ tpc' = Wake
              /\ mpc' = "join"
              /\ UNCHANGED <<mem, cache, lockv, code, arg, next, back, rec, ran, ops>>
Join == /\ mpc = "join"
        /\ tpc = "gone"
        /\ handle' = FALSE /\ busy' = None
        /\ mpc' = next
        /\ UNCHANGED <<mem, cache, exit, owner, tpc, code, arg, next, back, rec, ran, ops>>

-----------------------------------------------------------------------------
Init ==
  /\ mem = [a \in Addr |-> 0]
  /\ blocks = [a \in Addr |-> {}] /\ hash = [a \in Addr |-> None]
  /\ busy = None /\ exit = FALSE /\ handle = TRUE /\ owner = "none"
  /\ tpc = "start" /\ code = 0
  /\ mpc = "front" /\ arg \in Addr /\ next = "front" /\ back = "slow" /\ rec = 0
  /\ ran = [code |-> 0, source |-> 0] /\ ops = 0

Thread == \/ ThreadLock \/ ThreadTest \/ ThreadAgain \/ ThreadRead \/ ThreadAdd \/ ThreadDone
InCall == \/ SyncLock \/ SyncTest \/ Post \/ SignalPost \/ QuickCheck \/ RangeCheck \/ Clear
          \/ ResetCache \/ LoadCache \/ SaveCache \/ FullCache \/ Apply \/ Init_ \/ Toggle
          \/ PostExit \/ SignalExit \/ Join
Emulate == Pick \/ EnterSlow \/ Interpret \/ Jump \/ SoftCall \/ Unwind \/ \E a \in Addr : CodeStore(a) \/ Store(a)
Frontend == Frame \/ Reset \/ LoadState \/ SaveState \/ ClearCache \/ ApplyConfig \/ Shutdown

Next == Thread \/ ThreadSpurious \/ InCall \/ Emulate \/ Frontend

Spec == Init /\ [][Next]_vars

(* Both threads go on with what they have begun.  The sync loop sleeps     *)
(* between its turns (retro_sleep), so neither keeps the other from the    *)
(* lock for ever.                                                          *)
Fairness == /\ WF_vars(Thread) /\ SF_vars(ThreadLock)
            /\ WF_vars(InCall) /\ SF_vars(SyncLock \/ Post \/ PostExit)
FairSpec == Spec /\ Fairness

-----------------------------------------------------------------------------
TypeOK ==
  /\ mem \in [Addr -> Version] /\ blocks \in [Addr -> SUBSET Block]
  /\ hash \in [Addr -> Version \cup {None}]
  /\ busy \in Addr \cup {None} /\ exit \in BOOLEAN /\ handle \in BOOLEAN
  /\ owner \in {"none", "thread"}
  /\ tpc \in {"start", "test", "wait", "woken", "again", "read", "add", "done", "gone"}
  /\ code \in Version
  /\ mpc \in {"front", "pick", "code", "enter", "post", "signal", "slow", "sync", "synced", "unwind",
              "quick", "range", "clear", "reset", "load", "save", "full", "apply", "stopped",
              "toggle", "exit", "signal_exit", "join"}
  /\ arg \in Addr
  /\ next \in {"front", "unwind", "clear", "reset", "load", "save", "full", "apply", "stopped"}
  /\ back \in {"slow", "code"} /\ rec \in 0..1
  /\ ran \in [code : Version, source : Version] /\ ops \in 0..MaxOps

(* The translation cache has no lock: while the compile thread looks up,   *)
(* translates or adds a block, the emulation thread neither runs           *)
(* translated code nor changes the cache, in a frame, a nested bios call,  *)
(* a store or a call of the frontend                                       *)
Exclusive ==
  tpc \in {"read", "add"} =>
    mpc \notin {"code", "unwind", "clear", "reset", "load", "save", "full", "apply",
                "stopped", "toggle"}

(* Translated code that starts was made from what the memory holds now,    *)
(* through stores, dma, resets, state loads and blocks that are found to   *)
(* be good again                                                           *)
CodeTruth == ran.code = ran.source

(* A sync, a post and a shutdown return, and a block that is posted is     *)
(* compiled, or given up when the thread ends                              *)
Calling == {"post", "signal", "sync", "synced", "exit", "signal_exit", "join"}
CallsReturn == /\ (mpc \in Calling) ~> (mpc \notin Calling)
               /\ (busy # None) ~> (busy = None)
=============================================================================
