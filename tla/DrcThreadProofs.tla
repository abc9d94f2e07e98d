-------------------------- MODULE DrcThreadProofs ---------------------------
(***************************************************************************)
(* Proofs about DrcThread, for any blocks, any number of writes of their   *)
(* source and any number of calls of the frontend: the compile thread and  *)
(* the emulation thread never meet in the translation cache, and a         *)
(* translation that starts was made from what the memory holds.            *)
(***************************************************************************)
EXTENDS DrcThread, TLAPS

(* The thread holds the lock unless it waits, and has a block while it     *)
(* compiles; when it has been joined, it is gone and no block is posted    *)
Holding == {"test", "again", "read", "add", "done"}
ThreadInv ==
  /\ owner = "thread" <=> tpc \in Holding
  /\ tpc \in {"read", "add", "done"} => busy # None
  /\ ~handle => tpc = "gone" /\ busy = None
  /\ mpc \in {"enter", "post", "signal", "exit", "signal_exit", "join"} => handle

(* Where the emulation thread runs translated code or changes the cache no *)
(* block is posted; nor when it posts one, or goes back to translated code *)
Quiet == {"code", "unwind", "clear", "reset", "load", "save", "full", "apply", "stopped", "toggle"}
QuietInv ==
  /\ mpc \in Quiet \cup {"post"} => busy = None
  /\ mpc \in {"quick", "range"} /\ back = "code" => busy = None

(* A translation found in the hash table is a clean one, and every         *)
(* translation was made from the source that was copied for it             *)
Indexed == \A a \in Addr : hash[a] # None => \E b \in Clean(a) : b.code = hash[a]
Copied == \A a \in Addr : \A b \in blocks[a] : b.code = b.copy

(* What the emulation thread has written and not told the cache of         *)
At(k) == mpc = k \/ (mpc \in {"sync", "synced"} /\ next = k)
Stale == IF At("reset") \/ At("load") THEN Addr
         ELSE IF mpc \in {"quick", "range"} \/ At("clear") THEN {arg} ELSE {}
Fresh == \A a \in Addr \ Stale : \A b \in Clean(a) : b.code = mem[a]

(* A written block is not the one that is compiled; when it had no         *)
(* translation, it has none; and the thread holds what the memory holds    *)
WriteInv ==
  /\ mpc \in {"quick", "range"} => busy # arg
  /\ mpc = "range" => blocks[arg] = {}
  /\ tpc = "add" => code = mem[busy]

LockInv == TypeOK /\ ThreadInv /\ QuietInv
TruthInv == Indexed /\ Copied /\ Fresh /\ WriteInv /\ CodeTruth
SourceInv == LockInv /\ TruthInv

-----------------------------------------------------------------------------
(* The operations of the cache                                             *)

CacheOK == blocks \in [Addr -> SUBSET Block] /\ hash \in [Addr -> Version \cup {None}]

(* Blocks that are marked keep their translations and their copies.        *)
LEMMA DirtiedAre ==
  ASSUME NEW S \in SUBSET Block
  PROVE  /\ \A b \in Dirtied(S) : b \in Block /\ b.dirty /\ \E d \in S : b.code = d.code /\ b.copy = d.copy
         /\ \A d \in S : \E b \in Dirtied(S) : b.code = d.code /\ b.copy = d.copy
<1>1. ASSUME NEW d \in S
      PROVE  \E e \in Block : /\ e = [d EXCEPT !.dirty = TRUE]
                              /\ e.code = d.code /\ e.copy = d.copy /\ e.dirty
  <2>1. /\ [d EXCEPT !.dirty = TRUE] \in Block
        /\ [d EXCEPT !.dirty = TRUE].code = d.code /\ [d EXCEPT !.dirty = TRUE].copy = d.copy
        /\ [d EXCEPT !.dirty = TRUE].dirty
    BY DEF Block
  <2>2. QED  BY <2>1, Zenon
<1>2. \A b \in Dirtied(S) : \E d \in S : b = [d EXCEPT !.dirty = TRUE]
  BY DEF Dirtied
<1>3. \A d \in S : [d EXCEPT !.dirty = TRUE] \in Dirtied(S)
  BY DEF Dirtied
<1>4. ASSUME NEW b \in Dirtied(S)
      PROVE  b \in Block /\ b.dirty /\ \E d \in S : b.code = d.code /\ b.copy = d.copy
  <2>1. PICK d \in S : b = [d EXCEPT !.dirty = TRUE]
    BY <1>2
  <2>2. PICK e \in Block : e = [d EXCEPT !.dirty = TRUE]
                          /\ e.code = d.code /\ e.copy = d.copy /\ e.dirty
    BY <1>1
  <2>3. b = e
    BY <2>1, <2>2
  <2>4. QED  BY <2>2, <2>3
<1>5. ASSUME NEW d \in S
      PROVE  \E b \in Dirtied(S) : b.code = d.code /\ b.copy = d.copy
  <2>1. PICK e \in Block : e = [d EXCEPT !.dirty = TRUE]
                          /\ e.code = d.code /\ e.copy = d.copy /\ e.dirty
    BY <1>1
  <2>2. e \in Dirtied(S)
    BY <1>3, <2>1
  <2>3. QED  BY <2>1, <2>2
<1>6. QED  BY <1>4, <1>5

LEMMA CleanedAre ==
  ASSUME NEW S \in SUBSET Block
  PROVE  /\ \A b \in Cleaned(S) : b \in Block /\ ~b.dirty /\ \E d \in S : b.code = d.code /\ b.copy = d.copy
         /\ \A d \in S : \E b \in Cleaned(S) : b.code = d.code /\ b.copy = d.copy
<1>1. ASSUME NEW d \in S
      PROVE  \E e \in Block : /\ e = [d EXCEPT !.dirty = FALSE]
                              /\ e.code = d.code /\ e.copy = d.copy /\ ~e.dirty
  <2>1. /\ [d EXCEPT !.dirty = FALSE] \in Block
        /\ [d EXCEPT !.dirty = FALSE].code = d.code /\ [d EXCEPT !.dirty = FALSE].copy = d.copy
        /\ ~[d EXCEPT !.dirty = FALSE].dirty
    BY DEF Block
  <2>2. QED  BY <2>1, Zenon
<1>2. \A b \in Cleaned(S) : \E d \in S : b = [d EXCEPT !.dirty = FALSE]
  BY DEF Cleaned
<1>3. \A d \in S : [d EXCEPT !.dirty = FALSE] \in Cleaned(S)
  BY DEF Cleaned
<1>4. ASSUME NEW b \in Cleaned(S)
      PROVE  b \in Block /\ ~b.dirty /\ \E d \in S : b.code = d.code /\ b.copy = d.copy
  <2>1. PICK d \in S : b = [d EXCEPT !.dirty = FALSE]
    BY <1>2
  <2>2. PICK e \in Block : e = [d EXCEPT !.dirty = FALSE]
                          /\ e.code = d.code /\ e.copy = d.copy /\ ~e.dirty
    BY <1>1
  <2>3. b = e
    BY <2>1, <2>2
  <2>4. QED  BY <2>2, <2>3
<1>5. ASSUME NEW d \in S
      PROVE  \E b \in Cleaned(S) : b.code = d.code /\ b.copy = d.copy
  <2>1. PICK e \in Block : e = [d EXCEPT !.dirty = FALSE]
                          /\ e.code = d.code /\ e.copy = d.copy /\ ~e.dirty
    BY <1>1
  <2>2. e \in Cleaned(S)
    BY <1>3, <2>1
  <2>3. QED  BY <2>1, <2>2
<1>6. QED  BY <1>4, <1>5

(* A block that is found has a clean translation, in the hash table from   *)
(* now on; a dirty one that is good again was made from its source.        *)
LEMMA LookupFinds ==
  ASSUME TypeOK, NEW a, NEW v \in Version, Lookup(a, v)
  PROVE  /\ CacheOK'
         /\ Indexed => Indexed' /\ (a \in Addr => \E b \in Clean(a)' : b.code = v)
         /\ Copied => Copied' /\ \A x \in Addr : \A b \in Clean(x)' : b \in Clean(x) \/ b.code = mem[x]
         /\ \A x \in Addr : x # a => blocks'[x] = blocks[x]
<1>1. CASE hash[a] # None /\ v = hash[a] /\ UNCHANGED cache
  BY <1>1 DEF cache, TypeOK, CacheOK, Indexed, Copied, Clean
<1>2. CASE /\ hash[a] = None
           /\ \E b \in Clean(a) : v = b.code
           /\ hash' = [hash EXCEPT ![a] = v] /\ UNCHANGED blocks
  BY <1>2 DEF TypeOK, CacheOK, Indexed, Copied, Clean
<1>3. CASE /\ hash[a] = None /\ Clean(a) = {}
           /\ \E b \in Restorable(a) :
                /\ v = b.code
                /\ blocks' = [blocks EXCEPT ![a] = (@ \ {b}) \cup Cleaned({b})]
                /\ hash' = [hash EXCEPT ![a] = v]
  <2>1. PICK b \in Restorable(a) :
                /\ v = b.code
                /\ blocks' = [blocks EXCEPT ![a] = (@ \ {b}) \cup Cleaned({b})]
                /\ hash' = [hash EXCEPT ![a] = v]
    BY <1>3
  <2>2. CASE a \notin Addr
    BY <2>1, <2>2 DEF TypeOK, CacheOK, Indexed, Copied, Clean
  <2>3. CASE a \in Addr
    <3>1. b \in blocks[a] /\ b \in Block /\ b.copy = mem[a] /\ b.dirty
      BY <2>1, <2>3 DEF Restorable, TypeOK
    <3>2. \A c \in Cleaned({b}) : c \in Block /\ ~c.dirty /\ c.code = v /\ c.copy = mem[a]
      BY <2>1, <3>1, CleanedAre
    <3>3. Cleaned({b}) # {}
      BY <3>1, CleanedAre
    <3>4. \A x \in Addr : /\ blocks'[x] = IF x = a THEN (blocks[x] \ {b}) \cup Cleaned({b}) ELSE blocks[x]
                          /\ hash'[x] = IF x = a THEN v ELSE hash[x]
      BY <2>1 DEF TypeOK
    <3>5. CacheOK'
      <4>1. \A x \in Addr : blocks[x] \subseteq Block /\ hash[x] \in Version \cup {None}
        BY DEF TypeOK
      <4>2. \A x \in Addr : blocks'[x] \subseteq Block /\ hash'[x] \in Version \cup {None}
        BY <3>2, <3>4, <4>1
      <4>3. blocks' = [x \in Addr |-> blocks'[x]] /\ hash' = [x \in Addr |-> hash'[x]]
        BY <2>1 DEF TypeOK
      <4>4. QED  BY <4>2, <4>3 DEF CacheOK
    <3>6. \A x \in Addr : Clean(x)' = IF x = a THEN Clean(x) \cup Cleaned({b}) ELSE Clean(x)
      BY <3>1, <3>2, <3>4 DEF Clean
    <3>7. \E c \in Clean(a)' : c.code = v
      BY <2>3, <3>2, <3>3, <3>6
    <3>8. Indexed => Indexed'
      BY <3>4, <3>6, <3>7 DEF Indexed
    <3>9. Copied => v = mem[a]
      BY <2>1, <2>3, <3>1 DEF Copied
    <3>10. Copied => Copied'
      <4>1. \A x \in Addr : \A d \in blocks'[x] : d \in blocks[x] \/ (x = a /\ d \in Cleaned({b}))
        BY <3>4
      <4>2. QED  BY <3>2, <3>9, <4>1 DEF Copied
    <3>11. Copied => \A x \in Addr : \A d \in Clean(x)' : d \in Clean(x) \/ d.code = mem[x]
      BY <3>2, <3>6, <3>9
    <3>12. QED  BY <3>4, <3>5, <3>7, <3>8, <3>10, <3>11
  <2>4. QED  BY <2>2, <2>3
<1>4. QED  BY <1>1, <1>2, <1>3 DEF Lookup

(* A translation that is added is clean and, made from what the memory     *)
(* holds, vouched for by its copy.                                         *)
LEMMA AddPuts ==
  ASSUME TypeOK, NEW a \in Addr, NEW v \in Version, Add(a, v)
  PROVE  /\ CacheOK'
         /\ Indexed => Indexed'
         /\ v = mem[a] => /\ Copied => Copied'
                          /\ \A x \in Addr : \A b \in Clean(x)' : b \in Clean(x) \/ b.code = mem[x]
         /\ \A x \in Addr : x # a => blocks'[x] = blocks[x]
<1> DEFINE c == [code |-> v, copy |-> mem[a], dirty |-> FALSE]
<1>1. c \in Block /\ c.code = v /\ c.copy = mem[a] /\ ~c.dirty
  BY DEF TypeOK, Block
<1>2. /\ blocks' = [blocks EXCEPT ![a] = @ \cup {c}]
      /\ hash' = [hash EXCEPT ![a] = v]
  BY DEF Add
<1> HIDE DEF c
<1>3. CacheOK'
  BY <1>1, <1>2 DEF CacheOK, TypeOK
<1>4. Indexed => Indexed'
  BY <1>1, <1>2 DEF Indexed, Clean, TypeOK
<1>5. v = mem[a] => /\ Copied => Copied'
                   /\ \A x \in Addr : \A b \in Clean(x)' : b \in Clean(x) \/ b.code = mem[x]
  <2>1. \A x \in Addr : blocks'[x] = IF x = a THEN blocks[x] \cup {c} ELSE blocks[x]
    BY <1>2 DEF TypeOK
  <2>2. QED  BY <1>1, <2>1 DEF Copied, Clean
<1>6. QED  BY <1>2, <1>3, <1>4, <1>5 DEF TypeOK

(* The blocks that are invalidated have no clean translation left.         *)
LEMMA InvalidateDirties ==
  ASSUME TypeOK, NEW S, Invalidate(S)
  PROVE  /\ CacheOK'
         /\ Indexed => Indexed'
         /\ Copied => Copied'
         /\ \A x \in Addr : Clean(x)' = IF x \in S THEN {} ELSE Clean(x)
<1>1. \A x \in Addr : x \notin S => blocks'[x] = blocks[x] /\ hash'[x] = hash[x]
  BY DEF Invalidate, TypeOK
<1>2. \A x \in Addr \cap S : blocks'[x] = Dirtied(blocks[x])
                            /\ hash'[x] = IF Clean(x) # {} THEN None ELSE hash[x]
  BY DEF Invalidate, TypeOK
<1>3. ASSUME NEW x \in Addr \cap S
      PROVE  /\ Dirtied(blocks[x]) \subseteq Block
             /\ \A b \in Dirtied(blocks[x]) : b.dirty
             /\ (\A b \in blocks[x] : b.code = b.copy) => \A b \in Dirtied(blocks[x]) : b.code = b.copy
  BY DirtiedAre DEF TypeOK
<1>4. CacheOK'
  <2>1. ASSUME NEW x \in Addr
        PROVE  blocks'[x] \subseteq Block /\ hash'[x] \in Version \cup {None}
    BY <1>1, <1>2, <1>3 DEF TypeOK
  <2>2. QED  BY <2>1 DEF CacheOK, Invalidate
<1>5. \A x \in Addr : Clean(x)' = IF x \in S THEN {} ELSE Clean(x)
  BY <1>1, <1>2, <1>3 DEF Clean
<1>6. Indexed => Indexed'
  BY <1>1, <1>2, <1>5 DEF Indexed
<1>7. Copied => Copied'
  BY <1>1, <1>2, <1>3 DEF Copied
<1>8. QED  BY <1>4, <1>5, <1>6, <1>7

(* The whole cache is emptied.                                             *)
LEMMA ClearEmpties ==
  ASSUME ClearFull
  PROVE  /\ CacheOK' /\ Indexed' /\ Copied'
         /\ \A x \in Addr : Clean(x)' = {}
BY DEF ClearFull, CacheOK, Indexed, Copied, Clean, Block

(* When a save state has been loaded, every clean translation was made     *)
(* from what the memory holds.                                             *)
LEMMA LoadRenews ==
  ASSUME TypeOK, NEW S \in SUBSET Addr, LoadBlocks(S)
  PROVE  /\ CacheOK'
         /\ Indexed => Indexed'
         /\ Copied => Copied' /\ \A x \in Addr : \A b \in Clean(x)' : b.code = mem[x]
<1> DEFINE good(x) == {b \in blocks[x] : b.copy = mem[x]}
           kept(x) == Cleaned(good(x)) \cup Dirtied(blocks[x] \ good(x))
           known(x) == IF good(x) = blocks[x] THEN hash[x] ELSE None
           fresh(x) == x \in S \ Bad /\ known(x) = None /\ \A b \in kept(x) : b.dirty
           made(x) == [code |-> mem[x], copy |-> mem[x], dirty |-> FALSE]
<1>1. /\ blocks' = [x \in Addr |-> kept(x) \cup IF fresh(x) THEN {made(x)} ELSE {}]
      /\ hash' = [x \in Addr |-> IF fresh(x) THEN mem[x]
                             ELSE IF x \in S \ Bad /\ known(x) = None
                                  THEN (CHOOSE b \in kept(x) : ~b.dirty).code
                             ELSE known(x)]
  BY DEF LoadBlocks
<1>2. ASSUME NEW x \in Addr
      PROVE  /\ kept(x) \subseteq Block
             /\ \A b \in kept(x) : b.dirty <=> b.copy # mem[x]
             /\ \A b \in kept(x) : \E d \in blocks[x] : b.code = d.code /\ b.copy = d.copy
             /\ \A d \in blocks[x] : \E b \in kept(x) : b.code = d.code /\ b.copy = d.copy
             /\ made(x) \in Block /\ made(x).code = mem[x] /\ made(x).copy = mem[x] /\ ~made(x).dirty
             /\ known(x) \in Version \cup {None}
             /\ Indexed /\ known(x) # None => \E b \in kept(x) : ~b.dirty /\ b.code = known(x)
  <2>1. /\ good(x) \subseteq Block /\ blocks[x] \ good(x) \subseteq Block
        /\ \A d \in good(x) : d.copy = mem[x]
        /\ \A d \in blocks[x] \ good(x) : d.copy # mem[x]
        /\ good(x) \subseteq blocks[x]
    BY DEF TypeOK
  <2>2. /\ kept(x) \subseteq Block
        /\ \A b \in kept(x) : b.dirty <=> b.copy # mem[x]
        /\ \A b \in kept(x) : \E d \in blocks[x] : b.code = d.code /\ b.copy = d.copy
        /\ \A d \in blocks[x] : \E b \in kept(x) : b.code = d.code /\ b.copy = d.copy
    <3> HIDE DEF good
    <3>1. ASSUME NEW b \in kept(x)
          PROVE  /\ b \in Block /\ (b.dirty <=> b.copy # mem[x])
                 /\ \E d \in blocks[x] : b.code = d.code /\ b.copy = d.copy
      <4>1. CASE b \in Cleaned(good(x))
        BY <2>1, <4>1, CleanedAre
      <4>2. CASE b \in Dirtied(blocks[x] \ good(x))
        BY <2>1, <4>2, DirtiedAre
      <4>3. QED  BY <4>1, <4>2
    <3>2. ASSUME NEW d \in blocks[x]
          PROVE  \E b \in kept(x) : b.code = d.code /\ b.copy = d.copy
      <4>1. CASE d \in good(x)
        BY <2>1, <4>1, CleanedAre
      <4>2. CASE d \notin good(x)
        BY <2>1, <4>2, DirtiedAre
      <4>3. QED  BY <4>1, <4>2
    <3> HIDE DEF kept
    <3>3. QED  BY <3>1, <3>2
  <2>3. made(x) \in Block /\ made(x).code = mem[x] /\ made(x).copy = mem[x] /\ ~made(x).dirty
    BY DEF TypeOK, Block
  <2>4. known(x) \in Version \cup {None}
    BY DEF TypeOK
  <2>5. ASSUME Indexed, known(x) # None
        PROVE  \E b \in kept(x) : ~b.dirty /\ b.code = known(x)
    <3>1. hash[x] # None /\ known(x) = hash[x] /\ \A d \in blocks[x] : d.copy = mem[x]
      BY <2>1, <2>5
    <3>2. PICK d \in blocks[x] : d.code = hash[x]
      BY <2>5, <3>1 DEF Indexed, Clean
    <3> HIDE DEF kept, known, good
    <3>3. PICK b \in kept(x) : b.code = d.code /\ b.copy = d.copy
      BY <2>2
    <3>4. QED  BY <2>2, <3>1, <3>2, <3>3
  <2> HIDE DEF good, kept, known, made
  <2>6. QED  BY <2>2, <2>3, <2>4, <2>5
<1>3. ASSUME NEW x \in Addr
      PROVE  /\ blocks'[x] = kept(x) \cup IF fresh(x) THEN {made(x)} ELSE {}
             /\ fresh(x) => hash'[x] = mem[x]
             /\ ~fresh(x) /\ x \in S \ Bad /\ known(x) = None =>
                  \E b \in kept(x) : ~b.dirty /\ hash'[x] = b.code
             /\ ~fresh(x) /\ ~(x \in S \ Bad /\ known(x) = None) => hash'[x] = known(x)
  <2>1. blocks'[x] = kept(x) \cup IF fresh(x) THEN {made(x)} ELSE {}
    BY <1>1
  <2>2. hash'[x] = IF fresh(x) THEN mem[x]
                   ELSE IF x \in S \ Bad /\ known(x) = None
                        THEN (CHOOSE b \in kept(x) : ~b.dirty).code
                   ELSE known(x)
    BY <1>1
  <2>3. ~fresh(x) /\ x \in S \ Bad /\ known(x) = None => \E b \in kept(x) : ~b.dirty
    OBVIOUS
  <2> HIDE DEF good, kept, known, made, fresh
  <2>4. QED  BY <2>1, <2>2, <2>3
<1> HIDE DEF good, kept, known, made
<1>4. CacheOK'
  <2>1. ASSUME NEW x \in Addr
        PROVE  blocks'[x] \subseteq Block /\ hash'[x] \in Version \cup {None}
    BY <1>2, <1>3 DEF TypeOK, Block
  <2>2. QED  BY <1>1, <2>1 DEF CacheOK
<1>5. Indexed => Indexed'
  <2>1. ASSUME Indexed, NEW x \in Addr, hash'[x] # None
        PROVE  \E b \in blocks'[x] : ~b.dirty /\ b.code = hash'[x]
    BY <1>2, <1>3, <2>1
  <2>2. QED  BY <2>1 DEF Indexed, Clean
<1>6. Copied => Copied' /\ \A x \in Addr : \A b \in Clean(x)' : b.code = mem[x]
  BY <1>2, <1>3 DEF Copied, Clean
<1>7. QED  BY <1>4, <1>5, <1>6

-----------------------------------------------------------------------------
(* Who holds the lock and where the emulation thread is                    *)

LEMMA LockInit == Init => LockInv
<1> SUFFICES ASSUME Init PROVE LockInv
  OBVIOUS
<1>1. 0 \in Version /\ 0 \in 0..MaxOps
  BY DrcAssumption DEF Version
<1>2. TypeOK
  <2>1. mem \in [Addr -> Version] /\ blocks \in [Addr -> SUBSET Block]
        /\ hash \in [Addr -> Version \cup {None}] /\ ran \in [code : Version, source : Version]
    BY <1>1 DEF Init
  <2>2. busy = None /\ exit = FALSE /\ handle = TRUE /\ owner = "none" /\ tpc = "start" /\ code = 0
        /\ mpc = "front" /\ arg \in Addr /\ next = "front" /\ back = "slow" /\ rec = 0 /\ ops = 0
    BY DEF Init
  <2>3. exit \in BOOLEAN /\ handle \in BOOLEAN
    BY <2>2, Zenon
  <2>4. QED  BY <1>1, <2>1, <2>2, <2>3 DEF TypeOK
<1>3. ThreadInv /\ QuietInv
  BY DEF Init, ThreadInv, QuietInv, Quiet, Holding
<1>4. QED  BY <1>2, <1>3 DEF LockInv

(* A step of the compile thread                                            *)
LEMMA ThreadKeepsLock ==
  ASSUME LockInv, Thread \/ ThreadSpurious
  PROVE  ThreadInv' /\ QuietInv'
<1> USE DEF LockInv, ThreadInv, QuietInv, Quiet, Holding, cache, lockv, mainv
<1>1. CASE ThreadLock
  BY <1>1 DEF ThreadLock
<1>2. CASE ThreadTest
  BY <1>2 DEF ThreadTest
<1>3. CASE ThreadAgain
  BY <1>3 DEF ThreadAgain
<1>4. CASE ThreadRead
  BY <1>4 DEF ThreadRead
<1>5. CASE ThreadAdd
  BY <1>5 DEF ThreadAdd
<1>6. CASE ThreadDone
  BY <1>6 DEF ThreadDone
<1>7. CASE ThreadSpurious
  BY <1>7 DEF ThreadSpurious
<1>8. QED  BY <1>1, <1>2, <1>3, <1>4, <1>5, <1>6, <1>7 DEF Thread

(* A step within a call of the emulation thread                            *)
LEMMA InCallKeepsLock ==
  ASSUME LockInv, InCall
  PROVE  ThreadInv' /\ QuietInv'
<1> USE DEF LockInv, ThreadInv, QuietInv, Quiet, Holding, cache, lockv, mainv, Sync
<1>0. TypeOK
  OBVIOUS
<1>1. CASE SyncLock
  BY <1>1 DEF SyncLock
<1>2. CASE SyncTest
  BY <1>0, <1>2 DEF SyncTest, Synced, TypeOK
<1>3. CASE Post
  BY <1>3 DEF Post
<1>4. CASE SignalPost
  BY <1>4 DEF SignalPost, Wake
<1>5. CASE QuickCheck
  BY <1>5 DEF QuickCheck
<1>6. CASE RangeCheck
  BY <1>0, <1>6 DEF RangeCheck, TypeOK
<1>7. CASE Clear
  BY <1>0, <1>7 DEF Clear, TypeOK
<1>8. CASE ResetCache \/ LoadCache \/ SaveCache \/ FullCache
  BY <1>8 DEF ResetCache, LoadCache, SaveCache, FullCache, Synched
<1>9. CASE Apply
  BY <1>9 DEF Apply
<1>10. CASE Init_
  BY <1>10 DEF Init_
<1>11. CASE Toggle
  BY <1>11 DEF Toggle
<1>12. CASE PostExit
  BY <1>12 DEF PostExit
<1>13. CASE SignalExit
  BY <1>13 DEF SignalExit, Wake
<1>14. CASE Join
  BY <1>0, <1>14 DEF Join, TypeOK
<1>15. QED
  BY <1>1, <1>2, <1>3, <1>4, <1>5, <1>6, <1>7, <1>8, <1>9, <1>10, <1>11, <1>12, <1>13, <1>14
     DEF InCall

(* The emulation thread runs translated code only with no block posted,    *)
(* and leaves it for the interpreter before it posts one                   *)
LEMMA EmulateKeepsLock ==
  ASSUME LockInv, Emulate
  PROVE  ThreadInv' /\ QuietInv'
<1> USE DEF LockInv, ThreadInv, QuietInv, Quiet, Holding, cache, lockv, mainv, Sync, Leave, StartCode
<1>1. CASE Pick
  BY <1>1 DEF Pick
<1>2. CASE EnterSlow
  BY <1>2 DEF EnterSlow
<1>3. CASE Interpret
  BY <1>3 DEF Interpret
<1>4. CASE Jump
  BY <1>4 DEF Jump
<1>5. CASE SoftCall
  BY <1>5 DEF SoftCall
<1>6. CASE Unwind
  BY <1>6 DEF Unwind
<1>7. CASE \E a \in Addr : CodeStore(a) \/ Store(a)
  BY <1>7 DEF CodeStore, Store
<1>8. QED  BY <1>1, <1>2, <1>3, <1>4, <1>5, <1>6, <1>7 DEF Emulate

(* A call of the frontend                                                  *)
LEMMA FrontendKeepsLock ==
  ASSUME LockInv, Frontend
  PROVE  ThreadInv' /\ QuietInv'
<1> USE DEF LockInv, ThreadInv, QuietInv, Quiet, Holding, cache, lockv, mainv, Sync
<1>1. CASE Frame
  BY <1>1 DEF Frame
<1>2. CASE \E k \in {"reset", "load", "save", "full", "apply"} : Call(k)
  BY <1>2 DEF Call
<1>3. CASE Shutdown
  BY <1>3 DEF Shutdown
<1>4. QED
  BY <1>1, <1>2, <1>3 DEF Frontend, Reset, LoadState, SaveState, ClearCache, ApplyConfig

(* Every step keeps the types; the cache keeps its own by the lemmas above *)
LEMMA TypeStep ==
  ASSUME LockInv, [Next]_vars
  PROVE  TypeOK'
<1> USE DEF cache, lockv, mainv
<1>1. TypeOK /\ (tpc \in {"read", "add", "done"} => busy \in Addr) /\ 0 \in Version
  BY DrcAssumption DEF LockInv, ThreadInv, TypeOK, Version
<1>2. \A a \in Addr : mem[a] \in Version
  BY <1>1 DEF TypeOK
<1>3. ASSUME NEW a \in Addr, Writable(a)
      PROVE  mem[a] + 1 \in Version
  BY <1>2, <1>3, DrcAssumption DEF Writable, Version
<1>4. \A a, v : v \in Version /\ Lookup(a, v) => CacheOK'
  BY <1>1, LookupFinds
<1>5. CASE Thread \/ ThreadSpurious
  <2>1. CASE ThreadRead
    <3>1. CacheOK'
      BY <1>1, <1>4, <2>1 DEF ThreadRead, CacheOK, TypeOK
    <3>2. code' \in Version
      BY <1>1, <1>2, <2>1 DEF ThreadRead, TypeOK
    <3>3. QED  BY <1>1, <2>1, <3>1, <3>2 DEF ThreadRead, TypeOK, CacheOK
  <2>2. CASE ThreadAdd
    <3>1. CacheOK'
      BY <1>1, <2>2, AddPuts DEF ThreadAdd, TypeOK
    <3>2. QED  BY <1>1, <2>2, <3>1 DEF ThreadAdd, TypeOK, CacheOK
  <2>3. CASE ThreadLock \/ ThreadTest \/ ThreadAgain \/ ThreadDone \/ ThreadSpurious
    BY <1>1, <2>3 DEF ThreadLock, ThreadTest, ThreadAgain, ThreadDone, ThreadSpurious, TypeOK
  <2>4. QED  BY <1>5, <2>1, <2>2, <2>3 DEF Thread
<1>6. CASE InCall
  <2>1. CASE \/ SyncLock \/ SyncTest \/ Post \/ SignalPost \/ QuickCheck \/ RangeCheck \/ SaveCache
             \/ Toggle \/ PostExit \/ SignalExit \/ Join
    <3>1. CASE SyncLock \/ SyncTest \/ Post
      BY <1>1, <3>1 DEF SyncLock, SyncTest, Post, Synced, TypeOK
    <3>2. CASE SignalPost \/ QuickCheck \/ RangeCheck \/ SaveCache
      BY <1>1, <3>2 DEF SignalPost, QuickCheck, RangeCheck, SaveCache, Synched, Wake, Sync, TypeOK
    <3>3. CASE Toggle \/ PostExit
      <4>1. exit \in BOOLEAN /\ handle \in BOOLEAN
        BY <1>1 DEF TypeOK
      <4>2. exit' \in BOOLEAN /\ handle' \in BOOLEAN
        BY <3>3, <4>1, Zenon DEF Toggle, PostExit
      <4>3. QED  BY <1>1, <3>3, <4>2 DEF Toggle, PostExit, TypeOK
    <3>4. CASE SignalExit \/ Join
      <4>1. exit \in BOOLEAN /\ handle \in BOOLEAN
        BY <1>1 DEF TypeOK
      <4>2. exit' \in BOOLEAN /\ handle' \in BOOLEAN
        BY <3>4, <4>1, Zenon DEF SignalExit, Join
      <4>3. QED  BY <1>1, <3>4, <4>2 DEF SignalExit, Join, Wake, TypeOK
    <3>5. QED  BY <2>1, <3>1, <3>2, <3>3, <3>4
  <2>2. CASE Clear
    <3>1. CacheOK'
      BY <1>1, <2>2, InvalidateDirties DEF Clear
    <3>2. QED  BY <1>1, <2>2, <3>1 DEF Clear, TypeOK, CacheOK
  <2>3. CASE ResetCache
    <3>1. CacheOK'
      BY <1>1, <2>3, InvalidateDirties DEF ResetCache
    <3>2. QED  BY <1>1, <2>3, <3>1 DEF ResetCache, Synched, TypeOK, CacheOK
  <2>4. CASE LoadCache
    <3>1. CacheOK'
      BY <1>1, <2>4, LoadRenews DEF LoadCache
    <3>2. QED  BY <1>1, <2>4, <3>1 DEF LoadCache, Synched, TypeOK, CacheOK
  <2>5. CASE FullCache \/ Init_
    <3>1. CacheOK'
      BY <2>5, ClearEmpties DEF FullCache, Init_
    <3>2. QED  BY <1>1, <2>5, <3>1 DEF FullCache, Init_, Synched, TypeOK, CacheOK
  <2>6. CASE Apply
    <3>1. CacheOK'
      BY <1>1, <2>6, ClearEmpties DEF Apply, CacheOK, TypeOK
    <3>2. QED  BY <1>1, <2>6, <3>1 DEF Apply, TypeOK, CacheOK
  <2>7. QED  BY <1>6, <2>1, <2>2, <2>3, <2>4, <2>5, <2>6 DEF InCall
<1>7. CASE Emulate
  <2>1. CASE Pick
    <3>1. CacheOK'
      BY <1>1, <1>2, <1>4, <2>1, AddPuts DEF Pick, TypeOK, CacheOK
    <3>2. ran' \in [code : Version, source : Version] /\ mpc' \in {"code", "enter"}
      BY <1>1, <1>2, <2>1 DEF Pick, StartCode, TypeOK
    <3>3. QED  BY <1>1, <2>1, <3>1, <3>2 DEF Pick, TypeOK, CacheOK
  <2>2. CASE Jump
    <3>1. CacheOK'
      BY <1>1, <1>4, <2>2 DEF Jump, TypeOK, CacheOK
    <3>2. ran' \in [code : Version, source : Version]
      BY <1>1, <1>2, <2>2 DEF Jump, StartCode, TypeOK
    <3>3. QED  BY <1>1, <2>2, <3>1, <3>2 DEF Jump, StartCode, Leave, Sync, TypeOK, CacheOK
  <2>3. ASSUME NEW a \in Addr, CodeStore(a) PROVE TypeOK'
    <3>1. CacheOK'
      BY <1>1, <2>3, InvalidateDirties DEF CodeStore
    <3>2. mem' \in [Addr -> Version]
      BY <1>1, <1>3, <2>3 DEF CodeStore, TypeOK
    <3>3. QED  BY <1>1, <2>3, <3>1, <3>2 DEF CodeStore, TypeOK, CacheOK
  <2>4. ASSUME NEW a \in Addr, Store(a) PROVE TypeOK'
    <3>1. mem' \in [Addr -> Version]
      BY <1>1, <1>3, <2>4 DEF Store, TypeOK
    <3>2. QED  BY <1>1, <2>4, <3>1 DEF Store, TypeOK
  <2>5. CASE EnterSlow \/ Interpret \/ SoftCall \/ Unwind
    <3>1. CASE EnterSlow \/ Unwind
      BY <1>1, <3>1 DEF EnterSlow, Unwind, TypeOK
    <3>2. CASE Interpret
      BY <1>1, <3>2 DEF Interpret, Leave, Sync, TypeOK
    <3>3. CASE SoftCall
      BY <1>1, <3>3 DEF SoftCall, TypeOK
    <3>4. QED  BY <2>5, <3>1, <3>2, <3>3
  <2>6. QED  BY <1>7, <2>1, <2>2, <2>3, <2>4, <2>5 DEF Emulate
<1>8. CASE Frontend
  <2>1. CASE Frame
    BY <1>1, <2>1 DEF Frame, TypeOK
  <2>2. CASE Shutdown
    <3>1. ops' \in 0..MaxOps
      BY <1>1, <2>2, DrcAssumption DEF Shutdown, TypeOK
    <3>2. QED  BY <1>1, <2>2, <3>1 DEF Shutdown, TypeOK
  <2>3. ASSUME NEW k \in {"reset", "load", "save", "full", "apply"}, Call(k),
               mem' \in [Addr -> Version]
        PROVE  TypeOK'
    <3>1. ops' \in 0..MaxOps
      BY <1>1, <2>3, DrcAssumption DEF Call, TypeOK
    <3>2. mpc' \in {k, "sync"} /\ next' \in {k, next}
      BY <2>3 DEF Call, Sync
    <3>3. UNCHANGED <<cache, lockv, tpc, code, arg, back, rec, ran>>
      BY <2>3 DEF Call
    <3>4. QED  BY <1>1, <2>3, <3>1, <3>2, <3>3 DEF TypeOK
  <2>4. CASE Reset \/ LoadState
    <3>1. PICK S \in SUBSET {a \in Addr : Writable(a)} : Overwritten(S)
      BY <2>4 DEF Reset, LoadState
    <3>2. mem' \in [Addr -> Version]
      BY <1>2, <1>3, <3>1 DEF Overwritten
    <3>3. QED  BY <2>3, <2>4, <3>2 DEF Reset, LoadState
  <2>5. CASE SaveState \/ ClearCache \/ ApplyConfig
    BY <1>1, <2>3, <2>5 DEF SaveState, ClearCache, ApplyConfig, TypeOK
  <2>6. QED  BY <1>8, <2>1, <2>2, <2>4, <2>5 DEF Frontend
<1>9. CASE UNCHANGED vars
  BY <1>1, <1>9 DEF vars, TypeOK
<1>10. QED  BY <1>5, <1>6, <1>7, <1>8, <1>9 DEF Next

LEMMA LockStep == LockInv /\ [Next]_vars => LockInv'
<1> SUFFICES ASSUME LockInv, [Next]_vars PROVE LockInv'
  OBVIOUS
<1>1. TypeOK'
  BY TypeStep
<1>2. ThreadInv' /\ QuietInv'
  <2>1. CASE Next
    BY <2>1, ThreadKeepsLock, InCallKeepsLock, EmulateKeepsLock, FrontendKeepsLock DEF Next
  <2>2. CASE UNCHANGED vars
    BY <2>2 DEF LockInv, ThreadInv, QuietInv, vars
  <2>3. QED  BY <2>1, <2>2
<1>3. QED  BY <1>1, <1>2 DEF LockInv

(* The state keeps its types, for any blocks and bounds.                   *)
THEOREM TypeCorrect == Spec => []TypeOK
<1>1. LockInv => TypeOK
  BY DEF LockInv
<1>2. QED  BY <1>1, LockInit, LockStep, PTL DEF Spec

(* While the compile thread looks up, translates or adds a block, the      *)
(* emulation thread neither runs translated code nor changes the cache.    *)
THEOREM CacheIsExclusive == Spec => []Exclusive
<1>1. LockInv => Exclusive
  BY DEF LockInv, ThreadInv, QuietInv, Quiet, Exclusive
<1>2. QED  BY <1>1, LockInit, LockStep, PTL DEF Spec

-----------------------------------------------------------------------------
(* What the cache holds is true: the source of a block is not written      *)
(* while the block is compiled (~Torn)                                     *)

LEMMA SourceInit == Init => SourceInv
<1> SUFFICES ASSUME Init PROVE SourceInv
  OBVIOUS
<1>1. LockInv
  BY LockInit
<1>2. Indexed /\ Copied /\ Fresh
  BY DEF Init, Indexed, Copied, Fresh, Clean
<1>3. WriteInv /\ CodeTruth
  BY DEF Init, WriteInv, CodeTruth
<1>4. QED  BY <1>1, <1>2, <1>3 DEF SourceInv, TruthInv

(* Where neither the memory nor the cache changes, it is enough that what  *)
(* is stale still counts as stale.                                         *)
LEMMA CacheIsLeft ==
  ASSUME SourceInv, UNCHANGED <<mem, cache>>, Stale \subseteq Stale'
  PROVE  Indexed' /\ Copied' /\ Fresh'
<1>1. Indexed' /\ Copied'
  BY DEF SourceInv, TruthInv, Indexed, Copied, Clean, cache
<1>2. \A a \in Addr : Clean(a)' = Clean(a)
  BY DEF Clean, cache
<1>3. Fresh'
  BY <1>2 DEF SourceInv, TruthInv, Fresh, cache
<1>4. QED  BY <1>1, <1>3

(* Where a translation is found, it was made from what the memory holds,   *)
(* unless the block is stale, and what was not stale stays true            *)
LEMMA FoundIsTrue ==
  ASSUME SourceInv, NEW a, NEW v \in Version, Lookup(a, v), mem' = mem, Stale' = Stale
  PROVE  Indexed' /\ Copied' /\ Fresh' /\ (a \in Addr \ Stale => v = mem[a])
<1>1. TypeOK /\ Indexed /\ Copied
  BY DEF SourceInv, TruthInv, LockInv
<1>2. /\ Indexed' /\ Copied'
      /\ a \in Addr => \E b \in Clean(a)' : b.code = v
      /\ \A x \in Addr : \A b \in Clean(x)' : b \in Clean(x) \/ b.code = mem[x]
  BY <1>1, LookupFinds
<1>3. \A x \in Addr \ Stale : \A b \in Clean(x)' : b.code = mem[x]
  BY <1>2 DEF SourceInv, TruthInv, Fresh
<1>4. Fresh'
  BY <1>3 DEF Fresh
<1>5. a \in Addr \ Stale => v = mem[a]
  BY <1>2, <1>3
<1>6. QED  BY <1>2, <1>4, <1>5

LEMMA AddedIsTrue ==
  ASSUME SourceInv, NEW a \in Addr, Add(a, mem[a]), mem' = mem, Stale' = Stale
  PROVE  Indexed' /\ Copied' /\ Fresh'
<1>1. TypeOK /\ Indexed /\ Copied /\ mem[a] \in Version
  BY DEF SourceInv, TruthInv, LockInv, TypeOK
<1>2. /\ Indexed' /\ Copied'
      /\ \A x \in Addr : \A b \in Clean(x)' : b \in Clean(x) \/ b.code = mem[x]
  BY <1>1, AddPuts
<1>3. \A x \in Addr \ Stale : \A b \in Clean(x)' : b.code = mem[x]
  BY <1>2 DEF SourceInv, TruthInv, Fresh
<1>4. QED  BY <1>2, <1>3 DEF Fresh

LEMMA ThreadKeepsTruth ==
  ASSUME SourceInv, Thread \/ ThreadSpurious
  PROVE  TruthInv'
<1> USE DEF mainv, lockv
<1>1. /\ TypeOK /\ (tpc \in {"read", "add", "done"} => busy \in Addr) /\ CodeTruth /\ WriteInv
      /\ \A a \in Addr : mem[a] \in Version
  BY DEF SourceInv, TruthInv, LockInv, ThreadInv, TypeOK
<1>2. UNCHANGED <<mem, mpc, arg, next, ran>>
  BY DEF Thread, ThreadLock, ThreadTest, ThreadAgain, ThreadRead, ThreadAdd, ThreadDone, ThreadSpurious
<1>3. Stale' = Stale /\ CodeTruth'
  BY <1>1, <1>2 DEF Stale, At, CodeTruth
<1>4. CASE ThreadRead
  <2>1. CASE \E v \in Version : Lookup(busy, v) /\ tpc' = "done" /\ UNCHANGED code
    <3>1. PICK v \in Version : Lookup(busy, v)
      BY <2>1
    <3>2. Indexed' /\ Copied' /\ Fresh'
      BY <1>2, <1>3, <3>1, FoundIsTrue
    <3>3. \A x \in Addr : x # busy => blocks'[x] = blocks[x]
      BY <1>1, <3>1, LookupFinds
    <3>4. WriteInv'
      BY <1>1, <1>2, <1>4, <2>1, <3>3 DEF WriteInv, ThreadRead, TypeOK
    <3>5. QED  BY <1>3, <3>2, <3>4 DEF TruthInv
  <2>2. CASE tpc' = "done" /\ UNCHANGED <<code, cache>>
    <3>1. WriteInv'
      BY <1>1, <1>2, <1>4, <2>2 DEF WriteInv, ThreadRead, cache
    <3>2. QED  BY <1>2, <1>3, <2>2, <3>1, CacheIsLeft DEF TruthInv
  <2>3. CASE tpc' = "add" /\ code' = mem[busy] /\ UNCHANGED cache
    <3>1. WriteInv'
      BY <1>1, <1>2, <1>4, <2>3 DEF WriteInv, ThreadRead, cache
    <3>2. QED  BY <1>2, <1>3, <2>3, <3>1, CacheIsLeft DEF TruthInv
  <2>4. QED  BY <1>4, <2>1, <2>2, <2>3 DEF ThreadRead
<1>5. CASE ThreadAdd
  <2>1. busy \in Addr /\ Add(busy, mem[busy])
    BY <1>1, <1>5 DEF ThreadAdd, WriteInv
  <2>2. Indexed' /\ Copied' /\ Fresh'
    BY <1>2, <1>3, <2>1, AddedIsTrue
  <2>3. \A x \in Addr : x # busy => blocks'[x] = blocks[x]
    BY <2>1 DEF Add
  <2>4. WriteInv'
    BY <1>1, <1>2, <1>5, <2>3 DEF WriteInv, ThreadAdd, TypeOK
  <2>5. QED  BY <1>3, <2>2, <2>4 DEF TruthInv
<1>6. CASE ThreadLock \/ ThreadTest \/ ThreadAgain \/ ThreadDone \/ ThreadSpurious
  <2>1. UNCHANGED cache /\ UNCHANGED code /\ tpc' # "add" /\ busy' \in {busy, None}
    BY <1>6 DEF ThreadLock, ThreadTest, ThreadAgain, ThreadDone, ThreadSpurious
  <2>2. arg # None
    BY <1>1, DrcAssumption DEF TypeOK
  <2>3. WriteInv'
    BY <1>1, <1>2, <2>1, <2>2 DEF WriteInv, cache
  <2>4. QED  BY <1>2, <1>3, <2>1, <2>3, CacheIsLeft DEF TruthInv
<1>7. QED  BY <1>4, <1>5, <1>6 DEF Thread

LEMMA InCallKeepsTruth ==
  ASSUME SourceInv, InCall
  PROVE  TruthInv'
<1> USE DEF mainv, lockv
<1>1. TypeOK /\ ThreadInv /\ QuietInv /\ Indexed /\ Copied /\ Fresh /\ WriteInv /\ CodeTruth
  BY DEF SourceInv, TruthInv, LockInv
<1>2. UNCHANGED <<mem, ran>> /\ UNCHANGED code /\ CodeTruth'
  BY <1>1 DEF InCall, SyncLock, SyncTest, Post, SignalPost, QuickCheck, RangeCheck, Clear,
       ResetCache, LoadCache, SaveCache, FullCache, Synched, Apply, Init_, Toggle, PostExit,
       SignalExit, Join, CodeTruth
<1>3. ASSUME UNCHANGED cache, Stale \subseteq Stale', WriteInv'
      PROVE  TruthInv'
  BY <1>2, <1>3, CacheIsLeft DEF TruthInv
<1>4. ASSUME Indexed', Copied', WriteInv', \A x \in Addr \ Stale' : \A b \in Clean(x)' : b.code = mem[x]
      PROVE  TruthInv'
  BY <1>2, <1>4 DEF TruthInv, Fresh
<1>5. CASE SyncLock \/ SyncTest
  <2>1. UNCHANGED <<cache, busy, tpc, arg, next>> /\ mpc \in {"sync", "synced"}
        /\ mpc' \in {"sync", "synced", next}
    BY <1>5 DEF SyncLock, SyncTest, Synced
  <2>2. Stale' = Stale
    BY <1>1, <2>1 DEF Stale, At, TypeOK
  <2>3. WriteInv'
    BY <1>1, <1>2, <2>1 DEF WriteInv, TypeOK
  <2>4. QED  BY <1>3, <2>1, <2>2, <2>3
<1>6. CASE Post
  <2>1. Stale = {}
    BY <1>6 DEF Post, Stale, At
  <2>2. WriteInv'
    BY <1>1, <1>2, <1>6 DEF Post, WriteInv, QuietInv, ThreadInv
  <2>3. QED  BY <1>3, <1>6, <2>1, <2>2 DEF Post
<1>7. CASE SignalPost \/ SignalExit
  <2>1. Stale = {} /\ UNCHANGED <<cache, busy>> /\ mpc' \in {"slow", "join"} /\ (tpc' = "add" => tpc = "add")
    BY <1>7 DEF SignalPost, SignalExit, Stale, At, Wake
  <2>2. WriteInv'
    BY <1>1, <1>2, <2>1 DEF WriteInv
  <2>3. QED  BY <1>3, <2>1, <2>2
<1>8. CASE QuickCheck
  <2>1. UNCHANGED <<cache, busy, tpc, arg>> /\ busy # arg /\ mpc = "quick"
        /\ \/ mpc' = "clear" \/ (mpc' = "sync" /\ next' = "clear")
           \/ (mpc' = "range" /\ blocks[arg] = {})
    BY <1>1, <1>8 DEF QuickCheck, Sync, WriteInv
  <2>2. Stale = {arg} /\ Stale' = {arg}
    BY <2>1 DEF Stale, At
  <2>3. WriteInv'
    BY <1>1, <1>2, <2>1 DEF WriteInv, cache
  <2>4. QED  BY <1>3, <2>1, <2>2, <2>3
<1>9. CASE RangeCheck
  <2>1. UNCHANGED <<cache, busy, tpc>> /\ blocks[arg] = {} /\ mpc = "range" /\ mpc' \in {"slow", "code"}
    BY <1>1, <1>9 DEF RangeCheck, WriteInv, TypeOK
  <2>2. Stale = {arg} /\ Clean(arg) = {}
    BY <2>1 DEF Stale, At, Clean
  <2>3. \A x \in Addr : \A b \in Clean(x)' : b.code = mem[x]
    BY <1>1, <2>1, <2>2 DEF Fresh, Clean, cache
  <2>4. Indexed' /\ Copied'
    BY <1>1, <2>1 DEF Indexed, Copied, Clean, cache
  <2>5. WriteInv'
    BY <1>1, <1>2, <2>1 DEF WriteInv
  <2>6. QED  BY <1>4, <2>3, <2>4, <2>5
<1>10. CASE Clear
  <2>1. /\ Indexed' /\ Copied'
        /\ \A x \in Addr : Clean(x)' = IF x \in {arg} THEN {} ELSE Clean(x)
    BY <1>1, <1>10, InvalidateDirties DEF Clear
  <2>2. Stale = {arg}
    BY <1>10 DEF Clear, Stale, At
  <2>3. \A x \in Addr : \A b \in Clean(x)' : b.code = mem[x]
    BY <1>1, <2>1, <2>2 DEF Fresh
  <2>4. WriteInv'
    BY <1>1, <1>2, <1>10 DEF Clear, WriteInv, TypeOK
  <2>5. QED  BY <1>4, <2>1, <2>3, <2>4
<1>11. CASE ResetCache \/ LoadCache
  <2>1. Indexed' /\ Copied' /\ \A x \in Addr : \A b \in Clean(x)' : b.code = mem[x]
    <3>1. CASE ResetCache
      BY <1>1, <3>1, InvalidateDirties DEF ResetCache
    <3>2. CASE LoadCache
      BY <1>1, <3>2, LoadRenews DEF LoadCache
    <3>3. QED  BY <1>11, <3>1, <3>2
  <2>2. WriteInv'
    BY <1>1, <1>2, <1>11 DEF ResetCache, LoadCache, Synched, WriteInv
  <2>3. QED  BY <1>4, <2>1, <2>2
<1>12. CASE SaveCache \/ FullCache \/ Apply \/ Init_
  <2>1. Stale = {} /\ UNCHANGED <<busy, tpc, arg>> /\ mpc' \in {"front", "toggle"}
    BY <1>12 DEF SaveCache, FullCache, Apply, Init_, Synched, Stale, At
  <2>2. WriteInv'
    BY <1>1, <1>2, <2>1 DEF WriteInv
  <2>3. CASE UNCHANGED cache
    BY <1>3, <2>1, <2>2, <2>3
  <2>4. CASE ClearFull
    BY <1>4, <2>2, <2>4, ClearEmpties
  <2>5. QED  BY <1>12, <2>3, <2>4 DEF SaveCache, FullCache, Apply, Init_
<1>13. CASE Toggle \/ PostExit \/ Join
  <2>1. Stale = {} /\ UNCHANGED cache /\ mpc' \notin {"quick", "range"}
    BY <1>1, <1>13 DEF Toggle, PostExit, Join, Stale, At, TypeOK
  <2>2. tpc' = "add" => tpc = "add" /\ busy' = busy
    BY <1>13 DEF Toggle, PostExit, Join
  <2>3. WriteInv'
    BY <1>1, <1>2, <2>1, <2>2 DEF WriteInv
  <2>4. QED  BY <1>3, <2>1, <2>3
<1>14. QED
  BY <1>5, <1>6, <1>7, <1>8, <1>9, <1>10, <1>11, <1>12, <1>13 DEF InCall

LEMMA EmulateKeepsTruth ==
  ASSUME ~Torn, SourceInv, Emulate
  PROVE  TruthInv'
<1> USE DEF mainv, lockv
<1>1. TypeOK /\ ThreadInv /\ QuietInv /\ Indexed /\ Copied /\ Fresh /\ WriteInv /\ CodeTruth
  BY DEF SourceInv, TruthInv, LockInv
<1>2. ASSUME NEW a \in Addr, NEW v, StartCode(a, v), v = mem[a]
      PROVE  CodeTruth'
  BY <1>2 DEF StartCode, CodeTruth
<1>3. ASSUME UNCHANGED <<mem, cache, busy, tpc, code, ran>>, Stale \subseteq Stale',
             mpc' \notin {"quick", "range"}
      PROVE  TruthInv'
  <2>1. WriteInv' /\ CodeTruth'
    BY <1>1, <1>3 DEF WriteInv, CodeTruth
  <2>2. QED  BY <1>3, <2>1, CacheIsLeft DEF TruthInv
<1>4. ASSUME UNCHANGED <<mem, busy, tpc, code>>, Indexed', Copied', Fresh', mpc' = "code", CodeTruth'
      PROVE  TruthInv'
  BY <1>1, <1>4 DEF TruthInv, WriteInv
<1>5. CASE Pick
  <2>1. arg \in Addr /\ mem[arg] \in Version /\ Stale = {}
    BY <1>1, <1>5 DEF Pick, TypeOK, Stale, At
  <2>2. UNCHANGED <<mem, busy, tpc, code>> /\ mpc' \in {"code", "enter"} /\ Stale' = {}
    BY <1>5 DEF Pick, StartCode, Stale, At
  <2>3. CASE \E v \in Version : Lookup(arg, v) /\ StartCode(arg, v)
    <3>1. PICK v \in Version : Lookup(arg, v) /\ StartCode(arg, v)
      BY <2>3
    <3>2. Indexed' /\ Copied' /\ Fresh' /\ v = mem[arg]
      BY <2>1, <2>2, <3>1, FoundIsTrue
    <3>3. mpc' = "code"
      BY <3>1 DEF StartCode
    <3>4. QED  BY <1>2, <1>4, <2>1, <2>2, <3>1, <3>2, <3>3
  <2>4. CASE Add(arg, mem[arg]) /\ StartCode(arg, mem[arg])
    <3>1. Indexed' /\ Copied' /\ Fresh'
      BY <2>1, <2>2, <2>4, AddedIsTrue
    <3>2. mpc' = "code"
      BY <2>4 DEF StartCode
    <3>3. QED  BY <1>2, <1>4, <2>1, <2>2, <2>4, <3>1, <3>2
  <2>5. CASE UNCHANGED <<cache, ran>>
    BY <1>3, <2>1, <2>2, <2>5
  <2>6. QED  BY <1>5, <2>3, <2>4, <2>5 DEF Pick
<1>6. CASE Jump
  <2>1. Stale = {} /\ UNCHANGED <<mem, busy, tpc, code>>
    BY <1>6 DEF Jump, Stale, At
  <2>2. PICK b \in Addr :
          \/ /\ \E v \in Version : Lookup(b, v) /\ StartCode(b, v)
             /\ arg' = b /\ UNCHANGED next
          \/ Leave(b) /\ UNCHANGED <<cache, ran>>
          \/ rec = 0 /\ mpc' = "front" /\ arg' = b /\ UNCHANGED <<cache, ran, next>>
    BY <1>6 DEF Jump
  <2>3. CASE \E v \in Version : Lookup(b, v) /\ StartCode(b, v)
    <3>1. PICK v \in Version : Lookup(b, v) /\ StartCode(b, v)
      BY <2>3
    <3>2. mpc' = "code" /\ Stale' = {}
      BY <3>1 DEF StartCode, Stale, At
    <3>3. Indexed' /\ Copied' /\ Fresh' /\ v = mem[b]
      BY <2>1, <3>1, <3>2, FoundIsTrue
    <3>4. QED  BY <1>2, <1>4, <2>1, <3>1, <3>2, <3>3
  <2>4. CASE Leave(b) /\ UNCHANGED <<cache, ran>>
    BY <1>3, <2>1, <2>4 DEF Leave, Sync
  <2>5. CASE mpc' = "front" /\ UNCHANGED <<cache, ran, next>>
    BY <1>3, <2>1, <2>5
  <2>6. QED  BY <2>2, <2>3, <2>4, <2>5
<1>7. ASSUME NEW a \in Addr, CodeStore(a)
      PROVE  TruthInv'
  <2>1. /\ Indexed' /\ Copied'
        /\ \A x \in Addr : Clean(x)' = IF x \in {a} THEN {} ELSE Clean(x)
    BY <1>1, <1>7, InvalidateDirties DEF CodeStore
  <2>2. mpc = "code" /\ Stale = {} /\ UNCHANGED <<busy, tpc, code, ran, mpc>>
        /\ \A x \in Addr : x # a => mem'[x] = mem[x]
    BY <1>1, <1>7 DEF CodeStore, TypeOK, Stale, At
  <2>3. Fresh'
    BY <1>1, <2>1, <2>2 DEF Fresh
  <2>4. WriteInv' /\ CodeTruth'
    BY <1>1, <2>2 DEF WriteInv, CodeTruth, QuietInv, ThreadInv, Quiet
  <2>5. QED  BY <2>1, <2>3, <2>4 DEF TruthInv
<1>8. ASSUME NEW a \in Addr, Store(a)
      PROVE  TruthInv'
  <2>1. busy # a
    BY <1>8 DEF Store, Writable
  <2>2. Stale = {} /\ Stale' = {a} /\ mpc' = "quick" /\ arg' = a /\ UNCHANGED cache
        /\ UNCHANGED <<busy, tpc, code, ran>> /\ \A x \in Addr : x # a => mem'[x] = mem[x]
    BY <1>1, <1>8 DEF Store, TypeOK, Stale, At
  <2>3. Indexed' /\ Copied'
    BY <1>1, <2>2 DEF Indexed, Copied, Clean, cache
  <2>4. Fresh'
    BY <1>1, <2>2 DEF Fresh, Clean, cache
  <2>5. tpc = "add" => busy \in Addr
    BY <1>1 DEF ThreadInv, TypeOK
  <2>6. WriteInv' /\ CodeTruth'
    BY <1>1, <2>1, <2>2, <2>5 DEF WriteInv, CodeTruth
  <2>7. QED  BY <2>3, <2>4, <2>6 DEF TruthInv
<1>9. CASE EnterSlow \/ Interpret \/ SoftCall \/ Unwind
  <2>1. UNCHANGED <<mem, cache, busy, tpc, code, ran>> /\ mpc \in {"enter", "slow", "code", "unwind"}
        /\ mpc' \notin {"quick", "range"}
    BY <1>9 DEF EnterSlow, Interpret, SoftCall, Unwind, Leave, Sync
  <2>2. Stale = {}
    BY <2>1 DEF Stale, At
  <2>3. QED  BY <1>3, <2>1, <2>2
<1>10. QED  BY <1>5, <1>6, <1>7, <1>8, <1>9 DEF Emulate

LEMMA FrontendKeepsTruth ==
  ASSUME ~Torn, SourceInv, Frontend
  PROVE  TruthInv'
<1> USE DEF mainv, lockv
<1>1. TypeOK /\ ThreadInv /\ QuietInv /\ Indexed /\ Copied /\ Fresh /\ WriteInv /\ CodeTruth
  BY DEF SourceInv, TruthInv, LockInv
<1>2. Stale = {} /\ UNCHANGED <<cache, busy, tpc, code, ran>>
      /\ mpc' \in {"pick", "sync", "reset", "load", "save", "full", "apply", "exit", "stopped"}
  BY DEF Frontend, Frame, Reset, LoadState, SaveState, ClearCache, ApplyConfig, Shutdown, Call, Sync,
         Stale, At
<1>3. CASE UNCHANGED mem
  <2>1. WriteInv' /\ CodeTruth'
    BY <1>1, <1>2, <1>3 DEF WriteInv, CodeTruth
  <2>2. QED  BY <1>2, <1>3, <2>1, CacheIsLeft DEF TruthInv
<1>4. CASE Reset \/ LoadState
  <2>1. PICK S \in SUBSET {a \in Addr : Writable(a)} : Overwritten(S)
    BY <1>4 DEF Reset, LoadState
  <2>2. Stale' = Addr
    BY <1>4 DEF Reset, LoadState, Call, Sync, Stale, At
  <2>3. Indexed' /\ Copied' /\ Fresh'
    BY <1>1, <1>2, <2>2 DEF Indexed, Copied, Fresh, Clean, cache
  <2>4. tpc = "add" => busy \in Addr /\ mem'[busy] = mem[busy]
    BY <1>1, <2>1 DEF ThreadInv, TypeOK, Overwritten, Writable
  <2>5. WriteInv' /\ CodeTruth'
    BY <1>1, <1>2, <2>4 DEF WriteInv, CodeTruth
  <2>6. QED  BY <2>3, <2>5 DEF TruthInv
<1>5. QED
  BY <1>3, <1>4 DEF Frontend, Frame, SaveState, ClearCache, ApplyConfig, Shutdown

LEMMA SourceStep ==
  ASSUME ~Torn
  PROVE  SourceInv /\ [Next]_vars => SourceInv'
<1> SUFFICES ASSUME SourceInv, [Next]_vars PROVE SourceInv'
  OBVIOUS
<1>1. LockInv'
  BY LockStep DEF SourceInv, TruthInv
<1>2. TruthInv'
  <2>1. CASE Next
    BY <2>1, ThreadKeepsTruth, InCallKeepsTruth, EmulateKeepsTruth, FrontendKeepsTruth DEF Next
  <2>2. CASE UNCHANGED vars
    <3>1. UNCHANGED <<mem, cache, busy, tpc, code, mpc, arg, next, ran>>
      BY <2>2 DEF vars, cache
    <3>2. Stale' = Stale
      BY <3>1 DEF Stale, At
    <3>3. WriteInv' /\ CodeTruth'
      BY <3>1 DEF SourceInv, TruthInv, WriteInv, CodeTruth, cache
    <3>4. QED  BY <3>1, <3>2, <3>3, CacheIsLeft DEF TruthInv
  <2>3. QED  BY <2>1, <2>2
<1>3. QED  BY <1>1, <1>2 DEF SourceInv, TruthInv

(* Translated code that starts was made from what the memory holds at that *)
(* moment, when the source of a block is not written while the compile     *)
(* thread reads it.                                                        *)
THEOREM CodeIsTrue ==
  ASSUME ~Torn
  PROVE  Spec => []CodeTruth
<1>1. SourceInv => CodeTruth
  BY DEF SourceInv, TruthInv
<1>2. QED  BY <1>1, SourceInit, SourceStep, PTL DEF Spec
=============================================================================
