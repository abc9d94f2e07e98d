-------------------------- MODULE CdromAsyncProofs --------------------------
(***************************************************************************)
(* Proofs about CdromAsync, for any discs, numbers of buffers and times:   *)
(* the two threads never read the drive at once, no sector is read twice,  *)
(* the cache holds what its tags say, and a read delivers the sector that  *)
(* was asked for.                                                          *)
(***************************************************************************)
EXTENDS CdromAsync, WellFoundedInduction, TLAPS

-----------------------------------------------------------------------------
(* Facts about remainders, and the least element of a set                  *)

(* Division, for a divisor that is not a number written out: the provers   *)
(* know a remainder only by its range and the equation.                    *)
LEMMA Euclid ==
  ASSUME NEW M \in Nat \ {0}, NEW a \in Int
  PROVE  a % M \in 0 .. M - 1 /\ a \div M \in Int /\ a = M * (a \div M) + (a % M)
BY SMTT(20)

(* A multiple that is less than the divisor is zero.                       *)
LEMMA SmallMultiple ==
  ASSUME NEW M \in Nat \ {0}, NEW q \in Int, M * q < M, -M < M * q
  PROVE  q = 0
<1>1. CASE q >= 1
  <2>1. M * q >= M
    BY <1>1, SMTT(20)
  <2>2. QED  BY <2>1
<1>2. CASE q <= -1
  <2>1. M * q <= -M
    BY <1>2, SMTT(20)
  <2>2. QED  BY <2>1
<1>3. QED  BY <1>1, <1>2

(* The remainder is the one number in range that the equation admits.      *)
LEMMA UniqueRemainder ==
  ASSUME NEW M \in Nat \ {0}, NEW a \in Int, NEW q \in Int, NEW r \in 0 .. M - 1,
         a = M * q + r
  PROVE  a % M = r
<1> DEFINE d == q - (a \div M)
<1>1. a % M \in 0 .. M - 1 /\ a \div M \in Int /\ a = M * (a \div M) + (a % M)
  BY Euclid
<1>2. M * d = (a % M) - r
  <2>1. M * d = M * q - M * (a \div M)
    BY <1>1, SMTT(20)
  <2>2. QED  BY <2>1, <1>1, SMTT(20)
<1>3. d \in Int /\ M * d < M /\ -M < M * d
  BY <1>1, <1>2
<1>4. d = 0
  <2> HIDE DEF d
  <2>1. QED  BY <1>3, SmallMultiple
<1>5. QED  BY <1>1, <1>2, <1>4

(* A set of integers that is bounded below has a least element.            *)
LEMMA LeastExists ==
  ASSUME NEW S, S \subseteq Int, S # {}, NEW b \in Int, \A x \in S : b <= x
  PROVE  \E x \in S : \A y \in S : x <= y
<1> DEFINE R == OpToRel(<, Nat)
           T == {x - b : x \in S}
<1>1. T \subseteq Nat /\ T # {}
  <2>1. T \subseteq Nat
    <3>1. \A x \in S : x - b \in Nat
      OBVIOUS
    <3>2. QED  BY <3>1
  <2>2. T # {}
    BY Zenon
  <2>3. QED  BY <2>1, <2>2
<1>2. IsWellFoundedOn(R, Nat)
  BY NatLessThanWellFounded
<1>3. PICK m \in T : \A y \in T : ~ (<<y, m>> \in R)
  <2> HIDE DEF R, T
  <2>1. QED  BY <1>1, <1>2, WFMin
<1>4. \A y \in T : m <= y
  <2>1. R = {p \in Nat \X Nat : p[1] < p[2]}
    BY DEF OpToRel
  <2> HIDE DEF R, T
  <2>2. \A y \in T : ~ (y < m)
    BY <1>1, <1>3, <2>1
  <2>3. QED  BY <1>1, <2>2
<1>5. PICK x \in S : m = x - b
  OBVIOUS
<1>6. \A y \in S : x <= y
  <2> TAKE y \in S
  <2>1. y - b \in T
    OBVIOUS
  <2>2. m <= y - b
    BY <2>1, <1>4
  <2>3. QED  BY <2>2, <1>5
<1>7. QED  BY <1>6

-----------------------------------------------------------------------------
(* Where the main thread is and whether there is a prefetch thread; what   *)
(* is fetched is on the disc, what is read was asked for                   *)
Reading == {"forward", "lookup", "rlock", "again", "clear", "direct"}
NeedsThread == {"lookup", "rlock", "again", "ask", "signal", "halt", "join"}
ThreadInv ==
  /\ mpc \in {"forward", "stopped"} => ~Started
  /\ mpc \in NeedsThread => Started
  /\ MainHasReadLock => tpc # "reading"
  /\ tpc \in {"toread", "reading", "storing"} => tsec.lba < Total
  /\ op.call \in Reads => op.t \in Times
  /\ mpc \in Reading => op.call \in Reads

DriveInv == TypeOK /\ ThreadInv

(* A tag is of a sector of the disc.  While the main thread is about to    *)
(* read the drive, the thread has no sector that it could still store.     *)
TagInv == \A i \in DOMAIN cache : cache[i].tag # Empty => cache[i].tag % Bit < Total
MissInv == mpc \in {"clear", "direct"} /\ Started => ~Hit /\ tpc \notin {"reading", "storing"}

CacheInv == DriveInv /\ TagInv /\ CacheTruth /\ MissInv

(* When reads are true: no time asked for is that of lba -1, whose tag is  *)
(* the one of an empty slot; and as cdr.Prev vouches for the buffer of the *)
(* data reads, nothing else fills it and it stays the same buffer          *)
KeepsBuffer == Physical \/ (0 \notin Counts /\ FALSE \notin Starts)
Faithful ==
  /\ Lead \in 1 .. Bit - Total /\ Lead - 1 \notin Times
  /\ "data" \in Calls => /\ ~Flaky /\ "raw" \notin Calls
                         /\ ("count" \in Calls => KeepsBuffer)

PrevBuffer == IF UsesIso /\ mpc # "stopped" THEN iso_buf ELSE buf_local
BufferInv ==
  Prev \in Times => \/ mpc = "stopped" /\ op.call # "count"
                    \/ PrevBuffer = Sector(disc, Lba(Prev), FALSE)
CallInv ==
  /\ Prev \in Times => "data" \in Calls
  /\ op.call \in Reads \cup {"count"} => op.call \in Calls
  /\ mpc \in {"halt", "join", "stopped"} =>
       op.call \in {"swap", "count"} \/ (op.call = "eject" /\ Physical)
  /\ mpc \in {"ask", "signal", "osd"} => op.call \notin Reads
  /\ ~Physical /\ KeepsBuffer => Started \/ mpc = "stopped"

ReadInv == CacheInv /\ BufferInv /\ CallInv /\ ReadTruth

-----------------------------------------------------------------------------
(* What the tags of sectors amount to                                      *)

Assumptions ==
  /\ Lead \in Nat /\ Bit \in Nat \ {0} /\ Total \in 1 .. Bit - 1 /\ Lead < Bit
  /\ U32 = 2 * Bit /\ U32 \in Nat \ {0} /\ Empty = U32 - 1
  /\ Counts \subseteq Nat /\ Times \subseteq 1 .. Bit - 1
  /\ "zero" \notin Discs /\ "junk" \notin Discs /\ "fail" \notin Discs

LEMMA Constants == Assumptions
<1>1. Lead \in Nat /\ Bit \in Nat \ {0} /\ Total \in 1 .. Bit - 1 /\ Lead < Bit
  BY LeadAssumption, BitAssumption
<1>2. U32 = 2 * Bit /\ U32 \in Nat \ {0} /\ Empty = U32 - 1
  BY <1>1 DEF U32, Empty
<1>3. QED
  BY <1>1, <1>2, CountsAssumption, TimesAssumption, DiscsAssumption DEF Assumptions

LEMMA TimeIs == \A t \in Times : t \in Nat /\ t > 0 /\ t < Bit
<1>1. Bit \in Nat /\ Times \subseteq 1 .. Bit - 1
  BY Constants DEF Assumptions
<1>2. QED  BY <1>1

(* A number below the cdda bit is what remains of it, with the bit and     *)
(* without.                                                                *)
LEMMA Below ==
  ASSUME NEW l \in 0 .. Bit - 1
  PROVE  l % Bit = l /\ (Bit + l) % Bit = l
<1>1. Bit \in Nat \ {0} /\ Bit * 0 = 0 /\ Bit * 1 = Bit
  BY Constants, SMTT(20) DEF Assumptions
<1>2. l = Bit * 0 + l /\ Bit + l = Bit * 1 + l
  BY <1>1
<1>3. QED  BY <1>1, <1>2, UniqueRemainder

(* The lba of a time wraps when the time is before the first sector.       *)
LEMMA LbaIs ==
  ASSUME NEW t \in Nat, t < Bit
  PROVE  /\ Lba(t) = IF t >= Lead THEN t - Lead ELSE U32 + t - Lead
         /\ Lba(t) \in 0 .. U32 - 1
<1>1. U32 \in Nat \ {0} /\ U32 * 0 = 0 /\ U32 * (-1) = -U32
  BY Constants, SMTT(20) DEF Assumptions
<1>2. Lead \in Nat /\ Lead < Bit /\ U32 = 2 * Bit /\ Bit \in Nat
  BY Constants DEF Assumptions
<1>3. CASE t >= Lead
  <2>1. t - Lead \in 0 .. U32 - 1 /\ t - Lead = U32 * 0 + (t - Lead) /\ t - Lead \in Int
    BY <1>1, <1>2, <1>3
  <2>2. (t - Lead) % U32 = t - Lead
    BY <1>1, <2>1, UniqueRemainder
  <2>3. QED  BY <1>3, <2>1, <2>2 DEF Lba
<1>4. CASE t < Lead
  <2>1. U32 + t - Lead \in 0 .. U32 - 1 /\ t - Lead = U32 * (-1) + (U32 + t - Lead) /\ t - Lead \in Int
    BY <1>1, <1>2, <1>4
  <2>2. (t - Lead) % U32 = U32 + t - Lead
    BY <1>1, <2>1, UniqueRemainder
  <2>3. QED  BY <1>2, <1>4, <2>1, <2>2 DEF Lba
<1>5. QED  BY <1>2, <1>3, <1>4

(* A tag says which sector it is of and in which form.                     *)
LEMMA TagIs ==
  ASSUME NEW l \in 0 .. U32 - 1, NEW cdda \in BOOLEAN
  PROVE  /\ Tag(l, cdda) \in 0 .. U32 - 1
         /\ l < Total => /\ Tag(l, cdda) % Bit = l
                         /\ (Tag(l, cdda) >= Bit) = cdda
<1>1. Bit \in Nat \ {0} /\ U32 = 2 * Bit /\ Total < Bit /\ Total \in Nat
  BY Constants DEF Assumptions
<1>2. l % Bit \in 0 .. Bit - 1
  BY <1>1, Euclid
<1>3. Tag(l, cdda) \in 0 .. U32 - 1
  BY <1>1, <1>2 DEF Tag
<1>4. ASSUME l < Total
      PROVE  Tag(l, cdda) % Bit = l /\ (Tag(l, cdda) >= Bit) = cdda
  <2>1. l \in 0 .. Bit - 1
    BY <1>1, <1>4
  <2>2. l % Bit = l /\ (Bit + l) % Bit = l
    BY <2>1, Below
  <2>3. CASE cdda = TRUE
    <3>1. Tag(l, cdda) = Bit + l
      BY <2>2, <2>3 DEF Tag
    <3>2. (Bit + l >= Bit) = TRUE
      BY <1>1, <2>1
    <3>3. QED  BY <2>2, <2>3, <3>1, <3>2
  <2>4. CASE cdda = FALSE
    <3>1. Tag(l, cdda) = l
      BY <2>4 DEF Tag
    <3>2. (l >= Bit) = FALSE
      BY <1>1, <2>1
    <3>3. QED  BY <2>2, <2>4, <3>1, <3>2
  <2>5. QED  BY <2>3, <2>4
<1>5. QED  BY <1>3, <1>4

LEMMA SlotIs ==
  ASSUME TypeOK, Started, NEW l \in Nat
  PROVE  SlotOf(l) \in 0 .. buf_cnt - 1 /\ DOMAIN cache = 0 .. buf_cnt - 1
         /\ cache[SlotOf(l)] \in Slots
<1>1. buf_cnt \in Nat \ {0} /\ cache \in [0 .. buf_cnt - 1 -> Slots]
  BY Constants DEF TypeOK, Assumptions
<1>2. l % buf_cnt \in 0 .. buf_cnt - 1
  BY <1>1, Euclid
<1>3. QED  BY <1>1, <1>2 DEF SlotOf

LEMMA NoSlots == DOMAIN NoCache = {}
BY DEF NoCache

-----------------------------------------------------------------------------
(* Types, and where the two threads are                                    *)

BufsOK == buf_local \in Contents /\ iso_buf \in Contents
MainOK == BufsOK /\ res \in Contents \cup {Fail} /\ Prev \in Times \cup {0, Unread}
CacheOK == IF Started THEN buf_cnt > 0 /\ cache \in [0 .. buf_cnt - 1 -> Slots] ELSE cache = NoCache
RequestOK == do_prefetch \in BOOLEAN /\ prefetch_lba_wflag \in 0 .. U32 - 1 /\ thread_exit \in BOOLEAN

LEMMA Pieces ==
  TypeOK <=> /\ MainOK /\ CacheOK /\ RequestOK
             /\ buf_cnt \in Counts /\ disc \in Discs /\ tpc \in ThreadStates /\ mpc \in MainStates
             /\ tsec \in [lba : 0 .. Bit - 1, cdda : BOOLEAN] /\ op \in [call : AllCalls, t : Nat]
BY DEF TypeOK, MainOK, BufsOK, CacheOK, RequestOK

LEMMA PiecesNext ==
  ASSUME MainOK', CacheOK', RequestOK',
         buf_cnt' \in Counts, disc' \in Discs, tpc' \in ThreadStates, mpc' \in MainStates,
         tsec' \in [lba : 0 .. Bit - 1, cdda : BOOLEAN], op' \in [call : AllCalls, t : Nat]
  PROVE  TypeOK'
BY DEF TypeOK, MainOK, BufsOK, CacheOK, RequestOK

LEMMA WantedIs ==
  ASSUME TypeOK, op.t \in Times
  PROVE  Wanted \in Sectors /\ Wanted \in Contents /\ Lba(op.t) \in 0 .. U32 - 1
<1>1. op.t \in Nat /\ op.t < Bit
  BY TimeIs
<1>2. Lba(op.t) \in 0 .. U32 - 1
  BY <1>1, LbaIs
<1>3. disc \in Discs /\ (op.call = "cdda") \in BOOLEAN
  BY DEF TypeOK
<1>4. Wanted \in Sectors
  BY <1>2, <1>3 DEF Wanted, Sector, Sectors
<1>5. QED  BY <1>2, <1>4 DEF Contents

LEMMA NewCacheIs ==
  ASSUME NEW n \in Nat
  PROVE  /\ NewCache(n) \in [0 .. n - 1 -> Slots]
         /\ \A i \in DOMAIN NewCache(n) : NewCache(n)[i].tag = Empty
<1>1. Empty \in 0 .. U32 - 1 /\ Zero \in Contents
  BY Constants DEF Assumptions, Contents
<1>2. [tag |-> Empty, data |-> Zero] \in Slots
  BY <1>1 DEF Slots
<1>3. QED  BY <1>2 DEF NewCache

LEMMA DriveInit == Init => DriveInv
<1> SUFFICES ASSUME Init PROVE DriveInv
  OBVIOUS
<1>1. Assumptions
  BY Constants
<1>2. CacheOK /\ tpc \in {"start", "none"}
  <2>1. PICK ok \in Starts :
          /\ tpc = IF ok /\ CanStart(buf_cnt) THEN "start" ELSE "none"
          /\ cache = IF ok /\ CanStart(buf_cnt) THEN NewCache(buf_cnt) ELSE NoCache
    BY DEF Init
  <2>2. buf_cnt \in Nat /\ (CanStart(buf_cnt) => buf_cnt > 0)
    BY <1>1 DEF Init, Assumptions, CanStart
  <2>3. QED  BY <2>1, <2>2, NewCacheIs DEF CacheOK, Started
<1>3. MainOK
  BY DEF Init, MainOK, BufsOK, Contents
<1>4. RequestOK
  <2>1. thread_exit = FALSE /\ do_prefetch = FALSE /\ prefetch_lba_wflag = 0
    BY DEF Init
  <2>2. thread_exit \in BOOLEAN /\ do_prefetch \in BOOLEAN
    BY <2>1, Zenon
  <2>3. 0 \in 0 .. U32 - 1
    BY <1>1 DEF Assumptions
  <2>4. QED  BY <2>1, <2>2, <2>3 DEF RequestOK
<1>5. tsec \in [lba : 0 .. Bit - 1, cdda : BOOLEAN]
  BY <1>1 DEF Init, Assumptions
<1>6. op = [call |-> "none", t |-> 1] /\ op \in [call : AllCalls, t : Nat]
  BY DEF Init, Op, AllCalls
<1>7. TypeOK
  BY <1>2, <1>3, <1>4, <1>5, <1>6, Pieces DEF Init, ThreadStates, MainStates
<1>8. ThreadInv
  BY <1>2, <1>6 DEF Init, ThreadInv, MainHasReadLock, NeedsThread, Reading, Reads
<1>9. QED  BY <1>7, <1>8 DEF DriveInv

(* A read that ends keeps the types.                                       *)
LEMMA DeliverKeeps ==
  ASSUME TypeOK, NEW v \in Contents, Deliver(v), op.t \in Times
  PROVE  MainOK' /\ mpc' = "idle" /\ op' = op
BY DEF TypeOK, MainOK, BufsOK, Deliver

LEMMA DriveKeeps ==
  ASSUME TypeOK, ReadDrive, op.t \in Times
  PROVE  MainOK' /\ mpc' = "idle" /\ op' = op
<1>1. CASE Deliver(Wanted)
  BY <1>1, WantedIs, DeliverKeeps
<1>2. CASE ReadFails
  BY <1>2 DEF ReadFails, MainOK, BufsOK, TypeOK, bufs, Contents
<1>3. QED  BY <1>1, <1>2 DEF ReadDrive

(* The prefetch thread starts with an empty cache.                         *)
LEMMA StartKeeps ==
  ASSUME NEW n \in Counts, StartThread(n), ~Started, cache = NoCache, buf_cnt' = n, thread_exit \in BOOLEAN
  PROVE  /\ CacheOK' /\ RequestOK' /\ tpc' \in {"none", "start"}
         /\ \A i \in DOMAIN cache' : cache'[i].tag = Empty
         /\ 0 \notin Counts /\ FALSE \notin Starts => tpc' = "start"
<1>1. PICK ok \in Starts :
         IF ok /\ CanStart(n)
         THEN /\ tpc' = "start" /\ thread_exit' = FALSE
              /\ cache' = NewCache(n)
         ELSE /\ thread_exit' = CanStart(n)
              /\ UNCHANGED <<tpc, cache>>
  BY DEF StartThread
<1>2. n \in Nat /\ (CanStart(n) <=> n > 0) /\ CanStart(n) \in BOOLEAN /\ ok \in BOOLEAN
  BY Constants, BoolAssumption DEF Assumptions, CanStart
<1>3. RequestOK'
  <2>1. thread_exit' \in BOOLEAN
    BY <1>1, <1>2, Zenon
  <2>2. do_prefetch' \in BOOLEAN
    BY Zenon DEF StartThread
  <2>3. prefetch_lba_wflag' \in 0 .. U32 - 1
    BY Constants DEF StartThread, Assumptions
  <2>4. QED  BY <2>1, <2>2, <2>3 DEF RequestOK
<1>4. CASE ok /\ CanStart(n)
  BY <1>1, <1>2, <1>3, <1>4, NewCacheIs DEF CacheOK, Started
<1>5. CASE ~(ok /\ CanStart(n))
  <2>1. tpc' = tpc /\ cache' = NoCache
    BY <1>1, <1>5
  <2>2. ~(0 \notin Counts /\ FALSE \notin Starts)
    <3>1. CASE ~ok
      <4>1. ok = FALSE
        BY <1>2, <3>1, Zenon
      <4>2. QED  BY <4>1, Zenon
    <3>2. CASE ok
      <4>1. n = 0
        BY <1>2, <1>5, <3>2
      <4>2. QED  BY <4>1
    <3>3. QED  BY <3>1, <3>2
  <2>3. QED  BY <1>3, <2>1, <2>2, NoSlots DEF CacheOK, Started
<1>6. QED  BY <1>4, <1>5

(* A call keeps the types: it changes only where the main thread is, what  *)
(* it was called for and, in a prefetch, the sector that is asked for.     *)
LEMMA CallKeepsTypes ==
  ASSUME DriveInv, Call
  PROVE  TypeOK'
<1> USE DEF cd, bufs, request
<1>1. /\ MainOK /\ CacheOK /\ RequestOK /\ TypeOK
      /\ buf_cnt \in Counts /\ disc \in Discs /\ tpc \in ThreadStates /\ mpc \in MainStates
      /\ tsec \in [lba : 0 .. Bit - 1, cdda : BOOLEAN] /\ op \in [call : AllCalls, t : Nat]
  BY Pieces DEF DriveInv
<1>2. UNCHANGED <<buf_cnt, disc, cache, tpc, tsec, do_prefetch, buf_local, iso_buf, Prev>>
  BY DEF Call, ReadPrev, ReadCall, PrefetchCall, StopCall, OsdCall
<1>3. /\ \E c \in AllCalls, t \in Times \cup {1} : op' = [call |-> c, t |-> t]
      /\ mpc' \in {mpc, "lookup", "forward", "clear", "ask", "halt", "stopped", "osd"}
      /\ res' \in {res, Fail, Buffer}
      /\ thread_exit' \in {thread_exit, TRUE}
      /\ \/ prefetch_lba_wflag' = prefetch_lba_wflag
         \/ \E t \in Times, cdda \in BOOLEAN : prefetch_lba_wflag' = Tag(Lba(t), cdda)
  <2>1. ASSUME NEW t \in Times, ReadPrev(t) PROVE <1>3!:
    BY <2>1 DEF ReadPrev, Op, AllCalls, Reads
  <2>2. ASSUME NEW t \in Times, NEW c \in Calls \cap Reads, ReadCall(c, t) PROVE <1>3!:
    BY <2>2 DEF ReadCall, Op, AllCalls
  <2>3. ASSUME NEW t \in Times, NEW cdda \in BOOLEAN, PrefetchCall(t, cdda) PROVE <1>3!:
    BY <2>3 DEF PrefetchCall, Op, AllCalls
  <2>4. ASSUME NEW c \in {"swap", "count", "eject"}, StopCall(c) PROVE <1>3!:
    BY <2>4 DEF StopCall, Op, AllCalls
  <2>5. CASE OsdCall
    BY <2>5 DEF OsdCall, Op, AllCalls
  <2>6. QED  BY <2>1, <2>2, <2>3, <2>4, <2>5 DEF Call
<1>4. op' \in [call : AllCalls, t : Nat] /\ mpc' \in MainStates
  <2>1. Times \cup {1} \subseteq Nat
    BY TimeIs
  <2>2. QED  BY <1>1, <1>3, <2>1 DEF MainStates
<1>5. MainOK'
  BY <1>1, <1>2, <1>3 DEF MainOK, BufsOK, Buffer
<1>6. RequestOK'
  <2>1. thread_exit' \in BOOLEAN
    BY <1>1, <1>3, Zenon DEF RequestOK
  <2>2. \A t \in Times, cdda \in BOOLEAN : Tag(Lba(t), cdda) \in 0 .. U32 - 1
    BY TimeIs, LbaIs, TagIs
  <2>3. prefetch_lba_wflag' \in 0 .. U32 - 1
    BY <1>1, <1>3, <2>2 DEF RequestOK
  <2>4. QED  BY <1>1, <1>2, <2>1, <2>3 DEF RequestOK
<1>7. CacheOK'
  BY <1>1, <1>2 DEF CacheOK, Started
<1>8. QED  BY <1>1, <1>2, <1>4, <1>5, <1>6, <1>7, PiecesNext

LEMMA CallKeepsDrive ==
  ASSUME DriveInv, Call
  PROVE  ThreadInv'
<1> USE DEF DriveInv, ThreadInv, Started, MainHasReadLock, NeedsThread, Reading
<1>1. ASSUME NEW t \in Times, ReadPrev(t) PROVE ThreadInv'
  BY <1>1 DEF ReadPrev, Op, Reads
<1>2. ASSUME NEW t \in Times, NEW c \in Calls \cap Reads, ReadCall(c, t) PROVE ThreadInv'
  BY <1>2 DEF ReadCall, Op, UsesIso
<1>3. ASSUME NEW t \in Times, NEW cdda \in BOOLEAN, PrefetchCall(t, cdda) PROVE ThreadInv'
  BY <1>3 DEF PrefetchCall, Op, Reads
<1>4. ASSUME NEW c \in {"swap", "count", "eject"}, StopCall(c) PROVE ThreadInv'
  BY <1>4 DEF StopCall, Op, Reads
<1>5. CASE OsdCall
  BY <1>5 DEF OsdCall, Op, Reads
<1>6. QED  BY <1>1, <1>2, <1>3, <1>4, <1>5 DEF Call

LEMMA MainStepKeepsDrive ==
  ASSUME DriveInv, MainStep
  PROVE  DriveInv'
<1> USE DEF cd, bufs, request, main
<1>1. /\ MainOK /\ CacheOK /\ RequestOK /\ TypeOK /\ ThreadInv
      /\ buf_cnt \in Counts /\ disc \in Discs /\ tpc \in ThreadStates /\ mpc \in MainStates
      /\ tsec \in [lba : 0 .. Bit - 1, cdda : BOOLEAN] /\ op \in [call : AllCalls, t : Nat]
  BY Pieces DEF DriveInv
<1>2. mpc \in Reading => op.t \in Times
  BY <1>1 DEF ThreadInv
<1>3. ASSUME MainOK', mpc' = "idle", op' = op, UNCHANGED <<cd, request, thread_exit, cache, tpc, tsec>>
      PROVE  DriveInv'
  <2>1. TypeOK'
    BY <1>1, <1>3, PiecesNext DEF MainStates, CacheOK, RequestOK, Started
  <2>2. ThreadInv'
    BY <1>1, <1>3 DEF ThreadInv, Started, MainHasReadLock, NeedsThread, Reading
  <2>3. QED  BY <2>1, <2>2 DEF DriveInv
<1>5. CASE Forward \/ Direct
  BY <1>1, <1>2, <1>3, <1>5, DriveKeeps DEF Forward, Direct, Reading
<1>6. CASE Lookup
  <2>1. CASE Hit
    <3>1. Lba(op.t) \in Nat /\ Started /\ op.t \in Times
      BY <1>1, <1>2, <1>6, WantedIs DEF Lookup, ThreadInv, NeedsThread, Reading
    <3>2. cache[SlotOf(Lba(op.t))].data \in Contents
      BY <1>1, <3>1, SlotIs DEF Slots
    <3>3. Deliver(cache[SlotOf(Lba(op.t))].data) /\ UNCHANGED <<cd, request, thread_exit, cache, tpc, tsec>>
      BY <1>6, <2>1 DEF Lookup
    <3>4. QED  BY <1>1, <1>3, <3>1, <3>2, <3>3, DeliverKeeps
  <2>2. CASE ~Hit
    <3>1. /\ mpc' = IF mpc = "lookup" THEN "rlock" ELSE "clear"
          /\ mpc \in {"lookup", "again"}
          /\ UNCHANGED <<op, res, Prev, bufs, cd, request, thread_exit, cache, tpc, tsec>>
      BY <1>6, <2>2 DEF Lookup
    <3>2. TypeOK'
      BY <1>1, <3>1, PiecesNext DEF MainStates, CacheOK, RequestOK, MainOK, BufsOK, Started
    <3>3. ThreadInv'
      BY <1>1, <3>1 DEF ThreadInv, Started, MainHasReadLock, NeedsThread, Reading
    <3>4. QED  BY <3>2, <3>3 DEF DriveInv
  <2>3. QED  BY <2>1, <2>2
<1>7. CASE TakeReadLock \/ StopPrefetch \/ PrefetchAsk
  <2>1. TypeOK'
    <3>1. RequestOK'
      BY <1>1, <1>7, Zenon DEF TakeReadLock, StopPrefetch, PrefetchAsk, RequestOK
    <3>2. QED
      BY <1>1, <1>7, <3>1, PiecesNext DEF TakeReadLock, StopPrefetch, PrefetchAsk, MainStates, CacheOK,
         MainOK, BufsOK, Started
  <2>2. ThreadInv'
    BY <1>1, <1>7 DEF TakeReadLock, StopPrefetch, PrefetchAsk, ReadLockFree, WhileReading,
       ThreadInv, Started, MainHasReadLock, NeedsThread, Reading
  <2>3. QED  BY <2>1, <2>2 DEF DriveInv
<1>8. CASE PrefetchSignal \/ Halt
  <2>1. Started /\ Woken \in ThreadStates /\ (Woken = "none" <=> tpc = "none")
        /\ (Woken \in {"toread", "reading", "storing"} => Woken = tpc)
    BY <1>1, <1>8 DEF PrefetchSignal, Halt, ThreadInv, NeedsThread, Woken, ThreadStates, Started
  <2>2. TypeOK'
    <3>1. RequestOK'
      BY <1>1, <1>8, Zenon DEF PrefetchSignal, Halt, RequestOK
    <3>2. QED
      BY <1>1, <1>8, <2>1, <3>1, PiecesNext DEF PrefetchSignal, Halt, MainStates, CacheOK,
         MainOK, BufsOK, Started
  <2>3. ThreadInv'
    BY <1>1, <1>8, <2>1 DEF PrefetchSignal, Halt,
       ThreadInv, Started, MainHasReadLock, NeedsThread, Reading
  <2>4. QED  BY <2>2, <2>3 DEF DriveInv
<1>9. CASE Join \/ Ejected \/ CountCached
  <2>1. CacheOK'
    BY <1>1, <1>9 DEF Join, Ejected, CountCached, CacheOK, Started
  <2>2. TypeOK'
    BY <1>1, <1>9, <2>1, PiecesNext DEF Join, Ejected, CountCached, MainStates, RequestOK, MainOK, BufsOK,
       ThreadStates
  <2>3. ThreadInv'
    BY <1>1, <1>9 DEF Join, Ejected, CountCached,
       ThreadInv, Started, MainHasReadLock, NeedsThread, Reading
  <2>4. QED  BY <2>2, <2>3 DEF DriveInv
<1>10. CASE NewCount \/ NewDisc
  <2>1. ~Started /\ cache = NoCache /\ thread_exit \in BOOLEAN
    BY <1>1, <1>10 DEF NewCount, NewDisc, ThreadInv, CacheOK, RequestOK
  <2>2. PICK n \in Counts : buf_cnt' = n /\ StartThread(n)
    BY <1>1, <1>10 DEF NewCount, NewDisc
  <2>3. CacheOK' /\ RequestOK' /\ tpc' \in {"none", "start"}
    BY <2>1, <2>2, StartKeeps
  <2>4. MainOK' /\ disc' \in Discs /\ mpc' = "idle" /\ UNCHANGED <<op, tsec>>
    BY <1>1, <1>10 DEF NewCount, NewDisc, MainOK, BufsOK, Contents
  <2>5. TypeOK'
    BY <1>1, <2>2, <2>3, <2>4, PiecesNext DEF MainStates, ThreadStates
  <2>6. ThreadInv'
    BY <1>1, <2>3, <2>4 DEF ThreadInv, Started, MainHasReadLock, NeedsThread, Reading
  <2>7. QED  BY <2>5, <2>6 DEF DriveInv
<1>11. QED
  BY <1>5, <1>6, <1>7, <1>8, <1>9, <1>10 DEF MainStep

LEMMA ThreadStepKeepsDrive ==
  ASSUME DriveInv, ThreadStep \/ SpuriousWake
  PROVE  DriveInv'
<1> USE DEF cd, bufs, request, main
<1>1. /\ MainOK /\ CacheOK /\ RequestOK /\ TypeOK /\ ThreadInv
      /\ buf_cnt \in Counts /\ disc \in Discs /\ tpc \in ThreadStates /\ mpc \in MainStates
      /\ tsec \in [lba : 0 .. Bit - 1, cdda : BOOLEAN] /\ op \in [call : AllCalls, t : Nat]
  BY Pieces DEF DriveInv
<1>2. UNCHANGED <<main, cd, bufs, prefetch_lba_wflag, thread_exit>>
  BY DEF ThreadStep, ThreadLock, Top, Wait, SpuriousWake, Check, Complete, Fetch, Fetched, Store, StoreFailed
<1>3. Started /\ Started' /\ tpc' \in ThreadStates
  BY DEF ThreadStep, ThreadLock, ThreadMoves, Top, Wait, SpuriousWake, Check, Complete, Fetch, Fetched,
     Store, StoreFailed, Started, ThreadStates
<1>4. RequestOK'
  <2>1. do_prefetch' \in {do_prefetch, FALSE}
    BY DEF ThreadStep, ThreadLock, Top, Wait, SpuriousWake, Check, Complete, Fetch, Fetched, Store, StoreFailed
  <2>2. do_prefetch' \in BOOLEAN
    BY <1>1, <2>1, Zenon DEF RequestOK
  <2>3. QED  BY <1>1, <1>2, <2>2 DEF RequestOK
<1>5. MainOK'
  BY <1>1, <1>2 DEF MainOK, BufsOK
<1>6. ASSUME CacheOK', tsec' \in [lba : 0 .. Bit - 1, cdda : BOOLEAN]
      PROVE  TypeOK'
  BY <1>1, <1>2, <1>3, <1>4, <1>5, <1>6, PiecesNext
<1>7. CASE Check
  <2>1. CASE UNCHANGED tsec /\ tpc' \in {"top", "complete"}
    <3>1. CacheOK'
      BY <1>1, <1>2, <1>3, <1>7 DEF CacheOK, Check
    <3>2. ThreadInv'
      BY <1>1, <1>2, <1>3, <2>1 DEF ThreadInv, MainHasReadLock
    <3>3. QED  BY <1>1, <1>6, <2>1, <3>1, <3>2 DEF DriveInv
  <2>2. CASE /\ Missing # {} /\ tpc' = "toread"
             /\ tsec' = [lba |-> CHOOSE l \in Missing : \A k \in Missing : l <= k, cdda |-> ReqCdda]
    <3>1. Bit \in Nat \ {0} /\ Total \in 1 .. Bit - 1 /\ buf_cnt \in Nat /\ prefetch_lba_wflag \in Nat
      BY <1>1, Constants DEF Assumptions, RequestOK
    <3>2. ReqLba \in 0 .. Bit - 1 /\ ReqCdda \in BOOLEAN
      BY <3>1, Euclid DEF ReqLba, ReqCdda
    <3>3. \A l \in Missing : l \in Nat /\ l < Total
      BY <3>1, <3>2 DEF Missing, Window
    <3>4. \E l \in Missing : \A k \in Missing : l <= k
      BY <2>2, <3>3, LeastExists
    <3>5. tsec'.lba \in Missing /\ tsec' = [lba |-> tsec'.lba, cdda |-> ReqCdda]
      BY <2>2, <3>4
    <3>6. tsec'.lba \in 0 .. Bit - 1 /\ tsec'.lba < Total
      BY <3>1, <3>3, <3>5
    <3>7. tsec' \in [lba : 0 .. Bit - 1, cdda : BOOLEAN]
      BY <3>2, <3>5, <3>6
    <3>8. CacheOK'
      BY <1>1, <1>2, <1>3, <1>7 DEF CacheOK, Check
    <3>9. ThreadInv'
      BY <1>1, <1>2, <1>3, <2>2, <3>6 DEF ThreadInv, MainHasReadLock
    <3>10. QED  BY <1>6, <3>7, <3>8, <3>9 DEF DriveInv
  <2>3. QED  BY <1>7, <2>1, <2>2 DEF Check
<1>8. CASE Store
  <2>1. tsec.lba \in Nat /\ tsec.lba \in 0 .. U32 - 1 /\ tsec.cdda \in BOOLEAN
    BY <1>1, Constants DEF Assumptions
  <2>2. FetchedTag \in 0 .. U32 - 1
    BY <2>1, TagIs DEF FetchedTag
  <2>3. Sector(disc, tsec.lba, tsec.cdda) \in Contents
    BY <1>1, <2>1 DEF Sector, Sectors, Contents
  <2>4. [tag |-> FetchedTag, data |-> Sector(disc, tsec.lba, tsec.cdda)] \in Slots
    BY <2>2, <2>3 DEF Slots
  <2>5. CacheOK'
    BY <1>1, <1>2, <1>3, <1>8, <2>4 DEF CacheOK, Store
  <2>6. ThreadInv'
    BY <1>1, <1>2, <1>3, <1>8 DEF ThreadInv, Store, MainHasReadLock
  <2>7. QED  BY <1>1, <1>6, <1>8, <2>5, <2>6 DEF Store, DriveInv
<1>9. CASE ThreadLock \/ Top \/ Wait \/ SpuriousWake \/ Complete \/ Fetch \/ Fetched \/ StoreFailed
  <2>1. UNCHANGED <<cache, tsec>>
    BY <1>9 DEF ThreadLock, Top, Wait, SpuriousWake, Complete, Fetch, Fetched, StoreFailed
  <2>2. CacheOK'
    BY <1>1, <1>2, <1>3, <2>1 DEF CacheOK
  <2>3. tpc' = "reading" => tpc = "toread" /\ ~MainHasReadLock
    BY <1>9 DEF ThreadLock, Top, Wait, SpuriousWake, Complete, Fetch, Fetched, StoreFailed, ThreadMoves
  <2>4. tpc' \in {"toread", "reading", "storing"} => tpc \in {"toread", "reading", "storing"}
    BY <1>9 DEF ThreadLock, Top, Wait, SpuriousWake, Complete, Fetch, Fetched, StoreFailed, ThreadMoves
  <2>5. ThreadInv'
    BY <1>1, <1>2, <1>3, <2>1, <2>3, <2>4 DEF ThreadInv, MainHasReadLock
  <2>6. QED  BY <1>1, <1>6, <2>1, <2>2, <2>5 DEF DriveInv
<1>10. QED  BY <1>7, <1>8, <1>9 DEF ThreadStep

LEMMA DriveStep == DriveInv /\ [Next]_vars => DriveInv'
<1> SUFFICES ASSUME DriveInv, [Next]_vars PROVE DriveInv'
  OBVIOUS
<1>1. CASE Next
  BY <1>1, CallKeepsTypes, CallKeepsDrive, MainStepKeepsDrive, ThreadStepKeepsDrive DEF Next, DriveInv
<1>2. CASE UNCHANGED vars
  <2>1. TypeOK'
    BY <1>2 DEF vars, DriveInv, TypeOK, Started
  <2>2. ThreadInv'
    BY <1>2 DEF vars, DriveInv, ThreadInv, Started, MainHasReadLock
  <2>3. QED  BY <2>1, <2>2 DEF DriveInv
<1>3. QED  BY <1>1, <1>2

(* The state keeps its types: the locks and the cache are there exactly    *)
(* while the thread is, and a buffer holds a sector.                       *)
THEOREM TypeCorrect == Spec => []TypeOK
<1>1. DriveInv => TypeOK
  BY DEF DriveInv
<1>2. QED  BY <1>1, DriveInit, DriveStep, PTL DEF Spec

(* The two threads never read the drive at the same time, and the disc     *)
(* changes only while the thread is gone.                                  *)
THEOREM DriveIsExclusive == Spec => []DriveExclusive
<1>1. DriveInv => DriveExclusive
  BY DEF DriveInv, ThreadInv, DriveExclusive, Started, MainHasReadLock
<1>2. QED  BY <1>1, DriveInit, DriveStep, PTL DEF Spec

-----------------------------------------------------------------------------
(* The cache holds what its tags say, and what it holds is not read again  *)

Tagged == TagInv /\ CacheTruth

(* A cache without tags, and one that is left as it is.                    *)
LEMMA UntaggedCache ==
  ASSUME \A i \in DOMAIN cache : cache[i].tag = Empty
  PROVE  Tagged
BY DEF Tagged, TagInv, CacheTruth

LEMMA CacheIsLeft ==
  ASSUME Tagged, UNCHANGED <<cache, disc, buf_cnt>>
  PROVE  Tagged'
BY DEF Tagged, TagInv, CacheTruth, SlotOf

LEMMA CacheInit == Init => CacheInv
<1> SUFFICES ASSUME Init PROVE CacheInv
  OBVIOUS
<1>1. DriveInv /\ mpc = "idle"
  BY DriveInit DEF Init
<1>2. cache \in {NewCache(buf_cnt), NoCache} /\ buf_cnt \in Nat
  BY Constants DEF Init, Assumptions
<1>3. \A i \in DOMAIN cache : cache[i].tag = Empty
  BY <1>2, NewCacheIs, NoSlots
<1>4. QED  BY <1>1, <1>3, UntaggedCache DEF CacheInv, MissInv, Tagged

(* The sector that is stored is of the disc that is in: it cannot have     *)
(* been changed since the sector was read.                                 *)
LEMMA StoreIsTrue ==
  ASSUME DriveInv, Tagged, Store
  PROVE  Tagged'
<1> DEFINE l == tsec.lba
           i == SlotOf(l)
<1>1. TypeOK /\ Started /\ l \in Nat /\ l < Total /\ l \in 0 .. U32 - 1 /\ tsec.cdda \in BOOLEAN
  BY Constants DEF DriveInv, ThreadInv, TypeOK, Store, Started, Assumptions
<1>2. /\ FetchedTag % Bit = l /\ (FetchedTag >= Bit) = tsec.cdda
  BY <1>1, TagIs DEF FetchedTag
<1>3. CASE cache' = cache
  BY <1>3, CacheIsLeft DEF Store, cd
<1>4. CASE cache' = [cache EXCEPT ![i] = [tag |-> FetchedTag,
                                          data |-> Sector(disc, l, tsec.cdda)]]
  <2>1. DOMAIN cache' = DOMAIN cache /\ UNCHANGED <<disc, buf_cnt>>
    BY <1>4 DEF Store, cd
  <2>2. \A j \in DOMAIN cache : j # i => cache'[j] = cache[j]
    BY <1>4
  <2>3. i \in DOMAIN cache => cache'[i].tag = FetchedTag /\ cache'[i].data = Sector(disc, l, tsec.cdda)
    BY <1>4
  <2> HIDE DEF i
  <2>4. TagInv'
    BY <1>1, <1>2, <2>1, <2>2, <2>3 DEF Tagged, TagInv
  <2>5. ASSUME NEW j \in DOMAIN cache', cache'[j].tag # Empty
        PROVE  /\ cache'[j].data = Sector(disc, cache'[j].tag % Bit, cache'[j].tag >= Bit)
               /\ j = SlotOf(cache'[j].tag % Bit)
    <3>1. CASE j = i
      <4>1. cache'[j].tag = FetchedTag /\ cache'[j].data = Sector(disc, l, tsec.cdda)
        BY <2>1, <2>3, <2>5, <3>1
      <4>2. Sector(disc, FetchedTag % Bit, FetchedTag >= Bit) = Sector(disc, l, tsec.cdda)
        BY <1>2, Zenon
      <4>3. j = SlotOf(FetchedTag % Bit)
        BY <1>2, <3>1 DEF i
      <4>4. QED  BY <4>1, <4>2, <4>3
    <3>2. CASE j # i
      BY <2>1, <2>2, <2>5, <3>2 DEF Tagged, CacheTruth
    <3>3. QED  BY <3>1, <3>2
  <2>6. CacheTruth'
    BY <2>1, <2>5 DEF CacheTruth, SlotOf
  <2>7. QED  BY <2>4, <2>6 DEF Tagged
<1>5. QED  BY <1>3, <1>4 DEF Store

LEMMA TaggedStep ==
  ASSUME CacheInv, [Next]_vars
  PROVE  Tagged'
<1> USE DEF cd, bufs, request, main
<1>1. DriveInv /\ Tagged
  BY DEF CacheInv, Tagged
<1>2. CASE Call
  <2>1. UNCHANGED <<cache, disc, buf_cnt>>
    BY <1>2 DEF Call, ReadPrev, ReadCall, PrefetchCall, StopCall, OsdCall
  <2>2. QED  BY <1>1, <2>1, CacheIsLeft
<1>3. CASE NewCount \/ NewDisc
  <2>1. ~Started /\ cache = NoCache /\ thread_exit \in BOOLEAN
    BY <1>1, <1>3 DEF NewCount, NewDisc, DriveInv, ThreadInv, TypeOK
  <2>2. PICK n \in Counts : buf_cnt' = n /\ StartThread(n)
    BY <1>1, <1>3 DEF NewCount, NewDisc, DriveInv, TypeOK
  <2>3. \A i \in DOMAIN cache' : cache'[i].tag = Empty
    BY <2>1, <2>2, StartKeeps
  <2>4. QED  BY <2>3 DEF Tagged, TagInv, CacheTruth
<1>4. CASE Join
  BY <1>4, NoSlots DEF Join, Tagged, TagInv, CacheTruth
<1>5. CASE MainStep /\ ~(NewCount \/ NewDisc \/ Join)
  <2>1. UNCHANGED <<cache, disc, buf_cnt>>
    BY <1>5 DEF MainStep, Forward, Lookup, TakeReadLock, StopPrefetch, Direct, PrefetchAsk,
       PrefetchSignal, Halt, Ejected, CountCached
  <2>2. QED  BY <1>1, <2>1, CacheIsLeft
<1>6. CASE Store
  BY <1>1, <1>6, StoreIsTrue
<1>7. CASE ((ThreadStep /\ ~Store) \/ SpuriousWake) \/ UNCHANGED vars
  <2>1. UNCHANGED <<cache, disc, buf_cnt>>
    BY <1>7 DEF ThreadStep, ThreadLock, Top, Wait, SpuriousWake, Check, Complete, Fetch, Fetched,
       StoreFailed, vars
  <2>2. QED  BY <1>1, <2>1, CacheIsLeft
<1>8. QED  BY <1>2, <1>3, <1>4, <1>5, <1>6, <1>7 DEF Next

(* The second look in the cache was under both locks: until the drive has  *)
(* been read, the thread has no sector to store and reads none.            *)
LEMMA MissStep ==
  ASSUME CacheInv, [Next]_vars
  PROVE  MissInv'
<1> USE DEF cd, bufs, request, main, MissInv, Started
<1>1. DriveInv /\ ThreadInv /\ MissInv /\ tpc \in ThreadStates
  BY DEF CacheInv, DriveInv, TypeOK
<1>2. ASSUME UNCHANGED <<cache, buf_cnt, op>>
      PROVE  Hit' = Hit
  BY <1>2 DEF Hit, SlotOf, Asked
<1>3. CASE Call
  <2>1. mpc' \in {"clear", "direct"} => tpc' = "none"
    BY <1>1, <1>3 DEF Call, ReadPrev, ReadCall, PrefetchCall, StopCall, OsdCall
  <2>2. QED  BY <2>1
<1>4. CASE Lookup
  <2>1. CASE mpc = "again" /\ ~Hit
    <3>1. UNCHANGED <<cache, buf_cnt, op, tpc>> /\ tpc \notin {"reading", "storing"}
      BY <1>1, <1>4, <2>1 DEF Lookup, ThreadInv, MainHasReadLock, BufLockFree, WhileLocked
    <3>2. QED  BY <1>2, <2>1, <3>1
  <2>2. CASE mpc = "lookup" \/ Hit
    BY <1>4, <2>2 DEF Lookup, Deliver
  <2>3. QED  BY <1>4, <2>1, <2>2 DEF Lookup
<1>5. CASE StopPrefetch
  <2>1. UNCHANGED <<cache, buf_cnt, op, tpc>> /\ mpc = "clear"
    BY <1>5 DEF StopPrefetch
  <2>2. QED  BY <1>1, <1>2, <2>1
<1>6. CASE MainStep /\ ~Lookup /\ ~StopPrefetch
  <2>1. mpc' \notin {"clear", "direct"}
    BY <1>6 DEF MainStep, Forward, Direct, ReadDrive, Deliver, ReadFails, TakeReadLock, PrefetchAsk,
       PrefetchSignal, Halt, Join, NewCount, NewDisc, Ejected, CountCached
  <2>2. QED  BY <2>1
<1>7. CASE ThreadStep \/ SpuriousWake
  <2>1. tpc # "none" /\ UNCHANGED <<mpc, op, buf_cnt>>
    BY <1>7 DEF ThreadStep, ThreadLock, ThreadMoves, Top, Wait, SpuriousWake, Check, Complete, Fetch,
       Fetched, Store, StoreFailed
  <2>2. ASSUME mpc \in {"clear", "direct"}
        PROVE  UNCHANGED cache /\ tpc' \notin {"reading", "storing"}
    BY <1>1, <1>7, <2>1, <2>2 DEF ThreadStep, ThreadLock, ThreadMoves, Top, Wait, SpuriousWake, Check,
       Complete, Fetch, Fetched, Store, StoreFailed, MainHasReadLock
  <2>3. QED  BY <1>1, <1>2, <2>1, <2>2
<1>8. CASE UNCHANGED vars
  BY <1>1, <1>2, <1>8 DEF vars
<1>9. QED  BY <1>3, <1>4, <1>5, <1>6, <1>7, <1>8 DEF Next

LEMMA CacheStep == CacheInv /\ [Next]_vars => CacheInv'
BY DriveStep, TaggedStep, MissStep DEF CacheInv, Tagged

(* A slot that has a tag holds that sector of the disc that is in, in the  *)
(* form the tag says, through changes of the disc and of the buffers.      *)
THEOREM CacheIsTrue == Spec => []CacheTruth
<1>1. CacheInv => CacheTruth
  BY DEF CacheInv
<1>2. QED  BY <1>1, CacheInit, CacheStep, PTL DEF Spec

(* While there is a thread, the main thread reads the drive only for a     *)
(* sector that the cache does not hold.                                    *)
THEOREM NothingIsReadTwice == Spec => []NoDoubleRead
<1>1. CacheInv => NoDoubleRead
  BY DEF CacheInv, MissInv, NoDoubleRead
<1>2. QED  BY <1>1, CacheInit, CacheStep, PTL DEF Spec

-----------------------------------------------------------------------------
(* A read delivers the sector that was asked for                           *)

LEMMA ReadInit == Init => ReadInv
<1> SUFFICES ASSUME Init PROVE ReadInv
  OBVIOUS
<1>1. CacheInv
  BY CacheInit
<1>2. Prev \notin Times
  BY TimeIs DEF Init
<1>3. op.call = "none"
  BY DEF Init, Op
<1>4. ~Physical /\ KeepsBuffer => Started
  <2>1. PICK ok \in Starts : tpc = IF ok /\ CanStart(buf_cnt) THEN "start" ELSE "none"
    BY DEF Init
  <2>2. ASSUME 0 \notin Counts, FALSE \notin Starts
        PROVE  ok /\ CanStart(buf_cnt)
    <3>1. ok \in BOOLEAN /\ ok # FALSE
      BY <2>2, BoolAssumption
    <3>2. ok
      BY <3>1, Zenon
    <3>3. buf_cnt \in Nat /\ buf_cnt # 0
      BY <2>2, Constants DEF Init, Assumptions
    <3>4. QED  BY <3>2, <3>3 DEF CanStart
  <2>3. CASE Physical
    BY <2>3
  <2>4. CASE 0 \notin Counts /\ FALSE \notin Starts
    BY <2>1, <2>2, <2>4 DEF Started
  <2>5. QED  BY <2>3, <2>4 DEF KeepsBuffer
<1>5. BufferInv /\ CallInv /\ ReadTruth
  BY <1>2, <1>3, <1>4 DEF Init, BufferInv, CallInv, ReadTruth, Reads
<1>6. QED  BY <1>1, <1>5 DEF ReadInv

(* What the cache is found to hold is the sector asked for: only a time    *)
(* before the first sector could be taken for another, and its tag is none *)
(* that the cache can have.                                                *)
LEMMA HitIsWanted ==
  ASSUME Faithful, CacheInv, op.t \in Times, Started, Hit
  PROVE  cache[SlotOf(Lba(op.t))].data = Wanted
<1> DEFINE t == op.t
           l == Lba(t)
           i == SlotOf(l)
           c == op.call = "cdda"
<1>1. /\ Bit \in Nat /\ Bit > 0 /\ Total \in Nat /\ U32 = 2 * Bit /\ Empty = U32 - 1
      /\ Lead \in 1 .. Bit - Total /\ t # Lead - 1 /\ t \in Nat /\ t > 0 /\ t < Bit
  <2>1. t \in Nat /\ t > 0 /\ t < Bit
    BY TimeIs
  <2>2. Lead \in 1 .. Bit - Total /\ t # Lead - 1
    BY DEF Faithful
  <2>3. Bit \in Nat /\ Bit > 0 /\ Total \in Nat /\ U32 = 2 * Bit /\ Empty = U32 - 1
    BY Constants DEF Assumptions
  <2>4. QED  BY <2>1, <2>2, <2>3
<1>2. l = (IF t >= Lead THEN t - Lead ELSE U32 + t - Lead) /\ l \in 0 .. U32 - 1
  BY <1>1, LbaIs
<1>3. i \in DOMAIN cache /\ cache[i].tag = Asked
  <2>1. TypeOK /\ l \in Nat
    BY <1>2 DEF CacheInv, DriveInv
  <2>2. i \in DOMAIN cache
    BY <2>1, SlotIs
  <2>3. QED  BY <2>2 DEF Hit
<1>4. Asked # Empty => Asked % Bit < Total /\ cache[i].data = Sector(disc, Asked % Bit, Asked >= Bit)
  BY <1>3 DEF CacheInv, TagInv, CacheTruth
<1>5. Asked = IF c THEN Bit + (l % Bit) ELSE l
  BY DEF Asked, Tag
<1>6. c = TRUE \/ c = FALSE
  BY Zenon
<1> HIDE DEF c, i, l
<1>7. CASE t >= Lead
  <2>1. l = t - Lead /\ l \in 0 .. Bit - 1 /\ l < Bit - 1
    BY <1>1, <1>2, <1>7
  <2>2. l % Bit = l /\ (Bit + l) % Bit = l
    BY <2>1, Below
  <2>3. Asked # Empty /\ Asked % Bit = l
    BY <1>1, <1>5, <2>1, <2>2
  <2>4. (Asked >= Bit) = c
    <3>1. CASE c = TRUE
      <4>1. Asked = Bit + l
        BY <1>5, <2>2, <3>1
      <4>2. (Bit + l >= Bit) = TRUE
        BY <1>1, <2>1
      <4>3. QED  BY <3>1, <4>1, <4>2
    <3>2. CASE c = FALSE
      <4>1. Asked = l
        BY <1>5, <3>2
      <4>2. (l >= Bit) = FALSE
        BY <1>1, <2>1
      <4>3. QED  BY <3>2, <4>1, <4>2
    <3>3. QED  BY <1>6, <3>1, <3>2
  <2>5. cache[i].data = Sector(disc, l, c)
    BY <1>4, <2>3, <2>4, Zenon
  <2>6. QED  BY <2>5 DEF Wanted, c, i, l
<1>8. CASE t < Lead
  <2>1. l = U32 + t - Lead /\ l # Empty
    BY <1>1, <1>2, <1>8
  <2> DEFINE k == Bit + t - Lead
  <2>2. k \in 0 .. Bit - 1 /\ k >= Total /\ l = Bit + k
    BY <1>1, <1>8, <2>1
  <2> HIDE DEF k
  <2>3. (Bit + k) % Bit = k
    BY <2>2, Below
  <2>4. Asked = l /\ Asked % Bit = k
    BY <1>5, <1>6, <2>2, <2>3
  <2>5. QED  BY <1>1, <1>4, <2>1, <2>2, <2>4
<1>9. QED  BY <1>1, <1>7, <1>8

(* While the thread, the disc and the buffers stay, cdr.Prev vouches for   *)
(* the same buffer.                                                        *)
LEMMA BufferIsLeft ==
  ASSUME BufferInv, UNCHANGED <<Prev, disc, bufs>>, Started' = Started,
         mpc # "stopped", mpc' # "stopped"
  PROVE  BufferInv'
BY DEF BufferInv, PrevBuffer, UsesIso, bufs

(* A read that succeeds leaves the sector in the buffer it vouches for.    *)
LEMMA DeliverIsTrue ==
  ASSUME Faithful, ReadInv, mpc \in Reading, Deliver(Wanted), UNCHANGED <<disc, tpc>>
  PROVE  BufferInv' /\ ReadTruth' /\ (Prev' \in Times => "data" \in Calls)
<1>1. /\ BufferInv /\ CallInv /\ mpc # "stopped" /\ op.call \in Reads /\ op.call \in Calls
      /\ mpc' = "idle" /\ op' = op /\ res' = Wanted
  BY DEF ReadInv, CacheInv, DriveInv, ThreadInv, CallInv, Reading, Deliver
<1>2. ReadTruth'
  BY <1>1 DEF ReadTruth, Wanted
<1>3. CASE op.call = "data"
  <2>1. Wanted = Sector(disc, Lba(op.t), FALSE)
    <3>1. ("data" = "cdda") = FALSE
      OBVIOUS
    <3>2. QED  BY <1>3, <3>1 DEF Wanted
  <2>2. PrevBuffer' = Wanted /\ Prev' = op.t
    BY <1>1, <1>3 DEF Deliver, PrevBuffer, UsesIso, Started
  <2>3. QED  BY <1>1, <1>2, <1>3, <2>1, <2>2 DEF BufferInv
<1>4. CASE op.call = "raw"
  <2>1. Prev' \notin Times
    BY <1>1, <1>4 DEF Faithful, CallInv, Deliver
  <2>2. QED  BY <1>2, <2>1 DEF BufferInv
<1>5. CASE op.call \in {"cdda", "sub"}
  <2>1. UNCHANGED <<Prev, bufs>> /\ Started' = Started
    BY <1>5 DEF Deliver, bufs, Started
  <2>2. QED  BY <1>1, <1>2, <2>1, BufferIsLeft DEF CallInv
<1>6. QED  BY <1>1, <1>3, <1>4, <1>5 DEF Reads

LEMMA FailIsTrue ==
  ASSUME Faithful, ReadInv, mpc \in Reading, ReadFails, UNCHANGED <<disc, tpc>>
  PROVE  BufferInv' /\ ReadTruth' /\ Prev' = Prev
<1>1. /\ BufferInv /\ CallInv /\ mpc # "stopped" /\ mpc' = "idle" /\ Prev' = Prev /\ res' = Fail
      /\ op.t \in Times
  BY DEF ReadInv, CacheInv, DriveInv, ThreadInv, Reading, ReadFails
<1>2. ReadTruth'
  BY <1>1 DEF ReadTruth
<1>3. CASE Prev \in Times
  <2>1. ~Flaky
    BY <1>1, <1>3 DEF CallInv, Faithful
  <2>2. Lba(op.t) \in Int /\ Total \in Int
    <3>1. op.t \in Nat /\ op.t < Bit
      BY <1>1, TimeIs
    <3>2. Lba(op.t) \in 0 .. U32 - 1
      BY <3>1, LbaIs
    <3>3. QED  BY <3>2, Constants DEF Assumptions
  <2>3. UNCHANGED bufs
    BY <2>1, <2>2 DEF ReadFails
  <2>4. QED  BY <1>1, <1>2, <2>3, BufferIsLeft DEF Started
<1>4. CASE Prev \notin Times
  BY <1>1, <1>2, <1>4 DEF BufferInv
<1>5. QED  BY <1>1, <1>2, <1>3, <1>4

LEMMA CallKeepsReads ==
  ASSUME Faithful, ReadInv, Call
  PROVE  BufferInv' /\ CallInv' /\ ReadTruth'
<1> USE DEF cd, bufs
<1>1. /\ BufferInv /\ CallInv /\ ReadTruth /\ mpc = "idle" /\ UNCHANGED <<disc, Prev, bufs, tpc>>
      /\ Started' = Started
  BY DEF ReadInv, Call, ReadPrev, ReadCall, PrefetchCall, StopCall, OsdCall, Started
<1>2. ASSUME NEW t \in Times, ReadPrev(t)
      PROVE  BufferInv' /\ CallInv' /\ ReadTruth'
  <2>1. /\ mpc' = "idle" /\ op'.call = "data" /\ op'.t = t /\ Prev = t /\ res' = Buffer
        /\ "data" \in Calls
    BY <1>1, <1>2 DEF ReadPrev, Op
  <2>2. Buffer = Sector(disc, Lba(t), FALSE)
    BY <1>1, <2>1 DEF BufferInv, PrevBuffer, Buffer
  <2>3. Wanted' = Sector(disc, Lba(t), FALSE)
    <3>1. ("data" = "cdda") = FALSE
      OBVIOUS
    <3>2. QED  BY <1>1, <2>1, <3>1 DEF Wanted
  <2>4. ReadTruth'
    BY <2>1, <2>2, <2>3 DEF ReadTruth
  <2>5. CallInv'
    BY <1>1, <2>1 DEF CallInv, Reads
  <2>6. QED  BY <1>1, <2>1, <2>4, <2>5, BufferIsLeft
<1>3. ASSUME NEW t \in Times, NEW c \in Calls \cap Reads, ReadCall(c, t)
      PROVE  BufferInv' /\ CallInv' /\ ReadTruth'
  <2>1. /\ op'.call = c /\ mpc' \in {"idle", "lookup", "forward", "clear"}
        /\ (mpc' = "idle" => res' = Fail)
    BY <1>1, <1>3 DEF ReadCall, Op
  <2>2. QED  BY <1>1, <2>1, BufferIsLeft DEF CallInv, ReadTruth, Reads
<1>4. ASSUME NEW t \in Times, NEW cdda \in BOOLEAN, PrefetchCall(t, cdda)
      PROVE  BufferInv' /\ CallInv' /\ ReadTruth'
  <2>1. op'.call = "prefetch" /\ mpc' = "ask"
    BY <1>4 DEF PrefetchCall, Op
  <2>2. QED  BY <1>1, <2>1, BufferIsLeft DEF CallInv, ReadTruth, Reads
<1>5. CASE OsdCall
  <2>1. op'.call = "osd" /\ mpc' = "osd"
    BY <1>5 DEF OsdCall, Op
  <2>2. QED  BY <1>1, <2>1, BufferIsLeft DEF CallInv, ReadTruth, Reads
<1>6. ASSUME NEW c \in {"swap", "count", "eject"}, StopCall(c)
      PROVE  BufferInv' /\ CallInv' /\ ReadTruth'
  <2>1. op'.call = c /\ c \in Calls /\ mpc' \in {"halt", "stopped"} /\ (c = "eject" => Physical)
        /\ (mpc' = "stopped" => ~Started)
    BY <1>6 DEF StopCall, Op
  <2>2. CallInv' /\ ReadTruth'
    BY <1>1, <2>1 DEF CallInv, ReadTruth, Reads
  <2>3. CASE mpc' = "halt"
    BY <1>1, <2>2, <2>3, BufferIsLeft
  <2>4. CASE mpc' = "stopped" /\ c = "count" /\ Prev \in Times
    <3>1. KeepsBuffer
      BY <1>1, <2>1, <2>4 DEF CallInv, Faithful
    <3>2. Physical
      BY <1>1, <2>1, <2>4, <3>1 DEF CallInv
    <3>3. BufferInv'
      BY <1>1, <2>4, <3>2 DEF BufferInv, PrevBuffer, UsesIso
    <3>4. QED  BY <2>2, <3>3
  <2>5. CASE mpc' = "stopped" /\ (c # "count" \/ Prev \notin Times)
    BY <1>1, <2>1, <2>2, <2>5 DEF BufferInv
  <2>6. QED  BY <2>1, <2>3, <2>4, <2>5
<1>7. QED  BY <1>2, <1>3, <1>4, <1>5, <1>6 DEF Call

LEMMA MainStepKeepsReads ==
  ASSUME Faithful, ReadInv, MainStep
  PROVE  BufferInv' /\ CallInv' /\ ReadTruth'
<1> USE DEF cd, bufs
<1>1. BufferInv /\ CallInv /\ ReadTruth /\ DriveInv /\ CacheInv /\ ThreadInv /\ TypeOK
  BY DEF ReadInv, CacheInv, DriveInv
<1>2. CASE mpc \in Reading /\ mpc' = "idle" /\ UNCHANGED <<disc, tpc>> /\ (Deliver(Wanted) \/ ReadFails)
  <2>1. BufferInv' /\ ReadTruth' /\ (Prev' \in Times => "data" \in Calls)
    BY <1>1, <1>2, DeliverIsTrue, FailIsTrue DEF CallInv
  <2>2. op' = op /\ Started' = Started
    BY <1>2 DEF Deliver, ReadFails, Started
  <2>3. mpc # "stopped"
    BY <1>2 DEF Reading
  <2>4. CallInv'
    BY <1>1, <1>2, <2>1, <2>2, <2>3 DEF CallInv
  <2>5. QED  BY <2>1, <2>4
<1>3. CASE Forward \/ Direct
  BY <1>2, <1>3 DEF Forward, Direct, ReadDrive, Deliver, ReadFails, Reading
<1>4. CASE Lookup /\ Hit
  <2>1. Started /\ op.t \in Times /\ mpc \in Reading
    BY <1>1, <1>4 DEF Lookup, ThreadInv, NeedsThread, Reading
  <2>2. Deliver(Wanted)
    BY <1>1, <1>4, <2>1, HitIsWanted DEF Lookup
  <2>3. QED  BY <1>2, <1>4, <2>1, <2>2 DEF Lookup, Deliver
<1>5. ASSUME mpc \notin {"idle", "stopped"}, UNCHANGED <<Prev, disc, bufs, op>>, Started' = Started,
             mpc' # "stopped", mpc' = "idle" => op.call \notin Reads,
             mpc' \in {"halt", "join"} => mpc \in {"halt", "join"},
             mpc' \in {"ask", "signal", "osd"} => mpc \in {"ask", "signal", "osd"}
      PROVE  BufferInv' /\ CallInv' /\ ReadTruth'
  <2>1. CallInv' /\ ReadTruth'
    BY <1>1, <1>5 DEF CallInv, ReadTruth
  <2>2. QED  BY <1>1, <1>5, <2>1, BufferIsLeft
<1>6. CASE (Lookup /\ ~Hit) \/ TakeReadLock \/ StopPrefetch \/ PrefetchAsk
  BY <1>5, <1>6 DEF Lookup, TakeReadLock, StopPrefetch, PrefetchAsk, Started
<1>7. CASE Halt
  BY <1>5, <1>7 DEF Halt, Started, Woken
<1>8. CASE PrefetchSignal \/ CountCached
  <2>1. Started' = Started /\ mpc' = "idle" /\ mpc \in {"signal", "osd"} /\ UNCHANGED <<Prev, disc, bufs, op, res>>
    BY <1>8 DEF PrefetchSignal, CountCached, Started, Woken
  <2>2. CASE op.call \notin Reads
    BY <1>5, <2>1, <2>2
  <2>3. op.call \notin Reads
    BY <1>1, <2>1 DEF CallInv
  <2>4. QED  BY <2>2, <2>3
<1>9. CASE Join
  <2>1. Started /\ mpc = "join" /\ mpc' = "stopped" /\ UNCHANGED <<Prev, disc, bufs, op, res>>
    BY <1>9 DEF Join, Started
  <2>2. CallInv' /\ ReadTruth'
    BY <1>1, <2>1 DEF CallInv, ReadTruth
  <2>3. BufferInv'
    BY <1>1, <2>1 DEF BufferInv, PrevBuffer, UsesIso
  <2>4. QED  BY <2>2, <2>3
<1>10. CASE NewCount \/ NewDisc
  <2>1. ~Started /\ cache = NoCache /\ thread_exit \in BOOLEAN /\ mpc = "stopped" /\ mpc' = "idle" /\ op' = op
    BY <1>1, <1>10 DEF NewCount, NewDisc, ThreadInv, TypeOK
  <2>2. PICK n \in Counts : buf_cnt' = n /\ StartThread(n)
    BY <1>1, <1>10 DEF NewCount, NewDisc, TypeOK
  <2>3. 0 \notin Counts /\ FALSE \notin Starts => Started'
    BY <2>1, <2>2, StartKeeps DEF Started
  <2>4. op.call \in {"swap", "count"} /\ (Prev' = Prev \/ Prev' = Unread)
    BY <1>10 DEF NewCount, NewDisc
  <2>5. Unread \notin Times
    BY TimeIs DEF Unread
  <2>6. CallInv' /\ ReadTruth'
    BY <1>1, <2>1, <2>3, <2>4, <2>5 DEF CallInv, ReadTruth, Reads, KeepsBuffer
  <2>7. BufferInv'
    <3>1. CASE NewCount /\ Prev \in Times
      <4>1. op.call = "count" /\ UNCHANGED <<Prev, disc, bufs>>
        BY <3>1 DEF NewCount
      <4>2. buf_local = Sector(disc, Lba(Prev), FALSE)
        BY <1>1, <2>1, <3>1, <4>1 DEF BufferInv, PrevBuffer
      <4>3. KeepsBuffer
        BY <1>1, <3>1, <4>1 DEF CallInv, Faithful
      <4>4. ~UsesIso'
        BY <2>3, <4>3 DEF KeepsBuffer, UsesIso
      <4>5. QED  BY <4>1, <4>2, <4>4 DEF BufferInv, PrevBuffer
    <3>2. CASE NewDisc \/ Prev \notin Times
      <4>1. Prev' \notin Times
        BY <1>10, <2>5, <3>2 DEF NewCount, NewDisc
      <4>2. QED  BY <4>1 DEF BufferInv
    <3>3. QED  BY <1>10, <3>1, <3>2
  <2>8. QED  BY <2>6, <2>7
<1>11. CASE Ejected
  <2>1. Unread \notin Times
    BY TimeIs DEF Unread
  <2>2. mpc = "stopped" /\ op.call = "eject" /\ op' = op /\ Prev' = Unread /\ mpc' = "idle"
    BY <1>11 DEF Ejected
  <2>3. Physical
    BY <1>1, <2>2 DEF CallInv
  <2>4. QED  BY <1>1, <2>1, <2>2, <2>3 DEF BufferInv, CallInv, ReadTruth, Reads
<1>12. QED
  BY <1>3, <1>4, <1>6, <1>7, <1>8, <1>9, <1>10, <1>11 DEF MainStep

LEMMA ReadStep ==
  ASSUME Faithful
  PROVE  ReadInv /\ [Next]_vars => ReadInv'
<1> SUFFICES ASSUME ReadInv, [Next]_vars PROVE ReadInv'
  OBVIOUS
<1>1. CacheInv'
  BY CacheStep DEF ReadInv
<1>2. BufferInv' /\ CallInv' /\ ReadTruth'
  <2>1. CASE Call
    BY <2>1, CallKeepsReads
  <2>2. CASE MainStep
    BY <2>2, MainStepKeepsReads
  <2>3. CASE ThreadStep \/ SpuriousWake \/ UNCHANGED vars
    <3>1. UNCHANGED <<Prev, disc, buf_local, iso_buf, op, res, mpc>> /\ Started' = Started
      BY <2>3 DEF ThreadStep, ThreadLock, ThreadMoves, Top, Wait, SpuriousWake, Check, Complete, Fetch,
         Fetched, Store, StoreFailed, vars, main, cd, bufs, Started
    <3>2. QED
      BY <3>1 DEF ReadInv, BufferInv, CallInv, ReadTruth, PrevBuffer, UsesIso, Wanted
  <2>4. QED  BY <2>1, <2>2, <2>3 DEF Next
<1>3. QED  BY <1>1, <1>2 DEF ReadInv

(* What a read that returned success delivered is the sector asked for, of *)
(* the disc that is in, wherever it came from: the cache, the drive or the *)
(* buffer of the sector read last.                                         *)
THEOREM ReadsAreTrue ==
  ASSUME Faithful
  PROVE  Spec => []ReadTruth
<1>1. ReadInv => ReadTruth
  BY DEF ReadInv
<1>2. QED  BY <1>1, ReadInit, ReadStep, PTL DEF Spec
=============================================================================
