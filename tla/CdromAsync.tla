----------------------------- MODULE CdromAsync -----------------------------
(***************************************************************************)
(* The read-ahead of the CD-ROM: libpcsxcore/cdrom-async.c, with the one   *)
(* function of cdrom.c that remembers which sector the buffer holds        *)
(* (ReadTrack and cdr.Prev).  The emulation thread (the "main" thread)     *)
(* reads sectors and says what it will read next; the prefetch thread      *)
(* fills buf_cache, an array in which sector lba has the slot              *)
(* lba % buf_cnt.  buf_lock guards the slots, read_lock the drive or the   *)
(* image; do_prefetch and prefetch_lba_wflag are shared without a lock.    *)
(*                                                                         *)
(* The contents of a sector are the record that says which sector it is.   *)
(* What the main thread does under buf_lock is one step, taken when the    *)
(* prefetch thread is outside its own sections; what the prefetch thread   *)
(* does there takes several, as the main thread may write the unlocked     *)
(* variables between them.                                                 *)
(*                                                                         *)
(* Hit, Woken, CanStart, FetchedTag, WhileReading and WhileLocked have a   *)
(* faulty twin before them, which the specification does not use.          *)
(***************************************************************************)
EXTENDS Integers, FiniteSets

CONSTANTS
  Lead,      \* sectors before lba 0: 150
  Bit,       \* the cdda bit of a tag, 2^31; lbas are numbers below 2 * Bit
  Total,     \* total_lba of every disc
  Discs,     \* the discs that may be put in
  Counts,    \* the numbers of buffers that may be chosen
  Times,     \* the times (in sectors, from 00:00:00) that may be asked for
  Calls,     \* the calls the main thread makes
  Physical,  \* g_cd_handle # NULL: a drive, not an image
  Sub,       \* have_subchannel
  Flaky,     \* whether reading a sector of the disc may fail
  Starts,    \* whether the thread is created: outcomes of cdra_start_thread
  Spurious   \* whether the condition variable may wake without a signal

ASSUME LeadAssumption == Lead \in Nat
ASSUME BitAssumption == Bit \in Nat /\ Total \in 1 .. Bit - 1 /\ Lead < Bit
ASSUME CountsAssumption == Counts \subseteq Nat
ASSUME TimesAssumption == Times \subseteq 1 .. Bit - 1
ASSUME BoolAssumption == {Physical, Sub, Flaky, Spurious} \cup Starts \subseteq BOOLEAN
ASSUME DiscsAssumption == {"zero", "junk", "fail"} \cap Discs = {}

Reads == {"data", "cdda", "sub", "raw"}
AllCalls == Reads \cup {"none", "prefetch", "swap", "count", "eject", "osd"}

U32 == 2 * Bit
Empty == U32 - 1                          \* ~0, the tag of an unused slot
Lba(t) == (t - Lead) % U32                \* MSF2SECT in a u32
Tag(lba, cdda) == IF cdda THEN Bit + (lba % Bit) ELSE lba

(* What a buffer may hold: a sector of a disc, as read or as sound, or     *)
(* what it holds before any (Zero) or after half a read (Junk).  A read    *)
(* delivers contents, or the error Fail.                                   *)
Sector(d, lba, cdda) == [disc |-> d, lba |-> lba, cdda |-> cdda]
Zero == Sector("zero", 0, FALSE)
Junk == Sector("junk", 0, FALSE)
Fail == Sector("fail", 0, FALSE)
Sectors == [disc : Discs, lba : 0 .. U32 - 1, cdda : BOOLEAN]
Contents == Sectors \cup {Zero, Junk}
Unread == -1                              \* Prev is ff:ff:ff
NoCache == <<>>

VARIABLES
  buf_cnt, thread_exit, do_prefetch, prefetch_lba_wflag,   \* of acdrom
  cache,      \* buf_cache, NULL as NoCache: then the locks are NULL too
  buf_local,  \* the buffer cdra_readTrack fills
  iso_buf,    \* the buffer of cdriso.c, used when there is no thread
  disc,       \* the disc in the drive, or the image that is open
  Prev,       \* cdr.Prev, as a time
  tpc,        \* where the prefetch thread is, "none": there is no thread
  tsec,       \* the sector it fetches
  mpc, op,    \* where the main thread is, and in which call
  res         \* what the last read delivered, or Fail

main == <<mpc, op, res, Prev>>
cd == <<buf_cnt, disc>>
bufs == <<buf_local, iso_buf>>
request == <<do_prefetch, prefetch_lba_wflag>>
vars == <<buf_cnt, thread_exit, do_prefetch, prefetch_lba_wflag, cache,
          buf_local, iso_buf, disc, Prev, tpc, tsec, mpc, op, res>>

Started == tpc # "none"
SlotOf(lba) == lba % buf_cnt
Op(c, t) == [call |-> c, t |-> t]

(* buf_lock is the thread's in these states, read_lock in "reading".       *)
WhileLockedEarly == {"top", "towait", "check", "complete"}
WhileLocked == WhileLockedEarly \cup {"storing"}
WhileReadingNever == {}
WhileReading == {"reading"}
BufLockFree == tpc \notin WhileLocked
ReadLockFree == tpc \notin WhileReading
MainHasReadLock == mpc \in {"again", "clear", "direct"}

(* cdra_start_thread makes a thread only when there are buffers.           *)
CanStartAnyway(n) == TRUE
CanStart(n) == n > 0

NewCache(n) == [i \in 0 .. n - 1 |-> [tag |-> Empty, data |-> Zero]]

Init ==
  /\ buf_cnt \in Counts
  /\ disc \in Discs
  /\ \E ok \in Starts :
       /\ tpc = IF ok /\ CanStart(buf_cnt) THEN "start" ELSE "none"
       /\ cache = IF ok /\ CanStart(buf_cnt) THEN NewCache(buf_cnt) ELSE NoCache
  /\ thread_exit = FALSE /\ do_prefetch = FALSE /\ prefetch_lba_wflag = 0
  /\ buf_local = Zero /\ iso_buf = Zero
  /\ Prev = 0                             \* cdrReset clears cdr
  /\ tsec = [lba |-> 0, cdda |-> FALSE]
  /\ mpc = "idle" /\ op = Op("none", 1) /\ res = Zero

-----------------------------------------------------------------------------
(* The main thread: reads.                                                 *)

(* cdra_getBuffer                                                          *)
UsesIso == ~Started /\ ~Physical
Buffer == IF UsesIso THEN iso_buf ELSE buf_local

Wanted == Sector(disc, Lba(op.t), op.call = "cdda")
Asked == Tag(Lba(op.t), op.call = "cdda")
HitAnyForm == cache[SlotOf(Lba(op.t))].tag % Bit = Lba(op.t)
Hit == cache[SlotOf(Lba(op.t))].tag = Asked

(* A read ends: into cdra_readTrack's buffer or the caller's; ReadTrack    *)
(* remembers the time of a read that succeeded.                            *)
Deliver(v) ==
  /\ res' = v
  /\ buf_local' = IF op.call \in {"data", "raw"} /\ ~UsesIso THEN v ELSE buf_local
  /\ iso_buf' = IF op.call \in {"data", "raw"} /\ UsesIso THEN v ELSE iso_buf
  /\ Prev' = IF op.call = "data" THEN op.t ELSE Prev
  /\ mpc' = "idle"
  /\ UNCHANGED op

(* There is nothing beyond the end of the disc; a read that fails within   *)
(* it may already have written to the buffer.                              *)
ReadFails ==
  /\ Flaky \/ Lba(op.t) >= Total
  /\ res' = Fail /\ mpc' = "idle" /\ UNCHANGED <<op, Prev>>
  /\ \/ UNCHANGED bufs
     \/ /\ op.call \in {"data", "raw"} /\ Lba(op.t) < Total
        /\ IF UsesIso THEN iso_buf' = Junk /\ UNCHANGED buf_local
                      ELSE buf_local' = Junk /\ UNCHANGED iso_buf

ReadDrive == (Lba(op.t) < Total /\ Deliver(Wanted)) \/ ReadFails

(* ReadTrack of cdrom.c does not read the sector it read last again.       *)
ReadPrev(t) ==
  /\ mpc = "idle" /\ "data" \in Calls /\ Prev = t
  /\ op' = Op("data", t) /\ res' = Buffer
  /\ UNCHANGED <<mpc, Prev, cd, bufs, request, thread_exit, cache, tpc, tsec>>

ReadCall(c, t) ==
  /\ mpc = "idle"
  /\ c = "data" => Prev # t
  /\ op' = Op(c, t)
  /\ IF c = "sub" /\ ~Sub
       THEN res' = Fail /\ UNCHANGED mpc
       ELSE /\ mpc' = CASE Started -> "lookup"
                        [] ~Started /\ UsesIso /\ c # "cdda" -> "forward"
                        [] OTHER -> "clear"
            /\ UNCHANGED res
  /\ UNCHANGED <<Prev, cd, bufs, request, thread_exit, cache, tpc, tsec>>

Forward ==
  /\ mpc = "forward"
  /\ ReadDrive
  /\ UNCHANGED <<cd, request, thread_exit, cache, tpc, tsec>>

(* lbacache_get, first without read_lock, then with it: the thread may     *)
(* have been fetching the very sector.                                     *)
Lookup ==
  /\ mpc \in {"lookup", "again"}
  /\ BufLockFree
  /\ IF Hit
       THEN Deliver(cache[SlotOf(Lba(op.t))].data)
       ELSE /\ mpc' = IF mpc = "lookup" THEN "rlock" ELSE "clear"
            /\ UNCHANGED <<op, res, Prev, bufs>>
  /\ UNCHANGED <<cd, request, thread_exit, cache, tpc, tsec>>

TakeReadLock ==
  /\ mpc = "rlock"
  /\ ReadLockFree
  /\ mpc' = "again"
  /\ UNCHANGED <<op, res, Prev, cd, bufs, request, thread_exit, cache, tpc, tsec>>

StopPrefetch ==
  /\ mpc = "clear"
  /\ do_prefetch' = FALSE
  /\ mpc' = "direct"
  /\ UNCHANGED <<op, res, Prev, cd, bufs, prefetch_lba_wflag, thread_exit, cache,
                 tpc, tsec>>

Direct ==
  /\ mpc = "direct"
  /\ ReadDrive
  /\ UNCHANGED <<cd, request, thread_exit, cache, tpc, tsec>>

-----------------------------------------------------------------------------
(* The main thread: asking for sectors ahead, three steps without a lock.  *)

PrefetchCall(t, cdda) ==
  /\ mpc = "idle" /\ "prefetch" \in Calls
  /\ Started
  /\ op' = Op("prefetch", t)
  /\ prefetch_lba_wflag' = Tag(Lba(t), cdda)
  /\ mpc' = "ask"
  /\ UNCHANGED <<res, Prev, cd, bufs, do_prefetch, thread_exit, cache, tpc, tsec>>

PrefetchAsk ==
  /\ mpc = "ask"
  /\ do_prefetch' = TRUE
  /\ mpc' = "signal"
  /\ UNCHANGED <<op, res, Prev, cd, bufs, prefetch_lba_wflag, thread_exit, cache,
                 tpc, tsec>>

(* scond_signal: a thread that waits wakes up, and must get buf_lock.      *)
WokenLost == tpc
Woken == IF tpc = "wait" THEN "start2" ELSE tpc

PrefetchSignal ==
  /\ mpc = "signal"
  /\ tpc' = Woken
  /\ mpc' = "idle"
  /\ UNCHANGED <<op, res, Prev, cd, bufs, request, thread_exit, cache, tsec>>

-----------------------------------------------------------------------------
(* The main thread: stopping and starting the prefetch thread.             *)

(* A new disc (close and open), another number of buffers, or an ejected   *)
(* disc, which is one only for a drive: each stops the thread first.       *)
StopCall(c) ==
  /\ mpc = "idle" /\ c \in Calls \cap {"swap", "count", "eject"}
  /\ c = "eject" => Physical
  /\ op' = Op(c, 1)
  /\ thread_exit' = TRUE
  /\ mpc' = IF Started THEN "halt" ELSE "stopped"
  /\ UNCHANGED <<res, Prev, cd, bufs, request, cache, tpc, tsec>>

Halt ==
  /\ mpc = "halt"
  /\ BufLockFree
  /\ do_prefetch' = FALSE
  /\ tpc' = Woken
  /\ mpc' = "join"
  /\ UNCHANGED <<op, res, Prev, cd, bufs, prefetch_lba_wflag, thread_exit, cache, tsec>>

Join ==
  /\ mpc = "join"
  /\ tpc = "exited"
  /\ tpc' = "none" /\ cache' = NoCache
  /\ mpc' = "stopped"
  /\ UNCHANGED <<op, res, Prev, cd, bufs, request, thread_exit, tsec>>

(* cdra_start_thread; without a thread everything is freed again.          *)
StartThread(n) ==
  /\ prefetch_lba_wflag' = 0 /\ do_prefetch' = FALSE
  /\ \E ok \in Starts :
       IF ok /\ CanStart(n)
         THEN /\ tpc' = "start" /\ thread_exit' = FALSE
              /\ cache' = NewCache(n)
         ELSE /\ thread_exit' = CanStart(n)
              /\ UNCHANGED <<tpc, cache>>

NewCount ==
  /\ mpc = "stopped" /\ op.call = "count"
  /\ \E n \in Counts \ {buf_cnt} : buf_cnt' = n /\ StartThread(n)
  /\ mpc' = "idle"
  /\ UNCHANGED <<op, res, Prev, disc, bufs, tsec>>

(* ISOclose clears its buffer; the lid interrupt forgets Prev.             *)
NewDisc ==
  /\ mpc = "stopped" /\ op.call = "swap"
  /\ disc' \in Discs
  /\ iso_buf' = IF Physical THEN iso_buf ELSE Zero
  /\ Prev' = Unread
  /\ StartThread(buf_cnt)
  /\ mpc' = "idle"
  /\ UNCHANGED <<op, res, buf_cnt, buf_local, tsec>>

Ejected ==
  /\ mpc = "stopped" /\ op.call = "eject"
  /\ Prev' = Unread
  /\ mpc' = "idle"
  /\ UNCHANGED <<op, res, cd, bufs, request, thread_exit, cache, tpc, tsec>>

(* The frame counter on the screen shows how full the cache is whenever    *)
(* the number of buffers is not zero.                                      *)
OsdCall ==
  /\ mpc = "idle" /\ "osd" \in Calls
  /\ buf_cnt > 0
  /\ op' = Op("osd", 1)
  /\ mpc' = "osd"
  /\ UNCHANGED <<res, Prev, cd, bufs, request, thread_exit, cache, tpc, tsec>>

CountCached ==
  /\ mpc = "osd"
  /\ mpc' = "idle"
  /\ UNCHANGED <<op, res, Prev, cd, bufs, request, thread_exit, cache, tpc, tsec>>

-----------------------------------------------------------------------------
(* The prefetch thread.                                                    *)

ThreadMoves(from, to) == tpc = from /\ tpc' = to

(* It takes buf_lock: at first, after a wait, or after a fetch.            *)
ThreadLock ==
  /\ \/ ThreadMoves("start", "top")
     \/ ThreadMoves("start2", "check")
  /\ UNCHANGED <<main, cd, bufs, request, thread_exit, cache, tsec>>

Top ==
  /\ tpc = "top"
  /\ tpc' = CASE thread_exit -> "exited"
              [] ~thread_exit /\ do_prefetch -> "check"
              [] OTHER -> "towait"
  /\ UNCHANGED <<main, cd, bufs, request, thread_exit, cache, tsec>>

Wait ==
  /\ ThreadMoves("towait", "wait")
  /\ UNCHANGED <<main, cd, bufs, request, thread_exit, cache, tsec>>

(* A condition variable may wake without a signal.                         *)
SpuriousWake ==
  /\ Spurious
  /\ ThreadMoves("wait", "start2")
  /\ UNCHANGED <<main, cd, bufs, request, thread_exit, cache, tsec>>

(* The sectors to have in the cache, and those of them that are not.       *)
ReqCdda == prefetch_lba_wflag >= Bit
ReqLba == prefetch_lba_wflag % Bit
Window == {l \in ReqLba .. ReqLba + buf_cnt - 1 : l < Total}
Missing == {l \in Window : cache[SlotOf(l)].tag # Tag(l, ReqCdda)}

Check ==
  /\ tpc = "check"
  /\ IF ~do_prefetch \/ thread_exit
       THEN tpc' = "top" /\ UNCHANGED tsec
       ELSE IF Missing = {}
         THEN tpc' = "complete" /\ UNCHANGED tsec
         ELSE /\ tsec' = [lba |-> CHOOSE l \in Missing : \A k \in Missing : l <= k,
                          cdda |-> ReqCdda]
              /\ tpc' = "toread"
  /\ UNCHANGED <<main, cd, bufs, request, thread_exit, cache>>

Complete ==
  /\ ThreadMoves("complete", "top")
  /\ do_prefetch' = FALSE
  /\ UNCHANGED <<main, cd, bufs, prefetch_lba_wflag, thread_exit, cache, tsec>>

Fetch ==
  /\ ThreadMoves("toread", "reading")
  /\ ~MainHasReadLock
  /\ UNCHANGED <<main, cd, bufs, request, thread_exit, cache, tsec>>

(* buf_lock is taken before read_lock is let go, so that who waits for     *)
(* read_lock finds the sector in the cache.                                *)
Fetched ==
  /\ ThreadMoves("reading", "storing")
  /\ UNCHANGED <<main, cd, bufs, request, thread_exit, cache, tsec>>

FetchedTagReread == Tag(tsec.lba, ReqCdda)
FetchedTag == Tag(tsec.lba, tsec.cdda)

Store ==
  /\ tpc = "storing"
  /\ LET tag == FetchedTag
         i == SlotOf(tsec.lba)
     IN cache' = IF cache[i].tag = tag THEN cache
                 ELSE [cache EXCEPT ![i] = [tag |-> tag,
                                            data |-> Sector(disc, tsec.lba, tsec.cdda)]]
  /\ tpc' = "start"
  /\ UNCHANGED <<main, cd, bufs, request, thread_exit, tsec>>

StoreFailed ==
  /\ Flaky
  /\ ThreadMoves("storing", "start")
  /\ do_prefetch' = FALSE
  /\ UNCHANGED <<main, cd, bufs, prefetch_lba_wflag, thread_exit, cache, tsec>>

-----------------------------------------------------------------------------
Call ==
  \/ \E t \in Times : \/ ReadPrev(t)
                      \/ \E c \in Calls \cap Reads : ReadCall(c, t)
                      \/ \E cdda \in BOOLEAN : PrefetchCall(t, cdda)
  \/ \E c \in {"swap", "count", "eject"} : StopCall(c)
  \/ OsdCall

MainStep ==
  \/ Forward \/ Lookup \/ TakeReadLock \/ StopPrefetch \/ Direct
  \/ PrefetchAsk \/ PrefetchSignal
  \/ Halt \/ Join \/ NewCount \/ NewDisc \/ Ejected
  \/ CountCached

ThreadStep ==
  \/ ThreadLock \/ Top \/ Wait \/ Check \/ Complete
  \/ Fetch \/ Fetched \/ Store \/ StoreFailed

Next == Call \/ MainStep \/ ThreadStep \/ SpuriousWake

Spec == Init /\ [][Next]_vars

(* A call of the main thread runs on, the prefetch thread is scheduled, a  *)
(* lock that is free is got, a read of the drive ends; that another call   *)
(* is made is not assumed.                                                 *)
FairSpec == Spec /\ WF_vars(MainStep) /\ WF_vars(ThreadStep)

-----------------------------------------------------------------------------
MainStates == {"idle", "forward", "lookup", "rlock", "again", "clear", "direct",
               "ask", "signal", "halt", "join", "stopped", "osd"}
ThreadStates == {"none", "start", "start2", "top", "towait", "wait", "check",
                 "complete", "toread", "reading", "storing", "exited"}
Slots == [tag : 0 .. U32 - 1, data : Contents]

(* Types; the locks and buf_cache exist exactly while the thread does,     *)
(* which lets every other part ask only for the thread.                    *)
TypeOK ==
  /\ buf_cnt \in Counts /\ disc \in Discs
  /\ thread_exit \in BOOLEAN /\ do_prefetch \in BOOLEAN
  /\ prefetch_lba_wflag \in 0 .. U32 - 1
  /\ tpc \in ThreadStates /\ mpc \in MainStates
  /\ IF Started THEN buf_cnt > 0 /\ cache \in [0 .. buf_cnt - 1 -> Slots]
                ELSE cache = NoCache
  /\ buf_local \in Contents /\ iso_buf \in Contents
  /\ Prev \in Times \cup {0, Unread}
  /\ tsec \in [lba : 0 .. Bit - 1, cdda : BOOLEAN]
  /\ op \in [call : AllCalls, t : Nat]
  /\ res \in Contents \cup {Fail}

(* A slot that has a tag holds that sector of the disc that is in now, in  *)
(* the form (data or sound) the tag says: the cache survives no change of  *)
(* disc, and no fetch of the old disc ends up in the new cache.            *)
CacheTruth ==
  \A i \in DOMAIN cache : LET tag == cache[i].tag IN
    tag # Empty => /\ cache[i].data = Sector(disc, tag % Bit, tag >= Bit)
                   /\ i = SlotOf(tag % Bit)

(* What a read that returned success delivered is the sector asked for, of *)
(* the disc that is in, whether it came from the thread's cache, from the  *)
(* drive or from the buffer cdr.Prev vouches for.                          *)
ReadTruth ==
  mpc = "idle" /\ op.call \in Reads /\ res # Fail => res = Wanted

(* The two threads never read the drive (or the image) at the same time,   *)
(* and the disc changes only while the thread is gone: "simultaneous reads *)
(* are prevented" (cdrom-async.c:138).                                     *)
DriveExclusive ==
  tpc = "reading" => mpc \notin {"forward", "direct", "stopped"}

(* The main thread reads the drive only for a sector that is not in the    *)
(* cache: the second look, under read_lock, misses nothing that the        *)
(* thread was about to store (cdrom-async.c:336 "maybe still prefetching").*)
NoDoubleRead == mpc = "direct" /\ Started => ~Hit

(* Every call of the main thread returns, stopping the thread included: no *)
(* deadlock between the two locks and no lost wake-up at the join.         *)
CallsReturn == (mpc # "idle") ~> (mpc = "idle")

(* The count of cached sectors is taken of a cache that is there.          *)
OsdHasCache == mpc = "osd" => cache # NoCache
=============================================================================
