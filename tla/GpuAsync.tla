------------------------------ MODULE GpuAsync ------------------------------
(***************************************************************************)
(* The asynchronous GPU of plugins/gpulib/gpu_async.c: the emulation       *)
(* thread (the "main" thread here) puts GP0 commands in a ring of words,   *)
(* the gpu thread takes them out and renders.  pos_added and pos_used are  *)
(* the two ends of the ring, free-running counters of words (PosMod is     *)
(* 2^32 in the program); idle, wait_mode and two condition variables       *)
(* arrange who sleeps when; draw_areas remembers where in the ring each    *)
(* drawing area begins, so that a scan-out waits for no more than it must. *)
(*                                                                         *)
(* A lock section of the main thread is one step, taken when the gpu       *)
(* thread is outside its own; everything outside the lock interleaves.     *)
(* The gpu thread holds the lock in the states "top" and "decide".         *)
(*                                                                         *)
(* A few small definitions have a faulty twin just before them (Fits and   *)
(* FitsNoRecheck, ...), which the specification does not use: substituting *)
(* it shows that a property notices the fault.                             *)
(***************************************************************************)
EXTENDS Integers, Sequences, FiniteSets

CONSTANTS
  BufLen,      \* AGPU_BUF_LEN, words in the ring
  PosMod,      \* 2^32 in the program: the positions wrap here
  MaxPos,      \* bound: no call begins at or after this position
  AreaCnt,     \* AGPU_AREAS_CNT
  EcmdsLen,    \* words gpu_async_sync_ecmds sends: 6, ex_regs[1..6]
  Tiles,       \* vram, in the pieces the regions are made of
  Lists,       \* the command lists the main thread may submit
  Screens,     \* the regions the display may show
  Areas,       \* the drawing areas gpu_async_sync_ecmds may be called with
  Dmas,        \* the vram uploads, as commands
  Calls,       \* the calls the main thread makes
  FrameSkip,   \* gpu->frameskip.set
  Spurious     \* whether a condition variable may wake without a signal

Ops == {"env", "tex", "draw", "fill", "copy", "screen", "ilace", "dma", "brk",
        "nop", "free"}
Regions == SUBSET Tiles

ASSUME BufLenAssumption == BufLen \in Nat /\ BufLen > 1
ASSUME PosModAssumption == PosMod \in Nat /\ PosMod > BufLen /\ PosMod % BufLen = 0
ASSUME AreaCntAssumption == AreaCnt \in Nat /\ AreaCnt > 1
ASSUME EcmdsLenAssumption == EcmdsLen \in 1 .. BufLen - 1
ASSUME RegionAssumption == Areas \subseteq Regions /\ Screens \subseteq Regions
ASSUME BoolAssumption == FrameSkip \in BOOLEAN /\ Spurious \in BOOLEAN

(* A command: its kind, the vram region it names, and two numbers: the     *)
(* shape of a drawing, or the words per line and the lines of an upload.   *)
Cmd(op, r, s, h) == [op |-> op, r |-> r, s |-> s, h |-> h]
Env(r) == Cmd("env", r, 0, 0)
Tex == Cmd("tex", {}, 0, 0)
Brk == Cmd("brk", {}, 0, 0)
Cmds == {c \in [op : Ops, r : Regions, s : Nat, h : Nat] : c.op = "dma" => c.s > 0}

(* What a list may hold for the ring: an upload ends it, and what is none  *)
(* of these is skipped.                                                    *)
ListCmds == {c \in Cmds : c.op \in {"env", "tex", "draw", "fill", "copy"}}
ASSUME CmdAssumption == Lists \subseteq Seq(ListCmds) /\ Dmas \subseteq {c \in Cmds : c.op = "dma"}

(* A word of the ring: word number k of a command.  env is a ghost: the    *)
(* drawing area the program had set when it issued the command.            *)
Cell(c, e, k) == [c |-> c, env |-> e, k |-> k]
Pad == Cell(Cmd("nop", {}, 0, 0), {}, 0)      \* a zero word
Free == Cell(Cmd("free", {}, 0, 0), {}, 0)    \* a word the thread has used up
Cells == [c : Cmds, env : Regions, k : Nat]

Index == 0 .. BufLen - 1
Positions == 0 .. PosMod - 1
Slots == 0 .. AreaCnt - 1

VARIABLES
  pos_added, pos_used, pos_target, wait_mode, idle, exit,
  cells,       \* agpu->cmd_buffer
  env_t,       \* agpu->ex_regs: the drawing area at render time
  areas,       \* agpu->draw_areas
  pos_area,
  flip,        \* agpu->delayed_flip; {} is src_x = -1
  env_m,       \* gpu->ex_regs: the drawing area as the program set it
  screen,      \* gpu->screen
  mpc,         \* where the main thread is
  op,          \* the call it is in
  msig,        \* cond_add was signalled while it waited
  tpc,         \* where the gpu thread is
  tlen, tdone, \* its locals len and done
  tdirty,      \* renderer_dirty
  rq           \* what the renderer has queued but not yet drawn to vram

ringVars == <<pos_added, pos_used, cells>>
syncVars == <<pos_target, wait_mode, idle, exit, msig>>
areaVars == <<areas, pos_area>>
gpuVars == <<flip, env_m, screen>>
mainVars == <<mpc, op>>
threadVars == <<tpc, tlen, tdone, tdirty>>
vars == <<ringVars, syncVars, areaVars, gpuVars, mainVars, threadVars, env_t, rq>>

-----------------------------------------------------------------------------
(* Arithmetic of the positions: uint32_t in the program.                   *)
Plus(a, n) == (a + n) % PosMod
Diff(a, b) == IF a >= b THEN a - b ELSE a - b + PosMod
SignedLess(a, b) == Diff(a, b) >= PosMod \div 2

(* The words of a command.  The fake commands have fixed sizes, an upload  *)
(* is a header of three words; its lines are added one by one.             *)
Len0(c) ==
  CASE c.op \in {"env", "tex", "nop", "free"} -> 1
    [] c.op = "draw" -> 2
    [] c.op \in {"fill", "ilace", "brk", "dma"} -> 3
    [] c.op \in {"copy", "screen"} -> 4
Words(c, e, from, n) == [i \in 1 .. n |-> Cell(c, e, from + i - 1)]
Head0(c, e) == Words(c, e, 0, Len0(c))

Rendered(c) == c.op \in {"draw", "fill"} \/ (c.op = "copy" /\ c.r # {})

-----------------------------------------------------------------------------
(* do_add_pos: add n words at pa, all or nothing.  Words never straddle    *)
(* the end of the ring: what is left of it is filled with zeros first, and *)
(* stays filled when the words then do not fit.                            *)
Room(pa) == BufLen - Diff(pa, pos_used)
PadFor(pa, n) == LET left == BufLen - (pa % BufLen) IN IF left < n THEN left ELSE 0
FitsNoRecheck(pa, n) == n <= Room(pa)
Fits(pa, n) == n <= Room(pa) /\ n + PadFor(pa, n) <= Room(pa)
AfterPad(pa, n) == IF n <= Room(pa) THEN Plus(pa, PadFor(pa, n)) ELSE pa
AddedPos(pa, n) == IF Fits(pa, n) THEN Plus(AfterPad(pa, n), n) ELSE AfterPad(pa, n)
Filled(pa, ws) ==
  LET n == Len(ws)
      padded == Diff(AfterPad(pa, n), pa)
      written == IF Fits(pa, n) THEN n ELSE 0
  IN  [i \in Index |->
        LET d == (BufLen + i - (pa % BufLen)) % BufLen
        IN  IF d < padded THEN Pad
            ELSE IF d < padded + written THEN ws[d - padded + 1]
            ELSE cells[i]]

(* add_draw_area: remember that region r may be drawn to from pos on.      *)
(* Only a scan-out reads the areas: an instance without one keeps none.    *)
NewArea(a, pos, force, r) ==
  LET i == IF force \/ Diff(pos, a.list[a.cur].pos) > 1
           THEN (a.cur + 1) % AreaCnt ELSE a.cur
  IN  IF "scanout" \in Calls
      THEN [list |-> [a.list EXCEPT ![i] = [pos |-> pos, r |-> r]], cur |-> i]
      ELSE a
AreaNow == [list |-> areas, cur |-> pos_area]
SetAreas(a) == areas' = a.list /\ pos_area' = a.cur

(* The thread sleeps and everything added is used: the main thread may     *)
(* call the renderer itself.                                               *)
QuietNoIdle == pos_added = pos_used
Quiet == idle /\ pos_added = pos_used

LockFree == tpc \notin {"top", "decide"}
Waits == {"addwait", "fullwait", "targetwait"}

(* run_thread_nolock *)
Kick == /\ idle' = FALSE
        /\ tpc' = IF idle /\ tpc = "sleep" THEN "woken" ELSE tpc

(* The call the main thread is in: what is left of its list, words that    *)
(* did not fit, the position it writes at (pos_added until published),     *)
(* dst_can_add, pos_handled > 0, rendered_anything, insert_break, bad, the *)
(* line of an upload, a scan-out's target and region, and what to go on    *)
(* with after a sync.                                                      *)
OpRecords ==
  [rest : Seq(Cmds), unh : Seq(Cells), pa : Positions, can : BOOLEAN, some : BOOLEAN,
   rend : BOOLEAN, brk : BOOLEAN, bad : BOOLEAN, line : Nat, target : Positions,
   reg : Regions, ret : {"idle", "publish", "vram", "stop", "flip"}]
NoOp == [rest |-> <<>>, unh |-> <<>>, pa |-> 0, can |-> TRUE, some |-> FALSE,
         rend |-> FALSE, brk |-> FALSE, bad |-> FALSE, line |-> 0, target |-> 0,
         reg |-> {}, ret |-> "idle"]
Done == mpc' = "idle" /\ op' = NoOp

Init ==      \* gpu_async_enable, once the thread is created
  /\ pos_added = 0 /\ pos_used = 0 /\ pos_target = 0
  /\ wait_mode = "none" /\ idle = FALSE /\ exit = FALSE /\ msig = FALSE
  /\ cells = [i \in Index |-> Free]
  /\ areas = [i \in Slots |-> [pos |-> 0, r |-> {}]] /\ pos_area = 0
  /\ env_t = {} /\ flip = {} /\ rq = {}
  /\ tpc = "start" /\ tlen = 0 /\ tdone = 0 /\ tdirty = FALSE
  /\ mpc = "ecmds" /\ op = NoOp
  /\ env_m \in Areas /\ screen \in Screens

-----------------------------------------------------------------------------
(* gpu_async_do_cmd_list.  While everything is quiet, the leading          *)
(* environment commands are executed by the main thread itself.            *)
Call(name) == mpc = "idle" /\ name \in Calls
AddCall(name) == Call(name) /\ pos_added < MaxPos

ListCall ==
  /\ AddCall("list")
  /\ \E l \in Lists :
       op' = [NoOp EXCEPT !.rest = l, !.pa = pos_added, !.ret = "publish"]
  /\ mpc' = IF Quiet THEN "prefix" ELSE "loop"
  /\ UNCHANGED <<ringVars, syncVars, areaVars, gpuVars, threadVars, env_t, rq>>

Prefix ==
  /\ mpc = "prefix"
  /\ IF op.rest # <<>> /\ Head(op.rest).op \in {"env", "tex"}
     THEN LET c == Head(op.rest)
              changes == c.op = "env" /\ c.r # env_m
          IN  /\ op' = [op EXCEPT !.rest = Tail(@), !.some = TRUE]
              /\ IF changes
                 THEN env_m' = c.r /\ SetAreas(NewArea(AreaNow, pos_added, FALSE, c.r))
                 ELSE UNCHANGED <<env_m, areaVars>>
              /\ env_t' = IF c.op = "env" THEN c.r ELSE env_t
              /\ mpc' = mpc
     ELSE mpc' = "loop" /\ UNCHANGED <<op, env_m, areaVars, env_t>>
  /\ UNCHANGED <<ringVars, syncVars, flip, screen, threadVars, rq>>

(* What the list loop asks of a command c: does it change the environment  *)
(* (against gpu->ex_regs), may it touch vram outside the newest area, and  *)
(* is the ring still taking commands of this list?                         *)
RedundantForThread(c) == c.op = "env" /\ c.r = env_t
Redundant(c) == c.op = "env" /\ c.r = env_m
Outside(c) == c.op \in {"fill", "copy"} /\ c.r # {} /\ ~(c.r \subseteq areas[pos_area].r)
CanAddAgain == TRUE
CanAdd == op.can

(* One command of the list: note its drawing area, then add it to the ring *)
(* unless an earlier one did not fit.  Commands that change nothing are    *)
(* dropped while the ring takes everything.                                *)
Loop ==
  /\ mpc = "loop" /\ op.rest # <<>>
  /\ LET c == Head(op.rest)
         skip == Redundant(c) \/ (c.op = "copy" /\ c.r = {})
         ghost == IF c.op = "draw" THEN env_m ELSE {}
         add == CanAdd /\ ~skip
         handled == CanAdd /\ (skip \/ Fits(op.pa, Len0(c)))
     IN  /\ IF Outside(c)
            THEN SetAreas(NewArea(NewArea(AreaNow, op.pa, TRUE, c.r),
                                  Plus(op.pa, 1), TRUE, env_m))
            ELSE IF c.op = "env" /\ ~Redundant(c)
                 THEN SetAreas(NewArea(AreaNow, op.pa, FALSE, c.r))
                 ELSE UNCHANGED areaVars
         /\ env_m' = IF c.op = "env" THEN c.r ELSE env_m
         /\ cells' = IF add THEN Filled(op.pa, Head0(c, ghost)) ELSE cells
         /\ op' = [op EXCEPT
              !.rest = Tail(@),
              !.pa   = IF add THEN AddedPos(@, Len0(c)) ELSE @,
              !.can  = handled,
              !.some = @ \/ handled,
              !.unh  = IF handled THEN @ ELSE @ \o Head0(c, ghost),
              !.rend = @ \/ Rendered(c),
              !.brk  = @ \/ (c.op = "env" /\ ~Redundant(c))]
  /\ UNCHANGED <<pos_added, pos_used, syncVars, flip, screen, mpc, threadVars, env_t, rq>>

Publish ==
  /\ mpc = "publish"
  /\ pos_added' = op.pa
  /\ op' = [op EXCEPT !.ret = "idle", !.pa = 0]
  /\ mpc' = "kick"
  /\ UNCHANGED <<pos_used, cells, syncVars, areaVars, gpuVars, threadVars, env_t, rq>>

KickAfterList ==
  /\ mpc = "kick"
  /\ mpc' = IF op.unh # <<>> THEN "add" ELSE "break"
  /\ IF op.some /\ (op.rend \/ op.unh # <<>>)
     THEN LockFree /\ Kick ELSE UNCHANGED <<idle, tpc>>
  /\ UNCHANGED <<ringVars, pos_target, wait_mode, exit, msig, areaVars, gpuVars, op,
                 tlen, tdone, tdirty, env_t, rq>>

(* do_add_with_wait, for what did not fit and for the fake commands        *)

AddWithWait ==
  /\ mpc = "add"
  /\ cells' = Filled(pos_added, op.unh)
  /\ pos_added' = AddedPos(pos_added, Len(op.unh))
  /\ IF Fits(pos_added, Len(op.unh))
     THEN mpc' = "break" /\ op' = [op EXCEPT !.unh = <<>>]
     ELSE mpc' = "addlock" /\ op' = op
  /\ UNCHANGED <<pos_used, syncVars, areaVars, gpuVars, threadVars, env_t, rq>>

WaitForRoom ==
  IF Len(op.unh) > Room(pos_added)
  THEN wait_mode' = "progress" /\ msig' = FALSE /\ mpc' = "addwait"
  ELSE mpc' = "add" /\ UNCHANGED <<wait_mode, msig>>

AddLock ==
  /\ mpc = "addlock" /\ LockFree
  /\ Kick
  /\ WaitForRoom
  /\ UNCHANGED <<ringVars, pos_target, exit, areaVars, gpuVars, op,
                 tlen, tdone, tdirty, env_t, rq>>

AddWoken ==
  /\ mpc = "addwait" /\ msig /\ LockFree
  /\ WaitForRoom
  /\ UNCHANGED <<ringVars, pos_target, idle, exit, areaVars, gpuVars, op,
                 threadVars, env_t, rq>>

Break ==
  /\ mpc = "break"
  /\ IF op.brk
     THEN /\ cells' = Filled(pos_added, Head0(Brk, {}))
          /\ pos_added' = AddedPos(pos_added, Len0(Brk))
     ELSE UNCHANGED <<cells, pos_added>>
  /\ Done
  /\ UNCHANGED <<pos_used, syncVars, areaVars, gpuVars, threadVars, env_t, rq>>

-----------------------------------------------------------------------------
(* gpu_async_notify_screen_change, gpu_async_set_interlace,                *)
(* gpu_async_sync_ecmds: the renderer is told directly when all is quiet,  *)
(* through the ring otherwise.                                             *)
Tell(c, ws) ==
  IF Quiet THEN mpc' = "direct" /\ op' = [NoOp EXCEPT !.rest = <<c>>]
  ELSE mpc' = "add" /\ op' = [NoOp EXCEPT !.unh = ws]

ScreenCall ==
  /\ AddCall("screen")
  /\ \E r \in Screens \ {screen} :
       LET c == Cmd("screen", r, 0, 0) IN screen' = r /\ Tell(c, Head0(c, {}))
  /\ UNCHANGED <<ringVars, syncVars, areaVars, flip, env_m, threadVars, env_t, rq>>

InterlaceCall ==
  /\ AddCall("ilace")
  /\ LET c == Cmd("ilace", {}, 0, 0) IN Tell(c, Head0(c, {}))
  /\ UNCHANGED <<ringVars, syncVars, areaVars, gpuVars, threadVars, env_t, rq>>

EcmdsCall ==      \* frameskip_prepare_noskip, GPUfreeze, do_reset
  /\ AddCall("ecmds")
  /\ env_m' \in Areas
  /\ mpc' = "ecmds" /\ op' = op
  /\ UNCHANGED <<ringVars, syncVars, areaVars, flip, screen, threadVars, env_t, rq>>

SyncEcmds ==
  /\ mpc = "ecmds"
  /\ Tell(Env(env_m), [i \in 1 .. EcmdsLen |-> Cell(IF i = 1 THEN Env(env_m) ELSE Tex, {}, 0)])
  /\ UNCHANGED <<ringVars, syncVars, areaVars, gpuVars, threadVars, env_t, rq>>

Direct ==
  /\ mpc = "direct"
  /\ CASE Head(op.rest).op = "env" ->
            /\ env_t' = env_m
            /\ SetAreas(NewArea(AreaNow, pos_added, FALSE, env_m))
            /\ UNCHANGED rq
       [] Head(op.rest).op = "ilace" -> rq' = {} /\ UNCHANGED <<env_t, areaVars>>
       [] OTHER -> UNCHANGED <<rq, env_t, areaVars>>
  /\ Done
  /\ UNCHANGED <<ringVars, syncVars, gpuVars, threadVars>>

-----------------------------------------------------------------------------
(* gpu_async_try_dma: an upload goes through the ring when the thread is   *)
(* busy and there is room, else the renderer is synced and the main thread *)
(* writes to vram.                                                         *)
DmaRoomNoSlack(c) == 3 + c.s * c.h
DmaRoom(c) == 3 + c.s * (c.h + 1)
DmaCall ==
  /\ AddCall("dma")
  /\ \E c \in Dmas :
       IF Quiet \/ Room(pos_added) < DmaRoom(c)
       THEN mpc' = "sync" /\ op' = [NoOp EXCEPT !.rest = <<c>>, !.ret = "vram"]
       ELSE /\ mpc' = "dma"
            /\ op' = [NoOp EXCEPT !.rest = <<c>>, !.pa = pos_added, !.ret = "publish"]
  /\ UNCHANGED <<ringVars, syncVars, areaVars, gpuVars, threadVars, env_t, rq>>

DmaWords(c) ==
  IF op.line = 0 THEN Head0(c, {}) ELSE Words(c, {}, 3 + (op.line - 1) * c.s, c.s)

DmaAdd ==
  /\ mpc = "dma"
  /\ op.line <= Head(op.rest).h
  /\ LET ws == DmaWords(Head(op.rest))
     IN  /\ cells' = Filled(op.pa, ws)
         /\ op' = [op EXCEPT !.line = @ + 1, !.pa = AddedPos(@, Len(ws)),
                             !.bad = @ \/ ~Fits(op.pa, Len(ws))]
  /\ UNCHANGED <<pos_added, pos_used, syncVars, areaVars, gpuVars, mpc, threadVars, env_t, rq>>

DmaPublish ==
  /\ mpc = "dma" /\ LockFree
  /\ op.line > Head(op.rest).h
  /\ pos_added' = op.pa
  /\ Kick
  /\ Done
  /\ UNCHANGED <<pos_used, cells, pos_target, wait_mode, exit, msig, areaVars, gpuVars,
                 tlen, tdone, tdirty, env_t, rq>>

-----------------------------------------------------------------------------
(* gpu_async_sync, gpu_async_sync_nocheck.  op.ret says what follows.      *)
VramCall ==      \* do_vram_io and the other callers of sync_renderer
  /\ Call("vram")
  /\ mpc' = "sync" /\ op' = [NoOp EXCEPT !.ret = "vram"]
  /\ UNCHANGED <<ringVars, syncVars, areaVars, gpuVars, threadVars, env_t, rq>>

Sync ==
  /\ mpc = "sync"
  /\ IF Quiet
     THEN mpc' = "synced" /\ UNCHANGED <<wait_mode, msig, idle, tpc>>
     ELSE /\ LockFree
          /\ Kick
          /\ wait_mode' = "full" /\ msig' = FALSE /\ mpc' = "fullwait"
  /\ UNCHANGED <<ringVars, pos_target, exit, areaVars, gpuVars, op,
                 tlen, tdone, tdirty, env_t, rq>>

FullWoken ==
  /\ mpc = "fullwait" /\ msig /\ LockFree
  /\ mpc' = "synced"
  /\ UNCHANGED <<ringVars, syncVars, areaVars, gpuVars, op, threadVars, env_t, rq>>

Synced ==
  /\ mpc = "synced"
  /\ IF op.ret \in {"vram", "stop"}
     THEN IF flip # {}
          THEN mpc' = "scan" /\ op' = [op EXCEPT !.reg = flip]
          ELSE mpc' = op.ret /\ op' = op
     ELSE mpc' = "scan" /\ op' = op
  /\ UNCHANGED <<ringVars, syncVars, areaVars, gpuVars, threadVars, env_t, rq>>

Vram ==      \* the main thread itself works on vram and the renderer's caches
  /\ mpc = "vram"
  /\ Done
  /\ UNCHANGED <<ringVars, syncVars, areaVars, gpuVars, threadVars, env_t, rq>>

-----------------------------------------------------------------------------
(* calc_scanout_wait: may region r be shown (0), only when the thread has  *)
(* used the ring up to target (1), or only after a full sync (-1)?  The    *)
(* areas are scanned from the newest to the oldest.                        *)
AreaAt(k) == areas[(pos_area + AreaCnt - k) % AreaCnt]
Verdict(ret, target) == [ret |-> ret, target |-> target]
CalcScanout(r) ==      \* the one verdict, in a set
  LET hits(k) == AreaAt(k).r \cap r # {}
      begun(k) == pos_used >= AreaAt(k).pos
      stops == {k \in Slots : hits(k) \/ begun(k)}
      first == {k \in stops : \A j \in stops : k <= j}
      newerThan(k) == Verdict(1, Plus(AreaAt(k - 1).pos, 1))
  IN  IF Quiet THEN {Verdict(0, 0)}
      ELSE IF idle \/ AreaAt(AreaCnt - 1).pos > pos_used THEN {Verdict(-1, 0)}
      ELSE IF stops = {} THEN {newerThan(AreaCnt)}
      ELSE {IF ~hits(k) THEN Verdict(0, 0)
            ELSE IF k = 0 THEN Verdict(-1, 0) ELSE newerThan(k) : k \in first}

(* do_scanout_wait for region r, to be shown by Scan                       *)
ScanoutWait(cs, r) ==
  /\ mpc' = IF cs.ret = 1 THEN "twait" ELSE "sync"
  /\ op' = [op EXCEPT !.reg = r, !.target = cs.target]

ScanoutCall ==      \* gpu_async_sync_scanout, called by GPUupdateLace
  /\ Call("scanout")
  /\ \E cs \in CalcScanout(screen) :
          CASE cs.ret = 0 -> mpc' = "scan" /\ op' = [op EXCEPT !.reg = screen] /\ UNCHANGED flip
           [] cs.ret # 0 /\ FrameSkip -> flip' = screen /\ UNCHANGED <<mpc, op>>
           [] OTHER -> ScanoutWait(cs, screen) /\ UNCHANGED flip
  /\ UNCHANGED <<ringVars, syncVars, areaVars, env_m, screen, threadVars, env_t, rq>>

TryDelayedFlip ==      \* gpu_async_try_delayed_flip(gpu, 0)
  /\ Call("scanout") /\ FrameSkip
  /\ flip # {} /\ \A cs \in CalcScanout(screen) : cs.ret = 0
  /\ mpc' = "scan" /\ op' = [op EXCEPT !.reg = flip, !.ret = "flip"]
  /\ UNCHANGED <<ringVars, syncVars, areaVars, gpuVars, threadVars, env_t, rq>>

LoopEnd ==      \* breakloop: a delayed flip is forced before the list is published
  /\ mpc = "loop" /\ op.rest = <<>>
  /\ IF op.rend /\ flip # {}
     THEN \E cs \in CalcScanout(screen) : ScanoutWait(cs, flip)
     ELSE mpc' = "publish" /\ op' = op
  /\ UNCHANGED <<ringVars, syncVars, areaVars, gpuVars, threadVars, env_t, rq>>

TargetWait ==
  /\ mpc = "twait" /\ LockFree
  /\ IF ~idle /\ SignedLess(pos_used, op.target)
     THEN /\ pos_target' = op.target /\ wait_mode' = "target"
          /\ msig' = FALSE /\ mpc' = "targetwait"
     ELSE mpc' = "scan" /\ UNCHANGED <<pos_target, wait_mode, msig>>
  /\ UNCHANGED <<ringVars, idle, exit, areaVars, gpuVars, op, threadVars, env_t, rq>>

TargetWoken ==
  /\ mpc = "targetwait" /\ msig /\ LockFree
  /\ mpc' = "scan"
  /\ UNCHANGED <<ringVars, syncVars, areaVars, gpuVars, op, threadVars, env_t, rq>>

Scan ==      \* vout_update reads op.reg from vram
  /\ mpc = "scan"
  /\ flip' = IF op.ret = "idle" THEN flip ELSE {}
  /\ IF op.ret \in {"idle", "flip"} THEN Done
     ELSE mpc' = op.ret /\ op' = [op EXCEPT !.reg = {}, !.target = 0]
  /\ UNCHANGED <<ringVars, syncVars, areaVars, env_m, screen, threadVars, env_t, rq>>

-----------------------------------------------------------------------------
(* gpu_async_stop and gpu_async_enable                                     *)
StopCall ==
  /\ Call("stop")
  /\ mpc' = "sync" /\ op' = [NoOp EXCEPT !.ret = "stop"]
  /\ UNCHANGED <<ringVars, syncVars, areaVars, gpuVars, threadVars, env_t, rq>>

SetExit ==      \* psx_gpu_async_free, before it takes the lock
  /\ mpc = "stop"
  /\ exit' = TRUE /\ mpc' = "stopping"
  /\ UNCHANGED <<ringVars, pos_target, wait_mode, idle, msig, areaVars, gpuVars, op,
                 threadVars, env_t, rq>>

SignalExit ==
  /\ mpc = "stopping" /\ LockFree
  /\ tpc' = IF tpc = "sleep" THEN "woken" ELSE tpc
  /\ mpc' = "join"
  /\ UNCHANGED <<ringVars, syncVars, areaVars, gpuVars, op, tlen, tdone, tdirty, env_t, rq>>

Join ==
  /\ mpc = "join" /\ tpc = "exited"
  /\ mpc' = "off" /\ op' = NoOp
  /\ UNCHANGED <<ringVars, syncVars, areaVars, gpuVars, threadVars, env_t, rq>>

OffSetEnv ==      \* without the thread gpu->ex_regs is the renderer's own state
  /\ mpc = "off"
  /\ env_m' \in Areas \ {env_m}
  /\ UNCHANGED <<ringVars, syncVars, areaVars, flip, screen, mainVars, threadVars, env_t, rq>>

EnableCall ==
  /\ mpc = "off"
  /\ pos_added' = 0 /\ pos_used' = 0 /\ pos_target' = 0
  /\ wait_mode' = "none" /\ idle' = FALSE /\ exit' = FALSE /\ msig' = FALSE
  /\ cells' = [i \in Index |-> Free]
  /\ areas' = [i \in Slots |-> [pos |-> 0, r |-> {}]] /\ pos_area' = 0
  /\ env_t' = {} /\ flip' = {} /\ rq' = {}
  /\ tpc' = "start" /\ tlen' = 0 /\ tdone' = 0 /\ tdirty' = FALSE
  /\ mpc' = "ecmds" /\ op' = NoOp
  /\ UNCHANGED <<env_m, screen>>

-----------------------------------------------------------------------------
(* gpu_async_thread                                                        *)
ThreadLock ==      \* slock_lock, or the return of scond_wait
  /\ tpc \in {"start", "woken"}
  /\ tpc' = "top"
  /\ UNCHANGED <<ringVars, syncVars, areaVars, gpuVars, mainVars, tlen, tdone, tdirty, env_t, rq>>

Top ==
  /\ tpc = "top"
  /\ IF exit THEN tpc' = "exited" /\ tlen' = 0
     ELSE tpc' = "decide" /\ tlen' = Diff(pos_added, pos_used)
  /\ UNCHANGED <<ringVars, syncVars, areaVars, gpuVars, mainVars, tdone, tdirty, env_t, rq>>

SignalLost == wait_mode' = "none" /\ msig' = FALSE
Signal == wait_mode' = "none" /\ msig' = (mpc \in Waits)

Sleep ==
  /\ tpc = "decide" /\ tlen = 0 /\ ~tdirty
  /\ IF wait_mode \in {"full", "target"} THEN Signal ELSE UNCHANGED <<wait_mode, msig>>
  /\ idle' = TRUE
  /\ tpc' = "sleep"
  /\ UNCHANGED <<ringVars, pos_target, exit, areaVars, gpuVars, mainVars,
                 tlen, tdone, tdirty, env_t, rq>>

Unlock ==
  /\ tpc = "decide" /\ (tlen # 0 \/ tdirty)
  /\ tpc' = IF tlen = 0 THEN "flush" ELSE "render"
  /\ UNCHANGED <<ringVars, syncVars, areaVars, gpuVars, mainVars, tlen, tdone, tdirty, env_t, rq>>

Flush ==
  /\ tpc = "flush"
  /\ rq' = {} /\ tdirty' = FALSE
  /\ tpc' = "top"
  /\ UNCHANGED <<ringVars, syncVars, areaVars, gpuVars, mainVars, tlen, tdone, env_t>>

(* The words the thread looks at: no further than the end of the ring.     *)
(* The renderer takes the ordinary commands among them and stops at the    *)
(* first special one, which the thread then carries out.                   *)
Ordinary(c) == c.op \in {"nop", "free", "env", "tex", "draw", "fill"}
UsedAt == pos_used % BufLen
BatchLen == IF tlen < BufLen - UsedAt THEN tlen ELSE BufLen - UsedAt
Batch == [i \in 1 .. BatchLen |-> cells[UsedAt + i - 1]]
Takes(n) ==
  /\ \A i \in 1 .. n : Ordinary(Batch[i].c)
  /\ n < BatchLen => ~Ordinary(Batch[n + 1].c)
(* do_dma_write: a line that does not fit before the end is at the start   *)
DmaLenNoSkip(at, c) == 3 + c.s * c.h
DmaLen(at, c) ==
  LET left == BufLen - at - 3
      here == left \div c.s
  IN  3 + c.s * c.h + (IF here < c.h THEN left % c.s ELSE 0)

EnvAfter(e, ws) ==      \* the drawing area after the words ws
  LET envs == {i \in DOMAIN ws : ws[i].c.op = "env"}
      last == {i \in envs : \A j \in envs : j <= i}
  IN  IF envs = {} THEN e ELSE UNION {ws[i].c.r : i \in last}
DrawnBy(e, ws) ==
  LET at(op_) == {i \in DOMAIN ws : ws[i].c.op = op_}
  IN  UNION ({EnvAfter(e, SubSeq(ws, 1, i)) : i \in at("draw")}
               \cup {ws[i].c.r : i \in at("fill")})

Render ==
  /\ tpc = "render"
  /\ \E n \in 0 .. BatchLen :
       LET ws == SubSeq(Batch, 1, n)
           sp == IF n < BatchLen THEN Batch[n + 1].c ELSE Pad.c
       IN  /\ Takes(n)
           /\ env_t' = EnvAfter(env_t, ws)
           /\ tdone' = CASE sp.op = "nop" -> n
                         [] sp.op = "dma" -> n + DmaLen(UsedAt + n, sp)
                         [] OTHER -> n + Len0(sp)
           /\ tdirty' = (sp.op \notin {"ilace", "dma", "brk"} /\ (tdirty \/ n > 0))
           /\ rq' = IF sp.op \in {"copy", "ilace", "dma", "brk"} THEN {}
                    ELSE rq \cup DrawnBy(env_t, ws)
  /\ tpc' = "done"
  /\ UNCHANGED <<ringVars, syncVars, areaVars, gpuVars, mainVars, tlen>>

Commit ==
  /\ tpc = "done"
  /\ pos_used' = Plus(pos_used, tdone)
  /\ cells' = [i \in Index |-> IF (BufLen + i - UsedAt) % BufLen < tdone THEN Free ELSE cells[i]]
  /\ IF wait_mode = "progress" \/ (wait_mode = "target" /\ ~SignedLess(pos_used', pos_target))
     THEN Signal ELSE UNCHANGED <<wait_mode, msig>>
  /\ tpc' = "top" /\ tlen' = 0 /\ tdone' = 0
  /\ UNCHANGED <<pos_added, pos_target, idle, exit, areaVars, gpuVars, mainVars, tdirty, env_t, rq>>

-----------------------------------------------------------------------------
(* A condition variable that wakes on its own, as POSIX permits            *)
SpuriousWake ==
  /\ Spurious
  /\ \/ mpc \in Waits /\ ~msig /\ msig' = TRUE /\ UNCHANGED tpc
     \/ tpc = "sleep" /\ tpc' = "woken" /\ UNCHANGED msig
  /\ UNCHANGED <<ringVars, pos_target, wait_mode, idle, exit, areaVars, gpuVars, mainVars,
                 tlen, tdone, tdirty, env_t, rq>>

MainCall ==
  \/ ListCall \/ ScreenCall \/ InterlaceCall \/ EcmdsCall \/ DmaCall \/ VramCall
  \/ ScanoutCall \/ TryDelayedFlip \/ StopCall \/ OffSetEnv \/ EnableCall
MainStep ==
  \/ Prefix \/ Loop \/ LoopEnd \/ Publish \/ KickAfterList
  \/ AddWithWait \/ AddLock \/ AddWoken \/ Break \/ SyncEcmds \/ Direct
  \/ DmaAdd \/ DmaPublish \/ Sync \/ FullWoken \/ Synced \/ Vram
  \/ TargetWait \/ TargetWoken \/ Scan \/ SetExit \/ SignalExit \/ Join
Thread ==
  ThreadLock \/ Top \/ Sleep \/ Unlock \/ Flush \/ Render \/ Commit

Next == MainCall \/ MainStep \/ Thread \/ SpuriousWake

(* A call once begun runs on, and so does the gpu thread; that the program *)
(* makes another call is not assumed.                                      *)
Spec == Init /\ [][Next]_vars
FairSpec == Spec /\ WF_vars(MainStep) /\ WF_vars(Thread)

-----------------------------------------------------------------------------
(* The states of the two threads.                                          *)
WaitModes == {"none", "progress", "target", "full"}
MainStates ==
  {"off", "idle", "prefix", "loop", "publish", "kick", "add", "addlock", "addwait", "break",
   "direct", "ecmds", "dma", "sync", "fullwait", "synced", "vram", "twait", "targetwait",
   "scan", "stop", "stopping", "join"}
ThreadStates ==
  {"start", "top", "decide", "sleep", "woken", "flush", "render", "done", "exited"}

(* Every variable keeps its type.                                          *)
TypeOK ==
  /\ pos_added \in Positions /\ pos_used \in Positions /\ pos_target \in Positions
  /\ wait_mode \in WaitModes /\ idle \in BOOLEAN /\ exit \in BOOLEAN /\ msig \in BOOLEAN
  /\ cells \in [Index -> Cells]
  /\ areas \in [Slots -> [pos : Positions, r : Regions]] /\ pos_area \in Slots
  /\ env_t \in Regions /\ env_m \in Regions /\ flip \in Regions
  /\ screen \in Regions /\ rq \in Regions
  /\ mpc \in MainStates /\ tpc \in ThreadStates
  /\ tlen \in Nat /\ tdone \in Nat /\ tdirty \in BOOLEAN
  /\ op \in OpRecords

(* What is in the ring: the words from pos_used to the position the main   *)
(* thread writes at, published or not, and the commands among them the     *)
(* gpu thread has not carried out.                                         *)
WritePos == IF op.ret = "publish" THEN op.pa ELSE pos_added
ExecPos == IF tpc = "done" THEN Plus(pos_used, tdone) ELSE pos_used
InRing(from, to) == [i \in 1 .. Diff(to, from) |-> cells[(from + i - 1) % BufLen]]
Commands(ws) == SelectSeq(ws, LAMBDA w : w.k = 0 /\ w.c.op \notin {"nop", "free"})
Published == Commands(InRing(ExecPos, pos_added))

(* The ring is never overrun: the words between pos_used and the write     *)
(* position, and no others, are in use; each command lies in one piece     *)
(* before the end of the ring, an upload line by line; and the thread      *)
(* never takes more than was published.  This is what lets the two threads *)
(* touch cmd_buffer without the lock (do_add_pos, gpu_async_thread).       *)
LastWord(c) == IF c.op = "dma" THEN 2 + c.s * c.h ELSE Len0(c) - 1
Piece(w) ==      \* the words w must be in one piece with, up to the last
  IF w.c.op # "dma" THEN LastWord(w.c) - w.k
  ELSE IF w.k < 3 THEN 2 - w.k
  ELSE w.c.s - 1 - ((w.k - 3) % w.c.s)
RingSafe ==
  LET ws == InRing(pos_used, WritePos)
      used(i) == (BufLen + i - UsedAt) % BufLen < Len(ws)
      next(w) == [w EXCEPT !.k = @ + 1]
  IN  /\ Len(ws) <= BufLen
      /\ \A i \in Index : cells[i].c.op = "free" <=> ~used(i)
      /\ \A i \in DOMAIN ws : LET w == ws[i] IN
           w # Pad =>
             /\ \A j \in 1 .. Piece(w) :
                  /\ i + j <= Len(ws) /\ ws[i + j] = [w EXCEPT !.k = @ + j]
                  /\ ((pos_used + i - 1) % BufLen) + j < BufLen
             /\ w.k < LastWord(w.c) /\ mpc # "dma" =>
                  \E j \in i + 1 .. Len(ws) :
                    ws[j] = next(w) /\ \A x \in i + 1 .. j - 1 : ws[x] = Pad
      /\ ws # <<>> => ws[1].k = 0
      /\ tpc = "done" => tdone \in 1 .. Diff(pos_added, pos_used)
      /\ tpc = "render" => tlen <= Diff(pos_added, pos_used)

(* What RingSafe needs to be inductive, in terms of the window of BufLen   *)
(* words that begins at pos_used.  Place: where in the ring word d of it   *)
(* is.  WordAt: how far word k of a command is from its head at place at:  *)
(* the lines of an upload that do not fit before the end of the ring are   *)
(* at its start.                                                           *)
Place(u, d) == (u + d) % BufLen
Window == [d \in Index |-> cells[Place(pos_used, d)]]
Fitting(at, c) == c.s * ((BufLen - at - 3) \div c.s)
WordAt(at, c, k) ==
  IF c.op = "dma" /\ k >= 3 + Fitting(at, c) THEN BufLen - at + (k - 3 - Fitting(at, c)) ELSE k
Word(v, k) == [v EXCEPT !.k = k]      \* word k of the command that word v is of
Begins(w, h) == w[h].k = 0 /\ w[h] # Pad
InCmd(w, u, h, k) == h + WordAt(Place(u, h), w[h].c, k)
LastIn(w, h, o, m) == IF h >= o THEN m - 1 ELSE LastWord(w[h].c)

(* The command that begins at h is there up to word last, one piece after  *)
(* the other; word d belongs to a command that begins before it.           *)
CommandIn(w, u, n, h, last) ==
  /\ Place(u, h) + Len0(w[h].c) <= BufLen
  /\ \A k \in 0 .. last : InCmd(w, u, h, k) < n /\ w[InCmd(w, u, h, k)] = Word(w[h], k)
  /\ w[h].c.op = "dma" /\ last >= 3 + Fitting(Place(u, h), w[h].c) =>
       \A d \in h + 3 + Fitting(Place(u, h), w[h].c) .. h + BufLen - Place(u, h) - 1 : w[d] = Pad
WordIn(w, u, d, o, m) ==
  \E h \in 0 .. d - 1 :
    /\ Begins(w, h) /\ w[h] = Word(w[d], 0)
    /\ d = InCmd(w, u, h, w[d].k) /\ w[d].k <= LastIn(w, h, o, m)

(* The n words in use of the window w are whole commands, but for the      *)
(* upload that begins at or after o, of which m words are in.              *)
Formed(w, u, n, o, m) ==
  /\ \A d \in Index : w[d].c.op = "free" <=> d >= n
  /\ \A h \in 0 .. n - 1 : Begins(w, h) => CommandIn(w, u, n, h, LastIn(w, h, o, m))
  /\ \A d \in 0 .. n - 1 : w[d].k > 0 => WordIn(w, u, d, o, m)
EndsAt(w, u, b) ==
  \A h \in 0 .. b - 1 : Begins(w, h) => InCmd(w, u, h, LastWord(w[h].c)) < b

(* The words of a sequence are whole commands, none of them an upload.     *)
Whole(ws) ==
  \A i \in DOMAIN ws : LET w == ws[i] IN
    /\ w.c.op \notin {"dma", "free"} /\ w.k <= LastWord(w.c) /\ w.k < i
    /\ i + LastWord(w.c) - w.k <= Len(ws)
    /\ \A k \in 0 .. LastWord(w.c) : ws[i - w.k + k] = Word(w, k)

Added == Diff(pos_added, pos_used)
Written == Diff(WritePos, pos_used)
Lines == IF mpc = "dma" THEN op.line ELSE 0
WordsIn == IF Lines = 0 THEN 0 ELSE 3 + (op.line - 1) * Head(op.rest).s
Open == IF Lines = 0 THEN Written ELSE Added

(* The ring holds whole commands; the published words and those the thread *)
(* works on end with a command; an upload in progress has room.            *)
RetInv ==
  /\ op.ret = "publish" => mpc \in {"prefix", "loop", "publish", "dma", "twait", "targetwait",
                                    "sync", "fullwait", "synced", "scan"}
  /\ mpc \in {"prefix", "loop", "publish", "dma"} => op.ret = "publish"
  /\ mpc \in {"idle", "ecmds"} => op.ret = "idle"
WordsInv ==
  /\ Added <= Written /\ Written <= BufLen
  /\ Formed(Window, pos_used, Written, Open, WordsIn)
  /\ EndsAt(Window, pos_used, Added)
  /\ Whole(op.unh)
  /\ mpc \in {"prefix", "loop"} => op.rest \in Seq(ListCmds)
TakenInv ==
  /\ tpc \in {"decide", "render"} => tlen <= Added /\ EndsAt(Window, pos_used, tlen)
  /\ tpc = "render" => tlen > 0
  /\ tpc = "done" => tdone \in 1 .. Added /\ EndsAt(Window, pos_used, tdone)
UploadInv ==
  /\ ~op.bad
  /\ mpc = "dma" =>
       /\ op.rest # <<>> /\ Head(op.rest) \in Dmas /\ op.line <= Head(op.rest).h + 1
       /\ op.line = 0 => Written = Added /\ DmaRoom(Head(op.rest)) <= Room(WritePos)
       /\ op.line > 0 => \E h \in Added .. Written - 1 :
            /\ Window[h] = Cell(Head(op.rest), {}, 0)
            /\ \A d \in Added .. Written - 1 : Begins(Window, d) => d = h
            /\ Written = InCmd(Window, pos_used, h, WordsIn - 1) + 1
            /\ h + DmaLen(Place(pos_used, h), Head(op.rest)) <= BufLen
RingInv == RetInv /\ WordsInv /\ TakenInv /\ UploadInv

(* The two threads agree on who waits for what (the asserts on wait_mode): *)
(* the main thread waits exactly while its wait mode stands, so no signal  *)
(* is lost and none is sent to nobody, and the gpu thread does not go to   *)
(* sleep on a main thread that waits for a sync or a scan-out.             *)
HandshakeOK ==
  /\ mpc \notin Waits => wait_mode = "none"
  /\ mpc \in Waits => (msig <=> wait_mode = "none")
  /\ mpc \in {"fullwait", "targetwait"} /\ ~msig => ~idle

(* Nor does it sleep while the main thread waits for room in the ring: an  *)
(* empty ring has room (the assert(0) before the gpu thread's idle = 1).   *)
WaiterHasWork == mpc = "addwait" /\ ~msig => ~idle

(* The main thread calls the renderer or writes to vram only while the     *)
(* gpu thread sleeps or is gone (sync_renderer, the "cheap stuff" of       *)
(* gpu_async_do_cmd_list): the renderer has no lock of its own.            *)
RendererExclusive ==
  mpc \in {"prefix", "direct", "vram", "off"} => tpc \in {"sleep", "exited"}

(* When a sync returns, every command has been carried out and the         *)
(* renderer has drawn all it had queued: the asserts at the end of         *)
(* gpu_async_sync_nocheck, and what do_vram_io and vout_update rely on.    *)
SyncPost ==
  mpc \in {"synced", "vram", "stop", "direct"} =>
    Quiet /\ rq = {}

(* The drawing area the gpu thread will have when it comes to a drawing is *)
(* the one the program had set when it issued it, although the two copies  *)
(* of ex_regs are updated by different threads at different times, some    *)
(* updates are dropped as redundant, and some bypass the ring.             *)
IsEnv(v) == v.c.op = "env"
IsDraw(v) == v.c.op = "draw" /\ v.k = 0
DrawsInTheirArea ==
  LET ws == InRing(ExecPos, WritePos)
  IN  \A i \in DOMAIN ws : IsDraw(ws[i]) => EnvAfter(env_t, SubSeq(ws, 1, i)) = ws[i].env

(* What DrawsInTheirArea needs to be inductive.  Leaves: the words a to    *)
(* b - 1 of w leave the drawing area r when it was e before them; when     *)
(* they are Coherent, each drawing among them finds the area it was issued *)
(* with.  So are the words in the ring, after the area the gpu thread has, *)
(* and the words that did not fit, after those; and then the area is the   *)
(* one the program has set, but for the moment between gpu->ex_regs and    *)
(* the renderer being told.                                                *)
Leaves(w, a, b, e, r) ==
  \/ e = r /\ \A d \in a .. b - 1 : ~IsEnv(w[d])
  \/ \E d \in a .. b - 1 : IsEnv(w[d]) /\ w[d].c.r = r /\ \A j \in d + 1 .. b - 1 : ~IsEnv(w[j])
Coherent(w, a, b, e, r) ==
  /\ Leaves(w, a, b, e, r)
  /\ \A d \in a .. b - 1 : IsDraw(w[d]) => Leaves(w, a, d, e, w[d].env)
Executed == IF tpc = "done" THEN tdone ELSE 0
Told == mpc \notin {"off", "ecmds"} /\ ~(mpc = "direct" /\ Head(op.rest).op = "env")
UnhInv ==
  /\ op.unh # <<>> => op.ret = "publish" \/ mpc \in {"kick", "add", "addlock", "addwait"}
  /\ mpc \in {"prefix", "dma"} \/ (mpc = "loop" /\ op.can) => op.unh = <<>>
InAreas(m, r) ==
  /\ Coherent(Window, Executed, Written, env_t, m)
  /\ Coherent(op.unh, 1, Len(op.unh) + 1, m, r)
  /\ Told => r = env_m
EnvInv ==
  /\ UnhInv
  /\ mpc \in {"prefix", "direct"} => Written = 0
  /\ \E m, r \in Regions : InAreas(m, r)

(* An upload that gpu_async_try_dma found room for is added whole          *)
(* (assert(!bad), "only proceed if there is space").                       *)
DmaFits == ~op.bad

(* What is scanned out has been drawn: no published command still to be    *)
(* carried out changes the region shown (gpu_async_sync_scanout).          *)
Touches(w) == CASE w.c.op = "draw" -> w.env
                [] w.c.op \in {"fill", "copy", "dma"} -> w.c.r
                [] OTHER -> {}

(* How the renderer is handed over, the inductive form of HandshakeOK,     *)
(* RendererExclusive and SyncPost: idle means that the gpu thread sleeps,  *)
(* having drawn all it had queued, and it cannot leave its sleep unless    *)
(* the main thread kicks it; every wait mode has its waiter; the calls     *)
(* that need the renderer have found the ring empty and the thread idle    *)
(* since.                                                                  *)
SleepInv ==
  /\ mpc \notin {"join", "off"} => (tpc = "sleep" <=> idle)
  /\ rq # {} => tdirty
  /\ idle => ~tdirty
ExitInv ==
  /\ exit <=> mpc \in {"stopping", "join", "off"}
  /\ mpc \in {"join", "off"} => idle /\ tpc \in {"woken", "top", "exited"}
  /\ mpc = "off" => tpc = "exited"
  /\ tpc = "exited" => mpc \in {"join", "off"}
CallInv ==
  /\ mpc \in {"idle", "ecmds"} => op.ret = "idle"
  /\ mpc \in {"prefix", "loop"} => op.ret = "publish"
  /\ mpc \in {"twait", "targetwait"} => op.ret \in {"publish", "idle"}
QuietInv ==
  \/ mpc \in {"prefix", "direct", "vram", "stop", "synced", "stopping"}
  \/ mpc = "scan" /\ op.ret \in {"vram", "stop"}
  \/ mpc = "fullwait" /\ msig
  => Quiet
WaitInv ==
  /\ wait_mode = "full" => mpc = "fullwait"
  /\ wait_mode = "target" => mpc = "targetwait"
  /\ wait_mode = "progress" => mpc = "addwait"
  /\ mpc \in Waits => (msig <=> wait_mode = "none")
  /\ mpc \in {"fullwait", "targetwait"} /\ ~msig => ~idle
  /\ mpc = "fullwait" /\ tpc = "decide" => tlen = Diff(pos_added, pos_used)
Handover == SleepInv /\ ExitInv /\ CallInv /\ QuietInv /\ WaitInv

(* Every call returns, however the two threads interleave.                 *)
CallsReturn == mpc \notin {"idle", "off"} ~> mpc \in {"idle", "off"}

-----------------------------------------------------------------------------
(* What a sequence of effects promises: everything that shows, in the      *)
(* order it was issued, once.  The commands still to be carried out are    *)
(* those in the ring, then those of the current call that are not yet in   *)
(* it.  Environment commands and padding do not show, and neither does a   *)
(* copy of a region onto itself.                                           *)
Shows(c) == c.op \in {"draw", "fill", "screen", "ilace", "dma"} \/ (c.op = "copy" /\ c.r # {})
Heads(cs) == [i \in DOMAIN cs |-> Cell(cs[i], {}, 0)]
ThenShows(es, w) == IF w.k = 0 /\ Shows(w.c) THEN Append(es, w.c) ELSE es
Shown(ws) ==      \* the effects of the words ws
  LET upTo[n \in 0 .. Len(ws)] == IF n = 0 THEN <<>> ELSE ThenShows(upTo[n - 1], ws[n])
  IN  upTo[Len(ws)]
NotAdded == IF mpc = "dma" /\ op.line > 0 THEN <<>> ELSE op.rest
Todo == Shown(InRing(ExecPos, WritePos) \o op.unh \o Heads(NotAdded))
Submissions ==
  {Shown(Heads(l)) : l \in Lists} \cup {<<c>> : c \in Dmas}
    \cup {<<Cmd("screen", r, 0, 0)>> : r \in Screens} \cup {<<Cmd("ilace", {}, 0, 0)>>}
Fifo == INSTANCE CmdFifo WITH todo <- Todo, Batches <- Submissions
ImplementsFifo == Fifo!Spec

=============================================================================
