--------------------------- MODULE GpuAsyncProofs ---------------------------
(***************************************************************************)
(* Proofs about GpuAsync, for a ring of any length, any command lists and  *)
(* any vram: type correctness, the mutual exclusion of the two threads on  *)
(* the renderer and its handover, and the safety of the ring: what the gpu *)
(* thread takes from it are whole commands, in the order they were added,  *)
(* an upload always finds the room it was promised, and each drawing the   *)
(* drawing area it was issued in.  Last, what is submitted shows in order  *)
(* and once: GpuAsync implements CmdFifo.                                  *)
(***************************************************************************)
EXTENDS GpuAsync, WellFoundedInduction, SequenceTheorems, TLAPS

-----------------------------------------------------------------------------
(* Facts about remainders                                                  *)

(* Division, for a divisor that is not a number written out: the provers   *)
(* know a remainder only by its range and the equation.                    *)
LEMMA Euclid ==
  ASSUME NEW M \in Nat \ {0}, NEW a \in Int
  PROVE  a % M \in 0 .. M - 1 /\ a \div M \in Int /\ a = M * (a \div M) + (a % M)
BY SMTT(20)

(* A multiple that is less than the divisor is zero.                       *)
LEMMA SmallMultiple ==
  ASSUME NEW M \in Nat \ {0}, NEW q \in Int, M * q < M, -M < M * q
  PROVE  q = 0
<1>1. CASE q >= 1
  <2>1. M * q >= M
    BY <1>1, SMTT(20)
  <2>2. QED  BY <2>1
<1>2. CASE q <= -1
  <2>1. M * q <= -M
    BY <1>2, SMTT(20)
  <2>2. QED  BY <2>1
<1>3. QED  BY <1>1, <1>2

(* The remainder is the one number in range that the equation admits.      *)
LEMMA UniqueRemainder ==
  ASSUME NEW M \in Nat \ {0}, NEW a \in Int, NEW q \in Int, NEW r \in 0 .. M - 1,
         a = M * q + r
  PROVE  a % M = r
<1> DEFINE d == q - (a \div M)
<1>1. a % M \in 0 .. M - 1 /\ a \div M \in Int /\ a = M * (a \div M) + (a % M)
  BY Euclid
<1>2. M * d = (a % M) - r
  <2>1. M * d = M * q - M * (a \div M)
    BY <1>1, SMTT(20)
  <2>2. QED  BY <2>1, <1>1, SMTT(20)
<1>3. d \in Int /\ M * d < M /\ -M < M * d
  BY <1>1, <1>2
<1>4. d = 0
  <2> HIDE DEF d
  <2>1. QED  BY <1>3, SmallMultiple
<1>5. QED  BY <1>1, <1>2, <1>4

(* Adding at most the divisor wraps at most once.                          *)
LEMMA AddMod ==
  ASSUME NEW M \in Nat \ {0}, NEW a \in Int, NEW j \in 0 .. M
  PROVE  (a + j) % M = IF (a % M) + j >= M THEN (a % M) + j - M ELSE (a % M) + j
<1> DEFINE s == (a % M) + j
           q == a \div M
<1>1. a % M \in 0 .. M - 1 /\ q \in Int /\ a = M * q + (a % M)
  BY Euclid
<1>2. CASE s >= M
  <2>1. M * (q + 1) = M * q + M
    BY <1>1, SMTT(20)
  <2>2. s - M \in 0 .. M - 1 /\ q + 1 \in Int /\ a + j \in Int
    BY <1>1, <1>2
  <2>3. a + j = M * (q + 1) + (s - M)
    BY <2>1, <1>1, SMTT(20)
  <2>4. (a + j) % M = s - M
    <3> HIDE DEF s, q
    <3>1. QED  BY <2>2, <2>3, UniqueRemainder
  <2>5. QED  BY <2>4, <1>2
<1>3. CASE ~(s >= M)
  <2>1. s \in 0 .. M - 1 /\ a + j \in Int
    BY <1>1, <1>3
  <2>2. a + j = M * q + s
    BY <1>1, SMTT(20)
  <2>3. (a + j) % M = s
    <3> HIDE DEF s, q
    <3>1. QED  BY <2>1, <2>2, <1>1, UniqueRemainder
  <2>4. QED  BY <2>3, <1>3
<1>4. QED  BY <1>2, <1>3

(* A number and its remainder differ by a multiple of the divisor.         *)
LEMMA Congruent ==
  ASSUME NEW M \in Nat \ {0}, NEW a \in Int
  PROVE  a % M \in Int /\ \E q \in Int : a % M = a + M * q
<1>1. a % M \in 0 .. M - 1 /\ a \div M \in Int /\ a = M * (a \div M) + (a % M)
  BY Euclid
<1>2. M * (-(a \div M)) = -(M * (a \div M))
  BY <1>1, SMTT(20)
<1>3. a % M = a + M * (-(a \div M))
  BY <1>1, <1>2
<1>4. -(a \div M) \in Int /\ a % M \in Int
  BY <1>1
<1>5. \E q \in Int : a % M = a + M * q
  BY <1>3, <1>4, Zenon
<1>6. QED  BY <1>4, <1>5

(* Numbers that differ by a multiple of the divisor have one remainder.    *)
LEMMA SameRemainder ==
  ASSUME NEW M \in Nat \ {0}, NEW a \in Int, NEW b \in Int, NEW q \in Int,
         a = b + M * q
  PROVE  a % M = b % M
<1>1. b % M \in 0 .. M - 1 /\ b \div M \in Int /\ b = M * (b \div M) + (b % M)
  BY Euclid
<1>2. M * ((b \div M) + q) = M * (b \div M) + M * q
  BY <1>1, SMTT(20)
<1>3. a = M * ((b \div M) + q) + (b % M)
  BY <1>1, <1>2, SMTT(20)
<1>4. (b \div M) + q \in Int
  BY <1>1
<1>5. QED  BY <1>1, <1>3, <1>4, UniqueRemainder

-----------------------------------------------------------------------------
(* Positions stay below PosMod, and a difference of zero means equality:   *)
(* the empty test of the ring.                                             *)
LEMMA PositionArithmetic ==
  /\ 0 \in Positions
  /\ \A a \in Positions, n \in Nat : Plus(a, n) \in Positions
  /\ \A a, b \in Positions : Diff(a, b) \in Nat /\ (Diff(a, b) = 0 => a = b)
<1>1. 0 \in Positions
  BY PosModAssumption, BufLenAssumption DEF Positions
<1>2. \A a \in Positions, n \in Nat : Plus(a, n) \in Positions
  BY PosModAssumption, BufLenAssumption DEF Positions, Plus
<1>3. \A a, b \in Positions : Diff(a, b) \in Nat /\ (Diff(a, b) = 0 => a = b)
  BY PosModAssumption, BufLenAssumption DEF Positions, Diff
<1>4. QED  BY <1>1, <1>2, <1>3

(* The words of a command are a sequence of ring words.                    *)
LEMMA WordsType ==
  ASSUME NEW c \in Cmds, NEW e \in Regions, NEW from \in Nat, NEW n \in Nat
  PROVE  Words(c, e, from, n) \in Seq(Cells)
<1>1. \A i \in 1 .. n : Cell(c, e, from + i - 1) \in Cells
  BY DEF Cell, Cells
<1>2. QED  BY <1>1 DEF Words

(* The fields of a command and of a ring word.                             *)
LEMMA CmdFields ==
  /\ \A c \in Cmds : /\ c.op \in Ops /\ c.r \in Regions /\ c.s \in Nat /\ c.h \in Nat
                     /\ c.op = "dma" => c.s > 0
  /\ \A w \in Cells : w.c \in Cmds /\ w.env \in Regions /\ w.k \in Nat
<1>1. \A c \in Cmds : c \in [op : Ops, r : Regions, s : Nat, h : Nat] /\ (c.op = "dma" => c.s > 0)
  BY DEF Cmds
<1>2. \A w \in Cells : w.c \in Cmds /\ w.env \in Regions /\ w.k \in Nat
  BY DEF Cells
<1>3. QED  BY <1>1, <1>2

(* The words a command begins with: as many as its length says.            *)
LEMMA HeadType ==
  ASSUME NEW c \in Cmds, NEW e \in Regions
  PROVE  Len0(c) \in Nat /\ Head0(c, e) \in Seq(Cells) /\ Len(Head0(c, e)) = Len0(c)
<1>1. c.op \in Ops
  BY DEF Cmds
<1>2. Len0(c) \in Nat
  BY <1>1 DEF Len0, Ops
<1>3. Head0(c, e) \in Seq(Cells)
  BY <1>2, WordsType DEF Head0
<1>4. Len(Head0(c, e)) = Len0(c)
  BY <1>2 DEF Head0, Words
<1>5. QED  BY <1>2, <1>3, <1>4

(* Constant commands and words are well typed.                             *)
LEMMA ConstantTypes ==
  /\ Pad \in Cells /\ Free \in Cells /\ Pad.c \in Cmds
  /\ Tex \in Cmds /\ Brk \in Cmds
  /\ \A r \in Regions : /\ Env(r) \in Cmds
                        /\ Cmd("screen", r, 0, 0) \in Cmds
                        /\ Cmd("ilace", r, 0, 0) \in Cmds
BY DEF Pad, Free, Cell, Cells, Cmd, Cmds, Ops, Regions, Tex, Brk, Env

(* What do_add_pos computes is a position, and what it leaves in the ring  *)
(* are ring words.                                                         *)
LEMMA AddPosType ==
  ASSUME NEW pa \in Positions, pos_used \in Positions, NEW n \in Nat
  PROVE  /\ Room(pa) \in Int /\ PadFor(pa, n) \in Nat
         /\ AfterPad(pa, n) \in Positions /\ AddedPos(pa, n) \in Positions
<1>1. Room(pa) \in Int
  BY BufLenAssumption, PositionArithmetic DEF Room
<1>2. PadFor(pa, n) \in Nat
  <2>1. pa % BufLen \in 0 .. BufLen - 1
    BY BufLenAssumption DEF Positions
  <2>2. QED  BY BufLenAssumption, <2>1 DEF PadFor
<1>3. AfterPad(pa, n) \in Positions
  BY <1>2, PositionArithmetic DEF AfterPad
<1>4. AddedPos(pa, n) \in Positions
  BY <1>3, PositionArithmetic DEF AddedPos
<1>5. QED  BY <1>1, <1>2, <1>3, <1>4

(* do_add_pos writes ring words.                                           *)
LEMMA FilledType ==
  ASSUME NEW pa \in Positions, pos_used \in Positions, cells \in [Index -> Cells],
         NEW ws \in Seq(Cells)
  PROVE  Filled(pa, ws) \in [Index -> Cells]
<1> DEFINE n == Len(ws)
           padded == Diff(AfterPad(pa, n), pa)
           written == IF Fits(pa, n) THEN n ELSE 0
           d(i) == (BufLen + i - (pa % BufLen)) % BufLen
           new(i) == IF d(i) < padded THEN Pad
                     ELSE IF d(i) < padded + written THEN ws[d(i) - padded + 1]
                     ELSE cells[i]
<1>1. n \in Nat /\ \A j \in 1 .. n : ws[j] \in Cells
  OBVIOUS
<1>2. padded \in Nat
  BY <1>1, AddPosType, PositionArithmetic
<1>3. written \in 0 .. n
  BY <1>1
<1>4. \A i \in Index : d(i) \in Nat
  <2>1. pa % BufLen \in 0 .. BufLen - 1
    BY BufLenAssumption DEF Positions
  <2>2. QED  BY BufLenAssumption, <2>1 DEF Index
<1>5. ASSUME NEW i \in Index  PROVE new(i) \in Cells
  <2> HIDE DEF padded, written, d, n
  <2>1. CASE d(i) < padded
    BY <2>1, ConstantTypes
  <2>2. CASE ~(d(i) < padded) /\ d(i) < padded + written
    <3>1. d(i) - padded + 1 \in 1 .. n
      BY <1>1, <1>2, <1>3, <1>4, <2>2
    <3>2. QED  BY <1>1, <2>2, <3>1
  <2>3. CASE ~(d(i) < padded) /\ ~(d(i) < padded + written)
    BY <2>3
  <2>4. QED  BY <2>1, <2>2, <2>3
<1>6. QED  BY <1>5 DEF Filled

(* add_draw_area keeps the ring of areas well formed.                      *)
AreaRecords == [list : [Slots -> [pos : Positions, r : Regions]], cur : Slots]

(* The new area goes in the next slot, or replaces the current one.        *)
LEMMA NewAreaType ==
  ASSUME NEW a \in AreaRecords, NEW pos \in Positions, NEW force \in BOOLEAN,
         NEW r \in Regions
  PROVE  NewArea(a, pos, force, r) \in AreaRecords
<1>1. (a.cur + 1) % AreaCnt \in Slots /\ a.cur \in Slots
  BY AreaCntAssumption DEF AreaRecords, Slots
<1>2. QED  BY <1>1 DEF NewArea, AreaRecords

(* What the renderer takes: a batch is a sequence of ring words, and the   *)
(* drawing area and the regions drawn that follow from one are regions.    *)
LEMMA BatchType ==
  ASSUME cells \in [Index -> Cells], pos_used \in Positions, tlen \in Nat
  PROVE  /\ UsedAt \in Index /\ BatchLen \in Nat
         /\ Batch \in Seq(Cells) /\ Len(Batch) = BatchLen
<1>1. UsedAt \in Index
  BY BufLenAssumption DEF UsedAt, Positions, Index
<1>2. BatchLen \in Nat /\ \A i \in 1 .. BatchLen : UsedAt + i - 1 \in Index
  BY BufLenAssumption, <1>1 DEF BatchLen, Index
<1>3. QED  BY <1>1, <1>2 DEF Batch

(* The drawing area after a batch, and what it draws, are regions.         *)
LEMMA EffectTypes ==
  ASSUME NEW e \in Regions, NEW ws \in Seq(Cells)
  PROVE  EnvAfter(e, ws) \in Regions /\ DrawnBy(e, ws) \in Regions
<1>1. \A i \in DOMAIN ws : ws[i].c.r \in Regions
  BY CmdFields
<1>2. ASSUME NEW v \in Seq(Cells)  PROVE EnvAfter(e, v) \in Regions
  <2>1. \A i \in DOMAIN v : v[i].c.r \in Regions
    BY CmdFields
  <2>2. QED  BY <2>1 DEF EnvAfter, Regions
<1>3. ASSUME NEW i \in DOMAIN ws  PROVE EnvAfter(e, SubSeq(ws, 1, i)) \in Regions
  <2>1. SubSeq(ws, 1, i) \in Seq(Cells)
    OBVIOUS
  <2>2. QED  BY <1>2, <2>1
<1>4. DrawnBy(e, ws) \in Regions
  BY <1>1, <1>3 DEF DrawnBy, Regions
<1>5. QED  BY <1>2, <1>4

(* The words an upload takes, its gap included, are a number.              *)
LEMMA DmaLenType ==
  ASSUME NEW at \in Int, NEW c \in Cmds, c.op = "dma"
  PROVE  DmaLen(at, c) \in Nat
<1>1. c.s \in Nat /\ c.s > 0 /\ c.h \in Nat
  BY CmdFields
<1>2. c.s * c.h \in Nat
  BY <1>1
<1>3. (BufLen - at - 3) % c.s \in Nat
  BY BufLenAssumption, <1>1
<1>4. QED  BY <1>2, <1>3 DEF DmaLen

-----------------------------------------------------------------------------
(* Type correctness.  An upload in progress has its command, so that the   *)
(* words it adds are words of that command.                                *)
TypeInv == TypeOK /\ (mpc = "dma" => op.rest # <<>>)

USE DEF ringVars, syncVars, areaVars, gpuVars, mainVars, threadVars

(* The record of no call is a call record.                                 *)
LEMMA NoOpType == NoOp \in OpRecords
BY PositionArithmetic DEF NoOp, OpRecords, Regions

(* gpu_async_enable establishes the types.                                 *)
LEMMA TypeInit == Init => TypeInv
<1> SUFFICES ASSUME Init  PROVE TypeInv
  OBVIOUS
<1>1. cells \in [Index -> Cells]
  BY ConstantTypes DEF Init
<1>2. areas \in [Slots -> [pos : Positions, r : Regions]] /\ pos_area \in Slots
  BY AreaCntAssumption, PositionArithmetic DEF Init, Slots, Regions
<1>3. QED
  BY <1>1, <1>2, NoOpType, PositionArithmetic, RegionAssumption
  DEF Init, TypeInv, TypeOK, Regions, MainStates, ThreadStates, WaitModes

(* What is in a call: its fields, and what some updates leave.             *)
LEMMA OpFields ==
  ASSUME NEW o \in OpRecords
  PROVE  /\ o.rest \in Seq(Cmds) /\ o.unh \in Seq(Cells) /\ o.pa \in Positions
         /\ o.line \in Nat /\ o.target \in Positions /\ o.reg \in Regions
         /\ o.ret \in {"idle", "publish", "vram", "stop", "flip"}
BY DEF OpRecords

(* A call that has added words to the ring is still a call record.         *)
LEMMA OpAdded ==
  ASSUME NEW o \in OpRecords
  PROVE  [o EXCEPT !.unh = <<>>] \in OpRecords
<1>1. <<>> \in Seq(Cells)
  OBVIOUS
<1>2. QED  BY <1>1 DEF OpRecords

(* Taking the first element off a list of commands.                        *)
LEMMA HeadAndTail ==
  ASSUME NEW s \in Seq(Cmds), s # <<>>
  PROVE  Head(s) \in Cmds /\ Tail(s) \in Seq(Cmds)
OBVIOUS

(* Words added to the ring leave it well typed.                            *)
LEMMA AddType ==
  ASSUME TypeOK, NEW ws \in Seq(Cells), NEW pa \in Positions
  PROVE  Filled(pa, ws) \in [Index -> Cells] /\ AddedPos(pa, Len(ws)) \in Positions
<1>1. pos_used \in Positions /\ cells \in [Index -> Cells]
  BY DEF TypeOK
<1>2. Len(ws) \in Nat
  OBVIOUS
<1>3. AddedPos(pa, Len(ws)) \in Positions
  BY <1>1, <1>2, AddPosType
<1>4. Filled(pa, ws) \in [Index -> Cells]
  BY <1>1, FilledType
<1>5. QED  BY <1>3, <1>4

(* What the scan-out may wait for is a position.                           *)
LEMMA CalcScanoutType ==
  ASSUME TypeOK, NEW r \in Regions, NEW cs \in CalcScanout(r)
  PROVE  cs.ret \in {0, 1, -1} /\ cs.target \in Positions
<1> DEFINE good(v) == v.ret \in {0, 1, -1} /\ v.target \in Positions
           newerThan(k) == Verdict(1, Plus(AreaAt(k - 1).pos, 1))
           hits(k) == AreaAt(k).r \cap r # {}
<1>1. good(Verdict(0, 0)) /\ good(Verdict(-1, 0))
  BY PositionArithmetic DEF Verdict
<1>2. ASSUME NEW k \in 1 .. AreaCnt  PROVE good(newerThan(k))
  <2>1. (pos_area + AreaCnt - (k - 1)) % AreaCnt \in Slots
    BY AreaCntAssumption DEF TypeOK, Slots
  <2>2. AreaAt(k - 1).pos \in Positions
    BY <2>1 DEF AreaAt, TypeOK
  <2>3. Plus(AreaAt(k - 1).pos, 1) \in Positions
    BY <2>2, PositionArithmetic
  <2>4. QED  BY <2>3 DEF Verdict
<1>3. \/ cs \in {Verdict(0, 0), Verdict(-1, 0), newerThan(AreaCnt)}
      \/ \E k \in Slots :
            cs = IF ~hits(k) THEN Verdict(0, 0)
                 ELSE IF k = 0 THEN Verdict(-1, 0) ELSE newerThan(k)
  BY DEF CalcScanout
<1>4. AreaCnt \in 1 .. AreaCnt /\ \A k \in Slots : k # 0 => k \in 1 .. AreaCnt
  BY AreaCntAssumption DEF Slots
<1> HIDE DEF good, newerThan, hits
<1>5. good(cs)
  BY <1>1, <1>2, <1>3, <1>4
<1>6. QED  BY <1>5 DEF good

(* A new drawing area leaves the ring of areas well formed.                *)
LEMMA AreaUpdates ==
  ASSUME TypeOK, NEW pos \in Positions, NEW r \in Regions
  PROVE  LET good == areas' \in [Slots -> [pos : Positions, r : Regions]] /\ pos_area' \in Slots
         IN  /\ UNCHANGED areaVars => good
             /\ SetAreas(NewArea(AreaNow, pos, FALSE, r)) => good
             /\ \A p \in Positions, q \in Regions :
                  SetAreas(NewArea(NewArea(AreaNow, pos, TRUE, r), p, TRUE, q)) => good
<1>1. AreaNow \in AreaRecords
  BY DEF AreaNow, AreaRecords, TypeOK
<1>2. \A a \in AreaRecords :
        SetAreas(a) => areas' \in [Slots -> [pos : Positions, r : Regions]] /\ pos_area' \in Slots
  BY DEF SetAreas, AreaRecords
<1>3. NewArea(AreaNow, pos, FALSE, r) \in AreaRecords /\ NewArea(AreaNow, pos, TRUE, r) \in AreaRecords
  BY <1>1, NewAreaType
<1>4. \A p \in Positions, q \in Regions : NewArea(NewArea(AreaNow, pos, TRUE, r), p, TRUE, q) \in AreaRecords
  BY <1>3, NewAreaType
<1>5. QED  BY <1>2, <1>3, <1>4 DEF TypeOK

(* A message to the renderer, direct or through the ring, is well typed.   *)
LEMMA TellType ==
  ASSUME NEW c \in Cmds, NEW ws \in Seq(Cells), Tell(c, ws)
  PROVE  op' \in OpRecords /\ mpc' \in {"direct", "add"}
<1>1. <<c>> \in Seq(Cmds)
  OBVIOUS
<1>2. CASE Quiet
  BY <1>1, <1>2, NoOpType DEF Tell, OpRecords
<1>3. CASE ~Quiet
  BY <1>3, NoOpType DEF Tell, OpRecords
<1>4. QED  BY <1>2, <1>3

(* Every step of either thread keeps the types.                            *)
LEMMA TypeNext ==
  ASSUME TypeInv, [Next]_vars
  PROVE  TypeInv'
<1>1. CASE ListCall
  <2>1. PICK l \in Lists : op' = [NoOp EXCEPT !.rest = l, !.pa = pos_added, !.ret = "publish"]
    BY <1>1 DEF ListCall
  <2>2. l \in Seq(Cmds) /\ pos_added \in Positions
    <3>1. Lists \subseteq Seq(ListCmds) /\ ListCmds \subseteq Cmds
      BY CmdAssumption DEF ListCmds
    <3>2. QED  BY <3>1 DEF TypeInv, TypeOK
  <2>3. op' \in OpRecords
    BY <2>1, <2>2, NoOpType DEF OpRecords
  <2>4. mpc' \in {"prefix", "loop"}
    BY <1>1 DEF ListCall
  <2>5. QED  BY <1>1, <2>3, <2>4 DEF ListCall, TypeInv, TypeOK, MainStates, ThreadStates, WaitModes
<1>2. CASE Prefix
  <2>1. op' \in OpRecords /\ mpc' \in {"prefix", "loop"}
    <3>1. op.rest # <<>> => Tail(op.rest) \in Seq(Cmds)
      BY OpFields, HeadAndTail DEF TypeInv, TypeOK
    <3>2. QED  BY <1>2, <3>1, ZenonT(40) DEF Prefix, TypeInv, TypeOK, OpRecords
  <2>2. op.rest # <<>> => Head(op.rest).r \in Regions
    BY OpFields, HeadAndTail, CmdFields DEF TypeInv, TypeOK
  <2>3. env_m' \in Regions /\ env_t' \in Regions
    BY <1>2, <2>2 DEF Prefix, TypeInv, TypeOK
  <2>4. areas' \in [Slots -> [pos : Positions, r : Regions]] /\ pos_area' \in Slots
    BY <1>2, <2>2, AreaUpdates DEF Prefix, TypeInv, TypeOK
  <2>5. QED  BY <1>2, <2>1, <2>3, <2>4 DEF Prefix, TypeInv, TypeOK, MainStates, ThreadStates, WaitModes
<1>3. CASE Loop
  <2> DEFINE c0 == Head(op.rest)
             ghost == IF c0.op = "draw" THEN env_m ELSE {}
             add == CanAdd /\ ~(Redundant(c0) \/ (c0.op = "copy" /\ c0.r = {}))
  <2>1. c0 \in Cmds /\ Tail(op.rest) \in Seq(Cmds) /\ ghost \in Regions /\ c0.r \in Regions
    <3>1. op.rest \in Seq(Cmds) /\ op.rest # <<>>
      BY <1>3, OpFields DEF Loop, TypeInv, TypeOK
    <3>2. QED  BY <3>1, HeadAndTail, CmdFields DEF TypeInv, TypeOK, Regions
  <2> HIDE DEF c0, ghost
  <2>2. Head0(c0, ghost) \in Seq(Cells) /\ Len(Head0(c0, ghost)) = Len0(c0)
    BY <2>1, HeadType
  <2>3. op.pa \in Positions /\ op.unh \in Seq(Cells)
    BY OpFields DEF TypeInv, TypeOK
  <2>4. AddedPos(op.pa, Len0(c0)) \in Positions /\ Filled(op.pa, Head0(c0, ghost)) \in [Index -> Cells]
    BY <2>2, <2>3, AddType DEF TypeInv
  <2>5. op.unh \o Head0(c0, ghost) \in Seq(Cells)
    BY <2>2, <2>3
  <2>6. op' \in OpRecords
    <3> DEFINE handled == CanAdd /\ (~add \/ Fits(op.pa, Len0(c0)))
               pa2 == IF add THEN AddedPos(op.pa, Len0(c0)) ELSE op.pa
               some2 == op.some \/ handled
               unh2 == IF handled THEN op.unh ELSE op.unh \o Head0(c0, ghost)
               rend2 == op.rend \/ Rendered(c0)
               brk2 == op.brk \/ (c0.op = "env" /\ ~Redundant(c0))
    <3>1. op' = [op EXCEPT !.rest = Tail(@), !.pa = pa2, !.can = handled, !.some = some2,
                           !.unh = unh2, !.rend = rend2, !.brk = brk2]
      BY <1>3 DEF Loop, c0, ghost
    <3>2. pa2 \in Positions /\ unh2 \in Seq(Cells)
      <4> HIDE DEF add, handled
      <4>1. QED  BY <2>3, <2>4, <2>5
    <3>3. handled \in BOOLEAN /\ some2 \in BOOLEAN /\ rend2 \in BOOLEAN /\ brk2 \in BOOLEAN
      OBVIOUS
    <3>4. Tail(op.rest) \in Seq(Cmds) /\ op \in OpRecords
      BY <2>1 DEF TypeInv, TypeOK
    <3> HIDE DEF handled, pa2, some2, unh2, rend2, brk2
    <3>5. QED  BY <3>1, <3>2, <3>3, <3>4, ZenonT(40) DEF OpRecords
  <2>7. env_m' \in Regions
    BY <1>3, <2>1 DEF Loop, TypeInv, TypeOK, c0
  <2>8. areas' \in [Slots -> [pos : Positions, r : Regions]] /\ pos_area' \in Slots
    <3>1. Plus(op.pa, 1) \in Positions
      BY <2>3, PositionArithmetic
    <3>2. \/ UNCHANGED areaVars
          \/ SetAreas(NewArea(AreaNow, op.pa, FALSE, c0.r))
          \/ SetAreas(NewArea(NewArea(AreaNow, op.pa, TRUE, c0.r), Plus(op.pa, 1), TRUE, env_m))
      BY <1>3 DEF Loop, c0
    <3>3. env_m \in Regions
      BY DEF TypeInv, TypeOK
    <3>4. QED  BY <2>1, <2>3, <3>1, <3>2, <3>3, AreaUpdates DEF TypeInv
  <2>9. cells' \in [Index -> Cells]
    BY <1>3, <2>4 DEF Loop, TypeInv, TypeOK, c0, ghost
  <2>10. QED  BY <1>3, <2>6, <2>7, <2>8, <2>9 DEF Loop, TypeInv, TypeOK, MainStates, ThreadStates, WaitModes
<1>4. CASE LoopEnd
  <2>1. op' \in OpRecords
    <3>1. CASE op.rend /\ flip # {}
      <4>1. PICK cs \in CalcScanout(screen) : ScanoutWait(cs, flip)
        BY <1>4, <3>1 DEF LoopEnd
      <4>2. cs.target \in Positions
        BY CalcScanoutType DEF TypeInv, TypeOK
      <4>3. flip \in Regions /\ op \in OpRecords
        BY DEF TypeInv, TypeOK
      <4>4. QED  BY <4>1, <4>2, <4>3 DEF ScanoutWait, OpRecords
    <3>2. CASE ~(op.rend /\ flip # {})
      BY <1>4, <3>2 DEF LoopEnd, TypeInv, TypeOK
    <3>3. QED  BY <3>1, <3>2
  <2>2. mpc' \in {"twait", "sync", "publish"}
    BY <1>4 DEF LoopEnd, ScanoutWait
  <2>3. QED  BY <1>4, <2>1, <2>2 DEF LoopEnd, TypeInv, TypeOK, MainStates, ThreadStates, WaitModes
<1>5. CASE Publish
  <2>1. op' \in OpRecords
    BY <1>5, PositionArithmetic DEF Publish, TypeInv, TypeOK, OpRecords
  <2>2. op.pa \in Positions
    BY OpFields DEF TypeInv, TypeOK
  <2>3. QED  BY <1>5, <2>1, <2>2 DEF Publish, TypeInv, TypeOK, MainStates, ThreadStates, WaitModes
<1>6. CASE KickAfterList
  BY <1>6, ZenonT(40) DEF KickAfterList, Kick, TypeInv, TypeOK, MainStates, ThreadStates, WaitModes
<1>7. CASE AddWithWait
  <2>1. cells' \in [Index -> Cells] /\ pos_added' \in Positions
    BY <1>7, AddType, OpFields DEF AddWithWait, TypeInv, TypeOK
  <2>2. op' \in OpRecords /\ mpc' \in {"break", "addlock"}
    BY <1>7, OpAdded DEF AddWithWait, TypeInv, TypeOK
  <2>3. QED  BY <1>7, <2>1, <2>2 DEF AddWithWait, TypeInv, TypeOK, MainStates, ThreadStates, WaitModes
<1>8. CASE AddLock
  BY <1>8 DEF AddLock, Kick, WaitForRoom, TypeInv, TypeOK, MainStates, ThreadStates, WaitModes
<1>9. CASE AddWoken
  BY <1>9, ZenonT(40) DEF AddWoken, WaitForRoom, TypeInv, TypeOK, MainStates, ThreadStates, WaitModes
<1>10. CASE Break
  <2>1. Head0(Brk, {}) \in Seq(Cells) /\ Len(Head0(Brk, {})) = Len0(Brk)
    BY HeadType, ConstantTypes DEF Regions
  <2>2. cells' \in [Index -> Cells] /\ pos_added' \in Positions
    BY <1>10, <2>1, AddType DEF Break, TypeInv, TypeOK
  <2>3. op' \in OpRecords /\ mpc' = "idle"
    BY <1>10, NoOpType DEF Break, Done
  <2>4. QED  BY <1>10, <2>2, <2>3 DEF Break, TypeInv, TypeOK, MainStates, ThreadStates, WaitModes
<1>11. CASE ScreenCall
  <2>1. PICK r \in Screens \ {screen} :
          screen' = r /\ Tell(Cmd("screen", r, 0, 0), Head0(Cmd("screen", r, 0, 0), {}))
    BY <1>11 DEF ScreenCall
  <2>2. r \in Regions /\ {} \in Regions /\ Cmd("screen", r, 0, 0) \in Cmds
    BY RegionAssumption, ConstantTypes DEF Regions
  <2>3. Head0(Cmd("screen", r, 0, 0), {}) \in Seq(Cells)
    BY <2>2, HeadType
  <2>4. op' \in OpRecords /\ mpc' \in {"direct", "add"}
    BY <2>1, <2>2, <2>3, TellType
  <2>5. QED  BY <1>11, <2>1, <2>2, <2>4 DEF ScreenCall, TypeInv, TypeOK, MainStates, ThreadStates, WaitModes
<1>12. CASE InterlaceCall
  <2>1. Cmd("ilace", {}, 0, 0) \in Cmds /\ {} \in Regions
    BY ConstantTypes DEF Regions
  <2>2. Head0(Cmd("ilace", {}, 0, 0), {}) \in Seq(Cells)
    BY <2>1, HeadType
  <2>3. op' \in OpRecords /\ mpc' \in {"direct", "add"}
    BY <1>12, <2>1, <2>2, TellType DEF InterlaceCall
  <2>4. QED  BY <1>12, <2>3 DEF InterlaceCall, TypeInv, TypeOK, MainStates, ThreadStates, WaitModes
<1>13. CASE EcmdsCall
  <2>1. env_m' \in Regions
    BY <1>13, RegionAssumption DEF EcmdsCall
  <2>2. QED  BY <1>13, <2>1 DEF EcmdsCall, TypeInv, TypeOK, MainStates, ThreadStates, WaitModes
<1>14. CASE SyncEcmds
  <2> DEFINE ws == [i \in 1 .. EcmdsLen |-> Cell(IF i = 1 THEN Env(env_m) ELSE Tex, {}, 0)]
  <2>1. Env(env_m) \in Cmds /\ ws \in Seq(Cells)
    <3>1. \A i \in 1 .. EcmdsLen : Cell(IF i = 1 THEN Env(env_m) ELSE Tex, {}, 0) \in Cells
      BY ConstantTypes DEF TypeInv, TypeOK, Cell, Cells, Regions
    <3>2. EcmdsLen \in Nat
      BY EcmdsLenAssumption
    <3>3. QED  BY <3>1, <3>2, ConstantTypes DEF TypeInv, TypeOK
  <2>2. op' \in OpRecords /\ mpc' \in {"direct", "add"}
    BY <1>14, <2>1, TellType DEF SyncEcmds
  <2>3. QED  BY <1>14, <2>2 DEF SyncEcmds, TypeInv, TypeOK, MainStates, ThreadStates, WaitModes
<1>15. CASE Direct
  <2>1. areas' \in [Slots -> [pos : Positions, r : Regions]] /\ pos_area' \in Slots
    BY <1>15, AreaUpdates DEF Direct, TypeInv, TypeOK
  <2>2. env_t' \in Regions /\ rq' \in Regions
    BY <1>15 DEF Direct, TypeInv, TypeOK, Regions
  <2>3. op' \in OpRecords /\ mpc' = "idle"
    BY <1>15, NoOpType DEF Direct, Done
  <2>4. QED  BY <1>15, <2>1, <2>2, <2>3 DEF Direct, TypeInv, TypeOK, MainStates, ThreadStates, WaitModes
<1>16. CASE DmaCall
  <2>1. PICK c \in Dmas :
          IF Quiet \/ Room(pos_added) < DmaRoom(c)
          THEN mpc' = "sync" /\ op' = [NoOp EXCEPT !.rest = <<c>>, !.ret = "vram"]
          ELSE /\ mpc' = "dma"
               /\ op' = [NoOp EXCEPT !.rest = <<c>>, !.pa = pos_added, !.ret = "publish"]
    BY <1>16 DEF DmaCall
  <2>2. <<c>> \in Seq(Cmds) /\ <<c>> # <<>>
    BY CmdAssumption
  <2>3. op' \in OpRecords
    <3>1. pos_added \in Positions
      BY DEF TypeInv, TypeOK
    <3>2. QED  BY <2>1, <2>2, <3>1, NoOpType, ZenonT(40) DEF OpRecords
  <2>4. mpc' \in {"sync", "dma"} /\ op'.rest = <<c>>
    BY <2>1 DEF NoOp
  <2>5. QED  BY <1>16, <2>2, <2>3, <2>4 DEF DmaCall, TypeInv, TypeOK, MainStates, ThreadStates, WaitModes
<1>17. CASE DmaAdd
  <2> DEFINE ws == DmaWords(Head(op.rest))
  <2>1. Head(op.rest) \in Cmds /\ op.line \in Nat /\ op.pa \in Positions
    <3>1. op.rest # <<>> /\ op \in OpRecords
      BY <1>17 DEF DmaAdd, TypeInv, TypeOK
    <3>2. QED  BY <3>1, OpFields, HeadAndTail
  <2>2. ws \in Seq(Cells)
    <3>1. CASE op.line = 0
      BY <2>1, <3>1, HeadType DEF DmaWords, Regions
    <3>2. CASE op.line # 0
      <4>1. op.line - 1 \in Nat /\ Head(op.rest).s \in Nat
        BY <2>1, <3>2, CmdFields
      <4>2. 3 + (op.line - 1) * Head(op.rest).s \in Nat
        BY <4>1
      <4>3. QED  BY <2>1, <3>2, <4>1, <4>2, WordsType DEF DmaWords, Regions
    <3>3. QED  BY <3>1, <3>2
  <2>3. Filled(op.pa, ws) \in [Index -> Cells] /\ AddedPos(op.pa, Len(ws)) \in Positions
    BY <2>1, <2>2, AddType DEF TypeInv
  <2>4. op' \in OpRecords /\ op'.rest = op.rest
    <3> HIDE DEF ws
    <3>1. Fits(op.pa, Len(ws)) \in BOOLEAN
      BY DEF Fits
    <3>2. op' = [op EXCEPT !.line = @ + 1, !.pa = AddedPos(@, Len(ws)),
                           !.bad = @ \/ ~Fits(op.pa, Len(ws))]
      BY <1>17 DEF DmaAdd, ws
    <3> DEFINE pa2 == AddedPos(op.pa, Len(ws))
               bad2 == op.bad \/ ~Fits(op.pa, Len(ws))
    <3>3. op' = [op EXCEPT !.line = op.line + 1, !.pa = pa2, !.bad = bad2]
      BY <3>2
    <3>4. op.line + 1 \in Nat /\ pa2 \in Positions /\ bad2 \in BOOLEAN
      BY <2>1, <2>3
    <3> HIDE DEF pa2, bad2
    <3>5. QED  BY <3>3, <3>4 DEF TypeInv, TypeOK, OpRecords
  <2>5. QED  BY <1>17, <2>3, <2>4 DEF DmaAdd, TypeInv, TypeOK, MainStates, ThreadStates, WaitModes
<1>18. CASE DmaPublish
  <2>1. op' \in OpRecords
    BY <1>18, NoOpType DEF DmaPublish, Done, TypeInv, TypeOK
  <2>2. QED  BY <1>18, <2>1, OpFields DEF DmaPublish, Kick, Done, TypeInv, TypeOK, MainStates, ThreadStates, WaitModes
<1>19. CASE VramCall
  <2>1. op' \in OpRecords
    BY <1>19, NoOpType DEF VramCall, OpRecords
  <2>2. QED  BY <1>19, <2>1 DEF VramCall, TypeInv, TypeOK, MainStates, ThreadStates, WaitModes
<1>20. CASE Sync
  <2>1. mpc' \in MainStates /\ wait_mode' \in WaitModes
    BY <1>20 DEF Sync, TypeInv, TypeOK, MainStates, WaitModes
  <2>2. msig' \in BOOLEAN /\ idle' \in BOOLEAN /\ tpc' \in ThreadStates
    BY <1>20 DEF Sync, Kick, TypeInv, TypeOK, ThreadStates
  <2>3. mpc' # "dma" /\ op' = op
    BY <1>20 DEF Sync
  <2>4. QED  BY <1>20, <2>1, <2>2, <2>3 DEF Sync, TypeInv, TypeOK
<1>21. CASE FullWoken
  BY <1>21 DEF FullWoken, TypeInv, TypeOK, MainStates, ThreadStates, WaitModes
<1>22. CASE Synced
  <2>1. op' \in OpRecords
    <3>1. op \in OpRecords /\ flip \in Regions
      BY DEF TypeInv, TypeOK
    <3>2. op' = op \/ op' = [op EXCEPT !.reg = flip]
      BY <1>22 DEF Synced
    <3>3. QED  BY <3>1, <3>2 DEF OpRecords
  <2>2. mpc' \in {"scan", "vram", "stop"}
    BY <1>22 DEF Synced
  <2>3. QED  BY <1>22, <2>1, <2>2 DEF Synced, TypeInv, TypeOK, MainStates, ThreadStates, WaitModes
<1>23. CASE Vram
  <2>1. op' \in OpRecords
    BY <1>23, NoOpType DEF Vram, Done, TypeInv, TypeOK
  <2>2. QED  BY <1>23, <2>1 DEF Vram, Done, TypeInv, TypeOK, MainStates, ThreadStates, WaitModes
<1>24. CASE ScanoutCall
  <2>1. PICK cs \in CalcScanout(screen) :
          CASE cs.ret = 0 -> mpc' = "scan" /\ op' = [op EXCEPT !.reg = screen] /\ UNCHANGED flip
            [] cs.ret # 0 /\ FrameSkip -> flip' = screen /\ UNCHANGED <<mpc, op>>
            [] OTHER -> ScanoutWait(cs, screen) /\ UNCHANGED flip
    BY <1>24 DEF ScanoutCall
  <2>2. cs.target \in Positions
    BY CalcScanoutType DEF TypeInv, TypeOK
  <2>3. op' \in OpRecords
    <3>1. op \in OpRecords /\ screen \in Regions
      BY DEF TypeInv, TypeOK
    <3>2. \/ op' = op
          \/ op' = [op EXCEPT !.reg = screen]
          \/ op' = [op EXCEPT !.reg = screen, !.target = cs.target]
      BY <2>1 DEF ScanoutWait
    <3>3. QED  BY <2>2, <3>1, <3>2 DEF OpRecords
  <2>4. flip' \in Regions /\ mpc' \in {"idle", "scan", "twait", "sync"}
    BY <1>24, <2>1 DEF ScanoutCall, ScanoutWait, Call, TypeInv, TypeOK
  <2>5. QED  BY <1>24, <2>3, <2>4 DEF ScanoutCall, TypeInv, TypeOK, MainStates, ThreadStates, WaitModes
<1>25. CASE TryDelayedFlip
  <2>1. op' \in OpRecords
    <3>1. op \in OpRecords /\ flip \in Regions
      BY DEF TypeInv, TypeOK
    <3>2. QED  BY <1>25, <3>1 DEF TryDelayedFlip, OpRecords
  <2>2. QED  BY <1>25, <2>1 DEF TryDelayedFlip, TypeInv, TypeOK, MainStates, ThreadStates, WaitModes
<1>26. CASE TargetWait
  <2>1. op.target \in Positions
    BY OpFields DEF TypeInv, TypeOK
  <2>2. mpc' \in MainStates /\ wait_mode' \in WaitModes
    BY <1>26 DEF TargetWait, TypeInv, TypeOK, MainStates, WaitModes
  <2>3. msig' \in BOOLEAN /\ pos_target' \in Positions /\ mpc' # "dma"
    BY <1>26, <2>1 DEF TargetWait, TypeInv, TypeOK
  <2>4. QED  BY <1>26, <2>2, <2>3 DEF TargetWait, TypeInv, TypeOK
<1>27. CASE TargetWoken
  BY <1>27 DEF TargetWoken, TypeInv, TypeOK, MainStates, ThreadStates, WaitModes
<1>28. CASE Scan
  <2>1. op' \in OpRecords
    <3>1. op \in OpRecords
      BY DEF TypeInv, TypeOK
    <3>2. op' = NoOp \/ op' = [op EXCEPT !.reg = {}, !.target = 0]
      BY <1>28 DEF Scan, Done
    <3>3. {} \in Regions /\ 0 \in Positions
      BY PositionArithmetic DEF Regions
    <3>4. QED  BY <3>1, <3>2, <3>3, NoOpType DEF OpRecords
  <2>2. mpc' \in {"idle", "publish", "vram", "stop"}
    BY <1>28, OpFields DEF Scan, Done, TypeInv, TypeOK
  <2>3. flip' \in Regions
    BY <1>28 DEF Scan, TypeInv, TypeOK, Regions
  <2>4. QED  BY <1>28, <2>1, <2>2, <2>3 DEF Scan, TypeInv, TypeOK, MainStates, ThreadStates, WaitModes
<1>29. CASE StopCall
  <2>1. op' \in OpRecords
    BY <1>29, NoOpType DEF StopCall, OpRecords
  <2>2. QED  BY <1>29, <2>1 DEF StopCall, TypeInv, TypeOK, MainStates, ThreadStates, WaitModes
<1>30. CASE SetExit
  BY <1>30 DEF SetExit, TypeInv, TypeOK, MainStates, ThreadStates, WaitModes
<1>31. CASE SignalExit
  BY <1>31 DEF SignalExit, TypeInv, TypeOK, MainStates, ThreadStates, WaitModes
<1>32. CASE Join
  <2>1. op' \in OpRecords
    BY <1>32, NoOpType DEF Join, TypeInv, TypeOK
  <2>2. QED  BY <1>32, <2>1 DEF Join, TypeInv, TypeOK, MainStates, ThreadStates, WaitModes
<1>33. CASE OffSetEnv
  <2>1. env_m' \in Regions
    BY <1>33, RegionAssumption DEF OffSetEnv
  <2>2. QED  BY <1>33, <2>1 DEF OffSetEnv, TypeInv, TypeOK, MainStates, ThreadStates, WaitModes
<1>34. CASE EnableCall
  <2>1. cells' \in [Index -> Cells]
    BY <1>34, ConstantTypes DEF EnableCall
  <2>2. areas' \in [Slots -> [pos : Positions, r : Regions]] /\ pos_area' \in Slots
    BY AreaCntAssumption, <1>34, PositionArithmetic DEF EnableCall, Slots, Regions
  <2>3. 0 \in Positions /\ {} \in Regions
    BY PositionArithmetic DEF Regions
  <2>4. QED
    BY <1>34, <2>1, <2>2, <2>3, NoOpType DEF EnableCall, TypeInv, TypeOK, MainStates, ThreadStates, WaitModes
<1>35. CASE ThreadLock
  BY <1>35 DEF ThreadLock, TypeInv, TypeOK, MainStates, ThreadStates, WaitModes
<1>36. CASE Top
  <2>1. Diff(pos_added, pos_used) \in Nat
    BY PositionArithmetic DEF TypeInv, TypeOK
  <2>2. QED  BY <1>36, <2>1 DEF Top, TypeInv, TypeOK, MainStates, ThreadStates, WaitModes
<1>37. CASE Sleep
  <2>1. wait_mode' \in WaitModes /\ msig' \in BOOLEAN
    <3>1. CASE wait_mode \in {"full", "target"}
      <4>1. (mpc \in Waits) \in BOOLEAN
        OBVIOUS
      <4>2. QED  BY <1>37, <3>1, <4>1, Zenon DEF Sleep, Signal, WaitModes
    <3>2. CASE wait_mode \notin {"full", "target"}
      BY <1>37, <3>2 DEF Sleep, TypeInv, TypeOK
    <3>3. QED  BY <3>1, <3>2
  <2>2. QED  BY <1>37, <2>1 DEF Sleep, TypeInv, TypeOK, MainStates, ThreadStates, WaitModes
<1>38. CASE Unlock
  BY <1>38 DEF Unlock, TypeInv, TypeOK, MainStates, ThreadStates, WaitModes
<1>39. CASE Flush
  BY <1>39, ZenonT(40) DEF Flush, Regions, TypeInv, TypeOK, MainStates, ThreadStates, WaitModes
<1>40. CASE Render
  <2>1. UsedAt \in Index /\ BatchLen \in Nat /\ Batch \in Seq(Cells) /\ Len(Batch) = BatchLen
    BY BatchType DEF TypeInv, TypeOK
  <2> DEFINE ws(n) == SubSeq(Batch, 1, n)
             sp(n) == IF n < BatchLen THEN Batch[n + 1].c ELSE Pad.c
  <2>2. PICK n \in 0 .. BatchLen :
          /\ env_t' = EnvAfter(env_t, ws(n))
          /\ tdone' = CASE sp(n).op = "nop" -> n
                        [] sp(n).op = "dma" -> n + DmaLen(UsedAt + n, sp(n))
                        [] OTHER -> n + Len0(sp(n))
          /\ tdirty' = (sp(n).op \notin {"ilace", "dma", "brk"} /\ (tdirty \/ n > 0))
          /\ rq' = IF sp(n).op \in {"copy", "ilace", "dma", "brk"} THEN {}
                   ELSE rq \cup DrawnBy(env_t, ws(n))
    BY <1>40 DEF Render
  <2>3. ws(n) \in Seq(Cells)
    BY <2>1
  <2>4. sp(n) \in Cmds
    BY <2>1, CmdFields, ConstantTypes
  <2>5. env_t' \in Regions /\ rq' \in Regions /\ tdirty' \in BOOLEAN
    <3>1. EnvAfter(env_t, ws(n)) \in Regions /\ DrawnBy(env_t, ws(n)) \in Regions
      BY <2>3, EffectTypes DEF TypeInv, TypeOK
    <3> HIDE DEF ws, sp
    <3>2. QED  BY <2>2, <3>1 DEF TypeInv, TypeOK, Regions
  <2>6. tdone' \in Nat
    <3> HIDE DEF sp
    <3>1. UsedAt + n \in Int
      BY <2>1 DEF Index
    <3>2. sp(n).op = "dma" => DmaLen(UsedAt + n, sp(n)) \in Nat
      BY <2>4, <3>1, DmaLenType
    <3>3. Len0(sp(n)) \in Nat
      BY <2>4, HeadType DEF Regions
    <3>4. QED  BY <2>1, <2>2, <3>2, <3>3
  <2>7. QED  BY <1>40, <2>5, <2>6 DEF Render, TypeInv, TypeOK, MainStates, ThreadStates, WaitModes
<1>41. CASE Commit
  <2>1. pos_used' \in Positions
    BY <1>41, PositionArithmetic DEF Commit, TypeInv, TypeOK
  <2>2. cells' \in [Index -> Cells]
    BY <1>41, ConstantTypes DEF Commit, TypeInv, TypeOK
  <2>3. wait_mode' \in WaitModes /\ msig' \in BOOLEAN
    <3>1. CASE Signal
      BY <3>1 DEF Signal, WaitModes
    <3>2. CASE UNCHANGED <<wait_mode, msig>>
      BY <3>2 DEF TypeInv, TypeOK
    <3>3. QED  BY <1>41, <3>1, <3>2 DEF Commit
  <2>4. QED  BY <1>41, <2>1, <2>2, <2>3 DEF Commit, TypeInv, TypeOK, MainStates, ThreadStates, WaitModes
<1>42. CASE SpuriousWake
  <2>1. msig' \in BOOLEAN /\ tpc' \in {"woken", tpc}
    BY <1>42 DEF SpuriousWake, TypeInv, TypeOK
  <2>2. QED  BY <1>42, <2>1 DEF SpuriousWake, TypeInv, TypeOK, MainStates, ThreadStates, WaitModes
<1>43. CASE UNCHANGED vars
  BY <1>43 DEF vars, TypeInv, TypeOK, MainStates, ThreadStates, WaitModes
<1>44. QED
  BY <1>1, <1>2, <1>3, <1>4, <1>5, <1>6, <1>7, <1>8, <1>9, <1>10, <1>11,
     <1>12, <1>13, <1>14, <1>15, <1>16, <1>17, <1>18, <1>19, <1>20, <1>21,
     <1>22, <1>23, <1>24, <1>25, <1>26, <1>27, <1>28, <1>29, <1>30, <1>31,
     <1>32, <1>33, <1>34, <1>35, <1>36, <1>37, <1>38, <1>39, <1>40, <1>41,
     <1>42, <1>43
  DEF Next, MainCall, MainStep, Thread

(* Every variable keeps its type, whatever the size of the ring, the       *)
(* commands and the interleaving of the two threads.                       *)
THEOREM TypeCorrect == Spec => []TypeOK
<1>1. TypeInv /\ [Next]_vars => TypeInv'
  BY TypeNext
<1>2. TypeInv => TypeOK
  BY DEF TypeInv
<1>3. QED  BY TypeInit, <1>1, <1>2, PTL DEF Spec

-----------------------------------------------------------------------------
(* The handover of the renderer.  Spurious wake-ups are excluded: the code *)
(* relies on there being none, as gpu_async_sync_nocheck does.             *)
LEMMA HandoverInit == Init => Handover
BY DEF Init, NoOp, Handover, SleepInv, ExitInv, CallInv, QuietInv, WaitInv, Quiet, Waits

(* Every step keeps the handover, when no wait ends without a signal.      *)
LEMMA HandoverNext ==
  ASSUME Spurious = FALSE, TypeInv, Handover, [Next]_vars
  PROVE  Handover'
<1> USE DEF TypeInv, TypeOK, Handover, SleepInv, ExitInv, CallInv, QuietInv, WaitInv, Quiet, Waits
<1>1. CASE ListCall
  BY <1>1 DEF ListCall, AddCall, Call, NoOp
<1>2. CASE Prefix
  <2>1. UNCHANGED <<pos_added, pos_used, syncVars, threadVars, rq>>
        /\ mpc = "prefix" /\ mpc' \in {"prefix", "loop"}
    BY <1>2 DEF Prefix
  <2>2. op'.ret = op.ret
    BY <1>2 DEF Prefix, OpRecords
  <2>3. QED  BY <2>1, <2>2
<1>3. CASE Loop
  <2>1. UNCHANGED <<pos_added, pos_used, syncVars, mpc, threadVars, rq>> /\ mpc = "loop"
    BY <1>3 DEF Loop
  <2>2. op.ret = "publish" /\ op'.ret = op.ret
    <3>1. op \in OpRecords
      OBVIOUS
    <3>2. QED  BY <1>3, <3>1 DEF Loop, OpRecords
  <2>3. QED  BY <2>1, <2>2
<1>4. CASE LoopEnd
  <2>1. UNCHANGED <<pos_added, pos_used, syncVars, threadVars, rq>>
        /\ mpc = "loop" /\ mpc' \in {"publish", "twait", "sync"}
    BY <1>4 DEF LoopEnd, ScanoutWait
  <2>2. op'.ret = op.ret
    BY <1>4 DEF LoopEnd, ScanoutWait, OpRecords
  <2>3. QED  BY <2>1, <2>2
<1>5. CASE Publish
  BY <1>5 DEF Publish
<1>6. CASE KickAfterList
  BY <1>6 DEF KickAfterList, Kick, LockFree
<1>7. CASE AddWithWait
  BY <1>7 DEF AddWithWait
<1>8. CASE AddLock
  BY <1>8 DEF AddLock, Kick, LockFree, WaitForRoom
<1>9. CASE AddWoken
  BY <1>9 DEF AddWoken, LockFree, WaitForRoom
<1>10. CASE Break
  BY <1>10 DEF Break, Done, NoOp
<1>11. CASE ScreenCall
  BY <1>11 DEF ScreenCall, AddCall, Call, Tell, NoOp
<1>12. CASE InterlaceCall
  BY <1>12 DEF InterlaceCall, AddCall, Call, Tell, NoOp
<1>13. CASE EcmdsCall
  BY <1>13 DEF EcmdsCall, AddCall, Call
<1>14. CASE SyncEcmds
  BY <1>14 DEF SyncEcmds, Tell, NoOp
<1>15. CASE Direct
  BY <1>15 DEF Direct, Done, NoOp
<1>16. CASE DmaCall
  BY <1>16 DEF DmaCall, AddCall, Call
<1>17. CASE DmaAdd
  BY <1>17 DEF DmaAdd
<1>18. CASE DmaPublish
  BY <1>18 DEF DmaPublish, Kick, LockFree, Done, NoOp
<1>19. CASE VramCall
  BY <1>19 DEF VramCall, Call, NoOp
<1>20. CASE Sync
  BY <1>20 DEF Sync, Kick, LockFree
<1>21. CASE FullWoken
  BY <1>21 DEF FullWoken, LockFree
<1>22. CASE Synced
  BY <1>22 DEF Synced
<1>23. CASE Vram
  BY <1>23 DEF Vram, Done, NoOp
<1>24. CASE ScanoutCall
  <2>1. UNCHANGED <<pos_added, pos_used, syncVars, threadVars, rq>>
        /\ mpc = "idle" /\ mpc' \in {"idle", "scan", "twait", "sync"}
    BY <1>24 DEF ScanoutCall, Call, ScanoutWait
  <2>2. op'.ret = op.ret
    BY <1>24 DEF ScanoutCall, ScanoutWait, OpRecords
  <2>3. QED  BY <2>1, <2>2
<1>25. CASE TryDelayedFlip
  BY <1>25 DEF TryDelayedFlip, Call
<1>26. CASE TargetWait
  BY <1>26 DEF TargetWait, LockFree
<1>27. CASE TargetWoken
  BY <1>27 DEF TargetWoken, LockFree
<1>28. CASE Scan
  <2>1. UNCHANGED <<pos_added, pos_used, syncVars, threadVars, rq>> /\ mpc = "scan"
    BY <1>28 DEF Scan
  <2>2. \/ mpc' = "idle" /\ op'.ret = "idle"
        \/ mpc' = op.ret /\ op.ret \in {"publish", "vram", "stop"}
    BY <1>28, OpFields DEF Scan, Done, NoOp
  <2>3. QED  BY <2>1, <2>2
<1>29. CASE StopCall
  BY <1>29 DEF StopCall, Call, NoOp
<1>30. CASE SetExit
  BY <1>30 DEF SetExit
<1>31. CASE SignalExit
  BY <1>31 DEF SignalExit, LockFree
<1>32. CASE Join
  BY <1>32 DEF Join
<1>33. CASE OffSetEnv
  BY <1>33 DEF OffSetEnv
<1>34. CASE EnableCall
  BY <1>34 DEF EnableCall, NoOp
<1>35. CASE ThreadLock
  BY <1>35 DEF ThreadLock
<1>36. CASE Top
  BY <1>36 DEF Top
<1>37. CASE Sleep
  <2>1. UNCHANGED <<pos_added, pos_used, exit, mainVars, tlen, tdirty, rq>>
        /\ tpc = "decide" /\ tlen = 0 /\ ~tdirty /\ idle' /\ tpc' = "sleep"
    BY <1>37 DEF Sleep
  <2>2. mpc \notin {"join", "off", "stopping"} /\ ~idle
    BY <2>1
  <2>3. mpc = "fullwait" => pos_added = pos_used
    BY <2>1, PositionArithmetic
  <2>4. CASE wait_mode \in {"full", "target"}
    <3>1. wait_mode' = "none" /\ msig'
      BY <1>37, <2>4 DEF Sleep, Signal
    <3>2. QED  BY <2>1, <2>2, <2>3, <2>4, <3>1
  <2>5. CASE wait_mode \notin {"full", "target"}
    <3>1. UNCHANGED <<wait_mode, msig>>
      BY <1>37, <2>5 DEF Sleep
    <3>2. QED  BY <2>1, <2>2, <2>3, <2>5, <3>1 DEF WaitModes
  <2>6. QED  BY <2>4, <2>5
<1>38. CASE Unlock
  BY <1>38 DEF Unlock
<1>39. CASE Flush
  BY <1>39 DEF Flush
<1>40. CASE Render
  <2>1. UNCHANGED <<pos_added, pos_used, syncVars, op, mpc, tlen>> /\ tpc = "render" /\ tpc' = "done"
    BY <1>40 DEF Render
  <2>2. rq' # {} => tdirty'
    <3>1. PICK n \in 0 .. BatchLen :
            LET ws == SubSeq(Batch, 1, n)
                sp == IF n < BatchLen THEN Batch[n + 1].c ELSE Pad.c
            IN  /\ tdirty' = (sp.op \notin {"ilace", "dma", "brk"} /\ (tdirty \/ n > 0))
                /\ rq' = IF sp.op \in {"copy", "ilace", "dma", "brk"} THEN {}
                         ELSE rq \cup DrawnBy(env_t, ws)
      BY <1>40 DEF Render
    <3>2. CASE n > 0
      BY <3>1, <3>2
    <3>3. CASE n = 0
      <4>1. DrawnBy(env_t, SubSeq(Batch, 1, 0)) = {}
        BY DEF DrawnBy
      <4>2. QED  BY <3>1, <3>3, <4>1
    <3>4. QED  BY <3>2, <3>3
  <2>3. QED  BY <2>1, <2>2
<1>41. CASE Commit
  BY <1>41 DEF Commit, Signal
<1>42. CASE UNCHANGED vars
  BY <1>42 DEF vars
<1>43. QED
  BY <1>1, <1>2, <1>3, <1>4, <1>5, <1>6, <1>7, <1>8, <1>9, <1>10, <1>11,
     <1>12, <1>13, <1>14, <1>15, <1>16, <1>17, <1>18, <1>19, <1>20, <1>21,
     <1>22, <1>23, <1>24, <1>25, <1>26, <1>27, <1>28, <1>29, <1>30, <1>31,
     <1>32, <1>33, <1>34, <1>35, <1>36, <1>37, <1>38, <1>39, <1>40, <1>41,
     <1>42
  DEF Next, MainCall, MainStep, Thread, SpuriousWake

NoSpuriousWake == Spurious = FALSE

(* The handover of the renderer holds throughout.                          *)
LEMMA HandoverInv == Spec /\ NoSpuriousWake => [](TypeInv /\ Handover)
<1> DEFINE Inv == NoSpuriousWake /\ TypeInv /\ Handover
<1>1. Init /\ NoSpuriousWake => Inv
  BY TypeInit, HandoverInit
<1>2. Inv /\ [Next]_vars => Inv'
  BY TypeNext, HandoverNext DEF NoSpuriousWake
<1>3. Inv => TypeInv /\ Handover
  OBVIOUS
<1> HIDE DEF Inv
<1>4. QED  BY <1>1, <1>2, <1>3, PTL DEF Spec

(* The gpu thread and the main thread are never in the renderer together,  *)
(* whatever the calls and however they interleave.                         *)
THEOREM RendererIsExclusive == Spec /\ NoSpuriousWake => []RendererExclusive
<1>1. TypeInv /\ Handover => RendererExclusive
  BY DEF Handover, SleepInv, ExitInv, QuietInv, Quiet, RendererExclusive
<1>2. QED  BY HandoverInv, <1>1, PTL

(* When a sync returns everything submitted has been used and drawn.       *)
THEOREM SyncIsComplete == Spec /\ NoSpuriousWake => []SyncPost
<1>1. TypeInv /\ Handover => SyncPost
  BY DEF Handover, SleepInv, QuietInv, Quiet, SyncPost
<1>2. QED  BY HandoverInv, <1>1, PTL

(* No signal is lost and none is sent to nobody.                           *)
THEOREM HandshakeIsKept == Spec /\ NoSpuriousWake => []HandshakeOK
<1>1. TypeInv /\ Handover => HandshakeOK
  BY DEF Handover, WaitInv, Waits, HandshakeOK, TypeInv, TypeOK, WaitModes
<1>2. QED  BY HandoverInv, <1>1, PTL

-----------------------------------------------------------------------------
(* Where the words of the ring are: the window that begins at a position   *)
(* goes once round the ring.                                               *)
LEMMA PlaceIs ==
  ASSUME NEW u \in Nat, NEW d \in 0 .. BufLen
  PROVE  /\ u % BufLen \in Index /\ Place(u, d) \in Index
         /\ Place(u, d) = IF (u % BufLen) + d >= BufLen THEN (u % BufLen) + d - BufLen
                                                        ELSE (u % BufLen) + d
<1>1. BufLen \in Nat \ {0} /\ u \in Int
  BY BufLenAssumption
<1>2. u % BufLen \in 0 .. BufLen - 1
  BY <1>1, Euclid
<1>3. (u + d) % BufLen = IF (u % BufLen) + d >= BufLen THEN (u % BufLen) + d - BufLen
                                                      ELSE (u % BufLen) + d
  BY <1>1, AddMod, Zenon
<1>4. QED  BY <1>1, <1>2, <1>3 DEF Place, Index

(* The place of a word of the window without the remainder: the window     *)
(* goes round the end of the ring at most once.                            *)
LEMMA PlaceInWindow ==
  ASSUME NEW u \in Nat
  PROVE  \A d \in Index : Place(u, d) = IF (u % BufLen) + d >= BufLen THEN (u % BufLen) + d - BufLen
                                                                     ELSE (u % BufLen) + d
<1>1. \A d \in Index : d \in 0 .. BufLen
  BY BufLenAssumption DEF Index
<1>2. QED  BY <1>1, PlaceIs, Zenon

(* Every place of the ring is the place of one word of the window, the one *)
(* do_add_pos and the gpu thread compute.                                  *)
LEMMA PlaceInverse ==
  ASSUME NEW u \in Nat, NEW i \in Index
  PROVE  /\ (BufLen + i - (u % BufLen)) % BufLen \in Index
         /\ Place(u, (BufLen + i - (u % BufLen)) % BufLen) = i
         /\ \A d \in Index : Place(u, d) = i => d = (BufLen + i - (u % BufLen)) % BufLen
<1> DEFINE r == u % BufLen
<1>1. BufLen \in Nat \ {0} /\ r \in 0 .. BufLen - 1 /\ i \in 0 .. BufLen - 1
  BY PlaceIs, BufLenAssumption DEF Index
<1> HIDE DEF r
<1>2. CASE i >= r
  <2>1. BufLen + i - r = BufLen * 1 + (i - r) /\ i - r \in 0 .. BufLen - 1
    BY <1>1, <1>2
  <2>2. (BufLen + i - r) % BufLen = i - r
    BY <1>1, <2>1, UniqueRemainder
  <2>3. \A d \in Index : Place(u, d) = IF r + d >= BufLen THEN r + d - BufLen ELSE r + d
    BY PlaceInWindow DEF r
  <2>4. QED  BY <1>1, <1>2, <2>2, <2>3 DEF r, Index
<1>3. CASE i < r
  <2>1. BufLen + i - r = BufLen * 0 + (BufLen + i - r) /\ BufLen + i - r \in 0 .. BufLen - 1
    BY <1>1, <1>3
  <2>2. (BufLen + i - r) % BufLen = BufLen + i - r
    BY <1>1, <2>1, UniqueRemainder
  <2>3. \A d \in Index : Place(u, d) = IF r + d >= BufLen THEN r + d - BufLen ELSE r + d
    BY PlaceInWindow DEF r
  <2>4. QED  BY <1>1, <1>3, <2>2, <2>3 DEF r, Index
<1>4. QED  BY <1>1, <1>2, <1>3

(* A position n words on, and differences of positions.                    *)
LEMMA PlusIs ==
  ASSUME NEW a \in Positions, NEW n \in 0 .. BufLen
  PROVE  /\ Plus(a, n) \in Positions
         /\ Plus(a, n) = IF a + n >= PosMod THEN a + n - PosMod ELSE a + n
<1>1. PosMod \in Nat \ {0} /\ BufLen \in Nat /\ BufLen < PosMod /\ a \in 0 .. PosMod - 1
  BY PosModAssumption, BufLenAssumption DEF Positions
<1>2. a % PosMod = a
  <2>1. a = PosMod * 0 + a
    BY <1>1
  <2>2. QED  BY <1>1, <2>1, UniqueRemainder
<1>3. (a + n) % PosMod = IF (a % PosMod) + n >= PosMod THEN (a % PosMod) + n - PosMod
                                                      ELSE (a % PosMod) + n
  BY <1>1, AddMod
<1>4. QED  BY <1>1, <1>2, <1>3 DEF Plus, Positions

(* The place of a word counted from a position that has moved on.          *)
LEMMA PlusPlace ==
  ASSUME NEW a \in Positions, NEW n \in 0 .. BufLen, NEW d \in Nat
  PROVE  Place(Plus(a, n), d) = (a + n + d) % BufLen
<1>1. PosMod \in Nat \ {0} /\ BufLen \in Nat \ {0} /\ a \in Nat /\ Plus(a, n) \in Nat
  BY PosModAssumption, BufLenAssumption, PlusIs DEF Positions
<1>2. CASE Plus(a, n) = a + n
  BY <1>1, <1>2 DEF Place
<1>3. CASE Plus(a, n) = a + n - PosMod
  <2>1. PICK q \in Int : PosMod % BufLen = PosMod + BufLen * q
    <3>1. PosMod \in Int
      BY <1>1
    <3>2. QED  BY <1>1, <3>1, Congruent, Zenon
  <2>2. PosMod % BufLen = 0
    BY PosModAssumption
  <2>3. Plus(a, n) + d = (a + n + d) + BufLen * q
    BY <1>1, <1>3, <2>1, <2>2
  <2>4. (Plus(a, n) + d) % BufLen = (a + n + d) % BufLen
    <3>1. Plus(a, n) + d \in Int /\ a + n + d \in Int
      BY <1>1
    <3>2. QED  BY <1>1, <2>3, <3>1, SameRemainder, Zenon
  <2>5. QED  BY <2>4 DEF Place
<1>4. QED  BY <1>2, <1>3, PlusIs

(* The distance of two positions: the place it leads to, and how it grows  *)
(* and shrinks as either position moves on.                                *)
LEMMA DiffIs ==
  ASSUME NEW a \in Positions, NEW u \in Positions
  PROVE  /\ Diff(a, u) \in 0 .. PosMod - 1
         /\ Diff(a, u) = 0 <=> a = u
         /\ Diff(a, u) <= BufLen => a % BufLen = Place(u, Diff(a, u)) /\ Plus(u, Diff(a, u)) = a
         /\ \A n \in 0 .. BufLen : Diff(a, u) + n < PosMod => Diff(Plus(a, n), u) = Diff(a, u) + n
         /\ \A n \in 0 .. BufLen : n <= Diff(a, u) => Diff(a, Plus(u, n)) = Diff(a, u) - n
<1>1. PosMod \in Nat \ {0} /\ BufLen \in Nat \ {0} /\ a \in 0 .. PosMod - 1 /\ u \in 0 .. PosMod - 1
  BY PosModAssumption, BufLenAssumption DEF Positions
<1>2. Diff(a, u) \in 0 .. PosMod - 1 /\ (Diff(a, u) = 0 <=> a = u)
  BY <1>1 DEF Diff
<1>3. ASSUME Diff(a, u) <= BufLen  PROVE a % BufLen = Place(u, Diff(a, u)) /\ Plus(u, Diff(a, u)) = a
  <2>1. Diff(a, u) \in 0 .. BufLen
    BY <1>1, <1>2, <1>3
  <2>2. Plus(u, Diff(a, u)) = a
    BY <1>1, <2>1, PlusIs DEF Diff
  <2>3. Place(a, 0) = (u + Diff(a, u) + 0) % BufLen
    <3>1. 0 \in Nat
      OBVIOUS
    <3>2. Place(Plus(u, Diff(a, u)), 0) = (u + Diff(a, u) + 0) % BufLen
      BY <2>1, <3>1, PlusPlace, ZenonT(40)
    <3>3. QED  BY <2>2, <3>2, ZenonT(40)
  <2>4. QED  BY <1>1, <1>2, <2>2, <2>3 DEF Place
<1>4. ASSUME NEW n \in 0 .. BufLen, Diff(a, u) + n < PosMod
      PROVE  Diff(Plus(a, n), u) = Diff(a, u) + n
  BY <1>1, <1>4, PlusIs DEF Diff
<1>5. ASSUME NEW n \in 0 .. BufLen, n <= Diff(a, u)
      PROVE  Diff(a, Plus(u, n)) = Diff(a, u) - n
  BY <1>1, <1>5, PlusIs DEF Diff
<1>6. QED  BY <1>2, <1>3, <1>4, <1>5

(* The window after n of its words are used up.                            *)
LEMMA PlaceShift ==
  ASSUME NEW u \in Positions, NEW n \in 0 .. BufLen, NEW d \in Index
  PROVE  /\ n + d < BufLen => Place(Plus(u, n), d) = Place(u, n + d)
         /\ n + d >= BufLen => Place(Plus(u, n), d) = Place(u, n + d - BufLen)
<1>1. BufLen \in Nat \ {0} /\ u \in Nat /\ d \in 0 .. BufLen - 1
  BY BufLenAssumption DEF Positions, Index
<1>2. Place(Plus(u, n), d) = (u + n + d) % BufLen
  BY <1>1, PlusPlace
<1>3. (u + n + d) % BufLen = (u + (n + d)) % BufLen
  <2>1. u + n + d = u + (n + d)
    BY <1>1
  <2>2. QED  BY <2>1
<1>4. ASSUME n + d >= BufLen
      PROVE  (u + (n + d)) % BufLen = (u + (n + d - BufLen)) % BufLen
  <2>1. u + (n + d) = (u + (n + d - BufLen)) + BufLen * 1
    BY <1>1
  <2>2. u + (n + d) \in Int /\ u + (n + d - BufLen) \in Int /\ 1 \in Int
    BY <1>1
  <2>3. QED  BY <1>1, <2>1, <2>2, SameRemainder, Zenon
<1>5. QED  BY <1>2, <1>3, <1>4 DEF Place

(* The words of a command have everything but their number in common.      *)
LEMMA WordIs ==
  ASSUME NEW v \in Cells, NEW k \in Nat
  PROVE  /\ Word(v, k) \in Cells /\ Word(v, k).c = v.c /\ Word(v, k).env = v.env /\ Word(v, k).k = k
         /\ Word(v, v.k) = v
         /\ \A j \in Nat : Word(Word(v, k), j) = Word(v, j)
BY DEF Word, Cells

(* A ring word that is a word of another's command shares its command and  *)
(* its words.                                                              *)
LEMMA WordIff ==
  ASSUME NEW v \in Cells, NEW w \in Cells, NEW k \in Nat, v = Word(w, k)
  PROVE  v.c = w.c /\ v.k = k /\ \A j \in Nat : Word(v, j) = Word(w, j)
BY WordIs

(* The lines of an upload lie one after the other from the header on, as   *)
(* many as fit before the end of the ring, the others from its start on.   *)
LEMMA UploadShape ==
  ASSUME NEW c \in Cmds, c.op = "dma", NEW at \in Index, at + 3 <= BufLen
  PROVE  /\ Fitting(at, c) \in Nat /\ Fitting(at, c) <= BufLen - at - 3
         /\ BufLen - at - 3 < Fitting(at, c) + c.s
         /\ \E q \in Nat : Fitting(at, c) = c.s * q /\ q = (BufLen - at - 3) \div c.s
         /\ (BufLen - at - 3) % c.s = BufLen - at - 3 - Fitting(at, c)
<1> DEFINE left == BufLen - at - 3
           q == left \div c.s
<1>1. c.s \in Nat \ {0} /\ left \in Nat /\ left \in Int
  BY CmdFields, BufLenAssumption DEF Index
<1> HIDE DEF left
<1>2. left % c.s \in 0 .. c.s - 1 /\ q \in Int /\ left = c.s * q + (left % c.s)
  BY <1>1, Euclid, Zenon
<1> HIDE DEF q
<1>3. q \in Nat
  <2>1. CASE q < 0
    <3>1. c.s * (-q) >= c.s
      BY <1>1, <1>2, <2>1, SMTT(20)
    <3>2. c.s * q = -(c.s * (-q))
      BY <1>1, <1>2, SMTT(20)
    <3>3. QED  BY <1>1, <1>2, <3>1, <3>2
  <2>2. QED  BY <1>2, <2>1
<1>4. c.s * q \in Nat
  BY <1>1, <1>3
<1>5. Fitting(at, c) = c.s * q
  BY DEF Fitting, q, left
<1>6. /\ Fitting(at, c) \in Nat /\ Fitting(at, c) <= left /\ left < Fitting(at, c) + c.s
      /\ left % c.s = left - Fitting(at, c)
  BY <1>1, <1>2, <1>4, <1>5
<1>7. \E p \in Nat : Fitting(at, c) = c.s * p /\ p = left \div c.s
  BY <1>3, <1>5, Zenon DEF q
<1>8. QED  BY <1>6, <1>7, Zenon DEF left

(* Two multiples of a number are a whole such number apart.                *)
LEMMA NextMultiple ==
  ASSUME NEW s \in Nat, NEW a \in Nat, NEW b \in Nat, s * a < s * b
  PROVE  s * a + s <= s * b
<1>1. a < b
  <2>1. CASE a >= b
    <3>1. s * a >= s * b
      BY <2>1, SMTT(20)
    <3>2. s * a \in Nat /\ s * b \in Nat
      OBVIOUS
    <3>3. QED  BY <3>1, <3>2
  <2>2. QED  BY <2>1
<1>2. s * (a + 1) <= s * b
  BY <1>1, SMTT(20)
<1>3. s * (a + 1) = s * a + s
  BY SMTT(20)
<1>4. QED  BY <1>2, <1>3

(* Later words of a command are further on.                                *)
LEMMA WordOrder ==
  ASSUME NEW c \in Cmds, NEW at \in Index, c.op = "dma" => at + 3 <= BufLen
  PROVE  /\ WordAt(at, c, 0) = 0
         /\ \A k \in Nat : WordAt(at, c, k) \in Nat /\ WordAt(at, c, k) >= k
         /\ \A k \in Nat : c.op # "dma" \/ k < 3 => WordAt(at, c, k) = k
         /\ \A j, k \in Nat : j < k => WordAt(at, c, j) < WordAt(at, c, k)
<1>1. CASE c.op # "dma"
  BY <1>1 DEF WordAt
<1>2. CASE c.op = "dma"
  <2>1. Fitting(at, c) \in Nat /\ Fitting(at, c) <= BufLen - at - 3 /\ BufLen \in Nat /\ at \in Nat
    BY <1>2, UploadShape, BufLenAssumption DEF Index
  <2>2. QED  BY <1>2, <2>1 DEF WordAt
<1>3. QED  BY <1>1, <1>2

(* The last word of a command.                                             *)
LEMMA LastWordIs ==
  ASSUME NEW c \in Cmds
  PROVE  /\ LastWord(c) \in Nat /\ Len0(c) \in 1 .. 4 /\ LastWord(c) >= Len0(c) - 1
         /\ c.op # "dma" => LastWord(c) = Len0(c) - 1
         /\ c.op = "dma" => Len0(c) = 3 /\ LastWord(c) = 2 + c.s * c.h /\ c.s * c.h \in Nat
<1>1. c.op \in Ops /\ c.s \in Nat /\ c.h \in Nat /\ c.s * c.h \in Nat
  BY CmdFields
<1>2. Len0(c) \in 1 .. 4
  BY <1>1 DEF Len0, Ops
<1>3. c.op = "dma" => Len0(c) = 3
  BY DEF Len0
<1>4. QED  BY <1>1, <1>2, <1>3 DEF LastWord

(* do_dma_write takes as many words as the upload has, its gap included.   *)
LEMMA DmaLenIs ==
  ASSUME NEW c \in Cmds, c.op = "dma", NEW at \in Index, at + 3 <= BufLen
  PROVE  DmaLen(at, c) = WordAt(at, c, LastWord(c)) + 1
<1> DEFINE left == BufLen - at - 3
           F == Fitting(at, c)
           q == left \div c.s
<1>1. /\ F \in Nat /\ F <= left /\ left < F + c.s /\ F = c.s * q /\ q \in Nat
      /\ left % c.s = left - F /\ left \in Nat /\ BufLen \in Nat /\ at \in Nat
  BY UploadShape, BufLenAssumption DEF Index
<1>2. c.s \in Nat \ {0} /\ c.h \in Nat /\ c.s * c.h \in Nat /\ LastWord(c) = 2 + c.s * c.h
  BY CmdFields, LastWordIs
<1>3. q < c.h <=> F < c.s * c.h
  <2>1. CASE q < c.h
    <3>1. c.s * q < c.s * c.h
      <4>1. c.s * (q + 1) <= c.s * c.h
        BY <1>1, <1>2, <2>1, SMTT(20)
      <4>2. c.s * (q + 1) = c.s * q + c.s
        BY <1>1, <1>2, SMTT(20)
      <4>3. QED  BY <1>1, <1>2, <4>1, <4>2
    <3>2. QED  BY <1>1, <2>1, <3>1
  <2>2. CASE q >= c.h
    <3>1. c.s * q >= c.s * c.h
      BY <1>1, <1>2, <2>2, SMTT(20)
    <3>2. QED  BY <1>1, <1>2, <2>2, <3>1
  <2>3. QED  BY <1>1, <1>2, <2>1, <2>2
<1>4. DmaLen(at, c) = 3 + c.s * c.h + (IF q < c.h THEN left - F ELSE 0)
  BY <1>1 DEF DmaLen
<1>5. \A k \in Nat : WordAt(at, c, k) = IF k >= 3 + F THEN BufLen - at + (k - 3 - F) ELSE k
  BY DEF WordAt
<1> HIDE DEF F, q
<1>6. LastWord(c) \in Nat
  BY <1>2
<1>7. WordAt(at, c, LastWord(c)) =
        IF LastWord(c) >= 3 + F THEN BufLen - at + (LastWord(c) - 3 - F) ELSE LastWord(c)
  BY <1>5, <1>6
<1>8. QED  BY <1>1, <1>2, <1>3, <1>4, <1>7

(* The words of a line up to its end lie next to each other.               *)
LEMMA SameLine ==
  ASSUME NEW c \in Cmds, c.op = "dma", NEW at \in Index, at + 3 <= BufLen,
         NEW k \in Nat, k >= 3, NEW j \in Nat, j <= c.s - 1 - ((k - 3) % c.s)
  PROVE  /\ WordAt(at, c, k + j) = WordAt(at, c, k) + j
         /\ k < 3 + Fitting(at, c) => k + j < 3 + Fitting(at, c)
         /\ \A l \in Nat : k < 3 + c.s * l => k + j < 3 + c.s * l
<1> DEFINE q == (k - 3) \div c.s
           r == (k - 3) % c.s
           F == Fitting(at, c)
<1>1. c.s \in Nat \ {0} /\ k - 3 \in Nat /\ k - 3 \in Int /\ c.s \in Nat
  BY CmdFields
<1>2. r \in 0 .. c.s - 1 /\ q \in Int /\ k - 3 = c.s * q + r
  BY <1>1, Euclid, Zenon
<1>3. q \in Nat
  <2> HIDE DEF q, r
  <2>1. CASE q < 0
    <3>1. c.s * (-q) >= c.s
      BY <1>1, <1>2, <2>1, SMTT(20)
    <3>2. c.s * q = -(c.s * (-q))
      BY <1>1, <1>2, SMTT(20)
    <3>3. c.s * (-q) \in Int
      BY <1>1, <1>2
    <3>4. QED  BY <1>1, <1>2, <3>1, <3>2, <3>3
  <2>2. QED  BY <1>2, <2>1
<1>4. ASSUME NEW l \in Nat, k < 3 + c.s * l  PROVE k + j < 3 + c.s * l
  <2> HIDE DEF q, r
  <2>1. c.s * q \in Nat /\ c.s * l \in Nat
    BY <1>1, <1>3
  <2>2. c.s * q < c.s * l
    BY <1>1, <1>2, <1>4, <2>1
  <2>3. c.s * q + c.s <= c.s * l
    BY <1>1, <1>3, <2>2, NextMultiple, Zenon
  <2>4. k + j <= 3 + c.s * q + c.s - 1
    BY <1>1, <1>2, <2>1 DEF r
  <2>5. QED  BY <1>1, <2>1, <2>3, <2>4
<1>5. k < 3 + F => k + j < 3 + F
  BY <1>4, UploadShape
<1>6. F \in Nat /\ BufLen \in Nat /\ at \in Nat
  BY UploadShape, BufLenAssumption DEF Index
<1>7. WordAt(at, c, k + j) = WordAt(at, c, k) + j
  BY <1>5, <1>6 DEF WordAt
<1>8. QED  BY <1>4, <1>5, <1>7

(* The window after p zeros and the words ws are put behind its first n,   *)
(* and after its first b words are used up.                                *)
Grown(w, n, p, ws) ==
  [d \in Index |-> IF n <= d /\ d < n + p THEN Pad
                   ELSE IF n + p <= d /\ d < n + p + Len(ws) THEN ws[d - n - p + 1]
                   ELSE w[d]]
Dropped(w, b) == [d \in Index |-> IF d + b < BufLen THEN w[d + b] ELSE Free]

(* A position that moves on by a few words is that much further from the   *)
(* one behind it, as long as the counters do not lap each other.           *)
LEMMA StepOn ==
  ASSUME NEW a \in Positions, NEW u \in Positions, NEW n \in 0 .. BufLen, Diff(a, u) + n < PosMod
  PROVE  Plus(a, n) \in Positions /\ Diff(Plus(a, n), u) = Diff(a, u) + n
<1>1. Plus(a, n) \in Positions
  BY PlusIs
<1>2. Diff(Plus(a, n), u) = Diff(a, u) + n
  BY DiffIs
<1>3. QED  BY <1>1, <1>2

(* Word d of the window, counted from the position that is n words on.     *)
LEMMA OffsetFrom ==
  ASSUME NEW u \in Positions, NEW pa \in Positions, Diff(pa, u) <= BufLen, NEW d \in Index
  PROVE  (BufLen + Place(u, d) - (pa % BufLen)) % BufLen =
           IF d < Diff(pa, u) THEN d - Diff(pa, u) + BufLen ELSE d - Diff(pa, u)
<1> DEFINE n == Diff(pa, u)
           e == IF d < n THEN d - n + BufLen ELSE d - n
<1>1. n \in 0 .. BufLen /\ pa = Plus(u, n) /\ u \in Nat /\ pa \in Nat /\ BufLen \in Nat /\ d \in 0 .. BufLen - 1
  BY DiffIs, BufLenAssumption DEF Positions, Index
<1> HIDE DEF n
<1>2. e \in Index
  BY <1>1 DEF Index
<1>3. Place(pa, e) = Place(u, d)
  <2>1. CASE d < n
    <3>1. n + e >= BufLen /\ n + e - BufLen = d
      BY <1>1, <2>1
    <3>2. Place(Plus(u, n), e) = Place(u, n + e - BufLen)
      BY <1>1, <1>2, <3>1, PlaceShift
    <3>3. QED  BY <1>1, <3>1, <3>2
  <2>2. CASE d >= n
    <3>1. n + e < BufLen /\ n + e = d
      BY <1>1, <2>2
    <3>2. Place(Plus(u, n), e) = Place(u, n + e)
      BY <1>1, <1>2, <3>1, PlaceShift
    <3>3. QED  BY <1>1, <3>1, <3>2
  <2>3. QED  BY <1>1, <2>1, <2>2
<1> HIDE DEF e
<1>4. Place(u, d) \in Index
  <2>1. d \in 0 .. BufLen
    BY <1>1
  <2>2. QED  BY <1>1, <2>1, PlaceIs, Zenon
<1>5. e = (BufLen + Place(u, d) - (pa % BufLen)) % BufLen
  BY <1>1, <1>2, <1>3, <1>4, PlaceInverse
<1>6. QED  BY <1>5 DEF e, n

(* What do_add_pos does to the window that begins at pos_used: zeros if    *)
(* the words do not fit before the end of the ring, and the words.         *)
LEMMA FilledWindow ==
  ASSUME NEW pa \in Positions, pos_used \in Positions, cells \in [Index -> Cells],
         NEW ws \in Seq(Cells), Diff(pa, pos_used) <= BufLen,
         cells' = Filled(pa, ws), pos_used' = pos_used
  PROVE  LET n == Diff(pa, pos_used)
             new == IF Fits(pa, Len(ws)) THEN ws ELSE <<>>
         IN  \E p \in 0 .. BufLen :
               /\ n + p + Len(new) <= BufLen
               /\ AddedPos(pa, Len(ws)) \in Positions
               /\ Diff(AddedPos(pa, Len(ws)), pos_used) = n + p + Len(new)
               /\ Window' = Grown(Window, n, p, new)
               /\ Fits(pa, Len(ws)) => Place(pos_used, n + p) + Len(ws) <= BufLen
               /\ Fits(pa, Len(ws)) <=> Len(ws) <= BufLen - n /\ Len(ws) + p <= BufLen - n
               /\ Len(ws) <= BufLen - n =>
                    p = IF BufLen - Place(pos_used, n) < Len(ws) THEN BufLen - Place(pos_used, n) ELSE 0
<1> DEFINE u == pos_used
           n == Diff(pa, u)
           m == Len(ws)
           fits == Fits(pa, m)
           new == IF fits THEN ws ELSE <<>>
           left == BufLen - Place(u, n)
           p == IF m <= BufLen - n THEN (IF left < m THEN left ELSE 0) ELSE 0
<1>1. /\ n \in 0 .. BufLen /\ pa % BufLen = Place(u, n) /\ u \in Positions /\ BufLen \in Nat /\ BufLen > 1
      /\ m \in Nat /\ u \in Nat /\ PosMod \in Nat /\ BufLen < PosMod
  BY DiffIs, BufLenAssumption, PosModAssumption DEF Positions
<1>2. Place(u, n) \in 0 .. BufLen - 1 /\ left \in 1 .. BufLen
  <2>1. Place(u, n) \in Index
    BY <1>1, PlaceIs, Zenon
  <2>2. QED  BY <1>1, <2>1 DEF Index
<1> HIDE DEF u, n, m
<1>3. Room(pa) = BufLen - n /\ PadFor(pa, m) = IF left < m THEN left ELSE 0
  BY <1>1 DEF Room, PadFor, u, n
<1>4. fits <=> m <= BufLen - n /\ m + p <= BufLen - n
  BY <1>1, <1>3 DEF Fits
<1>5. p \in 0 .. BufLen /\ p <= BufLen - n
  BY <1>1, <1>2
<1>6. AfterPad(pa, m) = Plus(pa, p)
  <2>1. CASE m <= BufLen - n
    BY <1>3, <2>1 DEF AfterPad
  <2>2. CASE m > BufLen - n
    <3>1. p = 0 /\ AfterPad(pa, m) = pa
      BY <1>1, <1>3, <2>2 DEF AfterPad
    <3>2. Plus(pa, 0) = pa
      BY <1>1, PlusIs, PosModAssumption DEF Positions
    <3>3. QED  BY <3>1, <3>2
  <2>3. QED  BY <1>1, <2>1, <2>2
<1> HIDE DEF fits, p, left
<1>7. Diff(AfterPad(pa, m), pa) = p
  <2>1. Diff(pa, pa) = 0
    BY DiffIs
  <2>2. Diff(Plus(pa, p), pa) = Diff(pa, pa) + p
    <3>1. Diff(pa, pa) + p < PosMod
      BY <1>1, <1>5, <2>1
    <3>2. QED  BY <1>5, <3>1, DiffIs, ZenonT(40)
  <2>3. QED  BY <1>5, <1>6, <2>1, <2>2
<1>8. new \in Seq(Cells) /\ Len(new) = (IF fits THEN m ELSE 0) /\ Len(new) \in 0 .. BufLen
  <2>1. Len(<<>>) = 0 /\ <<>> \in Seq(Cells)
    OBVIOUS
  <2>2. fits => m \in 0 .. BufLen
    BY <1>1, <1>4, <1>5
  <2>3. QED  BY <1>1, <2>1, <2>2 DEF m
<1>9. n + p + Len(new) <= BufLen
  <2> HIDE DEF new
  <2>1. CASE fits
    BY <1>1, <1>4, <1>5, <1>8, <2>1
  <2>2. CASE ~fits
    BY <1>1, <1>4, <1>5, <1>8, <2>2
  <2>3. QED  BY <2>1, <2>2
<1>10. AddedPos(pa, m) \in Positions /\ Diff(AddedPos(pa, m), u) = n + p + Len(new)
  <2>1. Plus(pa, p) \in Positions /\ Diff(Plus(pa, p), u) = n + p
    <3>1. Diff(pa, u) + p < PosMod /\ Diff(pa, u) = n
      BY <1>1, <1>5 DEF n
    <3>2. Plus(pa, p) \in Positions /\ Diff(Plus(pa, p), u) = Diff(pa, u) + p
      BY <1>1, <1>5, <3>1, StepOn, Zenon
    <3>3. QED  BY <3>1, <3>2
  <2>2. fits => Diff(Plus(Plus(pa, p), m), u) = n + p + m /\ Plus(Plus(pa, p), m) \in Positions
    <3>1. fits => m \in 0 .. BufLen /\ Diff(Plus(pa, p), u) + m < PosMod
      BY <1>1, <1>4, <1>5, <2>1
    <3>2. fits => /\ Plus(Plus(pa, p), m) \in Positions
                  /\ Diff(Plus(Plus(pa, p), m), u) = Diff(Plus(pa, p), u) + m
      BY <1>1, <2>1, <3>1, StepOn, Zenon
    <3>3. QED  BY <2>1, <3>2
  <2>3. AddedPos(pa, m) = IF fits THEN Plus(Plus(pa, p), m) ELSE Plus(pa, p)
    BY <1>6 DEF AddedPos, fits
  <2> HIDE DEF new
  <2>4. CASE fits
    BY <1>8, <2>2, <2>3, <2>4
  <2>5. CASE ~fits
    BY <1>1, <1>5, <1>8, <2>1, <2>3, <2>5
  <2>6. QED  BY <2>4, <2>5
<1>11. fits => Place(u, n + p) + m <= BufLen
  <2>1. ASSUME fits, left < m  PROVE Place(u, n + p) + m <= BufLen
    <3>1. p = left /\ n + left <= BufLen /\ m <= BufLen
      BY <1>1, <1>4, <1>5, <2>1 DEF p
    <3>2. Place(u, n) = IF (u % BufLen) + n >= BufLen THEN (u % BufLen) + n - BufLen ELSE (u % BufLen) + n
      BY <1>1, PlaceIs
    <3>3. n + left \in 0 .. BufLen
      BY <1>1, <1>2, <3>1
    <3>4. Place(u, n + left) = IF (u % BufLen) + (n + left) >= BufLen THEN (u % BufLen) + (n + left) - BufLen
                                                                 ELSE (u % BufLen) + (n + left)
      BY <1>1, <3>3, PlaceIs
    <3>5. u % BufLen \in 0 .. BufLen - 1
      BY <1>1, PlaceIs DEF Index
    <3>6. Place(u, n + left) = 0
      BY <1>1, <1>2, <3>1, <3>2, <3>3, <3>4, <3>5, SMTT(40) DEF left
    <3>7. QED  BY <1>1, <3>1, <3>6
  <2>2. ASSUME fits, ~(left < m)  PROVE Place(u, n + p) + m <= BufLen
    <3>1. p = 0
      BY <2>2 DEF p
    <3>2. QED  BY <1>1, <1>2, <2>2, <3>1 DEF left
  <2>3. QED  BY <2>1, <2>2
<1>12. Window' = Grown(Window, n, p, new)
  <2> DEFINE off(i) == (BufLen + i - (pa % BufLen)) % BufLen
             written == IF fits THEN m ELSE 0
             at(d) == IF off(Place(u, d)) < p THEN Pad
                      ELSE IF off(Place(u, d)) < p + written THEN ws[off(Place(u, d)) - p + 1]
                      ELSE cells[Place(u, d)]
  <2>1. Filled(pa, ws) = [i \in Index |-> IF off(i) < p THEN Pad
                                        ELSE IF off(i) < p + written THEN ws[off(i) - p + 1]
                                        ELSE cells[i]]
    BY <1>7 DEF Filled, m, fits
  <2> HIDE DEF off, written
  <2>2. Window' = [d \in Index |-> at(d)]
    <3>1. Window' = [d \in Index |-> cells'[Place(u, d)]]
      BY DEF Window, u
    <3>2. \A d \in Index : Place(u, d) \in Index
      <4>1. \A d \in Index : d \in 0 .. BufLen
        BY <1>1 DEF Index
      <4>2. QED  BY <1>1, <4>1, PlaceIs, Zenon
    <3>3. QED  BY <2>1, <3>1, <3>2
  <2>3. ASSUME NEW d \in Index
        PROVE  at(d) = IF n <= d /\ d < n + p THEN Pad
                       ELSE IF n + p <= d /\ d < n + p + Len(new) THEN new[d - n - p + 1]
                       ELSE Window[d]
    <3>1. off(Place(u, d)) = IF d < n THEN d - n + BufLen ELSE d - n
      BY <1>1, OffsetFrom DEF off, n
    <3>2. d \in 0 .. BufLen - 1 /\ Window[d] = cells[Place(u, d)]
      BY DEF Index, Window, u
    <3>3. Len(new) = written /\ (fits => new = ws)
      BY <1>8 DEF written
    <3> HIDE DEF new
    <3>4. CASE d < n
      BY <1>1, <1>5, <1>8, <1>9, <3>1, <3>2, <3>3, <3>4, SMTT(40)
    <3>5. CASE n <= d /\ d < n + p
      BY <1>1, <1>5, <3>1, <3>2, <3>5
    <3>6. CASE n + p <= d /\ d < n + p + Len(new)
      <4>1. fits /\ new = ws
        BY <1>1, <1>5, <1>8, <3>2, <3>3, <3>6 DEF written
      <4>2. off(Place(u, d)) = d - n /\ ~(d - n < p) /\ d - n < p + written /\ d - n - p + 1 = (d - n) - p + 1
        BY <1>1, <1>5, <1>8, <3>1, <3>2, <3>3, <3>6
      <4>3. QED  BY <1>1, <1>5, <3>2, <3>6, <4>1, <4>2
    <3>7. CASE n + p + Len(new) <= d
      BY <1>1, <1>5, <1>8, <3>1, <3>2, <3>3, <3>7, SMTT(40)
    <3>8. QED  BY <1>1, <1>5, <1>8, <3>2, <3>4, <3>5, <3>6, <3>7
  <2> HIDE DEF at, new
  <2>4. QED  BY <2>2, <2>3 DEF Grown
<1>13. QED  BY <1>4, <1>5, <1>9, <1>10, <1>11, <1>12 DEF u, n, m, fits, p, left

(* The place of a word of the window a few words after another.            *)
LEMMA PlaceNear ==
  ASSUME NEW u \in Nat, NEW h \in Nat, NEW e \in Nat, h + e <= BufLen
  PROVE  /\ Place(u, h) \in Index
         /\ Place(u, h + e) = IF Place(u, h) + e >= BufLen THEN Place(u, h) + e - BufLen
                                                          ELSE Place(u, h) + e
<1>1. h \in 0 .. BufLen /\ h + e \in 0 .. BufLen /\ BufLen \in Nat /\ BufLen > 1
  BY BufLenAssumption
<1>2. /\ u % BufLen \in Index /\ Place(u, h) \in Index
      /\ Place(u, h) = IF (u % BufLen) + h >= BufLen THEN (u % BufLen) + h - BufLen ELSE (u % BufLen) + h
  BY <1>1, PlaceIs, Zenon
<1>3. Place(u, h + e) = IF (u % BufLen) + (h + e) >= BufLen THEN (u % BufLen) + (h + e) - BufLen
                                                          ELSE (u % BufLen) + (h + e)
  BY <1>1, PlaceIs, Zenon
<1>4. QED  BY <1>1, <1>2, <1>3 DEF Index

(* What a formed window says of a command that begins in it.               *)
LEMMA CommandShape ==
  ASSUME NEW w \in [Index -> Cells], NEW u \in Nat, NEW n \in 0 .. BufLen, NEW o, NEW m,
         Formed(w, u, n, o, m), NEW h \in 0 .. n - 1, Begins(w, h)
  PROVE  /\ w[h] \in Cells /\ w[h].c \in Cmds /\ w[h].c.op # "free" /\ h \in Index /\ Place(u, h) \in Index
         /\ Place(u, h) + Len0(w[h].c) <= BufLen
         /\ w[h].c.op = "dma" => Place(u, h) + 3 <= BufLen
         /\ InCmd(w, u, h, 0) = h
         /\ \A k \in Nat : InCmd(w, u, h, k) \in Nat /\ InCmd(w, u, h, k) >= h + k
         /\ \A k \in Nat : w[h].c.op # "dma" \/ k < 3 => InCmd(w, u, h, k) = h + k
         /\ \A j, k \in Nat : j < k => InCmd(w, u, h, j) < InCmd(w, u, h, k)
<1>1. h \in Index /\ BufLen \in Nat /\ h \in Nat
  BY BufLenAssumption DEF Index
<1>2. w[h] \in Cells /\ w[h].c \in Cmds
  BY <1>1, CmdFields
<1>3. h \in 0 .. BufLen
  BY <1>1
<1>4. Place(u, h) \in Index
  BY <1>3, PlaceIs, Zenon
<1>5. Place(u, h) + Len0(w[h].c) <= BufLen /\ w[h].c.op # "free"
  BY <1>1 DEF Formed, CommandIn, WordIn
<1>6. w[h].c.op = "dma" => Place(u, h) + 3 <= BufLen
  BY <1>2, <1>5, LastWordIs
<1>7. /\ WordAt(Place(u, h), w[h].c, 0) = 0
      /\ \A k \in Nat : WordAt(Place(u, h), w[h].c, k) \in Nat /\ WordAt(Place(u, h), w[h].c, k) >= k
      /\ \A k \in Nat : w[h].c.op # "dma" \/ k < 3 => WordAt(Place(u, h), w[h].c, k) = k
      /\ \A j, k \in Nat : j < k => WordAt(Place(u, h), w[h].c, j) < WordAt(Place(u, h), w[h].c, k)
  BY <1>2, <1>4, <1>6, WordOrder
<1>8. QED  BY <1>1, <1>2, <1>4, <1>5, <1>6, <1>7 DEF InCmd

(* The zeros in the middle of an upload are among the words in use.        *)
LEMMA GapInside ==
  ASSUME NEW w \in [Index -> Cells], NEW u \in Nat, NEW n \in 0 .. BufLen, NEW o, NEW m,
         Formed(w, u, n, o, m), NEW h \in 0 .. n - 1, Begins(w, h), w[h].c.op = "dma",
         LastIn(w, h, o, m) \in Nat,
         LastIn(w, h, o, m) >= 3 + Fitting(Place(u, h), w[h].c)
  PROVE  /\ h + BufLen - Place(u, h) < n /\ Fitting(Place(u, h), w[h].c) \in Nat
         /\ \A d \in h + 3 + Fitting(Place(u, h), w[h].c) .. h + BufLen - Place(u, h) - 1 :
              d \in 0 .. n - 1 /\ w[d] = Pad
<1> DEFINE F == Fitting(Place(u, h), w[h].c)
<1>1. /\ w[h].c \in Cmds /\ Place(u, h) \in Index /\ Place(u, h) + 3 <= BufLen /\ h \in Nat
      /\ BufLen \in Nat
  BY CommandShape, BufLenAssumption
<1>2. F \in Nat
  BY <1>1, UploadShape
<1>3. InCmd(w, u, h, 3 + F) < n
  <2> HIDE DEF F
  <2>1. 3 + F \in 0 .. LastIn(w, h, o, m)
    BY <1>2 DEF F
  <2>2. QED  BY <2>1 DEF Formed, CommandIn, WordIn
<1>4. InCmd(w, u, h, 3 + F) = h + (BufLen - Place(u, h) + (3 + F - 3 - F))
  <2>1. InCmd(w, u, h, 3 + F) = h + WordAt(Place(u, h), w[h].c, 3 + F)
    BY DEF InCmd
  <2>2. \A k : w[h].c.op = "dma" /\ k >= 3 + F =>
                 WordAt(Place(u, h), w[h].c, k) = BufLen - Place(u, h) + (k - 3 - F)
    BY DEF WordAt
  <2> HIDE DEF F
  <2>3. 3 + F >= 3 + F
    BY <1>2
  <2>4. QED  BY <1>2, <2>1, <2>2, <2>3
<1>5. h + BufLen - Place(u, h) < n
  <2> HIDE DEF F
  <2>1. QED  BY <1>1, <1>2, <1>3, <1>4 DEF Index
<1>6. \A d \in h + 3 + F .. h + BufLen - Place(u, h) - 1 : w[d] = Pad
  BY DEF Formed, CommandIn, WordIn
<1> HIDE DEF F
<1>7. \A d \in h + 3 + F .. h + BufLen - Place(u, h) - 1 : d \in 0 .. n - 1
  BY <1>1, <1>2, <1>5, SMTT(40) DEF Index
<1>8. QED  BY <1>2, <1>5, <1>6, <1>7 DEF F

(* Which upload is open matters only for what is known of it.              *)
LEMMA FormedOpen ==
  ASSUME NEW w \in [Index -> Cells], NEW u \in Nat, NEW n \in 0 .. BufLen, NEW o, NEW m, NEW o2, NEW m2,
         Formed(w, u, n, o, m),
         \A h \in 0 .. n - 1 : Begins(w, h) => LastIn(w, h, o, m) = LastIn(w, h, o2, m2)
  PROVE  Formed(w, u, n, o2, m2)
<1>1. ASSUME NEW h \in 0 .. n - 1, Begins(w, h)
      PROVE  CommandIn(w, u, n, h, LastIn(w, h, o2, m2))
  <2>1. LastIn(w, h, o2, m2) = LastIn(w, h, o, m)
    BY <1>1
  <2>2. QED  BY <1>1, <2>1 DEF Formed
<1>2. ASSUME NEW d \in 0 .. n - 1, w[d].k > 0
      PROVE  WordIn(w, u, d, o2, m2)
  <2>1. PICK h \in 0 .. d - 1 : /\ Begins(w, h) /\ w[h] = Word(w[d], 0)
                                /\ d = InCmd(w, u, h, w[d].k) /\ w[d].k <= LastIn(w, h, o, m)
    BY <1>2 DEF Formed, CommandIn, WordIn
  <2>2. h \in 0 .. n - 1
    OBVIOUS
  <2>3. QED  BY <2>1, <2>2 DEF WordIn
<1>3. \A d \in Index : w[d].c.op = "free" <=> d >= n
  BY DEF Formed
<1>4. QED  BY <1>1, <1>2, <1>3 DEF Formed

(* All the words in use end with a command when no upload is open.         *)
LEMMA FormedEnds ==
  ASSUME NEW w \in [Index -> Cells], NEW u \in Nat, NEW n \in 0 .. BufLen, NEW o, NEW m,
         Formed(w, u, n, o, m),
         \A h \in 0 .. n - 1 : Begins(w, h) => LastIn(w, h, o, m) = LastWord(w[h].c)
  PROVE  EndsAt(w, u, n)
<1> SUFFICES ASSUME NEW h \in 0 .. n - 1, Begins(w, h)
             PROVE  InCmd(w, u, h, LastWord(w[h].c)) < n
  BY DEF EndsAt
<1>1. LastWord(w[h].c) \in Nat
  BY CommandShape, LastWordIs
<1>2. LastWord(w[h].c) \in 0 .. LastIn(w, h, o, m)
  BY <1>1
<1>3. QED  BY <1>2 DEF Formed, CommandIn, WordIn

(* A grown window, word by word.                                           *)
LEMMA GrownDef ==
  ASSUME NEW w, NEW n, NEW p, NEW ws, NEW d \in Index
  PROVE  /\ n <= d /\ d < n + p => Grown(w, n, p, ws)[d] = Pad
         /\ ~(n <= d /\ d < n + p) /\ n + p <= d /\ d < n + p + Len(ws) =>
              Grown(w, n, p, ws)[d] = ws[d - n - p + 1]
         /\ ~(n <= d /\ d < n + p) /\ ~(n + p <= d /\ d < n + p + Len(ws)) =>
              Grown(w, n, p, ws)[d] = w[d]
BY DEF Grown

(* Adding words keeps those that are there,                                *)
LEMMA GrownBelow ==
  ASSUME NEW w \in [Index -> Cells], NEW n \in Nat, NEW p \in Nat, NEW ws \in Seq(Cells),
         n + p + Len(ws) <= BufLen
  PROVE  \A d \in 0 .. n - 1 : Grown(w, n, p, ws)[d] = w[d]
<1> SUFFICES ASSUME NEW d \in 0 .. n - 1  PROVE Grown(w, n, p, ws)[d] = w[d]
  OBVIOUS
<1>1. Len(ws) \in Nat /\ BufLen \in Nat
  BY BufLenAssumption
<1>2. d \in Index /\ ~(n <= d /\ d < n + p) /\ ~(n + p <= d /\ d < n + p + Len(ws))
  BY <1>1 DEF Index
<1>3. QED  BY <1>2, GrownDef, Zenon

(* puts zeros up to the end of the ring where the words did not fit before *)
(* it,                                                                     *)
LEMMA GrownPads ==
  ASSUME NEW w \in [Index -> Cells], NEW n \in Nat, NEW p \in Nat, NEW ws \in Seq(Cells),
         n + p + Len(ws) <= BufLen
  PROVE  \A d \in n .. n + p - 1 : Grown(w, n, p, ws)[d] = Pad /\ Grown(w, n, p, ws)[d].k = 0
<1> SUFFICES ASSUME NEW d \in n .. n + p - 1
             PROVE  Grown(w, n, p, ws)[d] = Pad /\ Grown(w, n, p, ws)[d].k = 0
  OBVIOUS
<1>1. Len(ws) \in Nat /\ BufLen \in Nat
  BY BufLenAssumption
<1>2. d \in Index /\ n <= d /\ d < n + p
  BY <1>1 DEF Index
<1>3. Grown(w, n, p, ws)[d] = Pad
  BY <1>2, GrownDef, Zenon
<1>4. QED  BY <1>3 DEF Pad, Cell

(* and then the words, by their places in the window,                      *)
LEMMA GrownFrom ==
  ASSUME NEW w \in [Index -> Cells], NEW n \in Nat, NEW p \in Nat, NEW ws \in Seq(Cells),
         n + p + Len(ws) <= BufLen
  PROVE  \A d \in n + p .. (n + p + Len(ws)) - 1 :
           d - n - p + 1 \in 1 .. Len(ws) /\ Grown(w, n, p, ws)[d] = ws[d - n - p + 1]
<1> SUFFICES ASSUME NEW d \in n + p .. (n + p + Len(ws)) - 1
             PROVE  d - n - p + 1 \in 1 .. Len(ws) /\ Grown(w, n, p, ws)[d] = ws[d - n - p + 1]
  OBVIOUS
<1>1. Len(ws) \in Nat /\ BufLen \in Nat
  BY BufLenAssumption
<1>2. d \in Index /\ ~(n <= d /\ d < n + p) /\ n + p <= d /\ d < n + p + Len(ws)
  BY <1>1 DEF Index
<1>3. Grown(w, n, p, ws)[d] = ws[d - n - p + 1]
  BY <1>2, GrownDef, SMT
<1>4. QED  BY <1>1, <1>3

(* or by their places in the sequence added;                               *)
LEMMA GrownWords ==
  ASSUME NEW w \in [Index -> Cells], NEW n \in Nat, NEW p \in Nat, NEW ws \in Seq(Cells),
         n + p + Len(ws) <= BufLen
  PROVE  \A i \in 1 .. Len(ws) : Grown(w, n, p, ws)[n + p + i - 1] = ws[i] /\ ws[i] \in Cells
<1> SUFFICES ASSUME NEW i \in 1 .. Len(ws)
             PROVE  Grown(w, n, p, ws)[n + p + i - 1] = ws[i] /\ ws[i] \in Cells
  OBVIOUS
<1>1. Len(ws) \in Nat /\ ws[i] \in Cells
  OBVIOUS
<1>2. n + p + i - 1 \in n + p .. (n + p + Len(ws)) - 1 /\ (n + p + i - 1) - n - p + 1 = i
  BY <1>1
<1>3. Grown(w, n, p, ws)[n + p + i - 1] = ws[(n + p + i - 1) - n - p + 1]
  BY <1>2, GrownFrom, Zenon
<1>4. QED  BY <1>1, <1>2, <1>3

(* what is free beyond them stays as it was,                               *)
LEMMA GrownAbove ==
  ASSUME NEW w \in [Index -> Cells], NEW n \in Nat, NEW p \in Nat, NEW ws \in Seq(Cells),
         n + p + Len(ws) <= BufLen
  PROVE  \A d \in Index : d >= n + p + Len(ws) => Grown(w, n, p, ws)[d] = w[d]
<1> SUFFICES ASSUME NEW d \in Index, d >= n + p + Len(ws)  PROVE Grown(w, n, p, ws)[d] = w[d]
  OBVIOUS
<1>1. Len(ws) \in Nat /\ BufLen \in Nat
  BY BufLenAssumption
<1>2. ~(n <= d /\ d < n + p) /\ ~(n + p <= d /\ d < n + p + Len(ws))
  BY <1>1 DEF Index
<1>3. QED  BY <1>2, GrownDef, ZenonT(40)

(* and the window is one of ring words still.                              *)
LEMMA GrownType ==
  ASSUME NEW w \in [Index -> Cells], NEW n \in Nat, NEW p \in Nat, NEW ws \in Seq(Cells),
         n + p + Len(ws) <= BufLen
  PROVE  Grown(w, n, p, ws) \in [Index -> Cells]
<1>1. ASSUME NEW d \in Index
      PROVE  (IF n <= d /\ d < n + p THEN Pad
              ELSE IF n + p <= d /\ d < n + p + Len(ws) THEN ws[d - n - p + 1]
              ELSE w[d]) \in Cells
  <2>1. Len(ws) \in Nat /\ (\A i \in 1 .. Len(ws) : ws[i] \in Cells) /\ BufLen \in Nat /\ Pad \in Cells
    BY BufLenAssumption, ConstantTypes
  <2>2. n + p <= d /\ d < n + p + Len(ws) => d - n - p + 1 \in 1 .. Len(ws)
    BY <2>1 DEF Index
  <2>3. QED  BY <2>1, <2>2
<1>2. QED  BY <1>1 DEF Grown

(* What was in the window before stays as it was.                          *)
LEMMA GrownOld ==
  ASSUME NEW w \in [Index -> Cells], NEW u \in Nat, NEW n \in Nat, NEW p \in Nat, NEW ws \in Seq(Cells),
         n + p + Len(ws) <= BufLen, NEW o, NEW m, Formed(w, u, n, o, m),
         NEW h \in 0 .. n - 1, Begins(w, h), NEW last \in Nat, last = LastIn(w, h, o, m)
  PROVE  CommandIn(Grown(w, n, p, ws), u, n + p + Len(ws), h, last)
<1> DEFINE g == Grown(w, n, p, ws)
           N == n + p + Len(ws)
<1>1. Len(ws) \in Nat /\ BufLen \in Nat /\ n \in 0 .. BufLen /\ N \in Nat /\ n <= N
  BY BufLenAssumption
<1>2. (\A d \in 0 .. n - 1 : g[d] = w[d]) /\ g[h] = w[h]
  BY GrownBelow, ZenonT(40)
<1> HIDE DEF g
<1>3. CommandIn(w, u, n, h, last)
  BY DEF Formed
<1>4. Place(u, h) + Len0(g[h].c) <= BufLen
  BY <1>2, <1>3 DEF CommandIn
<1>6. ASSUME NEW k \in 0 .. last
      PROVE  InCmd(g, u, h, k) < N /\ g[InCmd(g, u, h, k)] = Word(g[h], k)
  <2>2. InCmd(w, u, h, k) < n /\ w[InCmd(w, u, h, k)] = Word(w[h], k)
    BY <1>3 DEF CommandIn
  <2>3. InCmd(w, u, h, k) \in Nat
    BY <1>1, CommandShape
  <2>4. InCmd(g, u, h, k) = InCmd(w, u, h, k)
    BY <1>2 DEF InCmd
  <2>5. g[InCmd(w, u, h, k)] = w[InCmd(w, u, h, k)] /\ InCmd(w, u, h, k) < N
    BY <1>1, <1>2, <2>2, <2>3
  <2>6. QED  BY <1>2, <2>2, <2>4, <2>5
<1>7. ASSUME g[h].c.op = "dma", last >= 3 + Fitting(Place(u, h), g[h].c),
             NEW d \in h + 3 + Fitting(Place(u, h), g[h].c) .. h + BufLen - Place(u, h) - 1
      PROVE  g[d] = Pad
  <2>1. d \in 0 .. n - 1 /\ w[d] = Pad
    BY <1>1, <1>2, <1>7, GapInside, SMTT(40)
  <2>2. QED  BY <1>2, <2>1
<1>8. QED  BY <1>4, <1>6, <1>7 DEF CommandIn, g

(* A word that was inside a command stays inside it when words are added.  *)
LEMMA GrownOldWord ==
  ASSUME NEW w \in [Index -> Cells], NEW u \in Nat, NEW n \in Nat, NEW p \in Nat, NEW ws \in Seq(Cells),
         n + p + Len(ws) <= BufLen, NEW o, NEW m, NEW o2, NEW m2, Formed(w, u, n, o, m),
         \A h \in 0 .. n - 1 : Begins(w, h) =>
           \A k \in Nat : k <= LastIn(w, h, o, m) => k <= LastIn(w, h, o2, m2),
         NEW d \in 0 .. n - 1, w[d].k > 0
  PROVE  WordIn(Grown(w, n, p, ws), u, d, o2, m2)
<1> DEFINE g == Grown(w, n, p, ws)
<1>1. \A e \in 0 .. n - 1 : g[e] = w[e]
  BY GrownBelow, Zenon
<1>2. g[d] = w[d] /\ d \in Index /\ w[d].k \in Nat
  <2>1. Len(ws) \in Nat /\ d \in Index
    BY BufLenAssumption DEF Index
  <2>2. QED  BY <1>1, <2>1, CmdFields
<1> HIDE DEF g
<1>3. PICK h \in 0 .. d - 1 : /\ Begins(w, h) /\ w[h] = Word(w[d], 0)
                              /\ d = InCmd(w, u, h, w[d].k) /\ w[d].k <= LastIn(w, h, o, m)
  BY DEF Formed, WordIn
<1>4. g[h] = w[h] /\ h \in 0 .. n - 1
  BY <1>1
<1>5. Begins(g, h) /\ LastIn(g, h, o2, m2) = LastIn(w, h, o2, m2) /\ InCmd(g, u, h, w[d].k) = InCmd(w, u, h, w[d].k)
  BY <1>3, <1>4 DEF Begins, LastIn, InCmd
<1>6. w[d].k <= LastIn(w, h, o2, m2)
  BY <1>2, <1>3, <1>4
<1>7. QED  BY <1>2, <1>3, <1>4, <1>5, <1>6 DEF g, WordIn

(* The free words are those behind the words in use.                       *)
LEMMA GrownFree ==
  ASSUME NEW w \in [Index -> Cells], NEW u \in Nat, NEW n \in Nat, NEW p \in Nat, NEW ws \in Seq(Cells),
         n + p + Len(ws) <= BufLen, NEW o, NEW m, Formed(w, u, n, o, m),
         \A i \in 1 .. Len(ws) : ws[i].c.op # "free"
  PROVE  \A d \in Index : Grown(w, n, p, ws)[d].c.op = "free" <=> d >= n + p + Len(ws)
<1> DEFINE g == Grown(w, n, p, ws)
           N == n + p + Len(ws)
<1> SUFFICES ASSUME NEW d \in Index  PROVE g[d].c.op = "free" <=> d >= N
  OBVIOUS
<1>1. Len(ws) \in Nat /\ BufLen \in Nat /\ d \in Nat /\ n <= N /\ N \in Nat
  BY BufLenAssumption DEF Index
<1>2. w[d].c.op = "free" <=> d >= n
  BY DEF Formed
<1>4. CASE d < n
  <2>1. d \in 0 .. n - 1
    BY <1>1, <1>4
  <2>2. g[d] = w[d]
    BY <2>1, GrownBelow, ZenonT(40)
  <2> HIDE DEF g, N
  <2>3. ~(d >= n) /\ ~(d >= N)
    BY <1>1, <1>4
  <2>4. QED  BY <1>2, <2>2, <2>3
<1>5. CASE n <= d /\ d < n + p
  <2>1. d \in n .. n + p - 1
    BY <1>1, <1>5
  <2>2. g[d] = Pad
    BY <2>1, GrownPads, Zenon
  <2>3. ~(d >= N)
    BY <1>1, <1>5
  <2> HIDE DEF g, N
  <2>4. QED  BY <2>2, <2>3 DEF Pad, Cell, Cmd
<1>6. CASE n + p <= d /\ d < N
  <2>1. d \in n + p .. N - 1
    BY <1>1, <1>6
  <2>2. d - n - p + 1 \in 1 .. Len(ws) /\ g[d] = ws[d - n - p + 1]
    BY <2>1, GrownFrom
  <2>3. ~(d >= N)
    BY <1>1, <1>6
  <2> HIDE DEF g, N
  <2>4. QED  BY <2>2, <2>3
<1>7. CASE N <= d
  <2>1. d >= N /\ d >= n
    BY <1>1, <1>7
  <2>2. g[d] = w[d]
    BY <2>1, GrownAbove, ZenonT(40)
  <2> HIDE DEF g, N
  <2>3. QED  BY <1>2, <2>1, <2>2
<1>8. QED  BY <1>1, <1>4, <1>5, <1>6, <1>7 DEF N

(* Whole commands put behind whole commands.                               *)
LEMMA GrowWhole ==
  ASSUME NEW w \in [Index -> Cells], NEW u \in Nat, NEW n \in Nat, NEW p \in Nat, NEW ws \in Seq(Cells),
         n + p + Len(ws) <= BufLen, Place(u, n + p) + Len(ws) <= BufLen, Whole(ws),
         NEW m, Formed(w, u, n, n, m)
  PROVE  Formed(Grown(w, n, p, ws), u, n + p + Len(ws), n + p + Len(ws), 0)
<1> DEFINE g == Grown(w, n, p, ws)
           N == n + p + Len(ws)
<1>1. Len(ws) \in Nat /\ BufLen \in Nat /\ n <= N /\ N \in Nat /\ N <= BufLen
  BY BufLenAssumption
<1>2. /\ g \in [Index -> Cells]
      /\ \A d \in 0 .. n - 1 : g[d] = w[d]
      /\ \A d \in n .. n + p - 1 : g[d] = Pad /\ g[d].k = 0
      /\ \A i \in 1 .. Len(ws) : g[n + p + i - 1] = ws[i]
      /\ \A d \in n + p .. N - 1 : d - n - p + 1 \in 1 .. Len(ws) /\ g[d] = ws[d - n - p + 1]
  <2>1. g \in [Index -> Cells]
    BY GrownType, Zenon
  <2>2. \A d \in 0 .. n - 1 : g[d] = w[d]
    BY GrownBelow, Zenon
  <2>3. \A d \in n .. n + p - 1 : g[d] = Pad /\ g[d].k = 0
    BY GrownPads, Zenon
  <2>4. \A i \in 1 .. Len(ws) : g[n + p + i - 1] = ws[i]
    BY GrownWords, Zenon
  <2>5. \A d \in n + p .. N - 1 : d - n - p + 1 \in 1 .. Len(ws) /\ g[d] = ws[d - n - p + 1]
    BY GrownFrom, Zenon
  <2>6. QED  BY <2>1, <2>2, <2>3, <2>4, <2>5, Zenon
<1>10. \A i \in 1 .. Len(ws) : ws[i] \in Cells
  OBVIOUS
<1>11. n + p \in Nat /\ Place(u, n + p) \in 0 .. BufLen - 1
  <2>1. n + p \in Nat /\ 0 \in Nat /\ n + p + 0 <= BufLen
    BY <1>1
  <2>2. Place(u, n + p) \in Index
    BY <2>1, PlaceNear, Zenon
  <2>3. QED  BY <2>1, <2>2 DEF Index
<1>3. \A i \in 1 .. Len(ws) :
        /\ ws[i].c.op \notin {"dma", "free"} /\ ws[i].k <= LastWord(ws[i].c) /\ ws[i].k < i
        /\ i + LastWord(ws[i].c) - ws[i].k <= Len(ws)
        /\ \A k \in 0 .. LastWord(ws[i].c) : ws[i - ws[i].k + k] = Word(ws[i], k)
  BY DEF Whole
<1>4. \A d \in Index : g[d].c.op = "free" <=> d >= N
  BY <1>3, GrownFree
<1>5. \A h \in 0 .. n - 1 : LastIn(w, h, n, m) = LastWord(w[h].c) /\ LastIn(w, h, N, 0) = LastWord(w[h].c)
  BY <1>1 DEF LastIn
<1>6. \A h \in 0 .. N - 1 : LastIn(g, h, N, 0) = LastWord(g[h].c)
  BY <1>1 DEF LastIn
<1>7. ASSUME NEW h \in 0 .. N - 1, Begins(g, h)
      PROVE  CommandIn(g, u, N, h, LastIn(g, h, N, 0))
  <2>1. CASE h < n
    <3>1. h \in 0 .. n - 1 /\ w[h] \in Cells /\ w[h].c \in Cmds
      <4>1. h \in 0 .. n - 1 /\ h \in Index
        BY <1>1, <2>1 DEF Index
      <4>2. QED  BY <4>1, CmdFields
    <3>2. LastWord(w[h].c) \in Nat /\ LastWord(w[h].c) = LastIn(w, h, n, m)
      BY <1>5, <3>1, LastWordIs
    <3>3. g[h] = w[h]
      BY <1>2, <3>1
    <3> HIDE DEF g, N
    <3>4. Begins(w, h) /\ LastIn(g, h, N, 0) = LastWord(w[h].c)
      BY <1>6, <1>7, <3>3 DEF Begins
    <3>5. CommandIn(g, u, N, h, LastWord(w[h].c))
      BY <3>1, <3>2, <3>4, GrownOld, Zenon DEF g, N
    <3>6. QED  BY <3>4, <3>5
  <2>2. CASE n + p <= h
    <3> DEFINE i == h - n - p + 1
    <3>1. i \in 1 .. Len(ws) /\ g[h] = ws[i] /\ h = n + p + i - 1
      BY <1>1, <1>2, <2>2, SMTT(40)
    <3> HIDE DEF g, i
    <3>2. g[h].k = 0 /\ g[h].c \in Cmds /\ g[h].c.op # "dma"
      BY <1>3, <1>7, <1>10, <3>1, CmdFields DEF Begins
    <3>3. LastWord(g[h].c) \in Nat /\ Len0(g[h].c) = LastWord(g[h].c) + 1
      BY <3>2, LastWordIs, SMTT(40)
    <3>4. i + LastWord(g[h].c) <= Len(ws) /\ \A k \in 0 .. LastWord(g[h].c) : ws[i + k] = Word(g[h], k)
      <4>1. i \in Int /\ i - 0 = i
        BY <3>1
      <4>2. i + LastWord(g[h].c) - 0 = i + LastWord(g[h].c)
        BY <3>3, <4>1
      <4>3. QED  BY <1>3, <3>1, <3>2, <4>1, <4>2
    <3>5. Place(u, h) = Place(u, n + p) + i - 1
      <4>1. n + p \in Nat /\ i - 1 \in Nat /\ (n + p) + (i - 1) <= BufLen /\ h = (n + p) + (i - 1)
        BY <1>1, <3>1, SMTT(40)
      <4>2. ~(Place(u, n + p) + (i - 1) >= BufLen)
        <5> DEFINE q == Place(u, n + p)
        <5>1. q \in Nat /\ q + Len(ws) <= BufLen /\ i - 1 < Len(ws) /\ i \in Nat
          BY <1>11, <3>1
        <5> HIDE DEF q
        <5>2. ~(q + (i - 1) >= BufLen)
          BY <1>1, <5>1
        <5>3. QED  BY <5>2 DEF q
      <4>3. Place(u, (n + p) + (i - 1)) = Place(u, n + p) + (i - 1)
        BY <4>1, <4>2, PlaceNear, Zenon
      <4>4. QED  BY <1>11, <3>1, <4>1, <4>3
    <3>6. Place(u, n + p) \in Nat
      BY <1>11
    <3>7. \A k : InCmd(g, u, h, k) = h + k
      BY <3>2 DEF InCmd, WordAt
    <3>8. ASSUME NEW k \in 0 .. LastWord(g[h].c)
          PROVE  InCmd(g, u, h, k) < N /\ g[InCmd(g, u, h, k)] = Word(g[h], k)
      <4>1. i + k \in 1 .. Len(ws) /\ h + k = n + p + (i + k) - 1 /\ h + k < N
        BY <1>1, <3>1, <3>3, <3>4
      <4>2. g[h + k] = ws[i + k]
        BY <1>2, <4>1
      <4>3. QED  BY <3>4, <3>7, <4>1, <4>2
    <3>9. Place(u, h) + Len0(g[h].c) <= BufLen
      BY <1>1, <3>1, <3>3, <3>4, <3>5, <3>6
    <3>10. QED  BY <1>6, <3>2, <3>8, <3>9 DEF CommandIn
  <2>3. CASE n <= h /\ h < n + p
    <3>1. h \in n .. n + p - 1
      BY <2>3
    <3>2. g[h] = Pad
      BY <1>2, <3>1
    <3>3. QED  BY <1>7, <3>2 DEF Begins
  <2>4. QED  BY <1>1, <2>1, <2>2, <2>3
<1>8. ASSUME NEW d \in 0 .. N - 1, g[d].k > 0
      PROVE  WordIn(g, u, d, N, 0)
  <2>1. CASE d < n
    <3>1. d \in 0 .. n - 1
      BY <2>1
    <3>2. \A h \in 0 .. n - 1 : Begins(w, h) =>
            \A k \in Nat : k <= LastIn(w, h, n, m) => k <= LastIn(w, h, N, 0)
      BY <1>5
    <3>3. w[d].k > 0
      BY <1>2, <1>8, <3>1
    <3> HIDE DEF g, N
    <3>4. QED  BY <3>1, <3>2, <3>3, GrownOldWord, Zenon DEF g
  <2>2. CASE n + p <= d
    <3> DEFINE i == d - n - p + 1
               k == g[d].k
               h == d - k
    <3>1. i \in 1 .. Len(ws) /\ g[d] = ws[i] /\ d = n + p + i - 1 /\ k \in Nat /\ g[d] \in Cells
      <4>1. i \in 1 .. Len(ws) /\ g[d] = ws[i] /\ d = n + p + i - 1
        BY <1>1, <1>2, <2>2, SMTT(40)
      <4>2. QED  BY <1>10, <4>1, CmdFields
    <3> HIDE DEF g, i, k
    <3>2. /\ k < i /\ k <= LastWord(g[d].c) /\ ws[i - k + 0] = Word(g[d], 0) /\ g[d].c.op # "dma"
          /\ LastWord(g[d].c) \in Nat
      <4>1. LastWord(g[d].c) \in Nat
        BY <3>1, CmdFields, LastWordIs
      <4>2. 0 \in 0 .. LastWord(g[d].c)
        BY <4>1
      <4>3. QED  BY <1>3, <3>1, <4>1, <4>2 DEF k
    <3>3. i - k \in 1 .. Len(ws) /\ h = n + p + (i - k) - 1 /\ i - k + 0 = i - k
      BY <1>1, <3>1, <3>2
    <3>4. g[h] = Word(g[d], 0)
      BY <1>2, <3>2, <3>3
    <3>5. g[h].k = 0 /\ g[h].c = g[d].c
      <4>1. Word(g[d], 0).k = 0 /\ Word(g[d], 0).c = g[d].c
        BY <3>1, WordIs
      <4>2. QED  BY <3>4, <4>1
    <3>6. g[h] # Pad
      <4>1. CASE g[h] = Pad
        <5>1. LastWord(g[d].c) = 0
          BY <3>5, <4>1 DEF LastWord, Len0, Pad, Cell, Cmd
        <5>2. QED  BY <1>8, <3>1, <3>2, <5>1 DEF k
      <4>2. QED  BY <4>1
    <3>7. h \in 0 .. d - 1 /\ h \in 0 .. N - 1
      BY <1>1, <1>8, <3>1, <3>2, <3>3, SMTT(40) DEF k
    <3>8. InCmd(g, u, h, k) = h + k /\ h + k = d
      <4>1. InCmd(g, u, h, k) = h + k
        BY <3>2, <3>5 DEF InCmd, WordAt
      <4>2. QED  BY <3>1, <4>1
    <3>9. k <= LastIn(g, h, N, 0)
      BY <1>6, <3>2, <3>5, <3>7
    <3>10. QED  BY <3>4, <3>5, <3>6, <3>7, <3>8, <3>9 DEF Begins, WordIn, k
  <2>3. CASE n <= d /\ d < n + p
    <3>1. d \in n .. n + p - 1
      BY <2>3
    <3>2. g[d].k = 0
      BY <1>2, <3>1
    <3>3. QED  BY <1>8, <3>2
  <2>4. QED  BY <1>1, <2>1, <2>2, <2>3
<1> HIDE DEF g
<1>9. QED  BY <1>4, <1>7, <1>8 DEF Formed, g

(* A window g that is w with p zeros and the words ws behind its first n.  *)
Follows(g, w, n, p, ws) ==
  /\ g \in [Index -> Cells]
  /\ \A d \in 0 .. n - 1 : g[d] = w[d]
  /\ \A d \in n .. n + p - 1 : g[d] = Pad /\ g[d].k = 0
  /\ \A i \in 1 .. Len(ws) : g[n + p + i - 1] = ws[i]
  /\ \A d \in n + p .. n + p + Len(ws) - 1 : d - n - p + 1 \in 1 .. Len(ws) /\ g[d] = ws[d - n - p + 1]
(* All of that at once, for the proofs that need every part.               *)
LEMMA GrownParts ==
  ASSUME NEW w \in [Index -> Cells], NEW n \in Nat, NEW p \in Nat, NEW ws \in Seq(Cells),
         n + p + Len(ws) <= BufLen
  PROVE  Follows(Grown(w, n, p, ws), w, n, p, ws)
<1>1. Grown(w, n, p, ws) \in [Index -> Cells]
  BY GrownType, Zenon
<1>2. \A d \in 0 .. n - 1 : Grown(w, n, p, ws)[d] = w[d]
  BY GrownBelow, Zenon
<1>3. \A d \in n .. n + p - 1 : Grown(w, n, p, ws)[d] = Pad /\ Grown(w, n, p, ws)[d].k = 0
  BY GrownPads, Zenon
<1>4. \A i \in 1 .. Len(ws) : Grown(w, n, p, ws)[n + p + i - 1] = ws[i]
  BY GrownWords, Zenon
<1>5. \A d \in n + p .. n + p + Len(ws) - 1 :
        d - n - p + 1 \in 1 .. Len(ws) /\ Grown(w, n, p, ws)[d] = ws[d - n - p + 1]
  BY GrownFrom, SMTT(40)
<1>6. QED  BY <1>1, <1>2, <1>3, <1>4, <1>5, Zenon DEF Follows

(* A word of a command says which it is.                                   *)
LEMMA CellWord ==
  ASSUME NEW c, NEW e, NEW j, NEW k
  PROVE  Word(Cell(c, e, j), k) = Cell(c, e, k)
BY DEF Word, Cell

(* The words from the m-th on of an upload, put behind the words before    *)
(* them: the header behind whole commands, a line behind the line before.  *)
Continues(w, u, n, p, o, c, m, cnt, h0) ==
  LET at == Place(u, h0)
  IN  /\ at \in Index /\ at + 3 <= BufLen /\ h0 >= o
      /\ n + p + cnt <= BufLen /\ Formed(w, u, n, o, m)
      /\ n + p = h0 + WordAt(at, c, m)
      /\ \A j \in 0 .. cnt - 1 : WordAt(at, c, m + j) = WordAt(at, c, m) + j
      /\ m = 0 => cnt = 3
      /\ m > 0 => m >= 3 /\ h0 < n /\ w[h0] = Cell(c, {}, 0)
      /\ \A d \in o .. n - 1 : Begins(w, d) => d = h0
      /\ m = 3 + Fitting(at, c) => n = h0 + m /\ n + p = h0 + BufLen - at
      /\ m < 3 + Fitting(at, c) => m + cnt <= 3 + Fitting(at, c) \/ m = 0
Uploading(w, u, n, o, c, m, h) ==
  /\ Formed(w, u, n, o, m) /\ h < n /\ w[h] = Cell(c, {}, 0)
  /\ \A d \in o .. n - 1 : Begins(w, d) => d = h

(* The next words of an upload, or its header, put behind what is there:   *)
(* the upload goes on, and its header is where it was.                     *)
LEMMA GrowUpload ==
  ASSUME NEW w \in [Index -> Cells], NEW u \in Nat, NEW n \in Nat, NEW p \in Nat,
         NEW o \in 0 .. n, NEW c \in Cmds, c.op = "dma", NEW m \in Nat, NEW cnt \in Nat \ {0},
         NEW h0 \in Nat, Continues(w, u, n, p, o, c, m, cnt, h0)
  PROVE  Uploading(Grown(w, n, p, Words(c, {}, m, cnt)), u, n + p + cnt, o, c, m + cnt, h0)
<1> DEFINE at == Place(u, h0)
           ws == Words(c, {}, m, cnt)
           N == n + p + cnt
           g == Grown(w, n, p, ws)
           first == Cell(c, {}, 0)
           F == Fitting(at, c)
<1>a. at \in Index /\ at + 3 <= BufLen /\ h0 >= o /\ n + p + cnt <= BufLen /\ n + p = h0 + WordAt(at, c, m)
  BY DEF Continues
<1>b. Formed(w, u, n, o, m)
  BY DEF Continues
<1>c. \A j \in 0 .. cnt - 1 : WordAt(at, c, m + j) = WordAt(at, c, m) + j
  BY DEF Continues
<1>d. (m = 0 => cnt = 3) /\ (m > 0 => m >= 3 /\ h0 < n /\ w[h0] = Cell(c, {}, 0))
  BY DEF Continues
<1>e. \A d \in o .. n - 1 : Begins(w, d) => d = h0
  BY DEF Continues
<1>f. /\ m = 3 + F => n = h0 + m /\ n + p = h0 + BufLen - at
      /\ m < 3 + F => m + cnt <= 3 + F \/ m = 0
  BY DEF Continues
<1> HIDE DEF at
<1>s. ws \in Seq(Cells)
  <2>1. {} \in Regions
    BY DEF Regions
  <2>2. QED  BY <2>1, WordsType
<1>1. Len(ws) = cnt /\ \A i \in 1 .. cnt : ws[i] = Cell(c, {}, m + i - 1)
  BY DEF Words
<1> HIDE DEF ws
<1>2. BufLen \in Nat /\ n <= N /\ N \in Nat /\ N <= BufLen /\ N = n + p + Len(ws)
  BY <1>a, <1>1, BufLenAssumption
<1>3. /\ g \in [Index -> Cells]
      /\ \A d \in 0 .. n - 1 : g[d] = w[d]
      /\ \A d \in n .. n + p - 1 : g[d] = Pad /\ g[d].k = 0
      /\ \A i \in 1 .. cnt : g[n + p + i - 1] = ws[i]
      /\ \A d \in n + p .. N - 1 : d - n - p + 1 \in 1 .. cnt /\ g[d] = ws[d - n - p + 1]
  <2> HIDE DEF N, g
  <2>1. n + p + Len(ws) <= BufLen
    BY <1>1, <1>2
  <2>2. Follows(g, w, n, p, ws)
    BY <1>s, <2>1, GrownParts, Zenon DEF g
  <2>3. Len(ws) = cnt /\ n + p + Len(ws) - 1 = N - 1
    BY <1>1, <1>2
  <2>4. QED  BY <2>2, <2>3, Zenon DEF Follows
<1>4. F \in Nat /\ F <= BufLen - at - 3 /\ at \in Nat
  BY <1>a, UploadShape, BufLenAssumption DEF Index
<1>5. \A d \in Index : g[d].c.op = "free" <=> d >= N
  <2>1. \A i \in 1 .. Len(ws) : ws[i].c.op # "free"
    BY <1>1 DEF Cell
  <2>2. n + p + Len(ws) <= BufLen
    BY <1>2
  <2>3. \A d \in Index : g[d].c.op = "free" <=> d >= n + p + Len(ws)
    BY <1>s, <1>b, <2>1, <2>2, GrownFree, Zenon
  <2> HIDE DEF g, N
  <2>4. QED  BY <1>2, <2>3
<1>6. WordAt(at, c, 0) = 0 /\ WordAt(at, c, m) \in Nat /\ WordAt(at, c, m) >= m
  BY <1>a, WordOrder
<1>7. g[h0] = first /\ h0 < N /\ h0 \in 0 .. N - 1
  <2>1. CASE m = 0
    <3>1. h0 = n + p + 1 - 1 /\ 1 \in 1 .. cnt
      BY <1>6, <1>a, <1>d, <2>1
    <3>2. g[h0] = ws[1]
      BY <1>3, <3>1
    <3>3. QED  BY <1>1, <1>2, <2>1, <3>1, <3>2
  <2>2. CASE m > 0
    <3>1. h0 \in 0 .. n - 1
      BY <1>d, <2>2
    <3>2. QED  BY <1>2, <1>3, <1>d, <2>2, <3>1
  <2>3. QED  BY <2>1, <2>2
<1> HIDE DEF g, F
<1>8. g[h0].c = c /\ g[h0].k = 0 /\ g[h0] # Pad /\ Begins(g, h0)
  <2>1. first.c = c /\ first.k = 0
    BY DEF Cell
  <2>2. Pad.c.op = "nop"
    BY DEF Pad, Cell, Cmd
  <2>3. QED  BY <1>7, <2>1, <2>2 DEF Begins
<1>9. \A k : InCmd(g, u, h0, k) = h0 + WordAt(at, c, k)
  BY <1>8 DEF InCmd, at
<1>10. \A k \in Nat : Word(first, k) = Cell(c, {}, k)
  BY CellWord
<1>11. ASSUME NEW k \in m .. m + cnt - 1
       PROVE  /\ InCmd(g, u, h0, k) = n + p + (k - m) /\ InCmd(g, u, h0, k) < N
              /\ g[InCmd(g, u, h0, k)] = Word(g[h0], k)
  <2>1. k - m \in 0 .. cnt - 1 /\ k = m + (k - m) /\ k - m + 1 \in 1 .. cnt
    BY <1>2
  <2>2. InCmd(g, u, h0, k) = n + p + (k - m)
    BY <1>6, <1>9, <1>a, <1>c, <2>1
  <2>3. n + p + (k - m) = n + p + (k - m + 1) - 1 /\ m + (k - m + 1) - 1 = k
    BY <2>1
  <2>4. g[n + p + (k - m)] = ws[k - m + 1] /\ ws[k - m + 1] = Cell(c, {}, k)
    BY <1>1, <1>3, <2>1, <2>3
  <2>5. QED  BY <1>2, <1>7, <1>10, <2>1, <2>2, <2>4
<1>12. CommandIn(g, u, N, h0, m + cnt - 1)
  <2>1. m > 0 => CommandIn(g, u, N, h0, m - 1)
    <3> SUFFICES ASSUME m > 0  PROVE CommandIn(g, u, N, h0, m - 1)
      OBVIOUS
    <3>1. h0 \in 0 .. n - 1 /\ w[h0] = g[h0]
      BY <1>3, <1>d
    <3>2. Begins(w, h0) /\ m - 1 \in Nat /\ m - 1 = LastIn(w, h0, o, m)
      <4>1. h0 >= o /\ w[h0].k = 0 /\ w[h0] # Pad
        BY <1>a, <1>8, <3>1
      <4>2. QED  BY <4>1 DEF Begins, LastIn
    <3>3. n + p + Len(ws) <= BufLen
      BY <1>2
    <3>4. CommandIn(Grown(w, n, p, ws), u, n + p + Len(ws), h0, m - 1)
      BY <1>s, <1>b, <3>1, <3>2, <3>3, GrownOld, Zenon DEF g
    <3>5. QED  BY <1>1, <1>2, <3>4 DEF g
  <2>2. Place(u, h0) + Len0(g[h0].c) <= BufLen
    <3>1. Len0(c) = 3
      BY LastWordIs
    <3>2. QED  BY <1>8, <1>a, <3>1 DEF at
  <2>3. ASSUME NEW k \in 0 .. m + cnt - 1
        PROVE  InCmd(g, u, h0, k) < N /\ g[InCmd(g, u, h0, k)] = Word(g[h0], k)
    <3>1. CASE k < m
      <4>1. k \in 0 .. m - 1 /\ m > 0
        BY <3>1
      <4>2. QED  BY <2>1, <4>1 DEF CommandIn
    <3>2. CASE k >= m
      <4>1. k \in m .. m + cnt - 1
        BY <3>2
      <4>2. QED  BY <1>11, <4>1
    <3>3. QED  BY <3>1, <3>2
  <2>4. ASSUME m + cnt - 1 >= 3 + F, NEW d \in h0 + 3 + F .. h0 + BufLen - at - 1
        PROVE  g[d] = Pad
    <3>1. m > 0 /\ m >= 3 + F
      BY <1>4, <1>d, <1>f, <2>4
    <3>2. CASE m = 3 + F
      <4>1. n = h0 + m /\ n + p = h0 + BufLen - at
        BY <1>f, <3>2
      <4>2. d \in n .. n + p - 1
        BY <1>2, <1>4, <2>4, <3>2, <4>1
      <4>3. QED  BY <1>3, <4>2
    <3>3. CASE m > 3 + F
      <4>1. m - 1 >= 3 + F
        BY <1>4, <3>3
      <4>2. QED  BY <1>8, <2>1, <3>1, <2>4, <4>1 DEF CommandIn, F, at
    <3>4. QED  BY <1>4, <3>1, <3>2, <3>3
  <2>5. QED  BY <1>8, <2>2, <2>3, <2>4 DEF CommandIn, F, at
<1>13. \A d \in o .. N - 1 : Begins(g, d) => d = h0
  <2> SUFFICES ASSUME NEW d \in o .. N - 1, Begins(g, d)  PROVE d = h0
    OBVIOUS
  <2>1. CASE d < n
    <3>1. d \in 0 .. n - 1 /\ d \in o .. n - 1
      BY <2>1
    <3>2. Begins(w, d)
      BY <1>3, <3>1 DEF Begins
    <3>3. QED  BY <1>e, <3>1, <3>2
  <2>2. CASE n <= d /\ d < n + p
    <3>1. d \in n .. n + p - 1
      BY <2>2
    <3>2. QED  BY <1>3, <3>1 DEF Begins
  <2>3. CASE n + p <= d
    <3>1. d \in n + p .. N - 1
      BY <2>3
    <3>2. d - n - p + 1 \in 1 .. cnt /\ g[d].k = m + (d - n - p + 1) - 1
      BY <1>1, <1>3, <3>1 DEF Cell
    <3>5. g[d].k = 0
      BY DEF Begins
    <3>3. m = 0 /\ d = n + p
      BY <3>1, <3>2, <3>5
    <3>4. QED  BY <1>6, <1>a, <3>3
  <2>4. QED  BY <1>2, <2>1, <2>2, <2>3
<1>14. ASSUME NEW h \in 0 .. N - 1, Begins(g, h)
       PROVE  CommandIn(g, u, N, h, LastIn(g, h, o, m + cnt))
  <2>1. CASE h >= o
    <3>1. h = h0
      BY <1>13, <1>14, <2>1
    <3>2. LastIn(g, h, o, m + cnt) = m + cnt - 1
      BY <2>1 DEF LastIn
    <3>3. QED  BY <1>12, <3>1, <3>2
  <2>2. CASE h < o
    <3>1. h \in 0 .. n - 1 /\ h \in Index
      BY <1>2, <2>2 DEF Index
    <3>2. w[h] = g[h] /\ LastWord(w[h].c) \in Nat
      BY <1>3, <3>1, CmdFields, LastWordIs
    <3>3. Begins(w, h) /\ LastWord(w[h].c) = LastIn(w, h, o, m) /\ LastIn(g, h, o, m + cnt) = LastWord(w[h].c)
      BY <1>14, <2>2, <3>2 DEF Begins, LastIn
    <3>4. n + p + Len(ws) <= BufLen
      BY <1>2
    <3>5. CommandIn(Grown(w, n, p, ws), u, n + p + Len(ws), h, LastWord(w[h].c))
      BY <1>s, <3>1, <3>2, <3>3, <3>4, <1>b, GrownOld, Zenon DEF g
    <3>6. QED  BY <1>1, <1>2, <3>3, <3>5 DEF g
  <2>3. QED  BY <2>1, <2>2
<1>15. ASSUME NEW d \in 0 .. N - 1, g[d].k > 0
       PROVE  WordIn(g, u, d, o, m + cnt)
  <2>1. CASE d < n
    <3>1. d \in 0 .. n - 1
      BY <2>1
    <3>2. w[d].k > 0
      BY <1>3, <1>15, <3>1
    <3>3. \A h \in 0 .. n - 1 : Begins(w, h) =>
            \A k \in Nat : k <= LastIn(w, h, o, m) => k <= LastIn(w, h, o, m + cnt)
      BY DEF LastIn
    <3>4. n + p + Len(ws) <= BufLen
      BY <1>2
    <3>5. QED  BY <1>s, <3>1, <3>2, <3>3, <3>4, <1>b, GrownOldWord, Zenon DEF g
  <2>2. CASE n <= d /\ d < n + p
    <3>1. d \in n .. n + p - 1
      BY <2>2
    <3>2. QED  BY <1>3, <1>15, <3>1
  <2>3. CASE n + p <= d
    <3> DEFINE i == d - n - p + 1
               k == m + i - 1
    <3>1. i \in 1 .. cnt /\ g[d] = ws[i] /\ d = n + p + i - 1
      <4>1. d \in n + p .. N - 1
        BY <2>3
      <4>2. QED  BY <1>3, <4>1
    <3> HIDE DEF i
    <3>2. g[d] = Cell(c, {}, k) /\ g[d].k = k /\ k \in Nat /\ k > 0 /\ k \in m .. m + cnt - 1
      <4>1. g[d] = Cell(c, {}, k)
        BY <1>1, <3>1
      <4>2. g[d].k = k
        BY <4>1 DEF Cell
      <4>3. QED  BY <1>15, <3>1, <4>1, <4>2
    <3>3. InCmd(g, u, h0, k) = d
      <4>1. k - m = i - 1
        BY <3>1
      <4>2. QED  BY <1>11, <3>1, <3>2, <4>1
    <3>4. g[h0] = Word(g[d], 0)
      BY <1>7, <3>2, CellWord
    <3>5. h0 \in 0 .. d - 1
      <4>1. CASE m = 0
        BY <1>6, <1>a, <3>1, <3>2, <4>1
      <4>2. CASE m > 0
        BY <1>d, <3>1, <4>2
      <4>3. QED  BY <4>1, <4>2
    <3>6. k <= LastIn(g, h0, o, m + cnt)
      BY <1>a, <3>2 DEF LastIn
    <3> HIDE DEF k
    <3>7. QED  BY <1>8, <3>2, <3>3, <3>4, <3>5, <3>6 DEF WordIn
  <2>4. QED  BY <1>2, <2>1, <2>2, <2>3
<1> HIDE DEF N
<1>16. Formed(g, u, N, o, m + cnt)
  BY <1>5, <1>14, <1>15 DEF Formed
<1>17. QED  BY <1>7, <1>13, <1>16 DEF g, N, ws, at, Uploading

(* The next line of an upload lies where do_add_pos puts it: behind the    *)
(* line before, or at the start of the ring; and it fits.                  *)
LEMMA NextLine ==
  ASSUME NEW u \in Nat, NEW c \in Cmds, c.op = "dma", NEW h0 \in Nat, NEW at \in Index,
         at = Place(u, h0), at + 3 <= BufLen, h0 + DmaLen(at, c) <= BufLen,
         NEW l \in 1 .. c.h, NEW m, m = 3 + (l - 1) * c.s,
         NEW n, n = h0 + WordAt(at, c, m - 1) + 1,
         NEW p, p = IF BufLen - Place(u, n) < c.s THEN BufLen - Place(u, n) ELSE 0
  PROVE  /\ m \in Nat /\ m >= 3 /\ n \in Nat /\ p \in Nat /\ h0 < n
         /\ n + p + c.s <= BufLen
         /\ n + p = h0 + WordAt(at, c, m)
         /\ \A j \in 0 .. c.s - 1 : WordAt(at, c, m + j) = WordAt(at, c, m) + j
         /\ m = 3 + Fitting(at, c) => n = h0 + m /\ n + p = h0 + BufLen - at
         /\ m < 3 + Fitting(at, c) => m + c.s <= 3 + Fitting(at, c)
         /\ n + p + c.s = h0 + WordAt(at, c, m + c.s - 1) + 1
         /\ 3 + (l + 1 - 1) * c.s = m + c.s
<1> DEFINE s == c.s
           F == Fitting(at, c)
           a == l - 1
           at_(k) == WordAt(at, c, k)
<1>1. /\ s \in Nat \ {0} /\ s \in Nat /\ c.h \in Nat /\ a \in Nat /\ a + 1 <= c.h /\ at \in Nat /\ BufLen \in Nat
      /\ BufLen > 1
  <2>1. c.s \in Nat /\ c.h \in Nat /\ c.s > 0
    BY CmdFields, Zenon
  <2>2. BufLen \in Nat /\ BufLen > 1 /\ at \in Nat
    BY BufLenAssumption DEF Index
  <2>3. s \in Nat \ {0} /\ s \in Nat
    BY <2>1
  <2>4. a \in Nat /\ a + 1 <= c.h
    BY <2>1
  <2>5. QED  BY <2>1, <2>2, <2>3, <2>4, Zenon
<1>2. /\ F \in Nat /\ F <= BufLen - at - 3 /\ BufLen - at - 3 < F + s
      /\ \E q \in Nat : F = s * q
  BY UploadShape
<1>3. s * a \in Nat /\ m = 3 + s * a /\ s * (a + 1) = s * a + s
  BY <1>1, SMTT(20)
<1>4. s * (a + 1) <= s * c.h
  BY <1>1, SMTT(20)
<1>5. 3 + (l + 1 - 1) * c.s = m + c.s
  <2>1. (l + 1 - 1) * c.s = s * (a + 1)
    BY <1>1, SMTT(20)
  <2>2. QED  BY <1>1, <1>3, <2>1
<1> HIDE DEF a
<1>6. m < 3 + F => m + s <= 3 + F
  <2> SUFFICES ASSUME m < 3 + F  PROVE m + s <= 3 + F
    OBVIOUS
  <2>1. PICK q \in Nat : F = s * q
    BY <1>2
  <2>2. s * a < s * q
    BY <1>2, <1>3, <2>1
  <2>3. s * a + s <= s * q
    BY <1>1, <2>2, NextMultiple, Zenon
  <2>4. QED  BY <1>1, <1>2, <1>3, <2>1, <2>3
<1>7. at_(LastWord(c)) + 1 = DmaLen(at, c) /\ LastWord(c) = 2 + s * c.h /\ s * c.h \in Nat
  BY DmaLenIs, LastWordIs
<1>8. \A k \in Nat : at_(k) = IF k >= 3 + F THEN BufLen - at + (k - 3 - F) ELSE k
  BY DEF WordAt
<1>9. m \in Nat /\ m - 1 \in Nat /\ m + s - 1 \in Nat /\ m + s - 1 <= LastWord(c) /\ LastWord(c) \in Nat
  BY <1>1, <1>3, <1>4, <1>7
<1> HIDE DEF at_, s
<1>10. h0 + at_(m + s - 1) + 1 <= BufLen
  <2>1. at_(m + s - 1) <= at_(LastWord(c))
    <3> HIDE DEF F
    <3>1. \A k, e \in Nat : k <= e => at_(k) <= at_(e)
      BY <1>1, <1>2, <1>8
    <3>2. QED  BY <1>9, <3>1, Zenon
  <2>2. at_(LastWord(c)) \in Nat /\ at_(m + s - 1) \in Nat
    <3> HIDE DEF F
    <3>1. QED  BY <1>1, <1>2, <1>8, <1>9
  <2>3. h0 + (at_(LastWord(c)) + 1) <= BufLen
    BY <1>7
  <2>4. QED  BY <1>1, <2>1, <2>2, <2>3
<1> HIDE DEF F
<1>11. ASSUME NEW j \in 0 .. s - 1
       PROVE  at_(m + j) = at_(m) + j
  <2>1. m + j \in Nat
    BY <1>1, <1>9
  <2>2. QED  BY <1>1, <1>2, <1>6, <1>8, <1>9, <2>1
<1>12. at_(m + s - 1) = at_(m) + s - 1
  <2>1. s - 1 \in 0 .. s - 1 /\ m + (s - 1) = m + s - 1
    BY <1>1, <1>9
  <2>2. at_(m + (s - 1)) = at_(m) + (s - 1)
    BY <1>11, <2>1, Zenon
  <2>3. at_(m) \in Int
    BY <1>1, <1>2, <1>8, <1>9
  <2>4. QED  BY <1>1, <2>1, <2>2, <2>3
<1>13. at_(m) \in Nat /\ at_(m - 1) \in Nat /\ h0 + at_(m) + s <= BufLen
  BY <1>1, <1>2, <1>8, <1>9, <1>10, <1>12
<1>14. at_(m - 1) < at_(m)
  BY <1>1, <1>2, <1>8, <1>9
<1>15. n = h0 + (at_(m - 1) + 1) /\ n \in Nat /\ h0 < n /\ h0 + (at_(m - 1) + 1) <= BufLen
  BY <1>1, <1>13, <1>14 DEF at_
<1>16. Place(u, n) = IF at + (at_(m - 1) + 1) >= BufLen THEN at + (at_(m - 1) + 1) - BufLen
                                                     ELSE at + (at_(m - 1) + 1)
  <2>1. at_(m - 1) + 1 \in Nat
    BY <1>13
  <2>2. h0 + (at_(m - 1) + 1) <= BufLen
    BY <1>15
  <2>3. Place(u, h0 + (at_(m - 1) + 1)) =
          IF Place(u, h0) + (at_(m - 1) + 1) >= BufLen THEN Place(u, h0) + (at_(m - 1) + 1) - BufLen
                                                     ELSE Place(u, h0) + (at_(m - 1) + 1)
    BY <2>1, <2>2, PlaceNear
  <2>4. n = h0 + (at_(m - 1) + 1)
    BY <1>15
  <2>5. QED  BY <2>3, <2>4
<1>17. p \in Nat /\ n + p = h0 + at_(m) /\ (m = 3 + F => n = h0 + m /\ n + p = h0 + BufLen - at)
  <2>1. p = IF BufLen - Place(u, n) < s THEN BufLen - Place(u, n) ELSE 0
    BY DEF s
  <2>2. CASE m < 3 + F
    <3>1. at_(m - 1) = m - 1 /\ at_(m) = m
      BY <1>2, <1>8, <1>9, <2>2
    <3>2. Place(u, n) = at + m
      BY <1>1, <1>2, <1>9, <1>16, <2>2, <3>1
    <3>3. p = 0
      BY <1>1, <1>2, <1>6, <1>9, <2>1, <2>2, <3>2
    <3>4. QED  BY <1>15, <1>9, <2>2, <3>1, <3>3, <1>2
  <2>3. CASE m = 3 + F
    <3>1. at_(m - 1) = m - 1 /\ at_(m) = BufLen - at
      BY <1>1, <1>2, <1>8, <1>9, <2>3
    <3>2. n = h0 + m
      BY <1>9, <1>15, <3>1
    <3>3. CASE at + m = BufLen
      <4>1. Place(u, n) = 0
        BY <1>1, <1>9, <1>16, <3>1, <3>3
      <4>2. p = 0
        BY <1>1, <1>13, <2>1, <3>1, <4>1
      <4>3. QED  BY <1>1, <1>9, <3>1, <3>2, <3>3, <4>2
    <3>4. CASE at + m < BufLen
      <4>1. Place(u, n) = at + m
        BY <1>1, <1>9, <1>16, <3>1, <3>4
      <4>2. p = BufLen - at - m /\ p \in Nat
        BY <1>1, <1>2, <1>9, <2>1, <2>3, <3>4, <4>1
      <4>3. QED  BY <1>1, <1>9, <3>1, <3>2, <4>2
    <3>5. at + m = BufLen \/ at + m < BufLen
      BY <1>1, <1>2, <1>9, <2>3
    <3>6. QED  BY <3>3, <3>4, <3>5, Zenon
  <2>4. CASE m > 3 + F
    <3>1. at_(m - 1) = BufLen - at + (m - 1 - 3 - F) /\ at_(m) = BufLen - at + (m - 3 - F)
      BY <1>1, <1>2, <1>8, <1>9, <2>4
    <3>2. Place(u, n) = m - 3 - F
      BY <1>1, <1>2, <1>9, <1>16, <2>4, <3>1
    <3>3. p = 0
      BY <1>1, <1>2, <1>9, <1>13, <2>1, <2>4, <3>1, <3>2
    <3>4. QED  BY <1>1, <1>2, <1>9, <1>15, <2>4, <3>1, <3>3
  <2>5. QED  BY <1>2, <1>9, <2>2, <2>3, <2>4
<1>18. n + p + s <= BufLen /\ n + p + s = h0 + at_(m + s - 1) + 1
  BY <1>1, <1>12, <1>13, <1>15, <1>17
<1>19. m >= 3
  BY <1>3
<1>20. QED  BY <1>5, <1>6, <1>9, <1>11, <1>15, <1>17, <1>18, <1>19 DEF at_, s, F

(* No command begins within another.                                       *)
LEMMA InsideCommand ==
  ASSUME NEW w \in [Index -> Cells], NEW u \in Nat, NEW n \in 0 .. BufLen, NEW o, NEW m,
         Formed(w, u, n, o, m), NEW h \in 0 .. n - 1, Begins(w, h),
         NEW last \in Nat, last = LastIn(w, h, o, m),
         NEW d \in h + 1 .. InCmd(w, u, h, last)
  PROVE  ~Begins(w, d)
<1> DEFINE at == Place(u, h)
           c == w[h].c
           F == Fitting(at, c)
           inCmd(k) == InCmd(w, u, h, k)
<1>1. /\ c \in Cmds /\ at \in Index /\ h \in Nat /\ BufLen \in Nat /\ w[h] \in Cells
      /\ c.op = "dma" => at + 3 <= BufLen
  BY CommandShape, BufLenAssumption
<1>2. /\ \A k \in 0 .. last : w[inCmd(k)] = Word(w[h], k)
      /\ c.op = "dma" /\ last >= 3 + F => \A e \in h + 3 + F .. h + BufLen - at - 1 : w[e] = Pad
  BY DEF Formed, CommandIn
<1>3. \A k : inCmd(k) = h + IF c.op = "dma" /\ k >= 3 + F THEN BufLen - at + (k - 3 - F) ELSE k
  BY DEF InCmd, WordAt
<1>4. c.op = "dma" => F \in Nat /\ F <= BufLen - at - 3
  BY <1>1, UploadShape
<1> HIDE DEF inCmd, F, at, c
<1>5. ASSUME NEW k \in 1 .. last, d = inCmd(k)  PROVE ~Begins(w, d)
  <2>1. w[d] = Word(w[h], k)
    BY <1>2, <1>5
  <2>2. w[d].k = k
    BY <1>1, <2>1, WordIs
  <2>3. QED  BY <2>2 DEF Begins
<1>6. ASSUME w[d] = Pad  PROVE ~Begins(w, d)
  BY <1>6 DEF Begins
<1>7. d \in h + 1 .. inCmd(last)
  BY DEF inCmd
<1>8. CASE c.op # "dma" \/ d < h + 3 + F
  <2> DEFINE k == d - h
  <2>1. k \in 1 .. last
    BY <1>1, <1>3, <1>4, <1>7, <1>8
  <2>2. inCmd(k) = h + k
    BY <1>1, <1>3, <1>4, <1>8, <2>1
  <2>3. d = inCmd(k)
    BY <1>1, <2>1, <2>2
  <2> HIDE DEF k
  <2>4. QED  BY <1>5, <2>1, <2>3
<1>9. CASE c.op = "dma" /\ d >= h + 3 + F
  <2>1. last >= 3 + F
    <3>1. CASE last < 3 + F
      <4>1. inCmd(last) = h + last
        BY <1>1, <1>3, <1>4, <1>9, <3>1
      <4>2. QED  BY <1>1, <1>4, <1>7, <1>9, <3>1, <4>1
    <3>2. QED  BY <1>4, <1>9, <3>1
  <2>2. CASE d <= h + BufLen - at - 1
    <3>1. d \in h + 3 + F .. h + BufLen - at - 1
      BY <1>1, <1>4, <1>7, <1>9, <2>2 DEF Index
    <3>2. QED  BY <1>2, <1>6, <1>9, <2>1, <3>1
  <2>3. CASE d >= h + BufLen - at
    <3> DEFINE k == 3 + F + (d - (h + BufLen - at))
    <3>a. at \in Nat /\ at <= BufLen /\ F \in Nat /\ d \in Nat /\ d <= inCmd(last) /\ h \in Nat /\ BufLen \in Nat
      <4>1. inCmd(last) \in Int
        BY <1>1, <1>3, <1>4, <1>9, SMTT(40) DEF Index
      <4>2. QED  BY <1>1, <1>4, <1>7, <1>9, <4>1 DEF Index
    <3>1. inCmd(last) = h + (BufLen - at + (last - 3 - F))
      BY <1>3, <1>9, <2>1
    <3>2. k \in 1 .. last /\ k >= 3 + F
      BY <2>3, <3>1, <3>a
    <3>3. inCmd(k) = h + (BufLen - at + (k - 3 - F))
      BY <1>3, <1>9, <3>2
    <3>4. d = inCmd(k)
      BY <3>a, <2>3, <3>3
    <3> HIDE DEF k
    <3>5. QED  BY <1>5, <3>2, <3>4
  <2>4. QED  BY <1>1, <1>7, <2>2, <2>3 DEF Index
<1>10. QED  BY <1>1, <1>4, <1>7, <1>8, <1>9

(* The commands left in the window after some were used up.                *)
LEMMA DroppedWord ==
  ASSUME NEW w \in [Index -> Cells], NEW u \in Positions, NEW b \in 0 .. BufLen,
         NEW h \in Nat, b + h < BufLen
  PROVE  /\ h \in Index /\ Dropped(w, b)[h] = w[b + h] /\ Place(Plus(u, b), h) = Place(u, b + h)
         /\ Begins(Dropped(w, b), h) <=> Begins(w, b + h)
         /\ \A k : InCmd(Dropped(w, b), Plus(u, b), h, k) =
                     h + WordAt(Place(u, b + h), w[b + h].c, k)
         /\ \A k : InCmd(w, u, b + h, k) = b + h + WordAt(Place(u, b + h), w[b + h].c, k)
<1>1. h \in Index /\ BufLen \in Nat
  BY BufLenAssumption DEF Index
<1>2. Dropped(w, b)[h] = w[b + h]
  <2>1. h + b < BufLen /\ h + b = b + h
    BY <1>1
  <2>2. QED  BY <1>1, <2>1 DEF Dropped
<1>3. Place(Plus(u, b), h) = Place(u, b + h)
  BY <1>1, PlaceShift
<1>4. QED  BY <1>1, <1>2, <1>3 DEF Begins, InCmd

(* The window that begins at the end of a command, once the words before   *)
(* it are used, is well formed still.                                      *)
LEMMA DroppedFormed ==
  ASSUME NEW w \in [Index -> Cells], NEW u \in Positions, NEW n \in 0 .. BufLen,
         NEW o \in Nat, NEW m \in Nat, Formed(w, u, n, o, m),
         NEW b \in 0 .. n, b <= o, EndsAt(w, u, b)
  PROVE  Formed(Dropped(w, b), Plus(u, b), n - b, o - b, m)
<1> DEFINE g == Dropped(w, b)
           v == Plus(u, b)
<1>1. BufLen \in Nat /\ u \in Nat /\ v \in Nat /\ b \in 0 .. BufLen /\ b \in Nat /\ n \in Nat
  <2>1. b \in 0 .. BufLen
    BY BufLenAssumption
  <2>2. v \in Positions
    BY <2>1, PlusIs
  <2>3. QED  BY <2>1, <2>2, BufLenAssumption DEF Positions
<1>2. \A h \in 0 .. n - b - 1 :
        /\ h \in Nat /\ b + h < BufLen /\ b + h \in 0 .. n - 1
        /\ g[h] = w[b + h] /\ Place(v, h) = Place(u, b + h)
        /\ Begins(g, h) <=> Begins(w, b + h)
        /\ \A k : InCmd(g, v, h, k) = h + WordAt(Place(u, b + h), w[b + h].c, k)
        /\ \A k : InCmd(w, u, b + h, k) = b + h + WordAt(Place(u, b + h), w[b + h].c, k)
  <2> HIDE DEF g, v
  <2> SUFFICES ASSUME NEW h \in 0 .. n - b - 1
               PROVE  /\ h \in Nat /\ b + h < BufLen /\ b + h \in 0 .. n - 1
                      /\ g[h] = w[b + h] /\ Place(v, h) = Place(u, b + h)
                      /\ Begins(g, h) <=> Begins(w, b + h)
                      /\ \A k : InCmd(g, v, h, k) = h + WordAt(Place(u, b + h), w[b + h].c, k)
                      /\ \A k : InCmd(w, u, b + h, k) = b + h + WordAt(Place(u, b + h), w[b + h].c, k)
    OBVIOUS
  <2>1. h \in Nat /\ b + h < BufLen /\ b + h \in 0 .. n - 1
    BY <1>1
  <2>2. QED  BY <1>1, <2>1, DroppedWord DEF g, v
<1> HIDE DEF g, v
<1>3. \A d \in Index : g[d].c.op = "free" <=> d >= n - b
  <2> SUFFICES ASSUME NEW d \in Index  PROVE g[d].c.op = "free" <=> d >= n - b
    OBVIOUS
  <2>1. d \in Nat /\ d \in 0 .. BufLen - 1
    BY DEF Index
  <2>2. CASE d + b < BufLen
    <3>1. g[d] = w[d + b] /\ d + b \in Index
      BY <1>1, <2>1, <2>2 DEF g, Dropped, Index
    <3>2. w[d + b].c.op = "free" <=> d + b >= n
      BY <3>1 DEF Formed
    <3>3. QED  BY <1>1, <2>1, <3>1, <3>2
  <2>3. CASE ~(d + b < BufLen)
    <3>1. g[d] = Free
      BY <2>3 DEF g, Dropped
    <3>2. g[d].c.op = "free"
      BY <3>1 DEF Free, Cell, Cmd
    <3>3. QED  BY <1>1, <2>1, <2>3, <3>2
  <2>4. QED  BY <2>2, <2>3
<1>4. \A h \in 0 .. n - b - 1 : LastIn(g, h, o - b, m) = LastIn(w, b + h, o, m)
  <2> SUFFICES ASSUME NEW h \in 0 .. n - b - 1
               PROVE  LastIn(g, h, o - b, m) = LastIn(w, b + h, o, m)
    OBVIOUS
  <2>1. h >= o - b <=> b + h >= o
    BY <1>1
  <2>2. g[h] = w[b + h]
    BY <1>2
  <2>3. QED  BY <2>1, <2>2 DEF LastIn
<1>5. ASSUME NEW h \in 0 .. n - b - 1, Begins(g, h)
      PROVE  CommandIn(g, v, n - b, h, LastIn(g, h, o - b, m))
  <2> DEFINE at == Place(u, b + h)
             c == w[b + h].c
             last == LastIn(w, b + h, o, m)
  <2>1. /\ h \in Nat /\ b + h \in 0 .. n - 1 /\ Begins(w, b + h) /\ g[h] = w[b + h]
        /\ Place(v, h) = at /\ LastIn(g, h, o - b, m) = last
        /\ \A k : InCmd(g, v, h, k) = h + WordAt(at, c, k)
        /\ \A k : InCmd(w, u, b + h, k) = b + h + WordAt(at, c, k)
    BY <1>2, <1>4, <1>5
  <2>2. c \in Cmds /\ at \in Index /\ (c.op = "dma" => at + 3 <= BufLen)
    BY <1>1, <2>1, CommandShape
  <2>3. CommandIn(w, u, n, b + h, last)
    BY <2>1 DEF Formed
  <2>7. last \in Int
    <3>1. LastWord(c) \in Int
      BY <2>2, LastWordIs
    <3>2. QED  BY <3>1 DEF LastIn
  <2>4. \A k \in Nat : WordAt(at, c, k) \in Nat
    BY <2>2, WordOrder
  <2> HIDE DEF at, c, last
  <2>5. ASSUME NEW k \in 0 .. last
        PROVE  InCmd(g, v, h, k) < n - b /\ g[InCmd(g, v, h, k)] = Word(g[h], k)
    <3>1. InCmd(w, u, b + h, k) < n /\ w[InCmd(w, u, b + h, k)] = Word(w[b + h], k)
      BY <2>3 DEF CommandIn
    <3>2. WordAt(at, c, k) \in Nat
      BY <2>4
    <3>3. InCmd(g, v, h, k) \in 0 .. n - b - 1 /\ InCmd(w, u, b + h, k) = b + InCmd(g, v, h, k)
      BY <1>1, <2>1, <3>1, <3>2
    <3>4. g[InCmd(g, v, h, k)] = w[b + InCmd(g, v, h, k)]
      BY <1>2, <3>3
    <3>5. QED  BY <2>1, <3>1, <3>3, <3>4
  <2>6. ASSUME c.op = "dma", last >= 3 + Fitting(at, c),
               NEW d \in h + 3 + Fitting(at, c) .. h + BufLen - at - 1
        PROVE  g[d] = Pad
    <3>1. last \in Nat
      <4>1. Fitting(at, c) \in Nat
        BY <2>2, <2>6, UploadShape
      <4>2. QED  BY <2>6, <2>7, <4>1
    <3>2. /\ Fitting(at, c) \in Nat
          /\ \A e \in b + h + 3 + Fitting(at, c) .. b + h + BufLen - at - 1 : e \in 0 .. n - 1 /\ w[e] = Pad
      BY <1>1, <2>1, <2>6, <3>1, GapInside DEF at, c, last
    <3>3. b + d \in b + h + 3 + Fitting(at, c) .. b + h + BufLen - at - 1
      <4>1. at \in Nat /\ d \in Int /\ Fitting(at, c) \in Nat
        BY <2>2, <3>2 DEF Index
      <4>2. d >= h + 3 + Fitting(at, c) /\ d <= h + BufLen - at - 1
        BY <2>6
      <4>3. QED  BY <1>1, <2>1, <4>1, <4>2
    <3>4. b + d \in 0 .. n - 1 /\ w[b + d] = Pad
      BY <3>2, <3>3
    <3>5. d \in 0 .. n - b - 1
      <4>1. at \in Nat /\ d \in Int /\ Fitting(at, c) \in Nat /\ d >= h + 3 + Fitting(at, c)
        BY <2>2, <2>6, <3>2 DEF Index
      <4>2. QED  BY <1>1, <2>1, <3>4, <4>1
    <3>6. QED  BY <1>2, <3>4, <3>5
  <2>8. Place(v, h) + Len0(g[h].c) <= BufLen
    BY <2>1, <2>3 DEF CommandIn, at
  <2>9. QED  BY <2>1, <2>5, <2>6, <2>8 DEF CommandIn, c
<1>6. ASSUME NEW d \in 0 .. n - b - 1, g[d].k > 0
      PROVE  WordIn(g, v, d, o - b, m)
  <2>1. b + d \in 0 .. n - 1 /\ w[b + d] = g[d] /\ w[b + d].k > 0 /\ d \in Nat
    BY <1>2, <1>6
  <2>9. w[b + d].k \in Nat
    <3>1. b + d \in Index
      BY <1>1, <2>1 DEF Index
    <3>2. QED  BY <3>1, CmdFields
  <2>2. PICK e \in 0 .. b + d - 1 : /\ Begins(w, e) /\ w[e] = Word(w[b + d], 0)
                                    /\ b + d = InCmd(w, u, e, w[b + d].k)
                                    /\ w[b + d].k <= LastIn(w, e, o, m)
    BY <2>1 DEF Formed, WordIn
  <2>3. e >= b
    <3> SUFFICES ASSUME e < b  PROVE FALSE
      BY <1>1
    <3>1. e \in 0 .. b - 1 /\ e \in 0 .. n - 1
      BY <1>1
    <3>2. InCmd(w, u, e, LastWord(w[e].c)) < b
      BY <2>2, <3>1 DEF EndsAt
    <3>3. LastIn(w, e, o, m) = LastWord(w[e].c)
      BY <1>1, <3>1 DEF LastIn
    <3>4. LastWord(w[e].c) \in Nat /\ w[b + d].k <= LastWord(w[e].c)
      BY <1>1, <2>2, <3>1, <3>3, CommandShape, LastWordIs
    <3>5. \A j, k \in Nat : j < k => InCmd(w, u, e, j) < InCmd(w, u, e, k)
      BY <1>1, <2>2, <3>1, CommandShape
    <3>6. w[b + d].k = LastWord(w[e].c) \/ w[b + d].k < LastWord(w[e].c)
      BY <2>9, <3>4
    <3>7. InCmd(w, u, e, w[b + d].k) < b
      <4>1. InCmd(w, u, e, LastWord(w[e].c)) \in Nat /\ InCmd(w, u, e, w[b + d].k) \in Nat
        BY <1>1, <2>2, <2>9, <3>1, <3>4, CommandShape
      <4>2. QED  BY <1>1, <2>9, <3>2, <3>4, <3>5, <3>6, <4>1
    <3>8. QED  BY <1>1, <2>1, <2>2, <3>7
  <2> DEFINE h == e - b
  <2>4. h \in 0 .. d - 1 /\ h \in 0 .. n - b - 1 /\ b + h = e
    BY <1>1, <2>1, <2>3
  <2> HIDE DEF h
  <2>5. Begins(g, h) /\ g[h] = w[e]
    BY <1>2, <2>2, <2>4
  <2>6. /\ InCmd(g, v, h, g[d].k) = h + WordAt(Place(u, e), w[e].c, g[d].k)
        /\ InCmd(w, u, e, g[d].k) = e + WordAt(Place(u, e), w[e].c, g[d].k)
    BY <1>2, <2>4
  <2>7. d = InCmd(g, v, h, g[d].k)
    <3>1. WordAt(Place(u, e), w[e].c, g[d].k) \in Int
      <4>1. e \in 0 .. n - 1
        BY <1>1, <2>1
      <4>2. InCmd(w, u, e, g[d].k) \in Nat /\ InCmd(w, u, e, g[d].k) >= e + g[d].k
        BY <1>1, <2>1, <2>2, <2>9, <4>1, CommandShape
      <4>3. /\ w[e].c \in Cmds /\ Place(u, e) \in Index
            /\ w[e].c.op = "dma" => Place(u, e) + 3 <= BufLen
        BY <1>1, <2>2, <4>1, CommandShape
      <4>4. QED  BY <2>1, <2>9, <4>3, WordOrder
    <3>2. QED  BY <1>1, <2>1, <2>2, <2>4, <2>6, <3>1
  <2>8. g[d].k <= LastIn(g, h, o - b, m)
    BY <1>4, <2>1, <2>2, <2>4
  <2>10. QED  BY <2>1, <2>2, <2>4, <2>5, <2>7, <2>8 DEF WordIn
<1>7. QED  BY <1>3, <1>5, <1>6 DEF Formed, g, v

(* A command's end in the window is one in the window that begins later.   *)
LEMMA DroppedEnds ==
  ASSUME NEW w \in [Index -> Cells], NEW u \in Positions, NEW n \in 0 .. BufLen,
         NEW o \in Nat, NEW m \in Nat, Formed(w, u, n, o, m),
         NEW b \in 0 .. n, NEW e \in b .. n, EndsAt(w, u, e)
  PROVE  EndsAt(Dropped(w, b), Plus(u, b), e - b)
<1> SUFFICES ASSUME NEW h \in 0 .. e - b - 1, Begins(Dropped(w, b), h)
             PROVE  InCmd(Dropped(w, b), Plus(u, b), h, LastWord(Dropped(w, b)[h].c)) < e - b
  BY DEF EndsAt
<1>1. h \in Nat /\ b \in 0 .. BufLen /\ b + h < BufLen /\ b + h \in 0 .. e - 1 /\ u \in Nat
      /\ b + h \in 0 .. n - 1
  BY BufLenAssumption DEF Positions
<1>2. /\ Begins(w, b + h) /\ Dropped(w, b)[h] = w[b + h]
      /\ \A k : InCmd(Dropped(w, b), Plus(u, b), h, k) = h + WordAt(Place(u, b + h), w[b + h].c, k)
      /\ \A k : InCmd(w, u, b + h, k) = b + h + WordAt(Place(u, b + h), w[b + h].c, k)
  BY <1>1, DroppedWord
<1>3. InCmd(w, u, b + h, LastWord(w[b + h].c)) < e
  BY <1>1, <1>2 DEF EndsAt
<1>4. WordAt(Place(u, b + h), w[b + h].c, LastWord(w[b + h].c)) \in Nat
  <2>1. /\ w[b + h].c \in Cmds /\ Place(u, b + h) \in Index
        /\ w[b + h].c.op = "dma" => Place(u, b + h) + 3 <= BufLen
    BY <1>1, <1>2, CommandShape
  <2>2. QED  BY <2>1, WordOrder, LastWordIs
<1>5. QED  BY <1>1, <1>2, <1>3, <1>4

(* What the gpu thread's commit does to the window.                        *)
LEMMA CommitWindow ==
  ASSUME pos_used \in Positions, cells \in [Index -> Cells], NEW b \in 0 .. BufLen,
         pos_used' = Plus(pos_used, b),
         cells' = [i \in Index |-> IF (BufLen + i - UsedAt) % BufLen < b THEN Free ELSE cells[i]]
  PROVE  Window' = Dropped(Window, b)
<1> DEFINE u == pos_used
<1>1. BufLen \in Nat /\ u \in Nat
  BY BufLenAssumption DEF Positions
<1>2. Window' = [d \in Index |-> cells'[Place(Plus(u, b), d)]]
  BY DEF Window
<1>3. ASSUME NEW d \in Index
      PROVE  cells'[Place(Plus(u, b), d)] = Dropped(Window, b)[d]
  <2> DEFINE e == IF d + b < BufLen THEN b + d ELSE b + d - BufLen
  <2>1. e \in Index /\ d \in Nat
    BY <1>1 DEF Index
  <2>2. Place(Plus(u, b), d) = Place(u, e)
    BY <1>1, <2>1, PlaceShift
  <2> HIDE DEF e
  <2>3. Place(u, e) \in Index /\ e = (BufLen + Place(u, e) - (u % BufLen)) % BufLen
    <3>1. e \in 0 .. BufLen
      BY <1>1, <2>1 DEF Index
    <3>2. Place(u, e) \in Index
      BY <1>1, <3>1, PlaceIs, Zenon
    <3>3. QED  BY <1>1, <2>1, <3>2, PlaceInverse
  <2>4. cells'[Place(u, e)] = IF e < b THEN Free ELSE cells[Place(u, e)]
    BY <2>3 DEF UsedAt
  <2>5. CASE d + b < BufLen
    <3>1. e = b + d /\ d + b = b + d /\ ~(e < b)
      BY <1>1, <2>1, <2>5 DEF e
    <3>2. Dropped(Window, b)[d] = Window[b + d] /\ Window[b + d] = cells[Place(u, b + d)]
      BY <2>1, <2>5, <3>1 DEF Dropped, Window
    <3>3. QED  BY <2>2, <2>4, <3>1, <3>2
  <2>6. CASE ~(d + b < BufLen)
    <3>1. e < b
      BY <1>1, <2>1, <2>6 DEF e, Index
    <3>2. Dropped(Window, b)[d] = Free
      BY <2>6 DEF Dropped
    <3>3. QED  BY <2>2, <2>4, <3>1, <3>2
  <2>7. QED  BY <2>5, <2>6
<1>4. QED  BY <1>2, <1>3 DEF Dropped

(* What the gpu thread looks at: the first words of the window.            *)
LEMMA BatchIs ==
  ASSUME pos_used \in Positions, tlen \in Nat
  PROVE  /\ UsedAt \in Index /\ BatchLen \in Nat /\ BatchLen <= tlen /\ BatchLen <= BufLen - UsedAt
         /\ BatchLen = tlen \/ BatchLen = BufLen - UsedAt
         /\ tlen > 0 => BatchLen > 0
         /\ \A d \in 0 .. BatchLen - 1 : d \in Index /\ Place(pos_used, d) = UsedAt + d
         /\ \A d \in 0 .. BatchLen - 1 : Batch[d + 1] = Window[d]
<1>1. UsedAt \in Index /\ BufLen \in Nat /\ BufLen > 1 /\ pos_used \in Nat
  BY PlaceIs, BufLenAssumption DEF UsedAt, Positions, Index
<1>2. /\ BatchLen \in Nat /\ BatchLen <= tlen /\ BatchLen <= BufLen - UsedAt
      /\ BatchLen = tlen \/ BatchLen = BufLen - UsedAt
      /\ tlen > 0 => BatchLen > 0
  BY <1>1 DEF BatchLen, Index
<1>3. ASSUME NEW d \in 0 .. BatchLen - 1
      PROVE  d \in Index /\ Place(pos_used, d) = UsedAt + d
  <2>1. d \in 0 .. BufLen /\ UsedAt + d < BufLen /\ d \in Index
    BY <1>1, <1>2 DEF Index
  <2>2. QED  BY <1>1, <2>1, PlaceIs DEF UsedAt
<1>4. ASSUME NEW d \in 0 .. BatchLen - 1
      PROVE  Batch[d + 1] = Window[d]
  <2>1. d + 1 \in 1 .. BatchLen /\ UsedAt + (d + 1) - 1 = UsedAt + d
    BY <1>1, <1>2 DEF Index
  <2>2. Batch[d + 1] = cells[UsedAt + (d + 1) - 1]
    BY <2>1 DEF Batch
  <2>3. QED  BY <1>3, <2>1, <2>2 DEF Window
<1>5. QED  BY <1>1, <1>2, <1>3, <1>4

(* What the renderer takes, with the special command it stops at, are      *)
(* whole commands among the words the thread was given.                    *)
LEMMA TakenWhole ==
  ASSUME pos_used \in Positions, tlen \in Nat, tlen > 0, cells \in [Index -> Cells],
         NEW n \in 0 .. BufLen, NEW o \in Nat, NEW m \in Nat, Formed(Window, pos_used, n, o, m),
         tlen <= n, tlen <= o, EndsAt(Window, pos_used, tlen),
         NEW t \in 0 .. BatchLen, Takes(t), NEW done,
         done = LET sp == IF t < BatchLen THEN Batch[t + 1].c ELSE Pad.c
                IN  CASE sp.op = "nop" -> t
                      [] sp.op = "dma" -> t + DmaLen(UsedAt + t, sp)
                      [] OTHER -> t + Len0(sp)
  PROVE  /\ done \in 1 .. tlen /\ EndsAt(Window, pos_used, done)
         /\ \A d \in t .. done - 1 : Begins(Window, d) => ~Ordinary(Window[d].c)
<1> DEFINE w == Window
           u == pos_used
<1>1. /\ UsedAt \in Index /\ BatchLen \in Nat /\ BatchLen <= tlen /\ BatchLen <= BufLen - UsedAt
      /\ BatchLen = tlen \/ BatchLen = BufLen - UsedAt
      /\ BatchLen > 0
      /\ \A d \in 0 .. BatchLen - 1 : d \in Index /\ Place(u, d) = UsedAt + d
      /\ \A d \in 0 .. BatchLen - 1 : Batch[d + 1] = w[d]
  BY BatchIs
<1>2. w \in [Index -> Cells] /\ u \in Nat /\ BufLen \in Nat
  <2>1. \A d \in Index : Place(u, d) \in Index
    <3>1. \A d \in Index : d \in 0 .. BufLen
      BY BufLenAssumption DEF Index
    <3>2. u \in Nat
      BY DEF Positions
    <3>3. QED  BY <3>1, <3>2, PlaceIs, Zenon
  <2>2. QED  BY <2>1, BufLenAssumption DEF Window, Positions
<1>3. Formed(w, u, n, o, m) /\ EndsAt(w, u, tlen)
  OBVIOUS
<1>4. t \in Nat /\ t <= BatchLen /\ t <= tlen /\ tlen <= n /\ tlen <= o /\ tlen \in Nat /\ n \in Nat /\ n <= BufLen
  BY <1>1
<1>5. (\A i \in 1 .. t : Ordinary(Batch[i].c)) /\ (t < BatchLen => ~Ordinary(Batch[t + 1].c))
  BY DEF Takes
<1>6. done = LET sp == IF t < BatchLen THEN Batch[t + 1].c ELSE Pad.c
             IN  CASE sp.op = "nop" -> t
                   [] sp.op = "dma" -> t + DmaLen(UsedAt + t, sp)
                   [] OTHER -> t + Len0(sp)
  OBVIOUS
<1> HIDE DEF w, u
<1>7. \A d \in 0 .. t - 1 : d \in 0 .. BatchLen - 1 /\ d \in Index /\ Ordinary(w[d].c)
  <2> SUFFICES ASSUME NEW d \in 0 .. t - 1
               PROVE  d \in 0 .. BatchLen - 1 /\ d \in Index /\ Ordinary(w[d].c)
    OBVIOUS
  <2>1. d + 1 \in 1 .. t /\ d \in 0 .. BatchLen - 1
    BY <1>4, <1>1
  <2>2. QED  BY <1>1, <1>5, <2>1
<1>8. \A c : Ordinary(c) => c.op # "dma"
  BY DEF Ordinary
<1>9. ASSUME NEW h \in 0 .. t - 1, Begins(w, h)
      PROVE  /\ h \in 0 .. n - 1 /\ h \in 0 .. tlen - 1 /\ w[h].c \in Cmds /\ w[h].c.op # "dma"
             /\ LastIn(w, h, o, m) = LastWord(w[h].c)
             /\ LastWord(w[h].c) \in Nat /\ LastWord(w[h].c) = Len0(w[h].c) - 1
             /\ \A k \in Nat : InCmd(w, u, h, k) = h + k
             /\ h + LastWord(w[h].c) < tlen
             /\ \A k \in 0 .. LastWord(w[h].c) : w[h + k] = Word(w[h], k)
             /\ UsedAt + h + LastWord(w[h].c) < BufLen
             /\ w[h] \in Cells
  <2>1. h \in 0 .. n - 1 /\ h \in 0 .. tlen - 1
    BY <1>4
  <2>2. w[h].c \in Cmds /\ w[h].c.op # "dma" /\ Place(u, h) + Len0(w[h].c) <= BufLen /\ w[h] \in Cells
    BY <1>2, <1>3, <1>7, <1>8, <1>9, <2>1, CommandShape
  <2>3. LastWord(w[h].c) \in Nat /\ LastWord(w[h].c) = Len0(w[h].c) - 1
    BY <2>2, LastWordIs
  <2>4. LastIn(w, h, o, m) = LastWord(w[h].c)
    BY <1>4 DEF LastIn
  <2>5. \A k \in Nat : InCmd(w, u, h, k) = h + k
    BY <2>2 DEF InCmd, WordAt
  <2>6. h + LastWord(w[h].c) < tlen
    <3>1. InCmd(w, u, h, LastWord(w[h].c)) < tlen
      BY <1>3, <1>9, <2>1 DEF EndsAt
    <3>2. QED  BY <2>3, <2>5, <3>1
  <2>7. ASSUME NEW k \in 0 .. LastWord(w[h].c)
        PROVE  w[h + k] = Word(w[h], k)
    <3>1. CommandIn(w, u, n, h, LastWord(w[h].c))
      BY <1>3, <1>9, <2>1, <2>4 DEF Formed
    <3>2. QED  BY <2>5, <3>1 DEF CommandIn
  <2>8. UsedAt + h + LastWord(w[h].c) < BufLen
    <3>1. Place(u, h) = UsedAt + h
      BY <1>1, <1>7
    <3>2. UsedAt \in Nat /\ Len0(w[h].c) = LastWord(w[h].c) + 1
      BY <1>1, <2>3, <2>2, LastWordIs DEF Index
    <3>3. QED  BY <1>2, <2>2, <2>3, <3>1, <3>2
  <2>9. QED  BY <2>1, <2>2, <2>3, <2>4, <2>5, <2>6, <2>7, <2>8
<1>10. CASE t = BatchLen
  <2>1. done = t
    BY <1>6, <1>10 DEF Pad, Cell, Cmd
  <2>2. ASSUME NEW h \in 0 .. t - 1, Begins(w, h)
        PROVE  InCmd(w, u, h, LastWord(w[h].c)) < t
    <3>1. /\ InCmd(w, u, h, LastWord(w[h].c)) = h + LastWord(w[h].c)
          /\ h + LastWord(w[h].c) < tlen /\ UsedAt + h + LastWord(w[h].c) < BufLen
          /\ LastWord(w[h].c) \in Nat
      BY <1>9, <2>2
    <3>2. UsedAt \in Nat
      BY <1>1 DEF Index
    <3>3. QED  BY <1>1, <1>2, <1>4, <1>10, <3>1, <3>2
  <2>3. EndsAt(w, u, t)
    BY <2>2 DEF EndsAt
  <2>4. t \in 1 .. tlen /\ \A d : d \notin t .. t - 1
    BY <1>1, <1>4, <1>10
  <2>5. QED  BY <2>1, <2>3, <2>4 DEF w, u
<1>11. CASE t < BatchLen
  <2> DEFINE sp == w[t].c
             at == UsedAt + t
  <2>1. t \in 0 .. BatchLen - 1 /\ t \in Index /\ Place(u, t) = at /\ Batch[t + 1].c = sp
    <3>1. t \in 0 .. BatchLen - 1
      BY <1>1, <1>4, <1>11
    <3>2. QED  BY <1>1, <3>1
  <2>2. ~Ordinary(sp) /\ w[t] \in Cells /\ t \in 0 .. n - 1 /\ t \in 0 .. tlen - 1
    BY <1>1, <1>2, <1>4, <1>5, <1>11, <2>1
  <2> HIDE DEF sp, at
  <2>3. w[t].k = 0
    <3> SUFFICES ASSUME w[t].k # 0  PROVE FALSE
      OBVIOUS
    <3>1. w[t].k > 0
      BY <2>2, CmdFields
    <3>2. PICK h \in 0 .. t - 1 : Begins(w, h) /\ w[h] = Word(w[t], 0)
      BY <1>3, <2>2, <3>1 DEF Formed, WordIn
    <3>3. w[h].c = sp
      BY <2>2, <3>2, WordIs DEF sp
    <3>4. QED  BY <1>7, <2>2, <3>3
  <2>4. Begins(w, t)
    <3>1. w[t] # Pad
      BY <2>2 DEF sp, Ordinary, Pad, Cell, Cmd
    <3>2. QED  BY <2>3, <3>1 DEF Begins
  <2>5. /\ sp \in Cmds /\ at \in Index /\ (sp.op = "dma" => at + 3 <= BufLen)
        /\ LastWord(sp) \in Nat /\ LastIn(w, t, o, m) = LastWord(sp)
    <3>1. sp \in Cmds /\ at \in Index /\ (sp.op = "dma" => at + 3 <= BufLen)
      BY <1>2, <1>3, <2>1, <2>2, <2>4, CommandShape DEF sp
    <3>2. LastIn(w, t, o, m) = LastWord(sp)
      BY <1>4, <2>2 DEF LastIn, sp
    <3>3. QED  BY <3>1, <3>2, LastWordIs
  <2>6. InCmd(w, u, t, LastWord(sp)) = t + WordAt(at, sp, LastWord(sp)) /\ WordAt(at, sp, LastWord(sp)) \in Nat
    <3>1. InCmd(w, u, t, LastWord(sp)) = t + WordAt(at, sp, LastWord(sp))
      BY <2>1 DEF InCmd, sp
    <3>2. QED  BY <2>5, <3>1, WordOrder
  <2>7. done = InCmd(w, u, t, LastWord(sp)) + 1
    <3>1. CASE sp.op = "dma"
      <4>1. done = t + DmaLen(at, sp)
        BY <1>6, <1>11, <2>1, <3>1 DEF at
      <4>2. DmaLen(at, sp) = WordAt(at, sp, LastWord(sp)) + 1
        BY <2>5, <3>1, DmaLenIs
      <4>3. QED  BY <1>4, <2>6, <4>1, <4>2
    <3>2. CASE sp.op # "dma"
      <4>1. sp.op # "nop"
        BY <2>2 DEF Ordinary
      <4>2. done = t + Len0(sp)
        BY <1>6, <1>11, <2>1, <3>2, <4>1
      <4>3. LastWord(sp) = Len0(sp) - 1 /\ Len0(sp) \in 1 .. 4
        BY <2>5, <3>2, LastWordIs
      <4>4. WordAt(at, sp, LastWord(sp)) = LastWord(sp)
        BY <3>2 DEF WordAt
      <4>5. QED  BY <1>4, <2>6, <4>2, <4>3, <4>4
    <3>3. QED  BY <3>1, <3>2
  <2>8. InCmd(w, u, t, LastWord(sp)) < tlen
    BY <1>3, <2>2, <2>4 DEF EndsAt, sp
  <2>9. done \in 1 .. tlen /\ done > t
    BY <1>4, <2>6, <2>7, <2>8
  <2>10. ASSUME NEW h \in 0 .. done - 1, Begins(w, h)
         PROVE  InCmd(w, u, h, LastWord(w[h].c)) < done
    <3>1. CASE h < t
      <4>0. h \in 0 .. t - 1
        BY <1>4, <3>1
      <4>1. /\ InCmd(w, u, h, LastWord(w[h].c)) = h + LastWord(w[h].c) /\ LastWord(w[h].c) \in Nat
            /\ \A k \in 0 .. LastWord(w[h].c) : w[h + k] = Word(w[h], k)
            /\ w[h] \in Cells
        BY <1>9, <2>10, <4>0
      <4>2. CASE h + LastWord(w[h].c) >= t
        <5>1. t - h \in 0 .. LastWord(w[h].c) /\ h + (t - h) = t
          BY <1>4, <4>0, <4>1, <4>2
        <5>2. w[t] = Word(w[h], t - h)
          BY <4>1, <5>1
        <5>3. sp = w[h].c
          BY <4>1, <5>1, <5>2, WordIs DEF sp
        <5>4. QED  BY <1>7, <2>2, <4>0, <5>3
      <4>3. CASE h + LastWord(w[h].c) < t
        BY <1>4, <2>9, <4>1, <4>3
      <4>4. QED  BY <1>4, <4>0, <4>1, <4>2, <4>3
    <3>2. CASE h = t
      BY <1>4, <2>6, <2>7, <3>2 DEF sp
    <3>3. CASE h > t
      <4>1. h \in t + 1 .. InCmd(w, u, t, LastWord(sp))
        BY <1>4, <2>6, <2>7, <3>3
      <4>2. ~Begins(w, h)
        BY <1>2, <1>3, <2>2, <2>4, <2>5, <4>1, InsideCommand
      <4>3. QED  BY <2>10, <4>2
    <3>4. QED  BY <1>4, <3>1, <3>2, <3>3
  <2>11. EndsAt(w, u, done)
    BY <2>10 DEF EndsAt
  <2>12. ASSUME NEW d \in t .. done - 1, Begins(w, d)
         PROVE  ~Ordinary(w[d].c)
    <3>1. CASE d = t
      BY <2>2, <3>1 DEF sp
    <3>2. CASE d # t
      <4>1. d \in t + 1 .. InCmd(w, u, t, LastWord(sp))
        BY <1>4, <2>6, <2>7, <3>2
      <4>2. ~Begins(w, d)
        BY <1>2, <1>3, <2>2, <2>4, <2>5, <4>1, InsideCommand
      <4>3. QED  BY <2>12, <4>2
    <3>3. QED  BY <3>1, <3>2
  <2>13. QED  BY <2>9, <2>11, <2>12 DEF w, u
<1>12. QED  BY <1>4, <1>1, <1>10, <1>11

(* The window is a function of ring words.                                 *)
LEMMA WindowType ==
  ASSUME pos_used \in Positions, cells \in [Index -> Cells]
  PROVE  Window \in [Index -> Cells] /\ pos_used \in Nat /\ BufLen \in Nat
<1>1. \A d \in Index : Place(pos_used, d) \in Index
  <2>1. \A d \in Index : d \in 0 .. BufLen
    BY BufLenAssumption DEF Index
  <2>2. pos_used \in Nat
    BY DEF Positions
  <2>3. QED  BY <2>1, <2>2, PlaceIs, Zenon
<1>2. QED  BY <1>1, BufLenAssumption DEF Window, Positions

(* Every word in use but a zero is a word of a command that begins no      *)
(* later, and so are the words up to the last that is in.                  *)
LEMMA WordOf ==
  ASSUME NEW w \in [Index -> Cells], NEW u \in Nat, NEW n \in 0 .. BufLen, NEW o, NEW m,
         Formed(w, u, n, o, m), NEW d \in 0 .. n - 1, w[d] # Pad
  PROVE  \E h \in 0 .. d : /\ Begins(w, h) /\ w[h] = Word(w[d], 0) /\ w[d] = Word(w[h], w[d].k)
                           /\ d = InCmd(w, u, h, w[d].k) /\ (w[d].k = 0 \/ w[d].k <= LastIn(w, h, o, m))
<1>1. w[d] \in Cells /\ w[d].k \in Nat /\ BufLen \in Nat
  <2>1. d \in Index
    BY BufLenAssumption DEF Index
  <2>2. QED  BY <2>1, CmdFields, BufLenAssumption
<1>2. CASE w[d].k = 0
  <2>1. Begins(w, d)
    BY <1>2 DEF Begins
  <2>2. w[d] = Word(w[d], 0) /\ d = InCmd(w, u, d, 0) /\ d \in 0 .. d
    BY <1>1, <1>2, <2>1, WordIs, CommandShape
  <2>3. QED  BY <1>2, <2>1, <2>2
<1>3. CASE w[d].k > 0
  <2>1. PICK h \in 0 .. d - 1 : /\ Begins(w, h) /\ w[h] = Word(w[d], 0)
                                /\ d = InCmd(w, u, h, w[d].k) /\ w[d].k <= LastIn(w, h, o, m)
    BY <1>3 DEF Formed, WordIn
  <2>2. w[d] = Word(w[h], w[d].k)
    BY <1>1, <2>1, WordIs
  <2>3. h \in 0 .. d
    OBVIOUS
  <2>4. QED  BY <2>1, <2>2, <2>3
<1>4. QED  BY <1>1, <1>2, <1>3

(* Every command that is in whole lies in one piece, an upload line by     *)
(* line.                                                                   *)
LEMMA InOnePiece ==
  ASSUME NEW w \in [Index -> Cells], NEW u \in Nat, NEW n \in 0 .. BufLen, NEW o, NEW m,
         Formed(w, u, n, o, m), NEW h \in 0 .. n - 1, Begins(w, h),
         NEW last \in Nat, last = LastIn(w, h, o, m),
         w[h].c.op # "dma" => last = LastWord(w[h].c),
         w[h].c.op = "dma" => \E l \in Nat : last = 2 + w[h].c.s * l,
         NEW d \in 0 .. n - 1, NEW k \in 0 .. last, d = InCmd(w, u, h, k), w[d] = Word(w[h], k),
         NEW j \in 1 .. Piece(w[d])
  PROVE  /\ d + j < n /\ w[d + j] = Word(w[h], k + j)
         /\ Place(u, d) + j < BufLen
<1> DEFINE at == Place(u, h)
           c == w[h].c
           F == Fitting(at, c)
<1>1. /\ c \in Cmds /\ at \in Index /\ h \in Nat /\ BufLen \in Nat /\ w[h] \in Cells /\ k \in Nat
      /\ at + Len0(c) <= BufLen
      /\ c.op = "dma" => at + 3 <= BufLen
  BY CommandShape, BufLenAssumption
<1>2. \A i \in 0 .. last : InCmd(w, u, h, i) < n /\ w[InCmd(w, u, h, i)] = Word(w[h], i)
  BY DEF Formed, CommandIn
<1>3. w[d].c = c /\ w[d].k = k
  BY <1>1, WordIs
<1>4. \A i : InCmd(w, u, h, i) = h + WordAt(at, c, i)
  BY DEF InCmd
<1>5. d = h + WordAt(at, c, k) /\ WordAt(at, c, k) \in Nat
  BY <1>1, <1>4, WordOrder
<1>6. j \in Nat /\ j >= 1
  OBVIOUS
<1>7. j <= Piece(w[d])
  <2>1. Piece(w[d]) \in Int
    <3>1. LastWord(c) \in Int
      BY <1>1, LastWordIs
    <3>2. c.op = "dma" => c.s \in Nat \ {0}
      BY <1>1, CmdFields
    <3>3. c.op = "dma" /\ k >= 3 => (k - 3) % c.s \in Int
      BY <1>1, <3>2
    <3>4. QED  BY <1>1, <1>3, <3>1, <3>2, <3>3 DEF Piece
  <2>2. QED  BY <2>1
<1>8. c.op # "dma" => last = LastWord(c)
  OBVIOUS
<1>9. c.op = "dma" => \E l \in Nat : last = 2 + c.s * l
  OBVIOUS
<1> HIDE DEF at, c, F
<1>10. ASSUME k + j <= last, WordAt(at, c, k + j) = WordAt(at, c, k) + j
       PROVE  d + j < n /\ w[d + j] = Word(w[h], k + j)
  <2>1. k + j \in 0 .. last
    BY <1>1, <1>6, <1>10
  <2>2. InCmd(w, u, h, k + j) = d + j
    BY <1>1, <1>4, <1>5, <1>6, <1>10
  <2>3. QED  BY <1>2, <2>1, <2>2
<1>11. CASE c.op # "dma" \/ k < 3
  <2>1. /\ k + j <= last /\ k + j < Len0(c) /\ (c.op # "dma" \/ k + j < 3) /\ Len0(c) \in Nat
    <3>1. CASE c.op # "dma"
      <4>1. Piece(w[d]) = LastWord(c) - k
        BY <1>3, <3>1 DEF Piece
      <4>2. LastWord(c) = Len0(c) - 1 /\ Len0(c) \in 1 .. 4
        BY <1>1, <3>1, LastWordIs
      <4>3. QED  BY <1>1, <1>6, <1>7, <1>8, <3>1, <4>1, <4>2
    <3>2. CASE c.op = "dma"
      <4>1. Piece(w[d]) = 2 - k
        BY <1>3, <1>11, <3>2 DEF Piece
      <4>2. Len0(c) = 3
        BY <1>1, <3>2, LastWordIs
      <4>3. last >= 2
        <5>1. PICK l \in Nat : last = 2 + c.s * l
          BY <1>9, <3>2
        <5>2. c.s * l \in Nat
          BY <1>1, <3>2, CmdFields
        <5>3. QED  BY <5>1, <5>2
      <4>4. QED  BY <1>1, <1>6, <1>7, <4>1, <4>2, <4>3
    <3>3. QED  BY <3>1, <3>2
  <2>2. WordAt(at, c, k) = k /\ WordAt(at, c, k + j) = k + j
    BY <1>1, <1>6, <1>11, <2>1, WordOrder
  <2>3. Place(u, d) = at + k
    <3>1. h + k <= BufLen /\ d = h + k
      BY <1>1, <1>5, <2>2
    <3>2. Place(u, h + k) = IF at + k >= BufLen THEN at + k - BufLen ELSE at + k
      BY <1>1, <3>1, PlaceNear DEF at
    <3>3. ~(at + k >= BufLen)
      BY <1>1, <1>6, <2>1 DEF Index
    <3>4. QED  BY <3>1, <3>2, <3>3
  <2>4. Place(u, d) + j < BufLen
    BY <1>1, <1>6, <2>1, <2>3 DEF Index
  <2>5. QED  BY <1>10, <2>1, <2>2, <2>4
<1>12. CASE c.op = "dma" /\ k >= 3
  <2>1. j <= c.s - 1 - ((k - 3) % c.s)
    BY <1>1, <1>3, <1>7, <1>12 DEF Piece
  <2>2. /\ WordAt(at, c, k + j) = WordAt(at, c, k) + j
        /\ k < 3 + F => k + j < 3 + F
        /\ \A l \in Nat : k < 3 + c.s * l => k + j < 3 + c.s * l
    BY <1>1, <1>6, <1>12, <2>1, SameLine DEF F
  <2>3. k + j <= last
    <3>1. PICK l \in Nat : last = 2 + c.s * l
      BY <1>9, <1>12
    <3>2. c.s * l \in Nat
      BY <1>1, <1>12, CmdFields
    <3>3. k < 3 + c.s * l
      BY <1>1, <3>1, <3>2
    <3>4. k + j < 3 + c.s * l
      BY <2>2, <3>3
    <3>5. QED  BY <1>1, <1>6, <3>1, <3>2, <3>4
  <2>4. d + j < n /\ w[d + j] = Word(w[h], k + j)
    BY <1>10, <2>2, <2>3
  <2>5. F \in Nat /\ F <= BufLen - at - 3 /\ at \in Nat
    BY <1>1, <1>12, UploadShape DEF F, Index
  <2>6. \A i \in Nat : WordAt(at, c, i) = IF i >= 3 + F THEN BufLen - at + (i - 3 - F) ELSE i
    BY <1>12 DEF WordAt, F
  <2>7. h + WordAt(at, c, k) <= BufLen
    BY <1>1, <1>5
  <2>8. Place(u, d) = IF at + WordAt(at, c, k) >= BufLen THEN at + WordAt(at, c, k) - BufLen
                                                        ELSE at + WordAt(at, c, k)
    BY <1>1, <1>5, <2>7, PlaceNear DEF at
  <2>9. Place(u, d) + j < BufLen
    <3>1. CASE k < 3 + F
      <4>1. WordAt(at, c, k) = k /\ k + j < 3 + F
        BY <1>1, <2>2, <2>5, <2>6, <3>1
      <4>2. Place(u, d) = at + k
        BY <1>1, <1>6, <2>5, <2>8, <4>1
      <4>3. QED  BY <1>1, <1>6, <2>5, <4>1, <4>2
    <3>2. CASE k >= 3 + F
      <4>1. WordAt(at, c, k) = BufLen - at + (k - 3 - F)
        BY <1>1, <2>5, <2>6, <3>2
      <4>2. Place(u, d) = k - 3 - F
        BY <1>1, <2>5, <2>8, <3>2, <4>1
      <4>3. QED  BY <1>1, <1>5, <1>6, <2>4, <2>5, <3>2, <4>1, <4>2
    <3>3. QED  BY <1>1, <2>5, <3>1, <3>2
  <2>10. QED  BY <2>4, <2>9
<1>13. QED  BY <1>1, <1>11, <1>12

(* The next word of a command follows, after the zeros at the end of the   *)
(* ring if it is the first that does not fit before it.                    *)
LEMMA NextWord ==
  ASSUME NEW w \in [Index -> Cells], NEW u \in Nat, NEW n \in 0 .. BufLen, NEW o, NEW m,
         Formed(w, u, n, o, m), NEW h \in 0 .. n - 1, Begins(w, h),
         NEW last \in Nat, last = LastIn(w, h, o, m),
         NEW d \in 0 .. n - 1, NEW k \in Nat, k < last, d = InCmd(w, u, h, k)
  PROVE  \E e \in d + 1 .. n - 1 : /\ w[e] = Word(w[h], k + 1)
                                   /\ \A x \in d + 1 .. e - 1 : w[x] = Pad
<1> DEFINE at == Place(u, h)
           c == w[h].c
           F == Fitting(at, c)
           e == InCmd(w, u, h, k + 1)
<1>1. /\ c \in Cmds /\ at \in Index /\ h \in Nat /\ BufLen \in Nat /\ k + 1 \in 0 .. last
      /\ c.op = "dma" => at + 3 <= BufLen
  BY CommandShape, BufLenAssumption
<1>2. /\ e < n /\ w[e] = Word(w[h], k + 1)
      /\ c.op = "dma" /\ last >= 3 + F => \A x \in h + 3 + F .. h + BufLen - at - 1 : w[x] = Pad
  BY <1>1 DEF Formed, CommandIn
<1>3. \A i : InCmd(w, u, h, i) = h + IF c.op = "dma" /\ i >= 3 + F THEN BufLen - at + (i - 3 - F) ELSE i
  BY DEF InCmd, WordAt
<1>4. ASSUME c.op = "dma"  PROVE F \in Nat /\ F <= BufLen - at - 3 /\ at \in Nat
  <2>1. at + 3 <= BufLen
    BY <1>1, <1>4
  <2> HIDE DEF at, c
  <2>2. QED  BY <1>1, <1>4, <2>1, UploadShape DEF F, Index
<1>5. /\ d = h + IF c.op = "dma" /\ k >= 3 + F THEN BufLen - at + (k - 3 - F) ELSE k
      /\ e = h + IF c.op = "dma" /\ k + 1 >= 3 + F THEN BufLen - at + ((k + 1) - 3 - F) ELSE k + 1
  <2>1. e = InCmd(w, u, h, k + 1)
    OBVIOUS
  <2> HIDE DEF at, c, F, e
  <2>2. InCmd(w, u, h, k) = h + IF c.op = "dma" /\ k >= 3 + F THEN BufLen - at + (k - 3 - F) ELSE k
    BY <1>3
  <2>3. InCmd(w, u, h, k + 1) =
          h + IF c.op = "dma" /\ k + 1 >= 3 + F THEN BufLen - at + ((k + 1) - 3 - F) ELSE k + 1
    <3> DEFINE i == k + 1
    <3> HIDE DEF i
    <3>1. InCmd(w, u, h, i) = h + IF c.op = "dma" /\ i >= 3 + F THEN BufLen - at + (i - 3 - F) ELSE i
      BY <1>3
    <3>2. QED  BY <3>1 DEF i
  <2>4. d = InCmd(w, u, h, k)
    OBVIOUS
  <2>5. QED  BY <2>1, <2>2, <2>3, <2>4
<1> HIDE DEF at, c, F, e
<1>6. CASE c.op = "dma" /\ k + 1 = 3 + F
  <2>1. d = h + k /\ e = h + (BufLen - at) /\ k < 3 + F
    BY <1>1, <1>4, <1>5, <1>6
  <2>2. e \in d + 1 .. n - 1
    BY <1>1, <1>2, <1>4, <1>6, <2>1
  <2>3. \A x \in d + 1 .. e - 1 : w[x] = Pad
    <3>1. d + 1 = h + 3 + F /\ e - 1 = h + BufLen - at - 1
      BY <1>1, <1>4, <1>6, <2>1
    <3>2. last >= 3 + F
      BY <1>1, <1>4, <1>6
    <3>3. QED  BY <1>2, <1>6, <3>1, <3>2
  <2>4. QED  BY <1>2, <2>2, <2>3
<1>7. CASE c.op # "dma" \/ k + 1 # 3 + F
  <2>1. e = d + 1
    <3>1. CASE c.op # "dma"
      BY <1>1, <1>5, <3>1
    <3>2. CASE c.op = "dma" /\ k + 1 < 3 + F
      <4>1. ~(k >= 3 + F) /\ ~(k + 1 >= 3 + F)
        BY <1>4, <3>2
      <4>2. QED  BY <1>1, <1>5, <4>1
    <3>3. CASE c.op = "dma" /\ k + 1 > 3 + F
      <4>1. k >= 3 + F /\ k + 1 >= 3 + F
        BY <1>4, <3>3
      <4>2. d = h + (BufLen - at + (k - 3 - F)) /\ e = h + (BufLen - at + ((k + 1) - 3 - F))
        BY <1>5, <3>3, <4>1
      <4>3. QED  BY <1>1, <1>4, <3>3, <4>2
    <3>4. QED  BY <1>4, <1>7, <3>1, <3>2, <3>3
  <2>2. e \in d + 1 .. n - 1 /\ d + 1 .. e - 1 = {}
    BY <1>2, <2>1
  <2>3. QED  BY <1>2, <2>2
<1>8. QED  BY <1>6, <1>7

(* The variables of the ring have their types.                             *)
LEMMA RingTypes ==
  ASSUME TypeOK
  PROVE  /\ pos_used \in Positions /\ pos_added \in Positions /\ WritePos \in Positions
         /\ cells \in [Index -> Cells] /\ Window \in [Index -> Cells]
         /\ pos_used \in Nat /\ BufLen \in Nat /\ Added \in Nat /\ Written \in Nat
         /\ op.rest \in Seq(Cmds) /\ op.unh \in Seq(Cells) /\ op.pa \in Positions /\ op.line \in Nat
<1>1. /\ pos_used \in Positions /\ pos_added \in Positions /\ cells \in [Index -> Cells]
      /\ op \in OpRecords
  BY DEF TypeOK
<1>2. op.rest \in Seq(Cmds) /\ op.unh \in Seq(Cells) /\ op.pa \in Positions /\ op.line \in Nat
  BY <1>1, OpFields
<1>3. WritePos \in Positions
  BY <1>1, <1>2 DEF WritePos
<1>4. Added \in Nat /\ Written \in Nat
  BY <1>1, <1>3, PositionArithmetic DEF Added, Written
<1>5. Window \in [Index -> Cells] /\ pos_used \in Nat /\ BufLen \in Nat
  BY <1>1, WindowType, Zenon
<1>6. QED  BY <1>1, <1>2, <1>3, <1>4, <1>5

(* A command in the ring is in whole, or it is the upload in progress and  *)
(* its header and some lines are in.                                       *)
LEMMA LastFacts ==
  ASSUME TypeOK, RingInv, NEW h \in 0 .. Written - 1, Begins(Window, h)
  PROVE  /\ LastIn(Window, h, Open, WordsIn) \in Nat
         /\ Window[h].c.op # "dma" => LastIn(Window, h, Open, WordsIn) = LastWord(Window[h].c)
         /\ Window[h].c.op = "dma" =>
              \E l \in Nat : LastIn(Window, h, Open, WordsIn) = 2 + Window[h].c.s * l
         /\ mpc # "dma" => LastIn(Window, h, Open, WordsIn) = LastWord(Window[h].c)
<1> DEFINE c == Window[h].c
           last == LastIn(Window, h, Open, WordsIn)
<1>1. Window \in [Index -> Cells] /\ Added \in Nat /\ Written \in 0 .. BufLen /\ op.line \in Nat
      /\ BufLen \in Nat /\ op.rest \in Seq(Cmds)
  BY RingTypes DEF RingInv, WordsInv
<1>2. c \in Cmds
  <2>1. h \in Index
    BY <1>1 DEF Index
  <2>2. QED  BY <1>1, <2>1, CmdFields
<1>3. LastWord(c) \in Nat /\ (c.op = "dma" => LastWord(c) = 2 + c.s * c.h /\ c.h \in Nat)
  BY <1>2, LastWordIs, CmdFields
<1>4. CASE ~(h >= Open)
  <2>1. last = LastWord(c)
    BY <1>4 DEF LastIn
  <2> HIDE DEF last, c
  <2>2. c.op = "dma" => \E l \in Nat : last = 2 + c.s * l
    BY <1>3, <2>1
  <2>3. last \in Nat /\ (c.op # "dma" => last = LastWord(c)) /\ (mpc # "dma" => last = LastWord(c))
    BY <1>3, <2>1
  <2>4. QED  BY <2>2, <2>3 DEF last, c
<1>5. CASE h >= Open
  <2>1. Lines # 0
    BY <1>1, <1>5 DEF Open
  <2>2. mpc = "dma" /\ op.line > 0 /\ Open = Added /\ WordsIn = 3 + (op.line - 1) * Head(op.rest).s
    BY <1>1, <2>1 DEF Lines, Open, WordsIn
  <2>3. Window[h] = Cell(Head(op.rest), {}, 0) /\ op.rest # <<>> /\ Head(op.rest) \in Dmas
    <3>1. PICK h0 \in Added .. Written - 1 :
             /\ Window[h0] = Cell(Head(op.rest), {}, 0)
             /\ \A d \in Added .. Written - 1 : Begins(Window, d) => d = h0
      BY <2>2 DEF RingInv, UploadInv
    <3>2. h \in Added .. Written - 1
      BY <1>1, <1>5, <2>2
    <3>3. h = h0
      BY <3>1, <3>2
    <3>4. QED  BY <2>2, <3>1, <3>3 DEF RingInv, UploadInv
  <2>4. c = Head(op.rest) /\ c.op = "dma"
    BY <2>3, CmdAssumption DEF Cell
  <2>5. last = WordsIn - 1
    BY <1>5 DEF LastIn
  <2> DEFINE l == op.line - 1
  <2>6. last = 2 + c.s * l /\ l \in Nat /\ c.s \in Nat /\ c.s * l \in Nat
    <3> HIDE DEF c, last
    <3>1. l \in Nat /\ c.s \in Nat /\ Head(op.rest).s = c.s
      BY <1>1, <1>2, <2>2, <2>4, CmdFields
    <3>2. l * c.s = c.s * l /\ c.s * l \in Nat
      BY <3>1
    <3>3. last = 3 + l * c.s - 1
      BY <2>2, <2>5, <3>1
    <3> HIDE DEF l
    <3>4. QED  BY <3>1, <3>2, <3>3
  <2> HIDE DEF last, c, l
  <2>7. QED  BY <2>2, <2>4, <2>6 DEF last, c
<1>6. QED  BY <1>4, <1>5

(* In its window the ring is as RingSafe says.                             *)
LEMMA SafeWindow ==
  ASSUME TypeOK, RingInv, NEW d \in 0 .. Written - 1, Window[d] # Pad
  PROVE  /\ \A j \in 1 .. Piece(Window[d]) :
              /\ d + j < Written /\ Window[d + j] = Word(Window[d], Window[d].k + j)
              /\ Place(pos_used, d) + j < BufLen
         /\ Window[d].k < LastWord(Window[d].c) /\ mpc # "dma" =>
              \E e \in d + 1 .. Written - 1 :
                /\ Window[e] = Word(Window[d], Window[d].k + 1)
                /\ \A x \in d + 1 .. e - 1 : Window[x] = Pad
<1> DEFINE w == Window
           u == pos_used
           n == Written
           o == Open
           m == WordsIn
           k == w[d].k
<1>1. /\ w \in [Index -> Cells] /\ u \in Nat /\ n \in 0 .. BufLen /\ Formed(w, u, n, o, m)
      /\ BufLen \in Nat
  BY RingTypes DEF RingInv, WordsInv
<1>2. d \in 0 .. n - 1 /\ w[d] # Pad /\ w[d] \in Cells /\ k \in Nat
  <2>1. d \in Index
    BY <1>1 DEF Index
  <2>2. QED  BY <1>1, <2>1, CmdFields
<1> HIDE DEF w, u, n, o, m
<1>3. PICK h \in 0 .. d : /\ Begins(w, h) /\ w[h] = Word(w[d], 0) /\ w[d] = Word(w[h], w[d].k)
                          /\ d = InCmd(w, u, h, w[d].k) /\ (w[d].k = 0 \/ w[d].k <= LastIn(w, h, o, m))
  BY <1>1, <1>2, WordOf, Zenon
<1>4. h \in 0 .. n - 1 /\ h \in 0 .. Written - 1
  BY <1>1, <1>2 DEF n
<1> DEFINE last == LastIn(w, h, o, m)
<1>5. /\ last \in Nat
      /\ w[h].c.op # "dma" => last = LastWord(w[h].c)
      /\ w[h].c.op = "dma" => \E l \in Nat : last = 2 + w[h].c.s * l
      /\ mpc # "dma" => last = LastWord(w[h].c)
  BY <1>3, <1>4, LastFacts DEF w, o, m
<1>6. w[h] \in Cells /\ w[d].c = w[h].c /\ \A j \in Nat : Word(w[h], j) = Word(w[d], j)
  <2>1. h \in Index
    BY <1>1, <1>4 DEF Index
  <2>2. w[h] \in Cells
    BY <1>1, <2>1
  <2>3. QED  BY <1>2, <1>3, <2>2, WordIff
<1>7. k \in 0 .. last
  <2> HIDE DEF last, k
  <2>1. k = 0 \/ k <= last
    BY <1>3 DEF last, k
  <2>2. QED  BY <1>2, <1>5, <2>1
<1>8. ASSUME NEW j \in 1 .. Piece(w[d])
      PROVE  d + j < n /\ w[d + j] = Word(w[d], w[d].k + j) /\ Place(u, d) + j < BufLen
  <2>1. w[d] = Word(w[h], k) /\ d = InCmd(w, u, h, k) /\ last = LastIn(w, h, o, m) /\ Begins(w, h)
    BY <1>3
  <2> HIDE DEF k, last
  <2>2. d + j < n /\ w[d + j] = Word(w[h], k + j) /\ Place(u, d) + j < BufLen
    BY <1>1, <1>2, <1>4, <1>5, <1>7, <2>1, InOnePiece
  <2>3. k + j \in Nat
    BY <1>2
  <2>4. QED  BY <1>6, <2>2, <2>3 DEF k
<1>9. ASSUME w[d].k < LastWord(w[d].c), mpc # "dma"
      PROVE  \E e \in d + 1 .. n - 1 :
                /\ w[e] = Word(w[d], w[d].k + 1)
                /\ \A x \in d + 1 .. e - 1 : w[x] = Pad
  <2>1. k < last
    BY <1>5, <1>6, <1>9
  <2>2. d = InCmd(w, u, h, k) /\ last = LastIn(w, h, o, m) /\ Begins(w, h) /\ k \in Nat /\ last \in Nat
    BY <1>2, <1>3, <1>5
  <2> HIDE DEF k, last
  <2>3. \E e \in d + 1 .. n - 1 : /\ w[e] = Word(w[h], k + 1)
                                   /\ \A x \in d + 1 .. e - 1 : w[x] = Pad
    BY <1>1, <1>2, <1>4, <2>1, <2>2, NextWord
  <2>4. Word(w[h], k + 1) = Word(w[d], k + 1)
    BY <1>2, <1>6
  <2>5. QED  BY <2>3, <2>4 DEF k
<1>10. QED  BY <1>8, <1>9 DEF w, u, n

(* The words in use are the window's first, and those the thread takes are *)
(* among them: with SafeWindow, RingSafe.                                  *)
LEMMA RingInvIsSafe == TypeOK /\ RingInv => RingSafe /\ DmaFits
<1> SUFFICES ASSUME TypeOK, RingInv  PROVE RingSafe /\ DmaFits
  OBVIOUS
<1> DEFINE ws == InRing(pos_used, WritePos)
           n == Written
           used(i) == (BufLen + i - UsedAt) % BufLen < Len(ws)
           next(w) == [w EXCEPT !.k = @ + 1]
<1>1. /\ Window \in [Index -> Cells] /\ pos_used \in Nat /\ n \in 0 .. BufLen /\ BufLen \in Nat
      /\ Formed(Window, pos_used, n, Open, WordsIn) /\ pos_used \in Positions
  BY RingTypes DEF RingInv, WordsInv
<1>2. ws = [i \in 1 .. n |-> cells[(pos_used + i - 1) % BufLen]]
  BY DEF InRing, Written
<1>3. Len(ws) = n /\ DOMAIN ws = 1 .. n
  BY <1>1, <1>2
<1>4. \A i \in 1 .. n : ws[i] = Window[i - 1] /\ i - 1 \in Index
  <2> SUFFICES ASSUME NEW i \in 1 .. n  PROVE ws[i] = Window[i - 1] /\ i - 1 \in Index
    OBVIOUS
  <2> HIDE DEF n
  <2>1. i - 1 \in Index
    BY <1>1 DEF Index
  <2>2. Window[i - 1] = cells[(pos_used + (i - 1)) % BufLen]
    BY <2>1 DEF Window, Place
  <2>3. QED  BY <1>2, <2>1, <2>2
<1> HIDE DEF ws, n
<1>5. \A i \in Index : cells[i].c.op = "free" <=> ~used(i)
  <2> SUFFICES ASSUME NEW i \in Index  PROVE cells[i].c.op = "free" <=> ~used(i)
    OBVIOUS
  <2> DEFINE d == (BufLen + i - (pos_used % BufLen)) % BufLen
  <2>1. d \in Index /\ Place(pos_used, d) = i
    BY <1>1, PlaceInverse
  <2> HIDE DEF d
  <2>2. Window[d] = cells[i]
    BY <2>1 DEF Window
  <2>3. cells[i].c.op = "free" <=> d >= n
    BY <1>1, <2>1, <2>2 DEF Formed
  <2>4. used(i) <=> d < n
    BY <1>3 DEF d, UsedAt
  <2> HIDE DEF used
  <2>5. d \in Int
    BY <2>1 DEF Index
  <2>6. QED  BY <1>1, <2>3, <2>4, <2>5
<1>6. ASSUME NEW i \in 1 .. n, ws[i] # Pad
      PROVE  /\ \A j \in 1 .. Piece(ws[i]) :
                  /\ i + j <= n /\ ws[i + j] = [ws[i] EXCEPT !.k = @ + j]
                  /\ ((pos_used + i - 1) % BufLen) + j < BufLen
             /\ ws[i].k < LastWord(ws[i].c) /\ mpc # "dma" =>
                  \E j \in i + 1 .. n :
                    ws[j] = next(ws[i]) /\ \A x \in i + 1 .. j - 1 : ws[x] = Pad
  <2> DEFINE d == i - 1
             v == Window[d]
  <2>1. d \in 0 .. n - 1 /\ v = ws[i] /\ v # Pad /\ i = d + 1 /\ d \in Nat /\ n \in Nat
    BY <1>1, <1>4, <1>6
  <2>2. d \in 0 .. Written - 1
    BY <2>1 DEF n
  <2> HIDE DEF d, v
  <2>3. Window[d] # Pad
    BY <2>1 DEF v
  <2>4. ASSUME NEW j \in 1 .. Piece(v)
        PROVE  /\ i + j <= n /\ ws[i + j] = [v EXCEPT !.k = @ + j]
               /\ ((pos_used + i - 1) % BufLen) + j < BufLen
    <3>1. d + j < n /\ Window[d + j] = Word(v, v.k + j) /\ Place(pos_used, d) + j < BufLen
      BY <2>2, <2>3, SafeWindow DEF v, n
    <3>2. j \in Int /\ j >= 1
      <4>1. v \in Cells
        <5>1. d \in Index
          BY <1>1, <2>1 DEF Index
        <5>2. QED  BY <1>1, <5>1 DEF v
      <4>2. Piece(v) \in Int
        <5>1. v.c \in Cmds /\ v.k \in Nat /\ LastWord(v.c) \in Nat /\ v.c.s \in Nat
              /\ (v.c.op = "dma" => v.c.s > 0)
          BY <4>1, CmdFields, LastWordIs
        <5>2. v.c.op = "dma" /\ ~(v.k < 3) => (v.k - 3) % v.c.s \in Int
          BY <5>1
        <5>3. QED  BY <5>1, <5>2 DEF Piece
      <4>3. QED  BY <4>2
    <3>3. i + j <= n /\ i + j \in 1 .. n /\ (i + j) - 1 = d + j
      BY <2>1, <3>1, <3>2
    <3>4. ws[i + j] = Window[d + j]
      BY <1>4, <3>3
    <3>5. Word(v, v.k + j) = [v EXCEPT !.k = @ + j]
      BY DEF Word
    <3>6. Place(pos_used, d) = (pos_used + i - 1) % BufLen
      BY DEF Place, d
    <3>7. QED  BY <3>1, <3>3, <3>4, <3>5, <3>6
  <2>5. ASSUME v.k < LastWord(v.c), mpc # "dma"
        PROVE  \E j \in i + 1 .. n : ws[j] = next(v) /\ \A x \in i + 1 .. j - 1 : ws[x] = Pad
    <3>1. PICK e \in d + 1 .. n - 1 :
             Window[e] = Word(v, v.k + 1) /\ \A x \in d + 1 .. e - 1 : Window[x] = Pad
      BY <2>2, <2>3, <2>5, SafeWindow DEF v, n
    <3> DEFINE j == e + 1
    <3>2. j \in i + 1 .. n /\ j \in 1 .. n /\ j - 1 = e
      BY <2>1
    <3>3. ws[j] = Window[e]
      BY <1>4, <3>2
    <3> HIDE DEF j
    <3>4. Word(v, v.k + 1) = next(v)
      BY DEF Word
    <3>5. ASSUME NEW x \in i + 1 .. j - 1  PROVE ws[x] = Pad
      <4>1. x \in 1 .. n /\ x - 1 \in d + 1 .. e - 1
        BY <2>1, <3>2
      <4>2. QED  BY <1>4, <3>1, <4>1
    <3>6. QED  BY <3>1, <3>2, <3>3, <3>4, <3>5
  <2>6. QED  BY <2>1, <2>4, <2>5
<1>7. ws # <<>> => ws[1].k = 0
  <2> SUFFICES ASSUME ws # <<>>  PROVE ws[1].k = 0
    OBVIOUS
  <2>1. n > 0
    <3>1. CASE n = 0
      BY <1>2, <3>1 DEF ws
    <3>2. QED  BY <1>1, <3>1
  <2>2. ws[1] = Window[0] /\ 0 \in 0 .. n - 1 /\ 0 \in Index
    BY <1>1, <1>4, <2>1 DEF Index
  <2>3. Window[0].k \in Nat
    BY <1>1, <2>2, CmdFields
  <2>4. ~(Window[0].k > 0)
    <3>1. Window[0].k > 0 => WordIn(Window, pos_used, 0, Open, WordsIn)
      BY <1>1, <2>2 DEF Formed
    <3>2. ~WordIn(Window, pos_used, 0, Open, WordsIn)
      BY DEF WordIn
    <3>3. QED  BY <3>1, <3>2
  <2>5. QED  BY <2>2, <2>3, <2>4
<1>8. /\ tpc = "done" => tdone \in 1 .. Diff(pos_added, pos_used)
      /\ tpc = "render" => tlen <= Diff(pos_added, pos_used)
  BY DEF RingInv, TakenInv, Added
<1>9. Len(ws) <= BufLen
  BY <1>1, <1>3
<1> HIDE DEF used, next
<1>10. DmaFits
  BY DEF RingInv, UploadInv, DmaFits
<1>11. RingSafe
  <2>1. \A i \in DOMAIN ws : LET w == ws[i] IN
           w # Pad =>
             /\ \A j \in 1 .. Piece(w) :
                  /\ i + j <= Len(ws) /\ ws[i + j] = [w EXCEPT !.k = @ + j]
                  /\ ((pos_used + i - 1) % BufLen) + j < BufLen
             /\ w.k < LastWord(w.c) /\ mpc # "dma" =>
                  \E j \in i + 1 .. Len(ws) :
                    ws[j] = next(w) /\ \A x \in i + 1 .. j - 1 : ws[x] = Pad
    BY <1>3, <1>6, Zenon
  <2>2. QED  BY <1>5, <1>7, <1>8, <1>9, <2>1, Zenon DEF RingSafe, ws, used, next
<1>12. QED  BY <1>10, <1>11

(* What stays when neither the ring nor the main thread moves.             *)
LEMMA MainStays ==
  ASSUME UNCHANGED <<ringVars, mainVars>>, RetInv, WordsInv, UploadInv
  PROVE  RetInv' /\ WordsInv' /\ UploadInv' /\ Window' = Window /\ Added' = Added
<1>1. Window' = Window /\ Added' = Added /\ WritePos' = WritePos /\ Written' = Written
  <2>1. Window' = Window
    BY DEF Window, Place
  <2>2. Added' = Added
    BY DEF Added
  <2>3. WritePos' = WritePos
    BY DEF WritePos
  <2>4. Written' = Written
    BY <2>3 DEF Written
  <2>5. QED  BY <2>1, <2>2, <2>3, <2>4
<1>2. Lines' = Lines /\ WordsIn' = WordsIn /\ Open' = Open
  <2>1. Lines' = Lines
    BY DEF Lines
  <2>2. WordsIn' = WordsIn
    BY <2>1 DEF WordsIn
  <2>3. Open' = Open
    BY <1>1, <2>1 DEF Open
  <2>4. QED  BY <2>1, <2>2, <2>3
<1>3. RetInv'
  BY DEF RetInv
<1>4. WordsInv'
  BY <1>1, <1>2 DEF WordsInv
<1>5. UploadInv'
  <2>1. Room(WritePos)' = Room(WritePos)
    BY <1>1 DEF Room
  <2>2. QED  BY <1>1, <1>2, <2>1 DEF UploadInv
<1>6. QED  BY <1>1, <1>3, <1>4, <1>5

(* What the gpu thread has taken stays published, and ends with a command, *)
(* when the main thread adds to the ring.                                  *)
LEMMA TakenStays ==
  ASSUME TakenInv, Added \in Nat, Added' \in Nat, Added <= Added', tlen \in Nat, tdone \in Nat,
         pos_used' = pos_used, tlen' = tlen, tdone' = tdone,
         tpc' = tpc \/ tpc' \notin {"decide", "render", "done"},
         \A b \in 0 .. Added : EndsAt(Window, pos_used, b) => EndsAt(Window', pos_used, b)
  PROVE  TakenInv'
<1>1. CASE tpc' \notin {"decide", "render", "done"}
  BY <1>1 DEF TakenInv
<1>2. CASE tpc' = tpc
  <2>1. tpc' \in {"decide", "render"} => tlen' <= Added' /\ EndsAt(Window', pos_used', tlen')
    <3> SUFFICES ASSUME tpc \in {"decide", "render"}
                 PROVE  tlen <= Added' /\ EndsAt(Window', pos_used, tlen)
      BY <1>2
    <3>1. tlen <= Added /\ EndsAt(Window, pos_used, tlen)
      BY DEF TakenInv
    <3>2. tlen \in 0 .. Added /\ tlen <= Added'
      BY <3>1
    <3>3. QED  BY <3>1, <3>2
  <2>2. tpc' = "render" => tlen' > 0
    BY <1>2 DEF TakenInv
  <2>3. tpc' = "done" => tdone' \in 1 .. Added' /\ EndsAt(Window', pos_used', tdone')
    <3> SUFFICES ASSUME tpc = "done"
                 PROVE  tdone \in 1 .. Added' /\ EndsAt(Window', pos_used, tdone)
      BY <1>2
    <3>1. tdone \in 1 .. Added /\ EndsAt(Window, pos_used, tdone)
      BY DEF TakenInv
    <3>2. tdone \in 0 .. Added /\ tdone \in 1 .. Added'
      BY <3>1
    <3>3. QED  BY <3>1, <3>2
  <2>4. QED  BY <2>1, <2>2, <2>3 DEF TakenInv
<1>3. QED  BY <1>1, <1>2

(* A step of the main thread that leaves the ring and its write position:  *)
(* outside an upload it matters only what it keeps for later.              *)
LEMMA RingStays ==
  ASSUME TypeOK, RingInv, UNCHANGED ringVars, tlen' = tlen, tdone' = tdone,
         tpc' = tpc \/ tpc' \notin {"decide", "render", "done"},
         WritePos' = WritePos, Lines = 0, Lines' = 0, Whole(op.unh)',
         mpc' \in {"prefix", "loop"} => op'.rest \in Seq(ListCmds)
  PROVE  WordsInv' /\ TakenInv' /\ Window' = Window /\ Added' = Added /\ Written' = Written
<1>1. Window' = Window /\ Added' = Added /\ Written' = Written /\ pos_used' = pos_used
  BY DEF Window, Added, Written
<1>2. WordsIn' = WordsIn /\ Open' = Open
  BY <1>1 DEF WordsIn, Open
<1>3. WordsInv'
  BY <1>1, <1>2 DEF WordsInv, RingInv
<1>4. TakenInv'
  <2>1. Added \in Nat /\ tlen \in Nat /\ tdone \in Nat
    BY RingTypes DEF TypeOK
  <2>2. Added' \in Nat /\ Added <= Added' /\ TakenInv
    BY <1>1, <2>1 DEF RingInv
  <2>3. \A b \in 0 .. Added : EndsAt(Window, pos_used, b) => EndsAt(Window', pos_used, b)
    BY <1>1
  <2>4. QED  BY <1>1, <2>1, <2>2, <2>3, TakenStays
<1>5. QED  BY <1>1, <1>3, <1>4

(* Words put in the ring behind the others leave the others where they     *)
(* were, and the ends of commands with them.                               *)
LEMMA GrownEnds ==
  ASSUME NEW w \in [Index -> Cells], NEW u \in Nat, NEW n \in Nat, NEW p \in Nat, NEW ws \in Seq(Cells),
         n + p + Len(ws) <= BufLen
  PROVE  \A b \in 0 .. n : EndsAt(w, u, b) => EndsAt(Grown(w, n, p, ws), u, b)
<1> DEFINE g == Grown(w, n, p, ws)
<1>1. \A d \in 0 .. n - 1 : g[d] = w[d]
  BY GrownBelow
<1> HIDE DEF g
<1> SUFFICES ASSUME NEW b \in 0 .. n, EndsAt(w, u, b), NEW h \in 0 .. b - 1, Begins(g, h)
             PROVE  InCmd(g, u, h, LastWord(g[h].c)) < b
  BY DEF EndsAt, g
<1>2. g[h] = w[h]
  <2>1. h \in 0 .. n - 1
    OBVIOUS
  <2>2. QED  BY <1>1, <2>1
<1>3. Begins(w, h)
  BY <1>2 DEF Begins
<1>4. InCmd(w, u, h, LastWord(w[h].c)) < b
  BY <1>3 DEF EndsAt
<1>5. QED  BY <1>2, <1>4 DEF InCmd

(* do_add_pos with whole commands: the ring still holds whole commands, up *)
(* to the new position, and what was there stays.                          *)
LEMMA GrowRing ==
  ASSUME TypeOK, RingInv, Lines = 0, NEW ws \in Seq(Cells), Whole(ws),
         cells' = Filled(WritePos, ws), pos_used' = pos_used
  PROVE  LET N == Diff(AddedPos(WritePos, Len(ws)), pos_used)
         IN  /\ N \in Nat /\ Written <= N /\ N <= BufLen
             /\ Formed(Window', pos_used, N, N, 0) /\ EndsAt(Window', pos_used, N)
             /\ \A b \in 0 .. Written : EndsAt(Window, pos_used, b) => EndsAt(Window', pos_used, b)
<1> DEFINE u == pos_used
           n == Diff(WritePos, u)
           fits == Fits(WritePos, Len(ws))
           new == IF fits THEN ws ELSE <<>>
           N == Diff(AddedPos(WritePos, Len(ws)), u)
<1>1. /\ u \in Positions /\ u \in Nat /\ WritePos \in Positions /\ cells \in [Index -> Cells]
      /\ Window \in [Index -> Cells] /\ BufLen \in Nat /\ n = Written /\ n \in Nat /\ n <= BufLen
  BY RingTypes DEF Written, RingInv, WordsInv
<1>2. PICK p \in 0 .. BufLen :
               /\ n + p + Len(new) <= BufLen
               /\ N = n + p + Len(new)
               /\ Window' = Grown(Window, n, p, new)
               /\ fits => Place(u, n + p) + Len(ws) <= BufLen
  BY <1>1, FilledWindow
<1>3. new \in Seq(Cells) /\ Whole(new) /\ Len(new) \in Nat
  <2>1. <<>> \in Seq(Cells) /\ Whole(<<>>)
    BY DEF Whole
  <2>2. CASE fits
    BY <2>2
  <2>3. CASE ~fits
    BY <2>1, <2>3
  <2>4. QED  BY <2>2, <2>3
<1>4. Formed(Window, u, n, n, WordsIn)
  <2>1. Open = Written
    BY DEF Open
  <2>2. QED  BY <1>1, <2>1 DEF RingInv, WordsInv
<1>5. Place(u, n + p) + Len(new) <= BufLen
  <2>1. CASE fits
    BY <1>2, <2>1
  <2>2. CASE ~fits
    <3>1. Len(new) = 0
      BY <2>2
    <3>2. Place(u, n + p) \in Index
      <4> HIDE DEF n, u
      <4>1. n + p \in 0 .. BufLen
        <5> HIDE DEF new
        <5>1. QED  BY <1>1, <1>2, <1>3
      <4>2. QED  BY <1>1, <4>1, PlaceIs
    <3> HIDE DEF new, n, u
    <3>3. QED  BY <1>1, <3>1, <3>2 DEF Index
  <2>3. QED  BY <2>1, <2>2
<1> HIDE DEF u, n, fits, new, N
<1>6. p \in Nat
  BY <1>1, <1>2
<1>7. Formed(Window', u, N, N, 0)
  <2>1. Formed(Grown(Window, n, p, new), u, n + p + Len(new), n + p + Len(new), 0)
    BY <1>1, <1>2, <1>3, <1>4, <1>5, <1>6, GrowWhole
  <2>2. QED  BY <1>2, <2>1
<1>8. \A b \in 0 .. n : EndsAt(Window, u, b) => EndsAt(Window', u, b)
  BY <1>1, <1>2, <1>3, <1>6, GrownEnds
<1>9. N \in Nat /\ n <= N /\ N <= BufLen
  BY <1>1, <1>2, <1>3, <1>6
<1>10. EndsAt(Window', u, N)
  <2> DEFINE g == Window'
  <2>1. g \in [Index -> Cells]
    BY <1>1, <1>2, <1>3, <1>6, GrownType
  <2> HIDE DEF g
  <2>2. \A h \in 0 .. N - 1 : Begins(g, h) => LastIn(g, h, N, 0) = LastWord(g[h].c)
    BY <1>9 DEF LastIn
  <2>3. Formed(g, u, N, N, 0)
    BY <1>7 DEF g
  <2>4. N \in 0 .. BufLen
    BY <1>1, <1>9
  <2>5. EndsAt(g, u, N)
    BY <1>1, <2>1, <2>2, <2>3, <2>4, FormedEnds
  <2>6. QED  BY <2>5 DEF g
<1>11. QED  BY <1>1, <1>7, <1>8, <1>9, <1>10 DEF u, N

(* The words of one command, of two sequences of whole commands, and of    *)
(* gpu_async_sync_ecmds are whole commands.                                *)
LEMMA WholeHead ==
  ASSUME NEW c \in Cmds, c.op \notin {"dma", "free"}, NEW e \in Regions
  PROVE  Head0(c, e) \in Seq(Cells) /\ Len(Head0(c, e)) = Len0(c) /\ Whole(Head0(c, e))
<1> DEFINE ws == Head0(c, e)
           L == Len0(c)
<1>1. L \in Nat /\ LastWord(c) = L - 1 /\ L >= 1
  BY LastWordIs
<1>2. ws \in Seq(Cells) /\ Len(ws) = L
  BY HeadType
<1>3. ws = [i \in 1 .. L |-> Cell(c, e, 0 + i - 1)]
  BY DEF Head0, Words
<1> HIDE DEF ws, L
<1>4. \A i \in 1 .. L : ws[i] = Cell(c, e, i - 1)
  BY <1>1, <1>3
<1>5. DOMAIN ws = 1 .. L
  BY <1>3
<1>6. ASSUME NEW i \in 1 .. L
      PROVE  /\ ws[i].c.op \notin {"dma", "free"} /\ ws[i].k <= LastWord(ws[i].c) /\ ws[i].k < i
             /\ i + LastWord(ws[i].c) - ws[i].k <= Len(ws)
             /\ \A k \in 0 .. LastWord(ws[i].c) : ws[i - ws[i].k + k] = Word(ws[i], k)
  <2>1. ws[i].c = c /\ ws[i].k = i - 1 /\ ws[i] = Cell(c, e, i - 1)
    BY <1>4 DEF Cell
  <2>2. \A k \in 0 .. L - 1 : ws[k + 1] = Cell(c, e, k)
    <3> SUFFICES ASSUME NEW k \in 0 .. L - 1  PROVE ws[k + 1] = Cell(c, e, k)
      OBVIOUS
    <3>1. k + 1 \in 1 .. L /\ (k + 1) - 1 = k
      BY <1>1
    <3>2. QED  BY <1>4, <3>1
  <2>3. ASSUME NEW k \in 0 .. LastWord(c)  PROVE ws[i - ws[i].k + k] = Word(ws[i], k)
    <3>1. k \in 0 .. L - 1
      BY <1>1
    <3>2. i - ws[i].k + k = k + 1
      BY <1>1, <2>1, <3>1
    <3>3. Word(ws[i], k) = Cell(c, e, k)
      BY <2>1, CellWord
    <3>4. QED  BY <2>2, <3>1, <3>2, <3>3
  <2>4. i + LastWord(c) - (i - 1) <= L /\ i - 1 <= LastWord(c) /\ i - 1 < i
    BY <1>1
  <2>5. QED  BY <1>2, <2>1, <2>3, <2>4
<1>7. Whole(ws)
  BY <1>5, <1>6, Zenon DEF Whole
<1>8. QED  BY <1>2, <1>7 DEF ws, L

(* Whole commands put behind whole commands.                               *)
LEMMA WholeConcat ==
  ASSUME NEW a \in Seq(Cells), NEW b \in Seq(Cells), Whole(a), Whole(b)
  PROVE  a \o b \in Seq(Cells) /\ Whole(a \o b)
<1> DEFINE ws == a \o b
<1>1. /\ ws \in Seq(Cells) /\ Len(a) \in Nat /\ Len(b) \in Nat /\ Len(ws) = Len(a) + Len(b)
      /\ \A i \in 1 .. Len(a) : ws[i] = a[i]
      /\ \A i \in Len(a) + 1 .. Len(ws) : i - Len(a) \in 1 .. Len(b) /\ ws[i] = b[i - Len(a)]
  OBVIOUS
<1>2. \A i \in 1 .. Len(b) : ws[Len(a) + i] = b[i]
  OBVIOUS
<1> HIDE DEF ws
<1>3. ASSUME NEW i \in 1 .. Len(ws)
      PROVE  /\ ws[i].c.op \notin {"dma", "free"} /\ ws[i].k <= LastWord(ws[i].c) /\ ws[i].k < i
             /\ i + LastWord(ws[i].c) - ws[i].k <= Len(ws)
             /\ \A k \in 0 .. LastWord(ws[i].c) : ws[i - ws[i].k + k] = Word(ws[i], k)
  <2> DEFINE w == ws[i]
             last == LastWord(w.c)
  <2>1. w \in Cells /\ w.k \in Nat /\ last \in Nat
    <3>1. w \in Cells
      BY <1>1
    <3>2. QED  BY <3>1, CmdFields, LastWordIs
  <2>2. CASE i <= Len(a)
    <3>1. i \in 1 .. Len(a) /\ i \in DOMAIN a /\ w = a[i]
      BY <1>1, <2>2
    <3>2. /\ w.c.op \notin {"dma", "free"} /\ w.k <= last /\ w.k < i
          /\ i + last - w.k <= Len(a)
          /\ \A k \in 0 .. last : a[i - w.k + k] = Word(w, k)
      BY <3>1 DEF Whole
    <3> HIDE DEF w, last
    <3>3. ASSUME NEW k \in 0 .. last  PROVE ws[i - w.k + k] = Word(w, k)
      <4>1. i - w.k + k \in 1 .. Len(a)
        BY <1>1, <2>1, <3>1, <3>2, SMTT(40)
      <4>2. QED  BY <1>1, <3>2, <4>1
    <3>4. i + last - w.k <= Len(ws)
      BY <1>1, <2>1, <3>2
    <3>5. QED  BY <3>2, <3>3, <3>4 DEF w, last
  <2>3. CASE i > Len(a)
    <3> DEFINE j == i - Len(a)
    <3>1. j \in 1 .. Len(b) /\ j \in DOMAIN b /\ w = b[j] /\ i = Len(a) + j
      BY <1>1, <2>3
    <3>2. /\ w.c.op \notin {"dma", "free"} /\ w.k <= last /\ w.k < j
          /\ j + last - w.k <= Len(b)
          /\ \A k \in 0 .. last : b[j - w.k + k] = Word(w, k)
      BY <3>1 DEF Whole
    <3> HIDE DEF w, last, j
    <3>3. ASSUME NEW k \in 0 .. last  PROVE ws[i - w.k + k] = Word(w, k)
      <4> DEFINE q == w.k
      <4>1. q \in Nat /\ last \in Nat /\ k \in 0 .. last /\ q < j /\ j + last - q <= Len(b) /\ q <= last
            /\ i = Len(a) + j /\ j \in Nat /\ Len(a) \in Nat /\ Len(b) \in Nat
        BY <1>1, <2>1, <3>1, <3>2
      <4> HIDE DEF q
      <4>11. j - q + k \in 1 .. Len(b) /\ i - q + k = Len(a) + (j - q + k)
        BY <4>1
      <4>12. j - w.k + k \in 1 .. Len(b) /\ i - w.k + k = Len(a) + (j - w.k + k)
        BY <4>11 DEF q
      <4>2. QED  BY <1>2, <3>2, <4>12
    <3>4. i + last - w.k <= Len(ws) /\ w.k < i
      BY <1>1, <2>1, <3>1, <3>2
    <3>5. QED  BY <3>2, <3>3, <3>4 DEF w, last
  <2>4. QED  BY <1>1, <2>2, <2>3
<1>4. DOMAIN ws = 1 .. Len(ws)
  BY <1>1
<1>5. Whole(ws)
  BY <1>3, <1>4, Zenon DEF Whole
<1>6. QED  BY <1>1, <1>5 DEF ws

(* gpu_async_sync_ecmds sends commands of one word each.                   *)
LEMMA WholeEcmds ==
  ASSUME NEW r \in Regions
  PROVE  LET ws == [i \in 1 .. EcmdsLen |-> Cell(IF i = 1 THEN Env(r) ELSE Tex, {}, 0)]
         IN  ws \in Seq(Cells) /\ Whole(ws)
<1> DEFINE cmd(i) == IF i = 1 THEN Env(r) ELSE Tex
           ws == [i \in 1 .. EcmdsLen |-> Cell(cmd(i), {}, 0)]
<1>1. \A i \in 1 .. EcmdsLen : cmd(i) \in Cmds /\ cmd(i).op \in {"env", "tex"}
  BY ConstantTypes DEF Env, Tex, Cmd
<1> HIDE DEF cmd
<1>2. EcmdsLen \in Nat /\ {} \in Regions
  BY EcmdsLenAssumption DEF Regions
<1>3. \A i \in 1 .. EcmdsLen : /\ Cell(cmd(i), {}, 0) \in Cells /\ LastWord(cmd(i)) = 0
                               /\ ws[i] = Cell(cmd(i), {}, 0)
                               /\ ws[i].c = cmd(i) /\ ws[i].k = 0
  <2> SUFFICES ASSUME NEW i \in 1 .. EcmdsLen
               PROVE  /\ Cell(cmd(i), {}, 0) \in Cells /\ LastWord(cmd(i)) = 0
                      /\ ws[i] = Cell(cmd(i), {}, 0)
                      /\ ws[i].c = cmd(i) /\ ws[i].k = 0
    OBVIOUS
  <2>1. Cell(cmd(i), {}, 0) \in Cells
    BY <1>1, <1>2 DEF Cell, Cells
  <2>2. LastWord(cmd(i)) = 0
    BY <1>1 DEF LastWord, Len0
  <2>3. ws[i] = Cell(cmd(i), {}, 0)
    OBVIOUS
  <2>4. Cell(cmd(i), {}, 0).c = cmd(i) /\ Cell(cmd(i), {}, 0).k = 0
    BY DEF Cell
  <2>5. QED  BY <2>1, <2>2, <2>3, <2>4
<1>4. ws \in Seq(Cells) /\ Len(ws) = EcmdsLen /\ DOMAIN ws = 1 .. EcmdsLen
  BY <1>2, <1>3
<1> HIDE DEF ws
<1>5. ASSUME NEW i \in 1 .. EcmdsLen
      PROVE  /\ ws[i].c.op \notin {"dma", "free"} /\ ws[i].k <= LastWord(ws[i].c) /\ ws[i].k < i
             /\ i + LastWord(ws[i].c) - ws[i].k <= Len(ws)
             /\ \A k \in 0 .. LastWord(ws[i].c) : ws[i - ws[i].k + k] = Word(ws[i], k)
  <2>1. ws[i].c = cmd(i) /\ ws[i].k = 0 /\ LastWord(cmd(i)) = 0 /\ ws[i] \in Cells
    BY <1>3, <1>4
  <2>2. \A k \in 0 .. 0 : ws[i - 0 + k] = Word(ws[i], k)
    <3>1. Word(ws[i], 0) = ws[i]
      BY <2>1, WordIs
    <3>2. QED  BY <3>1
  <2>3. i + 0 - 0 <= Len(ws) /\ 0 < i
    BY <1>2, <1>4
  <2>4. QED  BY <1>1, <2>1, <2>2, <2>3
<1>6. Whole(ws)
  BY <1>4, <1>5, Zenon DEF Whole
<1>7. QED  BY <1>4, <1>6 DEF ws, cmd

(* When gpu_async_try_dma finds room for an upload of lines of at least    *)
(* two words, it has room for what do_add_pos may skip before the header   *)
(* and for the gap before the end of the ring: never both.                 *)
LEMMA HeaderFits ==
  ASSUME NEW c \in Cmds, c.op = "dma", c.s >= 2, NEW u \in Nat, NEW n \in Nat, n <= BufLen,
         DmaRoom(c) <= BufLen - n,
         NEW p, p = IF BufLen - Place(u, n) < 3 THEN BufLen - Place(u, n) ELSE 0
  PROVE  /\ p \in Nat /\ n + p + 3 <= BufLen /\ Place(u, n + p) \in Index
         /\ Place(u, n + p) + 3 <= BufLen
         /\ n + p + DmaLen(Place(u, n + p), c) <= BufLen
<1> DEFINE s == c.s
           h == c.h
           at0 == Place(u, n)
           at == Place(u, n + p)
<1>1. s \in Nat /\ h \in Nat /\ s >= 2 /\ BufLen \in Nat
  BY CmdFields, BufLenAssumption
<1>2. at0 \in Index
  <2>1. n \in 0 .. BufLen
    BY <1>1
  <2>2. QED  BY <2>1, PlaceIs, Zenon
<1>3. p \in Nat /\ p <= 2 /\ (p > 0 => p = BufLen - at0) /\ (p = 0 => at0 + 3 <= BufLen)
  <2> HIDE DEF at0
  <2>1. p = IF BufLen - at0 < 3 THEN BufLen - at0 ELSE 0
    BY DEF at0
  <2>2. QED  BY <1>1, <1>2, <2>1 DEF Index
<1>4. /\ DmaRoom(c) = 3 + s * (h + 1) /\ s * (h + 1) = s * h + s /\ s * h \in Nat
  <2> HIDE DEF s, h
  <2>1. s * (h + 1) = s * h + s /\ s * h \in Nat
    BY <1>1
  <2>2. QED  BY <2>1 DEF DmaRoom, s, h
<1>5. n + 3 + s * h + s <= BufLen
  <2> DEFINE x == s * h
             y == s * (h + 1)
  <2>1. x \in Nat /\ y = x + s /\ 3 + y <= BufLen - n
    BY <1>4
  <2> HIDE DEF x, y, s
  <2>2. n + 3 + x + s <= BufLen
    BY <1>1, <2>1
  <2>3. QED  BY <2>2 DEF x
<1>6. n + p + 3 <= BufLen
  <2> DEFINE x == s * h
  <2>1. x \in Nat /\ n + 3 + x + s <= BufLen
    BY <1>4, <1>5
  <2> HIDE DEF x, s
  <2>2. QED  BY <1>1, <1>3, <2>1
<1>7. at \in Index /\ at + 3 <= BufLen /\ (p > 0 => at = 0)
  <2>1. CASE p = 0
    <3>1. n + p = n
      BY <2>1
    <3>2. QED  BY <1>2, <1>3, <2>1, <3>1
  <2>2. CASE p > 0
    <3>1. n + p <= BufLen
      BY <1>1, <1>3, <1>6
    <3>2. at = IF at0 + p >= BufLen THEN at0 + p - BufLen ELSE at0 + p
      BY <1>3, <3>1, PlaceNear
    <3>3. at0 + p = BufLen /\ at0 \in Int
      <4> HIDE DEF at0
      <4>1. QED  BY <1>1, <1>2, <1>3, <2>2 DEF Index
    <3>4. at = 0
      <4> HIDE DEF at, at0
      <4>1. QED  BY <1>1, <3>2, <3>3
    <3>5. BufLen >= 3
      BY <1>1, <1>3, <1>6
    <3>6. QED  BY <1>1, <3>4, <3>5 DEF Index
  <2>3. QED  BY <1>3, <2>1, <2>2
<1> DEFINE left == BufLen - at - 3
           here == left \div s
           gap == IF here < h THEN left % s ELSE 0
<1>8. left \in Nat /\ left % s \in 0 .. s - 1 /\ here \in Nat
  <2>1. left \in Nat
    <3> HIDE DEF at
    <3>1. QED  BY <1>1, <1>7 DEF Index
  <2> HIDE DEF left, s
  <2>2. QED  BY <1>1, <2>1
<1>9. DmaLen(at, c) = 3 + s * h + gap
  BY DEF DmaLen
<1>10. p > 0 => gap = 0
  <2> SUFFICES ASSUME p > 0  PROVE ~(here < h)
    OBVIOUS
  <2>1. left = BufLen - 3
    <3>1. at = 0
      BY <1>7
    <3> HIDE DEF at
    <3>2. QED  BY <1>1, <3>1
  <2> HIDE DEF left, s, h
  <2>2. left = s * here + (left % s)
    BY <1>1, <1>8
  <2> DEFINE x == s * h
             y == s * here
  <2>3. x + s <= left /\ left < y + s /\ x \in Int
    <3> HIDE DEF here
    <3>1. x \in Nat /\ n + 3 + x + s <= BufLen
      BY <1>4, <1>5
    <3>2. left = y + (left % s) /\ y \in Int
      BY <1>1, <1>8, <2>2
    <3> HIDE DEF x, y
    <3>3. QED  BY <1>1, <1>8, <2>1, <3>1, <3>2
  <2>4. x < y
    <3>1. y \in Int
      <4> HIDE DEF here
      <4>1. QED  BY <1>1, <1>8
    <3> HIDE DEF x, y
    <3>2. QED  BY <1>1, <1>8, <2>3, <3>1
  <2> HIDE DEF here
  <2>5. here < h => y <= x
    BY <1>1, <1>8, SMTT(20)
  <2>6. x \in Int /\ y \in Int
    BY <1>1, <1>8
  <2> HIDE DEF x, y
  <2>7. QED  BY <2>4, <2>5, <2>6
<1>11. n + p + (3 + s * h + gap) <= BufLen
  <2> DEFINE x == s * h
  <2>1. x \in Nat /\ n + 3 + x + s <= BufLen
    BY <1>4, <1>5
  <2>2. gap \in 0 .. s - 1
    BY <1>1, <1>8
  <2> HIDE DEF x, s, gap
  <2>3. n + p + (3 + x + gap) <= BufLen
    BY <1>1, <1>3, <1>10, <2>1, <2>2
  <2>4. QED  BY <2>3 DEF x
<1>12. QED  BY <1>3, <1>6, <1>7, <1>9, <1>11

-----------------------------------------------------------------------------
(* The lines of every upload are more than two pixels wide, two words or   *)
(* more.  The room that gpu_async_try_dma asks for has one line to spare,  *)
(* which is enough for the words skipped at the end of the ring unless a   *)
(* line is a single word: then an upload whose header is skipped as well   *)
(* may not fit.                                                            *)
WideUploads == \A c \in Dmas : c.s >= 2

(* The upload in progress: its words so far begin at h.                    *)
UploadAt(w, u, a, n, c, m, h) ==
  /\ h \in a .. n - 1
  /\ w[h] = Cell(c, {}, 0)
  /\ \A d \in a .. n - 1 : Begins(w, d) => d = h
  /\ n = h + WordAt(Place(u, h), c, m - 1) + 1
  /\ h + DmaLen(Place(u, h), c) <= BufLen

(* The header of an upload is added whole, behind the whole commands that  *)
(* are in the ring, and the lines will have room behind it.                *)
LEMMA AddHeader ==
  ASSUME TypeOK, RingInv, WideUploads, mpc = "dma", op.line = 0, NEW c, c = Head(op.rest),
         NEW ws, ws = Head0(c, {}), cells' = Filled(WritePos, ws), pos_used' = pos_used
  PROVE  LET q == AddedPos(WritePos, Len(ws))
             N == Diff(q, pos_used)
         IN  /\ Fits(WritePos, Len(ws)) /\ N \in Nat /\ Added <= N /\ N <= BufLen
             /\ Formed(Window', pos_used, N, Added, 3)
             /\ \A b \in 0 .. Added : EndsAt(Window, pos_used, b) => EndsAt(Window', pos_used, b)
             /\ \E h \in Added .. N - 1 : UploadAt(Window', pos_used, Added, N, c, 3, h)
<1> DEFINE u == pos_used
           n == Diff(WritePos, u)
           fits == Fits(WritePos, Len(ws))
           new == IF fits THEN ws ELSE <<>>
           N == Diff(AddedPos(WritePos, Len(ws)), u)
           v == Window'
<1>1. /\ u \in Positions /\ u \in Nat /\ WritePos \in Positions /\ cells \in [Index -> Cells]
      /\ Window \in [Index -> Cells] /\ BufLen \in Nat /\ n = Written /\ n \in Nat /\ n <= BufLen
  BY RingTypes DEF Written, RingInv, WordsInv
<1>2. /\ c \in Cmds /\ c.op = "dma" /\ c.s >= 2 /\ Written = Added
      /\ DmaRoom(c) <= BufLen - n
  <2>1. c \in Dmas /\ Written = Added /\ DmaRoom(c) <= Room(WritePos)
    BY DEF RingInv, UploadInv
  <2>2. Room(WritePos) = BufLen - n
    BY DEF Room
  <2>3. QED  BY <2>1, <2>2, CmdAssumption DEF WideUploads
<1>3. ws = Words(c, {}, 0, 3) /\ ws \in Seq(Cells) /\ Len(ws) = 3
  <2>1. Len0(c) = 3
    BY <1>2, LastWordIs
  <2>2. {} \in Regions
    BY DEF Regions
  <2>3. QED  BY <1>2, <2>1, <2>2, HeadType DEF Head0
<1>4. PICK p \in 0 .. BufLen :
               /\ N = n + p + Len(new)
               /\ v = Grown(Window, n, p, new)
               /\ fits <=> Len(ws) <= BufLen - n /\ Len(ws) + p <= BufLen - n
               /\ Len(ws) <= BufLen - n =>
                    p = IF BufLen - Place(u, n) < Len(ws) THEN BufLen - Place(u, n) ELSE 0
  BY <1>1, <1>3, FilledWindow
<1> HIDE DEF u, n, fits, new, N, v
<1>5. 3 <= BufLen - n
  <2>1. c.s \in Nat /\ c.h \in Nat
    BY <1>2, CmdFields
  <2>2. c.s * (c.h + 1) \in Nat
    BY <2>1
  <2>3. DmaRoom(c) >= 3
    BY <2>2 DEF DmaRoom
  <2>4. DmaRoom(c) \in Int
    BY <2>2 DEF DmaRoom
  <2>5. QED  BY <1>1, <1>2, <2>3, <2>4
<1>6. p = IF BufLen - Place(u, n) < 3 THEN BufLen - Place(u, n) ELSE 0
  BY <1>3, <1>4, <1>5
<1> DEFINE h == n + p
           at == Place(u, h)
<1>7. /\ p \in Nat /\ n + p + 3 <= BufLen /\ at \in Index /\ at + 3 <= BufLen
      /\ h + DmaLen(at, c) <= BufLen
  BY <1>1, <1>2, <1>6, HeaderFits
<1>8. fits /\ new = ws /\ N = n + p + 3
  <2>1. fits
    <3>1. fits <=> 3 <= BufLen - n /\ 3 + p <= BufLen - n
      BY <1>3, <1>4
    <3>2. 3 + p <= BufLen - n
      <4> HIDE DEF h, at
      <4>1. p \in Nat /\ n + p + 3 <= BufLen
        BY <1>7
      <4>2. QED  BY <1>1, <4>1
    <3>3. QED  BY <1>5, <3>1, <3>2
  <2>2. new = ws
    BY <2>1 DEF new
  <2>3. QED  BY <1>3, <1>4, <2>1, <2>2
<1>9. h \in Nat /\ h = n + p
  BY <1>1, <1>7
<1>10. WordAt(at, c, 0) = 0 /\ WordAt(at, c, 1) = 1 /\ WordAt(at, c, 2) = 2
  BY <1>2, <1>7, WordOrder
<1>11. Formed(Window, u, n, n, 0)
  <2>1. WordsIn = 0 /\ Open = Written
    BY DEF WordsIn, Open, Lines
  <2>2. QED  BY <1>1, <2>1 DEF RingInv, WordsInv, u
<1> HIDE DEF h, at
<1>12. Continues(Window, u, n, p, n, c, 0, 3, h)
  <2>1. \A j \in 0 .. 3 - 1 : WordAt(at, c, 0 + j) = WordAt(at, c, 0) + j
    BY <1>10
  <2>2. Fitting(at, c) \in Nat
    BY <1>2, <1>7, UploadShape
  <2>3. \A d \in n .. n - 1 : Begins(Window, d) => d = h
    BY <1>1
  <2>4. n + p = h + WordAt(at, c, 0)
    BY <1>9, <1>10
  <2>5. 0 # 3 + Fitting(at, c)
    BY <2>2
  <2>6. h >= n
    BY <1>1, <1>7, <1>9
  <2>7. QED  BY <1>7, <1>11, <2>1, <2>3, <2>4, <2>5, <2>6 DEF Continues, at
<1>13. /\ Formed(v, u, N, n, 3) /\ h < N /\ v[h] = Cell(c, {}, 0)
       /\ \A d \in n .. N - 1 : Begins(v, d) => d = h
  <2>1. n \in 0 .. n /\ 0 \in Nat /\ 3 \in Nat \ {0} /\ 0 + 3 = 3
    BY <1>1
  <2>2. Uploading(Grown(Window, n, p, Words(c, {}, 0, 3)), u, n + p + 3, n, c, 0 + 3, h)
    BY <1>1, <1>2, <1>7, <1>9, <1>12, <2>1, GrowUpload, ZenonT(40)
  <2>3. v = Grown(Window, n, p, Words(c, {}, 0, 3))
    BY <1>3, <1>4, <1>8
  <2>4. Uploading(v, u, N, n, c, 3, h)
    BY <1>8, <2>1, <2>2, <2>3
  <2>5. QED  BY <2>4 DEF Uploading
<1>14. UploadAt(v, u, n, N, c, 3, h) /\ h \in n .. N - 1
  <2>1. h \in n .. N - 1
    BY <1>1, <1>7, <1>8, <1>9
  <2>2. 3 - 1 = 2 /\ N = h + WordAt(at, c, 3 - 1) + 1
    BY <1>1, <1>7, <1>8, <1>9, <1>10
  <2>3. QED  BY <1>7, <1>13, <2>1, <2>2 DEF UploadAt, at
<1>15. \A b \in 0 .. n : EndsAt(Window, u, b) => EndsAt(v, u, b)
  <2>1. v = Grown(Window, n, p, ws) /\ n + p + Len(ws) <= BufLen
    BY <1>3, <1>4, <1>7, <1>8
  <2>2. QED  BY <1>1, <1>3, <1>7, <2>1, GrownEnds
<1>16. N \in Nat /\ n <= N /\ N <= BufLen
  BY <1>1, <1>7, <1>8
<1>17. n = Added
  BY <1>1, <1>2
<1>18. QED  BY <1>8, <1>13, <1>14, <1>15, <1>16, <1>17 DEF u, N, v, fits

(* Each line of an upload is added whole, where the line before ends or at *)
(* the start of the ring.                                                  *)
LEMMA AddLine ==
  ASSUME TypeOK, RingInv, mpc = "dma", op.line > 0, NEW c, c = Head(op.rest), op.line <= c.h,
         NEW m, m = 3 + (op.line - 1) * c.s,
         NEW ws, ws = Words(c, {}, m, c.s), cells' = Filled(WritePos, ws), pos_used' = pos_used
  PROVE  LET q == AddedPos(WritePos, Len(ws))
             N == Diff(q, pos_used)
         IN  /\ Fits(WritePos, Len(ws)) /\ N \in Nat /\ Added <= N /\ N <= BufLen
             /\ Formed(Window', pos_used, N, Added, m + c.s)
             /\ \A b \in 0 .. Added : EndsAt(Window, pos_used, b) => EndsAt(Window', pos_used, b)
             /\ \E h \in Added .. N - 1 : UploadAt(Window', pos_used, Added, N, c, m + c.s, h)
             /\ 3 + (op.line + 1 - 1) * c.s = m + c.s
<1> DEFINE u == pos_used
           n == Diff(WritePos, u)
           fits == Fits(WritePos, Len(ws))
           new == IF fits THEN ws ELSE <<>>
           N == Diff(AddedPos(WritePos, Len(ws)), u)
           v == Window'
           s == c.s
           l == op.line
           a == Added
<1>1. /\ u \in Positions /\ u \in Nat /\ WritePos \in Positions /\ cells \in [Index -> Cells]
      /\ Window \in [Index -> Cells] /\ BufLen \in Nat /\ n = Written /\ n \in Nat /\ n <= BufLen
      /\ n \in 0 .. BufLen /\ a \in Nat /\ a <= n /\ l \in Nat
  BY RingTypes DEF Written, RingInv, WordsInv
<1>2. c \in Cmds /\ c.op = "dma" /\ s \in Nat \ {0} /\ c.h \in Nat /\ l \in 1 .. c.h
  <2>1. c \in Dmas
    BY DEF RingInv, UploadInv
  <2>2. c \in Cmds /\ c.op = "dma"
    BY <2>1, CmdAssumption
  <2>3. QED  BY <1>1, <2>2, CmdFields
<1>3. Open = a /\ WordsIn = m
  BY <1>1, <1>2 DEF Open, WordsIn, Lines
<1>4. PICK h \in a .. n - 1 :
             /\ Window[h] = Cell(c, {}, 0)
             /\ \A d \in a .. n - 1 : Begins(Window, d) => d = h
             /\ n = InCmd(Window, u, h, m - 1) + 1
             /\ h + DmaLen(Place(u, h), c) <= BufLen
  BY <1>1, <1>2, <1>3 DEF RingInv, UploadInv
<1>5. Formed(Window, u, n, a, m)
  BY <1>1, <1>3 DEF RingInv, WordsInv
<1> DEFINE at == Place(u, h)
<1> HIDE DEF u, n, a, l, s, at, v, fits, new, N
<1>6. Window[h].c = c /\ Begins(Window, h)
  <2>1. Cell(c, {}, 0).c = c /\ Cell(c, {}, 0).k = 0 /\ Pad.c.op = "nop"
    BY DEF Cell, Pad, Cmd
  <2>2. QED  BY <1>2, <1>4, <2>1 DEF Begins
<1>7. at \in Index /\ at + 3 <= BufLen /\ h \in Nat
  <2>1. h \in 0 .. n - 1 /\ h \in Nat
    BY <1>1, <1>4
  <2>2. Window \in [Index -> Cells] /\ u \in Nat /\ n \in 0 .. BufLen /\ Formed(Window, u, n, a, m)
        /\ Begins(Window, h)
    BY <1>1, <1>5, <1>6
  <2>3. Place(u, h) \in Index
    <3>1. h \in 0 .. BufLen
      BY <1>1, <2>1
    <3>2. QED  BY <2>2, <3>1, PlaceIs, Zenon
  <2>4. Place(u, h) + Len0(Window[h].c) <= BufLen
    BY <2>1, <2>2 DEF Formed, CommandIn
  <2>5. Len0(Window[h].c) = 3
    BY <1>2, <1>6, LastWordIs
  <2>6. QED  BY <2>1, <2>3, <2>4, <2>5 DEF at
<1>8. n = h + WordAt(at, c, m - 1) + 1 /\ h + DmaLen(at, c) <= BufLen /\ m = 3 + (l - 1) * c.s
  BY <1>4, <1>6 DEF InCmd, at, l
<1> DEFINE p == IF BufLen - Place(u, n) < c.s THEN BufLen - Place(u, n) ELSE 0
<1>9. /\ m \in Nat /\ m >= 3 /\ n \in Nat /\ p \in Nat /\ h < n
      /\ n + p + c.s <= BufLen
      /\ n + p = h + WordAt(at, c, m)
      /\ \A j \in 0 .. c.s - 1 : WordAt(at, c, m + j) = WordAt(at, c, m) + j
      /\ m = 3 + Fitting(at, c) => n = h + m /\ n + p = h + BufLen - at
      /\ m < 3 + Fitting(at, c) => m + c.s <= 3 + Fitting(at, c)
      /\ n + p + c.s = h + WordAt(at, c, m + c.s - 1) + 1
      /\ 3 + (l + 1 - 1) * c.s = m + c.s
  <2>1. at = Place(u, h)
    BY DEF at
  <2> HIDE DEF p
  <2>2. p = IF BufLen - Place(u, n) < c.s THEN BufLen - Place(u, n) ELSE 0
    BY DEF p
  <2>3. QED  BY <1>1, <1>2, <1>7, <1>8, <2>1, <2>2, NextLine, SMTT(40)
<1>10. ws \in Seq(Cells) /\ Len(ws) = s
  <2>1. {} \in Regions
    BY DEF Regions
  <2>2. ws \in Seq(Cells)
    BY <1>2, <1>9, <2>1, WordsType DEF s
  <2>3. QED  BY <1>2, <2>2 DEF Words, s
<1>11. PICK p2 \in 0 .. BufLen :
               /\ N = n + p2 + Len(new)
               /\ v = Grown(Window, n, p2, new)
               /\ fits <=> Len(ws) <= BufLen - n /\ Len(ws) + p2 <= BufLen - n
               /\ Len(ws) <= BufLen - n =>
                    p2 = IF BufLen - Place(u, n) < Len(ws) THEN BufLen - Place(u, n) ELSE 0
  BY <1>1, <1>10, FilledWindow, SMTT(40) DEF u, n, fits, new, N, v
<1>12. p2 = p
  <2>1. Len(ws) <= BufLen - n
    <3> HIDE DEF p
    <3>1. n + p + s <= BufLen
      BY <1>9 DEF s
    <3>2. QED  BY <1>1, <1>2, <1>9, <1>10, <3>1
  <2>2. QED  BY <1>10, <1>11, <2>1 DEF s
<1> HIDE DEF p
<1>13. fits /\ new = ws /\ N = n + p + s /\ n + p + s <= BufLen
  <2>1. n + p + s <= BufLen
    BY <1>9 DEF s
  <2>2. fits
    BY <1>1, <1>2, <1>9, <1>10, <1>11, <1>12, <2>1
  <2>3. QED  BY <1>10, <1>11, <1>12, <2>1, <2>2 DEF new
<1>14. Continues(Window, u, n, p, a, c, m, s, h)
  <2>1. h >= a /\ h < n
    BY <1>1, <1>4
  <2>2. \A j \in 0 .. s - 1 : WordAt(at, c, m + j) = WordAt(at, c, m) + j
    BY <1>9 DEF s
  <2>3. m # 0
    BY <1>9
  <2>4. m = 3 + Fitting(at, c) => n = h + m /\ n + p = h + BufLen - at
    BY <1>9
  <2>5. m < 3 + Fitting(at, c) => m + s <= 3 + Fitting(at, c)
    BY <1>9 DEF s
  <2>6. m >= 3 /\ n + p = h + WordAt(at, c, m)
    BY <1>9
  <2>7. QED  BY <1>4, <1>5, <1>7, <1>13, <2>1, <2>2, <2>3, <2>4, <2>5, <2>6 DEF Continues, at
<1>15. /\ Formed(v, u, N, a, m + s) /\ h < N /\ v[h] = Cell(c, {}, 0)
       /\ \A d \in a .. N - 1 : Begins(v, d) => d = h
  <2>1. a \in 0 .. n /\ s \in Nat \ {0}
    BY <1>1, <1>2
  <2>2. /\ Window \in [Index -> Cells] /\ u \in Nat /\ n \in Nat /\ p \in Nat /\ c \in Cmds
        /\ c.op = "dma" /\ m \in Nat /\ h \in Nat
    BY <1>1, <1>2, <1>7, <1>9
  <2>3. Uploading(Grown(Window, n, p, Words(c, {}, m, s)), u, n + p + s, a, c, m + s, h)
    BY <1>14, <2>1, <2>2, GrowUpload, Zenon
  <2>4. v = Grown(Window, n, p, Words(c, {}, m, s))
    BY <1>11, <1>12, <1>13 DEF s
  <2>5. Uploading(v, u, N, a, c, m + s, h)
    BY <1>13, <2>3, <2>4
  <2>6. QED  BY <2>5 DEF Uploading
<1>16. UploadAt(v, u, a, N, c, m + s, h) /\ h \in a .. N - 1
  <2>1. h \in a .. N - 1
    BY <1>1, <1>2, <1>4, <1>9, <1>13
  <2>2. N = h + WordAt(at, c, (m + s) - 1) + 1
    <3>1. m + s - 1 = (m + s) - 1
      BY <1>2, <1>9
    <3>2. N = h + WordAt(at, c, m + s - 1) + 1
      BY <1>9, <1>13 DEF s
    <3>3. QED  BY <3>1, <3>2
  <2>3. h + DmaLen(at, c) <= BufLen /\ v[h] = Cell(c, {}, 0)
        /\ \A d \in a .. N - 1 : Begins(v, d) => d = h
    BY <1>8, <1>15
  <2>4. UploadAt(v, u, a, N, c, m + s, h)
    BY <2>1, <2>2, <2>3, Zenon DEF UploadAt, at
  <2>5. QED  BY <2>1, <2>4
<1>17. \A b \in 0 .. a : EndsAt(Window, u, b) => EndsAt(v, u, b)
  <2>1. v = Grown(Window, n, p, ws) /\ n + p + Len(ws) <= BufLen
    BY <1>10, <1>11, <1>12, <1>13
  <2>2. \A b \in 0 .. n : EndsAt(Window, u, b) => EndsAt(v, u, b)
    BY <1>1, <1>9, <1>10, <2>1, GrownEnds
  <2>3. QED  BY <1>1, <2>2
<1>18. N \in Nat /\ a <= N /\ N <= BufLen
  BY <1>1, <1>2, <1>9, <1>13
<1>19. 3 + (l + 1 - 1) * c.s = m + c.s
  BY <1>9
<1>20. QED  BY <1>13, <1>15, <1>16, <1>17, <1>18, <1>19 DEF u, N, v, fits, a, s, l

(* gpu_async_try_dma adds the header of an upload, or its next line.       *)
LEMMA DmaAddKeeps ==
  ASSUME TypeInv, TypeOK', RingInv, WideUploads, DmaAdd
  PROVE  RingInv'
<1> DEFINE c == Head(op.rest)
           ws == DmaWords(c)
           l == op.line
           q == AddedPos(WritePos, Len(ws))
           N == Diff(q, pos_used)
           m2 == 3 + (l + 1 - 1) * c.s
<1>1. /\ mpc = "dma" /\ op.line <= c.h /\ mpc' = "dma" /\ pos_used' = pos_used /\ pos_added' = pos_added
      /\ tpc' = tpc /\ tlen' = tlen /\ tdone' = tdone
      /\ cells' = Filled(op.pa, ws)
      /\ op' = [op EXCEPT !.line = @ + 1, !.pa = AddedPos(@, Len(ws)),
                          !.bad = @ \/ ~Fits(op.pa, Len(ws))]
  BY DEF DmaAdd
<1> HIDE DEF c, ws, q, N, m2, l
<1>2. op \in OpRecords /\ TypeOK
  BY DEF TypeInv, TypeOK
<1>3. /\ op'.line = l + 1 /\ op'.pa = AddedPos(op.pa, Len(ws)) /\ op'.ret = op.ret /\ op'.rest = op.rest
      /\ op'.unh = op.unh /\ op'.bad = (op.bad \/ ~Fits(op.pa, Len(ws)))
  BY <1>1, <1>2 DEF OpRecords, l
<1>4. op.ret = "publish" /\ WritePos = op.pa /\ ~op.bad
  BY <1>1 DEF RingInv, RetInv, WritePos, UploadInv
<1>5. WritePos' = q /\ Written' = N /\ Added' = Added
  <2>1. WritePos' = q
    BY <1>3, <1>4 DEF WritePos, q
  <2>2. Written' = N /\ Added' = Added
    BY <1>1, <2>1 DEF Written, Added, N
  <2>3. QED  BY <2>1, <2>2
<1>6. /\ l \in Nat /\ Added \in Nat /\ tlen \in Nat /\ tdone \in Nat /\ c \in Cmds /\ c.op = "dma"
      /\ c \in Dmas /\ op.rest # <<>> /\ c.s \in Nat
  <2>1. c \in Dmas /\ op.rest # <<>>
    BY <1>1 DEF RingInv, UploadInv, c
  <2>2. l \in Nat /\ Added \in Nat /\ tlen \in Nat /\ tdone \in Nat
    BY <1>2, RingTypes DEF TypeOK, l
  <2>3. QED  BY <2>1, <2>2, CmdAssumption, CmdFields
<1>7. /\ Fits(op.pa, Len(ws)) /\ N \in Nat /\ Added <= N /\ N <= BufLen
      /\ Formed(Window', pos_used, N, Added, m2)
      /\ \A b \in 0 .. Added : EndsAt(Window, pos_used, b) => EndsAt(Window', pos_used, b)
      /\ \E h \in Added .. N - 1 : UploadAt(Window', pos_used, Added, N, c, m2, h)
  <2>1. cells' = Filled(WritePos, ws)
    BY <1>1, <1>4
  <2>2. CASE l = 0
    <3>1. ws = Head0(c, {}) /\ m2 = 3 /\ op.line = 0
      <4>1. ws = Head0(c, {})
        BY <2>2 DEF DmaWords, ws, l
      <4>2. (0 + 1 - 1) * c.s = 0
        BY <1>6
      <4>3. QED  BY <2>2, <4>1, <4>2 DEF m2, l
    <3>2. QED  BY <1>1, <1>2, <1>4, <2>1, <3>1, AddHeader DEF c, q, N
  <2>3. CASE l # 0
    <3> DEFINE m == 3 + (l - 1) * c.s
    <3>1. ws = Words(c, {}, m, c.s) /\ op.line > 0
      BY <1>6, <2>3 DEF DmaWords, ws, l
    <3>2. m = 3 + (op.line - 1) * c.s /\ op.line <= c.h /\ c = Head(op.rest)
      BY <1>1 DEF l, c
    <3> HIDE DEF m
    <3>3. LET q0 == AddedPos(WritePos, Len(ws))
              N0 == Diff(q0, pos_used)
          IN  /\ Fits(WritePos, Len(ws)) /\ N0 \in Nat /\ Added <= N0 /\ N0 <= BufLen
              /\ Formed(Window', pos_used, N0, Added, m + c.s)
              /\ \A b \in 0 .. Added : EndsAt(Window, pos_used, b) => EndsAt(Window', pos_used, b)
              /\ \E h \in Added .. N0 - 1 : UploadAt(Window', pos_used, Added, N0, c, m + c.s, h)
              /\ 3 + (op.line + 1 - 1) * c.s = m + c.s
      BY <1>1, <1>2, <2>1, <3>1, <3>2, AddLine
    <3>4. m2 = m + c.s
      BY <3>3 DEF m2, l
    <3>5. QED  BY <1>4, <3>3, <3>4 DEF q, N
  <2>4. QED  BY <2>2, <2>3
<1>8. Lines' = l + 1 /\ Lines' # 0 /\ WordsIn' = m2 /\ Open' = Added
  <2>1. Lines' = l + 1 /\ Lines' # 0
    BY <1>1, <1>3, <1>6 DEF Lines
  <2>2. Head(op'.rest) = c
    BY <1>3 DEF c
  <2>3. WordsIn' = m2
    <3>1. WordsIn' = 3 + (op'.line - 1) * c.s
      BY <2>1, <2>2 DEF WordsIn
    <3>2. op'.line - 1 = l + 1 - 1
      BY <1>3, <1>6
    <3>3. QED  BY <3>1, <3>2 DEF m2
  <2>4. Open' = Added
    BY <1>5, <2>1 DEF Open
  <2>5. QED  BY <2>1, <2>3, <2>4
<1>9. RetInv'
  BY <1>1, <1>3 DEF RetInv, RingInv
<1>10. WordsInv'
  <2>1. Added' <= Written' /\ Written' <= BufLen
    BY <1>5, <1>7
  <2>2. Formed(Window', pos_used', Written', Open', WordsIn')
    BY <1>1, <1>5, <1>7, <1>8
  <2>3. EndsAt(Window', pos_used', Added')
    <3>1. EndsAt(Window, pos_used, Added) /\ Added \in 0 .. Added
      BY <1>6 DEF RingInv, WordsInv
    <3>2. EndsAt(Window', pos_used, Added)
      BY <1>7, <3>1
    <3>3. QED  BY <1>1, <1>5, <3>2
  <2>4. Whole(op'.unh)
    BY <1>3 DEF RingInv, WordsInv
  <2>5. QED  BY <1>1, <2>1, <2>2, <2>3, <2>4 DEF WordsInv
<1>11. TakenInv'
  <2>1. TakenInv /\ Added' \in Nat /\ Added <= Added'
    BY <1>5, <1>6 DEF RingInv
  <2>2. QED  BY <1>1, <1>6, <1>7, <2>1, TakenStays
<1>12. UploadInv'
  <2>1. ~op'.bad
    BY <1>3, <1>4, <1>7
  <2>2. op'.rest # <<>> /\ Head(op'.rest) = c /\ c \in Dmas /\ op'.line <= c.h + 1 /\ op'.line > 0
    <3>1. c.h \in Nat
      BY <1>6, CmdFields
    <3>2. QED  BY <1>1, <1>3, <1>6, <3>1 DEF c, l
  <2>3. PICK h \in Added .. N - 1 : UploadAt(Window', pos_used, Added, N, c, m2, h)
    BY <1>7
  <2>4. /\ Window'[h] = Cell(c, {}, 0)
        /\ \A d \in Added .. N - 1 : Begins(Window', d) => d = h
        /\ N = h + WordAt(Place(pos_used, h), c, m2 - 1) + 1
        /\ h + DmaLen(Place(pos_used, h), c) <= BufLen
    BY <2>3 DEF UploadAt
  <2>5. Window'[h].c = c
    BY <2>4 DEF Cell
  <2>6. N = InCmd(Window', pos_used, h, m2 - 1) + 1
    BY <2>4, <2>5 DEF InCmd
  <2>7. \E hh \in Added' .. Written' - 1 :
            /\ Window'[hh] = Cell(Head(op'.rest), {}, 0)
            /\ \A d \in Added' .. Written' - 1 : Begins(Window', d) => d = hh
            /\ Written' = InCmd(Window', pos_used', hh, WordsIn' - 1) + 1
            /\ hh + DmaLen(Place(pos_used', hh), Head(op'.rest)) <= BufLen
    BY <1>1, <1>5, <1>8, <2>2, <2>4, <2>6
  <2>8. op'.line # 0
    BY <1>3, <1>6
  <2>9. QED  BY <2>1, <2>2, <2>7, <2>8 DEF UploadInv
<1>13. QED  BY <1>9, <1>10, <1>11, <1>12 DEF RingInv

(* The gpu thread sets its mind on all that is published, which ends with  *)
(* a command.                                                              *)
LEMMA TopKeeps ==
  ASSUME TypeOK, RingInv, Top
  PROVE  RingInv'
<1>1. UNCHANGED <<ringVars, mainVars>>
  BY DEF Top
<1>2. RetInv' /\ WordsInv' /\ UploadInv' /\ Window' = Window /\ Added' = Added
  BY <1>1, MainStays DEF RingInv
<1>3. tpc' = "exited" \/ (tpc' = "decide" /\ tlen' = Added)
  BY DEF Top, Added
<1>4. Added \in Nat /\ EndsAt(Window, pos_used, Added) /\ pos_used' = pos_used
  BY <1>1, RingTypes DEF RingInv, WordsInv
<1>5. TakenInv'
  <2>1. CASE tpc' = "exited"
    BY <2>1 DEF TakenInv
  <2>2. CASE tpc' = "decide" /\ tlen' = Added
    <3>1. tlen' <= Added' /\ EndsAt(Window', pos_used', tlen')
      BY <1>2, <1>4, <2>2
    <3>2. QED  BY <2>2, <3>1 DEF TakenInv
  <2>3. QED  BY <1>3, <2>1, <2>2
<1>6. QED  BY <1>2, <1>5 DEF RingInv

(* What the gpu thread renders of it ends with a command too.              *)
LEMMA RenderKeeps ==
  ASSUME TypeOK, RingInv, Render
  PROVE  RingInv'
<1>1. UNCHANGED <<ringVars, mainVars>> /\ tpc = "render" /\ tpc' = "done"
  BY DEF Render
<1>2. RetInv' /\ WordsInv' /\ UploadInv' /\ Window' = Window /\ Added' = Added
  BY <1>1, MainStays DEF RingInv
<1> DEFINE sp(t) == IF t < BatchLen THEN Batch[t + 1].c ELSE Pad.c
<1>3. PICK t \in 0 .. BatchLen :
        /\ Takes(t)
        /\ tdone' = CASE sp(t).op = "nop" -> t
                      [] sp(t).op = "dma" -> t + DmaLen(UsedAt + t, sp(t))
                      [] OTHER -> t + Len0(sp(t))
  BY DEF Render
<1>4. /\ pos_used \in Positions /\ cells \in [Index -> Cells] /\ tlen \in Nat /\ Written \in 0 .. BufLen
      /\ Added \in Nat /\ Added <= Written /\ op.line \in Nat /\ op.rest \in Seq(Cmds)
  BY RingTypes DEF TypeOK, RingInv, WordsInv
<1>5. tlen > 0 /\ tlen <= Added /\ EndsAt(Window, pos_used, tlen)
  BY <1>1 DEF RingInv, TakenInv
<1>6. Formed(Window, pos_used, Written, Open, WordsIn)
  BY DEF RingInv, WordsInv
<1>7. Open \in Nat /\ tlen <= Open /\ tlen <= Written
  BY <1>4, <1>5 DEF Open
<1>8. WordsIn \in Nat
  <2>1. CASE Lines = 0
    BY <2>1 DEF WordsIn
  <2>2. CASE Lines # 0
    <3>1. mpc = "dma" /\ op.line > 0 /\ op.rest # <<>>
      BY <1>4, <2>2 DEF Lines, RingInv, UploadInv
    <3>2. Head(op.rest).s \in Nat /\ op.line - 1 \in Nat
      BY <1>4, <3>1, HeadAndTail, CmdFields
    <3>3. (op.line - 1) * Head(op.rest).s \in Nat
      BY <3>2
    <3>4. QED  BY <2>2, <3>3 DEF WordsIn
  <2>3. QED  BY <2>1, <2>2
<1>9. tdone' \in 1 .. tlen /\ EndsAt(Window, pos_used, tdone')
  BY <1>3, <1>4, <1>5, <1>6, <1>7, <1>8, TakenWhole
<1>10. tdone' \in 1 .. Added' /\ EndsAt(Window', pos_used', tdone')
  BY <1>1, <1>2, <1>4, <1>5, <1>9
<1>11. TakenInv'
  BY <1>1, <1>10 DEF TakenInv
<1>12. QED  BY <1>2, <1>11 DEF RingInv

(* The words of the upload in progress are a number, and it begins behind  *)
(* what is published.                                                      *)
LEMMA OpenIs ==
  ASSUME TypeOK, RingInv
  PROVE  Open \in Nat /\ Open <= Written /\ Added <= Open /\ WordsIn \in Nat
<1>1. /\ Written \in Nat /\ Added \in Nat /\ Added <= Written /\ op.line \in Nat /\ op.rest \in Seq(Cmds)
  BY RingTypes DEF RingInv, WordsInv
<1>2. Open \in Nat /\ Open <= Written /\ Added <= Open
  BY <1>1 DEF Open
<1>3. WordsIn \in Nat
  <2>1. CASE Lines = 0
    BY <2>1 DEF WordsIn
  <2>2. CASE Lines # 0
    <3>1. mpc = "dma" /\ op.line > 0 /\ op.rest # <<>>
      BY <1>1, <2>2 DEF Lines, RingInv, UploadInv
    <3>2. Head(op.rest).s \in Nat /\ op.line - 1 \in Nat
      BY <1>1, <3>1, HeadAndTail, CmdFields
    <3>3. (op.line - 1) * Head(op.rest).s \in Nat
      BY <3>2
    <3>4. QED  BY <2>2, <3>3 DEF WordsIn
  <2>3. QED  BY <2>1, <2>2
<1>4. QED  BY <1>2, <1>3

(* The gpu thread gives back what it has used: the window moves on by      *)
(* whole commands, and an upload in progress with it.                      *)
LEMMA CommitKeeps ==
  ASSUME TypeOK, TypeOK', RingInv, Commit
  PROVE  RingInv'
<1> DEFINE b == tdone
           u == pos_used
           v == Plus(u, b)
           n == Written
           w == Window
           o == Open
           m == WordsIn
<1>1. /\ tpc = "done" /\ tpc' = "top" /\ pos_used' = v /\ UNCHANGED mainVars /\ pos_added' = pos_added
      /\ cells' = [i \in Index |-> IF (BufLen + i - UsedAt) % BufLen < b THEN Free ELSE cells[i]]
  BY DEF Commit
<1>2. /\ u \in Positions /\ pos_added \in Positions /\ WritePos \in Positions /\ cells \in [Index -> Cells]
      /\ w \in [Index -> Cells] /\ u \in Nat /\ BufLen \in Nat /\ n \in 0 .. BufLen /\ Added \in Nat
      /\ Added <= n /\ op.line \in Nat
  BY RingTypes DEF RingInv, WordsInv
<1>3. b \in 1 .. Added /\ EndsAt(w, u, b)
  BY <1>1 DEF RingInv, TakenInv
<1>4. o \in Nat /\ o <= n /\ Added <= o /\ m \in Nat
  BY OpenIs
<1>5. Formed(w, u, n, o, m) /\ EndsAt(w, u, Added)
  BY DEF RingInv, WordsInv
<1>6. b \in 0 .. BufLen /\ b \in 0 .. n /\ b <= o
  BY <1>2, <1>3, <1>4
<1>7. Window' = Dropped(w, b)
  BY <1>1, <1>2, <1>6, CommitWindow, Zenon
<1>8. WritePos' = WritePos /\ Lines' = Lines /\ WordsIn' = m
  <2>1. WritePos' = WritePos
    BY <1>1 DEF WritePos
  <2>2. Lines' = Lines
    BY <1>1 DEF Lines
  <2>3. WordsIn' = WordsIn
    BY <1>1, <2>2 DEF WordsIn
  <2>4. QED  BY <2>1, <2>2, <2>3
<1>9. Added' = Added - b /\ Written' = n - b
  <2>1. \A a \in Positions : b <= Diff(a, u) => Diff(a, Plus(u, b)) = Diff(a, u) - b
    <3> SUFFICES ASSUME NEW a \in Positions, b <= Diff(a, u)
                 PROVE  Diff(a, Plus(u, b)) = Diff(a, u) - b
      OBVIOUS
    <3>1. \A k \in 0 .. BufLen : k <= Diff(a, u) => Diff(a, Plus(u, k)) = Diff(a, u) - k
      BY <1>2, DiffIs
    <3> HIDE DEF u, b
    <3>2. QED  BY <1>6, <3>1
  <2>2. Added' = Diff(pos_added, v) /\ Written' = Diff(WritePos, v)
    BY <1>1, <1>8 DEF Added, Written
  <2>3. b <= Diff(pos_added, u) /\ b <= Diff(WritePos, u)
    BY <1>3, <1>6 DEF Added, Written
  <2>4. QED  BY <1>2, <2>1, <2>2, <2>3 DEF Added, Written
<1>10. Open' = o - b
  BY <1>8, <1>9 DEF Open
<1> HIDE DEF b, u, v, n, w, o, m
<1>11. RetInv'
  BY <1>1 DEF RetInv, RingInv
<1>12. WordsInv'
  <2>1. Added' <= Written' /\ Written' <= BufLen
    BY <1>2, <1>3, <1>6, <1>9
  <2>2. Formed(Dropped(w, b), v, n - b, o - b, m)
    BY <1>2, <1>4, <1>5, <1>6, <1>3, DroppedFormed, Zenon DEF v
  <2>3. EndsAt(Dropped(w, b), v, Added - b)
    <3>1. Added \in b .. n
      BY <1>2, <1>3
    <3>2. QED  BY <1>2, <1>4, <1>5, <1>6, <3>1, DroppedEnds, Zenon DEF v
  <2>4. Formed(Window', pos_used', Written', Open', WordsIn')
    BY <1>1, <1>7, <1>8, <1>9, <1>10, <2>2
  <2>5. EndsAt(Window', pos_used', Added')
    BY <1>1, <1>7, <1>9, <2>3
  <2>6. Whole(op'.unh)
    BY <1>1 DEF RingInv, WordsInv
  <2>7. mpc' \in {"prefix", "loop"} => op'.rest \in Seq(ListCmds)
    BY <1>1 DEF RingInv, WordsInv
  <2>8. QED  BY <2>1, <2>4, <2>5, <2>6, <2>7 DEF WordsInv
<1>13. TakenInv'
  BY <1>1 DEF TakenInv
<1>14. UploadInv'
  <2> DEFINE c == Head(op.rest)
  <2>1. ~op.bad /\ op' = op /\ mpc' = mpc /\ Head(op'.rest) = c
    BY <1>1 DEF RingInv, UploadInv
  <2>2. ASSUME mpc = "dma"
        PROVE  op.rest # <<>> /\ c \in Dmas /\ op.line <= c.h + 1
    BY <2>2 DEF RingInv, UploadInv
  <2>3. ASSUME mpc = "dma", op.line = 0
        PROVE  Written' = Added' /\ DmaRoom(c) <= Room(WritePos)'
    <3>1. n = Added /\ DmaRoom(c) <= Room(WritePos)
      BY <2>3 DEF RingInv, UploadInv, n
    <3>2. Room(WritePos) = BufLen - n /\ Room(WritePos)' = BufLen - (n - b)
      BY <1>9 DEF Room, Written, n
    <3>3. DmaRoom(c) \in Int
      <4>1. c \in Cmds
        BY <2>2, <2>3, CmdAssumption
      <4>2. c.s \in Nat /\ c.h + 1 \in Nat
        BY <4>1, CmdFields
      <4>3. c.s * (c.h + 1) \in Nat
        BY <4>2
      <4>4. QED  BY <4>3 DEF DmaRoom
    <3> HIDE DEF c
    <3>4. QED  BY <1>2, <1>3, <1>9, <3>1, <3>2, <3>3
  <2>4. ASSUME mpc = "dma", op.line > 0
        PROVE  \E h \in Added' .. Written' - 1 :
                 /\ Window'[h] = Cell(c, {}, 0)
                 /\ \A d \in Added' .. Written' - 1 : Begins(Window', d) => d = h
                 /\ Written' = InCmd(Window', pos_used', h, WordsIn' - 1) + 1
                 /\ h + DmaLen(Place(pos_used', h), c) <= BufLen
    <3>1. PICK h \in Added .. n - 1 :
                 /\ w[h] = Cell(c, {}, 0)
                 /\ \A d \in Added .. n - 1 : Begins(w, d) => d = h
                 /\ n = InCmd(w, u, h, m - 1) + 1
                 /\ h + DmaLen(Place(u, h), c) <= BufLen
      BY <2>4 DEF RingInv, UploadInv, n, w, u, m
    <3> DEFINE g == h - b
    <3>2. g \in Nat /\ b + g = h /\ b + g < BufLen /\ g \in Added' .. Written' - 1
      BY <1>2, <1>3, <1>9
    <3> HIDE DEF g
    <3>3. \A d \in Nat : b + d < BufLen =>
            /\ Dropped(w, b)[d] = w[b + d] /\ Place(v, d) = Place(u, b + d)
            /\ (Begins(Dropped(w, b), d) <=> Begins(w, b + d))
      BY <1>2, <1>6, DroppedWord DEF v
    <3>4. Dropped(w, b)[g] = w[h] /\ Place(v, g) = Place(u, h)
      BY <3>2, <3>3
    <3>5. ASSUME NEW d \in Added' .. Written' - 1, Begins(Window', d)  PROVE d = g
      <4>1. d \in Nat /\ b + d < BufLen /\ b + d \in Added .. n - 1 /\ b \in Nat
        BY <1>2, <1>3, <1>9
      <4>2. Begins(w, b + d)
        BY <1>7, <3>3, <3>5, <4>1
      <4>3. b + d = h
        BY <3>1, <4>1, <4>2
      <4>4. QED  BY <3>2, <4>1, <4>3
    <3>6. Written' = InCmd(Window', pos_used', g, WordsIn' - 1) + 1
      <4> DEFINE x == WordAt(Place(u, h), c, m - 1)
      <4>1. w[h].c = c
        BY <3>1 DEF Cell
      <4>2. n = h + x + 1
        BY <3>1, <4>1 DEF InCmd
      <4>3. InCmd(Window', pos_used', g, WordsIn' - 1) = g + x
        BY <1>1, <1>7, <1>8, <3>4, <4>1 DEF InCmd
      <4>4. x \in Int
        <5>1. c \in Cmds /\ c.op = "dma"
          BY <2>2, <2>4, CmdAssumption
        <5>2. Place(u, h) \in Int
          BY <1>2 DEF Place
        <5>3. Fitting(Place(u, h), c) \in Int /\ m - 1 \in Int
          <6>1. c.s \in Nat /\ c.s > 0
            BY <5>1, CmdFields
          <6>2. (BufLen - Place(u, h) - 3) \div c.s \in Int
            BY <1>2, <5>2, <6>1
          <6>3. c.s * ((BufLen - Place(u, h) - 3) \div c.s) \in Int
            BY <6>1, <6>2
          <6>4. QED  BY <1>4, <6>3 DEF Fitting
        <5>4. QED  BY <1>2, <5>2, <5>3 DEF WordAt
      <4> HIDE DEF x
      <4>5. QED  BY <1>2, <1>3, <1>9, <3>2, <4>2, <4>3, <4>4
    <3>7. g + DmaLen(Place(v, g), c) <= BufLen
      <4>1. DmaLen(Place(v, g), c) = DmaLen(Place(u, h), c)
        BY <3>4
      <4>2. DmaLen(Place(u, h), c) \in Nat
        <5>1. c \in Cmds /\ c.op = "dma"
          BY <2>2, <2>4, CmdAssumption
        <5>2. Place(u, h) \in Int
          BY <1>2 DEF Place
        <5>3. QED  BY <5>1, <5>2, DmaLenType
      <4>3. h + DmaLen(Place(u, h), c) <= BufLen
        BY <3>1
      <4> HIDE DEF c
      <4>4. QED  BY <1>2, <1>3, <3>2, <4>1, <4>2, <4>3
    <3>8. Window'[g] = Cell(c, {}, 0)
      BY <1>7, <3>1, <3>4
    <3>9. QED  BY <1>1, <3>2, <3>5, <3>6, <3>7, <3>8
  <2> HIDE DEF c
  <2>5. QED  BY <2>1, <2>2, <2>3, <2>4 DEF UploadInv
<1>15. QED  BY <1>11, <1>12, <1>13, <1>14 DEF RingInv

(* The record of no call holds nothing for the ring.                       *)
LEMMA NoOpHolds ==
  /\ NoOp.ret = "idle" /\ NoOp.unh = <<>> /\ ~NoOp.bad /\ NoOp.line = 0 /\ Whole(NoOp.unh)
BY DEF NoOp, Whole

(* A step of a call that does not touch the ring: what the call holds for  *)
(* later must be whole commands.                                           *)
Untouched ==
  /\ UNCHANGED ringVars /\ tlen' = tlen /\ tdone' = tdone
  /\ tpc' = tpc \/ tpc' \notin {"decide", "render", "done"}
  /\ mpc # "dma" /\ WritePos' = WritePos
Holds == /\ Whole(op.unh) /\ ~op.bad /\ mpc # "dma"
         /\ mpc \in {"prefix", "loop"} => op.rest \in Seq(ListCmds)

(* Such a step keeps the ring's invariant.                                 *)
LEMMA UntouchedKeeps ==
  ASSUME TypeOK, RingInv, Untouched, Holds', RetInv'
  PROVE  RingInv'
<1>1. Lines = 0 /\ Lines' = 0
  BY DEF Lines, Untouched, Holds
<1>2. WordsInv' /\ TakenInv'
  BY <1>1, RingStays DEF Untouched, Holds
<1>3. UploadInv'
  BY DEF UploadInv, Holds
<1>4. QED  BY <1>2, <1>3 DEF RingInv

(* The same when the ring is left as well by the call: mpc moves.          *)
LEMMA MovesKeep ==
  ASSUME TypeOK, RingInv, UNCHANGED ringVars, tlen' = tlen, tdone' = tdone,
         tpc' = tpc \/ tpc' \notin {"decide", "render", "done"},
         mpc # "dma", mpc' # "dma", RetInv',
         op'.unh = op.unh, op'.bad = op.bad, op'.pa = op.pa,
         op'.ret = op.ret \/ ("publish" \notin {op.ret, op'.ret}),
         mpc' \in {"prefix", "loop"} => mpc \in {"prefix", "loop"} /\ op'.rest = op.rest
  PROVE  RingInv'
<1>1. WritePos' = WritePos
  BY DEF WritePos
<1>2. Untouched
  BY <1>1 DEF Untouched
<1>3. Holds'
  BY DEF Holds, RingInv, WordsInv, UploadInv
<1>4. QED  BY <1>2, <1>3, UntouchedKeeps

(* The same when the call ends or another begins with nothing to add.      *)
LEMMA DoneKeeps ==
  ASSUME TypeOK, RingInv, UNCHANGED ringVars, tlen' = tlen, tdone' = tdone,
         tpc' = tpc \/ tpc' \notin {"decide", "render", "done"},
         mpc # "dma", mpc' \notin {"dma", "prefix", "loop", "publish", "idle", "ecmds"} \/
                      (mpc' \in {"idle", "ecmds"} /\ op'.ret = "idle"),
         op.ret # "publish", op'.ret # "publish", Whole(op'.unh), ~op'.bad
  PROVE  RingInv'
<1>1. WritePos' = WritePos
  BY DEF WritePos
<1>2. Untouched
  BY <1>1 DEF Untouched
<1>3. Holds'
  BY DEF Holds
<1>4. RetInv'
  BY DEF RetInv
<1>5. QED  BY <1>2, <1>3, <1>4, UntouchedKeeps

(* gpu_async_do_cmd_list begins: nothing is written yet.                   *)
LEMMA ListCallKeeps ==
  ASSUME TypeOK, RingInv, ListCall
  PROVE  RingInv'
<1>1. PICK l \in Lists : op' = [NoOp EXCEPT !.rest = l, !.pa = pos_added, !.ret = "publish"]
  BY DEF ListCall
<1>2. /\ op'.rest = l /\ op'.pa = pos_added /\ op'.ret = "publish" /\ op'.unh = NoOp.unh /\ op'.bad = NoOp.bad
  BY <1>1 DEF NoOp
<1>3. /\ UNCHANGED <<ringVars, threadVars>> /\ mpc = "idle" /\ mpc' \in {"prefix", "loop"}
  BY DEF ListCall, AddCall, Call
<1>4. op.ret = "idle" /\ WritePos' = WritePos
  BY <1>2, <1>3 DEF RingInv, RetInv, WritePos
<1>5. Untouched
  BY <1>3, <1>4 DEF Untouched
<1>6. l \in Seq(ListCmds)
  BY CmdAssumption
<1>7. Holds'
  BY <1>2, <1>3, <1>6, NoOpHolds DEF Holds
<1>8. RetInv'
  BY <1>2, <1>3 DEF RetInv
<1>9. QED  BY <1>5, <1>7, <1>8, UntouchedKeeps

(* The leading environment commands bypass the ring.                       *)
LEMMA PrefixKeeps ==
  ASSUME TypeOK, RingInv, Prefix
  PROVE  RingInv'
<1>1. op \in OpRecords /\ op.rest \in Seq(ListCmds) /\ op.ret = "publish"
      /\ Whole(op.unh) /\ ~op.bad
  BY DEF TypeOK, RingInv, RetInv, WordsInv, UploadInv, Prefix
<1>2. /\ UNCHANGED <<ringVars, threadVars>> /\ mpc = "prefix" /\ mpc' \in {"prefix", "loop"}
  BY DEF Prefix
<1>3. op' = op \/ (op.rest # <<>> /\ op' = [op EXCEPT !.rest = Tail(@), !.some = TRUE])
  BY DEF Prefix
<1>4. op'.unh = op.unh /\ op'.bad = op.bad /\ op'.pa = op.pa /\ op'.ret = op.ret
      /\ op'.rest \in Seq(ListCmds)
  <2>1. CASE op' = op
    BY <1>1, <2>1
  <2>2. CASE op.rest # <<>> /\ op' = [op EXCEPT !.rest = Tail(@), !.some = TRUE]
    <3>1. Tail(op.rest) \in Seq(ListCmds)
      BY <1>1, <2>2
    <3>2. QED  BY <1>1, <2>2, <3>1 DEF OpRecords
  <2>3. QED  BY <1>3, <2>1, <2>2
<1>5. WritePos' = WritePos
  BY <1>2, <1>4 DEF WritePos
<1>6. Untouched
  BY <1>2, <1>5 DEF Untouched
<1>7. Holds'
  BY <1>1, <1>2, <1>4 DEF Holds
<1>8. RetInv'
  BY <1>1, <1>2, <1>4 DEF RetInv
<1>9. QED  BY <1>6, <1>7, <1>8, UntouchedKeeps

(* A step that adds whole commands behind the others, published at once or *)
(* not.                                                                    *)
LEMMA AddingKeeps ==
  ASSUME TypeOK, RingInv, mpc # "dma", mpc' # "dma", NEW ws \in Seq(Cells), Whole(ws),
         cells' = Filled(WritePos, ws), pos_used' = pos_used,
         WritePos' = AddedPos(WritePos, Len(ws)),
         pos_added' = pos_added \/ pos_added' = WritePos',
         tpc' = tpc, tlen' = tlen, tdone' = tdone, RetInv', Holds'
  PROVE  RingInv'
<1> DEFINE N == Diff(AddedPos(WritePos, Len(ws)), pos_used)
<1>1. Lines = 0 /\ Lines' = 0
  BY DEF Lines
<1>2. /\ N \in Nat /\ Written <= N /\ N <= BufLen
      /\ Formed(Window', pos_used, N, N, 0) /\ EndsAt(Window', pos_used, N)
      /\ \A b \in 0 .. Written : EndsAt(Window, pos_used, b) => EndsAt(Window', pos_used, b)
  BY <1>1, GrowRing
<1>3. Written' = N /\ (Added' = Added \/ Added' = N)
  BY DEF Written, Added
<1> HIDE DEF N
<1>4. Open' = N /\ WordsIn' = 0
  BY <1>1, <1>3 DEF Open, WordsIn
<1>5. /\ Added \in Nat /\ Written \in Nat /\ Added <= Written /\ EndsAt(Window, pos_used, Added)
      /\ tlen \in Nat /\ tdone \in Nat
  BY RingTypes DEF RingInv, WordsInv, TypeOK
<1>6. Added <= Added' /\ Added' <= N /\ Added' \in Nat
  BY <1>2, <1>3, <1>5
<1>7. EndsAt(Window', pos_used, Added')
  <2>1. Added \in 0 .. Written
    BY <1>5
  <2>2. QED  BY <1>2, <1>3, <1>5, <2>1
<1>8. WordsInv'
  <2>1. Formed(Window', pos_used', Written', Open', WordsIn')
    BY <1>2, <1>3, <1>4
  <2>2. EndsAt(Window', pos_used', Added')
    BY <1>7
  <2>3. Added' <= Written' /\ Written' <= BufLen
    BY <1>2, <1>3, <1>6
  <2>4. QED  BY <2>1, <2>2, <2>3 DEF WordsInv, Holds
<1>9. TakenInv'
  <2>1. \A b \in 0 .. Added : EndsAt(Window, pos_used, b) => EndsAt(Window', pos_used, b)
    BY <1>2, <1>5
  <2>2. TakenInv
    BY DEF RingInv
  <2>3. QED  BY <1>5, <1>6, <2>1, <2>2, TakenStays
<1>10. UploadInv'
  BY DEF UploadInv, Holds
<1>11. QED  BY <1>8, <1>9, <1>10 DEF RingInv

(* The list loop adds a command whole, or keeps it for do_add_with_wait.   *)
LEMMA LoopKeeps ==
  ASSUME TypeOK, RingInv, Loop
  PROVE  RingInv'
<1> DEFINE c == Head(op.rest)
           skip == Redundant(c) \/ (c.op = "copy" /\ c.r = {})
           ghost == IF c.op = "draw" THEN env_m ELSE {}
           add == CanAdd /\ ~skip
           handled == CanAdd /\ (skip \/ Fits(op.pa, Len0(c)))
           ws == Head0(c, ghost)
           pa2 == IF add THEN AddedPos(op.pa, Len0(c)) ELSE op.pa
           unh2 == IF handled THEN op.unh ELSE op.unh \o ws
           some2 == op.some \/ handled
           rend2 == op.rend \/ Rendered(c)
           brk2 == op.brk \/ (c.op = "env" /\ ~Redundant(c))
<1>1. /\ op \in OpRecords /\ op.rest \in Seq(ListCmds) /\ op.rest # <<>> /\ op.ret = "publish"
      /\ Whole(op.unh) /\ ~op.bad /\ op.unh \in Seq(Cells) /\ env_m \in Regions
  BY RingTypes DEF TypeOK, RingInv, RetInv, WordsInv, UploadInv, Loop
<1>2. c \in ListCmds /\ Tail(op.rest) \in Seq(ListCmds)
  BY <1>1
<1>3. c \in Cmds /\ c.op \notin {"dma", "free"} /\ ghost \in Regions
  BY <1>1, <1>2 DEF ListCmds, Regions
<1>4. /\ mpc = "loop" /\ mpc' = "loop" /\ pos_used' = pos_used /\ pos_added' = pos_added
      /\ UNCHANGED threadVars
      /\ cells' = IF add THEN Filled(op.pa, ws) ELSE cells
      /\ op' = [op EXCEPT !.rest = Tail(@), !.pa = pa2, !.can = handled, !.some = some2,
                          !.unh = unh2, !.rend = rend2, !.brk = brk2]
  BY DEF Loop
<1> HIDE DEF c, skip, ghost, add, handled, ws, pa2, unh2, some2, rend2, brk2
<1>5. ws \in Seq(Cells) /\ Len(ws) = Len0(c) /\ Whole(ws)
  BY <1>3, WholeHead DEF ws
<1>6. /\ op'.rest = Tail(op.rest) /\ op'.pa = pa2 /\ op'.unh = unh2 /\ op'.bad = op.bad /\ op'.ret = "publish"
  BY <1>1, <1>4 DEF OpRecords
<1>7. Whole(unh2)
  BY <1>1, <1>5, WholeConcat DEF unh2
<1>8. Holds'
  BY <1>1, <1>2, <1>4, <1>6, <1>7 DEF Holds
<1>9. RetInv'
  BY <1>4, <1>6 DEF RetInv
<1>10. WritePos = op.pa /\ WritePos' = pa2
  BY <1>1, <1>6 DEF WritePos
<1>11. CASE add
  <2>1. cells' = Filled(WritePos, ws) /\ WritePos' = AddedPos(WritePos, Len(ws))
    BY <1>4, <1>5, <1>10, <1>11 DEF pa2
  <2>2. QED  BY <1>4, <1>5, <1>8, <1>9, <2>1, AddingKeeps
<1>12. CASE ~add
  <2>1. Untouched
    BY <1>4, <1>10, <1>12 DEF Untouched, pa2
  <2>2. QED  BY <1>8, <1>9, <2>1, UntouchedKeeps
<1>13. QED  BY <1>11, <1>12

(* do_add_with_wait adds what it was given whole, or not at all.           *)
LEMMA AddWithWaitKeeps ==
  ASSUME TypeOK, RingInv, AddWithWait
  PROVE  RingInv'
<1>1. /\ op \in OpRecords /\ op.ret # "publish" /\ op.unh \in Seq(Cells) /\ Whole(op.unh) /\ ~op.bad
  BY RingTypes DEF TypeOK, RingInv, RetInv, WordsInv, UploadInv, AddWithWait
<1>2. /\ mpc = "add" /\ mpc' \in {"break", "addlock"} /\ pos_used' = pos_used
      /\ UNCHANGED threadVars /\ cells' = Filled(pos_added, op.unh)
      /\ pos_added' = AddedPos(pos_added, Len(op.unh))
      /\ op' = op \/ op' = [op EXCEPT !.unh = <<>>]
  BY DEF AddWithWait
<1>3. op'.ret = op.ret /\ op'.bad = op.bad /\ (op'.unh = op.unh \/ op'.unh = <<>>)
  BY <1>1, <1>2 DEF OpRecords
<1>4. WritePos = pos_added /\ WritePos' = pos_added'
  BY <1>1, <1>3 DEF WritePos
<1>5. Holds'
  BY <1>1, <1>2, <1>3 DEF Holds, Whole
<1>6. RetInv'
  BY <1>1, <1>2, <1>3 DEF RetInv
<1>7. QED  BY <1>1, <1>2, <1>4, <1>5, <1>6, AddingKeeps

(* The break command is three words.                                       *)
LEMMA BreakKeeps ==
  ASSUME TypeOK, RingInv, Break
  PROVE  RingInv'
<1> DEFINE ws == Head0(Brk, {})
<1>1. op.ret # "publish" /\ mpc = "break" /\ mpc' = "idle" /\ op' = NoOp /\ pos_used' = pos_used
      /\ UNCHANGED threadVars
  BY DEF RingInv, RetInv, Break, Done
<1>2. ws \in Seq(Cells) /\ Len(ws) = Len0(Brk) /\ Whole(ws)
  <2>1. Brk \in Cmds /\ Brk.op = "brk" /\ {} \in Regions
    BY ConstantTypes DEF Brk, Cmd, Regions
  <2>2. QED  BY <2>1, WholeHead
<1>3. (cells' = Filled(pos_added, ws) /\ pos_added' = AddedPos(pos_added, Len(ws)))
      \/ (cells' = cells /\ pos_added' = pos_added)
  BY <1>2 DEF Break
<1> HIDE DEF ws
<1>4. WritePos = pos_added /\ WritePos' = pos_added'
  BY <1>1, NoOpHolds DEF WritePos
<1>5. Holds' /\ RetInv'
  BY <1>1, NoOpHolds DEF Holds, RetInv
<1>6. CASE cells' = Filled(pos_added, ws) /\ pos_added' = AddedPos(pos_added, Len(ws))
  BY <1>1, <1>2, <1>4, <1>5, <1>6, AddingKeeps
<1>7. CASE cells' = cells /\ pos_added' = pos_added
  <2>1. Untouched
    BY <1>1, <1>4, <1>7 DEF Untouched
  <2>2. QED  BY <1>5, <2>1, UntouchedKeeps
<1>8. QED  BY <1>3, <1>6, <1>7

(* gpu_async_enable begins with an empty ring.                             *)
Emptied ==
  /\ pos_added = 0 /\ pos_used = 0 /\ cells = [i \in Index |-> Free]
  /\ tpc = "start" /\ mpc = "ecmds" /\ op = NoOp

(* An empty ring is a safe one.                                            *)
LEMMA EmptiedIsSafe == Emptied => RingInv
<1> SUFFICES ASSUME Emptied  PROVE RingInv
  OBVIOUS
<1>1. /\ pos_added = 0 /\ pos_used = 0 /\ cells = [i \in Index |-> Free]
      /\ tpc = "start" /\ mpc = "ecmds" /\ op = NoOp
  BY DEF Emptied
<1>2. RetInv
  BY <1>1, NoOpHolds DEF RetInv
<1>3. WritePos = 0 /\ Lines = 0
  BY <1>1, NoOpHolds DEF WritePos, Lines
<1>4. Added = 0 /\ Written = 0
  BY <1>1, <1>3 DEF Added, Written, Diff
<1>5. WordsIn = 0 /\ Open = 0
  BY <1>3, <1>4 DEF WordsIn, Open
<1>6. \A d \in Index : Window[d] = Free
  <2>1. \A d \in Index : Place(0, d) \in Index
    BY BufLenAssumption DEF Place, Index
  <2>2. QED  BY <1>1, <2>1 DEF Window
<1>7. Formed(Window, 0, 0, 0, 0)
  <2>1. Free.c.op = "free"
    BY DEF Free, Cell, Cmd
  <2>2. \A d \in Index : d >= 0
    BY DEF Index
  <2>3. QED  BY <1>6, <2>1, <2>2 DEF Formed
<1>8. WordsInv
  <2>1. EndsAt(Window, 0, 0)
    BY DEF EndsAt
  <2>2. QED  BY BufLenAssumption, <1>1, <1>4, <1>5, <1>7, <2>1, NoOpHolds DEF WordsInv
<1>9. TakenInv
  BY <1>1 DEF TakenInv
<1>10. UploadInv
  BY <1>1, NoOpHolds DEF UploadInv
<1>11. QED  BY <1>2, <1>8, <1>9, <1>10 DEF RingInv

(* The same of the next state.                                             *)
LEMMA EmptiedAfter == Emptied' => RingInv'
BY EmptiedIsSafe, PTL

(* What was written is published: the ring's words are then whole commands *)
(* up to pos_added.                                                        *)
LEMMA PublishedKeeps ==
  ASSUME TypeOK, RingInv, UNCHANGED <<pos_used, cells>>, tlen' = tlen, tdone' = tdone,
         tpc' = tpc \/ tpc' \notin {"decide", "render", "done"},
         op.ret = "publish", pos_added' = op.pa, op'.ret = "idle", mpc' # "dma", RetInv', Holds',
         \A h \in 0 .. Written - 1 : Begins(Window, h) =>
            LastIn(Window, h, Open, WordsIn) = LastWord(Window[h].c)
  PROVE  RingInv'
<1> DEFINE w == Window
           u == pos_used
           n == Written
           o == Open
           m == WordsIn
<1>1. /\ w \in [Index -> Cells] /\ u \in Nat /\ n \in 0 .. BufLen /\ Formed(w, u, n, o, m)
      /\ Added \in Nat /\ Added <= n /\ tlen \in Nat /\ tdone \in Nat /\ BufLen \in Nat
  BY RingTypes DEF RingInv, WordsInv, TypeOK
<1>2. Window' = w
  BY DEF Window, Place
<1>3. WritePos' = op.pa /\ WritePos = op.pa
  BY DEF WritePos
<1>4. Written' = n /\ Added' = n
  BY <1>3 DEF Written, Added
<1>5. Lines' = 0 /\ WordsIn' = 0 /\ Open' = n
  BY <1>4 DEF Lines, WordsIn, Open
<1>6. EndsAt(w, u, n)
  <2>1. \A h \in 0 .. n - 1 : Begins(w, h) => LastIn(w, h, o, m) = LastWord(w[h].c)
    OBVIOUS
  <2> HIDE DEF w, u, n, o, m
  <2>2. QED  BY <1>1, <2>1, FormedEnds, Zenon
<1>7. Formed(w, u, n, n, 0)
  <2>1. \A h \in 0 .. n - 1 : Begins(w, h) => LastIn(w, h, o, m) = LastIn(w, h, n, 0)
    <3>1. \A h \in 0 .. n - 1 : Begins(w, h) => LastIn(w, h, o, m) = LastWord(w[h].c)
      OBVIOUS
    <3>2. \A h \in 0 .. n - 1 : LastIn(w, h, n, 0) = LastWord(w[h].c)
      <4> HIDE DEF n, w
      <4>1. QED  BY <1>1 DEF LastIn
    <3> HIDE DEF n, w, o, m
    <3>3. QED  BY <3>1, <3>2
  <2> HIDE DEF w, u, n, o, m
  <2>2. QED  BY <1>1, <2>1, FormedOpen, Zenon
<1> HIDE DEF w, u, n, o, m
<1>8. WordsInv'
  <2>1. Formed(Window', pos_used', Written', Open', WordsIn')
    BY <1>2, <1>4, <1>5, <1>7 DEF u
  <2>2. EndsAt(Window', pos_used', Added')
    BY <1>2, <1>4, <1>6 DEF u
  <2>3. Added' <= Written' /\ Written' <= BufLen
    BY <1>1, <1>4
  <2>4. QED  BY <2>1, <2>2, <2>3 DEF WordsInv, Holds
<1>9. TakenInv'
  <2>1. Added' \in Nat /\ Added <= Added'
    BY <1>1, <1>4
  <2>2. \A b \in 0 .. Added : EndsAt(Window, pos_used, b) => EndsAt(Window', pos_used, b)
    BY <1>2 DEF w
  <2>3. TakenInv /\ pos_used' = pos_used
    BY DEF RingInv
  <2>4. QED  BY <1>1, <2>1, <2>2, <2>3, TakenStays
<1>10. UploadInv'
  BY DEF UploadInv, Holds
<1>11. QED  BY <1>8, <1>9, <1>10 DEF RingInv

(* The end of gpu_async_do_cmd_list's loop publishes its commands.         *)
LEMMA PublishKeeps ==
  ASSUME TypeOK, RingInv, Publish
  PROVE  RingInv'
<1>1. /\ mpc = "publish" /\ mpc' = "kick" /\ pos_added' = op.pa /\ UNCHANGED <<pos_used, cells>>
      /\ op' = [op EXCEPT !.ret = "idle", !.pa = 0] /\ UNCHANGED threadVars
  BY DEF Publish
<1>2. op \in OpRecords /\ op.ret = "publish" /\ Whole(op.unh) /\ ~op.bad
  BY <1>1 DEF TypeOK, RingInv, RetInv, WordsInv, UploadInv
<1>3. op'.ret = "idle" /\ op'.unh = op.unh /\ op'.bad = op.bad
  BY <1>1, <1>2 DEF OpRecords
<1>4. RetInv' /\ Holds'
  BY <1>1, <1>2, <1>3 DEF RetInv, Holds
<1>5. \A h \in 0 .. Written - 1 : Begins(Window, h) =>
        LastIn(Window, h, Open, WordsIn) = LastWord(Window[h].c)
  BY <1>1, LastFacts
<1>6. QED  BY <1>1, <1>2, <1>3, <1>4, <1>5, PublishedKeeps

(* An upload is published when all its lines are in.                       *)
LEMMA DmaPublishKeeps ==
  ASSUME TypeOK, RingInv, DmaPublish
  PROVE  RingInv'
<1> DEFINE c == Head(op.rest)
<1>1. /\ mpc = "dma" /\ mpc' = "idle" /\ pos_added' = op.pa /\ UNCHANGED <<pos_used, cells>>
      /\ op' = NoOp /\ tlen' = tlen /\ tdone' = tdone /\ (tpc' = tpc \/ tpc' = "woken")
      /\ op.line > c.h
  BY DEF DmaPublish, Kick, Done
<1>2. /\ op \in OpRecords /\ op.ret = "publish" /\ op.line <= c.h + 1 /\ c \in Dmas /\ op.line \in Nat
  BY <1>1, RingTypes DEF TypeOK, RingInv, RetInv, UploadInv
<1>3. c \in Cmds /\ c.op = "dma" /\ c.h \in Nat /\ c.s \in Nat
  BY <1>2, CmdAssumption, CmdFields
<1>4. op.line = c.h + 1 /\ op.line > 0
  <2> HIDE DEF c
  <2>1. QED  BY <1>1, <1>2, <1>3
<1>5. RetInv' /\ Holds'
  BY <1>1, NoOpHolds DEF RetInv, Holds
<1>6. WordsIn - 1 = LastWord(c) /\ Open = Added
  <2>1. Lines # 0 /\ WordsIn = 3 + (op.line - 1) * c.s /\ Open = Added
    BY <1>1, <1>2, <1>4 DEF Lines, WordsIn, Open
  <2>2. LastWord(c) = 2 + c.s * c.h /\ c.s * c.h \in Nat
    BY <1>3, LastWordIs
  <2> HIDE DEF c
  <2>3. op.line - 1 = c.h
    BY <1>3, <1>4
  <2>4. c.h * c.s = c.s * c.h
    BY <1>3
  <2>5. WordsIn = 3 + c.s * c.h
    BY <2>1, <2>3, <2>4
  <2> DEFINE x == c.s * c.h
  <2>6. WordsIn = 3 + x /\ x \in Nat /\ LastWord(c) = 2 + x
    BY <2>2, <2>5
  <2> HIDE DEF x
  <2>7. QED  BY <2>1, <2>6
<1>7. \A h \in 0 .. Written - 1 : Begins(Window, h) =>
        LastIn(Window, h, Open, WordsIn) = LastWord(Window[h].c)
  <2> SUFFICES ASSUME NEW h \in 0 .. Written - 1, Begins(Window, h)
               PROVE  LastIn(Window, h, Open, WordsIn) = LastWord(Window[h].c)
    OBVIOUS
  <2>1. CASE ~(h >= Open)
    BY <2>1 DEF LastIn
  <2>2. CASE h >= Open
    <3>1. PICK h0 \in Added .. Written - 1 :
             /\ Window[h0] = Cell(c, {}, 0)
             /\ \A d \in Added .. Written - 1 : Begins(Window, d) => d = h0
      BY <1>1, <1>4 DEF RingInv, UploadInv
    <3>2. h \in Added .. Written - 1
      BY <1>6, <2>2, RingTypes
    <3>3. h = h0
      BY <3>1, <3>2
    <3>4. Window[h].c = c
      BY <3>1, <3>3 DEF Cell
    <3>5. LastIn(Window, h, Open, WordsIn) = WordsIn - 1
      BY <2>2 DEF LastIn
    <3>6. QED  BY <1>6, <3>4, <3>5
  <2>3. QED  BY <2>1, <2>2
<1>8. op'.ret = "idle" /\ mpc' # "dma" /\ (tpc' = tpc \/ tpc' \notin {"decide", "render", "done"})
  BY <1>1, NoOpHolds
<1>9. QED  BY <1>1, <1>2, <1>5, <1>7, <1>8, PublishedKeeps

(* gpu_async_try_dma begins when there is room for the upload.             *)
LEMMA DmaCallKeeps ==
  ASSUME TypeOK, RingInv, DmaCall
  PROVE  RingInv'
<1>1. PICK c \in Dmas :
          IF Quiet \/ Room(pos_added) < DmaRoom(c)
          THEN mpc' = "sync" /\ op' = [NoOp EXCEPT !.rest = <<c>>, !.ret = "vram"]
          ELSE /\ mpc' = "dma"
               /\ op' = [NoOp EXCEPT !.rest = <<c>>, !.pa = pos_added, !.ret = "publish"]
  BY DEF DmaCall
<1>2. /\ UNCHANGED <<ringVars, threadVars>> /\ mpc = "idle" /\ op.ret = "idle"
  BY DEF DmaCall, AddCall, Call, RingInv, RetInv
<1>3. CASE Quiet \/ Room(pos_added) < DmaRoom(c)
  <2>1. mpc' = "sync" /\ op'.unh = <<>> /\ ~op'.bad /\ op'.ret = "vram"
    BY <1>1, <1>3 DEF NoOp
  <2>2. Whole(op'.unh)
    BY <2>1 DEF Whole
  <2>3. QED  BY <1>2, <2>1, <2>2, DoneKeeps
<1>4. CASE ~(Quiet \/ Room(pos_added) < DmaRoom(c))
  <2>1. /\ mpc' = "dma" /\ op'.unh = <<>> /\ ~op'.bad /\ op'.ret = "publish" /\ op'.pa = pos_added
        /\ op'.line = 0 /\ op'.rest = <<c>>
    BY <1>1, <1>4 DEF NoOp
  <2>2. WritePos' = pos_added /\ WritePos = pos_added
    BY <1>2, <2>1 DEF WritePos
  <2>3. Lines = 0 /\ Lines' = 0 /\ Whole(op.unh)'
    BY <1>2, <2>1 DEF Lines, Whole
  <2>4. WordsInv' /\ TakenInv' /\ Added' = Added /\ Written' = Written
    <3>1. mpc' \in {"prefix", "loop"} => op'.rest \in Seq(ListCmds)
      BY <2>1
    <3>2. tlen' = tlen /\ tdone' = tdone /\ tpc' = tpc /\ WritePos' = WritePos
      BY <1>2, <2>2
    <3>3. QED  BY <1>2, <2>3, <3>1, <3>2, RingStays
  <2>5. RetInv'
    BY <2>1 DEF RetInv
  <2>6. UploadInv'
    <3>1. op'.rest # <<>> /\ Head(op'.rest) = c /\ c \in Dmas
      BY <2>1
    <3>2. Written' = Added'
      BY <1>2, <2>1, <2>2 DEF Written, Added
    <3>3. DmaRoom(c) <= Room(pos_added) /\ c.h \in Nat
      <4>1. c \in Cmds /\ c.s \in Nat /\ c.h \in Nat
        BY CmdAssumption, CmdFields
      <4>2. c.s * (c.h + 1) \in Nat
        BY <4>1
      <4>3. DmaRoom(c) \in Int
        BY <4>2 DEF DmaRoom
      <4>4. Room(pos_added) \in Int
        <5>1. pos_added \in Positions /\ pos_used \in Positions
          BY DEF TypeOK
        <5>2. Diff(pos_added, pos_used) \in Nat
          BY <5>1, PositionArithmetic
        <5>3. QED  BY BufLenAssumption, <5>2 DEF Room
      <4>5. QED  BY <1>4, <4>1, <4>3, <4>4
    <3>4. Room(WritePos)' = Room(pos_added)
      BY <1>2, <2>2 DEF Room
    <3>5. op'.line <= Head(op'.rest).h + 1 /\ ~(op'.line > 0)
      <4>1. 0 <= c.h + 1 /\ ~(0 > 0)
        BY <3>3
      <4>2. QED  BY <2>1, <3>1, <4>1
    <3>6. QED  BY <2>1, <3>1, <3>2, <3>3, <3>4, <3>5 DEF UploadInv
  <2>7. QED  BY <2>4, <2>5, <2>6 DEF RingInv
<1>5. QED  BY <1>3, <1>4

(* A message to the renderer holds whole commands.                         *)
LEMMA TellKeeps ==
  ASSUME TypeOK, RingInv, UNCHANGED ringVars, UNCHANGED threadVars, mpc \in {"idle", "ecmds"},
         NEW c, NEW ws, Whole(ws), Tell(c, ws)
  PROVE  RingInv'
<1>1. op.ret = "idle" /\ mpc # "dma"
  BY DEF RingInv, RetInv
<1>2. CASE Quiet
  <2>1. mpc' = "direct" /\ op' = [NoOp EXCEPT !.rest = <<c>>]
    BY <1>2 DEF Tell
  <2>2. op'.ret = "idle" /\ op'.unh = <<>> /\ ~op'.bad
    BY <2>1 DEF NoOp
  <2>3. Whole(op'.unh)
    BY <2>2 DEF Whole
  <2>4. QED  BY <1>1, <2>1, <2>2, <2>3, DoneKeeps
<1>3. CASE ~Quiet
  <2>1. mpc' = "add" /\ op' = [NoOp EXCEPT !.unh = ws]
    BY <1>3 DEF Tell
  <2>2. op'.ret = "idle" /\ op'.unh = ws /\ ~op'.bad
    BY <2>1 DEF NoOp
  <2>3. QED  BY <1>1, <2>1, <2>2, DoneKeeps
<1>4. QED  BY <1>2, <1>3

(* A step of the gpu thread that takes and gives back nothing.             *)
LEMMA ThreadKeeps ==
  ASSUME TypeOK, RingInv, UNCHANGED <<ringVars, mainVars>>, tlen' = tlen, tdone' = tdone,
         tpc' \notin {"decide", "render", "done"}
  PROVE  RingInv'
<1>1. RetInv' /\ WordsInv' /\ UploadInv'
  BY MainStays DEF RingInv
<1>2. TakenInv'
  BY DEF TakenInv
<1>3. QED  BY <1>1, <1>2 DEF RingInv

(* Every step of either thread keeps the ring as the other expects it.     *)
LEMMA RingNext ==
  ASSUME TypeInv, TypeInv', RingInv, WideUploads, [Next]_vars
  PROVE  RingInv'
<1>0. TypeOK /\ TypeOK' /\ op \in OpRecords
  BY DEF TypeInv, TypeOK
<1>1. CASE ListCall  BY <1>0, <1>1, ListCallKeeps
<1>2. CASE Prefix  BY <1>0, <1>2, PrefixKeeps
<1>3. CASE Loop  BY <1>0, <1>3, LoopKeeps
<1>4. CASE LoopEnd
  <2>1. /\ UNCHANGED <<ringVars, threadVars>> /\ mpc = "loop" /\ mpc' \in {"twait", "sync", "publish"}
    BY <1>4 DEF LoopEnd, ScanoutWait
  <2>2. op' = op \/ \E r, t : op' = [op EXCEPT !.reg = r, !.target = t]
    BY <1>4 DEF LoopEnd, ScanoutWait
  <2>3. op'.unh = op.unh /\ op'.bad = op.bad /\ op'.pa = op.pa /\ op'.ret = op.ret
    BY <1>0, <2>2 DEF OpRecords
  <2>4. RetInv'
    BY <2>1, <2>3 DEF RetInv, RingInv
  <2>5. QED  BY <1>0, <2>1, <2>3, <2>4, MovesKeep
<1>5. CASE Publish  BY <1>0, <1>5, PublishKeeps
<1>6. CASE KickAfterList
  <2>1. /\ UNCHANGED ringVars /\ mpc = "kick" /\ mpc' \in {"add", "break"} /\ op' = op
        /\ tlen' = tlen /\ tdone' = tdone /\ (tpc' = tpc \/ tpc' = "woken")
    BY <1>6 DEF KickAfterList, Kick
  <2>2. RetInv'
    BY <2>1 DEF RetInv, RingInv
  <2>3. QED  BY <1>0, <2>1, <2>2, MovesKeep
<1>7. CASE AddWithWait  BY <1>0, <1>7, AddWithWaitKeeps
<1>8. CASE AddLock
  <2>1. /\ UNCHANGED ringVars /\ mpc = "addlock" /\ mpc' \in {"addwait", "add"} /\ op' = op
        /\ tlen' = tlen /\ tdone' = tdone /\ (tpc' = tpc \/ tpc' = "woken")
    BY <1>8 DEF AddLock, Kick, WaitForRoom
  <2>2. RetInv'
    BY <2>1 DEF RetInv, RingInv
  <2>3. QED  BY <1>0, <2>1, <2>2, MovesKeep
<1>9. CASE AddWoken
  <2>1. /\ UNCHANGED <<ringVars, threadVars>> /\ mpc = "addwait" /\ mpc' \in {"addwait", "add"} /\ op' = op
    BY <1>9 DEF AddWoken, WaitForRoom
  <2>2. RetInv'
    BY <2>1 DEF RetInv, RingInv
  <2>3. QED  BY <1>0, <2>1, <2>2, MovesKeep
<1>10. CASE Break  BY <1>0, <1>10, BreakKeeps
<1>11. CASE ScreenCall
  <2>1. PICK r \in Screens \ {screen} :
          Tell(Cmd("screen", r, 0, 0), Head0(Cmd("screen", r, 0, 0), {}))
    BY <1>11 DEF ScreenCall
  <2>2. Whole(Head0(Cmd("screen", r, 0, 0), {}))
    <3>1. r \in Regions /\ {} \in Regions
      BY RegionAssumption DEF Regions
    <3>2. Cmd("screen", r, 0, 0) \in Cmds /\ Cmd("screen", r, 0, 0).op = "screen"
      BY <3>1, ConstantTypes DEF Cmd
    <3>3. QED  BY <3>1, <3>2, WholeHead
  <2>3. UNCHANGED ringVars /\ UNCHANGED threadVars /\ mpc = "idle"
    BY <1>11 DEF ScreenCall, AddCall, Call
  <2>4. QED  BY <1>0, <2>1, <2>2, <2>3, TellKeeps
<1>12. CASE InterlaceCall
  <2>1. Tell(Cmd("ilace", {}, 0, 0), Head0(Cmd("ilace", {}, 0, 0), {}))
    BY <1>12 DEF InterlaceCall
  <2>2. Whole(Head0(Cmd("ilace", {}, 0, 0), {}))
    <3>1. {} \in Regions
      BY DEF Regions
    <3>2. Cmd("ilace", {}, 0, 0) \in Cmds /\ Cmd("ilace", {}, 0, 0).op = "ilace"
      BY <3>1, ConstantTypes DEF Cmd
    <3>3. QED  BY <3>1, <3>2, WholeHead
  <2>3. UNCHANGED ringVars /\ UNCHANGED threadVars /\ mpc = "idle"
    BY <1>12 DEF InterlaceCall, AddCall, Call
  <2>4. QED  BY <1>0, <2>1, <2>2, <2>3, TellKeeps
<1>13. CASE EcmdsCall
  <2>1. /\ UNCHANGED <<ringVars, threadVars>> /\ mpc = "idle" /\ mpc' = "ecmds" /\ op' = op
    BY <1>13 DEF EcmdsCall, AddCall, Call
  <2>2. RetInv'
    BY <2>1 DEF RetInv, RingInv
  <2>3. QED  BY <1>0, <2>1, <2>2, MovesKeep
<1>14. CASE SyncEcmds
  <2> DEFINE ws == [i \in 1 .. EcmdsLen |-> Cell(IF i = 1 THEN Env(env_m) ELSE Tex, {}, 0)]
  <2>1. Whole(ws)
    BY <1>0, WholeEcmds DEF TypeOK
  <2>2. Tell(Env(env_m), ws) /\ UNCHANGED ringVars /\ UNCHANGED threadVars /\ mpc = "ecmds"
    BY <1>14 DEF SyncEcmds
  <2> HIDE DEF ws
  <2>3. QED  BY <1>0, <2>1, <2>2, TellKeeps
<1>15. CASE Direct
  <2>1. /\ UNCHANGED <<ringVars, threadVars>> /\ mpc = "direct" /\ mpc' = "idle" /\ op' = NoOp
    BY <1>15 DEF Direct, Done
  <2>2. op.ret # "publish"
    BY <2>1 DEF RetInv, RingInv
  <2>3. QED  BY <1>0, <2>1, <2>2, NoOpHolds, DoneKeeps
<1>16. CASE DmaCall  BY <1>0, <1>16, DmaCallKeeps
<1>17. CASE DmaAdd  BY <1>0, <1>17, DmaAddKeeps
<1>18. CASE DmaPublish  BY <1>0, <1>18, DmaPublishKeeps
<1>19. CASE VramCall \/ StopCall
  <2>1. /\ UNCHANGED <<ringVars, threadVars>> /\ mpc = "idle" /\ mpc' = "sync"
        /\ op' \in {[NoOp EXCEPT !.ret = "vram"], [NoOp EXCEPT !.ret = "stop"]}
    BY <1>19 DEF VramCall, StopCall, Call
  <2>2. op.ret # "publish"
    BY <2>1 DEF RetInv, RingInv
  <2>3. op'.ret # "publish" /\ op'.unh = <<>> /\ ~op'.bad
    BY <2>1 DEF NoOp
  <2>4. Whole(op'.unh)
    BY <2>3 DEF Whole
  <2>5. QED  BY <1>0, <2>1, <2>2, <2>3, <2>4, DoneKeeps
<1>20. CASE Sync
  <2>1. /\ UNCHANGED ringVars /\ mpc = "sync" /\ mpc' \in {"synced", "fullwait"} /\ op' = op
        /\ tlen' = tlen /\ tdone' = tdone /\ (tpc' = tpc \/ tpc' = "woken")
    BY <1>20 DEF Sync, Kick
  <2>2. RetInv'
    BY <2>1 DEF RetInv, RingInv
  <2>3. QED  BY <1>0, <2>1, <2>2, MovesKeep
<1>21. CASE FullWoken
  <2>1. /\ UNCHANGED <<ringVars, threadVars>> /\ mpc = "fullwait" /\ mpc' = "synced" /\ op' = op
    BY <1>21 DEF FullWoken
  <2>2. RetInv'
    BY <2>1 DEF RetInv, RingInv
  <2>3. QED  BY <1>0, <2>1, <2>2, MovesKeep
<1>22. CASE Synced
  <2>1. /\ UNCHANGED <<ringVars, threadVars>> /\ mpc = "synced"
        /\ \/ mpc' = "scan"
           \/ op.ret \in {"vram", "stop"} /\ mpc' = op.ret
        /\ (op' = op \/ op' = [op EXCEPT !.reg = flip])
    BY <1>22 DEF Synced
  <2>2. op'.unh = op.unh /\ op'.bad = op.bad /\ op'.pa = op.pa /\ op'.ret = op.ret
    BY <1>0, <2>1 DEF OpRecords
  <2>3. RetInv'
    BY <2>1, <2>2 DEF RetInv, RingInv
  <2>4. QED  BY <1>0, <2>1, <2>2, <2>3, MovesKeep
<1>23. CASE Vram
  <2>1. /\ UNCHANGED <<ringVars, threadVars>> /\ mpc = "vram" /\ mpc' = "idle" /\ op' = NoOp
    BY <1>23 DEF Vram, Done
  <2>2. op.ret # "publish"
    BY <2>1 DEF RetInv, RingInv
  <2>3. QED  BY <1>0, <2>1, <2>2, NoOpHolds, DoneKeeps
<1>24. CASE ScanoutCall
  <2>1. /\ UNCHANGED <<ringVars, threadVars>> /\ mpc = "idle" /\ mpc' \in {"scan", "twait", "sync", "idle"}
    BY <1>24 DEF ScanoutCall, Call, ScanoutWait
  <2>2. op' = op \/ (\E r : op' = [op EXCEPT !.reg = r])
          \/ \E r, t : op' = [op EXCEPT !.reg = r, !.target = t]
    BY <1>24 DEF ScanoutCall, ScanoutWait
  <2>3. op'.unh = op.unh /\ op'.bad = op.bad /\ op'.pa = op.pa /\ op'.ret = op.ret
    BY <1>0, <2>2 DEF OpRecords
  <2>4. RetInv'
    BY <2>1, <2>3 DEF RetInv, RingInv
  <2>5. QED  BY <1>0, <2>1, <2>3, <2>4, MovesKeep
<1>25. CASE TryDelayedFlip
  <2>1. /\ UNCHANGED <<ringVars, threadVars>> /\ mpc = "idle" /\ mpc' = "scan"
        /\ op' = [op EXCEPT !.reg = flip, !.ret = "flip"]
    BY <1>25 DEF TryDelayedFlip, Call
  <2>2. op'.unh = op.unh /\ op'.bad = op.bad /\ op'.pa = op.pa /\ op'.ret = "flip" /\ op.ret = "idle"
    BY <1>0, <2>1 DEF OpRecords, RetInv, RingInv
  <2>3. RetInv'
    BY <2>1, <2>2 DEF RetInv
  <2>4. QED  BY <1>0, <2>1, <2>2, <2>3, MovesKeep
<1>26. CASE TargetWait
  <2>1. /\ UNCHANGED <<ringVars, threadVars>> /\ mpc = "twait" /\ mpc' \in {"targetwait", "scan"} /\ op' = op
    BY <1>26 DEF TargetWait
  <2>2. RetInv'
    BY <2>1 DEF RetInv, RingInv
  <2>3. QED  BY <1>0, <2>1, <2>2, MovesKeep
<1>27. CASE TargetWoken
  <2>1. /\ UNCHANGED <<ringVars, threadVars>> /\ mpc = "targetwait" /\ mpc' = "scan" /\ op' = op
    BY <1>27 DEF TargetWoken
  <2>2. RetInv'
    BY <2>1 DEF RetInv, RingInv
  <2>3. QED  BY <1>0, <2>1, <2>2, MovesKeep
<1>28. CASE Scan
  <2>1. UNCHANGED <<ringVars, threadVars>> /\ mpc = "scan"
    BY <1>28 DEF Scan
  <2>2. CASE op.ret \in {"idle", "flip"}
    <3>1. mpc' = "idle" /\ op' = NoOp /\ op.ret # "publish"
      BY <1>28, <2>2 DEF Scan, Done
    <3>2. QED  BY <1>0, <2>1, <3>1, NoOpHolds, DoneKeeps
  <2>3. CASE op.ret \notin {"idle", "flip"}
    <3>1. mpc' = op.ret /\ op' = [op EXCEPT !.reg = {}, !.target = 0]
      BY <1>28, <2>3 DEF Scan
    <3>2. mpc' \in {"publish", "vram", "stop"}
      BY <1>0, <2>3, <3>1 DEF OpRecords
    <3>3. op'.unh = op.unh /\ op'.bad = op.bad /\ op'.pa = op.pa /\ op'.ret = op.ret
      BY <1>0, <3>1 DEF OpRecords
    <3>4. RetInv'
      BY <3>1, <3>2, <3>3 DEF RetInv
    <3>5. QED  BY <1>0, <2>1, <3>2, <3>3, <3>4, MovesKeep
  <2>4. QED  BY <2>2, <2>3
<1>29. CASE SetExit \/ SignalExit
  <2>1. /\ UNCHANGED ringVars /\ op' = op /\ tlen' = tlen /\ tdone' = tdone
        /\ mpc \in {"stop", "stopping"} /\ mpc' \in {"stopping", "join"}
        /\ (tpc' = tpc \/ tpc' = "woken")
    BY <1>29 DEF SetExit, SignalExit
  <2>2. RetInv'
    BY <2>1 DEF RetInv, RingInv
  <2>3. QED  BY <1>0, <2>1, <2>2, MovesKeep
<1>30. CASE Join
  <2>1. /\ UNCHANGED <<ringVars, threadVars>> /\ mpc = "join" /\ mpc' = "off" /\ op' = NoOp
    BY <1>30 DEF Join
  <2>2. op.ret # "publish"
    BY <2>1 DEF RetInv, RingInv
  <2>3. QED  BY <1>0, <2>1, <2>2, NoOpHolds, DoneKeeps
<1>31. CASE OffSetEnv
  <2>1. /\ UNCHANGED <<ringVars, threadVars>> /\ mpc = "off" /\ mpc' = "off" /\ op' = op
    BY <1>31 DEF OffSetEnv
  <2>2. RetInv'
    BY <2>1 DEF RetInv, RingInv
  <2>3. QED  BY <1>0, <2>1, <2>2, MovesKeep
<1>32. CASE EnableCall
  <2>1. Emptied'
    BY <1>32 DEF EnableCall, Emptied
  <2>2. QED  BY <2>1, EmptiedAfter
<1>33. CASE Top  BY <1>0, <1>33, TopKeeps
<1>34. CASE ThreadLock \/ Sleep \/ Flush
  <2>1. /\ UNCHANGED <<ringVars, mainVars>> /\ tlen' = tlen /\ tdone' = tdone
        /\ tpc' \in {"top", "sleep"}
    BY <1>34 DEF ThreadLock, Sleep, Flush
  <2>2. QED  BY <1>0, <2>1, ThreadKeeps
<1>35. CASE Unlock
  <2>1. /\ UNCHANGED <<ringVars, mainVars>> /\ tlen' = tlen /\ tdone' = tdone /\ tpc = "decide"
        /\ (tpc' = "flush" \/ (tpc' = "render" /\ tlen # 0))
    BY <1>35 DEF Unlock
  <2>2. CASE tpc' = "flush"
    BY <1>0, <2>1, <2>2, ThreadKeeps
  <2>3. CASE tpc' = "render" /\ tlen # 0
    <3>1. RetInv' /\ WordsInv' /\ UploadInv' /\ Window' = Window /\ Added' = Added
      BY <2>1, MainStays DEF RingInv
    <3>2. tlen' <= Added' /\ EndsAt(Window', pos_used', tlen') /\ tlen' > 0
      <4>1. tlen <= Added /\ EndsAt(Window, pos_used, tlen)
        BY <2>1 DEF RingInv, TakenInv
      <4>2. tlen > 0 /\ pos_used' = pos_used
        BY <1>0, <2>1, <2>3 DEF TypeOK
      <4>3. QED  BY <2>1, <3>1, <4>1, <4>2
    <3>3. TakenInv'
      BY <2>3, <3>2 DEF TakenInv
    <3>4. QED  BY <3>1, <3>3 DEF RingInv
  <2>4. QED  BY <2>1, <2>2, <2>3
<1>36. CASE Render  BY <1>0, <1>36, RenderKeeps
<1>37. CASE Commit  BY <1>0, <1>37, CommitKeeps
<1>38. CASE SpuriousWake \/ UNCHANGED vars
  <2>1. /\ UNCHANGED <<ringVars, mainVars>> /\ tlen' = tlen /\ tdone' = tdone
        /\ (tpc' = tpc \/ tpc' = "woken")
    BY <1>38 DEF SpuriousWake, vars
  <2>2. CASE tpc' = "woken"
    BY <1>0, <2>1, <2>2, ThreadKeeps
  <2>3. CASE tpc' = tpc
    <3>1. RetInv' /\ WordsInv' /\ UploadInv' /\ Window' = Window /\ Added' = Added
      BY <2>1, MainStays DEF RingInv
    <3>2. TakenInv'
      BY <2>1, <2>3, <3>1 DEF RingInv, TakenInv
    <3>3. QED  BY <3>1, <3>2 DEF RingInv
  <2>4. QED  BY <2>1, <2>2, <2>3
<1>39. QED
  BY <1>1, <1>2, <1>3, <1>4, <1>5, <1>6, <1>7, <1>8, <1>9, <1>10, <1>11, <1>12, <1>13, <1>14,
     <1>15, <1>16, <1>17, <1>18, <1>19, <1>20, <1>21, <1>22, <1>23, <1>24, <1>25, <1>26, <1>27,
     <1>28, <1>29, <1>30, <1>31, <1>32, <1>33, <1>34, <1>35, <1>36, <1>37, <1>38
  DEF Next, MainCall, MainStep, Thread

(* The invariant of the ring, in every behaviour.                          *)
LEMMA RingInvHolds == Spec /\ WideUploads => [](TypeInv /\ RingInv)
<1> DEFINE Inv == WideUploads /\ TypeInv /\ RingInv
<1>1. Init /\ WideUploads => Inv
  <2> SUFFICES ASSUME Init, WideUploads  PROVE Inv
    OBVIOUS
  <2>1. Emptied
    BY DEF Init, Emptied
  <2>2. QED  BY <2>1, TypeInit, EmptiedIsSafe
<1>2. Inv /\ [Next]_vars => Inv'
  <2> SUFFICES ASSUME Inv, [Next]_vars  PROVE Inv'
    OBVIOUS
  <2>1. TypeInv'
    BY TypeNext
  <2>2. RingInv'
    BY <2>1, RingNext
  <2>3. WideUploads'
    BY DEF WideUploads
  <2>4. QED  BY <2>1, <2>2, <2>3
<1>3. Inv => TypeInv /\ RingInv
  OBVIOUS
<1> HIDE DEF Inv
<1>4. QED  BY <1>1, <1>2, <1>3, PTL DEF Spec

(* cmd_buffer is never overrun, and the thread never takes a part of a     *)
(* command (do_add_pos, gpu_async_thread): the two threads may touch it    *)
(* without the lock.                                                       *)
THEOREM RingIsSafe == Spec /\ WideUploads => []RingSafe
<1>1. TypeInv /\ RingInv => RingSafe
  BY RingInvIsSafe DEF TypeInv
<1>2. QED  BY <1>1, RingInvHolds, PTL

(* An upload that gpu_async_try_dma found room for is added whole.         *)
THEOREM UploadsFit == Spec /\ WideUploads => []DmaFits
<1>1. TypeInv /\ RingInv => DmaFits
  BY RingInvIsSafe DEF TypeInv
<1>2. QED  BY <1>1, RingInvHolds, PTL

-----------------------------------------------------------------------------
(* Each drawing in its area: where the words of the ring leave the drawing *)
(* area, and that each drawing among them finds the one it was issued in.  *)

(* A set of numbers that is bounded has a greatest one.                    *)
LEMMA LastOne ==
  ASSUME NEW n \in Nat, NEW T \in SUBSET (0 .. n), T # {}
  PROVE  \E x \in T : \A y \in T : y <= x
<1> DEFINE R == {ss \in Nat \X Nat : ss[1] < ss[2]}
           U == {n - x : x \in T}
<1>1. IsWellFoundedOn(R, Nat)
  BY NatLessThanWellFounded DEF OpToRel
<1>2. U \subseteq Nat /\ U # {}
  <2>1. \A x \in T : n - x \in Nat
    OBVIOUS
  <2>2. QED  BY <2>1, Zenon
<1>3. \A y, x \in Nat : y < x => <<y, x>> \in R
  OBVIOUS
<1>4. \A x \in T : n - x \in U
  OBVIOUS
<1>5. \A u \in U : \E x \in T : u = n - x
  OBVIOUS
<1> HIDE DEF R, U
<1>6. PICK u \in U : \A y \in U : ~(<<y, u>> \in R)
  BY <1>1, <1>2, WFMin, Zenon
<1>7. PICK x \in T : u = n - x
  BY <1>5
<1>8. ASSUME NEW y \in T  PROVE y <= x
  <2>1. ~(n - y < u) /\ n - y \in Nat /\ u \in Nat
    BY <1>2, <1>3, <1>4, <1>6
  <2>2. QED  BY <1>7, <2>1
<1>9. QED  BY <1>8

(* Words that are no environment commands leave the area as it is.         *)
LEMMA LeavesSame ==
  ASSUME NEW w, NEW a \in Int, NEW b \in Int, \A d \in a .. b - 1 : ~IsEnv(w[d]), NEW e, NEW r
  PROVE  Leaves(w, a, b, e, r) <=> e = r
BY DEF Leaves

(* The same words elsewhere leave the same area.                           *)
LEMMA LeavesShift ==
  ASSUME NEW w, NEW v, NEW a \in Int, NEW b \in Int, NEW s \in Int,
         \A d \in a .. b - 1 : v[d + s] = w[d], NEW e, NEW r, Leaves(w, a, b, e, r)
  PROVE  Leaves(v, a + s, b + s, e, r)
<1>1. \A d \in a + s .. (b + s) - 1 : d - s \in a .. b - 1 /\ v[d] = w[d - s]
  <2> SUFFICES ASSUME NEW d \in a + s .. (b + s) - 1
               PROVE  d - s \in a .. b - 1 /\ v[d] = w[d - s]
    OBVIOUS
  <2>1. d - s \in a .. b - 1 /\ (d - s) + s = d
    OBVIOUS
  <2>2. v[(d - s) + s] = w[d - s]
    BY <2>1
  <2>3. QED  BY <2>1, <2>2
<1>2. CASE e = r /\ \A d \in a .. b - 1 : ~IsEnv(w[d])
  <2>1. \A d \in a + s .. (b + s) - 1 : ~IsEnv(v[d])
    BY <1>1, <1>2
  <2>2. QED  BY <1>2, <2>1 DEF Leaves
<1>3. CASE \E d \in a .. b - 1 : IsEnv(w[d]) /\ w[d].c.r = r /\ \A j \in d + 1 .. b - 1 : ~IsEnv(w[j])
  <2>1. PICK d \in a .. b - 1 : IsEnv(w[d]) /\ w[d].c.r = r /\ \A j \in d + 1 .. b - 1 : ~IsEnv(w[j])
    BY <1>3
  <2>2. d + s \in a + s .. (b + s) - 1 /\ v[d + s] = w[d]
    BY SMTT(40)
  <2>3. \A j \in (d + s) + 1 .. (b + s) - 1 : ~IsEnv(v[j])
    <3> SUFFICES ASSUME NEW j \in (d + s) + 1 .. (b + s) - 1  PROVE ~IsEnv(v[j])
      OBVIOUS
    <3>1. j \in a + s .. (b + s) - 1 /\ j - s \in d + 1 .. b - 1
      <4>1. j \in Int /\ d \in Int /\ a <= d /\ (d + s) + 1 <= j /\ j <= (b + s) - 1
        OBVIOUS
      <4>2. QED  BY <4>1
    <3>2. v[j] = w[j - s]
      BY <1>1, <3>1
    <3>3. QED  BY <2>1, <3>1, <3>2
  <2>4. IsEnv(v[d + s]) /\ v[d + s].c.r = r
    BY <2>1, <2>2
  <2>5. QED  BY <2>2, <2>3, <2>4, Zenon DEF Leaves
<1>4. QED  BY <1>2, <1>3 DEF Leaves

(* One sequence of words after another.                                    *)
LEMMA LeavesJoin ==
  ASSUME NEW w, NEW a \in Int, NEW b \in Int, NEW c \in Int, a <= b, b <= c, NEW e, NEW m, NEW r,
         Leaves(w, a, b, e, m), Leaves(w, b, c, m, r)
  PROVE  Leaves(w, a, c, e, r)
<1>1. CASE m = r /\ \A d \in b .. c - 1 : ~IsEnv(w[d])
  <2>1. CASE e = m /\ \A d \in a .. b - 1 : ~IsEnv(w[d])
    <3>1. \A d \in a .. c - 1 : d \in a .. b - 1 \/ d \in b .. c - 1
      OBVIOUS
    <3>2. QED  BY <1>1, <2>1, <3>1 DEF Leaves
  <2>2. CASE ~(e = m /\ \A d \in a .. b - 1 : ~IsEnv(w[d]))
    <3>1. PICK d \in a .. b - 1 : IsEnv(w[d]) /\ w[d].c.r = m /\ \A j \in d + 1 .. b - 1 : ~IsEnv(w[j])
      BY <2>2 DEF Leaves
    <3>2. d \in a .. c - 1 /\ \A j \in d + 1 .. c - 1 : j \in d + 1 .. b - 1 \/ j \in b .. c - 1
      OBVIOUS
    <3>3. \A j \in d + 1 .. c - 1 : ~IsEnv(w[j])
      BY <1>1, <3>1, <3>2
    <3>4. QED  BY <1>1, <3>1, <3>2, <3>3 DEF Leaves
  <2>3. QED  BY <2>1, <2>2
<1>2. CASE \E d \in b .. c - 1 : IsEnv(w[d]) /\ w[d].c.r = r /\ \A j \in d + 1 .. c - 1 : ~IsEnv(w[j])
  <2>1. \A d \in b .. c - 1 : d \in a .. c - 1
    OBVIOUS
  <2>2. QED  BY <1>2, <2>1 DEF Leaves
<1>3. QED  BY <1>1, <1>2 DEF Leaves

(* And without the first of them.                                          *)
LEMMA LeavesSplit ==
  ASSUME NEW w, NEW a \in Int, NEW b \in Int, NEW c \in Int, a <= b, b <= c, NEW e, NEW m, NEW r,
         Leaves(w, a, b, e, m), Leaves(w, a, c, e, r)
  PROVE  Leaves(w, b, c, m, r)
<1>1. CASE e = r /\ \A d \in a .. c - 1 : ~IsEnv(w[d])
  <2>1. \A d \in a .. b - 1 : d \in a .. c - 1
    OBVIOUS
  <2>2. \A d \in b .. c - 1 : d \in a .. c - 1
    OBVIOUS
  <2>3. e = m
    BY <1>1, <2>1 DEF Leaves
  <2>4. QED  BY <1>1, <2>2, <2>3 DEF Leaves
<1>2. CASE \E d \in a .. c - 1 : IsEnv(w[d]) /\ w[d].c.r = r /\ \A j \in d + 1 .. c - 1 : ~IsEnv(w[j])
  <2>1. PICK d \in a .. c - 1 : IsEnv(w[d]) /\ w[d].c.r = r /\ \A j \in d + 1 .. c - 1 : ~IsEnv(w[j])
    BY <1>2
  <2>2. CASE d >= b
    <3>1. d \in b .. c - 1
      BY <2>2
    <3>2. QED  BY <2>1, <3>1 DEF Leaves
  <2>3. CASE d < b
    <3>1. d \in a .. b - 1
      BY <2>3
    <3>2. PICK x \in a .. b - 1 : IsEnv(w[x]) /\ w[x].c.r = m /\ \A j \in x + 1 .. b - 1 : ~IsEnv(w[j])
      BY <2>1, <3>1 DEF Leaves
    <3>3. ~(d \in x + 1 .. b - 1) /\ ~(x \in d + 1 .. c - 1)
      BY <2>1, <3>2
    <3>4. x = d
      BY <3>1, <3>3
    <3>5. \A j \in b .. c - 1 : ~IsEnv(w[j])
      <4>1. \A j \in b .. c - 1 : j \in d + 1 .. c - 1
        BY <2>3
      <4>2. QED  BY <2>1, <4>1
    <3>6. m = r
      BY <2>1, <3>2, <3>4
    <3>7. QED  BY <3>5, <3>6 DEF Leaves
  <2>4. QED  BY <2>2, <2>3
<1>3. QED  BY <1>1, <1>2 DEF Leaves

(* Coherent words, elsewhere, one after another, and without the first.    *)
LEMMA CoherentShift ==
  ASSUME NEW w, NEW v, NEW a \in Int, NEW b \in Int, NEW s \in Int,
         \A d \in a .. b - 1 : v[d + s] = w[d], NEW e, NEW r, Coherent(w, a, b, e, r)
  PROVE  Coherent(v, a + s, b + s, e, r)
<1>1. Leaves(v, a + s, b + s, e, r)
  <2>1. Leaves(w, a, b, e, r)
    BY DEF Coherent
  <2>2. QED  BY <2>1, LeavesShift
<1>2. ASSUME NEW d \in a + s .. (b + s) - 1, IsDraw(v[d])
      PROVE  Leaves(v, a + s, d, e, v[d].env)
  <2> DEFINE x == d - s
  <2>1. x \in a .. b - 1 /\ x + s = d /\ x \in Int
    OBVIOUS
  <2> HIDE DEF x
  <2>2. v[d] = w[x]
    BY <2>1
  <2>3. Leaves(w, a, x, e, w[x].env)
    BY <1>2, <2>1, <2>2 DEF Coherent
  <2>4. \A y \in a .. x - 1 : v[y + s] = w[y]
    BY <2>1
  <2>5. Leaves(v, a + s, x + s, e, w[x].env)
    BY <2>1, <2>3, <2>4, LeavesShift
  <2>6. QED  BY <2>1, <2>2, <2>5
<1>3. QED  BY <1>1, <1>2 DEF Coherent

(* One after another.                                                      *)
LEMMA CoherentJoin ==
  ASSUME NEW w, NEW a \in Int, NEW b \in Int, NEW c \in Int, a <= b, b <= c, NEW e, NEW m, NEW r,
         Coherent(w, a, b, e, m), Coherent(w, b, c, m, r)
  PROVE  Coherent(w, a, c, e, r)
<1>1. Leaves(w, a, b, e, m) /\ Leaves(w, b, c, m, r)
  BY DEF Coherent
<1>2. Leaves(w, a, c, e, r)
  BY <1>1, LeavesJoin
<1>3. ASSUME NEW d \in a .. c - 1, IsDraw(w[d])
      PROVE  Leaves(w, a, d, e, w[d].env)
  <2>1. CASE d < b
    <3>1. d \in a .. b - 1
      BY <2>1
    <3>2. QED  BY <1>3, <3>1 DEF Coherent
  <2>2. CASE ~(d < b)
    <3>1. d \in b .. c - 1 /\ b <= d /\ d \in Int
      BY <2>2
    <3>2. Leaves(w, b, d, m, w[d].env)
      BY <1>3, <3>1 DEF Coherent
    <3>3. QED  BY <1>1, <3>1, <3>2, LeavesJoin
  <2>3. QED  BY <2>1, <2>2
<1>4. QED  BY <1>2, <1>3 DEF Coherent

(* Without the first.                                                      *)
LEMMA CoherentSplit ==
  ASSUME NEW w, NEW a \in Int, NEW b \in Int, NEW c \in Int, a <= b, b <= c, NEW e, NEW m, NEW r,
         Leaves(w, a, b, e, m), Coherent(w, a, c, e, r)
  PROVE  Coherent(w, b, c, m, r)
<1>1. Leaves(w, b, c, m, r)
  <2>1. Leaves(w, a, c, e, r)
    BY DEF Coherent
  <2>2. QED  BY <2>1, LeavesSplit
<1>2. ASSUME NEW d \in b .. c - 1, IsDraw(w[d])
      PROVE  Leaves(w, b, d, m, w[d].env)
  <2>1. d \in a .. c - 1 /\ b <= d /\ d \in Int
    OBVIOUS
  <2>2. Leaves(w, a, d, e, w[d].env)
    BY <1>2, <2>1 DEF Coherent
  <2>3. QED  BY <2>1, <2>2, LeavesSplit
<1>3. QED  BY <1>1, <1>2 DEF Coherent

(* Words that neither set the area nor draw are coherent.                  *)
LEMMA CoherentPlain ==
  ASSUME NEW w, NEW a \in Int, NEW b \in Int, NEW e,
         \A d \in a .. b - 1 : ~IsEnv(w[d]) /\ ~IsDraw(w[d])
  PROVE  Coherent(w, a, b, e, e)
BY DEF Coherent, Leaves

(* EnvAfter is the area that a sequence of words leaves.                   *)
LEMMA EnvAfterIs ==
  ASSUME NEW ws, NEW n \in Nat, DOMAIN ws = 1 .. n, NEW e, NEW r, Leaves(ws, 1, n + 1, e, r)
  PROVE  EnvAfter(e, ws) = r
<1> DEFINE envs == {i \in DOMAIN ws : ws[i].c.op = "env"}
           last == {i \in envs : \A j \in envs : j <= i}
<1>0. \A i \in 1 .. (n + 1) - 1 : i \in DOMAIN ws
  OBVIOUS
<1>1. CASE e = r /\ \A d \in 1 .. (n + 1) - 1 : ~IsEnv(ws[d])
  <2>1. envs = {}
    BY <1>1 DEF IsEnv
  <2>2. QED  BY <1>1, <2>1 DEF EnvAfter
<1>2. CASE \E d \in 1 .. (n + 1) - 1 : IsEnv(ws[d]) /\ ws[d].c.r = r /\ \A j \in d + 1 .. (n + 1) - 1 : ~IsEnv(ws[j])
  <2>1. PICK d \in 1 .. n : IsEnv(ws[d]) /\ ws[d].c.r = r /\ \A j \in d + 1 .. n : ~IsEnv(ws[j])
    <3>1. (n + 1) - 1 = n
      OBVIOUS
    <3>2. QED  BY <1>2, <3>1
  <2>2. d \in envs
    BY <2>1 DEF IsEnv
  <2>3. ASSUME NEW j \in envs  PROVE j <= d
    <3>1. j \in 1 .. n /\ IsEnv(ws[j])
      BY DEF IsEnv
    <3>2. ~(j \in d + 1 .. n)
      BY <2>1, <3>1
    <3>3. QED  BY <3>1, <3>2
  <2>4. \A j \in last : j = d
    <3> SUFFICES ASSUME NEW j \in last  PROVE j = d
      OBVIOUS
    <3>1. j <= d /\ d <= j /\ j \in 1 .. n
      BY <2>2, <2>3
    <3>2. QED  BY <3>1
  <2>5. d \in last
    BY <2>2, <2>3
  <2>6. last = {d}
    BY <2>4, <2>5
  <2>7. EnvAfter(e, ws) = UNION {ws[i].c.r : i \in last}
    BY <2>2 DEF EnvAfter
  <2> HIDE DEF last
  <2>8. {ws[i].c.r : i \in last} = {r}
    BY <2>1, <2>6
  <2>9. QED  BY <2>7, <2>8
<1>3. QED  BY <1>1, <1>2 DEF Leaves

(* Any sequence of words leaves some area: EnvAfter.                       *)
LEMMA EnvAfterLeaves ==
  ASSUME NEW ws, NEW n \in Nat, DOMAIN ws = 1 .. n, NEW e
  PROVE  Leaves(ws, 1, n + 1, e, EnvAfter(e, ws))
<1> DEFINE envs == {i \in 1 .. n : IsEnv(ws[i])}
<1>1. (n + 1) - 1 = n
  OBVIOUS
<1>2. CASE envs = {}
  <2>1. Leaves(ws, 1, n + 1, e, e)
    BY <1>1, <1>2 DEF Leaves
  <2>2. QED  BY <2>1, EnvAfterIs
<1>3. CASE envs # {}
  <2>1. envs \in SUBSET (0 .. n)
    OBVIOUS
  <2>2. PICK d \in envs : \A j \in envs : j <= d
    BY <1>3, <2>1, LastOne
  <2>3. \A j \in d + 1 .. n : ~IsEnv(ws[j])
    <3> SUFFICES ASSUME NEW j \in d + 1 .. n, IsEnv(ws[j])  PROVE FALSE
      OBVIOUS
    <3>1. j \in envs
      OBVIOUS
    <3>2. j <= d
      BY <2>2, <3>1
    <3>3. QED  BY <3>2
  <2>4. d \in 1 .. n /\ IsEnv(ws[d])
    OBVIOUS
  <2>5. Leaves(ws, 1, n + 1, e, ws[d].c.r)
    BY <1>1, <2>3, <2>4 DEF Leaves
  <2>6. QED  BY <2>5, EnvAfterIs
<1>4. QED  BY <1>2, <1>3

(* Environment and drawing commands are whole in the ring: such a word     *)
(* begins its command.                                                     *)
LEMMA AreaBegins ==
  ASSUME TypeOK, RingInv, NEW d \in 0 .. Written - 1, IsEnv(Window[d]) \/ IsDraw(Window[d])
  PROVE  Begins(Window, d) /\ Ordinary(Window[d].c)
<1> DEFINE w == Window
           u == pos_used
           n == Written
<1>1. /\ w \in [Index -> Cells] /\ u \in Nat /\ n \in 0 .. BufLen /\ BufLen \in Nat
      /\ Formed(w, u, n, Open, WordsIn)
  BY RingTypes DEF RingInv, WordsInv
<1>2. d \in Index /\ w[d] \in Cells
  <2> HIDE DEF n, w
  <2>1. d \in 0 .. n - 1
    BY DEF n
  <2>2. d \in Index
    BY <1>1, <2>1 DEF Index
  <2>3. QED  BY <1>1, <2>2
<1>3. w[d].c \in Cmds /\ w[d].k \in Nat
  BY <1>2, CmdFields
<1>4. w[d] # Pad
  BY DEF IsEnv, IsDraw, Pad, Cell, Cmd
<1>5. PICK h \in 0 .. d : /\ Begins(w, h) /\ w[h] = Word(w[d], 0)
                          /\ (w[d].k = 0 \/ w[d].k <= LastIn(w, h, Open, WordsIn))
  <2> HIDE DEF w, u
  <2>1. d \in 0 .. n - 1
    OBVIOUS
  <2> HIDE DEF n
  <2>2. QED  BY <1>1, <1>4, <2>1, WordOf, Zenon
<1>6. w[d].k = 0
  <2>1. CASE IsDraw(w[d])
    BY <2>1 DEF IsDraw
  <2>2. CASE IsEnv(w[d])
    <3>1. w[h].c = w[d].c
      BY <1>2, <1>5, WordIs
    <3>2. w[h].c.op = "env"
      BY <2>2, <3>1 DEF IsEnv
    <3>3. h \in 0 .. Written - 1
      BY <1>1
    <3>4. LastIn(w, h, Open, WordsIn) = LastWord(w[h].c)
      BY <1>5, <3>2, <3>3, LastFacts
    <3>5. LastWord(w[h].c) = 0
      BY <3>2 DEF LastWord, Len0
    <3>6. QED  BY <1>3, <1>5, <3>4, <3>5
  <2>3. QED  BY <2>1, <2>2
<1>7. QED  BY <1>4, <1>6 DEF Begins, Ordinary, IsEnv, IsDraw

(* What the gpu thread has carried out is published.                       *)
LEMMA ExecutedIs ==
  ASSUME TypeOK, RingInv
  PROVE  /\ Executed \in 0 .. Written /\ Executed \in 0 .. Added /\ Executed \in Int
         /\ Written \in 0 .. BufLen /\ Written \in Nat /\ Written \in Int
         /\ Added \in 0 .. Written /\ Added \in Nat
<1>1. Written \in Nat /\ Added \in Nat /\ Added <= Written /\ Written <= BufLen /\ BufLen \in Nat
  BY RingTypes DEF RingInv, WordsInv
<1>2. tpc = "done" => tdone \in 1 .. Added
  BY DEF RingInv, TakenInv
<1>3. Executed \in 0 .. Added
  BY <1>1, <1>2 DEF Executed
<1>4. QED  BY <1>1, <1>3

(* No words leave the area as it is.                                       *)
LEMMA CoherentNone ==
  /\ \A m, r : Coherent(<<>>, 1, Len(<<>>) + 1, m, r) <=> m = r
  /\ \A w, m, r, a : a \in Int => (Coherent(w, a, a, m, r) <=> m = r)
BY DEF Coherent, Leaves

(* Words put behind coherent ones, which they continue.                    *)
LEMMA GrownAreas ==
  ASSUME NEW w \in [Index -> Cells], NEW n \in Nat, NEW p \in Nat, NEW ws \in Seq(Cells),
         n + p + Len(ws) <= BufLen, NEW a \in 0 .. n, NEW e, NEW m, NEW r,
         Coherent(w, a, n, e, m), Coherent(ws, 1, Len(ws) + 1, m, r)
  PROVE  Coherent(Grown(w, n, p, ws), a, n + p + Len(ws), e, r)
<1> DEFINE g == Grown(w, n, p, ws)
           l == Len(ws)
<1>1. Follows(g, w, n, p, ws)
  BY GrownParts, Zenon
<1>2. l \in Nat /\ n \in Int /\ p \in Int /\ a \in Int /\ a <= n
  OBVIOUS
<1>3. Coherent(w, a, n, e, m) /\ Coherent(ws, 1, l + 1, m, r)
  OBVIOUS
<1> HIDE DEF g
<1>4. /\ \A d \in 0 .. n - 1 : g[d] = w[d]
      /\ \A d \in n .. (n + p) - 1 : g[d] = Pad
      /\ \A i \in 1 .. l : g[(n + p + i) - 1] = ws[i]
  <2>1. \A i \in 1 .. l : g[n + p + i - 1] = ws[i]
    BY <1>1 DEF Follows
  <2>2. \A i \in 1 .. l : n + p + i - 1 = (n + p + i) - 1
    BY <1>2
  <2>3. \A d \in n .. n + p - 1 : g[d] = Pad
    BY <1>1 DEF Follows
  <2>4. n + p - 1 = (n + p) - 1
    BY <1>2
  <2>5. \A d \in 0 .. n - 1 : g[d] = w[d]
    BY <1>1 DEF Follows
  <2> HIDE DEF l
  <2>6. QED  BY <1>2, <2>1, <2>2, <2>3, <2>4, <2>5
<1> HIDE DEF l
<1>5. Coherent(g, a, n, e, m)
  <2>1. \A d \in a .. n - 1 : g[d + 0] = w[d]
    <3>1. \A d \in a .. n - 1 : d + 0 = d /\ d \in 0 .. n - 1
      BY <1>2
    <3>2. QED  BY <1>4, <3>1
  <2>2. a + 0 = a /\ n + 0 = n /\ 0 \in Int
    BY <1>2
  <2>3. Coherent(g, a + 0, n + 0, e, m)
    BY <1>2, <1>3, <2>1, <2>2, CoherentShift, Zenon
  <2>4. QED  BY <2>2, <2>3
<1>6. Coherent(g, n, n + p, m, m)
  <2>1. \A d \in n .. (n + p) - 1 : ~IsEnv(g[d]) /\ ~IsDraw(g[d])
    BY <1>4 DEF IsEnv, IsDraw, Pad, Cell, Cmd
  <2>2. n + p \in Int
    BY <1>2
  <2>3. QED  BY <1>2, <2>1, <2>2, CoherentPlain
<1>7. Coherent(g, n + p, n + p + l, m, r)
  <2> DEFINE s == (n + p) - 1
  <2>1. s \in Int /\ 1 + s = n + p /\ (l + 1) + s = n + p + l /\ 1 \in Int /\ l + 1 \in Int
    BY <1>2
  <2>2. \A d \in 1 .. (l + 1) - 1 : d \in 1 .. l /\ d + s = (n + p + d) - 1
    BY <1>2
  <2> HIDE DEF s
  <2>3. \A d \in 1 .. (l + 1) - 1 : g[d + s] = ws[d]
    BY <1>4, <2>2
  <2>4. Coherent(g, 1 + s, (l + 1) + s, m, r)
    BY <1>3, <2>1, <2>3, CoherentShift, Zenon
  <2>5. QED  BY <2>1, <2>4
<1>8. Coherent(g, a, n + p, e, m)
  <2>1. n <= n + p /\ n + p \in Int
    BY <1>2
  <2>2. QED  BY <1>2, <1>5, <1>6, <2>1, CoherentJoin, Zenon
<1>9. Coherent(g, a, n + p + l, e, r)
  <2>1. n + p \in Int /\ n + p + l \in Int /\ a <= n + p /\ n + p <= n + p + l
    BY <1>2
  <2>2. QED  BY <1>2, <1>7, <1>8, <2>1, CoherentJoin, Zenon
<1>10. QED  BY <1>9 DEF g, l

(* do_add_pos: the words that fit continue those in the ring, and words    *)
(* that do not leave them as they are.                                     *)
LEMMA FilledAreas ==
  ASSUME TypeOK, RingInv, NEW ws \in Seq(Cells), cells' = Filled(WritePos, ws), pos_used' = pos_used,
         WritePos' = AddedPos(WritePos, Len(ws)), Executed' = Executed, NEW e, NEW m, NEW r,
         Coherent(Window, Executed, Written, e, m), Coherent(ws, 1, Len(ws) + 1, m, r)
  PROVE  /\ Fits(WritePos, Len(ws)) => Coherent(Window', Executed', Written', e, r)
         /\ ~Fits(WritePos, Len(ws)) => Coherent(Window', Executed', Written', e, m)
<1> DEFINE n == Diff(WritePos, pos_used)
           fits == Fits(WritePos, Len(ws))
           new == IF fits THEN ws ELSE <<>>
<1>1. /\ pos_used \in Positions /\ WritePos \in Positions /\ cells \in [Index -> Cells]
      /\ Window \in [Index -> Cells] /\ BufLen \in Nat /\ n = Written /\ n \in Nat /\ n <= BufLen
  BY RingTypes DEF Written, RingInv, WordsInv
<1>2. PICK p \in 0 .. BufLen :
               /\ n + p + Len(new) <= BufLen
               /\ Diff(AddedPos(WritePos, Len(ws)), pos_used) = n + p + Len(new)
               /\ Window' = Grown(Window, n, p, new)
  BY <1>1, FilledWindow
<1>3. Written' = n + p + Len(new)
  BY <1>2 DEF Written
<1>4. new \in Seq(Cells) /\ p \in Nat
  BY <1>1
<1>5. Executed \in 0 .. n /\ Coherent(Window, Executed, n, e, m)
  BY <1>1, ExecutedIs
<1> HIDE DEF n, new, fits
<1>6. ASSUME NEW q, Coherent(new, 1, Len(new) + 1, m, q)
      PROVE  Coherent(Window', Executed', Written', e, q)
  <2>1. Coherent(Grown(Window, n, p, new), Executed, n + p + Len(new), e, q)
    BY <1>1, <1>2, <1>4, <1>5, <1>6, GrownAreas, Zenon
  <2>2. QED  BY <1>2, <1>3, <2>1
<1>7. CASE fits
  <2>1. new = ws
    BY <1>7 DEF new
  <2>2. QED  BY <1>6, <1>7, <2>1 DEF fits
<1>8. CASE ~fits
  <2>1. new = <<>>
    BY <1>8 DEF new
  <2>2. Coherent(new, 1, Len(new) + 1, m, m)
    BY <2>1, CoherentNone
  <2>3. QED  BY <1>6, <1>8, <2>2 DEF fits
<1>9. QED  BY <1>7, <1>8

(* The words a command begins with, after the area they were issued in.    *)
LEMMA HeadAreas ==
  ASSUME NEW c \in Cmds, NEW g \in Regions, NEW e, c.op = "draw" => g = e
  PROVE  Coherent(Head0(c, g), 1, Len(Head0(c, g)) + 1, e, IF c.op = "env" THEN c.r ELSE e)
<1> DEFINE ws == Head0(c, g)
           n == Len0(c)
<1>1. n \in 1 .. 4 /\ Len(ws) = n
  BY LastWordIs, HeadType
<1>2. ws = [i \in 1 .. n |-> Cell(c, g, 0 + i - 1)]
  BY DEF Head0, Words
<1>3. \A i \in 1 .. n : ws[i].c = c /\ ws[i].env = g /\ ws[i].k = i - 1
  <2>1. \A i \in 1 .. n : 0 + i - 1 = i - 1
    BY <1>1
  <2> HIDE DEF n
  <2>2. QED  BY <1>2, <2>1 DEF Cell
<1>4. (n + 1) - 1 = n
  BY <1>1
<1>5. CASE c.op \notin {"env", "draw"}
  <2>1. \A i \in 1 .. (n + 1) - 1 : ~IsEnv(ws[i]) /\ ~IsDraw(ws[i])
    BY <1>3, <1>4, <1>5 DEF IsEnv, IsDraw
  <2> HIDE DEF n, ws
  <2>2. Coherent(ws, 1, n + 1, e, e)
    BY <1>1, <2>1, CoherentPlain
  <2>3. QED  BY <1>1, <1>5, <2>2 DEF ws
<1>6. CASE c.op = "env"
  <2>1. n = 1
    BY <1>6 DEF Len0
  <2> HIDE DEF n, ws
  <2>2. IsEnv(ws[1]) /\ ws[1].c.r = c.r /\ ~IsDraw(ws[1])
    BY <1>3, <1>6, <2>1 DEF IsEnv, IsDraw
  <2>3. Coherent(ws, 1, n + 1, e, c.r)
    BY <2>1, <2>2 DEF Coherent, Leaves
  <2>4. QED  BY <1>1, <1>6, <2>3 DEF ws
<1>7. CASE c.op = "draw"
  <2>1. n = 2 /\ g = e
    BY <1>7 DEF Len0
  <2> HIDE DEF n, ws
  <2>2. \A i \in 1 .. 2 : ~IsEnv(ws[i]) /\ (IsDraw(ws[i]) => i = 1 /\ ws[i].env = e)
    BY <1>3, <1>7, <2>1 DEF IsEnv, IsDraw
  <2>3. Coherent(ws, 1, n + 1, e, e)
    <3>1. \A d \in 1 .. (n + 1) - 1 : d \in 1 .. 2
      BY <2>1
    <3>2. Leaves(ws, 1, n + 1, e, e)
      BY <2>2, <3>1 DEF Leaves
    <3>3. Leaves(ws, 1, 1, e, e)
      BY DEF Leaves
    <3>4. QED  BY <2>2, <3>1, <3>2, <3>3 DEF Coherent
  <2>4. QED  BY <1>1, <1>7, <2>3 DEF ws
<1>8. QED  BY <1>5, <1>6, <1>7

(* gpu_async_sync_ecmds sets the area the program has set.                 *)
LEMMA EcmdsAreas ==
  ASSUME NEW e, NEW r \in Regions
  PROVE  LET ws == [i \in 1 .. EcmdsLen |-> Cell(IF i = 1 THEN Env(r) ELSE Tex, {}, 0)]
         IN  Coherent(ws, 1, Len(ws) + 1, e, r)
<1> DEFINE ws == [i \in 1 .. EcmdsLen |-> Cell(IF i = 1 THEN Env(r) ELSE Tex, {}, 0)]
<1>1. EcmdsLen \in Nat /\ EcmdsLen >= 1
  BY EcmdsLenAssumption, BufLenAssumption
<1>2. Len(ws) = EcmdsLen
  BY <1>1
<1>3. ws[1].c = Env(r) /\ \A i \in 2 .. EcmdsLen : ws[i].c = Tex
  BY <1>1 DEF Cell
<1>4. \A i \in 1 .. EcmdsLen : i = 1 \/ i \in 2 .. EcmdsLen
  OBVIOUS
<1> HIDE DEF ws
<1>5. IsEnv(ws[1]) /\ ws[1].c.r = r
  BY <1>3 DEF IsEnv, Env, Cmd
<1>6. \A i \in 2 .. EcmdsLen : ~IsEnv(ws[i]) /\ ~IsDraw(ws[i])
  BY <1>3 DEF IsEnv, IsDraw, Tex, Cmd
<1>7. ~IsDraw(ws[1])
  BY <1>5 DEF IsEnv, IsDraw
<1>8. (EcmdsLen + 1) - 1 = EcmdsLen /\ 1 \in 1 .. EcmdsLen /\ 1 + 1 = 2
  BY <1>1
<1>9. Leaves(ws, 1, EcmdsLen + 1, e, r)
  BY <1>5, <1>6, <1>8, Zenon DEF Leaves
<1>10. \A d \in 1 .. (EcmdsLen + 1) - 1 : ~IsDraw(ws[d])
  BY <1>4, <1>6, <1>7, <1>8
<1>11. Coherent(ws, 1, EcmdsLen + 1, e, r)
  BY <1>9, <1>10 DEF Coherent
<1>12. QED  BY <1>2, <1>11 DEF ws

(* Two sequences of words, one after the other.                            *)
LEMMA ConcatAreas ==
  ASSUME NEW a \in Seq(Cells), NEW b \in Seq(Cells), NEW e, NEW m, NEW r,
         Coherent(a, 1, Len(a) + 1, e, m), Coherent(b, 1, Len(b) + 1, m, r)
  PROVE  Coherent(a \o b, 1, Len(a \o b) + 1, e, r)
<1> DEFINE ab == a \o b
           i == Len(a)
           j == Len(b)
<1>1. /\ i \in Nat /\ j \in Nat /\ Len(ab) = i + j
      /\ \A d \in 1 .. i : ab[d] = a[d]
      /\ \A d \in 1 .. j : ab[d + i] = b[d]
  OBVIOUS
<1>2. Coherent(a, 1, i + 1, e, m) /\ Coherent(b, 1, j + 1, m, r)
  OBVIOUS
<1> HIDE DEF ab, i, j
<1>3. Coherent(ab, 1, i + 1, e, m)
  <2>1. \A d \in 1 .. (i + 1) - 1 : ab[d + 0] = a[d]
    <3>1. \A d \in 1 .. (i + 1) - 1 : d + 0 = d /\ d \in 1 .. i
      BY <1>1
    <3>2. QED  BY <1>1, <3>1
  <2>2. 1 + 0 = 1 /\ (i + 1) + 0 = i + 1 /\ 0 \in Int /\ 1 \in Int /\ i + 1 \in Int
    BY <1>1
  <2>3. Coherent(ab, 1 + 0, (i + 1) + 0, e, m)
    BY <1>2, <2>1, <2>2, CoherentShift, Zenon
  <2>4. QED  BY <2>2, <2>3
<1>4. Coherent(ab, i + 1, i + j + 1, m, r)
  <2>1. 1 + i = i + 1 /\ (j + 1) + i = i + j + 1 /\ 1 \in Int /\ j + 1 \in Int /\ i \in Int
    BY <1>1
  <2>2. \A d \in 1 .. (j + 1) - 1 : ab[d + i] = b[d]
    <3>1. \A d \in 1 .. (j + 1) - 1 : d \in 1 .. j
      BY <1>1
    <3>2. QED  BY <1>1, <3>1
  <2>3. Coherent(ab, 1 + i, (j + 1) + i, m, r)
    BY <1>2, <2>1, <2>2, CoherentShift, Zenon
  <2>4. QED  BY <2>1, <2>3
<1>5. 1 \in Int /\ i + 1 \in Int /\ i + j + 1 \in Int /\ 1 <= i + 1 /\ i + 1 <= i + j + 1
  BY <1>1
<1>6. Coherent(ab, 1, i + j + 1, e, r)
  BY <1>3, <1>4, <1>5, CoherentJoin, Zenon
<1>7. QED  BY <1>1, <1>6 DEF ab

(* The areas in hand: those after the ring, and after the words that did   *)
(* not fit.                                                                *)
LEMMA AreasNow ==
  ASSUME EnvInv
  PROVE  /\ UnhInv /\ (mpc \in {"prefix", "direct"} => Written = 0)
         /\ \E m, r \in Regions : InAreas(m, r)
         /\ op.unh = <<>> => \E m \in Regions : /\ Coherent(Window, Executed, Written, env_t, m)
                                                /\ Told => m = env_m
<1>1. UnhInv /\ (mpc \in {"prefix", "direct"} => Written = 0) /\ \E m, r \in Regions : InAreas(m, r)
  BY DEF EnvInv
<1>2. ASSUME op.unh = <<>>
      PROVE  \E m \in Regions : Coherent(Window, Executed, Written, env_t, m) /\ (Told => m = env_m)
  <2>1. PICK m \in Regions, r \in Regions : InAreas(m, r)
    BY <1>1
  <2>2. m = r
    BY <1>2, <2>1, CoherentNone DEF InAreas
  <2>3. QED  BY <2>1, <2>2 DEF InAreas
<1>3. QED  BY <1>1, <1>2

(* The main thread has nothing that did not fit, and the ring's words      *)
(* leave the area the program has set.                                     *)
LEMMA AreasThen ==
  ASSUME op'.unh = <<>>, UnhInv', mpc' \in {"prefix", "direct"} => Written' = 0,
         NEW m \in Regions, Coherent(Window', Executed', Written', env_t', m), Told' => m = env_m'
  PROVE  EnvInv'
<1>1. Coherent(op'.unh, 1, Len(op'.unh) + 1, m, m)
  BY CoherentNone
<1>2. InAreas(m, m)'
  BY <1>1 DEF InAreas
<1>3. QED  BY <1>2 DEF EnvInv, Regions

(* The same with words that did not fit: they leave the area the program   *)
(* has set.                                                                *)
LEMMA AreasLeft ==
  ASSUME TypeOK', UnhInv', mpc' \notin {"prefix", "direct"}, NEW m \in Regions,
         Coherent(Window', Executed', Written', env_t', m),
         Coherent(op'.unh, 1, Len(op'.unh) + 1, m, env_m')
  PROVE  EnvInv'
<1>1. PICK r \in Regions : r = env_m'
  BY DEF TypeOK
<1>2. InAreas(m, r)'
  BY <1>1 DEF InAreas
<1>3. QED  BY <1>2 DEF EnvInv, Regions

(* A step that touches neither the ring nor the gpu thread's area.         *)
EnvStill ==
  /\ UNCHANGED <<pos_used, cells, env_t>> /\ WritePos' = WritePos
  /\ tdone' = tdone /\ (tpc' = tpc \/ "done" \notin {tpc, tpc'})

(* What such a step leaves.                                                *)
LEMMA StillIs ==
  ASSUME EnvStill
  PROVE  Window' = Window /\ Executed' = Executed /\ Written' = Written
BY DEF EnvStill, Window, Place, Executed, Written

(* Such a step in a call.                                                  *)
LEMMA StillKeeps ==
  ASSUME EnvInv, EnvStill, op'.unh = op.unh, UnhInv', mpc' \in {"prefix", "direct"} => Written = 0,
         Told' => Told /\ env_m' = env_m
  PROVE  EnvInv'
<1>1. PICK m \in Regions, r \in Regions : InAreas(m, r)
  BY AreasNow
<1>2. Window' = Window /\ Executed' = Executed /\ Written' = Written /\ env_t' = env_t
  BY StillIs DEF EnvStill
<1>3. InAreas(m, r)'
  BY <1>1, <1>2 DEF InAreas
<1>4. QED  BY <1>2, <1>3 DEF EnvInv, Regions

(* Such a step between the states of a call.                               *)
Adding == {"kick", "add", "addlock", "addwait"}
LEMMA CallMoves ==
  ASSUME EnvInv, UNCHANGED ringVars, env_t' = env_t, tdone' = tdone, tpc' = tpc \/ "done" \notin {tpc, tpc'},
         op'.unh = op.unh, op'.pa = op.pa, op'.ret = op.ret,
         mpc' \notin {"prefix", "dma", "loop", "direct"},
         mpc \in Adding => mpc' \in Adding \/ op.unh = <<>>,
         mpc' \in {"off", "ecmds"} \/ (mpc \notin {"off", "ecmds", "direct"} /\ env_m' = env_m)
  PROVE  EnvInv'
<1>1. EnvStill
  <2>1. WritePos' = WritePos
    BY DEF WritePos
  <2>2. QED  BY <2>1 DEF EnvStill
<1>2. UnhInv'
  BY AreasNow DEF UnhInv, Adding
<1>3. Told' => Told /\ env_m' = env_m
  BY DEF Told
<1>4. QED  BY <1>1, <1>2, <1>3, StillKeeps

(* Such a step that ends a call or begins one.                             *)
LEMMA CallBegins ==
  ASSUME EnvInv, EnvStill, op.unh = <<>>, op'.unh = <<>>, mpc' \in {"prefix", "direct"} => Written = 0,
         Told' => Told /\ env_m' = env_m
  PROVE  EnvInv'
<1>1. UnhInv'
  BY DEF UnhInv
<1>2. QED  BY <1>1, StillKeeps

(* When the ring is empty the two areas are the same, if the renderer has  *)
(* been told.                                                              *)
LEMMA EmptyAreas ==
  ASSUME TypeOK', Written' = 0, Executed' = 0, op'.unh = <<>>, Told' => env_t' = env_m'
  PROVE  EnvInv'
<1>1. env_t' \in Regions
  BY DEF TypeOK
<1>2. UnhInv'
  BY DEF UnhInv
<1>3. Coherent(Window', Executed', Written', env_t', env_t')
  BY CoherentNone
<1>4. QED  BY <1>1, <1>2, <1>3, AreasThen

(* A call has nothing that did not fit, but for the list and what is being *)
(* added.                                                                  *)
LEMMA NothingLeft ==
  ASSUME RingInv, EnvInv, mpc \notin Adding,
         mpc \in {"idle", "ecmds", "prefix", "dma", "break", "direct", "vram", "join", "off"} \/ op.ret # "publish"
  PROVE  op.unh = <<>>
BY AreasNow DEF UnhInv, Adding, RingInv, RetInv

(* The leading environment commands are told to both at once.              *)
LEMMA PrefixAreas ==
  ASSUME TypeOK, TypeOK', RingInv, EnvInv, Prefix
  PROVE  EnvInv'
<1>1. /\ mpc = "prefix" /\ mpc' \in {"prefix", "loop"} /\ UNCHANGED <<ringVars, threadVars>>
      /\ op.ret = "publish" /\ op \in OpRecords
  BY DEF Prefix, RingInv, RetInv, TypeOK
<1>2. op' = op \/ op' = [op EXCEPT !.rest = Tail(@), !.some = TRUE]
  BY DEF Prefix
<1>3. op'.unh = op.unh /\ op'.pa = op.pa /\ op'.ret = op.ret
  BY <1>1, <1>2 DEF OpRecords
<1>4. op.unh = <<>> /\ Written = 0
  BY <1>1, AreasNow DEF UnhInv
<1>5. WritePos' = WritePos
  BY <1>1, <1>3 DEF WritePos
<1>6. Written' = 0 /\ Executed = 0 /\ Executed' = 0
  BY <1>1, <1>4, <1>5, ExecutedIs DEF Written, Executed
<1>7. Told
  BY <1>1 DEF Told
<1>8. env_t = env_m
  BY <1>4, <1>6, <1>7, AreasNow, CoherentNone
<1>9. env_t' = env_m'
  <2> DEFINE c == Head(op.rest)
             changes == c.op = "env" /\ c.r # env_m
  <2>1. CASE op.rest # <<>> /\ c.op \in {"env", "tex"}
    <3>1. /\ changes => env_m' = c.r
          /\ ~changes => UNCHANGED <<env_m, areaVars>>
          /\ env_t' = IF c.op = "env" THEN c.r ELSE env_t
      BY <2>1, ZenonT(40) DEF Prefix
    <3> HIDE DEF c
    <3>2. QED  BY <1>8, <3>1
  <2>2. CASE ~(op.rest # <<>> /\ c.op \in {"env", "tex"})
    <3>1. env_m' = env_m /\ env_t' = env_t
      BY <2>2, ZenonT(40) DEF Prefix
    <3>2. QED  BY <1>8, <3>1
  <2>3. QED  BY <2>1, <2>2
<1>10. QED  BY <1>3, <1>4, <1>6, <1>9, EmptyAreas

(* The renderer is told directly when all is quiet.                        *)
LEMMA DirectAreas ==
  ASSUME TypeOK, TypeOK', RingInv, EnvInv, Direct
  PROVE  EnvInv'
<1>1. /\ mpc = "direct" /\ mpc' = "idle" /\ op' = NoOp /\ UNCHANGED <<ringVars, threadVars>>
      /\ op.ret # "publish" /\ env_m' = env_m
  BY DEF Direct, Done, RingInv, RetInv
<1>2. op.unh = <<>> /\ op'.unh = <<>> /\ Written = 0
  BY <1>1, AreasNow, NothingLeft, NoOpHolds DEF Adding
<1>3. WritePos' = WritePos
  BY <1>1, NoOpHolds DEF WritePos
<1>4. Written' = 0 /\ Executed = 0 /\ Executed' = 0
  BY <1>1, <1>2, <1>3, ExecutedIs DEF Written, Executed
<1>5. env_t' = env_m'
  <2>1. CASE Head(op.rest).op = "env"
    BY <1>1, <2>1 DEF Direct
  <2>2. CASE Head(op.rest).op # "env"
    <3>1. Told /\ env_t' = env_t
      BY <1>1, <2>2 DEF Direct, Told
    <3>2. env_t = env_m
      BY <1>2, <1>4, <3>1, AreasNow, CoherentNone
    <3>3. QED  BY <1>1, <3>1, <3>2
  <2>3. QED  BY <2>1, <2>2
<1>6. QED  BY <1>2, <1>4, <1>5, EmptyAreas

(* What the renderer is told through the ring.                             *)
LEMMA TellAreas ==
  ASSUME TypeOK, RingInv, EnvInv, UNCHANGED ringVars, UNCHANGED threadVars, UNCHANGED <<env_t, env_m>>,
         mpc \in {"idle", "ecmds"}, NEW c, NEW ws \in Seq(Cells), Tell(c, ws),
         c.op = "env" <=> mpc = "ecmds",
         \A m \in Regions : mpc = "ecmds" \/ m = env_m => Coherent(ws, 1, Len(ws) + 1, m, env_m)
  PROVE  EnvInv'
<1>1. op.ret = "idle" /\ op.unh = <<>>
  BY NothingLeft DEF RingInv, RetInv, Adding
<1>2. CASE Quiet
  <2>1. mpc' = "direct" /\ op' = [NoOp EXCEPT !.rest = <<c>>]
    BY <1>2 DEF Tell
  <2>2. op'.ret = "idle" /\ op'.unh = <<>> /\ Head(op'.rest) = c
    BY <2>1 DEF NoOp
  <2>3. EnvStill
    BY <1>1, <2>2 DEF EnvStill, WritePos
  <2>4. Written = 0
    BY <1>1, <1>2, RingTypes DEF Written, WritePos, Quiet, Diff, Positions
  <2>5. Told' => Told /\ env_m' = env_m
    BY <2>1, <2>2 DEF Told
  <2>6. QED  BY <1>1, <2>2, <2>3, <2>4, <2>5, CallBegins
<1>3. CASE ~Quiet
  <2>1. mpc' = "add" /\ op' = [NoOp EXCEPT !.unh = ws]
    BY <1>3 DEF Tell
  <2>2. op'.ret = "idle" /\ op'.unh = ws
    BY <2>1 DEF NoOp
  <2>3. EnvStill
    BY <1>1, <2>2 DEF EnvStill, WritePos
  <2>4. Window' = Window /\ Executed' = Executed /\ Written' = Written /\ env_t' = env_t
    BY <2>3, StillIs DEF EnvStill
  <2>5. PICK m \in Regions : Coherent(Window, Executed, Written, env_t, m) /\ (Told => m = env_m)
    BY <1>1, AreasNow
  <2>6. mpc = "ecmds" \/ m = env_m
    BY <2>5 DEF Told
  <2>7. Coherent(ws, 1, Len(ws) + 1, m, env_m)
    BY <2>6
  <2>8. InAreas(m, env_m)'
    BY <2>2, <2>4, <2>5, <2>7 DEF InAreas
  <2>9. UnhInv' /\ mpc' \notin {"prefix", "direct"} /\ env_m' \in Regions
    BY <2>1, <2>2 DEF UnhInv, TypeOK
  <2>10. QED  BY <2>8, <2>9 DEF EnvInv, Regions
<1>4. QED  BY <1>2, <1>3

(* The list loop: a command in the ring finds the area it was issued in,   *)
(* and so does one that is kept for do_add_with_wait.                      *)
LEMMA LoopAreas ==
  ASSUME TypeOK, TypeOK', RingInv, EnvInv, Loop
  PROVE  EnvInv'
<1> DEFINE c == Head(op.rest)
           skip == Redundant(c) \/ (c.op = "copy" /\ c.r = {})
           ghost == IF c.op = "draw" THEN env_m ELSE {}
           add == CanAdd /\ ~skip
           handled == CanAdd /\ (skip \/ Fits(op.pa, Len0(c)))
           ws == Head0(c, ghost)
           pa2 == IF add THEN AddedPos(op.pa, Len0(c)) ELSE op.pa
           unh2 == IF handled THEN op.unh ELSE op.unh \o ws
           some2 == op.some \/ handled
           rend2 == op.rend \/ Rendered(c)
           brk2 == op.brk \/ (c.op = "env" /\ ~Redundant(c))
<1>1. /\ op \in OpRecords /\ op.rest \in Seq(ListCmds) /\ op.rest # <<>> /\ op.ret = "publish"
      /\ op.unh \in Seq(Cells) /\ env_m \in Regions
  BY RingTypes DEF TypeOK, RingInv, RetInv, WordsInv, Loop
<1>2. c \in Cmds /\ ghost \in Regions /\ c.r \in Regions
  <2>1. c \in ListCmds
    BY <1>1
  <2>2. c \in Cmds
    BY <2>1 DEF ListCmds
  <2>3. QED  BY <1>1, <2>2, CmdFields DEF Regions
<1>3. /\ mpc = "loop" /\ mpc' = "loop" /\ pos_used' = pos_used /\ pos_added' = pos_added
      /\ UNCHANGED threadVars /\ env_t' = env_t
      /\ env_m' = IF c.op = "env" THEN c.r ELSE env_m
      /\ cells' = IF add THEN Filled(op.pa, ws) ELSE cells
      /\ op' = [op EXCEPT !.rest = Tail(@), !.pa = pa2, !.can = handled, !.some = some2,
                          !.unh = unh2, !.rend = rend2, !.brk = brk2]
  BY DEF Loop
<1>4. Coherent(ws, 1, Len(ws) + 1, env_m, env_m')
  BY <1>2, <1>3, HeadAreas
<1>5. ws \in Seq(Cells) /\ Len(ws) = Len0(c)
  BY <1>2, HeadType
<1>6. skip => env_m' = env_m
  BY <1>3 DEF Redundant
<1> HIDE DEF c, skip, ghost, ws, some2, rend2, brk2
<1>7. op'.pa = pa2 /\ op'.unh = unh2 /\ op'.ret = "publish" /\ op'.can = handled
  BY <1>1, <1>3 DEF OpRecords
<1>8. WritePos = op.pa /\ WritePos' = pa2 /\ Executed' = Executed
  BY <1>1, <1>3, <1>7 DEF WritePos, Executed
<1>9. PICK m \in Regions, r \in Regions : InAreas(m, r)
  BY AreasNow
<1>10. r = env_m
  BY <1>3, <1>9 DEF InAreas, Told
<1>11. op.can => op.unh = <<>> /\ m = env_m
  <2>1. op.can => op.unh = <<>>
    BY <1>3, AreasNow DEF UnhInv
  <2>2. op.unh = <<>> => m = r
    BY <1>9, CoherentNone DEF InAreas
  <2>3. QED  BY <1>10, <2>1, <2>2
<1>12. env_m' \in Regions
  BY DEF TypeOK
<1>13. ASSUME ~handled
       PROVE  Coherent(op'.unh, 1, Len(op'.unh) + 1, m, env_m')
  <2>1. op'.unh = op.unh \o ws
    BY <1>7, <1>13
  <2>2. Coherent(op.unh, 1, Len(op.unh) + 1, m, env_m)
    BY <1>9, <1>10 DEF InAreas
  <2>3. Coherent(op.unh \o ws, 1, Len(op.unh \o ws) + 1, m, env_m')
    BY <1>1, <1>4, <1>5, <2>2, ConcatAreas, Zenon
  <2>4. QED  BY <2>1, <2>3
<1>14. UnhInv'
  BY <1>3, <1>7, <1>11 DEF UnhInv, CanAdd
<1>15. CASE add
  <2>1. cells' = Filled(WritePos, ws) /\ WritePos' = AddedPos(WritePos, Len(ws)) /\ op.can
    BY <1>3, <1>5, <1>8, <1>15 DEF CanAdd
  <2>2. Coherent(Window, Executed, Written, env_t, env_m)
    BY <1>9, <1>11, <2>1 DEF InAreas
  <2>3. /\ Fits(WritePos, Len(ws)) => Coherent(Window', Executed', Written', env_t, env_m')
        /\ ~Fits(WritePos, Len(ws)) => Coherent(Window', Executed', Written', env_t, env_m)
    BY <1>3, <1>4, <1>5, <1>8, <2>1, <2>2, FilledAreas, Zenon
  <2>4. handled <=> Fits(WritePos, Len(ws))
    BY <1>5, <1>8, <1>15
  <2>5. CASE handled
    <3>1. Coherent(Window', Executed', Written', env_t', env_m')
      BY <1>3, <2>3, <2>4, <2>5
    <3>2. op'.unh = <<>>
      BY <1>7, <1>11, <2>1, <2>5
    <3>3. mpc' \notin {"prefix", "direct"}
      BY <1>3
    <3>4. QED  BY <1>12, <1>14, <3>1, <3>2, <3>3, AreasThen
  <2>6. CASE ~handled
    <3>1. Coherent(Window', Executed', Written', env_t', m)
      BY <1>3, <1>11, <2>1, <2>3, <2>4, <2>6
    <3>2. Coherent(op'.unh, 1, Len(op'.unh) + 1, m, env_m') /\ mpc' \notin {"prefix", "direct"}
      BY <1>3, <1>13, <2>6
    <3>3. QED  BY <1>14, <3>1, <3>2, AreasLeft
  <2>7. QED  BY <2>5, <2>6
<1>16. CASE ~add
  <2>1. EnvStill
    BY <1>3, <1>8, <1>16 DEF EnvStill
  <2>2. Window' = Window /\ Executed' = Executed /\ Written' = Written
    BY <2>1, StillIs
  <2>3. Coherent(Window', Executed', Written', env_t', m)
    BY <1>3, <1>9, <2>2 DEF InAreas
  <2>4. CASE handled
    <3>1. skip /\ op.can
      BY <1>16, <2>4 DEF CanAdd
    <3>2. op'.unh = op.unh /\ env_m' = env_m
      BY <1>6, <1>7, <2>4, <3>1
    <3>3. InAreas(m, r)'
      BY <1>9, <1>10, <2>3, <3>2 DEF InAreas
    <3>4. QED  BY <1>3, <1>14, <3>3 DEF EnvInv, Regions
  <2>5. CASE ~handled
    <3>1. Coherent(op'.unh, 1, Len(op'.unh) + 1, m, env_m') /\ mpc' \notin {"prefix", "direct"}
      BY <1>3, <1>13, <2>5
    <3>2. QED  BY <1>14, <2>3, <3>1, AreasLeft
  <2>6. QED  BY <2>4, <2>5
<1>17. QED  BY <1>15, <1>16

(* do_add_with_wait puts behind the others the words that did not fit.     *)
LEMMA AddWithWaitAreas ==
  ASSUME TypeOK, TypeOK', RingInv, EnvInv, AddWithWait
  PROVE  EnvInv'
<1> DEFINE ws == op.unh
           fits == Fits(pos_added, Len(ws))
<1>1. op \in OpRecords /\ op.ret # "publish" /\ ws \in Seq(Cells)
  BY RingTypes DEF TypeOK, RingInv, RetInv, AddWithWait
<1>2. /\ mpc = "add" /\ pos_used' = pos_used /\ cells' = Filled(pos_added, ws)
      /\ UNCHANGED <<threadVars, env_t, env_m>>
      /\ pos_added' = AddedPos(pos_added, Len(ws))
      /\ fits => mpc' = "break" /\ op' = [op EXCEPT !.unh = <<>>]
      /\ ~fits => mpc' = "addlock" /\ op' = op
  BY DEF AddWithWait
<1>3. op'.ret = op.ret /\ op'.unh = IF fits THEN <<>> ELSE ws
  BY <1>1, <1>2 DEF OpRecords
<1>4. WritePos = pos_added /\ WritePos' = pos_added' /\ Executed' = Executed
  BY <1>1, <1>2, <1>3 DEF WritePos, Executed
<1>5. PICK m \in Regions, r \in Regions : InAreas(m, r)
  BY AreasNow
<1>6. Coherent(Window, Executed, Written, env_t, m) /\ Coherent(ws, 1, Len(ws) + 1, m, r) /\ r = env_m
  BY <1>2, <1>5 DEF InAreas, Told
<1> HIDE DEF ws
<1>7. /\ fits => Coherent(Window', Executed', Written', env_t, r)
      /\ ~fits => Coherent(Window', Executed', Written', env_t, m)
  BY <1>1, <1>2, <1>4, <1>6, FilledAreas, Zenon
<1>8. UnhInv' /\ mpc' \notin {"prefix", "direct"}
  BY <1>2, <1>3 DEF UnhInv
<1>9. CASE fits
  BY <1>2, <1>3, <1>6, <1>7, <1>8, <1>9, AreasThen
<1>10. CASE ~fits
  <2>1. InAreas(m, r)'
    BY <1>2, <1>3, <1>6, <1>7, <1>10 DEF InAreas, ws
  <2>2. QED  BY <1>8, <2>1 DEF EnvInv, Regions
<1>11. QED  BY <1>9, <1>10

(* Words that neither set the area nor draw may be added at any time.      *)
LEMMA PlainAreas ==
  ASSUME TypeOK, RingInv, EnvInv, op.unh = <<>>, op'.unh = <<>>, UnhInv', mpc' \notin {"prefix", "direct"},
         Told, env_m' = env_m, env_t' = env_t, NEW ws \in Seq(Cells), cells' = Filled(WritePos, ws),
         pos_used' = pos_used, WritePos' = AddedPos(WritePos, Len(ws)), Executed' = Executed,
         \A e : Coherent(ws, 1, Len(ws) + 1, e, e)
  PROVE  EnvInv'
<1>1. PICK m \in Regions : Coherent(Window, Executed, Written, env_t, m) /\ m = env_m
  BY AreasNow
<1>2. Coherent(ws, 1, Len(ws) + 1, m, m)
  OBVIOUS
<1>3. Coherent(Window', Executed', Written', env_t, m)
  BY <1>1, <1>2, FilledAreas, Zenon
<1>4. QED  BY <1>1, <1>3, AreasThen

(* The break command.                                                      *)
LEMMA BreakAreas ==
  ASSUME TypeOK, TypeOK', RingInv, EnvInv, Break
  PROVE  EnvInv'
<1> DEFINE ws == Head0(Brk, {})
<1>1. /\ op.ret # "publish" /\ mpc = "break" /\ mpc' = "idle" /\ op' = NoOp /\ pos_used' = pos_used
      /\ UNCHANGED <<threadVars, env_t, env_m>>
  BY DEF RingInv, RetInv, Break, Done
<1>2. ws \in Seq(Cells) /\ Len(ws) = Len0(Brk) /\ \A e : Coherent(ws, 1, Len(ws) + 1, e, e)
  <2>1. Brk \in Cmds /\ Brk.op = "brk" /\ {} \in Regions
    BY ConstantTypes DEF Brk, Cmd, Regions
  <2>2. \A e : Coherent(ws, 1, Len(ws) + 1, e, e)
    BY <2>1, HeadAreas
  <2>3. QED  BY <2>1, <2>2, HeadType
<1>3. (cells' = Filled(pos_added, ws) /\ pos_added' = AddedPos(pos_added, Len(ws)))
      \/ (cells' = cells /\ pos_added' = pos_added)
  BY <1>2 DEF Break
<1> HIDE DEF ws
<1>4. WritePos = pos_added /\ WritePos' = pos_added' /\ Executed' = Executed
  BY <1>1, NoOpHolds DEF WritePos, Executed
<1>5. op.unh = <<>> /\ op'.unh = <<>> /\ Told
  BY <1>1, NothingLeft, NoOpHolds DEF Adding, Told
<1>6. CASE cells' = Filled(pos_added, ws) /\ pos_added' = AddedPos(pos_added, Len(ws))
  <2>1. UnhInv'
    BY <1>5 DEF UnhInv
  <2>2. QED  BY <1>1, <1>2, <1>4, <1>5, <1>6, <2>1, PlainAreas
<1>7. CASE cells' = cells /\ pos_added' = pos_added
  <2>1. EnvStill
    BY <1>1, <1>4, <1>7 DEF EnvStill
  <2>2. QED  BY <1>1, <1>5, <2>1, CallBegins
<1>8. QED  BY <1>3, <1>6, <1>7

(* A line of an upload.                                                    *)
LEMMA DmaAddAreas ==
  ASSUME TypeInv, TypeOK', RingInv, EnvInv, DmaAdd
  PROVE  EnvInv'
<1> DEFINE c == Head(op.rest)
           ws == DmaWords(c)
<1>1. /\ mpc = "dma" /\ mpc' = "dma" /\ pos_used' = pos_used /\ UNCHANGED <<threadVars, env_t, env_m>>
      /\ cells' = Filled(op.pa, ws) /\ op.ret = "publish" /\ op \in OpRecords /\ TypeOK
      /\ op' = [op EXCEPT !.line = @ + 1, !.pa = AddedPos(@, Len(ws)), !.bad = @ \/ ~Fits(op.pa, Len(ws))]
  BY DEF DmaAdd, RingInv, RetInv, TypeInv, TypeOK
<1>2. op'.pa = AddedPos(op.pa, Len(ws)) /\ op'.unh = op.unh /\ op'.ret = op.ret
  BY <1>1 DEF OpRecords
<1>3. c \in Dmas /\ c \in Cmds /\ c.op = "dma" /\ c.s \in Nat /\ op.line \in Nat
  <2>1. c \in Dmas
    BY <1>1 DEF RingInv, UploadInv
  <2>2. QED  BY <1>1, <2>1, CmdAssumption, CmdFields DEF OpRecords
<1>4. ws \in Seq(Cells) /\ \A e : Coherent(ws, 1, Len(ws) + 1, e, e)
  <2>1. {} \in Regions
    BY DEF Regions
  <2>2. CASE op.line = 0
    <3>1. ws = Head0(c, {})
      BY <2>2 DEF DmaWords
    <3> HIDE DEF c, ws
    <3>2. \A e : Coherent(Head0(c, {}), 1, Len(Head0(c, {})) + 1, e, e)
      BY <1>3, <2>1, HeadAreas
    <3>3. QED  BY <1>3, <2>1, <3>1, <3>2, HeadType
  <2>3. CASE op.line # 0
    <3> DEFINE f == 3 + (op.line - 1) * c.s
    <3>1. ws = Words(c, {}, f, c.s)
      BY <2>3 DEF DmaWords
    <3>2. f \in Nat
      <4>1. op.line - 1 \in Nat
        BY <1>3, <2>3
      <4> HIDE DEF c
      <4>2. (op.line - 1) * c.s \in Nat
        BY <1>3, <4>1
      <4>3. QED  BY <4>2
    <3> HIDE DEF c, ws, f
    <3>3. ws \in Seq(Cells)
      BY <1>3, <2>1, <3>1, <3>2, WordsType
    <3>4. Len(ws) = c.s /\ \A i \in 1 .. c.s : ws[i].c = c
      BY <1>3, <3>1 DEF Words, Cell
    <3>5. \A i \in 1 .. (Len(ws) + 1) - 1 : ~IsEnv(ws[i]) /\ ~IsDraw(ws[i])
      <4>1. (Len(ws) + 1) - 1 = c.s
        BY <1>3, <3>4
      <4>2. QED  BY <1>3, <3>4, <4>1 DEF IsEnv, IsDraw
    <3>6. 1 \in Int /\ Len(ws) + 1 \in Int
      BY <1>3, <3>4
    <3>7. QED  BY <3>3, <3>5, <3>6, CoherentPlain
  <2>4. QED  BY <2>2, <2>3
<1> HIDE DEF c, ws
<1>5. WritePos = op.pa /\ WritePos' = op'.pa /\ Executed' = Executed
  BY <1>1, <1>2 DEF WritePos, Executed
<1>6. op.unh = <<>> /\ Told
  BY <1>1, AreasNow DEF UnhInv, Told
<1>7. UnhInv'
  BY <1>2, <1>6 DEF UnhInv
<1>8. QED  BY <1>1, <1>2, <1>4, <1>5, <1>6, <1>7, PlainAreas

(* gpu_async_thread carries out a batch: the area it is left with is the   *)
(* one the words left behind it begin in.                                  *)
LEMMA RenderAreas ==
  ASSUME TypeOK, TypeOK', RingInv, EnvInv, Render
  PROVE  EnvInv'
<1> DEFINE sp(t) == IF t < BatchLen THEN Batch[t + 1].c ELSE Pad.c
<1>1. PICK t \in 0 .. BatchLen :
        /\ Takes(t) /\ env_t' = EnvAfter(env_t, SubSeq(Batch, 1, t))
        /\ tdone' = CASE sp(t).op = "nop" -> t
                      [] sp(t).op = "dma" -> t + DmaLen(UsedAt + t, sp(t))
                      [] OTHER -> t + Len0(sp(t))
  BY DEF Render
<1>2. /\ UNCHANGED <<ringVars, mainVars>> /\ env_m' = env_m
      /\ tpc = "render" /\ tpc' = "done"
  BY DEF Render
<1>3. /\ pos_used \in Positions /\ cells \in [Index -> Cells] /\ tlen \in Nat /\ Written \in 0 .. BufLen
      /\ Added \in Nat /\ Added <= Written /\ Window \in [Index -> Cells] /\ BufLen \in Nat
  BY RingTypes DEF TypeOK, RingInv, WordsInv
<1>4. tlen > 0 /\ tlen <= Added /\ EndsAt(Window, pos_used, tlen)
  BY <1>2 DEF RingInv, TakenInv
<1>5. Formed(Window, pos_used, Written, Open, WordsIn)
  BY DEF RingInv, WordsInv
<1>6. Open \in Nat /\ tlen <= Open /\ tlen <= Written /\ WordsIn \in Nat
  <2>1. Open \in Nat /\ Added <= Open /\ WordsIn \in Nat
    BY OpenIs
  <2>2. QED  BY <1>3, <1>4, <2>1
<1>7. tdone' \in 1 .. tlen /\ \A d \in t .. tdone' - 1 : Begins(Window, d) => ~Ordinary(Window[d].c)
  BY <1>1, <1>3, <1>4, <1>5, <1>6, TakenWhole
<1>8. /\ BatchLen \in Nat /\ BatchLen <= tlen /\ UsedAt \in Int
      /\ \A d \in 0 .. BatchLen - 1 : d \in Index /\ Batch[d + 1] = Window[d]
  BY <1>3, BatchIs DEF Index
<1>9. t \in Nat /\ t \in Int /\ t <= tdone'
  <2>1. CASE t < BatchLen
    <3>1. t \in 0 .. BatchLen - 1
      BY <1>8, <2>1
    <3>2. Window[t] \in Cells /\ Batch[t + 1] = Window[t]
      BY <1>3, <1>8, <3>1
    <3>3. sp(t) \in Cmds
      BY <2>1, <3>2, CmdFields
    <3>4. UsedAt + t \in Int
      BY <1>8
    <3> HIDE DEF sp
    <3>5. Len0(sp(t)) \in Nat
      BY <3>3, LastWordIs
    <3>6. sp(t).op = "dma" => DmaLen(UsedAt + t, sp(t)) \in Nat
      BY <3>3, <3>4, DmaLenType
    <3>7. QED  BY <1>1, <1>7, <1>8, <3>5, <3>6
  <2>2. CASE ~(t < BatchLen)
    <3>1. sp(t).op = "nop"
      BY <2>2 DEF Pad, Cell, Cmd
    <3> HIDE DEF sp
    <3>2. tdone' = t
      BY <1>1, <3>1
    <3>3. QED  BY <1>8, <3>2
  <2>3. QED  BY <2>1, <2>2
<1> HIDE DEF sp
<1>10. Leaves(Window, 0, t, env_t, env_t')
  <2> DEFINE ws == SubSeq(Batch, 1, t)
  <2>1. DOMAIN ws = 1 .. t /\ \A d \in 1 .. t : ws[d] = Batch[d]
    <3>1. Batch \in Seq(Cells) /\ Len(Batch) = BatchLen
      BY <1>3, BatchType
    <3>2. QED  BY <1>8, <3>1
  <2>2. \A d \in 1 .. (t + 1) - 1 : Window[d + (-1)] = ws[d]
    <3> SUFFICES ASSUME NEW d \in 1 .. (t + 1) - 1  PROVE Window[d + (-1)] = ws[d]
      OBVIOUS
    <3> DEFINE x == d + (-1)
    <3>1. x \in 0 .. BatchLen - 1 /\ x + 1 = d /\ d \in 1 .. t
      BY <1>8, <1>9
    <3> HIDE DEF x, ws
    <3>2. Window[x] = ws[d]
      BY <1>8, <2>1, <3>1
    <3>3. QED  BY <3>2 DEF x
  <2> HIDE DEF ws
  <2>3. Leaves(ws, 1, t + 1, env_t, EnvAfter(env_t, ws))
    BY <1>9, <2>1, EnvAfterLeaves
  <2>4. env_t' = EnvAfter(env_t, ws)
    BY <1>1 DEF ws
  <2>5. 1 + (-1) = 0 /\ (t + 1) + (-1) = t /\ 1 \in Int /\ t + 1 \in Int /\ -1 \in Int
    BY <1>9
  <2>6. Leaves(Window, 1 + (-1), (t + 1) + (-1), env_t, env_t')
    BY <2>2, <2>3, <2>4, <2>5, LeavesShift, Zenon
  <2>7. QED  BY <2>5, <2>6
<1>11. Leaves(Window, t, tdone', env_t', env_t')
  <2>1. ASSUME NEW d \in t .. tdone' - 1, IsEnv(Window[d])
        PROVE  FALSE
    <3>1. d \in 0 .. Written - 1
      <4>1. tdone' \in Int /\ tdone' <= Written /\ Written \in Int
        BY <1>3, <1>6, <1>7
      <4> DEFINE e == tdone'
      <4>2. d \in t .. e - 1 /\ e \in Int /\ e <= Written
        BY <4>1
      <4> HIDE DEF e
      <4>3. QED  BY <1>9, <4>1, <4>2
    <3>2. Begins(Window, d) /\ Ordinary(Window[d].c)
      BY <2>1, <3>1, AreaBegins
    <3>3. QED  BY <1>7, <3>2
  <2>2. QED  BY <2>1 DEF Leaves
<1>12. Leaves(Window, 0, tdone', env_t, env_t')
  <2>1. 0 \in Int /\ tdone' \in Int /\ 0 <= t
    BY <1>7, <1>9
  <2>2. QED  BY <1>9, <1>10, <1>11, <2>1, LeavesJoin, Zenon
<1>13. /\ Window' = Window /\ Written' = Written /\ Executed = 0 /\ Executed' = tdone'
       /\ op' = op /\ mpc' = mpc
  <2>1. WritePos' = WritePos
    BY <1>2 DEF WritePos
  <2>2. QED  BY <1>2, <2>1 DEF Window, Place, Written, Executed
<1>14. PICK m \in Regions, r \in Regions : InAreas(m, r)
  BY AreasNow
<1>15. Coherent(Window, tdone', Written, env_t', m)
  <2>1. Coherent(Window, 0, Written, env_t, m)
    BY <1>13, <1>14 DEF InAreas
  <2>2. 0 \in Int /\ tdone' \in Int /\ Written \in Int /\ 0 <= tdone' /\ tdone' <= Written
    BY <1>3, <1>4, <1>7
  <2>3. QED  BY <1>12, <2>1, <2>2, CoherentSplit, Zenon
<1>16. InAreas(m, r)'
  BY <1>2, <1>13, <1>14, <1>15 DEF InAreas, Told
<1>17. UnhInv' /\ (mpc' \in {"prefix", "direct"} => Written' = 0)
  BY <1>13, AreasNow DEF UnhInv
<1>18. QED  BY <1>16, <1>17 DEF EnvInv, Regions

(* The gpu thread gives back what it has carried out.                      *)
LEMMA CommitAreas ==
  ASSUME TypeOK, TypeOK', RingInv, EnvInv, Commit
  PROVE  EnvInv'
<1> DEFINE b == tdone
           u == pos_used
           n == Written
           w == Window
<1>1. /\ tpc = "done" /\ tpc' = "top" /\ pos_used' = Plus(u, b) /\ UNCHANGED mainVars /\ pos_added' = pos_added
      /\ cells' = [i \in Index |-> IF (BufLen + i - UsedAt) % BufLen < b THEN Free ELSE cells[i]]
      /\ env_t' = env_t /\ env_m' = env_m
  BY DEF Commit
<1>2. /\ u \in Positions /\ WritePos \in Positions /\ cells \in [Index -> Cells]
      /\ w \in [Index -> Cells] /\ BufLen \in Nat /\ n \in 0 .. BufLen /\ Added \in Nat /\ Added <= n
  BY RingTypes DEF RingInv, WordsInv
<1>3. b \in 1 .. Added
  BY <1>1 DEF RingInv, TakenInv
<1>4. b \in 0 .. BufLen /\ b \in 0 .. n
  BY <1>2, <1>3
<1>5. Window' = Dropped(w, b)
  BY <1>1, <1>2, <1>4, CommitWindow, Zenon
<1>6. Written' = n - b
  <2>1. WritePos' = WritePos
    BY <1>1 DEF WritePos
  <2>2. Written' = Diff(WritePos, Plus(u, b))
    BY <1>1, <2>1 DEF Written
  <2>3. \A k \in 0 .. BufLen : k <= Diff(WritePos, u) => Diff(WritePos, Plus(u, k)) = Diff(WritePos, u) - k
    BY <1>2, DiffIs
  <2>4. n = Diff(WritePos, u)
    BY DEF Written
  <2> HIDE DEF u, b, n
  <2>5. b <= n
    BY <1>4
  <2>6. QED  BY <1>4, <2>2, <2>3, <2>4, <2>5
<1>7. Executed = b /\ Executed' = 0
  BY <1>1 DEF Executed
<1> HIDE DEF b, u, n, w
<1>8. PICK m \in Regions, r \in Regions : InAreas(m, r)
  BY AreasNow
<1>9. Coherent(Window', Executed', Written', env_t', m)
  <2>1. Coherent(w, b, n, env_t, m)
    BY <1>7, <1>8 DEF InAreas, w, n
  <2>2. \A d \in b .. n - 1 : Dropped(w, b)[d + (-b)] = w[d]
    <3> SUFFICES ASSUME NEW d \in b .. n - 1  PROVE Dropped(w, b)[d + (-b)] = w[d]
      OBVIOUS
    <3> DEFINE x == d + (-b)
    <3>1. x \in Nat /\ b + x = d /\ b + x < BufLen
      BY <1>2, <1>4
    <3> HIDE DEF x
    <3>2. Dropped(w, b)[x] = w[b + x]
      BY <1>2, <1>4, <3>1, DroppedWord
    <3>3. QED  BY <3>1, <3>2 DEF x
  <2>3. b + (-b) = 0 /\ n + (-b) = n - b /\ b \in Int /\ n \in Int /\ -b \in Int
    BY <1>2, <1>4
  <2>4. Coherent(Dropped(w, b), b + (-b), n + (-b), env_t, m)
    BY <2>1, <2>2, <2>3, CoherentShift, Zenon
  <2>5. QED  BY <1>1, <1>5, <1>6, <1>7, <2>3, <2>4
<1>10. InAreas(m, r)'
  BY <1>1, <1>8, <1>9 DEF InAreas, Told
<1>11. UnhInv'
  BY <1>1, AreasNow DEF UnhInv
<1>12. mpc' \in {"prefix", "direct"} => Written' = 0
  <2>1. mpc' \in {"prefix", "direct"} => n = 0
    BY <1>1, AreasNow DEF n
  <2>2. QED  BY <1>2, <1>3, <2>1
<1>13. QED  BY <1>10, <1>11, <1>12 DEF EnvInv, Regions

(* A list begins, perhaps with commands for the renderer itself: then the  *)
(* ring is empty.                                                          *)
LEMMA ListAreas ==
  ASSUME TypeOK, RingInv, EnvInv, ListCall
  PROVE  EnvInv'
<1>1. PICK l \in Lists : op' = [NoOp EXCEPT !.rest = l, !.pa = pos_added, !.ret = "publish"]
  BY DEF ListCall
<1>2. op'.pa = pos_added /\ op'.ret = "publish" /\ op'.unh = <<>>
  BY <1>1 DEF NoOp
<1>3. /\ UNCHANGED <<ringVars, threadVars, env_t, env_m>> /\ mpc = "idle"
      /\ mpc' = IF Quiet THEN "prefix" ELSE "loop"
  BY DEF ListCall, AddCall, Call
<1>4. op.ret = "idle" /\ op.unh = <<>>
  BY <1>3, NothingLeft DEF RingInv, RetInv, Adding
<1>5. EnvStill
  BY <1>2, <1>3, <1>4 DEF EnvStill, WritePos
<1>6. Quiet => Written = 0
  BY <1>4, RingTypes DEF Written, WritePos, Quiet, Diff, Positions
<1>7. Told
  BY <1>3 DEF Told
<1>8. QED  BY <1>2, <1>3, <1>4, <1>5, <1>6, <1>7, CallBegins

(* A list is published.                                                    *)
LEMMA PublishAreas ==
  ASSUME TypeOK, RingInv, EnvInv, Publish
  PROVE  EnvInv'
<1>1. /\ mpc = "publish" /\ mpc' = "kick" /\ pos_added' = op.pa /\ UNCHANGED <<pos_used, cells>>
      /\ op' = [op EXCEPT !.ret = "idle", !.pa = 0] /\ UNCHANGED <<threadVars, env_t, env_m>>
  BY DEF Publish
<1>2. op \in OpRecords /\ op.ret = "publish"
  BY <1>1 DEF TypeOK, RingInv, RetInv
<1>3. op'.ret = "idle" /\ op'.unh = op.unh
  BY <1>1, <1>2 DEF OpRecords
<1>4. EnvStill
  BY <1>1, <1>2, <1>3 DEF EnvStill, WritePos
<1>5. UnhInv'
  BY <1>1 DEF UnhInv
<1>6. Told
  BY <1>1 DEF Told
<1>7. QED  BY <1>1, <1>3, <1>4, <1>5, <1>6, StillKeeps

(* An upload is published.                                                 *)
LEMMA DmaPublishAreas ==
  ASSUME TypeOK, RingInv, EnvInv, DmaPublish
  PROVE  EnvInv'
<1>1. /\ mpc = "dma" /\ mpc' = "idle" /\ pos_added' = op.pa /\ UNCHANGED <<pos_used, cells>>
      /\ op' = NoOp /\ UNCHANGED <<env_t, env_m>> /\ tdone' = tdone
      /\ (tpc' = tpc \/ "done" \notin {tpc, tpc'})
  BY DEF DmaPublish, Kick, Done
<1>2. op.ret = "publish" /\ op'.ret = "idle" /\ op'.unh = <<>>
  BY <1>1, NoOpHolds DEF RingInv, RetInv
<1>3. EnvStill
  BY <1>1, <1>2 DEF EnvStill, WritePos
<1>4. op.unh = <<>> /\ Told
  BY <1>1, NothingLeft DEF Adding, Told
<1>5. QED  BY <1>1, <1>2, <1>3, <1>4, CallBegins

(* A call that begins or ends with nothing for the ring.                   *)
LEMMA BareAreas ==
  ASSUME TypeOK, RingInv, EnvInv, UNCHANGED <<ringVars, env_t, env_m>>, tdone' = tdone,
         tpc' = tpc \/ "done" \notin {tpc, tpc'},
         mpc \in {"idle", "vram", "join", "scan"}, op.ret # "publish", op'.unh = <<>>,
         op'.ret # "publish" \/ op'.pa = pos_added, mpc' \notin {"prefix", "direct"}
  PROVE  EnvInv'
<1>1. op.unh = <<>> /\ Told
  BY NothingLeft DEF Adding, Told
<1>2. EnvStill
  BY DEF EnvStill, WritePos
<1>3. QED  BY <1>1, <1>2, CallBegins

(* gpu_async_enable: the area is told before anything is drawn.            *)
LEMMA EmptiedInAreas == Emptied /\ TypeOK => EnvInv
<1> SUFFICES ASSUME Emptied, TypeOK  PROVE EnvInv
  OBVIOUS
<1>1. /\ pos_added = 0 /\ pos_used = 0 /\ tpc = "start" /\ mpc = "ecmds" /\ op = NoOp
      /\ env_t \in Regions
  BY DEF Emptied, TypeOK
<1>2. op.ret = "idle" /\ op.unh = <<>>
  BY <1>1, NoOpHolds
<1>3. Written = 0 /\ Executed = 0
  BY <1>1, <1>2 DEF Written, WritePos, Diff, Executed
<1>4. Coherent(Window, Executed, Written, env_t, env_t)
  BY <1>3, CoherentNone
<1>5. Coherent(op.unh, 1, Len(op.unh) + 1, env_t, env_t)
  BY <1>2, CoherentNone
<1>6. UnhInv
  BY <1>2 DEF UnhInv
<1>7. InAreas(env_t, env_t)
  BY <1>1, <1>4, <1>5 DEF InAreas, Told
<1>8. QED  BY <1>1, <1>6, <1>7 DEF EnvInv

(* The same of the next state.                                             *)
LEMMA EmptiedAreasAfter == (Emptied /\ TypeOK)' => EnvInv'
BY EmptiedInAreas, PTL

(* A step of the gpu thread that carries out nothing.                      *)
LEMMA ThreadAreas ==
  ASSUME EnvInv, UNCHANGED <<ringVars, mainVars, env_t, env_m>>, tdone' = tdone,
         tpc' = tpc \/ "done" \notin {tpc, tpc'}
  PROVE  EnvInv'
<1>1. EnvStill
  BY DEF EnvStill, WritePos
<1>2. UnhInv'
  BY AreasNow DEF UnhInv
<1>3. mpc' \in {"prefix", "direct"} => Written = 0
  BY AreasNow
<1>4. Told' => Told /\ env_m' = env_m
  BY DEF Told
<1>5. QED  BY <1>1, <1>2, <1>3, <1>4, StillKeeps

(* The area is told to the renderer.                                       *)
LEMMA SyncEcmdsAreas ==
  ASSUME TypeOK, RingInv, EnvInv, SyncEcmds
  PROVE  EnvInv'
<1> DEFINE ws == [i \in 1 .. EcmdsLen |-> Cell(IF i = 1 THEN Env(env_m) ELSE Tex, {}, 0)]
<1>1. /\ mpc = "ecmds" /\ Tell(Env(env_m), ws) /\ UNCHANGED ringVars /\ UNCHANGED threadVars
      /\ UNCHANGED <<env_t, env_m>>
  BY DEF SyncEcmds
<1>2. env_m \in Regions
  BY DEF TypeOK
<1>3. \A m : Coherent(ws, 1, Len(ws) + 1, m, env_m)
  BY <1>2, EcmdsAreas
<1>4. ws \in Seq(Cells)
  <2>1. EcmdsLen \in Nat
    BY EcmdsLenAssumption, BufLenAssumption
  <2>2. Env(env_m) \in Cmds /\ Tex \in Cmds /\ {} \in Regions
    BY <1>2, ConstantTypes DEF Regions
  <2>3. \A i \in 1 .. EcmdsLen : Cell(IF i = 1 THEN Env(env_m) ELSE Tex, {}, 0) \in Cells
    BY <2>2 DEF Cell, Cells
  <2>4. QED  BY <2>1, <2>3
<1>5. Env(env_m).op = "env"
  BY DEF Env, Cmd
<1> HIDE DEF ws
<1>6. QED  BY <1>1, <1>3, <1>4, <1>5, TellAreas

(* The display area and the interlace mode are told to the renderer.       *)
LEMMA DisplayAreas ==
  ASSUME TypeOK, RingInv, EnvInv, NEW c \in Cmds, c.op \in {"screen", "ilace"}, Tell(c, Head0(c, {})),
         mpc = "idle", UNCHANGED ringVars, UNCHANGED threadVars, UNCHANGED <<env_t, env_m>>
  PROVE  EnvInv'
<1> DEFINE ws == Head0(c, {})
<1>1. {} \in Regions
  BY DEF Regions
<1>2. \A m : Coherent(ws, 1, Len(ws) + 1, m, m)
  BY <1>1, HeadAreas
<1>3. ws \in Seq(Cells) /\ Tell(c, ws)
  BY <1>1, HeadType
<1> HIDE DEF ws
<1>4. \A m \in Regions : mpc = "ecmds" \/ m = env_m => Coherent(ws, 1, Len(ws) + 1, m, env_m)
  BY <1>2
<1>5. QED  BY <1>3, <1>4, TellAreas

(* Every step of either thread leaves each drawing the area it was issued  *)
(* in.                                                                     *)
LEMMA EnvNext ==
  ASSUME TypeInv, TypeInv', RingInv, EnvInv, [Next]_vars
  PROVE  EnvInv'
<1>0. TypeOK /\ TypeOK' /\ op \in OpRecords
  BY DEF TypeInv, TypeOK
<1>1. CASE ListCall  BY <1>0, <1>1, ListAreas
<1>2. CASE Prefix  BY <1>0, <1>2, PrefixAreas
<1>3. CASE Loop  BY <1>0, <1>3, LoopAreas
<1>4. CASE LoopEnd
  <2>1. /\ UNCHANGED <<ringVars, threadVars, env_t, env_m>> /\ mpc = "loop" /\ mpc' \in {"twait", "sync", "publish"}
    BY <1>4 DEF LoopEnd, ScanoutWait
  <2>2. op' = op \/ \E r, t : op' = [op EXCEPT !.reg = r, !.target = t]
    BY <1>4 DEF LoopEnd, ScanoutWait
  <2>3. op'.unh = op.unh /\ op'.pa = op.pa /\ op'.ret = op.ret
    BY <1>0, <2>2 DEF OpRecords
  <2>4. QED  BY <2>1, <2>3, CallMoves DEF Adding
<1>5. CASE Publish  BY <1>0, <1>5, PublishAreas
<1>6. CASE KickAfterList
  <2>1. /\ UNCHANGED <<ringVars, env_t, env_m>> /\ mpc = "kick" /\ op' = op /\ tdone' = tdone
        /\ (tpc' = tpc \/ "done" \notin {tpc, tpc'})
        /\ mpc' = IF op.unh # <<>> THEN "add" ELSE "break"
    BY <1>6 DEF KickAfterList, Kick
  <2>2. QED  BY <2>1, CallMoves DEF Adding
<1>7. CASE AddWithWait  BY <1>0, <1>7, AddWithWaitAreas
<1>8. CASE AddLock
  <2>1. /\ UNCHANGED <<ringVars, env_t, env_m>> /\ mpc = "addlock" /\ op' = op /\ tdone' = tdone
        /\ (tpc' = tpc \/ "done" \notin {tpc, tpc'}) /\ mpc' \in {"addwait", "add"}
    BY <1>8 DEF AddLock, Kick, WaitForRoom
  <2>2. QED  BY <2>1, CallMoves DEF Adding
<1>9. CASE AddWoken
  <2>1. /\ UNCHANGED <<ringVars, threadVars, env_t, env_m>> /\ mpc = "addwait" /\ op' = op
        /\ mpc' \in {"addwait", "add"}
    BY <1>9 DEF AddWoken, WaitForRoom
  <2>2. QED  BY <2>1, CallMoves DEF Adding
<1>10. CASE Break  BY <1>0, <1>10, BreakAreas
<1>11. CASE ScreenCall
  <2>1. PICK r \in Screens \ {screen} :
          Tell(Cmd("screen", r, 0, 0), Head0(Cmd("screen", r, 0, 0), {}))
    BY <1>11 DEF ScreenCall
  <2>2. r \in Regions
    BY RegionAssumption
  <2>3. Cmd("screen", r, 0, 0) \in Cmds /\ Cmd("screen", r, 0, 0).op = "screen"
    BY <2>2, ConstantTypes DEF Cmd
  <2>4. UNCHANGED ringVars /\ UNCHANGED threadVars /\ UNCHANGED <<env_t, env_m>> /\ mpc = "idle"
    BY <1>11 DEF ScreenCall, AddCall, Call
  <2>5. QED  BY <1>0, <2>1, <2>3, <2>4, DisplayAreas
<1>12. CASE InterlaceCall
  <2>1. Tell(Cmd("ilace", {}, 0, 0), Head0(Cmd("ilace", {}, 0, 0), {}))
    BY <1>12 DEF InterlaceCall
  <2>2. {} \in Regions
    BY DEF Regions
  <2>3. Cmd("ilace", {}, 0, 0) \in Cmds /\ Cmd("ilace", {}, 0, 0).op = "ilace"
    BY <2>2, ConstantTypes DEF Cmd
  <2>4. UNCHANGED ringVars /\ UNCHANGED threadVars /\ UNCHANGED <<env_t, env_m>> /\ mpc = "idle"
    BY <1>12 DEF InterlaceCall, AddCall, Call
  <2>5. QED  BY <1>0, <2>1, <2>3, <2>4, DisplayAreas
<1>13. CASE EcmdsCall
  <2>1. /\ UNCHANGED <<ringVars, threadVars, env_t>> /\ mpc = "idle" /\ mpc' = "ecmds" /\ op' = op
    BY <1>13 DEF EcmdsCall, AddCall, Call
  <2>2. QED  BY <2>1, CallMoves DEF Adding
<1>14. CASE SyncEcmds  BY <1>0, <1>14, SyncEcmdsAreas
<1>15. CASE Direct  BY <1>0, <1>15, DirectAreas
<1>16. CASE DmaCall
  <2>1. /\ UNCHANGED <<ringVars, threadVars, env_t, env_m>> /\ mpc = "idle" /\ mpc' \in {"sync", "dma"}
    BY <1>16 DEF DmaCall, AddCall, Call
  <2>2. \E c : \/ op' = [NoOp EXCEPT !.rest = <<c>>, !.ret = "vram"]
               \/ op' = [NoOp EXCEPT !.rest = <<c>>, !.pa = pos_added, !.ret = "publish"]
    BY <1>16 DEF DmaCall
  <2>3. op'.unh = <<>> /\ (op'.ret # "publish" \/ op'.pa = pos_added)
    BY <2>2 DEF NoOp
  <2>4. op.ret # "publish"
    BY <2>1 DEF RetInv, RingInv
  <2>5. QED  BY <1>0, <2>1, <2>3, <2>4, BareAreas
<1>17. CASE DmaAdd  BY <1>0, <1>17, DmaAddAreas
<1>18. CASE DmaPublish  BY <1>0, <1>18, DmaPublishAreas
<1>19. CASE VramCall \/ StopCall
  <2>1. /\ UNCHANGED <<ringVars, threadVars, env_t, env_m>> /\ mpc = "idle" /\ mpc' = "sync"
        /\ op' \in {[NoOp EXCEPT !.ret = "vram"], [NoOp EXCEPT !.ret = "stop"]}
    BY <1>19 DEF VramCall, StopCall, Call
  <2>2. op.ret # "publish" /\ op'.ret # "publish" /\ op'.unh = <<>>
    BY <2>1 DEF RetInv, RingInv, NoOp
  <2>3. QED  BY <1>0, <2>1, <2>2, BareAreas
<1>20. CASE Sync
  <2>1. /\ UNCHANGED <<ringVars, env_t, env_m>> /\ mpc = "sync" /\ op' = op /\ tdone' = tdone
        /\ (tpc' = tpc \/ "done" \notin {tpc, tpc'}) /\ mpc' \in {"synced", "fullwait"}
    BY <1>20 DEF Sync, Kick
  <2>2. QED  BY <2>1, CallMoves DEF Adding
<1>21. CASE FullWoken
  <2>1. /\ UNCHANGED <<ringVars, threadVars, env_t, env_m>> /\ mpc = "fullwait" /\ mpc' = "synced" /\ op' = op
    BY <1>21 DEF FullWoken
  <2>2. QED  BY <2>1, CallMoves DEF Adding
<1>22. CASE Synced
  <2>1. /\ UNCHANGED <<ringVars, threadVars, env_t, env_m>> /\ mpc = "synced" /\ mpc' \in {"scan", "vram", "stop"}
        /\ (op' = op \/ op' = [op EXCEPT !.reg = flip])
    BY <1>22 DEF Synced
  <2>2. op'.unh = op.unh /\ op'.pa = op.pa /\ op'.ret = op.ret
    BY <1>0, <2>1 DEF OpRecords
  <2>3. QED  BY <2>1, <2>2, CallMoves DEF Adding
<1>23. CASE Vram
  <2>1. /\ UNCHANGED <<ringVars, threadVars, env_t, env_m>> /\ mpc = "vram" /\ mpc' = "idle" /\ op' = NoOp
    BY <1>23 DEF Vram, Done
  <2>2. op.ret # "publish"
    BY <2>1 DEF RetInv, RingInv
  <2>3. QED  BY <1>0, <2>1, <2>2, NoOpHolds, BareAreas
<1>24. CASE ScanoutCall
  <2>1. /\ UNCHANGED <<ringVars, threadVars, env_t, env_m>> /\ mpc = "idle" /\ mpc' \in {"scan", "twait", "sync", "idle"}
    BY <1>24 DEF ScanoutCall, Call, ScanoutWait
  <2>2. op' = op \/ (\E r : op' = [op EXCEPT !.reg = r])
          \/ \E r, t : op' = [op EXCEPT !.reg = r, !.target = t]
    BY <1>24 DEF ScanoutCall, ScanoutWait
  <2>3. op'.unh = op.unh /\ op'.pa = op.pa /\ op'.ret = op.ret
    BY <1>0, <2>2 DEF OpRecords
  <2>4. QED  BY <2>1, <2>3, CallMoves DEF Adding
<1>25. CASE TryDelayedFlip
  <2>1. /\ UNCHANGED <<ringVars, threadVars, env_t, env_m>> /\ mpc = "idle" /\ mpc' = "scan"
        /\ op' = [op EXCEPT !.reg = flip, !.ret = "flip"]
    BY <1>25 DEF TryDelayedFlip, Call
  <2>2. op.ret # "publish" /\ op.unh = <<>>
    BY <2>1, NothingLeft DEF RetInv, RingInv, Adding
  <2>3. op'.unh = <<>> /\ op'.ret # "publish"
    BY <1>0, <2>1, <2>2 DEF OpRecords
  <2>4. QED  BY <1>0, <2>1, <2>2, <2>3, BareAreas
<1>26. CASE TargetWait
  <2>1. /\ UNCHANGED <<ringVars, threadVars, env_t, env_m>> /\ mpc = "twait" /\ mpc' \in {"targetwait", "scan"}
        /\ op' = op
    BY <1>26 DEF TargetWait
  <2>2. QED  BY <2>1, CallMoves DEF Adding
<1>27. CASE TargetWoken
  <2>1. /\ UNCHANGED <<ringVars, threadVars, env_t, env_m>> /\ mpc = "targetwait" /\ mpc' = "scan" /\ op' = op
    BY <1>27 DEF TargetWoken
  <2>2. QED  BY <2>1, CallMoves DEF Adding
<1>28. CASE Scan
  <2>1. UNCHANGED <<ringVars, threadVars, env_t, env_m>> /\ mpc = "scan"
    BY <1>28 DEF Scan
  <2>2. CASE op.ret \in {"idle", "flip"}
    <3>1. mpc' = "idle" /\ op' = NoOp /\ op.ret # "publish"
      BY <1>28, <2>2 DEF Scan, Done
    <3>2. QED  BY <1>0, <2>1, <3>1, NoOpHolds, BareAreas
  <2>3. CASE op.ret \notin {"idle", "flip"}
    <3>1. mpc' = op.ret /\ op' = [op EXCEPT !.reg = {}, !.target = 0]
      BY <1>28, <2>3 DEF Scan
    <3>2. mpc' \in {"publish", "vram", "stop"}
      BY <1>0, <2>3, <3>1 DEF OpRecords
    <3>3. op'.unh = op.unh /\ op'.pa = op.pa /\ op'.ret = op.ret
      BY <1>0, <3>1 DEF OpRecords
    <3>4. QED  BY <2>1, <3>2, <3>3, CallMoves DEF Adding
  <2>4. QED  BY <2>2, <2>3
<1>29. CASE SetExit \/ SignalExit
  <2>1. /\ UNCHANGED <<ringVars, env_t, env_m>> /\ op' = op /\ tdone' = tdone
        /\ mpc \in {"stop", "stopping"} /\ mpc' \in {"stopping", "join"}
        /\ (tpc' = tpc \/ "done" \notin {tpc, tpc'})
    BY <1>29 DEF SetExit, SignalExit
  <2>2. QED  BY <2>1, CallMoves DEF Adding
<1>30. CASE Join
  <2>1. /\ UNCHANGED <<ringVars, threadVars, env_t, env_m>> /\ mpc = "join" /\ mpc' = "off" /\ op' = NoOp
    BY <1>30 DEF Join
  <2>2. op.ret # "publish"
    BY <2>1 DEF RetInv, RingInv
  <2>3. QED  BY <1>0, <2>1, <2>2, NoOpHolds, BareAreas
<1>31. CASE OffSetEnv
  <2>1. /\ UNCHANGED <<ringVars, threadVars, env_t>> /\ mpc = "off" /\ mpc' = "off" /\ op' = op
    BY <1>31 DEF OffSetEnv
  <2>2. QED  BY <2>1, CallMoves DEF Adding
<1>32. CASE EnableCall
  <2>1. Emptied'
    BY <1>32 DEF EnableCall, Emptied
  <2>2. QED  BY <1>0, <2>1, EmptiedAreasAfter
<1>33. CASE ThreadLock \/ Top \/ Sleep \/ Unlock \/ Flush \/ SpuriousWake \/ UNCHANGED vars
  <2>1. /\ UNCHANGED <<ringVars, mainVars, env_t, env_m>> /\ tdone' = tdone
        /\ (tpc' = tpc \/ "done" \notin {tpc, tpc'})
    BY <1>33 DEF ThreadLock, Top, Sleep, Unlock, Flush, SpuriousWake, vars
  <2>2. QED  BY <2>1, ThreadAreas
<1>34. CASE Render  BY <1>0, <1>34, RenderAreas
<1>35. CASE Commit  BY <1>0, <1>35, CommitAreas
<1>36. QED
  BY <1>1, <1>2, <1>3, <1>4, <1>5, <1>6, <1>7, <1>8, <1>9, <1>10, <1>11, <1>12, <1>13, <1>14,
     <1>15, <1>16, <1>17, <1>18, <1>19, <1>20, <1>21, <1>22, <1>23, <1>24, <1>25, <1>26, <1>27,
     <1>28, <1>29, <1>30, <1>31, <1>32, <1>33, <1>34, <1>35
  DEF Next, MainCall, MainStep, Thread

(* What the areas of the window say of the words still to be carried out.  *)
LEMMA AreasAreRight == TypeOK /\ RingInv /\ EnvInv => DrawsInTheirArea
<1> SUFFICES ASSUME TypeOK, RingInv, EnvInv  PROVE DrawsInTheirArea
  OBVIOUS
<1> DEFINE x == Executed
           n == Written
           u == pos_used
           ws == InRing(ExecPos, WritePos)
<1>1. /\ u \in Positions /\ WritePos \in Positions /\ BufLen \in Nat /\ u \in Nat
      /\ x \in 0 .. n /\ n \in 0 .. BufLen /\ x \in Nat /\ x \in 0 .. BufLen
  <2>1. x \in 0 .. n /\ n \in 0 .. BufLen
    BY ExecutedIs
  <2>2. u \in Positions /\ WritePos \in Positions /\ BufLen \in Nat /\ u \in Nat
    BY RingTypes
  <2> HIDE DEF x, n, u
  <2>3. QED  BY <2>1, <2>2
<1>2. ExecPos = Plus(u, x)
  <2>1. CASE tpc = "done"
    BY <2>1 DEF ExecPos, Executed
  <2>2. CASE tpc # "done"
    <3>1. x = 0 /\ ExecPos = u
      BY <2>2 DEF ExecPos, Executed
    <3>2. Plus(u, 0) = u
      BY <1>1, PosModAssumption DEF Plus, Positions
    <3>3. QED  BY <3>1, <3>2
  <2>3. QED  BY <2>1, <2>2
<1>3. Diff(WritePos, ExecPos) = n - x
  <2>1. \A k \in 0 .. BufLen : k <= Diff(WritePos, u) => Diff(WritePos, Plus(u, k)) = Diff(WritePos, u) - k
    BY <1>1, DiffIs
  <2>2. Diff(WritePos, u) = n
    BY DEF Written
  <2> HIDE DEF x, n, u
  <2>3. x <= n
    BY <1>1
  <2>4. QED  BY <1>1, <1>2, <2>1, <2>2, <2>3
<1>4. /\ ws = [i \in 1 .. n - x |-> cells[(ExecPos + i - 1) % BufLen]]
      /\ DOMAIN ws = 1 .. n - x /\ \A i \in 1 .. n - x : ws[i] = cells[(ExecPos + i - 1) % BufLen]
  BY <1>3, Zenon DEF InRing
<1>5. \A i \in 1 .. n - x : ws[i] = Window[(x + i) - 1]
  <2> SUFFICES ASSUME NEW i \in 1 .. n - x  PROVE ws[i] = Window[(x + i) - 1]
    OBVIOUS
  <2> HIDE DEF x, n, u, ws
  <2> DEFINE d == i - 1
  <2>1. d \in Nat /\ x + d = (x + i) - 1 /\ x + d < BufLen /\ d < BufLen /\ x + d \in Index
    BY <1>1 DEF Index
  <2> HIDE DEF d
  <2>2. Place(Plus(u, x), d) = Place(u, x + d)
    BY <1>1, <2>1, PlaceShift DEF Index
  <2>3. (ExecPos + i - 1) % BufLen = Place(ExecPos, d)
    <3>1. ExecPos \in Int
      BY <1>1, <1>2, PositionArithmetic DEF Positions
    <3>2. ExecPos + i - 1 = ExecPos + d
      BY <3>1 DEF d
    <3>3. QED  BY <3>2 DEF Place
  <2>4. Window[x + d] = cells[Place(u, x + d)]
    BY <2>1 DEF Window, u
  <2>5. QED  BY <1>2, <1>4, <2>1, <2>2, <2>3, <2>4
<1> HIDE DEF u, ws
<1>6. PICK m \in Regions, r \in Regions : InAreas(m, r)
  BY AreasNow
<1>7. ASSUME NEW i \in DOMAIN ws, IsDraw(ws[i])
      PROVE  EnvAfter(env_t, SubSeq(ws, 1, i)) = ws[i].env
  <2> DEFINE d == (x + i) - 1
             vs == SubSeq(ws, 1, i)
  <2>1. Coherent(Window, x, n, env_t, m)
    BY <1>6 DEF InAreas
  <2> HIDE DEF x, n
  <2>2. i \in 1 .. n - x /\ i \in Nat
    BY <1>1, <1>4
  <2>3. d \in x .. n - 1 /\ d \in Int /\ x \in Int
    BY <1>1, <2>2
  <2>4. ws[i] = Window[d]
    BY <1>5, <2>2
  <2>5. Leaves(Window, x, d, env_t, ws[i].env)
    BY <1>7, <2>1, <2>3, <2>4 DEF Coherent
  <2>6. DOMAIN vs = 1 .. i /\ \A j \in 1 .. i : vs[j] = ws[j]
    <3>1. \A j \in 1 .. i : j \in DOMAIN ws
      BY <1>1, <1>4, <2>2
    <3>2. ws \in Seq(Cells) /\ i \in 1 .. Len(ws)
      <4>1. \A j \in 1 .. n - x : Window[(x + j) - 1] \in Cells
        <5>1. \A j \in 1 .. n - x : (x + j) - 1 \in Index
          BY <1>1 DEF Index
        <5>2. Window \in [Index -> Cells]
          BY RingTypes
        <5>3. QED  BY <5>1, <5>2
      <4>2. \A j \in 1 .. n - x : ws[j] \in Cells
        BY <1>5, <4>1
      <4> DEFINE k == n - x
      <4>3. k \in Nat /\ i \in 1 .. k
        BY <1>1, <2>2
      <4>4. /\ ws = [j \in 1 .. k |-> cells[(ExecPos + j - 1) % BufLen]]
            /\ \A j \in 1 .. k : cells[(ExecPos + j - 1) % BufLen] \in Cells
        <5>1. \A j \in 1 .. n - x : ws[j] = cells[(ExecPos + j - 1) % BufLen]
          BY <1>4
        <5>2. \A j \in 1 .. n - x : cells[(ExecPos + j - 1) % BufLen] \in Cells
          BY <4>2, <5>1, Zenon
        <5>3. QED  BY <1>4, <5>2, Zenon
      <4> HIDE DEF k
      <4>5. QED  BY <4>3, <4>4
    <3>3. QED  BY <2>2, <3>2
  <2> HIDE DEF d, vs
  <2>7. \A j \in x .. d - 1 : vs[j + (1 - x)] = Window[j]
    <3> SUFFICES ASSUME NEW j \in x .. d - 1  PROVE vs[j + (1 - x)] = Window[j]
      OBVIOUS
    <3> DEFINE y == j + (1 - x)
    <3>1. d = (x + i) - 1
      BY DEF d
    <3>2. y \in 1 .. i /\ y \in 1 .. n - x /\ (x + y) - 1 = j
      BY <1>1, <2>2, <2>3, <3>1
    <3> HIDE DEF y
    <3>3. vs[y] = Window[j]
      BY <1>5, <2>6, <3>2
    <3>4. QED  BY <3>3 DEF y
  <2>8. x + (1 - x) = 1 /\ d + (1 - x) = i /\ 1 - x \in Int
    BY <1>1, <2>2 DEF d
  <2>9. Leaves(vs, x + (1 - x), d + (1 - x), env_t, ws[i].env)
    BY <2>3, <2>5, <2>7, <2>8, LeavesShift, Zenon
  <2>10. Leaves(vs, 1, i, env_t, ws[i].env)
    BY <2>8, <2>9
  <2>11. Leaves(vs, i, i + 1, ws[i].env, ws[i].env)
    <3>1. ~IsEnv(vs[i])
      BY <1>7, <2>2, <2>6 DEF IsDraw, IsEnv
    <3>2. \A j \in i .. (i + 1) - 1 : j = i
      BY <2>2
    <3>3. QED  BY <3>1, <3>2 DEF Leaves
  <2>12. Leaves(vs, 1, i + 1, env_t, ws[i].env)
    <3>1. 1 \in Int /\ i \in Int /\ i + 1 \in Int /\ 1 <= i /\ i <= i + 1
      BY <2>2
    <3>2. QED  BY <2>10, <2>11, <3>1, LeavesJoin, ZenonT(40)
  <2>13. QED  BY <2>2, <2>6, <2>12, EnvAfterIs DEF vs
<1>8. QED  BY <1>7 DEF DrawsInTheirArea, ws

(* The drawing area the gpu thread has at each drawing is the one the      *)
(* program had set when it issued it (gpu_async_do_cmd_list,               *)
(* gpu_async_sync_ecmds, gpu_async_thread and their two copies of ex_regs).*)
THEOREM DrawingsAreTrue == Spec /\ WideUploads => []DrawsInTheirArea
<1>1. Init => EnvInv
  <2> SUFFICES ASSUME Init  PROVE EnvInv
    OBVIOUS
  <2>1. Emptied
    BY DEF Init, Emptied
  <2>2. QED  BY <2>1, TypeInit, EmptiedInAreas DEF TypeInv
<1>2. TypeInv /\ TypeInv' /\ RingInv /\ EnvInv /\ [Next]_vars => EnvInv'
  BY EnvNext
<1>3. TypeInv /\ RingInv /\ EnvInv => DrawsInTheirArea
  BY AreasAreRight DEF TypeInv
<1>4. QED  BY <1>1, <1>2, <1>3, RingInvHolds, PTL DEF Spec

-----------------------------------------------------------------------------
(* The order of effects.  First, what a sequence of words shows.           *)

(* Induction over the numbers, for a set that a lemma then defines.        *)
LEMMA Induction ==
  ASSUME NEW S, S \subseteq Nat, 0 \in S, \A n \in S : n + 1 \in S
  PROVE  S = Nat
<1> DEFINE T == Nat \ S
           R == {p \in Nat \X Nat : p[1] < p[2]}
<1>1. ASSUME T # {}
      PROVE  FALSE
  <2>1. IsWellFoundedOn(R, Nat)
    BY NatLessThanWellFounded DEF OpToRel
  <2>2. T \subseteq Nat
    OBVIOUS
  <2>3. PICK m \in T : \A y \in T : ~ (<<y, m>> \in R)
    <3> HIDE DEF R, T
    <3>1. QED  BY <1>1, <2>1, <2>2, WFMin
  <2>4. m \in Nat /\ m \notin S /\ m # 0
    OBVIOUS
  <2>5. m - 1 \in Nat /\ m = (m - 1) + 1 /\ <<m - 1, m>> \in R
    BY <2>4
  <2>6. m - 1 \in S
    BY <2>3, <2>5
  <2>7. QED  BY <2>4, <2>5, <2>6
<1>2. QED  BY <1>1

(* f[n] is what the first n of the words ws show, for n up to m.           *)
ShowsUpTo(f, m, ws) == f = [n \in 0 .. m |-> IF n = 0 THEN <<>> ELSE ThenShows(f[n - 1], ws[n])]

(* The same, number by number.                                             *)
LEMMA ShowsUpToIs ==
  ASSUME NEW m \in Nat, NEW f, NEW ws, ShowsUpTo(f, m, ws)
  PROVE  f[0] = <<>> /\ \A n \in 0 .. m - 1 : f[n + 1] = ThenShows(f[n], ws[n + 1])
<1>1. 0 \in 0 .. m /\ \A n \in 0 .. m - 1 : n + 1 \in 0 .. m /\ n + 1 # 0 /\ (n + 1) - 1 = n
  OBVIOUS
<1>2. \A n \in 0 .. m : f[n] = IF n = 0 THEN <<>> ELSE ThenShows(f[n - 1], ws[n])
  BY DEF ShowsUpTo
<1>3. f[0] = <<>>
  BY <1>1, <1>2
<1>4. ASSUME NEW n \in 0 .. m - 1  PROVE f[n + 1] = ThenShows(f[n], ws[n + 1])
  <2> DEFINE k == n + 1
  <2>1. k \in 0 .. m /\ k # 0 /\ k - 1 = n
    BY <1>1
  <2> HIDE DEF k
  <2>2. f[k] = ThenShows(f[n], ws[k])
    BY <1>2, <2>1
  <2>3. QED  BY <2>2 DEF k
<1>5. QED  BY <1>3, <1>4

(* The recursion over the words defines a function.                        *)
LEMMA ShowsUpToExists ==
  ASSUME NEW m \in Nat, NEW ws
  PROVE  \E f : ShowsUpTo(f, m, ws)
<1> DEFINE S == {k \in Nat : \E f : ShowsUpTo(f, k, ws)}
<1>1. S \subseteq Nat
  OBVIOUS
<1>2. 0 \in S
  <2> DEFINE g == [n \in 0 .. 0 |-> <<>>]
  <2>1. g = [n \in 0 .. 0 |-> IF n = 0 THEN <<>> ELSE ThenShows(g[n - 1], ws[n])]
    <3>1. \A n \in 0 .. 0 : n = 0
      OBVIOUS
    <3>2. QED  BY <3>1
  <2> HIDE DEF g
  <2>2. ShowsUpTo(g, 0, ws)
    BY <2>1 DEF ShowsUpTo
  <2>3. QED  BY <2>2
<1>3. ASSUME NEW k \in S
      PROVE  k + 1 \in S
  <2>1. PICK f : ShowsUpTo(f, k, ws)
    OBVIOUS
  <2>2. k \in Nat
    OBVIOUS
  <2> DEFINE g == [n \in 0 .. k + 1 |-> IF n = k + 1 THEN ThenShows(f[k], ws[k + 1]) ELSE f[n]]
  <2>3. ASSUME NEW n \in 0 .. k + 1
        PROVE  g[n] = IF n = 0 THEN <<>> ELSE ThenShows(g[n - 1], ws[n])
    <3>1. CASE n = 0
      <4>1. n # k + 1 /\ f[0] = <<>>
        BY <2>1, <2>2, <3>1, ShowsUpToIs
      <4>2. QED  BY <3>1, <4>1
    <3>2. CASE n # 0
      <4>1. n - 1 \in 0 .. k + 1 /\ n - 1 # k + 1
        BY <2>2, <3>2
      <4>2. g[n - 1] = f[n - 1]
        BY <4>1
      <4>3. CASE n = k + 1
        <5>1. n - 1 = k
          BY <2>2, <4>3
        <5>2. QED  BY <3>2, <4>2, <4>3, <5>1
      <4>4. CASE n # k + 1
        <5>1. n \in 0 .. k
          BY <2>2, <4>4
        <5>2. f[n] = ThenShows(f[n - 1], ws[n])
          BY <2>1, <3>2, <5>1 DEF ShowsUpTo
        <5>3. QED  BY <3>2, <4>2, <4>4, <5>2
      <4>5. QED  BY <4>3, <4>4
    <3>3. QED  BY <3>1, <3>2
  <2>4. g = [n \in 0 .. k + 1 |-> g[n]]
    OBVIOUS
  <2> HIDE DEF g
  <2>5. ShowsUpTo(g, k + 1, ws)
    BY <2>3, <2>4 DEF ShowsUpTo
  <2>6. QED  BY <2>2, <2>5
<1> HIDE DEF S
<1>4. S = Nat
  BY <1>1, <1>2, <1>3, Induction
<1>5. QED  BY <1>4 DEF S

(* Shown is the last of its values.                                        *)
LEMMA ShownIs ==
  ASSUME NEW ws \in Seq(Cells)
  PROVE  \E f : ShowsUpTo(f, Len(ws), ws) /\ Shown(ws) = f[Len(ws)]
<1> DEFINE Rec(f) == [n \in 0 .. Len(ws) |-> IF n = 0 THEN <<>> ELSE ThenShows(f[n - 1], ws[n])]
           h == CHOOSE f : f = Rec(f)
<1>1. Shown(ws) = h[Len(ws)]
  BY Zenon DEF Shown
<1>2. Len(ws) \in Nat
  OBVIOUS
<1>3. PICK f : ShowsUpTo(f, Len(ws), ws)
  BY <1>2, ShowsUpToExists
<1>4. \A g : ShowsUpTo(g, Len(ws), ws) <=> g = Rec(g)
  BY DEF ShowsUpTo
<1>5. h = Rec(h)
  <2> HIDE DEF Rec
  <2>1. QED  BY <1>3, <1>4
<1>6. QED  BY <1>1, <1>4, <1>5

(* What more words show comes behind what the words before them show.      *)
LEMMA ThenShowsType ==
  ASSUME NEW es \in Seq(Cmds), NEW w \in Cells
  PROVE  /\ ThenShows(es, w) \in Seq(Cmds)
         /\ \A fs \in Seq(Cmds) : fs \o ThenShows(es, w) = ThenShows(fs \o es, w)
<1>1. w.c \in Cmds
  BY CmdFields
<1>2. ASSUME NEW fs \in Seq(Cmds)
      PROVE  fs \o Append(es, w.c) = Append(fs \o es, w.c)
  <2>1. <<w.c>> \in Seq(Cmds) /\ fs \o es \in Seq(Cmds)
    BY <1>1
  <2>2. Append(es, w.c) = es \o <<w.c>> /\ Append(fs \o es, w.c) = (fs \o es) \o <<w.c>>
    BY <1>1, <2>1, AppendIsConcat
  <2>3. QED  BY <2>1, <2>2, ConcatAssociative
<1>3. Append(es, w.c) \in Seq(Cmds)
  BY <1>1
<1>4. QED  BY <1>2, <1>3 DEF ThenShows

(* Sequences of words that agree show the same.                            *)
LEMMA ShowsUpToType ==
  ASSUME NEW ws \in Seq(Cells), NEW m \in 0 .. Len(ws), NEW f, ShowsUpTo(f, m, ws)
  PROVE  \A n \in 0 .. m : f[n] \in Seq(Cmds)
<1> DEFINE S == {n \in Nat : n <= m => f[n] \in Seq(Cmds)}
<1>1. m \in Nat /\ f[0] = <<>> /\ \A n \in 0 .. m - 1 : f[n + 1] = ThenShows(f[n], ws[n + 1])
  <2>1. Len(ws) \in Nat
    OBVIOUS
  <2>2. m \in Nat
    BY <2>1
  <2>3. QED  BY <2>2, ShowsUpToIs
<1>2. 0 \in S /\ S \subseteq Nat
  <2>1. <<>> \in Seq(Cmds)
    OBVIOUS
  <2>2. QED  BY <1>1, <2>1
<1>3. ASSUME NEW n \in S
      PROVE  n + 1 \in S
  <2>1. n \in Nat /\ (n <= m => f[n] \in Seq(Cmds))
    OBVIOUS
  <2>2. ASSUME n + 1 <= m  PROVE f[n + 1] \in Seq(Cmds)
    <3>1. n \in 0 .. m - 1 /\ n + 1 \in 1 .. Len(ws) /\ n <= m
      BY <1>1, <2>1, <2>2
    <3>2. ws[n + 1] \in Cells
      BY <3>1, ElementOfSeq
    <3>3. QED  BY <1>1, <2>1, <3>1, <3>2, ThenShowsType
  <2>3. QED  BY <2>1, <2>2
<1> HIDE DEF S
<1>4. S = Nat
  BY <1>2, <1>3, Induction
<1>5. QED  BY <1>4 DEF S

(* What words show are commands; no words show none.                       *)
LEMMA ShownType ==
  /\ \A ws \in Seq(Cells) : Shown(ws) \in Seq(Cmds)
  /\ Shown(<<>>) = <<>>
<1>1. ASSUME NEW ws \in Seq(Cells)  PROVE Shown(ws) \in Seq(Cmds) /\ (Len(ws) = 0 => Shown(ws) = <<>>)
  <2>1. PICK f : ShowsUpTo(f, Len(ws), ws) /\ Shown(ws) = f[Len(ws)]
    BY ShownIs
  <2>2. Len(ws) \in Nat /\ Len(ws) \in 0 .. Len(ws)
    OBVIOUS
  <2>3. QED  BY <2>1, <2>2, ShowsUpToIs, ShowsUpToType
<1>2. <<>> \in Seq(Cells) /\ Len(<<>>) = 0
  BY EmptySeq
<1>3. QED  BY <1>1, <1>2

(* The words of two sequences, the first before the second, show what the  *)
(* first shows, then what the second shows.                                *)
LEMMA ShownConcat ==
  ASSUME NEW a \in Seq(Cells), NEW b \in Seq(Cells)
  PROVE  Shown(a \o b) = Shown(a) \o Shown(b)
<1> DEFINE ab == a \o b
           i == Len(a)
           j == Len(b)
<1>1. /\ i \in Nat /\ j \in Nat /\ ab \in Seq(Cells) /\ Len(ab) = i + j
      /\ \A n \in 1 .. i : ab[n] = a[n]
      /\ \A n \in 1 .. j : ab[i + n] = b[n]
  <2>1. ab \in Seq(Cells) /\ Len(ab) = i + j /\ \A n \in 1 .. i + j : ab[n] = IF n <= i THEN a[n] ELSE b[n - i]
    BY ConcatProperties
  <2>2. i \in Nat /\ j \in Nat
    OBVIOUS
  <2> HIDE DEF ab, i, j
  <2>3. \A n \in 1 .. j : i + n \in 1 .. i + j /\ ~(i + n <= i) /\ (i + n) - i = n
    BY <2>2
  <2>4. \A n \in 1 .. i : n \in 1 .. i + j /\ n <= i
    BY <2>2
  <2>5. QED  BY <2>1, <2>2, <2>3, <2>4
<1>2. PICK f : ShowsUpTo(f, i, a) /\ Shown(a) = f[i]
  BY ShownIs
<1>3. PICK g : ShowsUpTo(g, j, b) /\ Shown(b) = g[j]
  BY ShownIs
<1>4. PICK h : ShowsUpTo(h, Len(ab), ab) /\ Shown(ab) = h[Len(ab)]
  BY <1>1, ShownIs
<1>5. /\ f[0] = <<>> /\ \A n \in 0 .. i - 1 : f[n + 1] = ThenShows(f[n], a[n + 1])
      /\ g[0] = <<>> /\ \A n \in 0 .. j - 1 : g[n + 1] = ThenShows(g[n], b[n + 1])
      /\ h[0] = <<>> /\ \A n \in 0 .. i + j - 1 : h[n + 1] = ThenShows(h[n], ab[n + 1])
  <2> DEFINE m == i + j
  <2>1. m = i + j /\ m \in Nat /\ i \in Nat /\ j \in Nat /\ ShowsUpTo(h, m, ab) /\ ShowsUpTo(f, i, a) /\ ShowsUpTo(g, j, b)
    BY <1>1, <1>2, <1>3, <1>4
  <2> HIDE DEF i, j, m, ab
  <2>2. f[0] = <<>> /\ \A n \in 0 .. i - 1 : f[n + 1] = ThenShows(f[n], a[n + 1])
    BY <2>1, ShowsUpToIs
  <2>3. g[0] = <<>> /\ \A n \in 0 .. j - 1 : g[n + 1] = ThenShows(g[n], b[n + 1])
    BY <2>1, ShowsUpToIs
  <2>4. h[0] = <<>> /\ \A n \in 0 .. m - 1 : h[n + 1] = ThenShows(h[n], ab[n + 1])
    BY <2>1, ShowsUpToIs
  <2>5. QED  BY <2>1, <2>2, <2>3, <2>4
<1>6. /\ Shown(a) \in Seq(Cmds) /\ \A n \in 0 .. j : g[n] \in Seq(Cmds)
      /\ \A n \in 1 .. j : b[n] \in Cells
  <2>1. j \in 0 .. Len(b)
    BY <1>1
  <2>2. \A n \in 0 .. j : g[n] \in Seq(Cmds)
    BY <1>3, <2>1, ShowsUpToType
  <2>3. \A n \in 1 .. j : b[n] \in Cells
    BY ElementOfSeq
  <2>4. Shown(a) \in Seq(Cmds)
    BY ShownType, Zenon
  <2>5. QED  BY <2>2, <2>3, <2>4, Zenon
<1>7. Shown(ab) = h[i + j]
  BY <1>1, <1>4
<1> HIDE DEF ab, i, j
<1> DEFINE S == {n \in Nat : n <= i => h[n] = f[n]}
           T == {n \in Nat : n <= j => h[i + n] = Shown(a) \o g[n]}
<1>8. h[i] = f[i]
  <2>1. 0 \in S /\ S \subseteq Nat
    BY <1>5
  <2>2. ASSUME NEW n \in S
        PROVE  n + 1 \in S
    <3>1. n \in Nat /\ (n <= i => h[n] = f[n])
      OBVIOUS
    <3>2. ASSUME n + 1 <= i  PROVE h[n + 1] = f[n + 1]
      <4>1. n <= i /\ n \in 0 .. i - 1 /\ n \in 0 .. i + j - 1 /\ n + 1 \in 1 .. i
        BY <1>1, <3>1, <3>2
      <4>2. QED  BY <1>1, <1>5, <3>1, <4>1
    <3>3. QED  BY <3>1, <3>2
  <2> HIDE DEF S
  <2>3. S = Nat
    BY <2>1, <2>2, Induction
  <2>4. QED  BY <1>1, <2>3 DEF S
<1>9. h[i + j] = Shown(a) \o g[j]
  <2>1. 0 \in T /\ T \subseteq Nat
    <3>1. i + 0 = i
      BY <1>1
    <3>2. Shown(a) \o <<>> = Shown(a)
      BY <1>6, ConcatEmptySeq
    <3>3. QED  BY <1>2, <1>5, <1>8, <3>1, <3>2
  <2>2. ASSUME NEW n \in T
        PROVE  n + 1 \in T
    <3>1. n \in Nat /\ (n <= j => h[i + n] = Shown(a) \o g[n])
      OBVIOUS
    <3>2. ASSUME n + 1 <= j  PROVE h[i + (n + 1)] = Shown(a) \o g[n + 1]
      <4>1. /\ n <= j /\ n \in 0 .. j - 1 /\ n \in 0 .. j /\ n + 1 \in 1 .. j
            /\ i + n \in 0 .. i + j - 1 /\ (i + n) + 1 = i + (n + 1)
        BY <1>1, <3>1, <3>2
      <4>2. h[(i + n) + 1] = ThenShows(h[i + n], ab[(i + n) + 1])
        BY <1>5, <4>1
      <4>3. h[i + (n + 1)] = ThenShows(h[i + n], b[n + 1])
        BY <1>1, <4>1, <4>2
      <4>4. g[n + 1] = ThenShows(g[n], b[n + 1])
        BY <1>5, <4>1
      <4>5. g[n] \in Seq(Cmds) /\ b[n + 1] \in Cells
        BY <1>6, <4>1
      <4>6. Shown(a) \o ThenShows(g[n], b[n + 1]) = ThenShows(Shown(a) \o g[n], b[n + 1])
        BY <1>6, <4>5, ThenShowsType
      <4>7. QED  BY <3>1, <4>1, <4>3, <4>4, <4>6
    <3>3. QED  BY <3>1, <3>2
  <2> HIDE DEF T
  <2>3. T = Nat
    BY <2>1, <2>2, Induction
  <2>4. j \in T /\ j <= j
    BY <1>1, <2>3
  <2>5. QED  BY <2>4 DEF T
<1>10. QED  BY <1>3, <1>7, <1>9 DEF ab

(* A word that shows is the head of a command that does.                   *)
Visible(w) == w.k = 0 /\ Shows(w.c)

(* Words after the first d that do not show change nothing.                *)
LEMMA ShowsNoMore ==
  ASSUME NEW ws \in Seq(Cells), NEW d \in 0 .. Len(ws), NEW f, ShowsUpTo(f, Len(ws), ws),
         \A n \in d + 1 .. Len(ws) : ~Visible(ws[n])
  PROVE  f[Len(ws)] = f[d]
<1> DEFINE m == Len(ws)
           S == {n \in Nat : n <= m - d => f[d + n] = f[d]}
<1>1. m \in Nat /\ d \in Nat /\ d <= m /\ \A n \in 0 .. m - 1 : f[n + 1] = ThenShows(f[n], ws[n + 1])
  <2>1. m \in Nat
    OBVIOUS
  <2>2. QED  BY <2>1, ShowsUpToIs
<1>2. \A n \in d + 1 .. m : ~Visible(ws[n])
  OBVIOUS
<1> HIDE DEF m
<1>3. 0 \in S /\ S \subseteq Nat
  <2>1. d + 0 = d
    BY <1>1
  <2>2. QED  BY <2>1
<1>4. ASSUME NEW n \in S
      PROVE  n + 1 \in S
  <2>1. n \in Nat /\ (n <= m - d => f[d + n] = f[d])
    OBVIOUS
  <2>2. ASSUME n + 1 <= m - d  PROVE f[d + (n + 1)] = f[d]
    <3>1. /\ n <= m - d /\ d + n \in 0 .. m - 1 /\ d + (n + 1) \in d + 1 .. m
          /\ (d + n) + 1 = d + (n + 1)
      BY <1>1, <2>1, <2>2
    <3>2. f[(d + n) + 1] = ThenShows(f[d + n], ws[(d + n) + 1])
      BY <1>1, <3>1
    <3>3. ~Visible(ws[d + (n + 1)])
      BY <1>2, <3>1
    <3>4. QED  BY <2>1, <3>1, <3>2, <3>3 DEF ThenShows, Visible
  <2>3. QED  BY <2>1, <2>2
<1> HIDE DEF S
<1>5. S = Nat
  BY <1>3, <1>4, Induction
<1>6. m - d \in Nat /\ m - d <= m - d /\ d + (m - d) = m
  BY <1>1
<1>7. f[m] = f[d]
  BY <1>5, <1>6 DEF S
<1>8. QED  BY <1>7 DEF m

(* So words that do not show show nothing, and words of which only the     *)
(* first may show show that one.                                           *)
LEMMA ShownNone ==
  ASSUME NEW ws \in Seq(Cells), \A n \in 1 .. Len(ws) : ~Visible(ws[n])
  PROVE  Shown(ws) = <<>>
<1>1. PICK f : ShowsUpTo(f, Len(ws), ws) /\ Shown(ws) = f[Len(ws)]
  BY ShownIs
<1>2. Len(ws) \in Nat /\ 0 \in 0 .. Len(ws) /\ 0 + 1 = 1
  OBVIOUS
<1>3. f[Len(ws)] = f[0] /\ f[0] = <<>>
  BY <1>1, <1>2, ShowsNoMore, ShowsUpToIs
<1>4. QED  BY <1>1, <1>3

(* What a command shows.                                                   *)
Effect(c) == IF Shows(c) THEN <<c>> ELSE <<>>

(* Of words of which none but the first may show, the first one's effect.  *)
LEMMA ShownFirst ==
  ASSUME NEW ws \in Seq(Cells), Len(ws) > 0, ws[1].k = 0, \A n \in 2 .. Len(ws) : ~Visible(ws[n])
  PROVE  Shown(ws) = Effect(ws[1].c)
<1>1. PICK f : ShowsUpTo(f, Len(ws), ws) /\ Shown(ws) = f[Len(ws)]
  BY ShownIs
<1>2. Len(ws) \in Nat /\ 1 \in 0 .. Len(ws) /\ 1 + 1 = 2 /\ 0 \in 0 .. Len(ws) - 1 /\ 0 + 1 = 1
  OBVIOUS
<1>3. f[Len(ws)] = f[1]
  BY <1>1, <1>2, ShowsNoMore
<1>4. f[1] = ThenShows(<<>>, ws[1])
  <2>1. f[0] = <<>> /\ f[0 + 1] = ThenShows(f[0], ws[0 + 1])
    BY <1>1, <1>2, ShowsUpToIs
  <2>2. QED  BY <1>2, <2>1
<1>5. Append(<<>>, ws[1].c) = <<ws[1].c>>
  OBVIOUS
<1>6. QED  BY <1>1, <1>3, <1>4, <1>5 DEF ThenShows, Effect

(* What the words a command begins with show.                              *)
LEMMA ShownHead ==
  ASSUME NEW c \in Cmds, NEW g \in Regions
  PROVE  Shown(Head0(c, g)) = Effect(c)
<1> DEFINE ws == Head0(c, g)
<1>1. ws \in Seq(Cells) /\ Len(ws) = Len0(c) /\ Len0(c) \in Nat /\ Len0(c) > 0
  <2>1. c.op \in Ops
    BY CmdFields
  <2>2. Len0(c) > 0
    BY <2>1 DEF Len0, Ops
  <2>3. QED  BY <2>2, HeadType
<1>2. \A i \in 1 .. Len0(c) : ws[i] = Cell(c, g, 0 + i - 1)
  BY DEF Head0, Words
<1> HIDE DEF ws
<1>3. 1 \in 1 .. Len0(c) /\ 0 + 1 - 1 = 0
  BY <1>1
<1>4. ws[1].k = 0 /\ ws[1].c = c
  <2>1. ws[1] = Cell(c, g, 0)
    BY <1>2, <1>3
  <2>2. QED  BY <2>1 DEF Cell
<1>5. ASSUME NEW n \in 2 .. Len(ws)  PROVE ~Visible(ws[n])
  <2>1. n \in 1 .. Len0(c) /\ 0 + n - 1 # 0
    BY <1>1
  <2>2. ws[n] = Cell(c, g, 0 + n - 1)
    BY <1>2, <2>1
  <2>3. ws[n].k # 0
    BY <2>1, <2>2 DEF Cell
  <2>4. QED  BY <2>3 DEF Visible
<1>6. Shown(ws) = Effect(c)
  BY <1>1, <1>4, <1>5, ShownFirst
<1>7. QED  BY <1>6 DEF ws

(* The rest of a call: its first command, then the others.                 *)
LEMMA HeadsType ==
  /\ \A cs \in Seq(Cmds) : Heads(cs) \in Seq(Cells) /\ Shown(Heads(cs)) \in Seq(Cmds)
  /\ Shown(Heads(<<>>)) = <<>>
<1>1. ASSUME NEW cs \in Seq(Cmds)  PROVE Heads(cs) \in Seq(Cells) /\ Len(Heads(cs)) = Len(cs)
  <2>1. \A i \in 1 .. Len(cs) : Cell(cs[i], {}, 0) \in Cells
    <3>1. \A i \in 1 .. Len(cs) : cs[i] \in Cmds
      BY ElementOfSeq
    <3>2. {} \in Regions /\ 0 \in Nat
      BY DEF Regions
    <3>3. QED  BY <3>1, <3>2 DEF Cell, Cells
  <2>2. DOMAIN cs = 1 .. Len(cs) /\ Len(cs) \in Nat
    OBVIOUS
  <2>3. QED  BY <2>1, <2>2 DEF Heads
<1>2. ASSUME NEW cs \in Seq(Cmds)  PROVE Shown(Heads(cs)) \in Seq(Cmds)
  BY <1>1, ShownType
<1>3. Shown(Heads(<<>>)) = <<>>
  <2>1. <<>> \in Seq(Cmds) /\ Len(<<>>) = 0
    BY EmptySeq
  <2>2. Heads(<<>>) \in Seq(Cells) /\ Len(Heads(<<>>)) = 0
    BY <1>1, <2>1
  <2>3. \A n \in 1 .. Len(Heads(<<>>)) : ~Visible(Heads(<<>>)[n])
    BY <2>2
  <2>4. QED  BY <2>2, <2>3, ShownNone
<1>4. QED  BY <1>1, <1>2, <1>3

(* The first command of a list, then the others.                           *)
LEMMA HeadsSplit ==
  ASSUME NEW cs \in Seq(Cmds), cs # <<>>
  PROVE  Shown(Heads(cs)) = Effect(Head(cs)) \o Shown(Heads(Tail(cs)))
<1> DEFINE w == Cell(cs[1], {}, 0)
           one == <<w>>
           tail == Heads(Tail(cs))
<1>1. /\ Len(cs) \in Nat \ {0} /\ Head(cs) = cs[1] /\ cs[1] \in Cmds
      /\ Tail(cs) \in Seq(Cmds) /\ Len(Tail(cs)) = Len(cs) - 1
      /\ \A i \in 1 .. Len(cs) - 1 : Tail(cs)[i] = cs[i + 1]
  <2>1. Len(cs) \in Nat \ {0}
    BY EmptySeq
  <2>2. 1 \in 1 .. Len(cs)
    BY <2>1
  <2>3. cs[1] \in Cmds
    BY <2>2, ElementOfSeq
  <2>4. Head(cs) = cs[1]
    OBVIOUS
  <2>5. /\ Tail(cs) \in Seq(Cmds) /\ Len(Tail(cs)) = Len(cs) - 1
        /\ \A i \in 1 .. Len(Tail(cs)) : Tail(cs)[i] = cs[i + 1]
    BY HeadTailProperties
  <2>6. QED  BY <2>1, <2>3, <2>4, <2>5
<1>2. w \in Cells /\ w.c = cs[1] /\ w.k = 0
  <2>1. {} \in Regions /\ 0 \in Nat
    BY DEF Regions
  <2>2. QED  BY <1>1, <2>1 DEF Cell, Cells
<1>3. one \in Seq(Cells) /\ Len(one) = 1 /\ one[1] = w
  BY <1>2
<1>4. /\ tail \in Seq(Cells) /\ Len(tail) = Len(cs) - 1
      /\ \A i \in 1 .. Len(cs) - 1 : tail[i] = Cell(cs[i + 1], {}, 0)
  <2> DEFINE t == Tail(cs)
             m == Len(cs) - 1
  <2>1. t \in Seq(Cmds) /\ Len(t) = m /\ m \in Nat /\ DOMAIN t = 1 .. m /\ \A i \in 1 .. m : t[i] = cs[i + 1]
    BY <1>1
  <2> HIDE DEF t, m
  <2>2. Heads(t) \in Seq(Cells)
    BY <2>1, HeadsType
  <2>3. Len(Heads(t)) = m /\ \A i \in 1 .. m : Heads(t)[i] = Cell(cs[i + 1], {}, 0)
    BY <2>1 DEF Heads
  <2>4. QED  BY <2>2, <2>3 DEF t, m
<1>5. Heads(cs) \in Seq(Cells) /\ Len(Heads(cs)) = Len(cs) /\ \A i \in 1 .. Len(cs) : Heads(cs)[i] = Cell(cs[i], {}, 0)
  <2>1. DOMAIN cs = 1 .. Len(cs) /\ Len(cs) \in Nat
    OBVIOUS
  <2>2. Len(Heads(cs)) = Len(cs) /\ \A i \in 1 .. Len(cs) : Heads(cs)[i] = Cell(cs[i], {}, 0)
    BY <2>1 DEF Heads
  <2>3. Heads(cs) \in Seq(Cells)
    BY HeadsType
  <2>4. QED  BY <2>2, <2>3
<1> HIDE DEF one, tail
<1>6. Heads(cs) = one \o tail
  <2>1. /\ one \o tail \in Seq(Cells) /\ Len(one \o tail) = 1 + (Len(cs) - 1)
        /\ \A i \in 1 .. 1 + (Len(cs) - 1) : (one \o tail)[i] = IF i <= 1 THEN one[i] ELSE tail[i - 1]
    <3>1. /\ one \o tail \in Seq(Cells) /\ Len(one \o tail) = Len(one) + Len(tail)
          /\ \A i \in 1 .. Len(one) + Len(tail) :
               (one \o tail)[i] = IF i <= Len(one) THEN one[i] ELSE tail[i - Len(one)]
      BY <1>3, <1>4, ConcatProperties
    <3>2. Len(one) = 1 /\ Len(tail) = Len(cs) - 1
      BY <1>3, <1>4
    <3>3. QED  BY <3>1, <3>2, Zenon
  <2>2. ASSUME NEW i \in 1 .. Len(cs)  PROVE Heads(cs)[i] = (one \o tail)[i]
    <3>1. CASE i = 1
      BY <1>1, <1>3, <1>5, <2>1, <3>1
    <3>2. CASE i # 1
      <4>1. i - 1 \in 1 .. Len(cs) - 1 /\ (i - 1) + 1 = i /\ ~(i <= 1)
        BY <1>1, <3>2
      <4>2. tail[i - 1] = Cell(cs[i], {}, 0)
        BY <1>4, <4>1
      <4>3. i \in 1 .. 1 + (Len(cs) - 1)
        BY <1>1
      <4>4. QED  BY <1>5, <2>1, <4>1, <4>2, <4>3
    <3>3. QED  BY <3>1, <3>2
  <2>3. Len(cs) = 1 + (Len(cs) - 1)
    BY <1>1
  <2>4. QED  BY <1>5, <2>1, <2>2, <2>3, SeqEqual
<1>7. Shown(one) = Effect(cs[1])
  <2>1. \A n \in 2 .. Len(one) : ~Visible(one[n])
    BY <1>3
  <2>2. one \in Seq(Cells) /\ Len(one) > 0 /\ one[1].k = 0 /\ one[1].c = cs[1]
    BY <1>2, <1>3
  <2> HIDE DEF w
  <2>3. QED  BY <2>1, <2>2, ShownFirst
<1>8. Shown(one \o tail) = Shown(one) \o Shown(tail)
  BY <1>3, <1>4, ShownConcat
<1>9. QED  BY <1>1, <1>6, <1>7, <1>8 DEF tail

-----------------------------------------------------------------------------
(* The words of a window w from word a on, up to word b.                   *)
WordsFrom(w, a, b) == [i \in 1 .. b - a |-> w[(a + i) - 1]]

(* They are words of the ring.                                             *)
LEMMA WordsFromType ==
  ASSUME NEW w \in [Index -> Cells], NEW b \in 0 .. BufLen, NEW a \in 0 .. b
  PROVE  /\ WordsFrom(w, a, b) \in Seq(Cells) /\ Len(WordsFrom(w, a, b)) = b - a
         /\ \A i \in 1 .. b - a : WordsFrom(w, a, b)[i] = w[(a + i) - 1]
<1> DEFINE m == b - a
<1>1. BufLen \in Nat
  BY BufLenAssumption
<1>2. m \in Nat /\ \A i \in 1 .. m : (a + i) - 1 \in Index
  BY <1>1 DEF Index
<1>3. \A i \in 1 .. m : w[(a + i) - 1] \in Cells
  BY <1>2
<1>4. WordsFrom(w, a, b) = [i \in 1 .. m |-> w[(a + i) - 1]]
  BY DEF WordsFrom
<1> HIDE DEF m
<1>5. /\ WordsFrom(w, a, b) \in Seq(Cells) /\ Len(WordsFrom(w, a, b)) = m
      /\ \A i \in 1 .. m : WordsFrom(w, a, b)[i] = w[(a + i) - 1]
  BY <1>2, <1>3, <1>4
<1>6. QED  BY <1>5 DEF m

(* The same words elsewhere.                                               *)
LEMMA WordsFromShift ==
  ASSUME NEW w \in [Index -> Cells], NEW v \in [Index -> Cells], NEW b \in 0 .. BufLen, NEW a \in 0 .. b,
         NEW y \in 0 .. BufLen, NEW x \in 0 .. y, y - x = b - a,
         \A i \in 1 .. b - a : v[(x + i) - 1] = w[(a + i) - 1]
  PROVE  WordsFrom(v, x, y) = WordsFrom(w, a, b)
BY DEF WordsFrom

(* The words up to b, then those from b on.                                *)
LEMMA WordsFromJoin ==
  ASSUME NEW w \in [Index -> Cells], NEW c \in 0 .. BufLen, NEW b \in 0 .. c, NEW a \in 0 .. b
  PROVE  WordsFrom(w, a, c) = WordsFrom(w, a, b) \o WordsFrom(w, b, c)
<1> DEFINE s == WordsFrom(w, a, b)
           t == WordsFrom(w, b, c)
           st == WordsFrom(w, a, c)
<1>1. BufLen \in Nat
  BY BufLenAssumption
<1>2. b \in 0 .. BufLen /\ a \in 0 .. c /\ a \in Nat /\ b \in Nat /\ c \in Nat
  BY <1>1
<1>3. /\ s \in Seq(Cells) /\ Len(s) = b - a /\ \A i \in 1 .. b - a : s[i] = w[(a + i) - 1]
      /\ t \in Seq(Cells) /\ Len(t) = c - b /\ \A i \in 1 .. c - b : t[i] = w[(b + i) - 1]
      /\ st \in Seq(Cells) /\ Len(st) = c - a /\ \A i \in 1 .. c - a : st[i] = w[(a + i) - 1]
  BY <1>2, WordsFromType
<1> HIDE DEF s, t, st
<1>4. /\ s \o t \in Seq(Cells) /\ Len(s \o t) = Len(s) + Len(t)
      /\ \A i \in 1 .. Len(s) + Len(t) : (s \o t)[i] = IF i <= Len(s) THEN s[i] ELSE t[i - Len(s)]
  BY <1>3, ConcatProperties
<1>5. Len(s) + Len(t) = c - a /\ Len(s) \in Nat
  BY <1>2, <1>3
<1>6. ASSUME NEW i \in 1 .. c - a  PROVE st[i] = (s \o t)[i]
  <2>1. CASE i <= b - a
    <3>1. i \in 1 .. b - a
      BY <1>2, <2>1
    <3>2. QED  BY <1>3, <1>4, <1>5, <3>1
  <2>2. CASE ~(i <= b - a)
    <3> DEFINE j == i - (b - a)
    <3>1. j \in 1 .. c - b /\ (b + j) - 1 = (a + i) - 1
      BY <1>2, <2>2
    <3> HIDE DEF j
    <3>2. t[j] = w[(a + i) - 1]
      BY <1>3, <3>1
    <3>3. (s \o t)[i] = t[j]
      BY <1>3, <1>4, <1>5, <2>2 DEF j
    <3>4. QED  BY <1>3, <3>2, <3>3
  <2>3. QED  BY <2>1, <2>2
<1>7. st = s \o t
  BY <1>3, <1>4, <1>5, <1>6, SeqEqual
<1>8. QED  BY <1>7 DEF s, t, st

(* What is in the ring and not carried out, in the window.                 *)
LEMMA InRingIs ==
  TypeOK /\ RingInv => InRing(ExecPos, WritePos) = WordsFrom(Window, Executed, Written)
<1> SUFFICES ASSUME TypeOK, RingInv
             PROVE  InRing(ExecPos, WritePos) = WordsFrom(Window, Executed, Written)
  OBVIOUS
<1> DEFINE x == Executed
           n == Written
           u == pos_used
<1>1. /\ u \in Positions /\ WritePos \in Positions /\ BufLen \in Nat /\ u \in Nat
      /\ x \in 0 .. n /\ n \in 0 .. BufLen /\ x \in Nat /\ x \in 0 .. BufLen
  <2>1. x \in 0 .. n /\ n \in 0 .. BufLen
    BY ExecutedIs
  <2>2. u \in Positions /\ WritePos \in Positions /\ BufLen \in Nat /\ u \in Nat
    BY RingTypes
  <2> HIDE DEF x, n, u
  <2>3. QED  BY <2>1, <2>2
<1>2. ExecPos = Plus(u, x)
  <2>1. CASE tpc = "done"
    BY <2>1 DEF ExecPos, Executed
  <2>2. CASE tpc # "done"
    <3>1. x = 0 /\ ExecPos = u
      BY <2>2 DEF ExecPos, Executed
    <3>2. Plus(u, 0) = u
      BY <1>1, PosModAssumption DEF Plus, Positions
    <3>3. QED  BY <3>1, <3>2
  <2>3. QED  BY <2>1, <2>2
<1>3. Diff(WritePos, ExecPos) = n - x
  <2>1. \A k \in 0 .. BufLen : k <= Diff(WritePos, u) => Diff(WritePos, Plus(u, k)) = Diff(WritePos, u) - k
    BY <1>1, DiffIs
  <2>2. Diff(WritePos, u) = n
    BY DEF Written
  <2> HIDE DEF x, n, u
  <2>3. x <= n
    BY <1>1
  <2>4. QED  BY <1>1, <1>2, <2>1, <2>2, <2>3
<1>4. \A i \in 1 .. n - x : cells[(ExecPos + i - 1) % BufLen] = Window[(x + i) - 1]
  <2> SUFFICES ASSUME NEW i \in 1 .. n - x
               PROVE  cells[(ExecPos + i - 1) % BufLen] = Window[(x + i) - 1]
    OBVIOUS
  <2> HIDE DEF x, n, u
  <2> DEFINE d == i - 1
  <2>1. d \in Nat /\ x + d = (x + i) - 1 /\ x + d < BufLen /\ d < BufLen /\ x + d \in Index
    BY <1>1 DEF Index
  <2> HIDE DEF d
  <2>2. Place(Plus(u, x), d) = Place(u, x + d)
    BY <1>1, <2>1, PlaceShift DEF Index
  <2>3. (ExecPos + i - 1) % BufLen = Place(ExecPos, d)
    <3>1. ExecPos \in Int
      BY <1>1, <1>2, PositionArithmetic DEF Positions
    <3>2. ExecPos + i - 1 = ExecPos + d
      BY <3>1 DEF d
    <3>3. QED  BY <3>2 DEF Place
  <2>4. Window[x + d] = cells[Place(u, x + d)]
    BY <2>1 DEF Window, u
  <2>5. QED  BY <1>2, <2>1, <2>2, <2>3, <2>4
<1> HIDE DEF x, n, u
<1>5. InRing(ExecPos, WritePos) = WordsFrom(Window, x, n)
  BY <1>3, <1>4 DEF InRing, WordsFrom
<1>6. QED  BY <1>5 DEF x, n

(* What the ring, what did not fit and the rest of the call are to show.   *)
RingShows == Shown(WordsFrom(Window, Executed, Written))
UnhShows == Shown(op.unh)
RestShows == Shown(Heads(NotAdded))
TodoParts ==
  /\ RingShows \in Seq(Cmds) /\ UnhShows \in Seq(Cmds) /\ RestShows \in Seq(Cmds)
  /\ Todo = (RingShows \o UnhShows) \o RestShows /\ Todo \in Seq(Cmds)
  /\ WordsFrom(Window, Executed, Written) \in Seq(Cells)

(* In a safe ring what is left to do is in these parts.                    *)
LEMMA TodoIs == TypeOK /\ RingInv => TodoParts
<1> SUFFICES ASSUME TypeOK, RingInv  PROVE TodoParts
  OBVIOUS
<1> DEFINE r == InRing(ExecPos, WritePos)
           h == Heads(NotAdded)
<1>1. r = WordsFrom(Window, Executed, Written)
  BY InRingIs
<1>2. r \in Seq(Cells)
  BY <1>1, ExecutedIs, RingTypes, WordsFromType
<1>3. op.unh \in Seq(Cells) /\ NotAdded \in Seq(Cmds)
  BY RingTypes DEF NotAdded
<1>4. h \in Seq(Cells)
  BY <1>3, HeadsType
<1>5. Todo = Shown((r \o op.unh) \o h)
  BY DEF Todo
<1>6. RingShows = Shown(r) /\ UnhShows = Shown(op.unh) /\ RestShows = Shown(h)
  BY <1>1 DEF RingShows, UnhShows, RestShows
<1> HIDE DEF r, h
<1>7. r \o op.unh \in Seq(Cells)
  BY <1>2, <1>3
<1>8. Shown((r \o op.unh) \o h) = (Shown(r) \o Shown(op.unh)) \o Shown(h)
  BY <1>2, <1>3, <1>4, <1>7, ShownConcat, Zenon
<1>9. Shown(r) \in Seq(Cmds) /\ Shown(op.unh) \in Seq(Cmds) /\ Shown(h) \in Seq(Cmds)
  BY <1>2, <1>3, <1>4, ShownType, Zenon
<1>10. (Shown(r) \o Shown(op.unh)) \o Shown(h) \in Seq(Cmds)
  BY <1>9
<1>11. QED  BY <1>1, <1>2, <1>5, <1>6, <1>8, <1>9, <1>10 DEF TodoParts

(* The same of the next state.                                             *)
LEMMA TodoStays == (TypeOK /\ RingInv)' => TodoParts'
BY TodoIs, PTL

(* do_add_pos: the words that fit show behind those in the ring, and words *)
(* that do not leave what the ring shows as it is.                         *)
LEMMA FilledShows ==
  ASSUME TypeOK, RingInv, NEW ws \in Seq(Cells), cells' = Filled(WritePos, ws), pos_used' = pos_used,
         WritePos' = AddedPos(WritePos, Len(ws)), Executed' = Executed
  PROVE  RingShows' = RingShows \o (IF Fits(WritePos, Len(ws)) THEN Shown(ws) ELSE <<>>)
<1> DEFINE n == Diff(WritePos, pos_used)
           fits == Fits(WritePos, Len(ws))
           new == IF fits THEN ws ELSE <<>>
           a == Executed
           w == Window
<1>1. /\ pos_used \in Positions /\ WritePos \in Positions /\ cells \in [Index -> Cells]
      /\ w \in [Index -> Cells] /\ BufLen \in Nat /\ n = Written /\ n \in Nat /\ n <= BufLen
  BY RingTypes DEF Written, RingInv, WordsInv
<1>2. PICK p \in 0 .. BufLen :
               /\ n + p + Len(new) <= BufLen
               /\ Diff(AddedPos(WritePos, Len(ws)), pos_used) = n + p + Len(new)
               /\ Window' = Grown(w, n, p, new)
  BY <1>1, FilledWindow
<1> DEFINE g == Grown(w, n, p, new)
           l == Len(new)
           m == n + p
           z == n + p + l
<1>3. Written' = z /\ Window' = g
  BY <1>2 DEF Written
<1>4. new \in Seq(Cells) /\ p \in Nat
  BY <1>1
<1>5. a \in 0 .. n
  BY <1>1, ExecutedIs
<1>6. RingShows = Shown(WordsFrom(w, a, n)) /\ RingShows' = Shown(WordsFrom(g, a, z))
  BY <1>1, <1>3 DEF RingShows
<1>7. Shown(new) = IF fits THEN Shown(ws) ELSE <<>>
  BY ShownType
<1> HIDE DEF n, fits, new, a, w
<1>8. Follows(g, w, n, p, new)
  BY <1>1, <1>2, <1>4, GrownParts, Zenon
<1>9. l \in Nat
  BY <1>4
<1> HIDE DEF g
<1>10. g \in [Index -> Cells]
  BY <1>8 DEF Follows
<1>11. \A d \in 0 .. n - 1 : g[d] = w[d]
  BY <1>8 DEF Follows
<1>12. \A d \in n .. n + p - 1 : g[d] = Pad
  BY <1>8 DEF Follows
<1>13. \A i \in 1 .. l : g[n + p + i - 1] = new[i]
  BY <1>8 DEF Follows
<1> HIDE DEF l
<1>14. /\ z \in 0 .. BufLen /\ m \in 0 .. z /\ n \in 0 .. m /\ n \in 0 .. z /\ a \in 0 .. m /\ a \in 0 .. n
       /\ m \in 0 .. BufLen /\ n \in 0 .. BufLen /\ z - m = l /\ m - n = p
  <2>1. z <= BufLen
    BY <1>2 DEF l
  <2>2. QED  BY <1>1, <1>4, <1>5, <1>9, <2>1
<1>15. \A i \in 1 .. l : g[(m + i) - 1] = new[i]
  <2>1. \A i \in 1 .. l : n + p + i - 1 = (m + i) - 1
    BY <1>1, <1>4, <1>9
  <2>2. QED  BY <1>13, <2>1
<1> HIDE DEF m, z
<1>16. WordsFrom(g, a, n) = WordsFrom(w, a, n)
  <2>1. \A i \in 1 .. n - a : (a + i) - 1 \in 0 .. n - 1
    BY <1>1, <1>5
  <2>2. \A i \in 1 .. n - a : g[(a + i) - 1] = w[(a + i) - 1]
    BY <1>11, <2>1
  <2>3. QED  BY <2>2 DEF WordsFrom
<1>17. Shown(WordsFrom(g, n, m)) = <<>>
  <2> DEFINE ps == WordsFrom(g, n, m)
  <2>1. ps \in Seq(Cells) /\ Len(ps) = m - n /\ \A i \in 1 .. m - n : ps[i] = g[(n + i) - 1]
    BY <1>10, <1>14, WordsFromType
  <2> HIDE DEF ps
  <2>2. \A i \in 1 .. m - n : (n + i) - 1 \in n .. n + p - 1
    BY <1>1, <1>4, <1>14
  <2>3. ~Visible(Pad)
    BY DEF Visible, Pad, Cell, Cmd, Shows
  <2>4. \A i \in 1 .. Len(ps) : ~Visible(ps[i])
    BY <1>12, <2>1, <2>2, <2>3
  <2>5. Shown(ps) = <<>>
    BY <2>1, <2>4, ShownNone
  <2>6. QED  BY <2>5 DEF ps
<1>18. WordsFrom(g, m, z) = new
  <2> DEFINE ps == WordsFrom(g, m, z)
  <2>1. ps \in Seq(Cells) /\ Len(ps) = l /\ \A i \in 1 .. l : ps[i] = g[(m + i) - 1]
    <3>1. /\ ps \in Seq(Cells) /\ Len(ps) = z - m /\ \A i \in 1 .. z - m : ps[i] = g[(m + i) - 1]
      BY <1>10, <1>14, WordsFromType
    <3> HIDE DEF ps
    <3>2. QED  BY <1>14, <3>1
  <2> HIDE DEF ps
  <2>2. Len(new) = l
    BY DEF l
  <2>3. ps = new
    BY <1>4, <1>15, <2>1, <2>2, SeqEqual
  <2>4. QED  BY <2>3 DEF ps
<1> DEFINE s1 == WordsFrom(g, a, n)
           s2 == WordsFrom(g, n, m)
           s3 == WordsFrom(g, m, z)
<1>19. WordsFrom(g, a, z) = WordsFrom(g, a, m) \o s3 /\ WordsFrom(g, a, m) = s1 \o s2
  BY <1>10, <1>14, WordsFromJoin
<1>20. s1 \in Seq(Cells) /\ s2 \in Seq(Cells) /\ s3 \in Seq(Cells)
  BY <1>10, <1>14, WordsFromType
<1>21. Shown(s1) = RingShows /\ Shown(s2) = <<>> /\ Shown(s3) = Shown(new)
  BY <1>6, <1>16, <1>17, <1>18
<1>22. RingShows' = Shown((s1 \o s2) \o s3)
  BY <1>6, <1>19
<1> HIDE DEF s1, s2, s3
<1>23. s1 \o s2 \in Seq(Cells)
  BY <1>20
<1>24. Shown((s1 \o s2) \o s3) = (Shown(s1) \o Shown(s2)) \o Shown(s3)
  BY <1>20, <1>23, ShownConcat, Zenon
<1>25. Shown(s1) \o <<>> = Shown(s1)
  BY <1>20, ShownType, ConcatEmptySeq
<1>26. RingShows' = RingShows \o Shown(new)
  BY <1>21, <1>22, <1>24, <1>25
<1>27. QED  BY <1>7, <1>26 DEF fits

(* The gpu thread carries out what its batch shows.                        *)
LEMMA ExecutedType == TypeOK /\ RingInv => Executed \in 0 .. Written
BY ExecutedIs

(* The same of the next state.                                             *)
LEMMA ExecutedStays == (TypeOK /\ RingInv)' => (Executed \in 0 .. Written)'
BY ExecutedType, PTL

(* gpu_async_thread's batch is the beginning of what the ring shows.       *)
LEMMA RenderShows ==
  ASSUME TypeOK, RingInv, TypeOK', RingInv', Render
  PROVE  \E es \in Seq(Cmds) : RingShows = es \o RingShows'
<1> DEFINE b == Executed'
           n == Written
           w == Window
<1>1. UNCHANGED <<ringVars, mainVars>> /\ tpc = "render"
  BY DEF Render
<1>2. Window' = w /\ Written' = n /\ Executed = 0
  BY <1>1 DEF Window, Place, Written, WritePos, Executed, ringVars, mainVars
<1>3. w \in [Index -> Cells] /\ n \in 0 .. BufLen /\ BufLen \in Nat
  BY RingTypes, ExecutedIs
<1>4. b \in 0 .. n
  BY <1>2, ExecutedStays
<1>5. RingShows = Shown(WordsFrom(w, 0, n)) /\ RingShows' = Shown(WordsFrom(w, b, n))
  BY <1>2 DEF RingShows
<1> HIDE DEF b, n, w
<1>6. 0 \in 0 .. b /\ b \in 0 .. BufLen /\ 0 \in 0 .. n
  BY <1>3, <1>4
<1>7. WordsFrom(w, 0, n) = WordsFrom(w, 0, b) \o WordsFrom(w, b, n)
  BY <1>3, <1>4, <1>6, WordsFromJoin
<1>8. WordsFrom(w, 0, b) \in Seq(Cells) /\ WordsFrom(w, b, n) \in Seq(Cells)
  BY <1>3, <1>4, <1>6, WordsFromType
<1>9. Shown(WordsFrom(w, 0, b)) \in Seq(Cmds)
  BY <1>8, ShownType
<1>10. Shown(WordsFrom(w, 0, n)) = Shown(WordsFrom(w, 0, b)) \o Shown(WordsFrom(w, b, n))
  BY <1>7, <1>8, ShownConcat
<1>11. QED  BY <1>5, <1>9, <1>10

(* What it has carried out it then gives back.                             *)
LEMMA CommitShows ==
  ASSUME TypeOK, RingInv, Commit
  PROVE  RingShows' = RingShows
<1> DEFINE b == tdone
           u == pos_used
           n == Written
           w == Window
<1>1. /\ tpc = "done" /\ tpc' = "top" /\ pos_used' = Plus(u, b) /\ UNCHANGED mainVars /\ pos_added' = pos_added
      /\ cells' = [i \in Index |-> IF (BufLen + i - UsedAt) % BufLen < b THEN Free ELSE cells[i]]
  BY DEF Commit
<1>2. /\ u \in Positions /\ WritePos \in Positions /\ cells \in [Index -> Cells]
      /\ w \in [Index -> Cells] /\ BufLen \in Nat /\ n \in 0 .. BufLen /\ Added \in Nat /\ Added <= n
  BY RingTypes DEF RingInv, WordsInv
<1>3. b \in 1 .. Added
  BY <1>1 DEF RingInv, TakenInv
<1>4. b \in 0 .. BufLen /\ b \in 0 .. n
  BY <1>2, <1>3
<1>5. Window' = Dropped(w, b)
  BY <1>1, <1>2, <1>4, CommitWindow, Zenon
<1>6. Written' = n - b
  <2>1. WritePos' = WritePos
    BY <1>1 DEF WritePos, mainVars
  <2>2. Written' = Diff(WritePos, Plus(u, b))
    BY <1>1, <2>1 DEF Written
  <2>3. \A k \in 0 .. BufLen : k <= Diff(WritePos, u) => Diff(WritePos, Plus(u, k)) = Diff(WritePos, u) - k
    BY <1>2, DiffIs
  <2>4. n = Diff(WritePos, u)
    BY DEF Written
  <2> HIDE DEF u, b, n
  <2>5. b <= n
    BY <1>4
  <2>6. QED  BY <1>4, <2>2, <2>3, <2>4, <2>5
<1>7. Executed = b /\ Executed' = 0
  BY <1>1 DEF Executed
<1>8. RingShows = Shown(WordsFrom(w, b, n)) /\ RingShows' = Shown(WordsFrom(Dropped(w, b), 0, n - b))
  BY <1>5, <1>6, <1>7 DEF RingShows
<1> HIDE DEF b, u, n, w
<1>9. ASSUME NEW i \in 1 .. n - b  PROVE Dropped(w, b)[(0 + i) - 1] = w[(b + i) - 1]
  <2> DEFINE d == (0 + i) - 1
  <2>1. d \in Nat /\ b + d = (b + i) - 1 /\ b + d < BufLen
    BY <1>2, <1>4
  <2> HIDE DEF d
  <2>2. Dropped(w, b)[d] = w[b + d]
    BY <1>2, <1>4, <2>1, DroppedWord
  <2>3. QED  BY <2>1, <2>2 DEF d
<1>10. (n - b) - 0 = n - b
  BY <1>2, <1>4
<1>11. WordsFrom(Dropped(w, b), 0, n - b) = WordsFrom(w, b, n)
  BY <1>9, <1>10 DEF WordsFrom
<1>12. QED  BY <1>8, <1>11

(* An empty ring shows nothing.                                            *)
LEMMA EmptyShows == Written = Executed /\ Written \in Int => RingShows = <<>>
<1> SUFFICES ASSUME Written = Executed, Written \in Int  PROVE RingShows = <<>>
  OBVIOUS
<1>1. 1 .. Written - Executed = {}
  OBVIOUS
<1>2. WordsFrom(Window, Executed, Written) = <<>>
  BY <1>1 DEF WordsFrom
<1>3. QED  BY <1>2, ShownType DEF RingShows

-----------------------------------------------------------------------------
(* The steps of CmdFifo.                                                   *)
LEMMA Consumed ==
  ASSUME NEW es \in Seq(Cmds), NEW t \in Seq(Cmds)
  PROVE  \/ t = es \o t
         \/ \E n \in 1 .. Len(es \o t) : t = SubSeq(es \o t, n + 1, Len(es \o t))
<1> DEFINE s == es \o t
<1>1. /\ s \in Seq(Cmds) /\ Len(s) = Len(es) + Len(t) /\ Len(es) \in Nat /\ Len(t) \in Nat
      /\ \A i \in 1 .. Len(es) + Len(t) : s[i] = IF i <= Len(es) THEN es[i] ELSE t[i - Len(es)]
  BY ConcatProperties
<1> HIDE DEF s
<1>2. CASE Len(es) = 0
  <2>1. es = <<>>
    BY <1>2, EmptySeq
  <2>2. QED  BY <2>1, ConcatEmptySeq DEF s
<1>3. CASE Len(es) # 0
  <2> DEFINE n == Len(es)
             m == Len(t)
             k == n + 1
             v == SubSeq(s, k, Len(s))
  <2>1. n \in 1 .. Len(s) /\ Len(s) = n + m /\ n \in Nat /\ m \in Nat /\ k = n + 1
    BY <1>1, <1>3
  <2>2. \A i \in 1 .. n + m : s[i] \in Cmds
    BY <1>1, ElementOfSeq
  <2> HIDE DEF n, m, k
  <2>3. \A i \in k .. Len(s) : s[i] \in Cmds
    BY <2>1, <2>2
  <2>4. k \in Int /\ Len(s) \in Int
    BY <2>1
  <2>5. /\ v \in Seq(Cmds) /\ Len(v) = (IF k <= Len(s) THEN Len(s) - k + 1 ELSE 0)
        /\ \A i \in 1 .. Len(s) - k + 1 : v[i] = s[k + i - 1]
    <3> HIDE DEF v
    <3> DEFINE e == Len(s)
    <3>1. \A i \in k .. e : s[i] \in Cmds
      BY <2>3
    <3>2. k \in Int /\ e \in Int
      BY <2>4
    <3> HIDE DEF e
    <3>3. /\ SubSeq(s, k, e) \in Seq(Cmds) /\ Len(SubSeq(s, k, e)) = (IF k <= e THEN e - k + 1 ELSE 0)
          /\ \A i \in 1 .. e - k + 1 : SubSeq(s, k, e)[i] = s[k + i - 1]
      BY <3>1, <3>2, SubSeqProperties
    <3>4. v = SubSeq(s, k, e)
      BY DEF v, e
    <3>5. QED  BY <3>3, <3>4 DEF e
  <2> HIDE DEF v
  <2>6. Len(v) = m /\ Len(s) - k + 1 = m
    <3> DEFINE l == Len(s)
               x == Len(v)
    <3>1. l = n + m /\ k = n + 1 /\ n \in Nat /\ m \in Nat
      BY <2>1
    <3>2. x = IF k <= l THEN l - k + 1 ELSE 0
      BY <2>5
    <3> HIDE DEF l, x
    <3>3. x = m /\ l - k + 1 = m
      BY <3>1, <3>2
    <3>4. QED  BY <3>3 DEF l, x
  <2>7. ASSUME NEW i \in 1 .. m  PROVE t[i] = v[i]
    <3>1. v[i] = s[k + i - 1] /\ k + i - 1 = n + i
      BY <2>1, <2>5, <2>6
    <3>2. n + i \in 1 .. Len(es) + Len(t) /\ ~(n + i <= Len(es)) /\ (n + i) - Len(es) = i
      BY <2>1 DEF n, m
    <3>3. QED  BY <1>1, <3>1, <3>2
  <2>8. t = v
    BY <2>5, <2>6, <2>7, SeqEqual DEF m
  <2>9. t = SubSeq(s, n + 1, Len(s))
    BY <2>1, <2>8 DEF v
  <2>10. QED  BY <2>1, <2>9 DEF s
<1>4. QED  BY <1>2, <1>3

(* What the next state still has to do after something is carried out.     *)
FifoStep == Fifo!Next \/ Todo' = Todo

(* A beginning of what is left is carried out.                             *)
LEMMA CarriesOut ==
  ASSUME TodoParts', NEW es \in Seq(Cmds), Todo = es \o Todo'
  PROVE  FifoStep
<1>1. Todo' \in Seq(Cmds)
  BY DEF TodoParts
<1>2. PICK t : t = Todo'
  OBVIOUS
<1>3. t = Todo \/ \E n \in 1 .. Len(Todo) : t = SubSeq(Todo, n + 1, Len(Todo))
  BY <1>1, <1>2, Consumed
<1>4. QED  BY <1>2, <1>3 DEF FifoStep, Fifo!Next, Fifo!CarryOut

(* Nothing is left to do.                                                  *)
LEMMA AllDone ==
  ASSUME TodoParts, TodoParts', RingShows' = <<>>, op'.unh = <<>>, op'.rest = <<>>
  PROVE  FifoStep
<1>1. NotAdded' = <<>>
  BY DEF NotAdded
<1>2. UnhShows' = <<>> /\ RestShows' = <<>>
  BY <1>1, ShownType, HeadsType DEF UnhShows, RestShows
<1>3. <<>> \in Seq(Cmds) /\ <<>> \o <<>> = <<>>
  BY EmptySeq, ConcatEmptySeq
<1>4. Todo' = <<>>
  BY <1>2, <1>3 DEF TodoParts
<1>5. Todo = Todo \o <<>> /\ Todo \in Seq(Cmds)
  BY ConcatEmptySeq DEF TodoParts
<1>6. QED  BY <1>4, <1>5, CarriesOut

(* A step that leaves the ring and the call's commands as they are.        *)
RingStill ==
  /\ UNCHANGED <<pos_used, cells>> /\ WritePos' = WritePos
  /\ tdone' = tdone /\ (tpc' = tpc \/ "done" \notin {tpc, tpc'})

(* What such a step leaves.                                                *)
LEMMA StillShows ==
  RingStill => /\ ExecPos' = ExecPos /\ InRing(ExecPos, WritePos)' = InRing(ExecPos, WritePos)
               /\ RingShows' = RingShows
BY DEF RingStill, ExecPos, InRing, RingShows, Window, Place, Executed, Written

(* Such a step in a call that keeps its commands.                          *)
LEMMA NothingHappens ==
  ASSUME RingStill, op'.unh = op.unh, op'.rest = op.rest, mpc # "dma", mpc' # "dma"
  PROVE  FifoStep
<1>1. NotAdded' = NotAdded
  BY DEF NotAdded
<1>2. QED  BY <1>1, StillShows DEF FifoStep, Todo

-----------------------------------------------------------------------------
(* Only a list, an upload and a message told directly keep commands for    *)
(* later, and an upload that found no room keeps its own until it is done. *)
RestInv ==
  op.rest # <<>> =>
    \/ mpc \in {"prefix", "loop", "dma", "direct", "vram"}
    \/ mpc \in {"sync", "fullwait", "synced", "scan"} /\ op.ret = "vram"

(* Every step keeps it so.                                                 *)
LEMMA RestNext ==
  ASSUME TypeInv, RestInv, [Next]_vars
  PROVE  RestInv'
<1>0. op \in OpRecords
  BY DEF TypeInv, TypeOK
<1>1. CASE ListCall \/ Prefix \/ Loop \/ DmaAdd
  <2>1. mpc' \in {"prefix", "loop", "dma"}
    BY <1>1 DEF ListCall, Prefix, Loop, DmaAdd
  <2>2. QED  BY <2>1 DEF RestInv
<1>2. CASE LoopEnd \/ Publish \/ KickAfterList \/ AddWithWait \/ AddLock \/ AddWoken \/ EcmdsCall
           \/ ScanoutCall \/ TryDelayedFlip \/ TargetWait \/ TargetWoken \/ SetExit \/ SignalExit
  <2>1. CASE LoopEnd
    <3>1. op.rest = <<>> /\ (op' = op \/ \E r, t : op' = [op EXCEPT !.reg = r, !.target = t])
      BY <2>1 DEF LoopEnd, ScanoutWait
    <3>2. op'.rest = <<>>
      BY <1>0, <3>1 DEF OpRecords
    <3>3. QED  BY <3>2 DEF RestInv
  <2>2. CASE Publish \/ KickAfterList \/ AddWithWait \/ AddLock \/ AddWoken \/ EcmdsCall
           \/ TargetWait \/ TargetWoken \/ SetExit \/ SignalExit
    <3>1. mpc \in {"publish", "kick", "add", "addlock", "addwait", "idle", "twait", "targetwait", "stop", "stopping"}
      BY <2>2 DEF Publish, KickAfterList, AddWithWait, AddLock, AddWoken, EcmdsCall, AddCall, Call,
                  TargetWait, TargetWoken, SetExit, SignalExit
    <3>2. op' = op \/ op' = [op EXCEPT !.ret = "idle", !.pa = 0] \/ op' = [op EXCEPT !.unh = <<>>]
      BY <2>2 DEF Publish, KickAfterList, AddWithWait, AddLock, AddWoken, EcmdsCall,
                  TargetWait, TargetWoken, SetExit, SignalExit
    <3>3. op'.rest = op.rest
      BY <1>0, <3>2 DEF OpRecords
    <3>4. QED  BY <3>1, <3>3 DEF RestInv
  <2>3. CASE ScanoutCall \/ TryDelayedFlip
    <3>1. mpc = "idle"
      BY <2>3 DEF ScanoutCall, TryDelayedFlip, Call
    <3>2. \/ op' = op \/ \E r : op' = [op EXCEPT !.reg = r]
          \/ \E r, t : op' = [op EXCEPT !.reg = r, !.target = t]
          \/ \E r : op' = [op EXCEPT !.reg = r, !.ret = "flip"]
      <4>1. CASE TryDelayedFlip
        BY <4>1 DEF TryDelayedFlip
      <4>2. CASE ScanoutCall
        <5>1. PICK cs \in CalcScanout(screen) :
                CASE cs.ret = 0 -> mpc' = "scan" /\ op' = [op EXCEPT !.reg = screen] /\ UNCHANGED flip
                  [] cs.ret # 0 /\ FrameSkip -> flip' = screen /\ UNCHANGED <<mpc, op>>
                  [] OTHER -> ScanoutWait(cs, screen) /\ UNCHANGED flip
          BY <4>2 DEF ScanoutCall
        <5>2. CASE cs.ret = 0
          BY <5>1, <5>2
        <5>3. CASE cs.ret # 0 /\ FrameSkip
          BY <5>1, <5>3
        <5>4. CASE cs.ret # 0 /\ ~FrameSkip
          BY <5>1, <5>4 DEF ScanoutWait
        <5>5. QED  BY <5>2, <5>3, <5>4
      <4>3. QED  BY <2>3, <4>1, <4>2
    <3>3. op'.rest = op.rest
      BY <1>0, <3>2 DEF OpRecords
    <3>4. QED  BY <3>1, <3>3 DEF RestInv
  <2>4. QED  BY <1>2, <2>1, <2>2, <2>3
<1>3. CASE Break \/ Direct \/ DmaPublish \/ Vram \/ Join \/ EnableCall \/ VramCall \/ StopCall
  <2>1. op' = NoOp \/ op' = [NoOp EXCEPT !.ret = "vram"] \/ op' = [NoOp EXCEPT !.ret = "stop"]
    BY <1>3 DEF Break, Direct, DmaPublish, Vram, Join, EnableCall, VramCall, StopCall, Done
  <2>2. op'.rest = <<>>
    BY <2>1 DEF NoOp
  <2>3. QED  BY <2>2 DEF RestInv
<1>4. CASE SyncEcmds \/ ScreenCall \/ InterlaceCall
  <2>1. \E c, ws : Tell(c, ws)
    BY <1>4 DEF SyncEcmds, ScreenCall, InterlaceCall
  <2>2. mpc' = "direct" \/ op'.rest = <<>>
    BY <2>1 DEF Tell, NoOp
  <2>3. QED  BY <2>2 DEF RestInv
<1>5. CASE DmaCall
  <2>1. mpc' = "dma" \/ (mpc' = "sync" /\ \E c : op' = [NoOp EXCEPT !.rest = <<c>>, !.ret = "vram"])
    BY <1>5 DEF DmaCall
  <2>2. mpc' = "dma" \/ (mpc' = "sync" /\ op'.ret = "vram")
    BY <2>1 DEF NoOp
  <2>3. QED  BY <2>2 DEF RestInv
<1>6. CASE Sync \/ FullWoken
  <2>1. mpc \in {"sync", "fullwait"} /\ mpc' \in {"fullwait", "synced"} /\ op' = op
    BY <1>6 DEF Sync, FullWoken
  <2>2. QED  BY <2>1 DEF RestInv
<1>7. CASE Synced
  <2>1. mpc = "synced" /\ (mpc' = "scan" \/ mpc' = op.ret)
    BY <1>7 DEF Synced
  <2>2. op' = op \/ op' = [op EXCEPT !.reg = flip]
    BY <1>7 DEF Synced
  <2>3. op'.rest = op.rest /\ op'.ret = op.ret
    BY <1>0, <2>2 DEF OpRecords
  <2>4. QED  BY <2>1, <2>3 DEF RestInv
<1>8. CASE Scan
  <2>1. mpc = "scan" /\ ((mpc' = "idle" /\ op' = NoOp) \/ (mpc' = op.ret /\ op' = [op EXCEPT !.reg = {}, !.target = 0]))
    BY <1>8 DEF Scan, Done
  <2>2. op'.rest = <<>> \/ (mpc' = op.ret /\ op'.rest = op.rest)
    <3>1. CASE mpc' = "idle" /\ op' = NoOp
      BY <3>1 DEF NoOp
    <3>2. CASE mpc' = op.ret /\ op' = [op EXCEPT !.reg = {}, !.target = 0]
      BY <1>0, <3>2 DEF OpRecords
    <3>3. QED  BY <2>1, <3>1, <3>2
  <2>3. QED  BY <2>1, <2>2 DEF RestInv
<1>9. CASE Thread \/ SpuriousWake \/ OffSetEnv \/ UNCHANGED vars
  <2>1. UNCHANGED mainVars
    BY <1>9 DEF Thread, ThreadLock, Top, Sleep, Unlock, Flush, Render, Commit, SpuriousWake, OffSetEnv, vars
  <2>2. QED  BY <2>1 DEF RestInv
<1>10. QED
  BY <1>1, <1>2, <1>3, <1>4, <1>5, <1>6, <1>7, <1>8, <1>9 DEF Next, MainCall, MainStep

-----------------------------------------------------------------------------
(* A call that begins, goes on or ends without adding anything.            *)
LEMMA MovesOn ==
  ASSUME RingStill, mpc # "dma", mpc' # "dma", op'.unh = op.unh, op'.rest = op.rest
  PROVE  FifoStep
BY NothingHappens

(* The main thread stays where it is.                                      *)
LEMMA StaysThere ==
  ASSUME UNCHANGED <<ringVars, mainVars>>, tdone' = tdone, tpc' = tpc \/ "done" \notin {tpc, tpc'}
  PROVE  FifoStep
<1>1. NotAdded' = NotAdded /\ op'.unh = op.unh
  BY DEF NotAdded
<1>2. RingStill
  BY DEF RingStill, WritePos
<1>3. QED  BY <1>1, <1>2, StillShows DEF FifoStep, Todo

(* The steps of a call between those that add.                             *)
LEMMA CallGoesOn ==
  ASSUME TypeOK, UNCHANGED ringVars, tdone' = tdone, tpc' = tpc \/ "done" \notin {tpc, tpc'},
         mpc # "dma", mpc' # "dma", op'.unh = op.unh, op'.rest = op.rest, op'.pa = op.pa,
         op'.ret = op.ret \/ ("publish" \notin {op.ret, op'.ret})
  PROVE  FifoStep
<1>1. RingStill
  BY DEF RingStill, WritePos
<1>2. QED  BY <1>1, MovesOn

(* A call with nothing to add begins or ends.                              *)
LEMMA BareFifo ==
  ASSUME RingInv, EnvInv, RestInv, UNCHANGED ringVars, tdone' = tdone, tpc' = tpc \/ "done" \notin {tpc, tpc'},
         mpc \in {"idle", "join"} \/ (mpc = "scan" /\ op.ret # "vram"), mpc' # "dma", op.ret # "publish",
         op'.ret # "publish", op'.unh = <<>>, op'.rest = <<>>
  PROVE  FifoStep
<1>1. op.unh = <<>> /\ op.rest = <<>>
  BY NothingLeft DEF Adding, RestInv
<1>2. RingStill
  BY DEF RingStill, WritePos
<1>3. QED  BY <1>1, <1>2, MovesOn

(* The steps of the calls that neither add nor submit.                     *)
LEMMA QuietCalls ==
  ASSUME TypeOK, RingInv, EnvInv, RestInv,
         LoopEnd \/ Publish \/ KickAfterList \/ AddLock \/ AddWoken \/ EcmdsCall \/ ScanoutCall
         \/ TryDelayedFlip \/ VramCall \/ StopCall \/ Sync \/ FullWoken \/ Synced \/ TargetWait
         \/ TargetWoken \/ Scan \/ SetExit \/ SignalExit \/ Join
  PROVE  FifoStep
<1>0. op \in OpRecords
  BY DEF TypeOK
<1>1. CASE LoopEnd
  <2>1. /\ UNCHANGED <<ringVars, threadVars>> /\ mpc = "loop" /\ mpc' \in {"twait", "sync", "publish"}
    BY <1>1 DEF LoopEnd, ScanoutWait
  <2>2. op' = op \/ \E r, t : op' = [op EXCEPT !.reg = r, !.target = t]
    BY <1>1 DEF LoopEnd, ScanoutWait
  <2>3. op'.unh = op.unh /\ op'.rest = op.rest /\ op'.pa = op.pa /\ op'.ret = op.ret
    BY <1>0, <2>2 DEF OpRecords
  <2>4. QED  BY <2>1, <2>3, CallGoesOn
<1>2. CASE Publish
  <2>1. /\ UNCHANGED <<pos_used, cells, threadVars>> /\ mpc = "publish" /\ mpc' = "kick"
        /\ pos_added' = op.pa /\ op' = [op EXCEPT !.ret = "idle", !.pa = 0]
    BY <1>2 DEF Publish
  <2>2. op.ret = "publish"
    BY <2>1 DEF RingInv, RetInv
  <2>3. op'.unh = op.unh /\ op'.rest = op.rest /\ op'.ret = "idle"
    BY <1>0, <2>1 DEF OpRecords
  <2>4. RingStill
    BY <2>1, <2>2, <2>3 DEF RingStill, WritePos
  <2>5. QED  BY <2>1, <2>3, <2>4, MovesOn
<1>3. CASE KickAfterList \/ AddLock \/ AddWoken \/ EcmdsCall \/ Sync \/ FullWoken \/ TargetWait
           \/ TargetWoken \/ SetExit \/ SignalExit
  <2>1. /\ UNCHANGED ringVars /\ tdone' = tdone /\ op' = op
    BY <1>3 DEF KickAfterList, AddLock, AddWoken, EcmdsCall, Sync, FullWoken, TargetWait, TargetWoken,
                SetExit, SignalExit
  <2>2. tpc' = tpc \/ (tpc = "sleep" /\ tpc' = "woken")
    BY <1>3 DEF KickAfterList, AddLock, AddWoken, EcmdsCall, Sync, FullWoken, TargetWait, TargetWoken,
                SetExit, SignalExit, Kick
  <2>3. mpc # "dma" /\ mpc' # "dma"
    BY <1>3 DEF KickAfterList, AddLock, AddWoken, WaitForRoom, EcmdsCall, AddCall, Call, Sync, FullWoken,
                TargetWait, TargetWoken, SetExit, SignalExit
  <2>4. QED  BY <2>1, <2>2, <2>3, CallGoesOn
<1>4. CASE ScanoutCall
  <2>1. PICK cs \in CalcScanout(screen) :
          CASE cs.ret = 0 -> mpc' = "scan" /\ op' = [op EXCEPT !.reg = screen] /\ UNCHANGED flip
            [] cs.ret # 0 /\ FrameSkip -> flip' = screen /\ UNCHANGED <<mpc, op>>
            [] OTHER -> ScanoutWait(cs, screen) /\ UNCHANGED flip
    BY <1>4 DEF ScanoutCall
  <2>2. UNCHANGED ringVars /\ UNCHANGED threadVars /\ mpc = "idle"
    BY <1>4 DEF ScanoutCall, Call
  <2>3. mpc' # "dma" /\ (op' = op \/ (\E r : op' = [op EXCEPT !.reg = r])
                         \/ \E r, t : op' = [op EXCEPT !.reg = r, !.target = t])
    <3>1. CASE cs.ret = 0
      BY <2>1, <3>1
    <3>2. CASE cs.ret # 0 /\ FrameSkip
      BY <2>1, <2>2, <3>2
    <3>3. CASE cs.ret # 0 /\ ~FrameSkip
      BY <2>1, <3>3 DEF ScanoutWait
    <3>4. QED  BY <3>1, <3>2, <3>3
  <2>4. op'.unh = op.unh /\ op'.rest = op.rest /\ op'.pa = op.pa /\ op'.ret = op.ret
    BY <1>0, <2>3 DEF OpRecords
  <2>5. QED  BY <2>2, <2>3, <2>4, CallGoesOn
<1>5. CASE TryDelayedFlip
  <2>1. /\ UNCHANGED <<ringVars, threadVars>> /\ mpc = "idle" /\ mpc' = "scan"
        /\ op' = [op EXCEPT !.reg = flip, !.ret = "flip"]
    BY <1>5 DEF TryDelayedFlip, Call
  <2>2. op.ret # "publish"
    BY <2>1 DEF RingInv, RetInv
  <2>3. op'.unh = op.unh /\ op'.rest = op.rest /\ op'.pa = op.pa /\ op'.ret = "flip"
    BY <1>0, <2>1 DEF OpRecords
  <2>4. QED  BY <2>1, <2>2, <2>3, CallGoesOn
<1>6. CASE VramCall \/ StopCall
  <2>1. /\ UNCHANGED <<ringVars, threadVars>> /\ mpc = "idle" /\ mpc' = "sync"
        /\ (op' = [NoOp EXCEPT !.ret = "vram"] \/ op' = [NoOp EXCEPT !.ret = "stop"])
    BY <1>6 DEF VramCall, StopCall, Call
  <2>2. op.ret # "publish"
    BY <2>1 DEF RingInv, RetInv
  <2>3. op'.unh = <<>> /\ op'.rest = <<>> /\ op'.ret # "publish"
    BY <2>1 DEF NoOp
  <2>4. QED  BY <2>1, <2>2, <2>3, BareFifo
<1>7. CASE Synced
  <2>1. /\ UNCHANGED <<ringVars, threadVars>> /\ mpc = "synced" /\ mpc' # "dma"
        /\ (op' = op \/ op' = [op EXCEPT !.reg = flip])
    BY <1>7 DEF Synced
  <2>2. op'.unh = op.unh /\ op'.rest = op.rest /\ op'.pa = op.pa /\ op'.ret = op.ret
    BY <1>0, <2>1 DEF OpRecords
  <2>3. QED  BY <2>1, <2>2, CallGoesOn
<1>8. CASE Scan
  <2>1. UNCHANGED ringVars /\ UNCHANGED threadVars /\ mpc = "scan"
    BY <1>8 DEF Scan
  <2>2. CASE op.ret \in {"idle", "flip"}
    <3>1. mpc' = "idle" /\ op' = NoOp
      BY <1>8, <2>2 DEF Scan, Done
    <3>2. op'.unh = <<>> /\ op'.rest = <<>> /\ op'.ret # "publish"
      BY <3>1 DEF NoOp
    <3>3. QED  BY <2>1, <2>2, <3>1, <3>2, BareFifo
  <2>3. CASE op.ret \notin {"idle", "flip"}
    <3>1. mpc' = op.ret /\ op' = [op EXCEPT !.reg = {}, !.target = 0]
      BY <1>8, <2>3 DEF Scan
    <3>2. op'.unh = op.unh /\ op'.rest = op.rest /\ op'.pa = op.pa /\ op'.ret = op.ret /\ mpc' # "dma"
      BY <1>0, <3>1 DEF OpRecords
    <3>3. QED  BY <2>1, <3>2, CallGoesOn
  <2>4. QED  BY <2>2, <2>3
<1>9. CASE Join
  <2>1. /\ UNCHANGED ringVars /\ UNCHANGED threadVars /\ mpc = "join" /\ mpc' = "off" /\ op' = NoOp
    BY <1>9 DEF Join
  <2>2. op'.unh = <<>> /\ op'.rest = <<>> /\ op'.ret # "publish" /\ op.ret # "publish"
    BY <2>1 DEF NoOp, RingInv, RetInv
  <2>3. QED  BY <2>1, <2>2, BareFifo
<1>10. QED
  BY <1>1, <1>2, <1>3, <1>4, <1>5, <1>6, <1>7, <1>8, <1>9

-----------------------------------------------------------------------------
(* What a call submits goes behind all that is left to do.                 *)
LEMMA Submits ==
  ASSUME TodoParts, TodoParts', RingShows' = RingShows, UnhShows = <<>>, RestShows = <<>>,
         NEW es \in Submissions, UnhShows' \o RestShows' = es
  PROVE  FifoStep
<1>1. PICK u : u = UnhShows'
  OBVIOUS
<1>2. PICK r : r = RestShows'
  OBVIOUS
<1>3. PICK t : t = Todo'
  OBVIOUS
<1>4. RingShows \in Seq(Cmds) /\ u \in Seq(Cmds) /\ r \in Seq(Cmds) /\ t = (RingShows \o u) \o r
  BY <1>1, <1>2, <1>3 DEF TodoParts
<1>5. Todo = RingShows
  BY <1>4, ConcatEmptySeq DEF TodoParts
<1>6. t = RingShows \o (u \o r)
  <2> DEFINE q == RingShows
  <2>1. q \in Seq(Cmds) /\ t = (q \o u) \o r
    BY <1>4
  <2> HIDE DEF q
  <2>2. t = q \o (u \o r)
    BY <1>4, <2>1, ConcatAssociative
  <2>3. QED  BY <2>2 DEF q
<1>7. Todo' = Todo \o es
  BY <1>1, <1>2, <1>3, <1>5, <1>6
<1>8. QED  BY <1>7 DEF FifoStep, Fifo!Next, Fifo!Submit

(* Nothing is left of the last call when another begins.                   *)
LEMMA NoneLeft ==
  ASSUME RingInv, EnvInv, RestInv, mpc \in {"idle", "ecmds"}
  PROVE  op.unh = <<>> /\ op.rest = <<>> /\ op.ret = "idle" /\ UnhShows = <<>> /\ RestShows = <<>>
<1>1. op.unh = <<>> /\ op.rest = <<>> /\ op.ret = "idle"
  BY NothingLeft DEF Adding, RestInv, RingInv, RetInv
<1>2. NotAdded = <<>>
  BY <1>1 DEF NotAdded
<1>3. QED  BY <1>1, <1>2, ShownType, HeadsType DEF UnhShows, RestShows

(* gpu_async_do_cmd_list submits its list.                                 *)
LEMMA ListShows ==
  ASSUME TypeOK, RingInv, EnvInv, RestInv, TodoParts, TodoParts', ListCall
  PROVE  FifoStep
<1>1. PICK l \in Lists : op' = [NoOp EXCEPT !.rest = l, !.pa = pos_added, !.ret = "publish"]
  BY DEF ListCall
<1>2. op'.pa = pos_added /\ op'.ret = "publish" /\ op'.unh = <<>> /\ op'.rest = l
  BY <1>1 DEF NoOp
<1>3. /\ UNCHANGED <<ringVars, threadVars>> /\ mpc = "idle" /\ mpc' # "dma"
  BY DEF ListCall, AddCall, Call
<1>4. op.ret = "idle" /\ UnhShows = <<>> /\ RestShows = <<>>
  BY <1>3, NoneLeft
<1>5. RingStill
  BY <1>2, <1>3, <1>4 DEF RingStill, WritePos
<1>6. NotAdded' = l
  BY <1>2, <1>3 DEF NotAdded
<1>7. UnhShows' = <<>> /\ RestShows' = Shown(Heads(l))
  BY <1>2, <1>6, ShownType DEF UnhShows, RestShows
<1>8. Shown(Heads(l)) \in Seq(Cmds)
  <2>1. l \in Seq(Cmds)
    <3>1. l \in Seq(ListCmds) /\ ListCmds \subseteq Cmds
      BY CmdAssumption DEF ListCmds
    <3>2. QED  BY <3>1
  <2>2. QED  BY <2>1, HeadsType
<1>9. UnhShows' \o RestShows' = Shown(Heads(l))
  BY <1>7, <1>8, ConcatEmptySeq
<1>10. Shown(Heads(l)) \in Submissions
  BY DEF Submissions
<1>11. QED  BY <1>4, <1>5, <1>9, <1>10, StillShows, Submits

(* One command is its own effect.                                          *)
LEMMA OneShows ==
  ASSUME NEW c \in Cmds
  PROVE  Shown(Heads(<<c>>)) = Effect(c) /\ Effect(c) \in Seq(Cmds)
<1>1. <<c>> \in Seq(Cmds) /\ <<c>> # <<>> /\ Head(<<c>>) = c /\ Tail(<<c>>) = <<>>
  OBVIOUS
<1>2. Effect(c) \in Seq(Cmds)
  BY EmptySeq, <1>1 DEF Effect
<1>3. Shown(Heads(<<c>>)) = Effect(c) \o Shown(Heads(<<>>))
  BY <1>1, HeadsSplit
<1>4. QED  BY <1>2, <1>3, HeadsType, ConcatEmptySeq

(* A message for the renderer, told directly or through the ring.          *)
LEMMA TellShows ==
  ASSUME TypeOK, RingInv, EnvInv, RestInv, TodoParts, TodoParts', UNCHANGED ringVars, UNCHANGED threadVars,
         mpc \in {"idle", "ecmds"}, NEW c \in Cmds, NEW ws, Shown(ws) = Effect(c), Tell(c, ws),
         Effect(c) \in Submissions \/ Effect(c) = <<>>
  PROVE  FifoStep
<1>1. op.ret = "idle" /\ UnhShows = <<>> /\ RestShows = <<>>
  BY NoneLeft
<1>2. /\ mpc' # "dma" /\ op'.ret = "idle"
      /\ (op'.rest = <<c>> /\ op'.unh = <<>>) \/ (op'.rest = <<>> /\ op'.unh = ws)
  BY DEF Tell, NoOp
<1>3. RingStill
  BY <1>1, <1>2 DEF RingStill, WritePos
<1>4. NotAdded' = op'.rest
  BY <1>2 DEF NotAdded
<1>5. \/ UnhShows' = <<>> /\ RestShows' = Effect(c)
      \/ UnhShows' = Effect(c) /\ RestShows' = <<>>
  BY <1>2, <1>4, OneShows, ShownType, HeadsType DEF UnhShows, RestShows
<1>6. UnhShows' \o RestShows' = Effect(c)
  BY <1>5, OneShows, ConcatEmptySeq
<1>7. CASE Effect(c) \in Submissions
  BY <1>1, <1>3, <1>6, <1>7, StillShows, Submits
<1>8. CASE Effect(c) = <<>>
  <2>1. UnhShows' = <<>> /\ RestShows' = <<>>
    BY <1>5, <1>8
  <2>2. Todo' = Todo
    BY <1>1, <1>3, <2>1, StillShows DEF TodoParts
  <2>3. QED  BY <2>2 DEF FifoStep
<1>9. QED  BY <1>7, <1>8

(* The display and the interlace mode show, the drawing area does not.     *)
LEMMA MessagesShow ==
  ASSUME TypeOK, RingInv, EnvInv, RestInv, TodoParts, TodoParts', ScreenCall \/ InterlaceCall \/ SyncEcmds
  PROVE  FifoStep
<1>1. CASE ScreenCall
  <2>1. PICK r \in Screens \ {screen} :
          Tell(Cmd("screen", r, 0, 0), Head0(Cmd("screen", r, 0, 0), {}))
    BY <1>1 DEF ScreenCall
  <2> DEFINE c == Cmd("screen", r, 0, 0)
  <2>2. r \in Regions /\ {} \in Regions
    BY RegionAssumption DEF Regions
  <2>3. c \in Cmds /\ c.op = "screen"
    BY <2>2, ConstantTypes DEF Cmd
  <2>4. Effect(c) = <<c>> /\ <<c>> \in Submissions
    <3>1. Effect(c) = <<c>>
      BY <2>3 DEF Effect, Shows
    <3>2. <<c>> \in Submissions
      BY DEF Submissions
    <3>3. QED  BY <3>1, <3>2
  <2>5. UNCHANGED ringVars /\ UNCHANGED threadVars /\ mpc = "idle"
    BY <1>1 DEF ScreenCall, AddCall, Call
  <2> HIDE DEF c
  <2>6. Shown(Head0(c, {})) = Effect(c)
    BY <2>2, <2>3, ShownHead
  <2>7. Tell(c, Head0(c, {}))
    BY <2>1 DEF c
  <2>8. QED  BY <2>3, <2>4, <2>5, <2>6, <2>7, TellShows
<1>2. CASE InterlaceCall
  <2> DEFINE c == Cmd("ilace", {}, 0, 0)
  <2>1. Tell(c, Head0(c, {}))
    BY <1>2 DEF InterlaceCall
  <2>2. {} \in Regions
    BY DEF Regions
  <2>3. c \in Cmds /\ c.op = "ilace"
    BY <2>2, ConstantTypes DEF Cmd
  <2>4. Effect(c) = <<c>> /\ <<c>> \in Submissions
    <3>1. Effect(c) = <<c>>
      BY <2>3 DEF Effect, Shows
    <3>2. <<c>> \in Submissions
      BY DEF Submissions
    <3>3. QED  BY <3>1, <3>2
  <2>5. UNCHANGED ringVars /\ UNCHANGED threadVars /\ mpc = "idle"
    BY <1>2 DEF InterlaceCall, AddCall, Call
  <2> HIDE DEF c
  <2>6. Shown(Head0(c, {})) = Effect(c)
    BY <2>2, <2>3, ShownHead
  <2>7. QED  BY <2>1, <2>3, <2>4, <2>5, <2>6, TellShows
<1>3. CASE SyncEcmds
  <2> DEFINE ws == [i \in 1 .. EcmdsLen |-> Cell(IF i = 1 THEN Env(env_m) ELSE Tex, {}, 0)]
             c == Env(env_m)
  <2>1. Tell(c, ws) /\ UNCHANGED ringVars /\ UNCHANGED threadVars /\ mpc = "ecmds"
    BY <1>3 DEF SyncEcmds
  <2>2. EcmdsLen \in Nat
    BY EcmdsLenAssumption, BufLenAssumption
  <2>3. c \in Cmds /\ Tex \in Cmds /\ {} \in Regions
    BY ConstantTypes DEF Regions, TypeOK
  <2>4. ws \in Seq(Cells) /\ Len(ws) = EcmdsLen
    <3>1. \A i \in 1 .. EcmdsLen : Cell(IF i = 1 THEN Env(env_m) ELSE Tex, {}, 0) \in Cells
      BY <2>3 DEF Cell, Cells
    <3>2. QED  BY <2>2, <3>1
  <2>5. ~Shows(c) /\ ~Shows(Tex)
    BY DEF Shows, Env, Tex, Cmd
  <2>6. \A n \in 1 .. Len(ws) : ~Visible(ws[n])
    BY <2>4, <2>5 DEF Visible, Cell
  <2>7. Effect(c) = <<>>
    BY <2>5 DEF Effect
  <2> HIDE DEF ws, c
  <2>8. Shown(ws) = <<>>
    BY <2>4, <2>6, ShownNone
  <2>9. QED  BY <2>1, <2>3, <2>7, <2>8, TellShows
<1>4. QED  BY <1>1, <1>2, <1>3

(* An upload waits for the ring to be empty, or goes through it.           *)
LEMMA DmaShows ==
  ASSUME TypeOK, RingInv, EnvInv, RestInv, TodoParts, TodoParts', DmaCall
  PROVE  FifoStep
<1>1. PICK c \in Dmas :
          IF Quiet \/ Room(pos_added) < DmaRoom(c)
          THEN mpc' = "sync" /\ op' = [NoOp EXCEPT !.rest = <<c>>, !.ret = "vram"]
          ELSE /\ mpc' = "dma"
               /\ op' = [NoOp EXCEPT !.rest = <<c>>, !.pa = pos_added, !.ret = "publish"]
  BY DEF DmaCall
<1>2. /\ UNCHANGED <<ringVars, threadVars>> /\ mpc = "idle"
  BY DEF DmaCall, AddCall, Call
<1>3. op.ret = "idle" /\ UnhShows = <<>> /\ RestShows = <<>>
  BY <1>2, NoneLeft
<1>4. /\ op'.unh = <<>> /\ op'.rest = <<c>> /\ op'.line = 0
      /\ op'.ret = "vram" \/ (op'.ret = "publish" /\ op'.pa = pos_added)
  BY <1>1 DEF NoOp
<1>5. RingStill
  BY <1>2, <1>3, <1>4 DEF RingStill, WritePos
<1>6. NotAdded' = <<c>>
  BY <1>4 DEF NotAdded
<1>7. c \in Cmds /\ c.op = "dma"
  BY CmdAssumption
<1>8. Effect(c) = <<c>> /\ <<c>> \in Submissions
  BY <1>7 DEF Effect, Shows, Submissions
<1>9. UnhShows' = <<>> /\ RestShows' = <<c>> /\ <<c>> \in Seq(Cmds)
  BY <1>4, <1>6, <1>7, <1>8, ShownType, OneShows DEF UnhShows, RestShows
<1>10. UnhShows' \o RestShows' = <<c>>
  BY <1>9, ConcatEmptySeq
<1>11. QED  BY <1>3, <1>5, <1>8, <1>10, StillShows, Submits

(* An upload is the only command of its call.                              *)
OneUpload == mpc = "dma" => Tail(op.rest) = <<>>

(* Every step keeps it so.                                                 *)
LEMMA OneUploadNext ==
  ASSUME TypeInv, OneUpload, [Next]_vars
  PROVE  OneUpload'
<1>0. op \in OpRecords
  BY DEF TypeInv, TypeOK
<1>1. CASE DmaCall
  <2>1. PICK c : op' = [NoOp EXCEPT !.rest = <<c>>, !.ret = "vram"]
                 \/ op' = [NoOp EXCEPT !.rest = <<c>>, !.pa = pos_added, !.ret = "publish"]
    BY <1>1 DEF DmaCall
  <2>2. op'.rest = <<c>>
    BY <2>1 DEF NoOp
  <2>3. QED  BY <2>2 DEF OneUpload
<1>2. CASE DmaAdd
  <2>1. PICK x, y, z : op' = [op EXCEPT !.line = x, !.pa = y, !.bad = z]
    BY <1>2 DEF DmaAdd
  <2>2. mpc = "dma" /\ op'.rest = op.rest
    BY <1>0, <1>2, <2>1 DEF DmaAdd, OpRecords
  <2>3. QED  BY <2>2 DEF OneUpload
<1>3. CASE ListCall \/ Prefix \/ Loop \/ LoopEnd \/ Publish \/ KickAfterList \/ AddWithWait \/ AddLock
           \/ AddWoken \/ Break \/ EcmdsCall \/ Direct \/ DmaPublish \/ Vram \/ VramCall \/ Sync \/ FullWoken
  <2>1. mpc' # "dma"
    BY <1>3 DEF ListCall, Prefix, Loop, LoopEnd, ScanoutWait, Publish, KickAfterList, AddWithWait, AddLock,
                AddWoken, WaitForRoom, Break, EcmdsCall, Direct, DmaPublish, Vram, VramCall, Sync, FullWoken, Done
  <2>2. QED  BY <2>1 DEF OneUpload
<1>4. CASE TryDelayedFlip \/ StopCall \/ TargetWait \/ TargetWoken \/ SetExit \/ SignalExit \/ Join \/ EnableCall
           \/ Synced \/ Scan
  <2>1. mpc' # "dma"
    BY <1>0, <1>4 DEF TryDelayedFlip, StopCall, TargetWait, TargetWoken, SetExit, SignalExit, Join, EnableCall,
                Synced, Scan, Done, OpRecords
  <2>2. QED  BY <2>1 DEF OneUpload
<1>5. CASE ScanoutCall
  <2>1. PICK cs \in CalcScanout(screen) :
          CASE cs.ret = 0 -> mpc' = "scan" /\ op' = [op EXCEPT !.reg = screen] /\ UNCHANGED flip
            [] cs.ret # 0 /\ FrameSkip -> flip' = screen /\ UNCHANGED <<mpc, op>>
            [] OTHER -> ScanoutWait(cs, screen) /\ UNCHANGED flip
    BY <1>5 DEF ScanoutCall
  <2>2. mpc = "idle"
    BY <1>5 DEF ScanoutCall, Call
  <2>3. mpc' # "dma"
    <3>1. CASE cs.ret = 0
      BY <2>1, <3>1
    <3>2. CASE cs.ret # 0 /\ FrameSkip
      BY <2>1, <2>2, <3>2
    <3>3. CASE cs.ret # 0 /\ ~FrameSkip
      BY <2>1, <3>3 DEF ScanoutWait
    <3>4. QED  BY <3>1, <3>2, <3>3
  <2>4. QED  BY <2>3 DEF OneUpload
<1>6. CASE SyncEcmds \/ ScreenCall \/ InterlaceCall
  <2>1. \E c, ws : Tell(c, ws)
    BY <1>6 DEF SyncEcmds, ScreenCall, InterlaceCall
  <2>2. mpc' # "dma"
    BY <2>1 DEF Tell
  <2>3. QED  BY <2>2 DEF OneUpload
<1>7. CASE Thread \/ SpuriousWake \/ OffSetEnv \/ UNCHANGED vars
  <2>1. UNCHANGED mainVars
    BY <1>7 DEF Thread, ThreadLock, Top, Sleep, Unlock, Flush, Render, Commit, SpuriousWake, OffSetEnv, vars
  <2>2. QED  BY <2>1 DEF OneUpload
<1>8. QED
  BY <1>1, <1>2, <1>3, <1>4, <1>5, <1>6, <1>7 DEF Next, MainCall, MainStep

-----------------------------------------------------------------------------
(* Of three sequences, the second is made of u and y, the first of q and x; *)
(* e comes from the third.                                                 *)
Passed(q, u, r, x, y, e) == ((q \o x) \o (u \o y)) \o r = (q \o u) \o (e \o r)
(* Such a move leaves the whole as it is.                                  *)
LEMMA MovesLeft ==
  \A q, u, r, e \in Seq(Cmds) : Passed(q, u, r, <<>>, e, e) /\ Passed(q, <<>>, r, e, <<>>, e)
<1> SUFFICES ASSUME NEW q \in Seq(Cmds), NEW u \in Seq(Cmds), NEW r \in Seq(Cmds), NEW e \in Seq(Cmds)
             PROVE  Passed(q, u, r, <<>>, e, e) /\ Passed(q, <<>>, r, e, <<>>, e)
  OBVIOUS
<1>1. q \o <<>> = q /\ <<>> \o <<>> = <<>>
  BY ConcatEmptySeq, EmptySeq
<1>2. PICK k \in Seq(Cmds) : k = q \o u
  BY ConcatProperties
<1>3. q \o (u \o e) = k \o e
  BY <1>2, ConcatAssociative
<1>4. (k \o e) \o r = k \o (e \o r)
  BY ConcatAssociative
<1>5. (q \o (u \o e)) \o r = (q \o u) \o (e \o r)
  BY <1>2, <1>3, <1>4
<1>6. PICK h \in Seq(Cmds) : h = q \o e
  BY ConcatProperties
<1>7. h \o <<>> = h
  BY ConcatEmptySeq
<1>8. (q \o e) \o r = q \o (e \o r)
  BY ConcatAssociative
<1>9. Passed(q, u, r, <<>>, e, e)
  BY <1>1, <1>5 DEF Passed
<1>10. Passed(q, <<>>, r, e, <<>>, e)
  BY <1>1, <1>6, <1>7, <1>8 DEF Passed
<1>11. QED  BY <1>9, <1>10

(* A command goes from the list to the ring or behind what did not fit.    *)
LEMMA Passes ==
  ASSUME TodoParts, TodoParts', NEW x, NEW y, NEW e \in Seq(Cmds),
         RingShows' = RingShows \o x, UnhShows' = UnhShows \o y, RestShows = e \o RestShows',
         (x = e /\ y = <<>> /\ UnhShows = <<>>) \/ (x = <<>> /\ y = e)
  PROVE  FifoStep
<1>1. PICK q \in Seq(Cmds), u \in Seq(Cmds), r \in Seq(Cmds) : q = RingShows /\ u = UnhShows /\ r = RestShows'
  BY DEF TodoParts
<1>2. PICK t : t = Todo'
  OBVIOUS
<1>3. t = ((q \o x) \o (u \o y)) \o r /\ Todo = (q \o u) \o (e \o r)
  BY <1>1, <1>2 DEF TodoParts
<1>4. Passed(q, u, r, x, y, e)
  BY <1>1, MovesLeft
<1>5. QED  BY <1>2, <1>3, <1>4 DEF FifoStep, Passed

(* Nothing moves but what the ring and the words that did not fit show.    *)
LEMMA PassesOn ==
  ASSUME TodoParts, TodoParts', RestShows' = RestShows,
         \/ RingShows' = RingShows \o UnhShows /\ UnhShows' = <<>>
         \/ RingShows' = RingShows /\ UnhShows' = UnhShows
  PROVE  FifoStep
<1>1. PICK q, u, r, t : q = RingShows /\ u = UnhShows /\ r = RestShows /\ t = Todo'
  OBVIOUS
<1>2. /\ q \in Seq(Cmds) /\ u \in Seq(Cmds) /\ Todo = (q \o u) \o r
      /\ t = ((q \o u) \o <<>>) \o r \/ t = (q \o u) \o r
  BY <1>1 DEF TodoParts
<1>3. (q \o u) \o <<>> = q \o u
  BY <1>2, ConcatEmptySeq
<1>4. QED  BY <1>1, <1>2, <1>3 DEF FifoStep

(* The environment commands the main thread executes itself.               *)
LEMMA PrefixShows ==
  ASSUME TypeOK, RingInv, EnvInv, TodoParts, TodoParts', Prefix
  PROVE  FifoStep
<1>1. op \in OpRecords /\ op.rest \in Seq(Cmds) /\ op.ret = "publish"
  BY RingTypes DEF TypeOK, OpRecords, RingInv, RetInv, Prefix
<1>2. /\ UNCHANGED <<ringVars, threadVars>> /\ mpc = "prefix" /\ mpc' \in {"prefix", "loop"}
  BY DEF Prefix
<1>3. op' = op \/ (op.rest # <<>> /\ Head(op.rest).op \in {"env", "tex"}
                   /\ op' = [op EXCEPT !.rest = Tail(@), !.some = TRUE])
  BY DEF Prefix
<1>4. CASE op' = op
  BY <1>1, <1>2, <1>4, CallGoesOn
<1>5. CASE op.rest # <<>> /\ Head(op.rest).op \in {"env", "tex"} /\ op' = [op EXCEPT !.rest = Tail(@), !.some = TRUE]
  <2>1. op'.rest = Tail(op.rest) /\ op'.unh = op.unh /\ op'.pa = op.pa /\ op'.ret = op.ret
    BY <1>1, <1>5 DEF OpRecords
  <2>2. RingStill
    BY <1>2, <2>1 DEF RingStill, WritePos
  <2>3. NotAdded = op.rest /\ NotAdded' = Tail(op.rest)
    BY <1>2, <2>1 DEF NotAdded
  <2>4. Effect(Head(op.rest)) = <<>>
    BY <1>5 DEF Effect, Shows
  <2>5. RestShows = <<>> \o RestShows'
    BY <1>1, <1>5, <2>3, <2>4, HeadsSplit DEF RestShows
  <2>6. UnhShows' = UnhShows
    BY <2>1 DEF UnhShows
  <2>7. RestShows' = RestShows
    <3>1. PICK r : r = RestShows'
      OBVIOUS
    <3>2. r \in Seq(Cmds) /\ RestShows = <<>> \o r
      BY <2>5, <3>1 DEF TodoParts
    <3>3. QED  BY <3>1, <3>2, ConcatEmptySeq
  <2>8. QED  BY <2>2, <2>6, <2>7, StillShows, PassesOn
<1>6. QED  BY <1>3, <1>4, <1>5

(* A command of a list goes into the ring, or behind the words that did    *)
(* not fit; one that is skipped shows nothing.                             *)
LEMMA LoopShows ==
  ASSUME TypeOK, RingInv, EnvInv, TodoParts, TodoParts', Loop
  PROVE  FifoStep
<1> DEFINE c == Head(op.rest)
           skip == Redundant(c) \/ (c.op = "copy" /\ c.r = {})
           ghost == IF c.op = "draw" THEN env_m ELSE {}
           add == CanAdd /\ ~skip
           handled == CanAdd /\ (skip \/ Fits(op.pa, Len0(c)))
           ws == Head0(c, ghost)
           pa2 == IF add THEN AddedPos(op.pa, Len0(c)) ELSE op.pa
           unh2 == IF handled THEN op.unh ELSE op.unh \o ws
           some2 == op.some \/ handled
           rend2 == op.rend \/ Rendered(c)
           brk2 == op.brk \/ (c.op = "env" /\ ~Redundant(c))
<1>1. /\ op \in OpRecords /\ op.rest \in Seq(Cmds) /\ op.rest # <<>> /\ op.ret = "publish"
      /\ op.unh \in Seq(Cells) /\ env_m \in Regions
  BY RingTypes DEF TypeOK, OpRecords, RingInv, RetInv, Loop
<1>2. c \in Cmds /\ ghost \in Regions
  BY <1>1 DEF Regions
<1>3. /\ mpc = "loop" /\ mpc' = "loop" /\ pos_used' = pos_used /\ pos_added' = pos_added
      /\ UNCHANGED threadVars
      /\ cells' = IF add THEN Filled(op.pa, ws) ELSE cells
      /\ op' = [op EXCEPT !.rest = Tail(@), !.pa = pa2, !.can = handled, !.some = some2,
                          !.unh = unh2, !.rend = rend2, !.brk = brk2]
  BY DEF Loop
<1>4. skip => Effect(c) = <<>>
  BY DEF Effect, Shows, Redundant
<1>5. CanAdd => op.unh = <<>>
  BY <1>3, AreasNow DEF UnhInv, CanAdd
<1> HIDE DEF c, skip, ghost, add, handled, ws, pa2, unh2, some2, rend2, brk2
<1>6. ws \in Seq(Cells) /\ Len(ws) = Len0(c) /\ Shown(ws) = Effect(c) /\ Effect(c) \in Seq(Cmds)
  BY <1>2, HeadType, ShownHead, OneShows DEF ws
<1>7. /\ op'.rest = Tail(op.rest) /\ op'.pa = pa2 /\ op'.unh = unh2 /\ op'.ret = "publish"
  BY <1>1, <1>3 DEF OpRecords
<1>8. WritePos = op.pa /\ WritePos' = pa2 /\ Executed' = Executed
  BY <1>1, <1>3, <1>7 DEF WritePos, Executed
<1>9. NotAdded = op.rest /\ NotAdded' = Tail(op.rest)
  BY <1>3, <1>7 DEF NotAdded
<1>10. RestShows = Effect(c) \o RestShows'
  BY <1>1, <1>9, HeadsSplit DEF RestShows, c
<1>11. UnhShows' = UnhShows \o (IF handled THEN <<>> ELSE Effect(c))
  <2>1. UnhShows \in Seq(Cmds)
    BY DEF TodoParts
  <2>2. CASE handled
    BY <1>7, <2>1, <2>2, ConcatEmptySeq DEF UnhShows, unh2
  <2>3. CASE ~handled
    <3>1. Shown(op.unh \o ws) = Shown(op.unh) \o Shown(ws)
      BY <1>1, <1>6, ShownConcat
    <3>2. QED  BY <1>6, <1>7, <2>3, <3>1 DEF UnhShows, unh2
  <2>4. QED  BY <2>2, <2>3
<1>12. RingShows' = RingShows \o (IF add /\ Fits(op.pa, Len0(c)) THEN Effect(c) ELSE <<>>)
  <2>1. CASE add
    <3>1. cells' = Filled(WritePos, ws) /\ WritePos' = AddedPos(WritePos, Len(ws)) /\ pos_used' = pos_used
      BY <1>3, <1>6, <1>8, <2>1 DEF pa2
    <3>2. RingShows' = RingShows \o (IF Fits(WritePos, Len(ws)) THEN Shown(ws) ELSE <<>>)
      BY <1>6, <1>8, <3>1, FilledShows
    <3>3. QED  BY <1>6, <1>8, <2>1, <3>2
  <2>2. CASE ~add
    <3>1. RingStill
      BY <1>3, <1>8, <2>2 DEF RingStill, pa2
    <3>2. RingShows' = RingShows /\ RingShows \in Seq(Cmds)
      BY <3>1, StillShows DEF TodoParts
    <3>3. QED  BY <2>2, <3>2, ConcatEmptySeq
  <2>3. QED  BY <2>1, <2>2
<1>13. <<>> \in Seq(Cmds)
  BY EmptySeq
<1>14. CASE handled /\ skip
  BY <1>4, <1>6, <1>10, <1>11, <1>12, <1>13, <1>14, Passes DEF add
<1>15. CASE handled /\ ~skip
  <2>1. UnhShows = <<>> /\ add /\ Fits(op.pa, Len0(c))
    BY <1>5, <1>15, ShownType DEF handled, add, UnhShows
  <2>2. QED  BY <1>6, <1>10, <1>11, <1>12, <1>13, <1>15, <2>1, Passes
<1>16. CASE ~handled
  <2>1. ~(add /\ Fits(op.pa, Len0(c)))
    BY <1>16 DEF handled, add
  <2>2. QED  BY <1>6, <1>10, <1>11, <1>12, <1>13, <1>16, <2>1, Passes
<1>17. QED  BY <1>14, <1>15, <1>16

(* do_add_with_wait: what did not fit goes into the ring.                  *)
LEMMA AddWithWaitShows ==
  ASSUME TypeOK, RingInv, TodoParts, TodoParts', AddWithWait
  PROVE  FifoStep
<1>1. /\ op \in OpRecords /\ op.ret # "publish" /\ op.unh \in Seq(Cells)
  BY RingTypes DEF TypeOK, RingInv, RetInv, AddWithWait
<1>2. /\ mpc = "add" /\ mpc' \in {"break", "addlock"} /\ pos_used' = pos_used
      /\ UNCHANGED threadVars /\ cells' = Filled(pos_added, op.unh)
      /\ pos_added' = AddedPos(pos_added, Len(op.unh))
      /\ op' = IF Fits(pos_added, Len(op.unh)) THEN [op EXCEPT !.unh = <<>>] ELSE op
  BY DEF AddWithWait
<1>3. /\ op'.ret = op.ret /\ op'.rest = op.rest
      /\ op'.unh = IF Fits(pos_added, Len(op.unh)) THEN <<>> ELSE op.unh
  BY <1>1, <1>2 DEF OpRecords
<1>4. WritePos = pos_added /\ WritePos' = pos_added' /\ Executed' = Executed
  BY <1>1, <1>2, <1>3 DEF WritePos, Executed
<1>5. RingShows' = RingShows \o (IF Fits(WritePos, Len(op.unh)) THEN Shown(op.unh) ELSE <<>>)
  BY <1>1, <1>2, <1>4, FilledShows
<1>6. RestShows' = RestShows
  BY <1>2, <1>3 DEF RestShows, NotAdded
<1>7. CASE Fits(pos_added, Len(op.unh))
  <2>1. RingShows' = RingShows \o UnhShows /\ UnhShows' = <<>>
    BY <1>3, <1>4, <1>5, <1>7, ShownType DEF UnhShows
  <2>2. QED  BY <1>6, <2>1, PassesOn
<1>8. CASE ~Fits(pos_added, Len(op.unh))
  <2>1. RingShows \in Seq(Cmds)
    BY DEF TodoParts
  <2>2. RingShows' = RingShows /\ UnhShows' = UnhShows
    BY <1>3, <1>4, <1>5, <1>8, <2>1, ConcatEmptySeq DEF UnhShows
  <2>3. QED  BY <1>6, <2>2, PassesOn
<1>9. QED  BY <1>7, <1>8

(* The break command is nothing that shows.                                *)
LEMMA BreakShows ==
  ASSUME TypeOK, RingInv, EnvInv, RestInv, TodoParts, TodoParts', Break
  PROVE  FifoStep
<1> DEFINE ws == Head0(Brk, {})
<1>1. op.ret # "publish" /\ mpc = "break" /\ mpc' = "idle" /\ op' = NoOp /\ pos_used' = pos_used
      /\ UNCHANGED threadVars
  BY DEF RingInv, RetInv, Break, Done
<1>2. ws \in Seq(Cells) /\ Len(ws) = Len0(Brk) /\ Shown(ws) = <<>>
  <2>1. Brk \in Cmds /\ Brk.op = "brk" /\ {} \in Regions
    BY ConstantTypes DEF Brk, Cmd, Regions
  <2>2. Effect(Brk) = <<>>
    BY <2>1 DEF Effect, Shows
  <2>3. QED  BY <2>1, <2>2, HeadType, ShownHead
<1>3. (cells' = Filled(pos_added, ws) /\ pos_added' = AddedPos(pos_added, Len(ws)))
      \/ (cells' = cells /\ pos_added' = pos_added)
  BY <1>2 DEF Break
<1> HIDE DEF ws
<1>4. WritePos = pos_added /\ WritePos' = pos_added' /\ Executed' = Executed
  BY <1>1, NoOpHolds DEF WritePos, Executed
<1>5. op.unh = <<>> /\ op.rest = <<>> /\ op'.unh = <<>> /\ op'.rest = <<>>
  BY <1>1, NothingLeft DEF Adding, RestInv, NoOp
<1>6. UnhShows' = UnhShows /\ RestShows' = RestShows
  BY <1>1, <1>5 DEF UnhShows, RestShows, NotAdded
<1>7. RingShows' = RingShows
  <2>1. RingShows \in Seq(Cmds) /\ RingShows \o <<>> = RingShows
    BY ConcatEmptySeq DEF TodoParts
  <2>2. CASE cells' = Filled(pos_added, ws) /\ pos_added' = AddedPos(pos_added, Len(ws))
    <3>1. RingShows' = RingShows \o (IF Fits(WritePos, Len(ws)) THEN Shown(ws) ELSE <<>>)
      BY <1>1, <1>2, <1>4, <2>2, FilledShows
    <3>2. QED  BY <1>2, <2>1, <3>1
  <2>3. CASE cells' = cells /\ pos_added' = pos_added
    BY <1>1, <1>4, <2>3, StillShows DEF RingStill
  <2>4. QED  BY <1>3, <2>2, <2>3
<1>8. QED  BY <1>6, <1>7, PassesOn

(* do_dma_write: the header of an upload is the upload; its lines follow   *)
(* in one step each, with room for all.                                    *)
LEMMA DmaAddShows ==
  ASSUME TypeOK, RingInv, RingInv', EnvInv, OneUpload, TodoParts, TodoParts', DmaAdd
  PROVE  FifoStep
<1> DEFINE c == Head(op.rest)
           ws == DmaWords(c)
<1>1. /\ op \in OpRecords /\ op.ret = "publish" /\ mpc = "dma" /\ mpc' = "dma"
      /\ op.rest \in Seq(Cmds) /\ UNCHANGED <<pos_used, threadVars>>
      /\ cells' = Filled(op.pa, ws)
      /\ op' = [op EXCEPT !.line = @ + 1, !.pa = AddedPos(@, Len(ws)), !.bad = @ \/ ~Fits(op.pa, Len(ws))]
  BY RingTypes DEF DmaAdd, RingInv, RetInv, TypeOK, OpRecords
<1>2. /\ op'.pa = AddedPos(op.pa, Len(ws)) /\ op'.unh = op.unh /\ op'.ret = op.ret /\ op'.rest = op.rest
      /\ op'.line = op.line + 1 /\ op.line \in Nat
  BY <1>1 DEF OpRecords
<1>3. op'.bad = (op.bad \/ ~Fits(op.pa, Len(ws)))
  <2> HIDE DEF ws
  <2>1. QED  BY <1>1, Zenon DEF OpRecords
<1>4. Fits(op.pa, Len(ws))
  <2>1. ~op'.bad
    BY DEF RingInv, UploadInv
  <2> HIDE DEF ws
  <2>2. QED  BY <1>3, <2>1
<1>5. c \in Dmas /\ c \in Cmds /\ c.op = "dma" /\ c.s \in Nat /\ op.rest # <<>> /\ Tail(op.rest) = <<>>
  <2>1. c \in Dmas /\ op.rest # <<>>
    BY <1>1 DEF RingInv, UploadInv
  <2>2. QED  BY <1>1, <2>1, CmdAssumption, CmdFields DEF OneUpload
<1>6. ws \in Seq(Cells) /\ Shown(ws) = IF op.line = 0 THEN <<c>> ELSE <<>>
  <2>1. {} \in Regions
    BY DEF Regions
  <2>2. CASE op.line = 0
    <3>1. ws = Head0(c, {}) /\ Effect(c) = <<c>>
      BY <1>5, <2>2 DEF DmaWords, Effect, Shows
    <3> HIDE DEF c, ws
    <3>2. Shown(Head0(c, {})) = Effect(c) /\ Head0(c, {}) \in Seq(Cells)
      BY <1>5, <2>1, HeadType, ShownHead
    <3>3. QED  BY <2>2, <3>1, <3>2
  <2>3. CASE op.line # 0
    <3> DEFINE f == 3 + (op.line - 1) * c.s
    <3>1. ws = Words(c, {}, f, c.s)
      BY <2>3 DEF DmaWords
    <3>2. f \in Nat /\ f > 0
      <4>1. op.line - 1 \in Nat
        BY <1>2, <2>3
      <4> HIDE DEF c
      <4>2. (op.line - 1) * c.s \in Nat
        BY <1>5, <4>1
      <4>3. QED  BY <4>2
    <3> HIDE DEF c, ws, f
    <3>3. ws \in Seq(Cells)
      BY <1>5, <2>1, <3>1, <3>2, WordsType
    <3>4. Len(ws) = c.s /\ \A i \in 1 .. c.s : ws[i].k = f + i - 1
      BY <1>5, <3>1 DEF Words, Cell
    <3>5. \A i \in 1 .. Len(ws) : ~Visible(ws[i])
      <4> SUFFICES ASSUME NEW i \in 1 .. Len(ws)  PROVE ws[i].k # 0
        BY DEF Visible
      <4>1. ws[i].k = f + i - 1 /\ i \in Int /\ i >= 1
        BY <1>5, <3>4
      <4>2. QED  BY <3>2, <4>1
    <3>6. QED  BY <2>3, <3>3, <3>5, ShownNone
  <2>4. QED  BY <2>2, <2>3
<1> HIDE DEF c, ws
<1>7. WritePos = op.pa /\ WritePos' = op'.pa /\ Executed' = Executed
  BY <1>1, <1>2 DEF WritePos, Executed
<1>8. RingShows' = RingShows \o Shown(ws)
  <2>1. RingShows' = RingShows \o (IF Fits(WritePos, Len(ws)) THEN Shown(ws) ELSE <<>>)
    BY <1>1, <1>2, <1>6, <1>7, FilledShows
  <2>2. QED  BY <1>4, <1>7, <2>1
<1>9. UnhShows = <<>> /\ UnhShows' = <<>>
  <2>1. op.unh = <<>>
    BY <1>1, AreasNow DEF UnhInv
  <2>2. QED  BY <1>2, <2>1, ShownType DEF UnhShows
<1>10. RestShows' = <<>>
  <2>1. op'.line > 0
    BY <1>2
  <2>2. NotAdded' = <<>>
    BY <1>1, <2>1 DEF NotAdded
  <2>3. QED  BY <2>2, HeadsType DEF RestShows
<1>11. CASE op.line = 0
  <2>1. NotAdded = op.rest
    BY <1>11 DEF NotAdded
  <2>2. Effect(c) = <<c>> /\ <<c>> \in Seq(Cmds)
    BY <1>5 DEF Effect, Shows
  <2>3. RestShows = <<c>> \o RestShows'
    <3>1. Shown(Heads(op.rest)) = Effect(c) \o Shown(Heads(<<>>))
      BY <1>1, <1>5, HeadsSplit DEF c
    <3>2. QED  BY <1>10, <2>1, <2>2, <3>1, HeadsType DEF RestShows
  <2>4. RingShows' = RingShows \o <<c>> /\ UnhShows' = UnhShows \o <<>>
    BY <1>6, <1>8, <1>9, <1>11, ConcatEmptySeq, EmptySeq
  <2>5. QED  BY <1>9, <2>2, <2>3, <2>4, Passes
<1>12. CASE op.line # 0
  <2>1. NotAdded = <<>>
    BY <1>1, <1>2, <1>12 DEF NotAdded
  <2>2. RestShows = <<>>
    BY <2>1, HeadsType DEF RestShows
  <2>3. RingShows' = RingShows
    <3>1. RingShows \in Seq(Cmds)
      BY DEF TodoParts
    <3>2. QED  BY <1>6, <1>8, <1>12, <3>1, ConcatEmptySeq
  <2>4. QED  BY <1>9, <1>10, <2>2, <2>3, PassesOn
<1>13. QED  BY <1>11, <1>12

(* An upload is published.                                                 *)
LEMMA DmaPublishShows ==
  ASSUME TypeOK, RingInv, EnvInv, TodoParts, TodoParts', DmaPublish
  PROVE  FifoStep
<1>1. /\ mpc = "dma" /\ mpc' = "idle" /\ pos_added' = op.pa /\ UNCHANGED <<pos_used, cells>>
      /\ op' = NoOp /\ tdone' = tdone /\ (tpc' = tpc \/ "done" \notin {tpc, tpc'})
      /\ op.line > Head(op.rest).h
  BY DEF DmaPublish, Kick, Done
<1>2. op.ret = "publish" /\ op'.ret = "idle" /\ op'.unh = <<>> /\ op'.rest = <<>>
  BY <1>1 DEF RingInv, RetInv, NoOp
<1>3. RingStill
  BY <1>1, <1>2 DEF RingStill, WritePos
<1>4. op.unh = <<>>
  BY <1>1, NothingLeft DEF Adding
<1>5. op.line > 0
  <2> DEFINE c == Head(op.rest)
  <2>1. c \in Dmas /\ op.line \in Nat
    BY <1>1, RingTypes DEF RingInv, UploadInv, TypeOK, OpRecords
  <2>2. c.h \in Nat
    BY <2>1, CmdAssumption, CmdFields
  <2>3. op.line > c.h
    BY <1>1
  <2> HIDE DEF c
  <2>4. QED  BY <2>1, <2>2, <2>3
<1>6. NotAdded = <<>> /\ NotAdded' = <<>>
  BY <1>1, <1>2, <1>5 DEF NotAdded
<1>7. UnhShows' = UnhShows /\ RestShows' = RestShows
  BY <1>2, <1>4, <1>6 DEF UnhShows, RestShows
<1>8. QED  BY <1>3, <1>7, StillShows, PassesOn

(* An empty ring, in the next state.                                       *)
LEMMA EmptyAfter == (Written = Executed /\ Written \in Int)' => (RingShows = <<>>)'
BY EmptyShows, PTL

(* When all is quiet the main thread does what is left by itself.          *)
LEMMA QuietShows ==
  ASSUME TypeOK, RingInv, EnvInv, Handover, TodoParts, TodoParts', Direct \/ Vram
  PROVE  FifoStep
<1>1. /\ mpc \in {"direct", "vram"} /\ op' = NoOp /\ UNCHANGED ringVars /\ UNCHANGED threadVars
  BY DEF Direct, Vram, Done
<1>2. op.ret # "publish"
  BY <1>1 DEF RingInv, RetInv
<1>3. Written = 0
  <2>1. CASE mpc = "direct"
    BY <2>1, AreasNow
  <2>2. CASE mpc = "vram"
    <3>1. Quiet
      BY <2>2 DEF Handover, QuietInv
    <3>2. WritePos = pos_used /\ pos_used \in Int
      BY <1>2, <3>1, RingTypes DEF WritePos, Quiet, Positions
    <3>3. QED  BY <3>2 DEF Written, Diff
  <2>3. QED  BY <1>1, <2>1, <2>2
<1>4. WritePos' = WritePos
  BY <1>1, <1>2, NoOpHolds DEF WritePos
<1>5. Written' = 0 /\ Executed = 0 /\ Executed' = 0
  BY <1>1, <1>3, <1>4, ExecutedIs DEF Written, Executed
<1>6. op'.unh = <<>> /\ op'.rest = <<>>
  BY <1>1 DEF NoOp
<1>7. RingShows' = <<>>
  BY <1>5, EmptyAfter
<1>8. QED  BY <1>6, <1>7, AllDone

(* gpu_async_enable finds nothing left to do.                              *)
LEMMA EnableShows ==
  ASSUME TypeOK, TodoParts, TodoParts', EnableCall
  PROVE  FifoStep
<1>1. op' = NoOp /\ pos_added' = 0 /\ pos_used' = 0 /\ tpc' = "start"
  BY DEF EnableCall
<1>2. op'.unh = <<>> /\ op'.rest = <<>> /\ op'.ret = "idle"
  BY <1>1 DEF NoOp
<1>3. Written' = 0 /\ Executed' = 0
  BY <1>1, <1>2 DEF Written, WritePos, Diff, Executed
<1>4. RingShows' = <<>>
  BY <1>3, EmptyAfter
<1>5. QED  BY <1>2, <1>4, AllDone

(* The gpu thread carries out the oldest of what is left.                  *)
LEMMA ThreadShows ==
  ASSUME TypeOK, TypeOK', RingInv, RingInv', TodoParts, TodoParts', Render \/ Commit
  PROVE  FifoStep
<1>1. UNCHANGED mainVars
  BY DEF Render, Commit
<1>2. UnhShows' = UnhShows /\ RestShows' = RestShows
  BY <1>1 DEF UnhShows, RestShows, NotAdded
<1>3. CASE Render
  <2>1. PICK es \in Seq(Cmds) : RingShows = es \o RingShows'
    BY <1>3, RenderShows
  <2>2. PICK q \in Seq(Cmds), u \in Seq(Cmds), r \in Seq(Cmds) : q = RingShows' /\ u = UnhShows /\ r = RestShows
    BY <1>2 DEF TodoParts
  <2>3. PICK t : t = Todo'
    OBVIOUS
  <2>4. Todo = ((es \o q) \o u) \o r /\ t = (q \o u) \o r
    BY <1>2, <2>1, <2>2, <2>3 DEF TodoParts
  <2>5. Todo = es \o t
    <3>1. (es \o q) \o u = es \o (q \o u)
      BY ConcatAssociative
    <3>2. PICK k \in Seq(Cmds) : k = q \o u
      BY ConcatProperties
    <3>3. (es \o k) \o r = es \o (k \o r)
      BY ConcatAssociative
    <3>4. QED  BY <2>4, <3>1, <3>2, <3>3
  <2>6. QED  BY <2>3, <2>5, CarriesOut
<1>4. CASE Commit
  <2>1. RingShows' = RingShows
    BY <1>4, CommitShows
  <2>2. QED  BY <1>2, <2>1, PassesOn
<1>5. QED  BY <1>3, <1>4

(* Every step submits, carries out, or neither.                            *)
FifoInv == TypeInv /\ RingInv /\ EnvInv /\ Handover /\ RestInv /\ OneUpload

(* Every step is one of CmdFifo or none.                                   *)
LEMMA FifoNext ==
  ASSUME FifoInv, FifoInv', [Next]_vars
  PROVE  FifoStep
<1>0. /\ TypeOK /\ RingInv /\ EnvInv /\ Handover /\ RestInv /\ OneUpload /\ TypeOK' /\ RingInv'
      /\ TodoParts /\ TodoParts'
  BY TodoIs, TodoStays DEF FifoInv, TypeInv
<1>1. CASE LoopEnd \/ Publish \/ KickAfterList \/ AddLock \/ AddWoken \/ EcmdsCall \/ ScanoutCall
           \/ TryDelayedFlip \/ VramCall \/ StopCall \/ Sync \/ FullWoken \/ Synced \/ TargetWait
           \/ TargetWoken \/ Scan \/ SetExit \/ SignalExit \/ Join
  BY <1>0, <1>1, QuietCalls
<1>2. CASE ListCall  BY <1>0, <1>2, ListShows
<1>3. CASE ScreenCall \/ InterlaceCall \/ SyncEcmds  BY <1>0, <1>3, MessagesShow
<1>4. CASE DmaCall  BY <1>0, <1>4, DmaShows
<1>5. CASE Prefix  BY <1>0, <1>5, PrefixShows
<1>6. CASE Loop  BY <1>0, <1>6, LoopShows
<1>7. CASE AddWithWait  BY <1>0, <1>7, AddWithWaitShows
<1>8. CASE Break  BY <1>0, <1>8, BreakShows
<1>9. CASE DmaAdd  BY <1>0, <1>9, DmaAddShows
<1>10. CASE DmaPublish  BY <1>0, <1>10, DmaPublishShows
<1>11. CASE Direct \/ Vram  BY <1>0, <1>11, QuietShows
<1>12. CASE EnableCall  BY <1>0, <1>12, EnableShows
<1>13. CASE Render \/ Commit  BY <1>0, <1>13, ThreadShows
<1>14. CASE ThreadLock \/ Top \/ Sleep \/ Unlock \/ Flush \/ SpuriousWake \/ OffSetEnv \/ UNCHANGED vars
  <2>1. UNCHANGED <<ringVars, mainVars>> /\ tdone' = tdone
    BY <1>14 DEF ThreadLock, Top, Sleep, Unlock, Flush, SpuriousWake, OffSetEnv, vars
  <2>2. tpc' = tpc \/ "done" \notin {tpc, tpc'}
    BY <1>14 DEF ThreadLock, Top, Sleep, Unlock, Flush, SpuriousWake, OffSetEnv, vars
  <2>3. QED  BY <2>1, <2>2, StaysThere
<1>15. QED
  BY <1>1, <1>2, <1>3, <1>4, <1>5, <1>6, <1>7, <1>8, <1>9, <1>10, <1>11, <1>12, <1>13, <1>14
  DEF Next, MainCall, MainStep, Thread

(* The same as a step formula.                                             *)
LEMMA FifoSteps == FifoInv /\ FifoInv' /\ [Next]_vars => [Fifo!Next]_Todo
BY FifoNext DEF FifoStep

(* Nothing is left to do in the beginning.                                 *)
LEMMA FifoInit == Init => EnvInv /\ RestInv /\ OneUpload /\ Todo = <<>>
<1> SUFFICES ASSUME Init  PROVE EnvInv /\ RestInv /\ OneUpload /\ Todo = <<>>
  OBVIOUS
<1>1. Emptied /\ TypeOK
  BY TypeInit DEF Init, Emptied, TypeInv
<1>2. RingInv /\ EnvInv
  BY <1>1, EmptiedIsSafe, EmptiedInAreas
<1>3. /\ pos_added = 0 /\ pos_used = 0 /\ tpc = "start" /\ mpc = "ecmds"
      /\ op.unh = <<>> /\ op.rest = <<>> /\ op.ret = "idle"
  BY <1>1 DEF Emptied, NoOp
<1>4. RestInv /\ OneUpload
  BY <1>3 DEF RestInv, OneUpload
<1>5. Written = Executed /\ Written \in Int
  BY <1>3 DEF Written, WritePos, Diff, Executed
<1>6. RingShows = <<>>
  BY <1>5, EmptyShows
<1>7. UnhShows = <<>> /\ RestShows = <<>>
  BY <1>2, <1>3, <1>4, NoneLeft
<1>8. <<>> \in Seq(Cmds) /\ <<>> \o <<>> = <<>>
  BY EmptySeq, ConcatEmptySeq
<1>9. Todo = (RingShows \o UnhShows) \o RestShows
  BY <1>1, <1>2, TodoIs DEF TodoParts
<1>10. Todo = <<>>
  BY <1>6, <1>7, <1>8, <1>9
<1>11. QED  BY <1>2, <1>4, <1>10

(* Whatever the program submits to the gpu shows in the order it was       *)
(* submitted, once: through the ring, behind what did not fit, or told to  *)
(* the renderer by the main thread itself (gpu_async_do_cmd_list,          *)
(* gpu_async_try_dma, gpu_async_thread).                                   *)
THEOREM CommandsAreInOrder == Spec /\ NoSpuriousWake /\ WideUploads => ImplementsFifo
<1>1. Init => EnvInv /\ RestInv /\ OneUpload /\ Fifo!Init
  BY FifoInit DEF Fifo!Init
<1>2. TypeInv /\ TypeInv' /\ RingInv /\ EnvInv /\ [Next]_vars => EnvInv'
  BY EnvNext
<1>3. TypeInv /\ RestInv /\ [Next]_vars => RestInv'
  BY RestNext
<1>4. TypeInv /\ OneUpload /\ [Next]_vars => OneUpload'
  BY OneUploadNext
<1>5. TypeInv /\ RingInv /\ EnvInv /\ Handover /\ RestInv /\ OneUpload => FifoInv
  BY DEF FifoInv
<1>6. QED
  BY <1>1, <1>2, <1>3, <1>4, <1>5, RingInvHolds, HandoverInv, FifoSteps, PTL
  DEF Spec, ImplementsFifo, Fifo!Spec
=============================================================================
