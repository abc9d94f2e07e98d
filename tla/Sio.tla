-------------------------------- MODULE Sio ---------------------------------
(* The serial port (sio.c), the memory cards behind it, and the pads       *)
(* (pad.c).  The program sends a byte and reads the byte that comes back;  *)
(* the device counts the bytes of the exchange to know what each means.    *)
(* Meanwhile the frontend may change a card, plug the pads again, switch a *)
(* pad's mode, or load a saved state.                                      *)
EXTENDS Naturals, FiniteSets, Sequences, FiniteSetsExt

CONSTANTS
  FrameLen,   \* the bytes of a frame of a card (128)
  Frames,     \* the frames a program addresses
  Data,       \* what it writes into them
  Slots,      \* the ports in use
  Types,      \* the kind of pad plugged into each port
  Swaps,      \* the ports whose card the frontend may change
  MidPad,     \* a state is loaded that was saved within an exchange with a pad
  Saves,      \* a state may be saved when so many bytes have been exchanged
  None,       \* no saved state
  MaxStarts,  \* bound: exchanges
  MaxActs     \* bound: actions of the frontend

ASSUME SioAssumption ==
  /\ FrameLen \in Nat \ {0, 1} /\ Frames \subseteq 0 .. 255 /\ Data \subseteq [1 .. FrameLen -> 0 .. 255]
  /\ Slots \subseteq {1, 2} /\ Swaps \subseteq Slots
  /\ Types \in [Slots -> {"none", "standard", "analog"}]
  /\ MidPad \in BOOLEAN /\ Saves \subseteq Nat
  /\ MaxStarts \in Nat /\ MaxActs \in Nat

VARIABLES
  sio,      \* the registers and the static variables of sio.c
  posted,   \* PSXINT_SIO is posted
  istat,    \* bit 7 of I_STAT
  pads,     \* g.pads of pad.c
  reqPos,   \* g.reqPos
  replug,   \* g.replug_frame: the pads are unplugged for a while
  card,     \* Mcd1Data, Mcd2Data
  McdFlag,  \* the cards marked as new
  McdDisable,
  saved,    \* a saved state
  ex,       \* the program and the exchange as the devices should see it
  starts, acts

portVars == <<sio, posted, istat>>
padVars == <<pads, reqPos, replug>>
cardVars == <<card, McdFlag, McdDisable>>
vars == <<sio, posted, istat, pads, reqPos, replug, card, McdFlag, McdDisable, saved, ex,
          starts, acts>>

(* The bytes that mean something *)
HiZ == 255
PadSel == 1
CardSel == 129
CmdPoll == 66
CmdConfig == 67
CmdMode == 68
CmdRead == 82
CmdWrite == 87
Id5a == 90

(* The last byte of an exchange with a card that writes or reads a frame, *)
(* counted from the first byte sent                                       *)
WriteLen == FrameLen + 10
ReadLen == FrameLen + 12

Blank == [f \in Frames |-> [i \in 1 .. FrameLen |-> 0]]
(* the bytes combined by xor: a bit is set if it is set in an odd number   *)
Checksum(s) ==
  LET odd(k) == Cardinality({i \in DOMAIN s : (s[i] \div 2^k) % 2 = 1}) % 2
  IN  MapThenSumSet(LAMBDA k : odd(k) * 2^k, 0 .. 7)
Bit6(v) == (v \div 64) % 2 = 1

(* memcpy of bytes s into buf from index at *)
Put(buf, at, s) ==
  [i \in DOMAIN buf |-> IF i \in at .. at + Len(s) - 1 THEN s[i - at + 1] ELSE buf[i]]

-----------------------------------------------------------------------------
(* The exchange as the devices should see it: the bytes sent, and what the *)
(* answer depends on, as it was when the device looked at it.              *)
Nothing == [sent |-> <<>>, step |-> "ready", got |-> HiZ, there |-> FALSE,
            flag |-> FALSE, frame |-> <<>>, id |-> HiZ, len |-> 0, gone |-> FALSE]

IsPad(e) == Len(e.sent) > 0 /\ e.sent[1] = PadSel
IsCard(e) == Len(e.sent) > 0 /\ e.sent[1] = CardSel /\ e.there
Command(e) == e.sent[2]
Written(e) == SubSeq(e.sent, 7, 6 + FrameLen)

(* the bytes of the exchange, from the first one sent *)
PadLength(e) == IF Len(e.sent) > 1 /\ (e.gone \/ ~Bit6(Command(e))) THEN Len(e.sent) ELSE 1 + e.len
CardLength(e) ==
  IF Len(e.sent) > 1 /\ Command(e) = CmdWrite THEN WriteLen
  ELSE IF Len(e.sent) > 1 /\ Command(e) # CmdRead THEN 2
  ELSE ReadLen
Length(e) ==
  IF IsPad(e) THEN PadLength(e) ELSE IF IsCard(e) THEN CardLength(e) ELSE Len(e.sent)

Over(e) == Len(e.sent) = Length(e)

PadAnswer(e, n) ==
  IF n = 1 \/ e.gone \/ n > 1 + e.len THEN HiZ
  ELSE CASE n = 2 -> IF Bit6(Command(e)) THEN e.id ELSE HiZ
         [] n = 3 -> Id5a
         [] OTHER -> 0

(* the flag, the address, the frame and its checksum, or what was written  *)
Reply(e) ==
  LET hl == <<e.sent[5], e.sent[6]>>
  IN  <<92, 93>> \o hl \o e.frame \o <<Checksum(hl \o e.frame), 71>>
CardAnswer(e, n) ==
  CASE n = 1 -> HiZ
    [] n = 2 -> IF e.flag THEN 8 ELSE 0
    [] n \in {3, 4} -> <<90, 93>>[n - 2]
    [] n = 5 -> 0
    [] n = 6 -> e.sent[5]
    [] n > 6 /\ Command(e) = CmdRead -> Reply(e)[n - 6]
    [] n = 7 /\ Command(e) = CmdWrite -> e.sent[6]
    [] n \in 8 .. 7 + FrameLen /\ Command(e) = CmdWrite -> e.sent[n - 1]
    [] OTHER -> <<92, 93, 71>>[n - 7 - FrameLen]

Answer(e) ==
  IF IsPad(e) THEN PadAnswer(e, Len(e.sent))
  ELSE IF IsCard(e) THEN CardAnswer(e, Len(e.sent))
  ELSE HiZ

(* What a program may send next *)
PadBytes(n) ==
  CASE n = 1 -> {CmdPoll, CmdConfig, CmdMode, 0}
    [] n = 3 -> {0, 1}
    [] OTHER -> {0}
DataBytes(e, n) == {d[n - 5] : d \in {d \in Data : SubSeq(e.sent, 7, n) = SubSeq(d, 1, n - 6)}}
CardBytes(e, n) ==
  IF n = 1 THEN {CmdRead, CmdWrite, 0}
  ELSE IF n = 5 THEN Frames
  ELSE IF n \in 6 .. 5 + FrameLen /\ Command(e) = CmdWrite THEN DataBytes(e, n)
  ELSE {0}
Bytes(e) ==
  IF Over(e) THEN {PadSel, CardSel, 0}
  ELSE IF IsPad(e) THEN PadBytes(Len(e.sent))
  ELSE CardBytes(e, Len(e.sent))

-----------------------------------------------------------------------------
(* The pads *)
Unplugged == [type |-> "none", respSize |-> 0, rx0 |-> HiZ, cmd |-> 0,
              configMode |-> FALSE, padMode |-> FALSE]

(* the kind of answer; readPort takes over the kind of pad plugged in *)
PADstartPoll(pad, type) ==
  LET p == [pad EXCEPT !.type = type] IN
  CASE type = "none" -> [p EXCEPT !.rx0 = HiZ, !.respSize = 1]
    [] type = "analog" /\ (p.padMode \/ p.configMode) -> [p EXCEPT !.rx0 = 115, !.respSize = 8]
    [] OTHER -> [p EXCEPT !.rx0 = 65, !.respSize = 4]

initBufForRequest(p, v) ==
  IF p.configMode THEN [p EXCEPT !.rx0 = 243, !.respSize = 8]
  ELSE IF v \notin {CmdPoll, CmdConfig} THEN [p EXCEPT !.respSize = 1]
  ELSE p

reqIndex2Treatment(p, v) ==
  CASE p.cmd = CmdConfig /\ v \in {0, 1} -> [p EXCEPT !.configMode = (v = 1)]
    [] p.cmd = CmdMode /\ v \in {0, 1} -> [p EXCEPT !.padMode = (v = 1)]
    [] OTHER -> p

PADpoll(pad, v, pos) ==
  LET p == IF pos # 0 THEN pad
           ELSE IF v # CmdPoll /\ pad.type # "analog"
                THEN [pad EXCEPT !.cmd = v, !.respSize = 1, !.rx0 = HiZ]
           ELSE [pad EXCEPT !.cmd = v]
  IN CASE p.type = "analog" /\ pos = 0 -> initBufForRequest(p, v)
       [] p.type = "analog" /\ pos = 2 -> reqIndex2Treatment(p, v)
       [] OTHER -> p

(* mutant: the last byte but one is taken for the last *)
more_dataShort(p, pos) == pos + 2 < p.respSize
more_data(p, pos) == pos + 1 < p.respSize

Received(p, pos) ==
  IF pos >= p.respSize THEN HiZ
  ELSE CASE pos = 0 -> p.rx0
         [] pos = 1 -> Id5a
         [] OTHER -> 0

-----------------------------------------------------------------------------
Init ==
  /\ sio = [port |-> 1, dtr |-> FALSE, rx |-> FALSE, irq |-> FALSE, padst |-> 0, mcdst |-> 0,
            rdwr |-> 0, adrH |-> 0, adrL |-> 0, parp |-> 0, bufcount |-> 0,
            buf |-> [i \in 0 .. FrameLen + 8 |-> 0]]
  /\ posted = FALSE /\ istat = FALSE
  /\ pads = [p \in Slots |-> Unplugged] /\ reqPos = 0 /\ replug = FALSE
  /\ card = [p \in Slots |-> Blank] /\ McdFlag = [p \in Slots |-> TRUE]
  /\ McdDisable = [p \in Slots |-> FALSE]
  /\ saved = None /\ ex = Nothing
  /\ starts = 0 /\ acts = 0

(* sioWriteCtrl16: select a device, or none; acknowledge the interrupt.  A  *)
(* program acknowledges the last interrupt before it selects a device.     *)
(* mutant: the exchange with a card is left standing *)
IdleKeepsCard(s) == [s EXCEPT !.padst = 0, !.parp = 0, !.rx = FALSE, !.irq = FALSE]
Idle(s) == [s EXCEPT !.padst = 0, !.mcdst = 0, !.parp = 0, !.rx = FALSE, !.irq = FALSE]

Select(p) ==
  /\ ~sio.dtr /\ ~istat
  /\ sio' = [sio EXCEPT !.port = p, !.dtr = TRUE]
  /\ ex' = Nothing
  /\ UNCHANGED <<posted, istat, padVars, cardVars, saved>>

Deselect ==
  /\ sio.dtr
  /\ sio' = [Idle(sio) EXCEPT !.dtr = FALSE]
  /\ posted' = FALSE
  /\ ex' = Nothing
  /\ UNCHANGED <<istat, padVars, cardVars, saved>>

Acknowledge ==
  /\ ex.step = "ready" /\ (sio.irq \/ istat)
  /\ sio' = [sio EXCEPT !.irq = FALSE]
  /\ istat' = FALSE
  /\ UNCHANGED <<posted, padVars, cardVars, saved, ex>>

-----------------------------------------------------------------------------
(* sioWrite8: the program sends byte b                                     *)
Sent(b) == [(IF Over(ex) THEN Nothing ELSE ex) EXCEPT !.sent = Append(@, b), !.step = "wait"]

StartPad ==
  LET pad == PADstartPoll(pads[sio.port], Types[sio.port]) IN
  /\ sio' = [sio EXCEPT !.rx = TRUE, !.buf[0] = HiZ, !.bufcount = 1, !.parp = 0, !.padst = 1]
  /\ posted' = TRUE
  /\ pads' = [pads EXCEPT ![sio.port] = pad] /\ reqPos' = 0
  /\ ex' = [Sent(PadSel) EXCEPT !.id = pad.rx0, !.len = pad.respSize]
  /\ UNCHANGED <<replug, cardVars>>

StartCard ==
  LET there == ~McdDisable[sio.port]
      flag == McdFlag[sio.port]
  IN
  /\ sio' = IF there
             THEN [sio EXCEPT !.buf = Put(@, 0, <<HiZ, IF flag THEN 8 ELSE 0, 90, 93>>),
                              !.rx = TRUE, !.parp = 0, !.bufcount = 3, !.mcdst = 1, !.rdwr = 0]
             ELSE [sio EXCEPT !.rx = TRUE, !.buf[0] = HiZ, !.parp = 0, !.bufcount = 0]
  /\ posted' = (posted \/ there)
  /\ ex' = [Sent(CardSel) EXCEPT !.there = there, !.flag = flag]
  /\ UNCHANGED <<padVars, cardVars>>

StartNothing(b) ==
  /\ b \notin {PadSel, CardSel}
  /\ sio' = [sio EXCEPT !.rx = TRUE, !.buf[0] = HiZ, !.parp = 0, !.bufcount = 0]
  /\ ex' = Sent(b)
  /\ UNCHANGED <<posted, padVars, cardVars>>

Begin(b) ==
  /\ sio.padst = 0 /\ sio.mcdst = 0
  /\ IF b = PadSel THEN StartPad ELSE IF b = CardSel THEN StartCard ELSE StartNothing(b)

(* the answer of a pad in a poll of this kind, if the first byte b says so *)
PadKind(e, p, b) ==
  CASE p.type = "analog" /\ p.configMode -> [e EXCEPT !.id = 243, !.len = 8]
    [] p.type = "analog" /\ ~p.configMode /\ b \notin {CmdPoll, CmdConfig} -> [e EXCEPT !.len = 1]
    [] p.type # "analog" /\ b # CmdPoll -> [e EXCEPT !.id = HiZ, !.len = 1]
    [] OTHER -> e

PadRefuses(b) ==
  /\ sio.padst = 1 /\ ~Bit6(b)
  /\ sio' = [sio EXCEPT !.padst = 0]
  /\ ex' = Sent(b)
  /\ UNCHANGED <<posted, padVars, cardVars>>

PadByte(b) ==
  LET p == sio.port
      first == sio.padst = 1
      pad == PADpoll(pads[p], b, reqPos)
      more == ~replug /\ more_data(pad, reqPos)
      at == IF first THEN 1 ELSE sio.parp + 1
  IN
  /\ sio.padst # 0 /\ (first => Bit6(b))
  /\ reqPos' = reqPos + 1
  /\ IF replug THEN replug' \in BOOLEAN /\ UNCHANGED pads
     ELSE pads' = [pads EXCEPT ![p] = pad] /\ UNCHANGED replug
  /\ sio' = [sio EXCEPT !.padst = 2, !.parp = at,
                        !.buf[at] = IF replug THEN HiZ ELSE Received(pad, reqPos),
                        !.bufcount = IF more THEN at + 1 ELSE @]
  /\ posted' = (posted \/ more)
  /\ ex' = [(IF first THEN PadKind(Sent(b), pads[p], b) ELSE Sent(b)) EXCEPT !.gone = replug]
  /\ UNCHANGED cardVars

(* the command, and the bytes that follow it *)
CardCommand(b) ==
  /\ sio.mcdst = 1
  /\ sio' = CASE sio.rdwr # 0 -> [sio EXCEPT !.parp = @ + 1]
              [] sio.rdwr = 0 /\ b = CmdRead -> [sio EXCEPT !.parp = 1, !.rdwr = 1]
              [] sio.rdwr = 0 /\ b = CmdWrite -> [sio EXCEPT !.parp = 1, !.rdwr = 2]
              [] OTHER -> [sio EXCEPT !.parp = 1, !.mcdst = 0]
  /\ ex' = Sent(b)
  /\ UNCHANGED McdFlag

CardAddress(b) ==
  /\ sio.mcdst \in {2, 3}
  /\ sio' = IF sio.mcdst = 2
             THEN [sio EXCEPT !.adrH = b, !.buf[0] = 0, !.parp = 0, !.bufcount = 1, !.mcdst = 3]
             ELSE [sio EXCEPT !.adrL = b, !.buf[0] = sio.adrH, !.parp = 0, !.bufcount = 1,
                              !.mcdst = 4]
  /\ ex' = Sent(b)
  /\ UNCHANGED McdFlag

Frame == sio.adrL + 256 * sio.adrH

CardAnswers(b) ==
  LET hl == <<sio.adrH, sio.adrL>>
      data == card[sio.port][Frame]
      n == FrameLen + IF sio.rdwr = 1 THEN 5 ELSE 3
      reply == IF sio.rdwr = 1
               THEN Put(sio.buf, 0, <<92, 93>> \o hl \o data \o <<Checksum(hl \o data), 71>>)
               ELSE Put(Put(sio.buf, 0, <<sio.adrL, b>>), FrameLen + 1, <<92, 93, 71>>)
  IN
  /\ sio.mcdst = 4
  /\ sio' = [sio EXCEPT !.parp = 0, !.buf = reply, !.bufcount = n, !.mcdst = 5]
  /\ ex' = [Sent(b) EXCEPT !.frame = data]
  /\ UNCHANGED McdFlag

CardData(b) ==
  LET at == sio.parp + 1
      writes == sio.rdwr = 2
  IN
  /\ sio.mcdst = 5
  /\ sio' = [sio EXCEPT !.parp = at,
                        !.buf = IF writes /\ at < FrameLen THEN Put(@, at + 1, <<b>>) ELSE @]
  /\ McdFlag' = [McdFlag EXCEPT ![sio.port] = @ /\ ~(writes /\ at = FrameLen + 1)]
  /\ ex' = Sent(b)

CardByte(b) ==
  /\ sio.padst = 0
  /\ CardCommand(b) \/ CardAddress(b) \/ CardAnswers(b) \/ CardData(b)
  /\ posted' = TRUE
  /\ UNCHANGED <<padVars, card, McdDisable>>

Send ==
  \E b \in Bytes(ex) :
    /\ sio.dtr /\ ex.step = "ready"
    /\ Begin(b) \/ PadRefuses(b) \/ PadByte(b) \/ CardByte(b)
    /\ UNCHANGED <<istat, saved>>

(* sioRead8: the last byte of the answer ends the exchange *)
AfterLast(s) ==
  [s EXCEPT !.rx = (s.mcdst = 1),
            !.mcdst = CASE @ = 5 -> 0 [] @ = 1 -> 2 [] OTHER -> @,
            !.padst = IF @ = 2 THEN 0 ELSE @]

(* mutant: what was read is written back *)
CommitsAnyway(s) == s.rx /\ s.parp = s.bufcount /\ s.mcdst = 5
Commits(s) == s.rx /\ s.parp = s.bufcount /\ s.mcdst = 5 /\ s.rdwr = 2

Read ==
  /\ sio.dtr /\ ex.step = "wait"
  /\ ex' = [ex EXCEPT !.step = "ready", !.got = IF sio.rx THEN sio.buf[sio.parp] ELSE 0]
  /\ sio' = IF sio.rx /\ sio.parp = sio.bufcount THEN AfterLast(sio) ELSE sio
  /\ card' = IF Commits(sio)
              THEN [card EXCEPT ![sio.port][Frame] = [i \in 1 .. FrameLen |-> sio.buf[i]]]
              ELSE card
  /\ UNCHANGED <<posted, istat, padVars, McdFlag, McdDisable, saved>>

sioInterrupt ==
  /\ posted /\ posted' = FALSE
  /\ sio' = [sio EXCEPT !.irq = TRUE]
  /\ istat' = (istat \/ ~sio.irq)
  /\ UNCHANGED <<padVars, cardVars, saved, ex>>

-----------------------------------------------------------------------------
(* The frontend *)
LoadMcd(p) ==
  /\ p \in Swaps
  /\ McdFlag' = [McdFlag EXCEPT ![p] = TRUE]
  /\ \/ card' = [card EXCEPT ![p] = Blank] /\ McdDisable' = [McdDisable EXCEPT ![p] = FALSE]
     \/ McdDisable' = [McdDisable EXCEPT ![p] = TRUE] /\ UNCHANGED card
  /\ UNCHANGED <<portVars, padVars, saved, ex>>

padChanged ==
  /\ pads' = [p \in Slots |-> Unplugged] /\ reqPos' = 0 /\ replug' = TRUE
  /\ UNCHANGED <<portVars, cardVars, saved, ex>>

padToggleAnalog(p) ==
  /\ Types[p] = "analog"
  /\ pads' = [pads EXCEPT ![p].padMode = ~@]
  /\ UNCHANGED <<portVars, reqPos, replug, cardVars, saved, ex>>

(* a saved state holds the port, the pads and the program, not the cards   *)
Save ==
  /\ saved = None /\ Len(ex.sent) \in Saves /\ (MidPad \/ sio.padst = 0)
  /\ saved' = [sio |-> sio, posted |-> posted, istat |-> istat, pads |-> pads, ex |-> ex]
  /\ UNCHANGED <<portVars, padVars, cardVars, ex>>

Load ==
  /\ saved # None
  /\ sio' = saved.sio /\ posted' = saved.posted /\ istat' = saved.istat
  /\ pads' = saved.pads /\ ex' = saved.ex
  /\ McdFlag' = [p \in Slots |-> TRUE]
  /\ UNCHANGED <<reqPos, replug, card, McdDisable, saved>>

-----------------------------------------------------------------------------
Program ==
  /\ (\E p \in Slots : Select(p)) \/ Deselect \/ Acknowledge \/ Send \/ Read
  /\ starts' = starts + (IF Len(ex'.sent) = 1 /\ ex.step = "ready" /\ ex'.step = "wait" THEN 1 ELSE 0)
  /\ starts' <= MaxStarts /\ UNCHANGED acts
Frontend ==
  /\ acts < MaxActs /\ acts' = acts + 1 /\ UNCHANGED starts
  /\ \/ \E p \in Slots : LoadMcd(p) \/ padToggleAnalog(p)
     \/ padChanged \/ Save \/ Load
Interrupt == sioInterrupt /\ UNCHANGED <<starts, acts>>
Next == Program \/ Interrupt \/ Frontend
Spec == Init /\ [][Next]_vars

TypeOK ==
  /\ sio.padst \in 0 .. 2 /\ sio.mcdst \in 0 .. 5 /\ sio.rdwr \in 0 .. 2
  /\ sio.parp \in DOMAIN sio.buf /\ sio.bufcount \in DOMAIN sio.buf
  /\ sio.port \in {1, 2} /\ {sio.dtr, sio.rx, sio.irq, posted, istat, replug} \subseteq BOOLEAN
  /\ ex.step \in {"ready", "wait"} /\ Len(ex.sent) <= ReadLen

-----------------------------------------------------------------------------
(* A byte that comes back is the device's answer to the bytes of this      *)
(* exchange: no count of bytes is left over from the exchange before, a    *)
(* frame that is read is the frame of one card at one moment, and a pad    *)
(* that is unplugged answers nothing                                       *)
AnswerTruth ==
  ex.step = "ready" /\ ex.sent # <<>> => ex.got = Answer(ex)

(* A card changes only when the frontend changes it and when the last byte *)
(* of a write is read, and then the frame that was addressed becomes what  *)
(* the program sent, as a whole                                            *)
WriteDone ==
  /\ acts' = acts                       \* the program's step, no load of a state
  /\ ex.step = "wait" /\ ex'.step = "ready" /\ ex'.sent = ex.sent
  /\ IsCard(ex) /\ Over(ex) /\ Command(ex) = CmdWrite
CardTruth ==
  [][\A p \in Slots :
       IF WriteDone /\ p = sio.port
       THEN card'[p] = [card[p] EXCEPT ![ex.sent[6] + 256 * ex.sent[5]] = Written(ex)]
       ELSE card'[p] = card[p] \/ (card'[p] = Blank /\ McdFlag'[p])]_vars

(* A byte after which the device expects another one is followed by an     *)
(* interrupt, for which the program waits before it sends the next         *)
Awaited ==
  ex.step = "wait" /\ ~Over(ex) => posted \/ istat

(* The program is told of a new card before the mark is taken away: "card  *)
(* likely changed since the state save, let the game know" (sio.c:787)     *)
Told ==
  [][\A p \in Slots : McdFlag[p] /\ ~McdFlag'[p] => ex.flag]_vars
=============================================================================
