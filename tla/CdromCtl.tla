------------------------------ MODULE CdromCtl ------------------------------
(* The CD-ROM controller as the program sees it (cdrom.c): commands, their *)
(* first and second responses, the sectors of a read, the sound of a play, *)
(* and the lid.  One interrupt is outstanding at a time; a response waits  *)
(* for it to be acknowledged, and a sector that cannot be announced is     *)
(* remembered in Irq1Pending.                                              *)
(*                                                                         *)
(* When an event is due is Events' concern: here any of the posted events  *)
(* may come between two accesses of the program, in any order.  What a     *)
(* sector holds, and the threads that read it, are CdromAsync's concern.   *)
EXTENDS Naturals

CONSTANTS
  End,       \* cdr.SetSectorEnd: the sectors are 0 .. End
  Locs,      \* the sectors a program gives to Setloc
  Commands,  \* the commands in use
  Repeats,   \* a command may be repeated while its own second response is due
  Tight,     \* a sector may come between an acknowledgement and the hand-out
             \* of the sector that waited for it
  Fails,     \* a read of a sector may fail
  None,      \* no command, no sector
  MaxOps,    \* bound: commands written
  MaxLids    \* bound: calls of the frontend that open the lid

CDR == "CDR"
CDREAD == "CDREAD"
CDRLID == "CDRLID"

(* One command for each way a command is handled: Forward also stands for  *)
(* Backward, SeekL for SeekP, ReadN for ReadS, Getparam for Setmode, Test  *)
(* and GetQ, Mute for Demute, Setfilter, GetlocP and GetTN, and Invalid    *)
(* for the codes that are no command.  Sync, whose code is that of no      *)
(* command, is left out.                                                   *)
Cmds == {"Nop", "Setloc", "Play", "Forward", "ReadN", "Standby", "Stop", "Pause",
         "Reset", "Mute", "Getparam", "GetlocL", "ReadT", "GetTD", "SeekL", "ID",
         "Init", "ReadToc", "Invalid"}
While_not_ready == {"Nop", "Setloc", "Reset", "Getparam", "Init", "ReadToc"}

ASSUME CtlAssumption ==
  /\ End \in Nat \ {0} /\ Locs \subseteq 0 .. End /\ Commands \subseteq Cmds
  /\ {Repeats, Tight, Fails} \subseteq BOOLEAN
  /\ None \notin Cmds /\ None \notin Nat /\ MaxOps \in Nat /\ MaxLids \in Nat

VARIABLES
  cdr,      \* the controller: struct cdr of cdrom.c, and the events of it
            \* that are posted (psxRegs.interrupt)
  buffer,   \* cdra_getBuffer(): the last sector read
  shut,     \* the lid (the frontend's)
  asked,    \* history: the command written last, until its first response
  newest,   \* history: the last sector read when a sector was announced
  ops, lids

vars == <<cdr, buffer, shut, asked, newest, ops, lids>>

NoIntr == "none"     \* cdr.IrqStat; the program acknowledges all its bits at once
Irqs == {NoIntr, "DataReady", "Complete", "Acknowledge", "DataEnd", "DiskError"}
Drives == {"standby", "lid_open", "rescan", "prepare", "stopped", "paused",
           "play_read", "seek"}
Status == {"play", "seek", "read", "shell", "rot"}

Sectors == 0 .. End + 1 \cup {None}     \* Pos goes one past the last
Ctl == [
  IrqStat : Irqs, CmdInProgress : Cmds \cup {None}, part : {1, 2}, Cmd : Cmds \cup {None},
  Irq1Pending : {"none", "ok", "error"},
  Result : Cmds \cup {"sector", "error", "report", "lid", "none"}, Transfer : Sectors,
  DriveState : Drives, StatP : SUBSET Status, Pos : 0 .. End + 1, SetSector : Locs \cup {0},
  Reading : BOOLEAN, Play : BOOLEAN, SetlocPending : BOOLEAN, LocL : BOOLEAN, failed : BOOLEAN,
  Forward : 0 .. 2, posted : SUBSET {CDR, CDREAD, CDRLID}]

TypeOK ==
  /\ cdr \in Ctl
  /\ buffer \in Sectors /\ newest \in Sectors
  /\ asked \in Cmds \cup {None} /\ shut \in BOOLEAN
  /\ ops \in 0 .. MaxOps /\ lids \in 0 .. MaxLids

-----------------------------------------------------------------------------
(* A handler works on s, the controller *)
(* mutant: the event is taken away and the flag stays *)
StopReadingEvent(s) == [s EXCEPT !.posted = @ \ {CDREAD}]

StopCdda(s) == [s EXCEPT !.Play = FALSE]
StopReading(s) == [s EXCEPT !.Reading = FALSE, !.posted = @ \ {CDREAD}]
Halt(s) == StopReading(StopCdda(s))
SetPlaySeekRead(s, f) == [s EXCEPT !.StatP = (@ \ {"play", "seek", "read"}) \cup f]
CDRPLAYREAD_INT(s) == [s EXCEPT !.posted = @ \cup {CDREAD}]
set_event(s, e) == [s EXCEPT !.posted = @ \cup {e}]

(* cdrReset: memset, softReset *)
Init ==
  /\ cdr = [IrqStat |-> NoIntr, CmdInProgress |-> None, part |-> 1, Cmd |-> None,
            Irq1Pending |-> "none", Result |-> "none", Transfer |-> None,
            DriveState |-> "standby", StatP |-> {"rot"}, Pos |-> 0, SetSector |-> 0,
            Reading |-> FALSE, Play |-> FALSE, SetlocPending |-> FALSE, LocL |-> FALSE,
            failed |-> FALSE, Forward |-> 0, posted |-> {}]
  /\ buffer = None /\ shut = TRUE
  /\ asked = None /\ newest = None /\ ops = 0 /\ lids = 0

-----------------------------------------------------------------------------
(* The registers *)

(* cdrWrite1 with index 0.  Parameters are chosen when the command runs.   *)
Write(c) ==
  /\ ops < MaxOps /\ ops' = ops + 1
  /\ Repeats \/ ~(cdr.part = 2 /\ cdr.CmdInProgress = c)
  /\ \/ /\ cdr.CmdInProgress = None
        /\ cdr' = [set_event(cdr, CDR) EXCEPT !.CmdInProgress = c, !.part = 1, !.Cmd = c]
     \/ /\ cdr.CmdInProgress # None
        /\ cdr' = [cdr EXCEPT !.CmdInProgress = IF cdr.part = 1 THEN c ELSE @, !.Cmd = c]
  /\ asked' = c
  /\ UNCHANGED <<buffer, shut, newest, lids>>

(* mutant: the acknowledgement forgets the sector that waits *)
WaitingCommand == cdr.CmdInProgress # None

(* what an acknowledgement posts the event for *)
Waiting == cdr.CmdInProgress # None \/ cdr.Irq1Pending # "none"

(* cdrWrite3 with index 1 *)
Acknowledge ==
  /\ cdr.IrqStat # NoIntr
  /\ cdr' = [(IF Waiting THEN set_event(cdr, CDR) ELSE cdr) EXCEPT !.IrqStat = NoIntr]
  /\ UNCHANGED <<buffer, shut, asked, newest, ops, lids>>

-----------------------------------------------------------------------------
(* cdrInterrupt: the commands.  An outcome is the state after the switch,  *)
(* the interrupt it raises, whether a second response follows and whether  *)
(* the disc starts to turn.                                                *)
Outcome(s, irq, second, start) == [s |-> s, irq |-> irq, second |-> second, start |-> start]
Plain(s) == Outcome(s, "Acknowledge", FALSE, FALSE)
Twice(s, start) == Outcome(s, "Acknowledge", TRUE, start)
Last(s) == Outcome(s, "Complete", FALSE, FALSE)
set_error(s) == Outcome(s, "DiskError", FALSE, FALSE)

softReset(s, id) ==
  [s EXCEPT !.DriveState = IF ~shut THEN "lid_open" ELSE IF id THEN "standby" ELSE "stopped",
            !.StatP = IF ~shut THEN {"shell"} ELSE IF id THEN {"rot"} ELSE {},
            !.LocL = FALSE]

(* a place given by Setloc is taken up *)
GoTo(s) == IF s.SetlocPending THEN [s EXCEPT !.Pos = s.SetSector, !.SetlocPending = FALSE] ELSE s

Setloc(s) ==
  IF "shell" \in s.StatP THEN {set_error(s)}
  ELSE {set_error(s), Plain(s)}     \* out of range, the hundredth time accepted
       \cup {Plain([s EXCEPT !.SetSector = p, !.SetlocPending = TRUE]) : p \in Locs}

(* a track's start (taken to be sector 0), the place given, or where it was *)
Play(s) ==
  LET halted == Halt(s)
  IN {Outcome(CDRPLAYREAD_INT(
        SetPlaySeekRead([t EXCEPT !.LocL = FALSE, !.Forward = 1, !.Play = TRUE,
                                  !.DriveState = "play_read", !.SetlocPending = FALSE],
                        {"seek", "rot"})),
        "Acknowledge", FALSE, TRUE)
      : t \in {GoTo(halted), [halted EXCEPT !.Pos = 0], halted}}

ReadN(s) ==
  IF s.Reading /\ ~s.SetlocPending THEN {Plain(s)}
  ELSE {set_error(s),               \* not a data disc
        Outcome(SetPlaySeekRead(CDRPLAYREAD_INT(
                  [GoTo(StopCdda(s)) EXCEPT !.Reading = TRUE, !.LocL = FALSE, !.Forward = 1,
                                            !.DriveState = "seek", !.failed = FALSE]),
                  {"seek"}),
                "Acknowledge", FALSE, TRUE)}

Stop(s) ==
  LET t == SetPlaySeekRead(Halt(s), {})
  IN Twice([t EXCEPT !.StatP = @ \ {"rot"}, !.LocL = FALSE, !.DriveState = "stopped",
                     !.Pos = IF s.Play THEN 0 ELSE @],
           FALSE)

(* the position goes back by the sectors read, four at most *)
Pause(s) ==
  LET t == [SetPlaySeekRead(Halt(s), {}) EXCEPT !.DriveState = "paused"]
  IN {[Twice([t EXCEPT !.Pos = @ - k], FALSE) EXCEPT
         !.irq = IF s.DriveState = "seek" THEN "DiskError" ELSE @]
      : k \in 0 .. (IF s.Pos > 4 THEN 4 ELSE s.Pos)}

SeekL(s) ==
  Twice([SetPlaySeekRead(Halt(s), {"seek", "rot"}) EXCEPT !.Pos = s.SetSector,
                                                          !.DriveState = "seek"],
        TRUE)

InitCmd(s) ==
  LET t == SetPlaySeekRead(Halt(s), {})
  IN Outcome(set_event([t EXCEPT !.StatP = @ \cup {"shell"}, !.DriveState = "rescan"], CDRLID),
             "Acknowledge", FALSE, TRUE)

First(s, c) ==
  CASE c = "Nop" ->
         {Plain(IF s.DriveState = "lid_open" THEN s ELSE [s EXCEPT !.StatP = @ \ {"shell"}])}
    [] c = "Setloc" -> Setloc(s)
    [] c = "Play" -> Play(s)
    [] c = "Forward" -> {Last(s)}
    [] c = "ReadN" -> ReadN(s)
    [] c = "Standby" -> {IF s.DriveState = "stopped" THEN Twice(s, TRUE) ELSE set_error(s)}
    [] c = "Stop" -> {Stop(s)}
    [] c = "Pause" -> Pause(s)
    [] c = "Reset" -> {Twice(softReset(Halt(s), id), TRUE) : id \in BOOLEAN}
    [] c \in {"Mute", "Getparam"} -> {Plain(s)}
    [] c = "GetlocL" -> {IF s.LocL THEN Plain(s) ELSE set_error(s)}
    [] c = "GetTD" -> {Plain(s), set_error(s)}
    [] c = "ReadT" -> {Twice(s, TRUE)}
    [] c = "SeekL" -> {SeekL(s)}
    [] c = "ID" -> {Twice(s, FALSE)}
    [] c = "Init" -> {InitCmd(s)}
    [] c = "ReadToc" -> {Twice([s EXCEPT !.LocL = FALSE], TRUE)}
    [] c = "Invalid" -> {set_error(s)}

(* the second responses; that of a seek reads the sector *)
Second(s, c, ok) ==
  IF c = "SeekL"
  THEN Last([SetPlaySeekRead(s, {}) EXCEPT !.LocL = ok \/ @, !.DriveState = "standby"])
  ELSE Last(s)

(* the limits while there is no disc or it is being scanned *)
NotReady(s, c) == \/ s.DriveState \in {"lid_open", "rescan"}
                  \/ s.DriveState = "prepare" /\ s.part = 1 /\ c \in {"Nop", "Setloc"}

(* "give up trying to emulate the startup seq" *)
Woken(s, c) ==
  IF s.DriveState = "prepare" /\ ~NotReady(s, c)
  THEN [s EXCEPT !.DriveState = "standby", !.StatP = @ \ {"seek"}, !.posted = @ \ {CDRLID}]
  ELSE s

Refused(s, c) == NotReady(s, c) /\ c \notin While_not_ready
Answers(s, c, ok) ==
  IF Refused(s, c) THEN {set_error(s)}
  ELSE IF s.part = 1 THEN First(Woken(s, c), c) ELSE {Second(Woken(s, c), c, ok)}

(* after the switch *)
Finish(o, c, part) ==
  LET s == IF o.start /\ o.s.DriveState = "stopped"
           THEN [o.s EXCEPT !.DriveState = "standby", !.StatP = @ \cup {"rot"}] ELSE o.s
      t == [s EXCEPT !.IrqStat = o.irq, !.Result = c]
  IN IF o.second THEN set_event([t EXCEPT !.CmdInProgress = c, !.part = 2], CDR)
     ELSE IF t.Cmd # None /\ t.Cmd # c THEN [t EXCEPT !.CmdInProgress = t.Cmd, !.part = 1]
     ELSE t

Taken(s) == [s EXCEPT !.CmdInProgress = None, !.Cmd = IF s.part = 1 THEN None ELSE @]

(* irq_test takes the event from psxRegs.interrupt before the handler *)
Due(e) == e \in cdr.posted
Fired(e) == [cdr EXCEPT !.posted = @ \ {e}]
Oks == IF Fails THEN BOOLEAN ELSE {TRUE}

(* cdrInterrupt: while an interrupt is outstanding nothing is done; the    *)
(* acknowledgement posts the event again                                   *)
TooEarly ==
  /\ Due(CDR) /\ cdr.IrqStat # NoIntr
  /\ cdr' = Fired(CDR)
  /\ UNCHANGED <<buffer, shut, asked, newest, ops, lids>>

(* cdrUpdateTransferBuf *)
Transferred(s, b) == [s EXCEPT !.Transfer = IF b = None THEN @ ELSE b]

(* cdrInterrupt: "hand out the newest sector".  Irq1Pending is cleared     *)
(* before it is tested, so an error is announced as data.                  *)
HandOut ==
  /\ Due(CDR) /\ cdr.IrqStat = NoIntr /\ cdr.Irq1Pending # "none"
  /\ cdr' = [Transferred(Fired(CDR), buffer) EXCEPT
                !.Result = IF cdr.Irq1Pending = "ok" THEN "sector" ELSE "error",
                !.Irq1Pending = "none", !.IrqStat = "DataReady"]
  /\ newest' = buffer
  /\ UNCHANGED <<buffer, shut, asked, ops, lids>>

(* cdrInterrupt: a command, or the second response of one *)
RunCommand ==
  LET c == cdr.CmdInProgress
      s == Taken(Fired(CDR))
      reads == c = "SeekL" /\ s.part = 2 /\ ~Refused(s, c)
  IN /\ Due(CDR) /\ cdr.IrqStat = NoIntr /\ cdr.Irq1Pending = "none" /\ c # None
     /\ \E ok \in IF reads THEN Oks ELSE {TRUE} :
          /\ \E o \in Answers(s, c, ok) : cdr' = Finish(o, c, s.part)
          /\ buffer' = IF reads /\ ok THEN cdr.Pos ELSE buffer
     /\ asked' = IF s.part = 1 THEN None ELSE asked
     /\ UNCHANGED <<shut, newest, ops, lids>>

-----------------------------------------------------------------------------
(* cdrPlayReadInterrupt *)

(* cdrReadInterruptSetResult *)
SetResult(s, ok) ==
  IF s.IrqStat # NoIntr
  THEN [s EXCEPT !.Irq1Pending = IF ok THEN "ok" ELSE "error"]
  ELSE [s EXCEPT !.Result = IF ok THEN "sector" ELSE "error",
                 !.IrqStat = IF ok THEN "DataReady" ELSE "DiskError"]

(* cdrReadInterrupt: a step of the head before the first sector *)
Approach ==
  /\ Due(CDREAD) /\ cdr.Reading /\ cdr.Forward < 2
  /\ cdr' = CDRPLAYREAD_INT([Fired(CDREAD) EXCEPT !.Forward = @ + 1])
  /\ UNCHANGED <<buffer, shut, asked, newest, ops, lids>>

(* mutant: a new sector replaces the one that is announced *)
MayTransferAlways(s) == s.IrqStat \in Irqs

(* the sector may replace the one the program is taking *)
MayTransfer(s) == s.IrqStat = NoIntr /\ s.Irq1Pending = "none"

(* cdrReadInterrupt: a sector, which goes to the program or to the sound   *)
ReadSector ==
  LET s == [SetPlaySeekRead(Fired(CDREAD), {"read"}) EXCEPT
              !.StatP = @ \cup {"rot"}, !.DriveState = "play_read"]
      got == IF MayTransfer(s) THEN Transferred(s, s.Pos) ELSE s
      on == CDRPLAYREAD_INT([got EXCEPT !.LocL = TRUE, !.Pos = @ + 1])
  IN /\ Due(CDREAD) /\ cdr.Reading /\ cdr.Forward = 2 /\ cdr.Pos <= End
     /\ Tight \/ ~(cdr.IrqStat = NoIntr /\ cdr.Irq1Pending # "none")
     /\ \/ \E deliver_data \in BOOLEAN :
             /\ cdr' = IF deliver_data THEN SetResult(on, TRUE) ELSE on
             /\ buffer' = cdr.Pos
             /\ newest' = IF deliver_data /\ cdr.IrqStat = NoIntr THEN cdr.Pos ELSE newest
        \/ /\ Fails
           /\ cdr' = [SetResult(s, FALSE) EXCEPT !.DriveState = "paused", !.failed = TRUE]
           /\ UNCHANGED <<buffer, newest>>
     /\ UNCHANGED <<shut, asked, ops, lids>>

(* a sector of sound; cdrPlayInterrupt_Autopause if its mode asks for it   *)
PlaySector ==
  LET s == [SetPlaySeekRead(Fired(CDREAD), {"play"}) EXCEPT !.DriveState = "play_read"]
      stopped(t) == [SetPlaySeekRead(StopCdda(t), {}) EXCEPT !.DriveState = "paused"]
      played == IF s.Pos = End THEN stopped(s) ELSE s
      on(t) == CDRPLAYREAD_INT([t EXCEPT !.Pos = @ + 1])
  IN /\ Due(CDREAD) /\ ~cdr.Reading /\ cdr.Play /\ cdr.Pos <= End
     /\ \/ cdr' = on(played)
        \/ /\ cdr.IrqStat = NoIntr
           /\ \/ cdr' = on([stopped(played) EXCEPT !.Result = "report", !.IrqStat = "DataEnd"])
              \/ cdr' = on([played EXCEPT !.Result = "report", !.IrqStat = "DataReady"])
     /\ UNCHANGED <<buffer, shut, asked, newest, ops, lids>>

(* neither: the event was left by a play that ended *)
NoSector ==
  /\ Due(CDREAD) /\ ~cdr.Reading /\ ~cdr.Play
  /\ cdr' = Fired(CDREAD)
  /\ UNCHANGED <<buffer, shut, asked, newest, ops, lids>>

-----------------------------------------------------------------------------
(* cdrLidSeekInterrupt, with the lid as the frontend has it *)

LidStandby(s, open) ==
  LET t == SetPlaySeekRead(StopCdda(s), {})
  IN IF open THEN set_event([t EXCEPT !.DriveState = "lid_open"], CDRLID) ELSE t

(* the shell is found open: what was under way is answered with an error   *)
Opened(s) ==
  LET t == [SetPlaySeekRead(StopReading(s), {}) EXCEPT !.StatP = @ \cup {"shell"},
                                                       !.Result = "lid", !.IrqStat = "DiskError"]
  IN IF s.CmdInProgress # None \/ s.Reading
     THEN [t EXCEPT !.CmdInProgress = None, !.posted = @ \ {CDR}] ELSE t

LidOpen(s, open) ==
  set_event(CASE "shell" \notin s.StatP -> Opened(s)
              [] "shell" \in s.StatP /\ "rot" \in s.StatP -> [s EXCEPT !.StatP = @ \ {"rot"}]
              [] "shell" \in s.StatP /\ "rot" \notin s.StatP ->
                   IF open THEN s ELSE [s EXCEPT !.DriveState = "rescan"],
            CDRLID)

LidSeek(s, open) ==
  CASE s.DriveState = "lid_open" -> LidOpen(s, open)
    [] s.DriveState = "rescan" ->
         set_event([s EXCEPT !.StatP = @ \cup {"rot"}, !.DriveState = "prepare"], CDRLID)
    [] s.DriveState = "prepare" ->
         IF "seek" \in s.StatP THEN [SetPlaySeekRead(s, {}) EXCEPT !.DriveState = "standby"]
         ELSE set_event(SetPlaySeekRead(s, {"seek"}), CDRLID)
    [] OTHER -> LidStandby(s, open)

(* what was asked is answered by the error of the lid                      *)
LidInterrupt(s, open) ==
  LET t == LidSeek(s, open)
  IN /\ cdr' = t
     /\ asked' = IF s.DriveState = "lid_open" /\ "shell" \in t.StatP \ s.StatP
                 THEN None ELSE asked
     /\ UNCHANGED <<newest, ops>>

(* CheckCdrom, when the lid is found closed, reads sectors of its own      *)
LidEvent ==
  /\ Due(CDRLID) /\ LidInterrupt(Fired(CDRLID), ~shut)
  /\ IF cdr.DriveState = "lid_open" /\ cdr'.DriveState = "rescan"
     THEN buffer' \in 0 .. End ELSE UNCHANGED buffer
  /\ UNCHANGED <<shut, lids>>

(* The frontend ejects or inserts a disc: the lid counts as open, at the   *)
(* least for the two seconds of SetCdOpenCaseTime, and then shuts          *)
LidCall ==
  /\ lids < MaxLids /\ lids' = lids + 1
  /\ LidInterrupt(cdr, TRUE) /\ shut' = FALSE
  /\ UNCHANGED buffer

LidShuts ==
  /\ ~shut /\ shut' = TRUE
  /\ UNCHANGED <<cdr, buffer, asked, newest, ops, lids>>

-----------------------------------------------------------------------------
Next ==
  \/ \E c \in Commands : Write(c)
  \/ Acknowledge
  \/ TooEarly \/ HandOut \/ RunCommand
  \/ Approach \/ ReadSector \/ PlaySector \/ NoSector
  \/ LidEvent \/ LidCall \/ LidShuts

Spec == Init /\ [][Next]_vars

-----------------------------------------------------------------------------
(* A command is answered, and nothing is left to wait for itself: what was *)
(* written last is being processed, or waits behind the second response of *)
(* another command; and while a command, a second response or a sector     *)
(* waits, the event that serves it is posted or an interrupt, whose        *)
(* acknowledgement posts it, is outstanding.  Nor is the event ever posted *)
(* with nothing to do, which would answer a command nobody wrote.          *)
Answered ==
  LET some == cdr.CmdInProgress # None \/ cdr.Irq1Pending # "none"
  IN /\ asked # None => \/ cdr.part = 1 /\ cdr.CmdInProgress = asked
                        \/ cdr.part = 2 /\ cdr.CmdInProgress # None /\ cdr.Cmd = asked
     /\ some => CDR \in cdr.posted \/ cdr.IrqStat # NoIntr
     /\ CDR \in cdr.posted => some

(* The drive does not stop by itself: a read that has not failed and a     *)
(* play have their next sector posted, and a disc that is being scanned    *)
(* the next step of the scan - whatever commands, lids and errors came.    *)
DriveGoesOn ==
  /\ cdr.Reading /\ ~cdr.failed => CDREAD \in cdr.posted
  /\ cdr.Play => CDREAD \in cdr.posted
  /\ cdr.DriveState \in {"rescan", "prepare"} => CDRLID \in cdr.posted

(* While a sector is announced and not acknowledged, the buffer the        *)
(* program takes it from holds the last sector that was read when it was   *)
(* announced: neither an earlier one, which was taken already, nor one     *)
(* that was read since.                                                    *)
SectorTruth ==
  cdr.IrqStat = "DataReady" /\ cdr.Result = "sector" => cdr.Transfer = newest

=============================================================================
