--------------------------- MODULE CdromCtlProofs ---------------------------
(***************************************************************************)
(* Proofs about CdromCtl, for discs of any length and any sequence of      *)
(* commands, sectors, errors and openings of the lid: commands are         *)
(* answered, the drive does not stop by itself, and the sector announced   *)
(* is the one the program takes.                                           *)
(***************************************************************************)
EXTENDS CdromCtl, TLAPS

USE DEF CDR, CDREAD, CDRLID

(* A command that waits behind a second response is another one, or it     *)
(* would not be run                                                        *)
Behind(s) == s.part = 2 /\ s.CmdInProgress # None => s.Cmd # s.CmdInProgress
CommandInv == Answered /\ Behind(cdr)

(* DriveGoesOn of a state of the controller.  Nothing plays without a disc *)
(* or while a disc is read, so that the end of a reading, by an error or   *)
(* by the lid, leaves no play without its event                            *)
GoesOn(s) ==
  /\ s.Reading /\ ~s.failed => CDREAD \in s.posted
  /\ s.Play => CDREAD \in s.posted
  /\ s.DriveState \in {"rescan", "prepare"} => CDRLID \in s.posted
  /\ s.Reading \/ s.DriveState \in {"lid_open", "rescan", "prepare"} => ~s.Play
DriveInv == GoesOn(cdr)

(* A sector that waits to be announced has been read                       *)
BufferInv == SectorTruth /\ (cdr.Irq1Pending = "ok" => buffer # None)

-----------------------------------------------------------------------------
(* What a command does to the controller: it leaves the commands, the      *)
(* sector that waits and the transfer to the rest of cdrInterrupt          *)
Leaves(s, t) ==
  /\ t.CmdInProgress = s.CmdInProgress /\ t.part = s.part /\ t.Cmd = s.Cmd
  /\ t.Irq1Pending = s.Irq1Pending /\ t.Transfer = s.Transfer
  /\ CDR \in t.posted <=> CDR \in s.posted
Sound(s, o) ==
  /\ o.s \in Ctl /\ Leaves(s, o.s) /\ (GoesOn(s) => GoesOn(o.s))
  /\ o.irq \in Irqs \ {NoIntr, "DataReady"}
  /\ o.second \in BOOLEAN /\ o.start \in BOOLEAN

LEMMA Facts == End \in Nat /\ None \notin Cmds /\ \A p \in Locs \cup {0} : p \in 0 .. End
<1>1. End \in Nat /\ None \notin Cmds /\ \A p \in Locs : p \in 0 .. End
  BY CtlAssumption
<1>2. QED  BY <1>1

LEMMA SoundIf ==
  ASSUME NEW s \in Ctl, NEW t \in Ctl, Leaves(s, t), GoesOn(s) => GoesOn(t),
         NEW irq \in Irqs \ {NoIntr, "DataReady"}, NEW second \in BOOLEAN, NEW start \in BOOLEAN
  PROVE  Sound(s, Outcome(t, irq, second, start))
BY DEF Sound, Outcome

LEMMA Itself ==
  ASSUME NEW s \in Ctl
  PROVE  /\ Leaves(s, s) /\ Sound(s, Plain(s)) /\ Sound(s, set_error(s)) /\ Sound(s, Last(s))
         /\ \A start \in BOOLEAN : Sound(s, Twice(s, start))
<1>1. Leaves(s, s)
  BY DEF Leaves
<1>2. {"Acknowledge", "DiskError", "Complete"} \subseteq Irqs \ {NoIntr, "DataReady"}
  BY DEF Irqs, NoIntr
<1>3. QED  BY <1>1, <1>2, SoundIf DEF Plain, set_error, Last, Twice

(* The helpers, and what they leave alone of what matters here             *)
Same(s, t) == /\ t.Reading = s.Reading /\ t.failed = s.failed /\ t.Play = s.Play
              /\ t.DriveState = s.DriveState /\ t.posted = s.posted
LEMMA HaltIs ==
  ASSUME NEW s \in Ctl
  PROVE  /\ Halt(s) \in Ctl /\ Leaves(s, Halt(s))
         /\ ~Halt(s).Reading /\ ~Halt(s).Play /\ Halt(s).DriveState = s.DriveState
         /\ Halt(s).posted = s.posted \ {CDREAD} /\ Halt(s).Pos = s.Pos
BY DEF Halt, StopReading, StopCdda, Ctl, Leaves

LEMMA FlagsAre ==
  ASSUME NEW s \in Ctl, NEW f \in SUBSET Status
  PROVE  /\ SetPlaySeekRead(s, f) \in Ctl /\ Leaves(s, SetPlaySeekRead(s, f))
          /\ Same(s, SetPlaySeekRead(s, f)) /\ SetPlaySeekRead(s, f).Pos = s.Pos
         /\ SetPlaySeekRead(s, f).IrqStat = s.IrqStat /\ SetPlaySeekRead(s, f).Result = s.Result
BY DEF SetPlaySeekRead, Ctl, Leaves, Same, Status

LEMMA GoToIs ==
  ASSUME NEW s \in Ctl
  PROVE  GoTo(s) \in Ctl /\ Leaves(s, GoTo(s)) /\ Same(s, GoTo(s))
<1>1. s.SetSector \in 0 .. End + 1
  <2>1. s.SetSector \in Locs \cup {0}
    BY DEF Ctl
  <2>2. End \in Nat /\ s.SetSector \in 0 .. End
    BY <2>1, Facts
  <2>3. QED  BY <2>2
<1>2. [s EXCEPT !.Pos = s.SetSector, !.SetlocPending = FALSE] \in Ctl
  BY <1>1 DEF Ctl
<1>3. QED  BY <1>2 DEF GoTo, Leaves, Same, Ctl

LEMMA PostedIs ==
  ASSUME NEW s \in Ctl
  PROVE  LET t == CDRPLAYREAD_INT(s)
         IN /\ t \in Ctl /\ Leaves(s, t) /\ t.posted = s.posted \cup {CDREAD}
            /\ t.Reading = s.Reading /\ t.failed = s.failed /\ t.Play = s.Play
            /\ t.DriveState = s.DriveState
BY DEF CDRPLAYREAD_INT, Ctl, Leaves

LEMMA SetlocIs ==
  ASSUME NEW s \in Ctl, NEW o \in Setloc(s)
  PROVE  Sound(s, o)
<1>1. ASSUME NEW p \in Locs
      PROVE  Sound(s, Plain([s EXCEPT !.SetSector = p, !.SetlocPending = TRUE]))
  <2> DEFINE t == [s EXCEPT !.SetSector = p, !.SetlocPending = TRUE]
  <2>1. t \in Ctl /\ Leaves(s, t) /\ (GoesOn(s) => GoesOn(t))
    BY DEF Ctl, Leaves, GoesOn
  <2>2. "Acknowledge" \in Irqs \ {NoIntr, "DataReady"}
    BY DEF Irqs, NoIntr
  <2> HIDE DEF t
  <2>3. Sound(s, Plain(t))
    BY <2>1, <2>2, SoundIf DEF Plain
  <2>4. QED  BY <2>3 DEF t
<1>2. QED  BY <1>1, Itself DEF Setloc

LEMMA PlaySets ==
  ASSUME NEW t \in Ctl, NEW loc \in BOOLEAN, NEW f \in 0 .. 2, NEW p \in BOOLEAN, NEW d \in Drives,
         NEW pend \in BOOLEAN
  PROVE  [t EXCEPT !.LocL = loc, !.Forward = f, !.Play = p, !.DriveState = d,
                   !.SetlocPending = pend] \in Ctl
BY DEF Ctl

LEMMA ReadSets ==
  ASSUME NEW t \in Ctl, NEW r \in BOOLEAN, NEW loc \in BOOLEAN, NEW f \in 0 .. 2, NEW d \in Drives,
         NEW fail \in BOOLEAN
  PROVE  [t EXCEPT !.Reading = r, !.LocL = loc, !.Forward = f, !.DriveState = d,
                   !.failed = fail] \in Ctl
BY DEF Ctl

LEMMA PlayIs ==
  ASSUME NEW s \in Ctl, NEW o \in Play(s)
  PROVE  Sound(s, o)
<1> DEFINE from == {GoTo(Halt(s)), [Halt(s) EXCEPT !.Pos = 0], Halt(s)}
           set(t) == [t EXCEPT !.LocL = FALSE, !.Forward = 1, !.Play = TRUE,
                               !.DriveState = "play_read", !.SetlocPending = FALSE]
           turned(t) == SetPlaySeekRead(set(t), {"seek", "rot"})
<1>1. PICK t \in from : o = Outcome(CDRPLAYREAD_INT(turned(t)), "Acknowledge", FALSE, TRUE)
  BY DEF Play
<1>2. t \in Ctl /\ Leaves(s, t) /\ ~t.Reading
  <2>1. ASSUME NEW h \in Ctl
        PROVE  /\ [h EXCEPT !.Pos = 0] \in Ctl /\ Leaves(h, [h EXCEPT !.Pos = 0])
               /\ [h EXCEPT !.Pos = 0].Reading = h.Reading
    BY Facts DEF Ctl, Leaves
  <2>2. /\ Halt(s) \in Ctl /\ Leaves(s, Halt(s)) /\ ~Halt(s).Reading
    BY HaltIs
  <2> DEFINE h == Halt(s)
             z == [h EXCEPT !.Pos = 0]
  <2> HIDE DEF h
  <2>3. z \in Ctl /\ Leaves(h, z) /\ z.Reading = h.Reading
    BY <2>1, <2>2 DEF h
  <2>4. GoTo(h) \in Ctl /\ Leaves(h, GoTo(h)) /\ GoTo(h).Reading = h.Reading
    BY <2>2, GoToIs DEF h, Same
  <2> HIDE DEF z
  <2>5. t \in {GoTo(h), z, h}
    BY DEF h, z
  <2>6. QED  BY <2>2, <2>3, <2>4, <2>5 DEF h, Leaves
<1> HIDE DEF from
<1>3. set(t) \in Ctl /\ Leaves(s, set(t)) /\ ~set(t).Reading /\ set(t).DriveState = "play_read"
  <2>1. set(t) \in Ctl
    <3>1. 1 \in 0 .. 2 /\ "play_read" \in Drives
      BY DEF Drives
    <3>2. QED  BY <1>2, <3>1, PlaySets, Zenon
  <2>2. Leaves(t, set(t)) /\ set(t).Reading = t.Reading /\ set(t).DriveState = "play_read"
    BY <1>2 DEF Ctl, Leaves
  <2>3. QED  BY <1>2, <2>1, <2>2 DEF Leaves
<1> HIDE DEF set
<1>4. turned(t) \in Ctl /\ Leaves(s, turned(t)) /\ ~turned(t).Reading
      /\ turned(t).DriveState = "play_read"
  BY <1>3, FlagsAre DEF Leaves, Same, Status
<1> HIDE DEF turned
<1>5. LET u == CDRPLAYREAD_INT(turned(t)) IN u \in Ctl /\ Leaves(s, u) /\ GoesOn(u)
  BY <1>4, PostedIs DEF Leaves, GoesOn
<1>6. "Acknowledge" \in Irqs \ {NoIntr, "DataReady"}
  BY DEF Irqs, NoIntr
<1>7. QED  BY <1>1, <1>5, <1>6, SoundIf

LEMMA ReadNIs ==
  ASSUME NEW s \in Ctl, NEW o \in ReadN(s)
  PROVE  Sound(s, o)
<1> DEFINE t == GoTo(StopCdda(s))
           set == [t EXCEPT !.Reading = TRUE, !.LocL = FALSE, !.Forward = 1,
                            !.DriveState = "seek", !.failed = FALSE]
           turned == SetPlaySeekRead(CDRPLAYREAD_INT(set), {"seek"})
<1>1. o \in {Plain(s), set_error(s), Outcome(turned, "Acknowledge", FALSE, TRUE)}
  BY DEF ReadN
<1>2. StopCdda(s) \in Ctl /\ Leaves(s, StopCdda(s)) /\ ~StopCdda(s).Play
  BY DEF StopCdda, Ctl, Leaves
<1>3. t \in Ctl /\ Leaves(s, t) /\ ~t.Play
  BY <1>2, GoToIs DEF Leaves, Same
<1> HIDE DEF t
<1>4. set \in Ctl /\ Leaves(s, set) /\ ~set.Play /\ set.DriveState = "seek"
  <2>1. set \in Ctl
    <3>1. 1 \in 0 .. 2 /\ "seek" \in Drives
      BY DEF Drives
    <3>2. QED  BY <1>3, <3>1, ReadSets, Zenon
  <2>2. Leaves(t, set) /\ set.Play = t.Play /\ set.DriveState = "seek"
    BY <1>3 DEF Ctl, Leaves
  <2>3. QED  BY <1>3, <2>1, <2>2 DEF Leaves
<1> HIDE DEF set
<1>5. turned \in Ctl /\ Leaves(s, turned) /\ GoesOn(turned)
  <2>1. LET u == CDRPLAYREAD_INT(set)
        IN /\ u \in Ctl /\ Leaves(s, u) /\ ~u.Play /\ CDREAD \in u.posted
           /\ u.DriveState = "seek"
    BY <1>4, PostedIs DEF Leaves
  <2>2. {"seek"} \in SUBSET Status
    BY DEF Status
  <2>3. QED  BY <2>1, <2>2, FlagsAre DEF Leaves, Same, GoesOn
<1>6. "Acknowledge" \in Irqs \ {NoIntr, "DataReady"}
  BY DEF Irqs, NoIntr
<1> HIDE DEF turned
<1>7. QED  BY <1>1, <1>5, <1>6, SoundIf, Itself

(* A drive that is neither open nor scanned and has nothing to read or     *)
(* play needs no event                                                     *)
LEMMA Idle ==
  ASSUME NEW s \in Ctl, ~s.Reading, ~s.Play, s.DriveState \notin {"rescan", "prepare"}
  PROVE  GoesOn(s)
BY DEF GoesOn

(* What the commands that end a play and a reading begin with              *)
LEMMA HaltedIs ==
  ASSUME NEW s \in Ctl, NEW f \in SUBSET Status
  PROVE  LET t == SetPlaySeekRead(Halt(s), f)
         IN t \in Ctl /\ Leaves(s, t) /\ ~t.Reading /\ ~t.Play /\ t.Pos = s.Pos
<1>1. /\ Halt(s) \in Ctl /\ Leaves(s, Halt(s)) /\ ~Halt(s).Reading /\ ~Halt(s).Play
      /\ Halt(s).Pos = s.Pos
  BY HaltIs
<1> DEFINE h == Halt(s)
<1> HIDE DEF h
<1>2. LET t == SetPlaySeekRead(h, f)
      IN t \in Ctl /\ Leaves(h, t) /\ Same(h, t) /\ t.Pos = h.Pos
  BY <1>1, FlagsAre DEF h
<1>3. QED  BY <1>1, <1>2 DEF h, Leaves, Same

LEMMA StopIs == ASSUME NEW s \in Ctl PROVE Sound(s, Stop(s))
<1> DEFINE t == SetPlaySeekRead(Halt(s), {})
           u == [t EXCEPT !.StatP = @ \ {"rot"}, !.LocL = FALSE, !.DriveState = "stopped",
                          !.Pos = IF s.Play THEN 0 ELSE @]
<1>1. t \in Ctl /\ Leaves(s, t) /\ ~t.Reading /\ ~t.Play
  BY HaltedIs
<1> HIDE DEF t
<1>2. u \in Ctl
  <2>1. ASSUME NEW stat \in SUBSET Status, NEW loc \in BOOLEAN, NEW d \in Drives, NEW p \in 0 .. End + 1
        PROVE  [t EXCEPT !.StatP = stat, !.LocL = loc, !.DriveState = d, !.Pos = p] \in Ctl
    BY <1>1 DEF Ctl
  <2>2. t.StatP \ {"rot"} \in SUBSET Status /\ t.Pos \in 0 .. End + 1
    BY <1>1 DEF Ctl
  <2>3. 0 \in 0 .. End + 1 /\ "stopped" \in Drives
    BY Facts DEF Drives
  <2>4. (IF s.Play THEN 0 ELSE t.Pos) \in 0 .. End + 1
    BY <2>2, <2>3
  <2>5. QED  BY <2>1, <2>2, <2>3, <2>4, Zenon
<1>3. Leaves(t, u) /\ u.Reading = t.Reading /\ u.Play = t.Play /\ u.DriveState = "stopped"
  BY <1>1 DEF Ctl, Leaves
<1>4. Leaves(s, u) /\ GoesOn(u)
  BY <1>1, <1>2, <1>3, Idle DEF Leaves
<1>5. "Acknowledge" \in Irqs \ {NoIntr, "DataReady"}
  BY DEF Irqs, NoIntr
<1>6. Stop(s) = Outcome(u, "Acknowledge", TRUE, FALSE)
  BY DEF Stop, Twice, t
<1> HIDE DEF u
<1>7. QED  BY <1>2, <1>4, <1>5, <1>6, SoundIf

LEMMA PauseIs ==
  ASSUME NEW s \in Ctl, NEW o \in Pause(s)
  PROVE  Sound(s, o)
<1> DEFINE h == SetPlaySeekRead(Halt(s), {})
           t == [h EXCEPT !.DriveState = "paused"]
           back(k) == [t EXCEPT !.Pos = @ - k]
<1>1. h \in Ctl /\ Leaves(s, h) /\ ~h.Reading /\ ~h.Play /\ h.Pos = s.Pos
  BY HaltedIs
<1>2. PICK k \in 0 .. (IF s.Pos > 4 THEN 4 ELSE s.Pos) :
        o = [Twice(back(k), FALSE) EXCEPT
               !.irq = IF s.DriveState = "seek" THEN "DiskError" ELSE @]
  BY DEF Pause
<1> HIDE DEF h
<1>3. t \in Ctl /\ Leaves(s, t) /\ ~t.Reading /\ ~t.Play /\ t.Pos = s.Pos /\ t.DriveState = "paused"
  <2>1. t \in Ctl
    BY <1>1 DEF Ctl, Drives
  <2>2. /\ Leaves(h, t) /\ t.Reading = h.Reading /\ t.Play = h.Play /\ t.Pos = h.Pos
        /\ t.DriveState = "paused"
    BY <1>1 DEF Ctl, Leaves
  <2>3. QED  BY <1>1, <2>1, <2>2 DEF Leaves
<1> HIDE DEF t
<1>4. back(k) \in Ctl /\ Leaves(s, back(k)) /\ GoesOn(back(k))
  <2>1. s.Pos \in 0 .. End + 1 /\ End \in Nat
    BY Facts DEF Ctl
  <2>2. t.Pos - k \in 0 .. End + 1
    BY <1>3, <2>1
  <2>3. back(k) \in Ctl
    BY <1>3, <2>2 DEF Ctl
  <2>4. /\ Leaves(t, back(k)) /\ back(k).Reading = t.Reading /\ back(k).Play = t.Play
        /\ back(k).DriveState = t.DriveState
    BY <1>3 DEF Ctl, Leaves
  <2>5. QED  BY <1>3, <2>3, <2>4, Idle DEF Leaves
<1> HIDE DEF back
<1>5. o = Outcome(back(k), IF s.DriveState = "seek" THEN "DiskError" ELSE "Acknowledge", TRUE, FALSE)
  BY <1>2 DEF Twice, Outcome
<1>6. (IF s.DriveState = "seek" THEN "DiskError" ELSE "Acknowledge") \in Irqs \ {NoIntr, "DataReady"}
  BY DEF Irqs, NoIntr
<1>7. QED  BY <1>4, <1>5, <1>6, SoundIf

LEMMA SeekLIs == ASSUME NEW s \in Ctl PROVE Sound(s, SeekL(s))
<1> DEFINE h == SetPlaySeekRead(Halt(s), {"seek", "rot"})
           t == [h EXCEPT !.Pos = s.SetSector, !.DriveState = "seek"]
<1>1. h \in Ctl /\ Leaves(s, h) /\ ~h.Reading /\ ~h.Play
  BY HaltedIs DEF Status
<1> HIDE DEF h
<1>2. t \in Ctl
  <2>1. s.SetSector \in Locs \cup {0}
    BY DEF Ctl
  <2>2. End \in Nat /\ s.SetSector \in 0 .. End
    BY <2>1, Facts
  <2>3. s.SetSector \in 0 .. End + 1 /\ "seek" \in Drives
    BY <2>2 DEF Drives
  <2>4. QED  BY <1>1, <2>3 DEF Ctl
<1>3. Leaves(h, t) /\ t.Reading = h.Reading /\ t.Play = h.Play /\ t.DriveState = "seek"
  BY <1>1 DEF Ctl, Leaves
<1>4. Leaves(s, t) /\ GoesOn(t)
  BY <1>1, <1>2, <1>3, Idle DEF Leaves
<1>5. "Acknowledge" \in Irqs \ {NoIntr, "DataReady"}
  BY DEF Irqs, NoIntr
<1>6. SeekL(s) = Outcome(t, "Acknowledge", TRUE, TRUE)
  BY DEF SeekL, Twice, h
<1> HIDE DEF t
<1>7. QED  BY <1>2, <1>4, <1>5, <1>6, SoundIf

LEMMA InitIs == ASSUME NEW s \in Ctl PROVE Sound(s, InitCmd(s))
<1> DEFINE h == SetPlaySeekRead(Halt(s), {})
           t == [h EXCEPT !.StatP = @ \cup {"shell"}, !.DriveState = "rescan"]
           u == set_event(t, CDRLID)
<1>1. h \in Ctl /\ Leaves(s, h) /\ ~h.Reading /\ ~h.Play
  BY HaltedIs
<1> HIDE DEF h
<1>2. t \in Ctl
  <2>1. ASSUME NEW f \in SUBSET Status, NEW d \in Drives
        PROVE  [h EXCEPT !.StatP = f, !.DriveState = d] \in Ctl
    BY <1>1 DEF Ctl
  <2>2. h.StatP \cup {"shell"} \in SUBSET Status /\ "rescan" \in Drives
    BY <1>1 DEF Ctl, Status, Drives
  <2>3. QED  BY <2>1, <2>2, Zenon
<1>3. Leaves(h, t) /\ t.Reading = h.Reading /\ t.Play = h.Play
  BY <1>1 DEF Ctl, Leaves
<1> HIDE DEF t
<1>4. /\ u \in Ctl /\ Leaves(t, u) /\ u.Reading = t.Reading /\ u.Play = t.Play
      /\ CDRLID \in u.posted
  BY <1>2 DEF set_event, Ctl, Leaves
<1> HIDE DEF u
<1>5. Leaves(s, u) /\ GoesOn(u)
  BY <1>1, <1>3, <1>4 DEF Leaves, GoesOn
<1>6. "Acknowledge" \in Irqs \ {NoIntr, "DataReady"}
  BY DEF Irqs, NoIntr
<1>7. InitCmd(s) = Outcome(u, "Acknowledge", FALSE, TRUE)
  BY DEF InitCmd, h, t, u
<1>8. QED  BY <1>4, <1>5, <1>6, <1>7, SoundIf

LEMMA ResetSets ==
  ASSUME NEW t \in Ctl, NEW d \in Drives, NEW f \in SUBSET Status, NEW loc \in BOOLEAN
  PROVE  [t EXCEPT !.DriveState = d, !.StatP = f, !.LocL = loc] \in Ctl
BY DEF Ctl

LEMMA ResetIs == ASSUME shut \in BOOLEAN, NEW s \in Ctl, NEW id \in BOOLEAN
                 PROVE  Sound(s, Twice(softReset(Halt(s), id), TRUE))
<1> DEFINE h == Halt(s)
           d == IF ~shut THEN "lid_open" ELSE IF id THEN "standby" ELSE "stopped"
           f == IF ~shut THEN {"shell"} ELSE IF id THEN {"rot"} ELSE {}
           t == [h EXCEPT !.DriveState = d, !.StatP = f, !.LocL = FALSE]
<1>1. h \in Ctl /\ Leaves(s, h) /\ ~h.Reading /\ ~h.Play
  BY HaltIs
<1> HIDE DEF h
<1>2. d \in Drives \ {"rescan", "prepare"} /\ f \in SUBSET Status
  BY DEF Drives, Status
<1> HIDE DEF d, f
<1>3. t \in Ctl
  BY <1>1, <1>2, ResetSets, Zenon
<1>4. Leaves(h, t) /\ t.Reading = h.Reading /\ t.Play = h.Play /\ t.DriveState = d
  BY <1>1 DEF Ctl, Leaves
<1> HIDE DEF t
<1>5. Leaves(s, t) /\ GoesOn(t)
  BY <1>1, <1>2, <1>3, <1>4, Idle DEF Leaves
<1>6. "Acknowledge" \in Irqs \ {NoIntr, "DataReady"}
  BY DEF Irqs, NoIntr
<1>7. softReset(Halt(s), id) = t
  BY DEF softReset, h, d, f, t
<1>8. QED  BY <1>3, <1>5, <1>6, <1>7, SoundIf DEF Twice

(* Changes of the flags and of what GetlocL answers matter to nobody else. *)
LEMMA StatusIs ==
  ASSUME NEW s \in Ctl, NEW f \in SUBSET Status
  PROVE  LET t == [s EXCEPT !.StatP = f] IN t \in Ctl /\ Leaves(s, t) /\ (GoesOn(s) => GoesOn(t))
BY DEF Ctl, Leaves, GoesOn
LEMMA LocLIs ==
  ASSUME NEW s \in Ctl
  PROVE  LET t == [s EXCEPT !.LocL = FALSE] IN t \in Ctl /\ Leaves(s, t) /\ (GoesOn(s) => GoesOn(t))
BY DEF Ctl, Leaves, GoesOn

(* Every command leaves a state in which the drive goes on.                *)
LEMMA FirstIs ==
  ASSUME shut \in BOOLEAN, NEW s \in Ctl, NEW c \in Cmds, NEW o \in First(s, c)
  PROVE  Sound(s, o)
<1> DEFINE closed == [s EXCEPT !.StatP = @ \ {"shell"}]
           forgot == [s EXCEPT !.LocL = FALSE]
<1>1. Sound(s, Plain(closed))
  <2>1. s.StatP \ {"shell"} \in SUBSET Status
    BY DEF Ctl
  <2>2. closed \in Ctl /\ Leaves(s, closed) /\ (GoesOn(s) => GoesOn(closed))
    BY <2>1, StatusIs
  <2>3. "Acknowledge" \in Irqs \ {NoIntr, "DataReady"}
    BY DEF Irqs, NoIntr
  <2> HIDE DEF closed
  <2>4. QED  BY <2>2, <2>3, SoundIf DEF Plain
<1>2. Sound(s, Twice(forgot, TRUE))
  <2>1. forgot \in Ctl /\ Leaves(s, forgot) /\ (GoesOn(s) => GoesOn(forgot))
    BY LocLIs
  <2>2. "Acknowledge" \in Irqs \ {NoIntr, "DataReady"}
    BY DEF Irqs, NoIntr
  <2> HIDE DEF forgot
  <2>3. QED  BY <2>1, <2>2, SoundIf DEF Twice
<1> HIDE DEF closed, forgot
<1>3. /\ Sound(s, Plain(s)) /\ Sound(s, set_error(s)) /\ Sound(s, Twice(s, TRUE))
      /\ Sound(s, Twice(s, FALSE)) /\ Sound(s, Last(s))
  BY Itself
<1>4. CASE c = "Nop"
  BY <1>1, <1>3, <1>4 DEF First, closed
<1>5. CASE c \in {"Setloc", "Play", "ReadN", "Pause"}
  BY <1>5, SetlocIs, PlayIs, ReadNIs, PauseIs DEF First
<1>6. CASE c \in {"Stop", "SeekL", "Init"}
  BY <1>6, StopIs, SeekLIs, InitIs DEF First
<1>7. CASE c = "Reset"
  <2>1. PICK id \in BOOLEAN : o = Twice(softReset(Halt(s), id), TRUE)
    BY <1>7 DEF First
  <2>2. QED  BY <2>1, ResetIs
<1>8. CASE c = "ReadToc"
  BY <1>2, <1>8 DEF First, forgot
<1>9. CASE c \in {"Standby", "Mute", "Getparam", "GetlocL", "GetTD", "ReadT", "ID", "Invalid",
                  "Forward"}
  BY <1>3, <1>9 DEF First
<1>10. QED  BY <1>4, <1>5, <1>6, <1>7, <1>8, <1>9 DEF Cmds

(* Of a command that is not being scanned for, or has a second response,   *)
(* the drive is given up to be starting.                                   *)
LEMMA WokenIs ==
  ASSUME NEW s \in Ctl, NEW c \in Cmds
  PROVE  Woken(s, c) \in Ctl /\ Leaves(s, Woken(s, c)) /\ (GoesOn(s) => GoesOn(Woken(s, c)))
<1> DEFINE t == [s EXCEPT !.DriveState = "standby", !.StatP = @ \ {"seek"}, !.posted = @ \ {CDRLID}]
<1>1. t \in Ctl /\ Leaves(s, t)
  BY DEF Ctl, Drives, Leaves
<1>2. /\ t.Reading = s.Reading /\ t.failed = s.failed /\ t.Play = s.Play
      /\ t.DriveState = "standby" /\ t.posted = s.posted \ {CDRLID}
  BY DEF Ctl
<1> HIDE DEF t
<1>3. GoesOn(s) => GoesOn(t)
  BY <1>2 DEF GoesOn
<1>4. Leaves(s, s)
  BY DEF Leaves
<1>5. QED  BY <1>1, <1>3, <1>4 DEF Woken, t

LEMMA SecondIs ==
  ASSUME NEW s \in Ctl, NEW c \in Cmds, NEW ok \in BOOLEAN
  PROVE  Sound(s, Second(s, c, ok)) /\ ~Second(s, c, ok).second
<1> DEFINE h == SetPlaySeekRead(s, {})
           t == [h EXCEPT !.LocL = ok \/ @, !.DriveState = "standby"]
<1>1. h \in Ctl /\ Leaves(s, h) /\ Same(s, h)
  BY FlagsAre
<1> HIDE DEF h
<1>2. t \in Ctl
  <2>1. ASSUME NEW b \in BOOLEAN, NEW d \in Drives
        PROVE  [h EXCEPT !.LocL = b, !.DriveState = d] \in Ctl
    BY <1>1 DEF Ctl
  <2>2. (ok \/ h.LocL) \in BOOLEAN
    OBVIOUS
  <2>3. "standby" \in Drives
    BY DEF Drives
  <2>4. QED  BY <2>1, <2>2, <2>3, Zenon
<1>3. /\ Leaves(h, t) /\ t.Reading = h.Reading /\ t.failed = h.failed /\ t.Play = h.Play
      /\ t.DriveState = "standby" /\ t.posted = h.posted
  BY <1>1 DEF Ctl, Leaves
<1> HIDE DEF t
<1>4. Leaves(s, t) /\ (GoesOn(s) => GoesOn(t))
  BY <1>1, <1>3 DEF Leaves, Same, GoesOn
<1>5. "Complete" \in Irqs \ {NoIntr, "DataReady"}
  BY DEF Irqs, NoIntr
<1>6. Sound(s, Last(t)) /\ Sound(s, Last(s))
  BY <1>2, <1>4, <1>5, SoundIf, Itself DEF Last
<1>7. ~Last(t).second /\ ~Last(s).second
  BY DEF Last, Outcome
<1>8. QED  BY <1>6, <1>7 DEF Second, h, t

LEMMA AnswersAre ==
  ASSUME shut \in BOOLEAN, NEW s \in Ctl, NEW c \in Cmds, NEW ok \in BOOLEAN,
         NEW o \in Answers(s, c, ok)
  PROVE  Sound(s, o) /\ (o.second => s.part = 1)
<1> DEFINE w == Woken(s, c)
<1>1. w \in Ctl /\ Leaves(s, w) /\ (GoesOn(s) => GoesOn(w))
  BY WokenIs
<1> HIDE DEF w
<1>2. CASE Refused(s, c)
  <2>1. ~set_error(s).second
    BY DEF set_error, Outcome
  <2>2. QED  BY <1>2, <2>1, Itself DEF Answers
<1>3. CASE ~Refused(s, c) /\ s.part = 1
  <2>1. Sound(w, o)
    BY <1>1, <1>3, FirstIs DEF Answers, w
  <2>2. QED  BY <1>1, <1>3, <2>1 DEF Sound, Leaves
<1>4. CASE ~Refused(s, c) /\ s.part # 1
  <2>1. Sound(w, o) /\ ~o.second
    BY <1>1, <1>4, SecondIs DEF Answers, w
  <2>2. QED  BY <1>1, <2>1 DEF Sound, Leaves
<1>5. QED  BY <1>2, <1>3, <1>4

-----------------------------------------------------------------------------
(* The end of a command: its interrupt, and what is to be done next.       *)
LEMMA FinishIs ==
  ASSUME NEW s \in Ctl, s.CmdInProgress = None, NEW c \in Cmds, NEW o, Sound(s, o), NEW part
  PROVE  LET f == Finish(o, c, part)
             behind == ~o.second /\ s.Cmd # None /\ s.Cmd # c
         IN /\ f \in Ctl /\ (GoesOn(s) => GoesOn(f))
            /\ f.IrqStat \notin {NoIntr, "DataReady"} /\ f.Irq1Pending = s.Irq1Pending
            /\ f.Cmd = s.Cmd
            /\ f.CmdInProgress = IF o.second THEN c ELSE IF behind THEN s.Cmd ELSE None
            /\ f.part = IF o.second THEN 2 ELSE IF behind THEN 1 ELSE s.part
            /\ CDR \in f.posted <=> o.second \/ CDR \in s.posted
<1> DEFINE on == [o.s EXCEPT !.DriveState = "standby", !.StatP = @ \cup {"rot"}]
           started == IF o.start /\ o.s.DriveState = "stopped" THEN on ELSE o.s
           t == [started EXCEPT !.IrqStat = o.irq, !.Result = c]
           again == [t EXCEPT !.CmdInProgress = c, !.part = 2]
           next == [t EXCEPT !.CmdInProgress = t.Cmd, !.part = 1]
           behind == ~o.second /\ s.Cmd # None /\ s.Cmd # c
<1>1. /\ o.s \in Ctl /\ Leaves(s, o.s) /\ (GoesOn(s) => GoesOn(o.s))
      /\ o.irq \in Irqs \ {NoIntr, "DataReady"}
  BY DEF Sound
<1>2. started \in Ctl /\ Leaves(s, started) /\ (GoesOn(s) => GoesOn(started))
  <2>1. ASSUME NEW q \in Ctl
        PROVE  LET r == [q EXCEPT !.DriveState = "standby", !.StatP = @ \cup {"rot"}]
               IN r \in Ctl /\ Leaves(q, r) /\ (GoesOn(q) => GoesOn(r))
    <3> DEFINE r == [q EXCEPT !.DriveState = "standby", !.StatP = @ \cup {"rot"}]
    <3>1. r \in Ctl
      BY DEF Ctl, Drives, Status
    <3>2. /\ Leaves(q, r) /\ r.Reading = q.Reading /\ r.failed = q.failed /\ r.Play = q.Play
          /\ r.DriveState = "standby" /\ r.posted = q.posted
      BY DEF Ctl, Leaves
    <3> HIDE DEF r
    <3>3. GoesOn(q) => GoesOn(r)
      BY <3>2 DEF GoesOn
    <3>4. QED  BY <3>1, <3>2, <3>3 DEF r
  <2>2. on \in Ctl /\ Leaves(o.s, on) /\ (GoesOn(o.s) => GoesOn(on))
    BY <1>1, <2>1
  <2> HIDE DEF on
  <2>3. QED  BY <1>1, <2>2 DEF Leaves
<1> HIDE DEF started
<1>3. t \in Ctl /\ Leaves(started, t) /\ Same(started, t) /\ t.IrqStat = o.irq
  BY <1>1, <1>2 DEF Ctl, Leaves, Same
<1> HIDE DEF t
<1>4. Leaves(s, t) /\ (GoesOn(s) => GoesOn(t))
  BY <1>2, <1>3 DEF Leaves, Same, GoesOn
<1>5. CASE o.second
  <2>1. again \in Ctl
    BY <1>3 DEF Ctl
  <2>2. /\ Same(t, again) /\ again.IrqStat = t.IrqStat /\ again.Irq1Pending = t.Irq1Pending
        /\ again.Cmd = t.Cmd /\ again.CmdInProgress = c /\ again.part = 2
    BY <1>3 DEF Ctl, Same
  <2> DEFINE f == set_event(again, CDR)
  <2> HIDE DEF again
  <2>3. /\ f \in Ctl /\ f.posted = again.posted \cup {CDR} /\ f.IrqStat = again.IrqStat
        /\ f.Irq1Pending = again.Irq1Pending /\ f.Cmd = again.Cmd /\ f.part = again.part
        /\ f.CmdInProgress = again.CmdInProgress
        /\ f.Reading = again.Reading /\ f.failed = again.failed /\ f.Play = again.Play
        /\ f.DriveState = again.DriveState
    BY <2>1 DEF Ctl, set_event
  <2>4. Finish(o, c, part) = f
    BY <1>5 DEF Finish, f, again, t, started
  <2> HIDE DEF f
  <2>5. GoesOn(s) => GoesOn(f)
    BY <1>4, <2>2, <2>3 DEF GoesOn, Same
  <2>6. QED  BY <1>1, <1>3, <1>4, <1>5, <2>2, <2>3, <2>4, <2>5 DEF Leaves, Same
<1>6. CASE behind
  <2>1. t.Cmd = s.Cmd /\ t.Cmd \in Cmds
    BY <1>3, <1>4, <1>6 DEF Leaves, Ctl
  <2>2. next \in Ctl
    BY <1>3, <2>1 DEF Ctl
  <2>3. /\ Same(t, next) /\ next.IrqStat = t.IrqStat /\ next.Irq1Pending = t.Irq1Pending
        /\ next.Cmd = t.Cmd /\ next.CmdInProgress = t.Cmd /\ next.part = 1
    BY <1>3 DEF Ctl, Same
  <2>4. Finish(o, c, part) = next
    BY <1>6, <2>1 DEF Finish, next, t, started
  <2> HIDE DEF next
  <2>5. GoesOn(s) => GoesOn(next)
    BY <1>4, <2>3 DEF GoesOn, Same
  <2>6. QED  BY <1>1, <1>3, <1>4, <1>6, <2>1, <2>2, <2>3, <2>4, <2>5 DEF Leaves, Same
<1>7. CASE ~o.second /\ ~behind
  <2>1. t.Cmd = s.Cmd
    BY <1>4 DEF Leaves
  <2>2. Finish(o, c, part) = t
    BY <1>7, <2>1 DEF Finish, t, started
  <2>3. QED  BY <1>1, <1>3, <1>4, <1>7, <2>2 DEF Leaves
<1>8. QED  BY <1>5, <1>6, <1>7

-----------------------------------------------------------------------------
(* The steps.  Every one keeps the types and the three parts of the        *)
(* invariant, the last two when the program and the drive are as assumed   *)
Kept == /\ TypeOK'
        /\ DriveInv => DriveInv'
        /\ ~Repeats /\ CommandInv => CommandInv'
        /\ ~Tight /\ BufferInv => BufferInv'

LEMMA EventIs ==
  ASSUME NEW s \in Ctl, NEW e \in {CDR, CDREAD, CDRLID}
  PROVE  LET t == set_event(s, e)
         IN /\ t \in Ctl /\ t.posted = s.posted \cup {e}
            /\ t.IrqStat = s.IrqStat /\ t.CmdInProgress = s.CmdInProgress /\ t.part = s.part
            /\ t.Cmd = s.Cmd /\ t.Irq1Pending = s.Irq1Pending /\ t.Result = s.Result
            /\ t.Transfer = s.Transfer /\ t.Pos = s.Pos /\ t.StatP = s.StatP
            /\ t.Reading = s.Reading /\ t.failed = s.failed /\ t.Play = s.Play
            /\ t.DriveState = s.DriveState
BY DEF set_event, Ctl

LEMMA FiredIs ==
  ASSUME cdr \in Ctl, NEW e
  PROVE  LET t == Fired(e)
         IN /\ t \in Ctl /\ t.posted = cdr.posted \ {e}
            /\ t.IrqStat = cdr.IrqStat /\ t.CmdInProgress = cdr.CmdInProgress /\ t.part = cdr.part
            /\ t.Cmd = cdr.Cmd /\ t.Irq1Pending = cdr.Irq1Pending /\ t.Result = cdr.Result
            /\ t.Transfer = cdr.Transfer /\ t.Pos = cdr.Pos /\ t.StatP = cdr.StatP
            /\ t.Reading = cdr.Reading /\ t.failed = cdr.failed /\ t.Play = cdr.Play
            /\ t.DriveState = cdr.DriveState /\ t.Forward = cdr.Forward
BY DEF Fired, Ctl

LEMMA InitKeeps == Init => TypeOK /\ DriveInv /\ CommandInv /\ BufferInv
<1> SUFFICES ASSUME Init  PROVE TypeOK /\ DriveInv /\ CommandInv /\ BufferInv
  OBVIOUS
<1>1. cdr \in Ctl
  <2>1. End \in Nat
    BY Facts
  <2>2. 0 \in 0 .. End + 1 /\ 0 \in 0 .. 2
    BY <2>1
  <2>3. QED  BY <2>2 DEF Init, Ctl, Irqs, NoIntr, Drives, Status, Sectors
<1>2. TypeOK
  BY <1>1, CtlAssumption DEF Init, TypeOK, Sectors
<1>3. DriveInv /\ CommandInv /\ BufferInv
  BY DEF Init, DriveInv, GoesOn, CommandInv, Answered, Behind, BufferInv, SectorTruth, NoIntr
<1>4. QED  BY <1>2, <1>3

LEMMA WriteKeeps == ASSUME TypeOK, NEW c \in Commands, Write(c) PROVE Kept
<1>1. cdr \in Ctl /\ c \in Cmds /\ None \notin Cmds
  BY CtlAssumption DEF TypeOK
<1>2. /\ ops' \in 0 .. MaxOps /\ asked' = c /\ asked' \in Cmds \cup {None}
      /\ UNCHANGED <<buffer, shut, newest, lids>>
  <2>1. MaxOps \in Nat
    BY CtlAssumption
  <2>2. QED  BY <1>1, <2>1 DEF Write, TypeOK
<1>3. CASE cdr.CmdInProgress = None
  <2> DEFINE e == set_event(cdr, CDR)
             t == [e EXCEPT !.CmdInProgress = c, !.part = 1, !.Cmd = c]
  <2>1. cdr' = t
    BY <1>3 DEF Write
  <2>2. /\ e \in Ctl /\ e.posted = cdr.posted \cup {CDR}
        /\ e.IrqStat = cdr.IrqStat /\ e.Irq1Pending = cdr.Irq1Pending /\ e.Result = cdr.Result
        /\ e.Transfer = cdr.Transfer
        /\ e.Reading = cdr.Reading /\ e.failed = cdr.failed /\ e.Play = cdr.Play
        /\ e.DriveState = cdr.DriveState
    BY <1>1, EventIs
  <2> HIDE DEF e
  <2>3. t \in Ctl
    BY <1>1, <2>2 DEF Ctl
  <2>4. /\ Same(e, t) /\ t.CmdInProgress = c /\ t.part = 1 /\ t.Cmd = c
        /\ t.IrqStat = e.IrqStat /\ t.Irq1Pending = e.Irq1Pending /\ t.Result = e.Result
        /\ t.Transfer = e.Transfer
    BY <2>2 DEF Ctl, Same
  <2> HIDE DEF t
  <2>5. TypeOK'
    BY <1>2, <2>1, <2>3 DEF TypeOK
  <2>6. DriveInv => DriveInv'
    BY <2>1, <2>2, <2>4 DEF DriveInv, GoesOn, Same
  <2>7. CommandInv'
    BY <1>1, <2>1, <2>2, <2>4 DEF Write, CommandInv, Answered, Behind, Same
  <2>8. BufferInv => BufferInv'
    BY <2>1, <2>2, <2>4 DEF Write, BufferInv, SectorTruth
  <2>9. QED  BY <2>5, <2>6, <2>7, <2>8 DEF Kept
<1>4. CASE cdr.CmdInProgress # None
  <2> DEFINE now == IF cdr.part = 1 THEN c ELSE cdr.CmdInProgress
             t == [cdr EXCEPT !.CmdInProgress = now, !.Cmd = c]
  <2>1. cdr' = t
    BY <1>4 DEF Write
  <2>2. now \in Cmds
    BY <1>1, <1>4 DEF Ctl
  <2> HIDE DEF now
  <2>3. t \in Ctl
    BY <1>1, <2>2 DEF Ctl
  <2>4. /\ Same(cdr, t) /\ t.CmdInProgress = now /\ t.part = cdr.part /\ t.Cmd = c
        /\ t.IrqStat = cdr.IrqStat /\ t.Irq1Pending = cdr.Irq1Pending /\ t.Result = cdr.Result
        /\ t.Transfer = cdr.Transfer
    BY <1>1 DEF Ctl, Same
  <2> HIDE DEF t
  <2>5. TypeOK'
    BY <1>2, <2>1, <2>3 DEF TypeOK
  <2>6. DriveInv => DriveInv'
    BY <2>1, <2>4 DEF DriveInv, GoesOn, Same
  <2>7. ~Repeats /\ CommandInv => CommandInv'
    <3>1. cdr.part \in {1, 2}
      BY <1>1 DEF Ctl
    <3>2. QED  BY <1>1, <1>4, <2>1, <2>2, <2>4, <3>1 DEF Write, CommandInv, Answered, Behind, Same, now
  <2>8. BufferInv => BufferInv'
    BY <2>1, <2>4 DEF Write, BufferInv, SectorTruth
  <2>9. QED  BY <2>5, <2>6, <2>7, <2>8 DEF Kept
<1>5. QED  BY <1>3, <1>4

LEMMA AcknowledgeKeeps == ASSUME TypeOK, Acknowledge PROVE Kept
<1> DEFINE e == IF Waiting THEN set_event(cdr, CDR) ELSE cdr
           t == [e EXCEPT !.IrqStat = NoIntr]
<1>1. cdr \in Ctl /\ cdr' = t
  BY DEF Acknowledge, TypeOK
<1>2. /\ e \in Ctl /\ e.posted = IF Waiting THEN cdr.posted \cup {CDR} ELSE cdr.posted
      /\ e.CmdInProgress = cdr.CmdInProgress /\ e.part = cdr.part /\ e.Cmd = cdr.Cmd
      /\ e.Irq1Pending = cdr.Irq1Pending
      /\ e.Reading = cdr.Reading /\ e.failed = cdr.failed /\ e.Play = cdr.Play
      /\ e.DriveState = cdr.DriveState
  BY <1>1, EventIs
<1> HIDE DEF e
<1>3. t \in Ctl
  BY <1>2 DEF Ctl, Irqs, NoIntr
<1>4. /\ Same(e, t) /\ t.CmdInProgress = e.CmdInProgress /\ t.part = e.part /\ t.Cmd = e.Cmd
      /\ t.IrqStat = NoIntr /\ t.Irq1Pending = e.Irq1Pending
  BY <1>2 DEF Ctl, Same
<1> HIDE DEF t
<1>5. TypeOK'
  BY <1>1, <1>3 DEF Acknowledge, TypeOK
<1>6. DriveInv => DriveInv'
  BY <1>1, <1>2, <1>4 DEF DriveInv, GoesOn, Same
<1>7. CommandInv => CommandInv'
  <2>1. asked' = asked /\ cdr.IrqStat # NoIntr
    BY DEF Acknowledge
  <2>2. /\ cdr'.CmdInProgress = cdr.CmdInProgress /\ cdr'.part = cdr.part /\ cdr'.Cmd = cdr.Cmd
        /\ cdr'.Irq1Pending = cdr.Irq1Pending
    BY <1>1, <1>2, <1>4
  <2>3. cdr'.posted = IF Waiting THEN cdr.posted \cup {CDR} ELSE cdr.posted
    BY <1>1, <1>2, <1>4 DEF Same
  <2>4. CASE Waiting
    <3>1. CDR \in cdr'.posted
      BY <2>3, <2>4
    <3>2. QED  BY <2>1, <2>2, <2>4, <3>1 DEF CommandInv, Answered, Behind, Waiting
  <2>5. CASE ~Waiting
    <3>1. cdr'.posted = cdr.posted
      BY <2>3, <2>5
    <3>2. QED  BY <2>1, <2>2, <2>5, <3>1 DEF CommandInv, Answered, Behind, Waiting
  <2>6. QED  BY <2>4, <2>5
<1>8. BufferInv => BufferInv'
  BY <1>1, <1>2, <1>4 DEF Acknowledge, BufferInv, SectorTruth, NoIntr
<1>9. QED  BY <1>5, <1>6, <1>7, <1>8 DEF Kept

LEMMA TooEarlyKeeps == ASSUME TypeOK, TooEarly PROVE Kept
<1> DEFINE t == Fired(CDR)
<1>1. cdr \in Ctl /\ cdr' = t
  BY DEF TooEarly, TypeOK
<1>2. /\ t \in Ctl /\ t.posted = cdr.posted \ {CDR}
      /\ t.IrqStat = cdr.IrqStat /\ t.CmdInProgress = cdr.CmdInProgress /\ t.part = cdr.part
      /\ t.Cmd = cdr.Cmd /\ t.Irq1Pending = cdr.Irq1Pending /\ t.Result = cdr.Result
      /\ t.Transfer = cdr.Transfer
      /\ t.Reading = cdr.Reading /\ t.failed = cdr.failed /\ t.Play = cdr.Play
      /\ t.DriveState = cdr.DriveState
  BY <1>1, FiredIs
<1> HIDE DEF t
<1>3. TypeOK'
  BY <1>1, <1>2 DEF TooEarly, TypeOK
<1>4. DriveInv => DriveInv'
  BY <1>1, <1>2 DEF DriveInv, GoesOn
<1>5. CommandInv => CommandInv'
  BY <1>1, <1>2 DEF TooEarly, CommandInv, Answered, Behind
<1>6. BufferInv => BufferInv'
  BY <1>1, <1>2 DEF TooEarly, BufferInv, SectorTruth
<1>7. QED  BY <1>3, <1>4, <1>5, <1>6 DEF Kept

LEMMA HandOutKeeps == ASSUME TypeOK, HandOut PROVE Kept
<1> DEFINE f == Fired(CDR)
           x == IF buffer = None THEN f.Transfer ELSE buffer
           g == [f EXCEPT !.Transfer = x]
           what == IF cdr.Irq1Pending = "ok" THEN "sector" ELSE "error"
           t == [g EXCEPT !.Result = what, !.Irq1Pending = "none", !.IrqStat = "DataReady"]
<1>1. cdr \in Ctl /\ cdr' = t
  BY DEF HandOut, TypeOK, Transferred
<1>2. /\ f \in Ctl /\ f.posted = cdr.posted \ {CDR}
      /\ f.CmdInProgress = cdr.CmdInProgress /\ f.part = cdr.part /\ f.Cmd = cdr.Cmd
      /\ f.Reading = cdr.Reading /\ f.failed = cdr.failed /\ f.Play = cdr.Play
      /\ f.DriveState = cdr.DriveState
  BY <1>1, FiredIs
<1> HIDE DEF f
<1>3. x \in Sectors
  BY <1>2 DEF Ctl, TypeOK
<1> HIDE DEF x
<1>4. /\ g \in Ctl /\ Same(f, g) /\ g.CmdInProgress = f.CmdInProgress /\ g.part = f.part
      /\ g.Cmd = f.Cmd /\ g.Transfer = x
  BY <1>2, <1>3 DEF Ctl, Same
<1> HIDE DEF g
<1>5. what \in {"sector", "error"}
  OBVIOUS
<1>6. t \in Ctl
  <2>1. ASSUME NEW a \in {"sector", "error"}, NEW irq \in Irqs
        PROVE  [g EXCEPT !.Result = a, !.Irq1Pending = "none", !.IrqStat = irq] \in Ctl
    BY <1>4 DEF Ctl
  <2>2. "DataReady" \in Irqs
    BY DEF Irqs
  <2> HIDE DEF what
  <2>3. QED  BY <1>5, <2>1, <2>2, Zenon
<1>7. /\ Same(g, t) /\ t.CmdInProgress = g.CmdInProgress /\ t.part = g.part /\ t.Cmd = g.Cmd
      /\ t.Transfer = g.Transfer /\ t.IrqStat = "DataReady" /\ t.Irq1Pending = "none"
      /\ t.Result = what
  BY <1>4 DEF Ctl, Same
<1> HIDE DEF t
<1>8. TypeOK'
  BY <1>1, <1>6 DEF HandOut, TypeOK
<1>9. DriveInv => DriveInv'
  BY <1>1, <1>2, <1>4, <1>7 DEF DriveInv, GoesOn, Same
<1>10. CommandInv => CommandInv'
  <2>1. asked' = asked
    BY DEF HandOut
  <2>2. /\ cdr'.CmdInProgress = cdr.CmdInProgress /\ cdr'.part = cdr.part /\ cdr'.Cmd = cdr.Cmd
        /\ cdr'.posted = cdr.posted \ {CDR} /\ cdr'.IrqStat # NoIntr
    BY <1>1, <1>2, <1>4, <1>7 DEF Same, NoIntr
  <2>3. CDR \notin cdr'.posted
    BY <2>2
  <2>4. QED  BY <2>1, <2>2, <2>3 DEF CommandInv, Answered, Behind
<1>11. BufferInv => BufferInv'
  BY <1>1, <1>2, <1>4, <1>7 DEF HandOut, BufferInv, SectorTruth, x
<1>12. QED  BY <1>8, <1>9, <1>10, <1>11 DEF Kept

(* A command is taken up: no other is in progress while it runs.           *)
LEMMA TakenIs ==
  ASSUME NEW s \in Ctl
  PROVE  LET t == Taken(s)
         IN /\ t \in Ctl /\ Same(s, t) /\ t.CmdInProgress = None /\ t.part = s.part
            /\ t.Cmd = (IF s.part = 1 THEN None ELSE s.Cmd)
            /\ t.Irq1Pending = s.Irq1Pending
<1>1. ASSUME NEW c \in Cmds \cup {None}
      PROVE  LET t == [s EXCEPT !.CmdInProgress = None, !.Cmd = c]
             IN /\ t \in Ctl /\ Same(s, t) /\ t.CmdInProgress = None /\ t.part = s.part
                /\ t.Cmd = c /\ t.Irq1Pending = s.Irq1Pending
  BY DEF Ctl, Same
<1>2. (IF s.part = 1 THEN None ELSE s.Cmd) \in Cmds \cup {None}
  BY DEF Ctl
<1>3. QED  BY <1>1, <1>2 DEF Taken

LEMMA RunCommandKeeps == ASSUME TypeOK, RunCommand PROVE Kept
<1> DEFINE c == cdr.CmdInProgress
           e == Fired(CDR)
           s == Taken(e)
           reads == c = "SeekL" /\ s.part = 2 /\ ~Refused(s, c)
<1>1. /\ cdr \in Ctl /\ shut \in BOOLEAN /\ c \in Cmds /\ cdr.Irq1Pending = "none"
      /\ asked' = (IF s.part = 1 THEN None ELSE asked) /\ UNCHANGED <<shut, newest, ops, lids>>
  <2>1. cdr \in Ctl /\ shut \in BOOLEAN
    BY DEF TypeOK
  <2>2. /\ c # None /\ cdr.Irq1Pending = "none" /\ UNCHANGED <<shut, newest, ops, lids>>
        /\ asked' = (IF s.part = 1 THEN None ELSE asked)
    BY DEF RunCommand
  <2>3. QED  BY <2>1, <2>2 DEF Ctl
<1>2. PICK ok \in BOOLEAN : /\ \E o \in Answers(s, c, ok) : cdr' = Finish(o, c, s.part)
                           /\ buffer' = IF reads /\ ok THEN cdr.Pos ELSE buffer
  BY DEF RunCommand, Oks
<1>3. PICK o \in Answers(s, c, ok) : cdr' = Finish(o, c, s.part)
  BY <1>2
<1>4. /\ e \in Ctl /\ e.posted = cdr.posted \ {CDR} /\ e.part = cdr.part /\ e.Cmd = cdr.Cmd
      /\ e.Irq1Pending = cdr.Irq1Pending
      /\ e.Reading = cdr.Reading /\ e.failed = cdr.failed /\ e.Play = cdr.Play
      /\ e.DriveState = cdr.DriveState
  BY <1>1, FiredIs
<1> HIDE DEF e
<1>5. /\ s \in Ctl /\ Same(e, s) /\ s.CmdInProgress = None /\ s.part = e.part
      /\ s.Cmd = (IF e.part = 1 THEN None ELSE e.Cmd) /\ s.Irq1Pending = e.Irq1Pending
  BY <1>4, TakenIs
<1> HIDE DEF s, c, reads
<1>6. Sound(s, o) /\ (o.second => s.part = 1)
  BY <1>1, <1>5, AnswersAre
<1> DEFINE f == Finish(o, c, s.part)
           behind == ~o.second /\ s.Cmd # None /\ s.Cmd # c
<1>7. /\ f \in Ctl /\ (GoesOn(s) => GoesOn(f))
      /\ f.IrqStat \notin {NoIntr, "DataReady"} /\ f.Irq1Pending = s.Irq1Pending
      /\ f.Cmd = s.Cmd
      /\ f.CmdInProgress = (IF o.second THEN c ELSE IF behind THEN s.Cmd ELSE None)
      /\ f.part = (IF o.second THEN 2 ELSE IF behind THEN 1 ELSE s.part)
      /\ CDR \in f.posted <=> o.second \/ CDR \in s.posted
  BY <1>1, <1>5, <1>6, FinishIs
<1> HIDE DEF f
<1>8. cdr' = f
  BY <1>3 DEF f
<1>9. TypeOK'
  <2>1. cdr.Pos \in Sectors
    BY <1>1 DEF Ctl, Sectors
  <2>2. buffer' \in Sectors
    BY <1>2, <2>1 DEF TypeOK
  <2>3. asked' \in Cmds \cup {None}
    BY <1>1 DEF TypeOK
  <2>4. QED  BY <1>1, <1>7, <1>8, <2>2, <2>3 DEF TypeOK
<1>10. DriveInv => DriveInv'
  <2>1. DriveInv => GoesOn(s)
    BY <1>4, <1>5 DEF DriveInv, GoesOn, Same
  <2>2. QED  BY <1>7, <1>8, <2>1 DEF DriveInv
<1>11. CommandInv => CommandInv'
  <2> SUFFICES ASSUME CommandInv  PROVE CommandInv'
    OBVIOUS
  <2>1. CDR \notin s.posted /\ s.part = cdr.part /\ cdr.part \in {1, 2} /\ c # None
    BY <1>1, <1>4, <1>5, Facts DEF Same, Ctl
  <2>2. cdr'.IrqStat # NoIntr /\ (CDR \in cdr'.posted <=> o.second)
    BY <1>7, <1>8, <2>1
  <2>3. CDR \in cdr'.posted => cdr'.CmdInProgress # None
    BY <1>7, <1>8, <2>1, <2>2
  <2>4. asked' # None => cdr'.part = 1 /\ cdr'.CmdInProgress = asked'
    <3> SUFFICES ASSUME asked' # None  PROVE cdr'.part = 1 /\ cdr'.CmdInProgress = asked'
      OBVIOUS
    <3>1. cdr.part = 2 /\ asked' = asked /\ ~o.second
      BY <1>1, <1>6, <2>1
    <3>2. cdr.Cmd = asked /\ cdr.Cmd # c
      BY <2>1, <3>1 DEF CommandInv, Answered, Behind, c
    <3>3. s.Cmd = asked
      BY <1>4, <1>5, <3>1, <3>2
    <3>4. behind
      BY <3>1, <3>2, <3>3
    <3>5. QED  BY <1>7, <1>8, <3>1, <3>3, <3>4
  <2>5. Behind(cdr')
    <3>1. CASE o.second
      <4>1. cdr'.Cmd = None /\ cdr'.CmdInProgress = c
        BY <1>4, <1>5, <1>6, <1>7, <1>8, <3>1
      <4>2. QED  BY <2>1, <4>1 DEF Behind
    <3>2. CASE ~o.second
      BY <1>7, <1>8, <3>2 DEF Behind
    <3>3. QED  BY <3>1, <3>2
  <2>6. QED  BY <2>2, <2>3, <2>4, <2>5 DEF CommandInv, Answered, Behind
<1>12. BufferInv'
  <2>1. cdr'.IrqStat # "DataReady" /\ cdr'.Irq1Pending = "none"
    BY <1>1, <1>4, <1>5, <1>7, <1>8
  <2>2. QED  BY <2>1 DEF BufferInv, SectorTruth
<1>13. QED  BY <1>9, <1>10, <1>11, <1>12 DEF Kept

-----------------------------------------------------------------------------
(* The drive.  Its steps leave the commands alone; a sector that cannot be *)
(* announced waits for the acknowledgement.                                *)
Rest(s, t) == t.CmdInProgress = s.CmdInProgress /\ t.part = s.part /\ t.Cmd = s.Cmd

LEMMA CommandsStay ==
  ASSUME Rest(cdr, cdr'), asked' = asked, CDR \in cdr'.posted <=> CDR \in cdr.posted,
         cdr'.IrqStat = NoIntr => cdr.IrqStat = NoIntr,
         \/ cdr'.Irq1Pending = cdr.Irq1Pending
         \/ cdr'.Irq1Pending # "none" /\ cdr'.IrqStat # NoIntr
  PROVE  CommandInv => CommandInv'
BY DEF Rest, CommandInv, Answered, Behind

LEMMA ResultIs ==
  ASSUME NEW s \in Ctl, NEW ok \in BOOLEAN
  PROVE  LET t == SetResult(s, ok)
         IN /\ t \in Ctl /\ Same(s, t) /\ Rest(s, t) /\ t.Transfer = s.Transfer
            /\ s.IrqStat # NoIntr => /\ t.IrqStat = s.IrqStat /\ t.Result = s.Result
                                     /\ t.Irq1Pending = (IF ok THEN "ok" ELSE "error")
            /\ s.IrqStat = NoIntr => /\ t.Irq1Pending = s.Irq1Pending /\ t.IrqStat # NoIntr
                                     /\ t.Result = (IF ok THEN "sector" ELSE "error")
<1>1. ASSUME NEW q \in {"ok", "error"}
      PROVE  LET t == [s EXCEPT !.Irq1Pending = q]
             IN /\ t \in Ctl /\ Same(s, t) /\ Rest(s, t) /\ t.Transfer = s.Transfer
                /\ t.IrqStat = s.IrqStat /\ t.Result = s.Result /\ t.Irq1Pending = q
  BY DEF Ctl, Same, Rest
<1>2. ASSUME NEW r \in {"sector", "error"}, NEW irq \in Irqs
      PROVE  [s EXCEPT !.Result = r, !.IrqStat = irq] \in Ctl
  BY DEF Ctl
<1>3. /\ (IF ok THEN "ok" ELSE "error") \in {"ok", "error"}
      /\ (IF ok THEN "sector" ELSE "error") \in {"sector", "error"}
      /\ (IF ok THEN "DataReady" ELSE "DiskError") \in Irqs \ {NoIntr}
  BY DEF Irqs, NoIntr
<1>4. CASE s.IrqStat # NoIntr
  <2> DEFINE q == IF ok THEN "ok" ELSE "error"
             t == [s EXCEPT !.Irq1Pending = q]
  <2>1. SetResult(s, ok) = t
    BY <1>4 DEF SetResult
  <2> HIDE DEF q
  <2>2. /\ t \in Ctl /\ Same(s, t) /\ Rest(s, t) /\ t.Transfer = s.Transfer
        /\ t.IrqStat = s.IrqStat /\ t.Result = s.Result /\ t.Irq1Pending = q
    BY <1>1, <1>3 DEF q
  <2> HIDE DEF t
  <2>3. QED  BY <1>4, <2>1, <2>2 DEF q
<1>5. CASE s.IrqStat = NoIntr
  <2> DEFINE r == IF ok THEN "sector" ELSE "error"
             irq == IF ok THEN "DataReady" ELSE "DiskError"
             t == [s EXCEPT !.Result = r, !.IrqStat = irq]
  <2>1. SetResult(s, ok) = t
    BY <1>5 DEF SetResult
  <2>2. r \in {"sector", "error"} /\ irq \in Irqs /\ irq # NoIntr
    BY <1>3
  <2> HIDE DEF r, irq
  <2>3. t \in Ctl
    BY <1>2, <2>2
  <2>4. /\ Same(s, t) /\ Rest(s, t) /\ t.Transfer = s.Transfer
        /\ t.IrqStat = irq /\ t.Result = r /\ t.Irq1Pending = s.Irq1Pending
    BY DEF Ctl, Same, Rest
  <2> HIDE DEF t
  <2>5. t.IrqStat # NoIntr
    BY <2>2, <2>4
  <2>6. QED  BY <1>5, <2>1, <2>3, <2>4, <2>5 DEF r
<1>6. QED  BY <1>4, <1>5

LEMMA ApproachKeeps == ASSUME TypeOK, Approach PROVE Kept
<1> DEFINE e == Fired(CDREAD)
           g == [e EXCEPT !.Forward = @ + 1]
           t == [g EXCEPT !.posted = @ \cup {CDREAD}]
<1>1. /\ cdr \in Ctl /\ cdr' = t /\ CDREAD \in cdr.posted /\ cdr.Forward < 2
      /\ UNCHANGED <<buffer, shut, asked, newest, ops, lids>>
  BY DEF Approach, TypeOK, CDRPLAYREAD_INT, Due
<1>2. /\ e \in Ctl /\ e.posted = cdr.posted \ {CDREAD} /\ Rest(cdr, e)
      /\ e.IrqStat = cdr.IrqStat /\ e.Irq1Pending = cdr.Irq1Pending /\ e.Result = cdr.Result
      /\ e.Transfer = cdr.Transfer /\ e.Forward = cdr.Forward
      /\ e.Reading = cdr.Reading /\ e.failed = cdr.failed /\ e.Play = cdr.Play
      /\ e.DriveState = cdr.DriveState
  BY <1>1, FiredIs DEF Rest
<1> HIDE DEF e
<1>3. g \in Ctl
  <2>1. e.Forward + 1 \in 0 .. 2
    BY <1>1, <1>2 DEF Ctl
  <2>2. QED  BY <1>2, <2>1 DEF Ctl
<1>4. /\ Same(e, g) /\ Rest(e, g) /\ g.IrqStat = e.IrqStat /\ g.Irq1Pending = e.Irq1Pending
      /\ g.Result = e.Result /\ g.Transfer = e.Transfer
  BY <1>2 DEF Ctl, Same, Rest
<1> HIDE DEF g
<1>5. /\ t \in Ctl /\ t.posted = g.posted \cup {CDREAD} /\ Rest(g, t)
      /\ t.IrqStat = g.IrqStat /\ t.Irq1Pending = g.Irq1Pending /\ t.Result = g.Result
      /\ t.Transfer = g.Transfer /\ t.Reading = g.Reading /\ t.failed = g.failed
      /\ t.Play = g.Play /\ t.DriveState = g.DriveState
  BY <1>3 DEF Ctl, Rest
<1> HIDE DEF t
<1>6. /\ cdr' \in Ctl /\ Same(cdr, cdr') /\ Rest(cdr, cdr') /\ cdr'.IrqStat = cdr.IrqStat
      /\ cdr'.Irq1Pending = cdr.Irq1Pending /\ cdr'.Result = cdr.Result
      /\ cdr'.Transfer = cdr.Transfer
  BY <1>1, <1>2, <1>4, <1>5 DEF Same, Rest
<1>7. TypeOK'
  BY <1>1, <1>6 DEF TypeOK
<1>8. DriveInv => DriveInv'
  BY <1>6 DEF DriveInv, GoesOn, Same
<1>9. CommandInv => CommandInv'
  BY <1>1, <1>6, CommandsStay DEF Same
<1>10. BufferInv => BufferInv'
  BY <1>1, <1>6 DEF BufferInv, SectorTruth
<1>11. QED  BY <1>7, <1>8, <1>9, <1>10 DEF Kept

LEMMA NoSectorKeeps == ASSUME TypeOK, NoSector PROVE Kept
<1> DEFINE t == Fired(CDREAD)
<1>1. /\ cdr \in Ctl /\ cdr' = t /\ ~cdr.Reading /\ ~cdr.Play
      /\ UNCHANGED <<buffer, shut, asked, newest, ops, lids>>
  BY DEF NoSector, TypeOK
<1>2. /\ t \in Ctl /\ t.posted = cdr.posted \ {CDREAD} /\ Rest(cdr, t)
      /\ t.IrqStat = cdr.IrqStat /\ t.Irq1Pending = cdr.Irq1Pending /\ t.Result = cdr.Result
      /\ t.Transfer = cdr.Transfer
      /\ t.Reading = cdr.Reading /\ t.failed = cdr.failed /\ t.Play = cdr.Play
      /\ t.DriveState = cdr.DriveState
  BY <1>1, FiredIs DEF Rest
<1> HIDE DEF t
<1>3. TypeOK'
  BY <1>1, <1>2 DEF TypeOK
<1>4. DriveInv => DriveInv'
  BY <1>1, <1>2 DEF DriveInv, GoesOn
<1>5. CommandInv => CommandInv'
  BY <1>1, <1>2, CommandsStay
<1>6. BufferInv => BufferInv'
  BY <1>1, <1>2 DEF BufferInv, SectorTruth
<1>7. QED  BY <1>3, <1>4, <1>5, <1>6 DEF Kept

(* Nothing is announced and nothing handed out                             *)
Quiet(s, t) == /\ Rest(s, t) /\ t.IrqStat = s.IrqStat /\ t.Irq1Pending = s.Irq1Pending
               /\ t.Result = s.Result /\ t.Transfer = s.Transfer

LEMMA TurnedIs ==
  ASSUME NEW s \in Ctl, NEW f \in SUBSET Status
  PROVE  LET t == [SetPlaySeekRead(s, f) EXCEPT !.StatP = @ \cup {"rot"}, !.DriveState = "play_read"]
         IN /\ t \in Ctl /\ Quiet(s, t) /\ t.Reading = s.Reading /\ t.failed = s.failed
            /\ t.Play = s.Play /\ t.posted = s.posted /\ t.Pos = s.Pos
            /\ t.DriveState = "play_read"
<1> DEFINE h == SetPlaySeekRead(s, f)
           t == [h EXCEPT !.StatP = @ \cup {"rot"}, !.DriveState = "play_read"]
<1>1. /\ h \in Ctl /\ Leaves(s, h) /\ Same(s, h) /\ h.Pos = s.Pos
      /\ h.IrqStat = s.IrqStat /\ h.Result = s.Result
  BY FlagsAre
<1> HIDE DEF h
<1>2. t \in Ctl
  <2>1. ASSUME NEW g \in SUBSET Status, NEW d \in Drives
        PROVE  [h EXCEPT !.StatP = g, !.DriveState = d] \in Ctl
    BY <1>1 DEF Ctl
  <2>2. h.StatP \cup {"rot"} \in SUBSET Status /\ "play_read" \in Drives
    BY <1>1 DEF Ctl, Status, Drives
  <2>3. QED  BY <2>1, <2>2, Zenon
<1>3. /\ Quiet(h, t) /\ t.Reading = h.Reading /\ t.failed = h.failed /\ t.Play = h.Play
      /\ t.posted = h.posted /\ t.Pos = h.Pos /\ t.DriveState = "play_read"
  BY <1>1 DEF Ctl, Quiet, Rest
<1> HIDE DEF t
<1>4. Quiet(s, t)
  BY <1>1, <1>3 DEF Quiet, Rest, Leaves
<1>5. QED  BY <1>1, <1>2, <1>3, <1>4 DEF Same, h, t

(* The head moves on, and its next step is posted                          *)
LEMMA OnIs ==
  ASSUME NEW s \in Ctl, s.Pos <= End, NEW loc \in BOOLEAN
  PROVE  LET t == CDRPLAYREAD_INT([s EXCEPT !.LocL = loc, !.Pos = @ + 1])
             u == CDRPLAYREAD_INT([s EXCEPT !.Pos = @ + 1])
         IN \A v \in {t, u} :
              /\ v \in Ctl /\ Quiet(s, v) /\ v.Reading = s.Reading /\ v.failed = s.failed
              /\ v.Play = s.Play /\ v.posted = s.posted \cup {CDREAD}
              /\ v.DriveState = s.DriveState
<1> DEFINE t == [s EXCEPT !.LocL = loc, !.Pos = @ + 1]
           u == [s EXCEPT !.Pos = @ + 1]
<1>1. s.Pos + 1 \in 0 .. End + 1
  <2>1. End \in Nat /\ s.Pos \in 0 .. End + 1
    BY Facts DEF Ctl
  <2>2. QED  BY <2>1
<1>2. t \in Ctl /\ u \in Ctl
  BY <1>1 DEF Ctl
<1>3. \A v \in {t, u} : Quiet(s, v) /\ Same(s, v)
  BY DEF Ctl, Quiet, Rest, Same
<1>4. ASSUME NEW q \in Ctl
      PROVE  LET v == CDRPLAYREAD_INT(q)
             IN /\ v \in Ctl /\ Quiet(q, v) /\ v.Reading = q.Reading /\ v.failed = q.failed
                /\ v.Play = q.Play /\ v.posted = q.posted \cup {CDREAD}
                /\ v.DriveState = q.DriveState
  BY DEF CDRPLAYREAD_INT, Ctl, Quiet, Rest
<1> HIDE DEF t, u
<1>5. ASSUME NEW q \in {t, u}
      PROVE  LET v == CDRPLAYREAD_INT(q)
             IN /\ v \in Ctl /\ Quiet(s, v) /\ v.Reading = s.Reading /\ v.failed = s.failed
                /\ v.Play = s.Play /\ v.posted = s.posted \cup {CDREAD}
                /\ v.DriveState = s.DriveState
  <2> DEFINE v == CDRPLAYREAD_INT(q)
  <2>1. q \in Ctl /\ Quiet(s, q) /\ Same(s, q)
    BY <1>2, <1>3
  <2>2. /\ v \in Ctl /\ Quiet(q, v) /\ v.Reading = q.Reading /\ v.failed = q.failed
        /\ v.Play = q.Play /\ v.posted = q.posted \cup {CDREAD}
        /\ v.DriveState = q.DriveState
    BY <1>4, <2>1
  <2> HIDE DEF v
  <2>3. Quiet(s, v)
    BY <2>1, <2>2 DEF Quiet, Rest
  <2>4. QED  BY <2>1, <2>2, <2>3 DEF Same, v
<1>6. QED  BY <1>5 DEF t, u

LEMMA TransferredIs ==
  ASSUME NEW s \in Ctl, NEW b \in Sectors, b # None
  PROVE  LET t == Transferred(s, b)
         IN /\ t \in Ctl /\ Same(s, t) /\ Rest(s, t) /\ t.IrqStat = s.IrqStat
            /\ t.Irq1Pending = s.Irq1Pending /\ t.Result = s.Result /\ t.Pos = s.Pos
            /\ t.Transfer = b
<1> DEFINE t == [s EXCEPT !.Transfer = b]
<1>1. Transferred(s, b) = t
  BY DEF Transferred
<1>2. /\ t \in Ctl /\ Same(s, t) /\ Rest(s, t) /\ t.IrqStat = s.IrqStat
      /\ t.Irq1Pending = s.Irq1Pending /\ t.Result = s.Result /\ t.Pos = s.Pos
      /\ t.Transfer = b
  BY DEF Ctl, Same, Rest
<1>3. QED  BY <1>1, <1>2

LEMMA ReadSectorKeeps == ASSUME TypeOK, ReadSector PROVE Kept
<1> DEFINE f == Fired(CDREAD)
           s == [SetPlaySeekRead(f, {"read"}) EXCEPT !.StatP = @ \cup {"rot"},
                                                     !.DriveState = "play_read"]
           got == IF MayTransfer(s) THEN Transferred(s, s.Pos) ELSE s
           on == CDRPLAYREAD_INT([got EXCEPT !.LocL = TRUE, !.Pos = @ + 1])
           good(d) == IF d THEN SetResult(on, TRUE) ELSE on
           bad == [SetResult(s, FALSE) EXCEPT !.DriveState = "paused", !.failed = TRUE]
<1>1. /\ cdr \in Ctl /\ CDREAD \in cdr.posted /\ cdr.Reading /\ cdr.Pos <= End
      /\ Tight \/ ~(cdr.IrqStat = NoIntr /\ cdr.Irq1Pending # "none")
      /\ UNCHANGED <<shut, asked, ops, lids>>
  BY DEF ReadSector, TypeOK, Due
<1>2. \/ \E d \in BOOLEAN :
           /\ cdr' = good(d) /\ buffer' = cdr.Pos
           /\ newest' = IF d /\ cdr.IrqStat = NoIntr THEN cdr.Pos ELSE newest
      \/ cdr' = bad /\ UNCHANGED <<buffer, newest>>
  BY DEF ReadSector
<1>3. cdr.Pos \in Nat /\ cdr.Pos \in Sectors /\ cdr.Pos # None
  <2>1. End \in Nat /\ None \notin Nat
    BY CtlAssumption
  <2>2. cdr.Pos \in 0 .. End + 1
    BY <1>1 DEF Ctl
  <2>3. QED  BY <2>1, <2>2 DEF Sectors
<1>4. /\ f \in Ctl /\ f.posted = cdr.posted \ {CDREAD} /\ Quiet(cdr, f) /\ f.Pos = cdr.Pos
      /\ f.Reading = cdr.Reading /\ f.failed = cdr.failed /\ f.Play = cdr.Play
      /\ f.DriveState = cdr.DriveState
  BY <1>1, FiredIs DEF Quiet, Rest
<1> HIDE DEF f
<1>5. /\ s \in Ctl /\ Quiet(cdr, s) /\ s.Reading /\ s.failed = cdr.failed /\ s.Pos = cdr.Pos
      /\ s.Play = cdr.Play /\ s.posted = cdr.posted \ {CDREAD} /\ s.DriveState = "play_read"
  <2>1. {"read"} \in SUBSET Status
    BY DEF Status
  <2>2. /\ s \in Ctl /\ Quiet(f, s) /\ s.Reading = f.Reading /\ s.failed = f.failed
        /\ s.Play = f.Play /\ s.posted = f.posted /\ s.Pos = f.Pos
        /\ s.DriveState = "play_read"
    BY <1>4, <2>1, TurnedIs
  <2> HIDE DEF s
  <2>3. QED  BY <1>1, <1>4, <2>2 DEF Quiet, Rest
<1> HIDE DEF s
<1>6. /\ got \in Ctl /\ Same(s, got) /\ Rest(s, got) /\ got.IrqStat = s.IrqStat
      /\ got.Irq1Pending = s.Irq1Pending /\ got.Result = s.Result /\ got.Pos = s.Pos
      /\ got.Transfer = IF MayTransfer(s) THEN cdr.Pos ELSE s.Transfer
  <2>1. CASE MayTransfer(s)
    BY <1>3, <1>5, <2>1, TransferredIs
  <2>2. CASE ~MayTransfer(s)
    BY <1>5, <2>2 DEF Same, Rest
  <2>3. QED  BY <2>1, <2>2
<1> HIDE DEF got
<1>7. /\ on \in Ctl /\ Quiet(got, on) /\ on.Reading = got.Reading /\ on.failed = got.failed
      /\ on.Play = got.Play /\ on.posted = got.posted \cup {CDREAD}
      /\ on.DriveState = got.DriveState
  BY <1>1, <1>5, <1>6, OnIs
<1> HIDE DEF on
<1>8. /\ on.Reading /\ on.failed = cdr.failed /\ on.Play = cdr.Play
      /\ on.posted = cdr.posted /\ on.DriveState = "play_read" /\ Rest(cdr, on)
      /\ on.IrqStat = cdr.IrqStat /\ on.Irq1Pending = cdr.Irq1Pending
      /\ on.Result = cdr.Result
      /\ on.Transfer = IF MayTransfer(cdr) THEN cdr.Pos ELSE cdr.Transfer
  BY <1>1, <1>5, <1>6, <1>7 DEF Quiet, Rest, Same, MayTransfer
<1>9. ASSUME NEW d \in BOOLEAN, cdr' = good(d), buffer' = cdr.Pos,
             newest' = IF d /\ cdr.IrqStat = NoIntr THEN cdr.Pos ELSE newest
      PROVE  Kept
  <2> DEFINE r == SetResult(on, TRUE)
  <2>1. /\ r \in Ctl /\ Same(on, r) /\ Rest(on, r) /\ r.Transfer = on.Transfer
        /\ on.IrqStat # NoIntr => /\ r.IrqStat = on.IrqStat /\ r.Result = on.Result
                                  /\ r.Irq1Pending = "ok"
        /\ on.IrqStat = NoIntr => /\ r.Irq1Pending = on.Irq1Pending /\ r.IrqStat # NoIntr
                                  /\ r.Result = "sector"
    BY <1>7, ResultIs
  <2> HIDE DEF r
  <2>2. cdr' = IF d THEN r ELSE on
    BY <1>9 DEF r
  <2>3. /\ cdr' \in Ctl /\ Same(on, cdr') /\ Rest(cdr, cdr') /\ cdr'.Transfer = on.Transfer
    BY <1>7, <1>8, <2>1, <2>2 DEF Same, Rest
  <2>4. TypeOK'
    <3>1. newest' \in Sectors
      BY <1>3, <1>9 DEF TypeOK
    <3>2. QED  BY <1>1, <1>3, <1>9, <2>3, <3>1 DEF TypeOK
  <2>5. DriveInv => DriveInv'
    BY <1>1, <1>8, <2>3 DEF DriveInv, GoesOn, Same
  <2>6. CommandInv => CommandInv'
    <3>1. cdr'.posted = cdr.posted
      BY <1>8, <2>3 DEF Same
    <3>2. /\ cdr'.IrqStat = NoIntr => cdr.IrqStat = NoIntr
          /\ \/ cdr'.Irq1Pending = cdr.Irq1Pending
             \/ cdr'.Irq1Pending # "none" /\ cdr'.IrqStat # NoIntr
      BY <1>8, <2>1, <2>2
    <3>3. QED  BY <1>1, <2>3, <3>1, <3>2, CommandsStay
  <2>7. ~Tight /\ BufferInv => BufferInv'
    <3> SUFFICES ASSUME ~Tight, BufferInv  PROVE BufferInv'
      OBVIOUS
    <3>1. CASE cdr.IrqStat = NoIntr
      <4>1. MayTransfer(cdr)
        BY <1>1, <3>1 DEF MayTransfer
      <4>2. cdr'.Transfer = cdr.Pos
        BY <1>8, <2>3, <4>1
      <4>3. CASE d
        BY <1>3, <1>9, <3>1, <4>2, <4>3 DEF BufferInv, SectorTruth
      <4>4. CASE ~d
        BY <1>3, <1>8, <1>9, <2>2, <3>1, <4>4 DEF BufferInv, SectorTruth, NoIntr
      <4>5. QED  BY <4>3, <4>4
    <3>2. CASE cdr.IrqStat # NoIntr
      <4>1. cdr'.Transfer = cdr.Transfer /\ newest' = newest
        BY <1>8, <1>9, <2>3, <3>2 DEF MayTransfer
      <4>2. cdr'.IrqStat = cdr.IrqStat /\ cdr'.Result = cdr.Result
        BY <1>8, <2>1, <2>2, <3>2
      <4>3. QED  BY <1>3, <1>9, <4>1, <4>2 DEF BufferInv, SectorTruth
    <3>3. QED  BY <3>1, <3>2
  <2>8. QED  BY <2>4, <2>5, <2>6, <2>7 DEF Kept
<1>10. ASSUME cdr' = bad, UNCHANGED <<buffer, newest>>
       PROVE  Kept
  <2> DEFINE r == SetResult(s, FALSE)
             t == [r EXCEPT !.DriveState = "paused", !.failed = TRUE]
  <2>1. /\ r \in Ctl /\ Same(s, r) /\ Rest(s, r) /\ r.Transfer = s.Transfer
        /\ s.IrqStat # NoIntr => /\ r.IrqStat = s.IrqStat /\ r.Result = s.Result
                                 /\ r.Irq1Pending = "error"
        /\ s.IrqStat = NoIntr => /\ r.Irq1Pending = s.Irq1Pending /\ r.IrqStat # NoIntr
                                 /\ r.Result = "error"
    BY <1>5, ResultIs
  <2> HIDE DEF r
  <2>2. t \in Ctl
    <3>1. ASSUME NEW d \in Drives, NEW b \in BOOLEAN
          PROVE  [r EXCEPT !.DriveState = d, !.failed = b] \in Ctl
      BY <2>1 DEF Ctl
    <3>2. "paused" \in Drives
      BY DEF Drives
    <3>3. QED  BY <3>1, <3>2, Zenon
  <2>3. /\ Quiet(r, t) /\ t.Reading = r.Reading /\ t.failed /\ t.Play = r.Play
        /\ t.posted = r.posted /\ t.DriveState = "paused"
    BY <2>1 DEF Ctl, Quiet, Rest
  <2>4. cdr' = t
    BY <1>10 DEF r
  <2> HIDE DEF t
  <2>5. /\ Rest(cdr, cdr') /\ cdr'.posted = cdr.posted \ {CDREAD} /\ cdr'.Play = cdr.Play
        /\ cdr'.failed /\ cdr'.DriveState = "paused" /\ cdr'.Transfer = cdr.Transfer
    BY <1>5, <2>1, <2>3, <2>4 DEF Quiet, Rest, Same
  <2>6. TypeOK'
    BY <1>1, <1>10, <2>2, <2>4 DEF TypeOK
  <2>7. DriveInv => DriveInv'
    BY <1>1, <2>5 DEF DriveInv, GoesOn
  <2>8. CommandInv => CommandInv'
    <3>1. /\ cdr'.IrqStat = NoIntr => cdr.IrqStat = NoIntr
          /\ \/ cdr'.Irq1Pending = cdr.Irq1Pending
             \/ cdr'.Irq1Pending # "none" /\ cdr'.IrqStat # NoIntr
      BY <1>5, <2>1, <2>3, <2>4 DEF Quiet
    <3>2. CDR \in cdr'.posted <=> CDR \in cdr.posted
      BY <2>5
    <3>3. QED  BY <1>1, <2>5, <3>1, <3>2, CommandsStay
  <2>9. BufferInv => BufferInv'
    <3>1. cdr'.Result = "sector" => cdr'.IrqStat = cdr.IrqStat /\ cdr'.Result = cdr.Result
      BY <1>5, <2>1, <2>3, <2>4 DEF Quiet
    <3>2. cdr'.Irq1Pending = "ok" => cdr.Irq1Pending = "ok"
      BY <1>5, <2>1, <2>3, <2>4 DEF Quiet
    <3>3. QED  BY <1>10, <2>5, <3>1, <3>2 DEF BufferInv, SectorTruth
  <2>10. QED  BY <2>6, <2>7, <2>8, <2>9 DEF Kept
<1>11. QED  BY <1>2, <1>9, <1>10

(* A play that ends                                                        *)
LEMMA EndedIs ==
  ASSUME NEW s \in Ctl
  PROVE  LET t == [SetPlaySeekRead(StopCdda(s), {}) EXCEPT !.DriveState = "paused"]
         IN /\ t \in Ctl /\ Quiet(s, t) /\ t.Reading = s.Reading /\ ~t.Play
            /\ t.posted = s.posted /\ t.Pos = s.Pos /\ t.DriveState = "paused"
<1> DEFINE q == StopCdda(s)
           h == SetPlaySeekRead(q, {})
           t == [h EXCEPT !.DriveState = "paused"]
<1>1. /\ q \in Ctl /\ Quiet(s, q) /\ q.Reading = s.Reading /\ ~q.Play
      /\ q.posted = s.posted /\ q.Pos = s.Pos
  BY DEF StopCdda, Ctl, Quiet, Rest
<1> HIDE DEF q
<1>2. /\ h \in Ctl /\ Leaves(q, h) /\ Same(q, h) /\ h.Pos = q.Pos
      /\ h.IrqStat = q.IrqStat /\ h.Result = q.Result
  BY <1>1, FlagsAre
<1> HIDE DEF h
<1>3. t \in Ctl
  BY <1>2 DEF Ctl, Drives
<1>4. /\ Quiet(h, t) /\ t.Reading = h.Reading /\ t.Play = h.Play
      /\ t.posted = h.posted /\ t.Pos = h.Pos /\ t.DriveState = "paused"
  BY <1>2 DEF Ctl, Quiet, Rest
<1> HIDE DEF t
<1>5. Quiet(s, t)
  BY <1>1, <1>2, <1>4 DEF Quiet, Rest, Leaves
<1>6. QED  BY <1>1, <1>2, <1>3, <1>4, <1>5 DEF Same, q, h, t

LEMMA ReportIs ==
  ASSUME NEW s \in Ctl, NEW irq \in Irqs
  PROVE  LET t == [s EXCEPT !.Result = "report", !.IrqStat = irq]
         IN /\ t \in Ctl /\ Rest(s, t) /\ Same(s, t) /\ t.Irq1Pending = s.Irq1Pending
            /\ t.Transfer = s.Transfer /\ t.Pos = s.Pos /\ t.Result = "report" /\ t.IrqStat = irq
BY DEF Ctl, Rest, Same

LEMMA PlaySectorKeeps == ASSUME TypeOK, PlaySector PROVE Kept
<1> DEFINE f == Fired(CDREAD)
           h == SetPlaySeekRead(f, {"play"})
           s == [h EXCEPT !.DriveState = "play_read"]
           stopped(t) == [SetPlaySeekRead(StopCdda(t), {}) EXCEPT !.DriveState = "paused"]
           played == IF s.Pos = End THEN stopped(s) ELSE s
           ended == [stopped(played) EXCEPT !.Result = "report", !.IrqStat = "DataEnd"]
           told == [played EXCEPT !.Result = "report", !.IrqStat = "DataReady"]
           on(t) == CDRPLAYREAD_INT([t EXCEPT !.Pos = @ + 1])
           (* what holds of the controller before the head moves on *)
           Before(t) == /\ t \in Ctl /\ Rest(cdr, t) /\ t.Pos = cdr.Pos /\ ~t.Reading
                        /\ t.DriveState \in {"play_read", "paused"}
                        /\ t.posted = cdr.posted \ {CDREAD}
                        /\ t.Irq1Pending = cdr.Irq1Pending /\ t.Transfer = cdr.Transfer
           Silent(t) == t.IrqStat = cdr.IrqStat /\ t.Result = cdr.Result
           Told(t) == t.IrqStat # NoIntr /\ t.Result = "report"
<1>1. /\ cdr \in Ctl /\ CDREAD \in cdr.posted /\ ~cdr.Reading /\ cdr.Pos <= End
      /\ UNCHANGED <<buffer, shut, asked, newest, ops, lids>>
  BY DEF PlaySector, TypeOK, Due
<1>2. \/ cdr' = on(played)
      \/ cdr.IrqStat = NoIntr /\ (cdr' = on(ended) \/ cdr' = on(told))
  BY DEF PlaySector
<1>3. /\ f \in Ctl /\ f.posted = cdr.posted \ {CDREAD} /\ Quiet(cdr, f) /\ f.Pos = cdr.Pos
      /\ f.Reading = cdr.Reading
  BY <1>1, FiredIs DEF Quiet, Rest
<1> HIDE DEF f
<1>4. /\ h \in Ctl /\ Leaves(f, h) /\ Same(f, h) /\ h.Pos = f.Pos
      /\ h.IrqStat = f.IrqStat /\ h.Result = f.Result
  <2>1. {"play"} \in SUBSET Status
    BY DEF Status
  <2>2. QED  BY <1>3, <2>1, FlagsAre
<1> HIDE DEF h
<1>5. Before(s) /\ Silent(s)
  <2>1. s \in Ctl
    BY <1>4 DEF Ctl, Drives
  <2>2. /\ Quiet(h, s) /\ s.Reading = h.Reading /\ s.posted = h.posted
        /\ s.Pos = h.Pos /\ s.DriveState = "play_read"
    BY <1>4 DEF Ctl, Quiet, Rest
  <2> HIDE DEF s
  <2>3. QED  BY <1>1, <1>3, <1>4, <2>1, <2>2 DEF Quiet, Rest, Same, Leaves
<1> HIDE DEF s
<1>6. ASSUME NEW t, Before(t), Silent(t)  PROVE Before(stopped(t)) /\ Silent(stopped(t))
  <2> DEFINE u == stopped(t)
  <2>1. /\ u \in Ctl /\ Quiet(t, u) /\ u.Reading = t.Reading
        /\ u.posted = t.posted /\ u.Pos = t.Pos /\ u.DriveState = "paused"
    BY <1>6, EndedIs
  <2> HIDE DEF u
  <2>2. Before(u) /\ Silent(u)
    BY <1>6, <2>1 DEF Quiet, Rest
  <2>3. QED  BY <2>2 DEF u
<1> HIDE DEF stopped
<1>7. Before(played) /\ Silent(played)
  BY <1>5, <1>6
<1> HIDE DEF played
<1>8. /\ Before(ended) /\ Told(ended)
      /\ Before(told) /\ Told(told)
  <2>1. {"DataEnd", "DataReady"} \subseteq Irqs /\ NoIntr \notin {"DataEnd", "DataReady"}
    BY DEF Irqs, NoIntr
  <2>2. ASSUME NEW t, Before(t), NEW irq \in {"DataEnd", "DataReady"}
        PROVE  LET u == [t EXCEPT !.Result = "report", !.IrqStat = irq] IN Before(u) /\ Told(u)
    <3> DEFINE u == [t EXCEPT !.Result = "report", !.IrqStat = irq]
    <3>1. /\ u \in Ctl /\ Rest(t, u) /\ Same(t, u) /\ u.Irq1Pending = t.Irq1Pending
          /\ u.Transfer = t.Transfer /\ u.Pos = t.Pos /\ u.Result = "report" /\ u.IrqStat = irq
      BY <2>1, <2>2, ReportIs
    <3> HIDE DEF u
    <3>2. Before(u) /\ Told(u)
      BY <2>1, <2>2, <3>1 DEF Rest, Same
    <3>3. QED  BY <3>2 DEF u
  <2> DEFINE st == stopped(played)
  <2>3. Before(st)
    BY <1>6, <1>7
  <2> HIDE DEF st, Before, Told
  <2>4. Before(ended) /\ Told(ended)
    BY <2>2, <2>3 DEF st
  <2>5. Before(told) /\ Told(told)
    BY <1>7, <2>2
  <2>6. QED  BY <2>4, <2>5
<1> HIDE DEF ended, told
<1>9. PICK w : /\ Before(w) /\ cdr' = on(w)
               /\ Silent(w) \/ (cdr.IrqStat = NoIntr /\ Told(w))
  <2> HIDE DEF Before, Silent, Told, on
  <2>1. QED  BY <1>2, <1>7, <1>8
<1>10. /\ cdr' \in Ctl /\ Quiet(w, cdr') /\ cdr'.Reading = w.Reading
       /\ cdr'.posted = w.posted \cup {CDREAD} /\ cdr'.DriveState = w.DriveState
  <2>1. w \in Ctl /\ w.Pos <= End
    BY <1>1, <1>9
  <2>2. on(w) \in Ctl /\ Quiet(w, on(w)) /\ on(w).Reading = w.Reading
        /\ on(w).posted = w.posted \cup {CDREAD} /\ on(w).DriveState = w.DriveState
    BY <2>1, OnIs
  <2> HIDE DEF on
  <2>3. QED  BY <1>9, <2>2
<1> HIDE DEF on
<1>11. TypeOK'
  BY <1>1, <1>10 DEF TypeOK
<1>12. DriveInv'
  BY <1>9, <1>10 DEF DriveInv, GoesOn
<1>13. CommandInv => CommandInv'
  <2>1. /\ cdr'.IrqStat = NoIntr => cdr.IrqStat = NoIntr
        /\ cdr'.Irq1Pending = cdr.Irq1Pending /\ Rest(cdr, cdr')
        /\ CDR \in cdr'.posted <=> CDR \in cdr.posted
    BY <1>9, <1>10 DEF Quiet, Rest
  <2>2. QED  BY <1>1, <2>1, CommandsStay
<1>14. BufferInv => BufferInv'
  BY <1>1, <1>9, <1>10 DEF Quiet, BufferInv, SectorTruth
<1>15. QED  BY <1>11, <1>12, <1>13, <1>14 DEF Kept

-----------------------------------------------------------------------------
(* The lid.  A lid that is found open answers what was under way; the      *)
(* other steps of the lid leave the commands alone.                        *)
Found(s, t) == s.DriveState = "lid_open" /\ "shell" \in t.StatP \ s.StatP
LidDoes(s, t) ==
  /\ t \in Ctl /\ t.Irq1Pending = s.Irq1Pending /\ t.Transfer = s.Transfer
  /\ \/ Quiet(s, t) /\ (CDR \in t.posted <=> CDR \in s.posted) /\ ~Found(s, t)
     \/ /\ t.IrqStat = "DiskError" /\ t.CmdInProgress = None /\ Found(s, t)
        /\ CDR \in t.posted => CDR \in s.posted /\ s.CmdInProgress = None
(* the event of the lid itself is what the step is for                     *)
Fed(s) ==
  /\ s.Reading /\ ~s.failed => CDREAD \in s.posted
  /\ s.Play => CDREAD \in s.posted
  /\ s.Reading \/ s.DriveState \in {"lid_open", "rescan", "prepare"} => ~s.Play

LEMMA StandbyIs ==
  ASSUME NEW s \in Ctl, NEW open \in BOOLEAN,
         s.DriveState \notin {"lid_open", "rescan", "prepare"}
  PROVE  LET t == LidStandby(s, open) IN LidDoes(s, t) /\ (Fed(s) => GoesOn(t))
<1> DEFINE q == StopCdda(s)
           h == SetPlaySeekRead(q, {})
           g == [h EXCEPT !.DriveState = "lid_open"]
           u == set_event(g, CDRLID)
<1>1. /\ q \in Ctl /\ Quiet(s, q) /\ q.Reading = s.Reading /\ q.failed = s.failed /\ ~q.Play
      /\ q.posted = s.posted /\ q.DriveState = s.DriveState
  BY DEF StopCdda, Ctl, Quiet, Rest
<1> HIDE DEF q
<1>2. /\ h \in Ctl /\ Leaves(q, h) /\ Same(q, h)
      /\ h.IrqStat = q.IrqStat /\ h.Result = q.Result
  BY <1>1, FlagsAre
<1> HIDE DEF h
<1>3. /\ g \in Ctl /\ Quiet(h, g) /\ g.Reading = h.Reading /\ g.failed = h.failed
      /\ g.Play = h.Play /\ g.posted = h.posted
  BY <1>2 DEF Ctl, Drives, Quiet, Rest
<1> HIDE DEF g
<1>4. /\ u \in Ctl /\ Quiet(g, u) /\ u.Reading = g.Reading /\ u.failed = g.failed
      /\ u.Play = g.Play /\ u.posted = g.posted \cup {CDRLID}
  BY <1>3, EventIs DEF Quiet, Rest
<1> HIDE DEF u
<1>5. LidStandby(s, open) = IF open THEN u ELSE h
  BY DEF LidStandby, q, h, g, u
<1>6. LidDoes(s, u) /\ LidDoes(s, h)
  BY <1>1, <1>2, <1>3, <1>4 DEF LidDoes, Found, Quiet, Rest, Same, Leaves
<1>7. Fed(s) => GoesOn(u) /\ GoesOn(h)
  BY <1>1, <1>2, <1>3, <1>4 DEF Fed, GoesOn, Same
<1>8. QED  BY <1>5, <1>6, <1>7

LEMMA OpenedIs ==
  ASSUME NEW s \in Ctl, s.DriveState = "lid_open", "shell" \notin s.StatP
  PROVE  LET t == Opened(s) IN LidDoes(s, t) /\ ~t.Reading /\ t.Play = s.Play
<1> DEFINE q == StopReading(s)
           h == SetPlaySeekRead(q, {})
           t == [h EXCEPT !.StatP = @ \cup {"shell"}, !.Result = "lid", !.IrqStat = "DiskError"]
           u == [t EXCEPT !.CmdInProgress = None, !.posted = @ \ {CDR}]
<1>1. /\ q \in Ctl /\ Leaves(s, q) /\ ~q.Reading /\ q.Play = s.Play
  BY DEF StopReading, Ctl, Leaves
<1> HIDE DEF q
<1>2. h \in Ctl /\ Leaves(q, h) /\ Same(q, h)
  BY <1>1, FlagsAre
<1> HIDE DEF h
<1>3. t \in Ctl
  <2>1. ASSUME NEW f \in SUBSET Status, NEW r \in {"lid"}, NEW irq \in Irqs
        PROVE  [h EXCEPT !.StatP = f, !.Result = r, !.IrqStat = irq] \in Ctl
    BY <1>2 DEF Ctl
  <2>2. h.StatP \cup {"shell"} \in SUBSET Status /\ "DiskError" \in Irqs
    BY <1>2 DEF Ctl, Status, Irqs
  <2>3. QED  BY <2>1, <2>2, Zenon
<1>4. /\ Leaves(h, t) /\ t.IrqStat = "DiskError" /\ "shell" \in t.StatP
      /\ t.Reading = h.Reading /\ t.Play = h.Play
  BY <1>2 DEF Ctl, Leaves
<1> HIDE DEF t
<1>5. /\ u \in Ctl /\ u.CmdInProgress = None /\ CDR \notin u.posted
      /\ u.Irq1Pending = t.Irq1Pending /\ u.Transfer = t.Transfer
      /\ u.IrqStat = t.IrqStat /\ u.StatP = t.StatP
      /\ u.Reading = t.Reading /\ u.Play = t.Play
  BY <1>3 DEF Ctl
<1> HIDE DEF u
<1>6. Opened(s) = IF s.CmdInProgress # None \/ s.Reading THEN u ELSE t
  BY DEF Opened, q, h, t, u
<1>7. LidDoes(s, u) /\ ~u.Reading /\ u.Play = s.Play
  BY <1>1, <1>2, <1>4, <1>5 DEF LidDoes, Found, Leaves, Same
<1>8. s.CmdInProgress = None => LidDoes(s, t) /\ ~t.Reading /\ t.Play = s.Play
  BY <1>1, <1>2, <1>3, <1>4 DEF LidDoes, Found, Leaves, Same
<1>9. QED  BY <1>6, <1>7, <1>8

(* The next step of the lid is posted                                      *)
LEMMA LidOn ==
  ASSUME NEW s \in Ctl, NEW t \in Ctl, LidDoes(s, t)
  PROVE  LET u == set_event(t, CDRLID)
         IN /\ LidDoes(s, u) /\ u.posted = t.posted \cup {CDRLID}
            /\ u.Reading = t.Reading /\ u.failed = t.failed /\ u.Play = t.Play
<1> DEFINE u == set_event(t, CDRLID)
<1>1. /\ u \in Ctl /\ u.posted = t.posted \cup {CDRLID} /\ Quiet(t, u) /\ u.StatP = t.StatP
      /\ u.Reading = t.Reading /\ u.failed = t.failed /\ u.Play = t.Play
  BY EventIs DEF Quiet, Rest
<1> HIDE DEF u
<1>2. LidDoes(s, u)
  BY <1>1 DEF LidDoes, Found, Quiet, Rest
<1>3. QED  BY <1>1, <1>2 DEF u

LEMMA LidOpenIs ==
  ASSUME NEW s \in Ctl, NEW open \in BOOLEAN, s.DriveState = "lid_open"
  PROVE  LET t == LidOpen(s, open) IN LidDoes(s, t) /\ (Fed(s) => GoesOn(t))
<1> DEFINE still == [s EXCEPT !.StatP = @ \ {"rot"}]
           scan == [s EXCEPT !.DriveState = "rescan"]
<1>1. ASSUME NEW t \in Ctl, LidDoes(s, t), t.Play = s.Play,
             t.Reading = FALSE \/ (t.Reading = s.Reading /\ t.failed = s.failed
                                   /\ t.posted = s.posted)
      PROVE  LET u == set_event(t, CDRLID) IN LidDoes(s, u) /\ (Fed(s) => GoesOn(u))
  <2> DEFINE u == set_event(t, CDRLID)
  <2>1. /\ LidDoes(s, u) /\ u.posted = t.posted \cup {CDRLID}
        /\ u.Reading = t.Reading /\ u.failed = t.failed /\ u.Play = t.Play
    BY <1>1, LidOn
  <2> HIDE DEF u
  <2>2. Fed(s) => GoesOn(u)
    BY <1>1, <2>1 DEF Fed, GoesOn
  <2>3. QED  BY <2>1, <2>2 DEF u
<1>2. CASE "shell" \notin s.StatP
  <2> DEFINE t == Opened(s)
  <2>1. LidDoes(s, t) /\ t \in Ctl /\ t.Reading = FALSE /\ t.Play = s.Play
    <3>1. LidDoes(s, t) /\ ~t.Reading /\ t.Play = s.Play
      BY <1>2, OpenedIs
    <3> HIDE DEF t
    <3>2. t \in Ctl
      BY <3>1 DEF LidDoes
    <3>3. t.Reading \in BOOLEAN
      BY <3>2 DEF Ctl
    <3>4. QED  BY <3>1, <3>2, <3>3
  <2> HIDE DEF t
  <2>2. LidOpen(s, open) = set_event(t, CDRLID)
    BY <1>2 DEF LidOpen, t
  <2>3. QED  BY <1>1, <2>1, <2>2
<1>3. ASSUME NEW t \in {s, still, scan}
      PROVE  /\ t \in Ctl /\ LidDoes(s, t) /\ t.Play = s.Play /\ t.Reading = s.Reading
             /\ t.failed = s.failed /\ t.posted = s.posted
  <2>1. LidDoes(s, s)
    BY DEF LidDoes, Found, Quiet, Rest
  <2>2. /\ still \in Ctl /\ LidDoes(s, still) /\ still.Play = s.Play
        /\ still.Reading = s.Reading /\ still.failed = s.failed /\ still.posted = s.posted
    <3>1. s.StatP \ {"rot"} \in SUBSET Status
      BY DEF Ctl
    <3>2. still \in Ctl
      BY <3>1 DEF Ctl
    <3>3. /\ Quiet(s, still) /\ still.Play = s.Play /\ still.Reading = s.Reading
          /\ still.failed = s.failed /\ still.posted = s.posted /\ still.StatP \subseteq s.StatP
      BY DEF Ctl, Quiet, Rest
    <3> HIDE DEF still
    <3>4. QED  BY <3>2, <3>3 DEF LidDoes, Found, Quiet
  <2>3. /\ scan \in Ctl /\ LidDoes(s, scan) /\ scan.Play = s.Play
        /\ scan.Reading = s.Reading /\ scan.failed = s.failed /\ scan.posted = s.posted
    <3>1. scan \in Ctl
      BY DEF Ctl, Drives
    <3>2. /\ Quiet(s, scan) /\ scan.Play = s.Play /\ scan.Reading = s.Reading
          /\ scan.failed = s.failed /\ scan.posted = s.posted /\ scan.StatP = s.StatP
      BY DEF Ctl, Quiet, Rest
    <3> HIDE DEF scan
    <3>3. QED  BY <3>1, <3>2 DEF LidDoes, Found, Quiet
  <2> HIDE DEF still, scan
  <2>4. QED  BY <2>1, <2>2, <2>3
<1>4. CASE "shell" \in s.StatP
  <2>1. PICK t \in {s, still, scan} : LidOpen(s, open) = set_event(t, CDRLID)
    BY <1>4 DEF LidOpen
  <2> HIDE DEF still, scan
  <2>2. QED  BY <1>1, <1>3, <2>1
<1>5. QED  BY <1>2, <1>4

LEMMA LidSeekIs ==
  ASSUME NEW s \in Ctl, NEW open \in BOOLEAN
  PROVE  LET t == LidSeek(s, open) IN LidDoes(s, t) /\ (Fed(s) => GoesOn(t))
<1>1. CASE s.DriveState = "lid_open"
  BY <1>1, LidOpenIs DEF LidSeek
<1>2. CASE s.DriveState = "rescan"
  <2> DEFINE t == [s EXCEPT !.StatP = @ \cup {"rot"}, !.DriveState = "prepare"]
             u == set_event(t, CDRLID)
  <2>1. t \in Ctl
    BY DEF Ctl, Status, Drives
  <2>2. Quiet(s, t) /\ t.Play = s.Play /\ t.Reading = s.Reading /\ t.failed = s.failed
        /\ t.posted = s.posted
    BY DEF Ctl, Quiet, Rest
  <2> HIDE DEF t
  <2>3. LidDoes(s, t)
    BY <1>2, <2>1, <2>2 DEF LidDoes, Found, Quiet
  <2>4. /\ LidDoes(s, u) /\ u.posted = t.posted \cup {CDRLID}
        /\ u.Reading = t.Reading /\ u.failed = t.failed /\ u.Play = t.Play
    BY <2>1, <2>3, LidOn
  <2>5. LidSeek(s, open) = u
    BY <1>2 DEF LidSeek, u, t
  <2> HIDE DEF u
  <2>6. Fed(s) => GoesOn(u)
    BY <1>2, <2>2, <2>4 DEF Fed, GoesOn
  <2>7. QED  BY <2>4, <2>5, <2>6
<1>3. CASE s.DriveState = "prepare" /\ "seek" \in s.StatP
  <2> DEFINE h == SetPlaySeekRead(s, {})
             t == [h EXCEPT !.DriveState = "standby"]
  <2>1. h \in Ctl /\ Leaves(s, h) /\ Same(s, h) /\ h.IrqStat = s.IrqStat /\ h.Result = s.Result
    BY FlagsAre
  <2> HIDE DEF h
  <2>2. t \in Ctl
    BY <2>1 DEF Ctl, Drives
  <2>3. /\ Quiet(h, t) /\ t.Play = h.Play /\ t.Reading = h.Reading /\ t.failed = h.failed
        /\ t.posted = h.posted /\ t.DriveState = "standby"
    BY <2>1 DEF Ctl, Quiet, Rest
  <2> HIDE DEF t
  <2>4. LidDoes(s, t)
    BY <1>3, <2>1, <2>2, <2>3 DEF LidDoes, Found, Quiet, Rest, Leaves, Same
  <2>5. Fed(s) => GoesOn(t)
    BY <1>3, <2>1, <2>3 DEF Fed, GoesOn, Same
  <2>6. QED  BY <1>3, <2>4, <2>5 DEF LidSeek, h, t
<1>4. CASE s.DriveState = "prepare" /\ "seek" \notin s.StatP
  <2> DEFINE h == SetPlaySeekRead(s, {"seek"})
             u == set_event(h, CDRLID)
  <2>1. h \in Ctl /\ Leaves(s, h) /\ Same(s, h) /\ h.IrqStat = s.IrqStat /\ h.Result = s.Result
    BY FlagsAre DEF Status
  <2> HIDE DEF h
  <2>2. LidDoes(s, h)
    BY <1>4, <2>1 DEF LidDoes, Found, Quiet, Rest, Leaves, Same
  <2>3. /\ LidDoes(s, u) /\ u.posted = h.posted \cup {CDRLID}
        /\ u.Reading = h.Reading /\ u.failed = h.failed /\ u.Play = h.Play
    BY <2>1, <2>2, LidOn
  <2>4. LidSeek(s, open) = u
    BY <1>4 DEF LidSeek, u, h
  <2> HIDE DEF u
  <2>5. Fed(s) => GoesOn(u)
    BY <1>4, <2>1, <2>3 DEF Fed, GoesOn, Same
  <2>6. QED  BY <2>3, <2>4, <2>5
<1>5. CASE s.DriveState \notin {"lid_open", "rescan", "prepare"}
  BY <1>5, StandbyIs DEF LidSeek
<1>6. QED  BY <1>1, <1>2, <1>3, <1>4, <1>5

LEMMA LidKeeps ==
  ASSUME TypeOK, NEW s \in Ctl, NEW open \in BOOLEAN, LidInterrupt(s, open),
         Quiet(cdr, s), s.DriveState = cdr.DriveState,
         s.Reading = cdr.Reading, s.failed = cdr.failed, s.Play = cdr.Play,
         s.posted \in {cdr.posted, cdr.posted \ {CDRLID}},
         buffer' = buffer \/ buffer' \in 0 .. End, shut' \in BOOLEAN, lids' \in 0 .. MaxLids
  PROVE  Kept
<1> DEFINE t == LidSeek(s, open)
<1>1. /\ cdr' = t /\ UNCHANGED <<newest, ops>>
      /\ asked' = IF Found(s, t) THEN None ELSE asked
  BY DEF LidInterrupt, Found
<1>2. LidDoes(s, t) /\ (Fed(s) => GoesOn(t))
  BY LidSeekIs
<1> HIDE DEF t
<1>3. buffer' = buffer \/ buffer' \in Nat
  <2>1. End \in Nat
    BY Facts
  <2>2. QED  BY <2>1
<1>4. TypeOK'
  <2>1. buffer' \in Sectors
    <3>1. End \in Nat
      BY Facts
    <3>2. QED  BY <3>1 DEF TypeOK, Sectors
  <2>2. asked' \in Cmds \cup {None}
    BY <1>1 DEF TypeOK
  <2>3. QED  BY <1>1, <1>2, <2>1, <2>2 DEF TypeOK, LidDoes
<1>5. DriveInv => DriveInv'
  <2>1. DriveInv => Fed(s)
    BY DEF DriveInv, GoesOn, Fed
  <2>2. QED  BY <1>1, <1>2, <2>1 DEF DriveInv
<1>6. CommandInv => CommandInv'
  <2>1. CASE Found(s, t)
    <3>1. /\ cdr'.IrqStat # NoIntr /\ cdr'.CmdInProgress = None /\ asked' = None
          /\ CDR \in cdr'.posted => CDR \in cdr.posted /\ cdr.CmdInProgress = None
          /\ cdr'.Irq1Pending = cdr.Irq1Pending
      BY <1>1, <1>2, <2>1 DEF LidDoes, Quiet, Rest, NoIntr
    <3>2. QED  BY <3>1 DEF CommandInv, Answered, Behind
  <2>2. CASE ~Found(s, t)
    <3>1. /\ Rest(cdr, cdr') /\ cdr'.IrqStat = cdr.IrqStat /\ cdr'.Irq1Pending = cdr.Irq1Pending
          /\ CDR \in cdr'.posted <=> CDR \in cdr.posted
      BY <1>1, <1>2, <2>2 DEF LidDoes, Quiet, Rest
    <3>2. QED  BY <1>1, <2>2, <3>1, CommandsStay
  <2>3. QED  BY <2>1, <2>2
<1>7. BufferInv => BufferInv'
  <2>1. /\ cdr'.Transfer = cdr.Transfer /\ cdr'.Irq1Pending = cdr.Irq1Pending
        /\ newest' = newest
        /\ cdr'.IrqStat = "DataReady" => cdr'.IrqStat = cdr.IrqStat /\ cdr'.Result = cdr.Result
    BY <1>1, <1>2 DEF LidDoes, Quiet
  <2>2. None \notin Nat
    BY CtlAssumption
  <2>3. QED  BY <1>3, <2>1, <2>2 DEF BufferInv, SectorTruth
<1>8. QED  BY <1>4, <1>5, <1>6, <1>7 DEF Kept

LEMMA LidEventKeeps == ASSUME TypeOK, LidEvent PROVE Kept
<1> DEFINE s == Fired(CDRLID)
<1>1. /\ cdr \in Ctl /\ LidInterrupt(s, ~shut) /\ UNCHANGED <<shut, lids>>
      /\ buffer' = buffer \/ buffer' \in 0 .. End
  BY DEF LidEvent, TypeOK
<1>2. /\ s \in Ctl /\ Quiet(cdr, s) /\ s.posted = cdr.posted \ {CDRLID}
      /\ s.Reading = cdr.Reading /\ s.failed = cdr.failed /\ s.Play = cdr.Play
      /\ s.DriveState = cdr.DriveState
  BY <1>1, FiredIs DEF Quiet, Rest
<1> HIDE DEF s
<1>3. (~shut) \in BOOLEAN
  OBVIOUS
<1>4. shut' \in BOOLEAN
  <2>1. shut' = shut
    BY <1>1
  <2>2. QED  BY <2>1 DEF TypeOK
<1>5. lids' \in 0 .. MaxLids
  <2>1. lids' = lids
    BY <1>1
  <2>2. QED  BY <2>1 DEF TypeOK
<1>6. QED  BY <1>1, <1>2, <1>3, <1>4, <1>5, LidKeeps

LEMMA LidCallKeeps == ASSUME TypeOK, LidCall PROVE Kept
<1>1. cdr \in Ctl /\ LidInterrupt(cdr, TRUE) /\ shut' = FALSE /\ buffer' = buffer
  BY DEF LidCall, TypeOK
<1>2. Quiet(cdr, cdr)
  BY DEF Quiet, Rest
<1>3. lids' \in 0 .. MaxLids
  <2>1. MaxLids \in Nat
    BY CtlAssumption
  <2>2. QED  BY <2>1 DEF LidCall, TypeOK
<1>4. QED  BY <1>1, <1>2, <1>3, LidKeeps

LEMMA NothingKeeps == ASSUME TypeOK, LidShuts \/ UNCHANGED vars PROVE Kept
<1>1. UNCHANGED <<cdr, buffer, asked, newest, ops, lids>> /\ shut' \in BOOLEAN
  BY DEF LidShuts, vars, TypeOK
<1>2. TypeOK'
  BY <1>1 DEF TypeOK
<1>3. /\ DriveInv => DriveInv'
      /\ CommandInv => CommandInv'
      /\ BufferInv => BufferInv'
  BY <1>1 DEF DriveInv, GoesOn, CommandInv, Answered, Behind, BufferInv, SectorTruth
<1>4. QED  BY <1>2, <1>3 DEF Kept

LEMMA StepKeeps == TypeOK /\ [Next]_vars => Kept
<1> SUFFICES ASSUME TypeOK, [Next]_vars  PROVE Kept
  OBVIOUS
<1>1. CASE \E c \in Commands : Write(c)
  BY <1>1, WriteKeeps
<1>2. CASE Acknowledge
  BY <1>2, AcknowledgeKeeps
<1>3. CASE TooEarly
  BY <1>3, TooEarlyKeeps
<1>4. CASE HandOut
  BY <1>4, HandOutKeeps
<1>5. CASE RunCommand
  BY <1>5, RunCommandKeeps
<1>6. CASE Approach
  BY <1>6, ApproachKeeps
<1>7. CASE ReadSector
  BY <1>7, ReadSectorKeeps
<1>8. CASE PlaySector
  BY <1>8, PlaySectorKeeps
<1>9. CASE NoSector
  BY <1>9, NoSectorKeeps
<1>10. CASE LidEvent
  BY <1>10, LidEventKeeps
<1>11. CASE LidCall
  BY <1>11, LidCallKeeps
<1>12. CASE LidShuts \/ UNCHANGED vars
  BY <1>12, NothingKeeps
<1>13. QED
  BY <1>1, <1>2, <1>3, <1>4, <1>5, <1>6, <1>7, <1>8, <1>9, <1>10, <1>11, <1>12 DEF Next

-----------------------------------------------------------------------------
(* The controller keeps its types: cdrom.c.                                *)
THEOREM TypeCorrect == Spec => []TypeOK
<1>1. TypeOK /\ [Next]_vars => TypeOK'
  BY StepKeeps DEF Kept
<1>2. QED  BY <1>1, InitKeeps, PTL DEF Spec

(* The drive does not stop by itself, whatever the program and the         *)
(* frontend do: a reading that did not fail, a play and a scan have their  *)
(* next step posted.                                                       *)
THEOREM DriveKeepsGoing == Spec => []DriveGoesOn
<1>1. DriveInv /\ TypeOK /\ [Next]_vars => DriveInv'
  BY StepKeeps DEF Kept
<1>2. DriveInv => DriveGoesOn
  BY DEF DriveInv, GoesOn, DriveGoesOn
<1>3. QED  BY <1>1, <1>2, InitKeeps, TypeCorrect, PTL DEF Spec

(* A command that is written is answered, provided the program does not    *)
(* repeat a command whose own second response is due: cdrInterrupt takes   *)
(* the repetition for the one it is processing.                            *)
THEOREM CommandsAreAnswered == ASSUME ~Repeats PROVE Spec => []Answered
<1>1. CommandInv /\ TypeOK /\ [Next]_vars => CommandInv'
  BY StepKeeps DEF Kept
<1>2. CommandInv => Answered
  BY DEF CommandInv
<1>3. QED  BY <1>1, <1>2, InitKeeps, TypeCorrect, PTL DEF Spec

(* The sector that is announced is the one the program takes, provided no  *)
(* sector comes between an acknowledgement and the hand-out of the sector  *)
(* that waited for it.                                                     *)
THEOREM SectorIsTrue == ASSUME ~Tight PROVE Spec => []SectorTruth
<1>1. BufferInv /\ TypeOK /\ [Next]_vars => BufferInv'
  BY StepKeeps DEF Kept
<1>2. BufferInv => SectorTruth
  BY DEF BufferInv
<1>3. QED  BY <1>1, <1>2, InitKeeps, TypeCorrect, PTL DEF Spec
=============================================================================
