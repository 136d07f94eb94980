---------------------------- MODULE DriverProofs ----------------------------
(***************************************************************************)
(* Proofs about the drivers of module Devices: the floppy driver, for any  *)
(* number of drives, tracks, requests and failures of the controller; the  *)
(* queues of a terminal, for any keys and modes of which none erases; and  *)
(* the console, which implements the terminal of module Screen for screens *)
(* and video memories of any size.  Floppies!x, Terminals!x and Consoles!x *)
(* are x of modules Floppy, Terminal and Console.                          *)
(***************************************************************************)
EXTENDS Devices, Sequences, TLAPS, FiniteSetTheorems, WellFoundedInduction

(* A set of natural numbers has a least element.                           *)
LEMMA LeastNatural ==
  ASSUME NEW S, S \subseteq Nat, S # {}
  PROVE  \E x \in S : \A y \in S : x <= y
<1>1. PICK x \in S : \A y \in S : <<y, x>> \notin OpToRel(<, Nat)
  BY NatLessThanWellFounded, WFMin, Zenon
<1>2. ASSUME NEW y \in S
      PROVE  ~(y < x)
  <2>1. y \in Nat /\ x \in Nat /\ <<y, x>> \notin OpToRel(<, Nat)
    BY <1>1
  <2> QED
    BY <2>1, Zenon DEF OpToRel
<1>3. \A y \in S : x <= y
  <2> TAKE y \in S
  <2>1. y \in Nat /\ x \in Nat /\ ~(y < x)
    BY <1>2
  <2> QED
    BY <2>1
<1> QED
  BY <1>3

-----------------------------------------------------------------------------
(* The floppy driver                                                       *)

LEMMA FloppyNumbers ==
  /\ 0 \in Drive /\ Drive \subseteq Nat /\ 0 \in Track /\ Track \subseteq Nat
  /\ SPIN \in Nat /\ SPIN >= 2 /\ OFF \in Nat /\ OFF >= 2 /\ KEEP \in Nat /\ KEEP >= 2
<1>1. /\ 0 \in Drive /\ Drive \subseteq Nat /\ 0 \in Track /\ Track \subseteq Nat
      /\ SPIN \in Nat /\ SPIN >= 2 /\ OFF \in Nat /\ OFF >= 2 /\ KEEP \in Nat /\ KEEP >= OFF
  BY DevicesAssumption DEF DevicesAssumption, Floppies!FloppyAssumption
<1>2. KEEP >= 2
  BY <1>1
<1> QED
  BY <1>1, <1>2

Request == [drive : Drive, track : Int, errors : Int]
Link == {"floppy_on_interrupt", "transfer"}
Handler == {"none", "rw", "seek", "recal", "reset"}
Waiting == {"out", "motor", "spun", "select", "deselected"}
Timer == [fn : Link, jiffies : Int]
Selection == [drive : Drive, motors : SUBSET Drive]
Command == [kind : Handler, drive : Drive, track : Int]
Driver ==
  [queue : Seq(Request), reset : BOOLEAN, recalibrate : BOOLEAN, seek : BOOLEAN,
   current_drive : Drive, current_track : Int, seek_track : Int,
   do_floppy : Handler, selected : BOOLEAN, dor : Selection,
   mon : [Drive -> Nat], moff : [Drive -> Nat], timers : Seq(Timer),
   op : Command, pos : [Drive -> Int], change : [nr : Drive, pc : Waiting]]

(* The fields of the chain, and those of the motors.                       *)
SameChain(s, t) ==
  /\ t.queue = s.queue /\ t.reset = s.reset /\ t.recalibrate = s.recalibrate /\ t.seek = s.seek
  /\ t.current_drive = s.current_drive /\ t.current_track = s.current_track
  /\ t.seek_track = s.seek_track /\ t.do_floppy = s.do_floppy /\ t.selected = s.selected
  /\ t.timers = s.timers /\ t.op = s.op /\ t.pos = s.pos
SameMotors(s, t) ==
  t.dor = s.dor /\ t.mon = s.mon /\ t.moff = s.moff /\ t.change = s.change

-----------------------------------------------------------------------------
(* What the steps of the driver do *)

(* A timer that is set when there is none.                                 *)
LEMMA FirstTimer ==
  ASSUME NEW j \in Int, NEW fn
  PROVE  Floppies!Inserted(<<>>, j, fn) = <<[fn |-> fn, jiffies |-> j]>>
<1>1. Floppies!Before(<<>>, 0) = 0
  <2>1. DOMAIN SubSeq(<<>>, 1, 0) = {}
    OBVIOUS
  <2> QED
    BY <2>1 DEF Floppies!Before, Floppies!FoldLeft, Floppies!MapThenFoldSet
<1> DEFINE stops == {k \in 0 .. Len(<<>>) : k = Len(<<>>) \/ <<>>[k + 1].jiffies >= j - Floppies!Before(<<>>, k)}
           k == CHOOSE i \in stops : \A m \in stops : i <= m
<1>2. stops = {0}
  OBVIOUS
<1>3. k = 0
  BY <1>2
<1>4. Floppies!Inserted(<<>>, j, fn) = Floppies!InsertAt(<<>>, k + 1, [fn |-> fn, jiffies |-> j - Floppies!Before(<<>>, k)])
  BY DEF Floppies!Inserted
<1> HIDE DEF k, stops
<1>5. Floppies!Inserted(<<>>, j, fn) = Floppies!InsertAt(<<>>, 1, [fn |-> fn, jiffies |-> j])
  BY <1>1, <1>3, <1>4
<1>6. ASSUME NEW x
      PROVE  Floppies!InsertAt(<<>>, 1, x) = <<x>>
  <2>1. SubSeq(<<>>, 1, 1 - 1) = <<>> /\ SubSeq(<<>>, 1, Len(<<>>)) = <<>>
    OBVIOUS
  <2>2. <<>> \o <<x>> \o <<>> = <<x>>
    OBVIOUS
  <2>3. Floppies!InsertAt(<<>>, 1, x) = SubSeq(<<>>, 1, 1 - 1) \o <<x>> \o SubSeq(<<>>, 1, Len(<<>>))
    BY DEF Floppies!InsertAt
  <2> QED
    BY <2>1, <2>2, <2>3
<1> QED
  BY <1>5, <1>6

(* ticks_to_floppy_on().                                                   *)
TurnsOn(s, nr, t) ==
  /\ t \in Driver /\ SameChain(s, t) /\ t.change = s.change
  /\ t.dor.motors = s.dor.motors \cup {nr}
  /\ t.dor.drive = IF s.selected THEN s.dor.drive ELSE nr
  /\ \A d \in Drive : d # nr => t.mon[d] = s.mon[d] /\ t.moff[d] = s.moff[d]
  /\ t.moff[nr] = KEEP
  /\ nr \in s.dor.motors =>
       t.mon[nr] = IF s.mon[nr] < 2 /\ ~s.selected /\ s.dor.drive # nr THEN 2 ELSE s.mon[nr]

LEMMA TicksOn ==
  ASSUME NEW s \in Driver, NEW nr \in Drive, NEW t, t = Floppies!ticks_to_floppy_on(s, nr)
  PROVE  TurnsOn(s, nr, t)
<1> DEFINE dor == [drive |-> IF s.selected THEN s.dor.drive ELSE nr, motors |-> s.dor.motors \cup {nr}]
           spin == IF nr \notin s.dor.motors THEN SPIN
                   ELSE IF dor # s.dor /\ s.mon[nr] < 2 THEN 2
                   ELSE s.mon[nr]
<1>1. t = [s EXCEPT !.moff[nr] = KEEP, !.dor = dor, !.mon[nr] = spin]
  BY DEF Floppies!ticks_to_floppy_on
<1>2. s.dor \in Selection /\ s.mon \in [Drive -> Nat] /\ s.moff \in [Drive -> Nat] /\ s.selected \in BOOLEAN
  BY DEF Driver
<1>3. dor \in Selection
  BY <1>2 DEF Selection
<1>4. spin \in Nat
  BY <1>2, FloppyNumbers
<1>5. nr \in s.dor.motors => (dor # s.dor <=> ~s.selected /\ s.dor.drive # nr)
  BY <1>2 DEF Selection
<1>6. /\ dor.drive = IF s.selected THEN s.dor.drive ELSE nr
      /\ dor.motors = s.dor.motors \cup {nr}
      /\ nr \in s.dor.motors => spin = IF s.mon[nr] < 2 /\ ~s.selected /\ s.dor.drive # nr THEN 2 ELSE s.mon[nr]
  BY <1>5
<1> HIDE DEF dor, spin
<1>7. /\ t \in Driver /\ SameChain(s, t) /\ t.change = s.change
      /\ t.dor = dor /\ t.mon = [s.mon EXCEPT ![nr] = spin] /\ t.moff = [s.moff EXCEPT ![nr] = KEEP]
  <2>1. PICK mon \in [Drive -> Nat] : mon = [s.mon EXCEPT ![nr] = spin]
    BY <1>2, <1>4
  <2>2. PICK moff \in [Drive -> Nat] : moff = [s.moff EXCEPT ![nr] = KEEP]
    BY <1>2, FloppyNumbers
  <2>3. t = [s EXCEPT !.moff = moff, !.dor = dor, !.mon = mon]
    BY <1>1, <2>1, <2>2 DEF Driver
  <2>4. t \in Driver /\ t.dor = dor /\ t.mon = mon /\ t.moff = moff
    BY <2>3, <1>3 DEF Driver
  <2>5. SameChain(s, t) /\ t.change = s.change
    BY <2>3 DEF SameChain, Driver
  <2> QED
    BY <2>1, <2>2, <2>4, <2>5
<1> QED
  BY <1>2, <1>6, <1>7 DEF TurnsOn

(* floppy_off().                                                           *)
TurnsOff(s, nr, t) ==
  /\ t \in Driver /\ SameChain(s, t) /\ t.dor = s.dor /\ t.mon = s.mon /\ t.change = s.change
  /\ t.moff[nr] = OFF /\ \A d \in Drive : d # nr => t.moff[d] = s.moff[d]

LEMMA MotorOff ==
  ASSUME NEW s \in Driver, NEW nr \in Drive, NEW t, t = Floppies!floppy_off(s, nr)
  PROVE  TurnsOff(s, nr, t)
<1>1. s.moff \in [Drive -> Nat]
  BY DEF Driver
<1>2. PICK moff \in [Drive -> Nat] : moff = [s.moff EXCEPT ![nr] = OFF]
  BY <1>1, FloppyNumbers
<1>3. t = [s EXCEPT !.moff = moff]
  BY <1>2 DEF Floppies!floppy_off, Driver
<1>4. t \in Driver /\ t.moff = moff /\ t.dor = s.dor /\ t.mon = s.mon /\ t.change = s.change
  BY <1>3 DEF Driver
<1>5. SameChain(s, t)
  BY <1>3 DEF SameChain, Driver
<1> QED
  BY <1>1, <1>2, <1>4, <1>5 DEF TurnsOff

(* wake_up() of a task in floppy_change().                                 *)
LEMMA WokenUp ==
  ASSUME NEW s \in Driver, NEW pc \in Waiting, NEW then \in Waiting, NEW t, t = Floppies!Woken(s, pc, then)
  PROVE  /\ t \in Driver /\ SameChain(s, t) /\ t.dor = s.dor /\ t.mon = s.mon /\ t.moff = s.moff
         /\ t.change.nr = s.change.nr
<1>1. s.change \in [nr : Drive, pc : Waiting]
  BY DEF Driver
<1>2. CASE s.change.pc = pc
  <2>1. PICK c \in [nr : Drive, pc : Waiting] : c = [s.change EXCEPT !.pc = then]
    BY <1>1
  <2>2. c.nr = s.change.nr
    BY <1>1, <2>1
  <2>3. t = [s EXCEPT !.change = c]
    BY <1>2, <2>1 DEF Floppies!Woken, Driver
  <2>4. t \in Driver /\ t.change = c /\ t.dor = s.dor /\ t.mon = s.mon /\ t.moff = s.moff
    BY <2>3 DEF Driver
  <2>5. SameChain(s, t)
    BY <2>3 DEF SameChain, Driver
  <2> QED
    BY <2>2, <2>4, <2>5
<1>3. CASE s.change.pc # pc
  BY <1>3 DEF Floppies!Woken, SameChain
<1> QED
  BY <1>2, <1>3

LEMMA HeadTail ==
  ASSUME NEW S, NEW q \in Seq(S), q # <<>>
  PROVE  Head(q) \in S /\ Tail(q) \in Seq(S) /\ Head(q) = q[1] /\ Len(q) >= 1
OBVIOUS

(* What ending a request leaves alone.                                     *)
SameHead(s, t) ==
  /\ t.reset = s.reset /\ t.recalibrate = s.recalibrate /\ t.seek = s.seek
  /\ t.current_drive = s.current_drive /\ t.current_track = s.current_track
  /\ t.seek_track = s.seek_track /\ t.do_floppy = s.do_floppy
  /\ t.timers = s.timers /\ t.op = s.op /\ t.pos = s.pos /\ t.dor = s.dor

LEMMA RequestEnded ==
  ASSUME NEW s \in Driver, s.queue # <<>>,
         NEW t, t = Floppies!end_request(Floppies!floppy_deselect(s))
  PROVE  t \in Driver /\ t.queue = Tail(s.queue) /\ ~t.selected /\ SameHead(s, t)
<1>1. PICK a : a = [s EXCEPT !.selected = FALSE]
  OBVIOUS
<1>2. a \in Driver /\ ~a.selected /\ a.queue = s.queue
  BY <1>1 DEF Driver
<1>3. SameHead(s, a)
  BY <1>1 DEF Driver, SameHead
<1>4. PICK b : b = Floppies!floppy_deselect(s)
  OBVIOUS
<1>5. b = Floppies!Woken(a, "select", "deselected")
  BY <1>1, <1>4 DEF Floppies!floppy_deselect
<1>6. b \in Driver /\ SameChain(a, b) /\ b.dor = a.dor
  <2>1. "select" \in Waiting /\ "deselected" \in Waiting
    BY DEF Waiting
  <2> QED
    BY <1>2, <1>5, <2>1, WokenUp
<1>7. b.queue \in Seq(Request) /\ b.queue # <<>> /\ b.queue = s.queue
  BY <1>2, <1>6 DEF SameChain, Driver
<1>8. Floppies!Current(b).drive \in Drive
  <2>1. Head(b.queue) \in Request
    BY <1>7, HeadTail
  <2> QED
    BY <2>1 DEF Floppies!Current, Request
<1>9. PICK c : c = Floppies!floppy_off(b, Floppies!Current(b).drive)
  OBVIOUS
<1>10. c \in Driver /\ SameChain(b, c) /\ c.dor = b.dor
  BY <1>6, <1>8, <1>9, MotorOff DEF TurnsOff
<1>11. t = [c EXCEPT !.queue = Tail(@)]
  BY <1>4, <1>9 DEF Floppies!end_request
<1>12. PICK q \in Seq(Request) : q = Tail(s.queue)
  BY <1>7, HeadTail
<1>13. t = [c EXCEPT !.queue = q]
  BY <1>7, <1>10, <1>11, <1>12 DEF Driver, SameChain
<1>14. t \in Driver /\ t.queue = q /\ t.selected = c.selected
  BY <1>10, <1>13 DEF Driver
<1>15. SameHead(c, t)
  BY <1>10, <1>13 DEF Driver, SameHead
<1>16. SameHead(s, t) /\ ~c.selected
  BY <1>2, <1>3, <1>6, <1>10, <1>15 DEF SameHead, SameChain
<1> QED
  BY <1>12, <1>14, <1>16

-----------------------------------------------------------------------------
(* The chain *)

(* The request at the head is for the drive that the driver works on.      *)
Asked(s) ==
  /\ s.queue # <<>> /\ Floppies!Current(s).track \in Track
  /\ Floppies!Current(s).drive = s.current_drive
Selects(s) == s.selected => Asked(s) /\ s.dor.drive = s.current_drive

(* current_track is where the heads are, or will be found out again.       *)
Known(s) == s.current_track = Floppies!Unknown \/ s.pos[s.current_drive] = s.current_track
Sure(s) == s.reset \/ s.recalibrate \/ Known(s)
OnTrack(s) ==
  s.pos[s.current_drive] = Floppies!Current(s).track /\ s.current_track = Floppies!Current(s).track
Aimed(s) == Asked(s) /\ s.seek_track = Floppies!Current(s).track /\ (s.seek \/ OnTrack(s))

(* The commands that the controller works on.                              *)
Moves(s) ==
  /\ s.op.kind \in {"seek", "recal"} /\ s.do_floppy = "seek"
  /\ s.op.drive = s.current_drive /\ s.op.track = s.seek_track /\ s.seek_track = Floppies!Current(s).track
Transfers(s) ==
  s.op.kind = "rw" /\ s.do_floppy = "rw" /\ s.op.drive = s.current_drive /\ OnTrack(s)
Recalibrates(s) ==
  /\ s.op.kind = "recal" /\ s.do_floppy = "recal"
  /\ s.op.drive = s.current_drive /\ s.op.track = 0 /\ s.current_track = 0
Resets(s) == s.op.kind = "reset" /\ s.do_floppy = "reset" /\ s.recalibrate

(* The request, the drive and the motors stay.                             *)
SameRequest(s, t) ==
  /\ t.queue = s.queue /\ t.current_drive = s.current_drive /\ t.selected = s.selected
  /\ t.timers = s.timers /\ SameMotors(s, t)

LEMMA OneCommand ==
  ASSUME NEW kind \in Handler, NEW drive \in Drive, NEW track \in Int
  PROVE  \E op \in Command : /\ op = [kind |-> kind, drive |-> drive, track |-> track]
                            /\ op.kind = kind /\ op.drive = drive /\ op.track = track
<1> DEFINE op == [kind |-> kind, drive |-> drive, track |-> track]
<1>1. op \in Command /\ op.kind = kind /\ op.drive = drive /\ op.track = track
  BY DEF Command
<1> HIDE DEF op
<1> QED
  BY <1>1 DEF op

LEMMA ResetStarts ==
  ASSUME NEW s \in Driver, NEW t, t = Floppies!reset_floppy(s)
  PROVE  t \in Driver /\ SameRequest(s, t) /\ Resets(t)
<1>1. PICK op \in Command : /\ op = [kind |-> "reset", drive |-> s.dor.drive, track |-> 0]
                            /\ op.kind = "reset"
  <2>1. "reset" \in Handler /\ s.dor.drive \in Drive
    BY DEF Handler, Driver, Selection
  <2> QED
    BY <2>1, OneCommand
<1>2. t = [s EXCEPT !.reset = FALSE, !.recalibrate = TRUE, !.do_floppy = "reset", !.op = op]
  BY <1>1 DEF Floppies!reset_floppy
<1>3. t \in Driver /\ Resets(t)
  BY <1>1, <1>2 DEF Driver, Resets, Handler
<1>4. SameRequest(s, t)
  BY <1>2 DEF Driver, SameRequest, SameMotors
<1> QED
  BY <1>3, <1>4

LEMMA CommandStarts ==
  ASSUME NEW s \in Driver, NEW handler \in Handler, NEW kind \in Handler, NEW track \in Int, NEW sent \in BOOLEAN,
         NEW t, t = Floppies!Command(s, handler, kind, track, sent)
  PROVE  /\ t \in Driver /\ SameRequest(s, t)
         /\ \/ /\ t.do_floppy = handler /\ t.op.kind = kind /\ t.op.drive = s.current_drive /\ t.op.track = track
               /\ t.current_track = s.current_track /\ t.seek_track = s.seek_track /\ t.pos = s.pos
            \/ Resets(t)
<1>1. PICK a \in Driver : a = [s EXCEPT !.do_floppy = handler]
  BY DEF Driver
<1>2. SameRequest(s, a) /\ a.do_floppy = handler /\ a.current_track = s.current_track
      /\ a.seek_track = s.seek_track /\ a.pos = s.pos
  BY <1>1 DEF Driver, SameRequest, SameMotors
<1>3. CASE sent
  <2>1. PICK op \in Command : /\ op = [kind |-> kind, drive |-> s.current_drive, track |-> track]
                              /\ op.kind = kind /\ op.drive = s.current_drive /\ op.track = track
    <3>1. s.current_drive \in Drive
      BY DEF Driver
    <3> QED
      BY <3>1, OneCommand
  <2>2. t = [a EXCEPT !.op = op]
    BY <1>1, <1>3, <2>1 DEF Floppies!Command
  <2>3. t \in Driver /\ t.op = op /\ t.do_floppy = a.do_floppy /\ t.current_track = a.current_track
        /\ t.seek_track = a.seek_track /\ t.pos = a.pos
    BY <2>2 DEF Driver
  <2>4. SameRequest(a, t)
    BY <2>2 DEF Driver, SameRequest, SameMotors
  <2> QED
    BY <1>2, <2>1, <2>3, <2>4 DEF SameRequest, SameMotors
<1>4. CASE ~sent
  <2>1. PICK b \in Driver : b = [a EXCEPT !.seek = FALSE]
    BY DEF Driver
  <2>2. SameRequest(a, b)
    BY <2>1 DEF Driver, SameRequest, SameMotors
  <2>3. t = Floppies!reset_floppy(b)
    BY <1>1, <1>4, <2>1 DEF Floppies!Command, Floppies!Reset
  <2>4. t \in Driver /\ SameRequest(b, t) /\ Resets(t)
    BY <2>3, ResetStarts
  <2> QED
    BY <1>2, <2>2, <2>4 DEF SameRequest, SameMotors
<1> QED
  BY <1>3, <1>4

LEMMA CurrentIsRequest ==
  ASSUME NEW s \in Driver, s.queue # <<>>
  PROVE  /\ Floppies!Current(s) \in Request /\ Floppies!Current(s).drive \in Drive
         /\ Floppies!Current(s).track \in Int /\ Floppies!Current(s).errors \in Int
<1>1. Head(s.queue) \in Request
  BY HeadTail DEF Driver
<1> QED
  BY <1>1 DEF Floppies!Current, Request

LEMMA RwStarts ==
  ASSUME NEW s \in Driver, OnTrack(s), NEW sent \in BOOLEAN, s.seek_track \in Int,
         NEW t, t = Floppies!setup_rw_floppy(s, sent)
  PROVE  t \in Driver /\ SameRequest(s, t) /\ (Transfers(t) \/ Resets(t))
<1>1. t = Floppies!Command(s, "rw", "rw", s.seek_track, sent)
  BY DEF Floppies!setup_rw_floppy
<1>2. "rw" \in Handler
  BY DEF Handler
<1> HIDE DEF Handler
<1>3. /\ t \in Driver /\ SameRequest(s, t)
      /\ \/ /\ t.do_floppy = "rw" /\ t.op.kind = "rw" /\ t.op.drive = s.current_drive
            /\ t.current_track = s.current_track /\ t.seek_track = s.seek_track /\ t.pos = s.pos
         \/ Resets(t)
  BY <1>1, <1>2, CommandStarts
<1> QED
  BY <1>3 DEF Transfers, OnTrack, SameRequest, Floppies!Current

LEMMA TransferStarts ==
  ASSUME NEW s \in Driver, Aimed(s), NEW sent \in BOOLEAN,
         NEW t, t = Floppies!transfer(s, sent)
  PROVE  t \in Driver /\ SameRequest(s, t) /\ (Moves(t) \/ Transfers(t) \/ Resets(t))
<1>1. s.seek_track \in Int /\ s.seek \in BOOLEAN
  BY DEF Driver
<1>2. CASE ~s.seek
  <2>1. t = Floppies!setup_rw_floppy(s, sent)
    BY <1>2 DEF Floppies!transfer
  <2> QED
    BY <1>1, <1>2, <2>1, RwStarts DEF Aimed
<1>3. CASE s.seek
  <2>1. PICK kind \in {"recal", "seek"} : t = Floppies!Command(s, "seek", kind, s.seek_track, sent)
    BY <1>3 DEF Floppies!transfer
  <2>2. "seek" \in Handler /\ kind \in Handler
    BY DEF Handler
  <2>3. /\ t \in Driver /\ SameRequest(s, t)
        /\ \/ /\ t.do_floppy = "seek" /\ t.op.kind = kind /\ t.op.drive = s.current_drive /\ t.op.track = s.seek_track
              /\ t.seek_track = s.seek_track
           \/ Resets(t)
    BY <1>1, <2>1, <2>2, CommandStarts
  <2> QED
    BY <2>3 DEF Moves, Aimed, SameRequest, Floppies!Current
<1> QED
  BY <1>1, <1>2, <1>3

(* floppy_on_interrupt(): the drive is selected, then after two ticks or   *)
(* at once the transfer starts.                                            *)
LEMMA DriveSelected ==
  ASSUME NEW s \in Driver, Aimed(s), s.timers = <<>>, NEW sent \in BOOLEAN,
         NEW t, t = Floppies!floppy_on_interrupt(s, sent)
  PROVE  /\ t \in Driver /\ t.queue = s.queue /\ t.current_drive = s.current_drive /\ t.selected
         /\ t.dor.drive = s.current_drive /\ t.dor.motors = s.dor.motors
         /\ t.mon = s.mon /\ t.moff = s.moff /\ t.change = s.change
         /\ \/ t.timers = <<>> /\ (Moves(t) \/ Transfers(t) \/ Resets(t))
            \/ t.timers = <<[fn |-> "transfer", jiffies |-> 2]>> /\ t.op = s.op /\ Aimed(t)
<1>1. PICK a \in Driver : a = [s EXCEPT !.selected = TRUE]
  BY DEF Driver
<1>2. /\ a.selected /\ a.timers = s.timers /\ a.queue = s.queue /\ a.current_drive = s.current_drive
      /\ a.op = s.op /\ a.seek_track = s.seek_track /\ a.seek = s.seek /\ a.pos = s.pos
      /\ a.current_track = s.current_track
  BY <1>1 DEF Driver
<1>3. SameMotors(s, a)
  BY <1>1 DEF Driver, SameMotors
<1>4. Aimed(a)
  BY <1>2 DEF Aimed, Asked, OnTrack, Floppies!Current
<1>5. CASE s.current_drive # s.dor.drive
  <2>1. s.dor \in Selection /\ s.current_drive \in Drive /\ a.dor = s.dor
    BY <1>3 DEF Driver, SameMotors
  <2>2. PICK dor \in Selection : dor = [s.dor EXCEPT !.drive = s.current_drive]
    BY <2>1 DEF Selection
  <2>3. dor.drive = s.current_drive /\ dor.motors = s.dor.motors
    BY <2>1, <2>2 DEF Selection
  <2>4. PICK timers \in Seq(Timer) : timers = <<[fn |-> "transfer", jiffies |-> 2]>>
    <3>1. [fn |-> "transfer", jiffies |-> 2] \in Timer
      BY DEF Timer, Link
    <3>2. <<[fn |-> "transfer", jiffies |-> 2]>> \in Seq(Timer)
      BY <3>1
    <3> QED
      BY <3>2, Zenon
  <2>5. Floppies!Inserted(a.timers, 2, "transfer") = timers
    <3>1. a.timers = <<>>
      BY <1>2
    <3> QED
      BY <2>4, <3>1, FirstTimer
  <2>6. t = [a EXCEPT !.dor.drive = s.current_drive, !.timers = Floppies!Inserted(@, 2, "transfer")]
    BY <1>1, <1>5 DEF Floppies!floppy_on_interrupt
  <2>7. t = [a EXCEPT !.dor = dor, !.timers = timers]
    BY <2>1, <2>2, <2>5, <2>6 DEF Driver
  <2>8. t \in Driver /\ t.dor = dor /\ t.timers = timers
    BY <2>7 DEF Driver
  <2>9. /\ t.selected = a.selected /\ t.queue = a.queue /\ t.current_drive = a.current_drive
        /\ t.op = a.op /\ t.seek_track = a.seek_track /\ t.seek = a.seek /\ t.pos = a.pos
        /\ t.current_track = a.current_track /\ t.mon = a.mon /\ t.moff = a.moff /\ t.change = a.change
    BY <2>7 DEF Driver
  <2>10. Aimed(t)
    BY <1>4, <2>9 DEF Aimed, Asked, OnTrack, Floppies!Current
  <2> QED
    BY <1>2, <1>3, <2>3, <2>4, <2>8, <2>9, <2>10 DEF SameMotors
<1>6. CASE s.current_drive = s.dor.drive
  <2>1. t = Floppies!transfer(a, sent)
    BY <1>1, <1>6 DEF Floppies!floppy_on_interrupt
  <2>2. t \in Driver /\ SameRequest(a, t) /\ (Moves(t) \/ Transfers(t) \/ Resets(t))
    BY <1>4, <2>1, TransferStarts
  <2> QED
    BY <1>2, <1>3, <1>6, <2>2 DEF SameRequest, SameMotors
<1> QED
  BY <1>5, <1>6

(* Requests beyond the disk are refused; the rest of the queue stays.      *)
LEMMA RefusedRest ==
  ASSUME NEW s \in Driver, NEW t, t = Floppies!Refused(s)
  PROVE  /\ t \in Driver /\ SameHead(s, t) /\ t.selected = s.selected
         /\ t.queue # <<>> => Floppies!Current(t).track \in Track
         /\ s.queue # <<>> /\ Floppies!Current(s).track \in Track => t.queue = s.queue
<1> DEFINE good == {i \in DOMAIN s.queue : s.queue[i].track \in Track}
           least == CHOOSE i \in good : \A j \in good : i <= j
           n == IF good = {} THEN Len(s.queue) ELSE least - 1
           moff == [d \in Drive |-> IF \E i \in 1 .. n : s.queue[i].drive = d THEN OFF ELSE s.moff[d]]
           queue == SubSeq(s.queue, n + 1, Len(s.queue))
<1>1. s.queue \in Seq(Request) /\ s.moff \in [Drive -> Nat]
  BY DEF Driver
<1>2. Len(s.queue) \in Nat /\ DOMAIN s.queue = 1 .. Len(s.queue)
  BY <1>1
<1>3. good \subseteq Nat
  BY <1>2
<1>4. good # {} => least \in good /\ \A j \in good : least <= j
  <2> SUFFICES ASSUME good # {} PROVE least \in good /\ \A j \in good : least <= j
    OBVIOUS
  <2>1. \E i \in good : \A j \in good : i <= j
    BY <1>3, LeastNatural
  <2> QED
    BY <2>1
<1>5. good # {} => least \in 1 .. Len(s.queue) /\ s.queue[least].track \in Track
  BY <1>2, <1>4
<1>6. n \in 0 .. Len(s.queue)
  <2> HIDE DEF good, least
  <2> QED
    BY <1>2, <1>5
<1>7. queue \in Seq(Request)
  <2> HIDE DEF n
  <2> QED
    BY <1>1, <1>2, <1>6
<1>8. moff \in [Drive -> Nat]
  BY <1>1, FloppyNumbers
<1>9. t = [s EXCEPT !.queue = queue, !.moff = moff]
  BY <1>1 DEF Floppies!Refused, Driver
<1>10. queue # <<>> => Head(queue).track \in Track
  <2>1. CASE good = {}
    <3>1. n = Len(s.queue)
      BY <2>1
    <3> HIDE DEF n, good, least
    <3>2. queue = <<>>
      BY <1>1, <1>2, <3>1
    <3> QED
      BY <3>2
  <2>2. CASE good # {}
    <3>1. n + 1 = least /\ least \in 1 .. Len(s.queue) /\ s.queue[least].track \in Track
      <4>1. n = least - 1
        BY <2>2
      <4> HIDE DEF n, good, least
      <4> QED
        BY <1>2, <1>5, <2>2, <4>1
    <3> HIDE DEF n, good, least
    <3>2. Head(queue) = s.queue[least]
      BY <1>1, <1>2, <3>1
    <3> QED
      BY <3>1, <3>2
  <2> QED
    BY <2>1, <2>2
<1>11. s.queue # <<>> /\ Head(s.queue).track \in Track => queue = s.queue
  <2> SUFFICES ASSUME s.queue # <<>>, Head(s.queue).track \in Track PROVE queue = s.queue
    OBVIOUS
  <2>1. 1 \in DOMAIN s.queue /\ s.queue[1].track \in Track
    BY <1>1, <1>2
  <2>2. 1 \in good
    BY <2>1
  <2>3. least <= 1 /\ least >= 1 /\ least \in Nat
    <3> HIDE DEF n, good, least
    <3>1. good # {}
      BY <2>2
    <3>2. least <= 1 /\ least \in 1 .. Len(s.queue)
      BY <1>4, <1>5, <2>2, <3>1
    <3> QED
      BY <1>2, <3>2
  <2>4. n = 0
    <3>1. n = least - 1
      BY <2>2
    <3> HIDE DEF n, good, least
    <3> QED
      BY <2>3, <3>1
  <2> HIDE DEF n, good, least
  <2> QED
    BY <1>1, <1>2, <2>4
<1> HIDE DEF queue, moff, n, good, least
<1>12. t \in Driver /\ t.queue = queue /\ t.selected = s.selected
  BY <1>7, <1>8, <1>9 DEF Driver
<1>13. SameHead(s, t)
  BY <1>9 DEF SameHead, Driver
<1> QED
  BY <1>10, <1>11, <1>12, <1>13 DEF Floppies!Current

-----------------------------------------------------------------------------
(* Where the chain is *)

Running(s) == s.current_drive \in s.dor.motors
Ready(s) == s.selected /\ Running(s) /\ s.mon[s.current_drive] <= 1

(* Waiting for the motor: floppy_change() may have set mon back to 2.      *)
Spins(s, j) ==
  /\ s.op.kind = "none" /\ s.timers = <<[fn |-> "floppy_on_interrupt", jiffies |-> j]>>
  /\ Aimed(s) /\ Running(s)
  /\ s.mon[s.current_drive] >= j /\ s.mon[s.current_drive] <= j + 1 /\ s.moff[s.current_drive] >= 2
(* Waiting for the drive to be selected.                                   *)
Settles(s, j) ==
  /\ s.op.kind = "none" /\ s.timers = <<[fn |-> "transfer", jiffies |-> j]>>
  /\ Aimed(s) /\ Ready(s) /\ j <= 2 /\ s.moff[s.current_drive] >= j

Idles(s) == s.op.kind = "none" /\ s.timers = <<>> /\ s.queue = <<>> /\ Sure(s)
Works(s) == s.timers = <<>> /\ (Moves(s) \/ Transfers(s)) /\ Asked(s) /\ Ready(s)
Recovers(s) == s.timers = <<>> /\ (Recalibrates(s) \/ Resets(s))
Phase(s) ==
  \/ Idles(s) \/ Works(s) \/ Recovers(s)
  \/ \E j \in Nat \ {0} : Spins(s, j) \/ Settles(s, j)

(* Between two links of the chain.                                         *)
Between(s) == s \in Driver /\ s.op.kind = "none" /\ s.timers = <<>> /\ Selects(s)

LEMMA SelectsKept ==
  ASSUME NEW s, Selects(s), NEW t, SameRequest(s, t)
  PROVE  Selects(t)
BY DEF Selects, Asked, SameRequest, SameMotors, Floppies!Current

(* The motor runs or will run, and the drive is that of the request.       *)
LEMMA RequestStarts ==
  ASSUME NEW s, Between(s), s.queue # <<>>, Floppies!Current(s).track \in Track, Known(s),
         NEW sent \in BOOLEAN, NEW t, t = Floppies!Start(s, sent)
  PROVE  t \in Driver /\ Selects(t) /\ Phase(t)
<1>1. s \in Driver /\ s.op.kind = "none" /\ s.timers = <<>> /\ Selects(s)
  BY DEF Between
<1>2. PICK drive \in Drive, track \in Int :
         drive = Floppies!Current(s).drive /\ track = Floppies!Current(s).track
  BY <1>1, CurrentIsRequest
<1>3. PICK seek \in BOOLEAN : seek <=> drive # s.current_drive \/ track # s.current_track
  OBVIOUS
<1>4. seek = Floppies!MustSeek(s)
  BY <1>2, <1>3 DEF Floppies!MustSeek
<1>5. PICK a \in Driver : a = [s EXCEPT !.seek = seek, !.current_drive = drive, !.seek_track = track]
  BY <1>1 DEF Driver
<1>6. /\ a.seek = seek /\ a.current_drive = drive /\ a.seek_track = track
      /\ a.queue = s.queue /\ a.op = s.op /\ a.timers = s.timers /\ a.pos = s.pos
      /\ a.current_track = s.current_track /\ a.selected = s.selected /\ a.dor = s.dor
  BY <1>1, <1>5 DEF Driver
<1>7. Aimed(a)
  <2>1. seek \/ OnTrack(a)
    <3> SUFFICES ASSUME ~seek PROVE OnTrack(a)
      OBVIOUS
    <3>1. drive = s.current_drive /\ track = s.current_track
      BY <1>3
    <3>2. track # Floppies!Unknown
      <4>1. track \in Nat
        BY <1>2, FloppyNumbers
      <4> QED
        BY <4>1 DEF Floppies!Unknown
    <3> QED
      BY <1>2, <1>6, <3>1, <3>2 DEF Known, OnTrack, Floppies!Current
  <2> QED
    BY <1>2, <1>6, <2>1 DEF Aimed, Asked, Floppies!Current
<1>8. a.selected => a.dor.drive = drive
  BY <1>1, <1>2, <1>6 DEF Selects, Asked
<1>9. PICK b : b = Floppies!ticks_to_floppy_on(a, drive)
  OBVIOUS
<1>10. /\ b \in Driver /\ SameChain(a, b) /\ b.dor.motors = a.dor.motors \cup {drive}
       /\ b.dor.drive = IF a.selected THEN a.dor.drive ELSE drive
       /\ b.moff[drive] = KEEP
  BY <1>9, TicksOn DEF TurnsOn
<1>11. b.dor.drive = drive /\ b.current_drive = drive /\ Running(b) /\ Aimed(b) /\ b.timers = <<>> /\ b.op.kind = "none"
  <2>1. b.current_drive = drive /\ b.timers = <<>> /\ b.op.kind = "none"
    BY <1>1, <1>6, <1>10 DEF SameChain
  <2>2. Aimed(b)
    BY <1>7, <1>10 DEF Aimed, Asked, OnTrack, SameChain, Floppies!Current
  <2>3. b.dor.drive = drive
    BY <1>8, <1>10
  <2> QED
    BY <1>10, <2>1, <2>2, <2>3 DEF Running
<1>12. PICK ticks \in Nat : ticks = b.mon[drive]
  BY <1>10 DEF Driver
<1>13. t = IF b.mon[b.current_drive] = 0 THEN Floppies!floppy_on_interrupt(b, sent)
           ELSE [b EXCEPT !.timers = Floppies!Inserted(@, b.mon[b.current_drive], "floppy_on_interrupt")]
  BY <1>2, <1>4, <1>5, <1>9 DEF Floppies!Start
<1>14. CASE ticks = 0
  <2>1. t = Floppies!floppy_on_interrupt(b, sent)
    BY <1>11, <1>12, <1>13, <1>14
  <2>2. t = Floppies!transfer([b EXCEPT !.selected = TRUE], sent)
    BY <1>11, <2>1 DEF Floppies!floppy_on_interrupt
  <2>3. PICK c \in Driver : c = [b EXCEPT !.selected = TRUE]
    BY <1>10 DEF Driver
  <2>4. /\ c.selected /\ c.timers = b.timers /\ c.queue = b.queue /\ c.current_drive = b.current_drive
        /\ c.op = b.op /\ c.seek_track = b.seek_track /\ c.seek = b.seek /\ c.pos = b.pos
        /\ c.current_track = b.current_track /\ c.dor = b.dor /\ c.mon = b.mon
    BY <1>10, <2>3 DEF Driver
  <2>5. Aimed(c)
    BY <1>11, <2>4 DEF Aimed, Asked, OnTrack, Floppies!Current
  <2>6. t \in Driver /\ SameRequest(c, t) /\ (Moves(t) \/ Transfers(t) \/ Resets(t))
    BY <2>2, <2>3, <2>5, TransferStarts
  <2>7. Selects(c) /\ Ready(c)
    <3>1. c.dor.drive = c.current_drive /\ c.current_drive \in c.dor.motors
      BY <1>11, <2>4 DEF Running
    <3>2. c.mon[c.current_drive] <= 1
      <4>1. c.mon[c.current_drive] = ticks
        BY <1>11, <1>12, <2>4
      <4> QED
        BY <1>14, <4>1
    <3> QED
      BY <2>4, <2>5, <3>1, <3>2 DEF Selects, Aimed, Ready, Running
  <2>8. Asked(t) /\ Ready(t) /\ t.timers = <<>>
    BY <1>11, <2>4, <2>5, <2>6, <2>7 DEF Aimed, Asked, Ready, Running, SameRequest, SameMotors, Floppies!Current
  <2> QED
    BY <2>6, <2>7, <2>8, SelectsKept DEF Phase, Works, Recovers
<1>15. CASE ticks # 0
  <2>1. t = [b EXCEPT !.timers = Floppies!Inserted(@, ticks, "floppy_on_interrupt")]
    BY <1>11, <1>12, <1>13, <1>15
  <2>2. PICK timers \in Seq(Timer) : timers = <<[fn |-> "floppy_on_interrupt", jiffies |-> ticks]>>
    <3>1. [fn |-> "floppy_on_interrupt", jiffies |-> ticks] \in Timer
      BY DEF Timer, Link
    <3>2. <<[fn |-> "floppy_on_interrupt", jiffies |-> ticks]>> \in Seq(Timer)
      BY <3>1
    <3> QED
      BY <3>2, Zenon
  <2>3. Floppies!Inserted(<<>>, ticks, "floppy_on_interrupt") = timers
    BY <2>2, FirstTimer
  <2>4. t = [b EXCEPT !.timers = timers]
    BY <1>10, <1>11, <2>1, <2>3 DEF Driver
  <2>5. t \in Driver /\ t.timers = timers
    BY <1>10, <2>4 DEF Driver
  <2>6. /\ t.queue = b.queue /\ t.current_drive = b.current_drive /\ t.op = b.op
        /\ t.seek_track = b.seek_track /\ t.seek = b.seek /\ t.pos = b.pos /\ t.selected = b.selected
        /\ t.current_track = b.current_track /\ t.dor = b.dor /\ t.mon = b.mon /\ t.moff = b.moff
    BY <1>10, <2>4 DEF Driver
  <2>7. Aimed(t)
    BY <1>11, <2>6 DEF Aimed, Asked, OnTrack, Floppies!Current
  <2>8. t.mon[t.current_drive] = ticks /\ t.moff[t.current_drive] = KEEP /\ t.dor.drive = t.current_drive /\ Running(t)
    BY <1>10, <1>11, <1>12, <2>6 DEF Running
  <2>9. Spins(t, ticks)
    <3>1. t.op.kind = "none" /\ t.timers = <<[fn |-> "floppy_on_interrupt", jiffies |-> ticks]>>
      BY <1>11, <2>2, <2>5, <2>6
    <3>2. ticks >= ticks /\ ticks <= ticks + 1 /\ KEEP >= 2
      BY FloppyNumbers
    <3> QED
      BY <2>7, <2>8, <3>1, <3>2 DEF Spins
  <2>10. Selects(t)
    BY <2>7, <2>8 DEF Selects, Aimed
  <2> QED
    BY <1>15, <2>5, <2>9, <2>10 DEF Phase
<1> QED
  BY <1>14, <1>15

LEMMA RecalibrateStarts ==
  ASSUME NEW s, Between(s), NEW sent \in BOOLEAN, NEW t, t = Floppies!recalibrate_floppy(s, sent)
  PROVE  t \in Driver /\ Selects(t) /\ Phase(t)
<1>1. s \in Driver /\ s.timers = <<>> /\ Selects(s)
  BY DEF Between
<1>2. PICK a \in Driver : a = [s EXCEPT !.recalibrate = FALSE, !.current_track = 0]
  <2>1. PICK b \in Driver : b = [s EXCEPT !.recalibrate = FALSE]
    BY <1>1 DEF Driver
  <2>2. PICK track \in Int : track = 0
    OBVIOUS
  <2>3. PICK a \in Driver : a = [b EXCEPT !.current_track = track]
    BY <2>1 DEF Driver
  <2>4. a = [s EXCEPT !.recalibrate = FALSE, !.current_track = 0]
    BY <2>1, <2>2, <2>3
  <2> QED
    BY <2>4
<1>3. a.current_track = 0
  BY <1>1, <1>2 DEF Driver
<1>4. SameRequest(s, a)
  BY <1>1, <1>2 DEF Driver, SameRequest, SameMotors
<1>5. t = Floppies!Command(a, "recal", "recal", 0, sent)
  BY <1>2 DEF Floppies!recalibrate_floppy
<1>6. "recal" \in Handler
  BY DEF Handler
<1>7. /\ t \in Driver /\ SameRequest(a, t)
      /\ \/ /\ t.do_floppy = "recal" /\ t.op.kind = "recal" /\ t.op.drive = a.current_drive /\ t.op.track = 0
            /\ t.current_track = a.current_track /\ t.seek_track = a.seek_track /\ t.pos = a.pos
         \/ Resets(t)
  BY <1>5, <1>6, CommandStarts
<1>8. Recovers(t)
  BY <1>1, <1>3, <1>4, <1>7 DEF Recovers, Recalibrates, SameRequest
<1>9. Selects(t)
  BY <1>1, <1>4, <1>7, SelectsKept
<1> QED
  BY <1>7, <1>8, <1>9 DEF Phase

(* do_fd_request() goes on with the chain, or ends it with an empty queue. *)
LEMMA ChainGoesOn ==
  ASSUME NEW s, Between(s), Sure(s), NEW sent \in BOOLEAN, NEW t, t = Floppies!do_fd_request(s, sent)
  PROVE  t \in Driver /\ Selects(t) /\ Phase(t)
<1>1. s \in Driver /\ s.op.kind = "none" /\ s.timers = <<>> /\ Selects(s)
  BY DEF Between
<1>2. PICK a \in Driver : a = [s EXCEPT !.seek = FALSE]
  BY <1>1 DEF Driver
<1>3. SameRequest(s, a)
  BY <1>1, <1>2 DEF Driver, SameRequest, SameMotors
<1>4. a.op = s.op /\ a.current_track = s.current_track /\ a.pos = s.pos
  BY <1>1, <1>2 DEF Driver
<1>5. Between(a)
  BY <1>1, <1>3, <1>4, SelectsKept DEF Between, SameRequest
<1>6. CASE s.reset
  <2>1. t = Floppies!reset_floppy(a)
    BY <1>2, <1>6 DEF Floppies!do_fd_request
  <2>2. t \in Driver /\ SameRequest(a, t) /\ Resets(t)
    BY <2>1, ResetStarts
  <2> QED
    BY <1>1, <1>3, <1>5, <2>2, SelectsKept DEF Phase, Recovers, Between, SameRequest
<1>7. CASE ~s.reset /\ s.recalibrate
  <2>1. t = Floppies!recalibrate_floppy(a, sent)
    BY <1>2, <1>7 DEF Floppies!do_fd_request
  <2> QED
    BY <1>5, <2>1, RecalibrateStarts
<1>8. CASE ~s.reset /\ ~s.recalibrate
  <2>1. PICK r : r = Floppies!Refused(a)
    OBVIOUS
  <2>2. /\ r \in Driver /\ SameHead(a, r) /\ r.selected = a.selected
        /\ r.queue # <<>> => Floppies!Current(r).track \in Track
        /\ a.queue # <<>> /\ Floppies!Current(a).track \in Track => r.queue = a.queue
    BY <2>1, RefusedRest
  <2>3. Selects(r)
    BY <1>5, <2>2 DEF Between, Selects, Asked, SameHead, Floppies!Current
  <2>4. Known(r)
    BY <1>3, <1>4, <1>8, <2>2 DEF Sure, Known, SameHead, SameRequest
  <2>5. Between(r)
    BY <1>5, <2>2, <2>3 DEF Between, SameHead
  <2>6. t = IF r.queue = <<>> THEN r ELSE Floppies!Start(r, sent)
    BY <1>2, <1>8, <2>1 DEF Floppies!do_fd_request
  <2>7. CASE r.queue = <<>>
    BY <2>2, <2>3, <2>4, <2>5, <2>6, <2>7 DEF Phase, Idles, Between, Sure
  <2>8. CASE r.queue # <<>>
    BY <2>2, <2>4, <2>5, <2>6, <2>8, RequestStarts
  <2> QED
    BY <2>7, <2>8
<1> QED
  BY <1>6, <1>7, <1>8

-----------------------------------------------------------------------------
(* Interrupts of the floppy controller *)

(* bad_flp_intr() asks for a reset or a recalibration, whatever request    *)
(* it counts the error in.                                                 *)
LEMMA ErrorCounted ==
  ASSUME NEW s, Between(s), s.queue # <<>>, NEW t, t = Floppies!bad_flp_intr(s)
  PROVE  Between(t) /\ Sure(t)
<1>1. s \in Driver /\ s.op.kind = "none" /\ s.timers = <<>> /\ Selects(s)
  BY DEF Between
<1>2. s.queue \in Seq(Request) /\ s.queue[1] \in Request /\ Tail(s.queue) \in Seq(Request) /\ Head(s.queue) = s.queue[1]
  BY <1>1, HeadTail DEF Driver
<1>3. PICK request : request = [Floppies!Current(s) EXCEPT !.errors = @ + 1]
  OBVIOUS
<1>4. request \in Request /\ request.drive = s.queue[1].drive /\ request.track = s.queue[1].track
  <2>1. Floppies!Current(s) = s.queue[1]
    BY <1>2 DEF Floppies!Current
  <2> QED
    BY <1>2, <1>3, <2>1 DEF Request
<1>5. PICK queue \in Seq(Request) : queue = <<request>> \o Tail(s.queue)
  <2>1. <<request>> \in Seq(Request)
    BY <1>4
  <2>2. <<request>> \o Tail(s.queue) \in Seq(Request)
    BY <1>2, <2>1
  <2> QED
    BY <2>2
<1>6. queue # <<>> /\ Head(queue) = request
  BY <1>2, <1>4, <1>5
<1>7. PICK e : e = [s EXCEPT !.queue = queue]
  OBVIOUS
<1>8. e \in Driver /\ e.queue = queue
  BY <1>1, <1>7 DEF Driver
<1>9. /\ e.op = s.op /\ e.timers = s.timers /\ e.selected = s.selected /\ e.dor = s.dor
      /\ e.current_drive = s.current_drive
  BY <1>1, <1>7 DEF Driver
<1>10. Selects(e)
  BY <1>1, <1>2, <1>4, <1>6, <1>8, <1>9 DEF Selects, Asked, Floppies!Current
<1>11. Between(e) /\ e.queue # <<>>
  BY <1>1, <1>6, <1>8, <1>9, <1>10 DEF Between
<1>12. PICK r : r = IF Floppies!Current(e).errors > MAX_ERRORS
                    THEN Floppies!end_request(Floppies!floppy_deselect(e)) ELSE e
  OBVIOUS
<1>13. Between(r)
  <2>1. CASE r = e
    BY <1>11, <2>1
  <2>2. CASE r = Floppies!end_request(Floppies!floppy_deselect(e))
    <3>1. r \in Driver /\ ~r.selected /\ SameHead(e, r)
      BY <1>8, <1>11, <2>2, RequestEnded
    <3> QED
      BY <1>11, <3>1 DEF Between, SameHead, Selects
  <2> QED
    BY <1>12, <2>1, <2>2
<1>14. e = [s EXCEPT !.queue = <<[Floppies!Current(s) EXCEPT !.errors = @ + 1]>> \o Tail(@)]
  BY <1>1, <1>3, <1>5, <1>7 DEF Driver
<1>15. t = [r EXCEPT !.reset = TRUE] \/ t = [r EXCEPT !.recalibrate = TRUE]
  BY <1>12, <1>14 DEF Floppies!bad_flp_intr
<1>16. r \in Driver
  BY <1>13 DEF Between
<1>17. t \in Driver /\ Sure(t) /\ SameRequest(r, t) /\ t.op = r.op
  <2>1. CASE t = [r EXCEPT !.reset = TRUE]
    <3>1. t \in Driver /\ t.reset /\ t.op = r.op
      BY <1>16, <2>1 DEF Driver
    <3>2. SameRequest(r, t)
      BY <1>16, <2>1 DEF Driver, SameRequest, SameMotors
    <3> QED
      BY <3>1, <3>2 DEF Sure
  <2>2. CASE t = [r EXCEPT !.recalibrate = TRUE]
    <3>1. t \in Driver /\ t.recalibrate /\ t.op = r.op
      BY <1>16, <2>2 DEF Driver
    <3>2. SameRequest(r, t)
      BY <1>16, <2>2 DEF Driver, SameRequest, SameMotors
    <3> QED
      BY <3>1, <3>2 DEF Sure
  <2> QED
    BY <1>15, <2>1, <2>2
<1> QED
  BY <1>13, <1>17, SelectsKept DEF Between, SameRequest

(* result(): the controller may not deliver its status.                    *)
LEMMA StatusRead ==
  ASSUME NEW s, Between(s), NEW answer, NEW t, t = Floppies!Answer(s, answer)
  PROVE  Between(t) /\ SameRequest(s, t) /\ t.recalibrate = s.recalibrate
<1>1. PICK reset \in BOOLEAN : reset = (s.reset \/ answer = "dead")
  OBVIOUS
<1>2. t = [s EXCEPT !.reset = reset]
  BY <1>1 DEF Floppies!Answer, Between, Driver
<1>3. t \in Driver /\ t.op = s.op /\ t.recalibrate = s.recalibrate
  BY <1>2 DEF Between, Driver
<1>4. SameRequest(s, t)
  BY <1>2 DEF Between, Driver, SameRequest, SameMotors
<1> QED
  BY <1>3, <1>4, SelectsKept DEF Between, SameRequest

(* The heads moved, and the controller has nothing more to do.             *)
Freed(f, answer) == [Floppies!Moved(f, answer) EXCEPT !.op = Floppies!NoOp, !.do_floppy = "none"]

Ended(f, answer, s) ==
  /\ Between(s) /\ SameRequest(f, s)
  /\ s.recalibrate = f.recalibrate /\ s.seek_track = f.seek_track /\ s.current_track = f.current_track
  /\ f.op.kind \in {"seek", "recal"} /\ answer = "good" => s.pos[f.op.drive] = f.op.track
  /\ f.op.kind = "rw" => s.pos = f.pos

LEMMA CommandEnded ==
  ASSUME NEW f \in Driver, Selects(f), f.timers = <<>>, NEW answer, NEW s, s = Freed(f, answer)
  PROVE  Ended(f, answer, s)
<1>1. f.pos \in [Drive -> Int] /\ f.op \in Command
  BY DEF Driver
<1>2. PICK pos \in [Drive -> Int] :
        pos = IF f.op.kind \in {"seek", "recal"} /\ answer = "good"
              THEN [f.pos EXCEPT ![f.op.drive] = f.op.track] ELSE f.pos
  BY <1>1 DEF Command
<1>3. PICK a : a = [f EXCEPT !.pos = pos]
  OBVIOUS
<1>4. a \in Driver /\ a.pos = pos /\ a.recalibrate = f.recalibrate /\ a.seek_track = f.seek_track
      /\ a.current_track = f.current_track
  BY <1>3 DEF Driver
<1>5. SameRequest(f, a)
  BY <1>3 DEF Driver, SameRequest, SameMotors
<1>6. a = Floppies!Moved(f, answer)
  <2>1. CASE f.op.kind \in {"seek", "recal"} /\ answer = "good"
    BY <1>2, <1>3, <2>1 DEF Floppies!Moved, Driver
  <2>2. CASE ~(f.op.kind \in {"seek", "recal"} /\ answer = "good")
    <3>1. Floppies!Moved(f, answer) = f
      BY <2>2 DEF Floppies!Moved
    <3> QED
      BY <1>2, <1>3, <2>2, <3>1 DEF Driver
  <2> QED
    BY <2>1, <2>2
<1>7. PICK op \in Command : op = Floppies!NoOp /\ op.kind = "none"
  <2>1. "none" \in Handler /\ 0 \in Drive /\ 0 \in Int
    BY FloppyNumbers DEF Handler
  <2>2. PICK kind \in Handler, drive \in Drive, track \in Int : kind = "none" /\ drive = 0 /\ track = 0
    BY <2>1
  <2>3. PICK op \in Command : op = [kind |-> kind, drive |-> drive, track |-> track] /\ op.kind = kind
    BY OneCommand
  <2>4. op = Floppies!NoOp
    BY <2>2, <2>3 DEF Floppies!NoOp
  <2> QED
    BY <2>2, <2>3, <2>4
<1>8. s = [a EXCEPT !.op = op, !.do_floppy = "none"]
  BY <1>6, <1>7 DEF Freed
<1>9. s \in Driver /\ s.op = op
  BY <1>4, <1>8 DEF Driver, Handler
<1>10. s.pos = a.pos /\ s.recalibrate = a.recalibrate /\ s.seek_track = a.seek_track /\ s.current_track = a.current_track
  BY <1>4, <1>8 DEF Driver
<1>11. SameRequest(a, s)
  BY <1>4, <1>8 DEF Driver, SameRequest, SameMotors
<1>12. SameRequest(f, s)
  BY <1>5, <1>11 DEF SameRequest, SameMotors
<1>13. Between(s)
  BY <1>7, <1>9, <1>12, SelectsKept DEF Between, SameRequest
<1>14. f.op.kind \in {"seek", "recal"} /\ answer = "good" => s.pos[f.op.drive] = f.op.track
  BY <1>1, <1>2, <1>4, <1>10 DEF Command
<1>15. f.op.kind = "rw" => s.pos = f.pos
  BY <1>2, <1>4, <1>10
<1> QED
  BY <1>4, <1>10, <1>12, <1>13, <1>14, <1>15 DEF Ended

Chained(s) == s \in Driver /\ Selects(s) /\ Phase(s)

LEMMA FailureGoesOn ==
  ASSUME NEW s, Between(s), s.queue # <<>>, NEW answer, NEW sent \in BOOLEAN,
         NEW t, t = Floppies!do_fd_request(Floppies!bad_flp_intr(Floppies!Answer(s, answer)), sent)
  PROVE  Chained(t)
<1>1. PICK a : a = Floppies!Answer(s, answer)
  OBVIOUS
<1>2. Between(a) /\ a.queue = s.queue
  BY <1>1, StatusRead DEF SameRequest
<1>3. PICK b : b = Floppies!bad_flp_intr(a)
  OBVIOUS
<1>4. Between(b) /\ Sure(b)
  BY <1>2, <1>3, ErrorCounted
<1>5. t = Floppies!do_fd_request(b, sent)
  BY <1>1, <1>3
<1> QED
  BY <1>4, <1>5, ChainGoesOn DEF Chained

(* rw_interrupt().                                                         *)
LEMMA RwInterrupt ==
  ASSUME NEW f \in Driver, Selects(f), f.timers = <<>>, Transfers(f), Asked(f),
         NEW answer, NEW sent \in BOOLEAN,
         NEW s, s = Freed(f, answer),
         NEW t, t = Floppies!rw_interrupt(s, answer, sent)
  PROVE  Chained(t)
<1>1. Between(s) /\ SameRequest(f, s) /\ s.current_track = f.current_track /\ s.pos = f.pos
  <2>1. Ended(f, answer, s)
    BY CommandEnded
  <2> QED
    BY <2>1 DEF Ended, Transfers
<1>2. s.queue # <<>>
  BY <1>1 DEF Asked, SameRequest
<1>3. CASE answer \in {"good", "protected"}
  <2>1. PICK a : a = Floppies!end_request(Floppies!floppy_deselect(s))
    OBVIOUS
  <2>2. a \in Driver /\ ~a.selected /\ SameHead(s, a)
    BY <1>1, <1>2, <2>1, RequestEnded DEF Between
  <2>3. Between(a)
    BY <1>1, <2>2 DEF Between, SameHead, Selects
  <2>4. Known(a)
    BY <1>1, <2>2 DEF Known, SameHead, SameRequest, Transfers, OnTrack
  <2>5. t = Floppies!do_fd_request(a, sent)
    BY <1>3, <2>1 DEF Floppies!rw_interrupt
  <2> QED
    BY <2>3, <2>4, <2>5, ChainGoesOn DEF Sure, Chained
<1>4. CASE answer \notin {"good", "protected"}
  <2>1. t = Floppies!do_fd_request(Floppies!bad_flp_intr(Floppies!Answer(s, answer)), sent)
    BY <1>4 DEF Floppies!rw_interrupt
  <2> QED
    BY <1>1, <1>2, <2>1, FailureGoesOn
<1> QED
  BY <1>3, <1>4

(* seek_interrupt().                                                       *)
LEMMA SeekInterrupt ==
  ASSUME NEW f \in Driver, Selects(f), f.timers = <<>>, Moves(f), Asked(f), Ready(f),
         NEW answer, NEW sent \in BOOLEAN,
         NEW s, s = Freed(f, answer),
         NEW t, t = Floppies!seek_interrupt(s, answer, sent)
  PROVE  Chained(t)
<1>1. /\ Between(s) /\ SameRequest(f, s) /\ s.seek_track = f.seek_track
      /\ answer = "good" => s.pos[f.op.drive] = f.op.track
  <2>1. Ended(f, answer, s)
    BY CommandEnded
  <2> QED
    BY <2>1 DEF Ended, Moves
<1>2. s.queue # <<>> /\ s \in Driver
  BY <1>1 DEF Asked, SameRequest, Between
<1>3. CASE answer = "good"
  <2>1. PICK track \in Int : track = s.seek_track
    BY <1>2 DEF Driver
  <2>2. PICK a : a = [s EXCEPT !.current_track = track]
    OBVIOUS
  <2>3. a \in Driver /\ a.current_track = track
    BY <1>2, <2>1, <2>2 DEF Driver
  <2>4. SameRequest(s, a) /\ a.pos = s.pos /\ a.seek_track = s.seek_track
    BY <1>2, <2>1, <2>2 DEF Driver, SameRequest, SameMotors
  <2>5. OnTrack(a)
    BY <1>1, <1>3, <2>1, <2>3, <2>4 DEF OnTrack, SameRequest, Moves, Floppies!Current
  <2>6. t = Floppies!setup_rw_floppy(a, sent)
    BY <1>3, <2>1, <2>2 DEF Floppies!seek_interrupt
  <2>7. t \in Driver /\ SameRequest(a, t) /\ (Transfers(t) \/ Resets(t))
    BY <2>1, <2>3, <2>4, <2>5, <2>6, RwStarts
  <2>8. SameRequest(f, t)
    BY <1>1, <2>4, <2>7 DEF SameRequest, SameMotors
  <2>9. Asked(t) /\ Ready(t) /\ t.timers = <<>>
    BY <2>8 DEF SameRequest, SameMotors, Asked, Ready, Running, Floppies!Current
  <2> QED
    BY <2>7, <2>8, <2>9, SelectsKept DEF Chained, Phase, Works, Recovers
<1>4. CASE answer # "good"
  <2>1. t = Floppies!do_fd_request(Floppies!bad_flp_intr(Floppies!Answer(s, answer)), sent)
    BY <1>4 DEF Floppies!seek_interrupt
  <2> QED
    BY <1>1, <1>2, <2>1, FailureGoesOn
<1> QED
  BY <1>3, <1>4

(* recal_interrupt().                                                      *)
LEMMA RecalInterrupt ==
  ASSUME NEW f \in Driver, Selects(f), f.timers = <<>>, Recalibrates(f),
         NEW answer, NEW sent \in BOOLEAN,
         NEW s, s = Freed(f, answer),
         NEW t, t = Floppies!recal_interrupt(s, answer, sent)
  PROVE  Chained(t)
<1>1. /\ Between(s) /\ SameRequest(f, s) /\ s.current_track = f.current_track
      /\ answer = "good" => s.pos[f.op.drive] = f.op.track
  <2>1. Ended(f, answer, s)
    BY CommandEnded
  <2> QED
    BY <2>1 DEF Ended, Recalibrates
<1>2. PICK a : a = IF answer = "good" THEN [s EXCEPT !.recalibrate = FALSE] ELSE [s EXCEPT !.reset = TRUE]
  OBVIOUS
<1>3. t = Floppies!do_fd_request(a, sent)
  BY <1>2 DEF Floppies!recal_interrupt
<1>4. s \in Driver
  BY <1>1 DEF Between
<1>5. CASE answer = "good"
  <2>1. a = [s EXCEPT !.recalibrate = FALSE]
    BY <1>2, <1>5
  <2>2. a \in Driver /\ a.op = s.op /\ a.pos = s.pos /\ a.current_track = s.current_track
    BY <1>4, <2>1 DEF Driver
  <2>3. SameRequest(s, a)
    BY <1>4, <2>1 DEF Driver, SameRequest, SameMotors
  <2>4. Between(a)
    BY <1>1, <2>2, <2>3, SelectsKept DEF Between, SameRequest
  <2>5. Known(a)
    BY <1>1, <1>5, <2>2, <2>3 DEF Known, SameRequest, Recalibrates
  <2> QED
    BY <1>3, <2>4, <2>5, ChainGoesOn DEF Sure, Chained
<1>6. CASE answer # "good"
  <2>1. a = [s EXCEPT !.reset = TRUE]
    BY <1>2, <1>6
  <2>2. a \in Driver /\ a.op = s.op /\ a.reset
    BY <1>4, <2>1 DEF Driver
  <2>3. SameRequest(s, a)
    BY <1>4, <2>1 DEF Driver, SameRequest, SameMotors
  <2>4. Between(a)
    BY <1>1, <2>2, <2>3, SelectsKept DEF Between, SameRequest
  <2> QED
    BY <1>3, <2>2, <2>4, ChainGoesOn DEF Sure, Chained
<1> QED
  BY <1>5, <1>6

(* reset_interrupt().                                                      *)
LEMMA ResetInterrupt ==
  ASSUME NEW f \in Driver, Selects(f), f.timers = <<>>, Resets(f),
         NEW answer, NEW sent \in BOOLEAN,
         NEW s, s = Freed(f, answer),
         NEW t, t = Floppies!reset_interrupt(s, answer, sent)
  PROVE  Chained(t)
<1>1. Between(s) /\ s.recalibrate
  <2>1. Between(s) /\ s.recalibrate = f.recalibrate
    BY CommandEnded DEF Ended
  <2>2. f.recalibrate
    BY DEF Resets
  <2> QED
    BY <2>1, <2>2
<1>2. PICK a : a = Floppies!Answer(s, answer)
  OBVIOUS
<1>3. Between(a) /\ a.recalibrate
  BY <1>1, <1>2, StatusRead
<1>4. PICK b : b = IF sent THEN a ELSE [a EXCEPT !.reset = TRUE]
  OBVIOUS
<1>5. t = Floppies!do_fd_request(b, sent)
  BY <1>2, <1>4 DEF Floppies!reset_interrupt
<1>6. Between(b) /\ Sure(b)
  <2>1. CASE sent
    BY <1>3, <1>4, <2>1 DEF Sure
  <2>2. CASE ~sent
    <3>1. b = [a EXCEPT !.reset = TRUE] /\ a \in Driver
      BY <1>3, <1>4, <2>2 DEF Between
    <3>2. b \in Driver /\ b.op = a.op /\ b.reset
      BY <3>1 DEF Driver
    <3>3. SameRequest(a, b)
      BY <3>1 DEF Driver, SameRequest, SameMotors
    <3> QED
      BY <1>3, <3>2, <3>3, SelectsKept DEF Between, SameRequest, Sure
  <2> QED
    BY <2>1, <2>2
<1> QED
  BY <1>5, <1>6, ChainGoesOn DEF Chained

(* The interrupt finds the handler that waits for it.                      *)
LEMMA FloppyInterrupts ==
  ASSUME Chained(floppy), NEW answer, NEW sent \in BOOLEAN, Floppies!floppy_interrupt(answer, sent)
  PROVE  Chained(floppy')
<1>1. PICK f \in Driver : f = floppy
  BY DEF Chained
<1>2. Selects(f) /\ Phase(f)
  BY <1>1 DEF Chained
<1>3. f.op.kind # "none"
  BY <1>1 DEF Floppies!floppy_interrupt
<1>4. PICK s : s = Freed(f, answer)
  OBVIOUS
<1>5. PICK t : t = floppy'
  OBVIOUS
<1>6. /\ f.do_floppy = "rw" => t = Floppies!rw_interrupt(s, answer, sent)
      /\ f.do_floppy = "seek" => t = Floppies!seek_interrupt(s, answer, sent)
      /\ f.do_floppy = "recal" => t = Floppies!recal_interrupt(s, answer, sent)
      /\ f.do_floppy = "reset" => t = Floppies!reset_interrupt(s, answer, sent)
  BY <1>1, <1>4, <1>5 DEF Floppies!floppy_interrupt, Freed
<1>7. f.timers = <<>> /\ (((Moves(f) \/ Transfers(f)) /\ Asked(f) /\ Ready(f)) \/ Recalibrates(f) \/ Resets(f))
  BY <1>2, <1>3 DEF Phase, Idles, Spins, Settles, Works, Recovers
<1>8. Chained(t)
  <2>1. CASE Transfers(f) /\ Asked(f)
    <3>1. f.do_floppy = "rw"
      BY <2>1 DEF Transfers
    <3> QED
      BY <1>2, <1>4, <1>6, <1>7, <2>1, <3>1, RwInterrupt
  <2>2. CASE Moves(f) /\ Asked(f) /\ Ready(f)
    <3>1. f.do_floppy = "seek"
      BY <2>2 DEF Moves
    <3> QED
      BY <1>2, <1>4, <1>6, <1>7, <2>2, <3>1, SeekInterrupt
  <2>3. CASE Recalibrates(f)
    <3>1. f.do_floppy = "recal"
      BY <2>3 DEF Recalibrates
    <3> QED
      BY <1>2, <1>4, <1>6, <1>7, <2>3, <3>1, RecalInterrupt
  <2>4. CASE Resets(f)
    <3>1. f.do_floppy = "reset"
      BY <2>4 DEF Resets
    <3> QED
      BY <1>2, <1>4, <1>6, <1>7, <2>4, <3>1, ResetInterrupt
  <2> QED
    BY <1>7, <2>1, <2>2, <2>3, <2>4
<1> QED
  BY <1>5, <1>8

-----------------------------------------------------------------------------
(* The clock *)

(* do_floppy_timer(): a motor that turns gets nearer to its speed; one     *)
(* that has it stops when it was not used for long enough.                 *)
LEMMA MotorsTick ==
  ASSUME NEW s \in Driver,
         NEW t, t = IF s.dor.motors # {} THEN Floppies!do_floppy_timer(s) ELSE s
  PROVE  /\ t \in Driver /\ SameChain(s, t) /\ t.change.nr = s.change.nr
         /\ t.dor.drive = s.dor.drive
         /\ \A d \in s.dor.motors :
              /\ s.mon[d] > 0 => /\ t.mon[d] = s.mon[d] - 1 /\ t.moff[d] = s.moff[d]
                                 /\ d \in t.dor.motors
              /\ s.mon[d] = 0 /\ s.moff[d] > 0 => /\ t.mon[d] = 0 /\ t.moff[d] = s.moff[d] - 1
                                                  /\ d \in t.dor.motors
<1>1. CASE s.dor.motors = {}
  BY <1>1 DEF SameChain
<1>2. CASE s.dor.motors # {}
  <2> DEFINE spins == {d \in s.dor.motors : s.mon[d] > 0}
             runs == s.dor.motors \ spins
             on == [d \in Drive |-> IF d \in spins THEN s.mon[d] - 1 ELSE s.mon[d]]
             off == [d \in Drive |-> IF d \in runs /\ s.moff[d] > 0 THEN s.moff[d] - 1 ELSE s.moff[d]]
             motors == s.dor.motors \ {d \in runs : s.moff[d] = 0}
  <2>1. /\ s.dor \in Selection /\ s.dor.drive \in Drive /\ s.dor.motors \subseteq Drive
        /\ s.mon \in [Drive -> Nat] /\ s.moff \in [Drive -> Nat] /\ s.change \in [nr : Drive, pc : Waiting]
    BY DEF Driver, Selection
  <2>2. PICK mon \in [Drive -> Nat] : mon = on
    <3>1. ASSUME NEW d \in Drive
          PROVE  (IF d \in spins THEN s.mon[d] - 1 ELSE s.mon[d]) \in Nat
      <4>1. s.mon[d] \in Nat
        BY <2>1
      <4>2. d \in spins => s.mon[d] > 0
        OBVIOUS
      <4> HIDE DEF spins
      <4> QED
        BY <4>1, <4>2
    <3> HIDE DEF spins
    <3> QED
      BY <3>1
  <2>3. PICK moff \in [Drive -> Nat] : moff = off
    <3> HIDE DEF runs
    <3>1. ASSUME NEW d \in Drive
          PROVE  (IF d \in runs /\ s.moff[d] > 0 THEN s.moff[d] - 1 ELSE s.moff[d]) \in Nat
      <4>1. s.moff[d] \in Nat
        BY <2>1
      <4> QED
        BY <4>1
    <3> QED
      BY <3>1
  <2>4. PICK dor \in Selection : dor = [s.dor EXCEPT !.motors = motors]
    BY <2>1 DEF Selection
  <2>5. dor.drive = s.dor.drive /\ dor.motors = motors
    BY <2>1, <2>4 DEF Selection
  <2>6. \A d \in s.dor.motors :
          /\ s.mon[d] > 0 => mon[d] = s.mon[d] - 1 /\ moff[d] = s.moff[d] /\ d \in dor.motors
          /\ s.mon[d] = 0 /\ s.moff[d] > 0 => mon[d] = 0 /\ moff[d] = s.moff[d] - 1 /\ d \in dor.motors
    BY <2>1, <2>2, <2>3, <2>5
  <2>7. PICK a : a = [s EXCEPT !.mon = mon, !.moff = moff, !.dor = dor]
    OBVIOUS
  <2>8. a \in Driver /\ a.mon = mon /\ a.moff = moff /\ a.dor = dor /\ a.change = s.change
    <3> HIDE DEF spins, runs, on, off, motors
    <3> QED
      BY <2>7 DEF Driver
  <2>9. SameChain(s, a)
    <3> HIDE DEF spins, runs, on, off, motors
    <3> QED
      BY <2>7 DEF Driver, SameChain
  <2>10. a = [s EXCEPT !.mon = on, !.moff = off, !.dor.motors = motors]
    <3> HIDE DEF spins, runs, on, off, motors
    <3> QED
      BY <2>1, <2>2, <2>3, <2>4, <2>7 DEF Driver
  <2>11. Floppies!do_floppy_timer(s) = IF a.change.nr \in spins /\ a.mon[a.change.nr] = 0
                                       THEN Floppies!Woken(a, "motor", "spun") ELSE a
    <3>1. [s EXCEPT !.mon = on, !.moff = off, !.dor.motors = motors]
          = [s EXCEPT !.mon = [d \in Drive |-> IF d \in spins THEN @[d] - 1 ELSE @[d]],
                      !.moff = [d \in Drive |-> IF d \in runs /\ @[d] > 0 THEN @[d] - 1 ELSE @[d]],
                      !.dor.motors = @ \ {d \in runs : s.moff[d] = 0}]
      OBVIOUS
    <3>2. a.change = s.change
      BY <2>8
    <3> QED
      BY <2>10, <3>1, <3>2 DEF Floppies!do_floppy_timer
  <2>12. t = a \/ t = Floppies!Woken(a, "motor", "spun")
    BY <1>2, <2>11
  <2> HIDE DEF spins, runs, on, off, motors
  <2>13. t \in Driver /\ SameChain(a, t) /\ t.dor = a.dor /\ t.mon = a.mon /\ t.moff = a.moff
         /\ t.change.nr = a.change.nr
    <3>1. CASE t = a
      BY <2>8, <3>1 DEF SameChain
    <3>2. CASE t = Floppies!Woken(a, "motor", "spun")
      <4>1. "motor" \in Waiting /\ "spun" \in Waiting
        BY DEF Waiting
      <4> QED
        BY <2>8, <3>2, <4>1, WokenUp
    <3> QED
      BY <2>12, <3>1, <3>2
  <2> QED
    BY <2>5, <2>6, <2>8, <2>9, <2>13 DEF SameChain
<1> QED
  BY <1>1, <1>2

(* The motor of the chosen drive keeps turning for a tick.                 *)
LEMMA MotorKept ==
  ASSUME NEW s \in Driver, Running(s),
         NEW t, t = IF s.dor.motors # {} THEN Floppies!do_floppy_timer(s) ELSE s,
         NEW m \in Nat, m = s.mon[s.current_drive], NEW o \in Nat, o = s.moff[s.current_drive], m > 0 \/ o > 0
  PROVE  /\ t \in Driver /\ SameChain(s, t) /\ t.dor.drive = s.dor.drive /\ Running(t)
         /\ m > 0 => t.mon[t.current_drive] = m - 1 /\ t.moff[t.current_drive] = o
         /\ m = 0 => t.mon[t.current_drive] = 0 /\ t.moff[t.current_drive] = o - 1
<1>1. /\ t \in Driver /\ SameChain(s, t) /\ t.dor.drive = s.dor.drive
      /\ \A d \in s.dor.motors :
           /\ s.mon[d] > 0 => /\ t.mon[d] = s.mon[d] - 1 /\ t.moff[d] = s.moff[d]
                              /\ d \in t.dor.motors
           /\ s.mon[d] = 0 /\ s.moff[d] > 0 => /\ t.mon[d] = 0 /\ t.moff[d] = s.moff[d] - 1
                                               /\ d \in t.dor.motors
  BY MotorsTick
<1>2. s.current_drive \in s.dor.motors /\ t.current_drive = s.current_drive
  BY <1>1 DEF Running, SameChain
<1>3. m > 0 => /\ t.mon[t.current_drive] = m - 1 /\ t.moff[t.current_drive] = o
               /\ t.current_drive \in t.dor.motors
  BY <1>1, <1>2
<1>4. m = 0 => /\ t.mon[t.current_drive] = 0 /\ t.moff[t.current_drive] = o - 1
               /\ t.current_drive \in t.dor.motors
  <2> SUFFICES ASSUME m = 0
               PROVE  /\ t.mon[t.current_drive] = 0 /\ t.moff[t.current_drive] = o - 1
                      /\ t.current_drive \in t.dor.motors
    OBVIOUS
  <2>1. s.mon[s.current_drive] = 0 /\ s.moff[s.current_drive] > 0
    OBVIOUS
  <2> QED
    BY <1>1, <1>2, <2>1
<1>5. m > 0 \/ m = 0
  OBVIOUS
<1> QED
  BY <1>1, <1>3, <1>4, <1>5 DEF Running

LEMMA ChainKept ==
  ASSUME NEW s, NEW t, SameChain(s, t)
  PROVE  /\ Asked(s) => Asked(t)
         /\ Aimed(s) => Aimed(t)
         /\ Sure(s) => Sure(t)
         /\ Moves(s) => Moves(t)
         /\ Transfers(s) => Transfers(t)
         /\ Recovers(s) => Recovers(t)
         /\ Idles(s) => Idles(t)
         /\ Selects(s) /\ t.dor.drive = s.dor.drive => Selects(t)
<1>1. (Asked(s) => Asked(t)) /\ (Aimed(s) => Aimed(t)) /\ (Sure(s) => Sure(t))
  BY DEF SameChain, Asked, Aimed, Sure, Known, OnTrack, Floppies!Current
<1>2. (Moves(s) => Moves(t)) /\ (Transfers(s) => Transfers(t)) /\ (Recovers(s) => Recovers(t))
  BY DEF SameChain, Moves, Transfers, OnTrack, Recovers, Recalibrates, Resets, Floppies!Current
<1>3. Idles(s) => Idles(t)
  BY <1>1 DEF SameChain, Idles
<1>4. Selects(s) /\ t.dor.drive = s.dor.drive => Selects(t)
  BY <1>1 DEF SameChain, Selects
<1> QED
  BY <1>1, <1>2, <1>3, <1>4

(* next_timer counts down.                                                 *)
Ticked(timers) == [timers EXCEPT ![1].jiffies = @ - 1]

LEMMA TimerCounts ==
  ASSUME NEW fn \in Link, NEW j \in Int, NEW k \in Int, k = j - 1, NEW timers, timers = <<[fn |-> fn, jiffies |-> j]>>,
         NEW left, left = Ticked(timers)
  PROVE  /\ timers # <<>> /\ Tail(timers) = <<>>
         /\ left = <<[fn |-> fn, jiffies |-> k]>> /\ left \in Seq(Timer)
         /\ left[1].jiffies = k /\ left[1].fn = fn
<1>1. PICK a \in Timer : a = [fn |-> fn, jiffies |-> j] /\ a.jiffies = j
  <2>1. [fn |-> fn, jiffies |-> j] \in Timer
    BY DEF Timer
  <2> QED
    BY <2>1
<1>2. PICK b \in Timer : b = [fn |-> fn, jiffies |-> k] /\ b.jiffies = k /\ b.fn = fn
  <2>1. [fn |-> fn, jiffies |-> k] \in Timer
    BY DEF Timer
  <2> QED
    BY <2>1
<1>3. b = [a EXCEPT !.jiffies = @ - 1]
  BY <1>1, <1>2
<1>4. timers = <<a>> /\ timers[1] = a /\ timers # <<>> /\ Tail(timers) = <<>>
  BY <1>1
<1>5. left = [timers EXCEPT ![1] = b]
  BY <1>3, <1>4 DEF Ticked
<1>6. left = <<b>>
  BY <1>4, <1>5
<1>7. left \in Seq(Timer) /\ left[1] = b
  <2>1. <<b>> \in Seq(Timer) /\ <<b>>[1] = b
    OBVIOUS
  <2> QED
    BY <1>6, <2>1, Zenon
<1> QED
  BY <1>2, <1>4, <1>6, <1>7

(* What do_timer() does with the timers before it turns to the motors.     *)
TimerDue(f, sent, t) ==
  LET left == Ticked(f.timers)
      due == f.timers # <<>> /\ left[1].jiffies <= 0
      s == [f EXCEPT !.timers = IF due THEN Tail(@) ELSE IF @ = <<>> THEN @ ELSE left]
  IN  t = IF ~due THEN s
          ELSE IF left[1].fn = "transfer" THEN Floppies!transfer(s, sent) ELSE Floppies!floppy_on_interrupt(s, sent)

LEMMA NoTimer ==
  ASSUME NEW f \in Driver, f.timers = <<>>, NEW sent, NEW t, TimerDue(f, sent, t)
  PROVE  t = f
<1>1. t = [f EXCEPT !.timers = f.timers]
  BY DEF TimerDue
<1> QED
  BY <1>1 DEF Driver

LEMMA TimerWaits ==
  ASSUME NEW f \in Driver, NEW fn \in Link, NEW j \in Int, NEW k \in Int, k = j - 1, j > 1,
         f.timers = <<[fn |-> fn, jiffies |-> j]>>, NEW sent, NEW t, TimerDue(f, sent, t)
  PROVE  /\ t \in Driver /\ t.timers = <<[fn |-> fn, jiffies |-> k]>>
         /\ t.queue = f.queue /\ t.current_drive = f.current_drive /\ t.current_track = f.current_track
         /\ t.seek_track = f.seek_track /\ t.seek = f.seek /\ t.selected = f.selected
         /\ t.op = f.op /\ t.pos = f.pos /\ SameMotors(f, t)
<1>1. PICK left : left = Ticked(f.timers)
  OBVIOUS
<1>2. /\ left = <<[fn |-> fn, jiffies |-> k]>> /\ left \in Seq(Timer) /\ left[1].jiffies = k
      /\ f.timers # <<>>
  <2>1. PICK timers : timers = <<[fn |-> fn, jiffies |-> j]>> /\ timers = f.timers
    OBVIOUS
  <2>2. left = Ticked(timers)
    BY <1>1, <2>1
  <2>3. /\ timers # <<>> /\ Tail(timers) = <<>>
        /\ left = <<[fn |-> fn, jiffies |-> k]>> /\ left \in Seq(Timer)
        /\ left[1].jiffies = k /\ left[1].fn = fn
    BY <2>1, <2>2, TimerCounts
  <2> QED
    BY <2>1, <2>3, Zenon
<1>3. ~(left[1].jiffies <= 0)
  BY <1>2
<1>4. t = [f EXCEPT !.timers = left]
  BY <1>1, <1>2, <1>3 DEF TimerDue
<1>5. t \in Driver /\ t.timers = left
  BY <1>2, <1>4 DEF Driver
<1>6. /\ t.queue = f.queue /\ t.current_drive = f.current_drive /\ t.current_track = f.current_track
      /\ t.seek_track = f.seek_track /\ t.seek = f.seek /\ t.selected = f.selected
      /\ t.op = f.op /\ t.pos = f.pos /\ SameMotors(f, t)
  BY <1>4 DEF Driver, SameMotors
<1> QED
  BY <1>2, <1>5, <1>6

LEMMA TimerRuns ==
  ASSUME NEW f \in Driver, NEW fn \in Link, f.timers = <<[fn |-> fn, jiffies |-> 1]>>,
         NEW sent, NEW t, TimerDue(f, sent, t)
  PROVE  \E s \in Driver :
           /\ s.timers = <<>>
           /\ s.queue = f.queue /\ s.current_drive = f.current_drive /\ s.current_track = f.current_track
           /\ s.seek_track = f.seek_track /\ s.seek = f.seek /\ s.selected = f.selected
           /\ s.op = f.op /\ s.pos = f.pos /\ SameMotors(f, s)
           /\ t = IF fn = "transfer" THEN Floppies!transfer(s, sent) ELSE Floppies!floppy_on_interrupt(s, sent)
<1>1. PICK left : left = Ticked(f.timers)
  OBVIOUS
<1>2. left[1].jiffies <= 0 /\ left[1].fn = fn /\ f.timers # <<>> /\ Tail(f.timers) = <<>>
  <2>1. PICK j, k \in Int : j = 1 /\ k = 0 /\ k = j - 1
    OBVIOUS
  <2>2. left[1].jiffies = k /\ left[1].fn = fn /\ f.timers # <<>> /\ Tail(f.timers) = <<>>
    BY <1>1, <2>1, TimerCounts
  <2> QED
    BY <2>1, <2>2
<1>3. PICK timers \in Seq(Timer) : timers = <<>>
  <2>1. <<>> \in Seq(Timer)
    OBVIOUS
  <2> QED
    BY <2>1, Zenon
<1>4. PICK s : s = [f EXCEPT !.timers = timers]
  OBVIOUS
<1>5. t = IF fn = "transfer" THEN Floppies!transfer(s, sent) ELSE Floppies!floppy_on_interrupt(s, sent)
  BY <1>1, <1>2, <1>3, <1>4 DEF TimerDue
<1>6. s \in Driver /\ s.timers = <<>>
  BY <1>3, <1>4 DEF Driver
<1>7. /\ s.queue = f.queue /\ s.current_drive = f.current_drive /\ s.current_track = f.current_track
      /\ s.seek_track = f.seek_track /\ s.seek = f.seek /\ s.selected = f.selected
      /\ s.op = f.op /\ s.pos = f.pos /\ SameMotors(f, s)
  BY <1>4 DEF Driver, SameMotors
<1> QED
  BY <1>5, <1>6, <1>7

(* A tick while the driver is idle or the controller recovers.             *)
LEMMA TickAtRest ==
  ASSUME NEW t \in Driver, Selects(t), Idles(t) \/ Recovers(t),
         NEW u, u = IF t.dor.motors # {} THEN Floppies!do_floppy_timer(t) ELSE t
  PROVE  Chained(u)
<1>1. u \in Driver /\ SameChain(t, u) /\ u.dor.drive = t.dor.drive
  BY MotorsTick
<1> QED
  BY <1>1, ChainKept DEF Chained, Phase

(* A tick while the controller works on the request.                       *)
LEMMA TickAtWork ==
  ASSUME NEW t \in Driver, t.selected, Selects(t), t.timers = <<>>, Moves(t) \/ Transfers(t), Running(t),
         NEW m \in Nat, m = t.mon[t.current_drive], m <= 2,
         NEW o \in Nat, o = t.moff[t.current_drive], m > 0 \/ o > 0,
         NEW u, u = IF t.dor.motors # {} THEN Floppies!do_floppy_timer(t) ELSE t
  PROVE  Chained(u)
<1>1. /\ u \in Driver /\ SameChain(t, u) /\ u.dor.drive = t.dor.drive /\ Running(u)
      /\ m > 0 => u.mon[u.current_drive] = m - 1
      /\ m = 0 => u.mon[u.current_drive] = 0
  BY MotorKept
<1>2. u.mon[u.current_drive] <= 1
  <2>1. CASE m > 0
    BY <1>1, <2>1
  <2>2. CASE m = 0
    BY <1>1, <2>2
  <2> QED
    BY <2>1, <2>2
<1>3. Ready(u) /\ u.timers = <<>>
  BY <1>1, <1>2 DEF Ready, SameChain
<1>4. Asked(t)
  BY DEF Selects
<1>5. Works(u) /\ Selects(u)
  BY <1>1, <1>3, <1>4, ChainKept DEF Works
<1> QED
  BY <1>1, <1>5 DEF Chained, Phase

(* A tick while the motor gets to its speed.                               *)
LEMMA TickSpinning ==
  ASSUME NEW f \in Driver, Selects(f), NEW j \in Nat \ {0}, Spins(f, j),
         NEW sent \in BOOLEAN, NEW t, TimerDue(f, sent, t),
         NEW u, u = IF t.dor.motors # {} THEN Floppies!do_floppy_timer(t) ELSE t
  PROVE  Chained(u)
<1>1. /\ f.op.kind = "none" /\ f.timers = <<[fn |-> "floppy_on_interrupt", jiffies |-> j]>>
      /\ Aimed(f) /\ Running(f)
  BY DEF Spins
<1>2. PICK m, o \in Nat : /\ m = f.mon[f.current_drive] /\ m >= j /\ m <= j + 1
                          /\ o = f.moff[f.current_drive] /\ o >= 2
  BY DEF Spins, Driver
<1>3. CASE j > 1
  <2>1. PICK k \in Int : k = j - 1
    OBVIOUS
  <2>2. /\ t \in Driver /\ t.timers = <<[fn |-> "floppy_on_interrupt", jiffies |-> k]>>
        /\ t.queue = f.queue /\ t.current_drive = f.current_drive /\ t.current_track = f.current_track
        /\ t.seek_track = f.seek_track /\ t.seek = f.seek /\ t.selected = f.selected
        /\ t.op = f.op /\ t.pos = f.pos /\ SameMotors(f, t)
    BY <1>1, <1>3, <2>1, TimerWaits DEF Link
  <2>3. Aimed(t) /\ Running(t) /\ Selects(t)
    BY <1>1, <2>2 DEF Aimed, Asked, OnTrack, Running, Selects, SameMotors, Floppies!Current
  <2>4. m = t.mon[t.current_drive] /\ o = t.moff[t.current_drive] /\ m > 0
    BY <1>2, <1>3, <2>2 DEF SameMotors
  <2>5. /\ u \in Driver /\ SameChain(t, u) /\ u.dor.drive = t.dor.drive /\ Running(u)
        /\ u.mon[u.current_drive] = m - 1 /\ u.moff[u.current_drive] = o
    BY <2>2, <2>3, <2>4, MotorKept
  <2>6. Aimed(u) /\ Selects(u)
    BY <2>3, <2>5, ChainKept
  <2>7. u.op.kind = "none" /\ u.timers = <<[fn |-> "floppy_on_interrupt", jiffies |-> k]>>
    BY <1>1, <2>2, <2>5 DEF SameChain
  <2>8. u.mon[u.current_drive] >= k /\ u.mon[u.current_drive] <= k + 1 /\ k \in Nat \ {0}
    BY <1>2, <1>3, <2>1, <2>5
  <2> QED
    BY <1>2, <2>5, <2>6, <2>7, <2>8 DEF Chained, Phase, Spins
<1>4. CASE j = 1
  <2>1. PICK s \in Driver :
           /\ s.timers = <<>>
           /\ s.queue = f.queue /\ s.current_drive = f.current_drive /\ s.current_track = f.current_track
           /\ s.seek_track = f.seek_track /\ s.seek = f.seek /\ s.selected = f.selected
           /\ s.op = f.op /\ s.pos = f.pos /\ SameMotors(f, s)
           /\ t = Floppies!floppy_on_interrupt(s, sent)
    <3>1. f.timers = <<[fn |-> "floppy_on_interrupt", jiffies |-> 1]>> /\ "floppy_on_interrupt" # "transfer"
      BY <1>1, <1>4
    <3> QED
      BY <3>1, TimerRuns DEF Link
  <2>2. Aimed(s) /\ Running(s)
    BY <1>1, <2>1 DEF Aimed, Asked, OnTrack, Running, SameMotors, Floppies!Current
  <2>3. /\ t \in Driver /\ t.queue = s.queue /\ t.current_drive = s.current_drive /\ t.selected
        /\ t.dor.drive = s.current_drive /\ t.dor.motors = s.dor.motors
        /\ t.mon = s.mon /\ t.moff = s.moff /\ t.change = s.change
        /\ \/ t.timers = <<>> /\ (Moves(t) \/ Transfers(t) \/ Resets(t))
           \/ t.timers = <<[fn |-> "transfer", jiffies |-> 2]>> /\ t.op = s.op /\ Aimed(t)
    BY <2>1, <2>2, DriveSelected
  <2>4. Selects(t) /\ Running(t)
    BY <2>2, <2>3 DEF Selects, Aimed, Asked, Running, Floppies!Current
  <2>5. m = t.mon[t.current_drive] /\ o = t.moff[t.current_drive] /\ m > 0 /\ m <= 2 /\ o >= 2
    BY <1>2, <1>4, <2>1, <2>3 DEF SameMotors
  <2>6. CASE t.timers = <<>> /\ (Moves(t) \/ Transfers(t))
    BY <2>3, <2>4, <2>5, <2>6, TickAtWork
  <2>7. CASE t.timers = <<>> /\ Resets(t)
    BY <2>3, <2>4, <2>7, TickAtRest DEF Recovers
  <2>8. CASE t.timers = <<[fn |-> "transfer", jiffies |-> 2]>> /\ t.op = s.op /\ Aimed(t)
    <3>1. /\ u \in Driver /\ SameChain(t, u) /\ u.dor.drive = t.dor.drive /\ Running(u)
          /\ u.mon[u.current_drive] = m - 1 /\ u.moff[u.current_drive] = o
      <4>1. t \in Driver /\ m = t.mon[t.current_drive] /\ o = t.moff[t.current_drive] /\ m > 0
        BY <2>3, <2>5
      <4> QED
        BY <2>4, <4>1, MotorKept
    <3>2. Aimed(u) /\ Selects(u)
      BY <2>4, <2>8, <3>1, ChainKept
    <3>3. u.op.kind = "none" /\ u.timers = <<[fn |-> "transfer", jiffies |-> 2]>> /\ u.selected
      BY <1>1, <2>1, <2>3, <2>8, <3>1 DEF SameChain
    <3>4. u.mon[u.current_drive] <= 1 /\ u.moff[u.current_drive] >= 2 /\ 2 <= 2 /\ 2 \in Nat \ {0}
      BY <2>5, <3>1
    <3>5. Settles(u, 2)
      BY <3>1, <3>2, <3>3, <3>4 DEF Settles, Ready
    <3> QED
      BY <3>1, <3>2, <3>4, <3>5 DEF Chained, Phase
  <2> QED
    BY <2>3, <2>6, <2>7, <2>8
<1> QED
  BY <1>3, <1>4

(* A tick while the drive gets selected.                                   *)
LEMMA TickSettling ==
  ASSUME NEW f \in Driver, Selects(f), NEW j \in Nat \ {0}, Settles(f, j),
         NEW sent \in BOOLEAN, NEW t, TimerDue(f, sent, t),
         NEW u, u = IF t.dor.motors # {} THEN Floppies!do_floppy_timer(t) ELSE t
  PROVE  Chained(u)
<1>1. /\ f.op.kind = "none" /\ f.timers = <<[fn |-> "transfer", jiffies |-> j]>>
      /\ Aimed(f) /\ Running(f) /\ f.selected
  BY DEF Settles, Ready
<1>2. PICK m, o \in Nat : m = f.mon[f.current_drive] /\ m <= 1 /\ o = f.moff[f.current_drive] /\ o >= j
  BY DEF Settles, Ready, Driver
<1>3. CASE j > 1
  <2>1. PICK k \in Int : k = j - 1
    OBVIOUS
  <2>2. /\ t \in Driver /\ t.timers = <<[fn |-> "transfer", jiffies |-> k]>>
        /\ t.queue = f.queue /\ t.current_drive = f.current_drive /\ t.current_track = f.current_track
        /\ t.seek_track = f.seek_track /\ t.seek = f.seek /\ t.selected = f.selected
        /\ t.op = f.op /\ t.pos = f.pos /\ SameMotors(f, t)
    <3>1. PICK fn \in Link : fn = "transfer"
      BY DEF Link
    <3>2. f.timers = <<[fn |-> fn, jiffies |-> j]>> /\ j \in Int
      BY <1>1, <3>1
    <3>3. /\ t \in Driver /\ t.timers = <<[fn |-> fn, jiffies |-> k]>>
          /\ t.queue = f.queue /\ t.current_drive = f.current_drive /\ t.current_track = f.current_track
          /\ t.seek_track = f.seek_track /\ t.seek = f.seek /\ t.selected = f.selected
          /\ t.op = f.op /\ t.pos = f.pos /\ SameMotors(f, t)
      BY <1>3, <2>1, <3>2, TimerWaits
    <3> QED
      BY <3>1, <3>3
  <2>3. Aimed(t) /\ Running(t) /\ Selects(t)
    BY <1>1, <2>2 DEF Aimed, Asked, OnTrack, Running, Selects, SameMotors, Floppies!Current
  <2>4. m = t.mon[t.current_drive] /\ o = t.moff[t.current_drive] /\ o > 0
    BY <1>2, <1>3, <2>2 DEF SameMotors
  <2>5. /\ u \in Driver /\ SameChain(t, u) /\ u.dor.drive = t.dor.drive /\ Running(u)
        /\ m > 0 => u.mon[u.current_drive] = m - 1 /\ u.moff[u.current_drive] = o
        /\ m = 0 => u.mon[u.current_drive] = 0 /\ u.moff[u.current_drive] = o - 1
    BY <2>2, <2>3, <2>4, MotorKept
  <2>6. Aimed(u) /\ Selects(u)
    BY <2>3, <2>5, ChainKept
  <2>7. u.op.kind = "none" /\ u.timers = <<[fn |-> "transfer", jiffies |-> k]>> /\ u.selected
    BY <1>1, <2>2, <2>5 DEF SameChain
  <2>8. u.mon[u.current_drive] <= 1 /\ u.moff[u.current_drive] >= k
    <3>1. CASE m > 0
      BY <1>2, <2>1, <2>5, <3>1
    <3>2. CASE m = 0
      BY <1>2, <2>1, <2>5, <3>2
    <3> QED
      BY <3>1, <3>2
  <2>9. k <= 2 /\ k \in Nat \ {0}
    BY <1>3, <2>1 DEF Settles
  <2> QED
    BY <2>5, <2>6, <2>7, <2>8, <2>9 DEF Chained, Phase, Settles, Ready
<1>4. CASE j = 1
  <2>1. PICK s \in Driver :
           /\ s.timers = <<>>
           /\ s.queue = f.queue /\ s.current_drive = f.current_drive /\ s.current_track = f.current_track
           /\ s.seek_track = f.seek_track /\ s.seek = f.seek /\ s.selected = f.selected
           /\ s.op = f.op /\ s.pos = f.pos /\ SameMotors(f, s)
           /\ t = Floppies!transfer(s, sent)
    <3>1. f.timers = <<[fn |-> "transfer", jiffies |-> 1]>>
      BY <1>1, <1>4
    <3> QED
      BY <3>1, TimerRuns DEF Link
  <2>2. Aimed(s) /\ Running(s) /\ Selects(s)
    BY <1>1, <2>1 DEF Aimed, Asked, OnTrack, Running, Selects, SameMotors, Floppies!Current
  <2>3. t \in Driver /\ SameRequest(s, t) /\ (Moves(t) \/ Transfers(t) \/ Resets(t))
    BY <2>1, <2>2, TransferStarts
  <2>4. Selects(t) /\ Running(t) /\ t.timers = <<>> /\ t.selected
    BY <1>1, <2>1, <2>2, <2>3, SelectsKept DEF SameRequest, SameMotors, Running
  <2>5. m = t.mon[t.current_drive] /\ o = t.moff[t.current_drive] /\ m <= 2 /\ o > 0
    BY <1>2, <1>4, <2>1, <2>3 DEF SameRequest, SameMotors
  <2>6. CASE Moves(t) \/ Transfers(t)
    BY <2>3, <2>4, <2>5, <2>6, TickAtWork
  <2>7. CASE Resets(t)
    BY <2>3, <2>4, <2>7, TickAtRest DEF Recovers
  <2> QED
    BY <2>3, <2>6, <2>7
<1> QED
  BY <1>3, <1>4

(* do_timer().                                                             *)
LEMMA ClockTicks ==
  ASSUME Chained(floppy), NEW sent \in BOOLEAN, Floppies!do_timer(sent)
  PROVE  Chained(floppy')
<1>1. PICK f \in Driver : f = floppy
  BY DEF Chained
<1>2. Selects(f) /\ Phase(f)
  BY <1>1 DEF Chained
<1>3. PICK u : u = floppy'
  OBVIOUS
<1>4. PICK t : TimerDue(f, sent, t) /\ u = IF t.dor.motors # {} THEN Floppies!do_floppy_timer(t) ELSE t
  BY <1>1, <1>3 DEF Floppies!do_timer, TimerDue, Ticked
<1>5. f.op.kind # "none" => f.moff[f.op.drive] > 0
  BY <1>1 DEF Floppies!do_timer, Floppies!InTime
<1>6. CASE Idles(f) \/ Recovers(f)
  <2>1. t = f
    BY <1>4, <1>6, NoTimer DEF Idles, Recovers
  <2> QED
    BY <1>2, <1>3, <1>4, <1>6, <2>1, TickAtRest
<1>7. CASE Works(f)
  <2>1. t = f /\ f.timers = <<>>
    BY <1>4, <1>7, NoTimer DEF Works
  <2>2. /\ f.selected /\ Running(f) /\ (Moves(f) \/ Transfers(f))
        /\ f.op.drive = f.current_drive /\ f.op.kind # "none" /\ f.mon[f.current_drive] <= 1
    BY <1>7 DEF Works, Ready, Moves, Transfers
  <2>3. PICK m, o \in Nat : m = f.mon[f.current_drive] /\ m <= 2 /\ o = f.moff[f.current_drive] /\ o > 0
    <3>1. f.mon[f.current_drive] \in Nat /\ f.moff[f.current_drive] \in Nat
      BY DEF Driver
    <3> QED
      BY <1>5, <2>2, <3>1
  <2> QED
    BY <1>2, <1>3, <1>4, <2>1, <2>2, <2>3, TickAtWork
<1>8. CASE \E j \in Nat \ {0} : Spins(f, j) \/ Settles(f, j)
  <2>1. PICK j \in Nat \ {0} : Spins(f, j) \/ Settles(f, j)
    BY <1>8
  <2> QED
    BY <1>2, <1>3, <1>4, <2>1, TickSpinning, TickSettling
<1> QED
  BY <1>2, <1>6, <1>7, <1>8 DEF Phase

-----------------------------------------------------------------------------
(* Tasks of the floppy driver *)

(* What floppy_change() does to the motors leaves the chain its own: the   *)
(* selected drive stays, a motor gets two ticks at least, and is not       *)
(* stopped before two ticks.                                               *)
LEMMA MotorsShared ==
  ASSUME NEW s, Chained(s), NEW t \in Driver, SameChain(s, t),
         s.dor.motors \subseteq t.dor.motors, s.selected => t.dor.drive = s.dor.drive,
         Running(s) => \/ t.mon[s.current_drive] = s.mon[s.current_drive]
                       \/ ~s.selected /\ t.mon[s.current_drive] = 2 /\ s.mon[s.current_drive] < 2,
         t.moff[s.current_drive] = s.moff[s.current_drive] \/ t.moff[s.current_drive] >= 2
  PROVE  Chained(t)
<1>1. s \in Driver /\ Selects(s) /\ Phase(s)
  BY DEF Chained
<1>2. t.current_drive = s.current_drive /\ t.selected = s.selected /\ (Running(s) => Running(t))
  BY DEF SameChain, Running
<1>3. Selects(t)
  BY <1>1, ChainKept DEF Selects, SameChain
<1>4. PICK m, n, o, p \in Nat : /\ m = s.mon[s.current_drive] /\ n = t.mon[s.current_drive]
                                /\ o = s.moff[s.current_drive] /\ p = t.moff[s.current_drive]
  BY <1>1 DEF Driver
<1>5. (Running(s) => n = m \/ (~s.selected /\ n = 2 /\ m < 2)) /\ (p = o \/ p >= 2)
  BY <1>4
<1>6. CASE Idles(s) \/ Recovers(s)
  BY <1>3, <1>6, ChainKept DEF Chained, Phase
<1>7. CASE Works(s)
  <2>1. Ready(t)
    BY <1>2, <1>4, <1>5, <1>7 DEF Works, Ready
  <2> QED
    BY <1>3, <1>7, <2>1, ChainKept DEF Chained, Phase, Works, SameChain
<1>8. ASSUME NEW j \in Nat \ {0}, Spins(s, j)
      PROVE  Chained(t)
  <2>1. Running(s) /\ m >= j /\ m <= j + 1 /\ o >= 2
    BY <1>4, <1>8 DEF Spins
  <2>2. n >= j /\ n <= j + 1 /\ p >= 2
    BY <1>5, <2>1
  <2>3. t.op.kind = "none" /\ t.timers = <<[fn |-> "floppy_on_interrupt", jiffies |-> j]>> /\ Aimed(t)
    BY <1>8, ChainKept DEF Spins, SameChain
  <2>4. Spins(t, j)
    BY <1>2, <1>4, <2>1, <2>2, <2>3 DEF Spins
  <2> QED
    BY <1>3, <2>4 DEF Chained, Phase
<1>9. ASSUME NEW j \in Nat \ {0}, Settles(s, j)
      PROVE  Chained(t)
  <2>1. Running(s) /\ s.selected /\ m <= 1 /\ j <= 2 /\ o >= j
    BY <1>4, <1>9 DEF Settles, Ready
  <2>2. n <= 1 /\ p >= j
    BY <1>5, <2>1
  <2>3. t.op.kind = "none" /\ t.timers = <<[fn |-> "transfer", jiffies |-> j]>> /\ Aimed(t)
    BY <1>9, ChainKept DEF Settles, SameChain
  <2>4. Settles(t, j)
    BY <1>2, <1>4, <2>1, <2>2, <2>3 DEF Settles, Ready
  <2> QED
    BY <1>3, <2>4 DEF Chained, Phase
<1> QED
  BY <1>1, <1>6, <1>7, <1>8, <1>9 DEF Phase

LEMMA TicksKeepChain ==
  ASSUME NEW s, Chained(s), NEW nr \in Drive, NEW t, t = Floppies!ticks_to_floppy_on(s, nr)
  PROVE  Chained(t) /\ t.change = s.change
<1>1. s \in Driver /\ s.current_drive \in Drive
  BY DEF Chained, Driver
<1>2. TurnsOn(s, nr, t)
  BY <1>1, TicksOn
<1>3. Running(s) => \/ t.mon[s.current_drive] = s.mon[s.current_drive]
                    \/ ~s.selected /\ t.mon[s.current_drive] = 2 /\ s.mon[s.current_drive] < 2
  <2>1. CASE s.current_drive # nr
    <3>1. \A d \in Drive : d # nr => t.mon[d] = s.mon[d]
      BY <1>2 DEF TurnsOn
    <3> QED
      BY <1>1, <2>1, <3>1
  <2>2. CASE s.current_drive = nr
    <3> SUFFICES ASSUME nr \in s.dor.motors
                 PROVE  \/ t.mon[nr] = s.mon[nr]
                        \/ ~s.selected /\ t.mon[nr] = 2 /\ s.mon[nr] < 2
      BY <2>2 DEF Running
    <3>1. t.mon[nr] = IF s.mon[nr] < 2 /\ ~s.selected /\ s.dor.drive # nr THEN 2 ELSE s.mon[nr]
      BY <1>2 DEF TurnsOn
    <3> QED
      BY <3>1
  <2> QED
    BY <2>1, <2>2
<1>4. t.moff[s.current_drive] = s.moff[s.current_drive] \/ t.moff[s.current_drive] >= 2
  <2>1. t.moff[nr] = KEEP /\ KEEP >= 2 /\ \A d \in Drive : d # nr => t.moff[d] = s.moff[d]
    BY <1>2, FloppyNumbers DEF TurnsOn
  <2> QED
    BY <1>1, <2>1
<1>5. /\ s.dor.motors \subseteq t.dor.motors /\ (s.selected => t.dor.drive = s.dor.drive)
      /\ t \in Driver /\ SameChain(s, t) /\ t.change = s.change
  BY <1>2 DEF TurnsOn
<1> QED
  BY <1>3, <1>4, <1>5, MotorsShared

LEMMA OffKeepsChain ==
  ASSUME NEW s, Chained(s), NEW nr \in Drive, NEW t, t = Floppies!floppy_off(s, nr)
  PROVE  Chained(t)
<1>1. s \in Driver /\ s.current_drive \in Drive
  BY DEF Chained, Driver
<1>2. TurnsOff(s, nr, t)
  BY <1>1, MotorOff
<1>3. t.moff[s.current_drive] = s.moff[s.current_drive] \/ t.moff[s.current_drive] >= 2
  <2>1. t.moff[nr] = OFF /\ OFF >= 2 /\ \A d \in Drive : d # nr => t.moff[d] = s.moff[d]
    BY <1>2, FloppyNumbers DEF TurnsOff
  <2> QED
    BY <1>1, <2>1
<1>4. t \in Driver /\ SameChain(s, t) /\ t.dor = s.dor /\ t.mon = s.mon
  BY <1>2 DEF TurnsOff
<1> QED
  BY <1>3, <1>4, MotorsShared

LEMMA ChangeKeepsChain ==
  ASSUME NEW s, Chained(s), NEW change \in [nr : Drive, pc : Waiting], NEW t, t = [s EXCEPT !.change = change]
  PROVE  Chained(t) /\ t.change = change
<1>1. s \in Driver
  BY DEF Chained
<1>2. t \in Driver /\ t.change = change /\ t.dor = s.dor /\ t.mon = s.mon /\ t.moff = s.moff
  BY <1>1 DEF Driver
<1>3. SameChain(s, t)
  BY <1>1 DEF Driver, SameChain
<1> QED
  BY <1>2, <1>3, MotorsShared

LEMMA PlaceKeepsChain ==
  ASSUME NEW s, Chained(s), NEW pc \in Waiting, NEW t, t = Floppies!At(s, pc)
  PROVE  Chained(t)
<1>1. s.change \in [nr : Drive, pc : Waiting] /\ s \in Driver
  BY DEF Chained, Driver
<1>2. PICK change \in [nr : Drive, pc : Waiting] : change = [s.change EXCEPT !.pc = pc]
  BY <1>1
<1>3. t = [s EXCEPT !.change = change]
  BY <1>1, <1>2 DEF Floppies!At, Driver
<1> QED
  BY <1>3, ChangeKeepsChain

LEMMA ReadKeepsChain ==
  ASSUME NEW s, Chained(s), NEW t, t = Floppies!Read(s)
  PROVE  Chained(t)
<1>1. s.change.nr \in Drive
  BY DEF Chained, Driver
<1>2. PICK a : a = Floppies!floppy_off(s, s.change.nr)
  OBVIOUS
<1>3. Chained(a)
  BY <1>1, <1>2, OffKeepsChain
<1>4. t = Floppies!At(a, "out") /\ "out" \in Waiting
  BY <1>2 DEF Floppies!Read, Waiting
<1> QED
  BY <1>3, <1>4, PlaceKeepsChain

LEMMA OnKeepsChain ==
  ASSUME NEW s, Chained(s), NEW t, t = Floppies!FloppyOn(s)
  PROVE  Chained(t)
<1>1. s.change.nr \in Drive
  BY DEF Chained, Driver
<1>2. PICK a : a = Floppies!ticks_to_floppy_on(s, s.change.nr)
  OBVIOUS
<1>3. Chained(a)
  BY <1>1, <1>2, TicksKeepChain
<1>4. t = Floppies!At(a, "motor") \/ t = Floppies!At(a, "select") \/ t = Floppies!Read(a)
  BY <1>2 DEF Floppies!FloppyOn
<1>5. "motor" \in Waiting /\ "select" \in Waiting
  BY DEF Waiting
<1> QED
  BY <1>3, <1>4, <1>5, PlaceKeepsChain, ReadKeepsChain

(* floppy_change().                                                        *)
LEMMA FloppyChanges ==
  ASSUME Chained(floppy), Floppies!floppy_change
  PROVE  Chained(floppy')
<1>1. PICK f : f = floppy
  OBVIOUS
<1>2. PICK u : u = floppy'
  OBVIOUS
<1>3. \/ \E nr \in Drive : u = Floppies!FloppyOn([f EXCEPT !.change.nr = nr])
      \/ u = Floppies!FloppyOn(f) \/ u = Floppies!Read(f) \/ u = Floppies!At(f, "select")
  BY <1>1, <1>2 DEF Floppies!floppy_change
<1>4. Chained(f) /\ "select" \in Waiting
  BY <1>1 DEF Waiting
<1>5. ASSUME NEW nr \in Drive, u = Floppies!FloppyOn([f EXCEPT !.change.nr = nr])
      PROVE  Chained(u)
  <2>1. f.change \in [nr : Drive, pc : Waiting] /\ f \in Driver
    BY <1>4 DEF Chained, Driver
  <2>2. PICK change \in [nr : Drive, pc : Waiting] : change = [f.change EXCEPT !.nr = nr]
    BY <2>1
  <2>3. PICK a : a = [f EXCEPT !.change = change]
    OBVIOUS
  <2>4. Chained(a)
    BY <1>4, <2>3, ChangeKeepsChain
  <2>5. u = Floppies!FloppyOn(a)
    BY <1>5, <2>1, <2>2, <2>3 DEF Driver
  <2> QED
    BY <2>4, <2>5, OnKeepsChain
<1> QED
  BY <1>2, <1>3, <1>4, <1>5, OnKeepsChain, ReadKeepsChain, PlaceKeepsChain

(* add_request(): one that finds the queue empty finds the driver idle.    *)
LEMMA RequestAdded ==
  ASSUME Overlap = FALSE, Chained(floppy), NEW sent \in BOOLEAN, Floppies!add_request(sent)
  PROVE  Chained(floppy')
<1>1. PICK f \in Driver : f = floppy
  BY DEF Chained
<1>2. Selects(f) /\ Phase(f)
  BY <1>1 DEF Chained
<1>3. PICK u : u = floppy'
  OBVIOUS
<1>4. PICK d \in Drive, tr \in Track \cup {-2} :
        LET s == [f EXCEPT !.queue = Append(@, [drive |-> d, track |-> tr, errors |-> 0])]
        IN  u = IF f.queue = <<>> THEN Floppies!do_fd_request(s, sent) ELSE s
  BY <1>1, <1>3 DEF Floppies!add_request
<1>5. PICK request \in Request : request = [drive |-> d, track |-> tr, errors |-> 0]
  <2>1. tr \in Int
    BY FloppyNumbers
  <2>2. [drive |-> d, track |-> tr, errors |-> 0] \in Request
    BY <2>1 DEF Request
  <2> QED
    BY <2>2
<1>6. f.queue \in Seq(Request)
  BY DEF Driver
<1>7. PICK queue \in Seq(Request) : queue = Append(f.queue, request)
  <2>1. Append(f.queue, request) \in Seq(Request)
    BY <1>6
  <2> QED
    BY <2>1, Zenon
<1>8. queue # <<>> /\ (f.queue # <<>> => Head(queue) = Head(f.queue))
  BY <1>6, <1>7
<1>9. PICK s : s = [f EXCEPT !.queue = queue]
  OBVIOUS
<1>10. u = IF f.queue = <<>> THEN Floppies!do_fd_request(s, sent) ELSE s
  BY <1>4, <1>5, <1>7, <1>9 DEF Driver
<1>11. s \in Driver /\ s.queue = queue
  BY <1>9 DEF Driver
<1>12. SameHead(f, s) /\ s.selected = f.selected /\ s.mon = f.mon /\ s.moff = f.moff
  BY <1>9 DEF Driver, SameHead
<1>13. CASE f.queue = <<>>
  <2>1. f.op.kind = "none" /\ f.timers = <<>>
    BY <1>1, <1>13 DEF Floppies!add_request, Floppies!Quiet
  <2>2. Idles(f)
    BY <1>2, <1>13, <2>1 DEF Phase, Works, Asked, Recovers, Recalibrates, Resets, Spins, Settles, Aimed
  <2>3. Between(s) /\ Sure(s)
    BY <1>2, <1>11, <1>12, <1>13, <2>1, <2>2 DEF Between, Sure, Known, Idles, SameHead, Selects, Asked
  <2> QED
    BY <1>3, <1>10, <1>13, <2>3, ChainGoesOn DEF Chained
<1>14. CASE f.queue # <<>>
  <2>1. Floppies!Current(s) = Floppies!Current(f) /\ s.queue # <<>>
    BY <1>8, <1>11, <1>14 DEF Floppies!Current
  <2>2. /\ Asked(f) => Asked(s)
        /\ Aimed(f) => Aimed(s)
        /\ Moves(f) => Moves(s)
        /\ Transfers(f) => Transfers(s)
        /\ Recovers(f) => Recovers(s)
        /\ Ready(f) => Ready(s)
        /\ Running(f) => Running(s)
    BY <1>12, <2>1 DEF SameHead, Asked, Aimed, OnTrack, Moves, Transfers, Recovers, Recalibrates, Resets, Ready, Running
  <2>3. Selects(s)
    BY <1>2, <1>12, <2>2 DEF Selects, SameHead
  <2>4. Works(f) => Works(s)
    BY <1>12, <2>2 DEF Works, SameHead
  <2>5. ASSUME NEW j \in Nat \ {0}
        PROVE  (Spins(f, j) => Spins(s, j)) /\ (Settles(f, j) => Settles(s, j))
    BY <1>12, <2>2 DEF Spins, Settles, SameHead
  <2>6. ~Idles(f)
    BY <1>14 DEF Idles
  <2>7. Phase(s)
    BY <1>2, <2>2, <2>4, <2>5, <2>6 DEF Phase
  <2> QED
    BY <1>3, <1>10, <1>11, <1>14, <2>3, <2>7 DEF Chained
<1> QED
  BY <1>13, <1>14

-----------------------------------------------------------------------------
(* The chain is right *)

LEMMA ChainRight ==
  ASSUME Chained(floppy)
  PROVE  Floppies!OneChain /\ Floppies!TransferRight
<1>1. PICK f \in Driver : f = floppy /\ Selects(f) /\ Phase(f)
  BY DEF Chained
<1> DEFINE links(s) == Len(s.timers) + IF s.op.kind = "none" THEN 0 ELSE 1
<1>2. links(f) <= 1 /\ (f.queue # <<>> => links(f) = 1)
  <2>1. CASE Idles(f)
    BY <2>1 DEF Idles
  <2>2. CASE Works(f) \/ Recovers(f)
    <3>1. f.timers = <<>> /\ f.op.kind # "none"
      BY <2>2 DEF Works, Moves, Transfers, Recovers, Recalibrates, Resets
    <3> QED
      BY <3>1
  <2>3. ASSUME NEW j \in Nat \ {0}, Spins(f, j) \/ Settles(f, j)
        PROVE  links(f) = 1
    <3>1. PICK timer : f.timers = <<timer>> /\ f.op.kind = "none"
      BY <2>3 DEF Spins, Settles
    <3> QED
      BY <3>1
  <2> HIDE DEF links
  <2>4. 1 <= 1
    OBVIOUS
  <2> QED
    BY <1>1, <2>1, <2>2, <2>3, <2>4 DEF Phase
<1>3. f.op.kind = "rw" =>
        /\ f.op.drive = Head(f.queue).drive
        /\ f.pos[f.op.drive] = Head(f.queue).track
        /\ f.dor.drive = f.op.drive
        /\ f.op.drive \in f.dor.motors /\ f.mon[f.op.drive] <= 1
  <2> SUFFICES ASSUME f.op.kind = "rw"
               PROVE  /\ f.op.drive = Head(f.queue).drive
                      /\ f.pos[f.op.drive] = Head(f.queue).track
                      /\ f.dor.drive = f.op.drive
                      /\ f.op.drive \in f.dor.motors /\ f.mon[f.op.drive] <= 1
    OBVIOUS
  <2>1. Works(f) /\ Transfers(f)
    BY <1>1 DEF Phase, Idles, Works, Moves, Recovers, Recalibrates, Resets, Spins, Settles
  <2>2. f.op.drive = f.current_drive /\ OnTrack(f) /\ Asked(f) /\ Ready(f)
    BY <2>1 DEF Works, Transfers
  <2>3. f.dor.drive = f.current_drive
    BY <1>1, <2>2 DEF Selects, Ready
  <2> QED
    BY <2>2, <2>3 DEF OnTrack, Asked, Ready, Running, Floppies!Current
<1>4. Floppies!OneChain
  BY <1>1, <1>2 DEF Floppies!OneChain, Floppies!Links
<1> QED
  BY <1>1, <1>3, <1>4 DEF Floppies!TransferRight

LEMMA FloppyInit ==
  ASSUME Floppies!Init
  PROVE  Chained(floppy)
<1>1. PICK p \in [Drive -> Track] : floppy = [Floppies!Idle EXCEPT !.pos = p]
  BY DEF Floppies!Init
<1>2. p \in [Drive -> Int]
  <2>1. \A x \in Track : x \in Int
    BY FloppyNumbers
  <2>2. \A d \in Drive : p[d] \in Int
    BY <2>1
  <2> QED
    BY <2>2
<1>3. PICK f : f = floppy
  OBVIOUS
<1>4. PICK dor \in Selection : dor = [drive |-> 0, motors |-> {}]
  <2>1. [drive |-> 0, motors |-> {}] \in Selection
    BY FloppyNumbers DEF Selection
  <2> QED
    BY <2>1
<1>5. PICK op \in Command : op = Floppies!NoOp /\ op.kind = "none"
  <2>1. PICK kind \in Handler, drive \in Drive, track \in Int : kind = "none" /\ drive = 0 /\ track = 0
    BY FloppyNumbers DEF Handler
  <2>2. PICK op \in Command : op = [kind |-> kind, drive |-> drive, track |-> track] /\ op.kind = kind
    BY OneCommand
  <2>3. op = Floppies!NoOp
    BY <2>1, <2>2 DEF Floppies!NoOp
  <2> QED
    BY <2>1, <2>2, <2>3
<1>6. PICK change \in [nr : Drive, pc : Waiting] : change = [nr |-> 0, pc |-> "out"]
  <2>1. [nr |-> 0, pc |-> "out"] \in [nr : Drive, pc : Waiting]
    BY FloppyNumbers DEF Waiting
  <2> QED
    BY <2>1
<1>7. PICK zero \in [Drive -> Nat] : zero = [d \in Drive |-> 0]
  <2>1. [d \in Drive |-> 0] \in [Drive -> Nat]
    OBVIOUS
  <2> QED
    BY <2>1
<1>8. PICK handler \in Handler : handler = "none"
  BY DEF Handler
<1>9. PICK track \in Int : track = Floppies!Unknown
  BY DEF Floppies!Unknown
<1>10. PICK drive \in Drive, place \in Int : drive = 0 /\ place = 0
  BY FloppyNumbers
<1>11. PICK queue \in Seq(Request) : queue = <<>>
  <2>1. <<>> \in Seq(Request)
    OBVIOUS
  <2> QED
    BY <2>1, Zenon
<1>12. PICK timers \in Seq(Timer) : timers = <<>>
  <2>1. <<>> \in Seq(Timer)
    OBVIOUS
  <2> QED
    BY <2>1, Zenon
<1>13. f = [queue |-> queue, reset |-> FALSE, recalibrate |-> FALSE, seek |-> FALSE,
            current_drive |-> drive, current_track |-> track, seek_track |-> place,
            do_floppy |-> handler, selected |-> FALSE, dor |-> dor,
            mon |-> zero, moff |-> zero, timers |-> timers,
            op |-> op, pos |-> p, change |-> change]
  BY <1>1, <1>3, <1>4, <1>5, <1>6, <1>7, <1>8, <1>9, <1>10, <1>11, <1>12 DEF Floppies!Idle
<1>14. /\ f \in Driver /\ f.op = op /\ f.timers = timers /\ f.queue = queue
       /\ f.current_track = track /\ ~f.selected
  BY <1>2, <1>13 DEF Driver
<1>15. Idles(f) /\ Selects(f)
  BY <1>5, <1>9, <1>11, <1>12, <1>14 DEF Idles, Sure, Known, Selects
<1> QED
  BY <1>3, <1>14, <1>15 DEF Chained, Phase

LEMMA FloppyInvariant ==
  ASSUME Overlap = FALSE
  PROVE  Spec => []Chained(floppy)
<1>1. Init => Chained(floppy)
  BY FloppyInit DEF Init
<1>2. Chained(floppy) /\ [Next]_vars => Chained(floppy)'
  <2> SUFFICES ASSUME Chained(floppy), [Next]_vars
               PROVE  Chained(floppy')
    OBVIOUS
  <2>1. CASE FloppyStep
    <3>1. Floppies!Next
      BY <2>1 DEF FloppyStep
    <3>2. CASE Floppies!Interrupt
      BY <3>2, FloppyInterrupts DEF Floppies!Interrupt
    <3>3. CASE Floppies!Tick
      BY <3>3, ClockTicks DEF Floppies!Tick
    <3>4. CASE Floppies!Request
      BY <3>4, RequestAdded DEF Floppies!Request
    <3>5. CASE Floppies!floppy_change
      BY <3>5, FloppyChanges
    <3> QED
      BY <3>1, <3>2, <3>3, <3>4, <3>5 DEF Floppies!Next
  <2>2. CASE UNCHANGED floppy
    BY <2>2
  <2>3. FloppyStep \/ UNCHANGED floppy
    BY DEF Next, PipeStep, ConsoleStep, TerminalStep, SuperStep, vars, floppyVars
  <2> QED
    BY <2>1, <2>2, <2>3
<1> QED
  BY <1>1, <1>2, PTL DEF Spec

(* While a request waits there is exactly one timer or command that goes   *)
(* on with it, and the controller reads or writes on the drive and track   *)
(* of that request with its motor at speed: for any number of drives and   *)
(* tracks, through every error, and whatever floppy_change() does to the   *)
(* motors meanwhile.  A request must not come while the driver resets with *)
(* an empty queue: add_request() would then start a second chain.          *)
THEOREM FloppyChain ==
  ASSUME Overlap = FALSE
  PROVE  Spec => []FloppyRight
<1>1. Chained(floppy) => FloppyRight
  BY ChainRight DEF FloppyRight
<1> QED
  BY <1>1, FloppyInvariant, PTL

-----------------------------------------------------------------------------
(* The queues of a terminal                                               *)

Queue == Seq(Terminals!Key)
EndsOf(q) == {i \in 1 .. Len(q) : q[i] \in {"NL", "EOF"}}

LEMMA EndsSame == \A q \in Queue : Terminals!LineEnds(q) = EndsOf(q)
BY DEF Terminals!LineEnds, Terminals!Ends, EndsOf, Queue

LEMMA EndsAppended ==
  ASSUME NEW q \in Queue, NEW c \in Terminals!Key
  PROVE  /\ Append(q, c) \in Queue
         /\ EndsOf(Append(q, c)) = EndsOf(q) \cup (IF c \in {"NL", "EOF"} THEN {Len(q) + 1} ELSE {})
BY DEF Queue, EndsOf

LEMMA EndsFinite ==
  ASSUME NEW q \in Queue
  PROVE  IsFiniteSet(EndsOf(q)) /\ Cardinality(EndsOf(q)) \in 0 .. Len(q)
<1>1. Len(q) \in Nat /\ EndsOf(q) \subseteq 1 .. Len(q)
  BY DEF Queue, EndsOf
<1>2. IsFiniteSet(1 .. Len(q)) /\ Cardinality(1 .. Len(q)) = Len(q)
  <2>1. \A n \in Nat : IsFiniteSet(1 .. n) /\ Cardinality(1 .. n) = n
    <3> TAKE n \in Nat
    <3>1. IsFiniteSet(1 .. n) /\ Cardinality(1 .. n) = IF 1 > n THEN 0 ELSE n - 1 + 1
      BY FS_Interval
    <3> QED
      BY <3>1
  <2> QED
    BY <1>1, <2>1
<1>3. IsFiniteSet(EndsOf(q)) /\ Cardinality(EndsOf(q)) <= Cardinality(1 .. Len(q))
  BY <1>1, <1>2, FS_Subset
<1>4. Cardinality(EndsOf(q)) \in Nat
  BY <1>3, FS_CardinalityType
<1> HIDE DEF EndsOf
<1> QED
  BY <1>1, <1>2, <1>3, <1>4

(* What is cut off behind the last line end has none.                      *)
LEMMA EndsKept ==
  ASSUME NEW q \in Queue, NEW n \in 0 .. Len(q), \A k \in n + 1 .. Len(q) : q[k] \notin {"NL", "EOF"}
  PROVE  /\ SubSeq(q, 1, n) \in Queue /\ Len(SubSeq(q, 1, n)) = n
         /\ EndsOf(SubSeq(q, 1, n)) = EndsOf(q)
<1>1. Len(q) \in Nat /\ n \in Nat
  BY DEF Queue
<1>2. SubSeq(q, 1, n) \in Queue /\ Len(SubSeq(q, 1, n)) = n
  BY <1>1 DEF Queue
<1>3. \A k \in 1 .. n : SubSeq(q, 1, n)[k] = q[k]
  BY <1>1 DEF Queue
<1>4. \A k : k \in EndsOf(SubSeq(q, 1, n)) <=> k \in EndsOf(q)
  BY <1>1, <1>2, <1>3 DEF EndsOf
<1> QED
  BY <1>2, <1>4

LEMMA EndsTail ==
  ASSUME NEW q \in Queue, q # <<>>
  PROVE  /\ Tail(q) \in Queue /\ Len(Tail(q)) = Len(q) - 1 /\ Len(q) > 0
         /\ Head(q) \in Terminals!Key
         /\ Cardinality(EndsOf(Tail(q))) =
            Cardinality(EndsOf(q)) - (IF Head(q) \in {"NL", "EOF"} THEN 1 ELSE 0)
<1>1. /\ Tail(q) \in Queue /\ Len(Tail(q)) = Len(q) - 1 /\ Len(q) > 0 /\ Len(q) \in Nat
      /\ Head(q) = q[1] /\ Head(q) \in Terminals!Key
      /\ \A i \in 1 .. Len(q) - 1 : Tail(q)[i] = q[i + 1]
  BY DEF Queue
<1> DEFINE S == EndsOf(Tail(q))
           T == EndsOf(q) \ {1}
           f == [i \in S |-> i + 1]
<1>2. \A i \in S : i \in 1 .. Len(q) - 1 /\ i + 1 \in T
  BY <1>1 DEF EndsOf
<1>3. \A j \in T : j - 1 \in S /\ (j - 1) + 1 = j
  BY <1>1 DEF EndsOf
<1>4. f \in [S -> T]
  BY <1>2
<1>5. \A i, j \in S : f[i] = f[j] => i = j
  BY <1>2
<1>6. \A j \in T : \E i \in S : f[i] = j
  BY <1>3
<1>7. f \in Bijection(S, T)
  BY <1>4, <1>5, <1>6, Zenon DEF Bijection, Injection, Surjection, IsInjective
<1>8. IsFiniteSet(S) /\ IsFiniteSet(EndsOf(q)) /\ Cardinality(EndsOf(q)) \in Nat
  BY <1>1, EndsFinite
<1>9. Cardinality(T) = Cardinality(S)
  BY <1>7, <1>8, FS_Bijection DEF ExistsBijection
<1>10. Cardinality(T) = IF 1 \in EndsOf(q) THEN Cardinality(EndsOf(q)) - 1 ELSE Cardinality(EndsOf(q))
  BY <1>8, FS_RemoveElement
<1>11. 1 \in EndsOf(q) <=> Head(q) \in {"NL", "EOF"}
  BY <1>1 DEF EndsOf
<1> HIDE DEF S, T, f
<1>12. Cardinality(S) = Cardinality(EndsOf(q)) - (IF Head(q) \in {"NL", "EOF"} THEN 1 ELSE 0)
  BY <1>8, <1>9, <1>10, <1>11
<1> QED
  BY <1>1, <1>12 DEF S

(* A set of numbers up to n has a greatest.                                *)
LEMMA Greatest ==
  ASSUME NEW n \in Nat, NEW S \in SUBSET (1 .. n), S # {}
  PROVE  \E x \in S : \A y \in S : x >= y
<1> DEFINE D == {d \in Nat : \E x \in S : d = n - x}
<1>1. D # {} /\ D \subseteq Nat
  <2>1. PICK x \in S : TRUE
    OBVIOUS
  <2>2. n - x \in D
    BY <2>1
  <2> QED
    BY <2>2
<1>2. PICK d \in D : \A e \in D : d <= e
  BY <1>1, LeastNatural
<1>3. PICK x \in S : d = n - x
  BY <1>2
<1>4. \A y \in S : x >= y
  BY <1>2, <1>3
<1> QED
  BY <1>4

LEMMA UnfinishedEnd ==
  ASSUME NEW q \in Queue
  PROVE  /\ Terminals!Unfinished(q) \in 0 .. Len(q)
         /\ \A k \in Terminals!Unfinished(q) + 1 .. Len(q) : q[k] \notin {"NL", "EOF"}
         /\ Terminals!Unfinished(q) # 0 => q[Terminals!Unfinished(q)] \in {"NL", "EOF"}
<1>1. Len(q) \in Nat
  BY DEF Queue
<1>2. Terminals!Unfinished(q) = IF EndsOf(q) # {} THEN CHOOSE x \in EndsOf(q) : \A y \in EndsOf(q) : x >= y ELSE 0
  BY DEF Terminals!Unfinished, Terminals!SelectLastInSeq, Terminals!Max, Terminals!Ends, EndsOf
<1>3. EndsOf(q) \in SUBSET (1 .. Len(q))
  BY DEF EndsOf
<1>4. CASE EndsOf(q) = {}
  <2>1. Terminals!Unfinished(q) = 0
    BY <1>2, <1>4
  <2> QED
    BY <1>1, <1>4, <2>1 DEF EndsOf
<1>5. CASE EndsOf(q) # {}
  <2>1. \E x \in EndsOf(q) : \A y \in EndsOf(q) : x >= y
    BY <1>1, <1>3, <1>5, Greatest
  <2>2. /\ Terminals!Unfinished(q) \in EndsOf(q)
        /\ \A y \in EndsOf(q) : Terminals!Unfinished(q) >= y
    BY <1>2, <1>5, <2>1
  <2> DEFINE u == Terminals!Unfinished(q)
  <2> HIDE DEF u
  <2>3. u \in EndsOf(q) /\ \A y \in EndsOf(q) : u >= y
    BY <2>2 DEF u
  <2>4. u \in 0 .. Len(q) /\ (\A k \in u + 1 .. Len(q) : q[k] \notin {"NL", "EOF"}) /\ q[u] \in {"NL", "EOF"}
    BY <1>1, <2>3 DEF EndsOf
  <2> QED
    BY <2>4 DEF u
<1> QED
  BY <1>4, <1>5

TtyType == [read_q : Queue, secondary : Queue, data : Int, termios : Terminals!Termios]

(* The count of lines is right, and what has been typed is from keys.      *)
Cooking(t, keys) ==
  /\ t \in TtyType
  /\ \A i \in 1 .. Len(t.read_q) : t.read_q[i] \in keys
  /\ Len(t.read_q) < SIZE /\ Len(t.secondary) < SIZE
  /\ t.data = Cardinality(EndsOf(t.secondary))

(* What cooking leaves alone; where nothing can be erased the line grows.  *)
Later(t, u, keys) ==
  /\ u.termios = t.termios
  /\ keys \cap {"ERASE", "KILL"} = {} =>
        Len(u.secondary) >= Len(t.secondary) /\ u.data >= t.data

LEMMA LaterTransitive ==
  ASSUME NEW t \in TtyType, NEW u \in TtyType, NEW v \in TtyType, NEW keys,
         Later(t, u, keys), Later(u, v, keys)
  PROVE  Later(t, v, keys)
BY DEF Later, TtyType, Queue

LEMMA CookedOne ==
  ASSUME NEW keys, NEW t, Cooking(t, keys), NEW c0 \in keys, c0 \in Terminals!Key,
         Terminals!Left(t.secondary) # 0, SIZE \in Nat
  PROVE  \E q \in Queue, n \in Int :
            /\ Terminals!Cooked(t, c0) = [t EXCEPT !.secondary = q, !.data = n]
            /\ Len(q) < SIZE /\ n = Cardinality(EndsOf(q))
            /\ keys \cap {"ERASE", "KILL"} = {} => Len(q) >= Len(t.secondary) /\ n >= t.data
<1> DEFINE c == IF c0 = "CR" THEN "NL" ELSE c0
           s == t.secondary
<1>1. /\ t \in TtyType /\ s \in Queue /\ t.data \in Int /\ Len(s) \in Nat /\ Len(s) < SIZE
      /\ t.data = Cardinality(EndsOf(s))
  BY DEF Cooking, TtyType, Queue
<1>2. c \in Terminals!Key
  BY DEF Terminals!Key
<1>3. t = [t EXCEPT !.secondary = s, !.data = t.data]
  BY <1>1 DEF TtyType
<1>4. CASE t.termios.canon /\ c = "KILL"
  <2> DEFINE q == SubSeq(s, 1, Terminals!Unfinished(s))
  <2>1. Terminals!Cooked(t, c0) = [t EXCEPT !.secondary = q]
    BY <1>4 DEF Terminals!Cooked, Terminals!Killed
  <2>2. q \in Queue /\ Len(q) <= Len(s) /\ EndsOf(q) = EndsOf(s)
    BY <1>1, UnfinishedEnd, EndsKept
  <2>3. [t EXCEPT !.secondary = q] = [t EXCEPT !.secondary = q, !.data = t.data]
    BY <1>1 DEF TtyType
  <2>4. c0 = "KILL"
    BY <1>4
  <2>5. Len(q) \in Nat
    BY <2>2 DEF Queue
  <2> HIDE DEF q, s
  <2>6. Len(q) < SIZE
    BY <1>1, <2>2, <2>5
  <2> QED
    BY <1>1, <2>1, <2>2, <2>3, <2>4, <2>6
<1>5. CASE t.termios.canon /\ c = "ERASE"
  <2> DEFINE q == Terminals!Erased(s)
  <2>1. Terminals!Cooked(t, c0) = [t EXCEPT !.secondary = q]
    BY <1>5 DEF Terminals!Cooked
  <2>2. q \in Queue /\ Len(q) <= Len(s) /\ EndsOf(q) = EndsOf(s)
    <3>1. CASE Terminals!Unfinished(s) = Len(s)
      BY <1>1, <3>1 DEF Terminals!Erased
    <3>2. CASE Terminals!Unfinished(s) # Len(s)
      <4>1. q = SubSeq(s, 1, Len(s) - 1)
        BY <3>2 DEF Terminals!Erased
      <4>2. /\ Terminals!Unfinished(s) \in 0 .. Len(s)
            /\ \A k \in Terminals!Unfinished(s) + 1 .. Len(s) : s[k] \notin {"NL", "EOF"}
        BY <1>1, UnfinishedEnd
      <4>3. Len(s) - 1 \in 0 .. Len(s) /\ \A k \in (Len(s) - 1) + 1 .. Len(s) : s[k] \notin {"NL", "EOF"}
        BY <1>1, <3>2, <4>2
      <4>4. q \in Queue /\ Len(q) = Len(s) - 1 /\ EndsOf(q) = EndsOf(s)
        BY <1>1, <4>1, <4>3, EndsKept
      <4> QED
        BY <1>1, <4>4
    <3> QED
      BY <3>1, <3>2
  <2>3. [t EXCEPT !.secondary = q] = [t EXCEPT !.secondary = q, !.data = t.data]
    BY <1>1 DEF TtyType
  <2>4. c0 = "ERASE"
    BY <1>5
  <2>5. Len(q) \in Nat
    BY <2>2 DEF Queue
  <2> HIDE DEF q, s
  <2>6. Len(q) < SIZE
    BY <1>1, <2>2, <2>5
  <2> QED
    BY <1>1, <2>1, <2>2, <2>3, <2>4, <2>6
<1>6. CASE ~(t.termios.canon /\ c \in {"KILL", "ERASE"}) /\ t.termios.isig /\ c = "INTR"
  <2>1. Terminals!Cooked(t, c0) = t
    BY <1>6 DEF Terminals!Cooked
  <2>2. Terminals!Cooked(t, c0) = [t EXCEPT !.secondary = s, !.data = t.data]
    BY <1>3, <2>1, Zenon
  <2>3. Len(s) >= Len(s) /\ t.data >= t.data
    BY <1>1
  <2> QED
    BY <1>1, <2>2, <2>3, Zenon
<1>7. CASE ~(t.termios.canon /\ c \in {"KILL", "ERASE"}) /\ ~(t.termios.isig /\ c = "INTR")
  <2> DEFINE q == Append(s, c)
             n == t.data + (IF c \in {"NL", "EOF"} THEN 1 ELSE 0)
  <2>1. Terminals!Cooked(t, c0) = [t EXCEPT !.secondary = Append(@, c), !.data = @ + IF c \in {"NL", "EOF"} THEN 1 ELSE 0]
    BY <1>7 DEF Terminals!Cooked, Terminals!Ends
  <2>2. Terminals!Cooked(t, c0) = [t EXCEPT !.secondary = q, !.data = n]
    BY <2>1, <1>1 DEF TtyType
  <2>3. q \in Queue /\ Len(q) = Len(s) + 1
    BY <1>1, <1>2 DEF Queue
  <2>4. EndsOf(q) = EndsOf(s) \cup (IF c \in {"NL", "EOF"} THEN {Len(s) + 1} ELSE {})
    BY <1>1, <1>2, EndsAppended
  <2>5. n \in Int /\ n >= t.data
    BY <1>1
  <2>6. n = Cardinality(EndsOf(q))
    <3>1. IsFiniteSet(EndsOf(s)) /\ Cardinality(EndsOf(s)) \in Nat
      BY <1>1, EndsFinite
    <3>2. Len(s) + 1 \notin EndsOf(s)
      BY <1>1 DEF EndsOf
    <3>3. CASE c \in {"NL", "EOF"}
      <4>1. EndsOf(q) = EndsOf(s) \cup {Len(s) + 1}
        BY <2>4, <3>3
      <4>2. Cardinality(EndsOf(s) \cup {Len(s) + 1}) = Cardinality(EndsOf(s)) + 1
        BY <3>1, <3>2, FS_AddElement
      <4>3. n = t.data + 1
        BY <3>3
      <4> HIDE DEF q, s, n
      <4> QED
        BY <1>1, <4>1, <4>2, <4>3
    <3>4. CASE c \notin {"NL", "EOF"}
      <4>1. EndsOf(q) = EndsOf(s)
        BY <2>4, <3>4
      <4>3. n = t.data
        BY <1>1, <3>4
      <4> HIDE DEF q, s, n
      <4> QED
        BY <1>1, <4>1, <4>3
    <3> QED
      BY <3>3, <3>4
  <2>7. Len(s) + 1 < SIZE
    BY <1>1 DEF Terminals!Left
  <2> HIDE DEF q, n, s, c
  <2>8. Len(q) < SIZE /\ Len(q) >= Len(s)
    BY <1>1, <2>3, <2>7
  <2>9. s = t.secondary
    BY DEF s
  <2> QED
    BY <2>2, <2>3, <2>5, <2>6, <2>8, <2>9
<1> QED
  BY <1>4, <1>5, <1>6, <1>7

(* copy_to_cooked() until n characters are taken, or secondary is full.    *)
TakeOne(u) ==
    IF Terminals!Left(u.secondary) = 0 THEN u
    ELSE [Terminals!Cooked(u, Head(u.read_q)) EXCEPT !.read_q = Tail(@)]

Takes(f, t, m) == f = [n \in 0 .. m |-> IF n = 0 THEN t ELSE TakeOne(f[n - 1])]

LEMMA TakenOne ==
  ASSUME NEW keys \in SUBSET Terminals!Key, NEW t, Cooking(t, keys), SIZE \in Nat,
         t.read_q # <<>>
  PROVE  /\ Cooking(TakeOne(t), keys) /\ Later(t, TakeOne(t), keys)
         /\ Len(TakeOne(t).read_q) >= Len(t.read_q) - 1
<1>1. /\ t \in TtyType /\ t.read_q \in Queue /\ t.secondary \in Queue /\ t.data \in Int
      /\ Len(t.read_q) \in Nat /\ Len(t.secondary) \in Nat
  BY DEF Cooking, TtyType, Queue
<1>2. CASE Terminals!Left(t.secondary) = 0
  <2>1. TakeOne(t) = t
    BY <1>2 DEF TakeOne
  <2> QED
    BY <1>1, <2>1 DEF Later
<1>3. CASE Terminals!Left(t.secondary) # 0
  <2>1. /\ Len(t.read_q) > 0 /\ Head(t.read_q) = t.read_q[1] /\ Tail(t.read_q) \in Queue
        /\ Len(Tail(t.read_q)) = Len(t.read_q) - 1
        /\ \A i \in 1 .. Len(t.read_q) - 1 : Tail(t.read_q)[i] = t.read_q[i + 1]
    BY <1>1 DEF Queue
  <2>2. Head(t.read_q) \in keys /\ Head(t.read_q) \in Terminals!Key
    BY <1>1, <2>1 DEF Cooking
  <2>3. PICK q \in Queue, n \in Int :
           /\ Terminals!Cooked(t, Head(t.read_q)) = [t EXCEPT !.secondary = q, !.data = n]
           /\ Len(q) < SIZE /\ n = Cardinality(EndsOf(q))
           /\ keys \cap {"ERASE", "KILL"} = {} => Len(q) >= Len(t.secondary) /\ n >= t.data
    BY <1>3, <2>2, CookedOne
  <2>4. TakeOne(t) = [[t EXCEPT !.secondary = q, !.data = n] EXCEPT !.read_q = Tail(@)]
    BY <1>3, <2>3 DEF TakeOne
  <2>5. TakeOne(t) = [read_q |-> Tail(t.read_q), secondary |-> q, data |-> n, termios |-> t.termios]
    BY <1>1, <2>4 DEF TtyType
  <2>6. TakeOne(t) \in TtyType
    BY <1>1, <2>1, <2>5 DEF TtyType
  <2>7. /\ TakeOne(t).read_q = Tail(t.read_q) /\ TakeOne(t).secondary = q
        /\ TakeOne(t).data = n /\ TakeOne(t).termios = t.termios
    BY <2>5
  <2>8. \A i \in 1 .. Len(Tail(t.read_q)) : Tail(t.read_q)[i] \in keys
    BY <1>1, <2>1 DEF Cooking
  <2>9. Len(Tail(t.read_q)) < SIZE
    BY <1>1, <2>1 DEF Cooking
  <2>10. Cooking(TakeOne(t), keys)
    BY <2>3, <2>6, <2>7, <2>8, <2>9 DEF Cooking
  <2>11. Later(t, TakeOne(t), keys)
    BY <2>3, <2>7 DEF Later
  <2> QED
    BY <1>1, <2>1, <2>7, <2>10, <2>11
<1> QED
  BY <1>2, <1>3

(* There is one such function for each number of steps.                    *)
LEMMA TakesExists ==
  ASSUME NEW t, NEW N \in Nat
  PROVE  \E f : Takes(f, t, N)
<1> DEFINE Bad == {m \in Nat : ~ \E f : Takes(f, t, m)}
<1>1. SUFFICES Bad = {}
  OBVIOUS
<1>2. SUFFICES ASSUME Bad # {} PROVE FALSE
  OBVIOUS
<1>3. PICK m \in Bad : \A k \in Bad : m <= k
  <2>1. Bad \subseteq Nat
    OBVIOUS
  <2> HIDE DEF Bad
  <2> QED
    BY <1>2, <2>1, LeastNatural
<1>4. m # 0
  <2>1. Takes([n \in 0 .. 0 |-> t], t, 0)
    BY DEF Takes
  <2>2. m = 0 => FALSE
    BY <1>3, <2>1
  <2> QED
    BY <2>2
<1>5. m - 1 \in Nat /\ m - 1 \notin Bad
  BY <1>3, <1>4
<1>6. PICK f : Takes(f, t, m - 1)
  BY <1>5
<1> DEFINE g == [n \in 0 .. m |-> IF n = 0 THEN t ELSE TakeOne(f[n - 1])]
<1>7. \A n \in 0 .. m - 1 : g[n] = f[n]
  BY <1>3, <1>6 DEF Takes
<1>8. g = [n \in 0 .. m |-> IF n = 0 THEN t ELSE TakeOne(g[n - 1])]
  <2>1. \A n \in 0 .. m : n # 0 => n - 1 \in 0 .. m - 1
    BY <1>3
  <2>2. \A n \in 0 .. m : n # 0 => g[n - 1] = f[n - 1]
    BY <1>7, <2>1
  <2> QED
    BY <2>2
<1>9. Takes(g, t, m)
  BY <1>8 DEF Takes
<1> QED
  BY <1>3, <1>9

LEMMA TakesGood ==
  ASSUME NEW keys \in SUBSET Terminals!Key, NEW t, Cooking(t, keys), SIZE \in Nat,
         NEW f, Takes(f, t, Len(t.read_q))
  PROVE  Cooking(f[Len(t.read_q)], keys) /\ Later(t, f[Len(t.read_q)], keys)
<1> DEFINE N == Len(t.read_q)
           Good(n) == Cooking(f[n], keys) /\ Later(t, f[n], keys) /\ Len(f[n].read_q) >= N - n
           Bad == {n \in 0 .. N : ~Good(n)}
<1>1. N \in Nat /\ t \in TtyType
  BY DEF Cooking, TtyType, Queue
<1>2. \A n \in 0 .. N : f[n] = IF n = 0 THEN t ELSE TakeOne(f[n - 1])
  BY DEF Takes
<1>3. Bad = {}
  <2>1. SUFFICES ASSUME Bad # {} PROVE FALSE
    OBVIOUS
  <2>2. Bad \subseteq Nat
    BY <1>1
  <2>3. PICK m \in Bad : \A k \in Bad : m <= k
    <3> HIDE DEF Bad
    <3> QED
      BY <2>1, <2>2, LeastNatural
  <2>4. m # 0
    <3>1. f[0] = t /\ Later(t, t, keys)
      BY <1>1, <1>2 DEF Later, TtyType, Queue
    <3>2. Good(0)
      BY <1>1, <3>1
    <3> QED
      BY <2>3, <3>2
  <2>5. m - 1 \in 0 .. N /\ m \in 0 .. N /\ Good(m - 1)
    BY <1>1, <2>3, <2>4
  <2>6. f[m] = TakeOne(f[m - 1])
    BY <1>2, <2>4, <2>5
  <2>7. f[m - 1].read_q \in Queue /\ Len(f[m - 1].read_q) >= 1 /\ f[m - 1] \in TtyType
    BY <1>1, <2>4, <2>5 DEF Cooking, TtyType
  <2>8. f[m - 1].read_q # <<>>
    BY <2>7 DEF Queue
  <2>9. /\ Cooking(f[m], keys) /\ Later(f[m - 1], f[m], keys)
        /\ Len(f[m].read_q) >= Len(f[m - 1].read_q) - 1
    BY <2>5, <2>6, <2>8, TakenOne
  <2>10. f[m] \in TtyType /\ f[m].read_q \in Queue
    BY <2>9 DEF Cooking, TtyType
  <2>11. Later(t, f[m], keys)
    BY <1>1, <2>5, <2>7, <2>9, <2>10, LaterTransitive
  <2>12. Len(f[m].read_q) \in Int /\ Len(f[m - 1].read_q) \in Int
    BY <2>7, <2>10 DEF Queue
  <2>13. Len(f[m].read_q) >= N - m
    <3>a. m \in Nat
      BY <1>1, <2>5
    <3>1. PICK a \in Int, b \in Int, k \in Nat :
             a = Len(f[m].read_q) /\ b = Len(f[m - 1].read_q) /\ k = m
      BY <2>12, <3>a
    <3>2. a >= b - 1
      BY <2>9, <3>1
    <3>3. b >= N - (k - 1)
      BY <2>5, <3>1
    <3>4. a >= N - k
      BY <1>1, <3>2, <3>3
    <3> QED
      BY <3>1, <3>4
  <2>14. Good(m)
    BY <2>9, <2>11, <2>13
  <2> QED
    BY <2>3, <2>14
<1>4. N \in 0 .. N
  BY <1>1
<1>5. Good(N)
  BY <1>3, <1>4
<1> QED
  BY <1>5

LEMMA CookedAll ==
  ASSUME NEW keys \in SUBSET Terminals!Key, NEW t, Cooking(t, keys), SIZE \in Nat
  PROVE  Cooking(Terminals!copy_to_cooked(t), keys) /\ Later(t, Terminals!copy_to_cooked(t), keys)
<1> DEFINE after == CHOOSE f : Takes(f, t, Len(t.read_q))
<1>1. Terminals!copy_to_cooked(t) = after[Len(t.read_q)]
  BY DEF Terminals!copy_to_cooked, Takes, TakeOne
<1>2. Len(t.read_q) \in Nat
  BY DEF Cooking, TtyType, Queue
<1>3. Takes(after, t, Len(t.read_q))
  BY <1>2, TakesExists
<1> HIDE DEF after
<1> QED
  BY <1>1, <1>3, TakesGood

(* A reader has something to read when it reads; it sleeps on nothing.     *)
Reader == [pc : {"out", "loop", "asleep", "get"}, nr : 0 .. MaxNr, got : 0 .. MaxNr,
           min : 0 .. MaxNr, flag : BOOLEAN]

Reads(r, t) ==
  /\ r \in Reader
  /\ r.got + r.nr <= MaxNr /\ (r.pc # "out" => r.nr >= 1)
  /\ r.pc = "asleep" => t.secondary = <<>>
  /\ r.pc = "get" =>
       /\ t.secondary # <<>>
       /\ t.termios.canon /\ r.got = 0 => t.data > 0 \/ Terminals!Left(t.secondary) <= Nearly

TerminalIInv ==
  /\ setup \in Setup /\ signal \in BOOLEAN
  /\ Cooking(tty, setup.keys)
  /\ Reads(reader, tty)

(* Where an interrupt may come before GETCH(), nothing is taken back.      *)
NothingErased == \A s \in Setup : s.preempt => s.keys \cap {"ERASE", "KILL"} = {}

LEMMA TerminalNumbers ==
  /\ SIZE \in Nat /\ SIZE >= 2 /\ Nearly \in Nat /\ MaxNr \in Nat \ {0}
  /\ \A s \in Setup : s.keys \in SUBSET Terminals!Key /\ s.termios \subseteq Terminals!Termios
BY DevicesAssumption DEF DevicesAssumption, Terminals!TerminalAssumption

LEMMA TerminalExactHolds ==
  ASSUME TerminalIInv
  PROVE  Terminals!TypeOK /\ Terminals!LinesExact /\ Terminals!NoUnderflow
<1>1. /\ tty \in TtyType /\ tty.secondary \in Queue /\ tty.read_q \in Queue
      /\ Len(tty.read_q) < SIZE /\ Len(tty.secondary) < SIZE
      /\ tty.data = Cardinality(EndsOf(tty.secondary))
      /\ tty.termios \in Terminals!Termios
      /\ reader \in Reader /\ setup \in Setup /\ signal \in BOOLEAN
  BY DEF TerminalIInv, Cooking, TtyType, Reads
<1>2. Cardinality(EndsOf(tty.secondary)) \in 0 .. Len(tty.secondary) /\ Len(tty.secondary) \in Nat
  BY <1>1, EndsFinite DEF Queue
<1>3. tty.data \in 0 .. SIZE - 1
  BY <1>1, <1>2, TerminalNumbers
<1>4. Terminals!TypeOK
  BY <1>1, <1>3 DEF Terminals!TypeOK, Queue, Reader
<1>5. Terminals!LinesExact
  <2>1. Terminals!LineEnds(tty.secondary) = EndsOf(tty.secondary)
    BY <1>1, EndsSame
  <2>2. Terminals!Cardinality(EndsOf(tty.secondary)) = Cardinality(EndsOf(tty.secondary))
    BY DEF Terminals!Cardinality, Cardinality
  <2>3. reader.pc = "asleep" => tty.secondary = <<>>
    BY DEF TerminalIInv, Reads
  <2> QED
    BY <1>1, <2>1, <2>2, <2>3 DEF Terminals!LinesExact
<1>6. Terminals!NoUnderflow
  BY DEF Terminals!NoUnderflow, TerminalIInv, Reads
<1> QED
  BY <1>4, <1>5, <1>6

LEMMA TerminalInit ==
  ASSUME Terminals!Init
  PROVE  TerminalIInv
<1>1. setup \in Setup /\ signal = FALSE /\ reader = Terminals!Out
  BY DEF Terminals!Init
<1>2. PICK t \in setup.termios : tty = [read_q |-> <<>>, secondary |-> <<>>, data |-> 0, termios |-> t]
  BY DEF Terminals!Init
<1>3. t \in Terminals!Termios /\ SIZE \in Nat /\ SIZE >= 2 /\ MaxNr \in Nat
  BY <1>1, TerminalNumbers
<1>4. PICK e \in Queue : e = <<>> /\ Len(e) = 0
  <2>1. <<>> \in Queue /\ Len(<<>>) = 0
    BY DEF Queue
  <2> QED
    BY <2>1, Zenon
<1>5. tty = [read_q |-> e, secondary |-> e, data |-> 0, termios |-> t]
  BY <1>2, <1>4
<1>6. tty \in TtyType /\ tty.read_q = e /\ tty.secondary = e /\ tty.data = 0
  BY <1>3, <1>5 DEF TtyType
<1>7. Cardinality(EndsOf(e)) = 0
  BY <1>4, EndsFinite
<1>8. Cooking(tty, setup.keys)
  BY <1>3, <1>4, <1>6, <1>7 DEF Cooking
<1>9. Reads(reader, tty)
  BY <1>1, <1>3 DEF Reads, Reader, Terminals!Out
<1> QED
  BY <1>1, <1>8, <1>9 DEF TerminalIInv

LEMMA KeyPressed ==
  ASSUME TerminalIInv, NothingErased, NEW key \in setup.keys, Terminals!keyboard_interrupt(key)
  PROVE  TerminalIInv'
<1> DEFINE t == IF Terminals!Left(tty.read_q) = 0 THEN tty ELSE [tty EXCEPT !.read_q = Append(@, key)]
<1>1. /\ tty \in TtyType /\ tty.secondary \in Queue /\ tty.read_q \in Queue
      /\ Len(tty.read_q) \in Nat /\ SIZE \in Nat /\ setup \in Setup /\ signal \in BOOLEAN
      /\ Cooking(tty, setup.keys) /\ Reads(reader, tty) /\ reader \in Reader
      /\ setup.keys \in SUBSET Terminals!Key
  BY TerminalNumbers DEF TerminalIInv, Cooking, TtyType, Queue, Reads
<1>2. /\ tty' = Terminals!copy_to_cooked(t) /\ setup' = setup
      /\ reader' = IF reader.pc = "asleep" THEN [reader EXCEPT !.pc = "loop"] ELSE reader
      /\ signal' \in {TRUE, signal}
      /\ reader.pc = "get" => setup.preempt
  BY DEF Terminals!keyboard_interrupt
<1>3. Cooking(t, setup.keys) /\ t.secondary = tty.secondary /\ t.termios = tty.termios /\ t.data = tty.data
  <2>1. CASE Terminals!Left(tty.read_q) = 0
    BY <1>1, <2>1
  <2>2. CASE Terminals!Left(tty.read_q) # 0
    <3>1. t = [tty EXCEPT !.read_q = Append(tty.read_q, key)]
      BY <2>2
    <3>2. PICK q \in Queue : q = Append(tty.read_q, key)
      <4>1. key \in Terminals!Key
        BY <1>1
      <4> QED
        BY <1>1, <4>1, EndsAppended
    <3>3. /\ Len(q) = Len(tty.read_q) + 1 /\ q[Len(tty.read_q) + 1] = key
          /\ \A i \in 1 .. Len(tty.read_q) : q[i] = tty.read_q[i]
      BY <1>1, <3>2 DEF Queue
    <3>4. /\ t \in TtyType /\ t.read_q = q
          /\ t.secondary = tty.secondary /\ t.termios = tty.termios /\ t.data = tty.data
      BY <1>1, <3>1, <3>2 DEF TtyType
    <3>5. Len(q) < SIZE
      BY <1>1, <2>2, <3>3 DEF Cooking, Terminals!Left
    <3>6. \A i \in 1 .. Len(q) : q[i] \in setup.keys
      BY <1>1, <3>3 DEF Cooking
    <3> HIDE DEF t
    <3> QED
      BY <1>1, <3>4, <3>5, <3>6 DEF Cooking
  <2> QED
    BY <2>1, <2>2
<1> HIDE DEF t
<1>4. Cooking(tty', setup.keys) /\ Later(t, tty', setup.keys)
  BY <1>1, <1>2, <1>3, CookedAll
<1>5. Reads(reader', tty')
  <2>1. CASE reader.pc = "asleep"
    BY <1>1, <1>2, <2>1 DEF Reads, Reader
  <2>2. CASE reader.pc \in {"out", "loop"}
    BY <1>1, <1>2, <2>2 DEF Reads
  <2>3. CASE reader.pc = "get"
    <3>1. setup.keys \cap {"ERASE", "KILL"} = {}
      BY <1>1, <1>2, <2>3 DEF NothingErased
    <3>2. /\ tty'.termios = tty.termios /\ tty'.data >= tty.data
          /\ Len(tty'.secondary) >= Len(tty.secondary)
      BY <1>3, <1>4, <3>1 DEF Later
    <3>3. /\ tty'.secondary \in Queue /\ Len(tty'.secondary) \in Nat /\ Len(tty.secondary) \in Nat
          /\ tty'.data \in Int /\ tty.data \in Int
      BY <1>1, <1>4 DEF Cooking, TtyType, Queue
    <3>4. Len(tty.secondary) > 0
      BY <1>1, <2>3 DEF Reads, Queue
    <3>5. tty'.secondary # <<>>
      BY <3>2, <3>3, <3>4 DEF Queue
    <3>6. reader' = reader
      BY <1>2, <2>3
    <3>7. tty'.termios.canon /\ reader.got = 0 => tty'.data > 0 \/ Terminals!Left(tty'.secondary) <= Nearly
      BY <1>1, <2>3, <3>2, <3>3, TerminalNumbers DEF Reads, Terminals!Left
    <3> QED
      BY <1>1, <2>3, <3>5, <3>6, <3>7 DEF Reads
  <2> QED
    BY <1>1, <2>1, <2>2, <2>3 DEF Reader
<1>6. setup' \in Setup /\ signal' \in BOOLEAN
  BY <1>1, <1>2
<1> QED
  BY <1>2, <1>4, <1>5, <1>6 DEF TerminalIInv

LEMMA ModeChanged ==
  ASSUME TerminalIInv, Terminals!tty_ioctl
  PROVE  TerminalIInv'
<1>1. /\ tty \in TtyType /\ tty.read_q \in Queue /\ setup \in Setup /\ Cooking(tty, setup.keys)
      /\ Reads(reader, tty) /\ signal \in BOOLEAN
  BY DEF TerminalIInv, Cooking, TtyType
<1>2. PICK t \in setup.termios, q \in {tty.read_q, <<>>} : tty' = [tty EXCEPT !.termios = t, !.read_q = q]
  BY DEF Terminals!tty_ioctl
<1>3. reader.pc = "out" /\ reader' = reader /\ signal' = signal /\ setup' = setup
  BY DEF Terminals!tty_ioctl
<1>4. t \in Terminals!Termios /\ SIZE \in Nat /\ SIZE >= 2
  BY <1>1, TerminalNumbers
<1>5. q \in Queue /\ Len(q) < SIZE /\ \A i \in 1 .. Len(q) : q[i] \in setup.keys
  <2>1. CASE q = tty.read_q
    BY <1>1, <2>1 DEF Cooking
  <2>2. CASE q = <<>>
    BY <1>4, <2>2 DEF Queue
  <2> QED
    BY <2>1, <2>2
<1>6. /\ tty' \in TtyType /\ tty'.read_q = q /\ tty'.secondary = tty.secondary /\ tty'.data = tty.data
  BY <1>1, <1>2, <1>4, <1>5 DEF TtyType
<1>7. Cooking(tty', setup.keys)
  BY <1>1, <1>5, <1>6 DEF Cooking
<1>8. Reads(reader, tty')
  BY <1>1, <1>3 DEF Reads
<1> QED
  BY <1>1, <1>3, <1>7, <1>8 DEF TerminalIInv

LEMMA ReadBegins ==
  ASSUME TerminalIInv, Terminals!tty_read
  PROVE  TerminalIInv'
<1>1. /\ tty \in TtyType /\ setup \in Setup /\ Cooking(tty, setup.keys)
      /\ Reads(reader, tty) /\ signal \in BOOLEAN /\ MaxNr \in Nat
      /\ tty.termios.time \in BOOLEAN /\ tty.termios.min \in 0 .. MaxNr
  BY TerminalNumbers DEF TerminalIInv, Cooking, TtyType, Terminals!Termios
<1>2. PICK nr \in 1 .. MaxNr :
         reader' = [pc |-> "loop", nr |-> nr, got |-> 0, flag |-> tty.termios.time /\ tty.termios.min = 0,
                    min |-> Terminals!Lesser(nr, IF tty.termios.time /\ tty.termios.min = 0 THEN 1 ELSE tty.termios.min)]
  BY DEF Terminals!tty_read
<1>3. tty' = tty /\ signal' = signal /\ setup' = setup
  BY DEF Terminals!tty_read
<1>4. PICK m \in 0 .. MaxNr :
         m = Terminals!Lesser(nr, IF tty.termios.time /\ tty.termios.min = 0 THEN 1 ELSE tty.termios.min)
  BY <1>1 DEF Terminals!Lesser
<1>5. PICK f \in BOOLEAN : f = (tty.termios.time /\ tty.termios.min = 0)
  BY <1>1
<1>6. reader' = [pc |-> "loop", nr |-> nr, got |-> 0, flag |-> f, min |-> m]
  BY <1>2, <1>4, <1>5
<1>7. Reads(reader', tty)
  BY <1>1, <1>6 DEF Reads, Reader
<1> QED
  BY <1>1, <1>3, <1>7 DEF TerminalIInv

LEMMA ReaderReturns ==
  ASSUME TerminalIInv, NEW t
  PROVE  Reads(Terminals!Out, t)
<1>1. MaxNr \in Nat
  BY TerminalNumbers
<1> QED
  BY <1>1 DEF Reads, Reader, Terminals!Out

LEMMA ReaderLooks ==
  ASSUME TerminalIInv, Terminals!Loop
  PROVE  TerminalIInv'
<1>1. /\ tty \in TtyType /\ setup \in Setup /\ Cooking(tty, setup.keys)
      /\ Reads(reader, tty) /\ signal \in BOOLEAN /\ reader \in Reader
      /\ tty.secondary \in Queue /\ tty.data = Cardinality(EndsOf(tty.secondary))
      /\ tty.data \in Int /\ Len(tty.secondary) \in Nat /\ tty.termios.canon \in BOOLEAN
  BY DEF TerminalIInv, Cooking, TtyType, Reads, Queue, Terminals!Termios
<1>2. tty' = tty /\ setup' = setup /\ reader.pc = "loop"
  BY DEF Terminals!Loop
<1>3. CASE signal
  <2>1. reader' = Terminals!Out /\ signal' = FALSE
    BY <1>3 DEF Terminals!Loop, Terminals!Return
  <2> QED
    BY <1>1, <1>2, <2>1, ReaderReturns DEF TerminalIInv
<1>4. CASE ~signal
  <2>1. /\ signal' = signal
        /\ reader' = IF tty.secondary = <<>> THEN [reader EXCEPT !.pc = "asleep"]
                     ELSE IF Terminals!NoLine THEN reader
                     ELSE [reader EXCEPT !.pc = "get"]
    BY <1>4 DEF Terminals!Loop
  <2>2. CASE tty.secondary = <<>>
    <3>1. Reads(reader', tty)
      BY <1>1, <1>2, <2>1, <2>2 DEF Reads, Reader
    <3> QED
      BY <1>1, <1>2, <2>1, <3>1 DEF TerminalIInv
  <2>3. CASE tty.secondary # <<>> /\ Terminals!NoLine
    <3>1. Reads(reader', tty)
      BY <1>1, <2>1, <2>3
    <3> QED
      BY <1>1, <1>2, <2>1, <3>1 DEF TerminalIInv
  <2>4. CASE tty.secondary # <<>> /\ ~Terminals!NoLine
    <3>1. reader' = [reader EXCEPT !.pc = "get"]
      BY <2>1, <2>4
    <3>2. tty.termios.canon => tty.data > 0 \/ Terminals!Left(tty.secondary) <= Nearly
      <4>1. Cardinality(EndsOf(tty.secondary)) \in Nat
        BY <1>1, EndsFinite
      <4>2. Terminals!Left(tty.secondary) \in Int /\ Nearly \in Int
        BY <1>1, TerminalNumbers DEF Terminals!Left
      <4> QED
        BY <1>1, <2>4, <4>1, <4>2 DEF Terminals!NoLine
    <3>3. Reads(reader', tty)
      BY <1>1, <1>2, <2>4, <3>1, <3>2 DEF Reads, Reader
    <3> QED
      BY <1>1, <1>2, <2>1, <3>3 DEF TerminalIInv
  <2> QED
    BY <2>2, <2>3, <2>4
<1> QED
  BY <1>3, <1>4

LEMMA CharacterRead ==
  ASSUME TerminalIInv, Terminals!Getch
  PROVE  TerminalIInv'
<1> DEFINE q == tty.secondary
           r == [reader EXCEPT !.nr = @ - 1, !.got = @ + 1]
           rest == Tail(q)
           n == tty.data - Terminals!Counted(Head(q))
<1>1. /\ tty \in TtyType /\ setup \in Setup /\ Cooking(tty, setup.keys)
      /\ Reads(reader, tty) /\ signal \in BOOLEAN /\ reader \in Reader
      /\ q \in Queue /\ tty.data = Cardinality(EndsOf(q)) /\ tty.data \in Int
      /\ Len(q) < SIZE /\ Len(q) \in Nat /\ SIZE \in Nat /\ tty.termios.time \in BOOLEAN
  BY TerminalNumbers DEF TerminalIInv, Cooking, TtyType, Reads, Queue, Terminals!Termios
<1>2. reader.pc = "get" /\ q # <<>> /\ setup' = setup
  BY <1>1 DEF Terminals!Getch, Reads
<1>3. /\ tty' = [tty EXCEPT !.secondary = rest, !.data = n]
      /\ \/ reader' = Terminals!Out /\ signal' = FALSE
         \/ r.nr # 0 /\ signal' = signal /\ reader' = IF rest # <<>> THEN r ELSE [r EXCEPT !.pc = "loop", !.flag = tty.termios.time]
  <2>1. /\ tty' = [tty EXCEPT !.secondary = rest, !.data = @ - Terminals!Counted(Head(q))]
        /\ \/ reader' = Terminals!Out /\ signal' = FALSE
           \/ r.nr # 0 /\ signal' = signal /\ reader' = IF rest # <<>> THEN r ELSE [r EXCEPT !.pc = "loop", !.flag = tty.termios.time]
    BY <1>2 DEF Terminals!Getch, Terminals!Return
  <2> QED
    BY <1>1, <2>1 DEF TtyType
<1>4. /\ rest \in Queue /\ Len(rest) = Len(q) - 1
      /\ Cardinality(EndsOf(rest)) = Cardinality(EndsOf(q)) - Terminals!Counted(Head(q))
  BY <1>1, <1>2, EndsTail DEF Terminals!Counted, Terminals!Ends
<1>5. n = Cardinality(EndsOf(rest)) /\ n \in Int
  <2>1. Terminals!Counted(Head(q)) \in Int
    BY DEF Terminals!Counted
  <2>2. n = tty.data - Terminals!Counted(Head(q))
    OBVIOUS
  <2> HIDE DEF n, rest, q
  <2> QED
    BY <1>1, <1>4, <2>1, <2>2
<1> HIDE DEF n
<1>6. /\ tty' \in TtyType /\ tty'.secondary = rest /\ tty'.data = n
      /\ tty'.read_q = tty.read_q /\ tty'.termios = tty.termios
  BY <1>1, <1>3, <1>4, <1>5 DEF TtyType
<1> HIDE DEF q, rest
<1>7. Len(rest) < SIZE
  BY <1>1, <1>4
<1>8. Cooking(tty', setup.keys)
  BY <1>1, <1>5, <1>6, <1>7 DEF Cooking
<1>9. CASE reader' = Terminals!Out /\ signal' = FALSE
  BY <1>1, <1>2, <1>8, <1>9, ReaderReturns DEF TerminalIInv
<1>10. CASE r.nr # 0 /\ signal' = signal
            /\ reader' = IF rest # <<>> THEN r ELSE [r EXCEPT !.pc = "loop", !.flag = tty.termios.time]
  <2>1. /\ reader.nr \in 0 .. MaxNr /\ reader.got \in 0 .. MaxNr /\ reader.nr >= 1
        /\ reader.got + reader.nr <= MaxNr /\ MaxNr \in Nat
    BY <1>1, <1>2, TerminalNumbers DEF Reads, Reader
  <2>2. PICK nr \in 0 .. MaxNr : nr = reader.nr - 1
    BY <2>1
  <2>3. PICK got \in 0 .. MaxNr : got = reader.got + 1
    BY <2>1
  <2>4. nr >= 1 /\ got + nr <= MaxNr /\ got # 0
    <3>1. r.nr = nr
      BY <1>1, <2>2 DEF Reader
    <3> QED
      BY <1>10, <2>1, <2>2, <2>3, <3>1
  <2>5. r = [reader EXCEPT !.nr = nr, !.got = got]
    BY <1>1, <2>2, <2>3 DEF Reader
  <2>6. r \in Reader /\ r.nr = nr /\ r.got = got /\ r.pc = "get"
    BY <1>1, <1>2, <2>5 DEF Reader
  <2> HIDE DEF r
  <2>7. CASE rest # <<>>
    <3>1. reader' = r
      BY <1>10, <2>7
    <3>2. Reads(r, tty')
      BY <1>6, <2>4, <2>6, <2>7 DEF Reads
    <3> QED
      BY <1>1, <1>2, <1>8, <1>10, <3>1, <3>2 DEF TerminalIInv
  <2>8. CASE rest = <<>>
    <3>1. reader' = [r EXCEPT !.pc = "loop", !.flag = tty.termios.time]
      BY <1>10, <2>8
    <3>2. PICK f \in BOOLEAN : f = tty.termios.time
      BY <1>1
    <3>3. reader' \in Reader /\ reader'.nr = nr /\ reader'.got = got /\ reader'.pc = "loop"
      BY <2>6, <3>1, <3>2 DEF Reader
    <3>4. Reads(reader', tty')
      BY <2>4, <3>3 DEF Reads
    <3> QED
      BY <1>1, <1>2, <1>8, <1>10, <3>4 DEF TerminalIInv
  <2> QED
    BY <2>7, <2>8
<1> QED
  BY <1>3, <1>9, <1>10

LEMMA SignalCame ==
  ASSUME TerminalIInv, Terminals!Signal
  PROVE  TerminalIInv'
<1>1. /\ tty' = tty /\ setup' = setup /\ signal' = TRUE /\ reader' = [reader EXCEPT !.pc = "loop"]
      /\ reader.pc \in {"loop", "asleep"}
  BY DEF Terminals!Signal
<1>2. Reads(reader', tty)
  BY <1>1 DEF TerminalIInv, Reads, Reader
<1> QED
  BY <1>1, <1>2 DEF TerminalIInv

LEMMA TerminalInvariant ==
  ASSUME NothingErased
  PROVE  Spec => []TerminalIInv
<1>1. Init => TerminalIInv
  BY TerminalInit DEF Init
<1>2. TerminalIInv /\ [Next]_vars => TerminalIInv'
  <2> SUFFICES ASSUME TerminalIInv, [Next]_vars
               PROVE  TerminalIInv'
    OBVIOUS
  <2>1. CASE TerminalStep
    <3>1. Terminals!Next
      BY <2>1 DEF TerminalStep
    <3> QED
      BY <3>1, KeyPressed, ModeChanged, ReadBegins, ReaderLooks, CharacterRead, SignalCame DEF Terminals!Next
  <2>2. CASE UNCHANGED <<tty, reader, signal, setup>>
    BY <2>2 DEF TerminalIInv
  <2>3. TerminalStep \/ UNCHANGED <<tty, reader, signal, setup>>
    BY DEF Next, PipeStep, FloppyStep, ConsoleStep, SuperStep, vars, terminalVars
  <2> QED
    BY <2>1, <2>2, <2>3
<1> QED
  BY <1>1, <1>2, PTL DEF Spec

(* secondary.data is the number of lines in the secondary queue, and a     *)
(* read takes what is there, whatever order keys, reads, signals and       *)
(* changes of mode come in: copy_to_cooked() counts line ends in and       *)
(* tty_read() counts them out.  Where a key may come between the tests of  *)
(* tty_read() and its GETCH(), it must not be ERASE or KILL, which would   *)
(* take back the character that was tested.                                *)
THEOREM LinesCounted ==
  ASSUME NothingErased
  PROVE  Spec => []TerminalExact
<1>1. TerminalIInv => TerminalExact
  BY TerminalExactHolds DEF TerminalExact
<1> QED
  BY <1>1, TerminalInvariant, PTL

-----------------------------------------------------------------------------
(* The console: lines of the screen and addresses.                         *)
Row(n) == n * Cols
Size == Rows * Cols
Area == Lines * Cols

LEMMA ConsoleNumbers ==
  /\ Cols \in Nat \ {0} /\ Lines \in Nat \ {0} /\ Rows \in Nat /\ Rows >= Lines
  /\ TabStop \in Nat \ {0} /\ TabStop <= Cols /\ NPAR \in Nat \ {0, 1}
  /\ MaxPar \in Nat /\ {7, 15, 112} \subseteq Attr
BY DevicesAssumption DEF DevicesAssumption, Consoles!ConsoleAssumption

LEMMA RowTypes == \A n \in Nat : Row(n) \in Nat
BY ConsoleNumbers DEF Row

LEMMA RowNext == \A n \in Int : Row(n + 1) = Row(n) + Cols /\ Row(n - 1) = Row(n) - Cols
BY ConsoleNumbers DEF Row

LEMMA RowSum == \A m, n \in Int : Row(m + n) = Row(m) + Row(n) /\ Row(m - n) = Row(m) - Row(n)
BY ConsoleNumbers DEF Row

LEMMA RowOrder == \A m, n \in Nat : m <= n => Row(m) <= Row(n)
<1> TAKE m, n \in Nat
<1>1. ASSUME m <= n PROVE Row(m) <= Row(n)
  <2>1. n - m \in Nat /\ Row(n - m) = Row(n) - Row(m) /\ Row(n) \in Nat /\ Row(m) \in Nat
    BY <1>1, RowSum, RowTypes
  <2>2. Row(n - m) \in Nat
    BY <2>1, RowTypes
  <2> QED
    BY <2>1, <2>2
<1> QED
  BY <1>1

LEMMA RowBelow == \A m, n \in Nat : m < n => Row(m) + Cols <= Row(n)
<1> TAKE m, n \in Nat
<1>1. ASSUME m < n PROVE Row(m) + Cols <= Row(n)
  <2>1. m + 1 \in Nat /\ m + 1 <= n /\ Row(m + 1) = Row(m) + Cols
    BY <1>1, RowNext
  <2> QED
    BY <2>1, RowOrder
<1> QED
  BY <1>1

LEMMA Sizes ==
  /\ Row(0) = 0 /\ Row(1) = Cols /\ Row(Lines) = Area
  /\ Area \in Nat /\ Size \in Nat /\ Cols <= Area /\ Area <= Size
  /\ Consoles!Address = 0 .. Size - 1
<1>1. Row(0) = 0 /\ Row(1) = Cols
  BY ConsoleNumbers DEF Row
<1>2. Row(Lines) = Area /\ Row(Rows) = Size
  BY DEF Row, Area, Size
<1>3. Row(1) <= Row(Lines) /\ Row(Lines) <= Row(Rows)
  BY ConsoleNumbers, RowOrder
<1>4. Area \in Nat /\ Size \in Nat
  BY <1>2, ConsoleNumbers, RowTypes
<1>5. Consoles!Address = 0 .. Size - 1
  BY DEF Consoles!Address, Size
<1> QED
  BY <1>1, <1>2, <1>3, <1>4, <1>5

LEMMA DivRow ==
  ASSUME NEW c \in Nat, NEW k \in Int
  PROVE  c \div Cols >= k <=> c >= Row(k)
<1>1. Cols \in Nat \ {0}
  BY ConsoleNumbers
<1> DEFINE q == c \div Cols
<1>2. q \in Nat /\ Row(q) <= c /\ c < Row(q) + Cols
  BY <1>1 DEF Row
<1> HIDE DEF q
<1>3. CASE k < 0
  <2>0. 0 - k \in Nat
    BY <1>3
  <2>a. Row(0 - k) = Row(0) - Row(k)
    BY <1>1 DEF Row
  <2>b. Row(0 - k) \in Nat
    BY <2>0, RowTypes
  <2>1. Row(0 - k) = Row(0) - Row(k) /\ Row(0 - k) \in Nat /\ Row(0) = 0
    BY <2>a, <2>b, Sizes
  <2>2. Row(k) \in Int /\ Row(k) <= 0
    BY <1>1, <2>1 DEF Row
  <2> QED
    BY <1>2, <1>3, <2>2 DEF q
<1>4. CASE k \in Nat
  <2>1. Row(k) \in Nat /\ Row(q) \in Nat
    BY <1>2, <1>4, RowTypes
  <2>2. ASSUME q >= k PROVE c >= Row(k)
    BY <1>2, <1>4, <2>1, <2>2, RowOrder
  <2>3. ASSUME q < k PROVE c < Row(k)
    <3>1. Row(q) + Cols <= Row(k)
      BY <1>2, <1>4, <2>3, RowBelow
    <3> QED
      BY <1>1, <1>2, <2>1, <3>1
  <2> QED
    BY <1>2, <1>4, <2>1, <2>2, <2>3 DEF q
<1> QED
  BY <1>3, <1>4

(* The state of the console: the cursor is where its column and line say.  *)
Cell == Attr \cup {0}
Memory == [Consoles!Address -> Cell]
Registers ==
  [mem : Memory, origin : Nat, scr_end : Nat, pos : Nat, x : Nat, y : Nat,
   top : Nat, bottom : Nat, saved_x : Nat, saved_y : Nat,
   state : 0 .. 3, npar : Consoles!Par, par : [Consoles!Par -> Nat], attr : Attr]

Placed(o, e, p, x, y) ==
  /\ e = o + Area /\ e <= Size
  /\ p = o + Row(y) + x /\ x <= Cols /\ y < Lines

Sound(s) ==
  /\ s \in Registers
  /\ Placed(s.origin, s.scr_end, s.pos, s.x, s.y)
  /\ s.top < s.bottom /\ s.bottom <= Lines
  /\ s.saved_x <= Cols /\ s.saved_y < Lines

Set(s, m, o, e, p, x, y) ==
  [s EXCEPT !.mem = m, !.origin = o, !.scr_end = e, !.pos = p, !.x = x, !.y = y]

(* What is seen, the part of the state that operations of the screen leave *)
(* alone, and the part that they all leave alone.                          *)
Shown(s) == [c \in 0 .. Area - 1 |-> s.mem[s.origin + c]]
SameRegion(s, t) == t.top = s.top /\ t.bottom = s.bottom

LEMMA SoundTypes ==
  ASSUME NEW s, Sound(s)
  PROVE  /\ s \in Registers /\ s.mem \in Memory
         /\ s.origin \in Nat /\ s.scr_end \in Nat /\ s.pos \in Nat
         /\ s.x \in Nat /\ s.y \in Nat /\ s.top \in Nat /\ s.bottom \in Nat
         /\ s.saved_x \in Nat /\ s.saved_y \in Nat
         /\ s.scr_end = s.origin + Area /\ s.scr_end <= Size
         /\ s.pos = s.origin + Row(s.y) + s.x /\ s.x <= Cols /\ s.y < Lines
         /\ s.top < s.bottom /\ s.bottom <= Lines /\ s.attr \in Attr
         /\ s.saved_x <= Cols /\ s.saved_y < Lines
         /\ s.npar \in Consoles!Par /\ s.par \in [Consoles!Par -> Nat]
<1>1. s \in Registers /\ Placed(s.origin, s.scr_end, s.pos, s.x, s.y)
  BY DEF Sound
<1>2. /\ s.scr_end = s.origin + Area /\ s.scr_end <= Size
      /\ s.pos = s.origin + Row(s.y) + s.x /\ s.x <= Cols /\ s.y < Lines
  BY <1>1 DEF Placed
<1>3. /\ s.top < s.bottom /\ s.bottom <= Lines
      /\ s.saved_x <= Cols /\ s.saved_y < Lines
  BY DEF Sound
<1>4. /\ s.mem \in Memory
      /\ s.origin \in Nat /\ s.scr_end \in Nat /\ s.pos \in Nat
      /\ s.x \in Nat /\ s.y \in Nat /\ s.top \in Nat /\ s.bottom \in Nat
      /\ s.saved_x \in Nat /\ s.saved_y \in Nat /\ s.attr \in Attr
      /\ s.npar \in Consoles!Par /\ s.par \in [Consoles!Par -> Nat]
  BY <1>1 DEF Registers
<1> QED
  BY <1>1, <1>2, <1>3, <1>4

LEMMA SetFields ==
  ASSUME NEW s \in Registers,
         NEW m \in Memory, NEW o \in Nat, NEW e \in Nat, NEW p \in Nat, NEW x \in Nat, NEW y \in Nat
  PROVE  /\ Set(s, m, o, e, p, x, y) \in Registers
         /\ Set(s, m, o, e, p, x, y).mem = m
         /\ Set(s, m, o, e, p, x, y).origin = o
         /\ Set(s, m, o, e, p, x, y).scr_end = e
         /\ Set(s, m, o, e, p, x, y).pos = p
         /\ Set(s, m, o, e, p, x, y).x = x
         /\ Set(s, m, o, e, p, x, y).y = y
         /\ Set(s, m, o, e, p, x, y).top = s.top
         /\ Set(s, m, o, e, p, x, y).bottom = s.bottom
         /\ Set(s, m, o, e, p, x, y).saved_x = s.saved_x
         /\ Set(s, m, o, e, p, x, y).saved_y = s.saved_y
         /\ Set(s, m, o, e, p, x, y).attr = s.attr
         /\ Set(s, m, o, e, p, x, y).state = s.state
BY DEF Set, Registers

(* From s to a sound state with another memory, origin and cursor.         *)
Becomes(s, t, m, o, x, y) ==
  /\ Sound(t) /\ SameRegion(s, t) /\ t.x = x /\ t.y = y /\ t.attr = s.attr
  /\ t.mem = m /\ t.origin = o

LEMMA SetSound ==
  ASSUME NEW s, Sound(s),
         NEW m \in Memory, NEW o \in Nat, NEW e \in Nat, NEW p \in Nat, NEW x \in Nat, NEW y \in Nat,
         Placed(o, e, p, x, y)
  PROVE  Becomes(s, Set(s, m, o, e, p, x, y), m, o, x, y)
<1> DEFINE t == Set(s, m, o, e, p, x, y)
<1>1. s \in Registers /\ s.top < s.bottom /\ s.bottom <= Lines /\ s.saved_x <= Cols /\ s.saved_y < Lines
  BY DEF Sound
<1>2. /\ t \in Registers /\ t.mem = m /\ t.origin = o /\ t.scr_end = e /\ t.pos = p
      /\ t.x = x /\ t.y = y /\ t.top = s.top /\ t.bottom = s.bottom
      /\ t.saved_x = s.saved_x /\ t.saved_y = s.saved_y /\ t.attr = s.attr
  BY <1>1, SetFields
<1> HIDE DEF t
<1>3. Sound(t)
  BY <1>1, <1>2 DEF Sound
<1>4. Becomes(s, t, m, o, x, y)
  BY <1>2, <1>3 DEF SameRegion, Becomes
<1> QED
  BY <1>4 DEF t

(* A move of the cursor.                                                   *)
Stirs(s, t) == Sound(t) /\ SameRegion(s, t) /\ Shown(t) = Shown(s) /\ t.attr = s.attr

MovesTo(s, t, x, y) == Stirs(s, t) /\ t.x = x /\ t.y = y

LEMMA CursorMoves ==
  ASSUME NEW s, Sound(s), NEW p \in Nat, NEW x \in Nat, NEW y \in Nat,
         x <= Cols, y < Lines, p = s.origin + Row(y) + x
  PROVE  MovesTo(s, Set(s, s.mem, s.origin, s.scr_end, p, x, y), x, y)
<1>1. Placed(s.origin, s.scr_end, p, x, y)
  BY SoundTypes DEF Placed
<1>2. s.mem \in Memory /\ s.origin \in Nat /\ s.scr_end \in Nat
  BY SoundTypes
<1>3. Becomes(s, Set(s, s.mem, s.origin, s.scr_end, p, x, y), s.mem, s.origin, x, y)
  BY <1>1, <1>2, SetSound
<1> QED
  BY <1>3 DEF Becomes, Stirs, MovesTo, Shown

LEMMA StaysThere ==
  ASSUME NEW s, Sound(s)
  PROVE  Stirs(s, s)
BY DEF Stirs, SameRegion

LEMMA GotoMoves ==
  ASSUME NEW s, Sound(s), NEW x \in Int, NEW y \in Int
  PROVE  Stirs(s, Consoles!gotoxy(s, x, y))
<1>1. CASE x \notin 0 .. Cols \/ y \notin 0 .. Lines - 1
  <2>1. Consoles!gotoxy(s, x, y) = s
    BY <1>1 DEF Consoles!gotoxy
  <2> QED
    BY <2>1, StaysThere
<1>2. CASE x \in 0 .. Cols /\ y \in 0 .. Lines - 1
  <2>1. x \in Nat /\ y \in Nat /\ x <= Cols /\ y < Lines /\ Row(y) \in Nat /\ s.origin \in Nat
    BY <1>2, ConsoleNumbers, RowTypes, SoundTypes
  <2>2. PICK p \in Nat : p = s.origin + Row(y) + x
    BY <2>1
  <2>3. Consoles!gotoxy(s, x, y) = [s EXCEPT !.x = x, !.y = y, !.pos = p]
    BY <1>2, <2>2 DEF Consoles!gotoxy, Row
  <2>4. [s EXCEPT !.x = x, !.y = y, !.pos = p] = Set(s, s.mem, s.origin, s.scr_end, p, x, y)
    BY SoundTypes DEF Set, Registers
  <2> QED
    BY <2>1, <2>2, <2>3, <2>4, CursorMoves DEF MovesTo
<1> QED
  BY <1>1, <1>2

LEMMA ReturnMoves ==
  ASSUME NEW s, Sound(s)
  PROVE  Stirs(s, Consoles!cr(s))
<1>1. /\ s \in Registers /\ s.pos \in Nat /\ s.x \in Nat /\ s.y \in Nat /\ s.origin \in Nat
      /\ s.pos = s.origin + Row(s.y) + s.x /\ s.y < Lines /\ Row(s.y) \in Nat /\ Cols \in Nat
  BY ConsoleNumbers, RowTypes, SoundTypes
<1>2. PICK p \in Nat : p = s.pos - s.x /\ p = s.origin + Row(s.y) + 0
  BY <1>1
<1>3. Consoles!cr(s) = Set(s, s.mem, s.origin, s.scr_end, p, 0, s.y)
  BY <1>1, <1>2 DEF Consoles!cr, Set, Registers
<1> QED
  BY <1>1, <1>2, <1>3, CursorMoves DEF MovesTo

LEMMA BackMoves ==
  ASSUME NEW s, Sound(s)
  PROVE  /\ Stirs(s, Consoles!bs(s)) /\ Consoles!bs(s).y = s.y
         /\ s.x # 0 => Consoles!bs(s).x = s.x - 1 /\ Consoles!bs(s).pos = s.pos - 1
<1>1. /\ s \in Registers /\ s.pos \in Nat /\ s.x \in Nat /\ s.y \in Nat /\ s.origin \in Nat
      /\ s.pos = s.origin + Row(s.y) + s.x /\ s.y < Lines /\ Row(s.y) \in Nat /\ Cols \in Nat
      /\ s.x <= Cols /\ s.mem \in Memory /\ s.scr_end \in Nat
  BY ConsoleNumbers, RowTypes, SoundTypes
<1>2. CASE s.x = 0
  <2>1. Consoles!bs(s) = s
    BY <1>2 DEF Consoles!bs
  <2> QED
    BY <1>2, <2>1, StaysThere
<1>3. CASE s.x # 0
  <2>1. PICK p \in Nat, x \in Nat : p = s.pos - 1 /\ x = s.x - 1 /\ p = s.origin + Row(s.y) + x /\ x <= Cols
    BY <1>1, <1>3
  <2>2. Consoles!bs(s) = Set(s, s.mem, s.origin, s.scr_end, p, x, s.y)
    BY <1>1, <1>3, <2>1 DEF Consoles!bs, Set, Registers
  <2>3. Consoles!bs(s).pos = p
    BY <1>1, <2>2 DEF Set, Registers
  <2> QED
    BY <1>1, <2>1, <2>2, <2>3, CursorMoves DEF MovesTo
<1> QED
  BY <1>2, <1>3

LEMMA CursorSaved ==
  ASSUME NEW s, Sound(s)
  PROVE  Stirs(s, Consoles!save_cur(s)) /\ Stirs(s, Consoles!restore_cur(s))
<1>1. /\ s \in Registers /\ s.saved_x \in Nat /\ s.saved_y \in Nat /\ s.x \in Nat /\ s.y \in Nat
      /\ s.x <= Cols /\ s.y < Lines
  BY SoundTypes
<1>2. Stirs(s, Consoles!restore_cur(s))
  BY <1>1, GotoMoves DEF Consoles!restore_cur
<1> DEFINE t == [s EXCEPT !.saved_x = s.x, !.saved_y = s.y]
<1>3. Consoles!save_cur(s) = t
  BY DEF Consoles!save_cur
<1>4. /\ t \in Registers /\ t.saved_x = s.x /\ t.saved_y = s.y /\ t.mem = s.mem /\ t.origin = s.origin
      /\ t.scr_end = s.scr_end /\ t.pos = s.pos /\ t.x = s.x /\ t.y = s.y
      /\ t.top = s.top /\ t.bottom = s.bottom /\ t.attr = s.attr
  BY <1>1 DEF Registers
<1> HIDE DEF t
<1>5. Sound(t)
  BY <1>1, <1>4 DEF Sound
<1>6. Stirs(s, t)
  BY <1>4, <1>5 DEF Stirs, SameRegion, Shown
<1> QED
  BY <1>2, <1>3, <1>6

(* What the screen shows after cells are cleared or lines scroll.          *)
Picture == [0 .. Area - 1 -> Cell]
Wiped(f, i, n) == [c \in 0 .. Area - 1 |-> IF c \in i .. i + n - 1 THEN 0 ELSE f[c]]
Risen(f, t, b, n) ==
  [c \in 0 .. Area - 1 |-> IF c < Row(t) \/ c >= Row(b) THEN f[c]
                           ELSE IF c + Row(n) < Row(b) THEN f[c + Row(n)] ELSE 0]
Sunk(f, t, b, n) ==
  [c \in 0 .. Area - 1 |-> IF c < Row(t) \/ c >= Row(b) THEN f[c]
                           ELSE IF c - Row(n) >= Row(t) THEN f[c - Row(n)] ELSE 0]

(* The screen changes and the cursor stays.                                *)
Edits(s, t, f) ==
  /\ Sound(t) /\ SameRegion(s, t) /\ t.x = s.x /\ t.y = s.y /\ t.attr = s.attr
  /\ Shown(t) = f

LEMMA MemoryEdited ==
  ASSUME NEW s, Sound(s), NEW m \in Memory
  PROVE  Edits(s, [s EXCEPT !.mem = m], [c \in 0 .. Area - 1 |-> m[s.origin + c]])
<1>1. /\ s \in Registers /\ s.origin \in Nat /\ s.scr_end \in Nat /\ s.pos \in Nat /\ s.x \in Nat /\ s.y \in Nat
      /\ Placed(s.origin, s.scr_end, s.pos, s.x, s.y)
  BY SoundTypes DEF Sound
<1>2. Becomes(s, Set(s, m, s.origin, s.scr_end, s.pos, s.x, s.y), m, s.origin, s.x, s.y)
  BY <1>1, SetSound
<1>3. Set(s, m, s.origin, s.scr_end, s.pos, s.x, s.y) = [s EXCEPT !.mem = m]
  BY <1>1 DEF Set, Registers
<1>4. Becomes(s, [s EXCEPT !.mem = m], m, s.origin, s.x, s.y)
  BY <1>2, <1>3
<1> QED
  BY <1>4 DEF Becomes, Edits, Shown

LEMMA ShownIs ==
  ASSUME NEW s, Sound(s)
  PROVE  Shown(s) \in Picture /\ \A c \in 0 .. Area - 1 : Shown(s)[c] = s.mem[s.origin + c]
<1>1. s.mem \in Memory /\ s.origin \in Nat /\ s.origin + Area <= Size
  BY SoundTypes
<1> QED
  BY <1>1, Sizes DEF Shown, Picture, Memory

LEMMA FilledIs ==
  ASSUME NEW m \in Memory, NEW a \in Int, NEW n \in Int
  PROVE  /\ Consoles!Filled(m, a, n) \in Memory
         /\ \A c \in Consoles!Address :
               Consoles!Filled(m, a, n)[c] = IF c \in a .. a + n - 1 THEN 0 ELSE m[c]
BY DEF Consoles!Filled, Memory, Cell, Consoles!Blank

LEMMA CopiedIs ==
  ASSUME NEW m \in Memory, NEW from \in Nat, NEW to \in Nat, NEW n \in Int, from + n <= Size
  PROVE  /\ Consoles!Copied(m, from, to, n) \in Memory
         /\ \A c \in Consoles!Address :
               Consoles!Copied(m, from, to, n)[c] = IF c \in to .. to + n - 1 THEN m[from + c - to] ELSE m[c]
<1>1. Consoles!Address = 0 .. Size - 1 /\ Size \in Nat
  BY Sizes
<1>2. \A c \in Consoles!Address : c \in to .. to + n - 1 => from + c - to \in Consoles!Address
  BY <1>1
<1> QED
  BY <1>2 DEF Consoles!Copied, Memory

LEMMA CellsCleared ==
  ASSUME NEW s, Sound(s), NEW i \in Int, NEW n \in Int
  PROVE  Edits(s, [s EXCEPT !.mem = Consoles!Filled(s.mem, s.origin + i, n)], Wiped(Shown(s), i, n))
<1>1. s.mem \in Memory /\ s.origin \in Nat /\ s.origin + Area <= Size
  BY SoundTypes
<1>2. Size \in Nat /\ Area \in Nat /\ Consoles!Address = 0 .. Size - 1
  BY Sizes
<1>3. PICK m \in Memory :
         /\ m = Consoles!Filled(s.mem, s.origin + i, n)
         /\ \A c \in Consoles!Address : m[c] = IF c \in s.origin + i .. s.origin + i + n - 1 THEN 0 ELSE s.mem[c]
  BY <1>1, FilledIs
<1>4. [c \in 0 .. Area - 1 |-> m[s.origin + c]] = Wiped(Shown(s), i, n)
  <2>1. \A c \in 0 .. Area - 1 : s.origin + c \in Consoles!Address
    BY <1>1, <1>2
  <2>2. ASSUME NEW c \in 0 .. Area - 1
        PROVE  m[s.origin + c] = IF c \in i .. i + n - 1 THEN 0 ELSE Shown(s)[c]
    <3>1. PICK o \in Nat, a \in Consoles!Address : o = s.origin /\ a = o + c
      BY <1>1, <2>1
    <3>2. a \in o + i .. o + i + n - 1 <=> c \in i .. i + n - 1
      BY <1>2, <3>1
    <3>3. m[a] = IF a \in o + i .. o + i + n - 1 THEN 0 ELSE s.mem[a]
      BY <1>3, <3>1
    <3>4. Shown(s)[c] = s.mem[a]
      BY <3>1, ShownIs
    <3> QED
      BY <3>1, <3>2, <3>3, <3>4
  <2> QED
    BY <2>2 DEF Wiped
<1> QED
  BY <1>3, <1>4, MemoryEdited

(* The lines that scroll start at cell T and end before cell B.            *)
Fits(o, T, B) == T + Cols <= B /\ B <= Area /\ o + Area <= Size

(* Cells T + Cols .. B - 1 of the screen move to T, and the last line of   *)
(* them is cleared.                                                        *)
LEMMA CellsRaised ==
  ASSUME NEW m \in Memory, NEW o \in Nat, NEW T \in Nat, NEW B \in Nat,
         Fits(o, T, B)
  PROVE  \E m2 \in Memory :
             /\ m2 = Consoles!Filled(Consoles!Copied(m, o + (T + Cols), o + T, B - T - Cols), o + (B - Cols), Cols)
             /\ \A c \in 0 .. Area - 1 :
                  m2[o + c] = IF c < T \/ c >= B THEN m[o + c]
                              ELSE IF c + Cols < B THEN m[o + (c + Cols)] ELSE 0
<1>1. /\ Size \in Nat /\ Area \in Nat /\ Cols \in Nat /\ Consoles!Address = 0 .. Size - 1
      /\ T + Cols <= B /\ B <= Area /\ o + Area <= Size
  BY Sizes, ConsoleNumbers DEF Fits
<1>2. PICK n \in Nat : n = B - T - Cols
  BY <1>1
<1>3. PICK from \in Nat : from = o + (T + Cols)
  BY <1>1
<1>4. PICK to \in Nat : to = o + T
  OBVIOUS
<1>5. PICK final \in Nat : final = o + (B - Cols)
  BY <1>1
<1>6. from + n <= Size
  BY <1>1, <1>2, <1>3
<1>7. PICK m1 \in Memory :
         /\ m1 = Consoles!Copied(m, from, to, n)
         /\ \A c \in 0 .. Size - 1 : m1[c] = IF c \in to .. to + n - 1 THEN m[from + c - to] ELSE m[c]
  <2>1. Consoles!Copied(m, from, to, n) \in Memory
    BY <1>6, CopiedIs
  <2>2. \A c \in Consoles!Address :
          Consoles!Copied(m, from, to, n)[c] = IF c \in to .. to + n - 1 THEN m[from + c - to] ELSE m[c]
    BY <1>6, CopiedIs
  <2> QED
    BY <1>1, <2>1, <2>2
<1>8. PICK m2 \in Memory :
         /\ m2 = Consoles!Filled(m1, final, Cols)
         /\ \A c \in 0 .. Size - 1 : m2[c] = IF c \in final .. final + Cols - 1 THEN 0 ELSE m1[c]
  <2>1. Consoles!Filled(m1, final, Cols) \in Memory
    BY <1>1, FilledIs
  <2>2. \A c \in Consoles!Address :
          Consoles!Filled(m1, final, Cols)[c] = IF c \in final .. final + Cols - 1 THEN 0 ELSE m1[c]
    BY <1>1, FilledIs
  <2> QED
    BY <1>1, <2>1, <2>2
<1>9. ASSUME NEW c \in 0 .. Area - 1
      PROVE  m2[o + c] = IF c < T \/ c >= B THEN m[o + c]
                         ELSE IF c + Cols < B THEN m[o + (c + Cols)] ELSE 0
  <2>1. o + c \in 0 .. Size - 1
    BY <1>1
  <2>2. m2[o + c] = IF o + c \in final .. final + Cols - 1 THEN 0 ELSE m1[o + c]
    BY <1>8, <2>1
  <2>3. m1[o + c] = IF o + c \in to .. to + n - 1 THEN m[from + (o + c) - to] ELSE m[o + c]
    BY <1>7, <2>1
  <2>4. o + c \in final .. final + Cols - 1 <=> c < B /\ c + Cols >= B
    BY <1>1, <1>5
  <2>5. o + c \in to .. to + n - 1 <=> c >= T /\ c + Cols < B
    BY <1>1, <1>2, <1>4
  <2>6. from + (o + c) - to = o + (c + Cols)
    BY <1>1, <1>3, <1>4
  <2>7. CASE c < T \/ c >= B
    <3>1. ~(o + c \in final .. final + Cols - 1) /\ ~(o + c \in to .. to + n - 1)
      BY <1>1, <2>4, <2>5, <2>7
    <3> QED
      BY <2>2, <2>3, <2>7, <3>1
  <2>8. CASE c >= T /\ c < B /\ c + Cols < B
    <3>1. ~(o + c \in final .. final + Cols - 1) /\ o + c \in to .. to + n - 1
      BY <1>1, <2>4, <2>5, <2>8
    <3> QED
      BY <2>2, <2>3, <2>6, <2>8, <3>1
  <2>9. CASE c >= T /\ c < B /\ ~(c + Cols < B)
    <3>1. o + c \in final .. final + Cols - 1
      BY <1>1, <2>4, <2>9
    <3> QED
      BY <2>2, <2>9, <3>1
  <2> QED
    BY <1>1, <2>7, <2>8, <2>9
<1>10. m2 = Consoles!Filled(Consoles!Copied(m, o + (T + Cols), o + T, B - T - Cols), o + (B - Cols), Cols)
  BY <1>2, <1>3, <1>4, <1>5, <1>7, <1>8
<1> QED
  BY <1>9, <1>10

(* Cells T .. B - Cols - 1 move down by a line, and the first is cleared.  *)
LEMMA CellsLowered ==
  ASSUME NEW m \in Memory, NEW o \in Nat, NEW T \in Nat, NEW B \in Nat,
         Fits(o, T, B)
  PROVE  \E m2 \in Memory :
             /\ m2 = Consoles!Filled(Consoles!Copied(m, o + T, o + (T + Cols), B - T - Cols), o + T, Cols)
             /\ \A c \in 0 .. Area - 1 :
                  m2[o + c] = IF c < T \/ c >= B THEN m[o + c]
                              ELSE IF c - Cols >= T THEN m[o + (c - Cols)] ELSE 0
<1>1. /\ Size \in Nat /\ Area \in Nat /\ Cols \in Nat /\ Consoles!Address = 0 .. Size - 1
      /\ T + Cols <= B /\ B <= Area /\ o + Area <= Size
  BY Sizes, ConsoleNumbers DEF Fits
<1>2. PICK n \in Nat : n = B - T - Cols
  BY <1>1
<1>3. PICK from \in Nat : from = o + T
  OBVIOUS
<1>4. PICK to \in Nat : to = o + (T + Cols)
  BY <1>1
<1>6. from + n <= Size
  BY <1>1, <1>2, <1>3
<1>7. PICK m1 \in Memory :
         /\ m1 = Consoles!Copied(m, from, to, n)
         /\ \A c \in 0 .. Size - 1 : m1[c] = IF c \in to .. to + n - 1 THEN m[from + c - to] ELSE m[c]
  <2>1. Consoles!Copied(m, from, to, n) \in Memory
    BY <1>6, CopiedIs
  <2>2. \A c \in Consoles!Address :
          Consoles!Copied(m, from, to, n)[c] = IF c \in to .. to + n - 1 THEN m[from + c - to] ELSE m[c]
    BY <1>6, CopiedIs
  <2> QED
    BY <1>1, <2>1, <2>2
<1>8. PICK m2 \in Memory :
         /\ m2 = Consoles!Filled(m1, from, Cols)
         /\ \A c \in 0 .. Size - 1 : m2[c] = IF c \in from .. from + Cols - 1 THEN 0 ELSE m1[c]
  <2>1. Consoles!Filled(m1, from, Cols) \in Memory
    BY <1>1, FilledIs
  <2>2. \A c \in Consoles!Address :
          Consoles!Filled(m1, from, Cols)[c] = IF c \in from .. from + Cols - 1 THEN 0 ELSE m1[c]
    BY <1>1, FilledIs
  <2> QED
    BY <1>1, <2>1, <2>2
<1>9. ASSUME NEW c \in 0 .. Area - 1
      PROVE  m2[o + c] = IF c < T \/ c >= B THEN m[o + c]
                         ELSE IF c - Cols >= T THEN m[o + (c - Cols)] ELSE 0
  <2>1. o + c \in 0 .. Size - 1
    BY <1>1
  <2>2. m2[o + c] = IF o + c \in from .. from + Cols - 1 THEN 0 ELSE m1[o + c]
    BY <1>8, <2>1
  <2>3. m1[o + c] = IF o + c \in to .. to + n - 1 THEN m[from + (o + c) - to] ELSE m[o + c]
    BY <1>7, <2>1
  <2>4. o + c \in from .. from + Cols - 1 <=> c >= T /\ c - Cols < T
    BY <1>1, <1>3
  <2>5. o + c \in to .. to + n - 1 <=> c - Cols >= T /\ c < B
    BY <1>1, <1>2, <1>4
  <2>6. from + (o + c) - to = o + (c - Cols)
    BY <1>1, <1>3, <1>4
  <2>7. CASE c < T \/ c >= B
    <3>1. ~(o + c \in from .. from + Cols - 1) /\ ~(o + c \in to .. to + n - 1)
      BY <1>1, <2>4, <2>5, <2>7
    <3> QED
      BY <2>2, <2>3, <2>7, <3>1
  <2>8. CASE c >= T /\ c < B /\ c - Cols >= T
    <3>1. ~(o + c \in from .. from + Cols - 1) /\ o + c \in to .. to + n - 1
      BY <1>1, <2>4, <2>5, <2>8
    <3> QED
      BY <2>2, <2>3, <2>6, <2>8, <3>1
  <2>9. CASE c >= T /\ c < B /\ ~(c - Cols >= T)
    <3>1. o + c \in from .. from + Cols - 1
      BY <1>1, <2>4, <2>9
    <3> QED
      BY <2>2, <2>9, <3>1
  <2> QED
    BY <1>1, <2>7, <2>8, <2>9
<1>10. m2 = Consoles!Filled(Consoles!Copied(m, o + T, o + (T + Cols), B - T - Cols), o + T, Cols)
  BY <1>2, <1>3, <1>4, <1>7, <1>8
<1> QED
  BY <1>9, <1>10

(* The lines of the region, and their cells.                               *)
LEMMA RegionRows ==
  ASSUME NEW top \in Nat, NEW bottom \in Nat, top < bottom, bottom <= Lines
  PROVE  \E T \in Nat, B \in Nat :
            /\ T = Row(top) /\ B = Row(bottom) /\ T + Cols <= B /\ B <= Area
            /\ (top + 1) * Cols = T + Cols /\ top * Cols = T
            /\ (bottom - top - 1) * Cols = B - T - Cols /\ (bottom - 1) * Cols = B - Cols
<1>1. Cols \in Nat /\ Lines \in Nat /\ Row(Lines) = Area
  BY Sizes, ConsoleNumbers
<1>2. PICK T \in Nat, B \in Nat : T = Row(top) /\ B = Row(bottom)
  BY RowTypes
<1>3. T + Cols <= B /\ B <= Area
  BY <1>1, <1>2, RowBelow, RowOrder
<1>4. (top + 1) * Cols = T + Cols /\ top * Cols = T /\ (bottom - 1) * Cols = B - Cols
  BY <1>1, <1>2 DEF Row
<1>5. (bottom - top - 1) * Cols = B - T - Cols
  <2>1. Row(bottom - top) = B - T /\ bottom - top \in Int
    BY <1>2, RowSum
  <2>2. Row((bottom - top) - 1) = Row(bottom - top) - Cols
    BY <2>1, RowNext
  <2>3. Row((bottom - top) - 1) = (bottom - top - 1) * Cols
    BY DEF Row
  <2> QED
    BY <2>1, <2>2, <2>3
<1> QED
  BY <1>2, <1>3, <1>4, <1>5

LEMMA LinesRaised ==
  ASSUME NEW s, Sound(s)
  PROVE  Edits(s, [s EXCEPT !.mem =
                     Consoles!Filled(
                       Consoles!Copied(s.mem, Consoles!Line(s, s.top + 1), Consoles!Line(s, s.top),
                                       (s.bottom - s.top - 1) * Cols),
                       Consoles!Line(s, s.bottom - 1), Cols)],
                Risen(Shown(s), s.top, s.bottom, 1))
<1>1. /\ s.mem \in Memory /\ s.origin \in Nat /\ s.origin + Area <= Size
      /\ s.top \in Nat /\ s.bottom \in Nat /\ s.top < s.bottom /\ s.bottom <= Lines
  BY SoundTypes
<1>2. Row(1) = Cols /\ Cols \in Nat /\ Area \in Nat
  BY Sizes, ConsoleNumbers
<1>3. PICK T \in Nat, B \in Nat :
            /\ T = Row(s.top) /\ B = Row(s.bottom) /\ T + Cols <= B /\ B <= Area
            /\ (s.top + 1) * Cols = T + Cols /\ s.top * Cols = T
            /\ (s.bottom - s.top - 1) * Cols = B - T - Cols /\ (s.bottom - 1) * Cols = B - Cols
  BY <1>1, RegionRows
<1>a. PICK M \in Memory, O \in Nat : M = s.mem /\ O = s.origin /\ O + Area <= Size
  BY <1>1
<1>b. PICK m \in Memory :
         /\ m = Consoles!Filled(Consoles!Copied(M, O + (T + Cols), O + T, B - T - Cols),
                                O + (B - Cols), Cols)
         /\ \A c \in 0 .. Area - 1 :
                  m[O + c] = IF c < T \/ c >= B THEN M[O + c]
                              ELSE IF c + Cols < B THEN M[O + (c + Cols)] ELSE 0
  <2>1. Fits(O, T, B)
    BY <1>3, <1>a DEF Fits
  <2> QED
    BY <2>1, CellsRaised
<1>4. m \in Memory
         /\ m = Consoles!Filled(Consoles!Copied(s.mem, s.origin + (T + Cols), s.origin + T, B - T - Cols),
                                s.origin + (B - Cols), Cols)
         /\ \A c \in 0 .. Area - 1 :
                  m[s.origin + c] = IF c < T \/ c >= B THEN s.mem[s.origin + c]
                              ELSE IF c + Cols < B THEN s.mem[s.origin + (c + Cols)] ELSE 0
  BY <1>a, <1>b
<1>5. \A c \in 0 .. Area - 1 :
        m[s.origin + c] = IF c < T \/ c >= B THEN Shown(s)[c] ELSE IF c + Cols < B THEN Shown(s)[c + Cols] ELSE 0
  <2> TAKE c \in 0 .. Area - 1
  <2>1. Shown(s)[c] = s.mem[s.origin + c]
    BY ShownIs
  <2>2. c >= T /\ c < B /\ c + Cols < B => Shown(s)[c + Cols] = s.mem[s.origin + (c + Cols)]
    <3>1. c + Cols < B => c + Cols \in 0 .. Area - 1
      BY <1>2, <1>3
    <3> QED
      BY <3>1, ShownIs
  <2> QED
    BY <1>2, <1>4, <2>1, <2>2
<1>6. [c \in 0 .. Area - 1 |-> m[s.origin + c]] = Risen(Shown(s), s.top, s.bottom, 1)
  BY <1>2, <1>3, <1>5 DEF Risen
<1>7. m = Consoles!Filled(
              Consoles!Copied(s.mem, Consoles!Line(s, s.top + 1), Consoles!Line(s, s.top),
                              (s.bottom - s.top - 1) * Cols),
              Consoles!Line(s, s.bottom - 1), Cols)
  BY <1>3, <1>4 DEF Consoles!Line
<1> QED
  BY <1>6, <1>7, MemoryEdited

LEMMA ScrollsDown ==
  ASSUME NEW s, Sound(s)
  PROVE  Edits(s, Consoles!scrdown(s), Sunk(Shown(s), s.top, s.bottom, 1))
<1>1. /\ s.mem \in Memory /\ s.origin \in Nat /\ s.origin + Area <= Size
      /\ s.top \in Nat /\ s.bottom \in Nat /\ s.top < s.bottom /\ s.bottom <= Lines /\ s \in Registers
  BY SoundTypes
<1>2. Row(1) = Cols /\ Cols \in Nat /\ Area \in Nat
  BY Sizes, ConsoleNumbers
<1>3. PICK T \in Nat, B \in Nat :
            /\ T = Row(s.top) /\ B = Row(s.bottom) /\ T + Cols <= B /\ B <= Area
            /\ (s.top + 1) * Cols = T + Cols /\ s.top * Cols = T
            /\ (s.bottom - s.top - 1) * Cols = B - T - Cols /\ (s.bottom - 1) * Cols = B - Cols
  BY <1>1, RegionRows
<1>a. PICK M \in Memory, O \in Nat : M = s.mem /\ O = s.origin /\ O + Area <= Size
  BY <1>1
<1>b. PICK m \in Memory :
         /\ m = Consoles!Filled(Consoles!Copied(M, O + T, O + (T + Cols), B - T - Cols),
                                O + T, Cols)
         /\ \A c \in 0 .. Area - 1 :
                  m[O + c] = IF c < T \/ c >= B THEN M[O + c]
                              ELSE IF c - Cols >= T THEN M[O + (c - Cols)] ELSE 0
  <2>1. Fits(O, T, B)
    BY <1>3, <1>a DEF Fits
  <2> QED
    BY <2>1, CellsLowered
<1>4. m \in Memory
         /\ m = Consoles!Filled(Consoles!Copied(s.mem, s.origin + T, s.origin + (T + Cols), B - T - Cols),
                                s.origin + T, Cols)
         /\ \A c \in 0 .. Area - 1 :
                  m[s.origin + c] = IF c < T \/ c >= B THEN s.mem[s.origin + c]
                              ELSE IF c - Cols >= T THEN s.mem[s.origin + (c - Cols)] ELSE 0
  BY <1>a, <1>b
<1>5. \A c \in 0 .. Area - 1 :
        m[s.origin + c] = IF c < T \/ c >= B THEN Shown(s)[c] ELSE IF c - Cols >= T THEN Shown(s)[c - Cols] ELSE 0
  <2> TAKE c \in 0 .. Area - 1
  <2>1. Shown(s)[c] = s.mem[s.origin + c]
    BY ShownIs
  <2>2. c - Cols >= T => Shown(s)[c - Cols] = s.mem[s.origin + (c - Cols)]
    <3>1. c - Cols >= T => c - Cols \in 0 .. Area - 1
      BY <1>2, <1>3
    <3> QED
      BY <3>1, ShownIs
  <2> QED
    BY <1>2, <1>4, <2>1, <2>2
<1>6. [c \in 0 .. Area - 1 |-> m[s.origin + c]] = Sunk(Shown(s), s.top, s.bottom, 1)
  BY <1>2, <1>3, <1>5 DEF Sunk
<1>7. m = Consoles!Filled(
              Consoles!Copied(s.mem, Consoles!Line(s, s.top), Consoles!Line(s, s.top + 1),
                              (s.bottom - s.top - 1) * Cols),
              Consoles!Line(s, s.top), Cols)
  BY <1>3, <1>4 DEF Consoles!Line
<1>8. Consoles!scrdown(s) = [s EXCEPT !.mem = m]
  BY <1>7 DEF Consoles!scrdown
<1> QED
  BY <1>6, <1>8, MemoryEdited

LEMMA SetEdits ==
  ASSUME NEW s, Sound(s), NEW m \in Memory, NEW o \in Nat, NEW e \in Nat, NEW p \in Nat,
         Placed(o, e, p, s.x, s.y)
  PROVE  Edits(s, Set(s, m, o, e, p, s.x, s.y), [c \in 0 .. Area - 1 |-> m[o + c]])
<1>1. s.x \in Nat /\ s.y \in Nat
  BY SoundTypes
<1>2. Becomes(s, Set(s, m, o, e, p, s.x, s.y), m, o, s.x, s.y)
  BY <1>1, SetSound
<1> QED
  BY <1>2 DEF Becomes, Edits, Shown

(* The whole screen scrolls on an EGA: the origin moves, or the memory is  *)
(* at its end and the screen is copied to the start.                       *)
LEMMA Pans ==
  ASSUME NEW s, Sound(s)
  PROVE  Edits(s, Consoles!Pan(s), Risen(Shown(s), 0, Lines, 1))
<1>1. PICK M \in Memory, O \in Nat, E \in Nat, P \in Nat, X \in Nat, Y \in Nat, R \in Nat :
        /\ M = s.mem /\ O = s.origin /\ E = s.scr_end /\ P = s.pos /\ X = s.x /\ Y = s.y /\ R = Row(s.y)
        /\ E = O + Area /\ E <= Size /\ P = O + R + X /\ X <= Cols /\ Y < Lines
  BY SoundTypes, RowTypes
<1>a. E = O + Area /\ E <= Size /\ P = O + R + X
  BY <1>1
<1>2. /\ Cols \in Nat /\ Area \in Nat /\ Size \in Nat /\ Cols <= Area /\ Area <= Size
      /\ Consoles!Address = 0 .. Size - 1
  BY Sizes, ConsoleNumbers
<1>3. Risen(Shown(s), 0, Lines, 1) =
        [c \in 0 .. Area - 1 |-> IF c + Cols < Area THEN Shown(s)[c + Cols] ELSE 0]
  BY <1>2, Sizes DEF Risen
<1>4. ASSUME NEW m \in Memory, NEW o \in Nat,
             \A c \in 0 .. Area - 1 : m[o + c] = IF c + Cols < Area THEN M[O + (c + Cols)] ELSE 0
      PROVE  [c \in 0 .. Area - 1 |-> m[o + c]] = Risen(Shown(s), 0, Lines, 1)
  <2>1. ASSUME NEW c \in 0 .. Area - 1, c + Cols < Area
        PROVE  Shown(s)[c + Cols] = M[O + (c + Cols)]
    <3>1. c + Cols \in 0 .. Area - 1
      BY <1>2, <2>1
    <3> QED
      BY <1>1, <3>1, ShownIs
  <2> QED
    BY <1>3, <1>4, <2>1
<1>5. s \in Registers /\ Rows * Cols = Size
  BY SoundTypes DEF Size
<1>6. CASE E + Cols > Size
  <2>1. PICK n \in Nat : n = Area - Cols /\ n + Cols = Area
    BY <1>2
  <2>2. PICK from \in Nat : from = O + Cols
    BY <1>2
  <2>3. from + n <= Size /\ from \in Nat /\ 0 \in Nat
    BY <1>a, <1>2, <2>1, <2>2
  <2>4. PICK m1 \in Memory :
           /\ m1 = Consoles!Copied(M, from, 0, n)
           /\ \A c \in Consoles!Address : m1[c] = IF c \in 0 .. 0 + n - 1 THEN M[from + c - 0] ELSE M[c]
    BY <2>3, CopiedIs
  <2>5. PICK m \in Memory :
           /\ m = Consoles!Filled(m1, n, Cols)
           /\ \A c \in Consoles!Address : m[c] = IF c \in n .. n + Cols - 1 THEN 0 ELSE m1[c]
    BY <1>2, FilledIs
  <2>6. ASSUME NEW c \in 0 .. Area - 1
        PROVE  m[0 + c] = IF c + Cols < Area THEN M[O + (c + Cols)] ELSE 0
    <3>1. c \in Consoles!Address /\ 0 + c = c /\ from + c - 0 = O + (c + Cols)
      BY <1>2, <2>2
    <3>2. c + Cols < Area => c \in 0 .. 0 + n - 1 /\ c \notin n .. n + Cols - 1
      BY <1>2, <2>1
    <3>3. ~(c + Cols < Area) => c \in n .. n + Cols - 1
      BY <1>2, <2>1
    <3> QED
      BY <2>4, <2>5, <3>1, <3>2, <3>3
  <2>7. [c \in 0 .. Area - 1 |-> m[0 + c]] = Risen(Shown(s), 0, Lines, 1)
    BY <1>4, <2>6
  <2>8. PICK p \in Nat : p = P - O /\ p = R + X
    BY <1>a
  <2>9. Placed(0, Area, p, s.x, s.y)
    BY <1>1, <1>2, <2>8 DEF Placed
  <2>10. Edits(s, Set(s, m, 0, Area, p, s.x, s.y), [c \in 0 .. Area - 1 |-> m[0 + c]])
    BY <1>2, <2>9, SetEdits
  <2>11. E - O = Area /\ P + Cols - (O + Cols) = p
    BY <1>a, <1>2, <2>8
  <2>12. Consoles!BackToStart(s) = [s EXCEPT !.pos = p, !.origin = 0, !.scr_end = Area]
    BY <1>1, <1>5, <2>11 DEF Consoles!BackToStart
  <2>13. (Lines - 1) * Cols = n
    BY <2>1, RowNext, Sizes, ConsoleNumbers DEF Row
  <2>14. s.scr_end + Cols > Rows * Cols
    BY <1>1, <1>5, <1>6
  <2>15. Consoles!Pan(s) = [Consoles!BackToStart(s) EXCEPT !.mem =
             Consoles!Filled(Consoles!Copied(@, s.origin + Cols, 0, n), n, Cols)]
    BY <2>13, <2>14 DEF Consoles!Pan
  <2>16. Consoles!BackToStart(s).mem = M
    BY <1>1, <1>5, <2>12 DEF Registers
  <2>17. Consoles!Pan(s) = [Consoles!BackToStart(s) EXCEPT !.mem = m]
    BY <1>1, <2>2, <2>4, <2>5, <2>15, <2>16
  <2>18. [Consoles!BackToStart(s) EXCEPT !.mem = m] = Set(s, m, 0, Area, p, s.x, s.y)
    BY <1>5, <2>12 DEF Set, Registers
  <2> QED
    BY <2>7, <2>10, <2>17, <2>18
<1>7. CASE ~(E + Cols > Size)
  <2>1. PICK o \in Nat, e \in Nat, p \in Nat : o = O + Cols /\ e = E + Cols /\ p = P + Cols
    BY <1>2
  <2>2. e - Cols = E /\ e <= Size
    BY <1>2, <1>7, <2>1
  <2>3. PICK m \in Memory :
           /\ m = Consoles!Filled(M, E, Cols)
           /\ \A c \in Consoles!Address : m[c] = IF c \in E .. E + Cols - 1 THEN 0 ELSE M[c]
    BY <1>2, FilledIs
  <2>4. ASSUME NEW c \in 0 .. Area - 1
        PROVE  m[o + c] = IF c + Cols < Area THEN M[O + (c + Cols)] ELSE 0
    <3>1. o + c \in Consoles!Address /\ o + c = O + (c + Cols)
      BY <1>a, <1>2, <2>1, <2>2
    <3>2. o + c \in E .. E + Cols - 1 <=> ~(c + Cols < Area)
      BY <1>a, <1>2, <2>1
    <3> QED
      BY <2>3, <3>1, <3>2
  <2>5. [c \in 0 .. Area - 1 |-> m[o + c]] = Risen(Shown(s), 0, Lines, 1)
    BY <1>4, <2>4
  <2>6. Placed(o, e, p, s.x, s.y)
    <3>1. e = o + Area /\ p = o + R + X
      BY <1>a, <1>2, <2>1
    <3> QED
      BY <1>1, <2>2, <3>1 DEF Placed
  <2>7. Edits(s, Set(s, m, o, e, p, s.x, s.y), [c \in 0 .. Area - 1 |-> m[o + c]])
    BY <2>6, SetEdits
  <2>8. ~(s.scr_end + Cols > Rows * Cols)
    BY <1>1, <1>5, <1>7
  <2>9. Consoles!Pan(s) = [s EXCEPT !.origin = o, !.scr_end = e, !.pos = @ + Cols,
                       !.mem = Consoles!Filled(@, e - Cols, Cols)]
    BY <1>1, <2>1, <2>8 DEF Consoles!Pan
  <2>10. Consoles!Pan(s) = [s EXCEPT !.origin = o, !.scr_end = e, !.pos = p, !.mem = m]
    BY <1>1, <1>5, <2>1, <2>2, <2>3, <2>9 DEF Registers
  <2>11. [s EXCEPT !.origin = o, !.scr_end = e, !.pos = p, !.mem = m] = Set(s, m, o, e, p, s.x, s.y)
    BY <1>5 DEF Set, Registers
  <2> QED
    BY <2>5, <2>7, <2>10, <2>11
<1> QED
  BY <1>6, <1>7

LEMMA ScrollsUp ==
  ASSUME NEW s, Sound(s)
  PROVE  Edits(s, Consoles!scrup(s), Risen(Shown(s), s.top, s.bottom, 1))
<1>1. CASE Ega /\ s.top = 0 /\ s.bottom = Lines
  <2>1. Consoles!scrup(s) = Consoles!Pan(s)
    BY <1>1 DEF Consoles!scrup
  <2> QED
    BY <1>1, <2>1, Pans
<1>2. CASE ~(Ega /\ s.top = 0 /\ s.bottom = Lines)
  <2>1. Consoles!scrup(s) = [s EXCEPT !.mem =
                     Consoles!Filled(
                       Consoles!Copied(s.mem, Consoles!Line(s, s.top + 1), Consoles!Line(s, s.top),
                                       (s.bottom - s.top - 1) * Cols),
                       Consoles!Line(s, s.bottom - 1), Cols)]
    BY <1>2 DEF Consoles!scrup
  <2> QED
    BY <2>1, LinesRaised
<1> QED
  BY <1>1, <1>2

(* Line feeds, which scroll at the ends of the region.                     *)
FedRow(s) == IF s.y + 1 >= s.bottom THEN s.y ELSE s.y + 1
FedPicture(s) == IF s.y + 1 >= s.bottom THEN Risen(Shown(s), s.top, s.bottom, 1) ELSE Shown(s)

Becoming(s, t, f, x, y) ==
  Sound(t) /\ SameRegion(s, t) /\ t.attr = s.attr /\ Shown(t) = f /\ t.x = x /\ t.y = y

LEMMA LineFeeds ==
  ASSUME NEW s, Sound(s)
  PROVE  Becoming(s, Consoles!lf(s), FedPicture(s), s.x, FedRow(s))
<1>1. CASE s.y + 1 < s.bottom
  <2>1. PICK O \in Nat, P \in Nat, X \in Nat, Y \in Nat, R \in Nat, B \in Nat :
          /\ O = s.origin /\ P = s.pos /\ X = s.x /\ Y = s.y /\ R = Row(s.y) /\ B = s.bottom
          /\ P = O + R + X /\ X <= Cols /\ Y + 1 < B /\ B <= Lines
    BY <1>1, SoundTypes, RowTypes
  <2>2. Cols \in Nat /\ Lines \in Nat /\ Row(Y + 1) = R + Cols
    BY <2>1, RowNext, ConsoleNumbers
  <2>a. P = O + R + X /\ X <= Cols /\ Y + 1 < B /\ B <= Lines
    BY <2>1
  <2>3. PICK p \in Nat, y \in Nat : p = P + Cols /\ y = Y + 1 /\ y < Lines /\ p = O + (R + Cols) + X /\ ~(y >= B)
    BY <2>2, <2>a
  <2>4. p = s.origin + Row(y) + s.x /\ s.x <= Cols /\ s.x \in Nat
    BY <2>1, <2>2, <2>3
  <2>5. MovesTo(s, Set(s, s.mem, s.origin, s.scr_end, p, s.x, y), s.x, y)
    BY <2>3, <2>4, CursorMoves
  <2>6. Consoles!lf(s) = [s EXCEPT !.y = y, !.pos = p]
    BY <1>1, <2>1, <2>3, SoundTypes DEF Consoles!lf, Registers
  <2>7. [s EXCEPT !.y = y, !.pos = p] = Set(s, s.mem, s.origin, s.scr_end, p, s.x, y)
    BY SoundTypes DEF Set, Registers
  <2>8. FedRow(s) = y /\ FedPicture(s) = Shown(s)
    BY <2>1, <2>3 DEF FedRow, FedPicture
  <2> QED
    BY <2>5, <2>6, <2>7, <2>8 DEF MovesTo, Stirs, Becoming
<1>2. CASE ~(s.y + 1 < s.bottom)
  <2>1. s.y \in Nat /\ s.bottom \in Nat
    BY SoundTypes
  <2>2. FedRow(s) = s.y /\ FedPicture(s) = Risen(Shown(s), s.top, s.bottom, 1)
    BY <1>2, <2>1 DEF FedRow, FedPicture
  <2>3. Consoles!lf(s) = Consoles!scrup(s)
    BY <1>2 DEF Consoles!lf
  <2> QED
    BY <2>2, <2>3, ScrollsUp DEF Edits, Becoming
<1> QED
  BY <1>1, <1>2

ReversedPicture(s) == IF s.y > s.top THEN Shown(s) ELSE Sunk(Shown(s), s.top, s.bottom, 1)
ReversedRow(s) == IF s.y > s.top THEN s.y - 1 ELSE s.y

LEMMA LineFeedsBack ==
  ASSUME NEW s, Sound(s)
  PROVE  Becoming(s, Consoles!ri(s), ReversedPicture(s), s.x, ReversedRow(s))
<1>1. CASE s.y > s.top
  <2>1. PICK O \in Nat, P \in Nat, X \in Nat, Y \in Nat, R \in Nat, T \in Nat :
          /\ O = s.origin /\ P = s.pos /\ X = s.x /\ Y = s.y /\ R = Row(s.y) /\ T = s.top
          /\ P = O + R + X /\ X <= Cols /\ Y > T /\ Y < Lines
    BY <1>1, SoundTypes, RowTypes
  <2>a. P = O + R + X /\ X <= Cols /\ Y > T /\ Y < Lines
    BY <2>1
  <2>b. Row(Y) = R /\ Y - 1 \in Nat
    BY <2>1, <2>a
  <2>c. Row(Y - 1) = R - Cols
    BY <2>b, RowNext
  <2>2. Cols \in Nat /\ Lines \in Nat /\ Row(Y - 1) = R - Cols /\ Y - 1 \in Nat /\ Row(Y - 1) \in Nat
    BY <2>b, <2>c, RowTypes, ConsoleNumbers
  <2>3. PICK p \in Nat, y \in Nat : p = P - Cols /\ y = Y - 1 /\ y < Lines /\ p = O + (R - Cols) + X
    BY <2>2, <2>a
  <2>4. p = s.origin + Row(y) + s.x /\ s.x <= Cols /\ s.x \in Nat
    BY <2>1, <2>2, <2>3
  <2>5. MovesTo(s, Set(s, s.mem, s.origin, s.scr_end, p, s.x, y), s.x, y)
    BY <2>3, <2>4, CursorMoves
  <2>6. Consoles!ri(s) = [s EXCEPT !.y = y, !.pos = p]
    BY <1>1, <2>1, <2>3, SoundTypes DEF Consoles!ri, Registers
  <2>7. [s EXCEPT !.y = y, !.pos = p] = Set(s, s.mem, s.origin, s.scr_end, p, s.x, y)
    BY SoundTypes DEF Set, Registers
  <2>8. ReversedRow(s) = y /\ ReversedPicture(s) = Shown(s)
    BY <1>1, <2>1, <2>3 DEF ReversedRow, ReversedPicture
  <2> QED
    BY <2>5, <2>6, <2>7, <2>8 DEF MovesTo, Stirs, Becoming
<1>2. CASE ~(s.y > s.top)
  <2>2. ReversedRow(s) = s.y /\ ReversedPicture(s) = Sunk(Shown(s), s.top, s.bottom, 1)
    BY <1>2 DEF ReversedRow, ReversedPicture
  <2>3. Consoles!ri(s) = Consoles!scrdown(s)
    BY <1>2 DEF Consoles!ri
  <2> QED
    BY <2>2, <2>3, ScrollsDown DEF Edits, Becoming
<1> QED
  BY <1>1, <1>2

(* One cell of memory is written where the cursor is.                      *)
LEMMA CellPut ==
  ASSUME NEW s, Sound(s), s.x < Cols, NEW a \in Cell
  PROVE  /\ Edits(s, [s EXCEPT !.mem[s.pos] = a], [Shown(s) EXCEPT ![Row(s.y) + s.x] = a])
         /\ Row(s.y) + s.x \in 0 .. Area - 1
         /\ \E m \in Memory : [s EXCEPT !.mem[s.pos] = a] = [s EXCEPT !.mem = m]
<1>1. PICK M \in Memory, O \in Nat, P \in Nat, X \in Nat, Y \in Nat, R \in Nat :
        /\ M = s.mem /\ O = s.origin /\ P = s.pos /\ X = s.x /\ Y = s.y /\ R = Row(s.y)
        /\ P = O + R + X /\ X < Cols /\ Y < Lines /\ O + Area <= Size
  BY SoundTypes, RowTypes
<1>a. P = O + R + X /\ X < Cols /\ Y < Lines /\ O + Area <= Size
  BY <1>1
<1>2. Cols \in Nat /\ Area \in Nat /\ Size \in Nat /\ Consoles!Address = 0 .. Size - 1 /\ Lines \in Nat
  BY Sizes, ConsoleNumbers
<1>3. R + Cols <= Area
  BY <1>1, <1>a, <1>2, RowBelow, Sizes
<1>4. R + X \in 0 .. Area - 1 /\ P \in 0 .. Size - 1
  BY <1>a, <1>2, <1>3
<1>5. PICK m \in Memory : m = [M EXCEPT ![P] = a]
  BY <1>2, <1>4 DEF Memory
<1>6. [s EXCEPT !.mem[s.pos] = a] = [s EXCEPT !.mem = m]
  BY <1>1, <1>5
<1>7. ASSUME NEW c \in 0 .. Area - 1
      PROVE  m[O + c] = IF c = R + X THEN a ELSE Shown(s)[c]
  <2>1. O + c \in Consoles!Address /\ (O + c = P <=> c = R + X)
    BY <1>a, <1>2
  <2>2. m[O + c] = IF O + c = P THEN a ELSE M[O + c]
    BY <1>5, <2>1 DEF Memory
  <2>3. Shown(s)[c] = M[O + c]
    BY <1>1, ShownIs
  <2> QED
    BY <2>1, <2>2, <2>3
<1>8. [c \in 0 .. Area - 1 |-> m[O + c]] = [Shown(s) EXCEPT ![R + X] = a]
  <2>1. Shown(s) = [c \in 0 .. Area - 1 |-> Shown(s)[c]]
    BY ShownIs DEF Picture
  <2> QED
    BY <1>7, <2>1
<1>9. Edits(s, [s EXCEPT !.mem = m], [c \in 0 .. Area - 1 |-> m[s.origin + c]])
  BY MemoryEdited
<1>10. [c \in 0 .. Area - 1 |-> m[s.origin + c]] = [Shown(s) EXCEPT ![Row(s.y) + s.x] = a]
  BY <1>1, <1>8
<1>11. Edits(s, [s EXCEPT !.mem[s.pos] = a], [Shown(s) EXCEPT ![Row(s.y) + s.x] = a])
  BY <1>6, <1>9, <1>10
<1>12. Row(s.y) + s.x \in 0 .. Area - 1
  BY <1>1, <1>4
<1> QED
  BY <1>5, <1>6, <1>11, <1>12

(* What the character delete, the wrap, a printed character and the        *)
(* tabulator do.                                                           *)
LEMMA CharacterDeleted ==
  ASSUME NEW s, Sound(s), s.x # 0
  PROVE  /\ s.x - 1 \in Nat
         /\ Becoming(s, Consoles!del(s), Wiped(Shown(s), Row(s.y) + s.x - 1, 1), s.x - 1, s.y)
<1> DEFINE t == Consoles!bs(s)
           d == Consoles!del(s)
<1>1. Stirs(s, t) /\ t.y = s.y /\ t.x = s.x - 1 /\ t.pos = s.pos - 1
  BY BackMoves
<1>2. d = [t EXCEPT !.mem[s.pos - 1] = 0]
  BY DEF Consoles!del, Consoles!Blank
<1> HIDE DEF t, d
<1>3. Sound(t) /\ SameRegion(s, t) /\ Shown(t) = Shown(s) /\ t.attr = s.attr
  BY <1>1 DEF Stirs
<1>4. PICK R \in Nat, X \in Nat : R = Row(s.y) /\ X = s.x /\ X # 0 /\ X <= Cols
  BY SoundTypes, RowTypes
<1>5. X - 1 \in Nat /\ X - 1 < Cols /\ R + (X - 1) = R + X - 1
  BY <1>4, ConsoleNumbers
<1>6. t.x < Cols /\ 0 \in Cell
  BY <1>1, <1>4, <1>5 DEF Cell
<1>7. /\ Edits(t, [t EXCEPT !.mem[t.pos] = 0], [Shown(t) EXCEPT ![Row(t.y) + t.x] = 0])
      /\ Row(t.y) + t.x \in 0 .. Area - 1
  BY <1>3, <1>6, CellPut
<1>8. Edits(t, d, [Shown(s) EXCEPT ![R + X - 1] = 0]) /\ R + X - 1 \in 0 .. Area - 1
  BY <1>1, <1>2, <1>3, <1>4, <1>5, <1>7
<1>9. [Shown(s) EXCEPT ![R + X - 1] = 0] = Wiped(Shown(s), R + X - 1, 1)
  <2>1. PICK i \in 0 .. Area - 1 : i = R + X - 1
    BY <1>8
  <2>2. \A c \in 0 .. Area - 1 : c \in i .. i + 1 - 1 <=> c = i
    BY Sizes
  <2>3. Shown(s) = [c \in 0 .. Area - 1 |-> Shown(s)[c]]
    BY ShownIs DEF Picture
  <2>4. [Shown(s) EXCEPT ![i] = 0] = Wiped(Shown(s), i, 1)
    BY <2>2, <2>3 DEF Wiped
  <2> QED
    BY <2>1, <2>4
<1>10. Becoming(s, d, Wiped(Shown(s), R + X - 1, 1), s.x - 1, s.y)
  BY <1>1, <1>3, <1>8, <1>9 DEF Edits, Becoming, SameRegion
<1>11. s.x - 1 \in Nat
  BY <1>4, <1>5
<1> QED
  BY <1>4, <1>10, <1>11 DEF d

(* The column behind the last, or one that a tabulator reached, wraps.     *)
LEMMA Wraps ==
  ASSUME NEW s, Sound(s), NEW n \in Nat, s.x + n >= Cols, s.x + n <= 2 * Cols
  PROVE  /\ s.x + n - Cols \in Nat
         /\ Becoming(s, Consoles!Wrap([s EXCEPT !.x = @ + n, !.pos = @ + n]),
                     FedPicture(s), s.x + n - Cols, FedRow(s))
<1>1. PICK O \in Nat, P \in Nat, X \in Nat, Y \in Nat, R \in Nat :
        /\ O = s.origin /\ P = s.pos /\ X = s.x /\ Y = s.y /\ R = Row(s.y)
        /\ P = O + R + X /\ X <= Cols /\ Y < Lines /\ X + n >= Cols /\ X + n <= 2 * Cols
  BY SoundTypes, RowTypes
<1>a. P = O + R + X /\ X <= Cols /\ Y < Lines /\ X + n >= Cols /\ X + n <= 2 * Cols
  BY <1>1
<1>2. Cols \in Nat
  BY ConsoleNumbers
<1>3. PICK x \in Nat, p \in Nat : x = X + n - Cols /\ p = P + n - Cols /\ x <= Cols /\ p = O + R + x
  BY <1>a, <1>2
<1>4. p = s.origin + Row(s.y) + x
  BY <1>1, <1>3
<1> DEFINE u == Set(s, s.mem, s.origin, s.scr_end, p, x, s.y)
<1>5. MovesTo(s, u, x, s.y)
  BY <1>1, <1>3, <1>4, CursorMoves
<1>6. Consoles!Wrap([s EXCEPT !.x = @ + n, !.pos = @ + n]) = Consoles!lf(u)
  <2>1. s \in Registers
    BY SoundTypes
  <2>2. PICK x1 \in Nat, p1 \in Nat : x1 = X + n /\ p1 = P + n
    OBVIOUS
  <2>3. [s EXCEPT !.x = @ + n, !.pos = @ + n] = [s EXCEPT !.x = x1, !.pos = p1]
    BY <1>1, <2>1, <2>2 DEF Registers
  <2>4. x1 - Cols = x /\ p1 - Cols = p
    BY <1>2, <1>3, <2>2
  <2>5. PICK v \in Registers : v = [s EXCEPT !.x = x1, !.pos = p1] /\ v.x = x1 /\ v.pos = p1
    <3> DEFINE v == [s EXCEPT !.x = x1, !.pos = p1]
    <3>1. v \in Registers /\ v.x = x1 /\ v.pos = p1
      BY <2>1, <2>2 DEF Registers
    <3> QED
      BY <3>1
  <2>6. [v EXCEPT !.x = @ - Cols, !.pos = @ - Cols] = [v EXCEPT !.x = x, !.pos = p]
    BY <2>4, <2>5
  <2>7. [v EXCEPT !.x = x, !.pos = p] = u
    BY <2>1, <2>5 DEF Set, Registers
  <2> QED
    BY <2>3, <2>5, <2>6, <2>7 DEF Consoles!Wrap
<1> HIDE DEF u
<1>7. Becoming(u, Consoles!lf(u), FedPicture(u), u.x, FedRow(u))
  BY <1>5, LineFeeds DEF MovesTo, Stirs
<1>8. FedPicture(u) = FedPicture(s) /\ FedRow(u) = FedRow(s) /\ u.x = x
  BY <1>5 DEF MovesTo, Stirs, SameRegion, FedPicture, FedRow
<1>9. Becoming(s, Consoles!lf(u), FedPicture(s), x, FedRow(s))
  BY <1>5, <1>7, <1>8 DEF Becoming, SameRegion, MovesTo, Stirs
<1> QED
  BY <1>1, <1>3, <1>6, <1>9

(* The cursor moves n columns on in its line.                              *)
LEMMA ColumnsOn ==
  ASSUME NEW s, Sound(s), NEW n \in Nat, s.x + n <= Cols
  PROVE  MovesTo(s, [s EXCEPT !.x = @ + n, !.pos = @ + n], s.x + n, s.y)
<1>1. PICK O \in Nat, P \in Nat, X \in Nat, Y \in Nat, R \in Nat :
        /\ O = s.origin /\ P = s.pos /\ X = s.x /\ Y = s.y /\ R = Row(s.y)
        /\ P = O + R + X /\ X <= Cols /\ Y < Lines /\ X + n <= Cols
  BY SoundTypes, RowTypes
<1>a. P = O + R + X /\ X + n <= Cols
  BY <1>1
<1>2. PICK x \in Nat, p \in Nat : x = X + n /\ p = P + n /\ x <= Cols /\ p = O + R + x
  BY <1>a
<1>3. p = s.origin + Row(s.y) + x
  BY <1>1, <1>2
<1>4. MovesTo(s, Set(s, s.mem, s.origin, s.scr_end, p, x, s.y), x, s.y)
  BY <1>1, <1>2, <1>3, CursorMoves
<1>5. [s EXCEPT !.x = x, !.pos = p] = Set(s, s.mem, s.origin, s.scr_end, p, x, s.y)
  BY SoundTypes DEF Set, Registers
<1>6. [s EXCEPT !.x = @ + n, !.pos = @ + n] = [s EXCEPT !.x = x, !.pos = p]
  BY <1>1, <1>2, SoundTypes DEF Registers
<1> QED
  BY <1>1, <1>2, <1>4, <1>5, <1>6

(* A character is written at the cursor, after the wrap if it must.        *)
PrintedRow(s) == IF s.x >= Cols THEN FedRow(s) ELSE s.y
PrintedColumn(s) == IF s.x >= Cols THEN 0 ELSE s.x
PrintedOn(s) == IF s.x >= Cols THEN FedPicture(s) ELSE Shown(s)

LEMMA CharacterPrinted ==
  ASSUME NEW s, Sound(s)
  PROVE  Becoming(s, Consoles!Printed(s),
                  [PrintedOn(s) EXCEPT ![Row(PrintedRow(s)) + PrintedColumn(s)] = s.attr],
                  PrintedColumn(s) + 1, PrintedRow(s))
<1> DEFINE t == IF s.x >= Cols THEN Consoles!Wrap(s) ELSE s
<1>1. s.x \in Nat /\ s.x <= Cols /\ Cols \in Nat \ {0} /\ s.attr \in Cell /\ s \in Registers /\ s.pos \in Nat
  BY SoundTypes, ConsoleNumbers DEF Cell
<1>2. Becoming(s, t, PrintedOn(s), PrintedColumn(s), PrintedRow(s))
  <2>1. CASE s.x >= Cols
    <3>1. s.x + 0 >= Cols /\ s.x + 0 <= 2 * Cols /\ s.x + 0 - Cols = 0
      BY <1>1, <2>1
    <3>2. [s EXCEPT !.x = @ + 0, !.pos = @ + 0] = s
      <4>1. PICK X \in Nat, P \in Nat : X = s.x /\ P = s.pos
        BY <1>1
      <4>2. X + 0 = X /\ P + 0 = P
        OBVIOUS
      <4>3. [s EXCEPT !.x = X, !.pos = P] = s
        BY <1>1, <4>1 DEF Registers
      <4>4. [s EXCEPT !.x = @ + 0, !.pos = @ + 0] = [s EXCEPT !.x = X, !.pos = P]
        BY <4>1, <4>2
      <4> QED
        BY <4>3, <4>4
    <3>3. Becoming(s, Consoles!Wrap([s EXCEPT !.x = @ + 0, !.pos = @ + 0]), FedPicture(s), s.x + 0 - Cols, FedRow(s))
      BY <3>1, Wraps
    <3> QED
      BY <2>1, <3>1, <3>2, <3>3 DEF PrintedOn, PrintedColumn, PrintedRow
  <2>2. CASE ~(s.x >= Cols)
    BY <2>2 DEF PrintedOn, PrintedColumn, PrintedRow, Becoming, SameRegion
  <2> QED
    BY <2>1, <2>2
<1>3. Consoles!Printed(s) = [t EXCEPT !.mem[t.pos] = s.attr, !.pos = @ + 1, !.x = @ + 1]
  BY DEF Consoles!Printed
<1> HIDE DEF t
<1>4. Sound(t) /\ t.x < Cols /\ t.x + 1 <= Cols /\ Shown(t) = PrintedOn(s) /\ t.attr = s.attr /\ SameRegion(s, t)
      /\ t.x = PrintedColumn(s) /\ t.y = PrintedRow(s)
  BY <1>1, <1>2 DEF Becoming, PrintedColumn
<1> DEFINE u == [t EXCEPT !.mem[t.pos] = s.attr]
           f == [Shown(t) EXCEPT ![Row(t.y) + t.x] = s.attr]
<1>a. Sound(t) /\ t.x < Cols /\ s.attr \in Cell
  BY <1>1, <1>4
<1>5. Edits(t, u, f)
  BY <1>a, CellPut
<1>6. PICK m \in Memory : u = [t EXCEPT !.mem = m]
  BY <1>a, CellPut
<1>7. t \in Registers /\ t.x \in Nat /\ t.pos \in Nat
  BY <1>4, SoundTypes
<1>8. [t EXCEPT !.mem[t.pos] = s.attr, !.pos = @ + 1, !.x = @ + 1] = [u EXCEPT !.x = @ + 1, !.pos = @ + 1]
  BY <1>7 DEF Registers
<1> HIDE DEF u, f
<1>9. Sound(u) /\ SameRegion(t, u) /\ u.x = t.x /\ u.y = t.y /\ u.attr = t.attr /\ Shown(u) = f
  BY <1>5 DEF Edits
<1>10. u.x + 1 <= Cols
  BY <1>4, <1>9
<1>11. MovesTo(u, [u EXCEPT !.x = @ + 1, !.pos = @ + 1], u.x + 1, u.y)
  BY <1>9, <1>10, ColumnsOn
<1>12. Becoming(s, Consoles!Printed(s), f, t.x + 1, t.y)
  BY <1>3, <1>4, <1>8, <1>9, <1>11 DEF MovesTo, Stirs, Becoming, SameRegion
<1> QED
  BY <1>4, <1>12 DEF f

LEMMA Tabulates ==
  ASSUME NEW s, Sound(s)
  PROVE  \E x \in 1 .. Cols :
            \/ x > s.x /\ Becoming(s, Consoles!tab(s), Shown(s), x, s.y)
            \/ x <= s.x /\ Becoming(s, Consoles!tab(s), FedPicture(s), x, FedRow(s))
<1> DEFINE k == TabStop - (s.x % TabStop)
<1>1. PICK X \in Nat : X = s.x /\ X <= Cols
  BY SoundTypes
<1>2. Cols \in Nat /\ TabStop \in Nat \ {0} /\ TabStop <= Cols
  BY ConsoleNumbers
<1>3. PICK n \in Nat : n = TabStop - (X % TabStop) /\ n >= 1 /\ n <= TabStop
  <2>1. X % TabStop \in 0 .. TabStop - 1
    BY <1>2
  <2> QED
    BY <1>2, <2>1
<1>4. PICK x1 \in Nat : x1 = X + n
  OBVIOUS
<1> DEFINE t == [s EXCEPT !.x = @ + n, !.pos = @ + n]
<1>5. t.x = x1
  BY <1>1, <1>4, SoundTypes DEF Registers
<1>6. Consoles!tab(s) = IF t.x > Cols THEN Consoles!Wrap(t) ELSE t
  BY <1>1, <1>3 DEF Consoles!tab
<1>7. CASE x1 > Cols
  <2>1. s.x + n >= Cols /\ s.x + n <= 2 * Cols
    BY <1>1, <1>2, <1>3, <1>4, <1>7
  <2>2. PICK x \in Nat : x = X + n - Cols /\ x \in 1 .. Cols /\ x <= X
    BY <1>1, <1>2, <1>3, <1>4, <1>7
  <2>3. Becoming(s, Consoles!Wrap(t), FedPicture(s), s.x + n - Cols, FedRow(s))
    BY <2>1, Wraps
  <2>4. Consoles!tab(s) = Consoles!Wrap(t)
    BY <1>5, <1>6, <1>7
  <2> HIDE DEF t
  <2> QED
    BY <1>1, <2>2, <2>3, <2>4
<1>8. CASE ~(x1 > Cols)
  <2>1. x1 \in 1 .. Cols /\ x1 > X /\ X + n <= Cols
    BY <1>2, <1>3, <1>4, <1>8
  <2>2. MovesTo(s, t, s.x + n, s.y)
    BY <1>1, <2>1, ColumnsOn
  <2>3. Consoles!tab(s) = t
    BY <1>5, <1>6, <1>8
  <2> HIDE DEF t
  <2> QED
    BY <1>1, <1>4, <2>1, <2>2, <2>3 DEF MovesTo, Stirs, Becoming
<1> QED
  BY <1>2, <1>4, <1>7, <1>8

(* Parts of the screen that are cleared: from the cursor on, up to it, or  *)
(* all, of the screen or of the line.                                      *)
Spanned(s, i, n) ==
  LET here == Row(s.y) + s.x
  IN  \/ i = here /\ n = Area - here
      \/ i = 0 /\ n = here
      \/ i = 0 /\ n = Area
      \/ i = here /\ n = Cols - s.x
      \/ i = Row(s.y) /\ n = s.x
      \/ i = Row(s.y) /\ n = Cols

Erases(s, t) == \E i, n \in Int : Spanned(s, i, n) /\ Edits(s, t, Wiped(Shown(s), i, n))

LEMMA SpanErased ==
  ASSUME NEW s, Sound(s), NEW i \in Int, NEW n \in Int, Spanned(s, i, n), NEW a, a = s.origin + i
  PROVE  Erases(s, [s EXCEPT !.mem = Consoles!Filled(s.mem, a, n)])
BY CellsCleared DEF Erases

LEMMA CursorNumbers ==
  ASSUME NEW s, Sound(s)
  PROVE  \E O, P, X, R, E \in Nat :
           /\ O = s.origin /\ P = s.pos /\ X = s.x /\ R = Row(s.y) /\ E = s.scr_end
           /\ P = O + (R + X) /\ X <= Cols /\ R + Cols <= Area /\ E = O + Area
<1>1. PICK O \in Nat, P \in Nat, X \in Nat, Y \in Nat, R \in Nat, E \in Nat :
        /\ O = s.origin /\ P = s.pos /\ X = s.x /\ Y = s.y /\ R = Row(s.y) /\ E = s.scr_end
        /\ P = O + R + X /\ X <= Cols /\ Y < Lines /\ E = O + Area
  BY SoundTypes, RowTypes
<1>2. R + Cols <= Area
  BY <1>1, RowBelow, Sizes, ConsoleNumbers
<1>3. P = O + R + X
  BY <1>1
<1>4. P = O + (R + X)
  BY <1>3
<1> QED
  BY <1>1, <1>2, <1>4

LEMMA ScreenErased ==
  ASSUME NEW s, Sound(s), NEW par \in Nat
  PROVE  Erases(s, Consoles!csi_J(s, par)) \/ Consoles!csi_J(s, par) = s
<1>1. PICK O \in Nat, P \in Nat, X \in Nat, R \in Nat, E \in Nat :
        /\ O = s.origin /\ P = s.pos /\ X = s.x /\ R = Row(s.y) /\ E = s.scr_end
        /\ P = O + (R + X) /\ X <= Cols /\ R + Cols <= Area /\ E = O + Area
  BY CursorNumbers
<1>a. P = O + (R + X) /\ E = O + Area
  BY <1>1
<1>2. Area \in Nat /\ Cols * Lines = Area
  BY Sizes, ConsoleNumbers DEF Area
<1>3. CASE par = 0
  <2>1. PICK n \in Int : n = Area - (R + X) /\ E - P = n
    BY <1>a, <1>2
  <2>2. Spanned(s, R + X, n) /\ P = s.origin + (R + X)
    BY <1>1, <2>1 DEF Spanned
  <2>3. Consoles!csi_J(s, par) = [s EXCEPT !.mem = Consoles!Filled(s.mem, P, n)]
    BY <1>1, <1>3, <2>1 DEF Consoles!csi_J
  <2> QED
    BY <2>2, <2>3, SpanErased
<1>4. CASE par = 1
  <2>1. PICK n \in Int : n = R + X /\ P - O = n /\ O = O + 0
    BY <1>a
  <2>2. Spanned(s, 0, n) /\ O = s.origin + 0
    BY <1>1, <2>1 DEF Spanned
  <2>3. Consoles!csi_J(s, par) = [s EXCEPT !.mem = Consoles!Filled(s.mem, O, n)]
    BY <1>1, <1>4, <2>1 DEF Consoles!csi_J
  <2> QED
    BY <2>2, <2>3, SpanErased
<1>5. CASE par = 2
  <2>1. O = O + 0
    OBVIOUS
  <2>2. Spanned(s, 0, Area) /\ O = s.origin + 0
    BY <1>1, <2>1 DEF Spanned
  <2>3. Consoles!csi_J(s, par) = [s EXCEPT !.mem = Consoles!Filled(s.mem, O, Area)]
    BY <1>1, <1>2, <1>5 DEF Consoles!csi_J
  <2> QED
    BY <1>2, <2>2, <2>3, SpanErased
<1>6. CASE par \notin {0, 1, 2}
  BY <1>6 DEF Consoles!csi_J
<1> QED
  BY <1>3, <1>4, <1>5, <1>6

LEMMA LineErased ==
  ASSUME NEW s, Sound(s), NEW par \in Nat
  PROVE  Erases(s, Consoles!csi_K(s, par)) \/ Consoles!csi_K(s, par) = s
<1>1. PICK O \in Nat, P \in Nat, X \in Nat, R \in Nat, E \in Nat :
        /\ O = s.origin /\ P = s.pos /\ X = s.x /\ R = Row(s.y) /\ E = s.scr_end
        /\ P = O + (R + X) /\ X <= Cols /\ R + Cols <= Area /\ E = O + Area
  BY CursorNumbers
<1>a. P = O + (R + X)
  BY <1>1
<1>2. Cols \in Nat
  BY ConsoleNumbers
<1>b. PICK L \in Nat : L = P - X /\ L = O + R
  BY <1>a
<1>c. L = s.origin + R
  BY <1>1, <1>b
<1>3. CASE par = 0
  <2>1. PICK n \in Int : n = Cols - X
    BY <1>2
  <2>2. Spanned(s, R + X, n) /\ P = s.origin + (R + X)
    BY <1>1, <2>1 DEF Spanned
  <2>3. Consoles!csi_K(s, par) = [s EXCEPT !.mem = Consoles!Filled(s.mem, P, n)]
    BY <1>1, <1>3, <2>1 DEF Consoles!csi_K
  <2> QED
    BY <2>2, <2>3, SpanErased
<1>4. CASE par = 1
  <2>2. Spanned(s, R, X)
    BY <1>1 DEF Spanned
  <2>3. Consoles!csi_K(s, par) = [s EXCEPT !.mem = Consoles!Filled(s.mem, L, X)]
    BY <1>1, <1>b, <1>4 DEF Consoles!csi_K
  <2> QED
    BY <1>c, <2>2, <2>3, SpanErased
<1>5. CASE par = 2
  <2>2. Spanned(s, R, Cols)
    BY <1>1 DEF Spanned
  <2>3. Consoles!csi_K(s, par) = [s EXCEPT !.mem = Consoles!Filled(s.mem, L, Cols)]
    BY <1>1, <1>b, <1>5 DEF Consoles!csi_K
  <2> QED
    BY <1>c, <1>2, <2>2, <2>3, SpanErased
<1>6. CASE par \notin {0, 1, 2}
  BY <1>6 DEF Consoles!csi_K
<1> QED
  BY <1>3, <1>4, <1>5, <1>6

(* The cells from i up to e move back, or on, by k.                        *)
Back(f, i, e, k) ==
  [c \in 0 .. Area - 1 |-> IF c < i \/ c >= e THEN f[c] ELSE IF c + k < e THEN f[c + k] ELSE 0]
Forth(f, i, e, k) ==
  [c \in 0 .. Area - 1 |-> IF c < i \/ c >= e THEN f[c] ELSE IF c - k >= i THEN f[c - k] ELSE 0]

LEMMA RisenSunk ==
  ASSUME NEW f, NEW t, NEW b, NEW n
  PROVE  Risen(f, t, b, n) = Back(f, Row(t), Row(b), Row(n)) /\ Sunk(f, t, b, n) = Forth(f, Row(t), Row(b), Row(n))
BY DEF Risen, Sunk, Back, Forth

LEMMA BackAgain ==
  ASSUME NEW f \in Picture, NEW i \in Nat, NEW e \in Nat, e <= Area, NEW j \in Nat, NEW k \in Nat
  PROVE  Back(Back(f, i, e, j), i, e, k) = Back(f, i, e, j + k)
<1> DEFINE g == Back(f, i, e, j)
<1>1. Area \in Nat
  BY Sizes
<1>2. \A c \in 0 .. Area - 1 : g[c] = IF c < i \/ c >= e THEN f[c] ELSE IF c + j < e THEN f[c + j] ELSE 0
  BY DEF Back
<1> HIDE DEF g
<1>3. ASSUME NEW c \in 0 .. Area - 1
      PROVE  (IF c < i \/ c >= e THEN g[c] ELSE IF c + k < e THEN g[c + k] ELSE 0)
               = (IF c < i \/ c >= e THEN f[c] ELSE IF c + (j + k) < e THEN f[c + (j + k)] ELSE 0)
  <2>1. CASE c < i \/ c >= e
    BY <1>2, <2>1
  <2>2. CASE c >= i /\ c < e /\ c + k < e
    <3>1. c + k \in 0 .. Area - 1 /\ ~(c + k < i) /\ ~(c + k >= e) /\ c + k + j = c + (j + k)
      BY <1>1, <2>2
    <3>2. g[c + k] = IF c + k + j < e THEN f[c + k + j] ELSE 0
      BY <1>2, <3>1
    <3> QED
      BY <1>1, <2>2, <3>1, <3>2
  <2>3. CASE c >= i /\ c < e /\ ~(c + k < e)
    <3>1. ~(c + (j + k) < e)
      BY <1>1, <2>3
    <3> QED
      BY <1>1, <2>3, <3>1
  <2> QED
    BY <1>1, <2>1, <2>2, <2>3
<1> QED
  BY <1>3 DEF Back, g

LEMMA ForthAgain ==
  ASSUME NEW f \in Picture, NEW i \in Nat, NEW e \in Nat, e <= Area, NEW j \in Nat, NEW k \in Nat
  PROVE  Forth(Forth(f, i, e, j), i, e, k) = Forth(f, i, e, j + k)
<1> DEFINE g == Forth(f, i, e, j)
<1>1. Area \in Nat
  BY Sizes
<1>2. \A c \in 0 .. Area - 1 : g[c] = IF c < i \/ c >= e THEN f[c] ELSE IF c - j >= i THEN f[c - j] ELSE 0
  BY DEF Forth
<1> HIDE DEF g
<1>3. ASSUME NEW c \in 0 .. Area - 1
      PROVE  (IF c < i \/ c >= e THEN g[c] ELSE IF c - k >= i THEN g[c - k] ELSE 0)
               = (IF c < i \/ c >= e THEN f[c] ELSE IF c - (j + k) >= i THEN f[c - (j + k)] ELSE 0)
  <2>1. CASE c < i \/ c >= e
    BY <1>2, <2>1
  <2>2. CASE c >= i /\ c < e /\ c - k >= i
    <3>1. c - k \in 0 .. Area - 1 /\ ~(c - k < i) /\ ~(c - k >= e) /\ c - k - j = c - (j + k)
      BY <1>1, <2>2
    <3>2. g[c - k] = IF c - k - j >= i THEN f[c - k - j] ELSE 0
      BY <1>2, <3>1
    <3> QED
      BY <1>1, <2>2, <3>1, <3>2
  <2>3. CASE c >= i /\ c < e /\ ~(c - k >= i)
    <3>1. ~(c - (j + k) >= i)
      BY <1>1, <2>3
    <3> QED
      BY <1>1, <2>3, <3>1
  <2> QED
    BY <1>1, <2>1, <2>2, <2>3
<1> QED
  BY <1>3 DEF Forth, g

(* One character, or one line, inserted or deleted.                        *)
LEMMA CharacterInserted ==
  ASSUME NEW s, Sound(s)
  PROVE  Edits(s, Consoles!insert_char(s), Forth(Shown(s), Row(s.y) + s.x, Row(s.y) + Cols, 1))
<1>1. PICK O \in Nat, P \in Nat, X \in Nat, R \in Nat, E \in Nat :
        /\ O = s.origin /\ P = s.pos /\ X = s.x /\ R = Row(s.y) /\ E = s.scr_end
        /\ P = O + (R + X) /\ X <= Cols /\ R + Cols <= Area /\ E = O + Area
  BY CursorNumbers
<1>a. P = O + (R + X) /\ X <= Cols /\ R + Cols <= Area
  BY <1>1
<1>b. O + Area <= Size
  BY <1>1, SoundTypes
<1>2. Cols \in Nat /\ Area \in Nat /\ Size \in Nat /\ Consoles!Address = 0 .. Size - 1
  BY Sizes, ConsoleNumbers
<1>3. PICK M \in Memory : M = s.mem
  BY SoundTypes
<1> DEFINE m == [a \in Consoles!Address |->
                   IF a \notin P .. P + Cols - X - 1 THEN M[a] ELSE IF a = P THEN 0 ELSE M[a - 1]]
<1>4. m \in Memory
  <2>1. \A a \in Consoles!Address : a \in P .. P + Cols - X - 1 /\ a # P => a - 1 \in Consoles!Address
    BY <1>2
  <2>2. \A a \in Consoles!Address : m[a] \in Cell
    BY <2>1 DEF Memory, Cell
  <2> QED
    BY <2>2 DEF Memory
<1>5. Consoles!insert_char(s) = [s EXCEPT !.mem = m]
  BY <1>1, <1>3 DEF Consoles!insert_char, Consoles!Blank
<1>6. ASSUME NEW c \in 0 .. Area - 1
      PROVE  m[O + c] = IF c < R + X \/ c >= R + Cols THEN Shown(s)[c]
                        ELSE IF c - 1 >= R + X THEN Shown(s)[c - 1] ELSE 0
  <2>1. O + c \in Consoles!Address /\ O + c - 1 = O + (c - 1)
    BY <1>b, <1>2
  <2>2. O + c \in P .. P + Cols - X - 1 <=> ~(c < R + X \/ c >= R + Cols)
    BY <1>a, <1>2
  <2>3. O + c = P <=> c = R + X
    BY <1>a
  <2>4. m[O + c] = IF ~(O + c \in P .. P + Cols - X - 1) THEN M[O + c]
                   ELSE IF O + c = P THEN 0 ELSE M[O + (c - 1)]
    BY <2>1
  <2>5. Shown(s)[c] = M[O + c]
    BY <1>1, <1>3, ShownIs
  <2>6. c - 1 >= R + X => Shown(s)[c - 1] = M[O + (c - 1)]
    <3>1. c - 1 >= R + X => c - 1 \in 0 .. Area - 1
      BY <1>2
    <3> QED
      BY <1>1, <1>3, <3>1, ShownIs
  <2>7. CASE c < R + X \/ c >= R + Cols
    BY <2>2, <2>4, <2>5, <2>7
  <2>8. CASE ~(c < R + X \/ c >= R + Cols)
    <3>1. c # R + X <=> c - 1 >= R + X
      BY <1>2, <2>8
    <3> HIDE DEF m
    <3> QED
      BY <2>2, <2>3, <2>4, <2>6, <2>8, <3>1
  <2> QED
    BY <2>7, <2>8
<1> HIDE DEF m
<1>7. [c \in 0 .. Area - 1 |-> m[O + c]] = Forth(Shown(s), R + X, R + Cols, 1)
  BY <1>6 DEF Forth
<1>8. Edits(s, [s EXCEPT !.mem = m], [c \in 0 .. Area - 1 |-> m[s.origin + c]])
  BY <1>4, MemoryEdited
<1> QED
  BY <1>1, <1>5, <1>7, <1>8

LEMMA CharacterRemoved ==
  ASSUME NEW s, Sound(s)
  PROVE  Edits(s, Consoles!delete_char(s), Back(Shown(s), Row(s.y) + s.x, Row(s.y) + Cols, 1))
<1>1. PICK O \in Nat, P \in Nat, X \in Nat, R \in Nat, E \in Nat :
        /\ O = s.origin /\ P = s.pos /\ X = s.x /\ R = Row(s.y) /\ E = s.scr_end
        /\ P = O + (R + X) /\ X <= Cols /\ R + Cols <= Area /\ E = O + Area
  BY CursorNumbers
<1>a. P = O + (R + X) /\ X <= Cols /\ R + Cols <= Area
  BY <1>1
<1>b. O + Area <= Size
  BY <1>1, SoundTypes
<1>2. Cols \in Nat /\ Area \in Nat /\ Size \in Nat /\ Consoles!Address = 0 .. Size - 1
  BY Sizes, ConsoleNumbers
<1>3. PICK M \in Memory : M = s.mem
  BY SoundTypes
<1> DEFINE m == [a \in Consoles!Address |->
                   IF a \notin P .. P + Cols - X - 1 THEN M[a]
                   ELSE IF a = P + Cols - X - 1 THEN 0 ELSE M[a + 1]]
<1>4. m \in Memory
  <2>1. \A a \in Consoles!Address :
          a \in P .. P + Cols - X - 1 /\ a # P + Cols - X - 1 => a + 1 \in Consoles!Address
    BY <1>a, <1>b, <1>2
  <2>2. \A a \in Consoles!Address : m[a] \in Cell
    BY <2>1 DEF Memory, Cell
  <2> QED
    BY <2>2 DEF Memory
<1>5. Consoles!delete_char(s) = [s EXCEPT !.mem = m]
  BY <1>1, <1>3 DEF Consoles!delete_char, Consoles!Blank
<1>6. ASSUME NEW c \in 0 .. Area - 1
      PROVE  m[O + c] = IF c < R + X \/ c >= R + Cols THEN Shown(s)[c]
                        ELSE IF c + 1 < R + Cols THEN Shown(s)[c + 1] ELSE 0
  <2>1. O + c \in Consoles!Address /\ O + c + 1 = O + (c + 1)
    BY <1>b, <1>2
  <2>2. O + c \in P .. P + Cols - X - 1 <=> ~(c < R + X \/ c >= R + Cols)
    BY <1>a, <1>2
  <2>3. O + c = P + Cols - X - 1 <=> c + 1 = R + Cols
    BY <1>a, <1>2
  <2>4. m[O + c] = IF ~(O + c \in P .. P + Cols - X - 1) THEN M[O + c]
                   ELSE IF O + c = P + Cols - X - 1 THEN 0 ELSE M[O + (c + 1)]
    BY <2>1
  <2>5. Shown(s)[c] = M[O + c]
    BY <1>1, <1>3, ShownIs
  <2>6. c + 1 < R + Cols => Shown(s)[c + 1] = M[O + (c + 1)]
    <3>1. c + 1 < R + Cols => c + 1 \in 0 .. Area - 1
      BY <1>a, <1>2
    <3> QED
      BY <1>1, <1>3, <3>1, ShownIs
  <2>7. CASE c < R + X \/ c >= R + Cols
    BY <2>2, <2>4, <2>5, <2>7
  <2>8. CASE ~(c < R + X \/ c >= R + Cols)
    <3>1. c + 1 # R + Cols <=> c + 1 < R + Cols
      BY <1>2, <2>8
    <3> HIDE DEF m
    <3> QED
      BY <2>2, <2>3, <2>4, <2>6, <2>8, <3>1
  <2> QED
    BY <2>7, <2>8
<1> HIDE DEF m
<1>7. [c \in 0 .. Area - 1 |-> m[O + c]] = Back(Shown(s), R + X, R + Cols, 1)
  BY <1>6 DEF Back
<1>8. Edits(s, [s EXCEPT !.mem = m], [c \in 0 .. Area - 1 |-> m[s.origin + c]])
  BY <1>4, MemoryEdited
<1> QED
  BY <1>1, <1>5, <1>7, <1>8

(* The region, set and set back.                                           *)
Bounded(s, t, top, bottom) ==
  /\ t.top = top /\ t.bottom = bottom
  /\ t.x = s.x /\ t.y = s.y /\ t.attr = s.attr /\ Shown(t) = Shown(s)

LEMMA RegionSet ==
  ASSUME NEW s, Sound(s), NEW top \in Nat, NEW bottom \in Nat, top < bottom, bottom <= Lines
  PROVE  /\ Sound([s EXCEPT !.top = top, !.bottom = bottom])
         /\ Bounded(s, [s EXCEPT !.top = top, !.bottom = bottom], top, bottom)
<1> DEFINE t == [s EXCEPT !.top = top, !.bottom = bottom]
<1>1. s \in Registers
  BY SoundTypes
<1>2. /\ t \in Registers /\ t.saved_x = s.saved_x /\ t.saved_y = s.saved_y /\ t.mem = s.mem /\ t.origin = s.origin
      /\ t.scr_end = s.scr_end /\ t.pos = s.pos /\ t.x = s.x /\ t.y = s.y
      /\ t.top = top /\ t.bottom = bottom /\ t.attr = s.attr
  BY <1>1 DEF Registers
<1> HIDE DEF t
<1>3. Sound(t)
  BY <1>2 DEF Sound
<1>4. Bounded(s, t, top, bottom)
  BY <1>2 DEF Bounded, Shown
<1> QED
  BY <1>3, <1>4 DEF t

LEMMA LinesInserted ==
  ASSUME NEW s, Sound(s)
  PROVE  Edits(s, Consoles!insert_line(s), Forth(Shown(s), Row(s.y), Area, Cols))
<1>1. /\ s.y \in Nat /\ s.y < Lines /\ s.top \in Nat /\ s.bottom \in Nat /\ s.top < s.bottom /\ s.bottom <= Lines
      /\ Lines \in Nat
  BY SoundTypes, ConsoleNumbers
<1> DEFINE b == Consoles!Below(s)
<1>2. Sound(b) /\ Bounded(s, b, s.y, Lines)
  <2>1. PICK y \in Nat, z \in Nat : y = s.y /\ z = Lines /\ y < z /\ z <= Lines
    BY <1>1
  <2>2. /\ Sound([s EXCEPT !.top = y, !.bottom = z])
        /\ Bounded(s, [s EXCEPT !.top = y, !.bottom = z], y, z)
    BY <2>1, RegionSet
  <2>3. b = [s EXCEPT !.top = y, !.bottom = z]
    BY <2>1 DEF Consoles!Below
  <2> QED
    BY <2>1, <2>2, <2>3
<1> HIDE DEF b
<1> DEFINE u == Consoles!scrdown(b)
<1>3. Edits(b, u, Sunk(Shown(b), b.top, b.bottom, 1))
  BY <1>2, ScrollsDown
<1> HIDE DEF u
<1> DEFINE v == Consoles!WithRegion(u, s)
<1>4. Sound(v) /\ Bounded(u, v, s.top, s.bottom)
  BY <1>1, <1>3, RegionSet DEF Consoles!WithRegion, Edits
<1>5. Consoles!insert_line(s) = v
  BY DEF Consoles!insert_line, b, u
<1> HIDE DEF v
<1>6. Sunk(Shown(b), b.top, b.bottom, 1) = Forth(Shown(s), Row(s.y), Area, Cols)
  BY <1>2, RisenSunk, Sizes DEF Bounded
<1>7. Edits(s, v, Forth(Shown(s), Row(s.y), Area, Cols))
  BY <1>2, <1>3, <1>4, <1>6 DEF Edits, Bounded, SameRegion
<1> QED
  BY <1>5, <1>7

LEMMA LinesDeleted ==
  ASSUME NEW s, Sound(s)
  PROVE  Edits(s, Consoles!delete_line(s), Back(Shown(s), Row(s.y), Area, Cols))
<1>1. /\ s.y \in Nat /\ s.y < Lines /\ s.top \in Nat /\ s.bottom \in Nat /\ s.top < s.bottom /\ s.bottom <= Lines
      /\ Lines \in Nat
  BY SoundTypes, ConsoleNumbers
<1> DEFINE b == Consoles!Below(s)
<1>2. Sound(b) /\ Bounded(s, b, s.y, Lines)
  <2>1. PICK y \in Nat, z \in Nat : y = s.y /\ z = Lines /\ y < z /\ z <= Lines
    BY <1>1
  <2>2. /\ Sound([s EXCEPT !.top = y, !.bottom = z])
        /\ Bounded(s, [s EXCEPT !.top = y, !.bottom = z], y, z)
    BY <2>1, RegionSet
  <2>3. b = [s EXCEPT !.top = y, !.bottom = z]
    BY <2>1 DEF Consoles!Below
  <2> QED
    BY <2>1, <2>2, <2>3
<1> HIDE DEF b
<1> DEFINE u == Consoles!scrup(b)
<1>3. Edits(b, u, Risen(Shown(b), b.top, b.bottom, 1))
  BY <1>2, ScrollsUp
<1> HIDE DEF u
<1> DEFINE v == Consoles!WithRegion(u, s)
<1>4. Sound(v) /\ Bounded(u, v, s.top, s.bottom)
  BY <1>1, <1>3, RegionSet DEF Consoles!WithRegion, Edits
<1>5. Consoles!delete_line(s) = v
  BY DEF Consoles!delete_line, b, u
<1> HIDE DEF v
<1>6. Risen(Shown(b), b.top, b.bottom, 1) = Back(Shown(s), Row(s.y), Area, Cols)
  BY <1>2, RisenSunk, Sizes DEF Bounded
<1>7. Edits(s, v, Back(Shown(s), Row(s.y), Area, Cols))
  BY <1>2, <1>3, <1>4, <1>6 DEF Edits, Bounded, SameRegion
<1> QED
  BY <1>5, <1>7

(* Operations that are repeated.                                           *)
LEMMA Steps ==
  ASSUME NEW n \in Nat, NEW S, 1 \in S, \A i \in 1 .. n - 1 : i \in S => i + 1 \in S
  PROVE  \A i \in 1 .. n : i \in S
<1> DEFINE Bad == {i \in 1 .. n : i \notin S}
<1>1. CASE Bad # {}
  <2>1. PICK i \in Bad : \A j \in Bad : i <= j
    <3>1. Bad \subseteq Nat
      OBVIOUS
    <3> HIDE DEF Bad
    <3> QED
      BY <1>1, <3>1, LeastNatural
  <2>2. i \in 1 .. n /\ i \notin S /\ i # 1
    BY <2>1
  <2>3. i - 1 \in 1 .. n - 1 /\ i - 1 \notin Bad /\ i - 1 + 1 = i
    BY <2>1, <2>2
  <2> QED
    BY <2>2, <2>3
<1>2. CASE Bad = {}
  BY <1>2
<1> QED
  BY <1>1, <1>2

Chain(f, C, op, s, n) ==
  /\ f \in [0 .. n -> C] /\ f[0] = s
  /\ \A i \in 1 .. n : f[i] = op[f[i - 1]]

LEMMA Chains ==
  ASSUME NEW C, NEW op \in [C -> C], NEW s \in C
  PROVE  \A n \in Nat : \E f : Chain(f, C, op, s, n)
<1> DEFINE Bad == {n \in Nat : ~\E f : Chain(f, C, op, s, n)}
<1>1. CASE Bad # {}
  <2>1. PICK n \in Bad : \A j \in Bad : n <= j
    <3>1. Bad \subseteq Nat
      OBVIOUS
    <3> HIDE DEF Bad
    <3> QED
      BY <1>1, <3>1, LeastNatural
  <2>2. n \in Nat /\ ~\E f : Chain(f, C, op, s, n)
    BY <2>1
  <2>3. CASE n = 0
    <3>1. Chain([i \in 0 .. 0 |-> s], C, op, s, 0)
      BY DEF Chain
    <3> QED
      BY <2>2, <2>3, <3>1
  <2>4. CASE n # 0
    <3>1. PICK m \in Nat : m = n - 1 /\ n = m + 1 /\ m \notin Bad
      BY <2>1, <2>2, <2>4
    <3>2. PICK f : Chain(f, C, op, s, m)
      BY <3>1
    <3> DEFINE g == [i \in 0 .. n |-> IF i = n THEN op[f[m]] ELSE f[i]]
    <3>3. f[m] \in C
      BY <3>2 DEF Chain
    <3>4. ASSUME NEW i \in 0 .. n PROVE g[i] \in C
      <4>1. CASE i = n
        BY <3>3, <4>1
      <4>2. CASE i # n
        <5>1. i \in 0 .. m
          BY <3>1, <4>2
        <5> QED
          BY <3>2, <4>2, <5>1 DEF Chain
      <4> QED
        BY <4>1, <4>2
    <3>5. g \in [0 .. n -> C] /\ g[0] = s
      BY <2>2, <2>4, <3>2, <3>4 DEF Chain
    <3>6. ASSUME NEW i \in 1 .. n PROVE g[i] = op[g[i - 1]]
      <4>1. i - 1 \in 0 .. n /\ i - 1 # n
        BY <2>2
      <4>2. g[i - 1] = f[i - 1]
        BY <4>1
      <4>3. CASE i = n
        BY <2>2, <3>1, <4>2, <4>3
      <4>4. CASE i # n
        <5>1. i \in 1 .. m
          BY <3>1, <4>4
        <5> QED
          BY <3>2, <4>2, <4>4, <5>1 DEF Chain
      <4> QED
        BY <4>3, <4>4
    <3>7. Chain(g, C, op, s, n)
      BY <3>5, <3>6 DEF Chain
    <3> QED
      BY <2>2, <3>7
  <2> QED
    BY <2>3, <2>4
<1>2. CASE Bad = {}
  BY <1>2
<1> QED
  BY <1>1, <1>2

Sounds == {t \in Registers : Sound(t)}

LEMMA ForthTimes ==
  ASSUME NEW s, Sound(s), NEW n \in Nat \ {0}, NEW g, g[0] = s, NEW i \in Nat, NEW e \in Nat, NEW u \in Nat, e <= Area,
         \A j \in 1 .. n : Sound(g[j - 1]) /\ g[j - 1].x = s.x /\ g[j - 1].y = s.y
                             => Edits(g[j - 1], g[j], Forth(Shown(g[j - 1]), i, e, u))
  PROVE  Edits(s, g[n], Forth(Shown(s), i, e, n * u))
<1> DEFINE S == {j \in 1 .. n : Edits(s, g[j], Forth(Shown(s), i, e, j * u))}
<1>1. 1 \in S
  <2>1. 1 \in 1 .. n /\ 1 - 1 = 0 /\ 1 * u = u
    OBVIOUS
  <2>2. Edits(s, g[1], Forth(Shown(s), i, e, u))
    BY <2>1
  <2> QED
    BY <2>1, <2>2
<1>2. ASSUME NEW j \in 1 .. n - 1, j \in S PROVE j + 1 \in S
  <2>1. j + 1 \in 1 .. n /\ j + 1 - 1 = j /\ j \in Nat
    OBVIOUS
  <2>2. Edits(s, g[j], Forth(Shown(s), i, e, j * u))
    BY <1>2
  <2>3. Sound(g[j]) /\ g[j].x = s.x /\ g[j].y = s.y
    BY <2>2 DEF Edits
  <2>4. Edits(g[j], g[j + 1], Forth(Shown(g[j]), i, e, u))
    BY <2>1, <2>3
  <2>5. Shown(g[j]) = Forth(Shown(s), i, e, j * u)
    BY <2>2 DEF Edits
  <2>6. PICK k \in Nat : k = j * u /\ k + u = (j + 1) * u
    BY <2>1
  <2>7. Forth(Forth(Shown(s), i, e, k), i, e, u) = Forth(Shown(s), i, e, k + u)
    BY ForthAgain, ShownIs
  <2>8. Edits(s, g[j + 1], Forth(Shown(s), i, e, (j + 1) * u))
    BY <2>2, <2>4, <2>5, <2>6, <2>7 DEF Edits, SameRegion
  <2> QED
    BY <2>1, <2>8
<1> HIDE DEF S
<1>3. n \in S
  BY <1>1, <1>2, Steps
<1> QED
  BY <1>3 DEF S

LEMMA BackTimes ==
  ASSUME NEW s, Sound(s), NEW n \in Nat \ {0}, NEW g, g[0] = s, NEW i \in Nat, NEW e \in Nat, NEW u \in Nat, e <= Area,
         \A j \in 1 .. n : Sound(g[j - 1]) /\ g[j - 1].x = s.x /\ g[j - 1].y = s.y
                             => Edits(g[j - 1], g[j], Back(Shown(g[j - 1]), i, e, u))
  PROVE  Edits(s, g[n], Back(Shown(s), i, e, n * u))
<1> DEFINE S == {j \in 1 .. n : Edits(s, g[j], Back(Shown(s), i, e, j * u))}
<1>1. 1 \in S
  <2>1. 1 \in 1 .. n /\ 1 - 1 = 0 /\ 1 * u = u
    OBVIOUS
  <2>2. Edits(s, g[1], Back(Shown(s), i, e, u))
    BY <2>1
  <2> QED
    BY <2>1, <2>2
<1>2. ASSUME NEW j \in 1 .. n - 1, j \in S PROVE j + 1 \in S
  <2>1. j + 1 \in 1 .. n /\ j + 1 - 1 = j /\ j \in Nat
    OBVIOUS
  <2>2. Edits(s, g[j], Back(Shown(s), i, e, j * u))
    BY <1>2
  <2>3. Sound(g[j]) /\ g[j].x = s.x /\ g[j].y = s.y
    BY <2>2 DEF Edits
  <2>4. Edits(g[j], g[j + 1], Back(Shown(g[j]), i, e, u))
    BY <2>1, <2>3
  <2>5. Shown(g[j]) = Back(Shown(s), i, e, j * u)
    BY <2>2 DEF Edits
  <2>6. PICK k \in Nat : k = j * u /\ k + u = (j + 1) * u
    BY <2>1
  <2>7. Back(Back(Shown(s), i, e, k), i, e, u) = Back(Shown(s), i, e, k + u)
    BY BackAgain, ShownIs
  <2>8. Edits(s, g[j + 1], Back(Shown(s), i, e, (j + 1) * u))
    BY <2>2, <2>4, <2>5, <2>6, <2>7 DEF Edits, SameRegion
  <2> QED
    BY <2>1, <2>8
<1> HIDE DEF S
<1>3. n \in S
  BY <1>1, <1>2, Steps
<1> QED
  BY <1>3 DEF S

Times(n, limit) == IF n > limit THEN limit ELSE IF n = 0 THEN 1 ELSE n

LEMMA LinesInsertedTimes ==
  ASSUME NEW s, Sound(s), NEW n \in Nat
  PROVE  Edits(s, Consoles!Repeated(Consoles!insert_line, s, n, Lines),
               Forth(Shown(s), Row(s.y), Area, Times(n, Lines) * Cols))
<1>1. PICK k \in Nat \ {0} : k = Times(n, Lines)
  BY ConsoleNumbers DEF Times
<1> DEFINE op == [t \in Sounds |-> Consoles!insert_line(t)]
           Unfolds(a) == a = [i \in 0 .. k |-> IF i = 0 THEN s ELSE Consoles!insert_line(a[i - 1])]
<1>2. op \in [Sounds -> Sounds] /\ s \in Sounds
  BY LinesInserted DEF Sounds, Sound, Edits
<1>3. PICK f : Chain(f, Sounds, op, s, k)
  BY <1>2, Chains
<1>4. Unfolds(f)
  <2>1. f \in [0 .. k -> Sounds] /\ f[0] = s
    BY <1>3 DEF Chain
  <2>2. ASSUME NEW i \in 1 .. k PROVE f[i] = Consoles!insert_line(f[i - 1])
    <3>1. i - 1 \in 0 .. k /\ f[i] = op[f[i - 1]]
      BY <1>3 DEF Chain
    <3>2. f[i - 1] \in Sounds
      BY <2>1, <3>1
    <3> QED
      BY <3>1, <3>2
  <2>3. \A i \in 0 .. k : f[i] = IF i = 0 THEN s ELSE Consoles!insert_line(f[i - 1])
    BY <2>1, <2>2
  <2> QED
    BY <2>1, <2>3
<1>5. Consoles!Repeated(Consoles!insert_line, s, n, Lines) = (CHOOSE a : Unfolds(a))[k]
  BY <1>1 DEF Consoles!Repeated, Times
<1>6. PICK g : Unfolds(g) /\ g = CHOOSE a : Unfolds(a)
  BY <1>4
<1>7. g[0] = s /\ \A j \in 1 .. k : g[j] = Consoles!insert_line(g[j - 1])
  BY <1>6
<1>8. PICK R \in Nat : R = Row(s.y) /\ Area \in Nat /\ Area <= Area /\ Cols \in Nat
  <2>1. Area \in Nat /\ Area <= Area /\ Cols \in Nat
    BY Sizes, ConsoleNumbers
  <2>2. s.y \in Nat /\ Row(s.y) \in Nat
    BY SoundTypes, RowTypes
  <2> QED
    BY <2>1, <2>2
<1>9. \A j \in 1 .. k : Sound(g[j - 1]) /\ g[j - 1].x = s.x /\ g[j - 1].y = s.y
                             => Edits(g[j - 1], g[j], Forth(Shown(g[j - 1]), R, Area, Cols))
  BY <1>7, <1>8, LinesInserted
<1>10. Edits(s, g[k], Forth(Shown(s), R, Area, k * Cols))
  BY <1>7, <1>8, <1>9, ForthTimes
<1>11. Consoles!Repeated(Consoles!insert_line, s, n, Lines) = g[k]
  BY <1>5, <1>6
<1> QED
  BY <1>1, <1>8, <1>10, <1>11


LEMMA LinesDeletedTimes ==
  ASSUME NEW s, Sound(s), NEW n \in Nat
  PROVE  Edits(s, Consoles!Repeated(Consoles!delete_line, s, n, Lines),
               Back(Shown(s), Row(s.y), Area, Times(n, Lines) * Cols))
<1>1. PICK k \in Nat \ {0} : k = Times(n, Lines)
  BY ConsoleNumbers DEF Times
<1> DEFINE op == [t \in Sounds |-> Consoles!delete_line(t)]
           Unfolds(a) == a = [i \in 0 .. k |-> IF i = 0 THEN s ELSE Consoles!delete_line(a[i - 1])]
<1>2. op \in [Sounds -> Sounds] /\ s \in Sounds
  BY LinesDeleted DEF Sounds, Sound, Edits
<1>3. PICK f : Chain(f, Sounds, op, s, k)
  BY <1>2, Chains
<1>4. Unfolds(f)
  <2>1. f \in [0 .. k -> Sounds] /\ f[0] = s
    BY <1>3 DEF Chain
  <2>2. ASSUME NEW i \in 1 .. k PROVE f[i] = Consoles!delete_line(f[i - 1])
    <3>1. i - 1 \in 0 .. k /\ f[i] = op[f[i - 1]]
      BY <1>3 DEF Chain
    <3>2. f[i - 1] \in Sounds
      BY <2>1, <3>1
    <3> QED
      BY <3>1, <3>2
  <2>3. \A i \in 0 .. k : f[i] = IF i = 0 THEN s ELSE Consoles!delete_line(f[i - 1])
    BY <2>1, <2>2
  <2> QED
    BY <2>1, <2>3
<1>5. Consoles!Repeated(Consoles!delete_line, s, n, Lines) = (CHOOSE a : Unfolds(a))[k]
  BY <1>1 DEF Consoles!Repeated, Times
<1>6. PICK g : Unfolds(g) /\ g = CHOOSE a : Unfolds(a)
  BY <1>4
<1>7. g[0] = s /\ \A j \in 1 .. k : g[j] = Consoles!delete_line(g[j - 1])
  BY <1>6
<1>8. PICK R \in Nat : R = Row(s.y) /\ Area \in Nat /\ Area <= Area /\ Cols \in Nat
  <2>1. Area \in Nat /\ Area <= Area /\ Cols \in Nat
    BY Sizes, ConsoleNumbers
  <2>2. s.y \in Nat /\ Row(s.y) \in Nat
    BY SoundTypes, RowTypes
  <2> QED
    BY <2>1, <2>2
<1>9. \A j \in 1 .. k : Sound(g[j - 1]) /\ g[j - 1].x = s.x /\ g[j - 1].y = s.y
                             => Edits(g[j - 1], g[j], Back(Shown(g[j - 1]), R, Area, Cols))
  BY <1>7, <1>8, LinesDeleted
<1>10. Edits(s, g[k], Back(Shown(s), R, Area, k * Cols))
  BY <1>7, <1>8, <1>9, BackTimes
<1>11. Consoles!Repeated(Consoles!delete_line, s, n, Lines) = g[k]
  BY <1>5, <1>6
<1> QED
  BY <1>1, <1>8, <1>10, <1>11


LEMMA CharactersInsertedTimes ==
  ASSUME NEW s, Sound(s), NEW n \in Nat
  PROVE  Edits(s, Consoles!Repeated(Consoles!insert_char, s, n, Cols),
               Forth(Shown(s), Row(s.y) + s.x, Row(s.y) + Cols, Times(n, Cols) * 1))
<1>1. PICK k \in Nat \ {0} : k = Times(n, Cols)
  BY ConsoleNumbers DEF Times
<1> DEFINE op == [t \in Sounds |-> Consoles!insert_char(t)]
           Unfolds(a) == a = [i \in 0 .. k |-> IF i = 0 THEN s ELSE Consoles!insert_char(a[i - 1])]
<1>2. op \in [Sounds -> Sounds] /\ s \in Sounds
  BY CharacterInserted DEF Sounds, Sound, Edits
<1>3. PICK f : Chain(f, Sounds, op, s, k)
  BY <1>2, Chains
<1>4. Unfolds(f)
  <2>1. f \in [0 .. k -> Sounds] /\ f[0] = s
    BY <1>3 DEF Chain
  <2>2. ASSUME NEW i \in 1 .. k PROVE f[i] = Consoles!insert_char(f[i - 1])
    <3>1. i - 1 \in 0 .. k /\ f[i] = op[f[i - 1]]
      BY <1>3 DEF Chain
    <3>2. f[i - 1] \in Sounds
      BY <2>1, <3>1
    <3> QED
      BY <3>1, <3>2
  <2>3. \A i \in 0 .. k : f[i] = IF i = 0 THEN s ELSE Consoles!insert_char(f[i - 1])
    BY <2>1, <2>2
  <2> QED
    BY <2>1, <2>3
<1>5. Consoles!Repeated(Consoles!insert_char, s, n, Cols) = (CHOOSE a : Unfolds(a))[k]
  BY <1>1 DEF Consoles!Repeated, Times
<1>6. PICK g : Unfolds(g) /\ g = CHOOSE a : Unfolds(a)
  BY <1>4
<1>7. g[0] = s /\ \A j \in 1 .. k : g[j] = Consoles!insert_char(g[j - 1])
  BY <1>6
<1>8. PICK H \in Nat, L \in Nat : H = Row(s.y) + s.x /\ L = Row(s.y) + Cols /\ L <= Area /\ 1 \in Nat
  BY CursorNumbers, ConsoleNumbers
<1>9. \A j \in 1 .. k : Sound(g[j - 1]) /\ g[j - 1].x = s.x /\ g[j - 1].y = s.y
                             => Edits(g[j - 1], g[j], Forth(Shown(g[j - 1]), H, L, 1))
  BY <1>7, <1>8, CharacterInserted
<1>10. Edits(s, g[k], Forth(Shown(s), H, L, k * 1))
  BY <1>7, <1>8, <1>9, ForthTimes
<1>11. Consoles!Repeated(Consoles!insert_char, s, n, Cols) = g[k]
  BY <1>5, <1>6
<1> QED
  BY <1>1, <1>8, <1>10, <1>11


LEMMA CharactersDeletedTimes ==
  ASSUME NEW s, Sound(s), NEW n \in Nat
  PROVE  Edits(s, Consoles!Repeated(Consoles!delete_char, s, n, Cols),
               Back(Shown(s), Row(s.y) + s.x, Row(s.y) + Cols, Times(n, Cols) * 1))
<1>1. PICK k \in Nat \ {0} : k = Times(n, Cols)
  BY ConsoleNumbers DEF Times
<1> DEFINE op == [t \in Sounds |-> Consoles!delete_char(t)]
           Unfolds(a) == a = [i \in 0 .. k |-> IF i = 0 THEN s ELSE Consoles!delete_char(a[i - 1])]
<1>2. op \in [Sounds -> Sounds] /\ s \in Sounds
  BY CharacterRemoved DEF Sounds, Sound, Edits
<1>3. PICK f : Chain(f, Sounds, op, s, k)
  BY <1>2, Chains
<1>4. Unfolds(f)
  <2>1. f \in [0 .. k -> Sounds] /\ f[0] = s
    BY <1>3 DEF Chain
  <2>2. ASSUME NEW i \in 1 .. k PROVE f[i] = Consoles!delete_char(f[i - 1])
    <3>1. i - 1 \in 0 .. k /\ f[i] = op[f[i - 1]]
      BY <1>3 DEF Chain
    <3>2. f[i - 1] \in Sounds
      BY <2>1, <3>1
    <3> QED
      BY <3>1, <3>2
  <2>3. \A i \in 0 .. k : f[i] = IF i = 0 THEN s ELSE Consoles!delete_char(f[i - 1])
    BY <2>1, <2>2
  <2> QED
    BY <2>1, <2>3
<1>5. Consoles!Repeated(Consoles!delete_char, s, n, Cols) = (CHOOSE a : Unfolds(a))[k]
  BY <1>1 DEF Consoles!Repeated, Times
<1>6. PICK g : Unfolds(g) /\ g = CHOOSE a : Unfolds(a)
  BY <1>4
<1>7. g[0] = s /\ \A j \in 1 .. k : g[j] = Consoles!delete_char(g[j - 1])
  BY <1>6
<1>8. PICK H \in Nat, L \in Nat : H = Row(s.y) + s.x /\ L = Row(s.y) + Cols /\ L <= Area /\ 1 \in Nat
  BY CursorNumbers, ConsoleNumbers
<1>9. \A j \in 1 .. k : Sound(g[j - 1]) /\ g[j - 1].x = s.x /\ g[j - 1].y = s.y
                             => Edits(g[j - 1], g[j], Back(Shown(g[j - 1]), H, L, 1))
  BY <1>7, <1>8, CharacterRemoved
<1>10. Edits(s, g[k], Back(Shown(s), H, L, k * 1))
  BY <1>7, <1>8, <1>9, BackTimes
<1>11. Consoles!Repeated(Consoles!delete_char, s, n, Cols) = g[k]
  BY <1>5, <1>6
<1> QED
  BY <1>1, <1>8, <1>10, <1>11

(* What module Screen calls these changes.                                 *)
LEMMA LinesDivided ==
  ASSUME NEW c \in 0 .. Area - 1, NEW t \in Nat, NEW b \in Nat, NEW n \in Nat
  PROVE  /\ c \div Cols \notin t .. b - 1 <=> c < Row(t) \/ c >= Row(b)
         /\ c \div Cols + n < b <=> c + Row(n) < Row(b)
         /\ c \div Cols - n >= t <=> c - Row(n) >= Row(t)
<1>1. c \in Nat /\ Cols \in Nat \ {0}
  BY Sizes, ConsoleNumbers
<1>2. PICK q \in Nat : q = c \div Cols
  BY <1>1
<1>3. \A k \in Int : q >= k <=> c >= Row(k)
  BY <1>1, <1>2, DivRow
<1>4. /\ Row(b - n) = Row(b) - Row(n) /\ Row(t + n) = Row(t) + Row(n)
      /\ Row(b) \in Nat /\ Row(n) \in Nat /\ Row(t) \in Nat
  <2>1. b \in Int /\ n \in Int /\ t \in Int
    OBVIOUS
  <2>2. Row(b - n) = Row(b) - Row(n)
    BY <2>1, RowSum
  <2>3. Row(t + n) = Row(t) + Row(n)
    BY <2>1, RowSum
  <2> QED
    BY <2>2, <2>3, RowTypes
<1>5. /\ q >= t <=> c >= Row(t)
      /\ q >= b <=> c >= Row(b)
      /\ q >= b - n <=> c >= Row(b) - Row(n)
      /\ q >= t + n <=> c >= Row(t) + Row(n)
  BY <1>3, <1>4
<1>6. q \notin t .. b - 1 <=> c < Row(t) \/ c >= Row(b)
  BY <1>1, <1>4, <1>5
<1>7. q + n < b <=> c + Row(n) < Row(b)
  BY <1>1, <1>4, <1>5
<1>8. q - n >= t <=> c - Row(n) >= Row(t)
  BY <1>1, <1>4, <1>5
<1> QED
  BY <1>2, <1>6, <1>7, <1>8

LEMMA UpIsRisen ==
  ASSUME NEW f, NEW t \in Nat, NEW b \in Nat, NEW n \in Nat
  PROVE  Consoles!Visible!Up(f, t, b, n) = Risen(f, t, b, n)
<1>1. Consoles!Visible!Up(f, t, b, n)
        = [c \in 0 .. Area - 1 |-> IF c \div Cols \notin t .. b - 1 THEN f[c]
                                   ELSE IF c \div Cols + n < b THEN f[c + Row(n)] ELSE 0]
  BY DEF Consoles!Visible!Up, Consoles!Visible!Last, Consoles!Blank, Row, Area
<1> QED
  BY <1>1, LinesDivided DEF Risen

LEMMA DownIsSunk ==
  ASSUME NEW f, NEW t \in Nat, NEW b \in Nat, NEW n \in Nat
  PROVE  Consoles!Visible!Down(f, t, b, n) = Sunk(f, t, b, n)
<1>1. Consoles!Visible!Down(f, t, b, n)
        = [c \in 0 .. Area - 1 |-> IF c \div Cols \notin t .. b - 1 THEN f[c]
                                   ELSE IF c \div Cols - n >= t THEN f[c - Row(n)] ELSE 0]
  BY DEF Consoles!Visible!Down, Consoles!Visible!Last, Consoles!Blank, Row, Area
<1> QED
  BY <1>1, LinesDivided DEF Sunk

LEMMA ErasedIsWiped ==
  ASSUME NEW f, NEW i, NEW n
  PROVE  Consoles!Visible!Erased(f, i, n) = Wiped(f, i, n)
BY DEF Consoles!Visible!Erased, Consoles!Visible!Last, Consoles!Blank, Wiped, Area

(* What is visible now.                                                    *)
Screened == [i \in 0 .. Lines * Cols - 1 |-> con.mem[con.origin + i]]
Column == (con.pos - con.origin) - con.y * Cols

LEMMA SeenNow ==
  ASSUME Sound(con)
  PROVE  Screened = Shown(con) /\ Column = con.x
<1>1. Screened = Shown(con)
  BY DEF Screened, Shown, Area
<1>2. PICK O \in Nat, P \in Nat, X \in Nat, R \in Nat, E \in Nat :
        /\ O = con.origin /\ P = con.pos /\ X = con.x /\ R = Row(con.y) /\ E = con.scr_end
        /\ P = O + (R + X) /\ X <= Cols /\ R + Cols <= Area /\ E = O + Area
  BY CursorNumbers
<1>3. P = O + (R + X)
  BY <1>2
<1>4. (P - O) - R = X
  BY <1>3
<1> QED
  BY <1>1, <1>2, <1>4 DEF Column, Row

LEMMA SeenNext == Sound(con)' => (Screened = Shown(con) /\ Column = con.x)'
<1>1. Sound(con) => (Screened = Shown(con) /\ Column = con.x)
  BY SeenNow
<1> QED
  BY <1>1, PTL

(* The steps of the screen, from one state of the console to another.      *)
MoveStep(s, t) == SameRegion(s, t) /\ Shown(t) = Shown(s)
FeedStep(s, t) == SameRegion(s, t) /\ Shown(t) = FedPicture(s) /\ t.x = s.x /\ t.y = FedRow(s)
BackStep(s, t) == SameRegion(s, t) /\ Shown(t) = ReversedPicture(s) /\ t.x = s.x /\ t.y = ReversedRow(s)
WriteStep(s, t) ==
  /\ SameRegion(s, t) /\ t.x = PrintedColumn(s) + 1 /\ t.y = PrintedRow(s)
  /\ \E a \in Attr : Shown(t) = [PrintedOn(s) EXCEPT ![Row(PrintedRow(s)) + PrintedColumn(s)] = a]
TabStep(s, t) ==
  /\ SameRegion(s, t)
  /\ \E x \in 1 .. Cols :
        /\ t.x = x
        /\ \/ x > s.x /\ Shown(t) = Shown(s) /\ t.y = s.y
           \/ x <= s.x /\ Shown(t) = FedPicture(s) /\ t.y = FedRow(s)
Behind(s) == Row(s.y) + s.x - 1
DeleteStep(s, t) ==
  /\ SameRegion(s, t) /\ s.x > 0 /\ t.x = s.x - 1 /\ t.y = s.y
  /\ Shown(t) = Wiped(Shown(s), Behind(s), 1)
StayStep(s, t) == SameRegion(s, t) /\ t.x = s.x /\ t.y = s.y
EraseStep(s, t) ==
  /\ StayStep(s, t)
  /\ \E i, n \in Int : Spanned(s, i, n) /\ Shown(t) = Wiped(Shown(s), i, n)
ShiftStep(s, t) ==
  /\ StayStep(s, t)
  /\ \E n \in 1 .. Lines : Shown(t) \in {Risen(Shown(s), s.y, Lines, n), Sunk(Shown(s), s.y, Lines, n)}
SlideStep(s, t) ==
  /\ StayStep(s, t)
  /\ \E n \in 1 .. Cols : Shown(t) \in {Back(Shown(s), Row(s.y) + s.x, Row(s.y) + Cols, n),
                                       Forth(Shown(s), Row(s.y) + s.x, Row(s.y) + Cols, n)}
RegionStep(s, t) == Shown(t) = Shown(s) /\ t.x = s.x /\ t.y = s.y

Turns(s, t) ==
  \/ MoveStep(s, t) \/ FeedStep(s, t) \/ BackStep(s, t) \/ WriteStep(s, t) \/ TabStep(s, t)
  \/ DeleteStep(s, t) \/ EraseStep(s, t) \/ ShiftStep(s, t) \/ SlideStep(s, t) \/ RegionStep(s, t)

(* Each is one of module Screen.                                           *)
Seen ==
  /\ Sound(con) /\ Sound(con)'
  /\ Screened = Shown(con) /\ Column = con.x
  /\ Screened' = Shown(con') /\ Column' = con'.x

LEMMA SeesMove ==
  ASSUME Seen, MoveStep(con, con')
  PROVE  Consoles!Visible!Move
<1>1. con'.x \in 0 .. Cols /\ con'.y \in 0 .. Lines - 1
  <2>1. Sound(con') 
    BY DEF Seen
  <2>2. PICK X \in Nat, Y \in Nat : X = con'.x /\ Y = con'.y /\ X <= Cols /\ Y < Lines
    BY <2>1, SoundTypes
  <2>3. X \in 0 .. Cols /\ Y \in 0 .. Lines - 1
    BY <2>2, ConsoleNumbers
  <2> QED
    BY <2>2, <2>3
<1>2. Column' \in 0 .. Cols /\ Screened' = Screened /\ con'.top = con.top /\ con'.bottom = con.bottom
  BY <1>1 DEF Seen, MoveStep, SameRegion
<1> QED
  BY <1>1, <1>2 DEF Consoles!Visible!Move, Screened, Column

LEMMA FedIs ==
  ASSUME Seen
  PROVE  /\ Consoles!Visible!FedScreen = FedPicture(con)
         /\ Consoles!Visible!FedLine = FedRow(con)
<1>1. con.top \in Nat /\ con.bottom \in Nat
  BY SoundTypes DEF Seen
<1>2. Consoles!Visible!Up(Screened, con.top, con.bottom, 1) = Risen(Shown(con), con.top, con.bottom, 1)
  BY <1>1, UpIsRisen DEF Seen
<1>3. Consoles!Visible!FedScreen
        = IF con.y + 1 >= con.bottom THEN Consoles!Visible!Up(Screened, con.top, con.bottom, 1) ELSE Screened
  BY DEF Consoles!Visible!FedScreen, Consoles!Visible!Scrolls, Screened
<1>4. Consoles!Visible!FedLine = FedRow(con)
  BY DEF Consoles!Visible!FedLine, Consoles!Visible!Scrolls, FedRow
<1> QED
  BY <1>2, <1>3, <1>4 DEF FedPicture, Seen

LEMMA SeesFeed ==
  ASSUME Seen, FeedStep(con, con')
  PROVE  Consoles!Visible!Feed
<1>1. /\ Screened' = FedPicture(con) /\ Column' = Column /\ con'.y = FedRow(con)
      /\ con'.top = con.top /\ con'.bottom = con.bottom
  BY DEF Seen, FeedStep, SameRegion
<1>2. Screened' = Consoles!Visible!FedScreen /\ con'.y = Consoles!Visible!FedLine
  BY <1>1, FedIs
<1> QED
  BY <1>1, <1>2 DEF Consoles!Visible!Feed, Screened, Column

LEMMA SeesBack ==
  ASSUME Seen, BackStep(con, con')
  PROVE  Consoles!Visible!ReverseFeed
<1>1. con.top \in Nat /\ con.bottom \in Nat
  BY SoundTypes DEF Seen
<1>2. Consoles!Visible!Down(Screened, con.top, con.bottom, 1) = Sunk(Shown(con), con.top, con.bottom, 1)
  BY <1>1, DownIsSunk DEF Seen
<1>3. /\ Screened' = ReversedPicture(con) /\ Column' = Column /\ con'.y = ReversedRow(con)
      /\ con'.top = con.top /\ con'.bottom = con.bottom
  BY DEF Seen, BackStep, SameRegion
<1>4. CASE con.y > con.top
  <2>1. Screened' = Screened /\ con'.y = con.y - 1
    BY <1>3, <1>4 DEF Seen, ReversedPicture, ReversedRow
  <2> QED
    BY <1>3, <1>4, <2>1 DEF Consoles!Visible!ReverseFeed, Screened, Column
<1>5. CASE ~(con.y > con.top)
  <2>1. Screened' = Consoles!Visible!Down(Screened, con.top, con.bottom, 1) /\ con'.y = con.y
    BY <1>2, <1>3, <1>5 DEF Seen, ReversedPicture, ReversedRow
  <2> QED
    BY <1>3, <1>5, <2>1 DEF Consoles!Visible!ReverseFeed, Screened, Column
<1> QED
  BY <1>4, <1>5

LEMMA HereIs ==
  ASSUME Seen
  PROVE  Consoles!Visible!Here = Row(con.y) + con.x
<1>1. Consoles!Visible!Here = con.y * Cols + Column
  BY DEF Consoles!Visible!Here, Column
<1> QED
  BY <1>1 DEF Seen, Row

LEMMA SeesWrite ==
  ASSUME Seen, WriteStep(con, con')
  PROVE  Consoles!Visible!Write
<1>1. PICK a \in Attr : Screened' = [PrintedOn(con) EXCEPT ![Row(PrintedRow(con)) + PrintedColumn(con)] = a]
  BY DEF Seen, WriteStep
<1>2. /\ Column' = PrintedColumn(con) + 1 /\ con'.y = PrintedRow(con)
      /\ con'.top = con.top /\ con'.bottom = con.bottom
  BY DEF Seen, WriteStep, SameRegion
<1>3. con.x \in Nat /\ Cols \in Nat /\ Row(FedRow(con)) \in Nat /\ Row(con.y) \in Nat
  <2>1. con.x \in Nat /\ con.y \in Nat /\ con.y + 1 \in Nat
    BY SoundTypes DEF Seen
  <2> QED
    BY <2>1, RowTypes, ConsoleNumbers DEF FedRow
<1>4. CASE Column < Cols
  <2>1. Screened' = [Screened EXCEPT ![Consoles!Visible!Here] = a] /\ Column' = Column + 1 /\ con'.y = con.y
    BY <1>1, <1>2, <1>3, <1>4, HereIs DEF Seen, PrintedOn, PrintedRow, PrintedColumn
  <2> QED
    BY <1>2, <1>4, <2>1 DEF Consoles!Visible!Write, Screened, Column
<1>5. CASE ~(Column < Cols)
  <2>1. con.x >= Cols
    BY <1>3, <1>5 DEF Seen
  <2>2. Row(FedRow(con)) + 0 = Consoles!Visible!FedLine * Cols
    BY <1>3, FedIs DEF Row
  <2>3. /\ Screened' = [Consoles!Visible!FedScreen EXCEPT ![Consoles!Visible!FedLine * Cols] = a]
        /\ Column' = 1 /\ con'.y = Consoles!Visible!FedLine
    BY <1>1, <1>2, <2>1, <2>2, FedIs DEF PrintedOn, PrintedRow, PrintedColumn
  <2> QED
    BY <1>2, <1>5, <2>3 DEF Consoles!Visible!Write, Screened, Column
<1> QED
  BY <1>4, <1>5

LEMMA SeesTab ==
  ASSUME Seen, TabStep(con, con')
  PROVE  Consoles!Visible!Tab
<1>1. PICK x \in 1 .. Cols :
        /\ con'.x = x
        /\ \/ x > con.x /\ Shown(con') = Shown(con) /\ con'.y = con.y
           \/ x <= con.x /\ Shown(con') = FedPicture(con) /\ con'.y = FedRow(con)
  BY DEF TabStep
<1>2. Column' = x /\ con'.top = con.top /\ con'.bottom = con.bottom /\ Column \in Nat /\ Cols \in Nat
  BY <1>1, SoundTypes, ConsoleNumbers DEF Seen, TabStep, SameRegion
<1>3. CASE x > con.x /\ Shown(con') = Shown(con) /\ con'.y = con.y
  <2>1. x > Column /\ Screened' = Screened
    BY <1>3 DEF Seen
  <2>2. Column' \in Column + 1 .. Cols
    BY <1>2, <2>1
  <2> QED
    BY <1>2, <1>3, <2>1, <2>2 DEF Consoles!Visible!Tab, Screened, Column
<1>4. CASE x <= con.x /\ Shown(con') = FedPicture(con) /\ con'.y = FedRow(con)
  <2>1. x <= Column /\ Screened' = Consoles!Visible!FedScreen /\ con'.y = Consoles!Visible!FedLine
    BY <1>4, FedIs DEF Seen
  <2>2. Column' \in 1 .. Column
    BY <1>2, <2>1
  <2> QED
    BY <1>2, <2>1, <2>2 DEF Consoles!Visible!Tab, Screened, Column
<1> QED
  BY <1>1, <1>3, <1>4

LEMMA SeesDelete ==
  ASSUME Seen, DeleteStep(con, con')
  PROVE  Consoles!Visible!Delete
<1>1. Column > 0 /\ Column' = Column - 1 /\ con'.y = con.y /\ con'.top = con.top /\ con'.bottom = con.bottom
  BY DEF Seen, DeleteStep, SameRegion
<1>2. Screened' = Consoles!Visible!Erased(Screened, Consoles!Visible!Here - 1, 1)
  <2>1. PICK h \in Nat : h = Row(con.y) + con.x /\ h = Consoles!Visible!Here
    BY HereIs, CursorNumbers DEF Seen
  <2>2. Screened' = Wiped(Screened, h - 1, 1)
    <3>1. Screened' = Wiped(Screened, Behind(con), 1)
      BY DEF Seen, DeleteStep
    <3>2. Behind(con) = h - 1
      <4>1. PICK R \in Nat, X \in Nat : R = Row(con.y) /\ X = con.x
        BY CursorNumbers DEF Seen
      <4>2. h = R + X
        BY <2>1, <4>1
      <4>3. Behind(con) = R + X - 1
        BY <4>1 DEF Behind
      <4> QED
        BY <4>2, <4>3
    <3> QED
      BY <3>1, <3>2
  <2>3. Screened' = Consoles!Visible!Erased(Screened, h - 1, 1)
    BY <2>2, ErasedIsWiped
  <2> QED
    BY <2>1, <2>3
<1> QED
  BY <1>1, <1>2 DEF Consoles!Visible!Delete, Screened, Column

LEMMA SeesErase ==
  ASSUME Seen, EraseStep(con, con')
  PROVE  Consoles!Visible!Erase
<1>1. Column' = Column /\ con'.y = con.y /\ con'.top = con.top /\ con'.bottom = con.bottom
  BY DEF Seen, EraseStep, StayStep, SameRegion
<1> DEFINE here == Consoles!Visible!Here
           Spans == {<<here, Lines * Cols - here>>, <<0, here>>, <<0, Lines * Cols>>,
                     <<here, Cols - Column>>, <<con.y * Cols, Column>>, <<con.y * Cols, Cols>>}
<1>2. PICK i \in Int, n \in Int : Spanned(con, i, n) /\ Shown(con') = Wiped(Shown(con), i, n)
  BY DEF EraseStep
<1>3. <<i, n>> \in Spans
  BY <1>2, HereIs DEF Spanned, Seen, Area, Row
<1> HIDE DEF Spans
<1>4. PICK span \in Spans : span = <<i, n>>
  BY <1>3
<1>5. Screened' = Consoles!Visible!Erased(Screened, span[1], span[2])
  BY <1>2, <1>4, ErasedIsWiped DEF Seen
<1>6. \E sp \in Spans : Screened' = Consoles!Visible!Erased(Screened, sp[1], sp[2])
  BY <1>5
<1> QED
  BY <1>1, <1>6 DEF Consoles!Visible!Erase, Spans, Screened, Column

LEMMA SeesShift ==
  ASSUME Seen, ShiftStep(con, con')
  PROVE  Consoles!Visible!Shift
<1>1. Column' = Column /\ con'.y = con.y /\ con'.top = con.top /\ con'.bottom = con.bottom
  BY DEF Seen, ShiftStep, StayStep, SameRegion
<1>2. PICK n \in 1 .. Lines : Shown(con') \in {Risen(Shown(con), con.y, Lines, n), Sunk(Shown(con), con.y, Lines, n)}
  BY DEF ShiftStep
<1>3. con.y \in Nat /\ Lines \in Nat /\ n \in Nat
  BY SoundTypes, ConsoleNumbers DEF Seen
<1>4. Screened' \in {Consoles!Visible!Up(Screened, con.y, Lines, n), Consoles!Visible!Down(Screened, con.y, Lines, n)}
  BY <1>2, <1>3, UpIsRisen, DownIsSunk DEF Seen
<1> QED
  BY <1>1, <1>4 DEF Consoles!Visible!Shift, Screened, Column

LEMMA SeesSlide ==
  ASSUME Seen, SlideStep(con, con')
  PROVE  Consoles!Visible!Slide
<1>1. Column' = Column /\ con'.y = con.y /\ con'.top = con.top /\ con'.bottom = con.bottom
  BY DEF Seen, SlideStep, StayStep, SameRegion
<1>2. PICK n \in 1 .. Cols :
        Shown(con') \in {Back(Shown(con), Row(con.y) + con.x, Row(con.y) + Cols, n),
                         Forth(Shown(con), Row(con.y) + con.x, Row(con.y) + Cols, n)}
  BY DEF SlideStep
<1>3. PICK H \in Nat, L \in Nat : H = Row(con.y) + con.x /\ L = Row(con.y) + Cols /\ L <= Area
  BY CursorNumbers, ConsoleNumbers DEF Seen
<1>4. Consoles!Visible!Here = H /\ (con.y + 1) * Cols = L
  <2>1. con.y \in Int
    BY SoundTypes DEF Seen
  <2>2. Row(con.y + 1) = Row(con.y) + Cols
    BY <2>1, RowNext
  <2> QED
    BY <1>3, <2>2, HereIs DEF Row
<1>5. \A c \in Int : Consoles!Visible!InLine(c) <=> c >= H /\ c < L
  BY <1>4 DEF Consoles!Visible!InLine
<1>6. /\ Area \in Nat /\ 0 .. Consoles!Visible!Last = 0 .. Area - 1
      /\ \A c \in 0 .. Area - 1 : c \in Int /\ c + n \in Int /\ c - n \in Int
  BY Sizes DEF Consoles!Visible!Last, Area
<1> DEFINE In == [c \in 0 .. Consoles!Visible!Last |->
                    IF ~Consoles!Visible!InLine(c) THEN Screened[c]
                    ELSE IF c - n >= Consoles!Visible!Here THEN Screened[c - n] ELSE Consoles!Blank]
           Out == [c \in 0 .. Consoles!Visible!Last |->
                    IF ~Consoles!Visible!InLine(c) THEN Screened[c]
                    ELSE IF Consoles!Visible!InLine(c + n) THEN Screened[c + n] ELSE Consoles!Blank]
<1>7. In = Forth(Shown(con), H, L, n)
  <2>1. ASSUME NEW c \in 0 .. Area - 1
        PROVE  (IF ~Consoles!Visible!InLine(c) THEN Screened[c]
                ELSE IF c - n >= Consoles!Visible!Here THEN Screened[c - n] ELSE Consoles!Blank)
               = (IF c < H \/ c >= L THEN Shown(con)[c] ELSE IF c - n >= H THEN Shown(con)[c - n] ELSE 0)
    BY <1>4, <1>5, <1>6 DEF Seen, Consoles!Blank
  <2> QED
    BY <1>6, <2>1 DEF Forth
<1>8. Out = Back(Shown(con), H, L, n)
  <2>1. ASSUME NEW c \in 0 .. Area - 1
        PROVE  (IF ~Consoles!Visible!InLine(c) THEN Screened[c]
                ELSE IF Consoles!Visible!InLine(c + n) THEN Screened[c + n] ELSE Consoles!Blank)
               = (IF c < H \/ c >= L THEN Shown(con)[c] ELSE IF c + n < L THEN Shown(con)[c + n] ELSE 0)
    BY <1>4, <1>5, <1>6 DEF Seen, Consoles!Blank
  <2> QED
    BY <1>6, <2>1 DEF Back
<1> HIDE DEF In, Out
<1>9. Screened' = In \/ Screened' = Out
  BY <1>2, <1>3, <1>7, <1>8 DEF Seen
<1> QED
  BY <1>1, <1>9 DEF Consoles!Visible!Slide, Screened, Column, In, Out

LEMMA SeesRegion ==
  ASSUME Seen, RegionStep(con, con')
  PROVE  Consoles!Visible!SetRegion
<1>1. Screened' = Screened /\ Column' = Column /\ con'.y = con.y
  BY DEF Seen, RegionStep
<1>2. PICK T \in Nat, B \in Nat : T = con'.top /\ B = con'.bottom /\ T < B /\ B <= Lines
  <2>1. Sound(con')
    BY DEF Seen
  <2> QED
    BY <2>1, SoundTypes
<1>3. T \in 0 .. Lines - 1 /\ B \in 1 .. Lines
  BY <1>2, ConsoleNumbers
<1> QED
  BY <1>1, <1>2, <1>3 DEF Consoles!Visible!SetRegion, Screened, Column

LEMMA TurnSeen ==
  ASSUME Seen, Turns(con, con')
  PROVE  Consoles!Visible!Next
BY SeesMove, SeesFeed, SeesBack, SeesWrite, SeesTab, SeesDelete, SeesErase, SeesShift, SeesSlide, SeesRegion
   DEF Turns, Consoles!Visible!Next

(* Every operation turns a sound state into one, by a step of the screen.  *)
Turned(s, t) == Sound(t) /\ Turns(s, t)

LEMMA MovesTurn == ASSUME NEW s, NEW t, Stirs(s, t) PROVE Turned(s, t)
BY DEF Stirs, Turned, Turns, MoveStep

LEMMA StaysTurned == ASSUME NEW s, Sound(s) PROVE Turned(s, s)
BY StaysThere, MovesTurn

LEMMA ErasesTurn == ASSUME NEW s, NEW t, Erases(s, t) PROVE Turned(s, t)
BY DEF Erases, Edits, Turned, Turns, EraseStep, StayStep

(* The registers that only tell the sequence that is read, and the         *)
(* attribute.                                                              *)
Alike(s, t) ==
  /\ t.mem = s.mem /\ t.origin = s.origin /\ t.scr_end = s.scr_end /\ t.pos = s.pos
  /\ t.x = s.x /\ t.y = s.y /\ t.top = s.top /\ t.bottom = s.bottom
  /\ t.saved_x = s.saved_x /\ t.saved_y = s.saved_y

LEMMA AlikeSound ==
  ASSUME NEW s, Sound(s), NEW t \in Registers, Alike(s, t)
  PROVE  Sound(t)
BY DEF Alike, Sound

LEMMA AlikeTurns ==
  ASSUME NEW s, NEW t, Alike(s, t)
  PROVE  /\ MoveStep(s, t)
         /\ \A u : Turns(t, u) => Turns(s, u)
         /\ \A u : Turns(u, s) => Turns(u, t)
<1>1. Shown(t) = Shown(s) /\ t.x = s.x /\ t.y = s.y /\ t.top = s.top /\ t.bottom = s.bottom
  BY DEF Alike, Shown
<1>2. FedPicture(t) = FedPicture(s) /\ FedRow(t) = FedRow(s)
  BY <1>1 DEF FedPicture, FedRow
<1>3. ReversedPicture(t) = ReversedPicture(s) /\ ReversedRow(t) = ReversedRow(s)
  BY <1>1 DEF ReversedPicture, ReversedRow
<1>4. PrintedOn(t) = PrintedOn(s) /\ PrintedRow(t) = PrintedRow(s) /\ PrintedColumn(t) = PrintedColumn(s)
  BY <1>1, <1>2 DEF PrintedOn, PrintedRow, PrintedColumn
<1>5. ASSUME NEW u, Turns(t, u) PROVE Turns(s, u)
  <2>1. /\ MoveStep(t, u) => MoveStep(s, u)
        /\ FeedStep(t, u) => FeedStep(s, u)
        /\ BackStep(t, u) => BackStep(s, u)
    BY <1>1, <1>2, <1>3 DEF MoveStep, FeedStep, BackStep, SameRegion
  <2>2. /\ WriteStep(t, u) => WriteStep(s, u)
        /\ TabStep(t, u) => TabStep(s, u)
        /\ DeleteStep(t, u) => DeleteStep(s, u)
    BY <1>1, <1>2, <1>4 DEF WriteStep, TabStep, DeleteStep, Behind, SameRegion
  <2>3. EraseStep(t, u) => EraseStep(s, u)
    BY <1>1 DEF EraseStep, StayStep, SameRegion, Spanned
  <2>4. /\ ShiftStep(t, u) => ShiftStep(s, u)
        /\ SlideStep(t, u) => SlideStep(s, u)
        /\ RegionStep(t, u) => RegionStep(s, u)
    BY <1>1 DEF ShiftStep, SlideStep, RegionStep, StayStep, SameRegion
  <2> QED
    BY <1>5, <2>1, <2>2, <2>3, <2>4 DEF Turns
<1>6. ASSUME NEW u, Turns(u, s) PROVE Turns(u, t)
  <2>1. /\ MoveStep(u, s) => MoveStep(u, t)
        /\ FeedStep(u, s) => FeedStep(u, t)
        /\ BackStep(u, s) => BackStep(u, t)
    BY <1>1 DEF MoveStep, FeedStep, BackStep, SameRegion
  <2>2. /\ WriteStep(u, s) => WriteStep(u, t)
        /\ TabStep(u, s) => TabStep(u, t)
        /\ DeleteStep(u, s) => DeleteStep(u, t)
    BY <1>1 DEF WriteStep, TabStep, DeleteStep, SameRegion
  <2>3. EraseStep(u, s) => EraseStep(u, t)
    BY <1>1 DEF EraseStep, StayStep, SameRegion
  <2>4. /\ ShiftStep(u, s) => ShiftStep(u, t)
        /\ SlideStep(u, s) => SlideStep(u, t)
        /\ RegionStep(u, s) => RegionStep(u, t)
    BY <1>1 DEF ShiftStep, SlideStep, RegionStep, StayStep, SameRegion
  <2> QED
    BY <1>6, <2>1, <2>2, <2>3, <2>4 DEF Turns
<1> QED
  BY <1>1, <1>5, <1>6 DEF MoveStep, SameRegion

LEMMA FeedsTurn == ASSUME NEW s, Sound(s) PROVE Turned(s, Consoles!lf(s)) /\ Turned(s, Consoles!ri(s))
<1>1. Turned(s, Consoles!lf(s))
  BY LineFeeds DEF Becoming, Turned, Turns, FeedStep
<1>2. Turned(s, Consoles!ri(s))
  BY LineFeedsBack DEF Becoming, Turned, Turns, BackStep
<1> QED
  BY <1>1, <1>2

LEMMA DeleteTurns == ASSUME NEW s, Sound(s) PROVE Turned(s, Consoles!del(s))
<1>1. CASE s.x = 0
  <2>1. Consoles!del(s) = s
    BY <1>1 DEF Consoles!del
  <2> QED
    BY <2>1, StaysTurned
<1>2. CASE s.x # 0
  <2>1. s.x > 0
    BY <1>2, SoundTypes
  <2> QED
    BY <1>2, <2>1, CharacterDeleted DEF Becoming, Turned, Turns, DeleteStep, Behind
<1> QED
  BY <1>1, <1>2

LEMMA PrintTurns == ASSUME NEW s, Sound(s) PROVE Turned(s, Consoles!Printed(s))
<1>1. s.attr \in Attr
  BY SoundTypes
<1>2. Sound(Consoles!Printed(s)) /\ WriteStep(s, Consoles!Printed(s))
  BY <1>1, CharacterPrinted DEF Becoming, WriteStep
<1> QED
  BY <1>2 DEF Turned, Turns

LEMMA TabTurns == ASSUME NEW s, Sound(s) PROVE Turned(s, Consoles!tab(s))
<1>1. PICK x \in 1 .. Cols :
            \/ x > s.x /\ Becoming(s, Consoles!tab(s), Shown(s), x, s.y)
            \/ x <= s.x /\ Becoming(s, Consoles!tab(s), FedPicture(s), x, FedRow(s))
  BY Tabulates
<1>2. Sound(Consoles!tab(s)) /\ TabStep(s, Consoles!tab(s))
  BY <1>1 DEF Becoming, TabStep
<1> QED
  BY <1>2 DEF Turned, Turns

LEMMA ShiftTurns ==
  ASSUME NEW s, Sound(s), NEW n \in Nat
  PROVE  /\ Turned(s, Consoles!Repeated(Consoles!insert_line, s, n, Lines))
         /\ Turned(s, Consoles!Repeated(Consoles!delete_line, s, n, Lines))
<1>1. PICK k \in 1 .. Lines : k = Times(n, Lines)
  BY ConsoleNumbers DEF Times
<1>2. k * Cols = Row(k) /\ Row(Lines) = Area
  BY Sizes DEF Row
<1>3. /\ Forth(Shown(s), Row(s.y), Area, k * Cols) = Sunk(Shown(s), s.y, Lines, k)
      /\ Back(Shown(s), Row(s.y), Area, k * Cols) = Risen(Shown(s), s.y, Lines, k)
  BY <1>2, RisenSunk
<1>4. /\ Edits(s, Consoles!Repeated(Consoles!insert_line, s, n, Lines), Sunk(Shown(s), s.y, Lines, k))
      /\ Edits(s, Consoles!Repeated(Consoles!delete_line, s, n, Lines), Risen(Shown(s), s.y, Lines, k))
  BY <1>1, <1>3, LinesInsertedTimes, LinesDeletedTimes
<1>5. ASSUME NEW t, Edits(s, t, Sunk(Shown(s), s.y, Lines, k)) \/ Edits(s, t, Risen(Shown(s), s.y, Lines, k))
      PROVE  Turned(s, t)
  BY <1>5 DEF Edits, Turned, Turns, ShiftStep, StayStep
<1> QED
  BY <1>4, <1>5

LEMMA SlideTurns ==
  ASSUME NEW s, Sound(s), NEW n \in Nat
  PROVE  /\ Turned(s, Consoles!Repeated(Consoles!insert_char, s, n, Cols))
         /\ Turned(s, Consoles!Repeated(Consoles!delete_char, s, n, Cols))
<1>1. PICK k \in 1 .. Cols : k = Times(n, Cols) /\ k * 1 = k
  BY ConsoleNumbers DEF Times
<1>2. /\ Edits(s, Consoles!Repeated(Consoles!insert_char, s, n, Cols),
               Forth(Shown(s), Row(s.y) + s.x, Row(s.y) + Cols, k))
      /\ Edits(s, Consoles!Repeated(Consoles!delete_char, s, n, Cols),
               Back(Shown(s), Row(s.y) + s.x, Row(s.y) + Cols, k))
  BY <1>1, CharactersInsertedTimes, CharactersDeletedTimes
<1>3. ASSUME NEW t, \/ Edits(s, t, Forth(Shown(s), Row(s.y) + s.x, Row(s.y) + Cols, k))
                    \/ Edits(s, t, Back(Shown(s), Row(s.y) + s.x, Row(s.y) + Cols, k))
      PROVE  Turned(s, t)
  BY <1>3 DEF Edits, Turned, Turns, SlideStep, StayStep
<1> QED
  BY <1>2, <1>3

LEMMA AttributeTurns == ASSUME NEW s, Sound(s) PROVE Turned(s, Consoles!csi_m(s))
<1> DEFINE set == {i \in 0 .. s.npar : s.par[i] \in {0, 1, 4, 7}}
           code == s.par[CHOOSE i \in set : \A j \in set : j <= i]
<1>1. PICK n \in Nat : n = s.npar
  BY SoundTypes, ConsoleNumbers DEF Consoles!Par
<1>2. CASE set = {}
  <2>1. Consoles!csi_m(s) = s
    BY <1>2 DEF Consoles!csi_m
  <2> QED
    BY <2>1, StaysTurned
<1>3. CASE set # {}
  <2>1. \E i \in set : \A j \in set : j <= i
    <3> DEFINE S == {n - i : i \in set}
    <3>1. S \subseteq Nat /\ S # {}
      BY <1>1, <1>3
    <3>2. PICK m \in S : \A k \in S : m <= k
      <4> HIDE DEF S
      <4> QED
        BY <3>1, LeastNatural
    <3>3. PICK i \in set : m = n - i
      OBVIOUS
    <3>4. \A j \in set : j <= i
      <4> TAKE j \in set
      <4>1. n - j \in S
        OBVIOUS
      <4>2. m <= n - j /\ j \in Nat /\ i \in Nat
        BY <1>1, <3>2, <4>1
      <4> QED
        BY <3>3, <4>2
    <3> QED
      BY <3>4
  <2>2. code \in {0, 1, 4, 7}
    <3>1. \A i \in set : s.par[i] \in {0, 1, 4, 7}
      OBVIOUS
    <3> HIDE DEF set
    <3> QED
      BY <2>1, <3>1
  <2> DEFINE a == CASE code = 0 -> 7 [] code \in {1, 4} -> 15 [] code = 7 -> 112
  <2>3. a \in Attr
    <3> HIDE DEF code
    <3> QED
      BY <2>2, ConsoleNumbers
  <2>4. Consoles!csi_m(s) = [s EXCEPT !.attr = a]
    BY <1>3 DEF Consoles!csi_m
  <2> HIDE DEF a
  <2> DEFINE t == [s EXCEPT !.attr = a]
  <2>5. t \in Registers /\ Alike(s, t)
    BY <2>3, SoundTypes DEF Alike, Registers
  <2> HIDE DEF t
  <2>6. Turned(s, t)
    BY <2>5, AlikeSound, AlikeTurns DEF Turned, Turns
  <2> QED
    BY <2>4, <2>6 DEF t
<1> QED
  BY <1>2, <1>3

LEMMA RegionTurns ==
  ASSUME NEW s, Sound(s), NEW first \in Nat, NEW final \in Nat
  PROVE  Turned(s, Consoles!csi_r(s, first, final))
<1>1. CASE first < final /\ final <= Lines
  <2>1. Consoles!csi_r(s, first, final) = [s EXCEPT !.top = first, !.bottom = final]
    BY <1>1 DEF Consoles!csi_r
  <2>2. /\ Sound([s EXCEPT !.top = first, !.bottom = final])
        /\ Bounded(s, [s EXCEPT !.top = first, !.bottom = final], first, final)
    BY <1>1, RegionSet
  <2> QED
    BY <2>1, <2>2 DEF Turned, Turns, RegionStep, Bounded
<1>2. CASE ~(first < final /\ final <= Lines)
  <2>1. Consoles!csi_r(s, first, final) = s
    BY <1>2 DEF Consoles!csi_r
  <2> QED
    BY <2>1, StaysTurned
<1> QED
  BY <1>1, <1>2

LEMMA GotoTurns ==
  ASSUME NEW s, Sound(s), NEW x \in Int, NEW y \in Int
  PROVE  Turned(s, Consoles!gotoxy(s, x, y))
BY GotoMoves, MovesTurn

LEMMA CsiTurns ==
  ASSUME NEW s, Sound(s), NEW letter
  PROVE  Turned(s, Consoles!Csi(s, letter))
<1>1. PICK p \in Nat, q \in Nat, X \in Nat, Y \in Nat : p = s.par[0] /\ q = s.par[1] /\ X = s.x /\ Y = s.y
  <2>1. 0 \in Consoles!Par /\ 1 \in Consoles!Par
    BY ConsoleNumbers DEF Consoles!Par
  <2> QED
    BY <2>1, SoundTypes
<1>2. PICK n \in Nat, o \in Nat, r \in Nat, z \in Nat :
        /\ n = Consoles!OneAtLeast(p) /\ o = Consoles!FromOne(p) /\ r = Consoles!FromOne(q)
        /\ z = IF q = 0 THEN Lines ELSE q
  BY ConsoleNumbers DEF Consoles!OneAtLeast, Consoles!FromOne
<1>3. /\ Y - n \in Int /\ Y + n \in Int /\ X + n \in Int /\ X - n \in Int
      /\ X \in Int /\ Y \in Int /\ o \in Int /\ r \in Int /\ 0 \in Int
  OBVIOUS
<1>4. CASE letter \in {"G", "A", "B", "C", "D", "E", "F", "d", "H"}
  <2>1. \E x \in Int, y \in Int : Consoles!Csi(s, letter) = Consoles!gotoxy(s, x, y)
    BY <1>1, <1>2, <1>3, <1>4 DEF Consoles!Csi
  <2> QED
    BY <2>1, GotoTurns
<1>5. CASE letter = "J"
  <2>1. Consoles!Csi(s, letter) = Consoles!csi_J(s, p)
    BY <1>1, <1>5 DEF Consoles!Csi
  <2> QED
    BY <2>1, ScreenErased, ErasesTurn, StaysTurned
<1>6. CASE letter = "K"
  <2>1. Consoles!Csi(s, letter) = Consoles!csi_K(s, p)
    BY <1>1, <1>6 DEF Consoles!Csi
  <2> QED
    BY <2>1, LineErased, ErasesTurn, StaysTurned
<1>7. CASE letter = "L"
  <2>1. Consoles!Csi(s, letter) = Consoles!Repeated(Consoles!insert_line, s, p, Lines)
    BY <1>1, <1>7 DEF Consoles!Csi
  <2> QED
    BY <2>1, ShiftTurns
<1>8. CASE letter = "M"
  <2>1. Consoles!Csi(s, letter) = Consoles!Repeated(Consoles!delete_line, s, p, Lines)
    BY <1>1, <1>8 DEF Consoles!Csi
  <2> QED
    BY <2>1, ShiftTurns
<1>9. CASE letter = "P"
  <2>1. Consoles!Csi(s, letter) = Consoles!Repeated(Consoles!delete_char, s, p, Cols)
    BY <1>1, <1>9 DEF Consoles!Csi
  <2> QED
    BY <2>1, SlideTurns
<1>10. CASE letter = "@"
  <2>1. Consoles!Csi(s, letter) = Consoles!Repeated(Consoles!insert_char, s, p, Cols)
    BY <1>1, <1>10 DEF Consoles!Csi
  <2> QED
    BY <2>1, SlideTurns
<1>11. CASE letter = "m"
  <2>1. Consoles!Csi(s, letter) = Consoles!csi_m(s)
    BY <1>11 DEF Consoles!Csi
  <2> QED
    BY <2>1, AttributeTurns
<1>12. CASE letter = "r"
  <2>1. Consoles!Csi(s, letter) = Consoles!csi_r(s, o, z)
    BY <1>1, <1>2, <1>12 DEF Consoles!Csi
  <2> QED
    BY <2>1, RegionTurns
<1>13. CASE letter \in {"s", "u"}
  <2>1. Consoles!Csi(s, letter) \in {Consoles!save_cur(s), Consoles!restore_cur(s)}
    BY <1>13 DEF Consoles!Csi
  <2> QED
    BY <2>1, CursorSaved, MovesTurn
<1>14. CASE letter \notin {"G", "A", "B", "C", "D", "E", "F", "d", "H", "J", "K", "L", "M", "P", "@", "m", "r", "s", "u"}
  <2>1. Consoles!Csi(s, letter) = s
    BY <1>14 DEF Consoles!Csi
  <2> QED
    BY <2>1, StaysTurned
<1> QED
  BY <1>4, <1>5, <1>6, <1>7, <1>8, <1>9, <1>10, <1>11, <1>12, <1>13, <1>14

LEMMA EscTurns ==
  ASSUME NEW s, Sound(s), NEW char
  PROVE  Turned(s, Consoles!Esc(s, char))
<1>1. /\ Sound([s EXCEPT !.state = 2])
      /\ Turned(s, [s EXCEPT !.state = 2])
  <2> DEFINE t == [s EXCEPT !.state = 2]
  <2>1. t \in Registers /\ Alike(s, t)
    BY SoundTypes DEF Alike, Registers
  <2> HIDE DEF t
  <2>2. Sound(t) /\ Turned(s, t)
    BY <2>1, AlikeSound, AlikeTurns DEF Turned, Turns
  <2> QED
    BY <2>2 DEF t
<1>2. Turned(s, Consoles!gotoxy(s, 0, s.y + 1))
  <2>1. s.y + 1 \in Int
    BY SoundTypes
  <2> QED
    BY <2>1, GotoTurns
<1>3. Turned(s, Consoles!save_cur(s)) /\ Turned(s, Consoles!restore_cur(s))
  BY CursorSaved, MovesTurn
<1>4. Consoles!Esc(s, char) \in {[s EXCEPT !.state = 2], Consoles!gotoxy(s, 0, s.y + 1), Consoles!ri(s),
                                 Consoles!lf(s), Consoles!save_cur(s), Consoles!restore_cur(s), s}
  BY DEF Consoles!Esc
<1> QED
  BY <1>1, <1>2, <1>3, <1>4, FeedsTurn, StaysTurned

LEMMA PlainTurns ==
  ASSUME NEW s, Sound(s), NEW char
  PROVE  Turned(s, Consoles!Plain(s, char))
<1>1. Turned(s, [s EXCEPT !.state = 1])
  <2> DEFINE t == [s EXCEPT !.state = 1]
  <2>1. t \in Registers /\ Alike(s, t)
    BY SoundTypes DEF Alike, Registers
  <2> HIDE DEF t
  <2>2. Sound(t) /\ Turned(s, t)
    BY <2>1, AlikeSound, AlikeTurns DEF Turned, Turns
  <2> QED
    BY <2>2 DEF t
<1>2. Turned(s, Consoles!cr(s)) /\ Turned(s, Consoles!bs(s))
  BY ReturnMoves, BackMoves, MovesTurn
<1>3. Consoles!Plain(s, char) \in {[s EXCEPT !.state = 1], Consoles!lf(s), Consoles!cr(s), Consoles!del(s),
                                   Consoles!bs(s), Consoles!tab(s), Consoles!Printed(s)}
  BY DEF Consoles!Plain
<1> QED
  BY <1>1, <1>2, <1>3, FeedsTurn, DeleteTurns, TabTurns, PrintTurns

LEMMA ParameterTurns ==
  ASSUME NEW s, Sound(s), NEW char
  PROVE  Turned(s, Consoles!Parameter(s, char))
<1>1. PICK n \in Consoles!Par : n = s.npar
  BY SoundTypes
<1>2. s \in Registers /\ s.par \in [Consoles!Par -> Nat]
  BY SoundTypes
<1>3. CASE char = ";" /\ s.npar < NPAR - 1
  <2>1. n + 1 \in Consoles!Par
    <3>1. n < NPAR - 1
      BY <1>1, <1>3
    <3> QED
      BY <3>1, ConsoleNumbers DEF Consoles!Par
  <2> DEFINE t == [s EXCEPT !.npar = n + 1]
  <2>2. t \in Registers /\ Alike(s, t)
    BY <1>2, <2>1 DEF Alike, Registers
  <2>3. Consoles!Parameter(s, char) = t
    BY <1>1, <1>3 DEF Consoles!Parameter
  <2> HIDE DEF t
  <2> QED
    BY <2>2, <2>3, AlikeSound, AlikeTurns DEF Turned, Turns
<1>4. CASE ~(char = ";" /\ s.npar < NPAR - 1) /\ char \in Digit
  <2>1. Consoles!Value(char) \in 0 .. 9
    <3>1. Digit \subseteq {Consoles!ToString(k) : k \in 0 .. 9}
      BY DevicesAssumption DEF DevicesAssumption, Consoles!ConsoleAssumption
    <3>2. \E k \in 0 .. 9 : Consoles!ToString(k) = char
      BY <1>4, <3>1
    <3> QED
      BY <3>2 DEF Consoles!Value
  <2>2. PICK v \in Nat : v = Consoles!Value(char)
    BY <2>1
  <2>3. PICK w \in Nat : w = s.par[n]
    BY <1>2
  <2>4. PICK z \in Nat : z = 10 * w + v
    OBVIOUS
  <2>5. PICK par \in [Consoles!Par -> Nat] : par = [s.par EXCEPT ![n] = z]
    BY <1>2
  <2> DEFINE t == [s EXCEPT !.par = par]
  <2>6. t \in Registers /\ Alike(s, t)
    BY <1>2 DEF Alike, Registers
  <2>7. Consoles!Parameter(s, char) = [s EXCEPT !.par[s.npar] = 10 * @ + Consoles!Value(char)]
    BY <1>4 DEF Consoles!Parameter
  <2>8. [s EXCEPT !.par[s.npar] = 10 * @ + Consoles!Value(char)] = [s EXCEPT !.par = par]
    BY <1>1, <2>2, <2>3, <2>4, <2>5
  <2> HIDE DEF t
  <2> QED
    BY <2>6, <2>7, <2>8, AlikeSound, AlikeTurns DEF Turned, Turns, t
<1>5. CASE ~(char = ";" /\ s.npar < NPAR - 1) /\ char \notin Digit
  <2> DEFINE u == Consoles!Csi(s, char)
             t == [u EXCEPT !.state = 0, !.npar = 0, !.par = [i \in Consoles!Par |-> 0]]
  <2>1. Turned(s, u)
    BY CsiTurns
  <2>2. Consoles!Parameter(s, char) = t
    BY <1>5 DEF Consoles!Parameter
  <2> HIDE DEF u
  <2>3. Sound(u)
    BY <2>1 DEF Turned
  <2>4. u \in Registers /\ 0 \in Consoles!Par /\ 0 \in 0 .. 3
    BY <2>3, SoundTypes, ConsoleNumbers DEF Consoles!Par
  <2>5. PICK none \in [Consoles!Par -> Nat] : none = [i \in Consoles!Par |-> 0]
    OBVIOUS
  <2>6. t \in Registers /\ Alike(u, t)
    <3>1. t = [u EXCEPT !.state = 0, !.npar = 0, !.par = none]
      BY <2>5
    <3> HIDE DEF t
    <3>2. t \in Registers
      BY <2>4, <2>5, <3>1 DEF Registers
    <3>3. Alike(u, t)
      BY <2>4, <3>1 DEF Alike, Registers
    <3> QED
      BY <3>2, <3>3
  <2> HIDE DEF t
  <2>7. Sound(t) /\ Turns(s, t)
    BY <2>1, <2>3, <2>6, AlikeSound, AlikeTurns DEF Turned
  <2> QED
    BY <2>2, <2>7 DEF Turned
<1> QED
  BY <1>3, <1>4, <1>5

AtState(s, k) == [s EXCEPT !.state = k]

LEMMA StateSound ==
  ASSUME NEW s, Sound(s), NEW k \in 0 .. 3
  PROVE  Sound(AtState(s, k)) /\ Alike(s, AtState(s, k))
<1>1. AtState(s, k) \in Registers /\ Alike(s, AtState(s, k))
  BY SoundTypes DEF Alike, Registers, AtState
<1> QED
  BY <1>1, AlikeSound

LEMMA WriteTurns ==
  ASSUME NEW s, Sound(s), NEW k \in 0 .. 3, NEW t, Turned(AtState(s, k), t)
  PROVE  Turned(s, t)
BY StateSound, AlikeTurns DEF Turned

LEMMA CharacterTurns ==
  ASSUME Sound(con), NEW char, Consoles!con_write(char)
  PROVE  Turned(con, con')
<1>1. con.state \in 0 .. 3
  BY SoundTypes DEF Registers
<1>2. CASE con.state = 0
  <2>1. con' = Consoles!Plain(con, char)
    BY <1>2 DEF Consoles!con_write
  <2> QED
    BY <2>1, PlainTurns
<1>3. CASE con.state = 1
  <2>1. con' = Consoles!Esc(AtState(con, 0), char)
    BY <1>3 DEF Consoles!con_write, AtState
  <2>2. Sound(AtState(con, 0))
    BY StateSound
  <2>3. Turned(AtState(con, 0), con')
    BY <2>1, <2>2, EscTurns
  <2> QED
    BY <2>3, WriteTurns
<1>4. CASE con.state = 2
  <2>1. con' = IF char = "?" THEN Consoles!Started(con) ELSE Consoles!Parameter(Consoles!Started(con), char)
    BY <1>4 DEF Consoles!con_write
  <2> DEFINE u == AtState(con, 3)
  <2>a. Consoles!Started(con) = u
    BY DEF Consoles!Started, AtState
  <2>b. 3 \in 0 .. 3
    OBVIOUS
  <2> HIDE DEF u
  <2>2. Sound(AtState(con, 3))
    BY <2>b, StateSound
  <2>3. Turned(AtState(con, 3), con')
    <3>1. Sound(u) /\ u = AtState(con, 3)
      BY <2>2 DEF u
    <3>2. con' = u \/ con' = Consoles!Parameter(u, char)
      BY <2>1, <2>a
    <3>3. Turned(u, con')
      BY <3>1, <3>2, ParameterTurns, StaysTurned
    <3> QED
      BY <3>1, <3>3
  <2> QED
    BY <2>3, WriteTurns
<1>5. CASE con.state = 3
  <2>1. con' = Consoles!Parameter(con, char)
    BY <1>5 DEF Consoles!con_write
  <2> QED
    BY <2>1, ParameterTurns
<1> QED
  BY <1>1, <1>2, <1>3, <1>4, <1>5

LEMMA ConsoleInit ==
  ASSUME Consoles!Init
  PROVE  Sound(con) /\ Consoles!Visible!Init
<1> DEFINE m == [a \in Consoles!Address |-> 0]
<1>1. con = [mem |-> m, origin |-> 0, scr_end |-> Area, pos |-> 0,
            x |-> 0, y |-> 0, top |-> 0, bottom |-> Lines, saved_x |-> 0, saved_y |-> 0,
            state |-> 0, npar |-> 0, par |-> [i \in Consoles!Par |-> 0], attr |-> 7]
  BY DEF Consoles!Init, Consoles!Blank, Area
<1>2. m \in Memory
  BY DEF Memory, Cell
<1>3. PICK none \in [Consoles!Par -> Nat] : none = [i \in Consoles!Par |-> 0]
  OBVIOUS
<1>4. /\ 0 \in Consoles!Par /\ 7 \in Attr /\ Lines \in Nat /\ Cols \in Nat /\ 0 < Lines /\ Area \in Nat
      /\ Area <= Size /\ Row(0) = 0 /\ Size \in Nat /\ Cols <= Area
  BY ConsoleNumbers, Sizes DEF Consoles!Par
<1> HIDE DEF m
<1>5. con \in Registers
  BY <1>1, <1>2, <1>3, <1>4 DEF Registers
<1>6. /\ con.mem = m /\ con.origin = 0 /\ con.scr_end = Area /\ con.pos = 0 /\ con.x = 0 /\ con.y = 0
      /\ con.top = 0 /\ con.bottom = Lines /\ con.saved_x = 0 /\ con.saved_y = 0
  BY <1>1
<1>7. Placed(0, Area, 0, 0, 0)
  BY <1>4 DEF Placed
<1>8. Sound(con)
  BY <1>4, <1>5, <1>6, <1>7 DEF Sound
<1>9. Screened = [c \in 0 .. Area - 1 |-> 0]
  <2>1. \A c \in 0 .. Area - 1 : m[0 + c] = 0
    BY <1>4, Sizes DEF m
  <2>2. Shown(con) = [c \in 0 .. Area - 1 |-> m[0 + c]]
    BY <1>6 DEF Shown
  <2> QED
    BY <1>8, <2>1, <2>2, SeenNow
<1>10. Column = 0
  BY <1>6, <1>8, SeenNow
<1>11. [c \in 0 .. Area - 1 |-> 0] = [c \in 0 .. Consoles!Visible!Last |-> Consoles!Blank]
  BY DEF Consoles!Visible!Last, Area, Consoles!Blank
<1>12. Screened = [c \in 0 .. Consoles!Visible!Last |-> Consoles!Blank] /\ Column = 0 /\ con.y = 0
       /\ <<con.top, con.bottom>> = <<0, Lines>>
  BY <1>6, <1>9, <1>10, <1>11
<1> QED
  BY <1>8, <1>12 DEF Consoles!Visible!Init, Screened, Column

LEMMA ConsoleWrites ==
  ASSUME Sound(con), Consoles!Next
  PROVE  Sound(con)' /\ Consoles!Visible!Next
<1>1. PICK char : Consoles!con_write(char)
  BY DEF Consoles!Next
<1>2. Turned(con, con')
  BY <1>1, CharacterTurns
<1>3. Sound(con)'
  BY <1>2 DEF Turned
<1>4. Seen
  <2>1. (Screened = Shown(con) /\ Column = con.x)'
    BY <1>3, SeenNext
  <2> QED
    BY <1>3, <2>1, SeenNow DEF Seen
<1> QED
  BY <1>2, <1>3, <1>4, TurnSeen DEF Turned

(* In whatever order characters and escape sequences come, what is at the  *)
(* origin in video memory is an ordinary terminal of module Screen.        *)
THEOREM ConsoleIsScreen == Spec => ImplementsScreen
<1>1. Init => Sound(con) /\ Consoles!Visible!Init
  BY ConsoleInit DEF Init
<1>2. Sound(con) /\ [Next]_vars
        => Sound(con)' /\ [part = "console" => Consoles!Visible!Next \/ Consoles!Visible!vars' = Consoles!Visible!vars]_vars
  <2> SUFFICES ASSUME Sound(con), [Next]_vars
               PROVE  /\ Sound(con)'
                      /\ part = "console" => Consoles!Visible!Next \/ Consoles!Visible!vars' = Consoles!Visible!vars
    OBVIOUS
  <2>1. CASE ConsoleStep
    <3>1. Consoles!Next
      BY <2>1 DEF ConsoleStep
    <3> QED
      BY <3>1, ConsoleWrites
  <2>2. CASE UNCHANGED con
    BY <2>2 DEF Consoles!Visible!vars
  <2>3. ConsoleStep \/ UNCHANGED con
    BY DEF Next, PipeStep, FloppyStep, TerminalStep, SuperStep, vars, consoleVars
  <2> QED
    BY <2>1, <2>2, <2>3
<1>3. Spec => Consoles!Visible!Init /\ [][part = "console" => Consoles!Visible!Next \/ Consoles!Visible!vars' = Consoles!Visible!vars]_vars
  BY <1>1, <1>2, PTL DEF Spec
<1> QED
  BY <1>3 DEF ImplementsScreen
=============================================================================
