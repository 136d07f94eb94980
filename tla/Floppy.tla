------------------------------- MODULE Floppy -------------------------------
(***************************************************************************)
(* The floppy driver, blk_drv/floppy.c, with the timers and the motor      *)
(* control of kernel/sched.c that it is built on.                          *)
(*                                                                         *)
(* The driver is a chain of calls: each step starts a timer or a command   *)
(* of the controller, and the timer or the interrupt runs the next one.    *)
(* Flags carry what an error asks for (reset, recalibrate, seek) from one  *)
(* link of the chain to a later one.  A handler runs as one step.          *)
(***************************************************************************)
EXTENDS Integers, SequencesExt

CONSTANTS Drive,         \* 0 .. n
          Track,         \* 0 .. n; a request beyond is refused
          SPIN,          \* HZ/2, ticks for a motor to reach its speed
          OFF,           \* 3*HZ, ticks after which an unused motor stops
          KEEP,          \* 10000, the same for a motor in use
          TIME_REQUESTS,
          MAX_ERRORS,
          MaxRequests,   \* bound on requests
          MaxFaults,     \* bound on failures of the controller
          Overlap        \* a request may come while the driver still resets

FloppyAssumption ==
    /\ 0 \in Drive /\ Drive \subseteq Nat /\ 0 \in Track /\ Track \subseteq Nat
    /\ SPIN \in Nat /\ SPIN >= 2 /\ OFF \in Nat /\ OFF >= 2 /\ KEEP \in Nat /\ KEEP >= OFF
    /\ TIME_REQUESTS \in Nat \ {0} /\ MAX_ERRORS \in Nat
    /\ MaxRequests \in Nat /\ MaxFaults \in Nat /\ Overlap \in BOOLEAN

VARIABLES floppy,  \* the driver, its queue, the timers and the controller
          asked,   \* requests made so far
          faults   \* failures so far

vars == <<floppy, asked, faults>>

Unknown == -1      \* current_track after start-up
NoOp == [kind |-> "none", drive |-> 0, track |-> 0]

(* current_DOR is the selected drive and the motors that are on; mon and   *)
(* moff are mon_timer and moff_timer; op is the command the controller     *)
(* works on and pos where the heads are; change is a task in               *)
(* floppy_change(nr).                                                      *)
Idle ==
    [queue |-> <<>>, reset |-> FALSE, recalibrate |-> FALSE, seek |-> FALSE,
     current_drive |-> 0, current_track |-> Unknown, seek_track |-> 0,
     do_floppy |-> "none", selected |-> FALSE, dor |-> [drive |-> 0, motors |-> {}],
     mon |-> [d \in Drive |-> 0], moff |-> [d \in Drive |-> 0], timers |-> <<>>,
     op |-> NoOp, pos |-> [d \in Drive |-> 0], change |-> [nr |-> 0, pc |-> "out"]]

Init ==
    /\ \E p \in [Drive -> Track] : floppy = [Idle EXCEPT !.pos = p]
    /\ asked = 0 /\ faults = 0

Current(s) == Head(s.queue)

TypeOK ==
    /\ DOMAIN floppy = DOMAIN Idle
    /\ floppy.queue \in Seq([drive : Drive, track : Int, errors : 0 .. MAX_ERRORS])
    /\ floppy.current_drive \in Drive /\ floppy.current_track \in Track \cup {Unknown}
    /\ floppy.do_floppy \in {"none", "rw", "seek", "recal", "reset"}
    /\ floppy.dor.drive \in Drive /\ floppy.dor.motors \subseteq Drive
    /\ floppy.mon \in [Drive -> 0 .. SPIN] /\ floppy.moff \in [Drive -> 0 .. KEEP]
    /\ floppy.pos \in [Drive -> Track]
    /\ Len(floppy.timers) <= TIME_REQUESTS
    /\ asked \in 0 .. MaxRequests /\ faults \in 0 .. MaxFaults

-----------------------------------------------------------------------------
(* Timers: next_timer is a list of delays, each counted from the timer in  *)
(* front of it.                                                            *)

Before(list, k) == FoldLeft(LAMBDA sum, t : sum + t.jiffies, 0, SubSeq(list, 1, k))

(* A new timer is put in front and exchanged with its successor as long as *)
(* that one is due earlier; the successor's own delay is not reduced.      *)
Inserted(list, jiffies, fn) ==
    LET stops == {k \in 0 .. Len(list) : k = Len(list) \/ list[k + 1].jiffies >= jiffies - Before(list, k)}
        k == CHOOSE i \in stops : \A j \in stops : i <= j
    IN  InsertAt(list, k + 1, [fn |-> fn, jiffies |-> jiffies - Before(list, k)])

-----------------------------------------------------------------------------
(* Motors and the selected drive.                                          *)

ticks_to_floppy_on(s, nr) ==
    LET dor == [drive |-> IF s.selected THEN s.dor.drive ELSE nr, motors |-> s.dor.motors \cup {nr}]
        spin == IF nr \notin s.dor.motors THEN SPIN
                ELSE IF dor # s.dor /\ s.mon[nr] < 2 THEN 2
                ELSE s.mon[nr]
    IN  [s EXCEPT !.moff[nr] = KEEP, !.dor = dor, !.mon[nr] = spin]

floppy_off(s, nr) == [s EXCEPT !.moff[nr] = OFF]

(* wake_up() of wait_on_floppy_select or of a wait_motor.                  *)
Woken(s, pc, then) == IF s.change.pc = pc THEN [s EXCEPT !.change.pc = then] ELSE s

floppy_deselect(s) == Woken([s EXCEPT !.selected = FALSE], "select", "deselected")

do_floppy_timer(s) ==
    LET spins == {d \in s.dor.motors : s.mon[d] > 0}
        runs == s.dor.motors \ spins
        t == [s EXCEPT !.mon = [d \in Drive |-> IF d \in spins THEN @[d] - 1 ELSE @[d]],
                       !.moff = [d \in Drive |-> IF d \in runs /\ @[d] > 0 THEN @[d] - 1 ELSE @[d]],
                       !.dor.motors = @ \ {d \in runs : s.moff[d] = 0}]
    IN  IF s.change.nr \in spins /\ t.mon[s.change.nr] = 0 THEN Woken(t, "motor", "spun") ELSE t

-----------------------------------------------------------------------------
(* The chain.  sent: the controller takes all bytes of a command; if not,  *)
(* output_byte() sets reset.                                               *)

end_request(s) == [floppy_off(s, Current(s).drive) EXCEPT !.queue = Tail(@)]

reset_floppy(s) ==
    [s EXCEPT !.reset = FALSE, !.recalibrate = TRUE, !.do_floppy = "reset",
              !.op = [kind |-> "reset", drive |-> s.dor.drive, track |-> 0]]

(* do_fd_request() with reset set, and a slip: it is not called.           *)
ResetLater(s) == [s EXCEPT !.reset = TRUE]
Reset(s) == reset_floppy([s EXCEPT !.seek = FALSE])

Command(s, handler, kind, track, sent) ==
    LET t == [s EXCEPT !.do_floppy = handler]
    IN  IF sent THEN [t EXCEPT !.op = [kind |-> kind, drive |-> s.current_drive, track |-> track]]
        ELSE Reset(t)

setup_rw_floppy(s, sent) == Command(s, "rw", "rw", s.seek_track, sent)

(* The head is moved if seek says so; track 0 is found by recalibrating.   *)
(* A specify command comes first if the controller needs one.              *)
transfer(s, sent) ==
    IF ~s.seek THEN setup_rw_floppy(s, sent)
    ELSE Command(s, "seek", IF s.seek_track = 0 THEN "recal" ELSE "seek", s.seek_track, sent)

floppy_on_interrupt(s, sent) ==
    LET t == [s EXCEPT !.selected = TRUE]
    IN  IF s.current_drive # s.dor.drive
        THEN [t EXCEPT !.dor.drive = s.current_drive, !.timers = Inserted(@, 2, "transfer")]
        ELSE transfer(t, sent)

(* Requests that reach beyond the disk are refused at the head of the      *)
(* queue; the first one that does not starts the motor and the chain.      *)
Refused(s) ==
    LET good == {i \in DOMAIN s.queue : s.queue[i].track \in Track}
        n == IF good = {} THEN Len(s.queue) ELSE (CHOOSE i \in good : \A j \in good : i <= j) - 1
    IN  [s EXCEPT !.queue = SubSeq(@, n + 1, Len(@)),
                  !.moff = [d \in Drive |-> IF \E i \in 1 .. n : s.queue[i].drive = d THEN OFF ELSE @[d]]]

DriveForgotten(s) == Current(s).track # s.current_track
MustSeek(s) == Current(s).drive # s.current_drive \/ Current(s).track # s.current_track

Start(s, sent) ==
    LET t == ticks_to_floppy_on([s EXCEPT !.seek = MustSeek(s), !.current_drive = Current(s).drive,
                                          !.seek_track = Current(s).track], Current(s).drive)
        ticks == t.mon[t.current_drive]
    IN  IF ticks = 0 THEN floppy_on_interrupt(t, sent)
        ELSE [t EXCEPT !.timers = Inserted(@, ticks, "floppy_on_interrupt")]

recalibrate_floppy(s, sent) ==
    Command([s EXCEPT !.recalibrate = FALSE, !.current_track = 0], "recal", "recal", 0, sent)

do_fd_request(s, sent) ==
    LET t == [s EXCEPT !.seek = FALSE]
        r == Refused(t)
    IN  IF s.reset THEN reset_floppy(t)
        ELSE IF s.recalibrate THEN recalibrate_floppy(t, sent)
        ELSE IF r.queue = <<>> THEN r
        ELSE Start(r, sent)

(* The errors are counted in the request at the head even if that is not   *)
(* the one that failed any more, or none at all: then the page directory   *)
(* is read, whose entries are large.                                       *)
bad_flp_intr(s) ==
    LET first == [Current(s) EXCEPT !.errors = @ + 1]
        e == [s EXCEPT !.queue = <<first>> \o Tail(@)]
        r == IF Current(e).errors > MAX_ERRORS THEN end_request(floppy_deselect(e)) ELSE e
    IN  IF r.queue = <<>> \/ Current(r).errors > MAX_ERRORS \div 2
        THEN [r EXCEPT !.reset = TRUE] ELSE [r EXCEPT !.recalibrate = TRUE]

-----------------------------------------------------------------------------
(* Interrupts.  The controller answers "good", "bad", or with "dead" it    *)
(* does not deliver its status, and result() sets reset.                   *)

Answer(s, answer) == [s EXCEPT !.reset = @ \/ answer = "dead"]

rw_interrupt(s, answer, sent) ==
    do_fd_request(IF answer \in {"good", "protected"} THEN end_request(floppy_deselect(s))
                  ELSE bad_flp_intr(Answer(s, answer)), sent)

seek_interrupt(s, answer, sent) ==
    IF answer = "good" THEN setup_rw_floppy([s EXCEPT !.current_track = s.seek_track], sent)
    ELSE do_fd_request(bad_flp_intr(Answer(s, answer)), sent)

recal_interrupt(s, answer, sent) ==
    do_fd_request(IF answer = "good" THEN [s EXCEPT !.recalibrate = FALSE] ELSE [s EXCEPT !.reset = TRUE], sent)

reset_interrupt(s, answer, sent) ==
    LET t == Answer(s, answer)
    IN  do_fd_request(IF sent THEN t ELSE [t EXCEPT !.reset = TRUE], sent)

unexpected_floppy_interrupt(s, answer) ==
    IF answer = "good" THEN [s EXCEPT !.recalibrate = TRUE] ELSE [s EXCEPT !.reset = TRUE]

Moved(s, answer) ==
    IF s.op.kind \in {"seek", "recal"} /\ answer = "good" THEN [s EXCEPT !.pos[s.op.drive] = s.op.track] ELSE s

floppy_interrupt(answer, sent) ==
    /\ floppy.op.kind # "none"
    /\ answer = "protected" => floppy.op.kind = "rw"
    /\ LET s == [Moved(floppy, answer) EXCEPT !.op = NoOp, !.do_floppy = "none"]
       IN  floppy' = CASE floppy.do_floppy = "rw" -> rw_interrupt(s, answer, sent)
                       [] floppy.do_floppy = "seek" -> seek_interrupt(s, answer, sent)
                       [] floppy.do_floppy = "recal" -> recal_interrupt(s, answer, sent)
                       [] floppy.do_floppy = "reset" -> reset_interrupt(s, answer, sent)
                       [] OTHER -> unexpected_floppy_interrupt(s, answer)
    /\ UNCHANGED asked

(* The controller answers, and a task that was woken up runs, before the   *)
(* motor of its drive would be stopped as unused.                          *)
InTime ==
    /\ floppy.op.kind # "none" => floppy.moff[floppy.op.drive] > 0
    /\ floppy.change.pc \in {"spun", "deselected"} => floppy.moff[floppy.change.nr] > 0

(* The part of do_timer() that is about timers and motors.                 *)
do_timer(sent) ==
    /\ InTime
    /\ LET left == [floppy.timers EXCEPT ![1].jiffies = @ - 1]
           due == floppy.timers # <<>> /\ left[1].jiffies <= 0
           s == [floppy EXCEPT !.timers = IF due THEN Tail(@) ELSE IF @ = <<>> THEN @ ELSE left]
           t == IF ~due THEN s
                ELSE IF left[1].fn = "transfer" THEN transfer(s, sent) ELSE floppy_on_interrupt(s, sent)
       IN  floppy' = IF t.dor.motors # {} THEN do_floppy_timer(t) ELSE t
    /\ UNCHANGED asked

-----------------------------------------------------------------------------
(* Tasks.                                                                  *)

Quiet == floppy.op.kind = "none" /\ floppy.timers = <<>>

(* add_request(): a request that finds the queue empty starts the driver.  *)
add_request(sent) ==
    /\ asked < MaxRequests
    /\ floppy.queue = <<>> => Quiet \/ Overlap
    /\ \E d \in Drive, tr \in Track \cup {-2} :
          LET s == [floppy EXCEPT !.queue = Append(@, [drive |-> d, track |-> tr, errors |-> 0])]
          IN  floppy' = IF floppy.queue = <<>> THEN do_fd_request(s, sent) ELSE s
    /\ asked' = asked + 1

(* floppy_change(): waits until the motor runs, then while the driver uses *)
(* another drive; if that one is still selected, all over again.           *)
At(s, pc) == [s EXCEPT !.change.pc = pc]
Read(s) == At(floppy_off(s, s.change.nr), "out")
Elsewhere(s) == s.dor.drive # s.change.nr

FloppyOn(s0) ==
    LET s == ticks_to_floppy_on(s0, s0.change.nr)
    IN  IF s.mon[s.change.nr] # 0 THEN At(s, "motor")
        ELSE IF Elsewhere(s) THEN At(s, "select")
        ELSE Read(s)

floppy_change ==
    /\ \/ /\ floppy.change.pc = "out" /\ asked < MaxRequests
          /\ \E nr \in Drive : floppy' = FloppyOn([floppy EXCEPT !.change.nr = nr])
          /\ asked' = asked + 1
       \/ /\ floppy.change.pc = "spun"
          /\ floppy' = FloppyOn(floppy)
          /\ UNCHANGED asked
       \/ /\ floppy.change.pc = "deselected"
          /\ floppy' = IF ~Elsewhere(floppy) THEN Read(floppy)
                       ELSE IF floppy.selected THEN At(floppy, "select") ELSE FloppyOn(floppy)
          /\ UNCHANGED asked
    /\ UNCHANGED faults

-----------------------------------------------------------------------------
Fault(b) == IF b THEN 1 ELSE 0
Failing(A) == faults' = faults + A /\ faults' <= MaxFaults

Interrupt ==
    \E sent \in BOOLEAN, answer \in {"good", "bad", "dead", "protected"} :
        /\ Failing(Fault(~sent) + Fault(answer \in {"bad", "dead"}))
        /\ floppy_interrupt(answer, sent)

Tick == \E sent \in BOOLEAN : Failing(Fault(~sent)) /\ do_timer(sent)
Request == \E sent \in BOOLEAN : Failing(Fault(~sent)) /\ add_request(sent)

Next == Interrupt \/ Tick \/ Request \/ floppy_change

Spec == Init /\ [][Next]_vars

(* The clock ticks, the controller answers and a runnable task runs: weak  *)
(* fairness, with ENABLED written out.                                     *)
Fairness ==
    /\ []<>(~InTime) \/ []<><<Tick>>_vars \/ []<>(floppy.timers = <<>> /\ floppy.dor.motors = {})
    /\ []<>(floppy.op.kind = "none") \/ []<><<Interrupt>>_vars
    /\ []<>(floppy.change.pc \notin {"spun", "deselected"}) \/ []<><<floppy_change>>_vars

FairSpec == Spec /\ Fairness

-----------------------------------------------------------------------------
(* Properties.                                                             *)

(* While a request waits there is exactly one timer or command to go on    *)
(* with it, and never more than one: through all errors, every path of the *)
(* driver starts the next link of the chain, and none starts two.          *)
Links == Len(floppy.timers) + IF floppy.op.kind = "none" THEN 0 ELSE 1
OneChain == Links <= 1 /\ (floppy.queue # <<>> => Links = 1)

(* When the controller reads or writes, it is on the drive and track that  *)
(* the request at the head names, the drive is selected, its motor is on   *)
(* and has reached its speed: whatever drive was used before, whatever     *)
(* failed and was reset, and although floppy_change() also turns motors on *)
(* and selects drives.  do_timer() runs the timers before it counts down   *)
(* the motors, so the last tick may be missing.                            *)
TransferRight ==
    floppy.op.kind = "rw" =>
        /\ floppy.op.drive = Head(floppy.queue).drive
        /\ floppy.pos[floppy.op.drive] = Head(floppy.queue).track
        /\ floppy.dor.drive = floppy.op.drive
        /\ floppy.op.drive \in floppy.dor.motors /\ floppy.mon[floppy.op.drive] <= 1

(* When floppy_change() reads the disk change line, it is that of its      *)
(* drive, and the motor is on.                                             *)
ChangeRight ==
    [][floppy.change.pc # "out" /\ floppy'.change.pc = "out" =>
          floppy.dor.drive = floppy.change.nr /\ floppy.change.nr \in floppy.dor.motors]_vars

(* Every request is answered, with an error if need be, and floppy_change()*)
(* returns.                                                                *)
Answered == []<>(floppy.queue = <<>> /\ floppy.change.pc = "out")
=============================================================================
