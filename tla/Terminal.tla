------------------------------ MODULE Terminal ------------------------------
(***************************************************************************)
(* Input from the keyboard: put_queue() of chr_drv/keyboard.s, the line    *)
(* discipline copy_to_cooked() and tty_read() of chr_drv/tty_io.c, and the *)
(* parts of tty_ioctl() that change them.                                  *)
(*                                                                         *)
(* Keys arrive by interrupt in read_q, are cooked into secondary and read  *)
(* from there by a task.  secondary.data counts the lines in it.  The echo *)
(* goes to write_q and at once to the console, and is left out.            *)
(***************************************************************************)
EXTENDS Integers, SequencesExt

CONSTANTS SIZE,    \* TTY_BUF_SIZE
          Nearly,  \* 20: less room than this, and an unfinished line is read
          Setup,   \* what the terminal may be used for, see Init
          MaxNr    \* bound on the number of characters a read() asks for

Key == {"x", "CR", "NL", "EOF", "ERASE", "KILL", "INTR"}
Termios == [canon : BOOLEAN, isig : BOOLEAN, min : 0 .. MaxNr, time : BOOLEAN]

TerminalAssumption ==
    /\ SIZE \in Nat /\ SIZE >= 2 /\ Nearly \in Nat /\ MaxNr \in Nat \ {0}
    /\ \A s \in Setup : s.keys \subseteq Key /\ s.termios \in SUBSET Termios \ {{}}

VARIABLES tty,    \* read_q, secondary, its count data, and termios
          reader, \* a task in tty_read()
          signal, \* one of its signals is pending
          setup   \* keys, termios it may be given, and whether an interrupt
                  \* may come between the tests of tty_read() and its GETCH()

vars == <<tty, reader, signal, setup>>

Out == [pc |-> "out", nr |-> 0, got |-> 0, min |-> 0, flag |-> FALSE]

TypeOK ==
    /\ \A q \in {tty.read_q, tty.secondary} : q \in Seq(Key) /\ Len(q) < SIZE
    /\ tty.data \in 0 .. SIZE - 1
    /\ tty.termios \in Termios
    /\ reader \in [pc : {"out", "loop", "asleep", "get"}, nr : 0 .. MaxNr, got : 0 .. MaxNr,
                   min : 0 .. MaxNr, flag : BOOLEAN]
    /\ signal \in BOOLEAN
    /\ setup \in Setup

Init ==
    /\ setup \in Setup
    /\ \E t \in setup.termios :
          tty = [read_q |-> <<>>, secondary |-> <<>>, data |-> 0, termios |-> t]
    /\ reader = Out
    /\ signal = FALSE

-----------------------------------------------------------------------------
Left(q) == SIZE - 1 - Len(q)
Ends(c) == c \in {"NL", "EOF"}
LineEnds(q) == {i \in DOMAIN q : Ends(q[i])}

(* One character of read_q in canonical mode: KILL and ERASE take back     *)
(* what was typed since the last line.                                     *)
Unfinished(q) == SelectLastInSeq(q, Ends)
Killed(q) == SubSeq(q, 1, Unfinished(q))
ErasedAny(q) == SubSeq(q, 1, Len(q) - 1)
Erased(q) == IF Unfinished(q) = Len(q) THEN q ELSE SubSeq(q, 1, Len(q) - 1)

Cooked(t, c0) ==
    LET c == IF c0 = "CR" THEN "NL" ELSE c0
    IN  CASE t.termios.canon /\ c = "KILL" -> [t EXCEPT !.secondary = Killed(@)]
          [] t.termios.canon /\ c = "ERASE" -> [t EXCEPT !.secondary = Erased(@)]
          [] t.termios.isig /\ c = "INTR" -> t
          [] OTHER -> [t EXCEPT !.secondary = Append(@, c), !.data = @ + IF Ends(c) THEN 1 ELSE 0]

(* copy_to_cooked() until read_q is empty or secondary is full.            *)
copy_to_cooked(t) ==
    LET after[n \in 0 .. Len(t.read_q)] ==
            IF n = 0 THEN t
            ELSE IF Left(after[n - 1].secondary) = 0 THEN after[n - 1]
            ELSE [Cooked(after[n - 1], Head(after[n - 1].read_q)) EXCEPT !.read_q = Tail(@)]
    IN  after[Len(t.read_q)]

(* keyboard_interrupt(): the key is dropped if read_q is full.  tty_intr() *)
(* signals the readers, and all sleepers are woken up.                     *)
keyboard_interrupt(key) ==
    /\ reader.pc = "get" => setup.preempt
    /\ LET t == IF Left(tty.read_q) = 0 THEN tty ELSE [tty EXCEPT !.read_q = Append(@, key)]
           cooked == copy_to_cooked(t)
           taken == SubSeq(t.read_q, 1, Len(t.read_q) - Len(cooked.read_q))
       IN  /\ tty' = cooked
           /\ signal' = IF reader.pc # "out" /\ tty.termios.isig /\ "INTR" \in ToSet(taken)
                        THEN TRUE ELSE signal
    /\ reader' = IF reader.pc = "asleep" THEN [reader EXCEPT !.pc = "loop"] ELSE reader
    /\ UNCHANGED setup

(* tty_ioctl(): TCSETS, TCSETSF, which also empties read_q, and TCFLSH.    *)
tty_ioctl ==
    /\ reader.pc = "out"
    /\ \E t \in setup.termios, q \in {tty.read_q, <<>>} :
          tty' = [tty EXCEPT !.termios = t, !.read_q = q]
    /\ UNCHANGED <<reader, signal, setup>>

-----------------------------------------------------------------------------
(* tty_read().  With a time and no minimum an alarm ends the wait for the  *)
(* first character.                                                        *)

Lesser(a, b) == IF a < b THEN a ELSE b

tty_read ==
    /\ reader.pc = "out"
    /\ \E nr \in 1 .. MaxNr :
          LET timed == tty.termios.time /\ tty.termios.min = 0
          IN  reader' = [pc |-> "loop", nr |-> nr, got |-> 0, flag |-> timed,
                         min |-> Lesser(nr, IF timed THEN 1 ELSE tty.termios.min)]
    /\ UNCHANGED <<tty, signal, setup>>

(* On the way back to user mode the signals are delivered.                 *)
Return == reader' = Out /\ signal' = FALSE

(* Any signal ends the read().  Nothing yet: sleep_if_empty(); only an     *)
(* unfinished line: the same, which then does not sleep.                   *)
NoLine == tty.termios.canon /\ tty.data = 0 /\ Left(tty.secondary) > Nearly

Loop ==
    /\ reader.pc = "loop"
    /\ IF signal THEN Return
       ELSE /\ reader' = IF tty.secondary = <<>> THEN [reader EXCEPT !.pc = "asleep"]
                         ELSE IF NoLine THEN reader
                         ELSE [reader EXCEPT !.pc = "get"]
            /\ UNCHANGED signal
    /\ UNCHANGED <<tty, setup>>

(* GETCH() of an empty queue moves its tail past its head: it then seems   *)
(* to be full of old characters.                                           *)
Stale == [i \in 1 .. SIZE - 1 |-> "x"]

LinesOnly(c) == IF c = "NL" THEN 1 ELSE 0
Counted(c) == IF Ends(c) THEN 1 ELSE 0

Getch ==
    /\ reader.pc = "get"
    /\ LET q == tty.secondary
           c == IF q = <<>> THEN "x" ELSE Head(q)
           rest == IF q = <<>> THEN Stale ELSE Tail(q)
           r == [reader EXCEPT !.nr = @ - 1, !.got = @ + 1]
       IN  /\ tty' = [tty EXCEPT !.secondary = rest, !.data = @ - Counted(c)]
           /\ IF (c = "EOF" /\ tty.termios.canon) \/ r.nr = 0 THEN Return
              ELSE IF rest = <<>> /\ (tty.termios.canon \/ r.got >= r.min) THEN Return
              ELSE /\ reader' = IF rest # <<>> THEN r
                                ELSE [r EXCEPT !.pc = "loop", !.flag = tty.termios.time]
                   /\ UNCHANGED signal
    /\ UNCHANGED setup

(* A signal, or the alarm that tty_read() has set if flag.                 *)
Signal ==
    /\ reader.pc \in {"loop", "asleep"}
    /\ signal' = TRUE
    /\ reader' = [reader EXCEPT !.pc = "loop"]
    /\ UNCHANGED <<tty, setup>>

Next ==
    \/ \E key \in setup.keys : keyboard_interrupt(key)
    \/ tty_ioctl \/ tty_read \/ Loop \/ Getch \/ Signal

Spec == Init /\ [][Next]_vars

-----------------------------------------------------------------------------
(* Properties.                                                             *)

(* secondary.data is the number of line ends in secondary, although the    *)
(* interrupt cooks and takes back characters while a task reads them, and  *)
(* the mode changes while there are characters in the queue: it decides    *)
(* whether a read() returns.  A reader does not sleep on characters.       *)
LinesExact ==
    /\ tty.data = Cardinality(LineEnds(tty.secondary))
    /\ reader.pc = "asleep" => tty.secondary = <<>>

(* GETCH() is only used on a queue that has characters, and in canonical   *)
(* mode a read() takes its first one only when a line is complete or there *)
(* is no room for one.                                                     *)
NoUnderflow ==
    reader.pc = "get" =>
        /\ tty.secondary # <<>>
        /\ tty.termios.canon /\ reader.got = 0 => tty.data > 0 \/ Left(tty.secondary) <= Nearly
=============================================================================
