------------------------------- MODULE Devices ------------------------------
(***************************************************************************)
(* The kernel's devices and what is built around them: the floppy driver,  *)
(* the console, the keyboard and its line discipline, pipes, and mounted   *)
(* devices.  As modelled they share no variables.  A behaviour takes one   *)
(* part through its steps and leaves the others as they are after start-up.*)
(***************************************************************************)
EXTENDS Integers

CONSTANTS Task, Nobody,                                            \* tasks
          NFile, NOpen, PAGE_SIZE, Byte, MaxCount, Faults,         \* Pipe
          Drive, Track, SPIN, OFF, KEEP, TIME_REQUESTS, MAX_ERRORS,
          MaxRequests, MaxFaults, Overlap,                         \* Floppy
          Cols, Lines, Rows, Ega, TabStop, SEVEN, EIGHT, NPAR,
          Digit, MaxPar, Attr, Sent,                               \* Console
          SIZE, Nearly, Setup, MaxNr,                              \* Terminal
          Mounter, Dev, Dir, None, NR_SUPER, Program               \* Super

VARIABLES part,                                                    \* the part that runs
          filp, file, pipe, page, last, l, asleep, cpu,            \* Pipe
          floppy, asked, faults,                                   \* Floppy
          con, typed,                                              \* Console
          tty, reader, signal, setup,                              \* Terminal
          super, dir, root, call, runner, panic, program           \* Super

Pipes == INSTANCE Pipe
Floppies == INSTANCE Floppy
Consoles == INSTANCE Console
Terminals == INSTANCE Terminal
Mounts == INSTANCE Super WITH Task <- Mounter, l <- call, cpu <- runner

ASSUME DevicesAssumption ==
    /\ Pipes!PipeAssumption
    /\ Floppies!FloppyAssumption
    /\ Consoles!ConsoleAssumption
    /\ Terminals!TerminalAssumption
    /\ Mounts!SuperAssumption

Parts == {"pipe", "floppy", "console", "terminal", "super"}

pipeVars == <<filp, file, pipe, page, last, l, asleep, cpu>>
floppyVars == <<floppy, asked, faults>>
consoleVars == <<con, typed>>
terminalVars == <<tty, reader, signal, setup>>
superVars == <<super, dir, root, call, runner, panic, program>>
vars == <<part, pipeVars, floppyVars, consoleVars, terminalVars, superVars>>

(* A part that does not run has one initial state.                         *)
Init ==
    /\ part \in Parts
    /\ Pipes!Init /\ Floppies!Init /\ Consoles!Init /\ Terminals!Init /\ Mounts!Init
    /\ part # "floppy" => floppy.pos = [d \in Drive |-> 0]
    /\ part # "console" => typed = CHOOSE s \in Sent : TRUE
    /\ part # "terminal" => setup = CHOOSE s \in Setup : TRUE
    /\ part # "terminal" => tty.termios = CHOOSE t \in setup.termios : TRUE
    /\ part # "super" => program = CHOOSE p \in Program : TRUE

PipeStep ==
    /\ part = "pipe" /\ Pipes!Next
    /\ UNCHANGED <<part, floppyVars, consoleVars, terminalVars, superVars>>
FloppyStep ==
    /\ part = "floppy" /\ Floppies!Next
    /\ UNCHANGED <<part, pipeVars, consoleVars, terminalVars, superVars>>
ConsoleStep ==
    /\ part = "console" /\ Consoles!Next
    /\ UNCHANGED <<part, pipeVars, floppyVars, terminalVars, superVars>>
TerminalStep ==
    /\ part = "terminal" /\ Terminals!Next
    /\ UNCHANGED <<part, pipeVars, floppyVars, consoleVars, superVars>>
SuperStep ==
    /\ part = "super" /\ Mounts!Next
    /\ UNCHANGED <<part, pipeVars, floppyVars, consoleVars, terminalVars>>

Next == PipeStep \/ FloppyStep \/ ConsoleStep \/ TerminalStep \/ SuperStep

Spec == Init /\ [][Next]_vars

(* The fairness of module Floppy asks nothing of the other parts: they     *)
(* leave the driver idle.                                                  *)
FairSpec == Spec /\ Floppies!Fairness

-----------------------------------------------------------------------------
(* Properties: those of the parts, where they are explained, asked of the  *)
(* part that runs; the variables of the others do not change.              *)

TypeOK ==
    CASE part = "pipe" -> Pipes!TypeOK
      [] part = "floppy" -> Floppies!TypeOK
      [] part = "console" -> Consoles!TypeOK
      [] part = "terminal" -> Terminals!TypeOK
      [] part = "super" -> Mounts!TypeOK

(* fs/pipe.c and the table of files: counts are exact through dup(),       *)
(* dup2(), fork() and exit(), and nobody sleeps on a pipe without a reason.*)
PipeExact == part = "pipe" => Pipes!FilesExact /\ Pipes!SleepersWait

(* fs/pipe.c: a pipe is a bounded queue of bytes; the refinement is that   *)
(* of module Pipe.                                                         *)
ImplementsFifo ==
    /\ Pipes!Stream!Init
    /\ [][part = "pipe" => Pipes!Stream!Next \/ Pipes!Stream!vars' = Pipes!Stream!vars]_vars

(* blk_drv/floppy.c: one timer or command goes on with the request, and    *)
(* the transfer is made on the right drive and track, with the motor on.   *)
FloppyRight == part = "floppy" => Floppies!OneChain /\ Floppies!TransferRight

(* blk_drv/floppy.c: every request is answered, whatever fails.            *)
Answered == Floppies!Answered

(* chr_drv/console.c: the screen in video memory is an ordinary terminal;  *)
(* the refinement is that of module Console.                               *)
ImplementsScreen ==
    /\ Consoles!Visible!Init
    /\ [][part = "console" => Consoles!Visible!Next \/ Consoles!Visible!vars' = Consoles!Visible!vars]_vars

(* chr_drv/tty_io.c: the count of lines is exact, and GETCH() finds a      *)
(* character.                                                              *)
TerminalExact == part = "terminal" => Terminals!LinesExact /\ Terminals!NoUnderflow

(* fs/super.c: flags, pointers and counts of mounts agree.                 *)
MountsExact == part = "super" => Mounts!MountsExact
=============================================================================
