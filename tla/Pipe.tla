-------------------------------- MODULE Pipe --------------------------------
(***************************************************************************)
(* Pipes, the table of open files and the descriptors of the tasks:        *)
(* fs/pipe.c, dup() and dup2() of fs/fcntl.c, sys_close() of fs/open.c,    *)
(* the branches for pipes of fs/read_write.c and fs/inode.c, and what      *)
(* fork() and exit() do with descriptors.  There is one pipe at a time.    *)
(*                                                                         *)
(* A task gives up the processor only in sleep_on(), and, if Faults, while *)
(* it copies to or from user memory that is not present.  wake_up() makes  *)
(* all sleepers runnable: module WaitQueue shows how each of them passes   *)
(* the wakeup on.                                                          *)
(***************************************************************************)
EXTENDS Integers, Sequences, FiniteSets

CONSTANTS Task, Nobody,
          NFile,      \* NR_FILE
          NOpen,      \* NR_OPEN
          PAGE_SIZE,  \* size of the ring, a power of two
          Byte,
          MaxCount,   \* bound on the count of a read() or write()
          Faults      \* user memory may have to be loaded during a copy

PipeAssumption ==
    /\ IsFiniteSet(Task) /\ Nobody \notin Task /\ Byte # {}
    /\ NFile \in Nat \ {0} /\ NOpen \in Nat \ {0} /\ MaxCount \in Nat \ {0}
    /\ PAGE_SIZE \in Nat /\ PAGE_SIZE >= 2
    /\ Faults \in BOOLEAN

VARIABLES filp,   \* filp[t][fd], 0 when closed
          file,   \* file_table: f_count and f_mode, 1 to read and 2 to write
          pipe,   \* the inode of the pipe: i_count, head and tail
          page,   \* its page
          last,   \* the bytes that this step has copied out
          l,      \* where each task is
          asleep, \* tasks in sleep_on(&inode->i_wait)
          cpu

vars == <<filp, file, pipe, page, last, l, asleep, cpu>>

File == 1 .. NFile
Fd == 0 .. NOpen - 1
Offset == 0 .. PAGE_SIZE - 1
NoPipe == [count |-> 0, head |-> 0, tail |-> 0]
Blank == [o \in Offset |-> CHOOSE b \in Byte : TRUE]
User == [pc |-> "user", count |-> 0, chars |-> 0, at |-> 0]

TypeOK ==
    /\ filp \in [Task -> [Fd -> File \cup {0}]]
    /\ file \in [File -> [count : 0 .. Cardinality(Task) * NOpen, mode : 0 .. 2]]
    /\ pipe \in [count : 0 .. 2, head : Offset, tail : Offset]
    /\ page \in [Offset -> Byte]
    /\ last \in Seq(Byte)
    /\ l \in [Task -> [pc : {"dead", "user", "read", "write", "copy_out", "copy_in"},
                       count : 0 .. MaxCount, chars : 0 .. PAGE_SIZE - 1, at : Offset]]
    /\ asleep \subseteq Task
    /\ cpu \in Task \cup {Nobody}

(* One task, without open files.                                           *)
First == CHOOSE t \in Task : TRUE

Init ==
    /\ filp = [t \in Task |-> [fd \in Fd |-> 0]]
    /\ file = [f \in File |-> [count |-> 0, mode |-> 0]]
    /\ pipe = NoPipe /\ page = Blank /\ last = <<>>
    /\ l = [t \in Task |-> IF t = First THEN User ELSE [User EXCEPT !.pc = "dead"]]
    /\ asleep = {}
    /\ cpu = Nobody

Runs(t, pc) == l[t].pc = pc /\ t \notin asleep /\ cpu \in {t, Nobody}
Go(t, r) == l' = [l EXCEPT ![t] = r] /\ cpu' = IF r.pc = "user" THEN Nobody ELSE t
Least(S) == CHOOSE x \in S : \A y \in S : x <= y
Min(a, b) == IF a < b THEN a ELSE b

-----------------------------------------------------------------------------
(* Descriptors.                                                            *)

FreeFiles == {f \in File : file[f].count = 0}
FreeFds(t) == {fd \in Fd : filp[t][fd] = 0}
Second(S) == Least(S \ {Least(S)})

sys_pipe(t) ==
    /\ Runs(t, "user")
    /\ pipe.count = 0
    /\ Cardinality(FreeFiles) >= 2 /\ Cardinality(FreeFds(t)) >= 2
    /\ LET r == Least(FreeFiles)
           w == Second(FreeFiles)
       IN  /\ file' = [file EXCEPT ![r] = [count |-> 1, mode |-> 1], ![w] = [count |-> 1, mode |-> 2]]
           /\ filp' = [filp EXCEPT ![t][Least(FreeFds(t))] = r, ![t][Second(FreeFds(t))] = w]
    /\ pipe' = [NoPipe EXCEPT !.count = 2]
    /\ UNCHANGED <<page, l, asleep, cpu>>

(* iput() of a pipe: everybody is woken up, then the count goes down, and  *)
(* with the last end the page is free.                                     *)
SleepersKept == asleep
Sleepers == {}

iput(n) ==
    /\ pipe' = IF pipe.count = n THEN NoPipe ELSE [pipe EXCEPT !.count = @ - n]
    /\ page' = IF pipe.count = n THEN Blank ELSE page
    /\ asleep' = IF n > 0 THEN Sleepers ELSE asleep

(* sys_close() of these descriptors of t; the new descriptors and files.   *)
Uses(f, t, fds) == Cardinality({fd \in fds : filp[t][fd] = f})
Closed(t, fds) ==
    [f \in File |-> LET left == file[f].count - Uses(f, t, fds)
                    IN  IF left = 0 THEN [count |-> 0, mode |-> 0] ELSE [file[f] EXCEPT !.count = left]]
Gone(t, fds) == Cardinality({f \in File : file[f].count > 0 /\ Closed(t, fds)[f].count = 0})

sys_close(t) ==
    /\ Runs(t, "user")
    /\ \E fd \in Fd \ FreeFds(t) :
          /\ file' = Closed(t, {fd})
          /\ filp' = [filp EXCEPT ![t][fd] = 0]
          /\ iput(Gone(t, {fd}))
    /\ UNCHANGED <<l, cpu>>

(* dupfd(): the first free descriptor from arg on.                         *)
sys_dup(t) ==
    /\ Runs(t, "user")
    /\ FreeFds(t) # {}
    /\ \E fd \in Fd \ FreeFds(t) :
          /\ filp' = [filp EXCEPT ![t][Least(FreeFds(t))] = filp[t][fd]]
          /\ file' = [file EXCEPT ![filp[t][fd]].count = @ + 1]
    /\ UNCHANGED <<pipe, page, l, asleep, cpu>>

(* dup2() closes the new descriptor, which may be the old one, before      *)
(* dupfd() looks at the old one.                                           *)
NotClosed(t, new) == file
NewClosed(t, new) == Closed(t, {new})

sys_dup2(t) ==
    /\ Runs(t, "user")
    /\ \E old \in Fd \ FreeFds(t), new \in Fd :
          /\ iput(Gone(t, {new}))
          /\ IF old = new
             THEN filp' = [filp EXCEPT ![t][new] = 0] /\ file' = NewClosed(t, new)
             ELSE /\ filp' = [filp EXCEPT ![t][new] = filp[t][old]]
                  /\ file' = [f \in File |-> IF f = filp[t][old]
                                THEN [NewClosed(t, new)[f] EXCEPT !.count = @ + 1]
                                ELSE NewClosed(t, new)[f]]
    /\ UNCHANGED <<l, cpu>>

(* copy_process() and do_exit().                                           *)
sys_fork(t) ==
    /\ Runs(t, "user")
    /\ \E child \in Task :
          /\ l[child].pc = "dead"
          /\ l' = [l EXCEPT ![child] = User]
          /\ filp' = [filp EXCEPT ![child] = filp[t]]
          /\ file' = [f \in File |-> [file[f] EXCEPT !.count = @ + Uses(f, t, Fd)]]
    /\ UNCHANGED <<pipe, page, asleep, cpu>>

do_exit(t) ==
    /\ Runs(t, "user")
    /\ \E other \in Task \ {t} : l[other].pc # "dead"
    /\ file' = Closed(t, Fd)
    /\ filp' = [filp EXCEPT ![t] = [fd \in Fd |-> 0]]
    /\ iput(Gone(t, Fd))
    /\ l' = [l EXCEPT ![t] = [User EXCEPT !.pc = "dead"]]
    /\ UNCHANGED cpu

-----------------------------------------------------------------------------
(* The ring.                                                               *)

PIPE_SIZE == (pipe.head - pipe.tail) % PAGE_SIZE
RoomToTheLast == PAGE_SIZE - PIPE_SIZE
Room == PAGE_SIZE - 1 - PIPE_SIZE

Call(t, mode, pc) ==
    /\ Runs(t, "user")
    /\ \E fd \in Fd \ FreeFds(t), count \in 1 .. MaxCount :
          /\ file[filp[t][fd]].mode = mode
          /\ Go(t, [User EXCEPT !.pc = pc, !.count = count])
    /\ UNCHANGED <<filp, file, pipe, page, asleep>>

sys_read(t) == Call(t, 1, "read")
sys_write(t) == Call(t, 2, "write")

(* Nothing to read, or no room: the others are woken up, and if the other  *)
(* end is closed that is all there is, otherwise the task sleeps.          *)
Wait(t) ==
    IF pipe.count # 2
    THEN asleep' = {} /\ Go(t, User)
    ELSE asleep' = {t} /\ cpu' = Nobody /\ UNCHANGED l

(* The chunk up to the end of the page: first the pointer moves, then the  *)
(* bytes are copied.                                                       *)
Copy(t, pc, at, limit) ==
    /\ LET chars == Min(PAGE_SIZE - at, Min(l[t].count, limit))
       IN  l' = [l EXCEPT ![t] = [pc |-> pc, count |-> @.count - chars, chars |-> chars, at |-> at]]
    /\ cpu' = IF Faults THEN Nobody ELSE t
    /\ UNCHANGED asleep

Finish(t) == asleep' = {} /\ Go(t, User) /\ UNCHANGED pipe

read_pipe(t) ==
    /\ Runs(t, "read")
    /\ IF l[t].count = 0 THEN Finish(t)
       ELSE IF PIPE_SIZE = 0 THEN Wait(t) /\ UNCHANGED pipe
       ELSE /\ Copy(t, "copy_out", pipe.tail, PIPE_SIZE)
            /\ pipe' = [pipe EXCEPT !.tail = (@ + l'[t].chars) % PAGE_SIZE]
    /\ UNCHANGED <<filp, file, page>>

write_pipe(t) ==
    /\ Runs(t, "write")
    /\ IF l[t].count = 0 THEN Finish(t)
       ELSE IF Room = 0 THEN Wait(t) /\ UNCHANGED pipe
       ELSE /\ Copy(t, "copy_in", pipe.head, Room)
            /\ pipe' = [pipe EXCEPT !.head = (@ + l'[t].chars) % PAGE_SIZE]
    /\ UNCHANGED <<filp, file, page>>

put_fs_byte(t) ==
    /\ Runs(t, "copy_out")
    /\ last' = [i \in 1 .. l[t].chars |-> page[l[t].at + i - 1]]
    /\ Go(t, [l[t] EXCEPT !.pc = "read", !.chars = 0, !.at = 0])
    /\ UNCHANGED <<filp, file, pipe, page, asleep>>

get_fs_byte(t) ==
    /\ Runs(t, "copy_in")
    /\ \E bytes \in [1 .. l[t].chars -> Byte] :
          page' = [o \in Offset |-> IF o - l[t].at + 1 \in 1 .. l[t].chars
                                    THEN bytes[o - l[t].at + 1] ELSE page[o]]
    /\ Go(t, [l[t] EXCEPT !.pc = "write", !.chars = 0, !.at = 0])
    /\ UNCHANGED <<filp, file, pipe, asleep>>

Step(t) ==
    \/ put_fs_byte(t)
    \/ /\ \/ sys_pipe(t) \/ sys_close(t) \/ sys_dup(t) \/ sys_dup2(t) \/ sys_fork(t) \/ do_exit(t)
          \/ sys_read(t) \/ sys_write(t) \/ read_pipe(t) \/ write_pipe(t) \/ get_fs_byte(t)
       /\ last' = <<>>

Next == \E t \in Task : Step(t)

Spec == Init /\ [][Next]_vars

-----------------------------------------------------------------------------
(* Properties.                                                             *)

(* f_count is the number of descriptors of all tasks, through dup(),       *)
(* dup2(), fork() and exit(), and i_count the number of open ends.         *)
FilesExact ==
    /\ \A f \in File :
          file[f].count = Cardinality({p \in Task \X Fd : filp[p[1]][p[2]] = f})
    /\ pipe.count = Cardinality({f \in File : file[f].count > 0})

Copying(pc) == {t \in Task : l[t].pc = pc}

(* While nobody is inside the kernel, who sleeps has a reason to: a reader *)
(* only on an empty pipe and a writer only on a full one, and only as long *)
(* as the other end is open.  read_pipe() and write_pipe() share one wait  *)
(* queue and wake it up only when they are done or have to wait.           *)
SleepersWait ==
    cpu = Nobody /\ Copying("copy_in") \cup Copying("copy_out") = {} =>
      \A t \in asleep :
        /\ pipe.count = 2
        /\ l[t].pc = "read" => PIPE_SIZE = 0
        /\ l[t].pc = "write" => Room = 0

(* Bytes that are being copied still belong to the writer, or to the pipe. *)
FirstByte == IF Copying("copy_out") = {} THEN pipe.tail ELSE l[CHOOSE t \in Copying("copy_out") : TRUE].at
EndByte == IF Copying("copy_in") = {} THEN pipe.head ELSE l[CHOOSE t \in Copying("copy_in") : TRUE].at

Stream ==
    INSTANCE Fifo WITH
        Capacity <- PAGE_SIZE - 1, open <- pipe.count > 0,
        queue <- [i \in 1 .. (EndByte - FirstByte) % PAGE_SIZE |-> page[(FirstByte + i - 1) % PAGE_SIZE]]

(* The pipe is a queue of bytes: none is lost, repeated or reordered where *)
(* the ring wraps around and readers and writers take turns, until both    *)
(* ends are closed.                                                        *)
ImplementsFifo == Stream!Spec
=============================================================================
