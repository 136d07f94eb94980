---------------------------- MODULE BufferCache ----------------------------
(***************************************************************************)
(* The buffer cache of fs/buffer.c on top of the request queue of          *)
(* kernel/blk_drv/ll_rw_blk.c and the interrupt side of the block drivers  *)
(* (blk.h, hd.c), for one device.                                          *)
(*                                                                         *)
(* An action is a stretch of kernel code between two points where another  *)
(* task could run or that are worth telling apart; disk interrupts come    *)
(* between any two of them.  cpu is the task that is inside the kernel and *)
(* has not slept since: nobody else takes a step before it sleeps or is    *)
(* done.  A loop "while (bh->b_lock) sleep_on(&bh->b_wait)" is an action   *)
(* that gives up the processor while the lock is held and goes on when it  *)
(* finds it free (module WaitQueue: no wakeup is lost).  sleep_on() with   *)
(* no lock to test again is a state of its own, ended by wake_up().        *)
(***************************************************************************)
EXTENDS Integers, Sequences, FiniteSets

CONSTANTS Task,       \* processes
          Nobody,     \* value of cpu when no task is inside the kernel
          NBuf,       \* NR_BUFFERS
          NBlock,     \* blocks of the device
          NrRequest,  \* NR_REQUEST
          Value,      \* contents of a block
          Zero,       \* the value of a cleared block
          Use,        \* what programs do with blocks
          MaxErrors   \* bound on the number of I/O errors

Buf == 1 .. NBuf
Block == 1 .. NBlock
NoBlock == 0          \* b_dev = 0
Uses == {"read", "update", "file_write", "block_write", "new_block", "sync"}

(* How a caller gets its buffer: through bread(), which it may use in one  *)
(* of three ways, or through getblk() alone, or as part of a sync.         *)
Kinds == {"bread", "block_write", "new_block", "sync"}
Op == (Use \cap Kinds) \cup (IF Use \subseteq Kinds THEN {} ELSE {"bread"})

ASSUME BufferCacheAssumption ==
    /\ IsFiniteSet(Task) /\ Nobody \notin Task
    /\ NBuf \in Nat \ {0} /\ NBlock \in Nat \ {0} /\ NrRequest \in Nat \ {0}
    /\ Zero \in Value
    /\ Use \subseteq Uses
    /\ MaxErrors \in Nat

VARIABLES buf,     \* the buffer heads and what their b_data points to
          free,    \* the free list, from free_list on
          queue,   \* current_request and its successors; slot is the index in request[]
          sent,    \* what the head of the queue has written to the controller so far
          disk,    \* contents of the device
          cpu,
          pc,      \* where each task is
          op,      \* what it wants to do with the block
          blk,     \* the argument block of getblk()
          bh,      \* the buffer it is looking at or holds
          req,     \* arguments of make_request() and where it returns to
          idx,     \* loop counter of sys_sync() and sync_dev()
          errors   \* I/O errors so far

kernelVars == <<buf, free, queue, sent, disk, errors>>
taskVars == <<pc, op, blk, bh, req, idx>>
vars == <<kernelVars, taskVars, cpu>>

NoReq == [rw |-> "READ", bh |-> 0, ret |-> "user"]

Places == {"user", "find", "found", "search", "victim", "buffer_wait", "sync",
           "lock_buffer", "slot", "wait_for_request", "wait_read", "held", "copy", "release"}

BufferHead == [block : Block \cup {NoBlock}, uptodate : BOOLEAN, dirt : BOOLEAN,
               count : 0 .. Cardinality(Task), lock : BOOLEAN, data : Value]

TypeOK ==
    /\ buf \in [Buf -> BufferHead]
    /\ free \in [1 .. NBuf -> Buf]
    /\ queue \in Seq([buf : Buf, cmd : {"READ", "WRITE"}, slot : 0 .. NrRequest - 1])
    /\ sent \in Value \cup {Nobody}
    /\ disk \in [Block -> Value]
    /\ cpu \in Task \cup {Nobody}
    /\ pc \in [Task -> Places]
    /\ op \in [Task -> Kinds \cup {"none"}]
    /\ blk \in [Task -> Block \cup {NoBlock}]
    /\ bh \in [Task -> Buf \cup {0}]
    /\ req \in [Task -> [rw : {"READ", "WRITE"}, bh : Buf \cup {0}, ret : Places]]
    /\ idx \in [Task -> 0 .. 2 * NBuf]
    /\ errors \in 0 .. MaxErrors

(* After buffer_init() and blk_dev_init().                                 *)
Init ==
    /\ buf = [b \in Buf |-> [block |-> NoBlock, uptodate |-> FALSE, dirt |-> FALSE,
                             count |-> 0, lock |-> FALSE, data |-> Zero]]
    /\ free = [i \in 1 .. NBuf |-> i]
    /\ queue = <<>> /\ sent = Nobody
    /\ disk = [k \in Block |-> Zero]
    /\ cpu = Nobody
    /\ pc = [t \in Task |-> "user"]
    /\ op = [t \in Task |-> "none"]
    /\ blk = [t \in Task |-> NoBlock]
    /\ bh = [t \in Task |-> 0]
    /\ req = [t \in Task |-> NoReq]
    /\ idx = [t \in Task |-> 0]
    /\ errors = 0

-----------------------------------------------------------------------------
(* Control flow of a task inside the kernel.                               *)

Runs(t, place) == pc[t] = place /\ cpu \in {t, Nobody}

Goto(t, place) == pc' = [pc EXCEPT ![t] = place] /\ cpu' = t

(* schedule(), from a sleep_on() at this place.                            *)
SleepAt(t, place) == pc' = [pc EXCEPT ![t] = place] /\ cpu' = Nobody

(* wait_on_buffer() and lock_buffer() find the lock held.  A task that     *)
(* already sleeps there stays asleep.                                      *)
WaitLock(t, b) ==
    /\ buf[b].lock
    /\ cpu = t
    /\ SleepAt(t, pc[t])
    /\ UNCHANGED <<kernelVars, op, blk, bh, req, idx>>

Keep(t) == UNCHANGED <<op, blk, bh, req, idx>>

(* The system call returns and its local variables are gone.               *)
Return(t, place) ==
    /\ pc' = [place EXCEPT ![t] = "user"]
    /\ cpu' = Nobody
    /\ op' = [op EXCEPT ![t] = "none"]
    /\ blk' = [blk EXCEPT ![t] = NoBlock]
    /\ bh' = [bh EXCEPT ![t] = 0]
    /\ idx' = [idx EXCEPT ![t] = 0]
    /\ UNCHANGED req

find_buffer(k) == {b \in Buf : buf[b].block = k}

(* new_block() is given a block that is free in the zone map, so that no   *)
(* file contains it.                                                       *)
InUse(k, kinds) == \E t \in Task : pc[t] # "user" /\ blk[t] = k /\ op[t] \in kinds

(* A program makes a system call that accesses block k.                    *)
Call(t, o, k) ==
    /\ Runs(t, "user")
    /\ o \in Op \ {"sync"}
    /\ ~InUse(k, IF o = "new_block" THEN Kinds \ {"sync"} ELSE {"new_block"})
    /\ op' = [op EXCEPT ![t] = o]
    /\ blk' = [blk EXCEPT ![t] = k]
    /\ Goto(t, "find")
    /\ UNCHANGED <<kernelVars, bh, req, idx>>

(* sys_sync(), without sync_inodes().                                      *)
sys_sync(t) ==
    /\ Runs(t, "user")
    /\ "sync" \in Use
    /\ op' = [op EXCEPT ![t] = "sync"]
    /\ idx' = [idx EXCEPT ![t] = NBuf]
    /\ Goto(t, "sync")
    /\ UNCHANGED <<kernelVars, blk, bh, req>>

-----------------------------------------------------------------------------
(* getblk() *)

(* It returns: bread() reads a buffer that is not up to date, block_write()*)
(* of a whole block and new_block() do without reading.                    *)
Got(t, uptodate) ==
    IF op[t] = "bread" /\ ~uptodate
    THEN /\ req' = [req EXCEPT ![t] = [rw |-> "READ", bh |-> bh[t], ret |-> "wait_read"]]
         /\ Goto(t, "lock_buffer")
    ELSE /\ UNCHANGED req
         /\ Goto(t, IF op[t] = "block_write" THEN "copy" ELSE "held")

(* repeat: get_hash_table() looks the block up and takes a reference.      *)
Find(t) ==
    /\ Runs(t, "find")
    /\ \/ \E b \in find_buffer(blk[t]) :
            /\ buf' = [buf EXCEPT ![b].count = @ + 1]
            /\ bh' = [bh EXCEPT ![t] = b]
            /\ Goto(t, "found")
       \/ /\ find_buffer(blk[t]) = {}
          /\ Goto(t, "search")
          /\ UNCHANGED <<buf, bh>>
    /\ UNCHANGED <<free, queue, sent, disk, errors, op, blk, req, idx>>

(* ... waits for its lock, and checks that it is still the same block.     *)
Found(t) ==
    /\ Runs(t, "found")
    /\ \/ WaitLock(t, bh[t])
       \/ /\ ~buf[bh[t]].lock
          /\ \/ /\ buf[bh[t]].block = blk[t]
                /\ Got(t, buf[bh[t]].uptodate)
                /\ UNCHANGED <<buf, bh>>
             \/ /\ buf[bh[t]].block # blk[t]
                /\ buf' = [buf EXCEPT ![bh[t]].count = @ - 1]
                /\ bh' = [bh EXCEPT ![t] = 0]
                /\ Goto(t, "find")
                /\ UNCHANGED req
          /\ UNCHANGED <<free, queue, sent, disk, errors, op, blk, idx>>

BADNESS(b) == (IF buf[b].dirt THEN 2 ELSE 0) + (IF buf[b].lock THEN 1 ELSE 0)

Unused == {i \in 1 .. NBuf : buf[free[i]].count = 0}

(* The first unused buffer of the free list among those of least badness.  *)
Victim ==
    LET best == {i \in Unused : \A j \in Unused : BADNESS(free[i]) <= BADNESS(free[j])}
    IN  free[CHOOSE i \in best : \A j \in best : i <= j]

Search(t) ==
    /\ Runs(t, "search")
    /\ \/ /\ Unused = {}
          /\ SleepAt(t, "buffer_wait")
          /\ UNCHANGED bh
       \/ /\ Unused # {}
          /\ bh' = [bh EXCEPT ![t] = Victim]
          /\ Goto(t, "victim")
    /\ UNCHANGED <<kernelVars, op, blk, req, idx>>

(* remove_from_queues() and insert_into_queues(): the buffer changes its   *)
(* block and moves to the end of the free list.                            *)
MoveToEnd(b) ==
    LET at == CHOOSE i \in 1 .. NBuf : free[i] = b
    IN  [i \in 1 .. NBuf |-> IF i < at THEN free[i]
                             ELSE IF i < NBuf THEN free[i + 1] ELSE b]

(* Slips of getblk() used to test the properties.                          *)
AssumeFree(b) == FALSE
AssumeAbsent(k) == FALSE
AssumeClean(b) == FALSE

(* Races lost while getblk() slept: somebody took the buffer, or brought   *)
(* the same block in.                                                      *)
TakenMeanwhile(b) == buf[b].count > 0
BroughtIn(k) == find_buffer(k) # {}

(* "while (bh->b_dirt)"                                                    *)
MustWrite(b) == buf[b].dirt

(* wait_on_buffer(bh), and sync_dev() for a dirty buffer, come before the  *)
(* last two tests.                                                         *)
TakeVictim(t) ==
    /\ Runs(t, "victim")
    /\ \/ WaitLock(t, bh[t])
       \/ /\ ~buf[bh[t]].lock
          /\ \/ /\ \/ TakenMeanwhile(bh[t])
                   \/ ~MustWrite(bh[t]) /\ BroughtIn(blk[t])
                /\ bh' = [bh EXCEPT ![t] = 0]
                /\ Goto(t, "find")
                /\ UNCHANGED <<buf, free, req>>
             \/ /\ ~TakenMeanwhile(bh[t]) /\ MustWrite(bh[t])
                /\ Goto(t, "sync")
                /\ UNCHANGED <<buf, free, bh, req>>
             \/ /\ ~TakenMeanwhile(bh[t]) /\ ~MustWrite(bh[t]) /\ ~BroughtIn(blk[t])
                /\ buf' = [buf EXCEPT ![bh[t]].block = blk[t], ![bh[t]].count = 1,
                                      ![bh[t]].dirt = FALSE, ![bh[t]].uptodate = FALSE]
                /\ free' = MoveToEnd(bh[t])
                /\ Got(t, FALSE)
                /\ UNCHANGED bh
          /\ UNCHANGED <<queue, sent, disk, errors, op, blk, idx>>

(* One turn of the loops of sync_dev() (two passes over all buffers) and   *)
(* of sys_sync() (one pass): wait_on_buffer(), then write a dirty buffer.  *)
SyncStep(t) ==
    /\ Runs(t, "sync")
    /\ \/ /\ idx[t] = 2 * NBuf
          /\ IF op[t] = "sync"
             THEN Return(t, pc)
             ELSE /\ idx' = [idx EXCEPT ![t] = 0]
                  /\ Goto(t, "victim")
                  /\ UNCHANGED <<op, blk, bh, req>>
          /\ UNCHANGED kernelVars
       \/ /\ idx[t] < 2 * NBuf
          /\ LET b == (idx[t] % NBuf) + 1
             IN  \/ WaitLock(t, b)
                 \/ /\ ~buf[b].lock
                    /\ idx' = [idx EXCEPT ![t] = @ + 1]
                    /\ IF buf[b].block # NoBlock /\ buf[b].dirt
                       THEN /\ req' = [req EXCEPT ![t] = [rw |-> "WRITE", bh |-> b, ret |-> "sync"]]
                            /\ Goto(t, "lock_buffer")
                       ELSE UNCHANGED req /\ Goto(t, "sync")
                    /\ UNCHANGED <<kernelVars, op, blk, bh>>

-----------------------------------------------------------------------------
(* bread(), and what programs do with the block.                           *)

(* bread() after wait_on_buffer(): NULL when the read failed.              *)
WaitRead(t) ==
    /\ Runs(t, "wait_read")
    /\ \/ WaitLock(t, bh[t])
       \/ /\ ~buf[bh[t]].lock
          /\ Goto(t, IF buf[bh[t]].uptodate THEN "held" ELSE "release")
          /\ Keep(t)
          /\ UNCHANGED kernelVars

(* The holder of a buffer sleeps: a page fault of get_fs_byte() or         *)
(* put_fs_byte(), or another block it needs.                               *)
HolderSleeps(t) ==
    /\ cpu = t /\ pc[t] \in {"held", "copy"} /\ op[t] # "new_block"
    /\ cpu' = Nobody
    /\ UNCHANGED <<kernelVars, taskVars>>

(* Update() that forgets to mark the buffer.                               *)
UpdateOnly(t, v) ==
    /\ Runs(t, "held") /\ op[t] = "bread" /\ "update" \in Use
    /\ buf' = [buf EXCEPT ![bh[t]].data = v]
    /\ Goto(t, "release") /\ Keep(t)
    /\ UNCHANGED <<free, queue, sent, disk, errors>>

(* The caller changes the contents and marks the buffer dirty in one go,   *)
(* as the directory, inode and bitmap code does.                           *)
Update(t, v) ==
    /\ Runs(t, "held") /\ op[t] = "bread" /\ "update" \in Use
    /\ buf' = [buf EXCEPT ![bh[t]].data = v, ![bh[t]].dirt = TRUE]
    /\ Goto(t, "release") /\ Keep(t)
    /\ UNCHANGED <<free, queue, sent, disk, errors>>

new_block(t) ==
    /\ Runs(t, "held") /\ op[t] = "new_block"
    /\ buf[bh[t]].count = 1           \* panic("new block: count is != 1")
    /\ buf' = [buf EXCEPT ![bh[t]].data = Zero, ![bh[t]].uptodate = TRUE, ![bh[t]].dirt = TRUE]
    /\ Goto(t, "release") /\ Keep(t)
    /\ UNCHANGED <<free, queue, sent, disk, errors>>

file_read(t) ==
    /\ Runs(t, "held") /\ op[t] = "bread" /\ "read" \in Use
    /\ Goto(t, "release") /\ Keep(t)
    /\ UNCHANGED kernelVars

(* file_write() marks the buffer dirty before it copies.                   *)
file_write(t) ==
    /\ Runs(t, "held") /\ op[t] = "bread" /\ "file_write" \in Use
    /\ buf' = [buf EXCEPT ![bh[t]].dirt = TRUE]
    /\ Goto(t, "copy") /\ Keep(t)
    /\ UNCHANGED <<free, queue, sent, disk, errors>>

(* The copy from user space; block_write() marks the buffer dirty after    *)
(* it and leaves b_uptodate as getblk() returned it.                       *)
Copy(t, v) ==
    /\ Runs(t, "copy")
    /\ buf' = [buf EXCEPT ![bh[t]].data = v,
                          ![bh[t]].dirt = @ \/ op[t] = "block_write"]
    /\ Goto(t, "release") /\ Keep(t)
    /\ UNCHANGED <<free, queue, sent, disk, errors>>

NobodyWoken(place, next) == pc

(* wake_up() of a queue whose sleepers start over.                         *)
Woken(place, next) ==
    [t \in Task |-> IF pc[t] = place THEN next ELSE pc[t]]

brelse(t) ==
    /\ Runs(t, "release")
    /\ \/ WaitLock(t, bh[t])
       \/ /\ ~buf[bh[t]].lock
          /\ buf[bh[t]].count > 0      \* panic("Trying to free free buffer")
          /\ buf' = [buf EXCEPT ![bh[t]].count = @ - 1]
          /\ Return(t, Woken("buffer_wait", "find"))
          /\ UNCHANGED <<free, queue, sent, disk, errors>>

-----------------------------------------------------------------------------
(* make_request() *)

(* The buffer was read or written while we slept.                          *)
NothingToDo(r) ==
    \/ r.rw = "WRITE" /\ ~buf[r.bh].dirt
    \/ r.rw = "READ" /\ buf[r.bh].uptodate

LockBuffer(t) ==
    /\ Runs(t, "lock_buffer")
    /\ LET r == req[t]
       IN  \/ WaitLock(t, r.bh)
           \/ /\ ~buf[r.bh].lock
              /\ IF NothingToDo(r)
                 THEN /\ req' = [req EXCEPT ![t] = NoReq]
                      /\ Goto(t, r.ret)
                      /\ UNCHANGED buf
                 ELSE /\ buf' = [buf EXCEPT ![r.bh].lock = TRUE]
                      /\ Goto(t, "slot")
                      /\ UNCHANGED req
              /\ UNCHANGED <<free, queue, sent, disk, errors, op, blk, bh, idx>>

OneTooMany(rw) == (0 .. NrRequest) \ {queue[i].slot : i \in 1 .. Len(queue)}
OnlyRequest(r) == <<r>>

(* Reads may have every request, writes the lower two thirds of them.      *)
FreeSlots(rw) ==
    (0 .. (IF rw = "READ" THEN NrRequest ELSE (NrRequest * 2) \div 3) - 1)
        \ {queue[i].slot : i \in 1 .. Len(queue)}

IN_ORDER(r1, r2) ==
    \/ r1.cmd = "READ" /\ r2.cmd = "WRITE"
    \/ r1.cmd = r2.cmd /\ buf[r1.buf].block < buf[r2.buf].block

(* The elevator.                                                           *)
add_request(r) ==
    LET n == Len(queue)
        fits(i) == \/ i = n
                   \/ /\ IN_ORDER(queue[i], r) \/ ~IN_ORDER(queue[i], queue[i + 1])
                      /\ IN_ORDER(r, queue[i + 1])
        at == CHOOSE i \in 1 .. n : fits(i) /\ \A j \in 1 .. i - 1 : ~fits(j)
    IN  IF n = 0 THEN <<r>>
        ELSE SubSeq(queue, 1, at) \o <<r>> \o SubSeq(queue, at + 1, n)

Slot(t) ==
    /\ Runs(t, "slot")
    /\ LET r == req[t]
           slots == FreeSlots(r.rw)
       IN  \/ /\ slots = {}
              /\ SleepAt(t, "wait_for_request")
              /\ UNCHANGED <<buf, queue, req>>
           \/ /\ slots # {}
              /\ LET slot == CHOOSE i \in slots : \A j \in slots : j <= i
                 IN  queue' = add_request([buf |-> r.bh, cmd |-> r.rw, slot |-> slot])
              /\ buf' = [buf EXCEPT ![r.bh].dirt = FALSE]
              /\ req' = [req EXCEPT ![t] = NoReq]
              /\ Goto(t, r.ret)
    /\ UNCHANGED <<free, sent, disk, errors, op, blk, bh, idx>>

-----------------------------------------------------------------------------
(* The driver and its interrupts, at any time.                             *)

(* port_write(): the controller takes the contents of the buffer.          *)
Transfer ==
    /\ queue # <<>> /\ Head(queue).cmd = "WRITE" /\ sent = Nobody
    /\ sent' = buf[Head(queue).buf].data
    /\ UNCHANGED <<buf, free, queue, disk, errors, taskVars, cpu>>

(* end_request(uptodate) for the head of the queue, which wakes whoever    *)
(* waits for the buffer or for a request.                                  *)
end_request(uptodate, data) ==
    /\ buf' = [buf EXCEPT ![Head(queue).buf].uptodate = uptodate,
                          ![Head(queue).buf].data = data,
                          ![Head(queue).buf].lock = FALSE]
    /\ queue' = Tail(queue)
    /\ sent' = Nobody
    /\ pc' = Woken("wait_for_request", "slot")
    /\ UNCHANGED <<free, op, blk, bh, req, idx, cpu>>

read_intr ==
    /\ queue # <<>> /\ Head(queue).cmd = "READ"
    /\ end_request(TRUE, disk[buf[Head(queue).buf].block])
    /\ UNCHANGED <<disk, errors>>

write_intr ==
    /\ queue # <<>> /\ Head(queue).cmd = "WRITE" /\ sent # Nobody
    /\ disk' = [disk EXCEPT ![buf[Head(queue).buf].block] = sent]
    /\ end_request(TRUE, buf[Head(queue).buf].data)
    /\ UNCHANGED errors

(* bad_rw_intr() for the MAX_ERRORS-th time, or a block that is not there. *)
bad_rw_intr ==
    /\ queue # <<>> /\ errors < MaxErrors
    /\ errors' = errors + 1
    /\ end_request(FALSE, buf[Head(queue).buf].data)
    /\ UNCHANGED disk

(* A wake_up() of some other queue whose pointer, never cleared, still     *)
(* names this task (module WaitQueue).                                     *)
StrayWakeup(t) ==
    /\ pc[t] \in {"buffer_wait", "wait_for_request"}
    /\ pc' = [pc EXCEPT ![t] = IF @ = "buffer_wait" THEN "find" ELSE "slot"]
    /\ UNCHANGED <<kernelVars, op, blk, bh, req, idx, cpu>>

-----------------------------------------------------------------------------

Step(t) ==
    \/ Find(t) \/ Found(t) \/ Search(t) \/ TakeVictim(t) \/ SyncStep(t)
    \/ WaitRead(t) \/ LockBuffer(t) \/ Slot(t)
    \/ file_read(t) \/ file_write(t) \/ new_block(t) \/ brelse(t)
    \/ \E v \in Value : Update(t, v) \/ Copy(t, v)

Next ==
    \/ \E t \in Task :
          \/ \E o \in Op, k \in Block : Call(t, o, k)
          \/ sys_sync(t)
          \/ Step(t)
          \/ HolderSleeps(t)
          \/ StrayWakeup(t)
    \/ Transfer \/ read_intr \/ write_intr \/ bad_rw_intr

Spec == Init /\ [][Next]_vars

(* The scheduler runs a task that stays runnable (module Scheduler), which *)
(* one that waits for a lock need not do; the disk answers.                *)
Runnable(t) == pc[t] \in {"find", "slot", "held", "copy"}

Fairness ==
    /\ \A t \in Task : WF_vars(Step(t)) /\ SF_vars(Runnable(t) /\ Step(t))
    /\ WF_vars(Transfer) /\ WF_vars(read_intr) /\ WF_vars(write_intr)

FairSpec == Spec /\ Fairness

-----------------------------------------------------------------------------
(* Properties *)

(* find_buffer() must never have two buffers to choose from: getblk() may  *)
(* sleep three times between looking the block up and inserting it.        *)
NoDuplicate == \A k \in Block : Cardinality(find_buffer(k)) <= 1

(* Tasks that have a reference to b counted in b_count.                    *)
Requesting == {"lock_buffer", "slot", "wait_for_request"}
Holders(b) ==
    {t \in Task : /\ bh[t] = b
                  /\ \/ pc[t] \in {"found", "wait_read", "held", "copy", "release"}
                     \/ pc[t] \in Requesting /\ req[t].ret = "wait_read"}

(* b_count counts the users of the buffer, through the sleeps of getblk()  *)
(* and the assignment of 1 at its end: the panics "Trying to free free     *)
(* buffer" and "new block: count is != 1" are out of reach.                *)
CountIsHolders == \A b \in Buf : buf[b].count = Cardinality(Holders(b))

(* A buffer somebody holds is not given to another block.                  *)
HolderKeepsBlock == \A b \in Buf : \A t \in Holders(b) : buf[b].block = blk[t]

(* References protect buffers: buffer.c counts them exactly, and what is   *)
(* referenced stays what it is.                                            *)
HoldersExact == CountIsHolders /\ HolderKeepsBlock

(* Exactly one request in the queue, or one task on its way to it, is      *)
(* going to unlock a locked buffer, and nobody an unlocked one (panic      *)
(* "block not locked").                                                    *)
LockOwned ==
    \A b \in Buf :
        Cardinality({i \in 1 .. Len(queue) : queue[i].buf = b}) +
        Cardinality({t \in Task : pc[t] \in {"slot", "wait_for_request"} /\ req[t].bh = b})
            = (IF buf[b].lock THEN 1 ELSE 0)

(* A buffer that is up to date, clean and not being written holds what is  *)
(* on the disk, so that getblk() may reuse it without writing.             *)
CleanMatchesDisk ==
    \A b \in Buf :
        buf[b].block # NoBlock /\ buf[b].uptodate /\ ~buf[b].dirt /\ ~buf[b].lock
            => \/ buf[b].data = disk[buf[b].block]
               \/ \E t \in Holders(b) : pc[t] = "copy"

(* A buffer marked dirty is written: only a write request clears the mark. *)
DirtyIsWritten ==
    [][\A b \in Buf : buf[b].dirt /\ ~buf'[b].dirt =>
          \E i \in 1 .. Len(queue') : queue'[i].buf = b /\ queue'[i].cmd = "WRITE"]_vars

(* The device as programs see it: the buffer, or else the disk.            *)
Contents(k) ==
    LET cached == {b \in find_buffer(k) : buf[b].uptodate}
    IN  IF cached = {} THEN disk[k] ELSE buf[CHOOSE b \in cached : TRUE].data

Phase(t) ==
    IF pc[t] = "user" \/ op[t] = "sync" THEN [phase |-> "none"]
    ELSE IF pc[t] = "release" THEN [phase |-> "done"]
    ELSE [phase |-> "begun", op |-> op[t], block |-> blk[t]]

Store == INSTANCE BlockStore WITH store <- [k \in Block |-> Contents(k)],
                                  call  <- [t \in Task |-> Phase(t)]

(* The cache implements the device.                                        *)
ImplementsStore == Store!Spec

(* Every lock on a buffer is released: the elevator puts off no request    *)
(* for ever, and somebody who waits for a free request gets one.           *)
LockReleased == \A b \in Buf : buf[b].lock ~> ~buf[b].lock
=============================================================================
