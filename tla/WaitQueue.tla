----------------------------- MODULE WaitQueue -----------------------------
(***************************************************************************)
(* The sleeping and waking primitives of kernel/sched.c (sleep_on,         *)
(* wake_up, sys_pause) under the lock pattern every resource of the kernel *)
(* is built on:                                                            *)
(*                                                                         *)
(*     cli(); while (r->lock) sleep_on(&r->wait); [r->lock = 1;] sti();    *)
(*     ...                                                                 *)
(*     r->lock = 0; wake_up(&r->wait);                                     *)
(*                                                                         *)
(* A wait queue is one pointer, *p, to the last task that went to sleep;   *)
(* the rest of the queue is threaded through the local variable tmp of the *)
(* sleep_on() frames on the kernel stacks of the sleepers.  In this kernel *)
(* neither wake_up() nor sleep_on() ever clears *p, so the pointer goes    *)
(* stale: it may name a task that is running, sleeping on another queue,   *)
(* dead or gone.                                                           *)
(*                                                                         *)
(* The kernel is not preemptible: a task runs from the moment schedule()   *)
(* picks it to its next call of schedule().  Each action below is one such *)
(* run, or one interrupt handler.  Any runnable task may be picked (the    *)
(* policy is module Scheduler).  Task 0 never sleeps and is not in Task.   *)
(***************************************************************************)

CONSTANTS Task,      \* task structures: task[1] .. task[NR_TASKS-1]
          Mortal,    \* the tasks that may exit (task 1, init, never does)
          Target,    \* the tasks that signals are sent to
          InodeLock, \* i_wait queues, one per in-core inode
          SuperLock, \* s_wait queues, one per super block
          IoLock,    \* b_wait queues: buffer locks are released by the disk interrupt
          NoTask,    \* the NULL task pointer
          Device     \* holder of a buffer lock while the transfer is running

OwnedLock == InodeLock \cup SuperLock
Queue == OwnedLock \cup IoLock

ASSUME ConstantsDistinct ==
    /\ Mortal \subseteq Task /\ Target \subseteq Task
    /\ NoTask \notin Task
    /\ Device \notin Task
    /\ NoTask # Device
    /\ {"none", "pause", "dead"} \cap Queue = {}
    /\ OwnedLock \cap IoLock = {}
    /\ InodeLock \cap SuperLock = {}

VARIABLES state,   \* task_struct.state; "FREE" when the slot holds no task
          signal,  \* does the task have a pending, unblocked signal?
          at,      \* the queue whose sleep_on() frame is on the task's stack, or
                   \* "pause" inside sys_pause(), "dead" past do_exit(), "none"
          lock,    \* is the frame in lock_x() (TRUE) or in wait_on_x() (FALSE)?
          tmp,     \* the local variable tmp of that frame
          head,    \* *p: the wait queue pointer of each resource
          holder,  \* who holds each lock; the flag of the code is holder # NoTask
          hung     \* has some task entered the endless loop of die()?

vars == <<state, signal, at, lock, tmp, head, holder, hung>>

States == {"RUNNING", "INTERRUPTIBLE", "UNINTERRUPTIBLE", "ZOMBIE", "FREE"}

TypeOK ==
    /\ state \in [Task -> States]
    /\ signal \in [Task -> BOOLEAN]
    /\ at \in [Task -> Queue \cup {"none", "pause", "dead"}]
    /\ lock \in [Task -> BOOLEAN]
    /\ tmp \in [Task -> Task \cup {NoTask}]
    /\ head \in [Queue -> Task \cup {NoTask}]
    /\ holder \in [Queue -> Task \cup {NoTask, Device}]
    /\ hung \in BOOLEAN

Init ==
    /\ state = [t \in Task |-> "RUNNING"]
    /\ signal = [t \in Task |-> FALSE]
    /\ at = [t \in Task |-> "none"]
    /\ lock = [t \in Task |-> FALSE]
    /\ tmp = [t \in Task |-> NoTask]
    /\ head = [q \in Queue |-> NoTask]
    /\ holder = [q \in Queue |-> NoTask]
    /\ hung = FALSE

-----------------------------------------------------------------------------
(* Wake() without the test for NULL: a write outside the task structures.  *)
WakeThroughNull(s, p) ==
    [t \in DOMAIN s \cup {p} |-> IF t = p THEN "RUNNING" ELSE s[t]]

(* "state = 0" through a pointer that may be NULL or stale.  A write into  *)
(* the page of a freed task structure changes no task.                     *)
Wake(s, p) ==
    IF p \in Task /\ s[p] # "FREE" THEN [s EXCEPT ![p] = "RUNNING"] ELSE s

(* Plausible slips in the code below, used to test the properties.         *)
TmpForgotten(s, t) == s
WakeUpForgotten(s, q) == s

(* wake_up(): *p keeps its value, the assignment *p = NULL is commented    *)
(* out.                                                                    *)
wake_up(s, q) == Wake(s, head[q])

(* What the code after schedule() in sleep_on() does with tmp.             *)
WakeNext(s, t) == Wake(s, tmp[t])

(* The task has the processor and may leave its current schedule().        *)
Runs(t) == ~hung /\ state[t] = "RUNNING"

InUser(t) == Runs(t) /\ at[t] = "none"

(* The first half of sleep_on(&q), up to the call of schedule(); s is the  *)
(* vector of task states at that point.                                    *)
sleep_on(s, t, q, l) ==
    /\ tmp' = [tmp EXCEPT ![t] = head[q]]
    /\ head' = [head EXCEPT ![q] = t]
    /\ state' = [s EXCEPT ![t] = "UNINTERRUPTIBLE"]
    /\ at' = [at EXCEPT ![t] = q]
    /\ lock' = [lock EXCEPT ![t] = l]

(* lock_inode(), lock_super() or lock_buffer() falls through its loop.  A  *)
(* locked buffer goes to the driver in the same run (add_request()).       *)
TakeLock(t, q) ==
    holder' = [holder EXCEPT ![q] = IF q \in IoLock THEN Device ELSE t]

(* Locks nest one way: read_inode() and write_inode() hold one inode while *)
(* they wait for a super block and for buffers, read_super() holds one     *)
(* super block while it waits for buffers.                                 *)
MayWait(t, q) ==
    \A r \in OwnedLock :
        holder[r] = t => q \in IoLock \/ (r \in InodeLock /\ q \in SuperLock)

(* lock_inode(), lock_super(), lock_buffer() called by a running task.     *)
Lock(t, q) ==
    /\ InUser(t)
    /\ MayWait(t, q)
    /\ \/ /\ holder[q] = NoTask
          /\ TakeLock(t, q)
          /\ UNCHANGED <<state, at, lock, tmp, head>>
       \/ /\ holder[q] # NoTask
          /\ sleep_on(state, t, q, TRUE)
          /\ UNCHANGED holder
    /\ UNCHANGED <<signal, hung>>

(* wait_on_inode(), wait_on_super(), wait_on_buffer() when the lock is     *)
(* held; they do nothing otherwise.                                        *)
WaitOn(t, q) ==
    /\ InUser(t)
    /\ MayWait(t, q)
    /\ holder[q] # NoTask
    /\ sleep_on(state, t, q, FALSE)
    /\ UNCHANGED <<signal, holder, hung>>

(* schedule() returns in the sleep_on() frame of t: tmp is woken and the   *)
(* loop of the caller tests the lock again, without giving up the          *)
(* processor in between.                                                   *)
Resume(t) ==
    /\ Runs(t)
    /\ at[t] \in Queue
    /\ LET q == at[t]
           s == WakeNext(state, t)
       IN  \/ /\ holder[q] # NoTask
              /\ sleep_on(s, t, q, lock[t])
              /\ UNCHANGED holder
           \/ /\ holder[q] = NoTask
              /\ state' = s
              /\ at' = [at EXCEPT ![t] = "none"]
              /\ tmp' = [tmp EXCEPT ![t] = NoTask]
              /\ lock' = [lock EXCEPT ![t] = FALSE]
              /\ IF lock[t] THEN TakeLock(t, q) ELSE UNCHANGED holder
              /\ UNCHANGED head
    /\ UNCHANGED <<signal, hung>>

(* unlock_inode(), free_super(): called by the task that holds the lock.   *)
Unlock(t, q) ==
    /\ InUser(t)
    /\ holder[q] = t
    /\ holder' = [holder EXCEPT ![q] = NoTask]
    /\ state' = wake_up(state, q)
    /\ UNCHANGED <<signal, at, lock, tmp, head, hung>>

(* The disk interrupt ends the transfer: end_request(), unlock_buffer().   *)
EndRequest(q) ==
    /\ holder[q] = Device
    /\ holder' = [holder EXCEPT ![q] = NoTask]
    /\ state' = wake_up(state, q)
    /\ UNCHANGED <<signal, at, lock, tmp, head, hung>>

-----------------------------------------------------------------------------
HoldsNothing(t) == \A q \in Queue : holder[q] # t

(* sys_pause(): schedule() itself puts a task with a pending signal back   *)
(* to TASK_RUNNING, so such a task does not even stop.                     *)
Pause(t) ==
    /\ InUser(t)
    /\ HoldsNothing(t)
    /\ at' = [at EXCEPT ![t] = "pause"]
    /\ state' = [state EXCEPT ![t] = IF signal[t] THEN "RUNNING" ELSE "INTERRUPTIBLE"]
    /\ UNCHANGED <<signal, lock, tmp, head, holder, hung>>

(* sys_pause() returns; on the way to user mode the signal is delivered.   *)
PauseReturn(t) ==
    /\ Runs(t)
    /\ at[t] = "pause"
    /\ at' = [at EXCEPT ![t] = "none"]
    /\ signal' = [signal EXCEPT ![t] = FALSE]
    /\ UNCHANGED <<state, lock, tmp, head, holder, hung>>

(* send_sig() sets the bit; the next schedule(), whoever calls it, makes   *)
(* an interruptible sleeper runnable.  Both are one step here.             *)
SendSig(t) ==
    /\ ~hung
    /\ t \in Target
    /\ state[t] # "FREE"
    /\ signal' = [signal EXCEPT ![t] = TRUE]
    /\ state' = [state EXCEPT ![t] = IF @ = "INTERRUPTIBLE" THEN "RUNNING" ELSE @]
    /\ UNCHANGED <<at, lock, tmp, head, holder, hung>>

(* do_exit(): all locks have been given back by then.                      *)
Exit(t) ==
    /\ t \in Mortal
    /\ InUser(t)
    /\ HoldsNothing(t)
    /\ state' = [state EXCEPT ![t] = "ZOMBIE"]
    /\ at' = [at EXCEPT ![t] = "dead"]
    /\ UNCHANGED <<signal, lock, tmp, head, holder, hung>>

(* A zombie that a stale pointer made runnable returns from the schedule() *)
(* of do_exit() to a user program whose pages are gone: it executes zeros  *)
(* from demand-zero pages until it faults, when die() loops for ever in    *)
(* the kernel, or until memory runs out, when oom() calls do_exit() again. *)
ZombieRuns(t) ==
    /\ Runs(t)
    /\ at[t] = "dead"
    /\ \/ hung' = TRUE /\ UNCHANGED state
       \/ state' = [state EXCEPT ![t] = "ZOMBIE"] /\ UNCHANGED hung
    /\ UNCHANGED <<signal, at, lock, tmp, head, holder>>

(* The loop at the end of die(): only interrupts run from here on.         *)
Hang == hung /\ UNCHANGED vars

(* sys_waitpid() of the father: release() frees the task structure.        *)
Release(f, t) ==
    /\ InUser(f)
    /\ state[t] = "ZOMBIE"
    /\ state' = [state EXCEPT ![t] = "FREE"]
    /\ at' = [at EXCEPT ![t] = "none"]
    /\ signal' = [signal EXCEPT ![t] = FALSE]
    /\ UNCHANGED <<lock, tmp, head, holder, hung>>

(* copy_process() allocates the same page for a new task.                  *)
Fork(f, t) ==
    /\ InUser(f)
    /\ state[t] = "FREE"
    /\ state' = [state EXCEPT ![t] = "RUNNING"]
    /\ UNCHANGED <<signal, at, lock, tmp, head, holder, hung>>

Next ==
    \/ \E t \in Task, q \in Queue : Lock(t, q) \/ WaitOn(t, q)
    \/ \E t \in Task, q \in OwnedLock : Unlock(t, q)
    \/ \E q \in IoLock : EndRequest(q)
    \/ \E t \in Task : \/ Resume(t) \/ Pause(t) \/ PauseReturn(t) \/ SendSig(t)
                       \/ Exit(t) \/ ZombieRuns(t)
    \/ \E f, t \in Task : Release(f, t) \/ Fork(f, t)
    \/ Hang

Spec == Init /\ [][Next]_vars

(* schedule() eventually picks every runnable task (Scheduler!NoStarvation), *)
(* the code between lock_x() and unlock_x() is finite, so a holder that runs *)
(* again and again gives its lock back, and the disk answers.                *)
Fairness ==
    /\ \A t \in Task : WF_vars(Resume(t))
    /\ \A t \in Task, q \in OwnedLock : SF_vars(Unlock(t, q))
    /\ \A q \in IoLock : WF_vars(EndRequest(q))

FairSpec == Spec /\ Fairness

-----------------------------------------------------------------------------
InFrame(q) == {t \in Task : at[t] = q}
Blocked(q) == {t \in InFrame(q) : state[t] = "UNINTERRUPTIBLE"}

Linked(q) ==
    \A S \in SUBSET Blocked(q) :
        S # {} => head[q] \in S \/ \E u \in InFrame(q) \ S : tmp[u] \in S

(* No set of sleepers is cut off: whatever set S of tasks blocked on q one *)
(* takes, *p names one of them or a frame outside S has one of them as its *)
(* tmp and will wake it.  This is what makes one pointer per queue enough, *)
(* in spite of stale pointers, cycles through tmp and tasks woken out of   *)
(* order.                                                                  *)
NoSleeperCutOff == \A q \in Queue : Linked(q)

(* wake_up() leaves nobody behind on a free lock: when tasks are blocked   *)
(* on a queue whose lock is free, some task in a sleep_on() frame of that  *)
(* queue is already runnable and has one of them as its tmp, so the chain  *)
(* of wakeups started by wake_up() has not stopped.                        *)
FreeLockHasWaker ==
    \A q \in Queue :
        holder[q] = NoTask /\ Blocked(q) # {} =>
            \E u \in InFrame(q) : state[u] = "RUNNING" /\ tmp[u] \in Blocked(q)

(* The holder of the lock t sleeps on is itself waiting for a buffer.      *)
HolderWaits(t) ==
    \E q \in OwnedLock : at[t] = q /\ \E u \in Task : holder[q] = u /\ at[u] \in IoLock

(* Every task that goes to sleep on a lock is made runnable again, unless  *)
(* a revived zombie hangs the kernel, or the holder of the lock finds a    *)
(* buffer that it waits for locked again by others each time it is woken:  *)
(* nothing makes the locks fair.                                           *)
SleeperWoken ==
    \A t \in Task : []<>(state[t] # "UNINTERRUPTIBLE" \/ hung \/ HolderWaits(t))

-----------------------------------------------------------------------------
(* A statement of the source's comments which the code does not keep.      *)

(* include/linux/sched.h: a process in state TASK_ZOMBIE has stopped       *)
(* running.                                                                *)
ZombieStaysDead ==
    [][\A t \in Task : state[t] = "ZOMBIE" => state'[t] # "RUNNING"]_vars
=============================================================================
