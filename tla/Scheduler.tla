----------------------------- MODULE Scheduler -----------------------------
(***************************************************************************)
(* The scheduler of kernel/sched.c with the paths that enter and leave the *)
(* kernel in kernel/system_call.s: who runs next, time slices, alarms,     *)
(* when a signal wakes a task and when it is delivered.                    *)
(*                                                                         *)
(* Tasks are the slots 1 .. N of task[]; slot 0 is the idle task, whose    *)
(* state the code never looks at.  The current task is in user mode, in a  *)
(* system call ("kernel"), or at ret_from_sys_call ("return"); a task that *)
(* is not current resumes where it was switched out.                       *)
(***************************************************************************)
EXTENDS Integers, FiniteSets

CONSTANTS N,            \* tasks besides the idle task (NR_TASKS - 1)
          MaxInt,       \* a long is a number in -MaxInt-1 .. MaxInt
          InitPriority, \* the priority of INIT_TASK
          Increment,    \* arguments of sys_nice()
          MaxAlarm,     \* largest argument of sys_alarm(), in clock ticks
          Signals,      \* the signals that are sent in this instance
          Mask,         \* the sa_mask values programs install
          Alive,        \* the tasks that exist in the initial state
          Mortal        \* the tasks that may call exit()

Task == 1 .. N
SIGKILL == 9
SIGALRM == 14

ASSUME SchedulerAssumption ==
    /\ N \in Nat
    /\ MaxInt \in Nat /\ InitPriority \in 1 .. MaxInt
    /\ Increment \subseteq -MaxInt - 1 .. MaxInt
    /\ MaxAlarm \in Nat
    /\ Signals \subseteq 1 .. 32
    /\ Mask \subseteq SUBSET Signals
    /\ Alive \subseteq Task /\ Mortal \subseteq Task

VARIABLES state,    \* task_struct.state; "FREE" for an empty slot
          counter,  \* ticks left of the time slice
          priority,
          signal,   \* the set of pending signals
          blocked,  \* the set of blocked signals
          alarm,    \* alarm - jiffies, or NoAlarm when alarm is 0
          mode,
          current   \* the number of the current task

vars == <<state, counter, priority, signal, blocked, alarm, mode, current>>

States == {"RUNNING", "INTERRUPTIBLE", "UNINTERRUPTIBLE", "ZOMBIE", "FREE"}
Long == -MaxInt - 1 .. MaxInt
Expired == -1           \* alarm < jiffies
NoAlarm == MaxAlarm + 1

TypeOK ==
    /\ state \in [Task -> States]
    /\ counter \in [0 .. N -> Long]
    /\ priority \in [Task -> 1 .. MaxInt]
    /\ signal \in [Task -> SUBSET Signals]
    /\ blocked \in [Task -> SUBSET Signals]
    /\ alarm \in [Task -> Expired .. NoAlarm]
    /\ mode \in [Task -> {"user", "kernel", "return"}]
    /\ current \in 0 .. N

Init ==
    /\ state = [t \in Task |-> IF t \in Alive THEN "RUNNING" ELSE "FREE"]
    /\ counter = [t \in 0 .. N |-> InitPriority]
    /\ priority = [t \in Task |-> InitPriority]
    /\ signal = [t \in Task |-> {}]
    /\ blocked = [t \in Task |-> {}]
    /\ alarm = [t \in Task |-> NoAlarm]
    /\ mode = [t \in Task |-> "user"]
    /\ current = 0

-----------------------------------------------------------------------------
(* schedule() *)

(* The machine keeps the sum or difference of two longs modulo its word.   *)
Wrap(x) == IF x > MaxInt THEN x - 2 * (MaxInt + 1)
           ELSE IF x < -MaxInt - 1 THEN x + 2 * (MaxInt + 1)
           ELSE x

(* Plausible slips in the code below, used to test the properties.         *)
AlarmLost(st, sig, al) == sig

(* The first loop: expired alarms become signals.                          *)
AlarmSignal(st, sig, al) ==
    [t \in Task |-> IF st[t] # "FREE" /\ al[t] = Expired
                    THEN sig[t] \cup ({SIGALRM} \cap Signals) ELSE sig[t]]

AlarmCleared(st, al) ==
    [t \in Task |-> IF st[t] # "FREE" /\ al[t] = Expired THEN NoAlarm ELSE al[t]]

(* More such slips.                                                        *)
NotHalved(st, ctr) ==
    [t \in 0 .. N |-> IF t = 0 \/ st[t] = "FREE" THEN ctr[t] ELSE ctr[t] + priority[t]]
NeverRefilled(st, ctr) == ctr
NoAlarmElapses(al) == [t \in Task |-> al[t] - 1]
Highest(S) == CHOOSE s \in S : \A r \in S : r <= s

(* ... and wake interruptible sleepers with a signal; SIGKILL counts even  *)
(* when it is blocked.                                                     *)
Wakes(sig, t) == sig[t] \ (blocked[t] \ {SIGKILL}) # {}

Woken(st, sig) ==
    [t \in Task |-> IF st[t] = "INTERRUPTIBLE" /\ Wakes(sig, t) THEN "RUNNING" ELSE st[t]]

(* The search for the largest counter: candidates beat the initial c = -1, *)
(* and the highest task number wins among equals.                          *)
Candidates(st, ctr) == {t \in Task : st[t] = "RUNNING" /\ ctr[t] > -1}

Best(st, ctr) ==
    {t \in Candidates(st, ctr) :
        \A u \in Candidates(st, ctr) : ctr[u] < ctr[t] \/ (ctr[u] = ctr[t] /\ u <= t)}

SlicesUsedUp(st, ctr) ==
    Candidates(st, ctr) # {} /\ \A t \in Candidates(st, ctr) : ctr[t] = 0

(* counter = (counter >> 1) + priority, for sleepers too.                  *)
Refill(st, ctr) ==
    [t \in 0 .. N |-> IF t = 0 \/ st[t] = "FREE" THEN ctr[t]
                      ELSE Wrap(ctr[t] \div 2 + priority[t])]

(* One round of refilling is enough: a candidate with an empty slice gets  *)
(* its priority, which is positive.                                        *)
Refilled(st, ctr) == IF SlicesUsedUp(st, ctr) THEN Refill(st, ctr) ELSE ctr

(* schedule() called with these values of the task structures.             *)
schedule(st, ctr, sig, al) ==
    /\ signal' = AlarmSignal(st, sig, al)
    /\ alarm' = AlarmCleared(st, al)
    /\ state' = Woken(st, signal')
    /\ counter' = Refilled(state', ctr)
    /\ current' \in IF Candidates(state', counter') = {} THEN {0} ELSE Best(state', counter')

-----------------------------------------------------------------------------
(* Interrupts *)

Elapse(al) == [t \in Task |-> IF al[t] \in 0 .. MaxAlarm THEN al[t] - 1 ELSE al[t]]

(* timer_interrupt: jiffies++ and do_timer(cpl).  A task in kernel mode is *)
(* never switched out here, even when its slice is used up.                *)
Tick ==
    LET left == IF counter[current] - 1 > 0 THEN counter[current] - 1 ELSE 0
        ctr == [counter EXCEPT ![current] = left]
        user == current = 0 \/ mode[current] = "user"
    IN  /\ IF left = 0 /\ user
           THEN schedule(state, ctr, signal, Elapse(alarm))
           ELSE /\ counter' = ctr
                /\ alarm' = Elapse(alarm)
                /\ UNCHANGED <<state, signal, current>>
        /\ mode' = IF current # 0 /\ user THEN [mode EXCEPT ![current] = "return"] ELSE mode
        /\ UNCHANGED <<priority, blocked>>

(* A device interrupt wakes a task that waits for the device.              *)
Wakeup(t) ==
    /\ state[t] = "UNINTERRUPTIBLE"
    /\ state' = [state EXCEPT ![t] = "RUNNING"]
    /\ UNCHANGED <<counter, priority, signal, blocked, alarm, mode, current>>

-----------------------------------------------------------------------------
(* System calls of the current task *)

InUser(t) == current = t /\ mode[t] = "user"
EnterKernel(t) == InUser(t) /\ mode' = [mode EXCEPT ![t] = "kernel"]

(* The idle task calls pause() for ever.                                   *)
IdlePause ==
    /\ current = 0
    /\ schedule(state, counter, signal, alarm)
    /\ UNCHANGED <<priority, blocked, mode>>

sys_pause(t) ==
    /\ EnterKernel(t)
    /\ schedule([state EXCEPT ![t] = "INTERRUPTIBLE"], counter, signal, alarm)
    /\ UNCHANGED <<priority, blocked>>

(* Any call that waits for a device in sleep_on().                         *)
Sleep(t) ==
    /\ EnterKernel(t)
    /\ schedule([state EXCEPT ![t] = "UNINTERRUPTIBLE"], counter, signal, alarm)
    /\ UNCHANGED <<priority, blocked>>

(* An argument of 0 cancels the alarm, any other replaces it.              *)
sys_alarm(t, ticks) ==
    /\ EnterKernel(t)
    /\ alarm' = [alarm EXCEPT ![t] = IF ticks > 0 THEN ticks ELSE NoAlarm]
    /\ UNCHANGED <<state, counter, priority, signal, blocked, current>>

sys_nice(t, increment) ==
    /\ EnterKernel(t)
    /\ priority' = [priority EXCEPT ![t] = IF Wrap(@ - increment) > 0 THEN Wrap(@ - increment) ELSE @]
    /\ UNCHANGED <<state, counter, signal, blocked, alarm, current>>

sys_ssetmask(t, newmask) ==
    /\ EnterKernel(t)
    /\ blocked' = [blocked EXCEPT ![t] = newmask \ {SIGKILL}]
    /\ UNCHANGED <<state, counter, priority, signal, alarm, current>>

(* sys_kill(): send_sig() only sets the bit, also in a zombie.             *)
sys_kill(t, u, sig) ==
    /\ EnterKernel(t)
    /\ state[u] # "FREE"
    /\ signal' = [signal EXCEPT ![u] = @ \cup {sig}]
    /\ UNCHANGED <<state, counter, priority, blocked, alarm, current>>

(* do_exit(), as far as the scheduler is concerned.                        *)
do_exit(t) == schedule([state EXCEPT ![t] = "ZOMBIE"], counter, signal, alarm)

sys_exit(t) ==
    /\ t \in Mortal
    /\ EnterKernel(t)
    /\ do_exit(t)
    /\ UNCHANGED <<priority, blocked>>

(* sys_waitpid() finds a zombie: release() empties the slot and schedules. *)
Release(t, u) ==
    /\ EnterKernel(t)
    /\ state[u] = "ZOMBIE"
    /\ schedule([state EXCEPT ![u] = "FREE"], counter, signal, alarm)
    /\ UNCHANGED <<priority, blocked>>

(* copy_process(): the child starts with a full slice of its father's      *)
(* priority, no signals, no alarm and its father's mask.                   *)
Fork(t, u) ==
    /\ InUser(t)
    /\ mode' = [mode EXCEPT ![t] = "kernel", ![u] = "user"]
    /\ state[u] = "FREE"
    /\ state' = [state EXCEPT ![u] = "RUNNING"]
    /\ counter' = [counter EXCEPT ![u] = priority[t]]
    /\ priority' = [priority EXCEPT ![u] = priority[t]]
    /\ signal' = [signal EXCEPT ![u] = {}]
    /\ blocked' = [blocked EXCEPT ![u] = blocked[t]]
    /\ alarm' = [alarm EXCEPT ![u] = NoAlarm]
    /\ UNCHANGED current

(* The end of system_call: "reschedule" unless the task may go on.         *)
SyscallEnd(t) ==
    /\ current = t
    /\ mode[t] = "kernel"
    /\ mode' = [mode EXCEPT ![t] = "return"]
    /\ IF state[t] # "RUNNING" \/ counter[t] = 0
       THEN schedule(state, counter, signal, alarm)
       ELSE UNCHANGED <<state, counter, signal, alarm, current>>
    /\ UNCHANGED <<priority, blocked>>

(* The signal of the lowest number among those not blocked; here a blocked *)
(* SIGKILL does not count.                                                 *)
Deliverable(t) == signal[t] \ blocked[t]
Lowest(S) == CHOOSE s \in S : \A r \in S : s <= r

(* do_signal(): SIGKILL always has its default action; another signal may  *)
(* be ignored, end the task, or run a handler that was installed with some *)
(* mask.                                                                   *)
do_signal(t, sig) ==
    LET rest == [signal EXCEPT ![t] = @ \ {sig}]
    IN  \/ /\ schedule([state EXCEPT ![t] = "ZOMBIE"], counter, rest, alarm)
           /\ mode' = [mode EXCEPT ![t] = "kernel"]
           /\ UNCHANGED blocked
        \/ /\ sig # SIGKILL
           /\ \/ UNCHANGED blocked
              \/ \E m \in Mask : blocked' = [blocked EXCEPT ![t] = @ \cup m]
           /\ signal' = rest
           /\ mode' = [mode EXCEPT ![t] = "user"]
           /\ UNCHANGED <<state, counter, alarm, current>>

(* ret_from_sys_call: deliver at most one signal, then user mode.          *)
ReturnToUser(t) ==
    /\ current = t
    /\ mode[t] = "return"
    /\ \/ /\ Deliverable(t) = {}
          /\ mode' = [mode EXCEPT ![t] = "user"]
          /\ UNCHANGED <<state, counter, signal, alarm, current, blocked>>
       \/ /\ Deliverable(t) # {}
          /\ do_signal(t, Lowest(Deliverable(t)))
    /\ UNCHANGED priority

Next ==
    \/ Tick
    \/ IdlePause
    \/ \E t \in Task :
        \/ Wakeup(t)
        \/ sys_pause(t)
        \/ Sleep(t)
        \/ \E ticks \in 0 .. MaxAlarm : sys_alarm(t, ticks)
        \/ \E i \in Increment : sys_nice(t, i)
        \/ \E m \in Mask : sys_ssetmask(t, m)
        \/ \E u \in Task, s \in Signals : sys_kill(t, u, s)
        \/ sys_exit(t)
        \/ \E u \in Task : Release(t, u) \/ Fork(t, u)
        \/ SyscallEnd(t)
        \/ ReturnToUser(t)

Spec == Init /\ [][Next]_vars

(* The clock ticks, devices answer, a system call reaches its end, and the *)
(* idle task keeps calling pause().  A program in user mode owes nothing:  *)
(* it may compute for ever.                                                *)
Fairness ==
    /\ WF_vars(Tick)
    /\ WF_vars(IdlePause)
    /\ \A t \in Task :
        WF_vars(Wakeup(t)) /\ WF_vars(SyscallEnd(t)) /\ WF_vars(ReturnToUser(t))

FairSpec == Spec /\ Fairness

-----------------------------------------------------------------------------
(* When programs only give up priority (positive arguments of nice()), a   *)
(* slice never exceeds twice the initial priority, however often a sleeper *)
(* is credited by the refills of the others, and is never negative.        *)
CounterBounded == \A t \in Task : counter[t] \in 0 .. 2 * InitPriority

(* schedule() gives the processor to the idle task only when no other task *)
(* is runnable.                                                            *)
IdleOnlyWhenNoneRunnable ==
    [][current # 0 /\ current' = 0 => \A t \in Task : state'[t] # "RUNNING"]_vars

(* A runnable task is eventually run, whatever the others do with their    *)
(* slices, priorities and sleeps.                                          *)
NoStarvation ==
    \A t \in Task : (state[t] = "RUNNING") ~> (current = t \/ state[t] # "RUNNING")

(* A task in pause() with an alarm set, which it does not block, is woken. *)
AlarmEndsPause ==
    \A t \in Task :
        (state[t] = "INTERRUPTIBLE" /\ alarm[t] # NoAlarm /\ SIGALRM \notin blocked[t])
            ~> (state[t] # "INTERRUPTIBLE")

(* SIGKILL ends every task that exists, asleep or not, before any handler  *)
(* of another signal runs, unless the mask of an earlier handler blocks    *)
(* it: do_signal() adds that to blocked as it is.                          *)
KillIsFatal ==
    \A t \in Task :
        (state[t] # "FREE" /\ SIGKILL \in signal[t]) ~>
            (state[t] \in {"ZOMBIE", "FREE"} \/ SIGKILL \in blocked[t])
=============================================================================
