-------------------------- MODULE SchedulerProofs --------------------------
(***************************************************************************)
(* Facts about module Scheduler for any number of tasks and any word       *)
(* length: types, the bound on time slices, and that the idle task is      *)
(* chosen only when nobody else can run.  The last two need what           *)
(* sys_nice() does not check: that programs only give up priority.         *)
(***************************************************************************)
EXTENDS Scheduler, TLAPS

(* The result of an addition is again a long.                              *)
LEMMA WrapType ==
  ASSUME NEW a \in Long, NEW b \in Long
  PROVE  Wrap(a + b) \in Long /\ Wrap(a - b) \in Long
BY SchedulerAssumption DEF Wrap, Long

(* Refilling the slices yields longs.                                      *)
LEMMA RefillType ==
  ASSUME priority \in [Task -> 1 .. MaxInt],
         NEW st \in [Task -> States], NEW ctr \in [0 .. N -> Long]
  PROVE  Refilled(st, ctr) \in [0 .. N -> Long]
<1>1. ASSUME NEW t \in Task PROVE Wrap(ctr[t] \div 2 + priority[t]) \in Long
  <2>1. t \in 0 .. N /\ ctr[t] \in Long /\ priority[t] \in Long
    BY SchedulerAssumption DEF Task, Long
  <2>2. ctr[t] \div 2 \in Long
    BY <2>1, SchedulerAssumption DEF Long
  <2> QED
    BY <2>1, <2>2, WrapType
<1>2. Refill(st, ctr) \in [0 .. N -> Long]
  BY <1>1, SchedulerAssumption DEF Refill, Task
<1> QED
  BY <1>2 DEF Refilled

(* schedule() keeps the types of everything it assigns.                    *)
LEMMA ScheduleType ==
  ASSUME TypeOK, NEW st \in [Task -> States], NEW ctr \in [0 .. N -> Long],
         NEW sig \in [Task -> SUBSET Signals], NEW al \in [Task -> Expired .. NoAlarm],
         schedule(st, ctr, sig, al)
  PROVE  /\ state' \in [Task -> States]
         /\ counter' \in [0 .. N -> Long]
         /\ signal' \in [Task -> SUBSET Signals]
         /\ alarm' \in [Task -> Expired .. NoAlarm]
         /\ current' \in 0 .. N
<1>1. signal' \in [Task -> SUBSET Signals]
  BY DEF schedule, AlarmSignal
<1>2. NoAlarm \in Expired .. NoAlarm
  BY SchedulerAssumption DEF NoAlarm, Expired
<1>3. alarm' \in [Task -> Expired .. NoAlarm]
  BY <1>2 DEF schedule, AlarmCleared
<1>4. state' \in [Task -> States]
  BY DEF schedule, Woken, States
<1>5. counter' \in [0 .. N -> Long]
  BY <1>4, RefillType DEF schedule, TypeOK
<1>6. current' \in 0 .. N
  BY SchedulerAssumption DEF schedule, Best, Candidates, Task
<1> QED
  BY <1>1, <1>3, <1>4, <1>5, <1>6

(* Time passes: alarms stay within their range.                            *)
LEMMA ElapseType ==
  ASSUME NEW al \in [Task -> Expired .. NoAlarm]
  PROVE  Elapse(al) \in [Task -> Expired .. NoAlarm]
BY SchedulerAssumption DEF Elapse, Expired, NoAlarm

(* Every step of the machine keeps the types of all variables.             *)
LEMMA TypeStep == TypeOK /\ [Next]_vars => TypeOK'
<1> SUFFICES ASSUME TypeOK, [Next]_vars PROVE TypeOK'
  OBVIOUS
<1> USE DEF TypeOK
<1>0. /\ NoAlarm \in Expired .. NoAlarm /\ {SIGALRM} \cap Signals \subseteq Signals
      /\ 0 \in Long /\ \A x \in 1 .. MaxInt : x \in Long
      /\ \A x \in 1 .. MaxAlarm : x \in Expired .. NoAlarm
      /\ \A t \in Task : t \in 0 .. N
  BY SchedulerAssumption DEF NoAlarm, Expired, Long, Task
<1>1. CASE Tick
  <2> DEFINE left == IF counter[current] - 1 > 0 THEN counter[current] - 1 ELSE 0
             ctr == [counter EXCEPT ![current] = left]
             user == current = 0 \/ mode[current] = "user"
  <2>1. left \in Long
    BY SchedulerAssumption DEF Long
  <2>2. ctr \in [0 .. N -> Long]
    BY <2>1
  <2>3. Elapse(alarm) \in [Task -> Expired .. NoAlarm]
    BY ElapseType
  <2>4. UNCHANGED <<priority, blocked>> /\ mode' \in [Task -> {"user", "kernel", "return"}]
    BY <1>1 DEF Tick
  <2>5. CASE left = 0 /\ user
    <3>1. schedule(state, ctr, signal, Elapse(alarm))
      BY <1>1, <2>5 DEF Tick
    <3> HIDE DEF ctr, left, user
    <3> QED
      BY <2>2, <2>3, <2>4, <3>1, ScheduleType
  <2>6. CASE ~(left = 0 /\ user)
    <3>1. counter' = ctr /\ alarm' = Elapse(alarm) /\ UNCHANGED <<state, signal, current>>
      BY <1>1, <2>6 DEF Tick
    <3> HIDE DEF ctr, left, user
    <3> QED
      BY <2>2, <2>3, <2>4, <3>1
  <2> QED
    BY <2>5, <2>6
<1>2. CASE IdlePause
  BY <1>2, ScheduleType DEF IdlePause
<1>3. ASSUME NEW t \in Task, Wakeup(t) PROVE TypeOK'
  BY <1>3 DEF Wakeup, States
<1>4. ASSUME NEW t \in Task, sys_pause(t) \/ Sleep(t) \/ sys_exit(t) PROVE TypeOK'
  <2>1. PICK st \in [Task -> States] : schedule(st, counter, signal, alarm)
    BY <1>4 DEF sys_pause, Sleep, sys_exit, do_exit, States
  <2>2. UNCHANGED <<priority, blocked>> /\ mode' \in [Task -> {"user", "kernel", "return"}]
    BY <1>4 DEF sys_pause, Sleep, sys_exit, EnterKernel
  <2> QED
    BY <2>1, <2>2, ScheduleType
<1>5. ASSUME NEW t \in Task, NEW ticks \in 0 .. MaxAlarm, sys_alarm(t, ticks) PROVE TypeOK'
  BY <1>0, <1>5, SchedulerAssumption DEF sys_alarm, EnterKernel
<1>6. ASSUME NEW t \in Task, NEW i \in Increment, sys_nice(t, i) PROVE TypeOK'
  <2>1. priority[t] \in Long /\ i \in Long
    BY <1>0, SchedulerAssumption DEF Long
  <2>2. Wrap(priority[t] - i) \in Long
    BY <2>1, WrapType
  <2>3. Wrap(priority[t] - i) > 0 => Wrap(priority[t] - i) \in 1 .. MaxInt
    BY <2>2, SchedulerAssumption DEF Long
  <2> QED
    BY <1>6, <2>3 DEF sys_nice, EnterKernel
<1>7. ASSUME NEW t \in Task, NEW m \in Mask, sys_ssetmask(t, m) PROVE TypeOK'
  BY <1>7, SchedulerAssumption DEF sys_ssetmask, EnterKernel
<1>8. ASSUME NEW t \in Task, NEW u \in Task, NEW s \in Signals, sys_kill(t, u, s) PROVE TypeOK'
  BY <1>8 DEF sys_kill, EnterKernel
<1>9. ASSUME NEW t \in Task, NEW u \in Task, Release(t, u) PROVE TypeOK'
  <2>1. /\ [state EXCEPT ![u] = "FREE"] \in [Task -> States]
        /\ schedule([state EXCEPT ![u] = "FREE"], counter, signal, alarm)
        /\ UNCHANGED <<priority, blocked>> /\ mode' \in [Task -> {"user", "kernel", "return"}]
    BY <1>9 DEF Release, EnterKernel, States
  <2> QED
    BY <2>1, ScheduleType
<1>10. ASSUME NEW t \in Task, NEW u \in Task, Fork(t, u) PROVE TypeOK'
  <2>1. counter' \in [0 .. N -> Long]
    BY <1>0, <1>10 DEF Fork
  <2>2. /\ state' \in [Task -> States] /\ priority' \in [Task -> 1 .. MaxInt]
        /\ UNCHANGED current
    BY <1>10 DEF Fork, States
  <2>3. /\ signal' \in [Task -> SUBSET Signals] /\ blocked' \in [Task -> SUBSET Signals]
        /\ alarm' \in [Task -> Expired .. NoAlarm]
        /\ mode' \in [Task -> {"user", "kernel", "return"}]
    BY <1>0, <1>10 DEF Fork
  <2> QED
    BY <2>1, <2>2, <2>3
<1>11. ASSUME NEW t \in Task, SyscallEnd(t) PROVE TypeOK'
  BY <1>11, ScheduleType DEF SyscallEnd
<1>12. ASSUME NEW t \in Task, ReturnToUser(t) PROVE TypeOK'
  <2>1. CASE Deliverable(t) = {}
    BY <1>12, <2>1 DEF ReturnToUser
  <2>2. CASE Deliverable(t) # {}
    <3> DEFINE sig == Lowest(Deliverable(t))
               rest == [signal EXCEPT ![t] = @ \ {sig}]
    <3>1. do_signal(t, sig) /\ UNCHANGED priority
      BY <1>12, <2>2 DEF ReturnToUser
    <3>2. rest \in [Task -> SUBSET Signals]
      OBVIOUS
    <3>3. CASE /\ schedule([state EXCEPT ![t] = "ZOMBIE"], counter, rest, alarm)
               /\ mode' = [mode EXCEPT ![t] = "kernel"] /\ UNCHANGED blocked
      <4>1. [state EXCEPT ![t] = "ZOMBIE"] \in [Task -> States]
        BY DEF States
      <4>2. mode' \in [Task -> {"user", "kernel", "return"}] /\ UNCHANGED <<priority, blocked>>
        BY <3>1, <3>3
      <4> HIDE DEF rest
      <4> QED
        BY <3>2, <3>3, <4>1, <4>2, ScheduleType
    <3>4. CASE /\ \/ UNCHANGED blocked
                  \/ \E m \in Mask : blocked' = [blocked EXCEPT ![t] = @ \cup m]
               /\ signal' = rest /\ mode' = [mode EXCEPT ![t] = "user"]
               /\ UNCHANGED <<state, counter, alarm, current>>
      <4>1. blocked' \in [Task -> SUBSET Signals]
        <5>1. ASSUME NEW m \in Mask PROVE [blocked EXCEPT ![t] = @ \cup m] \in [Task -> SUBSET Signals]
          BY SchedulerAssumption
        <5> QED
          BY <3>4, <5>1
      <4>2. mode' \in [Task -> {"user", "kernel", "return"}] /\ UNCHANGED priority
        BY <3>1, <3>4
      <4>3. signal' \in [Task -> SUBSET Signals]
        BY <3>2, <3>4
      <4> QED
        BY <3>4, <4>1, <4>2, <4>3
    <3> QED
      BY <3>1, <3>3, <3>4 DEF do_signal
  <2> QED
    BY <2>1, <2>2
<1>13. CASE UNCHANGED vars
  BY <1>13 DEF vars
<1> QED
  BY <1>1, <1>2, <1>3, <1>4, <1>5, <1>6, <1>7, <1>8, <1>9, <1>10, <1>11, <1>12, <1>13 DEF Next

(* Every variable keeps its type.                                          *)
THEOREM TypeCorrect == Spec => []TypeOK
<1>1. Init => TypeOK
  BY SchedulerAssumption DEF Init, TypeOK, States, Long, NoAlarm, Expired
<1> QED
  BY <1>1, TypeStep, PTL DEF Spec

-----------------------------------------------------------------------------
(* What programs must do for slices to stay bounded: give up priority      *)
(* only.  sys_nice() does not check it.                                    *)
Gentle == Increment \subseteq Nat /\ 2 * InitPriority <= MaxInt

(* Priorities then never rise above the first one.                         *)
PriorityFalls == \A t \in Task : priority[t] <= InitPriority

IInv == TypeOK /\ PriorityFalls /\ CounterBounded

(* A refill keeps the bound: half of 2 * InitPriority leaves room for one  *)
(* more InitPriority.                                                      *)
LEMMA RefillBounded ==
  ASSUME Gentle, TypeOK, PriorityFalls, NEW st, NEW ctr \in [0 .. N -> Long],
         \A t \in Task : ctr[t] \in 0 .. 2 * InitPriority
  PROVE  \A t \in Task : Refilled(st, ctr)[t] \in 0 .. 2 * InitPriority
<1> SUFFICES ASSUME NEW t \in Task PROVE Refill(st, ctr)[t] \in 0 .. 2 * InitPriority
  BY DEF Refilled
<1>1. t \in 0 .. N /\ InitPriority \in Nat /\ MaxInt \in Nat /\ 2 * InitPriority <= MaxInt
  BY SchedulerAssumption DEF Task, Gentle
<1>2. priority[t] \in 1 .. InitPriority
  BY <1>1 DEF TypeOK, PriorityFalls
<1>3. ctr[t] \div 2 + priority[t] \in 0 .. 2 * InitPriority
  BY <1>1, <1>2
<1>4. Wrap(ctr[t] \div 2 + priority[t]) = ctr[t] \div 2 + priority[t]
  BY <1>1, <1>3 DEF Wrap
<1> QED
  BY <1>1, <1>3, <1>4 DEF Refill

(* Every step keeps the bound on slices and priorities.                    *)
LEMMA BoundStep ==
  ASSUME Gentle, IInv, [Next]_vars
  PROVE  PriorityFalls' /\ CounterBounded'
<1>t. TypeOK /\ PriorityFalls /\ CounterBounded /\ counter \in [0 .. N -> Long]
  BY DEF IInv, TypeOK
<1>n. \A t \in Task : t \in 0 .. N
  BY SchedulerAssumption DEF Task
<1>i. InitPriority \in Nat /\ MaxInt \in Nat /\ 2 * InitPriority <= MaxInt
  BY SchedulerAssumption DEF Gentle
<1>s. ASSUME NEW st, NEW sig, NEW al, NEW ctr \in [0 .. N -> Long],
             \A t \in Task : ctr[t] \in 0 .. 2 * InitPriority,
             schedule(st, ctr, sig, al), UNCHANGED priority
      PROVE  PriorityFalls' /\ CounterBounded'
  <2>1. counter' = Refilled(state', ctr)
    BY <1>s DEF schedule
  <2>2. CounterBounded'
    BY <1>s, <1>t, <2>1, RefillBounded DEF CounterBounded
  <2> QED
    BY <1>s, <1>t, <2>2 DEF PriorityFalls
<1>1. CASE Tick
  <2> DEFINE left == IF counter[current] - 1 > 0 THEN counter[current] - 1 ELSE 0
             ctr == [counter EXCEPT ![current] = left]
  <2>0. current \in 0 .. N /\ counter[current] \in Long
    BY <1>t DEF TypeOK
  <2>1. left \in Long
    BY <2>0, <1>i DEF Long
  <2>2. ctr \in [0 .. N -> Long]
    BY <1>t, <2>1
  <2>3. \A t \in Task : ctr[t] \in 0 .. 2 * InitPriority
    BY <1>t, <1>n, <1>i, <2>0 DEF CounterBounded
  <2>4. UNCHANGED priority
    BY <1>1 DEF Tick
  <2>5. counter' = ctr \/ schedule(state, ctr, signal, Elapse(alarm))
    BY <1>1 DEF Tick
  <2> HIDE DEF ctr
  <2>6. CASE counter' = ctr
    BY <1>t, <2>3, <2>4, <2>6 DEF PriorityFalls, CounterBounded
  <2> QED
    BY <1>s, <2>2, <2>3, <2>4, <2>5, <2>6
<1>2. CASE UNCHANGED <<counter, priority>>
  BY <1>2, <1>t DEF PriorityFalls, CounterBounded
<1>3. CASE UNCHANGED priority /\ \E st, sig, al : schedule(st, counter, sig, al)
  BY <1>3, <1>t, <1>s DEF CounterBounded
<1>4. ASSUME NEW t \in Task, NEW i \in Increment, sys_nice(t, i)
      PROVE  PriorityFalls' /\ CounterBounded'
  <2>1. i \in Nat /\ priority[t] \in 1 .. InitPriority
    BY <1>t, <1>i DEF Gentle, TypeOK, PriorityFalls
  <2>2. Wrap(priority[t] - i) > 0 => Wrap(priority[t] - i) = priority[t] - i
    BY <2>1, <1>i, SchedulerAssumption DEF Wrap, Gentle
  <2>3. \A u \in Task : priority'[u] <= InitPriority
    BY <1>4, <1>t, <1>i, <2>1, <2>2 DEF sys_nice, TypeOK, PriorityFalls
  <2> QED
    BY <1>4, <1>t, <2>3 DEF sys_nice, PriorityFalls, CounterBounded
<1>5. ASSUME NEW t \in Task, NEW u \in Task, Fork(t, u)
      PROVE  PriorityFalls' /\ CounterBounded'
  <2>1. priority[t] \in 0 .. 2 * InitPriority /\ priority[t] <= InitPriority
    BY <1>t, <1>i DEF TypeOK, PriorityFalls
  <2> QED
    BY <1>5, <1>t, <1>n, <2>1 DEF Fork, TypeOK, PriorityFalls, CounterBounded
<1>6. ASSUME NEW t \in Task, ReturnToUser(t)
      PROVE  \/ UNCHANGED <<counter, priority>>
             \/ UNCHANGED priority /\ \E st, sig, al : schedule(st, counter, sig, al)
  BY <1>6 DEF ReturnToUser, do_signal
<1>7. ASSUME NEW t \in Task, \/ sys_pause(t) \/ Sleep(t) \/ sys_exit(t) \/ SyscallEnd(t)
                             \/ \E u \in Task : Release(t, u)
      PROVE  \/ UNCHANGED <<counter, priority>>
             \/ UNCHANGED priority /\ \E st, sig, al : schedule(st, counter, sig, al)
  BY <1>7 DEF sys_pause, Sleep, sys_exit, do_exit, SyscallEnd, Release
<1>8. ASSUME NEW t \in Task, \/ Wakeup(t) \/ \E x \in 0 .. MaxAlarm : sys_alarm(t, x)
                             \/ \E m \in Mask : sys_ssetmask(t, m)
                             \/ \E u \in Task, s \in Signals : sys_kill(t, u, s)
      PROVE  UNCHANGED <<counter, priority>>
  BY <1>8 DEF Wakeup, sys_alarm, sys_ssetmask, sys_kill
<1>9. CASE IdlePause
  BY <1>9, <1>3 DEF IdlePause
<1>10. CASE UNCHANGED vars
  BY <1>10, <1>2 DEF vars
<1> QED
  BY <1>1, <1>2, <1>3, <1>4, <1>5, <1>6, <1>7, <1>8, <1>9, <1>10 DEF Next

(* Under Gentle the inductive invariant holds in every reachable state.    *)
LEMMA InvCorrect == ASSUME Gentle PROVE Spec => []IInv
<1>1. Init => IInv
  <2> SUFFICES ASSUME Init PROVE IInv
    OBVIOUS
  <2>1. TypeOK
    BY SchedulerAssumption DEF Init, TypeOK, States, Long, NoAlarm, Expired
  <2>2. \A t \in Task : t \in 0 .. N
    BY SchedulerAssumption DEF Task
  <2>3. PriorityFalls /\ CounterBounded
    BY <2>2, SchedulerAssumption DEF Init, PriorityFalls, CounterBounded
  <2> QED
    BY <2>1, <2>3 DEF IInv
<1>2. IInv /\ [Next]_vars => IInv'
  BY TypeStep, BoundStep DEF IInv
<1> QED
  BY <1>1, <1>2, PTL DEF Spec

(* If programs only give up priority, no time slice ever exceeds twice the *)
(* initial priority nor becomes negative, whatever sleeps and refills.     *)
THEOREM SlicesBounded == ASSUME Gentle PROVE Spec => []CounterBounded
BY InvCorrect, PTL DEF IInv

-----------------------------------------------------------------------------
(* With slices that are not negative, schedule() picks the idle task only  *)
(* when nobody else is runnable.                                           *)
LEMMA IdleStep ==
  ASSUME IInv', [Next]_vars, current # 0, current' = 0
  PROVE  \A t \in Task : state'[t] # "RUNNING"
<1>1. ASSUME NEW st, NEW ctr, NEW sig, NEW al, schedule(st, ctr, sig, al)
      PROVE  \A t \in Task : state'[t] # "RUNNING"
  <2>1. Candidates(state', counter') = {}
    BY <1>1, SchedulerAssumption DEF schedule, Best, Candidates, Task
  <2>2. \A t \in Task : counter'[t] > -1
    BY SchedulerAssumption DEF IInv, CounterBounded
  <2> QED
    BY <2>1, <2>2 DEF Candidates
<1>2. ASSUME NEW t \in Task, ReturnToUser(t)
      PROVE  \E st, ctr, sig, al : schedule(st, ctr, sig, al)
  BY <1>2 DEF ReturnToUser, do_signal
<1>3. CASE Tick
  BY <1>1, <1>3 DEF Tick
<1>4. CASE IdlePause
  BY <1>1, <1>4 DEF IdlePause
<1>5. ASSUME NEW t \in Task, \/ sys_pause(t) \/ Sleep(t) \/ sys_exit(t) \/ SyscallEnd(t)
                             \/ \E u \in Task : Release(t, u)
      PROVE  \A v \in Task : state'[v] # "RUNNING"
  BY <1>1, <1>5 DEF sys_pause, Sleep, sys_exit, do_exit, SyscallEnd, Release
<1>6. ASSUME NEW t \in Task, \/ Wakeup(t) \/ \E x \in 0 .. MaxAlarm : sys_alarm(t, x)
                             \/ \E i \in Increment : sys_nice(t, i)
                             \/ \E m \in Mask : sys_ssetmask(t, m)
                             \/ \E u \in Task, s \in Signals : sys_kill(t, u, s)
                             \/ \E u \in Task : Fork(t, u)
      PROVE  UNCHANGED current
  BY <1>6 DEF Wakeup, sys_alarm, sys_nice, sys_ssetmask, sys_kill, Fork
<1>7. ~ UNCHANGED vars
  BY DEF vars
<1> QED
  BY <1>1, <1>2, <1>3, <1>4, <1>5, <1>6, <1>7 DEF Next

(* The idle task never takes the processor from a runnable task, as long   *)
(* as programs only give up priority.                                      *)
THEOREM IdleIsLastResort == ASSUME Gentle PROVE Spec => IdleOnlyWhenNoneRunnable
<1>1. IInv' /\ [Next]_vars
        => [current # 0 /\ current' = 0 => \A t \in Task : state'[t] # "RUNNING"]_vars
  BY IdleStep
<1> QED
  BY <1>1, InvCorrect, PTL DEF Spec, IdleOnlyWhenNoneRunnable
=============================================================================
