-------------------------- MODULE WaitQueueProofs --------------------------
(***************************************************************************)
(* Safety of the wait queues of module WaitQueue for any number of tasks   *)
(* and of locks: every type is kept, no set of sleepers is ever cut off    *)
(* from its queue, and a free lock with sleepers has a wakeup on its way.  *)
(***************************************************************************)
EXTENDS WaitQueue, TLAPS

-----------------------------------------------------------------------------
(* Waking a task, through whatever pointer, yields task states again.      *)
LEMMA WakeType ==
  ASSUME NEW s \in [Task -> States], NEW p
  PROVE  Wake(s, p) \in [Task -> States]
BY DEF Wake, States

(* Entering sleep_on() keeps the types of everything it assigns.           *)
LEMMA SleepOnType ==
  ASSUME TypeOK, NEW s \in [Task -> States], NEW t \in Task, NEW q \in Queue,
         NEW l \in BOOLEAN, sleep_on(s, t, q, l)
  PROVE  /\ state' \in [Task -> States]
         /\ at' \in [Task -> Queue \cup {"none", "pause", "dead"}]
         /\ lock' \in [Task -> BOOLEAN]
         /\ tmp' \in [Task -> Task \cup {NoTask}]
         /\ head' \in [Queue -> Task \cup {NoTask}]
<1>1. head[q] \in Task \cup {NoTask}
  BY DEF TypeOK
<1>2. state' \in [Task -> States]
  BY DEF sleep_on, States
<1>3. at' \in [Task -> Queue \cup {"none", "pause", "dead"}]
  BY DEF sleep_on, TypeOK
<1>4. lock' \in [Task -> BOOLEAN]
  BY DEF sleep_on, TypeOK
<1>5. tmp' \in [Task -> Task \cup {NoTask}]
  BY <1>1 DEF sleep_on, TypeOK
<1>6. head' \in [Queue -> Task \cup {NoTask}]
  BY DEF sleep_on, TypeOK
<1> QED
  BY <1>2, <1>3, <1>4, <1>5, <1>6

(* Every step of the kernel keeps the types of all variables.              *)
LEMMA TypeStep == TypeOK /\ [Next]_vars => TypeOK'
<1> SUFFICES ASSUME TypeOK, [Next]_vars PROVE TypeOK'
  OBVIOUS
<1> USE DEF TypeOK
<1>1. \A p : Wake(state, p) \in [Task -> States]
  BY WakeType
<1>2. ASSUME NEW t \in Task, NEW q \in Queue, Lock(t, q) PROVE TypeOK'
  <2>1. CASE holder[q] = NoTask
    BY <1>2, <2>1 DEF Lock, TakeLock
  <2>2. CASE holder[q] # NoTask
    <3>1. sleep_on(state, t, q, TRUE) /\ UNCHANGED <<holder, signal, hung>>
      BY <1>2, <2>2 DEF Lock
    <3> QED
      BY <3>1, SleepOnType
  <2> QED
    BY <2>1, <2>2
<1>3. CASE \E t \in Task, q \in Queue : WaitOn(t, q)
  BY <1>3, SleepOnType DEF WaitOn
<1>4. CASE \E t \in Task, q \in OwnedLock : Unlock(t, q)
  BY <1>1, <1>4 DEF Unlock, wake_up, Queue
<1>5. CASE \E q \in IoLock : EndRequest(q)
  BY <1>1, <1>5 DEF EndRequest, wake_up, Queue
<1>6. ASSUME NEW t \in Task, Resume(t) PROVE TypeOK'
  <2> DEFINE q == at[t]
             s == WakeNext(state, t)
  <2>1. q \in Queue /\ s \in [Task -> States]
    BY <1>6, WakeType DEF Resume, WakeNext
  <2>2. CASE holder[q] # NoTask
    <3>1. sleep_on(s, t, q, lock[t]) /\ UNCHANGED <<holder, signal, hung>>
      BY <1>6, <2>2 DEF Resume
    <3>2. lock[t] \in BOOLEAN
      OBVIOUS
    <3> HIDE DEF q, s
    <3> QED
      BY <2>1, <3>1, <3>2, SleepOnType
  <2>3. CASE holder[q] = NoTask
    <3>1. holder' \in [Queue -> Task \cup {NoTask, Device}]
      BY <1>6, <2>1, <2>3 DEF Resume, TakeLock
    <3>2. state' = s
      BY <1>6, <2>3 DEF Resume
    <3>3. /\ at' \in [Task -> Queue \cup {"none", "pause", "dead"}]
          /\ lock' \in [Task -> BOOLEAN]
          /\ tmp' \in [Task -> Task \cup {NoTask}]
          /\ UNCHANGED <<head, signal, hung>>
      BY <1>6, <2>3 DEF Resume
    <3> HIDE DEF s
    <3> QED
      BY <2>1, <3>1, <3>2, <3>3
  <2> QED
    BY <2>2, <2>3
<1>7. CASE \E t \in Task : Pause(t) \/ PauseReturn(t) \/ SendSig(t) \/ Exit(t) \/ ZombieRuns(t)
  BY <1>7 DEF States, Pause, PauseReturn, SendSig, Exit, ZombieRuns
<1>8. CASE \E f, t \in Task : Release(f, t) \/ Fork(f, t)
  BY <1>8 DEF States, Release, Fork
<1>9. CASE UNCHANGED vars
  BY <1>9 DEF vars
<1> QED
  BY <1>2, <1>3, <1>4, <1>5, <1>6, <1>7, <1>8, <1>9 DEF Next, Hang

(* Every variable keeps its type.                                          *)
THEOREM TypeCorrect == Spec => []TypeOK
<1>1. Init => TypeOK
  BY DEF Init, TypeOK, States
<1> QED
  BY <1>1, TypeStep, PTL DEF Spec

-----------------------------------------------------------------------------
(* A task inside sleep_on() is either blocked or on its way out.           *)
FrameAlive ==
  \A t \in Task : at[t] \in Queue => state[t] \in {"RUNNING", "UNINTERRUPTIBLE"}

(* wake_up() has made the head of the queue of a free lock runnable.       *)
FreeHeadRuns ==
  \A q \in Queue : holder[q] = NoTask => head[q] \notin Blocked(q)

(* The inductive invariant.                                                *)
IInv == TypeOK /\ FrameAlive /\ NoSleeperCutOff /\ FreeHeadRuns

(* What a step may do to a queue that it does not push a task on.          *)
Quiet(q) ==
  /\ InFrame(q)' = InFrame(q)
  /\ Blocked(q)' \subseteq Blocked(q)
  /\ head'[q] = head[q]
  /\ \A u \in InFrame(q) : tmp'[u] = tmp[u]

(* Such a step cuts nobody off.                                            *)
LEMMA QuietStep ==
  ASSUME NEW q, Linked(q), Quiet(q)
  PROVE  Linked(q)'
BY DEF Linked, Quiet

(* Nor does a task that enters sleep_on() for the first time, or enters it *)
(* again after it has woken the task its old tmp names.                    *)
LEMMA SleepStep ==
  ASSUME TypeOK, NoSleeperCutOff,
         NEW s \in [Task -> States], NEW t \in Task, NEW q \in Queue, NEW l,
         sleep_on(s, t, q, l),
         at[t] \in {"none", q},
         \A v \in Task : s[v] = "UNINTERRUPTIBLE" => state[v] = "UNINTERRUPTIBLE",
         at[t] = q /\ tmp[t] \in Task => s[tmp[t]] # "UNINTERRUPTIBLE"
  PROVE  NoSleeperCutOff'
<1> SUFFICES ASSUME NEW r \in Queue PROVE Linked(r)'
  BY DEF NoSleeperCutOff
<1>1. /\ \A v \in Task : tmp'[v] = IF v = t THEN head[q] ELSE tmp[v]
      /\ \A v \in Task : at'[v] = IF v = t THEN q ELSE at[v]
      /\ \A v \in Task : state'[v] = IF v = t THEN "UNINTERRUPTIBLE" ELSE s[v]
      /\ head'[q] = t
      /\ \A x \in Queue : x # q => head'[x] = head[x]
  BY DEF sleep_on, TypeOK
<1>2. Linked(r)
  BY DEF NoSleeperCutOff
<1>3. CASE r # q
  <2>1. "none" \notin Queue
    BY ConstantsDistinct
  <2>2. Quiet(r)
    BY <1>1, <1>3, <2>1 DEF Quiet, InFrame, Blocked
  <2> QED
    BY <1>2, <2>2, QuietStep
<1>4. CASE r = q
  <2> SUFFICES ASSUME NEW S \in SUBSET Blocked(q)', S # {}, t \notin S
               PROVE  \E u \in InFrame(q)' \ S : tmp'[u] \in S
    BY <1>1, <1>4 DEF Linked
  <2>1. S \subseteq Blocked(q) /\ \A v \in S : s[v] = "UNINTERRUPTIBLE"
    BY <1>1 DEF Blocked, InFrame
  <2>2. t \in InFrame(q)'
    BY <1>1 DEF InFrame
  <2>3. CASE head[q] \in S
    BY <1>1, <2>2, <2>3
  <2>4. CASE head[q] \notin S
    <3>1. PICK u \in InFrame(q) \ S : tmp[u] \in S
      BY <1>2, <1>4, <2>1, <2>4 DEF Linked
    <3>2. u # t
      BY <2>1, <3>1 DEF InFrame, Blocked
    <3> QED
      BY <1>1, <3>1, <3>2 DEF InFrame
  <2> QED
    BY <2>3, <2>4
<1> QED
  BY <1>3, <1>4

(* What a wakeup does to a task: nothing, or it makes it runnable; the one *)
(* the pointer names is not left blocked.                                  *)
LEMMA WakeEffect ==
  ASSUME NEW s \in [Task -> States], NEW p
  PROVE  /\ \A v \in Task : Wake(s, p)[v] \in {s[v], "RUNNING"}
         /\ p \in Task => Wake(s, p)[p] # "UNINTERRUPTIBLE"
BY DEF Wake

(* unlock_x() keeps the invariant: the head of the freed queue is woken    *)
(* and no other queue gains a blocked task.                                *)
LEMMA UnlockStep ==
  ASSUME IInv, NEW q \in Queue,
         holder' = [holder EXCEPT ![q] = NoTask],
         state' = wake_up(state, q),
         UNCHANGED <<at, tmp, head>>
  PROVE  FrameAlive' /\ NoSleeperCutOff' /\ FreeHeadRuns'
<1>1. /\ \A v \in Task : state'[v] \in {state[v], "RUNNING"}
      /\ head[q] \in Task => state'[head[q]] # "UNINTERRUPTIBLE"
  BY WakeEffect DEF IInv, TypeOK, wake_up
<1>2. FrameAlive'
  BY <1>1 DEF IInv, FrameAlive
<1>3. \A r \in Queue : Quiet(r)
  BY <1>1 DEF Quiet, InFrame, Blocked
<1>4. NoSleeperCutOff'
  BY <1>3, QuietStep DEF IInv, NoSleeperCutOff
<1>5. FreeHeadRuns'
  <2> SUFFICES ASSUME NEW r \in Queue, holder'[r] = NoTask
               PROVE  head'[r] \notin Blocked(r)'
    BY DEF FreeHeadRuns
  <2>1. CASE r = q
    BY <1>1, <2>1 DEF Blocked, InFrame
  <2>2. CASE r # q
    <3>1. holder[r] = NoTask
      BY <2>2 DEF IInv, TypeOK
    <3> QED
      BY <1>3, <3>1 DEF Quiet, IInv, FreeHeadRuns
  <2> QED
    BY <2>1, <2>2
<1> QED
  BY <1>2, <1>4, <1>5

(* Neither do the steps in which a task that is in no sleep_on() frame     *)
(* changes its state, or a signal does.                                    *)
LEMMA OutsideStep ==
  ASSUME IInv, NEW t \in Task,
         \A v \in Task : v # t => state'[v] = state[v],
         \A v \in Task : v # t => at'[v] = at[v],
         \/ at[t] \notin Queue /\ at'[t] \notin Queue
         \/ at'[t] = at[t] /\ state'[t] = state[t],
         UNCHANGED <<tmp, head, holder>>
  PROVE  FrameAlive' /\ NoSleeperCutOff' /\ FreeHeadRuns'
<1>1. FrameAlive'
  BY DEF IInv, FrameAlive
<1>2. \A r \in Queue : Quiet(r)
  BY DEF Quiet, InFrame, Blocked
<1>3. NoSleeperCutOff'
  BY <1>2, QuietStep DEF IInv, NoSleeperCutOff
<1>4. FreeHeadRuns'
  BY <1>2 DEF IInv, FreeHeadRuns, Quiet
<1> QED
  BY <1>1, <1>3, <1>4

(* A task goes to sleep, for the first time or again; the queue it pushes  *)
(* itself on belongs to a lock that is held.                               *)
LEMMA PushStep ==
  ASSUME IInv, NEW s \in [Task -> States], NEW t \in Task, NEW q \in Queue, NEW l,
         sleep_on(s, t, q, l), holder[q] # NoTask, UNCHANGED holder,
         at[t] \in {"none", q},
         \A v \in Task : s[v] \in {state[v], "RUNNING"},
         at[t] = q /\ tmp[t] \in Task => s[tmp[t]] # "UNINTERRUPTIBLE"
  PROVE  FrameAlive' /\ NoSleeperCutOff' /\ FreeHeadRuns'
<1>1. NoSleeperCutOff'
  BY SleepStep DEF IInv
<1>2. /\ \A v \in Task : at'[v] = IF v = t THEN q ELSE at[v]
      /\ \A v \in Task : state'[v] = IF v = t THEN "UNINTERRUPTIBLE" ELSE s[v]
      /\ \A x \in Queue : x # q => head'[x] = head[x]
  BY DEF sleep_on, IInv, TypeOK
<1>3. FrameAlive'
  BY <1>2 DEF IInv, FrameAlive
<1>4. FreeHeadRuns'
  <2> SUFFICES ASSUME NEW r \in Queue, holder'[r] = NoTask
               PROVE  head'[r] \notin Blocked(r)'
    BY DEF FreeHeadRuns
  <2>1. r # q /\ head'[r] = head[r] /\ head[r] \notin Blocked(r)
    BY <1>2 DEF IInv, FreeHeadRuns
  <2>2. Blocked(r)' \subseteq Blocked(r)
    BY <1>2, <2>1 DEF Blocked, InFrame
  <2> QED
    BY <2>1, <2>2
<1> QED
  BY <1>1, <1>3, <1>4

(* A task leaves sleep_on() for good, after waking the task its tmp names. *)
LEMMA LeaveStep ==
  ASSUME IInv, NEW t \in Task, NEW q \in Queue,
         at[t] = q, holder[q] = NoTask,
         state' = WakeNext(state, t),
         at' = [at EXCEPT ![t] = "none"],
         tmp' = [tmp EXCEPT ![t] = NoTask],
         UNCHANGED head,
         \A r \in Queue : holder'[r] = NoTask => holder[r] = NoTask
  PROVE  FrameAlive' /\ NoSleeperCutOff' /\ FreeHeadRuns'
<1>1. /\ \A v \in Task : state'[v] \in {state[v], "RUNNING"}
      /\ tmp[t] \in Task => state'[tmp[t]] # "UNINTERRUPTIBLE"
  BY WakeEffect DEF IInv, TypeOK, WakeNext
<1>2. /\ \A v \in Task : at'[v] = IF v = t THEN "none" ELSE at[v]
      /\ \A v \in Task : v # t => tmp'[v] = tmp[v]
      /\ "none" \notin Queue
  BY ConstantsDistinct DEF IInv, TypeOK
<1>3. \A r \in Queue : Blocked(r)' \subseteq Blocked(r)
  BY <1>1, <1>2 DEF Blocked, InFrame
<1>4. FrameAlive'
  BY <1>1, <1>2 DEF IInv, FrameAlive
<1>5. NoSleeperCutOff'
  <2> SUFFICES ASSUME NEW r \in Queue PROVE Linked(r)'
    BY DEF NoSleeperCutOff
  <2>1. Linked(r)
    BY DEF IInv, NoSleeperCutOff
  <2>2. CASE r # q
    <3>1. Quiet(r)
      BY <1>2, <1>3, <2>2 DEF Quiet, InFrame
    <3> QED
      BY <2>1, <3>1, QuietStep
  <2>3. CASE r = q
    <3> SUFFICES ASSUME NEW S \in SUBSET Blocked(q)', S # {}, head[q] \notin S
                 PROVE  \E u \in InFrame(q)' \ S : tmp'[u] \in S
      BY <2>3 DEF Linked
    <3>1. PICK u \in InFrame(q) \ S : tmp[u] \in S
      BY <1>3, <2>1, <2>3 DEF Linked
    <3>2. u # t
      BY <1>1, <3>1 DEF Blocked, InFrame
    <3> QED
      BY <1>2, <3>1, <3>2 DEF InFrame
  <2> QED
    BY <2>2, <2>3
<1>6. FreeHeadRuns'
  BY <1>3 DEF IInv, FreeHeadRuns
<1> QED
  BY <1>4, <1>5, <1>6

-----------------------------------------------------------------------------
(* Every step of the kernel keeps the inductive invariant.                 *)
LEMMA InvStep == IInv /\ [Next]_vars => IInv'
<1> SUFFICES ASSUME IInv, [Next]_vars PROVE FrameAlive' /\ NoSleeperCutOff' /\ FreeHeadRuns'
  BY TypeStep DEF IInv
<1>t. TypeOK /\ state \in [Task -> States]
  BY DEF IInv, TypeOK
<1>c. {"none", "pause", "dead"} \cap Queue = {} /\ Device # NoTask /\ NoTask \notin Task
  BY ConstantsDistinct
<1>1. ASSUME NEW t \in Task, NEW q \in Queue, Lock(t, q)
      PROVE  FrameAlive' /\ NoSleeperCutOff' /\ FreeHeadRuns'
  <2>1. CASE holder[q] # NoTask
    <3>1. sleep_on(state, t, q, TRUE) /\ UNCHANGED holder /\ at[t] = "none"
      BY <1>1, <2>1 DEF Lock, InUser
    <3> QED
      BY <1>c, <1>t, <2>1, <3>1, PushStep
  <2>2. CASE holder[q] = NoTask
    <3>1. UNCHANGED <<state, at, tmp, head>> /\ TakeLock(t, q)
      BY <1>1, <2>2 DEF Lock
    <3>2. \A r \in Queue : holder'[r] = NoTask => holder[r] = NoTask
      BY <1>c, <1>t, <3>1 DEF TakeLock, TypeOK
    <3>3. FreeHeadRuns'
      BY <3>1, <3>2 DEF IInv, FreeHeadRuns, Blocked, InFrame
    <3> QED
      BY <3>1, <3>3 DEF IInv, FrameAlive, NoSleeperCutOff, Linked, Blocked, InFrame
  <2> QED
    BY <2>1, <2>2
<1>2. ASSUME NEW t \in Task, NEW q \in Queue, WaitOn(t, q)
      PROVE  FrameAlive' /\ NoSleeperCutOff' /\ FreeHeadRuns'
  <2>1. /\ sleep_on(state, t, q, FALSE) /\ UNCHANGED holder
        /\ at[t] = "none" /\ holder[q] # NoTask
    BY <1>2 DEF WaitOn, InUser
  <2> QED
    BY <1>c, <1>t, <2>1, PushStep
<1>3. ASSUME NEW t \in Task, Resume(t)
      PROVE  FrameAlive' /\ NoSleeperCutOff' /\ FreeHeadRuns'
  <2> DEFINE q == at[t]
             s == WakeNext(state, t)
  <2>1. q \in Queue /\ s \in [Task -> States]
    BY <1>3, <1>t, WakeType DEF Resume, WakeNext
  <2>2. /\ \A v \in Task : s[v] \in {state[v], "RUNNING"}
        /\ tmp[t] \in Task => s[tmp[t]] # "UNINTERRUPTIBLE"
    BY <1>t, WakeEffect DEF WakeNext
  <2>3. CASE holder[q] # NoTask
    <3>1. sleep_on(s, t, q, lock[t]) /\ UNCHANGED holder
      BY <1>3, <2>3 DEF Resume
    <3>2. at[t] = q
      OBVIOUS
    <3> HIDE DEF q, s
    <3> QED
      BY <2>1, <2>2, <2>3, <3>1, <3>2, PushStep
  <2>4. CASE holder[q] = NoTask
    <3>1. /\ state' = WakeNext(state, t)
          /\ at' = [at EXCEPT ![t] = "none"]
          /\ tmp' = [tmp EXCEPT ![t] = NoTask]
          /\ UNCHANGED head
          /\ TakeLock(t, q) \/ UNCHANGED holder
      BY <1>3, <2>4 DEF Resume
    <3>2. \A r \in Queue : holder'[r] = NoTask => holder[r] = NoTask
      BY <1>c, <1>t, <3>1 DEF TakeLock, TypeOK
    <3> QED
      BY <2>1, <2>4, <3>1, <3>2, LeaveStep
  <2> QED
    BY <2>3, <2>4
<1>4. ASSUME NEW t \in Task, NEW q \in OwnedLock, Unlock(t, q)
      PROVE  FrameAlive' /\ NoSleeperCutOff' /\ FreeHeadRuns'
  BY <1>4, UnlockStep DEF Unlock, Queue
<1>5. ASSUME NEW q \in IoLock, EndRequest(q)
      PROVE  FrameAlive' /\ NoSleeperCutOff' /\ FreeHeadRuns'
  BY <1>5, UnlockStep DEF EndRequest, Queue
<1>6. ASSUME NEW t \in Task,
             Pause(t) \/ PauseReturn(t) \/ SendSig(t) \/ Exit(t) \/ ZombieRuns(t)
      PROVE  FrameAlive' /\ NoSleeperCutOff' /\ FreeHeadRuns'
  <2>1. /\ \A v \in Task : v # t => state'[v] = state[v] /\ at'[v] = at[v]
        /\ UNCHANGED <<tmp, head, holder>>
    BY <1>6, <1>t DEF TypeOK, Pause, PauseReturn, SendSig, Exit, ZombieRuns
  <2>2. \/ at[t] \notin Queue /\ at'[t] \notin Queue
        \/ at'[t] = at[t] /\ state'[t] = state[t]
    <3>1. CASE SendSig(t)
      BY <1>t, <3>1 DEF SendSig, IInv, FrameAlive, TypeOK
    <3>2. CASE ~SendSig(t)
      BY <1>6, <1>c, <1>t, <3>2
      DEF TypeOK, Pause, PauseReturn, Exit, ZombieRuns, InUser
    <3> QED
      BY <3>1, <3>2
  <2> QED
    BY <2>1, <2>2, OutsideStep
<1>7. ASSUME NEW f \in Task, NEW t \in Task, Release(f, t) \/ Fork(f, t)
      PROVE  FrameAlive' /\ NoSleeperCutOff' /\ FreeHeadRuns'
  <2>1. /\ \A v \in Task : v # t => state'[v] = state[v] /\ at'[v] = at[v]
        /\ UNCHANGED <<tmp, head, holder>>
    BY <1>7, <1>t DEF TypeOK, Release, Fork
  <2>2. at[t] \notin Queue /\ at'[t] \notin Queue
    BY <1>7, <1>c, <1>t DEF TypeOK, Release, Fork, IInv, FrameAlive
  <2> QED
    BY <2>1, <2>2, OutsideStep
<1>8. CASE UNCHANGED vars
  BY <1>8 DEF vars, IInv, FrameAlive, NoSleeperCutOff, Linked, FreeHeadRuns, Blocked, InFrame
<1> QED
  BY <1>1, <1>2, <1>3, <1>4, <1>5, <1>6, <1>7, <1>8 DEF Next, Hang

(* The inductive invariant holds in every reachable state.                 *)
LEMMA InvCorrect == Spec => []IInv
<1>1. Init => IInv
  <2> SUFFICES ASSUME Init PROVE IInv
    OBVIOUS
  <2>1. TypeOK
    BY DEF Init, TypeOK, States
  <2>2. \A q \in Queue : InFrame(q) = {} /\ Blocked(q) = {}
    BY ConstantsDistinct DEF Init, InFrame, Blocked
  <2>3. FrameAlive
    BY ConstantsDistinct DEF Init, FrameAlive
  <2>4. NoSleeperCutOff /\ FreeHeadRuns
    BY <2>2 DEF NoSleeperCutOff, Linked, FreeHeadRuns
  <2> QED
    BY <2>1, <2>3, <2>4 DEF IInv
<1> QED
  BY <1>1, InvStep, PTL DEF Spec

(* One queue pointer and the tmp of the sleep_on() frames always suffice   *)
(* to reach every sleeper, though *p is never cleared.                     *)
THEOREM NobodyCutOff == Spec => []NoSleeperCutOff
BY InvCorrect, PTL DEF IInv

(* A free lock with sleepers always has a runnable task that will wake one *)
(* of them: unlocking loses no wakeup.                                     *)
THEOREM NoLostWakeup == Spec => []FreeLockHasWaker
<1>1. IInv => FreeLockHasWaker
  <2> SUFFICES ASSUME IInv, NEW q \in Queue, holder[q] = NoTask, Blocked(q) # {}
               PROVE  \E u \in InFrame(q) : state[u] = "RUNNING" /\ tmp[u] \in Blocked(q)
    BY DEF FreeLockHasWaker
  <2>1. head[q] \notin Blocked(q)
    BY DEF IInv, FreeHeadRuns
  <2>2. PICK u \in InFrame(q) \ Blocked(q) : tmp[u] \in Blocked(q)
    BY <2>1 DEF IInv, NoSleeperCutOff, Linked
  <2>3. state[u] = "RUNNING"
    BY <2>2 DEF InFrame, Blocked, IInv, FrameAlive
  <2> QED
    BY <2>2, <2>3
<1> QED
  BY <1>1, InvCorrect, PTL
=============================================================================
