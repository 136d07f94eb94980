---------------------------- MODULE ProcessProofs ---------------------------
(***************************************************************************)
(* Proofs about module Process, for any number of slots and any range of   *)
(* pids that is larger: pids are unique, every task has a live father, a   *)
(* session leader leads its own session, and no death goes unnoticed.      *)
(***************************************************************************)
EXTENDS Process, TLAPS, FiniteSetTheorems, WellFoundedInduction

(* A set of natural numbers has a least element.                           *)
LEMMA Least ==
  ASSUME NEW S, S \subseteq Nat, S # {}
  PROVE  \E x \in S : \A y \in S : x <= y
<1> DEFINE R == OpToRel(<, Nat)
<1>1. IsWellFoundedOn(R, Nat)
  BY NatLessThanWellFounded
<1>2. \A x, y \in Nat : <<y, x>> \in R <=> y < x
  BY DEF OpToRel
<1> HIDE DEF R
<1>3. PICK x \in S : \A y \in S : <<y, x>> \notin R
  BY <1>1, WFMin
<1>4. \A y \in S : ~(y < x)
  BY <1>2, <1>3
<1> QED
  BY <1>4

(* There are more pids than slots.                                         *)
LEMMA PidLeft ==
  ASSUME pid \in [Slot -> Pid \cup {0}]
  PROVE  Pid \ PidsInUse # {}
<1> DEFINE pidOf == [t \in Used |-> pid[t]]
<1>1. IsFiniteSet(Slot) /\ Cardinality(Slot) = N /\ IsFiniteSet(Pid) /\ Cardinality(Pid) = MaxPid
  BY FS_Interval, ProcessAssumption DEF Slot, Pid
<1>2. IsFiniteSet(Used) /\ Cardinality(Used) <= N
  BY <1>1, FS_Subset DEF Used
<1>3. pidOf \in Surjection(Used, PidsInUse)
  BY DEF Surjection, PidsInUse
<1>4. IsFiniteSet(PidsInUse) /\ Cardinality(PidsInUse) <= Cardinality(Used)
  BY <1>2, <1>3, FS_Surjection
<1>5. Cardinality(Used) \in Nat /\ Cardinality(PidsInUse) \in Nat
  BY <1>2, <1>4, FS_CardinalityType
<1>6. Pid \subseteq PidsInUse => MaxPid <= Cardinality(PidsInUse)
  BY <1>1, <1>4, FS_Subset
<1> QED
  BY <1>2, <1>4, <1>5, <1>6, ProcessAssumption

(* find_empty_process() finds a pid that no task has.                      *)
LEMMA NextPidIsNew ==
  ASSUME pid \in [Slot -> Pid \cup {0}], last_pid \in Pid
  PROVE  NextPid \in Pid \ PidsInUse
<1> DEFINE free == Pid \ PidsInUse
           distance(p) == (p - last_pid - 1) % MaxPid
           S == {distance(p) : p \in free}
<1>1. MaxPid \in Nat \ {0} /\ free \subseteq Int /\ last_pid \in Int
  BY ProcessAssumption DEF Pid
<1>2. S \subseteq Nat
  BY <1>1
<1>3. S # {}
  BY PidLeft
<1>4. PICK d \in S : \A e \in S : d <= e
  BY <1>2, <1>3, Least
<1>5. \E p \in free : \A q \in free : distance(p) <= distance(q)
  BY <1>4
<1> QED
  BY <1>5 DEF NextPid

-----------------------------------------------------------------------------
(* Type correctness *)

LEMMA ConstantsType ==
  /\ Slot \subseteq Int /\ Pid \subseteq Int /\ init \in Slot
  /\ Signals \subseteq Int /\ Signal \subseteq Int
  /\ SIGHUP \in Signal /\ SIGCHLD \in Signal /\ SIGHUP # SIGCHLD
  /\ Signals \subseteq Signal
  /\ 1 \in Pid /\ Pid \subseteq 1 .. MaxPid /\ 0 \notin Pid
  /\ WaitArgs \subseteq Int
BY ProcessAssumption DEF Slot, Pid, init, Signal, SIGHUP, SIGCHLD

(* The next two lemmas are about pieces that several actions share.        *)
LEMMA SyscallEndsType ==
  ASSUME NEW t \in Slot, NEW place \in [Slot -> {"user", "return", "wait", "exit"}],
         SyscallEnds(t, place)
  PROVE  /\ pc' \in [Slot -> {"user", "return", "wait", "exit"}]
         /\ pc'[t] \in {"user", "return"}
         /\ \A u \in Slot \ {t} : pc'[u] = place[u]
BY DEF SyscallEnds

(* Among some zombies there is a last one.                                 *)
LEMMA Greatest ==
  ASSUME NEW S, S \subseteq Slot, S # {}
  PROVE  \E x \in S : \A y \in S : y <= x
<1> DEFINE D == {N - x : x \in S}
<1>1. N \in Nat /\ S \subseteq Int /\ \A x \in S : x <= N
  BY ProcessAssumption DEF Slot
<1>2. D \subseteq Nat
  <2>1. \A x \in S : N - x \in Nat
    BY <1>1
  <2> QED
    BY <2>1, Zenon
<1>6. D # {}
  OBVIOUS
<1>3. PICK d \in D : \A e \in D : d <= e
  BY <1>2, <1>6, Least
<1>4. PICK x \in S : d = N - x
  OBVIOUS
<1>5. \A y \in S : N - x <= N - y
  BY <1>3, <1>4
<1> QED
  BY <1>1, <1>5

(* The three ways a scan of task[] ends.                                   *)
Buries(t, u, sig) ==
  /\ state' = [state EXCEPT ![u] = "FREE"]
  /\ signal' = [sig EXCEPT ![u] = {}]
  /\ Empty(u)
  /\ SyscallEnds(t, [pc EXCEPT ![u] = "user"])
  /\ arg' = [arg EXCEPT ![t] = 0]

GoesToSleep(t, p, sig) ==
  /\ Zombies(Waited(t, p)) = {}
  /\ state' = [state EXCEPT ![t] = "INTERRUPTIBLE"]
  /\ pc' = [pc EXCEPT ![t] = "wait"]
  /\ arg' = [arg EXCEPT ![t] = p]
  /\ signal' = sig
  /\ UNCHANGED ids

HasNobody(t, sig) ==
  /\ arg' = [arg EXCEPT ![t] = 0]
  /\ signal' = sig
  /\ UNCHANGED <<state, ids>>
  /\ SyscallEnds(t, pc)

LEMMA ScanCases ==
  ASSUME NEW t, NEW p, NEW sig, Scan(t, p, sig)
  PROVE  \/ \E u \in Zombies(Waited(t, p)) : Buries(t, u, sig)
         \/ GoesToSleep(t, p, sig)
         \/ HasNobody(t, sig)
<1> DEFINE Z == Zombies(Waited(t, p))
           last == CHOOSE v \in Z : \A w \in Z : w <= v
<1>1. CASE Z # {} /\ Buries(t, last, sig)
  <2>1. Z \subseteq Slot
    BY DEF Zombies, Waited, Children, Used
  <2>2. last \in Z
    BY <1>1, <2>1, Greatest
  <2> QED
    BY <1>1, <2>2
<1>2. CASE GoesToSleep(t, p, sig)
  BY <1>2
<1>3. CASE HasNobody(t, sig)
  BY <1>3
<1> QED
  BY <1>1, <1>2, <1>3 DEF Scan, Buries, GoesToSleep, HasNobody

LEMMA ScanType ==
  ASSUME TypeOK, NEW t \in Slot, NEW p \in WaitArgs \cup {0},
         NEW sig \in [Slot -> SUBSET Signal], Scan(t, p, sig), last_pid' = last_pid
  PROVE  TypeOK'
<1> USE DEF TypeOK
<1>1. ASSUME NEW u \in Zombies(Waited(t, p)), Buries(t, u, sig)
      PROVE  TypeOK'
  <2>1. u \in Slot
    BY DEF Zombies, Waited, Children, Used
  <2>2. [pc EXCEPT ![u] = "user"] \in [Slot -> {"user", "return", "wait", "exit"}]
    BY <2>1
  <2>3. pc' \in [Slot -> {"user", "return", "wait", "exit"}]
    BY <1>1, <2>2, SyscallEndsType DEF Buries
  <2> QED
    BY <1>1, <2>1, <2>3 DEF Buries, Empty
<1>2. CASE GoesToSleep(t, p, sig)
  BY <1>2 DEF GoesToSleep, ids
<1>3. CASE HasNobody(t, sig)
  BY <1>3, SyscallEndsType DEF HasNobody, ids
<1> QED
  BY <1>1, <1>2, <1>3, ScanCases

(* The slot that find_empty_process() takes.                               *)
EmptySlot == CHOOSE u \in Slot \ Used : \A v \in Slot \ Used : u <= v

Forks(t, n) ==
  /\ last_pid' = NextPid
  /\ state' = [state EXCEPT ![n] = "RUNNING"]
  /\ pid' = [pid EXCEPT ![n] = last_pid']
  /\ father' = [father EXCEPT ![n] = pid[t]]
  /\ pgrp' = [pgrp EXCEPT ![n] = pgrp[t]]
  /\ session' = [session EXCEPT ![n] = session[t]]
  /\ leader' = [leader EXCEPT ![n] = FALSE]
  /\ signal' = [signal EXCEPT ![n] = {}]
  /\ SyscallEnds(t, pc)
  /\ UNCHANGED arg

LEMMA ForkCases ==
  ASSUME NEW t \in Slot, sys_fork(t)
  PROVE  \/ last_pid' = NextPid /\ SyscallEnds(t, pc) /\ UNCHANGED <<state, ids, signal, arg>>
         \/ \E n \in Slot \ Used : Forks(t, n)
<1>1. CASE UNCHANGED <<state, ids, signal>>
  BY <1>1 DEF sys_fork
<1>2. CASE Used # Slot /\ Forks(t, EmptySlot)
  <2>1. Slot \ Used \subseteq Nat /\ Slot \ Used # {}
    BY <1>2 DEF Used, Slot
  <2>2. EmptySlot \in Slot \ Used
    BY <2>1, Least DEF EmptySlot
  <2> QED
    BY <1>2, <2>2
<1> QED
  BY <1>1, <1>2 DEF sys_fork, Forks, EmptySlot

(* A signal that is pending has a lowest one.                              *)
LEMMA LowestIn ==
  ASSUME NEW S \in SUBSET Signal, S # {}
  PROVE  Lowest(S) \in S
<1>1. S \subseteq Nat
  BY ProcessAssumption DEF Signal, SIGHUP, SIGCHLD
<1> QED
  BY <1>1, Least DEF Lowest

LEMMA ExitStartsType ==
  ASSUME TypeOK, NEW t \in Slot, NEW sig \in [Slot -> SUBSET Signal], ExitStarts(t, sig)
  PROVE  /\ father' \in [Slot -> Pid \cup {0}]
         /\ signal' \in [Slot -> SUBSET Signal]
         /\ pc' \in [Slot -> {"user", "return", "wait", "exit"}]
BY ConstantsType DEF TypeOK, ExitStarts

LEMMA TypeStep ==
  ASSUME TypeOK, [Next]_vars
  PROVE  TypeOK'
<1> USE DEF TypeOK
<1>1. CASE UNCHANGED vars
  BY <1>1 DEF vars, ids
<1>2. ASSUME NEW t \in Slot, sys_fork(t)
      PROVE  TypeOK'
  <2>1. NextPid \in Pid
    BY NextPidIsNew DEF Pid
  <2>2. CASE last_pid' = NextPid /\ SyscallEnds(t, pc) /\ UNCHANGED <<state, ids, signal, arg>>
    BY <2>1, <2>2, SyscallEndsType DEF ids, Pid
  <2>3. ASSUME NEW n \in Slot \ Used, Forks(t, n)
        PROVE  TypeOK'
    <3>1. pc' \in [Slot -> {"user", "return", "wait", "exit"}]
      BY <2>3, SyscallEndsType DEF Forks
    <3> QED
      BY <2>1, <2>3, <3>1 DEF Forks, Pid
  <2> QED
    BY <1>2, <2>2, <2>3, ForkCases
<1>3. ASSUME NEW t \in Slot, sys_exit(t)
      PROVE  TypeOK'
  BY <1>3, ExitStartsType DEF sys_exit
<1>4. ASSUME NEW t \in Slot, ExitFinishes(t)
      PROVE  TypeOK'
  <2>1. HungUp(t) \in [Slot -> SUBSET Signal]
    BY ConstantsType DEF HungUp
  <2>2. Used \subseteq Slot
    BY DEF Used
  <2>3. CASE \E f \in Used : pid[f] = father[t]
                 /\ signal' = [HungUp(t) EXCEPT ![f] = @ \cup {SIGCHLD}]
                 /\ state' = [state EXCEPT ![t] = "ZOMBIE"]
                 /\ UNCHANGED <<ids, pc>>
    <3>1. signal' \in [Slot -> SUBSET Signal]
      BY <2>1, <2>2, <2>3, ConstantsType
    <3> QED
      BY <1>4, <2>3, <3>1 DEF ids, ExitFinishes
  <2>4. CASE state' = [state EXCEPT ![t] = "FREE"]
             /\ signal' = [HungUp(t) EXCEPT ![t] = {}]
             /\ pc' = [pc EXCEPT ![t] = "user"]
             /\ Empty(t)
    BY <1>4, <2>1, <2>4 DEF Empty, ExitFinishes
  <2> QED
    BY <1>4, <2>3, <2>4 DEF ExitFinishes
<1>5. ASSUME NEW t \in Slot, NEW p \in WaitArgs, sys_waitpid(t, p) \/ WaitNoHang(t, p)
      PROVE  TypeOK'
  BY <1>5, ScanType, SyscallEndsType DEF sys_waitpid, WaitNoHang, ids
<1>6. ASSUME NEW t \in Slot, WaitWakes(t)
      PROVE  TypeOK'
  <2> DEFINE sig == [signal EXCEPT ![t] = @ \ {SIGCHLD}]
  <2>1. sig \in [Slot -> SUBSET Signal]
    OBVIOUS
  <2>2. CASE Scan(t, arg[t], sig)
    BY <1>6, <2>1, <2>2, ScanType DEF WaitWakes
  <2>3. CASE signal' = sig /\ arg' = [arg EXCEPT ![t] = 0]
             /\ UNCHANGED <<state, ids>> /\ SyscallEnds(t, pc)
    BY <1>6, <2>1, <2>3, SyscallEndsType DEF WaitWakes, ids
  <2> QED
    BY <1>6, <2>2, <2>3 DEF WaitWakes
<1>7. ASSUME NEW t \in Slot, Wakeup(t)
      PROVE  TypeOK'
  BY <1>7 DEF Wakeup, ids
<1>8. ASSUME NEW t \in Slot, NEW p \in KillArgs, NEW s \in Signals, sys_kill(t, p, s)
      PROVE  TypeOK'
  BY <1>8, SyscallEndsType, ConstantsType DEF sys_kill, ids
<1>9. ASSUME NEW t \in Slot, Return(t)
      PROVE  TypeOK'
  <2> DEFINE rest == [signal EXCEPT ![t] = @ \ {Lowest(signal[t])}]
  <2>1. rest \in [Slot -> SUBSET Signal]
    OBVIOUS
  <2>2. CASE ExitStarts(t, rest)
    BY <1>9, <2>1, <2>2, ExitStartsType DEF Return
  <2>3. CASE signal' = rest /\ pc' = [pc EXCEPT ![t] = "user"] /\ UNCHANGED father
    BY <1>9, <2>1, <2>3 DEF Return
  <2> QED
    BY <1>9, <2>2, <2>3 DEF Return
<1>10. ASSUME NEW t \in Slot, sys_setsid(t)
       PROVE  TypeOK'
  BY <1>10, SyscallEndsType DEF sys_setsid
<1>11. ASSUME NEW t \in Slot, NEW u \in Slot, NEW g \in Groups, sys_setpgid(t, u, g)
       PROVE  TypeOK'
  BY <1>11, SyscallEndsType, ProcessAssumption DEF sys_setpgid
<1> QED
  BY <1>1, <1>2, <1>3, <1>4, <1>5, <1>6, <1>7, <1>8, <1>9, <1>10, <1>11 DEF Next

(* Every variable keeps its type.                                          *)
THEOREM TypeCorrect == Spec => []TypeOK
<1>1. Init => TypeOK
  BY ConstantsType DEF Init, TypeOK, Pid
<1>2. TypeOK /\ [Next]_vars => TypeOK'
  BY TypeStep
<1> QED
  BY <1>1, <1>2, PTL DEF Spec

-----------------------------------------------------------------------------
(* Pids, leaders and init *)

RealPids == \A t \in Used : pid[t] \in Pid

(* init lives for ever, outside all sessions; no signal but SIGCHLD gets to *)
(* it.                                                                     *)
InitSafe ==
  /\ state[init] \in {"RUNNING", "INTERRUPTIBLE"} /\ pc[init] # "exit"
  /\ pid[init] = 1 /\ session[init] = 0
  /\ signal[init] \subseteq {SIGCHLD}

(* Everything but the family relation.                                     *)
Identity == TypeOK /\ RealPids /\ UniquePids /\ InitSafe /\ LeaderLeads

(* What a burial leaves of Identity: the buried task is not init.          *)
LEMMA BurialKeepsIdentity ==
  ASSUME Identity, TypeOK', NEW t \in Slot, NEW u \in Slot, u # init, Empty(u),
         state' = [state EXCEPT ![u] = "FREE"],
         NEW sig \in [Slot -> SUBSET Signal], signal' = [sig EXCEPT ![u] = {}],
         sig[init] \subseteq {SIGCHLD}, pc'[init] # "exit"
  PROVE  Identity'
<1> USE DEF Identity, TypeOK
<1>1. init \in Slot
  BY ConstantsType
<1>2. Used' = Used \ {u}
  BY DEF Used
<1>3. \A v \in Used' : pid'[v] = pid[v] /\ pgrp'[v] = pgrp[v]
                        /\ session'[v] = session[v] /\ leader'[v] = leader[v]
  BY <1>2 DEF Empty, Used
<1>4. RealPids' /\ UniquePids'
  BY <1>2, <1>3 DEF RealPids, UniquePids
<1>5. LeaderLeads'
  BY <1>2, <1>3 DEF LeaderLeads
<1>6. InitSafe'
  BY <1>1 DEF InitSafe, Empty
<1> QED
  BY <1>4, <1>5, <1>6

(* What a step that leaves the identities of tasks alone must still do.    *)
LEMMA SameIdentity ==
  ASSUME Identity, TypeOK', Used' = Used, UNCHANGED <<pid, pgrp, session, leader>>,
         state'[init] \in {"RUNNING", "INTERRUPTIBLE"}, pc'[init] # "exit",
         signal'[init] \subseteq {SIGCHLD}
  PROVE  Identity'
BY DEF Identity, RealPids, UniquePids, InitSafe, LeaderLeads

LEMMA ScanIdentity ==
  ASSUME Identity, TypeOK', NEW t \in Slot, NEW p \in WaitArgs \cup {0},
         NEW sig \in [Slot -> SUBSET Signal], sig[init] \subseteq {SIGCHLD},
         state[t] = "RUNNING", pc[t] # "exit", Scan(t, p, sig)
  PROVE  Identity'
<1>1. /\ init \in Slot /\ InitSafe
      /\ state \in [Slot -> {"RUNNING", "INTERRUPTIBLE", "ZOMBIE", "FREE"}]
      /\ pc \in [Slot -> {"user", "return", "wait", "exit"}]
  BY ConstantsType DEF Identity, TypeOK
<1>2. ASSUME NEW u \in Zombies(Waited(t, p)), Buries(t, u, sig)
      PROVE  Identity'
  <2>1. u \in Slot /\ u # init
    BY <1>1 DEF Zombies, Waited, Children, Used, InitSafe
  <2>2. [pc EXCEPT ![u] = "user"] \in [Slot -> {"user", "return", "wait", "exit"}]
    BY <1>1
  <2>3. pc'[init] # "exit"
    BY <1>1, <1>2, <2>1, <2>2, SyscallEndsType DEF Buries, InitSafe
  <2> QED
    BY <1>2, <2>1, <2>3, BurialKeepsIdentity DEF Buries
<1>3. CASE GoesToSleep(t, p, sig)
  <2>1. Used' = Used
    BY <1>1, <1>3 DEF GoesToSleep, Used
  <2> QED
    BY <1>1, <1>3, <2>1, SameIdentity DEF GoesToSleep, InitSafe, ids
<1>4. CASE HasNobody(t, sig)
  <2>1. Used' = Used
    BY <1>4 DEF HasNobody, Used
  <2>2. pc'[init] # "exit"
    BY <1>1, <1>4, SyscallEndsType DEF HasNobody, InitSafe
  <2> QED
    BY <1>1, <1>4, <2>1, <2>2, SameIdentity DEF HasNobody, InitSafe, ids
<1> QED
  BY <1>2, <1>3, <1>4, ScanCases

LEMMA ExitStartsIdentity ==
  ASSUME Identity, TypeOK', NEW t \in Slot \ {init}, NEW sig \in [Slot -> SUBSET Signal],
         sig[init] \subseteq {SIGCHLD}, ExitStarts(t, sig),
         UNCHANGED <<state, pid, pgrp, session, leader>>
  PROVE  Identity'
<1>1. init \in Slot /\ InitSafe
      /\ pc \in [Slot -> {"user", "return", "wait", "exit"}]
  BY ConstantsType DEF Identity, TypeOK
<1>2. Used' = Used
  BY DEF Used
<1> QED
  BY <1>1, <1>2, SameIdentity DEF ExitStarts, InitSafe

LEMMA IdentityStep ==
  ASSUME Identity, [Next]_vars
  PROVE  Identity'
<1> USE DEF Identity
<1>0. /\ TypeOK' /\ init \in Slot /\ InitSafe
      /\ state \in [Slot -> {"RUNNING", "INTERRUPTIBLE", "ZOMBIE", "FREE"}]
      /\ pc \in [Slot -> {"user", "return", "wait", "exit"}]
      /\ signal \in [Slot -> SUBSET Signal]
  BY TypeStep, ConstantsType DEF TypeOK
<1>1. CASE UNCHANGED vars
  BY <1>0, <1>1, SameIdentity DEF vars, ids, Used, InitSafe
<1>2. ASSUME NEW t \in Slot, sys_fork(t)
      PROVE  Identity'
  <2>1. CASE SyscallEnds(t, pc) /\ UNCHANGED <<state, ids, signal, arg>>
    BY <1>0, <2>1, SyscallEndsType, SameIdentity DEF ids, Used, InitSafe
  <2>2. ASSUME NEW n \in Slot \ Used, Forks(t, n)
        PROVE  Identity'
    <3> USE DEF TypeOK
    <3>1. last_pid' \in Pid \ PidsInUse
      BY <2>2, NextPidIsNew DEF Forks, Pid
    <3>2. Used' = Used \cup {n} /\ n # init
      BY <1>0, <2>2 DEF Forks, Used, InitSafe
    <3>3. \A u \in Used : pid'[u] = pid[u] /\ pgrp'[u] = pgrp[u]
                           /\ session'[u] = session[u] /\ leader'[u] = leader[u]
      BY <2>2 DEF Forks, Used
    <3>4. pid'[n] = last_pid' /\ leader'[n] = FALSE
      BY <2>2 DEF Forks
    <3>5. \A u \in Used : pid[u] # last_pid'
      BY <3>1 DEF PidsInUse
    <3>6. RealPids'
      BY <3>1, <3>2, <3>3, <3>4 DEF RealPids
    <3>7. UniquePids'
      BY <3>2, <3>3, <3>4, <3>5 DEF UniquePids
    <3>8. LeaderLeads'
      BY <3>2, <3>3, <3>4 DEF LeaderLeads
    <3>9. pc'[init] # "exit"
      BY <1>0, <2>2, SyscallEndsType DEF Forks, InitSafe
    <3>10. InitSafe'
      BY <1>0, <2>2, <3>2, <3>9 DEF Forks, InitSafe
    <3> QED
      BY <1>0, <3>6, <3>7, <3>8, <3>10
  <2> QED
    BY <1>2, <2>1, <2>2, ForkCases
<1>3. ASSUME NEW t \in Slot, sys_exit(t)
      PROVE  Identity'
  BY <1>0, <1>3, ExitStartsIdentity DEF sys_exit, InitSafe
<1>4. ASSUME NEW t \in Slot, ExitFinishes(t)
      PROVE  Identity'
  <2>1. t # init /\ t \in Used
    BY <1>0, <1>4 DEF ExitFinishes, InitSafe, Used
  <2>2. ~leader[t] \/ session[init] # session[t]
    BY <1>0, <2>1, ConstantsType DEF LeaderLeads, RealPids, InitSafe
  <2>3. HungUp(t)[init] \subseteq {SIGCHLD} /\ HungUp(t) \in [Slot -> SUBSET Signal]
    BY <1>0, <2>2, ConstantsType DEF HungUp, InitSafe
  <2>4. CASE \E f \in Used : pid[f] = father[t]
                 /\ signal' = [HungUp(t) EXCEPT ![f] = @ \cup {SIGCHLD}]
                 /\ state' = [state EXCEPT ![t] = "ZOMBIE"]
                 /\ UNCHANGED <<ids, pc>>
    <3>1. signal'[init] \subseteq {SIGCHLD}
      BY <1>0, <2>3, <2>4 DEF Used
    <3>2. Used' = Used
      BY <1>0, <2>1, <2>4 DEF Used
    <3> QED
      BY <1>0, <2>1, <2>4, <3>1, <3>2, SameIdentity DEF ids, InitSafe
  <2>5. CASE state' = [state EXCEPT ![t] = "FREE"]
             /\ signal' = [HungUp(t) EXCEPT ![t] = {}]
             /\ pc' = [pc EXCEPT ![t] = "user"]
             /\ Empty(t)
    <3>1. pc'[init] # "exit"
      BY <1>0, <2>5 DEF InitSafe
    <3> QED
      BY <1>0, <2>1, <2>3, <2>5, <3>1, BurialKeepsIdentity
  <2> QED
    BY <1>4, <2>4, <2>5 DEF ExitFinishes
<1>5. ASSUME NEW t \in Slot, NEW p \in WaitArgs, sys_waitpid(t, p)
      PROVE  Identity'
  BY <1>0, <1>5, ScanIdentity DEF sys_waitpid, User, InitSafe
<1>6. ASSUME NEW t \in Slot, NEW p \in WaitArgs, WaitNoHang(t, p)
      PROVE  Identity'
  BY <1>0, <1>6, SyscallEndsType, SameIdentity DEF WaitNoHang, ids, Used, InitSafe
<1>7. ASSUME NEW t \in Slot, WaitWakes(t)
      PROVE  Identity'
  <2> DEFINE sig == [signal EXCEPT ![t] = @ \ {SIGCHLD}]
  <2>1. sig \in [Slot -> SUBSET Signal] /\ sig[init] \subseteq {SIGCHLD}
    BY <1>0 DEF InitSafe
  <2>2. arg[t] \in WaitArgs \cup {0} /\ state[t] = "RUNNING" /\ pc[t] = "wait"
    BY <1>7 DEF WaitWakes, TypeOK
  <2>3. CASE Scan(t, arg[t], sig)
    BY <1>0, <2>1, <2>2, <2>3, ScanIdentity
  <2>4. CASE signal' = sig /\ UNCHANGED <<state, ids>> /\ SyscallEnds(t, pc)
    BY <1>0, <2>1, <2>4, SyscallEndsType, SameIdentity DEF ids, Used, InitSafe
  <2> QED
    BY <1>7, <2>3, <2>4 DEF WaitWakes
<1>8. ASSUME NEW t \in Slot, Wakeup(t)
      PROVE  Identity'
  <2>1. Used' = Used
    BY <1>0, <1>8 DEF Wakeup, Used
  <2> QED
    BY <1>0, <1>8, <2>1, SameIdentity DEF Wakeup, ids, InitSafe
<1>9. ASSUME NEW t \in Slot, NEW p \in KillArgs, NEW s \in Signals, sys_kill(t, p, s)
      PROVE  Identity'
  <2>1. signal'[init] = signal[init]
    BY <1>0, <1>9 DEF sys_kill
  <2> QED
    BY <1>0, <1>9, <2>1, SyscallEndsType, SameIdentity DEF sys_kill, ids, Used, InitSafe
<1>10. ASSUME NEW t \in Slot, Return(t)
       PROVE  Identity'
  <2> DEFINE rest == [signal EXCEPT ![t] = @ \ {Lowest(signal[t])}]
  <2>1. rest \in [Slot -> SUBSET Signal] /\ rest[init] \subseteq {SIGCHLD}
    BY <1>0 DEF InitSafe
  <2>2. UNCHANGED <<state, pid, pgrp, session, leader>>
    BY <1>10 DEF Return
  <2>3. CASE Lowest(signal[t]) # SIGCHLD /\ ExitStarts(t, rest)
    <3>1. Lowest(signal[t]) \in signal[t]
      BY <1>0, <1>10, LowestIn DEF Return
    <3>2. t # init
      BY <1>0, <2>3, <3>1 DEF InitSafe
    <3> QED
      BY <1>0, <2>1, <2>2, <2>3, <3>2, ExitStartsIdentity
  <2>4. CASE signal' = rest /\ pc' = [pc EXCEPT ![t] = "user"]
    <3>1. pc'[init] # "exit"
      BY <1>0, <2>4 DEF InitSafe
    <3> QED
      BY <1>0, <2>1, <2>2, <2>4, <3>1, SameIdentity DEF Used, InitSafe
  <2> QED
    BY <1>10, <2>3, <2>4 DEF Return
<1>11. ASSUME NEW t \in Slot, sys_setsid(t)
       PROVE  Identity'
  <2> USE DEF TypeOK
  <2>1. Used' = Used
    BY <1>11 DEF sys_setsid, Used
  <2>2. RealPids' /\ UniquePids'
    BY <1>11, <2>1 DEF sys_setsid, RealPids, UniquePids
  <2>3. LeaderLeads'
    BY <1>11, <2>1 DEF sys_setsid, LeaderLeads, Used
  <2>4. InitSafe'
    BY <1>0, <1>11, SyscallEndsType DEF sys_setsid, InitSafe
  <2> QED
    BY <1>0, <2>2, <2>3, <2>4
<1>12. ASSUME NEW t \in Slot, NEW u \in Slot, NEW g \in Groups, sys_setpgid(t, u, g)
       PROVE  Identity'
  <2> USE DEF TypeOK
  <2>1. Used' = Used
    BY <1>12 DEF sys_setpgid, Used
  <2>2. RealPids' /\ UniquePids'
    BY <1>12, <2>1 DEF sys_setpgid, RealPids, UniquePids
  <2>3. LeaderLeads'
    BY <1>12, <2>1 DEF sys_setpgid, MayMove, LeaderLeads, Used
  <2>4. InitSafe'
    BY <1>0, <1>12, SyscallEndsType DEF sys_setpgid, InitSafe
  <2> QED
    BY <1>0, <2>2, <2>3, <2>4
<1> QED
  BY <1>1, <1>2, <1>3, <1>4, <1>5, <1>6, <1>7, <1>8, <1>9, <1>10, <1>11, <1>12 DEF Next

THEOREM IdentityKept == Spec => []Identity
<1>1. Init => Identity
  <2> SUFFICES ASSUME Init PROVE Identity
    OBVIOUS
  <2>1. Used = {init} /\ init \in Slot
    BY ConstantsType DEF Init, Used
  <2>2. TypeOK
    BY ConstantsType DEF Init, TypeOK, Pid
  <2>3. InitSafe
    BY <2>1 DEF Init, InitSafe
  <2>4. RealPids /\ UniquePids /\ LeaderLeads
    BY <2>1, ConstantsType DEF Init, RealPids, UniquePids, LeaderLeads
  <2> QED
    BY <2>2, <2>3, <2>4 DEF Identity
<1>2. Identity /\ [Next]_vars => Identity'
  BY IdentityStep
<1> QED
  BY <1>1, <1>2, PTL DEF Spec

(* Pids are never shared, zombies included, however often last_pid wraps.  *)
THEOREM PidsUnique == Spec => []UniquePids
<1>1. Identity => UniquePids
  BY DEF Identity
<1> QED
  BY <1>1, IdentityKept, PTL

(* A session leader stays the leader of the session and the group with its *)
(* pid.                                                                    *)
THEOREM LeadersLead == Spec => []LeaderLeads
<1>1. Identity => LeaderLeads
  BY DEF Identity
<1> QED
  BY <1>1, IdentityKept, PTL

-----------------------------------------------------------------------------
(* Fathers *)

Living == {t \in Used : state[t] # "ZOMBIE" /\ pc[t] # "exit"}

(* Where nobody is born, inherited or taken from the living, fathers stay. *)
LEMMA SameFathers ==
  ASSUME FatherAlive, Living \subseteq Living', Used' \subseteq Used,
         \A f \in Living : pid'[f] = pid[f],
         \A u \in Used' : father'[u] = father[u]
  PROVE  FatherAlive'
<1> SUFFICES ASSUME NEW u \in Used' \ {init}
             PROVE  \E f \in Living' : pid'[f] = father'[u]
  BY DEF FatherAlive, Living
<1>1. PICK f \in Living : pid[f] = father[u]
  BY DEF FatherAlive, Living
<1> QED
  BY <1>1

LEMMA ScanFathers ==
  ASSUME Identity, FatherAlive, NEW t \in Slot, NEW p \in WaitArgs \cup {0},
         NEW sig \in [Slot -> SUBSET Signal],
         state[t] = "RUNNING", pc[t] # "exit", Scan(t, p, sig)
  PROVE  FatherAlive'
<1> USE DEF Identity, TypeOK
<1>1. ASSUME NEW u \in Zombies(Waited(t, p)), Buries(t, u, sig)
      PROVE  FatherAlive'
  <2>1. u \in Slot /\ state[u] = "ZOMBIE"
    BY DEF Zombies, Waited, Children, Used
  <2>2. [pc EXCEPT ![u] = "user"] \in [Slot -> {"user", "return", "wait", "exit"}]
    BY <2>1
  <2>3. \A v \in Slot \ {u} : pc'[v] = "exit" => pc[v] = "exit"
    <3>1. /\ pc'[t] \in {"user", "return"}
          /\ \A v \in Slot \ {t} : pc'[v] = [pc EXCEPT ![u] = "user"][v]
      BY <1>1, <2>2, SyscallEndsType DEF Buries
    <3> QED
      BY <2>1, <3>1
  <2>4. Living \subseteq Living' /\ Used' \subseteq Used
    BY <1>1, <2>1, <2>3 DEF Buries, Living, Used
  <2>5. \A v \in Slot \ {u} : pid'[v] = pid[v] /\ father'[v] = father[v]
    BY <1>1 DEF Buries, Empty
  <2>6. u \notin Living /\ u \notin Used' /\ Living \subseteq Slot /\ Used' \subseteq Slot
    BY <1>1, <2>1 DEF Buries, Living, Used
  <2> QED
    BY <2>4, <2>5, <2>6, SameFathers
<1>2. CASE GoesToSleep(t, p, sig)
  <2>1. Living \subseteq Living' /\ Used' \subseteq Used
    BY <1>2 DEF GoesToSleep, Living, Used
  <2> QED
    BY <1>2, <2>1, SameFathers DEF GoesToSleep, ids
<1>3. CASE HasNobody(t, sig)
  <2>1. \A v \in Slot : pc'[v] = "exit" => pc[v] = "exit"
    BY <1>3, SyscallEndsType DEF HasNobody
  <2>2. Living \subseteq Living' /\ Used' \subseteq Used
    BY <1>3, <2>1 DEF HasNobody, Living, Used
  <2> QED
    BY <1>3, <2>2, SameFathers DEF HasNobody, ids
<1> QED
  BY <1>1, <1>2, <1>3, ScanCases

(* do_exit() gives the children of t to init, which lives.                 *)
LEMMA ExitStartsFathers ==
  ASSUME Identity, FatherAlive, NEW t \in Slot \ {init},
         NEW sig \in [Slot -> SUBSET Signal], ExitStarts(t, sig),
         UNCHANGED <<state, pid>>
  PROVE  FatherAlive'
<1> USE DEF Identity, TypeOK
<1>1. Used' = Used /\ Used \subseteq Slot
  BY DEF Used
<1>2. Living \ {t} \subseteq Living'
  BY DEF ExitStarts, Living, Used
<1>3. init \in Living'
  BY <1>2, ConstantsType DEF InitSafe, Living, Used
<1> SUFFICES ASSUME NEW u \in Used \ {init}
             PROVE  \E f \in Living' : pid'[f] = father'[u]
  BY <1>1 DEF FatherAlive, Living
<1>4. CASE u \in Children(t)
  <2>1. father'[u] = 1
    BY <1>1, <1>4 DEF ExitStarts
  <2> QED
    BY <1>3, <2>1 DEF InitSafe
<1>5. CASE u \notin Children(t)
  <2>1. father'[u] = father[u] /\ father[u] # pid[t]
    BY <1>1, <1>5 DEF ExitStarts, Children
  <2>2. PICK f \in Living : pid[f] = father[u]
    BY DEF FatherAlive, Living
  <2> QED
    BY <1>2, <2>1, <2>2
<1> QED
  BY <1>4, <1>5

LEMMA FatherStep ==
  ASSUME Identity, FatherAlive, [Next]_vars
  PROVE  FatherAlive'
<1>0. /\ init \in Slot /\ InitSafe
      /\ state \in [Slot -> {"RUNNING", "INTERRUPTIBLE", "ZOMBIE", "FREE"}]
      /\ pc \in [Slot -> {"user", "return", "wait", "exit"}]
      /\ signal \in [Slot -> SUBSET Signal]
  BY ConstantsType DEF Identity, TypeOK
<1> USE DEF Living, Used
(* All the calls that change neither the state of a task nor its family.   *)
<1>1. ASSUME UNCHANGED <<state, pid, father>>,
             \A v \in Slot : pc'[v] = "exit" => pc[v] = "exit"
      PROVE  FatherAlive'
  <2>1. Living \subseteq Living' /\ Used' = Used
    BY <1>1
  <2> QED
    BY <1>1, <2>1, SameFathers
<1>2. CASE UNCHANGED vars
  BY <1>1, <1>2 DEF vars, ids
<1>3. ASSUME NEW t \in Slot, sys_fork(t)
      PROVE  FatherAlive'
  <2>1. CASE SyscallEnds(t, pc) /\ UNCHANGED <<state, ids, signal, arg>>
    BY <1>0, <1>1, <2>1, SyscallEndsType DEF ids
  <2>2. ASSUME NEW n \in Slot \ Used, Forks(t, n)
        PROVE  FatherAlive'
    <3>1. \A v \in Slot : pc'[v] = "exit" => pc[v] = "exit"
      BY <1>0, <2>2, SyscallEndsType DEF Forks
    <3>2. Living \subseteq Living' /\ Used' = Used \cup {n}
      BY <1>0, <2>2, <3>1 DEF Forks
    <3>3. \A u \in Used : pid'[u] = pid[u] /\ father'[u] = father[u]
      BY <2>2 DEF Forks, Identity, TypeOK
    <3>4. father'[n] = pid[t]
      BY <2>2 DEF Forks, Identity, TypeOK
    <3>5. t \in Living
      BY <1>3 DEF sys_fork, User
    <3> SUFFICES ASSUME NEW u \in Used' \ {init}
                 PROVE  \E f \in Living' : pid'[f] = father'[u]
      BY DEF FatherAlive
    <3>6. CASE u = n
      <4>1. t \in Living' /\ pid'[t] = father'[u]
        BY <3>2, <3>3, <3>4, <3>5, <3>6
      <4> QED
        BY <4>1
    <3>7. CASE u # n
      <4>1. PICK f \in Living : pid[f] = father[u]
        BY <3>2, <3>7 DEF FatherAlive
      <4> QED
        BY <3>2, <3>3, <3>7, <4>1
    <3> QED
      BY <3>6, <3>7
  <2> QED
    BY <1>3, <2>1, <2>2, ForkCases
<1>4. ASSUME NEW t \in Slot, sys_exit(t)
      PROVE  FatherAlive'
  BY <1>0, <1>4, ExitStartsFathers DEF sys_exit
<1>5. ASSUME NEW t \in Slot, ExitFinishes(t)
      PROVE  FatherAlive'
  <2>1. t \in Used \ {init} /\ t \notin Living
    BY <1>0, <1>5 DEF ExitFinishes, InitSafe
  <2>2. PICK f \in Used : pid[f] = father[t]
    BY <2>1 DEF FatherAlive
  <2>3. state' = [state EXCEPT ![t] = "ZOMBIE"] /\ UNCHANGED <<ids, pc>>
    BY <1>5, <2>2 DEF ExitFinishes
  <2>4. Living \subseteq Living' /\ Used' = Used
    BY <1>0, <2>1, <2>3
  <2> QED
    BY <2>3, <2>4, SameFathers DEF ids
<1>6. ASSUME NEW t \in Slot, NEW p \in WaitArgs, sys_waitpid(t, p)
      PROVE  FatherAlive'
  BY <1>0, <1>6, ScanFathers DEF sys_waitpid, User
<1>7. ASSUME NEW t \in Slot, NEW p \in WaitArgs, WaitNoHang(t, p)
      PROVE  FatherAlive'
  BY <1>0, <1>1, <1>7, SyscallEndsType DEF WaitNoHang, ids
<1>8. ASSUME NEW t \in Slot, WaitWakes(t)
      PROVE  FatherAlive'
  <2> DEFINE sig == [signal EXCEPT ![t] = @ \ {SIGCHLD}]
  <2>1. sig \in [Slot -> SUBSET Signal]
    BY <1>0
  <2>2. arg[t] \in WaitArgs \cup {0} /\ state[t] = "RUNNING" /\ pc[t] = "wait"
    BY <1>8 DEF WaitWakes, Identity, TypeOK
  <2>3. CASE Scan(t, arg[t], sig)
    BY <2>1, <2>2, <2>3, ScanFathers
  <2>4. CASE UNCHANGED <<state, ids>> /\ SyscallEnds(t, pc)
    BY <1>0, <1>1, <2>4, SyscallEndsType DEF ids
  <2> QED
    BY <1>8, <2>3, <2>4 DEF WaitWakes
<1>9. ASSUME NEW t \in Slot, Wakeup(t)
      PROVE  FatherAlive'
  <2>1. Living \subseteq Living' /\ Used' = Used
    BY <1>0, <1>9 DEF Wakeup
  <2> QED
    BY <1>9, <2>1, SameFathers DEF Wakeup, ids
<1>10. ASSUME NEW t \in Slot, NEW p \in KillArgs, NEW s \in Signals, sys_kill(t, p, s)
       PROVE  FatherAlive'
  BY <1>0, <1>1, <1>10, SyscallEndsType DEF sys_kill, ids
<1>11. ASSUME NEW t \in Slot, Return(t)
       PROVE  FatherAlive'
  <2> DEFINE rest == [signal EXCEPT ![t] = @ \ {Lowest(signal[t])}]
  <2>1. rest \in [Slot -> SUBSET Signal] /\ UNCHANGED <<state, pid>>
    BY <1>0, <1>11 DEF Return
  <2>2. CASE Lowest(signal[t]) # SIGCHLD /\ ExitStarts(t, rest)
    <3>1. Lowest(signal[t]) \in signal[t]
      BY <1>0, <1>11, LowestIn DEF Return
    <3>2. t # init
      BY <1>0, <2>2, <3>1 DEF InitSafe
    <3> QED
      BY <2>1, <2>2, <3>2, ExitStartsFathers
  <2>3. CASE pc' = [pc EXCEPT ![t] = "user"] /\ UNCHANGED father
    BY <1>0, <1>1, <2>1, <2>3
  <2> QED
    BY <1>11, <2>2, <2>3 DEF Return
<1>12. ASSUME NEW t \in Slot, sys_setsid(t)
       PROVE  FatherAlive'
  BY <1>0, <1>1, <1>12, SyscallEndsType DEF sys_setsid
<1>13. ASSUME NEW t \in Slot, NEW u \in Slot, NEW g \in Groups, sys_setpgid(t, u, g)
       PROVE  FatherAlive'
  BY <1>0, <1>1, <1>13, SyscallEndsType DEF sys_setpgid
<1> QED
  BY <1>2, <1>3, <1>4, <1>5, <1>6, <1>7, <1>8, <1>9, <1>10, <1>11, <1>12, <1>13 DEF Next

(* tell_father() always finds the father, and finds it before it has given *)
(* its children to init.                                                   *)
THEOREM FathersAlive == Spec => []FatherAlive
<1>1. Init => FatherAlive
  BY DEF Init, FatherAlive, Used
<1>2. Identity /\ FatherAlive /\ [Next]_vars => FatherAlive'
  BY FatherStep
<1> QED
  BY <1>1, <1>2, IdentityKept, PTL DEF Spec

-----------------------------------------------------------------------------
(* Deaths *)

(* t sleeps until a child like u dies, and u is dead.                      *)
Awaits(t, u) ==
  /\ state[t] = "INTERRUPTIBLE"
  /\ u # t /\ state[u] = "ZOMBIE" /\ father[u] = pid[t]
  /\ arg[t] = -1 \/ (arg[t] > 0 /\ pid[u] = arg[t])

Told == \A t, u \in Slot : Awaits(t, u) => SIGCHLD \in signal[t]

LEMMA ToldMeansNoticed ==
  ASSUME TypeOK
  PROVE  Told <=> DeathNoticed
<1>1. \A t \in Slot : arg[t] \in Int
  <2>1. WaitArgs \cup {0} \subseteq Int
    BY ConstantsType
  <2>2. \A t \in Slot : arg[t] \in WaitArgs \cup {0}
    BY DEF TypeOK
  <2> QED
    BY <2>1, <2>2
<1>2. ASSUME NEW t \in Slot, NEW u \in Slot, state[t] = "INTERRUPTIBLE"
      PROVE  Awaits(t, u) <=> /\ arg[t] = -1 \/ arg[t] > 0
                              /\ u \in Zombies(Waited(t, arg[t]))
  <2>1. u \in Zombies(Waited(t, arg[t])) <=>
          /\ state[u] = "ZOMBIE" /\ father[u] = pid[t] /\ u # t /\ Matches(t, u, arg[t])
    BY DEF Zombies, Waited, Children, Used
  <2>2. CASE arg[t] = -1
    <3>1. Matches(t, u, arg[t])
      BY <2>2 DEF Matches
    <3> QED
      BY <1>2, <2>1, <2>2, <3>1 DEF Awaits
  <2>3. CASE arg[t] > 0
    <3>1. Matches(t, u, arg[t]) <=> pid[u] = arg[t]
      BY <1>1, <2>3 DEF Matches
    <3>2. arg[t] # -1
      BY <1>1, <2>3
    <3> QED
      BY <1>2, <2>1, <2>3, <3>1, <3>2 DEF Awaits
  <2>4. CASE ~(arg[t] = -1 \/ arg[t] > 0)
    BY <2>4 DEF Awaits
  <2> QED
    BY <2>2, <2>3, <2>4
<1>3. \A t, u : Awaits(t, u) => state[t] = "INTERRUPTIBLE"
  BY DEF Awaits
<1>4. \A t \in Slot : Zombies(Waited(t, arg[t])) \subseteq Slot
  BY DEF Zombies, Waited, Children, Used
<1> QED
  BY <1>2, <1>3, <1>4 DEF Told, DeathNoticed

LEMMA ScanTold ==
  ASSUME Identity, Told, NEW a \in Slot, NEW p \in WaitArgs \cup {0},
         NEW sig \in [Slot -> SUBSET Signal], \A t \in Slot \ {a} : sig[t] = signal[t],
         state[a] = "RUNNING", Scan(a, p, sig)
  PROVE  Told'
<1> USE DEF Identity, TypeOK
<1> SUFFICES ASSUME NEW t \in Slot, NEW u \in Slot, Awaits(t, u)'
             PROVE  SIGCHLD \in signal'[t]
  BY DEF Told
<1>1. ASSUME NEW b \in Zombies(Waited(a, p)), Buries(a, b, sig)
      PROVE  SIGCHLD \in signal'[t]
  <2>1. b \in Slot
    BY DEF Zombies, Waited, Children, Used
  <2>2. t # a /\ t # b /\ u # b
    BY <1>1, <2>1 DEF Buries, Awaits
  <2>3. Awaits(t, u) /\ signal'[t] = signal[t]
    BY <1>1, <2>1, <2>2 DEF Buries, Empty, Awaits
  <2> QED
    BY <2>3 DEF Told
<1>2. CASE GoesToSleep(a, p, sig)
  <2>1. CASE t = a
    <3>1. /\ u \in Slot \ {a} /\ state[u] = "ZOMBIE" /\ father[u] = pid[a]
          /\ p = -1 \/ (p > 0 /\ pid[u] = p)
      BY <1>2, <2>1 DEF GoesToSleep, Awaits, ids
    <3>2. u \in Zombies(Waited(a, p))
      BY <3>1, ConstantsType DEF Zombies, Waited, Children, Used, Matches
    <3> QED
      BY <1>2, <3>2 DEF GoesToSleep
  <2>2. CASE t # a
    <3>1. Awaits(t, u) /\ signal'[t] = signal[t]
      BY <1>2, <2>2 DEF GoesToSleep, Awaits, ids
    <3> QED
      BY <3>1 DEF Told
  <2> QED
    BY <2>1, <2>2
<1>3. CASE HasNobody(a, sig)
  <2>1. t # a
    BY <1>3 DEF HasNobody, Awaits
  <2>2. Awaits(t, u) /\ signal'[t] = signal[t]
    BY <1>3, <2>1 DEF HasNobody, Awaits, ids
  <2> QED
    BY <2>2 DEF Told
<1> QED
  BY <1>1, <1>2, <1>3, ScanCases

(* init is told of the zombies it inherits; nobody else gets new children. *)
LEMMA ExitStartsTold ==
  ASSUME Identity, Told, NEW a \in Slot \ {init},
         NEW sig \in [Slot -> SUBSET Signal], \A t \in Slot \ {a} : sig[t] = signal[t],
         state[a] = "RUNNING", ExitStarts(a, sig), UNCHANGED <<state, pid, arg>>
  PROVE  Told'
<1> USE DEF Identity, TypeOK
<1> SUFFICES ASSUME NEW t \in Slot, NEW u \in Slot, Awaits(t, u)'
             PROVE  SIGCHLD \in signal'[t]
  BY DEF Told
<1>0. t # a /\ t \in Used /\ u \in Used /\ init \in Used /\ pid[init] = 1
  BY ConstantsType DEF Awaits, Used, InitSafe
<1>1. CASE u \in Children(a)
  <2>1. pid[t] = 1
    BY <1>1 DEF Awaits, ExitStarts
  <2>2. t = init
    BY <1>0, <2>1 DEF UniquePids
  <2>3. InitMustKnow(a)
    BY <1>1 DEF InitMustKnow, Awaits
  <2> QED
    BY <2>2, <2>3 DEF ExitStarts
<1>2. CASE u \notin Children(a)
  <2>1. Awaits(t, u)
    BY <1>2 DEF Awaits, ExitStarts
  <2>2. SIGCHLD \in sig[t]
    BY <1>0, <2>1 DEF Told
  <2> QED
    BY <2>2 DEF ExitStarts
<1> QED
  BY <1>1, <1>2

LEMMA ToldStep ==
  ASSUME Identity, FatherAlive, Told, [Next]_vars
  PROVE  Told'
<1>0. /\ init \in Slot /\ InitSafe
      /\ signal \in [Slot -> SUBSET Signal]
  BY ConstantsType DEF Identity, TypeOK
(* Calls that only add to the signals of sleeping tasks.                   *)
<1>1. ASSUME NEW a \in Slot, UNCHANGED <<state, pid, father, arg>>, state[a] # "INTERRUPTIBLE",
             \A t \in Slot \ {a} : signal[t] \subseteq signal'[t]
      PROVE  Told'
  BY <1>1 DEF Told, Awaits
<1>2. CASE UNCHANGED vars
  BY <1>2 DEF vars, ids, Told, Awaits
<1>3. ASSUME NEW a \in Slot, sys_fork(a)
      PROVE  Told'
  <2>1. CASE UNCHANGED <<state, ids, signal, arg>>
    BY <2>1 DEF ids, Told, Awaits
  <2>2. ASSUME NEW n \in Slot \ Used, Forks(a, n)
        PROVE  Told'
    <3> USE DEF Identity, TypeOK
    <3> SUFFICES ASSUME NEW t \in Slot, NEW u \in Slot, Awaits(t, u)'
                 PROVE  SIGCHLD \in signal'[t]
      BY DEF Told
    <3>1. t # n /\ u # n
      BY <2>2 DEF Forks, Awaits
    <3>2. Awaits(t, u) /\ signal'[t] = signal[t]
      BY <2>2, <3>1 DEF Forks, Awaits
    <3> QED
      BY <3>2 DEF Told
  <2> QED
    BY <1>3, <2>1, <2>2, ForkCases
<1>4. ASSUME NEW a \in Slot, sys_exit(a)
      PROVE  Told'
  BY <1>0, <1>4, ExitStartsTold DEF sys_exit, User
<1>5. ASSUME NEW a \in Slot, ExitFinishes(a)
      PROVE  Told'
  <2> USE DEF Identity, TypeOK
  <2>1. a \in Used \ {init}
    BY <1>0, <1>5 DEF ExitFinishes, InitSafe, Used
  <2>2. PICK f \in Used : /\ pid[f] = father[a]
                          /\ signal' = [HungUp(a) EXCEPT ![f] = @ \cup {SIGCHLD}]
                          /\ state' = [state EXCEPT ![a] = "ZOMBIE"]
                          /\ UNCHANGED <<ids, arg>>
    BY <1>5, <2>1 DEF ExitFinishes, FatherAlive
  <2>3. \A t \in Slot : signal[t] \subseteq signal'[t]
    BY <2>2 DEF HungUp, Used
  <2>4. SIGCHLD \in signal'[f]
    BY <2>2 DEF HungUp, Used
  <2> SUFFICES ASSUME NEW t \in Slot, NEW u \in Slot, Awaits(t, u)'
               PROVE  SIGCHLD \in signal'[t]
    BY DEF Told
  <2>5. t # a
    BY <2>2 DEF Awaits
  <2>6. CASE u = a
    <3>1. t \in Used /\ pid[t] = pid[f]
      BY <2>2, <2>5, <2>6 DEF Awaits, ids, Used
    <3>2. t = f
      BY <3>1 DEF UniquePids
    <3> QED
      BY <2>4, <3>2
  <2>7. CASE u # a
    <3>1. Awaits(t, u)
      BY <2>2, <2>5, <2>7 DEF Awaits, ids
    <3> QED
      BY <2>3, <3>1 DEF Told
  <2> QED
    BY <2>6, <2>7
<1>6. ASSUME NEW a \in Slot, NEW p \in WaitArgs, sys_waitpid(a, p)
      PROVE  Told'
  BY <1>0, <1>6, ScanTold DEF sys_waitpid, User
<1>7. ASSUME NEW a \in Slot, NEW p \in WaitArgs, WaitNoHang(a, p)
      PROVE  Told'
  BY <1>1, <1>7 DEF WaitNoHang, User, ids
<1>8. ASSUME NEW a \in Slot, WaitWakes(a)
      PROVE  Told'
  <2> DEFINE sig == [signal EXCEPT ![a] = @ \ {SIGCHLD}]
  <2>1. sig \in [Slot -> SUBSET Signal] /\ \A t \in Slot \ {a} : sig[t] = signal[t]
    BY <1>0
  <2>2. arg[a] \in WaitArgs \cup {0} /\ state[a] = "RUNNING"
    BY <1>8 DEF WaitWakes, Identity, TypeOK
  <2>3. CASE Scan(a, arg[a], sig)
    BY <2>1, <2>2, <2>3, ScanTold
  <2>4. CASE signal' = sig /\ arg' = [arg EXCEPT ![a] = 0] /\ UNCHANGED <<state, ids>>
    BY <2>1, <2>2, <2>4 DEF Told, Awaits, ids, Identity, TypeOK
  <2> QED
    BY <1>8, <2>3, <2>4 DEF WaitWakes
<1>9. ASSUME NEW a \in Slot, Wakeup(a)
      PROVE  Told'
  BY <1>9 DEF Wakeup, Told, Awaits, ids, Identity, TypeOK
<1>10. ASSUME NEW a \in Slot, NEW p \in KillArgs, NEW s \in Signals, sys_kill(a, p, s)
       PROVE  Told'
  BY <1>0, <1>1, <1>10 DEF sys_kill, User, ids
<1>11. ASSUME NEW a \in Slot, Return(a)
       PROVE  Told'
  <2> DEFINE rest == [signal EXCEPT ![a] = @ \ {Lowest(signal[a])}]
  <2>1. rest \in [Slot -> SUBSET Signal] /\ \A t \in Slot \ {a} : rest[t] = signal[t]
    BY <1>0
  <2>2. state[a] = "RUNNING" /\ UNCHANGED <<state, pid, arg>>
    BY <1>11 DEF Return
  <2>3. CASE Lowest(signal[a]) # SIGCHLD /\ ExitStarts(a, rest)
    <3>1. Lowest(signal[a]) \in signal[a]
      BY <1>0, <1>11, LowestIn DEF Return
    <3>2. a # init
      BY <1>0, <2>3, <3>1 DEF InitSafe
    <3> QED
      BY <2>1, <2>2, <2>3, <3>2, ExitStartsTold
  <2>4. CASE signal' = rest /\ UNCHANGED father
    BY <1>1, <2>1, <2>2, <2>4
  <2> QED
    BY <1>11, <2>3, <2>4 DEF Return
<1>12. ASSUME NEW a \in Slot, sys_setsid(a)
       PROVE  Told'
  BY <1>1, <1>12 DEF sys_setsid, User
<1>13. ASSUME NEW a \in Slot, NEW u \in Slot, NEW g \in Groups, sys_setpgid(a, u, g)
       PROVE  Told'
  BY <1>1, <1>13 DEF sys_setpgid, User
<1> QED
  BY <1>2, <1>3, <1>4, <1>5, <1>6, <1>7, <1>8, <1>9, <1>10, <1>11, <1>12, <1>13 DEF Next

(* A father that sleeps for a child of its own always has a SIGCHLD when   *)
(* the child is dead, whether it died before or after it was inherited.    *)
THEOREM DeathsNoticed == Spec => []DeathNoticed
<1>1. Init => Told
  BY ConstantsType DEF Init, Told, Awaits
<1>2. Identity /\ FatherAlive /\ Told /\ [Next]_vars => Told'
  BY ToldStep
<1>3. Identity /\ Told => DeathNoticed
  BY ToldMeansNoticed DEF Identity
<1> QED
  BY <1>1, <1>2, <1>3, IdentityKept, FathersAlive, PTL DEF Spec
=============================================================================
