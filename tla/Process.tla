------------------------------ MODULE Process ------------------------------
(***************************************************************************)
(* The life of processes: kernel/fork.c, kernel/exit.c, the process group  *)
(* calls of kernel/sys.c and the delivery of signals.                      *)
(*                                                                         *)
(* Processes are the slots 1 .. N of task[]; slot 1 is init.  Slot 0, pid  *)
(* 0, is the idle task, the father of init.  The kernel is not preemptible:*)
(* an action runs to the point where the task sleeps or leaves the kernel. *)
(* Only do_exit() sleeps half way, while it closes files.                  *)
(***************************************************************************)
EXTENDS Integers, FiniteSets

CONSTANTS N,        \* NR_TASKS - 1
          MaxPid,   \* the largest pid, after which last_pid becomes negative
          Signals,  \* signals that sys_kill() sends in this instance
          Handled,  \* signals for which programs may install a handler
          WaitArgs, \* arguments of sys_waitpid()
          KillArgs, \* arguments of sys_kill()
          Groups    \* the pgid arguments of sys_setpgid()

Slot == 1 .. N
Pid == 1 .. MaxPid
init == 1             \* task[1], whose pid is 1
SIGHUP == 1
SIGKILL == 9
SIGCHLD == 17
Signal == Signals \cup {SIGHUP, SIGCHLD}

ASSUME ProcessAssumption ==
    /\ N \in Nat \ {0}
    /\ MaxPid \in Nat /\ MaxPid > N
    /\ Signals \subseteq 1 .. 32 /\ Handled \subseteq Signal \ {SIGKILL}
    /\ WaitArgs \subseteq -MaxPid .. MaxPid /\ KillArgs \subseteq -MaxPid .. MaxPid
    /\ Groups \subseteq Pid

VARIABLES state,    \* task_struct.state; "FREE" for an empty slot
          pid, father, pgrp, session, leader,
          signal,   \* pending signals; nothing is masked here (module Scheduler)
          pc,       \* "user"; "return": on the way back to user mode with a signal to
                    \* deliver; "wait": asleep in sys_waitpid(); "exit": in do_exit()
          arg,      \* the argument pid of sys_waitpid()
          last_pid

ids == <<pid, father, pgrp, session, leader>>
vars == <<state, ids, signal, pc, arg, last_pid>>

TypeOK ==
    /\ state \in [Slot -> {"RUNNING", "INTERRUPTIBLE", "ZOMBIE", "FREE"}]
    /\ pid \in [Slot -> Pid \cup {0}]
    /\ father \in [Slot -> Pid \cup {0}]
    /\ pgrp \in [Slot -> Pid \cup {0}]
    /\ session \in [Slot -> Pid \cup {0}]
    /\ leader \in [Slot -> BOOLEAN]
    /\ signal \in [Slot -> SUBSET Signal]
    /\ pc \in [Slot -> {"user", "return", "wait", "exit"}]
    /\ arg \in [Slot -> WaitArgs \cup {0}]
    /\ last_pid \in 1 .. MaxPid

(* Task 0 has forked init.                                                 *)
Init ==
    /\ state = [t \in Slot |-> IF t = init THEN "RUNNING" ELSE "FREE"]
    /\ pid = [t \in Slot |-> IF t = init THEN 1 ELSE 0]
    /\ father = [t \in Slot |-> 0]
    /\ pgrp = [t \in Slot |-> 0]
    /\ session = [t \in Slot |-> 0]
    /\ leader = [t \in Slot |-> FALSE]
    /\ signal = [t \in Slot |-> {}]
    /\ pc = [t \in Slot |-> "user"]
    /\ arg = [t \in Slot |-> 0]
    /\ last_pid = 1

-----------------------------------------------------------------------------
Used == {t \in Slot : state[t] # "FREE"}
User(t) == state[t] = "RUNNING" /\ pc[t] = "user"

(* A system call ends: ret_from_sys_call finds a signal to deliver or not. *)
SyscallEnds(t, place) ==
    pc' = [place EXCEPT ![t] = IF signal'[t] = {} THEN "user" ELSE "return"]

(* release(): a slot without a task keeps nothing of the last one.         *)
Empty(t) ==
    /\ pid' = [pid EXCEPT ![t] = 0]
    /\ father' = [father EXCEPT ![t] = 0]
    /\ pgrp' = [pgrp EXCEPT ![t] = 0]
    /\ session' = [session EXCEPT ![t] = 0]
    /\ leader' = [leader EXCEPT ![t] = FALSE]

-----------------------------------------------------------------------------
(* fork() *)

(* Slips used to test the properties.                                      *)
NoWrap == last_pid + 1
LivePids == {pid[t] : t \in {u \in Used : state[u] # "ZOMBIE"}}

PidsInUse == {pid[t] : t \in Used}

(* The first pid after last_pid, around the end of the range, that no task *)
(* has.                                                                    *)
NextPid ==
    LET distance(p) == (p - last_pid - 1) % MaxPid
    IN  CHOOSE p \in Pid \ PidsInUse :
            \A q \in Pid \ PidsInUse : distance(p) <= distance(q)

(* find_empty_process() takes a new pid even if it then finds no slot.     *)
(* copy_process() may also fail for lack of memory: EAGAIN both times.     *)
sys_fork(t) ==
    /\ User(t)
    /\ last_pid' = NextPid
    /\ \/ UNCHANGED <<state, ids, signal>>
       \/ /\ Used # Slot
          /\ LET n == CHOOSE u \in Slot \ Used : \A v \in Slot \ Used : u <= v
             IN  /\ state' = [state EXCEPT ![n] = "RUNNING"]
                 /\ pid' = [pid EXCEPT ![n] = last_pid']
                 /\ father' = [father EXCEPT ![n] = pid[t]]
                 /\ pgrp' = [pgrp EXCEPT ![n] = pgrp[t]]
                 /\ session' = [session EXCEPT ![n] = session[t]]
                 /\ leader' = [leader EXCEPT ![n] = FALSE]
                 /\ signal' = [signal EXCEPT ![n] = {}]
    /\ SyscallEnds(t, pc)
    /\ UNCHANGED arg

-----------------------------------------------------------------------------
(* exit() *)

(* Slips of do_exit().                                                     *)
LiveChildren(t) == {u \in Used : father[u] = pid[t] /\ state[u] # "ZOMBIE"}
NobodyTold(t) == FALSE

Children(t) == {u \in Used : father[u] = pid[t]}
InitMustKnow(t) == \E u \in Children(t) : state[u] = "ZOMBIE"

(* do_exit(), up to the closing of files: init inherits the children, and  *)
(* is told when one is a zombie already.  sig is the vector of pending     *)
(* signals at that point.                                                  *)
ExitStarts(t, sig) ==
    /\ father' = [u \in Slot |-> IF u \in Children(t) THEN 1 ELSE father[u]]
    /\ signal' = [sig EXCEPT ![init] = IF InitMustKnow(t) THEN @ \cup {SIGCHLD} ELSE @]
    /\ pc' = [pc EXCEPT ![t] = "exit"]

sys_exit(t) ==
    /\ t # init
    /\ User(t)
    /\ ExitStarts(t, signal)
    /\ UNCHANGED <<state, pid, pgrp, session, leader, arg, last_pid>>

(* kill_session() *)
HungUp(t) ==
    [u \in Slot |-> IF leader[t] /\ u \in Used /\ session[u] = session[t]
                    THEN signal[u] \cup {SIGHUP} ELSE signal[u]]

(* The rest of do_exit(): tell_father() finds the father by its pid, and   *)
(* without one the task releases itself.                                   *)
ExitFinishes(t) ==
    /\ state[t] = "RUNNING" /\ pc[t] = "exit"
    /\ \/ \E f \in Used :
            /\ pid[f] = father[t]
            /\ signal' = [HungUp(t) EXCEPT ![f] = @ \cup {SIGCHLD}]
            /\ state' = [state EXCEPT ![t] = "ZOMBIE"]
            /\ UNCHANGED <<ids, pc>>
       \/ /\ \A f \in Used : pid[f] # father[t]
          /\ state' = [state EXCEPT ![t] = "FREE"]
          /\ signal' = [HungUp(t) EXCEPT ![t] = {}]
          /\ pc' = [pc EXCEPT ![t] = "user"]
          /\ Empty(t)
    /\ UNCHANGED <<arg, last_pid>>

-----------------------------------------------------------------------------
(* waitpid() *)

Matches(t, u, p) ==
    CASE p > 0 -> pid[u] = p
      [] p = 0 -> pgrp[u] = pgrp[t]
      [] p = -1 -> TRUE
      [] OTHER -> pgrp[u] = -p

Waited(t, p) == {u \in Children(t) \ {t} : Matches(t, u, p)}
Zombies(S) == {u \in S : state[u] = "ZOMBIE"}

(* The loop over task[], with sig the vector of pending signals: the last  *)
(* zombie is released; without one the task sleeps (schedule() itself does *)
(* not let it stop if it has a signal), or returns 0 or ECHILD.            *)
Scan(t, p, sig) ==
    \/ /\ Zombies(Waited(t, p)) # {}
       /\ LET u == CHOOSE v \in Zombies(Waited(t, p)) : \A w \in Zombies(Waited(t, p)) : w <= v
          IN  /\ state' = [state EXCEPT ![u] = "FREE"]
              /\ signal' = [sig EXCEPT ![u] = {}]
              /\ Empty(u)
              /\ SyscallEnds(t, [pc EXCEPT ![u] = "user"])
       /\ arg' = [arg EXCEPT ![t] = 0]
    \/ /\ Zombies(Waited(t, p)) = {} /\ Waited(t, p) # {}
       /\ state' = [state EXCEPT ![t] = "INTERRUPTIBLE"]
       /\ pc' = [pc EXCEPT ![t] = "wait"]
       /\ arg' = [arg EXCEPT ![t] = p]
       /\ signal' = sig
       /\ UNCHANGED <<ids>>
    \/ /\ Waited(t, p) = {}
       /\ arg' = [arg EXCEPT ![t] = 0]
       /\ signal' = sig
       /\ UNCHANGED <<state, ids>>
       /\ SyscallEnds(t, pc)

(* init only calls wait(), which is waitpid() for any child.               *)
sys_waitpid(t, p) ==
    /\ User(t) /\ (t = init => p = -1)
    /\ Scan(t, p, signal)
    /\ UNCHANGED last_pid

(* With WNOHANG, when no child has died.                                   *)
WaitNoHang(t, p) ==
    /\ User(t) /\ t # init
    /\ Zombies(Waited(t, p)) = {} /\ Waited(t, p) # {}
    /\ UNCHANGED <<state, ids, signal, arg, last_pid>>
    /\ SyscallEnds(t, pc)

(* Back from schedule(): any signal but SIGCHLD ends the call with EINTR.  *)
WaitWakes(t) ==
    /\ state[t] = "RUNNING" /\ pc[t] = "wait"
    /\ LET sig == [signal EXCEPT ![t] = @ \ {SIGCHLD}]
       IN  \/ sig[t] = {} /\ Scan(t, arg[t], sig)
           \/ /\ sig[t] # {}
              /\ signal' = sig
              /\ arg' = [arg EXCEPT ![t] = 0]
              /\ UNCHANGED <<state, ids>>
              /\ SyscallEnds(t, pc)
    /\ UNCHANGED last_pid

-----------------------------------------------------------------------------
(* Signals *)

(* A slip: schedule() takes the handled signals for masked.                *)
HandledIsMasked(t) == signal[t] \ (Handled \cup {SIGCHLD}) # {}

Wakes(t) == signal[t] # {}

(* schedule(), called by anybody, or a stray wake_up() (module WaitQueue). *)
Wakeup(t) ==
    /\ state[t] = "INTERRUPTIBLE"
    /\ state' = [state EXCEPT ![t] = "RUNNING"]
    /\ UNCHANGED <<ids, signal, pc, arg, last_pid>>

(* sys_kill(); 0 means the tasks whose pgrp is the pid of the caller.      *)
Targets(t, p) ==
    CASE p = 0 -> {u \in Used : pgrp[u] = pid[t]}
      [] p > 0 -> {u \in Used : pid[u] = p}
      [] p = -1 -> Used
      [] OTHER -> {u \in Used : pgrp[u] = -p}

(* init runs as the super-user, the others do not: send_sig() refuses.     *)
sys_kill(t, p, s) ==
    /\ User(t) /\ t # init
    /\ signal' = [u \in Slot |-> IF u \in Targets(t, p) \ {init}
                                 THEN signal[u] \cup {s} ELSE signal[u]]
    /\ UNCHANGED <<state, ids, arg, last_pid>>
    /\ SyscallEnds(t, pc)

Lowest(S) == CHOOSE s \in S : \A r \in S : s <= r

(* ret_from_sys_call after a system call or an interrupt, and do_signal(): *)
(* the default action, or a handler, or nothing.                           *)
Return(t) ==
    /\ state[t] = "RUNNING" /\ pc[t] \in {"user", "return"}
    /\ signal[t] # {}
    /\ LET s == Lowest(signal[t])
           rest == [signal EXCEPT ![t] = @ \ {s}]
       IN  \/ s # SIGCHLD /\ ExitStarts(t, rest)
           \/ /\ s \in Handled \cup {SIGCHLD}
              /\ signal' = rest
              /\ pc' = [pc EXCEPT ![t] = "user"]
              /\ UNCHANGED father
    /\ UNCHANGED <<state, pid, pgrp, session, leader, arg, last_pid>>

-----------------------------------------------------------------------------
(* Process groups and sessions *)

sys_setsid(t) ==
    /\ User(t) /\ t # init /\ ~leader[t]
    /\ leader' = [leader EXCEPT ![t] = TRUE]
    /\ session' = [session EXCEPT ![t] = pid[t]]
    /\ pgrp' = [pgrp EXCEPT ![t] = pid[t]]
    /\ UNCHANGED <<state, pid, father, signal, arg, last_pid>>
    /\ SyscallEnds(t, pc)

AnyTask(t, u) == session[u] = session[t]

(* Not for session leaders, and only in one's own session.  Programs leave *)
(* init where it is.                                                       *)
MayMove(t, u) == ~leader[u] /\ session[u] = session[t]

sys_setpgid(t, u, g) ==
    /\ User(t) /\ t # init /\ u \in Used \ {init}
    /\ MayMove(t, u)
    /\ pgrp' = [pgrp EXCEPT ![u] = g]
    /\ UNCHANGED <<state, pid, father, session, leader, signal, arg, last_pid>>
    /\ SyscallEnds(t, pc)

-----------------------------------------------------------------------------
Next ==
    \E t \in Slot :
        \/ sys_fork(t)
        \/ sys_exit(t)
        \/ ExitFinishes(t)
        \/ \E p \in WaitArgs : sys_waitpid(t, p) \/ WaitNoHang(t, p)
        \/ WaitWakes(t)
        \/ Wakeup(t)
        \/ \E p \in KillArgs, s \in Signals : sys_kill(t, p, s)
        \/ Return(t)
        \/ sys_setsid(t)
        \/ \E u \in Slot, g \in Groups : sys_setpgid(t, u, g)

Spec == Init /\ [][Next]_vars

(* init calls wait() for ever (init/main.c); a task that may run does      *)
(* (module Scheduler), and disks answer, so that do_exit() ends.           *)
Fairness ==
    /\ SF_vars(sys_waitpid(init, -1))
    /\ \A t \in Slot :
        /\ WF_vars(ExitFinishes(t)) /\ WF_vars(WaitWakes(t))
        /\ WF_vars(Wakes(t) /\ Wakeup(t)) /\ WF_vars(Return(t))

FairSpec == Spec /\ Fairness

-----------------------------------------------------------------------------
(* Properties *)

(* No two tasks, zombies included, have the same pid, although pids start  *)
(* again from 1.                                                           *)
UniquePids == \A t, u \in Used : pid[t] = pid[u] => t = u

(* The father of every task is alive and not yet past the point where      *)
(* do_exit() gives its children away: tell_father() always finds somebody  *)
(* ("BAD BAD - no father found" is out of reach).                          *)
FatherAlive ==
    \A t \in Used \ {init} :
        \E f \in Used : pid[f] = father[t] /\ state[f] # "ZOMBIE" /\ pc[f] # "exit"

(* A task asleep in waitpid() for a child, or for any, that is a zombie    *)
(* has a SIGCHLD pending: no death goes unnoticed.  (Of a task that waits  *)
(* for a group this is not true: setpgid() may move a zombie into it.)     *)
DeathNoticed ==
    \A t \in Slot :
        /\ state[t] = "INTERRUPTIBLE" /\ (arg[t] = -1 \/ arg[t] > 0)
        /\ Zombies(Waited(t, arg[t])) # {}
        => SIGCHLD \in signal[t]

(* A session leader leads the session and the group that bear its pid, so  *)
(* that kill_session() hangs up its own session.                           *)
LeaderLeads == \A t \in Used : leader[t] => session[t] = pid[t] /\ pgrp[t] = pid[t]

(* Once programs stop forking, init buries every orphan.  (With forks, it  *)
(* need not: find_empty_process() takes the first free slot, sys_waitpid() *)
(* the last zombie, so one in a low slot may be passed over for ever.)     *)
ForkStops == <>[][\A t \in Slot : state[t] = "FREE" => state'[t] = "FREE"]_vars
Orphans == {t \in Slot : state[t] = "ZOMBIE" /\ father[t] = 1}
OrphansBuried == ForkStops => (Orphans # {} ~> Orphans = {})
=============================================================================
