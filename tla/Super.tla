-------------------------------- MODULE Super -------------------------------
(***************************************************************************)
(* Mounted file systems, fs/super.c, with the parts of iget() and iput()   *)
(* of fs/inode.c that cross from a directory into the file system mounted  *)
(* on it.                                                                  *)
(*                                                                         *)
(* A task gives up the processor where it sleeps: for a locked super block *)
(* or inode, while a super block is read and while an inode is written.    *)
(* The root inode of a device stands for all its inodes.                   *)
(***************************************************************************)
EXTENDS Integers, FiniteSets

CONSTANTS Task, Nobody,
          Dev,      \* devices other than the root device
          Dir,      \* directories of the root device, other than its root
          None,     \* no device, no directory
          NR_SUPER, \* entries besides that of the root device
          MaxCount, \* bound on references to the files of a device
          Program   \* who may do what, see Init

SuperAssumption ==
    /\ IsFiniteSet(Task) /\ Nobody \notin Task
    /\ None \notin Dev \cup Dir /\ Dev \cap Dir = {}
    /\ NR_SUPER \in Nat /\ MaxCount \in Nat

VARIABLES super,   \* super_block[]: s_dev, s_lock and s_imount
          dir,     \* inodes of the directories: i_count, i_mount, i_dirt, i_lock
          root,    \* i_count of the root inode of each device
          l,       \* where each task is
          cpu,
          panic,
          program

vars == <<super, dir, root, l, cpu, panic, program>>

Slot == 1 .. NR_SUPER
Free == [dev |-> None, lock |-> FALSE, imount |-> None]
User == [pc |-> "user", dev |-> None, dir |-> None, slot |-> 0, holds |-> None]

TypeOK ==
    /\ super \in [Slot -> [dev : Dev \cup {None}, lock : BOOLEAN, imount : Dir \cup {None}]]
    /\ dir \in [Dir -> [count : 0 .. 2 * Cardinality(Task) + 1, mount : BOOLEAN, dirt : BOOLEAN, lock : BOOLEAN]]
    /\ root \in [Dev -> 0 .. MaxCount]
    /\ \A t \in Task :
          /\ l[t].pc \in {"user", "read_super", "bread", "mount", "iput", "write", "get_super", "put_super"}
          /\ l[t].dev \in Dev \cup {None} /\ l[t].dir \in Dir \cup {None}
          /\ l[t].slot \in Slot \cup {0} /\ l[t].holds \in Dev \cup Dir \cup {None}
    /\ cpu \in Task \cup {Nobody}
    /\ panic \in BOOLEAN
    /\ program \in Program

(* mount_root() has been done.                                             *)
Init ==
    /\ super = [s \in Slot |-> Free]
    /\ dir = [d \in Dir |-> [count |-> 0, mount |-> FALSE, dirt |-> FALSE, lock |-> FALSE]]
    /\ root = [d \in Dev |-> 0]
    /\ l = [t \in Task |-> User]
    /\ cpu = Nobody
    /\ panic = FALSE
    /\ program \in Program

(* get_super() waits for a locked entry, iput() for a locked inode.  The   *)
(* processor is with one task until that sleeps, waits or returns.         *)
Entries(dev) == {s \in Slot : super[s].dev = dev}
Locked(dev) == \E s \in Entries(dev) : super[s].lock
Waits(t) ==
    \/ l[t].pc \in {"read_super", "put_super"} /\ Locked(l[t].dev)
    \/ l[t].pc = "iput" /\ dir[l[t].dir].lock

Runs(t, pc) ==
    /\ ~panic
    /\ l[t].pc = pc /\ ~Waits(t)
    /\ \A o \in Task \ {t} : cpu = o => Waits(o)
Go(t, r) == l' = [l EXCEPT ![t] = r] /\ cpu' = IF r.pc = "user" THEN Nobody ELSE t
Sleeps(t, r) == l' = [l EXCEPT ![t] = r] /\ cpu' = Nobody
Done(t) == [User EXCEPT !.holds = l[t].holds]

-----------------------------------------------------------------------------
(* sys_mount() up to read_super(): the directory must be used by nobody    *)
(* else; one that is mounted on leads to the root inode of a device.       *)
sys_mount(t) ==
    /\ Runs(t, "user") /\ t \in program.mounts
    /\ \E dev \in Dev, d \in Dir :
          /\ ~dir[d].lock
          /\ IF dir[d].mount \/ dir[d].count > 0 THEN UNCHANGED <<dir, l, cpu>>
             ELSE /\ dir' = [dir EXCEPT ![d].count = 1]
                  /\ Go(t, [l[t] EXCEPT !.pc = "read_super", !.dev = dev, !.dir = d])
    /\ UNCHANGED <<super, root, panic, program>>

(* A new entry is locked while it is read.                                 *)
read_super(t) ==
    /\ Runs(t, "read_super")
    /\ IF Entries(l[t].dev) # {}
       THEN /\ \E s \in Entries(l[t].dev) : Go(t, [l[t] EXCEPT !.pc = "mount", !.slot = s])
            /\ UNCHANGED super
       ELSE IF Entries(None) = {}
       THEN Go(t, [l[t] EXCEPT !.pc = "iput"]) /\ UNCHANGED super
       ELSE LET s == CHOOSE s \in Entries(None) : \A o \in Entries(None) : s <= o
            IN  /\ super' = [super EXCEPT ![s] = [dev |-> l[t].dev, lock |-> TRUE, imount |-> None]]
                /\ Sleeps(t, [l[t] EXCEPT !.pc = "bread", !.slot = s])
    /\ UNCHANGED <<dir, root, panic, program>>

(* The blocks have been read, or are not those of a file system.           *)
bread(t) ==
    /\ Runs(t, "bread")
    /\ \/ /\ super' = [super EXCEPT ![l[t].slot].lock = FALSE]
          /\ Go(t, [l[t] EXCEPT !.pc = "mount"])
       \/ /\ super' = [super EXCEPT ![l[t].slot] = Free]
          /\ Go(t, [l[t] EXCEPT !.pc = "iput", !.slot = 0])
    /\ UNCHANGED <<dir, root, panic, program>>

NotLookedAt(s) == FALSE
MountedOn(s) == super[s].imount # None

(* The end of sys_mount().                                                 *)
Mount(t) ==
    /\ Runs(t, "mount")
    /\ LET s == l[t].slot
           d == l[t].dir
       IN  IF MountedOn(s) \/ dir[d].mount
           THEN Go(t, [l[t] EXCEPT !.pc = "iput", !.slot = 0]) /\ UNCHANGED <<super, dir>>
           ELSE /\ super' = [super EXCEPT ![s].imount = d]
                /\ dir' = [dir EXCEPT ![d].mount = TRUE, ![d].dirt = TRUE]
                /\ Go(t, Done(t))
    /\ UNCHANGED <<root, panic, program>>

-----------------------------------------------------------------------------
(* iput() of the directory, of which a dirty one is written first.  With a *)
(* slot it is that of sys_umount(), which then gives the entry back.       *)
After(t) == IF l[t].slot = 0 THEN Done(t) ELSE [l[t] EXCEPT !.pc = "put_super"]
Clears(t) ==
    super' = IF l[t].slot = 0 THEN super ELSE [super EXCEPT ![l[t].slot].imount = None]

iput(t) ==
    /\ Runs(t, "iput")
    /\ LET d == l[t].dir
       IN  IF dir[d].count = 0
           THEN panic' = TRUE /\ UNCHANGED <<dir, super, l, cpu>>
           ELSE IF dir[d].count = 1 /\ dir[d].dirt
           THEN /\ dir' = [dir EXCEPT ![d].lock = TRUE]
                /\ Sleeps(t, [l[t] EXCEPT !.pc = "write"])
                /\ UNCHANGED <<super, panic>>
           ELSE /\ dir' = [dir EXCEPT ![d].count = @ - 1]
                /\ Clears(t)
                /\ Go(t, After(t))
                /\ UNCHANGED panic
    /\ UNCHANGED <<root, program>>

write_inode(t) ==
    /\ Runs(t, "write")
    /\ dir' = [dir EXCEPT ![l[t].dir].lock = FALSE, ![l[t].dir].dirt = FALSE]
    /\ Go(t, [l[t] EXCEPT !.pc = "iput"])
    /\ UNCHANGED <<super, root, panic, program>>

(* sys_umount(): no inode of the device may be in use.                     *)
NotInUse(dev) == FALSE
InUse(dev) == root[dev] > 0

sys_umount(t) ==
    /\ Runs(t, "user") /\ t \in program.umounts
    /\ \E dev \in Dev :
          /\ ~Locked(dev)
          /\ \E s \in Entries(dev) :
                /\ super[s].imount # None
                /\ ~InUse(dev)
                /\ dir' = [dir EXCEPT ![super[s].imount].mount = FALSE]
                /\ Go(t, [l[t] EXCEPT !.pc = "iput", !.slot = s, !.dev = dev, !.dir = super[s].imount])
    /\ UNCHANGED <<super, root, panic, program>>

put_super(t) ==
    /\ Runs(t, "put_super")
    /\ super' = [s \in Slot |-> IF super[s].dev = l[t].dev /\ super[s].imount = None THEN Free ELSE super[s]]
    /\ Go(t, Done(t))
    /\ UNCHANGED <<dir, root, panic, program>>

-----------------------------------------------------------------------------
(* A task that holds nothing looks a directory up, and keeps what iget()   *)
(* returns; or it gives that back.                                         *)
iget(t) ==
    /\ Runs(t, "user") /\ t \in program.looks
    /\ l[t].holds = None
    /\ \E d \in Dir :
          /\ ~dir[d].lock
          /\ IF dir[d].mount
             THEN /\ \E s \in Slot : super[s].imount = d /\ root[super[s].dev] < MaxCount
                  /\ LET dev == super[CHOOSE s \in Slot : super[s].imount = d].dev
                     IN  /\ root' = [root EXCEPT ![dev] = @ + 1]
                         /\ l' = [l EXCEPT ![t].holds = dev]
                  /\ UNCHANGED dir
             ELSE /\ dir' = [dir EXCEPT ![d].count = @ + 1]
                  /\ l' = [l EXCEPT ![t].holds = d]
                  /\ UNCHANGED root
    /\ UNCHANGED <<super, cpu, panic, program>>

Leave(t) ==
    /\ Runs(t, "user")
    /\ IF l[t].holds \in Dev
       THEN /\ root' = [root EXCEPT ![l[t].holds] = @ - 1]
            /\ l' = [l EXCEPT ![t].holds = None]
            /\ UNCHANGED cpu
       ELSE /\ l[t].holds \in Dir
            /\ Go(t, [User EXCEPT !.pc = "iput", !.dir = l[t].holds])
            /\ UNCHANGED root
    /\ UNCHANGED <<super, dir, panic, program>>

Next ==
    \E t \in Task :
        \/ sys_mount(t) \/ read_super(t) \/ bread(t) \/ Mount(t)
        \/ iput(t) \/ write_inode(t) \/ sys_umount(t) \/ put_super(t)
        \/ iget(t) \/ Leave(t)

Spec == Init /\ [][Next]_vars

-----------------------------------------------------------------------------
(* Properties.                                                             *)

Umounting(s) == \E t \in Task : l[t].slot = s /\ l[t].pc \in {"iput", "write"}

(* The flags, the pointers and the counts of a mount agree: i_mount says   *)
(* whether an entry points to the directory, one entry does and one is for *)
(* each device, and who holds a reference to a file of a device finds it   *)
(* mounted.  No inode is freed twice.                                      *)
MountsExact ==
    /\ ~panic
    /\ \A d \in Dir :
          /\ dir[d].mount <=> \E s \in Slot : super[s].imount = d /\ ~Umounting(s)
          /\ dir[d].count = Cardinality({s \in Slot : super[s].imount = d})
                            + Cardinality({t \in Task : l[t].holds = d})
                            + Cardinality({t \in Task : l[t].dir = d /\ l[t].holds # d /\
                                  (l[t].slot = 0 \/ l[t].pc \in {"bread", "mount"})})
    /\ \A s, o \in Slot : s # o /\ super[s].dev # None =>
          super[s].dev # super[o].dev /\ (super[s].imount # None => super[s].imount # super[o].imount)
    /\ \A dev \in Dev : root[dev] > 0 => \E s \in Slot : super[s].dev = dev /\ super[s].imount # None
=============================================================================
