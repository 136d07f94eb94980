------------------------------- MODULE Memory ------------------------------
(***************************************************************************)
(* Memory management of mm/memory.c: reference counts of page frames,      *)
(* copy on write after fork(), demand loading and sharing of the pages of  *)
(* a program, and the kernel's own writes to user space after verify_area()*)
(* (kernel/fork.c), with the parts of fork, exec and exit that use it.     *)
(*                                                                         *)
(* Pages in FilePage lie below end_data and are loaded from the executable;*)
(* the others (bss, heap, stack) start as zeros.  The text lies at the     *)
(* bottom and the stack at the top of 64M, under page tables of their own; *)
(* a page table is made when the first page under it is.  The kernel is not preemptible: a page     *)
(* fault is one step unless it sleeps in bread_page(); other processes run *)
(* between a fault and the instruction that is tried again.                *)
(***************************************************************************)
EXTENDS Integers, FiniteSets

CONSTANTS NProc,     \* NR_TASKS - 1
          NFrame,    \* frames of main memory
          Page,      \* pages of an address space
          FilePage,  \* those that are loaded from the executable
          ArgPage,   \* the page where exec() puts the arguments
          DirOf,     \* the page directory entry that covers each page
          Program,   \* executable files
          Value,     \* what programs write into a page
          Zero       \* contents of a cleared page

Proc == 1 .. NProc
Frame == 1 .. NFrame
NoFrame == 0
Dir == {DirOf[v] : v \in Page}

ASSUME MemoryAssumption ==
    /\ NProc \in Nat \ {0} /\ NFrame \in Nat /\ NFrame >= 3
    /\ IsFiniteSet(Page) /\ DirOf \in [Page -> Nat]
    /\ FilePage \subseteq Page /\ ArgPage \in Page \ FilePage
    /\ Zero \notin Value

VARIABLES mem_map,    \* reference counts
          data,       \* contents of the frames that hold user pages
          life,       \* "none", "alive" or "zombie"
          task,       \* the frame of the task structure
          table,      \* the page directory: the frames of the page tables
          pte,        \* the page table: frame, R/W bit and dirty bit
          executable,
          pc,         \* "user"; "load": asleep in bread_page(); "copy": a system call
                      \* between verify_area() and put_fs(); "exec": do_execve() closing files
          new,        \* the frame that do_no_page() or do_execve() holds and is not yet mapped
          addr,       \* the address of the fault or of the system call
          ret         \* where do_no_page() returns to

mm == <<mem_map, data, table, pte>>
vars == <<mm, life, task, executable, pc, new, addr, ret>>

Image(e, v) == <<e, v>>
Content == Value \cup {Zero} \cup {Image(e, v) : e \in Program, v \in FilePage}
Absent == [frame |-> NoFrame, w |-> FALSE, d |-> FALSE]

TypeOK ==
    /\ mem_map \in [Frame -> Nat]
    /\ data \in [Frame -> Content]
    /\ life \in [Proc -> {"none", "alive", "zombie"}]
    /\ task \in [Proc -> Frame \cup {NoFrame}]
    /\ table \in [Proc -> [Dir -> Frame \cup {NoFrame}]]
    /\ pte \in [Proc -> [Page -> [frame : Frame \cup {NoFrame}, w : BOOLEAN, d : BOOLEAN]]]
    /\ executable \in [Proc -> Program]
    /\ pc \in [Proc -> {"user", "load", "copy", "exec"}]
    /\ new \in [Proc -> Frame \cup {NoFrame}]
    /\ addr \in [Proc -> Page]
    /\ ret \in [Proc -> {"user", "copy"}]

(* Process 1 has just executed a program.                                  *)
Init ==
    /\ \E e \in Program : executable = [p \in Proc |-> e]
    /\ mem_map = [f \in Frame |-> IF f > NFrame - 3 THEN 1 ELSE 0]
    /\ \E x \in Value : data = [f \in Frame |-> IF f = NFrame - 2 THEN x ELSE Zero]
    /\ life = [p \in Proc |-> IF p = 1 THEN "alive" ELSE "none"]
    /\ task = [p \in Proc |-> IF p = 1 THEN NFrame ELSE NoFrame]
    /\ table = [p \in Proc |-> [d \in Dir |->
                IF p = 1 /\ d = DirOf[ArgPage] THEN NFrame - 1 ELSE NoFrame]]
    /\ pte = [p \in Proc |-> [v \in Page |->
                IF p = 1 /\ v = ArgPage THEN [frame |-> NFrame - 2, w |-> TRUE, d |-> FALSE]
                ELSE Absent]]
    /\ pc = [p \in Proc |-> "user"]
    /\ new = [p \in Proc |-> NoFrame]
    /\ addr = [p \in Proc |-> ArgPage]
    /\ ret = [p \in Proc |-> "user"]

-----------------------------------------------------------------------------
(* Frames *)

(* get_free_page() scans mem_map from its end; NoFrame without a free one. *)
(* Free(m, n) is what it finds after it has been called n times.           *)
FreeFrames(m) == {f \in Frame : m[f] = 0}
Free(m, n) ==
    IF Cardinality(FreeFrames(m)) <= n THEN NoFrame
    ELSE CHOOSE f \in FreeFrames(m) : Cardinality({g \in FreeFrames(m) : g > f}) = n
get_free_page(m) == Free(m, 0)

Taken(m, f) == [m EXCEPT ![f] = 1]
free_page(m, f) == [m EXCEPT ![f] = @ - 1]

Present(p, v) == pte[p][v].frame # NoFrame

(* Slips used to test the properties.                                      *)
TableKept(m, p) ==
    [f \in Frame |-> m[f] - Cardinality({v \in Page : pte[p][v].frame = f})]
EntriesNotCleared(m, p) ==
    [f \in Frame |-> m[f] - 2 * Cardinality({v \in Page : pte[p][v].frame = f})
                          - 2 * Cardinality({d \in Dir : table[p][d] = f})]

(* free_page_tables(): the pages and the tables lose a reference.          *)
free_page_tables(m, p) ==
    [f \in Frame |-> m[f] - Cardinality({v \in Page : pte[p][v].frame = f})
                          - Cardinality({d \in Dir : table[p][d] = f})]

(* do_exit(), called with these reference counts.                          *)
do_exit(p, m) ==
    /\ mem_map' = free_page_tables(m, p)
    /\ table' = [table EXCEPT ![p] = [d \in Dir |-> NoFrame]]
    /\ pte' = [pte EXCEPT ![p] = [v \in Page |-> Absent]]
    /\ life' = [life EXCEPT ![p] = "zombie"]
    /\ pc' = [pc EXCEPT ![p] = "user"]
    /\ new' = [new EXCEPT ![p] = NoFrame]
    /\ UNCHANGED data

oom(p, m) == do_exit(p, m)

(* put_page() needs a page table, and may find no frame for it.            *)
TableOf(p, v, m) ==
    IF table[p][DirOf[v]] # NoFrame THEN table[p][DirOf[v]] ELSE get_free_page(m)

HasRoom(p, v, m) == TableOf(p, v, m) # NoFrame

put_page(p, v, entry, m) ==
    /\ table' = [table EXCEPT ![p][DirOf[v]] = TableOf(p, v, m)]
    /\ mem_map' = Taken(m, TableOf(p, v, m))
    /\ pte' = [pte EXCEPT ![p][v] = entry]

Fresh(f) == [frame |-> f, w |-> TRUE, d |-> FALSE]

-----------------------------------------------------------------------------
(* Page faults.  then is where the process goes on after the fault.        *)

OneOrTwoOwners(f) == mem_map[f] <= 2
SoleOwner(f) == mem_map[f] = 1

(* un_wp_page(): copy on write.                                            *)
un_wp_page(p, v, then) ==
    LET old == pte[p][v].frame
        f == get_free_page(mem_map)
    IN  \/ /\ SoleOwner(old)
           /\ pte' = [pte EXCEPT ![p][v].w = TRUE]
           /\ pc' = [pc EXCEPT ![p] = then]
           /\ UNCHANGED <<mem_map, data, table, life, new>>
        \/ /\ ~SoleOwner(old) /\ f # NoFrame
           /\ mem_map' = free_page(Taken(mem_map, f), old)
           /\ pte' = [pte EXCEPT ![p][v] = Fresh(f)]
           /\ data' = [data EXCEPT ![f] = data[old]]
           /\ pc' = [pc EXCEPT ![p] = then]
           /\ UNCHANGED <<table, life, new>>
        \/ /\ ~SoleOwner(old) /\ f = NoFrame
           /\ oom(p, mem_map)

(* get_empty_page(): two frames at most, or death.                         *)
get_empty_page(p, v, then) ==
    LET f == get_free_page(mem_map)
        m == Taken(mem_map, f)
    IN  \/ /\ f # NoFrame /\ HasRoom(p, v, m)
           /\ put_page(p, v, Fresh(f), m)
           /\ data' = [data EXCEPT ![f] = Zero]
           /\ pc' = [pc EXCEPT ![p] = then]
           /\ UNCHANGED <<life, new>>
        \/ /\ f = NoFrame \/ ~HasRoom(p, v, m)
           /\ oom(p, mem_map)

(* The tasks from which try_to_share() takes a clean page.                 *)
Clean(p, v) ==
    {q \in Proc \ {p} : /\ life[q] = "alive" /\ executable[q] = executable[p]
                        /\ Present(q, v) /\ ~pte[q][v].d}

try_to_share(p, v, q, then) ==
    LET entry == [pte[q][v] EXCEPT !.w = FALSE]
        t == TableOf(p, v, mem_map)
    IN  \/ /\ HasRoom(p, v, mem_map)
           /\ table' = [table EXCEPT ![p][DirOf[v]] = t]
           /\ mem_map' = [Taken(mem_map, t) EXCEPT ![entry.frame] = @ + 1]
           /\ pte' = [pte EXCEPT ![q][v] = entry, ![p][v] = entry]
           /\ pc' = [pc EXCEPT ![p] = then]
           /\ UNCHANGED <<data, life, new>>
        \/ /\ ~HasRoom(p, v, mem_map)
           /\ oom(p, mem_map)

(* do_no_page(): an empty page; or share_page() with the last such task;   *)
(* or a new page, which is read from the disk.                             *)
do_no_page(p, v, then) ==
    /\ \/ /\ v \notin FilePage
          /\ get_empty_page(p, v, then)
       \/ /\ v \in FilePage /\ Clean(p, v) # {}
          /\ try_to_share(p, v, CHOOSE q \in Clean(p, v) : \A r \in Clean(p, v) : r <= q, then)
       \/ /\ v \in FilePage /\ Clean(p, v) = {}
          /\ LET f == get_free_page(mem_map)
             IN  \/ /\ f # NoFrame
                    /\ mem_map' = Taken(mem_map, f)
                    /\ data' = [data EXCEPT ![f] = Zero]
                    /\ new' = [new EXCEPT ![p] = f]
                    /\ pc' = [pc EXCEPT ![p] = "load"]
                    /\ UNCHANGED <<table, pte, life>>
                 \/ f = NoFrame /\ oom(p, mem_map)
    /\ addr' = [addr EXCEPT ![p] = v]
    /\ ret' = [ret EXCEPT ![p] = then]

(* bread_page() is done, and put_page() maps the page.                     *)
Loaded(p) ==
    /\ life[p] = "alive" /\ pc[p] = "load"
    /\ \/ /\ HasRoom(p, addr[p], mem_map)
          /\ put_page(p, addr[p], Fresh(new[p]), mem_map)
          /\ data' = [data EXCEPT ![new[p]] = Image(executable[p], addr[p])]
          /\ pc' = [pc EXCEPT ![p] = ret[p]]
          /\ new' = [new EXCEPT ![p] = NoFrame]
          /\ UNCHANGED life
       \/ /\ ~HasRoom(p, addr[p], mem_map)
          /\ oom(p, free_page(mem_map, new[p]))
    /\ UNCHANGED <<task, executable, addr, ret>>

-----------------------------------------------------------------------------
(* The program *)

User(p) == life[p] = "alive" /\ pc[p] = "user"

(* It touches a page that is not there, or writes to a protected one.      *)
page_fault(p, v) ==
    /\ User(p)
    /\ \/ ~Present(p, v) /\ do_no_page(p, v, "user")
       \/ /\ Present(p, v) /\ ~pte[p][v].w
          /\ un_wp_page(p, v, "user")
          /\ UNCHANGED <<addr, ret>>
    /\ UNCHANGED <<task, executable>>

(* The instruction succeeds; the processor sets the dirty bit.             *)
Store(p, v, x) ==
    /\ data' = [data EXCEPT ![pte[p][v].frame] = x]
    /\ pte' = [pte EXCEPT ![p][v].d = TRUE]
    /\ UNCHANGED <<mem_map, table, life, new>>

UserStore(p, v, x) ==
    /\ User(p)
    /\ Present(p, v) /\ pte[p][v].w
    /\ Store(p, v, x)
    /\ UNCHANGED <<task, executable, pc, addr, ret>>

(* A system call that writes to user space checks the page first, as in    *)
(* sys_waitpid(); then it may sleep.                                       *)
verify_area(p, v) ==
    /\ User(p)
    /\ \/ /\ Present(p, v) /\ ~pte[p][v].w
          /\ un_wp_page(p, v, "copy")
       \/ /\ ~Present(p, v) \/ pte[p][v].w
          /\ pc' = [pc EXCEPT ![p] = "copy"]
          /\ UNCHANGED <<mm, life, new>>
    /\ addr' = [addr EXCEPT ![p] = v]
    /\ UNCHANGED <<task, executable, ret>>

(* put_fs_byte() and its like: the 80386 does not look at the R/W bit when *)
(* the kernel writes.                                                      *)
put_fs(p, x) ==
    /\ life[p] = "alive" /\ pc[p] = "copy"
    /\ \/ /\ Present(p, addr[p])
          /\ Store(p, addr[p], x)
          /\ pc' = [pc EXCEPT ![p] = "user"]
          /\ UNCHANGED <<addr, ret>>
       \/ /\ ~Present(p, addr[p])
          /\ do_no_page(p, addr[p], "copy")
    /\ UNCHANGED <<task, executable>>

-----------------------------------------------------------------------------
(* fork(), exec() and exit() *)

ParentWritable(p) == pte[p]
WriteProtected(p) == [v \in Page |-> [pte[p][v] EXCEPT !.w = FALSE]]

(* copy_process() and copy_page_tables(); without the frames for a task    *)
(* structure and the page tables, nothing happens.                         *)
Tables(p) == {d \in Dir : table[p][d] # NoFrame}
TablesBelow(p, d) == {e \in Tables(p) : e < d}

Fork(p, q) ==
    LET f == get_free_page(mem_map)
        t == [d \in Dir |-> IF d \notin Tables(p) THEN NoFrame
                            ELSE Free(mem_map, 1 + Cardinality(TablesBelow(p, d)))]
    IN  /\ User(p)
        /\ life[q] = "none"
        /\ Cardinality(FreeFrames(mem_map)) > Cardinality(Tables(p))
        /\ task' = [task EXCEPT ![q] = f]
        /\ table' = [table EXCEPT ![q] = t]
        /\ mem_map' = [g \in Frame |->
                IF g = f \/ \E d \in Dir : t[d] = g THEN 1
                ELSE mem_map[g] + Cardinality({v \in Page : pte[p][v].frame = g})]
        /\ pte' = [pte EXCEPT ![p] = WriteProtected(p),
                              ![q] = [v \in Page |-> [pte[p][v] EXCEPT !.w = FALSE]]]
        /\ life' = [life EXCEPT ![q] = "alive"]
        /\ executable' = [executable EXCEPT ![q] = executable[p]]
        /\ UNCHANGED <<data, pc, new, addr, ret>>

(* do_execve() has a page of arguments and gives the task its new          *)
(* executable; then it closes files and may sleep.                         *)
ExecBegins(p, e, x) ==
    LET f == get_free_page(mem_map)
    IN  /\ User(p)
        /\ f # NoFrame
        /\ mem_map' = Taken(mem_map, f)
        /\ data' = [data EXCEPT ![f] = x]
        /\ new' = [new EXCEPT ![p] = f]
        /\ executable' = [executable EXCEPT ![p] = e]
        /\ pc' = [pc EXCEPT ![p] = "exec"]
        /\ UNCHANGED <<table, pte, life, task, addr, ret>>

(* free_page_tables(), change_ldt().  There is a frame for the new table:  *)
(* the old ones have just been freed.                                      *)
ExecEnds(p) ==
    LET m == free_page_tables(mem_map, p)
        t == get_free_page(m)
    IN  /\ life[p] = "alive" /\ pc[p] = "exec"
        /\ mem_map' = Taken(m, t)
        /\ table' = [table EXCEPT ![p] = [d \in Dir |-> IF d = DirOf[ArgPage] THEN t ELSE NoFrame]]
        /\ pte' = [pte EXCEPT ![p] = [v \in Page |-> IF v = ArgPage THEN Fresh(new[p]) ELSE Absent]]
        /\ pc' = [pc EXCEPT ![p] = "user"]
        /\ new' = [new EXCEPT ![p] = NoFrame]
        /\ UNCHANGED <<data, life, task, executable, addr, ret>>

(* exit(), or a signal on the way back to user mode.                       *)
Exit(p) ==
    /\ User(p)
    /\ do_exit(p, mem_map)
    /\ UNCHANGED <<task, executable, addr, ret>>

(* release() by the father.                                                *)
Release(p) ==
    /\ life[p] = "zombie"
    /\ life' = [life EXCEPT ![p] = "none"]
    /\ mem_map' = free_page(mem_map, task[p])
    /\ task' = [task EXCEPT ![p] = NoFrame]
    /\ UNCHANGED <<data, table, pte, executable, pc, new, addr, ret>>

-----------------------------------------------------------------------------
Next ==
    \E p \in Proc :
        \/ \E v \in Page : page_fault(p, v) \/ verify_area(p, v)
        \/ \E v \in Page, x \in Value : UserStore(p, v, x)
        \/ \E x \in Value : put_fs(p, x)
        \/ Loaded(p)
        \/ \E q \in Proc : Fork(p, q)
        \/ \E e \in Program, x \in Value : ExecBegins(p, e, x)
        \/ ExecEnds(p)
        \/ Exit(p)
        \/ Release(p)

Spec == Init /\ [][Next]_vars

-----------------------------------------------------------------------------
(* Properties *)

References(f) ==
    Cardinality({p \in Proc : task[p] = f}) + Cardinality({pd \in Proc \X Dir : table[pd[1]][pd[2]] = f})
    + Cardinality({p \in Proc : new[p] = f})
    + Cardinality({pv \in Proc \X Page : pte[pv[1]][pv[2]].frame = f})

(* mem_map counts the references to every frame exactly, also when memory  *)
(* runs out in the middle of a fault: no frame is lost or freed twice      *)
(* (panic "trying to free free page").                                     *)
RefCountExact == \A f \in Frame : mem_map[f] = References(f)

(* A page that its process may write belongs to that process alone.        *)
WritableIsPrivate ==
    \A p \in Proc, v \in Page : pte[p][v].w => mem_map[pte[p][v].frame] = 1

(* The memory that is not loaded from the executable behaves as if every   *)
(* process had its own.                                                    *)
Private(p) ==
    IF life[p] # "alive" \/ pc[p] = "exec" THEN << >>
    ELSE [v \in Page \ FilePage |-> IF Present(p, v) THEN data[pte[p][v].frame] ELSE Zero]

Memory == INSTANCE AddressSpace WITH Page <- Page \ FilePage,
                                     mem <- [p \in Proc |-> Private(p)]

ImplementsAddressSpace == Memory!Spec

(* mm/memory.c: try_to_share() shares a page of the same executable when   *)
(* it is clean, so that what a process finds in a page it touches for the  *)
(* first time is the page of its executable.                               *)
DemandPageIsImage ==
    [][\A p \in Proc, v \in FilePage :
          ~Present(p, v) /\ Present(p, v)' /\ life[p] = "alive" =>
              data'[pte'[p][v].frame] = Image(executable[p], v)]_vars
=============================================================================
