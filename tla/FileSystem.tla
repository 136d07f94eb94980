----------------------------- MODULE FileSystem -----------------------------
(***************************************************************************)
(* Path names, directories, the inode table and the bitmaps of one device: *)
(* fs/namei.c, fs/inode.c, fs/bitmap.c, fs/truncate.c and the system calls *)
(* of fs/open.c and fs/fcntl.c that use them.                              *)
(*                                                                         *)
(* The kernel does not preempt itself, but nearly every line here can      *)
(* sleep: for a block (the buffer cache, of which only its promise of      *)
(* module BlockStore is used), or for an inode that another task reads or  *)
(* writes.  An action is the stretch up to the next place where the code   *)
(* may sleep; cpu names the task that goes on without having slept.        *)
(*                                                                         *)
(* Programs run as the superuser, so permission() only refuses inodes      *)
(* whose last link is gone.  Nothing is mounted below the root, there are  *)
(* no I/O errors (module BufferCache has them), and i_zone is modelled for *)
(* the direct blocks only.                                                 *)
(***************************************************************************)
EXTENDS Integers, Sequences, FiniteSets

CONSTANTS Task,      \* processes
          Nobody,    \* value of cpu when nobody is in the middle of a stretch
          Slot,      \* inode_table
          RootSlot,  \* the one that mount_root() was given for the root
          Null,      \* a null pointer to an inode
          NInode,    \* s_ninodes
          NBlock,    \* data zones of the device
          K,         \* DIR_ENTRIES_PER_BLOCK
          NZone,     \* direct zones of an inode, 7 in the source
          Name,      \* names of files
          Programs,  \* what the tasks do: each function gives a task its calls
          Shared     \* files that exist at the start and are never unlinked

ROOT_INO == 1
RootZones == 2     \* blocks of the root directory at the start
Num == 1 .. NInode
Block == 1 .. NBlock
Zone == 0 .. NZone - 1

(* Calls without a path, and with one, which is not empty.                 *)
NoPath == {"close", "write", "sync"}
ByPath == {"open", "creat", "touch", "unlink", "rmdir", "mknod", "mkdir", "link"}

Call == [op : NoPath \cup ByPath, path : Seq(Name), to : Seq(Name)]

ASSUME FileSystemAssumption ==
    /\ IsFiniteSet(Task) /\ Nobody \notin Task
    /\ RootSlot \in Slot /\ Null \notin Slot
    /\ NInode \in Nat /\ NBlock \in Nat /\ NZone \in Nat /\ K \in Nat
    /\ NBlock >= RootZones /\ NZone >= RootZones /\ K >= 2
    /\ {".", ".."} \subseteq Name
    /\ Shared \subseteq Name \ {".", ".."} /\ IsFiniteSet(Shared)
    /\ Cardinality(Shared) < NInode /\ Cardinality(Shared) + 2 <= RootZones * K
    /\ \A p \in Programs, t \in Task : \A c \in p[t] :
          /\ c \in Call
          /\ c.op \in ByPath => c.path # <<>>
          /\ c.op = "link" => c.to # <<>>

VARIABLES inode,   \* inode_table
          disk,    \* the inodes on the device
          imap,    \* inodes that are marked as used
          zmap,    \* blocks that are marked as used
          data,    \* directory entries in the blocks
          fd,      \* the inode of each task's open file
          l,       \* where each task is, and its local variables
          cpu,
          panic,   \* the message the kernel stopped with
          prog     \* which of the Programs runs

vars == <<inode, disk, imap, zmap, data, fd, l, cpu, panic, prog>>

-----------------------------------------------------------------------------
(* struct m_inode, struct d_inode and struct dir_entry.                    *)

NoZones == [i \in Zone |-> 0]
NoInode == [num |-> 0, count |-> 0, lock |-> FALSE, dirt |-> FALSE,
            links |-> 0, kind |-> "none", size |-> 0, zone |-> NoZones]
OnDisk(i) == [links |-> i.links, kind |-> i.kind, size |-> i.size, zone |-> i.zone]
Loaded(i, d) == [i EXCEPT !.links = d.links, !.kind = d.kind, !.size = d.size, !.zone = d.zone]

NoEntry == [name |-> ".", num |-> 0]
Cleared == [j \in 1 .. K |-> NoEntry]

Kinds == {"none", "file", "dir", "device"}

InodeType == [num : 0 .. NInode, count : Nat, lock : BOOLEAN, dirt : BOOLEAN,
              links : Nat, kind : Kinds, size : Nat, zone : [Zone -> 0 .. NBlock]]

Places == {"user", "find", "empty", "scan", "read", "got", "new",
           "alloc", "clear", "zone", "dots", "add", "put", "put_write", "truncate",
           "free", "empty_dir", "opened", "linked", "undo",
           "written", "sync", "sync_write", "end"}

(* Where a task arrives by a call that may sleep; truncate() only sleeps   *)
(* in free_block(), when there is a block to free.                         *)
MaySleep == {"user", "find", "read", "clear", "dots", "add", "put_write",
             "empty_dir", "undo", "written", "sync", "sync_write"}

Idle == [pc |-> "user", op |-> "none", path |-> <<>>, to |-> <<>>,
         dir |-> Null, ino |-> Null, emp |-> Null, nr |-> 0, at |-> 0, len |-> 0,
         blk |-> 0, bh |-> 0, de |-> 0, puts |-> <<>>, then |-> "end", ret |-> "end",
         todo |-> {}]

TypeOK ==
    /\ inode \in [Slot -> InodeType]
    /\ disk \in [Num -> [links : Nat, kind : Kinds, size : Nat, zone : [Zone -> 0 .. NBlock]]]
    /\ imap \subseteq Num /\ zmap \subseteq Block
    /\ data \in [Block -> [1 .. K -> [name : Name, num : 0 .. NInode]]]
    /\ fd \in [Task -> Slot \cup {Null}]
    /\ \A t \in Task :
          /\ l[t].pc \in Places /\ l[t].then \in Places /\ l[t].ret \in Places
          /\ {l[t].dir, l[t].ino, l[t].emp} \cup {l[t].puts[i] : i \in DOMAIN l[t].puts}
                \subseteq Slot \cup {Null}
          /\ l[t].at \in Zone
    /\ cpu \in Task \cup {Nobody}

(* A new file system whose root directory has room in all its blocks for   *)
(* the names in use, with the shared files in it.  The root inode is in    *)
(* the table since mount_root().                                           *)
RootEntries ==
    LET files == CHOOSE f \in [1 .. Cardinality(Shared) -> Shared] :
                    \A i, j \in DOMAIN f : f[i] = f[j] => i = j
    IN  <<[name |-> ".", num |-> ROOT_INO], [name |-> "..", num |-> ROOT_INO]>>
            \o [i \in DOMAIN files |-> [name |-> files[i], num |-> ROOT_INO + i]]

Init ==
    /\ imap = ROOT_INO .. ROOT_INO + Cardinality(Shared)
    /\ zmap = 1 .. RootZones
    /\ data = [b \in Block |-> [j \in 1 .. K |->
                  LET i == (b - 1) * K + j
                  IN  IF b <= RootZones /\ i <= Len(RootEntries) THEN RootEntries[i] ELSE NoEntry]]
    /\ disk = [n \in Num |->
                  IF n = ROOT_INO
                  THEN [links |-> 2, kind |-> "dir", size |-> RootZones * K,
                        zone |-> [i \in Zone |-> IF i < RootZones THEN i + 1 ELSE 0]]
                  ELSE IF n \in imap
                       THEN [OnDisk(NoInode) EXCEPT !.links = 1, !.kind = "file"]
                       ELSE OnDisk(NoInode)]
    /\ inode = [s \in Slot |->
                   IF s = RootSlot
                   THEN Loaded([NoInode EXCEPT !.num = ROOT_INO, !.count = 1], disk[ROOT_INO])
                   ELSE NoInode]
    /\ fd = [t \in Task |-> Null]
    /\ l = [t \in Task |-> Idle]
    /\ cpu = Nobody
    /\ panic = "no"
    /\ prog \in Programs

-----------------------------------------------------------------------------
(* Control flow of a task inside the kernel.                               *)

Runs(t, place) == l[t].pc = place /\ cpu \in {t, Nobody} /\ panic = "no"

Proceed(t, r, sleeps) ==
    /\ l' = [l EXCEPT ![t] = r]
    /\ cpu' = IF sleeps THEN Nobody ELSE t
    /\ UNCHANGED prog

Go(t, r) == Proceed(t, r, r.pc \in MaySleep)

Panic(t, message) ==
    /\ panic' = message
    /\ UNCHANGED <<inode, disk, imap, zmap, data, fd, l, cpu, prog>>

(* What else a step leaves alone.                                          *)
InodesOnly == UNCHANGED <<disk, imap, zmap, data, fd, panic>>
LocalOnly == UNCHANGED inode /\ InodesOnly

Least(S) == CHOOSE x \in S : \A y \in S : x <= y
Held(b) == \E t \in Task : l[t].bh = b      \* b_count is not 0

permission(i) == i.links # 0

(* i_nlinks is changed, and i_dirt set.                                    *)
WithLinks(i, n) == [i EXCEPT !.links = n, !.dirt = TRUE]

(* iput() of the directory, or of an inode, or of both, one after the      *)
(* other, and then the rest.                                               *)
Puts(r, pointers, then) == [r EXCEPT !.pc = "put", !.puts = pointers, !.then = then]
PutDir(r, then) == Puts([r EXCEPT !.dir = Null], <<r.dir>>, then)
PutIno(r) == Puts([r EXCEPT !.ino = Null], <<r.ino>>, "end")
PutDirIno(r) == Puts([r EXCEPT !.dir = Null, !.ino = Null], <<r.dir, r.ino>>, "end")
PutInoDir(r) == Puts([r EXCEPT !.dir = Null, !.ino = Null], <<r.ino, r.dir>>, "end")

FailDirOnly(r) == PutDir(r, "end")

(* The call is given up: the directory and what link() has opened go back. *)
Fail(r) == IF r.ino = Null THEN PutDir(r, "end") ELSE PutDirIno(r)

(* get_dir() with the rest of the path and the inode i it leads from.      *)
get_dir(r, s, i, path) ==
    LET here == [r EXCEPT !.pc = "find", !.dir = s, !.path = path, !.at = 0, !.len = i.size]
    IN  IF i.kind = "dir" /\ permission(i) THEN here ELSE Fail(here)

LastName(r) == Len(r.path) = 1

(* sys_open(), sys_creat(), sys_unlink() and so on begin at the root.      *)
SysCall(t) ==
    /\ Runs(t, "user")
    /\ \E c \in prog[t] :
          /\ c.op \in ByPath
          /\ c.op \in {"open", "creat"} => fd[t] = Null
          /\ inode' = [inode EXCEPT ![RootSlot].count = @ + 1]
          /\ Go(t, get_dir([Idle EXCEPT !.op = c.op, !.to = c.to], RootSlot, inode[RootSlot], c.path))
    /\ InodesOnly

-----------------------------------------------------------------------------
(* find_entry(): the blocks of the directory one by one.                   *)

EntryAt(s, at, j) == data[inode[s].zone[at]][j]

Matches(r) ==
    IF inode[r.dir].zone[r.at] = 0 THEN {}
    ELSE {j \in 1 .. K : /\ r.at * K + j - 1 < r.len
                         /\ EntryAt(r.dir, r.at, j).num # 0
                         /\ EntryAt(r.dir, r.at, j).name = Head(r.path)}

NoEndOfDirectory(r, s) == inode[s].zone[0] # 0
MoreBlocks(r, s) == (r.at + 1) * K < r.len /\ inode[s].zone[0] # 0

FindNext(t) ==
    /\ Runs(t, "find")
    /\ Matches(l[t]) = {} /\ MoreBlocks(l[t], l[t].dir)
    /\ Go(t, [l[t] EXCEPT !.at = @ + 1])
    /\ LocalOnly

Hit(t) == Runs(t, "find") /\ Matches(l[t]) # {}
Miss(t) == Runs(t, "find") /\ Matches(l[t]) = {} /\ ~MoreBlocks(l[t], l[t].dir)
HitNum(r) == EntryAt(r.dir, r.at, Least(Matches(r))).num

(* link() looks for its new name, and then makes it.                       *)
NewName(r) == LastName(r) /\ (r.op \in {"mknod", "mkdir"} \/ r.ino # Null)

(* namei(), open_namei() and the directories on the way: the number of the *)
(* inode is taken from the entry, and then the directory is given back.    *)
namei(t) ==
    /\ Hit(t)
    /\ ~NewName(l[t]) /\ ~(LastName(l[t]) /\ l[t].op \in {"unlink", "rmdir"})
    /\ Go(t, PutDir([l[t] EXCEPT !.nr = HitNum(l[t])], "empty"))
    /\ LocalOnly

(* unlink() and rmdir() keep the directory and the block of the entry.     *)
FoundToRemove(t) ==
    /\ Hit(t)
    /\ LastName(l[t]) /\ l[t].op \in {"unlink", "rmdir"}
    /\ LET r == l[t]
       IN  Go(t, [r EXCEPT !.pc = "empty", !.nr = HitNum(r), !.de = Least(Matches(r)),
                           !.bh = inode[r.dir].zone[r.at]])
    /\ LocalOnly

(* EEXIST for mknod(), mkdir() and link(), and ENOENT for the others.      *)
Exists(t) ==
    /\ Hit(t) /\ NewName(l[t])
    /\ Go(t, Fail(l[t]))
    /\ LocalOnly

NotFound(t) ==
    /\ Miss(t)
    /\ ~NewName(l[t]) /\ ~(LastName(l[t]) /\ l[t].op = "creat")
    /\ Go(t, Fail(l[t]))
    /\ LocalOnly

(* A new name.  open_namei() asks for permission only now, the others have *)
(* done so before find_entry().                                            *)
Create(t, op) ==
    /\ Miss(t) /\ LastName(l[t]) /\ l[t].op = op
    /\ Go(t, IF op = "creat" /\ ~permission(inode[l[t].dir]) THEN Fail(l[t])
             ELSE [l[t] EXCEPT !.pc = "empty", !.nr = 0])
    /\ LocalOnly

sys_creat(t) == Create(t, "creat")
sys_mknod(t) == Create(t, "mknod")
sys_mkdir(t) == Create(t, "mkdir")

LinkName(t) ==
    /\ Miss(t) /\ NewName(l[t]) /\ l[t].op = "link"
    /\ Go(t, [l[t] EXCEPT !.pc = "add", !.at = 0])
    /\ LocalOnly

-----------------------------------------------------------------------------
(* get_empty_inode() looks from the inode after the one it took last; any  *)
(* start is allowed here.  An inode that is not in use is clean and not    *)
(* locked (CountExact), so that it never has to wait or to write.  nr = 0 *)
(* is a call of new_inode().                                               *)
Clean(s) == ~inode[s].dirt /\ ~inode[s].lock

Take(t, s) ==
    /\ inode' = [inode EXCEPT ![s] = [NoInode EXCEPT !.count = 1]]
    /\ Go(t, [l[t] EXCEPT !.emp = s, !.pc = IF l[t].nr = 0 THEN "new" ELSE "scan"])
    /\ InodesOnly

Unused == {s \in Slot : inode[s].count = 0}

get_empty_inode(t) ==
    /\ Runs(t, "empty")
    /\ IF Unused = {} THEN Panic(t, "No free inodes in mem")
       ELSE \E s \in Unused : Clean(s) /\ Take(t, s)

(* wait_on_inode() and lock_inode() find the lock held.                    *)
Awaited(t) ==
    CASE l[t].pc = "put" -> {Head(l[t].puts)}
      [] l[t].pc = "scan" -> {s \in Slot : inode[s].num = l[t].nr}
      [] OTHER -> {}

wait_on_inode(t) ==
    /\ cpu = t /\ panic = "no"
    /\ \E s \in Awaited(t) : inode[s].lock
    /\ cpu' = Nobody
    /\ UNCHANGED <<inode, disk, imap, zmap, data, fd, l, panic, prog>>

(* write_inode() up to bread(), and from there on.  The block of the inode *)
(* was chosen before; the place in it is that of the number it has now,    *)
(* and all the inodes of the model are in one block.                       *)
LockToWrite(t, s, place) ==
    /\ inode' = [inode EXCEPT ![s].lock = TRUE]
    /\ Go(t, [l[t] EXCEPT !.pc = place, !.emp = IF place = "put_write" THEN @ ELSE s])
    /\ InodesOnly

PlaceInBlock(n) == IF n = 0 THEN NInode ELSE n

write_inode(t, place, s, next) ==
    /\ Runs(t, place)
    /\ disk' = [disk EXCEPT ![PlaceInBlock(inode[s].num)] = OnDisk(inode[s])]
    /\ inode' = [inode EXCEPT ![s].dirt = FALSE, ![s].lock = FALSE]
    /\ Go(t, [l[t] EXCEPT !.pc = next, !.emp = IF next = "sync" THEN Null ELSE @])
    /\ UNCHANGED <<imap, zmap, data, fd, panic>>

-----------------------------------------------------------------------------
(* iget(): the inode is in the table, perhaps after a wait, or it is read. *)

Got(r, s, i) ==
    IF LastName(r) THEN [r EXCEPT !.pc = "got", !.ino = s, !.emp = Null]
    ELSE get_dir([r EXCEPT !.emp = Null], s, i, Tail(r.path))

UnlockedInTable(n) == {s \in Slot : inode[s].num = n /\ ~inode[s].lock}
InTable(n) == {s \in Slot : inode[s].num = n}

IgetHit(t) ==
    /\ Runs(t, "scan")
    /\ \E s \in InTable(l[t].nr) :
          /\ ~inode[s].lock
          /\ inode' = [inode EXCEPT ![s].count = @ + 1, ![l[t].emp].count = @ - 1]
          /\ Go(t, Got(l[t], s, inode[s]))
    /\ InodesOnly

IgetMiss(t) ==
    /\ Runs(t, "scan")
    /\ InTable(l[t].nr) = {}
    /\ inode' = [inode EXCEPT ![l[t].emp].num = l[t].nr, ![l[t].emp].lock = TRUE]
    /\ Go(t, [l[t] EXCEPT !.pc = "read"])
    /\ InodesOnly

(* The second half of read_inode().                                        *)
read_inode(t) ==
    /\ Runs(t, "read")
    /\ LET s == l[t].emp
           i == Loaded([inode[s] EXCEPT !.lock = FALSE], disk[l[t].nr])
       IN  /\ inode' = [inode EXCEPT ![s] = i]
           /\ Go(t, Got(l[t], s, i))
    /\ InodesOnly

-----------------------------------------------------------------------------
(* new_inode().                                                            *)

KindOf(op) == CASE op = "creat" -> "file" [] op = "mknod" -> "device" [] OTHER -> "none"

new_inode(t) ==
    /\ Runs(t, "new")
    /\ LET r == l[t]
           n == Least(Num \ imap)
           i == [NoInode EXCEPT !.num = n, !.count = 1, !.links = 1, !.dirt = TRUE,
                                !.kind = KindOf(r.op), !.size = IF r.op = "mkdir" THEN 2 ELSE 0]
           got == [r EXCEPT !.ino = r.emp, !.emp = Null]
       IN  \/ /\ imap # Num
              /\ imap' = imap \cup {n}
              /\ inode' = [inode EXCEPT ![r.emp] = i]
              /\ Go(t, IF r.op = "mkdir" THEN [got EXCEPT !.pc = "alloc", !.ret = "dots"]
                       ELSE [got EXCEPT !.pc = "add", !.at = 0])
           \/ /\ imap = Num
              /\ inode' = [inode EXCEPT ![r.emp].count = @ - 1]
              /\ Go(t, Fail([r EXCEPT !.emp = Null]))
              /\ UNCHANGED imap
    /\ UNCHANGED <<disk, zmap, data, fd, panic>>

(* new_block(): the bit is set, then getblk() may sleep, then the block is *)
(* cleared and _bmap() or mkdir() puts its number into the inode.          *)
NextBlock == Least(Block \ zmap)

NewBlock(t) ==
    /\ Runs(t, "alloc")
    /\ \/ /\ zmap # Block
          /\ zmap' = zmap \cup {NextBlock}
          /\ Go(t, [l[t] EXCEPT !.blk = NextBlock, !.pc = "clear"])
       \/ /\ zmap = Block
          /\ Go(t, [l[t] EXCEPT !.blk = 0, !.pc = "zone"])
          /\ UNCHANGED zmap
    /\ UNCHANGED <<inode, disk, imap, data, fd, panic>>

ClearBlock(t) ==
    /\ Runs(t, "clear")
    /\ IF Held(l[t].blk) THEN Panic(t, "new block: count is != 1")
       ELSE /\ data' = [data EXCEPT ![l[t].blk] = Cleared]
            /\ Go(t, [l[t] EXCEPT !.pc = "zone"])
            /\ UNCHANGED <<inode, disk, imap, zmap, fd, panic>>

WithZone(i, z, b) == [i EXCEPT !.zone[z] = b, !.dirt = @ \/ b # 0]
SetZone(t, s, z) == [inode EXCEPT ![s] = WithZone(@, z, l[t].blk)]

(* add_entry() returns NULL: what becomes of the new inode.  mknod() and   *)
(* mkdir() take its link away only after iput(dir).                        *)
NoRoom(t, r, table) ==
    /\ inode' = IF r.op = "creat" THEN [table EXCEPT ![r.ino].links = @ - 1] ELSE table
    /\ Go(t, CASE r.op = "creat" -> PutInoDir(r)
               [] r.op = "link" -> PutDirIno(r)
               [] OTHER -> PutDir(r, "undo"))

MkdirZone(t) ==
    /\ Runs(t, "zone") /\ l[t].ret = "dots"
    /\ IF l[t].blk = 0 THEN NoRoom(t, l[t], SetZone(t, l[t].ino, 0))
       ELSE /\ inode' = SetZone(t, l[t].ino, 0)
            /\ Go(t, [l[t] EXCEPT !.pc = "dots"])
    /\ InodesOnly

DirZone(t) ==
    /\ Runs(t, "zone") /\ l[t].ret = "add"
    /\ IF l[t].blk = 0 THEN NoRoom(t, l[t], SetZone(t, l[t].dir, l[t].at))
       ELSE /\ inode' = SetZone(t, l[t].dir, l[t].at)
            /\ Go(t, [l[t] EXCEPT !.pc = "add"])
    /\ InodesOnly

FileZone(t) ==
    /\ Runs(t, "zone") /\ l[t].ret = "written"
    /\ inode' = SetZone(t, fd[t], 0)
    /\ Go(t, IF l[t].blk = 0 THEN Idle ELSE [l[t] EXCEPT !.pc = "written"])
    /\ InodesOnly

-----------------------------------------------------------------------------
(* mkdir() fills in the new directory, and then adds it to its parent.     *)

Dots(t) ==
    /\ Runs(t, "dots")
    /\ LET r == l[t]
       IN  /\ data' = [data EXCEPT ![inode[r.ino].zone[0]] =
                          [@ EXCEPT ![1] = [name |-> ".", num |-> inode[r.ino].num],
                                    ![2] = [name |-> "..", num |-> inode[r.dir].num]]]
           /\ inode' = [inode EXCEPT ![r.ino] = [WithLinks(@, 2) EXCEPT !.kind = "dir"]]
           /\ Go(t, [r EXCEPT !.pc = "add", !.at = 0])
    /\ UNCHANGED <<disk, imap, zmap, fd, panic>>

(* add_entry(): an entry that is not in use, or the first one behind the   *)
(* end, and what the caller does with it before it can sleep again.        *)
Room(r) == {j \in 1 .. K : \/ r.at * K + j - 1 >= inode[r.dir].size
                           \/ EntryAt(r.dir, r.at, j).num = 0}

ParentNotCounted(r, j) ==
    LET i == inode[r.dir]
        grows == r.at * K + j - 1 >= i.size
    IN  [i EXCEPT !.size = IF grows THEN r.at * K + j ELSE @, !.dirt = @ \/ grows]

WithEntry(r, j) ==
    LET i == inode[r.dir]
        grows == r.at * K + j - 1 >= i.size
    IN  [i EXCEPT !.size = IF grows THEN r.at * K + j ELSE @,
                  !.dirt = @ \/ grows \/ r.op = "mkdir",
                  !.links = IF r.op = "mkdir" THEN @ + 1 ELSE @]

AddEntry(t) ==
    /\ Runs(t, "add")
    /\ Room(l[t]) # {}
    /\ LET r == l[t]
           j == Least(Room(r))
           b == inode[r.dir].zone[r.at]
           kept == [r EXCEPT !.bh = b]
       IN  /\ data' = [data EXCEPT ![b][j] = [name |-> Head(r.path), num |-> inode[r.ino].num]]
           /\ inode' = [inode EXCEPT ![r.dir] = WithEntry(r, j)]
           /\ Go(t, CASE r.op = "creat" -> PutDir(r, "opened")
                      [] r.op = "link" -> PutDir(r, "linked")
                      [] OTHER -> PutDirIno(kept))
    /\ UNCHANGED <<disk, imap, zmap, fd, panic>>

AddNext(t) ==
    /\ Runs(t, "add")
    /\ Room(l[t]) = {} /\ l[t].at + 1 \in Zone
    /\ LET r == [l[t] EXCEPT !.at = @ + 1]
       IN  Go(t, IF inode[r.dir].zone[r.at] = 0 THEN [r EXCEPT !.pc = "alloc", !.ret = "add"] ELSE r)
    /\ LocalOnly

(* link() counts the new name.                                             *)
Linked(t) ==
    /\ Runs(t, "linked")
    /\ inode' = [inode EXCEPT ![l[t].ino] = WithLinks(@, @.links + 1)]
    /\ Go(t, PutIno(l[t]))
    /\ InodesOnly

(* truncate() of the inode i, as far as the first block to free.           *)
FilesOnly(i) == i.kind = "file" /\ i.zone # NoZones
HasZones(i) == i.kind \in {"file", "dir"} /\ i.zone # NoZones

Truncate(t, r, i) == Proceed(t, [r EXCEPT !.pc = "truncate"], HasZones(i))

-----------------------------------------------------------------------------
(* What the calls do with the inode that iget() has returned.              *)

GotIt(t, op) == Runs(t, "got") /\ l[t].op = op

(* open_namei(), for writing, and sys_creat().                             *)
open_namei(t) ==
    /\ GotIt(t, "open") \/ GotIt(t, "creat")
    /\ LET r == l[t]
           i == inode[r.ino]
       IN  IF i.kind = "dir" \/ ~permission(i) THEN Go(t, PutIno(r))
           ELSE IF r.op = "creat" THEN Truncate(t, [r EXCEPT !.ret = "opened"], i)
           ELSE Go(t, [r EXCEPT !.pc = "opened"])
    /\ LocalOnly

Opened(t) ==
    /\ Runs(t, "opened")
    /\ fd' = [fd EXCEPT ![t] = l[t].ino]
    /\ Go(t, Idle)
    /\ UNCHANGED <<inode, disk, imap, zmap, data, panic>>

(* chmod(), chown() and utime(): namei() and they make the inode dirty.    *)
Touch(t) ==
    /\ GotIt(t, "touch")
    /\ inode' = [inode EXCEPT ![l[t].ino].dirt = TRUE]
    /\ Go(t, PutIno(l[t]))
    /\ InodesOnly

(* sys_link() has its old inode, and looks for the directory of the new    *)
(* name.                                                                   *)
sys_link(t) ==
    /\ GotIt(t, "link")
    /\ LET r == l[t]
       IN  IF inode[r.ino].kind = "dir"
           THEN /\ inode' = [inode EXCEPT ![r.ino].dirt = TRUE]
                /\ Go(t, PutIno(r))
           ELSE /\ inode' = [inode EXCEPT ![r.ino].dirt = TRUE, ![RootSlot].count = @ + 1]
                /\ Go(t, get_dir(r, RootSlot, inode[RootSlot], r.to))
    /\ InodesOnly

(* The entry that find_entry() returned is emptied, whatever it holds now. *)
RemoveEntry(r) == data' = [data EXCEPT ![r.bh][r.de].num = 0]

sys_unlink(t) ==
    /\ GotIt(t, "unlink")
    /\ LET r == l[t]
           i == inode[r.ino]
       IN  IF i.kind = "dir"
           THEN Go(t, PutInoDir(r)) /\ LocalOnly
           ELSE /\ RemoveEntry(r)
                /\ inode' = [inode EXCEPT ![r.ino] = WithLinks(i, IF i.links = 0 THEN 0 ELSE i.links - 1)]
                /\ Go(t, PutInoDir([r EXCEPT !.bh = 0]))
                /\ UNCHANGED <<disk, imap, zmap, fd, panic>>

sys_rmdir(t) ==
    /\ GotIt(t, "rmdir")
    /\ LET r == l[t]
           i == inode[r.ino]
       IN  Go(t, IF i.count > 1 /\ r.ino # r.dir THEN PutDirIno(r)
                 ELSE IF i.kind # "dir" \/ r.ino = r.dir \/ i.size < 2 \/ i.zone[0] = 0
                 THEN PutInoDir(r)
                 ELSE [r EXCEPT !.pc = "empty_dir", !.at = 0, !.len = i.size])
    /\ LocalOnly

(* empty_dir(), block by block; its last step removes the directory.       *)
BadDots(r) ==
    /\ r.at = 0
    /\ \/ EntryAt(r.ino, 0, 1) # [name |-> ".", num |-> inode[r.ino].num]
       \/ EntryAt(r.ino, 0, 2).num = 0 \/ EntryAt(r.ino, 0, 2).name # ".."

InUse(r) ==
    /\ inode[r.ino].zone[r.at] # 0
    /\ \E j \in 1 .. K : /\ r.at * K + j - 1 \in 2 .. r.len - 1
                         /\ EntryAt(r.ino, r.at, j).num # 0

NotEmpty(t) ==
    /\ Runs(t, "empty_dir")
    /\ BadDots(l[t]) \/ InUse(l[t])
    /\ Go(t, PutInoDir(l[t]))
    /\ LocalOnly

EmptyNext(t) ==
    /\ Runs(t, "empty_dir")
    /\ ~BadDots(l[t]) /\ ~InUse(l[t]) /\ MoreBlocks(l[t], l[t].ino)
    /\ Go(t, [l[t] EXCEPT !.at = @ + 1])
    /\ LocalOnly

RemoveDir(t) ==
    /\ Runs(t, "empty_dir")
    /\ ~BadDots(l[t]) /\ ~InUse(l[t]) /\ ~MoreBlocks(l[t], l[t].ino)
    /\ LET r == l[t]
       IN  /\ RemoveEntry(r)
           /\ inode' = [inode EXCEPT ![r.ino] = WithLinks(@, 0), ![r.dir] = WithLinks(@, @.links - 1)]
           /\ Go(t, PutDirIno([r EXCEPT !.bh = 0]))
    /\ UNCHANGED <<disk, imap, zmap, fd, panic>>

-----------------------------------------------------------------------------
(* iput().  A pipe is in module Pipe.                                      *)

Given(t) == Head(l[t].puts)

NextPut(r) ==
    IF Len(r.puts) > 1 THEN [r EXCEPT !.pc = "put", !.puts = Tail(@)]
    ELSE IF r.then = "end" THEN Idle
    ELSE [r EXCEPT !.pc = r.then, !.puts = <<>>, !.then = "end"]

Putting(t) == Runs(t, "put") /\ ~inode[Given(t)].lock

LastByLinks(t) == inode[Given(t)].links = 0 /\ inode[Given(t)].num # 0
Last(t) == inode[Given(t)].count = 1 /\ inode[Given(t)].num # 0

Decrement(t) ==
    /\ Putting(t)
    /\ Last(t) => inode[Given(t)].links # 0 /\ ~inode[Given(t)].dirt
    /\ IF inode[Given(t)].count = 0 THEN Panic(t, "iput: trying to free free inode")
       ELSE /\ inode' = [inode EXCEPT ![Given(t)].count = @ - 1]
            /\ Go(t, NextPut(l[t]))
            /\ InodesOnly

PutDirty(t) ==
    /\ Putting(t)
    /\ Last(t) /\ inode[Given(t)].links # 0 /\ inode[Given(t)].dirt
    /\ LockToWrite(t, Given(t), "put_write")

PutWrite(t) == write_inode(t, "put_write", Given(t), "put")

PutUnlinked(t) ==
    /\ Putting(t)
    /\ Last(t) /\ inode[Given(t)].links = 0
    /\ Truncate(t, [l[t] EXCEPT !.ret = "free"], inode[Given(t)])
    /\ LocalOnly

(* free_block(): a block that someone looks at stays marked.               *)
free_block(b) ==
    IF Held(b) THEN UNCHANGED zmap ELSE zmap' = zmap \ {b}

TwiceFreed(b) == ~Held(b) /\ b \notin zmap

(* truncate(), one block at a time.                                        *)
Truncated(t) == IF l[t].ret = "free" THEN Given(t) ELSE l[t].ino

truncate(t) ==
    /\ Runs(t, "truncate")
    /\ HasZones(inode[Truncated(t)])
    /\ LET s == Truncated(t)
           i == Least({z \in Zone : inode[s].zone[z] # 0})
           b == inode[s].zone[i]
           cut == [inode[s] EXCEPT !.zone[i] = 0]
       IN  IF TwiceFreed(b) THEN Panic(t, "free_block: bit already cleared")
           ELSE /\ free_block(b)
                /\ inode' = [inode EXCEPT ![s] = cut]
                /\ Truncate(t, l[t], cut)
                /\ UNCHANGED <<disk, imap, data, fd, panic>>

TruncateEnd(t) ==
    /\ Runs(t, "truncate")
    /\ ~HasZones(inode[Truncated(t)])
    /\ LET s == Truncated(t)
       IN  inode' = IF inode[s].kind \in {"file", "dir"}
                    THEN [inode EXCEPT ![s].size = 0, ![s].dirt = TRUE] ELSE inode
    /\ Go(t, [l[t] EXCEPT !.pc = l[t].ret])
    /\ InodesOnly

free_inode(t) ==
    /\ Runs(t, "free")
    /\ LET s == Given(t)
       IN  IF inode[s].count > 1 THEN Panic(t, "free_inode")
           ELSE IF inode[s].links # 0 THEN Panic(t, "trying to free inode with links")
           ELSE /\ imap' = imap \ {inode[s].num}
                /\ inode' = [inode EXCEPT ![s] = NoInode]
                /\ Go(t, NextPut(l[t]))
                /\ UNCHANGED <<disk, zmap, data, fd, panic>>

(* mknod() and mkdir() had no room for the new name: mkdir() frees the     *)
(* block of the new directory, if it has one, and the inode loses its      *)
(* link.                                                                   *)
Undo(t) ==
    /\ Runs(t, "undo")
    /\ LET s == l[t].ino
           b == inode[s].zone[0]
           made == inode[s].kind = "dir"
       IN  IF made /\ TwiceFreed(b) THEN Panic(t, "free_block: bit already cleared")
           ELSE /\ IF made THEN free_block(b) ELSE UNCHANGED zmap
                /\ inode' = [inode EXCEPT ![s].links = 0]
                /\ Go(t, PutIno(l[t]))
                /\ UNCHANGED <<disk, imap, data, fd, panic>>

-----------------------------------------------------------------------------
(* Calls on an open file, and sync().                                      *)

sys_close(t) ==
    /\ Runs(t, "user")
    /\ fd[t] # Null
    /\ fd' = [fd EXCEPT ![t] = Null]
    /\ Go(t, PutIno([Idle EXCEPT !.op = "close", !.ino = fd[t]]))
    /\ UNCHANGED <<inode, disk, imap, zmap, data, panic>>

(* file_write() of the first block.                                        *)
file_write(t) ==
    /\ Runs(t, "user")
    /\ \E c \in prog[t] : c.op = "write"
    /\ fd[t] # Null /\ inode[fd[t]].kind = "file"
    /\ LET r == [Idle EXCEPT !.op = "write"]
       IN  Go(t, IF inode[fd[t]].zone[0] = 0 THEN [r EXCEPT !.pc = "alloc", !.ret = "written"]
                 ELSE [r EXCEPT !.pc = "written"])
    /\ LocalOnly

Written(t) ==
    /\ Runs(t, "written")
    /\ inode' = [inode EXCEPT ![fd[t]].size = 1, ![fd[t]].dirt = @ \/ inode[fd[t]].size = 0]
    /\ Go(t, Idle)
    /\ InodesOnly

(* sync_inodes(), in any order of the table.                               *)
sys_sync(t) ==
    /\ Runs(t, "user")
    /\ \E c \in prog[t] : c.op = "sync"
    /\ Go(t, [Idle EXCEPT !.op = "sync", !.pc = "sync", !.todo = Slot])
    /\ LocalOnly

sync_inodes(t) ==
    /\ Runs(t, "sync")
    /\ \E s \in l[t].todo :
          LET r == [l[t] EXCEPT !.todo = @ \ {s}]
          IN  /\ ~inode[s].lock
              /\ IF inode[s].dirt /\ inode[s].num # 0
                 THEN /\ inode' = [inode EXCEPT ![s].lock = TRUE]
                      /\ Go(t, [r EXCEPT !.pc = "sync_write", !.emp = s])
                 ELSE Go(t, r) /\ UNCHANGED inode
    /\ InodesOnly

SyncWrite(t) == write_inode(t, "sync_write", l[t].emp, "sync")

Synced(t) ==
    /\ Runs(t, "sync") /\ l[t].todo = {}
    /\ Go(t, Idle)
    /\ LocalOnly

-----------------------------------------------------------------------------
Step(t) ==
    \/ SysCall(t) \/ FindNext(t) \/ namei(t) \/ FoundToRemove(t) \/ Exists(t)
    \/ NotFound(t) \/ sys_creat(t) \/ sys_mknod(t) \/ sys_mkdir(t) \/ LinkName(t)
    \/ get_empty_inode(t) \/ wait_on_inode(t)
    \/ IgetHit(t) \/ IgetMiss(t) \/ read_inode(t)
    \/ new_inode(t) \/ NewBlock(t) \/ ClearBlock(t)
    \/ MkdirZone(t) \/ DirZone(t) \/ FileZone(t) \/ Dots(t)
    \/ AddEntry(t) \/ AddNext(t) \/ Linked(t)
    \/ open_namei(t) \/ Opened(t) \/ Touch(t) \/ sys_link(t) \/ sys_unlink(t)
    \/ sys_rmdir(t) \/ NotEmpty(t) \/ EmptyNext(t) \/ RemoveDir(t) \/ Undo(t)
    \/ Decrement(t) \/ PutDirty(t) \/ PutWrite(t) \/ PutUnlinked(t)
    \/ truncate(t) \/ TruncateEnd(t) \/ free_inode(t)
    \/ sys_close(t) \/ file_write(t) \/ Written(t)
    \/ sys_sync(t) \/ sync_inodes(t) \/ SyncWrite(t) \/ Synced(t)

Next == \E t \in Task : Step(t)

Spec == Init /\ [][Next]_vars

-----------------------------------------------------------------------------
(* Properties.                                                             *)

(* The kernel's assertions about inodes, blocks and their reference counts *)
(* hold, as long as no two tasks work on the same name.                    *)
NoPanic == panic = "no"

(* An inode is in the table at most once: iget() looks for it again after  *)
(* every sleep, with an empty slot in its hand.                            *)
InodeUnique == \A s1, s2 \in Slot : inode[s1].num = inode[s2].num /\ s1 # s2 => inode[s1].num = 0

(* i_count is the number of pointers to the inode: open files, and the     *)
(* directories and inodes that system calls in progress hold.  An inode    *)
(* without any is clean and not locked: the last iput() has written it.    *)
Pointers(t) ==
    <<fd[t], l[t].dir, l[t].ino,
      IF l[t].pc = "sync_write" THEN Null ELSE l[t].emp>> \o l[t].puts

References(s) == {p \in Task \X (1 .. 6) : p[2] <= Len(Pointers(p[1])) /\ Pointers(p[1])[p[2]] = s}

CountExact ==
    \A s \in Slot :
        /\ inode[s].count = Cardinality(References(s)) + (IF s = RootSlot THEN 1 ELSE 0)
        /\ inode[s].count = 0 => Clean(s)

(* The inode with this number, whether it is in memory or not.             *)
Current(n) ==
    IF \E s \in Slot : inode[s].num = n
    THEN OnDisk(inode[CHOOSE s \in Slot : inode[s].num = n]) ELSE disk[n]

Quiet == \A t \in Task : l[t].pc = "user"

Dirs == {n \in imap : Current(n).kind = "dir" /\ Current(n).links # 0}

(* Entries in use, as triples of directory, block and position.            *)
EntriesOf(n) ==
    LET i == Current(n)
        used == {p \in {z \in Zone : i.zone[z] # 0} \X (1 .. K) :
                    p[1] * K + p[2] - 1 < i.size /\ data[i.zone[p[1]]][p[2]].num # 0}
    IN  {<<n, p[1], p[2]>> : p \in used}
Entries == UNION {EntriesOf(n) : n \in Dirs}
Entry(e) == data[Current(e[1]).zone[e[2]]][e[3]]

(* When all calls have returned, i_nlinks is the number of names of the    *)
(* inode, every name leads to an inode in use, and an inode without a name *)
(* is free unless a program has it open.                                   *)
LinksExact ==
    Quiet =>
      /\ \A e \in Entries : Entry(e).num \in imap
      /\ \A n \in imap :
            /\ Current(n).links = Cardinality({e \in Entries : Entry(e).num = n})
            /\ Current(n).links = 0 => \E s \in Slot : inode[s].num = n /\ inode[s].count > 0

(* No block belongs to two files or twice to one file, at any time.  When  *)
(* all calls have returned the marked blocks are those of the files.       *)
BlocksExact ==
    LET owned == UNION {{<<n, Current(n).zone[z], z>> : z \in Zone} :
                          n \in {m \in imap : Current(m).kind \in {"file", "dir"}}}
        files == {o \in owned : o[2] # 0}
        blocks == {o[2] : o \in files}
    IN  /\ Cardinality(blocks) = Cardinality(files)
        /\ blocks \subseteq zmap
        /\ Quiet => zmap = blocks
=============================================================================
