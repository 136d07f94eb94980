-------------------------- MODULE FileSystemProofs --------------------------
(***************************************************************************)
(* Proofs about module FileSystem, for any number of tasks, slots, inodes  *)
(* and blocks.                                                             *)
(***************************************************************************)
EXTENDS FileSystem, FiniteSetTheorems, WellFoundedInduction, TLAPS

-----------------------------------------------------------------------------
(* Types.  Links may fall below 0 when two tasks remove the same name.     *)
Sizes == 0 .. NZone * K
Zones == [Zone -> 0 .. NBlock]
Inode == [num : 0 .. NInode, count : Nat, lock : BOOLEAN, dirt : BOOLEAN,
          links : Int, kind : Kinds, size : Sizes, zone : Zones]
DiskInode == [links : Int, kind : Kinds, size : Sizes, zone : Zones]
DirEntry == [name : Name, num : 0 .. NInode]
Pointer == Slot \cup {Null}
Afterwards == {"end", "empty", "opened", "linked", "undo"}
Local == [pc : Places, op : NoPath \cup ByPath \cup {"none"}, path : Seq(Name), to : Seq(Name),
          dir : Pointer, ino : Pointer, emp : Pointer, nr : 0 .. NInode, at : Zone, len : Sizes,
          blk : 0 .. NBlock, bh : 0 .. NBlock, de : 0 .. K, puts : Seq(Slot),
          then : Afterwards, ret : {"end", "dots", "add", "written", "free", "opened"},
          todo : SUBSET Slot]

Stored ==
  /\ disk \in [Num -> DiskInode]
  /\ imap \in SUBSET Num /\ zmap \in SUBSET Block
  /\ data \in [Block -> [1 .. K -> DirEntry]]

Types ==
  /\ inode \in [Slot -> Inode]
  /\ Stored
  /\ fd \in [Task -> Pointer]
  /\ l \in [Task -> Local]
  /\ cpu \in Task \cup {Nobody}
  /\ prog \in Programs

(* Which pointers a task has in its hands at each place.                   *)
Removes(r) == r.op \in {"unlink", "rmdir"}
Hunting(r) ==
  /\ r.nr # 0 /\ r.path # <<>>
  /\ LastName(r) => r.ino = Null
  /\ r.ino # Null => r.op = "link"
  /\ r.dir # Null <=> LastName(r) /\ Removes(r)
Making(r) ==
  r.nr = 0 /\ r.path # <<>> /\ r.dir # Null /\ r.ino = Null /\ r.op \in {"creat", "mknod", "mkdir"}
HasBoth(r) == r.dir # Null /\ r.ino # Null /\ r.emp = Null /\ r.puts = <<>>
Filling(r) == HasBoth(r) /\ r.path # <<>>
HasNone(r) == r.dir = Null /\ r.ino = Null /\ r.emp = Null /\ r.puts = <<>>
HasIno(r) == r.dir = Null /\ r.ino # Null /\ r.emp = Null /\ r.puts = <<>>
Giving(r) ==
  /\ r.puts # <<>> /\ Len(r.puts) <= 2 /\ r.emp = Null
  /\ r.then = "end" => r.dir = Null /\ r.ino = Null
  /\ r.then = "empty" => Hunting(r)
  /\ r.then \in {"opened", "linked", "undo"} => r.dir = Null /\ r.ino # Null
  /\ r.then = "opened" => r.op = "creat"

Shape(r, f) ==
  /\ r.pc = "user" => r = Idle
  /\ r.pc # "user" /\ r.op \in {"open", "creat"} => f = Null
  /\ r.pc # "user" /\ r.op = "link" => r.to # <<>>
  /\ r.pc = "find" =>
       r.dir # Null /\ r.emp = Null /\ r.puts = <<>> /\ r.path # <<>> /\ (r.ino # Null => r.op = "link")
  /\ r.pc = "empty" => r.emp = Null /\ r.puts = <<>> /\ (Hunting(r) \/ Making(r))
  /\ r.pc \in {"scan", "read"} => r.emp # Null /\ r.puts = <<>> /\ Hunting(r)
  /\ r.pc = "new" => r.emp # Null /\ r.puts = <<>> /\ Making(r)
  /\ r.pc = "got" => r.ino # Null /\ r.emp = Null /\ r.puts = <<>> /\ (r.dir # Null <=> Removes(r))
  /\ r.pc \in {"alloc", "clear", "zone"} =>
       \/ r.ret \in {"dots", "add"} /\ Filling(r)
       \/ r.ret = "written" /\ HasNone(r) /\ f # Null
  /\ r.pc \in {"dots", "add"} => Filling(r)
  /\ r.pc = "empty_dir" => HasBoth(r) /\ r.ino # r.dir
  /\ r.pc \in {"opened", "linked", "undo"} => HasIno(r)
  /\ r.pc = "opened" => r.op \in {"open", "creat"}
  /\ r.pc \in {"put", "put_write", "free"} => Giving(r)
  /\ r.pc = "truncate" =>
       \/ r.ret = "free" /\ Giving(r)
       \/ r.ret = "opened" /\ HasIno(r) /\ r.op = "creat"
  /\ r.pc = "written" => HasNone(r) /\ f # Null
  /\ r.pc = "sync" => HasNone(r)
  /\ r.pc = "sync_write" => r.dir = Null /\ r.ino = Null /\ r.puts = <<>> /\ r.emp # Null
  /\ r.pc # "end"

Shaped == \A t \in Task : Shape(l[t], fd[t])

(* The inodes that a task has got, and not only reserved.                  *)
First(r) == IF Len(r.puts) >= 1 THEN r.puts[1] ELSE Null
Second(r) == IF Len(r.puts) >= 2 THEN r.puts[2] ELSE Null
Named(r, f) == {f, r.dir, r.ino, First(r), Second(r)} \ {Null}
Numbered ==
  \A t \in Task :
    /\ \A s \in Named(l[t], fd[t]) : inode[s].num # 0
    /\ l[t].pc = "read" => inode[l[t].emp].num = l[t].nr
    /\ l[t].pc \in {"scan", "new"} => inode[l[t].emp].num = 0 /\ inode[l[t].emp].count = 1

Tidy == inode[RootSlot].num = ROOT_INO /\ \A s \in Slot : inode[s].count = 0 \/ inode[s].num = 0 => Clean(s)

Exact == \A s \in Slot : inode[s].count = Cardinality(References(s)) + (IF s = RootSlot THEN 1 ELSE 0)

IInv == Types /\ Shaped /\ Numbered /\ Tidy /\ Exact

-----------------------------------------------------------------------------
(* Constants.                                                              *)
LEMMA Numbers ==
  /\ NInode \in Nat /\ NBlock \in Nat /\ NZone \in Nat /\ K \in Nat
  /\ NBlock >= 2 /\ NZone >= 2 /\ K >= 2 /\ NZone * K \in Nat /\ NZone * K >= 4
  /\ 0 \in Zone /\ 0 \in Sizes /\ 1 \in Sizes /\ 2 \in Sizes
  /\ ROOT_INO \in Num /\ ROOT_INO # 0
<1>1. /\ NInode \in Nat /\ NBlock \in Nat /\ NZone \in Nat /\ K \in Nat
      /\ NBlock >= 2 /\ NZone >= 2 /\ K >= 2
  BY FileSystemAssumption DEF RootZones
<1>2. NZone * K >= 4 /\ NZone * K \in Nat
  <2>1. \A a, b \in Nat : a >= 2 /\ b >= 2 => a * b \in Nat /\ a * b >= 4
    <3> TAKE a, b \in Nat
    <3> SUFFICES ASSUME a >= 2, b >= 2 PROVE a * b \in Nat /\ a * b >= 4
      OBVIOUS
    <3>1. a * b >= 2 * b
      OBVIOUS
    <3>2. a * b \in Nat
      OBVIOUS
    <3> QED
      BY <3>1, <3>2
  <2> QED
    BY <1>1, <2>1
<1>3. Cardinality(Shared) \in Nat
  BY FileSystemAssumption, FS_CardinalityType
<1>4. NInode >= 1
  BY <1>1, <1>3, FileSystemAssumption
<1> QED
  BY <1>1, <1>2, <1>4 DEF Zone, Sizes, ROOT_INO, Num

LEMMA Outside == Null \notin Slot /\ RootSlot \in Slot /\ Nobody \notin Task /\ IsFiniteSet(Task)
BY FileSystemAssumption

-----------------------------------------------------------------------------
(* The references of one task, and those of the others.                    *)
Reserved(r) == IF r.pc = "sync_write" THEN Null ELSE r.emp
Own(r, f, s) ==
  (IF f = s THEN 1 ELSE 0) + (IF r.dir = s THEN 1 ELSE 0) + (IF r.ino = s THEN 1 ELSE 0)
    + (IF Reserved(r) = s THEN 1 ELSE 0) + (IF First(r) = s THEN 1 ELSE 0) + (IF Second(r) = s THEN 1 ELSE 0)
Others(t, s) == {p \in References(s) : p[1] # t}

LEMMA OwnTypes == \A r, f, s : Own(r, f, s) \in Nat
BY DEF Own

LEMMA AddIf ==
  ASSUME NEW S, IsFiniteSet(S), NEW x, x \notin S, NEW b \in BOOLEAN
  PROVE  /\ IsFiniteSet(S \cup (IF b THEN {x} ELSE {}))
         /\ Cardinality(S \cup (IF b THEN {x} ELSE {})) = Cardinality(S) + (IF b THEN 1 ELSE 0)
<1>1. Cardinality(S) \in Nat
  BY FS_CardinalityType
<1>2. CASE b
  <2>1. IsFiniteSet(S \cup {x}) /\ Cardinality(S \cup {x}) = Cardinality(S) + 1
    BY FS_AddElement
  <2> QED
    BY <1>2, <2>1
<1>3. CASE ~b
  <2>1. S \cup {} = S
    OBVIOUS
  <2> QED
    BY <1>1, <1>3, <2>1
<1> QED
  BY <1>2, <1>3

(* Which positions of Pointers() are which.                                *)
Spot(t, i) ==
  CASE i = 1 -> fd[t] [] i = 2 -> l[t].dir [] i = 3 -> l[t].ino [] i = 4 -> Reserved(l[t])
    [] i = 5 -> First(l[t]) [] i = 6 -> Second(l[t])

LEMMA PointersAre ==
  ASSUME NEW t \in Task, l[t].puts \in Seq(Slot), Len(l[t].puts) <= 2, NEW s \in Slot, NEW i \in 1 .. 6
  PROVE  i <= Len(Pointers(t)) /\ Pointers(t)[i] = s <=> Spot(t, i) = s
<1> DEFINE P == l[t].puts
           e == IF l[t].pc = "sync_write" THEN Null ELSE l[t].emp
           Q == <<fd[t], l[t].dir, l[t].ino, e>>
<1>0. P \in Seq(Slot) /\ Len(P) <= 2
  OBVIOUS
<1>2. Pointers(t) = Q \o P
  BY DEF Pointers
<1> HIDE DEF P
<1>1. Len(P) \in 0 .. 2 /\ \A j \in 1 .. Len(P) : P[j] \in Slot
  <2>1. \A q \in Seq(Slot) : Len(q) \in Nat /\ \A j \in 1 .. Len(q) : q[j] \in Slot
    OBVIOUS
  <2>2. \A n \in Nat : n <= 2 => n \in 0 .. 2
    OBVIOUS
  <2> QED
    BY <1>0, <2>1, <2>2
<1>3. Len(Q \o P) = 4 + Len(P) /\ Q[1] = fd[t] /\ Q[2] = l[t].dir /\ Q[3] = l[t].ino /\ Q[4] = e
      /\ \A j \in 1 .. 4 + Len(P) : (Q \o P)[j] = IF j <= 4 THEN Q[j] ELSE P[j - 4]
  <2>1. PICK S : S = {fd[t], l[t].dir, l[t].ino, e} \cup Slot
    OBVIOUS
  <2>2. Q \in Seq(S) /\ P \in Seq(S) /\ Len(Q) = 4
    BY <1>0, <2>1
  <2>3. \A j \in 1 .. 4 + Len(P) : (Q \o P)[j] = IF j <= 4 THEN Q[j] ELSE P[j - 4]
    BY <2>2
  <2> QED
    BY <2>2, <2>3
<1> HIDE DEF Q
<1>4. Null # s
  BY Outside
<1>5. CASE i \in 1 .. 4
  <2>1. i <= 4 + Len(P) /\ (Q \o P)[i] = Q[i]
    BY <1>1, <1>3, <1>5
  <2>2. Spot(t, i) = Q[i]
    BY <1>3, <1>5 DEF Spot, Reserved
  <2> QED
    BY <1>2, <1>3, <2>1, <2>2
<1>6. CASE i = 5
  <2>1. Spot(t, i) = First(l[t])
    BY <1>6 DEF Spot
  <2>2. CASE Len(P) >= 1
    <3>1. First(l[t]) = P[1] /\ (Q \o P)[5] = P[1] /\ 5 <= 4 + Len(P)
      BY <1>1, <1>3, <2>2 DEF First, P
    <3> QED
      BY <1>2, <1>3, <1>6, <2>1, <3>1
  <2>3. CASE ~(Len(P) >= 1)
    <3>1. First(l[t]) = Null /\ ~(5 <= 4 + Len(P))
      BY <1>1, <2>3 DEF First, P
    <3> QED
      BY <1>2, <1>3, <1>4, <1>6, <2>1, <3>1
  <2> QED
    BY <2>2, <2>3
<1>7. CASE i = 6
  <2>1. Spot(t, i) = Second(l[t])
    BY <1>7 DEF Spot
  <2>2. CASE Len(P) >= 2
    <3>1. Second(l[t]) = P[2] /\ (Q \o P)[6] = P[2] /\ 6 <= 4 + Len(P)
      BY <1>1, <1>3, <2>2 DEF Second, P
    <3> QED
      BY <1>2, <1>3, <1>7, <2>1, <3>1
  <2>3. CASE ~(Len(P) >= 2)
    <3>1. Second(l[t]) = Null /\ ~(6 <= 4 + Len(P))
      BY <1>1, <2>3 DEF Second, P
    <3> QED
      BY <1>2, <1>3, <1>4, <1>7, <2>1, <3>1
  <2> QED
    BY <2>2, <2>3
<1> QED
  BY <1>5, <1>6, <1>7

LEMMA Tallied ==
  ASSUME NEW t \in Task, l[t].puts \in Seq(Slot), Len(l[t].puts) <= 2, NEW s \in Slot
  PROVE  /\ IsFiniteSet(Others(t, s)) /\ Cardinality(Others(t, s)) \in Nat
         /\ Cardinality(References(s)) = Cardinality(Others(t, s)) + Own(l[t], fd[t], s)
<1>1. IsFiniteSet(Task \X (1 .. 6))
  <2>0. 1 \in Int /\ 6 \in Int
    OBVIOUS
  <2>1. IsFiniteSet(1 .. 6)
    BY <2>0, FS_Interval
  <2> QED
    BY <2>1, Outside, FS_Product
<1>2. IsFiniteSet(Others(t, s)) /\ Cardinality(Others(t, s)) \in Nat
  <2>1. Others(t, s) \subseteq Task \X (1 .. 6)
    BY DEF Others, References
  <2> QED
    BY <1>1, <2>1, FS_Subset, FS_CardinalityType
<1> DEFINE b(i) == Spot(t, i) = s
           A(i) == IF b(i) THEN {<<t, i>>} ELSE {}
           S1 == Others(t, s) \cup A(1)
           S2 == S1 \cup A(2)
           S3 == S2 \cup A(3)
           S4 == S3 \cup A(4)
           S5 == S4 \cup A(5)
           S6 == S5 \cup A(6)
           n(i) == IF b(i) THEN 1 ELSE 0
<1>3. \A i \in 1 .. 6 : b(i) \in BOOLEAN
  OBVIOUS
<1>4. References(s) = S6
  <2>1. \A p \in References(s) : p[1] = t => p \in A(1) \cup A(2) \cup A(3) \cup A(4) \cup A(5) \cup A(6)
    <3> SUFFICES ASSUME NEW p \in References(s), p[1] = t
                 PROVE  p \in A(1) \cup A(2) \cup A(3) \cup A(4) \cup A(5) \cup A(6)
      OBVIOUS
    <3>1. PICK i \in 1 .. 6 : p = <<t, i>> /\ i <= Len(Pointers(t)) /\ Pointers(t)[i] = s
      BY DEF References
    <3>2. b(i)
      BY <3>1, PointersAre
    <3>3. p \in A(i)
      BY <3>1, <3>2
    <3> HIDE DEF A, b
    <3> QED
      BY <3>3
  <2>2. \A i \in 1 .. 6 : A(i) \subseteq References(s)
    <3> SUFFICES ASSUME NEW i \in 1 .. 6, b(i) PROVE <<t, i>> \in References(s)
      OBVIOUS
    <3>1. i <= Len(Pointers(t)) /\ Pointers(t)[i] = s
      BY PointersAre
    <3> QED
      BY <3>1 DEF References
  <2>3. A(1) \cup A(2) \cup A(3) \cup A(4) \cup A(5) \cup A(6) \subseteq References(s)
    <3> HIDE DEF A
    <3> QED
      BY <2>2
  <2> HIDE DEF A
  <2>4. Others(t, s) \subseteq References(s)
    BY DEF Others
  <2>5. References(s) \subseteq Others(t, s) \cup A(1) \cup A(2) \cup A(3) \cup A(4) \cup A(5) \cup A(6)
    BY <2>1 DEF Others
  <2> QED
    BY <2>3, <2>4, <2>5
<1>5. /\ <<t, 1>> \notin Others(t, s) /\ <<t, 2>> \notin S1 /\ <<t, 3>> \notin S2
      /\ <<t, 4>> \notin S3 /\ <<t, 5>> \notin S4 /\ <<t, 6>> \notin S5
  BY DEF Others
<1>6. IsFiniteSet(S1) /\ Cardinality(S1) = Cardinality(Others(t, s)) + n(1)
  BY <1>2, <1>3, <1>5, AddIf
<1> HIDE DEF S1
<1>7. IsFiniteSet(S2) /\ Cardinality(S2) = Cardinality(S1) + n(2)
  BY <1>3, <1>5, <1>6, AddIf
<1> HIDE DEF S2
<1>8. IsFiniteSet(S3) /\ Cardinality(S3) = Cardinality(S2) + n(3)
  BY <1>3, <1>5, <1>7, AddIf
<1> HIDE DEF S3
<1>9. IsFiniteSet(S4) /\ Cardinality(S4) = Cardinality(S3) + n(4)
  BY <1>3, <1>5, <1>8, AddIf
<1> HIDE DEF S4
<1>10. IsFiniteSet(S5) /\ Cardinality(S5) = Cardinality(S4) + n(5)
  BY <1>3, <1>5, <1>9, AddIf
<1> HIDE DEF S5
<1>11. IsFiniteSet(S6) /\ Cardinality(S6) = Cardinality(S5) + n(6)
  BY <1>3, <1>5, <1>10, AddIf
<1> HIDE DEF S6
<1>12. Own(l[t], fd[t], s) = n(1) + n(2) + n(3) + n(4) + n(5) + n(6)
  <2>1. /\ Spot(t, 1) = fd[t] /\ Spot(t, 2) = l[t].dir /\ Spot(t, 3) = l[t].ino
        /\ Spot(t, 4) = Reserved(l[t]) /\ Spot(t, 5) = First(l[t]) /\ Spot(t, 6) = Second(l[t])
    BY DEF Spot
  <2>2. /\ n(1) = (IF fd[t] = s THEN 1 ELSE 0) /\ n(2) = (IF l[t].dir = s THEN 1 ELSE 0)
        /\ n(3) = (IF l[t].ino = s THEN 1 ELSE 0) /\ n(4) = (IF Reserved(l[t]) = s THEN 1 ELSE 0)
        /\ n(5) = (IF First(l[t]) = s THEN 1 ELSE 0) /\ n(6) = (IF Second(l[t]) = s THEN 1 ELSE 0)
    BY <2>1
  <2> HIDE DEF n
  <2> QED
    BY <2>2 DEF Own
<1>13. n(1) \in Nat /\ n(2) \in Nat /\ n(3) \in Nat /\ n(4) \in Nat /\ n(5) \in Nat /\ n(6) \in Nat
  OBVIOUS
<1> HIDE DEF n
<1>14. PICK c \in Nat : c = Cardinality(Others(t, s))
  BY <1>2
<1>15. PICK a1, a2, a3, a4, a5, a6 \in Nat :
         a1 = n(1) /\ a2 = n(2) /\ a3 = n(3) /\ a4 = n(4) /\ a5 = n(5) /\ a6 = n(6)
  BY <1>13
<1>16. /\ Cardinality(S3) = c + a1 + a2 + a3 /\ Cardinality(S6) = Cardinality(S3) + a4 + a5 + a6
  BY <1>6, <1>7, <1>8, <1>9, <1>10, <1>11, <1>14, <1>15
<1>17. Cardinality(S6) = c + Own(l[t], fd[t], s)
  <2>1. Own(l[t], fd[t], s) = a1 + a2 + a3 + a4 + a5 + a6
    BY <1>12, <1>15
  <2>2. Cardinality(S6) = c + a1 + a2 + a3 + a4 + a5 + a6
    BY <1>16
  <2>3. Cardinality(S6) = c + (a1 + a2 + a3 + a4 + a5 + a6)
    BY <2>2
  <2> QED
    BY <2>1, <2>3
<1> QED
  BY <1>2, <1>4, <1>14, <1>17

(* A task that changes its own pointers, and the counts by as much.        *)
OnlyTask(t) == \A u \in Task \ {t} : l'[u] = l[u] /\ fd'[u] = fd[u]
Balanced(t) ==
  \A s \in Slot :
    inode'[s].count = inode[s].count + Own(l'[t], fd'[t], s) - Own(l[t], fd[t], s)

LEMMA Brief ==
  ASSUME NEW r \in Local, NEW f, Shape(r, f) PROVE r.puts \in Seq(Slot) /\ Len(r.puts) <= 2
<1>1. r.puts \in Seq(Slot) /\ r.pc \in Places
  BY DEF Local
<1>2. r.puts = <<>> \/ Len(r.puts) <= 2 \/ r.pc = "user"
  BY <1>1 DEF Shape, Places, Hunting, Making, HasBoth, HasNone, HasIno, Filling, Giving
<1>3. r.pc = "user" => r.puts = <<>>
  BY DEF Shape, Idle
<1>4. r.puts = <<>> => Len(r.puts) <= 2
  OBVIOUS
<1> QED
  BY <1>1, <1>2, <1>3, <1>4

Tally ==
  \A t \in Task, s \in Slot :
    /\ IsFiniteSet(Others(t, s)) /\ Cardinality(Others(t, s)) \in Nat
    /\ Cardinality(References(s)) = Cardinality(Others(t, s)) + Own(l[t], fd[t], s)

LEMMA Tallies == ASSUME Types, Shaped PROVE Tally
<1> SUFFICES ASSUME NEW t \in Task, NEW s \in Slot
             PROVE  /\ IsFiniteSet(Others(t, s)) /\ Cardinality(Others(t, s)) \in Nat
                    /\ Cardinality(References(s)) = Cardinality(Others(t, s)) + Own(l[t], fd[t], s)
  BY DEF Tally
<1>1. l[t] \in Local /\ Shape(l[t], fd[t])
  BY DEF Types, Shaped
<1>2. l[t].puts \in Seq(Slot) /\ Len(l[t].puts) <= 2
  BY <1>1, Brief
<1> QED
  BY <1>2, Tallied

LEMMA TalliesNext == (Types /\ Shaped => Tally)'
<1>1. Types /\ Shaped => Tally
  BY Tallies
<1> QED
  BY <1>1, PTL

LEMMA OthersKept ==
  ASSUME NEW t \in Task, NEW s \in Slot, OnlyTask(t)
  PROVE  Others(t, s)' = Others(t, s)
<1>1. \A u \in Task \ {t} : Pointers(u)' = Pointers(u)
  BY DEF OnlyTask, Pointers
<1>2. \A p \in Task \X (1 .. 6) : p[1] \in Task
  OBVIOUS
<1> HIDE DEF Pointers
<1> QED
  BY <1>1, <1>2 DEF Others, References

LEMMA Recount ==
  ASSUME Types, Shaped, Exact, Types', Shaped', NEW t \in Task, OnlyTask(t), Balanced(t)
  PROVE  Exact'
<1>1. Tally /\ Tally'
  BY Tallies, TalliesNext
<1> SUFFICES ASSUME NEW s \in Slot
             PROVE  inode'[s].count = Cardinality(References(s)') + (IF s = RootSlot THEN 1 ELSE 0)
  BY DEF Exact
<1>2. PICK c \in Nat : c = Cardinality(Others(t, s))
  BY <1>1 DEF Tally
<1>3. PICK a, b \in Nat : a = Own(l[t], fd[t], s) /\ b = Own(l'[t], fd'[t], s)
  BY OwnTypes
<1>4. Cardinality(References(s)) = c + a
  BY <1>1, <1>2, <1>3 DEF Tally
<1>5. Cardinality(References(s)') = Cardinality(Others(t, s)') + b
  BY <1>1, <1>3 DEF Tally
<1>6. Cardinality(References(s)') = c + b
  BY <1>2, <1>5, OthersKept
<1>7. PICK e \in {0, 1} : e = IF s = RootSlot THEN 1 ELSE 0
  OBVIOUS
<1>8. inode[s].count = c + a + e
  BY <1>4, <1>7 DEF Exact
<1>9. inode'[s].count = inode[s].count + b - a
  BY <1>3 DEF Balanced
<1>10. inode'[s].count = c + b + e
  BY <1>8, <1>9
<1> QED
  BY <1>6, <1>7, <1>10

-----------------------------------------------------------------------------
(* What the invariant says of a task and of the inodes in its hands.       *)
LEMMA Facts ==
  ASSUME IInv, NEW t \in Task
  PROVE  /\ l[t] \in Local /\ fd[t] \in Pointer /\ Shape(l[t], fd[t])
         /\ l[t].puts \in Seq(Slot) /\ Len(l[t].puts) <= 2
         /\ inode \in [Slot -> Inode] /\ l \in [Task -> Local] /\ fd \in [Task -> Pointer]
<1>1. Types /\ Shaped
  BY DEF IInv
<1>2. l[t] \in Local /\ fd[t] \in Pointer /\ Shape(l[t], fd[t])
  BY <1>1 DEF Types, Shaped
<1>3. l[t].puts \in Seq(Slot) /\ Len(l[t].puts) <= 2
  BY <1>2, Brief
<1> QED
  BY <1>1, <1>2, <1>3 DEF Types

LEMMA Hands ==
  ASSUME NEW r \in Local, NEW f \in Pointer, r.puts \in Seq(Slot)
  PROVE  /\ First(r) \in Pointer /\ Second(r) \in Pointer /\ Reserved(r) \in Pointer
         /\ Named(r, f) \subseteq Slot
         /\ \A s \in Slot : Own(r, f, s) = 0 <=> s \notin Named(r, f) /\ Reserved(r) # s
<1>1. First(r) \in Pointer /\ Second(r) \in Pointer
  BY DEF First, Second, Pointer
<1>2. Reserved(r) \in Pointer /\ r.dir \in Pointer /\ r.ino \in Pointer
  BY DEF Reserved, Local, Pointer
<1>3. \A s \in Slot : Own(r, f, s) = 0 <=> s \notin Named(r, f) /\ Reserved(r) # s
  BY Outside DEF Own, Named
<1> QED
  BY <1>1, <1>2, <1>3 DEF Named, Pointer

LEMMA Pointed ==
  ASSUME IInv, NEW s \in Slot, NEW u \in Task, Own(l[u], fd[u], s) # 0
  PROVE  \E i \in 1 .. 6 : <<u, i>> \in References(s)
<1>1. \E i \in 1 .. 6 : Spot(u, i) = s
  BY DEF Own, Spot
<1>2. l[u].puts \in Seq(Slot) /\ Len(l[u].puts) <= 2
  BY Facts
<1>3. PICK i \in 1 .. 6 : Spot(u, i) = s
  BY <1>1
<1>4. i <= Len(Pointers(u)) /\ Pointers(u)[i] = s
  BY <1>2, <1>3, PointersAre
<1> QED
  BY <1>4 DEF References

(* An inode without a reference, and one with only that of a task.         *)
LEMMA Sole ==
  ASSUME IInv, NEW t \in Task, NEW s \in Slot,
         inode[s].count <= 1 /\ (inode[s].count = 1 => Own(l[t], fd[t], s) >= 1)
  PROVE  /\ s # RootSlot /\ \A u \in Task \ {t} : Own(l[u], fd[u], s) = 0
         /\ Own(l[t], fd[t], s) = inode[s].count
<1>1. Tally
  BY Tallies DEF IInv
<1>2. PICK c \in Nat : c = Cardinality(Others(t, s)) /\ IsFiniteSet(Others(t, s))
  BY <1>1 DEF Tally
<1>3. PICK a \in Nat : a = Own(l[t], fd[t], s)
  BY OwnTypes
<1>4. inode[s].count \in Nat
  BY Facts DEF Inode
<1>5. PICK e \in {0, 1} : e = IF s = RootSlot THEN 1 ELSE 0
  OBVIOUS
<1>6. inode[s].count = c + a + e
  BY <1>1, <1>2, <1>3, <1>5 DEF Exact, IInv, Tally
<1>7. c = 0 /\ e = 0 /\ a = inode[s].count
  BY <1>3, <1>4, <1>6
<1>8. Others(t, s) = {}
  BY <1>2, <1>7, FS_EmptySet
<1>9. ASSUME NEW u \in Task \ {t} PROVE Own(l[u], fd[u], s) = 0
  <2>1. SUFFICES ASSUME Own(l[u], fd[u], s) # 0 PROVE FALSE
    OBVIOUS
  <2>2. PICK i \in 1 .. 6 : <<u, i>> \in References(s)
    BY <2>1, Pointed
  <2>3. <<u, i>> \in Others(t, s)
    BY <2>2 DEF Others
  <2> QED
    BY <1>8, <2>3
<1> QED
  BY <1>3, <1>5, <1>7, <1>9

LEMMA Counted ==
  ASSUME IInv, NEW t \in Task, NEW s \in Slot
  PROVE  inode[s].count >= Own(l[t], fd[t], s) + (IF s = RootSlot THEN 1 ELSE 0)
<1>1. Tally
  BY Tallies DEF IInv
<1>2. PICK c \in Nat : c = Cardinality(Others(t, s))
  BY <1>1 DEF Tally
<1>3. PICK a \in Nat : a = Own(l[t], fd[t], s)
  BY OwnTypes
<1>4. PICK e \in {0, 1} : e = IF s = RootSlot THEN 1 ELSE 0
  OBVIOUS
<1>5. inode[s].count = c + a + e
  BY <1>1, <1>2, <1>3, <1>4 DEF Exact, IInv, Tally
<1>6. inode[s].count >= a + e
  BY <1>5
<1> QED
  BY <1>3, <1>4, <1>6

LEMMA NamedHeld ==
  ASSUME IInv, NEW t \in Task, NEW s \in Named(l[t], fd[t])
  PROVE  s \in Slot /\ inode[s].count >= 1 /\ inode[s].num # 0
<1>1. l[t] \in Local /\ fd[t] \in Pointer /\ l[t].puts \in Seq(Slot)
  BY Facts
<1>2. s \in Slot
  BY <1>1, Hands
<1>3. PICK a \in Nat : a = Own(l[t], fd[t], s)
  BY OwnTypes
<1>4. a # 0
  BY <1>1, <1>2, <1>3, Hands
<1>5. inode[s].count \in Nat /\ inode[s].count >= a
  <2>1. inode[s].count \in Nat
    BY <1>2, Facts DEF Inode
  <2>2. PICK e \in {0, 1} : e = IF s = RootSlot THEN 1 ELSE 0
    OBVIOUS
  <2>3. inode[s].count >= a + e
    BY <1>2, <1>3, <2>2, Counted
  <2> QED
    BY <2>1, <2>3
<1>6. inode[s].count >= 1
  BY <1>4, <1>5
<1> QED
  BY <1>2, <1>6 DEF IInv, Numbered

LEMMA ReservedHeld ==
  ASSUME IInv, NEW t \in Task, l[t].pc \in {"scan", "new"}
  PROVE  /\ l[t].emp \in Slot /\ Reserved(l[t]) = l[t].emp /\ l[t].emp # RootSlot
         /\ inode[l[t].emp].num = 0 /\ inode[l[t].emp].count = 1
         /\ l[t].emp \notin Named(l[t], fd[t])
         /\ \A u \in Task \ {t} : Own(l[u], fd[u], l[t].emp) = 0
<1>1. l[t] \in Local /\ fd[t] \in Pointer /\ Shape(l[t], fd[t]) /\ l[t].puts \in Seq(Slot)
  BY Facts
<1>2. l[t].emp \in Slot
  BY <1>1 DEF Shape, Local, Pointer
<1>3. Reserved(l[t]) = l[t].emp
  BY DEF Reserved
<1>4. inode[l[t].emp].num = 0 /\ inode[l[t].emp].count = 1
  BY DEF IInv, Numbered
<1>5. l[t].emp # RootSlot
  BY <1>4, Numbers DEF IInv, Tidy
<1>6. Own(l[t], fd[t], l[t].emp) # 0
  BY <1>1, <1>2, <1>3, Hands
<1>7. Own(l[t], fd[t], l[t].emp) >= 1
  BY <1>6, OwnTypes
<1>8. \A u \in Task \ {t} : Own(l[u], fd[u], l[t].emp) = 0
  BY <1>2, <1>4, <1>7, Sole
<1>9. l[t].emp \notin Named(l[t], fd[t])
  BY <1>4, NamedHeld
<1> QED
  BY <1>2, <1>3, <1>4, <1>5, <1>8, <1>9

-----------------------------------------------------------------------------
(* A task goes on with the local variables q, and f for its open file.     *)
Moves(t, q, f) ==
  /\ q \in Local /\ f \in Pointer /\ Shape(q, f)
  /\ l' = [l EXCEPT ![t] = q] /\ fd' = [fd EXCEPT ![t] = f]
  /\ cpu' \in Task \cup {Nobody} /\ prog' = prog

LEMMA Moved ==
  ASSUME IInv, NEW t \in Task, NEW q, NEW f, Moves(t, q, f), inode' \in [Slot -> Inode], Stored'
  PROVE  Types' /\ Shaped' /\ OnlyTask(t) /\ l'[t] = q /\ fd'[t] = f
<1>1. l \in [Task -> Local] /\ fd \in [Task -> Pointer] /\ prog \in Programs
  BY DEF IInv, Types
<1>2. l' \in [Task -> Local] /\ fd' \in [Task -> Pointer] /\ l'[t] = q /\ fd'[t] = f
  BY <1>1 DEF Moves
<1>3. OnlyTask(t)
  BY <1>1 DEF Moves, OnlyTask
<1>4. Types'
  BY <1>1, <1>2 DEF Moves, Types
<1>5. Shaped'
  <2> SUFFICES ASSUME NEW u \in Task PROVE Shape(l'[u], fd'[u])
    BY DEF Shaped
  <2>1. CASE u = t
    BY <1>2, <2>1 DEF Moves
  <2>2. CASE u # t
    BY <1>3, <2>2, Facts DEF OnlyTask
  <2> QED
    BY <2>1, <2>2
<1> QED
  BY <1>2, <1>3, <1>4, <1>5

Changes(t, q, f) ==
  \A s \in Slot : inode'[s].count = inode[s].count + Own(q, f, s) - Own(l[t], fd[t], s)

LEMMA Preserved ==
  ASSUME IInv, NEW t \in Task, NEW q, NEW f, Moves(t, q, f), inode' \in [Slot -> Inode], Stored',
         Changes(t, q, f), Numbered', Tidy'
  PROVE  IInv'
<1>1. Types' /\ Shaped' /\ OnlyTask(t) /\ l'[t] = q /\ fd'[t] = f
  BY Moved
<1>2. Balanced(t)
  BY <1>1 DEF Changes, Balanced
<1>3. Types /\ Shaped /\ Exact
  BY DEF IInv
<1>4. Exact'
  BY <1>1, <1>2, <1>3, Recount
<1> QED
  BY <1>1, <1>4 DEF IInv

(* The same pointers in other hands, and inodes that keep their numbers.   *)
Carries(r, f, q, g) ==
  /\ q \in Local /\ g \in Pointer /\ Shape(q, g)
  /\ Named(q, g) \subseteq Named(r, f)
  /\ \A s \in Slot : Own(q, g, s) = Own(r, f, s)
  /\ q.pc \notin {"scan", "new", "read"}

Edited(t) ==
  /\ inode' \in [Slot -> Inode]
  /\ \A s \in Slot :
       /\ inode'[s].num = inode[s].num /\ inode'[s].count = inode[s].count
       /\ inode'[s].lock = inode[s].lock
       /\ inode'[s].dirt = inode[s].dirt \/ s \in Named(l[t], fd[t])

(* What the other tasks know of the inodes' numbers.                       *)
NumberedFor(u) ==
  /\ \A s \in Named(l[u], fd[u]) : inode[s].num # 0
  /\ l[u].pc = "read" => inode[l[u].emp].num = l[u].nr
  /\ l[u].pc \in {"scan", "new"} => inode[l[u].emp].num = 0 /\ inode[l[u].emp].count = 1

LEMMA Steady ==
  ASSUME IInv, NEW t \in Task, NEW q, NEW f, Moves(t, q, f), Stored', inode' \in [Slot -> Inode],
         \A s \in Slot : inode'[s].num = inode[s].num /\ inode'[s].count = inode[s].count,
         \A s \in Slot : inode[s].count = 0 \/ inode[s].num = 0 => Clean(s)',
         \A s \in Slot : Own(q, f, s) = Own(l[t], fd[t], s),
         \A s \in Named(q, f) : s \in Slot /\ inode[s].num # 0,
         q.pc \notin {"scan", "new", "read"}
  PROVE  IInv'
<1>1. Types' /\ Shaped' /\ OnlyTask(t) /\ l'[t] = q /\ fd'[t] = f
  BY Moved
<1>2. Changes(t, q, f)
  <2> SUFFICES ASSUME NEW s \in Slot
               PROVE  inode'[s].count = inode[s].count + Own(q, f, s) - Own(l[t], fd[t], s)
    BY DEF Changes
  <2>1. Own(q, f, s) = Own(l[t], fd[t], s) /\ inode'[s].count = inode[s].count
    OBVIOUS
  <2>2. PICK a \in Nat : a = Own(l[t], fd[t], s)
    BY OwnTypes
  <2>3. inode[s].count \in Nat
    BY Facts DEF Inode
  <2> QED
    BY <2>1, <2>2, <2>3
<1>3. Numbered'
  <2> SUFFICES ASSUME NEW u \in Task PROVE NumberedFor(u)'
    BY DEF Numbered, NumberedFor
  <2>1. NumberedFor(u)
    BY DEF IInv, Numbered, NumberedFor
  <2>2. \A s \in Slot : inode'[s].num = inode[s].num /\ inode'[s].count = inode[s].count
    OBVIOUS
  <2>3. CASE u = t
    BY <1>1, <2>2, <2>3 DEF NumberedFor
  <2>4. CASE u # t
    <3>1. l'[u] = l[u] /\ fd'[u] = fd[u]
      BY <1>1, <2>4 DEF OnlyTask
    <3>2. Named(l[u], fd[u]) \subseteq Slot
      BY NamedHeld
    <3>3. l[u].pc \in {"read", "scan", "new"} => l[u].emp \in Slot
      <4>1. l[u] \in Local /\ Shape(l[u], fd[u])
        BY Facts
      <4> QED
        BY <4>1 DEF Shape, Local, Pointer
    <3> QED
      BY <2>1, <2>2, <3>1, <3>2, <3>3 DEF NumberedFor
  <2> QED
    BY <2>3, <2>4
<1>4. Tidy'
  <2>1. inode'[RootSlot].num = ROOT_INO
    BY Outside DEF IInv, Tidy
  <2> QED
    BY <2>1 DEF Tidy
<1> QED
  BY <1>2, <1>3, <1>4, Preserved

LEMMA Edits ==
  ASSUME IInv, NEW t \in Task, NEW q, NEW f, Moves(t, q, f), Stored', Edited(t),
         Carries(l[t], fd[t], q, f)
  PROVE  IInv'
<1>1. \A s \in Slot : inode'[s].num = inode[s].num /\ inode'[s].count = inode[s].count
  BY DEF Edited
<1>2. ASSUME NEW s \in Slot, inode[s].count = 0 \/ inode[s].num = 0 PROVE Clean(s)'
  <2>1. s \notin Named(l[t], fd[t])
    <3>1. SUFFICES ASSUME s \in Named(l[t], fd[t]) PROVE FALSE
      OBVIOUS
    <3> QED
      BY <1>2, <3>1, NamedHeld
  <2>2. Clean(s)
    BY <1>2 DEF IInv, Tidy
  <2> QED
    BY <2>1, <2>2 DEF Edited, Clean
<1>3. \A s \in Named(q, f) : s \in Slot /\ inode[s].num # 0
  BY NamedHeld DEF Carries
<1> QED
  BY <1>1, <1>2, <1>3, Steady DEF Carries, Edited

-----------------------------------------------------------------------------
(* The local variables that the calls give up their pointers with.         *)
Frame(r, f) == (r.op \in {"open", "creat"} => f = Null) /\ (r.op = "link" => r.to # <<>>)

LEMMA Framed == ASSUME NEW r, NEW f, Shape(r, f), r.pc # "user" PROVE Frame(r, f)
BY DEF Shape, Frame

LEMMA Singles ==
  /\ \A a \in Slot : <<a>> \in Seq(Slot) /\ <<a>> # <<>> /\ Len(<<a>>) = 1 /\ <<a>>[1] = a
  /\ \A a, b \in Slot :
       <<a, b>> \in Seq(Slot) /\ <<a, b>> # <<>> /\ Len(<<a, b>>) = 2 /\ <<a, b>>[1] = a /\ <<a, b>>[2] = b
OBVIOUS

LEMMA Empties == ASSUME NEW r, r.puts = <<>> PROVE First(r) = Null /\ Second(r) = Null
BY DEF First, Second

(* What becomes of the pointers when the directory and the inode move to puts. *)
LEMMA Handed ==
  ASSUME NEW r \in Local, NEW f \in Pointer, Frame(r, f), r.emp = Null, r.puts = <<>>,
         NEW q \in Local, q.op = r.op, q.to = r.to, q.emp = Null, q.pc = "put", Giving(q),
         \/ q.puts = <<r.dir>> /\ q.dir = Null /\ r.dir # Null /\ q.ino = r.ino
         \/ q.puts = <<r.ino>> /\ q.ino = Null /\ r.ino # Null /\ q.dir = r.dir
         \/ q.puts = <<r.dir, r.ino>> /\ q.dir = Null /\ r.dir # Null /\ q.ino = Null /\ r.ino # Null
         \/ q.puts = <<r.ino, r.dir>> /\ q.dir = Null /\ r.dir # Null /\ q.ino = Null /\ r.ino # Null
  PROVE  Carries(r, f, q, f)
<1>1. Shape(q, f)
  BY DEF Shape, Frame
<1>2. First(r) = Null /\ Second(r) = Null /\ Reserved(r) = Null /\ Reserved(q) = Null
  BY Empties DEF Reserved
<1>3. (r.dir # Null => r.dir \in Slot) /\ (r.ino # Null => r.ino \in Slot)
  BY DEF Local, Pointer
<1>4. Null \notin Slot
  BY Outside
<1>5. CASE q.puts = <<r.dir>> /\ q.dir = Null /\ r.dir # Null /\ q.ino = r.ino
  <2>1. First(q) = r.dir /\ Second(q) = Null
    BY <1>3, <1>5, Singles DEF First, Second
  <2> QED
    BY <1>1, <1>2, <1>4, <1>5, <2>1 DEF Carries, Named, Own
<1>6. CASE q.puts = <<r.ino>> /\ q.ino = Null /\ r.ino # Null /\ q.dir = r.dir
  <2>1. First(q) = r.ino /\ Second(q) = Null
    BY <1>3, <1>6, Singles DEF First, Second
  <2> QED
    BY <1>1, <1>2, <1>4, <1>6, <2>1 DEF Carries, Named, Own
<1>7. CASE q.puts = <<r.dir, r.ino>> /\ q.dir = Null /\ r.dir # Null /\ q.ino = Null /\ r.ino # Null
  <2>1. First(q) = r.dir /\ Second(q) = r.ino
    BY <1>3, <1>7, Singles DEF First, Second
  <2> QED
    BY <1>1, <1>2, <1>4, <1>7, <2>1 DEF Carries, Named, Own
<1>8. CASE q.puts = <<r.ino, r.dir>> /\ q.dir = Null /\ r.dir # Null /\ q.ino = Null /\ r.ino # Null
  <2>1. First(q) = r.ino /\ Second(q) = r.dir
    BY <1>3, <1>8, Singles DEF First, Second
  <2> QED
    BY <1>1, <1>2, <1>4, <1>8, <2>1 DEF Carries, Named, Own
<1> QED
  BY <1>5, <1>6, <1>7, <1>8

LEMMA PutDirGoes ==
  ASSUME NEW r \in Local, NEW f \in Pointer, Frame(r, f), r.emp = Null, r.puts = <<>>, r.dir # Null,
         NEW then \in Afterwards,
         then = "end" => r.ino = Null,
         then = "empty" =>
           /\ r.nr # 0 /\ r.path # <<>> /\ (LastName(r) => r.ino = Null) /\ (r.ino # Null => r.op = "link")
           /\ ~(LastName(r) /\ Removes(r)),
         then \in {"opened", "linked", "undo"} => r.ino # Null,
         then = "opened" => r.op = "creat"
  PROVE  Carries(r, f, PutDir(r, then), f)
<1> DEFINE q == PutDir(r, then)
<1>1. r.dir \in Slot
  BY DEF Local, Pointer
<1>2. /\ q.pc = "put" /\ q.puts = <<r.dir>> /\ q.then = then /\ q.dir = Null /\ q.ino = r.ino
      /\ q.emp = r.emp /\ q.op = r.op /\ q.to = r.to /\ q.path = r.path /\ q.nr = r.nr
  BY DEF PutDir, Puts, Local
<1>3. <<r.dir>> \in Seq(Slot) /\ "put" \in Places /\ Null \in Pointer
  BY <1>1, Singles DEF Places, Pointer
<1>4. q \in Local
  BY <1>3 DEF PutDir, Puts, Local
<1> HIDE DEF q
<1>5. Giving(q)
  BY <1>1, <1>2, Singles DEF Giving, Hunting, LastName, Removes
<1> QED
  BY <1>2, <1>4, <1>5, Handed DEF q

LEMMA PutInoGoes ==
  ASSUME NEW r \in Local, NEW f \in Pointer, Frame(r, f), r.emp = Null, r.puts = <<>>, r.ino # Null,
         r.dir = Null
  PROVE  Carries(r, f, PutIno(r), f)
<1> DEFINE q == PutIno(r)
<1>1. r.ino \in Slot
  BY DEF Local, Pointer
<1>2. /\ q.pc = "put" /\ q.puts = <<r.ino>> /\ q.then = "end" /\ q.dir = r.dir /\ q.ino = Null
      /\ q.emp = r.emp /\ q.op = r.op /\ q.to = r.to
  BY DEF PutIno, Puts, Local
<1>3. <<r.ino>> \in Seq(Slot) /\ "put" \in Places /\ Null \in Pointer /\ "end" \in Afterwards
  BY <1>1, Singles DEF Places, Pointer, Afterwards
<1>4. q \in Local
  BY <1>3 DEF PutIno, Puts, Local
<1> HIDE DEF q
<1>5. Giving(q)
  BY <1>1, <1>2, Singles DEF Giving
<1> QED
  BY <1>2, <1>4, <1>5, Handed DEF q

LEMMA PutDirInoGoes ==
  ASSUME NEW r \in Local, NEW f \in Pointer, Frame(r, f), HasBoth(r)
  PROVE  Carries(r, f, PutDirIno(r), f) /\ Carries(r, f, PutInoDir(r), f)
<1> DEFINE q == PutDirIno(r)
           p == PutInoDir(r)
<1>1. r.ino \in Slot /\ r.dir \in Slot /\ r.emp = Null /\ r.puts = <<>> /\ r.dir # Null /\ r.ino # Null
  BY DEF Local, Pointer, HasBoth
<1>2. /\ q.pc = "put" /\ q.puts = <<r.dir, r.ino>> /\ q.then = "end" /\ q.dir = Null /\ q.ino = Null
      /\ q.emp = r.emp /\ q.op = r.op /\ q.to = r.to
      /\ p.pc = "put" /\ p.puts = <<r.ino, r.dir>> /\ p.then = "end" /\ p.dir = Null /\ p.ino = Null
      /\ p.emp = r.emp /\ p.op = r.op /\ p.to = r.to
  BY DEF PutDirIno, PutInoDir, Puts, Local
<1>3. /\ <<r.dir, r.ino>> \in Seq(Slot) /\ <<r.ino, r.dir>> \in Seq(Slot)
      /\ "put" \in Places /\ Null \in Pointer /\ "end" \in Afterwards
  BY <1>1, Singles DEF Places, Pointer, Afterwards
<1>4. q \in Local /\ p \in Local
  BY <1>3 DEF PutDirIno, PutInoDir, Puts, Local
<1> HIDE DEF q, p
<1>5. Giving(q) /\ Giving(p)
  BY <1>1, <1>2, Singles DEF Giving
<1>6. Carries(r, f, q, f)
  BY <1>1, <1>2, <1>4, <1>5, Handed
<1>7. Carries(r, f, p, f)
  BY <1>1, <1>2, <1>4, <1>5, Handed
<1> QED
  BY <1>6, <1>7 DEF q, p

LEMMA FailGoes ==
  ASSUME NEW r \in Local, NEW f \in Pointer, Frame(r, f), r.emp = Null, r.puts = <<>>, r.dir # Null
  PROVE  Carries(r, f, Fail(r), f)
<1>1. CASE r.ino = Null
  <2>1. "end" \in Afterwards
    BY DEF Afterwards
  <2> QED
    BY <1>1, <2>1, PutDirGoes DEF Fail
<1>2. CASE r.ino # Null
  BY <1>2, PutDirInoGoes DEF Fail, HasBoth
<1> QED
  BY <1>1, <1>2

(* get_dir(): the task gets a pointer to the inode s.                      *)
Gains(r, f, q, s) ==
  /\ q \in Local /\ Shape(q, f) /\ q.pc \in {"find", "put"}
  /\ Named(q, f) \subseteq Named(r, f) \cup {s}
  /\ \A x \in Slot : Own(q, f, x) = Own(r, f, x) + (IF x = s THEN 1 ELSE 0)

LEMMA GetDirGoes ==
  ASSUME NEW r \in Local, NEW f \in Pointer, Frame(r, f), r.emp = Null, r.puts = <<>>, r.dir = Null,
         r.ino # Null => r.op = "link", NEW s \in Slot, NEW i \in Inode,
         NEW path \in Seq(Name), path # <<>>
  PROVE  Gains(r, f, get_dir(r, s, i, path), s)
<1> DEFINE here == [r EXCEPT !.pc = "find", !.dir = s, !.path = path, !.at = 0, !.len = i.size]
<1>1. /\ here.pc = "find" /\ here.dir = s /\ here.path = path /\ here.ino = r.ino /\ here.emp = Null
      /\ here.puts = <<>> /\ here.op = r.op /\ here.to = r.to
  BY DEF Local
<1>2. i.size \in Sizes /\ "find" \in Places /\ s \in Pointer /\ s # Null /\ 0 \in Zone
  BY Outside, Numbers DEF Inode, Places, Pointer
<1>3. here \in Local
  BY <1>2 DEF Local
<1>4. get_dir(r, s, i, path) = IF i.kind = "dir" /\ permission(i) THEN here ELSE Fail(here)
  BY DEF get_dir
<1> HIDE DEF here
<1>5. Shape(here, f)
  BY <1>1, <1>2 DEF Shape, Frame
<1>6. Named(here, f) \subseteq Named(r, f) \cup {s}
  BY <1>1, Empties DEF Named
<1>7. ASSUME NEW x \in Slot PROVE Own(here, f, x) = Own(r, f, x) + (IF x = s THEN 1 ELSE 0)
  <2>1. First(r) = Null /\ Second(r) = Null /\ Reserved(r) = Null /\ Reserved(here) = Null
        /\ First(here) = Null /\ Second(here) = Null
    BY <1>1, Empties DEF Reserved
  <2> QED
    BY <1>1, <2>1, Outside DEF Own
<1>8. Gains(r, f, here, s)
  BY <1>1, <1>3, <1>5, <1>6, <1>7 DEF Gains
<1>9. Gains(r, f, Fail(here), s)
  <2>1. Carries(here, f, Fail(here), f) /\ Fail(here).pc = "put"
    <3>1. Frame(here, f)
      BY <1>1 DEF Frame
    <3>2. Carries(here, f, Fail(here), f)
      BY <1>1, <1>2, <1>3, <3>1, FailGoes
    <3>3. Fail(here).pc = "put"
      BY <1>3 DEF Fail, PutDir, PutDirIno, Puts, Local
    <3> QED
      BY <3>2, <3>3
  <2> QED
    BY <1>6, <1>7, <2>1 DEF Carries, Gains
<1> QED
  BY <1>4, <1>8, <1>9

(* The pointers stay where they are.                                       *)
LEMMA Stays ==
  ASSUME NEW r \in Local, NEW f \in Pointer, NEW q \in Local, Shape(q, f),
         q.dir = r.dir, q.ino = r.ino, q.puts = r.puts, Reserved(q) = Reserved(r),
         q.pc \notin {"scan", "new", "read"}
  PROVE  Carries(r, f, q, f)
BY DEF Carries, Named, Own, First, Second

LEMMA AlsoCarries ==
  ASSUME NEW r, NEW f, NEW q, NEW p, NEW g, Carries(q, f, p, g),
         q.dir = r.dir, q.ino = r.ino, q.puts = r.puts, Reserved(q) = Reserved(r)
  PROVE  Carries(r, f, p, g)
<1>1. Named(q, f) = Named(r, f) /\ \A s : Own(q, f, s) = Own(r, f, s)
  BY DEF Named, Own, First, Second
<1> QED
  BY <1>1 DEF Carries

Goes(t, q) == \E sleeps \in BOOLEAN : Proceed(t, q, sleeps)

LEMMA GoGoes == ASSUME NEW t, NEW q, Go(t, q) PROVE Goes(t, q)
<1> DEFINE sleeps == q.pc \in MaySleep
<1>1. sleeps \in BOOLEAN
  OBVIOUS
<1>2. Proceed(t, q, sleeps)
  BY DEF Go
<1> HIDE DEF sleeps
<1> QED
  BY <1>1, <1>2 DEF Goes

LEMMA TruncateGoes ==
  ASSUME NEW t, NEW r, NEW i, Truncate(t, r, i) PROVE Goes(t, [r EXCEPT !.pc = "truncate"])
<1> DEFINE q == [r EXCEPT !.pc = "truncate"]
           sleeps == HasZones(i)
<1>1. sleeps \in BOOLEAN
  BY DEF HasZones
<1>2. Proceed(t, q, sleeps)
  BY DEF Truncate
<1> HIDE DEF sleeps, q
<1>3. Goes(t, q)
  BY <1>1, <1>2 DEF Goes
<1> QED
  BY <1>3 DEF q

LEMMA Going ==
  ASSUME IInv, NEW t \in Task, NEW q \in Local, NEW f \in Pointer, Shape(q, f),
         Goes(t, q), fd' = [fd EXCEPT ![t] = f]
  PROVE  Moves(t, q, f)
BY DEF Goes, Proceed, Moves

LEMMA EditSteps ==
  ASSUME IInv, NEW t \in Task, NEW q, Goes(t, q), Carries(l[t], fd[t], q, fd[t]),
         fd' = fd, Stored', Edited(t)
  PROVE  IInv'
<1>1. fd' = [fd EXCEPT ![t] = fd[t]] /\ fd[t] \in Pointer
  BY Facts
<1>2. Moves(t, q, fd[t])
  BY <1>1, Going DEF Carries
<1> QED
  BY <1>2, Edits

LEMMA LocalSteps ==
  ASSUME IInv, NEW t \in Task, NEW q, Goes(t, q), Carries(l[t], fd[t], q, fd[t]), LocalOnly
  PROVE  IInv'
<1>1. fd' = fd /\ Stored'
  BY DEF LocalOnly, InodesOnly, IInv, Types, Stored
<1>2. Edited(t)
  BY Facts DEF Edited, LocalOnly
<1> QED
  BY <1>1, <1>2, EditSteps

-----------------------------------------------------------------------------
(* Positions in a directory.                                               *)
LEMMA LeastNatural ==
  ASSUME NEW S, S \subseteq Nat, S # {}
  PROVE  Least(S) \in S /\ \A y \in S : Least(S) <= y
<1>1. PICK x \in S : \A y \in S : <<y, x>> \notin OpToRel(<, Nat)
  BY NatLessThanWellFounded, WFMin, Zenon
<1>2. ASSUME NEW y \in S
      PROVE  ~(y < x)
  <2>1. y \in Nat /\ x \in Nat /\ <<y, x>> \notin OpToRel(<, Nat)
    BY <1>1
  <2> QED
    BY <2>1, Zenon DEF OpToRel
<1>3. \A y \in S : x <= y
  <2> TAKE y \in S
  <2>1. y \in Nat /\ x \in Nat /\ ~(y < x)
    BY <1>2
  <2> QED
    BY <2>1
<1> QED
  BY <1>3 DEF Least

LEMMA InRange ==
  /\ \A a \in Nat : a * K < NZone * K => a \in Zone
  /\ \A a \in Zone, j \in 1 .. K : a * K + j \in Sizes /\ a * K + j - 1 \in Nat
<1>1. \A k, z, a \in Nat : a >= z => a * k >= z * k
  OBVIOUS
<1>2. \A k, z, a \in Nat : a * k \in Nat /\ z * k \in Nat /\ (a + 1) * k = a * k + k
  OBVIOUS
<1>3. K \in Nat /\ NZone \in Nat
  BY Numbers
<1>4. ASSUME NEW a \in Nat, a * K < NZone * K PROVE a \in Zone
  <2>1. a * K \in Nat /\ NZone * K \in Nat /\ (a >= NZone => a * K >= NZone * K)
    BY <1>1, <1>2, <1>3
  <2>2. ~(a >= NZone)
    BY <1>4, <2>1
  <2> QED
    BY <1>3, <2>2 DEF Zone
<1>5. ASSUME NEW a \in Zone, NEW j \in 1 .. K PROVE a * K + j \in Sizes /\ a * K + j - 1 \in Nat
  <2>1. a \in Nat /\ NZone >= a + 1
    BY <1>3 DEF Zone
  <2>2. /\ a * K \in Nat /\ NZone * K \in Nat /\ (a + 1) * K \in Nat /\ (a + 1) * K = a * K + K
        /\ NZone * K >= (a + 1) * K
    BY <1>1, <1>2, <1>3, <2>1
  <2>3. a * K + j <= NZone * K /\ a * K + j \in Nat /\ a * K + j - 1 \in Nat
    BY <1>3, <2>2
  <2> QED
    BY <2>2, <2>3 DEF Sizes
<1> QED
  BY <1>4, <1>5

LEMMA NextZone ==
  ASSUME NEW r \in Local, NEW s, MoreBlocks(r, s) PROVE r.at + 1 \in Zone
<1>1. r.at \in Nat /\ r.len \in Nat /\ r.len <= NZone * K
  BY Numbers DEF Local, Zone, Sizes
<1>2. (r.at + 1) * K < r.len
  BY DEF MoreBlocks
<1>3. r.at + 1 \in Nat /\ (r.at + 1) * K \in Nat /\ NZone * K \in Nat
  <2>1. \A k, a \in Nat : (a + 1) * k \in Nat
    OBVIOUS
  <2> QED
    BY <1>1, <2>1, Numbers
<1>4. (r.at + 1) * K < NZone * K
  BY <1>1, <1>2, <1>3
<1> QED
  BY <1>3, <1>4, InRange

(* What find_entry() finds is an entry in use of a block of the directory. *)
LEMMA Found ==
  ASSUME IInv, NEW r \in Local, r.dir # Null, Matches(r) # {}
  PROVE  /\ Least(Matches(r)) \in 1 .. K
         /\ HitNum(r) \in Num
         /\ inode[r.dir].zone[r.at] \in Block
<1> DEFINE b == inode[r.dir].zone[r.at]
           j == Least(Matches(r))
<1>1. Matches(r) \subseteq 1 .. K /\ b # 0
  BY DEF Matches
<1>2. 1 .. K \subseteq Nat
  BY Numbers
<1>3. j \in Matches(r)
  BY <1>1, <1>2, LeastNatural
<1>4. j \in 1 .. K /\ EntryAt(r.dir, r.at, j).num # 0
  BY <1>3 DEF Matches
<1>5. r.dir \in Slot /\ r.at \in Zone /\ inode \in [Slot -> Inode]
  BY DEF Local, Pointer, IInv, Types
<1>6. b \in 0 .. NBlock
  <2>1. inode[r.dir].zone \in Zones
    BY <1>5 DEF Inode
  <2> QED
    BY <1>5, <2>1 DEF Zones
<1>7. b \in Block
  BY <1>1, <1>6, Numbers DEF Block
<1> HIDE DEF b, j
<1>8. data[b][j] \in DirEntry
  BY <1>4, <1>7 DEF IInv, Types, Stored
<1>9. HitNum(r) = data[b][j].num /\ data[b][j].num # 0
  BY <1>4 DEF HitNum, EntryAt, b, j
<1>10. data[b][j].num \in 0 .. NInode
  BY <1>8 DEF DirEntry
<1>11. HitNum(r) \in Num
  BY <1>9, <1>10, Numbers DEF Num
<1> QED
  BY <1>4, <1>7, <1>11 DEF b, j

LEMMA Finding ==
  ASSUME IInv, NEW t \in Task, l[t].pc = "find"
  PROVE  /\ l[t] \in Local /\ fd[t] \in Pointer /\ Frame(l[t], fd[t])
         /\ l[t].dir # Null /\ l[t].emp = Null /\ l[t].puts = <<>> /\ l[t].path # <<>>
         /\ (l[t].ino # Null => l[t].op = "link") /\ Reserved(l[t]) = Null
<1>1. l[t] \in Local /\ fd[t] \in Pointer /\ Shape(l[t], fd[t])
  BY Facts
<1>2. Frame(l[t], fd[t])
  BY <1>1, Framed
<1> QED
  BY <1>1, <1>2 DEF Shape, Reserved

-----------------------------------------------------------------------------
(* find_entry(), and what the calls do with what it finds.                 *)
LEMMA FindNextStep == ASSUME IInv, NEW t \in Task, FindNext(t) PROVE IInv'
<1> DEFINE r == l[t]
           q == [r EXCEPT !.at = @ + 1]
<1>1. l[t].pc = "find" /\ MoreBlocks(l[t], l[t].dir) /\ Go(t, q) /\ LocalOnly
  BY DEF FindNext, Runs
<1>2. r \in Local /\ fd[t] \in Pointer /\ Shape(r, fd[t])
  BY Facts
<1>3. r.at + 1 \in Zone
  BY <1>1, <1>2, NextZone
<1>4. q \in Local /\ q.pc = "find" /\ q.dir = r.dir /\ q.ino = r.ino /\ q.emp = r.emp /\ q.puts = r.puts
      /\ q.op = r.op /\ q.to = r.to /\ q.path = r.path
  BY <1>1, <1>2, <1>3 DEF Local
<1> HIDE DEF q
<1>5. Shape(q, fd[t])
  BY <1>1, <1>2, <1>4 DEF Shape
<1>6. Reserved(q) = Reserved(r)
  BY <1>1, <1>4 DEF Reserved
<1>7. Carries(r, fd[t], q, fd[t])
  BY <1>2, <1>4, <1>5, <1>6, Stays
<1>8. Goes(t, q)
  BY <1>1, GoGoes
<1> QED
  BY <1>1, <1>7, <1>8, LocalSteps

LEMMA nameiStep == ASSUME IInv, NEW t \in Task, namei(t) PROVE IInv'
<1> DEFINE r == l[t]
           q == [r EXCEPT !.nr = HitNum(r)]
<1>1. /\ r.pc = "find" /\ Matches(r) # {} /\ Go(t, PutDir(q, "empty")) /\ LocalOnly
      /\ ~NewName(r) /\ ~(LastName(r) /\ r.op \in {"unlink", "rmdir"})
  BY DEF namei, Hit, Runs
<1>2. /\ r \in Local /\ fd[t] \in Pointer /\ Frame(r, fd[t])
      /\ r.dir # Null /\ r.emp = Null /\ r.puts = <<>> /\ r.path # <<>>
      /\ (r.ino # Null => r.op = "link") /\ Reserved(r) = Null
  BY <1>1, Finding
<1>3. HitNum(r) \in Num
  BY <1>1, <1>2, Found
<1>4. HitNum(r) \in 0 .. NInode /\ HitNum(r) # 0
  BY <1>3, Numbers DEF Num
<1>5. /\ q \in Local /\ q.pc = "find" /\ q.dir = r.dir /\ q.ino = r.ino /\ q.emp = r.emp
      /\ q.puts = r.puts /\ q.op = r.op /\ q.to = r.to /\ q.path = r.path /\ q.nr # 0
  BY <1>1, <1>2, <1>4 DEF Local
<1> HIDE DEF q
<1>6. Carries(q, fd[t], PutDir(q, "empty"), fd[t])
  <2>1. "empty" \in Afterwards /\ Frame(q, fd[t])
    BY <1>2, <1>5 DEF Afterwards, Frame
  <2>2. ~(LastName(q) /\ Removes(q)) /\ (LastName(q) => q.ino = Null)
    BY <1>1, <1>5 DEF LastName, Removes, NewName
  <2> QED
    BY <1>2, <1>5, <2>1, <2>2, PutDirGoes
<1>7. Carries(r, fd[t], PutDir(q, "empty"), fd[t])
  <2>1. Reserved(q) = Null
    BY <1>2, <1>5 DEF Reserved
  <2> QED
    BY <1>2, <1>5, <1>6, <2>1, AlsoCarries
<1>8. Goes(t, PutDir(q, "empty"))
  BY <1>1, GoGoes DEF q
<1> QED
  BY <1>1, <1>7, <1>8, LocalSteps

LEMMA FoundToRemoveStep == ASSUME IInv, NEW t \in Task, FoundToRemove(t) PROVE IInv'
<1> DEFINE r == l[t]
           b == inode[r.dir].zone[r.at]
           j == Least(Matches(r))
           n == HitNum(r)
           q == [r EXCEPT !.pc = "empty", !.nr = n, !.de = j, !.bh = b]
<1>1. /\ r.pc = "find" /\ Matches(r) # {} /\ Go(t, q) /\ LocalOnly
      /\ LastName(r) /\ r.op \in {"unlink", "rmdir"}
  BY DEF FoundToRemove, Hit, Runs
<1>2. /\ r \in Local /\ fd[t] \in Pointer /\ Frame(r, fd[t])
      /\ r.dir # Null /\ r.emp = Null /\ r.puts = <<>> /\ r.path # <<>>
      /\ (r.ino # Null => r.op = "link") /\ Reserved(r) = Null
  BY <1>1, Finding
<1>3. n \in Num /\ j \in 1 .. K /\ b \in Block
  BY <1>1, <1>2, Found
<1>4. n \in 0 .. NInode /\ n # 0 /\ j \in 0 .. K /\ b \in 0 .. NBlock /\ "empty" \in Places
  BY <1>3, Numbers DEF Num, Block, Places
<1> HIDE DEF b, j, n
<1>5. /\ q \in Local /\ q.pc = "empty" /\ q.dir = r.dir /\ q.ino = r.ino /\ q.emp = r.emp
      /\ q.puts = r.puts /\ q.op = r.op /\ q.to = r.to /\ q.path = r.path /\ q.nr # 0
  BY <1>1, <1>2, <1>4 DEF Local
<1> HIDE DEF q
<1>6. Shape(q, fd[t])
  <2>1. Hunting(q)
    BY <1>1, <1>2, <1>5 DEF Hunting, LastName, Removes
  <2> QED
    BY <1>1, <1>2, <1>5, <2>1 DEF Shape, Frame
<1>7. Reserved(q) = Reserved(r)
  BY <1>2, <1>5 DEF Reserved
<1>8. Carries(r, fd[t], q, fd[t])
  BY <1>2, <1>5, <1>6, <1>7, Stays
<1>9. Goes(t, q)
  BY <1>1, GoGoes
<1> QED
  BY <1>1, <1>8, <1>9, LocalSteps

LEMMA GivenUp ==
  ASSUME IInv, NEW t \in Task, l[t].pc = "find", Go(t, Fail(l[t])), LocalOnly PROVE IInv'
<1>1. Carries(l[t], fd[t], Fail(l[t]), fd[t])
  BY Finding, FailGoes
<1>2. Goes(t, Fail(l[t]))
  BY GoGoes
<1> QED
  BY <1>1, <1>2, LocalSteps

LEMMA ExistsStep == ASSUME IInv, NEW t \in Task, Exists(t) PROVE IInv'
BY GivenUp DEF Exists, Hit, Runs

LEMMA NotFoundStep == ASSUME IInv, NEW t \in Task, NotFound(t) PROVE IInv'
BY GivenUp DEF NotFound, Miss, Runs

LEMMA CreateStep ==
  ASSUME IInv, NEW t \in Task, NEW op \in {"creat", "mknod", "mkdir"}, Create(t, op) PROVE IInv'
<1> DEFINE r == l[t]
           q == [r EXCEPT !.pc = "empty", !.nr = 0]
<1>1. /\ r.pc = "find" /\ LastName(r) /\ r.op = op /\ LocalOnly
      /\ Go(t, Fail(r)) \/ Go(t, q)
  BY DEF Create, Miss, Runs
<1>2. /\ r \in Local /\ fd[t] \in Pointer /\ Frame(r, fd[t])
      /\ r.dir # Null /\ r.emp = Null /\ r.puts = <<>> /\ r.path # <<>>
      /\ (r.ino # Null => r.op = "link") /\ Reserved(r) = Null
  BY <1>1, Finding
<1>3. CASE Go(t, Fail(r))
  BY <1>1, <1>3, GivenUp
<1>4. CASE Go(t, q)
  <2>1. 0 \in 0 .. NInode /\ "empty" \in Places
    BY Numbers DEF Places
  <2>2. /\ q \in Local /\ q.pc = "empty" /\ q.dir = r.dir /\ q.ino = r.ino /\ q.emp = r.emp
        /\ q.puts = r.puts /\ q.op = r.op /\ q.to = r.to /\ q.path = r.path /\ q.nr = 0
    BY <1>1, <1>2, <2>1 DEF Local
  <2> HIDE DEF q
  <2>3. Shape(q, fd[t])
    <3>1. Making(q)
      BY <1>1, <1>2, <2>2 DEF Making
    <3> QED
      BY <1>1, <1>2, <2>2, <3>1 DEF Shape, Frame
  <2>4. Reserved(q) = Reserved(r)
    BY <1>2, <2>2 DEF Reserved
  <2>5. Carries(r, fd[t], q, fd[t])
    BY <1>2, <2>2, <2>3, <2>4, Stays
  <2>6. Goes(t, q)
    BY <1>4, GoGoes
  <2> QED
    BY <1>1, <2>5, <2>6, LocalSteps
<1> QED
  BY <1>1, <1>3, <1>4

LEMMA LinkNameStep == ASSUME IInv, NEW t \in Task, LinkName(t) PROVE IInv'
<1> DEFINE r == l[t]
           q == [r EXCEPT !.pc = "add", !.at = 0]
<1>1. r.pc = "find" /\ NewName(r) /\ r.op = "link" /\ LocalOnly /\ Go(t, q)
  BY DEF LinkName, Miss, Runs
<1>2. /\ r \in Local /\ fd[t] \in Pointer /\ Frame(r, fd[t])
      /\ r.dir # Null /\ r.emp = Null /\ r.puts = <<>> /\ r.path # <<>> /\ Reserved(r) = Null
  BY <1>1, Finding
<1>3. 0 \in Zone /\ "add" \in Places
  BY Numbers DEF Places
<1>4. /\ q \in Local /\ q.pc = "add" /\ q.dir = r.dir /\ q.ino = r.ino /\ q.emp = r.emp
      /\ q.puts = r.puts /\ q.op = r.op /\ q.to = r.to /\ q.path = r.path
  BY <1>2, <1>3 DEF Local
<1> HIDE DEF q
<1>5. Shape(q, fd[t])
  <2>1. Filling(q)
    BY <1>1, <1>2, <1>4 DEF Filling, HasBoth, NewName
  <2> QED
    BY <1>1, <1>2, <1>4, <2>1 DEF Shape, Frame
<1>6. Reserved(q) = Reserved(r)
  BY <1>2, <1>4 DEF Reserved
<1>7. Carries(r, fd[t], q, fd[t])
  BY <1>2, <1>4, <1>5, <1>6, Stays
<1>8. Goes(t, q)
  BY <1>1, GoGoes
<1> QED
  BY <1>1, <1>7, <1>8, LocalSteps

-----------------------------------------------------------------------------
(* An inode in the hands of a task is changed.                             *)
Keeps(i, j) == j \in Inode /\ j.num = i.num /\ j.count = i.count /\ j.lock = i.lock

LEMMA EditOne ==
  ASSUME IInv, NEW t \in Task, NEW s \in Named(l[t], fd[t]), NEW i, Keeps(inode[s], i),
         inode' = [inode EXCEPT ![s] = i]
  PROVE  Edited(t)
<1>1. inode \in [Slot -> Inode] /\ s \in Slot
  BY Facts, NamedHeld
<1> QED
  BY <1>1 DEF Edited, Keeps

LEMMA Marking ==
  ASSUME NEW i \in Inode
  PROVE  /\ Keeps(i, [i EXCEPT !.dirt = TRUE])
         /\ \A n \in Int : Keeps(i, [i EXCEPT !.links = n]) /\ Keeps(i, WithLinks(i, n))
         /\ \A n \in Sizes, d \in BOOLEAN : Keeps(i, [i EXCEPT !.size = n, !.dirt = d])
         /\ \A k \in Kinds : Keeps(i, [i EXCEPT !.kind = k])
BY DEF Keeps, Inode, WithLinks

LEMMA Kept == ASSUME IInv, InodesOnly PROVE fd' = fd /\ Stored'
BY DEF InodesOnly, IInv, Types, Stored

LEMMA OneSteps ==
  ASSUME IInv, NEW t \in Task, NEW q, Goes(t, q), Carries(l[t], fd[t], q, fd[t]),
         NEW s \in Named(l[t], fd[t]), NEW i, Keeps(inode[s], i),
         inode' = [inode EXCEPT ![s] = i], fd' = fd, Stored'
  PROVE  IInv'
<1>1. Edited(t)
  BY EditOne
<1> QED
  BY <1>1, EditSteps

-----------------------------------------------------------------------------
(* What the calls do with the inode they have got.                         *)
LEMMA InHand ==
  ASSUME IInv, NEW t \in Task, l[t].pc = "got"
  PROVE  /\ l[t] \in Local /\ fd[t] \in Pointer /\ Frame(l[t], fd[t])
         /\ l[t].ino \in Slot /\ l[t].ino # Null /\ l[t].emp = Null /\ l[t].puts = <<>>
         /\ (l[t].dir # Null <=> Removes(l[t])) /\ Reserved(l[t]) = Null
         /\ l[t].ino \in Named(l[t], fd[t]) /\ inode[l[t].ino] \in Inode
<1>1. l[t] \in Local /\ fd[t] \in Pointer /\ Shape(l[t], fd[t])
  BY Facts
<1>2. Frame(l[t], fd[t])
  BY <1>1, Framed
<1>3. l[t].ino \in Slot
  BY <1>1 DEF Shape, Local, Pointer
<1> QED
  BY <1>1, <1>2, <1>3, Facts DEF Shape, Reserved, Named

LEMMA open_nameiStep == ASSUME IInv, NEW t \in Task, open_namei(t) PROVE IInv'
<1> DEFINE r == l[t]
           f == fd[t]
           p == [r EXCEPT !.ret = "opened"]
           q == [p EXCEPT !.pc = "truncate"]
           o == [r EXCEPT !.pc = "opened"]
<1>1. /\ r.pc = "got" /\ r.op \in {"open", "creat"} /\ LocalOnly
      /\ \/ Go(t, PutIno(r))
         \/ r.op = "creat" /\ Truncate(t, p, inode[r.ino])
         \/ Go(t, o)
  BY DEF open_namei, GotIt, Runs
<1>2. /\ r \in Local /\ f \in Pointer /\ Frame(r, f)
      /\ r.ino # Null /\ r.emp = Null /\ r.puts = <<>> /\ r.dir = Null /\ Reserved(r) = Null
  BY <1>1, InHand DEF Removes
<1>3. CASE Go(t, PutIno(r))
  <2>1. Carries(r, f, PutIno(r), f)
    BY <1>2, PutInoGoes
  <2> QED
    BY <1>1, <1>3, <2>1, GoGoes, LocalSteps
<1>4. CASE r.op = "creat" /\ Truncate(t, p, inode[r.ino])
  <2>1. Goes(t, q)
    BY <1>4, TruncateGoes
  <2>2. /\ q \in Local /\ q.pc = "truncate" /\ q.ret = "opened" /\ q.dir = r.dir /\ q.ino = r.ino
        /\ q.emp = r.emp /\ q.puts = r.puts /\ q.op = r.op /\ q.to = r.to
    BY <1>2 DEF Local, Places
  <2> HIDE DEF q
  <2>3. Shape(q, f)
    BY <1>1, <1>2, <1>4, <2>2 DEF Shape, Frame, HasIno
  <2>4. Reserved(q) = Reserved(r)
    BY <1>2, <2>2 DEF Reserved
  <2>5. Carries(r, f, q, f)
    BY <1>2, <2>2, <2>3, <2>4, Stays
  <2> QED
    BY <1>1, <2>1, <2>5, LocalSteps
<1>5. CASE Go(t, o)
  <2>2. /\ o \in Local /\ o.pc = "opened" /\ o.dir = r.dir /\ o.ino = r.ino
        /\ o.emp = r.emp /\ o.puts = r.puts /\ o.op = r.op /\ o.to = r.to
    BY <1>2 DEF Local, Places
  <2> HIDE DEF o
  <2>3. Shape(o, f)
    BY <1>1, <1>2, <2>2 DEF Shape, Frame, HasIno
  <2>4. Reserved(o) = Reserved(r)
    BY <1>2, <2>2 DEF Reserved
  <2>5. Carries(r, f, o, f)
    BY <1>2, <2>2, <2>3, <2>4, Stays
  <2> QED
    BY <1>1, <1>5, <2>5, GoGoes, LocalSteps
<1> QED
  BY <1>1, <1>3, <1>4, <1>5

LEMMA IdleIs ==
  /\ Idle \in Local /\ Idle.pc = "user" /\ Idle.dir = Null /\ Idle.ino = Null /\ Idle.emp = Null
  /\ Idle.puts = <<>> /\ \A f : Shape(Idle, f)
<1>1. Idle \in Local
  BY Numbers DEF Idle, Local, Places, Pointer, Afterwards
<1> QED
  BY <1>1 DEF Shape, Idle

LEMMA OpenedStep == ASSUME IInv, NEW t \in Task, Opened(t) PROVE IInv'
<1> DEFINE r == l[t]
           f == r.ino
<1>1. r.pc = "opened" /\ Go(t, Idle) /\ fd' = [fd EXCEPT ![t] = f]
      /\ UNCHANGED <<inode, disk, imap, zmap, data, panic>>
  BY DEF Opened, Runs
<1>2. r \in Local /\ Shape(r, fd[t]) /\ inode \in [Slot -> Inode]
  BY Facts
<1>3. fd[t] = Null /\ f \in Pointer /\ HasIno(r)
  BY <1>1, <1>2 DEF Shape, Local
<1>4. Carries(r, fd[t], Idle, f)
  <2>1. Reserved(r) = Null /\ Reserved(Idle) = Null /\ First(Idle) = Null /\ Second(Idle) = Null
        /\ First(r) = Null /\ Second(r) = Null
    BY <1>3, IdleIs, Empties DEF Reserved, HasIno
  <2> HIDE DEF f
  <2> QED
    BY <1>3, <2>1, IdleIs, Outside DEF Carries, Named, Own, HasIno, f
<1>5. Goes(t, Idle)
  BY <1>1, GoGoes
<1>6. Moves(t, Idle, f)
  BY <1>1, <1>3, <1>5, IdleIs, Going
<1>7. Edited(t) /\ Stored'
  BY <1>1, <1>2 DEF Edited, IInv, Types, Stored
<1> QED
  BY <1>4, <1>6, <1>7, Edits

LEMMA TouchStep == ASSUME IInv, NEW t \in Task, Touch(t) PROVE IInv'
<1> DEFINE r == l[t]
           i == [inode[r.ino] EXCEPT !.dirt = TRUE]
<1>1. r.pc = "got" /\ r.op = "touch" /\ Go(t, PutIno(r)) /\ InodesOnly
      /\ inode' = [inode EXCEPT ![r.ino] = i]
  BY DEF Touch, GotIt, Runs
<1>2. /\ r \in Local /\ fd[t] \in Pointer /\ Frame(r, fd[t]) /\ r.ino # Null /\ r.emp = Null
      /\ r.puts = <<>> /\ r.dir = Null /\ r.ino \in Named(r, fd[t]) /\ inode[r.ino] \in Inode
  BY <1>1, InHand DEF Removes
<1>3. Carries(r, fd[t], PutIno(r), fd[t])
  BY <1>2, PutInoGoes
<1>4. Keeps(inode[r.ino], i)
  BY <1>2, Marking
<1> HIDE DEF i
<1> QED
  BY <1>1, <1>2, <1>3, <1>4, GoGoes, Kept, OneSteps

-----------------------------------------------------------------------------
(* Steps that change the counts.                                           *)
Counting(t, f) ==
  /\ inode' \in [Slot -> Inode]
  /\ \A s \in Slot :
       /\ inode'[s].num = inode[s].num /\ inode'[s].lock = inode[s].lock
       /\ inode'[s].dirt = inode[s].dirt \/ s \in Named(l[t], f)
       /\ inode'[s].count = 0 => inode[s].count = 0 \/ (~inode[s].dirt /\ ~inode[s].lock /\ inode'[s].dirt = inode[s].dirt)
       /\ \/ inode'[s].count = inode[s].count
          \/ inode[s].num # 0
          \/ l[t].pc \in {"scan", "new"} /\ s = l[t].emp

LEMMA CountSteps ==
  ASSUME IInv, NEW t \in Task, NEW q, Goes(t, q), q \in Local, Shape(q, fd[t]), fd' = fd, Stored',
         Counting(t, fd[t]), Changes(t, q, fd[t]), \A s \in Named(q, fd[t]) : s \in Slot /\ inode[s].num # 0,
         q.pc \notin {"scan", "new", "read"}
  PROVE  IInv'
<1> DEFINE f == fd[t]
<1>1. fd' = [fd EXCEPT ![t] = f] /\ f \in Pointer
  BY Facts
<1>2. Moves(t, q, f)
  BY <1>1, Going
<1>3. Types' /\ Shaped' /\ OnlyTask(t) /\ l'[t] = q /\ fd'[t] = f
  BY <1>2, Moved DEF Counting
<1>4. Numbered'
  <2> SUFFICES ASSUME NEW u \in Task PROVE NumberedFor(u)'
    BY DEF Numbered, NumberedFor
  <2>1. NumberedFor(u)
    BY DEF IInv, Numbered, NumberedFor
  <2>2. \A s \in Slot : inode'[s].num = inode[s].num
    BY DEF Counting
  <2>3. CASE u = t
    BY <1>3, <2>2, <2>3 DEF NumberedFor
  <2>4. CASE u # t
    <3>1. l'[u] = l[u] /\ fd'[u] = fd[u]
      BY <1>3, <2>4 DEF OnlyTask
    <3>2. Named(l[u], fd[u]) \subseteq Slot
      BY NamedHeld
    <3>3. l[u].pc \in {"read", "scan", "new"} => l[u].emp \in Slot
      <4>1. l[u] \in Local /\ Shape(l[u], fd[u])
        BY Facts
      <4> QED
        BY <4>1 DEF Shape, Local, Pointer
    <3>4. l[u].pc \in {"scan", "new"} => inode'[l[u].emp].count = inode[l[u].emp].count
      <4> SUFFICES ASSUME l[u].pc \in {"scan", "new"} PROVE inode'[l[u].emp].count = inode[l[u].emp].count
        OBVIOUS
      <4>1. l[u].emp \in Slot /\ inode[l[u].emp].num = 0 /\ Own(l[t], f, l[u].emp) = 0
        BY <2>4, ReservedHeld
      <4>2. l[t].pc \in {"scan", "new"} => l[t].emp # l[u].emp
        <5>1. l[t] \in Local /\ f \in Pointer /\ l[t].puts \in Seq(Slot)
          BY Facts
        <5>2. Reserved(l[t]) # l[u].emp
          BY <4>1, <5>1, Hands
        <5> QED
          BY <5>2, ReservedHeld
      <4> QED
        BY <4>1, <4>2 DEF Counting
    <3> QED
      BY <2>1, <2>2, <3>1, <3>2, <3>3, <3>4 DEF NumberedFor
  <2> QED
    BY <2>3, <2>4
<1>5. Tidy'
  <2>1. \A s \in Named(l[t], f) : inode[s].count # 0 /\ inode[s].num # 0
    BY NamedHeld
  <2>2. inode'[RootSlot].num = ROOT_INO
    BY Outside DEF IInv, Tidy, Counting
  <2>3. ASSUME NEW s \in Slot, inode'[s].count = 0 \/ inode'[s].num = 0 PROVE Clean(s)'
    <3>1. inode'[s].num = inode[s].num /\ inode'[s].lock = inode[s].lock
      BY DEF Counting
    <3>2. CASE inode[s].count = 0 \/ inode[s].num = 0
      <4>1. Clean(s)
        BY <3>2 DEF IInv, Tidy
      <4>2. inode'[s].dirt = inode[s].dirt
        BY <2>1, <3>2 DEF Counting
      <4> QED
        BY <3>1, <4>1, <4>2 DEF Clean
    <3>3. CASE inode[s].count # 0 /\ inode[s].num # 0
      BY <2>3, <3>1, <3>3 DEF Clean, Counting
    <3> QED
      BY <3>2, <3>3
  <2> QED
    BY <2>2, <2>3 DEF Tidy
<1> QED
  BY <1>2, <1>4, <1>5, Preserved DEF Counting

LEMMA GainSteps ==
  ASSUME IInv, NEW t \in Task, NEW r, NEW q, NEW f, r \in Local, f = fd[t], Gains(r, f, q, RootSlot), Goes(t, q),
         fd' = fd, Stored', inode' \in [Slot -> Inode],
         Named(r, f) \subseteq Named(l[t], f), \A s \in Slot : Own(r, f, s) = Own(l[t], f, s),
         \A s \in Slot :
           /\ inode'[s].num = inode[s].num /\ inode'[s].lock = inode[s].lock
           /\ inode'[s].dirt = inode[s].dirt \/ s \in Named(l[t], f)
           /\ inode'[s].count = inode[s].count + (IF s = RootSlot THEN 1 ELSE 0)
  PROVE  IInv'
<1>1. inode[RootSlot].num # 0 /\ RootSlot \in Slot
  BY Numbers, Outside DEF IInv, Tidy
<1>2. \A s \in Slot : inode[s].count \in Nat
  BY Facts DEF Inode
<1>3. Counting(t, f)
  BY <1>1, <1>2 DEF Counting
<1>4. Changes(t, q, f)
  <2> SUFFICES ASSUME NEW s \in Slot PROVE inode'[s].count = inode[s].count + Own(q, f, s) - Own(l[t], f, s)
    BY DEF Changes
  <2>1. PICK a, b \in Nat : a = Own(q, f, s) /\ b = Own(l[t], f, s)
    BY OwnTypes
  <2>2. PICK e \in {0, 1} : e = IF s = RootSlot THEN 1 ELSE 0
    OBVIOUS
  <2>3. a = b + e
    BY <2>1, <2>2 DEF Gains
  <2>4. inode[s].count \in Nat /\ inode'[s].count = inode[s].count + e
    BY <1>2, <2>2
  <2>5. inode'[s].count = inode[s].count + a - b
    BY <2>3, <2>4
  <2> QED
    BY <2>1, <2>5
<1>5. \A s \in Named(q, f) : s \in Slot /\ inode[s].num # 0
  <2>1. \A s \in Named(l[t], f) : s \in Slot /\ inode[s].num # 0
    BY NamedHeld
  <2> QED
    BY <1>1, <2>1 DEF Gains
<1>6. q.pc \notin {"scan", "new", "read"} /\ q \in Local /\ Shape(q, f)
  BY DEF Gains
<1> QED
  BY <1>3, <1>4, <1>5, <1>6, CountSteps

LEMMA SysCallStep == ASSUME IInv, NEW t \in Task, SysCall(t) PROVE IInv'
<1> DEFINE f == fd[t]
<1>1. PICK c \in prog[t] : /\ l[t].pc = "user" /\ c.op \in ByPath /\ (c.op \in {"open", "creat"} => fd[t] = Null)
                           /\ inode' = [inode EXCEPT ![RootSlot].count = @ + 1]
                           /\ Go(t, get_dir([Idle EXCEPT !.op = c.op, !.to = c.to], RootSlot, inode[RootSlot], c.path))
                           /\ InodesOnly
  BY DEF SysCall, Runs
<1> DEFINE r == [Idle EXCEPT !.op = c.op, !.to = c.to]
           q == get_dir(r, RootSlot, inode[RootSlot], c.path)
<1>2. c \in Call /\ c.path # <<>> /\ (c.op = "link" => c.to # <<>>)
  <2>1. prog \in Programs
    BY DEF IInv, Types
  <2> QED
    BY <1>1, <2>1, FileSystemAssumption
<1>3. c.op \in NoPath \cup ByPath /\ c.path \in Seq(Name) /\ c.to \in Seq(Name)
  BY <1>2 DEF Call
<1>4. /\ r \in Local /\ r.dir = Null /\ r.ino = Null /\ r.emp = Null /\ r.puts = <<>>
      /\ r.op = c.op /\ r.to = c.to /\ r.pc = "user"
  BY <1>3, IdleIs DEF Local
<1>5. f \in Pointer /\ l[t] = Idle /\ inode[RootSlot] \in Inode /\ RootSlot \in Slot /\ inode \in [Slot -> Inode]
  BY <1>1, Facts, Outside DEF Shape
<1>6. Frame(r, f)
  BY <1>1, <1>2, <1>4 DEF Frame
<1> HIDE DEF r
<1>7. Gains(r, f, q, RootSlot)
  BY <1>2, <1>3, <1>4, <1>5, <1>6, GetDirGoes
<1>8. Named(r, f) = Named(l[t], f) /\ \A s \in Slot : Own(r, f, s) = Own(l[t], f, s)
  <2>1. Reserved(r) = Null /\ Reserved(Idle) = Null /\ r.puts = Idle.puts
    BY <1>4, IdleIs DEF Reserved
  <2> QED
    BY <1>4, <1>5, <2>1, IdleIs DEF Named, Own, First, Second
<1>9. inode' \in [Slot -> Inode] /\
      \A s \in Slot :
           /\ inode'[s].num = inode[s].num /\ inode'[s].lock = inode[s].lock
           /\ inode'[s].dirt = inode[s].dirt
           /\ inode'[s].count = inode[s].count + (IF s = RootSlot THEN 1 ELSE 0)
  BY <1>1, <1>5 DEF Inode
<1>10. Goes(t, q)
  BY <1>1, GoGoes DEF r
<1>11. fd' = fd /\ Stored'
  BY <1>1, Kept
<1> HIDE DEF q
<1> QED
  BY <1>4, <1>7, <1>8, <1>9, <1>10, <1>11, GainSteps

LEMMA sys_linkStep == ASSUME IInv, NEW t \in Task, sys_link(t) PROVE IInv'
<1> DEFINE r == l[t]
           f == fd[t]
           i == [inode[r.ino] EXCEPT !.dirt = TRUE]
           q == get_dir(r, RootSlot, inode[RootSlot], r.to)
<1>1. /\ r.pc = "got" /\ r.op = "link" /\ InodesOnly
      /\ \/ inode' = [inode EXCEPT ![r.ino] = i] /\ Go(t, PutIno(r))
         \/ /\ inode' = [inode EXCEPT ![r.ino].dirt = TRUE, ![RootSlot].count = @ + 1]
            /\ Go(t, q)
  BY DEF sys_link, GotIt, Runs
<1>2. /\ r \in Local /\ f \in Pointer /\ Frame(r, f) /\ r.ino # Null /\ r.emp = Null /\ r.ino \in Slot
      /\ r.puts = <<>> /\ r.dir = Null /\ r.ino \in Named(r, f) /\ inode[r.ino] \in Inode
  BY <1>1, InHand DEF Removes
<1>3. fd' = fd /\ Stored'
  BY <1>1, Kept
<1>4. CASE inode' = [inode EXCEPT ![r.ino] = i] /\ Go(t, PutIno(r))
  <2>1. Carries(r, f, PutIno(r), f)
    BY <1>2, PutInoGoes
  <2>2. Keeps(inode[r.ino], i)
    BY <1>2, Marking
  <2> HIDE DEF i
  <2> QED
    BY <1>2, <1>3, <1>4, <2>1, <2>2, GoGoes, OneSteps
<1>5. CASE inode' = [inode EXCEPT ![r.ino].dirt = TRUE, ![RootSlot].count = @ + 1] /\ Go(t, q)
  <2>1. inode[RootSlot] \in Inode /\ RootSlot \in Slot /\ inode \in [Slot -> Inode]
    BY Facts, Outside
  <2>2. r.to \in Seq(Name) /\ r.to # <<>>
    BY <1>1, <1>2 DEF Frame, Local
  <2>3. Gains(r, f, q, RootSlot)
    BY <1>1, <1>2, <2>1, <2>2, GetDirGoes
  <2>4. inode' \in [Slot -> Inode] /\
        \A s \in Slot :
           /\ inode'[s].num = inode[s].num /\ inode'[s].lock = inode[s].lock
           /\ inode'[s].dirt = inode[s].dirt \/ s = r.ino
           /\ inode'[s].count = inode[s].count + (IF s = RootSlot THEN 1 ELSE 0)
    <3>1. PICK T : T = [inode EXCEPT ![r.ino].dirt = TRUE]
      OBVIOUS
    <3>2. inode' = [T EXCEPT ![RootSlot].count = @ + 1]
      BY <1>5, <3>1
    <3>3. T \in [Slot -> Inode] /\
          \A s \in Slot : /\ T[s].num = inode[s].num /\ T[s].lock = inode[s].lock
                         /\ T[s].count = inode[s].count /\ (T[s].dirt = inode[s].dirt \/ s = r.ino)
      BY <1>2, <2>1, <3>1 DEF Inode
    <3>4. inode' \in [Slot -> Inode] /\
          \A s \in Slot : /\ inode'[s].num = T[s].num /\ inode'[s].lock = T[s].lock
                         /\ inode'[s].count = T[s].count + (IF s = RootSlot THEN 1 ELSE 0)
                         /\ inode'[s].dirt = T[s].dirt
      BY <2>1, <3>2, <3>3 DEF Inode
    <3> QED
      BY <3>3, <3>4
  <2> HIDE DEF q
  <2>5. Goes(t, q)
    BY <1>5, GoGoes
  <2> QED
    BY <1>2, <1>3, <2>3, <2>4, <2>5, GainSteps
<1> QED
  BY <1>1, <1>4, <1>5

(* The entry is emptied, and the block is put down.                        *)
LEMMA Removing ==
  ASSUME IInv, NEW r, RemoveEntry(r), UNCHANGED <<disk, imap, zmap, fd, panic>>
  PROVE  fd' = fd /\ Stored'
<1>1. data \in [Block -> [1 .. K -> DirEntry]] /\ disk \in [Num -> DiskInode]
      /\ imap \in SUBSET Num /\ zmap \in SUBSET Block
  BY DEF IInv, Types, Stored
<1>2. \A e \in DirEntry : [e EXCEPT !.num = 0] \in DirEntry
  BY Numbers DEF DirEntry
<1>3. data' \in [Block -> [1 .. K -> DirEntry]]
  BY <1>1, <1>2 DEF RemoveEntry
<1> QED
  BY <1>1, <1>3 DEF Stored

LEMMA PutDown ==
  ASSUME NEW r \in Local, NEW f \in Pointer, Frame(r, f), HasBoth(r)
  PROVE  /\ Carries(r, f, PutDirIno([r EXCEPT !.bh = 0]), f)
         /\ Carries(r, f, PutInoDir([r EXCEPT !.bh = 0]), f)
         /\ \A b \in 0 .. NBlock : Carries(r, f, PutDirIno([r EXCEPT !.bh = b]), f)
<1> SUFFICES ASSUME NEW b \in 0 .. NBlock
             PROVE  /\ Carries(r, f, PutDirIno([r EXCEPT !.bh = b]), f)
                    /\ Carries(r, f, PutInoDir([r EXCEPT !.bh = b]), f)
  BY Numbers
<1> DEFINE p == [r EXCEPT !.bh = b]
<1>1. /\ p \in Local /\ p.dir = r.dir /\ p.ino = r.ino /\ p.emp = r.emp /\ p.puts = r.puts
      /\ p.op = r.op /\ p.to = r.to /\ p.pc = r.pc
  BY DEF Local
<1> HIDE DEF p
<1>2. Frame(p, f) /\ HasBoth(p) /\ Reserved(p) = Reserved(r)
  BY <1>1 DEF Frame, HasBoth, Reserved
<1>3. Carries(p, f, PutDirIno(p), f) /\ Carries(p, f, PutInoDir(p), f)
  BY <1>1, <1>2, PutDirInoGoes
<1>4. Carries(r, f, PutDirIno(p), f) /\ Carries(r, f, PutInoDir(p), f)
  BY <1>1, <1>2, <1>3, AlsoCarries
<1> QED
  BY <1>4 DEF p

LEMMA sys_unlinkStep == ASSUME IInv, NEW t \in Task, sys_unlink(t) PROVE IInv'
<1> DEFINE r == l[t]
           f == fd[t]
           i == inode[r.ino]
           n == IF i.links = 0 THEN 0 ELSE i.links - 1
           j == WithLinks(i, n)
           q == PutInoDir([r EXCEPT !.bh = 0])
<1>1. /\ r.pc = "got" /\ r.op = "unlink"
      /\ \/ Go(t, PutInoDir(r)) /\ LocalOnly
         \/ /\ RemoveEntry(r) /\ UNCHANGED <<disk, imap, zmap, fd, panic>>
            /\ inode' = [inode EXCEPT ![r.ino] = j]
            /\ Go(t, q)
  BY DEF sys_unlink, GotIt, Runs
<1>2. /\ r \in Local /\ f \in Pointer /\ Frame(r, f) /\ HasBoth(r)
      /\ r.ino \in Named(r, f) /\ i \in Inode
  BY <1>1, InHand DEF Removes, HasBoth
<1>3. CASE Go(t, PutInoDir(r)) /\ LocalOnly
  <2>1. Carries(r, f, PutInoDir(r), f)
    BY <1>2, PutDirInoGoes
  <2> QED
    BY <1>3, <2>1, GoGoes, LocalSteps
<1>4. CASE /\ RemoveEntry(r) /\ UNCHANGED <<disk, imap, zmap, fd, panic>>
           /\ inode' = [inode EXCEPT ![r.ino] = j]
           /\ Go(t, q)
  <2>1. Carries(r, f, q, f)
    BY <1>2, PutDown
  <2>2. Keeps(i, j)
    <3>1. n \in Int
      BY <1>2 DEF Inode
    <3> HIDE DEF n
    <3> QED
      BY <1>2, <3>1, Marking
  <2>3. fd' = fd /\ Stored'
    BY <1>4, Removing
  <2> HIDE DEF j, q
  <2> QED
    BY <1>2, <1>4, <2>1, <2>2, <2>3, GoGoes, OneSteps
<1> QED
  BY <1>1, <1>3, <1>4

LEMMA sys_rmdirStep == ASSUME IInv, NEW t \in Task, sys_rmdir(t) PROVE IInv'
<1> DEFINE r == l[t]
           f == fd[t]
           n == inode[r.ino].size
           q == [r EXCEPT !.pc = "empty_dir", !.at = 0, !.len = n]
<1>1. /\ r.pc = "got" /\ r.op = "rmdir" /\ LocalOnly
      /\ Go(t, PutDirIno(r)) \/ Go(t, PutInoDir(r)) \/ (Go(t, q) /\ r.ino # r.dir)
  BY DEF sys_rmdir, GotIt, Runs
<1>2. /\ r \in Local /\ f \in Pointer /\ Frame(r, f) /\ HasBoth(r) /\ Reserved(r) = Null
      /\ r.ino \in Named(r, f) /\ inode[r.ino] \in Inode
  BY <1>1, InHand DEF Removes, HasBoth
<1>3. CASE Go(t, PutDirIno(r)) \/ Go(t, PutInoDir(r))
  <2>1. Carries(r, f, PutDirIno(r), f) /\ Carries(r, f, PutInoDir(r), f)
    BY <1>2, PutDirInoGoes
  <2> QED
    BY <1>1, <1>3, <2>1, GoGoes, LocalSteps
<1>4. CASE Go(t, q) /\ r.ino # r.dir
  <2>1. n \in Sizes /\ 0 \in Zone /\ "empty_dir" \in Places
    BY <1>2, Numbers DEF Inode, Places
  <2> HIDE DEF n
  <2>2. /\ q \in Local /\ q.pc = "empty_dir" /\ q.dir = r.dir /\ q.ino = r.ino /\ q.emp = r.emp
        /\ q.puts = r.puts /\ q.op = r.op /\ q.to = r.to
    BY <1>2, <2>1 DEF Local
  <2> HIDE DEF q
  <2>3. Shape(q, f)
    BY <1>2, <1>4, <2>2 DEF Shape, Frame, HasBoth
  <2>4. Reserved(q) = Reserved(r)
    BY <1>2, <2>2 DEF Reserved, HasBoth
  <2>5. Carries(r, f, q, f)
    BY <1>2, <2>2, <2>3, <2>4, Stays
  <2> QED
    BY <1>1, <1>4, <2>5, GoGoes, LocalSteps
<1> QED
  BY <1>1, <1>3, <1>4

LEMMA Emptying ==
  ASSUME IInv, NEW t \in Task, l[t].pc = "empty_dir"
  PROVE  /\ l[t] \in Local /\ fd[t] \in Pointer /\ Frame(l[t], fd[t]) /\ HasBoth(l[t])
         /\ l[t].ino # l[t].dir
         /\ l[t].ino \in Named(l[t], fd[t]) /\ l[t].dir \in Named(l[t], fd[t]) /\ Reserved(l[t]) = Null
<1>1. l[t] \in Local /\ fd[t] \in Pointer /\ Shape(l[t], fd[t])
  BY Facts
<1>2. Frame(l[t], fd[t])
  BY <1>1, Framed
<1> QED
  BY <1>1, <1>2 DEF Shape, HasBoth, Named, Reserved

LEMMA NotEmptyStep == ASSUME IInv, NEW t \in Task, NotEmpty(t) PROVE IInv'
<1>1. l[t].pc = "empty_dir" /\ Go(t, PutInoDir(l[t])) /\ LocalOnly
  BY DEF NotEmpty, Runs
<1>2. Carries(l[t], fd[t], PutInoDir(l[t]), fd[t])
  BY <1>1, Emptying, PutDirInoGoes
<1> QED
  BY <1>1, <1>2, GoGoes, LocalSteps

LEMMA EmptyNextStep == ASSUME IInv, NEW t \in Task, EmptyNext(t) PROVE IInv'
<1> DEFINE r == l[t]
           q == [r EXCEPT !.at = @ + 1]
<1>1. r.pc = "empty_dir" /\ MoreBlocks(r, r.ino) /\ Go(t, q) /\ LocalOnly
  BY DEF EmptyNext, Runs
<1>2. /\ r \in Local /\ fd[t] \in Pointer /\ Frame(r, fd[t]) /\ HasBoth(r) /\ Reserved(r) = Null
      /\ r.ino # r.dir
  BY <1>1, Emptying
<1>3. r.at + 1 \in Zone
  BY <1>1, <1>2, NextZone
<1>4. q \in Local /\ q.pc = "empty_dir" /\ q.dir = r.dir /\ q.ino = r.ino /\ q.emp = r.emp /\ q.puts = r.puts
      /\ q.op = r.op /\ q.to = r.to
  BY <1>1, <1>2, <1>3 DEF Local
<1> HIDE DEF q
<1>5. Shape(q, fd[t])
  BY <1>2, <1>4 DEF Shape, Frame, HasBoth
<1>6. Reserved(q) = Reserved(r)
  BY <1>2, <1>4 DEF Reserved, HasBoth
<1>7. Carries(r, fd[t], q, fd[t])
  BY <1>2, <1>4, <1>5, <1>6, Stays
<1> QED
  BY <1>1, <1>7, GoGoes, LocalSteps

LEMMA RemoveDirStep == ASSUME IInv, NEW t \in Task, RemoveDir(t) PROVE IInv'
<1> DEFINE r == l[t]
           f == fd[t]
           q == PutDirIno([r EXCEPT !.bh = 0])
<1>1. /\ r.pc = "empty_dir" /\ RemoveEntry(r) /\ UNCHANGED <<disk, imap, zmap, fd, panic>> /\ Go(t, q)
      /\ inode' = [inode EXCEPT ![r.ino] = WithLinks(@, 0), ![r.dir] = WithLinks(@, @.links - 1)]
  BY DEF RemoveDir, Runs
<1>2. /\ r \in Local /\ f \in Pointer /\ Frame(r, f) /\ HasBoth(r) /\ r.ino # r.dir
      /\ r.ino \in Named(r, f) /\ r.dir \in Named(r, f)
  BY <1>1, Emptying
<1>3. r.ino \in Slot /\ r.dir \in Slot /\ inode \in [Slot -> Inode]
  BY <1>2, NamedHeld, Facts
<1>4. inode' \in [Slot -> Inode] /\
      \A s \in Slot :
           /\ inode'[s].num = inode[s].num /\ inode'[s].count = inode[s].count
           /\ inode'[s].lock = inode[s].lock
           /\ inode'[s].dirt = inode[s].dirt \/ s = r.ino \/ s = r.dir
  <2>1. PICK i, j : i = WithLinks(inode[r.ino], 0) /\ j = WithLinks(inode[r.dir], inode[r.dir].links - 1)
    OBVIOUS
  <2>2. Keeps(inode[r.ino], i) /\ Keeps(inode[r.dir], j)
    <3>1. inode[r.ino] \in Inode /\ 0 \in Int /\ inode[r.dir] \in Inode
      BY <1>3
    <3>2. inode[r.dir].links - 1 \in Int
      BY <3>1 DEF Inode
    <3> QED
      BY <2>1, <3>1, <3>2, Marking
  <2>3. inode' = [inode EXCEPT ![r.ino] = i, ![r.dir] = j]
    BY <1>1, <1>2, <1>3, <2>1
  <2>4. inode' \in [Slot -> Inode]
        /\ \A s \in Slot : inode'[s] = IF s = r.dir THEN j ELSE IF s = r.ino THEN i ELSE inode[s]
    BY <1>3, <2>2, <2>3 DEF Keeps
  <2> QED
    BY <1>3, <2>2, <2>4 DEF Keeps
<1>5. Edited(t)
  BY <1>2, <1>4 DEF Edited
<1>6. Carries(r, f, q, f)
  BY <1>2, PutDown
<1>7. fd' = fd /\ Stored'
  BY <1>1, Removing
<1> HIDE DEF q
<1>8. Goes(t, q)
  BY <1>1, GoGoes
<1> QED
  BY <1>5, <1>6, <1>7, <1>8, EditSteps

-----------------------------------------------------------------------------
(* A message of the kernel, and a wait, change none of this.               *)
LEMMA Same ==
  ASSUME IInv, UNCHANGED <<inode, disk, imap, zmap, data, fd, l, prog>>, cpu' \in Task \cup {Nobody}
  PROVE  IInv'
<1>1. Types' /\ Shaped' /\ Numbered' /\ Tidy'
  BY DEF IInv, Types, Stored, Shaped, Numbered, Tidy, Clean
<1>2. \A s : References(s)' = References(s)
  BY DEF References, Pointers
<1>3. Exact'
  BY <1>2 DEF IInv, Exact
<1> QED
  BY <1>1, <1>3 DEF IInv

LEMMA Panics == ASSUME IInv, NEW t, NEW message, Panic(t, message) PROVE IInv'
<1>1. cpu \in Task \cup {Nobody}
  BY DEF IInv, Types
<1> QED
  BY <1>1, Same DEF Panic

LEMMA wait_on_inodeStep == ASSUME IInv, NEW t \in Task, wait_on_inode(t) PROVE IInv'
BY Same DEF wait_on_inode

-----------------------------------------------------------------------------
(* Blocks for files and directories, and entries in them.                  *)
Amends(t, T) ==
  /\ T \in [Slot -> Inode]
  /\ \A s \in Slot :
       /\ T[s].num = inode[s].num /\ T[s].count = inode[s].count /\ T[s].lock = inode[s].lock
       /\ (T[s].dirt = inode[s].dirt \/ s \in Named(l[t], fd[t]))

LEMMA AmendOne ==
  ASSUME IInv, NEW t \in Task, NEW T, Amends(t, T), NEW s \in Named(l[t], fd[t]), NEW i, Keeps(T[s], i)
  PROVE  Amends(t, [T EXCEPT ![s] = i])
<1>1. s \in Slot
  BY NamedHeld
<1>2. [T EXCEPT ![s] = i] \in [Slot -> Inode]
  BY <1>1 DEF Amends, Keeps
<1>3. \A x \in Slot : [T EXCEPT ![s] = i][x] = IF x = s THEN i ELSE T[x]
  BY <1>1 DEF Amends
<1> QED
  BY <1>2, <1>3 DEF Amends, Keeps

LEMMA AmendNone == ASSUME IInv, NEW t \in Task PROVE Amends(t, inode)
BY Facts DEF Amends

LEMMA AmendSteps ==
  ASSUME IInv, NEW t \in Task, NEW q, Goes(t, q), Carries(l[t], fd[t], q, fd[t]), Amends(t, inode'),
         fd' = fd, Stored'
  PROVE  IInv'
<1>1. Edited(t)
  BY DEF Amends, Edited
<1> QED
  BY <1>1, EditSteps

LEMMA Zoning ==
  ASSUME NEW i \in Inode, NEW z \in Zone, NEW b \in 0 .. NBlock PROVE Keeps(i, WithZone(i, z, b))
<1>1. [i.zone EXCEPT ![z] = b] \in Zones
  BY DEF Inode, Zones
<1>2. PICK d \in BOOLEAN : d = (i.dirt \/ b # 0)
  OBVIOUS
<1>3. WithZone(i, z, b) = [i EXCEPT !.zone = [i.zone EXCEPT ![z] = b], !.dirt = d]
  BY <1>2 DEF WithZone, Inode
<1> QED
  BY <1>1, <1>3 DEF Keeps, Inode

LEMMA ZoneSet ==
  ASSUME IInv, NEW t \in Task, NEW s \in Named(l[t], fd[t]), NEW z \in Zone
  PROVE  Amends(t, SetZone(t, s, z))
<1>1. inode[s] \in Inode /\ l[t].blk \in 0 .. NBlock
  BY NamedHeld, Facts DEF Local
<1>2. Keeps(inode[s], WithZone(inode[s], z, l[t].blk))
  BY <1>1, Zoning
<1> QED
  BY <1>2, AmendNone, AmendOne DEF SetZone

LEMMA Allocating ==
  ASSUME IInv, NEW t \in Task, l[t].pc \in {"alloc", "clear", "zone"}
  PROVE  /\ l[t] \in Local /\ fd[t] \in Pointer /\ Frame(l[t], fd[t]) /\ Reserved(l[t]) = Null
         /\ l[t].emp = Null
         /\ \/ l[t].ret \in {"dots", "add"} /\ Filling(l[t])
            \/ l[t].ret = "written" /\ HasNone(l[t]) /\ fd[t] # Null
<1>1. l[t] \in Local /\ fd[t] \in Pointer /\ Shape(l[t], fd[t])
  BY Facts
<1>2. Frame(l[t], fd[t])
  BY <1>1, Framed
<1>3. \/ l[t].ret \in {"dots", "add"} /\ Filling(l[t])
      \/ l[t].ret = "written" /\ HasNone(l[t]) /\ fd[t] # Null
  BY <1>1 DEF Shape
<1>4. l[t].emp = Null
  BY <1>3 DEF Filling, HasBoth, HasNone
<1> QED
  BY <1>1, <1>2, <1>3, <1>4 DEF Reserved

LEMMA AllocGoes ==
  ASSUME IInv, NEW t \in Task, l[t].pc \in {"alloc", "clear", "zone"},
         NEW q \in Local, q.pc \in {"alloc", "clear", "zone"}, q.ret = l[t].ret, q.dir = l[t].dir,
         q.ino = l[t].ino, q.emp = l[t].emp, q.puts = l[t].puts, q.op = l[t].op, q.to = l[t].to,
         q.path = l[t].path
  PROVE  Carries(l[t], fd[t], q, fd[t])
<1>1. /\ l[t] \in Local /\ fd[t] \in Pointer /\ Frame(l[t], fd[t]) /\ Reserved(l[t]) = Null
      /\ l[t].emp = Null
      /\ \/ l[t].ret \in {"dots", "add"} /\ Filling(l[t])
         \/ l[t].ret = "written" /\ HasNone(l[t]) /\ fd[t] # Null
  BY Allocating
<1>2. Shape(q, fd[t])
  BY <1>1 DEF Shape, Frame, Filling, HasBoth, HasNone
<1>3. Reserved(q) = Reserved(l[t])
  BY <1>1 DEF Reserved
<1> QED
  BY <1>1, <1>2, <1>3, Stays

LEMMA NewBlockStep == ASSUME IInv, NEW t \in Task, NewBlock(t) PROVE IInv'
<1> DEFINE r == l[t]
           p == [r EXCEPT !.blk = NextBlock, !.pc = "clear"]
           q == [r EXCEPT !.blk = 0, !.pc = "zone"]
<1>1. /\ r.pc = "alloc" /\ UNCHANGED <<inode, disk, imap, data, fd, panic>>
      /\ \/ zmap # Block /\ zmap' = zmap \cup {NextBlock} /\ Go(t, p)
         \/ zmap' = zmap /\ Go(t, q)
  BY DEF NewBlock, Runs
<1>2. r \in Local
  BY Facts
<1>3. disk \in [Num -> DiskInode] /\ imap \in SUBSET Num /\ zmap \in SUBSET Block
      /\ data \in [Block -> [1 .. K -> DirEntry]]
  BY DEF IInv, Types, Stored
<1>4. Amends(t, inode')
  BY <1>1, AmendNone
<1>5. CASE zmap # Block /\ zmap' = zmap \cup {NextBlock} /\ Go(t, p)
  <2>1. NextBlock \in Block
    <3>1. Block \ zmap # {} /\ Block \ zmap \subseteq Nat
      <4>1. Block \subseteq Nat
        BY Numbers DEF Block
      <4>2. zmap \subseteq Block /\ zmap # Block
        BY <1>3, <1>5
      <4> QED
        BY <4>1, <4>2
    <3>2. NextBlock \in Block \ zmap
      BY <3>1, LeastNatural DEF NextBlock
    <3> QED
      BY <3>2
  <2>2. NextBlock \in 0 .. NBlock
    BY <2>1, Numbers DEF Block
  <2>3. /\ p \in Local /\ p.pc = "clear" /\ p.ret = r.ret /\ p.dir = r.dir /\ p.ino = r.ino /\ p.emp = r.emp
        /\ p.puts = r.puts /\ p.op = r.op /\ p.to = r.to /\ p.path = r.path
    BY <1>2, <2>2 DEF Local, Places
  <2>4. Stored' /\ fd' = fd
    BY <1>1, <1>3, <1>5, <2>1 DEF Stored
  <2> HIDE DEF p
  <2>5. Carries(r, fd[t], p, fd[t])
    BY <1>1, <2>3, AllocGoes
  <2> QED
    BY <1>4, <1>5, <2>4, <2>5, GoGoes, AmendSteps
<1>6. CASE zmap' = zmap /\ Go(t, q)
  <2>3. /\ q \in Local /\ q.pc = "zone" /\ q.ret = r.ret /\ q.dir = r.dir /\ q.ino = r.ino /\ q.emp = r.emp
        /\ q.puts = r.puts /\ q.op = r.op /\ q.to = r.to /\ q.path = r.path
    <3>1. 0 \in 0 .. NBlock /\ "zone" \in Places
      BY Numbers DEF Places
    <3> QED
      BY <1>2, <3>1 DEF Local
  <2>4. Stored' /\ fd' = fd
    BY <1>1, <1>3, <1>6 DEF Stored
  <2> HIDE DEF q
  <2>5. Carries(r, fd[t], q, fd[t])
    BY <1>1, <2>3, AllocGoes
  <2> QED
    BY <1>4, <1>6, <2>4, <2>5, GoGoes, AmendSteps
<1> QED
  BY <1>1, <1>5, <1>6

LEMMA ClearBlockStep == ASSUME IInv, NEW t \in Task, ClearBlock(t) PROVE IInv'
<1> DEFINE r == l[t]
           q == [r EXCEPT !.pc = "zone"]
<1>1. /\ r.pc = "clear"
      /\ \/ Panic(t, "new block: count is != 1")
         \/ /\ data' = [data EXCEPT ![r.blk] = Cleared] /\ Go(t, q)
            /\ UNCHANGED <<inode, disk, imap, zmap, fd, panic>>
  BY DEF ClearBlock, Runs
<1>2. r \in Local
  BY Facts
<1>3. disk \in [Num -> DiskInode] /\ imap \in SUBSET Num /\ zmap \in SUBSET Block
      /\ data \in [Block -> [1 .. K -> DirEntry]]
  BY DEF IInv, Types, Stored
<1>4. CASE Panic(t, "new block: count is != 1")
  BY <1>4, Panics
<1>5. CASE /\ data' = [data EXCEPT ![r.blk] = Cleared] /\ Go(t, q)
           /\ UNCHANGED <<inode, disk, imap, zmap, fd, panic>>
  <2>1. Amends(t, inode')
    BY <1>5, AmendNone
  <2>2. Cleared \in [1 .. K -> DirEntry]
    BY Numbers, FileSystemAssumption DEF Cleared, NoEntry, DirEntry
  <2>3. Stored' /\ fd' = fd
    BY <1>3, <1>5, <2>2 DEF Stored
  <2>4. /\ q \in Local /\ q.pc = "zone" /\ q.ret = r.ret /\ q.dir = r.dir /\ q.ino = r.ino /\ q.emp = r.emp
        /\ q.puts = r.puts /\ q.op = r.op /\ q.to = r.to /\ q.path = r.path
    BY <1>2 DEF Local, Places
  <2> HIDE DEF q
  <2>5. Carries(r, fd[t], q, fd[t])
    BY <1>1, <2>4, AllocGoes
  <2> QED
    BY <1>5, <2>1, <2>3, <2>5, GoGoes, AmendSteps
<1> QED
  BY <1>1, <1>4, <1>5

LEMMA NoRoomStep ==
  ASSUME IInv, NEW t \in Task, Filling(l[t]), l[t] \in Local, fd[t] \in Pointer, Frame(l[t], fd[t]),
         NEW T, Amends(t, T), NoRoom(t, l[t], T), InodesOnly
  PROVE  IInv'
<1> DEFINE r == l[t]
           f == fd[t]
           i == [T[r.ino] EXCEPT !.links = @ - 1]
<1>1. HasBoth(r) /\ r.ino \in Named(r, f)
  BY DEF Filling, HasBoth, Named
<1>2. inode' = (IF r.op = "creat" THEN [T EXCEPT ![r.ino] = i] ELSE T)
  BY DEF NoRoom
<1>3. Amends(t, inode')
  <2>1. CASE r.op = "creat"
    <3>1. r.ino \in Slot
      BY <1>1, NamedHeld
    <3>2. T[r.ino] \in Inode
      BY <3>1 DEF Amends
    <3>3. T[r.ino].links - 1 \in Int
      BY <3>2 DEF Inode
    <3>4. Keeps(T[r.ino], i)
      BY <3>2, <3>3, Marking
    <3>5. Amends(t, [T EXCEPT ![r.ino] = i])
      BY <1>1, <3>4, AmendOne
    <3> HIDE DEF i
    <3> QED
      BY <1>2, <2>1, <3>5
  <2>2. CASE r.op # "creat"
    BY <1>2, <2>2
  <2> QED
    BY <2>1, <2>2
<1>4. fd' = fd /\ Stored'
  BY Kept
<1>5. Go(t, PutInoDir(r)) \/ Go(t, PutDirIno(r)) \/ Go(t, PutDir(r, "undo"))
  BY DEF NoRoom
<1>6. Carries(r, f, PutInoDir(r), f) /\ Carries(r, f, PutDirIno(r), f)
  BY <1>1, PutDirInoGoes
<1>7. Carries(r, f, PutDir(r, "undo"), f)
  <2>1. "undo" \in Afterwards
    BY DEF Afterwards
  <2> QED
    BY <1>1, <2>1, PutDirGoes DEF HasBoth
<1> QED
  BY <1>3, <1>4, <1>5, <1>6, <1>7, GoGoes, AmendSteps

LEMMA MkdirZoneStep == ASSUME IInv, NEW t \in Task, MkdirZone(t) PROVE IInv'
<1> DEFINE r == l[t]
           f == fd[t]
           T == SetZone(t, r.ino, 0)
           q == [r EXCEPT !.pc = "dots"]
<1>1. /\ r.pc = "zone" /\ r.ret = "dots" /\ InodesOnly
      /\ NoRoom(t, r, T) \/ (inode' = T /\ Go(t, q))
  BY DEF MkdirZone, Runs
<1>2. r \in Local /\ f \in Pointer /\ Frame(r, f) /\ Filling(r) /\ Reserved(r) = Null
  BY <1>1, Allocating
<1>3. Amends(t, T)
  <2>1. r.ino \in Named(r, f) /\ 0 \in Zone
    BY <1>2, Numbers DEF Filling, HasBoth, Named
  <2> QED
    BY <2>1, ZoneSet
<1> HIDE DEF T
<1>4. CASE NoRoom(t, r, T)
  BY <1>1, <1>2, <1>3, <1>4, NoRoomStep
<1>5. CASE inode' = T /\ Go(t, q)
  <2>1. /\ q \in Local /\ q.pc = "dots" /\ q.dir = r.dir /\ q.ino = r.ino /\ q.emp = r.emp
        /\ q.puts = r.puts /\ q.op = r.op /\ q.to = r.to /\ q.path = r.path
    BY <1>2 DEF Local, Places
  <2> HIDE DEF q
  <2>2. Shape(q, f)
    BY <1>2, <2>1 DEF Shape, Frame, Filling, HasBoth
  <2>3. Reserved(q) = Reserved(r)
    BY <1>2, <2>1 DEF Reserved, Filling, HasBoth
  <2>4. Carries(r, f, q, f)
    BY <1>2, <2>1, <2>2, <2>3, Stays
  <2> QED
    BY <1>1, <1>3, <1>5, <2>4, GoGoes, Kept, AmendSteps
<1> QED
  BY <1>1, <1>4, <1>5

LEMMA DirZoneStep == ASSUME IInv, NEW t \in Task, DirZone(t) PROVE IInv'
<1> DEFINE r == l[t]
           f == fd[t]
           T == SetZone(t, r.dir, r.at)
           q == [r EXCEPT !.pc = "add"]
<1>1. /\ r.pc = "zone" /\ r.ret = "add" /\ InodesOnly
      /\ NoRoom(t, r, T) \/ (inode' = T /\ Go(t, q))
  BY DEF DirZone, Runs
<1>2. r \in Local /\ f \in Pointer /\ Frame(r, f) /\ Filling(r) /\ Reserved(r) = Null
  BY <1>1, Allocating
<1>3. Amends(t, T)
  <2>1. r.dir \in Named(r, f) /\ r.at \in Zone
    BY <1>2 DEF Filling, HasBoth, Named, Local
  <2> QED
    BY <2>1, ZoneSet
<1> HIDE DEF T
<1>4. CASE NoRoom(t, r, T)
  BY <1>1, <1>2, <1>3, <1>4, NoRoomStep
<1>5. CASE inode' = T /\ Go(t, q)
  <2>1. /\ q \in Local /\ q.pc = "add" /\ q.dir = r.dir /\ q.ino = r.ino /\ q.emp = r.emp
        /\ q.puts = r.puts /\ q.op = r.op /\ q.to = r.to /\ q.path = r.path
    BY <1>2 DEF Local, Places
  <2> HIDE DEF q
  <2>2. Shape(q, f)
    BY <1>2, <2>1 DEF Shape, Frame, Filling, HasBoth
  <2>3. Reserved(q) = Reserved(r)
    BY <1>2, <2>1 DEF Reserved, Filling, HasBoth
  <2>4. Carries(r, f, q, f)
    BY <1>2, <2>1, <2>2, <2>3, Stays
  <2> QED
    BY <1>1, <1>3, <1>5, <2>4, GoGoes, Kept, AmendSteps
<1> QED
  BY <1>1, <1>4, <1>5

(* The call has no pointers but that to the open file.                     *)
LEMMA IdleGoes ==
  ASSUME NEW r \in Local, NEW f \in Pointer, HasNone(r) PROVE Carries(r, f, Idle, f)
<1>1. Reserved(r) = Reserved(Idle) /\ r.dir = Idle.dir /\ r.ino = Idle.ino /\ r.puts = Idle.puts
  BY IdleIs DEF Reserved, HasNone
<1> QED
  BY <1>1, IdleIs, Stays

LEMMA FileZoneStep == ASSUME IInv, NEW t \in Task, FileZone(t) PROVE IInv'
<1> DEFINE r == l[t]
           f == fd[t]
           T == SetZone(t, f, 0)
           q == [r EXCEPT !.pc = "written"]
<1>1. r.pc = "zone" /\ r.ret = "written" /\ InodesOnly /\ inode' = T /\ (Go(t, Idle) \/ Go(t, q))
  BY DEF FileZone, Runs
<1>2. r \in Local /\ f \in Pointer /\ Frame(r, f) /\ HasNone(r) /\ f # Null /\ Reserved(r) = Null
  BY <1>1, Allocating
<1>3. Amends(t, T)
  <2>1. f \in Named(r, f) /\ 0 \in Zone
    BY <1>2, Numbers DEF Named
  <2> QED
    BY <2>1, ZoneSet
<1> HIDE DEF T
<1>4. /\ q \in Local /\ q.pc = "written" /\ q.dir = r.dir /\ q.ino = r.ino /\ q.emp = r.emp
      /\ q.puts = r.puts /\ q.op = r.op /\ q.to = r.to
  BY <1>2 DEF Local, Places
<1> HIDE DEF q
<1>5. Carries(r, f, q, f)
  <2>1. Shape(q, f)
    BY <1>2, <1>4 DEF Shape, Frame, HasNone
  <2>2. Reserved(q) = Reserved(r)
    BY <1>2, <1>4 DEF Reserved, HasNone
  <2> QED
    BY <1>2, <1>4, <2>1, <2>2, Stays
<1>6. Carries(r, f, Idle, f)
  BY <1>2, IdleGoes
<1> QED
  BY <1>1, <1>3, <1>5, <1>6, GoGoes, Kept, AmendSteps

LEMMA LinkedStep == ASSUME IInv, NEW t \in Task, Linked(t) PROVE IInv'
<1> DEFINE r == l[t]
           i == WithLinks(inode[r.ino], inode[r.ino].links + 1)
<1>1. /\ r.pc = "linked" /\ Go(t, PutIno(r)) /\ InodesOnly
      /\ inode' = [inode EXCEPT ![r.ino] = i]
  BY DEF Linked, Runs
<1>2. r \in Local /\ fd[t] \in Pointer /\ Shape(r, fd[t])
  BY Facts
<1>3. HasIno(r) /\ Frame(r, fd[t])
  BY <1>1, <1>2, Framed DEF Shape
<1>4. Carries(r, fd[t], PutIno(r), fd[t])
  BY <1>2, <1>3, PutInoGoes DEF HasIno
<1>5. r.ino \in Named(r, fd[t])
  BY <1>3 DEF HasIno, Named
<1>6. Keeps(inode[r.ino], i)
  <2>1. inode[r.ino] \in Inode
    BY <1>5, NamedHeld, Facts
  <2>2. inode[r.ino].links + 1 \in Int
    BY <2>1 DEF Inode
  <2> QED
    BY <2>1, <2>2, Marking
<1> HIDE DEF i
<1> QED
  BY <1>1, <1>4, <1>5, <1>6, GoGoes, Kept, OneSteps

(* A block of a directory is written.                                      *)
LEMMA DataSet ==
  ASSUME IInv, NEW b, NEW e, b \in Block => e \in [1 .. K -> DirEntry],
         data' = [data EXCEPT ![b] = e], UNCHANGED <<disk, imap, zmap>>
  PROVE  Stored'
<1>1. data \in [Block -> [1 .. K -> DirEntry]] /\ disk \in [Num -> DiskInode]
      /\ imap \in SUBSET Num /\ zmap \in SUBSET Block
  BY DEF IInv, Types, Stored
<1>2. data' \in [Block -> [1 .. K -> DirEntry]]
  BY <1>1
<1> QED
  BY <1>1, <1>2 DEF Stored

LEMMA EntryIs ==
  ASSUME IInv, NEW s \in Slot, NEW name \in Name
  PROVE  [name |-> name, num |-> inode[s].num] \in DirEntry
<1>1. inode[s].num \in 0 .. NInode
  BY Facts DEF IInv, Types, Inode
<1> QED
  BY <1>1 DEF DirEntry

LEMMA AtFilling ==
  ASSUME IInv, NEW t \in Task, l[t].pc \in {"dots", "add"}
  PROVE  /\ l[t] \in Local /\ fd[t] \in Pointer /\ Frame(l[t], fd[t]) /\ Filling(l[t]) /\ Reserved(l[t]) = Null
         /\ l[t].ino \in Named(l[t], fd[t]) /\ l[t].dir \in Named(l[t], fd[t])
         /\ l[t].ino \in Slot /\ l[t].dir \in Slot /\ inode[l[t].ino] \in Inode /\ inode[l[t].dir] \in Inode
<1>1. l[t] \in Local /\ fd[t] \in Pointer /\ Shape(l[t], fd[t])
  BY Facts
<1>2. Frame(l[t], fd[t])
  BY <1>1, Framed
<1>3. Filling(l[t]) /\ Reserved(l[t]) = Null
  BY <1>1 DEF Shape, Filling, HasBoth, Reserved
<1>4. l[t].ino \in Named(l[t], fd[t]) /\ l[t].dir \in Named(l[t], fd[t])
  BY <1>3 DEF Filling, HasBoth, Named
<1>5. l[t].ino \in Slot /\ l[t].dir \in Slot /\ inode[l[t].ino] \in Inode /\ inode[l[t].dir] \in Inode
  BY <1>4, NamedHeld, Facts
<1> QED
  BY <1>1, <1>2, <1>3, <1>4, <1>5

LEMMA DotsStep == ASSUME IInv, NEW t \in Task, Dots(t) PROVE IInv'
<1> DEFINE r == l[t]
           f == fd[t]
           b == inode[r.ino].zone[0]
           x == [name |-> ".", num |-> inode[r.ino].num]
           y == [name |-> "..", num |-> inode[r.dir].num]
           i == [WithLinks(inode[r.ino], 2) EXCEPT !.kind = "dir"]
           q == [r EXCEPT !.pc = "add", !.at = 0]
<1>1. /\ r.pc = "dots" /\ data' = [data EXCEPT ![b] = [@ EXCEPT ![1] = x, ![2] = y]]
      /\ inode' = [inode EXCEPT ![r.ino] = i] /\ Go(t, q) /\ UNCHANGED <<disk, imap, zmap, fd, panic>>
  BY DEF Dots, Runs
<1>2. /\ r \in Local /\ f \in Pointer /\ Frame(r, f) /\ Filling(r) /\ Reserved(r) = Null
      /\ r.ino \in Named(r, f) /\ r.ino \in Slot /\ r.dir \in Slot /\ inode[r.ino] \in Inode
  BY <1>1, AtFilling
<1>3. x \in DirEntry /\ y \in DirEntry
  <2>1. "." \in Name /\ ".." \in Name
    BY FileSystemAssumption
  <2> QED
    BY <1>2, <2>1, EntryIs
<1> HIDE DEF x, y, b
<1>4. Stored'
  <2>1. data \in [Block -> [1 .. K -> DirEntry]]
    BY DEF IInv, Types, Stored
  <2>2. b \in Block => [data[b] EXCEPT ![1] = x, ![2] = y] \in [1 .. K -> DirEntry]
    BY <1>3, <2>1
  <2>3. data' = [data EXCEPT ![b] = [data[b] EXCEPT ![1] = x, ![2] = y]]
    BY <1>1
  <2> QED
    BY <1>1, <2>2, <2>3, DataSet
<1>5. Keeps(inode[r.ino], i)
  <2>1. PICK w : w = WithLinks(inode[r.ino], 2)
    OBVIOUS
  <2>2. Keeps(inode[r.ino], w)
    <3>1. inode[r.ino] \in Inode /\ 2 \in Int
      BY <1>2
    <3> QED
      BY <2>1, <3>1, Marking
  <2>3. w \in Inode /\ "dir" \in Kinds
    BY <2>2 DEF Keeps, Kinds
  <2>4. Keeps(w, [w EXCEPT !.kind = "dir"])
    BY <2>3, Marking
  <2> QED
    BY <2>1, <2>2, <2>4 DEF Keeps
<1>6. /\ q \in Local /\ q.pc = "add" /\ q.dir = r.dir /\ q.ino = r.ino /\ q.emp = r.emp
      /\ q.puts = r.puts /\ q.op = r.op /\ q.to = r.to /\ q.path = r.path
  BY <1>2, Numbers DEF Local, Places
<1> HIDE DEF q, i
<1>7. Carries(r, f, q, f)
  <2>1. Shape(q, f)
    BY <1>2, <1>6 DEF Shape, Frame, Filling, HasBoth
  <2>2. Reserved(q) = Reserved(r)
    BY <1>2, <1>6 DEF Reserved, Filling, HasBoth
  <2> QED
    BY <1>2, <1>6, <2>1, <2>2, Stays
<1> QED
  BY <1>1, <1>2, <1>4, <1>5, <1>7, GoGoes, OneSteps

LEMMA AddEntryStep == ASSUME IInv, NEW t \in Task, AddEntry(t) PROVE IInv'
<1> DEFINE r == l[t]
           f == fd[t]
           j == Least(Room(r))
           b == inode[r.dir].zone[r.at]
           x == [name |-> Head(r.path), num |-> inode[r.ino].num]
           i == WithEntry(r, j)
<1>1. /\ r.pc = "add" /\ Room(r) # {} /\ data' = [data EXCEPT ![b] = [@ EXCEPT ![j] = x]]
      /\ inode' = [inode EXCEPT ![r.dir] = i] /\ UNCHANGED <<disk, imap, zmap, fd, panic>>
      /\ \/ r.op = "creat" /\ Go(t, PutDir(r, "opened"))
         \/ r.op = "link" /\ Go(t, PutDir(r, "linked"))
         \/ Go(t, PutDirIno([r EXCEPT !.bh = b]))
  BY DEF AddEntry, Runs
<1>2. /\ r \in Local /\ f \in Pointer /\ Frame(r, f) /\ Filling(r) /\ r.dir \in Named(r, f)
      /\ r.ino \in Slot /\ r.dir \in Slot /\ inode[r.dir] \in Inode
  BY <1>1, AtFilling
<1>3. j \in 1 .. K
  <2>1. Room(r) \subseteq 1 .. K
    BY DEF Room
  <2>2. 1 .. K \subseteq Nat
    BY Numbers
  <2> QED
    BY <1>1, <2>1, <2>2, LeastNatural
<1> HIDE DEF j
<1>4. x \in DirEntry
  <2>1. r.path \in Seq(Name) /\ r.path # <<>>
    BY <1>2 DEF Filling, Local
  <2>2. Head(r.path) \in Name
    BY <2>1
  <2> QED
    BY <1>2, <2>2, EntryIs
<1> HIDE DEF x
<1>5. b \in 0 .. NBlock
  BY <1>2 DEF Inode, Zones, Local
<1> HIDE DEF b
<1>6. Stored'
  <2>1. data \in [Block -> [1 .. K -> DirEntry]]
    BY DEF IInv, Types, Stored
  <2>2. b \in Block => [data[b] EXCEPT ![j] = x] \in [1 .. K -> DirEntry]
    BY <1>3, <1>4, <2>1
  <2>3. data' = [data EXCEPT ![b] = [data[b] EXCEPT ![j] = x]]
    BY <1>1
  <2> QED
    BY <1>1, <2>2, <2>3, DataSet
<1>7. Keeps(inode[r.dir], i)
  <2> DEFINE d == inode[r.dir]
             grows == r.at * K + j - 1 >= d.size
  <2>1. r.at * K + j \in Sizes
    BY <1>2, <1>3, InRange DEF Local
  <2>2. PICK size \in Sizes : size = IF grows THEN r.at * K + j ELSE d.size
    BY <1>2, <2>1 DEF Inode
  <2>3. PICK dirt \in BOOLEAN : dirt = (d.dirt \/ grows \/ r.op = "mkdir")
    OBVIOUS
  <2>4. PICK links \in Int : links = IF r.op = "mkdir" THEN d.links + 1 ELSE d.links
    BY <1>2 DEF Inode
  <2>5. i = [d EXCEPT !.size = size, !.dirt = dirt, !.links = links]
    BY <2>2, <2>3, <2>4 DEF WithEntry
  <2> HIDE DEF i
  <2> QED
    BY <1>2, <2>2, <2>3, <2>4, <2>5 DEF Keeps, Inode
<1> HIDE DEF i
<1>8. /\ r.op = "creat" => Carries(r, f, PutDir(r, "opened"), f)
      /\ r.op = "link" => Carries(r, f, PutDir(r, "linked"), f)
      /\ Carries(r, f, PutDirIno([r EXCEPT !.bh = b]), f)
  <2>1. "opened" \in Afterwards /\ "linked" \in Afterwards
    BY DEF Afterwards
  <2>2. HasBoth(r)
    BY <1>2 DEF Filling
  <2>3. r.op = "creat" => Carries(r, f, PutDir(r, "opened"), f)
    BY <1>2, <2>1, <2>2, PutDirGoes DEF HasBoth
  <2>4. Carries(r, f, PutDir(r, "linked"), f)
    BY <1>2, <2>1, <2>2, PutDirGoes DEF HasBoth
  <2>5. Carries(r, f, PutDirIno([r EXCEPT !.bh = b]), f)
    BY <1>2, <1>5, <2>2, PutDown
  <2> QED
    BY <2>3, <2>4, <2>5
<1>9. \E q : Goes(t, q) /\ Carries(r, f, q, f)
  BY <1>1, <1>8, GoGoes
<1> QED
  BY <1>1, <1>2, <1>6, <1>7, <1>9, OneSteps

LEMMA AddNextStep == ASSUME IInv, NEW t \in Task, AddNext(t) PROVE IInv'
<1> DEFINE r == l[t]
           f == fd[t]
           p == [r EXCEPT !.at = @ + 1]
           q == [p EXCEPT !.pc = "alloc", !.ret = "add"]
<1>1. r.pc = "add" /\ r.at + 1 \in Zone /\ LocalOnly /\ (Go(t, p) \/ Go(t, q))
  BY DEF AddNext, Runs
<1>2. r \in Local /\ f \in Pointer /\ Frame(r, f) /\ Filling(r) /\ Reserved(r) = Null
  BY <1>1, AtFilling
<1>3. /\ p \in Local /\ p.pc = "add" /\ p.dir = r.dir /\ p.ino = r.ino /\ p.emp = r.emp
      /\ p.puts = r.puts /\ p.op = r.op /\ p.to = r.to /\ p.path = r.path
  BY <1>1, <1>2 DEF Local
<1> HIDE DEF p
<1>4. /\ q \in Local /\ q.pc = "alloc" /\ q.ret = "add" /\ q.dir = p.dir /\ q.ino = p.ino /\ q.emp = p.emp
      /\ q.puts = p.puts /\ q.op = p.op /\ q.to = p.to /\ q.path = p.path
  BY <1>3 DEF Local, Places
<1> HIDE DEF q
<1>5. Shape(p, f) /\ Shape(q, f)
  BY <1>2, <1>3, <1>4 DEF Shape, Frame, Filling, HasBoth
<1>6. Reserved(p) = Reserved(r) /\ Reserved(q) = Reserved(r)
  BY <1>2, <1>3, <1>4 DEF Reserved, Filling, HasBoth
<1>7. Carries(r, f, p, f)
  BY <1>2, <1>3, <1>5, <1>6, Stays
<1>8. Carries(r, f, q, f)
  BY <1>2, <1>3, <1>4, <1>5, <1>6, Stays
<1> QED
  BY <1>1, <1>7, <1>8, GoGoes, LocalSteps

-----------------------------------------------------------------------------
(* iput() and truncate().                                                  *)
LEMMA GivingNow ==
  ASSUME IInv, NEW t \in Task, l[t].pc \in {"put", "put_write", "free"} \/ (l[t].pc = "truncate" /\ l[t].ret = "free")
  PROVE  /\ l[t] \in Local /\ fd[t] \in Pointer /\ Frame(l[t], fd[t]) /\ Giving(l[t]) /\ Reserved(l[t]) = Null
         /\ Given(t) = First(l[t]) /\ Given(t) \in Named(l[t], fd[t]) /\ Given(t) \in Slot
         /\ inode[Given(t)] \in Inode /\ inode[Given(t)].num # 0 /\ inode[Given(t)].count >= 1
<1>1. /\ l[t] \in Local /\ fd[t] \in Pointer /\ Shape(l[t], fd[t])
      /\ l[t].puts \in Seq(Slot)
  BY Facts
<1>2. Frame(l[t], fd[t])
  BY <1>1, Framed
<1>3. Giving(l[t])
  BY <1>1 DEF Shape, Giving, HasIno
<1>4. Reserved(l[t]) = Null /\ l[t].puts # <<>>
  BY <1>3 DEF Giving, Reserved
<1>5. Given(t) = First(l[t]) /\ Given(t) \in Slot
  <2>1. \A p \in Seq(Slot) : p # <<>> => Len(p) >= 1 /\ Head(p) = p[1] /\ p[1] \in Slot
    OBVIOUS
  <2> QED
    BY <1>1, <1>4, <2>1 DEF Given, First
<1>6. Given(t) \in Named(l[t], fd[t])
  BY <1>5, Outside DEF Named
<1>7. inode[Given(t)] \in Inode /\ inode[Given(t)].num # 0 /\ inode[Given(t)].count >= 1
  BY <1>5, <1>6, NamedHeld, Facts
<1> QED
  BY <1>1, <1>2, <1>3, <1>4, <1>5, <1>6, <1>7

LEMMA GivingGoes ==
  ASSUME NEW r \in Local, NEW f \in Pointer, Frame(r, f), Giving(r), NEW q \in Local,
         \/ q.pc \in {"put", "put_write", "free"}
         \/ q.pc = "truncate" /\ q.ret = "free",
         q.dir = r.dir, q.ino = r.ino, q.emp = r.emp, q.puts = r.puts, q.op = r.op, q.to = r.to,
         q.path = r.path, q.nr = r.nr, q.then = r.then
  PROVE  Carries(r, f, q, f)
<1>1. Giving(q) /\ Frame(q, f)
  BY DEF Giving, Frame, Hunting, LastName, Removes
<1>2. Shape(q, f)
  BY <1>1 DEF Shape, Frame
<1>3. Reserved(q) = Reserved(r)
  BY DEF Giving, Reserved
<1> QED
  BY <1>2, <1>3, Stays

LEMMA PutUnlinkedStep == ASSUME IInv, NEW t \in Task, PutUnlinked(t) PROVE IInv'
<1> DEFINE r == l[t]
           p == [r EXCEPT !.ret = "free"]
           q == [p EXCEPT !.pc = "truncate"]
<1>1. r.pc = "put" /\ Truncate(t, p, inode[Given(t)]) /\ LocalOnly
  BY DEF PutUnlinked, Putting, Runs
<1>2. r \in Local /\ fd[t] \in Pointer /\ Frame(r, fd[t]) /\ Giving(r)
  BY <1>1, GivingNow
<1>3. Goes(t, q)
  BY <1>1, TruncateGoes
<1>4. /\ q \in Local /\ q.pc = "truncate" /\ q.ret = "free" /\ q.dir = r.dir /\ q.ino = r.ino
      /\ q.emp = r.emp /\ q.puts = r.puts /\ q.op = r.op /\ q.to = r.to
      /\ q.path = r.path /\ q.nr = r.nr /\ q.then = r.then
  BY <1>2 DEF Local, Places
<1> HIDE DEF q
<1>5. Carries(r, fd[t], q, fd[t])
  BY <1>2, <1>4, GivingGoes
<1> QED
  BY <1>1, <1>3, <1>5, LocalSteps

LEMMA Truncating ==
  ASSUME IInv, NEW t \in Task, l[t].pc = "truncate"
  PROVE  /\ l[t] \in Local /\ fd[t] \in Pointer /\ Frame(l[t], fd[t]) /\ Reserved(l[t]) = Null
         /\ \/ l[t].ret = "free" /\ Giving(l[t])
            \/ l[t].ret = "opened" /\ HasIno(l[t]) /\ l[t].op = "creat"
         /\ Truncated(t) \in Named(l[t], fd[t]) /\ Truncated(t) \in Slot /\ inode[Truncated(t)] \in Inode
<1>1. l[t] \in Local /\ fd[t] \in Pointer /\ Shape(l[t], fd[t])
  BY Facts
<1>2. Frame(l[t], fd[t])
  BY <1>1, Framed
<1>3. \/ l[t].ret = "free" /\ Giving(l[t])
      \/ l[t].ret = "opened" /\ HasIno(l[t]) /\ l[t].op = "creat"
  BY <1>1 DEF Shape
<1>4. Reserved(l[t]) = Null
  BY <1>3 DEF Giving, HasIno, Reserved
<1>5. Truncated(t) \in Named(l[t], fd[t])
  <2>1. CASE l[t].ret = "free"
    BY <2>1, GivingNow DEF Truncated
  <2>2. CASE l[t].ret # "free"
    BY <1>3, <2>2 DEF Truncated, HasIno, Named
  <2> QED
    BY <2>1, <2>2
<1>6. Truncated(t) \in Slot /\ inode[Truncated(t)] \in Inode
  BY <1>5, NamedHeld, Facts
<1> QED
  BY <1>1, <1>2, <1>3, <1>4, <1>5, <1>6

LEMMA Cutting ==
  ASSUME NEW i \in Inode, NEW z PROVE Keeps(i, [i EXCEPT !.zone[z] = 0])
<1>1. [i.zone EXCEPT ![z] = 0] \in Zones
  <2>1. i.zone \in [Zone -> 0 .. NBlock] /\ 0 \in 0 .. NBlock
    BY Numbers DEF Inode, Zones
  <2> QED
    BY <2>1 DEF Zones
<1>2. [i EXCEPT !.zone[z] = 0] = [i EXCEPT !.zone = [i.zone EXCEPT ![z] = 0]]
  OBVIOUS
<1> QED
  BY <1>1, <1>2 DEF Keeps, Inode

LEMMA FreeBlock == ASSUME IInv, NEW b, free_block(b), UNCHANGED <<disk, imap, data>> PROVE Stored'
BY DEF free_block, IInv, Types, Stored

LEMMA truncateStep == ASSUME IInv, NEW t \in Task, truncate(t) PROVE IInv'
<1> DEFINE r == l[t]
           s == Truncated(t)
           z == Least({x \in Zone : inode[s].zone[x] # 0})
           b == inode[s].zone[z]
           i == [inode[s] EXCEPT !.zone[z] = 0]
           q == [r EXCEPT !.pc = "truncate"]
<1>1. /\ r.pc = "truncate"
      /\ \/ Panic(t, "free_block: bit already cleared")
         \/ /\ free_block(b) /\ inode' = [inode EXCEPT ![s] = i] /\ Truncate(t, r, i)
            /\ UNCHANGED <<disk, imap, data, fd, panic>>
  BY DEF truncate, Runs
<1>2. CASE Panic(t, "free_block: bit already cleared")
  BY <1>2, Panics
<1>3. CASE /\ free_block(b) /\ inode' = [inode EXCEPT ![s] = i] /\ Truncate(t, r, i)
           /\ UNCHANGED <<disk, imap, data, fd, panic>>
  <2>1. /\ r \in Local /\ fd[t] \in Pointer /\ s \in Named(r, fd[t]) /\ inode[s] \in Inode
    BY <1>1, Truncating
  <2>2. Keeps(inode[s], i)
    BY <2>1, Cutting
  <2> HIDE DEF i, z
  <2>3. Goes(t, q)
    BY <1>3, TruncateGoes
  <2>4. q = r
    BY <1>1, <2>1 DEF Local
  <2>5. Carries(r, fd[t], r, fd[t])
    BY <1>1, <2>1, Facts, Stays
  <2>6. fd' = fd /\ Stored'
    BY <1>3, FreeBlock
  <2> HIDE DEF q
  <2> QED
    BY <1>3, <2>1, <2>2, <2>3, <2>4, <2>5, <2>6, OneSteps
<1> QED
  BY <1>1, <1>2, <1>3

LEMMA TruncateEndStep == ASSUME IInv, NEW t \in Task, TruncateEnd(t) PROVE IInv'
<1> DEFINE r == l[t]
           s == Truncated(t)
           i == [inode[s] EXCEPT !.size = 0, !.dirt = TRUE]
           q == [r EXCEPT !.pc = r.ret]
<1>1. /\ r.pc = "truncate" /\ Go(t, q) /\ InodesOnly
      /\ inode' = inode \/ inode' = [inode EXCEPT ![s] = i]
  BY DEF TruncateEnd, Runs
<1>2. /\ r \in Local /\ fd[t] \in Pointer /\ Frame(r, fd[t]) /\ Reserved(r) = Null
      /\ \/ r.ret = "free" /\ Giving(r)
         \/ r.ret = "opened" /\ HasIno(r) /\ r.op = "creat"
      /\ s \in Named(r, fd[t]) /\ inode[s] \in Inode
  BY <1>1, Truncating
<1>3. /\ q \in Local /\ q.pc = r.ret /\ q.dir = r.dir /\ q.ino = r.ino
      /\ q.emp = r.emp /\ q.puts = r.puts /\ q.op = r.op /\ q.to = r.to
      /\ q.path = r.path /\ q.nr = r.nr /\ q.then = r.then
  <2>1. r.ret \in Places
    BY <1>2 DEF Places
  <2> QED
    BY <1>2, <2>1 DEF Local
<1> HIDE DEF q
<1>4. Carries(r, fd[t], q, fd[t])
  <2>1. CASE r.ret = "free" /\ Giving(r)
    BY <1>2, <1>3, <2>1, GivingGoes
  <2>2. CASE r.ret = "opened" /\ HasIno(r) /\ r.op = "creat"
    <3>1. Shape(q, fd[t])
      BY <1>2, <1>3, <2>2 DEF Shape, Frame, HasIno
    <3>2. Reserved(q) = Reserved(r)
      BY <1>2, <1>3, <2>2 DEF Reserved, HasIno
    <3> QED
      BY <1>2, <1>3, <2>2, <3>1, <3>2, Stays
  <2> QED
    BY <1>2, <2>1, <2>2
<1>5. Amends(t, inode')
  <2>1. Keeps(inode[s], i)
    <3>1. 0 \in Sizes /\ TRUE \in BOOLEAN
      BY Numbers
    <3> QED
      BY <1>2, <3>1, Marking
  <2>2. Amends(t, inode)
    BY AmendNone
  <2>3. Amends(t, [inode EXCEPT ![s] = i])
    BY <1>2, <2>1, <2>2, AmendOne
  <2> HIDE DEF i
  <2>4. CASE inode' = inode
    BY <2>2, <2>4
  <2>5. CASE inode' = [inode EXCEPT ![s] = i]
    BY <2>3, <2>5
  <2> QED
    BY <1>1, <2>4, <2>5
<1> QED
  BY <1>1, <1>4, <1>5, GoGoes, Kept, AmendSteps

LEMMA UndoStep == ASSUME IInv, NEW t \in Task, Undo(t) PROVE IInv'
<1> DEFINE r == l[t]
           s == r.ino
           b == inode[s].zone[0]
           i == [inode[s] EXCEPT !.links = 0]
<1>1. /\ r.pc = "undo"
      /\ \/ Panic(t, "free_block: bit already cleared")
         \/ /\ free_block(b) \/ UNCHANGED zmap
            /\ inode' = [inode EXCEPT ![s] = i] /\ Go(t, PutIno(r))
            /\ UNCHANGED <<disk, imap, data, fd, panic>>
  BY DEF Undo, Runs
<1>2. CASE Panic(t, "free_block: bit already cleared")
  BY <1>2, Panics
<1>3. CASE /\ free_block(b) \/ UNCHANGED zmap
           /\ inode' = [inode EXCEPT ![s] = i] /\ Go(t, PutIno(r))
           /\ UNCHANGED <<disk, imap, data, fd, panic>>
  <2>1. r \in Local /\ fd[t] \in Pointer /\ Shape(r, fd[t])
    BY Facts
  <2>2. HasIno(r) /\ Frame(r, fd[t])
    BY <1>1, <2>1, Framed DEF Shape
  <2>3. Carries(r, fd[t], PutIno(r), fd[t])
    BY <2>1, <2>2, PutInoGoes DEF HasIno
  <2>4. s \in Named(r, fd[t])
    BY <2>2 DEF HasIno, Named
  <2>5. Keeps(inode[s], i)
    <3>1. inode[s] \in Inode /\ 0 \in Int
      BY <2>4, NamedHeld, Facts
    <3> QED
      BY <3>1, Marking
  <2> HIDE DEF i
  <2>6. fd' = fd /\ Stored'
    <3>1. CASE free_block(b)
      BY <1>3, <3>1, FreeBlock
    <3>2. CASE UNCHANGED zmap
      BY <1>3, <3>2 DEF IInv, Types, Stored
    <3> QED
      BY <1>3, <3>1, <3>2
  <2> QED
    BY <1>3, <2>3, <2>4, <2>5, <2>6, GoGoes, OneSteps
<1> QED
  BY <1>1, <1>2, <1>3

LEMMA CarrySteps ==
  ASSUME IInv, NEW t \in Task, NEW q, Goes(t, q), Carries(l[t], fd[t], q, fd[t]), fd' = fd, Stored',
         inode' \in [Slot -> Inode],
         \A s \in Slot : inode'[s].num = inode[s].num /\ inode'[s].count = inode[s].count,
         \A s \in Slot : inode[s].count = 0 \/ inode[s].num = 0 => Clean(s)'
  PROVE  IInv'
<1>1. fd' = [fd EXCEPT ![t] = fd[t]] /\ fd[t] \in Pointer
  BY Facts
<1>2. Moves(t, q, fd[t])
  BY <1>1, Going DEF Carries
<1>3. \A s \in Named(q, fd[t]) : s \in Slot /\ inode[s].num # 0
  BY NamedHeld DEF Carries
<1> QED
  BY <1>2, <1>3, Steady DEF Carries

(* The slot s, which only the task t has in its hands, gets the inode i.   *)
Renews(t, q, s, i) ==
  /\ q \in Local /\ Goes(t, q) /\ Shape(q, fd[t]) /\ fd' = fd /\ Stored'
  /\ s \in Slot /\ s # RootSlot /\ \A u \in Task \ {t} : Own(l[u], fd[u], s) = 0
  /\ i \in Inode /\ inode' = [inode EXCEPT ![s] = i]
  /\ i.count = 0 \/ i.num = 0 => ~i.dirt /\ ~i.lock
  /\ i.count = inode[s].count + Own(q, fd[t], s) - Own(l[t], fd[t], s)
  /\ \A x \in Slot \ {s} : Own(q, fd[t], x) = Own(l[t], fd[t], x)
  /\ \A x \in Named(q, fd[t]) : x \in Slot /\ inode'[x].num # 0
  /\ q.pc = "read" => inode'[q.emp].num = q.nr
  /\ q.pc \in {"scan", "new"} => inode'[q.emp].num = 0 /\ inode'[q.emp].count = 1

LEMMA Renumbered == ASSUME IInv, NEW t \in Task, NEW q, NEW s, NEW i, Renews(t, q, s, i) PROVE IInv'
<1>0. /\ q \in Local /\ Goes(t, q) /\ Shape(q, fd[t]) /\ fd' = fd /\ Stored'
      /\ s \in Slot /\ s # RootSlot /\ (\A u \in Task \ {t} : Own(l[u], fd[u], s) = 0)
      /\ i \in Inode /\ inode' = [inode EXCEPT ![s] = i]
      /\ (i.count = 0 \/ i.num = 0 => ~i.dirt /\ ~i.lock)
      /\ i.count = inode[s].count + Own(q, fd[t], s) - Own(l[t], fd[t], s)
      /\ (\A x \in Slot \ {s} : Own(q, fd[t], x) = Own(l[t], fd[t], x))
      /\ (\A x \in Named(q, fd[t]) : x \in Slot /\ inode'[x].num # 0)
      /\ (q.pc = "read" => inode'[q.emp].num = q.nr)
      /\ (q.pc \in {"scan", "new"} => inode'[q.emp].num = 0 /\ inode'[q.emp].count = 1)
  BY DEF Renews
<1> DEFINE f == fd[t]
<1>1. fd' = [fd EXCEPT ![t] = f] /\ f \in Pointer /\ inode \in [Slot -> Inode]
  BY <1>0, Facts
<1>2. Moves(t, q, f)
  BY <1>0, <1>1, Going
<1>3. inode' \in [Slot -> Inode] /\ \A x \in Slot : inode'[x] = IF x = s THEN i ELSE inode[x]
  BY <1>0, <1>1
<1>4. Types' /\ Shaped' /\ OnlyTask(t) /\ l'[t] = q /\ fd'[t] = f
  BY <1>0, <1>2, <1>3, Moved
<1>5. Changes(t, q, f)
  <2> SUFFICES ASSUME NEW x \in Slot
               PROVE  inode'[x].count = inode[x].count + Own(q, f, x) - Own(l[t], fd[t], x)
    BY DEF Changes
  <2>1. CASE x = s
    BY <1>0, <1>3, <2>1
  <2>2. CASE x # s
    <3>1. PICK a \in Nat : a = Own(l[t], fd[t], x)
      BY OwnTypes
    <3>2. inode[x].count \in Nat /\ Own(q, f, x) = Own(l[t], fd[t], x) /\ inode'[x] = inode[x]
      BY <1>0, <1>1, <1>3, <2>2 DEF Inode
    <3> QED
      BY <1>0, <3>1, <3>2
  <2> QED
    BY <1>0, <2>1, <2>2
<1>6. Numbered'
  <2> SUFFICES ASSUME NEW u \in Task PROVE NumberedFor(u)'
    BY DEF Numbered, NumberedFor
  <2>1. CASE u = t
    BY <1>0, <1>4, <2>1 DEF NumberedFor
  <2>2. CASE u # t
    <3>1. NumberedFor(u)
      BY DEF IInv, Numbered, NumberedFor
    <3>2. l'[u] = l[u] /\ fd'[u] = fd[u]
      BY <1>0, <1>4, <2>2 DEF OnlyTask
    <3>3. /\ l[u] \in Local /\ fd[u] \in Pointer /\ Shape(l[u], fd[u]) /\ l[u].puts \in Seq(Slot)
      BY <1>0, Facts
    <3>4. Own(l[u], fd[u], s) = 0
      BY <1>0, <2>2
    <3>5. Named(l[u], fd[u]) \subseteq Slot \ {s} /\ Reserved(l[u]) # s
      BY <1>0, <3>3, <3>4, Hands
    <3>6. l[u].pc \in {"read", "scan", "new"} => l[u].emp \in Slot \ {s}
      <4>1. l[u].pc \in {"read", "scan", "new"} => l[u].emp \in Slot /\ Reserved(l[u]) = l[u].emp
        BY <1>0, <3>3 DEF Shape, Local, Pointer, Reserved
      <4> QED
        BY <1>0, <3>5, <4>1
    <3>7. \A x \in Slot \ {s} : inode'[x] = inode[x]
      BY <1>0, <1>3
    <3> QED
      BY <1>0, <3>1, <3>2, <3>5, <3>6, <3>7 DEF NumberedFor
  <2> QED
    BY <1>0, <2>1, <2>2
<1>7. Tidy'
  <2>1. inode'[RootSlot].num = ROOT_INO
    BY <1>0, <1>3, Outside DEF IInv, Tidy
  <2>2. ASSUME NEW x \in Slot, inode'[x].count = 0 \/ inode'[x].num = 0 PROVE Clean(x)'
    <3>1. CASE x = s
      BY <1>0, <1>3, <2>2, <3>1 DEF Clean
    <3>2. CASE x # s
      BY <1>0, <1>3, <2>2, <3>2 DEF IInv, Tidy, Clean
    <3> QED
      BY <1>0, <3>1, <3>2
  <2> QED
    BY <1>0, <2>1, <2>2 DEF Tidy
<1> QED
  BY <1>0, <1>2, <1>3, <1>5, <1>6, <1>7, Preserved

LEMMA write_inodeStep ==
  ASSUME IInv, NEW t \in Task, NEW place, NEW s \in Slot, NEW next, write_inode(t, place, s, next),
         NEW q, Goes(t, q), Carries(l[t], fd[t], q, fd[t])
  PROVE  IInv'
<1>1. /\ disk' = [disk EXCEPT ![PlaceInBlock(inode[s].num)] = OnDisk(inode[s])]
      /\ inode' = [inode EXCEPT ![s].dirt = FALSE, ![s].lock = FALSE]
      /\ UNCHANGED <<imap, zmap, data, fd, panic>>
  BY DEF write_inode
<1>2. inode \in [Slot -> Inode] /\ inode[s] \in Inode
  BY Facts
<1>3. PICK i : i = [inode[s] EXCEPT !.dirt = FALSE, !.lock = FALSE]
  OBVIOUS
<1>4. i \in Inode /\ i.num = inode[s].num /\ i.count = inode[s].count /\ ~i.dirt /\ ~i.lock
  BY <1>2, <1>3 DEF Inode
<1>5. inode' = [inode EXCEPT ![s] = i]
  BY <1>1, <1>2, <1>3
<1>6. inode' \in [Slot -> Inode] /\ \A x \in Slot : inode'[x] = IF x = s THEN i ELSE inode[x]
  BY <1>2, <1>4, <1>5
<1>7. Stored' /\ fd' = fd
  <2>1. OnDisk(inode[s]) \in DiskInode
    BY <1>2 DEF OnDisk, DiskInode, Inode
  <2>2. disk \in [Num -> DiskInode] /\ imap \in SUBSET Num /\ zmap \in SUBSET Block
        /\ data \in [Block -> [1 .. K -> DirEntry]]
    BY DEF IInv, Types, Stored
  <2>3. disk' \in [Num -> DiskInode]
    BY <1>1, <2>1, <2>2
  <2> QED
    BY <1>1, <2>2, <2>3 DEF Stored
<1>8. \A x \in Slot : inode'[x].num = inode[x].num /\ inode'[x].count = inode[x].count
  BY <1>4, <1>6
<1>9. ASSUME NEW x \in Slot, inode[x].count = 0 \/ inode[x].num = 0 PROVE Clean(x)'
  BY <1>4, <1>6, <1>9 DEF IInv, Tidy, Clean
<1> QED
  BY <1>6, <1>7, <1>8, <1>9, CarrySteps

LEMMA PutWriteStep == ASSUME IInv, NEW t \in Task, PutWrite(t) PROVE IInv'
<1> DEFINE r == l[t]
           q == [r EXCEPT !.pc = "put", !.emp = @]
<1>1. write_inode(t, "put_write", Given(t), "put") /\ r.pc = "put_write" /\ Go(t, q)
  BY DEF PutWrite, write_inode, Runs
<1>2. r \in Local /\ fd[t] \in Pointer /\ Frame(r, fd[t]) /\ Giving(r) /\ Given(t) \in Slot
  BY <1>1, GivingNow
<1>3. /\ q \in Local /\ q.pc = "put" /\ q.dir = r.dir /\ q.ino = r.ino
      /\ q.emp = r.emp /\ q.puts = r.puts /\ q.op = r.op /\ q.to = r.to
      /\ q.path = r.path /\ q.nr = r.nr /\ q.then = r.then
  BY <1>2 DEF Local, Places
<1> HIDE DEF q
<1>4. Carries(r, fd[t], q, fd[t])
  BY <1>2, <1>3, GivingGoes
<1> QED
  BY <1>1, <1>2, <1>4, GoGoes, write_inodeStep

LEMMA SyncWriteStep == ASSUME IInv, NEW t \in Task, SyncWrite(t) PROVE IInv'
<1> DEFINE r == l[t]
           f == fd[t]
           q == [r EXCEPT !.pc = "sync", !.emp = Null]
<1>1. write_inode(t, "sync_write", r.emp, "sync") /\ r.pc = "sync_write" /\ Go(t, q)
  BY DEF SyncWrite, write_inode, Runs
<1>2. r \in Local /\ f \in Pointer /\ Shape(r, f)
  BY Facts
<1>3. /\ r.dir = Null /\ r.ino = Null /\ r.puts = <<>> /\ r.emp \in Slot /\ Frame(r, f)
      /\ Reserved(r) = Null
  BY <1>1, <1>2, Framed DEF Shape, Local, Pointer, Reserved
<1>4. /\ q \in Local /\ q.pc = "sync" /\ q.dir = r.dir /\ q.ino = r.ino
      /\ q.emp = Null /\ q.puts = r.puts /\ q.op = r.op /\ q.to = r.to
  BY <1>2 DEF Local, Places, Pointer
<1> HIDE DEF q
<1>5. Carries(r, f, q, f)
  <2>1. Shape(q, f)
    BY <1>3, <1>4 DEF Shape, Frame, HasNone
  <2>2. Reserved(q) = Reserved(r)
    BY <1>3, <1>4 DEF Reserved
  <2> QED
    BY <1>2, <1>4, <2>1, <2>2, Stays
<1> QED
  BY <1>1, <1>3, <1>5, GoGoes, write_inodeStep

(* An inode in use is locked to be written.                                *)
LEMMA Locks ==
  ASSUME IInv, NEW t \in Task, NEW s \in Slot, inode[s].num # 0, inode[s].count # 0,
         inode' = [inode EXCEPT ![s].lock = TRUE], InodesOnly,
         NEW q, Goes(t, q), Carries(l[t], fd[t], q, fd[t])
  PROVE  IInv'
<1>1. inode \in [Slot -> Inode] /\ inode[s] \in Inode
  BY Facts
<1>2. PICK i : i = [inode[s] EXCEPT !.lock = TRUE]
  OBVIOUS
<1>3. i \in Inode /\ i.num = inode[s].num /\ i.count = inode[s].count
  BY <1>1, <1>2 DEF Inode
<1>4. inode' = [inode EXCEPT ![s] = i]
  BY <1>2
<1>5. inode' \in [Slot -> Inode] /\ \A x \in Slot : inode'[x] = IF x = s THEN i ELSE inode[x]
  BY <1>1, <1>3, <1>4
<1>6. fd' = fd /\ Stored'
  BY Kept
<1>7. \A x \in Slot : inode'[x].num = inode[x].num /\ inode'[x].count = inode[x].count
  BY <1>3, <1>5
<1>8. ASSUME NEW x \in Slot, inode[x].count = 0 \/ inode[x].num = 0 PROVE Clean(x)'
  BY <1>5, <1>8 DEF IInv, Tidy, Clean
<1> QED
  BY <1>5, <1>6, <1>7, <1>8, CarrySteps

LEMMA PutDirtyStep == ASSUME IInv, NEW t \in Task, PutDirty(t) PROVE IInv'
<1> DEFINE r == l[t]
           s == Given(t)
           q == [r EXCEPT !.pc = "put_write", !.emp = @]
<1>1. r.pc = "put" /\ inode' = [inode EXCEPT ![s].lock = TRUE] /\ Go(t, q) /\ InodesOnly
  BY DEF PutDirty, Putting, Runs, LockToWrite
<1>2. /\ r \in Local /\ fd[t] \in Pointer /\ Frame(r, fd[t]) /\ Giving(r) /\ s \in Slot
      /\ inode[s].num # 0 /\ inode[s].count # 0
  BY <1>1, GivingNow
<1>3. /\ q \in Local /\ q.pc = "put_write" /\ q.dir = r.dir /\ q.ino = r.ino
      /\ q.emp = r.emp /\ q.puts = r.puts /\ q.op = r.op /\ q.to = r.to
      /\ q.path = r.path /\ q.nr = r.nr /\ q.then = r.then
  BY <1>2 DEF Local, Places
<1> HIDE DEF q
<1>4. Carries(r, fd[t], q, fd[t])
  BY <1>2, <1>3, GivingGoes
<1> QED
  BY <1>1, <1>2, <1>4, GoGoes, Locks

LEMMA sync_inodesStep == ASSUME IInv, NEW t \in Task, sync_inodes(t) PROVE IInv'
<1> DEFINE r == l[t]
           f == fd[t]
<1>1. PICK s \in r.todo :
        /\ r.pc = "sync" /\ InodesOnly
        /\ \/ /\ inode[s].dirt /\ inode[s].num # 0 /\ inode' = [inode EXCEPT ![s].lock = TRUE]
              /\ Go(t, [[r EXCEPT !.todo = @ \ {s}] EXCEPT !.pc = "sync_write", !.emp = s])
           \/ inode' = inode /\ Go(t, [r EXCEPT !.todo = @ \ {s}])
  BY DEF sync_inodes, Runs
<1> DEFINE p == [r EXCEPT !.todo = @ \ {s}]
           q == [p EXCEPT !.pc = "sync_write", !.emp = s]
<1>2. r \in Local /\ f \in Pointer /\ Shape(r, f)
  BY Facts
<1>3. HasNone(r) /\ Frame(r, f) /\ s \in Slot /\ Reserved(r) = Null
  BY <1>1, <1>2, Framed DEF Shape, Local, HasNone, Reserved
<1>4. /\ p \in Local /\ p.pc = "sync" /\ p.dir = r.dir /\ p.ino = r.ino
      /\ p.emp = r.emp /\ p.puts = r.puts /\ p.op = r.op /\ p.to = r.to
  <2>1. r.todo \ {s} \in SUBSET Slot
    BY <1>2 DEF Local
  <2> QED
    BY <1>1, <1>2, <2>1 DEF Local
<1> HIDE DEF p
<1>5. /\ q \in Local /\ q.pc = "sync_write" /\ q.dir = r.dir /\ q.ino = r.ino
      /\ q.emp = s /\ q.puts = r.puts /\ q.op = r.op /\ q.to = r.to
  <2>1. s \in Pointer /\ "sync_write" \in Places
    BY <1>3 DEF Places, Pointer
  <2> QED
    BY <1>4, <2>1 DEF Local
<1> HIDE DEF q
<1>6. Shape(p, f) /\ Shape(q, f)
  BY <1>3, <1>4, <1>5, Outside DEF Shape, Frame, HasNone
<1>7. Reserved(p) = Null /\ Reserved(q) = Null
  BY <1>3, <1>4, <1>5 DEF Reserved, HasNone
<1>8. Carries(r, f, p, f) /\ Carries(r, f, q, f)
  <2>1. Carries(r, f, p, f)
    BY <1>2, <1>3, <1>4, <1>6, <1>7, Stays
  <2>2. Carries(r, f, q, f)
    BY <1>2, <1>3, <1>5, <1>6, <1>7, Stays
  <2> QED
    BY <2>1, <2>2
<1>9. CASE /\ inode[s].dirt /\ inode[s].num # 0 /\ inode' = [inode EXCEPT ![s].lock = TRUE]
           /\ Go(t, q)
  <2>1. inode[s].count # 0
    BY <1>3, <1>9 DEF IInv, Tidy, Clean
  <2> QED
    BY <1>1, <1>3, <1>8, <1>9, <2>1, GoGoes, Locks
<1>10. CASE inode' = inode /\ Go(t, p)
  BY <1>1, <1>8, <1>10, GoGoes, LocalSteps DEF LocalOnly
<1> QED
  BY <1>1, <1>9, <1>10 DEF p, q

LEMMA SyncedStep == ASSUME IInv, NEW t \in Task, Synced(t) PROVE IInv'
<1>1. l[t].pc = "sync" /\ Go(t, Idle) /\ LocalOnly
  BY DEF Synced, Runs
<1>2. l[t] \in Local /\ fd[t] \in Pointer /\ HasNone(l[t])
  BY <1>1, Facts DEF Shape
<1> QED
  BY <1>1, <1>2, IdleGoes, GoGoes, LocalSteps

(* A call that begins with a task that has nothing but its open file.      *)
Fresh(q) ==
  /\ q \in Local /\ q.dir = Null /\ q.ino = Null /\ q.emp = Null /\ q.puts = <<>>
  /\ q.op \in {"write", "sync"}

LEMMA FreshGoes ==
  ASSUME IInv, NEW t \in Task, l[t].pc = "user", NEW q, Fresh(q),
         \/ q.pc = "alloc" /\ q.ret = "written" /\ fd[t] # Null
         \/ q.pc = "written" /\ fd[t] # Null
         \/ q.pc = "sync"
  PROVE  Carries(l[t], fd[t], q, fd[t])
<1>1. l[t] = Idle /\ l[t] \in Local /\ fd[t] \in Pointer
  BY Facts DEF Shape
<1>2. Shape(q, fd[t])
  BY DEF Fresh, Shape, HasNone
<1>3. Reserved(q) = Reserved(l[t])
  BY <1>1, IdleIs DEF Fresh, Reserved
<1> QED
  BY <1>1, <1>2, <1>3, IdleIs, Stays DEF Fresh

LEMMA file_writeStep == ASSUME IInv, NEW t \in Task, file_write(t) PROVE IInv'
<1> DEFINE r == [Idle EXCEPT !.op = "write"]
           p == [r EXCEPT !.pc = "alloc", !.ret = "written"]
           q == [r EXCEPT !.pc = "written"]
<1>1. l[t].pc = "user" /\ fd[t] # Null /\ LocalOnly /\ (Go(t, p) \/ Go(t, q))
  BY DEF file_write, Runs
<1>2. Fresh(p) /\ p.pc = "alloc" /\ p.ret = "written" /\ Fresh(q) /\ q.pc = "written"
  <2>1. r \in Local /\ r.dir = Null /\ r.ino = Null /\ r.emp = Null /\ r.puts = <<>> /\ r.op = "write"
    BY IdleIs DEF Local, NoPath
  <2> HIDE DEF r
  <2> QED
    BY <2>1 DEF Fresh, Local, Places
<1> HIDE DEF p, q
<1> QED
  BY <1>1, <1>2, FreshGoes, GoGoes, LocalSteps

LEMMA sys_syncStep == ASSUME IInv, NEW t \in Task, sys_sync(t) PROVE IInv'
<1> DEFINE q == [Idle EXCEPT !.op = "sync", !.pc = "sync", !.todo = Slot]
<1>1. l[t].pc = "user" /\ LocalOnly /\ Go(t, q)
  BY DEF sys_sync, Runs
<1>2. Fresh(q) /\ q.pc = "sync"
  <2>1. Slot \in SUBSET Slot
    OBVIOUS
  <2> QED
    BY <2>1, IdleIs DEF Local, NoPath, Places, Fresh
<1> HIDE DEF q
<1> QED
  BY <1>1, <1>2, FreshGoes, GoGoes, LocalSteps

LEMMA WrittenStep == ASSUME IInv, NEW t \in Task, Written(t) PROVE IInv'
<1> DEFINE s == fd[t]
           d == inode[s].dirt \/ inode[s].size = 0
           i == [inode[s] EXCEPT !.size = 1, !.dirt = d]
<1>1. l[t].pc = "written" /\ Go(t, Idle) /\ InodesOnly
      /\ inode' = [inode EXCEPT ![fd[t]].size = 1, ![fd[t]].dirt = @ \/ inode[fd[t]].size = 0]
  BY DEF Written, Runs
<1>2. l[t] \in Local /\ s \in Pointer /\ HasNone(l[t]) /\ s # Null
  BY <1>1, Facts DEF Shape
<1>3. s \in Named(l[t], s) /\ s \in Slot /\ inode[s] \in Inode
  <2>1. s \in Named(l[t], s)
    BY <1>2 DEF Named
  <2> QED
    BY <2>1, NamedHeld, Facts
<1>4. Keeps(inode[s], i)
  <2>1. d \in BOOLEAN /\ 1 \in Sizes
    BY Numbers
  <2> HIDE DEF d
  <2> QED
    BY <1>3, <2>1, Marking
<1>5. inode' = [inode EXCEPT ![s] = i]
  BY <1>1, <1>3, Facts
<1> HIDE DEF i
<1> QED
  BY <1>1, <1>2, <1>3, <1>4, <1>5, IdleGoes, GoGoes, Kept, OneSteps

LEMMA sys_closeStep == ASSUME IInv, NEW t \in Task, sys_close(t) PROVE IInv'
<1> DEFINE r == [Idle EXCEPT !.op = "close", !.ino = fd[t]]
           q == PutIno(r)
<1>1. /\ l[t].pc = "user" /\ fd[t] # Null /\ fd' = [fd EXCEPT ![t] = Null] /\ Go(t, q)
      /\ UNCHANGED <<inode, disk, imap, zmap, data, panic>>
  BY DEF sys_close, Runs
<1>2. l[t] = Idle /\ fd[t] \in Pointer /\ Null \in Pointer /\ inode \in [Slot -> Inode]
  BY <1>1, Facts DEF Shape, Pointer
<1>3. /\ r \in Local /\ r.dir = Null /\ r.ino = fd[t] /\ r.emp = Null /\ r.puts = <<>> /\ r.op = "close"
  BY <1>2, IdleIs DEF Local, NoPath
<1> HIDE DEF r
<1>4. Carries(r, Null, q, Null)
  <2>1. Frame(r, Null)
    BY <1>3 DEF Frame
  <2> QED
    BY <1>1, <1>2, <1>3, <2>1, PutInoGoes
<1>5. Carries(Idle, fd[t], q, Null)
  <2>1. Reserved(r) = Null /\ Reserved(Idle) = Null /\ First(r) = First(Idle) /\ Second(r) = Second(Idle)
        /\ First(r) = Null /\ Second(r) = Null
    BY <1>3, IdleIs, Empties DEF Reserved
  <2>2. Named(r, Null) = Named(Idle, fd[t])
    BY <1>3, <2>1, IdleIs DEF Named
  <2>3. \A s \in Slot : Own(r, Null, s) = Own(Idle, fd[t], s)
    BY <1>3, <2>1, IdleIs, Outside DEF Own
  <2> QED
    BY <1>4, <2>2, <2>3 DEF Carries
<1>6. Goes(t, q)
  BY <1>1, GoGoes DEF r
<1> HIDE DEF q
<1>7. Moves(t, q, Null)
  BY <1>1, <1>2, <1>5, <1>6, Going DEF Carries
<1>8. Edited(t) /\ Stored'
  BY <1>1, <1>2 DEF Edited, IInv, Types, Stored
<1> QED
  BY <1>2, <1>5, <1>7, <1>8, Edits

(* A sequence of one or two slots.                                         *)
LEMMA Rest ==
  ASSUME NEW p \in Seq(Slot), Len(p) = 2
  PROVE  p[2] \in Slot /\ Tail(p) \in Seq(Slot) /\ Len(Tail(p)) = 1 /\ Tail(p)[1] = p[2]
<1>1. \A q \in Seq(Slot) : /\ \A j \in 1 .. Len(q) : q[j] \in Slot
                           /\ q # <<>> => \A j \in 1 .. Len(q) - 1 : Tail(q)[j] = q[j + 1]
  OBVIOUS
<1>2. Tail(p) \in Seq(Slot) /\ p # <<>>
  OBVIOUS
<1>3. Len(Tail(p)) = 1
  OBVIOUS
<1>4. 2 \in 1 .. Len(p) /\ 1 \in 1 .. Len(p) - 1 /\ 1 + 1 = 2
  OBVIOUS
<1>5. p[2] \in Slot /\ Tail(p)[1] = p[2]
  BY <1>1, <1>2, <1>4
<1> QED
  BY <1>2, <1>3, <1>5

LEMMA One == ASSUME NEW p, Len(p) = 1 PROVE p # <<>>
<1>1. Len(<<>>) = 0
  OBVIOUS
<1>2. SUFFICES ASSUME p = <<>> PROVE FALSE
  OBVIOUS
<1>3. Len(<<>>) = 1
  BY <1>2
<1> QED
  BY <1>1, <1>3

LEMMA Pairs ==
  ASSUME NEW p \in Seq(Slot), p # <<>>, Len(p) <= 2
  PROVE  /\ Len(p) \in {1, 2} /\ p[1] \in Slot
         /\ Len(p) = 2 =>
              p[2] \in Slot /\ Tail(p) \in Seq(Slot) /\ Tail(p) # <<>> /\ Len(Tail(p)) = 1 /\ Tail(p)[1] = p[2]
<1>1. \A q \in Seq(Slot) : q # <<>> => Len(q) >= 1 /\ Head(q) = q[1] /\ q[1] \in Slot
  OBVIOUS
<1>2. PICK n \in Nat : n = Len(p)
  OBVIOUS
<1>3. n >= 1 /\ n <= 2 /\ p[1] \in Slot
  BY <1>1, <1>2
<1>4. Len(p) \in {1, 2}
  BY <1>2, <1>3
<1> QED
  BY <1>3, <1>4, Rest, One

LEMMA NextPutGoes ==
  ASSUME NEW r \in Local, NEW f \in Pointer, Frame(r, f), Giving(r), r.pc \in {"put", "free"}
  PROVE  /\ NextPut(r) \in Local /\ Shape(NextPut(r), f)
         /\ NextPut(r).pc \notin {"scan", "new", "read"}
         /\ Named(NextPut(r), f) \subseteq Named(r, f)
         /\ \A s \in Slot : Own(r, f, s) = Own(NextPut(r), f, s) + (IF s = First(r) THEN 1 ELSE 0)
<1> DEFINE P == r.puts
           q == NextPut(r)
           a == [r EXCEPT !.pc = "put", !.puts = Tail(@)]
           b == [r EXCEPT !.pc = r.then, !.puts = <<>>, !.then = "end"]
<1>1. P \in Seq(Slot) /\ P # <<>> /\ Len(P) \in {1, 2} /\ First(r) = P[1] /\ P[1] \in Slot
  <2>1. P \in Seq(Slot) /\ P # <<>> /\ Len(P) <= 2
    BY DEF Local, Giving
  <2>2. Len(P) \in {1, 2} /\ P[1] \in Slot
    BY <2>1, Pairs
  <2>3. Len(P) >= 1
    BY <2>2
  <2> QED
    BY <2>1, <2>2, <2>3 DEF First
<1>2. Reserved(r) = Null /\ r.emp = Null
  BY DEF Giving, Reserved
<1>3. CASE Len(P) = 2
  <2>1. q = a
    BY <1>3 DEF NextPut
  <2>2. Len(P) = 2 /\ Tail(P) \in Seq(Slot) /\ Tail(P) # <<>> /\ Len(Tail(P)) = 1 /\ Tail(P)[1] = P[2] /\ P[2] \in Slot
    <3>2. Len(P) <= 2
      BY <1>3
    <3> QED
      BY <1>1, <1>3, <3>2, Pairs
  <2>3. /\ a \in Local /\ a.pc = "put" /\ a.puts = Tail(P) /\ a.dir = r.dir /\ a.ino = r.ino
        /\ a.emp = r.emp /\ a.op = r.op /\ a.to = r.to /\ a.path = r.path /\ a.nr = r.nr /\ a.then = r.then
    BY <2>2 DEF Local, Places
  <2> HIDE DEF a
  <2>4. First(a) = P[2] /\ Second(a) = Null /\ Second(r) = P[2] /\ Reserved(a) = Null
    <3>1. Len(a.puts) = 1 /\ ~(Len(a.puts) >= 2) /\ Len(a.puts) >= 1 /\ a.puts[1] = P[2]
      <4> HIDE DEF P
      <4> QED
        BY <2>2, <2>3
    <3>2. Len(r.puts) >= 2
      BY <2>2
    <3> QED
      BY <1>2, <2>3, <3>1, <3>2 DEF First, Second, Reserved
  <2>5. Giving(a)
    <3>1. Hunting(r) => Hunting(a)
      BY <2>3 DEF Hunting, LastName, Removes
    <3>2. a.puts # <<>> /\ Len(a.puts) <= 2
      <4> HIDE DEF P
      <4> QED
        BY <2>2, <2>3
    <3> QED
      BY <2>3, <3>1, <3>2 DEF Giving
  <2>6. Shape(a, f)
    BY <2>3, <2>5 DEF Shape, Frame
  <2>7. Named(a, f) \subseteq Named(r, f)
    BY <2>3, <2>4 DEF Named
  <2>8. \A s \in Slot : Own(r, f, s) = Own(a, f, s) + (IF s = First(r) THEN 1 ELSE 0)
    BY <1>2, <2>3, <2>4, Outside DEF Own
  <2> QED
    BY <2>1, <2>3, <2>6, <2>7, <2>8
<1>4. CASE Len(P) = 1
  <2>1. Second(r) = Null
    BY <1>1, <1>4 DEF Second
  <2>2. CASE r.then = "end"
    <3>1. q = Idle
      BY <1>4, <2>2 DEF NextPut
    <3>2. r.dir = Null /\ r.ino = Null
      BY <2>2 DEF Giving
    <3>3. First(Idle) = Null /\ Second(Idle) = Null /\ Reserved(Idle) = Null
      BY IdleIs, Empties DEF Reserved
    <3>4. Named(Idle, f) \subseteq Named(r, f)
      BY <3>3, IdleIs DEF Named
    <3>5. \A s \in Slot : Own(r, f, s) = Own(Idle, f, s) + (IF s = First(r) THEN 1 ELSE 0)
      BY <1>2, <2>1, <3>2, <3>3, IdleIs, Outside DEF Own
    <3> QED
      BY <3>1, <3>4, <3>5, IdleIs
  <2>3. CASE r.then # "end"
    <3>1. q = b
      BY <1>4, <2>3 DEF NextPut
    <3>2. r.then \in {"empty", "opened", "linked", "undo"}
      BY <2>3 DEF Local, Afterwards
    <3>3. r.then \in Places /\ <<>> \in Seq(Slot) /\ "end" \in Afterwards
      BY <3>2 DEF Places, Afterwards
    <3>4. /\ b \in Local /\ b.pc = r.then /\ b.puts = <<>> /\ b.dir = r.dir /\ b.ino = r.ino
          /\ b.emp = r.emp /\ b.op = r.op /\ b.to = r.to /\ b.path = r.path /\ b.nr = r.nr
      BY <3>3 DEF Local
    <3> HIDE DEF b
    <3>5. Shape(b, f)
      <4>1. b.pc = "empty" => Hunting(b)
        BY <3>4 DEF Giving, Hunting, LastName, Removes
      <4>2. b.pc \in {"opened", "linked", "undo"} => HasIno(b)
        BY <1>2, <3>4 DEF Giving, HasIno
      <4>3. b.pc = "opened" => b.op = "creat"
        BY <3>4 DEF Giving
      <4> QED
        BY <1>2, <3>2, <3>4, <4>1, <4>2, <4>3 DEF Shape, Frame
    <3>6. First(b) = Null /\ Second(b) = Null /\ Reserved(b) = Null
      BY <1>2, <3>4, Empties DEF Reserved
    <3>7. Named(b, f) \subseteq Named(r, f)
      BY <3>4, <3>6 DEF Named
    <3>8. \A s \in Slot : Own(r, f, s) = Own(b, f, s) + (IF s = First(r) THEN 1 ELSE 0)
      BY <1>2, <2>1, <3>4, <3>6, Outside DEF Own
    <3> QED
      BY <3>1, <3>2, <3>4, <3>5, <3>7, <3>8
  <2> QED
    BY <2>2, <2>3
<1> QED
  BY <1>1, <1>3, <1>4

LEMMA DecrementStep == ASSUME IInv, NEW t \in Task, Decrement(t) PROVE IInv'
<1> DEFINE r == l[t]
           f == fd[t]
           g == Given(t)
           q == NextPut(r)
<1>1. /\ r.pc = "put" /\ ~inode[g].lock /\ (Last(t) => ~inode[g].dirt)
      /\ \/ Panic(t, "iput: trying to free free inode")
         \/ inode' = [inode EXCEPT ![g].count = @ - 1] /\ Go(t, q) /\ InodesOnly
  BY DEF Decrement, Putting, Runs
<1>2. CASE Panic(t, "iput: trying to free free inode")
  BY <1>2, Panics
<1>3. CASE inode' = [inode EXCEPT ![g].count = @ - 1] /\ Go(t, q) /\ InodesOnly
  <2>1. /\ r \in Local /\ f \in Pointer /\ Frame(r, f) /\ Giving(r) /\ g \in Slot /\ g = First(r)
        /\ inode[g] \in Inode /\ inode[g].num # 0 /\ inode[g].count >= 1
    BY <1>1, GivingNow
  <2>2. /\ q \in Local /\ Shape(q, f) /\ q.pc \notin {"scan", "new", "read"}
        /\ Named(q, f) \subseteq Named(r, f)
        /\ \A s \in Slot : Own(r, f, s) = Own(q, f, s) + (IF s = g THEN 1 ELSE 0)
    BY <1>1, <2>1, NextPutGoes
  <2> HIDE DEF q, g
  <2>3. PICK c \in Nat : c = inode[g].count - 1 /\ inode[g].count = c + 1
    BY <2>1 DEF Inode
  <2>4. inode' = [inode EXCEPT ![g] = [inode[g] EXCEPT !.count = c]]
    BY <1>3, <2>3
  <2>5. PICK i : i = [inode[g] EXCEPT !.count = c]
    OBVIOUS
  <2>6. i \in Inode /\ i.num = inode[g].num /\ i.lock = inode[g].lock /\ i.dirt = inode[g].dirt /\ i.count = c
    BY <2>1, <2>5 DEF Inode
  <2>7. inode' \in [Slot -> Inode] /\ \A s \in Slot : inode'[s] = IF s = g THEN i ELSE inode[s]
    BY <2>1, <2>4, <2>5, <2>6, Facts
  <2>8. c = 0 => ~inode[g].dirt
    <3> SUFFICES ASSUME c = 0 PROVE ~inode[g].dirt
      OBVIOUS
    <3>1. inode[g].count = 1
      BY <2>3
    <3> QED
      BY <1>1, <2>1, <3>1 DEF Last, g
  <2>9. Counting(t, f)
    <3> SUFFICES ASSUME NEW s \in Slot
                 PROVE  /\ inode'[s].num = inode[s].num /\ inode'[s].lock = inode[s].lock
                        /\ inode'[s].dirt = inode[s].dirt
                        /\ inode'[s].count = 0 => inode[s].count = 0 \/ (~inode[s].dirt /\ ~inode[s].lock /\ inode'[s].dirt = inode[s].dirt)
                        /\ inode'[s].count = inode[s].count \/ inode[s].num # 0
      BY <2>7 DEF Counting
    <3>1. CASE s = g
      BY <1>1, <2>1, <2>6, <2>7, <2>8, <3>1
    <3>2. CASE s # g
      BY <2>7, <3>2
    <3> QED
      BY <3>1, <3>2
  <2>10. Changes(t, q, f)
    <3> SUFFICES ASSUME NEW s \in Slot PROVE inode'[s].count = inode[s].count + Own(q, f, s) - Own(r, f, s)
      BY DEF Changes
    <3>1. PICK a, b \in Nat : a = Own(q, f, s) /\ b = Own(r, f, s)
      BY OwnTypes
    <3>2. PICK e \in {0, 1} : e = IF s = g THEN 1 ELSE 0
      OBVIOUS
    <3>3. b = a + e
      BY <2>2, <3>1, <3>2
    <3>4. inode[s].count \in Nat /\ inode'[s].count = inode[s].count - e
      <4>1. CASE s = g
        BY <2>1, <2>3, <2>6, <2>7, <3>2, <4>1 DEF Inode
      <4>2. CASE s # g
        BY <2>7, <3>2, <4>2, Facts DEF Inode
      <4> QED
        BY <4>1, <4>2
    <3>5. inode'[s].count = inode[s].count + a - b
      BY <3>3, <3>4
    <3> QED
      BY <3>1, <3>5
  <2>11. \A s \in Named(q, f) : s \in Slot /\ inode[s].num # 0
    BY <2>2, NamedHeld
  <2> QED
    BY <1>3, <2>2, <2>9, <2>10, <2>11, GoGoes, Kept, CountSteps
<1> QED
  BY <1>1, <1>2, <1>3

LEMMA Empty ==
  NoInode \in Inode /\ NoInode.num = 0 /\ NoInode.count = 0 /\ ~NoInode.dirt /\ ~NoInode.lock
<1>1. NoZones \in Zones
  BY Numbers DEF NoZones, Zones
<1>2. 0 \in 0 .. NInode /\ 0 \in Sizes /\ 0 \in Int /\ 0 \in Nat /\ "none" \in Kinds
  BY Numbers DEF Kinds
<1> QED
  BY <1>1, <1>2 DEF NoInode, Inode

LEMMA free_inodeStep == ASSUME IInv, NEW t \in Task, free_inode(t) PROVE IInv'
<1> DEFINE r == l[t]
           f == fd[t]
           g == Given(t)
           q == NextPut(r)
           message == IF inode[g].count > 1 THEN "free_inode" ELSE "trying to free inode with links"
<1>1. /\ r.pc = "free"
      /\ \/ Panic(t, message)
         \/ /\ ~(inode[g].count > 1) /\ imap' = imap \ {inode[g].num}
            /\ inode' = [inode EXCEPT ![g] = NoInode] /\ Go(t, q)
            /\ UNCHANGED <<disk, zmap, data, fd, panic>>
  <2>1. /\ r.pc = "free"
        /\ IF inode[g].count > 1 THEN Panic(t, "free_inode")
           ELSE IF inode[g].links # 0 THEN Panic(t, "trying to free inode with links")
           ELSE /\ imap' = imap \ {inode[g].num}
                /\ inode' = [inode EXCEPT ![g] = NoInode] /\ Go(t, q)
                /\ UNCHANGED <<disk, zmap, data, fd, panic>>
    BY DEF free_inode, Runs
  <2> HIDE DEF r, g, q
  <2> QED
    BY <2>1
<1>2. CASE Panic(t, message)
  BY <1>2, Panics
<1>3. CASE /\ ~(inode[g].count > 1) /\ imap' = imap \ {inode[g].num}
           /\ inode' = [inode EXCEPT ![g] = NoInode] /\ Go(t, q)
           /\ UNCHANGED <<disk, zmap, data, fd, panic>>
  <2>1. /\ r \in Local /\ f \in Pointer /\ Frame(r, f) /\ Giving(r) /\ g \in Slot /\ g = First(r)
        /\ g \in Named(r, f) /\ inode[g] \in Inode /\ inode[g].num # 0 /\ inode[g].count >= 1
        /\ r.puts \in Seq(Slot) /\ inode \in [Slot -> Inode]
    BY <1>1, GivingNow, Facts
  <2>2. /\ q \in Local /\ Shape(q, f) /\ q.pc \notin {"scan", "new", "read"}
        /\ Named(q, f) \subseteq Named(r, f)
        /\ \A s \in Slot : Own(r, f, s) = Own(q, f, s) + (IF s = g THEN 1 ELSE 0)
    BY <1>1, <2>1, NextPutGoes
  <2>3. Goes(t, q)
    BY <1>3, GoGoes
  <2> HIDE DEF q, g
  <2>4. PICK a, b \in Nat : a = Own(q, f, g) /\ b = Own(r, f, g)
    BY OwnTypes
  <2>5. b = a + 1
    BY <2>1, <2>2, <2>4
  <2>6. inode[g].count = 1
    BY <1>3, <2>1 DEF Inode
  <2>7. g # RootSlot /\ (\A u \in Task \ {t} : Own(l[u], fd[u], g) = 0) /\ b = 1
    <3>1. inode[g].count <= 1 /\ Own(l[t], fd[t], g) >= 1
      BY <2>4, <2>5, <2>6
    <3> QED
      BY <2>1, <2>4, <2>6, <3>1, Sole
  <2>8. a = 0
    BY <2>5, <2>7
  <2>9. g \notin Named(q, f)
    <3>1. q.puts \in Seq(Slot)
      BY <2>2 DEF Local
    <3> QED
      BY <2>1, <2>2, <2>4, <2>8, <3>1, Hands
  <2>10. \A x \in Named(q, f) : x \in Slot /\ inode'[x].num # 0
    <3>1. \A x \in Named(q, f) : x \in Slot /\ inode[x].num # 0
      BY <2>2, NamedHeld
    <3> QED
      BY <1>3, <2>1, <2>9, <3>1
  <2>11. NoInode.count = inode[g].count + Own(q, f, g) - Own(r, f, g)
    BY <2>4, <2>6, <2>7, <2>8, Empty
  <2>12. \A x \in Slot \ {g} : Own(q, f, x) = Own(r, f, x)
    BY <2>2, OwnTypes
  <2>13. Stored' /\ fd' = fd
    <3>1. imap \in SUBSET Num
      BY DEF IInv, Types, Stored
    <3>2. imap' \in SUBSET Num
      BY <1>3, <3>1
    <3> QED
      BY <1>3, <3>2 DEF IInv, Types, Stored
  <2> QED
    <3>1. Renews(t, q, g, NoInode)
      BY <1>3, <2>1, <2>2, <2>3, <2>7, <2>10, <2>11, <2>12, <2>13, Empty DEF Renews
    <3> QED
      BY <3>1, Renumbered
<1> QED
  BY <1>1, <1>2, <1>3

-----------------------------------------------------------------------------
(* get_empty_inode() and new_inode().                                      *)
LEMMA get_empty_inodeStep == ASSUME IInv, NEW t \in Task, get_empty_inode(t) PROVE IInv'
<1> DEFINE r == l[t]
           f == fd[t]
<1>1. /\ r.pc = "empty"
      /\ Panic(t, "No free inodes in mem") \/ \E s \in Unused : Take(t, s)
  BY DEF get_empty_inode, Runs
<1>2. CASE Panic(t, "No free inodes in mem")
  BY <1>2, Panics
<1>3. ASSUME NEW s \in Unused, Take(t, s) PROVE IInv'
  <2> DEFINE i == [NoInode EXCEPT !.count = 1]
             place == IF r.nr = 0 THEN "new" ELSE "scan"
             q == [r EXCEPT !.emp = s, !.pc = place]
  <2>1. /\ r \in Local /\ f \in Pointer /\ Shape(r, f) /\ r.puts \in Seq(Slot) /\ inode \in [Slot -> Inode]
        /\ s \in Slot /\ inode[s].count = 0 /\ fd[t] = f
    BY Facts DEF Unused
  <2>2. inode' = [inode EXCEPT ![s] = i] /\ Goes(t, q) /\ Stored' /\ fd' = fd
    <3>1. inode' = [inode EXCEPT ![s] = i] /\ Go(t, q) /\ InodesOnly
      BY <1>3 DEF Take
    <3> HIDE DEF i, q
    <3> QED
      BY <3>1, GoGoes, Kept
  <2>3. i \in Inode /\ i.num = 0 /\ i.count = 1 /\ ~i.dirt /\ ~i.lock
    BY Empty DEF Inode
  <2>4. r.emp = Null /\ r.puts = <<>> /\ (Hunting(r) \/ Making(r)) /\ Frame(r, f)
    BY <1>1, <2>1, Framed DEF Shape
  <2>5. /\ q \in Local /\ q.pc = place /\ q.emp = s /\ q.dir = r.dir /\ q.ino = r.ino /\ q.puts = <<>>
        /\ q.op = r.op /\ q.to = r.to /\ q.path = r.path /\ q.nr = r.nr
    <3>1. s \in Pointer /\ place \in Places
      BY <2>1 DEF Pointer, Places
    <3> HIDE DEF place
    <3> QED
      BY <2>1, <2>4, <3>1 DEF Local
  <2> HIDE DEF q, i
  <2>6. Shape(q, f)
    <3>1. r.nr = 0 => Making(q)
      BY <2>4, <2>5 DEF Making, Hunting
    <3>2. r.nr # 0 => Hunting(q)
      BY <2>4, <2>5 DEF Making, Hunting, LastName, Removes
    <3>3. s # Null
      BY <2>1, Outside
    <3> QED
      BY <2>4, <2>5, <3>1, <3>2, <3>3 DEF Shape, Frame
  <2>7. /\ First(r) = Null /\ Second(r) = Null /\ Reserved(r) = Null
        /\ First(q) = Null /\ Second(q) = Null /\ Reserved(q) = s
    BY <1>1, <2>4, <2>5, Empties DEF Reserved
  <2>8. Named(q, f) = Named(r, f)
    BY <2>5, <2>7 DEF Named
  <2>9. s # RootSlot /\ (\A u \in Task \ {t} : Own(l[u], fd[u], s) = 0) /\ Own(r, f, s) = 0
    BY <2>1, Sole
  <2>10. \A x \in Slot : Own(q, f, x) = Own(r, f, x) + (IF x = s THEN 1 ELSE 0)
    BY <2>5, <2>7, Outside DEF Own
  <2>11. i.count = inode[s].count + Own(q, f, s) - Own(r, f, s)
    BY <2>1, <2>3, <2>9, <2>10
  <2>12. \A x \in Slot \ {s} : Own(q, f, x) = Own(r, f, x)
    BY <2>10, OwnTypes
  <2>13. s \notin Named(r, f)
    BY <2>1, <2>9, Hands
  <2>14. \A x \in Named(q, f) : x \in Slot /\ inode'[x].num # 0
    <3>1. \A x \in Named(q, f) : x \in Slot /\ inode[x].num # 0
      BY <2>8, NamedHeld
    <3> QED
      BY <2>1, <2>2, <2>8, <2>13, <3>1
  <2>15. q.pc # "read" /\ inode'[q.emp].num = 0 /\ inode'[q.emp].count = 1
    <3>1. inode'[s] = i
      BY <2>1, <2>2
    <3> QED
      BY <2>3, <2>5, <3>1
  <2> QED
    <3>1. Renews(t, q, s, i)
      BY <2>1, <2>2, <2>3, <2>5, <2>6, <2>9, <2>11, <2>12, <2>14, <2>15 DEF Renews
    <3> QED
      BY <3>1, Renumbered
<1> QED
  BY <1>1, <1>2, <1>3

LEMMA Longer ==
  ASSUME NEW p \in Seq(Name), p # <<>>, Len(p) # 1
  PROVE  Tail(p) \in Seq(Name) /\ Tail(p) # <<>>
<1>1. Len(p) \in Nat /\ Len(p) # 0
  OBVIOUS
<1>2. Len(p) > 1
  BY <1>1
<1>3. Tail(p) \in Seq(Name) /\ Len(Tail(p)) = Len(p) - 1
  OBVIOUS
<1>4. Len(Tail(p)) # 0 /\ Len(<<>>) = 0
  BY <1>1, <1>2, <1>3
<1> QED
  BY <1>3, <1>4

(* iget() returns: the pointer to the empty slot is replaced by one to s.  *)
LEMMA GotGoes ==
  ASSUME NEW r \in Local, NEW f \in Pointer, Frame(r, f), r.pc \in {"scan", "read"}, r.emp \in Slot,
         r.puts = <<>>, Hunting(r), NEW s \in Slot, NEW i \in Inode
  PROVE  /\ Got(r, s, i) \in Local /\ Shape(Got(r, s, i), f) /\ Got(r, s, i).pc \notin {"scan", "new", "read"}
         /\ Named(Got(r, s, i), f) \subseteq Named(r, f) \cup {s}
         /\ \A x \in Slot : Own(Got(r, s, i), f, x) + (IF x = r.emp THEN 1 ELSE 0)
                              = Own(r, f, x) + (IF x = s THEN 1 ELSE 0)
<1>1. First(r) = Null /\ Second(r) = Null /\ Reserved(r) = r.emp /\ s # Null /\ r.emp # Null
  BY Empties, Outside DEF Reserved
<1>2. CASE LastName(r)
  <2> DEFINE q == [r EXCEPT !.pc = "got", !.ino = s, !.emp = Null]
  <2>1. Got(r, s, i) = q
    BY <1>2 DEF Got
  <2>2. /\ q \in Local /\ q.pc = "got" /\ q.ino = s /\ q.emp = Null /\ q.dir = r.dir
        /\ q.puts = r.puts /\ q.op = r.op /\ q.to = r.to
    BY DEF Local, Places, Pointer
  <2> HIDE DEF q
  <2>3. r.ino = Null /\ (r.dir # Null <=> Removes(r))
    BY <1>2 DEF Hunting
  <2>4. Shape(q, f)
    BY <1>1, <2>2, <2>3 DEF Shape, Frame, Removes
  <2>5. First(q) = Null /\ Second(q) = Null /\ Reserved(q) = Null
    BY <2>2, Empties DEF Reserved
  <2>6. Named(q, f) \subseteq Named(r, f) \cup {s}
    BY <1>1, <2>2, <2>5 DEF Named
  <2>7. \A x \in Slot : Own(q, f, x) + (IF x = r.emp THEN 1 ELSE 0) = Own(r, f, x) + (IF x = s THEN 1 ELSE 0)
    BY <1>1, <2>2, <2>3, <2>5, Outside DEF Own
  <2> QED
    BY <2>1, <2>2, <2>4, <2>6, <2>7
<1>3. CASE ~LastName(r)
  <2> DEFINE p == [r EXCEPT !.emp = Null]
             q == get_dir(p, s, i, Tail(r.path))
  <2>1. Got(r, s, i) = q
    BY <1>3 DEF Got
  <2>2. /\ p \in Local /\ p.emp = Null /\ p.dir = r.dir /\ p.ino = r.ino /\ p.pc = r.pc
        /\ p.puts = r.puts /\ p.op = r.op /\ p.to = r.to
    BY DEF Local, Pointer
  <2> HIDE DEF p
  <2>3. r.dir = Null /\ (r.ino # Null => r.op = "link")
    BY <1>3 DEF Hunting
  <2>4. Tail(r.path) \in Seq(Name) /\ Tail(r.path) # <<>>
    <3>1. r.path \in Seq(Name) /\ r.path # <<>> /\ Len(r.path) # 1
      BY <1>3 DEF Local, Hunting, LastName
    <3> QED
      BY <3>1, Longer
  <2>5. Frame(p, f)
    BY <2>2 DEF Frame
  <2>6. Gains(p, f, q, s)
    BY <2>2, <2>3, <2>4, <2>5, GetDirGoes
  <2>7. First(p) = Null /\ Second(p) = Null /\ Reserved(p) = Null
    BY <2>2, Empties DEF Reserved
  <2>8. Named(p, f) = Named(r, f)
    BY <1>1, <2>2, <2>7 DEF Named
  <2>9. \A x \in Slot : Own(p, f, x) + (IF x = r.emp THEN 1 ELSE 0) = Own(r, f, x)
    BY <1>1, <2>2, <2>7, Outside DEF Own
  <2> HIDE DEF q
  <2>10. ASSUME NEW x \in Slot
         PROVE  Own(q, f, x) + (IF x = r.emp THEN 1 ELSE 0) = Own(r, f, x) + (IF x = s THEN 1 ELSE 0)
    <3>1. PICK a, b, c \in Nat : a = Own(q, f, x) /\ b = Own(p, f, x) /\ c = Own(r, f, x)
      BY OwnTypes
    <3>2. PICK d, e \in {0, 1} : d = (IF x = r.emp THEN 1 ELSE 0) /\ e = (IF x = s THEN 1 ELSE 0)
      OBVIOUS
    <3>3. a = b + e
      BY <2>6, <3>1, <3>2 DEF Gains
    <3>4. b + d = c
      BY <2>9, <3>1, <3>2
    <3>5. a + d = c + e
      BY <3>3, <3>4
    <3> QED
      BY <3>1, <3>2, <3>5
  <2> QED
    BY <2>1, <2>6, <2>8, <2>10 DEF Gains
<1> QED
  BY <1>2, <1>3

LEMMA Scanning ==
  ASSUME IInv, NEW t \in Task, l[t].pc \in {"scan", "read"}
  PROVE  /\ l[t] \in Local /\ fd[t] \in Pointer /\ Frame(l[t], fd[t]) /\ l[t].emp \in Slot
         /\ l[t].puts = <<>> /\ Hunting(l[t]) /\ l[t].nr \in Num
         /\ inode \in [Slot -> Inode] /\ inode[l[t].emp] \in Inode /\ Reserved(l[t]) = l[t].emp
<1>1. l[t] \in Local /\ fd[t] \in Pointer /\ Shape(l[t], fd[t]) /\ inode \in [Slot -> Inode]
  BY Facts
<1>2. l[t].emp \in Slot /\ l[t].puts = <<>> /\ Hunting(l[t])
  BY <1>1 DEF Shape, Local, Pointer
<1>3. l[t].nr \in Num
  BY <1>1, <1>2, Numbers DEF Local, Hunting, Num
<1> QED
  BY <1>1, <1>2, <1>3, Framed DEF Reserved

LEMMA read_inodeStep == ASSUME IInv, NEW t \in Task, read_inode(t) PROVE IInv'
<1> DEFINE r == l[t]
           f == fd[t]
           s == r.emp
<1>1. PICK i : /\ r.pc = "read" /\ i = Loaded([inode[s] EXCEPT !.lock = FALSE], disk[r.nr])
               /\ inode' = [inode EXCEPT ![s] = i] /\ Go(t, Got(r, s, i)) /\ InodesOnly
  BY DEF read_inode, Runs
<1>2. /\ r \in Local /\ f \in Pointer /\ Frame(r, f) /\ s \in Slot /\ r.puts = <<>> /\ Hunting(r)
      /\ r.nr \in Num /\ inode \in [Slot -> Inode] /\ inode[s] \in Inode
  BY <1>1, Scanning
<1> DEFINE q == Got(r, s, i)
<1>3. i \in Inode /\ i.num = inode[s].num /\ i.count = inode[s].count /\ ~i.lock /\ i.dirt = inode[s].dirt
  <2>1. disk[r.nr] \in DiskInode
    BY <1>2 DEF IInv, Types, Stored
  <2>2. PICK j : j = [inode[s] EXCEPT !.lock = FALSE]
    OBVIOUS
  <2>3. j \in Inode /\ j.num = inode[s].num /\ j.count = inode[s].count /\ ~j.lock /\ j.dirt = inode[s].dirt
    BY <1>2, <2>2 DEF Inode
  <2>4. i = Loaded(j, disk[r.nr])
    BY <1>1, <2>2
  <2> QED
    BY <2>1, <2>3, <2>4 DEF Loaded, Inode, DiskInode
<1>4. /\ q \in Local /\ Shape(q, f) /\ q.pc \notin {"scan", "new", "read"}
      /\ Named(q, f) \subseteq Named(r, f) \cup {s}
      /\ \A x \in Slot : Own(q, f, x) + (IF x = s THEN 1 ELSE 0) = Own(r, f, x) + (IF x = s THEN 1 ELSE 0)
  <2>1. r.pc \in {"scan", "read"} /\ i \in Inode
    BY <1>1, <1>3
  <2> QED
    BY <1>2, <2>1, GotGoes
<1>5. Goes(t, q) /\ fd' = [fd EXCEPT ![t] = f] /\ Stored'
  BY <1>1, GoGoes, Kept, Facts
<1> HIDE DEF q, s
<1>6. inode' \in [Slot -> Inode] /\ \A x \in Slot : inode'[x] = IF x = s THEN i ELSE inode[x]
  BY <1>1, <1>2, <1>3
<1>7. \A x \in Slot : inode'[x].num = inode[x].num /\ inode'[x].count = inode[x].count
  BY <1>3, <1>6
<1>8. ASSUME NEW x \in Slot, inode[x].count = 0 \/ inode[x].num = 0 PROVE Clean(x)'
  <2>1. Clean(x)
    BY <1>8 DEF IInv, Tidy
  <2> QED
    BY <1>3, <1>6, <2>1 DEF Clean
<1>9. ASSUME NEW x \in Slot PROVE Own(q, f, x) = Own(r, f, x)
  <2>1. PICK a, b \in Nat : a = Own(q, f, x) /\ b = Own(r, f, x)
    BY OwnTypes
  <2>2. PICK e \in {0, 1} : e = IF x = s THEN 1 ELSE 0
    OBVIOUS
  <2>3. a + e = b + e
    BY <1>4, <2>1, <2>2
  <2> QED
    BY <2>1, <2>2, <2>3
<1>10. \A x \in Named(q, f) : x \in Slot /\ inode[x].num # 0
  <2>1. inode[s].num # 0
    BY <1>1, <1>2, Numbers DEF IInv, Numbered, Num, s
  <2>2. \A x \in Named(r, f) : x \in Slot /\ inode[x].num # 0
    BY NamedHeld
  <2> QED
    BY <1>2, <1>4, <2>1, <2>2
<1>11. Moves(t, q, f)
  BY <1>2, <1>4, <1>5, Going
<1> QED
  BY <1>4, <1>5, <1>6, <1>7, <1>8, <1>9, <1>10, <1>11, Steady

LEMMA IgetHitStep == ASSUME IInv, NEW t \in Task, IgetHit(t) PROVE IInv'
<1> DEFINE r == l[t]
           f == fd[t]
           e == r.emp
<1>1. PICK s \in Slot :
        /\ r.pc = "scan" /\ inode[s].num = r.nr
        /\ inode' = [inode EXCEPT ![s].count = @ + 1, ![e].count = @ - 1]
        /\ Go(t, Got(r, s, inode[s])) /\ InodesOnly
  BY DEF IgetHit, Runs, InTable
<1>2. /\ r \in Local /\ f \in Pointer /\ Frame(r, f) /\ e \in Slot /\ r.puts = <<>> /\ Hunting(r)
      /\ r.nr \in Num /\ inode \in [Slot -> Inode]
  BY <1>1, Scanning
<1>3. inode[e].num = 0 /\ inode[e].count = 1 /\ s # e /\ inode[s].num # 0 /\ inode[s] \in Inode
  BY <1>1, <1>2, ReservedHeld, Numbers DEF Num
<1> DEFINE q == Got(r, s, inode[s])
<1>4. /\ q \in Local /\ Shape(q, f) /\ q.pc \notin {"scan", "new", "read"}
      /\ Named(q, f) \subseteq Named(r, f) \cup {s}
      /\ \A x \in Slot : Own(q, f, x) + (IF x = e THEN 1 ELSE 0) = Own(r, f, x) + (IF x = s THEN 1 ELSE 0)
  BY <1>1, <1>2, <1>3, GotGoes
<1>5. Goes(t, q) /\ fd' = fd /\ Stored'
  BY <1>1, GoGoes, Kept
<1> HIDE DEF q, e
<1>6. inode' \in [Slot -> Inode] /\
      \A x \in Slot : /\ inode'[x].num = inode[x].num /\ inode'[x].lock = inode[x].lock
                      /\ inode'[x].dirt = inode[x].dirt
                      /\ inode'[x].count = inode[x].count + (IF x = s THEN 1 ELSE 0) - (IF x = e THEN 1 ELSE 0)
  <2>1. PICK i, j : i = [inode[s] EXCEPT !.count = @ + 1] /\ j = [inode[e] EXCEPT !.count = @ - 1]
    OBVIOUS
  <2>2. PICK c \in Nat : c = inode[s].count
    BY <1>3 DEF Inode
  <2>3. /\ i \in Inode /\ i.num = inode[s].num /\ i.lock = inode[s].lock /\ i.dirt = inode[s].dirt
        /\ i.count = c + 1
    BY <1>3, <2>1, <2>2 DEF Inode
  <2>4. /\ j \in Inode /\ j.num = inode[e].num /\ j.lock = inode[e].lock /\ j.dirt = inode[e].dirt
        /\ j.count = 0
    <3>1. inode[e] \in Inode
      BY <1>2
    <3> QED
      BY <1>3, <2>1, <3>1 DEF Inode
  <2>5. inode' = [inode EXCEPT ![s] = i, ![e] = j]
    BY <1>1, <1>2, <1>3, <2>1
  <2>6. inode' \in [Slot -> Inode] /\ inode'[s] = i /\ inode'[e] = j
        /\ \A x \in Slot \ {s, e} : inode'[x] = inode[x]
    BY <1>2, <1>3, <2>3, <2>4, <2>5
  <2>7. ASSUME NEW x \in Slot
        PROVE  /\ inode'[x].num = inode[x].num /\ inode'[x].lock = inode[x].lock
               /\ inode'[x].dirt = inode[x].dirt
               /\ inode'[x].count = inode[x].count + (IF x = s THEN 1 ELSE 0) - (IF x = e THEN 1 ELSE 0)
    <3>1. CASE x = s
      BY <1>3, <2>2, <2>3, <2>6, <3>1
    <3>2. CASE x = e
      BY <1>3, <2>4, <2>6, <3>2
    <3>3. CASE x # s /\ x # e
      <4>1. inode'[x] = inode[x] /\ inode[x].count \in Nat
        BY <1>2, <2>6, <3>3 DEF Inode
      <4> QED
        BY <3>3, <4>1
    <3> QED
      BY <3>1, <3>2, <3>3
  <2> QED
    BY <2>6, <2>7
<1>7. Counting(t, f)
  <2> SUFFICES ASSUME NEW x \in Slot
               PROVE  /\ inode'[x].count = 0 => inode[x].count = 0 \/ (~inode[x].dirt /\ ~inode[x].lock)
                      /\ inode'[x].count = inode[x].count \/ inode[x].num # 0 \/ x = e
    BY <1>1, <1>6 DEF Counting, e
  <2>1. inode[x].count \in Nat
    BY <1>2 DEF Inode
  <2>2. CASE x = e
    BY <1>3, <2>2 DEF IInv, Tidy, Clean
  <2>3. CASE x = s
    BY <1>3, <1>6, <2>1, <2>3
  <2>4. CASE x # e /\ x # s
    BY <1>6, <2>1, <2>4
  <2> QED
    BY <2>2, <2>3, <2>4
<1>8. Changes(t, q, f)
  <2> SUFFICES ASSUME NEW x \in Slot PROVE inode'[x].count = inode[x].count + Own(q, f, x) - Own(r, f, x)
    BY DEF Changes
  <2>1. PICK a, b \in Nat : a = Own(q, f, x) /\ b = Own(r, f, x)
    BY OwnTypes
  <2>2. PICK c, d \in {0, 1} : c = (IF x = s THEN 1 ELSE 0) /\ d = (IF x = e THEN 1 ELSE 0)
    OBVIOUS
  <2>3. a + d = b + c
    BY <1>4, <2>1, <2>2
  <2>4. inode[x].count \in Nat /\ inode'[x].count = inode[x].count + c - d
    BY <1>2, <1>6, <2>2 DEF Inode
  <2>5. inode'[x].count = inode[x].count + a - b
    BY <2>3, <2>4
  <2> QED
    BY <2>1, <2>5
<1>9. \A x \in Named(q, f) : x \in Slot /\ inode[x].num # 0
  <2>1. \A x \in Named(r, f) : x \in Slot /\ inode[x].num # 0
    BY NamedHeld
  <2> QED
    BY <1>3, <1>4, <2>1
<1> QED
  BY <1>4, <1>5, <1>7, <1>8, <1>9, CountSteps

LEMMA IgetMissStep == ASSUME IInv, NEW t \in Task, IgetMiss(t) PROVE IInv'
<1> DEFINE r == l[t]
           f == fd[t]
           e == r.emp
           q == [r EXCEPT !.pc = "read"]
<1>1. /\ r.pc = "scan"
      /\ inode' = [inode EXCEPT ![e].num = r.nr, ![e].lock = TRUE]
      /\ Go(t, q) /\ InodesOnly
  BY DEF IgetMiss, Runs
<1>2. /\ r \in Local /\ f \in Pointer /\ Frame(r, f) /\ e \in Slot /\ r.puts = <<>> /\ Hunting(r)
      /\ r.nr \in Num /\ inode \in [Slot -> Inode] /\ inode[e] \in Inode /\ Reserved(r) = e
  BY <1>1, Scanning
<1>3. /\ inode[e].num = 0 /\ inode[e].count = 1 /\ e # RootSlot /\ e \notin Named(r, f)
      /\ \A u \in Task \ {t} : Own(l[u], fd[u], e) = 0
  BY <1>1, ReservedHeld
<1>4. Goes(t, q) /\ fd' = fd /\ Stored'
  BY <1>1, GoGoes, Kept
<1>5. /\ q \in Local /\ q.pc = "read" /\ q.dir = r.dir /\ q.ino = r.ino /\ q.emp = e /\ q.puts = r.puts
      /\ q.op = r.op /\ q.to = r.to /\ q.path = r.path /\ q.nr = r.nr
  BY <1>2 DEF Local, Places
<1> HIDE DEF q
<1>6. Shape(q, f)
  <2>1. Hunting(q) /\ e # Null
    BY <1>2, <1>5, Outside DEF Hunting, LastName, Removes
  <2> QED
    BY <1>2, <1>5, <2>1 DEF Shape, Frame
<1>7. First(q) = First(r) /\ Second(q) = Second(r) /\ Reserved(q) = e
  BY <1>5 DEF First, Second, Reserved
<1>8. Named(q, f) = Named(r, f) /\ \A x : Own(q, f, x) = Own(r, f, x)
  BY <1>2, <1>5, <1>7 DEF Named, Own
<1>9. PICK i : i = [inode[e] EXCEPT !.num = r.nr, !.lock = TRUE]
  OBVIOUS
<1>10. i \in Inode /\ i.num = r.nr /\ i.num # 0 /\ i.count = 1
  <2>1. r.nr \in 0 .. NInode /\ r.nr # 0
    BY <1>2, Numbers DEF Num
  <2> QED
    BY <1>2, <1>3, <1>9, <2>1 DEF Inode
<1>11. inode' = [inode EXCEPT ![e] = i]
  BY <1>1, <1>2, <1>9
<1>12. i.count = inode[e].count + Own(q, f, e) - Own(r, f, e)
  <2>1. PICK a \in Nat : a = Own(r, f, e)
    BY OwnTypes
  <2> QED
    BY <1>3, <1>8, <1>10, <2>1
<1>13. inode'[e] = i /\ \A x \in Slot \ {e} : inode'[x] = inode[x]
  BY <1>2, <1>11
<1>14. \A x \in Named(q, f) : x \in Slot /\ inode'[x].num # 0
  <2>1. \A x \in Named(r, f) : x \in Slot /\ inode[x].num # 0
    BY NamedHeld
  <2> QED
    BY <1>3, <1>8, <1>13, <2>1
<1>15. inode'[q.emp].num = q.nr
  BY <1>5, <1>10, <1>13
<1>16. (i.count = 0 \/ i.num = 0 => ~i.dirt /\ ~i.lock) /\ q.pc \notin {"scan", "new"}
  BY <1>5, <1>10
<1>17. \A x \in Slot \ {e} : Own(q, f, x) = Own(r, f, x)
  BY <1>8
<1> QED
  <2>1. Renews(t, q, e, i)
    BY <1>2, <1>3, <1>4, <1>5, <1>6, <1>10, <1>11, <1>12, <1>14, <1>15, <1>16, <1>17 DEF Renews
  <2> QED
    BY <2>1, Renumbered

LEMMA new_inodeStep == ASSUME IInv, NEW t \in Task, new_inode(t) PROVE IInv'
<1> DEFINE r == l[t]
           f == fd[t]
           e == r.emp
           n == Least(Num \ imap)
           got == [r EXCEPT !.ino = e, !.emp = Null]
           p == [r EXCEPT !.emp = Null]
<1>1. PICK i, q :
        /\ r.pc = "new"
        /\ i = [NoInode EXCEPT !.num = n, !.count = 1, !.links = 1, !.dirt = TRUE,
                               !.kind = KindOf(r.op), !.size = IF r.op = "mkdir" THEN 2 ELSE 0]
        /\ q = IF r.op = "mkdir" THEN [got EXCEPT !.pc = "alloc", !.ret = "dots"]
               ELSE [got EXCEPT !.pc = "add", !.at = 0]
        /\ \/ imap # Num /\ imap' = imap \cup {n} /\ inode' = [inode EXCEPT ![e] = i] /\ Go(t, q)
           \/ imap' = imap /\ inode' = [inode EXCEPT ![e].count = @ - 1] /\ Go(t, Fail(p))
        /\ UNCHANGED <<disk, zmap, data, fd, panic>>
  BY DEF new_inode, Runs
<1>2. /\ r \in Local /\ f \in Pointer /\ Shape(r, f) /\ Frame(r, f) /\ r.puts = <<>> /\ Making(r)
      /\ inode \in [Slot -> Inode] /\ r.puts \in Seq(Slot)
  BY <1>1, Facts, Framed DEF Shape
<1>3. /\ e \in Slot /\ e # Null /\ inode[e].num = 0 /\ inode[e].count = 1 /\ e # RootSlot
      /\ e \notin Named(r, f) /\ Reserved(r) = e /\ inode[e] \in Inode
      /\ \A u \in Task \ {t} : Own(l[u], fd[u], e) = 0
  BY <1>1, <1>2, ReservedHeld, Outside
<1>4. First(r) = Null /\ Second(r) = Null /\ r.ino = Null /\ r.dir # Null
  BY <1>2, Empties DEF Making
<1>5. CASE /\ imap # Num /\ imap' = imap \cup {n} /\ inode' = [inode EXCEPT ![e] = i] /\ Go(t, q)
           /\ UNCHANGED <<disk, zmap, data, fd, panic>>
  <2>1. n \in Num /\ n # 0 /\ n \in 0 .. NInode
    <3>1. imap \in SUBSET Num
      BY DEF IInv, Types, Stored
    <3>2. Num \subseteq Nat /\ \A x \in Num : x # 0 /\ x \in 0 .. NInode
      BY Numbers DEF Num
    <3>3. Num \ imap # {} /\ Num \ imap \subseteq Nat
      BY <1>5, <3>1, <3>2
    <3>4. n \in Num \ imap
      BY <3>3, LeastNatural
    <3> QED
      BY <3>2, <3>4
  <2> HIDE DEF n
  <2>2. i \in Inode /\ i.num = n /\ i.count = 1
    <3>1. KindOf(r.op) \in Kinds
      BY <1>2 DEF KindOf, Kinds, Making
    <3>2. PICK k, z : k = KindOf(r.op) /\ z = IF r.op = "mkdir" THEN 2 ELSE 0
      OBVIOUS
    <3>3. k \in Kinds /\ z \in Sizes
      BY <3>1, <3>2, Numbers
    <3>4. i = [NoInode EXCEPT !.num = n, !.count = 1, !.links = 1, !.dirt = TRUE, !.kind = k, !.size = z]
      BY <1>1, <3>2
    <3>5. 1 \in Nat /\ 1 \in Int /\ TRUE \in BOOLEAN
      OBVIOUS
    <3> QED
      BY <2>1, <3>3, <3>4, <3>5, Empty DEF Inode
  <2>3. /\ q \in Local /\ q.pc \in {"alloc", "add"} /\ (q.pc = "alloc" => q.ret = "dots")
        /\ q.dir = r.dir /\ q.ino = e /\ q.emp = Null
        /\ q.puts = r.puts /\ q.op = r.op /\ q.to = r.to /\ q.path = r.path
    <3>1. /\ got \in Local /\ got.dir = r.dir /\ got.ino = e /\ got.emp = Null
          /\ got.puts = r.puts /\ got.op = r.op /\ got.to = r.to /\ got.path = r.path
      BY <1>2, <1>3 DEF Local, Pointer
    <3> HIDE DEF got
    <3>2. CASE r.op = "mkdir"
      <4>1. q = [got EXCEPT !.pc = "alloc", !.ret = "dots"]
        BY <1>1, <3>2
      <4> QED
        BY <3>1, <4>1 DEF Local, Places
    <3>3. CASE r.op # "mkdir"
      <4>1. q = [got EXCEPT !.pc = "add", !.at = 0] /\ 0 \in Zone
        BY <1>1, <3>3, Numbers
      <4> QED
        BY <3>1, <4>1 DEF Local, Places
    <3> QED
      BY <3>2, <3>3
  <2>4. Shape(q, f)
    <3>1. Filling(q)
      BY <1>2, <1>3, <2>3 DEF Filling, HasBoth, Making
    <3> QED
      BY <1>2, <2>3, <3>1 DEF Shape, Frame
  <2>5. First(q) = Null /\ Second(q) = Null /\ Reserved(q) = Null
    BY <1>2, <2>3, Empties DEF Reserved
  <2>6. Named(q, f) \subseteq Named(r, f) \cup {e}
    BY <1>4, <2>3, <2>5 DEF Named
  <2>7. \A x \in Slot : Own(q, f, x) = Own(r, f, x)
    BY <1>2, <1>3, <1>4, <2>3, <2>5, Outside DEF Own
  <2>8. inode'[e] = i /\ \A x \in Slot \ {e} : inode'[x] = inode[x]
    BY <1>2, <1>3, <1>5
  <2>9. \A x \in Named(q, f) : x \in Slot /\ inode'[x].num # 0
    <3>1. \A x \in Named(r, f) : x \in Slot /\ inode[x].num # 0
      BY NamedHeld
    <3> QED
      BY <1>3, <2>1, <2>2, <2>6, <2>8, <3>1
  <2>10. Goes(t, q) /\ fd' = fd /\ Stored'
    <3>1. imap \in SUBSET Num
      BY DEF IInv, Types, Stored
    <3>2. imap' \in SUBSET Num
      BY <1>5, <2>1, <3>1
    <3>3. Stored'
      BY <1>5, <3>2 DEF IInv, Types, Stored
    <3> QED
      BY <1>5, <3>3, GoGoes
  <2>11. i.count = inode[e].count + Own(q, f, e) - Own(r, f, e)
    <3>1. PICK a \in Nat : a = Own(r, f, e)
      BY OwnTypes
    <3> QED
      BY <1>3, <2>2, <2>7, <3>1
  <2>12. (i.count = 0 \/ i.num = 0 => ~i.dirt /\ ~i.lock) /\ q.pc \notin {"read", "scan", "new"}
    BY <2>1, <2>2, <2>3
  <2>13. \A x \in Slot \ {e} : Own(q, f, x) = Own(r, f, x)
    BY <2>7
  <2> QED
    <3>1. Renews(t, q, e, i)
      BY <1>3, <1>5, <2>2, <2>3, <2>4, <2>9, <2>10, <2>11, <2>12, <2>13 DEF Renews
    <3> QED
      BY <3>1, Renumbered
<1>6. CASE /\ imap' = imap /\ inode' = [inode EXCEPT ![e].count = @ - 1] /\ Go(t, Fail(p))
           /\ UNCHANGED <<disk, zmap, data, fd, panic>>
  <2>1. /\ p \in Local /\ p.emp = Null /\ p.dir = r.dir /\ p.ino = r.ino /\ p.puts = r.puts
        /\ p.op = r.op /\ p.to = r.to
    BY <1>2 DEF Local, Pointer
  <2> HIDE DEF p
  <2>2. Frame(p, f)
    BY <1>2, <2>1 DEF Frame
  <2> DEFINE g == Fail(p)
  <2>3. Carries(p, f, g, f)
    BY <1>2, <1>4, <2>1, <2>2, FailGoes
  <2>4. First(p) = Null /\ Second(p) = Null /\ Reserved(p) = Null
    BY <1>2, <2>1, Empties DEF Reserved
  <2>5. Named(p, f) = Named(r, f)
    BY <1>4, <2>1, <2>4 DEF Named
  <2>6. \A x \in Slot : Own(p, f, x) + (IF x = e THEN 1 ELSE 0) = Own(r, f, x)
    BY <1>2, <1>3, <1>4, <2>1, <2>4, Outside DEF Own
  <2>7. Goes(t, g) /\ fd' = fd /\ Stored'
    <3>1. Stored'
      BY <1>6 DEF IInv, Types, Stored
    <3> QED
      BY <1>6, <3>1, GoGoes
  <2> HIDE DEF g, e
  <2>8. PICK j : j = [inode[e] EXCEPT !.count = @ - 1]
    OBVIOUS
  <2>9. /\ j \in Inode /\ j.num = inode[e].num /\ j.lock = inode[e].lock /\ j.dirt = inode[e].dirt
        /\ j.count = 0
    BY <1>3, <2>8 DEF Inode
  <2>10. inode' = [inode EXCEPT ![e] = j]
    BY <1>2, <1>3, <1>6, <2>8
  <2>11. inode' \in [Slot -> Inode] /\ \A x \in Slot : inode'[x] = IF x = e THEN j ELSE inode[x]
    BY <1>2, <1>3, <2>9, <2>10
  <2>12. Counting(t, f)
    <3>1. ~inode[e].dirt /\ ~inode[e].lock
      BY <1>3 DEF IInv, Tidy, Clean
    <3> QED
      BY <1>1, <2>9, <2>11, <3>1 DEF Counting, e
  <2>13. Changes(t, g, f)
    <3> SUFFICES ASSUME NEW x \in Slot PROVE inode'[x].count = inode[x].count + Own(g, f, x) - Own(r, f, x)
      BY DEF Changes
    <3>1. PICK a, b \in Nat : a = Own(g, f, x) /\ b = Own(r, f, x)
      BY OwnTypes
    <3>2. PICK d \in {0, 1} : d = (IF x = e THEN 1 ELSE 0)
      OBVIOUS
    <3>3. a + d = b
      BY <2>3, <2>6, <3>1, <3>2 DEF Carries
    <3>4. inode[x].count \in Nat /\ inode'[x].count = inode[x].count - d
      BY <1>2, <1>3, <2>9, <2>11, <3>2 DEF Inode
    <3>5. inode'[x].count = inode[x].count + a - b
      BY <3>3, <3>4
    <3> QED
      BY <3>1, <3>5
  <2>14. \A x \in Named(g, f) : x \in Slot /\ inode[x].num # 0
    <3>1. \A x \in Named(r, f) : x \in Slot /\ inode[x].num # 0
      BY NamedHeld
    <3> QED
      BY <2>3, <2>5, <3>1 DEF Carries
  <2> QED
    BY <2>3, <2>7, <2>12, <2>13, <2>14, CountSteps DEF Carries
<1> HIDE DEF n
<1> QED
  BY <1>1, <1>5, <1>6

-----------------------------------------------------------------------------
(* The initial states.                                                     *)
LEMMA Numbering ==
  \E f \in [1 .. Cardinality(Shared) -> Shared] : \A i, j \in DOMAIN f : f[i] = f[j] => i = j
<1>1. IsFiniteSet(Shared)
  BY FileSystemAssumption
<1>2. PICK n \in Nat : ExistsBijection(1 .. n, Shared)
  BY <1>1, FS_NatBijection
<1>3. Cardinality(Shared) = n
  BY <1>2, FS_CountingElements
<1>4. PICK f : f \in Bijection(1 .. n, Shared)
  BY <1>2 DEF ExistsBijection
<1>5. f \in [1 .. n -> Shared] /\ \A i, j \in 1 .. n : f[i] = f[j] => i = j
  BY <1>4 DEF Bijection, Injection, IsInjective
<1>6. DOMAIN f = 1 .. n
  BY <1>5
<1> QED
  BY <1>3, <1>5, <1>6

LEMMA RootEntriesType == RootEntries \in Seq(DirEntry)
<1> DEFINE n == Cardinality(Shared)
           dots == <<[name |-> ".", num |-> ROOT_INO], [name |-> "..", num |-> ROOT_INO]>>
<1>1. n \in Nat /\ n < NInode
  BY FileSystemAssumption, FS_CardinalityType
<1>2. PICK f : /\ f \in [1 .. n -> Shared]
               /\ RootEntries = dots \o [i \in DOMAIN f |-> [name |-> f[i], num |-> ROOT_INO + i]]
  <2> DEFINE files == CHOOSE f \in [1 .. n -> Shared] : \A i, j \in DOMAIN f : f[i] = f[j] => i = j
  <2>1. files \in [1 .. n -> Shared]
    BY Numbering
  <2>2. RootEntries = dots \o [i \in DOMAIN files |-> [name |-> files[i], num |-> ROOT_INO + i]]
    BY DEF RootEntries
  <2> HIDE DEF files, dots
  <2> QED
    BY <2>1, <2>2
<1>3. DOMAIN f = 1 .. n /\ \A i \in 1 .. n : f[i] \in Name
  BY <1>2, FileSystemAssumption
<1>4. \A i \in 1 .. n : ROOT_INO + i \in 0 .. NInode
  BY <1>1, Numbers DEF ROOT_INO
<1> DEFINE rest == [i \in 1 .. n |-> [name |-> f[i], num |-> ROOT_INO + i]]
<1>5. rest \in Seq(DirEntry)
  <2>1. \A i \in 1 .. n : [name |-> f[i], num |-> ROOT_INO + i] \in DirEntry
    BY <1>3, <1>4 DEF DirEntry
  <2>2. rest \in [1 .. n -> DirEntry]
    BY <2>1
  <2> HIDE DEF rest, n
  <2> QED
    BY <1>1, <2>2
<1>6. dots \in Seq(DirEntry)
  <2>1. ROOT_INO \in 0 .. NInode /\ "." \in Name /\ ".." \in Name
    BY Numbers, FileSystemAssumption DEF Num
  <2>2. PICK a, b : a = [name |-> ".", num |-> ROOT_INO] /\ b = [name |-> "..", num |-> ROOT_INO]
    OBVIOUS
  <2>3. a \in DirEntry /\ b \in DirEntry
    BY <2>1, <2>2 DEF DirEntry
  <2>4. <<a, b>> \in Seq(DirEntry)
    BY <2>3
  <2> QED
    BY <2>2, <2>4
<1>7. RootEntries = dots \o rest
  BY <1>2, <1>3
<1> HIDE DEF dots, rest
<1> QED
  BY <1>5, <1>6, <1>7

LEMMA InitTypes == Init => Types
<1> SUFFICES ASSUME Init PROVE Types
  OBVIOUS
<1> DEFINE root == [links |-> 2, kind |-> "dir", size |-> RootZones * K,
                    zone |-> [i \in Zone |-> IF i < RootZones THEN i + 1 ELSE 0]]
<1>1. root \in DiskInode
  <2>1. RootZones * K \in Sizes
    <3>1. \A k, z, a \in Nat : a >= z => a * k >= z * k /\ a * k \in Nat /\ z * k \in Nat
      OBVIOUS
    <3>2. K \in Nat /\ NZone \in Nat /\ RootZones \in Nat /\ NZone >= RootZones
      BY Numbers DEF RootZones
    <3>3. NZone * K >= RootZones * K /\ NZone * K \in Nat /\ RootZones * K \in Nat
      BY <3>1, <3>2
    <3> QED
      BY <3>3 DEF Sizes
  <2>2. \A i \in Zone : (IF i < RootZones THEN i + 1 ELSE 0) \in 0 .. NBlock
    BY Numbers DEF Zone, RootZones
  <2>3. [i \in Zone |-> IF i < RootZones THEN i + 1 ELSE 0] \in Zones
    BY <2>2 DEF Zones
  <2>4. 2 \in Int /\ "dir" \in Kinds
    BY DEF Kinds
  <2> QED
    BY <2>1, <2>3, <2>4 DEF DiskInode
<1>2. OnDisk(NoInode) \in DiskInode /\ [OnDisk(NoInode) EXCEPT !.links = 1, !.kind = "file"] \in DiskInode
  <2>1. 1 \in Int /\ "file" \in Kinds
    BY DEF Kinds
  <2>2. PICK d : d = OnDisk(NoInode)
    OBVIOUS
  <2>3. d \in DiskInode
    BY <2>2, Empty DEF OnDisk, DiskInode, Inode
  <2> QED
    BY <2>1, <2>2, <2>3 DEF DiskInode
<1>3. disk \in [Num -> DiskInode] /\ disk[ROOT_INO] = root
  <2>1. disk = [n \in Num |-> IF n = ROOT_INO THEN root
                              ELSE IF n \in imap
                                   THEN [OnDisk(NoInode) EXCEPT !.links = 1, !.kind = "file"]
                                   ELSE OnDisk(NoInode)]
    BY DEF Init
  <2> HIDE DEF root
  <2> QED
    BY <1>1, <1>2, <2>1, Numbers
<1> HIDE DEF root
<1>4. inode \in [Slot -> Inode]
  <2>1. PICK i : i = [NoInode EXCEPT !.num = ROOT_INO, !.count = 1]
    OBVIOUS
  <2>2. i \in Inode
    <3>1. ROOT_INO \in 0 .. NInode
      BY Numbers DEF Num
    <3> QED
      BY <2>1, <3>1, Empty DEF Inode
  <2>3. Loaded(i, disk[ROOT_INO]) \in Inode
    BY <1>1, <1>3, <2>2 DEF Loaded, Inode, DiskInode
  <2>4. inode = [s \in Slot |-> IF s = RootSlot THEN Loaded(i, disk[ROOT_INO]) ELSE NoInode]
    BY <2>1 DEF Init
  <2> QED
    BY <2>3, <2>4, Empty
<1>5. imap \in SUBSET Num /\ zmap \in SUBSET Block
  <2>1. Cardinality(Shared) \in Nat /\ Cardinality(Shared) < NInode
    BY FileSystemAssumption, FS_CardinalityType
  <2> QED
    BY <2>1, Numbers DEF Init, Num, Block, ROOT_INO, RootZones
<1>6. data \in [Block -> [1 .. K -> DirEntry]]
  <2>1. NoEntry \in DirEntry
    <3>1. "." \in Name /\ 0 \in 0 .. NInode
      BY Numbers, FileSystemAssumption
    <3> QED
      BY <3>1 DEF NoEntry, DirEntry
  <2>2. \A i \in 1 .. Len(RootEntries) : RootEntries[i] \in DirEntry
    BY RootEntriesType
  <2>3. ASSUME NEW b \in Block, NEW j \in 1 .. K, b <= RootZones
        PROVE  (b - 1) * K + j \in Nat /\ (b - 1) * K + j >= 1
    <3>1. \A k, a \in Nat : a * k \in Nat
      OBVIOUS
    <3>2. b - 1 \in Nat /\ K \in Nat
      BY Numbers DEF Block
    <3>3. PICK m \in Nat : m = (b - 1) * K
      BY <3>1, <3>2
    <3> QED
      BY <3>2, <3>3
  <2>4. ASSUME NEW b \in Block, NEW j \in 1 .. K
        PROVE  (IF b <= RootZones /\ (b - 1) * K + j <= Len(RootEntries)
                THEN RootEntries[(b - 1) * K + j] ELSE NoEntry) \in DirEntry
    <3>1. Len(RootEntries) \in Nat
      BY RootEntriesType
    <3>2. CASE b <= RootZones /\ (b - 1) * K + j <= Len(RootEntries)
      <4>1. (b - 1) * K + j \in 1 .. Len(RootEntries)
        <5>1. PICK m : m = (b - 1) * K + j
          OBVIOUS
        <5>2. m \in Nat /\ m >= 1 /\ m <= Len(RootEntries)
          BY <2>3, <3>2, <5>1
        <5> QED
          BY <3>1, <5>1, <5>2
      <4> QED
        BY <2>2, <3>2, <4>1
    <3> QED
      BY <2>1, <3>2
  <2>5. data = [b \in Block |-> [j \in 1 .. K |->
                  IF b <= RootZones /\ (b - 1) * K + j <= Len(RootEntries)
                  THEN RootEntries[(b - 1) * K + j] ELSE NoEntry]]
    BY DEF Init
  <2> QED
    BY <2>4, <2>5
<1>7. fd \in [Task -> Pointer] /\ l \in [Task -> Local] /\ cpu \in Task \cup {Nobody} /\ prog \in Programs
  BY IdleIs DEF Init, Pointer
<1> QED
  BY <1>3, <1>4, <1>5, <1>6, <1>7 DEF Types, Stored

LEMMA InitInv == Init => IInv
<1> SUFFICES ASSUME Init PROVE IInv
  OBVIOUS
<1>1. Types
  BY InitTypes
<1>2. \A t \in Task : l[t] = Idle /\ fd[t] = Null
  BY DEF Init
<1>3. Shaped
  BY <1>2, IdleIs DEF Shaped
<1>4. First(Idle) = Null /\ Second(Idle) = Null /\ Reserved(Idle) = Null
  BY IdleIs, Empties DEF Reserved
<1>5. Numbered
  BY <1>2, <1>4, IdleIs DEF Numbered, Named
<1>6. \A s \in Slot : /\ inode[s].count = IF s = RootSlot THEN 1 ELSE 0
                      /\ inode[s].num = IF s = RootSlot THEN ROOT_INO ELSE 0
                      /\ ~inode[s].dirt /\ ~inode[s].lock
  <2>1. PICK i : i = [NoInode EXCEPT !.num = ROOT_INO, !.count = 1]
    OBVIOUS
  <2>2. i.num = ROOT_INO /\ i.count = 1 /\ ~i.dirt /\ ~i.lock
    BY <2>1 DEF NoInode
  <2>3. PICK j : j = Loaded(i, disk[ROOT_INO])
    OBVIOUS
  <2>4. j.num = ROOT_INO /\ j.count = 1 /\ ~j.dirt /\ ~j.lock
    BY <2>1, <2>2, <2>3 DEF Loaded, NoInode
  <2>5. inode = [s \in Slot |-> IF s = RootSlot THEN j ELSE NoInode]
    BY <2>1, <2>3 DEF Init
  <2> QED
    BY <2>4, <2>5, Empty
<1>7. Tidy
  BY <1>6, Outside DEF Tidy, Clean
<1>8. ASSUME NEW s \in Slot PROVE References(s) = {}
  <2>1. SUFFICES ASSUME NEW p \in References(s) PROVE FALSE
    OBVIOUS
  <2>2. p[1] \in Task /\ p[2] \in 1 .. 6 /\ p[2] <= Len(Pointers(p[1])) /\ Pointers(p[1])[p[2]] = s
    BY DEF References
  <2>3. l[p[1]].puts \in Seq(Slot) /\ Len(l[p[1]].puts) <= 2
    BY <1>1, <1>3, <2>2, Brief DEF Types, Shaped
  <2>4. Spot(p[1], p[2]) = s
    BY <2>2, <2>3, PointersAre
  <2>5. Spot(p[1], p[2]) = Null
    BY <1>2, <1>4, <2>2, IdleIs DEF Spot
  <2> QED
    BY <2>4, <2>5, Outside
<1>9. Exact
  <2>1. Cardinality({}) = 0
    BY FS_EmptySet
  <2> QED
    BY <1>6, <1>8, <2>1 DEF Exact
<1> QED
  BY <1>1, <1>3, <1>5, <1>7, <1>9 DEF IInv

-----------------------------------------------------------------------------
(* Every step of a task keeps the invariant.                               *)
LEMMA StepInv == IInv /\ [Next]_vars => IInv'
<1> SUFFICES ASSUME IInv, [Next]_vars PROVE IInv'
  OBVIOUS
<1>1. CASE UNCHANGED vars
  <2>1. cpu \in Task \cup {Nobody}
    BY DEF IInv, Types
  <2> QED
    BY <1>1, <2>1, Same DEF vars
<1>2. ASSUME NEW t \in Task, Step(t) PROVE IInv'
  <2>1. CASE SysCall(t) \/ FindNext(t) \/ namei(t) \/ FoundToRemove(t) \/ Exists(t) \/ NotFound(t)
    BY <2>1, SysCallStep, FindNextStep, nameiStep, FoundToRemoveStep, ExistsStep, NotFoundStep
  <2>2. CASE sys_creat(t) \/ sys_mknod(t) \/ sys_mkdir(t) \/ LinkName(t)
    BY <2>2, CreateStep, LinkNameStep DEF sys_creat, sys_mknod, sys_mkdir
  <2>3. CASE get_empty_inode(t) \/ wait_on_inode(t) \/ IgetHit(t) \/ IgetMiss(t) \/ read_inode(t) \/ new_inode(t)
    BY <2>3, get_empty_inodeStep, wait_on_inodeStep, IgetHitStep, IgetMissStep, read_inodeStep, new_inodeStep
  <2>4. CASE NewBlock(t) \/ ClearBlock(t) \/ MkdirZone(t) \/ DirZone(t) \/ FileZone(t) \/ Dots(t)
    BY <2>4, NewBlockStep, ClearBlockStep, MkdirZoneStep, DirZoneStep, FileZoneStep, DotsStep
  <2>5. CASE AddEntry(t) \/ AddNext(t) \/ Linked(t) \/ open_namei(t) \/ Opened(t) \/ Touch(t)
    BY <2>5, AddEntryStep, AddNextStep, LinkedStep, open_nameiStep, OpenedStep, TouchStep
  <2>6. CASE sys_link(t) \/ sys_unlink(t) \/ sys_rmdir(t) \/ NotEmpty(t) \/ EmptyNext(t) \/ RemoveDir(t)
    BY <2>6, sys_linkStep, sys_unlinkStep, sys_rmdirStep, NotEmptyStep, EmptyNextStep, RemoveDirStep
  <2>7. CASE Undo(t) \/ Decrement(t) \/ PutDirty(t) \/ PutWrite(t) \/ PutUnlinked(t)
    BY <2>7, UndoStep, DecrementStep, PutDirtyStep, PutWriteStep, PutUnlinkedStep
  <2>8. CASE truncate(t) \/ TruncateEnd(t) \/ free_inode(t)
    BY <2>8, truncateStep, TruncateEndStep, free_inodeStep
  <2>9. CASE sys_close(t) \/ file_write(t) \/ Written(t)
    BY <2>9, sys_closeStep, file_writeStep, WrittenStep
  <2>10. CASE sys_sync(t) \/ sync_inodes(t) \/ SyncWrite(t) \/ Synced(t)
    BY <2>10, sys_syncStep, sync_inodesStep, SyncWriteStep, SyncedStep
  <2> QED
    BY <1>2, <2>1, <2>2, <2>3, <2>4, <2>5, <2>6, <2>7, <2>8, <2>9, <2>10 DEF Step
<1> QED
  BY <1>1, <1>2 DEF Next

(* i_count of every inode in the table is the number of pointers to it, in *)
(* open files and in the hands of the system calls in progress, whatever   *)
(* the calls are and wherever they sleep: no iget(), iput(), get_dir() or  *)
(* path of failure gives one back twice or forgets it.  An inode without a *)
(* pointer is clean and not locked.                                        *)
THEOREM CountsExact == Spec => []CountExact
<1>1. IInv => CountExact
  BY DEF IInv, Tidy, Exact, CountExact
<1> QED
  BY <1>1, InitInv, StepInv, PTL DEF Spec

-----------------------------------------------------------------------------
(* An inode is in the table once.  iget() and new_inode() look for that in *)
(* the table and in the bitmap; between a directory entry and the table    *)
(* nothing holds the number.  What can go wrong is that the name is        *)
(* removed meanwhile and the number freed: iget() then reads an inode that *)
(* is not in use, and new_inode() may give its number away a second time.  *)
NumbersUsed == \A t \in Task : l[t].pc = "scan" => l[t].nr \in imap

Apart == \A s1, s2 \in Slot : inode[s1].num = inode[s2].num /\ s1 # s2 => inode[s1].num = 0
Marked == \A s \in Slot : inode[s].num # 0 => inode[s].num \in imap

SameNumbers == imap' = imap /\ \A s \in Slot : inode'[s].num = inode[s].num

LEMMA SameApart == ASSUME Apart, Marked, SameNumbers PROVE Apart' /\ Marked'
BY DEF Apart, Marked, SameNumbers

(* One slot gets another number, or none.                                  *)
LEMMA OneApart ==
  ASSUME Apart, Marked, inode \in [Slot -> Inode], NEW s \in Slot, NEW i,
         inode' = [inode EXCEPT ![s] = i],
         \A u \in Slot : inode[u].num # 0 /\ u # s => inode[u].num \in imap' /\ inode[u].num # i.num,
         i.num # 0 => i.num \in imap'
  PROVE  Apart' /\ Marked'
<1>1. inode'[s] = i /\ \A u \in Slot : u # s => inode'[u] = inode[u]
  OBVIOUS
<1> QED
  BY <1>1 DEF Apart, Marked

LEMMA OneNumber ==
  ASSUME inode \in [Slot -> Inode], NEW s, NEW i, s \in Slot => i.num = inode[s].num,
         inode' = [inode EXCEPT ![s] = i], imap' = imap
  PROVE  SameNumbers
BY DEF SameNumbers

LEMMA NumberLasts ==
  ASSUME NEW i \in Inode, NEW n, NEW z, NEW b
  PROVE  /\ WithLinks(i, n).num = i.num
         /\ WithZone(i, z, b).num = i.num
         /\ [i EXCEPT !.count = n].num = i.num
         /\ [i EXCEPT !.zone[z] = b].num = i.num
         /\ [WithZone(i, z, b) EXCEPT !.links = n].num = i.num
         /\ [i EXCEPT !.links = n].num = i.num
         /\ [i EXCEPT !.lock = n].num = i.num
BY DEF Inode, WithLinks, WithZone

LEMMA ZoneNumbers ==
  ASSUME inode \in [Slot -> Inode], NEW t, NEW s, NEW z, NEW u \in Slot
  PROVE  /\ SetZone(t, s, z)[u].num = inode[u].num
         /\ \A x : [SetZone(t, s, z) EXCEPT ![x].links = @ - 1][u].num = inode[u].num
<1>1. SetZone(t, s, z)[u].num = inode[u].num
  BY NumberLasts DEF SetZone
<1>2. ASSUME NEW x PROVE [SetZone(t, s, z) EXCEPT ![x].links = @ - 1][u].num = inode[u].num
  <2> DEFINE T == SetZone(t, s, z)
             n == T[u].links - 1
  <2>1. DOMAIN T = Slot
    BY DEF SetZone
  <2>2. T[u] = inode[u] \/ T[u] = WithZone(inode[u], z, l[t].blk)
    BY DEF SetZone
  <2>3. [T[u] EXCEPT !.links = n].num = inode[u].num
    BY <2>2, NumberLasts
  <2>4. [T EXCEPT ![x].links = @ - 1][u] = IF u = x THEN [T[u] EXCEPT !.links = n] ELSE T[u]
    BY <2>1
  <2> HIDE DEF T, n
  <2> QED
    BY <1>1, <2>3, <2>4 DEF T
<1> QED
  BY <1>1, <1>2

(* The steps that leave the table alone.                                   *)
LEMMA TableSteps ==
  ASSUME NEW t \in Task,
         \/ FindNext(t) \/ namei(t) \/ FoundToRemove(t) \/ Exists(t) \/ NotFound(t)
         \/ sys_creat(t) \/ sys_mknod(t) \/ sys_mkdir(t) \/ LinkName(t) \/ wait_on_inode(t)
         \/ NewBlock(t) \/ ClearBlock(t) \/ AddNext(t) \/ open_namei(t) \/ Opened(t)
         \/ sys_rmdir(t) \/ NotEmpty(t) \/ EmptyNext(t) \/ PutUnlinked(t) \/ sys_close(t)
         \/ file_write(t) \/ sys_sync(t) \/ Synced(t)
  PROVE  SameNumbers
<1>1. UNCHANGED <<inode, imap>>
  BY DEF FindNext, namei, FoundToRemove, Exists, NotFound, sys_creat, sys_mknod, sys_mkdir, Create,
         LinkName, wait_on_inode, NewBlock, ClearBlock, AddNext, open_namei, Opened, sys_rmdir,
         NotEmpty, EmptyNext, PutUnlinked, sys_close, file_write, sys_sync, Synced, LocalOnly,
         InodesOnly, Panic
<1> QED
  BY <1>1 DEF SameNumbers

(* The steps that change something else of an inode.                       *)
LEMMA CallSteps ==
  ASSUME inode \in [Slot -> Inode], NEW t \in Task,
         \/ SysCall(t) \/ IgetHit(t) \/ MkdirZone(t) \/ DirZone(t) \/ FileZone(t) \/ Dots(t)
         \/ AddEntry(t) \/ Linked(t) \/ Touch(t) \/ sys_link(t) \/ sys_unlink(t) \/ RemoveDir(t)
  PROVE  SameNumbers
<1>1. CASE SysCall(t)
  <2>1. inode' = [inode EXCEPT ![RootSlot].count = @ + 1] /\ imap' = imap
    BY <1>1 DEF SysCall, InodesOnly
  <2>2. RootSlot \in Slot =>
          [inode[RootSlot] EXCEPT !.count = inode[RootSlot].count + 1].num = inode[RootSlot].num
    BY NumberLasts
  <2> QED
    BY <2>1, <2>2, OneNumber
<1>2. CASE IgetHit(t)
  BY <1>2 DEF IgetHit, InodesOnly, SameNumbers, Inode
<1>3. CASE MkdirZone(t) \/ DirZone(t)
  <2>1. imap' = imap
    BY <1>3 DEF MkdirZone, DirZone, InodesOnly
  <2>2. \E s, z : \/ inode' = SetZone(t, s, z)
                  \/ inode' = [SetZone(t, s, z) EXCEPT ![l[t].ino].links = @ - 1]
    BY <1>3 DEF MkdirZone, DirZone, NoRoom
  <2>3. PICK s, z : \/ inode' = SetZone(t, s, z)
                   \/ inode' = [SetZone(t, s, z) EXCEPT ![l[t].ino].links = @ - 1]
    BY <2>2
  <2>4. ASSUME NEW u \in Slot PROVE inode'[u].num = inode[u].num
    <3>1. CASE inode' = SetZone(t, s, z)
      BY <3>1, ZoneNumbers
    <3>2. CASE inode' = [SetZone(t, s, z) EXCEPT ![l[t].ino].links = @ - 1]
      <4>1. [SetZone(t, s, z) EXCEPT ![l[t].ino].links = @ - 1][u].num = inode[u].num
        BY ZoneNumbers
      <4> QED
        BY <3>2, <4>1, Zenon
    <3> QED
      BY <2>3, <3>1, <3>2
  <2> QED
    BY <2>1, <2>4 DEF SameNumbers
<1>4. CASE FileZone(t)
  BY <1>4, ZoneNumbers DEF FileZone, InodesOnly, SameNumbers
<1>5. CASE Dots(t)
  BY <1>5 DEF Dots, WithLinks, SameNumbers, Inode
<1>6. CASE AddEntry(t)
  BY <1>6 DEF AddEntry, WithEntry, SameNumbers, Inode
<1>7. CASE Linked(t)
  BY <1>7 DEF Linked, WithLinks, InodesOnly, SameNumbers, Inode
<1>8. CASE Touch(t)
  BY <1>8 DEF Touch, InodesOnly, SameNumbers, Inode
<1>9. CASE sys_link(t)
  BY <1>9 DEF sys_link, InodesOnly, SameNumbers, Inode
<1>10. CASE sys_unlink(t)
  <2>1. CASE inode[l[t].ino].kind = "dir"
    BY <1>10, <2>1 DEF sys_unlink, LocalOnly, InodesOnly, SameNumbers
  <2>2. CASE inode[l[t].ino].kind # "dir"
    <3>1. imap' = imap /\ \E n : inode' = [inode EXCEPT ![l[t].ino] = WithLinks(inode[l[t].ino], n)]
      BY <1>10, <2>2 DEF sys_unlink
    <3>2. PICK n : inode' = [inode EXCEPT ![l[t].ino] = WithLinks(inode[l[t].ino], n)]
      BY <3>1
    <3>3. l[t].ino \in Slot => WithLinks(inode[l[t].ino], n).num = inode[l[t].ino].num
      BY NumberLasts
    <3> QED
      BY <3>1, <3>2, <3>3, OneNumber
  <2> QED
    BY <2>1, <2>2
<1>11. CASE RemoveDir(t)
  BY <1>11 DEF RemoveDir, WithLinks, SameNumbers, Inode
<1> QED
  BY <1>1, <1>2, <1>3, <1>4, <1>5, <1>6, <1>7, <1>8, <1>9, <1>10, <1>11

LEMMA PutSteps ==
  ASSUME inode \in [Slot -> Inode], NEW t \in Task,
         \/ read_inode(t) \/ Undo(t) \/ Decrement(t) \/ PutDirty(t) \/ PutWrite(t) \/ truncate(t)
         \/ TruncateEnd(t) \/ Written(t) \/ sync_inodes(t) \/ SyncWrite(t)
  PROVE  SameNumbers
<1>1. CASE read_inode(t)
  BY <1>1 DEF read_inode, Loaded, InodesOnly, SameNumbers, Inode
<1>2. CASE Undo(t)
  <2>1. UNCHANGED <<inode, imap>> \/ (imap' = imap /\ inode' = [inode EXCEPT ![l[t].ino].links = 0])
    BY <1>2 DEF Undo, Panic
  <2>2. l[t].ino \in Slot => [inode[l[t].ino] EXCEPT !.links = 0].num = inode[l[t].ino].num
    BY NumberLasts
  <2>3. CASE UNCHANGED <<inode, imap>>
    BY <2>3 DEF SameNumbers
  <2> QED
    BY <2>1, <2>2, <2>3, OneNumber
<1>3. CASE Decrement(t)
  <2>1. \/ UNCHANGED <<inode, imap>>
        \/ imap' = imap /\ inode' = [inode EXCEPT ![Given(t)].count = @ - 1]
    BY <1>3 DEF Decrement, Panic, InodesOnly
  <2>2. Given(t) \in Slot =>
          [inode[Given(t)] EXCEPT !.count = inode[Given(t)].count - 1].num = inode[Given(t)].num
    BY NumberLasts
  <2>3. CASE UNCHANGED <<inode, imap>>
    BY <2>3 DEF SameNumbers
  <2> QED
    BY <2>1, <2>2, <2>3, OneNumber
<1>4. CASE PutDirty(t)
  BY <1>4 DEF PutDirty, LockToWrite, InodesOnly, SameNumbers, Inode
<1>5. CASE PutWrite(t) \/ SyncWrite(t)
  BY <1>5 DEF PutWrite, SyncWrite, write_inode, SameNumbers, Inode
<1>6. CASE truncate(t)
  <2>1. UNCHANGED <<inode, imap>> \/ (imap' = imap /\ \E s, z : inode' = [inode EXCEPT ![s] = [@ EXCEPT !.zone[z] = 0]])
    BY <1>6 DEF truncate, Panic
  <2>2. CASE UNCHANGED <<inode, imap>>
    BY <2>2 DEF SameNumbers
  <2>3. ASSUME imap' = imap, NEW s, NEW z, inode' = [inode EXCEPT ![s] = [@ EXCEPT !.zone[z] = 0]]
        PROVE  SameNumbers
    <3>1. s \in Slot => [inode[s] EXCEPT !.zone[z] = 0].num = inode[s].num
      BY NumberLasts
    <3> QED
      BY <2>3, <3>1, OneNumber
  <2> QED
    BY <2>1, <2>2, <2>3
<1>7. CASE TruncateEnd(t)
  BY <1>7 DEF TruncateEnd, InodesOnly, SameNumbers, Inode
<1>8. CASE Written(t)
  BY <1>8 DEF Written, InodesOnly, SameNumbers, Inode
<1>9. CASE sync_inodes(t)
  <2>1. imap' = imap /\ (UNCHANGED inode \/ \E s : inode' = [inode EXCEPT ![s].lock = TRUE])
    BY <1>9 DEF sync_inodes, InodesOnly
  <2>2. CASE UNCHANGED inode
    BY <2>1, <2>2 DEF SameNumbers
  <2>3. ASSUME NEW s, inode' = [inode EXCEPT ![s].lock = TRUE] PROVE SameNumbers
    <3>1. s \in Slot => [inode[s] EXCEPT !.lock = TRUE].num = inode[s].num
      BY NumberLasts
    <3> QED
      BY <2>1, <2>3, <3>1, OneNumber
  <2> QED
    BY <2>1, <2>2, <2>3
<1> QED
  BY <1>1, <1>2, <1>3, <1>4, <1>5, <1>6, <1>7, <1>8, <1>9

(* iget(), get_empty_inode(), new_inode() and free_inode() give a slot     *)
(* another number.                                                         *)
LEMMA NewNumbers ==
  ASSUME IInv, NumbersUsed, Apart, Marked, NEW t \in Task,
         get_empty_inode(t) \/ IgetMiss(t) \/ new_inode(t) \/ free_inode(t)
  PROVE  Apart' /\ Marked'
<1>1. inode \in [Slot -> Inode] /\ imap \in SUBSET Num /\ 0 \notin Num
  BY DEF IInv, Types, Stored, Num
<1>2. CASE get_empty_inode(t)
  <2>1. CASE UNCHANGED <<inode, imap>>
    BY <2>1 DEF Apart, Marked
  <2>2. CASE ~UNCHANGED <<inode, imap>>
    <3> DEFINE i == [NoInode EXCEPT !.count = 1]
    <3>1. PICK s \in Slot : Take(t, s)
      BY <1>2, <2>2 DEF get_empty_inode, Panic, Unused
    <3>2. i.num = 0
      BY DEF NoInode
    <3>3. inode' = [inode EXCEPT ![s] = i] /\ imap' = imap
      BY <3>1 DEF Take, InodesOnly
    <3>4. \A u \in Slot : inode[u].num # 0 /\ u # s => inode[u].num \in imap' /\ inode[u].num # i.num
      BY <3>2, <3>3 DEF Marked
    <3> HIDE DEF i
    <3> QED
      BY <1>1, <3>2, <3>3, <3>4, OneApart
  <2> QED
    BY <2>1, <2>2
<1>3. CASE IgetMiss(t)
  <2> DEFINE e == l[t].emp
             i == [inode[e] EXCEPT !.num = l[t].nr, !.lock = TRUE]
  <2>1. l[t].pc = "scan" /\ InTable(l[t].nr) = {} /\ imap' = imap
    BY <1>3 DEF IgetMiss, Runs, InodesOnly
  <2>2. l[t].nr \in imap
    BY <2>1 DEF NumbersUsed
  <2>3. e \in Slot
    BY <2>1, Scanning
  <2>4. i.num = l[t].nr
    BY <1>1, <2>3 DEF Inode
  <2>5. inode' = [inode EXCEPT ![e] = i]
    BY <1>1, <1>3, <2>3 DEF IgetMiss
  <2>6. \A u \in Slot : inode[u].num # l[t].nr
    BY <2>1 DEF InTable
  <2> HIDE DEF e, i
  <2>7. \A u \in Slot : inode[u].num # 0 /\ u # e => inode[u].num \in imap' /\ inode[u].num # i.num
    BY <2>1, <2>4, <2>6 DEF Marked
  <2> QED
    BY <1>1, <2>1, <2>2, <2>3, <2>4, <2>5, <2>7, OneApart
<1>4. CASE new_inode(t)
  <2> DEFINE e == l[t].emp
             n == Least(Num \ imap)
  <2>1. l[t].pc = "new" /\ e \in Slot
    <3>1. l[t].pc = "new"
      BY <1>4 DEF new_inode, Runs
    <3> QED
      BY <3>1, ReservedHeld, Outside
  <2>2. CASE imap' = imap /\ inode' = [inode EXCEPT ![e].count = @ - 1]
    <3>1. [inode[e] EXCEPT !.count = inode[e].count - 1].num = inode[e].num
      BY <1>1, <2>1, NumberLasts
    <3> QED
      BY <1>1, <2>1, <2>2, <3>1, OneNumber, SameApart
  <2>3. CASE ~(imap' = imap /\ inode' = [inode EXCEPT ![e].count = @ - 1])
    <3>1. /\ imap # Num /\ imap' = imap \cup {n}
          /\ \E i : i.num = n /\ inode' = [inode EXCEPT ![e] = i]
      <4> DEFINE i == [NoInode EXCEPT !.num = n, !.count = 1, !.links = 1, !.dirt = TRUE,
                         !.kind = KindOf(l[t].op), !.size = IF l[t].op = "mkdir" THEN 2 ELSE 0]
      <4>1. /\ imap # Num /\ imap' = imap \cup {n}
            /\ inode' = [inode EXCEPT ![e] = i]
        BY <1>4, <2>3 DEF new_inode
      <4>2. i.num = n
        BY DEF NoInode
      <4> HIDE DEF i
      <4> QED
        BY <4>1, <4>2
    <3>2. n \notin imap /\ n \in imap'
      <4>1. Num \subseteq Nat
        BY Numbers DEF Num
      <4>2. Num \ imap # {}
        BY <1>1, <3>1
      <4>3. n \in Num \ imap
        BY <4>1, <4>2, LeastNatural
      <4> QED
        BY <3>1, <4>3
    <3> HIDE DEF e, n
    <3>3. PICK i : i.num = n /\ inode' = [inode EXCEPT ![e] = i]
      BY <3>1
    <3>4. \A u \in Slot : inode[u].num # 0 /\ u # e => inode[u].num \in imap' /\ inode[u].num # i.num
      BY <3>1, <3>2, <3>3 DEF Marked
    <3> QED
      BY <1>1, <2>1, <3>2, <3>3, <3>4, OneApart
  <2> QED
    BY <2>2, <2>3
<1>5. CASE free_inode(t)
  <2> DEFINE g == Given(t)
  <2>1. CASE UNCHANGED <<inode, imap>>
    BY <2>1 DEF Apart, Marked
  <2>2. CASE ~UNCHANGED <<inode, imap>>
    <3>1. l[t].pc = "free" /\ imap' = imap \ {inode[g].num} /\ inode' = [inode EXCEPT ![g] = NoInode]
      BY <1>5, <2>2 DEF free_inode, Runs, Panic
    <3>2. g \in Slot
      BY <3>1, GivingNow
    <3> HIDE DEF g
    <3>3. \A u \in Slot : inode[u].num # 0 /\ u # g =>
                             inode[u].num \in imap' /\ inode[u].num # NoInode.num
      BY <3>1, <3>2, Empty DEF Marked, Apart
    <3> QED
      BY <1>1, <3>1, <3>2, <3>3, Empty, OneApart
  <2> QED
    BY <2>1, <2>2
<1> QED
  BY <1>2, <1>3, <1>4, <1>5

LEMMA ApartInit == Init => Apart /\ Marked
<1> SUFFICES ASSUME Init PROVE Apart /\ Marked
  OBVIOUS
<1>1. inode = [s \in Slot |->
                 IF s = RootSlot
                 THEN Loaded([NoInode EXCEPT !.num = ROOT_INO, !.count = 1], disk[ROOT_INO])
                 ELSE NoInode]
  BY DEF Init
<1>2. Loaded([NoInode EXCEPT !.num = ROOT_INO, !.count = 1], disk[ROOT_INO]).num = ROOT_INO
  BY DEF Loaded, NoInode
<1>3. \A s \in Slot : inode[s].num # 0 => s = RootSlot /\ inode[s].num = ROOT_INO
  BY <1>1, <1>2, Empty
<1>4. ROOT_INO \in imap
  <2>1. Cardinality(Shared) \in Nat
    BY FileSystemAssumption, FS_CardinalityType
  <2>2. imap = ROOT_INO .. ROOT_INO + Cardinality(Shared)
    BY DEF Init
  <2> QED
    BY <2>1, <2>2 DEF ROOT_INO
<1> QED
  BY <1>3, <1>4 DEF Apart, Marked

LEMMA ApartStep == IInv /\ NumbersUsed /\ Apart /\ Marked /\ [Next]_vars => Apart' /\ Marked'
<1> SUFFICES ASSUME IInv, NumbersUsed, Apart, Marked, [Next]_vars PROVE Apart' /\ Marked'
  OBVIOUS
<1>1. inode \in [Slot -> Inode]
  BY DEF IInv, Types
<1>2. CASE UNCHANGED vars
  BY <1>2 DEF vars, Apart, Marked
<1>3. ASSUME NEW t \in Task, Step(t) PROVE Apart' /\ Marked'
  BY <1>1, <1>3, SameApart, TableSteps, CallSteps, PutSteps, NewNumbers DEF Step
<1> QED
  BY <1>2, <1>3 DEF Next

(* An inode is in the table at most once, and its number is not free, as   *)
(* long as the numbers that iget() is called with are in use, whatever the *)
(* programs do otherwise and wherever they sleep.                          *)
THEOREM InodesUnique == Spec /\ []NumbersUsed => []InodeUnique
<1>1. Apart => InodeUnique
  BY DEF Apart, InodeUnique
<1> QED
  BY <1>1, InitInv, StepInv, ApartInit, ApartStep, PTL DEF Spec

-----------------------------------------------------------------------------
(* What iput() asserts first.                                              *)
PutFreed == "iput: trying to free free inode"
PutsAreHeld == panic # PutFreed

LEMMA OtherPanics ==
  ASSUME NEW t \in Task, Step(t), ~Decrement(t)
  PROVE  panic' # PutFreed \/ panic' = panic
<1>1. CASE \/ SysCall(t) \/ FindNext(t) \/ namei(t) \/ FoundToRemove(t) \/ Exists(t) \/ NotFound(t)
           \/ sys_creat(t) \/ sys_mknod(t) \/ sys_mkdir(t) \/ LinkName(t) \/ wait_on_inode(t)
           \/ IgetHit(t) \/ IgetMiss(t) \/ read_inode(t) \/ new_inode(t) \/ NewBlock(t)
  BY <1>1 DEF SysCall, FindNext, namei, FoundToRemove, Exists, NotFound, sys_creat, sys_mknod, sys_mkdir,
              Create, LinkName, wait_on_inode, IgetHit, IgetMiss, read_inode, new_inode, NewBlock,
              LocalOnly, InodesOnly
<1>2. CASE \/ MkdirZone(t) \/ DirZone(t) \/ FileZone(t) \/ Dots(t) \/ AddEntry(t) \/ AddNext(t)
           \/ Linked(t) \/ open_namei(t) \/ Opened(t) \/ Touch(t) \/ sys_link(t) \/ sys_unlink(t)
           \/ sys_rmdir(t) \/ NotEmpty(t) \/ EmptyNext(t) \/ RemoveDir(t)
  BY <1>2 DEF MkdirZone, DirZone, FileZone, Dots, AddEntry, AddNext, Linked, open_namei, Opened, Touch,
              sys_link, sys_unlink, sys_rmdir, NotEmpty, EmptyNext, RemoveDir, LocalOnly, InodesOnly
<1>3. CASE \/ PutDirty(t) \/ PutWrite(t) \/ PutUnlinked(t) \/ TruncateEnd(t) \/ sys_close(t)
           \/ file_write(t) \/ Written(t) \/ sys_sync(t) \/ sync_inodes(t) \/ SyncWrite(t) \/ Synced(t)
  BY <1>3 DEF PutDirty, LockToWrite, PutWrite, write_inode, PutUnlinked, TruncateEnd, sys_close,
              file_write, Written, sys_sync, sync_inodes, SyncWrite, Synced, LocalOnly, InodesOnly
<1>4. CASE get_empty_inode(t)
  BY <1>4 DEF get_empty_inode, Take, InodesOnly, Panic, PutFreed
<1>5. CASE ClearBlock(t) \/ truncate(t) \/ Undo(t) \/ free_inode(t)
  BY <1>5 DEF ClearBlock, truncate, Undo, free_inode, Panic, PutFreed
<1> QED
  BY <1>1, <1>2, <1>3, <1>4, <1>5 DEF Step

(* iput() is never called for an inode whose count is 0, whatever two      *)
(* tasks do to the same names: its panic cannot come.                      *)
THEOREM PutsHeld == Spec => []PutsAreHeld
<1>1. Init => PutsAreHeld
  BY DEF Init, PutsAreHeld, PutFreed
<1>2. IInv /\ PutsAreHeld /\ [Next]_vars => PutsAreHeld'
  <2> SUFFICES ASSUME IInv, panic # PutFreed, [Next]_vars PROVE panic' # PutFreed
    BY DEF PutsAreHeld
  <2>1. CASE UNCHANGED vars
    BY <2>1 DEF vars
  <2>2. ASSUME NEW t \in Task, Decrement(t) PROVE panic' # PutFreed
    <3>1. l[t].pc = "put"
      BY <2>2 DEF Decrement, Putting, Runs
    <3>2. inode[Given(t)].count # 0
      <4>1. Given(t) \in Slot /\ inode[Given(t)] \in Inode /\ inode[Given(t)].count >= 1
        BY <3>1, GivingNow
      <4> QED
        BY <4>1 DEF Inode
    <3> QED
      BY <2>2, <3>2 DEF Decrement, InodesOnly
  <2> QED
    BY <2>1, <2>2, OtherPanics DEF Next
<1> QED
  BY <1>1, <1>2, InitInv, StepInv, PTL DEF Spec
=============================================================================
