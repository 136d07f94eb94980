---------------------------- MODULE DevicesProofs ---------------------------
(***************************************************************************)
(* Proofs about module Devices: the safety properties of its parts, for    *)
(* any number of tasks, files, descriptors, devices and directories.       *)
(* Module Devices has the parts as instances: Pipes!x is x of module Pipe. *)
(***************************************************************************)
EXTENDS Devices, Sequences, TLAPS, FiniteSetTheorems, WellFoundedInduction

-----------------------------------------------------------------------------
(* Counting *)

(* The cells of S that are in A and those in B differ only at c.           *)
LEMMA OneCell ==
  ASSUME NEW S, IsFiniteSet(S), NEW c \in S,
         NEW A \in SUBSET S, NEW B \in SUBSET S, A \ {c} = B \ {c}
  PROVE  /\ Cardinality(A) \in Nat /\ Cardinality(B) \in Nat
         /\ Cardinality(B) = Cardinality(A) - (IF c \in A THEN 1 ELSE 0)
                                            + (IF c \in B THEN 1 ELSE 0)
<1>1. IsFiniteSet(A) /\ IsFiniteSet(B)
  BY FS_Subset
<1>2. Cardinality(A) \in Nat /\ Cardinality(B) \in Nat
  BY <1>1, FS_CardinalityType
<1>3. Cardinality(A \ {c}) = IF c \in A THEN Cardinality(A) - 1 ELSE Cardinality(A)
  BY <1>1, FS_RemoveElement
<1>4. Cardinality(B \ {c}) = IF c \in B THEN Cardinality(B) - 1 ELSE Cardinality(B)
  BY <1>1, FS_RemoveElement
<1>5. Cardinality(A \ {c}) = Cardinality(B \ {c})
  OBVIOUS
<1> QED
  BY <1>2, <1>3, <1>4, <1>5

(* Removing a part of a row.                                               *)
LEMMA RowRemoved ==
  ASSUME NEW A, IsFiniteSet(A), NEW D, IsFiniteSet(D), NEW R \in SUBSET D,
         NEW p, NEW C, C = {p} \X R, C \subseteq A
  PROVE  /\ Cardinality(A) \in Nat /\ Cardinality(R) \in Nat
         /\ Cardinality(A \ C) = Cardinality(A) - Cardinality(R)
<1>1. IsFiniteSet(R)
  BY FS_Subset
<1>2. Cardinality(A) \in Nat /\ Cardinality(R) \in Nat
  BY <1>1, FS_CardinalityType
<1>3. Cardinality(C) = Cardinality(R)
  <2>1. IsFiniteSet({p}) /\ Cardinality({p}) = 1
    BY FS_Singleton
  <2>2. Cardinality(C) = 1 * Cardinality(R)
    BY <1>1, <2>1, FS_Product
  <2> QED
    BY <1>2, <2>2
<1>4. A \cap C = C
  OBVIOUS
<1>5. Cardinality(A \ C) = Cardinality(A) - Cardinality(A \cap C)
  BY FS_Difference
<1> QED
  BY <1>2, <1>3, <1>4, <1>5

LEMMA AtLeast ==
  ASSUME NEW S, IsFiniteSet(S)
  PROVE  /\ Cardinality(S) \in Nat
         /\ \A x \in S : Cardinality(S) >= 1
         /\ \A x, y \in S : x # y => Cardinality(S) >= 2
<1>1. Cardinality(S) \in Nat
  BY FS_CardinalityType
<1>2. ASSUME NEW x \in S
      PROVE  Cardinality(S) >= 1
  BY <1>1, FS_EmptySet
<1>3. ASSUME NEW x \in S, NEW y \in S, x # y
      PROVE  Cardinality(S) >= 2
  <2>1. Cardinality(S) # 1
    BY <1>3, FS_Singleton
  <2> QED
    BY <1>1, <1>2, <2>1
<1> QED
  BY <1>1, <1>2, <1>3

(* A set of natural numbers has a least element.                           *)
LEMMA LeastNatural ==
  ASSUME NEW S, S \subseteq Nat, S # {}
  PROVE  \E x \in S : \A y \in S : x <= y
<1>1. PICK x \in S : \A y \in S : <<y, x>> \notin OpToRel(<, Nat)
  BY NatLessThanWellFounded, WFMin, Zenon
<1>2. ASSUME NEW y \in S
      PROVE  ~(y < x)
  <2>1. y \in Nat /\ x \in Nat /\ <<y, x>> \notin OpToRel(<, Nat)
    BY <1>1
  <2> QED
    BY <2>1, Zenon DEF OpToRel
<1>3. \A y \in S : x <= y
  <2> TAKE y \in S
  <2>1. y \in Nat /\ x \in Nat /\ ~(y < x)
    BY <1>2
  <2> QED
    BY <2>1
<1> QED
  BY <1>3

(* FiniteSets is the same module wherever it is extended.                  *)
LEMMA PipesCardinality == ASSUME NEW S PROVE Pipes!Cardinality(S) = Cardinality(S)
BY DEF Pipes!Cardinality, Cardinality

LEMMA PipesFinite == ASSUME NEW S PROVE Pipes!IsFiniteSet(S) <=> IsFiniteSet(S)
BY DEF Pipes!IsFiniteSet, IsFiniteSet

-----------------------------------------------------------------------------
(* The table of files and the descriptors of the tasks                     *)

Descriptors == [Task -> [Pipes!Fd -> Pipes!File \cup {0}]]
Files == [Pipes!File -> [count : Nat, mode : 0 .. 2]]

Refs(fl, f) == {p \in Task \X Pipes!Fd : fl[p[1]][p[2]] = f}
Row(fl, t, f) == {fd \in Pipes!Fd : fl[t][fd] = f}
Opened(fi) == {f \in Pipes!File : fi[f].count > 0}

(* f_count of each file is the number of its descriptors.                  *)
Exact(fl, fi) == \A f \in Pipes!File : fi[f].count = Cardinality(Refs(fl, f))

LEMMA PipeNumbers ==
  /\ IsFiniteSet(Task) /\ Nobody \notin Task /\ Byte # {}
  /\ NFile \in Nat \ {0} /\ NOpen \in Nat \ {0} /\ MaxCount \in Nat \ {0}
  /\ PAGE_SIZE \in Nat /\ PAGE_SIZE >= 2 /\ Faults \in BOOLEAN
BY DevicesAssumption, PipesFinite DEF DevicesAssumption, Pipes!PipeAssumption

LEMMA PipeSets ==
  /\ Pipes!File \subseteq Nat /\ 0 \notin Pipes!File /\ Pipes!Fd \subseteq Nat
  /\ IsFiniteSet(Pipes!File) /\ IsFiniteSet(Pipes!Fd) /\ IsFiniteSet(Task \X Pipes!Fd)
  /\ Cardinality(Task) \in Nat /\ Cardinality(Task \X Pipes!Fd) = Cardinality(Task) * NOpen
<1>1. /\ Pipes!File = 1 .. NFile /\ Pipes!Fd = 0 .. NOpen - 1
      /\ NFile \in Nat /\ NOpen \in Nat /\ IsFiniteSet(Task)
  BY PipeNumbers DEF Pipes!File, Pipes!Fd
<1>2. IsFiniteSet(Pipes!File) /\ IsFiniteSet(Pipes!Fd) /\ Cardinality(Pipes!Fd) = NOpen
  <2>1. 0 \in Int /\ 1 \in Int /\ NFile \in Int /\ NOpen - 1 \in Int
    BY <1>1
  <2>2. /\ IsFiniteSet(1 .. NFile) /\ IsFiniteSet(0 .. NOpen - 1)
        /\ Cardinality(0 .. NOpen - 1) = IF 0 > NOpen - 1 THEN 0 ELSE NOpen - 1 - 0 + 1
    BY <2>1, FS_Interval
  <2> QED
    BY <1>1, <2>2
<1>3. IsFiniteSet(Task \X Pipes!Fd) /\ Cardinality(Task \X Pipes!Fd) = Cardinality(Task) * Cardinality(Pipes!Fd)
  BY <1>1, <1>2, FS_Product
<1>4. Cardinality(Task) \in Nat
  BY <1>1, FS_CardinalityType
<1> QED
  BY <1>1, <1>2, <1>3, <1>4

LEMMA RefsFinite ==
  ASSUME NEW fl, NEW f
  PROVE  /\ IsFiniteSet(Refs(fl, f)) /\ Cardinality(Refs(fl, f)) \in Nat
         /\ Cardinality(Refs(fl, f)) <= Cardinality(Task) * NOpen
         /\ \A t \in Task, fd \in Pipes!Fd : fl[t][fd] = f => Cardinality(Refs(fl, f)) >= 1
         /\ Cardinality(Refs(fl, f)) = 0 => \A t \in Task, fd \in Pipes!Fd : fl[t][fd] # f
<1> DEFINE A == Refs(fl, f)
<1>1. A \in SUBSET (Task \X Pipes!Fd) /\ \A t \in Task, fd \in Pipes!Fd : fl[t][fd] = f => <<t, fd>> \in A
  BY DEF Refs
<1> HIDE DEF A
<1>2. IsFiniteSet(A) /\ Cardinality(A) <= Cardinality(Task \X Pipes!Fd)
  BY <1>1, PipeSets, FS_Subset
<1>3. Cardinality(A) \in Nat /\ \A x \in A : Cardinality(A) >= 1
  BY <1>2, AtLeast
<1>4. Cardinality(A) <= Cardinality(Task) * NOpen
  BY <1>2, PipeSets
<1>5. \A t \in Task, fd \in Pipes!Fd : fl[t][fd] = f => Cardinality(A) >= 1
  BY <1>1, <1>3
<1>6. Cardinality(A) = 0 => \A t \in Task, fd \in Pipes!Fd : fl[t][fd] # f
  BY <1>5
<1> QED
  BY <1>2, <1>3, <1>4, <1>5, <1>6 DEF A

LEMMA RowFinite ==
  ASSUME NEW fl, NEW t, NEW f, NEW fds \in SUBSET Pipes!Fd
  PROVE  /\ IsFiniteSet({fd \in fds : fl[t][fd] = f}) /\ Cardinality({fd \in fds : fl[t][fd] = f}) \in Nat
         /\ \A fd \in fds : fl[t][fd] = f => Cardinality({x \in fds : fl[t][x] = f}) >= 1
<1> DEFINE A == {fd \in fds : fl[t][fd] = f}
<1>1. A \in SUBSET Pipes!Fd /\ \A fd \in fds : fl[t][fd] = f => fd \in A
  OBVIOUS
<1> HIDE DEF A
<1>2. IsFiniteSet(A)
  BY <1>1, PipeSets, FS_Subset
<1>3. Cardinality(A) \in Nat /\ \A x \in A : Cardinality(A) >= 1
  BY <1>2, AtLeast
<1> QED
  BY <1>1, <1>2, <1>3 DEF A

(* The descriptors of one task change.                                     *)
LEMMA RowChange ==
  ASSUME NEW a, NEW b, NEW t \in Task, \A q \in Task : q # t => b[q] = a[q], NEW f
  PROVE  /\ Cardinality(Row(a, t, f)) \in Nat /\ Cardinality(Row(b, t, f)) \in Nat
         /\ Cardinality(Refs(b, f)) = Cardinality(Refs(a, f)) - Cardinality(Row(a, t, f))
                                                              + Cardinality(Row(b, t, f))
<1> DEFINE A == Refs(a, f)
           B == Refs(b, f)
           RA == Row(a, t, f)
           RB == Row(b, t, f)
           CA == {t} \X RA
           CB == {t} \X RB
           D == Pipes!Fd
<1>1. IsFiniteSet(A) /\ IsFiniteSet(B)
  BY RefsFinite
<1>2. CA \subseteq A /\ CB \subseteq B
  BY DEF Refs, Row
<1>3. A \ CA = B \ CB
  BY DEF Refs, Row
<1>4. IsFiniteSet(D) /\ RA \in SUBSET D /\ RB \in SUBSET D /\ CA = {t} \X RA /\ CB = {t} \X RB
  BY PipeSets DEF Row
<1> HIDE DEF A, B, RA, RB, CA, CB, D
<1>5. /\ Cardinality(A) \in Nat /\ Cardinality(RA) \in Nat
      /\ Cardinality(A \ CA) = Cardinality(A) - Cardinality(RA)
  BY <1>1, <1>2, <1>4, RowRemoved
<1>6. /\ Cardinality(B) \in Nat /\ Cardinality(RB) \in Nat
      /\ Cardinality(B \ CB) = Cardinality(B) - Cardinality(RB)
  BY <1>1, <1>2, <1>4, RowRemoved
<1>7. PICK n : n = Cardinality(A \ CA) /\ n = Cardinality(B \ CB)
  BY <1>3
<1>8. Cardinality(B) = Cardinality(A) - Cardinality(RA) + Cardinality(RB)
  BY <1>5, <1>6, <1>7
<1> QED
  BY <1>5, <1>6, <1>8 DEF A, B, RA, RB

(* One descriptor that was closed is opened.                               *)
LEMMA DescriptorOpened ==
  ASSUME NEW a, NEW b, NEW t \in Task, NEW x \in Pipes!Fd, NEW g,
         \A q \in Task : q # t => b[q] = a[q],
         a[t][x] = 0, b[t][x] = g, \A fd \in Pipes!Fd : fd # x => b[t][fd] = a[t][fd]
  PROVE  \A f \in Pipes!File :
            Cardinality(Refs(b, f)) = IF f = g THEN Cardinality(Refs(a, f)) + 1 ELSE Cardinality(Refs(a, f))
<1> TAKE f \in Pipes!File
<1> DEFINE A == Row(a, t, f)
           B == Row(b, t, f)
<1>1. /\ Cardinality(A) \in Nat /\ Cardinality(B) \in Nat
      /\ Cardinality(Refs(b, f)) = Cardinality(Refs(a, f)) - Cardinality(A) + Cardinality(B)
  BY RowChange
<1>2. Cardinality(Refs(a, f)) \in Nat
  BY RefsFinite
<1>3. B = IF f = g THEN A \cup {x} ELSE A
  BY PipeSets DEF Row
<1>4. IsFiniteSet(A) /\ x \notin A
  BY PipeSets, FS_Subset DEF Row
<1> HIDE DEF A, B
<1>5. Cardinality(A \cup {x}) = Cardinality(A) + 1
  BY <1>4, FS_AddElement
<1> QED
  BY <1>1, <1>2, <1>3, <1>5

(* Some descriptors of one task are closed.                                *)
Closes(a, b, t, fds) ==
  /\ \A q \in Task : q # t => b[q] = a[q]
  /\ \A fd \in Pipes!Fd : b[t][fd] = IF fd \in fds THEN 0 ELSE a[t][fd]
Among(a, t, fds, f) == Cardinality({fd \in fds : a[t][fd] = f})

LEMMA DescriptorsClosed ==
  ASSUME NEW a, NEW b, NEW t \in Task, NEW fds \in SUBSET Pipes!Fd, Closes(a, b, t, fds),
         NEW f \in Pipes!File
  PROVE  /\ Among(a, t, fds, f) \in Nat
         /\ Cardinality(Refs(b, f)) = Cardinality(Refs(a, f)) - Among(a, t, fds, f)
<1> USE DEF Closes
<1> DEFINE A == Row(a, t, f)
           B == Row(b, t, f)
           C == {fd \in fds : a[t][fd] = f}
<1>1. /\ Cardinality(A) \in Nat /\ Cardinality(B) \in Nat
      /\ Cardinality(Refs(b, f)) = Cardinality(Refs(a, f)) - Cardinality(A) + Cardinality(B)
  BY RowChange
<1>2. Cardinality(Refs(a, f)) \in Nat /\ Cardinality(C) \in Nat
  <2>1. Cardinality(Refs(a, f)) \in Nat
    BY RefsFinite
  <2>2. IsFiniteSet(C)
    BY PipeSets, FS_Subset
  <2> QED
    BY <2>1, <2>2, FS_CardinalityType
<1>3. B = A \ C /\ A \cap C = C
  BY PipeSets DEF Row
<1>4. IsFiniteSet(A)
  BY PipeSets, FS_Subset DEF Row
<1> HIDE DEF A, B, C
<1>5. Cardinality(A \ C) = Cardinality(A) - Cardinality(A \cap C)
  BY <1>4, FS_Difference
<1>6. Cardinality(B) = Cardinality(A) - Cardinality(C)
  BY <1>3, <1>5
<1>7. Cardinality(Refs(b, f)) = Cardinality(Refs(a, f)) - Cardinality(C)
  BY <1>1, <1>2, <1>6
<1> QED
  BY <1>2, <1>7 DEF C, Among

(* sys_close() of some descriptors of one task.                            *)
Left(t, fds, f) == file[f].count - Among(filp, t, fds, f)
WentAway(t, fds) == {f \in Pipes!File : file[f].count > 0 /\ Pipes!Closed(t, fds)[f].count = 0}

LEMMA ClosedIs ==
  ASSUME NEW t, NEW fds
  PROVE  /\ \A f \in Pipes!File : Pipes!Closed(t, fds)[f] =
               IF Left(t, fds, f) = 0 THEN [count |-> 0, mode |-> 0]
                                      ELSE [file[f] EXCEPT !.count = Left(t, fds, f)]
         /\ DOMAIN Pipes!Closed(t, fds) = Pipes!File
         /\ Pipes!Closed(t, fds) = [f \in Pipes!File |-> Pipes!Closed(t, fds)[f]]
         /\ Pipes!Gone(t, fds) = Cardinality(WentAway(t, fds))
<1>1. \A f \in Pipes!File : Pipes!Uses(f, t, fds) = Among(filp, t, fds, f)
  BY PipesCardinality DEF Pipes!Uses, Among
<1>2. Pipes!Gone(t, fds) = Cardinality(WentAway(t, fds))
  BY PipesCardinality DEF Pipes!Gone, WentAway
<1> QED
  BY <1>1, <1>2 DEF Pipes!Closed, Left

LEMMA CloseFiles ==
  ASSUME filp \in Descriptors, file \in Files, Exact(filp, file),
         NEW t \in Task, NEW fds \in SUBSET Pipes!Fd, NEW fl,
         Closes(filp, fl, t, fds)
  PROVE  /\ Pipes!Closed(t, fds) \in Files
         /\ Exact(fl, Pipes!Closed(t, fds))
         /\ Opened(Pipes!Closed(t, fds)) \subseteq Opened(file)
         /\ Pipes!Gone(t, fds) \in Nat
         /\ Cardinality(Opened(file)) \in Nat
         /\ Pipes!Gone(t, fds) <= Cardinality(Opened(file))
         /\ Cardinality(Opened(Pipes!Closed(t, fds))) = Cardinality(Opened(file)) - Pipes!Gone(t, fds)
<1> DEFINE C == Pipes!Closed(t, fds)
<1>1. \A f \in Pipes!File :
         /\ Left(t, fds, f) = Cardinality(Refs(fl, f))
         /\ Left(t, fds, f) \in Nat /\ Left(t, fds, f) <= file[f].count
  <2> TAKE f \in Pipes!File
  <2>1. /\ Among(filp, t, fds, f) \in Nat
        /\ Cardinality(Refs(fl, f)) = Cardinality(Refs(filp, f)) - Among(filp, t, fds, f)
    BY DescriptorsClosed
  <2>2. file[f].count = Cardinality(Refs(filp, f)) /\ file[f].count \in Nat /\ Cardinality(Refs(fl, f)) \in Nat
    BY RefsFinite DEF Exact, Files
  <2> QED
    BY <2>1, <2>2 DEF Left
<1>2. \A f \in Pipes!File : file[f] \in [count : Nat, mode : 0 .. 2]
  BY DEF Files
<1>3. \A f \in Pipes!File : C[f].count = Left(t, fds, f) /\ C[f] \in [count : Nat, mode : 0 .. 2]
  <2> TAKE f \in Pipes!File
  <2>1. C[f] = IF Left(t, fds, f) = 0 THEN [count |-> 0, mode |-> 0]
                                      ELSE [file[f] EXCEPT !.count = Left(t, fds, f)]
    BY ClosedIs
  <2> QED
    BY <1>1, <1>2, <2>1
<1>4. C \in Files
  <2>1. C = [f \in Pipes!File |-> C[f]]
    BY ClosedIs
  <2> HIDE DEF C
  <2> QED
    BY <1>3, <2>1 DEF Files
<1>5. Exact(fl, C)
  BY <1>1, <1>3 DEF Exact
<1>6. /\ Opened(C) = Opened(file) \ WentAway(t, fds) /\ WentAway(t, fds) \subseteq Opened(file)
      /\ Opened(C) \subseteq Opened(file)
  <2>1. \A f \in Pipes!File : C[f].count > 0 => file[f].count > 0
    BY <1>1, <1>2, <1>3
  <2>2. \A f \in Pipes!File : C[f].count \in Nat
    BY <1>1, <1>3
  <2> QED
    BY <2>1, <2>2 DEF Opened, WentAway
<1>7. IsFiniteSet(Opened(file)) /\ IsFiniteSet(WentAway(t, fds)) /\ Opened(file) \cap WentAway(t, fds) = WentAway(t, fds)
  BY <1>6, PipeSets, FS_Subset DEF Opened
<1>8. /\ Cardinality(Opened(file)) \in Nat /\ Cardinality(WentAway(t, fds)) \in Nat
      /\ Cardinality(WentAway(t, fds)) <= Cardinality(Opened(file))
  BY <1>6, <1>7, FS_CardinalityType, FS_Subset
<1>9. Cardinality(Opened(C)) = Cardinality(Opened(file)) - Cardinality(WentAway(t, fds))
  BY <1>6, <1>7, FS_Difference
<1> QED
  BY <1>4, <1>5, <1>6, <1>8, <1>9, ClosedIs

(* dup(): a closed descriptor of a task becomes another one of an open     *)
(* file.                                                                   *)
Opens(a, b, t, x, g) ==
  /\ \A q \in Task : q # t => b[q] = a[q]
  /\ a[t][x] = 0 /\ b[t][x] = g
  /\ \A fd \in Pipes!Fd : fd # x => b[t][fd] = a[t][fd]
OneMore(fi, fo, g) ==
  /\ fo \in Files
  /\ \A f \in Pipes!File : fo[f].count = IF f = g THEN fi[f].count + 1 ELSE fi[f].count

LEMMA OpenFile ==
  ASSUME NEW a, NEW b, NEW t \in Task, NEW x \in Pipes!Fd, NEW g \in Pipes!File,
         Opens(a, b, t, x, g),
         NEW fi \in Files, NEW fo, OneMore(fi, fo, g), Exact(a, fi)
  PROVE  Exact(b, fo)
<1>1. \A f \in Pipes!File :
         Cardinality(Refs(b, f)) = IF f = g THEN Cardinality(Refs(a, f)) + 1 ELSE Cardinality(Refs(a, f))
  BY DescriptorOpened DEF Opens
<1> QED
  BY <1>1 DEF Exact, OneMore

LEMMA DupFile ==
  ASSUME NEW a, NEW b, NEW t \in Task, NEW x \in Pipes!Fd, NEW y \in Pipes!Fd, NEW g \in Pipes!File,
         Opens(a, b, t, x, g), a[t][y] = g,
         NEW fi \in Files, NEW fo, OneMore(fi, fo, g), Exact(a, fi)
  PROVE  /\ Exact(b, fo)
         /\ Opened(fo) = Opened(fi)
<1>1. Exact(b, fo)
  BY OpenFile
<1>2. fi[g].count >= 1
  BY RefsFinite DEF Exact
<1>3. \A f \in Pipes!File : fi[f].count \in Nat /\ fo[f].count \in Nat
  BY DEF Files, OneMore
<1> QED
  BY <1>1, <1>2, <1>3 DEF Opened, OneMore

LEMMA LeastIs ==
  ASSUME NEW S, S \subseteq Nat, S # {}
  PROVE  Pipes!Least(S) \in S
BY LeastNatural DEF Pipes!Least

LEMMA TwoLeast ==
  ASSUME NEW S, S \subseteq Nat, IsFiniteSet(S), Pipes!Cardinality(S) >= 2
  PROVE  Pipes!Least(S) \in S /\ Pipes!Second(S) \in S /\ Pipes!Second(S) # Pipes!Least(S)
<1>1. Cardinality(S) >= 2
  BY PipesCardinality
<1>2. S # {}
  BY <1>1, FS_EmptySet
<1>3. Pipes!Least(S) \in S
  BY <1>2, LeastIs
<1>4. S \ {Pipes!Least(S)} # {}
  <2>1. Cardinality(S) # 1
    BY <1>1
  <2>2. \A x : S # {x}
    BY <2>1, FS_Singleton
  <2> QED
    BY <1>2, <2>2
<1>5. Pipes!Least(S \ {Pipes!Least(S)}) \in S \ {Pipes!Least(S)}
  BY <1>4, LeastIs
<1> QED
  BY <1>3, <1>5 DEF Pipes!Second

-----------------------------------------------------------------------------
(* The inductive invariant of the pipe                                     *)

Pc == {"dead", "user", "read", "write", "copy_out", "copy_in"}
Task_l == [pc : Pc, count : 0 .. MaxCount, chars : 0 .. PAGE_SIZE - 1, at : Pipes!Offset]

(* A task that does not exist has no descriptors.                          *)
Tables ==
  /\ filp \in Descriptors /\ file \in Files
  /\ Exact(filp, file)
  /\ pipe.count = Cardinality(Opened(file))
  /\ \A t \in Task : l[t].pc = "dead" => \A fd \in Pipes!Fd : filp[t][fd] = 0

Ring ==
  /\ pipe \in [count : 0 .. 2, head : Pipes!Offset, tail : Pipes!Offset]
  /\ page \in [Pipes!Offset -> Byte]
  /\ last \in Seq(Byte)

Tasks ==
  /\ l \in [Task -> Task_l]
  /\ asleep \subseteq Task /\ cpu \in Task \cup {Nobody}

(* A task that is copying, or that has copied and has not given up the     *)
(* processor since, is going to wake up who sleeps.                        *)
Awakes(copy, back) == \E u \in Task : l[u].pc = copy \/ (cpu = u /\ l[u].pc = back)
Sleeping ==
  /\ \A t \in asleep : l[t].pc \in {"read", "write"}
  /\ asleep # {} => pipe.count = 2
  /\ \A t \in asleep : l[t].pc = "read" => Pipes!PIPE_SIZE = 0 \/ Awakes("copy_in", "write")
  /\ \A t \in asleep : l[t].pc = "write" => Pipes!Room = 0 \/ Awakes("copy_out", "read")

PipeIInv == Tables /\ Ring /\ Tasks /\ Sleeping

LEMMA PipeTask ==
  /\ Pipes!User \in Task_l /\ [Pipes!User EXCEPT !.pc = "dead"] \in Task_l
  /\ Pipes!User.pc = "user" /\ [Pipes!User EXCEPT !.pc = "dead"].pc = "dead"
<1>1. 0 \in 0 .. MaxCount /\ 0 \in 0 .. PAGE_SIZE - 1 /\ 0 \in Pipes!Offset
  BY PipeNumbers DEF Pipes!Offset
<1> QED
  BY <1>1 DEF Task_l, Pc, Pipes!User

LEMMA PipeInit == Pipes!Init => PipeIInv
<1> SUFFICES ASSUME Pipes!Init PROVE PipeIInv
  OBVIOUS
<1> USE DEF Pipes!Init
<1>1. \A f \in Pipes!File : Cardinality(Refs(filp, f)) = 0
  <2> TAKE f \in Pipes!File
  <2>1. Refs(filp, f) = {}
    BY PipeSets DEF Refs
  <2> QED
    BY <2>1, FS_EmptySet
<1>2. Opened(file) = {}
  BY DEF Opened
<1>3. Cardinality(Opened(file)) = 0
  BY <1>2, FS_EmptySet
<1>4. pipe.count = 0 /\ pipe \in [count : 0 .. 2, head : Pipes!Offset, tail : Pipes!Offset]
  BY PipeNumbers DEF Pipes!NoPipe, Pipes!Offset
<1>5. Tables
  BY <1>1, <1>3, <1>4 DEF Tables, Descriptors, Files, Exact
<1>6. page \in [Pipes!Offset -> Byte]
  BY PipeNumbers DEF Pipes!Blank
<1>7. l \in [Task -> Task_l]
  <2>1. Pipes!User \in Task_l /\ [Pipes!User EXCEPT !.pc = "dead"] \in Task_l
    BY PipeTask
  <2> QED
    BY <2>1
<1>8. Ring
  BY <1>4, <1>6 DEF Ring
<1>9. Tasks
  BY <1>7 DEF Tasks
<1>10. Sleeping
  BY DEF Sleeping
<1> QED
  BY <1>5, <1>8, <1>9, <1>10 DEF PipeIInv

(* What the steps of a task outside the ring do to who sleeps.             *)
LEMMA SleepKept ==
  ASSUME Tasks, Sleeping, NEW t \in Task, Pipes!Runs(t, "user"),
         asleep' = {} \/ (asleep' = asleep /\ (asleep # {} => pipe' = pipe)),
         \A u \in Task : l[u].pc \notin {"user", "dead"} => l'[u] = l[u]
  PROVE  Sleeping'
<1>1. CASE asleep' = {}
  BY <1>1 DEF Sleeping
<1>2. CASE asleep = {} /\ asleep' = asleep
  BY <1>2 DEF Sleeping
<1>3. CASE asleep # {} /\ asleep' = asleep /\ pipe' = pipe
  <2>1. Pipes!PIPE_SIZE' = Pipes!PIPE_SIZE /\ Pipes!Room' = Pipes!Room /\ pipe'.count = 2
    BY <1>3 DEF Pipes!PIPE_SIZE, Pipes!Room, Sleeping
  <2>2. \A u \in Task : cpu = u => u = t
    BY PipeNumbers DEF Pipes!Runs
  <2>3. Awakes("copy_in", "write") => Awakes("copy_in", "write")'
    BY <2>2 DEF Awakes, Pipes!Runs
  <2>4. Awakes("copy_out", "read") => Awakes("copy_out", "read")'
    BY <2>2 DEF Awakes, Pipes!Runs
  <2>5. \A u \in asleep : l'[u] = l[u]
    BY DEF Tasks, Sleeping
  <2>6. \A u \in asleep : Sleeping => l[u].pc \in {"read", "write"}
    BY DEF Sleeping
  <2> QED
    BY <1>3, <2>1, <2>3, <2>4, <2>5 DEF Sleeping
<1> QED
  BY <1>1, <1>2, <1>3

(* iput() of a pipe that loses n ends.                                     *)
LEMMA IputKeeps ==
  ASSUME Ring, Sleeping, NEW n \in Nat, n <= pipe.count, Pipes!iput(n)
  PROVE  /\ pipe' \in [count : 0 .. 2, head : Pipes!Offset, tail : Pipes!Offset]
         /\ pipe'.count = pipe.count - n
         /\ page' \in [Pipes!Offset -> Byte]
         /\ asleep' = {} \/ (asleep' = asleep /\ (asleep # {} => pipe' = pipe))
<1>1. pipe \in [count : 0 .. 2, head : Pipes!Offset, tail : Pipes!Offset] /\ page \in [Pipes!Offset -> Byte]
  BY DEF Ring
<1>2. Pipes!NoPipe \in [count : 0 .. 2, head : Pipes!Offset, tail : Pipes!Offset] /\ Pipes!NoPipe.count = 0
  BY PipeNumbers DEF Pipes!NoPipe, Pipes!Offset
<1>3. Pipes!Blank \in [Pipes!Offset -> Byte]
  BY PipeNumbers DEF Pipes!Blank
<1>4. asleep # {} => pipe.count = 2
  BY DEF Sleeping
<1>5. CASE pipe.count = n
  BY <1>1, <1>2, <1>3, <1>4, <1>5 DEF Pipes!iput, Pipes!Sleepers
<1>6. CASE pipe.count # n
  <2>1. pipe' = [pipe EXCEPT !.count = pipe.count - n] /\ page' = page
    BY <1>6 DEF Pipes!iput
  <2>2. pipe' \in [count : 0 .. 2, head : Pipes!Offset, tail : Pipes!Offset] /\ pipe'.count = pipe.count - n
    BY <1>1, <2>1
  <2>3. n = 0 => pipe' = pipe
    BY <1>1, <2>1
  <2>4. asleep' = IF n > 0 THEN {} ELSE asleep
    BY DEF Pipes!iput, Pipes!Sleepers
  <2> QED
    BY <1>1, <2>1, <2>2, <2>3, <2>4
<1> QED
  BY <1>5, <1>6

LEMMA PipeCall ==
  ASSUME PipeIInv, NEW t \in Task, Pipes!sys_pipe(t), last' = <<>>
  PROVE  PipeIInv'
<1> DEFINE F == Pipes!FreeFiles
           X == Pipes!FreeFds(t)
           r == Pipes!Least(F)
           w == Pipes!Second(F)
           x == Pipes!Least(X)
           y == Pipes!Second(X)
           one == [filp EXCEPT ![t][x] = r]
           half == [file EXCEPT ![r] = [count |-> 1, mode |-> 1]]
<1>1. Tables /\ Ring /\ Tasks /\ Sleeping
  BY DEF PipeIInv
<1>2. /\ Pipes!Runs(t, "user") /\ pipe.count = 0
      /\ pipe' = [Pipes!NoPipe EXCEPT !.count = 2] /\ UNCHANGED <<page, l, asleep, cpu>>
  BY DEF Pipes!sys_pipe
<1>3. r \in Pipes!File /\ w \in Pipes!File /\ r # w
  <2>1. F \subseteq Pipes!File /\ F \subseteq Nat /\ IsFiniteSet(F)
    BY PipeSets, FS_Subset DEF Pipes!FreeFiles
  <2>2. Pipes!Cardinality(F) >= 2
    BY DEF Pipes!sys_pipe
  <2> HIDE DEF F
  <2> QED
    BY <2>1, <2>2, TwoLeast
<1>4. x \in Pipes!Fd /\ y \in Pipes!Fd /\ x # y /\ filp[t][x] = 0 /\ filp[t][y] = 0
  <2>1. X \subseteq Pipes!Fd /\ X \subseteq Nat /\ IsFiniteSet(X) /\ \A fd \in X : filp[t][fd] = 0
    BY PipeSets, FS_Subset DEF Pipes!FreeFds
  <2>2. Pipes!Cardinality(X) >= 2
    BY DEF Pipes!sys_pipe
  <2> HIDE DEF X
  <2>3. x \in X /\ y \in X /\ x # y
    BY <2>1, <2>2, TwoLeast
  <2> QED
    BY <2>1, <2>3
<1>5. /\ file' = [file EXCEPT ![r] = [count |-> 1, mode |-> 1], ![w] = [count |-> 1, mode |-> 2]]
      /\ filp' = [filp EXCEPT ![t][x] = r, ![t][y] = w]
  BY DEF Pipes!sys_pipe
<1> HIDE DEF F, X, r, w, x, y
<1>6. \A f \in Pipes!File : file[f].count = 0
  <2>1. IsFiniteSet(Opened(file)) /\ Cardinality(Opened(file)) = 0
    BY <1>1, <1>2, PipeSets, FS_Subset DEF Tables, Opened
  <2>2. Opened(file) = {}
    BY <2>1, FS_EmptySet
  <2> QED
    BY <1>1, <2>2 DEF Tables, Files, Opened
<1>7. filp \in Descriptors /\ file \in Files /\ Exact(filp, file)
  BY <1>1 DEF Tables
<1>8. Opens(filp, one, t, x, r) /\ OneMore(file, half, r) /\ one \in Descriptors
  BY <1>3, <1>4, <1>6, <1>7 DEF Opens, OneMore, Descriptors, Files
<1>9. Opens(one, filp', t, y, w) /\ OneMore(half, file', w) /\ filp' \in Descriptors /\ file' \in Files
  <2>1. filp' \in Descriptors
    BY <1>3, <1>4, <1>5, <1>7 DEF Descriptors
  <2>2. file' \in Files
    BY <1>3, <1>5, <1>7 DEF Files
  <2>3. Opens(one, filp', t, y, w)
    BY <1>3, <1>4, <1>5, <1>7 DEF Opens, Descriptors
  <2>4. OneMore(half, file', w)
    BY <1>3, <1>5, <1>6, <1>7, <2>2 DEF OneMore, Files
  <2> QED
    BY <2>1, <2>2, <2>3, <2>4
<1> HIDE DEF one, half
<1>10. half \in Files /\ Exact(one, half)
  BY <1>3, <1>4, <1>7, <1>8, OpenFile DEF OneMore
<1>11. Exact(filp', file')
  BY <1>3, <1>4, <1>9, <1>10, OpenFile
<1>12. Opened(file') = {r, w}
  BY <1>3, <1>5, <1>6, <1>7 DEF Opened, Files
<1>13. Cardinality(Opened(file')) = 2
  <2>1. IsFiniteSet({r}) /\ Cardinality({r}) = 1
    BY FS_Singleton
  <2>2. {r, w} = {r} \cup {w} /\ w \notin {r}
    BY <1>3
  <2>3. Cardinality({r} \cup {w}) = 1 + 1
    BY <2>1, <2>2, FS_AddElement
  <2> QED
    BY <1>12, <2>2, <2>3
<1>14. pipe' \in [count : 0 .. 2, head : Pipes!Offset, tail : Pipes!Offset] /\ pipe'.count = 2
  <2>1. 0 \in Pipes!Offset
    BY PipeNumbers DEF Pipes!Offset
  <2> QED
    BY <1>2, <2>1 DEF Pipes!NoPipe
<1>15. \A u \in Task : l'[u].pc = "dead" => \A fd \in Pipes!Fd : filp'[u][fd] = 0
  BY <1>1, <1>2, <1>5, <1>7 DEF Tables, Pipes!Runs, Descriptors
<1>16. Tables'
  BY <1>9, <1>11, <1>13, <1>14, <1>15 DEF Tables
<1>17. Ring' /\ Tasks'
  BY <1>1, <1>2, <1>14 DEF Ring, Tasks
<1>18. Sleeping'
  BY <1>1, <1>2 DEF Sleeping
<1> QED
  BY <1>16, <1>17, <1>18 DEF PipeIInv

LEMMA Closing ==
  ASSUME PipeIInv, NEW t \in Task, NEW fds \in SUBSET Pipes!Fd, Pipes!Runs(t, "user"),
         filp' \in Descriptors, Closes(filp, filp', t, fds),
         file' = Pipes!Closed(t, fds), Pipes!iput(Pipes!Gone(t, fds)), last' = <<>>,
         Tasks',
         \A u \in Task : l[u].pc \notin {"user", "dead"} => l'[u] = l[u],
         \A u \in Task : l'[u].pc = "dead" => l[u].pc = "dead" \/ (u = t /\ fds = Pipes!Fd)
  PROVE  PipeIInv'
<1>1. /\ filp \in Descriptors /\ file \in Files /\ Exact(filp, file)
      /\ pipe.count = Cardinality(Opened(file)) /\ Ring /\ Tasks /\ Sleeping
  BY DEF PipeIInv, Tables
<1> DEFINE C == Pipes!Closed(t, fds)
           n == Pipes!Gone(t, fds)
<1>2. /\ C \in Files /\ Exact(filp', C) /\ n \in Nat
      /\ n <= Cardinality(Opened(file))
      /\ Cardinality(Opened(C)) = Cardinality(Opened(file)) - n
  BY <1>1, CloseFiles
<1>3. file' = C /\ Pipes!iput(n)
  OBVIOUS
<1> HIDE DEF C, n
<1>4. n <= pipe.count
  BY <1>1, <1>2
<1>5. /\ pipe' \in [count : 0 .. 2, head : Pipes!Offset, tail : Pipes!Offset]
      /\ pipe'.count = pipe.count - n
      /\ page' \in [Pipes!Offset -> Byte]
      /\ asleep' = {} \/ (asleep' = asleep /\ (asleep # {} => pipe' = pipe))
  BY <1>1, <1>2, <1>3, <1>4, IputKeeps
<1>6. file' \in Files /\ Exact(filp', file') /\ Cardinality(Opened(file')) = Cardinality(Opened(file)) - n
  BY <1>2, <1>3
<1>7. pipe'.count = Cardinality(Opened(file'))
  BY <1>1, <1>5, <1>6
<1>8. \A u \in Task : l'[u].pc = "dead" => \A fd \in Pipes!Fd : filp'[u][fd] = 0
  <2> SUFFICES ASSUME NEW u \in Task, l'[u].pc = "dead", NEW fd \in Pipes!Fd
               PROVE  filp'[u][fd] = 0
    OBVIOUS
  <2>1. CASE u = t
    BY <2>1 DEF PipeIInv, Tables, Closes, Pipes!Runs
  <2>2. CASE u # t
    BY <2>2 DEF PipeIInv, Tables, Closes
  <2> QED
    BY <2>1, <2>2
<1>9. Tables'
  BY <1>6, <1>7, <1>8 DEF Tables
<1>10. Ring'
  BY <1>5 DEF Ring
<1>11. Sleeping'
  BY <1>1, <1>5, SleepKept
<1> QED
  BY <1>9, <1>10, <1>11 DEF PipeIInv

LEMMA PipeClose ==
  ASSUME PipeIInv, NEW t \in Task, Pipes!sys_close(t), last' = <<>>
  PROVE  PipeIInv'
<1>1. PICK x \in Pipes!Fd :
         /\ file' = Pipes!Closed(t, {x}) /\ filp' = [filp EXCEPT ![t][x] = 0]
         /\ Pipes!iput(Pipes!Gone(t, {x}))
  BY DEF Pipes!sys_close
<1>2. Pipes!Runs(t, "user") /\ UNCHANGED <<l, cpu>>
  BY DEF Pipes!sys_close
<1>3. filp \in Descriptors /\ Tasks
  BY DEF PipeIInv, Tables
<1>4. filp' \in Descriptors /\ Closes(filp, filp', t, {x})
  BY <1>1, <1>3 DEF Descriptors, Closes
<1>5. asleep' = asleep \/ asleep' = {}
  BY <1>1 DEF Pipes!iput, Pipes!Sleepers
<1>6. Tasks'
  BY <1>2, <1>3, <1>5 DEF Tasks
<1>7. {x} \in SUBSET Pipes!Fd /\ file' = Pipes!Closed(t, {x}) /\ Pipes!iput(Pipes!Gone(t, {x}))
  BY <1>1
<1>8. \A u \in Task : l'[u] = l[u]
  BY <1>2
<1> QED
  BY <1>2, <1>4, <1>6, <1>7, <1>8, Closing

LEMMA PipeExit ==
  ASSUME PipeIInv, NEW t \in Task, Pipes!do_exit(t), last' = <<>>
  PROVE  PipeIInv'
<1> DEFINE fds == Pipes!Fd
           dead == [Pipes!User EXCEPT !.pc = "dead"]
<1>1. /\ Pipes!Runs(t, "user") /\ UNCHANGED cpu
      /\ file' = Pipes!Closed(t, fds) /\ Pipes!iput(Pipes!Gone(t, fds))
      /\ filp' = [filp EXCEPT ![t] = [fd \in Pipes!Fd |-> 0]]
      /\ l' = [l EXCEPT ![t] = dead]
  BY DEF Pipes!do_exit
<1>2. fds \in SUBSET Pipes!Fd /\ fds = Pipes!Fd /\ dead \in Task_l
  BY PipeTask
<1> HIDE DEF fds, dead
<1>3. filp \in Descriptors /\ Tasks
  BY DEF PipeIInv, Tables
<1>4. filp' \in Descriptors /\ Closes(filp, filp', t, fds)
  BY <1>1, <1>2, <1>3 DEF Descriptors, Closes
<1>5. asleep' = asleep \/ asleep' = {}
  BY <1>1 DEF Pipes!iput, Pipes!Sleepers
<1>6. Tasks'
  BY <1>1, <1>2, <1>3, <1>5 DEF Tasks
<1>7. /\ \A u \in Task : l[u].pc \notin {"user", "dead"} => l'[u] = l[u]
      /\ \A u \in Task : l'[u].pc = "dead" => l[u].pc = "dead" \/ (u = t /\ fds = Pipes!Fd)
  BY <1>1, <1>2, <1>3 DEF Tasks, Pipes!Runs
<1>8. file' = Pipes!Closed(t, fds) /\ Pipes!iput(Pipes!Gone(t, fds))
  BY <1>1
<1> QED
  BY <1>1, <1>2, <1>4, <1>6, <1>7, <1>8, Closing

LEMMA PipeDup ==
  ASSUME PipeIInv, NEW t \in Task, Pipes!sys_dup(t), last' = <<>>
  PROVE  PipeIInv'
<1>1. PICK y \in Pipes!Fd :
         /\ filp[t][y] # 0
         /\ filp' = [filp EXCEPT ![t][Pipes!Least(Pipes!FreeFds(t))] = filp[t][y]]
         /\ file' = [file EXCEPT ![filp[t][y]].count = @ + 1]
  BY DEF Pipes!sys_dup, Pipes!FreeFds
<1>2. PICK x \in Pipes!Fd : x = Pipes!Least(Pipes!FreeFds(t)) /\ filp[t][x] = 0
  <2>1. Pipes!FreeFds(t) \subseteq Nat /\ Pipes!FreeFds(t) # {}
    BY PipeSets DEF Pipes!FreeFds, Pipes!sys_dup
  <2>2. Pipes!Least(Pipes!FreeFds(t)) \in Pipes!FreeFds(t)
    BY <2>1, LeastIs
  <2> QED
    BY <2>2 DEF Pipes!FreeFds
<1>3. Pipes!Runs(t, "user") /\ UNCHANGED <<pipe, page, l, asleep, cpu>>
  BY DEF Pipes!sys_dup
<1>4. /\ filp \in Descriptors /\ file \in Files /\ Exact(filp, file)
      /\ pipe.count = Cardinality(Opened(file)) /\ Ring /\ Tasks /\ Sleeping
  BY DEF PipeIInv, Tables
<1>5. PICK g \in Pipes!File : g = filp[t][y]
  BY <1>1, <1>4 DEF Descriptors
<1>6. filp' = [filp EXCEPT ![t][x] = g] /\ file' = [file EXCEPT ![g].count = @ + 1]
  BY <1>1, <1>2, <1>5
<1>7. file' \in Files /\ filp' \in Descriptors
  <2>1. filp' \in Descriptors
    BY <1>4, <1>6 DEF Descriptors
  <2>2. [file[g] EXCEPT !.count = @ + 1] \in [count : Nat, mode : 0 .. 2]
    BY <1>4 DEF Files
  <2>3. file' \in Files
    BY <1>4, <1>6, <2>2 DEF Files
  <2> QED
    BY <2>1, <2>3
<1>8. OneMore(file, file', g)
  BY <1>4, <1>6, <1>7 DEF OneMore, Files
<1>9. Opens(filp, filp', t, x, g)
  BY <1>2, <1>4, <1>6 DEF Opens, Descriptors
<1>10. filp[t][y] = g
  BY <1>5
<1>11. Exact(filp', file') /\ Opened(file') = Opened(file)
  BY <1>4, <1>8, <1>9, <1>10, DupFile
<1>12. \A u \in Task : l'[u].pc = "dead" => \A fd \in Pipes!Fd : filp'[u][fd] = 0
  <2>1. \A u \in Task : l[u].pc = "dead" => u # t
    BY <1>3 DEF Pipes!Runs
  <2> QED
    BY <1>3, <1>9, <2>1 DEF PipeIInv, Tables, Opens
<1>13. pipe'.count = Cardinality(Opened(file'))
  BY <1>3, <1>4, <1>11
<1>14. Tables'
  BY <1>7, <1>11, <1>12, <1>13 DEF Tables
<1>15. Ring' /\ Tasks'
  BY <1>3, <1>4 DEF Ring, Tasks
<1>16. Sleeping'
  BY <1>3, <1>4, SleepKept
<1> QED
  BY <1>14, <1>15, <1>16 DEF PipeIInv

LEMMA PipeDup2 ==
  ASSUME PipeIInv, NEW t \in Task, Pipes!sys_dup2(t), last' = <<>>
  PROVE  PipeIInv'
<1>1. PICK old \in Pipes!Fd, new \in Pipes!Fd :
         /\ filp[t][old] # 0
         /\ Pipes!iput(Pipes!Gone(t, {new}))
         /\ IF old = new
            THEN filp' = [filp EXCEPT ![t][new] = 0] /\ file' = Pipes!Closed(t, {new})
            ELSE /\ filp' = [filp EXCEPT ![t][new] = filp[t][old]]
                 /\ file' = [f \in Pipes!File |-> IF f = filp[t][old]
                               THEN [Pipes!Closed(t, {new})[f] EXCEPT !.count = @ + 1]
                               ELSE Pipes!Closed(t, {new})[f]]
  BY DEF Pipes!sys_dup2, Pipes!FreeFds, Pipes!NewClosed
<1>2. Pipes!Runs(t, "user") /\ UNCHANGED <<l, cpu>>
  BY DEF Pipes!sys_dup2
<1>3. /\ filp \in Descriptors /\ file \in Files /\ Exact(filp, file)
      /\ pipe.count = Cardinality(Opened(file)) /\ Ring /\ Tasks /\ Sleeping
  BY DEF PipeIInv, Tables
<1>4. asleep' = asleep \/ asleep' = {}
  BY <1>1 DEF Pipes!iput, Pipes!Sleepers
<1>5. Tasks'
  BY <1>2, <1>3, <1>4 DEF Tasks
<1>6. {new} \in SUBSET Pipes!Fd /\ Pipes!iput(Pipes!Gone(t, {new}))
  BY <1>1
<1>7. \A u \in Task : l'[u] = l[u]
  BY <1>2
<1> DEFINE shut == [filp EXCEPT ![t][new] = 0]
           C == Pipes!Closed(t, {new})
           n == Pipes!Gone(t, {new})
<1>8. shut \in Descriptors /\ Closes(filp, shut, t, {new})
  BY <1>3 DEF Descriptors, Closes
<1>9. CASE old = new
  <2>1. file' = C /\ filp' = shut
    BY <1>1, <1>9
  <2>2. filp' \in Descriptors /\ Closes(filp, filp', t, {new})
    BY <1>8, <2>1
  <2> QED
    BY <1>2, <1>5, <1>6, <1>7, <2>1, <2>2, Closing
<1>10. CASE old # new
  <2>1. PICK g \in Pipes!File : g = filp[t][old]
    BY <1>1, <1>3 DEF Descriptors
  <2>2. /\ filp' = [filp EXCEPT ![t][new] = g]
        /\ file' = [f \in Pipes!File |-> IF f = g THEN [C[f] EXCEPT !.count = @ + 1] ELSE C[f]]
    BY <1>1, <1>10, <2>1
  <2>3. filp' \in Descriptors
    BY <1>3, <2>2 DEF Descriptors
  <2>4. Opens(shut, filp', t, new, g) /\ shut[t][old] = g
    BY <1>3, <1>10, <2>1, <2>2 DEF Opens, Descriptors
  <2> HIDE DEF shut, C, n
  <2>5. /\ C \in Files /\ Exact(shut, C) /\ n \in Nat
        /\ n <= Cardinality(Opened(file))
        /\ Cardinality(Opened(C)) = Cardinality(Opened(file)) - n
    BY <1>3, <1>6, <1>8, CloseFiles DEF C, n
  <2>6. file' \in Files
    BY <2>2, <2>5 DEF Files
  <2>7. OneMore(C, file', g)
    BY <2>2, <2>5, <2>6 DEF OneMore, Files
  <2>8. Exact(filp', file') /\ Opened(file') = Opened(C)
    BY <2>4, <2>5, <2>7, DupFile
  <2>9. n <= pipe.count /\ Pipes!iput(n)
    BY <1>1, <1>3, <2>5 DEF n
  <2>10. /\ pipe' \in [count : 0 .. 2, head : Pipes!Offset, tail : Pipes!Offset]
         /\ pipe'.count = pipe.count - n
         /\ page' \in [Pipes!Offset -> Byte]
         /\ asleep' = {} \/ (asleep' = asleep /\ (asleep # {} => pipe' = pipe))
    BY <1>3, <2>5, <2>9, IputKeeps
  <2>11. pipe'.count = Cardinality(Opened(file'))
    BY <1>3, <2>5, <2>8, <2>10
  <2>12. \A u \in Task : l'[u].pc = "dead" => \A fd \in Pipes!Fd : filp'[u][fd] = 0
    <3>1. \A u \in Task : l[u].pc = "dead" => u # t
      BY <1>2 DEF Pipes!Runs
    <3>2. \A u \in Task : u # t => filp'[u] = filp[u]
      BY <1>8, <2>4 DEF Opens, Closes
    <3> QED
      BY <1>7, <3>1, <3>2 DEF PipeIInv, Tables
  <2>13. Tables'
    BY <2>3, <2>6, <2>8, <2>11, <2>12 DEF Tables
  <2>14. Ring'
    BY <2>10 DEF Ring
  <2>15. Sleeping'
    BY <1>2, <1>3, <1>7, <2>10, SleepKept
  <2> QED
    BY <1>5, <2>13, <2>14, <2>15 DEF PipeIInv
<1> QED
  BY <1>9, <1>10

LEMMA PipeFork ==
  ASSUME PipeIInv, NEW t \in Task, Pipes!sys_fork(t), last' = <<>>
  PROVE  PipeIInv'
<1>1. PICK child \in Task :
         /\ l[child].pc = "dead"
         /\ l' = [l EXCEPT ![child] = Pipes!User]
         /\ filp' = [filp EXCEPT ![child] = filp[t]]
         /\ file' = [f \in Pipes!File |-> [file[f] EXCEPT !.count = @ + Pipes!Uses(f, t, Pipes!Fd)]]
  BY DEF Pipes!sys_fork
<1>2. Pipes!Runs(t, "user") /\ UNCHANGED <<pipe, page, asleep, cpu>>
  BY DEF Pipes!sys_fork
<1>3. /\ filp \in Descriptors /\ file \in Files /\ Exact(filp, file)
      /\ pipe.count = Cardinality(Opened(file)) /\ Ring /\ Tasks /\ Sleeping
  BY DEF PipeIInv, Tables
<1>4. child # t /\ \A fd \in Pipes!Fd : filp[child][fd] = 0
  BY <1>1, <1>2 DEF PipeIInv, Tables, Pipes!Runs
<1>5. filp' \in Descriptors /\ filp'[child] = filp[t] /\ \A q \in Task : q # child => filp'[q] = filp[q]
  BY <1>1, <1>3 DEF Descriptors
<1>6. ASSUME NEW f \in Pipes!File
      PROVE  /\ file[f].count \in Nat
             /\ file'[f] \in [count : Nat, mode : 0 .. 2]
             /\ file'[f].count = Cardinality(Refs(filp', f))
             /\ file[f].count > 0 <=> file'[f].count > 0
  <2>1. Pipes!Uses(f, t, Pipes!Fd) = Cardinality(Row(filp, t, f))
    BY PipesCardinality DEF Pipes!Uses, Row
  <2>2. /\ Cardinality(Row(filp, child, f)) \in Nat /\ Cardinality(Row(filp', child, f)) \in Nat
        /\ Cardinality(Refs(filp', f)) = Cardinality(Refs(filp, f)) - Cardinality(Row(filp, child, f))
                                                                  + Cardinality(Row(filp', child, f))
    BY <1>5, RowChange
  <2>3. Row(filp', child, f) = Row(filp, t, f) /\ Row(filp, child, f) = {}
    BY <1>4, <1>5, PipeSets DEF Row
  <2>4. Cardinality(Row(filp, child, f)) = 0
    BY <2>3, FS_EmptySet
  <2>5. file[f].count = Cardinality(Refs(filp, f)) /\ file[f].count \in Nat
    BY <1>3 DEF Exact, Files
  <2>6. PICK k : k = Pipes!Uses(f, t, Pipes!Fd) /\ k = Cardinality(Row(filp', child, f))
    BY <2>1, <2>3
  <2>7. k \in Nat /\ Cardinality(Refs(filp', f)) = file[f].count + k
    BY <2>2, <2>4, <2>5, <2>6
  <2>8. file'[f] = [file[f] EXCEPT !.count = @ + k] /\ file[f] \in [count : Nat, mode : 0 .. 2]
    BY <1>1, <1>3, <2>6 DEF Files
  <2>9. file'[f] \in [count : Nat, mode : 0 .. 2] /\ file'[f].count = file[f].count + k
    BY <2>5, <2>7, <2>8
  <2>10. file[f].count = 0 => k = 0
    <3>1. file[f].count = 0 => \A fd \in Pipes!Fd : filp[t][fd] # f
      BY <2>5, RefsFinite
    <3>2. file[f].count = 0 => Row(filp, t, f) = {}
      BY <3>1 DEF Row
    <3> QED
      BY <2>1, <2>6, <3>2, FS_EmptySet
  <2> QED
    BY <2>5, <2>7, <2>9, <2>10
<1>7. file' \in Files
  <2>1. file' = [f \in Pipes!File |-> file'[f]]
    BY <1>1
  <2> QED
    BY <1>6, <2>1 DEF Files
<1>8. Exact(filp', file') /\ Opened(file') = Opened(file)
  BY <1>6 DEF Exact, Opened
<1>9. /\ \A u \in Task : l[u].pc \notin {"user", "dead"} => l'[u] = l[u]
      /\ \A u \in Task : l'[u].pc = "dead" => l[u].pc = "dead" /\ u # child
      /\ Tasks'
  BY <1>1, <1>2, <1>3, PipeTask DEF Tasks
<1>10. \A u \in Task : l'[u].pc = "dead" => \A fd \in Pipes!Fd : filp'[u][fd] = 0
  BY <1>5, <1>9 DEF PipeIInv, Tables
<1>11. pipe'.count = Cardinality(Opened(file'))
  BY <1>2, <1>3, <1>8
<1>12. Tables'
  BY <1>5, <1>7, <1>8, <1>10, <1>11 DEF Tables
<1>13. Ring'
  BY <1>2, <1>3 DEF Ring
<1>14. Sleeping'
  BY <1>2, <1>3, <1>9, SleepKept
<1> QED
  BY <1>9, <1>12, <1>13, <1>14 DEF PipeIInv

-----------------------------------------------------------------------------
(* The steps in the ring                                                   *)

LEMMA TablesKept ==
  ASSUME Tables, UNCHANGED <<filp, file>>, pipe'.count = pipe.count,
         \A u \in Task : l'[u].pc = "dead" => l[u].pc = "dead"
  PROVE  Tables'
BY DEF Tables

LEMMA RingSize ==
  ASSUME Ring
  PROVE  /\ Pipes!PIPE_SIZE \in 0 .. PAGE_SIZE - 1
         /\ Pipes!Room \in 0 .. PAGE_SIZE - 1
         /\ pipe.head \in 0 .. PAGE_SIZE - 1 /\ pipe.tail \in 0 .. PAGE_SIZE - 1
         /\ Pipes!PIPE_SIZE = IF pipe.head >= pipe.tail THEN pipe.head - pipe.tail
                              ELSE pipe.head - pipe.tail + PAGE_SIZE
<1>1. pipe.head \in 0 .. PAGE_SIZE - 1 /\ pipe.tail \in 0 .. PAGE_SIZE - 1
  BY DEF Ring, Pipes!Offset
<1>2. PAGE_SIZE \in Nat /\ PAGE_SIZE >= 2
  BY PipeNumbers
<1>3. /\ (pipe.head - pipe.tail) % PAGE_SIZE \in 0 .. PAGE_SIZE - 1
      /\ (pipe.head - pipe.tail) % PAGE_SIZE =
           IF pipe.head >= pipe.tail THEN pipe.head - pipe.tail ELSE pipe.head - pipe.tail + PAGE_SIZE
  BY <1>1, <1>2, SMT
<1> QED
  BY <1>1, <1>2, <1>3 DEF Pipes!PIPE_SIZE, Pipes!Room

(* How much a chunk is.                                                    *)
LEMMA Chunk ==
  ASSUME NEW at \in Pipes!Offset, NEW count \in 1 .. MaxCount, NEW limit \in 1 .. PAGE_SIZE - 1,
         NEW chars, chars = Pipes!Min(PAGE_SIZE - at, Pipes!Min(count, limit))
  PROVE  /\ chars \in 1 .. PAGE_SIZE - 1 /\ chars <= count /\ chars <= limit
         /\ at + chars <= PAGE_SIZE
         /\ (at + chars) % PAGE_SIZE \in Pipes!Offset
         /\ (at + chars) % PAGE_SIZE = IF at + chars = PAGE_SIZE THEN 0 ELSE at + chars
         /\ count - chars \in 0 .. MaxCount
<1>1. PAGE_SIZE \in Nat /\ PAGE_SIZE >= 2 /\ MaxCount \in Nat /\ at \in 0 .. PAGE_SIZE - 1
  BY PipeNumbers DEF Pipes!Offset
<1>2. chars \in 1 .. PAGE_SIZE - 1 /\ chars <= count /\ chars <= limit /\ at + chars <= PAGE_SIZE
  BY <1>1 DEF Pipes!Min
<1>3. (at + chars) % PAGE_SIZE \in 0 .. PAGE_SIZE - 1
  BY <1>1, <1>2, SMT
<1>4. (at + chars) % PAGE_SIZE = IF at + chars = PAGE_SIZE THEN 0 ELSE at + chars
  BY <1>1, <1>2, SMT
<1> QED
  BY <1>1, <1>2, <1>3, <1>4 DEF Pipes!Offset

LEMMA GoKeeps ==
  ASSUME Tasks, NEW t \in Task, NEW r \in Task_l, Pipes!Go(t, r)
  PROVE  /\ l' = [l EXCEPT ![t] = r] /\ l' \in [Task -> Task_l] /\ cpu' \in Task \cup {Nobody}
         /\ l'[t] = r /\ \A u \in Task : u # t => l'[u] = l[u]
         /\ r.pc # "user" => cpu' = t
BY DEF Tasks, Pipes!Go

LEMMA PipeUserCall ==
  ASSUME PipeIInv, NEW t \in Task, NEW mode, NEW pc, pc \in {"read", "write"},
         Pipes!Call(t, mode, pc), last' = <<>>
  PROVE  PipeIInv'
<1>1. PICK count \in 1 .. MaxCount : Pipes!Go(t, [Pipes!User EXCEPT !.pc = pc, !.count = count])
  BY DEF Pipes!Call
<1>2. Pipes!Runs(t, "user") /\ UNCHANGED <<filp, file, pipe, page, asleep>>
  BY DEF Pipes!Call
<1>3. Tables /\ Ring /\ Tasks /\ Sleeping
  BY DEF PipeIInv
<1> DEFINE r == [Pipes!User EXCEPT !.pc = pc, !.count = count]
<1>4. r \in Task_l /\ r.pc = pc
  <2>1. count \in 0 .. MaxCount /\ pc \in Pc
    BY PipeNumbers DEF Pc
  <2>2. Pipes!User \in Task_l
    BY PipeTask
  <2> QED
    BY <2>1, <2>2 DEF Task_l
<1>5. Pipes!Go(t, r)
  BY <1>1
<1> HIDE DEF r
<1>6. /\ l' \in [Task -> Task_l] /\ cpu' \in Task \cup {Nobody}
      /\ l'[t] = r /\ \A u \in Task : u # t => l'[u] = l[u]
  BY <1>3, <1>4, <1>5, GoKeeps
<1>7. Tasks'
  BY <1>2, <1>3, <1>6 DEF Tasks
<1>8. \A u \in Task : l'[u].pc = "dead" => l[u].pc = "dead"
  BY <1>4, <1>6
<1>9. Tables'
  BY <1>2, <1>3, <1>8, TablesKept
<1>10. Ring'
  BY <1>2, <1>3 DEF Ring
<1>11. \A u \in Task : l[u].pc \notin {"user", "dead"} => l'[u] = l[u]
  BY <1>2, <1>6 DEF Pipes!Runs
<1>12. Sleeping'
  BY <1>2, <1>3, <1>11, SleepKept
<1> QED
  BY <1>7, <1>9, <1>10, <1>12 DEF PipeIInv

(* The end of a call: everybody is woken up.                               *)
LEMMA PipeWoken ==
  ASSUME PipeIInv, NEW t \in Task, l[t].pc # "dead", asleep' = {}, Pipes!Go(t, Pipes!User),
         UNCHANGED <<filp, file, pipe, page>>, last' = <<>>
  PROVE  PipeIInv'
<1>1. Tables /\ Ring /\ Tasks
  BY DEF PipeIInv
<1>2. Pipes!User \in Task_l /\ Pipes!User.pc = "user"
  BY PipeTask
<1>3. /\ l' \in [Task -> Task_l] /\ cpu' \in Task \cup {Nobody}
      /\ l'[t] = Pipes!User /\ \A u \in Task : u # t => l'[u] = l[u]
  BY <1>1, <1>2, GoKeeps
<1>4. Tasks'
  BY <1>3 DEF Tasks
<1>5. \A u \in Task : l'[u].pc = "dead" => l[u].pc = "dead"
  BY <1>2, <1>3
<1>6. Tables'
  BY <1>1, <1>5, TablesKept
<1>7. Ring' /\ Sleeping'
  BY <1>1 DEF Ring, Sleeping
<1> QED
  BY <1>4, <1>6, <1>7 DEF PipeIInv

(* A task finds the ring empty, or full.                                   *)
LEMMA PipeWait ==
  ASSUME PipeIInv, NEW t \in Task, Pipes!Wait(t),
         \/ l[t].pc = "read" /\ Pipes!PIPE_SIZE = 0
         \/ l[t].pc = "write" /\ Pipes!Room = 0,
         UNCHANGED <<filp, file, pipe, page>>, last' = <<>>
  PROVE  PipeIInv'
<1>1. CASE pipe.count # 2
  <2>1. asleep' = {} /\ Pipes!Go(t, Pipes!User) /\ l[t].pc # "dead"
    BY <1>1 DEF Pipes!Wait
  <2> QED
    BY <2>1, PipeWoken
<1>2. CASE pipe.count = 2
  <2>1. asleep' = {t} /\ cpu' = Nobody /\ l' = l
    BY <1>2 DEF Pipes!Wait
  <2>2. Tables /\ Ring /\ Tasks
    BY DEF PipeIInv
  <2>3. Tables'
    BY <2>1, <2>2, TablesKept
  <2>4. Ring' /\ Tasks'
    BY <2>1, <2>2 DEF Ring, Tasks
  <2>5. Pipes!PIPE_SIZE' = Pipes!PIPE_SIZE /\ Pipes!Room' = Pipes!Room
    BY DEF Pipes!PIPE_SIZE, Pipes!Room
  <2>6. Sleeping'
    BY <1>2, <2>1, <2>5 DEF Sleeping
  <2> QED
    BY <2>3, <2>4, <2>6 DEF PipeIInv
<1> QED
  BY <1>1, <1>2

(* A task moves a pointer and starts to copy.                              *)
LEMMA PipeCopy ==
  ASSUME PipeIInv, NEW t \in Task, NEW pc, NEW at \in Pipes!Offset, NEW limit \in 1 .. PAGE_SIZE - 1,
         cpu \in {t, Nobody}, t \notin asleep, l[t].count # 0,
         Pipes!Copy(t, pc, at, limit),
         \/ /\ l[t].pc = "read" /\ pc = "copy_out" /\ at = pipe.tail /\ limit = Pipes!PIPE_SIZE
            /\ pipe' = [pipe EXCEPT !.tail = (@ + l'[t].chars) % PAGE_SIZE]
         \/ /\ l[t].pc = "write" /\ pc = "copy_in" /\ at = pipe.head /\ limit = Pipes!Room
            /\ pipe' = [pipe EXCEPT !.head = (@ + l'[t].chars) % PAGE_SIZE],
         UNCHANGED <<filp, file, page>>, last' = <<>>
  PROVE  PipeIInv'
<1> DEFINE chars == Pipes!Min(PAGE_SIZE - at, Pipes!Min(l[t].count, limit))
           r == [pc |-> pc, count |-> l[t].count - chars, chars |-> chars, at |-> at]
<1>1. Tables /\ Ring /\ Tasks /\ Sleeping
  BY DEF PipeIInv
<1>2. l' = [l EXCEPT ![t] = r] /\ cpu' \in {t, Nobody} /\ asleep' = asleep
  BY DEF Pipes!Copy
<1>3. l[t].count \in 1 .. MaxCount
  BY <1>1 DEF Tasks, Task_l
<1>4. chars = Pipes!Min(PAGE_SIZE - at, Pipes!Min(l[t].count, limit))
  OBVIOUS
<1> HIDE DEF chars
<1>5. /\ chars \in 1 .. PAGE_SIZE - 1 /\ l[t].count - chars \in 0 .. MaxCount
      /\ (at + chars) % PAGE_SIZE \in Pipes!Offset
  BY <1>3, <1>4, Chunk
<1>6. r \in Task_l /\ r.pc = pc /\ r.chars = chars
  BY <1>5 DEF Task_l, Pc
<1> HIDE DEF r
<1>7. l' \in [Task -> Task_l] /\ l'[t] = r /\ \A u \in Task : u # t => l'[u] = l[u]
  BY <1>1, <1>2, <1>6 DEF Tasks
<1>8. Tasks'
  BY <1>1, <1>2, <1>7 DEF Tasks
<1>9. pipe' \in [count : 0 .. 2, head : Pipes!Offset, tail : Pipes!Offset] /\ pipe'.count = pipe.count
  BY <1>1, <1>5, <1>6, <1>7 DEF Ring
<1>10. Ring'
  BY <1>1, <1>9 DEF Ring
<1>11. \A u \in Task : l'[u].pc = "dead" => l[u].pc = "dead"
  BY <1>6, <1>7
<1>12. Tables'
  BY <1>1, <1>9, <1>11, TablesKept
<1>13. /\ \A u \in asleep : u \in Task /\ u # t /\ l'[u] = l[u]
       /\ \A u \in asleep' : l'[u].pc \in {"read", "write"} /\ l'[u] = l[u] /\ u \in asleep
       /\ asleep' # {} => pipe'.count = 2
  BY <1>1, <1>2, <1>7, <1>9 DEF Sleeping, Tasks
<1>14. \A u \in Task : cpu = u => u = t
  BY PipeNumbers
<1>15. CASE l[t].pc = "read" /\ pc = "copy_out" /\ Pipes!PIPE_SIZE # 0
  <2>1. Awakes("copy_in", "write") => Awakes("copy_in", "write")'
    BY <1>7, <1>14, <1>15 DEF Awakes
  <2>2. Awakes("copy_out", "read")'
    BY <1>6, <1>7, <1>15 DEF Awakes
  <2>3. \A u \in asleep : l[u].pc = "read" => Awakes("copy_in", "write")
    BY <1>1, <1>15 DEF Sleeping
  <2>4. \A u \in asleep' : l'[u].pc = "read" => Awakes("copy_in", "write")'
    BY <1>13, <2>1, <2>3
  <2> QED
    BY <1>8, <1>10, <1>12, <1>13, <2>2, <2>4 DEF PipeIInv, Sleeping
<1>16. CASE l[t].pc = "write" /\ pc = "copy_in" /\ Pipes!Room # 0
  <2>1. Awakes("copy_out", "read") => Awakes("copy_out", "read")'
    BY <1>7, <1>14, <1>16 DEF Awakes
  <2>2. Awakes("copy_in", "write")'
    BY <1>6, <1>7, <1>16 DEF Awakes
  <2>3. \A u \in asleep : l[u].pc = "write" => Awakes("copy_out", "read")
    BY <1>1, <1>16 DEF Sleeping
  <2>4. \A u \in asleep' : l'[u].pc = "write" => Awakes("copy_out", "read")'
    BY <1>13, <2>1, <2>3
  <2> QED
    BY <1>8, <1>10, <1>12, <1>13, <2>2, <2>4 DEF PipeIInv, Sleeping
<1> QED
  BY <1>15, <1>16

LEMMA PipeRead ==
  ASSUME PipeIInv, NEW t \in Task, Pipes!read_pipe(t), last' = <<>>
  PROVE  PipeIInv'
<1>1. l[t].pc = "read" /\ t \notin asleep /\ cpu \in {t, Nobody} /\ UNCHANGED <<filp, file, page>>
  BY DEF Pipes!read_pipe, Pipes!Runs
<1>2. pipe.tail \in Pipes!Offset /\ Pipes!PIPE_SIZE \in 0 .. PAGE_SIZE - 1
  BY RingSize DEF PipeIInv, Ring
<1>3. CASE l[t].count = 0
  <2>1. asleep' = {} /\ Pipes!Go(t, Pipes!User) /\ UNCHANGED pipe
    BY <1>3 DEF Pipes!read_pipe, Pipes!Finish
  <2> QED
    BY <1>1, <2>1, PipeWoken
<1>4. CASE l[t].count # 0 /\ Pipes!PIPE_SIZE = 0
  <2>1. Pipes!Wait(t) /\ UNCHANGED pipe
    BY <1>4 DEF Pipes!read_pipe
  <2> QED
    BY <1>1, <1>4, <2>1, PipeWait
<1>5. CASE l[t].count # 0 /\ Pipes!PIPE_SIZE # 0
  <2>1. /\ Pipes!Copy(t, "copy_out", pipe.tail, Pipes!PIPE_SIZE)
        /\ pipe' = [pipe EXCEPT !.tail = (@ + l'[t].chars) % PAGE_SIZE]
    BY <1>5 DEF Pipes!read_pipe
  <2>2. Pipes!PIPE_SIZE \in 1 .. PAGE_SIZE - 1
    BY <1>2, <1>5
  <2> QED
    BY <1>1, <1>2, <1>5, <2>1, <2>2, PipeCopy
<1> QED
  BY <1>3, <1>4, <1>5

LEMMA PipeWrite ==
  ASSUME PipeIInv, NEW t \in Task, Pipes!write_pipe(t), last' = <<>>
  PROVE  PipeIInv'
<1>1. l[t].pc = "write" /\ t \notin asleep /\ cpu \in {t, Nobody} /\ UNCHANGED <<filp, file, page>>
  BY DEF Pipes!write_pipe, Pipes!Runs
<1>2. pipe.head \in Pipes!Offset /\ Pipes!Room \in 0 .. PAGE_SIZE - 1
  BY RingSize DEF PipeIInv, Ring
<1>3. CASE l[t].count = 0
  <2>1. asleep' = {} /\ Pipes!Go(t, Pipes!User) /\ UNCHANGED pipe
    BY <1>3 DEF Pipes!write_pipe, Pipes!Finish
  <2> QED
    BY <1>1, <2>1, PipeWoken
<1>4. CASE l[t].count # 0 /\ Pipes!Room = 0
  <2>1. Pipes!Wait(t) /\ UNCHANGED pipe
    BY <1>4 DEF Pipes!write_pipe
  <2> QED
    BY <1>1, <1>4, <2>1, PipeWait
<1>5. CASE l[t].count # 0 /\ Pipes!Room # 0
  <2>1. /\ Pipes!Copy(t, "copy_in", pipe.head, Pipes!Room)
        /\ pipe' = [pipe EXCEPT !.head = (@ + l'[t].chars) % PAGE_SIZE]
    BY <1>5 DEF Pipes!write_pipe
  <2>2. Pipes!Room \in 1 .. PAGE_SIZE - 1
    BY <1>2, <1>5
  <2> QED
    BY <1>1, <1>2, <1>5, <2>1, <2>2, PipeCopy
<1> QED
  BY <1>3, <1>4, <1>5

(* A task has copied: it goes on and keeps the processor.                  *)
LEMMA PipeCopied ==
  ASSUME PipeIInv, NEW t \in Task, cpu \in {t, Nobody}, t \notin asleep,
         NEW pc,
         Pipes!Go(t, [l[t] EXCEPT !.pc = pc, !.chars = 0, !.at = 0]),
         \/ l[t].pc = "copy_out" /\ pc = "read"
         \/ l[t].pc = "copy_in" /\ pc = "write",
         UNCHANGED <<filp, file, pipe, asleep>>,
         page' \in [Pipes!Offset -> Byte], last' \in Seq(Byte)
  PROVE  PipeIInv'
<1> DEFINE r == [l[t] EXCEPT !.pc = pc, !.chars = 0, !.at = 0]
<1>1. Tables /\ Ring /\ Tasks /\ Sleeping
  BY DEF PipeIInv
<1>2. r \in Task_l /\ r.pc = pc
  <2>1. 0 \in 0 .. PAGE_SIZE - 1 /\ 0 \in Pipes!Offset /\ pc \in Pc
    BY PipeNumbers DEF Pipes!Offset, Pc
  <2>2. l[t] \in Task_l
    BY <1>1 DEF Tasks
  <2> QED
    BY <2>1, <2>2 DEF Task_l
<1>3. Pipes!Go(t, r)
  OBVIOUS
<1> HIDE DEF r
<1>4. /\ l' \in [Task -> Task_l] /\ l'[t] = r /\ \A u \in Task : u # t => l'[u] = l[u]
      /\ cpu' = t
  <2>1. r.pc # "user"
    BY <1>2
  <2> QED
    BY <1>1, <1>2, <1>3, <2>1, GoKeeps
<1>5. Tasks'
  BY <1>1, <1>4 DEF Tasks
<1>6. Tables'
  <2>1. \A u \in Task : l'[u].pc = "dead" => l[u].pc = "dead"
    BY <1>2, <1>4
  <2> QED
    BY <1>1, <2>1, TablesKept
<1>7. Ring'
  BY <1>1 DEF Ring
<1>8. \A u \in Task : cpu = u => u = t
  BY PipeNumbers
<1>9. Awakes("copy_in", "write") => Awakes("copy_in", "write")'
  BY <1>2, <1>4, <1>8 DEF Awakes
<1>10. Awakes("copy_out", "read") => Awakes("copy_out", "read")'
  BY <1>2, <1>4, <1>8 DEF Awakes
<1>11. Pipes!PIPE_SIZE' = Pipes!PIPE_SIZE /\ Pipes!Room' = Pipes!Room
  BY DEF Pipes!PIPE_SIZE, Pipes!Room
<1>12. \A u \in asleep : l'[u] = l[u]
  BY <1>1, <1>4 DEF Tasks
<1>13. Sleeping'
  BY <1>1, <1>9, <1>10, <1>11, <1>12 DEF Sleeping
<1> QED
  BY <1>5, <1>6, <1>7, <1>13 DEF PipeIInv

LEMMA PipePut ==
  ASSUME PipeIInv, NEW t \in Task, Pipes!put_fs_byte(t),
         \A u \in Task : l[u].pc = "copy_out" => l[u].at + l[u].chars <= PAGE_SIZE
  PROVE  PipeIInv'
<1>1. /\ l[t].pc = "copy_out" /\ t \notin asleep /\ cpu \in {t, Nobody}
      /\ UNCHANGED <<filp, file, pipe, page, asleep>>
      /\ Pipes!Go(t, [l[t] EXCEPT !.pc = "read", !.chars = 0, !.at = 0])
      /\ last' = [i \in 1 .. l[t].chars |-> page[l[t].at + i - 1]]
  BY DEF Pipes!put_fs_byte, Pipes!Runs
<1>2. /\ l[t].chars \in Nat /\ l[t].at \in Nat /\ l[t].at + l[t].chars <= PAGE_SIZE
      /\ page \in [Pipes!Offset -> Byte]
  BY <1>1, PipeNumbers DEF PipeIInv, Tasks, Task_l, Ring, Pipes!Offset
<1>3. \A i \in 1 .. l[t].chars : page[l[t].at + i - 1] \in Byte
  <2> TAKE i \in 1 .. l[t].chars
  <2>1. l[t].at + i - 1 \in Pipes!Offset
    BY <1>2, PipeNumbers DEF Pipes!Offset
  <2> QED
    BY <1>2, <2>1
<1>4. last' \in Seq(Byte)
  <2>1. last' \in [1 .. l[t].chars -> Byte]
    BY <1>1, <1>3
  <2>2. \A n \in Nat : \A s \in [1 .. n -> Byte] : s \in Seq(Byte)
    OBVIOUS
  <2> QED
    BY <1>2, <2>1, <2>2
<1>5. page' \in [Pipes!Offset -> Byte]
  BY <1>1, <1>2
<1> QED
  BY <1>1, <1>4, <1>5, PipeCopied

LEMMA PipeGet ==
  ASSUME PipeIInv, NEW t \in Task, Pipes!get_fs_byte(t), last' = <<>>
  PROVE  PipeIInv'
<1>1. /\ l[t].pc = "copy_in" /\ t \notin asleep /\ cpu \in {t, Nobody}
      /\ UNCHANGED <<filp, file, pipe, asleep>>
      /\ Pipes!Go(t, [l[t] EXCEPT !.pc = "write", !.chars = 0, !.at = 0])
  BY DEF Pipes!get_fs_byte, Pipes!Runs
<1>2. PICK bytes \in [1 .. l[t].chars -> Byte] :
         page' = [o \in Pipes!Offset |-> IF o - l[t].at + 1 \in 1 .. l[t].chars
                                         THEN bytes[o - l[t].at + 1] ELSE page[o]]
  BY DEF Pipes!get_fs_byte
<1>3. page' \in [Pipes!Offset -> Byte]
  BY <1>2 DEF PipeIInv, Ring
<1>4. last' \in Seq(Byte)
  OBVIOUS
<1> QED
  BY <1>1, <1>3, <1>4, PipeCopied

(* A chunk does not go beyond the end of the page.                         *)
Chunks == \A u \in Task : l[u].pc \in {"copy_out", "copy_in"} => l[u].at + l[u].chars <= PAGE_SIZE

LEMMA ChunksOther ==
  ASSUME Chunks, Tasks, NEW t \in Task, NEW r,
         l' = [l EXCEPT ![t] = r] \/ l' = l, r.pc \notin {"copy_out", "copy_in"}
  PROVE  Chunks'
BY DEF Chunks, Tasks

LEMMA ChunksCopy ==
  ASSUME Chunks, Tasks, NEW t \in Task, NEW pc, NEW at \in Pipes!Offset, NEW limit \in 1 .. PAGE_SIZE - 1,
         l[t].count # 0, Pipes!Copy(t, pc, at, limit)
  PROVE  Chunks'
<1> DEFINE chars == Pipes!Min(PAGE_SIZE - at, Pipes!Min(l[t].count, limit))
           r == [pc |-> pc, count |-> l[t].count - chars, chars |-> chars, at |-> at]
<1>1. l' = [l EXCEPT ![t] = r]
  BY DEF Pipes!Copy
<1>2. l[t].count \in 1 .. MaxCount
  BY DEF Tasks, Task_l
<1>3. chars = Pipes!Min(PAGE_SIZE - at, Pipes!Min(l[t].count, limit))
  OBVIOUS
<1> HIDE DEF chars
<1>4. at + chars <= PAGE_SIZE
  BY <1>2, <1>3, Chunk
<1>5. r.at = at /\ r.chars = chars
  OBVIOUS
<1> HIDE DEF r
<1> QED
  BY <1>1, <1>4, <1>5 DEF Chunks, Tasks

LEMMA ChunksKept ==
  ASSUME PipeIInv, Chunks, NEW t \in Task, Pipes!Step(t)
  PROVE  Chunks'
<1>1. Tasks /\ Ring
  BY DEF PipeIInv
<1>2. ASSUME NEW r, r.pc \notin {"copy_out", "copy_in"}, Pipes!Go(t, r)
      PROVE  Chunks'
  BY <1>1, <1>2, ChunksOther DEF Pipes!Go
<1>3. ASSUME l' = l PROVE Chunks'
  BY <1>3 DEF Chunks
<1>4. Pipes!User.pc \notin {"copy_out", "copy_in"}
  BY PipeTask
<1>5. CASE Pipes!put_fs_byte(t)
  <2>1. Pipes!Go(t, [l[t] EXCEPT !.pc = "read", !.chars = 0, !.at = 0])
    BY <1>5 DEF Pipes!put_fs_byte
  <2>2. [l[t] EXCEPT !.pc = "read", !.chars = 0, !.at = 0].pc = "read"
    BY <1>1 DEF Tasks, Task_l
  <2> QED
    BY <1>2, <2>1, <2>2
<1>6. CASE Pipes!get_fs_byte(t)
  <2>1. Pipes!Go(t, [l[t] EXCEPT !.pc = "write", !.chars = 0, !.at = 0])
    BY <1>6 DEF Pipes!get_fs_byte
  <2>2. [l[t] EXCEPT !.pc = "write", !.chars = 0, !.at = 0].pc = "write"
    BY <1>1 DEF Tasks, Task_l
  <2> QED
    BY <1>2, <2>1, <2>2
<1>7. CASE Pipes!sys_pipe(t) \/ Pipes!sys_close(t) \/ Pipes!sys_dup(t) \/ Pipes!sys_dup2(t)
  BY <1>3, <1>7 DEF Pipes!sys_pipe, Pipes!sys_close, Pipes!sys_dup, Pipes!sys_dup2
<1>8. CASE Pipes!sys_fork(t)
  <2>1. PICK child \in Task : l' = [l EXCEPT ![child] = Pipes!User]
    BY <1>8 DEF Pipes!sys_fork
  <2> QED
    BY <1>1, <1>4, <2>1, ChunksOther
<1>9. CASE Pipes!do_exit(t)
  <2>1. l' = [l EXCEPT ![t] = [Pipes!User EXCEPT !.pc = "dead"]]
    BY <1>9 DEF Pipes!do_exit
  <2>2. [Pipes!User EXCEPT !.pc = "dead"].pc = "dead"
    BY PipeTask
  <2> QED
    BY <1>1, <2>1, <2>2, ChunksOther
<1>10. ASSUME NEW mode, NEW pc, pc \in {"read", "write"}, Pipes!Call(t, mode, pc)
       PROVE  Chunks'
  <2>1. PICK count \in 1 .. MaxCount : Pipes!Go(t, [Pipes!User EXCEPT !.pc = pc, !.count = count])
    BY <1>10 DEF Pipes!Call
  <2>2. [Pipes!User EXCEPT !.pc = pc, !.count = count].pc = pc
    BY DEF Pipes!User
  <2> QED
    BY <1>2, <1>10, <2>1, <2>2
<1>11. Pipes!Wait(t) \/ Pipes!Finish(t) => Chunks'
  <2>1. CASE Pipes!Go(t, Pipes!User)
    BY <1>2, <1>4, <2>1
  <2> QED
    BY <1>3, <2>1 DEF Pipes!Wait, Pipes!Finish
<1>12. CASE Pipes!read_pipe(t)
  <2>1. pipe.tail \in Pipes!Offset /\ Pipes!PIPE_SIZE \in 0 .. PAGE_SIZE - 1
    BY <1>1, RingSize DEF Ring
  <2>2. CASE l[t].count # 0 /\ Pipes!PIPE_SIZE # 0
    <3>1. Pipes!Copy(t, "copy_out", pipe.tail, Pipes!PIPE_SIZE)
      BY <1>12, <2>2 DEF Pipes!read_pipe
    <3>2. Pipes!PIPE_SIZE \in 1 .. PAGE_SIZE - 1
      BY <2>1, <2>2
    <3> QED
      BY <1>1, <2>1, <2>2, <3>1, <3>2, ChunksCopy
  <2>3. CASE ~(l[t].count # 0 /\ Pipes!PIPE_SIZE # 0)
    BY <1>11, <1>12, <2>3 DEF Pipes!read_pipe
  <2> QED
    BY <2>2, <2>3
<1>13. CASE Pipes!write_pipe(t)
  <2>1. pipe.head \in Pipes!Offset /\ Pipes!Room \in 0 .. PAGE_SIZE - 1
    BY <1>1, RingSize DEF Ring
  <2>2. CASE l[t].count # 0 /\ Pipes!Room # 0
    <3>1. Pipes!Copy(t, "copy_in", pipe.head, Pipes!Room)
      BY <1>13, <2>2 DEF Pipes!write_pipe
    <3>2. Pipes!Room \in 1 .. PAGE_SIZE - 1
      BY <2>1, <2>2
    <3> QED
      BY <1>1, <2>1, <2>2, <3>1, <3>2, ChunksCopy
  <2>3. CASE ~(l[t].count # 0 /\ Pipes!Room # 0)
    BY <1>11, <1>13, <2>3 DEF Pipes!write_pipe
  <2> QED
    BY <2>2, <2>3
<1>14. CASE Pipes!sys_read(t) \/ Pipes!sys_write(t)
  BY <1>10, <1>14 DEF Pipes!sys_read, Pipes!sys_write
<1> QED
  BY <1>5, <1>6, <1>7, <1>8, <1>9, <1>12, <1>13, <1>14 DEF Pipes!Step

LEMMA PipeStepKeeps ==
  ASSUME PipeIInv, Chunks, NEW t \in Task, Pipes!Step(t)
  PROVE  PipeIInv'
<1>1. CASE Pipes!put_fs_byte(t)
  <2>1. \A u \in Task : l[u].pc = "copy_out" => l[u].at + l[u].chars <= PAGE_SIZE
    BY DEF Chunks
  <2> QED
    BY <1>1, <2>1, PipePut
<1>2. CASE Pipes!sys_pipe(t) /\ last' = <<>>
  BY <1>2, PipeCall
<1>3. CASE Pipes!sys_close(t) /\ last' = <<>>
  BY <1>3, PipeClose
<1>4. CASE Pipes!sys_dup(t) /\ last' = <<>>
  BY <1>4, PipeDup
<1>5. CASE Pipes!sys_dup2(t) /\ last' = <<>>
  BY <1>5, PipeDup2
<1>6. CASE Pipes!sys_fork(t) /\ last' = <<>>
  BY <1>6, PipeFork
<1>7. CASE Pipes!do_exit(t) /\ last' = <<>>
  BY <1>7, PipeExit
<1>8. CASE (Pipes!sys_read(t) \/ Pipes!sys_write(t)) /\ last' = <<>>
  BY <1>8, PipeUserCall DEF Pipes!sys_read, Pipes!sys_write
<1>9. CASE Pipes!read_pipe(t) /\ last' = <<>>
  BY <1>9, PipeRead
<1>10. CASE Pipes!write_pipe(t) /\ last' = <<>>
  BY <1>10, PipeWrite
<1>11. CASE Pipes!get_fs_byte(t) /\ last' = <<>>
  BY <1>11, PipeGet
<1> QED
  BY <1>1, <1>2, <1>3, <1>4, <1>5, <1>6, <1>7, <1>8, <1>9, <1>10, <1>11 DEF Pipes!Step

LEMMA PipeKept ==
  PipeIInv /\ Chunks /\ [Next]_vars => (PipeIInv /\ Chunks)'
<1> SUFFICES ASSUME PipeIInv, Chunks, [Next]_vars PROVE (PipeIInv /\ Chunks)'
  OBVIOUS
<1>1. CASE PipeStep
  <2>1. PICK t \in Task : Pipes!Step(t)
    BY <1>1 DEF PipeStep, Pipes!Next
  <2> QED
    BY <2>1, PipeStepKeeps, ChunksKept
<1>2. CASE UNCHANGED pipeVars
  BY <1>2 DEF pipeVars, PipeIInv, Chunks, Tables, Ring, Tasks, Sleeping, Awakes,
              Pipes!PIPE_SIZE, Pipes!Room
<1> QED
  BY <1>1, <1>2 DEF Next, FloppyStep, ConsoleStep, TerminalStep, SuperStep, vars

LEMMA PipeInvariant == Spec => [](PipeIInv /\ Chunks)
<1>1. Init => PipeIInv /\ Chunks
  <2>1. Init => PipeIInv
    BY PipeInit DEF Init
  <2>2. Init => Chunks
    <3>1. \A t \in Task : Init => l[t].pc \in {"user", "dead"}
      BY PipeTask DEF Init, Pipes!Init
    <3> QED
      BY <3>1 DEF Chunks
  <2> QED
    BY <2>1, <2>2
<1> QED
  BY <1>1, PipeKept, PTL DEF Spec

LEMMA PipeIsTyped == PipeIInv => Pipes!TypeOK
<1> SUFFICES ASSUME PipeIInv PROVE Pipes!TypeOK
  OBVIOUS
<1>1. Tables /\ Ring /\ Tasks
  BY DEF PipeIInv
<1>2. file \in [Pipes!File -> [count : 0 .. Pipes!Cardinality(Task) * NOpen, mode : 0 .. 2]]
  <2>1. \A f \in Pipes!File : /\ file[f].count = Cardinality(Refs(filp, f))
                              /\ Cardinality(Refs(filp, f)) \in Nat
                              /\ Cardinality(Refs(filp, f)) <= Cardinality(Task) * NOpen
    BY <1>1, RefsFinite DEF Tables, Exact
  <2>2. PICK n \in Nat : n = Cardinality(Task) * NOpen
    BY PipeSets, PipeNumbers
  <2>3. \A f \in Pipes!File : file[f] \in [count : 0 .. n, mode : 0 .. 2]
    BY <1>1, <2>1, <2>2 DEF Tables, Files
  <2>4. file \in [Pipes!File -> [count : 0 .. n, mode : 0 .. 2]]
    BY <1>1, <2>3 DEF Tables, Files
  <2> QED
    BY <2>2, <2>4, PipesCardinality
<1> QED
  BY <1>1, <1>2 DEF Tables, Ring, Tasks, Descriptors, Task_l, Pc, Pipes!TypeOK

(* Through pipe(), close(), dup(), dup2(), fork() and exit() of any number *)
(* of tasks, f_count is the number of descriptors and i_count that of open *)
(* ends, and nobody sleeps in read_pipe() or write_pipe() who could go on, *)
(* even if the copies to and from user memory may sleep.                   *)
THEOREM PipeCountsExact == Spec => []PipeExact
<1>1. PipeIInv => PipeExact
  <2> SUFFICES ASSUME PipeIInv PROVE Pipes!FilesExact /\ Pipes!SleepersWait
    BY DEF PipeExact
  <2>1. Tables /\ Sleeping
    BY DEF PipeIInv
  <2>2. Pipes!FilesExact
    BY <2>1, PipesCardinality DEF Tables, Exact, Refs, Opened, Pipes!FilesExact
  <2>3. Pipes!SleepersWait
    <3> SUFFICES ASSUME cpu = Nobody, Pipes!Copying("copy_in") \cup Pipes!Copying("copy_out") = {}
                 PROVE  \A t \in asleep : /\ pipe.count = 2
                                          /\ l[t].pc = "read" => Pipes!PIPE_SIZE = 0
                                          /\ l[t].pc = "write" => Pipes!Room = 0
      BY DEF Pipes!SleepersWait
    <3>1. ~Awakes("copy_in", "write") /\ ~Awakes("copy_out", "read")
      BY PipeNumbers DEF Awakes, Pipes!Copying
    <3> QED
      BY <2>1, <3>1 DEF Sleeping
  <2> QED
    BY <2>2, <2>3
<1> QED
  BY <1>1, PipeInvariant, PTL

-----------------------------------------------------------------------------
(* A pipe is a queue of bytes                                              *)

Queue == [i \in 1 .. (Pipes!EndByte - Pipes!FirstByte) % PAGE_SIZE |->
            page[(Pipes!FirstByte + i - 1) % PAGE_SIZE]]

LEMMA StreamIs ==
  /\ Pipes!Stream!vars = <<pipe.count > 0, Queue, last>>
  /\ Pipes!Stream!vars' = <<(pipe.count > 0)', Queue', last'>>
BY DEF Pipes!Stream!vars, Queue

LEMMA StreamInit ==
  Pipes!Stream!Init <=> (pipe.count > 0) = FALSE /\ Queue = <<>> /\ last = <<>>
BY DEF Pipes!Stream!Init, Queue

LEMMA StreamPut ==
  ASSUME NEW n \in 1 .. PAGE_SIZE - 1 - Len(Queue), NEW bytes \in [1 .. n -> Byte],
         Queue' = Queue \o bytes, last' = <<>>, (pipe.count > 0)' = (pipe.count > 0)
  PROVE  Pipes!Stream!Next
BY DEF Pipes!Stream!Next, Pipes!Stream!Put, Queue

LEMMA StreamGet ==
  ASSUME NEW n \in 1 .. Len(Queue),
         last' = SubSeq(Queue, 1, n), Queue' = SubSeq(Queue, n + 1, Len(Queue)),
         (pipe.count > 0)' = (pipe.count > 0)
  PROVE  Pipes!Stream!Next
BY DEF Pipes!Stream!Next, Pipes!Stream!Get, Queue

LEMMA StreamRest ==
  ASSUME Queue' = Queue, last' = <<>>, (pipe.count > 0)' = (pipe.count > 0)
  PROVE  Pipes!Stream!Next
BY DEF Pipes!Stream!Next, Pipes!Stream!Rest, Queue

LEMMA StreamOpen ==
  ASSUME Queue' = Queue, last' = <<>>, ~(pipe.count > 0), (pipe.count > 0)'
  PROVE  Pipes!Stream!Next
BY DEF Pipes!Stream!Next, Pipes!Stream!Open, Queue

LEMMA StreamClose ==
  ASSUME Queue' = <<>>, last' = <<>>, pipe.count > 0, ~(pipe.count > 0)'
  PROVE  Pipes!Stream!Next
BY DEF Pipes!Stream!Next, Pipes!Stream!Close, Queue

Copies == {"copy_out", "copy_in"}
Wrap(x) == IF x >= PAGE_SIZE THEN x - PAGE_SIZE ELSE x
Distance(a, b) == IF b >= a THEN b - a ELSE b - a + PAGE_SIZE

(* The inductive invariant of the ring, when no copy sleeps: who copies    *)
(* has the processor, and the pointer has moved past a chunk that is in    *)
(* the ring, or in its free part.                                          *)
Holding(u) == l[u].pc \notin {"dead", "user"} => \E fd \in Pipes!Fd : filp[u][fd] # 0
CopyingOut(u) ==
  /\ l[u].chars \in 1 .. Distance(l[u].at, pipe.head) /\ l[u].at + l[u].chars <= PAGE_SIZE
  /\ pipe.tail = Wrap(l[u].at + l[u].chars)
CopyingIn(u) ==
  /\ l[u].chars \in 1 .. PAGE_SIZE - 1 - Distance(pipe.tail, l[u].at) /\ l[u].at + l[u].chars <= PAGE_SIZE
  /\ pipe.head = Wrap(l[u].at + l[u].chars)
Transfer(u) ==
  /\ l[u].pc \in Copies => cpu = u
  /\ l[u].pc = "copy_out" => CopyingOut(u)
  /\ l[u].pc = "copy_in" => CopyingIn(u)
FifoIInv ==
  /\ \A u \in Task : Holding(u)
  /\ \A u \in Task : Transfer(u)
  /\ pipe.count = 0 => pipe.head = 0 /\ pipe.tail = 0

Quiet == \A u \in Task : l[u].pc \notin Copies

LEMMA Remainders ==
  /\ \A a, b \in 0 .. PAGE_SIZE - 1 : /\ (b - a) % PAGE_SIZE = Distance(a, b)
                                      /\ Distance(a, b) \in 0 .. PAGE_SIZE - 1
  /\ \A a \in 0 .. PAGE_SIZE - 1, c \in 0 .. PAGE_SIZE : /\ (a + c) % PAGE_SIZE = Wrap(a + c)
                                                         /\ Wrap(a + c) \in 0 .. PAGE_SIZE - 1
<1>1. PAGE_SIZE \in Nat /\ PAGE_SIZE >= 2
  BY PipeNumbers
<1>2. ASSUME NEW a \in 0 .. PAGE_SIZE - 1, NEW b \in 0 .. PAGE_SIZE - 1
      PROVE  (b - a) % PAGE_SIZE = Distance(a, b) /\ Distance(a, b) \in 0 .. PAGE_SIZE - 1
  <2>1. (b - a) % PAGE_SIZE = IF b >= a THEN b - a ELSE b - a + PAGE_SIZE
    BY <1>1, SMT
  <2> QED
    BY <1>1, <2>1 DEF Distance
<1>3. ASSUME NEW a \in 0 .. PAGE_SIZE - 1, NEW c \in 0 .. PAGE_SIZE
      PROVE  (a + c) % PAGE_SIZE = Wrap(a + c) /\ Wrap(a + c) \in 0 .. PAGE_SIZE - 1
  <2>1. (a + c) % PAGE_SIZE = IF a + c >= PAGE_SIZE THEN a + c - PAGE_SIZE ELSE a + c
    BY <1>1, SMT
  <2> QED
    BY <1>1, <2>1 DEF Wrap
<1> QED
  BY <1>2, <1>3

(* The queue from a to b.                                                  *)
Bytes(p, a, b) == [i \in 1 .. Distance(a, b) |-> p[Wrap(a + i - 1)]]

LEMMA QueueIs ==
  ASSUME Pipes!FirstByte \in 0 .. PAGE_SIZE - 1, Pipes!EndByte \in 0 .. PAGE_SIZE - 1
  PROVE  Queue = Bytes(page, Pipes!FirstByte, Pipes!EndByte)
<1> DEFINE a == Pipes!FirstByte
           b == Pipes!EndByte
<1>1. a \in 0 .. PAGE_SIZE - 1 /\ b \in 0 .. PAGE_SIZE - 1
  OBVIOUS
<1>2. Queue = [i \in 1 .. (b - a) % PAGE_SIZE |-> page[(a + i - 1) % PAGE_SIZE]]
  BY DEF Queue
<1>3. Bytes(page, a, b) = [i \in 1 .. Distance(a, b) |-> page[Wrap(a + i - 1)]]
  BY DEF Bytes
<1> HIDE DEF a, b
<1>4. (b - a) % PAGE_SIZE = Distance(a, b) /\ Distance(a, b) \in 0 .. PAGE_SIZE - 1
  BY <1>1, Remainders
<1>5. \A i \in 1 .. Distance(a, b) : (a + i - 1) % PAGE_SIZE = Wrap(a + i - 1)
  <2> TAKE i \in 1 .. Distance(a, b)
  <2>1. i - 1 \in 0 .. PAGE_SIZE /\ a + i - 1 = a + (i - 1)
    BY <1>1, <1>4, PipeNumbers
  <2> QED
    BY <1>1, <2>1, Remainders
<1>6. Queue = Bytes(page, a, b)
  BY <1>2, <1>3, <1>4, <1>5
<1> QED
  BY <1>6 DEF a, b

LEMMA QuietQueue == Ring /\ Quiet => Queue = Bytes(page, pipe.tail, pipe.head)
<1> SUFFICES ASSUME Ring, Quiet PROVE Queue = Bytes(page, pipe.tail, pipe.head)
  OBVIOUS
<1>1. Pipes!FirstByte = pipe.tail /\ Pipes!EndByte = pipe.head
  BY DEF Quiet, Copies, Pipes!FirstByte, Pipes!EndByte, Pipes!Copying
<1>2. pipe.head \in 0 .. PAGE_SIZE - 1 /\ pipe.tail \in 0 .. PAGE_SIZE - 1
  BY RingSize
<1> QED
  BY <1>1, <1>2, QueueIs

LEMMA OutQueue ==
  Ring /\ Tasks /\ FifoIInv =>
    \A t \in Task : l[t].pc = "copy_out" => Queue = Bytes(page, l[t].at, pipe.head)
<1> SUFFICES ASSUME Ring, Tasks, FifoIInv, NEW t \in Task, l[t].pc = "copy_out"
             PROVE  Queue = Bytes(page, l[t].at, pipe.head)
  OBVIOUS
<1>1. \A u \in Task : l[u].pc \in Copies => u = t
  BY DEF FifoIInv, Transfer, Copies
<1>2. Pipes!Copying("copy_out") = {t} /\ Pipes!Copying("copy_in") = {}
  BY <1>1 DEF Pipes!Copying, Copies
<1>3. Pipes!FirstByte = l[t].at /\ Pipes!EndByte = pipe.head
  BY <1>2 DEF Pipes!FirstByte, Pipes!EndByte
<1>4. pipe.head \in 0 .. PAGE_SIZE - 1 /\ l[t].at \in 0 .. PAGE_SIZE - 1
  BY RingSize DEF Tasks, Task_l, Pipes!Offset
<1> QED
  BY <1>3, <1>4, QueueIs

LEMMA InQueue ==
  Ring /\ Tasks /\ FifoIInv =>
    \A t \in Task : l[t].pc = "copy_in" => Queue = Bytes(page, pipe.tail, l[t].at)
<1> SUFFICES ASSUME Ring, Tasks, FifoIInv, NEW t \in Task, l[t].pc = "copy_in"
             PROVE  Queue = Bytes(page, pipe.tail, l[t].at)
  OBVIOUS
<1>1. \A u \in Task : l[u].pc \in Copies => u = t
  BY DEF FifoIInv, Transfer, Copies
<1>2. Pipes!Copying("copy_in") = {t} /\ Pipes!Copying("copy_out") = {}
  BY <1>1 DEF Pipes!Copying, Copies
<1>3. Pipes!FirstByte = pipe.tail /\ Pipes!EndByte = l[t].at
  BY <1>2 DEF Pipes!FirstByte, Pipes!EndByte
<1>4. pipe.tail \in 0 .. PAGE_SIZE - 1 /\ l[t].at \in 0 .. PAGE_SIZE - 1
  BY RingSize DEF Tasks, Task_l, Pipes!Offset
<1> QED
  BY <1>3, <1>4, QueueIs

LEMMA QueueNext ==
  /\ Ring' /\ Quiet' => Queue' = Bytes(page', pipe'.tail, pipe'.head)
  /\ Ring' /\ Tasks' /\ FifoIInv' =>
       /\ \A t \in Task : l'[t].pc = "copy_out" => Queue' = Bytes(page', l'[t].at, pipe'.head)
       /\ \A t \in Task : l'[t].pc = "copy_in" => Queue' = Bytes(page', pipe'.tail, l'[t].at)
<1>1. (Ring /\ Quiet => Queue = Bytes(page, pipe.tail, pipe.head))'
  BY QuietQueue, PTL
<1>2. (Ring /\ Tasks /\ FifoIInv => \A t \in Task : l[t].pc = "copy_out" => Queue = Bytes(page, l[t].at, pipe.head))'
  BY OutQueue, PTL
<1>3. (Ring /\ Tasks /\ FifoIInv => \A t \in Task : l[t].pc = "copy_in" => Queue = Bytes(page, pipe.tail, l[t].at))'
  BY InQueue, PTL
<1> QED
  BY <1>1, <1>2, <1>3

(* A task that can run outside a copy: nobody copies.                      *)
LEMMA NobodyCopies ==
  ASSUME FifoIInv, NEW t \in Task, cpu \in {t, Nobody}, l[t].pc \notin Copies
  PROVE  Quiet
BY PipeNumbers DEF FifoIInv, Transfer, Quiet

LEMMA EmptyBytes == ASSUME NEW p, NEW a \in 0 .. PAGE_SIZE - 1 PROVE Bytes(p, a, a) = <<>>
<1>1. Distance(a, a) = 0
  BY DEF Distance
<1> QED
  BY <1>1 DEF Bytes

(* A step that leaves the bytes alone, makes a pipe or gives it up.        *)
LEMMA FifoOutside ==
  ASSUME PipeIInv, PipeIInv', FifoIInv, Quiet, Quiet', last' = <<>>,
         \A u \in Task : Holding(u)',
         \/ /\ pipe'.head = pipe.head /\ pipe'.tail = pipe.tail /\ page' = page
            /\ pipe'.count = 0 <=> pipe.count = 0
         \/ pipe.count = 0 /\ pipe'.count # 0 /\ page' = page /\ pipe'.head = 0 /\ pipe'.tail = 0
         \/ pipe'.count = 0 /\ pipe'.head = 0 /\ pipe'.tail = 0
  PROVE  FifoIInv' /\ Pipes!Stream!Next
<1>1. Ring /\ Ring' /\ Tasks /\ Tasks'
  BY DEF PipeIInv
<1>2. FifoIInv'
  <2>1. \A u \in Task : Transfer(u)'
    BY DEF Quiet, Transfer, Copies
  <2>2. pipe'.count = 0 => pipe'.head = 0 /\ pipe'.tail = 0
    BY DEF FifoIInv
  <2> QED
    BY <2>1, <2>2 DEF FifoIInv
<1>3. Queue = Bytes(page, pipe.tail, pipe.head)
  BY <1>1, QuietQueue
<1>4. Queue' = Bytes(page', pipe'.tail, pipe'.head)
  BY <1>1, QueueNext
<1>5. /\ pipe.count \in Nat /\ pipe'.count \in Nat
      /\ pipe.count = 0 => pipe.head = 0 /\ pipe.tail = 0
  BY <1>1 DEF Ring, FifoIInv
<1>6. 0 \in 0 .. PAGE_SIZE - 1
  BY PipeNumbers
<1>7. pipe'.count = 0 => Queue' = <<>>
  <2>1. pipe'.count = 0 => pipe'.head = 0 /\ pipe'.tail = 0
    BY <1>2 DEF FifoIInv
  <2> QED
    BY <1>4, <1>6, <2>1, EmptyBytes
<1>8. pipe.count = 0 => Queue = <<>>
  BY <1>3, <1>5, <1>6, EmptyBytes
<1>9. CASE pipe.count = 0 /\ pipe'.count = 0
  <2>1. Queue' = Queue /\ (pipe.count > 0)' = (pipe.count > 0)
    BY <1>7, <1>8, <1>9
  <2> QED
    BY <1>2, <2>1, StreamRest
<1>10. CASE pipe.count # 0 /\ pipe'.count = 0
  <2>1. Queue' = <<>> /\ pipe.count > 0 /\ ~(pipe.count > 0)'
    BY <1>5, <1>7, <1>10
  <2> QED
    BY <1>2, <2>1, StreamClose
<1>11. CASE pipe.count = 0 /\ pipe'.count # 0
  <2>1. pipe'.head = 0 /\ pipe'.tail = 0 /\ pipe.head = 0 /\ pipe.tail = 0 /\ page' = page
    BY <1>5, <1>11
  <2>2. Queue' = Queue
    BY <1>3, <1>4, <2>1
  <2>3. ~(pipe.count > 0) /\ (pipe.count > 0)'
    BY <1>5, <1>11
  <2> QED
    BY <1>2, <2>2, <2>3, StreamOpen
<1>12. CASE pipe.count # 0 /\ pipe'.count # 0
  <2>1. pipe'.head = pipe.head /\ pipe'.tail = pipe.tail /\ page' = page
    BY <1>12
  <2>2. Queue' = Queue
    BY <1>3, <1>4, <2>1
  <2>3. (pipe.count > 0)' = (pipe.count > 0)
    BY <1>5, <1>12
  <2> QED
    BY <1>2, <2>2, <2>3, StreamRest
<1> QED
  BY <1>9, <1>10, <1>11, <1>12

LEMMA GoneBound ==
  ASSUME PipeIInv, NEW t \in Task, NEW fds \in SUBSET Pipes!Fd
  PROVE  Pipes!Gone(t, fds) \in Nat /\ Pipes!Gone(t, fds) <= pipe.count
<1> DEFINE fl == [filp EXCEPT ![t] = [fd \in Pipes!Fd |-> IF fd \in fds THEN 0 ELSE filp[t][fd]]]
<1>1. filp \in Descriptors /\ file \in Files /\ Exact(filp, file) /\ pipe.count = Cardinality(Opened(file))
  BY DEF PipeIInv, Tables
<1>2. Closes(filp, fl, t, fds)
  BY <1>1 DEF Descriptors, Closes
<1> HIDE DEF fl
<1>3. Pipes!Gone(t, fds) \in Nat /\ Pipes!Gone(t, fds) <= Cardinality(Opened(file))
  BY <1>1, <1>2, CloseFiles
<1> QED
  BY <1>1, <1>3

LEMMA IputRing ==
  ASSUME Ring, NEW n \in Nat, n <= pipe.count, Pipes!iput(n)
  PROVE  \/ /\ pipe'.head = pipe.head /\ pipe'.tail = pipe.tail /\ page' = page
            /\ pipe'.count = 0 <=> pipe.count = 0
         \/ pipe'.count = 0 /\ pipe'.head = 0 /\ pipe'.tail = 0
<1>1. pipe \in [count : 0 .. 2, head : Pipes!Offset, tail : Pipes!Offset]
  BY DEF Ring
<1>2. CASE pipe.count = n
  BY <1>2 DEF Pipes!iput, Pipes!NoPipe
<1>3. CASE pipe.count # n
  <2>1. pipe' = [pipe EXCEPT !.count = pipe.count - n] /\ page' = page
    BY <1>3 DEF Pipes!iput
  <2> QED
    BY <1>1, <1>3, <2>1
<1> QED
  BY <1>2, <1>3

(* What a step of a task outside the ring does to the tasks.               *)
LEMMA UserHolding ==
  ASSUME Tasks, FifoIInv, NEW t \in Task, Pipes!Runs(t, "user"),
         \A u \in Task : \/ l'[u].pc \in {"dead", "user"}
                         \/ l'[u] = l[u] /\ filp'[u] = filp[u]
                         \/ l'[u].pc \in {"read", "write"} /\ \E fd \in Pipes!Fd : filp'[u][fd] # 0
  PROVE  Quiet /\ Quiet' /\ \A u \in Task : Holding(u)'
<1>1. Quiet
  BY NobodyCopies DEF Pipes!Runs, Copies
<1>2. Quiet'
  BY <1>1 DEF Quiet, Copies
<1>3. \A u \in Task : Holding(u)'
  BY DEF FifoIInv, Holding
<1> QED
  BY <1>1, <1>2, <1>3

LEMMA FifoUser ==
  ASSUME PipeIInv, PipeIInv', FifoIInv, NEW t \in Task, last' = <<>>,
         \/ Pipes!sys_pipe(t) \/ Pipes!sys_close(t) \/ Pipes!sys_dup(t) \/ Pipes!sys_dup2(t)
         \/ Pipes!sys_fork(t) \/ Pipes!do_exit(t) \/ Pipes!sys_read(t) \/ Pipes!sys_write(t)
  PROVE  FifoIInv' /\ Pipes!Stream!Next
<1>1. Ring /\ Tasks /\ filp \in Descriptors
  BY DEF PipeIInv, Tables
<1>2. Pipes!Runs(t, "user")
  BY DEF Pipes!sys_pipe, Pipes!sys_close, Pipes!sys_dup, Pipes!sys_dup2, Pipes!sys_fork,
         Pipes!do_exit, Pipes!sys_read, Pipes!sys_write, Pipes!Call
<1>3. l[t].pc = "user"
  BY <1>2 DEF Pipes!Runs
<1> DEFINE Moves == \A u \in Task : \/ l'[u].pc \in {"dead", "user"}
                                    \/ l'[u] = l[u] /\ filp'[u] = filp[u]
                                    \/ l'[u].pc \in {"read", "write"} /\ \E fd \in Pipes!Fd : filp'[u][fd] # 0
           Same == /\ pipe'.head = pipe.head /\ pipe'.tail = pipe.tail /\ page' = page
                   /\ pipe'.count = 0 <=> pipe.count = 0
           Made == pipe.count = 0 /\ pipe'.count # 0 /\ page' = page /\ pipe'.head = 0 /\ pipe'.tail = 0
           Ended == pipe'.count = 0 /\ pipe'.head = 0 /\ pipe'.tail = 0
<1>4. Moves /\ (Same \/ Made \/ Ended) => FifoIInv' /\ Pipes!Stream!Next
  <2> SUFFICES ASSUME Moves, Same \/ Made \/ Ended PROVE FifoIInv' /\ Pipes!Stream!Next
    OBVIOUS
  <2>1. Quiet /\ Quiet' /\ \A u \in Task : Holding(u)'
    BY <1>1, <1>2, UserHolding
  <2> QED
    BY <2>1, FifoOutside
<1>5. ASSUME \A u \in Task : u # t => l'[u] = l[u] /\ filp'[u] = filp[u], l'[t].pc \in {"dead", "user"}
      PROVE  Moves
  BY <1>5
<1>6. ASSUME NEW fds \in SUBSET Pipes!Fd, Pipes!iput(Pipes!Gone(t, fds)) PROVE Same \/ Ended
  <2>1. Pipes!Gone(t, fds) \in Nat /\ Pipes!Gone(t, fds) <= pipe.count
    BY GoneBound
  <2> QED
    BY <1>1, <1>6, <2>1, IputRing
<1>7. CASE Pipes!sys_pipe(t)
  <2>1. l' = l /\ page' = page /\ pipe.count = 0 /\ pipe' = [Pipes!NoPipe EXCEPT !.count = 2]
    BY <1>7 DEF Pipes!sys_pipe
  <2>2. \A u \in Task : u # t => filp'[u] = filp[u]
    BY <1>1, <1>7 DEF Pipes!sys_pipe, Descriptors
  <2>3. Made
    BY <2>1 DEF Pipes!NoPipe
  <2> QED
    BY <1>3, <1>4, <1>5, <2>1, <2>2, <2>3
<1>8. CASE Pipes!sys_close(t)
  <2>1. PICK x \in Pipes!Fd : filp' = [filp EXCEPT ![t][x] = 0] /\ Pipes!iput(Pipes!Gone(t, {x})) /\ l' = l
    BY <1>8 DEF Pipes!sys_close
  <2>2. \A u \in Task : u # t => filp'[u] = filp[u]
    BY <1>1, <2>1 DEF Descriptors
  <2>3. {x} \in SUBSET Pipes!Fd
    OBVIOUS
  <2>4. Same \/ Ended
    BY <1>6, <2>1, <2>3
  <2> QED
    BY <1>3, <1>4, <1>5, <2>1, <2>2, <2>4
<1>9. CASE Pipes!sys_dup(t)
  <2>1. l' = l /\ page' = page /\ pipe' = pipe
    BY <1>9 DEF Pipes!sys_dup
  <2>2. \A u \in Task : u # t => filp'[u] = filp[u]
    BY <1>1, <1>9 DEF Pipes!sys_dup, Descriptors
  <2> QED
    BY <1>3, <1>4, <1>5, <2>1, <2>2
<1>10. CASE Pipes!sys_dup2(t)
  <2>1. PICK old \in Pipes!Fd, x \in Pipes!Fd :
           /\ Pipes!iput(Pipes!Gone(t, {x})) /\ l' = l
           /\ filp' = [filp EXCEPT ![t][x] = 0] \/ filp' = [filp EXCEPT ![t][x] = filp[t][old]]
    BY <1>10 DEF Pipes!sys_dup2
  <2>2. \A u \in Task : u # t => filp'[u] = filp[u]
    BY <1>1, <2>1 DEF Descriptors
  <2>3. {x} \in SUBSET Pipes!Fd
    OBVIOUS
  <2>4. Same \/ Ended
    BY <1>6, <2>1, <2>3
  <2> QED
    BY <1>3, <1>4, <1>5, <2>1, <2>2, <2>4
<1>11. CASE Pipes!sys_fork(t)
  <2>1. PICK child \in Task : l' = [l EXCEPT ![child] = Pipes!User] /\ filp' = [filp EXCEPT ![child] = filp[t]]
    BY <1>11 DEF Pipes!sys_fork
  <2>2. page' = page /\ pipe' = pipe
    BY <1>11 DEF Pipes!sys_fork
  <2>3. Moves
    BY <1>1, <2>1, PipeTask DEF Tasks, Descriptors
  <2> QED
    BY <1>4, <2>2, <2>3
<1>12. CASE Pipes!do_exit(t)
  <2>1. /\ Pipes!iput(Pipes!Gone(t, Pipes!Fd))
        /\ l' = [l EXCEPT ![t] = [Pipes!User EXCEPT !.pc = "dead"]]
        /\ filp' = [filp EXCEPT ![t] = [fd \in Pipes!Fd |-> 0]]
    BY <1>12 DEF Pipes!do_exit
  <2>2. /\ \A u \in Task : u # t => l'[u] = l[u] /\ filp'[u] = filp[u]
        /\ l'[t].pc = "dead"
    BY <1>1, <2>1, PipeTask DEF Tasks, Descriptors
  <2>3. Same \/ Ended
    BY <1>6, <2>1
  <2> QED
    BY <1>4, <1>5, <2>2, <2>3
<1>13. ASSUME NEW mode, NEW pc, pc \in {"read", "write"}, Pipes!Call(t, mode, pc)
       PROVE  FifoIInv' /\ Pipes!Stream!Next
  <2>1. PICK count \in 1 .. MaxCount : Pipes!Go(t, [Pipes!User EXCEPT !.pc = pc, !.count = count])
    BY <1>13 DEF Pipes!Call
  <2>2. [Pipes!User EXCEPT !.pc = pc, !.count = count].pc = pc
    BY DEF Pipes!User
  <2>3. l'[t].pc = pc /\ \A u \in Task : u # t => l'[u] = l[u]
    BY <1>1, <2>1, <2>2 DEF Tasks, Pipes!Go
  <2>4. filp' = filp /\ pipe' = pipe /\ page' = page /\ \E fd \in Pipes!Fd : filp[t][fd] # 0
    BY <1>13 DEF Pipes!Call, Pipes!FreeFds
  <2>5. Moves
    BY <1>13, <2>3, <2>4
  <2> QED
    BY <1>4, <2>4, <2>5
<1>14. CASE Pipes!sys_read(t) \/ Pipes!sys_write(t)
  BY <1>13, <1>14 DEF Pipes!sys_read, Pipes!sys_write
<1> QED
  BY <1>7, <1>8, <1>9, <1>10, <1>11, <1>12, <1>14

LEMMA BytesType ==
  ASSUME NEW p \in [Pipes!Offset -> Byte], NEW a \in 0 .. PAGE_SIZE - 1, NEW b \in 0 .. PAGE_SIZE - 1
  PROVE  /\ Distance(a, b) \in 0 .. PAGE_SIZE - 1
         /\ Bytes(p, a, b) \in Seq(Byte) /\ Len(Bytes(p, a, b)) = Distance(a, b)
         /\ \A i \in 1 .. Distance(a, b) : Wrap(a + i - 1) \in Pipes!Offset /\ Bytes(p, a, b)[i] = p[Wrap(a + i - 1)]
<1>1. Distance(a, b) \in 0 .. PAGE_SIZE - 1
  BY Remainders
<1>2. \A i \in 1 .. Distance(a, b) : Wrap(a + i - 1) \in Pipes!Offset
  <2> TAKE i \in 1 .. Distance(a, b)
  <2>1. i - 1 \in 0 .. PAGE_SIZE /\ a + i - 1 = a + (i - 1)
    BY <1>1, PipeNumbers
  <2> QED
    BY <2>1, Remainders DEF Pipes!Offset
<1>3. Bytes(p, a, b) \in [1 .. Distance(a, b) -> Byte]
  BY <1>2 DEF Bytes
<1>4. \A i \in 1 .. Distance(a, b) : Bytes(p, a, b)[i] = p[Wrap(a + i - 1)]
  BY DEF Bytes
<1> HIDE DEF Bytes
<1>5. \A n \in Nat : \A s \in [1 .. n -> Byte] : s \in Seq(Byte) /\ Len(s) = n
  OBVIOUS
<1>6. Distance(a, b) \in Nat
  BY <1>1
<1> QED
  BY <1>1, <1>2, <1>3, <1>4, <1>5, <1>6

(* What is taken out at the front.                                         *)
LEMMA BytesTaken ==
  ASSUME NEW p \in [Pipes!Offset -> Byte], NEW a \in 0 .. PAGE_SIZE - 1, NEW b \in 0 .. PAGE_SIZE - 1,
         NEW n \in 1 .. Distance(a, b), a + n <= PAGE_SIZE
  PROVE  /\ SubSeq(Bytes(p, a, b), 1, n) = [i \in 1 .. n |-> p[a + i - 1]]
         /\ Bytes(p, Wrap(a + n), b) = SubSeq(Bytes(p, a, b), n + 1, Len(Bytes(p, a, b)))
<1> DEFINE s == Bytes(p, a, b)
           m == Distance(a, b)
           c == Wrap(a + n)
           r == Bytes(p, c, b)
<1>0. PAGE_SIZE \in Nat /\ PAGE_SIZE >= 2
  BY PipeNumbers
<1>1. /\ m \in 0 .. PAGE_SIZE - 1 /\ s \in Seq(Byte) /\ Len(s) = m
      /\ \A i \in 1 .. m : Wrap(a + i - 1) \in Pipes!Offset /\ s[i] = p[Wrap(a + i - 1)]
  BY BytesType
<1>2. n \in 1 .. m /\ n \in 0 .. PAGE_SIZE
  BY <1>0, <1>1
<1>3. c \in 0 .. PAGE_SIZE - 1 /\ Distance(c, b) = m - n
  <2>1. c \in 0 .. PAGE_SIZE - 1
    BY <1>2, Remainders
  <2>2. Distance(c, b) = m - n
    BY <1>0, <1>2, <2>1 DEF Distance, Wrap
  <2> QED
    BY <2>1, <2>2
<1>4. /\ r \in Seq(Byte) /\ Len(r) = Distance(c, b)
      /\ \A i \in 1 .. Distance(c, b) : r[i] = p[Wrap(c + i - 1)]
  <2> HIDE DEF c
  <2> QED
    BY <1>3, BytesType
<1>5. \A i \in 1 .. m - n : Wrap(c + i - 1) = Wrap(a + (n + i) - 1)
  BY <1>0, <1>1, <1>2, <1>3 DEF Wrap
<1>6. \A i \in 1 .. n : Wrap(a + i - 1) = a + i - 1
  BY <1>0, <1>1, <1>2 DEF Wrap
<1> HIDE DEF s, m, c, r
<1>7. SubSeq(s, 1, n) = [i \in 1 .. n |-> p[a + i - 1]]
  <2>1. SubSeq(s, 1, n) = [i \in 1 .. n |-> s[i]]
    BY <1>1, <1>2
  <2>2. \A i \in 1 .. n : s[i] = p[a + i - 1]
    BY <1>1, <1>2, <1>6
  <2> QED
    BY <2>1, <2>2
<1>8. r = SubSeq(s, n + 1, m)
  <2>1. Len(SubSeq(s, n + 1, m)) = m - n /\ SubSeq(s, n + 1, m) \in Seq(Byte)
    BY <1>1, <1>2
  <2>2. \A i \in 1 .. m - n : SubSeq(s, n + 1, m)[i] = s[n + i]
    BY <1>1, <1>2
  <2>3. \A i \in 1 .. m - n : r[i] = s[n + i]
    <3> TAKE i \in 1 .. m - n
    <3>1. i \in 1 .. Distance(c, b) /\ n + i \in 1 .. m
      BY <1>1, <1>2, <1>3
    <3>2. r[i] = p[Wrap(c + i - 1)] /\ s[n + i] = p[Wrap(a + (n + i) - 1)]
      BY <1>1, <1>4, <3>1
    <3> QED
      BY <1>5, <3>2
  <2> QED
    BY <1>3, <1>4, <2>1, <2>2, <2>3
<1> QED
  BY <1>1, <1>7, <1>8 DEF s, m, c, r

LEMMA AroundTheRing ==
  ASSUME NEW a \in 0 .. PAGE_SIZE - 1, NEW b \in 0 .. PAGE_SIZE - 1, NEW m \in Nat, NEW n \in Nat,
         m = IF b >= a THEN b - a ELSE b - a + PAGE_SIZE,
         m + n < PAGE_SIZE, b + n <= PAGE_SIZE
  PROVE  \A i \in 1 .. m : Wrap(a + i - 1) - b + 1 \notin 1 .. n
BY PipeNumbers DEF Wrap

LEMMA SameSequence ==
  ASSUME NEW s \in Seq(Byte), NEW z \in Seq(Byte), NEW k, Len(s) = k, Len(z) = k,
         \A j \in 1 .. k : s[j] = z[j]
  PROVE  s = z
OBVIOUS

LEMMA Appended ==
  ASSUME NEW s \in Seq(Byte), NEW z \in Seq(Byte)
  PROVE  /\ s \o z \in Seq(Byte) /\ Len(s \o z) = Len(s) + Len(z)
         /\ \A i \in 1 .. Len(s) : (s \o z)[i] = s[i]
         /\ \A i \in 1 .. Len(z) : (s \o z)[Len(s) + i] = z[i]
OBVIOUS

(* What is put in at the end.                                              *)
Written(p, q, b, n, bytes) ==
  q = [o \in Pipes!Offset |-> IF o - b + 1 \in 1 .. n THEN bytes[o - b + 1] ELSE p[o]]

LEMMA BytesAdded ==
  ASSUME NEW p \in [Pipes!Offset -> Byte], NEW q \in [Pipes!Offset -> Byte],
         NEW a \in 0 .. PAGE_SIZE - 1, NEW b \in 0 .. PAGE_SIZE - 1,
         NEW n \in 1 .. PAGE_SIZE - 1 - Distance(a, b), b + n <= PAGE_SIZE,
         NEW bytes \in [1 .. n -> Byte], Written(p, q, b, n, bytes)
  PROVE  Bytes(q, a, Wrap(b + n)) = Bytes(p, a, b) \o bytes
<1> DEFINE s == Bytes(p, a, b)
           m == Distance(a, b)
           c == Wrap(b + n)
           r == Bytes(q, a, c)
<1>0. PAGE_SIZE \in Nat /\ PAGE_SIZE >= 2 /\ Pipes!Offset = 0 .. PAGE_SIZE - 1
  BY PipeNumbers DEF Pipes!Offset
<1>1. /\ m \in 0 .. PAGE_SIZE - 1 /\ s \in Seq(Byte) /\ Len(s) = m
      /\ \A i \in 1 .. m : Wrap(a + i - 1) \in Pipes!Offset /\ s[i] = p[Wrap(a + i - 1)]
  BY BytesType
<1>2. n \in 1 .. PAGE_SIZE - 1 - m /\ n \in 0 .. PAGE_SIZE
  BY <1>0, <1>1
<1>3. c \in 0 .. PAGE_SIZE - 1 /\ Distance(a, c) = m + n
  <2>1. c \in 0 .. PAGE_SIZE - 1
    BY <1>2, Remainders
  <2>2. Distance(a, c) = m + n
    BY <1>0, <1>2, <2>1 DEF Distance, Wrap
  <2> QED
    BY <2>1, <2>2
<1>4. /\ r \in Seq(Byte) /\ Len(r) = Distance(a, c)
      /\ \A i \in 1 .. Distance(a, c) : Wrap(a + i - 1) \in Pipes!Offset /\ r[i] = q[Wrap(a + i - 1)]
  <2> HIDE DEF c
  <2> QED
    BY <1>3, BytesType
<1>12. m = IF b >= a THEN b - a ELSE b - a + PAGE_SIZE
  BY DEF Distance
<1> HIDE DEF s, m, c, r
<1>13. m \in Nat /\ n \in Nat /\ m + n < PAGE_SIZE
  BY <1>0, <1>1, <1>2
<1>5. \A i \in 1 .. m : Wrap(a + i - 1) - b + 1 \notin 1 .. n
  BY <1>12, <1>13, AroundTheRing
<1>6. \A i \in 1 .. n : Wrap(a + (m + i) - 1) = b + i - 1
  <2> TAKE i \in 1 .. n
  <2>1. PICK k : k = a + (m + i) - 1
    OBVIOUS
  <2>2. i \in Nat \ {0} /\ m + i < PAGE_SIZE /\ b + i <= PAGE_SIZE
    BY <1>0, <1>13
  <2>3. Wrap(k) = b + i - 1
    <3>1. Wrap(k) = IF k >= PAGE_SIZE THEN k - PAGE_SIZE ELSE k
      BY DEF Wrap
    <3>2. k = IF b >= a THEN b + i - 1 ELSE b + i - 1 + PAGE_SIZE
      <4>1. PICK d \in Nat : d = m
        BY <1>13
      <4>2. k = a + d + i - 1 /\ d = IF b >= a THEN b - a ELSE b - a + PAGE_SIZE
        BY <1>12, <2>1, <2>2, <4>1
      <4> QED
        BY <1>0, <2>2, <4>2
    <3> QED
      BY <1>0, <2>2, <3>1, <3>2
  <2> QED
    BY <2>1, <2>3
<1>7. \A i \in 1 .. m : r[i] = s[i]
  <2> TAKE i \in 1 .. m
  <2>1. i \in 1 .. Distance(a, c)
    BY <1>1, <1>2, <1>3
  <2>2. r[i] = q[Wrap(a + i - 1)] /\ s[i] = p[Wrap(a + i - 1)] /\ Wrap(a + i - 1) \in Pipes!Offset
    BY <1>1, <1>4, <2>1
  <2> QED
    BY <1>5, <2>2 DEF Written
<1>8. \A i \in 1 .. n : r[m + i] = bytes[i]
  <2> TAKE i \in 1 .. n
  <2>1. m + i \in 1 .. Distance(a, c) /\ b + i - 1 \in Pipes!Offset /\ (b + i - 1) - b + 1 = i
    BY <1>0, <1>1, <1>2, <1>3
  <2>2. r[m + i] = q[b + i - 1]
    BY <1>4, <1>6, <2>1
  <2> QED
    BY <2>1, <2>2 DEF Written
<1>9. bytes \in Seq(Byte) /\ Len(bytes) = n
  <2>1. \A k \in Nat : \A z \in [1 .. k -> Byte] : z \in Seq(Byte) /\ Len(z) = k
    OBVIOUS
  <2>2. n \in Nat
    BY <1>0, <1>1, <1>2
  <2> QED
    BY <2>1, <2>2
<1>10. /\ s \o bytes \in Seq(Byte) /\ Len(s \o bytes) = m + n
       /\ \A i \in 1 .. m : (s \o bytes)[i] = s[i]
       /\ \A i \in 1 .. n : (s \o bytes)[m + i] = bytes[i]
  BY <1>1, <1>2, <1>9, Appended
<1>11. \A j \in 1 .. m + n : r[j] = (s \o bytes)[j]
  <2> TAKE j \in 1 .. m + n
  <2>1. CASE j <= m
    BY <1>1, <1>7, <1>10, <2>1
  <2>2. CASE j > m
    <3>1. j - m \in 1 .. n /\ m + (j - m) = j
      BY <1>0, <1>1, <1>2, <2>2
    <3> QED
      BY <1>8, <1>10, <3>1
  <2> QED
    BY <1>1, <1>2, <2>1, <2>2
<1>14. r = s \o bytes
  <2>1. Len(r) = m + n
    BY <1>3, <1>4
  <2>2. PICK z \in Seq(Byte) : z = s \o bytes /\ Len(z) = m + n
    BY <1>10
  <2>3. \A j \in 1 .. m + n : r[j] = z[j]
    BY <1>11, <2>2
  <2>4. r = z
    BY <1>4, <2>1, <2>2, <2>3, SameSequence
  <2> QED
    BY <2>2, <2>4
<1> QED
  BY <1>14 DEF s, r, c

(* The others are not copying while t runs.                                *)
LEMMA OthersQuiet ==
  ASSUME FifoIInv, NEW t \in Task, cpu \in {t, Nobody}
  PROVE  \A u \in Task : u # t => l[u].pc \notin Copies
BY PipeNumbers DEF FifoIInv, Transfer

(* A call ends or waits.                                                   *)
LEMMA FifoPause ==
  ASSUME PipeIInv, PipeIInv', FifoIInv, NEW t \in Task, last' = <<>>,
         l[t].pc \in {"read", "write"}, cpu \in {t, Nobody},
         Pipes!Wait(t) \/ Pipes!Finish(t),
         UNCHANGED <<filp, pipe, page>>
  PROVE  FifoIInv' /\ Pipes!Stream!Next
<1>1. Ring /\ Tasks
  BY DEF PipeIInv
<1>2. l' = l \/ l' = [l EXCEPT ![t] = Pipes!User]
  BY DEF Pipes!Wait, Pipes!Finish, Pipes!Go
<1>3. \A u \in Task : l'[u] = l[u] \/ l'[u].pc = "user"
  BY <1>1, <1>2, PipeTask DEF Tasks
<1>4. Quiet
  BY NobodyCopies DEF Copies
<1>5. Quiet'
  BY <1>3, <1>4 DEF Quiet, Copies
<1>6. \A u \in Task : Holding(u)'
  BY <1>3 DEF FifoIInv, Holding
<1> QED
  BY <1>4, <1>5, <1>6, FifoOutside

LEMMA EndsOpen ==
  ASSUME PipeIInv, FifoIInv, NEW t \in Task, l[t].pc \notin {"dead", "user"}
  PROVE  pipe.count # 0
<1>1. filp \in Descriptors /\ file \in Files /\ Exact(filp, file) /\ pipe.count = Cardinality(Opened(file))
  BY DEF PipeIInv, Tables
<1>2. PICK fd \in Pipes!Fd : filp[t][fd] # 0
  BY DEF FifoIInv, Holding
<1>3. PICK f \in Pipes!File : filp[t][fd] = f
  BY <1>1, <1>2 DEF Descriptors
<1>4. file[f].count >= 1
  BY <1>1, <1>3, RefsFinite DEF Exact
<1>5. f \in Opened(file) /\ IsFiniteSet(Opened(file))
  BY <1>1, <1>4, PipeSets, FS_Subset DEF Opened, Files
<1>6. Cardinality(Opened(file)) >= 1
  BY <1>5, AtLeast
<1> QED
  BY <1>1, <1>6

LEMMA FifoCopy ==
  ASSUME PipeIInv, PipeIInv', FifoIInv, Faults = FALSE, NEW t \in Task, last' = <<>>,
         NEW pc, NEW at \in Pipes!Offset, NEW limit \in 1 .. PAGE_SIZE - 1,
         cpu \in {t, Nobody}, l[t].count # 0, Pipes!Copy(t, pc, at, limit),
         \/ /\ l[t].pc = "read" /\ pc = "copy_out" /\ at = pipe.tail /\ limit = Pipes!PIPE_SIZE
            /\ pipe' = [pipe EXCEPT !.tail = (@ + l'[t].chars) % PAGE_SIZE]
         \/ /\ l[t].pc = "write" /\ pc = "copy_in" /\ at = pipe.head /\ limit = Pipes!Room
            /\ pipe' = [pipe EXCEPT !.head = (@ + l'[t].chars) % PAGE_SIZE],
         UNCHANGED <<filp, file, page>>
  PROVE  FifoIInv' /\ Pipes!Stream!Next
<1> DEFINE chars == Pipes!Min(PAGE_SIZE - at, Pipes!Min(l[t].count, limit))
           r == [pc |-> pc, count |-> l[t].count - chars, chars |-> chars, at |-> at]
<1>1. Ring /\ Tasks /\ Ring' /\ Tasks'
  BY DEF PipeIInv
<1>2. l' = [l EXCEPT ![t] = r] /\ cpu' = t
  BY DEF Pipes!Copy
<1>3. l[t].count \in 1 .. MaxCount
  BY <1>1 DEF Tasks, Task_l
<1>4. chars = Pipes!Min(PAGE_SIZE - at, Pipes!Min(l[t].count, limit))
  OBVIOUS
<1> HIDE DEF chars
<1>5. /\ chars \in 1 .. PAGE_SIZE - 1 /\ chars <= limit /\ at + chars <= PAGE_SIZE
  BY <1>3, <1>4, Chunk
<1>6. r.pc = pc /\ r.chars = chars /\ r.at = at
  OBVIOUS
<1> HIDE DEF r
<1>7. l'[t] = r /\ \A u \in Task : u # t => l'[u] = l[u]
  BY <1>1, <1>2 DEF Tasks
<1>8. \A u \in Task : u # t => l'[u].pc \notin Copies
  BY <1>7, OthersQuiet
<1>9. /\ pipe.head \in 0 .. PAGE_SIZE - 1 /\ pipe.tail \in 0 .. PAGE_SIZE - 1
      /\ Pipes!PIPE_SIZE = Distance(pipe.tail, pipe.head)
      /\ Pipes!Room = PAGE_SIZE - 1 - Distance(pipe.tail, pipe.head)
  BY <1>1, RingSize DEF Distance, Pipes!Room
<1>10. (at + chars) % PAGE_SIZE = Wrap(at + chars)
  <2>1. at \in 0 .. PAGE_SIZE - 1 /\ chars \in 0 .. PAGE_SIZE
    BY <1>5, PipeNumbers DEF Pipes!Offset
  <2> QED
    BY <2>1, Remainders
<1>11. \A u \in Task : Holding(u)'
  <2>1. \A u \in Task : u # t => Holding(u)'
    BY <1>7 DEF FifoIInv, Holding
  <2>2. Holding(t)'
    BY DEF FifoIInv, Holding
  <2> QED
    BY <2>1, <2>2
<1>12. pipe.count # 0 /\ pipe'.count = pipe.count
  BY <1>1, EndsOpen DEF Ring
<1>13. \A u \in Task : u # t => Transfer(u)'
  BY <1>8 DEF Transfer, Copies
<1>14. Queue = Bytes(page, pipe.tail, pipe.head)
  <2>1. Quiet
    BY NobodyCopies DEF Copies
  <2> QED
    BY <1>1, <2>1, QuietQueue
<1>15. CASE l[t].pc = "read" /\ pc = "copy_out" /\ at = pipe.tail /\ limit = Pipes!PIPE_SIZE
  <2>1. pipe'.tail = Wrap(at + chars) /\ pipe'.head = pipe.head
    BY <1>1, <1>6, <1>7, <1>10, <1>15 DEF Ring
  <2>2. l'[t].pc = "copy_out" /\ l'[t].at = at /\ l'[t].chars = chars
    BY <1>6, <1>7, <1>15
  <2>3. chars \in 1 .. Distance(at, pipe'.head)
    BY <1>5, <1>9, <1>15, <2>1
  <2>4. CopyingOut(t)'
    BY <1>5, <2>1, <2>2, <2>3 DEF CopyingOut
  <2>5. Transfer(t)'
    BY <1>2, <2>2, <2>4 DEF Transfer
  <2>6. FifoIInv'
    BY <1>11, <1>12, <1>13, <2>5 DEF FifoIInv
  <2>7. Queue' = Bytes(page', at, pipe'.head)
    BY <1>1, <2>2, <2>6, QueueNext
  <2>8. Queue' = Queue /\ (pipe.count > 0)' = (pipe.count > 0)
    BY <1>12, <1>14, <1>15, <2>1, <2>7
  <2> QED
    BY <2>6, <2>8, StreamRest
<1>16. CASE l[t].pc = "write" /\ pc = "copy_in" /\ at = pipe.head /\ limit = Pipes!Room
  <2>1. pipe'.head = Wrap(at + chars) /\ pipe'.tail = pipe.tail
    BY <1>1, <1>6, <1>7, <1>10, <1>16 DEF Ring
  <2>2. l'[t].pc = "copy_in" /\ l'[t].at = at /\ l'[t].chars = chars
    BY <1>6, <1>7, <1>16
  <2>3. chars \in 1 .. PAGE_SIZE - 1 - Distance(pipe'.tail, at)
    BY <1>5, <1>9, <1>16, <2>1
  <2>4. CopyingIn(t)'
    BY <1>5, <2>1, <2>2, <2>3 DEF CopyingIn
  <2>5. Transfer(t)'
    BY <1>2, <2>2, <2>4 DEF Transfer
  <2>6. FifoIInv'
    BY <1>11, <1>12, <1>13, <2>5 DEF FifoIInv
  <2>7. Queue' = Bytes(page', pipe'.tail, at)
    BY <1>1, <2>2, <2>6, QueueNext
  <2>8. Queue' = Queue /\ (pipe.count > 0)' = (pipe.count > 0)
    BY <1>12, <1>14, <1>16, <2>1, <2>7
  <2> QED
    BY <2>6, <2>8, StreamRest
<1> QED
  BY <1>15, <1>16

LEMMA FifoPut ==
  ASSUME PipeIInv, PipeIInv', FifoIInv, NEW t \in Task, Pipes!put_fs_byte(t)
  PROVE  FifoIInv' /\ Pipes!Stream!Next
<1> DEFINE a == l[t].at
           n == l[t].chars
           r == [l[t] EXCEPT !.pc = "read", !.chars = 0, !.at = 0]
<1>1. Ring /\ Tasks /\ Ring' /\ Tasks'
  BY DEF PipeIInv
<1>2. /\ l[t].pc = "copy_out" /\ cpu \in {t, Nobody}
      /\ UNCHANGED <<filp, pipe, page>> /\ l' = [l EXCEPT ![t] = r]
      /\ last' = [i \in 1 .. n |-> page[a + i - 1]]
  BY DEF Pipes!put_fs_byte, Pipes!Runs, Pipes!Go
<1>3. /\ n \in 1 .. Distance(a, pipe.head) /\ a + n <= PAGE_SIZE /\ pipe.tail = Wrap(a + n)
  BY <1>2 DEF FifoIInv, Transfer, CopyingOut
<1>4. /\ a \in 0 .. PAGE_SIZE - 1 /\ pipe.head \in 0 .. PAGE_SIZE - 1
      /\ page \in [Pipes!Offset -> Byte]
  BY <1>1, RingSize DEF Tasks, Task_l, Ring, Pipes!Offset
<1>5. r.pc = "read"
  BY <1>1 DEF Tasks, Task_l
<1>6. Queue = Bytes(page, a, pipe.head)
  BY <1>1, <1>2, OutQueue
<1> HIDE DEF a, n, r
<1>7. l'[t] = r /\ \A u \in Task : u # t => l'[u] = l[u]
  BY <1>1, <1>2 DEF Tasks
<1>8. Quiet'
  <2>1. \A u \in Task : u # t => l[u].pc \notin Copies
    BY <1>2, OthersQuiet
  <2> QED
    BY <1>5, <1>7, <2>1 DEF Quiet, Copies
<1>9. \A u \in Task : Holding(u)'
  <2>1. \A u \in Task : u # t => Holding(u)'
    BY <1>2, <1>7 DEF FifoIInv, Holding
  <2>2. Holding(t)'
    BY <1>2 DEF FifoIInv, Holding
  <2> QED
    BY <2>1, <2>2
<1>10. FifoIInv'
  BY <1>2, <1>8, <1>9 DEF FifoIInv, Transfer, Quiet, Copies
<1>11. Queue' = Bytes(page, Wrap(a + n), pipe.head)
  BY <1>1, <1>2, <1>3, <1>8, QueueNext
<1> DEFINE q == Bytes(page, a, pipe.head)
<1>12. q = Bytes(page, a, pipe.head)
  OBVIOUS
<1> HIDE DEF q
<1>13. SubSeq(q, 1, n) = last' /\ Queue' = SubSeq(q, n + 1, Len(q)) /\ Len(q) = Distance(a, pipe.head)
  <2>1. PICK h \in 0 .. PAGE_SIZE - 1 : h = pipe.head
    BY <1>4
  <2>2. n \in 1 .. Distance(a, h) /\ a + n <= PAGE_SIZE /\ q = Bytes(page, a, h)
    BY <1>3, <1>12, <2>1
  <2>3. /\ SubSeq(Bytes(page, a, h), 1, n) = [i \in 1 .. n |-> page[a + i - 1]]
        /\ Bytes(page, Wrap(a + n), h) = SubSeq(Bytes(page, a, h), n + 1, Len(Bytes(page, a, h)))
    BY <1>4, <2>2, BytesTaken
  <2>4. Len(Bytes(page, a, h)) = Distance(a, h)
    BY <1>4, BytesType
  <2> QED
    BY <1>2, <1>11, <2>1, <2>2, <2>3, <2>4
<1>14. n \in 1 .. Len(Queue) /\ last' = SubSeq(Queue, 1, n) /\ Queue' = SubSeq(Queue, n + 1, Len(Queue))
  BY <1>3, <1>6, <1>12, <1>13
<1>15. (pipe.count > 0)' = (pipe.count > 0)
  BY <1>2
<1> QED
  BY <1>10, <1>14, <1>15, StreamGet

LEMMA FifoGet ==
  ASSUME PipeIInv, PipeIInv', FifoIInv, NEW t \in Task, Pipes!get_fs_byte(t), last' = <<>>
  PROVE  FifoIInv' /\ Pipes!Stream!Next
<1> DEFINE b == l[t].at
           n == l[t].chars
           r == [l[t] EXCEPT !.pc = "write", !.chars = 0, !.at = 0]
<1>1. Ring /\ Tasks /\ Ring' /\ Tasks'
  BY DEF PipeIInv
<1>2. /\ l[t].pc = "copy_in" /\ cpu \in {t, Nobody}
      /\ UNCHANGED <<filp, pipe>> /\ l' = [l EXCEPT ![t] = r]
  BY DEF Pipes!get_fs_byte, Pipes!Runs, Pipes!Go
<1>3. PICK bytes \in [1 .. n -> Byte] :
         page' = [o \in Pipes!Offset |-> IF o - b + 1 \in 1 .. n THEN bytes[o - b + 1] ELSE page[o]]
  BY DEF Pipes!get_fs_byte
<1>4. n \in 1 .. PAGE_SIZE - 1 - Distance(pipe.tail, b) /\ b + n <= PAGE_SIZE /\ pipe.head = Wrap(b + n)
  BY <1>2 DEF FifoIInv, Transfer, CopyingIn
<1>5. /\ b \in 0 .. PAGE_SIZE - 1 /\ pipe.tail \in 0 .. PAGE_SIZE - 1
      /\ page \in [Pipes!Offset -> Byte] /\ page' \in [Pipes!Offset -> Byte]
  BY <1>1, RingSize DEF Tasks, Task_l, Ring, Pipes!Offset
<1>6. r.pc = "write"
  BY <1>1 DEF Tasks, Task_l
<1>7. Queue = Bytes(page, pipe.tail, b)
  BY <1>1, <1>2, InQueue
<1> HIDE DEF b, n, r
<1>8. l'[t] = r /\ \A u \in Task : u # t => l'[u] = l[u]
  BY <1>1, <1>2 DEF Tasks
<1>9. Quiet'
  <2>1. \A u \in Task : u # t => l[u].pc \notin Copies
    BY <1>2, OthersQuiet
  <2> QED
    BY <1>6, <1>8, <2>1 DEF Quiet, Copies
<1>10. \A u \in Task : Holding(u)'
  <2>1. \A u \in Task : u # t => Holding(u)'
    BY <1>2, <1>8 DEF FifoIInv, Holding
  <2>2. Holding(t)'
    BY <1>2 DEF FifoIInv, Holding
  <2> QED
    BY <2>1, <2>2
<1>11. FifoIInv'
  BY <1>2, <1>9, <1>10 DEF FifoIInv, Transfer, Quiet, Copies
<1>12. Queue' = Bytes(page', pipe.tail, Wrap(b + n))
  BY <1>1, <1>2, <1>4, <1>9, QueueNext
<1> DEFINE q == Bytes(page, pipe.tail, b)
           p == page
           x == page'
<1>13. q = Bytes(p, pipe.tail, b) /\ p \in [Pipes!Offset -> Byte] /\ x \in [Pipes!Offset -> Byte]
  BY <1>5
<1>14. Queue' = Bytes(x, pipe.tail, Wrap(b + n)) /\ Queue = q
  BY <1>7, <1>12
<1>15. Written(p, x, b, n, bytes)
  BY <1>3 DEF Written
<1> HIDE DEF q, p, x
<1>16. Bytes(x, pipe.tail, Wrap(b + n)) = q \o bytes
  <2>1. PICK a \in 0 .. PAGE_SIZE - 1 : a = pipe.tail
    BY <1>5
  <2>2. n \in 1 .. PAGE_SIZE - 1 - Distance(a, b) /\ b + n <= PAGE_SIZE /\ q = Bytes(p, a, b)
    BY <1>4, <1>13, <2>1
  <2>3. Bytes(x, a, Wrap(b + n)) = Bytes(p, a, b) \o bytes
    <3>1. b \in 0 .. PAGE_SIZE - 1 /\ bytes \in [1 .. n -> Byte]
      BY <1>5
    <3>2. p \in [Pipes!Offset -> Byte] /\ x \in [Pipes!Offset -> Byte]
      BY <1>13
    <3> QED
      BY <1>15, <2>2, <3>1, <3>2, BytesAdded
  <2> QED
    BY <2>1, <2>2, <2>3
<1>17. Len(q) = Distance(pipe.tail, b)
  BY <1>5, <1>13, BytesType
<1>18. n \in 1 .. PAGE_SIZE - 1 - Len(Queue) /\ Queue' = Queue \o bytes
  BY <1>4, <1>14, <1>16, <1>17
<1>19. (pipe.count > 0)' = (pipe.count > 0)
  BY <1>2
<1> QED
  BY <1>3, <1>11, <1>18, <1>19, StreamPut

LEMMA FifoStep ==
  ASSUME PipeIInv, PipeIInv', FifoIInv, Faults = FALSE, NEW t \in Task, Pipes!Step(t)
  PROVE  FifoIInv' /\ Pipes!Stream!Next
<1>1. CASE Pipes!put_fs_byte(t)
  BY <1>1, FifoPut
<1>2. CASE Pipes!get_fs_byte(t) /\ last' = <<>>
  BY <1>2, FifoGet
<1>3. CASE Pipes!read_pipe(t) /\ last' = <<>>
  <2>1. l[t].pc = "read" /\ cpu \in {t, Nobody} /\ UNCHANGED <<filp, file, page>>
    BY <1>3 DEF Pipes!read_pipe, Pipes!Runs
  <2>2. CASE l[t].count # 0 /\ Pipes!PIPE_SIZE # 0
    <3>1. /\ Pipes!Copy(t, "copy_out", pipe.tail, Pipes!PIPE_SIZE)
          /\ pipe' = [pipe EXCEPT !.tail = (@ + l'[t].chars) % PAGE_SIZE]
      BY <1>3, <2>2 DEF Pipes!read_pipe
    <3>2. pipe.tail \in Pipes!Offset /\ Pipes!PIPE_SIZE \in 1 .. PAGE_SIZE - 1
      BY <2>2, RingSize DEF PipeIInv, Ring
    <3> QED
      BY <1>3, <2>1, <2>2, <3>1, <3>2, FifoCopy
  <2>3. CASE ~(l[t].count # 0 /\ Pipes!PIPE_SIZE # 0)
    <3>1. (Pipes!Wait(t) \/ Pipes!Finish(t)) /\ pipe' = pipe
      BY <1>3, <2>3 DEF Pipes!read_pipe, Pipes!Finish
    <3> QED
      BY <1>3, <2>1, <3>1, FifoPause
  <2> QED
    BY <2>2, <2>3
<1>4. CASE Pipes!write_pipe(t) /\ last' = <<>>
  <2>1. l[t].pc = "write" /\ cpu \in {t, Nobody} /\ UNCHANGED <<filp, file, page>>
    BY <1>4 DEF Pipes!write_pipe, Pipes!Runs
  <2>2. CASE l[t].count # 0 /\ Pipes!Room # 0
    <3>1. /\ Pipes!Copy(t, "copy_in", pipe.head, Pipes!Room)
          /\ pipe' = [pipe EXCEPT !.head = (@ + l'[t].chars) % PAGE_SIZE]
      BY <1>4, <2>2 DEF Pipes!write_pipe
    <3>2. pipe.head \in Pipes!Offset /\ Pipes!Room \in 1 .. PAGE_SIZE - 1
      BY <2>2, RingSize DEF PipeIInv, Ring
    <3> QED
      BY <1>4, <2>1, <2>2, <3>1, <3>2, FifoCopy
  <2>3. CASE ~(l[t].count # 0 /\ Pipes!Room # 0)
    <3>1. (Pipes!Wait(t) \/ Pipes!Finish(t)) /\ pipe' = pipe
      BY <1>4, <2>3 DEF Pipes!write_pipe, Pipes!Finish
    <3> QED
      BY <1>4, <2>1, <3>1, FifoPause
  <2> QED
    BY <2>2, <2>3
<1>5. CASE /\ last' = <<>>
           /\ \/ Pipes!sys_pipe(t) \/ Pipes!sys_close(t) \/ Pipes!sys_dup(t) \/ Pipes!sys_dup2(t)
              \/ Pipes!sys_fork(t) \/ Pipes!do_exit(t) \/ Pipes!sys_read(t) \/ Pipes!sys_write(t)
  BY <1>5, FifoUser
<1> QED
  BY <1>1, <1>2, <1>3, <1>4, <1>5 DEF Pipes!Step

LEMMA FifoInit == Pipes!Init => FifoIInv /\ Pipes!Stream!Init
<1> SUFFICES ASSUME Pipes!Init PROVE FifoIInv /\ Pipes!Stream!Init
  OBVIOUS
<1>1. Ring
  BY PipeInit DEF PipeIInv
<1>2. \A u \in Task : l[u].pc \in {"user", "dead"}
  BY PipeTask DEF Pipes!Init
<1>3. pipe.count = 0 /\ pipe.head = 0 /\ pipe.tail = 0 /\ last = <<>>
  BY DEF Pipes!Init, Pipes!NoPipe
<1>4. FifoIInv
  BY <1>2, <1>3 DEF FifoIInv, Holding, Transfer, Copies
<1>5. Quiet
  BY <1>2 DEF Quiet, Copies
<1>6. Queue = <<>>
  <2>1. 0 \in 0 .. PAGE_SIZE - 1
    BY PipeNumbers
  <2> QED
    BY <1>1, <1>3, <1>5, <2>1, QuietQueue, EmptyBytes
<1>7. (pipe.count > 0) = FALSE
  BY <1>3
<1> QED
  BY <1>3, <1>4, <1>6, <1>7, StreamInit

(* If no copy between the ring and user memory sleeps, every step of       *)
(* pipe(), close(), dup(), dup2(), fork(), exit(), read() and write() by   *)
(* any number of tasks is one of a bounded queue of bytes, or changes      *)
(* nothing of it: none is lost, repeated or reordered.                     *)
THEOREM PipeIsAQueue ==
  ASSUME Faults = FALSE
  PROVE  Spec => ImplementsFifo
<1>1. Init => FifoIInv /\ Pipes!Stream!Init
  BY FifoInit DEF Init
<1>2. ASSUME PipeIInv, PipeIInv', FifoIInv, [Next]_vars
      PROVE  FifoIInv' /\ [part = "pipe" => Pipes!Stream!Next \/ Pipes!Stream!vars' = Pipes!Stream!vars]_vars
  <2>1. CASE PipeStep
    <3>1. PICK t \in Task : Pipes!Step(t)
      BY <2>1 DEF PipeStep, Pipes!Next
    <3> QED
      BY <1>2, <3>1, FifoStep
  <2>2. CASE UNCHANGED vars
    BY <1>2, <2>2 DEF vars, pipeVars, FifoIInv, Holding, Transfer, CopyingOut, CopyingIn
  <2>3. CASE FloppyStep \/ ConsoleStep \/ TerminalStep \/ SuperStep
    <3>1. part # "pipe" /\ UNCHANGED pipeVars
      BY <2>3 DEF FloppyStep, ConsoleStep, TerminalStep, SuperStep
    <3>2. FifoIInv'
      BY <1>2, <3>1 DEF pipeVars, FifoIInv, Holding, Transfer, CopyingOut, CopyingIn
    <3> QED
      BY <3>1, <3>2
  <2> QED
    BY <1>2, <2>1, <2>2, <2>3 DEF Next
<1> QED
  BY <1>1, <1>2, PipeInvariant, PTL DEF Spec, ImplementsFifo
-----------------------------------------------------------------------------
(* Mounted file systems                                                    *)

LEMMA MountsCardinality == ASSUME NEW S PROVE Mounts!Cardinality(S) = Cardinality(S)
BY DEF Mounts!Cardinality, Cardinality

LEMMA MountsFinite == ASSUME NEW S PROVE Mounts!IsFiniteSet(S) <=> IsFiniteSet(S)
BY DEF Mounts!IsFiniteSet, IsFiniteSet

LEMMA SuperNumbers ==
  /\ IsFiniteSet(Mounter) /\ Nobody \notin Mounter /\ None \notin Dev /\ None \notin Dir /\ Dev \cap Dir = {}
  /\ Mounts!Slot \subseteq Nat /\ 0 \notin Mounts!Slot /\ IsFiniteSet(Mounts!Slot)
<1>1. /\ IsFiniteSet(Mounter) /\ Nobody \notin Mounter /\ None \notin Dev /\ None \notin Dir /\ Dev \cap Dir = {}
      /\ NR_SUPER \in Nat
  BY DevicesAssumption, MountsFinite DEF DevicesAssumption, Mounts!SuperAssumption
<1>2. Mounts!Slot = 1 .. NR_SUPER
  BY DEF Mounts!Slot
<1>3. IsFiniteSet(1 .. NR_SUPER)
  <2>1. 1 \in Int /\ NR_SUPER \in Int
    BY <1>1
  <2> QED
    BY <2>1, FS_Interval
<1> QED
  BY <1>1, <1>2, <1>3

SuperPc == {"user", "read_super", "bread", "mount", "iput", "write", "get_super", "put_super"}
Call == [pc : SuperPc, dev : Dev \cup {None}, dir : Dir \cup {None},
         slot : Mounts!Slot \cup {0}, holds : Dev \cup Dir \cup {None}]
Entry == [dev : Dev \cup {None}, lock : BOOLEAN, imount : Dir \cup {None}]
Directory == [count : Int, mount : BOOLEAN, dirt : BOOLEAN, lock : BOOLEAN]

SuperTypes ==
  /\ super \in [Mounts!Slot -> Entry] /\ dir \in [Dir -> Directory]
  /\ root \in [Dev -> Int] /\ call \in [Mounter -> Call]
  /\ program \in Program

(* What a task that mounts or unmounts relies on.                          *)
Shape(t) ==
  /\ call[t].pc = "user" => call[t].slot = 0 /\ call[t].dir = None /\ call[t].dev = None
  /\ call[t].pc = "read_super" => call[t].slot = 0 /\ call[t].dev \in Dev /\ call[t].dir \in Dir
  /\ call[t].pc = "bread" =>
       /\ call[t].dev \in Dev /\ call[t].dir \in Dir /\ call[t].slot \in Mounts!Slot
       /\ super[call[t].slot] = [dev |-> call[t].dev, lock |-> TRUE, imount |-> None]
  /\ call[t].pc = "mount" =>
       /\ call[t].dev \in Dev /\ call[t].dir \in Dir /\ call[t].slot \in Mounts!Slot
       /\ super[call[t].slot].dev = call[t].dev /\ ~super[call[t].slot].lock
       /\ runner = t
  /\ call[t].pc \in {"iput", "write"} => call[t].dir \in Dir
  /\ call[t].pc \in {"iput", "write"} /\ call[t].slot # 0 =>
       /\ t \in program.umounts /\ call[t].dev \in Dev
       /\ super[call[t].slot].imount = call[t].dir /\ super[call[t].slot].dev = call[t].dev
       /\ ~(root[call[t].dev] > 0)
  /\ call[t].pc = "put_super" => call[t].slot # 0

(* The directory on which a task mounts is its own.                        *)
Mounting(t) == call[t].pc \in {"read_super", "bread", "mount"}
Reserved(t) ==
  Mounting(t) =>
    /\ \A s \in Mounts!Slot : super[s].imount # call[t].dir
    /\ \A u \in Mounter : u # t /\ Mounting(u) => call[u].dir # call[t].dir

(* A task counts for the directory d apart from what it holds.             *)
CountsFor(t, d) ==
  call[t].dir = d /\ call[t].holds # d /\ (call[t].slot = 0 \/ call[t].pc \in {"bread", "mount"})
OwnReference(t) ==
  call[t].dir \in Dir /\ (call[t].slot = 0 \/ call[t].pc \in {"bread", "mount"}) => call[t].holds # call[t].dir

EntriesOn(d) == {s \in Mounts!Slot : super[s].imount = d}
HoldersOf(d) == {t \in Mounter : call[t].holds = d}
OthersOf(d) == {t \in Mounter : CountsFor(t, d)}
CountRight(d) ==
  dir[d].count = Cardinality(EntriesOn(d)) + Cardinality(HoldersOf(d)) + Cardinality(OthersOf(d))

FlagRight(d) == dir[d].mount <=> \E s \in Mounts!Slot : super[s].imount = d /\ ~Mounts!Umounting(s)

EntriesApart ==
  /\ \A s, o \in Mounts!Slot : s # o /\ super[s].dev # None =>
       super[s].dev # super[o].dev /\ (super[s].imount # None => super[s].imount # super[o].imount)
  /\ \A s \in Mounts!Slot : super[s].imount # None => super[s].dev # None
  /\ \A t, u \in Mounter : t # u /\ call[t].pc = "bread" /\ call[u].pc = "bread" => call[t].slot # call[u].slot

InUseMounted == \A dev \in Dev : root[dev] > 0 => \E s \in Mounts!Slot : super[s].dev = dev /\ super[s].imount # None

SuperIInv ==
  /\ SuperTypes /\ ~panic
  /\ \A t \in Mounter : Shape(t) /\ Reserved(t) /\ OwnReference(t)
  /\ \A d \in Dir : CountRight(d) /\ FlagRight(d)
  /\ EntriesApart /\ InUseMounted

(* One task of a program unmounts.                                         *)
OneUmounts == \A p \in Program : \A t, u \in p.umounts : t = u

(* The tasks other than t do not move.                                     *)
Only(t) == \A u \in Mounter : u # t => call'[u] = call[u]

LEMMA TaskCounts ==
  ASSUME NEW t \in Mounter, Only(t), NEW d
  PROVE  /\ Cardinality(HoldersOf(d)) \in Nat /\ Cardinality(OthersOf(d)) \in Nat
         /\ Cardinality(HoldersOf(d)') \in Nat /\ Cardinality(OthersOf(d)') \in Nat
         /\ Cardinality(HoldersOf(d)') = Cardinality(HoldersOf(d)) - (IF call[t].holds = d THEN 1 ELSE 0)
                                                                  + (IF call'[t].holds = d THEN 1 ELSE 0)
         /\ Cardinality(OthersOf(d)') = Cardinality(OthersOf(d)) - (IF CountsFor(t, d) THEN 1 ELSE 0)
                                                                + (IF CountsFor(t, d)' THEN 1 ELSE 0)
<1> DEFINE A == HoldersOf(d)
           B == HoldersOf(d)'
           C == OthersOf(d)
           D == OthersOf(d)'
<1>1. /\ A \in SUBSET Mounter /\ B \in SUBSET Mounter /\ A \ {t} = B \ {t}
      /\ t \in A <=> call[t].holds = d
      /\ t \in B <=> call'[t].holds = d
  BY DEF HoldersOf, Only
<1>2. /\ C \in SUBSET Mounter /\ D \in SUBSET Mounter /\ C \ {t} = D \ {t}
      /\ t \in C <=> CountsFor(t, d)
      /\ t \in D <=> CountsFor(t, d)'
  BY DEF OthersOf, Only, CountsFor
<1> HIDE DEF A, B, C, D
<1>3. /\ Cardinality(A) \in Nat /\ Cardinality(B) \in Nat
      /\ Cardinality(B) = Cardinality(A) - (IF t \in A THEN 1 ELSE 0) + (IF t \in B THEN 1 ELSE 0)
  BY <1>1, SuperNumbers, OneCell
<1>4. /\ Cardinality(C) \in Nat /\ Cardinality(D) \in Nat
      /\ Cardinality(D) = Cardinality(C) - (IF t \in C THEN 1 ELSE 0) + (IF t \in D THEN 1 ELSE 0)
  BY <1>2, SuperNumbers, OneCell
<1> QED
  BY <1>1, <1>2, <1>3, <1>4 DEF A, B, C, D

LEMMA EntryCounts ==
  ASSUME NEW s \in Mounts!Slot, \A o \in Mounts!Slot : o # s => super'[o].imount = super[o].imount, NEW d
  PROVE  /\ Cardinality(EntriesOn(d)) \in Nat /\ Cardinality(EntriesOn(d)') \in Nat
         /\ Cardinality(EntriesOn(d)') = Cardinality(EntriesOn(d)) - (IF super[s].imount = d THEN 1 ELSE 0)
                                                                  + (IF super'[s].imount = d THEN 1 ELSE 0)
<1> DEFINE A == EntriesOn(d)
           B == EntriesOn(d)'
<1>1. /\ A \in SUBSET Mounts!Slot /\ B \in SUBSET Mounts!Slot /\ A \ {s} = B \ {s}
      /\ s \in A <=> super[s].imount = d
      /\ s \in B <=> super'[s].imount = d
  BY DEF EntriesOn
<1> HIDE DEF A, B
<1>2. /\ Cardinality(A) \in Nat /\ Cardinality(B) \in Nat
      /\ Cardinality(B) = Cardinality(A) - (IF s \in A THEN 1 ELSE 0) + (IF s \in B THEN 1 ELSE 0)
  <2>1. IsFiniteSet(Mounts!Slot)
    BY SuperNumbers
  <2> QED
    BY <1>1, <2>1, OneCell
<1> QED
  BY <1>1, <1>2 DEF A, B

LEMMA EntriesFinite == \A d : Cardinality(EntriesOn(d)) \in Nat
<1> TAKE d
<1>1. IsFiniteSet(EntriesOn(d))
  BY SuperNumbers, FS_Subset DEF EntriesOn
<1> QED
  BY <1>1, FS_CardinalityType

(* The tasks move, and the entries point where they did.                   *)
LEMMA CountsMove ==
  ASSUME \A d \in Dir : CountRight(d), SuperTypes, NEW t \in Mounter, Only(t),
         \A s \in Mounts!Slot : super'[s].imount = super[s].imount,
         \A d \in Dir : dir'[d].count = dir[d].count
              - (IF call[t].holds = d THEN 1 ELSE 0) + (IF call'[t].holds = d THEN 1 ELSE 0)
              - (IF CountsFor(t, d) THEN 1 ELSE 0) + (IF CountsFor(t, d)' THEN 1 ELSE 0)
  PROVE  \A d \in Dir : CountRight(d)'
<1> TAKE d \in Dir
<1>1. EntriesOn(d)' = EntriesOn(d)
  BY DEF EntriesOn
<1>2. PICK e \in Nat : e = Cardinality(EntriesOn(d)) /\ e = Cardinality(EntriesOn(d)')
  BY <1>1, EntriesFinite
<1>3. /\ Cardinality(HoldersOf(d)) \in Nat /\ Cardinality(OthersOf(d)) \in Nat
      /\ Cardinality(HoldersOf(d)') \in Nat /\ Cardinality(OthersOf(d)') \in Nat
      /\ Cardinality(HoldersOf(d)') = Cardinality(HoldersOf(d)) - (IF call[t].holds = d THEN 1 ELSE 0)
                                                               + (IF call'[t].holds = d THEN 1 ELSE 0)
      /\ Cardinality(OthersOf(d)') = Cardinality(OthersOf(d)) - (IF CountsFor(t, d) THEN 1 ELSE 0)
                                                             + (IF CountsFor(t, d)' THEN 1 ELSE 0)
  BY TaskCounts
<1>4. dir[d].count = e + Cardinality(HoldersOf(d)) + Cardinality(OthersOf(d))
  BY <1>2 DEF CountRight
<1>5. dir'[d].count = e + Cardinality(HoldersOf(d)') + Cardinality(OthersOf(d)')
  BY <1>3, <1>4
<1> QED
  BY <1>2, <1>5 DEF CountRight

LEMMA CountZero ==
  ASSUME NEW d \in Dir, CountRight(d)
  PROVE  /\ dir[d].count \in Nat
         /\ dir[d].count = 0 => /\ \A s \in Mounts!Slot : super[s].imount # d
                                /\ \A t \in Mounter : call[t].holds # d /\ ~CountsFor(t, d)
<1> DEFINE A == EntriesOn(d)
           B == HoldersOf(d)
           C == OthersOf(d)
<1>1. IsFiniteSet(A) /\ IsFiniteSet(B) /\ IsFiniteSet(C)
  BY SuperNumbers, FS_Subset DEF EntriesOn, HoldersOf, OthersOf
<1>2. dir[d].count = Cardinality(A) + Cardinality(B) + Cardinality(C)
  BY DEF CountRight
<1>3. /\ \A s \in Mounts!Slot : super[s].imount = d => s \in A
      /\ \A t \in Mounter : (call[t].holds = d => t \in B) /\ (CountsFor(t, d) => t \in C)
  BY DEF EntriesOn, HoldersOf, OthersOf
<1> HIDE DEF A, B, C
<1>4. /\ Cardinality(A) \in Nat /\ Cardinality(B) \in Nat /\ Cardinality(C) \in Nat
      /\ (Cardinality(A) = 0 => A = {}) /\ (Cardinality(B) = 0 => B = {}) /\ (Cardinality(C) = 0 => C = {})
  <2>1. Cardinality(A) \in Nat /\ (Cardinality(A) = 0 => A = {})
    BY <1>1, FS_CardinalityType, FS_EmptySet
  <2>2. Cardinality(B) \in Nat /\ (Cardinality(B) = 0 => B = {})
    BY <1>1, FS_CardinalityType, FS_EmptySet
  <2>3. Cardinality(C) \in Nat /\ (Cardinality(C) = 0 => C = {})
    BY <1>1, FS_CardinalityType, FS_EmptySet
  <2> QED
    BY <2>1, <2>2, <2>3
<1>5. dir[d].count \in Nat /\ (dir[d].count = 0 => A = {} /\ B = {} /\ C = {})
  <2>1. PICK a, b, c \in Nat : a = Cardinality(A) /\ b = Cardinality(B) /\ c = Cardinality(C)
    BY <1>4
  <2>2. dir[d].count = a + b + c
    BY <1>2, <2>1
  <2>3. dir[d].count \in Nat
    BY <2>2
  <2>4. dir[d].count = 0 => a = 0 /\ b = 0 /\ c = 0
    BY <2>2
  <2>5. a = 0 /\ b = 0 /\ c = 0 => A = {} /\ B = {} /\ C = {}
    BY <1>4, <2>1
  <2> QED
    BY <2>3, <2>4, <2>5
<1> QED
  BY <1>3, <1>5

LEMMA SuperGo ==
  ASSUME SuperTypes, NEW t \in Mounter, NEW r \in Call, Mounts!Go(t, r) \/ Mounts!Sleeps(t, r)
  PROVE  /\ call' \in [Mounter -> Call] /\ call'[t] = r /\ Only(t)
         /\ Mounts!Go(t, r) /\ r.pc # "user" => runner' = t
BY DEF SuperTypes, Only, Mounts!Go, Mounts!Sleeps

(* At the end of sys_mount() nobody else runs.                             *)
LEMMA NobodyMounts ==
  ASSUME \A u \in Mounter : Shape(u), NEW t \in Mounter, NEW pc, Mounts!Runs(t, pc)
  PROVE  \A u \in Mounter : u # t => call[u].pc # "mount"
BY DEF Shape, Mounts!Runs, Mounts!Waits

LEMMA ShapesKept ==
  ASSUME \A u \in Mounter : Shape(u), NEW t \in Mounter, Only(t), program' = program,
         \A u \in Mounter : u # t => call[u].pc # "mount",
         \A u \in Mounter : u # t /\ call[u].pc = "bread" => super'[call[u].slot] = super[call[u].slot],
         \A u \in Mounter : u # t /\ call[u].pc \in {"iput", "write"} /\ call[u].slot # 0 =>
            /\ super'[call[u].slot].imount = super[call[u].slot].imount
            /\ super'[call[u].slot].dev = super[call[u].slot].dev
            /\ ~(root'[call[u].dev] > 0)
  PROVE  \A u \in Mounter : u # t => Shape(u)'
BY DEF Shape, Only

LEMMA ReferencesKept ==
  ASSUME \A u \in Mounter : OwnReference(u), NEW t \in Mounter, Only(t)
  PROVE  \A u \in Mounter : u # t => OwnReference(u)'
BY DEF OwnReference, Only

LEMMA ReservedKept ==
  ASSUME \A u \in Mounter : Shape(u) /\ Reserved(u), NEW t \in Mounter, Only(t),
         \A s \in Mounts!Slot : super'[s].imount \in {None, super[s].imount},
         Mounting(t)' => Mounting(t) /\ call'[t].dir = call[t].dir
  PROVE  \A u \in Mounter : Reserved(u)'
<1> SUFFICES ASSUME NEW u \in Mounter, Mounting(u)'
             PROVE  /\ \A s \in Mounts!Slot : super'[s].imount # call'[u].dir
                    /\ \A v \in Mounter : v # u /\ Mounting(v)' => call'[v].dir # call'[u].dir
  BY DEF Reserved
<1>1. \A v \in Mounter : Mounting(v)' => Mounting(v) /\ call'[v].dir = call[v].dir
  BY DEF Only, Mounting
<1>2. call[u].dir \in Dir /\ call'[u].dir = call[u].dir /\ Mounting(u)
  BY <1>1 DEF Shape, Mounting
<1>3. \A s \in Mounts!Slot : super'[s].imount # call'[u].dir
  BY <1>2, SuperNumbers DEF Reserved
<1>4. \A v \in Mounter : v # u /\ Mounting(v)' => call'[v].dir # call'[u].dir
  BY <1>1, <1>2 DEF Reserved
<1> QED
  BY <1>3, <1>4

(* A task that unmounts the entry s.                                       *)
Unmounts(t, s) == call[t].slot = s /\ call[t].pc \in {"iput", "write"}

LEMMA FlagsKept ==
  ASSUME \A d \in Dir : FlagRight(d), NEW t \in Mounter, Only(t),
         \A s \in Mounts!Slot : super'[s].imount = super[s].imount,
         \A d \in Dir : dir'[d].mount = dir[d].mount,
         \A s \in Mounts!Slot : Unmounts(t, s)' <=> Unmounts(t, s)
  PROVE  \A d \in Dir : FlagRight(d)'
<1>1. \A s \in Mounts!Slot : Mounts!Umounting(s)' <=> Mounts!Umounting(s)
  <2> TAKE s \in Mounts!Slot
  <2>1. \A u \in Mounter : Unmounts(u, s)' <=> Unmounts(u, s)
    BY DEF Only, Unmounts
  <2>2. Mounts!Umounting(s) <=> \E u \in Mounter : Unmounts(u, s)
    BY DEF Mounts!Umounting, Unmounts
  <2>3. Mounts!Umounting(s)' <=> \E u \in Mounter : Unmounts(u, s)'
    BY DEF Mounts!Umounting, Unmounts
  <2> QED
    BY <2>1, <2>2, <2>3
<1> QED
  BY <1>1 DEF FlagRight

(* The tasks move and the counts of directories change, but no entry and   *)
(* no use of a device.                                                     *)
LEMMA SuperQuiet ==
  ASSUME SuperIInv, NEW t \in Mounter, Only(t),
         call' \in [Mounter -> Call], dir' \in [Dir -> Directory],
         UNCHANGED <<super, root, program>>, ~panic',
         \A d \in Dir : dir'[d].mount = dir[d].mount,
         \A u \in Mounter : u # t => call[u].pc # "mount",
         Shape(t)', OwnReference(t)', \A u \in Mounter : Reserved(u)',
         \A s \in Mounts!Slot : Unmounts(t, s)' <=> Unmounts(t, s),
         call'[t].pc # "bread",
         \A d \in Dir : dir'[d].count = dir[d].count
              - (IF call[t].holds = d THEN 1 ELSE 0) + (IF call'[t].holds = d THEN 1 ELSE 0)
              - (IF CountsFor(t, d) THEN 1 ELSE 0) + (IF CountsFor(t, d)' THEN 1 ELSE 0)
  PROVE  SuperIInv'
<1>1. /\ SuperTypes /\ (\A u \in Mounter : Shape(u) /\ Reserved(u) /\ OwnReference(u))
      /\ (\A d \in Dir : CountRight(d) /\ FlagRight(d)) /\ EntriesApart /\ InUseMounted
  BY DEF SuperIInv
<1>2. SuperTypes'
  BY <1>1 DEF SuperTypes
<1>3. \A u \in Mounter : Shape(u)'
  <2>1. \A u \in Mounter : u # t /\ call[u].pc \in {"iput", "write"} /\ call[u].slot # 0 =>
           ~(root[call[u].dev] > 0)
    BY <1>1 DEF Shape
  <2>2. \A u \in Mounter : u # t => Shape(u)'
    BY <1>1, <2>1, ShapesKept
  <2> QED
    BY <2>2
<1>4. \A u \in Mounter : OwnReference(u)'
  <2>1. \A u \in Mounter : u # t => OwnReference(u)'
    BY <1>1, ReferencesKept
  <2> QED
    BY <2>1
<1>5. \A d \in Dir : CountRight(d)'
  BY <1>1, CountsMove
<1>6. \A d \in Dir : FlagRight(d)'
  BY <1>1, FlagsKept
<1>7. EntriesApart'
  BY <1>1 DEF EntriesApart, Only
<1>8. InUseMounted'
  BY <1>1 DEF InUseMounted
<1> QED
  BY <1>2, <1>3, <1>4, <1>5, <1>6, <1>7, <1>8 DEF SuperIInv

LEMMA SuperFacts ==
  ASSUME SuperIInv, NEW t \in Mounter
  PROVE  /\ SuperTypes /\ ~panic /\ EntriesApart /\ InUseMounted
         /\ \A u \in Mounter : Shape(u) /\ Reserved(u) /\ OwnReference(u)
         /\ \A d \in Dir : CountRight(d) /\ FlagRight(d)
         /\ call[t] \in Call /\ Shape(t) /\ Reserved(t) /\ OwnReference(t)
BY DEF SuperIInv, SuperTypes

LEMMA SuperStill ==
  ASSUME SuperIInv, UNCHANGED <<super, dir, root, call, runner, panic, program>>
  PROVE  SuperIInv'
<1>1. /\ SuperTypes /\ ~panic /\ EntriesApart /\ InUseMounted
      /\ \A u \in Mounter : Shape(u) /\ Reserved(u) /\ OwnReference(u)
      /\ \A d \in Dir : CountRight(d) /\ FlagRight(d)
  BY DEF SuperIInv
<1>2. SuperTypes' /\ ~panic' /\ EntriesApart' /\ InUseMounted'
  BY <1>1 DEF SuperTypes, EntriesApart, InUseMounted
<1>3. \A u \in Mounter : Shape(u)' /\ Reserved(u)' /\ OwnReference(u)'
  BY <1>1 DEF Shape, Reserved, Mounting, OwnReference
<1>4. \A d \in Dir : CountRight(d)' /\ FlagRight(d)'
  <2>1. \A d \in Dir : CountRight(d)'
    BY <1>1 DEF CountRight, EntriesOn, HoldersOf, OthersOf, CountsFor
  <2>2. \A d \in Dir : FlagRight(d)'
    BY <1>1 DEF FlagRight, Mounts!Umounting
  <2> QED
    BY <2>1, <2>2
<1> QED
  BY <1>2, <1>3, <1>4 DEF SuperIInv

LEMMA SuperMountStart ==
  ASSUME SuperIInv, NEW t \in Mounter, Mounts!sys_mount(t)
  PROVE  SuperIInv'
<1>1. /\ SuperTypes /\ (\A u \in Mounter : Shape(u) /\ Reserved(u))
      /\ (\A d \in Dir : CountRight(d)) /\ call[t] \in Call /\ Shape(t)
  BY SuperFacts
<1>2. PICK dev \in Dev, d \in Dir :
         IF dir[d].mount \/ dir[d].count > 0 THEN UNCHANGED <<dir, call, runner>>
         ELSE /\ dir' = [dir EXCEPT ![d].count = 1]
              /\ Mounts!Go(t, [call[t] EXCEPT !.pc = "read_super", !.dev = dev, !.dir = d])
  BY DEF Mounts!sys_mount
<1>3. Mounts!Runs(t, "user") /\ UNCHANGED <<super, root, panic, program>>
  BY DEF Mounts!sys_mount
<1>4. call[t].pc = "user" /\ \A u \in Mounter : u # t => call[u].pc # "mount"
  BY <1>1, <1>3, NobodyMounts DEF Mounts!Runs
<1>5. CASE dir[d].mount \/ dir[d].count > 0
  <2>1. UNCHANGED <<super, dir, root, call, runner, panic, program>>
    BY <1>2, <1>3, <1>5
  <2> QED
    BY <2>1, SuperStill
<1>6. CASE ~(dir[d].mount \/ dir[d].count > 0)
  <2> DEFINE r == [call[t] EXCEPT !.pc = "read_super", !.dev = dev, !.dir = d]
  <2>1. /\ r \in Call /\ r.pc = "read_super" /\ r.dev = dev /\ r.dir = d /\ r.slot = 0
        /\ r.holds = call[t].holds
    BY <1>1, <1>4 DEF Call, SuperPc, Shape
  <2>2. dir' = [dir EXCEPT ![d].count = 1] /\ Mounts!Go(t, r)
    BY <1>2, <1>6
  <2> HIDE DEF r
  <2>3. call' \in [Mounter -> Call] /\ call'[t] = r /\ Only(t)
    BY <1>1, <2>1, <2>2, SuperGo
  <2>4. /\ dir' \in [Dir -> Directory] /\ \A e \in Dir : dir'[e].mount = dir[e].mount
        /\ \A e \in Dir : dir'[e].count = IF e = d THEN 1 ELSE dir[e].count
    BY <1>1, <2>2 DEF SuperTypes, Directory
  <2>5. /\ dir[d].count = 0
        /\ \A s \in Mounts!Slot : super[s].imount # d
        /\ \A u \in Mounter : call[u].holds # d /\ ~CountsFor(u, d)
    BY <1>1, <1>6, CountZero
  <2>6. Shape(t)' /\ OwnReference(t)'
    BY <2>1, <2>3, <2>5 DEF Shape, OwnReference
  <2>7. \A u \in Mounter : Reserved(u)'
    <3>1. \A u \in Mounter : u # t /\ Mounting(u) => call[u].dir # d
      <4> SUFFICES ASSUME NEW u \in Mounter, u # t, Mounting(u) PROVE call[u].dir # d
        OBVIOUS
      <4>1. (call[u].slot = 0 \/ call[u].pc \in {"bread", "mount"}) /\ call[u].holds # d
        BY <1>1, <2>5 DEF Mounting, Shape
      <4> QED
        BY <2>5, <4>1 DEF CountsFor
    <3>2. \A u \in Mounter : u # t => (Mounting(u)' <=> Mounting(u)) /\ call'[u] = call[u]
      BY <2>3 DEF Only, Mounting
    <3>3. \A s \in Mounts!Slot : super'[s] = super[s]
      BY <1>3
    <3> QED
      BY <1>1, <2>1, <2>3, <2>5, <3>1, <3>2, <3>3 DEF Reserved
  <2>8. \A s \in Mounts!Slot : Unmounts(t, s)' <=> Unmounts(t, s)
    BY <1>4, <2>1, <2>3 DEF Unmounts
  <2>9. \A e \in Dir : dir'[e].count = dir[e].count
              - (IF call[t].holds = e THEN 1 ELSE 0) + (IF call'[t].holds = e THEN 1 ELSE 0)
              - (IF CountsFor(t, e) THEN 1 ELSE 0) + (IF CountsFor(t, e)' THEN 1 ELSE 0)
    <3> TAKE e \in Dir
    <3>1. ~CountsFor(t, e)
      BY <1>1, <1>4, SuperNumbers DEF Shape, CountsFor
    <3>2. CountsFor(t, e)' <=> e = d
      BY <2>1, <2>3, <2>5 DEF CountsFor
    <3>3. dir[e].count \in Int /\ call'[t].holds = call[t].holds
      BY <1>1, <2>1, <2>3 DEF SuperTypes, Directory
    <3> QED
      BY <2>4, <2>5, <3>1, <3>2, <3>3
  <2>10. ~panic'
    BY <1>3 DEF SuperIInv
  <2> QED
    BY <1>3, <1>4, <2>1, <2>3, <2>4, <2>6, <2>7, <2>8, <2>9, <2>10, SuperQuiet
<1> QED
  BY <1>5, <1>6

LEMMA SuperTurn ==
  ASSUME SuperIInv, NEW t \in Mounter, NEW pc, Mounts!Runs(t, pc)
  PROVE  /\ call[t].pc = pc /\ ~Mounts!Waits(t)
         /\ \A u \in Mounter : u # t => call[u].pc # "mount"
<1>1. \A u \in Mounter : Shape(u)
  BY SuperFacts
<1> QED
  BY <1>1, NobodyMounts DEF Mounts!Runs

(* The task moves on, and counts for the same directories.                 *)
LEMMA SuperMove ==
  ASSUME SuperIInv, NEW t \in Mounter, NEW r \in Call, Mounts!Go(t, r) \/ Mounts!Sleeps(t, r),
         UNCHANGED <<super, root, program, panic>>, dir' \in [Dir -> Directory],
         \A d \in Dir : dir'[d].mount = dir[d].mount /\ dir'[d].count = dir[d].count,
         \A u \in Mounter : u # t => call[u].pc # "mount",
         Shape(t)', r.pc # "bread", Mounting(t)' => Mounting(t), r.dir = call[t].dir,
         r.holds = call[t].holds,
         r.slot = 0 \/ r.pc = "mount" <=> call[t].slot = 0 \/ call[t].pc \in {"bread", "mount"},
         r.pc \in {"iput", "write"} <=> call[t].pc \in {"iput", "write"},
         call[t].pc \in {"iput", "write"} => r.slot = call[t].slot
  PROVE  SuperIInv'
<1>1. /\ SuperTypes /\ (\A u \in Mounter : Shape(u) /\ Reserved(u)) /\ OwnReference(t) /\ ~panic
  BY SuperFacts
<1>2. call' \in [Mounter -> Call] /\ call'[t] = r /\ Only(t)
  BY <1>1, SuperGo
<1>3. \A u \in Mounter : Reserved(u)'
  BY <1>1, <1>2, ReservedKept
<1>4. OwnReference(t)'
  BY <1>1, <1>2 DEF OwnReference
<1>5. \A s \in Mounts!Slot : Unmounts(t, s)' <=> Unmounts(t, s)
  BY <1>2 DEF Unmounts
<1>6. \A d \in Dir : CountsFor(t, d)' <=> CountsFor(t, d)
  BY <1>2 DEF CountsFor
<1>7. \A d \in Dir : dir'[d].count = dir[d].count
              - (IF call[t].holds = d THEN 1 ELSE 0) + (IF call'[t].holds = d THEN 1 ELSE 0)
              - (IF CountsFor(t, d) THEN 1 ELSE 0) + (IF CountsFor(t, d)' THEN 1 ELSE 0)
  <2> TAKE d \in Dir
  <2>1. dir[d].count \in Int /\ dir'[d].count = dir[d].count
    BY <1>1 DEF SuperTypes, Directory
  <2>2. CountsFor(t, d)' <=> CountsFor(t, d)
    BY <1>6
  <2> QED
    BY <1>2, <2>1, <2>2
<1> QED
  BY <1>1, <1>2, <1>3, <1>4, <1>5, <1>7, SuperQuiet

LEMMA SuperFound ==
  ASSUME SuperIInv, NEW t \in Mounter, Mounts!Runs(t, "read_super"),
         NEW s \in Mounts!Entries(call[t].dev),
         Mounts!Go(t, [call[t] EXCEPT !.pc = "mount", !.slot = s]),
         UNCHANGED <<super, dir, root, panic, program>>
  PROVE  SuperIInv'
<1>1. SuperTypes /\ Shape(t) /\ call[t] \in Call
  BY SuperFacts
<1>2. /\ call[t].pc = "read_super" /\ ~Mounts!Waits(t)
      /\ \A u \in Mounter : u # t => call[u].pc # "mount"
  BY SuperTurn
<1>3. s \in Mounts!Slot /\ super[s].dev = call[t].dev /\ ~super[s].lock
  BY <1>2 DEF Mounts!Entries, Mounts!Waits, Mounts!Locked
<1> DEFINE r == [call[t] EXCEPT !.pc = "mount", !.slot = s]
<1>4. /\ r \in Call /\ r.pc = "mount" /\ r.slot = s /\ r.dev = call[t].dev /\ r.dir = call[t].dir
      /\ r.holds = call[t].holds /\ Mounts!Go(t, r)
  BY <1>1, <1>3 DEF Call, SuperPc
<1> HIDE DEF r
<1>5. call'[t] = r /\ runner' = t
  BY <1>1, <1>4, SuperGo
<1>6. Shape(t)'
  BY <1>1, <1>2, <1>3, <1>4, <1>5 DEF Shape
<1>7. call[t].slot = 0 /\ r.slot # 0
  BY <1>1, <1>2, <1>3, <1>4, SuperNumbers DEF Shape
<1>8. Mounting(t)' => Mounting(t)
  BY <1>2 DEF Mounting
<1>9. dir' \in [Dir -> Directory] /\ \A d \in Dir : dir'[d].mount = dir[d].mount /\ dir'[d].count = dir[d].count
  BY <1>1 DEF SuperTypes
<1> QED
  BY <1>2, <1>4, <1>6, <1>7, <1>8, <1>9, SuperMove

(* sys_mount() fails, and gives the directory back.                        *)
LEMMA SuperFails ==
  ASSUME SuperIInv, NEW t \in Mounter, NEW pc \in {"read_super", "mount"}, Mounts!Runs(t, pc),
         NEW r, r = [call[t] EXCEPT !.pc = "iput", !.slot = 0], Mounts!Go(t, r),
         UNCHANGED <<super, dir, root, panic, program>>
  PROVE  SuperIInv'
<1>1. SuperTypes /\ Shape(t) /\ call[t] \in Call /\ ~panic /\ OwnReference(t)
      /\ \A u \in Mounter : Shape(u) /\ Reserved(u)
  BY SuperFacts
<1>2. /\ call[t].pc = pc
      /\ \A u \in Mounter : u # t => call[u].pc # "mount"
  BY SuperTurn
<1>4. /\ r \in Call /\ r.pc = "iput" /\ r.slot = 0 /\ r.dev = call[t].dev /\ r.dir = call[t].dir
      /\ r.holds = call[t].holds
  BY <1>1 DEF Call, SuperPc
<1>5. call' \in [Mounter -> Call] /\ call'[t] = r /\ Only(t)
  BY <1>1, <1>4, SuperGo
<1>6. call[t].dir \in Dir /\ (call[t].slot = 0 \/ call[t].pc = "mount")
  BY <1>1, <1>2 DEF Shape
<1>7. Shape(t)' /\ OwnReference(t)'
  BY <1>1, <1>4, <1>5, <1>6 DEF Shape, OwnReference
<1>8. ~Mounting(t)'
  BY <1>4, <1>5 DEF Mounting
<1>9. \A u \in Mounter : Reserved(u)'
  BY <1>1, <1>5, <1>8, ReservedKept
<1>10. \A s \in Mounts!Slot : Unmounts(t, s)' <=> Unmounts(t, s)
  BY <1>2, <1>4, <1>5, SuperNumbers DEF Unmounts
<1>11. \A d \in Dir : dir'[d].count = dir[d].count
              - (IF call[t].holds = d THEN 1 ELSE 0) + (IF call'[t].holds = d THEN 1 ELSE 0)
              - (IF CountsFor(t, d) THEN 1 ELSE 0) + (IF CountsFor(t, d)' THEN 1 ELSE 0)
  <2> TAKE d \in Dir
  <2>1. dir[d].count \in Int /\ dir'[d].count = dir[d].count
    BY <1>1 DEF SuperTypes, Directory
  <2>2. CountsFor(t, d)' <=> CountsFor(t, d)
    BY <1>4, <1>5, <1>6 DEF CountsFor
  <2> QED
    BY <1>4, <1>5, <2>1, <2>2
<1>12. dir' \in [Dir -> Directory] /\ \A d \in Dir : dir'[d].mount = dir[d].mount
  BY <1>1 DEF SuperTypes
<1> QED
  BY <1>1, <1>2, <1>4, <1>5, <1>7, <1>9, <1>10, <1>11, <1>12, SuperQuiet

(* Entries change that point to no directory.                              *)
LEMMA SuperEntries ==
  ASSUME SuperIInv, NEW t \in Mounter, Only(t),
         call' \in [Mounter -> Call], super' \in [Mounts!Slot -> Entry],
         UNCHANGED <<dir, root, program, panic>>,
         \A s \in Mounts!Slot : super'[s].imount = super[s].imount,
         \A s \in Mounts!Slot : super[s].imount # None => super'[s] = super[s],
         \A u \in Mounter : u # t => call[u].pc # "mount",
         \A u \in Mounter : u # t /\ call[u].pc = "bread" => super'[call[u].slot] = super[call[u].slot],
         Shape(t)', OwnReference(t)', Mounting(t)' => Mounting(t) /\ call'[t].dir = call[t].dir,
         EntriesApart',
         \A s \in Mounts!Slot : Unmounts(t, s)' <=> Unmounts(t, s),
         call'[t].holds = call[t].holds, \A d \in Dir : CountsFor(t, d)' <=> CountsFor(t, d)
  PROVE  SuperIInv'
<1>1. /\ SuperTypes /\ (\A u \in Mounter : Shape(u) /\ Reserved(u) /\ OwnReference(u))
      /\ (\A d \in Dir : CountRight(d) /\ FlagRight(d)) /\ InUseMounted /\ ~panic
  BY DEF SuperIInv
<1>2. SuperTypes' /\ ~panic'
  BY <1>1 DEF SuperTypes
<1>3. \A u \in Mounter : Shape(u)'
  <2>1. \A u \in Mounter : u # t /\ call[u].pc \in {"iput", "write"} /\ call[u].slot # 0 =>
            /\ super'[call[u].slot].imount = super[call[u].slot].imount
            /\ super'[call[u].slot].dev = super[call[u].slot].dev
            /\ ~(root'[call[u].dev] > 0)
    <3> SUFFICES ASSUME NEW u \in Mounter, call[u].pc \in {"iput", "write"}, call[u].slot # 0
                 PROVE  /\ super'[call[u].slot] = super[call[u].slot]
                        /\ ~(root'[call[u].dev] > 0)
      OBVIOUS
    <3>1. /\ call[u].slot \in Mounts!Slot /\ super[call[u].slot].imount = call[u].dir /\ call[u].dir \in Dir
          /\ ~(root[call[u].dev] > 0)
      BY <1>1 DEF Shape, SuperTypes, Call
    <3>2. super[call[u].slot].imount # None
      BY <3>1, SuperNumbers
    <3> QED
      BY <3>1, <3>2
  <2>2. \A u \in Mounter : u # t => Shape(u)'
    BY <1>1, <2>1, ShapesKept
  <2> QED
    BY <2>2
<1>4. \A u \in Mounter : OwnReference(u)'
  <2>1. \A u \in Mounter : u # t => OwnReference(u)'
    BY <1>1, ReferencesKept
  <2> QED
    BY <2>1
<1>5. \A u \in Mounter : Reserved(u)'
  BY <1>1, ReservedKept
<1>6. \A d \in Dir : CountRight(d)'
  <2>1. \A d \in Dir : dir'[d].count = dir[d].count
              - (IF call[t].holds = d THEN 1 ELSE 0) + (IF call'[t].holds = d THEN 1 ELSE 0)
              - (IF CountsFor(t, d) THEN 1 ELSE 0) + (IF CountsFor(t, d)' THEN 1 ELSE 0)
    <3> TAKE d \in Dir
    <3>1. dir[d].count \in Int /\ dir'[d].count = dir[d].count
      BY <1>1 DEF SuperTypes, Directory
    <3>2. CountsFor(t, d)' <=> CountsFor(t, d)
      OBVIOUS
    <3> QED
      BY <3>1, <3>2
  <2> QED
    BY <1>1, <2>1, CountsMove
<1>7. \A d \in Dir : FlagRight(d)'
  BY <1>1, FlagsKept
<1>8. InUseMounted'
  BY <1>1 DEF InUseMounted
<1> QED
  BY <1>2, <1>3, <1>4, <1>5, <1>6, <1>7, <1>8 DEF SuperIInv

(* The entry of a task that reads a super block is its own.                *)
LEMMA SuperReading ==
  ASSUME NEW u \in Mounter, Shape(u), call[u].pc = "bread"
  PROVE  /\ call[u].slot \in Mounts!Slot /\ call[u].dev \in Dev /\ call[u].dir \in Dir
         /\ super[call[u].slot].dev = call[u].dev /\ super[call[u].slot].lock
         /\ super[call[u].slot].imount = None
BY DEF Shape

LEMMA SuperNew ==
  ASSUME SuperIInv, NEW t \in Mounter, Mounts!Runs(t, "read_super"),
         Mounts!Entries(call[t].dev) = {}, NEW s \in Mounts!Entries(None),
         super' = [super EXCEPT ![s] = [dev |-> call[t].dev, lock |-> TRUE, imount |-> None]],
         Mounts!Sleeps(t, [call[t] EXCEPT !.pc = "bread", !.slot = s]),
         UNCHANGED <<dir, root, panic, program>>
  PROVE  SuperIInv'
<1>1. /\ SuperTypes /\ Shape(t) /\ call[t] \in Call /\ OwnReference(t) /\ EntriesApart
      /\ \A u \in Mounter : Shape(u)
  BY SuperFacts
<1>2. /\ call[t].pc = "read_super"
      /\ \A u \in Mounter : u # t => call[u].pc # "mount"
  BY SuperTurn
<1>3. s \in Mounts!Slot /\ super[s].dev = None /\ super[s].imount = None
  BY <1>1 DEF Mounts!Entries, EntriesApart
<1>4. \A o \in Mounts!Slot : super[o].dev # call[t].dev
  BY DEF Mounts!Entries
<1> DEFINE r == [call[t] EXCEPT !.pc = "bread", !.slot = s]
<1>5. /\ r \in Call /\ r.pc = "bread" /\ r.slot = s /\ r.dev = call[t].dev /\ r.dir = call[t].dir
      /\ r.holds = call[t].holds /\ Mounts!Sleeps(t, r)
  BY <1>1, <1>3 DEF Call, SuperPc
<1> HIDE DEF r
<1>6. call' \in [Mounter -> Call] /\ call'[t] = r /\ Only(t)
  BY <1>1, <1>5, SuperGo
<1>7. /\ call[t].dev \in Dev /\ call[t].dir \in Dir /\ call[t].slot = 0
  BY <1>1, <1>2 DEF Shape
<1>8. /\ super'[s] = [dev |-> call[t].dev, lock |-> TRUE, imount |-> None]
      /\ \A o \in Mounts!Slot : o # s => super'[o] = super[o]
  BY <1>1, <1>3 DEF SuperTypes
<1>9. super' \in [Mounts!Slot -> Entry]
  <2>1. [dev |-> call[t].dev, lock |-> TRUE, imount |-> None] \in Entry
    BY <1>7 DEF Entry
  <2> QED
    BY <1>1, <2>1 DEF SuperTypes
<1>10. Shape(t)' /\ OwnReference(t)'
  BY <1>1, <1>3, <1>5, <1>6, <1>7, <1>8 DEF Shape, OwnReference
<1>11. \A u \in Mounter : u # t /\ call[u].pc = "bread" => call[u].slot \in Mounts!Slot /\ call[u].slot # s
  <2> SUFFICES ASSUME NEW u \in Mounter, call[u].pc = "bread"
               PROVE  call[u].slot \in Mounts!Slot /\ call[u].slot # s
    OBVIOUS
  <2>1. call[u].slot \in Mounts!Slot /\ super[call[u].slot].dev = call[u].dev /\ call[u].dev # None
    BY <1>1, SuperReading, SuperNumbers
  <2> QED
    BY <1>3, <2>1
<1>12. EntriesApart'
  <2>1. \A o \in Mounts!Slot : super'[o].imount = super[o].imount
    BY <1>3, <1>8
  <2>2. \A o, q \in Mounts!Slot : o # q /\ super'[o].dev # None => super'[o].dev # super'[q].dev
    BY <1>1, <1>4, <1>7, <1>8, SuperNumbers DEF EntriesApart
  <2>3. \A o, q \in Mounts!Slot : o # q /\ super[o].imount # None => super[o].imount # super[q].imount
    BY <1>1 DEF EntriesApart
  <2>4. \A o \in Mounts!Slot : super'[o].imount # None => super'[o].dev # None
    BY <1>1, <1>3, <1>8 DEF EntriesApart
  <2>5. \A u, v \in Mounter : u # v /\ call'[u].pc = "bread" /\ call'[v].pc = "bread" => call'[u].slot # call'[v].slot
    BY <1>1, <1>5, <1>6, <1>11 DEF EntriesApart, Only
  <2> QED
    BY <2>1, <2>2, <2>3, <2>4, <2>5 DEF EntriesApart
<1>13. /\ \A o \in Mounts!Slot : super'[o].imount = super[o].imount
       /\ \A o \in Mounts!Slot : super[o].imount # None => super'[o] = super[o]
       /\ \A u \in Mounter : u # t /\ call[u].pc = "bread" => super'[call[u].slot] = super[call[u].slot]
  BY <1>3, <1>8, <1>11
<1>14. /\ Mounting(t) /\ call'[t].dir = call[t].dir /\ call'[t].holds = call[t].holds
       /\ \A o \in Mounts!Slot : Unmounts(t, o)' <=> Unmounts(t, o)
       /\ \A d \in Dir : CountsFor(t, d)' <=> CountsFor(t, d)
  BY <1>2, <1>5, <1>6, <1>7 DEF Mounting, Unmounts, CountsFor
<1> QED
  BY <1>2, <1>6, <1>9, <1>10, <1>12, <1>13, <1>14, SuperEntries

(* The entry becomes that of a file system, or free again.                 *)
LEMMA SuperRead ==
  ASSUME SuperIInv, NEW t \in Mounter, Mounts!bread(t)
  PROVE  SuperIInv'
<1> DEFINE s == call[t].slot
<1>1. /\ SuperTypes /\ Shape(t) /\ call[t] \in Call /\ OwnReference(t) /\ EntriesApart
      /\ \A u \in Mounter : Shape(u)
  BY SuperFacts
<1>2. /\ call[t].pc = "bread"
      /\ \A u \in Mounter : u # t => call[u].pc # "mount"
  BY SuperTurn DEF Mounts!bread
<1>3. /\ s \in Mounts!Slot /\ s # 0 /\ super[s].dev = call[t].dev /\ super[s].imount = None
      /\ call[t].dev \in Dev /\ call[t].dir \in Dir
  BY <1>1, <1>2, SuperReading, SuperNumbers
<1>4. UNCHANGED <<dir, root, panic, program>>
  BY DEF Mounts!bread
<1>5. \A u \in Mounter : u # t /\ call[u].pc = "bread" => call[u].slot \in Mounts!Slot /\ call[u].slot # s
  BY <1>1, <1>2, SuperReading DEF EntriesApart
<1>6. PICK r \in Call, e \in Entry :
         /\ super' = [super EXCEPT ![s] = e] /\ Mounts!Go(t, r)
         /\ e.imount = None /\ r.dev = call[t].dev /\ r.dir = call[t].dir /\ r.holds = call[t].holds
         /\ \/ e.dev = call[t].dev /\ ~e.lock /\ r.pc = "mount" /\ r.slot = s
            \/ e.dev = None /\ r.pc = "iput" /\ r.slot = 0
  <2>1. CASE /\ super' = [super EXCEPT ![s].lock = FALSE]
             /\ Mounts!Go(t, [call[t] EXCEPT !.pc = "mount"])
    <3>1. PICK e \in Entry : e = [super[s] EXCEPT !.lock = FALSE]
      BY <1>1, <1>3 DEF SuperTypes, Entry
    <3>2. e.dev = call[t].dev /\ ~e.lock /\ e.imount = None
      BY <1>1, <1>3, <3>1 DEF SuperTypes, Entry
    <3>3. super' = [super EXCEPT ![s] = e]
      BY <2>1, <3>1
    <3>4. PICK r \in Call : r = [call[t] EXCEPT !.pc = "mount"]
      BY <1>1 DEF Call, SuperPc
    <3>5. /\ r.dev = call[t].dev /\ r.dir = call[t].dir /\ r.holds = call[t].holds
          /\ r.pc = "mount" /\ r.slot = s
      BY <1>1, <3>4 DEF Call
    <3> QED
      BY <2>1, <3>2, <3>3, <3>4, <3>5
  <2>2. CASE /\ super' = [super EXCEPT ![s] = Mounts!Free]
             /\ Mounts!Go(t, [call[t] EXCEPT !.pc = "iput", !.slot = 0])
    <3>1. Mounts!Free \in Entry /\ Mounts!Free.dev = None /\ Mounts!Free.imount = None
      BY DEF Mounts!Free, Entry
    <3>4. PICK r \in Call : r = [call[t] EXCEPT !.pc = "iput", !.slot = 0]
      BY <1>1 DEF Call, SuperPc
    <3>5. /\ r.dev = call[t].dev /\ r.dir = call[t].dir /\ r.holds = call[t].holds
          /\ r.pc = "iput" /\ r.slot = 0
      BY <1>1, <3>4 DEF Call
    <3> QED
      BY <2>2, <3>1, <3>4, <3>5
  <2> QED
    BY <2>1, <2>2 DEF Mounts!bread
<1> HIDE DEF s
<1>7. call' \in [Mounter -> Call] /\ call'[t] = r /\ Only(t) /\ runner' = t
  <2>1. r.pc # "user"
    BY <1>6
  <2> QED
    BY <1>1, <1>6, <2>1, SuperGo
<1>8. /\ super'[s] = e /\ \A o \in Mounts!Slot : o # s => super'[o] = super[o]
      /\ super' \in [Mounts!Slot -> Entry]
  BY <1>1, <1>3, <1>6 DEF SuperTypes
<1>9. Shape(t)' /\ OwnReference(t)'
  <2>1. OwnReference(t)'
    BY <1>1, <1>2, <1>6, <1>7 DEF OwnReference
  <2>2. Shape(t)'
    <3>1. CASE r.pc = "mount"
      BY <1>3, <1>6, <1>7, <1>8, <3>1 DEF Shape
    <3>2. CASE r.pc = "iput"
      BY <1>3, <1>6, <1>7, <3>2 DEF Shape
    <3> QED
      BY <1>6, <3>1, <3>2
  <2> QED
    BY <2>1, <2>2
<1>10. /\ \A o \in Mounts!Slot : super'[o].imount = super[o].imount
       /\ \A o \in Mounts!Slot : super[o].imount # None => super'[o] = super[o]
       /\ \A u \in Mounter : u # t /\ call[u].pc = "bread" => super'[call[u].slot] = super[call[u].slot]
  BY <1>3, <1>5, <1>6, <1>8
<1>11. EntriesApart'
  <2>1. \A o \in Mounts!Slot : super'[o].dev = super[o].dev \/ super'[o].dev = None
    BY <1>3, <1>6, <1>8
  <2>2. \A o, q \in Mounts!Slot : o # q /\ super'[o].dev # None => super'[o].dev # super'[q].dev
    BY <1>1, <2>1 DEF EntriesApart
  <2>3. \A o, q \in Mounts!Slot : o # q /\ super[o].imount # None => super[o].imount # super[q].imount
    BY <1>1 DEF EntriesApart
  <2>4. \A o \in Mounts!Slot : super'[o].imount # None => super'[o].dev # None
    BY <1>1, <1>10 DEF EntriesApart
  <2>5. \A u, v \in Mounter : u # v /\ call'[u].pc = "bread" /\ call'[v].pc = "bread" => call'[u].slot # call'[v].slot
    BY <1>1, <1>6, <1>7 DEF EntriesApart, Only
  <2> QED
    BY <1>10, <2>2, <2>3, <2>4, <2>5 DEF EntriesApart
<1>12. /\ Mounting(t) /\ call'[t].dir = call[t].dir /\ call'[t].holds = call[t].holds
       /\ \A o \in Mounts!Slot : Unmounts(t, o)' <=> Unmounts(t, o)
       /\ \A d \in Dir : CountsFor(t, d)' <=> CountsFor(t, d)
  <2>1. 0 \notin Mounts!Slot
    BY SuperNumbers
  <2> QED
    BY <1>2, <1>6, <1>7, <2>1 DEF Mounting, Unmounts, CountsFor
<1> QED
  BY <1>2, <1>4, <1>7, <1>8, <1>9, <1>10, <1>11, <1>12, SuperEntries

LEMMA SuperDone ==
  ASSUME NEW t \in Mounter, call[t] \in Call
  PROVE  \E r \in Call : /\ r = Mounts!Done(t) /\ r.pc = "user" /\ r.slot = 0 /\ r.dir = None
                        /\ r.dev = None /\ r.holds = call[t].holds
<1> DEFINE r == [pc |-> "user", dev |-> None, dir |-> None, slot |-> 0, holds |-> call[t].holds]
<1>1. r \in Call
  <2>1. call[t].holds \in Dev \cup Dir \cup {None}
    BY DEF Call
  <2> QED
    BY <2>1 DEF Call, SuperPc
<1>2. Mounts!Done(t) = r
  BY DEF Mounts!Done, Mounts!User
<1> QED
  BY <1>1, <1>2

(* put_super() frees the entry of the device, which nobody is reading.     *)
LEMMA SuperPut ==
  ASSUME SuperIInv, NEW t \in Mounter, Mounts!put_super(t)
  PROVE  SuperIInv'
<1>1. /\ SuperTypes /\ Shape(t) /\ call[t] \in Call /\ OwnReference(t) /\ EntriesApart
      /\ \A u \in Mounter : Shape(u)
  BY SuperFacts
<1>2. /\ call[t].pc = "put_super" /\ ~Mounts!Waits(t)
      /\ \A u \in Mounter : u # t => call[u].pc # "mount"
  BY SuperTurn DEF Mounts!put_super
<1>3. call[t].slot # 0
  BY <1>1, <1>2 DEF Shape
<1>4. /\ super' = [s \in Mounts!Slot |-> IF super[s].dev = call[t].dev /\ super[s].imount = None
                                          THEN Mounts!Free ELSE super[s]]
      /\ Mounts!Go(t, Mounts!Done(t)) /\ UNCHANGED <<dir, root, panic, program>>
  BY DEF Mounts!put_super
<1>5. \A s \in Mounts!Slot : super[s].dev = call[t].dev => ~super[s].lock
  BY <1>2 DEF Mounts!Waits, Mounts!Locked, Mounts!Entries
<1>6. /\ super' \in [Mounts!Slot -> Entry]
      /\ \A s \in Mounts!Slot :
            /\ super'[s].imount = super[s].imount
            /\ super'[s].dev = super[s].dev \/ super'[s].dev = None
            /\ super[s].imount # None \/ super[s].lock => super'[s] = super[s]
  <2>1. Mounts!Free \in Entry /\ Mounts!Free.dev = None /\ Mounts!Free.imount = None
    BY DEF Mounts!Free, Entry
  <2> QED
    BY <1>1, <1>4, <1>5, <2>1 DEF SuperTypes
<1>7. PICK r \in Call : r = Mounts!Done(t) /\ r.pc = "user" /\ r.slot = 0 /\ r.dir = None /\ r.dev = None
                        /\ r.holds = call[t].holds
  BY <1>1, SuperDone
<1>8. call' \in [Mounter -> Call] /\ call'[t] = r /\ Only(t)
  <2>1. Mounts!Go(t, r)
    BY <1>4, <1>7
  <2> QED
    BY <1>1, <2>1, SuperGo
<1>9. Shape(t)' /\ OwnReference(t)'
  BY <1>7, <1>8, SuperNumbers DEF Shape, OwnReference
<1>10. \A u \in Mounter : u # t /\ call[u].pc = "bread" => super'[call[u].slot] = super[call[u].slot]
  BY <1>1, <1>6, SuperReading
<1>11. EntriesApart'
  <2>1. \A o, q \in Mounts!Slot : o # q /\ super'[o].dev # None => super'[o].dev # super'[q].dev
    BY <1>1, <1>6 DEF EntriesApart
  <2>2. \A o, q \in Mounts!Slot : o # q /\ super[o].imount # None => super[o].imount # super[q].imount
    BY <1>1 DEF EntriesApart
  <2>3. \A o \in Mounts!Slot : super'[o].imount # None => super'[o].dev # None
    BY <1>1, <1>6 DEF EntriesApart
  <2>4. \A u, v \in Mounter : u # v /\ call'[u].pc = "bread" /\ call'[v].pc = "bread" => call'[u].slot # call'[v].slot
    BY <1>1, <1>7, <1>8 DEF EntriesApart, Only
  <2> QED
    BY <1>6, <2>1, <2>2, <2>3, <2>4 DEF EntriesApart
<1>12. /\ ~Mounting(t)' /\ call'[t].holds = call[t].holds
       /\ \A o \in Mounts!Slot : Unmounts(t, o)' <=> Unmounts(t, o)
       /\ \A d \in Dir : CountsFor(t, d)' <=> CountsFor(t, d)
  <2>1. None \notin Dir
    BY SuperNumbers
  <2> QED
    BY <1>2, <1>3, <1>7, <1>8, <2>1 DEF Mounting, Unmounts, CountsFor
<1> QED
  BY <1>2, <1>4, <1>6, <1>8, <1>9, <1>10, <1>11, <1>12, SuperEntries

(* iput() writes a dirty inode that it is about to free.                   *)
LEMMA SuperWrites ==
  ASSUME SuperIInv, NEW t \in Mounter, NEW pc \in {"iput", "write"}, Mounts!Runs(t, pc),
         NEW r, r = [call[t] EXCEPT !.pc = IF pc = "iput" THEN "write" ELSE "iput"],
         Mounts!Go(t, r) \/ Mounts!Sleeps(t, r), dir' \in [Dir -> Directory],
         \A d \in Dir : dir'[d].mount = dir[d].mount /\ dir'[d].count = dir[d].count,
         UNCHANGED <<super, root, panic, program>>
  PROVE  SuperIInv'
<1>1. SuperTypes /\ Shape(t) /\ call[t] \in Call
  BY SuperFacts
<1>2. call[t].pc = pc /\ \A u \in Mounter : u # t => call[u].pc # "mount"
  BY SuperTurn
<1>3. /\ r \in Call /\ r.pc \in {"iput", "write"} /\ r.slot = call[t].slot /\ r.dev = call[t].dev
      /\ r.dir = call[t].dir /\ r.holds = call[t].holds
  <2>1. CASE pc = "iput"
    BY <1>1, <2>1 DEF Call, SuperPc
  <2>2. CASE pc = "write"
    BY <1>1, <2>2 DEF Call, SuperPc
  <2> QED
    BY <2>1, <2>2
<1>4. call'[t] = r
  BY <1>1, <1>3, SuperGo
<1>5. Shape(t)'
  BY <1>1, <1>2, <1>3, <1>4 DEF Shape
<1>6. ~Mounting(t)'
  BY <1>3, <1>4 DEF Mounting
<1> QED
  BY <1>2, <1>3, <1>4, <1>5, <1>6, SuperMove

LEMMA SuperCounted ==
  ASSUME SuperIInv, NEW t \in Mounter, call[t].pc = "iput"
  PROVE  /\ call[t].dir \in Dir /\ dir[call[t].dir].count # 0
         /\ call[t].slot = 0 => CountsFor(t, call[t].dir)
<1>1. /\ Shape(t) /\ OwnReference(t) /\ call[t] \in Call
      /\ \A d \in Dir : CountRight(d)
  BY SuperFacts
<1>2. call[t].dir \in Dir
  BY <1>1 DEF Shape
<1>3. call[t].slot = 0 => CountsFor(t, call[t].dir)
  BY <1>1, <1>2 DEF OwnReference, CountsFor
<1>4. call[t].slot # 0 => call[t].slot \in Mounts!Slot /\ super[call[t].slot].imount = call[t].dir
  BY <1>1 DEF Shape, Call
<1> QED
  BY <1>1, <1>2, <1>3, <1>4, CountZero

LEMMA SuperReleases ==
  ASSUME SuperIInv, NEW t \in Mounter, Mounts!Runs(t, "iput"), call[t].slot = 0,
         Mounts!Go(t, Mounts!Done(t)), dir' = [dir EXCEPT ![call[t].dir].count = @ - 1],
         UNCHANGED <<super, root, panic, program>>
  PROVE  SuperIInv'
<1>1. /\ SuperTypes /\ Shape(t) /\ call[t] \in Call /\ ~panic
      /\ \A u \in Mounter : Shape(u) /\ Reserved(u)
  BY SuperFacts
<1>2. call[t].pc = "iput" /\ \A u \in Mounter : u # t => call[u].pc # "mount"
  BY SuperTurn
<1>3. call[t].dir \in Dir /\ CountsFor(t, call[t].dir)
  BY <1>2, SuperCounted
<1>4. PICK r \in Call : r = Mounts!Done(t) /\ r.pc = "user" /\ r.slot = 0 /\ r.dir = None /\ r.dev = None
                        /\ r.holds = call[t].holds
  BY <1>1, SuperDone
<1>5. call' \in [Mounter -> Call] /\ call'[t] = r /\ Only(t)
  <2>1. Mounts!Go(t, r)
    BY <1>4
  <2> QED
    BY <1>1, <2>1, SuperGo
<1>6. /\ dir' \in [Dir -> Directory]
      /\ \A d \in Dir : /\ dir'[d].mount = dir[d].mount
                        /\ dir'[d].count = IF d = call[t].dir THEN dir[d].count - 1 ELSE dir[d].count
  BY <1>1, <1>3 DEF SuperTypes, Directory
<1>7. Shape(t)' /\ OwnReference(t)'
  BY <1>4, <1>5, SuperNumbers DEF Shape, OwnReference
<1>8. \A u \in Mounter : Reserved(u)'
  <2>1. ~Mounting(t)'
    BY <1>4, <1>5 DEF Mounting
  <2> QED
    BY <1>1, <1>5, <2>1, ReservedKept
<1>9. \A s \in Mounts!Slot : Unmounts(t, s)' <=> Unmounts(t, s)
  <2>1. 0 \notin Mounts!Slot
    BY SuperNumbers
  <2> QED
    BY <1>4, <1>5, <2>1 DEF Unmounts
<1>10. \A d \in Dir : dir'[d].count = dir[d].count
              - (IF call[t].holds = d THEN 1 ELSE 0) + (IF call'[t].holds = d THEN 1 ELSE 0)
              - (IF CountsFor(t, d) THEN 1 ELSE 0) + (IF CountsFor(t, d)' THEN 1 ELSE 0)
  <2> TAKE d \in Dir
  <2>1. dir[d].count \in Int /\ dir'[d].count = IF d = call[t].dir THEN dir[d].count - 1 ELSE dir[d].count
    BY <1>1, <1>6 DEF SuperTypes, Directory
  <2>2. ~CountsFor(t, d)'
    BY <1>4, <1>5, SuperNumbers DEF CountsFor
  <2>3. CountsFor(t, d) <=> d = call[t].dir
    BY <1>3 DEF CountsFor
  <2> QED
    BY <1>4, <1>5, <2>1, <2>2, <2>3
<1> QED
  BY <1>1, <1>2, <1>4, <1>5, <1>6, <1>7, <1>8, <1>9, <1>10, SuperQuiet

(* sys_umount() takes the directory from the entry.                        *)
LEMMA SuperClears ==
  ASSUME OneUmounts, SuperIInv, NEW t \in Mounter, Mounts!Runs(t, "iput"), call[t].slot # 0,
         Mounts!Go(t, [call[t] EXCEPT !.pc = "put_super"]),
         dir' = [dir EXCEPT ![call[t].dir].count = @ - 1],
         super' = [super EXCEPT ![call[t].slot].imount = None],
         UNCHANGED <<root, panic, program>>
  PROVE  SuperIInv'
<1>1. /\ SuperTypes /\ Shape(t) /\ call[t] \in Call /\ ~panic /\ EntriesApart /\ InUseMounted
      /\ \A u \in Mounter : Shape(u) /\ Reserved(u) /\ OwnReference(u)
      /\ \A d \in Dir : CountRight(d) /\ FlagRight(d)
  BY SuperFacts
<1>2. call[t].pc = "iput" /\ \A u \in Mounter : u # t => call[u].pc # "mount"
  BY SuperTurn
<1>3. PICK s \in Mounts!Slot : s = call[t].slot
  BY <1>1 DEF Call
<1>4. PICK d \in Dir : d = call[t].dir
  BY <1>1, <1>2 DEF Shape
<1>5. /\ super[s].imount = d /\ super[s].dev = call[t].dev /\ call[t].dev \in Dev /\ ~(root[call[t].dev] > 0)
      /\ d # None /\ s # 0
  BY <1>1, <1>2, <1>3, <1>4, SuperNumbers DEF Shape
<1>6. PICK r \in Call : r = [call[t] EXCEPT !.pc = "put_super"]
  BY <1>1 DEF Call, SuperPc
<1>7. /\ r.pc = "put_super" /\ r.slot = s /\ r.dir = d /\ r.dev = call[t].dev /\ r.holds = call[t].holds
  BY <1>1, <1>3, <1>4, <1>6 DEF Call
<1>8. call' \in [Mounter -> Call] /\ call'[t] = r /\ Only(t)
  <2>1. Mounts!Go(t, r)
    BY <1>6
  <2> QED
    BY <1>1, <2>1, SuperGo
<1>9. /\ dir' \in [Dir -> Directory]
      /\ \A e \in Dir : /\ dir'[e].mount = dir[e].mount
                        /\ dir'[e].count = IF e = d THEN dir[e].count - 1 ELSE dir[e].count
  <2>1. dir' = [dir EXCEPT ![d].count = @ - 1]
    BY <1>4
  <2> QED
    BY <1>1, <2>1 DEF SuperTypes, Directory
<1>10. /\ super' \in [Mounts!Slot -> Entry] /\ super'[s].imount = None /\ super'[s].dev = super[s].dev
       /\ \A o \in Mounts!Slot : o # s => super'[o] = super[o]
  <2>1. super \in [Mounts!Slot -> Entry] /\ super[s] \in Entry
    BY <1>1 DEF SuperTypes
  <2>2. PICK entry \in Entry : entry = [super[s] EXCEPT !.imount = None]
    BY <2>1 DEF Entry
  <2>3. entry.imount = None /\ entry.dev = super[s].dev
    BY <2>1, <2>2 DEF Entry
  <2>4. super' = [super EXCEPT ![s] = entry]
    BY <1>3, <2>1, <2>2
  <2> QED
    BY <2>1, <2>3, <2>4
<1>11. SuperTypes' /\ ~panic'
  BY <1>1, <1>8, <1>9, <1>10 DEF SuperTypes
<1>12. \A u \in Mounter : Unmounts(u, call[u].slot) /\ call[u].slot # 0 => u = t
  BY <1>1, <1>2, <1>3, <1>5, OneUmounts DEF SuperTypes, OneUmounts, Shape, Unmounts
<1>13. \A u \in Mounter : Shape(u)'
  <2>1. \A u \in Mounter : u # t /\ call[u].pc = "bread" => super'[call[u].slot] = super[call[u].slot]
    BY <1>1, <1>5, <1>10, SuperReading
  <2>2. \A u \in Mounter : u # t => Shape(u)'
    BY <1>1, <1>2, <1>8, <1>12, <2>1, ShapesKept DEF Unmounts
  <2>3. Shape(t)'
    BY <1>5, <1>7, <1>8 DEF Shape
  <2> QED
    BY <2>2, <2>3
<1>14. \A u \in Mounter : OwnReference(u)'
  <2>1. \A u \in Mounter : u # t => OwnReference(u)'
    BY <1>1, <1>8, ReferencesKept
  <2>2. OwnReference(t)'
    BY <1>5, <1>7, <1>8 DEF OwnReference
  <2> QED
    BY <2>1, <2>2
<1>15. \A u \in Mounter : Reserved(u)'
  <2>1. ~Mounting(t)'
    BY <1>7, <1>8 DEF Mounting
  <2>2. \A o \in Mounts!Slot : super'[o].imount \in {None, super[o].imount}
    BY <1>10
  <2> QED
    BY <1>1, <1>8, <2>1, <2>2, ReservedKept
<1>16. ASSUME NEW e \in Dir
       PROVE  CountRight(e)'
  <2>1. /\ Cardinality(EntriesOn(e)) \in Nat /\ Cardinality(EntriesOn(e)') \in Nat
        /\ Cardinality(EntriesOn(e)') = Cardinality(EntriesOn(e)) - (IF super[s].imount = e THEN 1 ELSE 0)
                                                                  + (IF super'[s].imount = e THEN 1 ELSE 0)
    <3>1. \A o \in Mounts!Slot : o # s => super'[o].imount = super[o].imount
      BY <1>10
    <3> QED
      BY <3>1, EntryCounts
  <2>2. super[s].imount = e <=> e = d
    BY <1>5
  <2>3. super'[s].imount # e
    BY <1>10, SuperNumbers
  <2>4. ~CountsFor(t, e) /\ ~CountsFor(t, e)' /\ call'[t].holds = call[t].holds
    BY <1>2, <1>3, <1>5, <1>7, <1>8 DEF CountsFor
  <2>5. /\ Cardinality(HoldersOf(e)) \in Nat /\ Cardinality(OthersOf(e)) \in Nat
        /\ Cardinality(HoldersOf(e)') = Cardinality(HoldersOf(e))
        /\ Cardinality(OthersOf(e)') = Cardinality(OthersOf(e))
    BY <1>8, <2>4, TaskCounts
  <2>6. dir[e].count = Cardinality(EntriesOn(e)) + Cardinality(HoldersOf(e)) + Cardinality(OthersOf(e))
    BY <1>1 DEF CountRight
  <2>7. dir'[e].count = IF e = d THEN dir[e].count - 1 ELSE dir[e].count
    BY <1>9
  <2>8. dir'[e].count = Cardinality(EntriesOn(e)') + Cardinality(HoldersOf(e)') + Cardinality(OthersOf(e)')
    BY <2>1, <2>2, <2>3, <2>5, <2>6, <2>7
  <2> QED
    BY <2>8 DEF CountRight
<1>17. \A e \in Dir : FlagRight(e)'
  <2>1. \A o \in Mounts!Slot : o # s => (Mounts!Umounting(o)' <=> Mounts!Umounting(o))
    BY <1>2, <1>3, <1>7, <1>8 DEF Mounts!Umounting, Only
  <2>2. Mounts!Umounting(s)
    BY <1>2, <1>3 DEF Mounts!Umounting
  <2> TAKE e \in Dir
  <2>3. \A o \in Mounts!Slot :
           super'[o].imount = e /\ ~Mounts!Umounting(o)' <=> super[o].imount = e /\ ~Mounts!Umounting(o)
    BY <1>10, <2>1, <2>2, SuperNumbers
  <2> QED
    BY <1>1, <1>9, <2>3 DEF FlagRight
<1>18. EntriesApart'
  <2>1. \A o \in Mounts!Slot : super'[o].dev = super[o].dev /\ super'[o].imount \in {super[o].imount, None}
    BY <1>10
  <2>2. \A u, v \in Mounter : u # v /\ call'[u].pc = "bread" /\ call'[v].pc = "bread" => call'[u].slot # call'[v].slot
    BY <1>1, <1>7, <1>8 DEF EntriesApart, Only
  <2> QED
    BY <1>1, <2>1, <2>2 DEF EntriesApart
<1>19. InUseMounted'
  <2> SUFFICES ASSUME NEW dev \in Dev, root[dev] > 0
               PROVE  \E o \in Mounts!Slot : super'[o].dev = dev /\ super'[o].imount # None
    BY DEF InUseMounted
  <2>1. PICK o \in Mounts!Slot : super[o].dev = dev /\ super[o].imount # None
    BY <1>1 DEF InUseMounted
  <2>2. o # s
    BY <1>5, <2>1
  <2> QED
    BY <1>10, <2>1, <2>2
<1> QED
  BY <1>11, <1>13, <1>14, <1>15, <1>16, <1>17, <1>18, <1>19 DEF SuperIInv

(* The end of sys_mount(): nobody else has come to the directory.          *)
LEMMA SuperMounts ==
  ASSUME SuperIInv, NEW t \in Mounter, Mounts!Runs(t, "mount"),
         ~Mounts!MountedOn(call[t].slot), ~dir[call[t].dir].mount,
         Mounts!Go(t, Mounts!Done(t)),
         dir' = [dir EXCEPT ![call[t].dir].mount = TRUE, ![call[t].dir].dirt = TRUE],
         super' = [super EXCEPT ![call[t].slot].imount = call[t].dir],
         UNCHANGED <<root, panic, program>>
  PROVE  SuperIInv'
<1>1. /\ SuperTypes /\ Shape(t) /\ Reserved(t) /\ OwnReference(t) /\ call[t] \in Call /\ ~panic
      /\ EntriesApart /\ InUseMounted
      /\ \A u \in Mounter : Shape(u) /\ Reserved(u) /\ OwnReference(u)
      /\ \A d \in Dir : CountRight(d) /\ FlagRight(d)
  BY SuperFacts
<1>2. call[t].pc = "mount" /\ \A u \in Mounter : u # t => call[u].pc # "mount"
  BY SuperTurn
<1>3. PICK s \in Mounts!Slot : /\ s = call[t].slot /\ super[s].imount = None /\ ~super[s].lock
                               /\ super[s].dev = call[t].dev /\ super[s].dev # None /\ s # 0
  <2>1. call[t].slot \in Mounts!Slot /\ super[call[t].slot].imount = None
    BY <1>1, <1>2 DEF Shape, Mounts!MountedOn
  <2> QED
    BY <1>1, <1>2, <2>1, SuperNumbers DEF Shape
<1>4. PICK d \in Dir : d = call[t].dir /\ call[t].holds # d /\ d # None /\ ~dir[d].mount
  BY <1>1, <1>2, SuperNumbers DEF Shape, OwnReference
<1>5. /\ \A o \in Mounts!Slot : super[o].imount # d
      /\ \A u \in Mounter : u # t /\ Mounting(u) => call[u].dir # d
  BY <1>1, <1>2, <1>4 DEF Reserved, Mounting
<1>6. PICK r \in Call : r = Mounts!Done(t) /\ r.pc = "user" /\ r.slot = 0 /\ r.dir = None /\ r.dev = None
                        /\ r.holds = call[t].holds
  BY <1>1, SuperDone
<1>7. call' \in [Mounter -> Call] /\ call'[t] = r /\ Only(t)
  <2>1. Mounts!Go(t, r)
    BY <1>6
  <2> QED
    BY <1>1, <2>1, SuperGo
<1>8. /\ dir' \in [Dir -> Directory]
      /\ \A e \in Dir : /\ dir'[e].count = dir[e].count
                        /\ dir'[e].mount = IF e = d THEN TRUE ELSE dir[e].mount
  <2>1. PICK x \in Directory : x = [dir[d] EXCEPT !.mount = TRUE, !.dirt = TRUE]
    BY <1>1 DEF SuperTypes, Directory
  <2>2. x.count = dir[d].count /\ x.mount
    BY <1>1, <2>1 DEF SuperTypes, Directory
  <2>3. dir' = [dir EXCEPT ![d] = x]
    BY <1>1, <1>4, <2>1 DEF SuperTypes
  <2> QED
    BY <1>1, <2>2, <2>3 DEF SuperTypes
<1>9. /\ super' \in [Mounts!Slot -> Entry] /\ super'[s].imount = d /\ super'[s].dev = super[s].dev
      /\ \A o \in Mounts!Slot : o # s => super'[o] = super[o]
  <2>1. PICK x \in Entry : x = [super[s] EXCEPT !.imount = d]
    BY <1>1 DEF SuperTypes, Entry
  <2>2. x.imount = d /\ x.dev = super[s].dev
    BY <1>1, <2>1 DEF SuperTypes, Entry
  <2>3. super' = [super EXCEPT ![s] = x]
    BY <1>3, <1>4, <2>1
  <2> QED
    BY <1>1, <2>2, <2>3 DEF SuperTypes
<1>10. SuperTypes' /\ ~panic'
  BY <1>1, <1>7, <1>8, <1>9 DEF SuperTypes
<1>11. \A u \in Mounter : ~Unmounts(u, s)
  BY <1>1, <1>3, SuperNumbers DEF Shape, Unmounts
<1>12. \A u \in Mounter : Shape(u)'
  <2>1. \A u \in Mounter : u # t /\ call[u].pc = "bread" => super'[call[u].slot] = super[call[u].slot]
    BY <1>1, <1>3, <1>9, SuperReading
  <2>2. \A u \in Mounter : u # t /\ call[u].pc \in {"iput", "write"} /\ call[u].slot # 0 =>
            /\ super'[call[u].slot] = super[call[u].slot]
            /\ ~(root[call[u].dev] > 0)
    <3> SUFFICES ASSUME NEW u \in Mounter, call[u].pc \in {"iput", "write"}, call[u].slot # 0
                 PROVE  super'[call[u].slot] = super[call[u].slot] /\ ~(root[call[u].dev] > 0)
      OBVIOUS
    <3>1. call[u].slot \in Mounts!Slot /\ ~(root[call[u].dev] > 0)
      BY <1>1 DEF SuperTypes, Call, Shape
    <3>2. call[u].slot # s
      BY <1>11 DEF Unmounts
    <3> QED
      BY <1>9, <3>1, <3>2
  <2>3. \A u \in Mounter : u # t => Shape(u)'
    BY <1>1, <1>2, <1>7, <2>1, <2>2, ShapesKept
  <2>4. Shape(t)'
    BY <1>6, <1>7 DEF Shape
  <2> QED
    BY <2>3, <2>4
<1>13. \A u \in Mounter : OwnReference(u)'
  <2>1. \A u \in Mounter : u # t => OwnReference(u)'
    BY <1>1, <1>7, ReferencesKept
  <2>2. OwnReference(t)'
    BY <1>6, <1>7, SuperNumbers DEF OwnReference
  <2> QED
    BY <2>1, <2>2
<1>14. ASSUME NEW u \in Mounter
       PROVE  Reserved(u)'
  <2>1. \A v \in Mounter : Mounting(v)' => v # t /\ Mounting(v) /\ call'[v] = call[v]
    BY <1>6, <1>7 DEF Only, Mounting
  <2> QED
    BY <1>1, <1>5, <1>9, <2>1 DEF Reserved
<1>15. ASSUME NEW e \in Dir
       PROVE  CountRight(e)'
  <2>1. /\ Cardinality(EntriesOn(e)) \in Nat /\ Cardinality(EntriesOn(e)') \in Nat
        /\ Cardinality(EntriesOn(e)') = Cardinality(EntriesOn(e)) - (IF super[s].imount = e THEN 1 ELSE 0)
                                                                  + (IF super'[s].imount = e THEN 1 ELSE 0)
    <3>1. \A o \in Mounts!Slot : o # s => super'[o].imount = super[o].imount
      BY <1>9
    <3> QED
      BY <3>1, EntryCounts
  <2>2. super[s].imount # e
    BY <1>3, SuperNumbers
  <2>3. super'[s].imount = e <=> e = d
    BY <1>9
  <2>4. /\ CountsFor(t, e) <=> e = d
        /\ ~CountsFor(t, e)' /\ call'[t].holds = call[t].holds
    BY <1>2, <1>4, <1>6, <1>7, SuperNumbers DEF CountsFor
  <2>5. /\ Cardinality(HoldersOf(e)) \in Nat /\ Cardinality(OthersOf(e)) \in Nat
        /\ Cardinality(HoldersOf(e)') \in Nat /\ Cardinality(OthersOf(e)') \in Nat
        /\ Cardinality(HoldersOf(e)') = Cardinality(HoldersOf(e))
        /\ Cardinality(OthersOf(e)') = Cardinality(OthersOf(e)) - IF e = d THEN 1 ELSE 0
    <3>1. /\ Cardinality(HoldersOf(e)) \in Nat /\ Cardinality(OthersOf(e)) \in Nat
          /\ Cardinality(HoldersOf(e)') \in Nat /\ Cardinality(OthersOf(e)') \in Nat
          /\ Cardinality(HoldersOf(e)') = Cardinality(HoldersOf(e)) - (IF call[t].holds = e THEN 1 ELSE 0)
                                                               + (IF call'[t].holds = e THEN 1 ELSE 0)
          /\ Cardinality(OthersOf(e)') = Cardinality(OthersOf(e)) - (IF CountsFor(t, e) THEN 1 ELSE 0)
                                                             + (IF CountsFor(t, e)' THEN 1 ELSE 0)
      BY <1>7, TaskCounts
    <3> QED
      BY <2>4, <3>1
  <2>6. dir[e].count = Cardinality(EntriesOn(e)) + Cardinality(HoldersOf(e)) + Cardinality(OthersOf(e))
    BY <1>1 DEF CountRight
  <2>7. dir'[e].count = dir[e].count
    BY <1>8
  <2>8. dir'[e].count = Cardinality(EntriesOn(e)') + Cardinality(HoldersOf(e)') + Cardinality(OthersOf(e)')
    BY <2>1, <2>2, <2>3, <2>5, <2>6, <2>7
  <2> QED
    BY <2>8 DEF CountRight
<1>16. \A e \in Dir : FlagRight(e)'
  <2>1. \A o \in Mounts!Slot : Mounts!Umounting(o)' <=> Mounts!Umounting(o)
    BY <1>2, <1>6, <1>7 DEF Mounts!Umounting, Only
  <2>2. ~Mounts!Umounting(s)
    BY <1>11 DEF Mounts!Umounting, Unmounts
  <2> TAKE e \in Dir
  <2>3. CASE e = d
    BY <1>8, <1>9, <2>1, <2>2, <2>3 DEF FlagRight
  <2>4. CASE e # d
    <3>1. \A o \in Mounts!Slot : super'[o].imount = e <=> super[o].imount = e
      BY <1>3, <1>9, <2>4, SuperNumbers
    <3> QED
      BY <1>1, <1>8, <2>1, <2>4, <3>1 DEF FlagRight
  <2> QED
    BY <2>3, <2>4
<1>17. EntriesApart'
  <2>1. \A o \in Mounts!Slot : super'[o].dev = super[o].dev
    BY <1>9
  <2>2. \A o, q \in Mounts!Slot : o # q /\ super'[o].dev # None =>
           super'[o].dev # super'[q].dev /\ (super'[o].imount # None => super'[o].imount # super'[q].imount)
    BY <1>1, <1>4, <1>5, <1>9, <2>1 DEF EntriesApart
  <2>3. \A o \in Mounts!Slot : super'[o].imount # None => super'[o].dev # None
    BY <1>1, <1>3, <1>9, <2>1 DEF EntriesApart
  <2>4. \A u, v \in Mounter : u # v /\ call'[u].pc = "bread" /\ call'[v].pc = "bread" => call'[u].slot # call'[v].slot
    BY <1>1, <1>6, <1>7 DEF EntriesApart, Only
  <2> QED
    BY <2>2, <2>3, <2>4 DEF EntriesApart
<1>18. InUseMounted'
  <2>1. \A o \in Mounts!Slot : super'[o].dev = super[o].dev /\ (super[o].imount # None => super'[o].imount # None)
    BY <1>3, <1>9
  <2> QED
    BY <1>1, <2>1 DEF InUseMounted
<1> QED
  BY <1>10, <1>12, <1>13, <1>14, <1>15, <1>16, <1>17, <1>18 DEF SuperIInv

(* sys_umount(): a device of which no file is used.                        *)
LEMMA SuperUmounts ==
  ASSUME SuperIInv, NEW t \in Mounter, Mounts!sys_umount(t)
  PROVE  SuperIInv'
<1>1. /\ SuperTypes /\ Shape(t) /\ OwnReference(t) /\ call[t] \in Call /\ ~panic
      /\ EntriesApart /\ InUseMounted
      /\ \A u \in Mounter : Shape(u) /\ Reserved(u) /\ OwnReference(u)
      /\ \A d \in Dir : CountRight(d) /\ FlagRight(d)
  BY SuperFacts
<1>2. /\ call[t].pc = "user" /\ t \in program.umounts /\ UNCHANGED <<super, root, panic, program>>
      /\ \A u \in Mounter : u # t => call[u].pc # "mount"
  BY SuperTurn DEF Mounts!sys_umount
<1>3. PICK dev \in Dev, s \in Mounts!Slot :
         /\ s \in Mounts!Entries(dev) /\ super[s].imount # None /\ ~Mounts!InUse(dev)
         /\ dir' = [dir EXCEPT ![super[s].imount].mount = FALSE]
         /\ Mounts!Go(t, [call[t] EXCEPT !.pc = "iput", !.slot = s, !.dev = dev, !.dir = super[s].imount])
  BY DEF Mounts!sys_umount, Mounts!Entries
<1>4. super[s].dev = dev /\ s # 0 /\ ~(root[dev] > 0)
  BY <1>3, SuperNumbers DEF Mounts!Entries, Mounts!InUse
<1>5. PICK d \in Dir : d = super[s].imount /\ d # None
  BY <1>1, <1>3, <1>4, SuperNumbers DEF SuperTypes, Entry
<1>6. PICK r \in Call : r = [call[t] EXCEPT !.pc = "iput", !.slot = s, !.dev = dev, !.dir = d]
  BY <1>1, <1>4, <1>5 DEF Call, SuperPc
<1>7. r.pc = "iput" /\ r.slot = s /\ r.dev = dev /\ r.dir = d /\ r.holds = call[t].holds
  BY <1>1, <1>6 DEF Call
<1>8. call' \in [Mounter -> Call] /\ call'[t] = r /\ Only(t)
  <2>1. Mounts!Go(t, r)
    BY <1>3, <1>5, <1>6
  <2> QED
    BY <1>1, <2>1, SuperGo
<1>9. /\ dir' \in [Dir -> Directory]
      /\ \A e \in Dir : /\ dir'[e].count = dir[e].count
                        /\ e # d => dir'[e] = dir[e]
      /\ ~dir'[d].mount
  <2>1. PICK x \in Directory : x = [dir[d] EXCEPT !.mount = FALSE]
    BY <1>1 DEF SuperTypes, Directory
  <2>2. x.count = dir[d].count /\ ~x.mount
    BY <1>1, <2>1 DEF SuperTypes, Directory
  <2>3. dir' = [dir EXCEPT ![d] = x]
    BY <1>1, <1>3, <1>5, <2>1 DEF SuperTypes
  <2> QED
    BY <1>1, <2>2, <2>3 DEF SuperTypes
<1>10. SuperTypes' /\ ~panic'
  BY <1>1, <1>2, <1>8, <1>9 DEF SuperTypes
<1>11. \A u \in Mounter : Shape(u)'
  <2>1. \A u \in Mounter : u # t => Shape(u)'
    <3>1. \A u \in Mounter : u # t /\ call[u].pc \in {"iput", "write"} /\ call[u].slot # 0 =>
             ~(root[call[u].dev] > 0)
      BY <1>1 DEF Shape
    <3> QED
      BY <1>1, <1>2, <1>8, <3>1, ShapesKept
  <2>2. Shape(t)'
    BY <1>2, <1>4, <1>5, <1>7, <1>8 DEF Shape
  <2> QED
    BY <2>1, <2>2
<1>12. \A u \in Mounter : OwnReference(u)'
  <2>1. \A u \in Mounter : u # t => OwnReference(u)'
    BY <1>1, <1>8, ReferencesKept
  <2>2. OwnReference(t)'
    BY <1>4, <1>7, <1>8 DEF OwnReference
  <2> QED
    BY <2>1, <2>2
<1>13. \A u \in Mounter : Reserved(u)'
  <2>1. ~Mounting(t)'
    BY <1>7, <1>8 DEF Mounting
  <2> QED
    BY <1>1, <1>2, <1>8, <2>1, ReservedKept
<1>14. \A e \in Dir : CountRight(e)'
  <2>1. \A e \in Dir : dir'[e].count = dir[e].count
              - (IF call[t].holds = e THEN 1 ELSE 0) + (IF call'[t].holds = e THEN 1 ELSE 0)
              - (IF CountsFor(t, e) THEN 1 ELSE 0) + (IF CountsFor(t, e)' THEN 1 ELSE 0)
    <3> TAKE e \in Dir
    <3>1. dir[e].count \in Int /\ dir'[e].count = dir[e].count
      BY <1>1, <1>9 DEF SuperTypes, Directory
    <3>2. ~CountsFor(t, e)' /\ ~CountsFor(t, e)
      BY <1>1, <1>2, <1>4, <1>7, <1>8, SuperNumbers DEF CountsFor, Shape
    <3> QED
      BY <1>7, <1>8, <3>1, <3>2
  <2> QED
    BY <1>1, <1>2, <1>8, <2>1, CountsMove
<1>15. \A e \in Dir : FlagRight(e)'
  <2>1. /\ \A o \in Mounts!Slot : o # s => (Mounts!Umounting(o)' <=> Mounts!Umounting(o))
        /\ Mounts!Umounting(s)'
    BY <1>2, <1>7, <1>8 DEF Mounts!Umounting, Only
  <2>2. \A o \in Mounts!Slot : super[o].imount = d => o = s
    BY <1>1, <1>4, <1>5 DEF EntriesApart
  <2> TAKE e \in Dir
  <2>3. CASE e = d
    BY <1>2, <1>9, <2>1, <2>2, <2>3 DEF FlagRight
  <2>4. CASE e # d
    BY <1>1, <1>2, <1>5, <1>9, <2>1, <2>4 DEF FlagRight
  <2> QED
    BY <2>3, <2>4
<1>16. EntriesApart'
  BY <1>1, <1>2, <1>7, <1>8 DEF EntriesApart, Only
<1>17. InUseMounted'
  BY <1>1, <1>2 DEF InUseMounted
<1> QED
  BY <1>10, <1>11, <1>12, <1>13, <1>14, <1>15, <1>16, <1>17 DEF SuperIInv

(* A task takes a file of a device, or gives it back.                      *)
LEMMA SuperUses ==
  ASSUME SuperIInv, NEW t \in Mounter, Mounts!Runs(t, "user"),
         NEW x \in Dev \cup {None}, call[t].holds \notin Dir, call' = [call EXCEPT ![t].holds = x],
         UNCHANGED <<super, dir, panic, program>>, root' \in [Dev -> Int],
         InUseMounted',
         \A u \in Mounter : call[u].pc \in {"iput", "write"} /\ call[u].slot # 0 => ~(root'[call[u].dev] > 0)
  PROVE  SuperIInv'
<1>1. /\ SuperTypes /\ Shape(t) /\ OwnReference(t) /\ call[t] \in Call /\ ~panic /\ EntriesApart
      /\ \A u \in Mounter : Shape(u) /\ Reserved(u) /\ OwnReference(u)
      /\ \A d \in Dir : CountRight(d) /\ FlagRight(d)
  BY SuperFacts
<1>2. call[t].pc = "user" /\ \A u \in Mounter : u # t => call[u].pc # "mount"
  BY SuperTurn
<1>3. call[t].slot = 0 /\ call[t].dir = None /\ call[t].dev = None
  BY <1>1, <1>2 DEF Shape
<1>4. PICK r \in Call : r = [call[t] EXCEPT !.holds = x]
  BY <1>1 DEF Call
<1>5. r.pc = "user" /\ r.slot = 0 /\ r.dir = None /\ r.dev = None /\ r.holds = x
  BY <1>1, <1>2, <1>3, <1>4 DEF Call
<1>6. call' \in [Mounter -> Call] /\ call'[t] = r /\ Only(t)
  BY <1>1, <1>4 DEF SuperTypes, Only
<1>7. SuperTypes' /\ ~panic'
  BY <1>1, <1>6 DEF SuperTypes
<1>8. \A u \in Mounter : Shape(u)'
  <2>1. \A u \in Mounter : u # t => Shape(u)'
    BY <1>1, <1>2, <1>6, ShapesKept
  <2>2. Shape(t)'
    BY <1>5, <1>6 DEF Shape
  <2> QED
    BY <2>1, <2>2
<1>9. \A u \in Mounter : OwnReference(u)'
  <2>1. \A u \in Mounter : u # t => OwnReference(u)'
    BY <1>1, <1>6, ReferencesKept
  <2>2. OwnReference(t)'
    BY <1>5, <1>6, SuperNumbers DEF OwnReference
  <2> QED
    BY <2>1, <2>2
<1>10. \A u \in Mounter : Reserved(u)'
  <2>1. ~Mounting(t)'
    BY <1>5, <1>6 DEF Mounting
  <2> QED
    BY <1>1, <1>6, <2>1, ReservedKept
<1>11. \A e \in Dir : CountRight(e)'
  <2>1. \A e \in Dir : dir'[e].count = dir[e].count
              - (IF call[t].holds = e THEN 1 ELSE 0) + (IF call'[t].holds = e THEN 1 ELSE 0)
              - (IF CountsFor(t, e) THEN 1 ELSE 0) + (IF CountsFor(t, e)' THEN 1 ELSE 0)
    <3> TAKE e \in Dir
    <3>1. dir[e].count \in Int /\ dir'[e].count = dir[e].count
      BY <1>1 DEF SuperTypes, Directory
    <3>2. ~CountsFor(t, e)' /\ ~CountsFor(t, e) /\ call[t].holds # e /\ call'[t].holds # e
      BY <1>3, <1>5, <1>6, SuperNumbers DEF CountsFor
    <3> QED
      BY <3>1, <3>2
  <2> QED
    BY <1>1, <1>6, <2>1, CountsMove
<1>12. \A e \in Dir : FlagRight(e)'
  <2>1. \A s \in Mounts!Slot : Unmounts(t, s)' <=> Unmounts(t, s)
    BY <1>2, <1>5, <1>6 DEF Unmounts
  <2> QED
    BY <1>1, <1>6, <2>1, FlagsKept
<1>13. EntriesApart'
  BY <1>1, <1>5, <1>6 DEF EntriesApart, Only
<1> QED
  BY <1>7, <1>8, <1>9, <1>10, <1>11, <1>12, <1>13 DEF SuperIInv

(* iget() of a directory: the file system mounted on it is used by a task, *)
(* and is not being unmounted.                                             *)
LEMMA SuperCrosses ==
  ASSUME SuperIInv, NEW t \in Mounter, Mounts!Runs(t, "user"), call[t].holds = None,
         NEW d \in Dir, dir[d].mount, NEW s \in Mounts!Slot, super[s].imount = d,
         root' = [root EXCEPT ![super[s].dev] = @ + 1], call' = [call EXCEPT ![t].holds = super[s].dev],
         UNCHANGED <<super, dir, panic, program>>
  PROVE  SuperIInv'
<1>1. /\ SuperTypes /\ EntriesApart /\ InUseMounted
      /\ \A u \in Mounter : Shape(u)
      /\ FlagRight(d)
  BY SuperFacts
<1>2. PICK dev \in Dev : dev = super[s].dev
  BY <1>1, SuperNumbers DEF SuperTypes, Entry, EntriesApart
<1>3. /\ root' \in [Dev -> Int]
      /\ \A e \in Dev : e # dev => root'[e] = root[e]
  <2>1. root' = [root EXCEPT ![dev] = @ + 1]
    BY <1>2
  <2> QED
    BY <1>1, <2>1 DEF SuperTypes
<1>4. InUseMounted'
  <2> SUFFICES ASSUME NEW e \in Dev, root'[e] > 0
               PROVE  \E o \in Mounts!Slot : super[o].dev = e /\ super[o].imount # None
    BY DEF InUseMounted
  <2>1. CASE e = dev
    BY <1>2, <2>1, SuperNumbers
  <2>2. CASE e # dev
    BY <1>1, <1>3, <2>2 DEF InUseMounted
  <2> QED
    BY <2>1, <2>2
<1>5. ~Mounts!Umounting(s)
  <2>1. PICK o \in Mounts!Slot : super[o].imount = d /\ ~Mounts!Umounting(o)
    BY <1>1 DEF FlagRight
  <2>2. super[o].dev # None /\ super[s].dev # None /\ d # None
    BY <1>1, <2>1, SuperNumbers DEF EntriesApart
  <2>3. o = s
    BY <1>1, <2>1, <2>2 DEF EntriesApart
  <2> QED
    BY <2>1, <2>3
<1>6. ASSUME NEW u \in Mounter, call[u].pc \in {"iput", "write"}, call[u].slot # 0
      PROVE  ~(root'[call[u].dev] > 0)
  <2>1. /\ call[u].slot \in Mounts!Slot /\ super[call[u].slot].dev = call[u].dev /\ call[u].dev \in Dev
        /\ ~(root[call[u].dev] > 0)
    BY <1>1, <1>6 DEF SuperTypes, Call, Shape
  <2>2. call[u].slot # s
    BY <1>5, <1>6 DEF Mounts!Umounting
  <2>3. call[u].dev # dev
    BY <1>1, <1>2, <2>1, <2>2, SuperNumbers DEF EntriesApart
  <2> QED
    BY <1>3, <2>1, <2>3
<1>7. /\ dev \in Dev \cup {None} /\ call[t].holds \notin Dir
      /\ call' = [call EXCEPT ![t].holds = dev]
  BY <1>2, SuperNumbers
<1> QED
  BY <1>3, <1>4, <1>6, <1>7, SuperUses

LEMMA SuperLooks ==
  ASSUME SuperIInv, NEW t \in Mounter, Mounts!iget(t)
  PROVE  SuperIInv'
<1>1. /\ SuperTypes /\ Shape(t) /\ call[t] \in Call /\ ~panic
      /\ \A u \in Mounter : Shape(u) /\ Reserved(u)
  BY SuperFacts
<1>2. Mounts!Runs(t, "user") /\ call[t].holds = None /\ UNCHANGED <<super, panic, program>>
  BY DEF Mounts!iget
<1>3. call[t].pc = "user" /\ \A u \in Mounter : u # t => call[u].pc # "mount"
  BY <1>2, SuperTurn
<1>4. PICK d \in Dir :
          IF dir[d].mount
             THEN /\ \E s \in Mounts!Slot : super[s].imount = d /\ root[super[s].dev] < MaxCount
                  /\ root' = [root EXCEPT ![super[CHOOSE s \in Mounts!Slot : super[s].imount = d].dev] = @ + 1]
                  /\ call' = [call EXCEPT ![t].holds = super[CHOOSE s \in Mounts!Slot : super[s].imount = d].dev]
                  /\ UNCHANGED dir
             ELSE /\ dir' = [dir EXCEPT ![d].count = @ + 1]
                  /\ call' = [call EXCEPT ![t].holds = d]
                  /\ UNCHANGED root
  BY DEF Mounts!iget
<1>5. CASE dir[d].mount
  <2>1. PICK s \in Mounts!Slot : super[s].imount = d /\ s = CHOOSE o \in Mounts!Slot : super[o].imount = d
    BY <1>4, <1>5
  <2>2. /\ root' = [root EXCEPT ![super[s].dev] = @ + 1]
        /\ call' = [call EXCEPT ![t].holds = super[s].dev]
        /\ UNCHANGED dir
    BY <1>4, <1>5, <2>1
  <2> QED
    BY <1>2, <1>5, <2>1, <2>2, SuperCrosses
<1>6. CASE ~dir[d].mount
  <2>1. call[t].slot = 0 /\ call[t].dir = None /\ call[t].dev = None
    BY <1>1, <1>3 DEF Shape
  <2>2. PICK r \in Call : r = [call[t] EXCEPT !.holds = d]
    BY <1>1 DEF Call
  <2>3. r.pc = "user" /\ r.slot = 0 /\ r.dir = None /\ r.dev = None /\ r.holds = d
    BY <1>1, <1>3, <2>1, <2>2 DEF Call
  <2>4. call' \in [Mounter -> Call] /\ call'[t] = r /\ Only(t)
    <3>1. call' = [call EXCEPT ![t] = r]
      BY <1>1, <1>4, <1>6, <2>2 DEF SuperTypes
    <3> QED
      BY <1>1, <3>1 DEF SuperTypes, Only
  <2>5. /\ dir' \in [Dir -> Directory]
        /\ \A e \in Dir : /\ dir'[e].mount = dir[e].mount
                          /\ dir'[e].count = IF e = d THEN dir[e].count + 1 ELSE dir[e].count
    <3>1. dir' = [dir EXCEPT ![d].count = @ + 1]
      BY <1>4, <1>6
    <3> QED
      BY <1>1, <3>1 DEF SuperTypes, Directory
  <2>6. Shape(t)' /\ OwnReference(t)'
    BY <2>3, <2>4, SuperNumbers DEF Shape, OwnReference
  <2>7. \A u \in Mounter : Reserved(u)'
    <3>1. ~Mounting(t)'
      BY <2>3, <2>4 DEF Mounting
    <3> QED
      BY <1>1, <1>2, <2>4, <3>1, ReservedKept
  <2>8. \A s \in Mounts!Slot : Unmounts(t, s)' <=> Unmounts(t, s)
    BY <1>3, <2>3, <2>4 DEF Unmounts
  <2>9. \A e \in Dir : dir'[e].count = dir[e].count
              - (IF call[t].holds = e THEN 1 ELSE 0) + (IF call'[t].holds = e THEN 1 ELSE 0)
              - (IF CountsFor(t, e) THEN 1 ELSE 0) + (IF CountsFor(t, e)' THEN 1 ELSE 0)
    <3> TAKE e \in Dir
    <3>1. dir[e].count \in Int
      BY <1>1 DEF SuperTypes, Directory
    <3>2. ~CountsFor(t, e)' /\ ~CountsFor(t, e) /\ call[t].holds # e
      BY <1>2, <2>1, <2>3, <2>4, SuperNumbers DEF CountsFor
    <3> QED
      BY <2>3, <2>4, <2>5, <3>1, <3>2
  <2>10. UNCHANGED <<super, root, program>> /\ ~panic' /\ call'[t].pc # "bread"
    BY <1>1, <1>2, <1>4, <1>6, <2>3, <2>4
  <2> QED
    BY <1>3, <2>4, <2>5, <2>6, <2>7, <2>8, <2>9, <2>10, SuperQuiet
<1> QED
  BY <1>5, <1>6

LEMMA SuperLeaves ==
  ASSUME SuperIInv, NEW t \in Mounter, Mounts!Leave(t)
  PROVE  SuperIInv'
<1>1. /\ SuperTypes /\ Shape(t) /\ call[t] \in Call /\ ~panic /\ InUseMounted
      /\ \A u \in Mounter : Shape(u) /\ Reserved(u)
  BY SuperFacts
<1>2. Mounts!Runs(t, "user") /\ UNCHANGED <<super, dir, panic, program>>
  BY DEF Mounts!Leave
<1>3. call[t].pc = "user" /\ \A u \in Mounter : u # t => call[u].pc # "mount"
  BY <1>2, SuperTurn
<1>4. CASE call[t].holds \in Dev
  <2>1. PICK dev \in Dev : dev = call[t].holds /\ dev \notin Dir
    BY <1>4, SuperNumbers
  <2>2. root' = [root EXCEPT ![dev] = @ - 1] /\ call' = [call EXCEPT ![t].holds = None]
    BY <1>4, <2>1 DEF Mounts!Leave
  <2>3. root' \in [Dev -> Int] /\ \A e \in Dev : root[e] \in Int /\ root'[e] <= root[e]
    BY <1>1, <2>2 DEF SuperTypes
  <2>4. \A e \in Dev : root'[e] > 0 => root[e] > 0
    <3> TAKE e \in Dev
    <3>1. root'[e] \in Int
      BY <2>3
    <3> QED
      BY <2>3, <3>1
  <2>5. InUseMounted'
    BY <1>1, <1>2, <2>4 DEF InUseMounted
  <2>6. \A u \in Mounter : call[u].pc \in {"iput", "write"} /\ call[u].slot # 0 => ~(root'[call[u].dev] > 0)
    BY <1>1, <2>4 DEF Shape
  <2>7. call[t].holds \notin Dir /\ None \in Dev \cup {None}
    BY <2>1
  <2> QED
    BY <1>2, <2>2, <2>3, <2>5, <2>6, <2>7, SuperUses
<1>5. CASE call[t].holds \notin Dev
  <2>1. call[t].slot = 0 /\ call[t].dir = None /\ call[t].dev = None
    BY <1>1, <1>3 DEF Shape
  <2>2. PICK d \in Dir : d = call[t].holds
    BY <1>5 DEF Mounts!Leave
  <2>3. Mounts!Go(t, [Mounts!User EXCEPT !.pc = "iput", !.dir = d]) /\ UNCHANGED root
    BY <1>5, <2>2 DEF Mounts!Leave
  <2>4. PICK r \in Call : /\ r = [Mounts!User EXCEPT !.pc = "iput", !.dir = d]
                          /\ r.pc = "iput" /\ r.slot = 0 /\ r.dir = d /\ r.dev = None /\ r.holds = None
    <3>0. Mounts!User \in Call /\ Mounts!User.slot = 0 /\ Mounts!User.dev = None /\ Mounts!User.holds = None
      BY DEF Mounts!User, Call, SuperPc
    <3>1. PICK u \in Call : u = Mounts!User /\ u.slot = 0 /\ u.dev = None /\ u.holds = None
      BY <3>0
    <3>2. PICK r \in Call : r = [u EXCEPT !.pc = "iput", !.dir = d]
      BY DEF Call, SuperPc
    <3>3. r.pc = "iput" /\ r.slot = 0 /\ r.dir = d /\ r.dev = None /\ r.holds = None
      BY <3>1, <3>2 DEF Call
    <3> QED
      BY <3>1, <3>2, <3>3
  <2>5. call' \in [Mounter -> Call] /\ call'[t] = r /\ Only(t)
    <3>1. Mounts!Go(t, r)
      BY <2>3, <2>4
    <3> QED
      BY <1>1, <3>1, SuperGo
  <2>6. Shape(t)' /\ OwnReference(t)'
    BY <2>4, <2>5, SuperNumbers DEF Shape, OwnReference
  <2>7. \A u \in Mounter : Reserved(u)'
    <3>1. ~Mounting(t)'
      BY <2>4, <2>5 DEF Mounting
    <3> QED
      BY <1>1, <1>2, <2>5, <3>1, ReservedKept
  <2>8. \A s \in Mounts!Slot : Unmounts(t, s)' <=> Unmounts(t, s)
    <3>1. 0 \notin Mounts!Slot
      BY SuperNumbers
    <3> QED
      BY <1>3, <2>4, <2>5, <3>1 DEF Unmounts
  <2>9. \A e \in Dir : dir'[e].count = dir[e].count
              - (IF call[t].holds = e THEN 1 ELSE 0) + (IF call'[t].holds = e THEN 1 ELSE 0)
              - (IF CountsFor(t, e) THEN 1 ELSE 0) + (IF CountsFor(t, e)' THEN 1 ELSE 0)
    <3> TAKE e \in Dir
    <3>1. dir[e].count \in Int /\ dir'[e].count = dir[e].count
      BY <1>1, <1>2 DEF SuperTypes, Directory
    <3>2. (CountsFor(t, e)' <=> e = d) /\ ~CountsFor(t, e) /\ (call[t].holds = e <=> e = d) /\ call'[t].holds # e
      BY <2>1, <2>2, <2>4, <2>5, SuperNumbers DEF CountsFor
    <3> QED
      BY <3>1, <3>2
  <2>10. /\ UNCHANGED <<super, root, program>> /\ ~panic' /\ call'[t].pc # "bread"
         /\ dir' \in [Dir -> Directory] /\ \A e \in Dir : dir'[e].mount = dir[e].mount
    BY <1>1, <1>2, <2>3, <2>4, <2>5 DEF SuperTypes
  <2> QED
    BY <1>3, <2>5, <2>6, <2>7, <2>8, <2>9, <2>10, SuperQuiet
<1> QED
  BY <1>4, <1>5

(* The steps of mounting and unmounting keep the invariant.                *)
LEMMA SuperSteps ==
  ASSUME OneUmounts, SuperIInv, Mounts!Next
  PROVE  SuperIInv'
<1> PICK t \in Mounter :
       \/ Mounts!sys_mount(t) \/ Mounts!read_super(t) \/ Mounts!bread(t) \/ Mounts!Mount(t)
       \/ Mounts!iput(t) \/ Mounts!write_inode(t) \/ Mounts!sys_umount(t) \/ Mounts!put_super(t)
       \/ Mounts!iget(t) \/ Mounts!Leave(t)
  BY DEF Mounts!Next
<1>0. SuperTypes /\ Shape(t) /\ call[t] \in Call
  BY SuperFacts
<1>1. CASE Mounts!sys_mount(t)
  BY <1>1, SuperMountStart
<1>2. CASE Mounts!read_super(t)
  <2>1. Mounts!Runs(t, "read_super") /\ UNCHANGED <<dir, root, panic, program>>
    BY <1>2 DEF Mounts!read_super
  <2>2. CASE Mounts!Entries(call[t].dev) # {}
    <3>1. PICK s \in Mounts!Entries(call[t].dev) :
             Mounts!Go(t, [call[t] EXCEPT !.pc = "mount", !.slot = s]) /\ UNCHANGED super
      BY <1>2, <2>2 DEF Mounts!read_super
    <3> QED
      BY <2>1, <3>1, SuperFound
  <2>3. CASE Mounts!Entries(call[t].dev) = {} /\ Mounts!Entries(None) = {}
    <3>1. Mounts!Go(t, [call[t] EXCEPT !.pc = "iput"]) /\ UNCHANGED super
      BY <1>2, <2>3 DEF Mounts!read_super
    <3>2. call[t].slot = 0
      BY <1>0, <2>1 DEF Shape, Mounts!Runs
    <3>3. [call[t] EXCEPT !.pc = "iput"] = [call[t] EXCEPT !.pc = "iput", !.slot = 0]
      BY <1>0, <3>2 DEF Call
    <3> QED
      BY <2>1, <3>1, <3>3, SuperFails
  <2>4. CASE Mounts!Entries(call[t].dev) = {} /\ Mounts!Entries(None) # {}
    <3> DEFINE s == CHOOSE s \in Mounts!Entries(None) : \A o \in Mounts!Entries(None) : s <= o
    <3>1. /\ super' = [super EXCEPT ![s] = [dev |-> call[t].dev, lock |-> TRUE, imount |-> None]]
          /\ Mounts!Sleeps(t, [call[t] EXCEPT !.pc = "bread", !.slot = s])
      BY <1>2, <2>4 DEF Mounts!read_super
    <3>2. \E q \in Mounts!Entries(None) : \A o \in Mounts!Entries(None) : q <= o
      <4>1. Mounts!Entries(None) \subseteq Nat
        BY SuperNumbers DEF Mounts!Entries
      <4> QED
        BY <2>4, <4>1, LeastNatural
    <3>3. s \in Mounts!Entries(None)
      BY <3>2
    <3> HIDE DEF s
    <3> QED
      BY <2>1, <2>4, <3>1, <3>3, SuperNew
  <2> QED
    BY <2>2, <2>3, <2>4
<1>3. CASE Mounts!bread(t)
  BY <1>3, SuperRead
<1>4. CASE Mounts!Mount(t)
  <2>1. Mounts!Runs(t, "mount") /\ UNCHANGED <<root, panic, program>>
    BY <1>4 DEF Mounts!Mount
  <2>2. CASE Mounts!MountedOn(call[t].slot) \/ dir[call[t].dir].mount
    <3>1. Mounts!Go(t, [call[t] EXCEPT !.pc = "iput", !.slot = 0]) /\ UNCHANGED <<super, dir>>
      BY <1>4, <2>2 DEF Mounts!Mount
    <3> QED
      BY <2>1, <3>1, SuperFails
  <2>3. CASE ~(Mounts!MountedOn(call[t].slot) \/ dir[call[t].dir].mount)
    <3>1. /\ super' = [super EXCEPT ![call[t].slot].imount = call[t].dir]
          /\ dir' = [dir EXCEPT ![call[t].dir].mount = TRUE, ![call[t].dir].dirt = TRUE]
          /\ Mounts!Go(t, Mounts!Done(t))
      BY <1>4, <2>3 DEF Mounts!Mount
    <3> QED
      BY <2>1, <2>3, <3>1, SuperMounts
  <2> QED
    BY <2>2, <2>3
<1>5. CASE Mounts!iput(t)
  <2>1. Mounts!Runs(t, "iput") /\ UNCHANGED <<root, program>>
    BY <1>5 DEF Mounts!iput
  <2>2. call[t].dir \in Dir /\ dir[call[t].dir].count # 0
    BY <2>1, SuperTurn, SuperCounted
  <2>3. CASE dir[call[t].dir].count = 1 /\ dir[call[t].dir].dirt
    <3>1. /\ dir' = [dir EXCEPT ![call[t].dir].lock = TRUE]
          /\ Mounts!Sleeps(t, [call[t] EXCEPT !.pc = "write"]) /\ UNCHANGED <<super, panic>>
      BY <1>5, <2>2, <2>3 DEF Mounts!iput
    <3>2. /\ dir' \in [Dir -> Directory]
          /\ \A d \in Dir : dir'[d].mount = dir[d].mount /\ dir'[d].count = dir[d].count
      BY <1>0, <2>2, <3>1 DEF SuperTypes, Directory
    <3> QED
      BY <2>1, <3>1, <3>2, SuperWrites
  <2>4. CASE ~(dir[call[t].dir].count = 1 /\ dir[call[t].dir].dirt)
    <3>1. /\ dir' = [dir EXCEPT ![call[t].dir].count = @ - 1] /\ Mounts!Clears(t)
          /\ Mounts!Go(t, Mounts!After(t)) /\ UNCHANGED panic
      BY <1>5, <2>2, <2>4 DEF Mounts!iput
    <3>2. CASE call[t].slot = 0
      <4>1. Mounts!Go(t, Mounts!Done(t)) /\ UNCHANGED super
        BY <3>1, <3>2 DEF Mounts!After, Mounts!Clears
      <4> QED
        BY <2>1, <3>1, <3>2, <4>1, SuperReleases
    <3>3. CASE call[t].slot # 0
      <4>1. /\ Mounts!Go(t, [call[t] EXCEPT !.pc = "put_super"])
            /\ super' = [super EXCEPT ![call[t].slot].imount = None]
        BY <3>1, <3>3 DEF Mounts!After, Mounts!Clears
      <4> QED
        BY <2>1, <3>1, <3>3, <4>1, SuperClears
    <3> QED
      BY <3>2, <3>3
  <2> QED
    BY <2>3, <2>4
<1>6. CASE Mounts!write_inode(t)
  <2>1. /\ Mounts!Runs(t, "write") /\ UNCHANGED <<super, root, panic, program>>
        /\ dir' = [dir EXCEPT ![call[t].dir].lock = FALSE, ![call[t].dir].dirt = FALSE]
        /\ Mounts!Go(t, [call[t] EXCEPT !.pc = "iput"])
    BY <1>6 DEF Mounts!write_inode
  <2>2. PICK d \in Dir : d = call[t].dir
    BY <1>0, <2>1 DEF Shape, Mounts!Runs
  <2>3. PICK x \in Directory : x = [dir[d] EXCEPT !.lock = FALSE, !.dirt = FALSE]
    BY <1>0 DEF SuperTypes, Directory
  <2>4. x.mount = dir[d].mount /\ x.count = dir[d].count
    BY <1>0, <2>3 DEF SuperTypes, Directory
  <2>5. dir' = [dir EXCEPT ![d] = x]
    BY <1>0, <2>1, <2>2, <2>3 DEF SuperTypes
  <2>6. /\ dir' \in [Dir -> Directory]
        /\ \A e \in Dir : dir'[e].mount = dir[e].mount /\ dir'[e].count = dir[e].count
    BY <1>0, <2>4, <2>5 DEF SuperTypes
  <2> QED
    BY <2>1, <2>6, SuperWrites
<1>7. CASE Mounts!sys_umount(t)
  BY <1>7, SuperUmounts
<1>8. CASE Mounts!put_super(t)
  BY <1>8, SuperPut
<1>9. CASE Mounts!iget(t)
  BY <1>9, SuperLooks
<1>10. CASE Mounts!Leave(t)
  BY <1>10, SuperLeaves
<1> QED
  BY <1>1, <1>2, <1>3, <1>4, <1>5, <1>6, <1>7, <1>8, <1>9, <1>10

LEMMA SuperInit == Mounts!Init => SuperIInv
<1> SUFFICES ASSUME Mounts!Init PROVE SuperIInv
  OBVIOUS
<1>1. /\ super = [s \in Mounts!Slot |-> Mounts!Free]
      /\ dir = [d \in Dir |-> [count |-> 0, mount |-> FALSE, dirt |-> FALSE, lock |-> FALSE]]
      /\ root = [d \in Dev |-> 0] /\ call = [t \in Mounter |-> Mounts!User] /\ panic = FALSE
      /\ program \in Program
  BY DEF Mounts!Init
<1>2. /\ Mounts!User \in Call /\ Mounts!User.slot = 0 /\ Mounts!User.dev = None /\ Mounts!User.holds = None
      /\ Mounts!User.pc = "user" /\ Mounts!User.dir = None
  BY DEF Mounts!User, Call, SuperPc
<1>3. Mounts!Free \in Entry /\ Mounts!Free.dev = None /\ Mounts!Free.imount = None
  BY DEF Mounts!Free, Entry
<1>4. SuperTypes /\ ~panic
  BY <1>1, <1>2, <1>3 DEF SuperTypes, Directory
<1>5. \A t \in Mounter : Shape(t) /\ Reserved(t) /\ OwnReference(t)
  BY <1>1, <1>2, SuperNumbers DEF Shape, Reserved, Mounting, OwnReference
<1>6. ASSUME NEW d \in Dir
      PROVE  CountRight(d) /\ FlagRight(d)
  <2>1. EntriesOn(d) = {} /\ HoldersOf(d) = {} /\ OthersOf(d) = {}
    BY <1>1, <1>2, <1>3, SuperNumbers DEF EntriesOn, HoldersOf, OthersOf, CountsFor
  <2>2. dir[d].count = 0 /\ ~dir[d].mount
    BY <1>1
  <2>3. CountRight(d)
    BY <2>1, <2>2, FS_EmptySet DEF CountRight
  <2>4. FlagRight(d)
    BY <1>1, <1>3, <2>2, SuperNumbers DEF FlagRight
  <2> QED
    BY <2>3, <2>4
<1>7. EntriesApart /\ InUseMounted
  BY <1>1, <1>2, <1>3 DEF EntriesApart, InUseMounted
<1> QED
  BY <1>4, <1>5, <1>6, <1>7 DEF SuperIInv

(* fs/super.c: SuperIInv holds of mounting and unmounting, whatever number *)
(* of tasks mount, when one unmounts.                                      *)
LEMMA SuperInvariant ==
  ASSUME OneUmounts
  PROVE  Spec => []SuperIInv
<1>1. Init => SuperIInv
  BY SuperInit DEF Init
<1>2. ASSUME SuperIInv, [Next]_vars
      PROVE  SuperIInv'
  <2>1. CASE SuperStep
    BY <1>2, <2>1, SuperSteps DEF SuperStep
  <2>2. CASE ~SuperStep
    <3>1. UNCHANGED <<super, dir, root, call, runner, panic, program>>
      BY <1>2, <2>2 DEF Next, vars, superVars, PipeStep, FloppyStep, ConsoleStep, TerminalStep
    <3> QED
      BY <1>2, <3>1, SuperStill
  <2> QED
    BY <2>1, <2>2
<1> QED
  BY <1>1, <1>2, PTL DEF Spec

(* fs/super.c, fs/inode.c: when one task unmounts, s_imount, i_mount and   *)
(* the counts of inodes agree, a device in use is mounted, and iput() does *)
(* not free a free inode.                                                  *)
THEOREM MountsAgree ==
  ASSUME OneUmounts
  PROVE  Spec => []MountsExact
<1>1. ASSUME SuperIInv
      PROVE  MountsExact
  <2>1. /\ ~panic /\ EntriesApart /\ InUseMounted
        /\ \A d \in Dir : CountRight(d) /\ FlagRight(d)
    BY <1>1 DEF SuperIInv
  <2>2. ASSUME NEW d \in Dir
        PROVE  dir[d].count = Mounts!Cardinality({s \in Mounts!Slot : super[s].imount = d})
                              + Mounts!Cardinality({t \in Mounter : call[t].holds = d})
                              + Mounts!Cardinality({t \in Mounter : call[t].dir = d /\ call[t].holds # d /\
                                    (call[t].slot = 0 \/ call[t].pc \in {"bread", "mount"})})
    BY <2>1, MountsCardinality DEF CountRight, EntriesOn, HoldersOf, OthersOf, CountsFor
  <2>3. Mounts!MountsExact
    BY <2>1, <2>2 DEF Mounts!MountsExact, FlagRight, EntriesApart, InUseMounted
  <2> QED
    BY <2>3 DEF MountsExact
<1> QED
  BY <1>1, SuperInvariant, PTL
=============================================================================
