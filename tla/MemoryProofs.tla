---------------------------- MODULE MemoryProofs ---------------------------
(***************************************************************************)
(* Proofs about module Memory, for any number of processes, frames and     *)
(* pages: reference counts are exact, a writable page has one owner, and   *)
(* the frames implement address spaces that nobody shares.                 *)
(***************************************************************************)
EXTENDS Memory, TLAPS, FiniteSetTheorems

-----------------------------------------------------------------------------
(* Counting cells *)

(* The cells of S that are in A and those in B differ only at c.           *)
LEMMA OneCell ==
  ASSUME NEW S, IsFiniteSet(S), NEW c \in S,
         NEW A \in SUBSET S, NEW B \in SUBSET S, A \ {c} = B \ {c}
  PROVE  /\ Cardinality(A) \in Nat /\ Cardinality(B) \in Nat
         /\ Cardinality(B) = Cardinality(A) - (IF c \in A THEN 1 ELSE 0)
                                            + (IF c \in B THEN 1 ELSE 0)
<1>1. IsFiniteSet(A) /\ IsFiniteSet(B)
  BY FS_Subset
<1>2. Cardinality(A) \in Nat /\ Cardinality(B) \in Nat
  BY <1>1, FS_CardinalityType
<1>3. Cardinality(A \ {c}) = IF c \in A THEN Cardinality(A) - 1 ELSE Cardinality(A)
  BY <1>1, FS_RemoveElement
<1>4. Cardinality(B \ {c}) = IF c \in B THEN Cardinality(B) - 1 ELSE Cardinality(B)
  BY <1>1, FS_RemoveElement
<1>5. Cardinality(A \ {c}) = Cardinality(B \ {c})
  OBVIOUS
<1> QED
  BY <1>2, <1>3, <1>4, <1>5

(* Removing a part of a row.                                               *)
LEMMA RowRemoved ==
  ASSUME NEW A, IsFiniteSet(A), NEW D, IsFiniteSet(D), NEW R \in SUBSET D,
         NEW p, NEW C, C = {p} \X R, C \subseteq A
  PROVE  /\ Cardinality(A) \in Nat /\ Cardinality(R) \in Nat
         /\ Cardinality(A \ C) = Cardinality(A) - Cardinality(R)
<1>1. IsFiniteSet(R)
  BY FS_Subset
<1>2. Cardinality(A) \in Nat /\ Cardinality(R) \in Nat
  BY <1>1, FS_CardinalityType
<1>3. Cardinality(C) = Cardinality(R)
  <2>1. IsFiniteSet({p}) /\ Cardinality({p}) = 1
    BY FS_Singleton
  <2>2. Cardinality(C) = 1 * Cardinality(R)
    BY <1>1, <2>1, FS_Product
  <2> QED
    BY <1>2, <2>2
<1>4. A \cap C = C
  OBVIOUS
<1>5. Cardinality(A \ C) = Cardinality(A) - Cardinality(A \cap C)
  BY FS_Difference
<1> QED
  BY <1>2, <1>3, <1>4, <1>5

-----------------------------------------------------------------------------
(* References to frames *)

(* The four places that refer to a frame: a task structure, a page table,  *)
(* a page that is not mapped yet (new has the same type as task), a page.  *)
Cells(t, f) == {p \in Proc : t[p] = f}
TableCells(tb, f) == {pd \in Proc \X Dir : tb[pd[1]][pd[2]] = f}
PageCells(pt, f) == {pv \in Proc \X Page : pt[pv[1]][pv[2]].frame = f}

Maps == [Frame -> Nat]
Owners == [Proc -> Frame \cup {NoFrame}]
Directories == [Proc -> [Dir -> Frame \cup {NoFrame}]]
Entry == [frame : Frame \cup {NoFrame}, w : BOOLEAN, d : BOOLEAN]
PageTables == [Proc -> [Page -> Entry]]

LEMMA Finite ==
  /\ IsFiniteSet(Proc) /\ IsFiniteSet(Dir) /\ IsFiniteSet(Page) /\ IsFiniteSet(Frame)
  /\ IsFiniteSet(Proc \X Dir) /\ IsFiniteSet(Proc \X Page)
<1>1. IsFiniteSet(Proc) /\ IsFiniteSet(Frame)
  BY MemoryAssumption, FS_Interval DEF Proc, Frame
<1>2. IsFiniteSet(Page)
  BY MemoryAssumption
<1>3. IsFiniteSet(Dir)
  <2> DEFINE h == [v \in Page |-> DirOf[v]]
  <2>1. h \in Surjection(Page, Dir)
    BY DEF Dir, Surjection
  <2> QED
    BY <1>2, <2>1, FS_Surjection
<1> QED
  BY <1>1, <1>2, <1>3, FS_Product

(* One cell changes.                                                       *)
LEMMA CellChange ==
  ASSUME NEW t \in Owners, NEW u \in Owners, NEW p \in Proc,
         \A q \in Proc : q # p => u[q] = t[q]
  PROVE  \A f \in Frame :
            /\ Cardinality(Cells(t, f)) \in Nat /\ Cardinality(Cells(u, f)) \in Nat
            /\ Cardinality(Cells(u, f)) = Cardinality(Cells(t, f))
                  - (IF t[p] = f THEN 1 ELSE 0) + (IF u[p] = f THEN 1 ELSE 0)
<1> TAKE f \in Frame
<1>1. Cells(t, f) \in SUBSET Proc /\ Cells(u, f) \in SUBSET Proc
  BY DEF Cells
<1>2. Cells(t, f) \ {p} = Cells(u, f) \ {p}
  BY DEF Cells
<1>3. (p \in Cells(t, f) <=> t[p] = f) /\ (p \in Cells(u, f) <=> u[p] = f)
  BY DEF Cells
<1> HIDE DEF Cells
<1> QED
  BY <1>1, <1>2, <1>3, Finite, OneCell

LEMMA TableChange ==
  ASSUME NEW t \in Directories, NEW u \in Directories, NEW p \in Proc, NEW d \in Dir,
         \A q \in Proc, e \in Dir : <<q, e>> # <<p, d>> => u[q][e] = t[q][e]
  PROVE  \A f \in Frame :
            /\ Cardinality(TableCells(t, f)) \in Nat /\ Cardinality(TableCells(u, f)) \in Nat
            /\ Cardinality(TableCells(u, f)) = Cardinality(TableCells(t, f))
                  - (IF t[p][d] = f THEN 1 ELSE 0) + (IF u[p][d] = f THEN 1 ELSE 0)
<1> TAKE f \in Frame
<1>1. TableCells(t, f) \in SUBSET (Proc \X Dir) /\ TableCells(u, f) \in SUBSET (Proc \X Dir)
  BY DEF TableCells
<1>2. TableCells(t, f) \ {<<p, d>>} = TableCells(u, f) \ {<<p, d>>}
  BY DEF TableCells
<1>3. (<<p, d>> \in TableCells(t, f) <=> t[p][d] = f) /\ (<<p, d>> \in TableCells(u, f) <=> u[p][d] = f)
  BY DEF TableCells
<1>4. <<p, d>> \in Proc \X Dir
  OBVIOUS
<1>5. /\ Cardinality(TableCells(t, f)) \in Nat /\ Cardinality(TableCells(u, f)) \in Nat
      /\ Cardinality(TableCells(u, f)) = Cardinality(TableCells(t, f))
            - (IF <<p, d>> \in TableCells(t, f) THEN 1 ELSE 0) + (IF <<p, d>> \in TableCells(u, f) THEN 1 ELSE 0)
  <2> DEFINE S == Proc \X Dir
             c == <<p, d>>
             A == TableCells(t, f)
             B == TableCells(u, f)
  <2>1. IsFiniteSet(S) /\ c \in S /\ A \in SUBSET S /\ B \in SUBSET S /\ A \ {c} = B \ {c}
    BY <1>1, <1>2, <1>4, Finite
  <2> HIDE DEF S, c, A, B
  <2>2. /\ Cardinality(A) \in Nat /\ Cardinality(B) \in Nat
        /\ Cardinality(B) = Cardinality(A) - (IF c \in A THEN 1 ELSE 0) + (IF c \in B THEN 1 ELSE 0)
    BY <2>1, OneCell
  <2> QED
    BY <2>2 DEF A, B, c
<1>6. /\ (IF <<p, d>> \in TableCells(t, f) THEN 1 ELSE 0) = IF t[p][d] = f THEN 1 ELSE 0
      /\ (IF <<p, d>> \in TableCells(u, f) THEN 1 ELSE 0) = IF u[p][d] = f THEN 1 ELSE 0
  BY <1>3
<1> QED
  BY <1>5, <1>6, Zenon

LEMMA PageChange ==
  ASSUME NEW t \in PageTables, NEW u \in PageTables, NEW p \in Proc, NEW v \in Page,
         \A q \in Proc, x \in Page : <<q, x>> # <<p, v>> => u[q][x].frame = t[q][x].frame
  PROVE  \A f \in Frame :
            /\ Cardinality(PageCells(t, f)) \in Nat /\ Cardinality(PageCells(u, f)) \in Nat
            /\ Cardinality(PageCells(u, f)) = Cardinality(PageCells(t, f))
                  - (IF t[p][v].frame = f THEN 1 ELSE 0) + (IF u[p][v].frame = f THEN 1 ELSE 0)
<1> TAKE f \in Frame
<1>1. PageCells(t, f) \in SUBSET (Proc \X Page) /\ PageCells(u, f) \in SUBSET (Proc \X Page)
  BY DEF PageCells
<1>2. PageCells(t, f) \ {<<p, v>>} = PageCells(u, f) \ {<<p, v>>}
  BY DEF PageCells
<1>3. (<<p, v>> \in PageCells(t, f) <=> t[p][v].frame = f) /\ (<<p, v>> \in PageCells(u, f) <=> u[p][v].frame = f)
  BY DEF PageCells
<1>4. <<p, v>> \in Proc \X Page
  OBVIOUS
<1>5. /\ Cardinality(PageCells(t, f)) \in Nat /\ Cardinality(PageCells(u, f)) \in Nat
      /\ Cardinality(PageCells(u, f)) = Cardinality(PageCells(t, f))
            - (IF <<p, v>> \in PageCells(t, f) THEN 1 ELSE 0) + (IF <<p, v>> \in PageCells(u, f) THEN 1 ELSE 0)
  <2> DEFINE S == Proc \X Page
             c == <<p, v>>
             A == PageCells(t, f)
             B == PageCells(u, f)
  <2>1. IsFiniteSet(S) /\ c \in S /\ A \in SUBSET S /\ B \in SUBSET S /\ A \ {c} = B \ {c}
    BY <1>1, <1>2, <1>4, Finite
  <2> HIDE DEF S, c, A, B
  <2>2. /\ Cardinality(A) \in Nat /\ Cardinality(B) \in Nat
        /\ Cardinality(B) = Cardinality(A) - (IF c \in A THEN 1 ELSE 0) + (IF c \in B THEN 1 ELSE 0)
    BY <2>1, OneCell
  <2> QED
    BY <2>2 DEF A, B, c
<1>6. /\ (IF <<p, v>> \in PageCells(t, f) THEN 1 ELSE 0) = IF t[p][v].frame = f THEN 1 ELSE 0
      /\ (IF <<p, v>> \in PageCells(u, f) THEN 1 ELSE 0) = IF u[p][v].frame = f THEN 1 ELSE 0
  BY <1>3
<1> QED
  BY <1>5, <1>6, Zenon

(* One row changes, as in free_page_tables() and copy_page_tables().       *)
LEMMA TableRowChange ==
  ASSUME NEW t \in Directories, NEW u \in Directories, NEW p \in Proc,
         \A q \in Proc : q # p => u[q] = t[q]
  PROVE  \A f \in Frame :
            /\ Cardinality(TableCells(t, f)) \in Nat /\ Cardinality(TableCells(u, f)) \in Nat
            /\ Cardinality({d \in Dir : t[p][d] = f}) \in Nat
            /\ Cardinality({d \in Dir : u[p][d] = f}) \in Nat
            /\ Cardinality(TableCells(u, f)) = Cardinality(TableCells(t, f))
                  - Cardinality({d \in Dir : t[p][d] = f}) + Cardinality({d \in Dir : u[p][d] = f})
<1> TAKE f \in Frame
<1> DEFINE A == TableCells(t, f)
           B == TableCells(u, f)
           RA == {d \in Dir : t[p][d] = f}
           RB == {d \in Dir : u[p][d] = f}
           CA == {p} \X RA
           CB == {p} \X RB
<1>1. A \in SUBSET (Proc \X Dir) /\ B \in SUBSET (Proc \X Dir)
  BY DEF TableCells
<1>2. IsFiniteSet(A) /\ IsFiniteSet(B)
  BY <1>1, Finite, FS_Subset
<1>3. CA \subseteq A /\ CB \subseteq B
  BY DEF TableCells
<1>4. A \ CA = B \ CB
  BY DEF TableCells
<1>5. IsFiniteSet(Dir) /\ RA \in SUBSET Dir /\ RB \in SUBSET Dir /\ CA = {p} \X RA /\ CB = {p} \X RB
  BY Finite
<1> HIDE DEF A, B, RA, RB, CA, CB
<1>6. /\ Cardinality(A) \in Nat /\ Cardinality(RA) \in Nat
      /\ Cardinality(A \ CA) = Cardinality(A) - Cardinality(RA)
  BY <1>2, <1>3, <1>5, RowRemoved
<1>7. /\ Cardinality(B) \in Nat /\ Cardinality(RB) \in Nat
      /\ Cardinality(B \ CB) = Cardinality(B) - Cardinality(RB)
  BY <1>2, <1>3, <1>5, RowRemoved
<1>8. PICK n : n = Cardinality(A \ CA) /\ n = Cardinality(B \ CB)
  BY <1>4
<1>9. Cardinality(B) = Cardinality(A) - Cardinality(RA) + Cardinality(RB)
  BY <1>6, <1>7, <1>8
<1> QED
  BY <1>6, <1>7, <1>9 DEF A, B, RA, RB

LEMMA PageRowChange ==
  ASSUME NEW t \in PageTables, NEW u \in PageTables, NEW p \in Proc,
         \A q \in Proc, v \in Page : q # p => u[q][v].frame = t[q][v].frame
  PROVE  \A f \in Frame :
            /\ Cardinality(PageCells(t, f)) \in Nat /\ Cardinality(PageCells(u, f)) \in Nat
            /\ Cardinality({v \in Page : t[p][v].frame = f}) \in Nat
            /\ Cardinality({v \in Page : u[p][v].frame = f}) \in Nat
            /\ Cardinality(PageCells(u, f)) = Cardinality(PageCells(t, f))
                  - Cardinality({v \in Page : t[p][v].frame = f}) + Cardinality({v \in Page : u[p][v].frame = f})
<1> TAKE f \in Frame
<1> DEFINE A == PageCells(t, f)
           B == PageCells(u, f)
           RA == {v \in Page : t[p][v].frame = f}
           RB == {v \in Page : u[p][v].frame = f}
           CA == {p} \X RA
           CB == {p} \X RB
<1>1. A \in SUBSET (Proc \X Page) /\ B \in SUBSET (Proc \X Page)
  BY DEF PageCells
<1>2. IsFiniteSet(A) /\ IsFiniteSet(B)
  BY <1>1, Finite, FS_Subset
<1>3. CA \subseteq A /\ CB \subseteq B
  BY DEF PageCells
<1>4. A \ CA = B \ CB
  BY DEF PageCells
<1>5. IsFiniteSet(Page) /\ RA \in SUBSET Page /\ RB \in SUBSET Page /\ CA = {p} \X RA /\ CB = {p} \X RB
  BY Finite
<1> HIDE DEF A, B, RA, RB, CA, CB
<1>6. /\ Cardinality(A) \in Nat /\ Cardinality(RA) \in Nat
      /\ Cardinality(A \ CA) = Cardinality(A) - Cardinality(RA)
  BY <1>2, <1>3, <1>5, RowRemoved
<1>7. /\ Cardinality(B) \in Nat /\ Cardinality(RB) \in Nat
      /\ Cardinality(B \ CB) = Cardinality(B) - Cardinality(RB)
  BY <1>2, <1>3, <1>5, RowRemoved
<1>8. PICK n : n = Cardinality(A \ CA) /\ n = Cardinality(B \ CB)
  BY <1>4
<1>9. Cardinality(B) = Cardinality(A) - Cardinality(RA) + Cardinality(RB)
  BY <1>6, <1>7, <1>8
<1> QED
  BY <1>6, <1>7, <1>9 DEF A, B, RA, RB


LEMMA AtLeast ==
  ASSUME NEW S, IsFiniteSet(S)
  PROVE  /\ Cardinality(S) \in Nat
         /\ \A x \in S : Cardinality(S) >= 1
         /\ \A x, y \in S : x # y => Cardinality(S) >= 2
<1>1. Cardinality(S) \in Nat
  BY FS_CardinalityType
<1>2. ASSUME NEW x \in S
      PROVE  Cardinality(S) >= 1
  BY <1>1, FS_EmptySet
<1>3. ASSUME NEW x \in S, NEW y \in S, x # y
      PROVE  Cardinality(S) >= 2
  <2>1. Cardinality(S) # 1
    BY <1>3, FS_Singleton
  <2> QED
    BY <1>1, <1>2, <2>1
<1> QED
  BY <1>1, <1>2, <1>3

LEMMA CellsAtLeast ==
  ASSUME NEW t \in Owners, NEW f \in Frame
  PROVE  /\ Cardinality(Cells(t, f)) \in Nat
         /\ \A p \in Proc : t[p] = f => Cardinality(Cells(t, f)) >= 1
         /\ \A p, q \in Proc : t[p] = f /\ t[q] = f /\ p # q => Cardinality(Cells(t, f)) >= 2
<1> DEFINE A == Cells(t, f)
<1>1. IsFiniteSet(A) /\ \A p \in Proc : t[p] = f => p \in A
  BY Finite, FS_Subset DEF Cells
<1> HIDE DEF A
<1>2. Cardinality(A) \in Nat /\ (\A x \in A : Cardinality(A) >= 1) /\ \A x, y \in A : x # y => Cardinality(A) >= 2
  BY <1>1, AtLeast
<1> QED
  BY <1>1, <1>2 DEF A

LEMMA TableCellsAtLeast ==
  ASSUME NEW t \in Directories, NEW f \in Frame
  PROVE  /\ Cardinality(TableCells(t, f)) \in Nat
         /\ \A p \in Proc, d \in Dir : t[p][d] = f => Cardinality(TableCells(t, f)) >= 1
         /\ \A p, q \in Proc, d, e \in Dir :
               t[p][d] = f /\ t[q][e] = f /\ (p # q \/ d # e) => Cardinality(TableCells(t, f)) >= 2
<1> DEFINE A == TableCells(t, f)
<1>1. IsFiniteSet(A) /\ \A p \in Proc, d \in Dir : t[p][d] = f => <<p, d>> \in A
  BY Finite, FS_Subset DEF TableCells
<1> HIDE DEF A
<1>2. Cardinality(A) \in Nat /\ (\A x \in A : Cardinality(A) >= 1) /\ \A x, y \in A : x # y => Cardinality(A) >= 2
  BY <1>1, AtLeast
<1>3. \A p, q, d, e : p # q \/ d # e => <<p, d>> # <<q, e>>
  OBVIOUS
<1> QED
  BY <1>1, <1>2, <1>3 DEF A

LEMMA PageCellsAtLeast ==
  ASSUME NEW t \in PageTables, NEW f \in Frame
  PROVE  /\ Cardinality(PageCells(t, f)) \in Nat
         /\ \A p \in Proc, v \in Page : t[p][v].frame = f => Cardinality(PageCells(t, f)) >= 1
         /\ \A p, q \in Proc, v, x \in Page :
               t[p][v].frame = f /\ t[q][x].frame = f /\ (p # q \/ v # x) => Cardinality(PageCells(t, f)) >= 2
<1> DEFINE A == PageCells(t, f)
<1>1. IsFiniteSet(A) /\ \A p \in Proc, v \in Page : t[p][v].frame = f => <<p, v>> \in A
  BY Finite, FS_Subset DEF PageCells
<1> HIDE DEF A
<1>2. Cardinality(A) \in Nat /\ (\A x \in A : Cardinality(A) >= 1) /\ \A x, y \in A : x # y => Cardinality(A) >= 2
  BY <1>1, AtLeast
<1>3. \A p, q, d, e : p # q \/ d # e => <<p, d>> # <<q, e>>
  OBVIOUS
<1> QED
  BY <1>1, <1>2, <1>3 DEF A

-----------------------------------------------------------------------------
(* What every elementary change of the reference counts keeps: they are    *)
(* exact, and the frames of task structures, of page tables, of pages that *)
(* are being loaded and of writable pages have one owner.                  *)
Typed(m, ta, tb, ne, pt) ==
    /\ m \in Maps /\ ta \in Owners /\ tb \in Directories /\ ne \in Owners /\ pt \in PageTables

Exact(m, ta, tb, ne, pt) ==
    \A f \in Frame :
        m[f] = Cardinality(Cells(ta, f)) + Cardinality(TableCells(tb, f))
               + Cardinality(Cells(ne, f)) + Cardinality(PageCells(pt, f))

Alone(m, ta, tb, ne, pt) ==
    /\ \A p \in Proc : ta[p] # NoFrame => m[ta[p]] = 1
    /\ \A p \in Proc : ne[p] # NoFrame => m[ne[p]] = 1
    /\ \A p \in Proc, d \in Dir : tb[p][d] # NoFrame => m[tb[p][d]] = 1
    /\ \A p \in Proc, v \in Page : pt[p][v].w => pt[p][v].frame # NoFrame /\ m[pt[p][v].frame] = 1

Good(m, ta, tb, ne, pt) ==
    Typed(m, ta, tb, ne, pt) /\ Exact(m, ta, tb, ne, pt) /\ Alone(m, ta, tb, ne, pt)

LEMMA Numbers == NoFrame \notin Frame /\ NoFrame = 0 /\ \A f \in Frame : f # 0
BY MemoryAssumption DEF NoFrame, Frame

(* A frame with no reference is nowhere, and one with a single reference   *)
(* is in one place.                                                        *)
Nowhere(f, ta, tb, ne, pt) ==
    /\ \A p \in Proc : ta[p] # f /\ ne[p] # f
    /\ \A p \in Proc, d \in Dir : tb[p][d] # f
    /\ \A p \in Proc, v \in Page : pt[p][v].frame # f

OnePlace(f, ta, tb, ne, pt) ==
    /\ \A p, q \in Proc : ta[p] = f /\ ta[q] = f => p = q
    /\ \A p, q \in Proc : ne[p] = f /\ ne[q] = f => p = q
    /\ \A p, q \in Proc, d, e \in Dir : tb[p][d] = f /\ tb[q][e] = f => p = q /\ d = e
    /\ \A p, q \in Proc, v, x \in Page : pt[p][v].frame = f /\ pt[q][x].frame = f => p = q /\ v = x
    /\ \A p, q \in Proc : ~(ta[p] = f /\ ne[q] = f)
    /\ \A p, q \in Proc, d \in Dir : ~(ta[p] = f /\ tb[q][d] = f) /\ ~(ne[p] = f /\ tb[q][d] = f)
    /\ \A p, q \in Proc, v \in Page : ~(ta[p] = f /\ pt[q][v].frame = f) /\ ~(ne[p] = f /\ pt[q][v].frame = f)
    /\ \A p, q \in Proc, d \in Dir, v \in Page : ~(tb[p][d] = f /\ pt[q][v].frame = f)

LEMMA Referred ==
  ASSUME NEW m, NEW ta, NEW tb, NEW ne, NEW pt, Good(m, ta, tb, ne, pt), NEW f \in Frame
  PROVE  /\ m[f] = 0 => Nowhere(f, ta, tb, ne, pt)
         /\ m[f] <= 1 => OnePlace(f, ta, tb, ne, pt)
<1> DEFINE a == Cardinality(Cells(ta, f))
           b == Cardinality(TableCells(tb, f))
           c == Cardinality(Cells(ne, f))
           d == Cardinality(PageCells(pt, f))
<1>0. ta \in Owners /\ ne \in Owners /\ tb \in Directories /\ pt \in PageTables
  BY DEF Good, Typed
<1>1. m[f] = a + b + c + d
  BY DEF Good, Exact
<1>2. /\ a \in Nat /\ \A p \in Proc : ta[p] = f => a >= 1
      /\ \A p, q \in Proc : ta[p] = f /\ ta[q] = f /\ p # q => a >= 2
  BY <1>0, CellsAtLeast
<1>3. /\ c \in Nat /\ \A p \in Proc : ne[p] = f => c >= 1
      /\ \A p, q \in Proc : ne[p] = f /\ ne[q] = f /\ p # q => c >= 2
  BY <1>0, CellsAtLeast
<1>4. /\ b \in Nat /\ \A p \in Proc, e \in Dir : tb[p][e] = f => b >= 1
      /\ \A p, q \in Proc, e, g \in Dir : tb[p][e] = f /\ tb[q][g] = f /\ (p # q \/ e # g) => b >= 2
  BY <1>0, TableCellsAtLeast
<1>5. /\ d \in Nat /\ \A p \in Proc, v \in Page : pt[p][v].frame = f => d >= 1
      /\ \A p, q \in Proc, v, x \in Page : pt[p][v].frame = f /\ pt[q][x].frame = f /\ (p # q \/ v # x) => d >= 2
  BY <1>0, PageCellsAtLeast
<1> HIDE DEF a, b, c, d
<1>6. ASSUME m[f] = 0
      PROVE  Nowhere(f, ta, tb, ne, pt)
  <2>1. a = 0 /\ b = 0 /\ c = 0 /\ d = 0
    BY <1>1, <1>2, <1>3, <1>4, <1>5, <1>6
  <2> QED
    BY <1>2, <1>3, <1>4, <1>5, <2>1 DEF Nowhere
<1>7. ASSUME m[f] <= 1
      PROVE  OnePlace(f, ta, tb, ne, pt)
  <2>1. a + b + c + d <= 1
    BY <1>1, <1>7
  <2>2. /\ a <= 1 /\ b <= 1 /\ c <= 1 /\ d <= 1
        /\ ~(a >= 1 /\ b >= 1) /\ ~(a >= 1 /\ c >= 1) /\ ~(a >= 1 /\ d >= 1)
        /\ ~(b >= 1 /\ c >= 1) /\ ~(b >= 1 /\ d >= 1) /\ ~(c >= 1 /\ d >= 1)
    BY <1>2, <1>3, <1>4, <1>5, <2>1
  <2>3. ~(a >= 2) /\ ~(b >= 2) /\ ~(c >= 2) /\ ~(d >= 2)
    BY <1>2, <1>3, <1>4, <1>5, <2>2
  <2> QED
    <3>1. \A p, q \in Proc : (ta[p] = f /\ ta[q] = f => p = q) /\ (ne[p] = f /\ ne[q] = f => p = q)
      BY <1>2, <1>3, <2>3, Zenon
    <3>2. \A p, q \in Proc, g, e \in Dir : tb[p][g] = f /\ tb[q][e] = f => p = q /\ g = e
      BY <1>4, <2>3, Zenon
    <3>3. \A p, q \in Proc, v, x \in Page : pt[p][v].frame = f /\ pt[q][x].frame = f => p = q /\ v = x
      <4>1. ~(d >= 2)
        BY <2>3
      <4>2. \A p, q \in Proc, v, x \in Page : pt[p][v].frame = f /\ pt[q][x].frame = f => ~(p # q \/ v # x)
        BY <1>5, <4>1
      <4> QED
        BY <4>2
    <3>4. \A p, q \in Proc : ~(ta[p] = f /\ ne[q] = f)
      BY <1>2, <1>3, <2>2, Zenon
    <3>5. \A p, q \in Proc, e \in Dir : ~(ta[p] = f /\ tb[q][e] = f) /\ ~(ne[p] = f /\ tb[q][e] = f)
      BY <1>2, <1>3, <1>4, <2>2, Zenon
    <3>6. \A p, q \in Proc, v \in Page : ~(ta[p] = f /\ pt[q][v].frame = f) /\ ~(ne[p] = f /\ pt[q][v].frame = f)
      BY <1>2, <1>3, <1>5, <2>2, Zenon
    <3>7. \A p, q \in Proc, e \in Dir, v \in Page : ~(tb[p][e] = f /\ pt[q][v].frame = f)
      BY <1>4, <1>5, <2>2, Zenon
    <3> QED
      BY <3>1, <3>2, <3>3, <3>4, <3>5, <3>6, <3>7, Zenon DEF OnePlace
<1> QED
  BY <1>6, <1>7

(* get_free_page() for a page table.                                       *)
LEMMA TakeTable ==
  ASSUME NEW m, NEW ta, NEW tb, NEW ne, NEW pt, Good(m, ta, tb, ne, pt),
         NEW p \in Proc, NEW d \in Dir, NEW f \in Frame, m[f] = 0, tb[p][d] = NoFrame,
         NEW m2 \in Maps, \A g \in Frame : m2[g] = IF g = f THEN 1 ELSE m[g],
         NEW tb2 \in Directories, tb2[p][d] = f,
         \A q \in Proc, e \in Dir : <<q, e>> # <<p, d>> => tb2[q][e] = tb[q][e]
  PROVE  Good(m2, ta, tb2, ne, pt)
<1>1. Typed(m, ta, tb, ne, pt) /\ Typed(m2, ta, tb2, ne, pt)
  BY DEF Good, Typed
<1>2. Exact(m2, ta, tb2, ne, pt)
  <2> SUFFICES ASSUME NEW g \in Frame
               PROVE  m2[g] = Cardinality(Cells(ta, g)) + Cardinality(TableCells(tb2, g))
                               + Cardinality(Cells(ne, g)) + Cardinality(PageCells(pt, g))
    BY DEF Exact
  <2>1. /\ Cardinality(TableCells(tb, g)) \in Nat /\ Cardinality(TableCells(tb2, g)) \in Nat
        /\ Cardinality(TableCells(tb2, g)) = Cardinality(TableCells(tb, g))
              - (IF tb[p][d] = g THEN 1 ELSE 0) + (IF tb2[p][d] = g THEN 1 ELSE 0)
    BY <1>1, TableChange DEF Typed
  <2>2. /\ Cardinality(Cells(ta, g)) \in Nat /\ Cardinality(Cells(ne, g)) \in Nat
        /\ Cardinality(PageCells(pt, g)) \in Nat
    BY <1>1, CellsAtLeast, PageCellsAtLeast DEF Typed
  <2>3. m[g] = Cardinality(Cells(ta, g)) + Cardinality(TableCells(tb, g))
               + Cardinality(Cells(ne, g)) + Cardinality(PageCells(pt, g))
    BY DEF Good, Exact
  <2>4. m2[g] = m[g] + (IF g = f THEN 1 ELSE 0) /\ m[g] \in Nat
    BY <1>1 DEF Typed, Maps
  <2> QED
    BY <2>1, <2>2, <2>3, <2>4, Numbers
<1>3. Alone(m2, ta, tb2, ne, pt)
  <2>1. \A g \in Frame : m[g] = 1 => m2[g] = 1
    OBVIOUS
  <2>2. /\ \A q \in Proc : ta[q] # NoFrame => ta[q] \in Frame
        /\ \A q \in Proc : ne[q] # NoFrame => ne[q] \in Frame
        /\ \A q \in Proc, e \in Dir : tb[q][e] # NoFrame => tb[q][e] \in Frame
        /\ \A q \in Proc, v \in Page : pt[q][v].frame # NoFrame => pt[q][v].frame \in Frame
    BY <1>1 DEF Typed, Owners, Directories, PageTables, Entry
  <2>3. Alone(m, ta, tb, ne, pt)
    BY DEF Good
  <2>4. ASSUME NEW q \in Proc, NEW e \in Dir, tb2[q][e] # NoFrame
        PROVE  m2[tb2[q][e]] = 1
    <3>1. CASE <<q, e>> = <<p, d>>
      BY <3>1
    <3>2. CASE <<q, e>> # <<p, d>>
      BY <2>1, <2>2, <2>3, <2>4, <3>2 DEF Alone
    <3> QED
      BY <3>1, <3>2
  <2> QED
    BY <2>1, <2>2, <2>3, <2>4 DEF Alone
<1> QED
  BY <1>1, <1>2, <1>3 DEF Good

(* get_free_page() for a page that is loaded or for the arguments of exec. *)
LEMMA TakeNew ==
  ASSUME NEW m, NEW ta, NEW tb, NEW ne, NEW pt, Good(m, ta, tb, ne, pt),
         NEW p \in Proc, NEW f \in Frame, m[f] = 0, ne[p] = NoFrame,
         NEW m2 \in Maps, \A g \in Frame : m2[g] = IF g = f THEN 1 ELSE m[g],
         NEW ne2 \in Owners, ne2[p] = f, \A q \in Proc : q # p => ne2[q] = ne[q]
  PROVE  Good(m2, ta, tb, ne2, pt)
<1>1. Typed(m, ta, tb, ne, pt) /\ Typed(m2, ta, tb, ne2, pt)
  BY DEF Good, Typed
<1>2. Exact(m2, ta, tb, ne2, pt)
  <2> SUFFICES ASSUME NEW g \in Frame
               PROVE  m2[g] = Cardinality(Cells(ta, g)) + Cardinality(TableCells(tb, g))
                               + Cardinality(Cells(ne2, g)) + Cardinality(PageCells(pt, g))
    BY DEF Exact
  <2>1. /\ Cardinality(Cells(ne, g)) \in Nat /\ Cardinality(Cells(ne2, g)) \in Nat
        /\ Cardinality(Cells(ne2, g)) = Cardinality(Cells(ne, g))
              - (IF ne[p] = g THEN 1 ELSE 0) + (IF ne2[p] = g THEN 1 ELSE 0)
    BY <1>1, CellChange DEF Typed
  <2>2. /\ Cardinality(Cells(ta, g)) \in Nat /\ Cardinality(TableCells(tb, g)) \in Nat
        /\ Cardinality(PageCells(pt, g)) \in Nat
    BY <1>1, CellsAtLeast, TableCellsAtLeast, PageCellsAtLeast DEF Typed
  <2>3. m[g] = Cardinality(Cells(ta, g)) + Cardinality(TableCells(tb, g))
               + Cardinality(Cells(ne, g)) + Cardinality(PageCells(pt, g))
    BY DEF Good, Exact
  <2>4. m2[g] = m[g] + (IF g = f THEN 1 ELSE 0) /\ m[g] \in Nat
    BY <1>1 DEF Typed, Maps
  <2> QED
    BY <2>1, <2>2, <2>3, <2>4, Numbers
<1>3. Alone(m2, ta, tb, ne2, pt)
  <2>1. \A g \in Frame : m[g] = 1 => m2[g] = 1
    OBVIOUS
  <2>2. /\ \A q \in Proc : ta[q] # NoFrame => ta[q] \in Frame
        /\ \A q \in Proc : ne[q] # NoFrame => ne[q] \in Frame
        /\ \A q \in Proc, e \in Dir : tb[q][e] # NoFrame => tb[q][e] \in Frame
        /\ \A q \in Proc, v \in Page : pt[q][v].frame # NoFrame => pt[q][v].frame \in Frame
    BY <1>1 DEF Typed, Owners, Directories, PageTables, Entry
  <2>3. Alone(m, ta, tb, ne, pt)
    BY DEF Good
  <2> QED
    BY <2>1, <2>2, <2>3 DEF Alone
<1> QED
  BY <1>1, <1>2, <1>3 DEF Good

(* put_page() of the page that was loaded.                                 *)
LEMMA MapNew ==
  ASSUME NEW m, NEW ta, NEW tb, NEW ne, NEW pt, Good(m, ta, tb, ne, pt),
         NEW p \in Proc, NEW v \in Page, NEW f \in Frame, ne[p] = f, pt[p][v].frame = NoFrame,
         NEW ne2 \in Owners, ne2[p] = NoFrame, \A q \in Proc : q # p => ne2[q] = ne[q],
         NEW pt2 \in PageTables, pt2[p][v].frame = f,
         \A q \in Proc, x \in Page : <<q, x>> # <<p, v>> => pt2[q][x] = pt[q][x]
  PROVE  Good(m, ta, tb, ne2, pt2)
<1>1. Typed(m, ta, tb, ne, pt) /\ Typed(m, ta, tb, ne2, pt2)
  BY DEF Good, Typed
<1>2. Exact(m, ta, tb, ne2, pt2)
  <2> SUFFICES ASSUME NEW g \in Frame
               PROVE  m[g] = Cardinality(Cells(ta, g)) + Cardinality(TableCells(tb, g))
                               + Cardinality(Cells(ne2, g)) + Cardinality(PageCells(pt2, g))
    BY DEF Exact
  <2>1. /\ Cardinality(Cells(ne, g)) \in Nat /\ Cardinality(Cells(ne2, g)) \in Nat
        /\ Cardinality(Cells(ne2, g)) = Cardinality(Cells(ne, g))
              - (IF ne[p] = g THEN 1 ELSE 0) + (IF ne2[p] = g THEN 1 ELSE 0)
    BY <1>1, CellChange DEF Typed
  <2>2. /\ Cardinality(PageCells(pt, g)) \in Nat /\ Cardinality(PageCells(pt2, g)) \in Nat
        /\ Cardinality(PageCells(pt2, g)) = Cardinality(PageCells(pt, g))
              - (IF pt[p][v].frame = g THEN 1 ELSE 0) + (IF pt2[p][v].frame = g THEN 1 ELSE 0)
    BY <1>1, PageChange DEF Typed
  <2>3. Cardinality(Cells(ta, g)) \in Nat /\ Cardinality(TableCells(tb, g)) \in Nat
    BY <1>1, CellsAtLeast, TableCellsAtLeast DEF Typed
  <2>4. m[g] = Cardinality(Cells(ta, g)) + Cardinality(TableCells(tb, g))
               + Cardinality(Cells(ne, g)) + Cardinality(PageCells(pt, g))
    BY DEF Good, Exact
  <2> QED
    BY <2>1, <2>2, <2>3, <2>4, Numbers
<1>3. Alone(m, ta, tb, ne2, pt2)
  <2>1. Alone(m, ta, tb, ne, pt)
    BY DEF Good
  <2>2. m[f] = 1
    BY <2>1, Numbers DEF Alone
  <2>3. ASSUME NEW q \in Proc, NEW x \in Page, pt2[q][x].w
        PROVE  pt2[q][x].frame # NoFrame /\ m[pt2[q][x].frame] = 1
    <3>1. CASE <<q, x>> = <<p, v>>
      BY <2>2, <3>1, Numbers
    <3>2. CASE <<q, x>> # <<p, v>>
      BY <2>1, <2>3, <3>2 DEF Alone
    <3> QED
      BY <3>1, <3>2
  <2> QED
    BY <2>1, <2>3 DEF Alone
<1> QED
  BY <1>1, <1>2, <1>3 DEF Good

(* get_free_page() for a page that is mapped at once.                      *)
LEMMA TakePage ==
  ASSUME NEW m, NEW ta, NEW tb, NEW ne, NEW pt, Good(m, ta, tb, ne, pt),
         NEW p \in Proc, NEW v \in Page, NEW f \in Frame, m[f] = 0, pt[p][v].frame = NoFrame,
         NEW m2 \in Maps, \A g \in Frame : m2[g] = IF g = f THEN 1 ELSE m[g],
         NEW pt2 \in PageTables, pt2[p][v].frame = f,
         \A q \in Proc, x \in Page : <<q, x>> # <<p, v>> => pt2[q][x] = pt[q][x]
  PROVE  Good(m2, ta, tb, ne, pt2)
<1>1. Typed(m, ta, tb, ne, pt) /\ Typed(m2, ta, tb, ne, pt2)
  BY DEF Good, Typed
<1>2. Exact(m2, ta, tb, ne, pt2)
  <2> SUFFICES ASSUME NEW g \in Frame
               PROVE  m2[g] = Cardinality(Cells(ta, g)) + Cardinality(TableCells(tb, g))
                               + Cardinality(Cells(ne, g)) + Cardinality(PageCells(pt2, g))
    BY DEF Exact
  <2>1. /\ Cardinality(PageCells(pt, g)) \in Nat /\ Cardinality(PageCells(pt2, g)) \in Nat
        /\ Cardinality(PageCells(pt2, g)) = Cardinality(PageCells(pt, g))
              - (IF pt[p][v].frame = g THEN 1 ELSE 0) + (IF pt2[p][v].frame = g THEN 1 ELSE 0)
    BY <1>1, PageChange DEF Typed
  <2>2. /\ Cardinality(Cells(ta, g)) \in Nat /\ Cardinality(TableCells(tb, g)) \in Nat
        /\ Cardinality(Cells(ne, g)) \in Nat
    BY <1>1, CellsAtLeast, TableCellsAtLeast DEF Typed
  <2>3. m[g] = Cardinality(Cells(ta, g)) + Cardinality(TableCells(tb, g))
               + Cardinality(Cells(ne, g)) + Cardinality(PageCells(pt, g))
    BY DEF Good, Exact
  <2>4. m2[g] = m[g] + (IF g = f THEN 1 ELSE 0) /\ m[g] \in Nat
    BY <1>1 DEF Typed, Maps
  <2> QED
    BY <2>1, <2>2, <2>3, <2>4, Numbers
<1>3. Alone(m2, ta, tb, ne, pt2)
  <2>1. \A g \in Frame : m[g] = 1 => m2[g] = 1
    OBVIOUS
  <2>2. /\ \A q \in Proc : ta[q] # NoFrame => ta[q] \in Frame
        /\ \A q \in Proc : ne[q] # NoFrame => ne[q] \in Frame
        /\ \A q \in Proc, e \in Dir : tb[q][e] # NoFrame => tb[q][e] \in Frame
        /\ \A q \in Proc, x \in Page : pt[q][x].frame # NoFrame => pt[q][x].frame \in Frame
    BY <1>1 DEF Typed, Owners, Directories, PageTables, Entry
  <2>3. Alone(m, ta, tb, ne, pt)
    BY DEF Good
  <2>4. ASSUME NEW q \in Proc, NEW x \in Page, pt2[q][x].w
        PROVE  pt2[q][x].frame # NoFrame /\ m2[pt2[q][x].frame] = 1
    <3>1. CASE <<q, x>> = <<p, v>>
      BY <3>1, Numbers
    <3>2. CASE <<q, x>> # <<p, v>>
      BY <2>1, <2>2, <2>3, <2>4, <3>2 DEF Alone
    <3> QED
      BY <3>1, <3>2
  <2> QED
    BY <2>1, <2>2, <2>3, <2>4 DEF Alone
<1> QED
  BY <1>1, <1>2, <1>3 DEF Good

(* try_to_share(): the page has one more owner, and nobody may write it.   *)
LEMMA SharePage ==
  ASSUME NEW m, NEW ta, NEW tb, NEW ne, NEW pt, Good(m, ta, tb, ne, pt),
         NEW p \in Proc, NEW q \in Proc, NEW v \in Page, p # q,
         NEW f \in Frame, pt[q][v].frame = f, pt[p][v].frame = NoFrame,
         NEW m2 \in Maps, \A g \in Frame : m2[g] = IF g = f THEN m[g] + 1 ELSE m[g],
         NEW pt2 \in PageTables, pt2[p][v].frame = f, ~pt2[p][v].w, pt2[q][v].frame = f, ~pt2[q][v].w,
         \A r \in Proc, x \in Page : <<r, x>> # <<p, v>> /\ <<r, x>> # <<q, v>> => pt2[r][x] = pt[r][x]
  PROVE  Good(m2, ta, tb, ne, pt2)
<1>1. Typed(m, ta, tb, ne, pt) /\ Typed(m2, ta, tb, ne, pt2)
  BY DEF Good, Typed
<1>2. Exact(m2, ta, tb, ne, pt2)
  <2> SUFFICES ASSUME NEW g \in Frame
               PROVE  m2[g] = Cardinality(Cells(ta, g)) + Cardinality(TableCells(tb, g))
                               + Cardinality(Cells(ne, g)) + Cardinality(PageCells(pt2, g))
    BY DEF Exact
  <2>0. \A r \in Proc, x \in Page : <<r, x>> # <<p, v>> => pt2[r][x].frame = pt[r][x].frame
    <3> TAKE r \in Proc, x \in Page
    <3>1. CASE <<r, x>> = <<q, v>>
      BY <3>1
    <3>2. CASE <<r, x>> # <<q, v>>
      BY <3>2
    <3> QED
      BY <3>1, <3>2
  <2>1. /\ Cardinality(PageCells(pt, g)) \in Nat /\ Cardinality(PageCells(pt2, g)) \in Nat
        /\ Cardinality(PageCells(pt2, g)) = Cardinality(PageCells(pt, g))
              - (IF pt[p][v].frame = g THEN 1 ELSE 0) + (IF pt2[p][v].frame = g THEN 1 ELSE 0)
    BY <1>1, <2>0, PageChange DEF Typed
  <2>2. /\ Cardinality(Cells(ta, g)) \in Nat /\ Cardinality(TableCells(tb, g)) \in Nat
        /\ Cardinality(Cells(ne, g)) \in Nat
    BY <1>1, CellsAtLeast, TableCellsAtLeast DEF Typed
  <2>3. m[g] = Cardinality(Cells(ta, g)) + Cardinality(TableCells(tb, g))
               + Cardinality(Cells(ne, g)) + Cardinality(PageCells(pt, g))
    BY DEF Good, Exact
  <2>4. m2[g] = m[g] + (IF g = f THEN 1 ELSE 0) /\ m[g] \in Nat
    BY <1>1 DEF Typed, Maps
  <2> QED
    BY <2>1, <2>2, <2>3, <2>4, Numbers
<1>3. Alone(m2, ta, tb, ne, pt2)
  <2>1. Alone(m, ta, tb, ne, pt)
    BY DEF Good
  <2>2. /\ \A r \in Proc : ta[r] # NoFrame => ta[r] \in Frame
        /\ \A r \in Proc : ne[r] # NoFrame => ne[r] \in Frame
        /\ \A r \in Proc, e \in Dir : tb[r][e] # NoFrame => tb[r][e] \in Frame
        /\ \A r \in Proc, x \in Page : pt[r][x].frame # NoFrame => pt[r][x].frame \in Frame
    BY <1>1 DEF Typed, Owners, Directories, PageTables, Entry
  <2>3. m[f] <= 1 => OnePlace(f, ta, tb, ne, pt)
    BY Referred
  <2>4. /\ \A r \in Proc : ta[r] = f => m[f] # 1
        /\ \A r \in Proc : ne[r] = f => m[f] # 1
        /\ \A r \in Proc, e \in Dir : tb[r][e] = f => m[f] # 1
        /\ \A r \in Proc, x \in Page : pt[r][x].frame = f /\ <<r, x>> # <<q, v>> => m[f] # 1
    BY <2>3 DEF OnePlace
  <2>5. ASSUME NEW r \in Proc, NEW x \in Page, pt2[r][x].w
        PROVE  pt2[r][x].frame # NoFrame /\ m2[pt2[r][x].frame] = 1
    <3>1. <<r, x>> # <<p, v>> /\ <<r, x>> # <<q, v>>
      BY <2>5
    <3>2. pt2[r][x] = pt[r][x]
      BY <3>1
    <3> QED
      BY <2>1, <2>2, <2>4, <2>5, <3>1, <3>2 DEF Alone
  <2> QED
    BY <2>1, <2>2, <2>4, <2>5 DEF Alone
<1> QED
  BY <1>1, <1>2, <1>3 DEF Good

(* un_wp_page() of a page with other owners.                               *)
LEMMA CopyPage ==
  ASSUME NEW m, NEW ta, NEW tb, NEW ne, NEW pt, Good(m, ta, tb, ne, pt),
         NEW p \in Proc, NEW v \in Page, NEW f \in Frame, m[f] = 0,
         NEW old \in Frame, pt[p][v].frame = old, m[old] # 1,
         NEW m2 \in [Frame -> Int],
         \A g \in Frame : m2[g] = IF g = f THEN 1 ELSE IF g = old THEN m[g] - 1 ELSE m[g],
         NEW pt2 \in PageTables, pt2[p][v].frame = f,
         \A q \in Proc, x \in Page : <<q, x>> # <<p, v>> => pt2[q][x] = pt[q][x]
  PROVE  Good(m2, ta, tb, ne, pt2)
<1>1. Typed(m, ta, tb, ne, pt)
  BY DEF Good
<1>0. old # f
  BY Referred DEF Nowhere
<1>2. \A g \in Frame : /\ m2[g] \in Nat
                       /\ m2[g] = Cardinality(Cells(ta, g)) + Cardinality(TableCells(tb, g))
                                  + Cardinality(Cells(ne, g)) + Cardinality(PageCells(pt2, g))
  <2> TAKE g \in Frame
  <2>1. /\ Cardinality(PageCells(pt, g)) \in Nat /\ Cardinality(PageCells(pt2, g)) \in Nat
        /\ Cardinality(PageCells(pt2, g)) = Cardinality(PageCells(pt, g))
              - (IF pt[p][v].frame = g THEN 1 ELSE 0) + (IF pt2[p][v].frame = g THEN 1 ELSE 0)
    BY <1>1, PageChange DEF Typed
  <2>2. /\ Cardinality(Cells(ta, g)) \in Nat /\ Cardinality(TableCells(tb, g)) \in Nat
        /\ Cardinality(Cells(ne, g)) \in Nat
    BY <1>1, CellsAtLeast, TableCellsAtLeast DEF Typed
  <2>3. m[g] = Cardinality(Cells(ta, g)) + Cardinality(TableCells(tb, g))
               + Cardinality(Cells(ne, g)) + Cardinality(PageCells(pt, g))
    BY DEF Good, Exact
  <2>4. m2[g] = m[g] + (IF g = f THEN 1 ELSE 0) - (IF g = old THEN 1 ELSE 0) /\ m[g] \in Nat
    BY <1>0, <1>1 DEF Typed, Maps
  <2> QED
    BY <2>1, <2>2, <2>3, <2>4, <1>0
<1>3. Typed(m2, ta, tb, ne, pt2)
  BY <1>1, <1>2 DEF Typed, Maps
<1>4. Alone(m2, ta, tb, ne, pt2)
  <2>1. \A g \in Frame : m[g] = 1 => m2[g] = 1
    OBVIOUS
  <2>2. /\ \A q \in Proc : ta[q] # NoFrame => ta[q] \in Frame
        /\ \A q \in Proc : ne[q] # NoFrame => ne[q] \in Frame
        /\ \A q \in Proc, e \in Dir : tb[q][e] # NoFrame => tb[q][e] \in Frame
        /\ \A q \in Proc, x \in Page : pt[q][x].frame # NoFrame => pt[q][x].frame \in Frame
    BY <1>1 DEF Typed, Owners, Directories, PageTables, Entry
  <2>3. Alone(m, ta, tb, ne, pt)
    BY DEF Good
  <2>4. ASSUME NEW q \in Proc, NEW x \in Page, pt2[q][x].w
        PROVE  pt2[q][x].frame # NoFrame /\ m2[pt2[q][x].frame] = 1
    <3>1. CASE <<q, x>> = <<p, v>>
      BY <3>1, Numbers
    <3>2. CASE <<q, x>> # <<p, v>>
      BY <2>1, <2>2, <2>3, <2>4, <3>2 DEF Alone
    <3> QED
      BY <3>1, <3>2
  <2> QED
    BY <2>1, <2>2, <2>3, <2>4 DEF Alone
<1> QED
  BY <1>2, <1>3, <1>4 DEF Good, Exact

(* The R/W bit of a page with one owner is set, or bits are cleared.       *)
LEMMA SameFrames ==
  ASSUME NEW m, NEW ta, NEW tb, NEW ne, NEW pt, Good(m, ta, tb, ne, pt),
         NEW pt2 \in PageTables, \A q \in Proc, x \in Page : pt2[q][x].frame = pt[q][x].frame,
         \A q \in Proc, x \in Page :
            pt2[q][x].w => pt2[q][x].frame # NoFrame /\ m[pt2[q][x].frame] = 1
  PROVE  Good(m, ta, tb, ne, pt2)
<1>1. \A g \in Frame : PageCells(pt2, g) = PageCells(pt, g)
  BY DEF PageCells
<1> QED
  BY <1>1 DEF Good, Typed, Exact, Alone

(* free_page() of a page that could not be mapped.                         *)
LEMMA DropNew ==
  ASSUME NEW m, NEW ta, NEW tb, NEW ne, NEW pt, Good(m, ta, tb, ne, pt),
         NEW p \in Proc, NEW f \in Frame, ne[p] = f,
         NEW m2 \in [Frame -> Int], \A g \in Frame : m2[g] = IF g = f THEN m[g] - 1 ELSE m[g],
         NEW ne2 \in Owners, ne2[p] = NoFrame, \A q \in Proc : q # p => ne2[q] = ne[q]
  PROVE  Good(m2, ta, tb, ne2, pt)
<1>1. Typed(m, ta, tb, ne, pt)
  BY DEF Good
<1>2. \A g \in Frame : /\ m2[g] \in Nat
                       /\ m2[g] = Cardinality(Cells(ta, g)) + Cardinality(TableCells(tb, g))
                                  + Cardinality(Cells(ne2, g)) + Cardinality(PageCells(pt, g))
  <2> TAKE g \in Frame
  <2>1. /\ Cardinality(Cells(ne, g)) \in Nat /\ Cardinality(Cells(ne2, g)) \in Nat
        /\ Cardinality(Cells(ne2, g)) = Cardinality(Cells(ne, g))
              - (IF ne[p] = g THEN 1 ELSE 0) + (IF ne2[p] = g THEN 1 ELSE 0)
    BY <1>1, CellChange DEF Typed
  <2>2. /\ Cardinality(Cells(ta, g)) \in Nat /\ Cardinality(TableCells(tb, g)) \in Nat
        /\ Cardinality(PageCells(pt, g)) \in Nat
    BY <1>1, CellsAtLeast, TableCellsAtLeast, PageCellsAtLeast DEF Typed
  <2>3. m[g] = Cardinality(Cells(ta, g)) + Cardinality(TableCells(tb, g))
               + Cardinality(Cells(ne, g)) + Cardinality(PageCells(pt, g))
    BY DEF Good, Exact
  <2>4. m2[g] = m[g] - (IF g = f THEN 1 ELSE 0) /\ m[g] \in Nat
    BY <1>1 DEF Typed, Maps
  <2> QED
    BY <2>1, <2>2, <2>3, <2>4, Numbers
<1>3. Typed(m2, ta, tb, ne2, pt)
  BY <1>1, <1>2 DEF Typed, Maps
<1>4. Alone(m2, ta, tb, ne2, pt)
  <2>1. Alone(m, ta, tb, ne, pt)
    BY DEF Good
  <2>2. m[f] = 1
    BY <2>1, Numbers DEF Alone
  <2>3. OnePlace(f, ta, tb, ne, pt)
    BY <2>2, Referred
  <2>4. /\ \A q \in Proc : ta[q] # f /\ ne2[q] # f
        /\ \A q \in Proc, e \in Dir : tb[q][e] # f
        /\ \A q \in Proc, x \in Page : pt[q][x].frame # f
    BY <2>3, Numbers DEF OnePlace
  <2>5. /\ \A q \in Proc : ta[q] # NoFrame => ta[q] \in Frame
        /\ \A q \in Proc : ne[q] # NoFrame => ne[q] \in Frame
        /\ \A q \in Proc, e \in Dir : tb[q][e] # NoFrame => tb[q][e] \in Frame
        /\ \A q \in Proc, x \in Page : pt[q][x].frame # NoFrame => pt[q][x].frame \in Frame
    BY <1>1 DEF Typed, Owners, Directories, PageTables, Entry
  <2> QED
    BY <2>1, <2>4, <2>5 DEF Alone
<1> QED
  BY <1>2, <1>3, <1>4 DEF Good, Exact

(* Task structures and new pages are counted alike.                        *)
LEMMA Swap ==
  ASSUME NEW m, NEW ta, NEW tb, NEW ne, NEW pt, Good(m, ta, tb, ne, pt)
  PROVE  Good(m, ne, tb, ta, pt)
<1>1. Typed(m, ta, tb, ne, pt)
  BY DEF Good
<1>2. Typed(m, ne, tb, ta, pt)
  BY <1>1 DEF Typed
<1>3. ASSUME NEW f \in Frame
      PROVE  m[f] = Cardinality(Cells(ne, f)) + Cardinality(TableCells(tb, f))
                    + Cardinality(Cells(ta, f)) + Cardinality(PageCells(pt, f))
  <2>1. /\ Cardinality(Cells(ta, f)) \in Nat /\ Cardinality(TableCells(tb, f)) \in Nat
        /\ Cardinality(Cells(ne, f)) \in Nat /\ Cardinality(PageCells(pt, f)) \in Nat
    BY <1>1, CellsAtLeast, TableCellsAtLeast, PageCellsAtLeast DEF Typed
  <2>2. m[f] = Cardinality(Cells(ta, f)) + Cardinality(TableCells(tb, f))
               + Cardinality(Cells(ne, f)) + Cardinality(PageCells(pt, f))
    BY DEF Good, Exact
  <2> QED
    BY <2>1, <2>2
<1>4. Alone(m, ne, tb, ta, pt)
  <2>1. Alone(m, ta, tb, ne, pt)
    BY DEF Good
  <2> QED
    BY <2>1 DEF Alone
<1> QED
  BY <1>2, <1>3, <1>4 DEF Good, Exact

(* release() frees the task structure.                                     *)
LEMMA DropTask ==
  ASSUME NEW m, NEW ta, NEW tb, NEW ne, NEW pt, Good(m, ta, tb, ne, pt),
         NEW p \in Proc, NEW f \in Frame, ta[p] = f,
         NEW m2 \in [Frame -> Int], \A g \in Frame : m2[g] = IF g = f THEN m[g] - 1 ELSE m[g],
         NEW ta2 \in Owners, ta2[p] = NoFrame, \A q \in Proc : q # p => ta2[q] = ta[q]
  PROVE  Good(m2, ta2, tb, ne, pt)
<1>1. Good(m, ne, tb, ta, pt)
  BY Swap
<1>2. Good(m2, ne, tb, ta2, pt)
  BY <1>1, DropNew
<1> QED
  BY <1>2, Swap

(* free_page_tables() of all that a process has.                           *)
Unmapped(p, m, tb, pt, m2, tb2, pt2) ==
    /\ m2 \in [Frame -> Int]
    /\ \A g \in Frame : m2[g] = m[g] - Cardinality({v \in Page : pt[p][v].frame = g})
                                      - Cardinality({d \in Dir : tb[p][d] = g})
    /\ tb2 \in Directories /\ \A d \in Dir : tb2[p][d] = NoFrame
    /\ \A q \in Proc : q # p => tb2[q] = tb[q]
    /\ pt2 \in PageTables /\ \A v \in Page : pt2[p][v].frame = NoFrame /\ ~pt2[p][v].w
    /\ \A q \in Proc : q # p => pt2[q] = pt[q]

LEMMA DropSpace ==
  ASSUME NEW m, NEW ta, NEW tb, NEW ne, NEW pt, Good(m, ta, tb, ne, pt), NEW p \in Proc,
         NEW m2, NEW tb2, NEW pt2, Unmapped(p, m, tb, pt, m2, tb2, pt2)
  PROVE  Good(m2, ta, tb2, ne, pt2)
<1> USE DEF Unmapped
<1>1. Typed(m, ta, tb, ne, pt)
  BY DEF Good
<1>2. \A g \in Frame : /\ m2[g] \in Nat
                       /\ m2[g] = Cardinality(Cells(ta, g)) + Cardinality(TableCells(tb2, g))
                                  + Cardinality(Cells(ne, g)) + Cardinality(PageCells(pt2, g))
  <2> TAKE g \in Frame
  <2> DEFINE row == Cardinality({v \in Page : pt[p][v].frame = g})
             dirs == Cardinality({d \in Dir : tb[p][d] = g})
  <2>1. /\ Cardinality(PageCells(pt, g)) \in Nat /\ Cardinality(PageCells(pt2, g)) \in Nat /\ row \in Nat
        /\ Cardinality(PageCells(pt2, g)) = Cardinality(PageCells(pt, g)) - row
    <3>1. {v \in Page : pt2[p][v].frame = g} = {}
      BY Numbers
    <3>2. Cardinality({v \in Page : pt2[p][v].frame = g}) = 0
      BY <3>1, FS_EmptySet
    <3>3. /\ Cardinality(PageCells(pt, g)) \in Nat /\ Cardinality(PageCells(pt2, g)) \in Nat /\ row \in Nat
          /\ Cardinality(PageCells(pt2, g)) = Cardinality(PageCells(pt, g)) - row
                + Cardinality({v \in Page : pt2[p][v].frame = g})
      <4>1. pt \in PageTables /\ \A q \in Proc, v \in Page : q # p => pt2[q][v].frame = pt[q][v].frame
        BY <1>1 DEF Typed
      <4>2. \A h \in Frame :
               /\ Cardinality(PageCells(pt, h)) \in Nat /\ Cardinality(PageCells(pt2, h)) \in Nat
               /\ Cardinality({v \in Page : pt[p][v].frame = h}) \in Nat
               /\ Cardinality({v \in Page : pt2[p][v].frame = h}) \in Nat
               /\ Cardinality(PageCells(pt2, h)) = Cardinality(PageCells(pt, h))
                     - Cardinality({v \in Page : pt[p][v].frame = h})
                     + Cardinality({v \in Page : pt2[p][v].frame = h})
        BY <4>1, PageRowChange
      <4> QED
        BY <4>2
    <3> HIDE DEF row
    <3> QED
      BY <3>2, <3>3
  <2>2. /\ Cardinality(TableCells(tb, g)) \in Nat /\ Cardinality(TableCells(tb2, g)) \in Nat /\ dirs \in Nat
        /\ Cardinality(TableCells(tb2, g)) = Cardinality(TableCells(tb, g)) - dirs
    <3>1. {d \in Dir : tb2[p][d] = g} = {}
      BY Numbers
    <3>2. Cardinality({d \in Dir : tb2[p][d] = g}) = 0
      BY <3>1, FS_EmptySet
    <3>3. /\ Cardinality(TableCells(tb, g)) \in Nat /\ Cardinality(TableCells(tb2, g)) \in Nat /\ dirs \in Nat
          /\ Cardinality(TableCells(tb2, g)) = Cardinality(TableCells(tb, g)) - dirs
                + Cardinality({d \in Dir : tb2[p][d] = g})
      <4>1. tb \in Directories /\ \A q \in Proc : q # p => tb2[q] = tb[q]
        BY <1>1 DEF Typed
      <4>2. \A h \in Frame :
               /\ Cardinality(TableCells(tb, h)) \in Nat /\ Cardinality(TableCells(tb2, h)) \in Nat
               /\ Cardinality({d \in Dir : tb[p][d] = h}) \in Nat
               /\ Cardinality({d \in Dir : tb2[p][d] = h}) \in Nat
               /\ Cardinality(TableCells(tb2, h)) = Cardinality(TableCells(tb, h))
                     - Cardinality({d \in Dir : tb[p][d] = h})
                     + Cardinality({d \in Dir : tb2[p][d] = h})
        BY <4>1, TableRowChange
      <4> QED
        BY <4>2
    <3> HIDE DEF dirs
    <3> QED
      BY <3>2, <3>3
  <2>3. Cardinality(Cells(ta, g)) \in Nat /\ Cardinality(Cells(ne, g)) \in Nat
    BY <1>1, CellsAtLeast DEF Typed
  <2>4. m[g] = Cardinality(Cells(ta, g)) + Cardinality(TableCells(tb, g))
               + Cardinality(Cells(ne, g)) + Cardinality(PageCells(pt, g))
    BY DEF Good, Exact
  <2>5. m2[g] = m[g] - row - dirs
    OBVIOUS
  <2> HIDE DEF row, dirs
  <2> QED
    BY <2>1, <2>2, <2>3, <2>4, <2>5
<1>3. Typed(m2, ta, tb2, ne, pt2)
  BY <1>1, <1>2 DEF Typed, Maps
<1>4. Alone(m2, ta, tb2, ne, pt2)
  <2>1. Alone(m, ta, tb, ne, pt)
    BY DEF Good
  <2>2. ASSUME NEW g \in Frame, m[g] = 1, \A v \in Page : pt[p][v].frame # g, \A d \in Dir : tb[p][d] # g
        PROVE  m2[g] = 1
    <3>1. {v \in Page : pt[p][v].frame = g} = {} /\ {d \in Dir : tb[p][d] = g} = {}
      BY <2>2
    <3>2. /\ Cardinality({v \in Page : pt[p][v].frame = g}) = 0
          /\ Cardinality({d \in Dir : tb[p][d] = g}) = 0
      BY <3>1, FS_EmptySet
    <3> QED
      BY <2>2, <3>2
  <2>3. \A g \in Frame : m[g] = 1 => OnePlace(g, ta, tb, ne, pt)
    BY Referred
  <2>4. /\ \A q \in Proc : ta[q] # NoFrame => ta[q] \in Frame
        /\ \A q \in Proc : ne[q] # NoFrame => ne[q] \in Frame
        /\ \A q \in Proc, e \in Dir : tb[q][e] # NoFrame => tb[q][e] \in Frame
        /\ \A q \in Proc, x \in Page : pt[q][x].frame # NoFrame => pt[q][x].frame \in Frame
    BY <1>1 DEF Typed, Owners, Directories, PageTables, Entry
  <2>5. ASSUME NEW q \in Proc, ta[q] # NoFrame
        PROVE  m2[ta[q]] = 1
    <3>1. ta[q] \in Frame /\ m[ta[q]] = 1
      BY <2>1, <2>4, <2>5 DEF Alone
    <3> QED
      BY <2>2, <2>3, <3>1 DEF OnePlace
  <2>6. ASSUME NEW q \in Proc, ne[q] # NoFrame
        PROVE  m2[ne[q]] = 1
    <3>1. ne[q] \in Frame /\ m[ne[q]] = 1
      BY <2>1, <2>4, <2>6 DEF Alone
    <3> QED
      BY <2>2, <2>3, <3>1 DEF OnePlace
  <2>7. ASSUME NEW q \in Proc, NEW e \in Dir, tb2[q][e] # NoFrame
        PROVE  m2[tb2[q][e]] = 1
    <3>1. q # p /\ tb2[q][e] = tb[q][e]
      BY <2>7
    <3>2. tb[q][e] \in Frame /\ m[tb[q][e]] = 1
      BY <2>1, <2>4, <2>7, <3>1 DEF Alone
    <3> QED
      BY <2>2, <2>3, <3>1, <3>2 DEF OnePlace
  <2>8. ASSUME NEW q \in Proc, NEW x \in Page, pt2[q][x].w
        PROVE  pt2[q][x].frame # NoFrame /\ m2[pt2[q][x].frame] = 1
    <3>1. q # p /\ pt2[q][x] = pt[q][x]
      BY <2>8
    <3>2. pt[q][x].frame # NoFrame /\ pt[q][x].frame \in Frame /\ m[pt[q][x].frame] = 1
      BY <2>1, <2>4, <2>8, <3>1 DEF Alone
    <3> QED
      BY <2>2, <2>3, <3>1, <3>2 DEF OnePlace
  <2> QED
    BY <2>5, <2>6, <2>7, <2>8 DEF Alone
<1> QED
  BY <1>2, <1>3, <1>4 DEF Good, Exact

(* copy_page_tables(): the empty row of q becomes that of p.               *)
RowCopied(t, u, p, q) ==
    /\ \A v \in Page : t[q][v].frame = NoFrame /\ u[q][v].frame = t[p][v].frame
    /\ \A r \in Proc, v \in Page : r # q => u[r][v].frame = t[r][v].frame

LEMMA PageRowCopied ==
  ASSUME NEW t \in PageTables, NEW u \in PageTables, NEW p \in Proc, NEW q \in Proc,
         RowCopied(t, u, p, q)
  PROVE  \A f \in Frame :
            /\ Cardinality(PageCells(t, f)) \in Nat /\ Cardinality(PageCells(u, f)) \in Nat
            /\ Cardinality({v \in Page : t[p][v].frame = f}) \in Nat
            /\ Cardinality(PageCells(u, f)) =
                  Cardinality(PageCells(t, f)) + Cardinality({v \in Page : t[p][v].frame = f})
<1> TAKE f \in Frame
<1>1. \A h \in Frame :
         /\ Cardinality(PageCells(t, h)) \in Nat /\ Cardinality(PageCells(u, h)) \in Nat
         /\ Cardinality({v \in Page : t[q][v].frame = h}) \in Nat
         /\ Cardinality({v \in Page : u[q][v].frame = h}) \in Nat
         /\ Cardinality(PageCells(u, h)) = Cardinality(PageCells(t, h))
               - Cardinality({v \in Page : t[q][v].frame = h})
               + Cardinality({v \in Page : u[q][v].frame = h})
  BY PageRowChange DEF RowCopied
<1>2. {v \in Page : t[q][v].frame = f} = {}
  BY Numbers DEF RowCopied
<1>3. {v \in Page : u[q][v].frame = f} = {v \in Page : t[p][v].frame = f}
  BY DEF RowCopied
<1>4. Cardinality({v \in Page : t[q][v].frame = f}) = 0
  BY <1>2, FS_EmptySet
<1>5. Cardinality({v \in Page : u[q][v].frame = f}) = Cardinality({v \in Page : t[p][v].frame = f})
  BY <1>3
<1> QED
  BY <1>1, <1>4, <1>5

(* copy_process(): q has a task structure, tables of its own and the pages *)
(* of p, which neither may write.                                          *)
Forked(p, q, f, t, m, ta, tb, pt, m2, ta2, tb2, pt2) ==
    /\ ta[q] = NoFrame /\ (\A d \in Dir : tb[q][d] = NoFrame) /\ (\A v \in Page : pt[q][v].frame = NoFrame)
    /\ f \in Frame /\ m[f] = 0
    /\ t \in [Dir -> Frame \cup {NoFrame}]
    /\ \A d \in Dir : t[d] # NoFrame => m[t[d]] = 0 /\ t[d] # f
    /\ \A d, e \in Dir : t[d] = t[e] /\ t[d] # NoFrame => d = e
    /\ m2 \in [Frame -> Int]
    /\ \A g \in Frame : m2[g] = IF g = f \/ \E d \in Dir : t[d] = g THEN 1
                                ELSE m[g] + Cardinality({v \in Page : pt[p][v].frame = g})
    /\ ta2 \in Owners /\ ta2[q] = f /\ \A r \in Proc : r # q => ta2[r] = ta[r]
    /\ tb2 \in Directories /\ tb2[q] = t /\ \A r \in Proc : r # q => tb2[r] = tb[r]
    /\ pt2 \in PageTables
    /\ \A v \in Page : pt2[p][v].frame = pt[p][v].frame /\ ~pt2[p][v].w
    /\ \A v \in Page : pt2[q][v].frame = pt[p][v].frame /\ ~pt2[q][v].w
    /\ \A r \in Proc : r # p /\ r # q => pt2[r] = pt[r]

LEMMA CopySpace ==
  ASSUME NEW m, NEW ta, NEW tb, NEW ne, NEW pt, Good(m, ta, tb, ne, pt),
         NEW p \in Proc, NEW q \in Proc, p # q,
         NEW f, NEW t, NEW m2, NEW ta2, NEW tb2, NEW pt2, Forked(p, q, f, t, m, ta, tb, pt, m2, ta2, tb2, pt2)
  PROVE  Good(m2, ta2, tb2, ne, pt2)
<1> USE DEF Forked
<1>1. Typed(m, ta, tb, ne, pt)
  BY DEF Good
<1>2. \A g \in Frame : m[g] = 0 => Nowhere(g, ta, tb, ne, pt)
  BY Referred
<1>3. \A g \in Frame : g = f \/ (\E d \in Dir : t[d] = g) => m[g] = 0
  BY Numbers
<1>4. ASSUME NEW g \in Frame
      PROVE  /\ m2[g] \in Nat
             /\ m2[g] = Cardinality(Cells(ta2, g)) + Cardinality(TableCells(tb2, g))
                        + Cardinality(Cells(ne, g)) + Cardinality(PageCells(pt2, g))
  <2> DEFINE row == Cardinality({v \in Page : pt[p][v].frame = g})
             dirs == Cardinality({d \in Dir : t[d] = g})
  <2>1. /\ Cardinality(PageCells(pt, g)) \in Nat /\ Cardinality(PageCells(pt2, g)) \in Nat /\ row \in Nat
        /\ Cardinality(PageCells(pt2, g)) = Cardinality(PageCells(pt, g)) + row
    <3>1. pt \in PageTables
      BY <1>1 DEF Typed
    <3>2. \A r \in Proc, v \in Page : r # q => pt2[r][v].frame = pt[r][v].frame
      <4> TAKE r \in Proc, v \in Page
      <4>1. CASE r = p
        BY <4>1
      <4>2. CASE r # p
        BY <4>2
      <4> QED
        BY <4>1, <4>2
    <3>3. RowCopied(pt, pt2, p, q)
      BY <3>2 DEF RowCopied
    <3> QED
      BY <3>1, <3>3, PageRowCopied
  <2>2. /\ Cardinality(TableCells(tb, g)) \in Nat /\ Cardinality(TableCells(tb2, g)) \in Nat /\ dirs \in Nat
        /\ Cardinality(TableCells(tb2, g)) = Cardinality(TableCells(tb, g)) + dirs
    <3>1. {d \in Dir : tb[q][d] = g} = {}
      BY Numbers
    <3>2. Cardinality({d \in Dir : tb[q][d] = g}) = 0
      BY <3>1, FS_EmptySet
    <3>3. {d \in Dir : tb2[q][d] = g} = {d \in Dir : t[d] = g}
      OBVIOUS
    <3>4. /\ Cardinality(TableCells(tb, g)) \in Nat /\ Cardinality(TableCells(tb2, g)) \in Nat
          /\ Cardinality({d \in Dir : tb[q][d] = g}) \in Nat
          /\ Cardinality({d \in Dir : tb2[q][d] = g}) \in Nat
          /\ Cardinality(TableCells(tb2, g)) = Cardinality(TableCells(tb, g))
                - Cardinality({d \in Dir : tb[q][d] = g})
                + Cardinality({d \in Dir : tb2[q][d] = g})
      <4>1. tb \in Directories /\ tb2 \in Directories
        BY <1>1 DEF Typed
      <4>2. \A r \in Proc : r # q => tb2[r] = tb[r]
        OBVIOUS
      <4> HIDE DEF Forked
      <4>3. \A h \in Frame :
            /\ Cardinality(TableCells(tb, h)) \in Nat /\ Cardinality(TableCells(tb2, h)) \in Nat
            /\ Cardinality({d \in Dir : tb[q][d] = h}) \in Nat
            /\ Cardinality({d \in Dir : tb2[q][d] = h}) \in Nat
            /\ Cardinality(TableCells(tb2, h)) = Cardinality(TableCells(tb, h))
                  - Cardinality({d \in Dir : tb[q][d] = h}) + Cardinality({d \in Dir : tb2[q][d] = h})
        BY <4>1, <4>2, TableRowChange
      <4> QED
        BY <4>3
    <3>5. dirs = Cardinality({d \in Dir : tb2[q][d] = g})
      BY <3>3
    <3> HIDE DEF dirs
    <3> QED
      BY <3>2, <3>4, <3>5
  <2>3. /\ Cardinality(Cells(ta, g)) \in Nat /\ Cardinality(Cells(ta2, g)) \in Nat
        /\ Cardinality(Cells(ta2, g)) = Cardinality(Cells(ta, g)) + (IF f = g THEN 1 ELSE 0)
    <3>1. /\ Cardinality(Cells(ta, g)) \in Nat /\ Cardinality(Cells(ta2, g)) \in Nat
          /\ Cardinality(Cells(ta2, g)) = Cardinality(Cells(ta, g))
              - (IF ta[q] = g THEN 1 ELSE 0) + (IF ta2[q] = g THEN 1 ELSE 0)
      BY <1>1, CellChange DEF Typed
    <3> QED
      BY <3>1, Numbers
  <2>4. Cardinality(Cells(ne, g)) \in Nat
    BY <1>1, CellsAtLeast DEF Typed
  <2>5. /\ m[g] = Cardinality(Cells(ta, g)) + Cardinality(TableCells(tb, g))
                 + Cardinality(Cells(ne, g)) + Cardinality(PageCells(pt, g))
        /\ m[g] \in Nat
    BY <1>1 DEF Good, Exact, Typed, Maps
  <2>6. m2[g] = m[g] + row + dirs + (IF f = g THEN 1 ELSE 0)
    <3>1. CASE g = f
      <4>1. {v \in Page : pt[p][v].frame = g} = {} /\ {d \in Dir : t[d] = g} = {}
        BY <1>2, <1>3, <3>1, Numbers DEF Nowhere
      <4>2. row = 0 /\ dirs = 0
        BY <4>1, FS_EmptySet
      <4>3. m2[g] = 1 /\ m[g] = 0
        BY <3>1
      <4> HIDE DEF row, dirs
      <4> QED
        BY <3>1, <4>2, <4>3
    <3>2. CASE g # f /\ \E d \in Dir : t[d] = g
      <4>1. PICK d \in Dir : t[d] = g
        BY <3>2
      <4>2. {v \in Page : pt[p][v].frame = g} = {}
        BY <1>2, <1>3, <3>2 DEF Nowhere
      <4>3. {e \in Dir : t[e] = g} = {d}
        BY <4>1, Numbers
      <4>4. row = 0 /\ dirs = 1
        <5>1. Cardinality({d}) = 1
          BY FS_Singleton
        <5>2. row = 0
          BY <4>2, FS_EmptySet
        <5> QED
          BY <4>3, <5>1, <5>2
      <4>5. m2[g] = 1 /\ m[g] = 0
        BY <1>3, <3>2
      <4> HIDE DEF row, dirs
      <4> QED
        BY <3>2, <4>4, <4>5
    <3>3. CASE g # f /\ ~(\E d \in Dir : t[d] = g)
      <4>1. {d \in Dir : t[d] = g} = {}
        BY <3>3
      <4>2. dirs = 0
        BY <4>1, FS_EmptySet
      <4>3. m2[g] = m[g] + row
        BY <3>3
      <4> HIDE DEF row, dirs
      <4> QED
        BY <2>1, <2>5, <3>3, <4>2, <4>3
    <3> QED
      BY <3>1, <3>2, <3>3
  <2> HIDE DEF row, dirs
  <2> QED
    BY <2>1, <2>2, <2>3, <2>4, <2>5, <2>6
<1>5. Typed(m2, ta2, tb2, ne, pt2)
  BY <1>1, <1>4 DEF Typed, Maps
<1>6. Alone(m2, ta2, tb2, ne, pt2)
  <2>1. Alone(m, ta, tb, ne, pt)
    BY DEF Good
  <2>2. ASSUME NEW g \in Frame, m[g] = 1, \A v \in Page : pt[p][v].frame # g
        PROVE  m2[g] = 1
    <3>1. {v \in Page : pt[p][v].frame = g} = {}
      BY <2>2
    <3>2. Cardinality({v \in Page : pt[p][v].frame = g}) = 0
      BY <3>1, FS_EmptySet
    <3> QED
      BY <2>2, <3>2
  <2>3. \A g \in Frame : m[g] = 1 => OnePlace(g, ta, tb, ne, pt)
    BY Referred
  <2>4. /\ \A r \in Proc : ta[r] # NoFrame => ta[r] \in Frame
        /\ \A r \in Proc : ne[r] # NoFrame => ne[r] \in Frame
        /\ \A r \in Proc, e \in Dir : tb[r][e] # NoFrame => tb[r][e] \in Frame
        /\ \A r \in Proc, x \in Page : pt[r][x].frame # NoFrame => pt[r][x].frame \in Frame
    BY <1>1 DEF Typed, Owners, Directories, PageTables, Entry
  <2>5. ASSUME NEW r \in Proc, ta2[r] # NoFrame
        PROVE  m2[ta2[r]] = 1
    <3>1. CASE r = q
      BY <3>1
    <3>2. CASE r # q
      <4>1. ta2[r] = ta[r] /\ ta[r] \in Frame /\ m[ta[r]] = 1
        BY <2>1, <2>4, <2>5, <3>2 DEF Alone
      <4> QED
        BY <2>2, <2>3, <4>1 DEF OnePlace
    <3> QED
      BY <3>1, <3>2
  <2>6. ASSUME NEW r \in Proc, ne[r] # NoFrame
        PROVE  m2[ne[r]] = 1
    <3>1. ne[r] \in Frame /\ m[ne[r]] = 1
      BY <2>1, <2>4, <2>6 DEF Alone
    <3> QED
      BY <2>2, <2>3, <3>1 DEF OnePlace
  <2>7. ASSUME NEW r \in Proc, NEW e \in Dir, tb2[r][e] # NoFrame
        PROVE  m2[tb2[r][e]] = 1
    <3>1. CASE r = q
      <4>1. tb2[r][e] = t[e] /\ t[e] \in Frame
        BY <2>7, <3>1
      <4>2. \E d \in Dir : t[d] = t[e]
        OBVIOUS
      <4>3. m2[t[e]] = 1
        BY <4>1, <4>2
      <4> QED
        BY <4>1, <4>3
    <3>2. CASE r # q
      <4>1. tb2[r][e] = tb[r][e] /\ tb[r][e] \in Frame /\ m[tb[r][e]] = 1
        BY <2>1, <2>4, <2>7, <3>2 DEF Alone
      <4> QED
        BY <2>2, <2>3, <4>1 DEF OnePlace
    <3> QED
      BY <3>1, <3>2
  <2>8. ASSUME NEW r \in Proc, NEW x \in Page, pt2[r][x].w
        PROVE  pt2[r][x].frame # NoFrame /\ m2[pt2[r][x].frame] = 1
    <3>1. r # p /\ r # q /\ pt2[r] = pt[r]
      BY <2>8
    <3>2. pt[r][x].frame # NoFrame /\ pt[r][x].frame \in Frame /\ m[pt[r][x].frame] = 1
      BY <2>1, <2>4, <2>8, <3>1 DEF Alone
    <3> QED
      BY <2>2, <2>3, <3>1, <3>2 DEF OnePlace
  <2> QED
    BY <2>5, <2>6, <2>7, <2>8 DEF Alone
<1> QED
  BY <1>4, <1>5, <1>6 DEF Good, Exact

-----------------------------------------------------------------------------
(* get_free_page() *)

(* The elements of a finite set of numbers have ranks 0, 1, ... from above.*)
LEMMA Ranks ==
  ASSUME NEW S, S \subseteq Int, IsFiniteSet(S)
  PROVE  /\ Cardinality(S) \in Nat
         /\ \A n \in 0 .. Cardinality(S) - 1 : \E x \in S : Cardinality({y \in S : y > x}) = n
         /\ \A x, y \in S : Cardinality({z \in S : z > x}) = Cardinality({z \in S : z > y}) => x = y
<1> DEFINE Above(x) == {y \in S : y > x}
           N == Cardinality(S)
           rank == [x \in S |-> Cardinality(Above(x))]
<1>1. N \in Nat
  BY FS_CardinalityType
<1>2. ASSUME NEW x \in S
      PROVE  IsFiniteSet(Above(x)) /\ Cardinality(Above(x)) \in 0 .. N - 1
  <2>1. Above(x) \subseteq S \ {x}
    OBVIOUS
  <2>2. IsFiniteSet(S \ {x}) /\ Cardinality(S \ {x}) = N - 1
    BY FS_RemoveElement
  <2>3. IsFiniteSet(Above(x)) /\ Cardinality(Above(x)) <= Cardinality(S \ {x})
    BY <2>1, <2>2, FS_Subset
  <2>4. Cardinality(Above(x)) \in Nat
    BY <2>3, FS_CardinalityType
  <2> HIDE DEF Above, N
  <2> QED
    BY <1>1, <2>2, <2>3, <2>4
<1>3. ASSUME NEW x \in S, NEW y \in S, x < y
      PROVE  Cardinality(Above(y)) < Cardinality(Above(x))
  <2>1. Above(y) \subseteq Above(x) /\ Above(y) # Above(x)
    <3>1. y \in Above(x) /\ y \notin Above(y)
      BY <1>3
    <3>2. \A z \in S : z > y => z > x
      <4> TAKE z \in S
      <4>1. x \in Int /\ y \in Int /\ z \in Int
        OBVIOUS
      <4> QED
        BY <1>3, <4>1
    <3> QED
      BY <3>1, <3>2
  <2>2. IsFiniteSet(Above(x)) /\ Cardinality(Above(x)) \in Nat /\ Cardinality(Above(y)) \in Nat
    BY <1>1, <1>2
  <2>3. /\ Cardinality(Above(y)) <= Cardinality(Above(x))
        /\ Cardinality(Above(x)) = Cardinality(Above(y)) => Above(x) = Above(y)
    BY <2>1, <2>2, FS_Subset
  <2> HIDE DEF Above
  <2> QED
    BY <2>1, <2>2, <2>3
<1>4. ASSUME NEW x \in S, NEW y \in S, Cardinality(Above(x)) = Cardinality(Above(y))
      PROVE  x = y
  <2>1. Cardinality(Above(x)) \in Nat /\ Cardinality(Above(y)) \in Nat
    BY <1>1, <1>2
  <2>2. x \in Int /\ y \in Int
    OBVIOUS
  <2>3. ~(x < y) /\ ~(y < x)
    BY <1>3, <1>4, <2>1
  <2> QED
    BY <2>2, <2>3
<1>5. rank \in Surjection(S, 0 .. N - 1)
  <2>1. rank \in Injection(S, 0 .. N - 1)
    <3> HIDE DEF Above, N
    <3>1. rank \in [S -> 0 .. N - 1]
      BY <1>2
    <3>2. \A x, y \in S : rank[x] = rank[y] => x = y
      BY <1>4
    <3> QED
      BY <3>1, <3>2 DEF Injection, IsInjective
  <2>2. IsFiniteSet(0 .. N - 1) /\ Cardinality(0 .. N - 1) = N
    <3>1. 0 \in Int /\ N - 1 \in Int
      BY <1>1
    <3>2. IsFiniteSet(0 .. N - 1) /\ Cardinality(0 .. N - 1) = IF 0 > N - 1 THEN 0 ELSE N - 1 - 0 + 1
      BY <3>1, FS_Interval
    <3> HIDE DEF N
    <3> QED
      BY <1>1, <3>2
  <2> HIDE DEF rank
  <2> QED
    BY <2>1, <2>2, FS_Injection
<1>6. \A n \in 0 .. N - 1 : \E x \in S : Cardinality(Above(x)) = n
  <2> HIDE DEF Above, N
  <2>1. \A n \in 0 .. N - 1 : \E x \in S : rank[x] = n
    BY <1>5 DEF Surjection
  <2> QED
    BY <2>1
<1> QED
  BY <1>1, <1>4, <1>6

LEMMA FreeFound ==
  ASSUME NEW m, NEW n \in Nat, Free(m, n) # NoFrame
  PROVE  /\ Free(m, n) \in Frame /\ m[Free(m, n)] = 0
         /\ Cardinality({g \in FreeFrames(m) : g > Free(m, n)}) = n
<1> DEFINE S == FreeFrames(m)
           Has(f) == Cardinality({g \in S : g > f}) = n
<1>1. S \subseteq Int /\ IsFiniteSet(S)
  BY Finite, FS_Subset, MemoryAssumption DEF FreeFrames, Frame
<1>2. ~(Cardinality(S) <= n) /\ Free(m, n) = CHOOSE f \in S : Has(f)
  BY DEF Free
<1>3. Cardinality(S) \in Nat /\ \A k \in 0 .. Cardinality(S) - 1 : \E x \in S : Cardinality({y \in S : y > x}) = k
  BY <1>1, Ranks
<1>4. n \in 0 .. Cardinality(S) - 1
  <2> HIDE DEF S
  <2> QED
    BY <1>2, <1>3
<1>5. \E f \in S : Has(f)
  BY <1>3, <1>4
<1>6. Free(m, n) \in S /\ Has(Free(m, n))
  <2> HIDE DEF S, Has
  <2> QED
    BY <1>2, <1>5
<1> QED
  BY <1>6 DEF FreeFrames

LEMMA FreeThere ==
  ASSUME NEW m, NEW n \in Nat, Cardinality(FreeFrames(m)) > n
  PROVE  Free(m, n) # NoFrame
<1> DEFINE S == FreeFrames(m)
           Has(f) == Cardinality({g \in S : g > f}) = n
<1>1. S \subseteq Int /\ IsFiniteSet(S)
  BY Finite, FS_Subset, MemoryAssumption DEF FreeFrames, Frame
<1>3. Cardinality(S) \in Nat /\ \A k \in 0 .. Cardinality(S) - 1 : \E x \in S : Cardinality({y \in S : y > x}) = k
  BY <1>1, Ranks
<1>2. ~(Cardinality(S) <= n)
  <2> HIDE DEF S
  <2>1. Cardinality(S) > n
    BY DEF S
  <2> QED
    BY <1>3, <2>1
<1>6. Free(m, n) = CHOOSE f \in S : Has(f)
  BY <1>2 DEF Free
<1>4. n \in 0 .. Cardinality(S) - 1
  <2> HIDE DEF S
  <2> QED
    BY <1>2, <1>3
<1>5. \E f \in S : Has(f)
  BY <1>3, <1>4
<1>7. Free(m, n) \in S
  <2> HIDE DEF S, Has
  <2> QED
    BY <1>5, <1>6
<1> QED
  BY <1>7, Numbers DEF FreeFrames

LEMMA GetFreePage ==
  ASSUME NEW m, get_free_page(m) # NoFrame
  PROVE  get_free_page(m) \in Frame /\ m[get_free_page(m)] = 0
BY FreeFound DEF get_free_page

(* The last task with a clean page.                                        *)
LEMMA LastTask ==
  ASSUME NEW S, S \subseteq Proc, S # {}
  PROVE  (CHOOSE q \in S : \A r \in S : r <= q) \in S
<1>1. S \subseteq Int /\ IsFiniteSet(S)
  <2>1. Proc \subseteq Int
    BY MemoryAssumption DEF Proc
  <2>2. IsFiniteSet(S)
    BY Finite, FS_Subset
  <2> QED
    BY <2>1, <2>2
<1>2. Cardinality(S) \in Nat /\ Cardinality(S) # 0
  BY <1>1, FS_EmptySet, FS_CardinalityType
<1>3. 0 \in 0 .. Cardinality(S) - 1
  BY <1>2
<1>4. PICK q \in S : Cardinality({y \in S : y > q}) = 0
  BY <1>1, <1>3, Ranks
<1>5. {y \in S : y > q} = {}
  <2>1. IsFiniteSet({y \in S : y > q})
    BY <1>1, FS_Subset
  <2> QED
    BY <1>4, <2>1, FS_EmptySet
<1>6. \A r \in S : r <= q
  <2> TAKE r \in S
  <2>1. r \in Int /\ q \in Int /\ ~(r > q)
    BY <1>1, <1>5
  <2> QED
    BY <2>1
<1> QED
  BY <1>6

(* The page tables of a child are free, and different from each other and  *)
(* from its task structure.                                                *)
LEMMA ForkTables ==
  ASSUME Typed(mem_map, task, table, new, pte), NEW p \in Proc,
         Cardinality(FreeFrames(mem_map)) > Cardinality(Tables(p)),
         NEW f, f = get_free_page(mem_map),
         NEW t, t = [d \in Dir |-> IF d \notin Tables(p) THEN NoFrame
                                   ELSE Free(mem_map, 1 + Cardinality(TablesBelow(p, d)))]
  PROVE  /\ f \in Frame /\ mem_map[f] = 0
         /\ t \in [Dir -> Frame \cup {NoFrame}]
         /\ \A d \in Dir : t[d] # NoFrame => mem_map[t[d]] = 0 /\ t[d] # f
         /\ \A d, e \in Dir : t[d] = t[e] /\ t[d] # NoFrame => d = e
<1> DEFINE S == FreeFrames(mem_map)
           T == Tables(p)
           B(d) == TablesBelow(p, d)
<1>1. S \subseteq Int /\ IsFiniteSet(S) /\ Cardinality(S) \in Nat
  BY Finite, FS_Subset, FS_CardinalityType, MemoryAssumption DEF FreeFrames, Frame
<1>2. T \subseteq Nat /\ T \subseteq Dir /\ IsFiniteSet(T) /\ Cardinality(T) \in Nat
  BY Finite, FS_Subset, FS_CardinalityType, MemoryAssumption DEF Tables, Dir
<1>3. ASSUME NEW d \in T
      PROVE  IsFiniteSet(B(d)) /\ Cardinality(B(d)) \in Nat /\ Cardinality(B(d)) < Cardinality(T)
  <2>1. B(d) \subseteq T /\ B(d) # T
    <3>1. d \notin B(d)
      BY <1>2 DEF TablesBelow
    <3>2. B(d) \subseteq T
      BY DEF TablesBelow
    <3> QED
      BY <3>1, <3>2
  <2>2. IsFiniteSet(B(d)) /\ Cardinality(B(d)) <= Cardinality(T)
        /\ (Cardinality(T) = Cardinality(B(d)) => T = B(d))
    BY <1>2, <2>1, FS_Subset
  <2>3. Cardinality(B(d)) \in Nat
    BY <2>2, FS_CardinalityType
  <2> HIDE DEF B, T
  <2> QED
    BY <1>2, <2>1, <2>2, <2>3
<1>4. ASSUME NEW d \in T, NEW e \in T, d < e
      PROVE  Cardinality(B(d)) < Cardinality(B(e))
  <2>1. B(d) \subseteq B(e) /\ B(d) # B(e)
    <3>1. d \in B(e) /\ d \notin B(d)
      BY <1>2, <1>4 DEF TablesBelow
    <3>2. \A c \in T : c < d => c < e
      <4> TAKE c \in T
      <4>1. c \in Nat /\ d \in Nat /\ e \in Nat
        BY <1>2
      <4> QED
        BY <1>4, <4>1
    <3>3. B(d) \subseteq B(e)
      BY <3>2 DEF TablesBelow
    <3> QED
      BY <3>1, <3>3
  <2>2. IsFiniteSet(B(e)) /\ Cardinality(B(e)) \in Nat /\ Cardinality(B(d)) \in Nat
    BY <1>3
  <2>3. Cardinality(B(d)) <= Cardinality(B(e)) /\ (Cardinality(B(e)) = Cardinality(B(d)) => B(e) = B(d))
    BY <2>1, <2>2, FS_Subset
  <2> HIDE DEF B, T
  <2> QED
    BY <2>1, <2>2, <2>3
<1>5. f \in Frame /\ mem_map[f] = 0 /\ Cardinality({g \in S : g > f}) = 0
  <2>1. Cardinality(S) > 0
    <3> HIDE DEF S, T
    <3>1. Cardinality(S) > Cardinality(T)
      BY DEF S, T
    <3> QED
      BY <1>1, <1>2, <3>1
  <2>2. f = Free(mem_map, 0) /\ f # NoFrame
    BY <2>1, FreeThere DEF get_free_page
  <2> QED
    BY <2>2, FreeFound
<1>6. ASSUME NEW d \in T
      PROVE  /\ t[d] \in Frame /\ mem_map[t[d]] = 0
             /\ Cardinality({g \in S : g > t[d]}) = 1 + Cardinality(B(d))
  <2>1. 1 + Cardinality(B(d)) \in Nat /\ Cardinality(S) > 1 + Cardinality(B(d))
    <3>1. Cardinality(B(d)) \in Nat /\ Cardinality(B(d)) < Cardinality(T) /\ Cardinality(S) > Cardinality(T)
      BY <1>3
    <3> HIDE DEF S, T, B
    <3> QED
      BY <1>1, <1>2, <3>1
  <2>2. t[d] = Free(mem_map, 1 + Cardinality(B(d)))
    BY <1>2
  <2>3. t[d] # NoFrame
    BY <2>1, <2>2, FreeThere
  <2> QED
    BY <2>1, <2>2, <2>3, FreeFound
<1>7. \A d \in Dir : t[d] # NoFrame => d \in T
  OBVIOUS
<1>8. t \in [Dir -> Frame \cup {NoFrame}]
  <2>1. t = [d \in Dir |-> t[d]]
    OBVIOUS
  <2>2. \A d \in Dir : t[d] \in Frame \cup {NoFrame}
    BY <1>6, <1>7
  <2> HIDE DEF T
  <2> QED
    BY <2>1, <2>2
<1>9. ASSUME NEW d \in T
      PROVE  t[d] # f
  <2>1. Cardinality(B(d)) \in Nat
    BY <1>3
  <2> QED
    BY <1>5, <1>6, <2>1
<1>10. ASSUME NEW d \in T, NEW e \in T, t[d] = t[e]
       PROVE  d = e
  <2>1. Cardinality(B(d)) \in Nat /\ Cardinality(B(e)) \in Nat
    BY <1>3
  <2>2. 1 + Cardinality(B(d)) = 1 + Cardinality(B(e))
    BY <1>6, <1>10
  <2>3. ~(d < e) /\ ~(e < d)
    <3> HIDE DEF B, T
    <3> QED
      BY <1>4, <2>1, <2>2
  <2>4. d \in Nat /\ e \in Nat
    BY <1>2
  <2> QED
    BY <2>3, <2>4
<1> QED
  BY <1>5, <1>6, <1>7, <1>8, <1>9, <1>10

-----------------------------------------------------------------------------
(* Assignments *)

WithOwner(t, p, g) == [t EXCEPT ![p] = g]

LEMMA SetOwner ==
  ASSUME NEW t \in Owners, NEW p \in Proc, NEW g \in Frame \cup {NoFrame}
  PROVE  /\ WithOwner(t, p, g) \in Owners /\ WithOwner(t, p, g)[p] = g
         /\ \A q \in Proc : q # p => WithOwner(t, p, g)[q] = t[q]
BY DEF Owners, WithOwner

WithTable(t, p, d, g) == [t EXCEPT ![p][d] = g]

LEMMA SetTable ==
  ASSUME NEW t \in Directories, NEW p \in Proc, NEW d \in Dir, NEW g \in Frame \cup {NoFrame}
  PROVE  /\ WithTable(t, p, d, g) \in Directories /\ WithTable(t, p, d, g)[p][d] = g
         /\ \A q \in Proc, e \in Dir : <<q, e>> # <<p, d>> => WithTable(t, p, d, g)[q][e] = t[q][e]
         /\ \A q \in Proc : q # p => WithTable(t, p, d, g)[q] = t[q]
BY DEF Directories, WithTable

WithTables(t, p, r) == [t EXCEPT ![p] = r]

LEMMA SetTables ==
  ASSUME NEW t \in Directories, NEW p \in Proc, NEW r \in [Dir -> Frame \cup {NoFrame}]
  PROVE  /\ WithTables(t, p, r) \in Directories /\ WithTables(t, p, r)[p] = r
         /\ \A q \in Proc : q # p => WithTables(t, p, r)[q] = t[q]
BY DEF Directories, WithTables

WithEntry(t, p, v, e) == [t EXCEPT ![p][v] = e]
WithWritable(t, p, v) == [t EXCEPT ![p][v].w = TRUE]
WithDirty(t, p, v) == [t EXCEPT ![p][v].d = TRUE]

LEMMA SetEntry ==
  ASSUME NEW t \in PageTables, NEW p \in Proc, NEW v \in Page, NEW e \in Entry
  PROVE  /\ WithEntry(t, p, v, e) \in PageTables
         /\ WithEntry(t, p, v, e)[p][v] = e
         /\ \A q \in Proc, x \in Page : <<q, x>> # <<p, v>> => WithEntry(t, p, v, e)[q][x] = t[q][x]
BY DEF PageTables, WithEntry

LEMMA SetWritable ==
  ASSUME NEW t \in PageTables, NEW p \in Proc, NEW v \in Page
  PROVE  \E e \in Entry : /\ WithWritable(t, p, v) = WithEntry(t, p, v, e)
                          /\ e.frame = t[p][v].frame /\ e.w
<1> DEFINE e == [t[p][v] EXCEPT !.w = TRUE]
<1>1. e \in Entry /\ e.frame = t[p][v].frame /\ e.w
  <2>1. t[p][v] \in Entry
    BY DEF PageTables
  <2> QED
    BY <2>1 DEF Entry
<1>2. WithWritable(t, p, v) = WithEntry(t, p, v, e)
  BY DEF PageTables, WithWritable, WithEntry
<1> QED
  BY <1>1, <1>2

LEMMA SetDirty ==
  ASSUME NEW t \in PageTables, NEW p \in Proc, NEW v \in Page
  PROVE  \E e \in Entry : /\ WithDirty(t, p, v) = WithEntry(t, p, v, e)
                          /\ e.frame = t[p][v].frame /\ e.w = t[p][v].w
<1> DEFINE e == [t[p][v] EXCEPT !.d = TRUE]
<1>1. e \in Entry /\ e.frame = t[p][v].frame /\ e.w = t[p][v].w
  <2>1. t[p][v] \in Entry
    BY DEF PageTables
  <2> QED
    BY <2>1 DEF Entry
<1>2. WithDirty(t, p, v) = WithEntry(t, p, v, e)
  BY DEF PageTables, WithDirty, WithEntry
<1> QED
  BY <1>1, <1>2

LEMMA SetShared ==
  ASSUME NEW t \in PageTables, NEW p \in Proc, NEW q \in Proc, p # q, NEW v \in Page, NEW e \in Entry
  PROVE  [t EXCEPT ![q][v] = e, ![p][v] = e] = WithEntry(WithEntry(t, q, v, e), p, v, e)
BY DEF WithEntry

WithEntries(t, p, r) == [t EXCEPT ![p] = r]

LEMMA SetEntries ==
  ASSUME NEW t \in PageTables, NEW p \in Proc, NEW r \in [Page -> Entry]
  PROVE  /\ WithEntries(t, p, r) \in PageTables /\ WithEntries(t, p, r)[p] = r
         /\ \A q \in Proc : q # p => WithEntries(t, p, r)[q] = t[q]
BY DEF PageTables, WithEntries

BothProtected(t, p, q) ==
    [t EXCEPT ![p] = [v \in Page |-> [t[p][v] EXCEPT !.w = FALSE]],
              ![q] = [v \in Page |-> [t[p][v] EXCEPT !.w = FALSE]]]

RowsProtected(t, u, p, q) ==
    /\ \A v \in Page : u[p][v].frame = t[p][v].frame /\ ~u[p][v].w
    /\ \A v \in Page : u[q][v].frame = t[p][v].frame /\ ~u[q][v].w
    /\ \A s \in Proc : s # p /\ s # q => u[s] = t[s]

LEMMA Protected ==
  ASSUME NEW t \in PageTables, NEW p \in Proc, NEW q \in Proc, p # q,
         NEW u, u = BothProtected(t, p, q)
  PROVE  u \in PageTables /\ RowsProtected(t, u, p, q)
<1> DEFINE r == [v \in Page |-> [t[p][v] EXCEPT !.w = FALSE]]
<1>1. ASSUME NEW v \in Page
      PROVE  r[v] \in Entry /\ r[v].frame = t[p][v].frame /\ ~r[v].w
  <2>1. t[p][v] \in Entry /\ r[v] = [t[p][v] EXCEPT !.w = FALSE]
    BY DEF PageTables
  <2> QED
    BY <2>1 DEF Entry
<1>2. r \in [Page -> Entry]
  BY <1>1
<1>3. u \in [Proc -> [Page -> Entry]] /\ u[p] = r /\ u[q] = r /\ \A s \in Proc : s # p /\ s # q => u[s] = t[s]
  <2>1. u = [t EXCEPT ![p] = r, ![q] = r]
    BY DEF BothProtected
  <2> HIDE DEF r
  <2> QED
    BY <1>2, <2>1 DEF PageTables
<1> QED
  BY <1>1, <1>3 DEF PageTables, RowsProtected

LEMMA SetTaken ==
  ASSUME NEW m \in Maps, NEW f \in Frame
  PROVE  /\ Taken(m, f) \in Maps
         /\ \A g \in Frame : Taken(m, f)[g] = IF g = f THEN 1 ELSE m[g]
BY DEF Maps, Taken

LEMMA NoneTaken ==
  ASSUME NEW m \in Maps
  PROVE  Taken(m, NoFrame) = m
BY Numbers DEF Maps, Taken

LEMMA SetFreed ==
  ASSUME NEW m \in Maps, NEW f \in Frame
  PROVE  /\ free_page(m, f) \in [Frame -> Int]
         /\ \A g \in Frame : free_page(m, f)[g] = IF g = f THEN m[g] - 1 ELSE m[g]
BY DEF Maps, free_page

-----------------------------------------------------------------------------
(* The inductive invariant *)

OtherTypes ==
    /\ data \in [Frame -> Content]
    /\ life \in [Proc -> {"none", "alive", "zombie"}]
    /\ executable \in [Proc -> Program]
    /\ pc \in [Proc -> {"user", "load", "copy", "exec"}]
    /\ addr \in [Proc -> Page]
    /\ ret \in [Proc -> {"user", "copy"}]

(* What a process has at each place of its life.                           *)
ShapeAt(p) ==
    /\ life[p] = "none" <=> task[p] = NoFrame
    /\ life[p] # "alive" => /\ pc[p] = "user"
                            /\ \A d \in Dir : table[p][d] = NoFrame
                            /\ \A v \in Page : pte[p][v].frame = NoFrame
    /\ pc[p] \in {"load", "exec"} <=> new[p] # NoFrame
    /\ pc[p] = "load" => pte[p][addr[p]].frame = NoFrame /\ addr[p] \in FilePage

Shape == \A p \in Proc : ShapeAt(p)

(* A frame is shared only at one and the same page of the address spaces.  *)
SamePage ==
    \A p, q \in Proc, v, x \in Page :
        pte[p][v].frame = pte[q][x].frame /\ pte[p][v].frame # NoFrame => v = x

(* verify_area() is still good when the system call writes: only pages of  *)
(* the executable are shared while the process sleeps.                     *)
CopyWritable ==
    \A p \in Proc :
        pc[p] = "copy" /\ addr[p] \notin FilePage /\ pte[p][addr[p]].frame # NoFrame
            => pte[p][addr[p]].w

(* The arguments of exec() stay what they were while it sleeps.            *)
Arguments == \A p \in Proc : pc[p] = "exec" => data[new[p]] \in Value

Counted == Good(mem_map, task, table, new, pte)

IInv == OtherTypes /\ Counted /\ Shape /\ SamePage /\ CopyWritable /\ Arguments

LEMMA InvariantTypes == IInv => TypeOK
BY DEF IInv, OtherTypes, Counted, Good, Typed, TypeOK, Maps, Owners, Directories, PageTables, Entry

LEMMA InvariantExact == IInv => RefCountExact
BY DEF IInv, Counted, Good, Exact, RefCountExact, References, Cells, TableCells, PageCells

LEMMA InvariantPrivate == IInv => WritableIsPrivate
BY DEF IInv, Counted, Good, Alone, WritableIsPrivate

(* What a step of p leaves alone in the other processes.                   *)
SameFor(q) ==
    /\ life'[q] = life[q] /\ task'[q] = task[q] /\ pc'[q] = pc[q] /\ new'[q] = new[q]
    /\ addr'[q] = addr[q] /\ table'[q] = table[q]
    /\ \A v \in Page : pte'[q][v].frame = pte[q][v].frame
    /\ \A v \in Page \ FilePage : pte'[q][v].w = pte[q][v].w
    /\ new[q] # NoFrame => data'[new[q]] = data[new[q]]

Others(S) == \A q \in Proc \ S : SameFor(q)

CopyWritableAt(p) ==
    pc[p] = "copy" /\ addr[p] \notin FilePage /\ pte[p][addr[p]].frame # NoFrame
        => pte[p][addr[p]].w

ArgumentsAt(p) == pc[p] = "exec" => data[new[p]] \in Value

LEMMA OthersKeep ==
  ASSUME IInv, NEW S \in SUBSET Proc, Others(S), OtherTypes',
         \A p \in S : ShapeAt(p)' /\ CopyWritableAt(p)' /\ ArgumentsAt(p)'
  PROVE  Shape' /\ CopyWritable' /\ Arguments'
<1>1. ASSUME NEW q \in Proc \ S
      PROVE  ShapeAt(q)' /\ CopyWritableAt(q)' /\ ArgumentsAt(q)'
  <2>1. SameFor(q) /\ addr[q] \in Page
    BY DEF Others, IInv, OtherTypes
  <2>2. ShapeAt(q) /\ CopyWritableAt(q) /\ ArgumentsAt(q)
    BY DEF IInv, Shape, CopyWritable, CopyWritableAt, Arguments, ArgumentsAt
  <2>3. ShapeAt(q)'
    BY <2>1, <2>2 DEF SameFor, ShapeAt
  <2>4. CopyWritableAt(q)'
    BY <2>1, <2>2 DEF SameFor, CopyWritableAt
  <2>5. ArgumentsAt(q)'
    BY <2>1, <2>2 DEF SameFor, ArgumentsAt, ShapeAt
  <2> QED
    BY <2>3, <2>4, <2>5
<1>2. \A p \in Proc : ShapeAt(p)' /\ CopyWritableAt(p)' /\ ArgumentsAt(p)'
  BY <1>1
<1> QED
  BY <1>2 DEF Shape, CopyWritable, CopyWritableAt, Arguments, ArgumentsAt

(* One cell of the page tables changes, and other pages only go away.      *)
LEMMA SamePageKept ==
  ASSUME SamePage, NEW p \in Proc, NEW v \in Page,
         \A q \in Proc, x \in Page : <<q, x>> # <<p, v>> =>
            pte'[q][x].frame \in {pte[q][x].frame, NoFrame},
         \A q \in Proc, x \in Page :
            pte'[q][x].frame = pte'[p][v].frame /\ pte'[p][v].frame # NoFrame => x = v
  PROVE  SamePage'
<1> SUFFICES ASSUME NEW q \in Proc, NEW r \in Proc, NEW x \in Page, NEW y \in Page,
                    pte'[q][x].frame = pte'[r][y].frame, pte'[q][x].frame # NoFrame
             PROVE  x = y
  BY DEF SamePage
<1>1. CASE <<q, x>> = <<p, v>>
  BY <1>1
<1>2. CASE <<r, y>> = <<p, v>>
  BY <1>2
<1>3. CASE <<q, x>> # <<p, v>> /\ <<r, y>> # <<p, v>>
  BY <1>3 DEF SamePage
<1> QED
  BY <1>1, <1>2, <1>3

(* A writable page is the only use of its frame.                           *)
LEMMA WritableOnce ==
  ASSUME NEW m, NEW ta, NEW tb, NEW ne, NEW pt, Good(m, ta, tb, ne, pt),
         NEW p \in Proc, NEW v \in Page, pt[p][v].w
  PROVE  /\ pt[p][v].frame \in Frame
         /\ OnePlace(pt[p][v].frame, ta, tb, ne, pt)
<1>1. pt[p][v].frame # NoFrame /\ m[pt[p][v].frame] = 1
  BY DEF Good, Alone
<1>2. pt[p][v].frame \in Frame
  BY <1>1 DEF Good, Typed, PageTables, Entry
<1> QED
  BY <1>1, <1>2, Referred

(* Where a process goes on after a fault.                                  *)
Goes(p, v, then) ==
    /\ pc' = [pc EXCEPT ![p] = then]
    /\ addr' \in [Proc -> Page] /\ \A q \in Proc : q # p => addr'[q] = addr[q]
    /\ then = "copy" => addr'[p] = v
    /\ ret' \in [Proc -> {"user", "copy"}]

LEMMA GoesTo ==
  ASSUME OtherTypes, NEW p \in Proc, NEW v \in Page, NEW then \in {"user", "load", "copy", "exec"},
         Goes(p, v, then)
  PROVE  /\ pc' \in [Proc -> {"user", "load", "copy", "exec"}] /\ pc'[p] = then
         /\ addr' \in [Proc -> Page] /\ ret' \in [Proc -> {"user", "copy"}]
         /\ \A q \in Proc : q # p => pc'[q] = pc[q] /\ addr'[q] = addr[q]
         /\ then = "copy" => addr'[p] = v
BY DEF OtherTypes, Goes

-----------------------------------------------------------------------------
(* The steps *)

(* un_wp_page() of the sole owner.                                         *)
LEMMA MakeWritableInv ==
  ASSUME IInv, NEW p \in Proc, NEW v \in Page, NEW then \in {"user", "copy"},
         User(p), Present(p, v), SoleOwner(pte[p][v].frame),
         pte' = WithWritable(pte, p, v), Goes(p, v, then),
         UNCHANGED <<mem_map, data, table, life, new, task, executable>>
  PROVE  IInv'
<1>1. OtherTypes /\ Shape /\ SamePage /\ Good(mem_map, task, table, new, pte)
  BY DEF IInv, Counted
<1>2. PICK e \in Entry : /\ pte' = WithEntry(pte, p, v, e)
                         /\ e.frame = pte[p][v].frame /\ e.w
  BY <1>1, SetWritable DEF Good, Typed
<1>3. /\ pte' \in PageTables /\ pte'[p][v] = e
      /\ \A q \in Proc, x \in Page : <<q, x>> # <<p, v>> => pte'[q][x] = pte[q][x]
  BY <1>1, <1>2, SetEntry DEF Good, Typed
<1>4. \A q \in Proc, x \in Page : pte'[q][x].frame = pte[q][x].frame
  <2> TAKE q \in Proc, x \in Page
  <2>1. CASE <<q, x>> = <<p, v>>
    BY <1>2, <1>3, <2>1
  <2>2. CASE <<q, x>> # <<p, v>>
    BY <1>3, <2>2
  <2> QED
    BY <2>1, <2>2
<1>5. \A q \in Proc, x \in Page : pte'[q][x].w => pte'[q][x].frame # NoFrame /\ mem_map[pte'[q][x].frame] = 1
  <2> TAKE q \in Proc, x \in Page
  <2>1. CASE <<q, x>> = <<p, v>>
    BY <1>2, <1>3, <2>1 DEF Present, SoleOwner
  <2>2. CASE <<q, x>> # <<p, v>>
    BY <1>1, <1>3, <2>2 DEF Good, Alone
  <2> QED
    BY <2>1, <2>2
<1>6. Good(mem_map, task, table, new, pte')
  BY <1>1, <1>3, <1>4, <1>5, SameFrames
<1>7. Counted'
  BY <1>6 DEF Counted
<1>8. /\ pc' \in [Proc -> {"user", "load", "copy", "exec"}] /\ pc'[p] = then
      /\ addr' \in [Proc -> Page] /\ ret' \in [Proc -> {"user", "copy"}]
      /\ \A q \in Proc : q # p => pc'[q] = pc[q] /\ addr'[q] = addr[q]
      /\ then = "copy" => addr'[p] = v
  BY <1>1, GoesTo
<1>9. OtherTypes'
  BY <1>1, <1>8 DEF OtherTypes
<1>10. Others({p})
  BY <1>3, <1>4, <1>8 DEF Others, SameFor
<1>11. ShapeAt(p)'
  <2>1. ShapeAt(p) /\ pc[p] = "user" /\ life[p] = "alive"
    BY <1>1 DEF Shape, User
  <2> QED
    BY <1>8, <2>1 DEF ShapeAt
<1>12. CopyWritableAt(p)' /\ ArgumentsAt(p)'
  BY <1>2, <1>3, <1>8 DEF CopyWritableAt, ArgumentsAt
<1>13. Shape' /\ CopyWritable' /\ Arguments'
  BY <1>9, <1>10, <1>11, <1>12, OthersKeep
<1>14. SamePage'
  BY <1>1, <1>4 DEF SamePage
<1> QED
  BY <1>7, <1>9, <1>13, <1>14 DEF IInv

(* un_wp_page() of a page with other owners.                               *)
LEMMA CopyOnWriteInv ==
  ASSUME IInv, NEW p \in Proc, NEW v \in Page, NEW then \in {"user", "copy"},
         User(p), Present(p, v), ~SoleOwner(pte[p][v].frame),
         NEW f, f = get_free_page(mem_map), f # NoFrame,
         mem_map' = free_page(Taken(mem_map, f), pte[p][v].frame),
         pte' = WithEntry(pte, p, v, Fresh(f)),
         data' = [data EXCEPT ![f] = data[pte[p][v].frame]],
         Goes(p, v, then), UNCHANGED <<table, life, new, task, executable>>
  PROVE  IInv'
<1>1. OtherTypes /\ Shape /\ SamePage /\ Good(mem_map, task, table, new, pte)
  BY DEF IInv, Counted
<1>2. f \in Frame /\ mem_map[f] = 0
  BY GetFreePage
<1>3. Fresh(f) \in Entry /\ Fresh(f).frame = f /\ Fresh(f).w
  BY <1>2 DEF Fresh, Entry
<1>4. /\ pte' \in PageTables /\ pte'[p][v] = Fresh(f)
      /\ \A q \in Proc, x \in Page : <<q, x>> # <<p, v>> => pte'[q][x] = pte[q][x]
  <2>1. pte \in PageTables
    BY <1>1 DEF Good, Typed
  <2> QED
    BY <1>3, <2>1, SetEntry
<1>5. PICK old \in Frame : old = pte[p][v].frame
  BY <1>1 DEF Good, Typed, PageTables, Entry, Present
<1>6. mem_map \in Maps /\ mem_map[old] # 1
  BY <1>1, <1>5 DEF Good, Typed, SoleOwner
<1>7. /\ mem_map' \in [Frame -> Int]
      /\ \A g \in Frame : mem_map'[g] = IF g = f THEN 1 ELSE IF g = old THEN mem_map[g] - 1 ELSE mem_map[g]
  <2>1. /\ Taken(mem_map, f) \in Maps
        /\ \A g \in Frame : Taken(mem_map, f)[g] = IF g = f THEN 1 ELSE mem_map[g]
    BY <1>2, <1>6, SetTaken
  <2>2. mem_map' = free_page(Taken(mem_map, f), old)
    BY <1>5
  <2>3. /\ mem_map' \in [Frame -> Int]
        /\ \A g \in Frame : mem_map'[g] = IF g = old THEN Taken(mem_map, f)[g] - 1 ELSE Taken(mem_map, f)[g]
    BY <2>1, <2>2, SetFreed
  <2>4. old # f
    BY <1>1, <1>2, <1>5, Referred DEF Nowhere
  <2> QED
    BY <2>1, <2>3, <2>4
<1>8. Good(mem_map', task, table, new, pte')
  BY <1>1, <1>2, <1>3, <1>4, <1>5, <1>6, <1>7, CopyPage
<1>9. Counted'
  BY <1>8 DEF Counted
<1>10. /\ pc' \in [Proc -> {"user", "load", "copy", "exec"}] /\ pc'[p] = then
       /\ addr' \in [Proc -> Page] /\ ret' \in [Proc -> {"user", "copy"}]
       /\ \A q \in Proc : q # p => pc'[q] = pc[q] /\ addr'[q] = addr[q]
       /\ then = "copy" => addr'[p] = v
  BY <1>1, GoesTo
<1>11. data' \in [Frame -> Content] /\ \A g \in Frame : g # f => data'[g] = data[g]
  BY <1>1, <1>5 DEF OtherTypes
<1>12. OtherTypes'
  BY <1>1, <1>10, <1>11 DEF OtherTypes
<1>13. \A q \in Proc : new[q] # f
  BY <1>1, <1>2, Referred DEF Nowhere
<1>14. Others({p})
  <2>1. \A q \in Proc : new[q] # NoFrame => new[q] \in Frame
    BY <1>1 DEF Good, Typed, Owners
  <2> QED
    BY <1>4, <1>10, <1>11, <1>13, <2>1 DEF Others, SameFor
<1>15. ShapeAt(p)'
  <2>1. ShapeAt(p) /\ pc[p] = "user" /\ life[p] = "alive"
    BY <1>1 DEF Shape, User
  <2> QED
    BY <1>10, <2>1 DEF ShapeAt
<1>16. CopyWritableAt(p)' /\ ArgumentsAt(p)'
  BY <1>3, <1>4, <1>10 DEF CopyWritableAt, ArgumentsAt
<1>17. Shape' /\ CopyWritable' /\ Arguments'
  BY <1>12, <1>14, <1>15, <1>16, OthersKeep
<1>18. SamePage'
  <2>1. OnePlace(f, task, table, new, pte')
    BY <1>3, <1>4, <1>8, WritableOnce
  <2>2. \A q \in Proc, x \in Page : pte'[q][x].frame = f => x = v
    BY <1>3, <1>4, <2>1 DEF OnePlace
  <2>3. \A q \in Proc, x \in Page : <<q, x>> # <<p, v>> => pte'[q][x].frame \in {pte[q][x].frame, NoFrame}
    BY <1>4
  <2>4. \A q \in Proc, x \in Page :
           pte'[q][x].frame = pte'[p][v].frame /\ pte'[p][v].frame # NoFrame => x = v
    BY <1>3, <1>4, <2>2
  <2> QED
    BY <1>1, <2>3, <2>4, SamePageKept
<1> QED
  BY <1>9, <1>12, <1>17, <1>18 DEF IInv

(* do_exit(): what it leaves.                                              *)
LEMMA ExitLeaves ==
  ASSUME IInv, NEW p \in Proc, NEW m \in [Frame -> Int], do_exit(p, m)
  PROVE  /\ mem_map' \in [Frame -> Int]
         /\ \A g \in Frame : mem_map'[g] = m[g] - Cardinality({v \in Page : pte[p][v].frame = g})
                                                - Cardinality({d \in Dir : table[p][d] = g})
         /\ table' \in Directories /\ \A d \in Dir : table'[p][d] = NoFrame
         /\ \A q \in Proc : q # p => table'[q] = table[q]
         /\ pte' \in PageTables /\ \A v \in Page : pte'[p][v].frame = NoFrame /\ ~pte'[p][v].w
         /\ \A q \in Proc : q # p => pte'[q] = pte[q]
         /\ life' \in [Proc -> {"none", "alive", "zombie"}] /\ life'[p] = "zombie"
         /\ pc' \in [Proc -> {"user", "load", "copy", "exec"}] /\ pc'[p] = "user"
         /\ new' \in Owners /\ new'[p] = NoFrame
         /\ \A q \in Proc : q # p => life'[q] = life[q] /\ pc'[q] = pc[q] /\ new'[q] = new[q]
         /\ data' = data
<1>1. Typed(mem_map, task, table, new, pte) /\ OtherTypes
  BY DEF IInv, Counted, Good
<1>2. /\ mem_map' = free_page_tables(m, p)
      /\ table' = [table EXCEPT ![p] = [d \in Dir |-> NoFrame]]
      /\ pte' = WithEntries(pte, p, [v \in Page |-> Absent])
      /\ life' = [life EXCEPT ![p] = "zombie"]
      /\ pc' = [pc EXCEPT ![p] = "user"]
      /\ new' = [new EXCEPT ![p] = NoFrame]
      /\ data' = data
  BY DEF do_exit, WithEntries
<1>3. /\ mem_map' \in [Frame -> Int]
      /\ \A g \in Frame : mem_map'[g] = m[g] - Cardinality({v \in Page : pte[p][v].frame = g})
                                             - Cardinality({d \in Dir : table[p][d] = g})
  <2>1. ASSUME NEW g \in Frame
        PROVE  /\ Cardinality({v \in Page : pte[p][v].frame = g}) \in Nat
               /\ Cardinality({d \in Dir : table[p][d] = g}) \in Nat
    <3>1. IsFiniteSet({v \in Page : pte[p][v].frame = g}) /\ IsFiniteSet({d \in Dir : table[p][d] = g})
      BY Finite, FS_Subset
    <3> QED
      BY <3>1, FS_CardinalityType
  <2>2. mem_map' = [g \in Frame |-> m[g] - Cardinality({v \in Page : pte[p][v].frame = g})
                                         - Cardinality({d \in Dir : table[p][d] = g})]
    BY <1>2 DEF free_page_tables
  <2> QED
    BY <2>1, <2>2
<1>4. /\ table' \in Directories /\ \A d \in Dir : table'[p][d] = NoFrame
      /\ \A q \in Proc : q # p => table'[q] = table[q]
  BY <1>1, <1>2 DEF Typed, Directories
<1>5. /\ pte' \in PageTables /\ pte'[p] = [v \in Page |-> Absent]
      /\ \A q \in Proc : q # p => pte'[q] = pte[q]
  <2>1. [v \in Page |-> Absent] \in [Page -> Entry]
    BY DEF Absent, Entry
  <2> QED
    BY <1>1, <1>2, <2>1, SetEntries DEF Typed
<1>6. \A v \in Page : pte'[p][v].frame = NoFrame /\ ~pte'[p][v].w
  BY <1>5 DEF Absent
<1>7. /\ life' \in [Proc -> {"none", "alive", "zombie"}] /\ life'[p] = "zombie"
      /\ pc' \in [Proc -> {"user", "load", "copy", "exec"}] /\ pc'[p] = "user"
      /\ new' \in Owners /\ new'[p] = NoFrame
      /\ \A q \in Proc : q # p => life'[q] = life[q] /\ pc'[q] = pc[q] /\ new'[q] = new[q]
  BY <1>1, <1>2 DEF OtherTypes, Typed, Owners
<1> QED
  BY <1>2, <1>3, <1>4, <1>5, <1>6, <1>7

(* exit(), a signal, or no memory, with a page to free or without.         *)
LEMMA DeathInv ==
  ASSUME IInv, NEW p \in Proc, life[p] = "alive",
         NEW m, \/ new[p] = NoFrame /\ m = mem_map
                \/ new[p] # NoFrame /\ m = free_page(mem_map, new[p]),
         do_exit(p, m), addr' \in [Proc -> Page], \A q \in Proc : q # p => addr'[q] = addr[q],
         ret' \in [Proc -> {"user", "copy"}],
         UNCHANGED <<task, executable>>
  PROVE  IInv'
<1>1. OtherTypes /\ Shape /\ SamePage /\ Good(mem_map, task, table, new, pte)
  BY DEF IInv, Counted
<1> DEFINE ne == [new EXCEPT ![p] = NoFrame]
<1>2. new' = ne
  BY DEF do_exit
<1>3. ne \in Owners /\ ne[p] = NoFrame /\ \A q \in Proc : q # p => ne[q] = new[q]
  BY <1>1 DEF Good, Typed, Owners
<1>4. Good(m, task, table, ne, pte)
  <2>1. CASE new[p] = NoFrame /\ m = mem_map
    <3>1. ne = new
      BY <1>1, <2>1 DEF Good, Typed, Owners
    <3> QED
      BY <1>1, <2>1, <3>1
  <2>2. CASE new[p] # NoFrame /\ m = free_page(mem_map, new[p])
    <3>1. PICK f \in Frame : f = new[p]
      BY <1>1, <2>2 DEF Good, Typed, Owners
    <3>2. mem_map \in Maps
      BY <1>1 DEF Good, Typed
    <3>3. m \in [Frame -> Int] /\ \A g \in Frame : m[g] = IF g = f THEN mem_map[g] - 1 ELSE mem_map[g]
      BY <2>2, <3>1, <3>2, SetFreed
    <3> HIDE DEF ne
    <3> QED
      BY <1>1, <1>3, <3>1, <3>3, DropNew
  <2> QED
    BY <2>1, <2>2
<1>5. m \in [Frame -> Int]
  BY <1>4 DEF Good, Typed, Maps
<1>6. /\ mem_map' \in [Frame -> Int]
      /\ \A g \in Frame : mem_map'[g] = m[g] - Cardinality({v \in Page : pte[p][v].frame = g})
                                             - Cardinality({d \in Dir : table[p][d] = g})
      /\ table' \in Directories /\ \A d \in Dir : table'[p][d] = NoFrame
      /\ \A q \in Proc : q # p => table'[q] = table[q]
      /\ pte' \in PageTables /\ \A v \in Page : pte'[p][v].frame = NoFrame /\ ~pte'[p][v].w
      /\ \A q \in Proc : q # p => pte'[q] = pte[q]
      /\ life' \in [Proc -> {"none", "alive", "zombie"}] /\ life'[p] = "zombie"
      /\ pc' \in [Proc -> {"user", "load", "copy", "exec"}] /\ pc'[p] = "user"
      /\ new' \in Owners /\ new'[p] = NoFrame
      /\ \A q \in Proc : q # p => life'[q] = life[q] /\ pc'[q] = pc[q] /\ new'[q] = new[q]
      /\ data' = data
  BY <1>5, ExitLeaves
<1>7. Good(mem_map', task, table', ne, pte')
  <2> HIDE DEF ne
  <2>1. Unmapped(p, m, table, pte, mem_map', table', pte')
    BY <1>6 DEF Unmapped
  <2> QED
    BY <1>4, <2>1, DropSpace
<1>8. Counted'
  BY <1>2, <1>7 DEF Counted
<1>9. OtherTypes'
  BY <1>1, <1>6 DEF OtherTypes
<1>10. Others({p})
  BY <1>6 DEF Others, SameFor
<1>11. ShapeAt(p)'
  <2>1. task[p] # NoFrame
    BY <1>1 DEF Shape, ShapeAt
  <2> QED
    BY <1>6, <2>1 DEF ShapeAt
<1>12. CopyWritableAt(p)' /\ ArgumentsAt(p)'
  BY <1>6 DEF CopyWritableAt, ArgumentsAt
<1>13. Shape' /\ CopyWritable' /\ Arguments'
  BY <1>9, <1>10, <1>11, <1>12, OthersKeep
<1>14. SamePage'
  <2>1. \A q \in Proc, x \in Page : pte'[q][x].frame \in {pte[q][x].frame, NoFrame}
    BY <1>6
  <2> QED
    BY <1>1, <2>1 DEF SamePage
<1> QED
  BY <1>8, <1>9, <1>13, <1>14 DEF IInv

(* The page table that put_page() needs is there, or a frame becomes one.  *)
LEMMA TableMade ==
  ASSUME NEW m, NEW ta, NEW ne, NEW pt, Good(m, ta, table, ne, pt),
         NEW p \in Proc, NEW v \in Page, NEW t, t = TableOf(p, v, m), t # NoFrame
  PROVE  /\ t \in Frame
         /\ Good(Taken(m, t), ta, WithTable(table, p, DirOf[v], t), ne, pt)
         /\ \A q \in Proc : q # p => WithTable(table, p, DirOf[v], t)[q] = table[q]
<1> DEFINE d == DirOf[v]
<1>1. d \in Dir /\ table \in Directories /\ m \in Maps
  BY DEF Dir, Good, Typed
<1>2. CASE table[p][d] # NoFrame
  <2>1. t = table[p][d] /\ t \in Frame
    BY <1>1, <1>2 DEF TableOf, Directories
  <2>2. m[t] = 1
    BY <1>1, <1>2, <2>1 DEF Good, Alone
  <2>3. Taken(m, t) = m
    BY <1>1, <2>1, <2>2 DEF Taken, Maps
  <2>4. WithTable(table, p, d, t) = table
    BY <1>1, <2>1 DEF WithTable, Directories
  <2> QED
    BY <2>1, <2>3, <2>4
<1>3. CASE table[p][d] = NoFrame
  <2>1. t = get_free_page(m)
    BY <1>3 DEF TableOf
  <2>2. t \in Frame /\ m[t] = 0
    BY <2>1, GetFreePage
  <2>3. /\ WithTable(table, p, d, t) \in Directories /\ WithTable(table, p, d, t)[p][d] = t
        /\ \A q \in Proc, e \in Dir : <<q, e>> # <<p, d>> => WithTable(table, p, d, t)[q][e] = table[q][e]
        /\ \A q \in Proc : q # p => WithTable(table, p, d, t)[q] = table[q]
    <3> HIDE DEF d
    <3> QED
      BY <1>1, <2>2, SetTable
  <2>4. Taken(m, t) \in Maps /\ \A g \in Frame : Taken(m, t)[g] = IF g = t THEN 1 ELSE m[g]
    BY <1>1, <2>2, SetTaken
  <2>5. Good(Taken(m, t), ta, WithTable(table, p, d, t), ne, pt)
    <3> HIDE DEF d
    <3> QED
      BY <1>1, <1>3, <2>2, <2>3, <2>4, TakeTable
  <2> QED
    BY <2>2, <2>3, <2>5
<1> QED
  BY <1>2, <1>3

(* get_empty_page() with memory for the page and its table.                *)
LEMMA EmptyPageInv ==
  ASSUME IInv, NEW p \in Proc, NEW v \in Page, NEW then \in {"user", "copy"},
         life[p] = "alive", pc[p] \in {"user", "copy"}, ~Present(p, v),
         NEW f, f = get_free_page(mem_map), f # NoFrame,
         NEW m, m = Taken(mem_map, f), NEW t, t = TableOf(p, v, m), t # NoFrame,
         mem_map' = Taken(m, t), table' = WithTable(table, p, DirOf[v], t),
         pte' = WithEntry(pte, p, v, Fresh(f)), data' = [data EXCEPT ![f] = Zero],
         Goes(p, v, then), UNCHANGED <<life, new, task, executable>>
  PROVE  IInv'
<1>1. OtherTypes /\ Shape /\ SamePage /\ Good(mem_map, task, table, new, pte)
  BY DEF IInv, Counted
<1>2. f \in Frame /\ mem_map[f] = 0
  BY GetFreePage
<1>3. Fresh(f) \in Entry /\ Fresh(f).frame = f /\ Fresh(f).w
  BY <1>2 DEF Fresh, Entry
<1>4. /\ pte' \in PageTables /\ pte'[p][v] = Fresh(f)
      /\ \A q \in Proc, x \in Page : <<q, x>> # <<p, v>> => pte'[q][x] = pte[q][x]
  <2>1. pte \in PageTables
    BY <1>1 DEF Good, Typed
  <2> QED
    BY <1>3, <2>1, SetEntry
<1>5. Good(m, task, table, new, pte')
  <2>1. m \in Maps /\ \A g \in Frame : m[g] = IF g = f THEN 1 ELSE mem_map[g]
    BY <1>1, <1>2, SetTaken DEF Good, Typed
  <2>2. pte[p][v].frame = NoFrame
    BY DEF Present
  <2>3. pte'[p][v].frame = f
    BY <1>3, <1>4
  <2> QED
    BY <1>1, <1>2, <1>4, <2>1, <2>2, <2>3, TakePage
<1>6. /\ Good(mem_map', task, table', new, pte')
      /\ \A q \in Proc : q # p => table'[q] = table[q]
  BY <1>5, TableMade
<1>7. Counted'
  BY <1>6 DEF Counted
<1>8. /\ pc' \in [Proc -> {"user", "load", "copy", "exec"}] /\ pc'[p] = then
      /\ addr' \in [Proc -> Page] /\ ret' \in [Proc -> {"user", "copy"}]
      /\ \A q \in Proc : q # p => pc'[q] = pc[q] /\ addr'[q] = addr[q]
      /\ then = "copy" => addr'[p] = v
  BY <1>1, GoesTo
<1>9. data' \in [Frame -> Content] /\ \A g \in Frame : g # f => data'[g] = data[g]
  <2>1. Zero \in Content
    BY DEF Content
  <2> QED
    BY <1>1, <1>2, <2>1 DEF OtherTypes
<1>10. OtherTypes'
  BY <1>1, <1>8, <1>9 DEF OtherTypes
<1>11. \A q \in Proc : new[q] # f
  BY <1>1, <1>2, Referred DEF Nowhere
<1>12. Others({p})
  <2>1. \A q \in Proc : new[q] # NoFrame => new[q] \in Frame
    BY <1>1 DEF Good, Typed, Owners
  <2> QED
    BY <1>4, <1>6, <1>8, <1>9, <1>11, <2>1 DEF Others, SameFor
<1>13. ShapeAt(p)'
  <2>1. ShapeAt(p)
    BY <1>1 DEF Shape
  <2> QED
    BY <1>8, <2>1 DEF ShapeAt
<1>14. CopyWritableAt(p)' /\ ArgumentsAt(p)'
  BY <1>3, <1>4, <1>8 DEF CopyWritableAt, ArgumentsAt
<1>15. Shape' /\ CopyWritable' /\ Arguments'
  BY <1>10, <1>12, <1>13, <1>14, OthersKeep
<1>16. SamePage'
  <2>1. OnePlace(f, task, table', new, pte')
    BY <1>3, <1>4, <1>6, WritableOnce
  <2>2. \A q \in Proc, x \in Page : pte'[q][x].frame = f => x = v
    BY <1>3, <1>4, <2>1 DEF OnePlace
  <2>3. \A q \in Proc, x \in Page : <<q, x>> # <<p, v>> => pte'[q][x].frame \in {pte[q][x].frame, NoFrame}
    BY <1>4
  <2>4. \A q \in Proc, x \in Page :
           pte'[q][x].frame = pte'[p][v].frame /\ pte'[p][v].frame # NoFrame => x = v
    BY <1>3, <1>4, <2>2
  <2> QED
    BY <1>1, <2>3, <2>4, SamePageKept
<1> QED
  BY <1>7, <1>10, <1>15, <1>16 DEF IInv

(* try_to_share() with memory for the page table.                          *)
LEMMA ShareInv ==
  ASSUME IInv, NEW p \in Proc, NEW v \in FilePage, NEW then \in {"user", "copy"},
         life[p] = "alive", pc[p] \in {"user", "copy"}, ~Present(p, v),
         NEW q \in Clean(p, v), NEW entry \in Entry, entry.frame = pte[q][v].frame, ~entry.w,
         NEW t, t = TableOf(p, v, mem_map), t # NoFrame,
         table' = WithTable(table, p, DirOf[v], t),
         mem_map' \in Maps,
         \A g \in Frame : mem_map'[g] =
            IF g = entry.frame THEN Taken(mem_map, t)[g] + 1 ELSE Taken(mem_map, t)[g],
         pte' = WithEntry(WithEntry(pte, q, v, entry), p, v, entry),
         Goes(p, v, then), UNCHANGED <<data, life, new, task, executable>>
  PROVE  IInv'
<1>1. OtherTypes /\ Shape /\ SamePage /\ Good(mem_map, task, table, new, pte)
  BY DEF IInv, Counted
<1>2. q \in Proc /\ q # p /\ v \in Page /\ Present(q, v)
  BY MemoryAssumption DEF Clean
<1>3. PICK f \in Frame : f = pte[q][v].frame
  BY <1>1, <1>2 DEF Present, Good, Typed, PageTables, Entry
<1>4. entry \in Entry /\ entry.frame = f /\ ~entry.w
  BY <1>3
<1>5. /\ pte' \in PageTables /\ pte'[p][v] = entry /\ pte'[q][v] = entry
      /\ \A r \in Proc, x \in Page : <<r, x>> # <<p, v>> /\ <<r, x>> # <<q, v>> => pte'[r][x] = pte[r][x]
  <2> DEFINE s == WithEntry(pte, q, v, entry)
  <2>1. /\ s \in PageTables /\ s[q][v] = entry
        /\ \A r \in Proc, x \in Page : <<r, x>> # <<q, v>> => s[r][x] = pte[r][x]
    <3>1. pte \in PageTables
      BY <1>1 DEF Good, Typed
    <3> QED
      BY <1>2, <1>4, <3>1, SetEntry
  <2> HIDE DEF s
  <2>2. pte' = WithEntry(s, p, v, entry)
    BY DEF s
  <2>3. /\ pte' \in PageTables /\ pte'[p][v] = entry
        /\ \A r \in Proc, x \in Page : <<r, x>> # <<p, v>> => pte'[r][x] = s[r][x]
    BY <1>2, <1>4, <2>1, <2>2, SetEntry
  <2>4. <<q, v>> # <<p, v>>
    BY <1>2
  <2> QED
    BY <1>2, <2>1, <2>3, <2>4
<1>6. /\ t \in Frame
      /\ Good(Taken(mem_map, t), task, table', new, pte)
      /\ \A r \in Proc : r # p => table'[r] = table[r]
  BY <1>1, <1>2, TableMade
<1>7. /\ mem_map' \in Maps
      /\ \A g \in Frame : mem_map'[g] = IF g = f THEN Taken(mem_map, t)[g] + 1 ELSE Taken(mem_map, t)[g]
  BY <1>4
<1>8. Good(mem_map', task, table', new, pte')
  <2>1. pte[p][v].frame = NoFrame /\ pte[q][v].frame = f
    BY <1>3 DEF Present
  <2>2. pte'[p][v].frame = f /\ ~pte'[p][v].w /\ pte'[q][v].frame = f /\ ~pte'[q][v].w
    BY <1>4, <1>5
  <2> QED
    BY <1>2, <1>5, <1>6, <1>7, <2>1, <2>2, SharePage
<1>9. Counted'
  BY <1>8 DEF Counted
<1>10. /\ pc' \in [Proc -> {"user", "load", "copy", "exec"}] /\ pc'[p] = then
       /\ addr' \in [Proc -> Page] /\ ret' \in [Proc -> {"user", "copy"}]
       /\ \A r \in Proc : r # p => pc'[r] = pc[r] /\ addr'[r] = addr[r]
       /\ then = "copy" => addr'[p] = v
  BY <1>1, <1>2, GoesTo
<1>11. OtherTypes'
  BY <1>1, <1>10 DEF OtherTypes
<1>12. \A r \in Proc, x \in Page : <<r, x>> # <<p, v>> => pte'[r][x].frame = pte[r][x].frame
  <2> TAKE r \in Proc, x \in Page
  <2>1. CASE <<r, x>> = <<q, v>>
    BY <1>3, <1>4, <1>5, <2>1
  <2>2. CASE <<r, x>> # <<q, v>>
    BY <1>5, <2>2
  <2> QED
    BY <2>1, <2>2
<1>13. Others({p})
  <2>1. \A r \in Proc, x \in Page \ FilePage : r # p => pte'[r][x].w = pte[r][x].w
    BY <1>5
  <2> QED
    BY <1>6, <1>10, <1>12, <2>1 DEF Others, SameFor
<1>14. ShapeAt(p)'
  <2>1. ShapeAt(p)
    BY <1>1 DEF Shape
  <2> QED
    BY <1>10, <2>1 DEF ShapeAt
<1>15. CopyWritableAt(p)' /\ ArgumentsAt(p)'
  BY <1>10 DEF CopyWritableAt, ArgumentsAt
<1>16. Shape' /\ CopyWritable' /\ Arguments'
  BY <1>11, <1>13, <1>14, <1>15, OthersKeep
<1>17. SamePage'
  <2>1. \A r \in Proc, x \in Page : <<r, x>> # <<p, v>> => pte'[r][x].frame \in {pte[r][x].frame, NoFrame}
    BY <1>12
  <2>2. pte'[p][v].frame = pte[q][v].frame /\ pte[q][v].frame # NoFrame
    BY <1>3, <1>4, <1>5, Numbers
  <2>3. \A r \in Proc, x \in Page :
           pte'[r][x].frame = pte'[p][v].frame /\ pte'[p][v].frame # NoFrame => x = v
    <3> TAKE r \in Proc, x \in Page
    <3>1. CASE <<r, x>> = <<p, v>>
      BY <3>1
    <3>2. CASE <<r, x>> # <<p, v>>
      <4>1. pte'[r][x].frame = pte[r][x].frame
        BY <1>12, <3>2
      <4>2. pte'[r][x].frame = pte'[p][v].frame => pte[r][x].frame = pte[q][v].frame /\ pte[r][x].frame # NoFrame
        BY <2>2, <4>1
      <4>3. pte[r][x].frame = pte[q][v].frame /\ pte[r][x].frame # NoFrame => x = v
        <5>1. SamePage /\ q \in Proc /\ v \in Page
          BY <1>1, <1>2, MemoryAssumption
        <5> QED
          BY <5>1 DEF SamePage
      <4> QED
        BY <4>2, <4>3, Zenon
    <3> QED
      BY <3>1, <3>2
  <2> QED
    BY <1>1, <1>2, <2>1, <2>3, SamePageKept
<1> QED
  BY <1>9, <1>11, <1>16, <1>17 DEF IInv

(* do_no_page() has a frame and waits for the disk; or do_execve() has the *)
(* page of the arguments and closes files.                                 *)
LEMMA HoldNewInv ==
  ASSUME IInv, NEW p \in Proc, NEW place \in {"load", "exec"}, NEW v \in Page,
         life[p] = "alive", new[p] = NoFrame, place = "load" => ~Present(p, v) /\ v \in FilePage /\ addr'[p] = v,
         NEW f, f = get_free_page(mem_map), f # NoFrame,
         NEW x \in Content, place = "exec" => x \in Value,
         mem_map' = Taken(mem_map, f), data' = [data EXCEPT ![f] = x],
         new' = WithOwner(new, p, f), Goes(p, v, place), executable' \in [Proc -> Program],
         UNCHANGED <<table, pte, life, task>>
  PROVE  IInv'
<1>1. OtherTypes /\ Shape /\ SamePage /\ Good(mem_map, task, table, new, pte)
  BY DEF IInv, Counted
<1>2. f \in Frame /\ mem_map[f] = 0
  BY GetFreePage
<1>3. /\ new' \in Owners /\ new'[p] = f /\ \A q \in Proc : q # p => new'[q] = new[q]
  BY <1>1, <1>2, SetOwner DEF Good, Typed
<1>4. mem_map' \in Maps /\ \A g \in Frame : mem_map'[g] = IF g = f THEN 1 ELSE mem_map[g]
  BY <1>1, <1>2, SetTaken DEF Good, Typed
<1>5. Good(mem_map', task, table, new', pte)
  BY <1>1, <1>2, <1>3, <1>4, TakeNew
<1>6. Counted'
  BY <1>5 DEF Counted
<1>7. /\ pc' \in [Proc -> {"user", "load", "copy", "exec"}] /\ pc'[p] = place
      /\ addr' \in [Proc -> Page] /\ ret' \in [Proc -> {"user", "copy"}]
      /\ \A q \in Proc : q # p => pc'[q] = pc[q] /\ addr'[q] = addr[q]
  BY <1>1, GoesTo
<1>8. data' \in [Frame -> Content] /\ data'[f] = x /\ \A g \in Frame : g # f => data'[g] = data[g]
  BY <1>1, <1>2 DEF OtherTypes
<1>9. OtherTypes'
  BY <1>1, <1>7, <1>8 DEF OtherTypes
<1>10. \A q \in Proc : new[q] # f
  BY <1>1, <1>2, Referred DEF Nowhere
<1>11. Others({p})
  <2>1. \A q \in Proc : new[q] # NoFrame => new[q] \in Frame
    BY <1>1 DEF Good, Typed, Owners
  <2> QED
    BY <1>3, <1>7, <1>8, <1>10, <2>1 DEF Others, SameFor
<1>12. ShapeAt(p)'
  <2>1. ShapeAt(p)
    BY <1>1 DEF Shape
  <2> QED
    BY <1>2, <1>3, <1>7, <2>1, Numbers DEF ShapeAt, Present
<1>13. CopyWritableAt(p)' /\ ArgumentsAt(p)'
  BY <1>3, <1>7, <1>8 DEF CopyWritableAt, ArgumentsAt
<1>14. Shape' /\ CopyWritable' /\ Arguments'
  BY <1>9, <1>11, <1>12, <1>13, OthersKeep
<1>15. SamePage'
  BY <1>1 DEF SamePage
<1> QED
  BY <1>6, <1>9, <1>14, <1>15 DEF IInv

(* do_no_page() after bread_page(), with memory for the page table.        *)
LEMMA LoadedInv ==
  ASSUME IInv, NEW p \in Proc, life[p] = "alive", pc[p] = "load",
         NEW v \in Page, v = addr[p], NEW f, f = new[p],
         NEW t, t = TableOf(p, v, mem_map), t # NoFrame,
         mem_map' = Taken(mem_map, t), table' = WithTable(table, p, DirOf[v], t),
         pte' = WithEntry(pte, p, v, Fresh(f)),
         data' = [data EXCEPT ![f] = Image(executable[p], v)],
         pc' = [pc EXCEPT ![p] = ret[p]], new' = WithOwner(new, p, NoFrame),
         UNCHANGED <<life, task, executable, addr, ret>>
  PROVE  IInv'
<1>1. OtherTypes /\ Shape /\ SamePage /\ Good(mem_map, task, table, new, pte)
  BY DEF IInv, Counted
<1>2. ShapeAt(p) /\ v \in FilePage /\ pte[p][v].frame = NoFrame
  BY <1>1 DEF Shape, ShapeAt
<1>3. f \in Frame
  BY <1>1, <1>2 DEF ShapeAt, Good, Typed, Owners
<1>4. Fresh(f) \in Entry /\ Fresh(f).frame = f /\ Fresh(f).w
  BY <1>3 DEF Fresh, Entry
<1>5. /\ pte' \in PageTables /\ pte'[p][v] = Fresh(f)
      /\ \A q \in Proc, x \in Page : <<q, x>> # <<p, v>> => pte'[q][x] = pte[q][x]
  <2>1. pte \in PageTables
    BY <1>1 DEF Good, Typed
  <2> QED
    BY <1>4, <2>1, SetEntry
<1>6. new' \in Owners /\ new'[p] = NoFrame /\ \A q \in Proc : q # p => new'[q] = new[q]
  BY <1>1, SetOwner DEF Good, Typed
<1>7. Good(mem_map, task, table, new', pte')
  <2>1. pte'[p][v].frame = f
    BY <1>4, <1>5
  <2> QED
    BY <1>1, <1>2, <1>3, <1>5, <1>6, <2>1, MapNew
<1>8. /\ Good(mem_map', task, table', new', pte')
      /\ \A q \in Proc : q # p => table'[q] = table[q]
  BY <1>7, TableMade
<1>9. Counted'
  BY <1>8 DEF Counted
<1>10. /\ pc' \in [Proc -> {"user", "load", "copy", "exec"}] /\ pc'[p] \in {"user", "copy"}
       /\ \A q \in Proc : q # p => pc'[q] = pc[q]
  BY <1>1 DEF OtherTypes
<1>11. data' \in [Frame -> Content] /\ \A g \in Frame : g # f => data'[g] = data[g]
  <2>1. Image(executable[p], v) \in Content
    BY <1>1, <1>2 DEF OtherTypes, Content
  <2> QED
    BY <1>1, <1>3, <2>1 DEF OtherTypes
<1>12. OtherTypes'
  BY <1>1, <1>10, <1>11 DEF OtherTypes
<1>13. \A q \in Proc : q # p => new[q] # f
  <2>1. mem_map[f] = 1
    BY <1>1, <1>3, Numbers DEF Good, Alone
  <2> QED
    BY <1>1, <1>3, <2>1, Referred DEF OnePlace
<1>14. Others({p})
  <2>1. \A q \in Proc : new[q] # NoFrame => new[q] \in Frame
    BY <1>1 DEF Good, Typed, Owners
  <2> QED
    BY <1>5, <1>6, <1>8, <1>10, <1>11, <1>13, <2>1 DEF Others, SameFor
<1>15. ShapeAt(p)'
  BY <1>2, <1>6, <1>10 DEF ShapeAt
<1>16. CopyWritableAt(p)' /\ ArgumentsAt(p)'
  BY <1>2, <1>10 DEF CopyWritableAt, ArgumentsAt
<1>17. Shape' /\ CopyWritable' /\ Arguments'
  BY <1>12, <1>14, <1>15, <1>16, OthersKeep
<1>18. SamePage'
  <2>1. OnePlace(f, task, table', new', pte')
    BY <1>4, <1>5, <1>8, WritableOnce
  <2>2. \A q \in Proc, x \in Page : pte'[q][x].frame = f => x = v
    BY <1>4, <1>5, <2>1 DEF OnePlace
  <2>3. \A q \in Proc, x \in Page : <<q, x>> # <<p, v>> => pte'[q][x].frame \in {pte[q][x].frame, NoFrame}
    BY <1>5
  <2>4. \A q \in Proc, x \in Page :
           pte'[q][x].frame = pte'[p][v].frame /\ pte'[p][v].frame # NoFrame => x = v
    BY <1>4, <1>5, <2>2
  <2> QED
    BY <1>1, <2>3, <2>4, SamePageKept
<1> QED
  BY <1>9, <1>12, <1>17, <1>18 DEF IInv

(* A write to a page, by the program or by put_fs_byte().                  *)
LEMMA StoreInv ==
  ASSUME IInv, NEW p \in Proc, NEW v \in Page, NEW x \in Value, Present(p, v),
         \/ pc[p] = "user" /\ pc' = pc
         \/ pc[p] = "copy" /\ pc' = [pc EXCEPT ![p] = "user"],
         life[p] = "alive",
         data' = [data EXCEPT ![pte[p][v].frame] = x], pte' = WithDirty(pte, p, v),
         UNCHANGED <<mem_map, table, life, new, task, executable, addr, ret>>
  PROVE  IInv'
<1>1. OtherTypes /\ Shape /\ SamePage /\ Good(mem_map, task, table, new, pte)
  BY DEF IInv, Counted
<1>2. PICK e \in Entry : /\ pte' = WithEntry(pte, p, v, e)
                         /\ e.frame = pte[p][v].frame /\ e.w = pte[p][v].w
  BY <1>1, SetDirty DEF Good, Typed
<1>3. /\ pte' \in PageTables /\ pte'[p][v] = e
      /\ \A q \in Proc, y \in Page : <<q, y>> # <<p, v>> => pte'[q][y] = pte[q][y]
  BY <1>1, <1>2, SetEntry DEF Good, Typed
<1>4. \A q \in Proc, y \in Page : pte'[q][y].frame = pte[q][y].frame /\ pte'[q][y].w = pte[q][y].w
  <2> TAKE q \in Proc, y \in Page
  <2>1. CASE <<q, y>> = <<p, v>>
    BY <1>2, <1>3, <2>1
  <2>2. CASE <<q, y>> # <<p, v>>
    BY <1>3, <2>2
  <2> QED
    BY <2>1, <2>2
<1>5. Good(mem_map, task, table, new, pte')
  <2>1. \A q \in Proc, y \in Page : pte'[q][y].w => pte'[q][y].frame # NoFrame /\ mem_map[pte'[q][y].frame] = 1
    BY <1>1, <1>4 DEF Good, Alone
  <2> QED
    BY <1>1, <1>3, <1>4, <2>1, SameFrames
<1>6. Counted'
  BY <1>5 DEF Counted
<1>7. PICK f \in Frame : f = pte[p][v].frame
  BY <1>1 DEF Present, Good, Typed, PageTables, Entry
<1>8. data' \in [Frame -> Content] /\ \A g \in Frame : g # f => data'[g] = data[g]
  <2>1. x \in Content
    BY DEF Content
  <2> QED
    BY <1>1, <1>7, <2>1 DEF OtherTypes
<1>9. pc' \in [Proc -> {"user", "load", "copy", "exec"}] /\ pc'[p] = "user" /\ \A q \in Proc : q # p => pc'[q] = pc[q]
  BY <1>1 DEF OtherTypes
<1>10. OtherTypes'
  BY <1>1, <1>8, <1>9 DEF OtherTypes
<1>11. \A q \in Proc : new[q] # f
  <2>1. ASSUME NEW q \in Proc, new[q] = f
        PROVE  FALSE
    <3>1. mem_map[f] = 1
      BY <1>1, <2>1, Numbers DEF Good, Alone
    <3>2. OnePlace(f, task, table, new, pte)
      BY <1>1, <3>1, Referred
    <3> QED
      BY <1>7, <2>1, <3>2 DEF OnePlace
  <2> QED
    BY <2>1
<1>12. Others({p})
  <2>1. \A q \in Proc : new[q] # NoFrame => new[q] \in Frame
    BY <1>1 DEF Good, Typed, Owners
  <2> QED
    BY <1>4, <1>8, <1>9, <1>11, <2>1 DEF Others, SameFor
<1>13. ShapeAt(p)'
  <2>1. ShapeAt(p)
    BY <1>1 DEF Shape
  <2> QED
    BY <1>9, <2>1 DEF ShapeAt
<1>14. CopyWritableAt(p)' /\ ArgumentsAt(p)'
  BY <1>9 DEF CopyWritableAt, ArgumentsAt
<1>15. Shape' /\ CopyWritable' /\ Arguments'
  BY <1>10, <1>12, <1>13, <1>14, OthersKeep
<1>16. SamePage'
  BY <1>1, <1>4 DEF SamePage
<1> QED
  BY <1>6, <1>10, <1>15, <1>16 DEF IInv

(* verify_area() of a page that is not there or writable already.          *)
LEMMA VerifiedInv ==
  ASSUME IInv, NEW p \in Proc, NEW v \in Page, User(p), ~Present(p, v) \/ pte[p][v].w,
         Goes(p, v, "copy"), UNCHANGED <<mm, life, new, task, executable>>
  PROVE  IInv'
<1>1. OtherTypes /\ Shape /\ SamePage
  BY DEF IInv
<1>2. /\ pc' \in [Proc -> {"user", "load", "copy", "exec"}] /\ pc'[p] = "copy"
      /\ addr' \in [Proc -> Page] /\ ret' \in [Proc -> {"user", "copy"}]
      /\ \A q \in Proc : q # p => pc'[q] = pc[q] /\ addr'[q] = addr[q]
      /\ addr'[p] = v
  BY <1>1, GoesTo
<1>3. OtherTypes'
  BY <1>1, <1>2 DEF OtherTypes, mm
<1>4. Counted'
  BY DEF IInv, Counted, mm
<1>5. Others({p})
  BY <1>2 DEF Others, SameFor, mm
<1>6. ShapeAt(p)'
  <2>1. ShapeAt(p)
    BY <1>1 DEF Shape
  <2> QED
    BY <1>2, <2>1 DEF ShapeAt, User, mm
<1>7. CopyWritableAt(p)' /\ ArgumentsAt(p)'
  BY <1>2 DEF CopyWritableAt, ArgumentsAt, mm, Present
<1>8. Shape' /\ CopyWritable' /\ Arguments'
  BY <1>3, <1>5, <1>6, <1>7, OthersKeep
<1>9. SamePage'
  BY <1>1 DEF SamePage, mm
<1> QED
  BY <1>3, <1>4, <1>8, <1>9 DEF IInv

(* fork()                                                                  *)
LEMMA ForkInv ==
  ASSUME IInv, NEW p \in Proc, NEW q \in Proc, Fork(p, q)
  PROVE  IInv'
<1> DEFINE f == get_free_page(mem_map)
           t == [d \in Dir |-> IF d \notin Tables(p) THEN NoFrame
                               ELSE Free(mem_map, 1 + Cardinality(TablesBelow(p, d)))]
<1>1. OtherTypes /\ Shape /\ SamePage /\ Good(mem_map, task, table, new, pte)
  BY DEF IInv, Counted
<1>2. /\ User(p) /\ life[q] = "none"
      /\ Cardinality(FreeFrames(mem_map)) > Cardinality(Tables(p))
      /\ task' = [task EXCEPT ![q] = f]
      /\ table' = [table EXCEPT ![q] = t]
      /\ life' = [life EXCEPT ![q] = "alive"]
      /\ executable' = [executable EXCEPT ![q] = executable[p]]
      /\ UNCHANGED <<data, pc, new, addr, ret>>
  BY DEF Fork
<1>3. /\ mem_map' = [g \in Frame |->
            IF g = f \/ \E d \in Dir : t[d] = g THEN 1
            ELSE mem_map[g] + Cardinality({v \in Page : pte[p][v].frame = g})]
  BY DEF Fork
<1>4. pte' = BothProtected(pte, p, q)
  BY DEF Fork, WriteProtected, BothProtected
<1>5. p # q
  BY <1>2 DEF User
<1>6. /\ f \in Frame /\ mem_map[f] = 0
      /\ t \in [Dir -> Frame \cup {NoFrame}]
      /\ \A d \in Dir : t[d] # NoFrame => mem_map[t[d]] = 0 /\ t[d] # f
      /\ \A d, e \in Dir : t[d] = t[e] /\ t[d] # NoFrame => d = e
  <2>1. Typed(mem_map, task, table, new, pte)
    BY <1>1 DEF Good
  <2>2. Cardinality(FreeFrames(mem_map)) > Cardinality(Tables(p))
    BY <1>2
  <2>3. f = get_free_page(mem_map)
    OBVIOUS
  <2>4. t = [d \in Dir |-> IF d \notin Tables(p) THEN NoFrame
                           ELSE Free(mem_map, 1 + Cardinality(TablesBelow(p, d)))]
    OBVIOUS
  <2> HIDE DEF f, t
  <2> QED
    BY ONLY MemoryAssumption, <2>1, <2>2, <2>3, <2>4, ForkTables
<1> HIDE DEF f, t
<1>7. task[q] = NoFrame /\ (\A d \in Dir : table[q][d] = NoFrame) /\ (\A v \in Page : pte[q][v].frame = NoFrame)
  BY <1>1, <1>2 DEF Shape, ShapeAt
<1>8. task' \in Owners /\ task'[q] = f /\ \A r \in Proc : r # q => task'[r] = task[r]
  BY <1>1, <1>2, <1>6 DEF Good, Typed, Owners
<1>9. table' \in Directories /\ table'[q] = t /\ \A r \in Proc : r # q => table'[r] = table[r]
  BY <1>1, <1>2, <1>6 DEF Good, Typed, Directories
<1>10. /\ pte' \in PageTables
       /\ \A v \in Page : pte'[p][v].frame = pte[p][v].frame /\ ~pte'[p][v].w
       /\ \A v \in Page : pte'[q][v].frame = pte[p][v].frame /\ ~pte'[q][v].w
       /\ \A r \in Proc : r # p /\ r # q => pte'[r] = pte[r]
  <2>1. pte \in PageTables
    BY <1>1 DEF Good, Typed
  <2>2. pte' \in PageTables /\ RowsProtected(pte, pte', p, q)
    BY <1>4, <1>5, <2>1, Protected
  <2> QED
    BY <2>2 DEF RowsProtected
<1>11. /\ mem_map' \in [Frame -> Int]
       /\ \A g \in Frame : mem_map'[g] =
             IF g = f \/ \E d \in Dir : t[d] = g THEN 1
             ELSE mem_map[g] + Cardinality({v \in Page : pte[p][v].frame = g})
  <2>1. \A g \in Frame : Cardinality({v \in Page : pte[p][v].frame = g}) \in Nat
    <3> TAKE g \in Frame
    <3>1. IsFiniteSet({v \in Page : pte[p][v].frame = g})
      BY Finite, FS_Subset
    <3> QED
      BY <3>1, FS_CardinalityType
  <2>2. \A g \in Frame : mem_map[g] \in Nat
    BY <1>1 DEF Good, Typed, Maps
  <2> QED
    BY <1>3, <2>1, <2>2
<1>12. Good(mem_map', task', table', new, pte')
  <2>1. Forked(p, q, f, t, mem_map, task, table, pte, mem_map', task', table', pte')
    BY <1>6, <1>7, <1>8, <1>9, <1>10, <1>11 DEF Forked
  <2> QED
    BY <1>1, <1>5, <2>1, CopySpace
<1>13. Counted'
  BY <1>2, <1>12 DEF Counted
<1>14. /\ life' \in [Proc -> {"none", "alive", "zombie"}] /\ life'[q] = "alive"
       /\ \A r \in Proc : r # q => life'[r] = life[r]
  BY <1>1, <1>2 DEF OtherTypes
<1>15. executable' \in [Proc -> Program]
  BY <1>1, <1>2 DEF OtherTypes
<1>16. OtherTypes'
  BY <1>1, <1>2, <1>14, <1>15 DEF OtherTypes
<1>17. Others({p, q})
  BY <1>2, <1>8, <1>9, <1>10, <1>14 DEF Others, SameFor
<1>18. ShapeAt(p)' /\ CopyWritableAt(p)' /\ ArgumentsAt(p)'
  <2>1. ShapeAt(p) /\ life[p] = "alive" /\ pc[p] = "user"
    BY <1>1, <1>2 DEF Shape, User
  <2> QED
    BY <1>2, <1>5, <1>8, <1>14, <2>1 DEF ShapeAt, CopyWritableAt, ArgumentsAt
<1>19. ShapeAt(q)' /\ CopyWritableAt(q)' /\ ArgumentsAt(q)'
  <2>1. ShapeAt(q) /\ pc[q] = "user"
    BY <1>1, <1>2 DEF Shape, ShapeAt
  <2> QED
    BY <1>2, <1>6, <1>8, <1>14, <2>1, Numbers DEF ShapeAt, CopyWritableAt, ArgumentsAt
<1>20. Shape' /\ CopyWritable' /\ Arguments'
  BY <1>16, <1>17, <1>18, <1>19, OthersKeep
<1>21. SamePage'
  <2>1. ASSUME NEW r \in Proc, NEW x \in Page
        PROVE  \E s \in Proc : pte'[r][x].frame = pte[s][x].frame
    <3>1. CASE r = q
      BY <1>10, <3>1
    <3>2. CASE r = p
      BY <1>10, <3>2
    <3>3. CASE r # p /\ r # q
      BY <1>10, <3>3
    <3> QED
      BY <3>1, <3>2, <3>3
  <2> SUFFICES ASSUME NEW r \in Proc, NEW s \in Proc, NEW x \in Page, NEW y \in Page,
                      pte'[r][x].frame = pte'[s][y].frame, pte'[r][x].frame # NoFrame
               PROVE  x = y
    BY DEF SamePage
  <2>2. PICK a \in Proc : pte'[r][x].frame = pte[a][x].frame
    BY <2>1
  <2>3. PICK b \in Proc : pte'[s][y].frame = pte[b][y].frame
    BY <2>1
  <2>4. pte[a][x].frame = pte[b][y].frame /\ pte[a][x].frame # NoFrame
    BY <2>2, <2>3
  <2> QED
    BY <1>1, <2>4 DEF SamePage
<1> QED
  BY <1>13, <1>16, <1>20, <1>21 DEF IInv

(* do_execve(): the old pages and tables are freed, and the arguments are  *)
(* mapped under a new table.                                               *)
LEMMA ExecEndsInv ==
  ASSUME IInv, NEW p \in Proc, ExecEnds(p)
  PROVE  IInv'
<1> DEFINE m == free_page_tables(mem_map, p)
           t == get_free_page(m)
           f == new[p]
           none == WithTables(table, p, [d \in Dir |-> NoFrame])
           empty == WithEntries(pte, p, [v \in Page |-> Absent])
           a == ArgPage
<1>1. OtherTypes /\ Shape /\ SamePage /\ Good(mem_map, task, table, new, pte)
  BY DEF IInv, Counted
<1>2. /\ life[p] = "alive" /\ pc[p] = "exec"
      /\ mem_map' = Taken(m, t)
      /\ table' = [table EXCEPT ![p] = [d \in Dir |-> IF d = DirOf[ArgPage] THEN t ELSE NoFrame]]
      /\ pte' = [pte EXCEPT ![p] = [v \in Page |-> IF v = ArgPage THEN Fresh(new[p]) ELSE Absent]]
      /\ pc' = [pc EXCEPT ![p] = "user"]
      /\ new' = WithOwner(new, p, NoFrame)
      /\ UNCHANGED <<data, life, task, executable, addr, ret>>
  BY DEF ExecEnds, WithOwner
<1>3. f \in Frame
  BY <1>1, <1>2 DEF Shape, ShapeAt, Good, Typed, Owners
<1>4. a \in Page /\ a \notin FilePage /\ DirOf[a] \in Dir
  BY MemoryAssumption DEF Dir
<1>5. /\ none \in Directories /\ \A d \in Dir : none[p][d] = NoFrame
      /\ \A q \in Proc : q # p => none[q] = table[q]
  <2>1. table \in Directories /\ [d \in Dir |-> NoFrame] \in [Dir -> Frame \cup {NoFrame}]
    BY <1>1 DEF Good, Typed
  <2>2. none \in Directories /\ none[p] = [d \in Dir |-> NoFrame] /\ \A q \in Proc : q # p => none[q] = table[q]
    BY <2>1, SetTables
  <2> QED
    BY <2>2
<1>6. /\ empty \in PageTables /\ \A v \in Page : empty[p][v] = Absent
      /\ \A q \in Proc : q # p => empty[q] = pte[q]
  <2>1. pte \in PageTables /\ [v \in Page |-> Absent] \in [Page -> Entry]
    BY <1>1 DEF Good, Typed, Absent, Entry
  <2>2. empty \in PageTables /\ empty[p] = [v \in Page |-> Absent] /\ \A q \in Proc : q # p => empty[q] = pte[q]
    BY <2>1, SetEntries
  <2> QED
    BY <2>2
<1>7. /\ m \in [Frame -> Int]
      /\ \A g \in Frame : m[g] = mem_map[g] - Cardinality({v \in Page : pte[p][v].frame = g})
                                            - Cardinality({d \in Dir : table[p][d] = g})
  <2>1. ASSUME NEW g \in Frame
        PROVE  /\ Cardinality({v \in Page : pte[p][v].frame = g}) \in Nat
               /\ Cardinality({d \in Dir : table[p][d] = g}) \in Nat
               /\ mem_map[g] \in Nat
    <3>1. IsFiniteSet({v \in Page : pte[p][v].frame = g}) /\ IsFiniteSet({d \in Dir : table[p][d] = g})
      BY Finite, FS_Subset
    <3> QED
      BY <1>1, <3>1, FS_CardinalityType DEF Good, Typed, Maps
  <2>2. m = [g \in Frame |-> mem_map[g] - Cardinality({v \in Page : pte[p][v].frame = g})
                                        - Cardinality({d \in Dir : table[p][d] = g})]
    BY DEF free_page_tables
  <2> QED
    BY <2>1, <2>2
<1> HIDE DEF m, t, none, empty
<1>8. Good(m, task, none, new, empty)
  <2>1. Unmapped(p, mem_map, table, pte, m, none, empty)
    BY <1>5, <1>6, <1>7 DEF Unmapped, Absent
  <2> QED
    BY <1>1, <2>1, DropSpace
<1>9. /\ pte' \in PageTables /\ pte'[p][a] = Fresh(f)
      /\ \A v \in Page : v # a => pte'[p][v] = Absent
      /\ \A q \in Proc : q # p => pte'[q] = pte[q]
  <2>1. [v \in Page |-> IF v = ArgPage THEN Fresh(new[p]) ELSE Absent] \in [Page -> Entry]
    <3>1. Fresh(new[p]) \in Entry /\ Absent \in Entry
      BY <1>3 DEF Fresh, Absent, Entry
    <3> QED
      BY <3>1
  <2>2. pte' = WithEntries(pte, p, [v \in Page |-> IF v = ArgPage THEN Fresh(new[p]) ELSE Absent])
    BY <1>2 DEF WithEntries
  <2>3. pte \in PageTables
    BY <1>1 DEF Good, Typed
  <2>4. /\ pte' \in PageTables /\ pte'[p] = [v \in Page |-> IF v = ArgPage THEN Fresh(new[p]) ELSE Absent]
        /\ \A q \in Proc : q # p => pte'[q] = pte[q]
    BY <2>1, <2>2, <2>3, SetEntries
  <2> QED
    BY <1>4, <2>4
<1>10. Fresh(f).frame = f /\ Fresh(f).w
  BY DEF Fresh
<1>11. new' \in Owners /\ new'[p] = NoFrame /\ \A q \in Proc : q # p => new'[q] = new[q]
  <2>1. new \in Owners
    BY <1>1 DEF Good, Typed
  <2> QED
    BY <1>2, <2>1, SetOwner
<1>12. Good(m, task, none, new', pte')
  <2>1. \A q \in Proc, x \in Page : <<q, x>> # <<p, a>> => pte'[q][x] = empty[q][x]
    <3> TAKE q \in Proc, x \in Page
    <3>1. CASE q = p
      BY <1>6, <1>9, <3>1
    <3>2. CASE q # p
      BY <1>6, <1>9, <3>2
    <3> QED
      BY <3>1, <3>2
  <2>2. empty[p][a].frame = NoFrame /\ pte'[p][a].frame = f
    BY <1>4, <1>6, <1>9, <1>10 DEF Absent
  <2> HIDE DEF a
  <2> QED
    BY <1>3, <1>4, <1>8, <1>9, <1>11, <2>1, <2>2, MapNew
<1>13. /\ t \in Frame \cup {NoFrame}
       /\ table' \in Directories /\ table'[p][DirOf[a]] = t
       /\ \A d \in Dir : d # DirOf[a] => table'[p][d] = NoFrame
       /\ \A q \in Proc : q # p => table'[q] = table[q]
  <2>1. t \in Frame \cup {NoFrame}
    BY GetFreePage DEF t
  <2>2. table' = WithTables(table, p, [d \in Dir |-> IF d = DirOf[ArgPage] THEN t ELSE NoFrame])
    BY <1>2 DEF WithTables
  <2>3. table \in Directories
    BY <1>1 DEF Good, Typed
  <2>4. [d \in Dir |-> IF d = DirOf[ArgPage] THEN t ELSE NoFrame] \in [Dir -> Frame \cup {NoFrame}]
    BY <2>1
  <2>5. /\ table' \in Directories /\ table'[p] = [d \in Dir |-> IF d = DirOf[ArgPage] THEN t ELSE NoFrame]
        /\ \A q \in Proc : q # p => table'[q] = table[q]
    BY <2>2, <2>3, <2>4, SetTables
  <2> QED
    BY <1>4, <2>1, <2>5
<1>14. Good(mem_map', task, table', new', pte')
  <2>1. CASE t = NoFrame
    <3>1. table' = none
      <4>1. \A q \in Proc : table'[q] = none[q]
        <5> TAKE q \in Proc
        <5>1. CASE q = p
          <6>1. \A d \in Dir : table'[p][d] = none[p][d]
            BY <1>4, <1>5, <1>13, <2>1
          <6>2. table'[p] \in [Dir -> Frame \cup {NoFrame}] /\ none[p] \in [Dir -> Frame \cup {NoFrame}]
            BY <1>5, <1>13 DEF Directories
          <6> QED
            BY <5>1, <6>1, <6>2
        <5>2. CASE q # p
          BY <1>5, <1>13, <5>2
        <5> QED
          BY <5>1, <5>2
      <4> QED
        BY <1>5, <1>13, <4>1 DEF Directories
    <3>2. mem_map' = m
      BY <1>2, <1>12, <2>1, NoneTaken DEF Good, Typed
    <3> QED
      BY <1>12, <3>1, <3>2
  <2>2. CASE t # NoFrame
    <3>1. t \in Frame /\ m[t] = 0
      BY <2>2, GetFreePage DEF t
    <3>2. mem_map' \in Maps /\ \A g \in Frame : mem_map'[g] = IF g = t THEN 1 ELSE m[g]
      BY <1>2, <1>12, <3>1, SetTaken DEF Good, Typed
    <3> DEFINE d == DirOf[a]
    <3>3. \A q \in Proc, e \in Dir : <<q, e>> # <<p, d>> => table'[q][e] = none[q][e]
      <4> TAKE q \in Proc, e \in Dir
      <4>1. CASE q = p
        BY <1>4, <1>5, <1>13, <4>1
      <4>2. CASE q # p
        BY <1>5, <1>13, <4>2
      <4> QED
        BY <4>1, <4>2
    <3>4. none[p][d] = NoFrame /\ d \in Dir /\ table'[p][d] = t
      BY <1>4, <1>5, <1>13
    <3> HIDE DEF d
    <3> QED
      BY <1>12, <1>13, <3>1, <3>2, <3>3, <3>4, TakeTable
  <2> QED
    BY <2>1, <2>2
<1>15. Counted'
  BY <1>2, <1>14 DEF Counted
<1>16. /\ pc' \in [Proc -> {"user", "load", "copy", "exec"}] /\ pc'[p] = "user"
       /\ \A q \in Proc : q # p => pc'[q] = pc[q]
  BY <1>1, <1>2 DEF OtherTypes
<1>17. OtherTypes'
  BY <1>1, <1>2, <1>16 DEF OtherTypes
<1>18. Others({p})
  BY <1>2, <1>9, <1>11, <1>13, <1>16 DEF Others, SameFor
<1>19. ShapeAt(p)'
  <2>1. ShapeAt(p)
    BY <1>1 DEF Shape
  <2> QED
    BY <1>2, <1>11, <1>16, <2>1 DEF ShapeAt
<1>20. CopyWritableAt(p)' /\ ArgumentsAt(p)'
  BY <1>16 DEF CopyWritableAt, ArgumentsAt
<1>21. Shape' /\ CopyWritable' /\ Arguments'
  BY <1>17, <1>18, <1>19, <1>20, OthersKeep
<1>22. SamePage'
  <2>1. OnePlace(f, task, table', new', pte')
    BY <1>4, <1>9, <1>10, <1>14, WritableOnce
  <2>2. \A q \in Proc, x \in Page : pte'[q][x].frame = f => x = a
    BY <1>4, <1>9, <1>10, <2>1 DEF OnePlace
  <2>3. \A q \in Proc, x \in Page : <<q, x>> # <<p, a>> => pte'[q][x].frame \in {pte[q][x].frame, NoFrame}
    <3> TAKE q \in Proc, x \in Page
    <3>1. CASE q = p
      BY <1>9, <3>1 DEF Absent
    <3>2. CASE q # p
      BY <1>9, <3>2
    <3> QED
      BY <3>1, <3>2
  <2>4. \A q \in Proc, x \in Page :
           pte'[q][x].frame = pte'[p][a].frame /\ pte'[p][a].frame # NoFrame => x = a
    BY <1>9, <1>10, <2>2
  <2> HIDE DEF a
  <2> QED
    BY <1>1, <1>4, <2>3, <2>4, SamePageKept
<1> QED
  BY <1>15, <1>17, <1>21, <1>22 DEF IInv

(* release()                                                               *)
LEMMA ReleaseInv ==
  ASSUME IInv, NEW p \in Proc, Release(p)
  PROVE  IInv'
<1>1. OtherTypes /\ Shape /\ SamePage /\ Good(mem_map, task, table, new, pte)
  BY DEF IInv, Counted
<1>2. /\ life[p] = "zombie"
      /\ life' = [life EXCEPT ![p] = "none"]
      /\ mem_map' = free_page(mem_map, task[p])
      /\ task' = WithOwner(task, p, NoFrame)
      /\ UNCHANGED <<data, table, pte, executable, pc, new, addr, ret>>
  BY DEF Release, WithOwner
<1>3. PICK f \in Frame : f = task[p]
  <2>1. task[p] # NoFrame
    BY <1>1, <1>2 DEF Shape, ShapeAt
  <2> QED
    BY <1>1, <2>1 DEF Good, Typed, Owners
<1>4. task' \in Owners /\ task'[p] = NoFrame /\ \A q \in Proc : q # p => task'[q] = task[q]
  BY <1>1, <1>2, SetOwner DEF Good, Typed
<1>5. /\ mem_map' \in [Frame -> Int]
      /\ \A g \in Frame : mem_map'[g] = IF g = f THEN mem_map[g] - 1 ELSE mem_map[g]
  BY <1>1, <1>2, <1>3, SetFreed DEF Good, Typed
<1>6. Good(mem_map', task', table, new, pte)
  BY <1>1, <1>3, <1>4, <1>5, DropTask
<1>7. Counted'
  BY <1>2, <1>6 DEF Counted
<1>8. /\ life' \in [Proc -> {"none", "alive", "zombie"}] /\ life'[p] = "none"
      /\ \A q \in Proc : q # p => life'[q] = life[q]
  BY <1>1, <1>2 DEF OtherTypes
<1>9. OtherTypes'
  BY <1>1, <1>2, <1>8 DEF OtherTypes
<1>10. Others({p})
  BY <1>2, <1>4, <1>8 DEF Others, SameFor
<1>11. ShapeAt(p)' /\ CopyWritableAt(p)' /\ ArgumentsAt(p)'
  <2>1. ShapeAt(p)
    BY <1>1 DEF Shape
  <2> QED
    BY <1>2, <1>4, <1>8, <2>1 DEF ShapeAt, CopyWritableAt, ArgumentsAt
<1>12. Shape' /\ CopyWritable' /\ Arguments'
  BY <1>9, <1>10, <1>11, OthersKeep
<1>13. SamePage'
  BY <1>1, <1>2 DEF SamePage
<1> QED
  BY <1>7, <1>9, <1>12, <1>13 DEF IInv

-----------------------------------------------------------------------------
(* The invariant holds at first and every step keeps it *)

LEMMA InitCounts ==
  ASSUME Init
  PROVE  Counted
<1> DEFINE T == NFrame
           R == NFrame - 1
           S == NFrame - 2
           b == DirOf[ArgPage]
<1>1. /\ NFrame \in Nat /\ NFrame >= 3 /\ 1 \in Proc /\ ArgPage \in Page /\ b \in Dir
      /\ T \in Frame /\ R \in Frame /\ S \in Frame /\ Proc \subseteq Nat
  BY MemoryAssumption DEF Proc, Frame, Dir
<1>2. /\ mem_map = [f \in Frame |-> IF f > NFrame - 3 THEN 1 ELSE 0]
      /\ task = [p \in Proc |-> IF p = 1 THEN T ELSE NoFrame]
      /\ table = [p \in Proc |-> [d \in Dir |-> IF p = 1 /\ d = b THEN R ELSE NoFrame]]
      /\ pte = [p \in Proc |-> [v \in Page |-> IF p = 1 /\ v = ArgPage THEN Fresh(S) ELSE Absent]]
      /\ new = [p \in Proc |-> NoFrame]
  BY DEF Init, Fresh
<1>3. T # R /\ T # S /\ R # S /\ \A f \in Frame : f > NFrame - 3 <=> f \in {T, R, S}
  BY <1>1 DEF Frame
<1>4. /\ Fresh(S).frame = S /\ Fresh(S) \in Entry /\ Fresh(S).w
      /\ Absent.frame = NoFrame /\ Absent \in Entry /\ ~Absent.w
  BY <1>1 DEF Fresh, Absent, Entry
<1> HIDE DEF T, R, S, b
<1>5. \A f \in Frame : mem_map[f] = IF f \in {T, R, S} THEN 1 ELSE 0
  BY <1>2, <1>3
<1>6. Typed(mem_map, task, table, new, pte)
  <2>1. mem_map \in Maps
    BY <1>2 DEF Maps
  <2>2. task \in Owners /\ new \in Owners
    BY <1>1, <1>2 DEF Owners
  <2>3. table \in Directories
    BY <1>1, <1>2 DEF Directories
  <2>4. pte \in PageTables
    BY <1>2, <1>4 DEF PageTables
  <2> QED
    BY <2>1, <2>2, <2>3, <2>4 DEF Typed
<1>7. Exact(mem_map, task, table, new, pte)
  <2> SUFFICES ASSUME NEW f \in Frame
               PROVE  mem_map[f] = Cardinality(Cells(task, f)) + Cardinality(TableCells(table, f))
                                   + Cardinality(Cells(new, f)) + Cardinality(PageCells(pte, f))
    BY DEF Exact
  <2>1. Cardinality(Cells(task, f)) = IF f = T THEN 1 ELSE 0
    <3>1. Cells(task, f) = IF f = T THEN {1} ELSE {}
      BY <1>1, <1>2, Numbers DEF Cells
    <3> QED
      BY <3>1, FS_EmptySet, FS_Singleton
  <2>2. Cardinality(TableCells(table, f)) = IF f = R THEN 1 ELSE 0
    <3>1. TableCells(table, f) = IF f = R THEN {<<1, b>>} ELSE {}
      BY <1>1, <1>2, Numbers DEF TableCells
    <3> QED
      BY <3>1, FS_EmptySet, FS_Singleton
  <2>3. Cardinality(Cells(new, f)) = 0
    <3>1. Cells(new, f) = {}
      BY <1>2, Numbers DEF Cells
    <3> QED
      BY <3>1, FS_EmptySet
  <2>4. Cardinality(PageCells(pte, f)) = IF f = S THEN 1 ELSE 0
    <3>1. PageCells(pte, f) = IF f = S THEN {<<1, ArgPage>>} ELSE {}
      BY <1>1, <1>2, <1>4, Numbers DEF PageCells
    <3> QED
      BY <3>1, FS_EmptySet, FS_Singleton
  <2> QED
    BY <1>3, <1>5, <2>1, <2>2, <2>3, <2>4
<1>8. Alone(mem_map, task, table, new, pte)
  BY <1>1, <1>2, <1>4, <1>5, Numbers DEF Alone
<1> QED
  BY <1>6, <1>7, <1>8 DEF Counted, Good

LEMMA InitInv ==
  ASSUME Init
  PROVE  IInv
<1>1. OtherTypes
  BY MemoryAssumption DEF Init, OtherTypes, Content
<1>2. Counted
  BY InitCounts
<1>3. Shape
  <2>1. NFrame \in Frame /\ 1 \in Proc
    BY MemoryAssumption DEF Frame, Proc
  <2> QED
    BY <2>1, Numbers DEF Init, Shape, ShapeAt, Absent
<1>4. SamePage
  BY DEF Init, SamePage, Absent
<1>5. CopyWritable /\ Arguments
  BY DEF Init, CopyWritable, Arguments
<1> QED
  BY <1>1, <1>2, <1>3, <1>4, <1>5 DEF IInv

(* A fault at a page that is not there.                                    *)
LEMMA NoPageInv ==
  ASSUME IInv, NEW p \in Proc, NEW v \in Page, NEW then \in {"user", "copy"},
         life[p] = "alive", pc[p] \in {"user", "copy"}, ~Present(p, v),
         do_no_page(p, v, then), UNCHANGED <<task, executable>>
  PROVE  IInv'
<1>1. OtherTypes /\ ShapeAt(p)
  BY DEF IInv, Shape
<1>2. new[p] = NoFrame
  BY <1>1 DEF ShapeAt
<1>3. addr' = [addr EXCEPT ![p] = v] /\ ret' = [ret EXCEPT ![p] = then]
  BY DEF do_no_page
<1>4. /\ addr' \in [Proc -> Page] /\ addr'[p] = v /\ \A q \in Proc : q # p => addr'[q] = addr[q]
      /\ ret' \in [Proc -> {"user", "copy"}]
  BY <1>1, <1>3 DEF OtherTypes
<1>5. ASSUME oom(p, mem_map)
      PROVE  IInv'
  <2>1. do_exit(p, mem_map)
    BY <1>5 DEF oom
  <2> QED
    BY <1>2, <1>4, <2>1, DeathInv
<1>6. CASE v \notin FilePage /\ get_empty_page(p, v, then)
  <2> DEFINE f == get_free_page(mem_map)
             m == Taken(mem_map, f)
             t == TableOf(p, v, m)
  <2>1. CASE oom(p, mem_map)
    BY <1>5, <2>1
  <2>2. CASE ~oom(p, mem_map)
    <3>1. /\ f # NoFrame /\ t # NoFrame
          /\ mem_map' = Taken(m, t) /\ table' = WithTable(table, p, DirOf[v], t)
          /\ pte' = WithEntry(pte, p, v, Fresh(f)) /\ data' = [data EXCEPT ![f] = Zero]
          /\ pc' = [pc EXCEPT ![p] = then] /\ UNCHANGED <<life, new>>
      BY <1>6, <2>2 DEF get_empty_page, put_page, HasRoom, WithTable, WithEntry
    <3>2. Goes(p, v, then)
      BY <1>4, <3>1 DEF Goes
    <3> HIDE DEF f, m, t
    <3>3. f = get_free_page(mem_map) /\ m = Taken(mem_map, f) /\ t = TableOf(p, v, m)
      BY DEF f, m, t
    <3> QED
      BY <3>1, <3>2, <3>3, EmptyPageInv
  <2> QED
    BY <2>1, <2>2
<1>7. CASE v \in FilePage /\ Clean(p, v) # {}
           /\ try_to_share(p, v, CHOOSE q \in Clean(p, v) : \A r \in Clean(p, v) : r <= q, then)
  <2>1. PICK q \in Clean(p, v) : try_to_share(p, v, q, then)
    <3>1. Clean(p, v) \subseteq Proc
      BY DEF Clean
    <3> QED
      BY <1>7, <3>1, LastTask
  <2> DEFINE entry == [pte[q][v] EXCEPT !.w = FALSE]
             t == TableOf(p, v, mem_map)
  <2>2. CASE oom(p, mem_map)
    BY <1>5, <2>2
  <2>3. CASE ~oom(p, mem_map)
    <3>1. /\ t # NoFrame
          /\ table' = WithTable(table, p, DirOf[v], t)
          /\ pte' = WithEntry(WithEntry(pte, q, v, entry), p, v, entry)
          /\ pc' = [pc EXCEPT ![p] = then] /\ UNCHANGED <<data, life, new>>
      BY <2>1, <2>3 DEF try_to_share, HasRoom, WithTable, WithEntry
    <3>2. Goes(p, v, then)
      BY <1>4, <3>1 DEF Goes
    <3>3. entry \in Entry /\ entry.frame = pte[q][v].frame /\ ~entry.w /\ entry.frame \in Frame
      <4>1. pte[q][v] \in Entry /\ pte[q][v].frame # NoFrame
        BY DEF IInv, Counted, Good, Typed, PageTables, Clean, Present
      <4> QED
        BY <4>1 DEF Entry
    <3>4. mem_map' = [Taken(mem_map, t) EXCEPT ![entry.frame] = @ + 1]
      BY <2>1, <2>3 DEF try_to_share
    <3> HIDE DEF entry, t
    <3>5. t = TableOf(p, v, mem_map)
      BY DEF t
    <3>6. Taken(mem_map, t) \in Maps
      BY DEF IInv, Counted, Good, Typed, Maps, Taken
    <3>7. /\ mem_map' \in Maps
          /\ \A g \in Frame : mem_map'[g] =
                IF g = entry.frame THEN Taken(mem_map, t)[g] + 1 ELSE Taken(mem_map, t)[g]
      <4> DEFINE m == Taken(mem_map, t)
      <4>1. mem_map' = [m EXCEPT ![entry.frame] = m[entry.frame] + 1] /\ m \in Maps
        BY <3>6, <3>4
      <4> HIDE DEF m
      <4>2. /\ mem_map' \in Maps
            /\ \A g \in Frame : mem_map'[g] = IF g = entry.frame THEN m[g] + 1 ELSE m[g]
        BY <3>3, <4>1 DEF Maps
      <4> QED
        BY <4>2 DEF m
    <3> QED
      BY <1>7, <3>1, <3>2, <3>3, <3>5, <3>7, ShareInv
  <2> QED
    BY <2>2, <2>3
<1>8. CASE /\ v \in FilePage /\ Clean(p, v) = {}
           /\ \/ /\ get_free_page(mem_map) # NoFrame
                 /\ mem_map' = Taken(mem_map, get_free_page(mem_map))
                 /\ data' = [data EXCEPT ![get_free_page(mem_map)] = Zero]
                 /\ new' = [new EXCEPT ![p] = get_free_page(mem_map)]
                 /\ pc' = [pc EXCEPT ![p] = "load"]
                 /\ UNCHANGED <<table, pte, life>>
              \/ get_free_page(mem_map) = NoFrame /\ oom(p, mem_map)
  <2> DEFINE f == get_free_page(mem_map)
  <2>1. CASE oom(p, mem_map)
    BY <1>5, <2>1
  <2>2. CASE ~oom(p, mem_map)
    <3>1. /\ f # NoFrame /\ mem_map' = Taken(mem_map, f) /\ data' = [data EXCEPT ![f] = Zero]
          /\ new' = WithOwner(new, p, f) /\ pc' = [pc EXCEPT ![p] = "load"]
          /\ UNCHANGED <<table, pte, life>>
      BY <1>8, <2>2 DEF WithOwner
    <3>2. Goes(p, v, "load")
      BY <1>4, <3>1 DEF Goes
    <3>3. executable' \in [Proc -> Program] /\ Zero \in Content
      BY <1>1 DEF OtherTypes, Content
    <3> HIDE DEF f
    <3>4. f = get_free_page(mem_map)
      BY DEF f
    <3> QED
      BY <1>2, <1>4, <1>8, <3>1, <3>2, <3>3, <3>4, HoldNewInv
  <2> QED
    BY <2>1, <2>2
<1> QED
  BY <1>6, <1>7, <1>8 DEF do_no_page

(* A write to a protected page.                                            *)
LEMMA ProtectedPageInv ==
  ASSUME IInv, NEW p \in Proc, NEW v \in Page, NEW then \in {"user", "copy"},
         User(p), Present(p, v), un_wp_page(p, v, then),
         addr' \in [Proc -> Page], \A q \in Proc : q # p => addr'[q] = addr[q],
         then = "copy" => addr'[p] = v,
         ret' \in [Proc -> {"user", "copy"}], UNCHANGED <<task, executable>>
  PROVE  IInv'
<1> DEFINE old == pte[p][v].frame
           f == get_free_page(mem_map)
<1>1. CASE /\ SoleOwner(old) /\ pte' = [pte EXCEPT ![p][v].w = TRUE]
           /\ pc' = [pc EXCEPT ![p] = then] /\ UNCHANGED <<mem_map, data, table, life, new>>
  <2>1. pte' = WithWritable(pte, p, v) /\ Goes(p, v, then)
    BY <1>1 DEF WithWritable, Goes
  <2> QED
    BY <1>1, <2>1, MakeWritableInv
<1>2. CASE /\ ~SoleOwner(old) /\ f # NoFrame
           /\ mem_map' = free_page(Taken(mem_map, f), old)
           /\ pte' = [pte EXCEPT ![p][v] = Fresh(f)]
           /\ data' = [data EXCEPT ![f] = data[old]]
           /\ pc' = [pc EXCEPT ![p] = then] /\ UNCHANGED <<table, life, new>>
  <2>1. pte' = WithEntry(pte, p, v, Fresh(f)) /\ Goes(p, v, then)
    BY <1>2 DEF WithEntry, Goes
  <2> HIDE DEF f
  <2>2. f = get_free_page(mem_map)
    BY DEF f
  <2>3. /\ ~SoleOwner(pte[p][v].frame) /\ f # NoFrame
        /\ mem_map' = free_page(Taken(mem_map, f), pte[p][v].frame)
        /\ data' = [data EXCEPT ![f] = data[pte[p][v].frame]]
        /\ UNCHANGED <<table, life, new>>
    BY <1>2
  <2> QED
    BY <2>1, <2>2, <2>3, CopyOnWriteInv
<1>3. CASE oom(p, mem_map)
  <2>1. do_exit(p, mem_map) /\ life[p] = "alive" /\ pc[p] = "user"
    BY <1>3 DEF oom, User
  <2>2. new[p] = NoFrame
    BY <2>1 DEF IInv, Shape, ShapeAt
  <2> QED
    BY <2>1, <2>2, DeathInv
<1> QED
  BY <1>1, <1>2, <1>3 DEF un_wp_page

LEMMA StepInv ==
  ASSUME IInv, [Next]_vars
  PROVE  IInv'
<1>1. OtherTypes /\ Shape
  BY DEF IInv
<1>2. CASE UNCHANGED vars
  BY <1>2 DEF IInv, OtherTypes, Counted, Shape, ShapeAt, SamePage, CopyWritable, Arguments, vars, mm
<1>3. ASSUME NEW p \in Proc, NEW v \in Page, page_fault(p, v)
      PROVE  IInv'
  <2>1. life[p] = "alive" /\ pc[p] = "user" /\ UNCHANGED <<task, executable>>
    BY <1>3 DEF page_fault, User
  <2>2. CASE ~Present(p, v) /\ do_no_page(p, v, "user")
    BY <2>1, <2>2, NoPageInv
  <2>3. CASE Present(p, v) /\ un_wp_page(p, v, "user") /\ UNCHANGED <<addr, ret>>
    <3>1. /\ addr' \in [Proc -> Page] /\ \A q \in Proc : q # p => addr'[q] = addr[q]
          /\ ret' \in [Proc -> {"user", "copy"}]
      BY <1>1, <2>3 DEF OtherTypes
    <3> QED
      BY <2>1, <2>3, <3>1, ProtectedPageInv DEF User
  <2> QED
    BY <1>3, <2>2, <2>3 DEF page_fault
<1>4. ASSUME NEW p \in Proc, NEW v \in Page, verify_area(p, v)
      PROVE  IInv'
  <2>1. User(p) /\ addr' = [addr EXCEPT ![p] = v] /\ UNCHANGED <<task, executable, ret>>
    BY <1>4 DEF verify_area
  <2>2. /\ addr' \in [Proc -> Page] /\ addr'[p] = v /\ \A q \in Proc : q # p => addr'[q] = addr[q]
        /\ ret' \in [Proc -> {"user", "copy"}]
    BY <1>1, <2>1 DEF OtherTypes
  <2>3. UNCHANGED <<task, executable>>
    BY <2>1
  <2>4. CASE Present(p, v) /\ un_wp_page(p, v, "copy")
    BY <1>4, <2>2, <2>3, <2>4, ProtectedPageInv DEF verify_area
  <2>5. CASE /\ ~Present(p, v) \/ pte[p][v].w
             /\ pc' = [pc EXCEPT ![p] = "copy"] /\ UNCHANGED <<mm, life, new>>
    <3>1. Goes(p, v, "copy")
      BY <2>2, <2>5 DEF Goes
    <3> QED
      BY <1>4, <2>3, <2>5, <3>1, VerifiedInv DEF verify_area
  <2> QED
    BY <1>4, <2>4, <2>5 DEF verify_area
<1>5. ASSUME NEW p \in Proc, NEW v \in Page, NEW x \in Value, UserStore(p, v, x)
      PROVE  IInv'
  <2>1. /\ life[p] = "alive" /\ pc[p] = "user" /\ Present(p, v)
        /\ data' = [data EXCEPT ![pte[p][v].frame] = x] /\ pte' = WithDirty(pte, p, v)
        /\ pc' = pc /\ UNCHANGED <<mem_map, table, life, new, task, executable, addr, ret>>
    BY <1>5 DEF UserStore, User, Store, WithDirty
  <2> QED
    BY <2>1, StoreInv
<1>6. ASSUME NEW p \in Proc, NEW x \in Value, put_fs(p, x)
      PROVE  IInv'
  <2> DEFINE v == addr[p]
  <2>1. v \in Page /\ life[p] = "alive" /\ pc[p] = "copy"
    BY <1>1, <1>6 DEF OtherTypes, put_fs
  <2>2. CASE /\ Present(p, v) /\ Store(p, v, x) /\ pc' = [pc EXCEPT ![p] = "user"]
             /\ UNCHANGED <<addr, ret>>
    <3>1. /\ Present(p, v)
          /\ data' = [data EXCEPT ![pte[p][v].frame] = x] /\ pte' = WithDirty(pte, p, v)
          /\ pc' = [pc EXCEPT ![p] = "user"]
          /\ UNCHANGED <<mem_map, table, life, new, task, executable, addr, ret>>
      BY <1>6, <2>2 DEF put_fs, Store, WithDirty
    <3> HIDE DEF v
    <3> QED
      BY <2>1, <3>1, StoreInv
  <2>3. CASE ~Present(p, v) /\ do_no_page(p, v, "copy")
    <3>1. UNCHANGED <<task, executable>>
      BY <1>6 DEF put_fs
    <3> HIDE DEF v
    <3> QED
      BY <2>1, <2>3, <3>1, NoPageInv
  <2> QED
    BY <1>6, <2>2, <2>3 DEF put_fs
<1>7. ASSUME NEW p \in Proc, Loaded(p)
      PROVE  IInv'
  <2> DEFINE v == addr[p]
             f == new[p]
             t == TableOf(p, v, mem_map)
  <2>1. v \in Page /\ life[p] = "alive" /\ pc[p] = "load" /\ f # NoFrame
    BY <1>1, <1>7 DEF OtherTypes, Loaded, Shape, ShapeAt
  <2>2. CASE oom(p, free_page(mem_map, f))
    <3>1. /\ do_exit(p, free_page(mem_map, f)) /\ UNCHANGED <<task, executable>>
          /\ addr' \in [Proc -> Page] /\ \A q \in Proc : q # p => addr'[q] = addr[q]
          /\ ret' \in [Proc -> {"user", "copy"}]
      BY <1>1, <1>7, <2>2 DEF Loaded, oom, OtherTypes
    <3> QED
      BY <2>1, <3>1, DeathInv
  <2>3. CASE ~oom(p, free_page(mem_map, f))
    <3>1. /\ t # NoFrame /\ mem_map' = Taken(mem_map, t)
          /\ table' = WithTable(table, p, DirOf[v], t)
          /\ pte' = WithEntry(pte, p, v, Fresh(f))
          /\ data' = [data EXCEPT ![f] = Image(executable[p], v)]
          /\ pc' = [pc EXCEPT ![p] = ret[p]] /\ new' = WithOwner(new, p, NoFrame)
          /\ UNCHANGED <<life, task, executable, addr, ret>>
      BY <1>7, <2>3 DEF Loaded, HasRoom, put_page, WithTable, WithEntry, WithOwner
    <3>2. v = addr[p] /\ f = new[p] /\ t = TableOf(p, v, mem_map)
      OBVIOUS
    <3> HIDE DEF v, f, t
    <3> QED
      BY <2>1, <3>1, <3>2, LoadedInv
  <2> QED
    BY <2>2, <2>3
<1>8. ASSUME NEW p \in Proc, NEW e \in Program, NEW x \in Value, ExecBegins(p, e, x)
      PROVE  IInv'
  <2> DEFINE f == get_free_page(mem_map)
             v == addr[p]
  <2>1. /\ life[p] = "alive" /\ pc[p] = "user" /\ f # NoFrame
        /\ mem_map' = Taken(mem_map, f) /\ data' = [data EXCEPT ![f] = x]
        /\ new' = WithOwner(new, p, f) /\ pc' = [pc EXCEPT ![p] = "exec"]
        /\ UNCHANGED <<table, pte, life, task>>
    BY <1>8 DEF ExecBegins, User, WithOwner
  <2>2. v \in Page /\ new[p] = NoFrame /\ x \in Content
    BY <1>1, <2>1 DEF OtherTypes, Shape, ShapeAt, Content
  <2>3. executable' \in [Proc -> Program]
    BY <1>1, <1>8 DEF OtherTypes, ExecBegins
  <2>4. Goes(p, v, "exec")
    BY <1>1, <1>8, <2>1 DEF Goes, OtherTypes, ExecBegins
  <2> HIDE DEF f, v
  <2>5. f = get_free_page(mem_map)
    BY DEF f
  <2> QED
    BY <2>1, <2>2, <2>3, <2>4, <2>5, HoldNewInv
<1>9. ASSUME NEW p \in Proc, Exit(p)
      PROVE  IInv'
  <2>1. /\ life[p] = "alive" /\ new[p] = NoFrame /\ do_exit(p, mem_map)
        /\ addr' \in [Proc -> Page] /\ \A q \in Proc : q # p => addr'[q] = addr[q]
        /\ ret' \in [Proc -> {"user", "copy"}] /\ UNCHANGED <<task, executable>>
    BY <1>1, <1>9 DEF Exit, User, Shape, ShapeAt, OtherTypes
  <2> QED
    BY <2>1, DeathInv
<1> QED
  BY <1>2, <1>3, <1>4, <1>5, <1>6, <1>7, <1>8, <1>9, ForkInv, ExecEndsInv, ReleaseInv DEF Next

LEMMA Invariant == Spec => []IInv
BY InitInv, StepInv, PTL DEF Spec

(* The state of mm/memory.c and of the processes that use it has its type, *)
(* and no reference count becomes negative.                                *)
THEOREM TypeCorrect == Spec => []TypeOK
BY Invariant, InvariantTypes, PTL

(* mem_map of mm/memory.c is exact for any number of processes, frames and *)
(* pages: get_free_page(), put_page(), un_wp_page(), try_to_share(),       *)
(* copy_page_tables(), free_page_tables() and free_page() keep the count   *)
(* of each frame equal to the number of task structures, page tables,      *)
(* pages being loaded and page table entries that refer to it, whichever   *)
(* of them finds memory full.                                              *)
THEOREM CountsExact == Spec => []RefCountExact
BY Invariant, InvariantExact, PTL

(* A page whose R/W bit is set has one owner: copy_page_tables() and       *)
(* try_to_share() take the right to write from both processes, and         *)
(* un_wp_page() gives it back to a sole owner or to a copy only.           *)
THEOREM WritableAlone == Spec => []WritableIsPrivate
BY Invariant, InvariantPrivate, PTL

-----------------------------------------------------------------------------
(* The refinement of AddressSpace: what a process finds at each page       *)

P == Page \ FilePage
M == [p \in Proc |-> Private(p)]

Lost(p) == life[p] # "alive" \/ pc[p] = "exec"
View(p, v) == IF Present(p, v) THEN data[pte[p][v].frame] ELSE Zero

Keeps(p) == (Lost(p)' <=> Lost(p)) /\ (~Lost(p) => \A v \in P : View(p, v)' = View(p, v))

LEMMA PrivateIs ==
  ASSUME NEW p \in Proc
  PROVE  /\ M[p] = IF Lost(p) THEN << >> ELSE [v \in P |-> View(p, v)]
         /\ M'[p] = IF Lost(p)' THEN << >> ELSE [v \in P |-> View(p, v)']
BY DEF M, Private, Lost, View, P

LEMMA HasMemory ==
  ASSUME NEW p \in Proc
  PROVE  Memory!Has(p) <=> ~Lost(p)
<1>1. M[p] = IF Lost(p) THEN << >> ELSE [v \in P |-> View(p, v)]
  BY PrivateIs
<1>2. ArgPage \in P
  BY MemoryAssumption DEF P
<1>3. [v \in P |-> View(p, v)] # << >>
  <2>1. DOMAIN [v \in P |-> View(p, v)] = P
    OBVIOUS
  <2>2. DOMAIN << >> = {}
    OBVIOUS
  <2> QED
    BY <1>2, <2>1, <2>2
<1> QED
  BY <1>1, <1>3 DEF Memory!Has, Memory!None, M

LEMMA KeepsMemory ==
  ASSUME NEW p \in Proc, Keeps(p)
  PROVE  M'[p] = M[p]
<1>1. CASE Lost(p)
  BY <1>1, PrivateIs DEF Keeps
<1>2. CASE ~Lost(p)
  <2>1. [v \in P |-> View(p, v)'] = [v \in P |-> View(p, v)]
    BY <1>2 DEF Keeps
  <2> QED
    BY <1>2, <2>1, PrivateIs DEF Keeps
<1> QED
  BY <1>1, <1>2

LEMMA Functions ==
  ASSUME NEW p \in Proc, NEW r, \A q \in Proc : q # p => M'[q] = M[q], M'[p] = r
  PROVE  M' = [M EXCEPT ![p] = r]
<1>1. M = [q \in Proc |-> M[q]] /\ M' = [q \in Proc |-> M'[q]]
  BY DEF M
<1> QED
  BY <1>1

(* The four steps of the abstract specification, and the step that changes *)
(* nothing.                                                                *)
LEMMA Stutters ==
  ASSUME \A q \in Proc : Keeps(q)
  PROVE  M' = M
<1>1. \A q \in Proc : M'[q] = M[q]
  BY KeepsMemory
<1>2. M = [q \in Proc |-> M[q]] /\ M' = [q \in Proc |-> M'[q]]
  BY DEF M
<1> QED
  BY <1>1, <1>2

LEMMA Loses ==
  ASSUME NEW p \in Proc, ~Lost(p), Lost(p)', \A q \in Proc : q # p => Keeps(q)
  PROVE  Memory!Next
<1>1. M'[p] = << >>
  BY PrivateIs
<1>2. M' = [M EXCEPT ![p] = << >>]
  BY <1>1, KeepsMemory, Functions
<1>3. Memory!Lose(p)
  BY <1>2, HasMemory DEF Memory!Lose, Memory!None, M
<1> QED
  BY <1>3 DEF Memory!Next

LEMMA Writes ==
  ASSUME NEW p \in Proc, NEW v \in P, NEW x \in Value, ~Lost(p), ~Lost(p)', View(p, v)' = x,
         \A y \in P : y # v => View(p, y)' = View(p, y), \A q \in Proc : q # p => Keeps(q)
  PROVE  Memory!Next
<1>1. M[p] = [y \in P |-> View(p, y)] /\ M'[p] = [y \in P |-> View(p, y)']
  BY PrivateIs
<1>2. M'[p] = [M[p] EXCEPT ![v] = x]
  BY <1>1
<1>3. M' = [M EXCEPT ![p] = [M[p] EXCEPT ![v] = x]]
  BY <1>2, KeepsMemory, Functions
<1>4. M' = [M EXCEPT ![p][v] = x]
  BY <1>3
<1>5. Memory!Write(p, v, x)
  BY <1>4, HasMemory DEF Memory!Write, M
<1> QED
  BY <1>5 DEF Memory!Next, P

LEMMA Forks ==
  ASSUME NEW p \in Proc, NEW q \in Proc, ~Lost(p), Lost(q), ~Lost(q)',
         \A y \in P : View(q, y)' = View(p, y), \A r \in Proc : r # q => Keeps(r)
  PROVE  Memory!Next
<1>1. M[p] = [y \in P |-> View(p, y)] /\ M'[q] = [y \in P |-> View(q, y)']
  BY PrivateIs
<1>2. M'[q] = M[p]
  BY <1>1
<1>3. M' = [M EXCEPT ![q] = M[p]]
  BY <1>2, KeepsMemory, Functions
<1>4. Memory!Fork(p, q)
  BY <1>3, HasMemory DEF Memory!Fork, M
<1> QED
  BY <1>4 DEF Memory!Next

LEMMA Starts ==
  ASSUME NEW p \in Proc, NEW v \in P, NEW x \in Value, Lost(p), ~Lost(p)',
         \A y \in P : View(p, y)' = IF y = v THEN x ELSE Zero, \A q \in Proc : q # p => Keeps(q)
  PROVE  Memory!Next
<1>1. M'[p] = [y \in P |-> View(p, y)']
  BY PrivateIs
<1>2. M'[p] = [y \in P |-> IF y = v THEN x ELSE Zero]
  BY <1>1
<1>3. M' = [M EXCEPT ![p] = [y \in P |-> IF y = v THEN x ELSE Zero]]
  BY <1>2, KeepsMemory, Functions
<1>4. Memory!Start(p)
  BY <1>3, HasMemory DEF Memory!Start, M, P
<1> QED
  BY <1>4 DEF Memory!Next

(* What the invariant says of the frames that a step writes to.            *)
LEMMA Unmapped0 ==
  ASSUME IInv, NEW f \in Frame, mem_map[f] = 0
  PROVE  \A q \in Proc, v \in Page : pte[q][v].frame # f
BY Referred DEF IInv, Counted, Nowhere

LEMMA HeldUnmapped ==
  ASSUME IInv, NEW p \in Proc, new[p] # NoFrame
  PROVE  \A q \in Proc, v \in Page : pte[q][v].frame # new[p]
<1> DEFINE f == new[p]
<1>1. f \in Frame /\ mem_map[f] = 1
  BY DEF IInv, Counted, Good, Typed, Alone, Owners
<1>2. OnePlace(f, task, table, new, pte)
  BY <1>1, Referred DEF IInv, Counted
<1> QED
  BY <1>2 DEF OnePlace

(* A process whose frames and their contents stay the same sees no change. *)
LEMMA SameFramesKeep ==
  ASSUME NEW p \in Proc, Lost(p)' <=> Lost(p),
         \A v \in P : /\ pte'[p][v].frame = pte[p][v].frame
                      /\ pte[p][v].frame # NoFrame => data'[pte[p][v].frame] = data[pte[p][v].frame]
  PROVE  Keeps(p)
BY DEF Keeps, View, Present

LEMMA DeathRefines ==
  ASSUME IInv, NEW p \in Proc, NEW m, ~Lost(p), do_exit(p, m)
  PROVE  Memory!Next
<1>1. /\ life' = [life EXCEPT ![p] = "zombie"] /\ pc' = [pc EXCEPT ![p] = "user"]
      /\ pte' = [pte EXCEPT ![p] = [v \in Page |-> Absent]] /\ data' = data
  BY DEF do_exit
<1>2. OtherTypes /\ pte \in PageTables
  BY DEF IInv, Counted, Good, Typed
<1>3. Lost(p)'
  BY <1>1, <1>2 DEF Lost, OtherTypes
<1>4. ASSUME NEW q \in Proc, q # p
      PROVE  Keeps(q)
  <2>1. Lost(q)' <=> Lost(q)
    BY <1>1, <1>2, <1>4 DEF Lost, OtherTypes
  <2>2. pte'[q] = pte[q]
    BY <1>1, <1>2, <1>4 DEF PageTables
  <2> QED
    BY <1>1, <2>1, <2>2, SameFramesKeep DEF P
<1> QED
  BY <1>3, <1>4, Loses

(* A step that only moves p from one place outside exec() to another.      *)
LEMMA PlaceKeeps ==
  ASSUME OtherTypes, NEW p \in Proc, NEW c \in {"user", "load", "copy"}, pc[p] # "exec",
         pc' = [pc EXCEPT ![p] = c], life' = life
  PROVE  \A q \in Proc : Lost(q)' <=> Lost(q)
BY DEF Lost, OtherTypes

LEMMA NoPageRefines ==
  ASSUME IInv, NEW p \in Proc, NEW v \in Page, NEW then \in {"user", "copy"},
         life[p] = "alive", pc[p] \in {"user", "copy"}, ~Present(p, v), do_no_page(p, v, then)
  PROVE  [Memory!Next]_M
<1>1. OtherTypes /\ pte \in PageTables /\ v \in Page /\ ~Lost(p) /\ pc[p] # "exec"
  BY DEF IInv, Counted, Good, Typed, Lost
<1>2. CASE oom(p, mem_map)
  BY <1>1, <1>2, DeathRefines DEF oom
<1>3. CASE ~oom(p, mem_map) /\ v \notin FilePage /\ get_empty_page(p, v, then)
  <2> DEFINE f == get_free_page(mem_map)
  <2>1. /\ f # NoFrame /\ pte' = WithEntry(pte, p, v, Fresh(f)) /\ data' = [data EXCEPT ![f] = Zero]
        /\ pc' = [pc EXCEPT ![p] = then] /\ life' = life
    BY <1>3 DEF get_empty_page, put_page, WithEntry
  <2>2. f \in Frame /\ mem_map[f] = 0
    BY <2>1, GetFreePage
  <2> HIDE DEF f
  <2>3. Fresh(f) \in Entry /\ Fresh(f).frame = f
    BY <2>2 DEF Fresh, Entry
  <2>4. \A q \in Proc, y \in Page : pte[q][y].frame # f
    BY <2>2, Unmapped0
  <2>5. /\ pte'[p][v] = Fresh(f)
        /\ \A q \in Proc, y \in Page : <<q, y>> # <<p, v>> => pte'[q][y] = pte[q][y]
    BY <1>1, <2>1, <2>3, SetEntry
  <2>6. \A q \in Proc : Lost(q)' <=> Lost(q)
    BY <1>1, <2>1, PlaceKeeps
  <2>7. data'[f] = Zero /\ \A g \in Frame : g # f => data'[g] = data[g]
    BY <1>1, <2>1, <2>2 DEF OtherTypes
  <2>8. \A q \in Proc, y \in Page : pte[q][y].frame # NoFrame => pte[q][y].frame \in Frame
    BY <1>1 DEF PageTables, Entry
  <2>9. ASSUME NEW q \in Proc
        PROVE  Keeps(q)
    <3>1. ASSUME NEW y \in P
          PROVE  View(q, y)' = View(q, y)
      <4>1. CASE <<q, y>> = <<p, v>>
        <5>1. View(q, y) = Zero
          BY <4>1 DEF View
        <5>2. pte'[q][y].frame = f /\ f # NoFrame
          BY <2>1, <2>3, <2>5, <4>1
        <5> QED
          BY <2>7, <5>1, <5>2 DEF View, Present
      <4>2. CASE <<q, y>> # <<p, v>>
        <5>1. y \in Page /\ pte'[q][y] = pte[q][y]
          BY <2>5, <4>2 DEF P
        <5> QED
          BY <2>4, <2>7, <2>8, <5>1 DEF View, Present
      <4> QED
        BY <4>1, <4>2
    <3> QED
      BY <2>6, <3>1 DEF Keeps
  <2> QED
    BY <2>9, Stutters
<1>4. CASE /\ ~oom(p, mem_map) /\ v \in FilePage /\ Clean(p, v) # {}
           /\ try_to_share(p, v, CHOOSE q \in Clean(p, v) : \A r \in Clean(p, v) : r <= q, then)
  <2>1. PICK q \in Clean(p, v) : try_to_share(p, v, q, then)
    <3>1. Clean(p, v) \subseteq Proc
      BY DEF Clean
    <3> QED
      BY <1>4, <3>1, LastTask
  <2> DEFINE entry == [pte[q][v] EXCEPT !.w = FALSE]
             u == WithEntry(pte, q, v, entry)
  <2>2. /\ pte' = WithEntry(u, p, v, entry)
        /\ pc' = [pc EXCEPT ![p] = then] /\ life' = life /\ data' = data
    BY <1>4, <2>1 DEF try_to_share, WithEntry
  <2>3. entry \in Entry /\ q \in Proc
    <3>1. pte[q][v] \in Entry /\ q \in Proc
      BY <1>1 DEF PageTables, Clean
    <3> QED
      BY <3>1 DEF Entry
  <2> HIDE DEF entry
  <2>4. u \in PageTables /\ \A r \in Proc, y \in Page : y # v => u[r][y] = pte[r][y]
    BY <1>1, <2>3, SetEntry
  <2> HIDE DEF u
  <2>5. \A r \in Proc, y \in Page : y # v => pte'[r][y] = u[r][y]
    BY <1>1, <2>2, <2>3, <2>4, SetEntry
  <2>6. \A r \in Proc : Lost(r)' <=> Lost(r)
    BY <1>1, <2>2, PlaceKeeps
  <2>7. \A r \in Proc, y \in P : pte'[r][y] = pte[r][y]
    BY <1>4, <2>4, <2>5 DEF P
  <2>8. \A r \in Proc : Keeps(r)
    BY <2>2, <2>6, <2>7, SameFramesKeep
  <2> QED
    BY <2>8, Stutters
<1>5. CASE /\ ~oom(p, mem_map) /\ v \in FilePage /\ get_free_page(mem_map) # NoFrame
           /\ data' = [data EXCEPT ![get_free_page(mem_map)] = Zero]
           /\ pc' = [pc EXCEPT ![p] = "load"] /\ UNCHANGED <<table, pte, life>>
  <2> DEFINE f == get_free_page(mem_map)
  <2>1. f \in Frame /\ mem_map[f] = 0
    BY <1>5, GetFreePage
  <2>2. data' = [data EXCEPT ![f] = Zero] /\ pc' = [pc EXCEPT ![p] = "load"] /\ pte' = pte /\ life' = life
    BY <1>5
  <2> HIDE DEF f
  <2>3. \A q \in Proc, y \in Page : pte[q][y].frame # f
    BY <2>1, Unmapped0
  <2>4. \A g \in Frame : g # f => data'[g] = data[g]
    BY <1>1, <2>2 DEF OtherTypes
  <2>5. \A q \in Proc, y \in Page : pte[q][y].frame # NoFrame => pte[q][y].frame \in Frame
    BY <1>1 DEF PageTables, Entry
  <2>6. \A q \in Proc : Lost(q)' <=> Lost(q)
    BY <1>1, <2>2, PlaceKeeps
  <2>7. \A q \in Proc : Keeps(q)
    BY <2>2, <2>3, <2>4, <2>5, <2>6, SameFramesKeep DEF P
  <2> QED
    BY <2>7, Stutters
<1> QED
  BY <1>2, <1>3, <1>4, <1>5 DEF do_no_page

LEMMA ProtectedPageRefines ==
  ASSUME IInv, NEW p \in Proc, NEW v \in Page, NEW then \in {"user", "copy"},
         User(p), Present(p, v), un_wp_page(p, v, then)
  PROVE  [Memory!Next]_M
<1> DEFINE old == pte[p][v].frame
           f == get_free_page(mem_map)
<1>1. OtherTypes /\ pte \in PageTables /\ ~Lost(p) /\ pc[p] # "exec"
  BY DEF IInv, Counted, Good, Typed, Lost, User
<1>2. \A q \in Proc, y \in Page : pte[q][y].frame # NoFrame => pte[q][y].frame \in Frame
  BY <1>1 DEF PageTables, Entry
<1>3. CASE oom(p, mem_map)
  BY <1>1, <1>3, DeathRefines DEF oom
<1>4. CASE /\ pte' = [pte EXCEPT ![p][v].w = TRUE]
           /\ pc' = [pc EXCEPT ![p] = then] /\ UNCHANGED <<mem_map, data, table, life, new>>
  <2>1. pte' = WithWritable(pte, p, v) /\ pc' = [pc EXCEPT ![p] = then] /\ data' = data /\ life' = life
    BY <1>4 DEF WithWritable
  <2>2. \A q \in Proc, y \in Page : pte'[q][y].frame = pte[q][y].frame
    <3>1. PICK e \in Entry : pte' = WithEntry(pte, p, v, e) /\ e.frame = pte[p][v].frame
      BY <1>1, <2>1, SetWritable
    <3>2. /\ pte'[p][v] = e
          /\ \A q \in Proc, y \in Page : <<q, y>> # <<p, v>> => pte'[q][y] = pte[q][y]
      BY <1>1, <3>1, SetEntry
    <3> QED
      BY <3>1, <3>2
  <2>3. \A q \in Proc : Lost(q)' <=> Lost(q)
    BY <1>1, <2>1, PlaceKeeps
  <2>4. \A q \in Proc : Keeps(q)
    BY <2>1, <2>2, <2>3, SameFramesKeep DEF P
  <2> QED
    BY <2>4, Stutters
<1>5. CASE /\ f # NoFrame
           /\ pte' = [pte EXCEPT ![p][v] = Fresh(f)]
           /\ data' = [data EXCEPT ![f] = data[old]]
           /\ pc' = [pc EXCEPT ![p] = then] /\ UNCHANGED <<table, life, new>>
  <2>1. /\ pte' = WithEntry(pte, p, v, Fresh(f)) /\ data' = [data EXCEPT ![f] = data[old]]
        /\ pc' = [pc EXCEPT ![p] = then] /\ life' = life
    BY <1>5 DEF WithEntry
  <2>2. f \in Frame /\ mem_map[f] = 0
    BY <1>5, GetFreePage
  <2> HIDE DEF f
  <2>3. Fresh(f) \in Entry /\ Fresh(f).frame = f
    BY <2>2 DEF Fresh, Entry
  <2>4. \A q \in Proc, y \in Page : pte[q][y].frame # f
    BY <2>2, Unmapped0
  <2>5. /\ pte'[p][v] = Fresh(f)
        /\ \A q \in Proc, y \in Page : <<q, y>> # <<p, v>> => pte'[q][y] = pte[q][y]
    BY <1>1, <2>1, <2>3, SetEntry
  <2>6. \A q \in Proc : Lost(q)' <=> Lost(q)
    BY <1>1, <2>1, PlaceKeeps
  <2>7. data'[f] = data[old] /\ \A g \in Frame : g # f => data'[g] = data[g]
    BY <1>1, <2>1, <2>2 DEF OtherTypes
  <2>8. ASSUME NEW q \in Proc, NEW y \in P
        PROVE  View(q, y)' = View(q, y)
    <3>1. CASE <<q, y>> = <<p, v>>
      <4>1. pte'[q][y].frame = f /\ f # NoFrame
        BY <1>5, <2>3, <2>5, <3>1
      <4>2. pte[q][y].frame = old /\ old # NoFrame
        BY <3>1 DEF Present
      <4> QED
        BY <2>7, <4>1, <4>2 DEF View, Present
    <3>2. CASE <<q, y>> # <<p, v>>
      <4>1. y \in Page /\ pte'[q][y] = pte[q][y]
        BY <2>5, <3>2 DEF P
      <4> QED
        BY <1>2, <2>4, <2>7, <4>1 DEF View, Present
    <3> QED
      BY <3>1, <3>2
  <2>9. \A q \in Proc : Keeps(q)
    BY <2>6, <2>8 DEF Keeps
  <2> QED
    BY <2>9, Stutters
<1> QED
  BY <1>3, <1>4, <1>5 DEF un_wp_page

(* A store changes one page of one process: the frame of a page that is    *)
(* not in the file is its alone.                                           *)
LEMMA StoreRefines ==
  ASSUME IInv, NEW p \in Proc, NEW v \in Page, NEW x \in Value, Present(p, v), life[p] = "alive",
         \/ pc[p] = "user" /\ pc' = pc
         \/ pc[p] = "copy" /\ pc' = [pc EXCEPT ![p] = "user"],
         v \in P => pte[p][v].w,
         data' = [data EXCEPT ![pte[p][v].frame] = x], pte' = WithDirty(pte, p, v), life' = life
  PROVE  [Memory!Next]_M
<1> DEFINE f == pte[p][v].frame
<1>1. OtherTypes /\ pte \in PageTables /\ SamePage /\ Good(mem_map, task, table, new, pte)
  BY DEF IInv, Counted, Good, Typed
<1>2. ~Lost(p) /\ \A q \in Proc : Lost(q)' <=> Lost(q)
  BY <1>1 DEF Lost, OtherTypes
<1>3. \A q \in Proc, y \in Page : pte'[q][y].frame = pte[q][y].frame
  <2>1. PICK e \in Entry : pte' = WithEntry(pte, p, v, e) /\ e.frame = pte[p][v].frame
    BY <1>1, SetDirty
  <2>2. /\ pte'[p][v] = e
        /\ \A q \in Proc, y \in Page : <<q, y>> # <<p, v>> => pte'[q][y] = pte[q][y]
    BY <1>1, <2>1, SetEntry
  <2> QED
    BY <2>1, <2>2
<1>4. /\ f \in Frame /\ f # NoFrame /\ data'[f] = x
      /\ \A g \in Frame : g # f => data'[g] = data[g]
  <2>1. f \in Frame /\ f # NoFrame
    BY <1>1 DEF PageTables, Entry, Present
  <2> HIDE DEF f
  <2>2. data' = [data EXCEPT ![f] = x]
    BY DEF f
  <2> QED
    BY <1>1, <2>1, <2>2 DEF OtherTypes
<1>5. \A q \in Proc, y \in Page : pte[q][y].frame # NoFrame => pte[q][y].frame \in Frame
  BY <1>1 DEF PageTables, Entry
<1>6. CASE v \in P
  <2>1. OnePlace(f, task, table, new, pte)
    BY <1>1, <1>6, WritableOnce
  <2>2. \A q \in Proc, y \in Page : pte[q][y].frame = f => q = p /\ y = v
    BY <2>1 DEF OnePlace
  <2>3. \A q \in Proc : q # p => Keeps(q)
    BY <1>2, <1>3, <1>4, <1>5, <2>2, SameFramesKeep DEF P
  <2>4. View(p, v)' = x
    BY <1>3, <1>4 DEF View, Present
  <2>5. \A y \in P : y # v => View(p, y)' = View(p, y)
    BY <1>3, <1>4, <1>5, <2>2 DEF View, Present, P
  <2> QED
    BY <1>2, <1>6, <2>3, <2>4, <2>5, Writes
<1>7. CASE v \notin P
  <2>1. \A q \in Proc, y \in P : pte[q][y].frame # f
    BY <1>1, <1>4, <1>7 DEF SamePage, P
  <2>2. \A q \in Proc : Keeps(q)
    BY <1>2, <1>3, <1>4, <1>5, <2>1, SameFramesKeep DEF P
  <2> QED
    BY <2>2, Stutters
<1> QED
  BY <1>6, <1>7

LEMMA LoadedRefines ==
  ASSUME IInv, NEW p \in Proc, Loaded(p)
  PROVE  [Memory!Next]_M
<1> DEFINE v == addr[p]
           f == new[p]
<1>1. /\ OtherTypes /\ pte \in PageTables /\ v \in Page /\ v \in FilePage
      /\ ~Lost(p) /\ pc[p] # "exec" /\ f # NoFrame /\ f \in Frame
  BY DEF IInv, Counted, Good, Typed, Lost, Loaded, Shape, ShapeAt, OtherTypes, Owners
<1>2. CASE oom(p, free_page(mem_map, f))
  BY <1>1, <1>2, DeathRefines DEF oom
<1>3. CASE ~oom(p, free_page(mem_map, f))
  <2>1. /\ pte' = WithEntry(pte, p, v, Fresh(f))
        /\ data' = [data EXCEPT ![f] = Image(executable[p], v)]
        /\ pc' = [pc EXCEPT ![p] = ret[p]] /\ life' = life
    BY <1>3 DEF Loaded, put_page, WithEntry
  <2>2. \A q \in Proc, y \in Page : pte[q][y].frame # f
    BY <1>1, HeldUnmapped
  <2>3. ret[p] \in {"user", "load", "copy"}
    BY <1>1 DEF OtherTypes
  <2> HIDE DEF v, f
  <2>4. Fresh(f) \in Entry
    BY <1>1 DEF Fresh, Entry
  <2>5. \A q \in Proc, y \in Page : <<q, y>> # <<p, v>> => pte'[q][y] = pte[q][y]
    BY <1>1, <2>1, <2>4, SetEntry
  <2>6. \A q \in Proc : Lost(q)' <=> Lost(q)
    BY <1>1, <2>1, <2>3, PlaceKeeps
  <2>7. \A g \in Frame : g # f => data'[g] = data[g]
    BY <1>1, <2>1 DEF OtherTypes
  <2>8. \A q \in Proc, y \in Page : pte[q][y].frame # NoFrame => pte[q][y].frame \in Frame
    BY <1>1 DEF PageTables, Entry
  <2>9. \A q \in Proc, y \in P : pte'[q][y] = pte[q][y]
    BY <1>1, <2>5 DEF P
  <2>10. \A q \in Proc : Keeps(q)
    BY <2>2, <2>6, <2>7, <2>8, <2>9, SameFramesKeep DEF P
  <2> QED
    BY <2>10, Stutters
<1> QED
  BY <1>2, <1>3

LEMMA ForkRefines ==
  ASSUME IInv, NEW p \in Proc, NEW q \in Proc, Fork(p, q)
  PROVE  Memory!Next
<1>1. OtherTypes /\ pte \in PageTables
  BY DEF IInv, Counted, Good, Typed
<1>2. /\ life[p] = "alive" /\ pc[p] = "user" /\ life[q] = "none" /\ p # q
      /\ pte' = BothProtected(pte, p, q)
      /\ life' = [life EXCEPT ![q] = "alive"] /\ pc' = pc /\ data' = data
  BY DEF Fork, User, BothProtected, WriteProtected
<1>3. pc[q] = "user"
  BY <1>2 DEF IInv, Shape, ShapeAt
<1>4. /\ \A v \in Page : pte'[p][v].frame = pte[p][v].frame
      /\ \A v \in Page : pte'[q][v].frame = pte[p][v].frame
      /\ \A r \in Proc : r # p /\ r # q => pte'[r] = pte[r]
  <2>1. PICK u : u = pte'
    OBVIOUS
  <2>2. RowsProtected(pte, u, p, q)
    BY <1>1, <1>2, <2>1, Protected
  <2> QED
    BY <2>1, <2>2 DEF RowsProtected
<1>5. ~Lost(p) /\ Lost(q) /\ ~Lost(q)'
  BY <1>1, <1>2, <1>3 DEF Lost, OtherTypes
<1>6. ASSUME NEW r \in Proc, r # q
      PROVE  Keeps(r)
  <2>1. Lost(r)' <=> Lost(r)
    BY <1>1, <1>2, <1>6 DEF Lost, OtherTypes
  <2>2. \A v \in Page : pte'[r][v].frame = pte[r][v].frame
    BY <1>4, <1>6
  <2> QED
    BY <1>2, <2>1, <2>2, SameFramesKeep DEF P
<1>7. \A y \in P : View(q, y)' = View(p, y)
  BY <1>2, <1>4 DEF View, Present, P
<1> QED
  BY <1>5, <1>6, <1>7, Forks

LEMMA ExecBeginsRefines ==
  ASSUME IInv, NEW p \in Proc, NEW e \in Program, NEW x \in Value, ExecBegins(p, e, x)
  PROVE  Memory!Next
<1> DEFINE f == get_free_page(mem_map)
<1>1. OtherTypes /\ pte \in PageTables
  BY DEF IInv, Counted, Good, Typed
<1>2. /\ life[p] = "alive" /\ pc[p] = "user" /\ f # NoFrame /\ data' = [data EXCEPT ![f] = x]
      /\ pc' = [pc EXCEPT ![p] = "exec"] /\ pte' = pte /\ life' = life
  BY DEF ExecBegins, User
<1>3. f \in Frame /\ mem_map[f] = 0
  BY <1>2, GetFreePage
<1> HIDE DEF f
<1>4. \A q \in Proc, y \in Page : pte[q][y].frame # f
  BY <1>3, Unmapped0
<1>5. \A g \in Frame : g # f => data'[g] = data[g]
  BY <1>1, <1>2 DEF OtherTypes
<1>6. \A q \in Proc, y \in Page : pte[q][y].frame # NoFrame => pte[q][y].frame \in Frame
  BY <1>1 DEF PageTables, Entry
<1>7. ~Lost(p) /\ Lost(p)' /\ \A q \in Proc : q # p => (Lost(q)' <=> Lost(q))
  BY <1>1, <1>2 DEF Lost, OtherTypes
<1>8. \A q \in Proc : q # p => Keeps(q)
  BY <1>2, <1>4, <1>5, <1>6, <1>7, SameFramesKeep DEF P
<1> QED
  BY <1>7, <1>8, Loses

LEMMA ExecEndsRefines ==
  ASSUME IInv, NEW p \in Proc, ExecEnds(p)
  PROVE  Memory!Next
<1> DEFINE f == new[p]
           r == [v \in Page |-> IF v = ArgPage THEN Fresh(f) ELSE Absent]
<1>1. OtherTypes /\ pte \in PageTables
  BY DEF IInv, Counted, Good, Typed
<1>2. /\ life[p] = "alive" /\ pc[p] = "exec" /\ pte' = WithEntries(pte, p, r)
      /\ pc' = [pc EXCEPT ![p] = "user"] /\ life' = life /\ data' = data
  BY DEF ExecEnds, WithEntries
<1>3. f # NoFrame /\ data[f] \in Value
  BY <1>2 DEF IInv, Shape, ShapeAt, Arguments
<1>4. pte'[p] = r /\ \A q \in Proc : q # p => pte'[q] = pte[q]
  BY <1>1, <1>2 DEF PageTables, WithEntries
<1>5. Lost(p) /\ ~Lost(p)' /\ \A q \in Proc : q # p => (Lost(q)' <=> Lost(q))
  BY <1>1, <1>2 DEF Lost, OtherTypes
<1>6. \A q \in Proc : q # p => Keeps(q)
  BY <1>2, <1>4, <1>5, SameFramesKeep DEF P
<1>7. \A y \in P : View(p, y)' = IF y = ArgPage THEN data[f] ELSE Zero
  <2> SUFFICES ASSUME NEW y \in P
               PROVE  View(p, y)' = IF y = ArgPage THEN data[f] ELSE Zero
    OBVIOUS
  <2>1. pte'[p][y] = IF y = ArgPage THEN Fresh(f) ELSE Absent
    BY <1>4 DEF P
  <2>2. pte'[p][y].frame = IF y = ArgPage THEN f ELSE NoFrame
    BY <2>1 DEF Fresh, Absent
  <2> HIDE DEF f
  <2> QED
    BY <1>2, <1>3, <2>2 DEF View, Present
<1>8. ArgPage \in P
  BY MemoryAssumption DEF P
<1> QED
  BY <1>3, <1>5, <1>6, <1>7, <1>8, Starts

LEMMA ReleaseRefines ==
  ASSUME IInv, NEW p \in Proc, Release(p)
  PROVE  M' = M
<1>1. OtherTypes
  BY DEF IInv
<1>2. /\ life[p] = "zombie" /\ life' = [life EXCEPT ![p] = "none"]
      /\ pc' = pc /\ pte' = pte /\ data' = data
  BY DEF Release
<1>3. \A q \in Proc : Lost(q)' <=> Lost(q)
  BY <1>1, <1>2 DEF Lost, OtherTypes
<1>4. \A q \in Proc : Keeps(q)
  BY <1>2, <1>3, SameFramesKeep DEF P
<1> QED
  BY <1>4, Stutters

LEMMA StepRefines ==
  ASSUME IInv, [Next]_vars
  PROVE  [Memory!Next]_M
<1>1. OtherTypes /\ Shape
  BY DEF IInv
<1>2. CASE UNCHANGED vars
  <2>1. data' = data /\ life' = life /\ pc' = pc /\ pte' = pte
    BY <1>2 DEF vars, mm
  <2>2. \A q \in Proc : Keeps(q)
    BY <2>1, SameFramesKeep DEF Lost
  <2> QED
    BY <2>2, Stutters
<1>3. ASSUME NEW p \in Proc, NEW v \in Page, page_fault(p, v)
      PROVE  [Memory!Next]_M
  BY <1>3, NoPageRefines, ProtectedPageRefines DEF page_fault, User
<1>4. ASSUME NEW p \in Proc, NEW v \in Page, verify_area(p, v)
      PROVE  [Memory!Next]_M
  <2>1. CASE Present(p, v) /\ un_wp_page(p, v, "copy")
    BY <1>4, <2>1, ProtectedPageRefines DEF verify_area
  <2>2. CASE pc' = [pc EXCEPT ![p] = "copy"] /\ UNCHANGED <<mm, life, new>>
    <3>1. /\ pc' = [pc EXCEPT ![p] = "copy"] /\ life' = life /\ pte' = pte /\ data' = data
          /\ pc[p] # "exec"
      BY <1>4, <2>2 DEF mm, verify_area, User
    <3>2. \A q \in Proc : Lost(q)' <=> Lost(q)
      BY <1>1, <3>1, PlaceKeeps
    <3>3. \A q \in Proc : Keeps(q)
      BY <3>1, <3>2, SameFramesKeep DEF P
    <3> QED
      BY <3>3, Stutters
  <2> QED
    BY <1>4, <2>1, <2>2 DEF verify_area
<1>5. ASSUME NEW p \in Proc, NEW v \in Page, NEW x \in Value, UserStore(p, v, x)
      PROVE  [Memory!Next]_M
  <2>1. /\ life[p] = "alive" /\ pc[p] = "user" /\ Present(p, v) /\ pte[p][v].w
        /\ data' = [data EXCEPT ![pte[p][v].frame] = x] /\ pte' = WithDirty(pte, p, v)
        /\ pc' = pc /\ life' = life
    BY <1>5 DEF UserStore, User, Store, WithDirty
  <2> QED
    BY <2>1, StoreRefines
<1>6. ASSUME NEW p \in Proc, NEW x \in Value, put_fs(p, x)
      PROVE  [Memory!Next]_M
  <2> DEFINE v == addr[p]
  <2>1. v \in Page /\ life[p] = "alive" /\ pc[p] = "copy"
    BY <1>1, <1>6 DEF OtherTypes, put_fs
  <2>2. CASE Present(p, v) /\ Store(p, v, x) /\ pc' = [pc EXCEPT ![p] = "user"]
    <3>1. /\ data' = [data EXCEPT ![pte[p][v].frame] = x] /\ pte' = WithDirty(pte, p, v)
          /\ life' = life
      BY <2>2 DEF Store, WithDirty
    <3>2. v \in P => pte[p][v].w
      BY <2>1, <2>2 DEF IInv, CopyWritable, P, Present
    <3>3. Present(p, v) /\ pc' = [pc EXCEPT ![p] = "user"]
      BY <2>2
    <3> HIDE DEF v
    <3> QED
      BY <2>1, <3>1, <3>2, <3>3, StoreRefines
  <2>3. CASE ~Present(p, v) /\ do_no_page(p, v, "copy")
    <3> HIDE DEF v
    <3> QED
      BY <2>1, <2>3, NoPageRefines
  <2> QED
    BY <1>6, <2>2, <2>3 DEF put_fs
<1>7. ASSUME NEW p \in Proc, Exit(p)
      PROVE  [Memory!Next]_M
  <2>1. ~Lost(p) /\ do_exit(p, mem_map)
    BY <1>7 DEF Exit, User, Lost
  <2> QED
    BY <2>1, DeathRefines
<1> QED
  BY <1>2, <1>3, <1>4, <1>5, <1>6, <1>7, LoadedRefines, ForkRefines, ExecBeginsRefines,
     ExecEndsRefines, ReleaseRefines DEF Next

LEMMA InitRefines ==
  ASSUME Init
  PROVE  Memory!Init
<1>1. PICK x \in Value : data = [f \in Frame |-> IF f = NFrame - 2 THEN x ELSE Zero]
  BY DEF Init
<1>2. /\ 1 \in Proc /\ ArgPage \in P /\ NFrame - 2 \in Frame /\ NFrame - 2 # NoFrame
  BY MemoryAssumption DEF Proc, Frame, P, NoFrame
<1> DEFINE f == NFrame - 2
           m == [y \in P |-> IF y = ArgPage THEN x ELSE Zero]
<1>3. /\ \A p \in Proc : Lost(p) <=> p # 1
      /\ \A y \in Page : pte[1][y] = IF y = ArgPage THEN [frame |-> f, w |-> TRUE, d |-> FALSE] ELSE Absent
  BY <1>2 DEF Init, Lost
<1>4. \A y \in P : View(1, y) = IF y = ArgPage THEN x ELSE Zero
  BY <1>1, <1>2, <1>3 DEF View, Present, Absent, P
<1>5. \A p \in Proc : M[p] = IF p = 1 THEN m ELSE << >>
  <2> TAKE p \in Proc
  <2>1. M[p] = IF Lost(p) THEN << >> ELSE [v \in P |-> View(p, v)]
    BY PrivateIs
  <2>2. CASE p = 1
    BY <1>2, <1>3, <1>4, <2>1, <2>2
  <2>3. CASE p # 1
    BY <1>3, <2>1, <2>3
  <2> QED
    BY <2>2, <2>3
<1>6. M = [p \in Proc |-> IF p = 1 THEN m ELSE << >>]
  BY <1>5 DEF M
<1>7. m \in [Page \ FilePage -> Value \cup {Zero}]
  BY DEF P
<1> HIDE DEF m
<1> QED
  BY <1>2, <1>6, <1>7 DEF Memory!Init, Memory!None, M

(* The memory that is not loaded from the executable implements module     *)
(* AddressSpace: the sharing of frames after fork(), copy on write,        *)
(* try_to_share() and the kernel's own writes after verify_area() cannot   *)
(* be seen; each process finds what it wrote itself, or what its father    *)
(* had written before fork(), or what exec() gave it.                      *)
THEOREM RefinesAddressSpace == Spec => ImplementsAddressSpace
<1>1. Init => Memory!Init
  BY InitRefines
<1>2. IInv /\ [Next]_vars => [Memory!Next]_M
  BY StepRefines
<1>3. M = [p \in Proc |-> Private(p)] /\ Init => IInv
  BY InitInv DEF M
<1> QED
  BY <1>1, <1>2, Invariant, PTL DEF Spec, ImplementsAddressSpace, Memory!Spec, M
=============================================================================
