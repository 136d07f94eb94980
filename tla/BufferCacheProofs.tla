------------------------- MODULE BufferCacheProofs --------------------------
(***************************************************************************)
(* Proofs about module BufferCache, for any number of tasks, buffers,      *)
(* blocks and requests: no block is in two buffers, reference counts are   *)
(* exact and protect what they refer to, and each lock has one owner; then *)
(* what the buffers hold: what is clean is on the disk, and the cache      *)
(* implements the device of module BlockStore.                             *)
(***************************************************************************)
EXTENDS BufferCache, TLAPS, FiniteSetTheorems, SequenceTheorems, WellFoundedInduction

(* TypeOK without the bound on counts, which follows from CountIsHolders.  *)
Head_ == [block : Block \cup {NoBlock}, uptodate : BOOLEAN, dirt : BOOLEAN,
          count : Int, lock : BOOLEAN, data : Value]

Request == [buf : Buf, cmd : {"READ", "WRITE"}, slot : 0 .. NrRequest - 1]

KernelTypes ==
    /\ buf \in [Buf -> Head_]
    /\ free \in [1 .. NBuf -> Buf]
    /\ queue \in Seq(Request)
    /\ sent \in Value \cup {Nobody}
    /\ disk \in [Block -> Value]
    /\ errors \in 0 .. MaxErrors

TaskTypes ==
    /\ cpu \in Task \cup {Nobody}
    /\ pc \in [Task -> Places]
    /\ op \in [Task -> Kinds \cup {"none"}]
    /\ blk \in [Task -> Block \cup {NoBlock}]
    /\ bh \in [Task -> Buf \cup {0}]
    /\ req \in [Task -> [rw : {"READ", "WRITE"}, bh : Buf \cup {0}, ret : Places]]
    /\ idx \in [Task -> 0 .. 2 * NBuf]

Types == KernelTypes /\ TaskTypes

(* Where a task has a buffer in its hands, and what it wants a request for.*)
NoBuffer == {"user", "find", "search", "buffer_wait"}

PlacedAt(t) ==
    /\ op[t] = "sync" => \/ pc[t] = "sync"
                         \/ pc[t] \in Requesting /\ req[t].ret = "sync"
    /\ op[t] # "sync" /\ pc[t] # "user" => blk[t] \in Block
    /\ op[t] # "sync" /\ pc[t] \notin NoBuffer => bh[t] \in Buf
    /\ pc[t] \in Requesting => req[t].bh \in Buf /\ req[t].ret \in {"wait_read", "sync"}

Placed == \A t \in Task : PlacedAt(t)

(* Only buffers of blocks are read and written.                            *)
Real ==
    /\ \A t \in Task : pc[t] \in Requesting => buf[req[t].bh].block # NoBlock
    /\ \A i \in DOMAIN queue : buf[queue[i].buf].block # NoBlock

(* NoDuplicate, without counting.                                          *)
Unique ==
    \A b, c \in Buf : buf[b].block = buf[c].block /\ buf[b].block # NoBlock => b = c

(* LockOwned, without counting: the owners of a lock are a request in the  *)
(* queue and a task that is on its way to put one there.                   *)
Asking == {"slot", "wait_for_request"}

Locks ==
    /\ \A i, j \in DOMAIN queue : queue[i].buf = queue[j].buf => i = j
    /\ \A t, u \in Task :
          pc[t] \in Asking /\ pc[u] \in Asking /\ req[t].bh = req[u].bh => t = u
    /\ \A t \in Task, i \in DOMAIN queue : pc[t] \in Asking => req[t].bh # queue[i].buf
    /\ \A i \in DOMAIN queue : buf[queue[i].buf].lock
    /\ \A t \in Task : pc[t] \in Asking => buf[req[t].bh].lock
    /\ \A b \in Buf : buf[b].lock =>
          \/ \E i \in DOMAIN queue : queue[i].buf = b
          \/ \E t \in Task : pc[t] \in Asking /\ req[t].bh = b

IInv ==
    /\ Types /\ Placed /\ Real /\ Unique /\ Locks
    /\ CountIsHolders /\ HolderKeepsBlock

-----------------------------------------------------------------------------
(* A set of natural numbers has a least element.                           *)
LEMMA Least ==
  ASSUME NEW S, S \subseteq Nat, S # {}
  PROVE  \E x \in S : \A y \in S : x <= y
<1> DEFINE R == OpToRel(<, Nat)
<1>1. IsWellFoundedOn(R, Nat)
  BY NatLessThanWellFounded
<1>2. \A x, y \in Nat : <<y, x>> \in R <=> y < x
  BY DEF OpToRel
<1> HIDE DEF R
<1>3. PICK x \in S : \A y \in S : <<y, x>> \notin R
  BY <1>1, WFMin
<1>4. \A y \in S : ~(y < x)
  BY <1>2, <1>3
<1> QED
  BY <1>4

(* getblk() chooses one of the unused buffers.                             *)
LEMMA VictimUnused ==
  ASSUME Types, Unused # {}
  PROVE  Victim \in Buf /\ buf[Victim].count = 0
<1> DEFINE best == {i \in Unused : \A j \in Unused : BADNESS(free[i]) <= BADNESS(free[j])}
           B == {BADNESS(free[i]) : i \in Unused}
<1>1. \A b \in Buf : BADNESS(b) \in Nat
  BY DEF BADNESS
<1>2. Unused \subseteq 1 .. NBuf /\ \A i \in Unused : free[i] \in Buf /\ buf[free[i]].count = 0
  BY DEF Unused, Types, KernelTypes, TaskTypes
<1>3. B \subseteq Nat /\ B # {}
  BY <1>1, <1>2
<1>4. PICK n \in B : \A m \in B : n <= m
  BY <1>3, Least
<1>5. best # {}
  BY <1>4
<1>6. best \subseteq Unused /\ best \subseteq Nat
  <2>1. best \subseteq Unused
    OBVIOUS
  <2>2. Unused \subseteq Nat
    BY <1>2
  <2> QED
    BY <2>1, <2>2, Zenon
<1>7. \E i \in best : \A j \in best : i <= j
  BY <1>5, <1>6, Least
<1>8. \E i \in best : Victim = free[i]
  <2> HIDE DEF best
  <2>1. (CHOOSE i \in best : \A j \in best : i <= j) \in best
    BY <1>7
  <2>2. Victim = free[CHOOSE i \in best : \A j \in best : i <= j]
    BY DEF Victim, best
  <2> QED
    BY <2>1, <2>2
<1> QED
  BY <1>2, <1>6, <1>8

(* A slot for a request.                                                   *)
LEMMA LastSlot ==
  ASSUME NEW S, S \subseteq 0 .. NrRequest - 1, S # {}
  PROVE  (CHOOSE i \in S : \A j \in S : j <= i) \in 0 .. NrRequest - 1
<1> DEFINE D == {NrRequest - x : x \in S}
<1>1. NrRequest \in Nat /\ S \subseteq Int /\ \A x \in S : x <= NrRequest
  BY BufferCacheAssumption
<1>2. D \subseteq Nat
  <2>1. \A x \in S : NrRequest - x \in Nat
    BY <1>1
  <2> QED
    BY <2>1, Zenon
<1>3. D # {}
  OBVIOUS
<1>4. PICK d \in D : \A e \in D : d <= e
  BY <1>2, <1>3, Least
<1>5. PICK x \in S : d = NrRequest - x
  OBVIOUS
<1>6. \A y \in S : NrRequest - x <= NrRequest - y
  BY <1>4, <1>5
<1>7. \E i \in S : \A j \in S : j <= i
  BY <1>1, <1>6
<1> QED
  BY <1>7

(* Insertion into the list of requests.                                    *)
LEMMA InsertAt ==
  ASSUME Types, NEW r \in Request, NEW at \in 0 .. Len(queue)
  PROVE  SubSeq(queue, 1, at) \o <<r>> \o SubSeq(queue, at + 1, Len(queue)) =
            [k \in 1 .. Len(queue) + 1 |->
                IF k <= at THEN queue[k] ELSE IF k = at + 1 THEN r ELSE queue[k - 1]]
<1> DEFINE n == Len(queue)
           first == SubSeq(queue, 1, at)
           front == first \o <<r>>
           rest == SubSeq(queue, at + 1, n)
           whole == front \o rest
<1>1. n \in Nat /\ at \in Nat /\ at <= n /\ queue \in Seq(Request)
  BY LenProperties DEF Types, KernelTypes, TaskTypes
<1>2. first \in Seq(Request) /\ Len(first) = at /\ \A k \in 1 .. at : first[k] = queue[k]
  BY <1>1
<1>3. rest \in Seq(Request) /\ Len(rest) = n - at /\ \A k \in 1 .. n - at : rest[k] = queue[k + at]
  BY <1>1
<1> HIDE DEF first, rest
<1>4. front \in Seq(Request) /\ Len(front) = at + 1
      /\ \A k \in 1 .. at + 1 : front[k] = IF k <= at THEN queue[k] ELSE r
  BY <1>1, <1>2
<1> HIDE DEF front
<1>5. whole \in Seq(Request) /\ Len(whole) = Len(front) + Len(rest)
      /\ \A k \in 1 .. Len(front) + Len(rest) :
            whole[k] = IF k <= Len(front) THEN front[k] ELSE rest[k - Len(front)]
  BY <1>3, <1>4, ConcatProperties
<1>6. Len(front) + Len(rest) = n + 1
  BY <1>1, <1>3, <1>4
<1>7. ASSUME NEW k \in 1 .. n + 1
      PROVE  whole[k] = IF k <= at THEN queue[k] ELSE IF k = at + 1 THEN r ELSE queue[k - 1]
  <2>1. CASE k <= at + 1
    <3>1. k \in 1 .. at + 1
      BY <1>1, <2>1
    <3>2. whole[k] = front[k]
      BY <1>4, <1>5, <1>6, <2>1
    <3> QED
      BY <1>1, <1>4, <3>1, <3>2
  <2>2. CASE k > at + 1
    <3>1. k - (at + 1) \in 1 .. n - at /\ k - (at + 1) + at = k - 1
      BY <1>1, <2>2
    <3>2. whole[k] = rest[k - (at + 1)]
      BY <1>1, <1>4, <1>5, <1>6, <2>2
    <3>3. whole[k] = queue[k - 1]
      BY <1>3, <3>1, <3>2
    <3> QED
      BY <1>1, <2>2, <3>3
  <2>3. k <= at + 1 \/ k > at + 1
    BY <1>1
  <2> QED
    BY <2>1, <2>2, <2>3, Zenon
<1>8. whole = [k \in 1 .. n + 1 |-> whole[k]]
  BY <1>5, <1>6, LenProperties
<1> HIDE DEF whole
<1> QED
  BY <1>7, <1>8 DEF whole, front, first, rest

(* The elevator puts a request somewhere behind the first one.             *)
LEMMA Inserted ==
  ASSUME Types, NEW r \in Request
  PROVE  /\ add_request(r) \in Seq(Request)
         /\ \E at \in 0 .. Len(queue) :
                /\ Len(queue) # 0 => at # 0
                /\ add_request(r) = [i \in 1 .. Len(queue) + 1 |->
                    IF i <= at THEN queue[i] ELSE IF i = at + 1 THEN r ELSE queue[i - 1]]
<1> DEFINE n == Len(queue)
           fits(i) == \/ i = n
                      \/ /\ IN_ORDER(queue[i], r) \/ ~IN_ORDER(queue[i], queue[i + 1])
                         /\ IN_ORDER(r, queue[i + 1])
           place == CHOOSE i \in 1 .. n : fits(i) /\ \A j \in 1 .. i - 1 : ~fits(j)
           F == {i \in 1 .. n : fits(i)}
<1>1. n \in Nat /\ queue \in Seq(Request)
  BY LenProperties DEF Types, KernelTypes, TaskTypes
<1> DEFINE Somewhere ==
         \E p \in 0 .. n :
            /\ n # 0 => p # 0
            /\ add_request(r) = [i \in 1 .. n + 1 |->
                IF i <= p THEN queue[i] ELSE IF i = p + 1 THEN r ELSE queue[i - 1]]
<1>2. ASSUME n = 0 PROVE Somewhere
  <2>1. add_request(r) = <<r>>
    BY <1>2 DEF add_request
  <2> QED
    BY <1>2, <2>1
<1>3. ASSUME n # 0 PROVE Somewhere
  <2>1. n \in F /\ F \subseteq Nat
    BY <1>1, <1>3
  <2>2. PICK m \in F : \A j \in F : m <= j
    BY <2>1, Least
  <2>3. m \in 1 .. n /\ fits(m) /\ \A j \in 1 .. m - 1 : ~fits(j)
    BY <1>1, <2>2
  <2>4. place \in 1 .. n
    <3> HIDE DEF fits
    <3> QED
      BY <2>3
  <2>5. add_request(r) = SubSeq(queue, 1, place) \o <<r>> \o SubSeq(queue, place + 1, n)
    BY <1>3 DEF add_request
  <2> HIDE DEF place
  <2>6. place \in 0 .. n /\ place # 0
    BY <1>1, <2>4
  <2>7. SubSeq(queue, 1, place) \o <<r>> \o SubSeq(queue, place + 1, n) =
           [i \in 1 .. n + 1 |->
                IF i <= place THEN queue[i] ELSE IF i = place + 1 THEN r ELSE queue[i - 1]]
    BY <1>1, <2>6, InsertAt
  <2> QED
    BY <2>5, <2>6, <2>7, Zenon
<1>4. PICK q \in 0 .. n :
         /\ n # 0 => q # 0
         /\ add_request(r) = [i \in 1 .. n + 1 |->
                IF i <= q THEN queue[i] ELSE IF i = q + 1 THEN r ELSE queue[i - 1]]
  BY <1>2, <1>3
<1>5. \A i \in 1 .. n : queue[i] \in Request
  BY <1>1, ElementOfSeq
<1>6. add_request(r) \in [1 .. n + 1 -> Request]
  BY <1>1, <1>4, <1>5
<1>7. add_request(r) \in Seq(Request)
  BY <1>1, <1>6
<1> QED
  BY <1>4, <1>7

-----------------------------------------------------------------------------
(* Buffer heads.                                                           *)

(* g is f but for b, whose fields are these.                               *)
Becomes(f, g, b, k, u, d, n, l, v) ==
    /\ g \in [Buf -> Head_]
    /\ \A c \in Buf : /\ g[c].block = IF c = b THEN k ELSE f[c].block
                      /\ g[c].uptodate = IF c = b THEN u ELSE f[c].uptodate
                      /\ g[c].dirt = IF c = b THEN d ELSE f[c].dirt
                      /\ g[c].count = IF c = b THEN n ELSE f[c].count
                      /\ g[c].lock = IF c = b THEN l ELSE f[c].lock
                      /\ g[c].data = IF c = b THEN v ELSE f[c].data

LEMMA SetBlock ==
  ASSUME NEW f \in [Buf -> Head_], NEW b \in Buf, NEW k \in Block \cup {NoBlock}
  PROVE  Becomes(f, [f EXCEPT ![b].block = k], b,
                 k, f[b].uptodate, f[b].dirt, f[b].count, f[b].lock, f[b].data)
BY DEF Head_, Becomes

LEMMA SetUptodate ==
  ASSUME NEW f \in [Buf -> Head_], NEW b \in Buf, NEW u \in BOOLEAN
  PROVE  Becomes(f, [f EXCEPT ![b].uptodate = u], b,
                 f[b].block, u, f[b].dirt, f[b].count, f[b].lock, f[b].data)
BY DEF Head_, Becomes

LEMMA SetDirt ==
  ASSUME NEW f \in [Buf -> Head_], NEW b \in Buf, NEW d \in BOOLEAN
  PROVE  Becomes(f, [f EXCEPT ![b].dirt = d], b,
                 f[b].block, f[b].uptodate, d, f[b].count, f[b].lock, f[b].data)
BY DEF Head_, Becomes

LEMMA SetCount ==
  ASSUME NEW f \in [Buf -> Head_], NEW b \in Buf, NEW n \in Int
  PROVE  Becomes(f, [f EXCEPT ![b].count = n], b,
                 f[b].block, f[b].uptodate, f[b].dirt, n, f[b].lock, f[b].data)
BY DEF Head_, Becomes

LEMMA SetLock ==
  ASSUME NEW f \in [Buf -> Head_], NEW b \in Buf, NEW l \in BOOLEAN
  PROVE  Becomes(f, [f EXCEPT ![b].lock = l], b,
                 f[b].block, f[b].uptodate, f[b].dirt, f[b].count, l, f[b].data)
BY DEF Head_, Becomes

LEMMA SetData ==
  ASSUME NEW f \in [Buf -> Head_], NEW b \in Buf, NEW v \in Value
  PROVE  Becomes(f, [f EXCEPT ![b].data = v], b,
                 f[b].block, f[b].uptodate, f[b].dirt, f[b].count, f[b].lock, v)
BY DEF Head_, Becomes

(* getblk() gives the buffer to another block.                             *)
LEMMA SetTaken ==
  ASSUME NEW f \in [Buf -> Head_], NEW b \in Buf, NEW k \in Block \cup {NoBlock}
  PROVE  Becomes(f, [f EXCEPT ![b].block = k, ![b].count = 1, ![b].dirt = FALSE, ![b].uptodate = FALSE], b,
                 k, FALSE, FALSE, 1, f[b].lock, f[b].data)
<1> DEFINE f1 == [f EXCEPT ![b].block = k]
           f2 == [f1 EXCEPT ![b].count = 1]
           f3 == [f2 EXCEPT ![b].dirt = FALSE]
           f4 == [f3 EXCEPT ![b].uptodate = FALSE]
<1>1. [f EXCEPT ![b].block = k, ![b].count = 1, ![b].dirt = FALSE, ![b].uptodate = FALSE] = f4
  BY DEF Head_
<1>2. Becomes(f, f1, b, k, f[b].uptodate, f[b].dirt, f[b].count, f[b].lock, f[b].data)
  BY SetBlock
<1> HIDE DEF f1
<1>3. Becomes(f1, f2, b, k, f[b].uptodate, f[b].dirt, 1, f[b].lock, f[b].data)
  <2>1. /\ f1 \in [Buf -> Head_] /\ f1[b].block = k /\ f1[b].uptodate = f[b].uptodate
        /\ f1[b].dirt = f[b].dirt /\ f1[b].lock = f[b].lock /\ f1[b].data = f[b].data
    BY <1>2 DEF Becomes
  <2>2. 1 \in Int
    OBVIOUS
  <2> QED
    BY <2>1, <2>2, SetCount
<1>4. Becomes(f, f2, b, k, f[b].uptodate, f[b].dirt, 1, f[b].lock, f[b].data)
  BY <1>2, <1>3 DEF Becomes
<1> HIDE DEF f2
<1>5. Becomes(f2, f3, b, k, f[b].uptodate, FALSE, 1, f[b].lock, f[b].data)
  <2>1. /\ f2 \in [Buf -> Head_] /\ f2[b].block = k /\ f2[b].uptodate = f[b].uptodate
        /\ f2[b].count = 1 /\ f2[b].lock = f[b].lock /\ f2[b].data = f[b].data
    BY <1>4 DEF Becomes
  <2> QED
    BY <2>1, SetDirt
<1>6. Becomes(f, f3, b, k, f[b].uptodate, FALSE, 1, f[b].lock, f[b].data)
  BY <1>4, <1>5 DEF Becomes
<1> HIDE DEF f3
<1>7. Becomes(f3, f4, b, k, FALSE, FALSE, 1, f[b].lock, f[b].data)
  <2>1. /\ f3 \in [Buf -> Head_] /\ f3[b].block = k /\ f3[b].dirt = FALSE /\ f3[b].count = 1
        /\ f3[b].lock = f[b].lock /\ f3[b].data = f[b].data
    BY <1>6 DEF Becomes
  <2> QED
    BY <2>1, SetUptodate
<1> HIDE DEF f4
<1> QED
  BY <1>1, <1>6, <1>7 DEF Becomes

(* A program changes the contents.                                         *)
LEMMA SetUpdated ==
  ASSUME NEW f \in [Buf -> Head_], NEW b \in Buf,
         NEW v \in Value, NEW d \in BOOLEAN
  PROVE  Becomes(f, [f EXCEPT ![b].data = v, ![b].dirt = d], b,
                 f[b].block, f[b].uptodate, d, f[b].count, f[b].lock, v)
<1> DEFINE f1 == [f EXCEPT ![b].data = v]
           f2 == [f1 EXCEPT ![b].dirt = d]
<1>1. [f EXCEPT ![b].data = v, ![b].dirt = d] = f2
  BY DEF Head_
<1>2. Becomes(f, f1, b, f[b].block, f[b].uptodate, f[b].dirt, f[b].count, f[b].lock, v)
  BY SetData
<1> HIDE DEF f1
<1>3. Becomes(f1, f2, b, f[b].block, f[b].uptodate, d, f[b].count, f[b].lock, v)
  <2>1. /\ f1 \in [Buf -> Head_] /\ f1[b].block = f[b].block /\ f1[b].uptodate = f[b].uptodate
        /\ f1[b].count = f[b].count /\ f1[b].lock = f[b].lock /\ f1[b].data = v
    BY <1>2 DEF Becomes
  <2> QED
    BY <2>1, SetDirt
<1> HIDE DEF f2
<1> QED
  BY <1>1, <1>2, <1>3 DEF Becomes

(* new_block().                                                            *)
LEMMA SetCleared ==
  ASSUME NEW f \in [Buf -> Head_], NEW b \in Buf
  PROVE  Becomes(f, [f EXCEPT ![b].data = Zero, ![b].uptodate = TRUE, ![b].dirt = TRUE], b,
                 f[b].block, TRUE, TRUE, f[b].count, f[b].lock, Zero)
<1> DEFINE f1 == [f EXCEPT ![b].data = Zero]
           f2 == [f1 EXCEPT ![b].uptodate = TRUE]
           f3 == [f2 EXCEPT ![b].dirt = TRUE]
<1>1. [f EXCEPT ![b].data = Zero, ![b].uptodate = TRUE, ![b].dirt = TRUE] = f3
  BY DEF Head_
<1>2. Becomes(f, f1, b, f[b].block, f[b].uptodate, f[b].dirt, f[b].count, f[b].lock, Zero)
  BY BufferCacheAssumption, SetData
<1> HIDE DEF f1
<1>3. Becomes(f1, f2, b, f[b].block, TRUE, f[b].dirt, f[b].count, f[b].lock, Zero)
  <2>1. /\ f1 \in [Buf -> Head_] /\ f1[b].block = f[b].block /\ f1[b].dirt = f[b].dirt
        /\ f1[b].count = f[b].count /\ f1[b].lock = f[b].lock /\ f1[b].data = Zero
    BY <1>2 DEF Becomes
  <2> QED
    BY <2>1, SetUptodate
<1>4. Becomes(f, f2, b, f[b].block, TRUE, f[b].dirt, f[b].count, f[b].lock, Zero)
  BY <1>2, <1>3 DEF Becomes
<1> HIDE DEF f2
<1>5. Becomes(f2, f3, b, f[b].block, TRUE, TRUE, f[b].count, f[b].lock, Zero)
  <2>1. /\ f2 \in [Buf -> Head_] /\ f2[b].block = f[b].block /\ f2[b].uptodate = TRUE
        /\ f2[b].count = f[b].count /\ f2[b].lock = f[b].lock /\ f2[b].data = Zero
    BY <1>4 DEF Becomes
  <2> QED
    BY <2>1, SetDirt
<1> HIDE DEF f3
<1> QED
  BY <1>1, <1>4, <1>5 DEF Becomes

(* end_request().                                                          *)
LEMMA SetDone ==
  ASSUME NEW f \in [Buf -> Head_], NEW b \in Buf,
         NEW u \in BOOLEAN, NEW v \in Value
  PROVE  Becomes(f, [f EXCEPT ![b].uptodate = u, ![b].data = v, ![b].lock = FALSE], b,
                 f[b].block, u, f[b].dirt, f[b].count, FALSE, v)
<1> DEFINE f1 == [f EXCEPT ![b].uptodate = u]
           f2 == [f1 EXCEPT ![b].data = v]
           f3 == [f2 EXCEPT ![b].lock = FALSE]
<1>1. [f EXCEPT ![b].uptodate = u, ![b].data = v, ![b].lock = FALSE] = f3
  BY DEF Head_
<1>2. Becomes(f, f1, b, f[b].block, u, f[b].dirt, f[b].count, f[b].lock, f[b].data)
  BY SetUptodate
<1> HIDE DEF f1
<1>3. Becomes(f1, f2, b, f[b].block, u, f[b].dirt, f[b].count, f[b].lock, v)
  <2>1. /\ f1 \in [Buf -> Head_] /\ f1[b].block = f[b].block /\ f1[b].uptodate = u
        /\ f1[b].dirt = f[b].dirt /\ f1[b].count = f[b].count /\ f1[b].lock = f[b].lock
    BY <1>2 DEF Becomes
  <2> QED
    BY <2>1, SetData
<1>4. Becomes(f, f2, b, f[b].block, u, f[b].dirt, f[b].count, f[b].lock, v)
  BY <1>2, <1>3 DEF Becomes
<1> HIDE DEF f2
<1>5. Becomes(f2, f3, b, f[b].block, u, f[b].dirt, f[b].count, FALSE, v)
  <2>1. /\ f2 \in [Buf -> Head_] /\ f2[b].block = f[b].block /\ f2[b].uptodate = u
        /\ f2[b].dirt = f[b].dirt /\ f2[b].count = f[b].count /\ f2[b].data = v
    BY <1>4 DEF Becomes
  <2> QED
    BY <2>1, SetLock
<1> HIDE DEF f3
<1> QED
  BY <1>1, <1>4, <1>5 DEF Becomes

-----------------------------------------------------------------------------
(* Types.                                                                  *)

LEMMA KindsOfUse == Op \subseteq Kinds /\ "sync" \notin Op \ {"sync"}
BY DEF Op, Kinds

(* What Slot() does when there is a free one.                              *)
LEMMA SlotAsks ==
  ASSUME Types, Placed, NEW t \in Task, Slot(t), FreeSlots(req[t].rw) # {}
  PROVE  \E r \in Request :
            /\ r.buf = req[t].bh /\ r.cmd = req[t].rw
            /\ queue' = add_request(r)
            /\ buf' = [buf EXCEPT ![req[t].bh].dirt = FALSE]
            /\ req' = [req EXCEPT ![t] = NoReq]
            /\ pc' = [pc EXCEPT ![t] = req[t].ret] /\ cpu' = t
            /\ UNCHANGED <<free, sent, disk, errors, op, blk, bh, idx>>
<1> DEFINE slot == CHOOSE i \in FreeSlots(req[t].rw) : \A j \in FreeSlots(req[t].rw) : j <= i
           r == [buf |-> req[t].bh, cmd |-> req[t].rw, slot |-> slot]
<1>1. req[t].bh \in Buf /\ req[t].rw \in {"READ", "WRITE"}
  BY DEF Placed, PlacedAt, Slot, Runs, Requesting, Types, TaskTypes
<1>2. FreeSlots(req[t].rw) \subseteq 0 .. NrRequest - 1
  BY BufferCacheAssumption DEF FreeSlots
<1>3. slot \in 0 .. NrRequest - 1
  BY <1>2, LastSlot
<1> HIDE DEF slot
<1>4. r \in Request
  BY <1>1, <1>3 DEF Request
<1>5. r.buf = req[t].bh /\ r.cmd = req[t].rw
  OBVIOUS
<1> HIDE DEF r
<1>6. /\ queue' = add_request(r)
      /\ buf' = [buf EXCEPT ![req[t].bh].dirt = FALSE]
      /\ req' = [req EXCEPT ![t] = NoReq]
      /\ pc' = [pc EXCEPT ![t] = req[t].ret] /\ cpu' = t
      /\ UNCHANGED <<free, sent, disk, errors, op, blk, bh, idx>>
  BY DEF Slot, Runs, Goto, r, slot
<1> QED
  BY <1>4, <1>5, <1>6

LEMMA HeadOfQueue ==
  ASSUME Types, Real, queue # <<>>
  PROVE  /\ 1 \in DOMAIN queue /\ Head(queue) = queue[1]
         /\ Head(queue) \in Request /\ Tail(queue) \in Seq(Request)
         /\ Len(Tail(queue)) = Len(queue) - 1
         /\ \A i \in 1 .. Len(queue) - 1 : Tail(queue)[i] = queue[i + 1]
         /\ buf[Head(queue).buf].block \in Block
<1>1. queue \in Seq(Request) /\ 1 \in DOMAIN queue /\ queue[1] \in Request
  BY DEF Types, KernelTypes
<1>2. Head(queue) = queue[1] /\ Tail(queue) \in Seq(Request)
      /\ Len(Tail(queue)) = Len(queue) - 1
      /\ \A i \in 1 .. Len(queue) - 1 : Tail(queue)[i] = queue[i + 1]
  BY <1>1, HeadTailProperties
<1> QED
  BY <1>1, <1>2 DEF Real, Types, KernelTypes, Request, Head_

-----------------------------------------------------------------------------
(* What a step does to the invariant: it is one of these moves.            *)

(* t counts as a holder of b; t is about to queue a request for b.         *)
Holds(t, b) ==
    /\ bh[t] = b
    /\ \/ pc[t] \in {"found", "wait_read", "held", "copy", "release"}
       \/ pc[t] \in Requesting /\ req[t].ret = "wait_read"

Asks(t, b) == pc[t] \in Asking /\ req[t].bh = b

Wants(t, b) == pc[t] \in Requesting /\ req[t].bh = b

(* At most woken up.                                                       *)
Calm(t) ==
    /\ \/ pc'[t] = pc[t]
       \/ pc[t] = "buffer_wait" /\ pc'[t] = "find"
       \/ pc[t] = "wait_for_request" /\ pc'[t] = "slot"
    /\ op'[t] = op[t] /\ blk'[t] = blk[t] /\ bh'[t] = bh[t] /\ req'[t] = req[t]

(* b gets this block, this count and this lock.                            *)
Heads(b, k, n, l) ==
    \A c \in Buf : /\ buf'[c].block = IF c = b THEN k ELSE buf[c].block
                   /\ buf'[c].count = IF c = b THEN n ELSE buf[c].count
                   /\ buf'[c].lock = IF c = b THEN l ELSE buf[c].lock

SameHeads ==
    \A c \in Buf : /\ buf'[c].block = buf[c].block
                   /\ buf'[c].count = buf[c].count
                   /\ buf'[c].lock = buf[c].lock

Idle == SameHeads /\ queue' = queue /\ \A u \in Task : Calm(u)

Alone(t) == \A u \in Task \ {t} : Calm(u)

(* t goes on with what it has in its hands.                                *)
Walk(t) ==
    /\ SameHeads /\ queue' = queue /\ Alone(t)
    /\ \A b \in Buf : /\ Holds(t, b)' <=> Holds(t, b)
                      /\ Holds(t, b) => blk'[t] = blk[t]
                      /\ Asks(t, b)' <=> Asks(t, b)
                      /\ Wants(t, b)' => buf[b].block # NoBlock
    /\ PlacedAt(t)'

(* t takes a reference, or gives one back.                                 *)
Take(t, b) ==
    /\ Heads(b, buf[b].block, buf[b].count + 1, buf[b].lock) /\ queue' = queue /\ Alone(t)
    /\ buf[b].block = blk'[t]
    /\ \A c \in Buf : ~Holds(t, c) /\ (Holds(t, c)' <=> c = b)
    /\ \A c \in Buf : ~Asks(t, c) /\ ~Wants(t, c)' /\ ~Asks(t, c)'
    /\ PlacedAt(t)'

Drop(t, b) ==
    /\ Heads(b, buf[b].block, buf[b].count - 1, buf[b].lock) /\ queue' = queue /\ Alone(t)
    /\ \A c \in Buf : (Holds(t, c) <=> c = b) /\ ~Holds(t, c)'
    /\ \A c \in Buf : ~Asks(t, c) /\ ~Wants(t, c)' /\ ~Asks(t, c)'
    /\ PlacedAt(t)'

(* t gives b to its block.                                                 *)
Assign(t, b) ==
    /\ Heads(b, blk'[t], 1, buf[b].lock) /\ queue' = queue /\ Alone(t)
    /\ buf[b].count = 0
    /\ blk'[t] \in Block /\ \A c \in Buf : buf[c].block # blk'[t]
    /\ \A c \in Buf : ~Holds(t, c) /\ (Holds(t, c)' <=> c = b)
    /\ \A c \in Buf : ~Asks(t, c) /\ ~Asks(t, c)' /\ (Wants(t, c)' => c = b)
    /\ PlacedAt(t)'

(* t locks b, and queues a request for it.                                 *)
Lock(t, b) ==
    /\ Heads(b, buf[b].block, buf[b].count, TRUE) /\ queue' = queue /\ Alone(t)
    /\ ~buf[b].lock /\ buf[b].block # NoBlock
    /\ \A c \in Buf : /\ Holds(t, c)' <=> Holds(t, c)
                      /\ ~Asks(t, c) /\ (Asks(t, c)' <=> c = b) /\ (Wants(t, c)' => c = b)
    /\ blk'[t] = blk[t]
    /\ PlacedAt(t)'

Queue(t, b) ==
    /\ SameHeads /\ Alone(t)
    /\ \E r \in Request : r.buf = b /\ queue' = add_request(r)
    /\ Asks(t, b)
    /\ \A c \in Buf : /\ Holds(t, c)' <=> Holds(t, c)
                      /\ ~Asks(t, c)' /\ ~Wants(t, c)'
    /\ blk'[t] = blk[t]
    /\ PlacedAt(t)'

(* An interrupt finishes the first request.                                *)
Done ==
    /\ queue # <<>>
    /\ Heads(Head(queue).buf, buf[Head(queue).buf].block, buf[Head(queue).buf].count, FALSE)
    /\ queue' = Tail(queue)
    /\ \A u \in Task : Calm(u)

Move ==
    \/ Idle
    \/ \E t \in Task : Walk(t)
    \/ \E t \in Task, b \in Buf : Take(t, b) \/ Drop(t, b) \/ Assign(t, b) \/ Lock(t, b) \/ Queue(t, b)
    \/ Done

LEMMA BlocksAreReal == NoBlock \notin Block
BY DEF NoBlock, Block

LEMMA CallMoves ==
  ASSUME Types, Placed, NEW t \in Task, NEW o \in Op, NEW k \in Block, Call(t, o, k)
  PROVE  Types' /\ Move
<1>1. Types'
  BY KindsOfUse DEF Types, KernelTypes, TaskTypes, Call, Runs, Goto, kernelVars, Places
<1>2. Walk(t)
  BY KindsOfUse
     DEF Types, TaskTypes, Placed, PlacedAt, Call, Runs, Goto, kernelVars, Walk, SameHeads, Alone,
         Calm, Holds, Asks, Wants, Requesting, Asking, NoBuffer, Kinds
<1> QED
  BY <1>1, <1>2 DEF Move

LEMMA SyncMoves ==
  ASSUME Types, Placed, NEW t \in Task, sys_sync(t)
  PROVE  Types' /\ Move
<1>1. Types'
  BY BufferCacheAssumption
     DEF Types, KernelTypes, TaskTypes, sys_sync, Runs, Goto, kernelVars, Places, Kinds
<1>2. Walk(t)
  BY DEF Types, TaskTypes, Placed, PlacedAt, sys_sync, Runs, Goto, kernelVars, Walk, SameHeads,
         Alone, Calm, Holds, Asks, Wants, Requesting, Asking, NoBuffer
<1> QED
  BY <1>1, <1>2 DEF Move

(* A task that finds the buffer locked.                                    *)
LEMMA WaitMoves ==
  ASSUME Types, NEW t \in Task, NEW b, WaitLock(t, b)
  PROVE  Types' /\ Move
<1>1. Types'
  BY DEF Types, KernelTypes, TaskTypes, WaitLock, SleepAt, kernelVars
<1>2. Idle
  BY DEF Types, TaskTypes, WaitLock, SleepAt, kernelVars, Idle, SameHeads, Calm
<1> QED
  BY <1>1, <1>2 DEF Move

LEMMA FindMoves ==
  ASSUME Types, Placed, NEW t \in Task, Find(t)
  PROVE  Types' /\ Move
<1>1. CASE find_buffer(blk[t]) = {}
  <2>1. Types'
    BY <1>1 DEF Types, KernelTypes, TaskTypes, Find, Runs, Goto, Places
  <2>2. Walk(t)
    BY <1>1
       DEF Types, TaskTypes, Placed, PlacedAt, Find, Runs, Goto, Walk, SameHeads, Alone, Calm,
           Holds, Asks, Wants, Requesting, Asking, NoBuffer
  <2> QED
    BY <2>1, <2>2 DEF Move
<1>2. CASE find_buffer(blk[t]) # {}
  <2>1. PICK b \in find_buffer(blk[t]) :
           buf' = [buf EXCEPT ![b].count = @ + 1] /\ bh' = [bh EXCEPT ![t] = b] /\ Goto(t, "found")
    BY <1>2 DEF Find
  <2>2. b \in Buf /\ buf[b].block = blk[t] /\ buf \in [Buf -> Head_] /\ buf[b].count + 1 \in Int
    BY DEF find_buffer, Types, KernelTypes, Head_
  <2>3. Becomes(buf, buf', b, buf[b].block, buf[b].uptodate, buf[b].dirt, buf[b].count + 1,
                buf[b].lock, buf[b].data)
    BY <2>1, <2>2, SetCount
  <2>4. UNCHANGED <<free, queue, sent, disk, errors, op, blk, req, idx>> /\ pc[t] = "find"
    BY DEF Find, Runs
  <2>5. Types'
    BY <2>1, <2>2, <2>3, <2>4 DEF Types, KernelTypes, TaskTypes, Goto, Places, Becomes
  <2>6. Heads(b, buf[b].block, buf[b].count + 1, buf[b].lock)
    BY <2>3 DEF Becomes, Heads
  <2>7. Take(t, b)
    BY <2>1, <2>2, <2>4, <2>6
       DEF Types, TaskTypes, Placed, PlacedAt, Goto, Take, Alone, Calm, Holds, Asks, Wants,
           Requesting, Asking, NoBuffer
  <2> QED
    BY <2>2, <2>5, <2>7 DEF Move
<1> QED
  BY <1>1, <1>2

LEMMA SearchMoves ==
  ASSUME Types, Placed, NEW t \in Task, Search(t)
  PROVE  Types' /\ Move
<1>1. Unused # {} => Victim \in Buf
  BY VictimUnused
<1>2. Types'
  <2>1. CASE Unused = {}
    BY <2>1 DEF Types, KernelTypes, TaskTypes, Search, Runs, SleepAt, kernelVars, Places
  <2>2. CASE Unused # {}
    <3>1. /\ bh' = [bh EXCEPT ![t] = Victim] /\ Goto(t, "victim")
          /\ UNCHANGED <<kernelVars, op, blk, req, idx>>
      BY <2>2 DEF Search
    <3> QED
      BY <1>1, <2>2, <3>1 DEF Types, KernelTypes, TaskTypes, Goto, kernelVars, Places
  <2> QED
    BY <2>1, <2>2
<1>3. Walk(t)
  BY <1>1
     DEF Types, TaskTypes, Placed, PlacedAt, Search, Runs, Goto, SleepAt, kernelVars, Walk,
         SameHeads, Alone, Calm, Holds, Asks, Wants, Requesting, Asking, NoBuffer
<1> QED
  BY <1>2, <1>3 DEF Move

(* What a buffer that getblk() returns is used for.                        *)
LEMMA GotMoves ==
  ASSUME Types, NEW t \in Task, NEW u \in BOOLEAN, Got(t, u), op[t] # "sync", bh[t] \in Buf
  PROVE  /\ cpu' = t
         /\ pc' \in [Task -> Places]
         /\ req' \in [Task -> [rw : {"READ", "WRITE"}, bh : Buf \cup {0}, ret : Places]]
         /\ \/ /\ pc' = [pc EXCEPT ![t] = "lock_buffer"]
               /\ req' = [req EXCEPT ![t] = [rw |-> "READ", bh |-> bh[t], ret |-> "wait_read"]]
            \/ pc' = [pc EXCEPT ![t] = "copy"] /\ req' = req
            \/ pc' = [pc EXCEPT ![t] = "held"] /\ req' = req
<1> DEFINE r == [rw |-> "READ", bh |-> bh[t], ret |-> "wait_read"]
<1>1. r \in [rw : {"READ", "WRITE"}, bh : Buf \cup {0}, ret : Places]
  BY DEF Places
<1> HIDE DEF r
<1>2. /\ cpu' = t
      /\ \/ pc' = [pc EXCEPT ![t] = "lock_buffer"] /\ req' = [req EXCEPT ![t] = r]
         \/ pc' = [pc EXCEPT ![t] = "copy"] /\ req' = req
         \/ pc' = [pc EXCEPT ![t] = "held"] /\ req' = req
  BY DEF Got, Goto, r
<1>3. pc' \in [Task -> Places]
  BY <1>2 DEF Types, TaskTypes, Places
<1>4. req' \in [Task -> [rw : {"READ", "WRITE"}, bh : Buf \cup {0}, ret : Places]]
  BY <1>1, <1>2 DEF Types, TaskTypes
<1> QED
  BY <1>2, <1>3, <1>4 DEF r

LEMMA FoundMoves ==
  ASSUME Types, Placed, NEW t \in Task, Found(t)
  PROVE  Types' /\ Move
<1>1. /\ pc[t] = "found" /\ op[t] # "sync" /\ bh[t] \in Buf /\ blk[t] \in Block
      /\ buf \in [Buf -> Head_] /\ buf[bh[t]] \in Head_
  BY DEF Found, Runs, Placed, PlacedAt, NoBuffer, Requesting, Types, KernelTypes
<1>2. CASE WaitLock(t, bh[t])
  BY <1>2, WaitMoves
<1>3. CASE ~buf[bh[t]].lock /\ buf[bh[t]].block = blk[t] /\ ~WaitLock(t, bh[t])
  <2>1. /\ Got(t, buf[bh[t]].uptodate)
        /\ UNCHANGED <<buf, bh, free, queue, sent, disk, errors, op, blk, idx>>
    BY <1>3 DEF Found
  <2>2. buf[bh[t]].uptodate \in BOOLEAN
    BY <1>1 DEF Head_
  <2>3. /\ cpu' = t
        /\ pc' \in [Task -> Places]
        /\ req' \in [Task -> [rw : {"READ", "WRITE"}, bh : Buf \cup {0}, ret : Places]]
        /\ \/ /\ pc' = [pc EXCEPT ![t] = "lock_buffer"]
              /\ req' = [req EXCEPT ![t] = [rw |-> "READ", bh |-> bh[t], ret |-> "wait_read"]]
           \/ pc' = [pc EXCEPT ![t] = "copy"] /\ req' = req
           \/ pc' = [pc EXCEPT ![t] = "held"] /\ req' = req
    BY <1>1, <2>1, <2>2, GotMoves
  <2>4. KernelTypes'
    BY <2>1 DEF Types, KernelTypes
  <2>6. TaskTypes'
    BY <2>1, <2>3 DEF Types, TaskTypes
  <2>5. Walk(t)
    BY <1>1, <1>3, <2>1, <2>3, BlocksAreReal
       DEF Types, TaskTypes, PlacedAt, Walk, SameHeads, Alone, Calm, Holds, Asks, Wants,
           Requesting, Asking, NoBuffer
  <2> QED
    BY <2>4, <2>5, <2>6 DEF Types, Move
<1>4. CASE ~buf[bh[t]].lock /\ buf[bh[t]].block # blk[t] /\ ~WaitLock(t, bh[t])
  <2>1. /\ buf' = [buf EXCEPT ![bh[t]].count = @ - 1]
        /\ bh' = [bh EXCEPT ![t] = 0]
        /\ Goto(t, "find")
        /\ UNCHANGED <<req, free, queue, sent, disk, errors, op, blk, idx>>
    BY <1>4 DEF Found
  <2>2. buf[bh[t]].count - 1 \in Int
    BY <1>1 DEF Head_
  <2>3. PICK b \in Buf : b = bh[t]
    BY <1>1
  <2>4. Becomes(buf, buf', b, buf[b].block, buf[b].uptodate, buf[b].dirt, buf[b].count - 1,
                buf[b].lock, buf[b].data)
    BY <1>1, <2>1, <2>2, <2>3, SetCount
  <2>5. Types'
    BY <2>1, <2>4 DEF Types, KernelTypes, TaskTypes, Goto, Places, Becomes
  <2>6. Heads(b, buf[b].block, buf[b].count - 1, buf[b].lock)
    BY <2>4 DEF Becomes, Heads
  <2>7. Drop(t, b)
    BY <1>1, <2>1, <2>3, <2>6
       DEF Types, TaskTypes, Goto, PlacedAt, Drop, Alone, Calm, Holds, Asks, Wants,
           Requesting, Asking, NoBuffer
  <2> QED
    BY <2>5, <2>7 DEF Move
<1> QED
  BY <1>2, <1>3, <1>4 DEF Found

LEMMA VictimMoves ==
  ASSUME Types, Placed, \A b \in Buf : buf[b].count \in Nat, NEW t \in Task, TakeVictim(t)
  PROVE  Types' /\ Move
<1>1. /\ pc[t] = "victim" /\ op[t] # "sync" /\ bh[t] \in Buf /\ blk[t] \in Block
      /\ buf \in [Buf -> Head_] /\ buf[bh[t]] \in Head_
  BY DEF TakeVictim, Runs, Placed, PlacedAt, NoBuffer, Requesting, Types, KernelTypes
<1>2. CASE WaitLock(t, bh[t])
  BY <1>2, WaitMoves
<1>3. ASSUME bh' = [bh EXCEPT ![t] = 0], Goto(t, "find"), UNCHANGED <<buf, free, req>>,
             UNCHANGED <<queue, sent, disk, errors, op, blk, idx>>
      PROVE  Types' /\ Move
  <2>1. Types'
    BY <1>3 DEF Types, KernelTypes, TaskTypes, Goto, Places
  <2>2. Walk(t)
    BY <1>1, <1>3
       DEF Types, TaskTypes, Goto, PlacedAt, Walk, SameHeads, Alone, Calm, Holds, Asks, Wants,
           Requesting, Asking, NoBuffer
  <2> QED
    BY <2>1, <2>2 DEF Move
<1>4. ASSUME Goto(t, "sync"), UNCHANGED <<buf, free, bh, req>>,
             UNCHANGED <<queue, sent, disk, errors, op, blk, idx>>
      PROVE  Types' /\ Move
  <2>1. Types'
    BY <1>4 DEF Types, KernelTypes, TaskTypes, Goto, Places
  <2>2. Walk(t)
    BY <1>1, <1>4
       DEF Types, TaskTypes, Goto, PlacedAt, Walk, SameHeads, Alone, Calm, Holds, Asks, Wants,
           Requesting, Asking, NoBuffer
  <2> QED
    BY <2>1, <2>2 DEF Move
<1>5. ASSUME ~TakenMeanwhile(bh[t]), ~BroughtIn(blk[t]), ~buf[bh[t]].lock,
             buf[bh[t]].count = 0,
             buf' = [buf EXCEPT ![bh[t]].block = blk[t], ![bh[t]].count = 1,
                                ![bh[t]].dirt = FALSE, ![bh[t]].uptodate = FALSE],
             free' = MoveToEnd(bh[t]),
             Got(t, FALSE),
             UNCHANGED bh,
             UNCHANGED <<queue, sent, disk, errors, op, blk, idx>>
      PROVE  Types' /\ Move
  <2>1. MoveToEnd(bh[t]) \in [1 .. NBuf -> Buf]
    BY <1>1, BufferCacheAssumption DEF MoveToEnd, Types, KernelTypes
  <2>2. /\ cpu' = t
        /\ pc' \in [Task -> Places]
        /\ req' \in [Task -> [rw : {"READ", "WRITE"}, bh : Buf \cup {0}, ret : Places]]
        /\ \/ /\ pc' = [pc EXCEPT ![t] = "lock_buffer"]
              /\ req' = [req EXCEPT ![t] = [rw |-> "READ", bh |-> bh[t], ret |-> "wait_read"]]
           \/ pc' = [pc EXCEPT ![t] = "copy"] /\ req' = req
           \/ pc' = [pc EXCEPT ![t] = "held"] /\ req' = req
    BY <1>1, <1>5, GotMoves
  <2>3. PICK b \in Buf : b = bh[t]
    BY <1>1
  <2>4. Becomes(buf, buf', b, blk[t], FALSE, FALSE, 1, buf[b].lock, buf[b].data)
    BY <1>1, <1>5, <2>3, SetTaken
  <2>5. KernelTypes'
    BY <1>5, <2>1, <2>4 DEF Types, KernelTypes, Becomes
  <2>9. TaskTypes'
    BY <1>5, <2>2 DEF Types, TaskTypes
  <2>6. Heads(b, blk'[t], 1, buf[b].lock)
    BY <1>5, <2>4 DEF Becomes, Heads
  <2>7. \A c \in Buf : buf[c].block # blk'[t]
    BY <1>5 DEF BroughtIn, find_buffer
  <2>8. Assign(t, b)
    BY <1>1, <1>5, <2>2, <2>3, <2>6, <2>7
       DEF Types, TaskTypes, PlacedAt, Assign, Alone, Calm, Holds, Asks, Wants,
           Requesting, Asking, NoBuffer
  <2> QED
    BY <2>5, <2>8, <2>9 DEF Types, Move
<1>6. ~TakenMeanwhile(bh[t]) => buf[bh[t]].count = 0
  BY <1>1 DEF TakenMeanwhile
<1>7. CASE ~WaitLock(t, bh[t])
  <2>1. UNCHANGED <<queue, sent, disk, errors, op, blk, idx>> /\ ~buf[bh[t]].lock
    BY <1>7 DEF TakeVictim
  <2>2. \/ bh' = [bh EXCEPT ![t] = 0] /\ Goto(t, "find") /\ UNCHANGED <<buf, free, req>>
        \/ Goto(t, "sync") /\ UNCHANGED <<buf, free, bh, req>>
        \/ /\ ~TakenMeanwhile(bh[t]) /\ ~BroughtIn(blk[t])
           /\ buf' = [buf EXCEPT ![bh[t]].block = blk[t], ![bh[t]].count = 1,
                                 ![bh[t]].dirt = FALSE, ![bh[t]].uptodate = FALSE]
           /\ free' = MoveToEnd(bh[t])
           /\ Got(t, FALSE)
           /\ UNCHANGED bh
    BY <1>7 DEF TakeVictim
  <2> QED
    BY <1>3, <1>4, <1>5, <1>6, <2>1, <2>2
<1> QED
  BY <1>2, <1>7

LEMMA SyncStepMoves ==
  ASSUME Types, Placed, NEW t \in Task, SyncStep(t)
  PROVE  Types' /\ Move
<1>1. pc[t] = "sync" /\ PlacedAt(t) /\ idx[t] \in 0 .. 2 * NBuf /\ idx[t] \in Nat
  BY BufferCacheAssumption DEF SyncStep, Runs, Placed, Types, TaskTypes
<1>2. ASSUME UNCHANGED kernelVars, Return(t, pc), op[t] = "sync"
      PROVE  Types' /\ Move
  <2>1. Types'
    BY <1>2, BufferCacheAssumption DEF Types, KernelTypes, TaskTypes, kernelVars, Return, Places
  <2>2. Walk(t)
    BY <1>1, <1>2
       DEF Types, TaskTypes, kernelVars, Return, PlacedAt, Walk, SameHeads, Alone, Calm, Holds,
           Asks, Wants, Requesting, Asking, NoBuffer
  <2> QED
    BY <2>1, <2>2 DEF Move
<1>3. ASSUME UNCHANGED kernelVars, op[t] # "sync", idx' = [idx EXCEPT ![t] = 0],
             Goto(t, "victim"), UNCHANGED <<op, blk, bh, req>>
      PROVE  Types' /\ Move
  <2>1. Types'
    BY <1>3, BufferCacheAssumption DEF Types, KernelTypes, TaskTypes, kernelVars, Goto, Places
  <2>2. Walk(t)
    BY <1>1, <1>3
       DEF Types, TaskTypes, kernelVars, Goto, PlacedAt, Walk, SameHeads, Alone, Calm, Holds,
           Asks, Wants, Requesting, Asking, NoBuffer
  <2> QED
    BY <2>1, <2>2 DEF Move
<1>4. ASSUME idx[t] < 2 * NBuf, NEW b \in Buf, b = (idx[t] % NBuf) + 1,
             idx' = [idx EXCEPT ![t] = @ + 1],
             UNCHANGED <<kernelVars, op, blk, bh>>
      PROVE  UNCHANGED req /\ Goto(t, "sync") => Types' /\ Move
  <2> SUFFICES ASSUME UNCHANGED req, Goto(t, "sync") PROVE Types' /\ Move
    OBVIOUS
  <2>1. Types'
    BY <1>1, <1>4, BufferCacheAssumption
       DEF Types, KernelTypes, TaskTypes, kernelVars, Goto, Places
  <2>2. Walk(t)
    BY <1>1, <1>4
       DEF Types, TaskTypes, kernelVars, Goto, PlacedAt, Walk, SameHeads, Alone, Calm, Holds,
           Asks, Wants, Requesting, Asking, NoBuffer
  <2> QED
    BY <2>1, <2>2 DEF Move
<1>5. ASSUME idx[t] < 2 * NBuf, NEW b \in Buf, b = (idx[t] % NBuf) + 1,
             idx' = [idx EXCEPT ![t] = @ + 1],
             UNCHANGED <<kernelVars, op, blk, bh>>,
             buf[b].block # NoBlock,
             req' = [req EXCEPT ![t] = [rw |-> "WRITE", bh |-> b, ret |-> "sync"]],
             Goto(t, "lock_buffer")
      PROVE  Types' /\ Move
  <2>1. KernelTypes'
    BY <1>5 DEF Types, KernelTypes, kernelVars
  <2>2. TaskTypes'
    <3>1. idx' \in [Task -> 0 .. 2 * NBuf]
      BY <1>1, <1>5, BufferCacheAssumption DEF Types, TaskTypes
    <3>2. [rw |-> "WRITE", bh |-> b, ret |-> "sync"] \in
             [rw : {"READ", "WRITE"}, bh : Buf \cup {0}, ret : Places]
      BY DEF Places
    <3>3. req' \in [Task -> [rw : {"READ", "WRITE"}, bh : Buf \cup {0}, ret : Places]]
      BY <1>5, <3>2 DEF Types, TaskTypes
    <3>4. pc' \in [Task -> Places] /\ cpu' \in Task
      BY <1>5 DEF Types, TaskTypes, Goto, Places
    <3> QED
      BY <1>5, <3>1, <3>3, <3>4 DEF Types, TaskTypes
  <2>3. Walk(t)
    BY <1>1, <1>5
       DEF Types, TaskTypes, kernelVars, Goto, PlacedAt, Walk, SameHeads, Alone, Calm, Holds,
           Asks, Wants, Requesting, Asking, NoBuffer
  <2> QED
    BY <2>1, <2>2, <2>3 DEF Types, Move
<1>6. CASE idx[t] = 2 * NBuf
  BY <1>1, <1>2, <1>3, <1>6 DEF SyncStep
<1>7. CASE idx[t] < 2 * NBuf
  <2>1. (idx[t] % NBuf) + 1 \in Buf
    BY <1>1, BufferCacheAssumption DEF Buf
  <2>2. PICK b \in Buf : b = (idx[t] % NBuf) + 1
    BY <2>1
  <2>3. \/ WaitLock(t, b)
        \/ /\ idx' = [idx EXCEPT ![t] = @ + 1]
           /\ \/ /\ buf[b].block # NoBlock
                 /\ req' = [req EXCEPT ![t] = [rw |-> "WRITE", bh |-> b, ret |-> "sync"]]
                 /\ Goto(t, "lock_buffer")
              \/ UNCHANGED req /\ Goto(t, "sync")
           /\ UNCHANGED <<kernelVars, op, blk, bh>>
    BY <1>1, <1>7, <2>2 DEF SyncStep
  <2> QED
    BY <1>4, <1>5, <1>7, <2>2, <2>3, WaitMoves
<1> QED
  BY <1>6, <1>7 DEF SyncStep

LEMMA WaitReadMoves ==
  ASSUME Types, Placed, NEW t \in Task, WaitRead(t)
  PROVE  Types' /\ Move
<1>1. CASE WaitLock(t, bh[t])
  BY <1>1, WaitMoves
<1>2. CASE ~WaitLock(t, bh[t])
  <2>1. Types'
    BY <1>2 DEF Types, KernelTypes, TaskTypes, WaitRead, Goto, Keep, kernelVars, Places
  <2>2. Walk(t)
    BY <1>2
       DEF Types, TaskTypes, Placed, WaitRead, Runs, Goto, Keep, kernelVars, PlacedAt, Walk,
           SameHeads, Alone, Calm, Holds, Asks, Wants, Requesting, Asking, NoBuffer
  <2> QED
    BY <2>1, <2>2 DEF Move
<1> QED
  BY <1>1, <1>2

LEMMA LockMoves ==
  ASSUME Types, Placed, Real, NEW t \in Task, LockBuffer(t)
  PROVE  Types' /\ Move
<1>1. /\ pc[t] = "lock_buffer" /\ PlacedAt(t)
      /\ req[t].bh \in Buf /\ req[t].ret \in {"wait_read", "sync"}
      /\ buf[req[t].bh].block # NoBlock
  BY DEF LockBuffer, Runs, Placed, PlacedAt, Real, Requesting
<1>2. CASE WaitLock(t, req[t].bh)
  BY <1>2, WaitMoves
<1>3. CASE ~WaitLock(t, req[t].bh) /\ NothingToDo(req[t])
  <2>1. /\ req' = [req EXCEPT ![t] = NoReq]
        /\ Goto(t, req[t].ret)
        /\ UNCHANGED <<buf, free, queue, sent, disk, errors, op, blk, bh, idx>>
    BY <1>3 DEF LockBuffer
  <2>2. NoReq \in [rw : {"READ", "WRITE"}, bh : Buf \cup {0}, ret : Places]
    BY DEF NoReq, Places
  <2>3. Types'
    BY <1>1, <2>1, <2>2 DEF Types, KernelTypes, TaskTypes, Goto, Places
  <2>4. Walk(t)
    BY <1>1, <2>1
       DEF Types, TaskTypes, Goto, PlacedAt, Walk, SameHeads, Alone, Calm, Holds, Asks, Wants,
           Requesting, Asking, NoBuffer
  <2> QED
    BY <2>3, <2>4 DEF Move
<1>4. CASE ~WaitLock(t, req[t].bh) /\ ~NothingToDo(req[t])
  <2>1. /\ buf' = [buf EXCEPT ![req[t].bh].lock = TRUE] /\ ~buf[req[t].bh].lock
        /\ Goto(t, "slot")
        /\ UNCHANGED <<req, free, queue, sent, disk, errors, op, blk, bh, idx>>
    BY <1>4 DEF LockBuffer
  <2>2. PICK b \in Buf : b = req[t].bh
    BY <1>1
  <2>3. Becomes(buf, buf', b, buf[b].block, buf[b].uptodate, buf[b].dirt, buf[b].count,
                TRUE, buf[b].data)
    BY <2>1, <2>2, SetLock DEF Types, KernelTypes
  <2>4. Types'
    BY <2>1, <2>3 DEF Types, KernelTypes, TaskTypes, Goto, Places, Becomes
  <2>5. Heads(b, buf[b].block, buf[b].count, TRUE)
    BY <2>3 DEF Becomes, Heads
  <2>6. Lock(t, b)
    BY <1>1, <2>1, <2>2, <2>5
       DEF Types, TaskTypes, Goto, PlacedAt, Lock, Alone, Calm, Holds, Asks, Wants,
           Requesting, Asking, NoBuffer
  <2> QED
    BY <2>4, <2>6 DEF Move
<1> QED
  BY <1>2, <1>3, <1>4

LEMMA SlotMoves ==
  ASSUME Types, Placed, Real, NEW t \in Task, Slot(t)
  PROVE  Types' /\ Move
<1>1. /\ pc[t] = "slot" /\ PlacedAt(t)
      /\ req[t].bh \in Buf /\ req[t].ret \in {"wait_read", "sync"}
      /\ buf[req[t].bh].block # NoBlock
  BY DEF Slot, Runs, Placed, PlacedAt, Real, Requesting
<1>2. CASE FreeSlots(req[t].rw) = {}
  <2>1. SleepAt(t, "wait_for_request") /\ UNCHANGED <<kernelVars, req, op, blk, bh, idx>>
    BY <1>2 DEF Slot, kernelVars
  <2>2. Types'
    BY <2>1 DEF Types, KernelTypes, TaskTypes, SleepAt, kernelVars, Places
  <2>3. Walk(t)
    BY <1>1, <2>1
       DEF Types, TaskTypes, SleepAt, kernelVars, PlacedAt, Walk, SameHeads, Alone, Calm, Holds,
           Asks, Wants, Requesting, Asking, NoBuffer
  <2> QED
    BY <2>2, <2>3 DEF Move
<1>3. CASE FreeSlots(req[t].rw) # {}
  <2>1. PICK r \in Request :
            /\ r.buf = req[t].bh
            /\ queue' = add_request(r)
            /\ buf' = [buf EXCEPT ![req[t].bh].dirt = FALSE]
            /\ req' = [req EXCEPT ![t] = NoReq]
            /\ pc' = [pc EXCEPT ![t] = req[t].ret] /\ cpu' = t
            /\ UNCHANGED <<free, sent, disk, errors, op, blk, bh, idx>>
    BY <1>3, SlotAsks
  <2>2. add_request(r) \in Seq(Request)
    BY Inserted
  <2>3. NoReq \in [rw : {"READ", "WRITE"}, bh : Buf \cup {0}, ret : Places]
    BY DEF NoReq, Places
  <2>4. PICK b \in Buf : b = req[t].bh
    BY <1>1
  <2>5. Becomes(buf, buf', b, buf[b].block, buf[b].uptodate, FALSE, buf[b].count,
                buf[b].lock, buf[b].data)
    BY <2>1, <2>4, SetDirt DEF Types, KernelTypes
  <2>6. Types'
    BY <1>1, <2>1, <2>2, <2>3, <2>5 DEF Types, KernelTypes, TaskTypes, Places, Becomes
  <2>7. SameHeads
    BY <2>5 DEF Becomes, SameHeads
  <2>8. \A c \in Buf : Holds(t, c)' <=> Holds(t, c)
    BY <1>1, <2>1 DEF Types, TaskTypes, Holds, Requesting
  <2>9. Queue(t, b)
    BY <1>1, <2>1, <2>4, <2>7, <2>8
       DEF Types, TaskTypes, PlacedAt, Queue, Alone, Calm, Asks, Wants, Requesting, Asking,
           NoBuffer
  <2> QED
    BY <2>6, <2>9 DEF Move
<1> QED
  BY <1>2, <1>3

(* The holder of a buffer that is not given to another block goes on.      *)
LEMMA HolderMoves ==
  ASSUME Types, Placed, NEW t \in Task, pc[t] \in {"held", "copy"}, op[t] # "sync",
         SameHeads, queue' = queue,
         NEW p \in {"copy", "release"}, Goto(t, p), Keep(t)
  PROVE  TaskTypes' /\ Move
<1>1. TaskTypes'
  BY DEF Types, TaskTypes, Goto, Keep, Places
<1>2. Walk(t)
  BY DEF Types, TaskTypes, Placed, PlacedAt, Goto, Keep, Walk, Alone, Calm, Holds, Asks, Wants,
         Requesting, Asking, NoBuffer
<1> QED
  BY <1>1, <1>2 DEF Move

LEMMA HolderHas ==
  ASSUME Types, Placed, NEW t \in Task, pc[t] \in {"held", "copy"}
  PROVE  op[t] # "sync" /\ bh[t] \in Buf /\ buf \in [Buf -> Head_] /\ buf[bh[t]] \in Head_
BY DEF Types, KernelTypes, Placed, PlacedAt, NoBuffer, Requesting

LEMMA ProgramMoves ==
  ASSUME Types, Placed, NEW t \in Task,
         \/ file_read(t) \/ file_write(t) \/ new_block(t)
         \/ \E v \in Value : Update(t, v) \/ Copy(t, v)
  PROVE  Types' /\ Move
<1>1. pc[t] \in {"held", "copy"}
  BY DEF file_read, file_write, new_block, Update, Copy, Runs
<1>2. /\ op[t] # "sync" /\ bh[t] \in Buf /\ buf \in [Buf -> Head_] /\ buf[bh[t]] \in Head_
      /\ UNCHANGED <<free, queue, sent, disk, errors>>
      /\ Keep(t)
  BY <1>1, HolderHas DEF file_read, file_write, new_block, Update, Copy, kernelVars
<1>3. CASE file_read(t)
  <2>1. UNCHANGED buf /\ Goto(t, "release")
    BY <1>3 DEF file_read, kernelVars
  <2>2. SameHeads /\ KernelTypes'
    BY <1>2, <2>1 DEF SameHeads, Types, KernelTypes
  <2> QED
    BY <1>1, <1>2, <2>1, <2>2, HolderMoves DEF Types
<1>4. CASE file_write(t)
  <2>1. buf' = [buf EXCEPT ![bh[t]].dirt = TRUE] /\ Goto(t, "copy")
    BY <1>4 DEF file_write
  <2>2. Becomes(buf, buf', bh[t], buf[bh[t]].block, buf[bh[t]].uptodate, TRUE,
                buf[bh[t]].count, buf[bh[t]].lock, buf[bh[t]].data)
    BY <1>2, <2>1, SetDirt
  <2>3. SameHeads /\ KernelTypes'
    BY <1>2, <2>2 DEF Becomes, SameHeads, Types, KernelTypes
  <2> QED
    BY <1>1, <1>2, <2>1, <2>3, HolderMoves DEF Types
<1>5. CASE new_block(t)
  <2>1. /\ buf' = [buf EXCEPT ![bh[t]].data = Zero, ![bh[t]].uptodate = TRUE,
                              ![bh[t]].dirt = TRUE]
        /\ Goto(t, "release")
    BY <1>5 DEF new_block
  <2>2. Becomes(buf, buf', bh[t], buf[bh[t]].block, TRUE, TRUE,
                buf[bh[t]].count, buf[bh[t]].lock, Zero)
    BY <1>2, <2>1, SetCleared
  <2>3. SameHeads /\ KernelTypes'
    BY <1>2, <2>2 DEF Becomes, SameHeads, Types, KernelTypes
  <2> QED
    BY <1>1, <1>2, <2>1, <2>3, HolderMoves DEF Types
<1>6. ASSUME NEW v \in Value, Update(t, v) \/ Copy(t, v)
      PROVE  Types' /\ Move
  <2>1. PICK d \in BOOLEAN : buf' = [buf EXCEPT ![bh[t]].data = v, ![bh[t]].dirt = d]
    <3>1. CASE Update(t, v)
      BY <3>1 DEF Update
    <3>2. CASE Copy(t, v)
      <4>1. buf' = [buf EXCEPT ![bh[t]].data = v,
                               ![bh[t]].dirt = buf[bh[t]].dirt \/ op[t] = "block_write"]
        BY <1>2, <3>2 DEF Copy, Head_
      <4>2. (buf[bh[t]].dirt \/ op[t] = "block_write") \in BOOLEAN
        OBVIOUS
      <4> QED
        BY <4>1, <4>2
    <3> QED
      BY <1>6, <3>1, <3>2
  <2>2. Goto(t, "release")
    BY <1>6 DEF Update, Copy
  <2>3. Becomes(buf, buf', bh[t], buf[bh[t]].block, buf[bh[t]].uptodate, d,
                buf[bh[t]].count, buf[bh[t]].lock, v)
    BY <1>2, <2>1, SetUpdated
  <2>4. SameHeads /\ KernelTypes'
    BY <1>2, <2>3 DEF Becomes, SameHeads, Types, KernelTypes
  <2> QED
    BY <1>1, <1>2, <2>2, <2>4, HolderMoves DEF Types
<1> QED
  BY <1>3, <1>4, <1>5, <1>6

LEMMA ReleaseMoves ==
  ASSUME Types, Placed, NEW t \in Task, brelse(t)
  PROVE  Types' /\ Move
<1>1. /\ pc[t] = "release" /\ PlacedAt(t) /\ op[t] # "sync" /\ bh[t] \in Buf
      /\ buf \in [Buf -> Head_] /\ buf[bh[t]] \in Head_
  BY DEF brelse, Runs, Placed, PlacedAt, NoBuffer, Requesting, Types, KernelTypes
<1>2. CASE WaitLock(t, bh[t])
  BY <1>2, WaitMoves
<1>3. CASE ~WaitLock(t, bh[t])
  <2>1. /\ buf' = [buf EXCEPT ![bh[t]].count = @ - 1]
        /\ Return(t, Woken("buffer_wait", "find"))
        /\ UNCHANGED <<free, queue, sent, disk, errors>>
    BY <1>3 DEF brelse
  <2>2. buf[bh[t]].count - 1 \in Int
    BY <1>1 DEF Head_
  <2>3. PICK b \in Buf : b = bh[t]
    BY <1>1
  <2>4. Becomes(buf, buf', b, buf[b].block, buf[b].uptodate, buf[b].dirt, buf[b].count - 1,
                buf[b].lock, buf[b].data)
    BY <1>1, <2>1, <2>2, <2>3, SetCount
  <2>5. Woken("buffer_wait", "find") \in [Task -> Places]
    BY DEF Woken, Types, TaskTypes, Places
  <2>6. KernelTypes'
    BY <2>1, <2>4 DEF Types, KernelTypes, Becomes
  <2>7. TaskTypes'
    BY <2>1, <2>5, BufferCacheAssumption DEF Types, TaskTypes, Return, Places
  <2>8. Heads(b, buf[b].block, buf[b].count - 1, buf[b].lock)
    BY <2>4 DEF Becomes, Heads
  <2>9. Drop(t, b)
    BY <1>1, <2>1, <2>3, <2>5, <2>8
       DEF Types, TaskTypes, Return, Woken, PlacedAt, Drop, Alone, Calm, Holds, Asks, Wants,
           Requesting, Asking, NoBuffer
  <2> QED
    BY <2>6, <2>7, <2>9 DEF Types, Move
<1> QED
  BY <1>2, <1>3

LEMMA OtherMoves ==
  ASSUME Types, NEW t \in Task, HolderSleeps(t) \/ StrayWakeup(t)
  PROVE  Types' /\ Move
<1>1. Types'
  BY DEF Types, KernelTypes, TaskTypes, HolderSleeps, StrayWakeup, kernelVars, taskVars, Places
<1>2. Idle
  BY DEF Types, TaskTypes, HolderSleeps, StrayWakeup, kernelVars, taskVars, Idle, SameHeads, Calm
<1> QED
  BY <1>1, <1>2 DEF Move

LEMMA TransferMoves ==
  ASSUME Types, Real, Transfer
  PROVE  Types' /\ Move
<1>1. Head(queue) \in Request
  BY HeadOfQueue DEF Transfer
<1>2. buf[Head(queue).buf].data \in Value
  BY <1>1 DEF Request, Types, KernelTypes, Head_
<1>3. Types'
  BY <1>2 DEF Types, KernelTypes, TaskTypes, Transfer, taskVars
<1>4. Idle
  BY DEF Types, TaskTypes, Transfer, taskVars, Idle, SameHeads, Calm
<1> QED
  BY <1>3, <1>4 DEF Move

LEMMA DoneMoves ==
  ASSUME Types, Real, queue # <<>>, NEW u \in BOOLEAN, NEW d \in Value, end_request(u, d),
         disk' \in [Block -> Value], errors' \in 0 .. MaxErrors
  PROVE  Types' /\ Move
<1>1. /\ Head(queue) \in Request /\ Tail(queue) \in Seq(Request)
      /\ Head(queue).buf \in Buf /\ buf \in [Buf -> Head_]
  BY HeadOfQueue DEF Request, Types, KernelTypes
<1>2. Becomes(buf, buf', Head(queue).buf, buf[Head(queue).buf].block, u,
              buf[Head(queue).buf].dirt, buf[Head(queue).buf].count, FALSE, d)
  <2>1. PICK b \in Buf : b = Head(queue).buf
    BY <1>1
  <2>2. buf' = [buf EXCEPT ![b].uptodate = u, ![b].data = d, ![b].lock = FALSE]
    BY <2>1 DEF end_request
  <2>3. Becomes(buf, buf', b, buf[b].block, u, buf[b].dirt, buf[b].count, FALSE, d)
    <3>1. buf \in [Buf -> Head_] /\ b \in Buf /\ u \in BOOLEAN /\ d \in Value
      BY <1>1
    <3>2. Becomes(buf, [buf EXCEPT ![b].uptodate = u, ![b].data = d, ![b].lock = FALSE], b,
                  buf[b].block, u, buf[b].dirt, buf[b].count, FALSE, d)
      <4>1. CASE u = TRUE
        BY <3>1, <4>1, SetDone
      <4>2. CASE u = FALSE
        BY <3>1, <4>2, SetDone
      <4> QED
        BY <3>1, <4>1, <4>2
    <3> QED
      BY <2>2, <3>2, Zenon
  <2> QED
    BY <2>1, <2>3
<1>3. KernelTypes'
  BY <1>1, <1>2 DEF Types, KernelTypes, end_request, Becomes
<1>4. TaskTypes'
  BY DEF Types, TaskTypes, end_request, Woken, Places
<1>5. Heads(Head(queue).buf, buf[Head(queue).buf].block, buf[Head(queue).buf].count, FALSE)
  BY <1>2 DEF Becomes, Heads
<1>6. \A t \in Task : Calm(t)
  BY DEF Types, TaskTypes, end_request, Woken, Calm
<1>7. Done
  BY <1>5, <1>6 DEF Done, end_request
<1> QED
  BY <1>3, <1>4, <1>7 DEF Types, Move

LEMMA InterruptMoves ==
  ASSUME Types, Real, read_intr \/ write_intr \/ bad_rw_intr
  PROVE  Types' /\ Move
<1>1. queue # <<>>
  BY DEF read_intr, write_intr, bad_rw_intr
<1>2. /\ buf[Head(queue).buf].block \in Block
      /\ buf[Head(queue).buf].data \in Value
  BY <1>1, HeadOfQueue DEF Request, Types, KernelTypes, Head_
<1>3. CASE read_intr
  <2>1. /\ end_request(TRUE, disk[buf[Head(queue).buf].block])
        /\ disk[buf[Head(queue).buf].block] \in Value
        /\ disk' \in [Block -> Value] /\ errors' \in 0 .. MaxErrors
    BY <1>2, <1>3 DEF read_intr, Types, KernelTypes
  <2> QED
    BY <1>1, <2>1, DoneMoves
<1>4. CASE write_intr
  <2>1. /\ end_request(TRUE, buf[Head(queue).buf].data)
        /\ disk' \in [Block -> Value] /\ errors' \in 0 .. MaxErrors
    BY <1>2, <1>4 DEF write_intr, Types, KernelTypes
  <2> QED
    BY <1>1, <1>2, <2>1, DoneMoves
<1>5. CASE bad_rw_intr
  <2>1. end_request(FALSE, buf[Head(queue).buf].data)
    BY <1>5 DEF bad_rw_intr
  <2>2. disk' \in [Block -> Value]
    BY <1>5 DEF bad_rw_intr, Types, KernelTypes
  <2>3. errors' = errors + 1 /\ errors < MaxErrors /\ errors \in 0 .. MaxErrors
    BY <1>5 DEF bad_rw_intr, Types, KernelTypes
  <2>4. errors' \in 0 .. MaxErrors
    BY <2>3, BufferCacheAssumption
  <2> QED
    BY <1>1, <1>2, <2>1, <2>2, <2>4, DoneMoves
<1> QED
  BY <1>3, <1>4, <1>5

LEMMA Moves ==
  ASSUME Types, Placed, Real, \A b \in Buf : buf[b].count \in Nat, [Next]_vars
  PROVE  Types' /\ Move
<1>1. CASE UNCHANGED vars
  <2>1. Types'
    BY <1>1 DEF Types, KernelTypes, TaskTypes, vars, kernelVars, taskVars
  <2>2. Idle
    BY <1>1 DEF vars, kernelVars, taskVars, Idle, SameHeads, Calm
  <2> QED
    BY <2>1, <2>2 DEF Move
<1>2. ASSUME NEW t \in Task, Step(t)
      PROVE  Types' /\ Move
  BY <1>2, FindMoves, FoundMoves, SearchMoves, VictimMoves, SyncStepMoves, WaitReadMoves,
     LockMoves, SlotMoves, ProgramMoves, ReleaseMoves DEF Step
<1> QED
  BY <1>1, <1>2, CallMoves, SyncMoves, OtherMoves, TransferMoves, InterruptMoves DEF Next

-----------------------------------------------------------------------------
(* The moves preserve the invariant.                                       *)

LEMMA HoldersHold ==
  \A b : /\ Holders(b) = {t \in Task : Holds(t, b)}
         /\ Holders(b)' = {t \in Task : Holds(t, b)'}
BY DEF Holders, Holds

LEMMA Counted ==
  ASSUME CountIsHolders
  PROVE  \A b \in Buf : /\ IsFiniteSet(Holders(b)) /\ buf[b].count \in Nat
                        /\ buf[b].count = 0 => \A t \in Task : ~Holds(t, b)
<1> TAKE b \in Buf
<1>1. Holders(b) \subseteq Task
  BY DEF Holders
<1>2. IsFiniteSet(Holders(b))
  BY <1>1, BufferCacheAssumption, FS_Subset
<1>3. buf[b].count \in Nat
  BY <1>2, FS_CardinalityType DEF CountIsHolders
<1>4. buf[b].count = 0 => Holders(b) = {}
  BY <1>2, FS_EmptySet DEF CountIsHolders
<1> QED
  BY <1>2, <1>3, <1>4, HoldersHold

(* A task that is at most woken up keeps what it has.                      *)
LEMMA CalmKeeps ==
  ASSUME NEW t \in Task, Calm(t)
  PROVE  /\ \A b \in Buf : /\ Holds(t, b)' <=> Holds(t, b)
                           /\ Asks(t, b)' <=> Asks(t, b)
                           /\ Wants(t, b)' <=> Wants(t, b)
         /\ blk'[t] = blk[t]
         /\ PlacedAt(t) => PlacedAt(t)'
BY DEF Calm, Holds, Asks, Wants, PlacedAt, Requesting, Asking, NoBuffer

(* What the steps have in common: at most one task moves, and only an       *)
(* assignment changes the block of a buffer.                               *)
Acts(t) ==
    \/ Walk(t)
    \/ \E c \in Buf : Take(t, c) \/ Drop(t, c) \/ Assign(t, c) \/ Lock(t, c) \/ Queue(t, c)

LEMMA ActsAlone ==
  ASSUME NEW t \in Task, Acts(t)
  PROVE  Alone(t) /\ PlacedAt(t)'
<1>1. CASE Walk(t)
  BY <1>1 DEF Walk
<1>2. ASSUME NEW c \in Buf, Take(t, c) PROVE Alone(t) /\ PlacedAt(t)'
  BY <1>2 DEF Take
<1>3. ASSUME NEW c \in Buf, Drop(t, c) PROVE Alone(t) /\ PlacedAt(t)'
  BY <1>3 DEF Drop
<1>4. ASSUME NEW c \in Buf, Assign(t, c) PROVE Alone(t) /\ PlacedAt(t)'
  BY <1>4 DEF Assign
<1>5. ASSUME NEW c \in Buf, Lock(t, c) PROVE Alone(t) /\ PlacedAt(t)'
  BY <1>5 DEF Lock
<1>6. ASSUME NEW c \in Buf, Queue(t, c) PROVE Alone(t) /\ PlacedAt(t)'
  BY <1>6 DEF Queue
<1> QED
  BY <1>1, <1>2, <1>3, <1>4, <1>5, <1>6 DEF Acts

LEMMA MoveActs ==
  ASSUME Move
  PROVE  (\A t \in Task : Calm(t)) \/ \E t \in Task : Acts(t)
<1>1. Idle => \A t \in Task : Calm(t)
  BY DEF Idle
<1>2. Done => \A t \in Task : Calm(t)
  BY DEF Done
<1> QED
  BY <1>1, <1>2 DEF Move, Acts

LEMMA MoveBlocks ==
  ASSUME Move
  PROVE  \/ \A c \in Buf : buf'[c].block = buf[c].block
         \/ \E t \in Task, b \in Buf : Assign(t, b)
<1> DEFINE Same == \A c \in Buf : buf'[c].block = buf[c].block
<1>1. Idle => Same
  BY DEF Idle, SameHeads
<1>2. ASSUME NEW t \in Task, Walk(t) PROVE Same
  BY <1>2 DEF Walk, SameHeads
<1>3. ASSUME NEW t \in Task, NEW b \in Buf, Take(t, b) PROVE Same
  BY <1>3 DEF Take, Heads
<1>4. ASSUME NEW t \in Task, NEW b \in Buf, Drop(t, b) PROVE Same
  BY <1>4 DEF Drop, Heads
<1>5. ASSUME NEW t \in Task, NEW b \in Buf, Lock(t, b) PROVE Same
  BY <1>5 DEF Lock, Heads
<1>6. ASSUME NEW t \in Task, NEW b \in Buf, Queue(t, b) PROVE Same
  BY <1>6 DEF Queue, SameHeads
<1>7. Done => Same
  <2> SUFFICES ASSUME Done PROVE Same
    OBVIOUS
  <2>1. Heads(Head(queue).buf, buf[Head(queue).buf].block, buf[Head(queue).buf].count, FALSE)
    BY DEF Done
  <2> QED
    BY <2>1 DEF Heads
<1> HIDE DEF Same
<1>8. Same \/ \E t \in Task, b \in Buf : Assign(t, b)
  BY <1>1, <1>2, <1>3, <1>4, <1>5, <1>6, <1>7 DEF Move
<1> QED
  BY <1>8 DEF Same

LEMMA PlacedStep ==
  ASSUME Placed, Move
  PROVE  Placed'
<1>1. ASSUME NEW t \in Task, Alone(t), PlacedAt(t)'
      PROVE  Placed'
  BY <1>1, CalmKeeps DEF Placed, Alone
<1>2. CASE \A t \in Task : Calm(t)
  BY <1>2, CalmKeeps DEF Placed
<1> QED
  BY <1>1, <1>2, MoveActs, ActsAlone

LEMMA UniqueStep ==
  ASSUME Unique, Move
  PROVE  Unique'
<1>1. CASE \A c \in Buf : buf'[c].block = buf[c].block
  BY <1>1 DEF Unique
<1>2. ASSUME NEW t \in Task, NEW b \in Buf, Assign(t, b)
      PROVE  Unique'
  BY <1>2 DEF Assign, Heads, Unique
<1> QED
  BY <1>1, <1>2, MoveBlocks

(* Real, for one task and for one request.                                 *)
RealTasks == \A t \in Task, b \in Buf : Wants(t, b) => buf[b].block # NoBlock
RealQueue == \A i \in DOMAIN queue : buf[queue[i].buf].block # NoBlock

LEMMA RealIs ==
  /\ Placed => (Real <=> RealTasks /\ RealQueue)
  /\ Placed' => (Real' <=> RealTasks' /\ RealQueue')
BY DEF Real, RealTasks, RealQueue, Wants, Placed, PlacedAt

(* What is in the queue after a request was put there.                     *)
LEMMA QueueHas ==
  ASSUME Types, NEW r \in Request, queue' = add_request(r)
  PROVE  \E at \in 0 .. Len(queue) :
            /\ DOMAIN queue' = 1 .. Len(queue) + 1 /\ DOMAIN queue = 1 .. Len(queue)
            /\ Len(queue) \in Nat /\ (Len(queue) # 0 => at # 0)
            /\ \A i \in 1 .. Len(queue) + 1 :
                  queue'[i] = IF i <= at THEN queue[i] ELSE IF i = at + 1 THEN r ELSE queue[i - 1]
<1>1. queue \in Seq(Request) /\ Len(queue) \in Nat /\ DOMAIN queue = 1 .. Len(queue)
  BY LenProperties DEF Types, KernelTypes
<1>2. PICK at \in 0 .. Len(queue) :
         /\ Len(queue) # 0 => at # 0
         /\ queue' = [i \in 1 .. Len(queue) + 1 |->
                     IF i <= at THEN queue[i] ELSE IF i = at + 1 THEN r ELSE queue[i - 1]]
  BY Inserted
<1> QED
  BY <1>1, <1>2

LEMMA QueueTypes ==
  ASSUME Types
  PROVE  Len(queue) \in Nat /\ DOMAIN queue = 1 .. Len(queue)
         /\ \A i \in DOMAIN queue : queue[i] \in Request /\ queue[i].buf \in Buf
<1>1. queue \in Seq(Request)
  BY DEF Types, KernelTypes
<1>2. \A i \in DOMAIN queue : queue[i] \in Request
  BY <1>1
<1> QED
  BY <1>1, <1>2, LenProperties DEF Request

LEMMA QueueHasNot ==
  ASSUME Types, Real, queue # <<>>, queue' = Tail(queue)
  PROVE  /\ Len(queue) \in Nat \ {0} /\ DOMAIN queue = 1 .. Len(queue)
         /\ DOMAIN queue' = 1 .. Len(queue) - 1
         /\ \A i \in 1 .. Len(queue) - 1 : queue'[i] = queue[i + 1]
         /\ Head(queue) = queue[1] /\ Head(queue).buf \in Buf
<1>1. queue \in Seq(Request) /\ Len(queue) \in Nat /\ DOMAIN queue = 1 .. Len(queue)
      /\ Len(queue) # 0
  BY LenProperties, EmptySeq DEF Types, KernelTypes
<1>2. /\ Head(queue) = queue[1]
      /\ Head(queue) \in Request /\ Tail(queue) \in Seq(Request)
      /\ Len(Tail(queue)) = Len(queue) - 1
      /\ \A i \in 1 .. Len(queue) - 1 : Tail(queue)[i] = queue[i + 1]
  BY HeadOfQueue
<1> QED
  BY <1>1, <1>2, LenProperties DEF Request

LEMMA RealStep ==
  ASSUME Types, Types', Placed, Placed', Real, Move
  PROVE  Real'
<1>1. RealTasks /\ RealQueue /\ (Real' <=> RealTasks' /\ RealQueue')
  BY RealIs
<1>2. \A i \in DOMAIN queue : queue[i].buf \in Buf
  BY QueueTypes
(* No buffer loses its block.                                              *)
<1>3. \A b \in Buf : buf[b].block # NoBlock => buf'[b].block # NoBlock
  <2>1. ASSUME NEW t \in Task, NEW c \in Buf, Assign(t, c), NEW b \in Buf,
               buf[b].block # NoBlock
        PROVE  buf'[b].block # NoBlock
    BY <2>1, BlocksAreReal DEF Assign, Heads
  <2> QED
    BY <2>1, MoveBlocks
<1>4. RealTasks'
  <2>1. ASSUME NEW t \in Task, Calm(t), NEW b \in Buf, Wants(t, b)'
        PROVE  buf'[b].block # NoBlock
    BY <1>1, <1>3, <2>1, CalmKeeps DEF RealTasks
  <2>2. ASSUME NEW t \in Task, NEW b \in Buf, Wants(t, b)', Acts(t)
        PROVE  buf'[b].block # NoBlock
    <3>1. CASE Walk(t)
      BY <2>2, <3>1, <1>3 DEF Walk
    <3>2. ASSUME NEW c \in Buf, Take(t, c) PROVE FALSE
      BY <2>2, <3>2 DEF Take
    <3>3. ASSUME NEW c \in Buf, Drop(t, c) PROVE FALSE
      BY <2>2, <3>3 DEF Drop
    <3>4. ASSUME NEW c \in Buf, Assign(t, c) PROVE buf'[b].block # NoBlock
      BY <2>2, <3>4, BlocksAreReal DEF Assign, Heads
    <3>5. ASSUME NEW c \in Buf, Lock(t, c) PROVE buf'[b].block # NoBlock
      BY <2>2, <3>5, <1>3 DEF Lock
    <3>6. ASSUME NEW c \in Buf, Queue(t, c) PROVE FALSE
      BY <2>2, <3>6 DEF Queue
    <3> QED
      BY <2>2, <3>1, <3>2, <3>3, <3>4, <3>5, <3>6 DEF Acts
  <2>3. ASSUME NEW t \in Task, Acts(t), NEW u \in Task, NEW b \in Buf, Wants(u, b)'
        PROVE  buf'[b].block # NoBlock
    <3>1. u # t => Calm(u)
      BY <2>3, ActsAlone DEF Alone
    <3> QED
      BY <2>1, <2>2, <2>3, <3>1
  <2>4. CASE \A t \in Task : Calm(t)
    BY <2>1, <2>4 DEF RealTasks
  <2>5. ASSUME NEW t \in Task, Acts(t)
        PROVE  RealTasks'
    BY <2>3, <2>5 DEF RealTasks
  <2> QED
    BY <2>4, <2>5, MoveActs
<1>5. RealQueue'
  <2>1. CASE queue' = queue
    BY <1>1, <1>2, <1>3, <2>1 DEF RealQueue
  <2>2. ASSUME NEW t \in Task, NEW b \in Buf, Queue(t, b)
        PROVE  RealQueue'
    <3>1. PICK r \in Request : r.buf = b /\ queue' = add_request(r)
      BY <2>2 DEF Queue
    <3>2. buf[b].block # NoBlock
      BY <1>1, <2>2 DEF Queue, Asks, Wants, Asking, Requesting, RealTasks
    <3>3. ASSUME NEW i \in DOMAIN queue'
          PROVE  queue'[i] = r \/ \E j \in DOMAIN queue : queue'[i] = queue[j]
      BY <3>1, QueueHas
    <3> QED
      BY <1>1, <1>2, <1>3, <3>1, <3>2, <3>3 DEF RealQueue
  <2>3. CASE Done
    <3>1. ASSUME NEW i \in DOMAIN queue'
          PROVE  \E j \in DOMAIN queue : queue'[i] = queue[j]
      BY <2>3, QueueHasNot DEF Done
    <3> QED
      BY <1>1, <1>2, <1>3, <3>1 DEF RealQueue
  <2> QED
    BY <2>1, <2>2, <2>3 DEF Move, Idle, Walk, Take, Drop, Assign, Lock
<1> QED
  BY <1>1, <1>4, <1>5

Keeps == \A t \in Task, b \in Buf : Holds(t, b) => buf[b].block = blk[t]

LEMMA KeepsIs == (HolderKeepsBlock <=> Keeps) /\ (HolderKeepsBlock' <=> Keeps')
BY HoldersHold DEF HolderKeepsBlock, Keeps

LEMMA KeepsStep ==
  ASSUME CountIsHolders, HolderKeepsBlock, Move
  PROVE  HolderKeepsBlock'
<1>1. Keeps /\ (HolderKeepsBlock' <=> Keeps')
  BY KeepsIs
(* Only a buffer nobody holds is given to another block.                   *)
<1>2. ASSUME NEW t \in Task, NEW b \in Buf, Holds(t, b)
      PROVE  buf'[b].block = buf[b].block
  <2>1. ASSUME NEW u \in Task, NEW c \in Buf, Assign(u, c)
        PROVE  buf'[b].block = buf[b].block
    <3>1. buf[c].count = 0
      BY <2>1 DEF Assign
    <3>2. b # c
      BY <1>2, <3>1, Counted
    <3> QED
      BY <2>1, <3>2 DEF Assign, Heads
  <2> QED
    BY <2>1, MoveBlocks
<1>3. ASSUME NEW t \in Task, Calm(t), NEW b \in Buf, Holds(t, b)'
      PROVE  buf'[b].block = blk'[t]
  BY <1>1, <1>2, <1>3, CalmKeeps DEF Keeps
<1>4. ASSUME NEW t \in Task, NEW b \in Buf, Holds(t, b)', Acts(t)
      PROVE  buf'[b].block = blk'[t]
  <2>1. ASSUME Holds(t, b), blk'[t] = blk[t]
        PROVE  buf'[b].block = blk'[t]
    BY <1>1, <1>2, <2>1 DEF Keeps
  <2>2. CASE Walk(t)
    BY <1>4, <2>1, <2>2 DEF Walk
  <2>3. ASSUME NEW c \in Buf, Take(t, c) PROVE buf'[b].block = blk'[t]
    BY <1>4, <2>3 DEF Take, Heads
  <2>4. ASSUME NEW c \in Buf, Drop(t, c) PROVE FALSE
    BY <1>4, <2>4 DEF Drop
  <2>5. ASSUME NEW c \in Buf, Assign(t, c) PROVE buf'[b].block = blk'[t]
    BY <1>4, <2>5 DEF Assign, Heads
  <2>6. ASSUME NEW c \in Buf, Lock(t, c) PROVE buf'[b].block = blk'[t]
    BY <1>4, <2>1, <2>6 DEF Lock
  <2>7. ASSUME NEW c \in Buf, Queue(t, c) PROVE buf'[b].block = blk'[t]
    BY <1>4, <2>1, <2>7 DEF Queue
  <2> QED
    BY <1>4, <2>2, <2>3, <2>4, <2>5, <2>6, <2>7 DEF Acts
<1>5. CASE \A t \in Task : Calm(t)
  BY <1>1, <1>3, <1>5 DEF Keeps
<1>6. ASSUME NEW t \in Task, Alone(t), \A b \in Buf : Holds(t, b)' => buf'[b].block = blk'[t]
      PROVE  HolderKeepsBlock'
  BY <1>1, <1>3, <1>6 DEF Keeps, Alone
<1>7. ASSUME NEW t \in Task, Acts(t)
      PROVE  HolderKeepsBlock'
  <2>1. Alone(t)
    BY <1>7, ActsAlone
  <2> QED
    BY <1>4, <1>6, <1>7, <2>1
<1> QED
  BY <1>5, <1>7, MoveActs

LEMMA CountStep ==
  ASSUME Types, CountIsHolders, Move
  PROVE  CountIsHolders'
<1>1. \A b \in Buf : IsFiniteSet(Holders(b)) /\ buf[b].count = Cardinality(Holders(b))
                     /\ buf[b].count \in Nat
  BY Counted DEF CountIsHolders
<1>2. ASSUME NEW b \in Buf, \A u \in Task : Holds(u, b)' <=> Holds(u, b),
             buf'[b].count = buf[b].count
      PROVE  buf'[b].count = Cardinality(Holders(b)')
  <2>1. Holders(b)' = Holders(b)
    BY <1>2, HoldersHold
  <2> QED
    BY <1>1, <1>2, <2>1
<1>3. ASSUME NEW b \in Buf, NEW t \in Task, \A u \in Task \ {t} : Holds(u, b)' <=> Holds(u, b),
             ~Holds(t, b), Holds(t, b)', buf'[b].count = buf[b].count + 1
      PROVE  buf'[b].count = Cardinality(Holders(b)')
  <2>1. Holders(b)' = Holders(b) \cup {t} /\ t \notin Holders(b)
    BY <1>3, HoldersHold
  <2> QED
    BY <1>1, <1>3, <2>1, FS_AddElement
<1>4. ASSUME NEW b \in Buf, NEW t \in Task, \A u \in Task \ {t} : Holds(u, b)' <=> Holds(u, b),
             Holds(t, b), ~Holds(t, b)', buf'[b].count = buf[b].count - 1
      PROVE  buf'[b].count = Cardinality(Holders(b)')
  <2>1. Holders(b)' = Holders(b) \ {t} /\ t \in Holders(b)
    BY <1>4, HoldersHold
  <2> QED
    BY <1>1, <1>4, <2>1, FS_RemoveElement
<1>5. ASSUME NEW t \in Task, Alone(t), NEW b \in Buf
      PROVE  \A u \in Task \ {t} : Holds(u, b)' <=> Holds(u, b)
  BY <1>5, CalmKeeps DEF Alone
<1>6. ASSUME \A u \in Task : Calm(u), \A b \in Buf : buf'[b].count = buf[b].count
      PROVE  CountIsHolders'
  BY <1>2, <1>6, CalmKeeps DEF CountIsHolders
<1>7. ASSUME NEW t \in Task, Alone(t), \A b \in Buf : Holds(t, b)' <=> Holds(t, b),
             \A b \in Buf : buf'[b].count = buf[b].count
      PROVE  CountIsHolders'
  BY <1>2, <1>5, <1>7 DEF CountIsHolders
<1>8. ASSUME NEW t \in Task, NEW b \in Buf, Take(t, b) \/ Assign(t, b)
      PROVE  CountIsHolders'
  <2>1. /\ Alone(t)
        /\ \A c \in Buf : ~Holds(t, c) /\ (Holds(t, c)' <=> c = b)
        /\ \A c \in Buf : buf'[c].count = IF c = b THEN buf[c].count + 1 ELSE buf[c].count
    BY <1>8 DEF Take, Assign, Heads
  <2> QED
    BY <1>2, <1>3, <1>5, <2>1 DEF CountIsHolders
<1>9. ASSUME NEW t \in Task, NEW b \in Buf, Drop(t, b)
      PROVE  CountIsHolders'
  BY <1>2, <1>4, <1>5, <1>9 DEF CountIsHolders, Drop, Heads
<1>10. ASSUME NEW t \in Task, Walk(t) \/ \E b \in Buf : Lock(t, b) \/ Queue(t, b)
       PROVE  CountIsHolders'
  BY <1>7, <1>10 DEF Walk, Lock, Queue, SameHeads, Heads
<1>11. CASE Idle \/ Done
  BY <1>6, <1>11 DEF Idle, Done, SameHeads, Heads
<1> QED
  BY <1>8, <1>9, <1>10, <1>11 DEF Move

(* Locks in other words.                                                   *)
Queued(b) == \E i \in DOMAIN queue : queue[i].buf = b

OneRequest == \A i, j \in DOMAIN queue : queue[i].buf = queue[j].buf => i = j

Owned ==
    \A b \in Buf :
        /\ \A t, u \in Task : Asks(t, b) /\ Asks(u, b) => t = u
        /\ \A t \in Task : Asks(t, b) => ~Queued(b)
        /\ buf[b].lock <=> Queued(b) \/ \E t \in Task : Asks(t, b)

LEMMA LocksIs ==
  /\ Types /\ Placed => (Locks <=> OneRequest /\ Owned)
  /\ Types' /\ Placed' => (Locks' <=> OneRequest' /\ Owned')
<1>1. ASSUME Types, Placed PROVE Locks <=> OneRequest /\ Owned
  <2>1. \A i \in DOMAIN queue : queue[i].buf \in Buf
    BY <1>1, QueueTypes
  <2>2. \A t \in Task : pc[t] \in Asking => req[t].bh \in Buf
    BY <1>1 DEF Placed, PlacedAt, Asking, Requesting
  <2>3. \A b \in Buf : buf[b].lock \in BOOLEAN
    BY <1>1 DEF Types, KernelTypes, Head_
  <2> QED
    BY <2>1, <2>2, <2>3 DEF Locks, OneRequest, Owned, Asks, Queued
<1>2. ASSUME Types', Placed' PROVE Locks' <=> OneRequest' /\ Owned'
  <2>1. \A i \in DOMAIN queue' : queue'[i].buf \in Buf
    <3>1. queue' \in Seq(Request)
      BY <1>2 DEF Types, KernelTypes
    <3>2. \A i \in DOMAIN queue' : queue'[i] \in Request
      BY <3>1
    <3> QED
      BY <3>2 DEF Request
  <2>2. \A t \in Task : pc'[t] \in Asking => req'[t].bh \in Buf
    BY <1>2 DEF Placed, PlacedAt, Asking, Requesting
  <2>3. \A b \in Buf : buf'[b].lock \in BOOLEAN
    BY <1>2 DEF Types, KernelTypes, Head_
  <2> QED
    BY <2>1, <2>2, <2>3 DEF Locks, OneRequest, Owned, Asks, Queued
<1> QED
  BY <1>1, <1>2

LEMMA LocksStep ==
  ASSUME Types, Types', Placed, Placed', Real, Locks, Move
  PROVE  Locks'
<1>1. OneRequest /\ Owned /\ (Locks' <=> OneRequest' /\ Owned')
  BY LocksIs
<1>2. ASSUME queue' = queue
      PROVE  OneRequest' /\ \A b : Queued(b)' <=> Queued(b)
  BY <1>1, <1>2 DEF OneRequest, Queued
<1>3. ASSUME SameHeads, queue' = queue,
             \A t \in Task, b \in Buf : Asks(t, b)' <=> Asks(t, b)
      PROVE  Locks'
  BY <1>1, <1>2, <1>3 DEF Owned, SameHeads
<1>4. ASSUME NEW t \in Task, Alone(t), NEW u \in Task \ {t}, NEW b \in Buf
      PROVE  Asks(u, b)' <=> Asks(u, b)
  BY <1>4, CalmKeeps DEF Alone
<1>5. CASE Idle
  BY <1>3, <1>5, CalmKeeps DEF Idle
<1>6. ASSUME NEW t \in Task, Walk(t)
      PROVE  Locks'
  BY <1>3, <1>4, <1>6 DEF Walk
<1>7. ASSUME NEW t \in Task, NEW b \in Buf, Take(t, b) \/ Drop(t, b) \/ Assign(t, b)
      PROVE  Locks'
  <2>1. /\ queue' = queue /\ Alone(t)
        /\ \A c \in Buf : ~Asks(t, c) /\ ~Asks(t, c)' /\ buf'[c].lock = buf[c].lock
    BY <1>7 DEF Take, Drop, Assign, Heads
  <2>2. \A u \in Task, c \in Buf : Asks(u, c)' <=> Asks(u, c)
    BY <1>4, <2>1
  <2> QED
    BY <1>1, <1>2, <2>1, <2>2 DEF Owned
<1>8. ASSUME NEW t \in Task, NEW b \in Buf, Lock(t, b)
      PROVE  Locks'
  <2>1. /\ queue' = queue /\ Alone(t) /\ ~buf[b].lock
        /\ \A c \in Buf : /\ ~Asks(t, c) /\ (Asks(t, c)' <=> c = b)
                          /\ buf'[c].lock = IF c = b THEN TRUE ELSE buf[c].lock
    BY <1>8 DEF Lock, Heads
  <2>2. \A u \in Task, c \in Buf : Asks(u, c)' <=> Asks(u, c) \/ (u = t /\ c = b)
    BY <1>4, <2>1
  <2>3. ~Queued(b) /\ \A u \in Task : ~Asks(u, b)
    BY <1>1, <2>1 DEF Owned
  <2>4. Owned'
    BY <1>1, <1>2, <2>1, <2>2, <2>3 DEF Owned
  <2> QED
    BY <1>1, <1>2, <2>1, <2>4
<1>9. ASSUME NEW t \in Task, NEW b \in Buf, Queue(t, b)
      PROVE  Locks'
  <2>1. PICK r \in Request : r.buf = b /\ queue' = add_request(r)
    BY <1>9 DEF Queue
  <2>2. PICK at \in 0 .. Len(queue) :
            /\ DOMAIN queue' = 1 .. Len(queue) + 1 /\ DOMAIN queue = 1 .. Len(queue)
            /\ Len(queue) \in Nat
            /\ \A i \in 1 .. Len(queue) + 1 :
                  queue'[i] = IF i <= at THEN queue[i] ELSE IF i = at + 1 THEN r ELSE queue[i - 1]
    BY <2>1, QueueHas
  <2>3. /\ Alone(t) /\ Asks(t, b)
        /\ \A c \in Buf : ~Asks(t, c)' /\ buf'[c].lock = buf[c].lock
    BY <1>9 DEF Queue, SameHeads
  <2>4. ~Queued(b)
    BY <1>1, <2>3 DEF Owned
  <2> DEFINE old(i) == IF i <= at THEN i ELSE i - 1
  <2>10. ASSUME NEW i \in DOMAIN queue', i # at + 1
         PROVE  old(i) \in DOMAIN queue /\ queue'[i] = queue[old(i)]
    BY <2>2, <2>10
  <2>11. ASSUME NEW i \in DOMAIN queue', NEW j \in DOMAIN queue', i # at + 1, j # at + 1,
                old(i) = old(j)
         PROVE  i = j
    BY <2>2, <2>11
  <2>12. queue'[at + 1] = r
    BY <2>2
  <2> HIDE DEF old
  <2>13. ASSUME NEW i \in DOMAIN queue', i # at + 1
         PROVE  queue'[i].buf # b
    BY <2>4, <2>10, <2>13 DEF Queued
  <2>5. OneRequest'
    <3>1. ASSUME NEW i \in DOMAIN queue', NEW j \in DOMAIN queue', queue'[i].buf = queue'[j].buf
          PROVE  i = j
      <4>1. CASE i # at + 1 /\ j # at + 1
        BY <1>1, <2>10, <2>11, <3>1, <4>1 DEF OneRequest
      <4>2. CASE i = at + 1 \/ j = at + 1
        BY <2>1, <2>12, <2>13, <3>1, <4>2
      <4> QED
        BY <4>1, <4>2
    <3> QED
      BY <3>1 DEF OneRequest
  <2>6. ASSUME NEW c \in Buf
        PROVE  Queued(c)' <=> Queued(c) \/ c = b
    <3>1. ASSUME Queued(c)' PROVE Queued(c) \/ c = b
      BY <2>1, <2>10, <2>12, <3>1 DEF Queued
    <3>2. ASSUME NEW i \in DOMAIN queue, queue[i].buf = c PROVE Queued(c)'
      <4>1. CASE i <= at
        <5>1. i \in DOMAIN queue' /\ queue'[i] = queue[i]
          BY <2>2, <3>2, <4>1
        <5> QED
          BY <3>2, <5>1 DEF Queued
      <4>2. CASE ~(i <= at)
        <5>1. i + 1 \in DOMAIN queue' /\ queue'[i + 1] = queue[i]
          BY <2>2, <3>2, <4>2
        <5> QED
          BY <3>2, <5>1 DEF Queued
      <4> QED
        BY <4>1, <4>2
    <3>3. Queued(b)'
      <4>1. at + 1 \in DOMAIN queue' /\ queue'[at + 1] = r
        BY <2>2
      <4> QED
        BY <2>1, <4>1 DEF Queued
    <3> QED
      BY <3>1, <3>2, <3>3 DEF Queued
  <2>7. \A u \in Task, c \in Buf : Asks(u, c)' <=> Asks(u, c) /\ u # t
    BY <1>4, <2>3
  <2>8. \A c \in Buf : Asks(t, c) => c = b
    BY <2>3 DEF Asks
  <2>9. Owned'
    BY <1>1, <2>3, <2>4, <2>6, <2>7, <2>8 DEF Owned
  <2> QED
    BY <1>1, <2>5, <2>9
<1>10. CASE Done
  <2>1. /\ Len(queue) \in Nat \ {0} /\ DOMAIN queue = 1 .. Len(queue)
        /\ DOMAIN queue' = 1 .. Len(queue) - 1
        /\ \A i \in 1 .. Len(queue) - 1 : queue'[i] = queue[i + 1]
        /\ Head(queue) = queue[1] /\ Head(queue).buf \in Buf
    BY <1>10, QueueHasNot DEF Done
  <2>2. PICK b \in Buf : b = Head(queue).buf
    BY <2>1
  <2>3. /\ \A c \in Buf : buf'[c].lock = IF c = b THEN FALSE ELSE buf[c].lock
        /\ \A u \in Task, c \in Buf : Asks(u, c)' <=> Asks(u, c)
    BY <1>10, <2>2, CalmKeeps DEF Done, Heads
  <2>4. OneRequest'
    BY <1>1, <2>1 DEF OneRequest
  <2>5. ASSUME NEW c \in Buf
        PROVE  Queued(c)' <=> Queued(c) /\ c # b
    <3>1. ASSUME Queued(c)' PROVE Queued(c) /\ c # b
      <4>1. PICK i \in 1 .. Len(queue) - 1 : queue[i + 1].buf = c
        BY <2>1, <3>1 DEF Queued
      <4>2. i + 1 \in DOMAIN queue /\ 1 \in DOMAIN queue /\ i + 1 # 1
        BY <2>1
      <4> QED
        BY <1>1, <2>1, <2>2, <4>1, <4>2 DEF OneRequest, Queued
    <3>2. ASSUME NEW i \in DOMAIN queue, queue[i].buf = c, c # b PROVE Queued(c)'
      <4>1. i # 1
        BY <2>1, <2>2, <3>2
      <4>2. i - 1 \in DOMAIN queue' /\ queue'[i - 1] = queue[i]
        BY <2>1, <4>1
      <4> QED
        BY <3>2, <4>2 DEF Queued
    <3> QED
      BY <3>1, <3>2 DEF Queued
  <2>6. Queued(b) /\ \A u \in Task : ~Asks(u, b)
    BY <1>1, <2>1, <2>2 DEF Owned, Queued
  <2>7. ASSUME NEW c \in Buf
        PROVE  /\ \A t, u \in Task : Asks(t, c)' /\ Asks(u, c)' => t = u
               /\ \A t \in Task : Asks(t, c)' => ~Queued(c)'
               /\ buf'[c].lock <=> Queued(c)' \/ \E t \in Task : Asks(t, c)'
    <3>1. /\ \A t, u \in Task : Asks(t, c) /\ Asks(u, c) => t = u
          /\ \A t \in Task : Asks(t, c) => ~Queued(c)
          /\ buf[c].lock <=> Queued(c) \/ \E t \in Task : Asks(t, c)
      BY <1>1 DEF Owned
    <3>2. CASE c = b
      BY <2>3, <2>5, <2>6, <3>2
    <3>3. CASE c # b
      BY <2>3, <2>5, <3>1, <3>3
    <3> QED
      BY <3>2, <3>3
  <2>8. Owned'
    BY <2>7 DEF Owned
  <2> QED
    BY <1>1, <2>4, <2>8
<1> QED
  BY <1>5, <1>6, <1>7, <1>8, <1>9, <1>10 DEF Move

-----------------------------------------------------------------------------
(* Theorems *)

LEMMA Initially == Init => IInv
<1> SUFFICES ASSUME Init PROVE IInv
  OBVIOUS
<1>1. NoReq \in [rw : {"READ", "WRITE"}, bh : Buf \cup {0}, ret : Places]
  BY DEF NoReq, Places
<1>2. Types
  <2>1. KernelTypes
    BY BufferCacheAssumption, EmptySeq DEF Init, KernelTypes, Head_, Buf
  <2>2. TaskTypes
    BY <1>1, BufferCacheAssumption DEF Init, TaskTypes, Places
  <2> QED
    BY <2>1, <2>2 DEF Types
<1>3. Placed /\ Unique
  BY DEF Init, Placed, PlacedAt, Unique, NoBuffer, Requesting
<1>4. queue = <<>> /\ DOMAIN queue = {}
  BY DEF Init
<1>5. Real /\ Locks
  BY <1>4 DEF Init, Real, Locks, Requesting, Asking
<1>6. \A b \in Buf : Holders(b) = {} /\ buf[b].count = 0
  BY DEF Init, Holders, Requesting
<1>7. CountIsHolders /\ HolderKeepsBlock
  BY <1>6, FS_EmptySet DEF CountIsHolders, HolderKeepsBlock
<1> QED
  BY <1>2, <1>3, <1>5, <1>7 DEF IInv

LEMMA Invariant == Spec => []IInv
<1>1. ASSUME IInv, [Next]_vars PROVE IInv'
  <2>1. Types /\ Placed /\ Real /\ Unique /\ Locks /\ CountIsHolders /\ HolderKeepsBlock
    BY <1>1 DEF IInv
  <2>2. Types' /\ Move
    BY <1>1, <2>1, Counted, Moves
  <2>3. Placed'
    BY <2>1, <2>2, PlacedStep
  <2>4. Real' /\ Unique' /\ Locks' /\ CountIsHolders' /\ HolderKeepsBlock'
    BY <2>1, <2>2, <2>3, RealStep, UniqueStep, LocksStep, CountStep, KeepsStep
  <2> QED
    BY <2>2, <2>3, <2>4 DEF IInv
<1> QED
  BY <1>1, Initially, PTL DEF Spec

(* The state is well-typed; a buffer has at most as many references as     *)
(* there are tasks: b_count, an unsigned char, does not overflow.          *)
THEOREM TypeCorrect == Spec => []TypeOK
<1>1. ASSUME IInv PROVE TypeOK
  <2>1. Types /\ CountIsHolders
    BY <1>1 DEF IInv
  <2>2. ASSUME NEW b \in Buf
        PROVE  buf[b].count \in 0 .. Cardinality(Task)
    <3>1. Holders(b) \subseteq Task
      BY DEF Holders
    <3>2. /\ Cardinality(Holders(b)) <= Cardinality(Task)
          /\ Cardinality(Holders(b)) \in Nat /\ Cardinality(Task) \in Nat
      BY <3>1, BufferCacheAssumption, FS_Subset, FS_CardinalityType
    <3> QED
      BY <2>1, <3>2 DEF CountIsHolders
  <2>3. ASSUME NEW b \in Buf
        PROVE  buf[b] \in BufferHead
    BY <2>1, <2>2 DEF Types, KernelTypes, Head_, BufferHead
  <2>4. buf \in [Buf -> BufferHead]
    BY <2>1, <2>3 DEF Types, KernelTypes
  <2> QED
    BY <2>1, <2>4 DEF Types, KernelTypes, TaskTypes, Request, TypeOK
<1> QED
  BY <1>1, Invariant, PTL

(* No block is in two buffers, however often getblk() sleeps between       *)
(* looking for the block and putting it into a buffer.                     *)
THEOREM NoDuplicates == Spec => []NoDuplicate
<1>1. ASSUME IInv PROVE NoDuplicate
  <2> SUFFICES ASSUME NEW k \in Block PROVE Cardinality(find_buffer(k)) <= 1
    BY DEF NoDuplicate
  <2>1. \A b, c \in find_buffer(k) : b = c
    BY <1>1, BlocksAreReal DEF IInv, Unique, find_buffer
  <2>2. CASE find_buffer(k) = {}
    BY <2>2, FS_EmptySet
  <2>3. CASE find_buffer(k) # {}
    <3>1. PICK b : find_buffer(k) = {b}
      BY <2>1, <2>3
    <3> QED
      BY <3>1, FS_Singleton
  <2> QED
    BY <2>2, <2>3
<1> QED
  BY <1>1, Invariant, PTL

(* References are counted exactly, and a buffer that is referenced keeps   *)
(* its block: no brelse() finds a free buffer (panic), and no task reads   *)
(* or changes another block than the one it asked for.                     *)
THEOREM HoldersAreExact == Spec => []HoldersExact
<1>1. IInv => HoldersExact
  BY DEF IInv, HoldersExact
<1> QED
  BY <1>1, Invariant, PTL

(* A locked buffer has exactly one request, queued or on its way there,    *)
(* and an unlocked one has none.                                           *)
THEOREM LocksOwned == Spec => []LockOwned
<1>1. ASSUME IInv PROVE LockOwned
  <2> SUFFICES ASSUME NEW b \in Buf
               PROVE  Cardinality({i \in 1 .. Len(queue) : queue[i].buf = b}) +
                      Cardinality({t \in Task : pc[t] \in {"slot", "wait_for_request"} /\ req[t].bh = b})
                          = (IF buf[b].lock THEN 1 ELSE 0)
    BY DEF LockOwned
  <2> DEFINE R == {i \in 1 .. Len(queue) : queue[i].buf = b}
             A == {t \in Task : pc[t] \in {"slot", "wait_for_request"} /\ req[t].bh = b}
  <2>1. OneRequest /\ Owned /\ DOMAIN queue = 1 .. Len(queue)
    BY <1>1, LocksIs, QueueTypes DEF IInv
  <2>2. /\ \A i, j \in R : i = j
        /\ \A t, u \in A : t = u
        /\ R = {} \/ A = {}
        /\ buf[b].lock <=> R # {} \/ A # {}
    <3>1. \A i, j \in R : i = j
      BY <2>1 DEF OneRequest
    <3>2. Queued(b) <=> R # {}
      BY <2>1 DEF Queued
    <3>3. \A t \in Task : Asks(t, b) <=> t \in A
      BY DEF Asks, Asking
    <3> HIDE DEF R, A
    <3>4. A \subseteq Task
      BY DEF A
    <3> QED
      BY <2>1, <3>1, <3>2, <3>3, <3>4 DEF Owned
  <2> HIDE DEF R, A
  <2>3. Cardinality(R) + Cardinality(A) = IF buf[b].lock THEN 1 ELSE 0
    <3>1. CASE R = {} /\ A = {}
      BY <2>2, <3>1, FS_EmptySet
    <3>2. CASE R # {} /\ A = {}
      <4>1. PICK i : R = {i}
        BY <2>2, <3>2
      <4>2. Cardinality(R) = 1
        BY <4>1, FS_Singleton
      <4>3. Cardinality(A) = 0
        BY <3>2, FS_EmptySet
      <4>4. buf[b].lock
        BY <2>2, <3>2
      <4> QED
        BY <4>2, <4>3, <4>4
    <3>3. CASE R = {} /\ A # {}
      <4>1. PICK t : A = {t}
        BY <2>2, <3>3
      <4>2. Cardinality(A) = 1
        BY <4>1, FS_Singleton
      <4>3. Cardinality(R) = 0
        BY <3>3, FS_EmptySet
      <4>4. buf[b].lock
        BY <2>2, <3>3
      <4> QED
        BY <4>2, <4>3, <4>4
    <3> QED
      BY <2>2, <3>1, <3>2, <3>3
  <2> QED
    BY <2>3 DEF R, A
<1> QED
  BY <1>1, Invariant, PTL

-----------------------------------------------------------------------------
(* What the buffers contain: a clean buffer holds what is on the disk, and *)
(* the cache implements the device of module BlockStore.                   *)

(* When file_write() is left out, the contents of a buffer change only     *)
(* together with its mark; what the controller was sent is what the buffer *)
(* holds, or the buffer is marked again.                                   *)
Copying == \A t \in Task : pc[t] = "copy" => op[t] = "block_write"

Sending ==
    sent # Nobody =>
        /\ queue # <<>> /\ Head(queue).cmd = "WRITE"
        /\ buf[Head(queue).buf].dirt \/ sent = buf[Head(queue).buf].data

Clean ==
    \A b \in Buf :
        buf[b].block # NoBlock /\ buf[b].uptodate /\ ~buf[b].dirt /\ ~buf[b].lock
            => buf[b].data = disk[buf[b].block]

Marked == Copying /\ Sending /\ Clean

-----------------------------------------------------------------------------
(* What a step does to the contents: it is one of these changes.           *)

(* b gets these fields.                                                    *)
Change(b, k, u, d, l, v) ==
    \A c \in Buf : /\ buf'[c].block = IF c = b THEN k ELSE buf[c].block
                   /\ buf'[c].uptodate = IF c = b THEN u ELSE buf[c].uptodate
                   /\ buf'[c].dirt = IF c = b THEN d ELSE buf[c].dirt
                   /\ buf'[c].lock = IF c = b THEN l ELSE buf[c].lock
                   /\ buf'[c].data = IF c = b THEN v ELSE buf[c].data

SameData ==
    \A c \in Buf : /\ buf'[c].block = buf[c].block
                   /\ buf'[c].uptodate = buf[c].uptodate
                   /\ buf'[c].dirt = buf[c].dirt
                   /\ buf'[c].lock = buf[c].lock
                   /\ buf'[c].data = buf[c].data

Nothing == SameData /\ UNCHANGED <<queue, sent, disk>>

Sends ==
    /\ SameData /\ UNCHANGED <<queue, disk>>
    /\ queue # <<>> /\ Head(queue).cmd = "WRITE"
    /\ sent' = buf[Head(queue).buf].data

Reuses(b, k) ==
    /\ ~buf[b].lock /\ ~buf[b].dirt /\ buf[b].count = 0
    /\ k \in Block /\ \A c \in Buf : buf[c].block # k
    /\ Change(b, k, FALSE, FALSE, FALSE, buf[b].data)
    /\ UNCHANGED <<queue, sent, disk>>

LocksIt(t, b) ==
    /\ pc[t] = "lock_buffer" /\ pc'[t] = "slot" /\ b = req[t].bh /\ req' = req
    /\ ~buf[b].lock /\ ~NothingToDo(req[t])
    /\ Change(b, buf[b].block, buf[b].uptodate, buf[b].dirt, TRUE, buf[b].data)
    /\ UNCHANGED <<queue, sent, disk>>

QueuesIt(t, b) ==
    /\ pc[t] = "slot" /\ b = req[t].bh
    /\ \E r \in Request : r.buf = b /\ r.cmd = req[t].rw /\ queue' = add_request(r)
    /\ Change(b, buf[b].block, buf[b].uptodate, FALSE, buf[b].lock, buf[b].data)
    /\ UNCHANGED <<sent, disk>>

(* A program changes the contents and marks the buffer.                    *)
Fills(t, u, v) ==
    /\ pc[t] \in {"held", "copy"}
    /\ Change(bh[t], buf[bh[t]].block, u, TRUE, buf[bh[t]].lock, v)
    /\ UNCHANGED <<queue, sent, disk>>

Ends(u, v) ==
    /\ queue # <<>>
    /\ queue' = Tail(queue) /\ sent' = Nobody
    /\ Change(Head(queue).buf, buf[Head(queue).buf].block, u, buf[Head(queue).buf].dirt, FALSE, v)

Reads ==
    /\ queue # <<>> /\ Head(queue).cmd = "READ" /\ disk' = disk
    /\ Ends(TRUE, disk[buf[Head(queue).buf].block])

Writes ==
    /\ queue # <<>> /\ Head(queue).cmd = "WRITE" /\ sent # Nobody
    /\ disk' = [disk EXCEPT ![buf[Head(queue).buf].block] = sent]
    /\ Ends(TRUE, buf[Head(queue).buf].data)

Fails ==
    /\ errors < MaxErrors /\ disk' = disk
    /\ Ends(FALSE, buf[Head(queue).buf].data)

Effect ==
    \/ Nothing \/ Sends \/ Reads \/ Writes \/ Fails
    \/ \E t \in Task, b \in Buf : \/ Reuses(b, blk[t]) /\ bh[t] = b /\ pc[t] = "victim"
                                  \/ LocksIt(t, b) \/ QueuesIt(t, b)
    \/ \E t \in Task, v \in Value :
          \/ (Update(t, v) \/ Copy(t, v)) /\ Fills(t, buf[bh[t]].uptodate, v)
          \/ new_block(t) /\ Fills(t, TRUE, v)

(* Becomes, without the count.                                             *)
LEMMA Changes ==
  ASSUME NEW b \in Buf, NEW k, NEW u, NEW d, NEW n, NEW l, NEW v,
         Becomes(buf, buf', b, k, u, d, n, l, v)
  PROVE  Change(b, k, u, d, l, v)
BY DEF Becomes, Change

LEMMA CountOnly ==
  ASSUME NEW b \in Buf, buf \in [Buf -> Head_], NEW n \in Int,
         buf' = [buf EXCEPT ![b].count = n]
  PROVE  SameData
<1>1. Becomes(buf, buf', b, buf[b].block, buf[b].uptodate, buf[b].dirt, n, buf[b].lock, buf[b].data)
  BY SetCount
<1> QED
  BY <1>1 DEF Becomes, SameData

LEMMA Unchanged ==
  ASSUME UNCHANGED buf
  PROVE  SameData
BY DEF SameData

LEMMA CacheEffects ==
  ASSUME Types, Placed, \A b \in Buf : buf[b].count \in Nat, NEW t \in Task,
         Find(t) \/ Found(t) \/ TakeVictim(t) \/ brelse(t)
  PROVE  Effect
<1>1. /\ buf \in [Buf -> Head_]
      /\ \A b \in Buf : buf[b] \in Head_ /\ buf[b].count + 1 \in Int /\ buf[b].count - 1 \in Int
  BY DEF Types, KernelTypes, Head_
<1>2. pc[t] \in {"found", "victim", "release"} => bh[t] \in Buf /\ blk[t] \in Block
  BY DEF Placed, PlacedAt, NoBuffer, Requesting
<1>3. CASE UNCHANGED <<buf, queue, sent, disk>>
  BY <1>3, Unchanged DEF Effect, Nothing
<1>4. ASSUME NEW b \in Buf, NEW n \in Int, buf' = [buf EXCEPT ![b].count = n],
             UNCHANGED <<queue, sent, disk>>
      PROVE  Effect
  BY <1>1, <1>4, CountOnly DEF Effect, Nothing
<1>5. CASE Find(t)
  <2>1. UNCHANGED <<queue, sent, disk>>
    BY <1>5 DEF Find
  <2>2. \/ buf' = buf
        \/ \E b \in Buf : buf' = [buf EXCEPT ![b].count = buf[b].count + 1]
    BY <1>1, <1>5 DEF Find, find_buffer
  <2> QED
    BY <1>1, <1>3, <1>4, <2>1, <2>2
<1>6. CASE Found(t)
  <2>1. UNCHANGED <<queue, sent, disk>> /\ bh[t] \in Buf
    BY <1>2, <1>6 DEF Found, Runs, WaitLock, kernelVars
  <2>2. buf' = buf \/ buf' = [buf EXCEPT ![bh[t]].count = buf[bh[t]].count - 1]
    BY <1>1, <1>6, <2>1 DEF Found, WaitLock, kernelVars
  <2> QED
    BY <1>1, <1>3, <1>4, <2>1, <2>2
<1>7. CASE brelse(t)
  <2>1. UNCHANGED <<queue, sent, disk>> /\ bh[t] \in Buf
    BY <1>2, <1>7 DEF brelse, Runs, WaitLock, kernelVars
  <2>2. buf' = buf \/ buf' = [buf EXCEPT ![bh[t]].count = buf[bh[t]].count - 1]
    BY <1>1, <1>7, <2>1 DEF brelse, WaitLock, kernelVars
  <2> QED
    BY <1>1, <1>3, <1>4, <2>1, <2>2
<1>8. CASE TakeVictim(t)
  <2>1. UNCHANGED <<queue, sent, disk>> /\ bh[t] \in Buf /\ blk[t] \in Block /\ pc[t] = "victim"
    BY <1>2, <1>8 DEF TakeVictim, Runs, WaitLock, kernelVars
  <2>2. CASE buf' = buf
    BY <1>3, <2>1, <2>2
  <2>3. CASE buf' # buf
    <3>1. /\ ~buf[bh[t]].lock
          /\ ~TakenMeanwhile(bh[t]) /\ ~MustWrite(bh[t]) /\ ~BroughtIn(blk[t])
          /\ buf' = [buf EXCEPT ![bh[t]].block = blk[t], ![bh[t]].count = 1,
                                ![bh[t]].dirt = FALSE, ![bh[t]].uptodate = FALSE]
      BY <1>8, <2>3 DEF TakeVictim, WaitLock, kernelVars
    <3>2. PICK b \in Buf : b = bh[t]
      BY <2>1
    <3>3. /\ buf[b].lock = FALSE /\ ~buf[b].dirt /\ buf[b].count = 0
          /\ \A c \in Buf : buf[c].block # blk[t]
      BY <1>1, <3>1, <3>2 DEF TakenMeanwhile, MustWrite, BroughtIn, find_buffer, Head_
    <3>4. Becomes(buf, buf', b, blk[t], FALSE, FALSE, 1, buf[b].lock, buf[b].data)
      BY <1>1, <2>1, <3>1, <3>2, SetTaken
    <3>5. Change(b, blk[t], FALSE, FALSE, FALSE, buf[b].data)
      BY <3>3, <3>4, Changes
    <3>6. Reuses(b, blk[t])
      BY <2>1, <3>3, <3>5 DEF Reuses
    <3> QED
      BY <2>1, <3>2, <3>6 DEF Effect
  <2> QED
    BY <2>2, <2>3
<1> QED
  BY <1>5, <1>6, <1>7, <1>8

LEMMA RequestEffects ==
  ASSUME Types, Placed, Real, NEW t \in Task, LockBuffer(t) \/ Slot(t)
  PROVE  Effect
<1>1. buf \in [Buf -> Head_] /\ req[t].bh \in Buf
  BY DEF Types, KernelTypes, LockBuffer, Slot, Runs, Placed, PlacedAt, Requesting
<1>2. CASE UNCHANGED <<buf, queue, sent, disk>>
  BY <1>2, Unchanged DEF Effect, Nothing
<1>3. CASE LockBuffer(t) /\ buf' # buf
  <2>1. /\ pc[t] = "lock_buffer" /\ pc'[t] = "slot" /\ req' = req
        /\ ~buf[req[t].bh].lock /\ ~NothingToDo(req[t])
        /\ buf' = [buf EXCEPT ![req[t].bh].lock = TRUE]
        /\ UNCHANGED <<queue, sent, disk>>
    BY <1>3 DEF LockBuffer, Runs, Goto, WaitLock, kernelVars, Types, TaskTypes
  <2>2. PICK b \in Buf : b = req[t].bh
    BY <1>1
  <2>3. Becomes(buf, buf', b, buf[b].block, buf[b].uptodate, buf[b].dirt, buf[b].count,
                TRUE, buf[b].data)
    BY <1>1, <2>1, <2>2, SetLock
  <2>4. Change(b, buf[b].block, buf[b].uptodate, buf[b].dirt, TRUE, buf[b].data)
    BY <2>3, Changes
  <2> QED
    BY <2>1, <2>2, <2>4 DEF Effect, LocksIt
<1>4. CASE LockBuffer(t) /\ buf' = buf
  BY <1>2, <1>4 DEF LockBuffer, WaitLock, kernelVars
<1>5. CASE Slot(t) /\ FreeSlots(req[t].rw) = {}
  BY <1>2, <1>5 DEF Slot
<1>6. CASE Slot(t) /\ FreeSlots(req[t].rw) # {}
  <2>1. PICK r \in Request :
            /\ r.buf = req[t].bh /\ r.cmd = req[t].rw
            /\ queue' = add_request(r)
            /\ buf' = [buf EXCEPT ![req[t].bh].dirt = FALSE]
            /\ UNCHANGED <<sent, disk>>
    BY <1>6, SlotAsks
  <2>2. PICK b \in Buf : b = req[t].bh
    BY <1>1
  <2>3. Becomes(buf, buf', b, buf[b].block, buf[b].uptodate, FALSE, buf[b].count,
                buf[b].lock, buf[b].data)
    BY <1>1, <2>1, <2>2, SetDirt
  <2>4. Change(b, buf[b].block, buf[b].uptodate, FALSE, buf[b].lock, buf[b].data)
    BY <2>3, Changes
  <2>5. pc[t] = "slot"
    BY <1>6 DEF Slot, Runs
  <2> QED
    BY <2>1, <2>2, <2>4, <2>5 DEF Effect, QueuesIt
<1> QED
  BY <1>3, <1>4, <1>5, <1>6

LEMMA ProgramEffects ==
  ASSUME Types, Placed, Copying, NEW t \in Task,
         new_block(t) \/ \E v \in Value : Update(t, v) \/ Copy(t, v)
  PROVE  Effect
<1>1. pc[t] \in {"held", "copy"} /\ UNCHANGED <<queue, sent, disk>>
  BY DEF new_block, Update, Copy, Runs
<1>2. bh[t] \in Buf /\ buf \in [Buf -> Head_] /\ buf[bh[t]] \in Head_
  BY <1>1, HolderHas
<1>3. PICK b \in Buf : b = bh[t]
  BY <1>2
<1>4. CASE new_block(t)
  <2>1. buf' = [buf EXCEPT ![b].data = Zero, ![b].uptodate = TRUE, ![b].dirt = TRUE]
    BY <1>3, <1>4 DEF new_block
  <2>2. Becomes(buf, buf', b, buf[b].block, TRUE, TRUE, buf[b].count, buf[b].lock, Zero)
    BY <1>2, <2>1, SetCleared
  <2>3. Change(b, buf[b].block, TRUE, TRUE, buf[b].lock, Zero)
    BY <2>2, Changes
  <2>4. Zero \in Value
    BY BufferCacheAssumption
  <2> QED
    BY <1>1, <1>3, <1>4, <2>3, <2>4 DEF Effect, Fills
<1>5. ASSUME NEW v \in Value, Update(t, v) \/ Copy(t, v)
      PROVE  Effect
  <2>1. buf' = [buf EXCEPT ![b].data = v, ![b].dirt = TRUE]
    <3>1. CASE Update(t, v)
      BY <1>3, <3>1 DEF Update
    <3>2. CASE Copy(t, v)
      <4>1. buf' = [buf EXCEPT ![b].data = v, ![b].dirt = buf[b].dirt \/ op[t] = "block_write"]
        BY <1>2, <1>3, <3>2 DEF Copy, Head_
      <4>2. (buf[b].dirt \/ op[t] = "block_write") = TRUE
        BY <3>2 DEF Copy, Runs, Copying
      <4> QED
        BY <4>1, <4>2
    <3> QED
      BY <1>5, <3>1, <3>2
  <2>2. Becomes(buf, buf', b, buf[b].block, buf[b].uptodate, TRUE, buf[b].count, buf[b].lock, v)
    BY <1>2, <2>1, SetUpdated
  <2>3. Change(b, buf[b].block, buf[b].uptodate, TRUE, buf[b].lock, v)
    BY <2>2, Changes
  <2> QED
    BY <1>1, <1>3, <1>5, <2>3 DEF Effect, Fills
<1> QED
  BY <1>4, <1>5

LEMMA DriverEffects ==
  ASSUME Types, Real, Transfer \/ read_intr \/ write_intr \/ bad_rw_intr
  PROVE  Effect
<1>1. queue # <<>>
  BY DEF Transfer, read_intr, write_intr, bad_rw_intr
<1>2. /\ Head(queue) \in Request /\ Head(queue).buf \in Buf /\ buf \in [Buf -> Head_]
      /\ buf[Head(queue).buf].block \in Block
      /\ buf[Head(queue).buf].data \in Value
  BY <1>1, HeadOfQueue DEF Request, Types, KernelTypes, Head_
<1>3. PICK b \in Buf : b = Head(queue).buf
  BY <1>2
<1>4. ASSUME NEW u \in {TRUE, FALSE}, NEW v \in Value, end_request(u, v)
      PROVE  Ends(u, v)
  <2>1. buf' = [buf EXCEPT ![b].uptodate = u, ![b].data = v, ![b].lock = FALSE]
    BY <1>3, <1>4 DEF end_request
  <2>2. Becomes(buf, buf', b, buf[b].block, u, buf[b].dirt, buf[b].count, FALSE, v)
    <3>1. CASE u = TRUE
      BY <1>2, <1>4, <2>1, <3>1, SetDone
    <3>2. CASE u = FALSE
      BY <1>2, <1>4, <2>1, <3>2, SetDone
    <3> QED
      BY <3>1, <3>2
  <2>3. Change(b, buf[b].block, u, buf[b].dirt, FALSE, v)
    BY <2>2, Changes
  <2>4. queue' = Tail(queue) /\ sent' = Nobody
    BY <1>4 DEF end_request
  <2> QED
    BY <1>1, <1>3, <2>3, <2>4 DEF Ends
<1>5. CASE Transfer
  <2>1. SameData
    BY <1>5, Unchanged DEF Transfer
  <2> QED
    BY <1>5, <2>1 DEF Transfer, Sends, Effect
<1>6. CASE read_intr
  <2>1. disk[buf[Head(queue).buf].block] \in Value
    BY <1>2 DEF Types, KernelTypes
  <2> QED
    BY <1>4, <1>6, <2>1 DEF read_intr, Reads, Effect
<1>7. CASE write_intr
  BY <1>2, <1>4, <1>7 DEF write_intr, Writes, Effect
<1>8. CASE bad_rw_intr
  BY <1>2, <1>4, <1>8 DEF bad_rw_intr, Fails, Effect
<1> QED
  BY <1>5, <1>6, <1>7, <1>8

LEMMA Effects ==
  ASSUME Types, Placed, Real, \A b \in Buf : buf[b].count \in Nat, Copying,
         "file_write" \notin Use, [Next]_vars
  PROVE  Effect
<1>1. ASSUME UNCHANGED kernelVars
      PROVE  Effect
  BY <1>1, Unchanged DEF kernelVars, Effect, Nothing
<1>2. CASE UNCHANGED vars
  BY <1>1, <1>2 DEF vars
<1>3. ASSUME NEW t \in Task,
             \/ \E o \in Op, k \in Block : Call(t, o, k)
             \/ sys_sync(t) \/ HolderSleeps(t) \/ StrayWakeup(t)
             \/ Search(t) \/ WaitRead(t) \/ file_read(t)
      PROVE  Effect
  <2>1. UNCHANGED kernelVars
    BY <1>3 DEF Call, sys_sync, HolderSleeps, StrayWakeup, Search, WaitRead, WaitLock, file_read
  <2> QED
    BY <1>1, <2>1
<1>4. ASSUME NEW t \in Task, SyncStep(t)
      PROVE  Effect
  <2>1. UNCHANGED kernelVars
    BY <1>4 DEF SyncStep, WaitLock
  <2> QED
    BY <1>1, <2>1
<1>5. ASSUME NEW t \in Task, Step(t)
      PROVE  Effect
  <2>1. ~file_write(t)
    BY DEF file_write
  <2> QED
    BY <1>3, <1>4, <1>5, <2>1, CacheEffects, RequestEffects, ProgramEffects DEF Step
<1> QED
  BY <1>2, <1>3, <1>5, DriverEffects DEF Next

-----------------------------------------------------------------------------
(* The changes preserve the invariant.                                     *)

(* The requests in the queue before the step stay where they are, but for  *)
(* the first, which an interrupt may take away; the buffers of requests    *)
(* are locked.                                                             *)
LEMMA FirstStays ==
  ASSUME Types, queue # <<>>, NEW r \in Request, queue' = add_request(r)
  PROVE  queue' # <<>> /\ Head(queue') = Head(queue)
<1>1. queue \in Seq(Request) /\ Len(queue) \in Nat /\ Len(queue) # 0 /\ Head(queue) = queue[1]
  BY LenProperties, EmptySeq, HeadTailProperties DEF Types, KernelTypes
<1>2. PICK at \in 0 .. Len(queue) :
            /\ Len(queue) # 0 => at # 0
            /\ \A i \in 1 .. Len(queue) + 1 :
                  queue'[i] = IF i <= at THEN queue[i] ELSE IF i = at + 1 THEN r ELSE queue[i - 1]
  BY QueueHas
<1>3. queue'[1] = queue[1]
  BY <1>1, <1>2
<1>4. queue' \in Seq(Request) /\ DOMAIN queue' = 1 .. Len(queue) + 1
  BY QueueHas, Inserted
<1>5. queue' # <<>>
  BY <1>1, <1>4
<1>6. Head(queue') = queue'[1]
  BY <1>4, <1>5, HeadTailProperties
<1> QED
  BY <1>1, <1>3, <1>5, <1>6

LEMMA CopyingStep ==
  ASSUME Types, Placed, Copying, "file_write" \notin Use, [Next]_vars
  PROVE  Copying'
<1>1. CASE UNCHANGED vars
  BY <1>1 DEF vars, taskVars, Copying
<1>2. ASSUME NEW t \in Task, \A u \in Task \ {t} : op'[u] = op[u],
             \A u \in Task \ {t} : pc'[u] = "copy" => pc[u] = "copy",
             pc'[t] = "copy" => op'[t] = "block_write"
      PROVE  Copying'
  BY <1>2 DEF Copying
<1>3. ASSUME NEW t \in Task, Found(t) \/ TakeVictim(t)
      PROVE  Copying'
  BY <1>2, <1>3
     DEF Copying, Found, TakeVictim, Runs, WaitLock, SleepAt, Got, Goto, Types, TaskTypes
<1>4. ASSUME NEW t \in Task, NEW o \in Op, NEW k \in Block, Call(t, o, k)
      PROVE  Copying'
  BY <1>2, <1>4 DEF Call, Goto, Types, TaskTypes
<1>5. ASSUME NEW t \in Task, sys_sync(t) \/ Find(t) \/ Search(t) \/ HolderSleeps(t) \/ StrayWakeup(t)
      PROVE  Copying'
  BY <1>2, <1>5
     DEF Copying, sys_sync, Find, Search, HolderSleeps, StrayWakeup, kernelVars, taskVars, Goto,
         SleepAt, Types, TaskTypes
<1>6. ASSUME NEW t \in Task, SyncStep(t)
      PROVE  Copying'
  BY <1>2, <1>6
     DEF Copying, SyncStep, WaitLock, SleepAt, Runs, Goto, Return, Types, TaskTypes
<1>7. ASSUME NEW t \in Task, WaitRead(t) \/ file_read(t) \/ new_block(t)
                             \/ \E v \in Value : Update(t, v) \/ Copy(t, v)
      PROVE  Copying'
  BY <1>2, <1>7
     DEF Copying, WaitRead, file_read, new_block, Update, Copy, WaitLock, SleepAt, Runs, Goto,
         Keep, Types, TaskTypes
<1>8. ASSUME NEW t \in Task, brelse(t)
      PROVE  Copying'
  BY <1>2, <1>8 DEF Copying, brelse, WaitLock, SleepAt, Runs, Return, Woken, Types, TaskTypes
<1>9. ASSUME NEW t \in Task, LockBuffer(t) \/ Slot(t)
      PROVE  Copying'
  <2>1. /\ req[t].ret \in {"wait_read", "sync"} /\ pc[t] # "copy"
        /\ op' = op /\ pc' = [pc EXCEPT ![t] = pc'[t]]
        /\ pc'[t] \in {pc[t], "slot", "wait_for_request", req[t].ret}
    BY <1>9
       DEF Placed, PlacedAt, Requesting, LockBuffer, Slot, WaitLock, SleepAt, Runs, Goto, Types,
           TaskTypes
  <2> QED
    BY <1>2, <2>1 DEF Types, TaskTypes
<1>10. CASE Transfer \/ read_intr \/ write_intr \/ bad_rw_intr
  BY <1>10
     DEF Copying, Transfer, read_intr, write_intr, bad_rw_intr, end_request, Woken, taskVars
<1>11. \A t \in Task : ~file_write(t)
  BY DEF file_write
<1> QED
  BY <1>1, <1>3, <1>4, <1>5, <1>6, <1>7, <1>8, <1>9, <1>10, <1>11 DEF Next, Step

LEMMA HeadIsLocked ==
  ASSUME Types, Real, Locks, queue # <<>>
  PROVE  /\ Head(queue) \in Request /\ Head(queue).buf \in Buf
         /\ buf[Head(queue).buf].lock /\ buf[Head(queue).buf].block \in Block
         /\ \A t \in Task : pc[t] \in Asking => req[t].bh # Head(queue).buf
BY HeadOfQueue DEF Locks, Request

LEMMA SendingStep ==
  ASSUME IInv, Sending, Effect
  PROVE  Sending'
<1>1. Types /\ Placed /\ Real /\ Locks
  BY DEF IInv
<1>2. queue # <<>> => /\ Head(queue).buf \in Buf /\ buf[Head(queue).buf].lock
                      /\ \A t \in Task : pc[t] \in Asking => req[t].bh # Head(queue).buf
  BY <1>1, HeadIsLocked
<1>3. CASE SameData /\ queue' = queue /\ sent' = sent
  BY <1>2, <1>3 DEF Sending, SameData
<1>4. CASE Sends
  BY <1>2, <1>4 DEF Sending, Sends, SameData
<1>5. CASE Reads \/ Writes \/ Fails
  BY <1>5 DEF Sending, Reads, Writes, Fails, Ends
(* Another buffer than that of the first request changes, or it is marked. *)
<1>6. ASSUME NEW b \in Buf, NEW k, NEW u, NEW d, NEW l, NEW v, Change(b, k, u, d, l, v),
             queue # <<>> => Head(queue).buf # b \/ d,
             queue # <<>> => queue' # <<>> /\ Head(queue') = Head(queue),
             sent' = sent
      PROVE  Sending'
  BY <1>2, <1>6 DEF Sending, Change
<1>7. ASSUME NEW t \in Task, NEW b \in Buf, Reuses(b, blk[t])
      PROVE  Sending'
  BY <1>2, <1>6, <1>7 DEF Reuses
<1>8. ASSUME NEW t \in Task, NEW b \in Buf, LocksIt(t, b)
      PROVE  Sending'
  BY <1>2, <1>6, <1>8 DEF LocksIt
<1>9. ASSUME NEW t \in Task, NEW b \in Buf, QueuesIt(t, b)
      PROVE  Sending'
  <2>1. queue # <<>> => queue' # <<>> /\ Head(queue') = Head(queue)
    BY <1>1, <1>9, FirstStays DEF QueuesIt
  <2>2. queue # <<>> => Head(queue).buf # b
    BY <1>2, <1>9 DEF QueuesIt, Asking
  <2>3. Change(b, buf[b].block, buf[b].uptodate, FALSE, buf[b].lock, buf[b].data) /\ sent' = sent
    BY <1>9 DEF QueuesIt
  <2> QED
    BY <1>6, <2>1, <2>2, <2>3
<1>10. ASSUME NEW t \in Task, NEW u, NEW v \in Value, Fills(t, u, v)
       PROVE  Sending'
  <2>1. bh[t] \in Buf
    BY <1>1, <1>10, HolderHas DEF Fills
  <2>2. /\ Change(bh[t], buf[bh[t]].block, u, TRUE, buf[bh[t]].lock, v)
        /\ sent' = sent /\ queue' = queue
    BY <1>10 DEF Fills
  <2> QED
    BY <1>6, <2>1, <2>2
<1> QED
  BY <1>3, <1>4, <1>5, <1>7, <1>8, <1>9, <1>10 DEF Effect, Nothing

LEMMA CleanStep ==
  ASSUME IInv, Sending, Clean, Effect
  PROVE  Clean'
<1>1. Types /\ Placed /\ Real /\ Locks /\ Unique
  BY DEF IInv
<1>2. queue # <<>> => /\ Head(queue).buf \in Buf /\ buf[Head(queue).buf].lock
                      /\ buf[Head(queue).buf].block \in Block
  BY <1>1, HeadIsLocked
<1>3. disk \in [Block -> Value] /\ \A b \in Buf : buf[b].block # NoBlock => buf[b].block \in Block
  BY <1>1 DEF Types, KernelTypes, Head_
<1>4. CASE SameData /\ disk' = disk
  BY <1>4 DEF Clean, SameData
(* The buffer that changes is not clean afterwards.                        *)
<1>5. ASSUME NEW b \in Buf, NEW k, NEW u, NEW d, NEW l, NEW v, Change(b, k, u, d, l, v),
             ~u \/ d \/ l, disk' = disk
      PROVE  Clean'
  BY <1>5 DEF Clean, Change
<1>6. ASSUME NEW t \in Task, NEW b \in Buf, Reuses(b, blk[t]) \/ LocksIt(t, b)
      PROVE  Clean'
  BY <1>5, <1>6 DEF Reuses, LocksIt
<1>7. ASSUME NEW t \in Task, NEW b \in Buf, QueuesIt(t, b)
      PROVE  Clean'
  <2>1. buf[b].lock
    BY <1>1, <1>7 DEF QueuesIt, Locks, Asking
  <2> QED
    BY <1>5, <1>7, <2>1 DEF QueuesIt
<1>8. ASSUME NEW t \in Task, NEW u, NEW v \in Value, Fills(t, u, v)
      PROVE  Clean'
  <2>1. bh[t] \in Buf
    BY <1>1, <1>8, HolderHas DEF Fills
  <2> QED
    BY <1>5, <1>8, <2>1 DEF Fills
<1>9. CASE Fails
  BY <1>2, <1>5, <1>9 DEF Fails, Ends
<1>10. CASE Reads
  BY <1>2, <1>10 DEF Reads, Ends, Clean, Change
<1>11. CASE Writes
  <2>1. PICK b \in Buf : b = Head(queue).buf
    BY <1>2, <1>11 DEF Writes
  <2>2. /\ disk' = [disk EXCEPT ![buf[b].block] = sent]
        /\ Change(b, buf[b].block, TRUE, buf[b].dirt, FALSE, buf[b].data)
        /\ buf[b].dirt \/ sent = buf[b].data
        /\ buf[b].block \in Block
    BY <1>2, <1>11, <2>1 DEF Writes, Ends, Sending
  <2>3. ASSUME NEW c \in Buf, buf'[c].block # NoBlock, buf'[c].uptodate, ~buf'[c].dirt,
               ~buf'[c].lock
        PROVE  buf'[c].data = disk'[buf'[c].block]
    <3>1. CASE c = b
      BY <1>3, <2>2, <2>3, <3>1 DEF Change
    <3>2. CASE c # b
      <4>1. /\ buf'[c].block = buf[c].block /\ buf'[c].data = buf[c].data
            /\ buf[c].uptodate /\ ~buf[c].dirt /\ ~buf[c].lock /\ buf[c].block # NoBlock
        BY <2>2, <2>3, <3>2 DEF Change
      <4>2. buf[c].block # buf[b].block
        BY <1>1, <3>2, <4>1 DEF Unique
      <4>3. disk'[buf[c].block] = disk[buf[c].block]
        BY <1>3, <2>2, <4>1, <4>2
      <4> QED
        BY <4>1, <4>3 DEF Clean
    <3> QED
      BY <3>1, <3>2
  <2> QED
    BY <2>3 DEF Clean
<1> QED
  BY <1>4, <1>6, <1>7, <1>8, <1>9, <1>10, <1>11 DEF Effect, Nothing, Sends

LEMMA MarkedStep ==
  ASSUME IInv, Marked, "file_write" \notin Use, [Next]_vars
  PROVE  Marked' /\ Effect
<1>1. Types /\ Placed /\ Real /\ CountIsHolders /\ Copying /\ Sending /\ Clean
  BY DEF IInv, Marked
<1>2. Effect
  BY <1>1, Counted, Effects
<1> QED
  BY <1>1, <1>2, CopyingStep, SendingStep, CleanStep DEF Marked

LEMMA InitiallyMarked == Init => Marked
BY DEF Init, Marked, Copying, Sending, Clean

(* When no program uses file_write(), a clean buffer holds what is on the  *)
(* disk, so that getblk() may give it to another block without writing it, *)
(* whatever errors there are.                                              *)
THEOREM CleanOnDisk == "file_write" \notin Use => (Spec => []CleanMatchesDisk)
<1> SUFFICES ASSUME "file_write" \notin Use PROVE Spec => []CleanMatchesDisk
  OBVIOUS
<1>1. IInv /\ Marked /\ [Next]_vars => Marked'
  BY MarkedStep
<1>2. Marked => CleanMatchesDisk
  BY DEF Marked, Clean, CleanMatchesDisk
<1> QED
  BY <1>1, <1>2, Invariant, InitiallyMarked, PTL DEF Spec

-----------------------------------------------------------------------------
(* The cache implements the device, for programs that read and update      *)
(* blocks and for sync, on a disk without errors.                          *)

Plain == Use \subseteq {"read", "update", "sync"} /\ MaxErrors = 0

PlainTasks ==
    \A t \in Task : /\ op[t] \in {"bread", "sync", "none"} /\ pc[t] # "copy"
                    /\ op[t] = "none" => pc[t] = "user"

(* A marked buffer is up to date, what is read is not, and what is written *)
(* or held is.                                                             *)
PlainBuffers ==
    /\ \A b \in Buf : buf[b].dirt => buf[b].uptodate
    /\ \A i \in DOMAIN queue : queue[i].cmd = "READ" <=> ~buf[queue[i].buf].uptodate
    /\ \A t \in Task : pc[t] \in Asking => (req[t].rw = "READ" <=> ~buf[req[t].bh].uptodate)
    /\ \A t \in Task : pc[t] = "held" => buf[bh[t]].uptodate

Fresh == PlainTasks /\ PlainBuffers

SameUptodate == \A c \in Buf : buf'[c].uptodate = buf[c].uptodate

(* How a task comes to ask for a request, and to hold what it asked for.   *)
Comes(t) ==
    /\ op'[t] \in {"bread", "sync", "none"} /\ pc'[t] # "copy"
    /\ op'[t] = "none" => pc'[t] = "user"
    /\ pc'[t] \in Asking =>
          /\ req'[t] = req[t]
          /\ \/ pc[t] \in Asking
             \/ pc[t] = "lock_buffer" /\ ~NothingToDo(req[t]) /\ SameUptodate
    /\ pc'[t] = "held" =>
          /\ bh'[t] = bh[t]
          /\ \/ pc[t] = "held"
             \/ buf[bh[t]].uptodate /\ SameUptodate

LEMMA PlainUse ==
  ASSUME Plain
  PROVE  /\ Op \subseteq {"bread", "sync"} /\ "file_write" \notin Use
         /\ \A t \in Task : ~file_write(t)
BY DEF Plain, Op, Kinds, file_write

LEMMA CalmComes ==
  ASSUME PlainTasks, NEW t \in Task, Calm(t)
  PROVE  Comes(t)
<1>1. /\ op[t] \in {"bread", "sync", "none"} /\ pc[t] # "copy"
      /\ op[t] = "none" => pc[t] = "user"
      /\ op'[t] = op[t] /\ bh'[t] = bh[t] /\ req'[t] = req[t]
  BY DEF PlainTasks, Calm
<1>2. CASE pc'[t] = pc[t]
  BY <1>1, <1>2 DEF Comes
<1>3. CASE pc[t] = "buffer_wait" /\ pc'[t] = "find"
  BY <1>1, <1>3 DEF Comes, Asking
<1>4. CASE pc[t] = "wait_for_request" /\ pc'[t] = "slot"
  BY <1>1, <1>4 DEF Comes, Asking
<1> QED
  BY <1>2, <1>3, <1>4 DEF Calm

LEMMA WaitComes ==
  ASSUME Types, PlainTasks, NEW t \in Task, NEW b, WaitLock(t, b)
  PROVE  \A u \in Task : Comes(u)
<1>1. \A u \in Task : Calm(u)
  BY DEF Types, TaskTypes, WaitLock, SleepAt, Calm
<1> QED
  BY <1>1, CalmComes

(* t goes on to a place where it neither holds a buffer to use nor asks.   *)
LEMMA GoesOn ==
  ASSUME Types, PlainTasks, NEW t \in Task, NEW p \in Places \ ({"copy", "held"} \cup Asking),
         pc' = [pc EXCEPT ![t] = p], op' = op, blk' = blk, pc[t] # "user",
         \A u \in Task \ {t} : bh'[u] = bh[u] /\ req'[u] = req[u]
  PROVE  \A u \in Task : Comes(u)
<1>1. ASSUME NEW u \in Task \ {t}
      PROVE  Comes(u)
  <2>1. Calm(u)
    BY DEF Calm, Types, TaskTypes
  <2> QED
    BY <2>1, CalmComes
<1>2. pc'[t] = p /\ op'[t] = op[t] /\ op[t] \in {"bread", "sync"}
  BY DEF PlainTasks, Types, TaskTypes
<1>3. Comes(t)
  BY <1>2 DEF Comes
<1> QED
  BY <1>1, <1>3

LEMMA TaskComes ==
  ASSUME Types, Placed, PlainTasks, Plain, [Next]_vars
  PROVE  \A u \in Task : Comes(u)
<1>1. ASSUME \A u \in Task : Calm(u)
      PROVE  \A u \in Task : Comes(u)
  BY <1>1, CalmComes
<1>2. ASSUME NEW t \in Task, Alone(t), Comes(t)
      PROVE  \A u \in Task : Comes(u)
  BY <1>2, CalmComes DEF Alone
<1>3. CASE UNCHANGED vars
  BY <1>1, <1>3 DEF vars, taskVars, Calm
<1>4. ASSUME NEW t \in Task, HolderSleeps(t) \/ StrayWakeup(t)
      PROVE  \A u \in Task : Comes(u)
  BY <1>1, <1>4 DEF HolderSleeps, StrayWakeup, taskVars, Calm, Types, TaskTypes
<1>5. CASE Transfer \/ read_intr \/ write_intr \/ bad_rw_intr
  BY <1>1, <1>5 DEF Transfer, read_intr, write_intr, bad_rw_intr, end_request, Woken, taskVars, Calm,
                    Types, TaskTypes
<1>6. ASSUME NEW t \in Task, NEW o \in Op, NEW k \in Block, Call(t, o, k)
      PROVE  \A u \in Task : Comes(u)
  BY <1>2, <1>6, PlainUse DEF Call, Goto, Alone, Calm, Comes, Asking, Types, TaskTypes
<1>7. ASSUME NEW t \in Task, sys_sync(t) \/ Find(t) \/ Search(t)
      PROVE  \A u \in Task : Comes(u)
  <2>1. CASE sys_sync(t)
    BY <1>2, <2>1 DEF sys_sync, Goto, Alone, Calm, Comes, Asking, Types, TaskTypes
  <2>2. ASSUME Find(t) \/ Search(t)
        PROVE  \A u \in Task : Comes(u)
    <3>1. /\ pc[t] # "user" /\ op' = op /\ blk' = blk /\ req' = req
          /\ \A u \in Task \ {t} : bh'[u] = bh[u]
          /\ \E p \in {"found", "search", "victim", "buffer_wait"} : pc' = [pc EXCEPT ![t] = p]
      BY <2>2 DEF Find, Search, Runs, Goto, SleepAt, Types, TaskTypes
    <3> QED
      BY <3>1, GoesOn DEF Places, Asking
  <2> QED
    BY <1>7, <2>1, <2>2
<1>8. ASSUME NEW t \in Task, Found(t)
      PROVE  \A u \in Task : Comes(u)
  <2>1. CASE WaitLock(t, bh[t])
    BY <2>1, WaitComes
  <2>2. CASE ~WaitLock(t, bh[t]) /\ buf[bh[t]].block = blk[t]
    <3>1. /\ Got(t, buf[bh[t]].uptodate) /\ UNCHANGED <<buf, bh, op, blk>> /\ pc[t] = "found"
          /\ op[t] # "block_write"
      BY <1>8, <2>2 DEF Found, Runs, PlainTasks
    <3>2. op[t] = "bread"
      BY <3>1 DEF PlainTasks, Placed, PlacedAt, Requesting
    <3>3. SameUptodate
      BY <3>1 DEF SameUptodate
    <3>4. CASE buf[bh[t]].uptodate
      <4>1. pc' = [pc EXCEPT ![t] = "held"] /\ req' = req
        BY <3>1, <3>2, <3>4 DEF Got, Goto
      <4> QED
        BY <1>2, <3>1, <3>2, <3>3, <3>4, <4>1
           DEF PlainTasks, Alone, Calm, Comes, Asking, Types, TaskTypes
    <3>5. CASE ~buf[bh[t]].uptodate
      <4>1. /\ pc' = [pc EXCEPT ![t] = "lock_buffer"]
            /\ req' = [req EXCEPT ![t] = [rw |-> "READ", bh |-> bh[t], ret |-> "wait_read"]]
        BY <3>1, <3>2, <3>5 DEF Got, Goto
      <4> QED
        BY <1>2, <3>1, <3>2, <4>1 DEF PlainTasks, Alone, Calm, Comes, Asking, Types, TaskTypes
    <3> QED
      BY <3>4, <3>5
  <2>3. CASE ~WaitLock(t, bh[t]) /\ buf[bh[t]].block # blk[t]
    <3>1. /\ bh' = [bh EXCEPT ![t] = 0] /\ pc' = [pc EXCEPT ![t] = "find"]
          /\ UNCHANGED <<req, op, blk>> /\ pc[t] = "found"
      BY <1>8, <2>3 DEF Found, Goto, Runs
    <3> QED
      BY <3>1, GoesOn DEF Places, Asking, Types, TaskTypes
  <2> QED
    BY <2>1, <2>2, <2>3
<1>9. ASSUME NEW t \in Task, TakeVictim(t)
      PROVE  \A u \in Task : Comes(u)
  <2>1. CASE WaitLock(t, bh[t])
    BY <2>1, WaitComes
  <2>2. CASE ~WaitLock(t, bh[t])
    <3>1. /\ UNCHANGED <<op, blk>> /\ pc[t] = "victim" /\ op[t] = "bread"
          /\ \/ /\ bh' = [bh EXCEPT ![t] = 0] /\ req' = req
                /\ pc' = [pc EXCEPT ![t] = "find"]
             \/ /\ bh' = bh /\ req' = req
                /\ pc' = [pc EXCEPT ![t] = "sync"]
             \/ /\ bh' = bh /\ pc' = [pc EXCEPT ![t] = "lock_buffer"]
                /\ req' = [req EXCEPT ![t] = [rw |-> "READ", bh |-> bh[t], ret |-> "wait_read"]]
      BY <1>9, <2>2
         DEF TakeVictim, Runs, Got, Goto, PlainTasks, Placed, PlacedAt, Requesting, Kinds
    <3> QED
      BY <3>1, GoesOn DEF Places, Asking, Types, TaskTypes
  <2> QED
    BY <2>1, <2>2
<1>10. ASSUME NEW t \in Task, SyncStep(t)
       PROVE  \A u \in Task : Comes(u)
  <2>1. CASE \E b \in Buf : WaitLock(t, b)
    BY <2>1, WaitComes
  <2>2. CASE idx[t] = 2 * NBuf
    BY <1>2, <1>10, <2>2
       DEF PlainTasks, SyncStep, Runs, Return, Goto, Alone, Calm, Comes, Asking, Types, TaskTypes
  <2>4. idx[t] \in Nat /\ NBuf \in Nat
    BY BufferCacheAssumption DEF Types, TaskTypes
  <2>3. CASE idx[t] < 2 * NBuf
    <3> DEFINE b == (idx[t] % NBuf) + 1
    <3>1. \/ WaitLock(t, b)
          \/ /\ pc[t] = "sync" /\ UNCHANGED <<op, blk, bh>>
             /\ \/ /\ req' = [req EXCEPT ![t] = [rw |-> "WRITE", bh |-> b, ret |-> "sync"]]
                   /\ pc' = [pc EXCEPT ![t] = "lock_buffer"]
                \/ req' = req /\ pc' = [pc EXCEPT ![t] = "sync"]
      BY <1>10, <2>3, <2>4 DEF SyncStep, Goto, Runs
    <3> HIDE DEF b
    <3> QED
      BY <3>1, WaitComes, GoesOn DEF Places, Asking, Types, TaskTypes
  <2> QED
    BY <1>10, <2>2, <2>3 DEF SyncStep
<1>11. ASSUME NEW t \in Task, WaitRead(t)
       PROVE  \A u \in Task : Comes(u)
  <2>1. CASE WaitLock(t, bh[t])
    BY <2>1, WaitComes
  <2>2. CASE ~WaitLock(t, bh[t])
    BY <1>2, <1>11, <2>2
       DEF PlainTasks, WaitRead, Runs, Goto, Keep, kernelVars, Alone, Calm, Comes, Asking,
           SameUptodate, Types, TaskTypes
  <2> QED
    BY <2>1, <2>2
<1>12. ASSUME NEW t \in Task, LockBuffer(t)
       PROVE  \A u \in Task : Comes(u)
  <2>1. CASE WaitLock(t, req[t].bh)
    BY <2>1, WaitComes
  <2>2. CASE ~WaitLock(t, req[t].bh) /\ NothingToDo(req[t])
    <3>1. req[t].ret \in {"wait_read", "sync"}
      BY <1>12 DEF LockBuffer, Runs, Placed, PlacedAt, Requesting
    <3>2. /\ pc[t] = "lock_buffer" /\ UNCHANGED <<op, blk, bh>>
          /\ req' = [req EXCEPT ![t] = NoReq] /\ pc' = [pc EXCEPT ![t] = req[t].ret]
      BY <1>12, <2>2 DEF LockBuffer, Runs, Goto
    <3> QED
      BY <3>1, <3>2, GoesOn DEF Places, Asking, Types, TaskTypes
  <2>3. CASE ~WaitLock(t, req[t].bh) /\ ~NothingToDo(req[t])
    <3>1. /\ pc[t] = "lock_buffer" /\ Goto(t, "slot") /\ UNCHANGED <<req, op, blk, bh>>
          /\ buf' = [buf EXCEPT ![req[t].bh].lock = TRUE]
      BY <1>12, <2>3 DEF LockBuffer, Runs
    <3>2. PICK b \in Buf : b = req[t].bh
      BY <3>1 DEF Placed, PlacedAt, Requesting
    <3>3. Becomes(buf, buf', b, buf[b].block, buf[b].uptodate, buf[b].dirt, buf[b].count,
                  TRUE, buf[b].data)
      BY <3>1, <3>2, SetLock DEF Types, KernelTypes
    <3>4. SameUptodate
      BY <3>3 DEF Becomes, SameUptodate
    <3> QED
      BY <1>2, <2>3, <3>1, <3>4
         DEF PlainTasks, Goto, Alone, Calm, Comes, Asking, Types, TaskTypes
  <2> QED
    BY <2>1, <2>2, <2>3
<1>13. ASSUME NEW t \in Task, Slot(t)
       PROVE  \A u \in Task : Comes(u)
  <2>1. req[t].ret \in {"wait_read", "sync"} /\ pc[t] = "slot"
    BY <1>13 DEF Slot, Runs, Placed, PlacedAt, Requesting
  <2>2. /\ UNCHANGED <<op, blk, bh>>
        /\ \/ pc' = [pc EXCEPT ![t] = "wait_for_request"] /\ req' = req
           \/ pc' = [pc EXCEPT ![t] = req[t].ret] /\ req' = [req EXCEPT ![t] = NoReq]
    BY <1>13 DEF Slot, SleepAt, Goto
  <2>3. CASE pc' = [pc EXCEPT ![t] = "wait_for_request"] /\ req' = req
    BY <1>2, <2>1, <2>2, <2>3 DEF PlainTasks, Alone, Calm, Comes, Asking, Types, TaskTypes
  <2>4. CASE pc' = [pc EXCEPT ![t] = req[t].ret] /\ req' = [req EXCEPT ![t] = NoReq]
    BY <2>1, <2>2, <2>4, GoesOn DEF Places, Asking, Types, TaskTypes
  <2> QED
    BY <2>2, <2>3, <2>4
<1>14. ASSUME NEW t \in Task,
              file_read(t) \/ new_block(t) \/ \E v \in Value : Update(t, v) \/ Copy(t, v)
       PROVE  \A u \in Task : Comes(u)
  <2>1. pc' = [pc EXCEPT ![t] = "release"] /\ UNCHANGED <<op, blk, bh, req>> /\ pc[t] # "user"
    BY <1>14 DEF file_read, new_block, Update, Copy, Goto, Keep, Runs
  <2> QED
    BY <2>1, GoesOn DEF Places, Asking
<1>15. ASSUME NEW t \in Task, brelse(t)
       PROVE  \A u \in Task : Comes(u)
  <2>1. CASE WaitLock(t, bh[t])
    BY <2>1, WaitComes
  <2>2. CASE ~WaitLock(t, bh[t])
    BY <1>2, <1>15, <2>2
       DEF PlainTasks, brelse, Return, Woken, Alone, Calm, Comes, Asking, Types, TaskTypes
  <2> QED
    BY <2>1, <2>2
<1>16. \A t \in Task : ~file_write(t)
  BY PlainUse
<1> QED
  BY <1>3, <1>4, <1>5, <1>6, <1>7, <1>8, <1>9, <1>10, <1>11, <1>12, <1>13, <1>14, <1>15, <1>16
     DEF Next, Step

(* Whether a buffer is up to date changes only when an interrupt finishes  *)
(* the first request, and when a buffer that nobody holds is reused.       *)
Used(c) ==
    /\ buf'[c].uptodate = FALSE /\ buf'[c].dirt = FALSE
    /\ ~buf[c].lock /\ buf[c].count = 0 /\ queue' = queue

Finished(c) ==
    /\ queue # <<>> /\ queue' = Tail(queue) /\ Head(queue).buf = c
    /\ buf'[c].uptodate = TRUE

LEMMA UptodateStep ==
  ASSUME IInv, Fresh, Plain, Effect, NEW c \in Buf
  PROVE  /\ buf'[c].uptodate = buf[c].uptodate \/ Used(c) \/ Finished(c)
         /\ buf'[c].dirt => buf[c].dirt \/ buf'[c].uptodate
<1>1. /\ Types /\ Placed /\ Real /\ PlainTasks /\ PlainBuffers
      /\ ~(errors < MaxErrors)
  BY DEF IInv, Fresh, Types, KernelTypes, Plain
<1>2. ~Fails
  BY <1>1 DEF Fails
<1>3. CASE SameData
  BY <1>3 DEF SameData
<1>4. ASSUME NEW b \in Buf, NEW k, Reuses(b, k)
      PROVE  \/ buf'[c].uptodate = buf[c].uptodate /\ buf'[c].dirt = buf[c].dirt
             \/ Used(c)
  BY <1>4 DEF Reuses, Change, Used
<1>5. ASSUME NEW t \in Task, NEW b \in Buf, LocksIt(t, b) \/ QueuesIt(t, b)
      PROVE  buf'[c].uptodate = buf[c].uptodate /\ (buf'[c].dirt => buf[c].dirt)
  BY <1>5 DEF LocksIt, QueuesIt, Change
<1>6. ASSUME NEW t \in Task, NEW v \in Value, Update(t, v) \/ Copy(t, v),
             Fills(t, buf[bh[t]].uptodate, v)
      PROVE  /\ buf'[c].uptodate = buf[c].uptodate
             /\ buf'[c].dirt => buf[c].dirt \/ buf'[c].uptodate
  <2>1. pc[t] = "held"
    BY <1>1, <1>6 DEF Update, Copy, Runs, PlainTasks
  <2>2. buf[bh[t]].uptodate
    BY <1>1, <2>1 DEF PlainBuffers
  <2> QED
    BY <1>6, <2>2 DEF Fills, Change
<1>7. \A t \in Task : ~new_block(t)
  BY <1>1 DEF new_block, PlainTasks
<1>8. ASSUME Reads \/ Writes
      PROVE  /\ buf'[c].uptodate = buf[c].uptodate \/ Finished(c)
             /\ buf'[c].dirt => buf[c].dirt
  <2>1. /\ queue # <<>> /\ queue' = Tail(queue)
        /\ \E v : Change(Head(queue).buf, buf[Head(queue).buf].block, TRUE,
                         buf[Head(queue).buf].dirt, FALSE, v)
    BY <1>8 DEF Reads, Writes, Ends
  <2> QED
    BY <2>1 DEF Change, Finished
<1>9. CASE Nothing \/ Sends
  BY <1>3, <1>9 DEF Nothing, Sends
<1>10. ASSUME NEW t \in Task, NEW b \in Buf,
              Reuses(b, blk[t]) \/ LocksIt(t, b) \/ QueuesIt(t, b)
       PROVE  /\ buf'[c].uptodate = buf[c].uptodate \/ Used(c)
              /\ buf'[c].dirt => buf[c].dirt
  <2>1. CASE Reuses(b, blk[t])
    BY <1>4, <2>1 DEF Used
  <2> QED
    BY <1>5, <1>10, <2>1
<1> QED
  BY <1>2, <1>6, <1>7, <1>8, <1>9, <1>10 DEF Effect

LEMMA QueueStep ==
  ASSUME Effect
  PROVE  \/ queue' = queue
         \/ queue # <<>> /\ queue' = Tail(queue)
         \/ \E t \in Task, b \in Buf : QueuesIt(t, b)
BY DEF Effect, Nothing, Sends, Reads, Writes, Fails, Ends, Reuses, LocksIt, Fills

LEMMA QueueFresh ==
  ASSUME IInv, Fresh, Plain, Effect
  PROVE  \A i \in DOMAIN queue' : queue'[i].cmd = "READ" <=> ~buf'[queue'[i].buf].uptodate
<1>1. Types /\ Placed /\ Real /\ Locks /\ PlainBuffers
  BY DEF IInv, Fresh
<1>2. Len(queue) \in Nat /\ DOMAIN queue = 1 .. Len(queue)
  BY <1>1, QueueTypes
<1>3. \A j \in DOMAIN queue : /\ queue[j].buf \in Buf /\ buf[queue[j].buf].lock
                              /\ queue[j].cmd = "READ" <=> ~buf[queue[j].buf].uptodate
  BY <1>1, QueueTypes DEF Locks, PlainBuffers
<1>4. \A j \in DOMAIN queue : \/ buf'[queue[j].buf].uptodate = buf[queue[j].buf].uptodate
                              \/ Finished(queue[j].buf)
  BY <1>3, UptodateStep DEF Used
<1>5. ASSUME queue # <<>>, queue' = Tail(queue)
      PROVE  \A i \in DOMAIN queue' : /\ i + 1 \in DOMAIN queue /\ queue'[i] = queue[i + 1]
                                      /\ Head(queue).buf # queue[i + 1].buf
  <2>1. /\ Len(queue) \in Nat \ {0} /\ DOMAIN queue = 1 .. Len(queue)
        /\ DOMAIN queue' = 1 .. Len(queue) - 1
        /\ \A i \in 1 .. Len(queue) - 1 : queue'[i] = queue[i + 1]
        /\ Head(queue) = queue[1]
    BY <1>1, <1>5, QueueHasNot
  <2> TAKE i \in DOMAIN queue'
  <2>2. i + 1 \in DOMAIN queue /\ 1 \in DOMAIN queue /\ i + 1 # 1 /\ queue'[i] = queue[i + 1]
    BY <2>1
  <2> QED
    BY <1>1, <2>1, <2>2 DEF Locks
<1>6. CASE queue' = queue
  <2>1. \A c : ~Finished(c)
    <3>1. ASSUME queue # <<>>, queue' = Tail(queue)
          PROVE  FALSE
      <4>1. DOMAIN queue' = 1 .. Len(queue) - 1 /\ Len(queue) # 0
        BY <1>1, <3>1, QueueHasNot
      <4> QED
        BY <1>2, <1>6, <4>1
    <3> QED
      BY <3>1 DEF Finished
  <2> QED
    BY <1>3, <1>4, <1>6, <2>1
<1>7. CASE queue # <<>> /\ queue' = Tail(queue)
  BY <1>3, <1>4, <1>5, <1>7 DEF Finished
<1>8. ASSUME NEW t \in Task, NEW b \in Buf, QueuesIt(t, b)
      PROVE  \A i \in DOMAIN queue' :
                queue'[i].cmd = "READ" <=> ~buf'[queue'[i].buf].uptodate
  <2>1. SameUptodate
    BY <1>8 DEF QueuesIt, Change, SameUptodate
  <2>2. PICK r \in Request : r.buf = b /\ r.cmd = req[t].rw /\ queue' = add_request(r)
    BY <1>8 DEF QueuesIt
  <2>3. r.cmd = "READ" <=> ~buf[r.buf].uptodate
    BY <1>1, <1>8, <2>2 DEF QueuesIt, PlainBuffers, Asking
  <2>4. PICK at \in 0 .. Len(queue) :
            /\ DOMAIN queue' = 1 .. Len(queue) + 1
            /\ \A i \in 1 .. Len(queue) + 1 :
                  queue'[i] = IF i <= at THEN queue[i] ELSE IF i = at + 1 THEN r ELSE queue[i - 1]
    BY <1>1, <2>2, QueueHas
  <2> TAKE i \in DOMAIN queue'
  <2>5. \/ queue'[i] = r
        \/ \E j \in DOMAIN queue : queue'[i] = queue[j]
    <3>1. i \in 1 .. Len(queue) + 1 /\ at \in 0 .. Len(queue)
      BY <2>4
    <3>2. CASE i <= at
      BY <1>2, <2>4, <3>1, <3>2
    <3>3. CASE i = at + 1
      BY <2>4, <3>1, <3>3
    <3>4. CASE i > at + 1
      <4>1. i - 1 \in DOMAIN queue
        BY <1>2, <3>1, <3>4
      <4> QED
        BY <1>2, <2>4, <3>1, <3>4, <4>1
    <3> QED
      BY <1>2, <3>1, <3>2, <3>3, <3>4
  <2> QED
    BY <1>3, <2>1, <2>2, <2>3, <2>5 DEF SameUptodate
<1> QED
  BY <1>6, <1>7, <1>8, QueueStep

LEMMA FreshStep ==
  ASSUME IInv, Placed', Fresh, Plain, Effect, \A u \in Task : Comes(u)
  PROVE  Fresh'
<1>1. /\ Types /\ Placed /\ Real /\ Locks /\ CountIsHolders
      /\ PlainTasks /\ PlainBuffers
  BY DEF IInv, Fresh
<1>2. \A c \in Buf : buf[c].uptodate \in BOOLEAN
  BY <1>1 DEF Types, KernelTypes, Head_
<1>3. PlainTasks'
  BY DEF Comes, PlainTasks
<1>4. \A b \in Buf : buf'[b].dirt => buf'[b].uptodate
  BY <1>1, UptodateStep DEF PlainBuffers, Used, Finished
<1>5. ASSUME NEW t \in Task, pc'[t] \in Asking
      PROVE  req'[t].rw = "READ" <=> ~buf'[req'[t].bh].uptodate
  <2>1. req'[t] = req[t]
    BY <1>5 DEF Comes
  <2>2. req[t].bh \in Buf /\ req[t].rw \in {"READ", "WRITE"}
    <3>1. pc'[t] \in Requesting
      BY <1>5 DEF Asking, Requesting
    <3> QED
      BY <1>1, <2>1, <3>1 DEF Placed, PlacedAt, Types, TaskTypes
  <2>3. PICK b \in Buf : b = req[t].bh
    BY <2>2
  <2>4. CASE pc[t] \in Asking
    <3>1. buf[b].lock /\ (queue # <<>> => Head(queue).buf # b)
      BY <1>1, <2>3, <2>4, HeadIsLocked DEF Locks
    <3>2. buf'[b].uptodate = buf[b].uptodate
      BY <3>1, UptodateStep DEF Used, Finished
    <3> QED
      BY <1>1, <2>1, <2>3, <2>4, <3>2 DEF PlainBuffers
  <2>5. CASE ~NothingToDo(req[t]) /\ SameUptodate
    <3>1. req[t].rw = "READ" <=> ~buf[b].uptodate
      BY <1>1, <1>2, <2>2, <2>3, <2>5 DEF NothingToDo, PlainBuffers
    <3> QED
      BY <2>1, <2>3, <2>5, <3>1 DEF SameUptodate
  <2> QED
    BY <1>5, <2>4, <2>5 DEF Comes
<1>6. ASSUME NEW t \in Task, pc'[t] = "held"
      PROVE  buf'[bh'[t]].uptodate
  <2>1. bh'[t] = bh[t]
    BY <1>6 DEF Comes
  <2>2. bh'[t] \in Buf
    BY <1>6 DEF Placed, PlacedAt, NoBuffer, Requesting
  <2>3. PICK b \in Buf : b = bh[t]
    BY <2>1, <2>2
  <2>4. CASE pc[t] = "held"
    <3>1. Holds(t, b)
      BY <2>3, <2>4 DEF Holds
    <3>2. buf[b].count # 0
      BY <1>1, <3>1, Counted
    <3>3. buf[b].uptodate
      BY <1>1, <2>3, <2>4 DEF PlainBuffers
    <3> QED
      BY <2>1, <2>3, <3>2, <3>3, UptodateStep DEF Used, Finished
  <2>5. CASE buf[bh[t]].uptodate /\ SameUptodate
    BY <2>1, <2>3, <2>5 DEF SameUptodate
  <2> QED
    BY <1>6, <2>4, <2>5 DEF Comes
<1>7. \A i \in DOMAIN queue' : queue'[i].cmd = "READ" <=> ~buf'[queue'[i].buf].uptodate
  BY QueueFresh
<1> QED
  BY <1>3, <1>4, <1>5, <1>6, <1>7 DEF Fresh, PlainBuffers

LEMMA InitiallyFresh == Init => Fresh
<1> SUFFICES ASSUME Init PROVE Fresh
  OBVIOUS
<1>1. DOMAIN queue = {}
  BY DEF Init
<1>2. PlainTasks
  BY DEF Init, PlainTasks
<1> QED
  BY <1>1, <1>2 DEF Init, Fresh, PlainBuffers, Asking

-----------------------------------------------------------------------------
(* The device as programs see it.                                          *)

ContentsLaw ==
    Unique => \A k \in Block :
        /\ \A b \in Buf : buf[b].block = k /\ buf[b].uptodate => Contents(k) = buf[b].data
        /\ (\A b \in Buf : buf[b].block = k => ~buf[b].uptodate) => Contents(k) = disk[k]

LEMMA ContentsIs == ContentsLaw /\ ContentsLaw'
<1>1. ContentsLaw
  <2> SUFFICES ASSUME Unique, NEW k \in Block
               PROVE  /\ \A b \in Buf : buf[b].block = k /\ buf[b].uptodate
                                            => Contents(k) = buf[b].data
                      /\ (\A b \in Buf : buf[b].block = k => ~buf[b].uptodate)
                            => Contents(k) = disk[k]
    BY DEF ContentsLaw
  <2> DEFINE cached == {b \in find_buffer(k) : buf[b].uptodate}
  <2>1. ASSUME NEW b \in Buf, buf[b].block = k, buf[b].uptodate
        PROVE  Contents(k) = buf[b].data
    <3>1. cached = {b}
      BY <2>1, BlocksAreReal DEF find_buffer, Unique
    <3>2. (CHOOSE c \in cached : TRUE) = b
      BY <3>1
    <3> QED
      BY <3>1, <3>2 DEF Contents
  <2>2. ASSUME \A b \in Buf : buf[b].block = k => ~buf[b].uptodate
        PROVE  Contents(k) = disk[k]
    <3>1. cached = {}
      BY <2>2 DEF find_buffer
    <3> QED
      BY <3>1 DEF Contents
  <2> QED
    BY <2>1, <2>2
<1> QED
  BY <1>1, PTL

SameContents == \A k \in Block : Contents(k)' = Contents(k)

(* Only one buffer changes, and it is up to date afterwards.               *)
OnlyChanges(b, w) ==
    /\ buf'[b].uptodate /\ buf'[b].data = w
    /\ \A c \in Buf : buf'[c].block = buf[c].block
    /\ \A c \in Buf \ {b} : buf'[c].uptodate = buf[c].uptodate /\ buf'[c].data = buf[c].data
    /\ \A j \in Block : j # buf[b].block => disk'[j] = disk[j]

LEMMA OneBuffer ==
  ASSUME Unique, Unique', NEW b \in Buf, NEW w, OnlyChanges(b, w), buf[b].block \in Block
  PROVE  \A j \in Block : Contents(j)' = IF j = buf[b].block THEN w ELSE Contents(j)
<1> TAKE j \in Block
<1>1. CASE j = buf[b].block
  BY <1>1, ContentsIs DEF ContentsLaw, OnlyChanges
<1>2. CASE j # buf[b].block
  <2>1. \A c \in Buf : buf[c].block = j =>
           /\ buf'[c].block = j /\ buf'[c].uptodate = buf[c].uptodate /\ buf'[c].data = buf[c].data
    BY <1>2 DEF OnlyChanges
  <2>2. CASE \E c \in Buf : buf[c].block = j /\ buf[c].uptodate
    BY <1>2, <2>1, <2>2, ContentsIs DEF ContentsLaw
  <2>3. CASE ~\E c \in Buf : buf[c].block = j /\ buf[c].uptodate
    BY <1>2, <2>1, <2>3, ContentsIs DEF ContentsLaw, OnlyChanges
  <2> QED
    BY <2>2, <2>3
<1> QED
  BY <1>1, <1>2

(* The contents of the device change when a program changes them, and only *)
(* then.                                                                   *)
LEMMA ContentsStep ==
  ASSUME IInv, Unique', Fresh, Clean, Plain, Effect
  PROVE  \/ SameContents
         \/ \E t \in Task, v \in Value :
               /\ Update(t, v)
               /\ \A k \in Block : Contents(k)' = IF k = blk[t] THEN v ELSE Contents(k)
<1>1. /\ Types /\ Placed /\ Real /\ Locks /\ Unique /\ CountIsHolders /\ HolderKeepsBlock
      /\ PlainTasks /\ PlainBuffers /\ ~(errors < MaxErrors)
  BY DEF IInv, Fresh, Types, KernelTypes, Plain
<1>2. ASSUME \A c \in Buf : /\ buf'[c].block = buf[c].block
                            /\ buf'[c].uptodate = buf[c].uptodate
                            /\ buf'[c].data = buf[c].data,
             disk' = disk
      PROVE  SameContents
  <2> SUFFICES ASSUME NEW k \in Block PROVE Contents(k)' = Contents(k)
    BY DEF SameContents
  <2>1. CASE \E c \in Buf : buf[c].block = k /\ buf[c].uptodate
    BY <1>1, <1>2, <2>1, ContentsIs DEF ContentsLaw
  <2>2. CASE ~\E c \in Buf : buf[c].block = k /\ buf[c].uptodate
    BY <1>1, <1>2, <2>2, ContentsIs DEF ContentsLaw
  <2> QED
    BY <2>1, <2>2
<1>3. CASE Nothing \/ Sends
  BY <1>2, <1>3 DEF Nothing, Sends, SameData
<1>4. ASSUME NEW t \in Task, NEW b \in Buf, LocksIt(t, b) \/ QueuesIt(t, b)
      PROVE  SameContents
  BY <1>2, <1>4 DEF LocksIt, QueuesIt, Change
<1>5. ASSUME NEW b \in Buf, NEW j, Reuses(b, j)
      PROVE  SameContents
  <2> SUFFICES ASSUME NEW k \in Block PROVE Contents(k)' = Contents(k)
    BY DEF SameContents
  <2>1. /\ ~buf[b].lock /\ ~buf[b].dirt /\ disk' = disk
        /\ \A c \in Buf : buf[c].block # j
        /\ \A c \in Buf : /\ buf'[c].block = IF c = b THEN j ELSE buf[c].block
                          /\ buf'[c].uptodate = IF c = b THEN FALSE ELSE buf[c].uptodate
                          /\ c # b => buf'[c].data = buf[c].data
    BY <1>5 DEF Reuses, Change
  <2>2. CASE \E c \in Buf \ {b} : buf[c].block = k /\ buf[c].uptodate
    <3>1. PICK c \in Buf \ {b} : buf[c].block = k /\ buf[c].uptodate
      BY <2>2
    <3>2. buf'[c].block = k /\ buf'[c].uptodate /\ buf'[c].data = buf[c].data
      BY <2>1, <3>1
    <3> QED
      BY <1>1, <3>1, <3>2, ContentsIs DEF ContentsLaw
  <2>3. CASE ~\E c \in Buf \ {b} : buf[c].block = k /\ buf[c].uptodate
    <3>1. \A c \in Buf : buf'[c].block = k => ~buf'[c].uptodate
      BY <2>1, <2>3
    <3>2. Contents(k)' = disk[k]
      BY <2>1, <3>1, ContentsIs DEF ContentsLaw
    <3>3. CASE buf[b].block = k /\ buf[b].uptodate
      <4>1. buf[b].data = disk[k]
        BY <2>1, <3>3, BlocksAreReal DEF Clean
      <4> QED
        BY <1>1, <3>2, <3>3, <4>1, ContentsIs DEF ContentsLaw
    <3>4. CASE ~(buf[b].block = k /\ buf[b].uptodate)
      <4>1. \A c \in Buf : buf[c].block = k => ~buf[c].uptodate
        BY <2>3, <3>4
      <4> QED
        BY <1>1, <3>2, <4>1, ContentsIs DEF ContentsLaw
    <3> QED
      BY <3>3, <3>4
  <2> QED
    BY <2>2, <2>3
<1>6. ASSUME Reads \/ Writes
      PROVE  SameContents
  <2> DEFINE b == Head(queue).buf
             k == buf[b].block
  <2>1. /\ queue # <<>> /\ b \in Buf /\ k \in Block /\ disk \in [Block -> Value]
        /\ 1 \in DOMAIN queue /\ Head(queue) = queue[1]
    BY <1>1, <1>6, HeadIsLocked, HeadOfQueue DEF Reads, Writes, Ends, Types, KernelTypes
  <2>2. Head(queue).cmd = "READ" <=> ~buf[b].uptodate
    BY <1>1, <2>1 DEF PlainBuffers
  <2>3. CASE Reads
    <3>1. Change(b, k, TRUE, buf[b].dirt, FALSE, disk[k]) /\ disk' = disk
      BY <2>3 DEF Reads, Ends
    <3>2. \A c \in Buf : buf[c].block = k => ~buf[c].uptodate
      BY <1>1, <2>1, <2>2, <2>3, BlocksAreReal DEF Reads, Unique
    <3>3. Contents(k) = disk[k]
      BY <1>1, <2>1, <3>2, ContentsIs DEF ContentsLaw
    <3>4. OnlyChanges(b, disk[k])
      BY <2>1, <3>1 DEF Change, OnlyChanges
    <3> HIDE DEF b
    <3> QED
      BY <1>1, <2>1, <3>3, <3>4, OneBuffer DEF SameContents
  <2>4. CASE Writes
    <3>1. /\ Change(b, k, TRUE, buf[b].dirt, FALSE, buf[b].data)
          /\ disk' = [disk EXCEPT ![k] = sent]
      BY <2>4 DEF Writes, Ends
    <3>2. buf[b].uptodate
      BY <1>1, <2>1, <2>2, <2>4 DEF Writes, Types, KernelTypes, Head_
    <3>3. Contents(k) = buf[b].data
      BY <1>1, <2>1, <3>2, ContentsIs DEF ContentsLaw
    <3>4. OnlyChanges(b, buf[b].data)
      BY <2>1, <3>1 DEF Change, OnlyChanges
    <3> HIDE DEF b
    <3> QED
      BY <1>1, <2>1, <3>3, <3>4, OneBuffer DEF SameContents
  <2> QED
    BY <1>6, <2>3, <2>4
<1>7. ASSUME NEW t \in Task, NEW v \in Value, Update(t, v) \/ Copy(t, v),
             Fills(t, buf[bh[t]].uptodate, v)
      PROVE  Update(t, v)
             /\ \A k \in Block : Contents(k)' = IF k = blk[t] THEN v ELSE Contents(k)
  <2>1. Update(t, v) /\ pc[t] = "held"
    BY <1>1, <1>7 DEF Update, Copy, Runs, PlainTasks
  <2>2. PICK b \in Buf : b = bh[t]
    BY <1>1, <2>1, HolderHas
  <2>3. t \in Holders(b)
    BY <2>1, <2>2 DEF Holders
  <2>4. buf[b].block = blk[t] /\ blk[t] \in Block
    BY <1>1, <2>1, <2>3 DEF HolderKeepsBlock, Placed, PlacedAt, Requesting
  <2>5. buf[b].uptodate = TRUE
    BY <1>1, <2>1, <2>2 DEF PlainBuffers, Types, KernelTypes, Head_
  <2>6. Change(b, blk[t], TRUE, TRUE, buf[b].lock, v) /\ disk' = disk
    BY <1>7, <2>2, <2>4, <2>5 DEF Fills
  <2>7. OnlyChanges(b, v)
    BY <2>4, <2>6 DEF Change, OnlyChanges
  <2> QED
    BY <1>1, <2>1, <2>4, <2>7, OneBuffer
<1>8. \A t \in Task : ~new_block(t)
  BY <1>1 DEF new_block, PlainTasks
<1>9. ~Fails
  BY <1>1 DEF Fails
<1> QED
  BY <1>3, <1>4, <1>5, <1>6, <1>7, <1>8, <1>9 DEF Effect

-----------------------------------------------------------------------------
(* The calls as programs see them.                                         *)

Others(t) == \A u \in Task \ {t} : Phase(u)' = Phase(u)

Quiet == \A u \in Task : Phase(u)' = Phase(u)

Begins(t) ==
    /\ Others(t) /\ Phase(t) = Store!None
    /\ \E o \in Op, k \in Block : Phase(t)' = Store!Begun(o, k)

TakesEffect(t) ==
    /\ Others(t) /\ Phase(t) = Store!Begun("bread", blk[t]) /\ blk[t] \in Block
    /\ Phase(t)' = Store!Done

Returns(t) == Others(t) /\ Phase(t) = Store!Done /\ Phase(t)' = Store!None

LEMMA CalmPhase ==
  ASSUME NEW t \in Task, Calm(t)
  PROVE  Phase(t)' = Phase(t)
BY DEF Calm, Phase

LEMMA AlonePhase ==
  ASSUME NEW t \in Task, Alone(t)
  PROVE  Others(t)
BY CalmPhase DEF Alone, Others

LEMMA GoesOnPhase ==
  ASSUME Types, NEW t \in Task, NEW p \in Places \ {"user", "release"},
         pc[t] \notin {"user", "release"},
         pc' = [pc EXCEPT ![t] = p], op' = op, blk' = blk
  PROVE  Quiet
<1>1. \A u \in Task \ {t} : pc'[u] = pc[u]
  BY DEF Types, TaskTypes
<1>2. pc'[t] = p
  BY DEF Types, TaskTypes
<1> QED
  BY <1>1, <1>2 DEF Quiet, Phase

LEMMA WaitPhase ==
  ASSUME Types, NEW t \in Task, NEW b, WaitLock(t, b)
  PROVE  Quiet
BY DEF Types, TaskTypes, WaitLock, SleepAt, Quiet, Phase

(* A program is done with its block.                                       *)
LEMMA ReleasePhase ==
  ASSUME Types, Placed, PlainTasks, NEW t \in Task, pc[t] \in {"held", "wait_read"},
         pc' = [pc EXCEPT ![t] = "release"], op' = op, blk' = blk
  PROVE  TakesEffect(t)
<1>1. \A u \in Task \ {t} : pc'[u] = pc[u]
  BY DEF Types, TaskTypes
<1>2. pc'[t] = "release" /\ op[t] = "bread" /\ blk[t] \in Block
  BY DEF PlainTasks, Placed, PlacedAt, Requesting, Types, TaskTypes
<1> QED
  BY <1>1, <1>2 DEF TakesEffect, Others, Phase, Store!Begun, Store!Done

LEMMA UpdatePhase ==
  ASSUME Types, Placed, PlainTasks, NEW t \in Task, NEW v \in Value, Update(t, v)
  PROVE  TakesEffect(t)
BY ReleasePhase DEF Update, Runs, Goto, Keep

LEMMA PhaseStep ==
  ASSUME Types, Placed, PlainTasks, Plain, [Next]_vars
  PROVE  Quiet \/ \E t \in Task : Begins(t) \/ TakesEffect(t) \/ Returns(t)
<1>1. ASSUME \A u \in Task : Calm(u)
      PROVE  Quiet
  BY <1>1, CalmPhase DEF Quiet
<1>2. CASE UNCHANGED vars
  BY <1>1, <1>2 DEF vars, taskVars, Calm
<1>3. ASSUME NEW t \in Task, HolderSleeps(t) \/ StrayWakeup(t)
      PROVE  Quiet
  <2>1. \A u \in Task : Calm(u)
    BY <1>3 DEF HolderSleeps, StrayWakeup, taskVars, Calm, Types, TaskTypes
  <2> QED
    BY <1>1, <2>1
<1>4. CASE Transfer \/ read_intr \/ write_intr \/ bad_rw_intr
  BY <1>1, <1>4 DEF Transfer, read_intr, write_intr, bad_rw_intr, end_request, Woken, taskVars, Calm,
                    Types, TaskTypes
<1>5. ASSUME NEW t \in Task, NEW o \in Op, NEW k \in Block, Call(t, o, k)
      PROVE  Begins(t)
  <2>1. /\ \A u \in Task \ {t} : pc'[u] = pc[u] /\ op'[u] = op[u] /\ blk'[u] = blk[u]
        /\ pc[t] = "user" /\ pc'[t] = "find" /\ op'[t] = o /\ blk'[t] = k /\ o # "sync"
    BY <1>5 DEF Call, Runs, Goto, Types, TaskTypes
  <2> QED
    BY <2>1 DEF Begins, Others, Phase, Store!None, Store!Begun
<1>6. ASSUME NEW t \in Task, sys_sync(t) \/ Find(t) \/ Search(t)
      PROVE  Quiet
  <2>1. CASE sys_sync(t)
    BY <2>1 DEF sys_sync, Runs, Goto, Quiet, Phase, Types, TaskTypes
  <2>2. ASSUME Find(t) \/ Search(t)
        PROVE  Quiet
    <3>1. /\ pc[t] \notin {"user", "release"} /\ op' = op /\ blk' = blk
          /\ \E p \in {"found", "search", "victim", "buffer_wait"} : pc' = [pc EXCEPT ![t] = p]
      BY <2>2 DEF Find, Search, Runs, Goto, SleepAt
    <3> QED
      BY <3>1, GoesOnPhase DEF Places
  <2> QED
    BY <1>6, <2>1, <2>2
<1>7. ASSUME NEW t \in Task, Found(t) \/ TakeVictim(t)
      PROVE  Quiet
  <2>1. CASE WaitLock(t, bh[t])
    BY <2>1, WaitPhase
  <2>2. CASE ~WaitLock(t, bh[t])
    <3>1. /\ pc[t] \notin {"user", "release"} /\ op' = op /\ blk' = blk
          /\ \E p \in {"find", "sync", "lock_buffer", "copy", "held"} : pc' = [pc EXCEPT ![t] = p]
      BY <1>7, <2>2 DEF Found, TakeVictim, Runs, Got, Goto
    <3> QED
      BY <3>1, GoesOnPhase DEF Places
  <2> QED
    BY <2>1, <2>2
<1>8. ASSUME NEW t \in Task, SyncStep(t)
      PROVE  Quiet
  <2>1. CASE \E b : WaitLock(t, b)
    BY <2>1, WaitPhase
  <2>2. CASE op[t] = "sync" /\ Return(t, pc)
    BY <2>2 DEF Return, Quiet, Phase, Types, TaskTypes
  <2>3. CASE (~\E b : WaitLock(t, b)) /\ ~(op[t] = "sync" /\ Return(t, pc))
    <3>1. /\ pc[t] = "sync" /\ op' = op /\ blk' = blk
          /\ \E p \in {"victim", "lock_buffer", "sync"} : pc' = [pc EXCEPT ![t] = p]
      BY <1>8, <2>3 DEF SyncStep, Runs, Goto
    <3> QED
      BY <3>1, GoesOnPhase DEF Places
  <2> QED
    BY <2>1, <2>2, <2>3
<1>9. ASSUME NEW t \in Task, WaitRead(t)
      PROVE  Quiet \/ TakesEffect(t)
  <2>1. CASE WaitLock(t, bh[t])
    BY <2>1, WaitPhase
  <2>2. CASE ~WaitLock(t, bh[t])
    <3>1. /\ pc[t] = "wait_read" /\ op' = op /\ blk' = blk
          /\ \/ pc' = [pc EXCEPT ![t] = "held"]
             \/ pc' = [pc EXCEPT ![t] = "release"]
      BY <1>9, <2>2 DEF WaitRead, Runs, Goto, Keep
    <3> QED
      BY <3>1, GoesOnPhase, ReleasePhase DEF Places
  <2> QED
    BY <2>1, <2>2
<1>10. ASSUME NEW t \in Task, LockBuffer(t)
       PROVE  Quiet
  <2>1. CASE WaitLock(t, req[t].bh)
    BY <2>1, WaitPhase
  <2>2. CASE ~WaitLock(t, req[t].bh)
    <3>1. req[t].ret \in {"wait_read", "sync"}
      BY <1>10 DEF LockBuffer, Runs, Placed, PlacedAt, Requesting
    <3>2. /\ pc[t] = "lock_buffer" /\ op' = op /\ blk' = blk
          /\ \E p \in {"slot", "wait_read", "sync"} : pc' = [pc EXCEPT ![t] = p]
      BY <1>10, <2>2, <3>1 DEF LockBuffer, Runs, Goto
    <3> QED
      BY <3>2, GoesOnPhase DEF Places
  <2> QED
    BY <2>1, <2>2
<1>11. ASSUME NEW t \in Task, Slot(t)
       PROVE  Quiet
  <2>1. req[t].ret \in {"wait_read", "sync"}
    BY <1>11 DEF Slot, Runs, Placed, PlacedAt, Requesting
  <2>2. /\ pc[t] = "slot" /\ op' = op /\ blk' = blk
        /\ \E p \in {"wait_for_request", "wait_read", "sync"} : pc' = [pc EXCEPT ![t] = p]
    BY <1>11, <2>1 DEF Slot, SleepAt, Goto, Runs
  <2> QED
    BY <2>2, GoesOnPhase DEF Places
<1>12. ASSUME NEW t \in Task, file_read(t) \/ \E v \in Value : Update(t, v)
       PROVE  TakesEffect(t)
  BY <1>12, ReleasePhase, UpdatePhase DEF file_read, Runs, Goto, Keep
<1>13. ASSUME NEW t \in Task, brelse(t)
       PROVE  Quiet \/ Returns(t)
  <2>1. CASE WaitLock(t, bh[t])
    BY <2>1, WaitPhase
  <2>2. CASE ~WaitLock(t, bh[t])
    <3>1. Alone(t)
      BY <1>13, <2>2 DEF brelse, Return, Woken, Alone, Calm, Types, TaskTypes
    <3>2. pc[t] = "release" /\ pc'[t] = "user" /\ op[t] # "sync"
      BY <1>13, <2>2 DEF brelse, Return, Woken, Runs, Placed, PlacedAt, Requesting, Types, TaskTypes
    <3> QED
      BY <3>1, <3>2, AlonePhase DEF Returns, Phase, Store!Done, Store!None
  <2> QED
    BY <2>1, <2>2
<1>14. ASSUME NEW t \in Task
       PROVE  ~file_write(t) /\ ~new_block(t) /\ \A v \in Value : ~Copy(t, v)
  BY PlainUse DEF PlainTasks, new_block, Copy, Runs
<1> QED
  BY <1>2, <1>3, <1>4, <1>5, <1>6, <1>7, <1>8, <1>9, <1>10, <1>11, <1>12, <1>13, <1>14
     DEF Next, Step

-----------------------------------------------------------------------------

LEMMA StoreInit == Init => Store!Init
<1> SUFFICES ASSUME Init PROVE Store!Init
  OBVIOUS
<1>1. \A t \in Task : Phase(t) = Store!None
  BY DEF Init, Phase, Store!None
<1>2. \A b \in Buf : ~buf[b].uptodate
  BY DEF Init
<1>3. \A k \in Block : Contents(k) = Zero
  <2> TAKE k \in Block
  <2>1. {b \in find_buffer(k) : buf[b].uptodate} = {}
    BY <1>2 DEF find_buffer
  <2> QED
    BY <2>1 DEF Contents, Init
<1> QED
  BY <1>1, <1>3 DEF Store!Init

LEMMA StoreStep ==
  ASSUME IInv, IInv', Fresh, Marked, Plain, [Next]_vars
  PROVE  [Store!Next]_(Store!vars)
<1>1. /\ Types /\ Placed /\ Clean /\ Unique' /\ PlainTasks
      /\ "file_write" \notin Use
  BY PlainUse DEF IInv, Marked, Fresh
<1>2. Effect
  BY <1>1, MarkedStep
<1> DEFINE S == [k \in Block |-> Contents(k)]
           C == [t \in Task |-> Phase(t)]
<1>3. ASSUME NEW t \in Task, Others(t), NEW x, Phase(t)' = x
      PROVE  C' = [C EXCEPT ![t] = x]
  BY <1>3 DEF Others
<1>4. ASSUME NEW t \in Task, NEW v \in Value, Update(t, v),
             \A k \in Block : Contents(k)' = IF k = blk[t] THEN v ELSE Contents(k)
      PROVE  Store!Next
  <2>1. TakesEffect(t)
    BY <1>1, <1>4, UpdatePhase
  <2>2. C' = [C EXCEPT ![t] = Store!Done] /\ C[t] = Store!Begun("bread", blk[t])
    BY <1>3, <2>1 DEF TakesEffect
  <2>3. S' = [S EXCEPT ![blk[t]] = v]
    BY <1>4
  <2>4. /\ C[t].phase = "begun" /\ C[t].op # "new_block" /\ C[t].block = blk[t]
    BY <2>2 DEF Store!Begun
  <2>5. Store!Effect(t)
    BY <2>2, <2>3, <2>4 DEF Store!Effect
  <2> QED
    BY <2>5 DEF Store!Next
<1>5. ASSUME SameContents
      PROVE  [Store!Next]_(Store!vars)
  <2>1. S' = S
    BY <1>5 DEF SameContents
  <2>2. CASE Quiet
    <3>1. C' = C
      BY <2>2 DEF Quiet
    <3> QED
      BY <2>1, <3>1 DEF Store!vars
  <2>3. ASSUME NEW t \in Task, Begins(t)
        PROVE  Store!Next
    <3>1. PICK o \in Op, k \in Block : Phase(t)' = Store!Begun(o, k)
      BY <2>3 DEF Begins
    <3>2. C' = [C EXCEPT ![t] = Store!Begun(o, k)] /\ C[t] = Store!None
      BY <1>3, <2>3, <3>1 DEF Begins
    <3>3. Store!Begin(t)
      BY <2>1, <3>2 DEF Store!Begin
    <3> QED
      BY <3>3 DEF Store!Next
  <2>4. ASSUME NEW t \in Task, TakesEffect(t)
        PROVE  Store!Next
    <3>1. C' = [C EXCEPT ![t] = Store!Done] /\ C[t] = Store!Begun("bread", blk[t])
      BY <1>3, <2>4 DEF TakesEffect
    <3>2. C[t].phase = "begun" /\ C[t].op # "new_block"
      BY <3>1 DEF Store!Begun
    <3>3. Store!Effect(t)
      BY <2>1, <3>1, <3>2 DEF Store!Effect
    <3> QED
      BY <3>3 DEF Store!Next
  <2>5. ASSUME NEW t \in Task, Returns(t)
        PROVE  Store!Next
    <3>1. C' = [C EXCEPT ![t] = Store!None] /\ C[t] = Store!Done
      BY <1>3, <2>5 DEF Returns
    <3>2. Store!Return(t)
      BY <2>1, <3>1 DEF Store!Return
    <3> QED
      BY <3>2 DEF Store!Next
  <2> QED
    BY <1>1, <2>2, <2>3, <2>4, <2>5, PhaseStep
<1> QED
  BY <1>1, <1>2, <1>4, <1>5, ContentsStep

(* The cache implements the device of module BlockStore, for programs that *)
(* read and update blocks (bread() ... brelse()) and for sync, as long as  *)
(* no read or write fails: what a program reads is what was last written   *)
(* to the block, whatever is in memory, in the request queue or on the     *)
(* disk.                                                                   *)
THEOREM ImplementsTheStore == Plain => (Spec => ImplementsStore)
<1> SUFFICES ASSUME Plain PROVE Spec => ImplementsStore
  OBVIOUS
<1>1. "file_write" \notin Use
  BY PlainUse
<1>2. ASSUME IInv, IInv', Fresh, Marked, [Next]_vars
      PROVE  Fresh' /\ Marked'
  <2>1. Types /\ Placed /\ PlainTasks /\ Placed'
    BY <1>2 DEF IInv, Fresh
  <2>2. Marked' /\ Effect
    BY <1>1, <1>2, MarkedStep
  <2>3. \A u \in Task : Comes(u)
    BY <1>2, <2>1, TaskComes
  <2> QED
    BY <1>2, <2>1, <2>2, <2>3, FreshStep
<1>3. ASSUME IInv, IInv', Fresh, Marked, [Next]_vars
      PROVE  [Store!Next]_(Store!vars)
  BY <1>3, StoreStep
<1>4. Init => Fresh /\ Marked /\ Store!Init
  BY InitiallyFresh, InitiallyMarked, StoreInit
<1> QED
  BY <1>2, <1>3, <1>4, Invariant, PTL DEF Spec, ImplementsStore, Store!Spec
=============================================================================
