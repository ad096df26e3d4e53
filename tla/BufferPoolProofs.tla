-------------------------- MODULE BufferPoolProofs --------------------------
(***************************************************************************)
(* Proofs about reference-counted buffers and their pool, for any number   *)
(* of threads and buffers: nothing is used after it was freed, nothing is  *)
(* leaked, and a block is written only through its one reference.          *)
(***************************************************************************)
EXTENDS BufferPool, FiniteSetTheorems, TLAPS

----------------------------------------------------------------------------
(* The inductive invariant.                                                *)

Live(b) == buf[b].st = "live"

\* The buffers a call works on.
PcInv == \A t \in Threads :
    /\ pc[t].op \in {"count", "drop", "write", "copy", "swap", "free", "push"} =>
          pc[t].b \in Buffers
    /\ pc[t].op \in {"copy", "swap"} => pc[t].new \in Buffers

\* Every reference is to a live buffer, which counts it.
CountInv ==
    /\ \A b \in Buffers : Live(b) => buf[b].ref = Existing(b)
    /\ \A t \in Threads, b \in Buffers : refs[t][b] > 0 \/ Local(t, b) => Live(b)

\* A call holds a reference to the buffer it works on, and the only one when
\* it is going to write.
HoldInv == \A t \in Threads :
    /\ pc[t].op \in {"write", "drop", "copy", "swap"} => refs[t][pc[t].b] > 0
    /\ pc[t].op = "write" => buf[pc[t].b].ref = 1
    /\ pc[t].op = "count" => buf[pc[t].b].kind = "pool"

\* A local reference is the only one to its buffer.
LocalInv == \A t, u \in Threads, b \in Buffers :
    Local(t, b) => refs[u][b] = 0 /\ (u # t => ~Local(u, b))

Freeing(t) == pc[t].op \in {"free", "push"}

\* A live buffer without references is with the one thread that frees it.
FreeInv ==
    /\ \A t \in Threads : Freeing(t) => Live(pc[t].b) /\ buf[pc[t].b].ref = 0
    /\ \A t, u \in Threads : Freeing(t) /\ Freeing(u) /\ t # u => pc[t].b # pc[u].b
    /\ \A t \in Threads : pc[t].op = "push" =>
          /\ buf[pc[t].b].kind = "pool"
          /\ pc[t].free = "nothing" <=> buf[pc[t].b].struct = "entry"
    /\ \A b \in Buffers : Live(b) /\ buf[b].ref = 0 =>
          \E t \in Threads : Freeing(t) /\ pc[t].b = b

\* A thread that is going to free the heap structure of its buffer.
Freer(t) == pc[t].op \in {"push", "count_down", "pool_free", "struct"} /\ pc[t].free = "struct"

\* A heap structure belongs to a live buffer in its first use, or to the one
\* thread that is going to free it.
HeapInv ==
    /\ \A b \in Buffers : Live(b) /\ buf[b].struct = "heap" => b \in heap
    /\ \A t \in Threads : Freer(t) => pc[t].b \in heap
    /\ \A t \in Threads : Freer(t) /\ pc[t].op # "push" =>
          ~(Live(pc[t].b) /\ buf[pc[t].b].struct = "heap")
    /\ \A t, u \in Threads : Freer(t) /\ Freer(u) /\ t # u => pc[t].b # pc[u].b
    /\ \A b \in heap : buf[b].st # "unused"
    /\ \A b \in heap : (Live(b) /\ buf[b].struct = "heap") \/ \E t \in Threads : Freer(t) /\ pc[t].b = b

\* The list holds the free buffers of the pool, each once.
ListInv ==
    /\ \A b \in Buffers : buf[b].st = "free" <=> b \in Listed
    /\ \A i, j \in DOMAIN list : list[i] = list[j] => i = j
    /\ \A b \in Buffers : buf[b].st = "free" => buf[b].kind = "pool"
    /\ \A b \in Buffers : buf[b].st = "unused" => buf[b].kind # "pool"

PoolRef == (IF pool.life = "owned" THEN 1 ELSE 0) + Cardinality(Out) + Cardinality(Doing("count_down"))

\* The pool lives while it is owned or a buffer is out or on its way back;
\* one thread finds that nothing is left.
PoolInv ==
    /\ pool.life # "freed" => pool.ref = PoolRef
    /\ pool.life = "freed" =>
                      /\ pool.ref = 0
                      /\ \A t \in Threads : pc[t].op \notin {"count_down", "pool_free"}
                      /\ \A b \in Buffers : buf[b].kind = "pool" => buf[b].st = "gone"
    /\ pool.life # "owned" => \A t \in Threads : pc[t].op # "count"
    /\ \A t \in Threads : pc[t].op = "pool_free" => pool.life = "given_up" /\ pool.ref = 0
    /\ \A t, u \in Threads : pc[t].op = "pool_free" /\ pc[u].op = "pool_free" => t = u
    /\ pool.life # "freed" /\ pool.ref = 0 => \E t \in Threads : pc[t].op = "pool_free"

IInv ==
    /\ TypeOK /\ PcInv /\ CountInv /\ HoldInv /\ LocalInv /\ FreeInv /\ HeapInv
    /\ ListInv /\ PoolInv

----------------------------------------------------------------------------
(* Counting references.                                                    *)

\* The references of threads of which t holds f[t] and, in L, a local one.
Pairs(f, L) == {r \in Threads \X (0..MaxRefs) :
                    IF r[2] = 0 THEN r[1] \in L ELSE r[2] <= f[r[1]]}

Counts == [Threads -> 0..MaxRefs]

Column(b) == [t \in Threads |-> refs[t][b]]

Locals(b) == {t \in Threads : Local(t, b)}

\* What References counts.
LEMMA ReferencesAre ==
    ASSUME NEW b
    PROVE  References(b) = Pairs(Column(b), Locals(b))
BY DEF References, Pairs, Column, Locals

\* There are finitely many references.
LEMMA PairsFinite ==
    ASSUME NEW f, NEW L
    PROVE  IsFiniteSet(Pairs(f, L)) /\ Cardinality(Pairs(f, L)) \in Nat
<1>1. IsFiniteSet(0..MaxRefs)
  BY FS_Interval, ConstantsAssumption
<1>2. IsFiniteSet(Threads \X (0..MaxRefs))
  BY <1>1, FS_Product, ConstantsAssumption
<1>3. Pairs(f, L) \in SUBSET (Threads \X (0..MaxRefs))
  BY DEF Pairs
<1> QED
  BY <1>2, <1>3, FS_Subset, FS_CardinalityType

\* One more reference.
LEMMA PairsAdd ==
    ASSUME NEW f \in Counts, NEW L, NEW t \in Threads, f[t] < MaxRefs,
           NEW g, g = [f EXCEPT ![t] = @ + 1]
    PROVE  Cardinality(Pairs(g, L)) = Cardinality(Pairs(f, L)) + 1
<1> DEFINE r == <<t, f[t] + 1>>
<1>1. f[t] \in 0..MaxRefs /\ f[t] + 1 \in 0..MaxRefs /\ f[t] + 1 # 0
  BY ConstantsAssumption DEF Counts
<1>2. r \notin Pairs(f, L)
  BY <1>1 DEF Pairs
<1>3. \A x \in Threads \X (0..MaxRefs) :
        x \in Pairs(g, L) <=> x \in Pairs(f, L) \/ x = r
  <2> TAKE x \in Threads \X (0..MaxRefs)
  <2>1. PICK u \in Threads, i \in 0..MaxRefs : x = <<u, i>>
    OBVIOUS
  <2>2. x \in Pairs(g, L) <=> IF i = 0 THEN u \in L ELSE i <= g[u]
    BY <2>1 DEF Pairs
  <2>3. x \in Pairs(f, L) <=> IF i = 0 THEN u \in L ELSE i <= f[u]
    BY <2>1 DEF Pairs
  <2>4. x = r <=> u = t /\ i = f[t] + 1
    BY <2>1
  <2>5. g[u] = IF u = t THEN f[t] + 1 ELSE f[u]
    BY DEF Counts
  <2>6. f[u] \in 0..MaxRefs
    BY DEF Counts
  <2> QED
    BY <2>2, <2>3, <2>4, <2>5, <2>6, <1>1, ConstantsAssumption
<1>4. r \in Threads \X (0..MaxRefs)
  BY <1>1
<1>5. Pairs(g, L) = Pairs(f, L) \cup {r}
  <2>1. Pairs(g, L) \subseteq Threads \X (0..MaxRefs) /\ Pairs(f, L) \subseteq Threads \X (0..MaxRefs)
    BY DEF Pairs
  <2> HIDE DEF r
  <2> QED
    BY <1>3, <1>4, <2>1
<1> HIDE DEF r
<1> QED
  BY <1>2, <1>5, PairsFinite, FS_AddElement

\* At least as many as one thread holds, and one more if another holds any.
LEMMA PairsAtLeast ==
    ASSUME NEW f \in Counts, NEW L, NEW t \in Threads
    PROVE  /\ f[t] <= Cardinality(Pairs(f, L))
           /\ \A u \in Threads \ {t} : f[u] > 0 => f[t] + 1 <= Cardinality(Pairs(f, L))
<1> DEFINE n == f[t]
           S == {t} \X (1..n)
           h == [i \in 1..n |-> <<t, i>>]
<1>1. n \in 0..MaxRefs /\ n \in Nat
  BY ConstantsAssumption DEF Counts
<1>2. \A i \in 1..n : i \in 0..MaxRefs /\ i # 0
  BY <1>1, ConstantsAssumption
<1>3. S \subseteq Pairs(f, L)
  <2> SUFFICES ASSUME NEW i \in 1..n PROVE <<t, i>> \in Pairs(f, L)
    OBVIOUS
  <2> QED
    BY <1>1, <1>2 DEF Pairs
<1>4. IsFiniteSet(S) /\ Cardinality(S) = n
  <2>1. IsFiniteSet({t}) /\ Cardinality({t}) = 1
    BY FS_Singleton
  <2>2. IsFiniteSet(1..n) /\ Cardinality(1..n) = n
    BY <1>1, FS_Interval, SMTT(40)
  <2>3. IsFiniteSet({t} \X (1..n)) /\ Cardinality({t} \X (1..n)) = Cardinality({t}) * Cardinality(1..n)
    BY <2>1, <2>2, FS_Product
  <2> HIDE DEF n
  <2> QED
    BY <2>1, <2>2, <2>3, <1>1
<1>5. f[t] <= Cardinality(Pairs(f, L))
  BY <1>3, <1>4, PairsFinite, FS_Subset
<1>6. ASSUME NEW u \in Threads \ {t}, f[u] > 0
      PROVE  f[t] + 1 <= Cardinality(Pairs(f, L))
  <2> DEFINE r == <<u, 1>>
  <2>1. r \in Pairs(f, L)
    <3>1. f[u] \in 0..MaxRefs /\ 1 \in 0..MaxRefs
      BY ConstantsAssumption DEF Counts
    <3>2. 1 <= f[u]
      BY <3>1, <1>6, ConstantsAssumption
    <3> QED
      BY <3>1, <3>2 DEF Pairs
  <2>2. r \notin S
    OBVIOUS
  <2>3. S \cup {r} \in SUBSET Pairs(f, L)
    BY <1>3, <2>1
  <2> HIDE DEF r, S, n
  <2>4. Cardinality(S \cup {r}) = n + 1
    BY <1>4, <2>2, FS_AddElement
  <2>5. n + 1 <= Cardinality(Pairs(f, L))
    BY <2>3, <2>4, PairsFinite, FS_Subset
  <2> QED
    BY <2>5 DEF n
<1> QED
  BY <1>5, <1>6

\* No reference, one local reference, one other.
LEMMA PairsFew ==
    ASSUME NEW f, \A u \in Threads : f[u] = 0, NEW t \in Threads
    PROVE  /\ Pairs(f, {}) = {}
           /\ Cardinality(Pairs(f, {})) = 0
           /\ Cardinality(Pairs(f, {t})) = 1
<1>1. Pairs(f, {}) = {}
  BY ConstantsAssumption DEF Pairs
<1>2. Pairs(f, {t}) = {<<t, 0>>}
  <2>1. 0 \in 0..MaxRefs
    BY ConstantsAssumption
  <2>2. <<t, 0>> \in Pairs(f, {t})
    BY <2>1 DEF Pairs
  <2>3. ASSUME NEW x \in Pairs(f, {t}) PROVE x = <<t, 0>>
    BY ConstantsAssumption DEF Pairs
  <2> QED
    BY <2>2, <2>3
<1> QED
  BY <1>1, <1>2, FS_EmptySet, FS_Singleton

\* The same for a state and for the state after a step.
LEMMA ExistingIs ==
    ASSUME NEW b
    PROVE  /\ Existing(b) = Cardinality(Pairs(Column(b), Locals(b)))
           /\ Existing(b)' = Cardinality(Pairs(Column(b)', Locals(b)'))
           /\ Existing(b) \in Nat /\ Existing(b)' \in Nat
<1>1. References(b) = Pairs(Column(b), Locals(b))
  BY DEF References, Pairs, Column, Locals
<1>2. References(b)' = Pairs(Column(b)', Locals(b)')
  BY DEF References, Pairs, Column, Locals
<1> QED
  BY <1>1, <1>2, PairsFinite DEF Existing

RefsType == refs \in [Threads -> [Buffers -> 0..MaxRefs]]

\* The references that one thread has are among those that exist.
LEMMA AtLeast ==
    ASSUME RefsType, NEW t \in Threads, NEW b \in Buffers
    PROVE  /\ Existing(b) \in Nat /\ refs[t][b] \in Nat
           /\ refs[t][b] <= Existing(b)
           /\ \A u \in Threads \ {t} : refs[u][b] > 0 => refs[t][b] + 1 <= Existing(b)
<1>1. Column(b) \in Counts /\ \A u \in Threads : Column(b)[u] = refs[u][b]
  BY DEF Column, Counts, RefsType
<1>2. refs[t][b] \in Nat
  BY ConstantsAssumption DEF RefsType
<1> QED
  BY <1>1, <1>2, PairsAtLeast, ExistingIs

\* A step that leaves a buffer's references alone.
LEMMA Same ==
    ASSUME NEW b \in Buffers,
           \A u \in Threads : refs'[u][b] = refs[u][b] /\ (Local(u, b)' <=> Local(u, b))
    PROVE  Existing(b)' = Existing(b)
<1>1. Column(b)' = Column(b) /\ Locals(b)' = Locals(b)
  BY DEF Column, Locals
<1> QED
  BY <1>1, ExistingIs

\* A step that adds a reference.
LEMMA Gained ==
    ASSUME RefsType, NEW b \in Buffers, NEW t \in Threads, refs[t][b] < MaxRefs,
           \A u \in Threads :
              /\ refs'[u][b] = IF u = t THEN refs[u][b] + 1 ELSE refs[u][b]
              /\ Local(u, b)' <=> Local(u, b)
    PROVE  Existing(b)' = Existing(b) + 1
<1>1. Locals(b)' = Locals(b)
  BY DEF Locals
<1>2. Column(b) \in Counts /\ Column(b)[t] = refs[t][b]
  BY DEF Column, Counts, RefsType
<1>3. Column(b)' = [Column(b) EXCEPT ![t] = @ + 1]
  BY DEF Column
<1> QED
  BY <1>1, <1>2, <1>3, PairsAdd, ExistingIs

\* A step that drops a reference.
LEMMA Lost ==
    ASSUME RefsType, NEW b \in Buffers, NEW t \in Threads, refs[t][b] > 0,
           \A u \in Threads :
              /\ refs'[u][b] = IF u = t THEN refs[u][b] - 1 ELSE refs[u][b]
              /\ Local(u, b)' <=> Local(u, b)
    PROVE  Existing(b)' = Existing(b) - 1
<1>1. Locals(b)' = Locals(b)
  BY DEF Locals
<1>2. \A u \in Threads : refs[u][b] \in 0..MaxRefs
  BY DEF RefsType
<1>3. \A u \in Threads : refs'[u][b] \in 0..MaxRefs
  BY <1>2, ConstantsAssumption
<1>4. Column(b)' \in Counts /\ Column(b)'[t] < MaxRefs
  BY <1>2, <1>3, ConstantsAssumption DEF Column, Counts
<1>5. Column(b) = [Column(b)' EXCEPT ![t] = @ + 1]
  <2>1. (refs[t][b] - 1) + 1 = refs[t][b]
    BY <1>2, ConstantsAssumption
  <2>2. \A u \in Threads : refs[u][b] = IF u = t THEN refs'[u][b] + 1 ELSE refs'[u][b]
    BY <2>1
  <2> QED
    BY <2>2 DEF Column
<1>6. Cardinality(Pairs(Column(b), Locals(b))) = Cardinality(Pairs(Column(b)', Locals(b))) + 1
  BY <1>4, <1>5, PairsAdd
<1> QED
  BY <1>1, <1>6, ExistingIs

\* A step that hands a reference on.
LEMMA Moved ==
    ASSUME RefsType, NEW b \in Buffers, NEW t \in Threads, NEW v \in Threads, t # v,
           refs[t][b] > 0, refs[v][b] < MaxRefs,
           \A u \in Threads :
              /\ refs'[u][b] = IF u = t THEN refs[u][b] - 1
                               ELSE IF u = v THEN refs[u][b] + 1 ELSE refs[u][b]
              /\ Local(u, b)' <=> Local(u, b)
    PROVE  Existing(b)' = Existing(b)
<1> DEFINE g == [u \in Threads |-> IF u = t THEN refs[u][b] - 1 ELSE refs[u][b]]
<1>1. Locals(b)' = Locals(b)
  BY DEF Locals
<1>2. \A u \in Threads : refs[u][b] \in 0..MaxRefs
  BY DEF RefsType
<1>3. g \in Counts /\ g[t] < MaxRefs /\ g[v] < MaxRefs
  BY <1>2, ConstantsAssumption DEF Counts
<1>4. Column(b) = [g EXCEPT ![t] = @ + 1]
  <2>1. (refs[t][b] - 1) + 1 = refs[t][b]
    BY <1>2, ConstantsAssumption
  <2>2. \A u \in Threads : refs[u][b] = IF u = t THEN g[u] + 1 ELSE g[u]
    BY <2>1
  <2> QED
    BY <2>2 DEF Column
<1>5. Column(b)' = [g EXCEPT ![v] = @ + 1]
  BY <1>2, ConstantsAssumption DEF Column
<1> HIDE DEF g
<1>6. Cardinality(Pairs(Column(b), Locals(b))) = Cardinality(Pairs(g, Locals(b))) + 1
  BY <1>3, <1>4, PairsAdd
<1>7. Cardinality(Pairs(Column(b)', Locals(b))) = Cardinality(Pairs(g, Locals(b))) + 1
  BY <1>3, <1>5, PairsAdd
<1> QED
  BY <1>1, <1>6, <1>7, ExistingIs

\* No reference.
LEMMA NoReference ==
    ASSUME NEW b \in Buffers, \A u \in Threads : refs[u][b] = 0 /\ ~Local(u, b)
    PROVE  Existing(b) = 0
<1>1. Locals(b) = {} /\ \A u \in Threads : Column(b)[u] = 0
  BY DEF Locals, Column
<1>2. CASE Threads = {}
  <2>1. Pairs(Column(b), Locals(b)) = {}
    BY <1>2 DEF Pairs
  <2> QED
    BY <2>1, ExistingIs, FS_EmptySet
<1>3. CASE Threads # {}
  BY <1>1, <1>3, PairsFew, ExistingIs
<1> QED
  BY <1>2, <1>3

\* A step to the first reference, which is local.
LEMMA FirstLocal ==
    ASSUME NEW b \in Buffers, NEW t \in Threads,
           \A u \in Threads : refs'[u][b] = 0 /\ (Local(u, b)' <=> u = t)
    PROVE  Existing(b)' = 1
<1>1. Locals(b)' = {t} /\ \A u \in Threads : Column(b)'[u] = 0
  BY DEF Locals, Column
<1> QED
  BY <1>1, PairsFew, ExistingIs

\* A step that gives the one, local, reference to its thread.
LEMMA Settled ==
    ASSUME NEW b \in Buffers, NEW t \in Threads,
           \A u \in Threads : refs'[u][b] = (IF u = t THEN 1 ELSE 0) /\ ~Local(u, b)'
    PROVE  Existing(b)' = 1
<1> DEFINE z == [u \in Threads |-> 0]
<1>1. Locals(b)' = {}
  BY DEF Locals
<1>2. z \in Counts /\ z[t] < MaxRefs /\ \A u \in Threads : z[u] = 0
  BY ConstantsAssumption DEF Counts
<1>3. Column(b)' = [z EXCEPT ![t] = @ + 1]
  BY DEF Column
<1> HIDE DEF z
<1>4. Cardinality(Pairs(z, {})) = 0
  BY <1>2, PairsFew
<1> QED
  BY <1>1, <1>2, <1>3, <1>4, PairsAdd, ExistingIs

----------------------------------------------------------------------------
(* The pool's count.                                                       *)

\* The sets that the pool counts are finite.
LEMMA PoolSets ==
    /\ IsFiniteSet(Out) /\ Cardinality(Out) \in 0..Cardinality(Buffers)
    /\ IsFiniteSet(Out') /\ Cardinality(Out') \in 0..Cardinality(Buffers)
    /\ \A op : /\ IsFiniteSet(Doing(op)) /\ Cardinality(Doing(op)) \in 0..Cardinality(Threads)
               /\ IsFiniteSet(Doing(op)') /\ Cardinality(Doing(op)') \in 0..Cardinality(Threads)
    /\ Cardinality(Buffers) \in Nat /\ Cardinality(Threads) \in Nat
<1>1. Out \in SUBSET Buffers /\ Out' \in SUBSET Buffers
  BY DEF Out
<1>2. \A op : Doing(op) \in SUBSET Threads /\ Doing(op)' \in SUBSET Threads
  BY DEF Doing
<1>3. \A S, T : IsFiniteSet(S) /\ T \in SUBSET S =>
        /\ IsFiniteSet(T) /\ Cardinality(T) \in 0..Cardinality(S)
        /\ Cardinality(S) \in Nat
  <2> SUFFICES ASSUME NEW S, NEW T \in SUBSET S, IsFiniteSet(S)
               PROVE  /\ IsFiniteSet(T) /\ Cardinality(T) \in 0..Cardinality(S)
                      /\ Cardinality(S) \in Nat
    OBVIOUS
  <2>1. IsFiniteSet(T) /\ Cardinality(T) <= Cardinality(S)
    BY FS_Subset
  <2>2. Cardinality(T) \in Nat /\ Cardinality(S) \in Nat
    BY <2>1, FS_CardinalityType
  <2> QED
    BY <2>1, <2>2
<1> QED
  BY <1>1, <1>2, <1>3, ConstantsAssumption

\* An exact count is within the bounds of its type.
LEMMA PoolRefType ==
    /\ PoolRef \in 0..(Cardinality(Buffers) + Cardinality(Threads) + 1)
    /\ PoolRef' \in 0..(Cardinality(Buffers) + Cardinality(Threads) + 1)
<1>1. \A i \in {0, 1}, n, m \in Nat : \A k \in 0..n, j \in 0..m : i + k + j \in 0..(n + m + 1)
  OBVIOUS
<1>2. /\ (IF pool.life = "owned" THEN 1 ELSE 0) \in {0, 1}
      /\ (IF pool'.life = "owned" THEN 1 ELSE 0) \in {0, 1}
  OBVIOUS
<1> QED
  BY <1>1, <1>2, PoolSets DEF PoolRef

----------------------------------------------------------------------------
(* Steps that leave parts of the invariant alone.                          *)

\* A thread's place in a call.
LEMMA AtType ==
    ASSUME NEW op \in Ops, NEW b \in Buffers \cup {None}
    PROVE  /\ At(op, b) \in Call
           /\ At(op, b).op = op /\ At(op, b).b = b /\ At(op, b).new = None
           /\ At(op, b).free = "nothing"
BY DEF At, Call

\* A thread between two calls.
LEMMA IdleType == /\ Idle \in Call /\ Idle.op = "idle" /\ Idle.b = None /\ Idle.new = None
                  /\ Idle.free = "nothing"
BY AtType DEF Idle, Ops

\* A buffer that is not live has no references.
LEMMA NotLive ==
    ASSUME IInv, NEW b \in Buffers, ~Live(b), NEW u \in Threads
    PROVE  refs[u][b] = 0 /\ ~Local(u, b)
<1>1. refs[u][b] \in 0..MaxRefs
  BY DEF IInv, TypeOK
<1> QED
  BY <1>1, ConstantsAssumption DEF IInv, CountInv

\* A buffer to which there is a reference is live and counts it.
LEMMA Referenced ==
    ASSUME IInv, NEW b \in Buffers, NEW t \in Threads, refs[t][b] > 0
    PROVE  /\ Live(b) /\ buf[b].ref = Existing(b) /\ buf[b].ref \in 1..MaxRefs
           /\ refs[t][b] \in 1..MaxRefs /\ refs[t][b] <= buf[b].ref
           /\ \A u \in Threads \ {t} : refs[u][b] + 1 <= buf[b].ref
           /\ \A u \in Threads : ~Local(u, b)
<1>1. Live(b) /\ buf[b].ref = Existing(b)
  BY DEF IInv, CountInv
<1>2. RefsType /\ buf[b].ref \in 0..MaxRefs /\ refs[t][b] \in 0..MaxRefs
  BY DEF IInv, TypeOK, RefsType, Buffer
<1>3. refs[t][b] <= Existing(b) /\ \A u \in Threads \ {t} : refs[u][b] + 1 <= Existing(b)
  BY <1>2, AtLeast
<1>4. \A u \in Threads : ~Local(u, b)
  <2> SUFFICES ASSUME NEW u \in Threads, Local(u, b) PROVE FALSE
    OBVIOUS
  <2>1. refs[t][b] = 0
    BY DEF IInv, LocalInv
  <2> QED
    BY <2>1
<1> QED
  BY <1>1, <1>2, <1>3, <1>4, ConstantsAssumption

\* Nobody starts or ends freeing.
LEMMA FreeFrame ==
    ASSUME IInv, PcInv',
           \A u \in Threads :
              /\ Freeing(u)' <=> Freeing(u)
              /\ Freeing(u) => pc'[u] = pc[u],
           \A c \in Buffers :
              /\ Live(c)' /\ buf'[c].ref = 0 <=> Live(c) /\ buf[c].ref = 0
              /\ Live(c) /\ buf[c].ref = 0 =>
                   buf'[c].kind = buf[c].kind /\ buf'[c].struct = buf[c].struct
    PROVE  FreeInv'
<1> USE DEF Freeing
<1>0. FreeInv /\ PcInv
  BY DEF IInv
<1>1. \A u \in Threads : Freeing(u) => pc[u].b \in Buffers
  BY <1>0 DEF PcInv
<1>2. \A u \in Threads : Freeing(u)' => Live(pc[u].b)' /\ buf'[pc'[u].b].ref = 0
  BY <1>0, <1>1 DEF FreeInv
<1>3. \A u, v \in Threads : Freeing(u)' /\ Freeing(v)' /\ u # v => pc'[u].b # pc'[v].b
  BY <1>0 DEF FreeInv
<1>4. \A u \in Threads : pc'[u].op = "push" =>
          /\ buf'[pc'[u].b].kind = "pool"
          /\ pc'[u].free = "nothing" <=> buf'[pc'[u].b].struct = "entry"
  BY <1>0, <1>1 DEF FreeInv
<1>5. \A c \in Buffers : Live(c)' /\ buf'[c].ref = 0 =>
          \E u \in Threads : Freeing(u)' /\ pc'[u].b = c
  BY <1>0 DEF FreeInv
<1> QED
  BY <1>2, <1>3, <1>4, <1>5 DEF FreeInv, Live

\* No heap structure is made or freed.
LEMMA HeapFrame ==
    ASSUME IInv, heap' = heap,
           \A u \in Threads :
              /\ Freer(u)' <=> Freer(u)
              /\ Freer(u) => pc'[u].b = pc[u].b /\ (pc'[u].op = "push" <=> pc[u].op = "push"),
           \A c \in Buffers :
              /\ Live(c)' /\ buf'[c].struct = "heap" <=> Live(c) /\ buf[c].struct = "heap"
              /\ buf'[c].st = "unused" => buf[c].st = "unused"
    PROVE  HeapInv'
<1>0. HeapInv /\ heap \subseteq Buffers
  BY DEF IInv, TypeOK
<1>1. \A c \in Buffers : Live(c)' /\ buf'[c].struct = "heap" => c \in heap'
  BY <1>0 DEF HeapInv
<1>2. \A u \in Threads : Freer(u)' => pc'[u].b \in heap'
  BY <1>0 DEF HeapInv
<1>3. \A u \in Threads : Freer(u)' /\ pc'[u].op # "push" =>
          ~(Live(pc[u].b)' /\ buf'[pc'[u].b].struct = "heap")
  <2> SUFFICES ASSUME NEW u \in Threads, Freer(u)', pc'[u].op # "push"
               PROVE  ~(Live(pc[u].b)' /\ buf'[pc'[u].b].struct = "heap")
    OBVIOUS
  <2>1. Freer(u) /\ pc'[u].b = pc[u].b /\ pc[u].op # "push"
    OBVIOUS
  <2>2. pc[u].b \in Buffers /\ ~(Live(pc[u].b) /\ buf[pc[u].b].struct = "heap")
    BY <2>1, <1>0 DEF HeapInv
  <2>3. Live(pc[u].b)' <=> buf'[pc[u].b].st = "live"
    BY <2>1 DEF Live
  <2>4. PICK c \in Buffers : c = pc[u].b /\ ~(Live(c) /\ buf[c].struct = "heap")
    BY <2>2
  <2>5. ~(Live(c)' /\ buf'[c].struct = "heap")
    BY <2>4
  <2> QED
    BY <2>1, <2>3, <2>4, <2>5 DEF Live
<1>4. \A u, v \in Threads : Freer(u)' /\ Freer(v)' /\ u # v => pc'[u].b # pc'[v].b
  BY <1>0 DEF HeapInv
<1>5. \A c \in heap' : \/ Live(c)' /\ buf'[c].struct = "heap"
                       \/ \E u \in Threads : Freer(u)' /\ pc'[u].b = c
  BY <1>0 DEF HeapInv
<1>6. \A c \in heap' : buf'[c].st # "unused"
  BY <1>0 DEF HeapInv
<1> QED
  BY <1>1, <1>2, <1>3, <1>4, <1>5, <1>6 DEF HeapInv, Live

\* The list stays.
LEMMA ListFrame ==
    ASSUME IInv, list' = list,
           \A c \in Buffers :
              /\ buf'[c].st = "free" <=> buf[c].st = "free"
              /\ buf'[c].st = "unused" => buf[c].st = "unused"
              /\ buf'[c].st \in {"free", "unused"} => buf'[c].kind = buf[c].kind
    PROVE  ListInv'
<1>1. ListInv /\ Listed' = Listed
  BY DEF IInv, Listed
<1> QED
  BY <1>1 DEF ListInv

\* The pool and what it counts stay.
LEMMA PoolFrame ==
    ASSUME IInv, pool' = pool, Out' = Out,
           \A u \in Threads :
              /\ pc'[u].op = "count_down" <=> pc[u].op = "count_down"
              /\ pc'[u].op = "pool_free" <=> pc[u].op = "pool_free"
              /\ pool.life # "owned" /\ pc'[u].op = "count" => pc[u].op = "count",
           \A c \in Buffers : pool.life = "freed" /\ buf'[c].kind = "pool" =>
              buf[c].kind = "pool" /\ (buf[c].st = "gone" => buf'[c].st = "gone")
    PROVE  PoolInv'
<1>0. PoolInv
  BY DEF IInv
<1>1. Doing("count_down")' = Doing("count_down")
  BY DEF Doing
<1>2. PoolRef' = PoolRef
  BY <1>1 DEF PoolRef
<1>3. pool'.life # "freed" => pool'.ref = PoolRef'
  BY <1>0, <1>2 DEF PoolInv
<1>4. pool'.life = "freed" =>
        /\ pool'.ref = 0
        /\ \A u \in Threads : pc'[u].op \notin {"count_down", "pool_free"}
        /\ \A c \in Buffers : buf'[c].kind = "pool" => buf'[c].st = "gone"
  BY <1>0 DEF PoolInv
<1>5. pool'.life # "owned" => \A u \in Threads : pc'[u].op # "count"
  BY <1>0 DEF PoolInv
<1>6. /\ \A u \in Threads : pc'[u].op = "pool_free" => pool'.life = "given_up" /\ pool'.ref = 0
      /\ \A u, v \in Threads : pc'[u].op = "pool_free" /\ pc'[v].op = "pool_free" => u = v
  BY <1>0 DEF PoolInv
<1>7. pool'.life # "freed" /\ pool'.ref = 0 => \E u \in Threads : pc'[u].op = "pool_free"
  BY <1>0 DEF PoolInv
<1> QED
  BY <1>3, <1>4, <1>5, <1>6, <1>7 DEF PoolInv

----------------------------------------------------------------------------
(* Taking a buffer from the pool.                                          *)

\* The head of the list goes out.
LEMMA GetFromListOK ==
    ASSUME IInv, NEW t \in Threads, GetFromList(t)
    PROVE  IInv'
<1>a. /\ buf \in [Buffers -> Buffer] /\ pc \in [Threads -> Call]
      /\ pc[t].op = "idle" /\ pool.life = "owned" /\ list # <<>> /\ list \in Seq(Buffers)
      /\ PcInv
  BY DEF GetFromList, IInv, TypeOK
<1>b. PICK b \in Buffers : b = Head(list) /\ b = list[1] /\ 1 \in DOMAIN list
  BY <1>a
<1>c. buf[b].st = "free" /\ buf[b].kind = "pool" /\ ~Live(b)
  BY <1>b DEF IInv, ListInv, Listed, Live
<1>d. list' = Tail(list) /\ heap' = heap /\ refs' = refs /\ pool' = pool
  BY DEF GetFromList
<1>e. \A c \in Buffers :
        /\ c # b => buf'[c] = buf[c]
        /\ buf'[c].st = IF c = b THEN "live" ELSE buf[c].st
        /\ buf'[c].ref = IF c = b THEN 1 ELSE buf[c].ref
        /\ buf'[c].struct = IF c = b THEN "entry" ELSE buf[c].struct
        /\ buf'[c].kind = buf[c].kind
        /\ buf'[c].val = buf[c].val
  BY <1>a, <1>b DEF GetFromList, Buffer
<1>f. buf' \in [Buffers -> Buffer]
  <2>1. 1 \in 0..MaxRefs
    BY ConstantsAssumption
  <2>2. [buf[b] EXCEPT !.st = "live", !.ref = 1, !.struct = "entry"] \in Buffer
    BY <2>1, <1>a, <1>b, ZenonT(60) DEF Buffer
  <2> QED
    BY <2>2, <1>a, <1>b DEF GetFromList
<1>g. pc'[t] = At("count", b) /\ \A u \in Threads \ {t} : pc'[u] = pc[u]
  BY <1>a, <1>b DEF GetFromList
<1>h. pc' \in [Threads -> Call] /\ pc'[t].op = "count" /\ pc'[t].b = b
  BY <1>a, <1>b, AtType DEF GetFromList, Ops
<1>i. \A u \in Threads : refs[u][b] = 0 /\ ~Local(u, b)
  BY <1>b, <1>c, NotLive
<1>j. \A u \in Threads, c \in Buffers : Local(u, c)' <=> Local(u, c) \/ (u = t /\ c = b)
  BY <1>a, <1>g, <1>h DEF Local
<1>k. \A c \in Buffers : Live(c)' <=> Live(c) \/ c = b
  BY <1>e DEF Live
<1>1. TypeOK'
  BY <1>a, <1>d, <1>f, <1>h DEF IInv, TypeOK
<1>2. PcInv'
  BY <1>b, <1>g, <1>h, <1>a DEF PcInv
<1>3. CountInv'
  <2>1. \A u \in Threads : refs'[u][b] = 0 /\ (Local(u, b)' <=> u = t)
    BY <1>b, <1>d, <1>i, <1>j
  <2>2. Existing(b)' = 1
    BY <1>b, <2>1, FirstLocal
  <2>3. \A c \in Buffers : c # b => Existing(c)' = Existing(c)
    BY <1>d, <1>j, Same
  <2>4. \A c \in Buffers : Live(c)' => buf'[c].ref = Existing(c)'
    BY <2>2, <2>3, <1>e, <1>k DEF IInv, CountInv
  <2>5. \A u \in Threads, c \in Buffers : refs'[u][c] > 0 \/ Local(u, c)' => Live(c)'
    BY <1>d, <1>j, <1>k DEF IInv, CountInv
  <2> QED
    BY <2>4, <2>5 DEF CountInv
<1>4. HoldInv'
  BY <1>b, <1>c, <1>d, <1>e, <1>g, <1>h, <1>i DEF IInv, HoldInv, PcInv
<1>5. LocalInv'
  BY <1>b, <1>d, <1>i, <1>j DEF IInv, LocalInv
<1>6. FreeInv'
  <2>1. \A u \in Threads : (Freeing(u)' <=> Freeing(u)) /\ (Freeing(u) => pc'[u] = pc[u])
    BY <1>a, <1>g, <1>h DEF Freeing
  <2>2. \A c \in Buffers :
          /\ Live(c)' /\ buf'[c].ref = 0 <=> Live(c) /\ buf[c].ref = 0
          /\ Live(c) /\ buf[c].ref = 0 =>
               buf'[c].kind = buf[c].kind /\ buf'[c].struct = buf[c].struct
    BY <1>c, <1>e, <1>k
  <2> QED
    BY <1>2, <2>1, <2>2, FreeFrame
<1>7. HeapInv'
  <2>1. \A u \in Threads :
          /\ Freer(u)' <=> Freer(u)
          /\ Freer(u) => pc'[u].b = pc[u].b /\ (pc'[u].op = "push" <=> pc[u].op = "push")
    BY <1>a, <1>g, <1>h DEF Freer
  <2>2. \A c \in Buffers :
          /\ Live(c)' /\ buf'[c].struct = "heap" <=> Live(c) /\ buf[c].struct = "heap"
          /\ buf'[c].st = "unused" => buf[c].st = "unused"
    BY <1>c, <1>e, <1>k
  <2> QED
    BY <1>d, <2>1, <2>2, HeapFrame
<1>8. ListInv'
  <2>1. Len(list) \in Nat /\ DOMAIN list = 1..Len(list) /\ Len(list) >= 1
    BY <1>a
  <2>2. DOMAIN list' = 1..(Len(list) - 1) /\ \A i \in 1..(Len(list) - 1) : list'[i] = list[i + 1]
    BY <1>a, <1>d
  <2>3. \A i, j \in DOMAIN list' : list'[i] = list'[j] => i = j
    BY <2>1, <2>2 DEF IInv, ListInv
  <2>4. \A c \in Listed' : c \in Listed /\ c # b
    BY <2>1, <2>2, <1>b DEF IInv, ListInv, Listed
  <2>5. ASSUME NEW c \in Listed, c # b PROVE c \in Listed'
    <3>1. PICK i \in DOMAIN list : c = list[i]
      BY DEF Listed
    <3>2. i # 1
      BY <3>1, <2>5, <1>b
    <3>3. i - 1 \in DOMAIN list' /\ list'[i - 1] = c
      BY <3>1, <3>2, <2>1, <2>2
    <3> QED
      BY <3>3 DEF Listed
  <2> QED
    BY <2>3, <2>4, <2>5, <1>b, <1>e DEF IInv, ListInv
<1>9. PoolInv'
  <2>1. Out' = Out
    BY <1>a, <1>b, <1>c, <1>e, <1>g, <1>h DEF Out, Doing
  <2>2. \A u \in Threads :
          /\ pc'[u].op = "count_down" <=> pc[u].op = "count_down"
          /\ pc'[u].op = "pool_free" <=> pc[u].op = "pool_free"
    BY <1>a, <1>g, <1>h
  <2> QED
    BY <2>1, <2>2, <1>a, <1>d, PoolFrame
<1> QED
  BY <1>1, <1>2, <1>3, <1>4, <1>5, <1>6, <1>7, <1>8, <1>9 DEF IInv

\* A new buffer is made, for the pool or as a copy: what a step must do to a
\* buffer that was unused, and to its heap structure.
LEMMA NewBuffer ==
    ASSUME IInv, NEW t \in Threads, NEW b \in Buffers, NEW kind \in {"pool", "plain", "realloc"},
           buf[b].st = "unused", pc[t].op = "idle",
           buf' = [buf EXCEPT ![b] = Create(kind)], heap' = heap \cup {b},
           refs' = refs, list' = list, pool' = pool,
           pc'[t].op \in {"count", "copy"}, pc'[t].op = "count" <=> kind = "pool",
           pc'[t].op = "count" => pc'[t].b = b,
           pc'[t].op = "copy" => pc'[t].new = b /\ pc'[t].b \in Buffers /\ refs[t][pc'[t].b] > 0,
           pc'[t].free = "nothing",
           kind = "pool" => pool.life = "owned",
           pc' \in [Threads -> Call], \A u \in Threads \ {t} : pc'[u] = pc[u]
    PROVE  IInv'
<1>a. /\ buf \in [Buffers -> Buffer] /\ pc \in [Threads -> Call] /\ heap \subseteq Buffers
      /\ PcInv
  BY DEF IInv, TypeOK
<1>c. ~Live(b)
  BY DEF Live
<1>e. \A c \in Buffers :
        /\ c # b => buf'[c] = buf[c]
        /\ buf'[c].st = IF c = b THEN "live" ELSE buf[c].st
        /\ buf'[c].ref = IF c = b THEN 1 ELSE buf[c].ref
        /\ buf'[c].struct = IF c = b THEN "heap" ELSE buf[c].struct
        /\ buf'[c].kind = IF c = b THEN kind ELSE buf[c].kind
  BY <1>a DEF Create
<1>f. buf' \in [Buffers -> Buffer]
  <2>1. Create(kind) \in Buffer
    BY ConstantsAssumption DEF Buffer, Create
  <2> QED
    BY <2>1, <1>a
<1>i. \A u \in Threads : refs[u][b] = 0 /\ ~Local(u, b)
  BY <1>c, NotLive
<1>j. \A u \in Threads, c \in Buffers : Local(u, c)' <=> Local(u, c) \/ (u = t /\ c = b)
  BY <1>a DEF Local
<1>k. \A c \in Buffers : Live(c)' <=> Live(c) \/ c = b
  BY <1>e DEF Live
<1>1. TypeOK'
  BY <1>a, <1>f DEF IInv, TypeOK
<1>2. PcInv'
  BY <1>a DEF PcInv
<1>3. CountInv'
  <2>1. \A u \in Threads : refs'[u][b] = 0 /\ (Local(u, b)' <=> u = t)
    BY <1>i, <1>j
  <2>2. Existing(b)' = 1
    BY <2>1, FirstLocal
  <2>3. \A c \in Buffers : c # b => Existing(c)' = Existing(c)
    BY <1>j, Same
  <2>4. \A c \in Buffers : Live(c)' => buf'[c].ref = Existing(c)'
    BY <2>2, <2>3, <1>e, <1>k DEF IInv, CountInv
  <2>5. \A u \in Threads, c \in Buffers : refs'[u][c] > 0 \/ Local(u, c)' => Live(c)'
    BY <1>j, <1>k DEF IInv, CountInv
  <2> QED
    BY <2>4, <2>5 DEF CountInv
<1>4. HoldInv'
  <2>1. \A u \in Threads \ {t} : /\ pc[u].op \in {"write", "drop", "copy", "swap"} => pc[u].b # b
                                 /\ pc[u].op = "count" => pc[u].b # b
    BY <1>i DEF IInv, HoldInv, Local
  <2> QED
    BY <2>1, <1>a, <1>e DEF IInv, HoldInv, PcInv
<1>5. LocalInv'
  BY <1>i, <1>j DEF IInv, LocalInv
<1>6. FreeInv'
  <2>1. \A u \in Threads : (Freeing(u)' <=> Freeing(u)) /\ (Freeing(u) => pc'[u] = pc[u])
    BY <1>a DEF Freeing
  <2>2. \A c \in Buffers :
          /\ Live(c)' /\ buf'[c].ref = 0 <=> Live(c) /\ buf[c].ref = 0
          /\ Live(c) /\ buf[c].ref = 0 =>
               buf'[c].kind = buf[c].kind /\ buf'[c].struct = buf[c].struct
    BY <1>c, <1>e, <1>k
  <2> QED
    BY <1>2, <2>1, <2>2, FreeFrame
<1>7. HeapInv'
  <2>0. HeapInv
    BY DEF IInv
  <2>1. \A u \in Threads : (Freer(u)' <=> Freer(u)) /\ (Freer(u) => pc'[u] = pc[u])
    BY <1>a DEF Freer
  <2>2. b \notin heap
    BY <2>0 DEF HeapInv
  <2>3. \A u \in Threads : Freer(u) => pc[u].b \in heap /\ pc[u].b \in Buffers /\ pc[u].b # b
    BY <2>0, <2>2, <1>a DEF HeapInv
  <2>4. \A c \in Buffers : Live(c)' /\ buf'[c].struct = "heap" => c \in heap'
    BY <2>0, <1>e, <1>k DEF HeapInv
  <2>5. \A u \in Threads : Freer(u)' => pc'[u].b \in heap'
    BY <2>1, <2>3
  <2>6. \A u \in Threads : Freer(u)' /\ pc'[u].op # "push" =>
            ~(buf'[pc'[u].b].st = "live" /\ buf'[pc'[u].b].struct = "heap")
    BY <2>0, <2>1, <2>3, <1>e DEF HeapInv, Live
  <2>7. \A u, v \in Threads : Freer(u)' /\ Freer(v)' /\ u # v => pc'[u].b # pc'[v].b
    BY <2>0, <2>1 DEF HeapInv
  <2>8. \A c \in heap' : \/ Live(c)' /\ buf'[c].struct = "heap"
                         \/ \E u \in Threads : Freer(u)' /\ pc'[u].b = c
    BY <2>0, <2>1, <1>a, <1>e, <1>k DEF HeapInv
  <2>9. \A c \in heap' : buf'[c].st # "unused"
    BY <2>0, <1>a, <1>e DEF HeapInv
  <2> QED
    BY <2>4, <2>5, <2>6, <2>7, <2>8, <2>9 DEF HeapInv, Live
<1>8. ListInv'
  BY <1>e, ListFrame
<1>9. PoolInv'
  <2>1. Out' = Out
    <3>1. \A c \in Buffers : c \in Out' <=> c \in Out
      <4>1. \A c \in Buffers : c \in Out' <=> /\ buf'[c].kind = "pool" /\ buf'[c].st = "live"
                                               /\ \A u \in Threads : pc'[u].op = "count" => pc'[u].b # c
        BY DEF Out, Doing
      <4>2. \A c \in Buffers : c \in Out <=> /\ buf[c].kind = "pool" /\ buf[c].st = "live"
                                              /\ \A u \in Threads : pc[u].op = "count" => pc[u].b # c
        BY DEF Out, Doing
      <4> QED
        BY <4>1, <4>2, <1>e
    <3> QED
      BY <3>1 DEF Out
  <2>2. \A u \in Threads :
          /\ pc'[u].op = "count_down" <=> pc[u].op = "count_down"
          /\ pc'[u].op = "pool_free" <=> pc[u].op = "pool_free"
          /\ pool.life # "owned" /\ pc'[u].op = "count" => pc[u].op = "count"
    BY <1>a
  <2>3. \A c \in Buffers : pool.life = "freed" /\ buf'[c].kind = "pool" =>
              buf[c].kind = "pool" /\ (buf[c].st = "gone" => buf'[c].st = "gone")
    BY <1>e
  <2> QED
    BY <2>1, <2>2, <2>3, PoolFrame
<1> QED
  BY <1>1, <1>2, <1>3, <1>4, <1>5, <1>6, <1>7, <1>8, <1>9 DEF IInv

\* The pool makes a buffer.
LEMMA GetNewOK ==
    ASSUME IInv, NEW t \in Threads, GetNew(t)
    PROVE  IInv'
<1>1. PICK b \in Unused :
        /\ buf' = [buf EXCEPT ![b] = Create("pool")] /\ heap' = heap \cup {b}
        /\ pc' = [pc EXCEPT ![t] = At("count", b)]
  BY DEF GetNew
<1>2. b \in Buffers /\ buf[b].st = "unused"
  BY DEF Unused
<1>3. /\ pc[t].op = "idle" /\ pool.life = "owned" /\ refs' = refs /\ list' = list /\ pool' = pool
  BY DEF GetNew
<1>4. pc \in [Threads -> Call]
  BY DEF IInv, TypeOK
<1>5. /\ pc' \in [Threads -> Call] /\ pc'[t] = At("count", b)
      /\ \A u \in Threads \ {t} : pc'[u] = pc[u]
  BY <1>1, <1>2, <1>4, AtType DEF Ops
<1>6. pc'[t].op = "count" /\ pc'[t].b = b /\ pc'[t].free = "nothing"
  BY <1>2, <1>5, AtType DEF Ops
<1> QED
  BY <1>1, <1>2, <1>3, <1>5, <1>6, NewBuffer

Busy == {"count", "free", "push", "count_down", "pool_free", "struct"}

\* A step of a thread that is not taking or releasing a buffer leaves the
\* pool, the list and the heap alone.
LEMMA Quiet ==
    ASSUME IInv, heap' = heap, list' = list, pool' = pool,
           \A c \in Buffers : /\ buf'[c].st = buf[c].st /\ buf'[c].kind = buf[c].kind
                              /\ buf'[c].struct = buf[c].struct,
           \A u \in Threads : \/ pc'[u] = pc[u]
                              \/ pc[u].op \notin Busy /\ pc'[u].op \notin Busy \ {"free"}
    PROVE  HeapInv' /\ ListInv' /\ PoolInv'
<1>1. HeapInv'
  <2>1. \A u \in Threads :
          /\ Freer(u)' <=> Freer(u)
          /\ Freer(u) => pc'[u].b = pc[u].b /\ (pc'[u].op = "push" <=> pc[u].op = "push")
    BY DEF Freer, Busy
  <2>2. \A c \in Buffers :
          /\ Live(c)' /\ buf'[c].struct = "heap" <=> Live(c) /\ buf[c].struct = "heap"
          /\ buf'[c].st = "unused" => buf[c].st = "unused"
    BY DEF Live
  <2> QED
    BY <2>1, <2>2, HeapFrame
<1>2. ListInv'
  BY ListFrame
<1>3. PoolInv'
  <2>1. \A u \in Threads :
          /\ pc'[u].op = "count_down" <=> pc[u].op = "count_down"
          /\ pc'[u].op = "pool_free" <=> pc[u].op = "pool_free"
          /\ pc'[u].op = "count" <=> pc[u].op = "count"
          /\ pc'[u].op = "count" => pc'[u].b = pc[u].b
    BY DEF Busy
  <2>2. Out' = Out
    BY <2>1 DEF Out, Doing
  <2> QED
    BY <2>1, <2>2, PoolFrame
<1> QED
  BY <1>1, <1>2, <1>3

\* A step that frees nothing and takes no last reference.
LEMMA QuietFree ==
    ASSUME IInv, PcInv',
           \A c \in Buffers : /\ buf'[c].st = buf[c].st /\ buf'[c].kind = buf[c].kind
                              /\ buf'[c].struct = buf[c].struct
                              /\ Live(c) => (buf'[c].ref = 0 <=> buf[c].ref = 0),
           \A u \in Threads : \/ pc'[u] = pc[u]
                              \/ pc[u].op \notin Busy /\ pc'[u].op \notin Busy
    PROVE  FreeInv'
<1>1. \A u \in Threads : (Freeing(u)' <=> Freeing(u)) /\ (Freeing(u) => pc'[u] = pc[u])
  BY DEF Freeing, Busy
<1>2. \A c \in Buffers :
        /\ Live(c)' /\ buf'[c].ref = 0 <=> Live(c) /\ buf[c].ref = 0
        /\ Live(c) /\ buf[c].ref = 0 =>
             buf'[c].kind = buf[c].kind /\ buf'[c].struct = buf[c].struct
  BY DEF Live
<1> QED
  BY <1>1, <1>2, FreeFrame

\* One more reference to a buffer that the thread holds.
LEMMA RefOK ==
    ASSUME IInv, NEW t \in Threads, NEW b \in Buffers, Ref(t, b)
    PROVE  IInv'
<1>a. /\ buf \in [Buffers -> Buffer] /\ refs \in [Threads -> [Buffers -> 0..MaxRefs]]
      /\ PcInv /\ TypeOK
  BY DEF IInv, TypeOK
<1>b. /\ pc[t].op = "idle" /\ refs[t][b] > 0 /\ buf[b].ref < MaxRefs
      /\ buf' = [buf EXCEPT ![b].ref = @ + 1] /\ refs' = [refs EXCEPT ![t][b] = @ + 1]
      /\ heap' = heap /\ list' = list /\ pool' = pool /\ pc' = pc
  BY DEF Ref, Holds
<1>c. /\ Live(b) /\ buf[b].ref = Existing(b) /\ buf[b].ref \in 1..MaxRefs
      /\ refs[t][b] \in 1..MaxRefs /\ refs[t][b] <= buf[b].ref
      /\ \A u \in Threads \ {t} : refs[u][b] + 1 <= buf[b].ref
  BY <1>b, Referenced
<1>d. buf[b].ref + 1 \in 0..MaxRefs /\ refs[t][b] + 1 \in 0..MaxRefs /\ refs[t][b] < MaxRefs
      /\ buf[b].ref + 1 # 0 /\ buf[b].ref # 0
  BY <1>b, <1>c, ConstantsAssumption
<1>e. \A c \in Buffers :
        /\ buf'[c].st = buf[c].st /\ buf'[c].kind = buf[c].kind /\ buf'[c].struct = buf[c].struct
        /\ buf'[c].ref = IF c = b THEN buf[c].ref + 1 ELSE buf[c].ref
  BY <1>a, <1>b DEF Buffer
<1>f. buf' \in [Buffers -> Buffer] /\ refs' \in [Threads -> [Buffers -> 0..MaxRefs]]
  BY <1>a, <1>b, <1>d DEF Buffer
<1>g. \A u \in Threads, c \in Buffers :
        /\ refs'[u][c] = IF u = t /\ c = b THEN refs[u][c] + 1 ELSE refs[u][c]
        /\ Local(u, c)' <=> Local(u, c)
        /\ Live(c)' <=> Live(c)
  BY <1>a, <1>b, <1>e DEF Local, Live
<1>1. TypeOK'
  BY <1>a, <1>b, <1>f DEF TypeOK
<1>2. PcInv'
  BY <1>a, <1>b DEF PcInv
<1>3. CountInv'
  <2>1. Existing(b)' = Existing(b) + 1
    <3>1. RefsType
      BY <1>a DEF RefsType
    <3> QED
      BY <3>1, <1>d, <1>g, Gained
  <2>2. \A c \in Buffers : c # b => Existing(c)' = Existing(c)
    BY <1>g, Same
  <2>3. \A c \in Buffers : Live(c)' => buf'[c].ref = Existing(c)'
    BY <2>1, <2>2, <1>c, <1>e, <1>g DEF IInv, CountInv
  <2>4. \A u \in Threads, c \in Buffers : refs'[u][c] > 0 \/ Local(u, c)' => Live(c)'
    BY <1>c, <1>g DEF IInv, CountInv
  <2> QED
    BY <2>3, <2>4 DEF CountInv
<1>4. HoldInv'
  <2>1. \A u \in Threads : pc[u].op = "write" => pc[u].b # b
    <3> SUFFICES ASSUME NEW u \in Threads, pc[u].op = "write", pc[u].b = b PROVE FALSE
      OBVIOUS
    <3>1. u # t /\ refs[u][b] > 0 /\ buf[b].ref = 1
      BY <1>b DEF IInv, HoldInv
    <3>2. refs[u][b] \in 0..MaxRefs
      BY <1>a
    <3> QED
      BY <3>1, <3>2, <1>c, ConstantsAssumption
  <2>2. \A u \in Threads, c \in Buffers : refs[u][c] > 0 => refs'[u][c] > 0
    BY <1>c, <1>d, <1>g
  <2> QED
    BY <2>1, <2>2, <1>a, <1>b, <1>e DEF IInv, HoldInv, PcInv
<1>5. LocalInv'
  <2>1. \A u \in Threads : ~Local(u, b)
    BY <1>b, Referenced
  <2> QED
    BY <2>1, <1>g DEF IInv, LocalInv
<1>6. FreeInv'
  BY <1>2, <1>b, <1>d, <1>e, QuietFree
<1>7. HeapInv' /\ ListInv' /\ PoolInv'
  BY <1>b, <1>e, Quiet
<1> QED
  BY <1>1, <1>2, <1>3, <1>4, <1>5, <1>6, <1>7 DEF IInv

\* A reference goes to another thread.
LEMMA HandOverOK ==
    ASSUME IInv, NEW t \in Threads, NEW v \in Threads, NEW b \in Buffers, HandOver(t, v, b)
    PROVE  IInv'
<1>a. /\ buf \in [Buffers -> Buffer] /\ refs \in [Threads -> [Buffers -> 0..MaxRefs]]
      /\ PcInv /\ TypeOK
  BY DEF IInv, TypeOK
<1>b. /\ t # v /\ pc[t].op = "idle" /\ refs[t][b] > 0 /\ buf' = buf
      /\ refs' = [refs EXCEPT ![t][b] = @ - 1, ![v][b] = @ + 1]
      /\ heap' = heap /\ list' = list /\ pool' = pool /\ pc' = pc
  BY DEF HandOver, Holds
<1>c. /\ Live(b) /\ buf[b].ref = Existing(b) /\ buf[b].ref \in 1..MaxRefs
      /\ refs[t][b] \in 1..MaxRefs /\ refs[v][b] + 1 <= buf[b].ref
  BY <1>b, Referenced
<1>d. /\ refs[v][b] \in 0..MaxRefs /\ refs[v][b] + 1 \in 0..MaxRefs /\ refs[v][b] < MaxRefs
      /\ refs[t][b] - 1 \in 0..MaxRefs
  <2>1. refs[v][b] \in 0..MaxRefs
    BY <1>a
  <2> QED
    BY <2>1, <1>c, ConstantsAssumption
<1>f. refs' \in [Threads -> [Buffers -> 0..MaxRefs]]
  BY <1>a, <1>b, <1>d
<1>g. \A u \in Threads, c \in Buffers :
        /\ refs'[u][c] = IF c # b THEN refs[u][c] ELSE IF u = t THEN refs[u][c] - 1
                         ELSE IF u = v THEN refs[u][c] + 1 ELSE refs[u][c]
        /\ Local(u, c)' <=> Local(u, c)
        /\ Live(c)' <=> Live(c)
  BY <1>a, <1>b DEF Local, Live
<1>1. TypeOK'
  BY <1>a, <1>b, <1>f DEF TypeOK
<1>2. PcInv'
  BY <1>a, <1>b DEF PcInv
<1>3. CountInv'
  <2>1. Existing(b)' = Existing(b)
    <3>1. RefsType
      BY <1>a DEF RefsType
    <3>2. \A u \in Threads :
            /\ refs'[u][b] = IF u = t THEN refs[u][b] - 1
                             ELSE IF u = v THEN refs[u][b] + 1 ELSE refs[u][b]
            /\ Local(u, b)' <=> Local(u, b)
      BY <1>g
    <3> QED
      BY <3>1, <3>2, <1>b, <1>d, Moved
  <2>2. \A c \in Buffers : c # b => Existing(c)' = Existing(c)
    BY <1>g, Same
  <2>3. \A c \in Buffers : Live(c)' => buf'[c].ref = Existing(c)'
    BY <2>1, <2>2, <1>b, <1>g DEF IInv, CountInv
  <2>4. \A u \in Threads, c \in Buffers : refs'[u][c] > 0 \/ Local(u, c)' => Live(c)'
    BY <1>c, <1>g DEF IInv, CountInv
  <2> QED
    BY <2>3, <2>4 DEF CountInv
<1>4. HoldInv'
  <2>1. \A u \in Threads \ {t}, c \in Buffers : refs[u][c] > 0 => refs'[u][c] > 0
    BY <1>d, <1>g
  <2> QED
    BY <2>1, <1>a, <1>b DEF IInv, HoldInv, PcInv
<1>5. LocalInv'
  <2>1. \A u \in Threads : ~Local(u, b)
    BY <1>b, Referenced
  <2> QED
    BY <2>1, <1>g DEF IInv, LocalInv
<1>6. FreeInv'
  BY <1>2, <1>b, QuietFree
<1>7. HeapInv' /\ ListInv' /\ PoolInv'
  BY <1>b, Quiet
<1> QED
  BY <1>1, <1>2, <1>3, <1>4, <1>5, <1>6, <1>7 DEF IInv

\* The first half of sa_buffer_replace takes a reference to the source.
LEMMA ReplaceOK ==
    ASSUME IInv, NEW t \in Threads, NEW dst \in Buffers, NEW b \in Buffers, Replace(t, dst, b)
    PROVE  IInv'
<1>a. /\ buf \in [Buffers -> Buffer] /\ refs \in [Threads -> [Buffers -> 0..MaxRefs]]
      /\ PcInv /\ TypeOK /\ pc \in [Threads -> Call]
  BY DEF IInv, TypeOK
<1>b. /\ pc[t].op = "idle" /\ refs[t][b] > 0 /\ refs[t][dst] > 0 /\ dst # b
      /\ buf[b].ref < MaxRefs
      /\ buf' = [buf EXCEPT ![b].ref = @ + 1] /\ refs' = [refs EXCEPT ![t][b] = @ + 1]
      /\ heap' = heap /\ list' = list /\ pool' = pool
      /\ pc' = [pc EXCEPT ![t] = At("drop", dst)]
  BY DEF Replace, Holds
<1>c. /\ Live(b) /\ buf[b].ref = Existing(b) /\ buf[b].ref \in 1..MaxRefs
      /\ refs[t][b] \in 1..MaxRefs /\ refs[t][b] <= buf[b].ref
      /\ \A u \in Threads \ {t} : refs[u][b] + 1 <= buf[b].ref
  BY <1>b, Referenced
<1>d. buf[b].ref + 1 \in 0..MaxRefs /\ refs[t][b] + 1 \in 0..MaxRefs /\ refs[t][b] < MaxRefs
      /\ buf[b].ref + 1 # 0 /\ buf[b].ref # 0
  BY <1>b, <1>c, ConstantsAssumption
<1>e. \A c \in Buffers :
        /\ buf'[c].st = buf[c].st /\ buf'[c].kind = buf[c].kind /\ buf'[c].struct = buf[c].struct
        /\ buf'[c].ref = IF c = b THEN buf[c].ref + 1 ELSE buf[c].ref
  BY <1>a, <1>b DEF Buffer
<1>f. buf' \in [Buffers -> Buffer] /\ refs' \in [Threads -> [Buffers -> 0..MaxRefs]]
  BY <1>a, <1>b, <1>d, ZenonT(60) DEF Buffer
<1>h. /\ pc' \in [Threads -> Call] /\ \A u \in Threads \ {t} : pc'[u] = pc[u]
      /\ pc'[t].op = "drop" /\ pc'[t].b = dst
  BY <1>a, <1>b, AtType DEF Ops
<1>g. \A u \in Threads, c \in Buffers :
        /\ refs'[u][c] = IF u = t /\ c = b THEN refs[u][c] + 1 ELSE refs[u][c]
        /\ Local(u, c)' <=> Local(u, c)
        /\ Live(c)' <=> Live(c)
  BY <1>a, <1>b, <1>e, <1>h DEF Local, Live
<1>1. TypeOK'
  BY <1>a, <1>b, <1>f, <1>h DEF TypeOK
<1>2. PcInv'
  BY <1>a, <1>h DEF PcInv
<1>3. CountInv'
  <2>1. Existing(b)' = Existing(b) + 1
    <3>1. RefsType
      BY <1>a DEF RefsType
    <3> QED
      BY <3>1, <1>d, <1>g, Gained
  <2>2. \A c \in Buffers : c # b => Existing(c)' = Existing(c)
    BY <1>g, Same
  <2>3. \A c \in Buffers : Live(c)' => buf'[c].ref = Existing(c)'
    BY <2>1, <2>2, <1>c, <1>e, <1>g DEF IInv, CountInv
  <2>4. \A u \in Threads, c \in Buffers : refs'[u][c] > 0 \/ Local(u, c)' => Live(c)'
    BY <1>c, <1>g DEF IInv, CountInv
  <2> QED
    BY <2>3, <2>4 DEF CountInv
<1>4. HoldInv'
  <2>1. \A u \in Threads : pc[u].op = "write" => pc[u].b # b
    <3> SUFFICES ASSUME NEW u \in Threads, pc[u].op = "write", pc[u].b = b PROVE FALSE
      OBVIOUS
    <3>1. u # t /\ refs[u][b] > 0 /\ buf[b].ref = 1
      BY <1>b DEF IInv, HoldInv
    <3>2. refs[u][b] \in 0..MaxRefs
      BY <1>a
    <3> QED
      BY <3>1, <3>2, <1>c, ConstantsAssumption
  <2>2. \A u \in Threads, c \in Buffers : refs[u][c] > 0 => refs'[u][c] > 0
    BY <1>c, <1>d, <1>g
  <2> QED
    BY <2>1, <2>2, <1>a, <1>b, <1>e, <1>h DEF IInv, HoldInv, PcInv
<1>5. LocalInv'
  <2>1. \A u \in Threads : ~Local(u, b)
    BY <1>b, Referenced
  <2> QED
    BY <2>1, <1>g DEF IInv, LocalInv
<1>k. \A u \in Threads : pc'[u] = pc[u] \/ (pc[u].op \notin Busy /\ pc'[u].op \notin Busy)
  BY <1>b, <1>h DEF Busy
<1>6. FreeInv'
  BY <1>2, <1>d, <1>e, <1>k, QuietFree
<1>7. HeapInv' /\ ListInv' /\ PoolInv'
  BY <1>b, <1>e, <1>k, Quiet
<1> QED
  BY <1>1, <1>2, <1>3, <1>4, <1>5, <1>6, <1>7 DEF IInv

----------------------------------------------------------------------------
(* Dropping a reference.                                                   *)

\* What a drop does to the buffer and the thread.
LEMMA DropStep ==
    ASSUME IInv, NEW t \in Threads, NEW b \in Buffers, refs[t][b] > 0,
           pc[t].op \in {"idle", "drop", "swap"}, Drop(t, b)
    PROVE  /\ buf' \in [Buffers -> Buffer] /\ pc' \in [Threads -> Call]
           /\ \A c \in Buffers :
                /\ buf'[c].st = buf[c].st /\ buf'[c].kind = buf[c].kind
                /\ buf'[c].struct = buf[c].struct /\ buf'[c].val = buf[c].val
                /\ buf'[c].ref = IF c = b THEN buf[c].ref - 1 ELSE buf[c].ref
                /\ Live(c)' <=> Live(c)
           /\ \A u \in Threads \ {t} : pc'[u] = pc[u]
           /\ \/ buf[b].ref = 1 /\ pc'[t].op = "free" /\ pc'[t].b = b
              \/ buf[b].ref # 1 /\ pc'[t].op = "idle"
           /\ PcInv' /\ FreeInv'
           /\ \A u \in Threads : \/ pc'[u] = pc[u]
                                 \/ pc[u].op \notin Busy /\ pc'[u].op \notin Busy \ {"free"}
           /\ \A u \in Threads : pc[u].op = "write" => u = t \/ pc[u].b # b
<1>a. /\ buf \in [Buffers -> Buffer] /\ refs \in [Threads -> [Buffers -> 0..MaxRefs]]
      /\ PcInv /\ FreeInv /\ pc \in [Threads -> Call]
  BY DEF IInv, TypeOK
<1>b. /\ buf' = [buf EXCEPT ![b].ref = @ - 1]
      /\ pc' = [pc EXCEPT ![t] = IF buf[b].ref = 1 THEN At("free", b) ELSE Idle]
  BY DEF Drop, LastRef
<1>c. /\ Live(b) /\ buf[b].ref \in 1..MaxRefs
      /\ \A u \in Threads \ {t} : refs[u][b] + 1 <= buf[b].ref
  BY Referenced
<1>d. buf[b].ref - 1 \in 0..MaxRefs /\ (buf[b].ref - 1 = 0 <=> buf[b].ref = 1) /\ buf[b].ref # 0
  BY <1>c, ConstantsAssumption
<1>1. buf' \in [Buffers -> Buffer]
  BY <1>a, <1>b, <1>d, ZenonT(60) DEF Buffer
<1>2. \A c \in Buffers :
        /\ buf'[c].st = buf[c].st /\ buf'[c].kind = buf[c].kind
        /\ buf'[c].struct = buf[c].struct /\ buf'[c].val = buf[c].val
        /\ buf'[c].ref = IF c = b THEN buf[c].ref - 1 ELSE buf[c].ref
        /\ Live(c)' <=> Live(c)
  BY <1>a, <1>b DEF Buffer, Live
<1>3. /\ At("free", b) \in Call /\ At("free", b).op = "free" /\ At("free", b).b = b
      /\ Idle \in Call /\ Idle.op = "idle"
  BY AtType, IdleType DEF Ops
<1>4. pc' \in [Threads -> Call] /\ \A u \in Threads \ {t} : pc'[u] = pc[u]
  BY <1>a, <1>b, <1>3
<1>5. \/ buf[b].ref = 1 /\ pc'[t].op = "free" /\ pc'[t].b = b
      \/ buf[b].ref # 1 /\ pc'[t].op = "idle"
  BY <1>a, <1>b, <1>3
<1>6. PcInv'
  BY <1>a, <1>4, <1>5 DEF PcInv
<1>7. \A u \in Threads : \/ pc'[u] = pc[u]
                         \/ pc[u].op \notin Busy /\ pc'[u].op \notin Busy \ {"free"}
  BY <1>4, <1>5 DEF Busy
<1>8. ASSUME NEW u \in Threads, pc[u].op = "write" PROVE u = t \/ pc[u].b # b
  <2> SUFFICES ASSUME u # t, pc[u].b = b PROVE FALSE
    OBVIOUS
  <2>1. refs[u][b] > 0 /\ buf[b].ref = 1
    BY <1>8 DEF IInv, HoldInv
  <2>2. refs[u][b] \in 0..MaxRefs
    BY <1>a
  <2> QED
    BY <2>1, <2>2, <1>c, ConstantsAssumption
<1>9. FreeInv'
  <2>1. \A u \in Threads \ {t} : (Freeing(u)' <=> Freeing(u)) /\ pc'[u] = pc[u]
    BY <1>4 DEF Freeing
  <2>2. ~Freeing(t) /\ (Freeing(t)' <=> buf[b].ref = 1) /\ (Freeing(t)' => pc'[t].b = b)
    BY <1>5 DEF Freeing
  <2>3. \A u \in Threads : Freeing(u) => pc[u].b \in Buffers /\ Live(pc[u].b) /\ buf[pc[u].b].ref = 0
    BY <1>a DEF FreeInv, PcInv, Freeing
  <2>4. \A u \in Threads : Freeing(u) => pc[u].b # b
    BY <2>3, <1>d
  <2>5. \A u \in Threads : Freeing(u)' => buf'[pc'[u].b].st = "live" /\ buf'[pc'[u].b].ref = 0
    BY <2>1, <2>2, <2>3, <2>4, <1>2, <1>c, <1>d DEF Live
  <2>6. \A u, v \in Threads : Freeing(u)' /\ Freeing(v)' /\ u # v => pc'[u].b # pc'[v].b
    BY <2>1, <2>2, <2>4, <1>a DEF FreeInv
  <2>7. \A u \in Threads : pc'[u].op = "push" =>
          /\ buf'[pc'[u].b].kind = "pool"
          /\ pc'[u].free = "nothing" <=> buf'[pc'[u].b].struct = "entry"
    <3> SUFFICES ASSUME NEW u \in Threads, pc'[u].op = "push"
                 PROVE  /\ buf'[pc'[u].b].kind = "pool"
                        /\ pc'[u].free = "nothing" <=> buf'[pc'[u].b].struct = "entry"
      OBVIOUS
    <3>1. u # t /\ pc'[u] = pc[u]
      BY <2>1, <1>5
    <3> QED
      BY <3>1, <2>3, <1>2, <1>a DEF FreeInv, Freeing
  <2>8. ASSUME NEW c \in Buffers, Live(c)', buf'[c].ref = 0
        PROVE  \E u \in Threads : Freeing(u)' /\ pc'[u].b = c
    <3>1. CASE c = b
      BY <3>1, <2>2, <2>8, <1>2, <1>d, <1>5
    <3>2. CASE c # b
      <4>1. PICK u \in Threads : Freeing(u) /\ pc[u].b = c
        BY <3>2, <2>8, <1>2, <1>a DEF FreeInv
      <4> QED
        BY <4>1, <2>1, <2>2
    <3> QED
      BY <3>1, <3>2
  <2> QED
    BY <2>5, <2>6, <2>7, <2>8 DEF FreeInv, Live
<1> QED
  BY <1>1, <1>2, <1>4, <1>5, <1>6, <1>7, <1>8, <1>9

\* A reference is dropped and nothing else changes: sa_buffer_unref and the
\* second half of sa_buffer_replace.
LEMMA DropOK ==
    ASSUME IInv, NEW t \in Threads, NEW b \in Buffers, refs[t][b] > 0,
           pc[t].op \in {"idle", "drop"}, Drop(t, b),
           refs' = [refs EXCEPT ![t][b] = @ - 1],
           heap' = heap, list' = list, pool' = pool
    PROVE  IInv'
<1>a. /\ refs \in [Threads -> [Buffers -> 0..MaxRefs]] /\ PcInv /\ TypeOK
  BY DEF IInv, TypeOK
<1>b. /\ buf' \in [Buffers -> Buffer] /\ pc' \in [Threads -> Call] /\ PcInv' /\ FreeInv'
      /\ \A c \in Buffers :
            /\ buf'[c].st = buf[c].st /\ buf'[c].kind = buf[c].kind
            /\ buf'[c].struct = buf[c].struct /\ buf'[c].val = buf[c].val
            /\ buf'[c].ref = IF c = b THEN buf[c].ref - 1 ELSE buf[c].ref
            /\ Live(c)' <=> Live(c)
  BY DropStep
<1>c. /\ \A u \in Threads \ {t} : pc'[u] = pc[u]
      /\ pc'[t].op \in {"free", "idle"}
      /\ \A u \in Threads : \/ pc'[u] = pc[u]
                            \/ pc[u].op \notin Busy /\ pc'[u].op \notin Busy \ {"free"}
      /\ \A u \in Threads : pc[u].op = "write" => u = t \/ pc[u].b # b
  BY DropStep
<1>d. /\ buf[b].ref = Existing(b) /\ refs[t][b] \in 1..MaxRefs
      /\ \A u \in Threads : ~Local(u, b)
  BY Referenced
<1>e. refs[t][b] - 1 \in 0..MaxRefs
  BY <1>d, ConstantsAssumption
<1>f. refs' \in [Threads -> [Buffers -> 0..MaxRefs]]
  BY <1>a, <1>e
<1>g. \A u \in Threads, c \in Buffers :
        /\ refs'[u][c] = IF u = t /\ c = b THEN refs[u][c] - 1 ELSE refs[u][c]
        /\ Local(u, c)' <=> Local(u, c)
  BY <1>a, <1>c DEF Local
<1>1. TypeOK'
  BY <1>a, <1>b, <1>f DEF TypeOK
<1>3. CountInv'
  <2>1. Existing(b)' = Existing(b) - 1
    <3>1. RefsType
      BY <1>a DEF RefsType
    <3> QED
      BY <3>1, <1>g, Lost
  <2>2. \A c \in Buffers : c # b => Existing(c)' = Existing(c)
    BY <1>g, Same
  <2>3. \A c \in Buffers : Live(c)' => buf'[c].ref = Existing(c)'
    BY <2>1, <2>2, <1>b, <1>d DEF IInv, CountInv
  <2>4. \A u \in Threads, c \in Buffers : refs'[u][c] > 0 \/ Local(u, c)' => Live(c)'
    <3>1. Live(b)
      BY Referenced
    <3> QED
      BY <3>1, <1>b, <1>g DEF IInv, CountInv
  <2> QED
    BY <2>3, <2>4 DEF CountInv
<1>4. HoldInv'
  BY <1>a, <1>b, <1>c, <1>g DEF IInv, HoldInv, PcInv
<1>5. LocalInv'
  BY <1>d, <1>g DEF IInv, LocalInv
<1>7. HeapInv' /\ ListInv' /\ PoolInv'
  BY <1>b, <1>c, Quiet
<1> QED
  BY <1>1, <1>b, <1>3, <1>4, <1>5, <1>7 DEF IInv

\* sa_buffer_unref.
LEMMA UnrefOK ==
    ASSUME IInv, NEW t \in Threads, NEW b \in Buffers, Unref(t, b)
    PROVE  IInv'
BY DropOK DEF Unref, Holds

\* The second half of sa_buffer_replace.
LEMMA ReplaceDropOK ==
    ASSUME IInv, NEW t \in Threads, ReplaceDrop(t)
    PROVE  IInv'
<1>1. PICK b \in Buffers : b = pc[t].b /\ refs[t][b] > 0
  BY DEF ReplaceDrop, IInv, PcInv, HoldInv
<1>2. /\ Drop(t, b) /\ pc[t].op = "drop" /\ refs' = [refs EXCEPT ![t][b] = @ - 1]
      /\ heap' = heap /\ list' = list /\ pool' = pool
  BY <1>1 DEF ReplaceDrop
<1> QED
  BY <1>1, <1>2, DropOK

\* A buffer with a local reference has one reference.
LEMMA OneLocal ==
    ASSUME IInv, NEW b \in Buffers, NEW t \in Threads, Local(t, b)
    PROVE  /\ Live(b) /\ Existing(b) = 1 /\ buf[b].ref = 1
           /\ \A u \in Threads : refs[u][b] = 0 /\ (u # t => ~Local(u, b))
<1>1. /\ Live(b) /\ buf[b].ref = Existing(b)
      /\ \A u \in Threads : refs[u][b] = 0 /\ (u # t => ~Local(u, b))
  BY DEF IInv, CountInv, LocalInv
<1>2. Locals(b) = {t} /\ \A u \in Threads : Column(b)[u] = 0
  BY <1>1 DEF Locals, Column
<1> QED
  BY <1>1, <1>2, PairsFew, ExistingIs

\* The copy replaces its original.
LEMMA SwapOK ==
    ASSUME IInv, NEW t \in Threads, Swap(t)
    PROVE  IInv'
<1>a. /\ refs \in [Threads -> [Buffers -> 0..MaxRefs]] /\ PcInv /\ TypeOK
  BY DEF IInv, TypeOK
<1>0. PICK b \in Buffers, n \in Buffers : b = pc[t].b /\ n = pc[t].new /\ refs[t][b] > 0
  BY DEF Swap, IInv, PcInv, HoldInv
<1>1. /\ pc[t].op = "swap" /\ Drop(t, b) /\ heap' = heap /\ list' = list /\ pool' = pool
      /\ refs' = [refs EXCEPT ![t][b] = @ - 1, ![t][n] = @ + 1]
  BY <1>0 DEF Swap
<1>b. /\ buf' \in [Buffers -> Buffer] /\ pc' \in [Threads -> Call] /\ PcInv' /\ FreeInv'
      /\ \A c \in Buffers :
            /\ buf'[c].st = buf[c].st /\ buf'[c].kind = buf[c].kind
            /\ buf'[c].struct = buf[c].struct /\ buf'[c].val = buf[c].val
            /\ buf'[c].ref = IF c = b THEN buf[c].ref - 1 ELSE buf[c].ref
            /\ Live(c)' <=> Live(c)
  BY <1>0, <1>1, DropStep
<1>c. /\ \A u \in Threads \ {t} : pc'[u] = pc[u]
      /\ pc'[t].op \in {"free", "idle"}
      /\ \A u \in Threads : \/ pc'[u] = pc[u]
                            \/ pc[u].op \notin Busy /\ pc'[u].op \notin Busy \ {"free"}
      /\ \A u \in Threads : pc[u].op = "write" => u = t \/ pc[u].b # b
  BY <1>0, <1>1, DropStep
<1>d. /\ Live(b) /\ buf[b].ref = Existing(b) /\ refs[t][b] \in 1..MaxRefs
      /\ \A u \in Threads : ~Local(u, b)
  BY <1>0, Referenced
<1>m. Local(t, n)
  BY <1>0, <1>1 DEF Local
<1>n. /\ Live(n) /\ Existing(n) = 1 /\ buf[n].ref = 1
      /\ \A u \in Threads : refs[u][n] = 0 /\ (u # t => ~Local(u, n))
  BY <1>m, OneLocal
<1>p. b # n
  BY <1>d, <1>m
<1>e. refs[t][b] - 1 \in 0..MaxRefs /\ refs[t][n] + 1 = 1 /\ 1 \in 0..MaxRefs
  BY <1>d, <1>n, ConstantsAssumption
<1>f. refs' \in [Threads -> [Buffers -> 0..MaxRefs]]
  BY <1>1, <1>a, <1>e, <1>p
<1>g. \A u \in Threads, c \in Buffers :
        /\ refs'[u][c] = IF u = t /\ c = b THEN refs[u][c] - 1
                         ELSE IF u = t /\ c = n THEN 1 ELSE refs[u][c]
        /\ Local(u, c)' <=> Local(u, c) /\ ~(u = t /\ c = n)
  <2>1. \A u \in Threads, c \in Buffers :
          refs'[u][c] = IF u = t /\ c = b THEN refs[u][c] - 1
                        ELSE IF u = t /\ c = n THEN 1 ELSE refs[u][c]
    BY <1>1, <1>a, <1>e, <1>p
  <2>2. \A u \in Threads, c \in Buffers : Local(u, c)' <=> Local(u, c) /\ ~(u = t /\ c = n)
    BY <1>0, <1>1, <1>c DEF Local
  <2> QED
    BY <2>1, <2>2
<1>2. TypeOK'
  BY <1>1, <1>a, <1>b, <1>f DEF TypeOK
<1>3. CountInv'
  <2>1. Existing(b)' = Existing(b) - 1
    <3>1. RefsType
      BY <1>a DEF RefsType
    <3> QED
      BY <3>1, <1>0, <1>g, <1>p, Lost
  <2>2. \A c \in Buffers : c # b /\ c # n => Existing(c)' = Existing(c)
    BY <1>g, Same
  <2>5. Existing(n)' = 1
    <3>1. \A u \in Threads : refs'[u][n] = (IF u = t THEN 1 ELSE 0) /\ ~Local(u, n)'
      BY <1>g, <1>n, <1>p
    <3> QED
      BY <3>1, Settled
  <2>3. \A c \in Buffers : Live(c)' => buf'[c].ref = Existing(c)'
    BY <2>1, <2>2, <2>5, <1>b, <1>d, <1>n, <1>p DEF IInv, CountInv
  <2>4. \A u \in Threads, c \in Buffers : refs'[u][c] > 0 \/ Local(u, c)' => Live(c)'
    BY <1>b, <1>d, <1>g, <1>n DEF IInv, CountInv
  <2> QED
    BY <2>3, <2>4 DEF CountInv
<1>4. HoldInv'
  BY <1>a, <1>b, <1>c, <1>g DEF IInv, HoldInv, PcInv
<1>5. LocalInv'
  BY <1>d, <1>g, <1>n DEF IInv, LocalInv
<1>7. HeapInv' /\ ListInv' /\ PoolInv'
  BY <1>1, <1>b, <1>c, Quiet
<1> QED
  BY <1>2, <1>b, <1>3, <1>4, <1>5, <1>7 DEF IInv

----------------------------------------------------------------------------
(* Writing.                                                                *)

\* A thread goes on, with the references as they are.
LEMMA Onward ==
    ASSUME IInv, NEW t \in Threads,
           heap' = heap, list' = list, pool' = pool, refs' = refs,
           buf' \in [Buffers -> Buffer], pc' \in [Threads -> Call],
           \A c \in Buffers : /\ buf'[c].st = buf[c].st /\ buf'[c].kind = buf[c].kind
                              /\ buf'[c].struct = buf[c].struct /\ buf'[c].ref = buf[c].ref,
           \A u \in Threads \ {t} : pc'[u] = pc[u],
           pc[t].op \notin Busy, pc'[t].op \notin Busy,
           pc'[t].op \in {"write", "drop", "copy", "swap"} =>
              pc'[t].b \in Buffers /\ refs[t][pc'[t].b] > 0,
           pc'[t].op = "write" => buf[pc'[t].b].ref = 1,
           pc[t].op \in {"copy", "swap"} <=> pc'[t].op \in {"copy", "swap"},
           pc[t].op \in {"copy", "swap"} => pc'[t].new = pc[t].new
    PROVE  IInv'
<1>a. PcInv /\ TypeOK
  BY DEF IInv
<1>g. \A u \in Threads, c \in Buffers : (Local(u, c)' <=> Local(u, c)) /\ (Live(c)' <=> Live(c))
  BY DEF Local, Live, Busy
<1>1. TypeOK'
  BY <1>a DEF TypeOK
<1>2. PcInv'
  BY <1>a DEF PcInv, Busy
<1>3. CountInv'
  <2>1. \A c \in Buffers : Existing(c)' = Existing(c)
    BY <1>g, Same
  <2>2. \A c \in Buffers : Live(c)' => buf'[c].ref = Existing(c)'
    <3> SUFFICES ASSUME NEW c \in Buffers, Live(c)' PROVE buf'[c].ref = Existing(c)'
      OBVIOUS
    <3>1. Live(c)
      BY DEF Live
    <3> QED
      BY <3>1, <2>1 DEF IInv, CountInv
  <2>3. \A u \in Threads, c \in Buffers : refs'[u][c] > 0 \/ Local(u, c)' => Live(c)'
    BY <1>g DEF IInv, CountInv
  <2> QED
    BY <2>2, <2>3 DEF CountInv
<1>4. HoldInv'
  BY <1>a DEF IInv, HoldInv, PcInv, Busy
<1>5. LocalInv'
  BY <1>g DEF IInv, LocalInv
<1>k. \A u \in Threads : pc'[u] = pc[u] \/ (pc[u].op \notin Busy /\ pc'[u].op \notin Busy)
  OBVIOUS
<1>6. FreeInv'
  BY <1>2, <1>k, QuietFree
<1>7. HeapInv' /\ ListInv' /\ PoolInv'
  BY <1>k, Quiet
<1> QED
  BY <1>1, <1>2, <1>3, <1>4, <1>5, <1>6, <1>7 DEF IInv

\* sa_buffer_make_writable and sa_buffer_realloc, up to the copy.
LEMMA MakeWritableOK ==
    ASSUME IInv, NEW t \in Threads, NEW b \in Buffers, NEW kind \in {"plain", "realloc"},
           MakeWritable(t, b, kind)
    PROVE  IInv'
<1>a. pc \in [Threads -> Call] /\ buf \in [Buffers -> Buffer]
  BY DEF IInv, TypeOK
<1>b. pc[t].op = "idle" /\ refs[t][b] > 0 /\ refs' = refs /\ list' = list /\ pool' = pool
  BY DEF MakeWritable, Holds
<1>1. CASE /\ InPlace(b, kind) /\ pc' = [pc EXCEPT ![t] = At("write", b)]
           /\ buf' = buf /\ heap' = heap
  <2>1. buf[b].ref = 1
    BY <1>1 DEF InPlace, IsWritable
  <2>2. /\ pc' \in [Threads -> Call] /\ \A u \in Threads \ {t} : pc'[u] = pc[u]
        /\ pc'[t].op = "write" /\ pc'[t].b = b
    BY <1>1, <1>a, AtType DEF Ops
  <2>3. pc[t].op \notin Busy /\ pc'[t].op \notin Busy
    BY <2>2, <1>b DEF Busy
  <2> QED
    BY <2>1, <2>2, <2>3, <1>1, <1>a, <1>b, Onward
<1>2. CASE \E n \in Unused :
              /\ buf' = [buf EXCEPT ![n] = Create(kind)]
              /\ heap' = heap \cup {n}
              /\ pc' = [pc EXCEPT ![t] = [op |-> "copy", b |-> b, new |-> n, free |-> "nothing"]]
  <2>1. PICK n \in Unused :
              /\ buf' = [buf EXCEPT ![n] = Create(kind)]
              /\ heap' = heap \cup {n}
              /\ pc' = [pc EXCEPT ![t] = [op |-> "copy", b |-> b, new |-> n, free |-> "nothing"]]
    BY <1>2
  <2>2. n \in Buffers /\ buf[n].st = "unused"
    BY DEF Unused
  <2>3. [op |-> "copy", b |-> b, new |-> n, free |-> "nothing"] \in Call
    BY <2>2 DEF Call, Ops
  <2>4. /\ pc' \in [Threads -> Call] /\ \A u \in Threads \ {t} : pc'[u] = pc[u]
        /\ pc'[t].op = "copy" /\ pc'[t].b = b /\ pc'[t].new = n /\ pc'[t].free = "nothing"
    BY <2>1, <2>3, <1>a
  <2>5. kind \in {"pool", "plain", "realloc"} /\ kind # "pool"
    OBVIOUS
  <2> QED
    BY <2>1, <2>2, <2>4, <2>5, <1>b, NewBuffer
<1> QED
  BY <1>1, <1>2 DEF MakeWritable

\* The contents are copied.
LEMMA CopyOK ==
    ASSUME IInv, NEW t \in Threads, Copy(t)
    PROVE  IInv'
<1>a. pc \in [Threads -> Call] /\ buf \in [Buffers -> Buffer]
  BY DEF IInv, TypeOK
<1>0. PICK b \in Buffers, n \in Buffers : b = pc[t].b /\ n = pc[t].new /\ refs[t][b] > 0
  BY DEF Copy, IInv, PcInv, HoldInv
<1>1. /\ pc[t].op = "copy" /\ buf' = [buf EXCEPT ![n].val = buf[b].val]
      /\ pc' = [pc EXCEPT ![t].op = "swap"]
      /\ heap' = heap /\ refs' = refs /\ list' = list /\ pool' = pool
  BY <1>0 DEF Copy
<1>2. /\ buf' \in [Buffers -> Buffer]
      /\ \A c \in Buffers : /\ buf'[c].st = buf[c].st /\ buf'[c].kind = buf[c].kind
                            /\ buf'[c].struct = buf[c].struct /\ buf'[c].ref = buf[c].ref
  BY <1>1, <1>a DEF Buffer
<1>3. /\ pc' \in [Threads -> Call] /\ \A u \in Threads \ {t} : pc'[u] = pc[u]
      /\ pc'[t].op = "swap" /\ pc'[t].b = b /\ pc'[t].new = n
  BY <1>0, <1>1, <1>a DEF Call, Ops
<1>4. pc[t].op \notin Busy /\ pc'[t].op \notin Busy
  BY <1>1, <1>3 DEF Busy
<1> QED
  BY <1>0, <1>1, <1>2, <1>3, <1>4, Onward

\* The block is written.
LEMMA WriteOK ==
    ASSUME IInv, NEW t \in Threads, Write(t)
    PROVE  IInv'
<1>a. pc \in [Threads -> Call] /\ buf \in [Buffers -> Buffer]
  BY DEF IInv, TypeOK
<1>0. PICK b \in Buffers : b = pc[t].b
  BY DEF Write, IInv, PcInv
<1>1. /\ pc[t].op = "write" /\ pc' = [pc EXCEPT ![t] = Idle]
      /\ buf' = [buf EXCEPT ![b].val = IF @ < MaxWrites THEN @ + 1 ELSE @]
      /\ heap' = heap /\ refs' = refs /\ list' = list /\ pool' = pool
  BY <1>0 DEF Write
<1>2. /\ buf' \in [Buffers -> Buffer]
      /\ \A c \in Buffers : /\ buf'[c].st = buf[c].st /\ buf'[c].kind = buf[c].kind
                            /\ buf'[c].struct = buf[c].struct /\ buf'[c].ref = buf[c].ref
  <2>1. buf[b].val \in 0..MaxWrites
    BY <1>a DEF Buffer
  <2>2. PICK w \in 0..MaxWrites : w = IF buf[b].val < MaxWrites THEN buf[b].val + 1 ELSE buf[b].val
    BY <2>1, ConstantsAssumption
  <2>3. buf' = [buf EXCEPT ![b].val = w]
    BY <2>2, <1>1
  <2> QED
    BY <2>3, <1>a DEF Buffer
<1>3. /\ pc' \in [Threads -> Call] /\ \A u \in Threads \ {t} : pc'[u] = pc[u]
      /\ pc'[t].op = "idle"
  BY <1>1, <1>a, IdleType
<1>4. pc[t].op \notin Busy /\ pc'[t].op \notin Busy
  BY <1>1, <1>3 DEF Busy
<1> QED
  BY <1>1, <1>2, <1>3, <1>4, Onward

----------------------------------------------------------------------------
(* The pool.                                                               *)

\* A step that no reference takes part in.
LEMMA RefFrame ==
    ASSUME IInv, refs' = refs,
           \A u \in Threads : \/ pc'[u] = pc[u]
                              \/ /\ pc[u].op \notin {"count", "write", "drop", "copy", "swap"}
                                 /\ pc'[u].op \notin {"count", "write", "drop", "copy", "swap"},
           \A c \in Buffers : /\ Live(c)' => Live(c) /\ buf'[c].ref = buf[c].ref
                              /\ Live(c) /\ buf[c].ref # 0 => buf'[c] = buf[c]
    PROVE  CountInv' /\ HoldInv' /\ LocalInv' /\ PcInv /\ TypeOK
<1>a. PcInv /\ TypeOK /\ CountInv /\ HoldInv /\ LocalInv
  BY DEF IInv
<1>1. \A u \in Threads, c \in Buffers : Local(u, c)' <=> Local(u, c)
  BY DEF Local
<1>2. \A u \in Threads, c \in Buffers :
        refs[u][c] > 0 \/ Local(u, c) => Live(c) /\ buf'[c] = buf[c] /\ Live(c)'
  <2> SUFFICES ASSUME NEW u \in Threads, NEW c \in Buffers, refs[u][c] > 0 \/ Local(u, c)
               PROVE  Live(c) /\ buf'[c] = buf[c] /\ Live(c)'
    OBVIOUS
  <2>1. CASE refs[u][c] > 0
    <3>1. Live(c) /\ buf[c].ref \in 1..MaxRefs
      BY <2>1, Referenced
    <3>2. buf[c].ref # 0
      BY <3>1, ConstantsAssumption
    <3> QED
      BY <3>1, <3>2 DEF Live
  <2>2. CASE Local(u, c)
    <3>1. Live(c) /\ buf[c].ref = 1
      BY <2>2, OneLocal
    <3> QED
      BY <3>1 DEF Live
  <2> QED
    BY <2>1, <2>2
<1>3. \A c \in Buffers : Existing(c)' = Existing(c)
  BY <1>1, Same
<1>4. CountInv'
  <2>1. \A c \in Buffers : Live(c)' => buf'[c].ref = Existing(c)'
    BY <1>3, <1>a DEF CountInv
  <2>2. \A u \in Threads, c \in Buffers : refs'[u][c] > 0 \/ Local(u, c)' => Live(c)'
    BY <1>1, <1>2
  <2> QED
    BY <2>1, <2>2 DEF CountInv
<1>5. HoldInv'
  <2> SUFFICES ASSUME NEW u \in Threads
               PROVE  /\ pc'[u].op \in {"write", "drop", "copy", "swap"} => refs'[u][pc'[u].b] > 0
                      /\ pc'[u].op = "write" => buf'[pc'[u].b].ref = 1
                      /\ pc'[u].op = "count" => buf'[pc'[u].b].kind = "pool"
    BY DEF HoldInv
  <2>1. CASE pc'[u].op \in {"count", "write", "drop", "copy", "swap"}
    <3>1. pc'[u] = pc[u]
      BY <2>1
    <3>2. pc[u].b \in Buffers
      BY <2>1, <3>1, <1>a DEF PcInv
    <3>3. refs[u][pc[u].b] > 0 \/ Local(u, pc[u].b)
      BY <2>1, <3>1, <1>a DEF HoldInv, Local
    <3>4. buf'[pc[u].b] = buf[pc[u].b]
      BY <3>2, <3>3, <1>2
    <3> QED
      BY <3>1, <3>4, <1>a DEF HoldInv
  <2>2. CASE pc'[u].op \notin {"count", "write", "drop", "copy", "swap"}
    BY <2>2
  <2> QED
    BY <2>1, <2>2
<1>6. LocalInv'
  BY <1>1, <1>a DEF LocalInv
<1> QED
  BY <1>a, <1>4, <1>5, <1>6

\* sa_buffer_pool_get counts the reference of the pool.
LEMMA GetCountOK ==
    ASSUME IInv, NEW t \in Threads, GetCount(t)
    PROVE  IInv'
<1>a. /\ refs \in [Threads -> [Buffers -> 0..MaxRefs]] /\ PcInv /\ TypeOK /\ PoolInv
      /\ pc \in [Threads -> Call] /\ buf \in [Buffers -> Buffer]
  BY DEF IInv, TypeOK
<1>0. PICK b \in Buffers : b = pc[t].b /\ buf[b].kind = "pool" /\ Local(t, b)
  BY DEF GetCount, IInv, PcInv, HoldInv, Local
<1>1. /\ pc[t].op = "count" /\ heap' = heap /\ list' = list /\ buf' = buf
      /\ refs' = [refs EXCEPT ![t][b] = @ + 1] /\ pool' = [pool EXCEPT !.ref = @ + 1]
      /\ pc' = [pc EXCEPT ![t] = Idle]
  BY <1>0 DEF GetCount
<1>b. /\ Live(b) /\ Existing(b) = 1 /\ buf[b].ref = 1
      /\ \A u \in Threads : refs[u][b] = 0 /\ (u # t => ~Local(u, b))
  BY <1>0, OneLocal
<1>c. /\ pc' \in [Threads -> Call] /\ \A u \in Threads \ {t} : pc'[u] = pc[u]
      /\ pc'[t].op = "idle"
  BY <1>1, <1>a, IdleType
<1>e. refs[t][b] + 1 = 1 /\ 1 \in 0..MaxRefs
  BY <1>b, ConstantsAssumption
<1>f. refs' \in [Threads -> [Buffers -> 0..MaxRefs]]
  BY <1>1, <1>a, <1>e
<1>g. \A u \in Threads, c \in Buffers :
        /\ refs'[u][c] = IF u = t /\ c = b THEN 1 ELSE refs[u][c]
        /\ Local(u, c)' <=> Local(u, c) /\ ~(u = t /\ c = b)
        /\ Live(c)' <=> Live(c)
  BY <1>0, <1>1, <1>a, <1>c, <1>e DEF Local, Live
<1>9. PoolInv' /\ pool' \in [life : {"owned", "given_up", "freed"},
                             ref : 0..(Cardinality(Buffers) + Cardinality(Threads) + 1)]
  <2>1. pool.life = "owned"
    BY <1>1, <1>a DEF PoolInv
  <2>2. pool \in [life : {"owned", "given_up", "freed"},
                  ref : 0..(Cardinality(Buffers) + Cardinality(Threads) + 1)]
    BY <1>a DEF TypeOK
  <2>3. pool'.life = "owned" /\ pool'.ref = pool.ref + 1 /\ pool' = [life |-> "owned", ref |-> pool'.ref]
    BY <1>1, <2>1, <2>2
  <2>4. Doing("count_down")' = Doing("count_down")
    BY <1>1, <1>c DEF Doing
  <2>5. b \notin Out /\ Out' = Out \cup {b}
    <3>1. b \notin Out
      BY <1>0, <1>1 DEF Out, Doing
    <3>2. \A c \in Buffers : c # b => (c \in Out' <=> c \in Out)
      BY <1>0, <1>1, <1>c DEF Out, Doing
    <3>3. b \in Out'
      <4>1. \A u \in Threads : pc'[u].op = "count" => pc'[u].b # b
        BY <1>b, <1>c DEF Local
      <4> QED
        BY <4>1, <1>0, <1>1, <1>b DEF Out, Doing, Live
    <3>4. Out \subseteq Buffers /\ Out' \subseteq Buffers
      BY DEF Out
    <3> QED
      BY <3>1, <3>2, <3>3, <3>4
  <2>6. Cardinality(Out') = Cardinality(Out) + 1 /\ Cardinality(Out) \in Nat
    BY <2>5, PoolSets, FS_AddElement
  <2>7. Cardinality(Doing("count_down")) \in Nat
    BY PoolSets
  <2>8. pool.ref = 1 + Cardinality(Out) + Cardinality(Doing("count_down"))
    BY <2>1, <1>a DEF PoolInv, PoolRef
  <2>9. PoolRef' = 1 + Cardinality(Out') + Cardinality(Doing("count_down"))
    BY <2>3, <2>4 DEF PoolRef
  <2>10. pool'.ref = PoolRef' /\ pool'.ref # 0
    BY <2>3, <2>6, <2>7, <2>8, <2>9
  <2>11. \A u \in Threads : pc'[u].op # "pool_free"
    BY <2>1, <1>a, <1>c DEF PoolInv
  <2> QED
    BY <2>3, <2>10, <2>11, PoolRefType DEF PoolInv
<1>2. TypeOK'
  BY <1>1, <1>9, <1>a, <1>c, <1>f DEF TypeOK
<1>p. PcInv'
  BY <1>a, <1>c DEF PcInv
<1>3. CountInv'
  <2>2. \A c \in Buffers : c # b => Existing(c)' = Existing(c)
    BY <1>g, Same
  <2>5. Existing(b)' = 1
    <3>1. \A u \in Threads : refs'[u][b] = (IF u = t THEN 1 ELSE 0) /\ ~Local(u, b)'
      BY <1>g, <1>b
    <3> QED
      BY <3>1, Settled
  <2>3. \A c \in Buffers : Live(c)' => buf'[c].ref = Existing(c)'
    BY <2>2, <2>5, <1>1, <1>b, <1>g DEF IInv, CountInv
  <2>4. \A u \in Threads, c \in Buffers : refs'[u][c] > 0 \/ Local(u, c)' => Live(c)'
    BY <1>b, <1>g DEF IInv, CountInv
  <2> QED
    BY <2>3, <2>4 DEF CountInv
<1>4. HoldInv'
  BY <1>1, <1>a, <1>b, <1>c, <1>g DEF IInv, HoldInv, PcInv
<1>5. LocalInv'
  BY <1>b, <1>g DEF IInv, LocalInv
<1>6. FreeInv'
  <2>1. \A u \in Threads : (Freeing(u)' <=> Freeing(u)) /\ (Freeing(u) => pc'[u] = pc[u])
    BY <1>1, <1>c DEF Freeing
  <2> QED
    BY <1>p, <1>1, <1>g, <2>1, FreeFrame
<1>7. HeapInv'
  <2>1. \A u \in Threads :
          /\ Freer(u)' <=> Freer(u)
          /\ Freer(u) => pc'[u].b = pc[u].b /\ (pc'[u].op = "push" <=> pc[u].op = "push")
    BY <1>1, <1>c DEF Freer
  <2> QED
    BY <1>1, <1>g, <2>1, HeapFrame
<1>8. ListInv'
  BY <1>1, ListFrame
<1> QED
  BY <1>2, <1>p, <1>3, <1>4, <1>5, <1>6, <1>7, <1>8, <1>9 DEF IInv

\* The order in which a buffer goes back.
LEMMA ReleaseIs ==
    /\ ReleaseOrder[1] = "push" /\ After("push") = "count_down" /\ After("count_down") = "struct"
BY DEF ReleaseOrder, After

\* The callback of the buffer: a block of the pool starts its way back, any
\* other is freed.
LEMMA FreeDataOK ==
    ASSUME IInv, NEW t \in Threads, FreeData(t)
    PROVE  IInv'
<1>a. /\ PcInv /\ TypeOK /\ FreeInv /\ HeapInv /\ heap \subseteq Buffers
      /\ pc \in [Threads -> Call] /\ buf \in [Buffers -> Buffer]
  BY DEF IInv, TypeOK
<1>0. PICK b \in Buffers : /\ b = pc[t].b /\ Live(b) /\ buf[b].ref = 0
                           /\ \A u \in Threads \ {t} : Freeing(u) => pc[u].b # b
  BY <1>a DEF FreeData, PcInv, FreeInv, Freeing
<1>1. /\ pc[t].op = "free" /\ heap' = heap /\ list' = list /\ refs' = refs /\ pool' = pool
      /\ buf' = IF buf[b].kind = "pool" THEN buf ELSE [buf EXCEPT ![b].st = "gone"]
      /\ pc' = [pc EXCEPT ![t].free = IF buf[b].struct = "entry" THEN "nothing" ELSE "struct",
                          ![t].op = IF buf[b].kind = "pool" THEN "push" ELSE "struct"]
  BY <1>0, ReleaseIs DEF FreeData, NoFree
<1>b. /\ buf' \in [Buffers -> Buffer]
      /\ \A c \in Buffers :
            /\ c # b \/ buf[b].kind = "pool" => buf'[c] = buf[c]
            /\ buf'[c].st = IF c = b /\ buf[b].kind # "pool" THEN "gone" ELSE buf[c].st
            /\ buf'[c].kind = buf[c].kind /\ buf'[c].struct = buf[c].struct
            /\ buf'[c].ref = buf[c].ref
  BY <1>1, <1>a DEF Buffer
<1>c. /\ pc' \in [Threads -> Call] /\ \A u \in Threads \ {t} : pc'[u] = pc[u]
      /\ pc'[t].op = IF buf[b].kind = "pool" THEN "push" ELSE "struct"
      /\ pc'[t].free = IF buf[b].struct = "entry" THEN "nothing" ELSE "struct"
      /\ pc'[t].b = b
  <2>1. /\ (IF buf[b].kind = "pool" THEN "push" ELSE "struct") \in Ops
        /\ (IF buf[b].struct = "entry" THEN "nothing" ELSE "struct") \in {"struct", "nothing"}
    BY DEF Ops
  <2>2. PICK op \in Ops, f \in {"struct", "nothing"} :
          /\ op = IF buf[b].kind = "pool" THEN "push" ELSE "struct"
          /\ f = IF buf[b].struct = "entry" THEN "nothing" ELSE "struct"
    BY <2>1
  <2>3. pc' = [pc EXCEPT ![t].free = f, ![t].op = op]
    BY <2>2, <1>1
  <2>4. /\ pc' \in [Threads -> Call] /\ \A u \in Threads \ {t} : pc'[u] = pc[u]
        /\ pc'[t].op = op /\ pc'[t].free = f /\ pc'[t].b = pc[t].b
    BY <2>3, <1>a DEF Call
  <2> QED
    BY <2>2, <2>4, <1>0
<1>d. \A c \in Buffers : Live(c)' <=> Live(c) /\ ~(c = b /\ buf[b].kind # "pool")
  BY <1>0, <1>b DEF Live
<1>e. b \in Buffers /\ (buf[b].struct = "heap" <=> buf[b].struct # "entry")
  BY <1>a DEF Buffer
<1>2. TypeOK'
  BY <1>1, <1>a, <1>b, <1>c DEF TypeOK
<1>3. PcInv'
  BY <1>a, <1>c DEF PcInv
<1>4. CountInv' /\ HoldInv' /\ LocalInv'
  <2>1. \A u \in Threads : \/ pc'[u] = pc[u]
                           \/ /\ pc[u].op \notin {"count", "write", "drop", "copy", "swap"}
                              /\ pc'[u].op \notin {"count", "write", "drop", "copy", "swap"}
    BY <1>1, <1>c
  <2>2. \A c \in Buffers : /\ Live(c)' => Live(c) /\ buf'[c].ref = buf[c].ref
                           /\ Live(c) /\ buf[c].ref # 0 => buf'[c] = buf[c]
    BY <1>0, <1>b, <1>d
  <2> QED
    BY <2>1, <2>2, <1>1, RefFrame
<1>5. FreeInv'
  <2>1. \A u \in Threads \ {t} : (Freeing(u)' <=> Freeing(u)) /\ pc'[u] = pc[u]
    BY <1>c DEF Freeing
  <2>2. Freeing(t)' <=> buf[b].kind = "pool"
    BY <1>c DEF Freeing
  <2>3. \A u \in Threads \ {t} : Freeing(u) => pc[u].b \in Buffers \ {b} /\ Live(pc[u].b)
                                               /\ buf[pc[u].b].ref = 0
    BY <1>0, <1>a DEF FreeInv, PcInv, Freeing
  <2>4. \A u \in Threads : Freeing(u)' => buf'[pc'[u].b].st = "live" /\ buf'[pc'[u].b].ref = 0
    BY <2>1, <2>2, <2>3, <1>0, <1>b, <1>c DEF Live
  <2>5. \A u, v \in Threads : Freeing(u)' /\ Freeing(v)' /\ u # v => pc'[u].b # pc'[v].b
    BY <2>1, <2>2, <2>3, <1>a, <1>c DEF FreeInv
  <2>6. \A u \in Threads : pc'[u].op = "push" =>
          /\ buf'[pc'[u].b].kind = "pool"
          /\ pc'[u].free = "nothing" <=> buf'[pc'[u].b].struct = "entry"
    <3> SUFFICES ASSUME NEW u \in Threads, pc'[u].op = "push"
                 PROVE  /\ buf'[pc'[u].b].kind = "pool"
                        /\ pc'[u].free = "nothing" <=> buf'[pc'[u].b].struct = "entry"
      OBVIOUS
    <3>1. CASE u = t
      BY <3>1, <1>b, <1>c
    <3>2. CASE u # t
      BY <3>2, <2>1, <2>3, <1>a, <1>b DEF FreeInv, Freeing
    <3> QED
      BY <3>1, <3>2
  <2>7. ASSUME NEW c \in Buffers, Live(c)', buf'[c].ref = 0
        PROVE  \E u \in Threads : Freeing(u)' /\ pc'[u].b = c
    <3>1. CASE c = b
      BY <3>1, <2>2, <2>7, <1>c, <1>d
    <3>2. CASE c # b
      <4>1. PICK u \in Threads : Freeing(u) /\ pc[u].b = c
        BY <3>2, <2>7, <1>a, <1>b, <1>d DEF FreeInv
      <4> QED
        BY <4>1, <3>2, <2>1, <1>0
    <3> QED
      BY <3>1, <3>2
  <2> QED
    BY <2>4, <2>5, <2>6, <2>7 DEF FreeInv, Live
<1>6. HeapInv'
  <2>1. \A u \in Threads \ {t} : (Freer(u)' <=> Freer(u)) /\ pc'[u] = pc[u]
    BY <1>c DEF Freer
  <2>2. ~Freer(t) /\ (Freer(t)' <=> buf[b].struct = "heap")
    BY <1>1, <1>c, <1>e DEF Freer
  <2>3. \A u \in Threads \ {t} : Freer(u) /\ buf[b].struct = "heap" => pc[u].b # b
    BY <1>0, <1>a DEF HeapInv, Freer, Freeing
  <2>4. \A c \in Buffers : Live(c)' /\ buf'[c].struct = "heap" => c \in heap'
    BY <1>1, <1>a, <1>b, <1>d DEF HeapInv
  <2>5. \A u \in Threads : Freer(u)' => pc'[u].b \in heap'
    BY <2>1, <2>2, <1>0, <1>1, <1>a, <1>c DEF HeapInv
  <2>6. ASSUME NEW u \in Threads, Freer(u)', pc'[u].op # "push"
        PROVE  ~(buf'[pc'[u].b].st = "live" /\ buf'[pc'[u].b].struct = "heap")
    <3>1. CASE u = t
      BY <3>1, <2>6, <1>b, <1>c
    <3>2. CASE u # t
      <4>1. Freer(u) /\ pc'[u] = pc[u] /\ pc[u].b \in Buffers
        BY <3>2, <2>1, <2>6, <1>a DEF HeapInv
      <4> QED
        BY <4>1, <2>6, <1>a, <1>b DEF HeapInv, Live
    <3> QED
      BY <3>1, <3>2
  <2>7. \A u, v \in Threads : Freer(u)' /\ Freer(v)' /\ u # v => pc'[u].b # pc'[v].b
    BY <2>1, <2>2, <2>3, <1>a, <1>c DEF HeapInv
  <2>8. ASSUME NEW c \in heap'
        PROVE  \/ Live(c)' /\ buf'[c].struct = "heap"
               \/ \E u \in Threads : Freer(u)' /\ pc'[u].b = c
    <3>0. c \in Buffers /\ c \in heap
      BY <1>1, <1>a
    <3>1. CASE c = b /\ buf[b].struct = "heap"
      BY <3>1, <2>2, <1>c
    <3>2. CASE ~(c = b /\ buf[b].struct = "heap")
      <4>1. CASE Live(c) /\ buf[c].struct = "heap"
        BY <4>1, <3>0, <3>2, <1>b, <1>d
      <4>2. CASE \E u \in Threads : Freer(u) /\ pc[u].b = c
        BY <4>2, <2>1, <2>2
      <4> QED
        BY <4>1, <4>2, <3>0, <1>a DEF HeapInv
    <3> QED
      BY <3>1, <3>2
  <2>9. \A c \in heap' : buf'[c].st # "unused"
    BY <1>1, <1>a, <1>b DEF HeapInv
  <2> QED
    BY <2>4, <2>5, <2>6, <2>7, <2>8, <2>9 DEF HeapInv, Live
<1>7. ListInv'
  BY <1>0, <1>1, <1>b, ListFrame DEF Live
<1>8. PoolInv'
  <2>1. \A u \in Threads : /\ pc'[u].op = "count" <=> pc[u].op = "count"
                           /\ pc'[u].op = "count" => pc'[u].b = pc[u].b
                           /\ pc'[u].op = "count_down" <=> pc[u].op = "count_down"
                           /\ pc'[u].op = "pool_free" <=> pc[u].op = "pool_free"
    BY <1>1, <1>c
  <2>2. Out' = Out
    BY <2>1, <1>b DEF Out, Doing
  <2>3. \A c \in Buffers : buf'[c].kind = "pool" =>
          buf[c].kind = "pool" /\ (buf[c].st = "gone" => buf'[c].st = "gone")
    BY <1>b
  <2> QED
    BY <2>1, <2>2, <2>3, <1>1, PoolFrame
<1> QED
  BY <1>2, <1>3, <1>4, <1>5, <1>6, <1>7, <1>8 DEF IInv

\* The buffer is back in the list.
LEMMA PushOK ==
    ASSUME IInv, NEW t \in Threads, Push(t)
    PROVE  IInv'
<1>a. /\ PcInv /\ TypeOK /\ FreeInv /\ HeapInv /\ heap \subseteq Buffers /\ PoolInv
      /\ pc \in [Threads -> Call] /\ buf \in [Buffers -> Buffer] /\ list \in Seq(Buffers)
  BY DEF IInv, TypeOK
<1>0. PICK b \in Buffers : /\ b = pc[t].b /\ Live(b) /\ buf[b].ref = 0 /\ buf[b].kind = "pool"
                           /\ pc[t].free = "nothing" <=> buf[b].struct = "entry"
                           /\ \A u \in Threads \ {t} : Freeing(u) => pc[u].b # b
  BY <1>a DEF Push, PcInv, FreeInv, Freeing
<1>1. /\ pc[t].op = "push" /\ heap' = heap /\ refs' = refs /\ pool' = pool
      /\ list' = <<b>> \o list /\ buf' = [buf EXCEPT ![b].st = "free"]
      /\ pc' = [pc EXCEPT ![t].op = "count_down"]
  BY <1>0, ReleaseIs DEF Push
<1>b. /\ buf' \in [Buffers -> Buffer]
      /\ \A c \in Buffers :
            /\ c # b => buf'[c] = buf[c]
            /\ buf'[c].st = IF c = b THEN "free" ELSE buf[c].st
            /\ buf'[c].kind = buf[c].kind /\ buf'[c].struct = buf[c].struct
            /\ buf'[c].ref = buf[c].ref
  BY <1>1, <1>a DEF Buffer
<1>c. /\ pc' \in [Threads -> Call] /\ \A u \in Threads \ {t} : pc'[u] = pc[u]
      /\ pc'[t].op = "count_down" /\ pc'[t].free = pc[t].free /\ pc'[t].b = b
  BY <1>0, <1>1, <1>a DEF Call, Ops
<1>d. \A c \in Buffers : Live(c)' <=> Live(c) /\ c # b
  BY <1>0, <1>b DEF Live
<1>e. /\ buf[b].struct = "heap" <=> buf[b].struct # "entry"
      /\ pc[t].free = "struct" <=> pc[t].free # "nothing"
  BY <1>a DEF Buffer, Call
<1>2. TypeOK'
  <2>1. list' \in Seq(Buffers)
    BY <1>1, <1>a
  <2> QED
    BY <2>1, <1>1, <1>a, <1>b, <1>c DEF TypeOK
<1>3. PcInv'
  BY <1>a, <1>c DEF PcInv
<1>4. CountInv' /\ HoldInv' /\ LocalInv'
  <2>1. \A u \in Threads : \/ pc'[u] = pc[u]
                           \/ /\ pc[u].op \notin {"count", "write", "drop", "copy", "swap"}
                              /\ pc'[u].op \notin {"count", "write", "drop", "copy", "swap"}
    BY <1>1, <1>c
  <2>2. \A c \in Buffers : /\ Live(c)' => Live(c) /\ buf'[c].ref = buf[c].ref
                           /\ Live(c) /\ buf[c].ref # 0 => buf'[c] = buf[c]
    BY <1>0, <1>b, <1>d
  <2> QED
    BY <2>1, <2>2, <1>1, RefFrame
<1>5. FreeInv'
  <2>1. \A u \in Threads \ {t} : (Freeing(u)' <=> Freeing(u)) /\ pc'[u] = pc[u]
    BY <1>c DEF Freeing
  <2>2. ~Freeing(t)'
    BY <1>c DEF Freeing
  <2>3. \A u \in Threads \ {t} : Freeing(u) => pc[u].b \in Buffers \ {b} /\ Live(pc[u].b)
                                               /\ buf[pc[u].b].ref = 0
    BY <1>0, <1>a DEF FreeInv, PcInv, Freeing
  <2>4. \A u \in Threads : Freeing(u)' => buf'[pc'[u].b].st = "live" /\ buf'[pc'[u].b].ref = 0
    BY <2>1, <2>2, <2>3, <1>b DEF Live
  <2>5. \A u, v \in Threads : Freeing(u)' /\ Freeing(v)' /\ u # v => pc'[u].b # pc'[v].b
    BY <2>1, <2>2, <1>a DEF FreeInv
  <2>6. \A u \in Threads : pc'[u].op = "push" =>
          /\ buf'[pc'[u].b].kind = "pool"
          /\ pc'[u].free = "nothing" <=> buf'[pc'[u].b].struct = "entry"
    <3> SUFFICES ASSUME NEW u \in Threads, pc'[u].op = "push"
                 PROVE  /\ buf'[pc'[u].b].kind = "pool"
                        /\ pc'[u].free = "nothing" <=> buf'[pc'[u].b].struct = "entry"
      OBVIOUS
    <3>1. u # t
      BY <1>c
    <3> QED
      BY <3>1, <2>1, <2>3, <1>a, <1>b DEF FreeInv, Freeing
  <2>7. ASSUME NEW c \in Buffers, Live(c)', buf'[c].ref = 0
        PROVE  \E u \in Threads : Freeing(u)' /\ pc'[u].b = c
    <3>1. c # b /\ Live(c) /\ buf[c].ref = 0
      BY <2>7, <1>b, <1>d
    <3>2. PICK u \in Threads : Freeing(u) /\ pc[u].b = c
      BY <3>1, <1>a DEF FreeInv
    <3> QED
      BY <3>1, <3>2, <2>1, <1>0
  <2> QED
    BY <2>4, <2>5, <2>6, <2>7 DEF FreeInv, Live
<1>6. HeapInv'
  <2>1. \A u \in Threads : (Freer(u)' <=> Freer(u)) /\ pc'[u].b = pc[u].b
    BY <1>0, <1>1, <1>c DEF Freer
  <2>2. \A u \in Threads \ {t} : pc'[u] = pc[u]
    BY <1>c
  <2>4. \A c \in Buffers : Live(c)' /\ buf'[c].struct = "heap" => c \in heap'
    BY <1>1, <1>a, <1>b, <1>d DEF HeapInv
  <2>5. \A u \in Threads : Freer(u)' => pc'[u].b \in heap'
    BY <2>1, <1>1, <1>a DEF HeapInv
  <2>6. ASSUME NEW u \in Threads, Freer(u)', pc'[u].op # "push"
        PROVE  ~(buf'[pc'[u].b].st = "live" /\ buf'[pc'[u].b].struct = "heap")
    <3>1. CASE u = t
      BY <3>1, <2>6, <1>b, <1>c
    <3>2. CASE u # t
      <4>1. Freer(u) /\ pc'[u] = pc[u] /\ pc[u].b \in Buffers
        BY <3>2, <2>1, <2>2, <2>6, <1>a DEF HeapInv
      <4> QED
        BY <4>1, <2>6, <1>a, <1>b DEF HeapInv, Live
    <3> QED
      BY <3>1, <3>2
  <2>7. \A u, v \in Threads : Freer(u)' /\ Freer(v)' /\ u # v => pc'[u].b # pc'[v].b
    BY <2>1, <1>a DEF HeapInv
  <2>8. ASSUME NEW c \in heap'
        PROVE  \/ Live(c)' /\ buf'[c].struct = "heap"
               \/ \E u \in Threads : Freer(u)' /\ pc'[u].b = c
    <3>0. c \in Buffers /\ c \in heap
      BY <1>1, <1>a
    <3>1. CASE c = b /\ buf[b].struct = "heap"
      <4>1. Freer(t)
        BY <3>1, <1>0, <1>1, <1>e DEF Freer
      <4> QED
        BY <4>1, <3>1, <2>1, <1>c
    <3>2. CASE ~(c = b /\ buf[b].struct = "heap")
      <4>1. CASE Live(c) /\ buf[c].struct = "heap"
        BY <4>1, <3>0, <3>2, <1>b, <1>d
      <4>2. CASE \E u \in Threads : Freer(u) /\ pc[u].b = c
        BY <4>2, <2>1
      <4> QED
        BY <4>1, <4>2, <3>0, <1>a DEF HeapInv
    <3> QED
      BY <3>1, <3>2
  <2>9. \A c \in heap' : buf'[c].st # "unused"
    BY <1>1, <1>a, <1>b DEF HeapInv
  <2> QED
    BY <2>4, <2>5, <2>6, <2>7, <2>8, <2>9 DEF HeapInv, Live
<1>7. ListInv'
  <2>0. /\ \A c \in Buffers : buf[c].st = "free" <=> c \in Listed
        /\ \A i, j \in DOMAIN list : list[i] = list[j] => i = j
        /\ \A c \in Buffers : buf[c].st = "free" => buf[c].kind = "pool"
        /\ \A c \in Buffers : buf[c].st = "unused" => buf[c].kind # "pool"
    BY DEF IInv, ListInv
  <2>1. Len(list) \in Nat /\ DOMAIN list = 1..Len(list)
    BY <1>a
  <2>2. /\ DOMAIN list' = 1..(Len(list) + 1) /\ list'[1] = b
        /\ \A i \in 2..(Len(list) + 1) : list'[i] = list[i - 1]
    BY <1>1, <1>a, <2>1
  <2>3. b \notin Listed
    BY <2>0, <1>0 DEF Live
  <2>4. \A i \in 2..(Len(list) + 1) : i - 1 \in DOMAIN list /\ list'[i] \in Listed
    BY <2>1, <2>2 DEF Listed
  <2>5. \A i, j \in DOMAIN list' : list'[i] = list'[j] => i = j
    <3> SUFFICES ASSUME NEW i \in DOMAIN list', NEW j \in DOMAIN list', list'[i] = list'[j]
                 PROVE  i = j
      OBVIOUS
    <3>1. /\ i = 1 \/ i \in 2..(Len(list) + 1)
          /\ j = 1 \/ j \in 2..(Len(list) + 1)
      BY <2>1, <2>2
    <3>2. CASE i = 1 \/ j = 1
      BY <3>1, <3>2, <2>2, <2>3, <2>4
    <3>3. CASE i \in 2..(Len(list) + 1) /\ j \in 2..(Len(list) + 1)
      <4>1. i - 1 = j - 1
        BY <3>3, <2>0, <2>2, <2>4
      <4> QED
        BY <4>1, <3>3, <2>1
    <3> QED
      BY <3>1, <3>2, <3>3
  <2>6. Listed' = Listed \cup {b}
    <3>1. \A c \in Listed' : c \in Listed \cup {b}
      <4> SUFFICES ASSUME NEW i \in DOMAIN list' PROVE list'[i] \in Listed \cup {b}
        BY DEF Listed
      <4>1. i = 1 \/ i \in 2..(Len(list) + 1)
        BY <2>1, <2>2
      <4> QED
        BY <4>1, <2>2, <2>4
    <3>2. b \in Listed'
      BY <2>1, <2>2 DEF Listed
    <3>3. ASSUME NEW i \in DOMAIN list PROVE list[i] \in Listed'
      <4>1. i + 1 \in DOMAIN list' /\ list'[i + 1] = list[i]
        BY <2>1, <2>2
      <4> QED
        BY <4>1 DEF Listed
    <3>4. \A c \in Listed : c \in Listed'
      BY <3>3 DEF Listed
    <3> QED
      BY <3>1, <3>2, <3>4
  <2> QED
    BY <2>0, <2>5, <2>6, <1>0, <1>b DEF ListInv
<1>8. PoolInv'
  <2>1. pool.life # "freed"
    BY <1>0, <1>a DEF PoolInv, Live
  <2>2. \A u \in Threads : /\ pc'[u].op = "count" <=> pc[u].op = "count"
                           /\ pc'[u].op = "count" => pc'[u].b = pc[u].b
                           /\ pc'[u].op = "count_down" <=> pc[u].op = "count_down" \/ u = t
                           /\ pc'[u].op = "pool_free" <=> pc[u].op = "pool_free"
    BY <1>1, <1>c
  <2>3. \A u \in Threads : pc[u].op = "count" => pc[u].b # b
    <3> SUFFICES ASSUME NEW u \in Threads, Local(u, b) PROVE FALSE
      BY DEF Local
    <3> QED
      BY <1>0, OneLocal
  <2>4. b \in Out /\ Out' = Out \ {b}
    <3>1. b \in Out
      BY <2>3, <1>0 DEF Out, Doing, Live
    <3>2. \A c \in Buffers : c \in Out' <=> c \in Out /\ c # b
      BY <2>2, <1>0, <1>b DEF Out, Doing
    <3>3. Out \subseteq Buffers /\ Out' \subseteq Buffers
      BY DEF Out
    <3> QED
      BY <3>1, <3>2, <3>3
  <2>5. t \notin Doing("count_down") /\ Doing("count_down")' = Doing("count_down") \cup {t}
    BY <2>2, <1>1 DEF Doing
  <2>6. /\ Cardinality(Out') = Cardinality(Out) - 1 /\ Cardinality(Out) \in Nat
        /\ Cardinality(Doing("count_down")') = Cardinality(Doing("count_down")) + 1
        /\ Cardinality(Doing("count_down")) \in Nat
    BY <2>4, <2>5, PoolSets, FS_AddElement, FS_RemoveElement
  <2>7. PICK i \in {0, 1} : i = IF pool.life = "owned" THEN 1 ELSE 0
    OBVIOUS
  <2>8. /\ PoolRef = i + Cardinality(Out) + Cardinality(Doing("count_down"))
        /\ PoolRef' = i + Cardinality(Out') + Cardinality(Doing("count_down")')
    BY <2>7, <1>1 DEF PoolRef
  <2>9. PoolRef' = PoolRef
    BY <2>6, <2>8
  <2> QED
    BY <2>1, <2>2, <2>9, <1>1, <1>a DEF PoolInv
<1> QED
  BY <1>2, <1>3, <1>4, <1>5, <1>6, <1>7, <1>8 DEF IInv

\* The pool loses the reference of a buffer that is back.
LEMMA CountDownOK ==
    ASSUME IInv, NEW t \in Threads, CountDown(t)
    PROVE  IInv'
<1>a. /\ PcInv /\ TypeOK /\ PoolInv /\ pc \in [Threads -> Call]
      /\ pool \in [life : {"owned", "given_up", "freed"},
                   ref : 0..(Cardinality(Buffers) + Cardinality(Threads) + 1)]
  BY DEF IInv, TypeOK
<1>1. /\ pc[t].op = "count_down" /\ heap' = heap /\ refs' = refs /\ list' = list /\ buf' = buf
      /\ pool' = [pool EXCEPT !.ref = @ - 1]
      /\ pc' = [pc EXCEPT ![t].op = IF pool.ref = 1 THEN "pool_free" ELSE "struct"]
  BY ReleaseIs DEF CountDown, LastRef
<1>c. /\ pc' \in [Threads -> Call] /\ \A u \in Threads \ {t} : pc'[u] = pc[u]
      /\ pc'[t].op = IF pool.ref = 1 THEN "pool_free" ELSE "struct"
      /\ pc'[t].free = pc[t].free /\ pc'[t].b = pc[t].b
  <2>1. PICK op \in Ops : op = IF pool.ref = 1 THEN "pool_free" ELSE "struct"
    BY DEF Ops
  <2>2. pc' = [pc EXCEPT ![t].op = op]
    BY <2>1, <1>1
  <2> QED
    BY <2>1, <2>2, <1>a, SMTT(40) DEF Call
<1>d. pool'.life = pool.life /\ pool'.ref = pool.ref - 1
      /\ pool' = [life |-> pool.life, ref |-> pool'.ref]
  BY <1>1, <1>a
<1>9. PoolInv' /\ pool' \in [life : {"owned", "given_up", "freed"},
                             ref : 0..(Cardinality(Buffers) + Cardinality(Threads) + 1)]
  <2>1. pool.life # "freed" /\ pool.life \in {"owned", "given_up"}
    BY <1>1, <1>a DEF PoolInv
  <2>2. \A u \in Threads : /\ pc'[u].op = "count" <=> pc[u].op = "count"
                           /\ pc'[u].op = "count" => pc'[u].b = pc[u].b
                           /\ pc'[u].op = "count_down" <=> pc[u].op = "count_down" /\ u # t
    BY <1>1, <1>c
  <2>3. Out' = Out
    BY <2>2, <1>1 DEF Out, Doing
  <2>4. t \in Doing("count_down") /\ Doing("count_down")' = Doing("count_down") \ {t}
    BY <2>2, <1>1 DEF Doing
  <2>5. /\ Cardinality(Doing("count_down")') = Cardinality(Doing("count_down")) - 1
        /\ Cardinality(Doing("count_down")') \in Nat
        /\ Cardinality(Out) \in Nat /\ Cardinality(Doing("count_down")) \in Nat
    BY <2>4, PoolSets, FS_RemoveElement
  <2>6. PICK i \in {0, 1} : i = IF pool.life = "owned" THEN 1 ELSE 0
    OBVIOUS
  <2>7. /\ PoolRef = i + Cardinality(Out) + Cardinality(Doing("count_down"))
        /\ PoolRef' = i + Cardinality(Out) + Cardinality(Doing("count_down")')
    BY <2>3, <2>6, <1>d DEF PoolRef
  <2>8. pool.ref = PoolRef /\ pool'.ref = PoolRef'
    BY <2>1, <2>5, <2>7, <1>a, <1>d DEF PoolInv
  <2>9. pool.ref # 0 /\ (pool.ref = 1 => i = 0) /\ (pool'.ref = 0 <=> pool.ref = 1)
    BY <2>5, <2>7, <2>8
  <2>10. \A u \in Threads : pc[u].op # "pool_free"
    BY <2>9, <1>a DEF PoolInv
  <2>11. \A u \in Threads : pc'[u].op = "pool_free" <=> u = t /\ pool.ref = 1
    BY <2>10, <1>c
  <2>12. pool.ref = 1 => pool.life = "given_up"
    BY <2>1, <2>6, <2>9
  <2> QED
    BY <2>1, <2>2, <2>8, <2>9, <2>11, <2>12, <1>a, <1>d, PoolRefType DEF PoolInv
<1>2. TypeOK'
  BY <1>1, <1>9, <1>a, <1>c DEF TypeOK
<1>3. PcInv'
  BY <1>a, <1>c DEF PcInv
<1>k. \A c \in Buffers : Live(c)' <=> Live(c)
  BY <1>1 DEF Live
<1>4. CountInv' /\ HoldInv' /\ LocalInv'
  <2>1. \A u \in Threads : \/ pc'[u] = pc[u]
                           \/ /\ pc[u].op \notin {"count", "write", "drop", "copy", "swap"}
                              /\ pc'[u].op \notin {"count", "write", "drop", "copy", "swap"}
    BY <1>1, <1>c
  <2> QED
    BY <2>1, <1>1, <1>k, RefFrame
<1>5. FreeInv'
  <2>1. \A u \in Threads : (Freeing(u)' <=> Freeing(u)) /\ (Freeing(u) => pc'[u] = pc[u])
    BY <1>1, <1>c DEF Freeing
  <2> QED
    BY <1>3, <1>1, <1>k, <2>1, FreeFrame
<1>6. HeapInv'
  <2>1. \A u \in Threads :
          /\ Freer(u)' <=> Freer(u)
          /\ Freer(u) => pc'[u].b = pc[u].b /\ (pc'[u].op = "push" <=> pc[u].op = "push")
    BY <1>1, <1>c DEF Freer
  <2> QED
    BY <1>1, <1>k, <2>1, HeapFrame
<1>7. ListInv'
  BY <1>1, ListFrame
<1> QED
  BY <1>2, <1>3, <1>4, <1>5, <1>6, <1>7, <1>9 DEF IInv

\* The list is emptied: its buffers are gone, the others as they were.
LEMMA FlushStep ==
    ASSUME IInv, buf' = Flushed, list' = <<>>
    PROVE  /\ buf' \in [Buffers -> Buffer] /\ list' \in Seq(Buffers) /\ ListInv'
           /\ \A c \in Buffers :
                /\ buf'[c].st = IF buf[c].st = "free" THEN "gone" ELSE buf[c].st
                /\ buf'[c].kind = buf[c].kind /\ buf'[c].struct = buf[c].struct
                /\ buf'[c].ref = buf[c].ref
                /\ buf[c].st # "free" => buf'[c] = buf[c]
                /\ Live(c)' <=> Live(c)
<1>a. buf \in [Buffers -> Buffer] /\ ListInv
  BY DEF IInv, TypeOK
<1>1. ASSUME NEW c \in Buffers
      PROVE  /\ buf'[c] \in Buffer
             /\ buf'[c].st = IF buf[c].st = "free" THEN "gone" ELSE buf[c].st
             /\ buf'[c].kind = buf[c].kind /\ buf'[c].struct = buf[c].struct
             /\ buf'[c].ref = buf[c].ref
             /\ buf[c].st # "free" => buf'[c] = buf[c]
  <2>1. buf'[c] = IF c \in Listed THEN [buf[c] EXCEPT !.st = "gone"] ELSE buf[c]
    BY DEF Flushed
  <2>2. c \in Listed <=> buf[c].st = "free"
    BY <1>a DEF ListInv
  <2>3. buf[c] \in Buffer
    BY <1>a
  <2>4. CASE c \in Listed
    <3>1. buf'[c] = [buf[c] EXCEPT !.st = "gone"]
      BY <2>1, <2>4
    <3> QED
      BY <3>1, <2>2, <2>3, <2>4 DEF Buffer
  <2>5. CASE c \notin Listed
    BY <2>1, <2>2, <2>3, <2>5
  <2> QED
    BY <2>4, <2>5
<1>2. buf' \in [Buffers -> Buffer]
  BY <1>1 DEF Flushed
<1>3. list' \in Seq(Buffers) /\ DOMAIN list' = {} /\ Listed' = {}
  <2>1. list' \in Seq(Buffers)
    OBVIOUS
  <2>2. DOMAIN list' = {}
    OBVIOUS
  <2> QED
    BY <2>1, <2>2 DEF Listed
<1>4. ListInv'
  BY <1>1, <1>3, <1>a DEF ListInv
<1> QED
  BY <1>1, <1>2, <1>3, <1>4 DEF Live

\* The last reference of the pool is gone: it is freed with its list.
LEMMA PoolFreeOK ==
    ASSUME IInv, NEW t \in Threads, PoolFree(t)
    PROVE  IInv'
<1>a. /\ PcInv /\ TypeOK /\ PoolInv /\ ListInv /\ pc \in [Threads -> Call]
      /\ pool \in [life : {"owned", "given_up", "freed"},
                   ref : 0..(Cardinality(Buffers) + Cardinality(Threads) + 1)]
  BY DEF IInv, TypeOK
<1>1. /\ pc[t].op = "pool_free" /\ heap' = heap /\ refs' = refs /\ list' = <<>> /\ buf' = Flushed
      /\ pool' = [pool EXCEPT !.life = "freed"] /\ pc' = [pc EXCEPT ![t].op = "struct"]
  BY ReleaseIs DEF PoolFree
<1>b. /\ buf' \in [Buffers -> Buffer] /\ list' \in Seq(Buffers) /\ ListInv'
      /\ \A c \in Buffers :
            /\ buf'[c].st = IF buf[c].st = "free" THEN "gone" ELSE buf[c].st
            /\ buf'[c].kind = buf[c].kind /\ buf'[c].struct = buf[c].struct
            /\ buf'[c].ref = buf[c].ref
            /\ buf[c].st # "free" => buf'[c] = buf[c]
            /\ Live(c)' <=> Live(c)
  BY <1>1, FlushStep
<1>c. /\ pc' \in [Threads -> Call] /\ \A u \in Threads \ {t} : pc'[u] = pc[u]
      /\ pc'[t].op = "struct" /\ pc'[t].free = pc[t].free /\ pc'[t].b = pc[t].b
  BY <1>1, <1>a DEF Call, Ops
<1>d. pool'.life = "freed" /\ pool'.ref = pool.ref
      /\ pool' \in [life : {"owned", "given_up", "freed"},
                    ref : 0..(Cardinality(Buffers) + Cardinality(Threads) + 1)]
  BY <1>1, <1>a
<1>2. TypeOK'
  BY <1>1, <1>a, <1>b, <1>c, <1>d DEF TypeOK
<1>3. PcInv'
  BY <1>a, <1>c DEF PcInv
<1>4. CountInv' /\ HoldInv' /\ LocalInv'
  <2>1. \A u \in Threads : \/ pc'[u] = pc[u]
                           \/ /\ pc[u].op \notin {"count", "write", "drop", "copy", "swap"}
                              /\ pc'[u].op \notin {"count", "write", "drop", "copy", "swap"}
    BY <1>1, <1>c
  <2>2. \A c \in Buffers : /\ Live(c)' => Live(c) /\ buf'[c].ref = buf[c].ref
                           /\ Live(c) /\ buf[c].ref # 0 => buf'[c] = buf[c]
    BY <1>b DEF Live
  <2> QED
    BY <2>1, <2>2, <1>1, RefFrame
<1>5. FreeInv'
  <2>1. \A u \in Threads : (Freeing(u)' <=> Freeing(u)) /\ (Freeing(u) => pc'[u] = pc[u])
    BY <1>1, <1>c DEF Freeing
  <2> QED
    BY <1>3, <1>b, <2>1, FreeFrame
<1>6. HeapInv'
  <2>1. \A u \in Threads :
          /\ Freer(u)' <=> Freer(u)
          /\ Freer(u) => pc'[u].b = pc[u].b /\ (pc'[u].op = "push" <=> pc[u].op = "push")
    BY <1>1, <1>c DEF Freer
  <2> QED
    BY <1>1, <1>b, <2>1, HeapFrame
<1>9. PoolInv'
  <2>1. pool.life = "given_up" /\ pool.ref = 0 /\ \A u \in Threads : pc[u].op # "count"
    BY <1>1, <1>a DEF PoolInv
  <2>2. Cardinality(Out) = 0 /\ Cardinality(Doing("count_down")) = 0
    <3>1. 0 = 0 + Cardinality(Out) + Cardinality(Doing("count_down"))
      BY <2>1, <1>a DEF PoolInv, PoolRef
    <3>2. Cardinality(Out) \in Nat /\ Cardinality(Doing("count_down")) \in Nat
      BY PoolSets
    <3> QED
      BY <3>1, <3>2
  <2>3. Out = {} /\ Doing("count_down") = {}
    BY <2>2, PoolSets, FS_EmptySet
  <2>4. \A u \in Threads : pc'[u].op \notin {"count_down", "pool_free", "count"}
    BY <2>1, <2>3, <1>1, <1>a, <1>c DEF PoolInv, Doing
  <2>5. ASSUME NEW c \in Buffers, buf'[c].kind = "pool" PROVE buf'[c].st = "gone"
    <3>1. buf[c].kind = "pool" /\ buf[c].st # "unused"
      BY <2>5, <1>a, <1>b DEF ListInv
    <3>2. buf[c].st # "live"
      BY <2>1, <2>3, <3>1 DEF Out, Doing
    <3>3. buf[c].st \in {"unused", "live", "free", "gone"}
      BY <1>a DEF TypeOK, Buffer
    <3> QED
      BY <3>1, <3>2, <3>3, <1>b
  <2> QED
    BY <2>1, <2>4, <2>5, <1>d DEF PoolInv
<1> QED
  BY <1>2, <1>3, <1>4, <1>5, <1>6, <1>b, <1>9 DEF IInv

\* The sa_buffer_t is freed if it is on the heap.
LEMMA FreeStructOK ==
    ASSUME IInv, NEW t \in Threads, FreeStruct(t)
    PROVE  IInv'
<1>a. /\ PcInv /\ TypeOK /\ HeapInv /\ heap \subseteq Buffers /\ pc \in [Threads -> Call]
  BY DEF IInv, TypeOK
<1>1. /\ pc[t].op = "struct" /\ refs' = refs /\ list' = list /\ buf' = buf /\ pool' = pool
      /\ heap' = (IF pc[t].free = "nothing" THEN heap ELSE heap \ {pc[t].b})
      /\ pc' = [pc EXCEPT ![t] = Idle]
  BY DEF FreeStruct
<1>c. /\ pc' \in [Threads -> Call] /\ \A u \in Threads \ {t} : pc'[u] = pc[u]
      /\ pc'[t].op = "idle"
  BY <1>1, <1>a, IdleType
<1>k. \A c \in Buffers : Live(c)' <=> Live(c)
  BY <1>1 DEF Live
<1>2. TypeOK'
  <2>1. heap' \subseteq Buffers
    BY <1>1, <1>a
  <2> QED
    BY <2>1, <1>1, <1>a, <1>c DEF TypeOK
<1>3. PcInv'
  BY <1>a, <1>c DEF PcInv
<1>4. CountInv' /\ HoldInv' /\ LocalInv'
  <2>1. \A u \in Threads : \/ pc'[u] = pc[u]
                           \/ /\ pc[u].op \notin {"count", "write", "drop", "copy", "swap"}
                              /\ pc'[u].op \notin {"count", "write", "drop", "copy", "swap"}
    BY <1>1, <1>c
  <2> QED
    BY <2>1, <1>1, <1>k, RefFrame
<1>5. FreeInv'
  <2>1. \A u \in Threads : (Freeing(u)' <=> Freeing(u)) /\ (Freeing(u) => pc'[u] = pc[u])
    BY <1>1, <1>c DEF Freeing
  <2> QED
    BY <1>3, <1>1, <1>k, <2>1, FreeFrame
<1>6. HeapInv'
  <2>1. \A u \in Threads \ {t} : (Freer(u)' <=> Freer(u)) /\ pc'[u] = pc[u]
    BY <1>c DEF Freer
  <2>2. ~Freer(t)' /\ (Freer(t) <=> pc[t].free = "struct")
        /\ (pc[t].free = "struct" <=> pc[t].free # "nothing")
    BY <1>1, <1>a, <1>c DEF Freer, Call
  <2>3. \A c \in Buffers : Live(c)' /\ buf'[c].struct = "heap" => c \in heap'
    BY <2>2, <1>1, <1>a, <1>k DEF HeapInv
  <2>4. \A u \in Threads : Freer(u)' => pc'[u].b \in heap'
    BY <2>1, <2>2, <1>1, <1>a DEF HeapInv
  <2>5. \A u \in Threads : Freer(u)' /\ pc'[u].op # "push" =>
          ~(buf'[pc'[u].b].st = "live" /\ buf'[pc'[u].b].struct = "heap")
    BY <2>1, <2>2, <1>1, <1>a DEF HeapInv, Live
  <2>6. \A u, v \in Threads : Freer(u)' /\ Freer(v)' /\ u # v => pc'[u].b # pc'[v].b
    BY <2>1, <2>2, <1>a DEF HeapInv
  <2>7. ASSUME NEW c \in heap'
        PROVE  \/ Live(c)' /\ buf'[c].struct = "heap"
               \/ \E u \in Threads : Freer(u)' /\ pc'[u].b = c
    <3>0. c \in Buffers /\ c \in heap
      BY <1>1, <1>a
    <3>1. CASE Live(c) /\ buf[c].struct = "heap"
      BY <3>1, <3>0, <1>1, <1>k
    <3>2. CASE \E u \in Threads : Freer(u) /\ pc[u].b = c
      <4>1. PICK u \in Threads : Freer(u) /\ pc[u].b = c
        BY <3>2
      <4>2. u # t
        BY <4>1, <2>2, <1>1
      <4> QED
        BY <4>1, <4>2, <2>1
    <3> QED
      BY <3>0, <3>1, <3>2, <1>a DEF HeapInv
  <2>8. \A c \in heap' : buf'[c].st # "unused"
    BY <1>1, <1>a DEF HeapInv
  <2> QED
    BY <2>3, <2>4, <2>5, <2>6, <2>7, <2>8 DEF HeapInv, Live
<1>7. ListInv'
  BY <1>1, ListFrame
<1>8. PoolInv'
  <2>1. \A u \in Threads : /\ pc'[u].op = "count" <=> pc[u].op = "count"
                           /\ pc'[u].op = "count" => pc'[u].b = pc[u].b
                           /\ pc'[u].op = "count_down" <=> pc[u].op = "count_down"
                           /\ pc'[u].op = "pool_free" <=> pc[u].op = "pool_free"
    BY <1>1, <1>c
  <2>2. Out' = Out
    BY <2>1, <1>1 DEF Out, Doing
  <2> QED
    BY <2>1, <2>2, <1>1, PoolFrame
<1> QED
  BY <1>2, <1>3, <1>4, <1>5, <1>6, <1>7, <1>8 DEF IInv

\* The caller gives the pool up.
LEMMA UninitOK ==
    ASSUME IInv, NEW t \in Threads, Uninit(t)
    PROVE  IInv'
<1>a. /\ PcInv /\ TypeOK /\ PoolInv /\ ListInv /\ pc \in [Threads -> Call]
      /\ pool \in [life : {"owned", "given_up", "freed"},
                   ref : 0..(Cardinality(Buffers) + Cardinality(Threads) + 1)]
  BY DEF IInv, TypeOK
<1>1. /\ pc[t].op = "idle" /\ pool.life = "owned" /\ \A u \in Threads : pc[u].op # "count"
      /\ heap' = heap /\ refs' = refs /\ list' = <<>> /\ buf' = Flushed
      /\ pool' = [pool EXCEPT !.life = "given_up"]
      /\ pc' = [pc EXCEPT ![t] = At("count_down", None)]
  BY DEF Uninit
<1>b. /\ buf' \in [Buffers -> Buffer] /\ list' \in Seq(Buffers) /\ ListInv'
      /\ \A c \in Buffers :
            /\ buf'[c].st = IF buf[c].st = "free" THEN "gone" ELSE buf[c].st
            /\ buf'[c].kind = buf[c].kind /\ buf'[c].struct = buf[c].struct
            /\ buf'[c].ref = buf[c].ref
            /\ buf[c].st # "free" => buf'[c] = buf[c]
            /\ Live(c)' <=> Live(c)
  BY <1>1, FlushStep
<1>c. /\ pc' \in [Threads -> Call] /\ \A u \in Threads \ {t} : pc'[u] = pc[u]
      /\ pc'[t].op = "count_down" /\ pc'[t].free = "nothing"
  BY <1>1, <1>a, AtType DEF Ops
<1>d. pool'.life = "given_up" /\ pool'.ref = pool.ref
      /\ pool' \in [life : {"owned", "given_up", "freed"},
                    ref : 0..(Cardinality(Buffers) + Cardinality(Threads) + 1)]
  BY <1>1, <1>a
<1>2. TypeOK'
  BY <1>1, <1>a, <1>b, <1>c, <1>d DEF TypeOK
<1>3. PcInv'
  BY <1>a, <1>c DEF PcInv
<1>4. CountInv' /\ HoldInv' /\ LocalInv'
  <2>1. \A u \in Threads : \/ pc'[u] = pc[u]
                           \/ /\ pc[u].op \notin {"count", "write", "drop", "copy", "swap"}
                              /\ pc'[u].op \notin {"count", "write", "drop", "copy", "swap"}
    BY <1>1, <1>c
  <2>2. \A c \in Buffers : /\ Live(c)' => Live(c) /\ buf'[c].ref = buf[c].ref
                           /\ Live(c) /\ buf[c].ref # 0 => buf'[c] = buf[c]
    BY <1>b DEF Live
  <2> QED
    BY <2>1, <2>2, <1>1, RefFrame
<1>5. FreeInv'
  <2>1. \A u \in Threads : (Freeing(u)' <=> Freeing(u)) /\ (Freeing(u) => pc'[u] = pc[u])
    BY <1>1, <1>c DEF Freeing
  <2> QED
    BY <1>3, <1>b, <2>1, FreeFrame
<1>6. HeapInv'
  <2>1. \A u \in Threads :
          /\ Freer(u)' <=> Freer(u)
          /\ Freer(u) => pc'[u].b = pc[u].b /\ (pc'[u].op = "push" <=> pc[u].op = "push")
    BY <1>1, <1>c DEF Freer
  <2> QED
    BY <1>1, <1>b, <2>1, HeapFrame
<1>9. PoolInv'
  <2>1. \A u \in Threads : /\ pc'[u].op # "count"
                           /\ pc'[u].op = "count_down" <=> pc[u].op = "count_down" \/ u = t
                           /\ pc'[u].op = "pool_free" <=> pc[u].op = "pool_free"
    BY <1>1, <1>c
  <2>2. Out' = Out
    BY <2>1, <1>1, <1>b DEF Out, Doing
  <2>3. t \notin Doing("count_down") /\ Doing("count_down")' = Doing("count_down") \cup {t}
    BY <2>1, <1>1 DEF Doing
  <2>4. /\ Cardinality(Doing("count_down")') = Cardinality(Doing("count_down")) + 1
        /\ Cardinality(Doing("count_down")) \in Nat /\ Cardinality(Out) \in Nat
    BY <2>3, PoolSets, FS_AddElement
  <2>5. /\ pool.ref = 1 + Cardinality(Out) + Cardinality(Doing("count_down"))
        /\ PoolRef' = 0 + Cardinality(Out) + Cardinality(Doing("count_down")')
    BY <2>2, <1>1, <1>a, <1>d DEF PoolInv, PoolRef
  <2>6. pool'.ref = PoolRef' /\ pool'.ref # 0
    BY <2>4, <2>5, <1>d
  <2>7. \A u \in Threads : pc[u].op # "pool_free"
    BY <1>1, <1>a DEF PoolInv
  <2> QED
    BY <2>1, <2>6, <2>7, <1>d DEF PoolInv
<1> QED
  BY <1>2, <1>3, <1>4, <1>5, <1>6, <1>b, <1>9 DEF IInv

----------------------------------------------------------------------------
(* The theorems.                                                           *)

\* The first state.
LEMMA InitOK ==
    ASSUME Init
    PROVE  IInv
<1>1. \A u \in Threads : pc[u] = Idle /\ Idle \in Call /\ pc[u].op = "idle"
  BY IdleType DEF Init
<1>2. \A b \in Buffers : /\ buf[b].st = "unused" /\ buf[b].kind = "plain" /\ ~Live(b)
                         /\ \A u \in Threads : refs[u][b] = 0 /\ ~Local(u, b)
  BY <1>1 DEF Init, Live, Local
<1>3. Out = {} /\ Doing("count_down") = {}
  BY <1>1, <1>2 DEF Out, Doing
<1>4. Cardinality(Out) = 0 /\ Cardinality(Doing("count_down")) = 0
  BY <1>3, FS_EmptySet
<1>5. pool.life = "owned" /\ pool.ref = 1 /\ list = <<>> /\ heap = {}
      /\ pool = [life |-> "owned", ref |-> 1]
  BY DEF Init
<1>6. PoolRef = 1
  BY <1>4, <1>5 DEF PoolRef
<1>7. TypeOK
  <2>1. buf \in [Buffers -> Buffer]
    <3>1. [st |-> "unused", kind |-> "plain", struct |-> "heap", ref |-> 0, val |-> 0] \in Buffer
      BY ConstantsAssumption DEF Buffer
    <3> QED
      BY <3>1 DEF Init
  <2>2. refs \in [Threads -> [Buffers -> 0..MaxRefs]]
    <3>1. 0 \in 0..MaxRefs
      BY ConstantsAssumption
    <3> QED
      BY <3>1 DEF Init
  <2>3. list \in Seq(Buffers)
    BY <1>5
  <2>4. pool \in [life : {"owned", "given_up", "freed"},
                  ref : 0..(Cardinality(Buffers) + Cardinality(Threads) + 1)]
    <3>1. 1 \in 0..(Cardinality(Buffers) + Cardinality(Threads) + 1)
      BY <1>6, PoolRefType
    <3> QED
      BY <3>1, <1>5
  <2>5. pc \in [Threads -> Call]
    BY IdleType DEF Init
  <2> QED
    BY <2>1, <2>2, <2>3, <2>4, <2>5, <1>5 DEF TypeOK
<1>8. PcInv /\ CountInv /\ HoldInv /\ LocalInv
  BY <1>1, <1>2 DEF PcInv, CountInv, HoldInv, LocalInv
<1>9. FreeInv /\ HeapInv
  BY <1>1, <1>2, <1>5 DEF FreeInv, HeapInv, Freeing, Freer
<1>10. ListInv
  <2>1. DOMAIN list = {}
    BY <1>5
  <2> QED
    BY <2>1, <1>2 DEF ListInv, Listed
<1>11. PoolInv
  BY <1>1, <1>5, <1>6 DEF PoolInv
<1> QED
  BY <1>7, <1>8, <1>9, <1>10, <1>11 DEF IInv

\* Every step preserves the invariant.
LEMMA NextOK ==
    ASSUME IInv, [Next]_vars
    PROVE  IInv'
<1>1. CASE UNCHANGED vars
  <2> USE <1>1 DEF vars
  <2>1. \A b : Existing(b)' = Existing(b)
    BY DEF Existing, References, Local
  <2>2. TypeOK' /\ PcInv'
    BY DEF IInv, TypeOK, PcInv
  <2>3. CountInv'
    BY <2>1 DEF IInv, CountInv, Live, Local
  <2>4. HoldInv' /\ LocalInv'
    BY DEF IInv, HoldInv, LocalInv, Local
  <2>5. FreeInv' /\ HeapInv'
    BY DEF IInv, FreeInv, HeapInv, Live, Freeing, Freer
  <2>6. ListInv'
    BY DEF IInv, ListInv, Listed
  <2>7. PoolRef' = PoolRef
    BY DEF PoolRef, Out, Doing
  <2>8. PoolInv'
    BY <2>7 DEF IInv, PoolInv
  <2> QED
    BY <2>2, <2>3, <2>4, <2>5, <2>6, <2>8 DEF IInv
<1>2. ASSUME NEW t \in Threads, Use(t) PROVE IInv'
  <2>1. CASE GetFromList(t) \/ GetNew(t) \/ GetCount(t) \/ Uninit(t)
    BY <2>1, GetFromListOK, GetNewOK, GetCountOK, UninitOK
  <2>2. ASSUME NEW b \in Buffers, Ref(t, b) \/ Unref(t, b) PROVE IInv'
    BY <2>2, RefOK, UnrefOK
  <2>3. ASSUME NEW b \in Buffers, NEW u \in Threads, HandOver(t, u, b) PROVE IInv'
    BY <2>3, HandOverOK
  <2>4. ASSUME NEW b \in Buffers, NEW src \in Buffers, Replace(t, b, src) PROVE IInv'
    BY <2>4, ReplaceOK
  <2>5. ASSUME NEW b \in Buffers, NEW kind \in {"plain", "realloc"}, MakeWritable(t, b, kind)
        PROVE  IInv'
    BY <2>5, MakeWritableOK
  <2>6. CASE Copy(t) \/ Swap(t) \/ Write(t)
    BY <2>6, CopyOK, SwapOK, WriteOK
  <2> QED
    BY <1>2, <2>1, <2>2, <2>3, <2>4, <2>5, <2>6 DEF Use
<1>3. ASSUME NEW t \in Threads, Release(t) PROVE IInv'
  BY <1>3, ReplaceDropOK, FreeDataOK, PushOK, CountDownOK, PoolFreeOK, FreeStructOK DEF Release
<1> QED
  BY <1>1, <1>2, <1>3 DEF Next

\* The invariant holds in every reachable state.
THEOREM Invariance == Spec => []IInv
<1>1. Init => IInv
  BY InitOK
<1>2. IInv /\ [Next]_vars => IInv'
  BY NextOK
<1> QED
  BY <1>1, <1>2, PTL DEF Spec

\* The counts are exact and no thread touches a block, a heap structure or
\* the pool after it was freed, however many threads share the pool.
THEOREM SafeToUse == Spec => []NoUseAfterFree
<1>1. IInv => NoUseAfterFree
  <2> SUFFICES ASSUME IInv PROVE NoUseAfterFree
    OBVIOUS
  <2>0. /\ TypeOK /\ CountInv /\ HoldInv /\ PcInv /\ FreeInv /\ HeapInv /\ PoolInv
    BY DEF IInv
  <2>1. RefCountsExact
    BY <2>0 DEF CountInv, PoolInv, PoolRef, RefCountsExact, Live
  <2>2. \A t \in Threads, b \in Buffers : refs[t][b] > 0 => buf[b].st = "live"
    BY <2>0 DEF CountInv, Live
  <2>3. \A t \in Doing("push") \cup Doing("count_down") \cup Doing("count") : pool.life # "freed"
    BY <2>0 DEF Doing, PoolInv, FreeInv, PcInv, Freeing, Live
  <2>4. \A t \in Doing("pool_free") :
          pool.life = "given_up" /\ \A u \in Threads \ {t} : pc[u].op # "pool_free"
    BY <2>0 DEF Doing, PoolInv
  <2>5. \A t \in Doing("struct") : pc[t].free = "struct" => pc[t].b \in heap
    BY <2>0 DEF Doing, HeapInv, Freer
  <2>6. \A b \in Buffers : buf[b].st = "live" /\ buf[b].struct = "heap" => b \in heap
    BY <2>0 DEF HeapInv, Live
  <2> QED
    BY <2>0, <2>1, <2>2, <2>3, <2>4, <2>5, <2>6 DEF NoUseAfterFree
<1> QED
  BY <1>1, Invariance, PTL

\* When the pool is given up and no reference is left, the pool, its blocks
\* and the heap structures are freed, whichever thread was last.
THEOREM AllFreed == Spec => []NothingLeaked
<1>1. IInv => NothingLeaked
  <2> SUFFICES ASSUME IInv PROVE NothingLeaked
    OBVIOUS
  <2>0. /\ TypeOK /\ CountInv /\ FreeInv /\ HeapInv /\ PoolInv /\ ListInv
    BY DEF IInv
  <2>1. pool.life = "freed" => \A b \in Buffers : buf[b].kind = "pool" => buf[b].st = "gone"
    BY <2>0 DEF PoolInv
  <2>2. ASSUME \A t \in Threads : pc[t] = Idle,
               \A t \in Threads, b \in Buffers : refs[t][b] = 0,
               pool.life # "owned"
        PROVE  /\ pool.life = "freed" /\ heap = {}
               /\ \A b \in Buffers : buf[b].st \in {"unused", "gone"}
    <3>1. \A t \in Threads : pc[t].op = "idle"
      BY <2>2, IdleType
    <3>2. ASSUME NEW b \in Buffers PROVE ~Live(b)
      <4>1. \A u \in Threads : refs[u][b] = 0 /\ ~Local(u, b)
        BY <2>2, <3>1 DEF Local
      <4>2. Existing(b) = 0
        BY <4>1, NoReference
      <4> QED
        BY <4>2, <3>1, <2>0 DEF CountInv, FreeInv, Freeing
    <3>3. Out = {} /\ Doing("count_down") = {}
      BY <3>1, <3>2 DEF Out, Doing, Live
    <3>4. PoolRef = 0
      <4>1. Cardinality(Out) = 0 /\ Cardinality(Doing("count_down")) = 0
        BY <3>3, FS_EmptySet
      <4> QED
        BY <4>1, <2>2 DEF PoolRef
    <3>5. pool.life = "freed"
      BY <3>1, <3>4, <2>0 DEF PoolInv
    <3>6. heap = {}
      BY <3>1, <3>2, <2>0 DEF HeapInv, Freer, TypeOK
    <3>7. ASSUME NEW b \in Buffers PROVE buf[b].st \in {"unused", "gone"}
      <4>1. buf[b].st \in {"unused", "live", "free", "gone"}
        BY <2>0 DEF TypeOK, Buffer
      <4>2. buf[b].st # "live"
        BY <3>2 DEF Live
      <4>3. buf[b].st # "free"
        BY <2>0, <2>1, <3>5 DEF ListInv
      <4> QED
        BY <4>1, <4>2, <4>3
    <3> QED
      BY <3>5, <3>6, <3>7
  <2> QED
    BY <2>1, <2>2 DEF NothingLeaked
<1> QED
  BY <1>1, Invariance, PTL

\* A step that changes what a buffer holds is a write or a copy, by the thread
\* that has the one reference to it.
LEMMA WriteStep ==
    ASSUME IInv, Next, NEW b \in Buffers,
           buf[b].st = "live", buf'[b].st = "live", buf'[b].val # buf[b].val
    PROVE  Existing(b) = 1
<1>a. /\ buf \in [Buffers -> Buffer] /\ PcInv /\ HoldInv /\ CountInv /\ ListInv
      /\ list \in Seq(Buffers)
  BY DEF IInv, TypeOK
<1>0. PICK t \in Threads : Use(t) \/ Release(t)
  BY DEF Next
<1>1. buf' # buf
  OBVIOUS
<1>2. ASSUME NEW c \in Buffers, NEW n, buf' = [buf EXCEPT ![c].ref = n] PROVE FALSE
  BY <1>2, <1>a DEF Buffer
<1>3. ASSUME NEW c \in Unused, NEW r, buf' = [buf EXCEPT ![c] = r] PROVE FALSE
  BY <1>3, <1>a DEF Unused
<1>4. CASE GetFromList(t)
  <2>1. PICK c \in Buffers : c = Head(list) /\ c = list[1] /\ 1 \in DOMAIN list
    BY <1>4, <1>a DEF GetFromList
  <2>2. c # b
    BY <2>1, <1>a DEF ListInv, Listed
  <2>3. buf'[b] = buf[b]
    BY <2>1, <2>2, <1>4, <1>a DEF GetFromList
  <2> QED
    BY <2>3
<1>5. CASE GetNew(t)
  BY <1>5, <1>3 DEF GetNew
<1>6. ASSUME NEW c \in Buffers, NEW kind, MakeWritable(t, c, kind) PROVE FALSE
  BY <1>6, <1>1, <1>3 DEF MakeWritable
<1>7. ASSUME NEW c \in Buffers, Drop(t, c) PROVE FALSE
  BY <1>7, <1>2 DEF Drop
<1>8. CASE buf' = Flushed
  <2>1. buf[b].st # "free" => buf'[b] = buf[b]
    BY <1>8, <1>a DEF Flushed, ListInv
  <2> QED
    BY <2>1
<1>9. CASE Copy(t)
  <2>1. PICK n \in Buffers : n = pc[t].new /\ Local(t, n)
    BY <1>9, <1>a DEF Copy, PcInv, Local
  <2>2. buf' = [buf EXCEPT ![n].val = buf[pc[t].b].val]
    BY <2>1, <1>9 DEF Copy
  <2>3. n = b
    BY <2>2, <1>a DEF Buffer
  <2> QED
    BY <2>1, <2>3, OneLocal
<1>10. CASE Write(t)
  <2>1. PICK c \in Buffers : c = pc[t].b
    BY <1>10, <1>a DEF Write, PcInv
  <2>2. PICK w : buf' = [buf EXCEPT ![c].val = w]
    BY <2>1, <1>10 DEF Write
  <2>3. c = b
    BY <2>2, <1>a DEF Buffer
  <2>4. buf[b].ref = 1
    BY <2>1, <2>3, <1>10, <1>a DEF Write, HoldInv
  <2> QED
    BY <2>4, <1>a DEF CountInv, Live
<1>11. CASE FreeData(t)
  <2>1. PICK c \in Buffers : c = pc[t].b
    BY <1>11, <1>a DEF FreeData, PcInv
  <2>2. buf' = [buf EXCEPT ![c].st = "gone"]
    BY <2>1, <1>1, <1>11 DEF FreeData
  <2> QED
    BY <2>2, <1>a DEF Buffer
<1>12. CASE Push(t)
  <2>1. PICK c \in Buffers : c = pc[t].b
    BY <1>12, <1>a DEF Push, PcInv
  <2>2. buf' = [buf EXCEPT ![c].st = "free"]
    BY <2>1, <1>12 DEF Push
  <2> QED
    BY <2>2, <1>a DEF Buffer
<1>13. CASE Uninit(t) \/ PoolFree(t)
  BY <1>13, <1>8 DEF Uninit, PoolFree
<1>14. ASSUME NEW c \in Buffers, Ref(t, c) \/ Unref(t, c) PROVE FALSE
  BY <1>14, <1>2, <1>7 DEF Ref, Unref
<1>15. ASSUME NEW c \in Buffers, NEW u \in Threads, HandOver(t, u, c) PROVE FALSE
  BY <1>15, <1>1 DEF HandOver
<1>16. ASSUME NEW c \in Buffers, NEW src \in Buffers, Replace(t, c, src) PROVE FALSE
  BY <1>16, <1>2 DEF Replace
<1>17. ASSUME ReplaceDrop(t) PROVE FALSE
  BY <1>17, <1>7, <1>a DEF ReplaceDrop, PcInv
<1>18. ASSUME Swap(t) PROVE FALSE
  BY <1>18, <1>7, <1>a DEF Swap, PcInv
<1>19. ASSUME GetCount(t) \/ CountDown(t) \/ FreeStruct(t) PROVE FALSE
  BY <1>19, <1>1 DEF GetCount, CountDown, FreeStruct
<1>20. CASE Use(t)
  BY <1>20, <1>4, <1>5, <1>6, <1>9, <1>10, <1>13, <1>14, <1>15, <1>16, <1>18, <1>19 DEF Use
<1>21. CASE Release(t)
  BY <1>21, <1>11, <1>12, <1>13, <1>17, <1>19 DEF Release
<1> QED
  BY <1>0, <1>20, <1>21

\* A block is written only while one reference to it exists.
THEOREM WrittenByOne == Spec => WriterAlone
<1>1. IInv /\ [Next]_vars =>
        [\A b \in Buffers :
            buf[b].st = "live" /\ buf'[b].st = "live" /\ buf'[b].val # buf[b].val =>
                Existing(b) = 1]_vars
  BY WriteStep
<1> QED
  BY <1>1, Invariance, PTL DEF Spec, WriterAlone
============================================================================
