----------------------------- MODULE BufferPool -----------------------------
(***************************************************************************)
(* Reference-counted buffers and the buffer pool of libsautil (buffer.c).  *)
(* Several threads take buffers from one pool, add and drop references,    *)
(* hand them to each other and make them writable; one of them gives the   *)
(* pool up while buffers are still out.                                    *)
(*                                                                         *)
(* A step is what one mutex section or one atomic operation does.  The     *)
(* first use of a pool buffer has an sa_buffer_t of its own on the heap    *)
(* (pool_alloc_buffer); every later use has the one embedded in its pool   *)
(* entry, which must not be freed by itself (BUFFER_FLAG_NO_FREE).         *)
(***************************************************************************)
EXTENDS Integers, Sequences, FiniteSets

CONSTANTS
    Threads,
    Buffers,   \* the data blocks there is memory for
    MaxRefs,   \* bound on the references to one buffer
    MaxWrites, \* bound on the writes
    None

ASSUME ConstantsAssumption ==
    /\ IsFiniteSet(Threads) /\ IsFiniteSet(Buffers)
    /\ MaxRefs \in Nat \ {0} /\ MaxWrites \in Nat
    /\ None \notin Buffers

VARIABLES
    buf,   \* the buffers
    heap,  \* buffers that have an sa_buffer_t on the heap
    refs,  \* refs[t][b]: references that thread t holds to buffer b
    list,  \* pool->pool
    pool,  \* life: the caller still owns it, gave it up, or it is freed; refcount
    pc     \* what each thread is doing: op, buffer, new buffer, and whether the
           \* sa_buffer_t is freed at the end

vars == <<buf, heap, refs, list, pool, pc>>

At(op, b) == [op |-> op, b |-> b, new |-> None, free |-> "nothing"]

Idle == At("idle", None)

Buffer == [st : {"unused", "live", "free", "gone"}, kind : {"pool", "plain", "realloc"},
           struct : {"heap", "entry"}, ref : 0..MaxRefs, val : 0..MaxWrites]

Ops == {"idle", "count", "drop", "write", "copy", "swap", "free", "push", "count_down",
        "pool_free", "struct"}

Call == [op : Ops, b : Buffers \cup {None}, new : Buffers \cup {None},
         free : {"struct", "nothing"}]

TypeOK ==
    /\ buf \in [Buffers -> Buffer]
    /\ heap \subseteq Buffers
    /\ refs \in [Threads -> [Buffers -> 0..MaxRefs]]
    /\ list \in Seq(Buffers)
    /\ pool \in [life : {"owned", "given_up", "freed"},
                 ref : 0..(Cardinality(Buffers) + Cardinality(Threads) + 1)]
    /\ pc \in [Threads -> Call]

Init ==
    /\ buf = [b \in Buffers |-> [st |-> "unused", kind |-> "plain", struct |-> "heap",
                                 ref |-> 0, val |-> 0]]
    /\ heap = {}
    /\ refs = [t \in Threads |-> [b \in Buffers |-> 0]]
    /\ list = <<>>
    /\ pool = [life |-> "owned", ref |-> 1]
    /\ pc = [t \in Threads |-> Idle]

Holds(t, b) == pc[t].op = "idle" /\ refs[t][b] > 0

Unused == {b \in Buffers : buf[b].st = "unused"}

\* buffer_create for a new block.
Create(kind) == [st |-> "live", kind |-> kind, struct |-> "heap", ref |-> 1, val |-> 0]

(***************************************************************************)
(* sa_buffer_pool_get.  It is not called once the pool is given up.        *)
(***************************************************************************)
GetFromList(t) ==
    /\ pc[t].op = "idle" /\ pool.life = "owned"
    /\ list # <<>>
    /\ LET b == Head(list) IN
       /\ buf' = [buf EXCEPT ![b] = [@ EXCEPT !.st = "live", !.ref = 1, !.struct = "entry"]]
       /\ pc' = [pc EXCEPT ![t] = At("count", b)]
    /\ list' = Tail(list)
    /\ UNCHANGED <<heap, refs, pool>>

GetNew(t) ==
    /\ pc[t].op = "idle" /\ pool.life = "owned"
    /\ list = <<>>
    /\ \E b \in Unused :
        /\ buf' = [buf EXCEPT ![b] = Create("pool")]
        /\ heap' = heap \cup {b}
        /\ pc' = [pc EXCEPT ![t] = At("count", b)]
    /\ UNCHANGED <<refs, list, pool>>

\* The reference of the pool is counted after the mutex is released.
GetCount(t) ==
    /\ pc[t].op = "count"
    /\ pool' = [pool EXCEPT !.ref = @ + 1]
    /\ refs' = [refs EXCEPT ![t][pc[t].b] = @ + 1]
    /\ pc' = [pc EXCEPT ![t] = Idle]
    /\ UNCHANGED <<buf, heap, list>>

(***************************************************************************)
(* References.                                                             *)
(***************************************************************************)
Ref(t, b) ==
    /\ Holds(t, b)
    /\ buf[b].ref < MaxRefs
    /\ buf' = [buf EXCEPT ![b].ref = @ + 1]
    /\ refs' = [refs EXCEPT ![t][b] = @ + 1]
    /\ UNCHANGED <<heap, list, pool, pc>>

\* A reference passed to another thread (in a frame or a job).
HandOver(t, u, b) ==
    /\ t # u /\ Holds(t, b)
    /\ refs' = [refs EXCEPT ![t][b] = @ - 1, ![u][b] = @ + 1]
    /\ UNCHANGED <<buf, heap, list, pool, pc>>

\* atomic_fetch_sub returned 1.
LastRef(n) == n = 1

\* buffer_replace: thread t drops one reference to b.
Drop(t, b) ==
    /\ buf' = [buf EXCEPT ![b].ref = @ - 1]
    /\ pc' = [pc EXCEPT ![t] = IF LastRef(buf[b].ref)
                               THEN At("free", b)
                               ELSE Idle]

Unref(t, b) ==
    /\ Holds(t, b)
    /\ Drop(t, b)
    /\ refs' = [refs EXCEPT ![t][b] = @ - 1]
    /\ UNCHANGED <<heap, list, pool>>

\* sa_buffer_replace with another buffer: first the new reference is taken,
\* then the old one is dropped.  With the same buffer it changes nothing.
Replace(t, dst, src) ==
    /\ Holds(t, dst) /\ Holds(t, src) /\ dst # src
    /\ buf[src].ref < MaxRefs
    /\ buf' = [buf EXCEPT ![src].ref = @ + 1]
    /\ refs' = [refs EXCEPT ![t][src] = @ + 1]
    /\ pc' = [pc EXCEPT ![t] = At("drop", dst)]
    /\ UNCHANGED <<heap, list, pool>>

ReplaceDrop(t) ==
    /\ pc[t].op = "drop"
    /\ Drop(t, pc[t].b)
    /\ refs' = [refs EXCEPT ![t][pc[t].b] = @ - 1]
    /\ UNCHANGED <<heap, list, pool>>

(***************************************************************************)
(* sa_buffer_make_writable, and sa_buffer_realloc to another size, which   *)
(* also needs a block that sa_realloc made.  Both change the block in      *)
(* place when this is the only reference, and copy it otherwise.           *)
(***************************************************************************)
\* Mutant: two references are few enough.
TwoWritable(b) == buf[b].ref <= 2

IsWritable(b) == buf[b].ref = 1

\* kind: what the caller needs, "plain" for sa_buffer_make_writable and
\* "realloc" for sa_buffer_realloc.
InPlace(b, kind) == IsWritable(b) /\ (kind = "realloc" => buf[b].kind = "realloc")

MakeWritable(t, b, kind) ==
    /\ Holds(t, b)
    /\ \/ /\ InPlace(b, kind)
          /\ pc' = [pc EXCEPT ![t] = At("write", b)]
          /\ UNCHANGED <<buf, heap>>
       \/ /\ ~InPlace(b, kind)
          /\ \E n \in Unused :
              /\ buf' = [buf EXCEPT ![n] = Create(kind)]
              /\ heap' = heap \cup {n}
              /\ pc' = [pc EXCEPT ![t] = [op |-> "copy", b |-> b, new |-> n, free |-> "nothing"]]
    /\ UNCHANGED <<refs, list, pool>>

Copy(t) ==
    LET b == pc[t].b
        n == pc[t].new IN
    /\ pc[t].op = "copy"
    /\ buf' = [buf EXCEPT ![n].val = buf[b].val]
    /\ pc' = [pc EXCEPT ![t].op = "swap"]
    /\ UNCHANGED <<heap, refs, list, pool>>

Swap(t) ==
    LET b == pc[t].b
        n == pc[t].new IN
    /\ pc[t].op = "swap"
    /\ Drop(t, b)
    /\ refs' = [refs EXCEPT ![t][b] = @ - 1, ![t][n] = @ + 1]
    /\ UNCHANGED <<heap, list, pool>>

\* The caller changes a block that it has found, or made, writable.
Write(t) ==
    LET b == pc[t].b IN
    /\ pc[t].op = "write"
    /\ buf' = [buf EXCEPT ![b].val = IF @ < MaxWrites THEN @ + 1 ELSE @]
    /\ pc' = [pc EXCEPT ![t] = Idle]
    /\ UNCHANGED <<heap, refs, list, pool>>

(***************************************************************************)
(* The last reference is gone: the callback of the buffer runs, then the   *)
(* sa_buffer_t is freed unless the flag read before says that it is        *)
(* embedded.                                                               *)
(***************************************************************************)
\* Mutant: the pool loses its reference before it has the buffer back.
ReleaseUncounted == <<"count_down", "push">>

\* pool_release_buffer
ReleaseOrder == <<"push", "count_down">>

After(op) == IF op = ReleaseOrder[1] THEN ReleaseOrder[2] ELSE "struct"

\* Mutant: every sa_buffer_t is taken for an embedded one.
AlwaysEmbedded(b) == TRUE

NoFree(b) == buf[b].struct = "entry"

FreeData(t) ==
    LET b == pc[t].b IN
    /\ pc[t].op = "free"
    /\ pc' = [pc EXCEPT ![t].free = IF NoFree(b) THEN "nothing" ELSE "struct",
                        ![t].op = IF buf[b].kind = "pool" THEN ReleaseOrder[1] ELSE "struct"]
    /\ buf' = IF buf[b].kind = "pool" THEN buf ELSE [buf EXCEPT ![b].st = "gone"]
    /\ UNCHANGED <<heap, refs, list, pool>>

Push(t) ==
    /\ pc[t].op = "push"
    /\ list' = <<pc[t].b>> \o list
    /\ buf' = [buf EXCEPT ![pc[t].b].st = "free"]
    /\ pc' = [pc EXCEPT ![t].op = After("push")]
    /\ UNCHANGED <<heap, refs, pool>>

CountDown(t) ==
    /\ pc[t].op = "count_down"
    /\ pool' = [pool EXCEPT !.ref = @ - 1]
    /\ pc' = [pc EXCEPT ![t].op = IF LastRef(pool.ref) THEN "pool_free"
                                  ELSE After("count_down")]
    /\ UNCHANGED <<buf, heap, refs, list>>

Listed == {list[i] : i \in DOMAIN list}

Flushed == [b \in Buffers |-> IF b \in Listed THEN [buf[b] EXCEPT !.st = "gone"]
                              ELSE buf[b]]

\* buffer_pool_free
PoolFree(t) ==
    /\ pc[t].op = "pool_free"
    /\ buf' = Flushed
    /\ list' = <<>>
    /\ pool' = [pool EXCEPT !.life = "freed"]
    /\ pc' = [pc EXCEPT ![t].op = After("count_down")]
    /\ UNCHANGED <<heap, refs>>

FreeStruct(t) ==
    /\ pc[t].op = "struct"
    /\ heap' = IF pc[t].free = "nothing" THEN heap ELSE heap \ {pc[t].b}
    /\ pc' = [pc EXCEPT ![t] = Idle]
    /\ UNCHANGED <<buf, refs, list, pool>>

\* sa_buffer_pool_uninit: the list is emptied now; buffers that are out are
\* freed with the pool when the last of them comes back.  The caller has
\* stopped every thread that takes buffers from the pool.
Uninit(t) ==
    /\ pc[t].op = "idle" /\ pool.life = "owned"
    /\ \A u \in Threads : pc[u].op # "count"
    /\ buf' = Flushed
    /\ list' = <<>>
    /\ pool' = [pool EXCEPT !.life = "given_up"]
    /\ pc' = [pc EXCEPT ![t] = At("count_down", None)]
    /\ UNCHANGED <<heap, refs>>

Use(t) ==
    \/ GetFromList(t) \/ GetNew(t) \/ GetCount(t) \/ Uninit(t)
    \/ \E b \in Buffers :
        \/ Ref(t, b) \/ Unref(t, b)
        \/ \E u \in Threads : HandOver(t, u, b)
        \/ \E src \in Buffers : Replace(t, b, src)
        \/ \E kind \in {"plain", "realloc"} : MakeWritable(t, b, kind)
    \/ Copy(t) \/ Swap(t) \/ Write(t)

Release(t) == ReplaceDrop(t) \/ FreeData(t) \/ Push(t) \/ CountDown(t)
              \/ PoolFree(t) \/ FreeStruct(t)

Next == \E t \in Threads : Use(t) \/ Release(t)

Spec == Init /\ [][Next]_vars

------------------------------------------------------------------------------
Doing(op) == {t \in Threads : pc[t].op = op}

\* A reference that is still local to a call: sa_buffer_pool_get has not
\* returned it, or a copy has not replaced its original.
Local(t, b) == \/ pc[t].op = "count" /\ pc[t].b = b
               \/ pc[t].op \in {"copy", "swap"} /\ pc[t].new = b

\* The references to b that exist, by thread; number 0 is a local one.
References(b) == {r \in Threads \X (0..MaxRefs) :
                      IF r[2] = 0 THEN Local(r[1], b) ELSE r[2] <= refs[r[1]][b]}

Existing(b) == Cardinality(References(b))

\* The pool's buffers that are out and that the pool has counted.
Out == {b \in Buffers : /\ buf[b].kind = "pool" /\ buf[b].st = "live"
                        /\ \A t \in Doing("count") : pc[t].b # b}

\* A buffer counts its references exactly, and the pool counts its owner, the
\* buffers that are out and those that are on their way back, at every point
\* of every thread's calls (buffer.c:411, 128, 340, 354).
RefCountsExact ==
    /\ \A b \in Buffers : buf[b].st = "live" => buf[b].ref = Existing(b)
    /\ pool.life # "freed" =>
        pool.ref = (IF pool.life = "owned" THEN 1 ELSE 0)
                   + Cardinality(Out) + Cardinality(Doing("count_down"))

\* The state is well typed, the counts are exact, no thread touches a block or
\* the pool after it was freed, and the pool is freed by one thread only
\* (buffer.c:128, 340, 349-356, 411).
NoUseAfterFree ==
    /\ TypeOK
    /\ RefCountsExact
    /\ \A t \in Threads, b \in Buffers : refs[t][b] > 0 => buf[b].st = "live"
    /\ \A t \in Doing("push") \cup Doing("count_down") \cup Doing("count") : pool.life # "freed"
    /\ \A t \in Doing("pool_free") :
        pool.life = "given_up" /\ \A u \in Threads \ {t} : pc[u].op # "pool_free"
    /\ \A t \in Doing("struct") : pc[t].free = "struct" => pc[t].b \in heap
    /\ \A b \in Buffers : buf[b].st = "live" /\ buf[b].struct = "heap" => b \in heap

\* Once the pool is given up and every reference is dropped, the pool, its
\* blocks and the heap structures are all freed, whichever thread was last.
NothingLeaked ==
    /\ pool.life = "freed" => \A b \in Buffers : buf[b].kind = "pool" => buf[b].st = "gone"
    /\ (/\ \A t \in Threads : pc[t] = Idle
        /\ \A t \in Threads, b \in Buffers : refs[t][b] = 0
        /\ pool.life # "owned")
       => /\ pool.life = "freed" /\ heap = {}
          /\ \A b \in Buffers : buf[b].st \in {"unused", "gone"}

\* What one reference shows changes only by its own holder: a block is
\* written when no other reference to it exists, although the test is made
\* before (buffer.c:168, 204).
WriterAlone ==
    [][\A b \in Buffers :
        buf[b].st = "live" /\ buf'[b].st = "live" /\ buf'[b].val # buf[b].val =>
            Existing(b) = 1]_vars
==============================================================================
