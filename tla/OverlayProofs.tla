---------------------------- MODULE OverlayProofs ----------------------------
(***************************************************************************)
(* Proofs about the overlay filesystem, for every number of threads, ISOs, *)
(* handles and tags: contexts are not leaked, and not used after they were *)
(* freed as long as the cleanup runs alone; reference counts are exact and *)
(* flushed tags kept under the conditions that the properties state.       *)
(*                                                                         *)
(* The invariant comes in layers, each proved from the ones before it: the *)
(* shape of calls, locks and mounts; bounds on reference counts; exact     *)
(* counts and contexts in use; tags.                                       *)
(***************************************************************************)
EXTENDS Overlay, FiniteSetTheorems, TLAPS

----------------------------------------------------------------------------
(* The shape of the state.                                                 *)

Types ==
    /\ set \in Settings
    /\ table \in Seq(Isos)
    /\ tableLock \in Threads \cup {None}
    /\ mount \in [Isos -> Mount]
    /\ live \in [Isos -> SUBSET Contexts]
    /\ cache \in [Isos -> Cache]
    /\ sidecar \in [Isos -> Tags \cup {None}]
    /\ file \in [Handles -> File]
    /\ thr \in [Threads -> Thread]
    /\ committed \in [Isos -> Tags \cup {None}]
    /\ faults \in 0..MaxFaults

Mounting   == {"ensure", "mounting", "use", "vfs_open", "ref_load", "ref_store"}
InLoop     == {"clean", "clean_save", "clean_write", "clean_close"}
InBody     == {"clean_save", "clean_write", "clean_close"}

\* The call that a thread x is in, and what it carries.
PcInv(x) ==
    /\ x.pc = "idle" => x = Resting
    /\ x.pc = "scan" => x.op = "scan"
    /\ x.pc \in {"find", "ensure", "mounting"} => x.op \in {"stat", "open"}
    /\ x.pc \in {"use", "clean_lock"} \cup InLoop => x.op = "stat"
    /\ x.pc \in {"vfs_open", "ref_load", "ref_store"} => x.op = "open"
    /\ x.pc = "read" => x.op = "read"
    /\ x.pc \in {"flush", "set", "save", "write"} => x.op \in {"flush", "close"}
    /\ x.pc \in {"file_close", "release"} => x.op = "close"
    /\ x.op \in {"stat", "open", "read", "flush", "close"} => x.iso # None
    /\ x.op \in {"open", "read", "flush", "close"} <=> x.h # None

\* A call past the lookup has found its mount; the cleanup holds the table.
TableInv(x, t) ==
    /\ x.pc \in Mounting => x.iso \in Registered
    /\ x.pc = "clean_lock" => Timeout /\ x.n = 1
    /\ x.pc \in InLoop => Timeout /\ tableLock = t /\ x.n \in 1..(Len(table) + 1)
    /\ x.pc \in InBody => x.n \in 1..Len(table)

\* A call on an open handle, or one that is about to open it.
FileInv(x) ==
    /\ x.op = "open" => file[x.h].iso = None
    /\ x.op \in {"read", "flush", "close"} => file[x.h].iso = x.iso

\* Threads x and y share a handle only in reads, writes and flushes; the
\* single-threaded loop makes one call at a time.
Apart(x, y) ==
    /\ x.h = y.h /\ x.h # None =>
          Shared /\ x.op \notin {"open", "close"} /\ y.op \notin {"open", "close"}
    /\ ~MT => x.pc = "idle" \/ y.pc = "idle"

MountInv(i) ==
    /\ live[i] = IF mount[i].vfs = None THEN {} ELSE {mount[i].vfs}
    /\ mount[i].lock # None =>
          thr[mount[i].lock].pc = "mounting" /\ thr[mount[i].lock].iso = i
    /\ mount[i].state = "open" => mount[i].vfs # None
    /\ mount[i].lock = None /\ mount[i].vfs # None => mount[i].state = "open"
    /\ i \notin Registered => mount[i].vfs = None /\ mount[i].refs = 0 /\ mount[i].lock = None

LockInv(x, t) == x.pc = "mounting" =>
    mount[x.iso].lock = t /\ mount[x.iso].vfs # None /\ mount[x.iso].state = "closed"

Shape ==
    /\ Types
    /\ \A t \in Threads : PcInv(thr[t])
    /\ \A t \in Threads : TableInv(thr[t], t)
    /\ \A t \in Threads : FileInv(thr[t])
    /\ \A t \in Threads : LockInv(thr[t], t)
    /\ \A t, u \in Threads : t # u => Apart(thr[t], thr[u])
    /\ \A i \in Isos : MountInv(i)
    /\ \A h \in Handles : file[h].iso # None => file[h].iso \in Registered

----------------------------------------------------------------------------
(* Bounds on the reference counts, which may drift.                        *)

Opening(i) == {t \in Threads : thr[t].op = "open" /\ thr[t].iso = i}

Bounded ==
    /\ \A i \in Isos : mount[i].refs + Cardinality(Opening(i)) <= MaxRefs
    /\ \A t \in Threads : thr[t].pc = "ref_store" =>
          thr[t].n + Cardinality(Opening(thr[t].iso)) <= MaxRefs

----------------------------------------------------------------------------
(* Exact counts, and the contexts in use.                                  *)

HandlesOf(i) == {h \in Handles : file[h].iso = i}

Exact == ~MT =>
    /\ \A i \in Isos : mount[i].refs = Cardinality(HandlesOf(i))
    /\ \A t \in Threads : thr[t].pc = "ref_store" => thr[t].n = mount[thr[t].iso].refs
    /\ \A t \in Threads : thr[t].pc \in InBody => mount[table[thr[t].n]].refs = 0

Safe == CleanupAlone =>
    /\ \A h \in Handles : file[h].iso # None =>
          file[h].vfs \in live[file[h].iso] /\ mount[file[h].iso].lock = None
    /\ \A t \in Threads : Following(t) =>
          thr[t].vfs \in live[thr[t].iso] /\ mount[thr[t].iso].lock = None

----------------------------------------------------------------------------
(* The tags.                                                               *)

TagKept(i) == committed[i] # None =>
    /\ IsOpen(i) => cache[i].tag = committed[i] /\ HasData(i)
    /\ sidecar[i] = committed[i]
       \/ \E t \in Threads : thr[t].iso = i /\ thr[t].pc \in {"save", "write"}

Kept == ~MT /\ faults = 0 =>
    /\ \A i \in Isos : TagKept(i)
    /\ \A t \in Threads :
          /\ thr[t].pc = "save" /\ committed[thr[t].iso] # None => Usable(t)
          /\ thr[t].pc = "write" /\ committed[thr[t].iso] # None =>
                thr[t].doc = committed[thr[t].iso]
          /\ thr[t].pc = "clean_write" /\ committed[table[thr[t].n]] # None =>
                thr[t].doc = committed[table[thr[t].n]]

IInv == Shape /\ Bounded /\ Exact /\ Safe /\ Kept

----------------------------------------------------------------------------
(* Lemmas about threads.                                                   *)

\* How a thread goes on with its call, or returns.
Continues(x, y) == \/ y = Resting
                   \/ y.op = x.op /\ y.iso = x.iso /\ y.h = x.h

\* A step inside a call disturbs no other thread.
LEMMA StepApart ==
    ASSUME Shape, NEW t \in Threads, NEW y \in Thread,
           thr[t].pc # "idle", Continues(thr[t], y)
    PROVE  \A u \in Threads \ {t} : Apart(y, thr[u]) /\ Apart(thr[u], y)
BY DEF Shape, Continues, Apart, Resting

\* The thread that replaces thr[t] keeps what is said of threads alone.
LEMMA ThreadShape ==
    ASSUME Shape, NEW t \in Threads, NEW y \in Thread,
           thr' = [thr EXCEPT ![t] = y], set' = set, PcInv(y),
           \A u \in Threads \ {t} : Apart(y, thr[u]) /\ Apart(thr[u], y)
    PROVE  /\ thr' \in [Threads -> Thread]
           /\ thr'[t] = y
           /\ \A u \in Threads \ {t} : thr'[u] = thr[u]
           /\ \A u \in Threads : PcInv(thr'[u])
           /\ \A u, v \in Threads : u # v => Apart(thr[u], thr[v])'
<1>1. thr \in [Threads -> Thread]
  BY DEF Shape, Types
<1>2. thr' \in [Threads -> Thread] /\ thr'[t] = y
      /\ \A u \in Threads \ {t} : thr'[u] = thr[u]
  BY <1>1
<1>3. \A u \in Threads : PcInv(thr'[u])
  BY <1>2 DEF Shape
<1>4. ASSUME NEW u \in Threads, NEW v \in Threads, u # v
      PROVE  Apart(thr[u], thr[v])'
  <2>1. Apart(thr'[u], thr'[v])
    <3>1. CASE u = t
      BY <3>1, <1>2, <1>4
    <3>2. CASE v = t
      BY <3>2, <1>2, <1>4
    <3>3. CASE u # t /\ v # t
      BY <3>3, <1>2, <1>4 DEF Shape
    <3> QED BY <3>1, <3>2, <3>3
  <2>2. QED BY <2>1 DEF Apart, Shared, MT
<1>5. QED BY <1>2, <1>3, <1>4

\* A step that moves one thread, not into or out of the opening of a
\* context, and at most takes or gives the table lock and changes tags,
\* positions and buffers.
LEMMA DataMoves ==
    ASSUME Shape, NEW t \in Threads, NEW y \in Thread,
           thr' = [thr EXCEPT ![t] = y],
           UNCHANGED <<set, table, mount, live>>,
           cache' \in [Isos -> Cache], sidecar' \in [Isos -> Tags \cup {None}],
           committed' \in [Isos -> Tags \cup {None}], faults' \in 0..MaxFaults,
           file' \in [Handles -> File], \A h \in Handles : file'[h].iso = file[h].iso,
           tableLock' \in Threads \cup {None},
           \A u \in Threads \ {t} : thr[u].pc \in InLoop => tableLock' = tableLock,
           PcInv(y), TableInv(y, t)', FileInv(y),
           y.pc # "mounting", thr[t].pc # "mounting",
           \A u \in Threads \ {t} : Apart(y, thr[u]) /\ Apart(thr[u], y)
    PROVE  Shape'
<1>1. /\ thr' \in [Threads -> Thread]
      /\ thr'[t] = y
      /\ \A u \in Threads \ {t} : thr'[u] = thr[u]
      /\ \A u \in Threads : PcInv(thr'[u])
      /\ \A u, v \in Threads : u # v => Apart(thr[u], thr[v])'
  BY ThreadShape
<1>2. Types'
  BY <1>1 DEF Shape, Types
<1>3. ASSUME NEW u \in Threads PROVE TableInv(thr[u], u)'
  BY <1>1 DEF Shape, TableInv, Registered, Timeout
<1>4. ASSUME NEW u \in Threads PROVE FileInv(thr[u])'
  <2>1. FileInv(thr'[u]) /\ PcInv(thr'[u]) /\ thr'[u] \in Thread
    BY <1>1 DEF Shape
  <2>2. thr'[u].op \in {"open", "read", "flush", "close"} => thr'[u].h \in Handles
    BY <2>1 DEF PcInv, Thread
  <2>3. QED BY <2>1, <2>2 DEF FileInv
<1>5. ASSUME NEW u \in Threads PROVE LockInv(thr[u], u)'
  BY <1>1 DEF Shape, LockInv
<1>6. ASSUME NEW i \in Isos PROVE MountInv(i)'
  <2>1. MountInv(i)
    BY DEF Shape
  <2>2. mount[i].lock # None => mount[i].lock \in Threads \ {t}
    BY <2>1 DEF Shape, Types, Mount, MountInv
  <2>3. QED BY <2>1, <2>2, <1>1 DEF MountInv, Registered
<1>7. \A h \in Handles : file'[h].iso # None => file'[h].iso \in Registered'
  BY DEF Shape, Registered
<1>8. QED BY <1>1, <1>2, <1>3, <1>4, <1>5, <1>6, <1>7 DEF Shape, PcInv

\* A step that moves one thread, not into or out of the opening of a
\* context, and at most takes or gives the table lock.
LEMMA Moves ==
    ASSUME Shape, NEW t \in Threads, NEW y \in Thread,
           thr' = [thr EXCEPT ![t] = y],
           UNCHANGED <<set, table, mount, live, cache, sidecar, file, faults, committed>>,
           tableLock' \in Threads \cup {None},
           \A u \in Threads \ {t} : thr[u].pc \in InLoop => tableLock' = tableLock,
           PcInv(y), TableInv(y, t)', FileInv(y),
           y.pc # "mounting", thr[t].pc # "mounting",
           \A u \in Threads \ {t} : Apart(y, thr[u]) /\ Apart(thr[u], y)
    PROVE  Shape'
BY DataMoves DEF Shape, Types

\* A call that begins is apart from the calls of the other threads.
LEMMA BeginApart ==
    ASSUME Shape, NEW t \in Threads, NEW y \in Thread, CanStart(t),
           \/ y.h = None
           \/ ~InUse(y.h)
           \/ y.h \in Handles /\ CanUse(t, y.h) /\ y.op \notin {"open", "close"}
    PROVE  \A u \in Threads \ {t} : Apart(y, thr[u]) /\ Apart(thr[u], y)
<1> TAKE u \in Threads \ {t}
<1>1. ~MT => thr[u].pc = "idle"
  BY DEF CanStart, AllResting
<1>2. thr[u].op = "open" => file[thr[u].h].iso = None
  BY DEF Shape, FileInv
<1>3. y.h = thr[u].h /\ y.h # None =>
        Shared /\ y.op \notin {"open", "close"} /\ thr[u].op \notin {"open", "close"}
  BY <1>2 DEF InUse, CanUse, Opened
<1>4. QED BY <1>1, <1>3 DEF Apart

\* A call begins with a record of its own.
LEMMA BeginRecord ==
    ASSUME Types, NEW t \in Threads,
           NEW op \in {"scan", "stat", "open", "read", "flush", "close"},
           NEW pc \in {"scan", "find", "read", "flush", "file_close", "clean_lock"},
           NEW i \in Isos \cup {None}, NEW h \in Handles \cup {None}, NEW n \in Nat,
           Begin(t, op, pc, i, h, n)
    PROVE  \E y \in Thread :
              /\ thr' = [thr EXCEPT ![t] = y]
              /\ y.pc = pc /\ y.op = op /\ y.iso = i /\ y.vfs = None /\ y.h = h
              /\ y.n = n /\ y.doc = None
<1> DEFINE y == [pc |-> pc, op |-> op, iso |-> i, vfs |-> None, h |-> h, n |-> n,
                 doc |-> None]
<1>1. y \in Thread
  BY DEF Thread
<1>2. thr' = [thr EXCEPT ![t] = y]
  BY DEF Begin
<1>3. QED BY <1>1, <1>2

LEMMA NoneIsNothing == None \notin Threads /\ None \notin Isos /\ None \notin Handles
                       /\ None \notin Contexts /\ None \notin Tags
BY ConstantsAssumption

LEMMA ReaddirShape == ASSUME Shape, NEW t \in Threads, Readdir(t) PROVE Shape'
<1>1. 0 \in Nat /\ Types /\ tableLock \in Threads \cup {None}
  BY DEF Shape, Types
<1>2. PICK y \in Thread : /\ thr' = [thr EXCEPT ![t] = y]
                          /\ y.pc = "scan" /\ y.op = "scan" /\ y.h = None
  BY <1>1, BeginRecord, SMTT(30) DEF Readdir
<1>3. PcInv(y) /\ TableInv(y, t)' /\ FileInv(y)
  BY <1>2 DEF PcInv, TableInv, FileInv, Mounting, InLoop, InBody
<1>4. \A u \in Threads \ {t} : Apart(y, thr[u]) /\ Apart(thr[u], y)
  BY <1>2, BeginApart DEF Readdir
<1>5. thr[t].pc # "mounting"
  BY DEF Readdir, CanStart
<1>6. QED BY <1>1, <1>2, <1>3, <1>4, <1>5, Moves DEF Readdir

LEMMA GetattrShape == ASSUME Shape, NEW t \in Threads, NEW i \in Isos, Getattr(t, i) PROVE Shape'
<1>1. 0 \in Nat /\ 1 \in Nat /\ Types /\ tableLock \in Threads \cup {None} /\ i # None
  BY NoneIsNothing DEF Shape, Types
<1>a. PICK pc \in {"find", "clean_lock"}, n \in Nat :
         Begin(t, "stat", pc, i, None, n) /\ (pc = "clean_lock" => Timeout /\ n = 1)
  BY <1>1 DEF Getattr
<1>2. PICK y \in Thread : /\ thr' = [thr EXCEPT ![t] = y]
                          /\ y.pc = pc /\ y.op = "stat" /\ y.iso = i /\ y.h = None /\ y.n = n
  <2> DEFINE z == [pc |-> pc, op |-> "stat", iso |-> i, vfs |-> None, h |-> None, n |-> n,
                   doc |-> None]
  <2>1. z \in Thread
    BY DEF Thread
  <2>2. thr' = [thr EXCEPT ![t] = z]
    BY <1>a DEF Begin
  <2>3. z.pc = pc /\ z.op = "stat" /\ z.iso = i /\ z.h = None /\ z.n = n
    OBVIOUS
  <2> HIDE DEF z
  <2> QED
    BY <2>1, <2>2, <2>3
<1>3. PcInv(y) /\ TableInv(y, t)' /\ FileInv(y)
  BY <1>1, <1>a, <1>2 DEF Getattr, PcInv, TableInv, FileInv, Mounting, InLoop, InBody, Timeout
<1>4. \A u \in Threads \ {t} : Apart(y, thr[u]) /\ Apart(thr[u], y)
  BY <1>2, BeginApart DEF Getattr
<1>5. thr[t].pc # "mounting"
  BY DEF Getattr, CanStart
<1>6. QED BY <1>1, <1>2, <1>3, <1>4, <1>5, Moves DEF Getattr

LEMMA OpenShape ==
    ASSUME Shape, NEW t \in Threads, NEW i \in Isos, NEW h \in Handles, Open(t, i, h)
    PROVE  Shape'
<1>1. 0 \in Nat /\ Types /\ tableLock \in Threads \cup {None} /\ i # None /\ h # None
  BY NoneIsNothing DEF Shape, Types
<1>2. PICK y \in Thread : /\ thr' = [thr EXCEPT ![t] = y]
                          /\ y.pc = "find" /\ y.op = "open" /\ y.iso = i /\ y.h = h
  BY <1>1, BeginRecord DEF Open
<1>3. PcInv(y) /\ TableInv(y, t)' /\ FileInv(y)
  BY <1>1, <1>2 DEF Open, Opened, PcInv, TableInv, FileInv, Mounting, InLoop, InBody
<1>4. \A u \in Threads \ {t} : Apart(y, thr[u]) /\ Apart(thr[u], y)
  BY <1>2, BeginApart DEF Open
<1>5. thr[t].pc # "mounting"
  BY DEF Open, CanStart
<1>6. QED BY <1>1, <1>2, <1>3, <1>4, <1>5, Moves DEF Open

LEMMA FlushShape ==
    ASSUME Shape, NEW t \in Threads, NEW h \in Handles, Flush(t, h)
    PROVE  Shape'
<1>1. 0 \in Nat /\ Types /\ tableLock \in Threads \cup {None} /\ h # None
  BY NoneIsNothing DEF Shape, Types
<1>2. CanUse(t, h) /\ CanStart(t) /\ file[h].iso # None /\ file[h].iso \in Isos \cup {None}
  BY <1>1 DEF Flush, CanUse, Opened, Types, File
<1>3. PICK y \in Thread : /\ thr' = [thr EXCEPT ![t] = y]
                          /\ y.pc = "flush" /\ y.op = "flush" /\ y.iso = file[h].iso
                          /\ y.h = h
  BY <1>1, <1>2, BeginRecord DEF Flush
<1>4. PcInv(y) /\ TableInv(y, t)' /\ FileInv(y)
  BY <1>1, <1>2, <1>3 DEF PcInv, TableInv, FileInv, Mounting, InLoop, InBody
<1>5. \A u \in Threads \ {t} : Apart(y, thr[u]) /\ Apart(thr[u], y)
  BY <1>2, <1>3, BeginApart
<1>6. thr[t].pc # "mounting"
  BY <1>2 DEF CanStart
<1>7. QED BY <1>1, <1>3, <1>4, <1>5, <1>6, Moves DEF Flush

LEMMA ReleaseShape ==
    ASSUME Shape, NEW t \in Threads, NEW h \in Handles, Release(t, h)
    PROVE  Shape'
<1>1. 0 \in Nat /\ Types /\ tableLock \in Threads \cup {None} /\ h # None
  BY NoneIsNothing DEF Shape, Types
<1>2. CanStart(t) /\ file[h].iso # None /\ file[h].iso \in Isos \cup {None}
  BY <1>1 DEF Release, Opened, Types, File
<1>3. PICK pc \in {"flush", "file_close"} : Begin(t, "close", pc, file[h].iso, h, 0)
  BY DEF Release
<1>4. PICK y \in Thread : /\ thr' = [thr EXCEPT ![t] = y]
                          /\ y.pc = pc /\ y.op = "close" /\ y.iso = file[h].iso
                          /\ y.h = h
  BY <1>1, <1>2, <1>3, BeginRecord
<1>5. PcInv(y) /\ TableInv(y, t)' /\ FileInv(y)
  BY <1>1, <1>2, <1>4 DEF PcInv, TableInv, FileInv, Mounting, InLoop, InBody
<1>6. \A u \in Threads \ {t} : Apart(y, thr[u]) /\ Apart(thr[u], y)
  BY <1>2, <1>4, BeginApart DEF Release
<1>7. thr[t].pc # "mounting"
  BY <1>2 DEF CanStart
<1>8. QED BY <1>1, <1>4, <1>5, <1>6, <1>7, Moves DEF Release

\* A thread that only moves its program counter.
LEMMA GotoRecord ==
    ASSUME Types, NEW t \in Threads, NEW pc, Goto(t, pc),
           pc \in {"ensure", "mounting", "ref_load", "file_close", "release", "save",
                   "clean", "clean_close"}
    PROVE  \E y \in Thread :
              /\ thr' = [thr EXCEPT ![t] = y]
              /\ y.pc = pc /\ y.op = thr[t].op /\ y.iso = thr[t].iso /\ y.vfs = thr[t].vfs
              /\ y.h = thr[t].h /\ y.n = thr[t].n /\ y.doc = thr[t].doc
<1>1. thr[t] \in Thread
  BY DEF Types
<1> DEFINE y == [thr[t] EXCEPT !.pc = pc]
<1>2. y \in Thread
  BY <1>1 DEF Thread
<1>3. /\ y.pc = pc /\ y.op = thr[t].op /\ y.iso = thr[t].iso /\ y.vfs = thr[t].vfs
      /\ y.h = thr[t].h /\ y.n = thr[t].n /\ y.doc = thr[t].doc
  BY <1>1 DEF Thread
<1>4. thr' = [thr EXCEPT ![t] = y]
  BY DEF Goto, Types
<1>5. QED BY <1>2, <1>3, <1>4

LEMMA RestingRecord == /\ Resting \in Thread
                       /\ Resting.pc = "idle" /\ Resting.op = "none" /\ Resting.h = None
                       /\ PcInv(Resting)
                       /\ \A t \in Threads : TableInv(Resting, t)' /\ FileInv(Resting)
<1>1. 0 \in Nat
  OBVIOUS
<1>2. Resting \in Thread
  BY <1>1 DEF Resting, Thread
<1>3. QED BY <1>2 DEF Resting, PcInv, TableInv, FileInv, Mounting, InLoop, InBody

\* A step that moves a thread on within its call, or out of it.
LEMMA StepMoves ==
    ASSUME Shape, NEW t \in Threads, NEW y \in Thread,
           thr' = [thr EXCEPT ![t] = y],
           UNCHANGED <<set, table, mount, live, cache, sidecar, file, faults, committed>>,
           tableLock' \in Threads \cup {None},
           \A u \in Threads \ {t} : thr[u].pc \in InLoop => tableLock' = tableLock,
           thr[t].pc \notin {"idle", "mounting"}, Continues(thr[t], y),
           PcInv(y), TableInv(y, t)', FileInv(y),
           y.pc # "mounting"
    PROVE  Shape'
<1>1. \A u \in Threads \ {t} : Apart(y, thr[u]) /\ Apart(thr[u], y)
  BY StepApart
<1>2. QED BY <1>1, Moves

\* A call that returns and changes nothing else.
LEMMA ReturnShape ==
    ASSUME Shape, NEW t \in Threads, Return(t), thr[t].pc \notin {"idle", "mounting"},
           UNCHANGED <<set, table, tableLock, mount, live, cache, sidecar, file, faults, committed>>
    PROVE  Shape'
<1>1. thr' = [thr EXCEPT ![t] = Resting] /\ tableLock' \in Threads \cup {None}
  BY DEF Return, Shape, Types
<1>2. Continues(thr[t], Resting)
  BY DEF Continues
<1>3. QED BY <1>1, <1>2, RestingRecord, StepMoves

LEMMA EndScanShape == ASSUME Shape, NEW t \in Threads, EndScan(t) PROVE Shape'
BY ReturnShape DEF EndScan

LEMMA UseVfsShape == ASSUME Shape, NEW t \in Threads, UseVfs(t) PROVE Shape'
BY ReturnShape DEF UseVfs

\* What a thread that goes on within its call still satisfies.
LEMMA OnwardShape ==
    ASSUME Shape, NEW t \in Threads, NEW pc, Goto(t, pc),
           UNCHANGED <<set, table, tableLock, mount, live, cache, sidecar, file, faults, committed>>,
           \/ thr[t].pc = "find" /\ pc = "ensure" /\ thr[t].iso \in Registered
           \/ thr[t].pc = "vfs_open" /\ pc = "ref_load"
           \/ thr[t].pc = "flush" /\ pc = "file_close" /\ thr[t].op = "close"
           \/ thr[t].pc = "file_close" /\ pc = "release"
    PROVE  Shape'
<1>1. Types /\ PcInv(thr[t]) /\ TableInv(thr[t], t) /\ FileInv(thr[t])
      /\ tableLock \in Threads \cup {None}
  BY DEF Shape, Types
<1>2. PICK y \in Thread :
              /\ thr' = [thr EXCEPT ![t] = y]
              /\ y.pc = pc /\ y.op = thr[t].op /\ y.iso = thr[t].iso /\ y.h = thr[t].h
  BY <1>1, GotoRecord
<1>3. PcInv(y)
  BY <1>1, <1>2 DEF PcInv, InLoop
<1>4. TableInv(y, t)' /\ FileInv(y)
  BY <1>1, <1>2 DEF TableInv, FileInv, Registered, Mounting, InLoop, InBody
<1>5. Continues(thr[t], y)
  BY <1>2 DEF Continues
<1>6. QED BY <1>1, <1>2, <1>3, <1>4, <1>5, StepMoves

LEMMA FindIsoShape == ASSUME Shape, NEW t \in Threads, FindIso(t) PROVE Shape'
<1>1. CASE thr[t].iso \in Registered
  BY <1>1, OnwardShape DEF FindIso
<1>2. CASE thr[t].iso \notin Registered
  BY <1>2, ReturnShape DEF FindIso
<1>3. QED BY <1>1, <1>2

LEMMA VfsFileOpenShape == ASSUME Shape, NEW t \in Threads, VfsFileOpen(t) PROVE Shape'
BY OnwardShape, ReturnShape DEF VfsFileOpen

LEMMA VfsFileCloseShape == ASSUME Shape, NEW t \in Threads, VfsFileClose(t) PROVE Shape'
BY OnwardShape DEF VfsFileClose

LEMMA RefLoadShape == ASSUME Shape, NEW t \in Threads, RefLoad(t) PROVE Shape'
<1>1. /\ Types /\ PcInv(thr[t]) /\ TableInv(thr[t], t) /\ FileInv(thr[t])
      /\ thr[t] \in Thread /\ tableLock \in Threads \cup {None} /\ thr[t].pc = "ref_load"
  BY DEF Shape, Types, RefLoad
<1>2. thr[t].iso \in Isos
  BY <1>1 DEF PcInv, Thread
<1>3. PICK n \in Nat : n = mount[thr[t].iso].refs
  BY <1>1, <1>2 DEF Types, Mount
<1>5. PICK y \in Thread :
         /\ thr' = [thr EXCEPT ![t] = y]
         /\ y.pc = "ref_store" /\ y.op = thr[t].op /\ y.iso = thr[t].iso /\ y.h = thr[t].h
  <2> DEFINE z == [thr[t] EXCEPT !.n = n, !.pc = "ref_store"]
  <2>1. z \in Thread
    BY <1>1 DEF Thread
  <2>2. z.pc = "ref_store" /\ z.op = thr[t].op /\ z.iso = thr[t].iso /\ z.h = thr[t].h
    BY <1>1 DEF Thread
  <2>3. thr' = [thr EXCEPT ![t] = z]
    BY <1>1, <1>3 DEF RefLoad, Types
  <2>4. QED BY <2>1, <2>2, <2>3
<1>7. PcInv(y)
  BY <1>1, <1>5 DEF PcInv, InLoop
<1>8. TableInv(y, t)' /\ FileInv(y)
  BY <1>1, <1>5 DEF RefLoad, TableInv, FileInv, Registered, Mounting, InLoop, InBody
<1>9. Continues(thr[t], y)
  BY <1>5 DEF Continues
<1>10. QED BY <1>1, <1>5, <1>7, <1>8, <1>9, StepMoves DEF RefLoad

LEMMA FlushGetShape == ASSUME Shape, NEW t \in Threads, FlushGet(t) PROVE Shape'
<1>1. /\ Types /\ PcInv(thr[t]) /\ TableInv(thr[t], t) /\ FileInv(thr[t])
      /\ thr[t] \in Thread /\ tableLock \in Threads \cup {None} /\ thr[t].pc = "flush"
  BY DEF Shape, Types, FlushGet
<1>2. thr[t].iso \in Isos
  BY <1>1 DEF PcInv, Thread
<1>3. PICK c \in Contexts \cup {None} : c = mount[thr[t].iso].vfs
  BY <1>1, <1>2 DEF Types, Mount
<1>4. CASE c = None
  BY <1>1, <1>3, <1>4, OnwardShape, ReturnShape DEF FlushGet, FlushDone
<1>5. CASE c # None
  <2>5. PICK y \in Thread :
           /\ thr' = [thr EXCEPT ![t] = y]
           /\ y.pc = "set" /\ y.op = thr[t].op /\ y.iso = thr[t].iso /\ y.h = thr[t].h
    <3> DEFINE z == [thr[t] EXCEPT !.vfs = c, !.pc = "set"]
    <3>1. z \in Thread
      BY <1>1 DEF Thread
    <3>2. z.pc = "set" /\ z.op = thr[t].op /\ z.iso = thr[t].iso /\ z.h = thr[t].h
      BY <1>1 DEF Thread
    <3>3. thr' = [thr EXCEPT ![t] = z]
      BY <1>1, <1>3, <1>5 DEF FlushGet, Types
    <3>4. QED BY <3>1, <3>2, <3>3
  <2>7. PcInv(y)
    BY <1>1, <2>5 DEF PcInv, InLoop
  <2>8. TableInv(y, t)' /\ FileInv(y)
    BY <1>1, <2>5 DEF TableInv, FileInv, Mounting, InLoop, InBody
  <2>9. Continues(thr[t], y)
    BY <2>5 DEF Continues
  <2>10. QED BY <1>1, <2>5, <2>7, <2>8, <2>9, StepMoves DEF FlushGet
<1>6. QED BY <1>4, <1>5

LEMMA TableIndex == ASSUME Types PROVE Len(table) \in Nat /\ \A n \in 1..Len(table) : table[n] \in Isos
                                       /\ table[n] \in Registered
BY DEF Types, Registered

LEMMA CleanLockShape == ASSUME Shape, NEW t \in Threads, CleanLock(t) PROVE Shape'
<1>1. /\ Types /\ PcInv(thr[t]) /\ TableInv(thr[t], t) /\ FileInv(thr[t])
      /\ thr[t].pc = "clean_lock" /\ tableLock = None /\ tableLock' = t
  BY DEF Shape, CleanLock
<1>2. PICK y \in Thread :
              /\ thr' = [thr EXCEPT ![t] = y]
              /\ y.pc = "clean" /\ y.op = thr[t].op /\ y.iso = thr[t].iso /\ y.h = thr[t].h
              /\ y.n = thr[t].n
  BY <1>1, GotoRecord DEF CleanLock
<1>3. \A u \in Threads \ {t} : thr[u].pc \in InLoop => tableLock' = tableLock
  BY <1>1, NoneIsNothing DEF Shape, TableInv
<1>4. PcInv(y)
  BY <1>1, <1>2 DEF PcInv, InLoop
<1>5. y.n \in 1..(Len(table) + 1) /\ Timeout
  <2>1. thr[t].n = 1 /\ Timeout
    BY <1>1 DEF TableInv
  <2>2. Len(table) \in Nat
    BY <1>1, TableIndex
  <2>3. QED BY <2>1, <2>2, <1>2
<1>6. TableInv(y, t)' /\ FileInv(y)
  BY <1>1, <1>2, <1>5 DEF CleanLock, TableInv, FileInv, Mounting, InLoop, InBody, Timeout
<1>7. Continues(thr[t], y)
  BY <1>2 DEF Continues
<1>8. QED BY <1>1, <1>2, <1>3, <1>4, <1>6, <1>7, StepMoves DEF CleanLock

LEMMA CleanUnlockShape == ASSUME Shape, NEW t \in Threads, CleanUnlock(t) PROVE Shape'
<1>1. /\ Types /\ PcInv(thr[t]) /\ TableInv(thr[t], t) /\ FileInv(thr[t]) /\ thr[t] \in Thread
      /\ thr[t].pc = "clean" /\ tableLock' = None /\ tableLock = t
  BY DEF Shape, CleanUnlock, TableInv, InLoop, Types
<1>2. PICK y \in Thread :
              /\ thr' = [thr EXCEPT ![t] = y]
              /\ y.pc = "find" /\ y.op = thr[t].op /\ y.iso = thr[t].iso /\ y.h = thr[t].h
  <2> DEFINE z == [thr[t] EXCEPT !.pc = "find", !.n = 0]
  <2>1. z \in Thread
    <3>1. 0 \in Nat
      OBVIOUS
    <3>2. QED BY <1>1, <3>1 DEF Thread
  <2>2. z.pc = "find" /\ z.op = thr[t].op /\ z.iso = thr[t].iso /\ z.h = thr[t].h
    BY <1>1 DEF Thread
  <2>3. thr' = [thr EXCEPT ![t] = z]
    BY <1>1 DEF CleanUnlock, Types
  <2>4. QED BY <2>1, <2>2, <2>3
<1>3. \A u \in Threads \ {t} : thr[u].pc \in InLoop => tableLock' = tableLock
  BY <1>1 DEF Shape, TableInv
<1>4. PcInv(y)
  BY <1>1, <1>2 DEF PcInv, InLoop
<1>6. TableInv(y, t)' /\ FileInv(y)
  BY <1>1, <1>2 DEF TableInv, FileInv, Mounting, InLoop, InBody, PcInv
<1>7. Continues(thr[t], y)
  BY <1>2 DEF Continues
<1>8. QED BY <1>1, <1>2, <1>3, <1>4, <1>6, <1>7, StepMoves DEF CleanUnlock

LEMMA CleanTestShape == ASSUME Shape, NEW t \in Threads, CleanTest(t) PROVE Shape'
<1>1. /\ Types /\ PcInv(thr[t]) /\ TableInv(thr[t], t) /\ FileInv(thr[t]) /\ thr[t] \in Thread
      /\ thr[t].pc = "clean" /\ tableLock' = t /\ tableLock = t /\ Timeout
  BY DEF Shape, CleanTest, TableInv, InLoop, Types
<1>2. PICK n \in Nat : n = thr[t].n
  BY <1>1 DEF Thread
<1>3. n \in 1..Len(table)
  <2>1. n \in 1..(Len(table) + 1) /\ n <= Len(table)
    BY <1>1, <1>2 DEF TableInv, InLoop, CleanTest
  <2>2. QED BY <2>1, <1>1, TableIndex
<1>4. PICK c \in Contexts \cup {None} : c = mount[table[n]].vfs
  BY <1>1, <1>3, TableIndex DEF Types, Mount
<1>5. PICK y \in Thread :
              /\ thr' = [thr EXCEPT ![t] = y]
              /\ (y.pc = "clean_save" /\ y.n = n) \/ (y.pc = "clean" /\ y.n = n + 1)
              /\ y.op = thr[t].op /\ y.iso = thr[t].iso /\ y.h = thr[t].h
  <2>1. CASE mount[table[n]].vfs # None /\ Unused(table[n])
    <3> DEFINE z == [thr[t] EXCEPT !.pc = "clean_save", !.vfs = c]
    <3>1. z \in Thread
      BY <1>1 DEF Thread
    <3>2. z.pc = "clean_save" /\ z.op = thr[t].op /\ z.iso = thr[t].iso /\ z.h = thr[t].h /\ z.n = n
      BY <1>1, <1>2 DEF Thread
    <3>3. thr' = [thr EXCEPT ![t] = z]
      BY <1>1, <1>2, <1>4, <2>1 DEF CleanTest, Types
    <3> HIDE DEF z
    <3>4. QED BY <3>1, <3>2, <3>3
  <2>2. CASE ~(mount[table[n]].vfs # None /\ Unused(table[n]))
    <3>a. PICK m \in Nat : m = n + 1
      OBVIOUS
    <3> DEFINE z == [thr[t] EXCEPT !.n = m]
    <3>1. z \in Thread
      BY <1>1 DEF Thread
    <3>2. z.pc = "clean" /\ z.op = thr[t].op /\ z.iso = thr[t].iso /\ z.h = thr[t].h /\ z.n = m
      BY <1>1 DEF Thread
    <3>3. thr' = [thr EXCEPT ![t] = z]
      BY <1>1, <1>2, <3>a, <2>2 DEF CleanTest, Types
    <3>4. QED BY <3>1, <3>2, <3>3, <3>a
  <2>3. QED BY <2>1, <2>2
<1>6. y.n \in 1..(Len(table) + 1) /\ (y.pc = "clean_save" => y.n \in 1..Len(table))
  BY <1>1, <1>3, <1>5, TableIndex
<1>7. PcInv(y)
  BY <1>1, <1>5 DEF PcInv, InLoop
<1>8. TableInv(y, t)' /\ FileInv(y)
  BY <1>1, <1>5, <1>6 DEF CleanTest, TableInv, FileInv, Mounting, InLoop, InBody, PcInv, Timeout
<1>9. Continues(thr[t], y)
  BY <1>5 DEF Continues
<1>10. QED BY <1>1, <1>5, <1>7, <1>8, <1>9, StepMoves DEF CleanTest

----------------------------------------------------------------------------
(* Steps that change handles, tags and sidecars.                           *)

\* The record y with which thread t goes on.
Proper(t, y) ==
    /\ thr' = [thr EXCEPT ![t] = y]
    /\ Continues(thr[t], y)
    /\ y.pc # "mounting"
    /\ PcInv(y) /\ TableInv(y, t)' /\ FileInv(y)

\* A step inside a call that changes tags, positions and buffers.
LEMMA DataStep ==
    ASSUME Shape, NEW t \in Threads, NEW y \in Thread, Proper(t, y),
           thr[t].pc \notin {"idle", "mounting"},
           UNCHANGED <<set, table, tableLock, mount, live>>,
           cache' \in [Isos -> Cache], sidecar' \in [Isos -> Tags \cup {None}],
           committed' \in [Isos -> Tags \cup {None}], faults' \in 0..MaxFaults,
           file' \in [Handles -> File], \A h \in Handles : file'[h].iso = file[h].iso
    PROVE  Shape'
<1>1. \A u \in Threads \ {t} : Apart(y, thr[u]) /\ Apart(thr[u], y)
  BY StepApart DEF Proper
<1>2. tableLock' \in Threads \cup {None} /\ tableLock' = tableLock
  BY DEF Shape, Types
<1>3. QED BY <1>1, <1>2, DataMoves DEF Proper

\* A call that returns.
LEMMA ReturnProper ==
    ASSUME Shape, NEW t \in Threads, Return(t)
    PROVE  Resting \in Thread /\ Proper(t, Resting)
<1>1. thr' = [thr EXCEPT ![t] = Resting] /\ Continues(thr[t], Resting)
  BY DEF Return, Continues
<1>2. QED BY <1>1, RestingRecord DEF Proper

\* What a thread inside a call that has a handle carries.
LEMMA CallRecord ==
    ASSUME Shape, NEW t \in Threads,
           thr[t].pc \in {"vfs_open", "ref_load", "ref_store", "read", "flush", "set", "save",
                          "write", "file_close", "release"}
    PROVE  /\ thr[t] \in Thread /\ thr[t].h \in Handles /\ thr[t].iso \in Isos
           /\ thr[t].op \in {"open", "read", "flush", "close"}
           /\ PcInv(thr[t]) /\ TableInv(thr[t], t) /\ FileInv(thr[t]) /\ Types
<1>1. thr[t] \in Thread /\ PcInv(thr[t]) /\ TableInv(thr[t], t) /\ FileInv(thr[t]) /\ Types
  BY DEF Shape, Types
<1>2. QED BY <1>1 DEF PcInv, Thread

\* A thread that goes on from a flush or a close.
LEMMA FlushGoes ==
    ASSUME Shape, NEW t \in Threads, thr[t].pc \in {"flush", "set", "save", "write"},
           NEW y \in Thread, thr' = [thr EXCEPT ![t] = y],
           y.pc \in {"set", "save", "write", "file_close"}, Continues(thr[t], y), y # Resting,
           y.pc = "file_close" => thr[t].op = "close"
    PROVE  Proper(t, y)
<1>1. PcInv(thr[t]) /\ FileInv(thr[t]) /\ y.op = thr[t].op /\ y.iso = thr[t].iso /\ y.h = thr[t].h
  BY CallRecord DEF Continues
<1>2. PcInv(y)
  BY <1>1 DEF PcInv, InLoop
<1>3. TableInv(y, t)' /\ FileInv(y)
  BY <1>1 DEF TableInv, FileInv, Mounting, InLoop, InBody
<1>4. QED BY <1>2, <1>3 DEF Proper

\* The end of a flush: back to the caller, which may be a close.
LEMMA FlushDoneProper ==
    ASSUME Shape, NEW t \in Threads, thr[t].pc \in {"flush", "set", "save", "write"}, FlushDone(t)
    PROVE  \E y \in Thread : Proper(t, y) /\ y.pc \in {"file_close", "idle"}
<1>1. CASE thr[t].op = "close"
  <2>1. Types
    BY DEF Shape
  <2>2. PICK y \in Thread :
              /\ thr' = [thr EXCEPT ![t] = y]
              /\ y.pc = "file_close" /\ y.op = thr[t].op /\ y.iso = thr[t].iso /\ y.h = thr[t].h
    BY <1>1, <2>1, GotoRecord DEF FlushDone
  <2>3. Continues(thr[t], y) /\ y # Resting
    BY <2>2 DEF Continues, Resting
  <2>4. QED BY <1>1, <2>2, <2>3, FlushGoes
<1>2. CASE thr[t].op # "close"
  <2>1. Return(t)
    BY <1>2 DEF FlushDone
  <2>2. QED BY <2>1, ReturnProper, RestingRecord
<1>3. QED BY <1>1, <1>2

\* The handle that a flush leaves clean.
LEMMA CleanFile ==
    ASSUME Types, NEW h \in Handles, file' = [file EXCEPT ![h].state = "clean"]
    PROVE  /\ file' \in [Handles -> File]
           /\ \A g \in Handles : file'[g].iso = file[g].iso /\ file'[g].vfs = file[g].vfs
<1>1. file \in [Handles -> File]
  BY DEF Types
<1>2. QED BY <1>1 DEF File

\* The handle that a read moves.
LEMMA MovedFile ==
    ASSUME Types, NEW h \in Handles, NEW n \in Nat, file' = [file EXCEPT ![h].pos = n]
    PROVE  /\ file' \in [Handles -> File]
           /\ \A g \in Handles : file'[g].iso = file[g].iso /\ file'[g].vfs = file[g].vfs
<1>1. file \in [Handles -> File]
  BY DEF Types
<1>2. QED BY <1>1 DEF File

LEMMA ReadSeekShape ==
    ASSUME Shape, NEW t \in Threads, NEW h \in Handles, NEW off \in Offsets, ReadSeek(t, h, off)
    PROVE  Shape'
<1>1. Types /\ tableLock' \in Threads \cup {None} /\ tableLock' = tableLock /\ h # None /\ off \in Nat
  BY NoneIsNothing, ConstantsAssumption DEF Shape, Types, ReadSeek
<1>2. CanUse(t, h) /\ CanStart(t) /\ file[h].iso # None /\ file[h].iso \in Isos \cup {None}
  BY <1>1 DEF ReadSeek, CanUse, Opened, Types, File
<1>3. PICK y \in Thread : /\ thr' = [thr EXCEPT ![t] = y]
                          /\ y.pc = "read" /\ y.op = "read" /\ y.iso = file[h].iso
                          /\ y.h = h
  BY <1>1, <1>2, BeginRecord DEF ReadSeek
<1>4. PcInv(y) /\ TableInv(y, t)' /\ FileInv(y)
  BY <1>1, <1>2, <1>3 DEF PcInv, TableInv, FileInv, Mounting, InLoop, InBody
<1>5. \A u \in Threads \ {t} : Apart(y, thr[u]) /\ Apart(thr[u], y)
  BY <1>2, <1>3, BeginApart
<1>6. thr[t].pc # "mounting"
  BY <1>2 DEF CanStart
<1>7. file' \in [Handles -> File] /\ \A g \in Handles : file'[g].iso = file[g].iso
  BY <1>1, MovedFile DEF ReadSeek
<1>8. /\ UNCHANGED <<set, table, mount, live>>
      /\ cache' \in [Isos -> Cache] /\ sidecar' \in [Isos -> Tags \cup {None}]
      /\ committed' \in [Isos -> Tags \cup {None}] /\ faults' \in 0..MaxFaults
  BY <1>1 DEF ReadSeek, Types
<1>9. QED BY <1>1, <1>3, <1>4, <1>5, <1>6, <1>7, <1>8, DataMoves

LEMMA ReadDataShape == ASSUME Shape, NEW t \in Threads, ReadData(t) PROVE Shape'
<1>1. Types /\ thr[t].pc = "read" /\ thr[t].h \in Handles
  BY CallRecord DEF ReadData, Shape
<1>2. PICK n \in Nat : n = file[thr[t].h].pos + 1
  BY <1>1 DEF Types, File
<1>3. file' = [file EXCEPT ![thr[t].h].pos = n]
  BY <1>1, <1>2 DEF ReadData, Types
<1>4. file' \in [Handles -> File] /\ \A g \in Handles : file'[g].iso = file[g].iso
  BY <1>1, <1>3, MovedFile
<1>5. Resting \in Thread /\ Proper(t, Resting)
  BY ReturnProper DEF ReadData
<1>6. /\ UNCHANGED <<set, table, tableLock, mount, live>>
      /\ cache' \in [Isos -> Cache] /\ sidecar' \in [Isos -> Tags \cup {None}]
      /\ committed' \in [Isos -> Tags \cup {None}] /\ faults' \in 0..MaxFaults
  BY <1>1 DEF ReadData, Types
<1>7. QED BY <1>1, <1>4, <1>5, <1>6, DataStep

\* The handle that a write gives a tag.
LEMMA WrittenFile ==
    ASSUME Types, NEW h \in Handles, NEW tag \in Tags,
           file' = [file EXCEPT ![h].buf = tag, ![h].state = "dirty"]
    PROVE  /\ file' \in [Handles -> File]
           /\ \A g \in Handles : file'[g].iso = file[g].iso /\ file'[g].vfs = file[g].vfs
<1>1. file \in [Handles -> File] /\ file[h] \in File
  BY DEF Types
<1>2. PICK r \in File : r = [file[h] EXCEPT !.buf = tag, !.state = "dirty"]
  BY <1>1 DEF File
<1>3. r.iso = file[h].iso /\ r.vfs = file[h].vfs /\ r.pos = file[h].pos
  BY <1>1, <1>2 DEF File
<1>4. file' = [file EXCEPT ![h] = r]
  BY <1>1, <1>2
<1>5. QED BY <1>1, <1>3, <1>4

LEMMA WriteShape ==
    ASSUME Shape, NEW t \in Threads, NEW h \in Handles, NEW tag \in Tags, Write(t, h, tag)
    PROVE  Shape'
<1>1. Types /\ tableLock' \in Threads \cup {None} /\ tableLock' = tableLock /\ thr \in [Threads -> Thread]
  BY DEF Shape, Types, Write
<1>2. PICK y \in Thread : y = thr[t]
  BY <1>1
<1>3. thr' = [thr EXCEPT ![t] = y]
  BY <1>1, <1>2 DEF Write
<1>4. PcInv(y) /\ TableInv(y, t)' /\ FileInv(y) /\ y.pc # "mounting" /\ thr[t].pc # "mounting"
  BY <1>2 DEF Shape, Write, CanUse, CanStart, TableInv, Mounting, InLoop, InBody
<1>5. \A u \in Threads \ {t} : Apart(y, thr[u]) /\ Apart(thr[u], y)
  BY <1>2 DEF Shape
<1>7. file' \in [Handles -> File] /\ \A g \in Handles : file'[g].iso = file[g].iso
  BY <1>1, WrittenFile DEF Write
<1>8. /\ UNCHANGED <<set, table, mount, live>>
      /\ cache' \in [Isos -> Cache] /\ sidecar' \in [Isos -> Tags \cup {None}]
      /\ committed' \in [Isos -> Tags \cup {None}] /\ faults' \in 0..MaxFaults
  BY <1>1 DEF Write, Types
<1>9. QED BY <1>1, <1>3, <1>4, <1>5, <1>7, <1>8, DataMoves

\* The cache that is given a tag.
LEMMA TaggedCache ==
    ASSUME Types, NEW i \in Isos, NEW tag \in Tags \cup {None},
           cache' = [cache EXCEPT ![i].tag = tag, ![i].flags = @ \cup {"valid", "dirty"}]
    PROVE  /\ cache' \in [Isos -> Cache]
           /\ cache'[i].tag = tag /\ "valid" \in cache'[i].flags /\ "dirty" \in cache'[i].flags
           /\ \A j \in Isos \ {i} : cache'[j] = cache[j]
<1>1. cache \in [Isos -> Cache] /\ cache[i] \in Cache
  BY DEF Types
<1>2. PICK f \in SUBSET {"valid", "dirty", "xml"} : f = cache[i].flags \cup {"valid", "dirty"}
  BY <1>1 DEF Cache
<1>3. PICK r \in Cache : r = [cache[i] EXCEPT !.tag = tag, !.flags = f]
  BY <1>1 DEF Cache
<1>4. r.tag = tag /\ r.flags = f
  BY <1>1, <1>3 DEF Cache
<1>5. cache' = [cache EXCEPT ![i] = r]
  BY <1>1, <1>2, <1>3
<1>6. QED BY <1>1, <1>2, <1>4, <1>5

\* The cache that has lost its tag.
LEMMA LostCache ==
    ASSUME Types, NEW i \in Isos,
           cache' = [cache EXCEPT ![i].tag = None, ![i].flags = @ \ {"valid"}]
    PROVE  cache' \in [Isos -> Cache]
<1>1. cache \in [Isos -> Cache] /\ cache[i] \in Cache
  BY DEF Types
<1>2. PICK f \in SUBSET {"valid", "dirty", "xml"} : f = cache[i].flags \ {"valid"}
  BY <1>1 DEF Cache
<1>3. PICK r \in Cache : r = [cache[i] EXCEPT !.tag = None, !.flags = f]
  BY <1>1 DEF Cache
<1>5. cache' = [cache EXCEPT ![i] = r]
  BY <1>1, <1>2, <1>3
<1>6. QED BY <1>1, <1>5

\* The cache whose tag has gone into a document.
LEMMA SavedCache ==
    ASSUME Types, NEW i \in Isos,
           cache' = [cache EXCEPT ![i].flags = (@ \ {"dirty"}) \cup {"xml"}]
    PROVE  /\ cache' \in [Isos -> Cache]
           /\ cache'[i].tag = cache[i].tag /\ "xml" \in cache'[i].flags
           /\ "valid" \in cache[i].flags => "valid" \in cache'[i].flags
           /\ \A j \in Isos \ {i} : cache'[j] = cache[j]
<1>1. cache \in [Isos -> Cache] /\ cache[i] \in Cache
  BY DEF Types
<1>2. PICK f \in SUBSET {"valid", "dirty", "xml"} : f = (cache[i].flags \ {"dirty"}) \cup {"xml"}
  BY <1>1 DEF Cache
<1>3. PICK r \in Cache : r = [cache[i] EXCEPT !.flags = f]
  BY <1>1 DEF Cache
<1>4. r.tag = cache[i].tag /\ r.flags = f
  BY <1>1, <1>3 DEF Cache
<1>5. cache' = [cache EXCEPT ![i] = r]
  BY <1>1, <1>2, <1>3
<1>6. QED BY <1>1, <1>2, <1>4, <1>5

\* A failure is counted.
LEMMA Fault == ASSUME Types, faults < MaxFaults, faults' = faults + 1
               PROVE  faults' \in 0..MaxFaults /\ faults' # 0
BY ConstantsAssumption DEF Types

LEMMA SetTagShape == ASSUME Shape, NEW t \in Threads, SetTag(t) PROVE Shape'
<1>1. /\ Types /\ thr[t].pc = "set" /\ thr[t].h \in Handles /\ thr[t].iso \in Isos
      /\ UNCHANGED <<set, table, tableLock, mount, live, sidecar>>
  BY CallRecord DEF SetTag, Shape
<1>2. file[thr[t].h].buf \in Tags \cup {None}
  BY <1>1 DEF Types, File
<1>3. sidecar' \in [Isos -> Tags \cup {None}]
  BY <1>1 DEF Types
<1>4. CASE Usable(t) /\ Goto(t, "save") /\ UNCHANGED <<file, faults>>
           /\ cache' = [cache EXCEPT ![thr[t].iso].tag = file[thr[t].h].buf,
                                     ![thr[t].iso].flags = @ \cup {"valid", "dirty"}]
           /\ committed' = [committed EXCEPT ![thr[t].iso] = file[thr[t].h].buf]
  <2>1. PICK y \in Thread :
              /\ thr' = [thr EXCEPT ![t] = y]
              /\ y.pc = "save" /\ y.op = thr[t].op /\ y.iso = thr[t].iso /\ y.h = thr[t].h
    BY <1>1, <1>4, GotoRecord
  <2>2. Continues(thr[t], y) /\ y # Resting
    BY <2>1 DEF Continues, Resting
  <2>3. Proper(t, y)
    BY <1>1, <2>1, <2>2, FlushGoes
  <2>4. cache' \in [Isos -> Cache]
    BY <1>1, <1>2, <1>4, TaggedCache
  <2>5. /\ committed' \in [Isos -> Tags \cup {None}] /\ faults' \in 0..MaxFaults
        /\ file' \in [Handles -> File] /\ \A h \in Handles : file'[h].iso = file[h].iso
    BY <1>1, <1>2, <1>4 DEF Types
  <2>6. QED BY <1>1, <1>3, <2>3, <2>4, <2>5, DataStep
<1>5. CASE /\ FlushDone(t) /\ UNCHANGED committed
           /\ file' = [file EXCEPT ![thr[t].h].state = "clean"]
           /\ \/ /\ faults < MaxFaults /\ faults' = faults + 1
                 /\ cache' = [cache EXCEPT ![thr[t].iso].tag = None,
                                           ![thr[t].iso].flags = @ \ {"valid"}]
              \/ UNCHANGED <<cache, faults>>
  <2>1. PICK y \in Thread : Proper(t, y)
    BY <1>1, <1>5, FlushDoneProper
  <2>2. file' \in [Handles -> File] /\ \A h \in Handles : file'[h].iso = file[h].iso
    BY <1>1, <1>5, CleanFile
  <2>3. cache' \in [Isos -> Cache] /\ faults' \in 0..MaxFaults
    BY <1>1, <1>5, LostCache, Fault DEF Types
  <2>4. committed' \in [Isos -> Tags \cup {None}]
    BY <1>1, <1>5 DEF Types
  <2>6. QED BY <1>1, <1>3, <2>1, <2>2, <2>3, <2>4, DataStep
<1>6. QED BY <1>4, <1>5 DEF SetTag

\* What building the document does to the cache, and its result.
LEMMA BuiltRecord ==
    ASSUME Types, NEW t \in Threads, NEW i \in Isos, NEW pc \in {"write", "clean_write"},
           SaveBuild(t, i, pc)
    PROVE  /\ cache' \in [Isos -> Cache] /\ faults' \in 0..MaxFaults
           /\ faults' = 0 =>
                 /\ cache'[i].tag = cache[i].tag /\ "xml" \in cache'[i].flags
                 /\ "valid" \in cache'[i].flags
                 /\ \A j \in Isos \ {i} : cache'[j] = cache[j]
           /\ sidecar' = sidecar
           /\ \E y \in Thread :
                 /\ thr' = [thr EXCEPT ![t] = y]
                 /\ y.pc = pc /\ y.op = thr[t].op /\ y.iso = thr[t].iso /\ y.vfs = thr[t].vfs
                 /\ y.h = thr[t].h /\ y.n = thr[t].n
                 /\ faults' = 0 => y.doc = cache[i].tag
<1>1. thr[t] \in Thread /\ cache[i].tag \in Tags \cup {None} /\ "valid" \in cache[i].flags
  BY DEF Types, Cache, SaveBuild, HasData
<1>2. PICK d \in Tags \cup {None} :
         /\ thr' = [thr EXCEPT ![t].doc = d, ![t].pc = pc]
         /\ \/ /\ cache' = [cache EXCEPT ![i].flags = (@ \ {"dirty"}) \cup {"xml"}]
               /\ d = cache[i].tag /\ UNCHANGED faults
            \/ faults < MaxFaults /\ faults' = faults + 1 /\ UNCHANGED cache
  BY <1>1 DEF SaveBuild
<1>3. cache' \in [Isos -> Cache] /\ faults' \in 0..MaxFaults
  BY <1>2, SavedCache, Fault DEF Types
<1>4. faults' = 0 => /\ d = cache[i].tag
                     /\ cache' = [cache EXCEPT ![i].flags = (@ \ {"dirty"}) \cup {"xml"}]
  BY <1>2, Fault
<1>5. faults' = 0 => /\ cache'[i].tag = cache[i].tag /\ "xml" \in cache'[i].flags
                     /\ "valid" \in cache'[i].flags
                     /\ \A j \in Isos \ {i} : cache'[j] = cache[j]
  BY <1>1, <1>4, SavedCache
<1>6. \E y \in Thread :
                 /\ thr' = [thr EXCEPT ![t] = y]
                 /\ y.pc = pc /\ y.op = thr[t].op /\ y.iso = thr[t].iso /\ y.vfs = thr[t].vfs
                 /\ y.h = thr[t].h /\ y.n = thr[t].n /\ y.doc = d
  <2> DEFINE z == [thr[t] EXCEPT !.doc = d, !.pc = pc]
  <2>1. z \in Thread
    BY <1>1 DEF Thread
  <2>2. /\ z.pc = pc /\ z.op = thr[t].op /\ z.iso = thr[t].iso /\ z.vfs = thr[t].vfs
        /\ z.h = thr[t].h /\ z.n = thr[t].n /\ z.doc = d
    BY <1>1 DEF Thread
  <2>3. thr' = [thr EXCEPT ![t] = z]
    BY <1>2 DEF Types
  <2>4. QED BY <2>1, <2>2, <2>3
<1>7. sidecar' = sidecar
  BY DEF SaveBuild
<1>8. QED BY <1>3, <1>4, <1>5, <1>6, <1>7

LEMMA FlushSaveShape == ASSUME Shape, NEW t \in Threads, FlushSave(t) PROVE Shape'
<1>1. /\ Types /\ thr[t].pc = "save" /\ thr[t].h \in Handles /\ thr[t].iso \in Isos
      /\ UNCHANGED <<set, table, tableLock, mount, live, committed>>
      /\ cache \in [Isos -> Cache] /\ sidecar \in [Isos -> Tags \cup {None}]
      /\ faults \in 0..MaxFaults /\ file \in [Handles -> File]
  BY CallRecord DEF FlushSave, Shape, Types
<1>2. committed' \in [Isos -> Tags \cup {None}]
  BY <1>1 DEF Types
<1>3. CASE SaveBuild(t, thr[t].iso, "write") /\ UNCHANGED file
  <2>1. PICK y \in Thread :
              /\ thr' = [thr EXCEPT ![t] = y]
              /\ y.pc = "write" /\ y.op = thr[t].op /\ y.iso = thr[t].iso /\ y.h = thr[t].h
    BY <1>1, <1>3, BuiltRecord
  <2>2. Continues(thr[t], y) /\ y # Resting
    BY <2>1 DEF Continues, Resting
  <2>3. Proper(t, y)
    BY <1>1, <2>1, <2>2, FlushGoes
  <2>4. cache' \in [Isos -> Cache] /\ faults' \in 0..MaxFaults /\ sidecar' = sidecar
    BY <1>1, <1>3, BuiltRecord
  <2>6. QED BY <1>1, <1>2, <1>3, <2>3, <2>4, DataStep
<1>5. CASE /\ FlushDone(t) /\ ClearDirty(thr[t].h)
           /\ UNCHANGED <<cache, faults>>
           /\ SaveNothing(thr[t].iso) \/ UNCHANGED sidecar
  <2>1. PICK y \in Thread : Proper(t, y)
    BY <1>1, <1>5, FlushDoneProper
  <2>2. file' \in [Handles -> File] /\ \A h \in Handles : file'[h].iso = file[h].iso
    BY <1>1, <1>5, CleanFile DEF ClearDirty
  <2>3. sidecar' \in [Isos -> Tags \cup {None}]
    BY <1>1, <1>5 DEF SaveNothing
  <2>6. QED BY <1>1, <1>2, <1>5, <2>1, <2>2, <2>3, DataStep
<1>6. QED BY <1>3, <1>5 DEF FlushSave, SaveNothing

\* What writing the document does.
LEMMA WrittenSidecar ==
    ASSUME Types, NEW i \in Isos, NEW doc \in Tags \cup {None}, SaveWrite(i, doc)
    PROVE  /\ sidecar' \in [Isos -> Tags \cup {None}] /\ faults' \in 0..MaxFaults
           /\ faults' = 0 => faults = 0 /\ sidecar' = [sidecar EXCEPT ![i] = doc]
BY Fault DEF SaveWrite, Types

LEMMA FlushWriteShape == ASSUME Shape, NEW t \in Threads, FlushWrite(t) PROVE Shape'
<1>1. /\ Types /\ thr[t].pc = "write" /\ thr[t].h \in Handles /\ thr[t].iso \in Isos
      /\ thr[t] \in Thread
      /\ UNCHANGED <<set, table, tableLock, mount, live, cache, committed>>
      /\ FlushDone(t) /\ ClearDirty(thr[t].h)
  BY CallRecord DEF FlushWrite, Shape
<1>2. committed' \in [Isos -> Tags \cup {None}] /\ cache' \in [Isos -> Cache]
  BY <1>1 DEF Types
<1>3. thr[t].doc \in Tags \cup {None}
  BY <1>1 DEF Thread
<1>4. sidecar' \in [Isos -> Tags \cup {None}] /\ faults' \in 0..MaxFaults
  BY <1>1, <1>3, WrittenSidecar DEF FlushWrite
<1>5. PICK y \in Thread : Proper(t, y)
  BY <1>1, FlushDoneProper
<1>6. file' \in [Handles -> File] /\ \A h \in Handles : file'[h].iso = file[h].iso
  BY <1>1, CleanFile DEF ClearDirty
<1>7. QED BY <1>1, <1>2, <1>4, <1>5, <1>6, DataStep

\* What a thread in the body of the cleanup carries.
LEMMA BodyRecord ==
    ASSUME Shape, NEW t \in Threads, thr[t].pc \in InBody
    PROVE  /\ thr[t] \in Thread /\ thr[t].n \in 1..Len(table) /\ Len(table) \in Nat
           /\ table[thr[t].n] \in Isos /\ table[thr[t].n] \in Registered
           /\ thr[t].doc \in Tags \cup {None}
           /\ thr[t].op = "stat" /\ thr[t].h = None /\ thr[t].iso # None
           /\ Timeout /\ tableLock = t /\ Types
<1>1. thr[t] \in Thread /\ PcInv(thr[t]) /\ TableInv(thr[t], t) /\ Types
  BY DEF Shape, Types
<1>2. thr[t].n \in 1..Len(table) /\ Timeout /\ tableLock = t /\ thr[t].op = "stat"
  BY <1>1 DEF TableInv, InBody, InLoop, PcInv
<1>3. thr[t].h = None /\ thr[t].iso # None
  BY <1>1, <1>2 DEF PcInv
<1>4. QED BY <1>1, <1>2, <1>3, TableIndex DEF Thread

\* A thread that goes on within the body.
LEMMA BodyGoes ==
    ASSUME Shape, NEW t \in Threads, thr[t].pc \in InBody,
           NEW y \in Thread, thr' = [thr EXCEPT ![t] = y],
           y.pc \in {"clean_write", "clean_close"}, Continues(thr[t], y), y # Resting,
           y.n = thr[t].n, UNCHANGED <<set, table, tableLock>>
    PROVE  Proper(t, y)
<1>1. /\ thr[t].n \in 1..Len(table) /\ Len(table) \in Nat
      /\ thr[t].op = "stat" /\ thr[t].h = None /\ thr[t].iso # None
      /\ Timeout /\ tableLock = t
  BY BodyRecord
<1>2. y.op = "stat" /\ y.h = None /\ y.iso # None
  BY <1>1 DEF Continues
<1>3. y.n \in 1..(Len(table) + 1)
  BY <1>1
<1>4. PcInv(y)
  BY <1>2 DEF PcInv
<1>5. TableInv(y, t)' /\ FileInv(y)
  BY <1>1, <1>2, <1>3 DEF TableInv, FileInv, Mounting, InLoop, InBody, Timeout
<1>6. QED BY <1>4, <1>5 DEF Proper

LEMMA CleanSaveShape == ASSUME Shape, NEW t \in Threads, CleanSave(t) PROVE Shape'
<1>1. /\ Types /\ thr[t].pc = "clean_save" /\ thr[t].pc \in InBody /\ table[thr[t].n] \in Isos
      /\ UNCHANGED <<set, table, tableLock, mount, live, file, committed>>
      /\ cache \in [Isos -> Cache] /\ sidecar \in [Isos -> Tags \cup {None}]
      /\ faults \in 0..MaxFaults /\ file \in [Handles -> File]
  BY BodyRecord DEF CleanSave, Shape, Types, InBody
<1>2. committed' \in [Isos -> Tags \cup {None}]
  BY <1>1 DEF Types
<1>3. CASE SaveBuild(t, table[thr[t].n], "clean_write")
  <2>1. PICK y \in Thread :
              /\ thr' = [thr EXCEPT ![t] = y]
              /\ y.pc = "clean_write" /\ y.op = thr[t].op /\ y.iso = thr[t].iso /\ y.h = thr[t].h
              /\ y.n = thr[t].n
    BY <1>1, <1>3, BuiltRecord
  <2>2. Continues(thr[t], y) /\ y # Resting
    BY <2>1 DEF Continues, Resting
  <2>3. Proper(t, y)
    BY <1>1, <2>1, <2>2, BodyGoes
  <2>4. cache' \in [Isos -> Cache] /\ faults' \in 0..MaxFaults /\ sidecar' = sidecar
    BY <1>1, <1>3, BuiltRecord
  <2>6. QED BY <1>1, <1>2, <1>3, <2>3, <2>4, DataStep
<1>5. CASE /\ Goto(t, "clean_close")
           /\ UNCHANGED <<cache, faults>>
           /\ SaveNothing(table[thr[t].n]) \/ UNCHANGED sidecar
  <2>1. PICK y \in Thread :
              /\ thr' = [thr EXCEPT ![t] = y]
              /\ y.pc = "clean_close" /\ y.op = thr[t].op /\ y.iso = thr[t].iso /\ y.h = thr[t].h
              /\ y.n = thr[t].n
    BY <1>1, <1>5, GotoRecord
  <2>2. Continues(thr[t], y) /\ y # Resting
    BY <2>1 DEF Continues, Resting
  <2>4. Proper(t, y)
    BY <1>1, <2>1, <2>2, BodyGoes
  <2>3. sidecar' \in [Isos -> Tags \cup {None}]
    BY <1>1, <1>5 DEF SaveNothing
  <2>6. QED BY <1>1, <1>2, <1>5, <2>4, <2>3, DataStep
<1>6. QED BY <1>3, <1>5 DEF CleanSave, SaveNothing

LEMMA CleanWriteShape == ASSUME Shape, NEW t \in Threads, CleanWrite(t) PROVE Shape'
<1>1. /\ Types /\ thr[t].pc = "clean_write" /\ thr[t].pc \in InBody /\ table[thr[t].n] \in Isos
      /\ thr[t].doc \in Tags \cup {None}
      /\ UNCHANGED <<set, table, tableLock, mount, live, cache, file, committed>>
  BY BodyRecord DEF CleanWrite, Shape, InBody
<1>2. /\ committed' \in [Isos -> Tags \cup {None}] /\ cache' \in [Isos -> Cache]
      /\ file' \in [Handles -> File] /\ \A h \in Handles : file'[h].iso = file[h].iso
  BY <1>1 DEF Types
<1>3. sidecar' \in [Isos -> Tags \cup {None}] /\ faults' \in 0..MaxFaults
  BY <1>1, WrittenSidecar DEF CleanWrite
<1>4. PICK y \in Thread :
              /\ thr' = [thr EXCEPT ![t] = y]
              /\ y.pc = "clean_close" /\ y.op = thr[t].op /\ y.iso = thr[t].iso /\ y.h = thr[t].h
              /\ y.n = thr[t].n
  BY <1>1, GotoRecord DEF CleanWrite
<1>5. Continues(thr[t], y) /\ y # Resting
  BY <1>4 DEF Continues, Resting
<1>6. Proper(t, y)
  BY <1>1, <1>4, <1>5, BodyGoes
<1>7. QED BY <1>1, <1>2, <1>3, <1>6, DataStep

----------------------------------------------------------------------------
(* Steps that change a mount.                                              *)

\* A step of a thread that changes one mount, and a handle nobody else uses.
LEMMA MountStep ==
    ASSUME Shape, NEW t \in Threads, NEW y \in Thread, NEW i \in Isos, i \in Registered,
           thr' = [thr EXCEPT ![t] = y],
           UNCHANGED <<set, table, tableLock, sidecar, committed, faults>>,
           mount' \in [Isos -> Mount], live' \in [Isos -> SUBSET Contexts],
           cache' \in [Isos -> Cache], file' \in [Handles -> File],
           \A j \in Isos \ {i} : mount'[j] = mount[j] /\ live'[j] = live[j],
           MountInv(i)', LockInv(y, t)',
           thr[t].pc = "mounting" => thr[t].iso = i,
           \A u \in Threads \ {t} : thr[u].pc = "mounting" /\ thr[u].iso = i =>
               /\ mount'[i].lock = mount[i].lock /\ mount'[i].vfs = mount[i].vfs
               /\ mount'[i].state = mount[i].state,
           \A u \in Threads \ {t} : thr[u].h # None => file'[thr[u].h].iso = file[thr[u].h].iso,
           \A h \in Handles : file'[h].iso # None => file'[h].iso \in Registered,
           thr[t].pc # "idle", Continues(thr[t], y),
           PcInv(y), TableInv(y, t)', FileInv(y)'
    PROVE  Shape'
<1>0. \A u \in Threads \ {t} : Apart(y, thr[u]) /\ Apart(thr[u], y)
  BY StepApart
<1>1. /\ thr' \in [Threads -> Thread]
      /\ thr'[t] = y
      /\ \A u \in Threads \ {t} : thr'[u] = thr[u]
      /\ \A u \in Threads : PcInv(thr'[u])
      /\ \A u, v \in Threads : u # v => Apart(thr[u], thr[v])'
  BY <1>0, ThreadShape
<1>2. Types'
  BY <1>1 DEF Shape, Types
<1>3. ASSUME NEW u \in Threads PROVE TableInv(thr[u], u)'
  BY <1>1 DEF Shape, TableInv, Registered, Timeout
<1>4. ASSUME NEW u \in Threads PROVE FileInv(thr[u])'
  <2>1. CASE u = t
    BY <2>1, <1>1 DEF FileInv
  <2>2. CASE u # t
    <3>1. thr'[u] = thr[u] /\ FileInv(thr[u]) /\ PcInv(thr[u])
      BY <2>2, <1>1 DEF Shape
    <3>2. thr[u].op \in {"open", "read", "flush", "close"} =>
             file'[thr[u].h].iso = file[thr[u].h].iso
      BY <2>2, <3>1 DEF PcInv
    <3>3. QED BY <3>1, <3>2 DEF FileInv
  <2>3. QED BY <2>1, <2>2
<1>5. ASSUME NEW u \in Threads PROVE LockInv(thr[u], u)'
  <2>1. CASE u = t
    BY <2>1, <1>1 DEF LockInv
  <2>2. CASE u # t
    <3>1. thr'[u] = thr[u] /\ LockInv(thr[u], u) /\ thr[u] \in Thread /\ PcInv(thr[u])
      BY <2>2, <1>1 DEF Shape, Types
    <3>2. thr[u].pc = "mounting" => thr[u].iso \in Isos
      BY <3>1 DEF PcInv, Thread
    <3>3. thr[u].pc = "mounting" =>
             /\ mount'[thr[u].iso].lock = mount[thr[u].iso].lock
             /\ mount'[thr[u].iso].vfs = mount[thr[u].iso].vfs
             /\ mount'[thr[u].iso].state = mount[thr[u].iso].state
      BY <2>2, <3>2
    <3>4. QED BY <3>1, <3>3 DEF LockInv
  <2>3. QED BY <2>1, <2>2
<1>6. ASSUME NEW j \in Isos PROVE MountInv(j)'
  <2>1. CASE j = i
    BY <2>1
  <2>2. CASE j # i
    <3>1. MountInv(j) /\ mount'[j] = mount[j] /\ live'[j] = live[j]
      BY <2>2 DEF Shape
    <3>2. mount[j].lock # None => mount[j].lock \in Threads \ {t}
      BY <3>1, <2>2 DEF Shape, Types, Mount, MountInv
    <3>3. QED BY <3>1, <3>2, <1>1 DEF MountInv, Registered
  <2>3. QED BY <2>1, <2>2
<1>7. \A h \in Handles : file'[h].iso # None => file'[h].iso \in Registered'
  BY DEF Shape, Registered
<1>8. QED BY <1>1, <1>2, <1>3, <1>4, <1>5, <1>6, <1>7 DEF Shape, PcInv

\* What a thread that mounts carries.
LEMMA MountingRecord ==
    ASSUME Shape, NEW t \in Threads, thr[t].pc \in Mounting
    PROVE  /\ thr[t] \in Thread /\ thr[t].iso \in Isos /\ thr[t].iso \in Registered
           /\ thr[t].op \in {"stat", "open"} /\ mount[thr[t].iso] \in Mount
           /\ (thr[t].op = "open" <=> thr[t].h # None)
           /\ (thr[t].op = "open" => thr[t].h \in Handles /\ file[thr[t].h].iso = None)
           /\ PcInv(thr[t]) /\ TableInv(thr[t], t) /\ FileInv(thr[t]) /\ Types
           /\ MountInv(thr[t].iso) /\ LockInv(thr[t], t)
<1>1. thr[t] \in Thread /\ PcInv(thr[t]) /\ TableInv(thr[t], t) /\ FileInv(thr[t]) /\ Types
      /\ LockInv(thr[t], t)
  BY DEF Shape, Types
<1>2. thr[t].op \in {"stat", "open"} /\ thr[t].iso \in Registered
  BY <1>1 DEF PcInv, TableInv, Mounting
<1>3. thr[t].iso \in Isos
  BY <1>1, <1>2 DEF PcInv, Thread
<1>4. (thr[t].op = "open" <=> thr[t].h # None) /\ thr[t].h \in Handles \cup {None}
  BY <1>1, <1>2 DEF PcInv, Thread
<1>5. thr[t].op = "open" => file[thr[t].h].iso = None
  BY <1>1 DEF FileInv
<1>6. QED BY <1>1, <1>2, <1>3, <1>4, <1>5 DEF Shape, Types

\* The record of a thread that has its context.
LEMMA MountedRecord ==
    ASSUME Shape, NEW t \in Threads, thr[t].pc \in {"ensure", "mounting"},
           NEW c \in Contexts, MountedAs(t, c), UNCHANGED <<table, file>>
    PROVE  \E y \in Thread :
              /\ thr' = [thr EXCEPT ![t] = y] /\ Continues(thr[t], y)
              /\ y.pc \in {"vfs_open", "use"} /\ y.vfs = c /\ y.iso = thr[t].iso /\ y.op = thr[t].op
              /\ PcInv(y) /\ TableInv(y, t)' /\ FileInv(y)'
<1>1. /\ thr[t] \in Thread /\ thr[t].iso \in Isos /\ thr[t].iso \in Registered
      /\ thr[t].op \in {"stat", "open"}
      /\ PcInv(thr[t]) /\ FileInv(thr[t]) /\ Types /\ c # None
  BY MountingRecord, NoneIsNothing DEF Mounting
<1>2. PICK pc \in {"vfs_open", "use"} : pc = NextPc(t) /\ (pc = "vfs_open" <=> thr[t].op = "open")
  BY DEF NextPc
<1>3. PICK y \in Thread :
              /\ thr' = [thr EXCEPT ![t] = y]
              /\ y.pc = pc /\ y.vfs = c /\ y.iso = thr[t].iso /\ y.h = thr[t].h
              /\ y.op = thr[t].op
  <2> DEFINE z == [thr[t] EXCEPT !.vfs = c, !.pc = pc]
  <2>1. z \in Thread
    BY <1>1 DEF Thread
  <2>2. /\ z.pc = pc /\ z.op = thr[t].op /\ z.iso = thr[t].iso /\ z.vfs = c /\ z.h = thr[t].h
    BY <1>1 DEF Thread
  <2>3. thr' = [thr EXCEPT ![t] = z]
    BY <1>1, <1>2 DEF Types, MountedAs
  <2>4. QED BY <2>1, <2>2, <2>3
<1>4. PcInv(y)
  BY <1>1, <1>2, <1>3 DEF PcInv, InLoop
<1>5. TableInv(y, t)'
  BY <1>1, <1>2, <1>3 DEF TableInv, Registered, Mounting, InLoop, InBody
<1>6. FileInv(y)'
  BY <1>1, <1>3 DEF FileInv
<1>7. QED BY <1>2, <1>3, <1>4, <1>5, <1>6 DEF Continues

LEMMA EnsureMountedShape == ASSUME Shape, NEW t \in Threads, EnsureMounted(t) PROVE Shape'
<1>1. PICK i \in Isos : i = thr[t].iso
  BY MountingRecord DEF EnsureMounted, Mounting
<1>2. /\ i \in Registered /\ mount[i] \in Mount /\ Types /\ MountInv(i)
      /\ thr[t].pc = "ensure" /\ mount[i].lock = None
      /\ UNCHANGED <<set, table, tableLock, live, cache, sidecar, file, faults, committed>>
      /\ mount' = [mount EXCEPT ![i].access = "recent"]
  BY <1>1, MountingRecord DEF EnsureMounted, Mounting
<1>3. PICK c \in Contexts : c = mount[i].vfs
  BY <1>1, <1>2 DEF Mount, EnsureMounted
<1>4. PICK y \in Thread :
              /\ thr' = [thr EXCEPT ![t] = y] /\ Continues(thr[t], y)
              /\ y.pc \in {"vfs_open", "use"}
              /\ PcInv(y) /\ TableInv(y, t)' /\ FileInv(y)'
  BY <1>1, <1>2, <1>3, MountedRecord DEF EnsureMounted
<1>5. PICK r \in Mount : r = [mount[i] EXCEPT !.access = "recent"]
  BY <1>2 DEF Mount
<1>6. r.vfs = mount[i].vfs /\ r.state = mount[i].state /\ r.refs = mount[i].refs /\ r.lock = mount[i].lock
  BY <1>2, <1>5 DEF Mount
<1>7. mount' \in [Isos -> Mount] /\ mount'[i] = r /\ \A j \in Isos \ {i} : mount'[j] = mount[j]
  BY <1>2, <1>5 DEF Types
<1>8. MountInv(i)'
  BY <1>2, <1>6, <1>7 DEF MountInv, Registered
<1>9. LockInv(y, t)'
  BY <1>4 DEF LockInv
<1>10. /\ cache' \in [Isos -> Cache] /\ live' \in [Isos -> SUBSET Contexts] /\ file' \in [Handles -> File]
       /\ \A j \in Isos \ {i} : live'[j] = live[j]
       /\ \A h \in Handles : file'[h].iso # None => file'[h].iso \in Registered
  BY <1>2 DEF Types, Shape
<1>11. QED BY <1>1, <1>2, <1>4, <1>6, <1>7, <1>8, <1>9, <1>10, MountStep, ZenonT(60)

LEMMA FreeContext ==
    ASSUME FreeContexts # {}
    PROVE  (CHOOSE c \in FreeContexts : TRUE) \in FreeContexts
OBVIOUS

LEMMA CreateVfsShape == ASSUME Shape, NEW t \in Threads, CreateVfs(t) PROVE Shape'
<1>1. PICK i \in Isos : i = thr[t].iso
  BY MountingRecord DEF CreateVfs, Mounting
<1>2. PICK c \in FreeContexts : c = CHOOSE d \in FreeContexts : TRUE
  BY FreeContext DEF CreateVfs
<1>3. /\ i \in Registered /\ mount[i] \in Mount /\ Types /\ MountInv(i)
      /\ thr[t].pc = "ensure" /\ mount[i].lock = None /\ mount[i].vfs = None
      /\ UNCHANGED <<set, table, tableLock, cache, sidecar, file, faults, committed>>
      /\ mount' = [mount EXCEPT ![i].lock = t, ![i].vfs = c, ![i].state = "closed"]
      /\ live' = [live EXCEPT ![i] = @ \cup {c}]
      /\ thr[t].op \in {"stat", "open"} /\ PcInv(thr[t]) /\ FileInv(thr[t])
  BY <1>1, <1>2, MountingRecord DEF CreateVfs, Mounting
<1>4. PICK y \in Thread :
              /\ thr' = [thr EXCEPT ![t] = y]
              /\ y.pc = "mounting" /\ y.op = thr[t].op /\ y.iso = thr[t].iso /\ y.h = thr[t].h
  <2>1. Goto(t, "mounting")
    BY DEF CreateVfs
  <2>2. QED BY <1>3, <2>1, GotoRecord
<1>5. c \in Contexts /\ c # None
  BY NoneIsNothing DEF FreeContexts
<1>6. PICK r \in Mount : r = [mount[i] EXCEPT !.lock = t, !.vfs = c, !.state = "closed"]
  BY <1>3, <1>5 DEF Mount
<1>7. r.vfs = c /\ r.state = "closed" /\ r.refs = mount[i].refs /\ r.lock = t
  BY <1>3, <1>6 DEF Mount
<1>8. mount' \in [Isos -> Mount] /\ mount'[i] = r /\ \A j \in Isos \ {i} : mount'[j] = mount[j]
  BY <1>3, <1>6 DEF Types
<1>9. /\ live' \in [Isos -> SUBSET Contexts] /\ live'[i] = {c}
      /\ \A j \in Isos \ {i} : live'[j] = live[j]
  <2>1. live[i] = {}
    BY <1>3 DEF MountInv
  <2>2. QED BY <1>3, <1>5, <2>1 DEF Types
<1>10. thr'[t] = y
  BY <1>3, <1>4 DEF Types
<1>11. MountInv(i)'
  <2>1. /\ mount'[i].vfs = c /\ mount'[i].lock = t /\ mount'[i].state = "closed"
        /\ thr'[t].pc = "mounting" /\ thr'[t].iso = i /\ Registered' = Registered
    <3>1. mount'[i].vfs = c /\ mount'[i].lock = t /\ mount'[i].state = "closed"
      BY <1>7, <1>8
    <3>2. thr'[t].pc = "mounting" /\ thr'[t].iso = i
      BY <1>1, <1>4, <1>10
    <3>3. Registered' = Registered
      BY <1>3 DEF Registered
    <3> QED
      BY <3>1, <3>2, <3>3
  <2>2. t # None
    BY NoneIsNothing
  <2>3. QED BY <1>3, <1>5, <1>9, <2>1, <2>2 DEF MountInv
<1>12. LockInv(y, t)'
  BY <1>1, <1>4, <1>5, <1>7, <1>8 DEF LockInv
<1>13. /\ cache' \in [Isos -> Cache] /\ file' \in [Handles -> File]
       /\ \A h \in Handles : file'[h].iso # None => file'[h].iso \in Registered
  BY <1>3 DEF Types, Shape
<1>14. PcInv(y)
  BY <1>3, <1>4 DEF PcInv, InLoop
<1>15. TableInv(y, t)' /\ FileInv(y)'
  BY <1>1, <1>3, <1>4 DEF TableInv, FileInv, Registered, Mounting, InLoop, InBody
<1>16. Continues(thr[t], y)
  BY <1>4 DEF Continues
<1>17. \A u \in Threads \ {t} : ~(thr[u].pc = "mounting" /\ thr[u].iso = i)
  BY <1>3, NoneIsNothing DEF Shape, LockInv
<1>18. QED BY <1>1, <1>3, <1>4, <1>8, <1>9, <1>11, <1>12, <1>13, <1>14, <1>15, <1>16, <1>17, MountStep, ZenonT(60)

\* The cache of a fresh context.
LEMMA LoadedCache == ASSUME Types, NEW i \in Isos PROVE Loaded(i) \in Cache /\ NoCache \in Cache
<1>1. NoCache \in Cache
  BY DEF NoCache, Cache
<1>2. sidecar[i] \in Tags \cup {None}
  BY DEF Types
<1>3. [tag |-> sidecar[i], flags |-> {"valid", "xml"}] \in Cache
  BY <1>2 DEF Cache
<1>4. QED BY <1>1, <1>3 DEF Loaded

LEMMA OpenVfsShape == ASSUME Shape, NEW t \in Threads, OpenVfs(t) PROVE Shape'
<1>1. PICK i \in Isos : i = thr[t].iso
  BY MountingRecord DEF OpenVfs, MountDone, Mounting
<1>2. /\ i \in Registered /\ mount[i] \in Mount /\ Types /\ MountInv(i)
      /\ thr[t].pc = "mounting" /\ mount[i].lock = t /\ mount[i].vfs # None
      /\ mount[i].state = "closed"
      /\ UNCHANGED <<set, table, tableLock, sidecar, file, faults, committed>>
      /\ LockInv(thr[t], t)
  BY <1>1, MountingRecord DEF OpenVfs, MountDone, Mounting, LockInv
<1>3. PICK c \in Contexts : c = mount[i].vfs
  BY <1>2 DEF Mount
<1>4. /\ file' \in [Handles -> File]
      /\ \A h \in Handles : file'[h].iso # None => file'[h].iso \in Registered
  BY <1>2 DEF Types, Shape
<1>5. \A u \in Threads \ {t} : ~(thr[u].pc = "mounting" /\ thr[u].iso = i)
  BY <1>2 DEF Shape, LockInv
<1>6. CASE /\ mount' = [mount EXCEPT ![i].state = "open", ![i].access = "recent", ![i].lock = None]
           /\ cache' = [cache EXCEPT ![i] = Loaded(i)] /\ MountedAs(t, c) /\ UNCHANGED live
  <2>1. PICK y \in Thread :
              /\ thr' = [thr EXCEPT ![t] = y] /\ Continues(thr[t], y)
              /\ y.pc \in {"vfs_open", "use"}
              /\ PcInv(y) /\ TableInv(y, t)' /\ FileInv(y)'
    BY <1>2, <1>6, MountedRecord
  <2>2. PICK r \in Mount : r = [mount[i] EXCEPT !.state = "open", !.access = "recent", !.lock = None]
    BY <1>2 DEF Mount
  <2>3. r.vfs = mount[i].vfs /\ r.state = "open" /\ r.refs = mount[i].refs /\ r.lock = None
    BY <1>2, <2>2 DEF Mount
  <2>4. mount' \in [Isos -> Mount] /\ mount'[i] = r /\ \A j \in Isos \ {i} : mount'[j] = mount[j]
    BY <1>2, <1>6, <2>2 DEF Types
  <2>5. MountInv(i)'
    BY <1>2, <1>6, <2>3, <2>4, ZenonT(60) DEF MountInv, Registered
  <2>6. LockInv(y, t)'
    BY <2>1 DEF LockInv
  <2>7. /\ cache' \in [Isos -> Cache] /\ live' \in [Isos -> SUBSET Contexts]
        /\ \A j \in Isos \ {i} : live'[j] = live[j]
    BY <1>2, <1>6, LoadedCache DEF Types
  <2>8. QED BY <1>1, <1>2, <1>4, <1>5, <2>1, <2>4, <2>5, <2>6, <2>7, MountStep
<1>7. CASE /\ mount' = [mount EXCEPT ![i].vfs = None, ![i].access = "recent", ![i].lock = None]
           /\ live' = [live EXCEPT ![i] = Failed(i)] /\ Return(t) /\ UNCHANGED cache
  <2>1. /\ thr' = [thr EXCEPT ![t] = Resting] /\ Continues(thr[t], Resting)
        /\ Resting \in Thread /\ PcInv(Resting) /\ TableInv(Resting, t)' /\ FileInv(Resting)'
        /\ LockInv(Resting, t)'
    BY <1>7, RestingRecord DEF Return, Continues, FileInv, LockInv
  <2>2. PICK r \in Mount : r = [mount[i] EXCEPT !.vfs = None, !.access = "recent", !.lock = None]
    BY <1>2 DEF Mount
  <2>3. r.vfs = None /\ r.state = "closed" /\ r.refs = mount[i].refs /\ r.lock = None
    BY <1>2, <2>2 DEF Mount
  <2>4. mount' \in [Isos -> Mount] /\ mount'[i] = r /\ \A j \in Isos \ {i} : mount'[j] = mount[j]
    BY <1>2, <1>7, <2>2 DEF Types
  <2>7. /\ cache' \in [Isos -> Cache] /\ live' \in [Isos -> SUBSET Contexts] /\ live'[i] = {}
        /\ \A j \in Isos \ {i} : live'[j] = live[j]
    <3>1. Failed(i) = {}
      BY <1>2 DEF MountInv, Failed
    <3>2. QED BY <1>2, <1>7, <3>1 DEF Types
  <2>5. MountInv(i)'
    BY <1>2, <2>3, <2>4, <2>7 DEF MountInv, Registered
  <2>8. QED BY <1>1, <1>2, <1>4, <1>5, <2>1, <2>4, <2>5, <2>7, MountStep
<1>8. QED BY <1>1, <1>3, <1>6, <1>7 DEF OpenVfs

LEMMA RefStoreShape == ASSUME Shape, NEW t \in Threads, RefStore(t) PROVE Shape'
<1>1. PICK i \in Isos : i = thr[t].iso
  BY MountingRecord DEF RefStore, Mounting
<1>2. /\ i \in Registered /\ mount[i] \in Mount /\ Types /\ MountInv(i)
      /\ thr[t].pc = "ref_store" /\ thr[t] \in Thread /\ thr[t].op = "open"
      /\ UNCHANGED <<set, table, tableLock, live, cache, sidecar, faults, committed>>
      /\ mount' = [mount EXCEPT ![i].refs = thr[t].n + 1, ![i].access = "recent"]
  BY <1>1, MountingRecord DEF RefStore, Mounting, PcInv
<1>3. PICK h \in Handles : h = thr[t].h
  BY <1>2, MountingRecord DEF Mounting
<1>4. /\ thr' = [thr EXCEPT ![t] = Resting] /\ Continues(thr[t], Resting)
      /\ Resting \in Thread /\ PcInv(Resting) /\ TableInv(Resting, t)' /\ FileInv(Resting)'
      /\ LockInv(Resting, t)'
  BY RestingRecord DEF RefStore, Return, Continues, FileInv, LockInv
<1>5. PICK n \in Nat : n = thr[t].n + 1
  <2>1. thr[t].n \in Nat
    BY <1>2 DEF Thread
  <2>2. QED BY <2>1
<1>6. PICK r \in Mount : r = [mount[i] EXCEPT !.refs = n, !.access = "recent"]
  BY <1>2 DEF Mount
<1>7. r.vfs = mount[i].vfs /\ r.state = mount[i].state /\ r.lock = mount[i].lock
  BY <1>2, <1>6 DEF Mount
<1>8. mount' \in [Isos -> Mount] /\ mount'[i] = r /\ \A j \in Isos \ {i} : mount'[j] = mount[j]
  BY <1>2, <1>5, <1>6 DEF Types
<1>9. /\ cache' \in [Isos -> Cache] /\ live' \in [Isos -> SUBSET Contexts]
      /\ \A j \in Isos : live'[j] = live[j]
  BY <1>2 DEF Types
<1>10. MountInv(i)'
  <2>1. mount[i].lock # None => mount[i].lock \in Threads \ {t}
    BY <1>2 DEF MountInv, Mount
  <2>2. \A u \in Threads \ {t} : thr'[u] = thr[u]
    BY <1>2, <1>4 DEF Types
  <2>3. Registered' = Registered
    BY <1>2 DEF Registered
  <2>4. QED BY <1>2, <1>7, <1>8, <1>9, <2>1, <2>2, <2>3 DEF MountInv
<1>11. PICK f \in File : /\ f.iso = i /\ f.vfs = thr[t].vfs
                         /\ file' = [file EXCEPT ![h] = f]
  <2> DEFINE g == [iso |-> i, vfs |-> thr[t].vfs, pos |-> 0, buf |-> None, state |-> "clean"]
  <2>1. thr[t].vfs \in Contexts \cup {None} /\ 0 \in Nat
    BY <1>2 DEF Thread
  <2>2. g \in File
    BY <2>1 DEF File
  <2>3. file' = [file EXCEPT ![h] = g]
    BY <1>1, <1>3 DEF RefStore
  <2>4. QED BY <2>2, <2>3
<1>12. file' \in [Handles -> File] /\ \A g \in Handles \ {h} : file'[g] = file[g]
  BY <1>2, <1>11 DEF Types
<1>13. \A g \in Handles : file'[g].iso # None => file'[g].iso \in Registered
  BY <1>2, <1>11, <1>12 DEF Shape, Types
<1>14. \A u \in Threads \ {t} : thr[u].h # None => file'[thr[u].h].iso = file[thr[u].h].iso
  <2>1. \A u \in Threads \ {t} : thr[u].h # h
    BY <1>2, <1>3, NoneIsNothing DEF Shape, Apart
  <2>2. \A u \in Threads : thr[u].h # None => thr[u].h \in Handles
    BY <1>2 DEF Types, Thread
  <2>3. QED BY <1>12, <2>1, <2>2
<1>15. /\ \A j \in Isos \ {i} : mount'[j] = mount[j] /\ live'[j] = live[j]
       /\ mount'[i].lock = mount[i].lock /\ mount'[i].vfs = mount[i].vfs
       /\ mount'[i].state = mount[i].state
       /\ thr[t].pc \notin {"idle", "mounting"}
       /\ UNCHANGED <<set, table, tableLock, sidecar, committed, faults>>
  BY <1>2, <1>7, <1>8, <1>9
<1>16. QED BY <1>2, <1>4, <1>8, <1>9, <1>10, <1>12, <1>13, <1>14, <1>15, MountStep

\* The count after a release.
LEMMA ReleasedCount == ASSUME NEW n \in Nat PROVE Released(n) \in Nat /\ Released(n) <= n
                                                  /\ (n > 0 => Released(n) = n - 1)
BY DEF Released

LEMMA ReleaseIsoShape == ASSUME Shape, NEW t \in Threads, ReleaseIso(t) PROVE Shape'
<1>1. PICK i \in Isos, h \in Handles : i = thr[t].iso /\ h = thr[t].h
  BY CallRecord DEF ReleaseIso
<1>2. /\ i \in Registered /\ mount[i] \in Mount /\ Types /\ MountInv(i)
      /\ thr[t].pc = "release" /\ thr[t] \in Thread /\ thr[t].op = "close" /\ mount[i].lock = None
      /\ UNCHANGED <<set, table, tableLock, live, cache, sidecar, faults, committed>>
      /\ mount' = [mount EXCEPT ![i].refs = Released(@)]
      /\ file' = [file EXCEPT ![h] = NoFile]
  <2>1. /\ thr[t] \in Thread /\ thr[t].op = "close" /\ FileInv(thr[t]) /\ Types
        /\ thr[t].pc = "release"
    BY CallRecord DEF ReleaseIso, PcInv
  <2>2. i \in Registered /\ MountInv(i)
    BY <1>1, <2>1, NoneIsNothing DEF FileInv, Shape
  <2>3. QED BY <1>1, <2>1, <2>2 DEF ReleaseIso, Types
<1>4. /\ thr' = [thr EXCEPT ![t] = Resting] /\ Continues(thr[t], Resting)
      /\ Resting \in Thread /\ PcInv(Resting) /\ TableInv(Resting, t)' /\ FileInv(Resting)'
      /\ LockInv(Resting, t)'
  BY RestingRecord DEF ReleaseIso, Return, Continues, FileInv, LockInv
<1>5. PICK n \in Nat : n = Released(mount[i].refs)
  <2>1. mount[i].refs \in Nat
    BY <1>2 DEF Mount
  <2>2. QED BY <2>1, ReleasedCount
<1>6. PICK r \in Mount : r = [mount[i] EXCEPT !.refs = n]
  BY <1>2 DEF Mount
<1>7. r.vfs = mount[i].vfs /\ r.state = mount[i].state /\ r.lock = mount[i].lock
  BY <1>2, <1>6 DEF Mount
<1>8. mount' \in [Isos -> Mount] /\ mount'[i] = r /\ \A j \in Isos \ {i} : mount'[j] = mount[j]
  BY <1>2, <1>5, <1>6 DEF Types
<1>9. /\ cache' \in [Isos -> Cache] /\ live' \in [Isos -> SUBSET Contexts]
      /\ \A j \in Isos : live'[j] = live[j]
  BY <1>2 DEF Types
<1>10. MountInv(i)'
  BY <1>2, <1>7, <1>8, <1>9 DEF MountInv, Registered
<1>11. NoFile \in File /\ NoFile.iso = None
  <2>1. 0 \in Nat
    OBVIOUS
  <2>2. QED BY <2>1 DEF NoFile, File
<1>12. file' \in [Handles -> File] /\ file'[h] = NoFile /\ \A g \in Handles \ {h} : file'[g] = file[g]
  BY <1>2, <1>11 DEF Types
<1>13. \A g \in Handles : file'[g].iso # None => file'[g].iso \in Registered
  BY <1>2, <1>11, <1>12 DEF Shape
<1>14. \A u \in Threads \ {t} : thr[u].h # None => file'[thr[u].h].iso = file[thr[u].h].iso
  <2>1. \A u \in Threads \ {t} : thr[u].h # h
    BY <1>1, <1>2, NoneIsNothing DEF Shape, Apart
  <2>2. \A u \in Threads : thr[u].h # None => thr[u].h \in Handles
    BY <1>2 DEF Types, Thread
  <2>3. QED BY <1>12, <2>1, <2>2
<1>15. /\ \A j \in Isos \ {i} : mount'[j] = mount[j] /\ live'[j] = live[j]
       /\ mount'[i].lock = mount[i].lock /\ mount'[i].vfs = mount[i].vfs
       /\ mount'[i].state = mount[i].state
       /\ thr[t].pc \notin {"idle", "mounting"}
       /\ UNCHANGED <<set, table, tableLock, sidecar, committed, faults>>
  BY <1>2, <1>7, <1>8, <1>9
<1>16. QED BY <1>2, <1>4, <1>8, <1>9, <1>10, <1>12, <1>13, <1>14, <1>15, MountStep

LEMMA CleanCloseShape == ASSUME Shape, NEW t \in Threads, CleanClose(t) PROVE Shape'
<1>1. PICK i \in Isos : i = table[thr[t].n]
  BY BodyRecord DEF CleanClose, InBody
<1>2. /\ i \in Registered /\ mount[i] \in Mount /\ Types /\ MountInv(i)
      /\ thr[t].pc = "clean_close" /\ thr[t] \in Thread /\ mount[i].lock = None
      /\ thr[t].op = "stat" /\ thr[t].h = None /\ thr[t].iso # None
      /\ Timeout /\ tableLock = t /\ thr[t].n \in 1..Len(table) /\ Len(table) \in Nat
      /\ UNCHANGED <<set, table, tableLock, sidecar, file, faults, committed>>
      /\ mount' = [mount EXCEPT ![i].vfs = None, ![i].state = "closed"]
      /\ live' = [live EXCEPT ![i] = @ \ {mount[i].vfs}]
      /\ cache' = [cache EXCEPT ![i] = NoCache]
  BY <1>1, BodyRecord DEF CleanClose, InBody, Shape, Types
<1>3. PICK n \in Nat : n = thr[t].n + 1 /\ n \in 1..(Len(table) + 1)
  <2>1. thr[t].n \in Nat
    BY <1>2 DEF Thread
  <2>2. QED BY <2>1, <1>2
<1>4. PICK y \in Thread :
              /\ thr' = [thr EXCEPT ![t] = y]
              /\ y.pc = "clean" /\ y.op = thr[t].op /\ y.iso = thr[t].iso /\ y.h = thr[t].h
              /\ y.n = n
  <2> DEFINE z == [thr[t] EXCEPT !.pc = "clean", !.n = n, !.vfs = None, !.doc = None]
  <2>1. z \in Thread
    BY <1>2 DEF Thread
  <2>2. z.pc = "clean" /\ z.op = thr[t].op /\ z.iso = thr[t].iso /\ z.h = thr[t].h /\ z.n = n
    BY <1>2 DEF Thread
  <2>3. thr' = [thr EXCEPT ![t] = z]
    BY <1>2, <1>3 DEF CleanClose, Types
  <2>4. QED BY <2>1, <2>2, <2>3
<1>5. Continues(thr[t], y) /\ LockInv(y, t)' /\ PcInv(y)
  BY <1>2, <1>4 DEF Continues, LockInv, PcInv
<1>6. TableInv(y, t)' /\ FileInv(y)'
  BY <1>2, <1>3, <1>4 DEF TableInv, FileInv, Mounting, InLoop, InBody, Timeout
<1>7. PICK r \in Mount : r = [mount[i] EXCEPT !.vfs = None, !.state = "closed"]
  BY <1>2 DEF Mount
<1>8. r.vfs = None /\ r.state = "closed" /\ r.refs = mount[i].refs /\ r.lock = None
  BY <1>2, <1>7 DEF Mount
<1>9. mount' \in [Isos -> Mount] /\ mount'[i] = r /\ \A j \in Isos \ {i} : mount'[j] = mount[j]
  BY <1>2, <1>7 DEF Types
<1>10. /\ cache' \in [Isos -> Cache] /\ live' \in [Isos -> SUBSET Contexts] /\ live'[i] = {}
       /\ \A j \in Isos \ {i} : live'[j] = live[j]
  <2>1. live[i] \ {mount[i].vfs} = {}
    BY <1>2 DEF MountInv
  <2>2. QED BY <1>2, <2>1, LoadedCache DEF Types
<1>11. MountInv(i)'
  BY <1>2, <1>8, <1>9, <1>10 DEF MountInv, Registered
<1>12. /\ file' \in [Handles -> File]
       /\ \A h \in Handles : file'[h].iso # None => file'[h].iso \in Registered
  BY <1>2 DEF Types, Shape
<1>13. \A u \in Threads \ {t} : ~(thr[u].pc = "mounting" /\ thr[u].iso = i)
  BY <1>2, NoneIsNothing DEF Shape, LockInv
<1>14. QED BY <1>2, <1>4, <1>5, <1>6, <1>9, <1>10, <1>11, <1>12, <1>13, MountStep

LEMMA RegisterIsoShape ==
    ASSUME Shape, NEW t \in Threads, NEW i \in Isos, RegisterIso(t, i)
    PROVE  Shape'
<1>1. /\ Types /\ i \notin Registered /\ table' = Append(table, i) /\ tableLock = None
      /\ mount' = [mount EXCEPT ![i] = NoMount] /\ MountInv(i)
      /\ UNCHANGED <<set, tableLock, live, cache, sidecar, file, thr, faults, committed>>
  BY DEF RegisterIso, CanRegister, Shape
<1>2. table' \in Seq(Isos) /\ Registered' = Registered \cup {i}
  <2>1. table \in Seq(Isos)
    BY <1>1 DEF Types
  <2>2. /\ table' \in Seq(Isos) /\ Len(table') = Len(table) + 1 /\ Len(table) \in Nat
        /\ \A k \in 1..Len(table) : table'[k] = table[k]
        /\ table'[Len(table) + 1] = i
        /\ DOMAIN table = 1..Len(table) /\ DOMAIN table' = 1..(Len(table) + 1)
    BY <1>1, <2>1
  <2>3. Registered' \subseteq Registered \cup {i}
    <3> SUFFICES ASSUME NEW k \in 1..(Len(table) + 1) PROVE table'[k] \in Registered \cup {i}
      BY <2>2 DEF Registered
    <3>1. k \in 1..Len(table) \/ k = Len(table) + 1
      BY <2>2
    <3>2. QED BY <2>2, <3>1 DEF Registered
  <2>4. Registered \subseteq Registered'
    <3> SUFFICES ASSUME NEW k \in 1..Len(table) PROVE table[k] \in Registered'
      BY <2>2 DEF Registered
    <3>1. k \in 1..(Len(table) + 1)
      BY <2>2
    <3>2. QED BY <2>2, <3>1 DEF Registered
  <2>5. i \in Registered'
    <3>1. Len(table) + 1 \in 1..(Len(table) + 1)
      BY <2>2
    <3>2. QED BY <2>2, <3>1 DEF Registered
  <2>6. QED BY <2>2, <2>3, <2>4, <2>5
<1>3. NoMount \in Mount /\ NoMount.vfs = None /\ NoMount.state = "closed" /\ NoMount.refs = 0
      /\ NoMount.lock = None
  <2>1. 0 \in Nat
    OBVIOUS
  <2>2. QED BY <2>1 DEF NoMount, Mount
<1>4. mount' \in [Isos -> Mount] /\ mount'[i] = NoMount /\ \A j \in Isos \ {i} : mount'[j] = mount[j]
  BY <1>1, <1>3 DEF Types
<1>5. Types'
  BY <1>1, <1>2, <1>4 DEF Types
<1>6. ASSUME NEW u \in Threads PROVE TableInv(thr[u], u)' /\ PcInv(thr[u])' /\ FileInv(thr[u])'
  <2>1. thr'[u] = thr[u] /\ TableInv(thr[u], u) /\ PcInv(thr[u]) /\ FileInv(thr[u])
    BY <1>1 DEF Shape
  <2>2. thr[u].pc \notin InLoop
    BY <1>1, <2>1, NoneIsNothing DEF TableInv
  <2>3. TableInv(thr[u], u)'
    BY <1>1, <1>2, <2>1, <2>2 DEF TableInv, InLoop, InBody, Timeout
  <2>4. QED BY <1>1, <2>1, <2>3 DEF PcInv, FileInv
<1>7. ASSUME NEW u \in Threads PROVE LockInv(thr[u], u)'
  <2>1. thr'[u] = thr[u] /\ TableInv(thr[u], u) /\ LockInv(thr[u], u) /\ thr[u] \in Thread /\ PcInv(thr[u])
    BY <1>1 DEF Shape, Types
  <2>2. thr[u].pc = "mounting" => thr[u].iso \in Isos \ {i}
    BY <1>1, <2>1 DEF TableInv, Mounting, PcInv, Thread
  <2>3. QED BY <1>4, <2>1, <2>2 DEF LockInv
<1>8. ASSUME NEW j \in Isos PROVE MountInv(j)'
  <2>1. CASE j = i
    <3>1. live'[i] = {}
      BY <1>1 DEF MountInv
    <3>2. QED BY <2>1, <1>2, <1>3, <1>4, <3>1 DEF MountInv
  <2>2. CASE j # i
    <3>1. MountInv(j) /\ mount'[j] = mount[j] /\ live'[j] = live[j] /\ thr' = thr
      BY <2>2, <1>1, <1>4 DEF Shape
    <3>2. QED BY <3>1, <1>2 DEF MountInv
  <2>3. QED BY <2>1, <2>2
<1>9. \A h \in Handles : file'[h].iso # None => file'[h].iso \in Registered'
  BY <1>1, <1>2 DEF Shape
<1>10. \A u, v \in Threads : u # v => Apart(thr[u], thr[v])'
  BY <1>1 DEF Shape, Apart, Shared, MT
<1>11. QED BY <1>5, <1>6, <1>7, <1>8, <1>9, <1>10 DEF Shape

LEMMA EmptyRecords ==
    /\ NoMount \in Mount /\ NoMount.vfs = None /\ NoMount.state = "closed" /\ NoMount.refs = 0
    /\ NoMount.lock = None
    /\ NoFile \in File /\ NoFile.iso = None /\ NoCache \in Cache
<1>1. 0 \in Nat
  OBVIOUS
<1>2. QED BY <1>1 DEF NoMount, Mount, NoFile, File, NoCache, Cache

\* The mounts after time has passed, apart from their last access.
LEMMA PassedMounts ==
    ASSUME Types, TimePasses
    PROVE  /\ mount' \in [Isos -> Mount]
           /\ \A i \in Isos : /\ mount'[i].vfs = mount[i].vfs /\ mount'[i].state = mount[i].state
                              /\ mount'[i].refs = mount[i].refs /\ mount'[i].lock = mount[i].lock
<1>1. \A i \in Isos : mount[i] \in Mount
  BY DEF Types
<1>2. \A i \in Isos : mount'[i] = [mount[i] EXCEPT !.access = "old"] \/ mount'[i] = mount[i]
  BY DEF TimePasses
<1>3. \A i \in Isos : /\ mount'[i] \in Mount
                      /\ mount'[i].vfs = mount[i].vfs /\ mount'[i].state = mount[i].state
                      /\ mount'[i].refs = mount[i].refs /\ mount'[i].lock = mount[i].lock
  BY <1>1, <1>2, ZenonT(60) DEF Mount
<1>4. DOMAIN mount' = Isos /\ mount' = [i \in Isos |-> mount'[i]]
  BY DEF TimePasses
<1>5. QED BY <1>3, <1>4

LEMMA TimePassesShape == ASSUME Shape, TimePasses PROVE Shape'
<1>1. UNCHANGED <<set, table, tableLock, live, cache, sidecar, file, thr, faults, committed>>
  BY DEF TimePasses
<1>2. /\ mount' \in [Isos -> Mount]
      /\ \A i \in Isos : /\ mount'[i].vfs = mount[i].vfs /\ mount'[i].state = mount[i].state
                         /\ mount'[i].refs = mount[i].refs /\ mount'[i].lock = mount[i].lock
  BY PassedMounts DEF Shape
<1>3. Types'
  BY <1>1, <1>2 DEF Shape, Types
<1>4. Registered' = Registered
  BY <1>1 DEF Registered
<1>5. ASSUME NEW i \in Isos PROVE MountInv(i)'
  <2>1. /\ MountInv(i) /\ live'[i] = live[i] /\ thr' = thr
        /\ mount'[i].vfs = mount[i].vfs /\ mount'[i].state = mount[i].state
        /\ mount'[i].refs = mount[i].refs /\ mount'[i].lock = mount[i].lock
    BY <1>1, <1>2 DEF Shape
  <2>2. QED BY <1>4, <2>1 DEF MountInv
<1>6. ASSUME NEW u \in Threads PROVE LockInv(thr[u], u)'
  <2>1. LockInv(thr[u], u) /\ thr[u] \in Thread /\ PcInv(thr[u])
    BY DEF Shape, Types
  <2>2. thr[u].pc = "mounting" => thr[u].iso \in Isos
    BY <2>1 DEF PcInv, Thread
  <2>3. QED BY <1>1, <1>2, <2>1, <2>2 DEF LockInv
<1>7. ASSUME NEW u \in Threads PROVE TableInv(thr[u], u)' /\ PcInv(thr[u])' /\ FileInv(thr[u])'
  BY <1>1, <1>4 DEF Shape, TableInv, PcInv, FileInv, Timeout
<1>8. \A u, v \in Threads : u # v => Apart(thr[u], thr[v])'
  BY <1>1 DEF Shape, Apart, Shared, MT
<1>9. \A h \in Handles : file'[h].iso # None => file'[h].iso \in Registered'
  BY <1>1, <1>4 DEF Shape
<1>10. QED BY <1>3, <1>5, <1>6, <1>7, <1>8, <1>9 DEF Shape

\* A resting thread has no handle and no ISO.
LEMMA IdleRecord ==
    ASSUME Shape, NEW t \in Threads, thr[t].pc = "idle"
    PROVE  thr[t] = Resting /\ thr[t].op = "none" /\ thr[t].h = None
BY RestingRecord DEF Shape, PcInv

\* When every thread rests, every mount lock is free.
LEMMA DestroyedMounts ==
    ASSUME Shape, Destroy
    PROVE  /\ mount' = [i \in Isos |-> NoMount] /\ live' = [i \in Isos |-> {}]
           /\ file' = [h \in Handles |-> NoFile] /\ cache' = [i \in Isos |-> NoCache]
           /\ thr' = thr /\ \A t \in Threads : thr[t] = Resting
<1>1. \A i \in Isos : live[i] \ {mount[i].vfs} = {}
  BY ZenonT(60) DEF Shape, MountInv
<1>2. live' = [i \in Isos |-> {}]
  BY <1>1 DEF Destroy
<1>3. \A t \in Threads : thr[t] = Resting
  BY IdleRecord DEF Destroy, AllResting
<1>4. QED BY <1>2, <1>3 DEF Destroy

\* A state with nothing mounted, registered or open, and every thread at rest.
Blank == /\ table = <<>> /\ mount = [i \in Isos |-> NoMount] /\ live = [i \in Isos |-> {}]
         /\ file = [h \in Handles |-> NoFile] /\ cache = [i \in Isos |-> NoCache]
         /\ thr = [t \in Threads |-> Resting]

LEMMA BlankShape == ASSUME Types, Blank PROVE Shape
<1>1. Registered = {}
  BY DEF Registered, Blank
<1>2. ASSUME NEW i \in Isos PROVE MountInv(i)
  BY <1>1, EmptyRecords DEF Blank, MountInv
<1>3. \A t \in Threads : thr[t] = Resting
  BY DEF Blank
<1>4. ASSUME NEW t \in Threads PROVE TableInv(thr[t], t) /\ PcInv(thr[t]) /\ FileInv(thr[t])
                                     /\ LockInv(thr[t], t)
  BY <1>3 DEF Resting, TableInv, PcInv, FileInv, LockInv, Mounting, InLoop, InBody
<1>5. \A t, u \in Threads : t # u => Apart(thr[t], thr[u])
  BY <1>3 DEF Resting, Apart
<1>6. \A h \in Handles : file[h].iso = None
  BY EmptyRecords DEF Blank
<1>7. QED BY <1>2, <1>4, <1>5, <1>6 DEF Shape

LEMMA InitTypes == ASSUME Init PROVE Types /\ Blank
<1>1. <<>> \in Seq(Isos)
  OBVIOUS
<1>2. 0 \in 0..MaxFaults
  BY ConstantsAssumption
<1>3. Blank
  BY DEF Init, Blank
<1>4. mount \in [Isos -> Mount] /\ file \in [Handles -> File] /\ cache \in [Isos -> Cache]
      /\ thr \in [Threads -> Thread]
  BY EmptyRecords, RestingRecord DEF Init
<1>5. QED BY <1>1, <1>2, <1>3, <1>4 DEF Init, Types

LEMMA DestroyShape == ASSUME Shape, Destroy PROVE Shape' /\ Blank'
<1>1. /\ mount' = [i \in Isos |-> NoMount] /\ live' = [i \in Isos |-> {}]
      /\ file' = [h \in Handles |-> NoFile] /\ cache' = [i \in Isos |-> NoCache]
      /\ thr' = thr /\ \A t \in Threads : thr[t] = Resting
  BY DestroyedMounts
<1>2. thr \in [Threads -> Thread]
  BY DEF Shape, Types
<1>3. thr' = [t \in Threads |-> Resting]
  BY <1>1, <1>2
<1>4. Blank'
  BY <1>1, <1>3 DEF Blank, Destroy
<1>5. <<>> \in Seq(Isos)
  OBVIOUS
<1>6. sidecar' \in [Isos -> Tags \cup {None}]
  <2>1. \A i \in Isos : cache[i].tag \in Tags \cup {None} /\ sidecar[i] \in Tags \cup {None}
    BY DEF Shape, Types, Cache
  <2>2. QED BY <2>1 DEF Destroy
<1>7. mount' \in [Isos -> Mount] /\ file' \in [Handles -> File] /\ cache' \in [Isos -> Cache]
      /\ live' \in [Isos -> SUBSET Contexts]
  BY <1>1, EmptyRecords
<1>8. Types'
  BY <1>1, <1>2, <1>5, <1>6, <1>7 DEF Destroy, Types, Shape
<1>9. Shape'
  <2>1. Registered' = {}
    BY DEF Registered, Destroy
  <2>2. ASSUME NEW i \in Isos PROVE MountInv(i)'
    BY <1>1, <2>1, EmptyRecords DEF MountInv
  <2>3. \A t \in Threads : thr'[t] = Resting
    BY <1>1
  <2>4. ASSUME NEW t \in Threads PROVE TableInv(thr[t], t)' /\ PcInv(thr[t])' /\ FileInv(thr[t])'
                                       /\ LockInv(thr[t], t)'
    BY <2>3 DEF Resting, TableInv, PcInv, FileInv, LockInv, Mounting, InLoop, InBody
  <2>5. \A t, u \in Threads : t # u => Apart(thr[t], thr[u])'
    BY <2>3 DEF Resting, Apart
  <2>6. \A h \in Handles : file'[h].iso = None
    BY <1>1, EmptyRecords
  <2>7. QED BY <1>8, <2>2, <2>4, <2>5, <2>6 DEF Shape
<1>10. QED BY <1>4, <1>9

LEMMA StutterShape == ASSUME Shape, UNCHANGED vars PROVE Shape'
<1>1. UNCHANGED <<set, table, tableLock, mount, live, cache, sidecar, file, thr, faults, committed>>
  BY DEF vars
<1>2. Types' /\ Registered' = Registered
  BY <1>1 DEF Shape, Types, Registered
<1>3. ASSUME NEW i \in Isos PROVE MountInv(i)'
  BY <1>1, <1>2 DEF Shape, MountInv
<1>4. ASSUME NEW u \in Threads PROVE TableInv(thr[u], u)' /\ PcInv(thr[u])' /\ FileInv(thr[u])'
                                     /\ LockInv(thr[u], u)'
  BY <1>1, <1>2 DEF Shape, TableInv, PcInv, FileInv, LockInv, Timeout
<1>5. \A u, v \in Threads : u # v => Apart(thr[u], thr[v])'
  BY <1>1 DEF Shape, Apart, Shared, MT
<1>6. QED BY <1>1, <1>2, <1>3, <1>4, <1>5 DEF Shape

\* Every step of the filesystem keeps the shape.
LEMMA NextShape == ASSUME Shape, [Next]_vars PROVE Shape'
<1>1. CASE \E t \in Threads : Call(t)
  <2>1. PICK t \in Threads : Call(t)
    BY <1>1
  <2>2. CASE Readdir(t)
    BY <2>2, ReaddirShape
  <2>3. CASE \E i \in Isos : Getattr(t, i) \/ \E h \in Handles : Open(t, i, h)
    BY <2>3, GetattrShape, OpenShape
  <2>4. CASE \E h \in Handles : Flush(t, h) \/ Release(t, h)
    BY <2>4, FlushShape, ReleaseShape
  <2>5. CASE \E h \in Handles : \E off \in Offsets : ReadSeek(t, h, off)
    BY <2>5, ReadSeekShape
  <2>6. CASE \E h \in Handles : \E tag \in set.writes : Write(t, h, tag)
    <3>1. set.writes \subseteq Tags
      BY ConstantsAssumption DEF Shape, Types
    <3>2. QED BY <2>6, <3>1, WriteShape
  <2>7. QED BY <2>1, <2>2, <2>3, <2>4, <2>5, <2>6 DEF Call
<1>2. CASE \E t \in Threads : Step(t)
  <2>1. PICK t \in Threads : Step(t)
    BY <1>2
  <2>2. CASE (\E i \in Isos : RegisterIso(t, i)) \/ EndScan(t) \/ FindIso(t)
             \/ EnsureMounted(t) \/ CreateVfs(t) \/ OpenVfs(t) \/ UseVfs(t)
    BY <2>2, RegisterIsoShape, EndScanShape, FindIsoShape, EnsureMountedShape, CreateVfsShape,
       OpenVfsShape, UseVfsShape
  <2>3. CASE \/ VfsFileOpen(t) \/ RefLoad(t) \/ RefStore(t) \/ ReadData(t)
             \/ FlushGet(t) \/ SetTag(t) \/ FlushSave(t) \/ FlushWrite(t)
    BY <2>3, VfsFileOpenShape, RefLoadShape, RefStoreShape, ReadDataShape, FlushGetShape,
       SetTagShape, FlushSaveShape, FlushWriteShape
  <2>4. CASE \/ VfsFileClose(t) \/ ReleaseIso(t)
             \/ CleanLock(t) \/ CleanTest(t) \/ CleanSave(t) \/ CleanWrite(t)
             \/ CleanClose(t) \/ CleanUnlock(t)
    BY <2>4, VfsFileCloseShape, ReleaseIsoShape, CleanLockShape, CleanTestShape, CleanSaveShape,
       CleanWriteShape, CleanCloseShape, CleanUnlockShape
  <2>5. QED BY <2>1, <2>2, <2>3, <2>4 DEF Step
<1>3. CASE TimePasses
  BY <1>3, TimePassesShape
<1>4. CASE Destroy
  BY <1>4, DestroyShape
<1>5. CASE UNCHANGED vars
  BY <1>5, StutterShape
<1>6. QED BY <1>1, <1>2, <1>3, <1>4, <1>5 DEF Next

----------------------------------------------------------------------------
(* What leaves the later layers alone.                                     *)

Follows == {"use", "vfs_open", "ref_load", "ref_store", "set", "save"}

\* Thread u enters no step that the layers speak of.
KeepsOpen(u) == thr'[u].op = "open" => thr[u].op = "open" /\ thr'[u].iso = thr[u].iso

KeepsStore(u) == thr'[u].pc = "ref_store" => thr'[u] = thr[u]

KeepsBody(u) == thr'[u].pc \in InBody => thr[u].pc \in InBody /\ thr'[u].n = thr[u].n

KeepsFollow(u) == thr'[u].pc \in Follows =>
    thr[u].pc \in Follows /\ thr'[u].vfs = thr[u].vfs /\ thr'[u].iso = thr[u].iso

KeepsSave(u) ==
    /\ thr'[u].pc \in {"save", "write", "clean_write"} => thr'[u] = thr[u]
    /\ thr[u].pc \in {"save", "write"} => thr'[u] = thr[u]

\* Counts that do not grow and calls that do not begin keep the bounds.
LEMMA BoundedFrame ==
    ASSUME Shape, Shape', Bounded, \A u \in Threads : KeepsOpen(u) /\ KeepsStore(u),
           \A i \in Isos : mount'[i].refs <= mount[i].refs
    PROVE  Bounded'
<1>1. ASSUME NEW i \in Isos
      PROVE  /\ Cardinality(Opening(i)') <= Cardinality(Opening(i))
             /\ Cardinality(Opening(i)') \in Nat /\ Cardinality(Opening(i)) \in Nat
  <2>1. Opening(i)' \subseteq Opening(i) /\ Opening(i) \subseteq Threads
    BY DEF KeepsOpen, Opening
  <2>2. IsFiniteSet(Opening(i)) /\ IsFiniteSet(Opening(i)')
    BY <2>1, ConstantsAssumption, FS_Subset
  <2>3. QED BY <2>1, <2>2, FS_Subset, FS_CardinalityType
<1>2. ASSUME NEW i \in Isos PROVE mount[i].refs \in Nat /\ mount'[i].refs \in Nat
  BY DEF Shape, Types, Mount
<1>3. MaxRefs \in Nat
  BY ConstantsAssumption
<1>4. ASSUME NEW i \in Isos PROVE mount'[i].refs + Cardinality(Opening(i)') <= MaxRefs
  <2>1. mount[i].refs + Cardinality(Opening(i)) <= MaxRefs
    BY DEF Bounded
  <2>2. QED BY <1>1, <1>2, <1>3, <2>1
<1>5. ASSUME NEW u \in Threads, thr'[u].pc = "ref_store"
      PROVE  thr'[u].n + Cardinality(Opening(thr[u].iso)') <= MaxRefs /\ thr'[u] = thr[u]
  <2>1. thr'[u] = thr[u]
    BY <1>5 DEF KeepsStore
  <2>2. thr[u].pc \in Mounting /\ thr[u].pc = "ref_store"
    BY <1>5, <2>1 DEF Mounting
  <2>3. PICK i \in Isos : i = thr[u].iso
    BY <2>2, MountingRecord
  <2>4. thr[u].n + Cardinality(Opening(i)) <= MaxRefs
    BY <2>2, <2>3 DEF Bounded
  <2>5. thr[u].n \in Nat
    BY DEF Shape, Types, Thread
  <2>6. thr[u].n + Cardinality(Opening(i)') <= MaxRefs
    BY <1>1, <1>3, <2>4, <2>5
  <2>7. QED BY <2>1, <2>3, <2>6
<1>6. QED BY <1>4, <1>5 DEF Bounded, Opening

\* The same for the exact counts.
LEMMA ExactFrame ==
    ASSUME Shape, Shape', Exact, set' = set,
           \A u \in Threads : KeepsStore(u) /\ KeepsBody(u),
           \A i \in Isos : mount'[i].refs = mount[i].refs,
           \A h \in Handles : file'[h].iso = file[h].iso,
           \A k \in 1..Len(table) : table'[k] = table[k]
    PROVE  Exact'
<1> SUFFICES ASSUME ~MT PROVE
       /\ \A i \in Isos : mount'[i].refs = Cardinality(HandlesOf(i)')
       /\ \A u \in Threads : thr'[u].pc = "ref_store" => thr'[u].n = mount'[thr'[u].iso].refs
       /\ \A u \in Threads : thr'[u].pc \in InBody => mount'[table'[thr'[u].n]].refs = 0
  BY DEF Exact, MT
<1>1. \A i \in Isos : HandlesOf(i)' = HandlesOf(i)
  BY DEF HandlesOf
<1>2. \A i \in Isos : mount'[i].refs = Cardinality(HandlesOf(i)')
  BY <1>1 DEF Exact
<1>3. ASSUME NEW u \in Threads, thr'[u].pc = "ref_store" PROVE thr'[u].n = mount'[thr'[u].iso].refs
  <2>1. thr'[u] = thr[u] /\ thr[u].pc \in Mounting /\ thr[u].pc = "ref_store"
    BY <1>3 DEF KeepsStore, Mounting
  <2>2. thr[u].iso \in Isos
    BY <2>1, MountingRecord
  <2>3. QED BY <2>1, <2>2 DEF Exact
<1>4. ASSUME NEW u \in Threads, thr'[u].pc \in InBody PROVE mount'[table'[thr'[u].n]].refs = 0
  <2>1. thr[u].pc \in InBody /\ thr'[u].n = thr[u].n
    BY <1>4 DEF KeepsBody
  <2>2. thr[u].n \in 1..Len(table) /\ table[thr[u].n] \in Isos
    BY <2>1, BodyRecord
  <2>3. QED BY <2>1, <2>2 DEF Exact
<1>5. QED BY <1>2, <1>3, <1>4

\* The same for the contexts in use.
LEMMA SafeFrame ==
    ASSUME Shape, Shape', Safe, set' = set, \A u \in Threads : KeepsFollow(u),
           \A i \in Isos : live[i] # {} /\ mount[i].lock = None =>
                              live'[i] = live[i] /\ mount'[i].lock = None,
           \A h \in Handles : file'[h].iso # None =>
                                 file'[h].iso = file[h].iso /\ file'[h].vfs = file[h].vfs
    PROVE  Safe'
<1> SUFFICES ASSUME CleanupAlone PROVE
       /\ \A h \in Handles : file'[h].iso # None =>
             file'[h].vfs \in live'[file'[h].iso] /\ mount'[file'[h].iso].lock = None
       /\ \A u \in Threads : thr'[u].pc \in Follows =>
             thr'[u].vfs \in live'[thr'[u].iso] /\ mount'[thr'[u].iso].lock = None
  BY DEF Safe, CleanupAlone, MT, Timeout, Following, Follows
<1>1. ASSUME NEW h \in Handles, file'[h].iso # None
      PROVE  file'[h].vfs \in live'[file'[h].iso] /\ mount'[file'[h].iso].lock = None
  <2>1. file[h].iso \in Isos
    BY <1>1 DEF Shape, Types, File
  <2>2. QED BY <1>1, <2>1 DEF Safe
<1>2. ASSUME NEW u \in Threads, thr'[u].pc \in Follows
      PROVE  thr'[u].vfs \in live'[thr'[u].iso] /\ mount'[thr'[u].iso].lock = None
  <2>1. thr[u].pc \in Follows /\ thr'[u].vfs = thr[u].vfs /\ thr'[u].iso = thr[u].iso
    BY <1>2 DEF KeepsFollow
  <2>2. thr[u].iso \in Isos
    BY <2>1, MountingRecord, CallRecord DEF Follows, Mounting
  <2>3. QED BY <2>1, <2>2 DEF Safe, Following, Follows
<1>3. QED BY <1>1, <1>2

\* The same for the tags.
LEMMA KeptFrame ==
    ASSUME Shape, Shape', Kept, set' = set, faults' = faults, committed' = committed,
           sidecar' = sidecar, \A u \in Threads : KeepsSave(u),
           \A i \in Isos : mount'[i].state = "open" => mount[i].state = "open" /\ cache'[i] = cache[i],
           \A u \in Threads : ~MT /\ thr[u].pc = "save" =>
               /\ live'[thr[u].iso] = live[thr[u].iso]
               /\ mount'[thr[u].iso].state = mount[thr[u].iso].state,
           \A k \in 1..Len(table) : table'[k] = table[k]
    PROVE  Kept'
<1> SUFFICES ASSUME ~MT, faults = 0 PROVE
       /\ \A i \in Isos : TagKept(i)'
       /\ \A u \in Threads :
             /\ thr'[u].pc = "save" /\ committed[thr'[u].iso] # None => Usable(u)'
             /\ thr'[u].pc = "write" /\ committed[thr'[u].iso] # None =>
                   thr'[u].doc = committed[thr'[u].iso]
             /\ thr'[u].pc = "clean_write" /\ committed[table'[thr'[u].n]] # None =>
                   thr'[u].doc = committed[table'[thr'[u].n]]
  BY DEF Kept, MT
<1>1. ASSUME NEW i \in Isos PROVE TagKept(i)'
  <2>1. TagKept(i)
    BY DEF Kept
  <2>2. ASSUME NEW u \in Threads, thr[u].iso = i, thr[u].pc \in {"save", "write"}
        PROVE  thr'[u].iso = i /\ thr'[u].pc \in {"save", "write"}
    BY <2>2 DEF KeepsSave
  <2>3. QED BY <2>1, <2>2 DEF TagKept, IsOpen, HasData
<1>2. ASSUME NEW u \in Threads, thr'[u].pc \in {"save", "write", "clean_write"}
      PROVE  /\ thr'[u].pc = "save" /\ committed[thr'[u].iso] # None => Usable(u)'
             /\ thr'[u].pc = "write" /\ committed[thr'[u].iso] # None =>
                   thr'[u].doc = committed[thr'[u].iso]
             /\ thr'[u].pc = "clean_write" /\ committed[table'[thr'[u].n]] # None =>
                   thr'[u].doc = committed[table'[thr'[u].n]]
  <2>1. thr'[u] = thr[u]
    BY <1>2 DEF KeepsSave
  <2>2. thr[u].pc \in {"save", "write"} => thr[u].iso \in Isos
    BY CallRecord
  <2>3. thr[u].pc = "clean_write" => thr[u].n \in 1..Len(table)
    BY BodyRecord DEF InBody
  <2>4. QED BY <2>1, <2>2, <2>3 DEF Kept, Usable, IsOpen
<1>3. QED BY <1>1, <1>2

\* A step that enters nothing the layers speak of and changes nothing they
\* speak of keeps them all.
LEMMA QuietFrame ==
    ASSUME IInv, Shape', UNCHANGED <<set, table, live, cache, sidecar, committed, faults>>,
           \A u \in Threads : KeepsOpen(u) /\ KeepsStore(u) /\ KeepsBody(u)
                              /\ KeepsFollow(u) /\ KeepsSave(u),
           \A i \in Isos : mount'[i].state = mount[i].state /\ mount'[i].refs = mount[i].refs
                           /\ mount'[i].lock = mount[i].lock,
           \A h \in Handles : file'[h].iso = file[h].iso /\ file'[h].vfs = file[h].vfs
    PROVE  IInv'
<1>1. Bounded'
  <2>1. \A i \in Isos : mount[i].refs \in Nat
    BY DEF IInv, Shape, Types, Mount
  <2>2. \A i \in Isos : mount'[i].refs <= mount[i].refs
    BY <2>1
  <2>3. QED BY <2>2, BoundedFrame DEF IInv
<1>2. Exact'
  BY ExactFrame DEF IInv
<1>3. Safe'
  BY SafeFrame DEF IInv
<1>4. Kept'
  <2>1. \A u \in Threads : thr[u].pc = "save" => thr[u].iso \in Isos
    BY CallRecord DEF IInv
  <2>2. QED BY <2>1, KeptFrame DEF IInv
<1>6. QED BY <1>1, <1>2, <1>3, <1>4 DEF IInv

\* A step of one thread that changes nothing but the thread and the table lock.
LEMMA QuietThread ==
    ASSUME IInv, Shape', NEW t \in Threads,
           UNCHANGED <<set, table, mount, live, cache, sidecar, file, committed, faults>>,
           \A u \in Threads \ {t} : thr'[u] = thr[u],
           thr'[t].op = "open" => thr[t].op = "open" /\ thr'[t].iso = thr[t].iso,
           thr'[t].pc \in {"idle", "scan", "find", "clean_lock", "ensure", "ref_load", "flush",
                           "file_close", "release", "clean"},
           thr'[t].pc = "ref_load" =>
               thr[t].pc = "vfs_open" /\ thr'[t].vfs = thr[t].vfs /\ thr'[t].iso = thr[t].iso,
           thr[t].pc \notin {"save", "write"}
    PROVE  IInv'
<1>1. \A u \in Threads : KeepsOpen(u) /\ KeepsStore(u) /\ KeepsBody(u)
  BY DEF KeepsOpen, KeepsStore, KeepsBody, InBody
<1>2. \A u \in Threads : KeepsFollow(u)
  BY DEF KeepsFollow, Follows
<1>3. \A u \in Threads : KeepsSave(u)
  BY DEF KeepsSave
<1>4. QED BY <1>1, <1>2, <1>3, QuietFrame

\* The other threads in a step of t.
LEMMA OthersStay ==
    ASSUME Types, NEW t \in Threads, NEW op, NEW pc, NEW i, NEW h, NEW n
    PROVE  /\ Return(t) => thr'[t] = Resting /\ \A u \in Threads \ {t} : thr'[u] = thr[u]
           /\ Goto(t, pc) => /\ \A u \in Threads \ {t} : thr'[u] = thr[u]
                             /\ thr'[t].pc = pc /\ thr'[t].op = thr[t].op
                             /\ thr'[t].iso = thr[t].iso /\ thr'[t].vfs = thr[t].vfs
                             /\ thr'[t].h = thr[t].h /\ thr'[t].n = thr[t].n
                             /\ thr'[t].doc = thr[t].doc
           /\ Begin(t, op, pc, i, h, n) =>
                 /\ \A u \in Threads \ {t} : thr'[u] = thr[u]
                 /\ thr'[t].pc = pc /\ thr'[t].op = op /\ thr'[t].iso = i /\ thr'[t].h = h
                 /\ thr'[t].n = n
<1>1. thr \in [Threads -> Thread] /\ thr[t] \in Thread
  BY DEF Types
<1>2. Return(t) => thr'[t] = Resting /\ \A u \in Threads \ {t} : thr'[u] = thr[u]
  BY <1>1 DEF Return
<1>3. Goto(t, pc) => /\ \A u \in Threads \ {t} : thr'[u] = thr[u]
                     /\ thr'[t].pc = pc /\ thr'[t].op = thr[t].op
                     /\ thr'[t].iso = thr[t].iso /\ thr'[t].vfs = thr[t].vfs
                     /\ thr'[t].h = thr[t].h /\ thr'[t].n = thr[t].n
                     /\ thr'[t].doc = thr[t].doc
  BY <1>1 DEF Goto, Thread
<1>4. Begin(t, op, pc, i, h, n) =>
                 /\ \A u \in Threads \ {t} : thr'[u] = thr[u]
                 /\ thr'[t].pc = pc /\ thr'[t].op = op /\ thr'[t].iso = i /\ thr'[t].h = h
                 /\ thr'[t].n = n
  BY <1>1 DEF Begin
<1>5. QED BY <1>2, <1>3, <1>4

LEMMA ReaddirStep == ASSUME IInv, NEW t \in Threads, Readdir(t) PROVE IInv'
<1>1. Shape /\ Shape' /\ Types
  BY ReaddirShape DEF IInv, Shape
<1>2. thr[t].pc = "idle" /\ Begin(t, "scan", "scan", None, None, 0)
  BY DEF Readdir, CanStart
<1>3. /\ \A u \in Threads \ {t} : thr'[u] = thr[u]
      /\ thr'[t].pc = "scan" /\ thr'[t].op = "scan"
  BY <1>1, <1>2, OthersStay
<1>4. UNCHANGED <<set, table, mount, live, cache, sidecar, file, committed, faults>>
  BY DEF Readdir
<1>5. QED BY <1>1, <1>2, <1>3, <1>4, QuietThread

LEMMA GetattrStep == ASSUME IInv, NEW t \in Threads, NEW i \in Isos, Getattr(t, i) PROVE IInv'
<1>1. Shape /\ Shape' /\ Types
  BY GetattrShape DEF IInv, Shape
<1>2. /\ thr[t].pc = "idle"
      /\ Begin(t, "stat", "find", i, None, 0) \/ Begin(t, "stat", "clean_lock", i, None, 1)
  BY DEF Getattr, CanStart
<1>3. /\ \A u \in Threads \ {t} : thr'[u] = thr[u]
      /\ thr'[t].pc \in {"find", "clean_lock"} /\ thr'[t].op = "stat"
  BY <1>1, <1>2, OthersStay
<1>4. UNCHANGED <<set, table, mount, live, cache, sidecar, file, committed, faults>>
  BY DEF Getattr
<1>5. QED BY <1>1, <1>2, <1>3, <1>4, QuietThread

LEMMA FlushStep == ASSUME IInv, NEW t \in Threads, NEW h \in Handles, Flush(t, h) PROVE IInv'
<1>1. Shape /\ Shape' /\ Types
  BY FlushShape DEF IInv, Shape
<1>2. thr[t].pc = "idle" /\ Begin(t, "flush", "flush", file[h].iso, h, 0)
  BY DEF Flush, CanUse, CanStart
<1>3. /\ \A u \in Threads \ {t} : thr'[u] = thr[u]
      /\ thr'[t].pc = "flush" /\ thr'[t].op = "flush"
  BY <1>1, <1>2, OthersStay
<1>4. UNCHANGED <<set, table, mount, live, cache, sidecar, file, committed, faults>>
  BY DEF Flush
<1>5. QED BY <1>1, <1>2, <1>3, <1>4, QuietThread

LEMMA ReleaseStep == ASSUME IInv, NEW t \in Threads, NEW h \in Handles, Release(t, h) PROVE IInv'
<1>1. Shape /\ Shape' /\ Types
  BY ReleaseShape DEF IInv, Shape
<1>2. PICK pc \in {"flush", "file_close"} : Begin(t, "close", pc, file[h].iso, h, 0)
  BY DEF Release
<1>3. /\ \A u \in Threads \ {t} : thr'[u] = thr[u]
      /\ thr'[t].pc = pc /\ thr'[t].op = "close" /\ thr[t].pc = "idle"
  BY <1>1, <1>2, OthersStay DEF Release, CanStart
<1>4. UNCHANGED <<set, table, mount, live, cache, sidecar, file, committed, faults>>
  BY DEF Release
<1>5. QED BY <1>1, <1>2, <1>3, <1>4, QuietThread

\* A call that returns and changes nothing else.
LEMMA ReturnStep ==
    ASSUME IInv, NEW t \in Threads, Return(t), thr[t].pc \notin {"idle", "mounting", "save", "write"},
           UNCHANGED <<set, table, tableLock, mount, live, cache, sidecar, file, faults, committed>>
    PROVE  IInv'
<1>1. Shape /\ Shape' /\ Types
  BY ReturnShape DEF IInv, Shape
<1>2. thr'[t] = Resting /\ \A u \in Threads \ {t} : thr'[u] = thr[u]
  BY <1>1, OthersStay
<1>3. thr'[t].pc = "idle" /\ thr'[t].op = "none"
  BY <1>2, RestingRecord
<1>4. QED BY <1>1, <1>2, <1>3, QuietThread

\* A thread that goes on and changes nothing else.
LEMMA OnwardStep ==
    ASSUME IInv, NEW t \in Threads, NEW pc, Goto(t, pc),
           UNCHANGED <<set, table, tableLock, mount, live, cache, sidecar, file, faults, committed>>,
           \/ thr[t].pc = "find" /\ pc = "ensure" /\ thr[t].iso \in Registered
           \/ thr[t].pc = "vfs_open" /\ pc = "ref_load"
           \/ thr[t].pc = "flush" /\ pc = "file_close" /\ thr[t].op = "close"
           \/ thr[t].pc = "file_close" /\ pc = "release"
    PROVE  IInv'
<1>1. Shape /\ Shape' /\ Types
  BY OnwardShape DEF IInv, Shape
<1>2. /\ \A u \in Threads \ {t} : thr'[u] = thr[u]
      /\ thr'[t].pc = pc /\ thr'[t].op = thr[t].op /\ thr'[t].iso = thr[t].iso
      /\ thr'[t].vfs = thr[t].vfs
  BY <1>1, OthersStay
<1>3. QED BY <1>1, <1>2, QuietThread

LEMMA FindIsoStep == ASSUME IInv, NEW t \in Threads, FindIso(t) PROVE IInv'
<1>1. CASE thr[t].iso \in Registered
  BY <1>1, OnwardStep DEF FindIso
<1>2. CASE thr[t].iso \notin Registered
  BY <1>2, ReturnStep DEF FindIso
<1>3. QED BY <1>1, <1>2

LEMMA VfsFileOpenStep == ASSUME IInv, NEW t \in Threads, VfsFileOpen(t) PROVE IInv'
BY OnwardStep, ReturnStep DEF VfsFileOpen

LEMMA VfsFileCloseStep == ASSUME IInv, NEW t \in Threads, VfsFileClose(t) PROVE IInv'
BY OnwardStep DEF VfsFileClose

LEMMA EndScanStep == ASSUME IInv, NEW t \in Threads, EndScan(t) PROVE IInv'
BY ReturnStep DEF EndScan

LEMMA UseVfsStep == ASSUME IInv, NEW t \in Threads, UseVfs(t) PROVE IInv'
BY ReturnStep DEF UseVfs

LEMMA CleanLockStep == ASSUME IInv, NEW t \in Threads, CleanLock(t) PROVE IInv'
<1>1. Shape /\ Shape' /\ Types
  BY CleanLockShape DEF IInv, Shape
<1>2. /\ \A u \in Threads \ {t} : thr'[u] = thr[u]
      /\ thr'[t].pc = "clean" /\ thr'[t].op = thr[t].op /\ thr'[t].iso = thr[t].iso
      /\ thr[t].pc = "clean_lock"
  BY <1>1, OthersStay DEF CleanLock
<1>3. UNCHANGED <<set, table, mount, live, cache, sidecar, file, committed, faults>>
  BY DEF CleanLock
<1>4. QED BY <1>1, <1>2, <1>3, QuietThread

LEMMA CleanUnlockStep == ASSUME IInv, NEW t \in Threads, CleanUnlock(t) PROVE IInv'
<1>1. Shape /\ Shape' /\ Types /\ thr \in [Threads -> Thread] /\ thr[t] \in Thread
  BY CleanUnlockShape DEF IInv, Shape, Types
<1>2. /\ \A u \in Threads \ {t} : thr'[u] = thr[u]
      /\ thr'[t].pc = "find" /\ thr'[t].op = thr[t].op /\ thr'[t].iso = thr[t].iso
      /\ thr[t].pc = "clean"
  BY <1>1 DEF CleanUnlock, Thread
<1>3. UNCHANGED <<set, table, mount, live, cache, sidecar, file, committed, faults>>
  BY DEF CleanUnlock
<1>4. QED BY <1>1, <1>2, <1>3, QuietThread

\* A step that moves no thread keeps every step a thread is in.
LEMMA NobodyMoves ==
    ASSUME thr' = thr
    PROVE  \A u \in Threads : KeepsOpen(u) /\ KeepsStore(u) /\ KeepsBody(u)
                              /\ KeepsFollow(u) /\ KeepsSave(u)
BY DEF KeepsOpen, KeepsStore, KeepsBody, KeepsFollow, KeepsSave

LEMMA WriteStep ==
    ASSUME IInv, NEW t \in Threads, NEW h \in Handles, NEW tag \in Tags, Write(t, h, tag)
    PROVE  IInv'
<1>1. Shape /\ Shape' /\ Types
  BY WriteShape DEF IInv, Shape
<1>2. \A g \in Handles : file'[g].iso = file[g].iso /\ file'[g].vfs = file[g].vfs
  BY <1>1, WrittenFile DEF Write
<1>3. UNCHANGED <<set, table, mount, live, cache, sidecar, thr, committed, faults>>
  BY DEF Write
<1>4. QED BY <1>1, <1>2, <1>3, NobodyMoves, QuietFrame

LEMMA TimePassesStep == ASSUME IInv, TimePasses PROVE IInv'
<1>1. Shape /\ Shape' /\ Types
  BY TimePassesShape DEF IInv, Shape
<1>2. \A i \in Isos : /\ mount'[i].state = mount[i].state
                      /\ mount'[i].refs = mount[i].refs /\ mount'[i].lock = mount[i].lock
  BY <1>1, PassedMounts
<1>3. UNCHANGED <<set, table, live, cache, sidecar, file, thr, committed, faults>>
  BY DEF TimePasses
<1>4. QED BY <1>1, <1>2, <1>3, NobodyMoves, QuietFrame

LEMMA StutterStep == ASSUME IInv, UNCHANGED vars PROVE IInv'
<1>1. Shape /\ Shape'
  BY StutterShape DEF IInv
<1>2. UNCHANGED <<set, table, mount, live, cache, sidecar, file, thr, committed, faults>>
  BY DEF vars
<1>3. QED BY <1>1, <1>2, NobodyMoves, QuietFrame

----------------------------------------------------------------------------
(* Steps that open, mount, read and look.                                  *)

\* In the single-threaded loop a thread inside a call is alone.
LEMMA Alone ==
    ASSUME Shape, NEW t \in Threads, thr[t].pc # "idle", ~MT
    PROVE  \A u \in Threads \ {t} : thr[u].pc = "idle"
BY DEF Shape, Apart

\* The threads that open a file.
AllOpening == {u \in Threads : thr[u].op = "open"}

LEMMA OpenStep ==
    ASSUME IInv, NEW t \in Threads, NEW i \in Isos, NEW h \in Handles, Open(t, i, h)
    PROVE  IInv'
<1>1. Shape /\ Shape' /\ Types
  BY OpenShape DEF IInv, Shape
<1>2. thr[t].pc = "idle" /\ Begin(t, "open", "find", i, h, 0)
      /\ UNCHANGED <<set, table, mount, live, cache, sidecar, file, committed, faults>>
  BY DEF Open, CanStart
<1>3. /\ \A u \in Threads \ {t} : thr'[u] = thr[u]
      /\ thr'[t].pc = "find" /\ thr'[t].op = "open" /\ thr'[t].iso = i
  BY <1>1, <1>2, OthersStay
<1>4. \A u \in Threads : /\ KeepsStore(u) /\ KeepsBody(u) /\ KeepsFollow(u) /\ KeepsSave(u)
  BY <1>2, <1>3 DEF KeepsStore, KeepsBody, KeepsFollow, KeepsSave, InBody, Follows
<1>5. /\ AllOpening \subseteq Threads /\ IsFiniteSet(AllOpening) /\ Cardinality(AllOpening) \in Nat
      /\ IsFiniteSet(AllOpening \cup {t})
      /\ Cardinality(AllOpening \cup {t}) <= Cardinality(AllOpening) + 1
      /\ Cardinality(AllOpening \cup {t}) \in Nat
  <2>1. AllOpening \subseteq Threads
    BY DEF AllOpening
  <2>2. IsFiniteSet(AllOpening) /\ Cardinality(AllOpening) \in Nat
    BY <2>1, ConstantsAssumption, FS_Subset, FS_CardinalityType
  <2>3. IsFiniteSet(AllOpening \cup {t})
        /\ (Cardinality(AllOpening \cup {t}) = Cardinality(AllOpening)
            \/ Cardinality(AllOpening \cup {t}) = Cardinality(AllOpening) + 1)
    BY <2>2, FS_AddElement
  <2>4. QED BY <2>1, <2>2, <2>3
<1>6. ASSUME NEW j \in Isos
      PROVE  Cardinality(Opening(j)') <= Cardinality(AllOpening) + 1 /\ Cardinality(Opening(j)') \in Nat
  <2>1. Opening(j)' \subseteq AllOpening \cup {t}
    BY <1>3 DEF Opening, AllOpening
  <2>2. Cardinality(Opening(j)') <= Cardinality(AllOpening \cup {t}) /\ Cardinality(Opening(j)') \in Nat
    BY <1>5, <2>1, FS_Subset, FS_CardinalityType
  <2>3. QED BY <1>5, <2>2
<1>7. MaxRefs \in Nat /\ \A j \in Isos : mount[j].refs \in Nat
  BY <1>1, ConstantsAssumption DEF Types, Mount
<1>8. /\ mount[i].refs + Cardinality(AllOpening) < MaxRefs
      /\ \A u \in Threads : thr[u].pc = "ref_store" => thr[u].n + Cardinality(AllOpening) < MaxRefs
  BY DEF Open, AllOpening
<1>9. ASSUME NEW j \in Isos PROVE mount[j].refs + Cardinality(Opening(j)') <= MaxRefs
  <2>1. CASE j = i
    BY <1>5, <1>6, <1>7, <1>8, <2>1
  <2>2. CASE j # i
    <3>1. thr[t].op # "open"
      BY <1>1, <1>2, IdleRecord
    <3>2. Opening(j)' = Opening(j)
      BY <1>3, <2>2, <3>1 DEF Opening
    <3>3. QED BY <3>2 DEF IInv, Bounded
  <2>3. QED BY <2>1, <2>2
<1>10. ASSUME NEW u \in Threads, thr'[u].pc = "ref_store"
       PROVE  thr'[u].n + Cardinality(Opening(thr[u].iso)') <= MaxRefs
  <2>1. thr'[u] = thr[u] /\ thr'[u].pc \in Mounting
    BY <1>4, <1>10 DEF KeepsStore, Mounting
  <2>2. PICK j \in Isos : j = thr[u].iso
    BY <1>1, <2>1, MountingRecord
  <2>3. thr[u].n \in Nat /\ thr[u].n + Cardinality(AllOpening) < MaxRefs
    BY <1>1, <1>8, <1>10, <2>1 DEF Types, Thread
  <2>4. thr[u].n + Cardinality(Opening(j)') <= MaxRefs
    BY <1>5, <1>6, <1>7, <2>3
  <2>5. QED BY <2>1, <2>2, <2>4 DEF Opening
<1>11. Bounded'
  BY <1>2, <1>9, <1>10 DEF Bounded, Opening
<1>12. Exact' /\ Safe'
  BY <1>1, <1>2, <1>4, ExactFrame, SafeFrame DEF IInv
<1>13. Kept'
  BY <1>1, <1>2, <1>4, KeptFrame DEF IInv
<1>14. QED BY <1>1, <1>11, <1>12, <1>13 DEF IInv

LEMMA RefLoadStep == ASSUME IInv, NEW t \in Threads, RefLoad(t) PROVE IInv'
<1>1. Shape /\ Shape' /\ Types /\ thr[t] \in Thread /\ thr \in [Threads -> Thread]
  BY RefLoadShape DEF IInv, Shape, Types
<1>2. thr[t].pc = "ref_load"
      /\ UNCHANGED <<set, table, mount, live, cache, sidecar, file, committed, faults>>
  BY DEF RefLoad
<1>3. PICK i \in Isos : i = thr[t].iso
  BY <1>1, <1>2, MountingRecord DEF Mounting
<1>4. /\ \A u \in Threads \ {t} : thr'[u] = thr[u]
      /\ thr'[t].pc = "ref_store" /\ thr'[t].op = thr[t].op /\ thr'[t].iso = i
      /\ thr'[t].vfs = thr[t].vfs /\ thr'[t].n = mount[i].refs
  BY <1>1, <1>3 DEF RefLoad, Thread
<1>5. \A u \in Threads : KeepsFollow(u) /\ KeepsSave(u)
  BY <1>2, <1>3, <1>4 DEF KeepsFollow, KeepsSave, Follows
<1>6. \A j \in Isos : Opening(j)' = Opening(j)
  BY <1>3, <1>4 DEF Opening
<1>7. Bounded'
  <2>1. ASSUME NEW u \in Threads, thr'[u].pc = "ref_store"
        PROVE  thr'[u].n + Cardinality(Opening(thr[u].iso)') <= MaxRefs
    <3>1. CASE u = t
      <4>1. mount[i].refs + Cardinality(Opening(i)) <= MaxRefs
        BY DEF IInv, Bounded
      <4>2. Opening(thr[u].iso)' = Opening(i)
        BY <1>4, <1>6, <3>1 DEF Opening
      <4>3. QED BY <1>4, <3>1, <4>1, <4>2
    <3>2. CASE u # t
      <4>1. thr'[u] = thr[u] /\ thr[u].pc \in Mounting /\ thr[u].pc = "ref_store"
        BY <1>4, <2>1, <3>2 DEF Mounting
      <4>2. thr[u].iso \in Isos
        BY <1>1, <4>1, MountingRecord
      <4>3. Opening(thr[u].iso)' = Opening(thr[u].iso)
        BY <1>6, <4>1, <4>2 DEF Opening
      <4>4. QED BY <4>1, <4>3 DEF IInv, Bounded
    <3>3. QED BY <3>1, <3>2
  <2>2. ASSUME NEW j \in Isos PROVE mount'[j].refs + Cardinality(Opening(j)') <= MaxRefs
    BY <1>2, <1>6 DEF IInv, Bounded
  <2>3. QED BY <2>1, <2>2 DEF Bounded
<1>8. Exact'
  <2> SUFFICES ASSUME ~MT PROVE
       /\ \A j \in Isos : mount'[j].refs = Cardinality(HandlesOf(j)')
       /\ \A u \in Threads : thr'[u].pc = "ref_store" => thr'[u].n = mount'[thr'[u].iso].refs
       /\ \A u \in Threads : thr'[u].pc \in InBody => mount'[table'[thr'[u].n]].refs = 0
    BY <1>2 DEF Exact, MT
  <2>1. \A u \in Threads \ {t} : thr'[u].pc = "idle"
    BY <1>1, <1>2, <1>4, Alone
  <2>2. \A j \in Isos : mount'[j].refs = Cardinality(HandlesOf(j)')
    BY <1>2 DEF IInv, Exact, HandlesOf
  <2>3. QED BY <1>2, <1>4, <2>1, <2>2 DEF InBody
<1>9. Safe'
  BY <1>1, <1>2, <1>5, SafeFrame DEF IInv
<1>10. Kept'
  BY <1>1, <1>2, <1>5, KeptFrame DEF IInv
<1>11. QED BY <1>1, <1>7, <1>8, <1>9, <1>10 DEF IInv

LEMMA CleanTestStep == ASSUME IInv, NEW t \in Threads, CleanTest(t) PROVE IInv'
<1>1. Shape /\ Shape' /\ Types /\ thr[t] \in Thread /\ thr \in [Threads -> Thread]
  BY CleanTestShape DEF IInv, Shape, Types
<1>2. thr[t].pc = "clean"
      /\ UNCHANGED <<set, table, mount, live, cache, sidecar, file, committed, faults>>
  BY DEF CleanTest
<1>3. PICK n \in Nat : n = thr[t].n
  BY <1>1 DEF Thread
<1>4. /\ \A u \in Threads \ {t} : thr'[u] = thr[u]
      /\ thr'[t].pc \in {"clean", "clean_save"} /\ thr'[t].op = thr[t].op /\ thr'[t].iso = thr[t].iso
      /\ thr'[t].pc = "clean_save" => thr'[t].n = n /\ Unused(table[n]) /\ n \in 1..Len(table)
  <2>1. n \in 1..Len(table)
    <3>1. thr[t].n \in 1..(Len(table) + 1) /\ n <= Len(table)
      BY <1>1, <1>2, <1>3 DEF CleanTest, Shape, TableInv, InLoop
    <3>2. QED BY <1>1, <1>3, <3>1, TableIndex
  <2>2. CASE mount[table[n]].vfs # None /\ Unused(table[n])
    BY <1>1, <1>3, <2>1, <2>2 DEF CleanTest, Thread
  <2>3. CASE ~(mount[table[n]].vfs # None /\ Unused(table[n]))
    BY <1>1, <1>2, <1>3, <2>3 DEF CleanTest, Thread
  <2>4. QED BY <2>2, <2>3
<1>5. \A u \in Threads : KeepsOpen(u) /\ KeepsStore(u) /\ KeepsFollow(u) /\ KeepsSave(u)
  BY <1>2, <1>4 DEF KeepsOpen, KeepsStore, KeepsFollow, KeepsSave, Follows
<1>6. Bounded'
  <2>1. \A i \in Isos : mount[i].refs \in Nat
    BY <1>1 DEF Types, Mount
  <2>2. \A i \in Isos : mount'[i].refs <= mount[i].refs
    BY <1>2, <2>1
  <2>3. QED BY <1>1, <1>5, <2>2, BoundedFrame DEF IInv
<1>7. Exact'
  <2> SUFFICES ASSUME ~MT PROVE
       /\ \A j \in Isos : mount'[j].refs = Cardinality(HandlesOf(j)')
       /\ \A u \in Threads : thr'[u].pc = "ref_store" => thr'[u].n = mount'[thr'[u].iso].refs
       /\ \A u \in Threads : thr'[u].pc \in InBody => mount'[table'[thr'[u].n]].refs = 0
    BY <1>2 DEF Exact, MT
  <2>1. \A u \in Threads \ {t} : thr'[u].pc = "idle"
    BY <1>1, <1>2, <1>4, Alone
  <2>2. \A j \in Isos : mount'[j].refs = Cardinality(HandlesOf(j)')
    BY <1>2 DEF IInv, Exact, HandlesOf
  <2>3. thr'[t].pc = "clean_save" => mount[table[n]].refs = 0
    <3> SUFFICES ASSUME thr'[t].pc = "clean_save" PROVE mount[table[n]].refs = 0
      OBVIOUS
    <3>1. table[n] \in Isos
      BY <1>1, <1>4, TableIndex
    <3>2. mount[table[n]].refs \in Nat /\ mount[table[n]].refs <= 0
      BY <1>1, <1>4, <3>1 DEF Types, Mount, Unused
    <3>3. QED BY <3>2
  <2>4. QED BY <1>2, <1>4, <2>1, <2>2, <2>3 DEF InBody
<1>8. Safe'
  BY <1>1, <1>2, <1>5, SafeFrame DEF IInv
<1>9. Kept'
  BY <1>1, <1>2, <1>5, KeptFrame DEF IInv
<1>11. QED BY <1>1, <1>6, <1>7, <1>8, <1>9 DEF IInv

\* A thread that gets hold of a context that is in use.
LEMMA SafeEnter ==
    ASSUME Shape, Shape', Safe, set' = set, NEW t \in Threads,
           \A u \in Threads \ {t} : KeepsFollow(u),
           CleanupAlone /\ thr'[t].pc \in Follows =>
               thr'[t].vfs \in live'[thr'[t].iso] /\ mount'[thr'[t].iso].lock = None,
           \A i \in Isos : live[i] # {} /\ mount[i].lock = None =>
                              live'[i] = live[i] /\ mount'[i].lock = None,
           \A h \in Handles : file'[h].iso # None =>
                                 file'[h].iso = file[h].iso /\ file'[h].vfs = file[h].vfs
    PROVE  Safe'
<1> SUFFICES ASSUME CleanupAlone PROVE
       /\ \A h \in Handles : file'[h].iso # None =>
             file'[h].vfs \in live'[file'[h].iso] /\ mount'[file'[h].iso].lock = None
       /\ \A u \in Threads : thr'[u].pc \in Follows =>
             thr'[u].vfs \in live'[thr'[u].iso] /\ mount'[thr'[u].iso].lock = None
  BY DEF Safe, CleanupAlone, MT, Timeout, Following, Follows
<1>1. ASSUME NEW h \in Handles, file'[h].iso # None
      PROVE  file'[h].vfs \in live'[file'[h].iso] /\ mount'[file'[h].iso].lock = None
  <2>1. file[h].iso \in Isos
    BY <1>1 DEF Shape, Types, File
  <2>2. QED BY <1>1, <2>1 DEF Safe
<1>2. ASSUME NEW u \in Threads \ {t}, thr'[u].pc \in Follows
      PROVE  thr'[u].vfs \in live'[thr'[u].iso] /\ mount'[thr'[u].iso].lock = None
  <2>1. thr[u].pc \in Follows /\ thr'[u].vfs = thr[u].vfs /\ thr'[u].iso = thr[u].iso
    BY <1>2 DEF KeepsFollow
  <2>2. thr[u].iso \in Isos
    BY <2>1, MountingRecord, CallRecord DEF Follows, Mounting
  <2>3. QED BY <2>1, <2>2 DEF Safe, Following, Follows
<1>3. QED BY <1>1, <1>2

LEMMA EnsureMountedStep == ASSUME IInv, NEW t \in Threads, EnsureMounted(t) PROVE IInv'
<1>1. Shape /\ Shape' /\ Types
  BY EnsureMountedShape DEF IInv, Shape
<1>2. PICK i \in Isos : i = thr[t].iso
  BY <1>1, MountingRecord DEF EnsureMounted, Mounting
<1>3. /\ mount[i] \in Mount /\ Types /\ MountInv(i)
      /\ thr[t].pc = "ensure" /\ mount[i].lock = None /\ thr[t] \in Thread
      /\ UNCHANGED <<set, table, live, cache, sidecar, file, faults, committed>>
      /\ mount' = [mount EXCEPT ![i].access = "recent"]
  BY <1>1, <1>2, MountingRecord DEF EnsureMounted, Mounting
<1>4. PICK c \in Contexts : c = mount[i].vfs
  BY <1>3, <1>2 DEF Mount, EnsureMounted
<1>5. PICK y \in Thread :
              /\ thr' = [thr EXCEPT ![t] = y]
              /\ y.pc \in {"vfs_open", "use"} /\ y.vfs = c /\ y.iso = thr[t].iso /\ y.op = thr[t].op
  BY <1>1, <1>2, <1>3, <1>4, MountedRecord DEF EnsureMounted
<1>6. thr'[t] = y /\ \A u \in Threads \ {t} : thr'[u] = thr[u]
  BY <1>3, <1>5 DEF Types
<1>7. \A j \in Isos : /\ mount'[j].state = mount[j].state
                      /\ mount'[j].refs = mount[j].refs /\ mount'[j].lock = mount[j].lock
  BY <1>3 DEF Types, Mount
<1>8. \A u \in Threads : /\ KeepsOpen(u) /\ KeepsStore(u) /\ KeepsBody(u) /\ KeepsSave(u)
  BY <1>3, <1>5, <1>6 DEF KeepsOpen, KeepsStore, KeepsBody, KeepsSave, InBody
<1>9. Bounded'
  <2>1. \A j \in Isos : mount[j].refs \in Nat
    BY <1>1 DEF Types, Mount
  <2>2. \A j \in Isos : mount'[j].refs <= mount[j].refs
    BY <1>7, <2>1
  <2>3. QED BY <1>1, <1>8, <2>2, BoundedFrame DEF IInv
<1>10. Safe'
  <2>1. \A u \in Threads \ {t} : KeepsFollow(u)
    BY <1>6 DEF KeepsFollow
  <2>2. thr'[t].vfs \in live'[thr'[t].iso] /\ mount'[thr'[t].iso].lock = None
    <3>1. c \in live[i]
      BY <1>3, <1>4, NoneIsNothing DEF MountInv
    <3>2. QED BY <1>2, <1>3, <1>5, <1>6, <1>7, <3>1
  <2>3. QED BY <1>1, <1>3, <1>7, <2>1, <2>2, SafeEnter DEF IInv
<1>11. Exact'
  BY <1>1, <1>3, <1>7, <1>8, ExactFrame DEF IInv
<1>12. Kept'
  BY <1>1, <1>3, <1>7, <1>8, KeptFrame DEF IInv
<1>13. QED BY <1>1, <1>9, <1>10, <1>11, <1>12 DEF IInv

LEMMA FlushGetStep == ASSUME IInv, NEW t \in Threads, FlushGet(t) PROVE IInv'
<1>1. Shape /\ Shape' /\ Types /\ thr \in [Threads -> Thread]
  BY FlushGetShape DEF IInv, Shape, Types
<1>2. PICK i \in Isos, h \in Handles : i = thr[t].iso /\ h = thr[t].h
  BY <1>1, CallRecord DEF FlushGet
<1>3. /\ thr[t].pc = "flush" /\ thr[t] \in Thread /\ FileInv(thr[t]) /\ MountInv(i)
      /\ PcInv(thr[t]) /\ thr[t].op \in {"flush", "close"}
      /\ UNCHANGED <<set, table, tableLock, mount, live, cache, sidecar, file, faults, committed>>
  BY <1>1, CallRecord DEF FlushGet, PcInv, Shape
<1>4. CASE mount[i].vfs = None
  BY <1>2, <1>3, <1>4, OnwardStep, ReturnStep DEF FlushGet, FlushDone
<1>5. CASE mount[i].vfs # None
  <2>1. /\ \A u \in Threads \ {t} : thr'[u] = thr[u]
        /\ thr'[t].pc = "set" /\ thr'[t].op = thr[t].op /\ thr'[t].iso = i
        /\ thr'[t].vfs = mount[i].vfs
    BY <1>1, <1>2, <1>3, <1>5 DEF FlushGet, Thread
  <2>2. \A u \in Threads : /\ KeepsOpen(u) /\ KeepsStore(u) /\ KeepsBody(u) /\ KeepsSave(u)
    BY <1>3, <2>1 DEF KeepsOpen, KeepsStore, KeepsBody, KeepsSave, InBody
  <2>3. Bounded'
    <3>1. \A j \in Isos : mount[j].refs \in Nat
      BY <1>1 DEF Types, Mount
    <3>2. \A j \in Isos : mount'[j].refs <= mount[j].refs
      BY <1>3, <3>1
    <3>3. QED BY <1>1, <2>2, <3>2, BoundedFrame DEF IInv
  <2>4. Safe'
    <3>1. \A u \in Threads \ {t} : KeepsFollow(u)
      BY <2>1 DEF KeepsFollow
    <3>2. CleanupAlone => mount[i].lock = None
      <4>1. file[h].iso = i /\ i # None
        BY <1>2, <1>3, NoneIsNothing DEF FileInv
      <4>2. QED BY <4>1 DEF IInv, Safe
    <3>3. mount[i].vfs \in live[i]
      BY <1>3, <1>5 DEF MountInv
    <3>4. CleanupAlone => thr'[t].vfs \in live'[thr'[t].iso] /\ mount'[thr'[t].iso].lock = None
      BY <1>3, <2>1, <3>2, <3>3
    <3>5. QED BY <1>1, <1>3, <3>1, <3>4, SafeEnter DEF IInv
  <2>5. Exact'
    BY <1>1, <1>3, <2>2, ExactFrame DEF IInv
  <2>6. Kept'
    BY <1>1, <1>3, <2>2, KeptFrame DEF IInv
  <2>7. QED BY <1>1, <2>3, <2>4, <2>5, <2>6 DEF IInv
<1>6. QED BY <1>4, <1>5

LEMMA ReadSeekStep ==
    ASSUME IInv, NEW t \in Threads, NEW h \in Handles, NEW off \in Offsets, ReadSeek(t, h, off)
    PROVE  IInv'
<1>1. Shape /\ Shape' /\ Types
  BY ReadSeekShape DEF IInv, Shape
<1>2. /\ thr[t].pc = "idle" /\ CanUse(t, h) /\ off \in Nat
      /\ UNCHANGED <<set, table, mount, live, cache, sidecar, committed, faults>>
  BY ConstantsAssumption DEF ReadSeek, CanUse, CanStart
<1>3. /\ \A u \in Threads \ {t} : thr'[u] = thr[u]
      /\ thr'[t].pc = "read" /\ thr'[t].op = "read" /\ thr'[t].h = h /\ thr'[t].n = off
  <2>1. Begin(t, "read", "read", file[h].iso, h, off)
    BY DEF ReadSeek
  <2>2. QED BY <1>1, <2>1, OthersStay
<1>4. /\ \A g \in Handles : file'[g].iso = file[g].iso /\ file'[g].vfs = file[g].vfs
  BY <1>1, <1>2, MovedFile DEF ReadSeek
<1>5. \A u \in Threads : /\ KeepsOpen(u) /\ KeepsStore(u) /\ KeepsBody(u) /\ KeepsSave(u)
                         /\ KeepsFollow(u)
  BY <1>2, <1>3 DEF KeepsOpen, KeepsStore, KeepsBody, KeepsSave, KeepsFollow, InBody, Follows
<1>6. Bounded'
  <2>1. \A j \in Isos : mount[j].refs \in Nat
    BY <1>1 DEF Types, Mount
  <2>2. \A j \in Isos : mount'[j].refs <= mount[j].refs
    BY <1>2, <2>1
  <2>3. QED BY <1>1, <1>5, <2>2, BoundedFrame DEF IInv
<1>7. Exact' /\ Safe'
  BY <1>1, <1>2, <1>4, <1>5, ExactFrame, SafeFrame DEF IInv
<1>8. Kept'
  BY <1>1, <1>2, <1>5, KeptFrame DEF IInv
<1>10. QED BY <1>1, <1>6, <1>7, <1>8 DEF IInv

LEMMA ReadDataStep == ASSUME IInv, NEW t \in Threads, ReadData(t) PROVE IInv'
<1>1. Shape /\ Shape' /\ Types
  BY ReadDataShape DEF IInv, Shape
<1>2. /\ thr[t].pc = "read"
      /\ UNCHANGED <<set, table, mount, live, cache, sidecar, committed, faults>>
  BY DEF ReadData
<1>3. PICK h \in Handles : h = thr[t].h
  BY <1>1, <1>2, CallRecord
<1>4. /\ \A u \in Threads \ {t} : thr'[u] = thr[u]
      /\ thr'[t].pc = "idle" /\ thr'[t].op = "none"
  <2>1. thr'[t] = Resting /\ \A u \in Threads \ {t} : thr'[u] = thr[u]
    BY <1>1, OthersStay DEF ReadData
  <2>2. QED BY <2>1, RestingRecord
<1>5. /\ \A g \in Handles : file'[g].iso = file[g].iso /\ file'[g].vfs = file[g].vfs
  <2>1. PICK n \in Nat : n = file[h].pos + 1
    BY <1>1 DEF Types, File
  <2>2. file' = [file EXCEPT ![h].pos = n]
    BY <1>1, <1>3, <2>1 DEF ReadData, Types
  <2>3. QED BY <1>1, <2>2, MovedFile
<1>6. \A u \in Threads : /\ KeepsOpen(u) /\ KeepsStore(u) /\ KeepsBody(u) /\ KeepsSave(u)
                         /\ KeepsFollow(u)
  BY <1>2, <1>4 DEF KeepsOpen, KeepsStore, KeepsBody, KeepsSave, KeepsFollow, InBody, Follows
<1>7. Bounded'
  <2>1. \A j \in Isos : mount[j].refs \in Nat
    BY <1>1 DEF Types, Mount
  <2>2. \A j \in Isos : mount'[j].refs <= mount[j].refs
    BY <1>2, <2>1
  <2>3. QED BY <1>1, <1>6, <2>2, BoundedFrame DEF IInv
<1>8. Exact' /\ Safe'
  BY <1>1, <1>2, <1>5, <1>6, ExactFrame, SafeFrame DEF IInv
<1>9. Kept'
  BY <1>1, <1>2, <1>6, KeptFrame DEF IInv
<1>11. QED BY <1>1, <1>7, <1>8, <1>9 DEF IInv

LEMMA RegisterIsoStep ==
    ASSUME IInv, NEW t \in Threads, NEW i \in Isos, RegisterIso(t, i)
    PROVE  IInv'
<1>1. Shape /\ Shape' /\ Types /\ MountInv(i)
  BY RegisterIsoShape DEF IInv, Shape
<1>2. /\ i \notin Registered /\ table' = Append(table, i) /\ mount' = [mount EXCEPT ![i] = NoMount]
      /\ UNCHANGED <<set, live, cache, sidecar, file, thr, faults, committed>>
  BY DEF RegisterIso, CanRegister
<1>3. mount[i].refs = 0 /\ mount[i].lock = None /\ mount[i].state = "closed"
  <2>1. mount[i].refs = 0 /\ mount[i].lock = None /\ mount[i].vfs = None /\ mount[i].state # "open"
    BY <1>1, <1>2 DEF MountInv
  <2>2. mount[i].state \in {"closed", "open"}
    BY <1>1 DEF Types, Mount
  <2>3. QED BY <2>1, <2>2
<1>4. \A j \in Isos : /\ mount'[j].state = mount[j].state
                      /\ mount'[j].refs = mount[j].refs /\ mount'[j].lock = mount[j].lock
  BY <1>1, <1>2, <1>3, EmptyRecords DEF Types
<1>5. \A k \in 1..Len(table) : table'[k] = table[k]
  BY <1>1, <1>2 DEF Types
<1>6. \A u \in Threads : /\ KeepsOpen(u) /\ KeepsStore(u) /\ KeepsBody(u)
                         /\ KeepsFollow(u) /\ KeepsSave(u)
  BY <1>2, NobodyMoves
<1>7. Bounded'
  <2>1. \A j \in Isos : mount[j].refs \in Nat
    BY <1>1 DEF Types, Mount
  <2>2. \A j \in Isos : mount'[j].refs <= mount[j].refs
    BY <1>4, <2>1
  <2>3. QED BY <1>1, <1>6, <2>2, BoundedFrame DEF IInv
<1>8. Exact' /\ Safe'
  BY <1>1, <1>2, <1>4, <1>5, <1>6, ExactFrame, SafeFrame DEF IInv
<1>9. Kept'
  BY <1>1, <1>2, <1>4, <1>5, <1>6, KeptFrame DEF IInv
<1>10. QED BY <1>1, <1>7, <1>8, <1>9 DEF IInv

----------------------------------------------------------------------------
(* Steps that create, count and destroy.                                   *)

LEMMA CreateVfsStep == ASSUME IInv, NEW t \in Threads, CreateVfs(t) PROVE IInv'
<1>1. Shape /\ Shape' /\ Types
  BY CreateVfsShape DEF IInv, Shape
<1>2. PICK i \in Isos : i = thr[t].iso
  BY <1>1, MountingRecord DEF CreateVfs, Mounting
<1>3. PICK c : c = CHOOSE d \in FreeContexts : TRUE
  OBVIOUS
<1>4. /\ mount[i] \in Mount /\ MountInv(i)
      /\ thr[t].pc = "ensure" /\ mount[i].lock = None /\ mount[i].vfs = None
      /\ UNCHANGED <<set, table, cache, sidecar, file, faults, committed>>
      /\ mount' = [mount EXCEPT ![i].lock = t, ![i].vfs = c, ![i].state = "closed"]
      /\ live' = [live EXCEPT ![i] = @ \cup {c}]
      /\ Goto(t, "mounting")
  BY <1>1, <1>2, <1>3, MountingRecord DEF CreateVfs, Mounting
<1>5. /\ \A u \in Threads \ {t} : thr'[u] = thr[u]
      /\ thr'[t].pc = "mounting" /\ thr'[t].op = thr[t].op /\ thr'[t].iso = thr[t].iso
  BY <1>1, <1>4, OthersStay
<1>6. \A u \in Threads : /\ KeepsOpen(u) /\ KeepsStore(u) /\ KeepsBody(u) /\ KeepsSave(u)
                         /\ KeepsFollow(u)
  BY <1>4, <1>5 DEF KeepsOpen, KeepsStore, KeepsBody, KeepsSave, KeepsFollow, InBody, Follows
<1>7. /\ \A j \in Isos : mount'[j].refs = mount[j].refs
      /\ \A j \in Isos \ {i} : mount'[j] = mount[j] /\ live'[j] = live[j]
      /\ mount'[i].state = "closed" /\ live[i] = {}
  BY <1>1, <1>4 DEF Types, Mount, MountInv
<1>8. Bounded'
  <2>1. \A j \in Isos : mount[j].refs \in Nat
    BY <1>1 DEF Types, Mount
  <2>2. \A j \in Isos : mount'[j].refs <= mount[j].refs
    BY <1>7, <2>1
  <2>3. QED BY <1>1, <1>6, <2>2, BoundedFrame DEF IInv
<1>9. Exact'
  BY <1>1, <1>4, <1>6, <1>7, ExactFrame DEF IInv
<1>10. Safe'
  <2>1. \A j \in Isos : live[j] # {} /\ mount[j].lock = None =>
                          live'[j] = live[j] /\ mount'[j].lock = None
    BY <1>7
  <2>2. QED BY <1>1, <1>4, <1>6, <2>1, SafeFrame DEF IInv
<1>11. Kept'
  <2>1. \A j \in Isos : mount'[j].state = "open" => mount[j].state = "open" /\ cache'[j] = cache[j]
    BY <1>4, <1>7
  <2>2. ~MT => \A u \in Threads : thr[u].pc # "save"
    BY <1>1, <1>4, Alone
  <2>3. QED BY <1>1, <1>4, <1>6, <2>1, <2>2, KeptFrame DEF IInv
<1>13. QED BY <1>1, <1>8, <1>9, <1>10, <1>11 DEF IInv

\* What holds of the tags while one thread is inside a call of the
\* single-threaded loop.
LEMMA KeptNow ==
    ASSUME Shape, Kept, ~MT, faults = 0, NEW t \in Threads, thr[t].pc # "idle",
           NEW j \in Isos, committed[j] # None
    PROVE  /\ mount[j].state = "open" =>
                 cache[j].tag = committed[j] /\ "valid" \in cache[j].flags
                 /\ cache[j].flags \cap {"dirty", "xml"} # {}
           /\ sidecar[j] = committed[j] \/ (thr[t].iso = j /\ thr[t].pc \in {"save", "write"})
<1>1. \A u \in Threads \ {t} : thr[u].pc = "idle"
  BY Alone
<1>2. QED BY <1>1 DEF Kept, TagKept, IsOpen, HasData

\* What a thread that is alone inside a call has to show of the tags.
LEMMA KeptByOne ==
    ASSUME Shape, NEW t \in Threads, thr[t].pc # "idle", set' = set,
           \A u \in Threads \ {t} : thr'[u] = thr[u],
           ~MT /\ faults' = 0 =>
              /\ \A j \in Isos : committed'[j] # None =>
                    /\ mount'[j].state = "open" =>
                          cache'[j].tag = committed'[j] /\ "valid" \in cache'[j].flags
                          /\ cache'[j].flags \cap {"dirty", "xml"} # {}
                    /\ \/ sidecar'[j] = committed'[j]
                       \/ thr'[t].iso = j /\ thr'[t].pc \in {"save", "write"}
              /\ thr'[t].pc = "save" /\ committed'[thr'[t].iso] # None =>
                    thr'[t].vfs \in live'[thr'[t].iso] /\ mount'[thr'[t].iso].state = "open"
              /\ thr'[t].pc = "write" /\ committed'[thr'[t].iso] # None =>
                    thr'[t].doc = committed'[thr'[t].iso]
              /\ thr'[t].pc = "clean_write" /\ committed'[table'[thr'[t].n]] # None =>
                    thr'[t].doc = committed'[table'[thr'[t].n]]
    PROVE  Kept'
<1> SUFFICES ASSUME ~MT, faults' = 0 PROVE
       /\ \A j \in Isos : TagKept(j)'
       /\ \A u \in Threads :
             /\ thr'[u].pc = "save" /\ committed'[thr'[u].iso] # None => Usable(u)'
             /\ thr'[u].pc = "write" /\ committed'[thr'[u].iso] # None =>
                   thr'[u].doc = committed'[thr'[u].iso]
             /\ thr'[u].pc = "clean_write" /\ committed'[table'[thr'[u].n]] # None =>
                   thr'[u].doc = committed'[table'[thr'[u].n]]
  BY DEF Kept, MT
<1>1. \A u \in Threads \ {t} : thr'[u].pc = "idle"
  BY Alone
<1>2. ASSUME NEW j \in Isos PROVE TagKept(j)'
  BY DEF TagKept, IsOpen, HasData
<1>3. ASSUME NEW u \in Threads PROVE
             /\ thr'[u].pc = "save" /\ committed'[thr'[u].iso] # None => Usable(u)'
             /\ thr'[u].pc = "write" /\ committed'[thr'[u].iso] # None =>
                   thr'[u].doc = committed'[thr'[u].iso]
             /\ thr'[u].pc = "clean_write" /\ committed'[table'[thr'[u].n]] # None =>
                   thr'[u].doc = committed'[table'[thr'[u].n]]
  BY <1>1 DEF Usable, IsOpen
<1>4. QED BY <1>2, <1>3

LEMMA OpenVfsStep == ASSUME IInv, NEW t \in Threads, OpenVfs(t) PROVE IInv'
<1>1. Shape /\ Shape' /\ Types
  BY OpenVfsShape DEF IInv, Shape
<1>2. PICK i \in Isos : i = thr[t].iso
  BY <1>1, MountingRecord DEF OpenVfs, MountDone, Mounting
<1>3. /\ mount[i] \in Mount /\ MountInv(i)
      /\ thr[t].pc = "mounting" /\ mount[i].lock = t /\ mount[i].vfs # None
      /\ mount[i].state = "closed"
      /\ UNCHANGED <<set, table, tableLock, sidecar, file, faults, committed>>
  BY <1>1, <1>2, MountingRecord DEF OpenVfs, MountDone, Mounting, LockInv
<1>4. PICK c \in Contexts : c = mount[i].vfs
  BY <1>3 DEF Mount
<1>5. ~MT => \A u \in Threads : thr[u].pc \notin {"save", "write"}
  BY <1>1, <1>3, Alone
<1>6. CASE /\ mount' = [mount EXCEPT ![i].state = "open", ![i].access = "recent", ![i].lock = None]
           /\ cache' = [cache EXCEPT ![i] = Loaded(i)] /\ MountedAs(t, c) /\ UNCHANGED live
  <2>1. PICK y \in Thread :
              /\ thr' = [thr EXCEPT ![t] = y]
              /\ y.pc \in {"vfs_open", "use"} /\ y.vfs = c /\ y.iso = thr[t].iso /\ y.op = thr[t].op
    BY <1>1, <1>2, <1>3, <1>6, MountedRecord
  <2>2. thr'[t] = y /\ \A u \in Threads \ {t} : thr'[u] = thr[u]
    BY <1>1, <2>1 DEF Types
  <2>3. /\ \A j \in Isos : mount'[j].refs = mount[j].refs
        /\ \A j \in Isos \ {i} : mount'[j] = mount[j] /\ cache'[j] = cache[j]
        /\ mount'[i].lock = None /\ mount'[i].state = "open" /\ cache'[i] = Loaded(i)
    BY <1>1, <1>3, <1>6 DEF Types, Mount
  <2>4. \A u \in Threads : /\ KeepsOpen(u) /\ KeepsStore(u) /\ KeepsBody(u) /\ KeepsSave(u)
    BY <1>3, <2>1, <2>2 DEF KeepsOpen, KeepsStore, KeepsBody, KeepsSave, InBody
  <2>5. Bounded'
    <3>1. \A j \in Isos : mount[j].refs \in Nat
      BY <1>1 DEF Types, Mount
    <3>2. \A j \in Isos : mount'[j].refs <= mount[j].refs
      BY <2>3, <3>1
    <3>3. QED BY <1>1, <2>4, <3>2, BoundedFrame DEF IInv
  <2>6. Exact'
    BY <1>1, <1>3, <2>3, <2>4, ExactFrame DEF IInv
  <2>7. Safe'
    <3>1. \A u \in Threads \ {t} : KeepsFollow(u)
      BY <2>2 DEF KeepsFollow
    <3>2. thr'[t].vfs \in live'[thr'[t].iso] /\ mount'[thr'[t].iso].lock = None
      <4>1. c \in live[i]
        BY <1>3, <1>4, NoneIsNothing DEF MountInv
      <4>2. QED BY <1>2, <1>6, <2>1, <2>2, <2>3, <4>1
    <3>3. \A j \in Isos : live[j] # {} /\ mount[j].lock = None =>
                            live'[j] = live[j] /\ mount'[j].lock = None
      BY <1>6, <2>3
    <3>4. QED BY <1>1, <1>3, <3>1, <3>2, <3>3, SafeEnter DEF IInv
  <2>8. Kept'
    <3>1. ASSUME ~MT, faults = 0, NEW j \in Isos, committed[j] # None
          PROVE  /\ mount'[j].state = "open" =>
                       cache'[j].tag = committed[j] /\ "valid" \in cache'[j].flags
                       /\ cache'[j].flags \cap {"dirty", "xml"} # {}
                 /\ sidecar[j] = committed[j]
      <4>1. sidecar[j] = committed[j]
        BY <1>1, <1>3, <3>1, KeptNow DEF IInv
      <4>2. CASE j = i
        BY <2>3, <3>1, <4>1, <4>2 DEF Loaded
      <4>3. CASE j # i
        BY <1>1, <1>3, <2>3, <3>1, <4>1, <4>3, KeptNow DEF IInv
      <4>4. QED BY <4>2, <4>3
    <3>2. thr'[t].pc \notin {"save", "write", "clean_write"} /\ thr[t].pc # "idle"
      BY <1>3, <2>1, <2>2
    <3>3. QED BY <1>1, <1>3, <2>2, <3>1, <3>2, KeptByOne
  <2>10. QED BY <1>1, <2>5, <2>6, <2>7, <2>8 DEF IInv
<1>7. CASE /\ mount' = [mount EXCEPT ![i].vfs = None, ![i].access = "recent", ![i].lock = None]
           /\ live' = [live EXCEPT ![i] = Failed(i)] /\ Return(t) /\ UNCHANGED cache
  <2>1. thr'[t] = Resting /\ \A u \in Threads \ {t} : thr'[u] = thr[u]
    BY <1>1, <1>7, OthersStay
  <2>2. thr'[t].pc = "idle" /\ thr'[t].op = "none"
    BY <2>1, RestingRecord
  <2>3. /\ \A j \in Isos : mount'[j].refs = mount[j].refs /\ mount'[j].state = mount[j].state
        /\ \A j \in Isos \ {i} : mount'[j] = mount[j] /\ live'[j] = live[j]
    BY <1>1, <1>3, <1>7 DEF Types, Mount
  <2>4. \A u \in Threads : /\ KeepsOpen(u) /\ KeepsStore(u) /\ KeepsBody(u) /\ KeepsSave(u)
                           /\ KeepsFollow(u)
    BY <1>3, <2>1, <2>2 DEF KeepsOpen, KeepsStore, KeepsBody, KeepsSave, KeepsFollow,
       InBody, Follows
  <2>5. Bounded'
    <3>1. \A j \in Isos : mount[j].refs \in Nat
      BY <1>1 DEF Types, Mount
    <3>2. \A j \in Isos : mount'[j].refs <= mount[j].refs
      BY <2>3, <3>1
    <3>3. QED BY <1>1, <2>4, <3>2, BoundedFrame DEF IInv
  <2>6. Exact'
    BY <1>1, <1>3, <2>3, <2>4, ExactFrame DEF IInv
  <2>7. Safe'
    <3>3. \A j \in Isos : live[j] # {} /\ mount[j].lock = None =>
                            live'[j] = live[j] /\ mount'[j].lock = None
      BY <1>3, <2>3, NoneIsNothing
    <3>4. QED BY <1>1, <1>3, <2>4, <3>3, SafeFrame DEF IInv
  <2>8. Kept'
    BY <1>1, <1>3, <1>5, <1>7, <2>3, <2>4, KeptFrame DEF IInv
  <2>10. QED BY <1>1, <2>5, <2>6, <2>7, <2>8 DEF IInv
<1>8. QED BY <1>2, <1>4, <1>6, <1>7 DEF OpenVfs

\* A handle is added to, or taken from, those of one ISO.
LEMMA HandleAdded ==
    ASSUME NEW i \in Isos, NEW h \in Handles, file[h].iso = None, file'[h].iso = i,
           \A g \in Handles \ {h} : file'[g].iso = file[g].iso
    PROVE  /\ Cardinality(HandlesOf(i)') = Cardinality(HandlesOf(i)) + 1
           /\ \A j \in Isos \ {i} : HandlesOf(j)' = HandlesOf(j)
<1>1. i # None /\ h \notin HandlesOf(i) /\ HandlesOf(i)' = HandlesOf(i) \cup {h}
  BY NoneIsNothing DEF HandlesOf
<1>2. IsFiniteSet(HandlesOf(i))
  <2>1. HandlesOf(i) \subseteq Handles
    BY DEF HandlesOf
  <2>2. QED BY <2>1, ConstantsAssumption, FS_Subset
<1>3. Cardinality(HandlesOf(i) \cup {h}) = Cardinality(HandlesOf(i)) + 1
  BY <1>1, <1>2, FS_AddElement
<1>4. \A j \in Isos \ {i} : HandlesOf(j)' = HandlesOf(j)
  BY NoneIsNothing DEF HandlesOf
<1>5. QED BY <1>1, <1>3, <1>4

LEMMA HandleTaken ==
    ASSUME NEW i \in Isos, NEW h \in Handles, file[h].iso = i, file'[h].iso = None,
           \A g \in Handles \ {h} : file'[g].iso = file[g].iso
    PROVE  /\ Cardinality(HandlesOf(i)) \in Nat /\ Cardinality(HandlesOf(i)) > 0
           /\ Cardinality(HandlesOf(i)') = Cardinality(HandlesOf(i)) - 1
           /\ \A j \in Isos \ {i} : HandlesOf(j)' = HandlesOf(j)
<1>1. i # None /\ h \in HandlesOf(i) /\ HandlesOf(i)' = HandlesOf(i) \ {h}
  BY NoneIsNothing DEF HandlesOf
<1>2. IsFiniteSet(HandlesOf(i))
  <2>1. HandlesOf(i) \subseteq Handles
    BY DEF HandlesOf
  <2>2. QED BY <2>1, ConstantsAssumption, FS_Subset
<1>3. Cardinality(HandlesOf(i) \ {h}) = Cardinality(HandlesOf(i)) - 1 /\ IsFiniteSet(HandlesOf(i) \ {h})
  BY <1>1, <1>2, FS_RemoveElement
<1>4. \A j \in Isos \ {i} : HandlesOf(j)' = HandlesOf(j)
  BY NoneIsNothing DEF HandlesOf
<1>5. Cardinality(HandlesOf(i)) \in Nat /\ Cardinality(HandlesOf(i) \ {h}) \in Nat
  BY <1>2, <1>3, FS_CardinalityType
<1>6. QED BY <1>1, <1>3, <1>4, <1>5

LEMMA RefStoreStep == ASSUME IInv, NEW t \in Threads, RefStore(t) PROVE IInv'
<1>1. Shape /\ Shape' /\ Types
  BY RefStoreShape DEF IInv, Shape
<1>2. PICK i \in Isos : i = thr[t].iso
  BY <1>1, MountingRecord DEF RefStore, Mounting
<1>3. /\ thr[t].pc = "ref_store" /\ thr[t] \in Thread /\ thr[t].op = "open"
      /\ UNCHANGED <<set, table, tableLock, live, cache, sidecar, faults, committed>>
      /\ mount' = [mount EXCEPT ![i].refs = thr[t].n + 1, ![i].access = "recent"]
      /\ Return(t)
  BY <1>1, <1>2, MountingRecord DEF RefStore, Mounting, PcInv
<1>4. PICK h \in Handles : h = thr[t].h /\ file[h].iso = None
  BY <1>1, <1>3, MountingRecord DEF Mounting
<1>5. PICK n \in Nat : n = thr[t].n
  BY <1>3 DEF Thread
<1>6. /\ thr'[t].pc = "idle" /\ thr'[t].op = "none"
      /\ \A u \in Threads \ {t} : thr'[u] = thr[u]
  <2>1. thr'[t] = Resting /\ \A u \in Threads \ {t} : thr'[u] = thr[u]
    BY <1>1, <1>3, OthersStay
  <2>2. QED BY <2>1, RestingRecord
<1>7. /\ \A j \in Isos : mount'[j].lock = mount[j].lock /\ mount'[j].state = mount[j].state
      /\ \A j \in Isos \ {i} : mount'[j].refs = mount[j].refs
      /\ mount'[i].refs = n + 1
  BY <1>1, <1>3, <1>5 DEF Types, Mount
<1>8. /\ file'[h].iso = i /\ file'[h].vfs = thr[t].vfs
      /\ \A g \in Handles \ {h} : file'[g] = file[g]
  BY <1>1, <1>2, <1>4 DEF RefStore, Types
<1>9. \A u \in Threads : /\ KeepsOpen(u) /\ KeepsStore(u) /\ KeepsBody(u) /\ KeepsSave(u)
                         /\ KeepsFollow(u)
  BY <1>3, <1>6 DEF KeepsOpen, KeepsStore, KeepsBody, KeepsSave, KeepsFollow,
     InBody, Follows
<1>10. \A u \in Threads \ {t} : thr[u].h # h
  BY <1>1, <1>3, <1>4, NoneIsNothing DEF Shape, Apart
<1>11. Bounded'
  <2>1. /\ Opening(i)' = Opening(i) \ {t} /\ t \in Opening(i)
        /\ \A j \in Isos \ {i} : Opening(j)' = Opening(j)
    BY <1>2, <1>3, <1>6 DEF Opening
  <2>2. IsFiniteSet(Opening(i))
    <3>1. Opening(i) \subseteq Threads
      BY DEF Opening
    <3>2. QED BY <3>1, ConstantsAssumption, FS_Subset
  <2>3. /\ Cardinality(Opening(i)') = Cardinality(Opening(i)) - 1
        /\ Cardinality(Opening(i)) \in Nat /\ Cardinality(Opening(i)') \in Nat
    BY <2>1, <2>2, FS_RemoveElement, FS_CardinalityType
  <2>4. MaxRefs \in Nat
    BY ConstantsAssumption
  <2>5. n + Cardinality(Opening(i)) <= MaxRefs
    BY <1>2, <1>3, <1>5 DEF IInv, Bounded
  <2>6. ASSUME NEW j \in Isos PROVE mount'[j].refs + Cardinality(Opening(j)') <= MaxRefs
    <3>1. CASE j = i
      <4>1. n + 1 + Cardinality(Opening(i)') <= MaxRefs
        BY <2>3, <2>4, <2>5
      <4>2. QED BY <1>7, <3>1, <4>1
    <3>2. CASE j # i
      BY <1>7, <2>1, <3>2 DEF IInv, Bounded
    <3>3. QED BY <3>1, <3>2
  <2>7. ASSUME NEW u \in Threads, thr'[u].pc = "ref_store"
        PROVE  thr'[u].n + Cardinality(Opening(thr[u].iso)') <= MaxRefs
    <3>1. thr'[u] = thr[u] /\ thr[u].pc = "ref_store" /\ thr[u].pc \in Mounting
      BY <1>9, <2>7 DEF KeepsStore, Mounting
    <3>2. PICK j \in Isos : j = thr[u].iso
      BY <1>1, <3>1, MountingRecord
    <3>3. PICK m \in Nat : m = thr[u].n
      BY <1>1 DEF Types, Thread
    <3>4. m + Cardinality(Opening(j)) <= MaxRefs
      BY <3>1, <3>2, <3>3 DEF IInv, Bounded
    <3>5. m + Cardinality(Opening(j)') <= MaxRefs
      <4>1. CASE j = i
        <5>1. m + Cardinality(Opening(i)) <= MaxRefs
          BY <3>4, <4>1
        <5>2. m + Cardinality(Opening(i)') <= MaxRefs
          BY <2>3, <2>4, <5>1
        <5>3. QED BY <4>1, <5>2
      <4>2. CASE j # i
        BY <2>1, <3>4, <4>2
      <4>3. QED BY <4>1, <4>2
    <3>6. QED BY <3>1, <3>2, <3>3, <3>5 DEF Opening
  <2>8. QED BY <2>6, <2>7 DEF Bounded
<1>12. Exact'
  <2> SUFFICES ASSUME ~MT PROVE
       /\ \A j \in Isos : mount'[j].refs = Cardinality(HandlesOf(j)')
       /\ \A u \in Threads : thr'[u].pc = "ref_store" => thr'[u].n = mount'[thr'[u].iso].refs
       /\ \A u \in Threads : thr'[u].pc \in InBody => mount'[table'[thr'[u].n]].refs = 0
    BY <1>3 DEF Exact, MT
  <2>1. \A u \in Threads : thr'[u].pc = "idle"
    BY <1>1, <1>3, <1>6, Alone
  <2>2. mount[i].refs = n /\ n = Cardinality(HandlesOf(i))
    BY <1>2, <1>3, <1>5 DEF IInv, Exact
  <2>3. /\ Cardinality(HandlesOf(i)') = Cardinality(HandlesOf(i)) + 1
        /\ \A j \in Isos \ {i} : HandlesOf(j)' = HandlesOf(j)
    BY <1>4, <1>8, HandleAdded
  <2>4. ASSUME NEW j \in Isos PROVE mount'[j].refs = Cardinality(HandlesOf(j)')
    <3>1. CASE j = i
      BY <1>7, <2>2, <2>3, <3>1
    <3>2. CASE j # i
      BY <1>7, <2>3, <3>2 DEF IInv, Exact
    <3>3. QED BY <3>1, <3>2
  <2>5. QED BY <2>1, <2>4 DEF InBody
<1>13. Safe'
  <2> SUFFICES ASSUME CleanupAlone PROVE
       /\ \A g \in Handles : file'[g].iso # None =>
             file'[g].vfs \in live'[file'[g].iso] /\ mount'[file'[g].iso].lock = None
       /\ \A u \in Threads : thr'[u].pc \in Follows =>
             thr'[u].vfs \in live'[thr'[u].iso] /\ mount'[thr'[u].iso].lock = None
    BY <1>3 DEF Safe, CleanupAlone, MT, Timeout, Following, Follows
  <2>1. ASSUME NEW g \in Handles, file'[g].iso # None
        PROVE  file'[g].vfs \in live'[file'[g].iso] /\ mount'[file'[g].iso].lock = None
    <3>1. CASE g = h
      <4>1. thr[t].vfs \in live[i] /\ mount[i].lock = None
        BY <1>2, <1>3 DEF IInv, Safe, Following
      <4>2. QED BY <1>3, <1>7, <1>8, <3>1, <4>1
    <3>2. CASE g # h
      <4>1. file'[g] = file[g] /\ file[g].iso \in Isos
        BY <1>1, <1>8, <2>1, <3>2 DEF Types, File
      <4>2. QED BY <1>3, <1>7, <2>1, <4>1 DEF IInv, Safe
    <3>3. QED BY <3>1, <3>2
  <2>2. ASSUME NEW u \in Threads, thr'[u].pc \in Follows
        PROVE  thr'[u].vfs \in live'[thr'[u].iso] /\ mount'[thr'[u].iso].lock = None
    <3>1. u # t /\ thr'[u] = thr[u]
      BY <1>6, <2>2 DEF Follows
    <3>2. thr[u].iso \in Isos
      BY <1>1, <2>2, <3>1, MountingRecord, CallRecord DEF Follows, Mounting
    <3>3. QED BY <1>3, <1>7, <2>2, <3>1, <3>2 DEF IInv, Safe, Following, Follows
  <2>3. QED BY <2>1, <2>2
<1>14. Kept'
  <2>1. \A u \in Threads : thr[u].pc = "save" => thr[u].iso \in Isos
    BY <1>1, CallRecord
  <2>2. QED BY <1>1, <1>3, <1>7, <1>9, <2>1, KeptFrame DEF IInv
<1>16. QED BY <1>1, <1>11, <1>12, <1>13, <1>14 DEF IInv

LEMMA ReleaseIsoStep == ASSUME IInv, NEW t \in Threads, ReleaseIso(t) PROVE IInv'
<1>1. Shape /\ Shape' /\ Types
  BY ReleaseIsoShape DEF IInv, Shape
<1>2. PICK i \in Isos, h \in Handles : i = thr[t].iso /\ h = thr[t].h
  BY <1>1, CallRecord DEF ReleaseIso
<1>3. /\ thr[t].pc = "release" /\ thr[t].op = "close" /\ file[h].iso = i
      /\ UNCHANGED <<set, table, tableLock, live, cache, sidecar, faults, committed>>
      /\ mount' = [mount EXCEPT ![i].refs = Released(@)]
      /\ file' = [file EXCEPT ![h] = NoFile] /\ Return(t)
  <2>1. thr[t].op = "close" /\ FileInv(thr[t]) /\ thr[t].pc = "release"
    BY <1>1, CallRecord DEF ReleaseIso, PcInv
  <2>2. QED BY <1>2, <2>1 DEF ReleaseIso, FileInv
<1>4. PICK m \in Nat : m = mount[i].refs
  BY <1>1 DEF Types, Mount
<1>6. /\ thr'[t].pc = "idle" /\ thr'[t].op = "none"
      /\ \A u \in Threads \ {t} : thr'[u] = thr[u]
  <2>1. thr'[t] = Resting /\ \A u \in Threads \ {t} : thr'[u] = thr[u]
    BY <1>1, <1>3, OthersStay
  <2>2. QED BY <2>1, RestingRecord
<1>7. /\ \A j \in Isos : mount'[j].lock = mount[j].lock /\ mount'[j].state = mount[j].state
      /\ \A j \in Isos \ {i} : mount'[j].refs = mount[j].refs
      /\ mount'[i].refs = Released(m)
  BY <1>1, <1>3, <1>4 DEF Types, Mount
<1>8. file'[h].iso = None /\ \A g \in Handles \ {h} : file'[g] = file[g]
  BY <1>1, <1>3, EmptyRecords DEF Types
<1>9. \A u \in Threads : /\ KeepsOpen(u) /\ KeepsStore(u) /\ KeepsBody(u) /\ KeepsSave(u)
                         /\ KeepsFollow(u)
  BY <1>3, <1>6 DEF KeepsOpen, KeepsStore, KeepsBody, KeepsSave, KeepsFollow,
     InBody, Follows
<1>10. \A u \in Threads \ {t} : thr[u].h # h
  BY <1>1, <1>2, <1>3, NoneIsNothing DEF Shape, Apart
<1>11. Bounded'
  <2>1. \A j \in Isos : mount[j].refs \in Nat
    BY <1>1 DEF Types, Mount
  <2>2. Released(m) <= m
    BY ReleasedCount
  <2>3. ASSUME NEW j \in Isos PROVE mount'[j].refs <= mount[j].refs
    <3>1. CASE j = i
      BY <1>4, <1>7, <2>2, <3>1
    <3>2. CASE j # i
      BY <1>7, <2>1, <3>2
    <3>3. QED BY <3>1, <3>2
  <2>4. QED BY <1>1, <1>9, <2>3, BoundedFrame DEF IInv
<1>12. Exact'
  <2> SUFFICES ASSUME ~MT PROVE
       /\ \A j \in Isos : mount'[j].refs = Cardinality(HandlesOf(j)')
       /\ \A u \in Threads : thr'[u].pc = "ref_store" => thr'[u].n = mount'[thr'[u].iso].refs
       /\ \A u \in Threads : thr'[u].pc \in InBody => mount'[table'[thr'[u].n]].refs = 0
    BY <1>3 DEF Exact, MT
  <2>1. \A u \in Threads : thr'[u].pc = "idle"
    BY <1>1, <1>3, <1>6, Alone
  <2>2. m = Cardinality(HandlesOf(i))
    BY <1>4 DEF IInv, Exact
  <2>3. /\ Cardinality(HandlesOf(i)') = Cardinality(HandlesOf(i)) - 1
        /\ Cardinality(HandlesOf(i)) > 0
        /\ \A j \in Isos \ {i} : HandlesOf(j)' = HandlesOf(j)
    BY <1>3, <1>8, HandleTaken
  <2>4. Released(m) = Cardinality(HandlesOf(i)')
    BY <2>2, <2>3, ReleasedCount
  <2>5. ASSUME NEW j \in Isos PROVE mount'[j].refs = Cardinality(HandlesOf(j)')
    <3>1. CASE j = i
      BY <1>7, <2>4, <3>1
    <3>2. CASE j # i
      BY <1>7, <2>3, <3>2 DEF IInv, Exact
    <3>3. QED BY <3>1, <3>2
  <2>6. QED BY <2>1, <2>5 DEF InBody
<1>13. Safe'
  <2>1. \A j \in Isos : live[j] # {} /\ mount[j].lock = None =>
                          live'[j] = live[j] /\ mount'[j].lock = None
    BY <1>3, <1>7
  <2>2. \A g \in Handles : file'[g].iso # None =>
                             file'[g].iso = file[g].iso /\ file'[g].vfs = file[g].vfs
    BY <1>8
  <2>3. QED BY <1>1, <1>3, <1>9, <2>1, <2>2, SafeFrame DEF IInv
<1>14. Kept'
  <2>1. \A u \in Threads : thr[u].pc = "save" => thr[u].iso \in Isos
    BY <1>1, CallRecord
  <2>2. QED BY <1>1, <1>3, <1>7, <1>9, <2>1, KeptFrame DEF IInv
<1>16. QED BY <1>1, <1>11, <1>12, <1>13, <1>14 DEF IInv

LEMMA CleanCloseStep == ASSUME IInv, NEW t \in Threads, CleanClose(t) PROVE IInv'
<1>1. Shape /\ Shape' /\ Types /\ thr \in [Threads -> Thread]
  BY CleanCloseShape DEF IInv, Shape, Types
<1>2. PICK i \in Isos : i = table[thr[t].n]
  BY <1>1, BodyRecord DEF CleanClose, InBody
<1>3. /\ thr[t].pc = "clean_close" /\ thr[t].pc \in InBody /\ thr[t] \in Thread /\ Timeout
      /\ UNCHANGED <<set, table, tableLock, sidecar, file, faults, committed>>
      /\ mount' = [mount EXCEPT ![i].vfs = None, ![i].state = "closed"]
      /\ live' = [live EXCEPT ![i] = @ \ {mount[i].vfs}]
      /\ cache' = [cache EXCEPT ![i] = NoCache]
  BY <1>1, <1>2, BodyRecord DEF CleanClose, InBody
<1>4. /\ \A u \in Threads \ {t} : thr'[u] = thr[u]
      /\ thr'[t].pc = "clean" /\ thr'[t].op = thr[t].op /\ thr'[t].iso = thr[t].iso
  BY <1>1, <1>3 DEF CleanClose, Thread
<1>5. /\ \A j \in Isos : mount'[j].refs = mount[j].refs /\ mount'[j].lock = mount[j].lock
      /\ \A j \in Isos \ {i} : mount'[j] = mount[j] /\ live'[j] = live[j] /\ cache'[j] = cache[j]
      /\ mount'[i].state = "closed"
  BY <1>1, <1>3 DEF Types, Mount
<1>6. \A u \in Threads : /\ KeepsOpen(u) /\ KeepsStore(u) /\ KeepsBody(u) /\ KeepsSave(u)
                         /\ KeepsFollow(u)
  BY <1>3, <1>4 DEF KeepsOpen, KeepsStore, KeepsBody, KeepsSave, KeepsFollow,
     InBody, Follows
<1>7. Bounded'
  <2>1. \A j \in Isos : mount[j].refs \in Nat
    BY <1>1 DEF Types, Mount
  <2>2. \A j \in Isos : mount'[j].refs <= mount[j].refs
    BY <1>5, <2>1
  <2>3. QED BY <1>1, <1>6, <2>2, BoundedFrame DEF IInv
<1>8. Exact'
  BY <1>1, <1>3, <1>5, <1>6, ExactFrame DEF IInv
<1>9. Safe'
  <2> SUFFICES ASSUME CleanupAlone PROVE
       /\ \A g \in Handles : file'[g].iso # None =>
             file'[g].vfs \in live'[file'[g].iso] /\ mount'[file'[g].iso].lock = None
       /\ \A u \in Threads : thr'[u].pc \notin Follows
    BY <1>3 DEF Safe, CleanupAlone, MT, Timeout, Following, Follows
  <2>1. ~MT
    BY <1>3 DEF CleanupAlone
  <2>2. \A u \in Threads \ {t} : thr'[u].pc = "idle"
    BY <1>1, <1>3, <1>4, <2>1, Alone
  <2>3. \A u \in Threads : thr'[u].pc \notin Follows
    BY <1>4, <2>2 DEF Follows
  <2>4. HandlesOf(i) = {}
    <3>1. mount[i].refs = 0 /\ mount[i].refs = Cardinality(HandlesOf(i))
      BY <1>2, <1>3, <2>1 DEF IInv, Exact
    <3>2. HandlesOf(i) \subseteq Handles
      BY DEF HandlesOf
    <3>3. IsFiniteSet(HandlesOf(i))
      BY <3>2, ConstantsAssumption, FS_Subset
    <3>4. QED BY <3>1, <3>3, FS_EmptySet
  <2>5. ASSUME NEW g \in Handles, file'[g].iso # None
        PROVE  file'[g].vfs \in live'[file'[g].iso] /\ mount'[file'[g].iso].lock = None
    <3>1. file'[g] = file[g] /\ file[g].iso \in Isos
      BY <1>1, <1>3, <2>5 DEF Types, File
    <3>2. file[g].iso # i
      BY <2>4 DEF HandlesOf
    <3>3. QED BY <1>5, <2>5, <3>1, <3>2 DEF IInv, Safe
  <2>6. QED BY <2>3, <2>5
<1>10. Kept'
  <2>1. ~MT => \A u \in Threads : thr[u].pc # "save"
    BY <1>1, <1>3, Alone
  <2>2. \A j \in Isos : mount'[j].state = "open" => mount[j].state = "open" /\ cache'[j] = cache[j]
    BY <1>5
  <2>3. QED BY <1>1, <1>3, <1>6, <2>1, <2>2, KeptFrame DEF IInv
<1>12. QED BY <1>1, <1>7, <1>8, <1>9, <1>10 DEF IInv

\* With nothing mounted and nobody at work the layers ask for little.
LEMMA BlankLayers ==
    ASSUME Blank, Types, ~MT /\ faults = 0 => \A i \in Isos : committed[i] # None => sidecar[i] = committed[i]
    PROVE  Bounded /\ Exact /\ Safe /\ Kept
<1>1. \A t \in Threads : thr[t].pc = "idle" /\ thr[t].op = "none"
  BY RestingRecord DEF Blank
<1>2. \A i \in Isos : mount[i].refs = 0 /\ mount[i].state = "closed"
  BY EmptyRecords DEF Blank
<1>3. \A h \in Handles : file[h].iso = None
  BY EmptyRecords DEF Blank
<1>4. MaxRefs \in Nat
  BY ConstantsAssumption
<1>5. \A i \in Isos : Opening(i) = {} /\ HandlesOf(i) = {}
  BY <1>1, <1>3, NoneIsNothing DEF Opening, HandlesOf
<1>6. Cardinality({}) = 0
  BY FS_EmptySet
<1>7. Bounded
  <2>1. \A i \in Isos : mount[i].refs + Cardinality(Opening(i)) <= MaxRefs
    BY <1>2, <1>4, <1>5, <1>6
  <2>2. QED BY <1>1, <2>1 DEF Bounded
<1>8. Exact
  BY <1>1, <1>2, <1>5, <1>6 DEF Exact, InBody
<1>9. Safe
  BY <1>1, <1>3 DEF Safe, Following
<1>10. Kept
  BY <1>1, <1>2 DEF Kept, TagKept, IsOpen
<1>12. QED BY <1>7, <1>8, <1>9, <1>10

LEMMA InitIInv == ASSUME Init PROVE IInv
<1>1. Types /\ Blank
  BY InitTypes
<1>2. \A i \in Isos : committed[i] = None
  BY DEF Init
<1>3. QED BY <1>1, <1>2, BlankShape, BlankLayers DEF IInv

LEMMA DestroyStep == ASSUME IInv, Destroy PROVE IInv'
<1>1. Shape /\ Shape' /\ Blank' /\ Types'
  BY DestroyShape DEF IInv, Shape
<1>2. ASSUME ~MT, faults = 0, NEW i \in Isos, committed[i] # None PROVE sidecar'[i] = committed[i]
  <2>1. sidecar[i] = committed[i]
    BY <1>2 DEF IInv, Kept, TagKept, Destroy, AllResting
  <2>2. mount[i].state = "open" => cache[i].tag = committed[i] /\ HasData(i)
    BY <1>2 DEF IInv, Kept, TagKept, IsOpen
  <2>3. Unsaved(i) => mount[i].state = "open"
    BY DEF Unsaved, IsOpen
  <2>4. QED BY <2>1, <2>2, <2>3 DEF Destroy
<1>3. \A t \in Threads : thr'[t].pc = "idle" /\ thr'[t].op = "none"
  BY <1>1, RestingRecord DEF Blank
<1>4. \A i \in Isos : mount'[i].refs = 0 /\ mount'[i].state = "closed"
  BY <1>1, EmptyRecords DEF Blank
<1>5. \A h \in Handles : file'[h].iso = None
  BY <1>1, EmptyRecords DEF Blank
<1>6. MaxRefs \in Nat /\ Cardinality({}) = 0
  BY ConstantsAssumption, FS_EmptySet
<1>7. \A i \in Isos : Opening(i)' = {} /\ HandlesOf(i)' = {}
  BY <1>3, <1>5, NoneIsNothing DEF Opening, HandlesOf
<1>8. Bounded'
  <2>1. ASSUME NEW i \in Isos PROVE mount'[i].refs + Cardinality(Opening(i)') <= MaxRefs
    <3>1. mount'[i].refs = 0 /\ Cardinality(Opening(i)') = 0
      BY <1>4, <1>6, <1>7
    <3>2. QED BY <1>6, <3>1
  <2>2. QED BY <1>3, <2>1 DEF Bounded
<1>9. Exact'
  BY <1>3, <1>4, <1>6, <1>7 DEF Exact, InBody
<1>10. Safe'
  BY <1>3, <1>5 DEF Safe, Following
<1>11. Kept'
  <2>1. set' = set /\ faults' = faults /\ committed' = committed
    BY DEF Destroy
  <2>2. QED BY <1>2, <1>3, <1>4, <2>1 DEF Kept, TagKept, IsOpen, MT
<1>13. QED BY <1>1, <1>8, <1>9, <1>10, <1>11 DEF IInv

----------------------------------------------------------------------------
(* Steps that store a tag.                                                 *)

\* A step that changes tags and one thread only has to keep the tags.
LEMMA TagStep ==
    ASSUME IInv, Shape', NEW t \in Threads, UNCHANGED <<set, table, mount, live>>,
           \A u \in Threads \ {t} : thr'[u] = thr[u],
           \A h \in Handles : file'[h].iso = file[h].iso /\ file'[h].vfs = file[h].vfs,
           thr[t].op # "open", thr'[t].op \in {thr[t].op, "none"},
           thr'[t].pc \notin {"ref_store", "read"},
           KeepsBody(t), KeepsFollow(t),
           Kept'
    PROVE  IInv'
<1>1. \A u \in Threads : KeepsOpen(u) /\ KeepsStore(u)
  BY DEF KeepsOpen, KeepsStore
<1>2. \A u \in Threads : KeepsBody(u) /\ KeepsFollow(u)
  BY DEF KeepsBody, KeepsFollow
<1>3. Bounded'
  <2>1. \A i \in Isos : mount[i].refs \in Nat
    BY DEF IInv, Shape, Types, Mount
  <2>2. \A i \in Isos : mount'[i].refs <= mount[i].refs
    BY <2>1
  <2>3. QED BY <1>1, <2>2, BoundedFrame DEF IInv
<1>4. Exact'
  BY <1>1, <1>2, ExactFrame DEF IInv
<1>5. Safe'
  BY <1>2, SafeFrame DEF IInv
<1>7. QED BY <1>3, <1>4, <1>5 DEF IInv

\* The end of a flush, seen from the thread.
LEMMA FlushDoneThread ==
    ASSUME Types, NEW t \in Threads, FlushDone(t)
    PROVE  /\ \A u \in Threads \ {t} : thr'[u] = thr[u]
           /\ thr'[t].pc \in {"file_close", "idle"} /\ thr'[t].op \in {thr[t].op, "none"}
<1>1. CASE thr[t].op = "close"
  BY <1>1, OthersStay DEF FlushDone
<1>2. CASE thr[t].op # "close"
  <2>1. thr'[t] = Resting /\ \A u \in Threads \ {t} : thr'[u] = thr[u]
    BY <1>2, OthersStay DEF FlushDone
  <2>2. QED BY <2>1, RestingRecord
<1>3. QED BY <1>1, <1>2

LEMMA SetTagStep == ASSUME IInv, NEW t \in Threads, SetTag(t) PROVE IInv'
<1>1. Shape /\ Shape' /\ Types
  BY SetTagShape DEF IInv, Shape
<1>2. PICK i \in Isos, h \in Handles : i = thr[t].iso /\ h = thr[t].h
  BY <1>1, CallRecord DEF SetTag
<1>3. /\ thr[t].pc = "set" /\ thr[t].op \in {"flush", "close"}
      /\ UNCHANGED <<set, table, mount, live, sidecar>>
  BY <1>1, CallRecord DEF SetTag, PcInv
<1>4. PICK tag \in Tags \cup {None} : tag = file[h].buf
  BY <1>1 DEF Types, File
<1>5. ASSUME ~MT, faults = 0, NEW j \in Isos, committed[j] # None PROVE sidecar[j] = committed[j]
  BY <1>1, <1>3, <1>5, KeptNow DEF IInv
<1>6. CASE Usable(t) /\ Goto(t, "save") /\ UNCHANGED <<file, faults>>
           /\ cache' = [cache EXCEPT ![i].tag = tag, ![i].flags = @ \cup {"valid", "dirty"}]
           /\ committed' = [committed EXCEPT ![i] = tag]
  <2>1. /\ \A u \in Threads \ {t} : thr'[u] = thr[u]
        /\ thr'[t].pc = "save" /\ thr'[t].op = thr[t].op /\ thr'[t].iso = i
        /\ thr'[t].vfs = thr[t].vfs
    BY <1>1, <1>2, <1>6, OthersStay
  <2>2. KeepsBody(t) /\ KeepsFollow(t)
    BY <1>2, <1>3, <2>1 DEF KeepsBody, KeepsFollow, InBody, Follows
  <2>3. /\ cache'[i].tag = tag /\ "valid" \in cache'[i].flags /\ "dirty" \in cache'[i].flags
        /\ \A j \in Isos \ {i} : cache'[j] = cache[j]
    BY <1>1, <1>6, TaggedCache
  <2>4. committed'[i] = tag /\ \A j \in Isos \ {i} : committed'[j] = committed[j]
    BY <1>1, <1>6 DEF Types
  <2>5. ASSUME ~MT, faults = 0, NEW j \in Isos, committed'[j] # None
        PROVE  /\ mount'[j].state = "open" =>
                     cache'[j].tag = committed'[j] /\ "valid" \in cache'[j].flags
                     /\ cache'[j].flags \cap {"dirty", "xml"} # {}
               /\ sidecar'[j] = committed'[j] \/ (thr'[t].iso = j /\ thr'[t].pc \in {"save", "write"})
    <3>1. CASE j = i
      BY <2>1, <2>3, <2>4, <3>1
    <3>2. CASE j # i
      <4>1. committed[j] # None /\ committed'[j] = committed[j] /\ cache'[j] = cache[j]
            /\ mount'[j] = mount[j] /\ sidecar'[j] = sidecar[j]
        BY <1>3, <2>3, <2>4, <2>5, <3>2
      <4>2. QED BY <1>1, <1>3, <1>5, <2>5, <4>1, KeptNow DEF IInv
    <3>3. QED BY <3>1, <3>2
  <2>6. thr'[t].vfs \in live'[thr'[t].iso] /\ mount'[thr'[t].iso].state = "open"
    BY <1>2, <1>3, <1>6, <2>1 DEF Usable, IsOpen
  <2>7. Kept'
    BY <1>1, <1>3, <1>6, <2>1, <2>5, <2>6, KeptByOne
  <2>8. QED BY <1>1, <1>3, <1>6, <2>1, <2>2, <2>7, TagStep
<1>7. CASE /\ FlushDone(t) /\ UNCHANGED committed
           /\ file' = [file EXCEPT ![h].state = "clean"]
           /\ \/ faults < MaxFaults /\ faults' = faults + 1
              \/ UNCHANGED <<cache, faults>>
  <2>1. /\ \A u \in Threads \ {t} : thr'[u] = thr[u]
        /\ thr'[t].pc \in {"file_close", "idle"} /\ thr'[t].op \in {thr[t].op, "none"}
    BY <1>1, <1>7, FlushDoneThread
  <2>2. KeepsBody(t) /\ KeepsFollow(t)
    BY <2>1 DEF KeepsBody, KeepsFollow, InBody, Follows
  <2>3. \A g \in Handles : file'[g].iso = file[g].iso /\ file'[g].vfs = file[g].vfs
    BY <1>1, <1>7, CleanFile
  <2>4. faults' = 0 => faults = 0 /\ cache' = cache
    BY <1>1, <1>7, Fault
  <2>5. ASSUME ~MT, faults' = 0, NEW j \in Isos, committed'[j] # None
        PROVE  /\ mount'[j].state = "open" =>
                     cache'[j].tag = committed'[j] /\ "valid" \in cache'[j].flags
                     /\ cache'[j].flags \cap {"dirty", "xml"} # {}
               /\ sidecar'[j] = committed'[j]
    <3>1. committed[j] # None /\ committed'[j] = committed[j] /\ cache'[j] = cache[j]
          /\ mount'[j] = mount[j] /\ sidecar'[j] = sidecar[j] /\ faults = 0
      BY <1>3, <1>7, <2>4, <2>5
    <3>2. QED BY <1>1, <1>3, <1>5, <2>5, <3>1, KeptNow DEF IInv
  <2>6. Kept'
    BY <1>1, <1>3, <2>1, <2>5, KeptByOne
  <2>7. QED BY <1>1, <1>3, <2>1, <2>2, <2>3, <2>6, TagStep
<1>8. QED BY <1>2, <1>4, <1>6, <1>7 DEF SetTag

LEMMA FlushSaveStep == ASSUME IInv, NEW t \in Threads, FlushSave(t) PROVE IInv'
<1>1. Shape /\ Shape' /\ Types
  BY FlushSaveShape DEF IInv, Shape
<1>2. PICK i \in Isos, h \in Handles : i = thr[t].iso /\ h = thr[t].h
  BY <1>1, CallRecord DEF FlushSave
<1>3. /\ thr[t].pc = "save" /\ thr[t].op \in {"flush", "close"}
      /\ UNCHANGED <<set, table, mount, live, committed>>
  BY <1>1, CallRecord DEF FlushSave, PcInv
<1>4. ASSUME ~MT, faults = 0, NEW j \in Isos, committed[j] # None
      PROVE  /\ mount[j].state = "open" =>
                 cache[j].tag = committed[j] /\ "valid" \in cache[j].flags
                 /\ cache[j].flags \cap {"dirty", "xml"} # {}
             /\ j # i => sidecar[j] = committed[j]
             /\ j = i => Usable(t) /\ mount[i].state = "open" /\ HasData(i)
  <2>1. /\ mount[j].state = "open" =>
                 cache[j].tag = committed[j] /\ "valid" \in cache[j].flags
                 /\ cache[j].flags \cap {"dirty", "xml"} # {}
        /\ sidecar[j] = committed[j] \/ (thr[t].iso = j /\ thr[t].pc \in {"save", "write"})
    BY <1>1, <1>3, <1>4, KeptNow DEF IInv
  <2>2. j = i => Usable(t)
    BY <1>2, <1>3, <1>4 DEF IInv, Kept
  <2>3. j = i => mount[i].state = "open"
    BY <1>2, <2>2 DEF Usable, IsOpen
  <2>4. QED BY <1>2, <2>1, <2>2, <2>3 DEF HasData
<1>5. CASE SaveBuild(t, i, "write") /\ UNCHANGED file
  <2>1. PICK y \in Thread :
                 /\ thr' = [thr EXCEPT ![t] = y]
                 /\ y.pc = "write" /\ y.op = thr[t].op /\ y.iso = thr[t].iso
                 /\ faults' = 0 => y.doc = cache[i].tag
    BY <1>1, <1>5, BuiltRecord
  <2>2. thr'[t] = y /\ \A u \in Threads \ {t} : thr'[u] = thr[u]
    BY <1>1, <2>1 DEF Types
  <2>3. KeepsBody(t) /\ KeepsFollow(t)
    BY <2>1, <2>2 DEF KeepsBody, KeepsFollow, InBody, Follows
  <2>4. /\ faults' = 0 =>
                 /\ cache'[i].tag = cache[i].tag /\ "xml" \in cache'[i].flags
                 /\ "valid" \in cache'[i].flags
                 /\ \A j \in Isos \ {i} : cache'[j] = cache[j]
        /\ sidecar' = sidecar
    BY <1>1, <1>5, BuiltRecord
  <2>5. faults' = 0 => faults = 0
    BY <1>1, <1>5, Fault DEF SaveBuild
  <2>6. ASSUME ~MT, faults' = 0, NEW j \in Isos, committed'[j] # None
        PROVE  /\ mount'[j].state = "open" =>
                     cache'[j].tag = committed'[j] /\ "valid" \in cache'[j].flags
                     /\ cache'[j].flags \cap {"dirty", "xml"} # {}
               /\ sidecar'[j] = committed'[j] \/ (thr'[t].iso = j /\ thr'[t].pc \in {"save", "write"})
    <3>1. CASE j = i
      BY <1>2, <1>3, <1>4, <2>1, <2>2, <2>4, <2>5, <2>6, <3>1
    <3>2. CASE j # i
      <4>1. committed[j] # None /\ committed'[j] = committed[j] /\ cache'[j] = cache[j]
            /\ mount'[j] = mount[j] /\ sidecar'[j] = sidecar[j] /\ faults = 0
        BY <1>3, <2>4, <2>5, <2>6, <3>2
      <4>2. QED BY <1>4, <2>6, <3>2, <4>1
    <3>3. QED BY <3>1, <3>2
  <2>7. ~MT /\ faults' = 0 /\ committed'[thr'[t].iso] # None => thr'[t].doc = committed'[thr'[t].iso]
    BY <1>2, <1>3, <1>4, <2>1, <2>2, <2>5
  <2>8. Kept'
    BY <1>1, <1>3, <2>1, <2>2, <2>6, <2>7, KeptByOne
  <2>9. QED BY <1>1, <1>3, <1>5, <2>1, <2>2, <2>3, <2>8, TagStep
<1>6. CASE /\ FlushDone(t) /\ ClearDirty(h) /\ UNCHANGED <<cache, faults>>
           /\ ~Usable(t) \/ ~HasData(i)
           /\ sidecar' = [sidecar EXCEPT ![i] = None] \/ UNCHANGED sidecar
  <2>1. /\ \A u \in Threads \ {t} : thr'[u] = thr[u]
        /\ thr'[t].pc \in {"file_close", "idle"} /\ thr'[t].op \in {thr[t].op, "none"}
    BY <1>1, <1>6, FlushDoneThread
  <2>2. KeepsBody(t) /\ KeepsFollow(t)
    BY <2>1 DEF KeepsBody, KeepsFollow, InBody, Follows
  <2>3. \A g \in Handles : file'[g].iso = file[g].iso /\ file'[g].vfs = file[g].vfs
    BY <1>1, <1>6, CleanFile DEF ClearDirty
  <2>4. ASSUME ~MT, faults' = 0, NEW j \in Isos, committed'[j] # None
        PROVE  /\ mount'[j].state = "open" =>
                     cache'[j].tag = committed'[j] /\ "valid" \in cache'[j].flags
                     /\ cache'[j].flags \cap {"dirty", "xml"} # {}
               /\ sidecar'[j] = committed'[j]
    <3>1. committed[j] # None /\ committed'[j] = committed[j] /\ cache'[j] = cache[j]
          /\ mount'[j] = mount[j] /\ faults = 0
      BY <1>3, <1>6, <2>4
    <3>2. j # i
      BY <1>4, <1>6, <2>4, <3>1
    <3>3. sidecar'[j] = sidecar[j]
      BY <1>1, <1>6, <3>2 DEF Types
    <3>4. QED BY <1>4, <2>4, <3>1, <3>2, <3>3
  <2>5. Kept'
    BY <1>1, <1>3, <2>1, <2>4, KeptByOne
  <2>6. QED BY <1>1, <1>3, <2>1, <2>2, <2>3, <2>5, TagStep
<1>7. QED BY <1>2, <1>5, <1>6 DEF FlushSave, SaveNothing

LEMMA FlushWriteStep == ASSUME IInv, NEW t \in Threads, FlushWrite(t) PROVE IInv'
<1>1. Shape /\ Shape' /\ Types
  BY FlushWriteShape DEF IInv, Shape
<1>2. PICK i \in Isos, h \in Handles : i = thr[t].iso /\ h = thr[t].h
  BY <1>1, CallRecord DEF FlushWrite
<1>3. /\ thr[t].pc = "write" /\ thr[t].op \in {"flush", "close"} /\ thr[t] \in Thread
      /\ UNCHANGED <<set, table, mount, live, cache, committed>>
      /\ FlushDone(t) /\ ClearDirty(h)
  BY <1>1, <1>2, CallRecord DEF FlushWrite, PcInv
<1>4. PICK doc \in Tags \cup {None} : doc = thr[t].doc
  BY <1>3 DEF Thread
<1>5. faults' = 0 => faults = 0 /\ sidecar' = [sidecar EXCEPT ![i] = doc]
  BY <1>1, <1>2, <1>4, WrittenSidecar DEF FlushWrite
<1>6. /\ \A u \in Threads \ {t} : thr'[u] = thr[u]
      /\ thr'[t].pc \in {"file_close", "idle"} /\ thr'[t].op \in {thr[t].op, "none"}
  BY <1>1, <1>3, FlushDoneThread
<1>7. KeepsBody(t) /\ KeepsFollow(t)
  BY <1>6 DEF KeepsBody, KeepsFollow, InBody, Follows
<1>8. \A g \in Handles : file'[g].iso = file[g].iso /\ file'[g].vfs = file[g].vfs
  BY <1>1, <1>3, CleanFile DEF ClearDirty
<1>9. ASSUME ~MT, faults' = 0, NEW j \in Isos, committed'[j] # None
      PROVE  /\ mount'[j].state = "open" =>
                   cache'[j].tag = committed'[j] /\ "valid" \in cache'[j].flags
                   /\ cache'[j].flags \cap {"dirty", "xml"} # {}
             /\ sidecar'[j] = committed'[j]
  <2>1. committed[j] # None /\ committed'[j] = committed[j] /\ faults = 0
        /\ cache'[j] = cache[j] /\ mount'[j] = mount[j]
    BY <1>3, <1>5, <1>9
  <2>2. /\ mount[j].state = "open" =>
                 cache[j].tag = committed[j] /\ "valid" \in cache[j].flags
                 /\ cache[j].flags \cap {"dirty", "xml"} # {}
        /\ sidecar[j] = committed[j] \/ j = i
    BY <1>1, <1>2, <1>3, <1>9, <2>1, KeptNow DEF IInv
  <2>3. j = i => doc = committed[j]
    BY <1>2, <1>3, <1>4, <1>9, <2>1 DEF IInv, Kept
  <2>4. sidecar'[j] = IF j = i THEN doc ELSE sidecar[j]
    BY <1>1, <1>5, <1>9 DEF Types
  <2>5. sidecar'[j] = committed[j]
    BY <2>2, <2>3, <2>4
  <2>6. QED BY <2>1, <2>2, <2>5
<1>10. Kept'
  BY <1>1, <1>3, <1>6, <1>9, KeptByOne
<1>11. QED BY <1>1, <1>3, <1>6, <1>7, <1>8, <1>10, TagStep

LEMMA CleanSaveStep == ASSUME IInv, NEW t \in Threads, CleanSave(t) PROVE IInv'
<1>1. Shape /\ Shape' /\ Types
  BY CleanSaveShape DEF IInv, Shape
<1>2. PICK i \in Isos : i = table[thr[t].n]
  BY <1>1, BodyRecord DEF CleanSave, InBody
<1>3. /\ thr[t].pc = "clean_save" /\ thr[t].pc \in InBody /\ thr[t].op = "stat"
      /\ UNCHANGED <<set, table, mount, live, file, committed>>
  BY <1>1, BodyRecord DEF CleanSave, InBody
<1>4. ASSUME ~MT, faults = 0, NEW j \in Isos, committed[j] # None
      PROVE  /\ mount[j].state = "open" =>
                 cache[j].tag = committed[j] /\ "valid" \in cache[j].flags
                 /\ cache[j].flags \cap {"dirty", "xml"} # {}
             /\ sidecar[j] = committed[j]
  BY <1>1, <1>3, <1>4, KeptNow DEF IInv
<1>5. CASE SaveBuild(t, i, "clean_write") /\ Unsaved(i)
  <2>1. PICK y \in Thread :
                 /\ thr' = [thr EXCEPT ![t] = y]
                 /\ y.pc = "clean_write" /\ y.op = thr[t].op /\ y.iso = thr[t].iso /\ y.n = thr[t].n
                 /\ faults' = 0 => y.doc = cache[i].tag
    BY <1>1, <1>5, BuiltRecord
  <2>2. thr'[t] = y /\ \A u \in Threads \ {t} : thr'[u] = thr[u]
    BY <1>1, <2>1 DEF Types
  <2>3. KeepsBody(t) /\ KeepsFollow(t)
    BY <1>3, <2>1, <2>2 DEF KeepsBody, KeepsFollow, InBody, Follows
  <2>4. /\ faults' = 0 =>
                 /\ cache'[i].tag = cache[i].tag /\ "xml" \in cache'[i].flags
                 /\ "valid" \in cache'[i].flags
                 /\ \A j \in Isos \ {i} : cache'[j] = cache[j]
        /\ sidecar' = sidecar
    BY <1>1, <1>5, BuiltRecord
  <2>5. faults' = 0 => faults = 0
    BY <1>1, <1>5, Fault DEF SaveBuild
  <2>6. ASSUME ~MT, faults' = 0, NEW j \in Isos, committed'[j] # None
        PROVE  /\ mount'[j].state = "open" =>
                     cache'[j].tag = committed'[j] /\ "valid" \in cache'[j].flags
                     /\ cache'[j].flags \cap {"dirty", "xml"} # {}
               /\ sidecar'[j] = committed'[j]
    <3>1. committed[j] # None /\ committed'[j] = committed[j] /\ mount'[j] = mount[j] /\ faults = 0
      BY <1>3, <2>5, <2>6
    <3>2. CASE j = i
      BY <1>4, <2>4, <2>6, <3>1, <3>2
    <3>3. CASE j # i
      <4>1. cache'[j] = cache[j]
        BY <2>4, <2>6, <3>3
      <4>2. QED BY <1>4, <2>4, <2>6, <3>1, <4>1
    <3>4. QED BY <3>2, <3>3
  <2>7. ~MT /\ faults' = 0 /\ committed'[table'[thr'[t].n]] # None =>
            thr'[t].doc = committed'[table'[thr'[t].n]]
    <3> SUFFICES ASSUME ~MT, faults' = 0, committed[i] # None PROVE y.doc = committed[i]
      BY <1>2, <1>3, <2>1, <2>2
    <3>1. mount[i].state = "open"
      BY <1>5 DEF Unsaved, IsOpen
    <3>2. QED BY <1>4, <2>1, <2>5, <3>1
  <2>8. Kept'
    BY <1>1, <1>3, <2>1, <2>2, <2>6, <2>7, KeptByOne
  <2>9. QED BY <1>1, <1>3, <2>1, <2>2, <2>3, <2>8, TagStep
<1>6. CASE /\ Goto(t, "clean_close") /\ UNCHANGED <<cache, faults>>
           /\ \/ Unsaved(i) /\ ~HasData(i) /\ sidecar' = [sidecar EXCEPT ![i] = None]
              \/ UNCHANGED sidecar
  <2>1. /\ \A u \in Threads \ {t} : thr'[u] = thr[u]
        /\ thr'[t].pc = "clean_close" /\ thr'[t].op = thr[t].op /\ thr'[t].n = thr[t].n
    BY <1>1, <1>6, OthersStay
  <2>2. KeepsBody(t) /\ KeepsFollow(t)
    BY <1>3, <2>1 DEF KeepsBody, KeepsFollow, InBody, Follows
  <2>4. ASSUME ~MT, faults' = 0, NEW j \in Isos, committed'[j] # None
        PROVE  /\ mount'[j].state = "open" =>
                     cache'[j].tag = committed'[j] /\ "valid" \in cache'[j].flags
                     /\ cache'[j].flags \cap {"dirty", "xml"} # {}
               /\ sidecar'[j] = committed'[j]
    <3>1. committed[j] # None /\ committed'[j] = committed[j] /\ cache'[j] = cache[j]
          /\ mount'[j] = mount[j] /\ faults = 0
      BY <1>3, <1>6, <2>4
    <3>2. /\ mount[j].state = "open" =>
                 cache[j].tag = committed[j] /\ "valid" \in cache[j].flags
                 /\ cache[j].flags \cap {"dirty", "xml"} # {}
          /\ sidecar[j] = committed[j]
      BY <1>4, <2>4, <3>1
    <3>3. j = i => ~(Unsaved(i) /\ ~HasData(i))
      BY <3>2 DEF Unsaved, IsOpen, HasData
    <3>4. sidecar'[j] = sidecar[j]
      BY <1>1, <1>6, <3>3 DEF Types
    <3>5. QED BY <3>1, <3>2, <3>4
  <2>5. Kept'
    BY <1>1, <1>3, <2>1, <2>4, KeptByOne
  <2>6. QED BY <1>1, <1>3, <2>1, <2>2, <2>5, TagStep
<1>7. QED BY <1>2, <1>5, <1>6 DEF CleanSave, SaveNothing

LEMMA CleanWriteStep == ASSUME IInv, NEW t \in Threads, CleanWrite(t) PROVE IInv'
<1>1. Shape /\ Shape' /\ Types
  BY CleanWriteShape DEF IInv, Shape
<1>2. PICK i \in Isos : i = table[thr[t].n]
  BY <1>1, BodyRecord DEF CleanWrite, InBody
<1>3. /\ thr[t].pc = "clean_write" /\ thr[t].pc \in InBody /\ thr[t].op = "stat"
      /\ UNCHANGED <<set, table, mount, live, cache, file, committed>>
      /\ Goto(t, "clean_close")
  BY <1>1, BodyRecord DEF CleanWrite, InBody
<1>4. PICK doc \in Tags \cup {None} : doc = thr[t].doc
  BY <1>1, <1>3, BodyRecord
<1>5. faults' = 0 => faults = 0 /\ sidecar' = [sidecar EXCEPT ![i] = doc]
  BY <1>1, <1>2, <1>4, WrittenSidecar DEF CleanWrite
<1>6. /\ \A u \in Threads \ {t} : thr'[u] = thr[u]
      /\ thr'[t].pc = "clean_close" /\ thr'[t].op = thr[t].op /\ thr'[t].n = thr[t].n
  BY <1>1, <1>3, OthersStay
<1>7. KeepsBody(t) /\ KeepsFollow(t)
  BY <1>3, <1>6 DEF KeepsBody, KeepsFollow, InBody, Follows
<1>8. ASSUME ~MT, faults' = 0, NEW j \in Isos, committed'[j] # None
      PROVE  /\ mount'[j].state = "open" =>
                   cache'[j].tag = committed'[j] /\ "valid" \in cache'[j].flags
                   /\ cache'[j].flags \cap {"dirty", "xml"} # {}
             /\ sidecar'[j] = committed'[j]
  <2>1. committed[j] # None /\ committed'[j] = committed[j] /\ faults = 0
        /\ cache'[j] = cache[j] /\ mount'[j] = mount[j]
    BY <1>3, <1>5, <1>8
  <2>2. /\ mount[j].state = "open" =>
                 cache[j].tag = committed[j] /\ "valid" \in cache[j].flags
                 /\ cache[j].flags \cap {"dirty", "xml"} # {}
        /\ sidecar[j] = committed[j]
    BY <1>1, <1>3, <1>8, <2>1, KeptNow DEF IInv
  <2>3. j = i => doc = committed[j]
    BY <1>2, <1>3, <1>4, <1>8, <2>1 DEF IInv, Kept
  <2>4. sidecar'[j] = IF j = i THEN doc ELSE sidecar[j]
    BY <1>1, <1>5, <1>8 DEF Types
  <2>5. sidecar'[j] = committed[j]
    BY <2>2, <2>3, <2>4
  <2>6. QED BY <2>1, <2>2, <2>5
<1>9. Kept'
  BY <1>1, <1>3, <1>6, <1>8, KeptByOne
<1>10. QED BY <1>1, <1>3, <1>6, <1>7, <1>9, TagStep

----------------------------------------------------------------------------
(* The theorems.                                                           *)

\* Every step keeps the invariant.
LEMMA NextStep == ASSUME IInv, [Next]_vars PROVE IInv'
<1>1. CASE \E t \in Threads : Call(t)
  <2>1. PICK t \in Threads : Call(t)
    BY <1>1
  <2>2. CASE Readdir(t)
    BY <2>2, ReaddirStep
  <2>3. CASE \E i \in Isos : Getattr(t, i) \/ \E h \in Handles : Open(t, i, h)
    BY <2>3, GetattrStep, OpenStep
  <2>4. CASE \E h \in Handles : Flush(t, h) \/ Release(t, h)
    BY <2>4, FlushStep, ReleaseStep
  <2>5. CASE \E h \in Handles : \E off \in Offsets : ReadSeek(t, h, off)
    BY <2>5, ReadSeekStep
  <2>6. CASE \E h \in Handles : \E tag \in set.writes : Write(t, h, tag)
    <3>1. set.writes \subseteq Tags
      BY ConstantsAssumption DEF IInv, Shape, Types
    <3>2. QED BY <2>6, <3>1, WriteStep
  <2>7. QED BY <2>1, <2>2, <2>3, <2>4, <2>5, <2>6 DEF Call
<1>2. CASE \E t \in Threads : Step(t)
  <2>1. PICK t \in Threads : Step(t)
    BY <1>2
  <2>2. CASE (\E i \in Isos : RegisterIso(t, i)) \/ EndScan(t) \/ FindIso(t)
             \/ EnsureMounted(t) \/ CreateVfs(t) \/ OpenVfs(t) \/ UseVfs(t)
    BY <2>2, RegisterIsoStep, EndScanStep, FindIsoStep, EnsureMountedStep, CreateVfsStep,
       OpenVfsStep, UseVfsStep
  <2>3. CASE \/ VfsFileOpen(t) \/ RefLoad(t) \/ RefStore(t) \/ ReadData(t)
             \/ FlushGet(t) \/ SetTag(t) \/ FlushSave(t) \/ FlushWrite(t)
    BY <2>3, VfsFileOpenStep, RefLoadStep, RefStoreStep, ReadDataStep, FlushGetStep,
       SetTagStep, FlushSaveStep, FlushWriteStep
  <2>4. CASE \/ VfsFileClose(t) \/ ReleaseIso(t)
             \/ CleanLock(t) \/ CleanTest(t) \/ CleanSave(t) \/ CleanWrite(t)
             \/ CleanClose(t) \/ CleanUnlock(t)
    BY <2>4, VfsFileCloseStep, ReleaseIsoStep, CleanLockStep, CleanTestStep, CleanSaveStep,
       CleanWriteStep, CleanCloseStep, CleanUnlockStep
  <2>5. QED BY <2>1, <2>2, <2>3, <2>4 DEF Step
<1>3. CASE TimePasses
  BY <1>3, TimePassesStep
<1>4. CASE Destroy
  BY <1>4, DestroyStep
<1>5. CASE UNCHANGED vars
  BY <1>5, StutterStep
<1>6. QED BY <1>1, <1>2, <1>3, <1>4, <1>5 DEF Next

\* The invariant holds in every reachable state of the overlay filesystem.
THEOREM Invariance == Spec => []IInv
<1>1. Init => IInv
  BY InitIInv
<1>2. IInv /\ [Next]_vars => IInv'
  BY NextStep
<1>3. QED BY <1>1, <1>2, PTL DEF Spec

\* No VFS context outlives the mount that created it: what exists of an ISO is
\* the context its mount points to (_overlay_ensure_iso_mounted, the cleanup).
THEOREM ContextsNotLeaked == Spec => []NoContextLeaked
<1>1. IInv => NoContextLeaked
  BY DEF IInv, Shape, MountInv, NoContextLeaked
<1>2. QED BY <1>1, Invariance, PTL

\* The state is well typed, the single-threaded loop counts the handles of a
\* mount exactly, and while the cleanup runs alone no handle and no step is
\* left with a context that was destroyed (sacd_overlay_cleanup_idle).
THEOREM UsedWhileMounted == Spec => []NoUseAfterFree
<1>1. ASSUME IInv PROVE TypeOK
  <2>1. ASSUME NEW i \in Isos PROVE mount[i].refs <= MaxRefs
    <3>1. mount[i].refs + Cardinality(Opening(i)) <= MaxRefs
      BY <1>1 DEF IInv, Bounded
    <3>2. Opening(i) \subseteq Threads
      BY DEF Opening
    <3>3. Cardinality(Opening(i)) \in Nat
      BY <3>2, ConstantsAssumption, FS_Subset, FS_CardinalityType
    <3>4. mount[i].refs \in Nat /\ MaxRefs \in Nat
      BY <1>1, ConstantsAssumption DEF IInv, Shape, Types, Mount
    <3>5. QED BY <3>1, <3>3, <3>4
  <2>2. QED BY <1>1, <2>1 DEF IInv, Shape, Types, TypeOK
<1>2. ASSUME IInv PROVE RefCountExact
  BY <1>2 DEF IInv, Exact, HandlesOf, RefCountExact
<1>3. ASSUME IInv, CleanupAlone
      PROVE  /\ \A h \in Handles : Opened(h) => file[h].vfs \in live[file[h].iso]
             /\ \A t \in Threads : Following(t) => thr[t].vfs \in live[thr[t].iso]
  BY <1>3 DEF IInv, Safe, Opened
<1>4. IInv => NoUseAfterFree
  BY <1>1, <1>2, <1>3 DEF NoUseAfterFree
<1>5. QED BY <1>4, Invariance, PTL

\* A tag that sacd_overlay_flush stored without a failure stays in the sidecar,
\* and in the cache of a mounted context, in the single-threaded loop.
THEOREM FlushedTagsStay == Spec => []FlushedTagKept
<1>1. ASSUME IInv, ~MT, AllResting, faults = 0, NEW i \in Isos, committed[i] # None
      PROVE  sidecar[i] = committed[i] /\ (IsOpen(i) => cache[i].tag = committed[i])
  <2>1. TagKept(i)
    BY <1>1 DEF IInv, Kept
  <2>2. QED BY <1>1, <2>1 DEF TagKept, AllResting
<1>2. IInv => FlushedTagKept
  BY <1>1 DEF FlushedTagKept
<1>3. QED BY <1>2, Invariance, PTL
============================================================================
