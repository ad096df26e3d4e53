------------------------------- MODULE Overlay -------------------------------
(***************************************************************************)
(* The overlay filesystem of libsacdvfs (sacd_overlay.c,                   *)
(* sacd_overlay_iso.c) as the FUSE callbacks of extras/sacd-vfs drive it:  *)
(* a table of ISO mounts, one lazily created VFS context per mount, file   *)
(* handles that hold a reference on their mount, the idle cleanup that     *)
(* getattr runs, and the ID3 tags that go from a write buffer through the  *)
(* cache of the VFS context into an XML sidecar.                           *)
(*                                                                         *)
(* A path is reduced to the ISO it lies in and a tag to a model value;     *)
(* every ISO has one track.  A call that stops at the root, at a           *)
(* passthrough path or at the ISO folder itself changes no state and is    *)
(* left out.  A call on a context that has been destroyed is undefined;    *)
(* here it finds the context closed, as sacd_vfs_close left it.            *)
(***************************************************************************)
EXTENDS Integers, FiniteSets, Sequences

CONSTANTS
    Threads,     \* threads of the FUSE loop
    Isos,        \* ISO files below the source directory
    Handles,     \* addresses of file handles
    Contexts,    \* addresses of VFS contexts
    Tags,        \* contents of an ID3 tag
    Offsets,     \* file offsets of reads
    Settings,    \* the settings a run starts from
    MaxIsos,     \* max_open_isos
    MaxFaults,   \* bound on failures while a tag is stored
    MaxRefs,     \* bound on a reference count that has drifted
    None         \* no thread, no context, no tag, no handle

ASSUME ConstantsAssumption ==
    /\ None \notin Threads \cup Isos \cup Handles \cup Contexts \cup Tags
    /\ IsFiniteSet(Threads) /\ IsFiniteSet(Handles)
    /\ Settings \subseteq [options : SUBSET {"mt", "timeout", "share"},
                           writes : SUBSET Tags]
    /\ MaxIsos \in Nat /\ MaxFaults \in Nat /\ MaxRefs \in Nat /\ Offsets \subseteq Nat
    \* the allocator always finds an address
    /\ Cardinality(Contexts) > Cardinality(Isos) + Cardinality(Threads) + Cardinality(Handles)

VARIABLES
    set,         \* how the program was started, see Settings
    table,       \* iso_mounts, in order of registration
    tableLock,   \* owner of iso_table_lock
    mount,       \* the iso_mount_t of each ISO
    live,        \* the VFS contexts of each ISO that exist
    cache,       \* the ID3 cache of the mounted context
    sidecar,     \* the tag in the XML file beside the ISO
    file,        \* the open file handles
    thr,         \* what each thread is doing
    faults,      \* failures so far
    committed,   \* history: the tag last handed to a context
    ended        \* sacd_overlay_destroy has run

vars == <<set, table, tableLock, mount, live, cache, sidecar, file, thr,
          faults, committed, ended>>

NoCache  == [tag |-> None, flags |-> {}]
NoMount  == [vfs |-> None, state |-> "closed", refs |-> 0, access |-> "recent",
             lock |-> None]
NoFile   == [iso |-> None, vfs |-> None, pos |-> 0, buf |-> None, state |-> "clean"]
Resting  == [pc |-> "idle", op |-> "none", iso |-> None, vfs |-> None,
             h |-> None, n |-> 0, doc |-> None]

\* The program runs fuse_loop_mt, unmounts idle ISOs, reads through one handle
\* in several threads.
MT      == "mt" \in set.options
Timeout == "timeout" \in set.options
Shared  == "share" \in set.options

IsOpen(i)  == mount[i].state = "open"
Opened(h)  == file[h].iso # None
Registered == {table[k] : k \in DOMAIN table}
AllResting == \A t \in Threads : thr[t].pc = "idle"

\* The context is the one the mount of the thread's ISO has, and is open.
Usable(t) == /\ thr[t].vfs \in live[thr[t].iso]
             /\ IsOpen(thr[t].iso)

Mount == [vfs : Contexts \cup {None}, state : {"closed", "open"}, refs : Nat,
          access : {"recent", "old"}, lock : Threads \cup {None}]
Cache == [tag : Tags \cup {None}, flags : SUBSET {"valid", "dirty", "xml"}]
File  == [iso : Isos \cup {None}, vfs : Contexts \cup {None}, pos : Nat,
          buf : Tags \cup {None}, state : {"clean", "dirty"}]
Thread == [pc : {"idle", "scan", "find", "ensure", "mounting", "use", "vfs_open",
                 "ref_load", "ref_store", "read", "flush", "set", "save", "write",
                 "file_close", "release", "clean_lock", "clean", "clean_save",
                 "clean_write", "clean_close"},
           op : {"none", "scan", "stat", "open", "read", "flush", "close"},
           iso : Isos \cup {None}, vfs : Contexts \cup {None},
           h : Handles \cup {None}, n : Nat, doc : Tags \cup {None}]

TypeOK ==
    /\ set \in Settings
    /\ table \in Seq(Isos)
    /\ tableLock \in Threads \cup {None}
    /\ mount \in [Isos -> Mount] /\ \A i \in Isos : mount[i].refs <= MaxRefs
    /\ live \in [Isos -> SUBSET Contexts]
    /\ cache \in [Isos -> Cache]
    /\ sidecar \in [Isos -> Tags \cup {None}]
    /\ file \in [Handles -> File]
    /\ thr \in [Threads -> Thread]
    /\ committed \in [Isos -> Tags \cup {None}]
    /\ faults \in 0..MaxFaults

Init ==
    /\ set \in Settings
    /\ table = <<>>
    /\ tableLock = None
    /\ mount = [i \in Isos |-> NoMount]
    /\ live = [i \in Isos |-> {}]
    /\ cache = [i \in Isos |-> NoCache]
    /\ sidecar = [i \in Isos |-> None]
    /\ file = [h \in Handles |-> NoFile]
    /\ thr = [t \in Threads |-> Resting]
    /\ faults = 0
    /\ committed = [i \in Isos |-> None]
    /\ ended = FALSE

(***************************************************************************)
(* Calls.  fuse_loop makes one call at a time, fuse_loop_mt one per        *)
(* thread.  The kernel releases a handle when no call uses it any more.    *)
(***************************************************************************)
CanStart(t) == /\ ~ended
               /\ thr[t].pc = "idle"
               /\ MT \/ AllResting

InUse(h) == \E t \in Threads : thr[t].h = h

CanUse(t, h) == /\ CanStart(t)
                /\ Opened(h)
                /\ \A u \in Threads : thr[u].h = h => Shared /\ thr[u].op # "close"

Goto(t, pc)   == thr' = [thr EXCEPT ![t].pc = pc]
Return(t)     == thr' = [thr EXCEPT ![t] = Resting]
Begin(t, op, pc, i, h, n) ==
    thr' = [thr EXCEPT ![t] = [pc |-> pc, op |-> op, iso |-> i, vfs |-> None,
                               h |-> h, n |-> n, doc |-> None]]

\* readdir of the source directory: every ISO is looked up and registered,
\* in the order of the directory.
Readdir(t) ==
    /\ CanStart(t)
    /\ Begin(t, "scan", "scan", None, None, 0)
    /\ UNCHANGED <<set, table, tableLock, mount, live, cache, sidecar, file,
                   faults, committed, ended>>

CanRegister(i) ==
    /\ i \notin Registered
    /\ MaxIsos = 0 \/ Len(table) < MaxIsos

\* One ISO of the scan: _overlay_get_or_create_iso, under the table lock.
RegisterIso(t, i) ==
    /\ thr[t].pc = "scan"
    /\ tableLock = None
    /\ CanRegister(i)
    /\ table' = Append(table, i)
    /\ mount' = [mount EXCEPT ![i] = NoMount]
    /\ UNCHANGED <<set, tableLock, live, cache, sidecar, file, thr, faults,
                   committed, ended>>

\* The rest of the directory is registered, over the limit, or out of memory.
EndScan(t) ==
    /\ thr[t].pc = "scan"
    /\ tableLock = None
    /\ Return(t)
    /\ UNCHANGED <<set, table, tableLock, mount, live, cache, sidecar, file,
                   faults, committed, ended>>

\* getattr: the idle cleanup when its interval has passed, then the lookup.
Getattr(t, i) ==
    /\ CanStart(t)
    /\ \/ Begin(t, "stat", "find", i, None, 0)
       \/ Timeout /\ Begin(t, "stat", "clean_lock", i, None, 1)
    /\ UNCHANGED <<set, table, tableLock, mount, live, cache, sidecar, file,
                   faults, committed, ended>>

\* open of a file in the ISO, into a handle of its own.
Open(t, i, h) ==
    /\ CanStart(t)
    /\ ~Opened(h)
    /\ ~InUse(h)
    /\ LET opening == Cardinality({u \in Threads : thr[u].op = "open"}) IN
       /\ mount[i].refs + opening < MaxRefs
       /\ \A u \in Threads : thr[u].pc = "ref_store" => thr[u].n + opening < MaxRefs
    /\ Begin(t, "open", "find", i, h, 0)
    /\ UNCHANGED <<set, table, tableLock, mount, live, cache, sidecar, file,
                   faults, committed, ended>>

\* _overlay_find_iso_by_vpath, under the table lock.
FindIso(t) ==
    /\ thr[t].pc = "find"
    /\ tableLock = None
    /\ IF thr[t].iso \in Registered THEN Goto(t, "ensure") ELSE Return(t)
    /\ UNCHANGED <<set, table, tableLock, mount, live, cache, sidecar, file,
                   faults, committed, ended>>

(***************************************************************************)
(* _overlay_ensure_iso_mounted: under the mount lock a context is created  *)
(* and opened when there is none.  mount->vfs is set before the open, and  *)
(* last_access only after it.                                              *)
(***************************************************************************)
NextPc(t) == IF thr[t].op = "open" THEN "vfs_open" ELSE "use"

MountedAs(t, c) ==
    IF c = None THEN Return(t)
    ELSE thr' = [thr EXCEPT ![t].vfs = c, ![t].pc = NextPc(t)]

\* Addresses the allocator may return: nobody has them.
FreeContexts == Contexts \ ( UNION {live[i] : i \in Isos}
                         \cup {thr[t].vfs : t \in Threads}
                         \cup {file[h].vfs : h \in Handles} )

EnsureMounted(t) ==
    LET i == thr[t].iso IN
    /\ thr[t].pc = "ensure"
    /\ mount[i].lock = None
    /\ mount[i].vfs # None
    /\ mount' = [mount EXCEPT ![i].access = "recent"]
    /\ MountedAs(t, mount[i].vfs)
    /\ UNCHANGED <<set, table, tableLock, live, cache, sidecar, file, faults,
                   committed, ended>>

CreateVfs(t) ==
    LET i == thr[t].iso
        c == CHOOSE c \in FreeContexts : TRUE IN
    /\ thr[t].pc = "ensure"
    /\ mount[i].lock = None
    /\ mount[i].vfs = None
    /\ FreeContexts # {}
    /\ mount' = [mount EXCEPT ![i].lock = t, ![i].vfs = c, ![i].state = "closed"]
    /\ live' = [live EXCEPT ![i] = @ \cup {c}]
    /\ Goto(t, "mounting")
    /\ UNCHANGED <<set, table, tableLock, cache, sidecar, file, faults,
                   committed, ended>>

\* The cache a fresh context has after _load_id3_overlay_xml.
\* Mutant: the sidecar is not read.
LoadedNothing(i) == NoCache

Loaded(i) ==
    IF sidecar[i] = None THEN NoCache
    ELSE [tag |-> sidecar[i], flags |-> {"valid", "xml"}]

\* sacd_vfs_destroy after a failed open.
\* Mutant: the pointer is cleared and the context is forgotten.
FailedForgotten(i) == live[i]

Failed(i) == live[i] \ {mount[i].vfs}

\* Mutant: the table lock is needed again before the mount is done.
MountDoneNeedsTable(t) == thr[t].pc = "mounting" /\ tableLock = None

MountDone(t) == thr[t].pc = "mounting"

\* sacd_vfs_open succeeds and loads the sidecar, or fails and the context
\* is destroyed.
OpenVfs(t) ==
    LET i == thr[t].iso IN
    /\ MountDone(t)
    /\ \/ /\ mount' = [mount EXCEPT ![i].state = "open", ![i].access = "recent",
                                    ![i].lock = None]
          /\ cache' = [cache EXCEPT ![i] = Loaded(i)]
          /\ MountedAs(t, mount[i].vfs)
          /\ UNCHANGED live
       \/ /\ mount' = [mount EXCEPT ![i].vfs = None, ![i].access = "recent",
                                    ![i].lock = None]
          /\ live' = [live EXCEPT ![i] = Failed(i)]
          /\ Return(t)
          /\ UNCHANGED cache
    /\ UNCHANGED <<set, table, tableLock, sidecar, file, faults, committed,
                   ended>>

\* sacd_vfs_stat or sacd_vfs_readdir on the context, with no reference held.
UseVfs(t) ==
    /\ thr[t].pc = "use"
    /\ Return(t)
    /\ UNCHANGED <<set, table, tableLock, mount, live, cache, sidecar, file,
                   faults, committed, ended>>

(***************************************************************************)
(* sacd_overlay_open after the mount: the file is opened, and ref_count is *)
(* incremented without the mount lock, a load and a store.                 *)
(***************************************************************************)
VfsFileOpen(t) ==
    /\ thr[t].pc = "vfs_open"
    /\ \/ Usable(t) /\ Goto(t, "ref_load")
       \/ Return(t)                     \* not found, or no memory
    /\ UNCHANGED <<set, table, tableLock, mount, live, cache, sidecar, file,
                   faults, committed, ended>>

RefLoad(t) ==
    /\ thr[t].pc = "ref_load"
    /\ thr' = [thr EXCEPT ![t].n = mount[thr[t].iso].refs, ![t].pc = "ref_store"]
    /\ UNCHANGED <<set, table, tableLock, mount, live, cache, sidecar, file,
                   faults, committed, ended>>

RefStore(t) ==
    LET i == thr[t].iso IN
    /\ thr[t].pc = "ref_store"
    /\ mount' = [mount EXCEPT ![i].refs = thr[t].n + 1, ![i].access = "recent"]
    /\ file' = [file EXCEPT ![thr[t].h] =
                   [iso |-> i, vfs |-> thr[t].vfs, pos |-> 0, buf |-> None,
                    state |-> "clean"]]
    /\ Return(t)
    /\ UNCHANGED <<set, table, tableLock, live, cache, sidecar, faults,
                   committed, ended>>

(***************************************************************************)
(* sacd_overlay_read seeks and then reads; sacd_overlay_write keeps the    *)
(* tag in the handle.  No lock is taken.                                   *)
(***************************************************************************)
ReadSeek(t, h, off) ==
    /\ CanUse(t, h)
    /\ Begin(t, "read", "read", file[h].iso, h, off)
    /\ file' = [file EXCEPT ![h].pos = off]
    /\ UNCHANGED <<set, table, tableLock, mount, live, cache, sidecar, faults,
                   committed, ended>>

\* sacd_vfs_file_read returns the bytes at the position and moves past them.
ReadData(t) ==
    /\ thr[t].pc = "read"
    /\ file' = [file EXCEPT ![thr[t].h].pos = @ + 1]
    /\ Return(t)
    /\ UNCHANGED <<set, table, tableLock, mount, live, cache, sidecar, faults,
                   committed, ended>>

Write(t, h, tag) ==
    /\ CanUse(t, h)
    /\ file' = [file EXCEPT ![h].buf = tag, ![h].state = "dirty"]
    /\ UNCHANGED <<set, table, tableLock, mount, live, cache, sidecar, thr,
                   faults, committed, ended>>

(***************************************************************************)
(* sacd_overlay_flush and sacd_overlay_close.                              *)
(***************************************************************************)
Flush(t, h) ==
    /\ CanUse(t, h)
    /\ file[h].state = "dirty"
    /\ Begin(t, "flush", "flush", file[h].iso, h, 0)
    /\ UNCHANGED <<set, table, tableLock, mount, live, cache, sidecar, file,
                   faults, committed, ended>>

Release(t, h) ==
    /\ CanStart(t)
    /\ Opened(h)
    /\ ~InUse(h)
    /\ Begin(t, "close", IF file[h].state = "dirty" THEN "flush" ELSE "file_close",
             file[h].iso, h, 0)
    /\ UNCHANGED <<set, table, tableLock, mount, live, cache, sidecar, file,
                   faults, committed, ended>>

FlushDone(t) == IF thr[t].op = "close" THEN Goto(t, "file_close") ELSE Return(t)

\* The context of the mount is fetched without the mount lock.
FlushGet(t) ==
    LET c == mount[thr[t].iso].vfs IN
    /\ thr[t].pc = "flush"
    /\ IF c = None THEN FlushDone(t)     \* returns an I/O error, still dirty
       ELSE thr' = [thr EXCEPT ![t].vfs = c, ![t].pc = "set"]
    /\ UNCHANGED <<set, table, tableLock, mount, live, cache, sidecar, file,
                   faults, committed, ended>>

\* sacd_vfs_set_id3_overlay: the cache entry is replaced, or lost when the
\* copy cannot be allocated.
SetTag(t) ==
    LET i == thr[t].iso
        h == thr[t].h IN
    /\ thr[t].pc = "set"
    /\ \/ /\ Usable(t)
          /\ cache' = [cache EXCEPT ![i].tag = file[h].buf,
                                    ![i].flags = @ \cup {"valid", "dirty"}]
          /\ committed' = [committed EXCEPT ![i] = file[h].buf]
          /\ Goto(t, "save")
          /\ UNCHANGED <<file, faults>>
       \/ /\ Usable(t)
          /\ faults < MaxFaults
          /\ faults' = faults + 1
          /\ cache' = [cache EXCEPT ![i].tag = None, ![i].flags = @ \ {"valid"}]
          /\ file' = [file EXCEPT ![h].state = "clean"]
          /\ FlushDone(t)
          /\ UNCHANGED committed
       \/ /\ ~Usable(t)
          /\ file' = [file EXCEPT ![h].state = "clean"]
          /\ FlushDone(t)
          /\ UNCHANGED <<cache, faults, committed>>
    /\ UNCHANGED <<set, table, tableLock, mount, live, sidecar, ended>>

(***************************************************************************)
(* sacd_vfs_save_id3_overlay: the document is built from the cache, whose  *)
(* entries are marked saved, and then written to the sidecar.              *)
(***************************************************************************)
HasData(i) == "valid" \in cache[i].flags /\ cache[i].flags \cap {"dirty", "xml"} # {}

\* Nothing to save: the sidecar is removed.
SaveNothing(i) ==
    /\ ~HasData(i)
    /\ sidecar' = [sidecar EXCEPT ![i] = None]
    /\ UNCHANGED <<cache, faults>>

\* The tag is encoded and marked, or left out when memory is short.
SaveBuild(t, i, pc) ==
    /\ HasData(i)
    /\ \/ /\ cache' = [cache EXCEPT ![i].flags = (@ \ {"dirty"}) \cup {"xml"}]
          /\ thr' = [thr EXCEPT ![t].doc = cache[i].tag, ![t].pc = pc]
          /\ UNCHANGED faults
       \/ /\ faults < MaxFaults
          /\ faults' = faults + 1
          /\ thr' = [thr EXCEPT ![t].doc = None, ![t].pc = pc]
          /\ UNCHANGED cache
    /\ UNCHANGED sidecar

\* The file is written, or cannot be opened.
SaveWrite(i, doc) ==
    \/ sidecar' = [sidecar EXCEPT ![i] = doc] /\ UNCHANGED faults
    \/ faults < MaxFaults /\ faults' = faults + 1 /\ UNCHANGED sidecar

ClearDirty(h) == file' = [file EXCEPT ![h].state = "clean"]

FlushSave(t) ==
    LET i == thr[t].iso IN
    /\ thr[t].pc = "save"
    /\ \/ Usable(t) /\ SaveBuild(t, i, "write") /\ UNCHANGED file
       \/ Usable(t) /\ SaveNothing(i) /\ FlushDone(t) /\ ClearDirty(thr[t].h)
       \/ /\ ~Usable(t)
          /\ FlushDone(t)
          /\ ClearDirty(thr[t].h)
          /\ UNCHANGED <<cache, sidecar, faults>>
    /\ UNCHANGED <<set, table, tableLock, mount, live, committed, ended>>

\* The result of the save is ignored and the handle is clean in any case.
FlushWrite(t) ==
    /\ thr[t].pc = "write"
    /\ SaveWrite(thr[t].iso, thr[t].doc)
    /\ ClearDirty(thr[t].h)
    /\ FlushDone(t)
    /\ UNCHANGED <<set, table, tableLock, mount, live, cache, committed, ended>>

\* sacd_vfs_file_close, which stops the reader of the file.
VfsFileClose(t) ==
    /\ thr[t].pc = "file_close"
    /\ Goto(t, "release")
    /\ UNCHANGED <<set, table, tableLock, mount, live, cache, sidecar, file,
                   faults, committed, ended>>

Released(n) == IF n > 0 THEN n - 1 ELSE n

\* _overlay_release_iso, under the mount lock; the handle is freed.
ReleaseIso(t) ==
    LET i == thr[t].iso IN
    /\ thr[t].pc = "release"
    /\ mount[i].lock = None
    /\ mount' = [mount EXCEPT ![i].refs = Released(@)]
    /\ file' = [file EXCEPT ![thr[t].h] = NoFile]
    /\ Return(t)
    /\ UNCHANGED <<set, table, tableLock, live, cache, sidecar, faults,
                   committed, ended>>

(***************************************************************************)
(* sacd_overlay_cleanup_idle: under the table lock, every mount that seems *)
(* unused is saved and, under its own lock, closed.  thr[t].n is the index *)
(* in the table.                                                           *)
(***************************************************************************)
CleanLock(t) ==
    /\ thr[t].pc = "clean_lock"
    /\ tableLock = None
    /\ tableLock' = t
    /\ Goto(t, "clean")
    /\ UNCHANGED <<set, table, mount, live, cache, sidecar, file, faults,
                   committed, ended>>

\* Mutant: only the time of the last access counts.
UnusedByTime(i) == mount[i].access = "old"

\* ref_count and last_access are read without the mount lock.
Unused(i) == mount[i].refs <= 0 /\ mount[i].access = "old"

CleanTest(t) ==
    LET n == thr[t].n IN
    /\ thr[t].pc = "clean"
    /\ n <= Len(table)
    /\ IF mount[table[n]].vfs # None /\ Unused(table[n])
       THEN thr' = [thr EXCEPT ![t].pc = "clean_save",
                               ![t].vfs = mount[table[n]].vfs]
       ELSE thr' = [thr EXCEPT ![t].n = n + 1]
    /\ UNCHANGED <<set, table, tableLock, mount, live, cache, sidecar, file,
                   faults, committed, ended>>

Unsaved(i) == IsOpen(i) /\ "dirty" \in cache[i].flags

CleanSave(t) ==
    LET i == table[thr[t].n] IN
    /\ thr[t].pc = "clean_save"
    /\ \/ Unsaved(i) /\ SaveBuild(t, i, "clean_write")
       \/ Unsaved(i) /\ SaveNothing(i) /\ Goto(t, "clean_close")
       \/ /\ ~Unsaved(i)
          /\ Goto(t, "clean_close")
          /\ UNCHANGED <<cache, sidecar, faults>>
    /\ UNCHANGED <<set, table, tableLock, mount, live, file, committed, ended>>

CleanWrite(t) ==
    /\ thr[t].pc = "clean_write"
    /\ SaveWrite(table[thr[t].n], thr[t].doc)
    /\ Goto(t, "clean_close")
    /\ UNCHANGED <<set, table, tableLock, mount, live, cache, file, committed,
                   ended>>

\* The context the mount has now is closed and destroyed, if it has one.
CleanClose(t) ==
    LET i == table[thr[t].n] IN
    /\ thr[t].pc = "clean_close"
    /\ mount[i].lock = None
    /\ live' = [live EXCEPT ![i] = @ \ {mount[i].vfs}]
    /\ mount' = [mount EXCEPT ![i].vfs = None, ![i].state = "closed"]
    /\ cache' = [cache EXCEPT ![i] = NoCache]
    /\ thr' = [thr EXCEPT ![t].pc = "clean", ![t].n = @ + 1, ![t].vfs = None,
                          ![t].doc = None]
    /\ UNCHANGED <<set, table, tableLock, sidecar, file, faults, committed,
                   ended>>

CleanUnlock(t) ==
    /\ thr[t].pc = "clean"
    /\ thr[t].n > Len(table)
    /\ tableLock' = None
    /\ thr' = [thr EXCEPT ![t].pc = "find", ![t].n = 0]
    /\ UNCHANGED <<set, table, mount, live, cache, sidecar, file, faults,
                   committed, ended>>

Cleaning(t) == thr[t].pc \in {"clean_lock", "clean", "clean_save",
                              "clean_write", "clean_close"}

\* The timeout passes with no access.  A cleanup compares with the time at
\* which it began.
TimePasses ==
    /\ ~ended
    /\ \A t \in Threads : ~Cleaning(t)
    /\ \E i \in Registered : mount[i].access = "recent"
    /\ mount' = [i \in Isos |-> IF i \in Registered
                                THEN [mount[i] EXCEPT !.access = "old"]
                                ELSE mount[i]]
    /\ UNCHANGED <<set, table, tableLock, live, cache, sidecar, file, thr,
                   faults, committed, ended>>

\* The loop has ended: flush_all saves what is unsaved, every context is
\* closed, the table and its mounts are freed.
Destroy ==
    /\ ~ended
    /\ AllResting
    /\ sidecar' = [i \in Isos |->
          IF ~(i \in Registered /\ Unsaved(i)) THEN sidecar[i]
          ELSE IF HasData(i) THEN cache[i].tag ELSE None]
    /\ table' = <<>>
    /\ live' = [i \in Isos |-> live[i] \ {mount[i].vfs}]
    /\ mount' = [i \in Isos |-> NoMount]
    /\ cache' = [i \in Isos |-> NoCache]
    /\ file' = [h \in Handles |-> NoFile]
    /\ ended' = TRUE
    /\ UNCHANGED <<set, tableLock, thr, faults, committed>>

Step(t) ==
    \/ (\E i \in Isos : RegisterIso(t, i)) \/ EndScan(t) \/ FindIso(t)
    \/ EnsureMounted(t) \/ CreateVfs(t) \/ OpenVfs(t) \/ UseVfs(t)
    \/ VfsFileOpen(t) \/ RefLoad(t) \/ RefStore(t) \/ ReadData(t)
    \/ FlushGet(t) \/ SetTag(t) \/ FlushSave(t) \/ FlushWrite(t)
    \/ VfsFileClose(t) \/ ReleaseIso(t)
    \/ CleanLock(t) \/ CleanTest(t) \/ CleanSave(t) \/ CleanWrite(t)
    \/ CleanClose(t) \/ CleanUnlock(t)

Call(t) ==
    \/ Readdir(t)
    \/ \E i \in Isos : Getattr(t, i) \/ \E h \in Handles : Open(t, i, h)
    \/ \E h \in Handles :
          \/ Flush(t, h) \/ Release(t, h)
          \/ \E off \in Offsets : ReadSeek(t, h, off)
          \/ \E tag \in set.writes : Write(t, h, tag)

Next == (\E t \in Threads : Call(t) \/ Step(t)) \/ TimePasses \/ Destroy

\* A thread inside a call goes on, and gets a lock that is released again
\* and again; calls, time and the end of the program come or do not come.
Spec == Init /\ [][Next]_vars /\ \A t \in Threads : SF_vars(Step(t))

------------------------------------------------------------------------------
\* Steps that follow the thread's pointer to a context.
Following(t) == thr[t].pc \in {"use", "vfs_open", "ref_load", "ref_store",
                               "set", "save"}

\* The idle cleanup cannot meet a call of another thread: fuse_loop makes
\* one call at a time, and without a timeout the cleanup does nothing.
CleanupAlone == ~MT \/ ~Timeout

\* Every VFS context that exists belongs to its mount: two threads that
\* find an ISO unmounted create one context between them, a failed open and
\* the cleanup leave none behind (sacd_overlay_iso.c:225-262).
NoContextLeaked ==
    \A i \in Isos : live[i] = IF mount[i].vfs = None THEN {} ELSE {mount[i].vfs}

\* Between calls of the single-threaded loop the reference count of a mount is
\* the number of its open handles: a count too high keeps an ISO mounted for
\* ever, one too low unmounts it under its readers.
RefCountExact ==
    ~MT /\ AllResting =>
        \A i \in Isos : mount[i].refs = Cardinality({h \in Handles : file[h].iso = i})

\* The state is well typed, the counts are exact, and as long as the cleanup
\* runs alone a file handle keeps the context it was opened on alive through
\* every cleanup, failed open and close of other handles, and no step follows
\* a pointer to a destroyed context (sacd_overlay.c:693-725, 1074,
\* sacd_overlay_iso.c:276).
NoUseAfterFree ==
    /\ TypeOK
    /\ RefCountExact
    /\ CleanupAlone =>
        /\ \A h \in Handles : Opened(h) => file[h].vfs \in live[file[h].iso]
        /\ \A t \in Threads : Following(t) => thr[t].vfs \in live[thr[t].iso]

\* A tag that was flushed is in the sidecar, and in the cache of a mounted
\* context, whatever was unmounted, mounted again or written through other
\* handles in between, as long as no save failed and calls come one at a time
\* (sacd_overlay.c:945-984, 1077, sacd_vfs.c:1970-2113).
FlushedTagKept ==
    ~MT /\ AllResting /\ faults = 0 =>
        \A i \in Isos : committed[i] # None =>
            /\ sidecar[i] = committed[i]
            /\ IsOpen(i) => cache[i].tag = committed[i]

\* Not true of the code: after a failed save the mount still knows that its
\* tag is not in the sidecar, so that the cleanup or the end of the program
\* tries again (sacd_overlay.c:1051, 1077).
UnsavedTagKnown ==
    AllResting =>
        \A i \in Isos : IsOpen(i) /\ "valid" \in cache[i].flags
                          /\ cache[i].tag # sidecar[i] => "dirty" \in cache[i].flags

\* Not true of the code: a read returns the bytes at the offset it was asked
\* for, also when two threads read through one handle: nothing is held between
\* the seek and the read (sacd_overlay.c:840-845), where
\* docs/SACD_OVERLAY_VFS_DESIGN.md:451 has "per-file locking for seeks".
ReadsAtOffset ==
    \A t \in Threads : thr[t].pc = "read" => file[thr[t].h].pos = thr[t].n

\* Every call returns: the cleanup holds the table lock while it waits for a
\* mount lock, and whoever holds a mount lock does not need the table lock
\* (sacd_overlay.c:1068-1091, sacd_overlay_iso.c:225-262).
CallsReturn == \A t \in Threads : thr[t].pc # "idle" ~> thr[t].pc = "idle"
==============================================================================
