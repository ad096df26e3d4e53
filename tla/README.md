# TLA+ models of DSD-Nexus

DSD-Nexus reads, converts and serves DSD audio: it extracts SACD images
(`libsacd`), decodes DST (`libdst`), reads and writes DSF and DSDIFF files
(`libdsf`, `libdsdiff`), drives conversions through a pipeline (`libdsdpipe`),
and shows a disc as a directory of virtual DSF files (`libsacdvfs`, mounted by
`extras/sacd-vfs`).  This directory holds TLA+ models of the parts whose
correctness depends on the order in which threads run or on arithmetic across
many calls, the TLC configurations that check them, and proofs checked by TLAPS.

Paths below are relative to the repository (`src/` in `PROJECT.json`).

## Inventory

| Component | State | Operations | Talks to | Hard because |
|---|---|---|---|---|
| Thread pool, `libs/libsautil/sa_tpool.c` | per queue: input list, output list, counters, serial numbers, flags, reference count; ring of queues; waiting workers | init, dispatch (blocking, trying, forced), next_result(_wait), flush, reset, shutdown, destroy | `decoder_batch`, `sacd_vfs` | one mutex, six kinds of condition variable, results reordered, queues freed while workers look at them |
| Frame queue, `libs/libdsdpipe/src/frame_queue.c` | ring, head, tail, count, eof, cancelled | push, pop_batch, signal_eof, cancel, reset, destroy | reader thread, main thread | two sleepers, wake-ups, wrap-around |
| Pipeline, `libs/libdsdpipe/src/dsdpipe.c`, `reader_thread.c` | pipeline state, transforms, open sinks, buffers out of the pools, reader flags | run, per-track loop, cancel; start, read, signal end, shut down | sources, transforms, sinks | two threads and a canceller, a dozen error paths, buffers owned by both threads |
| Virtual DSF file, `libs/libsacdvfs/src/sacd_vfs.c` | position, current frame, block buffers, bytes to skip | open, seek, read, close | `libsacd`, overlay | frame and block sizes do not line up; errors in the middle of nested loops |
| The same, multi-threaded | command, seek target, process queue, current frame (shared) | the same; reader thread | thread pool | seek and close against a reader that may be blocked; unlocked shared state |
| Overlay, `libs/libsacdvfs/src/sacd_overlay*.c`, driven by `extras/sacd-vfs` | mount table and its lock, per mount a context, a reference count and a lock; open handles with ID3 write buffers; sidecar files | open, read, write, flush, close, getattr, idle cleanup, destroy | virtual files, FUSE threads | concurrent callers, counts changed outside the lock, saves that fail |
| Batch decoder, `libs/libdst/src/decoder_batch.c` | pool, queue, job array, decoder instances | create, decode batch, destroy | thread pool | errors in the middle of a batch, jobs on the caller's heap, dispatch before collection |
| Buffers and pools, `libs/libsautil/buffer.c` | reference counts, free list, structures on the heap or in the entry | alloc, ref, unref, replace, make_writable, realloc; pool get, uninit | pipeline, virtual files | atomics without locks, a pool given up while buffers are out |
| Disc reader, `libs/libsacd/src/sacd_d{st,sd}_reader.c`, `sacd_area_toc.c` | position of the next frame, current frame, access list | get_data, get_sector, set frame | input devices | frames of any length, sectors shared by frames, a guessed position |
| Input devices (`libsacd`) | file, socket, drive | read sectors | disc reader | what happens at the end of the disc differs |
| DSF files, `libs/libdsf`, and the DSF source of the pipeline | mode, position, block buffers of the writer and the reader, sizes in the header | create, write, finalize, open, open_modify, read, seek, validate, close | file | four chunk sizes and a tag that must agree after any sequence of calls |
| DSDIFF files (`libdsdiff`), other sources, sinks, transforms, track selection | file positions, chunk sizes, track state | open, seek, read; open, track start, write, track end, finalize | file libraries | end of data, partial frames |
| PS3 drive (`libps3drive`) | session state | authenticate, read | SCSI | order of steps |
| Command line, GUI (`extras/nexus-forge`) | options, conversion list | start, cancel | pipeline | threads of the toolkit |

`PROJECT.json` lists every component with its status and every hazard at its
line, with the properties that watch it.

## Modules

| Module | Models | Composition |
|---|---|---|
| `TPool` | the thread pool | |
| `FrameBatch` | how many frames a pop returns | used by `FrameFifo` and `Pipeline` |
| `FrameFifo` | what the frame queue promises: a bounded FIFO that can end or be cancelled | |
| `FrameQueue` | the frame queue: ring, mutex, condition variables | implements `FrameFifo` |
| `Pipeline` | one `dsdpipe_run` with its reader thread and a canceller | uses the queue as the FIFO |
| `VfsLayout` | positions, frames, blocks and the bytes of the virtual DSF file | |
| `VfsFile` | seek and read of that file by one thread | extends `VfsLayout` |
| `VfsReader` | the same file with `mt_enabled`: reader thread, commands, process queue | uses the pool as `TPool` shows it to behave |
| `Overlay` | the overlay filesystem under the threads of the FUSE loop | a virtual file is its position and its context |
| `BatchDecode` | the batch decoder | uses the pool as `TPool` shows it to behave |
| `BufferPool` | reference-counted buffers and their pool | |
| `FrameReader` | the readers of DST and plain DSD frames on a disc | |
| `DsfFile` | a DSF file on disk, a handle on it, the pipeline's DSF source | |
| `TPoolProofs`, `PipelineProofs`, `OverlayProofs`, `BatchDecodeProofs`, `BufferPoolProofs`, `DsfFileProofs` | theorems about the module of the name | extend it |
| `FrameProofs` | theorems about `FrameQueue` and about `FrameReader` | extends both; hence `ReadInit`, `ReadNext`, `ReadSpec` in `FrameReader` |
| `VfsProofs` | theorems about `VfsFile` and about `VfsReader` | extends both; hence `ReaderInit`, `ReaderNext`, `ReaderSpec` in `VfsReader` |
| `MC...` | instances for TLC | |

### TPool

A step is one critical section of `pool_m`.  `pq[q]` has the fields of
`sa_tpool_process`; `wk` and `th` are the program counters and locals of the
workers and of the threads that call the pool; a thread waits at the name of its
condition variable until a signal puts it into `woken`, and then still competes
for the mutex.  `cnd_signal` picks any waiter, and with `Spurious` a wait may
end by itself.  A dispatcher makes the calls that feed a queue and a consumer
those that empty it: the callers in the repository divide the work that way.
`id`, `calls`, `base`, `got` and `settled` are history variables.  The
serial of a job is bounded by `MaxCalls`, far below the 64 bits of the code;
`IntMax` stands for the `INT_MAX` that reset stores to hold results back.

### FrameFifo, FrameQueue

`FrameQueue` has the ring itself; `lock` and `wait` tell a thread that is about
to take the mutex from one that sleeps, so a call can slip in between a signal
and the moment the sleeper looks again.  `FrameFifo` has a sequence instead and
no sleeping: a push happens when there is room.  Its fairness (a push with room
and a pop with something to return do happen) turns lost wake-ups in
`FrameQueue` into violations of the refinement.

### Pipeline

One record for the main thread, one for the reader thread, one for each sink.
The program counters follow `dsdpipe_run`, `dsdpipe_process_track` and the
reader's loop; each early return is a step to the right cleanup label.  `Kinds` names the
calls that can fail, those of the sinks (`open`, `track_start`, the two writes,
`track_end`, `finalize`) among them, and another thread may cancel at any moment.  Frames are numbered within their
track; `given` is what the source has handed out, in order, and a sink's `log` is
what it was given.  `Capabilities` has what the kinds of sink say they take.  Sources, sinks and transforms are
externals: a source hands out the frames of a track in order, a short track, or
an error; a transform maps a batch to a batch.

Three properties follow the code where it does less than it should, and say so.
`FaultReported` exempts a sink that fails at the end of a track or when it is finalized:
the results of these two calls are dropped (`SinkFaultReported`).  `TrackEndsFirst`
exempts the three returns of `dsdpipe_process_track` before the notification
(`StartedTrackEnds`).  `BuffersReturned` says what exactly a failed DSD write leaves out
of the pool (`LeftOut`: the buffers of the frames of its batch before the one that failed)
and that nothing else leaves any out, a failed PCM write included.

### VfsLayout, VfsFile, VfsReader

`FileByte(p)` says, from the DSF format alone, which byte belongs at position
`p`; `SeekPoint`, `Blocks` and `Rest` follow the code's arithmetic.  A byte is a
tuple naming its channel and index, so `VfsFile` compares what a read returns
with what belongs there.  Each turn of the loops in `sacd_vfs_file_read` and
`_read_audio_region` is an action.  Another handle on the same disc may flush a tag of
another size between any two steps (`Retag`).  The size of the file was fixed when it was
opened, so behind the end of a shorter tag a read inside the file succeeds with no bytes
(`sacd_vfs.c:2694`); `NoEmptySuccess` exempts that place, and reads after lost frames, and nothing else.

`VfsReader` works with whole frames; of the two buffers behind them `block` keeps
whether there are bytes that fill no block yet, and whether bytes of whole blocks, or of the
padded last block, are still to be copied.  A frame may fail to decode or its bytes to
be transformed.  `EndsAfterLastFrame` says that no frame and no whole block of one is
left behind when the end is taken; the padded last block may be (`LastBlockServed`).
`file->current_frame++` in the reader is a
load and a store, since the other thread writes the same variable without a lock.
The process queue is the sequence of jobs in dispatch order with the worker's
admission rule; that results leave in that order and find room is what `TPool`
shows.  The reader keeps `command_mtx` while it resets the queue after the end of
the track (`locked`).

### Overlay

A thread of the FUSE loop makes one call at a time; `set` says how the program
was started: one thread or several, with or without a cache timeout, and whether
threads may share a file handle (the kernel does so for a file opened once and
read by two processes).  `thr[t].pc` follows a call through
`_overlay_ensure_iso_mounted`, the change of the reference count and the use of
the context.  `ref_load` and `ref_store` are the two halves of `ref_count++`,
which `sacd_overlay.c` does outside the mount lock.  A tag goes from the handle's
write buffer at flush into the cache of the context and from there into the
sidecar; each of the three steps can fail.  Addresses of contexts are never used
twice, so a stale pointer is seen.

What holds depends on the setting, and each property says so.  That contexts are
not leaked and calls return holds of all of them.  With several threads and a
timeout the cleanup can destroy a context between the mount and the reference of
an open, and a lost increment can make a count too low; `NoUseAfterFree` therefore
covers the loop with one thread and the loop without cleanup, which is what the
code supports.  Threads that share a handle seek and read with no lock between the two:
one may read at the offset of the other (`ReadsAtOffset`).

### BatchDecode

`call` is the caller inside `dst_batch_decode`, `work` the workers; a worker
borrows a decoder (`AcquireDecoder`), decodes into the caller's buffer and
returns it.  `mem` and `alive` are the job structures, which the call frees at its
end whether or not the workers are done with them.  Output buffers are used again
by the next batch.

### BufferPool

A step is an atomic operation or a lock section.  A drop of the last reference
is four steps (the count, the block or the free list, the pool's count, the
structure), between which the other thread runs.  `HandOver` passes a reference
through the program's own synchronisation.  The callers are those of the
repository: `sa_buffer_pool_get` is not called after `sa_buffer_pool_uninit`.

### FrameReader

`Discs` is the set of all small track areas: how many sectors a frame spans,
whether it shares a sector with the frame before, follows it or comes after a
padding sector, and an access list that is absent, right or one sector late.  The
reader's position (`cache`) is what the last call left.  A result is the set of
packets, or of slices for plain DSD, that make up the frame; `raw` records that a
sector was parsed without having been decrypted, and `FrameExact` says nothing of
such a result.

`DiscOK` says which discs are meant.  The frames of a DST area lie in their order,
each within its `span` sectors and starting with an audio packet; `MaxSectors`
sectors from the end of a frame on hold the next one, as the sequential read supposes;
the access list ascends and ends in the area (with the subtraction of unsigned
numbers at `sacd_area_toc.c:1362` nothing else makes sense).  For an image file also:
every sector of a frame has audio of it, since only such sectors are counted, and an
entry of the access list that is not exact is late, never early: a range that begins
at the start of the area and ends before the frame would not be searched again
(`sacd_dst_reader.c:374`).  A sector of `Discs` may hold no packet at all; the code's
parser refuses such a sector, so the model has a few discs more than the program accepts.
`EveryFrameReadable` is about the audio packets of a frame, not its supplementary data.

### DsfFile

A file is a sequence of cells (a chunk identifier, an integer of the header, an
audio byte, a unit of the tag) and a position counts cells.  An audio byte knows
its number and bit order, so the interleaving, the reversal of bits, the padding
and the four sizes in the header can be compared with what was written.
`Finalize` makes the writes of `dsf_finalize` in their order and any one of them
may fail; the failure is taken to show at the `fwrite`.  `stage` tells a file that
was saved without an error from one that was modified or spoiled.  A modification that is
finalized with the position before the audio counts as spoiled: `data_size` wraps round, the
call succeeds and the file no longer opens (`dsf.c:406`, `ModifiedOpens`).  `TagFound`
covers every other modification, also one that is finalized in the middle of the audio.
A `WriteAudioData` after one that failed with the buffer full is not modelled: in the code it
would index `channel_buffers` past their end.  One bit per
sample; `bytes_written`, which nothing reads, is left out.

## Runs

All runs are in `PROJECT.json`; `tlc -config X.cfg M` repeats one.

| Run | Shows | Bounds |
|---|---|---|
| `tpool` | room for results, order, ownership, the assertions of the code, the invariant the proofs use; a waiting consumer whose job was dispatched is served; every flush, reset and destroy returns | 2 workers, 1 queue of size 2, 3 dispatch calls, spurious wake-ups |
| `tpool_shared` | exact reference counts and lifetime with two queues sharing the workers, one without output, and results that cannot be allocated | 2 workers, 2 queues of size 1, 1 dispatch each |
| `frame_queue` | ownership of frames, refinement of the FIFO with its liveness | capacity 3, batches of 2, 5 frames, 3 control calls |
| `pipeline` | order, completeness, error reporting with its two exceptions, buffers, track notifications, bounded work after a cancel; `dsdpipe_run` returns | 2 tracks of 4 frames, queue of 2, batches of 2, up to 2 kinds of failure, a cancel, 4 combinations of source and sinks |
| `vfs_file` | whole blocks returned are those of the file or silence; no empty success; the read loops end | 5 frames of 3 bytes, blocks of 2, 2 channels, 4 calls, 2 failures, a tag of 2 that another handle makes 1 or 3 |
| `vfs_reader` | frames after a seek are consecutive and fresh, the end comes after all of them; read, seek and close return | 5 frames, queue of 2, 2 seeks, 1 failure |
| `overlay` | contexts created once and never leaked, no use of a destroyed one, exact counts, flushed tags kept; calls return | 2 threads, 1 ISO, 2 handles, 2 tags, 1 failing save, 3 settings |
| `batch_decode` | each result and buffer is that of its frame, the first error is the one reported, decoders and jobs are safe; the call returns and the decoder can be destroyed | 2 workers, 2 decoders, queue of 2, batches of up to 4, 2 batches, 2 bad frames, refused dispatches |
| `buffer_pool` | exact counts, no use after free, nothing leaked, writers are alone | 2 threads, 3 buffers, 2 references to a buffer, 1 write (symmetric) |
| `frame_reader` | a frame read is that frame, whatever was read before; every frame of an image file can be read, after failures too | all areas of 3 DST frames of 1 or 2 sectors, 14- and 16-sector discs, 3 inputs, 1 failing read |
| `dsf_file` | a file written in any pieces is right on disk, reads back as written, also through the source, and its tag is found | blocks of 2, 2 channels, frames of 3 bytes, writes of 1 or 5 columns, 4 calls to write, 3 sessions, 3 calls in each later one, 1 failing write |

Why the bounds suffice to meet the interesting cases: a queue of size 2 with two
workers and three jobs has a full input, a full output and a job in progress at
once; a ring of 3 with 5 frames wraps; two tracks let a late event of the first
meet the second; frames of 3 and blocks of 2 bytes complete one block or two per
frame and leave a rest at an odd number of frames, as 4704 and 4096 do; five
frames in a queue of two block the reader before the track ends.  Two handles and
two threads let a mount be opened, closed and cleaned up while the other uses it.
A batch of four fills both ends of a queue of two.  Three buffers let one be out,
one free and one be the copy of a third; a second use of a buffer is the first
with an embedded structure.  Three frames with two entries in the access list give
an entry a frame of its own and one to be guessed.  Writes of 1 and 5 columns
leave a block group open, fill one, or fill two and leave a rest; a frame of 3
bytes starts inside a group.  The bound of three calls in a later session covers
a seek, a read and a finalize before the close.

### Where the code does not do what it says

`vfs_seekrace` ends in a violation: a seek stores its target in `current_frame`
without a lock and the reader thread overwrites it before it is read back (the
finding in `PROJECT.json` has the lines).

The other disagreements met while modelling have no run of their own.  Where the
table names a property, TLC finds the counterexample, most of them within seconds, when
that property is made the invariant (for `CancelStands`, the property) of the
configuration of its module; `CompleteOnSuccess` fails with `Setups <- Mixed`.

| Where | Property | The code |
|---|---|---|
| `dsdpipe.c:981` | `Pipeline!CompleteOnSuccess` | one sink that keeps DST switches the decoder off for all: a sink that takes only DSD gets no frame and the run succeeds, against `docs/LIBDSDPIPE.md:82` (`MCPipeline!Mixed`); with a PCM sink the run is refused |
| `dsdpipe.c:1348` | `Pipeline!EveryBufferReturned` | a failed DSD write leaves the buffers of its batch out of the pool |
| `dsdpipe.c:1526`, 1631 | `Pipeline!SinkFaultReported` | what `track_end` and `finalize` return is dropped: the run succeeds although a sink could not complete its output (`sink_flac.c:551`, `sink_id3.c:544`, 586), against `dsdpipe.h:617` |
| `dsdpipe.c:1190`, 1197, 1284 | `Pipeline!StartedTrackEnds` | a failed `track_start`, a queue or reader that cannot be created and decoder buffers that run out return before `track_end` is called, against `docs/LIBDSDPIPE.md:49`; the sinks are finalized all the same |
| `dsdpipe.c:1604` | `Pipeline!CancelStands` | a cancel before `dsdpipe_run` clears the flag is lost |
| `sacd_vfs.c:2440` | `VfsFile!EveryByteRight` | a seek into the last, padded block group returns its first bytes |
| `sacd_vfs.c:2513` | `VfsFile!ContinuousAudio` | after a frame that fails to decode, the next one is served at its position |
| `sacd_vfs.c:2616`, 2398 | `VfsReader!LastBlockServed` | `audio_early_eof` is set before the padded last block is flushed and is tested before that block is copied: a read that ends inside the block is followed by silence, against the comment at 2624 |
| `sacd_vfs.c:2694` | `VfsFile!NoEmptySuccessInFile` | behind the end of a tag that another handle made shorter, a read inside the file succeeds with no bytes |
| `decoder_batch.c:469` | `BatchDecode!BatchInOrder` | a batch that fails leaves its later results in the queue for the next batch and frees jobs that workers still use |
| `decoder_batch.c:453` | | a batch larger than both ends of the queue blocks in dispatch for ever (`ConstantsAssumption` of `BatchDecode` excludes it; the pipeline's batches are smaller) |
| `sacd_overlay.c:983` | `Overlay!UnsavedTagKnown` | after a failed save the dirty flag is clear and nothing tries again |
| `sacd_overlay.c:840` | `Overlay!ReadsAtOffset` | two threads that read through one handle may read at each other's offset, against `docs/SACD_OVERLAY_VFS_DESIGN.md:451` |
| `sacd_overlay.c:1074` | | with several threads the cleanup may destroy the context of an open that is under way |
| `sacd_dst_reader.c:537` | `FrameReader!DecryptedFirst` | the sectors past the end of the area are parsed without decryption; a drive or a server refuses a read that reaches past the end of the disc |
| `sacd_dst_reader.c:374` | | no second search when the guessed range already starts where the area does |
| `sacd_area_toc.c:847` | | reading the last frame as the current one ends with `END_OF_AUDIO_DATA` and the caller drops it |
| `dsf.c:406` | `DsfFile!ModifiedOpens` | a modification finalized with the position before the audio (after a seek or a validation) is reported as saved, its data size has wrapped round and the file cannot be opened any more, against `dsf.h:293` |
| `dsf.c:406`, `dsf_io.c:103` | `DsfFile!AudioKept` | in MODIFY mode a finalize or a close without a seek takes the position for the end of the audio, and truncates or overwrites it; a failed `dsf_open_modify` truncates the file where it stopped reading |
| `dsf_chunks.c:980` | | a file flushed in the middle of several block groups is right but `dsf_validate` refuses it: its sizes include the padding, the sample count does not |
| `dsf.c` | | `dsf_validate` in WRITE mode leaves the position at the start; `SEEK_CUR` and `dsf_get_audio_position` do not count the bytes in the read buffer; a read past the audio reads the tag and reports `ERROR_READ` |

Two smaller ones: `sa_tpool_process_reset` leaves `njobs` above the number of
queued jobs (it only makes `wake_next_worker` more eager).  A cancel is seen once
per batch, not between frames as `docs/LIBDSDPIPE.md` says; `CancelBounded` has the
bound that holds.

### Deadlock

Every specification stops where the program does (the pool is destroyed, the run
has returned, the file is closed, the bounded calls are used up), so TLC's
deadlock check is off; a thread that hangs is found by the liveness properties
`ConsumerServed`, `CallsReturn`, `RunReturns`, `ReadReturns`, `CallReturns` and, for
the frame queue, by the fairness of `FrameFifo`.

### Fairness

Weak fairness of every worker, and of every thread inside a call: the operating
system runs a thread that can run.  A thread asleep on a condition variable is
not enabled until it is signalled, so fairness never hides a lost wake-up.  No
caller is obliged to make a call.  `CallsReturn` of the pool does not cover calls
that depend on another client by contract (a dispatch into a full queue nobody
empties).  In `Overlay` alone the steps of a thread are strongly fair: a mutex that
is released again and again is got in the end by a thread that waits for it,
although other threads make calls for ever.  `BufferPool`, `FrameReader` and
`DsfFile` state no fairness: their calls do not wait.

## Proofs

Every invariant that a passing run checks is proved, for
all values of the constants that the named assumption of the module allows (for
`DsfFile`, as long as the sizes fit: see there).  None of them is
inductive; each module states the invariant that is, in parts, and TLC has
checked those parts on the instance of the run.  A proof has one lemma per action,
or one case per action, split by the parts the action can disturb; the temporal
theorem at the end puts them together.  A bound of a model (`MaxCalls`,
`MaxFaults`, `MaxSeeks`, ...) is any natural number in the theorems.

### TPoolProofs

Any number of workers, queues, client threads and calls, any queue size
(`SizeAssumption`, `BoundAssumption`, `SetAssumption`).

- `Invariance`: `Spec => []IInv`;
- `TypeCorrect`: `Spec => []TypeOK`, the counters never below zero;
- `RoomForResults`: `Spec => []OutputFits`;
- `InDispatchOrder`: `Spec => []ResultsInOrder`.

Order depends on the serial number of every job, wherever it is: waiting in a
blocked dispatch, in the input, with a worker or in the output.  `Numbered` says
that serial and `id` of such a job differ by the `base` of the last reset; a reset
may move the base only because nothing numbered from the old one is left, and that
is what `ResetInv` carries through the reset: it has the queue to itself, the input
is empty once it has been discarded, and at its end no job is in progress.  The
last point needs `nProcessing` to count the workers that run (a cardinality,
maintained by `Take` and `AddResult`), and that equality with `nOutput` being an
upper bound of the output also gives `OutputFits`.  `UnbornInv` keeps the fields of
a queue that has not been created at their initial values.

On top of `Invariance`:

- `Lifetime`: `Spec => []LifeInv`, and `NotUsedAfterFree`: `Spec => []NoUseAfterFree`.
  The reference count of a queue is the number of its holders, counted as three
  disjoint sets (its creator, the workers at it, the consumers that wait for it).
  A queue that is detached from the ring and still referenced takes no more jobs
  and has only waiting consumers inside, so the step that drops the last reference
  leaves nobody; each queue is in the ring at most once.
- `Placement`: `Spec => []Places`, and `PayloadsOwnedOnce`: `Spec => []OneOwner`.  The ids given
  out are divided among five places (blocked dispatches, the input, the hands of
  the workers, the output, settled); every action moves at most one id from a
  place to another or settles all of one place.
- `AssertionsTrue`: `Spec => []AssertionsHold`.  Outside a reset (`next = IntMax`) the
  serial that is to be collected next is not above any serial in the queue.

### FrameProofs

The frame queue, of any capacity, batch size and number of frames (`QueueConstants`).

- `Invariance`: `Spec => []IInv`;
- `NoFrameLost`: `Spec => []FramesAccounted`;
- `FifoSafety`: the initial state of `FrameQueue` is one of `FrameFifo`, and every step is
  a step of it or a stutter: `ImplementsFifo` without its fairness.

`Closed` says that head, tail and count agree modulo the capacity, which makes
`Contents` (the ring read from its head) the FIFO: a push appends to it and a pop
cuts off its front.  `AccountInv` balances the frames pushed against the ring, the
consumer, the released ones and the frame the producer holds; `ThreadInv` says
that the queue is destroyed only when no thread is inside.

The frame readers, on any set of well-formed discs of any size, with any
`MaxSectors` and any number of failing reads (`DiscsAssumption`, `NoneAssumption`).

- `ReadInvariance`: `ReadSpec => []ReadIInv`;
- `FramesExact`: `ReadSpec => []FrameExact`, the types with it;
- `FramesReadable`: `ReadSpec => []EveryFrameReadable`.

What is not in the two properties is `CacheInv`: the position that a call leaves, if
it is valid, starts no later than the next frame and reaches to its end with
`MaxSectors` sectors (`Holds`).  A read then has sectors that contain the frame
(`ReadCovers`), whether it starts from that position or from a search, and three
lemmas follow the loop over them: the packets between this frame's start and the next
are exactly the frame's (`WantedIs`); the sector count is reached in the frame's last
sector or not at all, since the sectors counted lie within its span (`LinesAre`, a
cardinality); so the frame is complete after its last packet and not after
the next frame's start (`DoneIs`), which gives `CacheInv` again.  For the search, the
first frame start at or after frame n in a range is n's own if the range has it, and if it
has not, the second search of the whole area finds it (`FindIs`, `SeekIs`).  For plain DSD the six
rows of the layout tables are shown to be chains of slices from the first byte of a frame
to its last (`Tables14`, `Tables16`), repeated every three frames.

### PipelineProofs

Any number of tracks, frames, sinks and setups, any size of the queue and the
batches, any kinds and number of failures (`PipelineConstants`).

- `ThreadsInStep`: `Spec => []ControlInv`;
- `FaultsReported`: `Spec => []FaultReported`;
- `TracksEndFirst`: `Spec => []TrackEndsFirst`;
- `CancelIsBounded`: `Spec => []CancelBounded`;
- `AllBuffersReturned`: `Spec => []BuffersReturned`;
- `FramesInOrder`: `Spec => []DeliveredInOrder`, with `TypeOK`;
- `SuccessIsComplete`: `Spec => [](Servable => CompleteOnSuccess)`.  `Servable` leaves out
  the setups of the table above in which a sink that takes only DSD stands beside
  one that takes DST.

The invariant comes in layers, each proved from the ones before it.  `ControlInv`
says which states of the two threads go together: the queue exists while a track
is processed, `reader.cancelled` is set before the queue is cancelled and neither
inside the loop, the frame marked last is at the end of the queue and then in the
batch, and a reader that stopped without an error has pushed it.  `FaultInv`
follows a failure from the reader's error to the result; those of `track_end` and
`finalize` are not in it, since the code drops them.  `LateInv` counts the
writes since the cancellation.  `BufInv` adds up the buffers in the queue, in the
reader's hands and in the batch, and `LeftInv` those that a failed DSD write leaves:
the run ends after it, so they are the ones of that batch.  `GivenInv` says that the source handed out the
first `pos` frames of the current track after those of earlier tracks.  `FlowInv` is
the heart: while the loop runs there is a number `c` of frames of the track that
have gone to the sinks with earlier batches; the batch holds the frames after `c`,
the queue those after the batch, the reader perhaps one more, and together with
`c` they are the frames read.  So a write always appends the next frame handed out,
and when the last batch is written nothing is left between the source and the
sinks.  `WholeInv` adds that a track which ended without an error was read to its
last frame, or up to the early end that the source reported.

### VfsProofs

The file read by one thread: any frame and block size, any alignment that is a
whole number of blocks, any number of channels and frames, any header and tag
(`LayoutConstants`, `FileConstants`).

- `Invariance`: `Spec => []IInv`;
- `BlocksRight`: `Spec => []WholeBlocksRight`;
- `ReadsSomething`: `Spec => []NoEmptySuccess`.

`PositionInv` says what the handle's buffers hold.  Before the first read of the
audio they are empty (`Untouched`).  After that (`Aligned`) the columns waiting in
`channel_buffers` are the samples that the frames read so far leave over, and the
transformed bytes are those of the file from the position to the end of the blocks
these frames fill, or a seek still has that much to skip.  At the end of the disc
(`Finished`) what is left reaches the tag, or its padding does.  The lemmas under it
are the arithmetic of `VfsLayout`: `SeekIs` (the aligned frame, which is never past
the last, and the bytes to skip lead to the position), `AudioByteIs` (where a byte of
a block group is in the audio), `BlocksOf` and `FrameRead` (the blocks that a frame
completes are the bytes of the file that follow).  `CallInv` gives the call in
progress a byte to return as long as it has returned none, if the position is not behind
the end of a tag made shorter.

The file read through the reader thread: any number of frames, seeks and failures,
any queue size (`ReaderConstants`).

- `ReaderInvariance`: `ReaderSpec => []ReaderInv`;
- `FramesConsecutive`: `ReaderSpec => []ConsecutiveFrames`;
- `NotEndedEarly`: `ReaderSpec => []EndsAfterLastFrame`.

`QueueInv` numbers the jobs from what the consumer has taken since the last seek,
and relates `current_frame`, the reader's local copies and the end-of-track job to
that numbering.  The job that ends the track comes last, and until it is taken no
frame and no whole block has been left behind, which is `NotEndedEarly`; the padded
last block is not covered.  `QueueInv` holds only while no seek is on its way (`Synced`); `CommandInv`
and `SeekInv` say what the two threads know of each other while one is, and that
the queue is empty when the reader takes up the new position.

### OverlayProofs

Any number of threads, ISOs, handles, tags and any set of settings
(`ConstantsAssumption`, which also says that there are more addresses than can be
in use at once, so that the allocator finds one).

- `ContextsNotLeaked`: `Spec => []NoContextLeaked`;
- `UsedWhileMounted`: `Spec => []NoUseAfterFree`;
- `FlushedTagsStay`: `Spec => []FlushedTagKept`.

`Shape` has the types, what a call carries at each of its steps, who holds which
lock, and that a mount has at most one live context.  `Bounded` keeps the counts,
which drift with several threads, below `MaxRefs`.  `Exact`, for one thread, equates the
count of a mount with its open handles (a cardinality).  `Safe`, where the cleanup
runs alone or not at all, says that handles and calls point into the live context
of a mount whose lock is free; the cleanup then closes only mounts with no handle,
since its count is exact.  `Kept` follows a flushed tag through cache and sidecar.

### BatchDecodeProofs

Any number of workers, decoders, batches and failing frames
(`ConstantsAssumption`: a batch fits the two ends of the queue).

- `WorkersAreSafe`: `Spec => []WorkersSafe`;
- `OutputsAreRight`: `Spec => []OutputsRight`;
- `FirstErrorIsReported`: `Spec => []FirstErrorReported`.

`SerInv` gives every serial to one job, in the input, with a worker or in the
output; `JobInv` and `MemInv` say which frame the job of a serial decodes, also for
what an earlier, failed call left behind; `RetInv` and `FreshInv` say what has been
reported and which buffers are filled; `DecInv` counts the decoders on loan.

### BufferPoolProofs

Any finite number of threads and buffers, any number of references
(`ConstantsAssumption`).

- `SafeToUse`: `Spec => []NoUseAfterFree`;
- `AllFreed`: `Spec => []NothingLeaked`;
- `WrittenByOne`: `Spec => WriterAlone`, an action property.

`CountInv` equates the count of a live buffer with the references to it that
exist; `FreeInv`, `HeapInv` and `ListInv` give a buffer whose count is zero to the one
thread that frees it, and the structure and the place in the free list to one owner;
`PoolInv` does the same for the pool, whose count is its owner plus the buffers out.

### DsfFileProofs

Any block size, number of channels, frame size, sizes of writes, reads, seeks and
tags, any number of calls, sessions and failing writes (`ConstantsAssumption`).

- `Invariance`: `Spec /\ []Fits => []IInv`;
- `FileSaved`: `Spec /\ []Fits => []SavedFileRight`;
- `AudioReadBack`: `Spec /\ []Fits => []ReadsAsWritten`;
- `TagSaved`: `Spec /\ []Fits => []TagFound`, but for a modification finalized with the
  position before the audio.

`Fits` says that the position has not gone past the largest chunk that `dsf_open`
accepts (`MAX_REASONABLE_CHUNK`) and that the sample count fits its word.  A larger
file is written and then refused or wrapped around, so no theorem holds without it;
the runs stay within it.

`FileInv` follows the stages of a file.  While it is written (`Writing`) the whole
groups of the audio are on disk and the rest is in the buffer, and the samples that
are no padding come in whole columns.  Once finalized (`Saved`) the header's sizes,
the audio and the tag agree.  A modified file keeps what opening it depends on
(`Tagged`), and the position is where the file is cut off.  `ReadInv` says that the
read buffer is the audio from the next byte on, for a caller and for the source.
The lemmas under it: `Spot`, the place of a column's byte in its block group, permutes
the bytes of a group; the groups a call writes and the groups a read takes apart are
inverse to each other; the six writes of `dsf_finalize` touch different cells; the
samples that are no padding, rounded up to groups, are the size of the data chunk if
only the last group is padded.

The last point corrected the model: `SavedFileRight` used to say that `dsf_validate`
accepts every such file, which small bounds had not refuted.  A file that was flushed in
the middle of a group more than once holds padding that its sample count does not
count, and is refused once a whole group is missing (`dsf_chunks.c:980`, blocks of 3
bytes, one column between the flushes); `PaddedAtEnd` now excludes these.

### Only model-checked

Liveness (`ConsumerServed`, `CallsReturn`, `RunReturns`, `ReadReturns`, `CallReturns`) and the
fairness part of `ImplementsFifo` are outside TLAPS.

## Plan

Done: the models `TPool`, `FrameQueue`, `Pipeline`, `VfsLayout`, `VfsFile`, `VfsReader`, `Overlay`,
`BatchDecode`, `BufferPool`, `FrameReader`, `DsfFile`, and the proofs of every safety
property that a passing run checks.

Next, in this order:

1. `DSDIFF` files on the pattern of `DsfFile`, and the sources and sinks over both.
2. The life cycle of a pipeline over several calls (configure, run, cancel,
   reset, run again, destroy).
3. The fallback between copies of the tables of contents, the network protocol,
   the order of the PS3 authentication, track selection, the Nexus Forge worker.

## Not modelled

Audio coding, filtering and cryptography (data without control state); string,
charset and XML handling; vendored code (`libsg3`, `external`) and generated
configuration headers; user interface and command line; Windows-specific paths; the
failure of allocations that the code does not handle (the end-of-track job of
`sacd_vfs.c:1793` among them: a reader of the file then waits for ever).  64-bit
counters are modelled as naturals where no behaviour reaches their limits;
`DsfFile` has them as words, since a damaged size may be negative.
