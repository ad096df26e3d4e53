----------------------------- MODULE VfsReader ------------------------------
(***************************************************************************)
(* libsacdvfs/src/sacd_vfs.c: an open virtual file with mt_enabled.  The   *)
(* reader thread (_vfs_reader_thread) reads compressed frames ahead and    *)
(* dispatches them to the process queue of a thread pool; the thread that  *)
(* uses the file (sacd_vfs_file_read, _seek and _close) takes the decoded  *)
(* frames from it.  The two talk through `command', under command_mtx and  *)
(* command_cnd, and share current_frame without any lock.                  *)
(*                                                                         *)
(* The process queue appears as what TPool shows of it: its jobs in the    *)
(* order of dispatch, each waiting ("in"), being decoded ("run") or        *)
(* decoded ("out"), results leaving in that order, room for every result.  *)
(* Audio data is the number of its frame within the track.  Of the bytes   *)
(* that a frame becomes (VfsFile) only two things are kept: whether some   *)
(* wait in the transform buffer, and whether some fill no block yet.       *)
(* mt_errcode is left out: it is looked at only when next_result_wait      *)
(* returns nothing, which it does only after a shutdown, when nobody reads *)
(* any more.                                                               *)
(***************************************************************************)
EXTENDS Integers, Sequences, FiniteSets

CONSTANTS
    TrackFrames, \* end_frame - start_frame
    SeekFrames,  \* the frames a seek can compute: aligned ones, the first, the end
    QSize,       \* qsize of the process queue
    Faults,      \* the kinds of failures that may happen
    MaxFailures, \* bound of the model: failures in a behaviour
    MaxSeeks     \* bound of the model: calls of seek

ASSUME ReaderConstants ==
    /\ TrackFrames \in Nat /\ SeekFrames \subseteq 0..TrackFrames
    /\ QSize \in Nat \ {0}
    /\ Faults \subseteq {"read", "decode", "transform"}
    /\ MaxFailures \in Nat /\ MaxSeeks \in Nat

VARIABLES
    current_frame,   \* written by both threads
    command,         \* the command for the reader thread
    mt_seek_frame,   \* the target of a SEEK command
    locked,          \* the reader holds command_mtx across process_reset
    reader,          \* the reader thread: where it is, its frame, its register
    jobs,            \* the process queue, in the order of dispatch
    shutdown,        \* the process queue has been shut down
    wake_dispatch,   \* the process queue's flag
    user,            \* the thread using the file: where it is, its seek target
    block,           \* bytes_buffered and the transform buffer: what waits in them
    early_eof,       \* audio_early_eof
    taken,           \* frames taken from the queue since the last seek
    failures, seeks  \* failures and calls of seek so far

reader_vars == <<current_frame, command, mt_seek_frame, locked, reader, jobs, shutdown,
                 wake_dispatch, user, block, early_eof, taken, failures, seeks>>

queue == <<jobs, shutdown, wake_dispatch>>
counted == <<failures, seeks>>
served == <<block, early_eof, taken>>
consumer == <<user, served>>

Eof == TrackFrames + 2                   \* the frame number of the EOF sentinel
\* columns: some bytes fill no block yet; ready: bytes of whole blocks of frames,
\* or those of the padded last block, are to be copied.
Block == [columns : BOOLEAN, ready : {"none", "frame", "tail"}]
NoBlock == [columns |-> FALSE, ready |-> "none"]
Job == [frame : (0..TrackFrames) \union {Eof}, st : {"in", "run", "out", "gone"}, err : BOOLEAN]

(***************************************************************************)
(* sacd_vfs_file_open_mt                                                   *)
(***************************************************************************)
ReaderInit ==
    /\ current_frame = 0 /\ command = "NONE" /\ mt_seek_frame = 0 /\ locked = FALSE
    /\ reader = [pc |-> "loop", frame |-> 0, reg |-> 0]
    /\ jobs = <<>> /\ shutdown = FALSE /\ wake_dispatch = FALSE
    /\ user = [pc |-> "idle", target |-> 0]
    /\ block = NoBlock /\ early_eof = FALSE /\ taken = <<>>
    /\ failures = 0 /\ seeks = 0

At(pc) == reader.pc = pc
RGoto(pc) == reader' = [reader EXCEPT !.pc = pc]
UGoto(pc) == user' = [user EXCEPT !.pc = pc]

Failure(kind) ==
    /\ kind \in Faults /\ failures < MaxFailures
    /\ failures' = failures + 1

-----------------------------------------------------------------------------
(***************************************************************************)
(* The process queue and its workers (TPool): a worker starts the oldest   *)
(* waiting job while there is room for its result, and decodes it.         *)
(***************************************************************************)
Count(st) == Cardinality({i \in DOMAIN jobs : jobs[i].st = st})
Oldest(i) == jobs[i].st = "in" /\ \A k \in 1..(i - 1) : jobs[k].st # "in"

StartJob(i) ==
    /\ Oldest(i) /\ ~shutdown
    /\ QSize - Count("out") > Count("run")
    /\ jobs' = [jobs EXCEPT ![i].st = "run"]
    /\ UNCHANGED <<current_frame, command, mt_seek_frame, locked, reader, shutdown,
                   wake_dispatch, consumer, counted>>

(* _vfs_dst_decode_func: the sentinel passes through without decoding. *)
FinishJob(i) ==
    /\ jobs[i].st = "run"
    /\ \/ jobs' = [jobs EXCEPT ![i].st = "out"] /\ UNCHANGED failures
       \/ /\ jobs[i].frame # Eof
          /\ Failure("decode")
          /\ jobs' = [jobs EXCEPT ![i].st = "out", ![i].err = TRUE]
    /\ UNCHANGED <<current_frame, command, mt_seek_frame, locked, reader, shutdown,
                   wake_dispatch, consumer, seeks>>

NewJob(f) == [frame |-> f, st |-> "in", err |-> FALSE]

-----------------------------------------------------------------------------
(***************************************************************************)
(* The reader thread                                                       *)
(***************************************************************************)

(* Mutant: the last frame of the track is left out. *)
RLoopShort ==
    /\ At("loop")
    /\ RGoto(IF current_frame + 1 < TrackFrames THEN "check" ELSE "eof")
    /\ UNCHANGED <<current_frame, command, mt_seek_frame, locked, queue, consumer, counted>>

(* The test of the loop, then the command. *)
RLoop ==
    /\ At("loop")
    /\ RGoto(IF current_frame < TrackFrames THEN "check" ELSE "eof")
    /\ UNCHANGED <<current_frame, command, mt_seek_frame, locked, queue, consumer, counted>>

RCheck ==
    /\ At("check") /\ ~locked
    /\ RGoto(CASE command = "CLOSE" -> "exited"
               [] command = "SEEK" -> "reset"
               [] OTHER -> "read")
    /\ UNCHANGED <<current_frame, command, mt_seek_frame, locked, queue, consumer, counted>>

RRead ==
    /\ At("read")
    /\ reader' = [reader EXCEPT !.pc = "dispatch", !.frame = current_frame]
    /\ UNCHANGED <<current_frame, command, mt_seek_frame, locked, queue, consumer, counted>>

(* The frame cannot be read, or no job or buffer can be allocated. *)
RReadFails ==
    /\ At("read")
    /\ Failure("read")
    /\ RGoto("eof")
    /\ UNCHANGED <<current_frame, command, mt_seek_frame, locked, queue, consumer, seeks>>

Blocked == Count("in") >= QSize /\ ~shutdown /\ ~wake_dispatch

(* sa_tpool_dispatch3, which waits for room unless it is woken *)
RDispatch ==
    /\ At("dispatch")
    /\ ~Blocked /\ ~shutdown
    /\ jobs' = Append(jobs, NewJob(reader.frame))
    /\ wake_dispatch' = FALSE
    /\ RGoto("load")
    /\ UNCHANGED <<current_frame, command, mt_seek_frame, locked, shutdown, consumer, counted>>

(* It fails after a shutdown: the command tells why. *)
RDispatchFails ==
    /\ At("dispatch")
    /\ shutdown /\ ~locked
    /\ RGoto(CASE command = "CLOSE" -> "exited"
               [] command = "SEEK" -> "reset"
               [] OTHER -> "eof")
    /\ UNCHANGED <<current_frame, command, mt_seek_frame, locked, queue, consumer, counted>>

(* file->current_frame++, a read and a write that the other thread's write *)
(* may fall between                                                        *)
RIncLoad ==
    /\ At("load")
    /\ reader' = [reader EXCEPT !.pc = "store", !.reg = current_frame]
    /\ UNCHANGED <<current_frame, command, mt_seek_frame, locked, queue, consumer, counted>>

RIncStore ==
    /\ At("store")
    /\ current_frame' = reader.reg + 1
    /\ RGoto("loop")
    /\ UNCHANGED <<command, mt_seek_frame, locked, queue, consumer, counted>>

(* The EOF sentinel is dispatched whether there is room or not. *)
REof ==
    /\ At("eof")
    /\ jobs' = Append(jobs, NewJob(Eof))
    /\ RGoto("wait")
    /\ UNCHANGED <<current_frame, command, mt_seek_frame, locked, shutdown, wake_dispatch,
                   consumer, counted>>

(* Waiting for a command; the mutex stays locked for the reset. *)
RWait ==
    /\ At("wait")
    /\ command \in {"CLOSE", "SEEK"}
    /\ RGoto(IF command = "SEEK" THEN "reset" ELSE "exited")
    /\ locked' = (command = "SEEK")
    /\ UNCHANGED <<current_frame, command, mt_seek_frame, queue, consumer, counted>>

(* sa_tpool_process_reset: drops what waits and what is decoded, waits for *)
(* what is being decoded, and drops that too.  A dropped job keeps its     *)
(* place here until the flush; it is neither counted nor taken.            *)
Dropped(j) == IF j.st = "run" THEN j ELSE [j EXCEPT !.st = "gone"]

RReset ==
    /\ At("reset")
    /\ jobs' = [i \in DOMAIN jobs |-> Dropped(jobs[i])]
    /\ RGoto("flush")
    /\ UNCHANGED <<current_frame, command, mt_seek_frame, locked, shutdown, wake_dispatch,
                   consumer, counted>>

(* Mutant: what was being decoded is not dropped. *)
RFlushKeeps ==
    /\ At("flush")
    /\ Count("run") = 0
    /\ RGoto("done")
    /\ UNCHANGED <<current_frame, command, mt_seek_frame, locked, queue, consumer, counted>>

RFlush ==
    /\ At("flush")
    /\ Count("run") = 0
    /\ jobs' = <<>>
    /\ RGoto("done")
    /\ UNCHANGED <<current_frame, command, mt_seek_frame, locked, shutdown, wake_dispatch,
                   consumer, counted>>

RSeekDone ==
    /\ At("done")
    /\ current_frame' = mt_seek_frame
    /\ command' = "SEEK_DONE"
    /\ locked' = FALSE
    /\ RGoto("loop")
    /\ UNCHANGED <<mt_seek_frame, queue, consumer, counted>>

-----------------------------------------------------------------------------
(***************************************************************************)
(* The thread using the file: sacd_vfs_file_read                           *)
(***************************************************************************)

(* A read of the audio: once the audio has ended, its rest is silence. *)
ReadCall ==
    /\ user.pc = "idle"
    /\ UGoto(IF early_eof THEN "silence" ELSE "next")
    /\ UNCHANGED <<current_frame, command, mt_seek_frame, locked, reader, queue, served,
                   counted>>

(* What is ready is copied, all of it or as much as the caller wants. *)
CopyReady ==
    /\ user.pc = "next" /\ block.ready # "none"
    /\ \/ block' = [block EXCEPT !.ready = "none"] /\ (UNCHANGED user \/ UGoto("idle"))
       \/ UNCHANGED block /\ UGoto("idle")
    /\ UNCHANGED <<current_frame, command, mt_seek_frame, locked, reader, queue, early_eof,
                   taken, counted>>

(* The sentinel ends the audio, and what fills no block is padded. *)
TakeSentinel ==
    /\ early_eof' = TRUE
    /\ block' = IF block.columns THEN [columns |-> FALSE, ready |-> "tail"] ELSE block
    /\ UNCHANGED <<user, taken, failures>>

(* A frame that was not decoded ends the audio as well. *)
TakeFailed == early_eof' = TRUE /\ UNCHANGED <<user, block, taken, failures>>

(* _transform_dsd_frame: the frame completes blocks, which a seek may skip, *)
(* and leaves a rest; or there is no memory, and the frame is lost.         *)
TakeFrame(f) ==
    /\ taken' = Append(taken, f)
    /\ \/ /\ \E c \in BOOLEAN, r \in {"none", "frame"} : block' = [columns |-> c, ready |-> r]
          /\ UNCHANGED <<user, failures>>
       \/ /\ Failure("transform")
          /\ UNCHANGED user \/ UGoto("idle")
          /\ UNCHANGED block
    /\ UNCHANGED early_eof

(* sa_tpool_next_result_wait, with nothing left to copy, and what is done   *)
(* with the result.                                                         *)
NextResult ==
    /\ user.pc = "next" /\ block.ready = "none" /\ ~early_eof
    /\ jobs # <<>> /\ Head(jobs).st = "out"
    /\ jobs' = Tail(jobs)
    /\ \/ Head(jobs).frame = Eof /\ TakeSentinel
       \/ Head(jobs).frame # Eof /\ Head(jobs).err /\ TakeFailed
       \/ Head(jobs).frame # Eof /\ ~Head(jobs).err /\ TakeFrame(Head(jobs).frame)
    /\ UNCHANGED <<current_frame, command, mt_seek_frame, locked, reader, shutdown,
                   wake_dispatch, seeks>>

(* The audio has ended before the caller has what it wants: silence. *)
EnterGap ==
    /\ user.pc = "next" /\ block.ready = "none" /\ early_eof
    /\ UGoto("silence")
    /\ UNCHANGED <<current_frame, command, mt_seek_frame, locked, reader, queue, served,
                   counted>>

GapFilled ==
    /\ user.pc = "silence"
    /\ UGoto("idle")
    /\ UNCHANGED <<current_frame, command, mt_seek_frame, locked, reader, queue, served,
                   counted>>

(***************************************************************************)
(* sacd_vfs_file_seek: the computed frame is stored in current_frame, read *)
(* back from there for the command, and the reader is woken and waited for.*)
(***************************************************************************)
SeekCall(f) ==
    /\ user.pc = "idle" /\ seeks < MaxSeeks
    /\ seeks' = seeks + 1
    /\ user' = [pc |-> "post", target |-> f]
    /\ current_frame' = f
    /\ block' = NoBlock /\ early_eof' = FALSE /\ taken' = <<>>
    /\ UNCHANGED <<command, mt_seek_frame, locked, reader, queue, failures>>

SeekPost ==
    /\ user.pc = "post" /\ ~locked
    /\ mt_seek_frame' = current_frame
    /\ command' = "SEEK"
    /\ UGoto("wake")
    /\ UNCHANGED <<current_frame, locked, reader, queue, served, counted>>

(* Mutant: the reader is not woken. *)
SeekWakeSilent ==
    /\ user.pc = "wake"
    /\ UGoto("wait")
    /\ UNCHANGED <<current_frame, command, mt_seek_frame, locked, reader, queue, served, counted>>

SeekWake ==
    /\ user.pc = "wake"
    /\ wake_dispatch' = TRUE
    /\ UGoto("wait")
    /\ UNCHANGED <<current_frame, command, mt_seek_frame, locked, reader, jobs, shutdown,
                   served, counted>>

SeekReturn ==
    /\ user.pc = "wait" /\ ~locked
    /\ command = "SEEK_DONE"
    /\ command' = "NONE"
    /\ UGoto("idle")
    /\ UNCHANGED <<current_frame, mt_seek_frame, locked, reader, queue, served, counted>>

(***************************************************************************)
(* sacd_vfs_file_close                                                     *)
(***************************************************************************)
Close ==
    /\ user.pc = "idle" /\ ~locked
    /\ command' = "CLOSE"
    /\ UGoto("shut")
    /\ UNCHANGED <<current_frame, mt_seek_frame, locked, reader, queue, served, counted>>

CloseShutdown ==
    /\ user.pc = "shut"
    /\ wake_dispatch' = TRUE /\ shutdown' = TRUE
    /\ UGoto("join")
    /\ UNCHANGED <<current_frame, command, mt_seek_frame, locked, reader, jobs, served, counted>>

(* thrd_join and sa_tpool_process_destroy *)
CloseJoin ==
    /\ user.pc = "join"
    /\ At("exited")
    /\ jobs' = <<>>
    /\ UGoto("closed")
    /\ UNCHANGED <<current_frame, command, mt_seek_frame, locked, reader, shutdown,
                   wake_dispatch, served, counted>>

-----------------------------------------------------------------------------
ReaderStep ==
    \/ RLoop \/ RCheck \/ RRead \/ RReadFails \/ RDispatch \/ RDispatchFails
    \/ RIncLoad \/ RIncStore \/ REof \/ RWait \/ RReset \/ RFlush \/ RSeekDone

UserStep ==
    \/ CopyReady \/ NextResult \/ EnterGap \/ GapFilled
    \/ SeekPost \/ SeekWake \/ SeekReturn \/ CloseShutdown \/ CloseJoin

WorkerStep == \E i \in DOMAIN jobs : StartJob(i) \/ FinishJob(i)

ReaderNext ==
    \/ ReaderStep \/ WorkerStep \/ UserStep
    \/ ReadCall \/ (\E f \in SeekFrames : SeekCall(f)) \/ Close

(* The threads are scheduled; nobody has to call read, seek or close. *)
ReaderSpec ==
    /\ ReaderInit /\ [][ReaderNext]_reader_vars
    /\ WF_reader_vars(ReaderStep) /\ WF_reader_vars(WorkerStep) /\ WF_reader_vars(UserStep)
-----------------------------------------------------------------------------
(***************************************************************************)
(* Properties                                                              *)
(***************************************************************************)

(* The types of the variables.  The unlocked increment can carry           *)
(* current_frame one frame past the end of the track, and no further.      *)
ReaderTypeOK ==
    /\ current_frame \in 0..(TrackFrames + 1) /\ mt_seek_frame \in 0..(TrackFrames + 1)
    /\ command \in {"NONE", "SEEK", "SEEK_DONE", "CLOSE"}
    /\ locked \in BOOLEAN /\ shutdown \in BOOLEAN /\ wake_dispatch \in BOOLEAN
    /\ reader \in [pc : {"loop", "check", "read", "dispatch", "load", "store", "eof", "wait",
                          "reset", "flush", "done", "exited"},
                   frame : 0..TrackFrames, reg : 0..TrackFrames]
    /\ jobs \in Seq(Job) /\ taken \in Seq(0..TrackFrames)
    /\ user \in [pc : {"idle", "next", "silence", "post", "wake", "wait", "shut", "join", "closed"},
                 target : SeekFrames \union {0}]
    /\ block \in Block
    /\ early_eof \in BOOLEAN /\ failures \in 0..MaxFailures /\ seeks \in 0..MaxSeeks

(* The state is well typed, nobody takes results from the process queue    *)
(* while it is reset (sacd_vfs.c:1703 "the main thread is not consuming    *)
(* during seek"), and                                                      *)
(* the frames the user takes after a seek are those from mt_seek_frame on, *)
(* one after the other: none that was read ahead before the seek, none     *)
(* twice, none left out, whatever the reader and the workers were doing    *)
(* when the seek came (sacd_vfs.c:1697-1716, 1763-1788, 1807-1819).        *)
ConsecutiveFrames ==
    /\ ReaderTypeOK
    /\ reader.pc \in {"reset", "flush", "done"} =>
          command = "SEEK" /\ user.pc \in {"wake", "wait"}
    /\ \A i \in DOMAIN taken : taken[i] = mt_seek_frame + i - 1

(* Unless a frame failed, the audio is taken to have ended only when every *)
(* frame has been handed out and copied to the caller, up to the padded    *)
(* last block, which alone may still wait: the sentinel comes last, and is *)
(* never left over from before a seek (sacd_vfs.c:1791-1804, 2611-2629).   *)
(* What a read that ends inside the last block leaves of it is not served: *)
(* see LastBlockServed.                                                    *)
EndsAfterLastFrame ==
    early_eof /\ failures = 0 =>
        /\ mt_seek_frame + Len(taken) >= TrackFrames
        /\ ~block.columns /\ block.ready # "frame"

(* Not true of the code: the silence at the end of a track follows all of  *)
(* its audio: sacd_vfs.c:2624 "Continue loop to consume the flushed data". *)
(* A read that ends inside the padded last block leaves its rest in the    *)
(* transform buffer, and the next read tests audio_early_eof first (2398). *)
LastBlockServed == user.pc = "silence" => block.ready = "none"

(* A seek makes the reader go on from the frame the seek computed:         *)
(* sacd_vfs.c:1363 "signal the reader thread to seek to the computed       *)
(* frame".                                                                 *)
SeekReachesFrame == user.pc = "idle" => mt_seek_frame = user.target

(* Every call comes back: a read gets a frame or the sentinel, a seek the  *)
(* reader's answer even if it was blocked on a full queue, and a close can *)
(* join the reader wherever it was.                                        *)
CallsReturn ==
    (user.pc \notin {"idle", "closed"}) ~> (user.pc \in {"idle", "closed"})
=============================================================================
