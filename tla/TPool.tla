------------------------------- MODULE TPool -------------------------------
(***************************************************************************)
(* The worker pool of libsautil (sa_tpool.c): N worker threads shared by   *)
(* the process queues attached to the pool.  A client thread dispatches    *)
(* jobs into a queue; the job gets the queue's next serial number; workers *)
(* take jobs while the queue has room for their results; results are       *)
(* handed back by serial number.                                           *)
(*                                                                         *)
(* Grain of atomicity.  One mutex (pool_m) protects everything, so a step  *)
(* is one critical section: from acquiring pool_m (or returning from       *)
(* cnd_wait, which reacquires it) to releasing it (or entering cnd_wait).  *)
(* A thread that waits on a condition variable is at the pc named for that *)
(* variable; a signal puts it in `woken', and a woken thread goes on when  *)
(* it gets the mutex back.                                                 *)
(*                                                                         *)
(* Payloads.  The `id' of a job is a ghost: it numbers the dispatch calls  *)
(* on a queue, so that properties can tell what the client sent from the   *)
(* serial number the pool attached to it.                                  *)
(***************************************************************************)
EXTENDS Integers, Sequences, FiniteSets

CONSTANTS
    N,            \* tsize, the number of worker threads
    Queues,       \* process queues that may be created
    Dispatchers,  \* client threads that dispatch, flush and reset
    Consumers,    \* client threads that take results, shut down and destroy
    QSize,        \* the qsize argument of sa_tpool_process_init
    InOnly,       \* the queues created with in_only = 1
    Modes,        \* the nonblock arguments in use: "block" (0), "try" (1), "force" (-1)
    IntMax,       \* INT_MAX, the serial no result ever has
    MaxCalls,     \* bound: dispatch calls per queue
    AllocFails,   \* whether the allocation of a result may fail
    Spurious      \* whether cnd_wait may return without a signal

Workers == 0 .. N - 1
Threads == Dispatchers \cup Consumers

ASSUME SizeAssumption == N \in Nat \ {0} /\ QSize \in Nat \ {0}
ASSUME BoundAssumption == MaxCalls \in Nat /\ IntMax \in Nat /\ MaxCalls < IntMax
ASSUME SetAssumption ==
    /\ InOnly \subseteq Queues
    /\ Modes \subseteq {"block", "try", "force"}
    /\ AllocFails \in BOOLEAN
    /\ Spurious \in BOOLEAN
    /\ Threads \cap Workers = {}
    /\ "none" \notin Queues

VARIABLES
    pq,       \* sa_tpool_process: the fields of each process queue
    ring,     \* the circular list of attached queues, from q_head on
    njobs,    \* p->njobs
    poolDown, \* p->shutdown
    wk,       \* the workers: pc, the queue and the job in hand
    th,       \* the client threads: pc, call in progress, queue, job
    woken,    \* threads and workers signalled but not yet running
    settled   \* ghost: ids handed back to the client, per queue

vars == <<pq, ring, njobs, poolDown, wk, th, woken, settled>>

Job == [serial : 0 .. MaxCalls, id : 1 .. MaxCalls]
NoJob == [serial |-> -1, id |-> 0]

\* What sa_tpool_process_init stores.  calls, base and got are ghosts: the
\* dispatch calls so far, their number at the last reset, and the ids taken
\* from the queue since then.
NewQueue(q) ==
    [mem |-> "live", input |-> <<>>, output |-> {}, nInput |-> 0,
     nProcessing |-> 0, nOutput |-> 0, next |-> 0, curr |-> 0,
     qsize |-> QSize, inOnly |-> q \in InOnly, noMore |-> FALSE,
     shut |-> 0, wake |-> FALSE, ref |-> 1,
     calls |-> 0, base |-> 0, got |-> <<>>]

Unborn(q) == [NewQueue(q) EXCEPT !.mem = "none", !.ref = 0]

Idle == [pc |-> "idle", call |-> "none", q |-> "none", job |-> NoJob]

Init ==
    /\ pq = [q \in Queues |-> Unborn(q)]
    /\ ring = <<>>
    /\ njobs = 0
    /\ poolDown = FALSE
    /\ wk = [w \in Workers |-> [pc |-> "scan", q |-> "none", job |-> NoJob]]
    /\ th = [t \in Threads |-> Idle]
    /\ woken = {}
    /\ settled = [q \in Queues |-> {}]

----------------------------------------------------------------------------
(* Condition variables.                                                    *)

\* Threads waiting on condition c of queue q, not yet signalled.
Waiters(c, q) == {t \in Threads : th[t].pc = c /\ th[t].q = q} \ woken

\* cnd_signal wakes one waiter if there is one.
Signal(c, q) == IF Waiters(c, q) = {} THEN {{}} ELSE {{t} : t \in Waiters(c, q)}

\* The four broadcasts of sa_tpool_process_shutdown_locked.
QueueConds == {"notFull", "avail", "inputEmpty", "noneProcessing"}
AllWaiters(q) == UNION {Waiters(c, q) : c \in QueueConds}

----------------------------------------------------------------------------
(* The ring of attached queues.                                            *)

Attached(s, q) == \E i \in DOMAIN s : s[i] = q

\* Make q the head of the list (p->q_head = q).  The code asserts that q is
\* attached: AssertionsHold.
RotateTo(s, q) ==
    IF Attached(s, q)
    THEN LET i == CHOOSE k \in DOMAIN s : s[k] = q
         IN  SubSeq(s, i, Len(s)) \o SubSeq(s, 1, i - 1)
    ELSE s

\* p->q_head = p->q_head->next
RotateOne(s) == IF s = <<>> THEN s ELSE Append(Tail(s), Head(s))

\* sa_tpool_process_detach_locked: the successor of q becomes the head.
Detached(s, q) == IF Attached(s, q) THEN Tail(RotateTo(s, q)) ELSE s

----------------------------------------------------------------------------
(* wake_next_worker: idle workers are those with t_stack[i] set; the one   *)
(* with the least index (t_stack_top) is signalled, if the pool has more   *)
(* jobs than busy workers and the queue has room for a result.             *)

TStack == {w \in Workers : wk[w].pc = "wait"}

\* Mutant: the worker count is compared one too high.
WakeWorkerLate(Q, jobs) ==
    IF /\ TStack # {}
       /\ jobs > N - Cardinality(TStack) + 1
       /\ Q.nProcessing < Q.qsize - Q.nOutput
    THEN {w \in TStack : \A v \in TStack : w <= v}
    ELSE {}

WakeWorker(Q, jobs) ==
    IF /\ TStack # {}
       /\ jobs > N - Cardinality(TStack)
       /\ Q.nProcessing < Q.qsize - Q.nOutput
    THEN {w \in TStack : \A v \in TStack : w <= v}
    ELSE {}

----------------------------------------------------------------------------
(* Workers.                                                                *)

\* Mutant: off by one in the room for results.
HasRoomOffByOne(Q) == Q.input # <<>> /\ Q.qsize - Q.nOutput >= Q.nProcessing

\* The inner loop's condition: a job, and room for its result.
HasRoom(Q) == Q.input # <<>> /\ Q.qsize - Q.nOutput > Q.nProcessing

Ready(Qs, q) == HasRoom(Qs[q]) /\ Qs[q].shut = 0

Taken(Q) == [Q EXCEPT !.input = Tail(Q.input), !.nInput = Q.nInput - 1,
                      !.nProcessing = Q.nProcessing + 1]

\* Mutant: nobody is told that the input list has become empty.
TakeNoEmptySignal(w, q, Qs, rg) ==
    LET Q == Qs[q] IN
    /\ wk' = [wk EXCEPT ![w] = [pc |-> "run", q |-> q, job |-> Head(Q.input)]]
    /\ pq' = [Qs EXCEPT ![q] = Taken(Q)]
    /\ ring' = rg
    /\ njobs' = njobs - 1
    /\ woken' = (woken \ {w})
                \cup (IF Q.nInput >= Q.qsize THEN Waiters("notFull", q) ELSE {})
    /\ UNCHANGED <<poolDown, th, settled>>

\* Take the first job of q and leave the critical section to run it.  Qs and
\* rg are the queues and the ring as the critical section has left them so far.
Take(w, q, Qs, rg) ==
    LET Q == Qs[q] IN
    /\ wk' = [wk EXCEPT ![w] = [pc |-> "run", q |-> q, job |-> Head(Q.input)]]
    /\ pq' = [Qs EXCEPT ![q] = Taken(Q)]
    /\ ring' = rg
    /\ njobs' = njobs - 1
    /\ \E S \in IF Q.nInput = 1 THEN Signal("inputEmpty", q) ELSE {{}} :
          woken' = (woken \ {w}) \cup S
                   \cup (IF Q.nInput >= Q.qsize THEN Waiters("notFull", q) ELSE {})
    /\ UNCHANGED <<poolDown, th, settled>>

\* The outer loop of tpool_worker, from `while (!p->shutdown)': leave, wait on
\* pending_c, or take a job of the first ready queue of the ring.
Scan(w, Qs, rg) ==
    \/ /\ \/ poolDown
          \/ \A i \in DOMAIN rg : ~ Ready(Qs, rg[i])
       /\ wk' = [wk EXCEPT ![w] = [pc |-> IF poolDown THEN "exit" ELSE "wait",
                                   q |-> "none", job |-> NoJob]]
       /\ pq' = Qs
       /\ ring' = rg
       /\ woken' = woken \ {w}
       /\ UNCHANGED <<njobs, poolDown, th, settled>>
    \/ /\ ~ poolDown
       /\ \E i \in DOMAIN rg :
             /\ Ready(Qs, rg[i])
             /\ \A k \in 1 .. i - 1 : ~ Ready(Qs, rg[k])
             /\ Take(w, rg[i], [Qs EXCEPT ![rg[i]].ref = @ + 1], rg)

WorkerStart(w) == wk[w].pc = "scan" /\ Scan(w, pq, ring)

WorkerWake(w) == wk[w].pc = "wait" /\ w \in woken /\ Scan(w, pq, ring)

\* The queue as the last holder of a reference leaves it: a destroyed queue
\* (detached and shut down already) is freed.
Unref(Q) ==
    [Q EXCEPT !.ref = Q.ref - 1,
              !.mem = IF Q.ref = 1 THEN "freed" ELSE @,
              !.noMore = IF Q.ref = 1 THEN TRUE ELSE @]

\* Back from add_result, in the inner loop.
WorkerLoop(w) ==
    LET q == wk[w].q
        more == HasRoom(pq[q])
    IN  /\ wk[w].pc = "loop"
        /\ \/ /\ more /\ poolDown     \* goto shutdown: the reference is kept
              /\ wk' = [wk EXCEPT ![w].pc = "exit"]
              /\ UNCHANGED <<pq, ring, njobs, poolDown, th, woken, settled>>
           \/ /\ more /\ ~ poolDown /\ pq[q].shut = 0
              /\ Take(w, q, pq, ring)
           \/ /\ \/ ~ more
                 \/ ~ poolDown /\ pq[q].shut # 0
              /\ Scan(w, [pq EXCEPT ![q] = Unref(pq[q])],
                      IF pq[q].ref = 1 THEN ring ELSE RotateOne(ring))

\* The queue with job j done and its result queued, unless in_only.
WithResult(Q, j) ==
    IF Q.inOnly
    THEN [Q EXCEPT !.nProcessing = Q.nProcessing - 1]
    ELSE [Q EXCEPT !.nProcessing = Q.nProcessing - 1,
                   !.output = Q.output \cup {j}, !.nOutput = Q.nOutput + 1]

\* j->func(j->arg) has returned: sa_tpool_add_result.
AddResult(w) ==
    LET q == wk[w].q
        Q == pq[q]
    IN  /\ wk[w].pc = "run"
        /\ wk' = [wk EXCEPT ![w].pc = "loop", ![w].job = NoJob]
        /\ pq' = [pq EXCEPT ![q] = WithResult(Q, wk[w].job)]
        /\ settled' = IF Q.inOnly
                      THEN [settled EXCEPT ![q] = @ \cup {wk[w].job.id}]
                      ELSE settled
        /\ \E S \in IF Q.nProcessing = 1 THEN Signal("noneProcessing", q) ELSE {{}} :
              woken' = woken \cup S
                       \cup (IF ~ Q.inOnly /\ wk[w].job.serial = Q.next
                             THEN Waiters("avail", q) ELSE {})
        /\ UNCHANGED <<ring, njobs, poolDown, th>>

\* The result cannot be allocated: add_result returns -1 after its first
\* critical section, with the queue still to be shut down.
AddResultFails(w) ==
    LET q == wk[w].q
        Q == pq[q]
    IN  /\ AllocFails
        /\ wk[w].pc = "run"
        /\ ~ Q.inOnly
        /\ wk' = [wk EXCEPT ![w].pc = "err"]
        /\ pq' = [pq EXCEPT ![q].nProcessing = @ - 1]
        /\ \E S \in IF Q.nProcessing = 1 THEN Signal("noneProcessing", q) ELSE {{}} :
              woken' = woken \cup S
        /\ UNCHANGED <<ring, njobs, poolDown, th, settled>>

\* sa_tpool_process_shutdown of the worker's own queue ...
WorkerErrQueue(w) ==
    /\ wk[w].pc = "err"
    /\ wk' = [wk EXCEPT ![w].pc = "errAll"]
    /\ pq' = [pq EXCEPT ![wk[w].q].shut = 1]
    /\ woken' = woken \cup AllWaiters(wk[w].q)
    /\ UNCHANGED <<ring, njobs, poolDown, th, settled>>

\* ... and the err label of tpool_worker: every attached queue is shut down,
\* and the thread ends, its reference and its job never given back.
WorkerErrAll(w) ==
    /\ wk[w].pc = "errAll"
    /\ wk' = [wk EXCEPT ![w].pc = "exit"]
    /\ pq' = [q \in Queues |-> IF Attached(ring, q)
                               THEN [pq[q] EXCEPT !.shut = 2] ELSE pq[q]]
    /\ woken' = woken \cup UNION {AllWaiters(ring[i]) : i \in DOMAIN ring}
    /\ UNCHANGED <<ring, njobs, poolDown, th, settled>>

----------------------------------------------------------------------------
(* Clients.  A queue has callers inside it while they are at a pc other    *)
(* than idle; the contract the callers in this repository keep is:         *)
(*   - nobody dispatches, flushes or resets while a reset or a destroy of  *)
(*     the queue is under way (the VFS reader thread, the only dispatcher  *)
(*     of its queue, is the one that resets it);                           *)
(*   - a queue is destroyed once, after its dispatchers are done with it   *)
(*     (sacd_vfs_file_close joins the reader thread first).                *)

Live(q) == pq[q].mem = "live"
Inside(q, calls) == {t \in Threads : th[t].q = q /\ th[t].call \in calls}
Resetting(q) == Inside(q, {"reset", "destroy"})
Open(q) == Live(q) /\ ~ poolDown /\ Inside(q, {"destroy"}) = {} /\ ~ pq[q].noMore

ProcessInit(t, q) ==
    /\ th[t] = Idle /\ ~ poolDown
    /\ pq[q].mem = "none"
    /\ pq' = [pq EXCEPT ![q] = NewQueue(q)]
    /\ ring' = <<q>> \o ring
    /\ UNCHANGED <<njobs, poolDown, wk, th, woken, settled>>

\* The condition under which a blocking dispatch waits.
MustWait(Q) == (Q.noMore \/ Q.nInput >= Q.qsize) /\ Q.shut = 0 /\ ~ Q.wake

Appended(Q, j, mode) ==
    [Q EXCEPT !.input = Append(Q.input, j), !.nInput = Q.nInput + 1,
              !.wake = IF mode = "block" THEN FALSE ELSE Q.wake]

\* The last part of sa_tpool_dispatch3: append the job and wake a worker, or
\* give it back to the caller.  Q is the queue so far, mode the nonblock flag.
Enqueue(t, q, Q, j, mode) ==
    /\ th' = [th EXCEPT ![t] = Idle]
    /\ IF mode = "block" /\ (Q.noMore \/ Q.shut # 0)
       THEN /\ pq' = [pq EXCEPT ![q] = Q]
            /\ settled' = [settled EXCEPT ![q] = @ \cup {j.id}]
            /\ woken' = woken \ {t}
            /\ UNCHANGED <<ring, njobs>>
       ELSE /\ pq' = [pq EXCEPT ![q] = Appended(Q, j, mode)]
            /\ njobs' = njobs + 1
            /\ ring' = IF Q.shut = 0 THEN RotateTo(ring, q) ELSE ring
            /\ woken' = (woken \ {t})
                        \cup (IF Q.shut = 0 THEN WakeWorker(Q, njobs + 1) ELSE {})
            /\ UNCHANGED settled
    /\ UNCHANGED <<poolDown, wk>>

\* A serial number is drawn.
Drawn(Q) == [Q EXCEPT !.curr = Q.curr + 1, !.calls = Q.calls + 1]

\* sa_tpool_dispatch3 up to the wait: the serial number is drawn first.
\* "block" waits on a full queue, "try" refuses (the call then changes
\* nothing), "force" ignores the limit.
Dispatch(t, q, mode) ==
    LET Q == Drawn(pq[q])
        j == [serial |-> pq[q].curr, id |-> Q.calls]
    IN  /\ th[t] = Idle
        /\ Open(q) /\ Resetting(q) = {}
        /\ pq[q].calls < MaxCalls
        /\ mode = "try" => ~ (Q.noMore \/ Q.nInput >= Q.qsize)
        /\ IF mode = "block" /\ MustWait(Q)
           THEN /\ th' = [th EXCEPT ![t] = [pc |-> "notFull", call |-> "dispatch",
                                            q |-> q, job |-> j]]
                /\ pq' = [pq EXCEPT ![q] = Q]
                /\ UNCHANGED <<ring, njobs, poolDown, wk, woken, settled>>
           ELSE Enqueue(t, q, Q, j, mode)

\* Back from cnd_wait(input_not_full_c).
DispatchWake(t) ==
    LET q == th[t].q IN
    /\ th[t].pc = "notFull" /\ t \in woken
    /\ IF MustWait(pq[q])
       THEN woken' = woken \ {t}
            /\ UNCHANGED <<pq, ring, njobs, poolDown, wk, th, settled>>
       ELSE Enqueue(t, q, pq[q], th[t].job, "block")

\* Mutant: any finished result will do.
FoundAny(Q) == Q.output

\* sa_tpool_next_result_locked when the result with the next serial is there:
\* Q is the queue so far.
Found(Q) == {r \in Q.output : r.serial = Q.next}
HasNext(Q) == Q.shut = 0 /\ Found(Q) # {}

\* The queue without result r, which the client now has.
Without(Q, r) ==
    [Q EXCEPT !.output = Q.output \ {r}, !.nOutput = Q.nOutput - 1,
              !.next = Q.next + 1, !.got = Append(Q.got, r.id)]

Deliver(t, q, Q) ==
    /\ th' = [th EXCEPT ![t] = Idle]
    /\ \E r \in Found(Q) :
          LET Q1 == Without(Q, r)
              room == Q1.nOutput < Q1.qsize
          IN  /\ pq' = [pq EXCEPT ![q] = Q1]
              /\ settled' = [settled EXCEPT ![q] = @ \cup {r.id}]
              /\ ring' = IF room THEN RotateTo(ring, q) ELSE ring
              /\ \E S \in IF room /\ Q1.nInput < Q1.qsize
                          THEN Signal("notFull", q) ELSE {{}} :
                    woken' = (woken \ {t}) \cup S
                             \cup (IF room THEN WakeWorker(Q1, njobs) ELSE {})
    /\ UNCHANGED <<njobs, poolDown, wk>>

\* sa_tpool_next_result, and the first round of sa_tpool_next_result_wait.
\* Without a result the former returns NULL and changes nothing; so does the
\* latter on a queue that is shut down.
NextResult(t, q) == th[t] = Idle /\ Open(q) /\ HasNext(pq[q]) /\ Deliver(t, q, pq[q])

\* Mutant: no reference is taken for the wait.
NextResultWaitNoRef(t, q) ==
    /\ th[t] = Idle /\ Open(q)
    /\ ~ HasNext(pq[q]) /\ pq[q].shut = 0
    /\ th' = [th EXCEPT ![t] = [pc |-> "avail", call |-> "next", q |-> q, job |-> NoJob]]
    /\ UNCHANGED <<pq, ring, njobs, poolDown, wk, woken, settled>>

NextResultWait(t, q) ==
    /\ th[t] = Idle /\ Open(q)
    /\ ~ HasNext(pq[q]) /\ pq[q].shut = 0
    /\ th' = [th EXCEPT ![t] = [pc |-> "avail", call |-> "next", q |-> q, job |-> NoJob]]
    /\ pq' = [pq EXCEPT ![q].ref = @ + 1]
    /\ UNCHANGED <<ring, njobs, poolDown, wk, woken, settled>>

\* Back from cnd_wait(output_avail_c): the reference taken for the wait is
\* dropped; a shut-down queue is left for good, and freed by the last one.
NextResultWake(t) ==
    LET q == th[t].q IN
    /\ th[t].pc = "avail" /\ t \in woken
    /\ \/ HasNext(pq[q]) /\ Deliver(t, q, [pq[q] EXCEPT !.ref = @ - 1])
       \/ /\ pq[q].shut # 0
          /\ th' = [th EXCEPT ![t] = Idle]
          /\ pq' = [pq EXCEPT ![q] = Unref(pq[q])]
          /\ woken' = woken \ {t}
          /\ UNCHANGED <<ring, njobs, poolDown, wk, settled>>
       \/ /\ ~ HasNext(pq[q]) /\ pq[q].shut = 0
          /\ woken' = woken \ {t}
          /\ UNCHANGED <<pq, ring, njobs, poolDown, wk, th, settled>>

WakeDispatch(t, q) ==
    /\ th[t] = Idle /\ Open(q)
    /\ pq' = [pq EXCEPT ![q].wake = TRUE]
    /\ \E S \in Signal("notFull", q) : woken' = woken \cup S
    /\ UNCHANGED <<ring, njobs, poolDown, wk, th, settled>>

ProcessShutdown(t, q) ==
    /\ th[t] = Idle /\ Open(q)
    /\ pq' = [pq EXCEPT ![q].shut = 1]
    /\ woken' = woken \cup AllWaiters(q)
    /\ UNCHANGED <<ring, njobs, poolDown, wk, th, settled>>

----------------------------------------------------------------------------
(* sa_tpool_process_flush, _reset and _destroy, which nest.  `call' says    *)
(* which of them the thread is in, and so what follows the flush.          *)

\* Mutant: the flush does not wait for the jobs in progress.
FlushNextNoWait(Q, call) ==
    IF Q.nInput # 0 /\ Q.shut = 0 THEN "inputEmpty"
    ELSE IF call = "flush" THEN "idle" ELSE "resetEnd"

\* Where the flush loop goes on with the queue as it is: a wait, or its end.
FlushNext(Q, call) ==
    IF Q.nInput # 0 /\ Q.shut = 0 THEN "inputEmpty"
    ELSE IF Q.nProcessing # 0 THEN "noneProcessing"
    ELSE IF call = "flush" THEN "idle" ELSE "resetEnd"

FlushTo(t, pc) ==
    th' = [th EXCEPT ![t] = IF pc = "idle" THEN Idle ELSE [@ EXCEPT !.pc = pc]]

\* Flush on its own starts with its locked part; inside a reset it comes
\* after the unlocked clean-up.
ProcessFlush(t, q) ==
    /\ th[t] = Idle /\ Open(q) /\ Resetting(q) = {}
    /\ th' = [th EXCEPT ![t] = [pc |-> "flush", call |-> "flush", q |-> q, job |-> NoJob]]
    /\ UNCHANGED <<pq, ring, njobs, poolDown, wk, woken, settled>>

\* The first critical section of the flush: wake the idle workers, make room.
FlushStart(t) ==
    LET q == th[t].q
        total == pq[q].nOutput + pq[q].nInput + pq[q].nProcessing
    IN  /\ th[t].pc = "flush"
        /\ pq' = [pq EXCEPT ![q].qsize = IF @ < total THEN total ELSE @]
        /\ woken' = woken \cup TStack
        /\ FlushTo(t, FlushNext(pq[q], th[t].call))
        /\ UNCHANGED <<ring, njobs, poolDown, wk, settled>>

\* Back from cnd_wait on input_empty_c or none_processing_c.
FlushWake(t) ==
    LET Q == pq[th[t].q] IN
    /\ th[t].pc \in {"inputEmpty", "noneProcessing"} /\ t \in woken
    /\ woken' = woken \ {t}
    /\ FlushTo(t, IF th[t].pc = "noneProcessing" /\ Q.nProcessing # 0
                  THEN "noneProcessing" ELSE FlushNext(Q, th[t].call))
    /\ UNCHANGED <<pq, ring, njobs, poolDown, wk, settled>>

\* Mutant: the reset also clears n_processing.
DiscardedProcessing(Q) ==
    [Q EXCEPT !.next = IntMax, !.input = <<>>, !.nInput = 0,
              !.output = {}, !.nOutput = 0, !.nProcessing = 0]

Discarded(Q) ==
    [Q EXCEPT !.next = IntMax, !.input = <<>>, !.nInput = 0,
              !.output = {}, !.nOutput = 0]

\* Mutant: discarded results are dropped without their clean-up.
ResetDiscardLeak(q, Q) ==
    /\ pq' = [pq EXCEPT ![q] = Discarded(Q)]
    /\ settled' = [settled EXCEPT ![q] =
                      @ \cup {Q.input[i].id : i \in DOMAIN Q.input}]

\* The first critical section of the reset: hide the queue from next_result
\* and discard what is queued.  The jobs leave p->njobs as it was.
ResetDiscard(q, Q) ==
    /\ pq' = [pq EXCEPT ![q] = Discarded(Q)]
    /\ settled' = [settled EXCEPT ![q] =
                      @ \cup {Q.input[i].id : i \in DOMAIN Q.input}
                        \cup {r.id : r \in Q.output}]

ProcessReset(t, q) ==
    /\ th[t] = Idle /\ Open(q)
    /\ Inside(q, {"dispatch", "flush", "reset"}) = {}
    /\ th' = [th EXCEPT ![t] = [pc |-> "flush", call |-> "reset", q |-> q, job |-> NoJob]]
    /\ ResetDiscard(q, pq[q])
    /\ UNCHANGED <<ring, njobs, poolDown, wk, woken>>

Restarted(Q) ==
    [Q EXCEPT !.output = {}, !.nOutput = 0, !.next = 0, !.curr = 0,
              !.base = Q.calls, !.got = <<>>]

\* The last critical section of the reset.
ResetEnd(t) ==
    LET q == th[t].q
        Q == pq[q]
    IN  /\ th[t].pc = "resetEnd"
        /\ pq' = [pq EXCEPT ![q] = Restarted(Q)]
        /\ settled' = [settled EXCEPT ![q] = @ \cup {r.id : r \in Q.output}]
        /\ th' = [th EXCEPT ![t] = IF th[t].call = "reset" THEN Idle
                                   ELSE [@ EXCEPT !.pc = "destroyEnd"]]
        /\ \E S \in Signal("notFull", q) : woken' = woken \cup S
        /\ UNCHANGED <<ring, njobs, poolDown, wk>>

ProcessDestroy(t, q) ==
    /\ th[t] = Idle /\ Open(q)
    /\ Inside(q, {"dispatch", "flush", "reset"}) = {}
    /\ pq' = [pq EXCEPT ![q].noMore = TRUE]
    /\ th' = [th EXCEPT ![t] = [pc |-> "destroy", call |-> "destroy", q |-> q, job |-> NoJob]]
    /\ UNCHANGED <<ring, njobs, poolDown, wk, woken, settled>>

DestroyReset(t) ==
    /\ th[t].pc = "destroy"
    /\ ResetDiscard(th[t].q, pq[th[t].q])
    /\ th' = [th EXCEPT ![t].pc = "flush"]
    /\ UNCHANGED <<ring, njobs, poolDown, wk, woken>>

\* Detach, shut down, drop the creator's reference; whoever drops the last
\* one frees the queue.
DestroyEnd(t) ==
    LET q == th[t].q IN
    /\ th[t].pc = "destroyEnd"
    /\ pq' = [pq EXCEPT ![q] = [Unref(pq[q]) EXCEPT !.shut = 1]]
    /\ ring' = Detached(ring, q)
    /\ th' = [th EXCEPT ![t] = Idle]
    /\ woken' = woken \cup AllWaiters(q)
    /\ UNCHANGED <<njobs, poolDown, wk, settled>>

\* sa_tpool_destroy up to the joins.  The owner calls it when no client is
\* inside the pool.
PoolDestroy(t) ==
    /\ \A u \in Threads : th[u] = Idle
    /\ ~ poolDown
    /\ poolDown' = TRUE
    /\ woken' = woken \cup TStack
    /\ UNCHANGED <<pq, ring, njobs, wk, th, settled>>

\* C11 lets cnd_wait return without a signal.
SpuriousWake(x) ==
    /\ Spurious
    /\ x \notin woken
    /\ \/ x \in Workers /\ wk[x].pc = "wait"
       \/ x \in Threads /\ th[x].pc \in QueueConds
    /\ woken' = woken \cup {x}
    /\ UNCHANGED <<pq, ring, njobs, poolDown, wk, th, settled>>

----------------------------------------------------------------------------
WorkerNext(w) ==
    \/ WorkerStart(w) \/ WorkerWake(w) \/ WorkerLoop(w) \/ AddResult(w)
    \/ AddResultFails(w) \/ WorkerErrQueue(w) \/ WorkerErrAll(w)

\* A client thread goes on with a call it is inside of.
ThreadStep(t) ==
    \/ DispatchWake(t) \/ NextResultWake(t) \/ FlushStart(t) \/ FlushWake(t)
    \/ ResetEnd(t) \/ DestroyReset(t) \/ DestroyEnd(t)

DispatcherCall(t, q) ==
    \/ \E mode \in Modes : Dispatch(t, q, mode)
    \/ ProcessFlush(t, q)
    \/ ProcessReset(t, q)

ConsumerCall(t, q) ==
    \/ ProcessInit(t, q)
    \/ NextResult(t, q) \/ NextResultWait(t, q)
    \/ WakeDispatch(t, q) \/ ProcessShutdown(t, q) \/ ProcessDestroy(t, q)

Next ==
    \/ \E w \in Workers : WorkerNext(w)
    \/ \E t \in Threads : ThreadStep(t)
    \/ \E t \in Dispatchers, q \in Queues : DispatcherCall(t, q)
    \/ \E t \in Consumers, q \in Queues : ConsumerCall(t, q)
    \/ \E t \in Consumers : PoolDestroy(t)
    \/ \E x \in Workers \cup Threads : SpuriousWake(x)

Spec == Init /\ [][Next]_vars

\* The operating system runs every worker, and every client inside a call,
\* that can run.  No client is ever forced to make a call.
Fairness ==
    /\ \A w \in Workers : WF_vars(WorkerNext(w))
    /\ \A t \in Threads : WF_vars(ThreadStep(t))

FairSpec == Spec /\ Fairness

----------------------------------------------------------------------------
(* Properties.                                                             *)

QueueType ==
    [mem : {"none", "live", "freed"}, input : Seq(Job), output : SUBSET Job,
     nInput : Nat, nProcessing : Nat, nOutput : Nat, next : Nat, curr : Nat,
     qsize : Nat, inOnly : BOOLEAN, noMore : BOOLEAN, shut : 0 .. 2,
     wake : BOOLEAN, ref : Int, calls : 0 .. MaxCalls, base : 0 .. MaxCalls,
     got : Seq(1 .. MaxCalls)]

WorkerType ==
    [pc : {"scan", "wait", "run", "loop", "err", "errAll", "exit"},
     q : Queues \cup {"none"}, job : Job \cup {NoJob}]

ThreadType ==
    [pc : {"idle", "flush", "resetEnd", "destroy", "destroyEnd"} \cup QueueConds,
     call : {"none", "dispatch", "next", "flush", "reset", "destroy"},
     q : Queues \cup {"none"}, job : Job \cup {NoJob}]

\* Every field keeps its type: in particular n_input, n_processing and
\* n_output, plain ints in the code, never go below zero.
TypeOK ==
    /\ pq \in [Queues -> QueueType]
    /\ ring \in Seq(Queues)
    /\ njobs \in Int
    /\ poolDown \in BOOLEAN
    /\ wk \in [Workers -> WorkerType]
    /\ th \in [Threads -> ThreadType]
    /\ woken \subseteq Workers \cup Threads
    /\ settled \in [Queues -> SUBSET (1 .. MaxCalls)]

Running(q) == {w \in Workers : wk[w].q = q /\ wk[w].pc = "run"}

\* A worker takes a job only when its result will fit: results waiting and
\* jobs in progress together never exceed qsize.
OutputFits ==
    \A q \in Queues : Live(q) => pq[q].nOutput + pq[q].nProcessing <= pq[q].qsize

\* Results come back in strict dispatch order (sa_tpool.h): the k-th result
\* taken since the last reset is that of the k-th job dispatched since then,
\* so nothing from before a reset is ever handed out after it.
ResultsInOrder ==
    \A q \in Queues : \A i \in DOMAIN pq[q].got : pq[q].got[i] = pq[q].base + i

\* The two assertions of the code hold whenever they can be reached.  That of
\* sa_tpool_add_result (sa_tpool.c:100), for every job still to be added: no
\* result arrives whose turn has passed, also when a reset has started the
\* serial numbers again.  That of wake_next_worker (sa_tpool.c:525): a queue
\* that is not shut down is in the ring, so it can be made its head.
AssertionsHold ==
    /\ \A w \in Workers : wk[w].pc = "run" =>
        \/ wk[w].job.serial >= pq[wk[w].q].next
        \/ pq[wk[w].q].next = IntMax
    /\ \A q \in Queues : Live(q) /\ pq[q].shut = 0 => Attached(ring, q)

\* Every payload has exactly one owner: the dispatch call that still blocks,
\* the input list, a worker, the output list, or the client, who got it as a
\* result, through a clean-up callback or back from a failed dispatch.
OwnersOf(q, id) ==
    Cardinality({t \in Threads : th[t].q = q /\ th[t].job.id = id})
    + Cardinality({i \in DOMAIN pq[q].input : pq[q].input[i].id = id})
    + Cardinality({w \in Workers : wk[w].q = q /\ wk[w].job.id = id})
    + Cardinality({r \in pq[q].output : r.id = id})
    + (IF id \in settled[q] THEN 1 ELSE 0)

OneOwner ==
    \A q \in Queues : Live(q) => \A id \in 1 .. pq[q].calls : OwnersOf(q, id) = 1

\* The reference count is exact: the creator's reference until destroy gives
\* it up, one per worker inside the queue, one per consumer waiting for a
\* result.  So a queue is freed when, and only when, nobody is inside it.
InQueue(q) == {w \in Workers : wk[w].q = q}
WaitingFor(q) == {t \in Threads : th[t].q = q /\ th[t].pc = "avail"}
Creator(q) == IF Attached(ring, q) THEN 1 ELSE 0

RefCountExact ==
    \A q \in Queues : Live(q) =>
        pq[q].ref = Creator(q) + Cardinality(InQueue(q)) + Cardinality(WaitingFor(q))

\* No worker, caller or list refers to a queue that was freed, because its
\* reference count is exact while it lives (sa_tpool.c:209-216, 333, 456-487).
NoUseAfterFree ==
    /\ RefCountExact
    /\ \A q \in Queues : ~ Live(q) =>
          InQueue(q) = {} /\ {t \in Threads : th[t].q = q} = {} /\ ~ Attached(ring, q)

----------------------------------------------------------------------------
(* The inductive invariant behind TypeOK, OutputFits and ResultsInOrder.   *)

\* A live job carries the number of its dispatch call: with serial s, it is
\* the (s+1)-st since the last reset.
Numbered(Q, j) == j.id = Q.base + j.serial + 1 /\ j.serial < Q.curr

\* What holds of the fields of one queue by themselves.
QueueInv(Q) ==
    /\ Q.nInput = Len(Q.input)
    /\ IsFiniteSet(Q.output)
    /\ Cardinality(Q.output) <= Q.nOutput
    /\ Q.nOutput + Q.nProcessing <= Q.qsize
    /\ Q.curr = Q.calls - Q.base
    /\ \A i \in DOMAIN Q.input : Numbered(Q, Q.input[i])
    /\ \A r \in Q.output : Numbered(Q, r)
    /\ Q.next # IntMax => Len(Q.got) = Q.next
    /\ \A i \in DOMAIN Q.got : Q.got[i] = Q.base + i

\* What a worker x has in hand, and where, with Qs the queues.
WorkerInv(x, Qs) ==
    /\ x.pc \in {"scan", "wait"} => x.q = "none"
    /\ x.pc \in {"run", "loop", "err", "errAll"} => x.q \in Queues
    /\ x.pc = "run" => x.job \in Job /\ Numbered(Qs[x.q], x.job)

\* Which pcs of a client thread x belong to which call.
ThreadInv(x, Qs) ==
    /\ x.pc = "idle" => x = Idle
    /\ x.pc # "idle" => x.q \in Queues /\ x.call # "none"
    /\ x.pc = "notFull" <=> x.call = "dispatch"
    /\ x.pc = "notFull" => x.job \in Job /\ Numbered(Qs[x.q], x.job)
    /\ x.pc = "avail" <=> x.call = "next"
    /\ x.pc \in {"destroy", "destroyEnd"} => x.call = "destroy"
    /\ x.pc = "resetEnd" => x.call \in {"reset", "destroy"}

\* A reset has the queue to itself, and once it has discarded the input the
\* queue stays empty; at its end no job is in progress either.
ResetInv(t) ==
    th[t].call \in {"reset", "destroy"} =>
        /\ \A u \in Threads \ {t} : th[u].q = th[t].q =>
              th[u].call \notin {"dispatch", "flush", "reset", "destroy"}
        /\ th[t].pc # "destroy" => pq[th[t].q].input = <<>>
        /\ th[t].pc = "resetEnd" => pq[th[t].q].nProcessing = 0

\* Nobody is in a queue that has not been created.
UnbornInv(q) ==
    pq[q].mem = "none" =>
        /\ pq[q] = Unborn(q)
        /\ \A w \in Workers : wk[w].q # q
        /\ \A t \in Threads : th[t].q # q
        /\ ~ Attached(ring, q)

IInv ==
    /\ TypeOK
    /\ \A q \in Queues : QueueInv(pq[q])
    /\ \A q \in Queues : pq[q].nProcessing = Cardinality(Running(q))
    /\ \A w \in Workers : WorkerInv(wk[w], pq)
    /\ \A t \in Threads : ThreadInv(th[t], pq)
    /\ \A t \in Threads : ResetInv(t)
    /\ \A q \in Queues : UnbornInv(q)

----------------------------------------------------------------------------
\* No wake-up is lost: a consumer that waits for the result of a job already
\* dispatched gets it, unless the queue is reset or shut down.
Outstanding(q) == pq[q].base + Len(pq[q].got) < pq[q].calls

ConsumerServed ==
    \A t \in Consumers, q \in Queues :
        (th[t].pc = "avail" /\ th[t].q = q /\ Outstanding(q))
            ~> (th[t].pc # "avail" \/ ~ Outstanding(q))

\* Flush, reset and destroy come to an end.
CallsReturn ==
    \A t \in Threads :
        (th[t].call \in {"flush", "reset", "destroy"}) ~> (th[t] = Idle)

=============================================================================
