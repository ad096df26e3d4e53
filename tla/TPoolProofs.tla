---------------------------- MODULE TPoolProofs ----------------------------
(***************************************************************************)
(* Proofs about the worker pool, for any number of workers, queues and     *)
(* client threads and any queue size.  Type correctness, room for results  *)
(* and results in dispatch order follow from the inductive invariant IInv. *)
(* Its first part says what each critical section does to the fields of    *)
(* the one queue it works on; the second, what it does to the ring and to  *)
(* the set of running workers; the third puts them together, one lemma per *)
(* action.  The rest of the module adds three invariants, each inductive   *)
(* relative to the ones before it: LifeInv, the life of a queue (its       *)
(* references, and who is inside it); OwnInv, the owner of every payload;  *)
(* TurnInv, from which the assertions of the code follow.                  *)
(***************************************************************************)
EXTENDS TPool, TLAPS, FiniteSetTheorems

----------------------------------------------------------------------------
(* One queue.                                                              *)

\* sa_tpool_process_init yields a well-formed, empty queue.
LEMMA NewQueueOK ==
    ASSUME NEW q \in Queues
    PROVE  NewQueue(q) \in QueueType /\ QueueInv(NewQueue(q))
<1> DEFINE Q == NewQueue(q)
<1>1. Q \in QueueType
  BY SizeAssumption, BoundAssumption DEF NewQueue, QueueType
<1>2. IsFiniteSet({}) /\ Cardinality({}) = 0
  BY FS_EmptySet
<1>3. Len(Q.input) = 0 /\ Len(Q.got) = 0 /\ DOMAIN Q.input = {} /\ DOMAIN Q.got = {}
  BY DEF NewQueue
<1> QED
  BY <1>1, <1>2, <1>3, SizeAssumption DEF QueueInv, NewQueue

\* The fields of a queue have their types.
LEMMA FieldTypes ==
    ASSUME NEW Q \in QueueType
    PROVE  /\ Q.input \in Seq(Job) /\ Q.output \in SUBSET Job
           /\ Q.nInput \in Nat /\ Q.nProcessing \in Nat /\ Q.nOutput \in Nat
           /\ Q.next \in Nat /\ Q.curr \in Nat /\ Q.qsize \in Nat
           /\ Q.calls \in 0 .. MaxCalls /\ Q.base \in 0 .. MaxCalls
           /\ Q.got \in Seq(1 .. MaxCalls) /\ Q.ref \in Int
           /\ Q.shut \in 0 .. 2 /\ Q.wake \in BOOLEAN
           /\ Q.inOnly \in BOOLEAN /\ Q.noMore \in BOOLEAN
           /\ Q.mem \in {"none", "live", "freed"}
BY DEF QueueType

\* Fields outside the invariant may change freely: references, flags, memory.
LEMMA OtherFields ==
    ASSUME NEW Q \in QueueType, NEW R \in QueueType, QueueInv(Q),
           R.input = Q.input, R.output = Q.output, R.nInput = Q.nInput,
           R.nProcessing = Q.nProcessing, R.nOutput = Q.nOutput,
           R.next = Q.next, R.curr = Q.curr, R.qsize >= Q.qsize,
           R.calls = Q.calls, R.base = Q.base, R.got = Q.got
    PROVE  QueueInv(R)
BY FieldTypes DEF QueueInv, Numbered

\* Taking the first job.
LEMMA TakenOK ==
    ASSUME NEW Q \in QueueType, QueueInv(Q), HasRoom(Q)
    PROVE  /\ Taken(Q) \in QueueType
           /\ QueueInv(Taken(Q))
           /\ Head(Q.input) \in Job
           /\ Numbered(Q, Head(Q.input))
           /\ Taken(Q).base = Q.base /\ Taken(Q).curr = Q.curr
           /\ Taken(Q).nProcessing = Q.nProcessing + 1
           /\ Taken(Q).mem = Q.mem
<1> DEFINE R == Taken(Q)
<1>1. /\ Q.input \in Seq(Job) /\ Q.input # <<>> /\ Q.nInput = Len(Q.input)
      /\ Q.nInput \in Nat /\ Q.nProcessing \in Nat /\ Q.nOutput \in Nat
      /\ Q.qsize \in Nat /\ Q.qsize - Q.nOutput > Q.nProcessing
  BY FieldTypes DEF HasRoom, QueueInv
<1>2. /\ Tail(Q.input) \in Seq(Job) /\ Len(Tail(Q.input)) = Len(Q.input) - 1
      /\ Len(Q.input) >= 1
      /\ \A i \in DOMAIN Tail(Q.input) : i + 1 \in DOMAIN Q.input /\ Tail(Q.input)[i] = Q.input[i+1]
      /\ 1 \in DOMAIN Q.input /\ Head(Q.input) = Q.input[1]
  BY <1>1
<1>3. Q.nInput - 1 \in Nat /\ Q.nProcessing + 1 \in Nat
  BY <1>1, <1>2
<1>4. R \in QueueType
  BY <1>2, <1>3, Zenon DEF Taken, QueueType
<1>5. /\ R.input = Tail(Q.input) /\ R.nInput = Q.nInput - 1
      /\ R.nProcessing = Q.nProcessing + 1 /\ R.output = Q.output
      /\ R.nOutput = Q.nOutput /\ R.qsize = Q.qsize /\ R.curr = Q.curr
      /\ R.calls = Q.calls /\ R.base = Q.base /\ R.next = Q.next
      /\ R.got = Q.got /\ R.mem = Q.mem
  BY DEF Taken, QueueType
<1> HIDE DEF R
<1>6. \A i \in DOMAIN R.input : Numbered(R, R.input[i])
  BY <1>2, <1>5 DEF QueueInv, Numbered
<1>7. \A r \in R.output : Numbered(R, r)
  BY <1>5 DEF QueueInv, Numbered
<1>8. QueueInv(R)
  BY <1>1, <1>2, <1>5, <1>6, <1>7 DEF QueueInv
<1>9. Head(Q.input) \in Job /\ Numbered(Q, Head(Q.input))
  BY <1>1, <1>2 DEF QueueInv
<1> QED
  BY <1>4, <1>5, <1>8, <1>9 DEF R

\* A job in progress is done.
LEMMA WithResultOK ==
    ASSUME NEW Q \in QueueType, QueueInv(Q), NEW j \in Job, Numbered(Q, j),
           Q.nProcessing >= 1
    PROVE  /\ WithResult(Q, j) \in QueueType
           /\ QueueInv(WithResult(Q, j))
           /\ WithResult(Q, j).base = Q.base /\ WithResult(Q, j).curr = Q.curr
           /\ WithResult(Q, j).nProcessing = Q.nProcessing - 1
           /\ WithResult(Q, j).input = Q.input
           /\ WithResult(Q, j).mem = Q.mem
<1> DEFINE R == WithResult(Q, j)
<1>1. Q.nProcessing - 1 \in Nat /\ Q.nOutput + 1 \in Nat /\ Q.output \cup {j} \in SUBSET Job
  BY FieldTypes
<1>2. R \in QueueType
  BY <1>1, Zenon DEF WithResult, QueueType
<1>3. /\ R.input = Q.input /\ R.nInput = Q.nInput
      /\ R.nProcessing = Q.nProcessing - 1 
      /\ R.qsize = Q.qsize /\ R.curr = Q.curr
      /\ R.calls = Q.calls /\ R.base = Q.base /\ R.next = Q.next
      /\ R.got = Q.got /\ R.mem = Q.mem
  BY Zenon DEF WithResult, QueueType
<1>4. \/ R.output = Q.output /\ R.nOutput = Q.nOutput
      \/ R.output = Q.output \cup {j} /\ R.nOutput = Q.nOutput + 1
  BY Zenon DEF WithResult, QueueType
<1> HIDE DEF R
<1>5. /\ IsFiniteSet(Q.output \cup {j})
      /\ Cardinality(Q.output \cup {j}) <= Cardinality(Q.output) + 1
      /\ Cardinality(Q.output) \in Nat /\ Cardinality(Q.output \cup {j}) \in Nat
  <2>1. IsFiniteSet(Q.output)
    BY DEF QueueInv
  <2>2. Cardinality(Q.output) \in Nat
    BY <2>1, FS_CardinalityType
  <2>3. /\ IsFiniteSet(Q.output \cup {j})
        /\ \/ Cardinality(Q.output \cup {j}) = Cardinality(Q.output) + 1
           \/ Cardinality(Q.output \cup {j}) = Cardinality(Q.output)
    BY <2>1, FS_AddElement
  <2> QED
    BY <2>2, <2>3
<1>6. \A r \in R.output : Numbered(R, r)
  BY <1>3, <1>4 DEF QueueInv, Numbered
<1>7. \A i \in DOMAIN R.input : Numbered(R, R.input[i])
  BY <1>3 DEF QueueInv, Numbered
<1>8. /\ IsFiniteSet(R.output) /\ Cardinality(R.output) <= R.nOutput
      /\ R.nOutput + R.nProcessing <= R.qsize
  <2>1. /\ IsFiniteSet(Q.output) /\ Cardinality(Q.output) <= Q.nOutput
        /\ Q.nOutput + Q.nProcessing <= Q.qsize
    BY DEF QueueInv
  <2>2. Q.nOutput \in Nat /\ Q.nProcessing \in Nat /\ Q.qsize \in Nat
    BY FieldTypes
  <2>3. CASE R.output = Q.output /\ R.nOutput = Q.nOutput
    BY <2>1, <2>2, <2>3, <1>3
  <2>4. CASE R.output = Q.output \cup {j} /\ R.nOutput = Q.nOutput + 1
    <3>1. Cardinality(R.output) <= R.nOutput
      BY <2>1, <2>2, <2>4, <1>5
    <3>2. R.nOutput + R.nProcessing <= R.qsize
      BY <2>1, <2>2, <2>4, <1>3
    <3> QED
      BY <3>1, <3>2, <2>4, <1>5
  <2> QED
    BY <1>4, <2>3, <2>4
<1>9. QueueInv(R)
  BY <1>3, <1>6, <1>7, <1>8 DEF QueueInv
<1> QED
  BY <1>2, <1>3, <1>9 DEF R

\* The result with the next serial is taken: it is that of the next call.
LEMMA WithoutOK ==
    ASSUME NEW Q \in QueueType, QueueInv(Q), NEW r \in Found(Q)
    PROVE  /\ Without(Q, r) \in QueueType
           /\ QueueInv(Without(Q, r))
           /\ Without(Q, r).base = Q.base /\ Without(Q, r).curr = Q.curr
           /\ Without(Q, r).nProcessing = Q.nProcessing
           /\ Without(Q, r).input = Q.input
           /\ Without(Q, r).mem = Q.mem
<1> DEFINE R == Without(Q, r)
<1>1. r \in Q.output /\ r \in Job /\ r.serial = Q.next /\ Numbered(Q, r)
  BY FieldTypes DEF Found, QueueInv
<1>2. /\ IsFiniteSet(Q.output \ {r})
      /\ Cardinality(Q.output \ {r}) = Cardinality(Q.output) - 1
      /\ Cardinality(Q.output) \in Nat /\ Cardinality(Q.output \ {r}) \in Nat
      /\ Cardinality(Q.output) <= Q.nOutput
  BY <1>1, FS_RemoveElement, FS_CardinalityType DEF QueueInv
<1>3. Q.nOutput >= 1 /\ Q.nOutput - 1 \in Nat /\ Q.nOutput \in Nat
  BY <1>2, FieldTypes
<1>4. r.id = Q.base + Q.next + 1 /\ Q.next \in Nat /\ r.id \in 1 .. MaxCalls /\ Q.next < Q.curr
  BY <1>1, FieldTypes DEF Numbered, Job
<1>5. Q.next # IntMax /\ Q.next + 1 \in Nat
  <2>1. Q.curr = Q.calls - Q.base
    BY DEF QueueInv
  <2> QED
    BY <2>1, <1>4, BoundAssumption, FieldTypes
<1>6. Len(Q.got) = Q.next /\ Q.got \in Seq(1 .. MaxCalls)
  BY <1>5, <1>4, FieldTypes DEF QueueInv
<1>7. Append(Q.got, r.id) \in Seq(1 .. MaxCalls) /\ Q.output \ {r} \in SUBSET Job
  BY <1>4, <1>6, FieldTypes
<1>8. R \in QueueType
  BY <1>3, <1>5, <1>7, Zenon DEF Without, QueueType
<1>9. /\ R.got = Append(Q.got, r.id) /\ R.next = Q.next + 1
      /\ R.output = Q.output \ {r} /\ R.nOutput = Q.nOutput - 1
      /\ R.input = Q.input /\ R.nInput = Q.nInput
      /\ R.nProcessing = Q.nProcessing /\ R.qsize = Q.qsize
      /\ R.curr = Q.curr /\ R.calls = Q.calls /\ R.base = Q.base /\ R.mem = Q.mem
  BY Zenon DEF Without, QueueType
<1> HIDE DEF R
<1>10. \A i \in DOMAIN R.got : R.got[i] = R.base + i
  <2>1. \A i \in DOMAIN Q.got : Q.got[i] = Q.base + i
    BY DEF QueueInv
  <2>2. \A i \in 1 .. Len(Q.got) + 1 : Append(Q.got, r.id)[i] = IF i = Len(Q.got) + 1 THEN r.id ELSE Q.got[i]
    BY <1>6, <1>4
  <2>3. DOMAIN Append(Q.got, r.id) = 1 .. Len(Q.got) + 1 /\ DOMAIN Q.got = 1 .. Len(Q.got)
    BY <1>6, <1>4
  <2>4. SUFFICES ASSUME NEW i \in 1 .. Len(Q.got) + 1
                 PROVE  Append(Q.got, r.id)[i] = Q.base + i
    BY <2>3, <1>9
  <2>5. CASE i = Len(Q.got) + 1
    BY <2>2, <2>5, <1>4, <1>6, FieldTypes, SMTT(40)
  <2>6. CASE i # Len(Q.got) + 1
    <3>1. i \in 1 .. Len(Q.got)
      BY <2>6, <1>6
    <3> QED
      BY <3>1, <2>1, <2>2, <2>3, <2>6
  <2> QED
    BY <2>5, <2>6
<1>11. Len(R.got) = R.next
  BY <1>4, <1>6, <1>9
<1>12. \A x \in R.output : Numbered(R, x)
  BY <1>9 DEF QueueInv, Numbered
<1>13. \A i \in DOMAIN R.input : Numbered(R, R.input[i])
  BY <1>9 DEF QueueInv, Numbered
<1>14. R.nOutput + R.nProcessing <= R.qsize /\ Cardinality(R.output) <= R.nOutput
  <2>1. Q.nOutput + Q.nProcessing <= Q.qsize
    BY DEF QueueInv
  <2>2. Q.nOutput \in Nat /\ Q.nProcessing \in Nat /\ Q.qsize \in Nat
    BY FieldTypes
  <2> QED
    BY <2>1, <2>2, <1>2, <1>9
<1>15. QueueInv(R)
  BY <1>2, <1>9, <1>10, <1>11, <1>12, <1>13, <1>14 DEF QueueInv
<1> QED
  BY <1>8, <1>9, <1>15 DEF R
\* A job is appended.
LEMMA AppendedOK ==
    ASSUME NEW Q \in QueueType, QueueInv(Q), NEW j \in Job, Numbered(Q, j), NEW mode
    PROVE  /\ Appended(Q, j, mode) \in QueueType
           /\ QueueInv(Appended(Q, j, mode))
           /\ Appended(Q, j, mode).base = Q.base /\ Appended(Q, j, mode).curr = Q.curr
           /\ Appended(Q, j, mode).nProcessing = Q.nProcessing
           /\ Appended(Q, j, mode).mem = Q.mem
<1> DEFINE R == Appended(Q, j, mode)
           s == Append(Q.input, j)
<1>1. Q.input \in Seq(Job) /\ Q.nInput \in Nat /\ Q.nInput = Len(Q.input)
  BY FieldTypes DEF QueueInv
<1>2. /\ s \in Seq(Job) /\ Len(s) = Len(Q.input) + 1
      /\ \A i \in DOMAIN s : (i \in DOMAIN Q.input /\ s[i] = Q.input[i]) \/ s[i] = j
  BY <1>1
<1>3. (IF mode = "block" THEN FALSE ELSE Q.wake) \in BOOLEAN
  BY Zenon, FieldTypes
<1>4. Q.nInput + 1 \in Nat
  BY <1>1
<1>5. R \in QueueType
  BY <1>2, <1>3, <1>4, Zenon DEF Appended, QueueType
<1>6. /\ R.input = s /\ R.nInput = Q.nInput + 1 /\ R.output = Q.output
      /\ R.nOutput = Q.nOutput /\ R.nProcessing = Q.nProcessing
      /\ R.qsize = Q.qsize /\ R.curr = Q.curr /\ R.calls = Q.calls
      /\ R.base = Q.base /\ R.next = Q.next /\ R.got = Q.got /\ R.mem = Q.mem
  BY Zenon DEF Appended, QueueType
<1> HIDE DEF R, s
<1>7. \A i \in DOMAIN R.input : Numbered(R, R.input[i])
  BY <1>2, <1>6 DEF QueueInv, Numbered
<1>8. \A r \in R.output : Numbered(R, r)
  BY <1>6 DEF QueueInv, Numbered
<1>9. QueueInv(R)
  BY <1>1, <1>2, <1>6, <1>7, <1>8 DEF QueueInv
<1> QED
  BY <1>5, <1>6, <1>9 DEF R

\* A dispatch call draws a serial number.
LEMMA DrawnOK ==
    ASSUME NEW Q \in QueueType, QueueInv(Q), Q.calls < MaxCalls
    PROVE  /\ Drawn(Q) \in QueueType /\ QueueInv(Drawn(Q))
           /\ [serial |-> Q.curr, id |-> Drawn(Q).calls] \in Job
           /\ Numbered(Drawn(Q), [serial |-> Q.curr, id |-> Drawn(Q).calls])
           /\ Drawn(Q).base = Q.base /\ Drawn(Q).curr = Q.curr + 1
           /\ Drawn(Q).nProcessing = Q.nProcessing
           /\ Drawn(Q).input = Q.input /\ Drawn(Q).mem = Q.mem
<1> DEFINE R == Drawn(Q)
<1>1. /\ Q.curr = Q.calls - Q.base /\ Q.calls \in 0 .. MaxCalls
      /\ Q.base \in 0 .. MaxCalls /\ Q.curr \in Nat /\ Q.calls < MaxCalls
  BY FieldTypes DEF QueueInv
<1>2. Q.curr + 1 \in Nat /\ Q.calls + 1 \in 0 .. MaxCalls
  BY <1>1, BoundAssumption
<1>3. R \in QueueType
  BY <1>2, Zenon DEF Drawn, QueueType
<1>4. /\ R.input = Q.input /\ R.nInput = Q.nInput /\ R.output = Q.output
      /\ R.nOutput = Q.nOutput /\ R.nProcessing = Q.nProcessing
      /\ R.qsize = Q.qsize /\ R.curr = Q.curr + 1 /\ R.calls = Q.calls + 1
      /\ R.base = Q.base /\ R.next = Q.next /\ R.got = Q.got /\ R.mem = Q.mem
  BY Zenon DEF Drawn, QueueType
<1> HIDE DEF R
<1>5. \A j \in Job : Numbered(Q, j) => Numbered(R, j)
  BY <1>1, <1>4 DEF Numbered, Job
<1>6. \A i \in DOMAIN R.input : Numbered(R, R.input[i])
  BY <1>4, <1>5, FieldTypes DEF QueueInv
<1>7. \A r \in R.output : Numbered(R, r)
  BY <1>4, <1>5, FieldTypes DEF QueueInv
<1>8. R.curr = R.calls - R.base
  BY <1>1, <1>4
<1>9. QueueInv(R)
  BY <1>4, <1>6, <1>7, <1>8 DEF QueueInv
<1>10. [serial |-> Q.curr, id |-> R.calls] \in Job
  BY <1>1, <1>4, BoundAssumption DEF Job
<1>11. Numbered(R, [serial |-> Q.curr, id |-> R.calls])
  BY <1>1, <1>4 DEF Numbered
<1> QED
  BY <1>3, <1>4, <1>9, <1>10, <1>11 DEF R

\* The reset discards what is queued ...
LEMMA DiscardedOK ==
    ASSUME NEW Q \in QueueType, QueueInv(Q)
    PROVE  /\ Discarded(Q) \in QueueType
           /\ QueueInv(Discarded(Q))
           /\ Discarded(Q).base = Q.base /\ Discarded(Q).curr = Q.curr
           /\ Discarded(Q).nProcessing = Q.nProcessing
           /\ Discarded(Q).input = <<>>
           /\ Discarded(Q).mem = Q.mem
<1> DEFINE R == Discarded(Q)
<1>1. IntMax \in Nat /\ 0 \in Nat /\ {} \in SUBSET Job /\ <<>> \in Seq(Job)
  BY BoundAssumption
<1>2. R \in QueueType
  BY <1>1, Zenon DEF Discarded, QueueType
<1>3. /\ R.input = <<>> /\ R.nInput = 0 /\ R.output = {}
      /\ R.nOutput = 0 /\ R.nProcessing = Q.nProcessing
      /\ R.qsize = Q.qsize /\ R.curr = Q.curr /\ R.calls = Q.calls
      /\ R.base = Q.base /\ R.next = IntMax /\ R.got = Q.got /\ R.mem = Q.mem
  BY Zenon DEF Discarded, QueueType
<1> HIDE DEF R
<1>4. IsFiniteSet({}) /\ Cardinality({}) = 0
  BY FS_EmptySet
<1>5. Q.nProcessing <= Q.qsize /\ Q.nProcessing \in Nat
  BY FieldTypes DEF QueueInv
<1>6. QueueInv(R)
  BY <1>3, <1>4, <1>5 DEF QueueInv
<1> QED
  BY <1>2, <1>3, <1>6 DEF R

\* ... and starts the numbering again.
LEMMA RestartedOK ==
    ASSUME NEW Q \in QueueType, QueueInv(Q), Q.input = <<>>
    PROVE  /\ Restarted(Q) \in QueueType
           /\ QueueInv(Restarted(Q))
           /\ Restarted(Q).nProcessing = Q.nProcessing
           /\ Restarted(Q).input = <<>>
           /\ Restarted(Q).mem = Q.mem
<1> DEFINE R == Restarted(Q)
<1>1. 0 \in Nat /\ {} \in SUBSET Job /\ <<>> \in Seq(1 .. MaxCalls) /\ Q.calls \in 0 .. MaxCalls
  BY FieldTypes
<1>2. R \in QueueType
  BY <1>1, Zenon DEF Restarted, QueueType
<1>3. /\ R.input = <<>> /\ R.nInput = Q.nInput /\ R.output = {}
      /\ R.nOutput = 0 /\ R.nProcessing = Q.nProcessing
      /\ R.qsize = Q.qsize /\ R.curr = 0 /\ R.calls = Q.calls
      /\ R.base = Q.calls /\ R.next = 0 /\ R.got = <<>> /\ R.mem = Q.mem
  BY Zenon DEF Restarted, QueueType
<1> HIDE DEF R
<1>4. IsFiniteSet({}) /\ Cardinality({}) = 0
  BY FS_EmptySet
<1>5. Q.nProcessing <= Q.qsize /\ Q.nProcessing \in Nat /\ Q.nInput = 0
  <2>1. Q.nOutput + Q.nProcessing <= Q.qsize /\ Q.nInput = Len(Q.input)
    BY DEF QueueInv
  <2>2. Q.nOutput \in Nat /\ Q.nProcessing \in Nat /\ Q.qsize \in Nat
    BY FieldTypes
  <2>3. Len(<<>>) = 0
    OBVIOUS
  <2> QED
    BY <2>1, <2>2, <2>3
<1>6. R.curr = R.calls - R.base
  BY <1>1, <1>3
<1>7. QueueInv(R)
  BY <1>3, <1>4, <1>5, <1>6 DEF QueueInv
<1> QED
  BY <1>2, <1>3, <1>7 DEF R
----------------------------------------------------------------------------
(* The ring and the running workers.                                       *)

\* Moving the head keeps the attached queues ...
LEMMA RotateToOK ==
    ASSUME NEW s \in Seq(Queues), NEW q
    PROVE  /\ RotateTo(s, q) \in Seq(Queues) /\ Len(RotateTo(s, q)) = Len(s)
           /\ \A p : Attached(RotateTo(s, q), p) => Attached(s, p)
<1>1. CASE ~ Attached(s, q)
  BY <1>1 DEF RotateTo
<1>2. CASE Attached(s, q)
  <2> DEFINE i == CHOOSE k \in DOMAIN s : s[k] = q
             a == SubSeq(s, i, Len(s))
             b == SubSeq(s, 1, i - 1)
  <2>1. i \in 1 .. Len(s) /\ Len(s) \in Nat
    BY <1>2 DEF Attached
  <2>2. RotateTo(s, q) = a \o b
    BY <1>2 DEF RotateTo
  <2> HIDE DEF i
  <2>3. /\ a \in Seq(Queues) /\ Len(a) = Len(s) - i + 1
        /\ \A k \in 1 .. Len(a) : a[k] = s[i + k - 1]
    BY <2>1
  <2>4. /\ b \in Seq(Queues) /\ Len(b) = i - 1
        /\ \A k \in 1 .. Len(b) : b[k] = s[k]
    BY <2>1
  <2> HIDE DEF a, b
  <2>5. /\ a \o b \in Seq(Queues) /\ Len(a \o b) = Len(s)
        /\ \A k \in 1 .. Len(s) : (a \o b)[k] = IF k <= Len(a) THEN a[k] ELSE b[k - Len(a)]
    BY <2>1, <2>3, <2>4
  <2>6. \A k \in 1 .. Len(s) : \E m \in 1 .. Len(s) : (a \o b)[k] = s[m]
    <3>1. SUFFICES ASSUME NEW k \in 1 .. Len(s)
                   PROVE  \E m \in 1 .. Len(s) : (a \o b)[k] = s[m]
      OBVIOUS
    <3>2. CASE k <= Len(a)
      <4>1. (a \o b)[k] = s[i + k - 1] /\ i + k - 1 \in 1 .. Len(s)
        BY <3>2, <2>1, <2>3, <2>5
      <4> QED
        BY <4>1
    <3>3. CASE ~ (k <= Len(a))
      <4>1. (a \o b)[k] = s[k - Len(a)] /\ k - Len(a) \in 1 .. Len(s)
        BY <3>3, <2>1, <2>3, <2>4, <2>5
      <4> QED
        BY <4>1
    <3> QED
      BY <3>2, <3>3
  <2>7. DOMAIN (a \o b) = 1 .. Len(s) /\ DOMAIN s = 1 .. Len(s)
    BY <2>5
  <2> QED
    BY <2>2, <2>5, <2>6, <2>7, ZenonT(60) DEF Attached
<1> QED
  BY <1>1, <1>2

LEMMA RotateOneOK ==
    ASSUME NEW s \in Seq(Queues)
    PROVE  /\ RotateOne(s) \in Seq(Queues)
           /\ \A p : Attached(RotateOne(s), p) => Attached(s, p)
BY DEF RotateOne, Attached

LEMMA DetachedOK ==
    ASSUME NEW s \in Seq(Queues), NEW q
    PROVE  /\ Detached(s, q) \in Seq(Queues)
           /\ \A p : Attached(Detached(s, q), p) => Attached(s, p)
<1>1. CASE ~ Attached(s, q)
  BY <1>1 DEF Detached
<1>2. CASE Attached(s, q)
  <2> DEFINE r == RotateTo(s, q)
  <2>1. r \in Seq(Queues) /\ Len(r) = Len(s) /\ \A p : Attached(r, p) => Attached(s, p)
    BY RotateToOK
  <2>2. Detached(s, q) = Tail(r)
    BY <1>2 DEF Detached
  <2> HIDE DEF r
  <2>3. r # <<>>
    BY <1>2, <2>1 DEF Attached
  <2>4. Tail(r) \in Seq(Queues) /\ \A p : Attached(Tail(r), p) => Attached(r, p)
    BY <2>1, <2>3 DEF Attached
  <2> QED
    BY <2>1, <2>2, <2>4
<1> QED
  BY <1>1, <1>2

\* The sets of running workers are finite.
LEMMA RunningFinite ==
    ASSUME NEW q
    PROVE  IsFiniteSet(Running(q)) /\ Cardinality(Running(q)) \in Nat
<1>1. IsFiniteSet(Workers)
  BY FS_Interval, SizeAssumption DEF Workers
<1>2. Running(q) \subseteq Workers
  BY DEF Running
<1> QED
  BY <1>1, <1>2, FS_Subset, FS_CardinalityType

\* A worker starts to run a job of q ...
LEMMA RunningAdd ==
    ASSUME wk \in [Workers -> WorkerType], NEW w \in Workers, NEW q, NEW j,
           wk[w].pc # "run",
           wk' = [wk EXCEPT ![w] = [pc |-> "run", q |-> q, job |-> j]]
    PROVE  /\ Cardinality(Running(q)') = Cardinality(Running(q)) + 1
           /\ \A p : p # q => Running(p)' = Running(p)
<1>1. Running(q)' = Running(q) \cup {w}
  BY DEF Running
<1>2. w \notin Running(q)
  BY DEF Running
<1>3. \A p : p # q => Running(p)' = Running(p)
  BY DEF Running
<1> QED
  BY <1>1, <1>2, <1>3, RunningFinite, FS_AddElement, SMTT(40)

\* ... is done with it ...
LEMMA RunningRemove ==
    ASSUME wk \in [Workers -> WorkerType], NEW w \in Workers, NEW x \in WorkerType,
           NEW q, wk[w].q = q,
           wk[w].pc = "run", x.pc # "run", wk' = [wk EXCEPT ![w] = x]
    PROVE  /\ Cardinality(Running(q)') = Cardinality(Running(q)) - 1
           /\ Cardinality(Running(q)) >= 1
           /\ \A p : p # q => Running(p)' = Running(p)
<1>1. Running(q)' = Running(q) \ {w}
  BY DEF Running
<1>2. w \in Running(q)
  BY DEF Running
<1>3. \A p : p # q => Running(p)' = Running(p)
  BY DEF Running
<1>4. IsFiniteSet(Running(q)) /\ Cardinality(Running(q)) \in Nat
  BY RunningFinite
<1>5. /\ Cardinality(Running(q) \ {w}) = Cardinality(Running(q)) - 1
      /\ Cardinality(Running(q) \ {w}) \in Nat
  BY <1>2, <1>4, FS_RemoveElement, FS_CardinalityType
<1> QED
  BY <1>1, <1>3, <1>4, <1>5

\* ... or does something else.
LEMMA RunningSame ==
    ASSUME wk \in [Workers -> WorkerType], NEW w \in Workers, NEW x \in WorkerType,
           wk[w].pc # "run", x.pc # "run", wk' = [wk EXCEPT ![w] = x]
    PROVE  \A p : Running(p)' = Running(p)
BY DEF Running
----------------------------------------------------------------------------
(* What is left to show of a step of a worker, and of a client thread.     *)

\* A job keeps its number while the queue's numbering goes on.
LEMMA NumberedKept ==
    ASSUME NEW Q \in QueueType, NEW R \in QueueType, NEW j \in Job,
           R.base = Q.base, R.curr >= Q.curr, Numbered(Q, j)
    PROVE  Numbered(R, j)
<1>1. Q.curr \in Nat /\ R.curr \in Nat /\ j.serial \in Nat
  BY FieldTypes, BoundAssumption DEF Job
<1> QED
  BY <1>1 DEF Numbered

LEMMA WorkersKept ==
    ASSUME NEW Qs \in [Queues -> QueueType], NEW Rs \in [Queues -> QueueType],
           NEW q \in Queues \cup {"none"},
           q \in Queues => Rs[q].base = Qs[q].base /\ Rs[q].curr >= Qs[q].curr
    PROVE  /\ \A x \in WorkerType : x.q = q /\ WorkerInv(x, Qs) => WorkerInv(x, Rs)
           /\ \A x \in ThreadType : x.q = q /\ ThreadInv(x, Qs) => ThreadInv(x, Rs)
<1>1. q \in Queues => \A j \in Job : Numbered(Qs[q], j) => Numbered(Rs[q], j)
  BY NumberedKept
<1>2. \A x \in WorkerType : x.q = q /\ WorkerInv(x, Qs) => WorkerInv(x, Rs)
  BY <1>1 DEF WorkerInv
<1>3. \A x \in ThreadType : x.q = q /\ ThreadInv(x, Qs) => ThreadInv(x, Rs)
  BY <1>1 DEF ThreadInv
<1> QED
  BY <1>2, <1>3

\* The variables besides the queues, the workers and the threads.
Rest ==
    /\ ring' \in Seq(Queues)
    /\ njobs' \in Int
    /\ poolDown' \in BOOLEAN
    /\ woken' \subseteq Workers \cup Threads
    /\ settled' \in [Queues -> SUBSET (1 .. MaxCalls)]

LEMMA WorkerStep ==
    ASSUME IInv, NEW w \in Workers, NEW x \in WorkerType,
           wk' = [wk EXCEPT ![w] = x], th' = th, Rest,
           pq' \in [Queues -> QueueType],
           \A p \in Queues : QueueInv(pq'[p]),
           \A p \in Queues : pq'[p].base = pq[p].base /\ pq'[p].curr = pq[p].curr,
           \A p \in Queues : pq'[p].mem = "none" => pq'[p] = pq[p],
           \A p \in Queues : pq'[p].nProcessing = Cardinality(Running(p)'),
           WorkerInv(x, pq'), x.q \in Queues => pq'[x.q].mem # "none",
           \A t \in Threads : ResetInv(t)',
           \A p \in Queues : Attached(ring', p) => Attached(ring, p)
    PROVE  IInv'
<1>1. pq \in [Queues -> QueueType] /\ wk \in [Workers -> WorkerType] /\ th \in [Threads -> ThreadType]
  BY DEF IInv, TypeOK
<1>2. TypeOK'
  BY <1>1 DEF TypeOK, Rest
<1>3. \A p \in Queues : pq'[p].curr >= pq[p].curr
  BY <1>1, FieldTypes
<1>4. \A v \in Workers : WorkerInv(wk'[v], pq')
  <2>1. SUFFICES ASSUME NEW v \in Workers, v # w PROVE WorkerInv(wk'[v], pq')
    BY <1>1
  <2>2. wk'[v] = wk[v] /\ wk[v] \in WorkerType /\ WorkerInv(wk[v], pq)
    BY <1>1, <2>1 DEF IInv
  <2>3. wk[v].q \in Queues \cup {"none"}
    BY <2>2 DEF WorkerType
  <2> QED
    BY <2>2, <2>3, <1>1, <1>3, WorkersKept
<1>5. \A t \in Threads : ThreadInv(th'[t], pq')
  <2>1. SUFFICES ASSUME NEW t \in Threads PROVE ThreadInv(th'[t], pq')
    OBVIOUS
  <2>2. th'[t] = th[t] /\ th[t] \in ThreadType /\ ThreadInv(th[t], pq)
    BY <1>1 DEF IInv
  <2>3. th[t].q \in Queues \cup {"none"}
    BY <2>2 DEF ThreadType
  <2> QED
    BY <2>2, <2>3, <1>1, <1>3, WorkersKept
<1>6. \A q \in Queues : UnbornInv(q)'
  <2>1. SUFFICES ASSUME NEW q \in Queues, pq'[q].mem = "none"
                 PROVE  /\ pq'[q] = Unborn(q)
                        /\ \A v \in Workers : wk'[v].q # q
                        /\ \A t \in Threads : th'[t].q # q
                        /\ ~ Attached(ring', q)
    BY Zenon DEF UnbornInv
  <2>2. /\ pq'[q] = pq[q] /\ pq[q] = Unborn(q)
        /\ \A v \in Workers : wk[v].q # q
        /\ \A t \in Threads : th[t].q # q
        /\ ~ Attached(ring, q)
    BY <2>1 DEF IInv, UnbornInv
  <2> QED
    BY <2>1, <2>2, <1>1
<1> QED
  BY <1>2, <1>4, <1>5, <1>6 DEF IInv

\* Nobody but t has a job of q in hand.
NoneNumbered(t, q) ==
    /\ Running(q) = {}
    /\ \A u \in Threads \ {t} : th[u].q = q => th[u].pc # "notFull"

LEMMA ClientStep ==
    ASSUME IInv, NEW t \in Threads, NEW x \in ThreadType,
           th' = [th EXCEPT ![t] = x], wk' = wk, Rest,
           NEW q \in Queues, NEW R \in QueueType, QueueInv(R),
           pq' = [pq EXCEPT ![q] = R],
           \/ R.base = pq[q].base /\ R.curr >= pq[q].curr
           \/ NoneNumbered(t, q),
           R.nProcessing = pq[q].nProcessing, R.mem # "none",
           ThreadInv(x, pq'), x.q \in {q, "none"},
           \A u \in Threads : ResetInv(u)',
           \A p \in Queues : Attached(ring', p) => p = q \/ Attached(ring, p)
    PROVE  IInv'
<1>1. pq \in [Queues -> QueueType] /\ wk \in [Workers -> WorkerType] /\ th \in [Threads -> ThreadType]
  BY DEF IInv, TypeOK
<1>2. TypeOK'
  BY <1>1 DEF TypeOK, Rest
<1>3. pq' \in [Queues -> QueueType] /\ pq'[q] = R /\ \A p \in Queues : p # q => pq'[p] = pq[p]
  BY <1>1
<1>4. \A p \in Queues : p # q \/ ~ NoneNumbered(t, q) =>
         pq'[p].base = pq[p].base /\ pq'[p].curr >= pq[p].curr
  BY <1>1, <1>3, FieldTypes
<1>5. \A p \in Queues : QueueInv(pq'[p])
  BY <1>3 DEF IInv
<1>6. \A v \in Workers : WorkerInv(wk'[v], pq')
  <2>1. SUFFICES ASSUME NEW v \in Workers PROVE WorkerInv(wk'[v], pq')
    OBVIOUS
  <2>2. wk'[v] = wk[v] /\ wk[v] \in WorkerType /\ WorkerInv(wk[v], pq)
    BY <1>1 DEF IInv
  <2>3. wk[v].q \in Queues \cup {"none"}
    BY <2>2 DEF WorkerType
  <2>4. CASE wk[v].q # q \/ ~ NoneNumbered(t, q)
    BY <2>2, <2>3, <2>4, <1>1, <1>3, <1>4, WorkersKept
  <2>5. CASE wk[v].q = q /\ NoneNumbered(t, q)
    <3>1. wk[v].pc # "run"
      BY <2>5 DEF NoneNumbered, Running
    <3> QED
      BY <2>2, <3>1 DEF WorkerInv
  <2> QED
    BY <2>4, <2>5
<1>7. \A u \in Threads : ThreadInv(th'[u], pq')
  <2>1. SUFFICES ASSUME NEW u \in Threads, u # t PROVE ThreadInv(th'[u], pq')
    BY <1>1
  <2>2. th'[u] = th[u] /\ th[u] \in ThreadType /\ ThreadInv(th[u], pq)
    BY <1>1, <2>1 DEF IInv
  <2>3. th[u].q \in Queues \cup {"none"}
    BY <2>2 DEF ThreadType
  <2>4. CASE th[u].q # q \/ ~ NoneNumbered(t, q)
    BY <2>2, <2>3, <2>4, <1>1, <1>3, <1>4, WorkersKept
  <2>5. CASE th[u].q = q /\ NoneNumbered(t, q)
    <3>1. th[u].pc # "notFull"
      BY <2>1, <2>5 DEF NoneNumbered
    <3> QED
      BY <2>2, <3>1 DEF ThreadInv
  <2> QED
    BY <2>4, <2>5
<1>8. \A p \in Queues : pq'[p].nProcessing = Cardinality(Running(p)')
  <2>1. \A p \in Queues : Running(p)' = Running(p)
    BY DEF Running
  <2>2. \A p \in Queues : pq'[p].nProcessing = pq[p].nProcessing
    BY <1>3
  <2> QED
    BY <2>1, <2>2 DEF IInv
<1>9. \A p \in Queues : UnbornInv(p)'
  <2>1. SUFFICES ASSUME NEW p \in Queues, pq'[p].mem = "none"
                 PROVE  /\ pq'[p] = Unborn(p)
                        /\ \A v \in Workers : wk'[v].q # p
                        /\ \A u \in Threads : th'[u].q # p
                        /\ ~ Attached(ring', p)
    BY Zenon DEF UnbornInv
  <2>2. p # q /\ pq[p].mem = "none" /\ pq'[p] = pq[p]
    BY <2>1, <1>3
  <2>3. /\ pq[p] = Unborn(p)
        /\ \A v \in Workers : wk[v].q # p
        /\ \A u \in Threads : th[u].q # p
        /\ ~ Attached(ring, p)
    BY <2>2 DEF IInv, UnbornInv
  <2>4. x.q # p
    BY <2>2, SetAssumption
  <2> QED
    BY <2>2, <2>3, <2>4, <1>1
<1> QED
  BY <1>2, <1>5, <1>6, <1>7, <1>8, <1>9 DEF IInv
\* Only threads and workers are ever signalled.
LEMMA SignalsOK ==
    /\ \A c, q : Waiters(c, q) \subseteq Threads
    /\ \A c, q : \A S \in Signal(c, q) : S \subseteq Threads
    /\ \A q : AllWaiters(q) \subseteq Threads
    /\ TStack \subseteq Workers
    /\ \A Q, n : WakeWorker(Q, n) \subseteq Workers
<1>1. \A c, q : Waiters(c, q) \subseteq Threads
  BY DEF Waiters
<1>2. \A c, q : \A S \in Signal(c, q) : S \subseteq Threads
  BY <1>1 DEF Signal
<1>3. \A q : AllWaiters(q) \subseteq Threads
  BY <1>1 DEF AllWaiters
<1>4. TStack \subseteq Workers
  BY DEF TStack
<1>5. \A Q, n : WakeWorker(Q, n) \subseteq Workers
  BY <1>4 DEF WakeWorker
<1> QED
  BY <1>1, <1>2, <1>3, <1>4, <1>5

\* A step of somebody else does not disturb a reset: what is empty stays empty.
LEMMA ResetKept ==
    ASSUME IInv, th' = th,
           \A p \in Queues : pq[p].input = <<>> =>
               /\ pq'[p].input = <<>>
               /\ pq[p].nProcessing = 0 => pq'[p].nProcessing = 0
    PROVE  \A t \in Threads : ResetInv(t)'
<1>1. SUFFICES ASSUME NEW t \in Threads PROVE ResetInv(t)'
  OBVIOUS
<1>2. ResetInv(t) /\ ThreadInv(th[t], pq)
  BY DEF IInv
<1>3. th[t].call \in {"reset", "destroy"} => th[t].q \in Queues
  BY <1>2 DEF ThreadInv, Idle
<1> QED
  BY <1>2, <1>3 DEF ResetInv

\* The queues inside a worker's critical section: those of the last step, but
\* for references dropped and taken.
SameJobs(Qs) ==
    /\ Qs \in [Queues -> QueueType]
    /\ \A p \in Queues :
          /\ QueueInv(Qs[p])
          /\ Qs[p].base = pq[p].base /\ Qs[p].curr = pq[p].curr
          /\ Qs[p].input = pq[p].input /\ Qs[p].nProcessing = pq[p].nProcessing
          /\ Qs[p].mem = "none" => Qs[p] = pq[p]

LEMMA TakeOK ==
    ASSUME IInv, NEW w \in Workers, wk[w].pc # "run", NEW q \in Queues,
           NEW Qs, SameJobs(Qs), HasRoom(Qs[q]), Qs[q].mem # "none",
           NEW rg \in Seq(Queues), \A p \in Queues : Attached(rg, p) => Attached(ring, p),
           Take(w, q, Qs, rg)
    PROVE  IInv'
<1> DEFINE Q == Qs[q]
           x == [pc |-> "run", q |-> q, job |-> Head(Q.input)]
<1>1. wk \in [Workers -> WorkerType] /\ Q \in QueueType /\ QueueInv(Q)
  BY DEF IInv, TypeOK, SameJobs
<1>2. wk' = [wk EXCEPT ![w] = x] /\ th' = th /\ pq' = [Qs EXCEPT ![q] = Taken(Q)] /\ ring' = rg
  BY DEF Take
<1>3. /\ Taken(Q) \in QueueType /\ QueueInv(Taken(Q))
      /\ Head(Q.input) \in Job /\ Numbered(Q, Head(Q.input))
      /\ Taken(Q).base = Q.base /\ Taken(Q).curr = Q.curr
      /\ Taken(Q).nProcessing = Q.nProcessing + 1
      /\ Taken(Q).mem = Q.mem
  BY <1>1, TakenOK
<1>4. x \in WorkerType
  BY <1>3 DEF WorkerType
<1>5. /\ pq' \in [Queues -> QueueType] /\ pq'[q] = Taken(Q)
      /\ \A p \in Queues : p # q => pq'[p] = Qs[p]
  BY <1>2, <1>3 DEF SameJobs
<1>6. \A p \in Queues : QueueInv(pq'[p])
  BY <1>3, <1>5 DEF SameJobs
<1>7. \A p \in Queues : /\ pq'[p].base = pq[p].base /\ pq'[p].curr = pq[p].curr
                        /\ pq'[p].mem = "none" => pq'[p] = pq[p]
  BY <1>3, <1>5 DEF SameJobs
<1>8. \A p \in Queues : pq'[p].nProcessing = Cardinality(Running(p)')
  <2>1. /\ Cardinality(Running(q)') = Cardinality(Running(q)) + 1
        /\ \A p : p # q => Running(p)' = Running(p)
    BY <1>1, <1>2, RunningAdd
  <2>2. \A p \in Queues : Qs[p].nProcessing = Cardinality(Running(p))
    BY DEF IInv, SameJobs
  <2> QED
    BY <2>1, <2>2, <1>3, <1>5
<1>9. WorkerInv(x, pq')
  <2>1. Numbered(pq'[q], Head(Q.input))
    BY <1>3, <1>5 DEF Numbered
  <2> QED
    BY <2>1, <1>3 DEF WorkerInv
<1>10. \A t \in Threads : ResetInv(t)'
  <2>1. pq[q].input # <<>>
    BY DEF HasRoom, SameJobs
  <2>2. \A p \in Queues : p # q => pq'[p].input = pq[p].input /\ pq'[p].nProcessing = pq[p].nProcessing
    BY <1>5 DEF SameJobs
  <2> QED
    BY <2>1, <2>2, <1>2, ResetKept
<1>11. Rest
  <2>1. woken' \subseteq Workers \cup Threads
    <3>1. PICK S \in IF Q.nInput = 1 THEN Signal("inputEmpty", q) ELSE {{}} :
             woken' = (woken \ {w}) \cup S
                      \cup (IF Q.nInput >= Q.qsize THEN Waiters("notFull", q) ELSE {})
      BY DEF Take
    <3>2. S \subseteq Threads
      BY SignalsOK
    <3> QED
      BY <3>1, <3>2, SignalsOK DEF IInv, TypeOK
  <2>2. njobs' \in Int /\ poolDown' \in BOOLEAN /\ settled' \in [Queues -> SUBSET (1 .. MaxCalls)]
    BY DEF Take, IInv, TypeOK
  <2> QED
    BY <2>1, <2>2, <1>2 DEF Rest
<1>12. pq'[x.q].mem # "none"
  BY <1>3, <1>5
<1> HIDE DEF x, Q
<1> QED
  BY <1>2, <1>4, <1>5, <1>6, <1>7, <1>8, <1>9, <1>10, <1>11, <1>12, WorkerStep

\* A reference taken or dropped.
LEMMA RefOK ==
    ASSUME NEW Q \in QueueType, QueueInv(Q), NEW n \in Int
    PROVE  /\ [Q EXCEPT !.ref = n] \in QueueType
           /\ QueueInv([Q EXCEPT !.ref = n])
           /\ [Q EXCEPT !.ref = n].base = Q.base /\ [Q EXCEPT !.ref = n].curr = Q.curr
           /\ [Q EXCEPT !.ref = n].input = Q.input /\ [Q EXCEPT !.ref = n].mem = Q.mem
           /\ [Q EXCEPT !.ref = n].nProcessing = Q.nProcessing
           /\ [Q EXCEPT !.ref = n].output = Q.output /\ [Q EXCEPT !.ref = n].shut = Q.shut
           /\ [Q EXCEPT !.ref = n].next = Q.next
           /\ HasRoom(Q) => HasRoom([Q EXCEPT !.ref = n])
<1> DEFINE R == [Q EXCEPT !.ref = n]
<1>1. R \in QueueType
  BY Zenon DEF QueueType
<1>2. /\ R.input = Q.input /\ R.nInput = Q.nInput /\ R.output = Q.output
      /\ R.nOutput = Q.nOutput /\ R.nProcessing = Q.nProcessing
      /\ R.qsize = Q.qsize /\ R.curr = Q.curr /\ R.calls = Q.calls
      /\ R.base = Q.base /\ R.next = Q.next /\ R.got = Q.got /\ R.mem = Q.mem
      /\ R.shut = Q.shut
  BY Zenon DEF QueueType
<1> HIDE DEF R
<1>3. R.qsize >= Q.qsize
  BY <1>2, FieldTypes
<1>4. QueueInv(R)
  BY <1>1, <1>2, <1>3, OtherFields
<1>5. HasRoom(Q) => HasRoom(R)
  BY <1>2 DEF HasRoom
<1> QED
  BY <1>1, <1>2, <1>4, <1>5 DEF R

LEMMA UnrefOK ==
    ASSUME NEW Q \in QueueType, QueueInv(Q)
    PROVE  /\ Unref(Q) \in QueueType
           /\ QueueInv(Unref(Q))
           /\ Unref(Q).base = Q.base /\ Unref(Q).curr = Q.curr
           /\ Unref(Q).input = Q.input
           /\ Unref(Q).nProcessing = Q.nProcessing
           /\ Q.mem # "none" => Unref(Q).mem # "none"
<1> DEFINE R == Unref(Q)
<1>1. Q.ref - 1 \in Int
  BY FieldTypes
<1>2. /\ (IF Q.ref = 1 THEN "freed" ELSE Q.mem) \in {"none", "live", "freed"}
      /\ Q.mem # "none" => (IF Q.ref = 1 THEN "freed" ELSE Q.mem) # "none"
  BY FieldTypes
<1>3. (IF Q.ref = 1 THEN TRUE ELSE Q.noMore) \in BOOLEAN
  BY Zenon, FieldTypes
<1>4. R \in QueueType
  BY <1>1, <1>2, <1>3, Zenon DEF Unref, QueueType
<1>5. /\ R.input = Q.input /\ R.nInput = Q.nInput /\ R.output = Q.output
      /\ R.nOutput = Q.nOutput /\ R.nProcessing = Q.nProcessing
      /\ R.qsize = Q.qsize /\ R.curr = Q.curr /\ R.calls = Q.calls
      /\ R.base = Q.base /\ R.next = Q.next /\ R.got = Q.got
      /\ R.mem = IF Q.ref = 1 THEN "freed" ELSE Q.mem
  BY Zenon DEF Unref, QueueType
<1> HIDE DEF R
<1>6. R.qsize >= Q.qsize
  BY <1>5, FieldTypes
<1>7. QueueInv(R)
  BY <1>4, <1>5, <1>6, OtherFields
<1> QED
  BY <1>2, <1>4, <1>5, <1>7 DEF R

----------------------------------------------------------------------------
(* The workers.                                                            *)

\* Leave, wait, or take a job of the first ready queue.
LEMMA ScanOK ==
    ASSUME IInv, NEW w \in Workers, wk[w].pc # "run",
           NEW Qs, SameJobs(Qs),
           NEW rg \in Seq(Queues), \A p \in Queues : Attached(rg, p) => Attached(ring, p),
           Scan(w, Qs, rg)
    PROVE  IInv'
<1> DEFINE x == [pc |-> IF poolDown THEN "exit" ELSE "wait", q |-> "none", job |-> NoJob]
<1>1. CASE /\ wk' = [wk EXCEPT ![w] = x] /\ pq' = Qs /\ ring' = rg
           /\ woken' = woken \ {w} /\ UNCHANGED <<njobs, poolDown, th, settled>>
  <2>1. x \in WorkerType /\ WorkerInv(x, pq') /\ x.q \notin Queues /\ x.pc # "run"
    BY SetAssumption DEF WorkerType, WorkerInv
  <2>2. wk \in [Workers -> WorkerType]
    BY DEF IInv, TypeOK
  <2> HIDE DEF x
  <2>3. \A p \in Queues : pq'[p].nProcessing = Cardinality(Running(p)')
    <3>1. \A p : Running(p)' = Running(p)
      BY <1>1, <2>1, <2>2, RunningSame
    <3> QED
      BY <3>1, <1>1 DEF IInv, SameJobs
  <2>4. \A t \in Threads : ResetInv(t)'
    BY <1>1, ResetKept DEF SameJobs
  <2>5. Rest
    BY <1>1 DEF Rest, IInv, TypeOK
  <2>6. /\ pq' \in [Queues -> QueueType] /\ \A p \in Queues : QueueInv(pq'[p])
        /\ \A p \in Queues : pq'[p].base = pq[p].base /\ pq'[p].curr = pq[p].curr
        /\ \A p \in Queues : pq'[p].mem = "none" => pq'[p] = pq[p]
    BY <1>1 DEF SameJobs
  <2>7. th' = th /\ \A p \in Queues : Attached(ring', p) => Attached(ring, p)
    BY <1>1
  <2> QED
    BY <1>1, <2>1, <2>3, <2>4, <2>5, <2>6, <2>7, WorkerStep
<1>2. ASSUME NEW i \in DOMAIN rg, Ready(Qs, rg[i]),
             Take(w, rg[i], [Qs EXCEPT ![rg[i]].ref = @ + 1], rg)
      PROVE  IInv'
  <2>1. PICK q \in Queues : q = rg[i]
    OBVIOUS
  <2>2. Attached(ring, q)
    BY <2>1 DEF Attached
  <2>3. pq[q].mem # "none" /\ Qs[q].mem # "none"
    BY <2>2 DEF IInv, UnbornInv, SameJobs
  <2> DEFINE R == [Qs[q] EXCEPT !.ref = Qs[q].ref + 1]
             Rs == [Qs EXCEPT ![q] = R]
  <2>4. Rs = [Qs EXCEPT ![rg[i]].ref = @ + 1]
    BY <2>1, Zenon
  <2>5. Qs[q] \in QueueType /\ QueueInv(Qs[q]) /\ HasRoom(Qs[q]) /\ Qs[q].ref + 1 \in Int
    BY <1>2, <2>1, FieldTypes DEF Ready, SameJobs
  <2>6. /\ R \in QueueType /\ QueueInv(R)
        /\ R.base = Qs[q].base /\ R.curr = Qs[q].curr /\ R.input = Qs[q].input
        /\ R.nProcessing = Qs[q].nProcessing /\ R.mem = Qs[q].mem /\ HasRoom(R)
    BY <2>5, RefOK
  <2> HIDE DEF R
  <2>7. Rs[q] = R /\ Rs \in [Queues -> QueueType] /\ \A p \in Queues : p # q => Rs[p] = Qs[p]
    BY <2>6 DEF SameJobs
  <2> HIDE DEF Rs
  <2>8. SameJobs(Rs)
    BY <2>3, <2>6, <2>7 DEF SameJobs
  <2>9. HasRoom(Rs[q]) /\ Rs[q].mem # "none"
    BY <2>3, <2>6, <2>7
  <2>10. Take(w, q, Rs, rg)
    BY <1>2, <2>1, <2>4
  <2> QED
    BY <2>8, <2>9, <2>10, TakeOK
<1> QED
  BY <1>1, <1>2 DEF Scan

\* The queues as they are make a critical section's starting point.
LEMMA StartOK ==
    ASSUME IInv
    PROVE  SameJobs(pq) /\ ring \in Seq(Queues)
BY DEF IInv, TypeOK, SameJobs

LEMMA WorkerStartOK ==
    ASSUME IInv, NEW w \in Workers, WorkerStart(w) \/ WorkerWake(w)
    PROVE  IInv'
BY StartOK, ScanOK DEF WorkerStart, WorkerWake

LEMMA WorkerLoopOK ==
    ASSUME IInv, NEW w \in Workers, WorkerLoop(w)
    PROVE  IInv'
<1>1. /\ wk[w].pc = "loop" /\ wk[w] \in WorkerType /\ WorkerInv(wk[w], pq)
      /\ wk \in [Workers -> WorkerType] /\ pq \in [Queues -> QueueType]
  BY DEF WorkerLoop, IInv, TypeOK
<1>2. PICK q \in Queues : q = wk[w].q
  BY <1>1 DEF WorkerInv
<1>3. pq[q].mem # "none" /\ pq[q] \in QueueType /\ QueueInv(pq[q])
  BY <1>1, <1>2 DEF IInv, UnbornInv
<1>4. CASE wk' = [wk EXCEPT ![w].pc = "exit"] /\ UNCHANGED <<pq, ring, njobs, poolDown, th, woken, settled>>
  <2> DEFINE x == [wk[w] EXCEPT !.pc = "exit"]
  <2>1. x \in WorkerType /\ x.pc = "exit" /\ x.q = q
    BY <1>1, <1>2 DEF WorkerType
  <2>2. wk' = [wk EXCEPT ![w] = x]
    BY <1>4, Zenon
  <2> HIDE DEF x
  <2>3. WorkerInv(x, pq')
    BY <2>1 DEF WorkerInv
  <2>4. \A p : Running(p)' = Running(p)
    BY <2>1, <2>2, <1>1, RunningSame
  <2>5. \A t \in Threads : ResetInv(t)'
    BY <1>4, ResetKept
  <2>6. Rest
    BY <1>4 DEF Rest, IInv, TypeOK
  <2>7. \A p \in Queues : pq'[p].nProcessing = Cardinality(Running(p)') /\ QueueInv(pq'[p])
    BY <1>4, <2>4 DEF IInv
  <2> QED
    BY <1>1, <1>3, <1>4, <2>1, <2>2, <2>3, <2>5, <2>6, <2>7, WorkerStep
<1>5. CASE HasRoom(pq[q]) /\ Take(w, q, pq, ring)
  BY <1>1, <1>3, <1>5, StartOK, TakeOK
<1>6. CASE Scan(w, [pq EXCEPT ![q] = Unref(pq[q])], IF pq[q].ref = 1 THEN ring ELSE RotateOne(ring))
  <2> DEFINE Rs == [pq EXCEPT ![q] = Unref(pq[q])]
             rg == IF pq[q].ref = 1 THEN ring ELSE RotateOne(ring)
  <2>1. rg \in Seq(Queues) /\ \A p \in Queues : Attached(rg, p) => Attached(ring, p)
    BY StartOK, RotateOneOK
  <2>2. /\ Unref(pq[q]) \in QueueType /\ QueueInv(Unref(pq[q]))
        /\ Unref(pq[q]).base = pq[q].base /\ Unref(pq[q]).curr = pq[q].curr
        /\ Unref(pq[q]).input = pq[q].input /\ Unref(pq[q]).nProcessing = pq[q].nProcessing
        /\ Unref(pq[q]).mem # "none"
    BY <1>3, UnrefOK
  <2>3. /\ Rs \in [Queues -> QueueType] /\ Rs[q] = Unref(pq[q])
        /\ \A p \in Queues : p # q => Rs[p] = pq[p]
    BY <1>1, <2>2
  <2>4. Scan(w, Rs, rg)
    BY <1>6
  <2> HIDE DEF Rs, rg
  <2>5. SameJobs(Rs)
    BY <2>2, <2>3, StartOK DEF SameJobs
  <2> QED
    BY <1>1, <2>1, <2>4, <2>5, ScanOK
<1> QED
  BY <1>2, <1>4, <1>5, <1>6, Zenon DEF WorkerLoop

\* The end of a job of queue q, with a result or without one: R is the queue
\* afterwards, x the worker.
LEMMA JobDoneOK ==
    ASSUME IInv, NEW w \in Workers, NEW q \in Queues, wk[w].q = q, wk[w].pc = "run",
           NEW x \in WorkerType, x.q = q, x.pc \in {"loop", "err"},
           wk' = [wk EXCEPT ![w] = x],
           NEW R \in QueueType, QueueInv(R), pq' = [pq EXCEPT ![q] = R],
           R.base = pq[q].base, R.curr = pq[q].curr,
           R.nProcessing = pq[q].nProcessing - 1, R.input = pq[q].input,
           R.mem = pq[q].mem,
           Rest, ring' = ring, th' = th
    PROVE  IInv'
<1>1. wk \in [Workers -> WorkerType] /\ pq \in [Queues -> QueueType]
  BY DEF IInv, TypeOK
<1>2. pq[q].mem # "none"
  BY DEF IInv, UnbornInv
<1>3. /\ pq' \in [Queues -> QueueType] /\ pq'[q] = R
      /\ \A p \in Queues : p # q => pq'[p] = pq[p]
  BY <1>1
<1>4. /\ Cardinality(Running(q)') = Cardinality(Running(q)) - 1
      /\ Cardinality(Running(q)) >= 1
      /\ \A p : p # q => Running(p)' = Running(p)
  BY <1>1, RunningRemove
<1>5. \A p \in Queues : pq'[p].nProcessing = Cardinality(Running(p)')
  BY <1>3, <1>4 DEF IInv
<1>6. pq[q].nProcessing # 0
  BY <1>4 DEF IInv
<1>7. \A t \in Threads : ResetInv(t)'
  BY <1>3, <1>6, ResetKept
<1>8. WorkerInv(x, pq')
  BY DEF WorkerInv
<1>9. /\ \A p \in Queues : QueueInv(pq'[p])
      /\ \A p \in Queues : pq'[p].base = pq[p].base /\ pq'[p].curr = pq[p].curr
      /\ \A p \in Queues : pq'[p].mem = "none" => pq'[p] = pq[p]
      /\ pq'[x.q].mem # "none"
  BY <1>2, <1>3 DEF IInv
<1> QED
  BY <1>3, <1>5, <1>7, <1>8, <1>9, WorkerStep

\* What holds of a worker that runs a job.
LEMMA RunningWorker ==
    ASSUME IInv, NEW w \in Workers, wk[w].pc = "run"
    PROVE  /\ wk[w].q \in Queues /\ wk[w].job \in Job /\ wk[w] \in WorkerType
           /\ Numbered(pq[wk[w].q], wk[w].job)
           /\ pq[wk[w].q] \in QueueType /\ QueueInv(pq[wk[w].q])
           /\ pq[wk[w].q].nProcessing >= 1
<1>1. wk \in [Workers -> WorkerType] /\ pq \in [Queues -> QueueType] /\ WorkerInv(wk[w], pq)
  BY DEF IInv, TypeOK
<1>2. PICK q \in Queues : q = wk[w].q
  BY <1>1 DEF WorkerInv
<1>3. w \in Running(q)
  BY <1>2 DEF Running
<1>4. IsFiniteSet(Running(q)) /\ Cardinality(Running(q)) \in Nat
  BY RunningFinite
<1>5. Cardinality(Running(q)) # 0
  BY <1>3, <1>4, FS_EmptySet
<1>6. pq[q].nProcessing >= 1
  BY <1>4, <1>5 DEF IInv
<1> QED
  BY <1>1, <1>2, <1>6 DEF WorkerInv, IInv

LEMMA AddResultOK ==
    ASSUME IInv, NEW w \in Workers, AddResult(w)
    PROVE  IInv'
<1>1. wk[w].pc = "run"
  BY DEF AddResult
<1>2. PICK q \in Queues : q = wk[w].q
  BY <1>1, RunningWorker
<1> DEFINE Q == pq[q]
           j == wk[w].job
           x == [wk[w] EXCEPT !.pc = "loop", !.job = NoJob]
<1>3. /\ j \in Job /\ Numbered(Q, j) /\ Q \in QueueType /\ QueueInv(Q)
      /\ Q.nProcessing >= 1 /\ wk[w] \in WorkerType
  BY <1>1, <1>2, RunningWorker
<1>4. /\ WithResult(Q, j) \in QueueType /\ QueueInv(WithResult(Q, j))
      /\ WithResult(Q, j).base = Q.base /\ WithResult(Q, j).curr = Q.curr
      /\ WithResult(Q, j).nProcessing = Q.nProcessing - 1
      /\ WithResult(Q, j).input = Q.input /\ WithResult(Q, j).mem = Q.mem
  BY <1>3, WithResultOK
<1>5. x \in WorkerType /\ x.pc = "loop" /\ x.q = q
  BY <1>2, <1>3, Zenon DEF WorkerType
<1>6. wk' = [wk EXCEPT ![w] = x]
  BY Zenon DEF AddResult
<1>7. pq' = [pq EXCEPT ![q] = WithResult(Q, j)] /\ ring' = ring /\ th' = th
  BY <1>2 DEF AddResult
<1>8. Rest
  <2>1. PICK S \in IF Q.nProcessing = 1 THEN Signal("noneProcessing", q) ELSE {{}} :
           woken' = woken \cup S
                    \cup (IF ~ Q.inOnly /\ j.serial = Q.next THEN Waiters("avail", q) ELSE {})
    BY <1>2 DEF AddResult
  <2>2. S \subseteq Threads
    BY SignalsOK
  <2>3. woken' \subseteq Workers \cup Threads
    BY <2>1, <2>2, SignalsOK DEF IInv, TypeOK
  <2>4. j.id \in 1 .. MaxCalls
    BY <1>3 DEF Job
  <2>5. settled' \in [Queues -> SUBSET (1 .. MaxCalls)]
    BY <1>2, <2>4 DEF AddResult, IInv, TypeOK
  <2> QED
    BY <2>3, <2>5 DEF AddResult, Rest, IInv, TypeOK
<1> HIDE DEF x
<1> QED
  BY <1>1, <1>2, <1>4, <1>5, <1>6, <1>7, <1>8, JobDoneOK

LEMMA AddResultFailsOK ==
    ASSUME IInv, NEW w \in Workers, AddResultFails(w)
    PROVE  IInv'
<1>1. wk[w].pc = "run"
  BY DEF AddResultFails
<1>2. PICK q \in Queues : q = wk[w].q
  BY <1>1, RunningWorker
<1> DEFINE Q == pq[q]
           x == [wk[w] EXCEPT !.pc = "err"]
           R == [Q EXCEPT !.nProcessing = Q.nProcessing - 1]
<1>3. Q \in QueueType /\ QueueInv(Q) /\ Q.nProcessing >= 1 /\ wk[w] \in WorkerType
  BY <1>1, <1>2, RunningWorker
<1>4. Q.nProcessing - 1 \in Nat
  BY <1>3, FieldTypes
<1>5. R \in QueueType
  BY <1>3, <1>4, Zenon DEF QueueType
<1>6. /\ R.input = Q.input /\ R.nInput = Q.nInput /\ R.output = Q.output
      /\ R.nOutput = Q.nOutput /\ R.nProcessing = Q.nProcessing - 1
      /\ R.qsize = Q.qsize /\ R.curr = Q.curr /\ R.calls = Q.calls
      /\ R.base = Q.base /\ R.next = Q.next /\ R.got = Q.got /\ R.mem = Q.mem
  BY <1>3, Zenon DEF QueueType
<1>7. x \in WorkerType /\ x.pc = "err" /\ x.q = q
  BY <1>2, <1>3, Zenon DEF WorkerType
<1>8. wk' = [wk EXCEPT ![w] = x] /\ ring' = ring /\ th' = th
  BY Zenon DEF AddResultFails
<1>9. pq' = [pq EXCEPT ![q] = R]
  BY <1>2, Zenon DEF AddResultFails
<1>10. Rest
  <2>1. PICK S \in IF Q.nProcessing = 1 THEN Signal("noneProcessing", q) ELSE {{}} :
           woken' = woken \cup S
    BY <1>2 DEF AddResultFails
  <2>2. S \subseteq Threads
    BY SignalsOK
  <2>3. woken' \subseteq Workers \cup Threads
    BY <2>1, <2>2 DEF IInv, TypeOK
  <2> QED
    BY <2>3 DEF AddResultFails, Rest, IInv, TypeOK
<1> HIDE DEF x, R
<1>11. QueueInv(R)
  <2>1. R.nOutput + R.nProcessing <= R.qsize
    BY <1>3, <1>6, FieldTypes, SMTT(40) DEF QueueInv
  <2>2. /\ \A i \in DOMAIN R.input : Numbered(R, R.input[i])
        /\ \A r \in R.output : Numbered(R, r)
    BY <1>3, <1>6 DEF QueueInv, Numbered
  <2> QED
    BY <1>3, <1>6, <2>1, <2>2 DEF QueueInv
<1> QED
  BY <1>1, <1>2, <1>5, <1>6, <1>7, <1>8, <1>9, <1>10, <1>11, JobDoneOK

\* Shutting a queue down.
LEMMA ShutOK ==
    ASSUME NEW Q \in QueueType, QueueInv(Q), NEW n \in 0 .. 2
    PROVE  /\ [Q EXCEPT !.shut = n] \in QueueType
           /\ QueueInv([Q EXCEPT !.shut = n])
           /\ [Q EXCEPT !.shut = n].base = Q.base /\ [Q EXCEPT !.shut = n].curr = Q.curr
           /\ [Q EXCEPT !.shut = n].input = Q.input
           /\ [Q EXCEPT !.shut = n].nProcessing = Q.nProcessing
           /\ [Q EXCEPT !.shut = n].mem = Q.mem
<1> DEFINE R == [Q EXCEPT !.shut = n]
<1>1. R \in QueueType
  BY Zenon DEF QueueType
<1>2. /\ R.input = Q.input /\ R.nInput = Q.nInput /\ R.output = Q.output
      /\ R.nOutput = Q.nOutput /\ R.nProcessing = Q.nProcessing
      /\ R.qsize = Q.qsize /\ R.curr = Q.curr /\ R.calls = Q.calls
      /\ R.base = Q.base /\ R.next = Q.next /\ R.got = Q.got /\ R.mem = Q.mem
  BY Zenon DEF QueueType
<1> HIDE DEF R
<1>3. R.qsize >= Q.qsize
  BY <1>2, FieldTypes
<1>4. QueueInv(R)
  BY <1>1, <1>2, <1>3, OtherFields
<1> QED
  BY <1>1, <1>2, <1>4 DEF R

\* A worker on the error path only changes queues' shutdown flags.
LEMMA WorkerErrOK ==
    ASSUME IInv, NEW w \in Workers, WorkerErrQueue(w) \/ WorkerErrAll(w)
    PROVE  IInv'
<1>1. wk \in [Workers -> WorkerType] /\ pq \in [Queues -> QueueType] /\ WorkerInv(wk[w], pq)
  BY DEF IInv, TypeOK
<1>2. PICK q \in Queues : q = wk[w].q
  BY <1>1 DEF WorkerInv, WorkerErrQueue, WorkerErrAll
<1>3. wk[w].pc \in {"err", "errAll"} /\ wk[w] \in WorkerType /\ pq[q].mem # "none"
  BY <1>1, <1>2 DEF IInv, UnbornInv, WorkerErrQueue, WorkerErrAll
<1>4. PICK x \in WorkerType : /\ x.pc \in {"errAll", "exit"} /\ x.q = q
                              /\ wk' = [wk EXCEPT ![w] = x]
  <2>1. PICK c \in {"errAll", "exit"} : wk' = [wk EXCEPT ![w].pc = c]
    BY Zenon DEF WorkerErrQueue, WorkerErrAll
  <2> DEFINE y == [wk[w] EXCEPT !.pc = c]
  <2>2. y \in WorkerType /\ y.pc = c /\ y.q = q
    BY <1>2, <1>3, <2>1, Zenon DEF WorkerType
  <2>3. wk' = [wk EXCEPT ![w] = y]
    BY <2>1, Zenon
  <2> QED
    BY <2>1, <2>2, <2>3, Zenon
<1>5. /\ pq' \in [Queues -> QueueType]
      /\ \A p \in Queues :
            /\ QueueInv(pq'[p])
            /\ pq'[p].base = pq[p].base /\ pq'[p].curr = pq[p].curr
            /\ pq'[p].input = pq[p].input /\ pq'[p].nProcessing = pq[p].nProcessing
            /\ pq'[p].mem = "none" => pq'[p] = pq[p]
  <2>1. \A p \in Queues : pq[p] \in QueueType /\ QueueInv(pq[p])
    BY <1>1 DEF IInv
  <2>. 1 \in 0 .. 2 /\ 2 \in 0 .. 2
    OBVIOUS
  <2>2. CASE WorkerErrQueue(w)
    <3>1. pq' = [pq EXCEPT ![q] = [pq[q] EXCEPT !.shut = 1]]
      BY <1>2, <2>2, Zenon DEF WorkerErrQueue
    <3> DEFINE R == [pq[q] EXCEPT !.shut = 1]
    <3>2. /\ R \in QueueType /\ QueueInv(R) /\ R.base = pq[q].base /\ R.curr = pq[q].curr
          /\ R.input = pq[q].input /\ R.nProcessing = pq[q].nProcessing /\ R.mem = pq[q].mem
      BY <2>1, ShutOK, Zenon
    <3>3. pq' = [pq EXCEPT ![q] = R]
      BY <3>1
    <3> HIDE DEF R
    <3> QED
      BY <1>1, <1>3, <2>1, <3>2, <3>3
  <2>3. CASE WorkerErrAll(w)
    <3> DEFINE R(p) == [pq[p] EXCEPT !.shut = 2]
    <3>1. pq' = [p \in Queues |-> IF Attached(ring, p) THEN R(p) ELSE pq[p]]
      BY <2>3 DEF WorkerErrAll
    <3>2. \A p \in Queues :
             /\ R(p) \in QueueType /\ QueueInv(R(p)) /\ R(p).base = pq[p].base
             /\ R(p).curr = pq[p].curr /\ R(p).input = pq[p].input
             /\ R(p).nProcessing = pq[p].nProcessing /\ R(p).mem = pq[p].mem
      BY <2>1, ShutOK, Zenon
    <3>3. \A p \in Queues : Attached(ring, p) => pq[p].mem # "none"
      BY DEF IInv, UnbornInv
    <3> HIDE DEF R
    <3> QED
      BY <1>1, <2>1, <3>1, <3>2, <3>3
  <2> QED
    BY <2>2, <2>3
<1>6. WorkerInv(x, pq') /\ pq'[x.q].mem # "none"
  BY <1>3, <1>4, <1>5 DEF WorkerInv
<1>7. \A p \in Queues : pq'[p].nProcessing = Cardinality(Running(p)')
  <2>1. \A p : Running(p)' = Running(p)
    BY <1>1, <1>3, <1>4, RunningSame
  <2> QED
    BY <1>5, <2>1 DEF IInv
<1>8. th' = th /\ ring' = ring /\ njobs' = njobs /\ poolDown' = poolDown /\ settled' = settled
  BY DEF WorkerErrQueue, WorkerErrAll
<1>9. \A t \in Threads : ResetInv(t)'
  BY <1>5, <1>8, ResetKept
<1>10. Rest
  <2>1. woken' \subseteq Workers \cup Threads
    BY SignalsOK DEF WorkerErrQueue, WorkerErrAll, IInv, TypeOK
  <2> QED
    BY <2>1, <1>8 DEF Rest, IInv, TypeOK
<1> QED
  BY <1>4, <1>5, <1>6, <1>7, <1>8, <1>9, <1>10, WorkerStep

----------------------------------------------------------------------------
(* The client threads.                                                     *)

LEMMA WorkersOK ==
    ASSUME IInv, NEW w \in Workers, WorkerNext(w)
    PROVE  IInv'
BY WorkerStartOK, WorkerLoopOK, AddResultOK, AddResultFailsOK, WorkerErrOK DEF WorkerNext

\* No thread but t is resetting or destroying q.
NoReset(t, q) ==
    \A u \in Threads \ {t} : th[u].q = q => th[u].call \notin {"reset", "destroy"}

\* Calls that have the queue to themselves.
LEMMA InsideNoReset ==
    ASSUME IInv, NEW t \in Threads, th[t].call \in {"dispatch", "flush", "reset", "destroy"}
    PROVE  NoReset(t, th[t].q)
BY DEF IInv, ResetInv, NoReset

LEMMA OutsideNoReset ==
    ASSUME IInv, NEW t \in Threads, NEW q \in Queues, Resetting(q) = {}
    PROVE  NoReset(t, q)
BY DEF Resetting, Inside, NoReset

LEMMA IdleOK ==
    /\ Idle \in ThreadType /\ Idle.q = "none" /\ Idle.call = "none" /\ Idle.pc = "idle"
    /\ \A Qs : ThreadInv(Idle, Qs)
<1>1. Idle \in ThreadType
  BY Zenon DEF Idle, ThreadType
<1>2. Idle.q = "none" /\ Idle.call = "none" /\ Idle.pc = "idle"
  BY DEF Idle
<1>3. \A Qs : ThreadInv(Idle, Qs)
  BY <1>2 DEF ThreadInv
<1> QED
  BY <1>1, <1>2, <1>3

\* A step of client t on queue q, which becomes R; x is the client afterwards.
LEMMA ClientOK ==
    ASSUME IInv, NEW t \in Threads, NEW x \in ThreadType,
           th' = [th EXCEPT ![t] = x], wk' = wk, Rest,
           NEW q \in Queues, NEW R \in QueueType, QueueInv(R),
           pq' = [pq EXCEPT ![q] = R],
           \/ R.base = pq[q].base /\ R.curr >= pq[q].curr
           \/ NoneNumbered(t, q),
           R.nProcessing = pq[q].nProcessing, R.mem # "none",
           ThreadInv(x, pq'), x.q \in {q, "none"},
           \/ NoReset(t, q)
           \/ x.call \in {"none", "next"} /\ (pq[q].input = <<>> => R.input = <<>>),
           x.call \in {"reset", "destroy"} =>
               /\ x.q = q
               /\ \A u \in Threads \ {t} : th[u].q = q =>
                     th[u].call \notin {"dispatch", "flush", "reset", "destroy"}
               /\ x.pc # "destroy" => R.input = <<>>
               /\ x.pc = "resetEnd" => R.nProcessing = 0,
           \A p \in Queues : Attached(ring', p) => p = q \/ Attached(ring, p)
    PROVE  IInv'
<1>1. th \in [Threads -> ThreadType] /\ pq \in [Queues -> QueueType]
  BY DEF IInv, TypeOK
<1>2. /\ pq'[q] = R /\ \A p \in Queues : p # q => pq'[p] = pq[p]
      /\ th'[t] = x /\ \A u \in Threads : u # t => th'[u] = th[u]
  BY <1>1
<1>3. ResetInv(t)'
  BY <1>2 DEF ResetInv
<1>4. ASSUME NEW u \in Threads, u # t, th[u].call \in {"reset", "destroy"} PROVE ResetInv(u)'
  <2>0. ThreadInv(th[u], pq)
    BY DEF IInv
  <2>1. PICK p \in Queues : p = th[u].q
    BY <1>4, <2>0, IdleOK DEF ThreadInv
  <2>2. /\ \A v \in Threads \ {u} : th[v].q = p =>
              th[v].call \notin {"dispatch", "flush", "reset", "destroy"}
        /\ th[u].pc # "destroy" => pq[p].input = <<>>
        /\ th[u].pc = "resetEnd" => pq[p].nProcessing = 0
    BY <1>4, <2>1 DEF IInv, ResetInv
  <2>3. CASE p # q
    <3>1. x.q # p
      BY <2>3, SetAssumption
    <3> QED
      BY <1>2, <1>4, <2>1, <2>2, <2>3, <3>1 DEF ResetInv
  <2>4. CASE p = q
    <3>1. x.call \in {"none", "next"} /\ (pq[q].input = <<>> => R.input = <<>>)
      BY <1>4, <2>1, <2>4 DEF NoReset
    <3>2. \A v \in Threads \ {u} : th'[v].q = q =>
             th'[v].call \notin {"dispatch", "flush", "reset", "destroy"}
      BY <1>2, <2>2, <2>4, <3>1
    <3>3. th'[u] = th[u] /\ th'[u].q = q /\ pq'[q] = R
      BY <1>2, <1>4, <2>1, <2>4
    <3>4. /\ th'[u].pc # "destroy" => pq'[q].input = <<>>
          /\ th'[u].pc = "resetEnd" => pq'[q].nProcessing = 0
      BY <2>2, <2>4, <3>1, <3>3
    <3> QED
      BY <3>2, <3>3, <3>4 DEF ResetInv
  <2> QED
    BY <2>3, <2>4
<1>5. \A u \in Threads : ResetInv(u)'
  BY <1>2, <1>3, <1>4 DEF ResetInv
<1> QED
  BY <1>5, ClientStep

\* A step that only signals, or shuts the pool down.
LEMMA SignalStep ==
    ASSUME IInv, UNCHANGED <<pq, ring, wk, th>>, Rest
    PROVE  IInv'
<1>1. TypeOK'
  BY DEF IInv, TypeOK, Rest
<1>2. \A q \in Queues : Running(q)' = Running(q)
  BY DEF Running
<1>3. \A t \in Threads : ResetInv(t)'
  BY DEF IInv, ResetInv
<1>4. \A q \in Queues : UnbornInv(q)'
  BY DEF IInv, UnbornInv
<1> QED
  BY <1>1, <1>2, <1>3, <1>4 DEF IInv

LEMMA PoolDestroyOK ==
    ASSUME IInv, NEW t \in Threads, PoolDestroy(t)
    PROVE  IInv'
<1>1. Rest
  BY SignalsOK DEF PoolDestroy, Rest, IInv, TypeOK
<1> QED
  BY <1>1, SignalStep DEF PoolDestroy

LEMMA SpuriousWakeOK ==
    ASSUME IInv, NEW x \in Workers \cup Threads, SpuriousWake(x)
    PROVE  IInv'
<1>1. Rest
  BY DEF SpuriousWake, Rest, IInv, TypeOK
<1> QED
  BY <1>1, SignalStep DEF SpuriousWake

LEMMA ProcessInitOK ==
    ASSUME IInv, NEW t \in Threads, NEW q \in Queues, ProcessInit(t, q)
    PROVE  IInv'
<1> DEFINE R == NewQueue(q)
<1>1. /\ th[t] = Idle /\ pq[q].mem = "none" /\ pq' = [pq EXCEPT ![q] = R]
      /\ ring' = <<q>> \o ring /\ UNCHANGED <<njobs, poolDown, wk, th, woken, settled>>
  BY DEF ProcessInit
<1>2. R \in QueueType /\ QueueInv(R)
  BY NewQueueOK
<1>3. pq[q] = Unborn(q) /\ \A u \in Threads : th[u].q # q
  BY <1>1 DEF IInv, UnbornInv
<1>4. R.base = 0 /\ R.curr = 0 /\ R.nProcessing = 0 /\ R.mem = "live"
  BY DEF NewQueue
<1>5. Unborn(q).base = 0 /\ Unborn(q).curr = 0 /\ Unborn(q).nProcessing = 0
  BY DEF Unborn, NewQueue
<1>6. th' = [th EXCEPT ![t] = Idle]
  BY <1>1 DEF IInv, TypeOK
<1>7. ring \in Seq(Queues)
  BY DEF IInv, TypeOK
<1>8. /\ ring' \in Seq(Queues)
      /\ \A p \in Queues : Attached(ring', p) => p = q \/ Attached(ring, p)
  BY <1>1, <1>7 DEF Attached
<1>9. Rest
  BY <1>1, <1>8 DEF Rest, IInv, TypeOK
<1>10. NoReset(t, q)
  BY <1>3 DEF NoReset
<1>11. R.base = pq[q].base /\ R.curr >= pq[q].curr /\ R.nProcessing = pq[q].nProcessing
       /\ R.mem # "none" /\ wk' = wk
  BY <1>1, <1>3, <1>4, <1>5
<1> HIDE DEF R
<1> QED
  BY <1>1, <1>2, <1>6, <1>8, <1>9, <1>10, <1>11, IdleOK, ClientOK

\* Dispatch: the job is appended or given back.  Q is the queue so far.
LEMMA EnqueueOK ==
    ASSUME IInv, NEW t \in Threads, NEW q \in Queues, NEW Q \in QueueType, QueueInv(Q),
           Q.base = pq[q].base, Q.curr >= pq[q].curr,
           Q.nProcessing = pq[q].nProcessing, Q.mem # "none",
           NEW j \in Job, Numbered(Q, j), NEW mode, NoReset(t, q),
           Enqueue(t, q, Q, j, mode)
    PROVE  IInv'
<1>1. th' = [th EXCEPT ![t] = Idle] /\ wk' = wk /\ poolDown' = poolDown
  BY DEF Enqueue
<1>2. j.id \in 1 .. MaxCalls /\ ring \in Seq(Queues)
  BY DEF Job, IInv, TypeOK
<1>3. CASE mode = "block" /\ (Q.noMore \/ Q.shut # 0)
  <2>1. /\ pq' = [pq EXCEPT ![q] = Q] /\ settled' = [settled EXCEPT ![q] = @ \cup {j.id}]
        /\ woken' = woken \ {t} /\ ring' = ring /\ njobs' = njobs
    BY <1>3 DEF Enqueue
  <2>2. Rest
    BY <1>1, <1>2, <2>1 DEF Rest, IInv, TypeOK
  <2> QED
    BY <1>1, <2>1, <2>2, IdleOK, ClientOK
<1>4. CASE ~ (mode = "block" /\ (Q.noMore \/ Q.shut # 0))
  <2> DEFINE R == Appended(Q, j, mode)
  <2>1. /\ pq' = [pq EXCEPT ![q] = R] /\ settled' = settled /\ njobs' = njobs + 1
        /\ ring' = IF Q.shut = 0 THEN RotateTo(ring, q) ELSE ring
        /\ woken' = (woken \ {t}) \cup (IF Q.shut = 0 THEN WakeWorker(Q, njobs + 1) ELSE {})
    BY <1>4 DEF Enqueue
  <2>2. ring' \in Seq(Queues) /\ \A p \in Queues : Attached(ring', p) => Attached(ring, p)
    BY <1>2, <2>1, RotateToOK
  <2>3. woken' \subseteq Workers \cup Threads
    BY <2>1, SignalsOK DEF IInv, TypeOK
  <2>4. Rest
    BY <1>1, <2>1, <2>2, <2>3 DEF Rest, IInv, TypeOK
  <2>5. /\ R \in QueueType /\ QueueInv(R) /\ R.base = Q.base /\ R.curr = Q.curr
        /\ R.nProcessing = Q.nProcessing /\ R.mem = Q.mem
    BY AppendedOK
  <2> HIDE DEF R
  <2> QED
    BY <1>1, <2>1, <2>2, <2>4, <2>5, IdleOK, ClientOK
<1> QED
  BY <1>3, <1>4

\* The queue of an open call exists and is well-formed.
LEMMA OpenQueue ==
    ASSUME IInv, NEW q \in Queues
    PROVE  /\ pq[q] \in QueueType /\ QueueInv(pq[q])
           /\ Open(q) => pq[q].mem = "live"
           /\ \A t \in Threads : th[t].q = q => pq[q].mem # "none"
BY DEF IInv, TypeOK, Open, Live, UnbornInv

LEMMA DispatchOK ==
    ASSUME IInv, NEW t \in Threads, NEW q \in Queues, NEW mode, Dispatch(t, q, mode)
    PROVE  IInv'
<1> DEFINE Q == Drawn(pq[q])
           j == [serial |-> pq[q].curr, id |-> Q.calls]
           x == [pc |-> "notFull", call |-> "dispatch", q |-> q, job |-> j]
<1>1. pq[q] \in QueueType /\ QueueInv(pq[q]) /\ pq[q].mem = "live" /\ pq[q].calls < MaxCalls
  BY OpenQueue DEF Dispatch
<1>2. /\ Q \in QueueType /\ QueueInv(Q) /\ j \in Job /\ Numbered(Q, j)
      /\ Q.base = pq[q].base /\ Q.curr = pq[q].curr + 1
      /\ Q.nProcessing = pq[q].nProcessing /\ Q.mem = pq[q].mem
  BY <1>1, DrawnOK
<1>3. Q.curr >= pq[q].curr
  BY <1>1, <1>2, FieldTypes
<1>4. NoReset(t, q)
  BY OutsideNoReset DEF Dispatch
<1>5. \/ /\ th' = [th EXCEPT ![t] = x] /\ pq' = [pq EXCEPT ![q] = Q]
         /\ UNCHANGED <<ring, njobs, poolDown, wk, woken, settled>>
      \/ Enqueue(t, q, Q, j, mode)
  BY DEF Dispatch
<1>6. x \in ThreadType /\ x.q = q /\ x.call = "dispatch" /\ x.pc = "notFull" /\ x.job = j
  BY <1>2 DEF ThreadType, QueueConds
<1> HIDE DEF Q, j, x
<1>7. CASE /\ th' = [th EXCEPT ![t] = x] /\ pq' = [pq EXCEPT ![q] = Q]
           /\ UNCHANGED <<ring, njobs, poolDown, wk, woken, settled>>
  <2>1. pq'[q] = Q
    BY <1>7 DEF IInv, TypeOK
  <2>2. ThreadInv(x, pq')
    BY <1>2, <1>6, <2>1 DEF ThreadInv
  <2>3. Rest
    BY <1>7 DEF Rest, IInv, TypeOK
  <2> QED
    BY <1>1, <1>2, <1>3, <1>4, <1>6, <1>7, <2>2, <2>3, ClientOK
<1>8. CASE Enqueue(t, q, Q, j, mode)
  BY <1>1, <1>2, <1>3, <1>4, <1>8, EnqueueOK
<1> QED
  BY <1>5, <1>7, <1>8

\* A client at a pc other than idle is in some queue.
LEMMA InsideQueue ==
    ASSUME IInv, NEW t \in Threads, th[t].pc # "idle"
    PROVE  /\ th[t] \in ThreadType /\ ThreadInv(th[t], pq) /\ th[t].q \in Queues
           /\ pq[th[t].q] \in QueueType /\ QueueInv(pq[th[t].q])
           /\ pq[th[t].q].mem # "none"
<1>1. th[t] \in ThreadType /\ ThreadInv(th[t], pq) /\ th[t].q \in Queues
  BY DEF IInv, TypeOK, ThreadInv
<1> QED
  BY <1>1, OpenQueue

\* Only the signals change.
LEMMA WaitOnOK ==
    ASSUME IInv, NEW t \in Threads, woken' = woken \ {t},
           UNCHANGED <<pq, ring, njobs, poolDown, wk, th, settled>>
    PROVE  IInv'
<1>1. Rest
  BY DEF Rest, IInv, TypeOK
<1> QED
  BY <1>1, SignalStep

LEMMA DispatchWakeOK ==
    ASSUME IInv, NEW t \in Threads, DispatchWake(t)
    PROVE  IInv'
<1>1. th[t].pc = "notFull"
  BY DEF DispatchWake
<1>2. PICK q \in Queues : q = th[t].q
  BY <1>1, InsideQueue
<1>3. /\ pq[q] \in QueueType /\ QueueInv(pq[q]) /\ pq[q].mem # "none"
      /\ ThreadInv(th[t], pq)
  BY <1>1, <1>2, InsideQueue
<1>4. th[t].call = "dispatch" /\ th[t].job \in Job /\ Numbered(pq[q], th[t].job)
  BY <1>1, <1>2, <1>3 DEF ThreadInv
<1>5. NoReset(t, q) /\ pq[q].curr >= pq[q].curr
  BY <1>2, <1>3, <1>4, InsideNoReset, FieldTypes
<1>6. CASE woken' = woken \ {t} /\ UNCHANGED <<pq, ring, njobs, poolDown, wk, th, settled>>
  BY <1>6, WaitOnOK
<1>7. CASE Enqueue(t, q, pq[q], th[t].job, "block")
  BY <1>3, <1>4, <1>5, <1>7, EnqueueOK
<1> QED
  BY <1>2, <1>6, <1>7 DEF DispatchWake

\* A result is handed out.
LEMMA DeliverOK ==
    ASSUME IInv, NEW t \in Threads, NEW q \in Queues, NEW Q \in QueueType, QueueInv(Q),
           Q.base = pq[q].base, Q.curr = pq[q].curr, Q.input = pq[q].input,
           Q.nProcessing = pq[q].nProcessing, Q.mem # "none",
           Deliver(t, q, Q)
    PROVE  IInv'
<1>1. PICK r \in Found(Q) :
         LET R == Without(Q, r)
             room == R.nOutput < R.qsize
         IN  /\ pq' = [pq EXCEPT ![q] = R]
             /\ settled' = [settled EXCEPT ![q] = @ \cup {r.id}]
             /\ ring' = IF room THEN RotateTo(ring, q) ELSE ring
             /\ \E S \in IF room /\ R.nInput < R.qsize THEN Signal("notFull", q) ELSE {{}} :
                   woken' = (woken \ {t}) \cup S
                            \cup (IF room THEN WakeWorker(R, njobs) ELSE {})
  BY DEF Deliver
<1> DEFINE R == Without(Q, r)
<1>2. /\ R \in QueueType /\ QueueInv(R) /\ R.base = Q.base /\ R.curr = Q.curr
      /\ R.nProcessing = Q.nProcessing /\ R.input = Q.input /\ R.mem = Q.mem
  BY WithoutOK
<1>3. /\ pq' = [pq EXCEPT ![q] = R] /\ settled' = [settled EXCEPT ![q] = @ \cup {r.id}]
      /\ ring' = IF R.nOutput < R.qsize THEN RotateTo(ring, q) ELSE ring
  BY <1>1
<1>4. PICK S \in IF R.nOutput < R.qsize /\ R.nInput < R.qsize
                 THEN Signal("notFull", q) ELSE {{}} :
         woken' = (woken \ {t}) \cup S
                  \cup (IF R.nOutput < R.qsize THEN WakeWorker(R, njobs) ELSE {})
  BY <1>1
<1> HIDE DEF R
<1>5. S \subseteq Threads
  BY SignalsOK
<1>6. woken' \subseteq Workers \cup Threads
  BY <1>4, <1>5, SignalsOK DEF IInv, TypeOK
<1>7. r.id \in 1 .. MaxCalls
  BY FieldTypes DEF Found, Job
<1>8. ring' \in Seq(Queues) /\ \A p \in Queues : Attached(ring', p) => Attached(ring, p)
  <2>1. ring \in Seq(Queues)
    BY DEF IInv, TypeOK
  <2> QED
    BY <2>1, <1>3, RotateToOK
<1>9. th' = [th EXCEPT ![t] = Idle] /\ wk' = wk /\ njobs' = njobs /\ poolDown' = poolDown
  BY DEF Deliver
<1>10. Rest
  BY <1>3, <1>6, <1>7, <1>8, <1>9 DEF Rest, IInv, TypeOK
<1>11. R.curr >= pq[q].curr
  BY <1>2, FieldTypes
<1> QED
  BY <1>2, <1>3, <1>8, <1>9, <1>10, <1>11, IdleOK, ClientOK

LEMMA NextResultOK ==
    ASSUME IInv, NEW t \in Threads, NEW q \in Queues, NextResult(t, q)
    PROVE  IInv'
<1>1. pq[q] \in QueueType /\ QueueInv(pq[q]) /\ pq[q].mem # "none"
  BY OpenQueue DEF NextResult
<1> QED
  BY <1>1, DeliverOK DEF NextResult

LEMMA NextResultWaitOK ==
    ASSUME IInv, NEW t \in Threads, NEW q \in Queues, NextResultWait(t, q)
    PROVE  IInv'
<1> DEFINE x == [pc |-> "avail", call |-> "next", q |-> q, job |-> NoJob]
           R == [pq[q] EXCEPT !.ref = pq[q].ref + 1]
<1>1. pq[q] \in QueueType /\ QueueInv(pq[q]) /\ pq[q].mem # "none"
  BY OpenQueue DEF NextResultWait
<1>2. pq[q].ref + 1 \in Int
  BY <1>1, FieldTypes
<1>3. /\ R \in QueueType /\ QueueInv(R) /\ R.base = pq[q].base /\ R.curr = pq[q].curr
      /\ R.input = pq[q].input /\ R.nProcessing = pq[q].nProcessing /\ R.mem = pq[q].mem
  BY <1>1, <1>2, RefOK, Zenon
<1>4. /\ pq' = [pq EXCEPT ![q] = R] /\ th' = [th EXCEPT ![t] = x]
      /\ UNCHANGED <<ring, njobs, poolDown, wk, woken, settled>>
  BY Zenon DEF NextResultWait
<1>5. x \in ThreadType /\ x.q = q /\ x.call = "next" /\ x.pc = "avail"
  BY DEF ThreadType, QueueConds
<1> HIDE DEF x, R
<1>6. ThreadInv(x, pq')
  BY <1>5 DEF ThreadInv
<1>7. Rest
  BY <1>4 DEF Rest, IInv, TypeOK
<1>8. R.curr >= pq[q].curr
  BY <1>1, <1>3, FieldTypes
<1> QED
  BY <1>1, <1>3, <1>4, <1>5, <1>6, <1>7, <1>8, ClientOK

LEMMA NextResultWakeOK ==
    ASSUME IInv, NEW t \in Threads, NextResultWake(t)
    PROVE  IInv'
<1>1. th[t].pc = "avail"
  BY DEF NextResultWake
<1>2. PICK q \in Queues : q = th[t].q
  BY <1>1, InsideQueue
<1>3. pq[q] \in QueueType /\ QueueInv(pq[q]) /\ pq[q].mem # "none" /\ pq[q].ref - 1 \in Int
  BY <1>1, <1>2, InsideQueue, FieldTypes
<1>4. CASE Deliver(t, q, [pq[q] EXCEPT !.ref = @ - 1])
  <2> DEFINE R == [pq[q] EXCEPT !.ref = pq[q].ref - 1]
  <2>1. /\ R \in QueueType /\ QueueInv(R) /\ R.base = pq[q].base /\ R.curr = pq[q].curr
        /\ R.input = pq[q].input /\ R.nProcessing = pq[q].nProcessing /\ R.mem = pq[q].mem
    BY <1>3, RefOK, Zenon
  <2>2. Deliver(t, q, R)
    BY <1>4
  <2> HIDE DEF R
  <2> QED
    BY <1>3, <2>1, <2>2, DeliverOK
<1>5. CASE /\ th' = [th EXCEPT ![t] = Idle] /\ pq' = [pq EXCEPT ![q] = Unref(pq[q])]
           /\ woken' = woken \ {t} /\ UNCHANGED <<ring, njobs, poolDown, wk, settled>>
  <2> DEFINE R == Unref(pq[q])
  <2>1. /\ R \in QueueType /\ QueueInv(R) /\ R.base = pq[q].base /\ R.curr = pq[q].curr
        /\ R.input = pq[q].input /\ R.nProcessing = pq[q].nProcessing /\ R.mem # "none"
    BY <1>3, UnrefOK
  <2>2. Rest
    BY <1>5 DEF Rest, IInv, TypeOK
  <2>3. R.curr >= pq[q].curr
    BY <1>3, <2>1, FieldTypes
  <2> HIDE DEF R
  <2>4. pq' = [pq EXCEPT ![q] = R]
    BY <1>5 DEF R
  <2> QED
    BY <1>5, <2>1, <2>2, <2>3, <2>4, IdleOK, ClientOK
<1>6. CASE woken' = woken \ {t} /\ UNCHANGED <<pq, ring, njobs, poolDown, wk, th, settled>>
  BY <1>6, WaitOnOK
<1> QED
  BY <1>2, <1>4, <1>5, <1>6, Zenon DEF NextResultWake

\* The fields that the invariant is about, but for qsize, which may grow.
SameFields(R, Q) ==
    /\ R.input = Q.input /\ R.output = Q.output /\ R.nInput = Q.nInput
    /\ R.nProcessing = Q.nProcessing /\ R.nOutput = Q.nOutput
    /\ R.next = Q.next /\ R.curr = Q.curr /\ R.qsize >= Q.qsize
    /\ R.calls = Q.calls /\ R.base = Q.base /\ R.got = Q.got

\* A client changes nothing of a queue but such other fields.
LEMMA FlagStep ==
    ASSUME IInv, NEW t \in Threads, NEW x \in ThreadType,
           th' = [th EXCEPT ![t] = x], wk' = wk, Rest, NEW q \in Queues,
           NEW R \in QueueType, SameFields(R, pq[q]), R.mem # "none",
           pq' = [pq EXCEPT ![q] = R],
           ThreadInv(x, pq'), x.q \in {q, "none"},
           x.call \in {"none", "next"} \/ NoReset(t, q),
           x.call \in {"reset", "destroy"} =>
               /\ x.q = q
               /\ \A u \in Threads \ {t} : th[u].q = q =>
                     th[u].call \notin {"dispatch", "flush", "reset", "destroy"}
               /\ x.pc # "destroy" => R.input = <<>>
               /\ x.pc = "resetEnd" => R.nProcessing = 0,
           \A p \in Queues : Attached(ring', p) => Attached(ring, p)
    PROVE  IInv'
<1>1. pq[q] \in QueueType /\ QueueInv(pq[q])
  BY OpenQueue
<1>2. QueueInv(R)
  BY <1>1, OtherFields DEF SameFields
<1>3. R.base = pq[q].base /\ R.curr >= pq[q].curr /\ R.nProcessing = pq[q].nProcessing
      /\ R.input = pq[q].input
  BY <1>1, FieldTypes DEF SameFields
<1> QED
  BY <1>2, <1>3, ClientOK

\* A client in no call stays so.
LEMMA StaysIdle ==
    ASSUME IInv, NEW t \in Threads, th[t] = Idle, th' = th
    PROVE  th' = [th EXCEPT ![t] = Idle]
BY DEF IInv, TypeOK

LEMMA WakeDispatchOK ==
    ASSUME IInv, NEW t \in Threads, NEW q \in Queues, WakeDispatch(t, q)
    PROVE  IInv'
<1> DEFINE R == [pq[q] EXCEPT !.wake = TRUE]
<1>1. pq[q] \in QueueType /\ pq[q].mem = "live" /\ th[t] = Idle
  BY OpenQueue DEF WakeDispatch
<1>2. /\ pq' = [pq EXCEPT ![q] = R] /\ ring' = ring /\ njobs' = njobs
      /\ poolDown' = poolDown /\ wk' = wk /\ th' = th /\ settled' = settled
  BY Zenon DEF WakeDispatch
<1>3. pq[q].qsize >= pq[q].qsize
  BY <1>1, FieldTypes
<1>4. R \in QueueType /\ R.mem = pq[q].mem /\ SameFields(R, pq[q])
  BY <1>1, <1>3, Zenon DEF QueueType, SameFields
<1> HIDE DEF R
<1>5. PICK S \in Signal("notFull", q) : woken' = woken \cup S
  BY DEF WakeDispatch
<1>6. Rest
  BY <1>2, <1>5, SignalsOK DEF Rest, IInv, TypeOK
<1> QED
  BY <1>1, <1>2, <1>4, <1>6, IdleOK, StaysIdle, FlagStep

LEMMA ProcessShutdownOK ==
    ASSUME IInv, NEW t \in Threads, NEW q \in Queues, ProcessShutdown(t, q)
    PROVE  IInv'
<1> DEFINE R == [pq[q] EXCEPT !.shut = 1]
<1>1. pq[q] \in QueueType /\ pq[q].mem = "live" /\ th[t] = Idle
  BY OpenQueue DEF ProcessShutdown
<1>2. /\ pq' = [pq EXCEPT ![q] = R] /\ ring' = ring /\ njobs' = njobs
      /\ poolDown' = poolDown /\ wk' = wk /\ th' = th /\ settled' = settled
  BY Zenon DEF ProcessShutdown
<1>3. pq[q].qsize >= pq[q].qsize /\ 1 \in 0 .. 2
  BY <1>1, FieldTypes
<1>4. R \in QueueType /\ R.mem = pq[q].mem /\ SameFields(R, pq[q])
  BY <1>1, <1>3, Zenon DEF QueueType, SameFields
<1> HIDE DEF R
<1>5. Rest
  BY <1>2, SignalsOK DEF ProcessShutdown, Rest, IInv, TypeOK
<1> QED
  BY <1>1, <1>2, <1>4, <1>5, IdleOK, StaysIdle, FlagStep

\* The queue as it is, for the steps that leave it alone.
LEMMA SameQueue ==
    ASSUME IInv, NEW q \in Queues
    PROVE  pq = [pq EXCEPT ![q] = pq[q]] /\ SameFields(pq[q], pq[q])
<1>1. pq[q].qsize >= pq[q].qsize
  BY OpenQueue, FieldTypes
<1> QED
  BY <1>1 DEF IInv, TypeOK, SameFields

LEMMA ProcessFlushOK ==
    ASSUME IInv, NEW t \in Threads, NEW q \in Queues, ProcessFlush(t, q)
    PROVE  IInv'
<1> DEFINE x == [pc |-> "flush", call |-> "flush", q |-> q, job |-> NoJob]
<1>1. pq[q] \in QueueType /\ pq[q].mem = "live" /\ NoReset(t, q)
  BY OpenQueue, OutsideNoReset DEF ProcessFlush
<1>2. th' = [th EXCEPT ![t] = x] /\ UNCHANGED <<pq, ring, njobs, poolDown, wk, woken, settled>>
  BY DEF ProcessFlush
<1>3. x \in ThreadType /\ x.q = q /\ x.call = "flush" /\ x.pc = "flush"
  BY DEF ThreadType
<1> HIDE DEF x
<1>4. ThreadInv(x, pq')
  BY <1>3 DEF ThreadInv
<1>5. Rest
  BY <1>2 DEF Rest, IInv, TypeOK
<1> QED
  BY <1>1, <1>2, <1>3, <1>4, <1>5, SameQueue, FlagStep

\* A client inside a flush, reset or destroy goes on with pc.
LEMMA FlushToOK ==
    ASSUME IInv, NEW t \in Threads,
           th[t].pc \in {"flush", "inputEmpty", "noneProcessing"},
           NEW c \in {"idle", "inputEmpty", "noneProcessing", "resetEnd"},
           NEW q \in Queues, th[t].q = q,
           c = "resetEnd" => th[t].call # "flush" /\ pq[q].nProcessing = 0,
           FlushTo(t, c), wk' = wk, ring' = ring, Rest,
           NEW R \in QueueType, SameFields(R, pq[q]), R.mem # "none",
           pq' = [pq EXCEPT ![q] = R]
    PROVE  IInv'
<1> DEFINE x == IF c = "idle" THEN Idle ELSE [th[t] EXCEPT !.pc = c]
<1>1. th[t] \in ThreadType /\ ThreadInv(th[t], pq) /\ th \in [Threads -> ThreadType]
  BY DEF IInv, TypeOK
<1>2. th[t].call \in {"flush", "reset", "destroy"}
  BY <1>1 DEF ThreadInv, ThreadType
<1>3. th' = [th EXCEPT ![t] = x]
  BY DEF FlushTo
<1>4. CASE c = "idle"
  <2>1. x = Idle
    BY <1>4
  <2> QED
    BY <1>3, <2>1, IdleOK, FlagStep
<1>5. CASE c # "idle"
  <2>1. x = [th[t] EXCEPT !.pc = c]
    BY <1>5
  <2>2. x \in ThreadType /\ x.pc = c /\ x.call = th[t].call /\ x.q = q
    <3>1. c \in {"idle", "flush", "resetEnd", "destroy", "destroyEnd"} \cup QueueConds
      BY DEF QueueConds
    <3> QED
      BY <1>1, <2>1, <3>1, Zenon DEF ThreadType
  <2> HIDE DEF x
  <2>3. ThreadInv(x, pq')
    BY <1>2, <1>5, <2>2 DEF ThreadInv
  <2>4. NoReset(t, q)
    BY <1>2, InsideNoReset
  <2>5. x.call \in {"reset", "destroy"} =>
           /\ \A u \in Threads \ {t} : th[u].q = q =>
                 th[u].call \notin {"dispatch", "flush", "reset", "destroy"}
           /\ R.input = <<>>
           /\ x.pc = "resetEnd" => R.nProcessing = 0
    BY <2>2 DEF IInv, ResetInv, SameFields
  <2> QED
    BY <1>3, <2>2, <2>3, <2>4, <2>5, FlagStep
<1> QED
  BY <1>4, <1>5

LEMMA FlushNextOK ==
    ASSUME NEW Q \in QueueType, NEW call
    PROVE  /\ FlushNext(Q, call) \in {"idle", "inputEmpty", "noneProcessing", "resetEnd"}
           /\ FlushNext(Q, call) = "resetEnd" => call # "flush" /\ Q.nProcessing = 0
BY DEF FlushNext

LEMMA FlushStartOK ==
    ASSUME IInv, NEW t \in Threads, FlushStart(t)
    PROVE  IInv'
<1>1. th[t].pc = "flush"
  BY DEF FlushStart
<1>2. PICK q \in Queues : q = th[t].q
  BY <1>1, InsideQueue
<1>3. pq[q] \in QueueType /\ pq[q].mem # "none"
  BY <1>1, <1>2, InsideQueue
<1> DEFINE total == pq[q].nOutput + pq[q].nInput + pq[q].nProcessing
           n == IF pq[q].qsize < total THEN total ELSE pq[q].qsize
           R == [pq[q] EXCEPT !.qsize = n]
           c == FlushNext(pq[q], th[t].call)
<1>4. /\ pq' = [pq EXCEPT ![q] = R] /\ FlushTo(t, c)
      /\ ring' = ring /\ njobs' = njobs /\ poolDown' = poolDown /\ wk' = wk /\ settled' = settled
  BY <1>2, Zenon DEF FlushStart
<1>5. n \in Nat /\ n >= pq[q].qsize
  BY <1>3, FieldTypes, SMTT(40)
<1>6. /\ c \in {"idle", "inputEmpty", "noneProcessing", "resetEnd"}
      /\ c = "resetEnd" => th[t].call # "flush" /\ pq[q].nProcessing = 0
  BY <1>3, FlushNextOK
<1> HIDE DEF n, c
<1>7. R \in QueueType /\ R.mem = pq[q].mem /\ SameFields(R, pq[q])
  BY <1>3, <1>5, Zenon DEF QueueType, SameFields
<1> HIDE DEF R
<1>8. Rest
  BY <1>4, SignalsOK DEF FlushStart, Rest, IInv, TypeOK
<1> QED
  BY <1>1, <1>2, <1>3, <1>4, <1>6, <1>7, <1>8, FlushToOK

LEMMA FlushWakeOK ==
    ASSUME IInv, NEW t \in Threads, FlushWake(t)
    PROVE  IInv'
<1>1. th[t].pc \in {"inputEmpty", "noneProcessing"}
  BY DEF FlushWake
<1>2. PICK q \in Queues : q = th[t].q
  BY <1>1, InsideQueue
<1>3. pq[q] \in QueueType /\ pq[q].mem # "none"
  BY <1>1, <1>2, InsideQueue
<1> DEFINE c == IF th[t].pc = "noneProcessing" /\ pq[q].nProcessing # 0
                THEN "noneProcessing" ELSE FlushNext(pq[q], th[t].call)
<1>4. /\ FlushTo(t, c) /\ woken' = woken \ {t}
      /\ UNCHANGED <<pq, ring, njobs, poolDown, wk, settled>>
  BY <1>2 DEF FlushWake
<1>5. /\ c \in {"idle", "inputEmpty", "noneProcessing", "resetEnd"}
      /\ c = "resetEnd" => th[t].call # "flush" /\ pq[q].nProcessing = 0
  BY <1>3, FlushNextOK
<1> HIDE DEF c
<1>6. Rest
  BY <1>4 DEF Rest, IInv, TypeOK
<1> QED
  BY <1>1, <1>2, <1>3, <1>4, <1>5, <1>6, SameQueue, FlushToOK

\* The ids of what a reset discards.
LEMMA DiscardIds ==
    ASSUME IInv, NEW q \in Queues
    PROVE  /\ {pq[q].input[i].id : i \in DOMAIN pq[q].input} \subseteq 1 .. MaxCalls
           /\ {r.id : r \in pq[q].output} \subseteq 1 .. MaxCalls
<1>1. pq[q].input \in Seq(Job) /\ pq[q].output \in SUBSET Job
  BY OpenQueue, FieldTypes
<1>2. \A i \in DOMAIN pq[q].input : pq[q].input[i] \in Job
  BY <1>1
<1>3. \A j \in Job : j.id \in 1 .. MaxCalls
  BY DEF Job
<1> QED
  BY <1>1, <1>2, <1>3

\* The first critical section of a reset or destroy by t, which has q to itself.
LEMMA DiscardStep ==
    ASSUME IInv, NEW t \in Threads, NEW x \in ThreadType, NEW q \in Queues,
           x.q = q, x.pc = "flush", x.call \in {"reset", "destroy"},
           th' = [th EXCEPT ![t] = x], pq[q].mem # "none",
           ResetDiscard(q, pq[q]),
           \A u \in Threads \ {t} : th[u].q = q =>
               th[u].call \notin {"dispatch", "flush", "reset", "destroy"},
           UNCHANGED <<ring, njobs, poolDown, wk, woken>>
    PROVE  IInv'
<1> DEFINE R == Discarded(pq[q])
<1>1. pq[q] \in QueueType /\ QueueInv(pq[q])
  BY OpenQueue
<1>2. /\ R \in QueueType /\ QueueInv(R) /\ R.base = pq[q].base /\ R.curr = pq[q].curr
      /\ R.nProcessing = pq[q].nProcessing /\ R.input = <<>> /\ R.mem = pq[q].mem
  BY <1>1, DiscardedOK
<1>3. /\ pq' = [pq EXCEPT ![q] = R]
      /\ settled' = [settled EXCEPT ![q] =
                        @ \cup {pq[q].input[i].id : i \in DOMAIN pq[q].input}
                          \cup {r.id : r \in pq[q].output}]
  BY DEF ResetDiscard
<1> HIDE DEF R
<1>4. settled' \in [Queues -> SUBSET (1 .. MaxCalls)]
  <2>1. settled \in [Queues -> SUBSET (1 .. MaxCalls)]
    BY DEF IInv, TypeOK
  <2> QED
    BY <2>1, <1>3, DiscardIds
<1>5. Rest
  BY <1>4 DEF Rest, IInv, TypeOK
<1>6. R.curr >= pq[q].curr
  BY <1>1, <1>2, FieldTypes
<1>7. ThreadInv(x, pq')
  BY DEF ThreadInv
<1>8. NoReset(t, q)
  BY DEF NoReset
<1> QED
  BY <1>2, <1>3, <1>5, <1>6, <1>7, <1>8, ClientOK

LEMMA ProcessResetOK ==
    ASSUME IInv, NEW t \in Threads, NEW q \in Queues, ProcessReset(t, q)
    PROVE  IInv'
<1> DEFINE x == [pc |-> "flush", call |-> "reset", q |-> q, job |-> NoJob]
<1>1. pq[q].mem = "live" /\ Open(q)
  BY OpenQueue DEF ProcessReset
<1>2. \A u \in Threads \ {t} : th[u].q = q =>
         th[u].call \notin {"dispatch", "flush", "reset", "destroy"}
  BY <1>1 DEF ProcessReset, Open, Inside
<1>3. /\ th' = [th EXCEPT ![t] = x] /\ ResetDiscard(q, pq[q])
      /\ UNCHANGED <<ring, njobs, poolDown, wk, woken>>
  BY DEF ProcessReset
<1>4. x \in ThreadType /\ x.q = q /\ x.call = "reset" /\ x.pc = "flush"
  BY DEF ThreadType
<1> HIDE DEF x
<1> QED
  BY <1>1, <1>2, <1>3, <1>4, DiscardStep

LEMMA ProcessDestroyOK ==
    ASSUME IInv, NEW t \in Threads, NEW q \in Queues, ProcessDestroy(t, q)
    PROVE  IInv'
<1> DEFINE x == [pc |-> "destroy", call |-> "destroy", q |-> q, job |-> NoJob]
           R == [pq[q] EXCEPT !.noMore = TRUE]
<1>1. pq[q] \in QueueType /\ pq[q].mem = "live" /\ Open(q)
  BY OpenQueue DEF ProcessDestroy
<1>2. \A u \in Threads \ {t} : th[u].q = q =>
         th[u].call \notin {"dispatch", "flush", "reset", "destroy"}
  BY <1>1 DEF ProcessDestroy, Open, Inside
<1>3. /\ th' = [th EXCEPT ![t] = x] /\ pq' = [pq EXCEPT ![q] = R]
      /\ UNCHANGED <<ring, njobs, poolDown, wk, woken, settled>>
  BY Zenon DEF ProcessDestroy
<1>4. x \in ThreadType /\ x.q = q /\ x.call = "destroy" /\ x.pc = "destroy"
  BY DEF ThreadType
<1>5. pq[q].qsize >= pq[q].qsize
  BY <1>1, FieldTypes
<1>6. R \in QueueType /\ R.mem = pq[q].mem /\ SameFields(R, pq[q])
  BY <1>1, <1>5, Zenon DEF QueueType, SameFields
<1> HIDE DEF x, R
<1>7. ThreadInv(x, pq') /\ NoReset(t, q)
  BY <1>2, <1>4 DEF ThreadInv, NoReset
<1>8. Rest
  BY <1>3 DEF Rest, IInv, TypeOK
<1> QED
  BY <1>1, <1>2, <1>3, <1>4, <1>6, <1>7, <1>8, FlagStep

\* A client inside a reset or destroy has the queue to itself.
LEMMA InReset ==
    ASSUME IInv, NEW t \in Threads, th[t].call \in {"reset", "destroy"}
    PROVE  /\ th[t].pc # "idle"
           /\ \A u \in Threads \ {t} : th[u].q = th[t].q =>
                 th[u].call \notin {"dispatch", "flush", "reset", "destroy"}
           /\ th[t].pc # "destroy" => pq[th[t].q].input = <<>>
           /\ th[t].pc = "resetEnd" => pq[th[t].q].nProcessing = 0
<1>1. ThreadInv(th[t], pq) /\ ResetInv(t)
  BY DEF IInv
<1>2. th[t].pc # "idle"
  BY <1>1, IdleOK DEF ThreadInv
<1> QED
  BY <1>1, <1>2 DEF ResetInv

LEMMA DestroyResetOK ==
    ASSUME IInv, NEW t \in Threads, DestroyReset(t)
    PROVE  IInv'
<1>1. th[t].pc = "destroy"
  BY DEF DestroyReset
<1>2. PICK q \in Queues : q = th[t].q
  BY <1>1, InsideQueue
<1>3. pq[q].mem # "none" /\ th[t] \in ThreadType /\ th[t].call = "destroy"
  BY <1>1, <1>2, InsideQueue DEF ThreadInv
<1> DEFINE x == [th[t] EXCEPT !.pc = "flush"]
<1>4. x \in ThreadType /\ x.q = q /\ x.call = "destroy" /\ x.pc = "flush"
  BY <1>2, <1>3, Zenon DEF ThreadType
<1>5. /\ th' = [th EXCEPT ![t] = x] /\ ResetDiscard(q, pq[q])
      /\ UNCHANGED <<ring, njobs, poolDown, wk, woken>>
  BY <1>2, Zenon DEF DestroyReset
<1>6. \A u \in Threads \ {t} : th[u].q = q =>
         th[u].call \notin {"dispatch", "flush", "reset", "destroy"}
  BY <1>2, <1>3, InReset
<1> HIDE DEF x
<1> QED
  BY <1>2, <1>3, <1>4, <1>5, <1>6, DiscardStep

\* The numbering starts again when no job of the queue is left anywhere.
LEMMA ResetEndOK ==
    ASSUME IInv, NEW t \in Threads, ResetEnd(t)
    PROVE  IInv'
<1>1. th[t].pc = "resetEnd"
  BY DEF ResetEnd
<1>2. PICK q \in Queues : q = th[t].q
  BY <1>1, InsideQueue
<1>3. /\ pq[q] \in QueueType /\ QueueInv(pq[q]) /\ pq[q].mem # "none"
      /\ th[t] \in ThreadType /\ th[t].call \in {"reset", "destroy"}
  BY <1>1, <1>2, InsideQueue DEF ThreadInv
<1>4. /\ \A u \in Threads \ {t} : th[u].q = q =>
            th[u].call \notin {"dispatch", "flush", "reset", "destroy"}
      /\ pq[q].input = <<>> /\ pq[q].nProcessing = 0
  BY <1>1, <1>2, <1>3, InReset
<1> DEFINE R == Restarted(pq[q])
           x == IF th[t].call = "reset" THEN Idle ELSE [th[t] EXCEPT !.pc = "destroyEnd"]
<1>5. /\ R \in QueueType /\ QueueInv(R) /\ R.nProcessing = pq[q].nProcessing
      /\ R.input = <<>> /\ R.mem = pq[q].mem
  BY <1>3, <1>4, RestartedOK
<1>6. NoneNumbered(t, q)
  <2>1. Running(q) = {}
    <3>1. Cardinality(Running(q)) = 0 /\ IsFiniteSet(Running(q))
      BY <1>4, RunningFinite DEF IInv
    <3> QED
      BY <3>1, FS_EmptySet
  <2>2. \A u \in Threads : ThreadInv(th[u], pq)
    BY DEF IInv
  <2> QED
    BY <1>4, <2>1, <2>2 DEF NoneNumbered, ThreadInv
<1>7. /\ th' = [th EXCEPT ![t] = x] /\ pq' = [pq EXCEPT ![q] = R]
      /\ settled' = [settled EXCEPT ![q] = @ \cup {r.id : r \in pq[q].output}]
      /\ ring' = ring /\ njobs' = njobs /\ poolDown' = poolDown /\ wk' = wk
  BY <1>2, Zenon DEF ResetEnd
<1>8. Rest
  <2>1. PICK S \in Signal("notFull", q) : woken' = woken \cup S
    BY <1>2 DEF ResetEnd
  <2>2. woken' \subseteq Workers \cup Threads
    BY <2>1, SignalsOK DEF IInv, TypeOK
  <2>3. settled \in [Queues -> SUBSET (1 .. MaxCalls)]
    BY DEF IInv, TypeOK
  <2>4. settled' \in [Queues -> SUBSET (1 .. MaxCalls)]
    BY <1>7, <2>3, DiscardIds
  <2> QED
    BY <1>7, <2>2, <2>4 DEF Rest, IInv, TypeOK
<1>9. NoReset(t, q)
  BY <1>4 DEF NoReset
<1> HIDE DEF R
<1>10. CASE th[t].call = "reset"
  <2>1. x = Idle
    BY <1>10
  <2> QED
    BY <1>3, <1>5, <1>6, <1>7, <1>8, <1>9, <2>1, IdleOK, ClientOK
<1>11. CASE th[t].call = "destroy"
  <2>1. x = [th[t] EXCEPT !.pc = "destroyEnd"]
    BY <1>11
  <2>2. x \in ThreadType /\ x.q = q /\ x.call = "destroy" /\ x.pc = "destroyEnd"
    BY <1>2, <1>3, <1>11, <2>1, Zenon DEF ThreadType
  <2> HIDE DEF x
  <2>3. ThreadInv(x, pq')
    BY <2>2 DEF ThreadInv
  <2> QED
    BY <1>3, <1>4, <1>5, <1>6, <1>7, <1>8, <1>9, <2>2, <2>3, ClientOK
<1> QED
  BY <1>3, <1>10, <1>11

LEMMA DestroyEndOK ==
    ASSUME IInv, NEW t \in Threads, DestroyEnd(t)
    PROVE  IInv'
<1>1. th[t].pc = "destroyEnd"
  BY DEF DestroyEnd
<1>2. PICK q \in Queues : q = th[t].q
  BY <1>1, InsideQueue
<1>3. pq[q] \in QueueType /\ QueueInv(pq[q]) /\ pq[q].mem # "none"
  BY <1>1, <1>2, InsideQueue
<1> DEFINE U == Unref(pq[q])
           R == [U EXCEPT !.shut = 1]
<1>4. /\ U \in QueueType /\ QueueInv(U) /\ U.base = pq[q].base /\ U.curr = pq[q].curr
      /\ U.input = pq[q].input /\ U.nProcessing = pq[q].nProcessing /\ U.mem # "none"
  BY <1>3, UnrefOK
<1>5. /\ pq' = [pq EXCEPT ![q] = R] /\ ring' = Detached(ring, q)
      /\ th' = [th EXCEPT ![t] = Idle] /\ woken' = woken \cup AllWaiters(q)
      /\ UNCHANGED <<njobs, poolDown, wk, settled>>
  BY <1>2 DEF DestroyEnd
<1> HIDE DEF U
<1>6. 1 \in 0 .. 2
  OBVIOUS
<1>7. /\ R \in QueueType /\ QueueInv(R) /\ R.base = U.base /\ R.curr = U.curr
      /\ R.input = U.input /\ R.nProcessing = U.nProcessing /\ R.mem = U.mem
  BY <1>4, <1>6, ShutOK, Zenon
<1> HIDE DEF R
<1>8. ring' \in Seq(Queues) /\ \A p \in Queues : Attached(ring', p) => Attached(ring, p)
  <2>1. ring \in Seq(Queues)
    BY DEF IInv, TypeOK
  <2> QED
    BY <2>1, <1>5, DetachedOK
<1>9. Rest
  BY <1>5, <1>8, SignalsOK DEF Rest, IInv, TypeOK
<1>10. R.curr >= pq[q].curr
  BY <1>3, <1>4, <1>7, FieldTypes
<1> QED
  BY <1>4, <1>5, <1>7, <1>8, <1>9, <1>10, IdleOK, ClientOK

----------------------------------------------------------------------------
(* The theorems.                                                           *)

LEMMA InitOK == Init => IInv
<1> SUFFICES ASSUME Init PROVE IInv
  OBVIOUS
<1>1. \A q \in Queues : Unborn(q) \in QueueType /\ QueueInv(Unborn(q)) /\ Unborn(q).nProcessing = 0
  <2>1. SUFFICES ASSUME NEW q \in Queues
                 PROVE  Unborn(q) \in QueueType /\ QueueInv(Unborn(q)) /\ Unborn(q).nProcessing = 0
    OBVIOUS
  <2> DEFINE Q == NewQueue(q)
             R == Unborn(q)
  <2>2. Q \in QueueType /\ QueueInv(Q) /\ Q.nProcessing = 0
    <3>1. Q.nProcessing = 0
      BY DEF NewQueue
    <3> QED
      BY <3>1, NewQueueOK
  <2>3. R = [Q EXCEPT !.mem = "none", !.ref = 0]
    BY DEF Unborn
  <2>4. 0 \in Int /\ Q.qsize >= Q.qsize
    BY <2>2, FieldTypes
  <2> HIDE DEF Q, R
  <2>5. R \in QueueType
    BY <2>2, <2>3, <2>4, Zenon DEF QueueType
  <2>6. SameFields(R, Q)
    BY <2>2, <2>3, <2>4, Zenon DEF QueueType, SameFields
  <2>7. QueueInv(R) /\ R.nProcessing = 0
    BY <2>2, <2>5, <2>6, OtherFields DEF SameFields
  <2> QED
    BY <2>5, <2>7 DEF R
<1>2. TypeOK
  <2>1. wk \in [Workers -> WorkerType]
    BY DEF Init, WorkerType
  <2>2. th \in [Threads -> ThreadType]
    BY IdleOK DEF Init
  <2>3. pq \in [Queues -> QueueType]
    BY <1>1 DEF Init
  <2>4. ring \in Seq(Queues) /\ njobs \in Int /\ woken \subseteq Workers \cup Threads
    BY DEF Init
  <2>5. poolDown \in BOOLEAN /\ settled \in [Queues -> SUBSET (1 .. MaxCalls)]
    BY DEF Init
  <2> QED
    BY <2>1, <2>2, <2>3, <2>4, <2>5 DEF TypeOK
<1>3. \A q \in Queues : QueueInv(pq[q])
  BY <1>1 DEF Init
<1>4. \A q \in Queues : pq[q].nProcessing = Cardinality(Running(q))
  <2>1. \A q \in Queues : Running(q) = {}
    BY DEF Init, Running
  <2> QED
    BY <1>1, <2>1, FS_EmptySet DEF Init
<1>5. \A w \in Workers : WorkerInv(wk[w], pq)
  BY DEF Init, WorkerInv
<1>6. \A t \in Threads : th[t] = Idle
  BY DEF Init
<1>7. \A t \in Threads : ThreadInv(th[t], pq) /\ ResetInv(t)
  BY <1>6, IdleOK DEF ResetInv
<1>8. \A q \in Queues : UnbornInv(q)
  <2>1. SUFFICES ASSUME NEW q \in Queues PROVE UnbornInv(q)
    OBVIOUS
  <2>2. \A w \in Workers : wk[w].q # q
    BY SetAssumption DEF Init
  <2>3. \A t \in Threads : th[t].q # q
    BY <1>6, IdleOK, SetAssumption
  <2>4. ~ Attached(ring, q)
    BY DEF Init, Attached
  <2>5. pq[q] = Unborn(q)
    BY DEF Init
  <2> QED
    BY <2>2, <2>3, <2>4, <2>5 DEF UnbornInv
<1> QED
  BY <1>2, <1>3, <1>4, <1>5, <1>7, <1>8 DEF IInv

LEMMA NextOK == IInv /\ [Next]_vars => IInv'
<1> SUFFICES ASSUME IInv, [Next]_vars PROVE IInv'
  OBVIOUS
<1>1. CASE UNCHANGED vars
  <2>1. Rest
    BY <1>1 DEF Rest, vars, IInv, TypeOK
  <2> QED
    BY <1>1, <2>1, SignalStep DEF vars
<1>2. ASSUME NEW w \in Workers, WorkerNext(w) PROVE IInv'
  BY <1>2, WorkersOK
<1>3. ASSUME NEW t \in Threads, ThreadStep(t) PROVE IInv'
  BY <1>3, DispatchWakeOK, NextResultWakeOK, FlushStartOK, FlushWakeOK, ResetEndOK,
     DestroyResetOK, DestroyEndOK DEF ThreadStep
<1>4. ASSUME NEW t \in Dispatchers, NEW q \in Queues, DispatcherCall(t, q) PROVE IInv'
  <2>1. t \in Threads
    BY DEF Threads
  <2> QED
    BY <1>4, <2>1, DispatchOK, ProcessFlushOK, ProcessResetOK DEF DispatcherCall
<1>5. ASSUME NEW t \in Consumers, NEW q \in Queues, ConsumerCall(t, q) PROVE IInv'
  <2>1. t \in Threads
    BY DEF Threads
  <2> QED
    BY <1>5, <2>1, ProcessInitOK, NextResultOK, NextResultWaitOK, WakeDispatchOK,
       ProcessShutdownOK, ProcessDestroyOK DEF ConsumerCall
<1>6. ASSUME NEW t \in Consumers, PoolDestroy(t) PROVE IInv'
  <2>1. t \in Threads
    BY DEF Threads
  <2> QED
    BY <1>6, <2>1, PoolDestroyOK
<1>7. ASSUME NEW x \in Workers \cup Threads, SpuriousWake(x) PROVE IInv'
  BY <1>7, SpuriousWakeOK
<1> QED
  BY <1>1, <1>2, <1>3, <1>4, <1>5, <1>6, <1>7 DEF Next

\* The invariant holds in every reachable state of the pool.
THEOREM Invariance == Spec => []IInv
BY InitOK, NextOK, PTL DEF Spec

\* Every field of the pool keeps its type; n_input, n_processing and n_output
\* never go below zero.
THEOREM TypeCorrect == Spec => []TypeOK
<1>1. IInv => TypeOK
  BY DEF IInv
<1> QED
  BY <1>1, Invariance, PTL

\* tpool_worker starts a job only when its result will fit in the queue.
THEOREM RoomForResults == Spec => []OutputFits
<1>1. IInv => OutputFits
  BY DEF IInv, QueueInv, OutputFits
<1> QED
  BY <1>1, Invariance, PTL

\* sa_tpool_next_result hands out results in the order of the dispatch calls,
\* and nothing from before a reset after it.
THEOREM InDispatchOrder == Spec => []ResultsInOrder
<1>1. IInv => ResultsInOrder
  BY DEF IInv, QueueInv, ResultsInOrder
<1> QED
  BY <1>1, Invariance, PTL

----------------------------------------------------------------------------
(* The life of a queue.                                                    *)

\* sa_tpool_process_destroy has begun: no call but those that wait gets in.
Closed(Q) == Q.noMore /\ Q.shut # 0

\* The references of queue Q: n is 1 while the queue is attached and its
\* creator has not given it up, W are the workers inside it and A the
\* consumers that wait for a result.
Life(Q, n, W, A) ==
    /\ Q.mem = "live" =>
        /\ Q.ref = n + Cardinality(W) + Cardinality(A)
        /\ Q.ref >= 1
        /\ n = 0 => Closed(Q)
    /\ Q.mem # "live" => n = 0 /\ W = {} /\ A = {}

\* A thread is in a queue that is attached, unless it waits for a result; and
\* a destroy lets nobody in.
CallerInv(x, Qs, s) ==
    x.q \in Queues =>
        /\ x.call # "next" => Attached(s, x.q)
        /\ x.call = "destroy" => Qs[x.q].noMore

\* No queue is attached twice.
OnceEach(s) == \A i, j \in DOMAIN s : s[i] = s[j] => i = j

LifeInv ==
    /\ OnceEach(ring)
    /\ \A q \in Queues : IsFiniteSet(WaitingFor(q))
    /\ \A q \in Queues : Life(pq[q], Creator(q), InQueue(q), WaitingFor(q))
    /\ \A t \in Threads : CallerInv(th[t], pq, ring)

----------------------------------------------------------------------------
(* The owner of a payload.                                                 *)

\* The threads and workers that hold a job of q, and the ids in each place.
Blocked(q) == {t \in Threads : th[t].q = q /\ th[t].pc = "notFull"}
Busy(q) == {w \in Workers : wk[w].q = q /\ wk[w].job # NoJob}
BlockedIds(q) == {th[t].job.id : t \in Blocked(q)}
InputIds(Q) == {Q.input[i].id : i \in DOMAIN Q.input}
BusyIds(q) == {wk[w].job.id : w \in Busy(q)}
OutputIds(Q) == {r.id : r \in Q.output}

\* The ids up to n are divided among five places.
Divided(n, B, I, W, O, S) ==
    /\ B \cup I \cup W \cup O \cup S = 1 .. n
    /\ B \cap (I \cup W \cup O \cup S) = {}
    /\ I \cap (W \cup O \cup S) = {}
    /\ W \cap (O \cup S) = {}
    /\ O \cap S = {}

\* Within a place an id occurs once.
OnceBlocked(q) == \A t, u \in Blocked(q) : th[t].job.id = th[u].job.id => t = u
OnceBusy(q) == \A v, w \in Busy(q) : wk[v].job.id = wk[w].job.id => v = w
OnceInInput(s) == \A i, k \in DOMAIN s : s[i].id = s[k].id => i = k

\* Every id drawn for q has one owner.
Owned(q) ==
    /\ Divided(pq[q].calls, BlockedIds(q), InputIds(pq[q]), BusyIds(q),
               OutputIds(pq[q]), settled[q])
    /\ OnceBlocked(q) /\ OnceBusy(q) /\ OnceInInput(pq[q].input)

\* A worker has a job in hand only from taking it to adding its result (a
\* result that cannot be added stays in hand); a client only in a dispatch.
WorkerHand(x) == x.pc \in {"scan", "wait", "loop"} => x.job = NoJob
ThreadHand(x) == x.pc # "notFull" => x.job = NoJob

OwnInv ==
    /\ \A w \in Workers : WorkerHand(wk[w])
    /\ \A t \in Threads : ThreadHand(th[t])
    /\ \A q \in Queues : Owned(q)

----------------------------------------------------------------------------
(* The turn of a result.                                                   *)

\* The turn of a job of Q has not passed.
Ahead(Q, j) == j.serial >= Q.next

Turn(q) ==
    pq[q].next # IntMax =>
        /\ pq[q].next <= pq[q].curr
        /\ \A t \in Blocked(q) : Ahead(pq[q], th[t].job)
        /\ \A i \in DOMAIN pq[q].input : Ahead(pq[q], pq[q].input[i])
        /\ \A w \in Running(q) : Ahead(pq[q], wk[w].job)
        /\ \A r \in pq[q].output : Ahead(pq[q], r)

TurnInv == \A q \in Queues : Turn(q)

----------------------------------------------------------------------------
(* The ring.                                                               *)

\* Making q the head shifts the list around.
LEMMA RotateToShift ==
    ASSUME NEW s \in Seq(Queues), NEW q, Attached(s, q)
    PROVE  \E i \in 1 .. Len(s) :
              /\ s[i] = q
              /\ RotateTo(s, q) \in Seq(Queues) /\ Len(RotateTo(s, q)) = Len(s)
              /\ \A k \in 1 .. Len(s) :
                    RotateTo(s, q)[k] = IF k <= Len(s) - i + 1 THEN s[i + k - 1]
                                        ELSE s[k - (Len(s) - i + 1)]
<1> DEFINE i == CHOOSE k \in DOMAIN s : s[k] = q
           a == SubSeq(s, i, Len(s))
           b == SubSeq(s, 1, i - 1)
<1>1. i \in 1 .. Len(s) /\ Len(s) \in Nat /\ s[i] = q
  BY DEF Attached
<1>2. RotateTo(s, q) = a \o b
  BY DEF RotateTo
<1> HIDE DEF i
<1>3. /\ a \in Seq(Queues) /\ Len(a) = Len(s) - i + 1
      /\ \A k \in 1 .. Len(a) : a[k] = s[i + k - 1]
  BY <1>1
<1>4. /\ b \in Seq(Queues) /\ Len(b) = i - 1
      /\ \A k \in 1 .. Len(b) : b[k] = s[k]
  BY <1>1
<1> HIDE DEF a, b
<1>5. /\ a \o b \in Seq(Queues) /\ Len(a \o b) = Len(s)
      /\ \A k \in 1 .. Len(s) : (a \o b)[k] = IF k <= Len(a) THEN a[k] ELSE b[k - Len(a)]
  BY <1>1, <1>3, <1>4, SMTT(40)
<1>6. \A k \in 1 .. Len(s) :
         (a \o b)[k] = IF k <= Len(s) - i + 1 THEN s[i + k - 1] ELSE s[k - (Len(s) - i + 1)]
  <2>1. SUFFICES ASSUME NEW k \in 1 .. Len(s)
                 PROVE  (a \o b)[k] = IF k <= Len(s) - i + 1 THEN s[i + k - 1]
                                      ELSE s[k - (Len(s) - i + 1)]
    OBVIOUS
  <2>2. CASE k <= Len(a)
    BY <2>2, <1>1, <1>3, <1>5
  <2>3. CASE ~ (k <= Len(a))
    <3>1. k - Len(a) \in 1 .. Len(b)
      BY <2>3, <1>1, <1>3, <1>4
    <3>2. (a \o b)[k] = s[k - Len(a)]
      BY <3>1, <2>3, <1>4, <1>5
    <3> QED
      BY <3>2, <2>3, <1>3
  <2> QED
    BY <2>2, <2>3
<1> QED
  BY <1>1, <1>2, <1>5, <1>6

\* ... so the queues in it stay the same, each once, and q is the first.
LEMMA RotateToKeeps ==
    ASSUME NEW s \in Seq(Queues), NEW q
    PROVE  /\ RotateTo(s, q) \in Seq(Queues)
           /\ \A p : Attached(RotateTo(s, q), p) <=> Attached(s, p)
           /\ OnceEach(s) => OnceEach(RotateTo(s, q))
           /\ Attached(s, q) => RotateTo(s, q) # <<>> /\ Head(RotateTo(s, q)) = q
<1>1. CASE ~ Attached(s, q)
  BY <1>1 DEF RotateTo
<1>2. CASE Attached(s, q)
  <2> DEFINE r == RotateTo(s, q)
  <2>1. PICK i \in 1 .. Len(s) :
              /\ s[i] = q
              /\ r \in Seq(Queues) /\ Len(r) = Len(s)
              /\ \A k \in 1 .. Len(s) :
                    r[k] = IF k <= Len(s) - i + 1 THEN s[i + k - 1]
                           ELSE s[k - (Len(s) - i + 1)]
    BY <1>2, RotateToShift
  <2> HIDE DEF r
  <2>2. DOMAIN r = 1 .. Len(s) /\ DOMAIN s = 1 .. Len(s) /\ Len(s) \in Nat
    BY <2>1
  <2>3. \A p : Attached(r, p) => Attached(s, p)
    BY <1>2, RotateToOK DEF r
  <2>4. ASSUME NEW m \in 1 .. Len(s) PROVE Attached(r, s[m])
    <3>1. CASE m >= i
      <4>1. m - i + 1 \in 1 .. Len(s) /\ m - i + 1 <= Len(s) - i + 1 /\ i + (m - i + 1) - 1 = m
        BY <3>1, <2>1, <2>2
      <4>2. r[m - i + 1] = s[m]
        BY <4>1, <2>1
      <4> QED
        BY <4>1, <4>2, <2>2 DEF Attached
    <3>2. CASE m < i
      <4>0. m + (Len(s) - i + 1) \in 1 .. Len(s)
        BY <3>2, <2>1, <2>2
      <4>1. PICK k \in 1 .. Len(s) : k = m + (Len(s) - i + 1)
        BY <4>0
      <4>2. ~ (k <= Len(s) - i + 1) /\ k - (Len(s) - i + 1) = m
        BY <4>1, <2>2
      <4>3. r[k] = s[m]
        BY <4>2, <2>1
      <4> QED
        BY <4>3, <2>2 DEF Attached
    <3> QED
      BY <3>1, <3>2, <2>1, <2>2
  <2>5. \A p : Attached(s, p) => Attached(r, p)
    BY <2>4, <2>2 DEF Attached
  <2>6. ASSUME OnceEach(s) PROVE OnceEach(r)
    <3>1. SUFFICES ASSUME NEW k \in 1 .. Len(s), NEW m \in 1 .. Len(s), r[k] = r[m]
                   PROVE  k = m
      BY <2>2 DEF OnceEach
    <3>2. \A x, y \in 1 .. Len(s) : s[x] = s[y] => x = y
      BY <2>6, <2>2 DEF OnceEach
    <3>3. CASE k <= Len(s) - i + 1 /\ m <= Len(s) - i + 1
      <4>1. s[i + k - 1] = s[i + m - 1] /\ i + k - 1 \in 1 .. Len(s) /\ i + m - 1 \in 1 .. Len(s)
        BY <3>1, <3>3, <2>1, <2>2
      <4>2. i + k - 1 = i + m - 1
        BY <4>1, <3>2
      <4> QED
        BY <4>2
    <3>4. CASE ~ (k <= Len(s) - i + 1) /\ ~ (m <= Len(s) - i + 1)
      <4>1. /\ s[k - (Len(s) - i + 1)] = s[m - (Len(s) - i + 1)]
            /\ k - (Len(s) - i + 1) \in 1 .. Len(s) /\ m - (Len(s) - i + 1) \in 1 .. Len(s)
        BY <3>1, <3>4, <2>1, <2>2
      <4>2. k - (Len(s) - i + 1) = m - (Len(s) - i + 1)
        BY <4>1, <3>2
      <4> QED
        BY <4>2, <2>1, <2>2
    <3>5. CASE k <= Len(s) - i + 1 /\ ~ (m <= Len(s) - i + 1)
      <4>1. /\ s[i + k - 1] = s[m - (Len(s) - i + 1)]
            /\ i + k - 1 \in 1 .. Len(s) /\ m - (Len(s) - i + 1) \in 1 .. Len(s)
        BY <3>1, <3>5, <2>1, <2>2
      <4>2. i + k - 1 = m - (Len(s) - i + 1)
        BY <4>1, <3>2
      <4> QED
        BY <4>2, <2>1, <2>2
    <3>6. CASE ~ (k <= Len(s) - i + 1) /\ m <= Len(s) - i + 1
      <4>1. /\ s[k - (Len(s) - i + 1)] = s[i + m - 1]
            /\ k - (Len(s) - i + 1) \in 1 .. Len(s) /\ i + m - 1 \in 1 .. Len(s)
        BY <3>1, <3>6, <2>1, <2>2
      <4>2. k - (Len(s) - i + 1) = i + m - 1
        BY <4>1, <3>2
      <4> QED
        BY <4>2, <2>1, <2>2
    <3> QED
      BY <3>3, <3>4, <3>5, <3>6
  <2>7. r # <<>> /\ Head(r) = q
    <3>1. 1 \in 1 .. Len(s) /\ 1 <= Len(s) - i + 1 /\ i + 1 - 1 = i
      BY <2>1, <2>2
    <3>2. r[1] = q
      BY <3>1, <2>1
    <3> QED
      BY <3>1, <3>2, <2>1
  <2> QED
    BY <2>1, <2>3, <2>5, <2>6, <2>7 DEF r
<1> QED
  BY <1>1, <1>2

\* The next queue becomes the head.
LEMMA RotateOneKeeps ==
    ASSUME NEW s \in Seq(Queues)
    PROVE  /\ RotateOne(s) \in Seq(Queues)
           /\ \A p : Attached(RotateOne(s), p) <=> Attached(s, p)
           /\ OnceEach(s) => OnceEach(RotateOne(s))
<1>1. CASE s = <<>>
  BY <1>1 DEF RotateOne
<1>2. CASE s # <<>>
  <2> DEFINE r == RotateOne(s)
  <2>1. /\ r \in Seq(Queues) /\ Len(r) = Len(s) /\ Len(s) \in Nat \ {0}
        /\ \A k \in 1 .. Len(s) - 1 : r[k] = s[k + 1]
        /\ r[Len(s)] = s[1]
    BY <1>2 DEF RotateOne
  <2> HIDE DEF r
  <2>2. DOMAIN r = 1 .. Len(s) /\ DOMAIN s = 1 .. Len(s)
    BY <2>1
  <2>3. \A p : Attached(r, p) => Attached(s, p)
    BY RotateOneOK DEF r
  <2>4. ASSUME NEW m \in 1 .. Len(s) PROVE Attached(r, s[m])
    <3>1. CASE m = 1
      BY <3>1, <2>1, <2>2 DEF Attached
    <3>2. CASE m # 1
      <4>1. m - 1 \in 1 .. Len(s) - 1 /\ m - 1 \in 1 .. Len(s) /\ (m - 1) + 1 = m
        BY <3>2, <2>1
      <4>2. r[m - 1] = s[m]
        BY <4>1, <2>1
      <4> QED
        BY <4>1, <4>2, <2>2 DEF Attached
    <3> QED
      BY <3>1, <3>2
  <2>5. \A p : Attached(s, p) => Attached(r, p)
    BY <2>4, <2>2 DEF Attached
  <2>6. ASSUME OnceEach(s) PROVE OnceEach(r)
    <3>1. SUFFICES ASSUME NEW k \in 1 .. Len(s), NEW m \in 1 .. Len(s), r[k] = r[m]
                   PROVE  k = m
      BY <2>2 DEF OnceEach
    <3>2. \A x, y \in 1 .. Len(s) : s[x] = s[y] => x = y
      BY <2>6, <2>2 DEF OnceEach
    <3> DEFINE f(x) == IF x = Len(s) THEN 1 ELSE x + 1
    <3>3. f(k) \in 1 .. Len(s) /\ f(m) \in 1 .. Len(s) /\ r[k] = s[f(k)] /\ r[m] = s[f(m)]
      BY <2>1
    <3>4. f(k) = f(m)
      BY <3>1, <3>2, <3>3
    <3> QED
      BY <3>4, <2>1
  <2> QED
    BY <2>1, <2>3, <2>5, <2>6 DEF r
<1> QED
  BY <1>1, <1>2

\* A queue that is in the ring once is gone when it has been detached.
LEMMA DetachedKeeps ==
    ASSUME NEW s \in Seq(Queues), NEW q, OnceEach(s)
    PROVE  /\ Detached(s, q) \in Seq(Queues)
           /\ \A p : Attached(Detached(s, q), p) <=> Attached(s, p) /\ p # q
           /\ OnceEach(Detached(s, q))
<1>1. CASE ~ Attached(s, q)
  BY <1>1 DEF Detached
<1>2. CASE Attached(s, q)
  <2> DEFINE r == RotateTo(s, q)
             d == Tail(r)
  <2>1. /\ r \in Seq(Queues) /\ (\A p : Attached(r, p) <=> Attached(s, p))
        /\ OnceEach(r) /\ r # <<>> /\ Head(r) = q
    BY <1>2, RotateToKeeps
  <2>2. Detached(s, q) = d
    BY <1>2 DEF Detached
  <2> HIDE DEF r
  <2>3. /\ d \in Seq(Queues) /\ Len(r) \in Nat \ {0} /\ Len(d) = Len(r) - 1 /\ r[1] = q
        /\ \A k \in 1 .. Len(d) : d[k] = r[k + 1]
    BY <2>1
  <2> HIDE DEF d
  <2>4. DOMAIN r = 1 .. Len(r) /\ DOMAIN d = 1 .. Len(r) - 1
    BY <2>1, <2>3
  <2>5. ASSUME NEW k \in 1 .. Len(d) PROVE Attached(r, d[k]) /\ d[k] # q
    <3>1. k + 1 \in 1 .. Len(r) /\ k + 1 # 1 /\ 1 \in 1 .. Len(r)
      BY <2>3
    <3> QED
      BY <3>1, <2>1, <2>3, <2>4 DEF Attached, OnceEach
  <2>6. ASSUME NEW m \in 1 .. Len(r), r[m] # q PROVE Attached(d, r[m])
    <3>1. m # 1
      BY <2>3, <2>6
    <3>2. m - 1 \in 1 .. Len(d) /\ (m - 1) + 1 = m
      BY <3>1, <2>3
    <3>3. d[m - 1] = r[m]
      BY <3>2, <2>3
    <3> QED
      BY <3>2, <3>3, <2>3, <2>4 DEF Attached
  <2>7. \A p : Attached(d, p) <=> Attached(s, p) /\ p # q
    <3>1. ASSUME NEW p, Attached(d, p) PROVE Attached(r, p) /\ p # q
      BY <3>1, <2>3, <2>4, <2>5 DEF Attached
    <3>2. ASSUME NEW p, Attached(r, p), p # q PROVE Attached(d, p)
      BY <3>2, <2>4, <2>6 DEF Attached
    <3> QED
      BY <3>1, <3>2, <2>1
  <2>8. OnceEach(d)
    <3>1. SUFFICES ASSUME NEW k \in 1 .. Len(d), NEW m \in 1 .. Len(d), d[k] = d[m]
                   PROVE  k = m
      BY <2>3, <2>4 DEF OnceEach
    <3>2. k + 1 \in 1 .. Len(r) /\ m + 1 \in 1 .. Len(r) /\ r[k + 1] = r[m + 1]
      BY <3>1, <2>3, SMTT(40)
    <3>3. k + 1 = m + 1
      BY <3>2, <2>1, <2>4 DEF OnceEach
    <3> QED
      BY <3>3
  <2> QED
    BY <2>2, <2>3, <2>7, <2>8
<1> QED
  BY <1>1, <1>2

\* A new queue is put in front.
LEMMA PrependedKeeps ==
    ASSUME NEW s \in Seq(Queues), NEW q \in Queues, ~ Attached(s, q)
    PROVE  /\ \A p : Attached(<<q>> \o s, p) <=> p = q \/ Attached(s, p)
           /\ OnceEach(s) => OnceEach(<<q>> \o s)
<1> DEFINE r == <<q>> \o s
<1>1. /\ r \in Seq(Queues) /\ Len(r) = Len(s) + 1 /\ Len(s) \in Nat /\ r[1] = q
      /\ \A k \in 1 .. Len(s) : r[k + 1] = s[k]
  OBVIOUS
<1> HIDE DEF r
<1>2. DOMAIN r = 1 .. Len(s) + 1 /\ DOMAIN s = 1 .. Len(s)
  BY <1>1
<1>3. \A k \in 1 .. Len(s) + 1 : k = 1 \/ (k - 1 \in 1 .. Len(s) /\ r[k] = s[k - 1])
  <2>1. SUFFICES ASSUME NEW k \in 1 .. Len(s) + 1, k # 1
                 PROVE  k - 1 \in 1 .. Len(s) /\ r[k] = s[k - 1]
    OBVIOUS
  <2>2. k - 1 \in 1 .. Len(s) /\ (k - 1) + 1 = k
    BY <2>1, <1>1
  <2> QED
    BY <2>2, <1>1
<1>4. ASSUME NEW p, Attached(r, p), p # q PROVE Attached(s, p)
  <2>1. PICK k \in 1 .. Len(s) + 1 : r[k] = p
    BY <1>2, <1>4 DEF Attached
  <2>2. k - 1 \in 1 .. Len(s) /\ s[k - 1] = p
    BY <2>1, <1>1, <1>3, <1>4
  <2> QED
    BY <2>2, <1>2 DEF Attached
<1>5. ASSUME NEW k \in 1 .. Len(s) PROVE Attached(r, s[k])
  <2>1. k + 1 \in 1 .. Len(s) + 1
    BY <1>1
  <2> QED
    BY <2>1, <1>1, <1>2 DEF Attached
<1>6. 1 \in DOMAIN r
  BY <1>1, <1>2
<1>7. \A p : p = q \/ Attached(s, p) => Attached(r, p)
  BY <1>1, <1>2, <1>5, <1>6 DEF Attached
<1>8. ASSUME OnceEach(s) PROVE OnceEach(r)
  <2>1. SUFFICES ASSUME NEW k \in 1 .. Len(s) + 1, NEW m \in 1 .. Len(s) + 1, r[k] = r[m]
                 PROVE  k = m
    BY <1>2 DEF OnceEach
  <2>2. \A x \in 1 .. Len(s) : s[x] # q
    BY <1>2 DEF Attached
  <2>3. CASE k = 1 \/ m = 1
    BY <2>1, <2>2, <2>3, <1>1, <1>3
  <2>4. CASE k # 1 /\ m # 1
    <3>1. k - 1 \in 1 .. Len(s) /\ m - 1 \in 1 .. Len(s) /\ s[k - 1] = s[m - 1]
      BY <2>1, <2>4, <1>3
    <3>2. k - 1 = m - 1
      BY <3>1, <1>2, <1>8 DEF OnceEach
    <3> QED
      BY <3>2
  <2> QED
    BY <2>3, <2>4
<1> QED
  BY <1>4, <1>7, <1>8 DEF r

----------------------------------------------------------------------------
(* The references of one queue.                                            *)

\* The fields that the life of a queue is about.
KeepsLife(R, Q) ==
    R.mem = Q.mem /\ R.ref = Q.ref /\ R.noMore = Q.noMore /\ R.shut = Q.shut

\* The work on a queue leaves them alone.
LEMMA WorkKeepsLife ==
    ASSUME NEW Q \in QueueType, NEW j, NEW mode
    PROVE  /\ KeepsLife(Taken(Q), Q) /\ KeepsLife(WithResult(Q, j), Q)
           /\ KeepsLife(Without(Q, j), Q) /\ KeepsLife(Appended(Q, j, mode), Q)
           /\ KeepsLife(Drawn(Q), Q) /\ KeepsLife(Discarded(Q), Q)
           /\ KeepsLife(Restarted(Q), Q)
<1>1. KeepsLife(Taken(Q), Q)
  BY Zenon DEF KeepsLife, Taken, QueueType
<1>2. KeepsLife(WithResult(Q, j), Q)
  BY Zenon DEF KeepsLife, WithResult, QueueType
<1>3. KeepsLife(Without(Q, j), Q)
  BY Zenon DEF KeepsLife, Without, QueueType
<1>4. KeepsLife(Appended(Q, j, mode), Q)
  BY Zenon DEF KeepsLife, Appended, QueueType
<1>5. KeepsLife(Drawn(Q), Q)
  BY Zenon DEF KeepsLife, Drawn, QueueType
<1>6. KeepsLife(Discarded(Q), Q)
  BY Zenon DEF KeepsLife, Discarded, QueueType
<1>7. KeepsLife(Restarted(Q), Q)
  BY Zenon DEF KeepsLife, Restarted, QueueType
<1> QED
  BY <1>1, <1>2, <1>3, <1>4, <1>5, <1>6, <1>7

\* What a dropped reference leaves of them.
LEMMA UnrefLife ==
    ASSUME NEW Q \in QueueType
    PROVE  /\ Unref(Q).ref = Q.ref - 1 /\ Unref(Q).shut = Q.shut
           /\ Unref(Q).mem = IF Q.ref = 1 THEN "freed" ELSE Q.mem
           /\ Q.noMore => Unref(Q).noMore
<1>1. /\ Unref(Q).ref = Q.ref - 1 /\ Unref(Q).shut = Q.shut
      /\ Unref(Q).mem = IF Q.ref = 1 THEN "freed" ELSE Q.mem
  BY Zenon DEF Unref, QueueType
<1>2. Unref(Q).noMore = IF Q.ref = 1 THEN TRUE ELSE Q.noMore
  BY Zenon DEF Unref, QueueType
<1>3. Q.noMore => Unref(Q).noMore
  BY <1>2, Zenon
<1> QED
  BY <1>1, <1>3

\* Nothing that the references are about changes.
LEMMA LifeSame ==
    ASSUME NEW Q, NEW R, NEW n, NEW W, NEW A, Life(Q, n, W, A),
           R.mem = Q.mem, R.ref = Q.ref, Closed(Q) => Closed(R)
    PROVE  Life(R, n, W, A)
BY DEF Life

\* A worker enters an attached queue with a new reference ...
LEMMA LifeEnter ==
    ASSUME NEW Q \in QueueType, NEW R, NEW W, NEW A, IsFiniteSet(W), IsFiniteSet(A),
           Life(Q, 1, W, A), NEW w, w \notin W, R.mem = Q.mem, R.ref = Q.ref + 1
    PROVE  Life(R, 1, W \cup {w}, A)
<1>1. Cardinality(W \cup {w}) = Cardinality(W) + 1
  BY FS_AddElement
<1>2. Cardinality(W) \in Nat /\ Cardinality(A) \in Nat /\ Q.ref \in Int
  BY FS_CardinalityType, FieldTypes
<1> QED
  BY <1>1, <1>2 DEF Life

\* ... and leaves it; the last one out frees it.
LEMMA LifeLeave ==
    ASSUME NEW Q \in QueueType, NEW R, NEW n \in {0, 1}, NEW W, NEW A,
           IsFiniteSet(W), IsFiniteSet(A),
           Life(Q, n, W, A), NEW w \in W, R.ref = Q.ref - 1,
           R.mem = IF Q.ref = 1 THEN "freed" ELSE Q.mem, Closed(Q) => Closed(R)
    PROVE  Life(R, n, W \ {w}, A)
<1>1. Cardinality(W \ {w}) = Cardinality(W) - 1 /\ IsFiniteSet(W \ {w})
  BY FS_RemoveElement
<1>2. /\ Cardinality(W) \in Nat /\ Cardinality(A) \in Nat /\ Q.ref \in Int
      /\ Cardinality(W \ {w}) \in Nat
  BY <1>1, FS_CardinalityType, FieldTypes
<1>3. Q.mem = "live"
  BY DEF Life
<1>4. Q.ref = n + Cardinality(W) + Cardinality(A) /\ Q.ref >= 1 /\ (n = 0 => Closed(Q))
  BY <1>3 DEF Life
<1>5. CASE Q.ref = 1
  <2>1. n = 0 /\ Cardinality(W \ {w}) = 0 /\ Cardinality(A) = 0
    BY <1>1, <1>2, <1>4, <1>5
  <2>2. W \ {w} = {} /\ A = {}
    BY <2>1, <1>1, FS_EmptySet
  <2> QED
    BY <2>1, <2>2, <1>5 DEF Life
<1>6. CASE Q.ref # 1
  <2>1. R.mem = "live" /\ R.ref >= 1 /\ R.ref = n + Cardinality(W \ {w}) + Cardinality(A)
    BY <1>1, <1>2, <1>3, <1>4, <1>6
  <2> QED
    BY <2>1, <1>4 DEF Life
<1> QED
  BY <1>5, <1>6

\* A consumer begins to wait with a reference ...
LEMMA LifeAwait ==
    ASSUME NEW Q \in QueueType, NEW R, NEW n \in {0, 1}, NEW W, NEW A,
           IsFiniteSet(W), IsFiniteSet(A),
           Life(Q, n, W, A), NEW t, t \notin A, Q.mem = "live",
           R.mem = Q.mem, R.ref = Q.ref + 1, Closed(Q) => Closed(R)
    PROVE  Life(R, n, W, A \cup {t})
<1>1. Cardinality(A \cup {t}) = Cardinality(A) + 1
  BY FS_AddElement
<1>2. Cardinality(W) \in Nat /\ Cardinality(A) \in Nat /\ Q.ref \in Int
  BY FS_CardinalityType, FieldTypes
<1> QED
  BY <1>1, <1>2 DEF Life

\* ... which it gives back when it is served from an attached queue ...
LEMMA LifeServed ==
    ASSUME NEW Q \in QueueType, NEW R, NEW W, NEW A, IsFiniteSet(W), IsFiniteSet(A),
           Life(Q, 1, W, A), NEW t \in A, R.mem = Q.mem, R.ref = Q.ref - 1
    PROVE  Life(R, 1, W, A \ {t})
<1>1. Cardinality(A \ {t}) = Cardinality(A) - 1 /\ IsFiniteSet(A \ {t})
  BY FS_RemoveElement
<1>2. /\ Cardinality(W) \in Nat /\ Cardinality(A) \in Nat /\ Q.ref \in Int
      /\ Cardinality(A \ {t}) \in Nat
  BY <1>1, FS_CardinalityType, FieldTypes
<1>3. Q.mem = "live"
  BY DEF Life
<1> QED
  BY <1>1, <1>2, <1>3 DEF Life

\* ... or gives up, and frees the queue if it is the last one.
LEMMA LifeGone ==
    ASSUME NEW Q \in QueueType, NEW R, NEW n \in {0, 1}, NEW W, NEW A,
           IsFiniteSet(W), IsFiniteSet(A),
           Life(Q, n, W, A), NEW t \in A, R.ref = Q.ref - 1,
           R.mem = IF Q.ref = 1 THEN "freed" ELSE Q.mem, Closed(Q) => Closed(R)
    PROVE  Life(R, n, W, A \ {t})
<1>1. Cardinality(A \ {t}) = Cardinality(A) - 1 /\ IsFiniteSet(A \ {t})
  BY FS_RemoveElement
<1>2. /\ Cardinality(W) \in Nat /\ Cardinality(A) \in Nat /\ Q.ref \in Int
      /\ Cardinality(A \ {t}) \in Nat
  BY <1>1, FS_CardinalityType, FieldTypes
<1>3. Q.mem = "live"
  BY DEF Life
<1>4. Q.ref = n + Cardinality(W) + Cardinality(A) /\ Q.ref >= 1 /\ (n = 0 => Closed(Q))
  BY <1>3 DEF Life
<1>5. CASE Q.ref = 1
  <2>1. n = 0 /\ Cardinality(A \ {t}) = 0 /\ Cardinality(W) = 0
    BY <1>1, <1>2, <1>4, <1>5
  <2>2. A \ {t} = {} /\ W = {}
    BY <2>1, <1>1, FS_EmptySet
  <2> QED
    BY <2>1, <2>2, <1>5 DEF Life
<1>6. CASE Q.ref # 1
  <2>1. R.mem = "live" /\ R.ref >= 1 /\ R.ref = n + Cardinality(W) + Cardinality(A \ {t})
    BY <1>1, <1>2, <1>3, <1>4, <1>6
  <2> QED
    BY <2>1, <1>4 DEF Life
<1> QED
  BY <1>5, <1>6

\* The creator detaches the queue, shuts it down and gives up its reference.
LEMMA LifeDetached ==
    ASSUME NEW Q \in QueueType, NEW R, NEW W, NEW A, IsFiniteSet(W), IsFiniteSet(A),
           Life(Q, 1, W, A), R.ref = Q.ref - 1,
           R.mem = IF Q.ref = 1 THEN "freed" ELSE Q.mem, Closed(R)
    PROVE  Life(R, 0, W, A)
<1>1. Cardinality(W) \in Nat /\ Cardinality(A) \in Nat /\ Q.ref \in Int
  BY FS_CardinalityType, FieldTypes
<1>2. Q.mem = "live" /\ Q.ref = 1 + Cardinality(W) + Cardinality(A) /\ Q.ref >= 1
  BY DEF Life
<1>3. CASE Q.ref = 1
  <2>1. Cardinality(A) = 0 /\ Cardinality(W) = 0
    BY <1>1, <1>2, <1>3
  <2>2. A = {} /\ W = {}
    BY <2>1, FS_EmptySet
  <2> QED
    BY <2>2, <1>3 DEF Life
<1>4. CASE Q.ref # 1
  <2>1. R.mem = "live" /\ R.ref >= 1 /\ R.ref = 0 + Cardinality(W) + Cardinality(A)
    BY <1>1, <1>2, <1>4
  <2> QED
    BY <2>1 DEF Life
<1> QED
  BY <1>3, <1>4

----------------------------------------------------------------------------
(* What is left to show of a step.                                         *)

\* Nothing about the life of a queue is undone.
LifeKept(R, Q) ==
    /\ R.mem = Q.mem /\ R.ref = Q.ref
    /\ Q.noMore => R.noMore
    /\ Q.shut # 0 => R.shut # 0

\* The same queues are in the ring, in some order.
SameRing ==
    /\ OnceEach(ring')
    /\ \A p : Attached(ring', p) <=> Attached(ring, p)

\* The sets that are counted.
LEMMA Counted ==
    ASSUME IInv, LifeInv, NEW q \in Queues
    PROVE  /\ IsFiniteSet(InQueue(q)) /\ IsFiniteSet(WaitingFor(q))
           /\ Creator(q) \in {0, 1} /\ (Creator(q) = 1 <=> Attached(ring, q))
           /\ pq[q] \in QueueType
           /\ Life(pq[q], Creator(q), InQueue(q), WaitingFor(q))
           /\ ring \in Seq(Queues) /\ OnceEach(ring)
<1>1. IsFiniteSet(Workers)
  BY FS_Interval, SizeAssumption DEF Workers
<1>2. InQueue(q) \subseteq Workers
  BY DEF InQueue
<1>3. IsFiniteSet(InQueue(q))
  BY <1>1, <1>2, FS_Subset
<1> QED
  BY <1>3 DEF LifeInv, Creator, IInv, TypeOK

\* The ring as it was, or turned around.
LEMMA RingTurned ==
    ASSUME IInv, LifeInv,
           \/ ring' = ring
           \/ ring' = RotateOne(ring)
           \/ \E q \in Queues : ring' = RotateTo(ring, q)
    PROVE  SameRing
BY RotateToKeeps, RotateOneKeeps DEF SameRing, LifeInv, IInv, TypeOK

\* One queue changes.
LEMMA OneKept ==
    ASSUME IInv, NEW q \in Queues, NEW R, pq' = [pq EXCEPT ![q] = R], LifeKept(R, pq[q])
    PROVE  \A p \in Queues : LifeKept(pq'[p], pq[p])
BY DEF IInv, TypeOK, LifeKept

LEMMA KeptLife ==
    ASSUME NEW Q, NEW R, KeepsLife(R, Q)
    PROVE  LifeKept(R, Q)
BY DEF KeepsLife, LifeKept

\* A step of a worker.
LEMMA WorkerLife ==
    ASSUME IInv, LifeInv, th' = th, SameRing,
           \A p \in Queues : Life(pq'[p], Creator(p), InQueue(p)', WaitingFor(p)),
           \A p \in Queues : pq[p].noMore => pq'[p].noMore
    PROVE  LifeInv'
<1>1. \A p \in Queues : WaitingFor(p)' = WaitingFor(p) /\ Creator(p)' = Creator(p)
  BY DEF WaitingFor, Creator, SameRing
<1>2. \A t \in Threads : CallerInv(th'[t], pq', ring')
  BY DEF LifeInv, CallerInv, SameRing
<1> QED
  BY <1>1, <1>2 DEF LifeInv, SameRing

\* A step of a worker that stays where it is.
LEMMA WorkerStays ==
    ASSUME IInv, LifeInv, th' = th, SameRing, NEW w \in Workers, NEW x \in WorkerType,
           wk' = [wk EXCEPT ![w] = x], x.q = wk[w].q,
           \A p \in Queues : LifeKept(pq'[p], pq[p])
    PROVE  LifeInv'
<1>1. \A p \in Queues : InQueue(p)' = InQueue(p)
  BY DEF InQueue, IInv, TypeOK
<1>2. \A p \in Queues : Life(pq'[p], Creator(p), InQueue(p), WaitingFor(p))
  <2>1. SUFFICES ASSUME NEW p \in Queues
                 PROVE  Life(pq'[p], Creator(p), InQueue(p), WaitingFor(p))
    OBVIOUS
  <2>2. LifeKept(pq'[p], pq[p]) /\ Life(pq[p], Creator(p), InQueue(p), WaitingFor(p))
    BY DEF LifeInv
  <2>3. Closed(pq[p]) => Closed(pq'[p])
    BY <2>2 DEF LifeKept, Closed
  <2> QED
    BY <2>2, <2>3, LifeSame DEF LifeKept
<1>3. \A p \in Queues : pq[p].noMore => pq'[p].noMore
  BY DEF LifeKept
<1> QED
  BY <1>1, <1>2, <1>3, WorkerLife

\* A step of a client that waits for no result, before or after.
LEMMA ClientStays ==
    ASSUME IInv, LifeInv, wk' = wk, SameRing, NEW t \in Threads, NEW x \in ThreadType,
           th' = [th EXCEPT ![t] = x], th[t].pc # "avail", x.pc # "avail",
           CallerInv(x, pq', ring'),
           \A p \in Queues : LifeKept(pq'[p], pq[p])
    PROVE  LifeInv'
<1>1. th \in [Threads -> ThreadType]
  BY DEF IInv, TypeOK
<1>2. \A p \in Queues : WaitingFor(p)' = WaitingFor(p)
  BY <1>1 DEF WaitingFor
<1>3. \A p \in Queues : InQueue(p)' = InQueue(p) /\ Creator(p)' = Creator(p)
  BY DEF InQueue, Creator, SameRing
<1>4. \A p \in Queues : Life(pq'[p], Creator(p), InQueue(p), WaitingFor(p))
  <2>1. SUFFICES ASSUME NEW p \in Queues
                 PROVE  Life(pq'[p], Creator(p), InQueue(p), WaitingFor(p))
    OBVIOUS
  <2>2. LifeKept(pq'[p], pq[p]) /\ Life(pq[p], Creator(p), InQueue(p), WaitingFor(p))
    BY DEF LifeInv
  <2>3. Closed(pq[p]) => Closed(pq'[p])
    BY <2>2 DEF LifeKept, Closed
  <2> QED
    BY <2>2, <2>3, LifeSame DEF LifeKept
<1>5. \A u \in Threads : CallerInv(th'[u], pq', ring')
  <2>1. SUFFICES ASSUME NEW u \in Threads, u # t PROVE CallerInv(th'[u], pq', ring')
    BY <1>1
  <2>2. th'[u] = th[u] /\ CallerInv(th[u], pq, ring)
    BY <2>1, <1>1 DEF LifeInv
  <2> QED
    BY <2>2 DEF CallerInv, SameRing, LifeKept
<1> QED
  BY <1>2, <1>3, <1>4, <1>5 DEF LifeInv, SameRing

----------------------------------------------------------------------------
(* The life of queues: the workers.                                        *)

\* The scan of the ring by a worker that has left its queue, if it was in one.
LEMMA ScanLife ==
    ASSUME IInv, LifeInv, NEW w \in Workers, NEW Qs \in [Queues -> QueueType],
           \A p \in Queues : Life(Qs[p], Creator(p), InQueue(p) \ {w}, WaitingFor(p)),
           \A p \in Queues : pq[p].noMore => Qs[p].noMore,
           NEW rg \in Seq(Queues), OnceEach(rg),
           \A p : Attached(rg, p) <=> Attached(ring, p),
           Scan(w, Qs, rg)
    PROVE  LifeInv'
<1>1. wk \in [Workers -> WorkerType]
  BY DEF IInv, TypeOK
<1>2. CASE /\ wk' = [wk EXCEPT ![w] = [pc |-> IF poolDown THEN "exit" ELSE "wait",
                                       q |-> "none", job |-> NoJob]]
           /\ pq' = Qs /\ ring' = rg /\ th' = th
  <2>1. \A p \in Queues : InQueue(p)' = InQueue(p) \ {w}
    BY <1>1, <1>2, SetAssumption DEF InQueue
  <2>2. SameRing
    BY <1>2 DEF SameRing
  <2> QED
    BY <1>2, <2>1, <2>2, WorkerLife
<1>3. ASSUME NEW i \in DOMAIN rg, Take(w, rg[i], [Qs EXCEPT ![rg[i]].ref = @ + 1], rg)
      PROVE  LifeInv'
  <2>1. PICK q \in Queues : q = rg[i]
    OBVIOUS
  <2> DEFINE R == [Qs[q] EXCEPT !.ref = Qs[q].ref + 1]
             Rs == [Qs EXCEPT ![q] = R]
             T == Taken(R)
  <2>2. Attached(ring, q)
    BY <2>1 DEF Attached
  <2>3. Take(w, q, Rs, rg)
    <3>1. Rs = [Qs EXCEPT ![rg[i]].ref = @ + 1]
      BY <2>1, Zenon
    <3> QED
      BY <1>3, <2>1, <3>1
  <2>4. Qs[q] \in QueueType /\ Qs[q].ref + 1 \in Int
    BY FieldTypes
  <2>5. /\ R \in QueueType /\ R.mem = Qs[q].mem /\ R.ref = Qs[q].ref + 1
        /\ R.noMore = Qs[q].noMore /\ R.shut = Qs[q].shut
    BY <2>4, Zenon DEF QueueType
  <2> HIDE DEF R
  <2>6. KeepsLife(T, R)
    BY <2>5, WorkKeepsLife
  <2>7. /\ wk' = [wk EXCEPT ![w] = [pc |-> "run", q |-> q, job |-> Head(R.input)]]
        /\ pq' = [Rs EXCEPT ![q] = T] /\ ring' = rg /\ th' = th
    <3>1. Rs[q] = R
      OBVIOUS
    <3> QED
      BY <2>3, <3>1 DEF Take
  <2>8. /\ pq'[q] = T /\ \A p \in Queues : p # q => pq'[p] = Qs[p]
    BY <2>7
  <2> HIDE DEF Rs, T
  <2>9. InQueue(q)' = (InQueue(q) \ {w}) \cup {w}
    BY <1>1, <2>7 DEF InQueue
  <2>10. \A p \in Queues : p # q => InQueue(p)' = InQueue(p) \ {w}
    BY <1>1, <2>7 DEF InQueue
  <2>11. Life(T, 1, (InQueue(q) \ {w}) \cup {w}, WaitingFor(q))
    <3>1. Creator(q) = 1 /\ IsFiniteSet(InQueue(q) \ {w}) /\ IsFiniteSet(WaitingFor(q))
      BY <2>2, Counted, FS_Subset
    <3>2. Life(Qs[q], 1, InQueue(q) \ {w}, WaitingFor(q))
      BY <3>1
    <3>3. T.mem = Qs[q].mem /\ T.ref = Qs[q].ref + 1
      BY <2>5, <2>6 DEF KeepsLife
    <3> QED
      BY <2>4, <3>1, <3>2, <3>3, LifeEnter
  <2>12. \A p \in Queues : Life(pq'[p], Creator(p), InQueue(p)', WaitingFor(p))
    <3>1. Creator(q) = 1
      BY <2>2, Counted
    <3> QED
      BY <3>1, <2>8, <2>9, <2>10, <2>11
  <2>13. \A p \in Queues : pq[p].noMore => pq'[p].noMore
    <3>1. Qs[q].noMore => T.noMore
      BY <2>5, <2>6, Zenon DEF KeepsLife
    <3> QED
      BY <3>1, <2>8, Zenon
  <2>14. SameRing
    BY <2>7 DEF SameRing
  <2> QED
    BY <2>7, <2>12, <2>13, <2>14, WorkerLife
<1> QED
  BY <1>2, <1>3 DEF Scan

LEMMA StartLife ==
    ASSUME IInv, LifeInv, NEW w \in Workers, WorkerStart(w) \/ WorkerWake(w)
    PROVE  LifeInv'
<1>1. wk[w].q = "none"
  BY DEF WorkerStart, WorkerWake, IInv, WorkerInv
<1>2. \A p \in Queues : InQueue(p) \ {w} = InQueue(p)
  BY <1>1, SetAssumption DEF InQueue
<1>3. Scan(w, pq, ring)
  BY DEF WorkerStart, WorkerWake
<1>4. pq \in [Queues -> QueueType] /\ ring \in Seq(Queues) /\ OnceEach(ring)
  BY DEF IInv, TypeOK, LifeInv
<1>5. \A p \in Queues : Life(pq[p], Creator(p), InQueue(p) \ {w}, WaitingFor(p))
  BY <1>2 DEF LifeInv
<1> QED
  BY <1>3, <1>4, <1>5, ScanLife

LEMMA LoopLife ==
    ASSUME IInv, LifeInv, NEW w \in Workers, WorkerLoop(w)
    PROVE  LifeInv'
<1>1. /\ wk[w].pc = "loop" /\ wk[w] \in WorkerType /\ WorkerInv(wk[w], pq)
      /\ wk \in [Workers -> WorkerType] /\ pq \in [Queues -> QueueType]
      /\ ring \in Seq(Queues)
  BY DEF WorkerLoop, IInv, TypeOK
<1>2. PICK q \in Queues : q = wk[w].q
  BY <1>1 DEF WorkerInv
<1>3. CASE wk' = [wk EXCEPT ![w].pc = "exit"] /\ UNCHANGED <<pq, ring, njobs, poolDown, th, woken, settled>>
  <2> DEFINE x == [wk[w] EXCEPT !.pc = "exit"]
  <2>1. x \in WorkerType /\ x.q = q
    BY <1>1, <1>2 DEF WorkerType
  <2>2. wk' = [wk EXCEPT ![w] = x]
    BY <1>3, Zenon
  <2> HIDE DEF x
  <2>3. \A p \in Queues : LifeKept(pq'[p], pq[p])
    BY <1>3 DEF LifeKept
  <2>4. SameRing
    BY <1>3, RingTurned
  <2> QED
    BY <1>2, <1>3, <2>1, <2>2, <2>3, <2>4, WorkerStays
<1>4. CASE Take(w, q, pq, ring)
  <2> DEFINE x == [pc |-> "run", q |-> q, job |-> Head(pq[q].input)]
  <2>1. wk' = [wk EXCEPT ![w] = x] /\ pq' = [pq EXCEPT ![q] = Taken(pq[q])] /\ ring' = ring /\ th' = th
    BY <1>4 DEF Take
  <2>2. \A p \in Queues : InQueue(p)' = InQueue(p)
    BY <1>1, <1>2, <2>1 DEF InQueue
  <2>3. LifeKept(Taken(pq[q]), pq[q])
    BY <1>1, WorkKeepsLife, KeptLife
  <2>4. \A p \in Queues : LifeKept(pq'[p], pq[p])
    BY <2>1, <2>3, OneKept
  <2>5. \A p \in Queues : Life(pq'[p], Creator(p), InQueue(p), WaitingFor(p))
    <3>1. SUFFICES ASSUME NEW p \in Queues
                   PROVE  Life(pq'[p], Creator(p), InQueue(p), WaitingFor(p))
      OBVIOUS
    <3>2. LifeKept(pq'[p], pq[p]) /\ Life(pq[p], Creator(p), InQueue(p), WaitingFor(p))
      BY <2>4 DEF LifeInv
    <3>3. Closed(pq[p]) => Closed(pq'[p])
      BY <3>2 DEF LifeKept, Closed
    <3> QED
      BY <3>2, <3>3, LifeSame DEF LifeKept
  <2>6. \A p \in Queues : pq[p].noMore => pq'[p].noMore
    BY <2>4 DEF LifeKept
  <2>7. SameRing
    BY <2>1, RingTurned
  <2> QED
    BY <2>1, <2>2, <2>5, <2>6, <2>7, WorkerLife
<1>5. CASE Scan(w, [pq EXCEPT ![q] = Unref(pq[q])], IF pq[q].ref = 1 THEN ring ELSE RotateOne(ring))
  <2> DEFINE U == Unref(pq[q])
             Rs == [pq EXCEPT ![q] = U]
             rg == IF pq[q].ref = 1 THEN ring ELSE RotateOne(ring)
  <2>1. rg \in Seq(Queues) /\ OnceEach(rg) /\ \A p : Attached(rg, p) <=> Attached(ring, p)
    BY <1>1, RotateOneKeeps DEF LifeInv
  <2>2. U \in QueueType
    BY <1>1, UnrefOK DEF IInv
  <2>3. Rs \in [Queues -> QueueType] /\ Rs[q] = U /\ \A p \in Queues : p # q => Rs[p] = pq[p]
    BY <1>1, <2>2
  <2>4. /\ U.ref = pq[q].ref - 1 /\ U.mem = IF pq[q].ref = 1 THEN "freed" ELSE pq[q].mem
        /\ U.shut = pq[q].shut /\ (pq[q].noMore => U.noMore)
    BY <1>1, UnrefLife
  <2>5. Scan(w, Rs, rg)
    BY <1>5
  <2> HIDE DEF U, Rs, rg
  <2>6. w \in InQueue(q) /\ \A p \in Queues : p # q => InQueue(p) \ {w} = InQueue(p)
    BY <1>2 DEF InQueue
  <2>7. Life(U, Creator(q), InQueue(q) \ {w}, WaitingFor(q))
    <3>1. /\ IsFiniteSet(InQueue(q)) /\ IsFiniteSet(WaitingFor(q)) /\ Creator(q) \in {0, 1}
          /\ pq[q] \in QueueType /\ Life(pq[q], Creator(q), InQueue(q), WaitingFor(q))
      BY Counted
    <3>2. Closed(pq[q]) => Closed(U)
      BY <2>4 DEF Closed
    <3> QED
      BY <2>4, <2>6, <3>1, <3>2, LifeLeave
  <2>8. \A p \in Queues : Life(Rs[p], Creator(p), InQueue(p) \ {w}, WaitingFor(p))
    BY <2>3, <2>6, <2>7 DEF LifeInv
  <2>9. \A p \in Queues : pq[p].noMore => Rs[p].noMore
    BY <2>3, <2>4
  <2> QED
    BY <2>1, <2>3, <2>5, <2>8, <2>9, ScanLife
<1> QED
  BY <1>2, <1>3, <1>4, <1>5, Zenon DEF WorkerLoop

\* A job is done, with a result or without one.
LEMMA DoneLife ==
    ASSUME IInv, LifeInv, NEW w \in Workers, AddResult(w) \/ AddResultFails(w)
    PROVE  LifeInv'
<1>1. wk[w].pc = "run"
  BY DEF AddResult, AddResultFails
<1>2. PICK q \in Queues : q = wk[w].q
  BY <1>1, RunningWorker
<1>3. /\ wk[w] \in WorkerType /\ pq[q] \in QueueType
      /\ wk \in [Workers -> WorkerType] /\ pq \in [Queues -> QueueType]
  BY DEF IInv, TypeOK
<1>4. CASE AddResult(w)
  <2> DEFINE x == [wk[w] EXCEPT !.pc = "loop", !.job = NoJob]
             R == WithResult(pq[q], wk[w].job)
  <2>1. wk' = [wk EXCEPT ![w] = x]
    BY <1>4, Zenon DEF AddResult
  <2>2. x \in WorkerType /\ x.q = wk[w].q
    BY <1>3, Zenon DEF WorkerType
  <2>3. pq' = [pq EXCEPT ![q] = R] /\ ring' = ring /\ th' = th
    BY <1>2, <1>4 DEF AddResult
  <2>4. LifeKept(R, pq[q])
    BY <1>3, WorkKeepsLife, KeptLife
  <2> HIDE DEF x, R
  <2>5. SameRing /\ \A p \in Queues : LifeKept(pq'[p], pq[p])
    BY <2>3, <2>4, RingTurned, OneKept
  <2> QED
    BY <2>1, <2>2, <2>3, <2>5, WorkerStays
<1>5. CASE AddResultFails(w)
  <2> DEFINE x == [wk[w] EXCEPT !.pc = "err"]
             R == [pq[q] EXCEPT !.nProcessing = @ - 1]
  <2>1. wk' = [wk EXCEPT ![w] = x]
    BY <1>5, Zenon DEF AddResultFails
  <2>2. x \in WorkerType /\ x.q = wk[w].q
    BY <1>3 DEF WorkerType
  <2>3. pq' = [pq EXCEPT ![q] = R] /\ ring' = ring /\ th' = th
    BY <1>2, <1>5, Zenon DEF AddResultFails
  <2>4. KeepsLife(R, pq[q])
    BY <1>3, Zenon DEF KeepsLife, QueueType
  <2>5. LifeKept(R, pq[q])
    BY <2>4, KeptLife
  <2> HIDE DEF x, R
  <2>6. SameRing /\ \A p \in Queues : LifeKept(pq'[p], pq[p])
    BY <2>3, <2>5, RingTurned, OneKept
  <2> QED
    BY <2>1, <2>2, <2>3, <2>6, WorkerStays
<1> QED
  BY <1>4, <1>5

\* A shut-down queue keeps its references.
LEMMA ShutKept ==
    ASSUME NEW Q \in QueueType, NEW n \in {1, 2}
    PROVE  LifeKept([Q EXCEPT !.shut = n], Q)
<1> DEFINE R == [Q EXCEPT !.shut = n]
<1>1. R.mem = Q.mem /\ R.ref = Q.ref /\ R.noMore = Q.noMore /\ R.shut = n
  BY Zenon DEF QueueType
<1> HIDE DEF R
<1>2. LifeKept(R, Q)
  BY <1>1 DEF LifeKept
<1> QED
  BY <1>2 DEF R

LEMMA ErrLife ==
    ASSUME IInv, LifeInv, NEW w \in Workers, WorkerErrQueue(w) \/ WorkerErrAll(w)
    PROVE  LifeInv'
<1>1. /\ wk[w] \in WorkerType /\ wk \in [Workers -> WorkerType]
      /\ pq \in [Queues -> QueueType] /\ WorkerInv(wk[w], pq)
  BY DEF IInv, TypeOK
<1>2. PICK q \in Queues : q = wk[w].q
  BY <1>1 DEF WorkerErrQueue, WorkerErrAll, WorkerInv
<1>3. CASE WorkerErrQueue(w)
  <2> DEFINE x == [wk[w] EXCEPT !.pc = "errAll"]
             R == [pq[q] EXCEPT !.shut = 1]
  <2>1. wk' = [wk EXCEPT ![w] = x] /\ pq' = [pq EXCEPT ![q] = R] /\ ring' = ring /\ th' = th
    BY <1>2, <1>3, Zenon DEF WorkerErrQueue
  <2>2. x \in WorkerType /\ x.q = wk[w].q
    BY <1>1 DEF WorkerType
  <2>3. LifeKept(R, pq[q])
    BY <1>1, ShutKept
  <2> HIDE DEF x, R
  <2>4. SameRing /\ \A p \in Queues : LifeKept(pq'[p], pq[p])
    BY <2>1, <2>3, RingTurned, OneKept
  <2> QED
    BY <2>1, <2>2, <2>4, WorkerStays
<1>4. CASE WorkerErrAll(w)
  <2> DEFINE x == [wk[w] EXCEPT !.pc = "exit"]
  <2>1. wk' = [wk EXCEPT ![w] = x] /\ ring' = ring /\ th' = th
    BY <1>4, Zenon DEF WorkerErrAll
  <2>2. x \in WorkerType /\ x.q = wk[w].q
    BY <1>1 DEF WorkerType
  <2> HIDE DEF x
  <2>3. \A p \in Queues : pq'[p] = pq[p] \/ pq'[p] = [pq[p] EXCEPT !.shut = 2]
    BY <1>4 DEF WorkerErrAll
  <2>4. \A p \in Queues : LifeKept(pq'[p], pq[p])
    <3>1. SUFFICES ASSUME NEW p \in Queues PROVE LifeKept(pq'[p], pq[p])
      OBVIOUS
    <3>2. LifeKept(pq[p], pq[p])
      BY DEF LifeKept
    <3>3. LifeKept([pq[p] EXCEPT !.shut = 2], pq[p])
      BY <1>1, ShutKept
    <3> QED
      BY <2>3, <3>2, <3>3
  <2>5. SameRing
    BY <2>1, RingTurned
  <2> QED
    BY <2>1, <2>2, <2>4, <2>5, WorkerStays
<1> QED
  BY <1>3, <1>4

----------------------------------------------------------------------------
(* The life of queues: the clients.                                        *)

\* A call gets into attached queues only.
LEMMA OpenAttached ==
    ASSUME IInv, LifeInv, NEW q \in Queues, Open(q)
    PROVE  Attached(ring, q) /\ pq[q].mem = "live" /\ ~ pq[q].noMore
<1>1. pq[q].mem = "live" /\ ~ pq[q].noMore
  BY DEF Open, Live
<1>2. Life(pq[q], Creator(q), InQueue(q), WaitingFor(q)) /\ Creator(q) \in {0, 1}
  BY Counted
<1>3. Creator(q) = 1
  BY <1>1, <1>2 DEF Life, Closed
<1> QED
  BY <1>1, <1>3, Counted

\* A queue that is not shut down is attached.
LEMMA UpAttached ==
    ASSUME IInv, LifeInv, NEW q \in Queues, pq[q].mem = "live", pq[q].shut = 0
    PROVE  Attached(ring, q)
<1>1. Life(pq[q], Creator(q), InQueue(q), WaitingFor(q)) /\ Creator(q) \in {0, 1}
  BY Counted
<1>2. Creator(q) = 1
  BY <1>1 DEF Life, Closed
<1> QED
  BY <1>2, Counted

\* So is the queue of a client that does not wait for a result.
LEMMA InsideAttached ==
    ASSUME IInv, LifeInv, NEW t \in Threads, th[t].pc \notin {"idle", "avail"}
    PROVE  /\ th[t].q \in Queues /\ Attached(ring, th[t].q)
           /\ th[t].call # "next" /\ th[t] \in ThreadType
           /\ th[t].call = "destroy" => pq[th[t].q].noMore
<1>1. th[t].q \in Queues /\ th[t] \in ThreadType /\ ThreadInv(th[t], pq)
  BY InsideQueue
<1>2. th[t].call # "next"
  BY <1>1 DEF ThreadInv
<1> QED
  BY <1>1, <1>2 DEF LifeInv, CallerInv

\* A step of a client on an attached queue, which becomes R.
LEMMA ClientOn ==
    ASSUME IInv, LifeInv, wk' = wk, NEW t \in Threads, NEW x \in ThreadType,
           th' = [th EXCEPT ![t] = x], th[t].pc # "avail", x.pc # "avail",
           NEW q \in Queues, Attached(ring, q), x.q \in {q, "none"}, NEW R,
           pq' = [pq EXCEPT ![q] = R], LifeKept(R, pq[q]),
           x.call = "destroy" => R.noMore,
           ring' = ring \/ \E p \in Queues : ring' = RotateTo(ring, p)
    PROVE  LifeInv'
<1>1. SameRing
  BY RingTurned
<1>2. \A p \in Queues : LifeKept(pq'[p], pq[p])
  BY OneKept
<1>3. pq'[q] = R
  BY DEF IInv, TypeOK
<1>4. CallerInv(x, pq', ring')
  BY <1>1, <1>3, SetAssumption DEF CallerInv, SameRing
<1> QED
  BY <1>1, <1>2, <1>4, ClientStays

LEMMA InitLife ==
    ASSUME IInv, LifeInv, NEW t \in Threads, NEW q \in Queues, ProcessInit(t, q)
    PROVE  LifeInv'
<1> DEFINE R == NewQueue(q)
<1>1. /\ pq[q].mem = "none" /\ pq' = [pq EXCEPT ![q] = R] /\ ring' = <<q>> \o ring
      /\ wk' = wk /\ th' = th
  BY DEF ProcessInit
<1>2. R.mem = "live" /\ R.ref = 1 /\ ~ Closed(R)
  BY DEF NewQueue, Closed
<1> HIDE DEF R
<1>3. /\ pq'[q] = R /\ \A p \in Queues : p # q => pq'[p] = pq[p]
  BY <1>1 DEF IInv, TypeOK
<1>4. /\ ~ Attached(ring, q) /\ ring \in Seq(Queues)
      /\ (\A w \in Workers : wk[w].q # q) /\ (\A u \in Threads : th[u].q # q)
  BY <1>1 DEF IInv, UnbornInv, TypeOK
<1>5. /\ \A p : Attached(ring', p) <=> p = q \/ Attached(ring, p)
      /\ OnceEach(ring')
  BY <1>1, <1>4, PrependedKeeps DEF LifeInv
<1>6. /\ \A p \in Queues : WaitingFor(p)' = WaitingFor(p) /\ InQueue(p)' = InQueue(p)
      /\ WaitingFor(q) = {} /\ InQueue(q) = {}
  BY <1>1, <1>4 DEF WaitingFor, InQueue
<1>7. Creator(q)' = 1 /\ \A p \in Queues : p # q => Creator(p)' = Creator(p)
  BY <1>5 DEF Creator
<1>8. Cardinality({}) = 0
  BY FS_EmptySet
<1>9. Life(R, 1, {}, {})
  BY <1>2, <1>8 DEF Life
<1>10. \A p \in Queues : Life(pq'[p], Creator(p)', InQueue(p)', WaitingFor(p)')
  BY <1>3, <1>6, <1>7, <1>9 DEF LifeInv
<1>11. \A u \in Threads : CallerInv(th'[u], pq', ring')
  BY <1>1, <1>3, <1>4, <1>5 DEF LifeInv, CallerInv
<1> QED
  BY <1>5, <1>6, <1>10, <1>11 DEF LifeInv

\* Dispatch: the job is appended or given back.  Q is the queue so far.
LEMMA EnqueueLife ==
    ASSUME IInv, LifeInv, NEW t \in Threads, th[t].pc # "avail",
           NEW q \in Queues, Attached(ring, q), NEW Q \in QueueType,
           LifeKept(Q, pq[q]), NEW j, NEW mode, Enqueue(t, q, Q, j, mode)
    PROVE  LifeInv'
<1>1. th' = [th EXCEPT ![t] = Idle] /\ wk' = wk
  BY DEF Enqueue
<1>2. /\ pq' = [pq EXCEPT ![q] = Q] \/ pq' = [pq EXCEPT ![q] = Appended(Q, j, mode)]
      /\ ring' = ring \/ ring' = RotateTo(ring, q)
  BY DEF Enqueue
<1>3. LifeKept(Appended(Q, j, mode), pq[q])
  <2>1. KeepsLife(Appended(Q, j, mode), Q)
    BY WorkKeepsLife
  <2> QED
    BY <2>1, Zenon DEF KeepsLife, LifeKept
<1> QED
  BY <1>1, <1>2, <1>3, IdleOK, ClientOn

LEMMA DispatchLife ==
    ASSUME IInv, LifeInv, NEW t \in Threads, NEW q \in Queues, NEW mode, Dispatch(t, q, mode)
    PROVE  LifeInv'
<1> DEFINE Q == Drawn(pq[q])
           j == [serial |-> pq[q].curr, id |-> Q.calls]
           x == [pc |-> "notFull", call |-> "dispatch", q |-> q, job |-> j]
<1>1. th[t] = Idle /\ Open(q) /\ pq[q] \in QueueType /\ QueueInv(pq[q]) /\ pq[q].calls < MaxCalls
  BY OpenQueue DEF Dispatch
<1>2. Q \in QueueType /\ j \in Job /\ LifeKept(Q, pq[q])
  BY <1>1, DrawnOK, WorkKeepsLife, KeptLife
<1>3. Attached(ring, q) /\ th[t].pc # "avail"
  BY <1>1, OpenAttached, IdleOK
<1>4. \/ /\ th' = [th EXCEPT ![t] = x] /\ pq' = [pq EXCEPT ![q] = Q] /\ ring' = ring /\ wk' = wk
      \/ Enqueue(t, q, Q, j, mode)
  BY DEF Dispatch
<1>5. x \in ThreadType /\ x.q = q /\ x.call = "dispatch" /\ x.pc = "notFull"
  BY <1>2 DEF ThreadType, QueueConds
<1> HIDE DEF Q, j, x
<1> QED
  BY <1>2, <1>3, <1>4, <1>5, EnqueueLife, ClientOn

LEMMA DispatchWakeLife ==
    ASSUME IInv, LifeInv, NEW t \in Threads, DispatchWake(t)
    PROVE  LifeInv'
<1>1. th[t].pc = "notFull"
  BY DEF DispatchWake
<1>2. PICK q \in Queues : q = th[t].q /\ Attached(ring, q) /\ pq[q] \in QueueType
  BY <1>1, InsideAttached, OpenQueue
<1>3. CASE UNCHANGED <<pq, ring, njobs, poolDown, wk, th, settled>>
  <2>1. SameRing
    BY <1>3, RingTurned
  <2>2. \A p \in Queues : InQueue(p)' = InQueue(p) /\ pq'[p] = pq[p]
    BY <1>3 DEF InQueue
  <2> QED
    BY <1>3, <2>1, <2>2, WorkerLife DEF LifeInv
<1>4. CASE Enqueue(t, q, pq[q], th[t].job, "block")
  <2>1. LifeKept(pq[q], pq[q])
    BY DEF LifeKept
  <2> QED
    BY <1>1, <1>2, <1>4, <2>1, EnqueueLife
<1> QED
  BY <1>2, <1>3, <1>4 DEF DispatchWake

\* A result is handed out of Q, the queue so far.
LEMMA DeliverEffect ==
    ASSUME IInv, NEW t \in Threads, NEW q \in Queues, NEW Q \in QueueType, Deliver(t, q, Q)
    PROVE  /\ th' = [th EXCEPT ![t] = Idle] /\ wk' = wk
           /\ ring' = ring \/ ring' = RotateTo(ring, q)
           /\ \E r \in Found(Q) : /\ pq' = [pq EXCEPT ![q] = Without(Q, r)]
                                  /\ settled' = [settled EXCEPT ![q] = @ \cup {r.id}]
                                  /\ KeepsLife(Without(Q, r), Q)
<1>1. PICK r \in Found(Q) :
         LET R == Without(Q, r)
             room == R.nOutput < R.qsize
         IN  /\ pq' = [pq EXCEPT ![q] = R]
             /\ settled' = [settled EXCEPT ![q] = @ \cup {r.id}]
             /\ ring' = IF room THEN RotateTo(ring, q) ELSE ring
             /\ \E S \in IF room /\ R.nInput < R.qsize THEN Signal("notFull", q) ELSE {{}} :
                   woken' = (woken \ {t}) \cup S
                            \cup (IF room THEN WakeWorker(R, njobs) ELSE {})
  BY DEF Deliver
<1>2. KeepsLife(Without(Q, r), Q)
  BY WorkKeepsLife
<1>3. th' = [th EXCEPT ![t] = Idle] /\ wk' = wk
  BY DEF Deliver
<1> QED
  BY <1>1, <1>2, <1>3

LEMMA NextResultLife ==
    ASSUME IInv, LifeInv, NEW t \in Threads, NEW q \in Queues, NextResult(t, q)
    PROVE  LifeInv'
<1>1. th[t] = Idle /\ Open(q) /\ Deliver(t, q, pq[q]) /\ pq[q] \in QueueType
  BY OpenQueue DEF NextResult
<1>2. PICK r \in Found(pq[q]) : /\ pq' = [pq EXCEPT ![q] = Without(pq[q], r)]
                                /\ KeepsLife(Without(pq[q], r), pq[q])
  BY <1>1, DeliverEffect
<1>3. /\ th' = [th EXCEPT ![t] = Idle] /\ wk' = wk
      /\ ring' = ring \/ ring' = RotateTo(ring, q)
  BY <1>1, DeliverEffect
<1>4. Attached(ring, q) /\ th[t].pc # "avail"
  BY <1>1, OpenAttached, IdleOK
<1> QED
  BY <1>2, <1>3, <1>4, IdleOK, KeptLife, ClientOn

LEMMA NextResultWaitLife ==
    ASSUME IInv, LifeInv, NEW t \in Threads, NEW q \in Queues, NextResultWait(t, q)
    PROVE  LifeInv'
<1> DEFINE x == [pc |-> "avail", call |-> "next", q |-> q, job |-> NoJob]
           R == [pq[q] EXCEPT !.ref = pq[q].ref + 1]
<1>1. th[t] = Idle /\ Open(q) /\ pq[q] \in QueueType /\ pq[q].mem = "live" /\ th \in [Threads -> ThreadType]
  BY OpenQueue DEF NextResultWait, IInv, TypeOK
<1>2. /\ pq' = [pq EXCEPT ![q] = R] /\ th' = [th EXCEPT ![t] = x]
      /\ ring' = ring /\ wk' = wk
  BY Zenon DEF NextResultWait
<1>3. R.mem = pq[q].mem /\ R.ref = pq[q].ref + 1 /\ R.noMore = pq[q].noMore /\ R.shut = pq[q].shut
  BY <1>1, Zenon DEF QueueType
<1>4. x.q = q /\ x.pc = "avail" /\ x.call = "next"
  OBVIOUS
<1> HIDE DEF x, R
<1>5. /\ pq'[q] = R /\ \A p \in Queues : p # q => pq'[p] = pq[p]
  BY <1>2 DEF IInv, TypeOK
<1>6. /\ t \notin WaitingFor(q) /\ WaitingFor(q)' = WaitingFor(q) \cup {t}
      /\ \A p \in Queues : p # q => WaitingFor(p)' = WaitingFor(p)
  BY <1>1, <1>2, <1>4, IdleOK DEF WaitingFor
<1>7. \A p \in Queues : InQueue(p)' = InQueue(p) /\ Creator(p)' = Creator(p)
  BY <1>2 DEF InQueue, Creator
<1>8. /\ IsFiniteSet(InQueue(q)) /\ IsFiniteSet(WaitingFor(q)) /\ Creator(q) \in {0, 1}
      /\ Life(pq[q], Creator(q), InQueue(q), WaitingFor(q))
  BY Counted
<1>9. Closed(pq[q]) => Closed(R)
  BY <1>3, Zenon DEF Closed
<1>10. Life(R, Creator(q), InQueue(q), WaitingFor(q) \cup {t})
  BY <1>1, <1>3, <1>6, <1>8, <1>9, LifeAwait
<1>11. \A p \in Queues : Life(pq'[p], Creator(p)', InQueue(p)', WaitingFor(p)')
  BY <1>5, <1>6, <1>7, <1>10 DEF LifeInv
<1>12. \A p \in Queues : IsFiniteSet(WaitingFor(p)')
  BY <1>6, FS_AddElement DEF LifeInv
<1>13. pq[q].noMore => pq'[q].noMore
  BY <1>3, <1>5, Zenon
<1>14. \A u \in Threads : CallerInv(th'[u], pq', ring')
  <2>1. CallerInv(x, pq', ring')
    BY <1>4 DEF CallerInv
  <2>2. ASSUME NEW u \in Threads, u # t PROVE CallerInv(th'[u], pq', ring')
    <3>1. th'[u] = th[u] /\ CallerInv(th[u], pq, ring)
      BY <1>1, <1>2, <2>2 DEF LifeInv
    <3> QED
      BY <3>1, <1>2, <1>5, <1>13 DEF CallerInv
  <2> QED
    BY <2>1, <2>2, <1>1, <1>2
<1>15. OnceEach(ring')
  BY <1>2 DEF LifeInv
<1> QED
  BY <1>11, <1>12, <1>14, <1>15 DEF LifeInv

\* A consumer stops waiting; the queue becomes R.
LEMMA StopWaiting ==
    ASSUME IInv, LifeInv, NEW t \in Threads, NEW q \in Queues, th[t].q = q, th[t].pc = "avail",
           th' = [th EXCEPT ![t] = Idle], wk' = wk, SameRing,
           NEW R, pq' = [pq EXCEPT ![q] = R], pq[q].noMore => R.noMore,
           Life(R, Creator(q), InQueue(q), WaitingFor(q) \ {t})
    PROVE  LifeInv'
<1>1. th \in [Threads -> ThreadType]
  BY DEF IInv, TypeOK
<1>2. /\ pq'[q] = R /\ \A p \in Queues : p # q => pq'[p] = pq[p]
  BY DEF IInv, TypeOK
<1>3. /\ WaitingFor(q)' = WaitingFor(q) \ {t}
      /\ \A p \in Queues : p # q => WaitingFor(p)' = WaitingFor(p)
  BY <1>1, IdleOK DEF WaitingFor
<1>4. \A p \in Queues : InQueue(p)' = InQueue(p) /\ Creator(p)' = Creator(p)
  BY DEF InQueue, Creator, SameRing
<1>5. \A p \in Queues : Life(pq'[p], Creator(p)', InQueue(p)', WaitingFor(p)')
  BY <1>2, <1>3, <1>4 DEF LifeInv
<1>6. \A p \in Queues : IsFiniteSet(WaitingFor(p)')
  BY <1>3, FS_Subset DEF LifeInv
<1>7. \A u \in Threads : CallerInv(th'[u], pq', ring')
  <2>1. CallerInv(Idle, pq', ring')
    BY IdleOK, SetAssumption DEF CallerInv
  <2>2. ASSUME NEW u \in Threads, u # t PROVE CallerInv(th'[u], pq', ring')
    <3>1. th'[u] = th[u] /\ CallerInv(th[u], pq, ring)
      BY <1>1, <2>2 DEF LifeInv
    <3> QED
      BY <3>1, <1>2 DEF CallerInv, SameRing
  <2> QED
    BY <2>1, <2>2, <1>1
<1> QED
  BY <1>5, <1>6, <1>7 DEF LifeInv, SameRing

LEMMA NextResultWakeLife ==
    ASSUME IInv, LifeInv, NEW t \in Threads, NextResultWake(t)
    PROVE  LifeInv'
<1>1. th[t].pc = "avail"
  BY DEF NextResultWake
<1>2. PICK q \in Queues : q = th[t].q
  BY <1>1, InsideQueue
<1>3. /\ pq[q] \in QueueType /\ t \in WaitingFor(q)
      /\ IsFiniteSet(InQueue(q)) /\ IsFiniteSet(WaitingFor(q)) /\ Creator(q) \in {0, 1}
      /\ Life(pq[q], Creator(q), InQueue(q), WaitingFor(q))
  BY <1>1, <1>2, Counted DEF WaitingFor
<1>4. CASE HasNext(pq[q]) /\ Deliver(t, q, [pq[q] EXCEPT !.ref = @ - 1])
  <2> DEFINE Q == [pq[q] EXCEPT !.ref = pq[q].ref - 1]
  <2>1. Q \in QueueType
    <3>1. pq[q].ref - 1 \in Int
      BY <1>3, FieldTypes
    <3> QED
      BY <1>3, <3>1, Zenon DEF QueueType
  <2>2. Q.mem = pq[q].mem /\ Q.ref = pq[q].ref - 1 /\ Q.noMore = pq[q].noMore /\ Q.shut = pq[q].shut
    BY <1>3, Zenon DEF QueueType
  <2>3. Deliver(t, q, Q)
    BY <1>4
  <2> HIDE DEF Q
  <2>4. PICK r \in Found(Q) : /\ pq' = [pq EXCEPT ![q] = Without(Q, r)]
                              /\ KeepsLife(Without(Q, r), Q)
    BY <2>1, <2>3, DeliverEffect
  <2>5. /\ th' = [th EXCEPT ![t] = Idle] /\ wk' = wk
        /\ ring' = ring \/ ring' = RotateTo(ring, q)
    BY <2>1, <2>3, DeliverEffect
  <2> DEFINE R == Without(Q, r)
  <2>6. R.mem = pq[q].mem /\ R.ref = pq[q].ref - 1 /\ R.noMore = pq[q].noMore
    BY <2>2, <2>4 DEF KeepsLife
  <2>7. pq' = [pq EXCEPT ![q] = R]
    BY <2>4
  <2> HIDE DEF R
  <2>8. pq[q].mem = "live" /\ pq[q].shut = 0
    BY <1>3, <1>4 DEF Life, HasNext
  <2>9. Creator(q) = 1
    BY <2>8, UpAttached, Counted
  <2>10. Life(R, Creator(q), InQueue(q), WaitingFor(q) \ {t})
    BY <1>3, <2>6, <2>9, LifeServed
  <2>11. SameRing
    BY <2>5, RingTurned
  <2>12. pq[q].noMore => R.noMore
    BY <2>6, Zenon
  <2> QED
    BY <1>1, <1>2, <2>5, <2>7, <2>10, <2>11, <2>12, StopWaiting
<1>5. CASE /\ th' = [th EXCEPT ![t] = Idle] /\ pq' = [pq EXCEPT ![q] = Unref(pq[q])]
           /\ UNCHANGED <<ring, njobs, poolDown, wk, settled>>
  <2> DEFINE R == Unref(pq[q])
  <2>1. /\ R.ref = pq[q].ref - 1 /\ R.shut = pq[q].shut /\ (pq[q].noMore => R.noMore)
        /\ R.mem = IF pq[q].ref = 1 THEN "freed" ELSE pq[q].mem
    BY <1>3, UnrefLife
  <2>2. pq' = [pq EXCEPT ![q] = R]
    BY <1>5
  <2> HIDE DEF R
  <2>3. Closed(pq[q]) => Closed(R)
    BY <2>1 DEF Closed
  <2>4. Life(R, Creator(q), InQueue(q), WaitingFor(q) \ {t})
    BY <1>3, <2>1, <2>3, LifeGone
  <2>5. SameRing
    BY <1>5, RingTurned
  <2> QED
    BY <1>1, <1>2, <1>5, <2>1, <2>2, <2>4, <2>5, StopWaiting
<1>6. CASE UNCHANGED <<pq, ring, njobs, poolDown, wk, th, settled>>
  <2>1. SameRing
    BY <1>6, RingTurned
  <2>2. \A p \in Queues : InQueue(p)' = InQueue(p) /\ pq'[p] = pq[p]
    BY <1>6 DEF InQueue
  <2> QED
    BY <1>6, <2>1, <2>2, WorkerLife DEF LifeInv
<1> QED
  BY <1>2, <1>4, <1>5, <1>6, Zenon DEF NextResultWake

LEMMA FlagsLife ==
    ASSUME IInv, LifeInv, NEW t \in Threads, NEW q \in Queues,
           WakeDispatch(t, q) \/ ProcessShutdown(t, q)
    PROVE  LifeInv'
<1>1. pq[q] \in QueueType /\ th[t] = Idle /\ Attached(ring, q)
  BY OpenQueue, OpenAttached DEF WakeDispatch, ProcessShutdown
<1>2. \E R : pq' = [pq EXCEPT ![q] = R] /\ LifeKept(R, pq[q])
  <2>1. CASE WakeDispatch(t, q)
    <3> DEFINE R == [pq[q] EXCEPT !.wake = TRUE]
    <3>1. pq' = [pq EXCEPT ![q] = R]
      BY <2>1, Zenon DEF WakeDispatch
    <3>2. KeepsLife(R, pq[q])
      BY <1>1, Zenon DEF KeepsLife, QueueType
    <3> QED
      BY <3>1, <3>2, KeptLife, Zenon
  <2>2. CASE ProcessShutdown(t, q)
    <3> DEFINE R == [pq[q] EXCEPT !.shut = 1]
    <3>1. pq' = [pq EXCEPT ![q] = R]
      BY <2>2, Zenon DEF ProcessShutdown
    <3>2. LifeKept(R, pq[q])
      BY <1>1, ShutKept
    <3> QED
      BY <3>1, <3>2, Zenon
  <2> QED
    BY <2>1, <2>2
<1>3. th' = th /\ wk' = wk /\ ring' = ring
  BY DEF WakeDispatch, ProcessShutdown
<1>4. th' = [th EXCEPT ![t] = Idle]
  BY <1>1, <1>3, StaysIdle
<1> QED
  BY <1>1, <1>2, <1>3, <1>4, IdleOK, ClientOn

LEMMA FlushLife ==
    ASSUME IInv, LifeInv, NEW t \in Threads, NEW q \in Queues, ProcessFlush(t, q)
    PROVE  LifeInv'
<1> DEFINE x == [pc |-> "flush", call |-> "flush", q |-> q, job |-> NoJob]
<1>1. th[t] = Idle /\ Attached(ring, q)
  BY OpenAttached DEF ProcessFlush
<1>2. th' = [th EXCEPT ![t] = x] /\ UNCHANGED <<pq, ring, wk>>
  BY DEF ProcessFlush
<1>3. x \in ThreadType /\ x.q = q /\ x.call = "flush" /\ x.pc = "flush"
  BY DEF ThreadType
<1> HIDE DEF x
<1>4. pq' = [pq EXCEPT ![q] = pq[q]] /\ LifeKept(pq[q], pq[q])
  BY <1>2, SameQueue DEF LifeKept
<1> QED
  BY <1>1, <1>2, <1>3, <1>4, IdleOK, ClientOn

\* A client inside a flush, reset or destroy goes on with pc.
LEMMA FlushToLife ==
    ASSUME IInv, LifeInv, NEW t \in Threads, th[t].pc \notin {"idle", "avail"},
           NEW c \in {"idle", "inputEmpty", "noneProcessing", "resetEnd", "flush", "destroyEnd"},
           FlushTo(t, c), wk' = wk, ring' = ring,
           NEW R, LifeKept(R, pq[th[t].q]), pq' = [pq EXCEPT ![th[t].q] = R]
    PROVE  LifeInv'
<1>1. PICK q \in Queues : q = th[t].q
  BY InsideAttached
<1>2. /\ Attached(ring, q) /\ th[t] \in ThreadType
      /\ th[t].call = "destroy" => pq[q].noMore
  BY <1>1, InsideAttached
<1>3. CASE c = "idle"
  <2>1. th' = [th EXCEPT ![t] = Idle]
    BY <1>3 DEF FlushTo
  <2> QED
    BY <1>1, <1>2, <2>1, IdleOK, ClientOn
<1>4. CASE c # "idle"
  <2> DEFINE x == [th[t] EXCEPT !.pc = c]
  <2>1. th' = [th EXCEPT ![t] = x]
    BY <1>4 DEF FlushTo
  <2>2. x \in ThreadType /\ x.pc = c /\ x.call = th[t].call /\ x.q = q
    <3>1. c \in {"idle", "flush", "resetEnd", "destroy", "destroyEnd"} \cup QueueConds
      BY DEF QueueConds
    <3> QED
      BY <1>1, <1>2, <3>1, Zenon DEF ThreadType
  <2> HIDE DEF x
  <2>3. x.call = "destroy" => R.noMore
    BY <1>1, <1>2, <2>2 DEF LifeKept
  <2> QED
    BY <1>1, <1>2, <2>1, <2>2, <2>3, ClientOn
<1> QED
  BY <1>3, <1>4

LEMMA FlushStartLife ==
    ASSUME IInv, LifeInv, NEW t \in Threads, FlushStart(t)
    PROVE  LifeInv'
<1>1. th[t].pc = "flush"
  BY DEF FlushStart
<1>2. PICK q \in Queues : q = th[t].q
  BY <1>1, InsideQueue
<1> DEFINE total == pq[q].nOutput + pq[q].nInput + pq[q].nProcessing
           n == IF pq[q].qsize < total THEN total ELSE pq[q].qsize
           R == [pq[q] EXCEPT !.qsize = n]
           c == FlushNext(pq[q], th[t].call)
<1>3. /\ pq' = [pq EXCEPT ![q] = R] /\ FlushTo(t, c)
      /\ ring' = ring /\ wk' = wk
  BY <1>2, Zenon DEF FlushStart
<1>4. pq[q] \in QueueType
  BY OpenQueue
<1>5. c \in {"idle", "inputEmpty", "noneProcessing", "resetEnd"}
  BY <1>4, FlushNextOK
<1> HIDE DEF c, n
<1>6. KeepsLife(R, pq[q])
  BY <1>4, Zenon DEF KeepsLife, QueueType
<1>7. LifeKept(R, pq[q])
  BY <1>6, KeptLife
<1> HIDE DEF R
<1> QED
  BY <1>1, <1>2, <1>3, <1>5, <1>7, FlushToLife

LEMMA FlushWakeLife ==
    ASSUME IInv, LifeInv, NEW t \in Threads, FlushWake(t)
    PROVE  LifeInv'
<1>1. th[t].pc \in {"inputEmpty", "noneProcessing"}
  BY DEF FlushWake
<1>2. PICK q \in Queues : q = th[t].q
  BY <1>1, InsideQueue
<1> DEFINE c == IF th[t].pc = "noneProcessing" /\ pq[q].nProcessing # 0
                THEN "noneProcessing" ELSE FlushNext(pq[q], th[t].call)
<1>3. FlushTo(t, c) /\ UNCHANGED <<pq, ring, wk>>
  BY <1>2 DEF FlushWake
<1>4. pq[q] \in QueueType
  BY OpenQueue
<1>5. c \in {"idle", "inputEmpty", "noneProcessing", "resetEnd"}
  BY <1>4, FlushNextOK
<1> HIDE DEF c
<1>6. pq' = [pq EXCEPT ![q] = pq[q]] /\ LifeKept(pq[q], pq[q])
  BY <1>3, SameQueue DEF LifeKept
<1> QED
  BY <1>1, <1>2, <1>3, <1>5, <1>6, FlushToLife

LEMMA ResetLife ==
    ASSUME IInv, LifeInv, NEW t \in Threads, NEW q \in Queues, ProcessReset(t, q)
    PROVE  LifeInv'
<1> DEFINE x == [pc |-> "flush", call |-> "reset", q |-> q, job |-> NoJob]
           R == Discarded(pq[q])
<1>1. th[t] = Idle /\ Attached(ring, q) /\ pq[q] \in QueueType
  BY OpenAttached, OpenQueue DEF ProcessReset
<1>2. /\ th' = [th EXCEPT ![t] = x] /\ pq' = [pq EXCEPT ![q] = R]
      /\ ring' = ring /\ wk' = wk
  BY DEF ProcessReset, ResetDiscard
<1>3. x \in ThreadType /\ x.q = q /\ x.call = "reset" /\ x.pc = "flush"
  BY DEF ThreadType
<1>4. LifeKept(R, pq[q])
  BY <1>1, WorkKeepsLife, KeptLife
<1> HIDE DEF x, R
<1> QED
  BY <1>1, <1>2, <1>3, <1>4, IdleOK, ClientOn

LEMMA DestroyLife ==
    ASSUME IInv, LifeInv, NEW t \in Threads, NEW q \in Queues, ProcessDestroy(t, q)
    PROVE  LifeInv'
<1> DEFINE x == [pc |-> "destroy", call |-> "destroy", q |-> q, job |-> NoJob]
           R == [pq[q] EXCEPT !.noMore = TRUE]
<1>1. th[t] = Idle /\ Attached(ring, q) /\ pq[q] \in QueueType
  BY OpenAttached, OpenQueue DEF ProcessDestroy
<1>2. /\ th' = [th EXCEPT ![t] = x] /\ pq' = [pq EXCEPT ![q] = R]
      /\ ring' = ring /\ wk' = wk
  BY Zenon DEF ProcessDestroy
<1>3. x \in ThreadType /\ x.q = q /\ x.pc = "destroy"
  BY DEF ThreadType
<1>4. R.mem = pq[q].mem /\ R.ref = pq[q].ref /\ R.noMore = TRUE /\ R.shut = pq[q].shut
  BY <1>1, Zenon DEF QueueType
<1> HIDE DEF x, R
<1>5. LifeKept(R, pq[q]) /\ R.noMore
  BY <1>4, Zenon DEF LifeKept
<1> QED
  BY <1>1, <1>2, <1>3, <1>5, IdleOK, ClientOn

LEMMA DestroyResetLife ==
    ASSUME IInv, LifeInv, NEW t \in Threads, DestroyReset(t)
    PROVE  LifeInv'
<1>1. th[t].pc = "destroy" /\ wk' = wk /\ ring' = ring
  BY DEF DestroyReset
<1>2. PICK q \in Queues : q = th[t].q
  BY <1>1, InsideQueue
<1> DEFINE R == Discarded(pq[q])
<1>3. pq' = [pq EXCEPT ![q] = R] /\ FlushTo(t, "flush")
  BY <1>2, Zenon DEF DestroyReset, ResetDiscard, FlushTo
<1>4. LifeKept(R, pq[q])
  BY OpenQueue, WorkKeepsLife, KeptLife
<1> HIDE DEF R
<1> QED
  BY <1>1, <1>2, <1>3, <1>4, FlushToLife

LEMMA ResetEndLife ==
    ASSUME IInv, LifeInv, NEW t \in Threads, ResetEnd(t)
    PROVE  LifeInv'
<1>1. th[t].pc = "resetEnd" /\ wk' = wk /\ ring' = ring
  BY DEF ResetEnd
<1>2. PICK q \in Queues : q = th[t].q
  BY <1>1, InsideQueue
<1> DEFINE R == Restarted(pq[q])
           c == IF th[t].call = "reset" THEN "idle" ELSE "destroyEnd"
<1>3. pq' = [pq EXCEPT ![q] = R]
  BY <1>2 DEF ResetEnd
<1>4. FlushTo(t, c)
  BY Zenon DEF ResetEnd, FlushTo
<1>5. c \in {"idle", "destroyEnd"}
  OBVIOUS
<1>6. LifeKept(R, pq[q])
  BY OpenQueue, WorkKeepsLife, KeptLife
<1> HIDE DEF R, c
<1> QED
  BY <1>1, <1>2, <1>3, <1>4, <1>5, <1>6, FlushToLife

\* The creator gives the queue up: only waiting consumers are left inside.
LEMMA DestroyEndLife ==
    ASSUME IInv, LifeInv, NEW t \in Threads, DestroyEnd(t)
    PROVE  LifeInv'
<1>1. th[t].pc = "destroyEnd"
  BY DEF DestroyEnd
<1>2. PICK q \in Queues : q = th[t].q
  BY <1>1, InsideQueue
<1>3. /\ pq[q] \in QueueType /\ th \in [Threads -> ThreadType] /\ ring \in Seq(Queues)
      /\ th[t].call = "destroy" /\ Attached(ring, q) /\ pq[q].noMore
  <2>1. th[t].call = "destroy"
    BY <1>1 DEF IInv, ThreadInv
  <2> QED
    BY <1>1, <1>2, <2>1, InsideAttached, OpenQueue DEF IInv, TypeOK
<1>4. \A u \in Threads \ {t} : th[u].q = q => th[u].call = "next"
  <2>1. SUFFICES ASSUME NEW u \in Threads, u # t, th[u].q = q PROVE th[u].call = "next"
    OBVIOUS
  <2>2. th[u].call \notin {"dispatch", "flush", "reset", "destroy"}
    BY <1>2, <1>3, <2>1, InReset
  <2>3. th[u] \in ThreadType /\ ThreadInv(th[u], pq) /\ th[u].call # "none"
    BY <2>1, IdleOK, SetAssumption DEF IInv, TypeOK, ThreadInv
  <2> QED
    BY <2>2, <2>3 DEF ThreadType
<1> DEFINE U == Unref(pq[q])
           R == [U EXCEPT !.shut = 1]
<1>5. /\ pq' = [pq EXCEPT ![q] = R] /\ ring' = Detached(ring, q)
      /\ th' = [th EXCEPT ![t] = Idle] /\ wk' = wk
  BY <1>2 DEF DestroyEnd
<1>6. /\ U.ref = pq[q].ref - 1 /\ U.noMore
      /\ U.mem = IF pq[q].ref = 1 THEN "freed" ELSE pq[q].mem
  BY <1>3, UnrefLife
<1>7. U \in QueueType
  BY <1>3, UnrefOK DEF IInv
<1> HIDE DEF U
<1>8. R.ref = U.ref /\ R.mem = U.mem /\ R.noMore = U.noMore /\ R.shut = 1
  BY <1>7, Zenon DEF QueueType
<1> HIDE DEF R
<1>9. Closed(R)
  <2>1. R.noMore
    BY <1>6, <1>8, Zenon
  <2> QED
    BY <2>1, <1>8 DEF Closed
<1>10. /\ pq'[q] = R /\ \A p \in Queues : p # q => pq'[p] = pq[p]
  BY <1>5 DEF IInv, TypeOK
<1>11. /\ \A p : Attached(ring', p) <=> Attached(ring, p) /\ p # q
       /\ OnceEach(ring')
  BY <1>3, <1>5, DetachedKeeps DEF LifeInv
<1>12. Creator(q) = 1 /\ Creator(q)' = 0 /\ \A p \in Queues : p # q => Creator(p)' = Creator(p)
  BY <1>3, <1>11 DEF Creator
<1>13. \A p \in Queues : WaitingFor(p)' = WaitingFor(p) /\ InQueue(p)' = InQueue(p)
  BY <1>1, <1>3, <1>5, IdleOK DEF WaitingFor, InQueue
<1>14. Life(R, 0, InQueue(q), WaitingFor(q))
  <2>1. /\ IsFiniteSet(InQueue(q)) /\ IsFiniteSet(WaitingFor(q))
        /\ Life(pq[q], 1, InQueue(q), WaitingFor(q))
    BY <1>12, Counted
  <2>2. R.ref = pq[q].ref - 1 /\ R.mem = IF pq[q].ref = 1 THEN "freed" ELSE pq[q].mem
    BY <1>6, <1>8
  <2> QED
    BY <1>3, <1>9, <2>1, <2>2, LifeDetached
<1>15. \A p \in Queues : Life(pq'[p], Creator(p)', InQueue(p)', WaitingFor(p)')
  BY <1>10, <1>12, <1>13, <1>14 DEF LifeInv
<1>16. \A u \in Threads : CallerInv(th'[u], pq', ring')
  <2>1. CallerInv(Idle, pq', ring')
    BY IdleOK, SetAssumption DEF CallerInv
  <2>2. ASSUME NEW u \in Threads, u # t PROVE CallerInv(th'[u], pq', ring')
    <3>1. th'[u] = th[u] /\ CallerInv(th[u], pq, ring)
      BY <1>3, <1>5, <2>2 DEF LifeInv
    <3>2. CASE th[u].q = q
      <4>1. th[u].call = "next"
        BY <1>4, <2>2, <3>2
      <4> QED
        BY <3>1, <4>1 DEF CallerInv
    <3>3. CASE th[u].q # q
      BY <3>1, <3>3, <1>10, <1>11 DEF CallerInv
    <3> QED
      BY <3>2, <3>3
  <2> QED
    BY <2>1, <2>2, <1>3, <1>5
<1> QED
  BY <1>11, <1>13, <1>15, <1>16 DEF LifeInv

\* Steps that change neither queues nor ring nor who is where.
LEMMA QuietLife ==
    ASSUME IInv, LifeInv, UNCHANGED <<pq, ring, wk, th>>
    PROVE  LifeInv'
<1>1. SameRing
  BY RingTurned
<1>2. \A p \in Queues : InQueue(p)' = InQueue(p)
  BY DEF InQueue
<1> QED
  BY <1>1, <1>2, WorkerLife DEF LifeInv

LEMMA LifeStart == Init => LifeInv
<1> SUFFICES ASSUME Init PROVE LifeInv
  OBVIOUS
<1>1. ring = <<>> /\ \A q \in Queues : ~ Attached(ring, q)
  BY DEF Init, Attached
<1>2. OnceEach(ring)
  BY <1>1 DEF OnceEach
<1>3. \A q \in Queues : InQueue(q) = {} /\ WaitingFor(q) = {} /\ Creator(q) = 0
  BY <1>1, SetAssumption DEF Init, InQueue, WaitingFor, Creator, Idle
<1>4. \A q \in Queues : pq[q].mem = "none"
  BY DEF Init, Unborn, NewQueue
<1>5. \A q \in Queues : Life(pq[q], Creator(q), InQueue(q), WaitingFor(q))
  BY <1>3, <1>4 DEF Life
<1>6. \A t \in Threads : CallerInv(th[t], pq, ring)
  BY SetAssumption DEF Init, CallerInv, Idle
<1> QED
  BY <1>2, <1>3, <1>5, <1>6, FS_EmptySet DEF LifeInv

LEMMA LifeNext == IInv /\ LifeInv /\ [Next]_vars => LifeInv'
<1> SUFFICES ASSUME IInv, LifeInv, [Next]_vars PROVE LifeInv'
  OBVIOUS
<1>1. CASE UNCHANGED vars
  BY <1>1, QuietLife DEF vars
<1>2. ASSUME NEW w \in Workers, WorkerNext(w) PROVE LifeInv'
  BY <1>2, StartLife, LoopLife, DoneLife, ErrLife DEF WorkerNext
<1>3. ASSUME NEW t \in Threads, ThreadStep(t) PROVE LifeInv'
  BY <1>3, DispatchWakeLife, NextResultWakeLife, FlushStartLife, FlushWakeLife,
     ResetEndLife, DestroyResetLife, DestroyEndLife DEF ThreadStep
<1>4. ASSUME NEW t \in Dispatchers, NEW q \in Queues, DispatcherCall(t, q) PROVE LifeInv'
  <2>1. t \in Threads
    BY DEF Threads
  <2> QED
    BY <1>4, <2>1, DispatchLife, FlushLife, ResetLife DEF DispatcherCall
<1>5. ASSUME NEW t \in Consumers, NEW q \in Queues, ConsumerCall(t, q) PROVE LifeInv'
  <2>1. t \in Threads
    BY DEF Threads
  <2> QED
    BY <1>5, <2>1, InitLife, NextResultLife, NextResultWaitLife, FlagsLife,
       DestroyLife DEF ConsumerCall
<1>6. ASSUME NEW t \in Consumers, PoolDestroy(t) PROVE LifeInv'
  BY <1>6, QuietLife DEF PoolDestroy
<1>7. ASSUME NEW x \in Workers \cup Threads, SpuriousWake(x) PROVE LifeInv'
  BY <1>7, QuietLife DEF SpuriousWake
<1> QED
  BY <1>1, <1>2, <1>3, <1>4, <1>5, <1>6, <1>7 DEF Next

\* The reference count of a queue is exact in every reachable state.
THEOREM Lifetime == Spec => []LifeInv
BY LifeStart, LifeNext, Invariance, PTL DEF Spec

\* A queue is freed when nobody refers to it any more, and not before: the
\* worker that leaves last, the consumer that gives up, or the destroy
\* (sa_tpool_process_ref_decr).
THEOREM NotUsedAfterFree == Spec => []NoUseAfterFree
<1>1. ASSUME IInv, LifeInv, NEW q \in Queues, Live(q)
      PROVE  pq[q].ref = Creator(q) + Cardinality(InQueue(q)) + Cardinality(WaitingFor(q))
  BY <1>1 DEF LifeInv, Life, Live
<1>2. ASSUME IInv, LifeInv, NEW q \in Queues, ~ Live(q)
      PROVE  InQueue(q) = {} /\ {t \in Threads : th[t].q = q} = {} /\ ~ Attached(ring, q)
  <2>1. Creator(q) = 0 /\ InQueue(q) = {} /\ WaitingFor(q) = {}
    BY <1>2 DEF LifeInv, Life, Live
  <2>2. ~ Attached(ring, q)
    BY <2>1 DEF Creator
  <2>3. \A t \in Threads : th[t].q # q
    <3>1. SUFFICES ASSUME NEW t \in Threads, th[t].q = q PROVE FALSE
      OBVIOUS
    <3>2. th[t].call = "next"
      BY <1>2, <2>2, <3>1 DEF LifeInv, CallerInv
    <3>3. th[t].pc = "avail"
      BY <1>2, <3>2 DEF IInv, ThreadInv
    <3> QED
      BY <2>1, <3>1, <3>3 DEF WaitingFor
  <2> QED
    BY <2>1, <2>2, <2>3
<1>3. IInv /\ LifeInv => NoUseAfterFree
  BY <1>1, <1>2 DEF NoUseAfterFree, RefCountExact
<1> QED
  BY <1>3, Invariance, Lifetime, PTL
----------------------------------------------------------------------------
(* Owners and turns: what a step leaves alone.                             *)

\* The fields of a queue that owners and turns are about.
SameLists(Q, R) ==
    /\ R.input = Q.input /\ R.output = Q.output
    /\ R.calls = Q.calls /\ R.next = Q.next /\ R.curr = Q.curr

\* A step that leaves the jobs of q where they are.
Undisturbed(q) ==
    /\ Blocked(q)' = Blocked(q) /\ (\A t \in Blocked(q) : th'[t].job = th[t].job)
    /\ Busy(q)' = Busy(q) /\ (\A w \in Busy(q) : wk'[w].job = wk[w].job)
    /\ Running(q)' \subseteq Running(q) /\ Running(q) \subseteq Busy(q)
    /\ SameLists(pq[q], pq'[q])
    /\ settled'[q] = settled[q]

\* A worker that runs a job has one.
LEMMA RunningBusy ==
    ASSUME IInv, NEW q \in Queues
    PROVE  Running(q) \subseteq Busy(q)
<1>1. NoJob \notin Job
  BY DEF NoJob, Job
<1> QED
  BY <1>1 DEF Running, Busy, IInv, WorkerInv

LEMMA UndisturbedKeeps ==
    ASSUME NEW q \in Queues, Owned(q), Turn(q), Undisturbed(q)
    PROVE  Owned(q)' /\ Turn(q)'
<1>1. /\ BlockedIds(q)' = BlockedIds(q) /\ BusyIds(q)' = BusyIds(q)
      /\ InputIds(pq[q])' = InputIds(pq[q]) /\ OutputIds(pq[q])' = OutputIds(pq[q])
  BY DEF Undisturbed, SameLists, BlockedIds, BusyIds, InputIds, OutputIds
<1>2. OnceBlocked(q)' /\ OnceBusy(q)' /\ OnceInInput(pq[q].input)'
  BY DEF Undisturbed, SameLists, Owned, OnceBlocked, OnceBusy, OnceInInput
<1>3. Owned(q)'
  BY <1>1, <1>2 DEF Owned, Undisturbed, SameLists
<1>4. Turn(q)'
  <2>1. SUFFICES ASSUME pq[q].next # IntMax PROVE Turn(q)'
    BY DEF Turn, Undisturbed, SameLists
  <2>2. \A w \in Running(q)' : wk'[w].job = wk[w].job /\ w \in Running(q)
    BY DEF Undisturbed
  <2>3. /\ pq'[q].next = pq[q].next /\ pq'[q].curr = pq[q].curr
        /\ pq'[q].input = pq[q].input /\ pq'[q].output = pq[q].output
        /\ Blocked(q)' = Blocked(q) /\ (\A t \in Blocked(q) : th'[t].job = th[t].job)
    BY DEF Undisturbed, SameLists
  <2> QED
    BY <2>1, <2>2, <2>3 DEF Turn, Ahead
<1> QED
  BY <1>3, <1>4

\* A worker's step concerns one queue.
LEMMA WorkerElsewhere ==
    ASSUME IInv, NEW w \in Workers, NEW y \in WorkerType, wk' = [wk EXCEPT ![w] = y], th' = th,
           NEW q \in Queues, NEW p \in Queues, p # q,
           wk[w].q \in {q, "none"} \/ wk[w].job = NoJob, y.q \in {q, "none"},
           SameLists(pq[p], pq'[p]), settled'[p] = settled[p]
    PROVE  Undisturbed(p)
<1>1. wk'[w] = y /\ \A v \in Workers : v # w => wk'[v] = wk[v]
  BY DEF IInv, TypeOK
<1>2. p # "none" /\ y.q # p
  BY SetAssumption
<1>3. w \notin Busy(p)
  BY <1>2 DEF Busy
<1>4. Busy(p)' = Busy(p) /\ \A v \in Busy(p) : wk'[v].job = wk[v].job
  BY <1>1, <1>2, <1>3 DEF Busy
<1>5. Running(p)' \subseteq Running(p)
  BY <1>1, <1>2 DEF Running
<1>6. Blocked(p)' = Blocked(p) /\ \A t \in Blocked(p) : th'[t].job = th[t].job
  BY DEF Blocked
<1> QED
  BY <1>4, <1>5, <1>6, RunningBusy DEF Undisturbed

\* A client's step concerns one queue.
LEMMA ClientElsewhere ==
    ASSUME IInv, NEW t \in Threads, NEW y, th' = [th EXCEPT ![t] = y], wk' = wk,
           NEW q \in Queues, NEW p \in Queues, p # q,
           th[t].q \in {q, "none"}, y.q \in {q, "none"},
           SameLists(pq[p], pq'[p]), settled'[p] = settled[p]
    PROVE  Undisturbed(p)
<1>1. th'[t] = y /\ \A u \in Threads : u # t => th'[u] = th[u]
  BY DEF IInv, TypeOK
<1>2. y.q # p /\ th[t].q # p
  BY SetAssumption
<1>3. Blocked(p)' = Blocked(p) /\ \A u \in Blocked(p) : th'[u].job = th[u].job
  BY <1>1, <1>2 DEF Blocked
<1>4. /\ Busy(p)' = Busy(p) /\ (\A w \in Busy(p) : wk'[w].job = wk[w].job)
      /\ Running(p)' = Running(p)
  BY DEF Busy, Running
<1> QED
  BY <1>3, <1>4, RunningBusy DEF Undisturbed

\* A client's step that is not about a job.
LEMMA ClientEmpty ==
    ASSUME IInv, NEW t \in Threads, NEW y, th' = [th EXCEPT ![t] = y], wk' = wk,
           NEW p \in Queues, th[t].pc # "notFull", y.pc # "notFull",
           SameLists(pq[p], pq'[p]), settled'[p] = settled[p]
    PROVE  Undisturbed(p)
<1>1. th'[t] = y /\ \A u \in Threads : u # t => th'[u] = th[u]
  BY DEF IInv, TypeOK
<1>2. Blocked(p)' = Blocked(p) /\ \A u \in Blocked(p) : th'[u].job = th[u].job
  BY <1>1 DEF Blocked
<1>3. /\ Busy(p)' = Busy(p) /\ (\A w \in Busy(p) : wk'[w].job = wk[w].job)
      /\ Running(p)' = Running(p)
  BY DEF Busy, Running
<1> QED
  BY <1>2, <1>3, RunningBusy DEF Undisturbed

\* A worker's step that keeps the job in hand, if any, and starts none.
LEMMA WorkerKeeps ==
    ASSUME IInv, NEW w \in Workers, NEW y \in WorkerType, wk' = [wk EXCEPT ![w] = y], th' = th,
           NEW p \in Queues, wk[w].job = y.job, y.q = wk[w].q \/ y.job = NoJob, y.pc # "run",
           SameLists(pq[p], pq'[p]), settled'[p] = settled[p]
    PROVE  Undisturbed(p)
<1>1. wk'[w] = y /\ \A v \in Workers : v # w => wk'[v] = wk[v]
  BY DEF IInv, TypeOK
<1>2. Busy(p)' = Busy(p) /\ \A v \in Busy(p) : wk'[v].job = wk[v].job
  BY <1>1 DEF Busy
<1>3. Running(p)' \subseteq Running(p)
  BY <1>1 DEF Running
<1>4. Blocked(p)' = Blocked(p) /\ \A t \in Blocked(p) : th'[t].job = th[t].job
  BY DEF Blocked
<1> QED
  BY <1>2, <1>3, <1>4, RunningBusy DEF Undisturbed
\* A job comes into the hands of a client, stays out of them, or leaves them.
LEMMA BlockedEnters ==
    ASSUME IInv, NEW t \in Threads, NEW y \in ThreadType, th' = [th EXCEPT ![t] = y], NEW q \in Queues,
           th[t].pc # "notFull", y.pc = "notFull", y.q = q
    PROVE  /\ Blocked(q)' = Blocked(q) \cup {t} /\ th'[t].job = y.job
           /\ \A u \in Blocked(q) : th'[u].job = th[u].job
           /\ BlockedIds(q)' = BlockedIds(q) \cup {y.job.id}
           /\ OnceBlocked(q) /\ y.job.id \notin BlockedIds(q) => OnceBlocked(q)'
<1>1. th'[t] = y /\ \A u \in Threads : u # t => th'[u] = th[u]
  BY DEF IInv, TypeOK
<1>2. Blocked(q)' = Blocked(q) \cup {t} /\ t \notin Blocked(q)
  BY <1>1 DEF Blocked
<1>3. \A u \in Blocked(q) : th'[u] = th[u] /\ u # t
  BY <1>1, <1>2 DEF Blocked
<1>4. BlockedIds(q)' = BlockedIds(q) \cup {y.job.id}
  BY <1>1, <1>2, <1>3 DEF BlockedIds
<1>5. OnceBlocked(q) /\ y.job.id \notin BlockedIds(q) => OnceBlocked(q)'
  BY <1>1, <1>2, <1>3 DEF BlockedIds, OnceBlocked
<1> QED
  BY <1>1, <1>2, <1>3, <1>4, <1>5

LEMMA BlockedStays ==
    ASSUME IInv, NEW t \in Threads, NEW y, th' = [th EXCEPT ![t] = y], NEW q \in Queues,
           th[t].pc # "notFull", y.pc # "notFull"
    PROVE  /\ Blocked(q)' = Blocked(q)
           /\ \A u \in Blocked(q) : th'[u].job = th[u].job
           /\ BlockedIds(q)' = BlockedIds(q)
           /\ OnceBlocked(q) => OnceBlocked(q)'
<1>1. th'[t] = y /\ \A u \in Threads : u # t => th'[u] = th[u]
  BY DEF IInv, TypeOK
<1>2. Blocked(q)' = Blocked(q) /\ \A u \in Blocked(q) : th'[u] = th[u]
  BY <1>1 DEF Blocked
<1> QED
  BY <1>2 DEF BlockedIds, OnceBlocked

LEMMA BlockedLeaves ==
    ASSUME IInv, NEW t \in Threads, NEW y, th' = [th EXCEPT ![t] = y], NEW q \in Queues,
           t \in Blocked(q), y.pc # "notFull", OnceBlocked(q)
    PROVE  /\ Blocked(q)' = Blocked(q) \ {t}
           /\ \A u \in Blocked(q)' : th'[u].job = th[u].job
           /\ BlockedIds(q)' = BlockedIds(q) \ {th[t].job.id}
           /\ th[t].job.id \in BlockedIds(q)
           /\ OnceBlocked(q)'
<1>1. th'[t] = y /\ \A u \in Threads : u # t => th'[u] = th[u]
  BY DEF IInv, TypeOK
<1>2. Blocked(q)' = Blocked(q) \ {t} /\ \A u \in Blocked(q) : u # t => th'[u] = th[u]
  BY <1>1 DEF Blocked
<1>3. \A u \in Blocked(q) : u # t => th[u].job.id # th[t].job.id
  BY DEF OnceBlocked
<1>4. BlockedIds(q)' = BlockedIds(q) \ {th[t].job.id}
  BY <1>2, <1>3 DEF BlockedIds
<1> QED
  BY <1>2, <1>4 DEF BlockedIds, OnceBlocked

\* The same of the workers.
LEMMA BusyEnters ==
    ASSUME IInv, NEW w \in Workers, NEW y \in WorkerType, wk' = [wk EXCEPT ![w] = y],
           NEW q \in Queues, wk[w].job = NoJob, y.q = q, y.job # NoJob
    PROVE  /\ Busy(q)' = Busy(q) \cup {w}
           /\ BusyIds(q)' = BusyIds(q) \cup {y.job.id}
           /\ OnceBusy(q) /\ y.job.id \notin BusyIds(q) => OnceBusy(q)'
<1>1. wk'[w] = y /\ \A v \in Workers : v # w => wk'[v] = wk[v]
  BY DEF IInv, TypeOK
<1>2. Busy(q)' = Busy(q) \cup {w} /\ w \notin Busy(q)
  BY <1>1 DEF Busy
<1>3. \A v \in Busy(q) : wk'[v] = wk[v] /\ v # w
  BY <1>1, <1>2 DEF Busy
<1>4. BusyIds(q)' = BusyIds(q) \cup {y.job.id}
  BY <1>1, <1>2, <1>3 DEF BusyIds
<1>5. OnceBusy(q) /\ y.job.id \notin BusyIds(q) => OnceBusy(q)'
  BY <1>1, <1>2, <1>3 DEF BusyIds, OnceBusy
<1> QED
  BY <1>2, <1>4, <1>5

LEMMA BusyLeaves ==
    ASSUME IInv, NEW w \in Workers, NEW y \in WorkerType, wk' = [wk EXCEPT ![w] = y],
           NEW q \in Queues, w \in Busy(q), y.job = NoJob, OnceBusy(q)
    PROVE  /\ Busy(q)' = Busy(q) \ {w}
           /\ BusyIds(q)' = BusyIds(q) \ {wk[w].job.id}
           /\ wk[w].job.id \in BusyIds(q)
           /\ OnceBusy(q)'
<1>1. wk'[w] = y /\ \A v \in Workers : v # w => wk'[v] = wk[v]
  BY DEF IInv, TypeOK
<1>2. Busy(q)' = Busy(q) \ {w} /\ \A v \in Busy(q) : v # w => wk'[v] = wk[v]
  BY <1>1 DEF Busy
<1>3. \A v \in Busy(q) : v # w => wk[v].job.id # wk[w].job.id
  BY DEF OnceBusy
<1>4. BusyIds(q)' = BusyIds(q) \ {wk[w].job.id}
  BY <1>2, <1>3 DEF BusyIds
<1> QED
  BY <1>2, <1>4 DEF BusyIds, OnceBusy

\* A job leaves the head of the input list, or joins it at the end.
LEMMA InputHead ==
    ASSUME NEW Q \in QueueType, NEW R \in QueueType, Q.input # <<>>, R.input = Tail(Q.input),
           OnceInInput(Q.input)
    PROVE  /\ Head(Q.input).id \in InputIds(Q)
           /\ InputIds(R) = InputIds(Q) \ {Head(Q.input).id}
           /\ OnceInInput(R.input)
           /\ \A i \in DOMAIN R.input : R.input[i] = Q.input[i + 1] /\ i + 1 \in DOMAIN Q.input
           /\ Head(Q.input) = Q.input[1] /\ 1 \in DOMAIN Q.input
<1> DEFINE s == Q.input
           r == R.input
<1>1. s \in Seq(Job) /\ s # <<>> /\ r = Tail(s)
  BY FieldTypes
<1> HIDE DEF s, r
<1>2. /\ Len(s) \in Nat /\ Len(s) >= 1 /\ DOMAIN s = 1 .. Len(s)
      /\ DOMAIN r = 1 .. (Len(s) - 1) /\ Head(s) = s[1]
      /\ \A i \in 1 .. (Len(s) - 1) : r[i] = s[i + 1]
  BY <1>1
<1>3. \A i \in DOMAIN r : r[i] = s[i + 1] /\ i + 1 \in DOMAIN s /\ i + 1 # 1
  BY <1>2
<1>4. 1 \in DOMAIN s
  BY <1>2
<1>5. \A k \in DOMAIN s : k = 1 \/ \E i \in DOMAIN r : k = i + 1
  <2>1. SUFFICES ASSUME NEW k \in DOMAIN s, k # 1 PROVE \E i \in DOMAIN r : k = i + 1
    OBVIOUS
  <2>2. k - 1 \in DOMAIN r /\ k = (k - 1) + 1
    BY <2>1, <1>2
  <2> QED
    BY <2>2
<1>6. OnceInInput(s)
  BY DEF s
<1>7. \A i \in DOMAIN r : r[i].id # s[1].id
  BY <1>3, <1>4, <1>6 DEF OnceInInput
<1>8. {r[i].id : i \in DOMAIN r} = {s[k].id : k \in DOMAIN s} \ {s[1].id}
  <2>1. \A i \in DOMAIN r : r[i].id \in {s[k].id : k \in DOMAIN s} \ {s[1].id}
    BY <1>3, <1>7
  <2>2. \A k \in DOMAIN s : s[k].id = s[1].id \/ s[k].id \in {r[i].id : i \in DOMAIN r}
    BY <1>3, <1>5
  <2> QED
    BY <2>1, <2>2
<1>9. OnceInInput(r)
  <2>1. SUFFICES ASSUME NEW i \in DOMAIN r, NEW k \in DOMAIN r, r[i].id = r[k].id PROVE i = k
    BY DEF OnceInInput
  <2>2. i + 1 = k + 1
    BY <2>1, <1>3, <1>6 DEF OnceInInput
  <2> QED
    BY <2>2, <1>2
<1> QED
  BY <1>2, <1>3, <1>4, <1>8, <1>9 DEF s, r, InputIds

LEMMA InputJoined ==
    ASSUME NEW s \in Seq(Job), NEW j \in Job, OnceInInput(s), j.id \notin {s[i].id : i \in DOMAIN s}
    PROVE  /\ {Append(s, j)[i].id : i \in DOMAIN Append(s, j)} = {s[i].id : i \in DOMAIN s} \cup {j.id}
           /\ OnceInInput(Append(s, j))
           /\ \A i \in DOMAIN Append(s, j) : Append(s, j)[i] = j \/ (i \in DOMAIN s /\ Append(s, j)[i] = s[i])
<1> DEFINE r == Append(s, j)
<1>2. /\ Len(s) \in Nat /\ DOMAIN s = 1 .. Len(s) /\ DOMAIN r = 1 .. (Len(s) + 1)
      /\ r[Len(s) + 1] = j /\ \A i \in DOMAIN s : r[i] = s[i]
  OBVIOUS
<1> HIDE DEF r
<1>3. PICK n \in DOMAIN r : n = Len(s) + 1
  BY <1>2
<1>4. DOMAIN r = DOMAIN s \cup {n} /\ r[n] = j /\ n \notin DOMAIN s
  BY <1>2, <1>3
<1>5. \A i \in DOMAIN s : r[i] = s[i] /\ i \in DOMAIN r
  BY <1>2, <1>4
<1>6. {r[i].id : i \in DOMAIN r} = {s[i].id : i \in DOMAIN s} \cup {j.id}
  BY <1>4, <1>5
<1>7. OnceInInput(r)
  BY <1>4, <1>5 DEF OnceInInput
<1>8. \A i \in DOMAIN r : r[i] = j \/ (i \in DOMAIN s /\ r[i] = s[i])
  BY <1>4, <1>5
<1> QED
  BY <1>6, <1>7, <1>8 DEF r

\* Two results of a queue do not have the same id.
LEMMA OutputOnce ==
    ASSUME NEW Q \in QueueType, QueueInv(Q)
    PROVE  \A r, s \in Q.output : r.id = s.id \/ r.serial = s.serial => r = s
<1>1. SUFFICES ASSUME NEW r \in Q.output, NEW s \in Q.output, r.id = s.id \/ r.serial = s.serial
               PROVE  r = s
  OBVIOUS
<1>2. r \in Job /\ s \in Job /\ Q.base \in Nat
  BY FieldTypes, BoundAssumption
<1>3. r.id = Q.base + r.serial + 1 /\ s.id = Q.base + s.serial + 1
  BY DEF QueueInv, Numbered
<1>4. r.id = s.id /\ r.serial = s.serial
  <2>1. r.id \in Nat /\ s.id \in Nat /\ r.serial \in Nat /\ s.serial \in Nat
    BY <1>2 DEF Job
  <2> QED
    BY <1>1, <1>2, <1>3, <2>1
<1> QED
  BY <1>2, <1>4 DEF Job
----------------------------------------------------------------------------
(* Owners and turns: how a job goes from one place to another.             *)

LEMMA NoJobIsNone == NoJob \notin Job
BY DEF NoJob, Job

\* The threads or the workers are as they were.
LEMMA SameThreads ==
    ASSUME th' = th, NEW q
    PROVE  /\ Blocked(q)' = Blocked(q) /\ BlockedIds(q)' = BlockedIds(q)
           /\ (\A t \in Blocked(q) : th'[t].job = th[t].job)
           /\ (OnceBlocked(q) => OnceBlocked(q)')
BY DEF Blocked, BlockedIds, OnceBlocked

LEMMA SameWorkers ==
    ASSUME wk' = wk, NEW q
    PROVE  /\ Busy(q)' = Busy(q) /\ BusyIds(q)' = BusyIds(q) /\ Running(q)' = Running(q)
           /\ (OnceBusy(q) => OnceBusy(q)')
BY DEF Busy, BusyIds, OnceBusy, Running

\* A worker takes the first job of q.
LEMMA TakeMoves ==
    ASSUME IInv, IInv', NEW q \in Queues, Owned(q), Turn(q), NEW w \in Workers,
           NEW y \in WorkerType, wk' = [wk EXCEPT ![w] = y], wk[w].job = NoJob,
           y.q = q, y.job = Head(pq[q].input), pq[q].input # <<>>,
           pq'[q].input = Tail(pq[q].input), pq'[q].output = pq[q].output,
           pq'[q].calls = pq[q].calls, pq'[q].next = pq[q].next, pq'[q].curr = pq[q].curr,
           th' = th, settled'[q] = settled[q]
    PROVE  Owned(q)' /\ Turn(q)'
<1>1. pq[q] \in QueueType /\ pq'[q] \in QueueType /\ pq[q].input \in Seq(Job)
  BY FieldTypes DEF IInv, TypeOK
<1>2. y.job \in Job /\ y.job # NoJob
  BY <1>1, NoJobIsNone
<1>3. OnceInInput(pq[q].input) /\ OnceBusy(q) /\ OnceBlocked(q)
  BY DEF Owned
<1>4. /\ y.job.id \in InputIds(pq[q])
      /\ InputIds(pq'[q]) = InputIds(pq[q]) \ {y.job.id}
      /\ OnceInInput(pq'[q].input)
      /\ \A i \in DOMAIN pq'[q].input :
            pq'[q].input[i] = pq[q].input[i + 1] /\ i + 1 \in DOMAIN pq[q].input
      /\ y.job = pq[q].input[1] /\ 1 \in DOMAIN pq[q].input
  BY <1>1, <1>3, InputHead
<1>5. /\ BusyIds(q)' = BusyIds(q) \cup {y.job.id}
      /\ y.job.id \notin BusyIds(q) => OnceBusy(q)'
  BY <1>2, <1>3, BusyEnters
<1>6. BlockedIds(q)' = BlockedIds(q) /\ OnceBlocked(q)' /\ OutputIds(pq'[q]) = OutputIds(pq[q])
  BY <1>3, SameThreads DEF OutputIds
<1>7. Divided(pq[q].calls, BlockedIds(q), InputIds(pq[q]), BusyIds(q), OutputIds(pq[q]), settled[q])
  BY DEF Owned
<1>8. /\ y.job.id \notin BusyIds(q)
      /\ Divided(pq[q].calls, BlockedIds(q), InputIds(pq[q]) \ {y.job.id}, BusyIds(q) \cup {y.job.id},
                 OutputIds(pq[q]), settled[q])
  BY <1>4, <1>7 DEF Divided
<1>9. Owned(q)'
  BY <1>4, <1>5, <1>6, <1>8 DEF Owned
<1>10. Turn(q)'
  <2>1. SUFFICES ASSUME pq[q].next # IntMax PROVE Turn(q)'
    BY DEF Turn
  <2>2. wk'[w] = y /\ \A v \in Workers : v # w => wk'[v] = wk[v]
    BY DEF IInv, TypeOK
  <2>3. \A v \in Running(q)' : v = w \/ v \in Running(q)
    BY <2>2 DEF Running
  <2>4. \A v \in Running(q)' : wk'[v].job = y.job \/ (v \in Running(q) /\ wk'[v].job = wk[v].job)
    BY <2>2, <2>3 DEF Running
  <2>5. \A v \in Running(q)' : wk'[v].job.serial >= pq[q].next
    BY <2>1, <2>4, <1>4 DEF Turn, Ahead
  <2>6. \A i \in DOMAIN pq'[q].input : pq'[q].input[i].serial >= pq[q].next
    BY <2>1, <1>4 DEF Turn, Ahead
  <2>7. Blocked(q)' = Blocked(q)
    BY SameThreads
  <2> QED
    BY <2>1, <2>5, <2>6, <2>7 DEF Turn, Ahead
<1> QED
  BY <1>9, <1>10

\* The job in the worker's hands is done: its result is queued, or the client
\* has the payload again.
LEMMA ResultMoves ==
    ASSUME IInv, IInv', NEW q \in Queues, Owned(q), Turn(q), NEW w \in Workers,
           NEW y \in WorkerType, wk' = [wk EXCEPT ![w] = y], w \in Running(q), y.job = NoJob,
           y.pc # "run", pq'[q].input = pq[q].input,
           \/ /\ pq'[q].output = pq[q].output \cup {wk[w].job} /\ settled'[q] = settled[q]
           \/ /\ pq'[q].output = pq[q].output /\ settled'[q] = settled[q] \cup {wk[w].job.id},
           pq'[q].calls = pq[q].calls, pq'[q].next = pq[q].next, pq'[q].curr = pq[q].curr,
           th' = th
    PROVE  Owned(q)' /\ Turn(q)'
<1>1. w \in Busy(q)
  BY RunningBusy
<1>2. OnceInInput(pq[q].input) /\ OnceBusy(q) /\ OnceBlocked(q)
  BY DEF Owned
<1>3. PICK id : id = wk[w].job.id
  OBVIOUS
<1>4. BusyIds(q)' = BusyIds(q) \ {id} /\ id \in BusyIds(q) /\ OnceBusy(q)'
  BY <1>1, <1>2, <1>3, BusyLeaves
<1>5. /\ BlockedIds(q)' = BlockedIds(q) /\ OnceBlocked(q)'
      /\ InputIds(pq'[q]) = InputIds(pq[q]) /\ OnceInInput(pq'[q].input)
  BY <1>2, SameThreads DEF InputIds
<1>6. \/ OutputIds(pq'[q]) = OutputIds(pq[q]) \cup {id} /\ settled'[q] = settled[q]
      \/ OutputIds(pq'[q]) = OutputIds(pq[q]) /\ settled'[q] = settled[q] \cup {id}
  BY <1>3 DEF OutputIds
<1>7. Divided(pq[q].calls, BlockedIds(q), InputIds(pq[q]), BusyIds(q), OutputIds(pq[q]), settled[q])
  BY DEF Owned
<1>8. Divided(pq[q].calls, BlockedIds(q), InputIds(pq[q]), BusyIds(q) \ {id}, OutputIds(pq'[q]), settled'[q])
  BY <1>4, <1>6, <1>7 DEF Divided
<1>9. Owned(q)'
  BY <1>4, <1>5, <1>8 DEF Owned
<1>10. Turn(q)'
  <2>1. SUFFICES ASSUME pq[q].next # IntMax PROVE Turn(q)'
    BY DEF Turn
  <2>2. wk'[w] = y /\ \A v \in Workers : v # w => wk'[v] = wk[v]
    BY DEF IInv, TypeOK
  <2>3. \A v \in Running(q)' : v \in Running(q) /\ wk'[v] = wk[v]
    BY <2>2 DEF Running
  <2>4. \A r \in pq'[q].output : r = wk[w].job \/ r \in pq[q].output
    OBVIOUS
  <2>5. \A r \in pq'[q].output : r.serial >= pq[q].next
    BY <2>1, <2>4 DEF Turn, Ahead
  <2>6. Blocked(q)' = Blocked(q)
    BY SameThreads
  <2> QED
    BY <2>1, <2>3, <2>5, <2>6 DEF Turn, Ahead
<1> QED
  BY <1>9, <1>10

\* The queue is discarded, or what is left in the output at the end of a reset.
LEMMA DiscardMoves ==
    ASSUME IInv, IInv', NEW q \in Queues, Owned(q),
           BlockedIds(q)' = BlockedIds(q), OnceBlocked(q)', wk' = wk,
           pq'[q].input = <<>>, pq'[q].output = {}, pq'[q].calls = pq[q].calls,
           settled'[q] = settled[q] \cup InputIds(pq[q]) \cup OutputIds(pq[q])
    PROVE  Owned(q)'
<1>1. OnceBusy(q)
  BY DEF Owned
<1>2. BusyIds(q)' = BusyIds(q) /\ OnceBusy(q)'
  BY <1>1, SameWorkers
<1>3. InputIds(pq'[q]) = {} /\ OutputIds(pq'[q]) = {} /\ OnceInInput(pq'[q].input)
  <2>1. DOMAIN pq'[q].input = {}
    OBVIOUS
  <2> QED
    BY <2>1 DEF InputIds, OutputIds, OnceInInput
<1>4. Divided(pq[q].calls, BlockedIds(q), InputIds(pq[q]), BusyIds(q), OutputIds(pq[q]), settled[q])
  BY DEF Owned
<1>5. Divided(pq[q].calls, BlockedIds(q), {}, BusyIds(q), {}, settled'[q])
  BY <1>4 DEF Divided
<1> QED
  BY <1>2, <1>3, <1>5 DEF Owned
\* The job j of a client goes into the input list, or back to the client.
LEMMA JobMoves ==
    ASSUME IInv, IInv', NEW q \in Queues, NEW j \in Job,
           Divided(pq'[q].calls, BlockedIds(q)' \cup {j.id}, InputIds(pq[q]), BusyIds(q),
                   OutputIds(pq[q]), settled[q]),
           j.id \notin BlockedIds(q)', OnceBlocked(q)', OnceBusy(q), OnceInInput(pq[q].input),
           wk' = wk, pq'[q].output = pq[q].output,
           \/ pq'[q].input = Append(pq[q].input, j) /\ settled'[q] = settled[q]
           \/ pq'[q].input = pq[q].input /\ settled'[q] = settled[q] \cup {j.id}
    PROVE  Owned(q)'
<1>1. pq[q] \in QueueType /\ pq'[q] \in QueueType
  BY DEF IInv, TypeOK
<1>2. BusyIds(q)' = BusyIds(q) /\ OnceBusy(q)' /\ OutputIds(pq'[q]) = OutputIds(pq[q])
  BY SameWorkers DEF OutputIds
<1>3. j.id \notin InputIds(pq[q])
  BY DEF Divided
<1>4. CASE pq'[q].input = Append(pq[q].input, j) /\ settled'[q] = settled[q]
  <2>1. InputIds(pq'[q]) = InputIds(pq[q]) \cup {j.id} /\ OnceInInput(pq'[q].input)
    <3>1. PICK s \in Seq(Job) : s = pq[q].input
      BY <1>1, FieldTypes
    <3>2. pq'[q].input = Append(s, j) /\ OnceInInput(s) /\ j.id \notin {s[i].id : i \in DOMAIN s}
      BY <1>3, <1>4, <3>1 DEF InputIds
    <3>3. /\ {Append(s, j)[i].id : i \in DOMAIN Append(s, j)} = {s[i].id : i \in DOMAIN s} \cup {j.id}
          /\ OnceInInput(Append(s, j))
      BY <3>2, InputJoined
    <3> QED
      BY <3>1, <3>2, <3>3, SMTT(40) DEF InputIds
  <2>2. Divided(pq'[q].calls, BlockedIds(q)', InputIds(pq[q]) \cup {j.id}, BusyIds(q),
                OutputIds(pq[q]), settled[q])
    BY DEF Divided
  <2> QED
    BY <1>2, <1>4, <2>1, <2>2 DEF Owned
<1>5. CASE pq'[q].input = pq[q].input /\ settled'[q] = settled[q] \cup {j.id}
  <2>1. InputIds(pq'[q]) = InputIds(pq[q]) /\ OnceInInput(pq'[q].input)
    BY <1>5 DEF InputIds
  <2>2. Divided(pq'[q].calls, BlockedIds(q)', InputIds(pq[q]), BusyIds(q),
                OutputIds(pq[q]), settled[q] \cup {j.id})
    BY DEF Divided
  <2> QED
    BY <1>2, <1>5, <2>1, <2>2 DEF Owned
<1> QED
  BY <1>4, <1>5

\* Where the jobs of q are does not change, but for a job j that is ahead.
LEMMA TurnGrows ==
    ASSUME IInv, IInv', NEW q \in Queues, Turn(q), NEW j,
           pq[q].next # IntMax => j.serial >= pq[q].next,
           wk' = wk, pq'[q].output = pq[q].output,
           pq'[q].next = pq[q].next, pq'[q].curr >= pq[q].curr,
           \A t \in Blocked(q)' : th'[t].job = j \/ (t \in Blocked(q) /\ th'[t].job = th[t].job),
           \A i \in DOMAIN pq'[q].input :
              pq'[q].input[i] = j \/ (i \in DOMAIN pq[q].input /\ pq'[q].input[i] = pq[q].input[i])
    PROVE  Turn(q)'
<1>1. SUFFICES ASSUME pq[q].next # IntMax PROVE Turn(q)'
  BY DEF Turn
<1>2. pq[q].next \in Nat /\ pq[q].curr \in Nat /\ pq'[q].curr \in Nat
  BY FieldTypes DEF IInv, TypeOK
<1>3. pq'[q].next <= pq'[q].curr
  BY <1>1, <1>2 DEF Turn
<1>4. \A t \in Blocked(q)' : th'[t].job.serial >= pq[q].next
  BY <1>1 DEF Turn, Ahead
<1>5. \A i \in DOMAIN pq'[q].input : pq'[q].input[i].serial >= pq[q].next
  BY <1>1 DEF Turn, Ahead
<1>6. Running(q)' = Running(q)
  BY SameWorkers
<1> QED
  BY <1>1, <1>3, <1>4, <1>5, <1>6 DEF Turn, Ahead

\* The result whose turn it is goes to the client, and no other has its number.
LEMMA DeliverMoves ==
    ASSUME IInv, IInv', NEW q \in Queues, Owned(q), Turn(q), NEW r \in pq[q].output,
           r.serial = pq[q].next, wk' = wk,
           Blocked(q)' = Blocked(q), \A u \in Blocked(q) : th'[u].job = th[u].job,
           BlockedIds(q)' = BlockedIds(q), OnceBlocked(q) => OnceBlocked(q)',
           pq'[q].input = pq[q].input, pq'[q].output = pq[q].output \ {r},
           pq'[q].calls = pq[q].calls, pq'[q].next = pq[q].next + 1, pq'[q].curr = pq[q].curr,
           settled'[q] = settled[q] \cup {r.id}
    PROVE  Owned(q)' /\ Turn(q)'
<1>1. /\ pq[q] \in QueueType /\ QueueInv(pq[q]) /\ r \in Job
      /\ pq[q].next \in Nat /\ pq[q].curr \in Nat /\ pq[q].base \in Nat
  BY FieldTypes, BoundAssumption DEF IInv, TypeOK
<1>2. \A s \in pq[q].output : r.id = s.id \/ r.serial = s.serial => r = s
  BY <1>1, OutputOnce
<1>3. OutputIds(pq'[q]) = OutputIds(pq[q]) \ {r.id} /\ r.id \in OutputIds(pq[q])
  BY <1>2 DEF OutputIds
<1>4. /\ OnceBusy(q) /\ OnceBlocked(q) /\ OnceInInput(pq[q].input)
      /\ Divided(pq[q].calls, BlockedIds(q), InputIds(pq[q]), BusyIds(q), OutputIds(pq[q]), settled[q])
  BY DEF Owned
<1>5. /\ BusyIds(q)' = BusyIds(q) /\ OnceBusy(q)' /\ Running(q)' = Running(q)
      /\ InputIds(pq'[q]) = InputIds(pq[q])
  BY <1>4, SameWorkers DEF InputIds
<1>6. Divided(pq[q].calls, BlockedIds(q), InputIds(pq[q]), BusyIds(q), OutputIds(pq[q]) \ {r.id},
              settled[q] \cup {r.id})
  BY <1>3, <1>4 DEF Divided
<1>7. Owned(q)'
  BY <1>3, <1>4, <1>5, <1>6 DEF Owned
<1>8. r.id \notin BlockedIds(q) /\ r.id \notin InputIds(pq[q]) /\ r.id \notin BusyIds(q)
  BY <1>3, <1>4 DEF Divided
<1>9. r.id = pq[q].base + r.serial + 1 /\ r.serial < pq[q].curr
  BY <1>1 DEF QueueInv, Numbered
<1>10. pq[q].next # IntMax /\ Turn(q)
  <2>1. r.serial \in 0 .. MaxCalls
    BY <1>1 DEF Job
  <2> QED
    BY <2>1, BoundAssumption
<1>11. \A k \in Job : Numbered(pq[q], k) /\ k.id # r.id /\ k.serial >= pq[q].next
                         => k.serial >= pq[q].next + 1
  <2>1. SUFFICES ASSUME NEW k \in Job, Numbered(pq[q], k), k.id # r.id, k.serial >= pq[q].next
                 PROVE  k.serial >= pq[q].next + 1
    OBVIOUS
  <2>2. k.id = pq[q].base + k.serial + 1 /\ k.serial \in Nat
    BY <2>1 DEF Numbered, Job
  <2> QED
    BY <2>1, <2>2, <1>1, <1>9
<1>12. \A u \in Blocked(q) : th[u].job.serial >= pq[q].next + 1
  <2>1. SUFFICES ASSUME NEW u \in Blocked(q) PROVE th[u].job.serial >= pq[q].next + 1
    OBVIOUS
  <2>2. th[u].job \in Job /\ Numbered(pq[q], th[u].job)
    BY DEF Blocked, IInv, ThreadInv
  <2>3. th[u].job.id # r.id
    BY <1>8 DEF BlockedIds
  <2>4. th[u].job.serial >= pq[q].next
    BY <1>10 DEF Turn, Ahead
  <2> QED
    BY <1>11, <2>2, <2>3, <2>4
<1>13. \A i \in DOMAIN pq[q].input : pq[q].input[i].serial >= pq[q].next + 1
  <2>1. SUFFICES ASSUME NEW i \in DOMAIN pq[q].input
                 PROVE  pq[q].input[i].serial >= pq[q].next + 1
    OBVIOUS
  <2>2. pq[q].input[i] \in Job /\ Numbered(pq[q], pq[q].input[i])
    BY <1>1, FieldTypes DEF QueueInv
  <2>3. pq[q].input[i].id # r.id
    BY <1>8 DEF InputIds
  <2>4. pq[q].input[i].serial >= pq[q].next
    BY <1>10 DEF Turn, Ahead
  <2> QED
    BY <1>11, <2>2, <2>3, <2>4
<1>14. \A w \in Running(q) : wk[w].job.serial >= pq[q].next + 1
  <2>1. SUFFICES ASSUME NEW w \in Running(q) PROVE wk[w].job.serial >= pq[q].next + 1
    OBVIOUS
  <2>2. wk[w].job \in Job /\ Numbered(pq[q], wk[w].job)
    BY DEF Running, IInv, WorkerInv
  <2>3. wk[w].job.id # r.id
    BY <1>8, RunningBusy DEF BusyIds
  <2>4. wk[w].job.serial >= pq[q].next
    BY <1>10 DEF Turn, Ahead
  <2> QED
    BY <1>11, <2>2, <2>3, <2>4
<1>15. \A s \in pq'[q].output : s.serial >= pq[q].next + 1
  <2>1. SUFFICES ASSUME NEW s \in pq[q].output, s # r PROVE s.serial >= pq[q].next + 1
    OBVIOUS
  <2>2. s.serial # pq[q].next
    BY <2>1, <1>2
  <2>3. s.serial >= pq[q].next /\ s.serial \in Nat
    BY <1>1, <1>10, FieldTypes DEF Turn, Ahead, Job
  <2> QED
    BY <2>2, <2>3, <1>1
<1>16. pq[q].next + 1 <= pq[q].curr
  <2>1. r.serial \in Nat
    BY <1>1 DEF Job
  <2> QED
    BY <2>1, <1>1, <1>9
<1>17. Turn(q)'
  BY <1>5, <1>12, <1>13, <1>14, <1>15, <1>16, SameWorkers DEF Turn, Ahead
<1> QED
  BY <1>7, <1>17
----------------------------------------------------------------------------
(* Owners and turns: the workers.                                          *)

Places == OwnInv /\ TurnInv

\* A worker's step, and a client's.
LEMMA WorkerPlaces ==
    ASSUME IInv, Places, th' = th, NEW w \in Workers, NEW y, wk' = [wk EXCEPT ![w] = y],
           WorkerHand(y), \A p \in Queues : Undisturbed(p) \/ (Owned(p)' /\ Turn(p)')
    PROVE  Places'
<1>1. \A p \in Queues : Owned(p)' /\ Turn(p)'
  BY UndisturbedKeeps DEF Places, OwnInv, TurnInv
<1>2. \A v \in Workers : WorkerHand(wk'[v])
  BY DEF Places, OwnInv, IInv, TypeOK
<1> QED
  BY <1>1, <1>2 DEF Places, OwnInv, TurnInv

LEMMA ClientPlaces ==
    ASSUME IInv, Places, wk' = wk, NEW t \in Threads, NEW y, th' = [th EXCEPT ![t] = y],
           ThreadHand(y), \A p \in Queues : Undisturbed(p) \/ (Owned(p)' /\ Turn(p)')
    PROVE  Places'
<1>1. \A p \in Queues : Owned(p)' /\ Turn(p)'
  BY UndisturbedKeeps DEF Places, OwnInv, TurnInv
<1>2. \A u \in Threads : ThreadHand(th'[u])
  BY DEF Places, OwnInv, IInv, TypeOK
<1> QED
  BY <1>1, <1>2 DEF Places, OwnInv, TurnInv

\* A step that moves no thread.
LEMMA QuietPlaces ==
    ASSUME IInv, Places, wk' = wk, th' = th, settled' = settled,
           \A p \in Queues : SameLists(pq[p], pq'[p])
    PROVE  Places'
<1>1. \A p \in Queues : Undisturbed(p)
  BY SameThreads, SameWorkers, RunningBusy DEF Undisturbed
<1> QED
  BY <1>1, UndisturbedKeeps DEF Places, OwnInv, TurnInv

\* The fields after a job is taken, and after other fields have changed.
LEMMA TakenLists ==
    ASSUME NEW Q \in QueueType
    PROVE  /\ Taken(Q).input = Tail(Q.input) /\ Taken(Q).output = Q.output
           /\ Taken(Q).calls = Q.calls /\ Taken(Q).next = Q.next /\ Taken(Q).curr = Q.curr
BY Zenon DEF Taken, QueueType

LEMMA FlagLists ==
    ASSUME NEW Q \in QueueType, NEW n
    PROVE  /\ SameLists(Q, [Q EXCEPT !.ref = n])
           /\ SameLists(Q, [Q EXCEPT !.shut = n])
           /\ SameLists(Q, [Q EXCEPT !.wake = n])
           /\ SameLists(Q, [Q EXCEPT !.noMore = n])
           /\ SameLists(Q, [Q EXCEPT !.qsize = n])
           /\ SameLists(Q, [Q EXCEPT !.nProcessing = n])
BY Zenon DEF SameLists, QueueType

LEMMA UnrefLists == ASSUME NEW Q \in QueueType PROVE SameLists(Q, Unref(Q))
BY Zenon DEF SameLists, Unref, QueueType

\* One queue changes in other fields.
LEMMA OneSame ==
    ASSUME IInv, NEW q \in Queues, NEW R, pq' = [pq EXCEPT ![q] = R], SameLists(pq[q], R)
    PROVE  \A p \in Queues : SameLists(pq[p], pq'[p])
BY DEF IInv, TypeOK, SameLists

\* A worker without a job takes one.
LEMMA TakePlaces ==
    ASSUME IInv, IInv', Places, NEW w \in Workers, wk[w].job = NoJob, NEW q \in Queues,
           NEW Qs \in [Queues -> QueueType], \A p \in Queues : SameLists(pq[p], Qs[p]),
           Qs[q].input # <<>>, NEW rg, Take(w, q, Qs, rg)
    PROVE  Places'
<1> DEFINE y == [pc |-> "run", q |-> q, job |-> Head(Qs[q].input)]
<1>1. /\ wk' = [wk EXCEPT ![w] = y] /\ pq' = [Qs EXCEPT ![q] = Taken(Qs[q])]
      /\ th' = th /\ settled' = settled
  BY DEF Take
<1>2. /\ Qs[q] \in QueueType /\ Qs[q].input = pq[q].input /\ Qs[q].output = pq[q].output
      /\ Qs[q].calls = pq[q].calls /\ Qs[q].next = pq[q].next /\ Qs[q].curr = pq[q].curr
  BY DEF SameLists
<1>3. Head(Qs[q].input) \in Job
  BY <1>2, FieldTypes
<1>4. y \in WorkerType /\ y.q = q /\ y.job = Head(pq[q].input) /\ y.pc = "run"
  BY <1>2, <1>3 DEF WorkerType
<1> HIDE DEF y
<1>5. pq'[q] = Taken(Qs[q]) /\ \A p \in Queues : p # q => pq'[p] = Qs[p]
  BY <1>1
<1>6. /\ pq'[q].input = Tail(pq[q].input) /\ pq'[q].output = pq[q].output
      /\ pq'[q].calls = pq[q].calls /\ pq'[q].next = pq[q].next /\ pq'[q].curr = pq[q].curr
  BY <1>2, <1>5, TakenLists
<1>7. Owned(q)' /\ Turn(q)'
  <2>1. Owned(q) /\ Turn(q) /\ pq[q].input # <<>> /\ settled'[q] = settled[q]
    BY <1>1, <1>2 DEF Places, OwnInv, TurnInv
  <2> QED
    BY <1>1, <1>4, <1>6, <2>1, TakeMoves
<1>8. \A p \in Queues : p # q => Undisturbed(p)
  BY <1>1, <1>4, <1>5, WorkerElsewhere
<1>9. WorkerHand(y)
  BY <1>4 DEF WorkerHand
<1> QED
  BY <1>1, <1>7, <1>8, <1>9, WorkerPlaces

\* The scan of the ring by a worker without a job.
LEMMA ScanPlaces ==
    ASSUME IInv, IInv', Places, NEW w \in Workers, wk[w].job = NoJob,
           NEW Qs \in [Queues -> QueueType], \A p \in Queues : SameLists(pq[p], Qs[p]),
           NEW rg \in Seq(Queues), Scan(w, Qs, rg)
    PROVE  Places'
<1>1. CASE /\ wk' = [wk EXCEPT ![w] = [pc |-> IF poolDown THEN "exit" ELSE "wait",
                                       q |-> "none", job |-> NoJob]]
           /\ pq' = Qs /\ th' = th /\ settled' = settled
  <2>1. PICK y : y = [pc |-> IF poolDown THEN "exit" ELSE "wait", q |-> "none", job |-> NoJob]
    OBVIOUS
  <2>2. y \in WorkerType /\ y.job = NoJob /\ y.pc # "run"
    BY <2>1 DEF WorkerType
  <2>3. wk' = [wk EXCEPT ![w] = y]
    BY <1>1, <2>1
  <2>4. \A p \in Queues : Undisturbed(p)
    BY <1>1, <2>2, <2>3, WorkerKeeps
  <2>5. WorkerHand(y)
    BY <2>2 DEF WorkerHand
  <2> QED
    BY <1>1, <2>3, <2>4, <2>5, WorkerPlaces
<1>2. ASSUME NEW i \in DOMAIN rg, Ready(Qs, rg[i]),
             Take(w, rg[i], [Qs EXCEPT ![rg[i]].ref = @ + 1], rg)
      PROVE  Places'
  <2>1. PICK q \in Queues : q = rg[i]
    OBVIOUS
  <2>2. PICK R : R = [Qs[q] EXCEPT !.ref = Qs[q].ref + 1]
    OBVIOUS
  <2>3. PICK Rs : Rs = [Qs EXCEPT ![q] = R]
    OBVIOUS
  <2>4. Take(w, q, Rs, rg)
    <3>1. Rs = [Qs EXCEPT ![rg[i]].ref = @ + 1]
      BY <2>1, <2>2, <2>3, Zenon
    <3> QED
      BY <1>2, <2>1, <3>1
  <2>5. Qs[q] \in QueueType /\ Qs[q].ref + 1 \in Int
    BY FieldTypes
  <2>6. R \in QueueType
    BY <2>2, <2>5, Zenon DEF QueueType
  <2>7. SameLists(Qs[q], R)
    BY <2>2, <2>5, FlagLists
  <2>8. /\ Rs \in [Queues -> QueueType] /\ Rs[q] = R
        /\ \A p \in Queues : p # q => Rs[p] = Qs[p]
    BY <2>3, <2>6
  <2>9. \A p \in Queues : SameLists(pq[p], Rs[p])
    BY <2>7, <2>8 DEF SameLists
  <2>10. Rs[q].input # <<>>
    BY <1>2, <2>1, <2>7, <2>8 DEF SameLists, Ready, HasRoom
  <2> QED
    BY <2>4, <2>8, <2>9, <2>10, TakePlaces
<1> QED
  BY <1>1, <1>2 DEF Scan
LEMMA LoopPlaces ==
    ASSUME IInv, IInv', Places, NEW w \in Workers,
           WorkerStart(w) \/ WorkerWake(w) \/ WorkerLoop(w)
    PROVE  Places'
<1>1. /\ wk[w] \in WorkerType /\ pq \in [Queues -> QueueType] /\ ring \in Seq(Queues)
      /\ wk[w].job = NoJob
  BY DEF WorkerStart, WorkerWake, WorkerLoop, IInv, TypeOK, Places, OwnInv, WorkerHand
<1>2. CASE Scan(w, pq, ring)
  <2>1. \A p \in Queues : SameLists(pq[p], pq[p])
    BY DEF SameLists
  <2> QED
    BY <1>1, <1>2, <2>1, ScanPlaces
<1>3. CASE WorkerLoop(w)
  <2>1. PICK q \in Queues : q = wk[w].q
    BY <1>3 DEF WorkerLoop, IInv, WorkerInv
  <2>2. CASE /\ wk' = [wk EXCEPT ![w].pc = "exit"]
             /\ UNCHANGED <<pq, ring, njobs, poolDown, th, woken, settled>>
    <3>1. PICK y : y = [wk[w] EXCEPT !.pc = "exit"]
      OBVIOUS
    <3>2. y \in WorkerType /\ y.q = wk[w].q /\ y.job = NoJob /\ y.pc = "exit"
      BY <1>1, <3>1 DEF WorkerType
    <3>3. wk' = [wk EXCEPT ![w] = y]
      BY <2>2, <3>1, Zenon
    <3>4. \A p \in Queues : SameLists(pq[p], pq'[p]) /\ settled'[p] = settled[p]
      BY <2>2 DEF SameLists
    <3>5. \A p \in Queues : Undisturbed(p)
      BY <1>1, <2>2, <3>2, <3>3, <3>4, WorkerKeeps
    <3>6. WorkerHand(y)
      BY <3>2 DEF WorkerHand
    <3> QED
      BY <2>2, <3>3, <3>5, <3>6, WorkerPlaces
  <2>3. CASE HasRoom(pq[q]) /\ Take(w, q, pq, ring)
    <3>1. pq[q].input # <<>> /\ \A p \in Queues : SameLists(pq[p], pq[p])
      BY <2>3 DEF SameLists, HasRoom
    <3> QED
      BY <1>1, <2>3, <3>1, TakePlaces
  <2>4. CASE Scan(w, [pq EXCEPT ![q] = Unref(pq[q])], IF pq[q].ref = 1 THEN ring ELSE RotateOne(ring))
    <3>1. PICK rg : rg = IF pq[q].ref = 1 THEN ring ELSE RotateOne(ring)
      OBVIOUS
    <3>2. rg \in Seq(Queues)
      BY <1>1, <3>1, RotateOneKeeps DEF LifeInv
    <3>3. PICK U : U = Unref(pq[q])
      OBVIOUS
    <3>4. U \in QueueType /\ SameLists(pq[q], U)
      BY <1>1, <3>3, UnrefOK, UnrefLists DEF IInv
    <3>5. PICK Qs : Qs = [pq EXCEPT ![q] = U]
      OBVIOUS
    <3>6. Qs \in [Queues -> QueueType] /\ Qs[q] = U /\ \A p \in Queues : p # q => Qs[p] = pq[p]
      BY <1>1, <3>4, <3>5
    <3>7. \A p \in Queues : SameLists(pq[p], Qs[p])
      BY <3>4, <3>6 DEF SameLists
    <3>8. Scan(w, Qs, rg)
      BY <2>4, <3>1, <3>3, <3>5
    <3> QED
      BY <1>1, <3>2, <3>6, <3>7, <3>8, ScanPlaces
  <2> QED
    BY <1>3, <2>1, <2>2, <2>3, <2>4, Zenon DEF WorkerLoop
<1> QED
  BY <1>2, <1>3 DEF WorkerStart, WorkerWake

\* What add_result does to the lists.
LEMMA ResultLists ==
    ASSUME NEW Q \in QueueType, NEW j
    PROVE  /\ WithResult(Q, j).input = Q.input
           /\ WithResult(Q, j).output = IF Q.inOnly THEN Q.output ELSE Q.output \cup {j}
           /\ WithResult(Q, j).calls = Q.calls /\ WithResult(Q, j).next = Q.next
           /\ WithResult(Q, j).curr = Q.curr
<1>1. CASE Q.inOnly
  BY <1>1, Zenon DEF WithResult, QueueType
<1>2. CASE ~ Q.inOnly
  BY <1>2, Zenon DEF WithResult, QueueType
<1> QED
  BY <1>1, <1>2

LEMMA AddResultPlaces ==
    ASSUME IInv, IInv', Places, NEW w \in Workers, AddResult(w)
    PROVE  Places'
<1>1. PICK q \in Queues : q = wk[w].q /\ w \in Running(q)
  BY DEF AddResult, IInv, WorkerInv, Running
<1>2. PICK y : y = [wk[w] EXCEPT !.pc = "loop", !.job = NoJob]
  OBVIOUS
<1>3. wk[w] \in WorkerType /\ pq[q] \in QueueType /\ settled[q] \in SUBSET (1 .. MaxCalls)
  BY DEF IInv, TypeOK
<1>4. y \in WorkerType /\ y.q = q /\ y.job = NoJob /\ y.pc = "loop"
  BY <1>1, <1>2, <1>3, Zenon DEF WorkerType
<1>5. /\ wk' = [wk EXCEPT ![w] = y] /\ pq' = [pq EXCEPT ![q] = WithResult(pq[q], wk[w].job)]
      /\ th' = th
      /\ settled' = IF pq[q].inOnly THEN [settled EXCEPT ![q] = @ \cup {wk[w].job.id}] ELSE settled
  BY <1>1, <1>2, Zenon DEF AddResult
<1>6. /\ pq'[q] = WithResult(pq[q], wk[w].job) /\ \A p \in Queues : p # q => pq'[p] = pq[p]
  BY <1>5 DEF IInv, TypeOK
<1>7. /\ settled'[q] = IF pq[q].inOnly THEN settled[q] \cup {wk[w].job.id} ELSE settled[q]
      /\ \A p \in Queues : p # q => settled'[p] = settled[p]
  BY <1>5 DEF IInv, TypeOK
<1>8. /\ pq'[q].input = pq[q].input
      /\ pq'[q].output = IF pq[q].inOnly THEN pq[q].output ELSE pq[q].output \cup {wk[w].job}
      /\ pq'[q].calls = pq[q].calls /\ pq'[q].next = pq[q].next /\ pq'[q].curr = pq[q].curr
  BY <1>3, <1>6, ResultLists
<1>9. \/ pq'[q].output = pq[q].output \cup {wk[w].job} /\ settled'[q] = settled[q]
      \/ pq'[q].output = pq[q].output /\ settled'[q] = settled[q] \cup {wk[w].job.id}
  BY <1>7, <1>8
<1>10. Owned(q)' /\ Turn(q)'
  <2>1. Owned(q) /\ Turn(q)
    BY DEF Places, OwnInv, TurnInv
  <2>2. /\ pq'[q].input = pq[q].input /\ pq'[q].calls = pq[q].calls
        /\ pq'[q].next = pq[q].next /\ pq'[q].curr = pq[q].curr
    BY <1>8
  <2> QED
    BY <1>1, <1>4, <1>5, <1>9, <2>1, <2>2, ResultMoves
<1>11. \A p \in Queues : p # q => SameLists(pq[p], pq'[p])
  BY <1>6 DEF SameLists
<1>12. \A p \in Queues : p # q => Undisturbed(p)
  BY <1>1, <1>4, <1>5, <1>7, <1>11, WorkerElsewhere, ZenonT(60)
<1>13. WorkerHand(y)
  BY <1>4 DEF WorkerHand
<1> QED
  BY <1>5, <1>10, <1>12, <1>13, WorkerPlaces

\* A result that cannot be added stays with the worker.
LEMMA ErrPlaces ==
    ASSUME IInv, IInv', Places, NEW w \in Workers,
           AddResultFails(w) \/ WorkerErrQueue(w) \/ WorkerErrAll(w)
    PROVE  Places'
<1>1. wk[w] \in WorkerType /\ pq \in [Queues -> QueueType] /\ th' = th /\ settled' = settled
  BY DEF IInv, TypeOK, AddResultFails, WorkerErrQueue, WorkerErrAll
<1>2. PICK pc \in {"err", "errAll", "exit"} : wk' = [wk EXCEPT ![w].pc = pc]
  BY DEF AddResultFails, WorkerErrQueue, WorkerErrAll
<1>3. PICK y : y = [wk[w] EXCEPT !.pc = pc]
  OBVIOUS
<1>4. y \in WorkerType /\ y.q = wk[w].q /\ y.job = wk[w].job /\ y.pc = pc
  BY <1>1, <1>3, Zenon DEF WorkerType
<1>5. wk' = [wk EXCEPT ![w] = y]
  BY <1>2, <1>3, Zenon
<1>6. \A p \in Queues : SameLists(pq[p], pq'[p])
  <2>1. CASE AddResultFails(w)
    <3>1. PICK q \in Queues : q = wk[w].q
      BY <2>1 DEF AddResultFails, IInv, WorkerInv
    <3>2. pq' = [pq EXCEPT ![q] = [pq[q] EXCEPT !.nProcessing = pq[q].nProcessing - 1]]
      BY <2>1, <3>1, Zenon DEF AddResultFails
    <3> QED
      BY <1>1, <3>2, FlagLists, OneSame
  <2>2. CASE WorkerErrQueue(w)
    <3>1. PICK q \in Queues : q = wk[w].q
      BY <2>2 DEF WorkerErrQueue, IInv, WorkerInv
    <3>2. pq' = [pq EXCEPT ![q] = [pq[q] EXCEPT !.shut = 1]]
      BY <2>2, <3>1, Zenon DEF WorkerErrQueue
    <3> QED
      BY <1>1, <3>2, FlagLists, OneSame
  <2>3. CASE WorkerErrAll(w)
    <3>1. \A p \in Queues : pq'[p] = pq[p] \/ pq'[p] = [pq[p] EXCEPT !.shut = 2]
      BY <2>3 DEF WorkerErrAll
    <3>2. \A p \in Queues : SameLists(pq[p], pq[p]) /\ SameLists(pq[p], [pq[p] EXCEPT !.shut = 2])
      BY <1>1, FlagLists DEF SameLists
    <3> QED
      BY <3>1, <3>2
  <2> QED
    BY <2>1, <2>2, <2>3
<1>7. \A p \in Queues : Undisturbed(p)
  BY <1>1, <1>4, <1>5, <1>6, WorkerKeeps
<1>8. WorkerHand(y)
  BY <1>4 DEF WorkerHand
<1> QED
  BY <1>1, <1>5, <1>7, <1>8, WorkerPlaces
----------------------------------------------------------------------------
(* Owners and turns: the clients.                                          *)

\* A client that holds no job goes on without one.
LEMMA EmptyPlaces ==
    ASSUME IInv, Places, wk' = wk, NEW t \in Threads, NEW y, th' = [th EXCEPT ![t] = y],
           th[t].pc # "notFull", y.pc # "notFull", y.job = NoJob, settled' = settled,
           \A p \in Queues : SameLists(pq[p], pq'[p])
    PROVE  Places'
<1>1. \A p \in Queues : Undisturbed(p)
  BY ClientEmpty
<1>2. ThreadHand(y)
  BY DEF ThreadHand
<1> QED
  BY <1>1, <1>2, ClientPlaces

\* A client that is idle, or in a call other than a dispatch, holds no job.
LEMMA EmptyHanded ==
    ASSUME IInv, Places, NEW t \in Threads
    PROVE  /\ th[t] \in ThreadType
           /\ th[t].pc # "notFull" => th[t].job = NoJob
           /\ th[t] = Idle => th[t].pc = "idle"
           /\ Idle.job = NoJob /\ Idle.pc = "idle" /\ Idle.q = "none"
<1>1. th[t].pc # "notFull" => th[t].job = NoJob
  BY DEF Places, OwnInv, ThreadHand
<1>2. Idle.job = NoJob
  BY Zenon DEF Idle
<1> QED
  BY <1>1, <1>2, IdleOK DEF IInv, TypeOK

LEMMA InitPlaces ==
    ASSUME IInv, Places, NEW t \in Threads, NEW q \in Queues, ProcessInit(t, q)
    PROVE  Places'
<1>1. pq[q] = Unborn(q) /\ pq' = [pq EXCEPT ![q] = NewQueue(q)]
  BY DEF ProcessInit, IInv, UnbornInv
<1>2. NewQueue(q) \in QueueType
  BY NewQueueOK
<1>3. SameLists(Unborn(q), NewQueue(q))
  BY <1>2, Zenon DEF SameLists, Unborn, QueueType
<1>4. \A p \in Queues : SameLists(pq[p], pq'[p])
  BY <1>1, <1>3, OneSame
<1> QED
  BY <1>4, QuietPlaces DEF ProcessInit

\* The fields after a number is drawn and after the job is appended.
LEMMA DrawnLists ==
    ASSUME NEW Q \in QueueType
    PROVE  /\ Drawn(Q).input = Q.input /\ Drawn(Q).output = Q.output /\ Drawn(Q).next = Q.next
           /\ Drawn(Q).calls = Q.calls + 1 /\ Drawn(Q).curr = Q.curr + 1
BY Zenon DEF Drawn, QueueType

LEMMA AppendedLists ==
    ASSUME NEW Q \in QueueType, NEW j, NEW mode
    PROVE  /\ Appended(Q, j, mode).input = Append(Q.input, j)
           /\ Appended(Q, j, mode).output = Q.output /\ Appended(Q, j, mode).next = Q.next
           /\ Appended(Q, j, mode).calls = Q.calls /\ Appended(Q, j, mode).curr = Q.curr
BY Zenon DEF Appended, QueueType

\* The job j of client t, the number of which is drawn, is appended or given
\* back.  Q is the queue so far.
LEMMA EnqueuePlaces ==
    ASSUME IInv, IInv', Places, NEW t \in Threads, NEW q \in Queues, NEW Q \in QueueType,
           NEW j \in Job, NEW mode, Enqueue(t, q, Q, j, mode), th[t].q \in {q, "none"},
           Q.input = pq[q].input, Q.output = pq[q].output, Q.next = pq[q].next,
           Q.curr >= pq[q].curr,
           Divided(Q.calls, BlockedIds(q)' \cup {j.id}, InputIds(pq[q]), BusyIds(q),
                   OutputIds(pq[q]), settled[q]),
           j.id \notin BlockedIds(q)', OnceBlocked(q)',
           \A u \in Blocked(q)' : u \in Blocked(q) /\ th'[u].job = th[u].job,
           pq[q].next # IntMax => j.serial >= pq[q].next
    PROVE  Places'
<1>1. th' = [th EXCEPT ![t] = Idle] /\ wk' = wk
  BY DEF Enqueue
<1>2. \/ pq' = [pq EXCEPT ![q] = Q] /\ settled' = [settled EXCEPT ![q] = @ \cup {j.id}]
      \/ pq' = [pq EXCEPT ![q] = Appended(Q, j, mode)] /\ settled' = settled
  BY DEF Enqueue
<1>3. \/ pq'[q] = Q /\ settled'[q] = settled[q] \cup {j.id}
      \/ pq'[q] = Appended(Q, j, mode) /\ settled'[q] = settled[q]
  BY <1>2 DEF IInv, TypeOK
<1>4. \A p \in Queues : p # q => pq'[p] = pq[p] /\ settled'[p] = settled[p]
  BY <1>2 DEF IInv, TypeOK
<1>5. /\ pq'[q].output = pq[q].output /\ pq'[q].next = pq[q].next
      /\ pq'[q].calls = Q.calls /\ pq'[q].curr = Q.curr
  BY <1>3, AppendedLists
<1>6. \/ pq'[q].input = pq[q].input /\ settled'[q] = settled[q] \cup {j.id}
      \/ pq'[q].input = Append(pq[q].input, j) /\ settled'[q] = settled[q]
  BY <1>3, AppendedLists
<1>7. Owned(q) /\ Turn(q)
  BY DEF Places, OwnInv, TurnInv
<1>8. Owned(q)'
  <2>1. OnceBusy(q) /\ OnceInInput(pq[q].input)
    BY <1>7 DEF Owned
  <2>2. Divided(pq'[q].calls, BlockedIds(q)' \cup {j.id}, InputIds(pq[q]), BusyIds(q),
                OutputIds(pq[q]), settled[q])
    BY <1>5
  <2> QED
    BY <1>1, <1>5, <1>6, <2>1, <2>2, JobMoves
<1>9. Turn(q)'
  <2>1. pq[q].input \in Seq(Job)
    BY FieldTypes DEF IInv, TypeOK
  <2>2. \A i \in DOMAIN pq'[q].input :
           pq'[q].input[i] = j \/ (i \in DOMAIN pq[q].input /\ pq'[q].input[i] = pq[q].input[i])
    <3>1. PICK s \in Seq(Job) : s = pq[q].input
      BY <2>1
    <3>2. \A i \in DOMAIN Append(s, j) :
             Append(s, j)[i] = j \/ (i \in DOMAIN s /\ Append(s, j)[i] = s[i])
      OBVIOUS
    <3> QED
      BY <1>6, <3>1, <3>2
  <2>3. pq'[q].curr >= pq[q].curr
    BY <1>5
  <2> QED
    BY <1>1, <1>5, <1>7, <2>2, <2>3, TurnGrows
<1>10. \A p \in Queues : p # q => Undisturbed(p)
  <2>1. \A p \in Queues : p # q => SameLists(pq[p], pq'[p])
    BY <1>4 DEF SameLists
  <2> QED
    BY <1>1, <1>4, <2>1, IdleOK, ClientElsewhere
<1>11. ThreadHand(Idle)
  BY EmptyHanded DEF ThreadHand
<1> QED
  BY <1>1, <1>8, <1>9, <1>10, <1>11, ClientPlaces
\* A number is drawn: the ids grow by one, which nobody has yet.
LEMMA IdDrawn ==
    ASSUME NEW n \in Nat, NEW B, NEW I, NEW W, NEW O, NEW S, Divided(n, B, I, W, O, S)
    PROVE  /\ n + 1 \notin B
           /\ Divided(n + 1, B \cup {n + 1}, I, W, O, S)
<1>1. n + 1 \notin 1 .. n /\ 1 .. (n + 1) = (1 .. n) \cup {n + 1}
  OBVIOUS
<1>2. PICK m : m = n + 1
  OBVIOUS
<1>3. m \notin 1 .. n /\ 1 .. m = (1 .. n) \cup {m}
  BY <1>1, <1>2
<1>4. m \notin B /\ Divided(m, B \cup {m}, I, W, O, S)
  BY <1>3 DEF Divided
<1> QED
  BY <1>2, <1>4

LEMMA DispatchPlaces ==
    ASSUME IInv, IInv', Places, NEW t \in Threads, NEW q \in Queues, NEW mode, Dispatch(t, q, mode)
    PROVE  Places'
<1>1. /\ th[t] = Idle /\ pq[q] \in QueueType /\ QueueInv(pq[q]) /\ pq[q].calls < MaxCalls
      /\ pq[q].calls \in Nat /\ pq[q].curr \in Nat /\ pq[q].next \in Nat
  BY OpenQueue, FieldTypes, BoundAssumption DEF Dispatch
<1>2. PICK Q : Q = Drawn(pq[q])
  OBVIOUS
<1>3. PICK j : j = [serial |-> pq[q].curr, id |-> Q.calls]
  OBVIOUS
<1>4. Q \in QueueType /\ j \in Job
  BY <1>1, <1>2, <1>3, DrawnOK
<1>5. /\ Q.input = pq[q].input /\ Q.output = pq[q].output /\ Q.next = pq[q].next
      /\ Q.calls = pq[q].calls + 1 /\ Q.curr = pq[q].curr + 1
  BY <1>1, <1>2, DrawnLists
<1>6. j.serial = pq[q].curr /\ j.id = pq[q].calls + 1
  BY <1>3, <1>5
<1>7. PICK y : y = [pc |-> "notFull", call |-> "dispatch", q |-> q, job |-> j]
  OBVIOUS
<1>8. y.pc = "notFull" /\ y.q = q /\ y.job = j /\ y \in ThreadType
  BY <1>4, <1>7 DEF ThreadType, QueueConds
<1>9. \/ /\ th' = [th EXCEPT ![t] = y] /\ pq' = [pq EXCEPT ![q] = Q]
         /\ wk' = wk /\ settled' = settled
      \/ Enqueue(t, q, Q, j, mode)
  BY <1>2, <1>3, <1>7 DEF Dispatch
<1>10. Owned(q) /\ Turn(q) /\ OnceBlocked(q) /\ OnceBusy(q) /\ OnceInInput(pq[q].input)
  BY DEF Places, OwnInv, TurnInv, Owned
<1>11. /\ j.id \notin BlockedIds(q)
       /\ Divided(Q.calls, BlockedIds(q) \cup {j.id}, InputIds(pq[q]), BusyIds(q),
                  OutputIds(pq[q]), settled[q])
  <2>1. Divided(pq[q].calls, BlockedIds(q), InputIds(pq[q]), BusyIds(q), OutputIds(pq[q]), settled[q])
    BY <1>10 DEF Owned
  <2> QED
    BY <1>1, <1>5, <1>6, <2>1, IdDrawn
<1>12. pq[q].next # IntMax => j.serial >= pq[q].next
  BY <1>1, <1>6, <1>10 DEF Turn
<1>13. th[t].pc = "idle" /\ th[t].q = "none" /\ Idle.pc = "idle" /\ Idle.job = NoJob
  BY <1>1, EmptyHanded
<1>14. Q.curr >= pq[q].curr
  BY <1>1, <1>5
<1>15. CASE /\ th' = [th EXCEPT ![t] = y] /\ pq' = [pq EXCEPT ![q] = Q]
            /\ wk' = wk /\ settled' = settled
  <2>1. pq'[q] = Q /\ \A p \in Queues : p # q => pq'[p] = pq[p]
    BY <1>15 DEF IInv, TypeOK
  <2>2. /\ Blocked(q)' = Blocked(q) \cup {t} /\ th'[t].job = j
        /\ \A u \in Blocked(q) : th'[u].job = th[u].job
        /\ BlockedIds(q)' = BlockedIds(q) \cup {j.id} /\ OnceBlocked(q)'
    <3>1. th[t].pc # "notFull" /\ y.pc = "notFull" /\ y.q = q /\ th' = [th EXCEPT ![t] = y]
      BY <1>8, <1>13, <1>15
    <3>2. /\ Blocked(q)' = Blocked(q) \cup {t} /\ th'[t].job = y.job
          /\ \A u \in Blocked(q) : th'[u].job = th[u].job
          /\ BlockedIds(q)' = BlockedIds(q) \cup {y.job.id}
          /\ OnceBlocked(q) /\ y.job.id \notin BlockedIds(q) => OnceBlocked(q)'
      BY <1>8, <3>1, BlockedEnters
    <3> QED
      BY <1>8, <1>10, <1>11, <3>2
  <2>3. Owned(q)'
    <3>1. BusyIds(q)' = BusyIds(q) /\ OnceBusy(q)'
      BY <1>10, <1>15, SameWorkers
    <3>2. InputIds(pq'[q]) = InputIds(pq[q]) /\ OutputIds(pq'[q]) = OutputIds(pq[q])
      BY <1>5, <2>1 DEF InputIds, OutputIds
    <3> QED
      BY <1>5, <1>10, <1>11, <1>15, <2>1, <2>2, <3>1, <3>2 DEF Owned
  <2>4. Turn(q)'
    <3>1. \A u \in Blocked(q)' : th'[u].job = j \/ (u \in Blocked(q) /\ th'[u].job = th[u].job)
      BY <2>2
    <3>2. /\ pq'[q].output = pq[q].output /\ pq'[q].next = pq[q].next
          /\ pq'[q].curr >= pq[q].curr /\ pq'[q].input = pq[q].input
      BY <1>5, <1>14, <2>1
    <3> QED
      BY <1>10, <1>12, <1>15, <3>1, <3>2, TurnGrows
  <2>5. \A p \in Queues : p # q => Undisturbed(p)
    <3>1. \A p \in Queues : p # q => SameLists(pq[p], pq'[p])
      BY <2>1 DEF SameLists
    <3> QED
      BY <1>8, <1>13, <1>15, <3>1, ClientElsewhere
  <2>6. ThreadHand(y)
    BY <1>8 DEF ThreadHand
  <2> QED
    BY <1>15, <2>3, <2>4, <2>5, <2>6, ClientPlaces
<1>16. CASE Enqueue(t, q, Q, j, mode)
  <2>1. th' = [th EXCEPT ![t] = Idle]
    BY <1>16 DEF Enqueue
  <2>2. /\ Blocked(q)' = Blocked(q) /\ (\A u \in Blocked(q) : th'[u].job = th[u].job)
        /\ BlockedIds(q)' = BlockedIds(q) /\ OnceBlocked(q)'
    BY <1>10, <1>13, <2>1, BlockedStays
  <2>3. Divided(Q.calls, BlockedIds(q)' \cup {j.id}, InputIds(pq[q]), BusyIds(q),
                OutputIds(pq[q]), settled[q])
    BY <1>11, <2>2
  <2>4. j.id \notin BlockedIds(q)' /\ \A u \in Blocked(q)' : u \in Blocked(q) /\ th'[u].job = th[u].job
    BY <1>11, <2>2
  <2> QED
    BY <1>4, <1>5, <1>12, <1>13, <1>14, <1>16, <2>2, <2>3, <2>4, EnqueuePlaces
<1> QED
  BY <1>9, <1>15, <1>16

LEMMA DispatchWakePlaces ==
    ASSUME IInv, IInv', Places, NEW t \in Threads, DispatchWake(t)
    PROVE  Places'
<1>1. PICK q \in Queues : q = th[t].q /\ th[t].pc = "notFull"
  BY InsideQueue DEF DispatchWake
<1>2. t \in Blocked(q) /\ pq[q] \in QueueType /\ th[t].job \in Job
  BY <1>1, OpenQueue DEF Blocked, IInv, ThreadInv
<1>3. CASE UNCHANGED <<pq, ring, njobs, poolDown, wk, th, settled>>
  BY <1>3, QuietPlaces DEF SameLists
<1>4. CASE Enqueue(t, q, pq[q], th[t].job, "block")
  <2>1. th' = [th EXCEPT ![t] = Idle] /\ Idle.pc = "idle"
    BY <1>4, IdleOK DEF Enqueue
  <2>2. PICK j \in Job : j = th[t].job
    BY <1>2
  <2>3. /\ Owned(q) /\ Turn(q) /\ OnceBlocked(q)
        /\ Divided(pq[q].calls, BlockedIds(q), InputIds(pq[q]), BusyIds(q), OutputIds(pq[q]), settled[q])
    BY DEF Places, OwnInv, TurnInv, Owned
  <2>4. /\ Blocked(q)' = Blocked(q) \ {t} /\ (\A u \in Blocked(q)' : th'[u].job = th[u].job)
        /\ BlockedIds(q)' = BlockedIds(q) \ {j.id} /\ j.id \in BlockedIds(q) /\ OnceBlocked(q)'
    BY <1>2, <2>1, <2>2, <2>3, BlockedLeaves
  <2>5. Divided(pq[q].calls, BlockedIds(q)' \cup {j.id}, InputIds(pq[q]), BusyIds(q),
                OutputIds(pq[q]), settled[q])
    <3>1. BlockedIds(q)' \cup {j.id} = BlockedIds(q)
      BY <2>4
    <3> QED
      BY <2>3, <3>1
  <2>6. /\ j.id \notin BlockedIds(q)'
        /\ \A u \in Blocked(q)' : u \in Blocked(q) /\ th'[u].job = th[u].job
    BY <2>4
  <2>7. pq[q].next # IntMax => j.serial >= pq[q].next
    BY <1>2, <2>2, <2>3 DEF Turn, Ahead
  <2>8. pq[q].curr \in Nat /\ pq[q].curr >= pq[q].curr
    BY <1>2, FieldTypes
  <2> QED
    BY <1>1, <1>2, <1>4, <2>2, <2>4, <2>5, <2>6, <2>7, <2>8, EnqueuePlaces
<1> QED
  BY <1>1, <1>3, <1>4 DEF DispatchWake
\* The fields after a result is taken.
LEMMA WithoutLists ==
    ASSUME NEW Q \in QueueType, NEW r
    PROVE  /\ Without(Q, r).input = Q.input /\ Without(Q, r).output = Q.output \ {r}
           /\ Without(Q, r).calls = Q.calls /\ Without(Q, r).next = Q.next + 1
           /\ Without(Q, r).curr = Q.curr
BY Zenon DEF Without, QueueType

\* Client t takes the next result; Q is the queue so far.
LEMMA DeliverPlaces ==
    ASSUME IInv, IInv', Places, NEW t \in Threads, NEW q \in Queues, NEW Q \in QueueType,
           SameLists(pq[q], Q), th[t].q \in {q, "none"}, th[t].pc # "notFull", Deliver(t, q, Q)
    PROVE  Places'
<1>1. PICK r \in Found(Q) : /\ pq' = [pq EXCEPT ![q] = Without(Q, r)]
                            /\ settled' = [settled EXCEPT ![q] = @ \cup {r.id}]
  BY DeliverEffect
<1>2. th' = [th EXCEPT ![t] = Idle] /\ wk' = wk
  BY DeliverEffect
<1>3. /\ pq'[q] = Without(Q, r) /\ settled'[q] = settled[q] \cup {r.id}
      /\ \A p \in Queues : p # q => pq'[p] = pq[p] /\ settled'[p] = settled[p]
  BY <1>1 DEF IInv, TypeOK
<1>4. /\ Q.input = pq[q].input /\ Q.output = pq[q].output /\ Q.calls = pq[q].calls
      /\ Q.next = pq[q].next /\ Q.curr = pq[q].curr
  BY DEF SameLists
<1>5. r \in pq[q].output /\ r.serial = pq[q].next
  BY <1>4 DEF Found
<1>6. /\ pq'[q].input = pq[q].input /\ pq'[q].output = pq[q].output \ {r}
      /\ pq'[q].calls = pq[q].calls /\ pq'[q].next = pq[q].next + 1 /\ pq'[q].curr = pq[q].curr
  BY <1>3, <1>4, WithoutLists
<1>7. Idle.pc = "idle" /\ Idle.q = "none" /\ Idle.job = NoJob
  BY EmptyHanded
<1>8. /\ Blocked(q)' = Blocked(q) /\ (\A u \in Blocked(q) : th'[u].job = th[u].job)
      /\ BlockedIds(q)' = BlockedIds(q) /\ (OnceBlocked(q) => OnceBlocked(q)')
  BY <1>2, <1>7, BlockedStays
<1>9. Owned(q)' /\ Turn(q)'
  <2>1. Owned(q) /\ Turn(q)
    BY DEF Places, OwnInv, TurnInv
  <2> QED
    BY <1>2, <1>3, <1>5, <1>6, <1>8, <2>1, DeliverMoves
<1>10. \A p \in Queues : p # q => Undisturbed(p)
  <2>1. \A p \in Queues : p # q => SameLists(pq[p], pq'[p])
    BY <1>3 DEF SameLists
  <2> QED
    BY <1>2, <1>3, <1>7, <2>1, ClientElsewhere
<1>11. ThreadHand(Idle)
  BY <1>7 DEF ThreadHand
<1> QED
  BY <1>2, <1>9, <1>10, <1>11, ClientPlaces

LEMMA NextResultPlaces ==
    ASSUME IInv, IInv', Places, NEW t \in Threads, NEW q \in Queues,
           NextResult(t, q) \/ NextResultWait(t, q)
    PROVE  Places'
<1>1. th[t] = Idle /\ pq[q] \in QueueType /\ th[t].pc = "idle" /\ th[t].q = "none"
  BY EmptyHanded, OpenQueue DEF NextResult, NextResultWait
<1>2. CASE NextResult(t, q)
  <2>1. SameLists(pq[q], pq[q])
    BY DEF SameLists
  <2> QED
    BY <1>1, <1>2, <2>1, DeliverPlaces DEF NextResult
<1>3. CASE NextResultWait(t, q)
  <2>1. PICK y : y = [pc |-> "avail", call |-> "next", q |-> q, job |-> NoJob]
    OBVIOUS
  <2>2. y.pc = "avail" /\ y.job = NoJob
    BY <2>1, Zenon
  <2>3. PICK R : R = [pq[q] EXCEPT !.ref = pq[q].ref + 1]
    OBVIOUS
  <2>4. /\ th' = [th EXCEPT ![t] = y] /\ pq' = [pq EXCEPT ![q] = R]
        /\ wk' = wk /\ settled' = settled
    BY <1>3, <2>1, <2>3, Zenon DEF NextResultWait
  <2>5. SameLists(pq[q], R)
    BY <1>1, <2>3, FlagLists
  <2>6. \A p \in Queues : SameLists(pq[p], pq'[p])
    BY <2>4, <2>5, OneSame
  <2> QED
    BY <1>1, <2>2, <2>4, <2>6, EmptyPlaces
<1> QED
  BY <1>2, <1>3

LEMMA NextResultWakePlaces ==
    ASSUME IInv, IInv', Places, NEW t \in Threads, NextResultWake(t)
    PROVE  Places'
<1>1. PICK q \in Queues : q = th[t].q /\ th[t].pc = "avail"
  BY InsideQueue DEF NextResultWake
<1>2. pq[q] \in QueueType /\ pq[q].ref - 1 \in Int
  BY OpenQueue, FieldTypes
<1>3. CASE Deliver(t, q, [pq[q] EXCEPT !.ref = @ - 1])
  <2>1. PICK R : R = [pq[q] EXCEPT !.ref = pq[q].ref - 1]
    OBVIOUS
  <2>2. R \in QueueType
    BY <1>2, <2>1, Zenon DEF QueueType
  <2>3. SameLists(pq[q], R)
    BY <1>2, <2>1, FlagLists
  <2>4. Deliver(t, q, R)
    BY <1>3, <2>1, Zenon
  <2> QED
    BY <1>1, <2>2, <2>3, <2>4, DeliverPlaces
<1>4. CASE /\ th' = [th EXCEPT ![t] = Idle] /\ pq' = [pq EXCEPT ![q] = Unref(pq[q])]
           /\ UNCHANGED <<ring, njobs, poolDown, wk, settled>>
  <2>1. \A p \in Queues : SameLists(pq[p], pq'[p])
    BY <1>2, <1>4, UnrefLists, OneSame
  <2>2. Idle.pc = "idle" /\ Idle.job = NoJob
    BY EmptyHanded
  <2> QED
    BY <1>1, <1>4, <2>1, <2>2, EmptyPlaces
<1>5. CASE UNCHANGED <<pq, ring, njobs, poolDown, wk, th, settled>>
  BY <1>5, QuietPlaces DEF SameLists
<1> QED
  BY <1>1, <1>3, <1>4, <1>5, Zenon DEF NextResultWake

LEMMA FlagsPlaces ==
    ASSUME IInv, Places, NEW t \in Threads, NEW q \in Queues,
           WakeDispatch(t, q) \/ ProcessShutdown(t, q)
    PROVE  Places'
<1>1. pq[q] \in QueueType /\ wk' = wk /\ th' = th /\ settled' = settled
  BY OpenQueue DEF WakeDispatch, ProcessShutdown
<1>2. \/ pq' = [pq EXCEPT ![q] = [pq[q] EXCEPT !.wake = TRUE]]
      \/ pq' = [pq EXCEPT ![q] = [pq[q] EXCEPT !.shut = 1]]
  BY Zenon DEF WakeDispatch, ProcessShutdown
<1>3. \A p \in Queues : SameLists(pq[p], pq'[p])
  BY <1>1, <1>2, FlagLists, OneSame
<1> QED
  BY <1>1, <1>3, QuietPlaces
\* The flush, and the part of a reset or a destroy that is one.
LEMMA FlushToPlaces ==
    ASSUME IInv, Places, NEW t \in Threads, th[t].pc # "notFull",
           NEW c \in {"idle", "inputEmpty", "noneProcessing", "resetEnd"}, FlushTo(t, c),
           wk' = wk, settled' = settled, \A p \in Queues : SameLists(pq[p], pq'[p])
    PROVE  Places'
<1>1. CASE c = "idle"
  <2>1. th' = [th EXCEPT ![t] = Idle]
    BY <1>1 DEF FlushTo
  <2> QED
    BY <2>1, EmptyHanded, EmptyPlaces
<1>2. CASE c # "idle"
  <2>1. PICK y : y = [th[t] EXCEPT !.pc = c]
    OBVIOUS
  <2>2. th' = [th EXCEPT ![t] = y]
    BY <1>2, <2>1 DEF FlushTo
  <2>3. y.pc = c /\ y.job = NoJob
    BY <2>1, EmptyHanded, Zenon DEF ThreadType
  <2> QED
    BY <2>2, <2>3, EmptyPlaces
<1> QED
  BY <1>1, <1>2

LEMMA FlushPlaces ==
    ASSUME IInv, Places, NEW t \in Threads, FlushStart(t) \/ FlushWake(t)
    PROVE  Places'
<1>1. th[t].pc \in {"flush", "inputEmpty", "noneProcessing"} /\ wk' = wk /\ settled' = settled
  BY DEF FlushStart, FlushWake
<1>2. PICK q \in Queues : q = th[t].q
  BY <1>1, InsideQueue
<1>3. pq[q] \in QueueType
  BY OpenQueue
<1>4. FlushNext(pq[q], th[t].call) \in {"idle", "inputEmpty", "noneProcessing", "resetEnd"}
  BY <1>3, FlushNextOK
<1>5. PICK c \in {"idle", "inputEmpty", "noneProcessing", "resetEnd"} : FlushTo(t, c)
  BY <1>2, <1>4 DEF FlushStart, FlushWake
<1>6. \A p \in Queues : SameLists(pq[p], pq'[p])
  <2>1. CASE FlushStart(t)
    <3>1. PICK n : pq' = [pq EXCEPT ![q].qsize = n]
      BY <1>2, <2>1 DEF FlushStart
    <3>2. pq' = [pq EXCEPT ![q] = [pq[q] EXCEPT !.qsize = n]]
      BY <3>1, Zenon
    <3> QED
      BY <1>3, <3>2, FlagLists, OneSame
  <2>2. CASE FlushWake(t)
    BY <2>2 DEF FlushWake, SameLists
  <2> QED
    BY <2>1, <2>2
<1> QED
  BY <1>1, <1>5, <1>6, FlushToPlaces

\* A flush or a destroy begins.
LEMMA BeginPlaces ==
    ASSUME IInv, Places, NEW t \in Threads, NEW q \in Queues,
           ProcessFlush(t, q) \/ ProcessDestroy(t, q)
    PROVE  Places'
<1>1. th[t].pc = "idle" /\ pq[q] \in QueueType /\ wk' = wk /\ settled' = settled
  BY EmptyHanded, OpenQueue DEF ProcessFlush, ProcessDestroy
<1>2. PICK c \in {"flush", "destroy"} :
         th' = [th EXCEPT ![t] = [pc |-> c, call |-> c, q |-> q, job |-> NoJob]]
  BY DEF ProcessFlush, ProcessDestroy
<1>3. PICK y : y = [pc |-> c, call |-> c, q |-> q, job |-> NoJob]
  OBVIOUS
<1>4. y.pc = c /\ y.job = NoJob
  BY <1>3, Zenon
<1>5. th' = [th EXCEPT ![t] = y]
  BY <1>2, <1>3
<1>6. pq' = pq \/ pq' = [pq EXCEPT ![q] = [pq[q] EXCEPT !.noMore = TRUE]]
  BY Zenon DEF ProcessFlush, ProcessDestroy
<1>7. \A p \in Queues : SameLists(pq[p], pq'[p])
  <2>1. CASE pq' = pq
    BY <2>1 DEF SameLists
  <2>2. CASE pq' = [pq EXCEPT ![q] = [pq[q] EXCEPT !.noMore = TRUE]]
    BY <1>1, <2>2, FlagLists, OneSame
  <2> QED
    BY <1>6, <2>1, <2>2
<1> QED
  BY <1>1, <1>4, <1>5, <1>7, EmptyPlaces

LEMMA DestroyEndPlaces ==
    ASSUME IInv, Places, NEW t \in Threads, DestroyEnd(t)
    PROVE  Places'
<1>1. PICK q \in Queues : q = th[t].q /\ th[t].pc = "destroyEnd"
  BY InsideQueue DEF DestroyEnd
<1>2. pq[q] \in QueueType /\ QueueInv(pq[q])
  BY OpenQueue
<1>3. PICK U : U = Unref(pq[q])
  OBVIOUS
<1>4. U \in QueueType /\ SameLists(pq[q], U)
  BY <1>2, <1>3, UnrefOK, UnrefLists
<1>5. SameLists(U, [U EXCEPT !.shut = 1])
  BY <1>4, FlagLists
<1>6. SameLists(pq[q], [U EXCEPT !.shut = 1])
  BY <1>4, <1>5 DEF SameLists
<1>7. /\ pq' = [pq EXCEPT ![q] = [U EXCEPT !.shut = 1]] /\ th' = [th EXCEPT ![t] = Idle]
      /\ wk' = wk /\ settled' = settled
  BY <1>1, <1>3 DEF DestroyEnd
<1>8. \A p \in Queues : SameLists(pq[p], pq'[p])
  BY <1>6, <1>7, OneSame
<1> QED
  BY <1>1, <1>7, <1>8, EmptyHanded, EmptyPlaces

\* The fields after the two halves of a reset.
LEMMA ResetLists ==
    ASSUME NEW Q \in QueueType
    PROVE  /\ Discarded(Q).input = <<>> /\ Discarded(Q).output = {}
           /\ Discarded(Q).calls = Q.calls /\ Discarded(Q).next = IntMax
           /\ Restarted(Q).input = Q.input /\ Restarted(Q).output = {}
           /\ Restarted(Q).calls = Q.calls /\ Restarted(Q).next = 0 /\ Restarted(Q).curr = 0
BY Zenon DEF Discarded, Restarted, QueueType

\* The first half: what is queued goes back to the client, and no turn is left.
LEMMA DiscardPlaces ==
    ASSUME IInv, IInv', Places, NEW t \in Threads, NEW q \in Queues, NEW y,
           th' = [th EXCEPT ![t] = y], wk' = wk, ResetDiscard(q, pq[q]),
           th[t].pc # "notFull", y.pc # "notFull", y.job = NoJob,
           th[t].q \in {q, "none"}, y.q \in {q, "none"}
    PROVE  Places'
<1>1. pq[q] \in QueueType
  BY OpenQueue
<1>2. /\ pq' = [pq EXCEPT ![q] = Discarded(pq[q])]
      /\ settled' = [settled EXCEPT ![q] = @ \cup InputIds(pq[q]) \cup OutputIds(pq[q])]
  BY DEF ResetDiscard, InputIds, OutputIds
<1>3. /\ pq'[q] = Discarded(pq[q])
      /\ settled'[q] = settled[q] \cup InputIds(pq[q]) \cup OutputIds(pq[q])
      /\ \A p \in Queues : p # q => pq'[p] = pq[p] /\ settled'[p] = settled[p]
  BY <1>2 DEF IInv, TypeOK
<1>4. /\ pq'[q].input = <<>> /\ pq'[q].output = {} /\ pq'[q].calls = pq[q].calls
      /\ pq'[q].next = IntMax
  BY <1>1, <1>3, ResetLists
<1>5. Owned(q) /\ OnceBlocked(q)
  BY DEF Places, OwnInv, Owned
<1>6. BlockedIds(q)' = BlockedIds(q) /\ OnceBlocked(q)'
  BY <1>5, BlockedStays
<1>7. Owned(q)'
  BY <1>3, <1>4, <1>5, <1>6, DiscardMoves
<1>8. Turn(q)'
  BY <1>4 DEF Turn
<1>9. \A p \in Queues : p # q => Undisturbed(p)
  <2>1. \A p \in Queues : p # q => SameLists(pq[p], pq'[p])
    BY <1>3 DEF SameLists
  <2> QED
    BY <1>3, <2>1, ClientElsewhere
<1>10. ThreadHand(y)
  BY DEF ThreadHand
<1> QED
  BY <1>7, <1>8, <1>9, <1>10, ClientPlaces

LEMMA ResetPlaces ==
    ASSUME IInv, IInv', Places, NEW t \in Threads, NEW q \in Queues, ProcessReset(t, q)
    PROVE  Places'
<1>1. PICK y : y = [pc |-> "flush", call |-> "reset", q |-> q, job |-> NoJob]
  OBVIOUS
<1>2. y.pc = "flush" /\ y.job = NoJob /\ y.q = q
  BY <1>1, Zenon
<1>3. /\ th' = [th EXCEPT ![t] = y] /\ wk' = wk /\ ResetDiscard(q, pq[q])
      /\ th[t].pc = "idle" /\ th[t].q = "none"
  BY <1>1, EmptyHanded DEF ProcessReset
<1> QED
  BY <1>2, <1>3, DiscardPlaces

LEMMA DestroyResetPlaces ==
    ASSUME IInv, IInv', Places, NEW t \in Threads, DestroyReset(t)
    PROVE  Places'
<1>1. PICK q \in Queues : q = th[t].q /\ th[t].pc = "destroy"
  BY InsideQueue DEF DestroyReset
<1>2. PICK y : y = [th[t] EXCEPT !.pc = "flush"]
  OBVIOUS
<1>3. y.pc = "flush" /\ y.job = NoJob /\ y.q = q
  BY <1>1, <1>2, EmptyHanded, Zenon DEF ThreadType
<1>4. th' = [th EXCEPT ![t] = y] /\ wk' = wk /\ ResetDiscard(q, pq[q])
  BY <1>1, <1>2, Zenon DEF DestroyReset
<1> QED
  BY <1>1, <1>3, <1>4, DiscardPlaces

\* The second half: no job of the queue is left when its numbers start again.
LEMMA ResetEndPlaces ==
    ASSUME IInv, IInv', Places, NEW t \in Threads, ResetEnd(t)
    PROVE  Places'
<1>1. PICK q \in Queues : q = th[t].q /\ th[t].pc = "resetEnd"
  BY InsideQueue DEF ResetEnd
<1>2. pq[q] \in QueueType /\ th[t] \in ThreadType /\ th[t].call \in {"reset", "destroy"}
  BY <1>1, InsideQueue DEF ThreadInv
<1>3. /\ \A u \in Threads \ {t} : th[u].q = q =>
            th[u].call \notin {"dispatch", "flush", "reset", "destroy"}
      /\ pq[q].input = <<>> /\ pq[q].nProcessing = 0
  BY <1>1, <1>2, InReset
<1>4. Running(q) = {}
  <2>1. Cardinality(Running(q)) = 0 /\ IsFiniteSet(Running(q))
    BY <1>3, RunningFinite DEF IInv
  <2> QED
    BY <2>1, FS_EmptySet
<1>5. Blocked(q) = {}
  <2>1. \A u \in Threads : th[u].pc = "notFull" => th[u].call = "dispatch"
    BY DEF IInv, ThreadInv
  <2> QED
    BY <1>1, <1>3, <2>1 DEF Blocked
<1>6. PICK y : y = IF th[t].call = "reset" THEN Idle ELSE [th[t] EXCEPT !.pc = "destroyEnd"]
  OBVIOUS
<1>7. y.pc # "notFull" /\ y.job = NoJob /\ y.q \in {q, "none"}
  <2>1. CASE th[t].call = "reset"
    BY <1>6, <2>1, EmptyHanded
  <2>2. CASE th[t].call # "reset"
    <3>1. y = [th[t] EXCEPT !.pc = "destroyEnd"]
      BY <1>6, <2>2
    <3>2. y.pc = "destroyEnd" /\ y.job = NoJob /\ y.q = q
      BY <1>1, <3>1, EmptyHanded, Zenon DEF ThreadType
    <3> QED
      BY <3>2
  <2> QED
    BY <2>1, <2>2
<1>8. /\ th' = [th EXCEPT ![t] = y] /\ pq' = [pq EXCEPT ![q] = Restarted(pq[q])] /\ wk' = wk
      /\ settled' = [settled EXCEPT ![q] = @ \cup OutputIds(pq[q])]
  BY <1>1, <1>6, Zenon DEF ResetEnd, OutputIds
<1>9. /\ pq'[q] = Restarted(pq[q]) /\ settled'[q] = settled[q] \cup OutputIds(pq[q])
      /\ \A p \in Queues : p # q => pq'[p] = pq[p] /\ settled'[p] = settled[p]
  BY <1>8 DEF IInv, TypeOK
<1>10. /\ pq'[q].input = <<>> /\ pq'[q].output = {} /\ pq'[q].calls = pq[q].calls
       /\ pq'[q].next = 0 /\ pq'[q].curr = 0
  BY <1>2, <1>3, <1>9, ResetLists
<1>11. Owned(q) /\ OnceBlocked(q)
  BY DEF Places, OwnInv, Owned
<1>12. BlockedIds(q)' = BlockedIds(q) /\ OnceBlocked(q)' /\ Blocked(q)' = Blocked(q)
  BY <1>1, <1>7, <1>8, <1>11, BlockedStays
<1>13. Owned(q)'
  <2>1. InputIds(pq[q]) = {}
    <3>1. DOMAIN pq[q].input = {}
      BY <1>3
    <3> QED
      BY <3>1 DEF InputIds
  <2>2. settled'[q] = settled[q] \cup InputIds(pq[q]) \cup OutputIds(pq[q])
    BY <1>9, <2>1
  <2> QED
    BY <1>8, <1>10, <1>11, <1>12, <2>2, DiscardMoves
<1>14. Turn(q)'
  <2>1. Running(q)' = {} /\ Blocked(q)' = {} /\ DOMAIN pq'[q].input = {} /\ pq'[q].output = {}
    BY <1>4, <1>5, <1>8, <1>10, <1>12, SameWorkers
  <2>2. pq'[q].next <= pq'[q].curr
    BY <1>10
  <2> QED
    BY <2>1, <2>2 DEF Turn
<1>15. \A p \in Queues : p # q => Undisturbed(p)
  <2>1. \A p \in Queues : p # q => SameLists(pq[p], pq'[p])
    BY <1>9 DEF SameLists
  <2> QED
    BY <1>1, <1>7, <1>8, <1>9, <2>1, ClientElsewhere
<1>16. ThreadHand(y)
  BY <1>7 DEF ThreadHand
<1> QED
  BY <1>8, <1>13, <1>14, <1>15, <1>16, ClientPlaces
----------------------------------------------------------------------------
(* Owners and turns: the theorems.                                         *)

LEMMA PlacesStart == Init => Places
<1> SUFFICES ASSUME Init PROVE Places
  OBVIOUS
<1>1. IInv
  BY InitOK
<1>2. (\A w \in Workers : wk[w].pc = "scan" /\ wk[w].job = NoJob) /\ \A t \in Threads : th[t] = Idle
  BY Zenon DEF Init
<1>3. Idle.pc = "idle" /\ Idle.job = NoJob
  BY Zenon DEF Idle
<1>4. SUFFICES ASSUME NEW q \in Queues PROVE Owned(q) /\ Turn(q)
  BY <1>2, <1>3 DEF Places, OwnInv, TurnInv, WorkerHand, ThreadHand
<1>5. Blocked(q) = {} /\ Busy(q) = {} /\ Running(q) = {}
  BY <1>2, <1>3 DEF Blocked, Busy, Running
<1>6. pq[q] = Unborn(q) /\ settled[q] = {}
  BY DEF Init
<1>7. NewQueue(q) \in QueueType
  BY NewQueueOK
<1>8. /\ NewQueue(q).input = <<>> /\ NewQueue(q).output = {} /\ NewQueue(q).calls = 0
      /\ NewQueue(q).next = 0 /\ NewQueue(q).curr = 0
  BY Zenon DEF NewQueue
<1>9. SameLists(NewQueue(q), Unborn(q))
  BY <1>7, Zenon DEF SameLists, Unborn, QueueType
<1>10. /\ pq[q].input = <<>> /\ pq[q].output = {} /\ pq[q].calls = 0
       /\ pq[q].next = 0 /\ pq[q].curr = 0
  BY <1>6, <1>8, <1>9 DEF SameLists
<1>11. DOMAIN pq[q].input = {} /\ 1 .. 0 = {}
  BY <1>10
<1>12. BlockedIds(q) = {} /\ BusyIds(q) = {} /\ InputIds(pq[q]) = {} /\ OutputIds(pq[q]) = {}
  BY <1>5, <1>10, <1>11 DEF BlockedIds, BusyIds, InputIds, OutputIds
<1>13. Owned(q)
  <2>1. OnceBlocked(q) /\ OnceBusy(q) /\ OnceInInput(pq[q].input)
    BY <1>5, <1>11 DEF OnceBlocked, OnceBusy, OnceInInput
  <2>2. Divided(0, {}, {}, {}, {}, {})
    BY <1>11 DEF Divided
  <2> QED
    BY <1>6, <1>10, <1>12, <2>1, <2>2 DEF Owned
<1>14. Turn(q)
  <2>1. pq[q].next <= pq[q].curr
    BY <1>10
  <2> QED
    BY <1>5, <1>10, <1>11, <2>1 DEF Turn
<1> QED
  BY <1>13, <1>14

LEMMA PlacesNext == IInv /\ Places /\ [Next]_vars => Places'
<1> SUFFICES ASSUME IInv, Places, [Next]_vars PROVE Places'
  OBVIOUS
<1>a. IInv'
  BY NextOK
<1>b. ASSUME UNCHANGED <<pq, wk, th, settled>> PROVE Places'
  BY <1>b, QuietPlaces DEF SameLists
<1>1. CASE UNCHANGED vars
  BY <1>1, <1>b DEF vars
<1>2. ASSUME NEW w \in Workers, WorkerNext(w) PROVE Places'
  BY <1>a, <1>2, LoopPlaces, AddResultPlaces, ErrPlaces DEF WorkerNext
<1>3. ASSUME NEW t \in Threads, ThreadStep(t) PROVE Places'
  BY <1>a, <1>3, DispatchWakePlaces, NextResultWakePlaces, FlushPlaces, ResetEndPlaces,
     DestroyResetPlaces, DestroyEndPlaces DEF ThreadStep
<1>4. ASSUME NEW t \in Dispatchers, NEW q \in Queues, DispatcherCall(t, q) PROVE Places'
  <2>1. t \in Threads
    BY DEF Threads
  <2> QED
    BY <1>a, <1>4, <2>1, DispatchPlaces, BeginPlaces, ResetPlaces DEF DispatcherCall
<1>5. ASSUME NEW t \in Consumers, NEW q \in Queues, ConsumerCall(t, q) PROVE Places'
  <2>1. t \in Threads
    BY DEF Threads
  <2> QED
    BY <1>a, <1>5, <2>1, InitPlaces, NextResultPlaces, FlagsPlaces, BeginPlaces DEF ConsumerCall
<1>6. ASSUME NEW t \in Consumers, PoolDestroy(t) PROVE Places'
  BY <1>6, <1>b DEF PoolDestroy
<1>7. ASSUME NEW x \in Workers \cup Threads, SpuriousWake(x) PROVE Places'
  BY <1>7, <1>b DEF SpuriousWake
<1> QED
  BY <1>1, <1>2, <1>3, <1>4, <1>5, <1>6, <1>7 DEF Next

\* In every reachable state the ids drawn for a queue are divided among their
\* owners, and no job's turn has passed.
THEOREM Placement == Spec => []Places
BY PlacesStart, PlacesNext, Invariance, PTL DEF Spec

\* A set with at most one element, and its cardinality.
LEMMA AtMostOne ==
    ASSUME NEW X, \A x, y \in X : x = y
    PROVE  Cardinality(X) = IF X = {} THEN 0 ELSE 1
<1>1. CASE X = {}
  BY <1>1, FS_EmptySet
<1>2. ASSUME NEW x \in X PROVE Cardinality(X) = 1
  <2>1. X = {x}
    OBVIOUS
  <2> QED
    BY <2>1, FS_Singleton
<1> QED
  BY <1>1, <1>2

\* Every payload that was dispatched has exactly one owner, for any number of
\* workers, queues and clients: nothing the client sent is lost or handed back
\* twice, through blocked dispatches, failed results, resets and destroys.
THEOREM PayloadsOwnedOnce == Spec => []OneOwner
<1>1. ASSUME IInv, Places, NEW q \in Queues, NEW id \in 1 .. pq[q].calls
      PROVE  OwnersOf(q, id) = 1
  <2>1. /\ Owned(q) /\ pq[q] \in QueueType /\ QueueInv(pq[q]) /\ pq[q].calls \in 0 .. MaxCalls
        /\ Divided(pq[q].calls, BlockedIds(q), InputIds(pq[q]), BusyIds(q), OutputIds(pq[q]), settled[q])
        /\ OnceBlocked(q) /\ OnceBusy(q) /\ OnceInInput(pq[q].input)
    BY <1>1, OpenQueue, FieldTypes DEF Places, OwnInv, Owned
  <2>2. id # 0 /\ NoJob.id = 0
    BY <2>1, <1>1, BoundAssumption DEF NoJob
  <2> DEFINE T == {t \in Threads : th[t].q = q /\ th[t].job.id = id}
             I == {i \in DOMAIN pq[q].input : pq[q].input[i].id = id}
             W == {w \in Workers : wk[w].q = q /\ wk[w].job.id = id}
             O == {r \in pq[q].output : r.id = id}
  <2>3. Cardinality(T) = IF id \in BlockedIds(q) THEN 1 ELSE 0
    <3>1. \A t \in T : t \in Blocked(q)
      BY <1>1, <2>2 DEF Places, OwnInv, ThreadHand, Blocked
    <3>2. \A t, u \in T : t = u
      BY <2>1, <3>1 DEF OnceBlocked
    <3>3. T = {} <=> id \notin BlockedIds(q)
      BY <3>1 DEF BlockedIds, Blocked
    <3> QED
      BY <3>2, <3>3, AtMostOne
  <2>4. Cardinality(I) = IF id \in InputIds(pq[q]) THEN 1 ELSE 0
    <3>1. \A i, k \in I : i = k
      BY <2>1 DEF OnceInInput
    <3>2. I = {} <=> id \notin InputIds(pq[q])
      BY DEF InputIds
    <3> QED
      BY <3>1, <3>2, AtMostOne
  <2>5. Cardinality(W) = IF id \in BusyIds(q) THEN 1 ELSE 0
    <3>1. \A w \in W : w \in Busy(q)
      BY <2>2 DEF Busy
    <3>2. \A v, w \in W : v = w
      BY <2>1, <3>1 DEF OnceBusy
    <3>3. W = {} <=> id \notin BusyIds(q)
      BY <3>1 DEF BusyIds, Busy
    <3> QED
      BY <3>2, <3>3, AtMostOne
  <2>6. Cardinality(O) = IF id \in OutputIds(pq[q]) THEN 1 ELSE 0
    <3>1. \A r, s \in O : r = s
      BY <2>1, OutputOnce
    <3>2. O = {} <=> id \notin OutputIds(pq[q])
      BY DEF OutputIds
    <3> QED
      BY <3>1, <3>2, AtMostOne
  <2>7. OwnersOf(q, id) = Cardinality(T) + Cardinality(I) + Cardinality(W) + Cardinality(O)
                          + (IF id \in settled[q] THEN 1 ELSE 0)
    BY DEF OwnersOf
  <2> HIDE DEF T, I, W, O
  <2>8. id \in 1 .. pq[q].calls
    BY <1>1
  <2>9. \/ /\ id \in BlockedIds(q) /\ id \notin InputIds(pq[q]) /\ id \notin BusyIds(q)
           /\ id \notin OutputIds(pq[q]) /\ id \notin settled[q]
        \/ /\ id \notin BlockedIds(q) /\ id \in InputIds(pq[q]) /\ id \notin BusyIds(q)
           /\ id \notin OutputIds(pq[q]) /\ id \notin settled[q]
        \/ /\ id \notin BlockedIds(q) /\ id \notin InputIds(pq[q]) /\ id \in BusyIds(q)
           /\ id \notin OutputIds(pq[q]) /\ id \notin settled[q]
        \/ /\ id \notin BlockedIds(q) /\ id \notin InputIds(pq[q]) /\ id \notin BusyIds(q)
           /\ id \in OutputIds(pq[q]) /\ id \notin settled[q]
        \/ /\ id \notin BlockedIds(q) /\ id \notin InputIds(pq[q]) /\ id \notin BusyIds(q)
           /\ id \notin OutputIds(pq[q]) /\ id \in settled[q]
    BY <2>1, <2>8 DEF Divided
  <2> QED
    BY <2>3, <2>4, <2>5, <2>6, <2>7, <2>9
<1>2. IInv /\ Places => OneOwner
  BY <1>1 DEF OneOwner
<1> QED
  BY <1>2, Invariance, Placement, PTL

\* The assertions of sa_tpool_add_result and wake_next_worker hold wherever
\* they can be reached: no result comes after its turn, not even one that was
\* in progress when the queue was reset, and a queue that is up is attached.
THEOREM AssertionsTrue == Spec => []AssertionsHold
<1>1. ASSUME IInv, LifeInv, Places PROVE AssertionsHold
  <2>1. ASSUME NEW w \in Workers, wk[w].pc = "run"
        PROVE  wk[w].job.serial >= pq[wk[w].q].next \/ pq[wk[w].q].next = IntMax
    <3>1. PICK q \in Queues : q = wk[w].q /\ w \in Running(q)
      BY <1>1, <2>1 DEF IInv, WorkerInv, Running
    <3> QED
      BY <1>1, <3>1 DEF Places, TurnInv, Turn, Ahead
  <2>2. \A q \in Queues : Live(q) /\ pq[q].shut = 0 => Attached(ring, q)
    BY <1>1, UpAttached DEF Live
  <2> QED
    BY <2>1, <2>2 DEF AssertionsHold
<1> QED
  BY <1>1, Invariance, Lifetime, Placement, PTL
============================================================================
