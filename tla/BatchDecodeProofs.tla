-------------------------- MODULE BatchDecodeProofs --------------------------
(***************************************************************************)
(* Proofs about the batch decoder, for every number of workers, decoders,  *)
(* frames and calls: decoders are not shared, a call that succeeds has the *)
(* right outputs, and a call that fails reports its first bad frame.       *)
(***************************************************************************)
EXTENDS BatchDecode, FiniteSetTheorems, SequenceTheorems, WellFoundedInduction,
        NaturalsInduction, TLAPS

----------------------------------------------------------------------------
(* The inductive invariant.                                                *)

Active == call.pc \in {"dispatch", "collect"}

\* The serial number of the first job of the call, while the call has jobs to
\* dispatch or to collect.
Base == IF call.pc = "dispatch" THEN nextSer - (call.i - 1)
        ELSE IF call.pc = "collect" THEN nextSer - call.count ELSE nextSer

\* The last batch that nothing is dispatched from any more.
Last == IF Active THEN call.batch - 1 ELSE call.batch

CallInv ==
    /\ Active \/ call.pc = "return" =>
          call.batch \in 1..MaxBatches /\ call.count \in 1..MaxCount /\ call.i \in 1..call.count
    /\ Base \in Nat
    /\ curSer <= IF call.pc = "collect" THEN Base + call.i - 1 ELSE Base

\* The jobs that a worker has.
Taken == {[job |-> work[w].job, ser |-> work[w].ser] : w \in Busy}

\* The jobs on their way, from dispatch to collection.
Items == {input[m] : m \in DOMAIN input} \cup Taken \cup output

\* Serial numbers follow the order of dispatch and are used once.
SerInv ==
    /\ curSer <= nextSer - Len(input)
    /\ \A m \in DOMAIN input : input[m].ser = nextSer - Len(input) + m - 1
    /\ \A w \in Busy : curSer <= work[w].ser /\ work[w].ser < nextSer - Len(input)
    /\ \A r \in output : curSer <= r.ser /\ r.ser < nextSer - Len(input)
    /\ \A v, w \in Busy : v # w => work[v].ser # work[w].ser
    /\ \A w \in Busy, r \in output : work[w].ser # r.ser
    /\ \A r, s \in output : r.ser = s.ser => r = s

\* A job of the current call carries the frame of its serial number; the
\* others are left over from earlier calls.
JobInv == \A x \in Items :
    /\ x.ser >= Base => x.job = JobOf(call, x.ser - Base + 1)
    /\ x.ser < Base => x.job = Single \/ (x.job \in Frames /\ x.job[1] <= Last)
    /\ mem[x.job].frame # None

\* What the job structures hold.
MemInv ==
    /\ \A j \in Frames :
          /\ mem[j].frame \in {None, j}
          /\ mem[j].frame # None =>
                j[1] <= call.batch /\ (call.pc = "dispatch" /\ j[1] = call.batch => j[2] < call.i)
          /\ mem[j].frame # None /\ j \in bad => mem[j].err # 0
    /\ LET f == mem[Single].frame IN
       f # None => /\ f \in Frames /\ f[2] = 1 /\ f[1] <= call.batch
                   /\ f[1] = call.batch => call.count = 1 /\ call.pc # "dispatch"
                   /\ mem[f].frame = None
    /\ call.pc = "collect" /\ call.count = 1 => mem[Single].frame = <<call.batch, 1>>
    /\ \A j \in Jobs : mem[j].err # 0 => mem[j].frame \in bad /\ mem[j].err = mem[j].frame[2]

\* No frame failed before it was dispatched, and no frame that was collected.
BadInv ==
    /\ \A f \in bad : /\ f[1] <= call.batch
                      /\ call.pc = "dispatch" /\ f[1] = call.batch => f[2] < call.i
    /\ call.pc = "collect" => \A k \in 1..(curSer - Base) : <<call.batch, k>> \notin bad

\* A call that returns the error of its own frame returns the first one.
Reported == call.pc = "return" /\ call.err \in Indices /\ got[call.i] = <<call.batch, call.i>>

RetInv == Reported =>
    /\ call.err = call.i /\ <<call.batch, call.i>> \in bad
    /\ \A k \in 1..(call.i - 1) :
          /\ <<call.batch, k>> \notin bad
          /\ \A x \in Items : x.job # <<call.batch, k>>

\* The jobs that a decoder has seen.
Done == {[job |-> work[w].job, ser |-> work[w].ser] :
            w \in {v \in Workers : work[v].pc \in {"release", "post"}}} \cup output

Right(k) == got[k] = <<call.batch, k>> /\ out[k] = <<call.batch, k>>

\* Until a call fails nothing is left over, and outputs are filled in time.
FreshInv == ~failed =>
    /\ curSer = IF call.pc = "collect" THEN Base + call.i - 1 ELSE Base
    /\ call.pc = "collect" => \A k \in 1..(call.i - 1) : Right(k)
    /\ call.pc = "return" => call.err = 0 /\ \A k \in 1..call.count : Right(k)
    /\ \A x \in Done : mem[x.job].err = 0 => out[mem[x.job].frame[2]] = mem[x.job].frame

AliveInv == Active => JobsOf(call) \subseteq alive

\* A decoder is available or with one worker.
DecInv ==
    /\ availCount = Cardinality(avail)
    /\ \A w \in Workers : IF work[w].pc \in {"decode", "release"}
                          THEN work[w].dec \in Decoders \ avail ELSE work[w].dec = None
    /\ \A v, w \in Workers : v # w /\ work[v].dec # None => work[v].dec # work[w].dec
    /\ \A w \in Workers : IF work[w].pc = "idle" THEN work[w].job = None
                          ELSE work[w].job \in Jobs

IInv ==
    /\ TypeOK /\ IsFiniteSet(output) /\ CallInv /\ SerInv /\ JobInv /\ MemInv /\ BadInv
    /\ RetInv /\ FreshInv /\ AliveInv /\ DecInv

----------------------------------------------------------------------------
(* Frames, jobs and the serial numbers of a call.                          *)

\* A frame is a pair, and no frame is the job allocated with the decoder.
LEMMA FrameIs ==
    /\ \A f \in Frames : f = <<f[1], f[2]>> /\ f[1] \in 1..MaxBatches /\ f[2] \in Indices
    /\ \A b \in 1..MaxBatches, k \in Indices :
          <<b, k>> \in Frames /\ <<b, k>>[1] = b /\ <<b, k>>[2] = k
    /\ Single \notin Frames /\ None \notin Frames /\ None # Single
    /\ Indices \subseteq Nat \ {0} /\ MaxCount \in Nat /\ MaxBatches \in Nat /\ QSize \in Nat
<1>1. MaxCount \in Nat /\ MaxBatches \in Nat /\ QSize \in Nat
  BY ConstantsAssumption
<1>2. Single \notin Frames
  BY <1>1 DEF Single, Frames
<1> QED
  BY <1>1, <1>2, ConstantsAssumption DEF Frames, Indices, Jobs

\* The least element of a set of numbers.
LEMMA MinIs ==
    ASSUME NEW B \in SUBSET Nat, NEW b \in B
    PROVE  Min(B) \in B /\ \A y \in B : Min(B) <= y
<1> DEFINE R == OpToRel(<, Nat)
<1>1. IsWellFoundedOn(R, Nat)
  BY NatLessThanWellFounded
<1>2. \A x, y \in Nat : x < y => <<x, y>> \in R
  BY DEF OpToRel
<1> HIDE DEF R
<1>3. \E x \in B : \A y \in B : ~(<<y, x>> \in R)
  BY <1>1, WFMin
<1>4. \E x \in B : \A y \in B : x <= y
  <2>1. PICK x \in B : \A y \in B : ~(<<y, x>> \in R)
    BY <1>3
  <2>2. \A y \in B : ~(y < x)
    BY <2>1, <1>2
  <2>3. \A y \in B : x <= y
    BY <2>2
  <2> QED
    BY <2>3
<1> QED
  BY <1>4 DEF Min

\* The jobs on their way are records with a serial number of this decoder.
LEMMA ItemsAre ==
    ASSUME IInv
    PROVE  /\ Items \subseteq Item /\ Done \subseteq Items /\ Taken \subseteq Item
           /\ \A x \in Items : x.ser \in Nat /\ curSer <= x.ser /\ x.ser < nextSer
                               /\ x.job \in Jobs
           /\ \A w \in Busy : /\ [job |-> work[w].job, ser |-> work[w].ser] \in Items
                              /\ work[w].job \in Jobs /\ work[w].ser \in Nat
<1>0. /\ input \in Seq(Item) /\ output \subseteq Item /\ work \in [Workers -> WorkState]
      /\ nextSer \in Nat /\ curSer \in Nat /\ SerInv /\ DecInv
  BY DEF IInv, TypeOK
<1>1. Len(input) \in Nat /\ DOMAIN input = 1..Len(input) /\ \A m \in DOMAIN input : input[m] \in Item
  BY <1>0
<1>2. \A w \in Busy : /\ work[w].job \in Jobs /\ work[w].ser \in Nat /\ w \in Workers
                      /\ [job |-> work[w].job, ser |-> work[w].ser] \in Item
  BY <1>0 DEF Busy, WorkState, DecInv, Item
<1>3. Taken \subseteq Item
  BY <1>2 DEF Taken
<1>4. Items \subseteq Item
  BY <1>0, <1>1, <1>3 DEF Items
<1>5. Done \subseteq Items
  BY DEF Done, Items, Taken, Busy
<1>6. \A w \in Busy : [job |-> work[w].job, ser |-> work[w].ser] \in Items
  BY DEF Items, Taken
<1>7. ASSUME NEW x \in Items PROVE curSer <= x.ser /\ x.ser < nextSer
  <2>1. CASE \E m \in DOMAIN input : x = input[m]
    <3>1. PICK m \in 1..Len(input) : x = input[m]
      BY <2>1, <1>1
    <3>2. x.ser = nextSer - Len(input) + m - 1 /\ curSer <= nextSer - Len(input)
      BY <3>1, <1>0, <1>1 DEF SerInv
    <3> QED
      BY <3>2, <1>0, <1>1
  <2>2. CASE x \in Taken
    <3>1. PICK w \in Busy : x = [job |-> work[w].job, ser |-> work[w].ser]
      BY <2>2 DEF Taken
    <3>2. curSer <= work[w].ser /\ work[w].ser < nextSer - Len(input) /\ x.ser = work[w].ser
      BY <3>1, <1>0 DEF SerInv
    <3>3. work[w].ser \in Nat /\ Len(input) \in Nat /\ nextSer \in Nat /\ curSer \in Nat
      BY <1>0, <1>1, <1>2
    <3> QED
      BY <3>2, <3>3
  <2>3. CASE x \in output
    <3>1. curSer <= x.ser /\ x.ser < nextSer - Len(input) /\ x.ser \in Nat
      BY <2>3, <1>0 DEF SerInv, Item
    <3> QED
      BY <3>1, <1>0, <1>1
  <2> QED
    BY <2>1, <2>2, <2>3 DEF Items
<1>8. \A x \in Items : x.ser \in Nat /\ x.job \in Jobs
  BY <1>4 DEF Item
<1> QED
  BY <1>2, <1>3, <1>4, <1>5, <1>6, <1>7, <1>8

\* What the caller's record holds.
LEMMA CallIs ==
    ASSUME IInv
    PROVE  /\ call.batch \in Nat /\ call.count \in Nat /\ call.i \in Nat \ {0} /\ call.err \in Nat
           /\ nextSer \in Nat /\ curSer \in Nat /\ Base \in Nat /\ Last \in Int
           /\ Active \/ call.pc = "return" =>
                call.batch \in 1..MaxBatches /\ call.count \in 1..MaxCount
                /\ call.i \in 1..call.count /\ call.i \in Indices
           /\ call.pc = "dispatch" => nextSer = Base + call.i - 1
           /\ call.pc = "collect" => nextSer = Base + call.count
           /\ ~Active => Base = nextSer /\ Last = call.batch
           /\ Active => Last = call.batch - 1
<1>1. call \in CallState /\ nextSer \in Nat /\ curSer \in Nat /\ CallInv
  BY DEF IInv, TypeOK
<1>2. /\ call.batch \in Nat /\ call.count \in Nat /\ call.i \in Nat \ {0} /\ call.err \in Nat
  BY <1>1, FrameIs DEF CallState
<1>3. Last \in Int
  BY <1>2 DEF Last
<1>4. Active \/ call.pc = "return" =>
        call.batch \in 1..MaxBatches /\ call.count \in 1..MaxCount
        /\ call.i \in 1..call.count /\ call.i \in Indices
  BY <1>1, <1>2, FrameIs DEF CallInv, Indices
<1>5. /\ call.pc = "dispatch" => nextSer = Base + call.i - 1
      /\ call.pc = "collect" => nextSer = Base + call.count
  BY <1>1, <1>2 DEF Base
<1>6. /\ ~Active => Base = nextSer /\ Last = call.batch
      /\ Active => Last = call.batch - 1
  BY DEF Base, Last, Active
<1> QED
  BY <1>1, <1>2, <1>3, <1>4, <1>5, <1>6 DEF CallInv

\* A job that carries a frame of the current call was dispatched by it, and
\* its serial number is that of the frame.
LEMMA CurrentJob ==
    ASSUME IInv, Active, NEW x \in Items, NEW k \in Indices, mem[x.job].frame = <<call.batch, k>>
    PROVE  /\ k = 1 \/ call.count # 1
           /\ call.count # 1 => x.ser = Base + k - 1 /\ x.job = <<call.batch, k>>
           /\ call.count = 1 => x.job = Single
<1>0. JobInv /\ MemInv /\ call.batch \in 1..MaxBatches /\ Base \in Nat /\ Last = call.batch - 1
      /\ call.batch \in Nat
  BY CallIs DEF IInv
<1>1. x.job \in Jobs /\ x.ser \in Nat /\ x.ser < nextSer
  BY ItemsAre
<1>2. <<call.batch, k>> \in Frames /\ <<call.batch, k>>[1] = call.batch /\ <<call.batch, k>>[2] = k
  BY <1>0, FrameIs
<1>3. CASE x.job = Single
  <2>1. call.count = 1 /\ k = 1
    BY <1>2, <1>3, <1>0, FrameIs DEF MemInv
  <2> QED
    BY <2>1, <1>3
<1>4. CASE x.job \in Frames
  <2>1. x.job = <<call.batch, k>> /\ x.job[1] = call.batch
    BY <1>2, <1>4, <1>0, FrameIs DEF MemInv
  <2>2. ~(x.job[1] <= Last)
    BY <2>1, <1>0
  <2>3. x.ser >= Base /\ x.job = JobOf(call, x.ser - Base + 1)
    BY <2>2, <1>0, <1>1, <1>4, FrameIs DEF JobInv
  <2>4. call.count # 1 /\ <<call.batch, x.ser - Base + 1>> = <<call.batch, k>>
    BY <2>1, <2>3, <1>4, FrameIs DEF JobOf
  <2>5. x.ser - Base + 1 = k
    BY <2>4
  <2>6. x.ser = Base + k - 1
    BY <2>5, <1>0, <1>1
  <2> QED
    BY <2>1, <2>4, <2>6
<1> QED
  BY <1>1, <1>3, <1>4 DEF Jobs

----------------------------------------------------------------------------
(* Steps that leave the call alone.                                        *)

\* No job is added, no frame decoded, and the call stays where it is or goes
\* from one state without jobs to another.
LEMMA CallFrame ==
    ASSUME IInv, nextSer' = nextSer, curSer' = curSer, mem' = mem, bad' = bad, got' = got,
           out' = out, failed' = failed,
           Items' \subseteq Items, Done' \subseteq Done,
           \/ call' = call /\ alive' = alive
           \/ /\ ~Active /\ call'.pc \notin {"dispatch", "collect", "return"}
              /\ call'.batch = call.batch /\ call'.count = call.count /\ call'.i = call.i
    PROVE  CallInv' /\ JobInv' /\ MemInv' /\ BadInv' /\ RetInv' /\ FreshInv' /\ AliveInv'
<1>0. CallInv /\ JobInv /\ MemInv /\ BadInv /\ RetInv /\ FreshInv /\ AliveInv
  BY DEF IInv
<1>1. CASE call' = call /\ alive' = alive
  <2> USE <1>1
  <2>1. Base' = Base /\ Last' = Last /\ (Active' <=> Active)
    BY DEF Base, Last, Active
  <2>2. CallInv' /\ AliveInv'
    BY <2>1, <1>0 DEF CallInv, AliveInv
  <2>3. \A k : JobOf(call, k)' = JobOf(call, k)
    BY DEF JobOf
  <2>4. JobInv'
    BY <2>1, <2>3, <1>0 DEF JobInv, JobOf
  <2>5. MemInv'
    BY <1>0 DEF MemInv
  <2>6. BadInv'
    BY <2>1, <1>0 DEF BadInv
  <2>7. RetInv'
    BY <1>0 DEF RetInv, Reported
  <2>8. FreshInv'
    BY <2>1, <1>0 DEF FreshInv, Right
  <2> QED
    BY <2>2, <2>4, <2>5, <2>6, <2>7, <2>8
<1>2. CASE /\ ~Active /\ call'.pc \notin {"dispatch", "collect", "return"}
           /\ call'.batch = call.batch /\ call'.count = call.count /\ call'.i = call.i
  <2> USE <1>2
  <2>1. /\ Base' = Base /\ Last' = Last /\ ~Active'
        /\ call.pc # "dispatch" /\ call.pc # "collect"
    BY DEF Base, Last, Active
  <2>2. CallInv' /\ AliveInv'
    BY <2>1, <1>0 DEF CallInv, AliveInv, Active
  <2>4. JobInv'
    BY <2>1, <1>0 DEF JobInv, JobOf
  <2>5. MemInv'
    BY <2>1, <1>0 DEF MemInv
  <2>6. BadInv'
    BY <2>1, <1>0 DEF BadInv
  <2>7. RetInv'
    BY <1>0 DEF RetInv, Reported
  <2>8. FreshInv'
    BY <2>1, <1>0 DEF FreshInv, Right
  <2> QED
    BY <2>2, <2>4, <2>5, <2>6, <2>7, <2>8
<1> QED
  BY <1>1, <1>2

\* The caller is between calls or destroys the decoder.
LEMMA BetweenCallsOK ==
    ASSUME IInv, Return \/ Destroy
    PROVE  IInv'
<1>a. TypeOK /\ call \in CallState
  BY DEF IInv, TypeOK
<1>1. /\ mem' = mem /\ input' = input /\ output' = output /\ nextSer' = nextSer /\ curSer' = curSer
      /\ work' = work /\ avail' = avail /\ availCount' = availCount /\ out' = out /\ got' = got
      /\ bad' = bad /\ failed' = failed /\ alive' \subseteq alive
  BY DEF Return, Destroy
<1>2. /\ ~Active /\ call' \in CallState /\ call'.pc \notin {"dispatch", "collect", "return"}
      /\ call'.batch = call.batch /\ call'.count = call.count /\ call'.i = call.i
  BY <1>a DEF Return, Destroy, Active, CallState
<1>3. Items' = Items /\ Done' = Done /\ Busy' = Busy
  BY <1>1 DEF Items, Done, Taken, Busy
<1>4. TypeOK' /\ IsFiniteSet(output')
  BY <1>1, <1>2, <1>3, <1>a DEF IInv, TypeOK
<1>5. SerInv' /\ DecInv'
  BY <1>1, <1>3 DEF IInv, SerInv, DecInv
<1>6. CallInv' /\ JobInv' /\ MemInv' /\ BadInv' /\ RetInv' /\ FreshInv' /\ AliveInv'
  BY <1>1, <1>2, <1>3, CallFrame
<1> QED
  BY <1>4, <1>5, <1>6 DEF IInv

\* The busy workers and the results are finitely many.
LEMMA FiniteSets ==
    ASSUME IInv
    PROVE  /\ IsFiniteSet(Busy) /\ IsFiniteSet(Busy') /\ IsFiniteSet(output)
           /\ Cardinality(Busy) \in Nat /\ Cardinality(Busy') \in Nat /\ Cardinality(output) \in Nat
           /\ Cardinality(output) + Cardinality(Busy) <= QSize
<1>1. Busy \in SUBSET Workers /\ Busy' \in SUBSET Workers
  BY DEF Busy
<1>2. IsFiniteSet(output) /\ Cardinality(output) + Cardinality(Busy) <= QSize
  BY DEF IInv, TypeOK
<1> QED
  BY <1>1, <1>2, ConstantsAssumption, FS_Subset, FS_CardinalityType

\* The queue is destroyed: what waits is discarded.
LEMMA DiscardOK ==
    ASSUME IInv, Discard
    PROVE  IInv'
<1>a. TypeOK /\ call \in CallState /\ SerInv /\ nextSer \in Nat /\ curSer \in Nat /\ input \in Seq(Item)
      /\ work \in [Workers -> WorkState]
  BY DEF IInv, TypeOK
<1>1. /\ mem' = mem /\ input' = <<>> /\ output' = {} /\ nextSer' = nextSer /\ curSer' = curSer
      /\ work' = work /\ avail' = avail /\ availCount' = availCount /\ out' = out /\ got' = got
      /\ bad' = bad /\ failed' = failed /\ alive' = alive
  BY DEF Discard
<1>2. /\ ~Active /\ call' \in CallState /\ call'.pc \notin {"dispatch", "collect", "return"}
      /\ call'.batch = call.batch /\ call'.count = call.count /\ call'.i = call.i
  BY <1>a DEF Discard, Active, CallState
<1>b. input' \in Seq(Item) /\ Len(input') = 0 /\ DOMAIN input' = {}
  <2>1. <<>> \in Seq(Item)
    OBVIOUS
  <2>2. Len(<<>>) = 0 /\ DOMAIN <<>> = {}
    OBVIOUS
  <2> QED
    BY <2>1, <2>2, <1>1
<1>3. Items' \subseteq Items /\ Done' \subseteq Done /\ Busy' = Busy
  BY <1>1, <1>b DEF Items, Done, Taken, Busy
<1>4. TypeOK' /\ IsFiniteSet(output')
  <2>1. IsFiniteSet(output') /\ Cardinality(output') = 0
    BY <1>1, FS_EmptySet
  <2>2. Cardinality(output') + Cardinality(Busy') <= QSize
    BY <2>1, <1>3, FiniteSets, FrameIs
  <2>3. Len(input') <= QSize
    BY <1>b, FrameIs
  <2> QED
    BY <2>1, <2>2, <2>3, <1>1, <1>2, <1>a, <1>b DEF TypeOK
<1>5. SerInv'
  <2>1. Len(input) \in Nat
    BY <1>a
  <2>2. curSer <= nextSer - Len(input) /\ \A w \in Busy : work[w].ser \in Nat
          /\ curSer <= work[w].ser /\ work[w].ser < nextSer - Len(input)
    BY <1>a DEF SerInv, Busy, WorkState
  <2>3. curSer <= nextSer - 0 /\ \A w \in Busy : curSer <= work[w].ser /\ work[w].ser < nextSer - 0
    BY <2>1, <2>2, <1>a
  <2> QED
    BY <2>3, <1>1, <1>3, <1>a, <1>b DEF SerInv
<1>6. DecInv'
  BY <1>1 DEF IInv, DecInv
<1>7. CallInv' /\ JobInv' /\ MemInv' /\ BadInv' /\ RetInv' /\ FreshInv' /\ AliveInv'
  BY <1>1, <1>2, <1>3, CallFrame
<1> QED
  BY <1>4, <1>5, <1>6, <1>7 DEF IInv

\* The running jobs have finished.
LEMMA DrainOK ==
    ASSUME IInv, Drain
    PROVE  IInv'
<1>a. TypeOK /\ call \in CallState /\ SerInv
  BY DEF IInv, TypeOK
<1>1. /\ mem' = mem /\ input' = input /\ output' = {} /\ nextSer' = nextSer /\ curSer' = curSer
      /\ work' = work /\ avail' = avail /\ availCount' = availCount /\ out' = out /\ got' = got
      /\ bad' = bad /\ failed' = failed /\ alive' = alive
  BY DEF Drain
<1>2. /\ ~Active /\ call' \in CallState /\ call'.pc \notin {"dispatch", "collect", "return"}
      /\ call'.batch = call.batch /\ call'.count = call.count /\ call'.i = call.i
  BY <1>a DEF Drain, Active, CallState
<1>3. Items' \subseteq Items /\ Done' \subseteq Done /\ Busy' = Busy
  BY <1>1 DEF Items, Done, Taken, Busy
<1>4. TypeOK' /\ IsFiniteSet(output')
  <2>1. IsFiniteSet(output') /\ Cardinality(output') = 0
    BY <1>1, FS_EmptySet
  <2>2. Cardinality(output') + Cardinality(Busy') <= QSize
    BY <2>1, <1>3, FiniteSets, FrameIs
  <2> QED
    BY <2>1, <2>2, <1>1, <1>2, <1>a DEF TypeOK
<1>5. SerInv'
  BY <1>1, <1>3, <1>a DEF SerInv
<1>6. DecInv'
  BY <1>1 DEF IInv, DecInv
<1>7. CallInv' /\ JobInv' /\ MemInv' /\ BadInv' /\ RetInv' /\ FreshInv' /\ AliveInv'
  BY <1>1, <1>2, <1>3, CallFrame
<1> QED
  BY <1>4, <1>5, <1>6, <1>7 DEF IInv

----------------------------------------------------------------------------
(* The workers.                                                            *)

\* A worker takes the next job.
LEMMA TakeJobOK ==
    ASSUME IInv, NEW w \in Workers, TakeJob(w)
    PROVE  IInv'
<1>a. /\ TypeOK /\ SerInv /\ DecInv /\ input \in Seq(Item) /\ work \in [Workers -> WorkState]
      /\ nextSer \in Nat /\ curSer \in Nat
  BY DEF IInv, TypeOK
<1>1. /\ mem' = mem /\ output' = output /\ nextSer' = nextSer /\ curSer' = curSer
      /\ avail' = avail /\ availCount' = availCount /\ out' = out /\ got' = got
      /\ bad' = bad /\ failed' = failed /\ alive' = alive /\ call' = call
      /\ work[w].pc = "idle" /\ input # <<>> /\ input' = Tail(input)
      /\ Cardinality(output) + Cardinality(Busy) < QSize
      /\ work' = [work EXCEPT ![w] = [pc |-> "acquire", job |-> Head(input).job,
                                      ser |-> Head(input).ser, dec |-> None]]
  BY DEF TakeJob, HasRoom
<1>b. PICK x \in Item : x = input[1] /\ x = Head(input)
  BY <1>1, <1>a
<1>c. x.job \in Jobs /\ x.ser \in Nat /\ x = [job |-> x.job, ser |-> x.ser]
  BY DEF Item
<1>d. /\ Len(input) \in Nat /\ Len(input) >= 1 /\ DOMAIN input = 1..Len(input)
      /\ Tail(input) \in Seq(Item) /\ Len(Tail(input)) = Len(input) - 1
      /\ DOMAIN Tail(input) = 1..(Len(input) - 1)
      /\ \A m \in 1..(Len(input) - 1) : Tail(input)[m] = input[m + 1]
  BY <1>1, <1>a
<1>e. /\ work' \in [Workers -> WorkState] /\ \A v \in Workers \ {w} : work'[v] = work[v]
      /\ work'[w].pc = "acquire" /\ work'[w].job = x.job /\ work'[w].ser = x.ser
      /\ work'[w].dec = None
  <2>1. [pc |-> "acquire", job |-> x.job, ser |-> x.ser, dec |-> None] \in WorkState
    BY <1>c DEF WorkState
  <2> QED
    BY <2>1, <1>1, <1>a, <1>b
<1>f. Busy' = Busy \cup {w} /\ w \notin Busy
  BY <1>1, <1>e DEF Busy
<1>2. Items' \subseteq Items
  <2>1. \A m \in DOMAIN input' : input'[m] \in Items
    <3> SUFFICES ASSUME NEW m \in 1..(Len(input) - 1) PROVE input'[m] \in Items
      BY <1>1, <1>d
    <3>1. m + 1 \in DOMAIN input /\ input'[m] = input[m + 1]
      BY <1>1, <1>d
    <3> QED
      BY <3>1 DEF Items
  <2>2. Taken' \subseteq Items
    <3> SUFFICES ASSUME NEW v \in Busy'
                 PROVE  [job |-> work'[v].job, ser |-> work'[v].ser] \in Items
      BY DEF Taken
    <3>1. CASE v = w
      <4>1. 1 \in DOMAIN input
        BY <1>d
      <4>2. work'[v].job = x.job /\ work'[v].ser = x.ser
        BY <3>1, <1>e
      <4>3. [job |-> work'[v].job, ser |-> work'[v].ser] = input[1]
        BY <4>2, <1>b, <1>c
      <4> QED
        BY <4>1, <4>3 DEF Items
    <3>2. CASE v # w
      BY <3>2, <1>e, <1>f DEF Items, Taken, Busy
    <3> QED
      BY <3>1, <3>2
  <2> QED
    BY <2>1, <2>2, <1>1 DEF Items
<1>3. Done' \subseteq Done
  BY <1>1, <1>e DEF Done
<1>4. TypeOK' /\ IsFiniteSet(output')
  <2>1. Cardinality(Busy') = Cardinality(Busy) + 1
    BY <1>f, FiniteSets, FS_AddElement
  <2>2. Cardinality(output') + Cardinality(Busy') <= QSize
    BY <2>1, <1>1, FiniteSets, FrameIs
  <2>3. Len(input') <= QSize /\ input' \in Seq(Item)
    <3>1. Len(input) <= QSize
      BY <1>a DEF TypeOK
    <3> QED
      BY <3>1, <1>1, <1>d, FrameIs
  <2> QED
    BY <2>2, <2>3, <1>1, <1>a, <1>e DEF TypeOK, IInv
<1>5. SerInv'
  <2> DEFINE n == nextSer - Len(input)
  <2>0. /\ curSer <= n /\ n \in Int
        /\ \A m \in DOMAIN input : input[m].ser = n + m - 1
        /\ \A v \in Busy : curSer <= work[v].ser /\ work[v].ser < n /\ work[v].ser \in Nat
        /\ \A r \in output : curSer <= r.ser /\ r.ser < n /\ r.ser \in Nat
    BY <1>a, <1>d DEF SerInv, Busy, WorkState, TypeOK, Item
  <2>1. x.ser = n
    BY <2>0, <1>b, <1>d
  <2>2. nextSer' - Len(input') = n + 1
    BY <1>1, <1>a, <1>d
  <2> HIDE DEF n
  <2>3. curSer' <= n + 1 /\ \A m \in DOMAIN input' : input'[m].ser = (n + 1) + m - 1
    BY <2>0, <1>1, <1>a, <1>d
  <2>4. \A v \in Busy' : curSer' <= work'[v].ser /\ work'[v].ser < n + 1
    BY <2>0, <2>1, <1>1, <1>a, <1>e, <1>f
  <2>5. \A r \in output' : curSer' <= r.ser /\ r.ser < n + 1
    BY <2>0, <1>1, <1>a
  <2>6. ASSUME NEW u \in Busy', NEW v \in Busy', u # v PROVE work'[u].ser # work'[v].ser
    <3>1. \A z \in Busy : z # w /\ z \in Workers /\ work'[z].ser = work[z].ser
                          /\ work'[z].ser \in Nat /\ work'[z].ser < n
      BY <2>0, <1>e, <1>f DEF Busy
    <3>2. work'[w].ser = n
      BY <2>1, <1>e
    <3>3. CASE u \in Busy /\ v \in Busy
      BY <3>1, <3>3, <2>6, <1>a DEF SerInv
    <3>4. CASE u = w
      BY <3>1, <3>2, <3>4, <2>0, <2>6, <1>f
    <3>5. CASE v = w
      BY <3>1, <3>2, <3>5, <2>0, <2>6, <1>f
    <3> QED
      BY <3>3, <3>4, <3>5, <1>f
  <2>7. \A v \in Busy', r \in output' : work'[v].ser # r.ser
    BY <2>0, <2>1, <1>1, <1>a, <1>e, <1>f DEF SerInv, Busy
  <2> QED
    BY <2>2, <2>3, <2>4, <2>5, <2>6, <2>7, <1>1, <1>a DEF SerInv
<1>6. DecInv'
  BY <1>1, <1>a, <1>c, <1>e DEF DecInv
<1>7. CallInv' /\ JobInv' /\ MemInv' /\ BadInv' /\ RetInv' /\ FreshInv' /\ AliveInv'
  BY <1>1, <1>2, <1>3, CallFrame
<1> QED
  BY <1>4, <1>5, <1>6, <1>7 DEF IInv

\* A worker goes on with its job.
LEMMA WorkerFrame ==
    ASSUME IInv, NEW w \in Workers, input' = input, output' = output, nextSer' = nextSer,
           curSer' = curSer, work' \in [Workers -> WorkState],
           \A v \in Workers \ {w} : work'[v] = work[v],
           work[w].pc # "idle", work'[w].pc # "idle",
           work'[w].job = work[w].job, work'[w].ser = work[w].ser
    PROVE  Busy' = Busy /\ Taken' = Taken /\ Items' = Items /\ SerInv'
<1>1. Busy' = Busy
  BY DEF Busy
<1>2. \A v \in Workers : work'[v].job = work[v].job /\ work'[v].ser = work[v].ser
  OBVIOUS
<1>3. Taken' = Taken
  BY <1>1, <1>2 DEF Taken, Busy
<1>4. Items' = Items
  BY <1>3 DEF Items
<1>5. Busy \subseteq Workers
  BY DEF Busy
<1>6. SerInv'
  BY <1>1, <1>2, <1>5 DEF IInv, SerInv
<1> QED
  BY <1>1, <1>3, <1>4, <1>6

\* A worker gets the first available decoder, and nobody else has it.
LEMMA AcquireDecoderOK ==
    ASSUME IInv, NEW w \in Workers, AcquireDecoder(w)
    PROVE  IInv'
<1>a. /\ TypeOK /\ DecInv /\ work \in [Workers -> WorkState] /\ avail \subseteq Decoders
      /\ availCount \in 0..DecoderCount
  BY DEF IInv, TypeOK
<1>1. /\ mem' = mem /\ input' = input /\ output' = output /\ nextSer' = nextSer /\ curSer' = curSer
      /\ out' = out /\ got' = got
      /\ bad' = bad /\ failed' = failed /\ alive' = alive /\ call' = call
      /\ work[w].pc = "acquire" /\ availCount > 0 /\ availCount' = availCount - 1
      /\ avail' = avail \ {Min(avail)}
      /\ work' = [work EXCEPT ![w].dec = Min(avail), ![w].pc = "decode"]
  BY DEF AcquireDecoder, Acquired
<1>b. DecoderCount \in Nat /\ None \notin Decoders /\ Decoders \subseteq Nat
      /\ IsFiniteSet(Decoders)
  BY ConstantsAssumption, FS_Interval DEF Decoders
<1>c. IsFiniteSet(avail) /\ availCount = Cardinality(avail) /\ avail # {}
  BY <1>1, <1>a, <1>b, FS_Subset, FS_EmptySet DEF DecInv
<1>d. PICK d \in avail : d = Min(avail)
  BY <1>a, <1>b, <1>c, MinIs
<1>e. /\ work' \in [Workers -> WorkState] /\ \A v \in Workers \ {w} : work'[v] = work[v]
      /\ work'[w].pc = "decode" /\ work'[w].job = work[w].job /\ work'[w].ser = work[w].ser
      /\ work'[w].dec = d
  BY <1>1, <1>a, <1>d DEF WorkState
<1>2. Busy' = Busy /\ Items' = Items /\ SerInv'
  BY <1>1, <1>e, WorkerFrame
<1>3. Done' \subseteq Done
  BY <1>1, <1>e DEF Done
<1>f. availCount' = Cardinality(avail') /\ availCount' \in 0..DecoderCount /\ avail' \subseteq Decoders
  <2>1. Cardinality(avail \ {d}) = Cardinality(avail) - 1
    BY <1>c, FS_RemoveElement
  <2>2. availCount' = Cardinality(avail') /\ avail' \subseteq Decoders
    BY <2>1, <1>1, <1>a, <1>c, <1>d
  <2>3. availCount' \in 0..DecoderCount
    BY <1>1, <1>a, <1>b
  <2> QED
    BY <2>2, <2>3
<1>4. TypeOK' /\ IsFiniteSet(output')
  BY <1>1, <1>2, <1>a, <1>e, <1>f DEF TypeOK, IInv
<1>6. DecInv'
  <2>1. \A v \in Workers : IF work'[v].pc \in {"decode", "release"}
                           THEN work'[v].dec \in Decoders \ avail' ELSE work'[v].dec = None
    BY <1>1, <1>a, <1>d, <1>e DEF DecInv
  <2>2. \A v \in Workers \ {w} : work[v].dec # d
    BY <1>a, <1>b, <1>d DEF DecInv
  <2>3. \A u, v \in Workers : u # v /\ work'[u].dec # None => work'[u].dec # work'[v].dec
    BY <2>2, <1>a, <1>e DEF DecInv
  <2>4. \A v \in Workers : IF work'[v].pc = "idle" THEN work'[v].job = None
                           ELSE work'[v].job \in Jobs
    BY <1>1, <1>a, <1>e DEF DecInv
  <2> QED
    BY <2>1, <2>3, <2>4, <1>f DEF DecInv
<1>7. CallInv' /\ JobInv' /\ MemInv' /\ BadInv' /\ RetInv' /\ FreshInv' /\ AliveInv'
  BY <1>1, <1>2, <1>3, CallFrame
<1> QED
  BY <1>2, <1>4, <1>6, <1>7 DEF IInv

\* A worker gives its decoder back.
LEMMA ReleaseDecoderOK ==
    ASSUME IInv, NEW w \in Workers, ReleaseDecoder(w)
    PROVE  IInv'
<1>a. /\ TypeOK /\ DecInv /\ work \in [Workers -> WorkState] /\ avail \subseteq Decoders
      /\ availCount \in 0..DecoderCount
  BY DEF IInv, TypeOK
<1>1. /\ mem' = mem /\ input' = input /\ output' = output /\ nextSer' = nextSer /\ curSer' = curSer
      /\ out' = out /\ got' = got
      /\ bad' = bad /\ failed' = failed /\ alive' = alive /\ call' = call
      /\ work[w].pc = "release" /\ availCount' = availCount + 1
      /\ avail' = avail \cup {work[w].dec}
      /\ work' = [work EXCEPT ![w].pc = "post", ![w].dec = None]
  BY DEF ReleaseDecoder, Counted
<1>b. DecoderCount \in Nat /\ None \notin Decoders /\ Decoders \subseteq Nat
      /\ IsFiniteSet(Decoders) /\ Cardinality(Decoders) = DecoderCount
  BY ConstantsAssumption, FS_Interval DEF Decoders
<1>c. IsFiniteSet(avail) /\ availCount = Cardinality(avail)
  BY <1>a, <1>b, FS_Subset DEF DecInv
<1>d. PICK d \in Decoders \ avail : d = work[w].dec
  BY <1>1, <1>a DEF DecInv
<1>e. /\ work' \in [Workers -> WorkState] /\ \A v \in Workers \ {w} : work'[v] = work[v]
      /\ work'[w].pc = "post" /\ work'[w].job = work[w].job /\ work'[w].ser = work[w].ser
      /\ work'[w].dec = None
  BY <1>1, <1>a DEF WorkState
<1>2. Busy' = Busy /\ Items' = Items /\ SerInv'
  BY <1>1, <1>e, WorkerFrame
<1>3. Done' \subseteq Done
  BY <1>1, <1>e DEF Done
<1>f. availCount' = Cardinality(avail') /\ availCount' \in 0..DecoderCount /\ avail' \subseteq Decoders
  <2>1. Cardinality(avail \cup {d}) = Cardinality(avail) + 1
    BY <1>c, <1>d, FS_AddElement
  <2>2. availCount' = Cardinality(avail') /\ avail' \subseteq Decoders
    BY <2>1, <1>1, <1>a, <1>c, <1>d
  <2>3. Cardinality(avail') <= DecoderCount
    BY <2>2, <1>b, FS_Subset
  <2>4. availCount' \in 0..DecoderCount
    BY <2>2, <2>3, <1>1, <1>a, <1>b
  <2> QED
    BY <2>2, <2>4
<1>4. TypeOK' /\ IsFiniteSet(output')
  BY <1>1, <1>2, <1>a, <1>e, <1>f DEF TypeOK, IInv
<1>6. DecInv'
  <2>2. \A v \in Workers \ {w} : work[v].dec # d
    BY <1>a, <1>b, <1>d DEF DecInv
  <2>1. \A v \in Workers : IF work'[v].pc \in {"decode", "release"}
                           THEN work'[v].dec \in Decoders \ avail' ELSE work'[v].dec = None
    BY <2>2, <1>1, <1>a, <1>d, <1>e DEF DecInv
  <2>3. \A u, v \in Workers : u # v /\ work'[u].dec # None => work'[u].dec # work'[v].dec
    BY <1>a, <1>e DEF DecInv
  <2>4. \A v \in Workers : IF work'[v].pc = "idle" THEN work'[v].job = None
                           ELSE work'[v].job \in Jobs
    BY <1>1, <1>a, <1>e DEF DecInv
  <2> QED
    BY <2>1, <2>3, <2>4, <1>f DEF DecInv
<1>7. CallInv' /\ JobInv' /\ MemInv' /\ BadInv' /\ RetInv' /\ FreshInv' /\ AliveInv'
  BY <1>1, <1>2, <1>3, CallFrame
<1> QED
  BY <1>2, <1>4, <1>6, <1>7 DEF IInv

\* The job of a worker becomes a result.
LEMMA PostResultOK ==
    ASSUME IInv, NEW w \in Workers, PostResult(w)
    PROVE  IInv'
<1>a. /\ TypeOK /\ SerInv /\ DecInv /\ work \in [Workers -> WorkState] /\ output \subseteq Item
      /\ nextSer \in Nat /\ curSer \in Nat
  BY DEF IInv, TypeOK
<1>1. /\ mem' = mem /\ input' = input /\ nextSer' = nextSer /\ curSer' = curSer
      /\ avail' = avail /\ availCount' = availCount /\ out' = out /\ got' = got
      /\ bad' = bad /\ failed' = failed /\ alive' = alive /\ call' = call
      /\ work[w].pc = "post"
      /\ output' = output \cup {[job |-> work[w].job, ser |-> work[w].ser]}
      /\ work' = [work EXCEPT ![w] = Idle]
  BY DEF PostResult
<1>b. w \in Busy /\ work[w].job \in Jobs /\ work[w].ser \in Nat
      /\ [job |-> work[w].job, ser |-> work[w].ser] \in Item
  BY <1>1, <1>a DEF Busy, DecInv, WorkState, Item
<1>c. PICK x \in Item : x = [job |-> work[w].job, ser |-> work[w].ser]
  BY <1>b
<1>d. x.job = work[w].job /\ x.ser = work[w].ser
  BY <1>c
<1>e. /\ work' \in [Workers -> WorkState] /\ \A v \in Workers \ {w} : work'[v] = work[v]
      /\ work'[w].pc = "idle" /\ work'[w].job = None /\ work'[w].dec = None
  <2>1. Idle \in WorkState
    BY DEF Idle, WorkState
  <2> QED
    BY <2>1, <1>1, <1>a DEF Idle
<1>f. Busy' = Busy \ {w} /\ Busy \subseteq Workers
  BY <1>1, <1>e DEF Busy
<1>2. Items' \subseteq Items /\ Done' \subseteq Done
  <2>1. Taken' \subseteq Taken /\ x \in Taken
    BY <1>b, <1>c, <1>e, <1>f DEF Taken
  <2>2. Items' \subseteq Items
    BY <2>1, <1>1, <1>c DEF Items
  <2>3. Done' \subseteq Done
    BY <1>1, <1>e DEF Done
  <2> QED
    BY <2>2, <2>3
<1>g. x \notin output
  BY <1>a, <1>b, <1>d DEF SerInv
<1>4. TypeOK' /\ IsFiniteSet(output')
  <2>1. Cardinality(Busy') = Cardinality(Busy) - 1
    BY <1>b, <1>f, FiniteSets, FS_RemoveElement
  <2>2. IsFiniteSet(output') /\ Cardinality(output') = Cardinality(output) + 1
    BY <1>1, <1>c, <1>g, FiniteSets, FS_AddElement
  <2>3. Cardinality(output') + Cardinality(Busy') <= QSize
    BY <2>1, <2>2, FiniteSets, FrameIs
  <2>4. output' \subseteq Item
    BY <1>1, <1>a, <1>b
  <2> QED
    BY <2>2, <2>3, <2>4, <1>1, <1>a, <1>e DEF TypeOK
<1>5. SerInv'
  <2>1. \A v \in Busy' : v \in Busy /\ v # w /\ work'[v] = work[v]
    BY <1>e, <1>f
  <2>2. \A r \in output' : r = x \/ r \in output
    BY <1>1, <1>c
  <2>3. curSer <= x.ser /\ x.ser < nextSer - Len(input)
    BY <1>a, <1>b, <1>d DEF SerInv
  <2>4. \A v \in Busy' : work'[v].ser # x.ser
    BY <2>1, <1>a, <1>b, <1>d DEF SerInv
  <2>5. \A r \in output : r.ser # x.ser
    BY <1>a, <1>b, <1>d DEF SerInv
  <2>6. \A r \in output' : curSer <= r.ser /\ r.ser < nextSer - Len(input)
    BY <2>2, <2>3, <1>a DEF SerInv
  <2>7. \A v \in Busy', r \in output' : work'[v].ser # r.ser
    BY <2>1, <2>2, <2>4, <1>a DEF SerInv
  <2>8. \A r, s \in output' : r.ser = s.ser => r = s
    BY <2>2, <2>5, <1>a DEF SerInv
  <2> QED
    BY <2>1, <2>6, <2>7, <2>8, <1>1, <1>a DEF SerInv
<1>6. DecInv'
  BY <1>1, <1>a, <1>e DEF DecInv
<1>7. CallInv' /\ JobInv' /\ MemInv' /\ BadInv' /\ RetInv' /\ FreshInv' /\ AliveInv'
  BY <1>1, <1>2, CallFrame
<1> QED
  BY <1>4, <1>5, <1>6, <1>7 DEF IInv

\* A job on its way carries a frame.
LEMMA FrameOf ==
    ASSUME IInv, NEW x \in Items
    PROVE  /\ mem[x.job].frame \in Frames
           /\ x.job \in Frames => mem[x.job].frame = x.job
           /\ x.job \notin Frames => x.job = Single /\ mem[x.job].frame[2] = 1
<1>1. x.job \in Jobs /\ JobInv /\ MemInv
  BY ItemsAre DEF IInv
<1>2. mem[x.job].frame # None
  BY <1>1 DEF JobInv
<1>3. CASE x.job \in Frames
  BY <1>1, <1>2, <1>3 DEF MemInv
<1>4. CASE x.job = Single
  BY <1>1, <1>2, <1>4, FrameIs DEF MemInv
<1> QED
  BY <1>1, <1>3, <1>4 DEF Jobs

\* Until a call fails, every job on its way is one of the current call.
LEMMA FreshJob ==
    ASSUME IInv, ~failed, NEW x \in Items
    PROVE  /\ Active /\ x.ser >= Base /\ x.ser - Base + 1 \in 1..call.count
           /\ x.job = JobOf(call, x.ser - Base + 1)
           /\ call.count = 1 => x.job = Single
           /\ call.count # 1 => mem[x.job].frame = <<call.batch, x.ser - Base + 1>>
           /\ call.pc = "collect" => x.ser - Base + 1 >= call.i
<1>0. FreshInv /\ JobInv
  BY DEF IInv
<1>1. x.ser \in Nat /\ curSer <= x.ser /\ x.ser < nextSer
  BY ItemsAre
<1>2. curSer = IF call.pc = "collect" THEN Base + call.i - 1 ELSE Base
  BY <1>0 DEF FreshInv
<1>3. Active
  BY <1>1, <1>2, CallIs DEF Active
<1>4. x.ser >= Base /\ (call.pc = "collect" => x.ser - Base + 1 >= call.i)
  <2>1. Base \in Nat /\ curSer \in Nat /\ call.i \in Nat \ {0}
    BY CallIs
  <2>2. CASE call.pc = "collect"
    BY <2>1, <2>2, <1>1, <1>2
  <2>3. CASE call.pc # "collect"
    BY <2>1, <2>3, <1>1, <1>2
  <2> QED
    BY <2>2, <2>3
<1>5. x.job = JobOf(call, x.ser - Base + 1)
  BY <1>0, <1>4 DEF JobInv
<1>6. x.ser - Base + 1 \in 1..call.count
  BY <1>1, <1>3, <1>4, CallIs DEF Active
<1>7. ASSUME call.count # 1 PROVE mem[x.job].frame = <<call.batch, x.ser - Base + 1>>
  <2>1. PICK k \in 1..call.count : k = x.ser - Base + 1
    BY <1>6
  <2>2. k \in Indices /\ call.batch \in 1..MaxBatches
    BY <1>3, CallIs, FrameIs DEF Indices
  <2>3. <<call.batch, k>> \in Frames
    BY <2>2, FrameIs
  <2>4. x.job = <<call.batch, k>>
    BY <1>5, <1>7, <2>1 DEF JobOf
  <2> QED
    BY <2>1, <2>3, <2>4, FrameOf
<1> QED
  BY <1>3, <1>4, <1>5, <1>6, <1>7 DEF JobOf

\* A worker decodes a frame, or fails to.
LEMMA DecodeOK ==
    ASSUME IInv, NEW w \in Workers, Decode(w)
    PROVE  IInv'
<1>a. /\ TypeOK /\ DecInv /\ work \in [Workers -> WorkState] /\ mem \in [Jobs -> Job]
      /\ out \in [Indices -> Frames \cup {None}] /\ bad \subseteq Frames
      /\ CallInv /\ JobInv /\ MemInv /\ BadInv /\ RetInv /\ FreshInv /\ AliveInv
  BY DEF IInv, TypeOK
<1>b. work[w].pc = "decode" /\ w \in Busy
  BY DEF Decode, Busy
<1>c. PICK x \in Items : x = [job |-> work[w].job, ser |-> work[w].ser]
  BY <1>b, ItemsAre
<1>d. PICK j \in Jobs : j = x.job /\ j = work[w].job
  BY <1>c, ItemsAre
<1>e. PICK f \in Frames : f = mem[j].frame /\ (j \in Frames => f = j)
                          /\ (j \notin Frames => j = Single /\ f[2] = 1)
  BY <1>d, FrameOf
<1>f. f = <<f[1], f[2]>> /\ f[1] \in 1..MaxBatches /\ f[2] \in Indices /\ f[2] \in Nat \ {0}
  BY <1>e, FrameIs
<1>1. /\ input' = input /\ output' = output /\ nextSer' = nextSer /\ curSer' = curSer
      /\ avail' = avail /\ availCount' = availCount /\ got' = got
      /\ failed' = failed /\ alive' = alive /\ call' = call
      /\ work' = [work EXCEPT ![w].pc = "release"]
  BY DEF Decode
<1>2. \/ out' = [out EXCEPT ![f[2]] = f] /\ mem' = mem /\ bad' = bad
      \/ bad' = bad \cup {f} /\ mem' = [mem EXCEPT ![j].err = f[2]] /\ out' = out
  BY <1>d, <1>e DEF Decode
<1>g. /\ work' \in [Workers -> WorkState] /\ \A v \in Workers \ {w} : work'[v] = work[v]
      /\ work'[w].pc = "release" /\ work'[w].job = work[w].job /\ work'[w].ser = work[w].ser
      /\ work'[w].dec = work[w].dec
  BY <1>1, <1>a DEF WorkState
<1>3. Busy' = Busy /\ Items' = Items /\ SerInv'
  BY <1>1, <1>b, <1>g, WorkerFrame
<1>4. \A y \in Done' : y \in Done \/ y = x
  BY <1>1, <1>c, <1>g DEF Done
<1>5. DecInv'
  BY <1>1, <1>a, <1>b, <1>g DEF DecInv
<1>6. Base' = Base /\ Last' = Last /\ (Active' <=> Active) /\ CallInv' /\ AliveInv'
  BY <1>1, <1>a DEF Base, Last, Active, CallInv, AliveInv
<1>7. \A i \in Jobs : mem'[i].frame = mem[i].frame
  BY <1>2, <1>a DEF Job
<1>8. JobInv'
  <2>1. \A y \in Items : y.job \in Jobs
    BY ItemsAre
  <2> QED
    BY <2>1, <1>1, <1>3, <1>6, <1>7, <1>a DEF JobInv, JobOf
<1>9. CASE out' = [out EXCEPT ![f[2]] = f] /\ mem' = mem /\ bad' = bad
  <2>1. out' \in [Indices -> Frames \cup {None}] /\ out'[f[2]] = f
        /\ \A k \in Indices \ {f[2]} : out'[k] = out[k]
    BY <1>9, <1>a, <1>f
  <2>2. TypeOK' /\ IsFiniteSet(output')
    BY <2>1, <1>1, <1>3, <1>9, <1>a, <1>g DEF TypeOK, IInv
  <2>3. MemInv' /\ BadInv' /\ RetInv'
    BY <1>1, <1>3, <1>6, <1>9, <1>a DEF MemInv, BadInv, RetInv, Reported
  <2>4. FreshInv'
    <3> SUFFICES ASSUME ~failed PROVE FreshInv'
      BY <1>1 DEF FreshInv
    <3>1. /\ curSer = IF call.pc = "collect" THEN Base + call.i - 1 ELSE Base
          /\ call.pc = "collect" => \A k \in 1..(call.i - 1) : Right(k)
          /\ \A y \in Done : mem[y.job].err = 0 => out[mem[y.job].frame[2]] = mem[y.job].frame
      BY <1>a DEF FreshInv
    <3>2. /\ Active /\ x.ser - Base + 1 \in 1..call.count
          /\ call.count = 1 => j = Single
          /\ call.count # 1 => f = <<call.batch, x.ser - Base + 1>>
          /\ call.pc = "collect" => x.ser - Base + 1 >= call.i
      BY <1>d, <1>e, FreshJob
    <3>3. call.pc # "return"
      BY <3>2 DEF Active
    <3>4. ASSUME call.pc = "collect", NEW k \in 1..(call.i - 1) PROVE Right(k)'
      <4>1. call.count # 1 /\ k \in Indices /\ call.i \in Nat
        BY <3>4, <3>2, CallIs, FrameIs DEF Indices
      <4>2. f[2] = x.ser - Base + 1
        BY <4>1, <3>2
      <4>3. f[2] # k
        BY <4>1, <4>2, <3>2, <3>4, <1>f
      <4>4. out'[k] = out[k]
        BY <4>1, <4>3, <2>1
      <4> QED
        BY <4>4, <3>1, <3>4, <1>1 DEF Right
    <3>5. ASSUME NEW y \in Done', mem'[y.job].err = 0
          PROVE  out'[mem'[y.job].frame[2]] = mem'[y.job].frame
      <4>1. CASE y = x
        BY <4>1, <2>1, <1>9, <1>d, <1>e
      <4>2. CASE y \in Done
        <5>1. y \in Items /\ y.job \in Jobs
          BY <4>2, ItemsAre
        <5>2. PICK g \in Frames : g = mem[y.job].frame
          BY <5>1, FrameOf
        <5>3. g[2] \in Indices /\ out[g[2]] = g
          BY <5>2, <4>2, <3>1, <3>5, <1>9, FrameIs
        <5>4. CASE call.count = 1
          <6>1. y.job = j
            BY <5>1, <5>4, <3>2, FreshJob
          <6> QED
            BY <6>1, <2>1, <1>9, <1>e
        <5>5. CASE call.count # 1
          <6>1. g = <<call.batch, y.ser - Base + 1>> /\ f = <<call.batch, x.ser - Base + 1>>
            BY <5>1, <5>2, <5>5, <3>2, FreshJob
          <6>2. g[2] = f[2] => g = f
            BY <6>1
          <6> QED
            BY <6>2, <5>2, <5>3, <2>1, <1>9
        <5> QED
          BY <5>4, <5>5
      <4> QED
        BY <4>1, <4>2, <3>5, <1>4
    <3> QED
      BY <3>1, <3>3, <3>4, <3>5, <1>1, <1>6 DEF FreshInv
  <2> QED
    BY <2>2, <2>3, <2>4, <1>3, <1>5, <1>6, <1>8 DEF IInv
<1>10. CASE bad' = bad \cup {f} /\ mem' = [mem EXCEPT ![j].err = f[2]] /\ out' = out
  <2>0. f[2] \in 1..MaxCount
    BY <1>f DEF Indices
  <2>1. mem' \in [Jobs -> Job] /\ mem'[j].err = f[2] /\ \A i \in Jobs \ {j} : mem'[i] = mem[i]
    BY <2>0, <1>10, <1>a, FrameIs DEF Job
  <2>2. TypeOK' /\ IsFiniteSet(output')
    BY <2>1, <1>1, <1>3, <1>10, <1>a, <1>g DEF TypeOK, IInv
  <2>3. MemInv'
    <3>1. \A i \in Frames : i \in Jobs /\ (i \in bad' => i \in bad \/ i = f)
      BY <1>10 DEF Jobs
    <3>2. ASSUME NEW i \in Frames, mem[i].frame # None, i \in bad' PROVE mem'[i].err # 0
      <4>1. CASE i = j
        BY <4>1, <2>1, <1>f
      <4>2. CASE i # j
        <5>1. i # f
          <6>1. CASE j \in Frames
            BY <6>1, <4>2, <1>e
          <6>2. CASE j \notin Frames
            BY <6>2, <3>2, <1>a, <1>e, FrameIs DEF MemInv
          <6> QED
            BY <6>1, <6>2
        <5> QED
          BY <5>1, <4>2, <3>1, <3>2, <2>1, <1>a DEF MemInv
      <4> QED
        BY <4>1, <4>2
    <3>3. ASSUME NEW i \in Jobs, mem'[i].err # 0
          PROVE  mem'[i].frame \in bad' /\ mem'[i].err = mem'[i].frame[2]
      <4>1. CASE i = j
        BY <4>1, <2>1, <1>7, <1>10, <1>e
      <4>2. CASE i # j
        BY <4>2, <3>3, <2>1, <1>7, <1>10, <1>a DEF MemInv
      <4> QED
        BY <4>1, <4>2
    <3>4. Single \in Jobs
      BY DEF Jobs
    <3>5. \A i \in Frames :
          /\ mem'[i].frame \in {None, i}
          /\ mem'[i].frame # None =>
                i[1] <= call.batch /\ (call.pc = "dispatch" /\ i[1] = call.batch => i[2] < call.i)
          /\ mem'[i].frame # None /\ i \in bad' => mem'[i].err # 0
      BY <3>1, <3>2, <1>7, <1>a DEF MemInv
    <3>6. LET g == mem'[Single].frame IN
          g # None => /\ g \in Frames /\ g[2] = 1 /\ g[1] <= call.batch
                      /\ g[1] = call.batch => call.count = 1 /\ call.pc # "dispatch"
                      /\ mem'[g].frame = None
      BY <3>1, <3>4, <1>7, <1>a DEF MemInv
    <3>7. call.pc = "collect" /\ call.count = 1 => mem'[Single].frame = <<call.batch, 1>>
      BY <3>4, <1>7, <1>a DEF MemInv
    <3> QED
      BY <3>3, <3>5, <3>6, <3>7, <1>1 DEF MemInv
  <2>4. f[1] <= call.batch /\ (call.pc = "dispatch" /\ f[1] = call.batch => f[2] < call.i)
    <3>1. CASE j \in Frames
      BY <3>1, <1>a, <1>e, FrameIs DEF MemInv
    <3>2. CASE j \notin Frames
      BY <3>2, <1>a, <1>e, FrameIs DEF MemInv
    <3> QED
      BY <3>1, <3>2
  <2>5. BadInv'
    <3>1. ASSUME call.pc = "collect", NEW k \in 1..(curSer - Base) PROVE f # <<call.batch, k>>
      <4>1. SUFFICES ASSUME f = <<call.batch, k>> PROVE FALSE
        OBVIOUS
      <4>2. Active /\ k \in Indices /\ k \in Nat
        BY <3>1, <4>1, <1>f DEF Active
      <4>3. k = 1 \/ call.count # 1
        BY <4>1, <4>2, <1>d, <1>e, CurrentJob
      <4>4. call.count # 1 => x.ser = Base + k - 1
        BY <4>1, <4>2, <1>d, <1>e, CurrentJob
      <4>5. curSer <= Base + call.i - 1 /\ call.i \in 1..call.count /\ Base \in Nat /\ curSer \in Nat
            /\ call.i \in Nat /\ call.count \in Nat
        BY <3>1, <4>2, <1>a, CallIs DEF CallInv
      <4>6. x.ser \in Nat /\ curSer <= x.ser
        BY ItemsAre
      <4>7. CASE call.count = 1
        BY <4>3, <4>5, <4>7
      <4>8. CASE call.count # 1
        BY <4>4, <4>5, <4>6, <4>8
      <4> QED
        BY <4>7, <4>8
    <3> QED
      BY <3>1, <2>4, <1>1, <1>6, <1>10, <1>a DEF BadInv
  <2>6. RetInv'
    <3> SUFFICES ASSUME Reported PROVE RetInv'
      BY <1>1 DEF RetInv, Reported
    <3>1. /\ call.err = call.i /\ <<call.batch, call.i>> \in bad
          /\ \A k \in 1..(call.i - 1) :
                <<call.batch, k>> \notin bad /\ \A y \in Items : y.job # <<call.batch, k>>
      BY <1>a DEF RetInv
    <3>2. ASSUME NEW k \in 1..(call.i - 1) PROVE f # <<call.batch, k>>
      <4>1. CASE j \in Frames
        BY <4>1, <3>1, <1>d, <1>e
      <4>2. CASE j \notin Frames
        <5>1. f[1] = call.batch => call.count = 1
          BY <4>2, <1>a, <1>e, FrameIs DEF MemInv
        <5>2. call.i \in 1..call.count /\ call.count \in Nat
          BY CallIs DEF Reported
        <5>3. call.count # 1
          BY <5>2
        <5> QED
          BY <5>1, <5>3
      <4> QED
        BY <4>1, <4>2
    <3> QED
      BY <3>1, <3>2, <1>1, <1>3, <1>10 DEF RetInv
  <2>7. FreshInv'
    <3> SUFFICES ASSUME ~failed PROVE FreshInv'
      BY <1>1 DEF FreshInv
    <3>1. /\ curSer = IF call.pc = "collect" THEN Base + call.i - 1 ELSE Base
          /\ call.pc = "collect" => \A k \in 1..(call.i - 1) : Right(k)
          /\ call.pc = "return" => call.err = 0 /\ \A k \in 1..call.count : Right(k)
          /\ \A y \in Done : mem[y.job].err = 0 => out[mem[y.job].frame[2]] = mem[y.job].frame
      BY <1>a DEF FreshInv
    <3>2. ASSUME NEW y \in Done', mem'[y.job].err = 0
          PROVE  out'[mem'[y.job].frame[2]] = mem'[y.job].frame
      <4>1. y.job # j
        BY <3>2, <2>1, <1>f
      <4>2. y \in Done
        BY <4>1, <3>2, <1>4, <1>d
      <4>3. y.job \in Jobs
        BY <4>2, ItemsAre
      <4>4. mem'[y.job] = mem[y.job]
        BY <4>1, <4>3, <2>1
      <4> QED
        BY <4>2, <4>4, <3>1, <3>2, <1>10
    <3>3. \A k : Right(k)' <=> Right(k)
      BY <1>1, <1>10 DEF Right
    <3> QED
      BY <3>1, <3>2, <3>3, <1>1, <1>6, <1>10 DEF FreshInv, Right
  <2> QED
    BY <2>2, <2>3, <2>5, <2>6, <2>7, <1>3, <1>5, <1>6, <1>8 DEF IInv
<1> QED
  BY <1>2, <1>9, <1>10

----------------------------------------------------------------------------
(* The caller.                                                             *)

\* The call has no more jobs to dispatch or to collect.
LEMMA EndCall ==
    ASSUME IInv, Active, call'.pc = "return", call'.batch = call.batch, call'.count = call.count,
           call'.i = call.i, nextSer' = nextSer, mem' = mem, bad' = bad, Items' \subseteq Items,
           curSer' <= nextSer
    PROVE  CallInv' /\ JobInv' /\ MemInv' /\ BadInv' /\ AliveInv'
<1>0. CallInv /\ JobInv /\ MemInv /\ BadInv
  BY DEF IInv
<1>1. Base' = nextSer /\ Last' = call.batch /\ ~Active'
  BY DEF Base, Last, Active
<1>2. CallInv' /\ AliveInv'
  BY <1>1, CallIs DEF CallInv, AliveInv
<1>3. JobInv'
  <2> SUFFICES ASSUME NEW x \in Items
               PROVE  /\ x.ser >= Base' => x.job = JobOf(call, x.ser - Base + 1)'
                      /\ x.ser < Base' =>
                            x.job = Single \/ (x.job \in Frames /\ x.job[1] <= Last')
                      /\ mem'[x.job].frame # None
    BY DEF JobInv, JobOf
  <2>1. x.ser \in Nat /\ x.ser < nextSer /\ nextSer \in Nat /\ x.job \in Jobs
    BY ItemsAre, CallIs
  <2>2. mem'[x.job].frame # None
    BY <1>0 DEF JobInv
  <2>3. CASE x.ser >= Base
    <3>1. x.job = Single \/ x.job = <<call.batch, x.ser - Base + 1>>
      BY <2>3, <1>0 DEF JobInv, JobOf
    <3>2. x.job = <<call.batch, x.ser - Base + 1>> => x.job[1] = call.batch
      OBVIOUS
    <3>3. x.job = Single \/ (x.job \in Frames /\ x.job[1] <= call.batch)
      BY <3>1, <3>2, <2>1, CallIs DEF Jobs
    <3> QED
      BY <3>3, <2>1, <2>2, <1>1
  <2>4. CASE x.ser < Base
    <3>1. x.job = Single \/ (x.job \in Frames /\ x.job[1] <= call.batch - 1)
      BY <2>4, <1>0, CallIs DEF JobInv
    <3>2. x.job \in Frames => x.job[1] \in Nat
      BY FrameIs
    <3>3. x.job = Single \/ (x.job \in Frames /\ x.job[1] <= call.batch)
      BY <3>1, <3>2, CallIs
    <3> QED
      BY <3>3, <2>1, <2>2, <1>1
  <2> QED
    BY <2>1, <2>3, <2>4, CallIs
<1>4. MemInv'
  BY <1>0 DEF MemInv
<1>5. BadInv'
  BY <1>0 DEF BadInv
<1> QED
  BY <1>2, <1>3, <1>4, <1>5

\* The pool refuses a job.
LEMMA DispatchFailsOK ==
    ASSUME IInv, DispatchFails
    PROVE  IInv'
<1>a. TypeOK /\ call \in CallState
  BY DEF IInv, TypeOK
<1>1. /\ mem' = mem /\ input' = input /\ output' = output /\ nextSer' = nextSer /\ curSer' = curSer
      /\ work' = work /\ avail' = avail /\ availCount' = availCount /\ out' = out /\ got' = got
      /\ bad' = bad /\ failed' = TRUE /\ alive' = alive /\ call.pc = "dispatch"
      /\ call' = [call EXCEPT !.pc = "return", !.err = CallFailed]
  BY DEF DispatchFails
<1>2. /\ call' \in CallState /\ call'.pc = "return" /\ call'.err = MaxCount + 1
      /\ call'.batch = call.batch /\ call'.count = call.count /\ call'.i = call.i /\ Active
  <2>1. PICK e \in 0..(MaxCount + 1) : e = CallFailed /\ e = MaxCount + 1
    BY FrameIs DEF CallFailed
  <2>2. /\ call' \in CallState /\ call'.pc = "return" /\ call'.err = e
        /\ call'.batch = call.batch /\ call'.count = call.count /\ call'.i = call.i
    BY <2>1, <1>1, <1>a DEF CallState
  <2> QED
    BY <2>1, <2>2, <1>1 DEF Active
<1>3. Items' = Items /\ Busy' = Busy
  BY <1>1 DEF Items, Taken, Busy
<1>4. TypeOK' /\ IsFiniteSet(output')
  BY <1>1, <1>2, <1>3, <1>a DEF IInv, TypeOK
<1>5. SerInv' /\ DecInv'
  BY <1>1, <1>3 DEF IInv, SerInv, DecInv
<1>6. curSer <= nextSer
  <2>1. curSer <= Base
    BY <1>1 DEF IInv, CallInv
  <2> QED
    BY <2>1, <1>1, CallIs
<1>7. CallInv' /\ JobInv' /\ MemInv' /\ BadInv' /\ AliveInv'
  BY <1>1, <1>2, <1>3, <1>6, EndCall
<1>8. RetInv' /\ FreshInv'
  <2>1. MaxCount + 1 \notin Indices
    BY FrameIs DEF Indices
  <2> QED
    BY <2>1, <1>1, <1>2 DEF RetInv, Reported, FreshInv
<1> QED
  BY <1>4, <1>5, <1>7, <1>8 DEF IInv

\* A call begins.
LEMMA CallOK ==
    ASSUME IInv, NEW n \in Indices, Call(n)
    PROVE  IInv'
<1>a. TypeOK /\ call \in CallState /\ CallInv /\ JobInv /\ MemInv /\ BadInv /\ FreshInv
  BY DEF IInv, TypeOK
<1>b. PICK c : c = [pc |-> "dispatch", batch |-> call.batch + 1, count |-> n, i |-> 1, err |-> 0]
  OBVIOUS
<1>1. /\ mem' = mem /\ input' = input /\ output' = output /\ nextSer' = nextSer /\ curSer' = curSer
      /\ work' = work /\ avail' = avail /\ availCount' = availCount
      /\ bad' = bad /\ failed' = failed /\ call.pc = "idle" /\ call.batch < MaxBatches
      /\ call' = c /\ alive' = alive \cup JobsOf(c)
      /\ out' = [k \in Indices |-> None] /\ got' = [k \in Indices |-> None]
  BY <1>b DEF Call
<1>2. /\ call.batch \in Nat /\ MaxBatches \in Nat /\ MaxCount \in Nat /\ n \in 1..MaxCount /\ ~Active
      /\ Base = nextSer /\ Last = call.batch /\ nextSer \in Nat
  BY <1>1, CallIs, FrameIs DEF Indices, Active
<1>3. /\ c.pc = "dispatch" /\ c.batch = call.batch + 1 /\ c.count = n /\ c.i = 1 /\ c.err = 0
      /\ c \in CallState /\ c.batch \in 1..MaxBatches
  BY <1>1, <1>2, <1>b DEF CallState
<1>4. Active' /\ Base' = nextSer /\ Last' = call.batch
  BY <1>1, <1>2, <1>3 DEF Active, Base, Last
<1>5. Items' = Items /\ Busy' = Busy /\ Done' = Done
  BY <1>1 DEF Items, Taken, Busy, Done
<1>6. TypeOK' /\ IsFiniteSet(output')
  <2>1. JobsOf(c) \subseteq Jobs
    <3> SUFFICES ASSUME NEW k \in 1..n PROVE JobOf(c, k) \in Jobs
      BY <1>3 DEF JobsOf
    <3>1. k \in Indices
      BY <1>2 DEF Indices
    <3>2. <<c.batch, k>> \in Frames
      BY <3>1, <1>3, FrameIs
    <3> QED
      BY <3>2 DEF JobOf, Jobs
  <2>2. alive' \subseteq Jobs
    BY <2>1, <1>1, <1>a DEF TypeOK
  <2> QED
    BY <2>2, <1>1, <1>3, <1>5, <1>a DEF IInv, TypeOK
<1>7. SerInv' /\ DecInv'
  BY <1>1, <1>5 DEF IInv, SerInv, DecInv
<1>8. CallInv' /\ AliveInv'
  <2>1. curSer <= nextSer
    BY <1>1, <1>2, <1>a DEF CallInv
  <2>2. AliveInv'
    BY <1>1 DEF AliveInv
  <2> QED
    BY <2>1, <2>2, <1>1, <1>2, <1>3, <1>4 DEF CallInv
<1>9. JobInv'
  <2>1. \A x \in Items : x.ser \in Nat /\ x.ser < nextSer /\ ~(x.ser >= nextSer)
    BY ItemsAre, CallIs
  <2> QED
    BY <2>1, <1>1, <1>2, <1>4, <1>5, <1>a DEF JobInv
<1>10. MemInv'
  <2>1. \A j \in Frames : j[1] \in Nat /\ (j[1] <= call.batch =>
                                j[1] <= call.batch + 1 /\ j[1] # call.batch + 1)
    BY <1>2, FrameIs
  <2> QED
    BY <2>1, <1>1, <1>3, <1>a DEF MemInv
<1>11. BadInv'
  <2>1. \A j \in bad : j[1] \in Nat /\ (j[1] <= call.batch =>
                                j[1] <= call.batch + 1 /\ j[1] # call.batch + 1)
    BY <1>2, <1>a, FrameIs DEF TypeOK
  <2> QED
    BY <2>1, <1>1, <1>3, <1>a DEF BadInv
<1>12. RetInv'
  BY <1>1, <1>3 DEF RetInv, Reported
<1>13. FreshInv'
  <2> SUFFICES ASSUME ~failed PROVE FreshInv'
    BY <1>1 DEF FreshInv
  <2>1. Done = {}
    BY <1>2, FreshJob, ItemsAre
  <2>2. curSer = nextSer
    BY <1>1, <1>2, <1>a DEF FreshInv
  <2> QED
    BY <2>1, <2>2, <1>1, <1>3, <1>4, <1>5 DEF FreshInv
<1> QED
  BY <1>6, <1>7, <1>8, <1>9, <1>10, <1>11, <1>12, <1>13 DEF IInv

\* A job is filled in and joins the queue.
LEMMA DispatchOK ==
    ASSUME IInv, Dispatch
    PROVE  IInv'
<1>a. /\ TypeOK /\ call \in CallState /\ input \in Seq(Item) /\ mem \in [Jobs -> Job]
      /\ work \in [Workers -> WorkState]
      /\ CallInv /\ SerInv /\ JobInv /\ MemInv /\ BadInv /\ FreshInv /\ AliveInv
  BY DEF IInv, TypeOK
<1>0. call.pc = "dispatch" /\ Active
  BY DEF Dispatch, Active
<1>b. PICK i \in Indices : i = call.i
  BY <1>0, CallIs
<1>c. PICK b \in 1..MaxBatches : b = call.batch
  BY <1>0, CallIs
<1>d. PICK f \in Frames : f = <<b, i>> /\ f[1] = b /\ f[2] = i
  BY FrameIs
<1>e. PICK j \in Jobs : j = JobOf(call, i) /\ (call.count = 1 => j = Single)
                        /\ (call.count # 1 => j = f)
  BY <1>c, <1>d DEF JobOf, Jobs
<1>f. PICK x \in Item : x = [job |-> j, ser |-> nextSer] /\ x.job = j /\ x.ser = nextSer
  <2>1. nextSer \in Nat
    BY CallIs
  <2>2. [job |-> j, ser |-> nextSer] \in Item
    BY <2>1 DEF Item
  <2> QED
    BY <2>2
<1>1. /\ mem' = [mem EXCEPT ![j] = [frame |-> f, err |-> 0]]
      /\ input' = Append(input, x) /\ Len(input) < QSize
      /\ nextSer' = nextSer + 1
      /\ alive' = alive /\ output' = output /\ curSer' = curSer
      /\ work' = work /\ avail' = avail /\ availCount' = availCount /\ out' = out /\ got' = got
      /\ bad' = bad /\ failed' = failed
  BY <1>b, <1>c, <1>d, <1>e, <1>f DEF Dispatch
<1>l. call' = IF call.i < call.count
              THEN [call EXCEPT !.i = @ + 1]
              ELSE [call EXCEPT !.i = 1, !.pc = "collect"]
  BY DEF Dispatch
<1>g. /\ i \in Nat \ {0} /\ i \in 1..call.count /\ call.count \in 1..MaxCount /\ MaxCount \in Nat
      /\ nextSer \in Nat /\ curSer \in Nat /\ Base \in Nat /\ nextSer = Base + i - 1 /\ curSer <= Base
      /\ QSize \in Nat /\ b \in Nat
  BY <1>0, <1>a, <1>b, <1>c, CallIs, FrameIs DEF CallInv
<1>h. /\ call' \in CallState /\ call'.batch = b /\ call'.count = call.count /\ call'.err = call.err
      /\ call'.pc = IF i < call.count THEN "dispatch" ELSE "collect"
      /\ call'.i = IF i < call.count THEN i + 1 ELSE 1
  <2>1. CASE i < call.count
    <3>1. i + 1 \in 1..(MaxCount + 1)
      BY <2>1, <1>g
    <3> QED
      BY <3>1, <2>1, <1>0, <1>l, <1>a, <1>b, <1>c DEF CallState
  <2>2. CASE ~(i < call.count)
    <3>1. 1 \in 1..(MaxCount + 1)
      BY <1>g
    <3> QED
      BY <3>1, <2>2, <1>l, <1>a, <1>b, <1>c DEF CallState
  <2> QED
    BY <2>1, <2>2
<1>i. Active' /\ Base' = Base /\ Last' = Last
  <2>1. Active'
    BY <1>h DEF Active
  <2>2. Base' = Base
    <3>1. CASE i < call.count
      <4>1. Base' = nextSer' - (call'.i - 1)
        BY <3>1, <1>h DEF Base
      <4>2. call'.i = i + 1 /\ nextSer' = nextSer + 1
        BY <3>1, <1>1, <1>h
      <4> QED
        BY <4>1, <4>2, <1>g
    <3>2. CASE ~(i < call.count)
      <4>1. Base' = nextSer' - call'.count
        BY <3>2, <1>h DEF Base
      <4>2. call'.count = i /\ nextSer' = nextSer + 1
        BY <3>2, <1>1, <1>g, <1>h
      <4> QED
        BY <4>1, <4>2, <1>g
    <3> QED
      BY <3>1, <3>2
  <2> QED
    BY <2>1, <2>2, <1>0, <1>c, <1>h DEF Last
<1>j. /\ mem' \in [Jobs -> Job] /\ mem'[j].frame = f /\ mem'[j].err = 0
      /\ \A p \in Jobs \ {j} : mem'[p] = mem[p]
  <2>1. [frame |-> f, err |-> 0] \in Job
    BY <1>g DEF Job
  <2> QED
    BY <2>1, <1>1, <1>a
<1>k. /\ Len(input) \in Nat /\ input' \in Seq(Item) /\ Len(input') = Len(input) + 1
      /\ DOMAIN input' = 1..(Len(input) + 1) /\ DOMAIN input = 1..Len(input)
      /\ \A m \in 1..Len(input) : input'[m] = input[m]
      /\ input'[Len(input) + 1] = x
  BY <1>1, <1>a
<1>2. Busy' = Busy /\ Done' = Done /\ Taken' = Taken
  BY <1>1 DEF Busy, Done, Taken
<1>3. \A y \in Items' : y \in Items \/ y = x
  <2>1. \A m \in DOMAIN input' : input'[m] = x \/ \E l \in DOMAIN input : input'[m] = input[l]
    BY <1>k
  <2> QED
    BY <2>1, <1>1, <1>2 DEF Items
<1>4. TypeOK' /\ IsFiniteSet(output')
  <2>1. Len(input') <= QSize
    BY <1>1, <1>g, <1>k
  <2>2. nextSer' \in Nat
    BY <1>1, <1>g
  <2> QED
    BY <2>1, <2>2, <1>1, <1>2, <1>a, <1>h, <1>j, <1>k DEF TypeOK, IInv
<1>5. DecInv'
  BY <1>1 DEF IInv, DecInv
<1>6. SerInv'
  <2> DEFINE n == nextSer - Len(input)
  <2>0. nextSer' = nextSer + 1 /\ Len(input') = Len(input) + 1 /\ nextSer \in Nat
        /\ Len(input) \in Nat
    BY <1>1, <1>g, <1>k
  <2>1. nextSer' - Len(input') = n /\ n \in Int
    BY <2>0
  <2>2. \A m \in DOMAIN input : input[m].ser = n + m - 1
    BY <1>a DEF SerInv
  <2>3. x.ser = n + (Len(input) + 1) - 1
    BY <1>f, <1>g, <1>k
  <2> HIDE DEF n
  <2>4. \A m \in DOMAIN input' : input'[m].ser = n + m - 1
    <3> SUFFICES ASSUME NEW m \in 1..(Len(input) + 1) PROVE input'[m].ser = n + m - 1
      BY <1>k
    <3>1. CASE m \in 1..Len(input)
      BY <3>1, <2>2, <1>k
    <3>2. CASE m = Len(input) + 1
      BY <3>2, <2>3, <1>k
    <3> QED
      BY <3>1, <3>2, <1>k
  <2> QED
    BY <2>1, <2>4, <1>1, <1>2, <1>a DEF SerInv, n
<1>7. CallInv'
  <2>1. call'.i \in 1..call'.count
    BY <1>g, <1>h
  <2>2. curSer' <= Base' /\ curSer' <= Base' + 1 - 1
    BY <1>1, <1>g, <1>i
  <2>3. call'.pc = "collect" => call'.i = 1
    BY <1>h
  <2> QED
    BY <2>1, <2>2, <2>3, <1>g, <1>h, <1>i DEF CallInv
<1>8. AliveInv'
  <2>1. JobsOf(call)' = JobsOf(call)
    BY <1>c, <1>h DEF JobsOf, JobOf
  <2> QED
    BY <2>1, <1>0, <1>1, <1>a DEF AliveInv
<1>9. JobInv'
  <2>1. \A k : JobOf(call', k) = JobOf(call, k)
    BY <1>c, <1>h DEF JobOf
  <2>2. ASSUME NEW y \in Items
        PROVE  /\ y.ser >= Base => y.job = JobOf(call', y.ser - Base + 1)
               /\ y.ser < Base => y.job = Single \/ (y.job \in Frames /\ y.job[1] <= Last)
               /\ mem'[y.job].frame # None
    <3>1. y.job \in Jobs /\ f # None
      BY ItemsAre, <1>d, FrameIs
    <3>2. mem'[y.job].frame # None
      BY <3>1, <1>a, <1>j DEF JobInv
    <3> QED
      BY <3>2, <2>1, <1>a DEF JobInv
  <2>3. x.ser - Base + 1 = i /\ ~(x.ser < Base)
    BY <1>f, <1>g
  <2>4. x.job = JobOf(call', x.ser - Base + 1) /\ mem'[x.job].frame # None
    BY <2>1, <2>3, <1>d, <1>e, <1>f, <1>j, FrameIs
  <2> QED
    BY <2>2, <2>3, <2>4, <1>3, <1>i DEF JobInv
<1>10. MemInv'
  <2>0. Frames \subseteq Jobs /\ Single \in Jobs /\ Single \notin Frames
    BY FrameIs DEF Jobs
  <2>1. ASSUME NEW p \in Frames
        PROVE  /\ mem'[p].frame \in {None, p}
               /\ mem'[p].frame # None =>
                     p[1] <= b /\ (call'.pc = "dispatch" /\ p[1] = b => p[2] < call'.i)
               /\ mem'[p].frame # None /\ p \in bad' => mem'[p].err # 0
    <3>1. CASE p = j
      <4>1. p = f
        BY <3>1, <2>0, <1>e
      <4>2. f \notin bad
        BY <1>0, <1>a, <1>b, <1>c, <1>d, <1>g DEF BadInv
      <4>3. call'.pc = "dispatch" => i < call'.i
        BY <1>g, <1>h
      <4> QED
        BY <4>1, <4>2, <4>3, <3>1, <1>1, <1>d, <1>g, <1>j
    <3>2. CASE p # j
      <4>1. mem'[p] = mem[p]
        BY <3>2, <2>0, <1>j
      <4>2. p[2] \in Nat /\ (mem[p].frame # None => p[1] <= b /\ (p[1] = b => p[2] < i))
        BY <1>0, <1>a, <1>b, <1>c, FrameIs DEF MemInv
      <4>3. p[2] < i => (call'.pc = "dispatch" => p[2] < call'.i)
        BY <4>2, <1>g, <1>h
      <4> QED
        BY <4>1, <4>2, <4>3, <1>1, <1>a DEF MemInv
    <3> QED
      BY <3>1, <3>2
  <2>2. ASSUME NEW g, g = mem'[Single].frame, g # None
        PROVE  /\ g \in Frames /\ g[2] = 1 /\ g[1] <= b
               /\ g[1] = b => call.count = 1 /\ call'.pc # "dispatch"
               /\ mem'[g].frame = None
    <3>1. CASE call.count = 1
      <4>1. g = f /\ i = 1 /\ j = Single
        BY <3>1, <2>2, <1>e, <1>g, <1>j
      <4>2. mem[f].frame = None
        BY <4>1, <1>0, <1>a, <1>b, <1>c, <1>d, <1>g DEF MemInv
      <4>3. mem'[f].frame = None
        BY <4>1, <4>2, <2>0, <1>d, <1>j
      <4>4. call'.pc # "dispatch"
        BY <4>1, <3>1, <1>h
      <4> QED
        BY <4>1, <4>3, <4>4, <3>1, <1>d, <1>g
    <3>2. CASE call.count # 1
      <4>1. j = f /\ g = mem[Single].frame
        BY <3>2, <2>0, <2>2, <1>d, <1>e, <1>j
      <4>2. g \in Frames /\ g[2] = 1 /\ g[1] <= b /\ g[1] # b /\ mem[g].frame = None
        BY <4>1, <3>2, <2>2, <1>0, <1>a, <1>c DEF MemInv
      <4>3. g # j
        BY <4>1, <4>2, <1>d
      <4> QED
        BY <4>2, <4>3, <2>0, <1>j
    <3> QED
      BY <3>1, <3>2
  <2>3. call'.pc = "collect" /\ call.count = 1 => mem'[Single].frame = <<b, 1>>
    <3>1. call.count = 1 => j = Single /\ i = 1
      BY <1>e, <1>g
    <3> QED
      BY <3>1, <1>d, <1>j
  <2>4. \A p \in Jobs : mem'[p].err # 0 => mem'[p].frame \in bad' /\ mem'[p].err = mem'[p].frame[2]
    BY <1>1, <1>a, <1>j DEF MemInv
  <2> QED
    BY <2>1, <2>2, <2>3, <2>4, <1>h DEF MemInv
<1>11. BadInv'
  <2>1. \A p \in bad : p[2] \in Nat /\ p[1] <= b /\ (p[1] = b => p[2] < i)
    BY <1>0, <1>a, <1>b, <1>c, FrameIs DEF BadInv, TypeOK
  <2>2. \A p \in bad : call'.pc = "dispatch" /\ p[1] = b => p[2] < call'.i
    BY <2>1, <1>g, <1>h
  <2>3. 1..(curSer - Base) = {}
    BY <1>g
  <2> QED
    BY <2>1, <2>2, <2>3, <1>1, <1>h, <1>i DEF BadInv
<1>12. RetInv'
  BY <1>h DEF RetInv, Reported
<1>13. FreshInv'
  <2> SUFFICES ASSUME ~failed PROVE FreshInv'
    BY <1>1 DEF FreshInv
  <2>1. /\ curSer = Base
        /\ \A y \in Done : mem[y.job].err = 0 => out[mem[y.job].frame[2]] = mem[y.job].frame
    BY <1>0, <1>a DEF FreshInv
  <2>2. ASSUME NEW y \in Done PROVE y.job \in Jobs /\ y.job # j
    <3>0. y \in Items /\ y.job \in Jobs /\ y.ser \in Nat /\ y.ser < nextSer
      BY ItemsAre
    <3>1. y.ser >= Base
      BY <3>0, FreshJob
    <3>2. call.count # 1
      BY <3>0, <3>1, <1>g
    <3>3. mem[y.job].frame = <<call.batch, y.ser - Base + 1>> /\ y.job = <<call.batch, y.ser - Base + 1>>
      BY <3>0, <3>2, FreshJob DEF JobOf
    <3>4. y.ser - Base + 1 # i
      BY <3>0, <3>1, <1>g
    <3> QED
      BY <3>0, <3>2, <3>3, <3>4, <1>d, <1>e
  <2>3. \A y \in Done : mem'[y.job].err = 0 => out'[mem'[y.job].frame[2]] = mem'[y.job].frame
    BY <2>1, <2>2, <1>1, <1>j
  <2>4. curSer' = IF call'.pc = "collect" THEN Base' + call'.i - 1 ELSE Base'
    BY <2>1, <1>1, <1>g, <1>h, <1>i
  <2>5. call'.pc = "collect" => 1..(call'.i - 1) = {}
    BY <1>h
  <2>6. call'.pc # "return"
    BY <1>h
  <2> QED
    BY <2>3, <2>4, <2>5, <2>6, <1>2 DEF FreshInv
<1> QED
  BY <1>4, <1>5, <1>6, <1>7, <1>8, <1>9, <1>10, <1>11, <1>12, <1>13 DEF IInv

\* The next result is collected.
LEMMA CollectOK ==
    ASSUME IInv, Collect
    PROVE  IInv'
<1>a. /\ TypeOK /\ call \in CallState /\ mem \in [Jobs -> Job] /\ output \subseteq Item
      /\ got \in [Indices -> Frames \cup {None}] /\ failed \in BOOLEAN
      /\ CallInv /\ SerInv /\ JobInv /\ MemInv /\ BadInv /\ FreshInv /\ AliveInv
  BY DEF IInv, TypeOK
<1>0. call.pc = "collect" /\ Active
  BY DEF Collect, Active
<1>b. PICK r \in output :
        /\ r.ser = curSer /\ output' = output \ {r} /\ curSer' = curSer + 1
        /\ got' = [got EXCEPT ![call.i] = mem[r.job].frame]
        /\ call' = IF LastFrame(call) \/ ErrorStops(mem[r.job].err)
                   THEN [call EXCEPT !.pc = "return", !.err = mem[r.job].err]
                   ELSE [call EXCEPT !.i = @ + 1]
        /\ failed' = (failed \/ mem[r.job].err # 0)
  BY DEF Collect, NextResult
<1>1. /\ mem' = mem /\ alive' = alive /\ input' = input /\ nextSer' = nextSer /\ work' = work
      /\ avail' = avail /\ availCount' = availCount /\ out' = out /\ bad' = bad
  BY DEF Collect
<1>c. r \in Items /\ r.job \in Jobs /\ r \in Done
  BY ItemsAre DEF Items, Done
<1>d. PICK e \in 0..MaxCount : e = mem[r.job].err
  BY <1>a, <1>c DEF Job
<1>e. PICK f \in Frames : f = mem[r.job].frame
  BY <1>c, FrameOf
<1>f. PICK i \in Indices : i = call.i
  BY <1>0, CallIs
<1>g. /\ i \in Nat \ {0} /\ i \in 1..call.count /\ call.count \in 1..MaxCount /\ MaxCount \in Nat
      /\ nextSer \in Nat /\ curSer \in Nat /\ Base \in Nat /\ nextSer = Base + call.count
      /\ curSer <= Base + i - 1 /\ call.batch \in 1..MaxBatches
  BY <1>0, <1>a, <1>f, CallIs, FrameIs DEF CallInv
<1>h. /\ call' \in CallState /\ call'.batch = call.batch /\ call'.count = call.count
      /\ \/ /\ i = call.count \/ e # 0
            /\ call'.pc = "return" /\ call'.err = e /\ call'.i = i
         \/ i # call.count /\ e = 0 /\ call'.pc = "collect" /\ call'.i = i + 1 /\ call'.err = call.err
  <2>1. CASE LastFrame(call) \/ ErrorStops(e)
    <3>1. i = call.count \/ e # 0
      BY <2>1, <1>f DEF LastFrame, ErrorStops
    <3>2. call' = [call EXCEPT !.pc = "return", !.err = e]
      BY <2>1, <1>b, <1>d
    <3>3. e \in 0..(MaxCount + 1)
      BY <1>g
    <3> QED
      BY <3>1, <3>2, <3>3, <1>a, <1>f DEF CallState
  <2>2. CASE ~(LastFrame(call) \/ ErrorStops(e))
    <3>1. i # call.count /\ e = 0
      BY <2>2, <1>f DEF LastFrame, ErrorStops
    <3>2. call' = [call EXCEPT !.i = @ + 1]
      BY <2>2, <1>b, <1>d
    <3>3. i + 1 \in 1..(MaxCount + 1)
      BY <1>g
    <3> QED
      BY <3>1, <3>2, <3>3, <1>0, <1>a, <1>f DEF CallState
  <2> QED
    BY <2>1, <2>2
<1>i. /\ got' \in [Indices -> Frames \cup {None}] /\ got'[i] = f
      /\ \A k \in Indices \ {i} : got'[k] = got[k]
  BY <1>a, <1>b, <1>e, <1>f
<1>j. failed' = (failed \/ e # 0) /\ failed' \in BOOLEAN
  BY <1>b, <1>d
<1>k. curSer' = curSer + 1 /\ output' = output \ {r} /\ r.ser = curSer /\ curSer' \in Nat
  BY <1>b, <1>g
<1>2. Busy' = Busy /\ Taken' = Taken /\ Items' \subseteq Items /\ Done' \subseteq Done
  BY <1>1, <1>k DEF Busy, Taken, Items, Done
<1>3. TypeOK' /\ IsFiniteSet(output')
  <2>1. IsFiniteSet(output') /\ Cardinality(output') = Cardinality(output) - 1
    BY <1>k, FiniteSets, FS_RemoveElement
  <2>2. Cardinality(output') + Cardinality(Busy') <= QSize
    BY <2>1, <1>2, FiniteSets, FrameIs
  <2>3. output' \subseteq Item
    BY <1>k, <1>a
  <2> QED
    BY <2>1, <2>2, <2>3, <1>1, <1>2, <1>a, <1>h, <1>i, <1>j, <1>k DEF TypeOK
<1>4. DecInv'
  BY <1>1 DEF IInv, DecInv
<1>5. SerInv'
  <2>0. input \in Seq(Item) /\ \A w \in Busy : work[w].ser \in Nat
    BY <1>a, ItemsAre DEF TypeOK
  <2>1. Len(input) \in Nat /\ \A w \in Busy : work[w].ser \in Nat
    BY <2>0
  <2>2. curSer + 1 <= nextSer - Len(input)
    <3>1. r.ser < nextSer - Len(input)
      BY <1>a DEF SerInv
    <3> QED
      BY <3>1, <2>1, <1>g, <1>k
  <2>3. \A w \in Busy : curSer + 1 <= work[w].ser
    <3>1. \A w \in Busy : curSer <= work[w].ser /\ work[w].ser # curSer
      BY <1>a, <1>k DEF SerInv
    <3> QED
      BY <3>1, <2>1, <1>g
  <2>4. \A s \in output' : curSer + 1 <= s.ser
    <3>1. \A s \in output' : s \in output /\ s.ser \in Nat /\ curSer <= s.ser /\ s.ser # curSer
      BY <1>a, <1>k DEF SerInv, Item
    <3> QED
      BY <3>1, <1>g
  <2> QED
    BY <2>2, <2>3, <2>4, <1>1, <1>2, <1>a, <1>k DEF SerInv
<1>6. r.ser >= Base =>
        /\ call.count # 1 => f = <<call.batch, curSer - Base + 1>> /\ f = r.job
        /\ call.count = 1 => f = <<call.batch, 1>> /\ r.job = Single
  <2> SUFFICES ASSUME r.ser >= Base
               PROVE  /\ call.count # 1 => f = <<call.batch, curSer - Base + 1>> /\ f = r.job
                      /\ call.count = 1 => f = <<call.batch, 1>> /\ r.job = Single
    OBVIOUS
  <2>1. r.job = JobOf(call, curSer - Base + 1)
    BY <1>a, <1>c, <1>k DEF JobInv
  <2>2. ASSUME call.count = 1 PROVE f = <<call.batch, 1>> /\ r.job = Single
    BY <2>1, <2>2, <1>0, <1>a, <1>e DEF JobOf, MemInv
  <2>3. ASSUME call.count # 1 PROVE f = <<call.batch, curSer - Base + 1>> /\ f = r.job
    <3>1. r.job = <<call.batch, curSer - Base + 1>>
      BY <2>1, <2>3 DEF JobOf
    <3>2. PICK k \in Nat : k = curSer - Base + 1 /\ k \in 1..MaxCount
      BY <1>g, <1>k
    <3>3. r.job \in Frames
      BY <3>1, <3>2, <1>g, FrameIs DEF Indices
    <3> QED
      BY <3>1, <3>3, <1>c, <1>e, FrameOf
  <2> QED
    BY <2>2, <2>3
<1>7. ~failed' =>
        /\ ~failed /\ e = 0 /\ curSer = Base + i - 1
        /\ f = <<call.batch, i>> /\ out[i] = <<call.batch, i>>
        /\ \A k \in 1..i : Right(k)'
  <2> SUFFICES ASSUME ~failed'
               PROVE  /\ ~failed /\ e = 0 /\ curSer = Base + i - 1
                      /\ f = <<call.batch, i>> /\ out[i] = <<call.batch, i>>
                      /\ \A k \in 1..i : Right(k)'
    OBVIOUS
  <2>1. ~failed /\ e = 0
    BY <1>j
  <2>2. /\ curSer = Base + i - 1 /\ \A k \in 1..(i - 1) : Right(k)
        /\ \A y \in Done : mem[y.job].err = 0 => out[mem[y.job].frame[2]] = mem[y.job].frame
    BY <2>1, <1>0, <1>a, <1>f DEF FreshInv
  <2>3. r.ser >= Base /\ curSer - Base + 1 = i
    BY <2>2, <1>g, <1>k
  <2>4. f = <<call.batch, i>>
    BY <2>3, <1>6, <1>g
  <2>5. out[f[2]] = f
    BY <2>1, <2>2, <1>c, <1>d, <1>e
  <2>6. out[i] = <<call.batch, i>>
    BY <2>4, <2>5
  <2>7. ASSUME NEW k \in 1..i PROVE Right(k)'
    <3>1. CASE k = i
      BY <3>1, <2>4, <2>6, <1>1, <1>h, <1>i DEF Right
    <3>2. CASE k # i
      <4>1. k \in 1..(i - 1) /\ k \in Indices
        BY <3>2, <1>g DEF Indices
      <4> QED
        BY <4>1, <3>2, <2>2, <1>1, <1>h, <1>i DEF Right
    <3> QED
      BY <3>1, <3>2
  <2> QED
    BY <2>1, <2>2, <2>4, <2>6, <2>7
<1>8. ASSUME NEW y \in Done', ~failed', mem'[y.job].err = 0
      PROVE  out'[mem'[y.job].frame[2]] = mem'[y.job].frame
  BY <1>8, <1>1, <1>2, <1>7, <1>a DEF FreshInv
<1>9. CASE /\ i = call.count \/ e # 0
           /\ call'.pc = "return" /\ call'.err = e /\ call'.i = i
  <2>1. curSer' <= nextSer
    <3>1. r.ser < nextSer
      BY <1>c, ItemsAre
    <3> QED
      BY <3>1, <1>g, <1>k
  <2>2. CallInv' /\ JobInv' /\ MemInv' /\ BadInv' /\ AliveInv'
    BY <2>1, <1>0, <1>1, <1>2, <1>9, <1>f, <1>h, EndCall
  <2>3. RetInv'
    <3> SUFFICES ASSUME e \in Indices, f = <<call.batch, i>>
                 PROVE  /\ e = i /\ <<call.batch, i>> \in bad
                        /\ \A k \in 1..(i - 1) :
                              /\ <<call.batch, k>> \notin bad
                              /\ \A y \in Items : y.job # <<call.batch, k>>
      BY <1>1, <1>2, <1>9, <1>h, <1>i DEF RetInv, Reported
    <3>1. e # 0
      BY FrameIs
    <3>2. f \in bad /\ e = f[2]
      BY <3>1, <1>a, <1>c, <1>d, <1>e DEF MemInv
    <3>3. e = i
      BY <3>2
    <3>4. ASSUME NEW k \in 1..(i - 1)
          PROVE  <<call.batch, k>> \notin bad /\ \A y \in Items : y.job # <<call.batch, k>>
      <4>1. call.count # 1 /\ k \in Indices /\ k \in Nat
        BY <1>g DEF Indices
      <4>2. curSer = Base + i - 1
        BY <4>1, <1>0, <1>c, <1>e, <1>k, CurrentJob
      <4>3. k \in 1..(curSer - Base)
        BY <4>1, <4>2, <1>g
      <4>4. <<call.batch, k>> \notin bad
        BY <4>3, <1>0, <1>a DEF BadInv
      <4>5. ASSUME NEW y \in Items, y.job = <<call.batch, k>> PROVE FALSE
        <5>1. y.job \in Frames
          BY <4>1, <4>5, <1>g, FrameIs
        <5>2. mem[y.job].frame = <<call.batch, k>>
          BY <5>1, <4>5, FrameOf
        <5>3. y.ser = Base + k - 1
          BY <5>2, <4>1, <1>0, CurrentJob
        <5>4. curSer <= y.ser
          BY ItemsAre
        <5> QED
          BY <5>3, <5>4, <4>1, <4>2, <1>g
      <4> QED
        BY <4>4, <4>5
    <3> QED
      BY <3>2, <3>3, <3>4
  <2>4. FreshInv'
    <3> SUFFICES ASSUME ~failed' PROVE FreshInv'
      BY DEF FreshInv
    <3>1. e = 0 /\ curSer = Base + i - 1 /\ \A k \in 1..i : Right(k)'
      BY <1>7
    <3>2. i = call.count /\ call'.count = i /\ call'.err = 0
      BY <3>1, <1>9, <1>h
    <3>3. Base' = nextSer
      BY <1>1, <1>9 DEF Base
    <3>4. curSer' = Base'
      BY <3>1, <3>2, <3>3, <1>g, <1>k
    <3> QED
      BY <3>1, <3>2, <3>4, <1>8, <1>9 DEF FreshInv
  <2> QED
    BY <2>2, <2>3, <2>4, <1>3, <1>4, <1>5 DEF IInv
<1>10. CASE i # call.count /\ e = 0 /\ call'.pc = "collect" /\ call'.i = i + 1
            /\ call'.err = call.err
  <2>1. Base' = Base /\ Last' = Last /\ Active'
    BY <1>0, <1>1, <1>10, <1>h DEF Base, Last, Active
  <2>2. CallInv'
    <3>1. i + 1 \in 1..call.count
      BY <1>10, <1>g
    <3>2. curSer' <= Base' + call'.i - 1
      BY <2>1, <1>10, <1>g, <1>k
    <3> QED
      BY <3>1, <3>2, <2>1, <1>10, <1>g, <1>h DEF CallInv
  <2>3. AliveInv'
    <3>1. JobsOf(call)' = JobsOf(call)
      BY <1>h DEF JobsOf, JobOf
    <3> QED
      BY <3>1, <1>0, <1>1, <1>a DEF AliveInv
  <2>4. JobInv'
    <3>1. \A k : JobOf(call', k) = JobOf(call, k)
      BY <1>h DEF JobOf
    <3> QED
      BY <3>1, <2>1, <1>1, <1>2, <1>a DEF JobInv
  <2>5. MemInv'
    BY <1>0, <1>1, <1>10, <1>a, <1>h DEF MemInv
  <2>6. BadInv'
    <3>1. ASSUME NEW k \in 1..(curSer + 1 - Base) PROVE <<call.batch, k>> \notin bad
      <4>1. CASE k \in 1..(curSer - Base)
        BY <4>1, <1>0, <1>a DEF BadInv
      <4>2. CASE k \notin 1..(curSer - Base)
        <5>1. k = curSer - Base + 1 /\ r.ser >= Base
          BY <4>2, <3>1, <1>g, <1>k
        <5>2. call.count # 1
          BY <1>10, <1>g
        <5>3. f = <<call.batch, k>> /\ f = r.job
          BY <5>1, <5>2, <1>6
        <5>4. f # None
          BY FrameIs
        <5> QED
          BY <5>3, <5>4, <1>10, <1>a, <1>d, <1>e DEF MemInv
      <4> QED
        BY <4>1, <4>2
    <3>2. \A p \in bad' : p[1] <= call'.batch
      BY <1>1, <1>a, <1>h DEF BadInv
    <3>3. \A k \in 1..(curSer' - Base') : <<call'.batch, k>> \notin bad'
      <4>1. curSer' - Base' = curSer + 1 - Base
        BY <2>1, <1>g, <1>k
      <4>2. call'.batch = call.batch /\ bad' = bad
        BY <1>1, <1>h
      <4> QED
        BY <4>1, <4>2, <3>1
    <3> QED
      BY <3>2, <3>3, <1>10 DEF BadInv
  <2>7. RetInv'
    BY <1>10 DEF RetInv, Reported
  <2>8. FreshInv'
    <3> SUFFICES ASSUME ~failed' PROVE FreshInv'
      BY DEF FreshInv
    <3>1. curSer = Base + i - 1 /\ \A k \in 1..i : Right(k)'
      BY <1>7
    <3>2. call'.i - 1 = i /\ curSer' = Base' + call'.i - 1
      BY <3>1, <2>1, <1>10, <1>g, <1>k
    <3> QED
      BY <3>1, <3>2, <1>8, <1>10 DEF FreshInv
  <2> QED
    BY <2>2, <2>3, <2>4, <2>5, <2>6, <2>7, <2>8, <1>3, <1>4, <1>5 DEF IInv
<1> QED
  BY <1>9, <1>10, <1>h

----------------------------------------------------------------------------
(* The theorems.                                                           *)

\* The decoder begins with nothing dispatched and every decoder available.
LEMMA InitOK ==
    ASSUME Init
    PROVE  IInv
<1>0. /\ DecoderCount \in Nat /\ QSize \in Nat /\ MaxCount \in Nat /\ MaxBatches \in Nat
      /\ Cardinality(Decoders) = DecoderCount /\ None \notin Frames
  <2>1. DecoderCount \in Nat /\ 1 \in Int
    BY ConstantsAssumption
  <2>2. Cardinality(Decoders) = DecoderCount
    BY <2>1, FS_Interval DEF Decoders
  <2> QED
    BY <2>1, <2>2, FrameIs
<1>1. /\ call.pc = "idle" /\ call.batch = 0 /\ call.count = 0 /\ call.i = 1 /\ call.err = 0
      /\ call \in CallState
  BY <1>0 DEF Init, CallState
<1>2. Idle \in WorkState
  BY DEF Idle, WorkState
<1>3. /\ work \in [Workers -> WorkState]
      /\ \A w \in Workers : work[w].pc = "idle" /\ work[w].dec = None /\ work[w].job = None
  BY <1>2 DEF Init, Idle
<1>4. Busy = {} /\ output = {} /\ input = <<>>
  BY <1>3 DEF Init, Busy
<1>5. input \in Seq(Item) /\ Len(input) = 0 /\ DOMAIN input = {}
  <2>1. <<>> \in Seq(Item)
    OBVIOUS
  <2>2. Len(<<>>) = 0 /\ DOMAIN <<>> = {}
    OBVIOUS
  <2> QED
    BY <2>1, <2>2, <1>4
<1>6. Taken = {} /\ Items = {} /\ Done = {}
  BY <1>3, <1>4, <1>5 DEF Taken, Items, Done
<1>7. /\ mem \in [Jobs -> Job] /\ \A j \in Jobs : mem[j].frame = None /\ mem[j].err = 0
  <2>1. [frame |-> None, err |-> 0] \in Job
    BY <1>0 DEF Job
  <2> QED
    BY <2>1 DEF Init
<1>8. IsFiniteSet(output) /\ Cardinality(output) = 0 /\ Cardinality(Busy) = 0
  BY <1>4, FS_EmptySet
<1>9. TypeOK
  <2>1. Len(input) <= QSize /\ Cardinality(output) + Cardinality(Busy) <= QSize
    BY <1>0, <1>5, <1>8
  <2>2. DecoderCount \in 0..DecoderCount
    BY <1>0
  <2> QED
    BY <2>1, <2>2, <1>1, <1>3, <1>4, <1>5, <1>7 DEF Init, TypeOK, Jobs
<1>10. nextSer = 0 /\ curSer = 0 /\ bad = {} /\ avail = Decoders /\ availCount = DecoderCount
  BY DEF Init
<1>11. ~Active /\ Base = 0
  BY <1>1, <1>10 DEF Active, Base
<1>12. CallInv /\ SerInv /\ AliveInv
  <2>1. CallInv
    BY <1>1, <1>10, <1>11 DEF CallInv
  <2>2. SerInv
    BY <1>4, <1>5, <1>10 DEF SerInv
  <2> QED
    BY <2>1, <2>2, <1>11 DEF AliveInv
<1>13. JobInv /\ RetInv /\ FreshInv /\ BadInv
  BY <1>1, <1>6, <1>10, <1>11 DEF JobInv, RetInv, Reported, FreshInv, BadInv
<1>14. MemInv
  <2>1. Frames \subseteq Jobs /\ Single \in Jobs
    BY DEF Jobs
  <2> QED
    BY <2>1, <1>1, <1>7, <1>10 DEF MemInv
<1>15. DecInv
  BY <1>0, <1>3, <1>10 DEF DecInv
<1> QED
  BY <1>8, <1>9, <1>12, <1>13, <1>14, <1>15 DEF IInv

\* Every step keeps the invariant.
LEMMA NextOK ==
    ASSUME IInv, [Next]_vars
    PROVE  IInv'
<1>1. CASE Next
  <2>1. ASSUME NEW n \in Indices, Call(n) PROVE IInv'
    BY <2>1, CallOK
  <2>2. CASE Destroy
    BY <2>2, BetweenCallsOK
  <2>3. CASE Caller
    <3>1. CASE Dispatch
      BY <3>1, DispatchOK
    <3>2. CASE DispatchFails
      BY <3>2, DispatchFailsOK
    <3>3. CASE Collect
      BY <3>3, CollectOK
    <3>4. CASE Return
      BY <3>4, BetweenCallsOK
    <3>5. CASE Discard
      BY <3>5, DiscardOK
    <3>6. CASE Drain
      BY <3>6, DrainOK
    <3> QED
      BY <2>3, <3>1, <3>2, <3>3, <3>4, <3>5, <3>6 DEF Caller
  <2>4. ASSUME NEW w \in Workers, Work(w) PROVE IInv'
    <3>1. CASE TakeJob(w)
      BY <3>1, TakeJobOK
    <3>2. CASE AcquireDecoder(w)
      BY <3>2, AcquireDecoderOK
    <3>3. CASE Decode(w)
      BY <3>3, DecodeOK
    <3>4. CASE ReleaseDecoder(w)
      BY <3>4, ReleaseDecoderOK
    <3>5. CASE PostResult(w)
      BY <3>5, PostResultOK
    <3> QED
      BY <2>4, <3>1, <3>2, <3>3, <3>4, <3>5 DEF Work
  <2> QED
    BY <1>1, <2>1, <2>2, <2>3, <2>4 DEF Next
<1>2. CASE UNCHANGED vars
  <2>1. /\ mem' = mem /\ input' = input /\ output' = output /\ nextSer' = nextSer
        /\ curSer' = curSer /\ work' = work /\ avail' = avail /\ availCount' = availCount
        /\ out' = out /\ got' = got /\ bad' = bad /\ failed' = failed /\ alive' = alive
        /\ call' = call
    BY <1>2 DEF vars
  <2>2. Items' = Items /\ Done' = Done /\ Busy' = Busy
    BY <2>1 DEF Items, Done, Taken, Busy
  <2>3. TypeOK' /\ IsFiniteSet(output')
    BY <2>1, <2>2 DEF IInv, TypeOK
  <2>4. SerInv' /\ DecInv'
    BY <2>1, <2>2 DEF IInv, SerInv, DecInv
  <2>5. CallInv' /\ JobInv' /\ MemInv' /\ BadInv' /\ RetInv' /\ FreshInv' /\ AliveInv'
    BY <2>1, <2>2, CallFrame
  <2> QED
    BY <2>3, <2>4, <2>5 DEF IInv
<1> QED
  BY <1>1, <1>2

\* The invariant holds of every run of the decoder, whatever the number of
\* workers, decoders, frames and calls (decoder_batch.c:384-492).
THEOREM Invariance == Spec => []IInv
<1>1. Init => IInv
  BY InitOK
<1>2. IInv /\ [Next]_vars => IInv'
  BY NextOK
<1> QED
  BY <1>1, <1>2, PTL DEF Spec

\* A decoder instance is used by one worker at a time, the count of available
\* ones agrees with the flags, and until a call fails no worker has a job that
\* was freed (decoder_batch.c:104-141, 486).
THEOREM WorkersAreSafe == Spec => []WorkersSafe
<1>1. IInv => WorkersSafe
  <2> SUFFICES ASSUME IInv PROVE WorkersSafe
    OBVIOUS
  <2>1. TypeOK /\ DecInv /\ AliveInv
    BY DEF IInv
  <2>2. ASSUME ~failed, NEW w \in Workers, work[w].job # None PROVE work[w].job \in alive
    <3>1. w \in Busy
      BY <2>1, <2>2 DEF DecInv, Busy
    <3>2. PICK x \in Items : x = [job |-> work[w].job, ser |-> work[w].ser]
      BY <3>1, ItemsAre
    <3>3. Active /\ x.ser - Base + 1 \in 1..call.count /\ x.job = JobOf(call, x.ser - Base + 1)
      BY <2>2, FreshJob
    <3>4. x.job \in JobsOf(call)
      BY <3>3 DEF JobsOf
    <3>5. x.job \in alive
      BY <3>3, <3>4, <2>1 DEF AliveInv
    <3> QED
      BY <3>2, <3>5
  <2>3. \A w \in Workers : work[w].dec \notin avail
    BY <2>1, ConstantsAssumption DEF DecInv, TypeOK
  <2> QED
    BY <2>1, <2>2, <2>3 DEF WorkersSafe, DecInv
<1> QED
  BY <1>1, Invariance, PTL

\* Until a call fails, a call that returns 0 has reported the result of every
\* frame at its index and filled every output buffer with its frame, although
\* the workers decode in any order (decoder_batch.c:453-484).
THEOREM OutputsAreRight == Spec => []OutputsRight
<1>1. IInv => OutputsRight
  BY DEF IInv, FreshInv, OutputsRight, BatchInOrder, Right
<1> QED
  BY <1>1, Invariance, PTL

\* A call that stops at one of its own frames returns the error of the first
\* frame that failed, although a later one may have failed before it, and
\* whatever earlier calls left behind (decoder_batch.c:469-477).
THEOREM FirstErrorIsReported == Spec => []FirstErrorReported
<1>1. IInv => FirstErrorReported
  <2> SUFFICES ASSUME IInv, Reported
               PROVE  call.err = Min({k \in Indices : <<call.batch, k>> \in bad})
    BY DEF FirstErrorReported, Reported
  <2> DEFINE B == {k \in Indices : <<call.batch, k>> \in bad}
  <2>1. /\ call.err = call.i /\ <<call.batch, call.i>> \in bad
        /\ \A k \in 1..(call.i - 1) : <<call.batch, k>> \notin bad
    BY DEF IInv, RetInv
  <2>2. call.i \in Indices /\ call.i \in Nat
    BY CallIs DEF Reported
  <2>3. B \in SUBSET Nat /\ call.i \in B
    BY <2>1, <2>2, FrameIs
  <2>4. \A k \in B : k \in Nat /\ k >= 1 /\ k \notin 1..(call.i - 1)
    BY <2>1, FrameIs
  <2> HIDE DEF B
  <2>5. Min(B) \in B /\ Min(B) <= call.i
    BY <2>3, MinIs
  <2>6. Min(B) \in Nat /\ Min(B) >= 1 /\ Min(B) \notin 1..(call.i - 1)
    BY <2>4, <2>5
  <2>7. Min(B) = call.i
    BY <2>2, <2>5, <2>6
  <2> QED
    BY <2>1, <2>7 DEF B
<1> QED
  BY <1>1, Invariance, PTL
============================================================================
