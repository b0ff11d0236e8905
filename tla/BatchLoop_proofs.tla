-------------------------- MODULE BatchLoop_proofs --------------------------
(***************************************************************************)
(* The shared consume loop never loses a message silently, for any number  *)
(* of workers, batch size, topic length and number of faults, and it keeps *)
(* the contract of a pipeline stage.  LoopInv is the inductive invariant.  *)
(* LoopStep is stated for LoopNext or StopAtTop, so that the modules that  *)
(* extend the loop can cite it for their own steps.                        *)
(***************************************************************************)
EXTENDS BatchLoop, TLAPS

AnyLoopNext == LoopNext \/ StopAtTop

\* The pool as Run starts it, on an empty topic.
LEMMA InitInv == LoopInit => LoopInv
<1> SUFFICES ASSUME LoopInit PROVE LoopInv
  OBVIOUS
<1>1. DataOK
  BY BatchLoopAssumption DEF LoopInit, DataOK, Offsets, PCs, Idle
<1>2. NoSilentLoss /\ PosCovered /\ BatchCovered
  BY DEF LoopInit, NoSilentLoss, PosCovered, BatchCovered
<1>3. JobsAccounted /\ LoopShape
  BY DEF LoopInit, JobsAccounted, LoopShape, Dispatched, Idle
<1> QED BY <1>1, <1>2, <1>3 DEF LoopInv

\* A longer topic leaves what was covered covered.
LEMMA ArriveInv ==
  ASSUME NEW m \in Msg, LoopInv, Arrive(m)
  PROVE  LoopInv'
<1>0. log' \in Seq(Msg) /\ Len(log') = Len(log) + 1 /\ Len(log) \in Nat
  BY DEF LoopInv, DataOK, Arrive
<1>1. DataOK'
  BY <1>0, BatchLoopAssumption DEF LoopInv, DataOK, Arrive, Offsets, PCs, runVars, historyVars
<1>2. (NoSilentLoss /\ PosCovered /\ BatchCovered /\ JobsAccounted /\ LoopShape)'
  BY DEF LoopInv, NoSilentLoss, PosCovered, BatchCovered, JobsAccounted,
         LoopShape, Arrive, Settled, InBatch, Dispatched, runVars, historyVars
<1> QED BY <1>1, <1>2 DEF LoopInv

\* Begin and FetchError only move pc.
LEMMA TopInv ==
  ASSUME LoopInv, Begin \/ FetchError
  PROVE  LoopInv'
  BY DEF LoopInv, DataOK, NoSilentLoss, PosCovered, BatchCovered,
         JobsAccounted, LoopShape, Begin, FetchError, Settled, InBatch,
         Dispatched, Offsets, PCs, historyVars

\* readBatch's first message is the one after the reader's position.
LEMMA FetchFirstInv ==
  ASSUME LoopInv, FetchFirst
  PROVE  LoopInv'
<1>1. DataOK'
  BY BatchLoopAssumption DEF LoopInv, DataOK, LoopShape, FetchFirst, Offsets, PCs, Dispatched, historyVars
<1>2. PosCovered'
  <2>1. batch = <<>> /\ \A o : ~InBatch(o)
    BY DEF LoopInv, DataOK, LoopShape, FetchFirst, InBatch, Dispatched
  <2>2. 1..pos \subseteq Settled'
    BY <2>1 DEF LoopInv, PosCovered, FetchFirst, Settled, historyVars
  <2>3. InBatch(pos)'
    BY DEF LoopInv, DataOK, FetchFirst, InBatch
  <2> QED BY <2>2, <2>3 DEF LoopInv, DataOK, PosCovered, FetchFirst
<1>4. BatchCovered'
  BY <1>2 DEF LoopInv, DataOK, PosCovered, BatchCovered, FetchFirst
<1>3. NoSilentLoss' /\ JobsAccounted' /\ LoopShape'
  BY DEF LoopInv, DataOK, NoSilentLoss, JobsAccounted, LoopShape, FetchFirst,
         Settled, Dispatched, historyVars
<1> QED BY <1>1, <1>2, <1>3, <1>4 DEF LoopInv

\* So is every further one; the batch may repeat offsets after a rebalance.
LEMMA DrainInv ==
  ASSUME LoopInv, Drain
  PROVE  LoopInv'
<1>1. /\ batch' \in Seq(Nat)
      /\ Len(batch') = Len(batch) + 1
      /\ \A i \in 1..Len(batch) : batch'[i] = batch[i]
      /\ batch'[Len(batch) + 1] = pos + 1
  BY DEF LoopInv, DataOK, Drain
<1>2. DataOK'
  BY <1>1, BatchLoopAssumption DEF LoopInv, DataOK, Drain, Offsets, PCs, historyVars
<1>3. \A o : InBatch(o) => InBatch(o)'
  BY <1>1 DEF LoopInv, DataOK, InBatch
<1>4. InBatch(pos)'
  <2>1. Len(batch) + 1 \in 1..Len(batch') /\ batch'[Len(batch) + 1] = pos'
    BY <1>1 DEF Drain, LoopInv, DataOK
  <2> QED BY <2>1 DEF InBatch
<1>5. PosCovered'
  BY <1>3, <1>4 DEF LoopInv, DataOK, PosCovered, Drain, Settled, historyVars
<1>6. BatchCovered'
  <2> SUFFICES ASSUME NEW i \in 1..Len(batch'), NEW o \in 1..batch'[i]
               PROVE  o \in Settled' \/ InBatch(o)'
    BY DEF BatchCovered
  <2>1. CASE i = Len(batch) + 1
    BY <2>1, <1>1, <1>5 DEF LoopInv, DataOK, Drain, PosCovered
  <2>2. CASE i \in 1..Len(batch)
    BY <2>2, <1>1, <1>3 DEF LoopInv, DataOK, Drain, BatchCovered, Settled, historyVars
  <2> QED BY <2>1, <2>2, <1>1 DEF LoopInv, DataOK
<1>7. NoSilentLoss' /\ JobsAccounted' /\ LoopShape'
  BY <1>1 DEF LoopInv, DataOK, NoSilentLoss, JobsAccounted, LoopShape, Drain,
         Settled, Dispatched, historyVars
<1> QED BY <1>2, <1>5, <1>6, <1>7 DEF LoopInv

\* wg.Add: from here on every index of the batch is pending.
LEMMA FlushInv ==
  ASSUME LoopInv, Flush
  PROVE  LoopInv'
<1>1. sent = 0 /\ taken = 0 /\ Len(batch) \in Nat \ {0} /\ ~Dispatched
  BY DEF LoopInv, DataOK, LoopShape, Dispatched, Flush
<1>2. DataOK'
  BY BatchLoopAssumption DEF LoopInv, DataOK, Flush, Offsets, PCs, historyVars
<1>3. NoSilentLoss' /\ PosCovered' /\ BatchCovered'
  BY DEF LoopInv, NoSilentLoss, PosCovered, BatchCovered, Flush, Settled,
         InBatch, historyVars
<1>4. \A w \in Worker : held[w] = 0
  BY <1>1 DEF LoopInv, DataOK
<1>5. JobsAccounted'
  BY <1>1, <1>4 DEF JobsAccounted, Flush
<1>6. LoopShape'
  BY <1>1 DEF LoopShape, Dispatched, Flush
<1> QED BY <1>2, <1>3, <1>5, <1>6 DEF LoopInv

\* A job in the channel is still pending.
LEMMA SendInv ==
  ASSUME LoopInv, Send
  PROVE  LoopInv'
<1>1. sent < Len(batch) /\ Dispatched /\ Dispatched' /\ Len(batch) \in Nat
  BY DEF LoopInv, DataOK, LoopShape, Dispatched, Send
<1>2. DataOK'
  BY <1>1 DEF LoopInv, DataOK, Send, Offsets, PCs, historyVars
<1>3. NoSilentLoss' /\ PosCovered' /\ BatchCovered' /\ JobsAccounted'
  BY <1>1 DEF LoopInv, NoSilentLoss, PosCovered, BatchCovered, JobsAccounted,
         Send, Settled, InBatch, historyVars
<1>4. LoopShape'
  BY <1>1 DEF LoopInv, DataOK, LoopShape, Dispatched, Send
<1> QED BY <1>2, <1>3, <1>4 DEF LoopInv

\* At the barrier all of the batch is settled, so its last offset may be
\* committed, and the next batch starts from a covered position.
LEMMA CommitInv ==
  ASSUME LoopInv, NEW stored \in BOOLEAN, Commit(stored) \/ SkipCommit
  PROVE  LoopInv'
<1>1. /\ \A i \in 1..Len(batch) : batch[i] \in Settled
      /\ Len(batch) > 0
      /\ held = Idle
  BY DEF LoopInv, DataOK, JobsAccounted, LoopShape, Dispatched, Commit,
         SkipCommit, Idle
<1>2. \A o : InBatch(o) => o \in Settled
  BY <1>1 DEF InBatch
<1>3. DataOK'
  <2>1. committed' \in 0..Len(log')
    BY <1>1 DEF LoopInv, DataOK, Commit, SkipCommit, Offsets
  <2>2. batch' = <<>> /\ held' \in [Worker -> 0..0]
    BY <1>1 DEF Commit, SkipCommit, Idle
  <2>3. batch' \in Seq(Nat) /\ Len(batch') = 0 /\ pending' = {}
    BY <2>2 DEF Commit, SkipCommit
  <2>4. log' = log /\ pos' = pos /\ done' = done /\ missed' = missed
        /\ faults' = faults /\ sent' = 0 /\ taken' = 0 /\ pc' \in PCs
    BY DEF Commit, SkipCommit, historyVars, PCs
  <2> QED
    BY <2>1, <2>2, <2>3, <2>4, BatchLoopAssumption DEF LoopInv, DataOK, Offsets
<1>4. NoSilentLoss'
  BY <1>1, <1>2
  DEF LoopInv, DataOK, NoSilentLoss, BatchCovered, Commit, SkipCommit,
      Settled, historyVars
<1>5. PosCovered' /\ BatchCovered'
  BY <1>2 DEF LoopInv, PosCovered, BatchCovered, Commit, SkipCommit, Settled,
         InBatch, historyVars
<1>6. pending' = {} /\ batch' = <<>> /\ Len(batch') = 0 /\ ~Dispatched' /\ held' = Idle
  BY <1>1 DEF Commit, SkipCommit, Dispatched
<1>7. JobsAccounted'
  BY <1>6 DEF JobsAccounted, Idle
<1>8. LoopShape'
  BY <1>6 DEF LoopShape, Commit, SkipCommit, Dispatched
<1> QED BY <1>3, <1>4, <1>5, <1>7, <1>8 DEF LoopInv

\* A received job is pending and held by one worker only.
LEMMA TakeInv ==
  ASSUME LoopInv, NEW w \in Worker, Take(w)
  PROVE  LoopInv'
<1>1. DataOK'
  BY BatchLoopAssumption DEF LoopInv, DataOK, Take, Offsets, PCs, historyVars
<1>2. NoSilentLoss' /\ PosCovered' /\ BatchCovered' /\ LoopShape'
  BY DEF LoopInv, NoSilentLoss, PosCovered, BatchCovered, LoopShape, Take, Settled,
         InBatch, Dispatched, historyVars
<1>3. JobsAccounted'
  <2>0. taken \in Nat /\ sent \in Nat /\ Len(batch) \in Nat /\ sent <= Len(batch)
    BY DEF LoopInv, DataOK
  <2>1. Dispatched /\ taken + 1 \in pending
    <3>1. Dispatched
      BY <2>0 DEF LoopInv, LoopShape, Take
    <3>2. taken + 1 \in (taken + 1)..Len(batch)
      BY <2>0 DEF Take
    <3> QED BY <3>1, <3>2 DEF LoopInv, JobsAccounted
  <2>2. \A i \in pending' : i > taken' \/ \E v \in Worker : held'[v] = i
    <3> SUFFICES ASSUME NEW i \in pending, i <= taken + 1
                 PROVE  \E v \in Worker : held'[v] = i
      BY DEF LoopInv, DataOK, Take
    <3>1. CASE i = taken + 1
      BY <3>1 DEF LoopInv, DataOK, Take
    <3>2. CASE i <= taken
      <4>1. PICK v \in Worker : held[v] = i
        BY <3>2 DEF LoopInv, DataOK, JobsAccounted
      <4> QED BY <4>1 DEF LoopInv, DataOK, Take
    <3> QED BY <3>1, <3>2 DEF LoopInv, DataOK
  <2> QED
    BY <2>1, <2>2 DEF LoopInv, DataOK, JobsAccounted, Take, Settled,
       Dispatched, historyVars
<1> QED BY <1>1, <1>2, <1>3 DEF LoopInv

\* A job that is Done is settled and nobody holds it.
LEMMA FinishInv ==
  ASSUME LoopInv, NEW w \in Worker, NEW ok \in BOOLEAN, Finish(w, ok)
  PROVE  LoopInv'
<1>1. held[w] \in pending /\ held[w] \in 1..Len(batch) /\ batch[held[w]] \in Offsets
  BY DEF LoopInv, DataOK, JobsAccounted, Finish
<1>2. Settled' = Settled \cup {batch[held[w]]}
  BY DEF Finish, Settled
<1>3. DataOK'
  <2>0. taken \in Nat
    BY DEF LoopInv, DataOK
  <2>1. held' \in [Worker -> 0..taken']
    BY <2>0 DEF LoopInv, DataOK, Finish
  <2>3. pending' \subseteq 1..Len(batch')
    BY DEF LoopInv, DataOK, Finish
  <2>2. done' \subseteq Offsets /\ missed' \subseteq Offsets
    BY <1>1 DEF LoopInv, DataOK, Finish
  <2> QED BY <2>1, <2>2, <2>3 DEF LoopInv, DataOK, Finish, Offsets, PCs
<1>4. NoSilentLoss' /\ PosCovered' /\ BatchCovered'
  BY <1>2 DEF LoopInv, NoSilentLoss, PosCovered, BatchCovered, Finish, InBatch
<1>5. JobsAccounted'
  <2>1. Dispatched' => \A i \in 1..Len(batch') : i \in pending' \/ batch'[i] \in Settled'
    BY <1>2 DEF LoopInv, JobsAccounted, Finish, Dispatched
  <2>2. Dispatched' => (taken' + 1)..Len(batch') \subseteq pending'
    BY DEF LoopInv, DataOK, JobsAccounted, Finish, Dispatched
  <2>3. \A i \in pending' : i > taken' \/ \E v \in Worker : held'[v] = i
    <3> SUFFICES ASSUME NEW i \in pending', ~(i > taken')
                 PROVE  \E v \in Worker : held'[v] = i
      OBVIOUS
    <3>1. PICK v \in Worker : held[v] = i
      BY DEF LoopInv, JobsAccounted, Finish
    <3> QED BY <3>1, <1>1 DEF LoopInv, DataOK, Finish
  <2>4. \A v \in Worker : held'[v] # 0 =>
            held'[v] \in pending' /\ \A u \in Worker \ {v} : held'[u] # held'[v]
    <3> SUFFICES ASSUME NEW v \in Worker, held'[v] # 0
                 PROVE  held'[v] \in pending' /\ \A u \in Worker \ {v} : held'[u] # held'[v]
      OBVIOUS
    <3>1. v # w /\ held'[v] = held[v] /\ held[v] # held[w] /\ held[v] \in pending
      BY DEF LoopInv, DataOK, JobsAccounted, Finish
    <3> QED BY <3>1 DEF LoopInv, DataOK, JobsAccounted, Finish
  <2> QED BY <2>1, <2>2, <2>3, <2>4 DEF JobsAccounted
<1>6. LoopShape'
  BY <1>1 DEF LoopInv, LoopShape, Finish, Dispatched
<1> QED BY <1>3, <1>4, <1>5, <1>6 DEF LoopInv

\* Cancelling the context changes no job.
LEMMA SignalInv ==
  ASSUME LoopInv, Signal
  PROVE  LoopInv'
  BY BatchLoopAssumption
  DEF LoopInv, DataOK, NoSilentLoss, PosCovered, BatchCovered, JobsAccounted,
      LoopShape, Signal, Fault, Settled, InBatch, Dispatched, Offsets, PCs,
      historyVars

\* The process ends: only what Kafka keeps and the history remain.
LEMMA DieInv ==
  ASSUME LoopInv, Die, faults' \in 0..MaxFaults
  PROVE  LoopInv'
<1>1. batch' = <<>> /\ batch' \in Seq(Nat) /\ Len(batch') = 0 /\ ~Dispatched'
  BY DEF Die, Dispatched
<1>2. held' \in [Worker -> 0..0]
  BY DEF Die, Idle
<1>3. DataOK'
  BY <1>1, <1>2, BatchLoopAssumption DEF LoopInv, DataOK, Die, Offsets, PCs, historyVars
<1>4. NoSilentLoss' /\ PosCovered' /\ BatchCovered'
  BY <1>1 DEF LoopInv, NoSilentLoss, PosCovered, BatchCovered, Die, Settled, historyVars
<1>5. JobsAccounted' /\ LoopShape'
  BY <1>1, <1>2 DEF JobsAccounted, LoopShape, Die, Idle
<1> QED BY <1>3, <1>4, <1>5 DEF LoopInv

\* Restart and Rebalance put the reader back to the committed offset.
LEMMA RewindInv ==
  ASSUME LoopInv, Restart \/ Rebalance
  PROVE  LoopInv'
<1>1. DataOK'
  <2>1. faults' \in 0..MaxFaults
    BY BatchLoopAssumption DEF LoopInv, DataOK, Restart, Rebalance, Fault
  <2>2. pc' \in PCs
    BY DEF LoopInv, DataOK, Restart, Rebalance, PCs
  <2> QED BY <2>1, <2>2 DEF LoopInv, DataOK, Restart, Rebalance, Offsets, historyVars
<1>2. PosCovered'
  BY DEF LoopInv, NoSilentLoss, PosCovered, Restart, Rebalance, Settled, historyVars
<1>3. NoSilentLoss' /\ BatchCovered'
  BY DEF LoopInv, NoSilentLoss, BatchCovered, Restart, Rebalance, Settled,
         InBatch, historyVars
<1>4. JobsAccounted' /\ LoopShape'
  BY DEF LoopInv, JobsAccounted, LoopShape, Restart, Rebalance, Dispatched,
         Settled, historyVars
<1> QED BY <1>1, <1>2, <1>3, <1>4 DEF LoopInv

\* A stuttering step.
LEMMA StutterInv ==
  ASSUME LoopInv, UNCHANGED loopVars
  PROVE  LoopInv'
  BY DEF LoopInv, DataOK, NoSilentLoss, PosCovered, BatchCovered, JobsAccounted,
         LoopShape, Settled, InBatch, Dispatched, Offsets, loopVars, runVars,
         historyVars

\* Every step of the loop, and the filter's halt, preserves LoopInv.
LEMMA LoopStep ==
  ASSUME LoopInv, [AnyLoopNext]_loopVars
  PROVE  LoopInv'
<1>1. CASE \E m \in Msg : Arrive(m)
  BY <1>1, ArriveInv
<1>2. CASE RunStep
  <2>1. CASE Begin \/ FetchError
    BY <2>1, TopInv
  <2>2. CASE FetchFirst
    BY <2>2, FetchFirstInv
  <2>3. CASE Drain
    BY <2>3, DrainInv
  <2>4. CASE Flush
    BY <2>4, FlushInv
  <2>5. CASE Send
    BY <2>5, SendInv
  <2>6. CASE SkipCommit \/ \E stored \in BOOLEAN : Commit(stored)
    BY <2>6, CommitInv
  <2> QED BY <1>2, <2>1, <2>2, <2>3, <2>4, <2>5, <2>6 DEF RunStep
<1>3. CASE \E w \in Worker : WorkerStep(w)
  BY <1>3, TakeInv, FinishInv DEF WorkerStep
<1>4. CASE Lifecycle
  <2>1. CASE Signal
    BY <2>1, SignalInv
  <2>2. CASE Crash
    <3>1. faults' \in 0..MaxFaults
      BY <2>2, BatchLoopAssumption DEF LoopInv, DataOK, Crash, Fault
    <3> QED BY <2>2, <3>1, DieInv DEF Crash
  <2>3. CASE Restart \/ Rebalance
    BY <2>3, RewindInv
  <2> QED BY <1>4, <2>1, <2>2, <2>3 DEF Lifecycle
<1>5. CASE StopAtTop
  <2>1. faults' \in 0..MaxFaults
    BY <1>5 DEF LoopInv, DataOK, StopAtTop
  <2> QED BY <1>5, <2>1, DieInv DEF StopAtTop
<1>6. CASE UNCHANGED loopVars
  BY <1>6, StutterInv
<1> QED BY <1>1, <1>2, <1>3, <1>4, <1>5, <1>6 DEF AnyLoopNext, LoopNext

\* Messages already in the topic stay where they are.
LEMMA LogStable ==
  ASSUME LoopInv, [AnyLoopNext]_loopVars
  PROVE  /\ Offsets \subseteq Offsets'
         /\ \A o \in Offsets : log'[o] = log[o]
<1>1. CASE \E m \in Msg : Arrive(m)
  BY <1>1 DEF LoopInv, DataOK, Arrive, Offsets
<1>2. CASE log' = log
  BY <1>2 DEF Offsets
<1>3. log' = log \/ \E m \in Msg : Arrive(m)
  BY DEF AnyLoopNext, LoopNext, RunStep, WorkerStep, Lifecycle, Begin, FetchFirst,
         FetchError, Drain, Flush, Send, Commit, SkipCommit, Take, Finish, Signal,
         Crash, Die, Restart, Rebalance, StopAtTop, loopVars
<1> QED BY <1>1, <1>2, <1>3

\* LoopInv is an invariant of the consume loop: every message the reader, the batch
\* or the workers are past is settled or accounted for.
THEOREM LoopSpecInv == LoopSpec => []LoopInv
<1>1. LoopInv /\ [LoopNext]_loopVars => LoopInv'
  BY LoopStep DEF AnyLoopNext
<1> QED BY InitInv, <1>1, PTL DEF LoopSpec

\* No silent loss, for every number of workers, batch size, topic length and
\* number of crashes and rebalances.
THEOREM NoSilentLossHolds == LoopSpec => []NoSilentLoss
<1>1. LoopInv => NoSilentLoss
  BY DEF LoopInv
<1> QED BY LoopSpecInv, <1>1, PTL

\* The WaitGroup is a barrier: the group offset moves only when no job of the
\* batch is in the channel or in the hands of a worker.
THEOREM CommitAtBarrierHolds == LoopSpec => CommitAtBarrier
<1>1. ASSUME LoopInv, [LoopNext]_loopVars
      PROVE  [committed' # committed => held = Idle /\ taken = Len(batch)]_loopVars
  <2>1. CASE \E stored \in BOOLEAN : Commit(stored)
    <3>1. pc = "wait" /\ pending = {}
      BY <2>1 DEF Commit
    <3>2. held = Idle
      BY <1>1, <3>1 DEF LoopInv, DataOK, JobsAccounted, Idle
    <3>3. taken = Len(batch)
      <4>1. (taken + 1)..Len(batch) = {}
        BY <1>1, <3>1 DEF LoopInv, JobsAccounted, Dispatched
      <4>2. taken \in Nat /\ Len(batch) \in Nat /\ taken <= Len(batch)
        BY <1>1 DEF LoopInv, DataOK
      <4>3. taken < Len(batch) => taken + 1 \in (taken + 1)..Len(batch)
        BY <4>2
      <4> QED BY <4>1, <4>2, <4>3
    <3> QED BY <3>2, <3>3
  <2>2. CASE ~\E stored \in BOOLEAN : Commit(stored)
    BY <1>1, <2>2
    DEF LoopNext, RunStep, WorkerStep, Lifecycle, Arrive, Begin, FetchFirst,
        FetchError, Drain, Flush, Send, SkipCommit, Take, Finish, Signal, Crash,
        Die, Restart, Rebalance, loopVars
  <2> QED BY <2>1, <2>2
<1> QED BY LoopSpecInv, <1>1, PTL DEF LoopSpec, CommitAtBarrier

\* The two flags of Run are Boolean.
Flags == failed \in BOOLEAN /\ stopping \in BOOLEAN

\* No step of the loop, or of a stage built on it, sets a flag to anything else.
LEMMA FlagsStep == ASSUME Flags, [AnyLoopNext]_loopVars PROVE Flags'
  BY DEF Flags, AnyLoopNext, LoopNext, RunStep, WorkerStep, Lifecycle, Arrive, Begin,
      FetchFirst, FetchError, Drain, Flush, Send, Commit, SkipCommit, Take, Finish,
      Signal, Crash, Die, Restart, Rebalance, StopAtTop, loopVars, runVars

\* Type correctness of the loop's state.
THEOREM LoopTypeCorrect == LoopSpec => []LoopTypeOK
<1>1. LoopInit => Flags
  BY DEF LoopInit, Flags
<1>2. Flags /\ [LoopNext]_loopVars => Flags'
  BY FlagsStep DEF AnyLoopNext
<1>3. LoopInv /\ Flags => LoopTypeOK
  BY DEF LoopInv, LoopTypeOK, Flags
<1> QED BY LoopSpecInv, <1>1, <1>2, <1>3, PTL DEF LoopSpec

\* One step of the loop is one step of the contract, or none.
LEMMA ContractStep ==
  ASSUME LoopInv, [AnyLoopNext]_loopVars
  PROVE  [Contract!ContractNext]_(Contract!contractVars)
<1> USE DEF Contract!ContractNext, Contract!contractVars
<1>1. CASE \E m \in Msg : Arrive(m)
  BY <1>1 DEF LoopInv, DataOK, Arrive, historyVars, Contract!ContractArrive
<1>2. CASE \E stored \in BOOLEAN : Commit(stored)
  <2>1. PICK stored \in BOOLEAN : Commit(stored)
    BY <1>2
  <2>2. LoopInv'
    BY LoopStep
  <2>3. 1..committed' \subseteq done \cup missed
    BY <2>1, <2>2 DEF LoopInv, NoSilentLoss, Settled, Commit, historyVars
  <2>4. committed' \in 0..Len(log)
    BY <2>1, <2>2 DEF LoopInv, DataOK, Commit
  <2>5. Contract!ContractCommit(committed')
    BY <2>1, <2>3 DEF Commit, historyVars, Contract!ContractCommit
  <2> QED BY <2>4, <2>5
<1>3. CASE \E w \in Worker, ok \in BOOLEAN : Finish(w, ok)
  <2>1. PICK w \in Worker, ok \in BOOLEAN : Finish(w, ok)
    BY <1>3
  <2>2. batch[held[w]] \in 1..Len(log)
    BY <2>1 DEF LoopInv, DataOK, JobsAccounted, Finish, Offsets
  <2>3. Contract!ContractSettle({batch[held[w]]}, ok)
    BY <2>1 DEF Finish, Contract!ContractSettle
  <2> QED BY <2>2, <2>3
<1>4. CASE /\ ~\E m \in Msg : Arrive(m)
           /\ ~\E stored \in BOOLEAN : Commit(stored)
           /\ ~\E w \in Worker, ok \in BOOLEAN : Finish(w, ok)
  <2>1. UNCHANGED <<log, done, missed, committed>>
    BY <1>4
    DEF AnyLoopNext, LoopNext, RunStep, WorkerStep, Lifecycle, Begin, FetchFirst,
        FetchError, Drain, Flush, Send, SkipCommit, Take, Signal, Crash, Die,
        Restart, Rebalance, StopAtTop, loopVars, historyVars
  <2> QED BY <2>1
<1> QED BY <1>1, <1>2, <1>3, <1>4

\* The loop, with its batches, worker pool, crashes and rebalances, implements
\* the contract of a pipeline stage.
THEOREM LoopImplementsContract == LoopSpec => ImplementsContract
<1>1. LoopInit => Contract!ContractInit
  BY DEF LoopInit, Contract!ContractInit
<1>2. LoopInv /\ [LoopNext]_loopVars
        => [Contract!ContractNext]_(Contract!contractVars)
  BY ContractStep DEF AnyLoopNext
<1> QED
  BY LoopSpecInv, <1>1, <1>2, PTL
  DEF LoopSpec, ImplementsContract, Contract!ContractSpec
=============================================================================
