--------------------------- MODULE Filter_proofs ---------------------------
(***************************************************************************)
(* LADD compliance of the filter for every list history, message, worker   *)
(* count and fault: what is forwarded was cleared by the list its batch    *)
(* was admitted under or a newer one, and what is behind the group offset  *)
(* is accounted for.  FilterInv is the inductive invariant; its loop part  *)
(* is carried by LoopStep of BatchLoop_proofs.                             *)
(***************************************************************************)
EXTENDS Filter, BatchLoop_proofs

\* Every step of the filter is a step of the shared loop, or leaves it alone.
LEMMA FilterIsLoop ==
  ASSUME [FilterNext]_filterVars
  PROVE  [AnyLoopNext]_loopVars
<1>1. CASE FilterLifecycle
  BY <1>1 DEF FilterLifecycle, FilterCrash, Start, AnyLoopNext, LoopNext, Lifecycle
<1>2. CASE Gate \/ Halt \/ ReadBatch \/ SendJob \/ CommitBatch
  BY <1>2 DEF Gate, Halt, ReadBatch, SendJob, CommitBatch, AnyLoopNext, LoopNext, RunStep
<1>3. CASE \E w \in Worker : Process(w)
  <2>1. PICK w \in Worker : Process(w)
    BY <1>3
  <2>2. CASE Receive(w)
    BY <2>2 DEF Receive, AnyLoopNext, LoopNext, WorkerStep
  <2>3. CASE Decide(w)
    BY <2>3 DEF Decide
  <2>4. CASE Suppress(w)
    BY <2>4 DEF Suppress, AnyLoopNext, LoopNext, WorkerStep
  <2>5. ASSUME NEW ok \in BOOLEAN, NEW written \in BOOLEAN,
               Publish(w, ok, written) \/ DeadLetter(w, ok, written)
        PROVE  AnyLoopNext
    <3>1. Finish(w, ok)
      BY <2>5 DEF Publish, DeadLetter
    <3> QED BY <3>1 DEF AnyLoopNext, LoopNext, WorkerStep
  <2> QED BY <2>1, <2>2, <2>3, <2>4, <2>5 DEF Process
<1>4. CASE \E m \in Msg : Arrive(m) /\ UNCHANGED <<phase, listVars, outVars, ghostVars>>
  BY <1>4 DEF AnyLoopNext, LoopNext
<1>5. CASE (\E l \in Lists : Deliver(l)) \/ Tick \/ Reload
  BY <1>5 DEF Deliver, Tick, Reload
<1>6. CASE UNCHANGED filterVars
  BY <1>6 DEF filterVars
<1> QED BY <1>1, <1>2, <1>3, <1>4, <1>5, <1>6 DEF FilterNext

\* What a worker holds is a message of the topic.
LEMMA HeldInLog ==
  ASSUME LoopInv, NEW w \in Worker, held[w] # 0
  PROVE  held[w] \in 1..Len(batch) /\ Offset(w) \in Offsets
  BY DEF LoopInv, DataOK, JobsAccounted, Offset

\* A step that writes nothing, settles nothing and forgets no list keeps the
\* outputs accounted for.
LEMMA OutputsFrame ==
  ASSUME LoopInv, OutputsKnown, [AnyLoopNext]_loopVars,
         UNCHANGED <<published, dead, done>>, loaded \subseteq loaded'
  PROVE  OutputsKnown'
<1>1. Offsets \subseteq Offsets' /\ \A o \in Offsets : log'[o] = log[o]
  BY LogStable
<1>2. done \subseteq Offsets
  BY DEF LoopInv, DataOK
<1>3. /\ published' \subseteq [offset : Offsets', list : Snapshots, gate : Snapshots]
      /\ \A p \in published : p.offset \in Offsets
  BY <1>1 DEF OutputsKnown
<1>4. \A p \in published' : Cleared(log[p.offset], p.list, p.gate)'
  BY <1>1, <1>3 DEF OutputsKnown, Cleared
<1>5. \A o \in done' : Accounted(o)'
  BY <1>1, <1>2 DEF OutputsKnown, Accounted
<1>6. dead' \subseteq Offsets'
  BY <1>1 DEF OutputsKnown
<1> QED BY <1>3, <1>4, <1>5, <1>6 DEF OutputsKnown, Snapshots

\* The date of a snapshot the store can hold is a number.
LEMMA SnapshotOK ==
  ASSUME StoreKnown
  PROVE  current \in Snapshots /\ current.date \in Nat
<1>1. current \in Snapshots
  BY DEF StoreKnown, Snapshots
<1>2. current.date \in Nat
  BY FilterAssumption DEF StoreKnown, NoSnapshot, Snapshot
<1> QED BY <1>1, <1>2

\* A step that moves no worker, and the gate only when they are all idle, keeps what
\* workers know.
LEMMA WorkerFrame ==
  ASSUME LoopInv, PhaseMatchesHeld, WorkerKnows, [AnyLoopNext]_loopVars,
         phase' = phase, held' = held, judged' = judged,
         (batch' = batch /\ gate' = gate) \/ \A w \in Worker : held[w] = 0
  PROVE  WorkerKnows' /\ PhaseMatchesHeld'
<1>1. PhaseMatchesHeld'
  BY DEF PhaseMatchesHeld
<1>2. ASSUME NEW w \in Worker, phase[w] # "idle"
      PROVE  Held(w)' = Held(w) /\ gate' = gate
  <2>1. held[w] # 0 /\ batch' = batch /\ gate' = gate
    BY <1>2 DEF PhaseMatchesHeld
  <2>2. Offset(w) \in Offsets /\ Offset(w)' = Offset(w)
    BY <2>1, HeldInLog DEF Offset
  <2> QED BY <2>1, <2>2, LogStable DEF Held
<1>3. ASSUME NEW w \in Worker
      PROVE  /\ phase'[w] = "pass" => Cleared(Held(w), judged[w], gate)'
             /\ phase'[w] = "poison" => Held(w)' \in Poison
  <2>1. CASE phase[w] = "pass"
    BY <2>1, <1>2 DEF WorkerKnows, Cleared
  <2>2. CASE phase[w] = "poison"
    BY <2>2, <1>2 DEF WorkerKnows
  <2>3. CASE phase[w] \notin {"pass", "poison"}
    BY <2>3
  <2> QED BY <2>1, <2>2, <2>3
<1> QED BY <1>1, <1>3 DEF WorkerKnows

\* Steps of Run, of the topic and of the group: nothing of the filter moves.
LEMMA QuietInv ==
  ASSUME FilterInv, [FilterNext]_filterVars,
         \/ Gate \/ ReadBatch \/ SendJob \/ CommitBatch
         \/ (Signal \/ Rebalance) /\ UNCHANGED <<phase, listVars, outVars, ghostVars>>
         \/ \E m \in Msg : Arrive(m) /\ UNCHANGED <<phase, listVars, outVars, ghostVars>>
  PROVE  FilterInv'
<1>1. [AnyLoopNext]_loopVars /\ LoopInv
  BY FilterIsLoop DEF FilterInv
<1>2. LoopInv'
  BY <1>1, LoopStep
<1>3. UNCHANGED <<phase, listVars, outVars, judged>> /\ done' = done /\ held' = held
  BY DEF Gate, ReadBatch, SendJob, CommitBatch, Signal, Rebalance, Arrive, Begin,
         FetchFirst, FetchError, Drain, Flush, Send, SkipCommit, Commit,
         historyVars, runVars, ghostVars
<1>4. UNCHANGED <<published, dead, current, active, now, loaded, phase, judged>>
  BY <1>3 DEF listVars, outVars
<1>5. (batch' = batch /\ gate' = gate) \/ \A w \in Worker : held[w] = 0
  <2>1. (batch' = batch /\ gate' = gate) \/ Gate \/ FetchFirst \/ Drain
        \/ (pc = "wait" /\ pending = {})
    BY DEF ghostVars, Gate, ReadBatch, SendJob, CommitBatch, Signal, Rebalance, Arrive, Begin,
           FetchError, Flush, Send, SkipCommit, Commit, runVars
  <2>2. Gate \/ FetchFirst \/ Drain => pending = {}
    BY <1>1 DEF LoopInv, LoopShape, Dispatched, Gate, Begin, FetchFirst, Drain
  <2>3. pending = {} => \A w \in Worker : held[w] = 0
    BY <1>1 DEF LoopInv, JobsAccounted
  <2> QED BY <2>1, <2>2, <2>3
<1>6. StoreKnown' /\ Gated'
  <2>0. StoreKnown'
    BY <1>4 DEF FilterInv, StoreKnown
  <2>1. CASE Gate
    <3>1. gate' = current /\ (~IsDev => current.set # {})
      BY <2>1 DEF Gate, Ready
    <3>2. current \in Snapshots /\ current.date \in Nat
      BY SnapshotOK DEF FilterInv
    <3> QED BY <2>0, <3>1, <3>2, <1>4 DEF FilterInv, Gated, Snapshots
  <2>2. CASE ~Gate
    <3>1. pc' \notin {"top", "down"} => pc \notin {"top", "down"}
      BY <2>2 DEF ReadBatch, SendJob, CommitBatch, Signal, Rebalance, Arrive,
         FetchFirst, FetchError, Drain, Flush, Send, SkipCommit, Commit, runVars
    <3>2. gate' = gate
      BY <2>2 DEF ReadBatch, SendJob, CommitBatch, ghostVars
    <3> QED BY <2>0, <3>1, <3>2, <1>4 DEF FilterInv, Gated, Snapshots
  <2> QED BY <2>1, <2>2
<1>7. WorkerKnows' /\ PhaseMatchesHeld'
  BY <1>1, <1>3, <1>4, <1>5, WorkerFrame DEF FilterInv
<1>8. OutputsKnown'
  BY <1>1, <1>3, <1>4, OutputsFrame DEF FilterInv
<1> QED BY <1>2, <1>6, <1>7, <1>8 DEF FilterInv

\* Steps of the list: the loop and the workers do not move.
LEMMA ListInv ==
  ASSUME FilterInv, [FilterNext]_filterVars,
         (\E l \in Lists : Deliver(l)) \/ Tick \/ Reload
  PROVE  FilterInv'
<1>1. [AnyLoopNext]_loopVars /\ LoopInv
  BY FilterIsLoop DEF FilterInv
<1>2. LoopInv'
  BY <1>1, LoopStep
<1>3. /\ UNCHANGED <<published, dead, phase, done, held, batch, pc, gate, judged>>
      /\ loaded \subseteq loaded'
  BY DEF Deliver, Tick, Reload, outVars, loopVars, runVars, historyVars, ghostVars
<1>4. StoreKnown'
  <2>1. CASE \E l \in Lists : Deliver(l)
    BY <2>1, <1>3 DEF FilterInv, StoreKnown, Deliver
  <2>2. CASE Tick
    BY <2>2, <1>3 DEF FilterInv, StoreKnown, Tick
  <2>3. CASE Reload
    <3>1. active \in Lists /\ active.date # 0
      BY <2>3, FilterAssumption DEF FilterInv, StoreKnown, Reload
    <3>2. current' = Snapshot(active) /\ active \in loaded' /\ loaded' \subseteq Lists
      BY <2>3, <3>1 DEF FilterInv, StoreKnown, Reload
    <3>3. active' = active
      BY <2>3 DEF Reload
    <3> QED BY <3>1, <3>2, <3>3 DEF StoreKnown, Snapshot, NewSet
  <2> QED BY <2>1, <2>2, <2>3
<1>5. WorkerKnows' /\ PhaseMatchesHeld'
  BY <1>1, <1>3, WorkerFrame DEF FilterInv
<1>6. OutputsKnown'
  BY <1>1, <1>3, OutputsFrame DEF FilterInv
<1>7. Gated'
  <2>1. current'.date >= current.date
    <3>1. current.date \in Nat
      BY SnapshotOK DEF FilterInv
    <3>2. CASE Reload
      <4>1. active \in Lists /\ active.date > current.date /\ current'.date = active.date
        BY <3>2 DEF FilterInv, StoreKnown, Reload, Snapshot
      <4> QED BY <3>1, <4>1, FilterAssumption
    <3>3. CASE ~Reload
      BY <3>1, <3>3 DEF Deliver, Tick
    <3> QED BY <3>2, <3>3
  <2>2. current.date \in Nat /\ current'.date \in Nat
    <3>1. current'.date = 0 \/ \E l \in Lists : current'.date = l.date
      BY <1>4 DEF StoreKnown, NoSnapshot, Snapshot
    <3>2. current'.date \in Nat
      BY <3>1, FilterAssumption
    <3>3. current.date \in Nat
      BY SnapshotOK DEF FilterInv
    <3> QED BY <3>2, <3>3
  <2>3. gate.date \in Nat
    BY FilterAssumption DEF FilterInv, Gated, Snapshots, NoSnapshot, Snapshot
  <2> QED BY <2>1, <2>2, <2>3, <1>3 DEF FilterInv, Gated, Snapshots
<1> QED BY <1>2, <1>4, <1>5, <1>6, <1>7 DEF FilterInv

\* The process stops at the gate, dies or starts: no worker is at work after.
LEMMA EndInv ==
  ASSUME FilterInv, [FilterNext]_filterVars,
         Halt \/ FilterCrash \/ \E ok \in BOOLEAN : Start(ok)
  PROVE  FilterInv'
<1>1. [AnyLoopNext]_loopVars /\ LoopInv
  BY FilterIsLoop DEF FilterInv
<1>2. LoopInv'
  BY <1>1, LoopStep
<1>3. loaded \subseteq loaded' /\ done' = done /\ pc' \in {"top", "down"}
  BY DEF Halt, FilterCrash, Start, Load, StopAtTop, Crash, Die, Restart, listVars,
         historyVars
<1>4. \A w \in Worker : held'[w] = 0 /\ phase'[w] = "idle"
  <2>1. CASE FilterCrash
    BY <2>1 DEF FilterCrash, Crash, Die, Idle, AllIdle
  <2>2. CASE Halt
    <3>1. pending = {}
      BY <2>2, <1>1 DEF Halt, StopAtTop, LoopInv, LoopShape, Dispatched
    <3>2. \A w \in Worker : held[w] = 0
      BY <3>1, <1>1 DEF LoopInv, JobsAccounted
    <3> QED BY <2>2, <3>2 DEF FilterInv, PhaseMatchesHeld, Halt, StopAtTop, Die, Idle
  <2>3. CASE \E ok \in BOOLEAN : Start(ok)
    <3>1. pending = {}
      BY <2>3, <1>1 DEF Start, Restart, LoopInv, LoopShape, Dispatched
    <3>2. \A w \in Worker : held[w] = 0
      BY <3>1, <1>1 DEF LoopInv, JobsAccounted
    <3> QED BY <2>3, <3>2 DEF FilterInv, PhaseMatchesHeld, Start, Restart
  <2> QED BY <2>1, <2>2, <2>3
<1>5. PhaseMatchesHeld' /\ WorkerKnows'
  <2>1. phase' \in [Worker -> {"idle", "got", "pass", "poison"}]
    BY DEF FilterInv, PhaseMatchesHeld, Halt, FilterCrash, Start, AllIdle
  <2> QED BY <2>1, <1>4 DEF PhaseMatchesHeld, WorkerKnows
<1>8. Gated'
  BY <1>3 DEF FilterInv, Gated, Snapshots, Halt, FilterCrash, Start, ghostVars
<1>6. StoreKnown'
  <2>1. CASE Halt \/ FilterCrash
    BY <2>1, <1>3 DEF FilterInv, StoreKnown, Halt, FilterCrash, listVars
  <2>2. CASE \E ok \in BOOLEAN : Start(ok)
    <3>1. PICK ok \in BOOLEAN : Start(ok)
      BY <2>2
    <3>2. active' = active
      BY <3>1 DEF Start
    <3>3. CASE IsDev \/ active = NoList \/ ~ok
      BY <3>1, <3>2, <3>3, <1>3 DEF FilterInv, StoreKnown, Start, Load
    <3>4. CASE ~(IsDev \/ active = NoList \/ ~ok)
      BY <3>1, <3>2, <3>4, <1>3
      DEF FilterInv, StoreKnown, Start, Load, Snapshot, NewSet
    <3> QED BY <3>3, <3>4
  <2> QED BY <2>1, <2>2
<1>7. OutputsKnown'
  <2>1. CASE UNCHANGED <<published, dead>>
    BY <2>1, <1>1, <1>3, OutputsFrame DEF FilterInv
  <2>2. CASE FilterCrash
    <3>1. /\ log' = log /\ loaded' = loaded /\ Offsets' = Offsets
          /\ published \subseteq published' /\ dead \subseteq dead'
          /\ published' \subseteq published \cup {Forward(w) : w \in InPhase("pass")}
          /\ dead' \subseteq dead \cup {Offset(w) : w \in InPhase("poison")}
      BY <2>2 DEF FilterCrash, Crash, Die, listVars, Offsets
    <3>2. \A w \in Worker : phase[w] # "idle" => Offset(w) \in Offsets
      BY <1>1, HeldInLog DEF FilterInv, PhaseMatchesHeld
    <3>3. \A w \in InPhase("pass") :
              Forward(w) \in [offset : Offsets, list : Snapshots, gate : Snapshots]
      BY <3>2 DEF InPhase, Forward, FilterInv, Gated
    <3>4. \A p \in published' : Cleared(log[p.offset], p.list, p.gate)
      <4>1. \A w \in InPhase("pass") : Cleared(log[Offset(w)], judged[w], gate)
        BY DEF InPhase, FilterInv, WorkerKnows, Held
      <4> QED BY <4>1, <3>1 DEF Forward, FilterInv, OutputsKnown
    <3>5. \A o \in done' : Accounted(o)'
      BY <3>1, <1>3 DEF FilterInv, OutputsKnown, Accounted
    <3>6. published' \subseteq [offset : Offsets, list : Snapshots, gate : Snapshots]
      BY <3>1, <3>3 DEF FilterInv, OutputsKnown
    <3>7. dead' \subseteq Offsets
      BY <3>1, <3>2 DEF InPhase, FilterInv, OutputsKnown
    <3> QED BY <3>1, <3>4, <3>5, <3>6, <3>7 DEF OutputsKnown, Snapshots, Cleared
  <2>3. FilterCrash \/ UNCHANGED <<published, dead>>
    BY DEF Halt, Start, outVars
  <2> QED BY <2>1, <2>2, <2>3
<1> QED BY <1>2, <1>5, <1>6, <1>7, <1>8 DEF FilterInv

\* What process may assume and must leave alone in every one of its steps.
LEMMA ProcessFrame ==
  ASSUME FilterInv, [FilterNext]_filterVars, NEW w \in Worker,
         Receive(w) \/ Decide(w) \/ Suppress(w)
         \/ \E ok, written \in BOOLEAN :
                Publish(w, ok, written) \/ DeadLetter(w, ok, written)
  PROVE  /\ LoopInv'
         /\ UNCHANGED <<log, batch, committed, current, active, now, loaded, gate>>
         /\ StoreKnown' /\ Gated'
         /\ \A v \in Worker \ {w} :
               held'[v] = held[v] /\ phase'[v] = phase[v] /\ judged'[v] = judged[v]
<1>1. LoopInv'
  BY FilterIsLoop, LoopStep DEF FilterInv
<1>2. UNCHANGED <<log, batch, pc, committed, current, active, now, loaded, gate>>
  BY DEF Receive, Decide, Suppress, Publish, DeadLetter, Take, Finish, listVars,
         loopVars, runVars, ghostVars
<1>3. StoreKnown'
  BY <1>2 DEF FilterInv, StoreKnown
<1>4. \A v \in Worker \ {w} : held'[v] = held[v] /\ phase'[v] = phase[v]
  BY DEF FilterInv, LoopInv, DataOK, PhaseMatchesHeld, Receive, Decide, Suppress,
         Publish, DeadLetter, Take, Finish, loopVars, runVars
<1>5. judged \in [Worker -> Snapshots]
  BY DEF FilterInv, Gated
<1>6. \/ judged' = judged
      \/ judged' = [judged EXCEPT ![w] = current]
      \/ judged' = [judged EXCEPT ![w] = NoSnapshot]
  BY DEF Receive, Decide, Suppress, Publish, DeadLetter, ghostVars
<1>7. current \in Snapshots /\ NoSnapshot \in Snapshots
  BY SnapshotOK DEF FilterInv, Snapshots
<1>8. \A v \in Worker \ {w} : judged'[v] = judged[v]
  BY <1>5, <1>6
<1>9. judged' \in [Worker -> Snapshots]
  BY <1>5, <1>6, <1>7
<1>10. Gated'
  BY <1>2, <1>9 DEF FilterInv, Gated, Snapshots
<1> QED BY <1>1, <1>2, <1>3, <1>4, <1>8, <1>10

\* The rest of the invariant, from what the acting worker itself knows.
LEMMA ProcessKnows ==
  ASSUME FilterInv, NEW w \in Worker,
         UNCHANGED <<log, batch, gate>>,
         \A v \in Worker \ {w} :
            held'[v] = held[v] /\ phase'[v] = phase[v] /\ judged'[v] = judged[v],
         phase' \in [Worker -> {"idle", "got", "pass", "poison"}],
         phase'[w] = "idle" <=> held'[w] = 0,
         phase'[w] = "pass" => Cleared(Held(w), judged'[w], gate) /\ held'[w] = held[w],
         phase'[w] = "poison" => Held(w) \in Poison /\ held'[w] = held[w]
  PROVE  PhaseMatchesHeld' /\ WorkerKnows'
<1>1. PhaseMatchesHeld'
  BY DEF FilterInv, PhaseMatchesHeld
<1>2. \A v \in Worker : held'[v] = held[v] => Held(v)' = Held(v)
  BY DEF Held, Offset
<1>3. ASSUME NEW v \in Worker
      PROVE  /\ phase'[v] = "pass" => Cleared(Held(v)', judged'[v], gate')
             /\ phase'[v] = "poison" => Held(v)' \in Poison
  <2>1. CASE v = w
    BY <2>1, <1>2
  <2>2. CASE v # w
    BY <2>2, <1>2 DEF FilterInv, WorkerKnows
  <2> QED BY <2>1, <2>2
<1>4. \A m, l, g : Cleared(m, l, g)' <=> Cleared(m, l, g)
  BY DEF Cleared
<1> QED BY <1>1, <1>3 DEF WorkerKnows, Cleared

\* A worker receives a message or judges it: nothing is written or settled.
LEMMA JudgeInv ==
  ASSUME FilterInv, [FilterNext]_filterVars, NEW w \in Worker,
         Receive(w) \/ Decide(w)
  PROVE  FilterInv'
<1>1. /\ LoopInv' /\ StoreKnown' /\ Gated'
      /\ UNCHANGED <<log, batch, loaded, current, gate>>
      /\ \A v \in Worker \ {w} :
            held'[v] = held[v] /\ phase'[v] = phase[v] /\ judged'[v] = judged[v]
  BY ProcessFrame
<1>2. phase' \in [Worker -> {"idle", "got", "pass", "poison"}]
  BY DEF FilterInv, PhaseMatchesHeld, Receive, Decide
<1>3. OutputsKnown'
  <2>1. UNCHANGED <<published, dead, done>>
    BY DEF Receive, Decide, Take, outVars, loopVars, historyVars
  <2> QED BY <2>1, <1>1, FilterIsLoop, OutputsFrame DEF FilterInv
<1>4. CASE Receive(w)
  <2>1. phase'[w] = "got" /\ held'[w] # 0
    BY <1>4 DEF FilterInv, LoopInv, DataOK, PhaseMatchesHeld, Receive, Take
  <2>2. PhaseMatchesHeld' /\ WorkerKnows'
    BY <1>1, <1>2, <2>1, ProcessKnows
  <2> QED BY <1>1, <1>3, <2>2 DEF FilterInv
<1>5. CASE Decide(w)
  <2>1. held'[w] = held[w] /\ held[w] # 0 /\ phase'[w] \in {"pass", "poison"}
    BY <1>5 DEF FilterInv, PhaseMatchesHeld, Decide, loopVars, runVars
  <2>2. phase'[w] = "poison" => Held(w) \in Poison
    BY <1>5 DEF FilterInv, PhaseMatchesHeld, Decide
  <2>3. ASSUME phase'[w] = "pass"
        PROVE  Cleared(Held(w), judged'[w], gate)
    <3>1. Held(w) \notin Poison /\ ~Blocks(current.set, Held(w))
      BY <1>5, <2>3 DEF FilterInv, PhaseMatchesHeld, Decide
    <3>2. judged'[w] = current
      BY <1>5, <2>3 DEF FilterInv, PhaseMatchesHeld, Gated, Decide
    <3>3. pc \notin {"top", "down"}
      BY <2>1 DEF FilterInv, LoopInv, JobsAccounted, LoopShape, Dispatched
    <3>4. (~IsDev => gate.set # {}) /\ current.date >= gate.date
      BY <3>3 DEF FilterInv, Gated
    <3> QED BY <3>1, <3>2, <3>4 DEF Cleared
  <2>4. PhaseMatchesHeld' /\ WorkerKnows'
    BY <1>1, <1>2, <2>1, <2>2, <2>3, ProcessKnows
  <2> QED BY <1>1, <1>3, <2>4 DEF FilterInv
<1> QED BY <1>4, <1>5

\* A worker ends a message, after a write or a suppression.
LEMMA SettleInv ==
  ASSUME FilterInv, [FilterNext]_filterVars, NEW w \in Worker,
         Suppress(w)
         \/ \E ok, written \in BOOLEAN :
                Publish(w, ok, written) \/ DeadLetter(w, ok, written)
  PROVE  FilterInv'
<1>1. /\ LoopInv' /\ StoreKnown' /\ Gated'
      /\ UNCHANGED <<log, batch, loaded, current, gate>>
      /\ \A v \in Worker \ {w} :
            held'[v] = held[v] /\ phase'[v] = phase[v] /\ judged'[v] = judged[v]
  BY ProcessFrame
<1>2. /\ phase' \in [Worker -> {"idle", "got", "pass", "poison"}]
      /\ phase'[w] = "idle" /\ held'[w] = 0 /\ held[w] # 0
  BY DEF FilterInv, LoopInv, DataOK, PhaseMatchesHeld, Suppress, Publish,
         DeadLetter, Finish
<1>3. PhaseMatchesHeld' /\ WorkerKnows'
  BY <1>1, <1>2, ProcessKnows
<1>4. Offset(w) \in Offsets /\ Offsets' = Offsets
  BY <1>1, <1>2, HeldInLog DEF FilterInv, Offsets
<1>5. /\ published \subseteq published' /\ dead \subseteq dead'
      /\ published' \subseteq published \cup {Forward(w)}
      /\ dead' \subseteq dead \cup {Offset(w)}
  BY DEF Suppress, Publish, DeadLetter, outVars
<1>6. Forward(w) \in [offset : Offsets, list : Snapshots, gate : Snapshots]
  BY <1>4 DEF Forward, FilterInv, Gated
<1>7. \A p \in published' : Cleared(log[p.offset], p.list, p.gate)
  <2>1. ASSUME Forward(w) \in published', Forward(w) \notin published
        PROVE  Cleared(log[Offset(w)], judged[w], gate)
    <3>1. phase[w] = "pass"
      BY <2>1 DEF Suppress, Publish, DeadLetter, outVars
    <3> QED BY <3>1 DEF FilterInv, WorkerKnows, Held
  <2>2. \A p \in published : Cleared(log[p.offset], p.list, p.gate)
    BY DEF FilterInv, OutputsKnown
  <2>3. /\ Forward(w).offset = Offset(w)
        /\ Forward(w).list = judged[w] /\ Forward(w).gate = gate
    BY DEF Forward
  <2> QED BY <2>1, <2>2, <2>3, <1>5
<1>8. \A o \in done' : Accounted(o)'
  <2>1. done' \subseteq done \cup {Offset(w)}
    BY DEF Suppress, Publish, DeadLetter, Finish, Offset
  <2>2. \A o \in done : Accounted(o)'
    BY <1>1, <1>5 DEF FilterInv, OutputsKnown, Accounted
  <2>3. ASSUME NEW o \in done', o \notin done
        PROVE  Accounted(o)'
    <3>0. o = Offset(w)
      BY <2>1, <2>3
    <3>1. CASE Suppress(w)
      <4>1. Blocks(current.set, log[Offset(w)])
        BY <3>1 DEF Suppress, Held
      <4>2. current # NoSnapshot
        BY <4>1 DEF Blocks, Has, NoSnapshot
      <4>3. \E l \in loaded : current = Snapshot(l)
        BY <4>2 DEF FilterInv, StoreKnown
      <4>4. \E l \in loaded : Blocks(NewSet(l.ids), log[Offset(w)])
        BY <4>1, <4>3 DEF Snapshot
      <4> QED BY <3>0, <4>4, <1>1 DEF Accounted
    <3>2. CASE \E ok, written \in BOOLEAN :
                 Publish(w, ok, written) \/ DeadLetter(w, ok, written)
      <4>1. PICK ok \in BOOLEAN, written \in BOOLEAN :
              Publish(w, ok, written) \/ DeadLetter(w, ok, written)
        BY <3>2
      <4>2. ok
        BY <4>1, <2>3 DEF Publish, DeadLetter, Finish
      <4>3. Forward(w) \in published' \/ Offset(w) \in dead'
        BY <4>1, <4>2 DEF Publish, DeadLetter
      <4>4. Forward(w).offset = Offset(w)
        BY DEF Forward
      <4> QED BY <3>0, <4>3, <4>4 DEF Accounted
    <3> QED BY <3>1, <3>2
  <2> QED BY <2>1, <2>2, <2>3
<1>9. published' \subseteq [offset : Offsets', list : Snapshots, gate : Snapshots]
  BY <1>4, <1>5, <1>6 DEF FilterInv, OutputsKnown
<1>10. dead' \subseteq Offsets'
  BY <1>4, <1>5 DEF FilterInv, OutputsKnown
<1>11. \A p \in published' : Cleared(log[p.offset], p.list, p.gate)'
  BY <1>1, <1>7 DEF Cleared
<1>12. OutputsKnown'
  BY <1>8, <1>9, <1>10, <1>11 DEF OutputsKnown, Snapshots
<1> QED BY <1>1, <1>3, <1>12 DEF FilterInv

\* The first start of the filter, with a list mounted or not.
LEMMA FilterInitInv == FilterInit => FilterInv
<1> SUFFICES ASSUME FilterInit PROVE FilterInv
  OBVIOUS
<1>1. LoopInv
  BY InitInv DEF FilterInit
<1>2. PhaseMatchesHeld
  BY DEF FilterInit, LoopInit, PhaseMatchesHeld, AllIdle, Idle
<1>3. StoreKnown
  <2>1. pc = "top"
    BY DEF FilterInit, LoopInit
  <2>2. CASE IsDev \/ active = NoList
    BY <2>1, <2>2 DEF FilterInit, StoreKnown
  <2>3. CASE ~(IsDev \/ active = NoList)
    BY <2>1, <2>3 DEF FilterInit, StoreKnown
  <2> QED BY <2>2, <2>3
<1>4. WorkerKnows /\ OutputsKnown
  BY DEF FilterInit, LoopInit, WorkerKnows, OutputsKnown, AllIdle
<1>5. Gated
  BY DEF FilterInit, LoopInit, Gated, Snapshots
<1> QED BY <1>1, <1>2, <1>3, <1>4, <1>5 DEF FilterInv

\* Every step of the filter preserves its invariant.
LEMMA FilterStep ==
  ASSUME FilterInv, [FilterNext]_filterVars
  PROVE  FilterInv'
<1>1. CASE \/ Gate \/ ReadBatch \/ SendJob \/ CommitBatch
           \/ (Signal \/ Rebalance) /\ UNCHANGED <<phase, listVars, outVars, ghostVars>>
           \/ \E m \in Msg : Arrive(m) /\ UNCHANGED <<phase, listVars, outVars, ghostVars>>
  BY <1>1, QuietInv
<1>2. CASE (\E l \in Lists : Deliver(l)) \/ Tick \/ Reload
  BY <1>2, ListInv
<1>3. CASE Halt \/ FilterCrash \/ \E ok \in BOOLEAN : Start(ok)
  BY <1>3, EndInv
<1>4. CASE \E w \in Worker : Process(w)
  BY <1>4, JudgeInv, SettleInv DEF Process
<1>5. CASE UNCHANGED filterVars
  <2>1. LoopInv'
    BY <1>5, StutterInv DEF FilterInv, filterVars
  <2>2. UNCHANGED <<phase, current, active, loaded, published, dead, log, batch,
                    held, pc, done, gate, judged>>
    BY <1>5 DEF filterVars, listVars, outVars, loopVars, runVars, historyVars, ghostVars
  <2>3. PhaseMatchesHeld' /\ StoreKnown' /\ Gated'
    BY <2>2 DEF FilterInv, PhaseMatchesHeld, StoreKnown, Gated, Snapshots
  <2>4. WorkerKnows' /\ OutputsKnown'
    BY <2>2 DEF FilterInv, WorkerKnows, OutputsKnown, Cleared, Accounted, Held,
       Offset, Offsets, Snapshots
  <2> QED BY <2>1, <2>3, <2>4 DEF FilterInv
<1> QED BY <1>1, <1>2, <1>3, <1>4, <1>5 DEF FilterNext, FilterLifecycle

\* FilterInv is an invariant of the filter: besides the loop's, a worker forwards only
\* by the list its batch was admitted under, or a newer one.
THEOREM FilterSpecInv == FilterSpec => []FilterInv
<1>1. FilterInv /\ [FilterNext]_filterVars => FilterInv'
  BY FilterStep
<1> QED BY FilterInitInv, <1>1, PTL DEF FilterSpec

\* The clock of the model stays in its bounds.
LEMMA NowStep ==
  ASSUME now \in 1..MaxNow, [FilterNext]_filterVars
  PROVE  now' \in 1..MaxNow
<1>1. CASE Tick
  BY <1>1, FilterAssumption DEF Tick
<1>2. CASE ~Tick
  BY <1>2
  DEF FilterNext, FilterLifecycle, Deliver, Reload, Gate, Halt, ReadBatch, SendJob,
      CommitBatch, Process, Receive, Decide, Suppress, Publish, DeadLetter,
      FilterCrash, Start, listVars, filterVars
<1> QED BY <1>1, <1>2

\* Type correctness of the filter's state; in particular the store holds a list that
\* was mounted, or none.
THEOREM FilterTypeCorrect == FilterSpec => []FilterTypeOK
<1> DEFINE Rest == Flags /\ now \in 1..MaxNow
<1>1. FilterInit => Rest
  <2> SUFFICES ASSUME FilterInit PROVE Rest
    OBVIOUS
  <2>1. Flags
    BY Zenon DEF FilterInit, LoopInit, Flags
  <2>2. now = 1
    BY Zenon DEF FilterInit
  <2>3. now \in 1..MaxNow
    BY <2>2, FilterAssumption
  <2> QED BY <2>1, <2>3
<1>2. Rest /\ [FilterNext]_filterVars => Rest'
  BY FilterIsLoop, FlagsStep, NowStep
<1>3. FilterInv /\ Rest => FilterTypeOK
  <2> SUFFICES ASSUME FilterInv, Rest PROVE FilterTypeOK
    OBVIOUS
  <2>1. LoopTypeOK
    BY DEF FilterInv, LoopInv, LoopTypeOK, Flags
  <2>2. current \in Snapshots
    BY SnapshotOK DEF FilterInv
  <2> QED BY <2>1, <2>2 DEF FilterInv, PhaseMatchesHeld, StoreKnown, Gated, OutputsKnown,
       FilterTypeOK
<1> HIDE DEF Rest
<1> QED BY FilterSpecInv, <1>1, <1>2, <1>3, PTL DEF FilterSpec

\* LADD compliance: what is forwarded was judged by a list that did not name it, and
\* that list was the one its batch was admitted under or a newer one.
THEOREM ForwardedWasUnlistedHolds == FilterSpec => []ForwardedWasUnlisted
<1>1. FilterInv => ForwardedWasUnlisted
  BY DEF FilterInv, OutputsKnown, Cleared, ForwardedWasUnlisted
<1> QED BY FilterSpecInv, <1>1, PTL

\* Nothing vanishes: what is behind the group offset was forwarded, dead-
\* lettered, named by a list, or its processing ended in an error.
THEOREM CommittedAccountedHolds == FilterSpec => []CommittedAccounted
<1>1. FilterInv => CommittedAccounted
  BY DEF FilterInv, LoopInv, NoSilentLoss, Settled, OutputsKnown, CommittedAccounted
<1> QED BY FilterSpecInv, <1>1, PTL

\* Within one process the list in force never goes back to an older one.
THEOREM EffectiveDateNeverBackHolds == FilterSpec => EffectiveDateNeverBack
<1>1. ASSUME FilterInv, [FilterNext]_filterVars
      PROVE  [pc # "down" => current'.date >= current.date]_filterVars
  <2>1. current.date \in Nat
    BY <1>1, FilterAssumption
    DEF FilterInv, StoreKnown, NoSnapshot, Snapshot
  <2>2. CASE Reload
    <3>1. active.date \in Nat /\ active.date > current.date
      BY <1>1, <2>2, FilterAssumption DEF FilterInv, StoreKnown, Reload
    <3> QED BY <2>1, <2>2, <3>1 DEF Reload, Snapshot
  <2>3. CASE \E ok \in BOOLEAN : Start(ok)
    BY <2>3 DEF Start, Restart
  <2>4. CASE ~Reload /\ ~\E ok \in BOOLEAN : Start(ok)
    <3>1. current' = current
      BY <1>1, <2>4
      DEF FilterNext, FilterLifecycle, FilterCrash, Deliver, Tick, Gate, Halt,
          ReadBatch, SendJob, CommitBatch, Process, Receive, Decide, Suppress,
          Publish, DeadLetter, listVars, filterVars
    <3> QED BY <2>1, <3>1
  <2> QED BY <2>2, <2>3, <2>4
<1> QED BY FilterSpecInv, <1>1, PTL DEF FilterSpec, EffectiveDateNeverBack

\* The filter, gate, reloader and halts included, keeps the contract of a
\* pipeline stage that the shared loop implements.
THEOREM FilterImplementsContract == FilterSpec => ImplementsContract
<1>1. FilterInit => Contract!ContractInit
  BY DEF FilterInit, LoopInit, Contract!ContractInit
<1>2. FilterInv /\ [FilterNext]_filterVars
        => [Contract!ContractNext]_(Contract!contractVars)
  BY FilterIsLoop, ContractStep DEF FilterInv
<1> QED
  BY FilterSpecInv, <1>1, <1>2, PTL
  DEF FilterSpec, ImplementsContract, Contract!ContractSpec
=============================================================================
