------------------------- MODULE Normalizer_proofs -------------------------
(***************************************************************************)
(* Completeness of the normalizer for every envelope, worker count, batch  *)
(* size and fault: what is behind the group offset is in the normalized    *)
(* topic with all its flights, and a flight's updates change places only   *)
(* inside a batch.  NormInv is the inductive invariant; its loop part is   *)
(* carried by LoopStep of BatchLoop_proofs.                                *)
(***************************************************************************)
EXTENDS Normalizer, BatchLoop_proofs, SequenceTheorems

\* Every step of the normalizer is a step of the shared loop, or leaves it alone.
LEMMA NormIsLoop ==
  ASSUME [NormNext]_normVars
  PROVE  [AnyLoopNext]_loopVars
<1>1. CASE NormLifecycle
  BY <1>1 DEF NormLifecycle, NormCrash, AnyLoopNext, LoopNext, Lifecycle
<1>2. CASE ReadBatch \/ SendJob \/ CommitBatch
  BY <1>2 DEF ReadBatch, SendJob, CommitBatch, AnyLoopNext, LoopNext, RunStep
<1>3. CASE \E w \in Worker : Process(w)
  <2>1. PICK w \in Worker : Process(w)
    BY <1>3
  <2>2. CASE Receive(w)
    BY <2>2 DEF Receive, AnyLoopNext, LoopNext, WorkerStep
  <2>3. CASE Parse(w)
    BY <2>3 DEF Parse
  <2>4. CASE Nothing(w)
    BY <2>4 DEF Nothing, AnyLoopNext, LoopNext, WorkerStep
  <2>5. ASSUME NEW ok \in BOOLEAN, Finish(w, ok)
        PROVE  AnyLoopNext
    BY <2>5 DEF AnyLoopNext, LoopNext, WorkerStep
  <2> QED BY <2>1, <2>2, <2>3, <2>4, <2>5 DEF Process, Publish, DeadLetter
<1>4. CASE \E m \in Msg : Arrive(m) /\ UNCHANGED <<phase, out, dead>>
  BY <1>4 DEF AnyLoopNext, LoopNext
<1>5. CASE UNCHANGED normVars
  BY <1>5 DEF normVars
<1> QED BY <1>1, <1>2, <1>3, <1>4, <1>5 DEF NormNext

\* What a worker holds is an envelope of the topic.
LEMMA HeldInLog ==
  ASSUME LoopInv, NEW w \in Worker, held[w] # 0
  PROVE  /\ held[w] \in 1..Len(batch) /\ Offset(w) \in Offsets
         /\ Held(w) \in Msg /\ Offset(w) \in Nat
         /\ Flights[Held(w)] \in Seq(Gufi)
<1>1. held[w] \in 1..Len(batch) /\ Offset(w) \in Offsets
  BY DEF LoopInv, DataOK, JobsAccounted, Offset
<1>2. Held(w) \in Msg /\ Offset(w) \in Nat
  BY <1>1 DEF LoopInv, DataOK, Held, Offsets
<1> QED BY <1>1, <1>2, NormalizerAssumption

\* A function on 1..m is a sequence of length m.
LEMMA FcnIsSeq ==
  ASSUME NEW X, NEW m \in Nat, NEW s \in [1..m -> X]
  PROVE  s \in Seq(X) /\ Len(s) = m
OBVIOUS

\* What WriteMessages leaves behind for one envelope, whole or in part, are
\* faithful messages; whole, they are all the flights.
LEMMA WrittenIs ==
  ASSUME LoopInv, NEW w \in Worker, held[w] # 0, Held(w) \notin Poison,
         NEW ks \in Places(Len(Flights[Held(w)]))
  PROVE  /\ Written(EncodeFlights(Offset(w)), ks) \in Seq([env : Nat, idx : Nat, gufi : Gufi])
         /\ Len(Written(EncodeFlights(Offset(w)), ks)) = Len(ks) /\ Len(ks) \in Nat
         /\ \A i \in 1..Len(ks) :
              /\ Faithful(Written(EncodeFlights(Offset(w)), ks)[i])
              /\ Written(EncodeFlights(Offset(w)), ks)[i].env = Offset(w)
              /\ Written(EncodeFlights(Offset(w)), ks)[i].idx = ks[i]
<1> DEFINE n == Len(Flights[Held(w)])
           W == Written(EncodeFlights(Offset(w)), ks)
<1>1. n \in Nat /\ Offset(w) \in Offsets /\ Offset(w) \in Nat
      /\ \A i \in 1..n : Flights[Held(w)][i] \in Gufi
  BY HeldInLog
<1>2. PICK m \in 0..n : ks \in [1..m -> 1..n]
  BY DEF Places
<1>3. m \in Nat /\ Len(ks) = m
  BY <1>1, <1>2
<1>4. ASSUME NEW i \in 1..m
      PROVE  W[i] = [env |-> Offset(w), idx |-> ks[i], gufi |-> Flights[Held(w)][ks[i]]]
             /\ ks[i] \in 1..n
  BY <1>2, <1>3, <1>4 DEF Written, EncodeFlights, Held
<1>5. ASSUME NEW i \in 1..m
      PROVE  W[i] \in [env : Nat, idx : Nat, gufi : Gufi] /\ Faithful(W[i])
             /\ W[i].env = Offset(w) /\ W[i].idx = ks[i]
  <2>1. W[i] = [env |-> Offset(w), idx |-> ks[i], gufi |-> Flights[Held(w)][ks[i]]]
    BY <1>4
  <2>2. ks[i] \in 1..n /\ ks[i] \in Nat /\ Flights[Held(w)][ks[i]] \in Gufi
    <3>1. ks[i] \in 1..n
      BY <1>4
    <3> HIDE DEF n
    <3> QED BY <1>1, <3>1
  <2>3. W[i] \in [env : Nat, idx : Nat, gufi : Gufi]
    BY <2>1, <2>2, <1>1
  <2> HIDE DEF W
  <2>4. /\ W[i].env = Offset(w) /\ W[i].idx = ks[i]
        /\ W[i].gufi = Flights[Held(w)][ks[i]] /\ log[Offset(w)] = Held(w)
    BY <2>1 DEF Held
  <2> QED BY <2>2, <2>3, <2>4, <1>1 DEF Faithful
<1>6. W = [i \in 1..m |-> W[i]]
  BY <1>3 DEF Written
<1> HIDE DEF W
<1>7. W \in Seq([env : Nat, idx : Nat, gufi : Gufi]) /\ Len(W) = m
  <2>1. W \in [1..m -> [env : Nat, idx : Nat, gufi : Gufi]]
    BY <1>5, <1>6
  <2> QED BY <1>3, <2>1, FcnIsSeq
<1> QED BY <1>3, <1>5, <1>7 DEF W

\* The topic only grows.
Grows ==
    /\ Len(out) \in Nat /\ Len(out') \in Nat /\ Len(out) <= Len(out')
    /\ \A k \in 1..Len(out) : out'[k] = out[k]

\* A longer input topic leaves a faithful message faithful.
LEMMA FaithfulStable ==
  ASSUME LoopInv, [AnyLoopNext]_loopVars, NEW r, Faithful(r)
  PROVE  Faithful(r)'
  BY LogStable DEF Faithful

\* A write appends messages of one envelope, and they are faithful.
LEMMA WriteGrows ==
  ASSUME LoopInv, OutFaithful, [AnyLoopNext]_loopVars, NEW w \in Worker,
         held[w] # 0, Held(w) \notin Poison, NEW ks \in Places(Len(Flights[Held(w)])),
         out' = out \o Written(EncodeFlights(Offset(w)), ks)
  PROVE  /\ OutFaithful' /\ Grows
         /\ \A k \in (Len(out) + 1)..Len(out') : out'[k].env = Offset(w)
         /\ \A o : o = Offset(w) => \A i \in 1..Len(ks) : InTopic(o, ks[i])'
<1> DEFINE W == Written(EncodeFlights(Offset(w)), ks)
           R == [env : Nat, idx : Nat, gufi : Gufi]
<1>1. /\ W \in Seq(R) /\ Len(W) = Len(ks) /\ Len(ks) \in Nat
      /\ \A i \in 1..Len(ks) : Faithful(W[i]) /\ W[i].env = Offset(w) /\ W[i].idx = ks[i]
  BY WrittenIs
<1>2. out \in Seq(R) /\ \A k \in 1..Len(out) : Faithful(out[k])
  BY DEF OutFaithful
<1>3. out' = out \o W
  OBVIOUS
<1> HIDE DEF W, R
<1>4. /\ out' \in Seq(R) /\ Len(out') = Len(out) + Len(W) /\ Len(out) \in Nat
      /\ \A k \in 1..Len(out) : out'[k] = out[k]
      /\ \A i \in 1..Len(W) : out'[Len(out) + i] = W[i]
  <2>1. W \in Seq(R) /\ out \in Seq(R)
    BY <1>1, <1>2
  <2> QED BY ONLY <2>1, <1>3, SMT
<1>5. \A k \in (Len(out) + 1)..Len(out') : \E i \in 1..Len(W) : k = Len(out) + i
  <2> SUFFICES ASSUME NEW k \in (Len(out) + 1)..Len(out')
               PROVE  k - Len(out) \in 1..Len(W) /\ k = Len(out) + (k - Len(out))
    OBVIOUS
  <2> QED BY <1>1, <1>4
<1>6. \A k \in 1..Len(out') : Faithful(out'[k])
  <2> SUFFICES ASSUME NEW k \in 1..Len(out') PROVE Faithful(out'[k])
    OBVIOUS
  <2>1. CASE k \in 1..Len(out)
    BY <2>1, <1>2, <1>4
  <2>2. CASE k \in (Len(out) + 1)..Len(out')
    BY <2>2, <1>1, <1>4, <1>5
  <2> QED BY <2>1, <2>2, <1>4
<1>7. OutFaithful'
  BY <1>4, <1>6, FaithfulStable DEF OutFaithful, R
<1>8. \A k \in (Len(out) + 1)..Len(out') : out'[k].env = Offset(w)
  <2> SUFFICES ASSUME NEW k \in (Len(out) + 1)..Len(out') PROVE out'[k].env = Offset(w)
    OBVIOUS
  <2>1. PICK i \in 1..Len(W) : k = Len(out) + i
    BY <1>5
  <2>2. out'[k] = W[i] /\ W[i].env = Offset(w)
    BY <2>1, <1>1, <1>4
  <2> QED BY <2>2
<1>9. ASSUME NEW o, o = Offset(w), NEW i \in 1..Len(ks) PROVE InTopic(o, ks[i])'
  <2>1. Len(out) + i \in 1..Len(out') /\ out'[Len(out) + i] = W[i]
    BY <1>1, <1>4
  <2>2. out'[Len(out) + i].env = Offset(w) /\ out'[Len(out) + i].idx = ks[i]
    BY <2>1, <1>1
  <2> QED BY <2>1, <2>2, <1>9 DEF InTopic
<1> QED BY <1>1, <1>4, <1>7, <1>8, <1>9 DEF Grows

\* A step that writes nothing leaves the topic faithful.
LEMMA OutFrame ==
  ASSUME LoopInv, OutFaithful, [AnyLoopNext]_loopVars, out' = out
  PROVE  OutFaithful' /\ Grows
<1>1. \A k \in 1..Len(out) : Faithful(out[k])'
  BY FaithfulStable DEF OutFaithful
<1>2. Len(out) \in Nat
  BY LenProperties DEF OutFaithful
<1> QED BY <1>1, <1>2 DEF OutFaithful, Grows, Faithful

\* What is complete stays so: neither output topic loses anything.
LEMMA CompleteStable ==
  ASSUME LoopInv, [AnyLoopNext]_loopVars, Grows, dead \subseteq dead',
         NEW o \in Offsets, Complete(o)
  PROVE  Complete(o)'
<1>1. log'[o] = log[o]
  BY LogStable
<1>2. ASSUME NEW i, InTopic(o, i) PROVE InTopic(o, i)'
  BY <1>2 DEF InTopic, Grows
<1> QED BY <1>1, <1>2 DEF Complete

\* A step that settles nothing.
LEMMA DoneFrame ==
  ASSUME LoopInv, DoneComplete, [AnyLoopNext]_loopVars, Grows,
         dead \subseteq dead', dead' \subseteq Offsets, done' = done
  PROVE  DoneComplete'
<1>1. done \subseteq Offsets /\ Offsets \subseteq Offsets'
  BY LogStable DEF LoopInv, DataOK
<1>2. \A o \in done : Complete(o)'
  BY <1>1, CompleteStable DEF DoneComplete
<1> QED BY <1>1, <1>2 DEF DoneComplete

\* A step that moves no worker keeps what workers know.
LEMMA WorkerFrame ==
  ASSUME LoopInv, PhaseMatchesHeld, [AnyLoopNext]_loopVars,
         phase' = phase, held' = held,
         batch' = batch \/ \A w \in Worker : held[w] = 0
  PROVE  PhaseMatchesHeld'
<1>1. ASSUME NEW w \in Worker, phase[w] = "publish" PROVE Held(w)' \notin Poison
  <2>1. held[w] # 0 /\ batch' = batch /\ Held(w) \notin Poison
    BY <1>1 DEF PhaseMatchesHeld
  <2>2. Offset(w) \in Offsets /\ Offset(w)' = Offset(w)
    BY <2>1, HeldInLog DEF Offset
  <2> QED BY <2>1, <2>2, LogStable DEF Held
<1> QED BY <1>1 DEF PhaseMatchesHeld

\* The part of the invariant about workers, from what the acting one knows.
LEMMA ActorKnows ==
  ASSUME PhaseMatchesHeld, NEW w \in Worker, UNCHANGED <<log, batch>>,
         \A v \in Worker \ {w} : held'[v] = held[v] /\ phase'[v] = phase[v],
         phase' \in [Worker -> {"idle", "got", "publish", "poison"}],
         phase'[w] = "idle" <=> held'[w] = 0,
         phase'[w] = "publish" => Held(w) \notin Poison /\ held'[w] = held[w]
  PROVE  PhaseMatchesHeld'
<1>1. \A v \in Worker : held'[v] = held[v] => Held(v)' = Held(v)
  BY DEF Held, Offset
<1> QED BY <1>1 DEF PhaseMatchesHeld

\* Steps of Run, of the topic and of the group: nothing of the workers moves.
LEMMA QuietInv ==
  ASSUME NormInv, [NormNext]_normVars,
         \/ ReadBatch \/ SendJob \/ CommitBatch
         \/ (Signal \/ Restart \/ Rebalance) /\ UNCHANGED <<phase, out, dead>>
         \/ \E m \in Msg : Arrive(m) /\ UNCHANGED <<phase, out, dead>>
  PROVE  NormInv' /\ out' = out
<1>1. [AnyLoopNext]_loopVars /\ LoopInv
  BY NormIsLoop DEF NormInv
<1>2. LoopInv'
  BY <1>1, LoopStep
<1>3. UNCHANGED <<phase, out, dead>> /\ done' = done /\ held' = held
  BY DEF ReadBatch, SendJob, CommitBatch, Signal, Restart, Rebalance, Arrive, Begin,
         FetchFirst, FetchError, Drain, Flush, Send, SkipCommit, Commit,
         historyVars, runVars
<1>4. batch' = batch \/ \A w \in Worker : held[w] = 0
  <2>1. batch' = batch \/ FetchFirst \/ Drain \/ (pc = "wait" /\ pending = {})
    BY DEF ReadBatch, SendJob, CommitBatch, Signal, Restart, Rebalance, Arrive, Begin,
           FetchError, Flush, Send, SkipCommit, Commit, runVars
  <2>2. FetchFirst \/ Drain => pending = {}
    BY <1>1 DEF LoopInv, LoopShape, Dispatched, FetchFirst, Drain
  <2>3. pending = {} => \A w \in Worker : held[w] = 0
    BY <1>1 DEF LoopInv, JobsAccounted
  <2> QED BY <2>1, <2>2, <2>3
<1>5. PhaseMatchesHeld'
  BY <1>1, <1>3, <1>4, WorkerFrame DEF NormInv
<1>6. OutFaithful' /\ Grows
  BY <1>1, <1>3, OutFrame DEF NormInv
<1>7. DoneComplete'
  <2>1. dead' \subseteq Offsets
    BY <1>3 DEF NormInv, DoneComplete
  <2> QED BY <1>1, <1>3, <1>6, <2>1, DoneFrame DEF NormInv
<1> QED BY <1>2, <1>3, <1>5, <1>6, <1>7 DEF NormInv

\* What process may assume and must leave alone in every one of its steps.
LEMMA ProcessFrame ==
  ASSUME NormInv, [NormNext]_normVars, NEW w \in Worker,
         \/ Receive(w) \/ Parse(w) \/ Nothing(w)
         \/ \E ok, written \in BOOLEAN : DeadLetter(w, ok, written)
         \/ \E ok \in BOOLEAN, ks \in Places(Len(Flights[Held(w)])) : Publish(w, ok, ks)
  PROVE  /\ LoopInv' /\ LoopInv /\ [AnyLoopNext]_loopVars
         /\ UNCHANGED <<log, batch, committed>>
         /\ \A v \in Worker \ {w} : held'[v] = held[v] /\ phase'[v] = phase[v]
         /\ phase' \in [Worker -> {"idle", "got", "publish", "poison"}]
<1>1. LoopInv' /\ LoopInv /\ [AnyLoopNext]_loopVars
  BY NormIsLoop, LoopStep DEF NormInv
<1>2. UNCHANGED <<log, batch, committed>>
  BY DEF Receive, Parse, Nothing, Publish, DeadLetter, Take, Finish, loopVars, runVars
<1>3. \A v \in Worker \ {w} : held'[v] = held[v] /\ phase'[v] = phase[v]
  BY DEF NormInv, LoopInv, DataOK, PhaseMatchesHeld, Receive, Parse, Nothing,
         Publish, DeadLetter, Take, Finish, loopVars, runVars
<1>4. phase' \in [Worker -> {"idle", "got", "publish", "poison"}]
  BY DEF NormInv, PhaseMatchesHeld, Receive, Parse, Nothing, Publish, DeadLetter
<1> QED BY <1>1, <1>2, <1>3, <1>4

\* A worker receives an envelope or parses it: nothing is written or settled.
LEMMA ParseInv ==
  ASSUME NormInv, [NormNext]_normVars, NEW w \in Worker, Receive(w) \/ Parse(w)
  PROVE  NormInv' /\ out' = out
<1>1. /\ LoopInv' /\ LoopInv /\ [AnyLoopNext]_loopVars
      /\ UNCHANGED <<log, batch>>
      /\ \A v \in Worker \ {w} : held'[v] = held[v] /\ phase'[v] = phase[v]
      /\ phase' \in [Worker -> {"idle", "got", "publish", "poison"}]
  BY ProcessFrame
<1>2. UNCHANGED <<out, dead, done>>
  BY DEF Receive, Parse, Take, loopVars, historyVars
<1>3. OutFaithful' /\ Grows
  BY <1>1, <1>2, OutFrame DEF NormInv
<1>4. DoneComplete'
  <2>1. dead' \subseteq Offsets
    BY <1>2 DEF NormInv, DoneComplete
  <2> QED BY <1>1, <1>2, <1>3, <2>1, DoneFrame DEF NormInv
<1>5. CASE Receive(w)
  <2>1. phase'[w] = "got" /\ held'[w] # 0
    BY <1>5 DEF NormInv, LoopInv, DataOK, PhaseMatchesHeld, Receive, Take
  <2>2. PhaseMatchesHeld'
    BY <1>1, <2>1, ActorKnows DEF NormInv
  <2> QED BY <1>1, <1>2, <1>3, <1>4, <2>2 DEF NormInv
<1>6. CASE Parse(w)
  <2>1. held'[w] = held[w] /\ held[w] # 0 /\ phase'[w] \in {"publish", "poison"}
    BY <1>6 DEF NormInv, PhaseMatchesHeld, Parse, loopVars, runVars
  <2>2. phase'[w] = "publish" => Held(w) \notin Poison
    BY <1>6 DEF NormInv, PhaseMatchesHeld, Parse
  <2>3. PhaseMatchesHeld'
    BY <1>1, <2>1, <2>2, ActorKnows DEF NormInv
  <2> QED BY <1>1, <1>2, <1>3, <1>4, <2>3 DEF NormInv
<1> QED BY <1>5, <1>6

\* A worker ends an envelope: it had no flights, or after a write.
LEMMA SettleInv ==
  ASSUME NormInv, [NormNext]_normVars, NEW w \in Worker,
         \/ Nothing(w)
         \/ \E ok, written \in BOOLEAN : DeadLetter(w, ok, written)
         \/ \E ok \in BOOLEAN, ks \in Places(Len(Flights[Held(w)])) : Publish(w, ok, ks)
  PROVE  /\ NormInv'
         /\ held[w] # 0
         /\ \A k \in (Len(out) + 1)..Len(out') : out'[k].env = Offset(w)
<1>1. /\ LoopInv' /\ LoopInv /\ [AnyLoopNext]_loopVars
      /\ UNCHANGED <<log, batch>>
      /\ \A v \in Worker \ {w} : held'[v] = held[v] /\ phase'[v] = phase[v]
      /\ phase' \in [Worker -> {"idle", "got", "publish", "poison"}]
  BY ProcessFrame
<1>2. phase'[w] = "idle" /\ held'[w] = 0 /\ held[w] # 0
  BY DEF NormInv, LoopInv, DataOK, PhaseMatchesHeld, Nothing, Publish,
         DeadLetter, Finish
<1>3. PhaseMatchesHeld'
  BY <1>1, <1>2, ActorKnows DEF NormInv
<1>4. Offset(w) \in Offsets /\ Offsets' = Offsets /\ Flights[Held(w)] \in Seq(Gufi)
  BY <1>1, <1>2, HeldInLog DEF Offsets
<1> DEFINE Rest == /\ OutFaithful' /\ Grows
                   /\ dead \subseteq dead' /\ dead' \subseteq Offsets
                   /\ \A k \in (Len(out) + 1)..Len(out') : out'[k].env = Offset(w)
                   /\ \A o : o = Offset(w) /\ o \in done' /\ o \notin done => Complete(o)'
<1>5. Rest
  <2>1. CASE Nothing(w)
    <3>1. out' = out /\ dead' = dead
      BY <2>1 DEF Nothing
    <3>2. OutFaithful' /\ Grows
      BY <1>1, <3>1, OutFrame DEF NormInv
    <3>3. log[Offset(w)] \notin Poison /\ Len(Flights[log[Offset(w)]]) = 0
      BY <2>1 DEF Nothing, Held
    <3>4. \A o : o = Offset(w) => Complete(o)'
      BY <3>3, <1>1 DEF Complete
    <3> QED BY <3>1, <3>2, <3>4 DEF NormInv, DoneComplete, Grows
  <2>2. CASE \E ok, written \in BOOLEAN : DeadLetter(w, ok, written)
    <3>1. PICK ok \in BOOLEAN, written \in BOOLEAN : DeadLetter(w, ok, written)
      BY <2>2
    <3>2. out' = out /\ dead \subseteq dead' /\ dead' \subseteq dead \cup {Offset(w)}
      BY <3>1 DEF DeadLetter
    <3>3. OutFaithful' /\ Grows
      BY <1>1, <3>2, OutFrame DEF NormInv
    <3>4. Offset(w) \in done' /\ Offset(w) \notin done => Offset(w) \in dead'
      BY <3>1 DEF DeadLetter, Finish
    <3> QED BY <3>2, <3>3, <3>4, <1>4 DEF NormInv, DoneComplete, Grows, Complete
  <2>3. CASE \E ok \in BOOLEAN, ks \in Places(Len(Flights[Held(w)])) : Publish(w, ok, ks)
    <3>1. PICK ok \in BOOLEAN, ks \in Places(Len(Flights[Held(w)])) : Publish(w, ok, ks)
      BY <2>3
    <3>2. Held(w) \notin Poison
      BY <3>1 DEF Publish, NormInv, PhaseMatchesHeld
    <3>3. dead' = dead /\ out' = out \o Written(EncodeFlights(Offset(w)), ks)
      BY <3>1 DEF Publish
    <3>4. /\ OutFaithful' /\ Grows
          /\ \A k \in (Len(out) + 1)..Len(out') : out'[k].env = Offset(w)
          /\ \A o : o = Offset(w) => \A i \in 1..Len(ks) : InTopic(o, ks[i])'
      BY <1>1, <1>2, <3>2, <3>3, WriteGrows DEF NormInv
    <3>5. ASSUME NEW o, o = Offset(w), o \in done', o \notin done
          PROVE  Complete(o)'
      <4>1. ok
        BY <3>1, <3>5 DEF Publish, Finish
      <4>2. ks = All(Len(Flights[Held(w)]))
        BY <3>1, <4>1 DEF Publish
      <4>3. Len(ks) = Len(Flights[Held(w)]) /\ \A i \in 1..Len(ks) : ks[i] = i
        BY <4>2, <1>4 DEF All
      <4>4. log'[o] = Held(w)
        BY <3>5, <1>1 DEF Held
      <4> QED BY <3>2, <3>4, <3>5, <4>3, <4>4 DEF Complete
    <3> QED BY <3>3, <3>4, <3>5 DEF NormInv, DoneComplete
  <2> QED BY <2>1, <2>2, <2>3
<1>6. DoneComplete'
  <2>1. done' \subseteq done \cup {Offset(w)} /\ done \subseteq Offsets
    BY <1>1 DEF Nothing, Publish, DeadLetter, Finish, Offset, LoopInv, DataOK
  <2>2. \A o \in done : Complete(o)'
    BY <1>1, <1>5, <2>1, CompleteStable DEF NormInv, DoneComplete
  <2>3. \A o \in done' : Complete(o)'
    BY <1>5, <2>1, <2>2
  <2> QED BY <1>4, <1>5, <2>3 DEF DoneComplete
<1> QED BY <1>1, <1>2, <1>3, <1>5, <1>6 DEF NormInv

\* The process dies, with what one worker was writing in the topics or not.
LEMMA CrashInv ==
  ASSUME NormInv, [NormNext]_normVars, NormCrash
  PROVE  /\ NormInv'
         /\ \/ out' = out
            \/ \E w \in Worker : /\ held[w] # 0
                 /\ \A k \in (Len(out) + 1)..Len(out') : out'[k].env = Offset(w)
<1>1. [AnyLoopNext]_loopVars /\ LoopInv
  BY NormIsLoop DEF NormInv
<1>2. LoopInv'
  BY <1>1, LoopStep
<1>3. PhaseMatchesHeld'
  BY DEF NormCrash, Crash, Die, Idle, PhaseMatchesHeld
<1>4. done' = done /\ \A w \in Worker : phase[w] \in {"publish", "poison"} => held[w] # 0
  BY DEF NormInv, PhaseMatchesHeld, NormCrash, Crash, Die, historyVars
<1> DEFINE Rest == /\ OutFaithful' /\ Grows
                   /\ dead \subseteq dead' /\ dead' \subseteq Offsets
                   /\ \/ out' = out
                      \/ \E w \in Worker : /\ held[w] # 0
                           /\ \A k \in (Len(out) + 1)..Len(out') : out'[k].env = Offset(w)
<1>5. Rest
  <2>1. CASE out' = out
    <3>1. OutFaithful' /\ Grows
      BY <1>1, <2>1, OutFrame DEF NormInv
    <3>2. \A w \in Worker : phase[w] = "poison" => Offset(w) \in Offsets
      BY <1>1, <1>4, HeldInLog
    <3>3. dead \subseteq dead' /\ dead' \subseteq Offsets
      BY <3>2 DEF NormCrash, NormInv, DoneComplete
    <3> QED BY <2>1, <3>1, <3>3
  <2>2. CASE out' # out
    <3>1. PICK w \in Worker :
            /\ phase[w] = "publish" /\ dead' = dead
            /\ \E ks \in Places(Len(Flights[Held(w)])) :
                   out' = out \o Written(EncodeFlights(Offset(w)), ks)
      BY <2>2 DEF NormCrash
    <3>2. PICK ks \in Places(Len(Flights[Held(w)])) :
            out' = out \o Written(EncodeFlights(Offset(w)), ks)
      BY <3>1
    <3>3. held[w] # 0 /\ Held(w) \notin Poison
      BY <3>1, <1>4 DEF NormInv, PhaseMatchesHeld
    <3>4. /\ OutFaithful' /\ Grows
          /\ \A k \in (Len(out) + 1)..Len(out') : out'[k].env = Offset(w)
      BY <1>1, <3>2, <3>3, WriteGrows DEF NormInv
    <3> QED BY <3>1, <3>3, <3>4 DEF NormInv, DoneComplete
  <2> QED BY <2>1, <2>2
<1>6. DoneComplete'
  BY <1>1, <1>4, <1>5, DoneFrame DEF NormInv
<1> QED BY <1>2, <1>3, <1>5, <1>6 DEF NormInv

\* The first start of the normalizer.
LEMMA NormInitInv == NormInit => NormInv
<1> SUFFICES ASSUME NormInit PROVE NormInv
  OBVIOUS
<1>1. LoopInv
  BY InitInv DEF NormInit
<1>2. PhaseMatchesHeld
  BY DEF NormInit, LoopInit, PhaseMatchesHeld, Idle
<1>3. OutFaithful /\ DoneComplete
  <2>1. out = <<>> /\ dead = {} /\ done = {}
    BY DEF NormInit, LoopInit
  <2>2. out \in Seq([env : Nat, idx : Nat, gufi : Gufi]) /\ Len(out) = 0
    BY <2>1, EmptySeq
  <2> QED BY <2>1, <2>2 DEF OutFaithful, DoneComplete
<1> QED BY <1>1, <1>2, <1>3 DEF NormInv

\* Every step of the normalizer preserves its invariant, and what it adds to the
\* topic is of one envelope that a worker holds.
LEMMA NormStep ==
  ASSUME NormInv, [NormNext]_normVars
  PROVE  /\ NormInv'
         /\ \/ out' = out
            \/ \E w \in Worker : /\ held[w] # 0
                 /\ \A k \in (Len(out) + 1)..Len(out') : out'[k].env = Offset(w)
<1>1. CASE \/ ReadBatch \/ SendJob \/ CommitBatch
           \/ (Signal \/ Restart \/ Rebalance) /\ UNCHANGED <<phase, out, dead>>
           \/ \E m \in Msg : Arrive(m) /\ UNCHANGED <<phase, out, dead>>
  BY <1>1, QuietInv
<1>2. CASE NormCrash
  BY <1>2, CrashInv
<1>3. CASE \E w \in Worker : Process(w)
  <2>1. PICK w \in Worker : Process(w)
    BY <1>3
  <2>2. CASE Receive(w) \/ Parse(w)
    BY <2>2, ParseInv
  <2>3. CASE \/ Nothing(w)
             \/ \E ok, written \in BOOLEAN : DeadLetter(w, ok, written)
             \/ \E ok \in BOOLEAN, ks \in Places(Len(Flights[Held(w)])) : Publish(w, ok, ks)
    BY <2>3, SettleInv
  <2> QED BY <2>1, <2>2, <2>3 DEF Process
<1>4. CASE UNCHANGED normVars
  <2>1. LoopInv'
    BY <1>4, StutterInv DEF NormInv, normVars
  <2>2. UNCHANGED <<phase, out, dead, log, batch, held, done>>
    BY <1>4 DEF normVars, loopVars, runVars, historyVars
  <2>3. (PhaseMatchesHeld /\ OutFaithful /\ DoneComplete)'
    BY <2>2 DEF NormInv, PhaseMatchesHeld, OutFaithful, DoneComplete, Faithful,
       Complete, InTopic, Held, Offset, Offsets
  <2> QED BY <2>1, <2>2, <2>3 DEF NormInv
<1> QED BY <1>1, <1>2, <1>3, <1>4 DEF NormNext, NormLifecycle

\* NormInv is an invariant of the normalizer: besides the loop's, every message it
\* published is a flight of the envelope it names, and an envelope a worker ended
\* without an error is complete in the topics.
THEOREM NormSpecInv == NormSpec => []NormInv
<1>1. NormInv /\ [NormNext]_normVars => NormInv'
  BY NormStep
<1> QED BY NormInitInv, <1>1, PTL DEF NormSpec

\* Type correctness of the normalizer's state.
THEOREM NormTypeCorrect == NormSpec => []NormTypeOK
<1>1. NormInit => Flags
  BY Zenon DEF NormInit, LoopInit, Flags
<1>2. Flags /\ [NormNext]_normVars => Flags'
  BY NormIsLoop, FlagsStep
<1>3. NormInv /\ Flags => NormTypeOK
  <2> SUFFICES ASSUME NormInv, Flags PROVE NormTypeOK
    OBVIOUS
  <2>1. LoopTypeOK
    BY DEF NormInv, LoopInv, LoopTypeOK, Flags
  <2>2. out \in Seq([env : Offsets, idx : Nat, gufi : Gufi])
    <3>1. Len(out) \in Nat /\ out \in [1..Len(out) -> [env : Nat, idx : Nat, gufi : Gufi]]
      BY LenProperties DEF NormInv, OutFaithful
    <3>2. \A k \in 1..Len(out) : out[k] \in [env : Offsets, idx : Nat, gufi : Gufi]
      BY <3>1 DEF NormInv, OutFaithful, Faithful
    <3>3. out \in [1..Len(out) -> [env : Offsets, idx : Nat, gufi : Gufi]]
      BY <3>1, <3>2
    <3> QED BY <3>1, <3>3, FcnIsSeq
  <2> QED BY <2>1, <2>2 DEF NormInv, PhaseMatchesHeld, DoneComplete, NormTypeOK
<1> QED BY NormSpecInv, <1>1, <1>2, <1>3, PTL DEF NormSpec

\* Completeness: an envelope behind the group offset has all its flights in the
\* normalized topic, is in the dead-letter topic, or ended in a logged error.
THEOREM CommittedCompleteHolds == NormSpec => []CommittedComplete
<1>1. NormInv => CommittedComplete
  BY DEF NormInv, LoopInv, NoSilentLoss, Settled, DoneComplete, CommittedComplete
<1> QED BY NormSpecInv, <1>1, PTL

\* A flight's order between batches: when an update is published, every earlier envelope
\* of the flight is in the topic whole, is in the same batch, or has failed once.
THEOREM OvertakenInBatchOrFailedHolds == NormSpec => OvertakenInBatchOrFailed
<1> DEFINE Kept ==
      \A k \in (Len(out) + 1)..Len(out') : \A o \in 1..(out'[k].env - 1) :
        Concerns(o, out'[k].gufi) =>
            Complete(o) \/ InBatch(o) \/ o \in missed
<1>1. ASSUME NormInv, [NormNext]_normVars PROVE [Kept]_normVars
  <2>1. CASE out' = out
    BY <1>1, <2>1, LenProperties DEF NormInv, OutFaithful
  <2>2. ASSUME NEW w \in Worker, held[w] # 0,
               \A k \in (Len(out) + 1)..Len(out') : out'[k].env = Offset(w)
        PROVE  Kept
    <3>1. held[w] \in 1..Len(batch) /\ Offset(w) \in Nat
      BY <1>1, <2>2, HeldInLog DEF NormInv
    <3>2. \A o \in 1..Offset(w) : o \in done \cup missed \/ InBatch(o)
      BY <1>1, <3>1 DEF NormInv, LoopInv, BatchCovered, Settled, Offset
    <3>3. \A o \in done : Complete(o)
      BY <1>1 DEF NormInv, DoneComplete
    <3>4. ASSUME NEW k \in (Len(out) + 1)..Len(out'), NEW o \in 1..(out'[k].env - 1)
          PROVE  Complete(o) \/ InBatch(o) \/ o \in missed
      <4>1. o \in 1..Offset(w)
        BY <2>2, <3>1, <3>4
      <4> QED BY <4>1, <3>2, <3>3
    <3> QED BY <3>4
  <2> QED BY <1>1, <2>1, <2>2, NormStep
<1> QED BY NormSpecInv, <1>1, PTL DEF NormSpec, OvertakenInBatchOrFailed

\* The normalizer keeps the contract of a pipeline stage that the shared loop
\* implements.
THEOREM NormImplementsContract == NormSpec => ImplementsContract
<1>1. NormInit => Contract!ContractInit
  BY DEF NormInit, LoopInit, Contract!ContractInit
<1>2. NormInv /\ [NormNext]_normVars
        => [Contract!ContractNext]_(Contract!contractVars)
  BY NormIsLoop, ContractStep DEF NormInv
<1> QED
  BY NormSpecInv, <1>1, <1>2, PTL
  DEF NormSpec, ImplementsContract, Contract!ContractSpec
=============================================================================
