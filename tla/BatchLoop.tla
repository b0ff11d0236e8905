----------------------------- MODULE BatchLoop -----------------------------
(***************************************************************************)
(* The consume loop the normalizer and the filter share, line for line:    *)
(* Run reads a batch, hands it to a pool of workers over a buffered        *)
(* channel, waits for all of them and commits the batch's last message,    *)
(* unless one of them failed.  What a worker does with a message is left   *)
(* open here (Finish ends it with or without an error); Filter and         *)
(* Normalizer extend this module with it.                                  *)
(*                                                                         *)
(* The topic has one partition, so an offset is a number; offsets count    *)
(* from 1.  Kafka is external: Fetch returns the message after pos, a      *)
(* restart or a rebalance puts pos back to the committed offset, and a     *)
(* commit that returns an error may or may not have been stored.  A record *)
(* whose stored bytes have rotted is never returned: kafka-go retries its  *)
(* offset for ever, with neither a message nor an error for Run.           *)
(***************************************************************************)
EXTENDS Integers, Sequences

CONSTANTS
    Msg,        \* what a message can be
    Corrupt,    \* those whose record does not match its checksum any more
    Worker,     \* the goroutines of the pool
    BatchSize,  \* defaultBatchSize: longest batch, and the channel's capacity
    MaxLog,     \* bound: messages in the input topic
    MaxFaults   \* bound: crashes, rebalances and signals

ASSUME BatchLoopAssumption ==
    /\ Corrupt \subseteq Msg
    /\ BatchSize \in Nat \ {0}
    /\ MaxLog \in Nat
    /\ MaxFaults \in Nat

VARIABLES
    log,        \* the input topic
    committed,  \* the group's committed offset, kept by Kafka (0: nothing yet)
    pos,        \* the reader's position: offset of the last message fetched
    pc,         \* where Run is
    batch,      \* offsets of the batch being read or processed
    sent,       \* batch[1..sent] have been sent on the jobs channel
    taken,      \* batch[1..taken] have been received by a worker
    held,       \* the batch index a worker is processing, 0 when it waits
    pending,    \* batch indexes not Done yet: the WaitGroup's count is its size
    failed,     \* the batch's shared failure flag
    stopping,   \* SIGTERM arrived: ctx is cancelled
    done,       \* history: offsets whose processing once ended without error
    missed,     \* history: offsets whose processing once ended with an error
    faults      \* crashes, rebalances and signals so far

\* Run's own state, lost when the process ends.
runVars == <<pos, pc, batch, sent, taken, held, pending, failed, stopping>>
historyVars == <<done, missed>>
loopVars == <<log, committed, runVars, historyVars, faults>>

Offsets == 1..Len(log)
PCs == {"top", "fetch", "drain", "dispatch", "wait", "down"}
Settled == done \cup missed

DataOK ==
    /\ log \in Seq(Msg)
    /\ committed \in 0..Len(log)
    /\ pos \in 0..Len(log)
    /\ pc \in PCs
    /\ batch \in Seq(Nat)
    /\ \A i \in 1..Len(batch) : batch[i] \in Offsets
    /\ Len(batch) <= BatchSize
    /\ sent \in 0..Len(batch)
    /\ taken \in 0..sent
    /\ held \in [Worker -> 0..taken]
    /\ pending \subseteq 1..Len(batch)
    /\ done \subseteq Offsets
    /\ missed \subseteq Offsets
    /\ faults \in 0..MaxFaults

LoopTypeOK == DataOK /\ failed \in BOOLEAN /\ stopping \in BOOLEAN

\* The pool as `go func()` starts it: every worker blocked on the channel.
Idle == [w \in Worker |-> 0]

LoopInit ==
    /\ log = <<>> /\ committed = 0 /\ pos = 0 /\ pc = "top"
    /\ batch = <<>> /\ sent = 0 /\ taken = 0 /\ held = Idle
    /\ pending = {} /\ failed = FALSE /\ stopping = FALSE
    /\ done = {} /\ missed = {} /\ faults = 0

-----------------------------------------------------------------------------
(* The environment: the topic grows.                                       *)
Arrive(m) ==
    /\ Len(log) < MaxLog
    /\ log' = Append(log, m)
    /\ UNCHANGED <<committed, runVars, historyVars, faults>>

-----------------------------------------------------------------------------
(* Run                                                                     *)

\* The top of the for loop; the filter's Ready gate stands here.
Begin ==
    /\ pc = "top"
    /\ pc' = "fetch"
    /\ UNCHANGED <<log, committed, pos, batch, sent, taken, held, pending,
                   failed, stopping, historyVars, faults>>

\* readBatch: the first Fetch blocks until there is a message it can decode.
FetchFirst ==
    /\ pc = "fetch"
    /\ pos < Len(log) /\ log[pos + 1] \notin Corrupt
    /\ pos' = pos + 1
    /\ batch' = <<pos + 1>>
    /\ pc' = "drain"
    /\ UNCHANGED <<log, committed, sent, taken, held, pending, failed,
                   stopping, historyVars, faults>>

\* The first Fetch fails: Run returns if ctx is cancelled, else goes round.
FetchError ==
    /\ pc = "fetch"
    /\ pc' = IF stopping THEN "down" ELSE "top"
    /\ UNCHANGED <<log, committed, pos, batch, sent, taken, held, pending,
                   failed, stopping, historyVars, faults>>

\* readBatch: one more message before the flush timeout.
Drain ==
    /\ pc = "drain"
    /\ Len(batch) < BatchSize
    /\ pos < Len(log) /\ log[pos + 1] \notin Corrupt
    /\ pos' = pos + 1
    /\ batch' = Append(batch, pos + 1)
    /\ UNCHANGED <<log, committed, pc, sent, taken, held, pending, failed,
                   stopping, historyVars, faults>>

\* readBatch returns (batch full, timeout or a fetch error); wg.Add(len(batch))
\* with a fresh failure flag.
Flush ==
    /\ pc = "drain"
    /\ pc' = "dispatch"
    /\ pending' = 1..Len(batch)
    /\ failed' = FALSE
    /\ UNCHANGED <<log, committed, pos, batch, sent, taken, held, stopping,
                   historyVars, faults>>

\* jobs <- job: blocks while the channel holds BatchSize jobs.
Send ==
    /\ pc = "dispatch"
    /\ sent - taken < BatchSize
    /\ sent' = sent + 1
    /\ pc' = IF sent' = Len(batch) THEN "wait" ELSE "dispatch"
    /\ UNCHANGED <<log, committed, pos, batch, taken, held, pending, failed,
                   stopping, historyVars, faults>>

\* Mutant: no wg.Wait.
CommitNoWait(stored) ==
    /\ pc = "wait"
    /\ ~failed
    /\ committed' = IF stored THEN batch[Len(batch)] ELSE committed
    /\ pc' = "top"
    /\ batch' = <<>> /\ sent' = 0 /\ taken' = 0
    /\ pending' = {} /\ held' = Idle
    /\ UNCHANGED <<log, pos, failed, stopping, historyVars, faults>>

\* Mutant: the offset after the last message, which the client adds 1 to again.
CommitOneTooFar(stored) ==
    /\ pc = "wait"
    /\ pending = {}
    /\ ~failed
    /\ committed' = IF stored THEN batch[Len(batch)] + 1 ELSE committed
    /\ pc' = "top"
    /\ batch' = <<>> /\ sent' = 0 /\ taken' = 0
    /\ UNCHANGED <<log, pos, held, pending, failed, stopping, historyVars,
                   faults>>

\* wg.Wait returned and nothing failed: commit the last message of the batch.
\* stored: whether Kafka stored it; an error is only logged.
Commit(stored) ==
    /\ pc = "wait"
    /\ pending = {}
    /\ ~failed
    /\ committed' = IF stored THEN batch[Len(batch)] ELSE committed
    /\ pc' = "top"
    /\ batch' = <<>> /\ sent' = 0 /\ taken' = 0
    /\ UNCHANGED <<log, pos, held, pending, failed, stopping, historyVars,
                   faults>>

\* wg.Wait returned and something failed: go round without committing.
SkipCommit ==
    /\ pc = "wait"
    /\ pending = {}
    /\ failed
    /\ pc' = "top"
    /\ batch' = <<>> /\ sent' = 0 /\ taken' = 0
    /\ UNCHANGED <<log, committed, pos, held, pending, failed, stopping,
                   historyVars, faults>>

-----------------------------------------------------------------------------
(* The worker pool                                                         *)

\* `for j := range jobs`: an idle worker receives the oldest job.
Take(w) ==
    /\ pc # "down"
    /\ held[w] = 0
    /\ taken < sent
    /\ taken' = taken + 1
    /\ held' = [held EXCEPT ![w] = taken + 1]
    /\ UNCHANGED <<log, committed, pos, pc, batch, sent, pending, failed,
                   stopping, historyVars, faults>>

\* Mutant: no return after the error; the message counts as handled too.
FinishFallsThrough(w, ok) ==
    /\ held[w] # 0
    /\ pending' = pending \ {held[w]}
    /\ failed' = (failed \/ ~ok)
    /\ held' = [held EXCEPT ![w] = 0]
    /\ done' = done \cup {batch[held[w]]}
    /\ missed' = IF ok THEN missed ELSE missed \cup {batch[held[w]]}
    /\ UNCHANGED <<log, committed, pos, pc, batch, sent, taken, stopping,
                   faults>>

\* process returns, after failed.Store(true) if it could not; then wg.Done.
Finish(w, ok) ==
    /\ held[w] # 0
    /\ pending' = pending \ {held[w]}
    /\ failed' = (failed \/ ~ok)
    /\ held' = [held EXCEPT ![w] = 0]
    /\ done' = IF ok THEN done \cup {batch[held[w]]} ELSE done
    /\ missed' = IF ok THEN missed ELSE missed \cup {batch[held[w]]}
    /\ UNCHANGED <<log, committed, pos, pc, batch, sent, taken, stopping,
                   faults>>

-----------------------------------------------------------------------------
(* Process and group lifecycle                                             *)

Fault == faults < MaxFaults /\ faults' = faults + 1

\* SIGTERM: ctx is cancelled.
Signal ==
    /\ Fault
    /\ pc # "down"
    /\ ~stopping
    /\ stopping' = TRUE
    /\ UNCHANGED <<log, committed, pos, pc, batch, sent, taken, held, pending,
                   failed, historyVars>>

\* The process ends with its memory: killed, or os.Exit.
Die ==
    /\ pc # "down"
    /\ pc' = "down"
    /\ pos' = 0 /\ batch' = <<>> /\ sent' = 0 /\ taken' = 0 /\ held' = Idle
    /\ pending' = {} /\ failed' = FALSE
    /\ UNCHANGED <<log, committed, stopping, historyVars>>

Crash == Fault /\ Die

\* Run returns an error at the top of the loop.  Only the filter's gate does
\* that (Filter!Halt); the normalizer has no such exit.
StopAtTop == pc = "top" /\ Die /\ UNCHANGED faults

\* Mutant: a new process starts at the end of the topic.
RestartAtEnd ==
    /\ pc = "down"
    /\ pc' = "top"
    /\ pos' = Len(log)
    /\ stopping' = FALSE
    /\ UNCHANGED <<log, committed, batch, sent, taken, held, pending, failed,
                   historyVars, faults>>

\* Kubernetes starts the container again; the group resumes at its offset.
Restart ==
    /\ pc = "down"
    /\ pc' = "top"
    /\ pos' = committed
    /\ stopping' = FALSE
    /\ UNCHANGED <<log, committed, batch, sent, taken, held, pending, failed,
                   historyVars, faults>>

\* A new generation of the group: the reader restarts at the group's offset,
\* whatever Run has in hand.
Rebalance ==
    /\ Fault
    /\ pc # "down"
    /\ pos' = committed
    /\ UNCHANGED <<log, committed, pc, batch, sent, taken, held, pending,
                   failed, stopping, historyVars>>

-----------------------------------------------------------------------------
RunStep ==
    \/ Begin \/ FetchFirst \/ FetchError \/ Drain \/ Flush \/ Send
    \/ \E stored \in BOOLEAN : Commit(stored)
    \/ SkipCommit

WorkerStep(w) == Take(w) \/ \E ok \in BOOLEAN : Finish(w, ok)

Lifecycle == Signal \/ Crash \/ Restart \/ Rebalance

LoopNext ==
    \/ \E m \in Msg : Arrive(m)
    \/ RunStep
    \/ \E w \in Worker : WorkerStep(w)
    \/ Lifecycle

\* The scheduler runs every goroutine and Kubernetes restarts the container.
\* A Fetch that keeps failing transiently is not assumed to fail for ever; one
\* of a corrupt record is never enabled.
LoopFairness ==
    /\ WF_loopVars(Begin \/ Flush \/ Send \/ SkipCommit \/ Restart)
    /\ WF_loopVars(Commit(TRUE) \/ Commit(FALSE))
    /\ WF_loopVars(FetchError /\ stopping)
    /\ SF_loopVars(FetchFirst)
    /\ \A w \in Worker : WF_loopVars(WorkerStep(w))

LoopSpec == LoopInit /\ [][LoopNext]_loopVars /\ LoopFairness

-----------------------------------------------------------------------------
(* Properties                                                              *)

\* No silent loss: the group offset only covers messages whose processing
\* ended at least once, however batches, crashes and rebalances interleave.
\* So only a message whose processing ended with a logged error ("publish
\* failed", "dlq publish failed") can be behind the offset and never handled.
NoSilentLoss == 1..committed \subseteq Settled

\* "Commit the batch only if nothing failed; otherwise reprocess on restart":
\* everything behind the group offset was handled without an error once.
AtLeastOnce == 1..committed \subseteq done

\* The WaitGroup is a barrier: when the offset moves, no job of the batch is
\* in the channel or in the hands of a worker.
CommitAtBarrier ==
    [][committed' # committed => held = Idle /\ taken = Len(batch)]_loopVars

\* Every message that arrives is processed to an end, in spite of crashes,
\* rebalances and failing batches, unless a corrupt record stands before it (or
\* is it): then the stage is frozen there until an operator moves the group's
\* offset.  In particular the pool and the loop never wait for each other for ever.
Frozen(o) == \E q \in 1..o : q <= Len(log) /\ log[q] \in Corrupt
EverySettled ==
    \A o \in 1..MaxLog : (o <= Len(log)) ~> (o \in Settled \/ Frozen(o))

\* The loop keeps the contract of a pipeline stage; a group without an offset starts at
\* the first message (the client's default), so nothing is skipped.
Contract == INSTANCE StageContract WITH n <- Len(log), skipped <- {}
ImplementsContract == Contract!ContractSpec

\* The strengthening that makes NoSilentLoss inductive.  A rebalance puts the
\* reader out of step with the loop, so BatchCovered speaks of every offset
\* before each member of the batch, and not of the batch as an interval.
InBatch(o) == \E i \in 1..Len(batch) : batch[i] = o
Dispatched == pc \in {"dispatch", "wait"}

PosCovered == \A o \in 1..pos : o \in Settled \/ InBatch(o)
BatchCovered == \A i \in 1..Len(batch) : \A o \in 1..batch[i] :
                    o \in Settled \/ InBatch(o)
\* A job that is Done is settled; one that is not is in the channel, still to
\* be sent, or held by a worker.
JobsAccounted ==
    /\ Dispatched => \A i \in 1..Len(batch) : i \in pending \/ batch[i] \in Settled
    /\ Dispatched => (taken + 1)..Len(batch) \subseteq pending
    /\ \A i \in pending : i > taken \/ \E w \in Worker : held[w] = i
    /\ \A w \in Worker : held[w] # 0 =>
           held[w] \in pending /\ \A v \in Worker \ {w} : held[v] # held[w]
LoopShape ==
    /\ (pc = "drain" \/ Dispatched) <=> Len(batch) > 0
    /\ pc = "dispatch" => sent < Len(batch)
    /\ pc = "wait" => sent = Len(batch)
    /\ ~Dispatched => pending = {} /\ sent = 0

LoopInv ==
    DataOK /\ NoSilentLoss /\ PosCovered /\ BatchCovered
    /\ JobsAccounted /\ LoopShape
=============================================================================
