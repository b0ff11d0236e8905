--------------------------- MODULE StageContract ---------------------------
(***************************************************************************)
(* What every consumer of the pipeline (normalizer, filter, cache-writer,  *)
(* database-writer) owes its input topic, with batches, workers,           *)
(* transactions and restarts abstracted away: a message arrives, it is     *)
(* settled some number of times (handled, or given up on with an error),   *)
(* and the consumer group's offset only ever covers messages that were     *)
(* settled, or passed over by a member that joined before there was an     *)
(* offset.                                                                 *)
(***************************************************************************)
EXTENDS Integers

VARIABLES
    n,          \* messages in the input topic: offsets 1..n
    done,       \* offsets whose processing once ended without an error
    missed,     \* offsets that were given up on once: processing ended with an error
    skipped,    \* offsets a start at the end of the topic passed over
    committed   \* the consumer group's committed offset (0: nothing yet)

contractVars == <<n, done, missed, skipped, committed>>

ContractInit == n = 0 /\ done = {} /\ missed = {} /\ skipped = {} /\ committed = 0

\* A producer appends a message to the input topic.
ContractArrive ==
    /\ n' = n + 1
    /\ UNCHANGED <<done, missed, skipped, committed>>

\* Messages are processed to their end, together if a transaction holds them; after
\* a restart, once more.
ContractSettle(S, ok) ==
    /\ done' = IF ok THEN done \cup S ELSE done
    /\ missed' = IF ok THEN missed ELSE missed \cup S
    /\ UNCHANGED <<n, skipped, committed>>

\* A group without an offset joins at the end of the topic, and passes S over.
ContractJoin(S) ==
    /\ committed = 0
    /\ skipped' = skipped \cup S
    /\ UNCHANGED <<n, done, missed, committed>>

\* The group offset moves to c.  It may move back: a batch read before a
\* rebalance is committed after it.
ContractCommit(c) ==
    /\ 1..c \subseteq done \cup missed \cup skipped
    /\ committed' = c
    /\ UNCHANGED <<n, done, missed, skipped>>

ContractNext ==
    \/ ContractArrive
    \/ \E S \in SUBSET (1..n), ok \in BOOLEAN : ContractSettle(S, ok)
    \/ \E S \in SUBSET (1..n) : ContractJoin(S)
    \/ \E c \in 0..n : ContractCommit(c)

ContractSpec == ContractInit /\ [][ContractNext]_contractVars
=============================================================================
