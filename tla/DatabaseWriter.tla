--------------------------- MODULE DatabaseWriter ---------------------------
(***************************************************************************)
(* The database-writer: reads a batch, dead-letters what does not parse,   *)
(* drops what has no GUFI, writes the rest in one Postgres transaction,    *)
(* which it retries until it succeeds, and commits the batch's last        *)
(* message.  The transaction works on its own view of the tables, one      *)
(* message at a time in message order; that all flights go before all      *)
(* positions cannot be told apart from outside, nor where airports go, but *)
(* for foreign keys.  An airport is its code; coordinates are left out.    *)
(*                                                                         *)
(* A message is stamped by its timestamp.  One whose timestamp does not    *)
(* parse, which is stamped anew at every attempt (parseTimeOr), is not     *)
(* modelled: what is checked and proved here is of stamped messages.       *)
(*                                                                         *)
(* One partition; offsets count from 1; committed = 0: the group has no    *)
(* offset and the reader starts at the end of the topic.  Kafka and        *)
(* Postgres are external: a commit that returns an error may have been     *)
(* carried out.                                                            *)
(***************************************************************************)
EXTENDS Integers, Sequences, FiniteSets

CONSTANTS
    Msg,          \* what a message can be
    Poison,       \* messages flight.Parse rejects
    Gufi,         \* flights
    GufiOf,       \* Msg -> Gufi or Null: a message without GUFI is skipped
    StatusOf,     \* Msg -> status or Null
    TimeOf,       \* Msg -> its timestamp, the same whenever it is written (see below)
    OriginOf,     \* Msg -> airport code or Null, an identity field
    DestOf,       \* Msg -> airport code or Null, an identity field
    HasPosition,  \* messages with a position that parses
    Corrupt,      \* records the client cannot read past: Fetch retries them for ever
    Null,         \* SQL NULL
    BatchSize,    \* DB_WRITER_BATCH_SIZE
    MaxLog,       \* bound: messages in the topic
    MaxFaults,    \* bound: crashes, rebalances and signals
    MaxErrors     \* bound: failed transactions

ASSUME DatabaseWriterAssumption ==
    /\ Poison \subseteq Msg /\ HasPosition \subseteq Msg /\ Corrupt \subseteq Msg
    /\ GufiOf \in [Msg -> Gufi \cup {Null}] /\ Null \notin Gufi
    /\ TimeOf \in [Msg -> Nat]
    /\ Null \notin {"ACTIVE", "DROPPED"}
    /\ BatchSize \in Nat \ {0}
    /\ MaxLog \in Nat /\ MaxFaults \in Nat /\ MaxErrors \in Nat

VARIABLES
    log,         \* the filtered topic
    committed,   \* the group's committed offset, 0: none
    pos,         \* the reader's position
    pc,          \* where Run is
    batch,       \* offsets of the batch
    k,           \* parsed, or executed in the transaction: batch[1..k]
    stopping,    \* ctx is cancelled
    flights,     \* the flights table: a row per GUFI
    airports,    \* codes with a row in airports
    positions,   \* rows in positions, per message
    tx,          \* the transaction's view of flights
    txPositions, \* the transaction's view of positions
    dead,        \* offsets in the dead-letter topic
    recorded,    \* history: offsets in a committed transaction
    dropped,     \* history: offsets parsing left out, dead-lettered or not
    skipped,     \* history: offsets a start at the end of the topic passed over
    faults, errors

tables == <<flights, airports, positions, recorded>>
txVars == <<tx, txPositions>>
runVars == <<pos, pc, batch, k, stopping, txVars>>
parseVars == <<dead, dropped>>
countVars == <<skipped, faults, errors>>
dbVars == <<log, committed, runVars, tables, parseVars, countVars>>

Offsets == 1..Len(log)
PCs == {"fetch", "drain", "parse", "tx", "end", "commit", "down"}

\* A row, and what stands for none.  first is history: the status the row was
\* inserted with.
NoRow == [time |-> -1, status |-> Null, origin |-> Null, dest |-> Null,
          drops |-> 0, reacts |-> 0, first |-> Null]
There(row) == row.time # -1
NoTable == [g \in Gufi |-> NoRow]

DbInit ==
    /\ log = <<>> /\ committed = 0 /\ pos = 0 /\ pc = "fetch"
    /\ batch = <<>> /\ k = 0 /\ stopping = FALSE
    /\ flights = NoTable /\ tx = NoTable /\ airports = {}
    /\ positions = [o \in 1..MaxLog |-> 0] /\ txPositions = positions
    /\ dead = {} /\ dropped = {} /\ recorded = {} /\ skipped = {}
    /\ faults = 0 /\ errors = 0

-----------------------------------------------------------------------------
Arrive(m) ==
    /\ Len(log) < MaxLog
    /\ log' = Append(log, m)
    /\ UNCHANGED <<committed, runVars, tables, parseVars, countVars>>

(* readBatch                                                               *)

FetchFirst ==
    /\ pc = "fetch"
    /\ pos < Len(log) /\ log[pos + 1] \notin Corrupt
    /\ pos' = pos + 1 /\ batch' = <<pos + 1>>
    /\ pc' = "drain"
    /\ UNCHANGED <<log, committed, k, stopping, txVars, tables, parseVars, countVars>>

\* An empty batch: Run returns if ctx is cancelled, else reads again.
FetchError ==
    /\ pc = "fetch"
    /\ pc' = IF stopping THEN "down" ELSE "fetch"
    /\ UNCHANGED <<log, committed, pos, batch, k, stopping, txVars, tables, parseVars, countVars>>

Drain ==
    /\ pc = "drain"
    /\ Len(batch) < BatchSize
    /\ pos < Len(log) /\ log[pos + 1] \notin Corrupt
    /\ pos' = pos + 1 /\ batch' = Append(batch, pos + 1)
    /\ UNCHANGED <<log, committed, pc, k, stopping, txVars, tables, parseVars, countVars>>

\* The batch is full, the flush window has passed, or a fetch failed.
Flush ==
    /\ pc = "drain"
    /\ pc' = "parse" /\ k' = 0
    /\ UNCHANGED <<log, committed, pos, batch, stopping, txVars, tables, parseVars, countVars>>

-----------------------------------------------------------------------------
(* Parsing, in message order                                               *)

Wanted(o) == log[o] \notin Poison /\ GufiOf[log[o]] # Null

\* deadLetter is best effort: a failed write is logged and the loop goes on.
Parse(written) ==
    /\ pc = "parse" /\ k < Len(batch)
    /\ dead' = IF log[batch[k + 1]] \in Poison /\ written
               THEN dead \cup {batch[k + 1]} ELSE dead
    /\ dropped' = IF Wanted(batch[k + 1]) THEN dropped ELSE dropped \cup {batch[k + 1]}
    /\ k' = k + 1
    /\ UNCHANGED <<log, committed, pos, pc, batch, stopping, txVars, tables, countVars>>

\* RecordBatch begins a transaction, or returns at once if it has nothing.
BeginTx ==
    /\ pc = "parse" /\ k = Len(batch)
    /\ tx' = flights /\ txPositions' = positions /\ k' = 0
    /\ pc' = IF \E i \in 1..Len(batch) : Wanted(batch[i]) THEN "tx" ELSE "commit"
    /\ UNCHANGED <<log, committed, pos, batch, stopping, tables, parseVars, countVars>>

-----------------------------------------------------------------------------
(* RecordBatch                                                             *)

Coalesce(old, new) == IF old # Null THEN old ELSE new

\* Mutant: no status_time guard.
NewerAlways(row, m) == TRUE

\* The status_time guard.
Newer(row, m) == TimeOf[m] >= row.time

\* Mutant: the stored status is not looked at.
DroppedAlways(row, m) == Newer(row, m) /\ StatusOf[m] = "DROPPED"

\* A drop: the stored status IS DISTINCT FROM 'DROPPED'.
Dropped(row, m) ==
    Newer(row, m) /\ row.status # "DROPPED" /\ StatusOf[m] = "DROPPED"

\* A reactivation.
Back(row, m) ==
    Newer(row, m) /\ row.status = "DROPPED" /\ StatusOf[m] = "ACTIVE"

\* upsertFlightSQL.
Upsert(row, m) ==
    IF ~There(row)
    THEN [time |-> TimeOf[m], status |-> StatusOf[m], origin |-> OriginOf[m],
          dest |-> DestOf[m], drops |-> 0, reacts |-> 0, first |-> StatusOf[m]]
    ELSE [time |-> IF Newer(row, m) THEN TimeOf[m] ELSE row.time,
          status |-> IF Newer(row, m) THEN StatusOf[m] ELSE row.status,
          origin |-> Coalesce(row.origin, OriginOf[m]),
          dest |-> Coalesce(row.dest, DestOf[m]),
          drops |-> row.drops + (IF Dropped(row, m) THEN 1 ELSE 0),
          reacts |-> row.reacts + (IF Back(row, m) THEN 1 ELSE 0),
          first |-> row.first]

\* The statements of one message; one that parsing left out has none.
ExecFlight ==
    /\ pc = "tx" /\ k < Len(batch)
    /\ LET o == batch[k + 1]
           m == log[o]
       IN  IF Wanted(o)
           THEN /\ tx' = [tx EXCEPT ![GufiOf[m]] = Upsert(@, m)]
                /\ txPositions' = IF m \in HasPosition
                                  THEN [txPositions EXCEPT ![o] = @ + 1]
                                  ELSE txPositions
           ELSE UNCHANGED txVars
    /\ k' = k + 1
    /\ pc' = IF k' = Len(batch) THEN "end" ELSE "tx"
    /\ UNCHANGED <<log, committed, pos, batch, stopping, tables, parseVars, countVars>>

\* addAirport: origin and destination of every flight of the batch.
InBatch(o) == \E i \in 1..Len(batch) : batch[i] = o
Written == {o \in Offsets : InBatch(o) /\ Wanted(o)}
BatchAirports == (UNION {{OriginOf[log[o]], DestOf[log[o]]} : o \in Written}) \ {Null}

\* tx.Commit is carried out.
CommitTables ==
    /\ flights' = tx
    /\ positions' = txPositions
    /\ airports' = airports \cup BatchAirports
    /\ recorded' = recorded \cup Written

\* Mutant: the retry loop goes on after a success.
EndTxRetries ==
    /\ pc = "end"
    /\ CommitTables
    /\ pc' = "tx" /\ k' = 0 /\ tx' = flights' /\ txPositions' = positions'
    /\ UNCHANGED <<log, committed, pos, batch, stopping, parseVars, countVars>>

EndTx ==
    /\ pc = "end"
    /\ CommitTables
    /\ pc' = "commit"
    /\ UNCHANGED <<log, committed, pos, batch, k, stopping, txVars, parseVars, countVars>>

\* Mutant: one attempt, then the batch is given up.
TxErrorGivesUp(applied) ==
    /\ pc \in {"tx", "end"}
    /\ errors < MaxErrors
    /\ errors' = errors + 1
    /\ applied => pc = "end"
    /\ IF applied THEN CommitTables ELSE UNCHANGED tables
    /\ pc' = "commit"
    /\ UNCHANGED <<log, committed, pos, batch, k, stopping, txVars, parseVars, skipped, faults>>

\* A statement or the commit returns an error, after which the transaction
\* is rolled back, or was committed all the same: again, unless shutting down.
TxError(applied) ==
    /\ pc \in {"tx", "end"}
    /\ errors < MaxErrors
    /\ errors' = errors + 1
    /\ applied => pc = "end"
    /\ IF applied THEN CommitTables ELSE UNCHANGED tables
    /\ tx' = flights' /\ txPositions' = positions' /\ k' = 0
    /\ IF stopping THEN pc' = "down" /\ batch' = <<>>
                   ELSE pc' = "tx" /\ UNCHANGED batch
    /\ UNCHANGED <<log, committed, pos, stopping, parseVars, skipped, faults>>

\* Mutant: the offset after the last message, which the client adds 1 to again.
CommitOneTooFar(stored) ==
    /\ pc = "commit"
    /\ committed' = IF stored THEN batch[Len(batch)] + 1 ELSE committed
    /\ pc' = "fetch" /\ batch' = <<>> /\ k' = 0
    /\ UNCHANGED <<log, pos, stopping, txVars, tables, parseVars, countVars>>

\* An error of Commit is only logged.
Commit(stored) ==
    /\ pc = "commit"
    /\ committed' = IF stored THEN batch[Len(batch)] ELSE committed
    /\ pc' = "fetch" /\ batch' = <<>> /\ k' = 0
    /\ UNCHANGED <<log, pos, stopping, txVars, tables, parseVars, countVars>>

-----------------------------------------------------------------------------
(* The process and the group                                               *)

Fault == faults < MaxFaults /\ faults' = faults + 1

Signal ==
    /\ Fault
    /\ pc # "down" /\ ~stopping
    /\ stopping' = TRUE
    /\ UNCHANGED <<log, committed, pos, pc, batch, k, txVars, tables, parseVars, skipped, errors>>

\* A transaction whose commit was sent may still be carried out.
Crash(applied) ==
    /\ Fault
    /\ pc # "down"
    /\ applied => pc = "end"
    /\ IF applied THEN CommitTables ELSE UNCHANGED tables
    /\ pc' = "down" /\ batch' = <<>> /\ k' = 0 /\ pos' = 0
    /\ UNCHANGED <<log, committed, stopping, txVars, parseVars, skipped, errors>>

\* Mutant: every start is at the end of the topic.
ResumeAtEnd(read) ==
    /\ pos' = Len(log)
    /\ skipped' = IF committed = 0 THEN skipped \cup {o \in Offsets : o > read} ELSE skipped

\* The reader's place in a new generation of the group.  Without a committed offset it is
\* the end of the topic, and everything after read is passed over.
Resume(read) ==
    /\ pos' = IF committed = 0 THEN Len(log) ELSE committed
    /\ skipped' = IF committed = 0 THEN skipped \cup {o \in Offsets : o > read} ELSE skipped

\* A new process has read nothing: what an earlier one read but did not commit is passed
\* over with the rest.
Start ==
    /\ pc = "down"
    /\ Resume(0)
    /\ pc' = "fetch" /\ batch' = <<>> /\ k' = 0 /\ stopping' = FALSE
    /\ UNCHANGED <<log, committed, txVars, tables, parseVars, faults, errors>>

\* The batch in hand is kept.
Rebalance ==
    /\ Fault
    /\ pc # "down"
    /\ Resume(pos)
    /\ UNCHANGED <<log, committed, pc, batch, k, stopping, txVars, tables, parseVars, errors>>

-----------------------------------------------------------------------------
RunStep ==
    \/ FetchFirst \/ FetchError \/ Drain \/ Flush
    \/ \E written \in BOOLEAN : Parse(written)
    \/ BeginTx \/ ExecFlight
    \/ \E applied \in BOOLEAN : TxError(applied)
    \/ EndTx
    \/ \E stored \in BOOLEAN : Commit(stored)

Lifecycle == Signal \/ (\E applied \in BOOLEAN : Crash(applied)) \/ Start \/ Rebalance

DbNext == (\E m \in Msg : Arrive(m)) \/ RunStep \/ Lifecycle

\* The loop runs and the container is restarted.  Transactions fail finitely
\* often: "a brief Postgres outage".
DbFairness ==
    /\ WF_dbVars(FetchFirst)
    /\ WF_dbVars(Flush \/ BeginTx \/ ExecFlight \/ EndTx \/ Start)
    /\ WF_dbVars(\E b \in BOOLEAN : Parse(b) \/ Commit(b))

DbSpec == DbInit /\ [][DbNext]_dbVars /\ DbFairness

-----------------------------------------------------------------------------
(* Properties                                                              *)

Table(t, S) == t = [x \in S |-> t[x]]

DbTypeOK ==
    /\ log \in Seq(Msg) /\ Len(log) <= MaxLog
    /\ committed \in 0..Len(log) /\ pos \in 0..Len(log)
    /\ pc \in PCs
    /\ batch \in Seq(Nat) /\ \A i \in 1..Len(batch) : batch[i] \in Offsets
    /\ k \in 0..Len(batch)
    /\ pc \notin {"fetch", "down"} => Len(batch) > 0
    /\ pc \in {"fetch", "drain", "down"} => k = 0
    /\ Table(flights, Gufi) /\ Table(tx, Gufi)
    /\ dead \subseteq Offsets /\ dropped \subseteq Offsets
    /\ recorded \subseteq Offsets /\ skipped \subseteq Offsets
    /\ faults \in 0..MaxFaults /\ errors \in 0..MaxErrors

\* Durable history: every flight message behind the group's offset is in a
\* committed transaction, with its flight's row and, if it had one, its
\* position, through failed transactions, crashes and rebalances.  Excepted is what
\* `skipped` holds: messages a writer passed over because the group had no offset yet.
CommittedRecorded ==
    \A o \in 1..committed \ skipped : Wanted(o) =>
        /\ o \in recorded
        /\ There(flights[GufiOf[log[o]]])
        /\ log[o] \in HasPosition => positions[o] > 0

\* The database-writer keeps the contract of a pipeline stage: a message is done when a
\* transaction that holds it is committed, and missed when parsing leaves it out.
Contract == INSTANCE StageContract WITH n <- Len(log), done <- recorded, missed <- dropped
ImplementsContract == Contract!ContractSpec

\* "shrugs off out-of-order delivery": a flight's status is that of a recorded
\* message, and no recorded message of the flight has a later timestamp.
Newest(row, g, S) ==
    /\ \E o \in S : /\ GufiOf[log[o]] = g
                    /\ TimeOf[log[o]] = row.time /\ StatusOf[log[o]] = row.status
    /\ \A o \in S : GufiOf[log[o]] = g => TimeOf[log[o]] <= row.time
StatusIsNewest ==
    \A g \in Gufi : There(flights[g]) => Newest(flights[g], g, recorded)

\* drop_count and reactivation_count against what was recorded.  An episode is a run of
\* DROPPED messages of the flight by timestamp, then by offset; Episodes holds the first
\* message of each.
IsDrop(o) == StatusOf[log[o]] = "DROPPED"
Before(p, o) ==
    TimeOf[log[p]] < TimeOf[log[o]] \/ (TimeOf[log[p]] = TimeOf[log[o]] /\ p < o)
Episodes(S) ==
    {o \in S : IsDrop(o) /\ \A p \in S : IsDrop(p) /\ Before(p, o) =>
                               \E q \in S : ~IsDrop(q) /\ Before(p, q) /\ Before(q, o)}
OfFlight(g, S) == {o \in S : GufiOf[log[o]] = g}
Tied(S) == \E p, q \in S : TimeOf[log[p]] = TimeOf[log[q]] /\ StatusOf[log[p]] # StatusOf[log[q]]

\* A row that is inserted DROPPED counts no drop for it, hence the extra one.
Entered(row) == row.drops + (IF row.first = "DROPPED" THEN 1 ELSE 0)
Alternate(row) ==
    IF row.status = "DROPPED" THEN row.reacts < Entered(row) ELSE row.reacts <= Entered(row)

\* "count real episodes": no more drops are counted than the recorded messages have
\* episodes, and no more reactivations than drops, whatever is repeated, replayed, retried
\* or out of order.  Excepted from the first are flights with two messages of one
\* timestamp that differ in status: see RealEpisodes.
CountersCountEpisodes ==
    \A g \in Gufi :
        /\ Alternate(flights[g])
        /\ LET S == OfFlight(g, recorded)
           IN  ~Tied(S) => Entered(flights[g]) <= Cardinality(Episodes(S))

\* "A status_time guard makes these count real episodes (not every repeated DROPPED
\* message)", and "a replayed batch is safe": without exception.
RealEpisodes ==
    \A g \in Gufi : Entered(flights[g]) <= Cardinality(Episodes(OfFlight(g, recorded)))

\* Postgres has no reason to reject a batch: airports are there before the
\* flights that refer to them.
ForeignKeys ==
    \A g \in Gufi : {flights[g].origin, flights[g].dest} \subseteq airports \cup {Null}

\* A row never loses what it knows: origin and destination are set once,
\* status_time and the counters never go back.
Grows(old, new) ==
    There(old) =>
        /\ new.time >= old.time
        /\ old.origin # Null => new.origin = old.origin
        /\ old.dest # Null => new.dest = old.dest
        /\ new.drops >= old.drops
        /\ new.reacts >= old.reacts
RowsOnlyGrow == [][\A g \in Gufi : Grows(flights[g], flights'[g])]_dbVars

\* Every flight message is recorded in the end, but for those passed over while the group
\* had no offset (`skipped`: at a rebalance those not yet read, at a start all that is in
\* the topic, read by an earlier process or not: see NeverDropsGoodData) and those at or
\* after a record the client cannot read.
Frozen(o) == \E c \in 1..o : c <= Len(log) /\ log[c] \in Corrupt
EveryRecorded ==
    \A o \in 1..MaxLog :
        (o <= Len(log)) ~> \/ o \in recorded \cup skipped \/ Frozen(o)
                           \/ o <= Len(log) /\ ~Wanted(o)

\* "retry the batch write until it succeeds [...] so a brief Postgres outage never drops
\* good data"; "At-least-once holds": a flight message that the writer has read is
\* recorded in the end.
NeverDropsGoodData ==
    \A o \in 1..MaxLog : InBatch(o) ~> (o \in recorded \/ (o <= Len(log) /\ ~Wanted(o)))

\* "a replayed batch is safe" is not so of positions, whose INSERT has no key: a replay
\* inserts them again.  But extra rows are paid for: a message is read
\* once more at most for each crash, rebalance or stop, and each reading is written
\* once more at most for each failed transaction.
RowsAccounted == \A o \in Offsets : positions[o] <= (1 + faults) * (1 + errors)

\* The inductive invariant behind Alternate and RowsOnlyGrow: it holds
\* of the transaction's view too, which is ahead of the table.
RowOK(row) == row.time \in Int /\ row.time >= -1 /\ row.drops \in Nat /\ row.reacts \in Nat
RowsCount ==
    \A g \in Gufi : /\ RowOK(flights[g]) /\ Alternate(flights[g])
                    /\ RowOK(tx[g]) /\ Alternate(tx[g])
TxAhead == pc \in {"tx", "end"} => \A g \in Gufi : Grows(flights[g], tx[g])
DbInv == DbTypeOK /\ RowsCount /\ TxAhead

\* The inductive invariant behind RowsAccounted.  A message can have been read once
\* and once more for each fault, less the reading that is still to come: it lies
\* ahead of the reader, or the reader is about to start again.
Copies(b, o, n) == Cardinality({i \in 1..n : b[i] = o})
Ahead(o) ==
    (IF pc # "down" /\ o > pos THEN 1 ELSE 0) + (IF pc = "down" \/ stopping THEN 1 ELSE 0)
Readings(o) == 1 + faults - Ahead(o)
InHand(o) == Copies(batch, o, Len(batch))
Pending(o) == IF pc = "commit" THEN 0 ELSE InHand(o)
Accounted(o) ==
    /\ InHand(o) <= Readings(o)
    /\ positions[o] + Pending(o) <= (1 + errors) * Readings(o)
    /\ pc \in {"tx", "end"} => txPositions[o] <= positions[o] + Copies(batch, o, k)
RowsInv ==
    /\ positions \in [1..MaxLog -> Nat] /\ txPositions \in [1..MaxLog -> Nat]
    /\ pc = "end" => k = Len(batch)
    /\ \A o \in 1..MaxLog : Accounted(o)
=============================================================================
