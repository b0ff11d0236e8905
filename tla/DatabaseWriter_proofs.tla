----------------------- MODULE DatabaseWriter_proofs -----------------------
(***************************************************************************)
(* What the tables hold, for every topic, batch size, retry, crash and     *)
(* rebalance: counters, references, the newest status, and every flight    *)
(* message behind the group's offset.                                      *)
(***************************************************************************)
EXTENDS DatabaseWriter, TLAPS, FiniteSetTheorems

USE DEF parseVars

\* What one upsertFlightSQL does to a row: it stays a row whose counters
\* alternate, and keeps what the row knew.
LEMMA UpsertRow ==
    ASSUME NEW row, NEW m \in Msg, RowOK(row), Alternate(row)
    PROVE  RowOK(Upsert(row, m)) /\ Alternate(Upsert(row, m)) /\ Grows(row, Upsert(row, m))
  <1>1. TimeOf[m] \in Nat
    BY DatabaseWriterAssumption
  <1>2. CASE ~There(row)
    BY <1>1, <1>2 DEF Upsert, RowOK, Alternate, Entered, Grows
  <1>3. CASE There(row)
    <2>1. RowOK(Upsert(row, m))
      BY <1>1, <1>3 DEF Upsert, RowOK, Newer, Dropped, Back
    <2>2. Grows(row, Upsert(row, m))
      BY <1>1, <1>3 DEF Upsert, RowOK, Grows, Newer, Dropped, Back, Coalesce
    <2>3. Alternate(Upsert(row, m))
      BY <1>1, <1>3 DEF Upsert, RowOK, Alternate, Entered, Newer, Dropped, Back
    <2>4. QED
      BY <2>1, <2>2, <2>3
  <1>4. QED
    BY <1>2, <1>3

\* A row that grows twice has grown.
LEMMA GrowsTransitive ==
    ASSUME NEW a, NEW b, NEW c, RowOK(a), RowOK(b), RowOK(c), Grows(a, b), Grows(b, c)
    PROVE  Grows(a, c)
  BY DEF RowOK, Grows, There

\* A row has grown from itself.
LEMMA GrowsReflexive == ASSUME NEW a, RowOK(a) PROVE Grows(a, a)
  BY DEF RowOK, Grows

\* The first start: an empty database.
LEMMA DbInitInv == DbInit => DbInv
  BY DatabaseWriterAssumption DEF DbInit, DbInv, DbTypeOK, RowsCount, TxAhead,
     RowOK, Alternate, Entered, NoTable, NoRow, Table, PCs, Offsets

\* Steps that leave the tables and the transaction's view alone.
LEMMA QuietStep ==
    ASSUME DbInv, DbTypeOK', flights' = flights, tx' = tx,
           pc' \in {"tx", "end"} => pc \in {"tx", "end"}
    PROVE  DbInv'
  BY DEF DbInv, RowsCount, TxAhead

\* A transaction is carried out: the table takes on the view.
LEMMA CommitRows ==
    ASSUME DbInv, CommitTables, pc = "end", log' = log
    PROVE  /\ \A g \in Gufi : RowOK(flights'[g]) /\ Alternate(flights'[g])
           /\ \A g \in Gufi : Grows(flights[g], flights'[g])
           /\ Table(flights', Gufi)
           /\ recorded' \subseteq Offsets'
  <1>1. flights' = tx
    BY DEF CommitTables
  <1>2. recorded' \subseteq Offsets'
    BY DEF CommitTables, Written, Offsets, DbInv, DbTypeOK
  <1>3. QED
    BY <1>1, <1>2 DEF DbInv, DbTypeOK, RowsCount, TxAhead

\* Every step preserves the invariant, and rows only grow in it.
LEMMA DbStep ==
    DbInv /\ [DbNext]_dbVars => DbInv' /\ \A g \in Gufi : Grows(flights[g], flights'[g])
  <1> SUFFICES ASSUME DbInv, [DbNext]_dbVars
               PROVE  DbInv' /\ \A g \in Gufi : Grows(flights[g], flights'[g])
    OBVIOUS
  <1>0. \A g \in Gufi : Grows(flights[g], flights[g])
    BY GrowsReflexive DEF DbInv, RowsCount
  <1>1. ASSUME NEW m \in Msg, Arrive(m)
        PROVE  DbInv' /\ flights' = flights
    <2>1. log' \in Seq(Msg) /\ Len(log') = Len(log) + 1 /\ Len(log) \in Nat
      BY <1>1 DEF Arrive, DbInv, DbTypeOK
    <2>2. DbTypeOK'
      <3>1. Offsets \subseteq Offsets'
        BY <2>1 DEF Offsets
      <3>2. UNCHANGED <<committed, pos, pc, batch, k, tx, flights, dead, dropped, recorded,
                        skipped, faults, errors>>
        BY <1>1 DEF Arrive, runVars, txVars, tables, countVars
      <3>3. Len(log') <= MaxLog
        BY <1>1, <2>1, DatabaseWriterAssumption DEF Arrive
      <3>4. QED
        BY <2>1, <3>1, <3>2, <3>3 DEF DbInv, DbTypeOK
    <2>3. QED
      BY <1>1, <2>2, QuietStep DEF Arrive, runVars, txVars, tables
  <1>2. CASE FetchFirst \/ FetchError \/ Drain \/ Flush
    <2>1. DbTypeOK'
      <3>1. CASE FetchFirst
        <4>1. pos + 1 \in Offsets /\ batch' = <<pos + 1>> /\ pos' = pos + 1
          BY <3>1 DEF FetchFirst, DbInv, DbTypeOK, Offsets
        <4>2. batch' \in Seq(Nat) /\ Len(batch') = 1 /\ k' = 0
          BY <3>1, <4>1 DEF FetchFirst, DbInv, DbTypeOK, Offsets
        <4>3. UNCHANGED <<log, committed, tx, flights, dead, dropped, recorded, skipped,
                          faults, errors>> /\ pc' = "drain"
          BY <3>1 DEF FetchFirst, txVars, tables, countVars
        <4>4. QED
          BY <4>1, <4>2, <4>3 DEF DbInv, DbTypeOK, Offsets, PCs
      <3>2. CASE FetchError
        BY <3>2 DEF FetchError, DbInv, DbTypeOK, txVars, tables, countVars,
           Table, Offsets, PCs
      <3>3. CASE Drain
        BY <3>3 DEF Drain, DbInv, DbTypeOK, txVars, tables, countVars,
           Table, Offsets, PCs
      <3>4. CASE Flush
        BY <3>4 DEF Flush, DbInv, DbTypeOK, txVars, tables, countVars,
           Table, Offsets, PCs
      <3>5. QED
        BY <1>2, <3>1, <3>2, <3>3, <3>4
    <2>2. flights' = flights /\ tx' = tx /\ pc' \notin {"tx", "end"}
      BY <1>2 DEF FetchFirst, FetchError, Drain, Flush, txVars, tables
    <2>3. QED
      BY <1>0, <2>1, <2>2, QuietStep
  <1>3. ASSUME NEW written \in BOOLEAN, Parse(written)
        PROVE  DbInv' /\ flights' = flights
    <2>1. batch[k + 1] \in Offsets
      BY <1>3 DEF Parse, DbInv, DbTypeOK
    <2>2. dead' \subseteq Offsets /\ dropped' \subseteq Offsets
      BY <1>3, <2>1 DEF Parse, DbInv, DbTypeOK
    <2>3. DbTypeOK'
      BY <1>3, <2>2 DEF Parse, DbInv, DbTypeOK, txVars, tables, countVars, Table, Offsets
    <2>4. QED
      BY <1>3, <2>3, QuietStep DEF Parse, txVars, tables
  <1>4. CASE BeginTx
    <2>1. tx' = flights /\ flights' = flights
      BY <1>4 DEF BeginTx, tables
    <2>2. pc' \in {"tx", "commit"} /\ Len(batch) > 0
      <3>1. pc' \in {"tx", "commit"}
        BY <1>4 DEF BeginTx
      <3>2. QED
        BY <1>4, <3>1 DEF BeginTx, DbInv, DbTypeOK
    <2>3. DbTypeOK'
      BY <1>4, <2>1, <2>2 DEF BeginTx, DbInv, DbTypeOK, tables, countVars, Table,
         Offsets, PCs
    <2>4. QED
      BY <1>0, <2>1, <2>3 DEF DbInv, RowsCount, TxAhead
  <1>5. CASE ExecFlight
    <2>1. batch[k + 1] \in Offsets /\ log[batch[k + 1]] \in Msg
      BY <1>5 DEF ExecFlight, DbInv, DbTypeOK, Offsets
    <2>2. DbTypeOK'
      <3>1. Table(tx', Gufi)
        BY <1>5 DEF ExecFlight, DbInv, DbTypeOK, Table, txVars
      <3>2. QED
        BY <1>5, <3>1 DEF ExecFlight, DbInv, DbTypeOK, tables, countVars, Table,
           Offsets, PCs
    <2>3. ASSUME NEW g \in Gufi
          PROVE  RowOK(tx'[g]) /\ Alternate(tx'[g]) /\ Grows(tx[g], tx'[g])
      <3>1. RowOK(tx[g]) /\ Alternate(tx[g]) /\ Grows(tx[g], tx[g])
        BY GrowsReflexive DEF DbInv, RowsCount
      <3>2. tx'[g] = tx[g] \/ tx'[g] = Upsert(tx[g], log[batch[k + 1]])
        BY <1>5, <2>1 DEF ExecFlight, DbInv, DbTypeOK, Table, txVars
      <3>3. QED
        BY <2>1, <3>1, <3>2, UpsertRow
    <2>4. ASSUME NEW g \in Gufi PROVE Grows(flights[g], tx'[g])
      <3>1. Grows(flights[g], tx[g]) /\ RowOK(flights[g]) /\ RowOK(tx[g])
        BY <1>5 DEF ExecFlight, DbInv, TxAhead, RowsCount
      <3>2. QED
        BY <2>3, <3>1, GrowsTransitive
    <2>5. flights' = flights
      BY <1>5 DEF ExecFlight, tables
    <2>6. QED
      BY <1>0, <2>2, <2>3, <2>4, <2>5 DEF DbInv, RowsCount, TxAhead
  <1>6. ASSUME NEW applied \in BOOLEAN, TxError(applied)
        PROVE  DbInv' /\ \A g \in Gufi : Grows(flights[g], flights'[g])
    <2>1. /\ \A g \in Gufi : RowOK(flights'[g]) /\ Alternate(flights'[g])
          /\ \A g \in Gufi : Grows(flights[g], flights'[g])
          /\ Table(flights', Gufi)
          /\ recorded' \subseteq Offsets'
      <3>1. CASE applied
        BY <1>6, <3>1, CommitRows DEF TxError
      <3>2. CASE ~applied
        BY <1>0, <1>6, <3>2 DEF TxError, tables, DbInv, DbTypeOK, RowsCount, Offsets
      <3>3. QED
        BY <3>1, <3>2
    <2>2. tx' = flights'
      BY <1>6 DEF TxError
    <2>3. \A g \in Gufi : Grows(flights'[g], flights'[g])
      BY <2>1, GrowsReflexive
    <2>4. \/ pc' = "down" /\ batch' = <<>>
          \/ pc' = "tx" /\ batch' = batch
      BY <1>6 DEF TxError
    <2>5. DbTypeOK'
      <3>1. /\ errors' \in 0..MaxErrors /\ k' = 0 /\ log' = log
            /\ UNCHANGED <<committed, pos, dead, dropped, skipped, faults>>
        BY <1>6, DatabaseWriterAssumption DEF TxError, DbInv, DbTypeOK
      <3>2. Len(batch) > 0
        BY <1>6 DEF TxError, DbInv, DbTypeOK
      <3>3. CASE pc' = "down" /\ batch' = <<>>
        BY <2>1, <2>2, <3>1, <3>3 DEF DbInv, DbTypeOK, Offsets, PCs
      <3>4. CASE pc' = "tx" /\ batch' = batch
        BY <2>1, <2>2, <3>1, <3>2, <3>4 DEF DbInv, DbTypeOK, Offsets, PCs
      <3>5. QED
        BY <2>4, <3>3, <3>4
    <2>6. QED
      BY <2>1, <2>2, <2>3, <2>5 DEF DbInv, RowsCount, TxAhead
  <1>7. CASE EndTx
    <2>1. /\ \A g \in Gufi : RowOK(flights'[g]) /\ Alternate(flights'[g])
          /\ \A g \in Gufi : Grows(flights[g], flights'[g])
          /\ Table(flights', Gufi)
          /\ recorded' \subseteq Offsets'
      BY <1>7, CommitRows DEF EndTx
    <2>2. DbTypeOK'
      BY <1>7, <2>1 DEF EndTx, DbInv, DbTypeOK, txVars, countVars, Offsets, PCs
    <2>3. tx' = tx /\ pc' = "commit"
      BY <1>7 DEF EndTx, txVars
    <2>4. QED
      BY <2>1, <2>2, <2>3 DEF DbInv, RowsCount, TxAhead
  <1>8. ASSUME NEW stored \in BOOLEAN, Commit(stored)
        PROVE  DbInv' /\ flights' = flights
    <2>1. committed' \in 0..Len(log)
      BY <1>8 DEF Commit, DbInv, DbTypeOK, Offsets
    <2>2. DbTypeOK'
      BY <1>8, <2>1 DEF Commit, DbInv, DbTypeOK, txVars, tables, countVars, Table,
         Offsets, PCs
    <2>3. QED
      BY <1>8, <2>2, QuietStep DEF Commit, txVars, tables
  <1>9. CASE Signal
    <2>1. DbTypeOK'
      <3>1. faults' \in 0..MaxFaults
        BY <1>9, DatabaseWriterAssumption DEF Signal, Fault, DbInv, DbTypeOK
      <3>2. UNCHANGED <<log, committed, pos, pc, batch, k, tx, flights, dead, dropped, recorded,
                        skipped, errors>>
        BY <1>9 DEF Signal, txVars, tables
      <3>3. QED
        BY <3>1, <3>2 DEF DbInv, DbTypeOK, Offsets
    <2>2. QED
      BY <1>0, <1>9, <2>1, QuietStep DEF Signal, txVars, tables
  <1>10. ASSUME NEW applied \in BOOLEAN, Crash(applied)
         PROVE  DbInv' /\ \A g \in Gufi : Grows(flights[g], flights'[g])
    <2>1. /\ \A g \in Gufi : RowOK(flights'[g]) /\ Alternate(flights'[g])
          /\ \A g \in Gufi : Grows(flights[g], flights'[g])
          /\ Table(flights', Gufi)
          /\ recorded' \subseteq Offsets'
      <3>1. CASE applied
        BY <1>10, <3>1, CommitRows DEF Crash
      <3>2. CASE ~applied
        BY <1>0, <1>10, <3>2 DEF Crash, tables, DbInv, DbTypeOK, RowsCount, Offsets
      <3>3. QED
        BY <3>1, <3>2
    <2>2. tx' = tx /\ pc' = "down"
      BY <1>10 DEF Crash, txVars
    <2>3. DbTypeOK'
      <3>1. /\ faults' \in 0..MaxFaults /\ k' = 0 /\ batch' = <<>> /\ pos' = 0 /\ log' = log
            /\ UNCHANGED <<committed, dead, dropped, skipped, errors>>
        BY <1>10, DatabaseWriterAssumption DEF Crash, Fault, DbInv, DbTypeOK
      <3>2. QED
        BY <2>1, <2>2, <3>1 DEF DbInv, DbTypeOK, Offsets, PCs
    <2>4. QED
      BY <2>1, <2>2, <2>3 DEF DbInv, RowsCount, TxAhead
  <1>11. CASE Start
    <2>1. DbTypeOK'
      BY <1>11 DEF Start, Resume, DbInv, DbTypeOK, txVars, tables, Table, Offsets, PCs
    <2>2. QED
      BY <1>0, <1>11, <2>1, QuietStep DEF Start, txVars, tables
  <1>12. CASE Rebalance
    <2>1. DbTypeOK'
      <3>1. pos' \in 0..Len(log) /\ skipped' \subseteq Offsets
        <4>1. CASE committed = 0
          <5>1. pos' = Len(log) /\ skipped' \subseteq skipped \cup Offsets
            BY <1>12, <4>1 DEF Rebalance, Resume
          <5>2. skipped \subseteq Offsets /\ Len(log) \in Nat
            BY DEF DbInv, DbTypeOK
          <5>3. QED
            BY <5>1, <5>2
        <4>2. CASE committed # 0
          BY <1>12, <4>2 DEF Rebalance, Resume, DbInv, DbTypeOK
        <4>3. QED
          BY <4>1, <4>2
      <3>2. faults' \in 0..MaxFaults
        BY <1>12, DatabaseWriterAssumption DEF Rebalance, Fault, DbInv, DbTypeOK
      <3>3. UNCHANGED <<log, committed, pc, batch, k, tx, flights, dead, dropped, recorded, errors>>
        BY <1>12 DEF Rebalance, txVars, tables
      <3>4. QED
        BY <3>1, <3>2, <3>3 DEF DbInv, DbTypeOK, Offsets
    <2>2. QED
      BY <1>0, <1>12, <2>1, QuietStep DEF Rebalance, txVars, tables
  <1>13. CASE UNCHANGED dbVars
    <2>1. DbTypeOK'
      BY <1>13 DEF dbVars, runVars, txVars, tables, countVars, DbInv, DbTypeOK, Table, Offsets
    <2>2. QED
      BY <1>0, <1>13, <2>1, QuietStep DEF dbVars, runVars, txVars, tables
  <1>14. QED
    BY <1>0, <1>1, <1>2, <1>3, <1>4, <1>5, <1>6, <1>7, <1>8, <1>9, <1>10, <1>11,
       <1>12, <1>13 DEF DbNext, RunStep, Lifecycle

\* DbInv is an invariant of the database-writer: the transaction's view is ahead of the
\* table, row by row.
THEOREM DbSpecInv == DbSpec => []DbInv
  <1>1. DbInv /\ [DbNext]_dbVars => DbInv'
    BY DbStep
  <1>2. QED
    BY <1>1, DbInitInv, PTL DEF DbSpec

\* The database-writer is type correct: its batch lies in the topic and the offset it
\* commits does not pass the topic's end.
THEOREM DbTypeCorrect == DbSpec => []DbTypeOK
  <1>1. DbInv => DbTypeOK
    BY DEF DbInv
  <1>2. QED
    BY <1>1, DbSpecInv, PTL

\* No step, and no replayed batch, takes back what a row knows.
THEOREM RowsOnlyGrowHolds == DbSpec => RowsOnlyGrow
  <1>1. DbInv /\ [DbNext]_dbVars => [\A g \in Gufi : Grows(flights[g], flights'[g])]_dbVars
    BY DbStep
  <1>2. QED
    BY <1>1, DbSpecInv, PTL DEF DbSpec, RowsOnlyGrow

-----------------------------------------------------------------------------
\* The transaction's rows refer to airports of the table or of the batch.
TxKeys ==
    pc \in {"tx", "end"} => \A g \in Gufi :
        {tx[g].origin, tx[g].dest} \subseteq airports \cup BatchAirports \cup {Null}
KeysInv == ForeignKeys /\ TxKeys

\* upsertFlightSQL brings in no code but the message's own.
LEMMA UpsertKeys ==
    ASSUME NEW row, NEW m, NEW S, {row.origin, row.dest} \subseteq S,
           {OriginOf[m], DestOf[m]} \subseteq S
    PROVE  {Upsert(row, m).origin, Upsert(row, m).dest} \subseteq S
  BY DEF Upsert, Coalesce

\* Committing the transaction writes the airports with the flights.
LEMMA CommitKeys ==
    ASSUME KeysInv, pc = "end", CommitTables PROVE ForeignKeys'
  BY DEF KeysInv, ForeignKeys, TxKeys, CommitTables

\* The airports of a message that is written are among those of the batch.
LEMMA WrittenAirports ==
    ASSUME NEW o \in Written
    PROVE  {OriginOf[log[o]], DestOf[log[o]]} \subseteq BatchAirports \cup {Null}
  <1> DEFINE Codes == {{OriginOf[log[p]], DestOf[log[p]]} : p \in Written}
  <1>1. {OriginOf[log[o]], DestOf[log[o]]} \in Codes
    OBVIOUS
  <1>2. \A X \in Codes : X \subseteq UNION Codes
    OBVIOUS
  <1>3. BatchAirports = (UNION Codes) \ {Null}
    BY DEF BatchAirports
  <1> HIDE DEF Codes
  <1>4. QED
    BY <1>1, <1>2, <1>3

\* The airports of a batch stay those of the batch while the topic grows.
LEMMA AirportsStay ==
    ASSUME DbInv, NEW m \in Msg, Arrive(m) PROVE BatchAirports \subseteq BatchAirports'
  <1>1. /\ log \in Seq(Msg) /\ log' = Append(log, m) /\ batch' = batch
    BY DEF Arrive, runVars, DbInv, DbTypeOK
  <1>2. \A o \in Offsets : o \in Offsets' /\ log'[o] = log[o]
    BY <1>1 DEF Offsets
  <1>3. Written \subseteq Written'
    BY <1>1, <1>2 DEF Written, InBatch, Wanted
  <1>4. QED
    BY <1>2, <1>3 DEF BatchAirports, Written

\* Every step keeps the references.
LEMMA KeysStep == DbInv /\ KeysInv /\ [DbNext]_dbVars => KeysInv'
  <1> SUFFICES ASSUME DbInv, KeysInv, [DbNext]_dbVars PROVE KeysInv'
    OBVIOUS
  <1>1. ASSUME NEW m \in Msg, Arrive(m) PROVE KeysInv'
    <2>1. UNCHANGED <<pc, tx, flights, airports>>
      BY <1>1 DEF Arrive, runVars, txVars, tables
    <2>2. QED
      BY <1>1, <2>1, AirportsStay DEF KeysInv, ForeignKeys, TxKeys
  <1>2. CASE FetchFirst \/ FetchError \/ Drain \/ Flush \/ Start
             \/ \E b \in BOOLEAN : Parse(b) \/ Commit(b)
    <2>1. UNCHANGED <<flights, airports>> /\ pc' \notin {"tx", "end"}
      BY <1>2 DEF FetchFirst, FetchError, Drain, Flush, Parse, Commit, Start, tables
    <2>2. QED
      BY <2>1 DEF KeysInv, ForeignKeys, TxKeys
  <1>3. CASE BeginTx
    BY <1>3 DEF BeginTx, KeysInv, ForeignKeys, TxKeys, tables
  <1>4. CASE ExecFlight
    <2>1. UNCHANGED <<log, batch, flights, airports>> /\ pc = "tx" /\ k < Len(batch)
      BY <1>4 DEF ExecFlight, tables
    <2>2. BatchAirports' = BatchAirports
      BY <2>1 DEF BatchAirports, Written, InBatch, Wanted, Offsets
    <2>3. ASSUME NEW g \in Gufi
          PROVE  {tx'[g].origin, tx'[g].dest} \subseteq airports \cup BatchAirports \cup {Null}
      <3> DEFINE o == batch[k + 1]
                 S == airports \cup BatchAirports \cup {Null}
      <3>1. {tx[g].origin, tx[g].dest} \subseteq S
        BY <2>1 DEF KeysInv, TxKeys
      <3>2. o \in Offsets /\ InBatch(o)
        BY <2>1 DEF DbInv, DbTypeOK, InBatch
      <3>3. CASE Wanted(o)
        <4>1. o \in Written
          BY <3>2, <3>3 DEF Written
        <4>2. {OriginOf[log[o]], DestOf[log[o]]} \subseteq S
          BY <4>1, WrittenAirports
        <4>3. tx'[g] = tx[g] \/ tx'[g] = Upsert(tx[g], log[o])
          BY <1>4, <3>3 DEF ExecFlight, DbInv, DbTypeOK, Table
        <4>4. CASE tx'[g] = Upsert(tx[g], log[o])
          <5>1. {Upsert(tx[g], log[o]).origin, Upsert(tx[g], log[o]).dest} \subseteq S
            <6> HIDE DEF S, o
            <6> QED
              BY <3>1, <4>2, UpsertKeys
          <5>2. QED
            BY <4>4, <5>1
        <4>5. QED
          BY <3>1, <4>3, <4>4
      <3>4. CASE ~Wanted(o)
        BY <1>4, <3>1, <3>4 DEF ExecFlight, txVars
      <3>5. QED
        BY <3>3, <3>4
    <2>4. QED
      BY <2>1, <2>2, <2>3 DEF KeysInv, ForeignKeys, TxKeys
  <1>5. ASSUME NEW applied \in BOOLEAN, TxError(applied) PROVE KeysInv'
    <2>1. ForeignKeys'
      <3>1. CASE applied
        BY <1>5, <3>1, CommitKeys DEF TxError
      <3>2. CASE ~applied
        BY <1>5, <3>2 DEF TxError, tables, KeysInv, ForeignKeys
      <3>3. QED
        BY <3>1, <3>2
    <2>2. tx' = flights'
      BY <1>5 DEF TxError
    <2>3. QED
      BY <2>1, <2>2 DEF KeysInv, ForeignKeys, TxKeys
  <1>6. CASE EndTx
    BY <1>6, CommitKeys DEF EndTx, KeysInv, TxKeys
  <1>7. ASSUME NEW applied \in BOOLEAN, Crash(applied) PROVE KeysInv'
    <2>1. ForeignKeys'
      <3>1. CASE applied
        BY <1>7, <3>1, CommitKeys DEF Crash
      <3>2. CASE ~applied
        BY <1>7, <3>2 DEF Crash, tables, KeysInv, ForeignKeys
      <3>3. QED
        BY <3>1, <3>2
    <2>2. QED
      BY <1>7, <2>1 DEF Crash, KeysInv, TxKeys
  <1>8. CASE Signal \/ Rebalance \/ UNCHANGED dbVars
    <2>1. UNCHANGED <<log, batch, pc, tx, flights, airports>>
      BY <1>8 DEF Signal, Rebalance, dbVars, runVars, txVars, tables
    <2>2. BatchAirports' = BatchAirports
      BY <2>1 DEF BatchAirports, Written, InBatch, Wanted, Offsets
    <2>3. QED
      BY <2>1, <2>2 DEF KeysInv, ForeignKeys, TxKeys
  <1>9. QED
    BY <1>1, <1>2, <1>3, <1>4, <1>5, <1>6, <1>7, <1>8 DEF DbNext, RunStep, Lifecycle

\* Postgres has no reason to reject a transaction: a flight's airports are in the table
\* whenever the flight is, whatever order messages, retries and deaths come in.
THEOREM ForeignKeysHolds == DbSpec => []ForeignKeys
  <1>1. DbInit => KeysInv
    BY DEF DbInit, KeysInv, ForeignKeys, TxKeys, NoTable, NoRow
  <1>2. KeysInv => ForeignKeys
    BY DEF KeysInv
  <1>3. QED
    BY <1>1, <1>2, KeysStep, DbSpecInv, PTL DEF DbSpec

-----------------------------------------------------------------------------
\* The flight messages among the first n of the batch.
Done(n) == {o \in Offsets : Wanted(o) /\ \E i \in 1..n : batch[i] = o}

\* Tables that hold exactly what the messages of S say: each has its row and, if it has
\* one, its position, and every row is that of the newest message of its flight.
Holds(t, p, S) ==
    /\ \A o \in S : /\ There(t[GufiOf[log[o]]])
                    /\ log[o] \in HasPosition => p[o] > 0
    /\ \A g \in Gufi : There(t[g]) => Newest(t[g], g, S)

\* The tables hold the recorded messages; the transaction's view, those of the batch that
\* it has executed as well.
HistoryInv ==
    /\ recorded \subseteq {o \in Offsets : Wanted(o)}
    /\ positions \in [1..MaxLog -> Nat] /\ txPositions \in [1..MaxLog -> Nat]
    /\ Holds(flights, positions, recorded)
    /\ pc \in {"tx", "end"} => Holds(tx, txPositions, recorded \cup Done(k))
    /\ pc = "end" => k = Len(batch)

\* A message that needs nothing more: recorded, left out by parsing, or passed over by a
\* start at the end of the topic.
Handled(o) == o \in recorded \cup dropped \cup skipped

\* Parsing leaves out what is no flight message of the batch, and nothing else.
Sifted(n) == \A i \in 1..n : Wanted(batch[i]) \/ batch[i] \in dropped
SiftInv ==
    /\ pc = "parse" => Sifted(k)
    /\ pc \in {"tx", "end"} => Sifted(Len(batch))
    /\ \A o \in dropped : ~Wanted(o)

\* What is before the reader or before a message of the batch is handled or in the batch.
\* A rebalance moves the reader while a batch is in hand, so neither follows from the other.
CoverInv ==
    /\ \A o \in 1..committed : Handled(o)
    /\ pc # "down" => \A o \in 1..pos : Handled(o) \/ InBatch(o)
    /\ \A i \in 1..Len(batch) : \A o \in 1..batch[i] : Handled(o) \/ InBatch(o)
    /\ pc = "commit" => \A i \in 1..Len(batch) : Handled(batch[i])
    /\ pc \in {"fetch", "down"} => batch = <<>>

\* The row of a flight after one message more: it is there, and still the newest.
LEMMA UpsertNewest ==
    ASSUME NEW g \in Gufi, NEW S, NEW o, NEW row, RowOK(row),
           log[o] \in Msg, GufiOf[log[o]] = g,
           There(row) => Newest(row, g, S),
           ~There(row) => \A q \in S : GufiOf[log[q]] # g,
           \A q \in S : log[q] \in Msg
    PROVE  /\ There(Upsert(row, log[o]))
           /\ Newest(Upsert(row, log[o]), g, S \cup {o})
  <1> DEFINE m == log[o]
  <1>1. TimeOf[m] \in Nat /\ \A q \in S : TimeOf[log[q]] \in Nat
    BY DatabaseWriterAssumption
  <1>2. CASE ~There(row)
    <2>1. Upsert(row, m).time = TimeOf[m] /\ Upsert(row, m).status = StatusOf[m]
      BY <1>2 DEF Upsert
    <2>2. QED
      BY <1>1, <1>2, <2>1 DEF Newest, There
  <1>3. CASE There(row) /\ TimeOf[m] >= row.time
    <2>1. Upsert(row, m).time = TimeOf[m] /\ Upsert(row, m).status = StatusOf[m]
      BY <1>3 DEF Upsert, Newer
    <2>2. QED
      BY <1>1, <1>3, <2>1 DEF Newest, There, RowOK
  <1>4. CASE There(row) /\ ~(TimeOf[m] >= row.time)
    <2>1. Upsert(row, m).time = row.time /\ Upsert(row, m).status = row.status
      BY <1>4 DEF Upsert, Newer
    <2>2. QED
      BY <1>1, <1>4, <2>1 DEF Newest, There, RowOK
  <1>5. QED
    BY <1>2, <1>3, <1>4

\* Growing the topic changes nothing of what a table holds.
LEMMA HoldsStays ==
    ASSUME NEW t, NEW p, NEW S, S \subseteq Offsets,
           \A o \in Offsets : log'[o] = log[o], Holds(t, p, S)
    PROVE  /\ \A o \in S : /\ There(t[GufiOf[log'[o]]])
                           /\ log'[o] \in HasPosition => p[o] > 0
           /\ \A g \in Gufi : There(t[g]) =>
                 /\ \E o \in S : /\ GufiOf[log'[o]] = g
                                 /\ TimeOf[log'[o]] = t[g].time /\ StatusOf[log'[o]] = t[g].status
                 /\ \A o \in S : GufiOf[log'[o]] = g => TimeOf[log'[o]] <= t[g].time
  <1>1. \A o \in S : log'[o] = log[o]
    OBVIOUS
  <1>2. ASSUME NEW g \in Gufi, There(t[g])
        PROVE  /\ \E o \in S : /\ GufiOf[log'[o]] = g
                               /\ TimeOf[log'[o]] = t[g].time /\ StatusOf[log'[o]] = t[g].status
               /\ \A o \in S : GufiOf[log'[o]] = g => TimeOf[log'[o]] <= t[g].time
    <2>1. Newest(t[g], g, S)
      BY <1>2 DEF Holds
    <2>2. QED
      BY <1>1, <2>1 DEF Newest
  <1>3. QED
    BY <1>1, <1>2 DEF Holds

\* A commit makes the transaction's view the tables.
LEMMA CommitHolds ==
    ASSUME DbInv, HistoryInv, pc = "end", CommitTables, log' = log
    PROVE  /\ recorded' \subseteq {o \in Offsets : Wanted(o)}
           /\ positions' \in [1..MaxLog -> Nat]
           /\ Holds(flights, positions, recorded)'
  <1>1. recorded' = recorded \cup Done(k)
    BY DEF CommitTables, HistoryInv, Done, Written, InBatch
  <1>2. Holds(flights, positions, recorded)'
    BY <1>1 DEF HistoryInv, CommitTables, Holds, Newest
  <1>3. QED
    BY <1>1, <1>2 DEF HistoryInv, CommitTables, Done

\* Every step preserves HistoryInv.
LEMMA HistoryStep == DbInv /\ HistoryInv /\ [DbNext]_dbVars => HistoryInv'
  <1> SUFFICES ASSUME DbInv, HistoryInv, [DbNext]_dbVars PROVE HistoryInv'
    OBVIOUS
  <1>1. ASSUME NEW m \in Msg, Arrive(m) PROVE HistoryInv'
    <2>1. /\ log \in Seq(Msg) /\ log' = Append(log, m)
          /\ UNCHANGED <<batch, k, pc, tx, txPositions, flights, positions, recorded>>
      BY <1>1 DEF Arrive, runVars, txVars, tables, DbInv, DbTypeOK
    <2>2. \A o \in Offsets : o \in Offsets' /\ log'[o] = log[o]
      BY <2>1 DEF Offsets
    <2>3. \A o \in Offsets : Wanted(o) <=> Wanted(o)'
      BY <2>2 DEF Wanted
    <2>4. Done(k)' = Done(k)
      <3>1. \A i \in 1..k : batch[i] \in Offsets
        BY DEF DbInv, DbTypeOK
      <3>2. QED
        BY <2>1, <2>2, <2>3, <3>1 DEF Done
    <2>5. Holds(flights, positions, recorded)'
      <3>1. recorded \subseteq Offsets /\ Holds(flights, positions, recorded)
        BY DEF HistoryInv
      <3>2. /\ \A o \in recorded : /\ There(flights[GufiOf[log'[o]]])
                                   /\ log'[o] \in HasPosition => positions[o] > 0
            /\ \A g \in Gufi : There(flights[g]) =>
                 /\ \E o \in recorded :
                       /\ GufiOf[log'[o]] = g /\ TimeOf[log'[o]] = flights[g].time
                       /\ StatusOf[log'[o]] = flights[g].status
                 /\ \A o \in recorded : GufiOf[log'[o]] = g => TimeOf[log'[o]] <= flights[g].time
        BY <2>2, <3>1, HoldsStays
      <3>3. flights' = flights /\ positions' = positions /\ recorded' = recorded
        BY <2>1
      <3>4. QED
        BY <3>2, <3>3 DEF Holds, Newest
    <2>6. ASSUME pc \in {"tx", "end"} PROVE Holds(tx, txPositions, recorded \cup Done(k))'
      <3>1. /\ recorded \cup Done(k) \subseteq Offsets
            /\ Holds(tx, txPositions, recorded \cup Done(k))
        BY <2>6 DEF HistoryInv, Done
      <3> DEFINE S == recorded \cup Done(k)
      <3>2. /\ \A o \in S : /\ There(tx[GufiOf[log'[o]]])
                            /\ log'[o] \in HasPosition => txPositions[o] > 0
            /\ \A g \in Gufi : There(tx[g]) =>
                 /\ \E o \in S :
                       /\ GufiOf[log'[o]] = g /\ TimeOf[log'[o]] = tx[g].time
                       /\ StatusOf[log'[o]] = tx[g].status
                 /\ \A o \in S : GufiOf[log'[o]] = g => TimeOf[log'[o]] <= tx[g].time
        <4> HIDE DEF S
        <4> QED BY <2>2, <3>1, HoldsStays DEF S
      <3>3. (recorded \cup Done(k))' = S
        BY <2>1, <2>4
      <3>4. QED
        <4> HIDE DEF S
        <4> QED BY <2>1, <3>2, <3>3 DEF Holds, Newest
    <2>7. recorded' \subseteq {o \in Offsets' : Wanted(o)'}
      BY <2>1, <2>2, <2>3 DEF HistoryInv
    <2>8. QED
      BY <2>1, <2>5, <2>6, <2>7 DEF HistoryInv
  <1>2. CASE FetchFirst \/ FetchError \/ Drain \/ Flush \/ Start
             \/ \E b \in BOOLEAN : Parse(b) \/ Commit(b)
    <2>1. UNCHANGED <<log, flights, positions, txPositions, recorded>> /\ pc' \notin {"tx", "end"}
      BY <1>2 DEF FetchFirst, FetchError, Drain, Flush, Parse, Commit, Start, tables, txVars
    <2>2. QED
      BY <2>1 DEF HistoryInv, Holds, Newest, Offsets, Wanted
  <1>3. CASE BeginTx
    <2>1. /\ UNCHANGED <<log, batch, flights, positions, recorded>>
          /\ tx' = flights /\ txPositions' = positions /\ k' = 0 /\ pc' # "end"
      BY <1>3 DEF BeginTx, tables
    <2>2. Done(k)' = {}
      BY <2>1 DEF Done
    <2>3. QED
      BY <2>1, <2>2 DEF HistoryInv, Holds, Newest, Offsets, Wanted
  <1>4. CASE ExecFlight
    <2> DEFINE o == batch[k + 1]
    <2>1. /\ UNCHANGED <<log, batch, flights, positions, recorded>> /\ pc = "tx"
          /\ k < Len(batch) /\ k' = k + 1 /\ pc' = (IF k' = Len(batch) THEN "end" ELSE "tx")
      BY <1>4 DEF ExecFlight, tables
    <2>2. o \in Offsets /\ log[o] \in Msg /\ k \in Nat
      BY <2>1 DEF DbInv, DbTypeOK, Offsets
    <2>3. Holds(tx, txPositions, recorded \cup Done(k)) /\ RowsCount
      BY <2>1 DEF HistoryInv, DbInv
    <2>4. \A q \in recorded \cup Done(k) : log[q] \in Msg
      BY DEF HistoryInv, Done, Offsets, DbInv, DbTypeOK
    <2>5. /\ txPositions' \in [1..MaxLog -> Nat]
          /\ Holds(tx, txPositions, recorded \cup Done(k))'
      <3>1. CASE ~Wanted(o)
        <4>1. Done(k)' = Done(k)
          BY <2>1, <2>2, <3>1 DEF Done, Offsets, Wanted
        <4>2. UNCHANGED txVars
          BY <1>4, <3>1 DEF ExecFlight
        <4>3. QED
          BY <2>1, <2>3, <4>1, <4>2 DEF txVars, Holds, Newest, HistoryInv
      <3>2. CASE Wanted(o)
        <4> DEFINE m == log[o]
                   S == recorded \cup Done(k)
        <4>1. Done(k)' = Done(k) \cup {o}
          BY <2>1, <2>2, <3>2 DEF Done, Offsets, Wanted
        <4>2. GufiOf[m] \in Gufi /\ tx' = [tx EXCEPT ![GufiOf[m]] = Upsert(@, m)]
              /\ txPositions' = (IF m \in HasPosition
                                 THEN [txPositions EXCEPT ![o] = @ + 1] ELSE txPositions)
          BY <1>4, <2>2, <3>2, DatabaseWriterAssumption DEF ExecFlight, Wanted
        <4>3. /\ tx'[GufiOf[m]] = Upsert(tx[GufiOf[m]], m)
              /\ \A g \in Gufi : g # GufiOf[m] => tx'[g] = tx[g]
          BY <4>2 DEF DbInv, DbTypeOK, Table
        <4>4. /\ There(Upsert(tx[GufiOf[m]], m))
              /\ Newest(Upsert(tx[GufiOf[m]], m), GufiOf[m], S \cup {o})
          <5>1. RowOK(tx[GufiOf[m]])
            BY <2>3, <4>2 DEF RowsCount
          <5>2. There(tx[GufiOf[m]]) => Newest(tx[GufiOf[m]], GufiOf[m], S)
            BY <2>3, <4>2 DEF Holds
          <5>3. ~There(tx[GufiOf[m]]) => \A q \in S : GufiOf[log[q]] # GufiOf[m]
            BY <2>3 DEF Holds
          <5> HIDE DEF S, o
          <5>4. QED
            BY <2>2, <2>4, <4>2, <5>1, <5>2, <5>3, UpsertNewest DEF S
        <4>5. o \in 1..MaxLog
          BY <2>2, DatabaseWriterAssumption DEF DbInv, DbTypeOK, Offsets
        <4>6. /\ txPositions' \in [1..MaxLog -> Nat]
              /\ m \in HasPosition => txPositions'[o] > 0
              /\ \A q \in 1..MaxLog : txPositions[q] > 0 => txPositions'[q] > 0
          BY <4>2, <4>5 DEF HistoryInv
        <4>7. \A q \in S \cup {o} : /\ There(tx'[GufiOf[log[q]]])
                                    /\ log[q] \in HasPosition => txPositions'[q] > 0
          <5>1. ASSUME NEW q \in S
                PROVE  /\ There(tx'[GufiOf[log[q]]])
                       /\ log[q] \in HasPosition => txPositions'[q] > 0
            <6>a. q \in Offsets /\ Wanted(q)
              BY DEF HistoryInv, Done
            <6>1. q \in 1..MaxLog /\ GufiOf[log[q]] \in Gufi
              BY <2>4, <6>a, DatabaseWriterAssumption DEF Offsets, Wanted, DbInv, DbTypeOK
            <6>2. There(tx[GufiOf[log[q]]]) /\ (log[q] \in HasPosition => txPositions[q] > 0)
              BY <2>3 DEF Holds
            <6>3. QED
              BY <4>3, <4>4, <4>6, <6>1, <6>2
          <5>2. QED
            BY <4>3, <4>4, <4>6, <5>1
        <4>8. ASSUME NEW g \in Gufi, There(tx'[g]) PROVE Newest(tx'[g], g, S \cup {o})
          <5>1. CASE g = GufiOf[m]
            BY <4>3, <4>4, <5>1
          <5>2. CASE g # GufiOf[m]
            <6>1. tx'[g] = tx[g] /\ Newest(tx[g], g, S)
              BY <2>3, <4>3, <4>8, <5>2 DEF Holds
            <6>2. Newest(tx[g], g, S \cup {o})
              BY <5>2, <6>1 DEF Newest
            <6>3. QED
              BY <6>1, <6>2
          <5>3. QED
            BY <5>1, <5>2
        <4>9. (recorded \cup Done(k))' = S \cup {o}
          BY <2>1, <4>1
        <4>10. Holds(tx, txPositions, recorded \cup Done(k))'
          <5> HIDE DEF S, o
          <5> QED BY <2>1, <4>7, <4>8, <4>9 DEF Holds, Newest
        <4>11. QED
          BY <4>6, <4>10
      <3>3. QED
        BY <3>1, <3>2
    <2>6. QED
      BY <2>1, <2>5 DEF HistoryInv, Holds, Newest, Offsets, Wanted
  <1>5. ASSUME NEW applied \in BOOLEAN, TxError(applied) PROVE HistoryInv'
    <2>1. /\ log' = log /\ tx' = flights' /\ txPositions' = positions' /\ k' = 0 /\ pc' # "end"
      BY <1>5 DEF TxError
    <2>2. /\ recorded' \subseteq {o \in Offsets : Wanted(o)}
          /\ positions' \in [1..MaxLog -> Nat]
          /\ Holds(flights, positions, recorded)'
      <3>1. CASE applied
        BY <1>5, <2>1, <3>1, CommitHolds DEF TxError
      <3>2. CASE ~applied
        BY <1>5, <2>1, <3>2 DEF TxError, tables, HistoryInv, Holds, Newest
      <3>3. QED
        BY <3>1, <3>2
    <2>3. Done(k)' = {}
      BY <2>1 DEF Done
    <2>4. Holds(tx, txPositions, recorded \cup Done(k))'
      BY <2>1, <2>2, <2>3 DEF Holds, Newest
    <2>5. QED
      BY <2>1, <2>2, <2>4 DEF HistoryInv, Offsets, Wanted
  <1>6. CASE EndTx
    <2>1. log' = log /\ pc' = "commit" /\ txPositions' = txPositions
      BY <1>6 DEF EndTx, txVars
    <2>2. QED
      BY <1>6, <2>1, CommitHolds DEF EndTx, HistoryInv, Offsets, Wanted
  <1>7. ASSUME NEW applied \in BOOLEAN, Crash(applied) PROVE HistoryInv'
    <2>1. log' = log /\ pc' = "down" /\ txPositions' = txPositions
      BY <1>7 DEF Crash, txVars
    <2>2. /\ recorded' \subseteq {o \in Offsets : Wanted(o)}
          /\ positions' \in [1..MaxLog -> Nat]
          /\ Holds(flights, positions, recorded)'
      <3>1. CASE applied
        BY <1>7, <2>1, <3>1, CommitHolds DEF Crash
      <3>2. CASE ~applied
        BY <1>7, <2>1, <3>2 DEF Crash, tables, HistoryInv, Holds, Newest
      <3>3. QED
        BY <3>1, <3>2
    <2>3. QED
      BY <2>1, <2>2 DEF HistoryInv, Offsets, Wanted
  <1>8. CASE Signal \/ Rebalance \/ UNCHANGED dbVars
    <2>1. UNCHANGED <<log, batch, k, pc, tx, txPositions, flights, positions, recorded>>
      BY <1>8 DEF Signal, Rebalance, dbVars, runVars, txVars, tables
    <2>2. QED
      BY <2>1 DEF HistoryInv, Holds, Newest, Done, Offsets, Wanted
  <1>9. QED
    BY <1>1, <1>2, <1>3, <1>4, <1>5, <1>6, <1>7, <1>8 DEF DbNext, RunStep, Lifecycle

\* HistoryInv is an invariant of the database-writer.
LEMMA HistoryHolds == DbSpec => []HistoryInv
  <1>1. DbInit => HistoryInv
    BY DatabaseWriterAssumption DEF DbInit, HistoryInv, Holds, NoTable, NoRow, There
  <1>2. QED
    BY <1>1, HistoryStep, DbSpecInv, PTL DEF DbSpec

\* A flight's row has the status of the newest of the messages recorded for it, whatever
\* the order of the messages, the retries and the replays.
THEOREM StatusIsNewestHolds == DbSpec => []StatusIsNewest
  <1>1. HistoryInv => StatusIsNewest
    BY DEF HistoryInv, Holds, StatusIsNewest
  <1>2. QED
    BY <1>1, HistoryHolds, PTL

-----------------------------------------------------------------------------
\* The first messages of the episodes are among the messages, and are finitely many.
LEMMA EpisodesFinite ==
    ASSUME NEW S, IsFiniteSet(S)
    PROVE  IsFiniteSet(Episodes(S)) /\ Cardinality(Episodes(S)) \in Nat
  <1>1. Episodes(S) \subseteq S
    BY DEF Episodes
  <1>2. QED
    BY <1>1, FS_Subset, FS_CardinalityType

\* Time, then offset, orders the messages of the topic.
LEMMA BeforeOrders ==
    ASSUME NEW S \in SUBSET Int, \A q \in S : TimeOf[log[q]] \in Nat
    PROVE  /\ \A p, q, r \in S : Before(p, q) /\ Before(q, r) => Before(p, r)
           /\ \A p, q \in S : p # q => Before(p, q) \/ Before(q, p)
           /\ \A p, q \in S : ~(Before(p, q) /\ Before(q, p))
  BY DEF Before

\* One message more never makes two episodes one: a message that is no drop may split an
\* episode, one that is may only take the place of the first message of an episode.
LEMMA EpisodesGrow ==
    ASSUME NEW S \in SUBSET Int, IsFiniteSet(S), NEW o \in Int,
           \A q \in S \cup {o} : TimeOf[log[q]] \in Nat
    PROVE  Cardinality(Episodes(S)) <= Cardinality(Episodes(S \cup {o}))
  <1> DEFINE T == S \cup {o}
  <1>1. /\ \A p, q, r \in T : Before(p, q) /\ Before(q, r) => Before(p, r)
        /\ \A p, q \in T : p # q => Before(p, q) \/ Before(q, p)
        /\ \A p, q \in T : ~(Before(p, q) /\ Before(q, p))
    BY BeforeOrders
  <1>2. IsFiniteSet(T)
    BY FS_AddElement
  <1>3. IsFiniteSet(Episodes(S)) /\ Cardinality(Episodes(S)) \in Nat
    BY EpisodesFinite
  <1>4. IsFiniteSet(Episodes(T)) /\ Cardinality(Episodes(T)) \in Nat
    BY <1>2, EpisodesFinite
  <1>5. CASE o \in S
    <2>1. T = S
      BY <1>5
    <2> QED BY <2>1, <1>3
  <1>6. CASE Episodes(S) \subseteq Episodes(T)
    BY <1>4, <1>6, FS_Subset
  <1>7. ASSUME o \notin S, NEW s \in Episodes(S), s \notin Episodes(T)
        PROVE  Cardinality(Episodes(S)) <= Cardinality(Episodes(T))
    <2>1. s \in S /\ IsDrop(s) /\ s # o
      BY <1>7 DEF Episodes
    <2>2. /\ IsDrop(o) /\ Before(o, s)
          /\ \A q \in T : ~IsDrop(q) /\ Before(o, q) => ~Before(q, s)
      BY <1>7, <2>1 DEF Episodes
    <2>3. o \in Episodes(T)
      <3>1. ASSUME NEW p \in T, IsDrop(p), Before(p, o)
            PROVE  \E q \in T : ~IsDrop(q) /\ Before(p, q) /\ Before(q, o)
        <4>1. p \in S /\ Before(p, s)
          BY <1>1, <2>1, <2>2, <3>1
        <4>2. PICK q \in S : ~IsDrop(q) /\ Before(p, q) /\ Before(q, s)
          BY <1>7, <3>1, <4>1 DEF Episodes
        <4>3. Before(q, o)
          BY <1>1, <2>2, <4>2
        <4> QED BY <4>2, <4>3
      <3> QED BY <2>2, <3>1 DEF Episodes
    <2>4. ASSUME NEW r \in Episodes(S), r # s
          PROVE  r \in Episodes(T)
      <3>1. r \in S /\ IsDrop(r)
        BY <2>4 DEF Episodes
      <3>2. ASSUME Before(o, r)
            PROVE  \E q \in T : ~IsDrop(q) /\ Before(o, q) /\ Before(q, r)
        <4>1. CASE Before(s, r)
          <5>1. PICK q \in S : ~IsDrop(q) /\ Before(s, q) /\ Before(q, r)
            BY <2>1, <2>4, <4>1 DEF Episodes
          <5>2. Before(o, q)
            BY <1>1, <2>1, <2>2, <5>1
          <5> QED BY <5>1, <5>2
        <4>2. CASE Before(r, s)
          <5>1. PICK q \in S : ~IsDrop(q) /\ Before(r, q) /\ Before(q, s)
            BY <1>7, <3>1, <4>2 DEF Episodes
          <5>2. Before(o, q)
            BY <1>1, <3>1, <3>2, <5>1
          <5> QED BY <2>2, <5>1, <5>2
        <4> QED BY <1>1, <2>1, <2>4, <3>1, <4>1, <4>2
      <3>3. \A p \in S : IsDrop(p) /\ Before(p, r) =>
                 \E q \in T : ~IsDrop(q) /\ Before(p, q) /\ Before(q, r)
        BY <2>4 DEF Episodes
      <3> QED BY <3>1, <3>2, <3>3 DEF Episodes
    <2> DEFINE R == Episodes(S) \ {s}
    <2>5. /\ IsFiniteSet(R) /\ Cardinality(R) = Cardinality(Episodes(S)) - 1
      BY <1>3, <1>7, FS_RemoveElement
    <2>6. o \notin R
      BY <1>7 DEF Episodes
    <2>7. /\ IsFiniteSet(R \cup {o}) /\ Cardinality(R \cup {o}) = Cardinality(R) + 1
      BY <2>5, <2>6, FS_AddElement
    <2>8. R \cup {o} \subseteq Episodes(T)
      BY <2>3, <2>4
    <2>9. Cardinality(R \cup {o}) <= Cardinality(Episodes(T))
      BY <1>4, <2>8, FS_Subset
    <2> HIDE DEF R, T
    <2> QED BY <1>3, <2>5, <2>7, <2>9
  <1> QED BY <1>5, <1>6, <1>7

\* A drop after a message that is none, later than all before, begins an episode.
LEMMA EpisodeBegins ==
    ASSUME NEW S \in SUBSET Int, IsFiniteSet(S), NEW o \in Int,
           \A q \in S \cup {o} : TimeOf[log[q]] \in Nat,
           IsDrop(o), \A q \in S : TimeOf[log[q]] < TimeOf[log[o]],
           S = {} \/ \E q \in S : /\ ~IsDrop(q)
                                  /\ \A p \in S : IsDrop(p) => Before(p, q)
    PROVE  Cardinality(Episodes(S)) + 1 <= Cardinality(Episodes(S \cup {o}))
  <1> DEFINE T == S \cup {o}
  <1>1. o \notin S /\ \A q \in S : Before(q, o) /\ ~Before(o, q)
    <2>1. TimeOf[log[o]] \in Nat
      OBVIOUS
    <2>2. ~(TimeOf[log[o]] < TimeOf[log[o]])
      BY <2>1
    <2>3. o \notin S
      BY <2>2
    <2>4. ASSUME NEW q \in S PROVE Before(q, o) /\ ~Before(o, q)
      <3>1. TimeOf[log[q]] < TimeOf[log[o]] /\ TimeOf[log[q]] \in Nat
        OBVIOUS
      <3> QED BY <2>1, <3>1 DEF Before
    <2> QED BY <2>3, <2>4
  <1>2. IsFiniteSet(Episodes(S)) /\ Cardinality(Episodes(S)) \in Nat
    BY EpisodesFinite
  <1>3. IsFiniteSet(Episodes(T)) /\ Cardinality(Episodes(T)) \in Nat
    BY FS_AddElement, EpisodesFinite
  <1>4. o \in Episodes(T)
    <2>1. ~Before(o, o)
      BY DEF Before
    <2>2. ASSUME NEW p \in T, IsDrop(p), Before(p, o)
          PROVE  \E q \in T : ~IsDrop(q) /\ Before(p, q) /\ Before(q, o)
      BY <1>1, <2>1, <2>2
    <2> QED BY <2>2 DEF Episodes
  <1>5. ASSUME NEW r \in Episodes(S) PROVE r \in Episodes(T)
    <2>1. r \in S /\ IsDrop(r)
      BY <1>5 DEF Episodes
    <2>2. \A p \in T : IsDrop(p) /\ Before(p, r) =>
             \E q \in T : ~IsDrop(q) /\ Before(p, q) /\ Before(q, r)
      BY <1>1, <1>5, <2>1 DEF Episodes
    <2> QED BY <2>1, <2>2 DEF Episodes
  <1>6. o \notin Episodes(S)
    BY <1>1 DEF Episodes
  <1>7. /\ IsFiniteSet(Episodes(S) \cup {o})
        /\ Cardinality(Episodes(S) \cup {o}) = Cardinality(Episodes(S)) + 1
    BY <1>2, <1>6, FS_AddElement
  <1>8. Episodes(S) \cup {o} \subseteq Episodes(T)
    BY <1>4, <1>5
  <1>9. Cardinality(Episodes(S) \cup {o}) <= Cardinality(Episodes(T))
    BY <1>3, <1>7, <1>8, FS_Subset
  <1> QED BY <1>7, <1>9

\* What one upsert counts: nothing, or the first message of an episode.
LEMMA UpsertCounts ==
    ASSUME NEW g \in Gufi, NEW S \in SUBSET Int, IsFiniteSet(S), NEW o \in Int, NEW row,
           RowOK(row), GufiOf[log[o]] = g, \A q \in S \cup {o} : log[q] \in Msg,
           There(row) => Newest(row, g, S),
           ~There(row) => OfFlight(g, S) = {},
           ~Tied(OfFlight(g, S)) => Entered(row) <= Cardinality(Episodes(OfFlight(g, S))),
           ~Tied(OfFlight(g, S \cup {o}))
    PROVE  Entered(Upsert(row, log[o])) <= Cardinality(Episodes(OfFlight(g, S \cup {o})))
  <1> DEFINE F == OfFlight(g, S)
             m == log[o]
  <1>1. /\ OfFlight(g, S \cup {o}) = F \cup {o}
        /\ F \in SUBSET Int /\ F \subseteq S /\ \A q \in F : GufiOf[log[q]] = g
    BY DEF OfFlight
  <1>2. IsFiniteSet(F)
    BY <1>1, FS_Subset
  <1>3. \A q \in F \cup {o} : TimeOf[log[q]] \in Nat
    BY <1>1, DatabaseWriterAssumption
  <1>4. Cardinality(Episodes(F)) \in Nat /\ Cardinality(Episodes(F \cup {o})) \in Nat
    <2>1. IsFiniteSet(F \cup {o})
      BY <1>2, FS_AddElement
    <2> HIDE DEF F
    <2> QED BY <1>2, <2>1, EpisodesFinite
  <1>5. ~Tied(F \cup {o}) /\ ~Tied(F)
    BY <1>1 DEF Tied
  <1>6. Entered(row) <= Cardinality(Episodes(F)) /\ Entered(row) \in Nat
    BY <1>5 DEF Entered, RowOK
  <1>7. Cardinality(Episodes(F)) <= Cardinality(Episodes(F \cup {o}))
    <2> HIDE DEF F
    <2> QED BY <1>1, <1>2, <1>3, EpisodesGrow
  <1>8. ASSUME IsDrop(o), \A q \in F : TimeOf[log[q]] < TimeOf[m],
               F = {} \/ \E q \in F : ~IsDrop(q) /\ \A p \in F : IsDrop(p) => Before(p, q)
        PROVE  Cardinality(Episodes(F)) + 1 <= Cardinality(Episodes(F \cup {o}))
    <2> HIDE DEF F
    <2> QED BY <1>1, <1>2, <1>3, <1>8, EpisodeBegins
  <1>9. CASE ~There(row)
    <2>1. Entered(Upsert(row, m)) = IF IsDrop(o) THEN 1 ELSE 0
      BY <1>9 DEF Upsert, Entered, IsDrop
    <2>2. F = {}
      BY <1>9
    <2>3. IsDrop(o) => Cardinality(Episodes(F)) + 1 <= Cardinality(Episodes(F \cup {o}))
      BY <1>8, <2>2
    <2>4. Entered(Upsert(row, m)) <= Cardinality(Episodes(F \cup {o}))
      <3>1. 0 <= Cardinality(Episodes(F)) /\ 0 <= Cardinality(Episodes(F \cup {o}))
        BY <1>4
      <3>2. CASE IsDrop(o)
        BY <1>4, <2>1, <2>3, <3>1, <3>2
      <3>3. CASE ~IsDrop(o)
        BY <2>1, <3>1, <3>3
      <3> QED BY <3>2, <3>3
    <2> QED BY <1>1, <2>4
  <1>10. CASE There(row) /\ ~Dropped(row, m)
    <2>1. Entered(Upsert(row, m)) = Entered(row)
      BY <1>10 DEF Upsert, Entered, RowOK
    <2>2. Entered(Upsert(row, m)) <= Cardinality(Episodes(F \cup {o}))
      BY <1>4, <1>6, <1>7, <2>1
    <2> QED BY <1>1, <2>2
  <1>11. CASE There(row) /\ Dropped(row, m)
    <2>1. Entered(Upsert(row, m)) = Entered(row) + 1
      BY <1>11 DEF Upsert, Entered, RowOK
    <2>2. IsDrop(o) /\ row.status # "DROPPED" /\ TimeOf[m] >= row.time
      BY <1>11 DEF Dropped, Newer, IsDrop
    <2>3. PICK q \in F : /\ TimeOf[log[q]] = row.time /\ StatusOf[log[q]] = row.status
                         /\ \A p \in F : TimeOf[log[p]] <= row.time
      BY <1>11 DEF Newest, OfFlight
    <2>4. ~IsDrop(q) /\ TimeOf[log[q]] # TimeOf[m]
      BY <1>5, <2>2, <2>3 DEF IsDrop, Tied
    <2>5. \A p \in F : TimeOf[log[p]] < TimeOf[m]
      BY <1>3, <2>2, <2>3, <2>4
    <2>6. ASSUME NEW p \in F, IsDrop(p) PROVE Before(p, q)
      <3>1. TimeOf[log[p]] # TimeOf[log[q]]
        BY <1>5, <2>4, <2>6 DEF IsDrop, Tied
      <3>2. TimeOf[log[p]] <= TimeOf[log[q]] /\ TimeOf[log[p]] \in Nat /\ TimeOf[log[q]] \in Nat
        BY <1>3, <2>3
      <3> QED BY <3>1, <3>2 DEF Before
    <2>7. Cardinality(Episodes(F)) + 1 <= Cardinality(Episodes(F \cup {o}))
      BY <1>8, <2>2, <2>4, <2>5, <2>6
    <2>8. Entered(Upsert(row, m)) <= Cardinality(Episodes(F \cup {o}))
      BY <1>4, <1>6, <2>1, <2>7
    <2> QED BY <1>1, <2>8
  <1> QED BY <1>9, <1>10, <1>11

\* The counters of a table against the messages it holds.
Counted(t, S) ==
    \A g \in Gufi :
        ~Tied(OfFlight(g, S)) => Entered(t[g]) <= Cardinality(Episodes(OfFlight(g, S)))
CountInv ==
    /\ Counted(flights, recorded)
    /\ pc \in {"tx", "end"} => Counted(tx, recorded \cup Done(k))

\* Growing the topic changes nothing of what is counted.
LEMMA CountedStays ==
    ASSUME NEW S, NEW t, \A o \in S : log'[o] = log[o], Counted(t, S), t' = t, S' = S
    PROVE  Counted(t, S)'
  <1>1. ASSUME NEW g \in Gufi
        PROVE  /\ OfFlight(g, S)' = OfFlight(g, S)
               /\ Tied(OfFlight(g, S))' <=> Tied(OfFlight(g, S))
               /\ Episodes(OfFlight(g, S))' = Episodes(OfFlight(g, S))
    <2>1. OfFlight(g, S)' = OfFlight(g, S) /\ OfFlight(g, S) \subseteq S
      BY DEF OfFlight
    <2>2. \A p, q \in OfFlight(g, S) : /\ IsDrop(p)' <=> IsDrop(p)
                                       /\ Before(p, q)' <=> Before(p, q)
      BY <2>1 DEF IsDrop, Before
    <2>3. Tied(OfFlight(g, S))' <=> Tied(OfFlight(g, S))
      BY <2>1 DEF Tied
    <2>4. Episodes(OfFlight(g, S))' = Episodes(OfFlight(g, S))
      BY <2>1, <2>2 DEF Episodes
    <2> QED BY <2>1, <2>3, <2>4
  <1> QED BY <1>1 DEF Counted, Entered

\* A commit makes the transaction's count the table's.
LEMMA CommitCounts ==
    ASSUME HistoryInv, CountInv, pc = "end", CommitTables, log' = log
    PROVE  Counted(flights, recorded)'
  <1>1. recorded' = recorded \cup Done(k) /\ flights' = tx
    BY DEF CommitTables, HistoryInv, Done, Written, InBatch
  <1>2. Counted(tx, recorded \cup Done(k))
    BY DEF CountInv
  <1> QED BY <1>1, <1>2 DEF Counted, OfFlight, Tied, Episodes, IsDrop, Before, Entered

\* A message is executed: its flight's row is counted up, the other rows stay.
LEMMA ExecCounts ==
    ASSUME DbInv, HistoryInv, CountInv, ExecFlight
    PROVE  Counted(tx, recorded \cup Done(k))'
  <1> DEFINE o == batch[k + 1]
             m == log[o]
             S == recorded \cup Done(k)
  <1>1. /\ UNCHANGED <<log, batch, recorded>> /\ pc = "tx" /\ k < Len(batch) /\ k' = k + 1
    BY DEF ExecFlight, tables
  <1>2. o \in Offsets /\ m \in Msg /\ k \in Nat
    BY <1>1 DEF DbInv, DbTypeOK, Offsets
  <1>3. S \in SUBSET Offsets /\ \A q \in S : log[q] \in Msg
    <2>1. S \in SUBSET Offsets
      BY DEF HistoryInv, Done
    <2>2. \A q \in Offsets : log[q] \in Msg
      BY DEF Offsets, DbInv, DbTypeOK
    <2> QED BY <2>1, <2>2
  <1>4. IsFiniteSet(S) /\ S \in SUBSET Int /\ o \in Int
    <2>1. IsFiniteSet(Offsets) /\ Offsets \in SUBSET Int
      BY FS_Interval DEF Offsets, DbInv, DbTypeOK
    <2> QED BY <1>2, <1>3, <2>1, FS_Subset
  <1>5. Holds(tx, txPositions, S) /\ Counted(tx, S) /\ RowsCount
    BY <1>1 DEF HistoryInv, CountInv, DbInv
  <1>6. CASE ~Wanted(o)
    <2>1. Done(k)' = Done(k)
      BY <1>1, <1>2, <1>6 DEF Done, Offsets, Wanted
    <2>2. tx' = tx
      BY <1>6 DEF ExecFlight, txVars
    <2>3. (recorded \cup Done(k))' = S
      BY <1>1, <2>1
    <2> HIDE DEF S
    <2> QED BY <1>1, <1>5, <2>2, <2>3, CountedStays
  <1>7. CASE Wanted(o)
    <2>1. (recorded \cup Done(k))' = S \cup {o}
      BY <1>1, <1>2, <1>7 DEF Done, Offsets, Wanted
    <2>2. GufiOf[m] \in Gufi /\ tx' = [tx EXCEPT ![GufiOf[m]] = Upsert(@, m)]
      BY <1>2, <1>7, DatabaseWriterAssumption DEF ExecFlight, Wanted
    <2>3. /\ tx'[GufiOf[m]] = Upsert(tx[GufiOf[m]], m)
          /\ \A g \in Gufi : g # GufiOf[m] => tx'[g] = tx[g]
      BY <2>2 DEF DbInv, DbTypeOK, Table
    <2>4. ASSUME NEW g \in Gufi, ~Tied(OfFlight(g, S \cup {o}))
          PROVE  Entered(tx'[g]) <= Cardinality(Episodes(OfFlight(g, S \cup {o})))
      <3>1. CASE g = GufiOf[m]
        <4>1. RowOK(tx[g]) /\ (There(tx[g]) => Newest(tx[g], g, S))
          BY <1>5 DEF RowsCount, Holds
        <4>2. ~There(tx[g]) => OfFlight(g, S) = {}
          BY <1>5 DEF Holds, OfFlight
        <4>3. ~Tied(OfFlight(g, S)) => Entered(tx[g]) <= Cardinality(Episodes(OfFlight(g, S)))
          BY <1>5 DEF Counted
        <4>4. \A q \in S \cup {o} : log[q] \in Msg
          BY <1>2, <1>3
        <4>5. Entered(Upsert(tx[g], log[o])) <= Cardinality(Episodes(OfFlight(g, S \cup {o})))
          <5> HIDE DEF S, o
          <5> QED BY <1>4, <2>4, <3>1, <4>1, <4>2, <4>3, <4>4, UpsertCounts DEF m
        <4> QED BY <2>3, <3>1, <4>5
      <3>2. CASE g # GufiOf[m]
        <4>1. OfFlight(g, S \cup {o}) = OfFlight(g, S) /\ tx'[g] = tx[g]
          BY <2>3, <3>2 DEF OfFlight
        <4> QED BY <1>5, <2>4, <4>1 DEF Counted
      <3> QED BY <3>1, <3>2
    <2> DEFINE X == S \cup {o}
               Y == recorded \cup Done(k)
    <2>5. Y' = X /\ log' = log
      BY <1>1, <2>1
    <2>6. ASSUME NEW g \in Gufi, ~Tied(OfFlight(g, Y))'
          PROVE  (Entered(tx[g]) <= Cardinality(Episodes(OfFlight(g, Y))))'
      <3> HIDE DEF X, Y
      <3>1. OfFlight(g, Y)' = OfFlight(g, X)
        BY <2>5 DEF OfFlight
      <3>2. Tied(OfFlight(g, Y))' <=> Tied(OfFlight(g, X))
        BY <2>5, <3>1 DEF Tied
      <3>3. Episodes(OfFlight(g, Y))' = Episodes(OfFlight(g, X))
        BY <2>5, <3>1 DEF Episodes, IsDrop, Before
      <3>4. Entered(tx'[g]) <= Cardinality(Episodes(OfFlight(g, X)))
        BY <2>4, <2>6, <3>2 DEF X
      <3>5. Entered(tx[g])' = Entered(tx'[g])
        BY DEF Entered
      <3> QED BY <3>3, <3>4, <3>5
    <2> HIDE DEF Y
    <2> QED BY <2>6 DEF Counted, Y
  <1> QED BY <1>6, <1>7

\* Every step preserves CountInv.
LEMMA CountStep == DbInv /\ HistoryInv /\ CountInv /\ [DbNext]_dbVars => CountInv'
  <1> SUFFICES ASSUME DbInv, HistoryInv, CountInv, [DbNext]_dbVars PROVE CountInv'
    OBVIOUS
  <1>0. recorded \subseteq Offsets /\ recorded \cup Done(k) \subseteq Offsets
    BY DEF HistoryInv, Done
  <1>1. ASSUME NEW m \in Msg, Arrive(m) PROVE CountInv'
    <2>1. /\ log \in Seq(Msg) /\ log' = Append(log, m)
          /\ UNCHANGED <<batch, k, pc, tx, flights, recorded>>
      BY <1>1 DEF Arrive, runVars, txVars, tables, DbInv, DbTypeOK
    <2>2. \A o \in Offsets : o \in Offsets' /\ log'[o] = log[o]
      BY <2>1 DEF Offsets
    <2>3. Counted(flights, recorded)'
      BY <1>0, <2>1, <2>2, CountedStays DEF CountInv
    <2>4. (recorded \cup Done(k))' = recorded \cup Done(k)
      <3>1. \A i \in 1..k : batch[i] \in Offsets
        BY DEF DbInv, DbTypeOK
      <3>2. \A o \in Offsets : Wanted(o)' <=> Wanted(o)
        BY <2>2 DEF Wanted
      <3> QED BY <2>1, <2>2, <3>1, <3>2 DEF Done
    <2>5. pc' \in {"tx", "end"} => Counted(tx, recorded \cup Done(k))'
      <3> DEFINE S == recorded \cup Done(k)
      <3>1. S' = S /\ S \subseteq Offsets
        BY <1>0, <2>4
      <3> HIDE DEF S
      <3> QED BY <2>1, <2>2, <3>1, CountedStays DEF CountInv, S
    <2> QED BY <2>3, <2>5 DEF CountInv
  <1>2. CASE \/ FetchFirst \/ FetchError \/ Drain \/ Flush \/ Start
             \/ \E b \in BOOLEAN : Parse(b) \/ Commit(b)
    <2>1. UNCHANGED <<log, flights, recorded>> /\ pc' \notin {"tx", "end"}
      BY <1>2 DEF FetchFirst, FetchError, Drain, Flush, Parse, Commit, Start, tables, txVars
    <2> QED BY <2>1, CountedStays DEF CountInv
  <1>3. CASE BeginTx
    <2>1. UNCHANGED <<log, batch, flights, recorded>> /\ tx' = flights /\ k' = 0
      BY <1>3 DEF BeginTx, tables
    <2>2. (recorded \cup Done(k))' = recorded
      BY <2>1 DEF Done
    <2>3. Counted(flights, recorded)'
      BY <2>1, CountedStays DEF CountInv
    <2> QED BY <2>1, <2>2, <2>3 DEF CountInv, Counted
  <1>4. CASE ExecFlight
    <2>1. UNCHANGED <<log, flights, recorded>>
      BY <1>4 DEF ExecFlight, tables
    <2>2. Counted(flights, recorded)'
      BY <2>1, CountedStays DEF CountInv
    <2> QED BY <1>4, <2>2, ExecCounts DEF CountInv
  <1>5. ASSUME NEW applied \in BOOLEAN, TxError(applied) PROVE CountInv'
    <2>1. log' = log /\ tx' = flights' /\ k' = 0
      BY <1>5 DEF TxError
    <2>2. Counted(flights, recorded)'
      <3>1. CASE applied
        BY <1>5, <2>1, <3>1, CommitCounts DEF TxError
      <3>2. CASE ~applied
        BY <1>5, <2>1, <3>2, CountedStays DEF TxError, tables, CountInv
      <3> QED BY <3>1, <3>2
    <2>3. (recorded \cup Done(k))' = recorded'
      BY <2>1 DEF Done
    <2> QED BY <2>1, <2>2, <2>3 DEF CountInv, Counted
  <1>6. CASE EndTx
    <2>1. log' = log /\ pc = "end" /\ CommitTables /\ pc' = "commit"
      BY <1>6 DEF EndTx
    <2> QED BY <2>1, CommitCounts DEF CountInv
  <1>7. ASSUME NEW applied \in BOOLEAN, Crash(applied) PROVE CountInv'
    <2>1. log' = log /\ pc' = "down"
      BY <1>7 DEF Crash
    <2>2. Counted(flights, recorded)'
      <3>1. CASE applied
        BY <1>7, <2>1, <3>1, CommitCounts DEF Crash
      <3>2. CASE ~applied
        BY <1>7, <2>1, <3>2, CountedStays DEF Crash, tables, CountInv
      <3> QED BY <3>1, <3>2
    <2> QED BY <2>1, <2>2 DEF CountInv
  <1>8. CASE Signal \/ Rebalance \/ UNCHANGED dbVars
    <2>1. UNCHANGED <<log, batch, k, pc, tx, flights, recorded>>
      BY <1>8 DEF Signal, Rebalance, dbVars, runVars, txVars, tables
    <2>2. Done(k)' = Done(k)
      BY <2>1 DEF Done, Offsets, Wanted
    <2>3. Counted(flights, recorded)'
      BY <2>1, CountedStays DEF CountInv
    <2>4. pc' \in {"tx", "end"} => Counted(tx, recorded \cup Done(k))'
      <3> DEFINE S == recorded \cup Done(k)
      <3>1. S' = S
        BY <2>1, <2>2
      <3> HIDE DEF S
      <3> QED BY <2>1, <3>1, CountedStays DEF CountInv, S
    <2> QED BY <2>3, <2>4 DEF CountInv
  <1> QED
    BY <1>1, <1>2, <1>3, <1>4, <1>5, <1>6, <1>7, <1>8 DEF DbNext, RunStep, Lifecycle

\* The counters count episodes, for every topic and through retries, replays and
\* reordering: no more drops than the flight's recorded messages have runs of DROPPED, if no
\* two of one timestamp differ in status; and no more reactivations than drops.
THEOREM CountersCountEpisodesHolds == DbSpec => []CountersCountEpisodes
  <1>1. DbInit => CountInv
    <2>2. DbInit => \A g \in Gufi : OfFlight(g, recorded) = {} /\ Entered(flights[g]) = 0
      BY DatabaseWriterAssumption DEF DbInit, OfFlight, Entered, NoTable, NoRow
    <2>3. Cardinality(Episodes({})) \in Nat
      BY EpisodesFinite, FS_EmptySet
    <2> SUFFICES ASSUME DbInit PROVE CountInv
      OBVIOUS
    <2>4. pc = "fetch"
      BY DEF DbInit
    <2>5. \A g \in Gufi : Entered(flights[g]) <= Cardinality(Episodes(OfFlight(g, recorded)))
      BY <2>2, <2>3
    <2> QED BY <2>4, <2>5 DEF CountInv, Counted
  <1>2. DbInv /\ CountInv => CountersCountEpisodes
    BY DEF DbInv, RowsCount, CountInv, Counted, CountersCountEpisodes
  <1>3. DbSpec => []CountInv
    BY <1>1, CountStep, DbSpecInv, HistoryHolds, PTL DEF DbSpec
  <1> QED BY <1>2, <1>3, DbSpecInv, PTL

-----------------------------------------------------------------------------
\* A new reader starts where everything before it is handled.
LEMMA ResumeHandled ==
    ASSUME DbInv, CoverInv, NEW read \in Nat, Resume(read),
           UNCHANGED <<log, committed, recorded, dropped>>,
           \A o \in 1..read : Handled(o) \/ InBatch(o)
    PROVE  /\ skipped \subseteq skipped'
           /\ \A o \in 1..pos' : Handled(o)' \/ InBatch(o)
           /\ \A o \in 1..committed : Handled(o)'
  <1>1. Len(log) \in Nat
    BY DEF DbInv, DbTypeOK
  <1>2. CASE committed = 0
    BY <1>1, <1>2 DEF Resume, Handled, Offsets
  <1>3. CASE committed # 0
    BY <1>3 DEF Resume, CoverInv, Handled, Wanted
  <1>4. QED
    BY <1>2, <1>3

\* Every step preserves SiftInv.
LEMMA SiftStep == DbInv /\ SiftInv /\ [DbNext]_dbVars => SiftInv'
  <1> SUFFICES ASSUME DbInv, SiftInv, [DbNext]_dbVars PROVE SiftInv'
    OBVIOUS
  <1>0. /\ log \in Seq(Msg) /\ dropped \subseteq Offsets /\ k \in 0..Len(batch)
        /\ Len(batch) \in Nat /\ \A i \in 1..Len(batch) : batch[i] \in Offsets
    BY DEF DbInv, DbTypeOK
  <1>1. ASSUME NEW m \in Msg, Arrive(m) PROVE SiftInv'
    <2>1. UNCHANGED <<pc, k, batch, dropped>> /\ log' = Append(log, m)
      BY <1>1 DEF Arrive, runVars
    <2>2. \A o \in Offsets : Wanted(o)' <=> Wanted(o)
      BY <1>0, <2>1 DEF Offsets, Wanted
    <2>3. \A o \in dropped : ~Wanted(o)'
      BY <1>0, <2>2 DEF SiftInv
    <2>4. \A i \in 1..Len(batch) : Wanted(batch[i])' <=> Wanted(batch[i])
      BY <1>0, <2>1, <2>2 DEF Wanted
    <2> QED BY <1>0, <2>1, <2>3, <2>4 DEF SiftInv, Sifted
  <1>2. ASSUME NEW written \in BOOLEAN, Parse(written) PROVE SiftInv'
    <2>1. /\ UNCHANGED <<log, batch, pc>> /\ pc = "parse" /\ k' = k + 1 /\ k < Len(batch)
          /\ dropped' = IF Wanted(batch[k + 1]) THEN dropped ELSE dropped \cup {batch[k + 1]}
      BY <1>2 DEF Parse
    <2>2. \A o : Wanted(o)' <=> Wanted(o)
      BY <2>1 DEF Wanted
    <2>3. Sifted(k)'
      BY <1>0, <2>1, <2>2 DEF SiftInv, Sifted
    <2> QED BY <2>1, <2>2, <2>3 DEF SiftInv
  <1>3. CASE FetchFirst \/ FetchError \/ Drain \/ Start \/ Flush
             \/ (\E stored \in BOOLEAN : Commit(stored)) \/ (\E applied \in BOOLEAN : Crash(applied))
    <2>1. /\ UNCHANGED <<log, dropped>> /\ pc' \notin {"tx", "end"}
          /\ pc' = "parse" => k' = 0
      BY <1>3 DEF FetchFirst, FetchError, Drain, Start, Flush, Commit, Crash
    <2> QED BY <2>1 DEF SiftInv, Sifted, Wanted
  <1>4. CASE BeginTx \/ ExecFlight \/ EndTx \/ \E applied \in BOOLEAN : TxError(applied)
    <2>1. /\ UNCHANGED <<log, dropped>> /\ pc' # "parse"
          /\ pc' \in {"tx", "end"} => batch' = batch
          /\ pc \in {"tx", "end"} \/ (pc = "parse" /\ k = Len(batch))
      BY <1>4 DEF BeginTx, ExecFlight, EndTx, TxError
    <2> QED BY <2>1 DEF SiftInv, Sifted, Wanted
  <1>5. CASE Signal \/ Rebalance \/ UNCHANGED dbVars
    <2>1. UNCHANGED <<log, dropped, pc, k, batch>>
      BY <1>5 DEF Signal, Rebalance, dbVars, runVars
    <2> QED BY <2>1 DEF SiftInv, Sifted, Wanted
  <1> QED BY <1>1, <1>2, <1>3, <1>4, <1>5 DEF DbNext, RunStep, Lifecycle

\* Every step preserves CoverInv.
LEMMA CoverStep == DbInv /\ SiftInv /\ CoverInv /\ [DbNext]_dbVars => CoverInv'
  <1> SUFFICES ASSUME DbInv, SiftInv, CoverInv, [DbNext]_dbVars PROVE CoverInv'
    OBVIOUS
  <1>0. /\ committed \in Nat /\ pos \in Nat /\ Len(log) \in Nat /\ Len(batch) \in Nat
        /\ committed <= Len(log) /\ pos <= Len(log)
        /\ batch \in Seq(Nat) /\ \A i \in 1..Len(batch) : batch[i] \in Offsets
    BY DEF DbInv, DbTypeOK
  <1>1. ASSUME NEW m \in Msg, Arrive(m) PROVE CoverInv'
    <2>1. /\ log \in Seq(Msg) /\ log' = Append(log, m)
          /\ UNCHANGED <<committed, pos, batch, k, pc, recorded, dropped, skipped>>
      BY <1>1 DEF Arrive, runVars, tables, countVars, DbInv, DbTypeOK
    <2>2. \A o \in Offsets : Handled(o) => Handled(o)'
      BY <2>1 DEF Offsets, Handled, Wanted
    <2>3. 1..committed \subseteq Offsets /\ 1..pos \subseteq Offsets
          /\ \A i \in 1..Len(batch) : 1..batch[i] \subseteq Offsets
      BY <1>0 DEF Offsets
    <2>4. \A o : InBatch(o) => InBatch(o)'
      BY <2>1 DEF InBatch
    <2>5. \A i \in 1..Len(batch) : \A o \in 1..batch[i] : Handled(o)' \/ InBatch(o)'
      BY <2>2, <2>3, <2>4 DEF CoverInv
    <2>6. pc # "down" => \A o \in 1..pos : Handled(o)' \/ InBatch(o)'
      BY <2>2, <2>3, <2>4 DEF CoverInv
    <2>7. QED
      BY <1>0, <2>1, <2>2, <2>3, <2>5, <2>6 DEF CoverInv
  <1>2. CASE FetchFirst
    <2>1. /\ UNCHANGED <<log, committed, recorded, dropped, skipped>> /\ pc = "fetch" /\ pc' = "drain"
          /\ pos' = pos + 1 /\ batch' = <<pos + 1>>
      BY <1>2 DEF FetchFirst, tables, countVars
    <2>2. \A o \in 1..pos : Handled(o)
      <3>1. batch = <<>>
        BY <2>1 DEF CoverInv
      <3>2. QED
        BY <2>1, <3>1 DEF CoverInv, InBatch
    <2>3. \A o : Handled(o)' <=> Handled(o)
      BY <2>1 DEF Handled, Wanted
    <2>4. InBatch(pos)' /\ Len(batch') = 1 /\ batch'[1] = pos + 1
      BY <2>1 DEF InBatch
    <2>5. \A o \in 1..(pos + 1) : Handled(o)' \/ InBatch(o)'
      BY <1>0, <2>1, <2>2, <2>3, <2>4
    <2>6. QED
      BY <1>0, <2>1, <2>3, <2>4, <2>5 DEF CoverInv
  <1>3. CASE Drain
    <2>1. /\ UNCHANGED <<log, committed, recorded, dropped, skipped>> /\ pc = "drain" /\ pc' = "drain"
          /\ pos' = pos + 1 /\ batch' = Append(batch, pos + 1)
      BY <1>3 DEF Drain, tables, countVars
    <2>2. /\ Len(batch') = Len(batch) + 1 /\ batch'[Len(batch) + 1] = pos + 1
          /\ \A i \in 1..Len(batch) : batch'[i] = batch[i]
      BY <1>0, <2>1
    <2>3. /\ \A o : InBatch(o) => InBatch(o)'
          /\ InBatch(pos)'
      BY <1>0, <2>1, <2>2 DEF InBatch
    <2>4. \A o : Handled(o)' <=> Handled(o)
      BY <2>1 DEF Handled, Wanted
    <2>5. \A o \in 1..(pos + 1) : Handled(o)' \/ InBatch(o)'
      BY <1>0, <2>1, <2>3, <2>4 DEF CoverInv
    <2>6. \A i \in 1..Len(batch') : \A o \in 1..batch'[i] : Handled(o)' \/ InBatch(o)'
      <3> TAKE i \in 1..Len(batch')
      <3>1. CASE i \in 1..Len(batch)
        BY <2>2, <2>3, <2>4, <3>1 DEF CoverInv
      <3>2. CASE i = Len(batch) + 1
        BY <2>2, <2>5, <3>2
      <3>3. QED
        BY <1>0, <2>2, <3>1, <3>2
    <2>7. QED
      BY <2>1, <2>4, <2>5, <2>6 DEF CoverInv
  <1>4. CASE Flush \/ FetchError \/ ExecFlight \/ Signal \/ UNCHANGED dbVars
             \/ \E b \in BOOLEAN : Parse(b)
    <2>1. /\ UNCHANGED <<committed, pos, batch, recorded, skipped>> /\ dropped \subseteq dropped'
          /\ pc' = "commit" => pc = "commit"
          /\ pc' # "down" => pc # "down"
          /\ pc' \in {"fetch", "down"} => pc \in {"fetch", "down"}
      BY <1>4 DEF Flush, FetchError, ExecFlight, Signal, Parse, dbVars, runVars, tables,
         countVars
    <2>2. QED
      BY <2>1 DEF CoverInv, Handled, InBatch, Wanted
  <1>5. CASE BeginTx
    <2>1. /\ UNCHANGED <<log, committed, pos, batch, recorded, dropped, skipped>>
          /\ pc = "parse" /\ pc' \in {"tx", "commit"}
      BY <1>5 DEF BeginTx, tables, countVars
    <2>2. pc' = "commit" => \A i \in 1..Len(batch) : batch[i] \in dropped
      BY <1>5 DEF BeginTx, SiftInv, Sifted
    <2>3. QED
      BY <2>1, <2>2 DEF CoverInv, Handled, InBatch, Wanted
  <1>6. ASSUME NEW applied \in BOOLEAN, TxError(applied) PROVE CoverInv'
    <2>1. /\ UNCHANGED <<log, committed, pos, dropped, skipped>> /\ recorded \subseteq recorded'
          /\ pc # "down"
          /\ \/ pc' = "down" /\ batch' = <<>>
             \/ pc' = "tx" /\ batch' = batch
      BY <1>6 DEF TxError, CommitTables, tables
    <2>2. QED
      BY <2>1 DEF CoverInv, Handled, InBatch, Wanted
  <1>7. CASE EndTx
    <2>1. /\ UNCHANGED <<log, committed, pos, batch, dropped, skipped>>
          /\ recorded' = recorded \cup Written /\ pc = "end" /\ pc' = "commit"
      BY <1>7 DEF EndTx, CommitTables, countVars
    <2>2. \A i \in 1..Len(batch) : Handled(batch[i])'
      BY <1>0, <2>1 DEF Handled, Written, InBatch, SiftInv, Sifted
    <2>3. QED
      BY <2>1, <2>2 DEF CoverInv, Handled, InBatch, Wanted
  <1>8. ASSUME NEW stored \in BOOLEAN, Commit(stored) PROVE CoverInv'
    <2>1. /\ UNCHANGED <<log, pos, recorded, dropped, skipped>> /\ pc = "commit" /\ pc' = "fetch"
          /\ batch' = <<>>
          /\ committed' = batch[Len(batch)] \/ committed' = committed
      BY <1>8 DEF Commit, tables, countVars
    <2>2. \A o : InBatch(o) => Handled(o)
      BY <2>1 DEF CoverInv, InBatch
    <2>3. \A o : Handled(o)' <=> Handled(o)
      BY <2>1 DEF Handled, Wanted
    <2>4. Len(batch) \in 1..Len(batch)
      BY <1>0, <2>1 DEF DbInv, DbTypeOK
    <2>5. \A o \in 1..committed' : Handled(o)'
      BY <2>1, <2>2, <2>3, <2>4 DEF CoverInv
    <2>6. \A o \in 1..pos : Handled(o)'
      BY <2>1, <2>2, <2>3 DEF CoverInv
    <2>7. QED
      BY <2>1, <2>5, <2>6 DEF CoverInv
  <1>9. ASSUME NEW applied \in BOOLEAN, Crash(applied) PROVE CoverInv'
    <2>1. /\ UNCHANGED <<log, committed, dropped, skipped>> /\ recorded \subseteq recorded'
          /\ batch' = <<>> /\ pc' = "down"
      BY <1>9 DEF Crash, CommitTables, tables
    <2>2. QED
      BY <2>1 DEF CoverInv, Handled, Wanted
  <1>10. CASE Start
    <2>1. /\ UNCHANGED <<log, committed, recorded, dropped>> /\ Resume(0) /\ batch' = <<>> /\ pc' = "fetch"
      BY <1>10 DEF Start, tables
    <2>2. \A o : ~InBatch(o)
      BY <1>10 DEF Start, CoverInv, InBatch
    <2>3. \A o \in 1..pos' \cup 1..committed : Handled(o)'
      BY <2>1, <2>2, ResumeHandled
    <2>4. QED
      BY <2>1, <2>3 DEF CoverInv
  <1>11. CASE Rebalance
    <2>1. /\ UNCHANGED <<log, committed, recorded, dropped, batch, pc>> /\ Resume(pos)
          /\ pc # "down" /\ pos \in Nat
      BY <1>11 DEF Rebalance, tables, DbInv, DbTypeOK
    <2>0. \A o \in 1..pos : Handled(o) \/ InBatch(o)
      BY <2>1 DEF CoverInv
    <2>2. \A o : (Handled(o) => Handled(o)') /\ (InBatch(o) => InBatch(o)')
      BY <2>0, <2>1, ResumeHandled DEF Handled, InBatch, Wanted
    <2>3. \A i \in 1..Len(batch) : \A o \in 1..batch[i] : Handled(o)' \/ InBatch(o)'
      BY <2>2 DEF CoverInv
    <2>4. QED
      BY <2>0, <2>1, <2>2, <2>3, ResumeHandled DEF CoverInv
  <1>12. QED
    BY <1>1, <1>2, <1>3, <1>4, <1>5, <1>6, <1>7, <1>8, <1>9, <1>10, <1>11
       DEF DbNext, RunStep, Lifecycle

LEMMA CoverHolds == DbSpec => [](SiftInv /\ CoverInv)
  <1>1. DbInit => SiftInv /\ CoverInv
    BY DEF DbInit, SiftInv, Sifted, CoverInv
  <1> QED BY <1>1, SiftStep, CoverStep, DbSpecInv, PTL DEF DbSpec

\* Durable history, for every topic: a flight message behind the group's offset is in the
\* flights table and, if it has one, its position in the positions table, whatever
\* transactions fail and wherever the process dies or the group rebalances.
THEOREM CommittedRecordedHolds == DbSpec => []CommittedRecorded
  <1>1. HistoryInv /\ SiftInv /\ CoverInv => CommittedRecorded
    BY DEF HistoryInv, Holds, CoverInv, SiftInv, Handled, CommittedRecorded
  <1>2. QED
    BY <1>1, CoverHolds, HistoryHolds, PTL

-----------------------------------------------------------------------------
\* Each step of the database-writer is one of the contract's: a transaction settles the
\* flight messages of its batch together, parsing settles the others one by one.
LEMMA DbContractStep ==
    ASSUME DbInv, DbInv', CoverInv, CoverInv', [DbNext]_dbVars
    PROVE  [Contract!ContractNext]_(Contract!contractVars)
  <1> USE DEF Contract!ContractNext, Contract!contractVars
  <1>1. CASE \E m \in Msg : Arrive(m)
    <2>1. Len(log') = Len(log) + 1 /\ UNCHANGED <<recorded, dropped, skipped, committed>>
      BY <1>1 DEF Arrive, tables, countVars, DbInv, DbTypeOK
    <2> QED BY <2>1 DEF Contract!ContractArrive
  <1>2. CASE \E written \in BOOLEAN : Parse(written)
    <2>1. UNCHANGED <<log, recorded, skipped, committed>>
          /\ dropped' \in {dropped, dropped \cup {batch[k + 1]}} /\ batch[k + 1] \in Offsets
      BY <1>2 DEF Parse, tables, countVars, DbInv, DbTypeOK
    <2>2. {batch[k + 1]} \in SUBSET (1..Len(log))
      BY <2>1 DEF Offsets
    <2>3. CASE dropped' # dropped
      <3>1. Contract!ContractSettle({batch[k + 1]}, FALSE)
        BY <2>1, <2>3 DEF Contract!ContractSettle
      <3> QED BY <2>2, <3>1
    <2> QED BY <2>1, <2>3
  <1>3. CASE EndTx \/ \E b \in BOOLEAN : TxError(b) \/ Crash(b)
    <2>1. UNCHANGED <<log, dropped, skipped, committed>>
          /\ recorded' \in {recorded, recorded \cup Written}
      BY <1>3 DEF EndTx, TxError, Crash, CommitTables, tables, countVars
    <2>2. Written \in SUBSET (1..Len(log))
      BY DEF Written, Offsets
    <2>3. CASE recorded' # recorded
      <3>1. Contract!ContractSettle(Written, TRUE)
        BY <2>1, <2>3 DEF Contract!ContractSettle
      <3> QED BY <2>2, <3>1
    <2> QED BY <2>1, <2>3
  <1>4. CASE \E stored \in BOOLEAN : Commit(stored)
    <2>1. UNCHANGED <<log, recorded, dropped, skipped>>
      BY <1>4 DEF Commit, tables, countVars
    <2>2. 1..committed' \subseteq recorded \cup dropped \cup skipped
      BY <2>1 DEF CoverInv, Handled
    <2>3. committed' \in 0..Len(log)
      BY <2>1 DEF DbInv, DbTypeOK
    <2>4. Contract!ContractCommit(committed')
      BY <2>1, <2>2 DEF Contract!ContractCommit
    <2> QED BY <2>3, <2>4
  <1>5. CASE Start \/ Rebalance
    <2>1. UNCHANGED <<log, recorded, dropped, committed>>
          /\ \E read : skipped' = IF committed = 0
                                   THEN skipped \cup {o \in Offsets : o > read} ELSE skipped
      BY <1>5 DEF Start, Rebalance, Resume, tables
    <2>2. CASE committed # 0
      BY <2>1, <2>2
    <2>3. CASE committed = 0
      <3>1. PICK S \in SUBSET (1..Len(log)) : skipped' = skipped \cup S
        BY <2>1, <2>3 DEF Offsets
      <3>2. Contract!ContractJoin(S)
        BY <2>1, <2>3, <3>1 DEF Contract!ContractJoin
      <3> QED BY <3>1, <3>2
    <2> QED BY <2>2, <2>3
  <1>6. CASE FetchFirst \/ FetchError \/ Drain \/ Flush \/ BeginTx \/ ExecFlight \/ Signal
             \/ UNCHANGED dbVars
    <2>1. UNCHANGED <<log, recorded, dropped, skipped, committed>>
      BY <1>6 DEF FetchFirst, FetchError, Drain, Flush, BeginTx, ExecFlight, Signal, dbVars,
         tables, countVars
    <2> QED BY <2>1
  <1> QED BY <1>1, <1>2, <1>3, <1>4, <1>5, <1>6 DEF DbNext, RunStep, Lifecycle

\* The database-writer, with its batches, retried transactions, crashes and rebalances,
\* implements the contract of a pipeline stage.
THEOREM DbImplementsContract == DbSpec => ImplementsContract
  <1>1. DbInit => Contract!ContractInit
    BY DEF DbInit, Contract!ContractInit
  <1>2. DbInv /\ DbInv' /\ CoverInv /\ CoverInv' /\ [DbNext]_dbVars
          => [Contract!ContractNext]_(Contract!contractVars)
    BY DbContractStep
  <1> QED BY <1>1, <1>2, DbSpecInv, CoverHolds, PTL DEF DbSpec, ImplementsContract, Contract!ContractSpec

-----------------------------------------------------------------------------
(* Rows of positions.                                                      *)

\* How often a message is in a batch.
LEMMA CopiesNat ==
    ASSUME NEW b, NEW o, NEW n \in Nat
    PROVE  Copies(b, o, n) \in Nat /\ IsFiniteSet({i \in 1..n : b[i] = o})
  <1>1. IsFiniteSet(1..n)
    BY FS_Interval
  <1>2. IsFiniteSet({i \in 1..n : b[i] = o})
    BY <1>1, FS_Subset
  <1> QED BY <1>2, FS_CardinalityType DEF Copies

LEMMA CopiesNone == ASSUME NEW b, NEW o PROVE Copies(b, o, 0) = 0
  <1>1. {i \in 1..0 : b[i] = o} = {}
    OBVIOUS
  <1> QED BY <1>1, FS_EmptySet DEF Copies

LEMMA CopiesNext ==
    ASSUME NEW b, NEW o, NEW n \in Nat
    PROVE  Copies(b, o, n + 1) = Copies(b, o, n) + IF b[n + 1] = o THEN 1 ELSE 0
  <1> DEFINE S(m) == {i \in 1..m : b[i] = o}
  <1>1. IsFiniteSet(S(n)) /\ Copies(b, o, n) \in Nat
    BY CopiesNat
  <1>2. n + 1 \notin S(n) /\ 1..(n + 1) = (1..n) \cup {n + 1}
    OBVIOUS
  <1>3. CASE b[n + 1] = o
    <2>1. S(n + 1) = S(n) \cup {n + 1}
      BY <1>2, <1>3
    <2> HIDE DEF S
    <2>2. Cardinality(S(n) \cup {n + 1}) = Cardinality(S(n)) + 1
      BY <1>1, <1>2, FS_AddElement
    <2> QED BY <1>3, <2>1, <2>2 DEF S, Copies
  <1>4. CASE b[n + 1] # o
    <2>1. S(n + 1) = S(n)
      BY <1>2, <1>4
    <2> QED BY <1>1, <1>4, <2>1 DEF Copies
  <1> QED BY <1>3, <1>4

LEMMA CopiesAppend ==
    ASSUME NEW b \in Seq(Nat), NEW x \in Nat, NEW o
    PROVE  Copies(Append(b, x), o, Len(Append(b, x)))
              = Copies(b, o, Len(b)) + IF x = o THEN 1 ELSE 0
  <1>1. /\ Len(Append(b, x)) = Len(b) + 1 /\ Append(b, x)[Len(b) + 1] = x /\ Len(b) \in Nat
        /\ \A i \in 1..Len(b) : Append(b, x)[i] = b[i]
    OBVIOUS
  <1> DEFINE c == Append(b, x)
  <1>2. Copies(c, o, Len(b) + 1) = Copies(c, o, Len(b)) + IF x = o THEN 1 ELSE 0
    <2>1. c[Len(b) + 1] = x
      BY <1>1
    <2> HIDE DEF c
    <2> QED BY <1>1, <2>1, CopiesNext
  <1>3. Copies(c, o, Len(b)) = Copies(b, o, Len(b))
    <2>1. {i \in 1..Len(b) : c[i] = o} = {i \in 1..Len(b) : b[i] = o}
      BY <1>1
    <2> QED BY <2>1 DEF Copies
  <1> QED BY <1>1, <1>2, <1>3

\* The account of one message: w rows, written or pending, for r readings with a
\* attempts each.  Nothing new; one more reading; or one more attempt at each of them.
LEMMA Account ==
    ASSUME NEW a \in Nat, a >= 1, NEW r \in Nat, NEW w \in Nat, w <= a * r,
           NEW a2 \in Nat, NEW r2 \in Nat, NEW w2 \in Nat,
           \/ w2 <= w /\ a2 = a /\ r2 >= r
           \/ w2 <= w + 1 /\ a2 = a /\ r2 = r + 1
           \/ w2 <= w + r /\ a2 = a + 1 /\ r2 >= r
    PROVE  w2 <= a2 * r2
  <1>1. PICK d \in Nat : r2 = r + d
    <2>1. r2 >= r /\ r2 - r \in Nat /\ r2 = r + (r2 - r)
      OBVIOUS
    <2> QED BY <2>1
  <1>2. /\ a * r \in Nat /\ a * d \in Nat
        /\ a * (r + d) = a * r + a * d /\ (a + 1) * (r + d) = a * r + a * d + r + d
        /\ a * (r + 1) = a * r + a
    BY <1>1
  <1>3. CASE w2 <= w /\ a2 = a /\ r2 >= r
    BY <1>1, <1>2, <1>3
  <1>4. CASE w2 <= w + 1 /\ a2 = a /\ r2 = r + 1
    BY <1>2, <1>4
  <1>5. CASE w2 <= w + r /\ a2 = a + 1 /\ r2 >= r
    <2>1. a2 * r2 = a * r + a * d + r + d
      BY <1>1, <1>2, <1>5
    <2> QED BY <1>2, <1>5, <2>1
  <1> QED BY <1>3, <1>4, <1>5

LEMMA AccountTypes ==
    ASSUME DbTypeOK, NEW o \in 1..MaxLog
    PROVE  /\ faults \in Nat /\ errors \in Nat /\ pos \in Nat /\ o \in Nat
           /\ Ahead(o) \in 0..2 /\ Readings(o) \in Int
           /\ InHand(o) \in Nat /\ Pending(o) \in Nat /\ Copies(batch, o, k) \in Nat
  <1>1. Len(batch) \in Nat /\ k \in Nat /\ faults \in Nat /\ errors \in Nat /\ pos \in Nat
    BY DatabaseWriterAssumption DEF DbTypeOK
  <1>2. Ahead(o) \in 0..2
    BY DEF Ahead
  <1>3. InHand(o) \in Nat /\ Copies(batch, o, k) \in Nat
    BY <1>1, CopiesNat DEF InHand
  <1> QED BY <1>1, <1>2, <1>3 DEF Readings, Pending

\* What a step does to the account of one message.
LEMMA AccountStep ==
    ASSUME DbTypeOK, DbTypeOK', RowsInv, NEW o \in 1..MaxLog, positions'[o] \in Nat,
           \/ /\ errors' = errors /\ Readings(o)' >= Readings(o) /\ InHand(o)' <= InHand(o)
              /\ positions'[o] + Pending(o)' <= positions[o] + Pending(o)
           \/ /\ errors' = errors /\ Readings(o)' = Readings(o) + 1 /\ InHand(o)' <= InHand(o) + 1
              /\ positions'[o] + Pending(o)' <= positions[o] + Pending(o) + 1
           \/ /\ errors' = errors + 1 /\ Readings(o)' >= Readings(o) /\ InHand(o)' <= InHand(o)
              /\ positions'[o] + Pending(o)' <= positions[o] + Pending(o) + Readings(o)
    PROVE  /\ InHand(o)' <= Readings(o)'
           /\ positions'[o] + Pending(o)' <= (1 + errors') * Readings(o)'
  <1> DEFINE n == 1 + errors
             n2 == 1 + errors'
             r == Readings(o)
             r2 == Readings(o)'
             w == positions[o] + Pending(o)
             w2 == positions'[o] + Pending(o)'
             h == InHand(o)
             h2 == InHand(o)'
  <1>1. errors \in Nat /\ r \in Int /\ h \in Nat /\ Pending(o) \in Nat
    BY AccountTypes
  <1>2. errors' \in Nat /\ r2 \in Int /\ h2 \in Nat /\ Pending(o)' \in Nat
    <2>0. faults' \in Nat /\ errors' \in Nat
      BY DatabaseWriterAssumption DEF DbTypeOK
    <2>1. Ahead(o)' \in 0..2
      BY ONLY TRUE DEF Ahead
    <2>2. Len(batch') \in Nat
      BY DEF DbTypeOK
    <2>3. h2 \in Nat
      BY <2>2, CopiesNat DEF InHand
    <2> QED BY <2>0, <2>1, <2>3 DEF Readings, Pending
  <1>3. Accounted(o) /\ positions[o] \in Nat
    BY DEF RowsInv
  <1>4. h <= r /\ w <= n * r
    BY <1>3 DEF Accounted
  <1>5. n \in Nat /\ n >= 1 /\ n2 \in Nat /\ w \in Nat /\ w2 \in Nat
    <2>1. positions[o] \in Nat /\ positions'[o] \in Nat
      BY <1>3
    <2>2. n \in Nat /\ n >= 1
      BY <1>1
    <2>3. n2 \in Nat
      <3>1. PICK e \in Nat : e = errors'
        BY <1>2, Zenon
      <3>2. 1 + e \in Nat
        OBVIOUS
      <3> QED BY ONLY <3>1, <3>2, Zenon
    <2>4. w \in Nat
      BY <1>1, <2>1
    <2>5. w2 \in Nat
      BY <1>2, <2>1
    <2> QED BY <2>2, <2>3, <2>4, <2>5, Zenon
  <1>6. \/ n2 = n /\ r2 >= r /\ h2 <= h /\ w2 <= w
        \/ n2 = n /\ r2 = r + 1 /\ h2 <= h + 1 /\ w2 <= w + 1
        \/ n2 = n + 1 /\ r2 >= r /\ h2 <= h /\ w2 <= w + r
    <2>1. \/ errors' = errors /\ r2 >= r /\ h2 <= h /\ w2 <= w
          \/ errors' = errors /\ r2 = r + 1 /\ h2 <= h + 1 /\ w2 <= w + 1
          \/ errors' = errors + 1 /\ r2 >= r /\ h2 <= h /\ w2 <= w + r
      BY Zenon
    <2> HIDE DEF r, r2, w, w2, h, h2
    <2> QED BY ONLY <1>1, <2>1
  <1> HIDE DEF n, n2, r, r2, w, w2, h, h2
  <1>7. r \in Nat /\ h2 <= r2 /\ r2 \in Nat
    BY ONLY <1>1, <1>2, <1>4, <1>6
  <1>8. w2 <= n2 * r2
    BY ONLY <1>4, <1>5, <1>6, <1>7, Account
  <1> QED BY <1>7, <1>8 DEF n2, r2, w2, h2

\* Steps that write nothing, read nothing and fail nowhere.
LEMMA RowsQuiet ==
    ASSUME DbTypeOK, DbTypeOK', RowsInv, NEW o \in 1..MaxLog,
           positions' = positions, errors' = errors,
           Readings(o)' >= Readings(o), InHand(o)' <= InHand(o),
           pc = "commit" => pc' = "commit" \/ InHand(o)' = 0
    PROVE  /\ InHand(o)' <= Readings(o)'
           /\ positions'[o] + Pending(o)' <= (1 + errors') * Readings(o)'
  <1>1. InHand(o) \in Nat /\ Pending(o) \in Nat /\ positions[o] \in Nat
    BY AccountTypes DEF RowsInv
  <1>2. InHand(o)' \in Nat
    <2>1. Len(batch') \in Nat
      BY DEF DbTypeOK
    <2> QED BY <2>1, CopiesNat DEF InHand
  <1>3. Pending(o)' <= Pending(o) /\ Pending(o)' \in Nat
    BY <1>1, <1>2 DEF Pending
  <1>4. positions'[o] + Pending(o)' <= positions[o] + Pending(o)
    BY <1>1, <1>3
  <1> QED BY <1>1, <1>4, AccountStep

\* Steps of which only the readings, or the end of a batch, concern the account.
LEMMA RowsStay ==
    ASSUME DbInv, DbInv', RowsInv, UNCHANGED <<positions, txPositions, errors>>,
           \A o \in 1..MaxLog : Readings(o)' >= Readings(o),
           \/ batch' = batch /\ pc' = pc /\ k' = k
           \/ batch' = batch /\ pc # "commit" /\ pc' \notin {"tx", "end"}
           \/ batch' = <<>> /\ pc' \notin {"tx", "end"}
    PROVE  RowsInv'
  <1>0. DbTypeOK /\ DbTypeOK'
    BY DEF DbInv
  <1>1. ASSUME NEW o \in 1..MaxLog PROVE Accounted(o)'
    <2>1. InHand(o) \in Nat
      BY <1>0, AccountTypes
    <2>2. batch' = <<>> => InHand(o)' = 0
      BY CopiesNone DEF InHand
    <2>3. batch' = batch => InHand(o)' = InHand(o)
      BY DEF InHand
    <2>4. InHand(o)' <= InHand(o) /\ (pc = "commit" => pc' = "commit" \/ InHand(o)' = 0)
      BY <2>1, <2>2, <2>3
    <2>5. /\ InHand(o)' <= Readings(o)'
          /\ positions'[o] + Pending(o)' <= (1 + errors') * Readings(o)'
      BY <1>0, <2>4, RowsQuiet
    <2>6. pc' \in {"tx", "end"} => txPositions'[o] <= positions'[o] + Copies(batch', o, k')
      <3>1. Accounted(o)
        BY DEF RowsInv
      <3> QED BY <3>1 DEF Accounted
    <2> QED BY <2>5, <2>6 DEF Accounted
  <1>2. pc' = "end" => k' = Len(batch')
    BY DEF RowsInv
  <1> QED BY <1>1, <1>2 DEF RowsInv

\* A message is fetched: a reading that was ahead is in hand.
LEMMA RowsFetch ==
    ASSUME DbInv, DbInv', RowsInv, FetchFirst \/ Drain
    PROVE  RowsInv'
  <1>0. DbTypeOK /\ DbTypeOK'
    BY DEF DbInv
  <1>1. /\ pos' = pos + 1 /\ pc' = "drain" /\ pc \in {"fetch", "drain"}
        /\ UNCHANGED <<positions, txPositions, errors, faults, stopping>>
    BY DEF FetchFirst, Drain, txVars, tables, countVars
  <1>2. ASSUME NEW o \in 1..MaxLog PROVE Accounted(o)'
    <2>1. /\ o \in Nat /\ pos \in Nat /\ InHand(o) \in Nat /\ faults \in Nat
          /\ Readings(o) \in Int /\ positions[o] \in Nat
      BY <1>0, AccountTypes DEF RowsInv
    <2>2. InHand(o)' <= InHand(o) + (IF o = pos + 1 THEN 1 ELSE 0) /\ InHand(o)' \in Nat
      <3>1. CASE FetchFirst
        <4>1. batch' = <<pos + 1>> /\ Len(batch') = 1 /\ batch'[1] = pos + 1
          BY <3>1 DEF FetchFirst
        <4>2. Copies(batch', o, 0 + 1) = Copies(batch', o, 0) + IF batch'[0 + 1] = o THEN 1 ELSE 0
          BY CopiesNext
        <4>3. Copies(batch', o, 0) = 0 /\ 0 + 1 = 1
          BY CopiesNone
        <4>4. InHand(o)' = IF o = pos + 1 THEN 1 ELSE 0
          BY <4>1, <4>2, <4>3 DEF InHand
        <4> QED BY <2>1, <4>4
      <3>2. CASE Drain
        <4>1. batch' = Append(batch, pos + 1) /\ batch \in Seq(Nat) /\ pos + 1 \in Nat
          BY <1>0, <2>1, <3>2 DEF Drain, DbTypeOK
        <4>2. InHand(o)' = InHand(o) + IF pos + 1 = o THEN 1 ELSE 0
          BY <4>1, CopiesAppend DEF InHand
        <4> QED BY <2>1, <4>2
      <3> QED BY <3>1, <3>2
    <2>3. Readings(o)' = Readings(o) + (IF o = pos + 1 THEN 1 ELSE 0)
      <3>1. pc # "down" /\ pc' # "down"
        BY <1>1
      <3>2. (o > pos') = (o > pos /\ o # pos + 1) /\ (o = pos + 1 => o > pos)
        BY <1>1, <2>1
      <3> QED BY <1>1, <2>1, <3>1, <3>2 DEF Readings, Ahead
    <2>4. Pending(o) = InHand(o) /\ Pending(o)' = InHand(o)'
      BY <1>1 DEF Pending
    <2>5. positions'[o] \in Nat /\ positions'[o] = positions[o]
      BY <1>1, <2>1
    <2>6. CASE o = pos + 1
      <3>1. /\ errors' = errors /\ Readings(o)' = Readings(o) + 1 /\ InHand(o)' <= InHand(o) + 1
            /\ positions'[o] + Pending(o)' <= positions[o] + Pending(o) + 1
        BY <1>1, <2>1, <2>2, <2>3, <2>4, <2>5, <2>6
      <3>2. /\ InHand(o)' <= Readings(o)'
            /\ positions'[o] + Pending(o)' <= (1 + errors') * Readings(o)'
        BY <1>0, <2>5, <3>1, AccountStep
      <3> QED BY <1>1, <3>2 DEF Accounted
    <2>7. CASE o # pos + 1
      <3>1. Readings(o)' >= Readings(o) /\ InHand(o)' <= InHand(o) /\ pc # "commit"
        BY <1>1, <2>1, <2>2, <2>3, <2>7
      <3>2. /\ InHand(o)' <= Readings(o)'
            /\ positions'[o] + Pending(o)' <= (1 + errors') * Readings(o)'
        BY <1>0, <1>1, <3>1, RowsQuiet
      <3> QED BY <1>1, <3>2 DEF Accounted
    <2> QED BY <2>6, <2>7
  <1> QED BY <1>1, <1>2 DEF RowsInv

\* A transaction that is carried out writes at most a row for each copy in hand.
LEMMA RowsCommitted ==
    ASSUME DbInv, RowsInv, NEW o \in 1..MaxLog,
           positions' = positions \/ (pc = "end" /\ positions' = txPositions)
    PROVE  positions'[o] \in Nat /\ positions'[o] <= positions[o] + Pending(o)
  <1>1. positions[o] \in Nat /\ txPositions[o] \in Nat /\ Pending(o) \in Nat
    BY AccountTypes DEF RowsInv, DbInv
  <1>2. pc = "end" => txPositions[o] <= positions[o] + Pending(o)
    BY DEF RowsInv, Accounted, Pending, InHand
  <1>3. CASE positions' = positions
    BY <1>1, <1>3
  <1>4. CASE pc = "end" /\ positions' = txPositions
    BY <1>1, <1>2, <1>4
  <1> QED BY <1>3, <1>4

\* The transaction begins, and its statements are executed.
LEMMA RowsTx ==
    ASSUME DbInv, DbInv', RowsInv, BeginTx \/ ExecFlight
    PROVE  RowsInv'
  <1>0. DbTypeOK /\ DbTypeOK'
    BY DEF DbInv
  <1>1. /\ UNCHANGED <<positions, errors, faults, stopping, batch, pos>>
        /\ pc \in {"parse", "tx"} /\ pc' \in {"tx", "end", "commit"}
    BY DEF BeginTx, ExecFlight, tables, countVars
  <1>2. ASSUME NEW o \in 1..MaxLog
        PROVE  /\ InHand(o)' <= Readings(o)'
               /\ positions'[o] + Pending(o)' <= (1 + errors') * Readings(o)'
    <2>1. Readings(o) \in Int /\ InHand(o) \in Nat
      BY <1>0, AccountTypes
    <2>2. Readings(o)' = Readings(o) /\ InHand(o)' = InHand(o)
      BY <1>1 DEF Readings, Ahead, InHand
    <2>3. Readings(o)' >= Readings(o) /\ InHand(o)' <= InHand(o) /\ pc # "commit"
      BY <1>1, <2>1, <2>2
    <2> QED BY <1>0, <1>1, <2>3, RowsQuiet
  <1>3. CASE BeginTx
    <2>1. txPositions' = positions /\ k' = 0 /\ pc' # "end"
      BY <1>3 DEF BeginTx
    <2>2. ASSUME NEW o \in 1..MaxLog PROVE txPositions'[o] <= positions'[o] + Copies(batch', o, k')
      <3>1. Copies(batch', o, k') = 0
        BY <2>1, CopiesNone
      <3>2. positions[o] \in Nat
        BY DEF RowsInv
      <3> QED BY <1>1, <2>1, <3>1, <3>2
    <2> QED BY <1>1, <1>2, <2>1, <2>2 DEF RowsInv, Accounted
  <1>4. CASE ExecFlight
    <2>1. /\ k \in Nat /\ k' = k + 1 /\ (pc' = "end" => k' = Len(batch')) /\ pc = "tx"
          /\ batch[k + 1] \in Nat
      BY <1>0, <1>1, <1>4 DEF ExecFlight, DbTypeOK
    <2>2. \/ txPositions' = txPositions
          \/ txPositions' = [txPositions EXCEPT ![batch[k + 1]] = @ + 1]
      BY <1>4 DEF ExecFlight, txVars
    <2>3. txPositions' \in [1..MaxLog -> Nat]
      BY <2>2 DEF RowsInv
    <2>4. ASSUME NEW o \in 1..MaxLog PROVE txPositions'[o] <= positions'[o] + Copies(batch', o, k')
      <3>1. Copies(batch', o, k') = Copies(batch, o, k) + IF batch[k + 1] = o THEN 1 ELSE 0
        BY <1>1, <2>1, CopiesNext
      <3>2. /\ positions[o] \in Nat /\ txPositions[o] \in Nat /\ Copies(batch, o, k) \in Nat
            /\ txPositions \in [1..MaxLog -> Nat]
        BY <1>0, AccountTypes DEF RowsInv
      <3>3. txPositions[o] <= positions[o] + Copies(batch, o, k)
        BY <2>1 DEF RowsInv, Accounted
      <3>4. txPositions'[o] = txPositions[o]
            \/ (txPositions'[o] = txPositions[o] + 1 /\ batch[k + 1] = o)
        <4>1. CASE txPositions' = txPositions
          BY <4>1
        <4>2. CASE txPositions' = [txPositions EXCEPT ![batch[k + 1]] = @ + 1]
          BY <3>2, <4>2
        <4> QED BY <2>2, <4>1, <4>2
      <3>5. txPositions'[o] \in Nat
        BY <2>3
      <3> QED BY <1>1, <3>1, <3>2, <3>3, <3>4, <3>5
    <2> QED BY <1>1, <1>2, <2>1, <2>3, <2>4 DEF RowsInv, Accounted
  <1> QED BY <1>3, <1>4

\* The transaction ends well: its rows are no longer pending.
LEMMA RowsEnd == ASSUME DbInv, DbInv', RowsInv, EndTx PROVE RowsInv'
  <1>0. DbTypeOK /\ DbTypeOK'
    BY DEF DbInv
  <1>1. /\ pc = "end" /\ pc' = "commit" /\ positions' = txPositions /\ txPositions' = txPositions
        /\ UNCHANGED <<errors, faults, stopping, batch, pos>>
    BY DEF EndTx, CommitTables, txVars, countVars
  <1>2. ASSUME NEW o \in 1..MaxLog PROVE Accounted(o)'
    <2>1. positions'[o] \in Nat /\ positions'[o] <= positions[o] + Pending(o)
      BY <1>1, RowsCommitted
    <2>2. Readings(o) \in Int /\ InHand(o) \in Nat
      BY <1>0, AccountTypes
    <2>3. Readings(o)' = Readings(o) /\ InHand(o)' = InHand(o) /\ Pending(o)' = 0
      BY <1>1 DEF Readings, Ahead, InHand, Pending
    <2>4. /\ errors' = errors /\ Readings(o)' >= Readings(o) /\ InHand(o)' <= InHand(o)
          /\ positions'[o] + Pending(o)' <= positions[o] + Pending(o)
      BY <1>1, <2>1, <2>2, <2>3
    <2>5. /\ InHand(o)' <= Readings(o)'
          /\ positions'[o] + Pending(o)' <= (1 + errors') * Readings(o)'
      BY <1>0, <2>1, <2>4, AccountStep
    <2> QED BY <1>1, <2>5 DEF Accounted
  <1> QED BY <1>1, <1>2 DEF RowsInv

\* It fails: every reading so far may be written once more.
LEMMA RowsError ==
    ASSUME DbInv, DbInv', RowsInv, NEW applied \in BOOLEAN, TxError(applied)
    PROVE  RowsInv'
  <1>0. DbTypeOK /\ DbTypeOK'
    BY DEF DbInv
  <1>1. /\ pc \in {"tx", "end"} /\ pc' \in {"tx", "down"} /\ txPositions' = positions' /\ k' = 0
        /\ errors' = errors + 1 /\ UNCHANGED <<faults, stopping, pos>>
    BY DEF TxError
  <1>2. positions' = positions \/ (pc = "end" /\ positions' = txPositions)
    BY DEF TxError, CommitTables, tables
  <1>3. (pc' = "down" /\ stopping /\ batch' = <<>>) \/ (pc' = "tx" /\ batch' = batch)
    BY DEF TxError
  <1>4. ASSUME NEW o \in 1..MaxLog PROVE Accounted(o)' /\ positions'[o] \in Nat
    <2>1. positions'[o] \in Nat /\ positions'[o] <= positions[o] + Pending(o)
      BY <1>2, RowsCommitted
    <2>2. /\ Readings(o) \in Int /\ InHand(o) \in Nat /\ positions[o] \in Nat
          /\ faults \in Nat /\ Pending(o) \in Nat
      BY <1>0, AccountTypes DEF RowsInv
    <2>3. Readings(o)' >= Readings(o)
      BY <1>1, <1>3, <2>2 DEF Readings, Ahead
    <2>4. InHand(o)' <= InHand(o)
      <3>1. batch' = <<>> => InHand(o)' = 0
        BY CopiesNone DEF InHand
      <3>2. batch' = batch => InHand(o)' = InHand(o)
        BY DEF InHand
      <3> QED BY <1>3, <2>2, <3>1, <3>2
    <2>5. Pending(o)' = InHand(o)' /\ Pending(o) = InHand(o) /\ InHand(o) <= Readings(o)
      BY <1>1 DEF Pending, RowsInv, Accounted
    <2>6. InHand(o)' \in Nat
      <3>1. Len(batch') \in Nat
        BY <1>0 DEF DbTypeOK
      <3> QED BY <3>1, CopiesNat DEF InHand
    <2>7. positions'[o] + Pending(o)' <= positions[o] + Pending(o) + Readings(o)
      BY <2>1, <2>2, <2>4, <2>5, <2>6
    <2>8. /\ InHand(o)' <= Readings(o)'
          /\ positions'[o] + Pending(o)' <= (1 + errors') * Readings(o)'
      BY <1>0, <1>1, <2>1, <2>3, <2>4, <2>7, AccountStep
    <2>9. txPositions'[o] <= positions'[o] + Copies(batch', o, k')
      <3>1. Copies(batch', o, k') = 0
        BY <1>1, CopiesNone
      <3> QED BY <1>1, <2>1, <3>1
    <2> QED BY <2>1, <2>8, <2>9 DEF Accounted
  <1>5. positions' \in [1..MaxLog -> Nat]
    BY <1>2 DEF RowsInv
  <1> QED BY <1>1, <1>4, <1>5 DEF RowsInv

\* A crash, in or after the transaction, pays for another reading.
LEMMA RowsCrash ==
    ASSUME DbInv, DbInv', RowsInv, NEW applied \in BOOLEAN, Crash(applied)
    PROVE  RowsInv'
  <1>0. DbTypeOK /\ DbTypeOK'
    BY DEF DbInv
  <1>1. /\ pc # "down" /\ pc' = "down" /\ batch' = <<>> /\ faults' = faults + 1
        /\ UNCHANGED <<errors, txPositions>>
    BY DEF Crash, Fault, txVars
  <1>2. positions' = positions \/ (pc = "end" /\ positions' = txPositions)
    BY DEF Crash, CommitTables, tables
  <1>3. ASSUME NEW o \in 1..MaxLog PROVE Accounted(o)'
    <2>1. positions'[o] \in Nat /\ positions'[o] <= positions[o] + Pending(o)
      BY <1>2, RowsCommitted
    <2>2. /\ Ahead(o) \in 0..2 /\ InHand(o) \in Nat /\ positions[o] \in Nat
          /\ faults \in Nat /\ Pending(o) \in Nat
      BY <1>0, AccountTypes DEF RowsInv
    <2>3. Ahead(o)' = 1
      BY <1>1 DEF Ahead
    <2>4. Readings(o)' >= Readings(o)
      BY <1>1, <2>2, <2>3 DEF Readings
    <2>5. InHand(o)' = 0 /\ Pending(o)' = 0
      BY <1>1, CopiesNone DEF InHand, Pending
    <2>6. /\ errors' = errors /\ InHand(o)' <= InHand(o)
          /\ positions'[o] + Pending(o)' <= positions[o] + Pending(o)
      BY <1>1, <2>1, <2>2, <2>5
    <2>7. /\ InHand(o)' <= Readings(o)'
          /\ positions'[o] + Pending(o)' <= (1 + errors') * Readings(o)'
      BY <1>0, <2>1, <2>4, <2>6, AccountStep
    <2> QED BY <1>1, <2>7 DEF Accounted
  <1>4. positions' \in [1..MaxLog -> Nat]
    BY <1>2 DEF RowsInv
  <1> QED BY <1>1, <1>3, <1>4 DEF RowsInv

LEMMA RowsInitInv == DbInit => RowsInv
  <1> SUFFICES ASSUME DbInit PROVE RowsInv
    OBVIOUS
  <1>1. /\ positions = [o \in 1..MaxLog |-> 0] /\ txPositions = positions
        /\ pc = "fetch" /\ batch = <<>> /\ faults = 0 /\ errors = 0 /\ pos = 0 /\ ~stopping
    BY DEF DbInit
  <1>2. ASSUME NEW o \in 1..MaxLog PROVE Accounted(o)
    <2>1. InHand(o) = 0 /\ Pending(o) = 0
      BY <1>1, CopiesNone DEF InHand, Pending
    <2>2. Readings(o) = 0
      BY <1>1 DEF Readings, Ahead
    <2> QED BY <1>1, <2>1, <2>2 DEF Accounted
  <1> QED BY <1>1, <1>2 DEF RowsInv

\* Every step keeps the accounts.
LEMMA RowsStep == DbInv /\ DbInv' /\ RowsInv /\ [DbNext]_dbVars => RowsInv'
  <1> SUFFICES ASSUME DbInv, DbInv', RowsInv, [DbNext]_dbVars PROVE RowsInv'
    OBVIOUS
  <1>0. ASSUME NEW o \in 1..MaxLog
        PROVE  /\ faults \in Nat /\ o \in Nat /\ pos \in Nat
               /\ Ahead(o) \in 0..2 /\ Readings(o) \in Int
    BY AccountTypes DEF DbInv
  <1>1. CASE (\E m \in Msg : Arrive(m)) \/ UNCHANGED dbVars
    <2>1. UNCHANGED <<runVars, positions, errors, faults>>
      BY <1>1 DEF Arrive, dbVars, tables, countVars
    <2>2. ASSUME NEW o \in 1..MaxLog PROVE Readings(o)' >= Readings(o)
      <3>1. Readings(o)' = Readings(o)
        BY <2>1 DEF Readings, Ahead, runVars
      <3> QED BY <1>0, <3>1
    <2> QED BY <2>1, <2>2, RowsStay DEF runVars, txVars
  <1>2. CASE FetchError \/ Flush \/ \E b \in BOOLEAN : Parse(b)
    <2>1. /\ UNCHANGED <<positions, txPositions, errors, faults, stopping, batch, pos>>
          /\ pc \in {"fetch", "drain", "parse"} /\ pc' \in {"fetch", "parse", "down"}
          /\ pc' = "down" => stopping
      BY <1>2 DEF FetchError, Flush, Parse, txVars, tables, countVars
    <2>2. ASSUME NEW o \in 1..MaxLog PROVE Readings(o)' >= Readings(o)
      <3>1. Ahead(o)' <= Ahead(o) /\ Ahead(o)' \in 0..2
        BY <1>0, <2>1 DEF Ahead
      <3> QED BY <1>0, <2>1, <3>1 DEF Readings
    <2> QED BY <2>1, <2>2, RowsStay
  <1>3. ASSUME NEW b \in BOOLEAN, Commit(b) PROVE RowsInv'
    <2>1. /\ UNCHANGED <<positions, txPositions, errors, faults, stopping, pos>>
          /\ pc = "commit" /\ pc' = "fetch" /\ batch' = <<>>
      BY <1>3 DEF Commit, txVars, tables, countVars
    <2>2. ASSUME NEW o \in 1..MaxLog PROVE Readings(o)' >= Readings(o)
      <3>1. Readings(o)' = Readings(o)
        BY <2>1 DEF Readings, Ahead
      <3> QED BY <1>0, <3>1
    <2> QED BY <2>1, <2>2, RowsStay
  <1>4. CASE Signal \/ Rebalance
    <2>1. /\ UNCHANGED <<positions, txPositions, errors, batch, k, pc>>
          /\ pc # "down" /\ faults' = faults + 1
          /\ \/ pos' = pos /\ ~stopping
             \/ stopping' = stopping
      BY <1>4 DEF Signal, Rebalance, Fault, txVars, tables
    <2>2. ASSUME NEW o \in 1..MaxLog PROVE Readings(o)' >= Readings(o)
      <3>1. Ahead(o)' <= Ahead(o) + 1 /\ Ahead(o)' \in 0..2
        BY <1>0, <2>1 DEF Ahead
      <3> QED BY <1>0, <2>1, <3>1 DEF Readings
    <2> QED BY <2>1, <2>2, RowsStay
  <1>5. CASE Start
    <2>1. /\ UNCHANGED <<positions, txPositions, errors, faults>>
          /\ pc = "down" /\ pc' = "fetch" /\ batch' = <<>> /\ stopping' = FALSE
      BY <1>5 DEF Start, txVars, tables
    <2>2. ASSUME NEW o \in 1..MaxLog PROVE Readings(o)' >= Readings(o)
      <3>1. Ahead(o)' <= Ahead(o) /\ Ahead(o)' \in 0..2
        BY <1>0, <2>1 DEF Ahead
      <3> QED BY <1>0, <2>1, <3>1 DEF Readings
    <2> QED BY <2>1, <2>2, RowsStay
  <1>6. CASE FetchFirst \/ Drain
    BY <1>6, RowsFetch
  <1>7. CASE BeginTx \/ ExecFlight
    BY <1>7, RowsTx
  <1>8. CASE EndTx
    BY <1>8, RowsEnd
  <1>9. CASE \E b \in BOOLEAN : TxError(b)
    BY <1>9, RowsError
  <1>10. CASE \E b \in BOOLEAN : Crash(b)
    BY <1>10, RowsCrash
  <1> QED BY <1>1, <1>2, <1>3, <1>4, <1>5, <1>6, <1>7, <1>8, <1>9, <1>10
          DEF DbNext, RunStep, Lifecycle

\* A message has at most a row of positions for each reading and each attempt at it, and
\* was read at most once more than there were faults: for every topic and batch size,
\* whatever is replayed, retried or committed without the answer arriving.
THEOREM RowsAccountedHolds == DbSpec => []RowsAccounted
  <1>1. DbSpec => []RowsInv
    BY RowsInitInv, RowsStep, DbSpecInv, PTL DEF DbSpec
  <1>2. DbInv /\ RowsInv => RowsAccounted
    <2> SUFFICES ASSUME DbInv, RowsInv, NEW o \in Offsets
                 PROVE  positions[o] <= (1 + faults) * (1 + errors)
      BY DEF RowsAccounted
    <2>1. o \in 1..MaxLog
      BY DatabaseWriterAssumption DEF Offsets, DbInv, DbTypeOK
    <2>2. /\ faults \in Nat /\ errors \in Nat /\ Ahead(o) \in 0..2 /\ Readings(o) \in Int
          /\ InHand(o) \in Nat /\ Pending(o) \in Nat
      BY <2>1, AccountTypes DEF DbInv
    <2>3. /\ positions[o] \in Nat /\ InHand(o) <= Readings(o)
          /\ positions[o] + Pending(o) <= (1 + errors) * Readings(o)
      BY <2>1 DEF RowsInv, Accounted
    <2>4. Readings(o) \in Nat /\ Readings(o) <= 1 + faults
      BY <2>2, <2>3 DEF Readings
    <2> DEFINE r == Readings(o)
               a == 1 + errors
               f == 1 + faults
               w == positions[o] + Pending(o)
    <2>5. a \in Nat /\ a >= 1 /\ f \in Nat /\ f >= r /\ r \in Nat /\ w \in Nat /\ w <= a * r
      BY <2>2, <2>3, <2>4
    <2>6. positions[o] <= w
      BY <2>2, <2>3
    <2> HIDE DEF r, a, f, w
    <2>7. w <= a * f
      BY <2>5, Account
    <2>8. a * f = f * a /\ a * f \in Nat
      BY <2>5
    <2>9. positions[o] <= f * a
      BY <2>3, <2>5, <2>6, <2>7, <2>8
    <2> QED BY <2>9 DEF f, a
  <1> QED BY <1>1, <1>2, DbSpecInv, PTL
=============================================================================
