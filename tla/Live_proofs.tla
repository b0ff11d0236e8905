---------------------------- MODULE Live_proofs -----------------------------
(***************************************************************************)
(* The live picture of the flights, for every topic, poll and update: the  *)
(* cache-writer's offset never covers a message that was not settled and no *)
(* key falls behind the reader; an answer to the map misses no flight that *)
(* was cached throughout; of the positions in an update Parse keeps the    *)
(* last of the latest, with its heading.                                   *)
(***************************************************************************)
EXTENDS CacheWriter, LiveMap, FlightParse, TLAPS, WellFoundedInduction

-----------------------------------------------------------------------------
(* The cache-writer.                                                       *)

\* The first start of the loop: nothing read, nothing committed.
LEMMA CacheInitInv == CacheInit => CacheInv
  BY CacheWriterAssumption DEF CacheInit, CacheInv, ReaderOK, NoSilentLoss, ReadCovered,
     HandCovered, HandShape, Settled, Offsets

\* process, whichever way it ends, settles the message in hand.
LEMMA SettleInv ==
    ASSUME CacheInv, NEW ok \in BOOLEAN, Settle(ok),
           dead' \subseteq Offsets'
    PROVE  CacheInv'
  <1>1. log' = log /\ committed' = committed /\ pos' = pos /\ skipped' = skipped
        /\ faults' = faults
    BY DEF Settle, groupVars
  <1>2. cur \in 1..Len(log) /\ pc = "work"
    BY DEF CacheInv, ReaderOK, HandShape, Settle
  <1>3. done \cup missed \cup {cur} = done' \cup missed'
    BY DEF Settle
  <1>4. done' \subseteq Offsets' /\ missed' \subseteq Offsets'
    BY <1>1, <1>2 DEF Settle, CacheInv, ReaderOK, Offsets
  <1>5. \/ pc' = "commit" /\ cur' = cur
        \/ pc' = "fetch" /\ cur' = 0
    BY DEF Settle
  <1>6. ReaderOK'
    BY <1>1, <1>2, <1>4, <1>5 DEF CacheInv, ReaderOK, Offsets
  <1>7. Settled' = Settled \cup {cur}
    BY <1>1, <1>3 DEF Settled
  <1>8. NoSilentLoss'
    BY <1>1, <1>7 DEF NoSilentLoss, CacheInv
  <1>9. ReadCovered'
    BY <1>1, <1>7 DEF ReadCovered, CacheInv
  <1>10. HandCovered'
    BY <1>5, <1>7 DEF HandCovered, CacheInv
  <1>11. HandShape'
    BY <1>2, <1>5, <1>7 DEF HandShape
  <1>12. QED
    BY <1>6, <1>8, <1>9, <1>10, <1>11 DEF CacheInv

\* A new reader, of this process or the next, starts where all before it is
\* settled: at the group's offset, or at the end with all before it skipped.
LEMMA ResumeCovers ==
    ASSUME CacheInv, Resume, log' = log, committed' = committed,
           done' = done, missed' = missed
    PROVE  /\ pos' \in 0..Len(log)
           /\ skipped' \subseteq Offsets'
           /\ Settled \subseteq Settled'
           /\ 1..pos' \subseteq Settled'
  <1>1. Offsets' = 1..Len(log) /\ Offsets = 1..Len(log) /\ Len(log) \in Nat
    BY DEF Offsets, CacheInv, ReaderOK
  <1>2. CASE committed = 0
    BY <1>1, <1>2 DEF CacheInv, ReaderOK, Resume, Settled
  <1>3. CASE committed # 0
    BY <1>1, <1>3 DEF CacheInv, ReaderOK, Resume, Settled, NoSilentLoss
  <1>4. QED
    BY <1>2, <1>3

\* Every step preserves the invariant.
LEMMA CacheStep == CacheInv /\ [CacheNext]_cacheVars => CacheInv'
  <1> SUFFICES ASSUME CacheInv, [CacheNext]_cacheVars
               PROVE  CacheInv'
    OBVIOUS
  <1> USE DEF CacheInv
  <1>1. ASSUME NEW m \in Msg, Arrive(m) PROVE CacheInv'
    <2>1. Len(log') = Len(log) + 1 /\ log' \in Seq(Msg) /\ Len(log) \in Nat
      BY <1>1 DEF Arrive, ReaderOK
    <2>2. ReaderOK'
      BY <1>1, <2>1 DEF Arrive, ReaderOK, Offsets, groupVars
    <2>3. QED
      BY <1>1, <2>2 DEF Arrive, NoSilentLoss, ReadCovered, HandCovered,
         HandShape, Settled, groupVars
  <1>2. CASE Fetch
    <2>1. ReaderOK'
      BY <1>2 DEF Fetch, ReaderOK, Offsets, groupVars
    <2>2. cur = 0 /\ Settled' = Settled
      BY <1>2 DEF Fetch, HandShape, Settled, groupVars
    <2>3. \A o \in 1..(pos + 1) : o \in Settled \/ o = pos + 1
      BY <2>2 DEF ReadCovered, ReaderOK
    <2>4. QED
      BY <1>2, <2>1, <2>2, <2>3 DEF Fetch, NoSilentLoss, ReadCovered,
         HandCovered, HandShape, ReaderOK
  <1>3. CASE FetchError
    BY <1>3 DEF FetchError, ReaderOK, NoSilentLoss, ReadCovered, HandCovered,
       HandShape, Settled, Offsets, groupVars
  <1>4. CASE Process
    <2>1. cur \in Offsets
      BY <1>4 DEF Process, HandShape, ReaderOK, Offsets
    <2>2. PICK ok \in BOOLEAN : Settle(ok) /\ (dead' = dead \/ dead' = dead \cup {cur})
      BY <1>4 DEF Process, NoPosition, DeadLetter, DeleteFlight, UpsertFlight
    <2>3. dead' \subseteq Offsets'
      BY <2>1, <2>2 DEF Settle, ReaderOK, Offsets
    <2>4. QED
      BY <2>2, <2>3, SettleInv
  <1>5. ASSUME NEW stored \in BOOLEAN, Commit(stored) PROVE CacheInv'
    <2>1. cur \in 1..Len(log) /\ cur \in Settled /\ 1..cur \subseteq Settled
      BY <1>5 DEF Commit, HandShape, HandCovered, ReaderOK
    <2>2. ReaderOK' /\ Settled' = Settled
      BY <1>5, <2>1 DEF Commit, ReaderOK, Offsets, groupVars, Settled
    <2>3. NoSilentLoss'
      BY <1>5, <2>1, <2>2 DEF Commit, NoSilentLoss
    <2>4. QED
      BY <1>5, <2>1, <2>2, <2>3 DEF Commit, ReadCovered, HandCovered, HandShape,
         ReaderOK
  <1>6. ASSUME NEW g \in Gufi, Expire(g) PROVE CacheInv'
    BY <1>6 DEF Expire, ReaderOK, NoSilentLoss, ReadCovered, HandCovered,
       HandShape, Settled, Offsets, groupVars
  <1>7. CASE Signal
    BY <1>7, CacheWriterAssumption DEF Signal, Fault, ReaderOK, NoSilentLoss,
       ReadCovered, HandCovered, HandShape, Settled, Offsets
  <1>8. CASE Crash
    <2>1. dead' = dead \/ (pc = "work" /\ dead' = dead \cup {cur})
      BY <1>8 DEF Crash
    <2>2. pc = "work" => cur \in Offsets
      BY DEF HandShape, ReaderOK, Offsets
    <2>3. dead' \subseteq Offsets
      <3>1. dead \subseteq Offsets
        BY DEF ReaderOK
      <3>2. QED
        BY <2>1, <2>2, <3>1
    <2>4. ReaderOK'
      BY <1>8, <2>3, CacheWriterAssumption DEF Crash, Fault, ReaderOK, Offsets
    <2>5. QED
      BY <1>8, <2>4 DEF Crash, NoSilentLoss, ReadCovered, HandCovered,
         HandShape, Settled, ReaderOK
  <1>9. CASE Start
    <2>1. /\ pos' \in 0..Len(log) /\ skipped' \subseteq Offsets'
          /\ Settled \subseteq Settled' /\ 1..pos' \subseteq Settled'
      BY <1>9, ResumeCovers DEF Start
    <2>2. ReaderOK'
      BY <1>9, <2>1 DEF Start, ReaderOK, Offsets
    <2>3. QED
      BY <1>9, <2>1, <2>2 DEF Start, NoSilentLoss, ReadCovered, HandCovered,
         HandShape
  <1>10. CASE Rebalance
    <2>1. /\ pos' \in 0..Len(log) /\ skipped' \subseteq Offsets'
          /\ Settled \subseteq Settled' /\ 1..pos' \subseteq Settled'
      BY <1>10, ResumeCovers DEF Rebalance
    <2>2. ReaderOK'
      BY <1>10, <2>1, CacheWriterAssumption DEF Rebalance, Fault, ReaderOK, Offsets
    <2>3. QED
      BY <1>10, <2>1, <2>2 DEF Rebalance, NoSilentLoss, ReadCovered,
         HandCovered, HandShape
  <1>11. CASE UNCHANGED cacheVars
    BY <1>11 DEF cacheVars, redisVars, groupVars, ReaderOK, NoSilentLoss, ReadCovered,
       HandCovered, HandShape, Settled, Offsets
  <1>12. QED
    BY <1>1, <1>2, <1>3, <1>4, <1>5, <1>6, <1>7, <1>8, <1>9, <1>10, <1>11
       DEF CacheNext, Lifecycle

\* CacheInv is an invariant of the cache-writer: what the reader is past is settled or in
\* hand.
THEOREM CacheSpecInv == CacheSpec => []CacheInv
  BY CacheInitInv, CacheStep, PTL DEF CacheSpec

\* No silent loss, for every topic and any number of faults: the offset the
\* cache-writer commits covers only messages whose processing ended or that
\* were there before the group first joined.
THEOREM CacheNoSilentLoss == CacheSpec => []NoSilentLoss
  <1>1. CacheInv => NoSilentLoss
    BY DEF CacheInv
  <1>2. QED
    BY <1>1, CacheSpecInv, PTL

\* Each step of the cache-writer is one of the contract's: the message in hand is settled,
\* the offset moves over settled messages, or a reader without an offset joins at the end.
LEMMA CacheContractStep ==
    ASSUME CacheInv, [CacheNext]_cacheVars
    PROVE  [Contract!ContractNext]_(Contract!contractVars)
  <1> USE DEF Contract!ContractNext, Contract!contractVars
  <1>1. CASE \E m \in Msg : Arrive(m)
    BY <1>1 DEF CacheInv, ReaderOK, Arrive, groupVars, Contract!ContractArrive
  <1>2. CASE Process
    <2>1. {cur} \in SUBSET (1..Len(log))
      BY <1>2 DEF Process, CacheInv, HandShape, ReaderOK
    <2>2. PICK ok \in BOOLEAN : Settle(ok)
      BY <1>2 DEF Process, NoPosition, DeadLetter, DeleteFlight, UpsertFlight
    <2>3. Contract!ContractSettle({cur}, ok)
      BY <2>2 DEF Settle, groupVars, Contract!ContractSettle
    <2> QED BY <2>1, <2>3
  <1>3. CASE \E stored \in BOOLEAN : Commit(stored)
    <2>1. UNCHANGED <<log, done, missed, skipped>> /\ committed' \in {cur, committed} /\ pc = "commit"
      BY <1>3 DEF Commit, groupVars
    <2>2. 1..committed' \subseteq done \cup missed \cup skipped
      BY <2>1 DEF CacheInv, HandShape, HandCovered, NoSilentLoss, Settled
    <2>3. committed' \in 0..Len(log)
      BY <2>1 DEF CacheInv, ReaderOK
    <2>4. Contract!ContractCommit(committed')
      BY <2>1, <2>2 DEF Contract!ContractCommit
    <2> QED BY <2>3, <2>4
  <1>4. CASE Start \/ Rebalance
    <2>1. UNCHANGED <<log, done, missed, committed>>
          /\ skipped' = IF committed = 0 THEN Offsets ELSE skipped
      BY <1>4 DEF Start, Rebalance, Resume
    <2>2. skipped \subseteq Offsets /\ Offsets \in SUBSET (1..Len(log))
      BY DEF CacheInv, ReaderOK, Offsets
    <2>3. CASE committed = 0
      <3>1. Contract!ContractJoin(Offsets)
        BY <2>1, <2>2, <2>3 DEF Contract!ContractJoin
      <3> QED BY <2>2, <3>1
    <2>4. CASE committed # 0
      BY <2>1, <2>4
    <2> QED BY <2>3, <2>4
  <1>5. CASE Fetch \/ FetchError \/ (\E g \in Gufi : Expire(g)) \/ Signal \/ Crash
             \/ UNCHANGED cacheVars
    <2>1. UNCHANGED <<log, done, missed, skipped, committed>>
      BY <1>5 DEF Fetch, FetchError, Expire, Signal, Crash, cacheVars, groupVars
    <2> QED BY <2>1
  <1> QED BY <1>1, <1>2, <1>3, <1>4, <1>5 DEF CacheNext, Lifecycle

\* The cache-writer, with its failing steps, crashes, rebalances and starts at the end of
\* the topic, implements the contract of a pipeline stage.
THEOREM CacheImplementsContract == CacheSpec => ImplementsContract
  <1>1. CacheInit => Contract!ContractInit
    BY DEF CacheInit, Contract!ContractInit
  <1>2. CacheInv /\ [CacheNext]_cacheVars => [Contract!ContractNext]_(Contract!contractVars)
    BY CacheContractStep
  <1> QED BY CacheSpecInv, <1>1, <1>2, PTL DEF CacheSpec, ImplementsContract, Contract!ContractSpec

\* The flags, and Redis as the writer leaves it.
Stored ==
    /\ stopping \in BOOLEAN /\ rebalanced \in BOOLEAN
    /\ cache \in [Gufi -> [position : 0..Len(log), heading : 0..Len(log)]]
    /\ wrote \in [Gufi -> 0..Len(log)]

\* A write to Redis is of a message in the topic.
LEMMA WriteStore ==
    ASSUME CacheInv, Stored, pc = "work", log' = log, Upsert \/ Delete
    PROVE  /\ cache' \in [Gufi -> [position : 0..Len(log'), heading : 0..Len(log')]]
           /\ wrote' \in [Gufi -> 0..Len(log')]
  <1>1. cur \in 0..Len(log)
    BY DEF CacheInv, ReaderOK
  <1>2. wrote' \in [Gufi -> 0..Len(log)]
    BY <1>1 DEF Stored, Upsert, Delete
  <1>3. Absent \in [position : 0..Len(log), heading : 0..Len(log)]
    BY DEF Absent, CacheInv, ReaderOK
  <1>4. \A g \in Gufi : cache[g].heading \in 0..Len(log)
    BY DEF Stored
  <1>5. cache' \in [Gufi -> [position : 0..Len(log), heading : 0..Len(log)]]
    <2>1. CASE Upsert
      BY <1>1, <1>4, <2>1 DEF Stored, Upsert
    <2>2. CASE Delete
      BY <1>3, <2>2 DEF Stored, Delete
    <2> QED BY <2>1, <2>2
  <1>6. QED
    BY <1>2, <1>5

\* Every step keeps the store well formed.
LEMMA StoreStep == CacheInv /\ Stored /\ [CacheNext]_cacheVars => Stored'
  <1> SUFFICES ASSUME CacheInv, Stored, [CacheNext]_cacheVars PROVE Stored'
    OBVIOUS
  <1>1. ASSUME NEW m \in Msg, Arrive(m) PROVE Stored'
    <2>1. Len(log') = Len(log) + 1 /\ Len(log) \in Nat
      BY <1>1 DEF Arrive, CacheInv, ReaderOK
    <2>2. UNCHANGED <<stopping, rebalanced, cache, wrote>>
      BY <1>1 DEF Arrive, redisVars, groupVars
    <2>3. \A g \in Gufi : cache[g] \in [position : 0..Len(log'), heading : 0..Len(log')]
      BY <2>1 DEF Stored
    <2>4. QED
      BY <2>1, <2>2, <2>3 DEF Stored
  <1>2. CASE Fetch \/ FetchError \/ Start \/ Rebalance \/ Signal
             \/ UNCHANGED cacheVars \/ \E stored \in BOOLEAN : Commit(stored)
    <2>1. UNCHANGED <<log, cache, wrote>>
      BY <1>2 DEF Fetch, FetchError, Start, Rebalance, Signal, Commit, redisVars, cacheVars
    <2>2. stopping' \in BOOLEAN /\ rebalanced' \in BOOLEAN
      BY <1>2, Zenon DEF Stored, Fetch, FetchError, Start, Rebalance, Signal, Commit, groupVars,
         cacheVars
    <2>3. QED
      BY <2>1, <2>2 DEF Stored
  <1>3. CASE Process
    <2>1. /\ log' = log /\ pc = "work" /\ UNCHANGED <<stopping, rebalanced>>
          /\ (UNCHANGED <<cache, wrote>> \/ Upsert \/ Delete)
      BY <1>3 DEF Process, NoPosition, DeadLetter, DeleteFlight, UpsertFlight, Settle,
         redisVars, groupVars
    <2>2. QED
      BY <2>1, WriteStore DEF Stored
  <1>4. CASE Crash
    <2>1. log' = log /\ UNCHANGED <<stopping, rebalanced>>
      BY <1>4 DEF Crash
    <2>2. UNCHANGED <<cache, wrote>> \/ (pc = "work" /\ (Upsert \/ Delete))
      BY <1>4 DEF Crash, redisVars
    <2>3. QED
      BY <2>1, <2>2, WriteStore DEF Stored
  <1>5. ASSUME NEW g \in Gufi, Expire(g) PROVE Stored'
    <2>1. Absent \in [position : 0..Len(log), heading : 0..Len(log)]
      BY DEF Absent, CacheInv, ReaderOK
    <2>2. cache' \in [Gufi -> [position : 0..Len(log), heading : 0..Len(log)]]
      BY <1>5, <2>1 DEF Expire, Stored
    <2>3. QED
      BY <1>5, <2>2 DEF Expire, Stored, groupVars
  <1>6. QED
    BY <1>1, <1>2, <1>3, <1>4, <1>5 DEF CacheNext, Lifecycle

\* What is in Redis is from a message of the topic.
LEMMA StoreHolds == CacheSpec => []Stored
  <1>1. ASSUME CacheInit PROVE Stored
    <2>1. stopping \in BOOLEAN /\ rebalanced \in BOOLEAN
      BY <1>1, Zenon DEF CacheInit
    <2>2. 0 \in 0..Len(log)
      BY <1>1 DEF CacheInit
    <2>3. Absent \in [position : 0..Len(log), heading : 0..Len(log)]
      BY <2>2, Zenon DEF Absent
    <2>4. cache \in [Gufi -> [position : 0..Len(log), heading : 0..Len(log)]]
      BY <1>1, <2>3, Zenon DEF CacheInit
    <2>5. wrote \in [Gufi -> 0..Len(log)]
      BY <1>1, <2>2, Zenon DEF CacheInit
    <2>6. QED
      BY <2>1, <2>4, <2>5 DEF Stored
  <1>2. QED
    BY <1>1, StoreStep, CacheSpecInv, PTL DEF CacheSpec

\* The cache-writer is type correct: what is in Redis is from a message of the topic.
THEOREM CacheTypeCorrect == CacheSpec => []CacheTypeOK
  <1>1. CacheInv /\ Stored => CacheTypeOK
    BY DEF CacheInv, Stored, CacheTypeOK
  <1>2. QED
    BY <1>1, StoreHolds, CacheSpecInv, PTL
-----------------------------------------------------------------------------
\* Every message up to n that writes a key and is newer than the key's last write has
\* failed or was skipped, but for those of Open.
UpTo(n, Open) ==
    \A g \in Gufi : \A o \in (wrote[g] + 1)..n :
        Writes(o, g) => o \in missed \cup skipped \cup Open

\* The inductive invariant behind KeyFollowsReader: it holds up to the group's offset
\* too, where a restart puts the reader, and what is in hand is what was read last.
FollowInv ==
    ~rebalanced =>
        /\ pc # "down" => committed <= pos
        /\ pc \in {"work", "commit"} => cur = pos
        /\ UpTo(committed, {})
        /\ UpTo(pos, IF pc = "work" THEN {cur} ELSE {})

\* Steps that leave Redis and the topic alone.
LEMMA UpToStays ==
    ASSUME NEW n \in Nat, NEW Open, UpTo(n, Open), log' = log, wrote' = wrote,
           missed \subseteq missed', skipped \subseteq skipped'
    PROVE  UpTo(n, Open)'
  BY DEF UpTo, Writes

\* A write of the message in hand, all of the key's messages up to it being older.
LEMMA WriteFollows ==
    ASSUME CacheInv, Stored, NEW n \in Nat, UpTo(n, {cur}), n <= cur,
           Upsert \/ Delete, pc = "work",
           log' = log, missed \subseteq missed', skipped \subseteq skipped'
    PROVE  UpTo(n, {})'
  <1>1. cur \in 1..Len(log) /\ Key \in Gufi /\ wrote' = [wrote EXCEPT ![Key] = cur]
    BY CacheWriterAssumption
    DEF CacheInv, HandShape, ReaderOK, Key, Held, Upsert, Delete
  <1> SUFFICES ASSUME NEW g \in Gufi, NEW o \in (wrote'[g] + 1)..n, Writes(o, g)'
               PROVE  o \in missed' \cup skipped'
    BY DEF UpTo
  <1>2. Writes(o, g) /\ wrote \in [Gufi -> 0..Len(log)]
    BY DEF Writes, Stored
  <1>3. g # Key
    BY <1>1, <1>2 DEF CacheInv, ReaderOK
  <1>4. wrote'[g] = wrote[g]
    BY <1>1, <1>2, <1>3
  <1>5. o \in missed \cup skipped \cup {cur}
    BY <1>2, <1>4 DEF UpTo
  <1>6. o # cur
    BY <1>2, <1>3 DEF Writes, Key, Held
  <1>7. QED
    BY <1>5, <1>6

\* A message that writes nothing leaves nothing open.
LEMMA NoWriteFollows ==
    ASSUME CacheInv, NEW n \in Nat, UpTo(n, {cur}), ~Writes(cur, Key) \/ cur \in missed',
           log' = log, wrote' = wrote, missed \subseteq missed', skipped \subseteq skipped'
    PROVE  UpTo(n, {})'
  <1> SUFFICES ASSUME NEW g \in Gufi, NEW o \in (wrote[g] + 1)..n, Writes(o, g)
               PROVE  o \in missed' \cup skipped'
    BY DEF UpTo, Writes
  <1>1. o \in missed \cup skipped \cup {cur}
    BY DEF UpTo
  <1>2. o = cur => g = Key
    BY DEF Writes, Key, Held
  <1>3. QED
    BY <1>1, <1>2

\* Every step preserves it.
LEMMA FollowStep == CacheInv /\ Stored /\ FollowInv /\ [CacheNext]_cacheVars => FollowInv'
  <1> SUFFICES ASSUME CacheInv, Stored, FollowInv, [CacheNext]_cacheVars, ~rebalanced'
               PROVE  FollowInv'
    BY DEF FollowInv
  <1>0. ~rebalanced
    BY DEF CacheNext, Lifecycle, Arrive, Fetch, FetchError, Process, NoPosition, DeadLetter,
       DeleteFlight, UpsertFlight, Settle, Commit, Expire, Signal, Crash, Start, Rebalance,
       groupVars, cacheVars
  <1>a. /\ committed \in Nat /\ pos \in Nat /\ cur \in Nat
        /\ committed <= Len(log) /\ pos <= Len(log) /\ Len(log) \in Nat
    BY DEF CacheInv, ReaderOK
  <1>b. /\ pc # "down" => committed <= pos
        /\ pc \in {"work", "commit"} => cur = pos
        /\ UpTo(committed, {})
        /\ UpTo(pos, {cur})
        /\ pc # "work" => UpTo(pos, {})
    BY <1>0 DEF FollowInv, UpTo
  <1>1. ASSUME NEW m \in Msg, Arrive(m) PROVE FollowInv'
    <2>1. UNCHANGED <<committed, pos, cur, pc, wrote, missed, skipped>>
          /\ log' = Append(log, m)
      BY <1>1 DEF Arrive, redisVars, groupVars
    <2>2. wrote \in [Gufi -> Nat] /\ log \in Seq(Msg)
      BY <1>a DEF Stored, CacheInv, ReaderOK
    <2>3. ASSUME NEW n \in Nat, n <= Len(log), NEW Open, UpTo(n, Open)
          PROVE  UpTo(n, Open)'
      <3>1. ASSUME NEW g \in Gufi, NEW o \in (wrote[g] + 1)..n
            PROVE  log'[o] = log[o]
        <4>1. o \in 1..Len(log)
          BY <1>a, <2>2, <2>3
        <4>2. QED
          BY <2>1, <2>2, <4>1
      <3>2. QED
        BY <2>1, <2>3, <3>1 DEF UpTo, Writes
    <2>4. QED
      <3>1. UpTo(committed, {})'
        BY <1>a, <1>b, <2>1, <2>3
      <3>2. UpTo(pos, IF pc = "work" THEN {cur} ELSE {})'
        BY <1>0, <1>a, <2>1, <2>3 DEF FollowInv
      <3>3. QED
        BY <1>b, <2>1, <3>1, <3>2 DEF FollowInv
  <1>2. CASE Fetch
    <2>1. /\ UNCHANGED <<log, committed, wrote, missed, skipped>> /\ pc = "fetch"
          /\ pos' = pos + 1 /\ cur' = pos + 1 /\ pc' = "work"
      BY <1>2 DEF Fetch, redisVars, groupVars
    <2>2. wrote \in [Gufi -> Nat]
      BY <1>a DEF Stored
    <2>3. UpTo(pos, {}) /\ UpTo(committed, {})
      BY <1>b, <2>1
    <2>4. UpTo(committed, {})'
      BY <2>1, <2>3 DEF UpTo, Writes
    <2>5. UpTo(pos, {cur})'
      BY <1>a, <2>1, <2>2, <2>3 DEF UpTo, Writes
    <2>6. QED
      BY <1>a, <1>b, <2>1, <2>4, <2>5 DEF FollowInv
  <1>3. CASE FetchError \/ Signal \/ UNCHANGED cacheVars \/ \E g \in Gufi : Expire(g)
    <2>1. UNCHANGED <<log, committed, pos, cur, wrote, missed, skipped>>
      BY <1>3 DEF FetchError, Signal, Expire, redisVars, groupVars, cacheVars
    <2>2. pc' = pc \/ (pc = "fetch" /\ pc' \in {"fetch", "down"})
      BY <1>3 DEF FetchError, Signal, Expire, cacheVars
    <2>3. UpTo(committed, {})' /\ UpTo(pos, {cur})' /\ (pc # "work" => UpTo(pos, {})')
      BY <1>b, <2>1 DEF UpTo, Writes
    <2>4. QED
      BY <1>b, <2>1, <2>2, <2>3 DEF FollowInv
  <1>4. CASE Process
    <2>1. /\ UNCHANGED <<log, committed, pos, skipped>> /\ missed \subseteq missed'
          /\ pc = "work"
          /\ \/ pc' = "commit" /\ cur' = cur
             \/ pc' = "fetch" /\ cur' = 0 /\ cur \in missed'
      BY <1>4 DEF Process, NoPosition, DeadLetter, DeleteFlight, UpsertFlight, Settle,
         groupVars
    <2>2. \/ Upsert \/ Delete
          \/ wrote' = wrote /\ (~Writes(cur, Key) \/ cur \in missed')
      BY <1>4 DEF Process, NoPosition, DeadLetter, DeleteFlight, UpsertFlight, Settle,
         Writes, Held, redisVars
    <2>3. cur = pos /\ committed <= cur /\ UpTo(committed, {cur})
      BY <1>b, <2>1 DEF UpTo
    <2>4. UpTo(committed, {})' /\ UpTo(pos, {})'
      <3>1. CASE Upsert \/ Delete
        <4>1. UpTo(pos, {cur}) /\ skipped \subseteq skipped' /\ pos <= cur /\ log' = log
          BY <1>a, <1>b, <2>1, <2>3
        <4>2. ASSUME NEW n \in Nat, n <= cur, UpTo(n, {cur}) PROVE UpTo(n, {})'
          BY <2>1, <3>1, <4>1, <4>2, WriteFollows
        <4>3. \A n \in Nat : n <= cur /\ UpTo(n, {cur}) => UpTo(n, {})'
          BY <4>2
        <4>4. UpTo(pos, {})' /\ UpTo(committed, {})'
          BY <1>a, <2>1, <2>3, <4>1, <4>3 DEF UpTo
        <4>5. QED
          BY <4>4
      <3>2. CASE wrote' = wrote /\ (~Writes(cur, Key) \/ cur \in missed')
        <4>1. UpTo(pos, {cur}) /\ skipped \subseteq skipped' /\ log' = log
          BY <1>b, <2>1
        <4>2. \A n \in Nat : UpTo(n, {cur}) => UpTo(n, {})'
          BY <2>1, <3>2, <4>1, NoWriteFollows
        <4>3. QED
          BY <1>a, <2>1, <2>3, <4>1, <4>2 DEF UpTo
      <3>3. QED
        BY <2>2, <3>1, <3>2
    <2>5. QED
      BY <2>1, <2>3, <2>4 DEF FollowInv
  <1>5. ASSUME NEW stored \in BOOLEAN, Commit(stored) PROVE FollowInv'
    <2>1. /\ UNCHANGED <<log, pos, wrote, missed, skipped>> /\ pc = "commit"
          /\ (committed' = cur \/ committed' = committed) /\ pc' = "fetch"
      BY <1>5 DEF Commit, redisVars, groupVars
    <2>2. UpTo(pos, {})' /\ (committed' = pos \/ committed' = committed)
      BY <1>b, <2>1 DEF UpTo, Writes
    <2>3. UpTo(committed, {})'
      BY <1>b, <2>1, <2>2 DEF UpTo, Writes
    <2>4. QED
      BY <1>a, <1>b, <2>1, <2>2, <2>3 DEF FollowInv
  <1>6. CASE Crash
    <2>1. /\ UNCHANGED <<log, committed, missed, skipped>> /\ pos' = 0 /\ pc' = "down"
      BY <1>6 DEF Crash
    <2>2. UNCHANGED wrote \/ (pc = "work" /\ (Upsert \/ Delete))
      BY <1>6 DEF Crash, redisVars
    <2>3. UpTo(committed, {})'
      <3>1. CASE UNCHANGED wrote
        BY <1>b, <2>1, <3>1 DEF UpTo, Writes
      <3>2. CASE pc = "work" /\ (Upsert \/ Delete)
        <4>1. committed <= cur /\ UpTo(committed, {cur})
          BY <1>b, <3>2 DEF UpTo
        <4>2. ASSUME NEW n \in Nat, n <= cur, UpTo(n, {cur}) PROVE UpTo(n, {})'
          BY <2>1, <3>2, <4>2, WriteFollows
        <4>3. QED
          BY <1>a, <2>1, <4>1, <4>2 DEF UpTo
      <3>3. QED
        BY <2>2, <3>1, <3>2
    <2>4. UpTo(pos, {})'
      <3>1. wrote' \in [Gufi -> Nat]
        BY <1>a, <2>1, <2>2, WriteStore DEF Stored
      <3>2. QED
        BY <2>1, <3>1 DEF UpTo
    <2>5. QED
      BY <2>1, <2>3, <2>4 DEF FollowInv
  <1>7. CASE Start
    <2>1. /\ UNCHANGED <<log, committed, wrote, missed>> /\ pc' = "fetch"
          /\ pos' = (IF committed = 0 THEN Len(log) ELSE committed)
          /\ skipped' = (IF committed = 0 THEN Offsets ELSE skipped)
          /\ skipped \subseteq Offsets
      BY <1>7 DEF Start, Resume, redisVars, CacheInv, ReaderOK
    <2>2. skipped \subseteq skipped' /\ wrote \in [Gufi -> Nat]
      BY <1>a, <2>1 DEF Stored
    <2>3. UpTo(committed, {})'
      BY <1>b, <2>1, <2>2 DEF UpTo, Writes
    <2>4. UpTo(pos, {})'
      <3>1. CASE committed = 0
        BY <1>a, <2>1, <2>2, <3>1 DEF UpTo, Offsets
      <3>2. CASE committed # 0
        BY <2>1, <2>3, <3>2 DEF UpTo, Writes
      <3>3. QED
        BY <3>1, <3>2
    <2>5. QED
      BY <1>a, <2>1, <2>3, <2>4 DEF FollowInv
  <1>8. CASE Rebalance
    BY <1>8 DEF Rebalance
  <1>9. QED
    BY <1>1, <1>2, <1>3, <1>4, <1>5, <1>6, <1>7, <1>8 DEF CacheNext, Lifecycle

LEMMA FollowInvHolds == CacheSpec => []FollowInv
  <1>1. CacheInit => FollowInv
    BY DEF CacheInit, FollowInv, UpTo
  <1>2. QED
    BY <1>1, FollowStep, StoreHolds, CacheSpecInv, PTL DEF CacheSpec

\* A key is as new as the reader, for every topic and every number of crashes: replays
\* never leave an old state of a flight in the cache.
THEOREM KeyFollowsReaderHolds == CacheSpec => []KeyFollowsReader
  <1>1. CacheInv /\ FollowInv => KeyFollowsReader
    BY DEF FollowInv, KeyFollowsReader, UpTo
  <1>2. QED
    BY <1>1, FollowInvHolds, CacheSpecInv, PTL

\* A message that leaves no heading of an earlier one in the flight's hash.
Replaces(o, g) == Writes(o, g) /\ (log[o] \in Active => log[o] \in HasHeading)

\* The heading h of a hash whose position is from p, and that was written last, is from
\* an update of its flight; nothing between the two replaces it; and what is behind the
\* heading is still to be read, also after a restart.
HashOK(g, h, p) ==
    h # 0 =>
        /\ p = wrote[g] /\ h \in 1..Len(log)
        /\ log[h] \in (Active \ Poison) \cap HasPosition \cap HasHeading
        /\ GufiOf[log[h]] = g
        /\ \A o \in (h + 1)..p : Replaces(o, g) => o \in missed \cup skipped
        /\ h > p => \/ h \in missed
                    \/ h > committed /\ (h > pos \/ (pc = "work" /\ h = cur))
        /\ committed = 0 => h <= p /\ (pc # "down" => h <= pos)

\* The inductive invariant behind HeadingIsLastGiven.
HeadingInv ==
    ~rebalanced => \A g \in Gufi : HashOK(g, cache[g].heading, cache[g].position)

\* A write of the message in hand, by process or by one that is killed.
LEMMA WriteKeepsHeading ==
    ASSUME CacheInv, Stored, FollowInv, HeadingInv, ~rebalanced, pc = "work",
           \/ Delete
           \/ Upsert /\ Held \in (Active \ Poison) \cap HasPosition,
           log' = log, committed' = committed, missed \subseteq missed', skipped \subseteq skipped',
           pos' \in 0..pos, pc' # "down" => pos' = pos,
           NEW g \in Gufi
    PROVE  HashOK(g, cache[g].heading, cache[g].position)'
  <1> DEFINE h == cache[g].heading
             p == cache[g].position
  <1>1. /\ cur \in 1..Len(log) /\ cur = pos /\ committed \in 0..pos /\ UpTo(pos, {cur})
        /\ h \in 0..Len(log) /\ p \in 0..Len(log) /\ wrote[g] \in 0..Len(log) /\ Len(log) \in Nat
    BY DEF CacheInv, HandShape, ReaderOK, FollowInv, Stored
  <1>2. HashOK(g, h, p)
    BY DEF HeadingInv
  <1>3. CASE g # Key
    <2>1. cache'[g] = cache[g] /\ wrote'[g] = wrote[g]
      BY <1>3 DEF Upsert, Delete, Stored
    <2>2. h # 0 => h # cur
      BY <1>2, <1>3 DEF HashOK, Key, Held
    <2>3. HashOK(g, h, p)'
      BY <1>1, <1>2, <2>1, <2>2 DEF HashOK, Replaces, Writes
    <2> QED BY <2>3
  <1>4. CASE g = Key /\ Delete
    <2>1. cache'[g].heading = 0
      BY <1>4 DEF Delete, Absent, Stored
    <2> QED BY <2>1 DEF HashOK
  <1>5. CASE g = Key /\ Upsert /\ Held \in (Active \ Poison) \cap HasPosition
    <2>1. /\ cache'[g].position = cur /\ wrote'[g] = cur
          /\ cache'[g].heading = IF Held \in HasHeading THEN cur ELSE h
      BY <1>5 DEF Upsert, Stored
    <2>2. CASE Held \in HasHeading
      BY <1>1, <1>5, <2>1, <2>2 DEF HashOK, Key, Held
    <2>3. CASE Held \notin HasHeading /\ h # 0
      <3>1. ~Replaces(cur, g)
        BY <1>5, <2>3 DEF Replaces, Held
      <3>2. ASSUME NEW o \in (h + 1)..cur, Replaces(o, g) PROVE o \in missed \cup skipped
        <4>1. o # cur /\ Writes(o, g) /\ o \in 1..Len(log)
          BY <1>1, <3>1, <3>2 DEF Replaces
        <4>2. CASE o <= p
          BY <1>1, <1>2, <2>3, <3>2, <4>2 DEF HashOK
        <4>3. CASE o > p
          <5>1. o \in (wrote[g] + 1)..pos
            BY <1>1, <1>2, <2>3, <4>1, <4>3 DEF HashOK
          <5> QED BY <1>1, <4>1, <5>1 DEF UpTo
        <4> QED BY <1>1, <4>1, <4>2, <4>3
      <3>3. /\ cache'[g].heading = h /\ h \in 1..Len(log) /\ pos' <= pos
            /\ log[h] \in (Active \ Poison) \cap HasPosition \cap HasHeading /\ GufiOf[log[h]] = g
            /\ committed = 0 => h <= cur
        BY <1>1, <1>2, <2>1, <2>3 DEF HashOK
      <3>4. \A o \in (h + 1)..cur : Replaces(o, g)' => o \in missed' \cup skipped'
        BY <3>2 DEF Replaces, Writes
      <3> QED BY <1>1, <2>1, <3>3, <3>4 DEF HashOK
    <2>4. CASE Held \notin HasHeading /\ h = 0
      BY <2>1, <2>4 DEF HashOK
    <2> QED BY <2>2, <2>3, <2>4
  <1> QED BY <1>3, <1>4, <1>5

\* Every step preserves it.
LEMMA HeadingStep ==
    CacheInv /\ Stored /\ FollowInv /\ HeadingInv /\ [CacheNext]_cacheVars => HeadingInv'
  <1> SUFFICES ASSUME CacheInv, Stored, FollowInv, HeadingInv, [CacheNext]_cacheVars,
                      ~rebalanced', NEW g \in Gufi
               PROVE  HashOK(g, cache[g].heading, cache[g].position)'
    BY DEF HeadingInv
  <1> DEFINE h == cache[g].heading
             p == cache[g].position
  <1>0. ~rebalanced
    BY DEF CacheNext, Lifecycle, Arrive, Fetch, FetchError, Process, NoPosition, DeadLetter,
       DeleteFlight, UpsertFlight, Settle, Commit, Expire, Signal, Crash, Start, Rebalance,
       groupVars, cacheVars
  <1>a. /\ committed \in 0..Len(log) /\ pos \in 0..Len(log) /\ cur \in 0..Len(log)
        /\ h \in 0..Len(log) /\ p \in 0..Len(log) /\ Len(log) \in Nat
        /\ pc # "down" => committed <= pos
        /\ pc \in {"work", "commit"} => cur = pos /\ cur # 0
    BY <1>0 DEF CacheInv, ReaderOK, HandShape, Stored, FollowInv
  <1>b. HashOK(g, h, p)
    BY <1>0 DEF HeadingInv
  <1>1. ASSUME NEW m \in Msg, Arrive(m) PROVE HashOK(g, h, p)'
    <2>1. /\ UNCHANGED <<committed, pos, cur, pc, cache, wrote, missed, skipped>>
          /\ log' = Append(log, m) /\ log \in Seq(Msg)
      BY <1>1 DEF Arrive, redisVars, groupVars, CacheInv, ReaderOK
    <2>2. Len(log') = Len(log) + 1 /\ \A o \in 1..Len(log) : log'[o] = log[o]
      BY <2>1
    <2>3. h # 0 => \A o \in (h + 1)..p : o \in 1..Len(log)
      BY <1>a
    <2> QED BY <1>a, <1>b, <2>1, <2>2, <2>3 DEF HashOK, Replaces, Writes
  <1>2. CASE Fetch
    <2>1. /\ UNCHANGED <<log, committed, cache, wrote, missed, skipped>> /\ pc = "fetch"
          /\ pos' = pos + 1 /\ cur' = pos + 1 /\ pc' = "work"
      BY <1>2 DEF Fetch, redisVars, groupVars
    <2> QED BY <1>a, <1>b, <2>1 DEF HashOK, Replaces, Writes
  <1>3. CASE FetchError \/ Signal \/ UNCHANGED cacheVars
    <2>1. UNCHANGED <<log, committed, pos, cur, cache, wrote, missed, skipped>>
      BY <1>3 DEF FetchError, Signal, redisVars, groupVars, cacheVars
    <2>2. pc' = pc \/ (pc = "fetch" /\ pc' \in {"fetch", "down"})
      BY <1>3 DEF FetchError, Signal, cacheVars
    <2> QED BY <1>b, <2>1, <2>2 DEF HashOK, Replaces, Writes
  <1>4. CASE Process
    <2>1. /\ UNCHANGED <<log, committed, pos, skipped>> /\ missed \subseteq missed'
          /\ pc = "work" /\ pc' \in {"commit", "fetch"}
      BY <1>4 DEF Process, NoPosition, DeadLetter, DeleteFlight, UpsertFlight, Settle,
         groupVars
    <2>2. \/ Delete
          \/ Upsert /\ Held \in (Active \ Poison) \cap HasPosition
          \/ /\ UNCHANGED <<cache, wrote>>
             /\ Held \in (Active \ Poison) \cap HasPosition => cur \in missed'
      BY <1>4 DEF Process, NoPosition, DeadLetter, DeleteFlight, UpsertFlight, Settle, redisVars
    <2>3. CASE Delete \/ (Upsert /\ Held \in (Active \ Poison) \cap HasPosition)
      <3>1. pos' \in 0..pos /\ (pc' # "down" => pos' = pos)
        BY <1>a, <2>1
      <3>2. skipped \subseteq skipped'
        BY <2>1
      <3> QED BY <1>0, <2>1, <2>3, <3>1, <3>2, WriteKeepsHeading
    <2>4. CASE UNCHANGED <<cache, wrote>>
               /\ (Held \in (Active \ Poison) \cap HasPosition => cur \in missed')
      <3>1. h # 0 /\ h = cur => h \in missed'
        BY <1>b, <2>4 DEF HashOK, Held
      <3> QED BY <1>a, <1>b, <2>1, <2>4, <3>1 DEF HashOK, Replaces, Writes
    <2> QED BY <2>2, <2>3, <2>4
  <1>5. ASSUME NEW stored \in BOOLEAN, Commit(stored) PROVE HashOK(g, h, p)'
    <2>1. /\ UNCHANGED <<log, pos, cache, wrote, missed, skipped>> /\ pc = "commit"
          /\ (committed' = cur \/ committed' = committed) /\ pc' = "fetch"
      BY <1>5 DEF Commit, redisVars, groupVars
    <2> QED BY <1>a, <1>b, <2>1 DEF HashOK, Replaces, Writes
  <1>6. ASSUME NEW x \in Gufi, Expire(x) PROVE HashOK(g, h, p)'
    <2>1. UNCHANGED <<log, committed, pos, cur, pc, wrote, missed, skipped>>
      BY <1>6 DEF Expire, groupVars
    <2>2. cache'[g] = cache[g] \/ cache'[g].heading = 0
      BY <1>6 DEF Expire, Absent, Stored
    <2> QED BY <1>b, <2>1, <2>2 DEF HashOK, Replaces, Writes
  <1>7. CASE Crash
    <2>1. /\ UNCHANGED <<log, committed, missed, skipped>> /\ pos' = 0 /\ pc' = "down"
      BY <1>7 DEF Crash
    <2>2. \/ UNCHANGED <<cache, wrote>>
          \/ pc = "work" /\ (Delete \/ (Upsert /\ Held \in (Active \ Poison) \cap HasPosition))
      BY <1>7 DEF Crash, redisVars
    <2>3. CASE UNCHANGED <<cache, wrote>>
      BY <1>a, <1>b, <2>1, <2>3 DEF HashOK, Replaces, Writes
    <2>4. CASE pc = "work" /\ (Delete \/ (Upsert /\ Held \in (Active \ Poison) \cap HasPosition))
      <3>1. /\ pos' \in 0..pos /\ (pc' # "down" => pos' = pos)
            /\ missed \subseteq missed' /\ skipped \subseteq skipped'
        BY <1>a, <2>1
      <3> QED BY <1>0, <2>1, <2>4, <3>1, WriteKeepsHeading
    <2> QED BY <2>2, <2>3, <2>4
  <1>8. CASE Start
    <2>1. /\ UNCHANGED <<log, committed, cache, wrote, missed>> /\ pc = "down" /\ pc' = "fetch"
          /\ pos' = (IF committed = 0 THEN Len(log) ELSE committed)
          /\ skipped' = (IF committed = 0 THEN Offsets ELSE skipped)
      BY <1>8 DEF Start, Resume, redisVars
    <2>2. skipped \subseteq skipped'
      BY <2>1 DEF CacheInv, ReaderOK
    <2> QED BY <1>a, <1>b, <2>1, <2>2 DEF HashOK, Replaces, Writes
  <1>9. CASE Rebalance
    BY <1>9 DEF Rebalance
  <1> QED BY <1>1, <1>2, <1>3, <1>4, <1>5, <1>6, <1>7, <1>8, <1>9 DEF CacheNext, Lifecycle

\* The heading and speed on the map are never outdated, for every topic, crash and expiry:
\* a hash that mixes two updates has the heading of the last one before the position that
\* gave one, but for messages whose processing failed.
THEOREM HeadingIsLastGivenHolds == CacheSpec => []HeadingIsLastGiven
  <1>1. CacheInit => HeadingInv
    BY DEF CacheInit, HeadingInv, HashOK, Absent
  <1>2. CacheSpec => []HeadingInv
    BY <1>1, HeadingStep, FollowInvHolds, StoreHolds, CacheSpecInv, PTL DEF CacheSpec
  <1>3. CacheInv /\ Stored /\ HeadingInv => HeadingIsLastGiven
    BY DEF CacheInv, Stored, HeadingInv, HashOK, HeadingIsLastGiven, Replaces
  <1> QED BY <1>2, <1>3, StoreHolds, CacheSpecInv, PTL

-----------------------------------------------------------------------------
(* The live map.                                                           *)

\* A set of numbers with an element has a least one.
LEMMA HasLeast ==
    ASSUME NEW S \in SUBSET Nat, S # {}
    PROVE  \E x \in S : \A y \in S : x <= y
  <1>1. PICK x \in S : \A y \in S : ~(<<y, x>> \in OpToRel(<, Nat))
    BY NatLessThanWellFounded, WFMin
  <1>2. \A ss \in Nat \X Nat : ss \in OpToRel(<, Nat) <=> ss[1] < ss[2]
    BY Zenon DEF OpToRel
  <1>3. \A y \in S : <<y, x>> \in Nat \X Nat /\ <<y, x>>[1] = y /\ <<y, x>>[2] = x
    OBVIOUS
  <1>4. \A y \in S : ~(<<y, x>>[1] < <<y, x>>[2])
    BY <1>1, <1>2, <1>3, Zenon
  <1> QED BY <1>3, <1>4

\* A bounded one has a greatest element, which is its Max.
LEMMA MaxIs ==
    ASSUME NEW n \in Nat, NEW S \in SUBSET (0..n), S # {}
    PROVE  Max(S) \in S /\ Max(S) \in Nat /\ \A x \in S : x <= Max(S)
  <1> DEFINE T == {i \in Nat : n - i \in S}
  <1>1. T # {}
    <2>1. PICK x \in S : TRUE
      OBVIOUS
    <2>2. n - x \in Nat /\ n - (n - x) = x
      BY <2>1
    <2> QED BY <2>2
  <1>2. PICK i \in T : \A j \in T : i <= j
    BY <1>1, HasLeast
  <1>3. n - i \in S /\ i \in Nat
    OBVIOUS
  <1>4. ASSUME NEW x \in S PROVE n - i >= x
    <2>1. n - x \in Nat /\ n - (n - x) = x
      OBVIOUS
    <2>2. n - x \in T
      BY <2>1
    <2> QED BY <1>2, <1>3, <2>1, <2>2
  <1>5. \E x \in S : \A y \in S : x >= y
    BY <1>3, <1>4
  <1>6. Max(S) \in S /\ \A y \in S : Max(S) >= y
    BY <1>5 DEF Max
  <1>7. \A y \in S : y \in Nat
    OBVIOUS
  <1> QED BY <1>6, <1>7

PollSet == [at : {"none", "scan", "read"}, keys : SUBSET (Flight \X {1, 2}),
            got : SUBSET (Flight \X Nat), always : SUBSET Flight,
            ever : SUBSET Flight, fresh : BOOLEAN]

\* A poll as it begins.
LEMMA PollIs ==
  ASSUME NEW where \in {"none", "scan"}, NEW fs \in SUBSET Flight
  PROVE  /\ Poll(where, fs) \in PollSet
         /\ Poll(where, fs).at = where /\ Poll(where, fs).got = {}
         /\ Poll(where, fs).always = fs /\ Poll(where, fs).ever = fs
  BY DEF Poll, PollSet

\* A write moves a flight of the cache past everything that was read of it.
LEMMA WriteInv == ASSUME LiveInv, NEW f \in Flight, Write(f) PROVE LiveInv'
<1>1. poll \in [Slot -> PollSet] /\ redis \in [Flight -> Nat] /\ writes \in Nat
  BY DEF LiveInv, LiveTypeOK, PollSet
<1>2. /\ writes' = writes + 1 /\ shown' = shown
      /\ \/ redis' = [redis EXCEPT ![f] = writes + 1] 
         \/ redis' = [redis EXCEPT ![f] = 0]
  BY DEF Write
<1>3. redis' \in [Flight -> Nat] /\ \A g \in Flight : g # f => redis'[g] = redis[g]
  BY <1>1, <1>2
<1>4. redis'[f] = 0 \/ redis'[f] = writes + 1
  BY <1>1, <1>2
<1>5. ASSUME NEW s \in Slot
      PROVE  /\ poll'[s] \in PollSet
             /\ poll'[s].at = poll[s].at /\ poll'[s].keys = poll[s].keys
             /\ poll'[s].got = poll[s].got /\ poll'[s].fresh = poll[s].fresh
             /\ poll[s].at = "none" \/ Listed(s) => poll'[s].always = poll[s].always
             /\ ~(poll[s].at = "none" \/ Listed(s)) => poll'[s].always = poll[s].always \cap Cached'
             /\ poll[s].at = "scan" => poll'[s].ever = poll[s].ever \cup Cached'
  <2>1. poll[s] \in PollSet /\ Cached' \subseteq Flight
    BY <1>1 DEF Cached
  <2>2. poll'[s] = CASE poll[s].at = "none" \/ Listed(s) -> poll[s]
                     [] poll[s].at = "scan" -> [poll[s] EXCEPT !.always = @ \cap Cached',
                                                               !.ever = @ \cup Cached']
                     [] OTHER -> [poll[s] EXCEPT !.always = @ \cap Cached']
    BY DEF Write
  <2>3. CASE poll[s].at = "none" \/ Listed(s)
    <3>1. poll'[s] = poll[s]
      BY <2>2, <2>3 DEF Listed
    <3> QED BY <2>1, <2>3, <3>1 DEF Listed
  <2>4. CASE ~(poll[s].at = "none" \/ Listed(s)) /\ poll[s].at = "scan"
    <3>1. poll'[s] = [poll[s] EXCEPT !.always = @ \cap Cached', !.ever = @ \cup Cached']
      BY <2>2, <2>4
    <3> QED BY <2>1, <2>4, <3>1 DEF PollSet
  <2>5. CASE ~(poll[s].at = "none" \/ Listed(s)) /\ poll[s].at # "scan"
    <3>1. poll'[s] = [poll[s] EXCEPT !.always = @ \cap Cached']
      BY <2>2, <2>5
    <3> QED BY <2>1, <2>5, <3>1 DEF PollSet
  <2> QED BY <2>3, <2>4, <2>5
<1>6. LiveTypeOK'
  <2> DEFINE P(s) == CASE poll[s].at = "none" \/ Listed(s) -> poll[s]
                       [] poll[s].at = "scan" -> [poll[s] EXCEPT !.always = @ \cap Cached',
                                                                 !.ever = @ \cup Cached']
                       [] OTHER -> [poll[s] EXCEPT !.always = @ \cap Cached']
  <2>0. poll' = [s \in Slot |-> P(s)]
    BY DEF Write
  <2>1. poll' = [s \in Slot |-> poll'[s]]
    <3> HIDE DEF P
    <3> QED BY <2>0
  <2>2. poll' \in [Slot -> PollSet]
    BY <1>5, <2>1
  <2> QED BY <1>1, <1>2, <1>3, <2>2 DEF LiveInv, LiveTypeOK, PollSet
<1>7. ASSUME NEW s \in Slot PROVE PollOK(s)'
  <2>1. PollOK(s) /\ poll[s] \in PollSet
    BY <1>1 DEF LiveInv
  <2> QED BY <1>5, <2>1 DEF PollOK, Listed, PollSet
<1>8. ASSUME NEW h \in Flight \X Nat, NotAhead(h) PROVE NotAhead(h)'
  <2>1. h[1] \in Flight /\ h[2] \in Nat
    BY <1>8
  <2>2. CASE h[1] = f
    BY <1>1, <1>2, <1>4, <1>8, <2>1, <2>2 DEF NotAhead
  <2>3. CASE h[1] # f
    BY <1>1, <1>2, <1>3, <1>8, <2>1, <2>3 DEF NotAhead
  <2> QED BY <2>2, <2>3
<1>9. ValuesOK'
  <2>1. \A g \in Flight : redis'[g] <= writes'
    BY <1>1, <1>2, <1>3, <1>4 DEF LiveInv, ValuesOK
  <2>2. \A h \in shown' : NotAhead(h)'
    BY <1>2, <1>8 DEF LiveInv, LiveTypeOK, ValuesOK
  <2>3. \A s \in Slot : \A h \in poll'[s].got : h \in Flight \X Nat
    BY <1>1, <1>5 DEF PollSet
  <2>4. \A s \in Slot : \A h \in poll'[s].got : NotAhead(h)'
    BY <1>5, <1>8, <2>3 DEF LiveInv, ValuesOK
  <2> QED BY <1>2, <1>5, <2>1, <2>2, <2>4 DEF LiveInv, ValuesOK
<1> QED BY <1>6, <1>7, <1>9 DEF LiveInv

\* One slot moves; the cache and the map stay.
LEMMA OnePoll ==
  ASSUME LiveInv, NEW s \in Slot, UNCHANGED <<redis, writes, shown>>,
         NEW p \in PollSet, poll' = [poll EXCEPT ![s] = p],
         p.at = "scan" => p.always \subseteq p.ever,
         p.at = "scan" \/ (p.at = "read" /\ p.keys # {}) => p.always \subseteq Cached,
         p.at = "read" => p.always \subseteq Firsts(p.keys) \cup Firsts(p.got),
         \A h \in p.got : /\ NotAhead(h)
                          /\ p.fresh => \A g \in shown : g[1] = h[1] => g[2] <= h[2]
  PROVE  LiveInv'
<1>1. poll \in [Slot -> PollSet]
  BY DEF LiveInv, LiveTypeOK, PollSet
<1>2. poll' \in [Slot -> PollSet] /\ poll'[s] = p /\ \A t \in Slot : t # s => poll'[t] = poll[t]
  BY <1>1
<1>3. LiveTypeOK'
  BY <1>2 DEF LiveInv, LiveTypeOK, PollSet
<1>4. Cached' = Cached /\ \A h : NotAhead(h) => NotAhead(h)'
  BY DEF Cached, NotAhead
<1>5. ASSUME NEW t \in Slot PROVE PollOK(t)'
  <2>1. CASE t = s
    BY <1>2, <1>4, <2>1 DEF PollOK
  <2>2. CASE t # s
    BY <1>2, <1>4, <2>2 DEF LiveInv, PollOK
  <2> QED BY <2>1, <2>2
<1>6. ValuesOK'
  <2>1. (\A f \in Flight : redis'[f] <= writes') /\ \A h \in shown' : NotAhead(h)'
    BY <1>4 DEF LiveInv, ValuesOK
  <2>2. ASSUME NEW t \in Slot, NEW h \in poll'[t].got
        PROVE  /\ NotAhead(h)'
               /\ poll'[t].fresh => \A g \in shown' : g[1] = h[1] => g[2] <= h[2]
    <3>1. CASE t = s
      BY <1>2, <1>4, <2>2, <3>1
    <3>2. CASE t # s
      <4>1. poll'[t] = poll[t]
        BY <1>2, <3>2
      <4>2. NotAhead(h) /\ (poll[t].fresh => \A g \in shown : g[1] = h[1] => g[2] <= h[2])
        BY <2>2, <4>1 DEF LiveInv, ValuesOK
      <4> QED BY <1>4, <4>1, <4>2
    <3> QED BY <3>1, <3>2
  <2> QED BY <2>1, <2>2 DEF ValuesOK
<1> QED BY <1>3, <1>5, <1>6 DEF LiveInv

\* A poll begins, or fails.
LEMMA BeginInv ==
  ASSUME LiveInv, NEW s \in Slot, Begin(s) \/ PollError(s)
  PROVE  LiveInv'
<1>1. Cached \subseteq Flight /\ {} \subseteq Flight
  BY DEF Cached
<1>2. UNCHANGED <<redis, writes, shown>>
  BY DEF Begin, PollError
<1>3. PICK where \in {"none", "scan"} : \E fs \in {{}, Cached} :
        poll' = [poll EXCEPT ![s] = Poll(where, fs)] /\ (where = "scan" => fs = Cached)
  BY DEF Begin, PollError, NoPoll
<1>4. PICK fs \in {{}, Cached} :
        poll' = [poll EXCEPT ![s] = Poll(where, fs)] /\ (where = "scan" => fs = Cached)
  BY <1>3
<1> DEFINE p == Poll(where, fs)
<1>5. p \in PollSet /\ p.at = where /\ p.got = {} /\ p.always = fs /\ p.ever = fs
  BY <1>1, <1>4, PollIs
<1>6. poll' = [poll EXCEPT ![s] = p]
  BY <1>4
<1> HIDE DEF p
<1> QED BY <1>2, <1>4, <1>5, <1>6, OnePoll

\* SCAN's list holds what was always cached.
LEMMA ScanInv == ASSUME LiveInv, NEW s \in Slot, Scan(s) PROVE LiveInv'
<1>1. PICK listed \in SUBSET poll[s].ever, twice \in SUBSET Flight :
        /\ poll[s].always \subseteq listed
        /\ poll' = [poll EXCEPT ![s].at = "read", ![s].ever = {},
                                ![s].keys = (listed \X {1}) \cup (twice \X {2})]
  BY DEF Scan
<1> DEFINE keys == (listed \X {1}) \cup (twice \X {2})
           p == [poll[s] EXCEPT !.at = "read", !.ever = {}, !.keys = keys]
<1>2. poll \in [Slot -> PollSet] /\ poll[s] \in PollSet
  BY DEF LiveInv, LiveTypeOK, PollSet
<1>3. poll' = [poll EXCEPT ![s] = p]
  BY <1>1, <1>2 DEF PollSet
<1>4. keys \in SUBSET (Flight \X {1, 2})
  BY <1>2 DEF PollSet
<1>5. \A f \in listed : f \in Firsts(keys)
  <2> SUFFICES ASSUME NEW f \in listed PROVE f \in Firsts(keys)
    OBVIOUS
  <2>1. <<f, 1>> \in keys /\ <<f, 1>>[1] = f
    OBVIOUS
  <2> QED BY <2>1 DEF Firsts
<1>6. /\ p \in PollSet /\ p.at = "read" /\ p.keys = keys /\ p.got = poll[s].got
      /\ p.always = poll[s].always /\ p.fresh = poll[s].fresh
  <2> HIDE DEF keys
  <2> QED BY <1>2, <1>4 DEF PollSet
<1>7. poll[s].always \subseteq Cached
  BY DEF LiveInv, PollOK, Scan
<1>8. UNCHANGED <<redis, writes, shown>>
  BY DEF Scan
<1> HIDE DEF p, keys
<1>9. p.always \subseteq Firsts(p.keys) \cup Firsts(p.got)
  BY <1>1, <1>5, <1>6
<1>10. \A h \in p.got : /\ NotAhead(h)
                        /\ p.fresh => \A g \in shown : g[1] = h[1] => g[2] <= h[2]
  BY <1>6 DEF LiveInv, ValuesOK
<1> QED BY <1>3, <1>6, <1>7, <1>8, <1>9, <1>10, OnePoll

\* HGETALL reads what the hash holds now; of a flight that was always cached it is there.
LEMMA HGetAllInv == ASSUME LiveInv, NEW s \in Slot, HGetAll(s) PROVE LiveInv'
<1>1. PICK k \in poll[s].keys :
          poll' = [poll EXCEPT ![s].keys = @ \ {k},
                               ![s].got = @ \cup {h \in Hashes : h[1] = k[1]}]
  BY DEF HGetAll
<1> DEFINE new == {h \in Hashes : h[1] = k[1]}
           p == [poll[s] EXCEPT !.keys = @ \ {k}, !.got = @ \cup new]
<1>2. poll \in [Slot -> PollSet] /\ poll[s] \in PollSet /\ redis \in [Flight -> Nat] /\ writes \in Nat
  BY DEF LiveInv, LiveTypeOK, PollSet
<1>3. poll' = [poll EXCEPT ![s] = p]
  BY <1>1, <1>2 DEF PollSet
<1>4. \A h \in new : \E f \in Cached : h = <<f, redis[f]>>
  BY DEF Hashes
<1>5. new \in SUBSET (Flight \X Nat)
  BY <1>2, <1>4 DEF Cached
<1>6. \A h \in new : NotAhead(h) /\ \A g \in shown : g[1] = h[1] => g[2] <= h[2]
  <2> SUFFICES ASSUME NEW h \in new
               PROVE  NotAhead(h) /\ \A g \in shown : g[1] = h[1] => g[2] <= h[2]
    OBVIOUS
  <2>1. PICK f \in Cached : h = <<f, redis[f]>>
    BY <1>4
  <2>2. f \in Flight /\ redis[f] \in Nat /\ redis[f] # 0 /\ redis[f] <= writes
    BY <1>2 DEF Cached, LiveInv, ValuesOK
  <2>3. h[1] = f /\ h[2] = redis[f]
    BY <2>1
  <2>4. NotAhead(h)
    BY <1>2, <2>2, <2>3 DEF NotAhead
  <2>5. \A g \in shown : g[1] = f => g[2] <= redis[f]
    BY <2>2 DEF LiveInv, ValuesOK, NotAhead
  <2> QED BY <2>3, <2>4, <2>5
<1>7. /\ p \in PollSet /\ p.at = poll[s].at /\ p.keys = poll[s].keys \ {k}
      /\ p.got = poll[s].got \cup new /\ p.always = poll[s].always /\ p.fresh = poll[s].fresh
  <2> HIDE DEF new
  <2> QED BY <1>2, <1>5 DEF PollSet
<1>8. /\ poll[s].at = "read" /\ poll[s].always \subseteq Cached
      /\ poll[s].always \subseteq Firsts(poll[s].keys) \cup Firsts(poll[s].got)
  BY <1>1 DEF LiveInv, PollOK, HGetAll
<1>9. ASSUME NEW f \in poll[s].always PROVE f \in Firsts(p.keys) \cup Firsts(p.got)
  <2>1. CASE f = k[1]
    <3>1. f \in Cached /\ <<f, redis[f]>> \in Hashes /\ <<f, redis[f]>>[1] = f
      BY <1>8, <1>9 DEF Hashes
    <3>2. <<f, redis[f]>> \in p.got
      BY <1>7, <2>1, <3>1
    <3> QED BY <3>1, <3>2 DEF Firsts
  <2>2. CASE f # k[1]
    BY <1>7, <1>8, <1>9, <2>2 DEF Firsts
  <2> QED BY <2>1, <2>2
<1>10. UNCHANGED <<redis, writes, shown>>
  BY DEF HGetAll
<1> HIDE DEF p, new
<1>11. \A h \in p.got : /\ NotAhead(h)
                        /\ p.fresh => \A g \in shown : g[1] = h[1] => g[2] <= h[2]
  BY <1>6, <1>7 DEF LiveInv, ValuesOK
<1> QED BY <1>3, <1>7, <1>8, <1>9, <1>10, <1>11, OnePoll

\* An answer replaces the map, and no poll that overlapped it is fresh any more.
LEMMA AnswerInv == ASSUME LiveInv, NEW s \in Slot, Answer(s) PROVE LiveInv'
<1>1. poll \in [Slot -> PollSet] /\ UNCHANGED <<redis, writes>> /\ shown' = poll[s].got
  BY DEF LiveInv, LiveTypeOK, PollSet, Answer
<1>2. NoPoll \in PollSet /\ NoPoll.at = "none" /\ NoPoll.got = {}
  BY PollIs DEF NoPoll
<1> DEFINE P(t) == IF t = s THEN NoPoll ELSE [poll[t] EXCEPT !.fresh = FALSE]
<1>3. poll' = [t \in Slot |-> P(t)]
  BY DEF Answer
<1>4. ASSUME NEW t \in Slot
      PROVE  /\ P(t) \in PollSet
             /\ \/ P(t).at = "none" /\ P(t).got = {}
                \/ /\ P(t).at = poll[t].at /\ P(t).keys = poll[t].keys /\ P(t).got = poll[t].got
                   /\ P(t).always = poll[t].always /\ P(t).ever = poll[t].ever
                   /\ ~P(t).fresh
  <2>1. CASE t = s
    BY <1>2, <2>1
  <2>2. CASE t # s
    <3>1. P(t) = [poll[t] EXCEPT !.fresh = FALSE] /\ poll[t] \in PollSet
      BY <1>1, <2>2
    <3> HIDE DEF P
    <3> QED BY <3>1 DEF PollSet
  <2> QED BY <2>1, <2>2
<1> HIDE DEF P
<1>5. \A t \in Slot : poll'[t] = P(t)
  BY <1>3
<1>6. poll' \in [Slot -> PollSet]
  BY <1>3, <1>4
<1>7. LiveTypeOK'
  BY <1>1, <1>6 DEF LiveInv, LiveTypeOK, PollSet
<1>8. Cached' = Cached /\ \A h : NotAhead(h) => NotAhead(h)'
  BY <1>1 DEF Cached, NotAhead
<1>9. ASSUME NEW t \in Slot PROVE PollOK(t)'
  BY <1>4, <1>5, <1>8 DEF LiveInv, PollOK
<1>10. ValuesOK'
  <2>1. \A f \in Flight : redis'[f] <= writes'
    BY <1>1 DEF LiveInv, ValuesOK
  <2>2. \A h \in shown' : NotAhead(h)'
    BY <1>1, <1>8 DEF LiveInv, ValuesOK
  <2>3. \A t \in Slot : \A h \in poll'[t].got : NotAhead(h)' /\ ~poll'[t].fresh
    BY <1>4, <1>5, <1>8 DEF LiveInv, ValuesOK
  <2> QED BY <2>1, <2>2, <2>3 DEF ValuesOK
<1> QED BY <1>7, <1>9, <1>10 DEF LiveInv

LEMMA LiveInitInv == LiveInit => LiveInv
<1> SUFFICES ASSUME LiveInit PROVE LiveInv
  OBVIOUS
<1>1. NoPoll \in PollSet /\ NoPoll.at = "none" /\ NoPoll.got = {}
  BY PollIs DEF NoPoll
<1>2. poll \in [Slot -> PollSet] /\ \A s \in Slot : poll[s].at = "none" /\ poll[s].got = {}
  BY <1>1 DEF LiveInit
<1>3. redis \in [Flight -> Nat] /\ writes = 0 /\ shown = {} /\ \A f \in Flight : redis[f] <= writes
  BY DEF LiveInit
<1>4. LiveTypeOK
  BY <1>2, <1>3 DEF LiveTypeOK, PollSet
<1> QED BY <1>2, <1>3, <1>4 DEF LiveInv, PollOK, ValuesOK

LEMMA LiveStep == LiveInv /\ [LiveNext]_mapVars => LiveInv'
<1> SUFFICES ASSUME LiveInv, [LiveNext]_mapVars PROVE LiveInv'
  OBVIOUS
<1>1. ASSUME NEW f \in Flight, Write(f) PROVE LiveInv'
  BY <1>1, WriteInv
<1>2. ASSUME NEW s \in Slot, Begin(s) \/ PollError(s) PROVE LiveInv'
  BY <1>2, BeginInv
<1>3. ASSUME NEW s \in Slot, Serve(s) PROVE LiveInv'
  BY <1>3, ScanInv, HGetAllInv, AnswerInv DEF Serve
<1>4. CASE UNCHANGED mapVars
  BY <1>4 DEF mapVars, LiveInv, LiveTypeOK, PollOK, Cached, ValuesOK, NotAhead
<1> QED BY <1>1, <1>2, <1>3, <1>4 DEF LiveNext

\* The invariant of the map, its polls and the cache holds in every reachable state.
THEOREM LiveInvHolds == LiveSpec => []LiveInv
<1> QED BY LiveInitInv, LiveStep, PTL DEF LiveSpec

\* A flight that was in the cache throughout a request of the map is in its answer,
\* with any number of polls under way and whatever SCAN lists twice.
THEOREM AnswerCompleteHolds == LiveSpec => []AnswerComplete
<1>1. LiveInv => AnswerComplete
  <2> SUFFICES ASSUME LiveInv, NEW s \in Slot, Listed(s)
               PROVE  poll[s].always \subseteq Firsts(poll[s].got)
    BY DEF AnswerComplete, Firsts
  <2>1. Firsts(poll[s].keys) = {}
    BY DEF Listed, Firsts
  <2> QED BY <2>1 DEF LiveInv, PollOK, Listed
<1> QED BY <1>1, LiveInvHolds, PTL

\* What Newest is.
LEMMA NewestIs ==
  ASSUME NEW n \in Nat, NEW fl, \A h \in fl : h[2] \in 1..n, NEW f
  PROVE  /\ Newest(fl, f) \in Nat
         /\ \A h \in fl : h[1] = f => h[2] <= Newest(fl, f)
         /\ Newest(fl, f) # 0 => \E h \in fl : h[1] = f /\ h[2] = Newest(fl, f)
<1> DEFINE S == {0} \cup {h[2] : h \in {g \in fl : g[1] = f}}
<1>1. S \in SUBSET (0..n) /\ S # {}
  OBVIOUS
<1>2. \A h \in fl : h[1] = f => h[2] \in S
  OBVIOUS
<1>3. \A x \in S : x # 0 => \E h \in fl : h[1] = f /\ h[2] = x
  OBVIOUS
<1>4. Newest(fl, f) = Max(S)
  BY DEF Newest
<1> HIDE DEF S
<1>5. Max(S) \in S /\ Max(S) \in Nat /\ \A x \in S : x <= Max(S)
  BY <1>1, MaxIs
<1> QED BY <1>2, <1>3, <1>4, <1>5

\* The answer of a poll that began after the last one was set moves no flight back.
LEMMA FreshNeverBack ==
  ASSUME LiveInv, NEW s \in Slot, Answer(s), poll[s].fresh, NEW f \in Flight
  PROVE  ~(Newest(shown', f) \in 1..(Newest(shown, f) - 1))
<1>1. writes \in Nat /\ shown' = poll[s].got
  BY DEF LiveInv, LiveTypeOK, Answer
<1>2. (\A h \in shown : h[2] \in 1..writes) /\ \A h \in poll[s].got : h[2] \in 1..writes
  BY DEF LiveInv, ValuesOK, NotAhead
<1> DEFINE got == poll[s].got
           a == Newest(got, f)
           b == Newest(shown, f)
<1>3. b \in Nat /\ (b # 0 => \E g \in shown : g[1] = f /\ g[2] = b)
  <2> HIDE DEF got
  <2> QED BY <1>1, <1>2, NewestIs
<1>4. a \in Nat /\ (a # 0 => \E h \in got : h[1] = f /\ h[2] = a)
  <2>1. \A h \in got : h[2] \in 1..writes
    BY <1>2
  <2> HIDE DEF got
  <2> QED BY <1>1, <2>1, NewestIs
<1>5. \A h \in got : \A g \in shown : g[1] = h[1] => g[2] <= h[2]
  BY DEF LiveInv, ValuesOK
<1>6. Newest(shown', f) = a
  BY <1>1
<1> HIDE DEF got, a, b
<1>7. ~(a \in 1..(b - 1))
  BY <1>3, <1>4, <1>5
<1> QED BY <1>6, <1>7 DEF b

\* The map goes back to an older position of a flight only by an answer that overlapped
\* the one shown, whatever polls are under way and whatever is written meanwhile.
THEOREM BackOnlyByOverlapHolds == LiveSpec => BackOnlyByOverlap
<1> DEFINE Back(f) == Newest(shown', f) \in 1..(Newest(shown, f) - 1)
           Late == \E s \in Slot : poll[s].at = "read" /\ ~poll[s].fresh /\ poll'[s].at = "none"
<1>1. ASSUME LiveInv, LiveNext, NEW f \in Flight, Back(f) PROVE Late
  <2>1. CASE \E s \in Slot : Answer(s)
    <3>1. PICK s \in Slot : Answer(s)
      BY <2>1
    <3>2. poll'[s].at = "none" /\ poll[s].at = "read"
      BY <3>1 DEF Answer, Listed, NoPoll, Poll
    <3>3. ~poll[s].fresh
      BY <1>1, <3>1, FreshNeverBack
    <3> QED BY <3>2, <3>3
  <2>2. CASE ~\E s \in Slot : Answer(s)
    <3>1. shown' = shown
      BY <1>1, <2>2 DEF LiveNext, Serve, Write, Begin, Scan, HGetAll, PollError
    <3>2. writes \in Nat /\ \A h \in shown : h[2] \in 1..writes
      BY <1>1 DEF LiveInv, LiveTypeOK, ValuesOK, NotAhead
    <3>3. Newest(shown, f) \in Nat
      BY <3>2, NewestIs
    <3>4. Newest(shown', f) = Newest(shown, f)
      BY <3>1
    <3> QED BY <1>1, <3>3, <3>4
  <2> QED BY <2>1, <2>2
<1>2. LiveInv /\ [LiveNext]_mapVars => [\A f \in Flight : Back(f) => Late]_mapVars
  <2> HIDE DEF Back, Late
  <2> QED BY <1>1
<1>3. LiveSpec => [][\A f \in Flight : Back(f) => Late]_mapVars
  BY <1>2, LiveInvHolds, PTL DEF LiveSpec
<1> QED BY <1>3 DEF BackOnlyByOverlap

-----------------------------------------------------------------------------
(* flight.Parse.                                                           *)

\* The text after the seconds is a number.
LEMMA TextIs ==
  ASSUME NEW t \in TimeType
  PROVE  /\ t.sec \in Nat /\ t.fraction \in 0..99
         /\ \/ t.digits = 0 /\ t.fraction = 0 /\ Text(t) = 110
            \/ t.digits = 1 /\ t.fraction % 10 = 0 /\ Text(t) = 11 * (t.fraction \div 10) + 10
            \/ t.digits = 2 /\ Text(t) = 11 * (t.fraction \div 10) + (t.fraction % 10)
         /\ Text(t) \in Nat
<1>1. t.sec \in Nat /\ t.digits \in 0..2 /\ t.fraction \in 0..99
      /\ (t.digits = 0 => t.fraction = 0) /\ (t.digits = 1 => t.fraction % 10 = 0)
  BY DEF TimeType
<1>2. t.fraction \div 10 \in 0..9 /\ t.fraction % 10 \in 0..9
  BY <1>1
<1>3. CASE t.digits = 0
  BY <1>1, <1>3 DEF Text
<1>4. CASE t.digits = 1
  BY <1>1, <1>2, <1>4 DEF Text
<1>5. CASE t.digits = 2
  BY <1>1, <1>2, <1>5 DEF Text
<1> QED BY <1>1, <1>3, <1>4, <1>5

\* Comparing times as strings orders them in a line.
LEMMA EarlierOrders ==
  ASSUME NEW r \in TimeType, NEW s \in TimeType, NEW t \in TimeType
  PROVE  /\ ~Earlier(s, s)
         /\ Earlier(s, t) => ~Earlier(t, s) /\ s # t
         /\ ~Earlier(r, s) /\ ~Earlier(s, t) => ~Earlier(r, t)
<1>1. \A u \in {r, s, t} : u.sec \in Nat /\ Text(u) \in Nat
  BY TextIs
<1> QED BY <1>1 DEF Earlier

\* It orders them as the clock does, but for fractions of different length.
LEMMA EarlierIsEarlier ==
  ASSUME NEW s \in TimeType, NEW t \in TimeType, ~Earlier(s, t)
  PROVE  \/ Moment(t) <= Moment(s)
         \/ t.sec = s.sec /\ t.digits # s.digits
<1>1. /\ s.sec \in Nat /\ t.sec \in Nat /\ s.fraction \in 0..99 /\ t.fraction \in 0..99
      /\ Text(s) \in Nat /\ Text(t) \in Nat
  BY TextIs
<1>2. t.sec < s.sec \/ (t.sec = s.sec /\ Text(t) <= Text(s))
  BY <1>1 DEF Earlier
<1>3. CASE t.sec < s.sec
  <2>1. \A a, b \in Nat, c, d \in 0..99 : a < b => 100 * a + c <= 100 * b + d
    OBVIOUS
  <2>2. 100 * t.sec + t.fraction <= 100 * s.sec + s.fraction
    BY <1>1, <1>3, <2>1
  <2> QED BY <2>2 DEF Moment
<1>4. CASE t.sec = s.sec /\ Text(t) <= Text(s) /\ t.digits = s.digits
  <2>1. t.fraction <= s.fraction
    <3> DEFINE x == s.fraction \div 10
               y == t.fraction \div 10
               v == s.fraction % 10
               w == t.fraction % 10
    <3>1. /\ x \in 0..9 /\ y \in 0..9 /\ v \in 0..9 /\ w \in 0..9
          /\ s.fraction = 10 * x + v /\ t.fraction = 10 * y + w
      BY <1>1
    <3>2. \/ s.fraction = 0 /\ t.fraction = 0
          \/ v = 0 /\ w = 0 /\ 11 * y + 10 <= 11 * x + 10
          \/ 11 * y + w <= 11 * x + v
      BY <1>4, TextIs
    <3> HIDE DEF x, y, v, w
    <3> QED BY <3>1, <3>2
  <2>2. \A a \in Nat, c, d \in 0..99 : c <= d => 100 * a + c <= 100 * a + d
    OBVIOUS
  <2>3. 100 * t.sec + t.fraction <= 100 * s.sec + s.fraction
    BY <1>1, <1>4, <2>1, <2>2
  <2> QED BY <2>3 DEF Moment
<1>5. CASE t.sec = s.sec /\ t.digits # s.digits
  BY <1>5
<1> QED BY <1>2, <1>3, <1>4, <1>5, Zenon

\* What the feed gives.
LEMMA PositionFields ==
  ASSUME NEW p \in Position
  PROVE  p.time \in TimeType /\ p # None /\ (p.track # None => p.track \in Angle)
  BY ParseAssumption DEF PositionType

\* The list of positions and the one to examine.
LEMMA ExamineLoop == ASSUME ParseInv, Examine PROVE ParseInv'
<1> DEFINE n == next
           p == message[n]
           Best(b, S) == IF S = {} THEN b = None
                         ELSE \E i \in S : /\ b = message[i]
                                           /\ \A j \in S : /\ ~Earlier(message[i].time, message[j].time)
                                                           /\ j > i => message[j].time # message[i].time
<1>1. /\ message' = message /\ message \in Seq(Position) /\ n \in 1..Len(message) /\ next' = n + 1
      /\ best' = IF ~ParsePos(p) \/ Keeps(p) THEN best ELSE p
  BY DEF ParseInv, Examine
<1>2. Examined \subseteq 1..(n - 1) /\ n \notin Examined
  BY <1>1 DEF Examined, Parsable
<1>3. Examined' = IF ParsePos(p) THEN Examined \cup {n} ELSE Examined
  <2>1. Parsable' = Parsable /\ DOMAIN message = 1..Len(message) /\ Parsable \subseteq 1..Len(message)
    BY <1>1 DEF Parsable
  <2>2. n \in Parsable <=> ParsePos(p)
    BY <1>1, <2>1 DEF Parsable
  <2>3. Examined' = {i \in Parsable : i < n + 1}
    BY <1>1, <2>1 DEF Examined
  <2>4. \A i \in Parsable : i < n + 1 <=> i < n \/ i = n
    BY <1>1, <2>1
  <2> HIDE DEF n
  <2>5. \A i : i \in Examined' <=> i \in Examined \/ (i = n /\ n \in Parsable)
    BY ONLY <2>3, <2>4 DEF Examined, n
  <2>6. \A i : i \in Examined' <=> i \in Examined \/ (i = n /\ ParsePos(p))
    BY <2>2, <2>5, Zenon
  <2> HIDE DEF p
  <2> QED BY <2>6
<1>4. \A i \in Examined \cup {n} : i \in 1..n /\ message[i] \in Position /\ message[i].time \in TimeType
                                  /\ message[i] # None
  <2> SUFFICES ASSUME NEW i \in Examined \cup {n}
               PROVE  i \in 1..n /\ message[i] \in Position /\ message[i].time \in TimeType
                      /\ message[i] # None
    OBVIOUS
  <2>1. i \in 1..n /\ i \in 1..Len(message)
    BY <1>1, <1>2
  <2>2. message[i] \in Position
    BY <1>1, <2>1
  <2> QED BY <2>1, <2>2, PositionFields
<1>5. Best(best, Examined)
  BY DEF ParseInv
<1>6. Best(best', Examined')
  <2>1. CASE ~ParsePos(p)
    BY <1>1, <1>3, <1>5, <2>1
  <2>2. CASE ParsePos(p) /\ best = None
    <3>1. Examined = {}
      BY <1>4, <1>5, <2>2
    <3>2. best' = p /\ Examined' = {n}
      BY <1>1, <1>3, <2>2, <3>1 DEF Keeps
    <3>3. ~Earlier(p.time, p.time) /\ n \in Nat
      BY <1>1, <1>4, EarlierOrders
    <3> QED BY <3>2, <3>3
  <2>3. CASE ParsePos(p) /\ best # None
    <3>1. PICK i \in Examined :
              /\ best = message[i]
              /\ \A j \in Examined : /\ ~Earlier(message[i].time, message[j].time)
                                     /\ j > i => message[j].time # message[i].time
      BY <1>5, <2>3
    <3>2. Examined' = Examined \cup {n}
      BY <1>3, <2>3
    <3>3. CASE Earlier(p.time, best.time)
      <4>1. best' = message[i]
        BY <1>1, <2>3, <3>1, <3>3 DEF Keeps
      <4>2. ~Earlier(message[i].time, p.time) /\ p.time # message[i].time
        BY <1>4, <3>1, <3>3, EarlierOrders
      <4>3. \A j \in Examined' : /\ ~Earlier(message[i].time, message[j].time)
                                 /\ j > i => message[j].time # message[i].time
        BY <3>1, <3>2, <4>2
      <4> QED BY <3>2, <4>1, <4>3
    <3>4. CASE ~Earlier(p.time, best.time)
      <4>1. best' = message[n]
        BY <1>1, <2>3, <3>4 DEF Keeps
      <4>2. ASSUME NEW j \in Examined' PROVE ~Earlier(message[n].time, message[j].time) /\ ~(j > n)
        <5>1. CASE j = n
          BY <1>4, <5>1, EarlierOrders
        <5>2. CASE j \in Examined
          <6>1. ~Earlier(message[i].time, message[j].time) /\ ~Earlier(message[n].time, message[i].time)
            BY <3>1, <3>4, <5>2
          <6>2. j \in 1..n
            BY <1>4, <5>2
          <6> QED BY <1>1, <1>4, <5>2, <6>1, <6>2, EarlierOrders
        <5> QED BY <3>2, <5>1, <5>2
      <4> QED BY <3>2, <4>1, <4>2
    <3> QED BY <3>3, <3>4
  <2> QED BY <2>1, <2>2, <2>3
<1>7. next' \in 0..(Len(message') + 1)
  BY <1>1
<1> HIDE DEF n, p
<1> QED BY <1>1, <1>6, <1>7 DEF ParseInv

LEMMA EmptyLoop ==
  ASSUME message' \in Seq(Position), next' \in 0..1, best' = None
  PROVE  ParseInv'
<1>1. Parsable' \subseteq 1..Len(message') /\ Len(message') \in Nat
  BY DEF Parsable
<1>2. ASSUME NEW i \in Parsable' PROVE ~(i < next')
  BY <1>1
<1>3. Examined' = {}
  BY <1>2 DEF Examined
<1> QED BY <1>1, <1>3 DEF ParseInv

LEMMA ParseInitInv == ParseInit => ParseInv
<1> SUFFICES ASSUME ParseInit PROVE ParseInv
  OBVIOUS
<1>1. message = <<>> /\ next = 0 /\ best = None
  BY DEF ParseInit
<1>2. Examined = {} /\ message \in Seq(Position) /\ Len(message) = 0
  BY <1>1 DEF Examined, Parsable
<1> QED BY <1>1, <1>2 DEF ParseInv

LEMMA ParseStep == ParseInv /\ [ParseNext]_parseVars => ParseInv'
<1> SUFFICES ASSUME ParseInv, [ParseNext]_parseVars PROVE ParseInv'
  OBVIOUS
<1>1. ASSUME NEW m \in BoundedSeq(Position, MaxPositions), Unmarshal(m) PROVE ParseInv'
  <2>1. m \in Seq(Position)
    BY DEF BoundedSeq, SeqOf
  <2> QED BY <1>1, <2>1, EmptyLoop DEF Unmarshal
<1>2. CASE Examine
  BY <1>2, ExamineLoop
<1>3. CASE Return
  <2>1. <<>> \in Seq(Position)
    OBVIOUS
  <2> QED BY <1>3, <2>1, EmptyLoop DEF Return
<1>4. CASE UNCHANGED parseVars
  BY <1>4 DEF parseVars, ParseInv, Examined, Parsable, ParsePos, Earlier
<1> QED BY <1>1, <1>2, <1>3, <1>4 DEF ParseNext

\* The invariant of the loop holds in every reachable state.
THEOREM ParseInvHolds == ParseSpec => []ParseInv
<1> QED BY ParseInitInv, ParseStep, PTL DEF ParseSpec

\* Of any list of positions, Parse keeps one that parses, whole: none that parses is of a
\* later moment, but within the same second with a fraction of another length, and none
\* of the same time comes after it.
THEOREM BestIsLatestHolds == ParseSpec => []BestIsLatest
<1>1. ParseInv => BestIsLatest
  <2> SUFFICES ASSUME ParseInv, Looped, Parsable # {}
               PROVE  \E i \in Parsable :
                        /\ best = message[i]
                        /\ \A j \in Parsable :
                              LET s == message[i].time
                                  t == message[j].time
                              IN  /\ \/ Moment(t) <= Moment(s)
                                     \/ t.sec = s.sec /\ t.digits # s.digits
                                  /\ j > i => t # s
    <3>1. ParseInv /\ Looped /\ Parsable = {} => best = None
      BY DEF ParseInv, Examined
    <3> QED BY <3>1 DEF BestIsLatest
  <2>1. message \in Seq(Position) /\ next = Len(message) + 1
    BY DEF ParseInv, Looped
  <2>2. Examined = Parsable /\ \A i \in Parsable : message[i] \in Position
    BY <2>1 DEF Examined, Parsable
  <2>3. ASSUME NEW i \in Parsable PROVE message[i].time \in TimeType
    BY <2>2, PositionFields
  <2>4. PICK i \in Parsable :
          /\ best = message[i]
          /\ \A j \in Parsable : /\ ~Earlier(message[i].time, message[j].time)
                                 /\ j > i => message[j].time # message[i].time
    BY <2>2 DEF ParseInv
  <2>5. ASSUME NEW j \in Parsable
        PROVE  LET s == message[i].time
                   t == message[j].time
               IN  /\ \/ Moment(t) <= Moment(s)
                      \/ t.sec = s.sec /\ t.digits # s.digits
                   /\ j > i => t # s
    BY <2>3, <2>4, EarlierIsEarlier
  <2> QED BY <2>4, <2>5
<1> QED BY <1>1, ParseInvHolds, PTL

\* Rounding and the turn by 360 degrees, as arithmetic.
LEMMA Tenths ==
  ASSUME NEW d \in Int, d >= 0, d <= 35999, NEW h, h = (d + 5) \div 10
  PROVE  h \in 0..3600 /\ 10 * h - d >= -4 /\ 10 * h - d <= 5
<1>1. h \in Int /\ 10 * h <= d + 5 /\ d + 5 < 10 * h + 10
  OBVIOUS
<1>2. h <= 3600
  BY ONLY <1>1, d \in Int, d <= 35999
<1>3. h >= 0
  BY ONLY <1>1, d \in Int, d >= 0
<1>4. 10 * h - d >= -4 /\ 10 * h - d <= 5
  BY ONLY <1>1, d \in Int
<1> QED BY ONLY <1>1, <1>2, <1>3, <1>4

LEMMA Turned ==
  ASSUME NEW t \in Int, NEW h \in Int, NEW d \in Int, d = t \/ d = t + 36000, 10 * h - d >= -4, 10 * h - d <= 5
  PROVE  (10 * h - t + 36005) % 36000 <= 10
<1>2. \A x \in 36001..36010 : x % 36000 <= 10
    OBVIOUS
<1>3. \A x \in 72001..72010 : x % 36000 <= 10
    OBVIOUS
<1> DEFINE y == 10 * h - t + 36005
<1>4. y \in 36001..36010 \/ y \in 72001..72010
  OBVIOUS
<1> HIDE DEF y
<1>5. y % 36000 <= 10
  BY ONLY <1>2, <1>3, <1>4
<1> QED BY <1>5 DEF y

LEMMA HeadingArithmetic ==
  ASSUME NEW t \in Angle, NEW h, h = ((IF t < 0 THEN t + 36000 ELSE t) + 5) \div 10
  PROVE  h \in 0..3600 /\ (10 * h - t + 36005) % 36000 <= 10
<1> DEFINE d == IF t < 0 THEN t + 36000 ELSE t
<1>1. t \in Int /\ t >= -18000 /\ t <= 18000
  BY ONLY t \in Angle DEF Angle
<1>2. (t < 0 => d = t + 36000) /\ (~(t < 0) => d = t) /\ h = (d + 5) \div 10
  OBVIOUS
<1> HIDE DEF d
<1>3. d \in Int /\ (d = t \/ d = t + 36000)
  BY ONLY <1>1, <1>2
<1>4. d >= 0
  BY ONLY <1>1, <1>2
<1>5. d <= 35999
  BY ONLY <1>1, <1>2
<1>6. h \in 0..3600 /\ 10 * h - d >= -4 /\ 10 * h - d <= 5
  BY ONLY <1>2, <1>3, <1>4, <1>5, Tenths
<1>7. h \in Int
  BY ONLY <1>6
<1> QED BY ONLY <1>1, <1>3, <1>6, <1>7, Turned

\* For every velocity, the heading is its direction to half a tenth of a degree.
THEOREM HeadingIsDirectionHolds == ParseSpec => []HeadingIsDirection
<1>1. ParseInv => HeadingIsDirection
  <2> SUFFICES ASSUME ParseInv, Looped, best # None, Heading(best) # None
               PROVE  /\ Heading(best) \in 0..3600
                      /\ (10 * Heading(best) - best.track + 36005) % 36000 <= 10
    BY DEF HeadingIsDirection
  <2>1. best \in Position
    BY DEF ParseInv, ParseInv, Examined, Parsable
  <2>2. best.track # None
    BY DEF Heading
  <2>3. best.track \in Angle
    BY <2>1, <2>2, PositionFields
  <2>4. Heading(best) = ((IF best.track < 0 THEN best.track + 36000 ELSE best.track) + 5) \div 10
    BY <2>2 DEF Heading
  <2> DEFINE t == best.track
             h == Heading(best)
  <2>5. t \in Angle /\ h = ((IF t < 0 THEN t + 36000 ELSE t) + 5) \div 10
    BY <2>3, <2>4
  <2> HIDE DEF t, h
  <2>6. h \in 0..3600 /\ (10 * h - t + 36005) % 36000 <= 10
    BY ONLY <2>5, HeadingArithmetic
  <2> QED BY ONLY <2>6 DEF t, h
<1> QED BY <1>1, ParseInvHolds, PTL

=============================================================================
