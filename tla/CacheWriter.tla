---------------------------- MODULE CacheWriter ----------------------------
(***************************************************************************)
(* The cache-writer: a sequential loop that fetches a flight, upserts it   *)
(* in Redis (active, with a position), deletes it (not active), skips it   *)
(* (no position) or dead-letters it (does not parse), and then commits.  A *)
(* step that fails is logged and the loop goes on to the next message.     *)
(*                                                                         *)
(* The topic has one partition; offsets count from 1, and committed = 0    *)
(* means that the group has no offset, in which case the reader starts at  *)
(* the end of the topic (StartOffset: LastOffset).  Kafka and Redis are    *)
(* external: a call that returns an error may have taken effect.           *)
(***************************************************************************)
EXTENDS Integers, Sequences

CONSTANTS
    Msg,          \* what a message can be
    Poison,       \* messages flight.Parse rejects
    Gufi,         \* Redis keys
    GufiOf,       \* Msg -> Gufi
    Active,       \* messages whose status is ACTIVE
    HasPosition,  \* messages with a position that parses
    HasHeading,   \* messages whose position has a velocity other than zero
    MaxLog,       \* bound: messages in the topic
    MaxFaults     \* bound: crashes, rebalances and signals

ASSUME CacheWriterAssumption ==
    /\ Poison \subseteq Msg /\ Active \subseteq Msg
    /\ HasPosition \subseteq Msg /\ HasHeading \subseteq Msg
    /\ GufiOf \in [Msg -> Gufi]
    /\ MaxLog \in Nat /\ MaxFaults \in Nat

VARIABLES
    log,         \* the filtered topic
    committed,   \* the group's committed offset, 0: none
    pos,         \* the reader's position: offset of the last message fetched
    cur,         \* offset of the message in hand, 0: none
    pc,          \* where Run is
    stopping,    \* ctx is cancelled
    cache,       \* the Redis hash of each flight
    dead,        \* offsets in the dead-letter topic
    done,        \* history: offsets whose processing once ended without error
    missed,      \* history: offsets whose processing once ended with an error
    skipped,     \* history: offsets a start at the end of the topic passed over
    wrote,       \* history: per key, the offset of the last write in Redis
    rebalanced,  \* history: the group has rebalanced
    faults       \* crashes, rebalances and signals so far

redisVars == <<cache, wrote>>
groupVars == <<skipped, rebalanced, faults>>
cacheVars == <<log, committed, pos, cur, pc, stopping, redisVars, dead, done,
               missed, groupVars>>

Offsets == 1..Len(log)
\* A hash: the message its position is from (0: the key is not there), and the one
\* its heading and speed are from (0: it has none).
Absent == [position |-> 0, heading |-> 0]

ReaderOK ==
    /\ log \in Seq(Msg)
    /\ committed \in 0..Len(log) /\ pos \in 0..Len(log) /\ cur \in 0..Len(log)
    /\ pc \in {"fetch", "work", "commit", "down"}
    /\ dead \subseteq Offsets /\ done \subseteq Offsets
    /\ missed \subseteq Offsets /\ skipped \subseteq Offsets
    /\ faults \in 0..MaxFaults

CacheTypeOK ==
    /\ ReaderOK
    /\ stopping \in BOOLEAN /\ rebalanced \in BOOLEAN
    /\ cache \in [Gufi -> [position : 0..Len(log), heading : 0..Len(log)]]
    /\ wrote \in [Gufi -> 0..Len(log)]

CacheInit ==
    /\ log = <<>> /\ committed = 0 /\ pos = 0 /\ cur = 0
    /\ pc = "fetch" /\ stopping = FALSE
    /\ cache = [g \in Gufi |-> Absent] /\ wrote = [g \in Gufi |-> 0]
    /\ dead = {} /\ done = {} /\ missed = {} /\ skipped = {}
    /\ rebalanced = FALSE /\ faults = 0

-----------------------------------------------------------------------------
Arrive(m) ==
    /\ Len(log) < MaxLog
    /\ log' = Append(log, m)
    /\ UNCHANGED <<committed, pos, cur, pc, stopping, redisVars, dead, done,
                   missed, groupVars>>

(* Run                                                                     *)

\* Fetch returns the next message.
Fetch ==
    /\ pc = "fetch"
    /\ pos < Len(log)
    /\ pos' = pos + 1 /\ cur' = pos + 1
    /\ pc' = "work"
    /\ UNCHANGED <<log, committed, stopping, redisVars, dead, done, missed,
                   groupVars>>

\* Fetch fails: Run returns if ctx is cancelled, else fetches again.
FetchError ==
    /\ pc = "fetch"
    /\ pc' = IF stopping THEN "down" ELSE "fetch"
    /\ UNCHANGED <<log, committed, pos, cur, stopping, redisVars, dead, done,
                   missed, groupVars>>

-----------------------------------------------------------------------------
(* process                                                                 *)
Held == log[cur]
Key == GufiOf[Held]

\* process goes on to the commit, or returns with the error logged.
Settle(ok) ==
    /\ pc = "work"
    /\ pc' = IF ok THEN "commit" ELSE "fetch"
    /\ cur' = IF ok THEN cur ELSE 0
    /\ done' = IF ok THEN done \cup {cur} ELSE done
    /\ missed' = IF ok THEN missed ELSE missed \cup {cur}
    /\ UNCHANGED <<log, committed, pos, stopping, groupVars>>

\* Parse fails: dead-letter.
DeadLetter(ok, written) ==
    /\ Held \in Poison
    /\ ok => written
    /\ Settle(ok)
    /\ dead' = IF written THEN dead \cup {cur} ELSE dead
    /\ UNCHANGED redisVars

\* Active without a position: nothing to store.
NoPosition ==
    /\ Held \in (Active \ Poison) \ HasPosition
    /\ Settle(TRUE)
    /\ UNCHANGED <<redisVars, dead>>

\* DEL of the flight's key.
Delete == cache' = [cache EXCEPT ![Key] = Absent]
          /\ wrote' = [wrote EXCEPT ![Key] = cur]

\* Mutant: HSETNX, which leaves a heading that is there.
UpsertNX ==
    /\ cache' = [cache EXCEPT ![Key] = [position |-> cur,
           heading |-> IF Held \in HasHeading /\ @.heading = 0 THEN cur ELSE @.heading]]
    /\ wrote' = [wrote EXCEPT ![Key] = cur]

\* HSET of the fields, and EXPIRE of the key in the same transaction.  Heading and
\* speed are among the fields only when the update has them: else they stay.
Upsert ==
    /\ cache' = [cache EXCEPT ![Key] = [position |-> cur,
           heading |-> IF Held \in HasHeading THEN cur ELSE @.heading]]
    /\ wrote' = [wrote EXCEPT ![Key] = cur]

\* Mutant: the error of DEL is not looked at.
DeleteFlightIgnoresError(ok, applied) ==
    /\ Held \notin Poison \cup Active
    /\ Settle(TRUE)
    /\ IF applied THEN Delete ELSE UNCHANGED redisVars
    /\ UNCHANGED dead

\* Not active: DeleteFlight.
DeleteFlight(ok, applied) ==
    /\ Held \notin Poison \cup Active
    /\ ok => applied
    /\ Settle(ok)
    /\ IF applied THEN Delete ELSE UNCHANGED redisVars
    /\ UNCHANGED dead

\* Active with a position: UpsertFlight.
UpsertFlight(ok, applied) ==
    /\ Held \in (Active \ Poison) \cap HasPosition
    /\ ok => applied
    /\ Settle(ok)
    /\ IF applied THEN Upsert ELSE UNCHANGED redisVars
    /\ UNCHANGED dead

Process ==
    /\ pc = "work"
    /\ \/ NoPosition
       \/ \E ok, applied \in BOOLEAN :
              DeadLetter(ok, applied) \/ DeleteFlight(ok, applied)
              \/ UpsertFlight(ok, applied)

\* Mutant: the offset after the message, which the client adds 1 to again.
CommitOneTooFar(stored) ==
    /\ pc = "commit"
    /\ committed' = IF stored THEN cur + 1 ELSE committed
    /\ cur' = 0
    /\ pc' = "fetch"
    /\ UNCHANGED <<log, pos, stopping, redisVars, dead, done, missed, groupVars>>

\* commit: an error is only logged.
Commit(stored) ==
    /\ pc = "commit"
    /\ committed' = IF stored THEN cur ELSE committed
    /\ cur' = 0
    /\ pc' = "fetch"
    /\ UNCHANGED <<log, pos, stopping, redisVars, dead, done, missed, groupVars>>

-----------------------------------------------------------------------------
(* Redis, the process and the group                                        *)

\* FLIGHT_TTL passes without an upsert of the flight.
Expire(g) ==
    /\ cache[g] # Absent
    /\ cache' = [cache EXCEPT ![g] = Absent]
    /\ UNCHANGED <<log, committed, pos, cur, pc, stopping, dead, done, missed,
                   wrote, groupVars>>

Fault == faults < MaxFaults /\ faults' = faults + 1

Signal ==
    /\ Fault
    /\ pc # "down" /\ ~stopping
    /\ stopping' = TRUE
    /\ UNCHANGED <<log, committed, pos, cur, pc, redisVars, dead, done, missed,
                   skipped, rebalanced>>

\* The process is killed; a write in flight may still take effect.
Crash ==
    /\ Fault
    /\ pc # "down"
    /\ pc' = "down" /\ cur' = 0 /\ pos' = 0
    /\ \/ UNCHANGED <<redisVars, dead>>
       \/ /\ pc = "work"
          /\ \/ Held \in Poison /\ dead' = dead \cup {cur} /\ UNCHANGED redisVars
             \/ Held \notin Poison \cup Active /\ Delete /\ UNCHANGED dead
             \/ Held \in (Active \ Poison) \cap HasPosition /\ Upsert /\ UNCHANGED dead
    /\ UNCHANGED <<log, committed, stopping, done, missed, skipped, rebalanced>>

\* Mutant: every start is at the end of the topic.
ResumeAtEnd ==
    /\ pos' = Len(log)
    /\ skipped' = IF committed = 0 THEN Offsets ELSE skipped

\* Where the reader of a new process or generation starts.
Resume ==
    /\ pos' = IF committed = 0 THEN Len(log) ELSE committed
    /\ skipped' = IF committed = 0 THEN Offsets ELSE skipped

Start ==
    /\ pc = "down"
    /\ Resume
    /\ pc' = "fetch" /\ cur' = 0 /\ stopping' = FALSE
    /\ UNCHANGED <<log, committed, redisVars, dead, done, missed, rebalanced, faults>>

Rebalance ==
    /\ Fault
    /\ pc # "down"
    /\ Resume
    /\ rebalanced' = TRUE
    /\ UNCHANGED <<log, committed, cur, pc, stopping, redisVars, dead, done, missed>>

-----------------------------------------------------------------------------
Lifecycle == Signal \/ Crash \/ Start \/ Rebalance

CacheNext ==
    \/ \E m \in Msg : Arrive(m)
    \/ Fetch \/ FetchError \/ Process
    \/ \E stored \in BOOLEAN : Commit(stored)
    \/ \E g \in Gufi : Expire(g)
    \/ Lifecycle

CacheSpec == CacheInit /\ [][CacheNext]_cacheVars

-----------------------------------------------------------------------------
(* Properties                                                              *)

Settled == done \cup missed \cup skipped
Writes(o, g) == GufiOf[log[o]] = g /\ log[o] \notin Poison
                /\ (log[o] \in Active => log[o] \in HasPosition)

\* No silent loss: the group's offset covers a message only if its processing
\* ended, or it was in the topic when the group, without an offset, joined.
NoSilentLoss == 1..committed \subseteq Settled

\* The cache-writer keeps the contract of a pipeline stage, message by message; it
\* starts at the end of the topic when the group has no offset.
Contract == INSTANCE StageContract WITH n <- Len(log)
ImplementsContract == Contract!ContractSpec

\* A key is as new as the reader: a message of the flight that was read after
\* the last write of its key has failed, with the error logged, or is in
\* hand.  So replays after a crash never leave an old state in the cache.
\* (A rebalance can: it may move the reader past a replayed message in hand.)
KeyFollowsReader ==
    ~rebalanced =>
        \A g \in Gufi : \A o \in (wrote[g] + 1)..pos :
            Writes(o, g) /\ o # cur => o \in missed \cup skipped

\* A hash may be of two updates: its heading stays when an update brings none.  It
\* is never an outdated one: after the update the heading is from, up to the one the
\* position is from, the flight neither sent another heading nor ended, except in
\* messages whose processing failed.  And a heading that is ahead of the position,
\* as a replay leaves it, is one that is still to be read again, or has failed to be.
HeadingIsLastGiven ==
    ~rebalanced =>
        \A g \in Gufi : LET h == cache[g].heading
                            p == cache[g].position
                        IN  h # 0 =>
            /\ \A o \in (h + 1)..p :
                  Writes(o, g) /\ (log[o] \in Active => log[o] \in HasHeading)
                  => o \in missed \cup skipped
            /\ h > p => h > pos \/ h = cur \/ h \in missed

\* The inductive invariant behind NoSilentLoss.
ReadCovered == \A o \in 1..pos : o \in Settled \/ o = cur
HandCovered == \A o \in 1..cur : o \in Settled \/ o = cur
HandShape ==
    /\ pc \in {"work", "commit"} <=> cur # 0
    /\ pc = "commit" => cur \in Settled
CacheInv == ReaderOK /\ NoSilentLoss /\ ReadCovered /\ HandCovered /\ HandShape
=============================================================================
