------------------------------ MODULE Migrate -------------------------------
(***************************************************************************)
(* migrate.Run, called by every database-writer that starts: under a       *)
(* session-level advisory lock it reads the newest version that is applied *)
(* and applies the later ones that its binary has.  A script and the row   *)
(* that records it are one simple query, hence one transaction.            *)
(***************************************************************************)
EXTENDS Naturals, Sequences, FiniteSets, FiniteSetsExt

CONSTANTS
    Writer,         \* writers that start, of one release or of two in a rollout
    Has,            \* the versions a writer's binary has
    Nobody, Ghost,  \* holders of the lock: nobody; the session of a dead writer
    MaxDeaths       \* bound: deaths and failed statements

Version == UNION {Has[w] : w \in Writer}

\* Releases only append migrations.
ASSUME MigrateAssumption ==
    /\ Has \in [Writer -> SUBSET (Nat \ {0})]
    /\ \A w \in Writer : \A v \in Has[w] : \A u \in Version : u < v => u \in Has[w]
    /\ Nobody \notin Writer /\ Ghost \notin Writer /\ Nobody # Ghost
    /\ MaxDeaths \in Nat

VARIABLES
    at,         \* per writer: where Run is
    current,    \* per writer: the version read, then the last one applied
    lock,       \* who holds the advisory lock
    ghost,      \* the version whose script a dead writer had sent, 0 for none
    table,      \* schema_migrations exists
    applied,    \* the versions applied, in order
    deaths

migrateVars == <<at, current, lock, ghost, table, applied, deaths>>

MigrateInit ==
    /\ at = [w \in Writer |-> "down"] /\ current = [w \in Writer |-> 0]
    /\ lock = Nobody /\ ghost = 0
    /\ table = FALSE /\ applied = <<>> /\ deaths = 0

MigrateTypeOK ==
    /\ at \in [Writer -> {"down", "lock", "ensure", "read", "apply", "ready"}]
    /\ current \in [Writer -> {0} \cup Version]
    /\ lock \in Writer \cup {Nobody, Ghost} /\ ghost \in {0} \cup Version
    /\ table \in BOOLEAN /\ applied \in Seq(Version) /\ deaths \in 0..MaxDeaths

Done(v) == \E i \in DOMAIN applied : applied[i] = v
To(w, place) == at' = [at EXCEPT ![w] = place]

\* What this writer applies next: load sorts by version, older ones are skipped.
Left(w) == {v \in Has[w] : v > current[w]}

\* The writer starts, loads its scripts and acquires a connection.
Begin(w) ==
    /\ at[w] = "down"
    /\ To(w, "lock")
    /\ UNCHANGED <<current, lock, ghost, table, applied, deaths>>

\* pg_advisory_lock blocks until the lock is free.
Lock(w) ==
    /\ at[w] = "lock" /\ lock = Nobody
    /\ lock' = w
    /\ To(w, "ensure")
    /\ UNCHANGED <<current, ghost, table, applied, deaths>>

\* CREATE TABLE IF NOT EXISTS schema_migrations
Ensure(w) ==
    /\ at[w] = "ensure"
    /\ table' = TRUE
    /\ To(w, "read")
    /\ UNCHANGED <<current, lock, ghost, applied, deaths>>

\* Mutant: the first row read stands for the newest.
ReadFirstRow(w) ==
    /\ at[w] = "read"
    /\ current' = [current EXCEPT ![w] = IF applied = <<>> THEN 0 ELSE applied[1]]
    /\ To(w, "apply")
    /\ UNCHANGED <<lock, ghost, table, applied, deaths>>

\* SELECT COALESCE(max(version), 0)
ReadCurrent(w) ==
    /\ at[w] = "read"
    /\ current' = [current EXCEPT ![w] = Max({0} \cup {v \in Version : Done(v)})]
    /\ To(w, "apply")
    /\ UNCHANGED <<lock, ghost, table, applied, deaths>>

\* One script with its row.  The row's primary key makes a second run fail.
Apply(w) ==
    /\ at[w] = "apply" /\ Left(w) # {}
    /\ LET v == Min(Left(w))
       IN  /\ applied' = Append(applied, v)
           /\ current' = [current EXCEPT ![w] = v]
    /\ UNCHANGED <<at, lock, ghost, table, deaths>>

Release(w) == IF lock = w THEN Nobody ELSE lock

\* Mutant: the connection goes back to the pool with the lock.
ReturnLocked(w) ==
    /\ at[w] = "apply" /\ Left(w) = {}
    /\ To(w, "ready")
    /\ UNCHANGED <<current, lock, ghost, table, applied, deaths>>

\* Run returns; the deferred unlock runs, and the writer starts its pipeline.
Return(w) ==
    /\ at[w] = "apply" /\ Left(w) = {}
    /\ lock' = Release(w)
    /\ To(w, "ready")
    /\ UNCHANGED <<current, ghost, table, applied, deaths>>

\* A statement fails (for a script: carried out or not), Run unlocks and returns the
\* error, and main exits.
Fail(w) ==
    /\ deaths < MaxDeaths /\ at[w] \in {"lock", "ensure", "read", "apply"}
    /\ \/ UNCHANGED applied
       \/ /\ at[w] = "apply" /\ Left(w) # {}
          /\ applied' = Append(applied, Min(Left(w)))
    /\ lock' = Release(w)
    /\ To(w, "down") /\ current' = [current EXCEPT ![w] = 0]
    /\ deaths' = deaths + 1
    /\ UNCHANGED <<ghost, table>>

\* The writer dies.  Postgres keeps the session, its lock and the script it was
\* sent until it notices.
Die(w) ==
    /\ deaths < MaxDeaths /\ at[w] # "down"
    /\ IF lock = w
       THEN /\ lock' = Ghost
            /\ \/ ghost' = 0
               \/ at[w] = "apply" /\ Left(w) # {} /\ ghost' = Min(Left(w))
       ELSE UNCHANGED <<lock, ghost>>
    /\ To(w, "down") /\ current' = [current EXCEPT ![w] = 0]
    /\ deaths' = deaths + 1
    /\ UNCHANGED <<table, applied>>

\* Postgres ends the session of the dead writer: the script runs to its end first,
\* and the lock is free.
EndSession ==
    /\ lock = Ghost
    /\ applied' = IF ghost = 0 THEN applied ELSE Append(applied, ghost)
    /\ lock' = Nobody /\ ghost' = 0
    /\ UNCHANGED <<at, current, table, deaths>>

Run(w) ==
    Begin(w) \/ Lock(w) \/ Ensure(w) \/ ReadCurrent(w) \/ Apply(w) \/ Return(w)

MigrateNext ==
    \/ \E w \in Writer : Run(w) \/ Fail(w) \/ Die(w)
    \/ EndSession

\* Kubernetes starts the writers, Postgres answers, gives the lock to one that waits, and
\* ends dead sessions.
MigrateSpec ==
    /\ MigrateInit /\ [][MigrateNext]_migrateVars
    /\ \A w \in Writer : WF_migrateVars(Run(w))
    /\ WF_migrateVars(EndSession)

-----------------------------------------------------------------------------
\* Every migration is applied at most once and in the order of the versions, with
\* none left out, whichever writers run, fail or die in between.
AppliedInOrder ==
    \A i \in DOMAIN applied : \A v \in Version :
        v < applied[i] <=> \E j \in 1..(i - 1) : applied[j] = v

\* A writer starts its pipeline only on a schema that has all its migrations.
ReadyIsMigrated ==
    \A w \in Writer : at[w] = "ready" => \A v \in Has[w] : Done(v)

\* Migrations are applied once and in order, and a ready writer has all of its own.  It
\* is inductive with this: whoever is past the lock holds it and knows what is applied,
\* and what a dead writer's session may still carry out is the next in order.
MigrateInv ==
    /\ MigrateTypeOK /\ AppliedInOrder /\ ReadyIsMigrated
    /\ \A w \in Writer : at[w] \in {"ensure", "read", "apply"} => lock = w
    /\ \A w \in Writer : at[w] = "apply" =>
          \A v \in Version : v <= current[w] <=> Done(v)
    /\ ghost # 0 => /\ lock = Ghost
                    /\ \A v \in Version : v < ghost <=> Done(v)

\* Every writer gets to run, however they contend for the lock and die holding it.
EveryReady == \A w \in Writer : <>[](at[w] = "ready")
=============================================================================
