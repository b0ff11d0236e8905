------------------------------- MODULE Filter -------------------------------
(***************************************************************************)
(* The LADD filter: the shared consume loop with the fail-closed gate at   *)
(* its top, the worker's process (parse, block, publish or dead-letter),   *)
(* and the list store that a reloader goroutine swaps under the workers.   *)
(* The list file is the one the Secret mounts in the active directory;     *)
(* staging, promotion and partial copies are in LaddLifecycle.             *)
(***************************************************************************)
EXTENDS BatchLoop

CONSTANTS
    Poison,        \* messages flight.Parse rejects
    CallSign,      \* Msg -> identifier
    Registration,  \* Msg -> identifier
    normalize,     \* identifier -> its trimmed, upper-case form
    Blank,         \* the empty identifier
    Lists,         \* list files that may be delivered: [date, ids]
    NoList,        \* the active directory holds no list
    MaxAge,        \* LADD_MAX_AGE in days, 0: no limit
    MaxNow,        \* bound: days that pass
    IsDev          \* ISDEV

Ids == DOMAIN normalize

ASSUME FilterAssumption ==
    /\ Poison \subseteq Msg
    /\ CallSign \in [Msg -> Ids] /\ Registration \in [Msg -> Ids]
    /\ normalize \in [Ids -> Ids] /\ Blank \in Ids
    /\ \A i \in Ids : normalize[normalize[i]] = normalize[i]
    /\ normalize[Blank] = Blank
    /\ \A l \in Lists : l.date \in Nat \ {0} /\ l.ids \subseteq Ids
    /\ NoList \notin Lists
    /\ MaxAge \in Nat /\ MaxNow \in Nat \ {0} /\ IsDev \in BOOLEAN

VARIABLES
    phase,      \* where each worker is in process
    current,    \* the store's snapshot: list date and set of identifiers
    active,     \* the list file in the active directory
    now,        \* today
    published,  \* the filtered topic: a record per forwarded offset (see Forward)
    dead,       \* offsets whose message is in the dead-letter topic
    loaded,     \* history: lists the store has held
    gate,       \* history: the snapshot the last batch was admitted under
    judged      \* history: the snapshot each worker passed its flight by

listVars == <<current, active, now, loaded>>
outVars == <<published, dead>>
ghostVars == <<gate, judged>>
filterVars == <<loopVars, phase, listVars, outVars, ghostVars>>

-----------------------------------------------------------------------------
(* package ladd                                                            *)

NewSet(ids) == {normalize[i] : i \in ids} \ {Blank}
Has(set, id) == normalize[id] # Blank /\ normalize[id] \in set
Blocks(set, m) == Has(set, CallSign[m]) \/ Has(set, Registration[m])

\* NewStore: no list, the zero date.
NoSnapshot == [date |-> 0, set |-> {}]
Snapshot(l) == [date |-> l.date, set |-> NewSet(l.ids)]
Snapshots == {NoSnapshot} \cup {Snapshot(l) : l \in Lists}

Stale(snap) == MaxAge > 0 /\ now - snap.date > MaxAge
Ready(snap) ==
    IsDev \/ (snap.date # 0 /\ snap.set # {} /\ ~Stale(snap))

-----------------------------------------------------------------------------
FilterTypeOK ==
    /\ LoopTypeOK
    /\ phase \in [Worker -> {"idle", "got", "pass", "poison"}]
    /\ current \in Snapshots /\ gate \in Snapshots
    /\ judged \in [Worker -> Snapshots]
    /\ active \in Lists \cup {NoList}
    /\ now \in 1..MaxNow
    /\ published \subseteq [offset : Offsets, list : Snapshots, gate : Snapshots]
    /\ dead \subseteq Offsets
    /\ loaded \subseteq Lists

AllIdle == [w \in Worker |-> "idle"]

\* main: in dev mode no list is loaded, otherwise LoadLatest, if it succeeds.
Load(ok) ==
    IF IsDev \/ active = NoList \/ ~ok
    THEN current' = NoSnapshot /\ loaded' = loaded
    ELSE current' = Snapshot(active) /\ loaded' = loaded \cup {active}

\* The first start of the pod, with a list mounted or not.
FilterInit ==
    /\ LoopInit
    /\ phase = AllIdle
    /\ active \in Lists \cup {NoList}
    /\ now = 1
    /\ IF IsDev \/ active = NoList
       THEN current = NoSnapshot /\ loaded = {}
       ELSE current = Snapshot(active) /\ loaded = {active}
    /\ published = {} /\ dead = {}
    /\ gate = NoSnapshot /\ judged = [w \in Worker |-> NoSnapshot]

-----------------------------------------------------------------------------
(* The list                                                                *)

\* Kubernetes swaps the mounted Secret for another list; external.
Deliver(l) ==
    /\ active' = l
    /\ UNCHANGED <<loopVars, phase, current, now, loaded, outVars, ghostVars>>

Tick ==
    /\ now < MaxNow
    /\ now' = now + 1
    /\ UNCHANGED <<loopVars, phase, current, active, loaded, outVars, ghostVars>>

\* Mutant: the date of the list is not compared with the one in force.
ReloadWhatever ==
    /\ ~IsDev /\ pc # "down"
    /\ active # NoList
    /\ current' = Snapshot(active)
    /\ loaded' = loaded \cup {active}
    /\ UNCHANGED <<loopVars, phase, active, now, outVars, ghostVars>>

\* The reloader's tick.  A load that fails, or a date that is not newer,
\* leaves the store alone.
Reload ==
    /\ ~IsDev /\ pc # "down"
    /\ active # NoList
    /\ active.date > current.date
    /\ current' = Snapshot(active)
    /\ loaded' = loaded \cup {active}
    /\ UNCHANGED <<loopVars, phase, active, now, outVars, ghostVars>>

-----------------------------------------------------------------------------
(* Run                                                                     *)

\* The gate is open.
Gate ==
    /\ Ready(current)
    /\ Begin
    /\ gate' = current
    /\ UNCHANGED <<phase, listVars, outVars, judged>>

\* Fail closed: Run returns an error and main exits.
Halt ==
    /\ ~Ready(current)
    /\ StopAtTop
    /\ UNCHANGED <<phase, listVars, outVars, ghostVars>>

ReadBatch ==
    /\ FetchFirst \/ FetchError \/ Drain \/ Flush
    /\ UNCHANGED <<phase, listVars, outVars, ghostVars>>

SendJob ==
    /\ Send
    /\ UNCHANGED <<phase, listVars, outVars, ghostVars>>

CommitBatch ==
    /\ SkipCommit \/ \E stored \in BOOLEAN : Commit(stored)
    /\ UNCHANGED <<phase, listVars, outVars, ghostVars>>

-----------------------------------------------------------------------------
(* process                                                                 *)
Offset(w) == batch[held[w]]
Held(w) == log[Offset(w)]

Receive(w) ==
    /\ Take(w)
    /\ phase' = [phase EXCEPT ![w] = "got"]
    /\ UNCHANGED <<listVars, outVars, ghostVars>>

\* flight.Parse fails, or the list does not block the flight: on to a write.
Decide(w) ==
    /\ phase[w] = "got"
    /\ \/ Held(w) \in Poison /\ phase' = [phase EXCEPT ![w] = "poison"] /\ UNCHANGED judged
       \/ /\ Held(w) \notin Poison
          /\ ~Blocks(current.set, Held(w))
          /\ phase' = [phase EXCEPT ![w] = "pass"]
          /\ judged' = [judged EXCEPT ![w] = current]
    /\ UNCHANGED <<loopVars, listVars, outVars, gate>>

\* A blocked flight is suppressed.
Suppress(w) ==
    /\ phase[w] = "got"
    /\ Held(w) \notin Poison
    /\ Blocks(current.set, Held(w))
    /\ Finish(w, TRUE)
    /\ phase' = [phase EXCEPT ![w] = "idle"]
    /\ UNCHANGED <<listVars, outVars, ghostVars>>

\* What the filtered topic holds of a message: its offset; the list it was passed by
\* and the one its batch was admitted under are history.
Forward(w) == [offset |-> Offset(w), list |-> judged[w], gate |-> gate]

\* publisher.Publish: written and acknowledged, or an error that sets failed;
\* after an error the message may still have been written.
Publish(w, ok, written) ==
    /\ phase[w] = "pass"
    /\ ok => written
    /\ published' = IF written THEN published \cup {Forward(w)} ELSE published
    /\ Finish(w, ok)
    /\ phase' = [phase EXCEPT ![w] = "idle"]
    /\ judged' = [judged EXCEPT ![w] = NoSnapshot]
    /\ UNCHANGED <<listVars, dead, gate>>

\* deadLetter: as Publish, to the dead-letter topic.
DeadLetter(w, ok, written) ==
    /\ phase[w] = "poison"
    /\ ok => written
    /\ dead' = IF written THEN dead \cup {Offset(w)} ELSE dead
    /\ Finish(w, ok)
    /\ phase' = [phase EXCEPT ![w] = "idle"]
    /\ UNCHANGED <<listVars, published, ghostVars>>

Process(w) ==
    \/ Receive(w) \/ Decide(w) \/ Suppress(w)
    \/ \E ok, written \in BOOLEAN : Publish(w, ok, written) \/ DeadLetter(w, ok, written)

-----------------------------------------------------------------------------
(* Lifecycle                                                               *)

InPhase(ph) == {w \in Worker : phase[w] = ph}

\* The process dies; any subset of the writes in flight made it to Kafka.
FilterCrash ==
    /\ Crash
    /\ phase' = AllIdle
    /\ \E S \in SUBSET InPhase("pass") : published' = published \cup {Forward(w) : w \in S}
    /\ \E S \in SUBSET InPhase("poison") : dead' = dead \cup {Offset(w) : w \in S}
    /\ judged' = [w \in Worker |-> NoSnapshot]
    /\ UNCHANGED <<listVars, gate>>

\* Mutant: main does not load the list before Run.
StartWithoutList(ok) ==
    /\ Restart
    /\ current' = NoSnapshot
    /\ UNCHANGED <<phase, active, now, loaded, outVars, ghostVars>>

\* A new process: main loads whatever is mounted, however old it is.
Start(ok) ==
    /\ Restart
    /\ Load(ok)
    /\ UNCHANGED <<phase, active, now, outVars, ghostVars>>

FilterLifecycle ==
    \/ FilterCrash
    \/ \E ok \in BOOLEAN : Start(ok)
    \/ (Signal \/ Rebalance) /\ UNCHANGED <<phase, listVars, outVars, ghostVars>>

-----------------------------------------------------------------------------
FilterNext ==
    \/ \E m \in Msg : Arrive(m) /\ UNCHANGED <<phase, listVars, outVars, ghostVars>>
    \/ \E l \in Lists : Deliver(l)
    \/ Tick \/ Reload
    \/ Gate \/ Halt \/ ReadBatch \/ SendJob \/ CommitBatch
    \/ \E w \in Worker : Process(w)
    \/ FilterLifecycle

\* The scheduler runs the loop, the workers and the container; a list that is
\* mounted is eventually loaded by some start.  Delivery of new lists, faults
\* and errors are not assumed to happen.
FilterFairness ==
    /\ WF_filterVars(Gate \/ Halt \/ SendJob \/ CommitBatch)
    /\ WF_filterVars(Flush /\ ReadBatch)
    /\ SF_filterVars(FetchFirst /\ ReadBatch)
    /\ SF_filterVars(Start(TRUE))
    /\ \A w \in Worker : WF_filterVars(Process(w))

FilterSpec == FilterInit /\ [][FilterNext]_filterVars /\ FilterFairness

-----------------------------------------------------------------------------
(* Properties                                                              *)

\* LADD compliance: a forwarded message parsed, and the list it was judged by did
\* not name its flight.  That list is the one its batch was admitted under at the
\* gate, which named somebody, or a newer one: never one that had been replaced by
\* then, although the list is swapped under the workers, and batches end in crashes
\* and are read again under other lists.
ForwardedWasUnlisted ==
    ~IsDev => \A p \in published :
        /\ log[p.offset] \notin Poison
        /\ ~Blocks(p.list.set, log[p.offset])
        /\ p.gate.set # {} /\ p.list.date >= p.gate.date

\* "if it has no list, or the list is stale (past LADD_MAX_AGE), it stops processing
\* entirely instead of forwarding": no flight is passed on by a list that the gate
\* would refuse at that moment.
FailClosed ==
    [][\A w \in Worker : phase[w] = "got" /\ phase'[w] = "pass" => Ready(current)]_filterVars

\* Nothing vanishes: a message behind the group offset is in the filtered
\* topic, in the dead-letter topic, was named by a list the store held, or
\* its processing ended in a logged error.
Accounted(o) ==
    \/ \E p \in published : p.offset = o
    \/ o \in dead
    \/ \E l \in loaded : Blocks(NewSet(l.ids), log[o])
CommittedAccounted == \A o \in 1..committed : o \in missed \/ Accounted(o)

\* Within one process the list never goes back to an older one, so a message
\* is never judged by an older list than the one its batch was admitted under.
EffectiveDateNeverBack ==
    [][pc # "down" => current'.date >= current.date]_filterVars

\* The filter makes progress while the mounted list is usable: each message
\* is settled, or the mounted list is missing, empty or stale, or the topic is
\* frozen on a corrupt record at or before it.
Usable == active # NoList /\ Ready(Snapshot(active))
SettledWhileUsable ==
    \A o \in 1..MaxLog : (o <= Len(log)) ~> (o \in Settled \/ ~Usable \/ Frozen(o))

\* The inductive invariant behind ForwardedWasUnlisted and CommittedAccounted.
PhaseMatchesHeld ==
    /\ phase \in [Worker -> {"idle", "got", "pass", "poison"}]
    /\ \A w \in Worker : phase[w] = "idle" <=> held[w] = 0
\* The store holds a list that was mounted, or none.
StoreKnown ==
    /\ current = NoSnapshot \/ \E l \in loaded : current = Snapshot(l)
    /\ loaded \subseteq Lists
    /\ active \in Lists \cup {NoList}
\* Past the gate the list in force is the gate's or a newer one.
Gated ==
    /\ gate \in Snapshots /\ judged \in [Worker -> Snapshots]
    /\ pc \notin {"top", "down"} =>
          (~IsDev => gate.set # {}) /\ current.date >= gate.date
Cleared(m, list, g) ==
    m \notin Poison /\ (~IsDev => ~Blocks(list.set, m) /\ g.set # {} /\ list.date >= g.date)
WorkerKnows ==
    \A w \in Worker :
        /\ phase[w] = "pass" => Cleared(Held(w), judged[w], gate)
        /\ phase[w] = "poison" => Held(w) \in Poison
OutputsKnown ==
    /\ published \subseteq [offset : Offsets, list : Snapshots, gate : Snapshots]
    /\ dead \subseteq Offsets
    /\ \A p \in published : Cleared(log[p.offset], p.list, p.gate)
    /\ \A o \in done : Accounted(o)

FilterInv ==
    LoopInv /\ PhaseMatchesHeld /\ StoreKnown /\ Gated /\ WorkerKnows /\ OutputsKnown
=============================================================================
