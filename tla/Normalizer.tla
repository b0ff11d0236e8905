----------------------------- MODULE Normalizer -----------------------------
(***************************************************************************)
(* The normalizer: the shared consume loop whose workers turn a FIXM       *)
(* envelope into its flights and publish them, keyed by GUFI, in one       *)
(* WriteMessages call.  The normalized topic is an append-only sequence of *)
(* [env, idx, gufi]: flight idx of the envelope at offset env.             *)
(***************************************************************************)
EXTENDS BatchLoop

CONSTANTS
    Gufi,       \* flight identifiers
    Flights,    \* envelope -> sequence of the GUFIs of its flights
    Poison      \* envelopes ParseEnvelope or EncodeOne rejects

ASSUME NormalizerAssumption ==
    /\ Flights \in [Msg -> Seq(Gufi)]
    /\ Poison \subseteq Msg

VARIABLES
    phase,      \* where each worker is in process
    out,        \* the normalized topic
    dead        \* offsets of envelopes in the dead-letter topic

normVars == <<loopVars, phase, out, dead>>

\* encodeFlights: one message per flight, in envelope order.
EncodeFlights(o) ==
    [i \in 1..Len(Flights[log[o]]) |->
        [env |-> o, idx |-> i, gufi |-> Flights[log[o]][i]]]

NormTypeOK ==
    /\ LoopTypeOK
    /\ phase \in [Worker -> {"idle", "got", "publish", "poison"}]
    /\ out \in Seq([env : Offsets, idx : Nat, gufi : Gufi])
    /\ dead \subseteq Offsets

NormInit ==
    /\ LoopInit
    /\ phase = [w \in Worker |-> "idle"]
    /\ out = <<>> /\ dead = {}

-----------------------------------------------------------------------------
(* Run                                                                     *)

\* readBatch; Run returns on a cancelled context and goes round on an error.
ReadBatch ==
    /\ Begin \/ FetchFirst \/ FetchError \/ Drain \/ Flush
    /\ UNCHANGED <<phase, out, dead>>

SendJob == Send /\ UNCHANGED <<phase, out, dead>>

CommitBatch ==
    /\ SkipCommit \/ \E stored \in BOOLEAN : Commit(stored)
    /\ UNCHANGED <<phase, out, dead>>

-----------------------------------------------------------------------------
(* process                                                                 *)
Offset(w) == batch[held[w]]
Held(w) == log[Offset(w)]

Receive(w) ==
    /\ Take(w)
    /\ phase' = [phase EXCEPT ![w] = "got"]
    /\ UNCHANGED <<out, dead>>

\* Parse and encode: poison is dead-lettered, the rest published.
Parse(w) ==
    /\ phase[w] = "got"
    /\ Held(w) \in Poison \/ Flights[Held(w)] # <<>>
    /\ phase' = [phase EXCEPT ![w] = IF Held(w) \in Poison THEN "poison" ELSE "publish"]
    /\ UNCHANGED <<loopVars, out, dead>>

\* An envelope without flights is done.
Nothing(w) ==
    /\ phase[w] = "got"
    /\ Held(w) \notin Poison /\ Flights[Held(w)] = <<>>
    /\ Finish(w, TRUE)
    /\ phase' = [phase EXCEPT ![w] = "idle"]
    /\ UNCHANGED <<out, dead>>

\* What WriteMessages may leave in the topic: all the messages on success; on
\* an error any of the client's internal batches, each in order.  ks are the
\* places, in the call's messages, of the ones that were written.
Places(n) ==
    {ks \in UNION {[1..m -> 1..n] : m \in 0..n} :
        \A i, j \in DOMAIN ks : i < j => ks[i] < ks[j]}
All(n) == [i \in 1..n |-> i]
Written(msgs, ks) == [i \in 1..Len(ks) |-> msgs[ks[i]]]

\* Mutant: a publish error does not set failed.
PublishIgnoresError(w, ok, ks) ==
    /\ phase[w] = "publish"
    /\ ok => ks = All(Len(Flights[Held(w)]))
    /\ out' = out \o Written(EncodeFlights(Offset(w)), ks)
    /\ Finish(w, TRUE)
    /\ phase' = [phase EXCEPT ![w] = "idle"]
    /\ UNCHANGED dead

Publish(w, ok, ks) ==
    /\ phase[w] = "publish"
    /\ ok => ks = All(Len(Flights[Held(w)]))
    /\ out' = out \o Written(EncodeFlights(Offset(w)), ks)
    /\ Finish(w, ok)
    /\ phase' = [phase EXCEPT ![w] = "idle"]
    /\ UNCHANGED dead

\* deadLetter: a failed write gates the commit; it may still be in the topic.
DeadLetter(w, ok, written) ==
    /\ phase[w] = "poison"
    /\ ok => written
    /\ dead' = IF written THEN dead \cup {Offset(w)} ELSE dead
    /\ Finish(w, ok)
    /\ phase' = [phase EXCEPT ![w] = "idle"]
    /\ UNCHANGED out

Process(w) ==
    \/ Receive(w) \/ Parse(w) \/ Nothing(w)
    \/ \E ok, written \in BOOLEAN : DeadLetter(w, ok, written)
    \/ /\ phase[w] = "publish"
       /\ \E ok \in BOOLEAN, ks \in Places(Len(Flights[Held(w)])) : Publish(w, ok, ks)

-----------------------------------------------------------------------------
\* The process dies; one of the writes in flight may have made it to Kafka,
\* whole or in part (of several, the others are as if finished before).
NormCrash ==
    /\ Crash
    /\ phase' = [w \in Worker |-> "idle"]
    /\ \/ UNCHANGED <<out, dead>>
       \/ \E w \in Worker : phase[w] = "publish" /\ UNCHANGED dead
            /\ \E ks \in Places(Len(Flights[Held(w)])) :
                   out' = out \o Written(EncodeFlights(Offset(w)), ks)
       \/ \E w \in Worker : phase[w] = "poison" /\ UNCHANGED out
            /\ dead' = dead \cup {Offset(w)}

NormLifecycle ==
    \/ NormCrash
    \/ (Signal \/ Restart \/ Rebalance) /\ UNCHANGED <<phase, out, dead>>

NormNext ==
    \/ \E m \in Msg : Arrive(m) /\ UNCHANGED <<phase, out, dead>>
    \/ ReadBatch \/ SendJob \/ CommitBatch
    \/ \E w \in Worker : Process(w)
    \/ NormLifecycle

\* As in LoopFairness: the goroutines are scheduled, a container is started again,
\* and a Fetch of a message that can be decoded does not fail for ever.
Quiet == UNCHANGED <<phase, out, dead>>
NormFairness ==
    /\ WF_normVars((Begin \/ Flush \/ Send \/ SkipCommit \/ Restart) /\ Quiet)
    /\ WF_normVars(CommitBatch) /\ WF_normVars(FetchError /\ stopping /\ Quiet)
    /\ SF_normVars(FetchFirst /\ Quiet)
    /\ \A w \in Worker : WF_normVars(Process(w))

NormSpec == NormInit /\ [][NormNext]_normVars /\ NormFairness

-----------------------------------------------------------------------------
(* Properties                                                              *)

InTopic(o, i) == \E k \in 1..Len(out) : out[k].env = o /\ out[k].idx = i

\* Completeness: an envelope behind the group offset has all its flights in
\* the normalized topic, is in the dead-letter topic, or its processing ended
\* in a logged error.  A partial write is never taken for a whole one.
Complete(o) ==
    \/ o \in dead
    \/ log[o] \notin Poison /\ \A i \in 1..Len(Flights[log[o]]) : InTopic(o, i)
CommittedComplete == \A o \in 1..committed : o \in missed \/ Complete(o)

Concerns(o, g) == log[o] \notin Poison /\ \E i \in DOMAIN Flights[log[o]] : Flights[log[o]][i] = g

\* What the barrier does for a flight's order: when an update is published, every
\* earlier envelope of the flight is in the topic whole, but for two ways to be
\* overtaken.  It is in the same batch, whose workers publish in any order; or its
\* processing has failed, and it can only follow in a replay, behind the newer one.
OvertakenInBatchOrFailed ==
    [][\A k \in (Len(out) + 1)..Len(out') : \A o \in 1..(out'[k].env - 1) :
        Concerns(o, out'[k].gufi) => Complete(o) \/ InBatch(o) \/ o \in missed]_normVars

\* "Keyed by GUFI [...] preserving per-flight order for everything downstream": the
\* first copies of a flight's updates are in the topic in the order of the envelopes.
PerFlightOrder ==
    \A l \in 1..Len(out) : \A o \in 1..(out[l].env - 1) :
        Concerns(o, out[l].gufi) => o \in dead \/ \E k \in 1..(l - 1) :
                                        out[k].env = o /\ out[k].gufi = out[l].gufi

\* The inductive invariant behind CommittedComplete and OvertakenInBatchOrFailed.
PhaseMatchesHeld ==
    /\ phase \in [Worker -> {"idle", "got", "publish", "poison"}]
    /\ \A w \in Worker : phase[w] = "idle" <=> held[w] = 0
    /\ \A w \in Worker : phase[w] = "publish" => Held(w) \notin Poison
\* Every message of the topic is a flight of the envelope it names.
Faithful(r) ==
    /\ r.env \in Offsets
    /\ log[r.env] \notin Poison
    /\ r.idx \in 1..Len(Flights[log[r.env]])
    /\ r.gufi = Flights[log[r.env]][r.idx]
OutFaithful ==
    /\ out \in Seq([env : Nat, idx : Nat, gufi : Gufi])
    /\ \A k \in 1..Len(out) : Faithful(out[k])
DoneComplete == dead \subseteq Offsets /\ \A o \in done : Complete(o)

NormInv == LoopInv /\ PhaseMatchesHeld /\ OutFaithful /\ DoneComplete
=============================================================================
