------------------------------- MODULE Census -------------------------------
(***************************************************************************)
(* The census tool: a fetch loop folds fixm.raw into the accumulator, and  *)
(* a ticker goroutine saves a snapshot of it and then commits the offset   *)
(* of the last message observed.  The accumulator is one field of the      *)
(* feed, with the offsets that were folded into it kept beside it: the     *)
(* ghost component "counts" travels with the field through snapshots.      *)
(***************************************************************************)
EXTENDS RawTopic, Integers

CONSTANTS
    MaxRaw,         \* bound: records of the topic the census looks at
    MaxFaults,      \* bound: crashes, signals, rebalances and failed saves
    Elements(_),    \* the field's elements in a record, up to its end or to where it
                    \* stops being XML: a value for each, or NoText
    NoText,         \* an element without text
    Categorical,    \* the values that are strings, integers or booleans
    MaxEnum,        \* maxEnum
    MaxSamples      \* maxSamples

ASSUME CensusAssumption ==
    /\ MaxRaw \in Nat /\ MaxFaults \in Nat /\ MaxEnum \in Nat \ {0} /\ MaxSamples \in Nat
    /\ NoText \notin Categorical

VARIABLES
    pos,        \* the reader's position: records 1..pos were fetched
    committed,  \* the group's offset
    acc,        \* the accumulator in memory
    last,       \* the last record observed by this process, 0 for none
    loop,       \* Run: "fetch", "observed", "final" (SaveFile at the end), "down"
    stopping,   \* the signal context is cancelled
    save,       \* per goroutine: where it is in SaveFile, and after it
    data,       \* per goroutine: the snapshot it marshalled
    handle,     \* per goroutine: which name the file it has open goes by
    tmp, snap,  \* the temporary file and the snapshot file
    commit,     \* the offset the ticker is about to commit
    crashes, stops, rebalances, errors, \* deaths, signals, rebalances, failed saves
    lost        \* history: records committed that a restart did not find counted

fetching == <<pos, last, loop, acc>>
saving == <<save, data, handle, tmp, snap>>
tallies == <<crashes, stops, rebalances, errors>>
censusVars == <<fetching, committed, stopping, saving, commit, tallies, lost>>

Saver == {"ticker", "final"}

-----------------------------------------------------------------------------
(* The accumulator. *)

NewField == [occurrences |-> 0, typed |-> 0, values |-> <<>>, truncated |-> FALSE,
             distinct |-> 0, samples |-> {}]
NewAccumulator == [field |-> NewField, counts |-> [o \in 1..MaxRaw |-> 0]]

\* addSample: the first few distinct values.
AddSample(f, v) ==
    IF Cardinality(f.samples) < MaxSamples THEN f.samples \cup {v} ELSE f.samples

\* Mutant: the cap is tested after the value is entered.
EnumerateLate(f, v) ==
    LET known == DOMAIN f.values
        with == [u \in known \cup {v} |-> IF u \in known
                                          THEN f.values[u] + (IF u = v THEN 1 ELSE 0)
                                          ELSE 1]
    IN  IF Cardinality(known) < MaxEnum
        THEN [f EXCEPT !.values = with, !.distinct = Cardinality(DOMAIN with)]
        ELSE [f EXCEPT !.truncated = TRUE, !.distinct = Cardinality(known), !.values = <<>>]

\* A value is enumerated: counted, or entered while there is room; one too many
\* and the field is free text from then on.
Enumerate(f, v) ==
    LET known == DOMAIN f.values
        with == [u \in known \cup {v} |-> IF u \in known
                                          THEN f.values[u] + (IF u = v THEN 1 ELSE 0)
                                          ELSE 1]
    IN  IF v \in known \/ Cardinality(known) < MaxEnum
        THEN [f EXCEPT !.values = with, !.distinct = Cardinality(DOMAIN with)]
        ELSE [f EXCEPT !.truncated = TRUE, !.distinct = Cardinality(known), !.values = <<>>]

\* addValue.
AddValue(f, v) ==
    LET g == [f EXCEPT !.typed = @ + 1, !.samples = AddSample(f, v)]
    IN  IF v \in Categorical /\ ~f.truncated THEN Enumerate(g, v) ELSE g

\* Observe: an element is counted when it begins, its value when it is read;
\* what came before a parse error stays in the model.
Touch(f, v) ==
    LET g == [f EXCEPT !.occurrences = @ + 1] IN IF v = NoText THEN g ELSE AddValue(g, v)

TouchAll(f, elements) ==
    LET after[n \in 0..Len(elements)] ==
            IF n = 0 THEN f ELSE Touch(after[n - 1], elements[n])
    IN  after[Len(elements)]

Observe(o) ==
    acc' = [field |-> TouchAll(acc.field, Elements(raw[o])),
            counts |-> [acc.counts EXCEPT ![o] = @ + 1]]

-----------------------------------------------------------------------------
(* Files.  An unreadable one is empty (truncated and not yet written) or torn. *)

File(kind, a) == [kind |-> kind, acc |-> a]
Whole(a) == File("whole", a)
Empty == File("empty", NewAccumulator)
Torn == File("torn", NewAccumulator)
NoFile == File("none", NewAccumulator)

CensusInit ==
    /\ pos = 0 /\ committed = 0 /\ last = 0 /\ commit = 0
    /\ acc = NewAccumulator /\ loop = "fetch" /\ stopping = FALSE
    /\ save = [w \in Saver |-> "idle"] /\ handle = [w \in Saver |-> "none"]
    /\ data = [w \in Saver |-> NewAccumulator]
    /\ tmp = NoFile /\ snap = NoFile
    /\ crashes = 0 /\ stops = 0 /\ rebalances = 0 /\ errors = 0
    /\ lost = {}

Fault == crashes + stops + rebalances + errors < MaxFaults

-----------------------------------------------------------------------------
(* The fetch loop. *)

Fetch ==
    /\ loop = "fetch" /\ pos < Len(raw) /\ pos < MaxRaw
    /\ Observe(pos + 1)
    /\ pos' = pos + 1 /\ loop' = "observed"
    /\ UNCHANGED <<raw, last, committed, stopping, saving, commit, tallies, lost>>

\* last, haveLast = msg, true
SetLast ==
    /\ loop = "observed"
    /\ last' = pos /\ loop' = "fetch"
    /\ UNCHANGED <<raw, pos, acc, committed, stopping, saving, commit, tallies, lost>>

\* Fetch fails on the cancelled context, which ends the loop.
StopFetching ==
    /\ loop = "fetch" /\ stopping
    /\ loop' = "final"
    /\ UNCHANGED <<raw, pos, last, acc, committed, stopping, saving, commit, tallies, lost>>

-----------------------------------------------------------------------------
(* SaveFile, by the ticker or at the end of Run, on the same two names. *)

\* Mutant: the snapshot file itself is written, without a temporary one.
OpenInPlace(w) ==
    /\ save[w] = "idle"
    /\ IF w = "final" THEN loop = "final" ELSE loop # "down"
    /\ data' = [data EXCEPT ![w] = acc]
    /\ snap' = Empty
    /\ handle' = [handle EXCEPT ![w] = "snap"]
    /\ save' = [save EXCEPT ![w] = "opened"]
    /\ UNCHANGED <<raw, fetching, committed, stopping, tmp, commit, tallies, lost>>

\* MarshalSnapshot, and WriteFile creates or truncates the temporary file.
OpenTmp(w) ==
    /\ save[w] = "idle"
    /\ IF w = "final" THEN loop = "final" ELSE loop # "down"
    /\ data' = [data EXCEPT ![w] = acc]
    /\ tmp' = Empty
    /\ handle' = [handle EXCEPT ![w] = "tmp"]
    /\ save' = [save EXCEPT ![w] = "opened"]
    /\ UNCHANGED <<raw, fetching, committed, stopping, snap, commit, tallies, lost>>

\* What a file holds after a whole write from its start: the tail of something
\* longer that was written meanwhile stays.
Over(f, a) == IF f.kind = "empty" THEN {Whole(a)} ELSE {Whole(a), Torn}

\* The write goes to the file that was opened, by whatever name it has now.
WriteSnapshot(w) ==
    /\ save[w] = "opened"
    /\ CASE handle[w] = "tmp"  -> tmp' \in Over(tmp, data[w]) /\ UNCHANGED snap
         [] handle[w] = "snap" -> snap' \in Over(snap, data[w]) /\ UNCHANGED tmp
         [] OTHER              -> UNCHANGED <<tmp, snap>>
    /\ handle' = [handle EXCEPT ![w] = "none"]
    /\ save' = [save EXCEPT ![w] = "written"]
    /\ UNCHANGED <<raw, fetching, committed, stopping, data, commit, tallies, lost>>

\* The end of the process: its goroutines and open files are gone.
Exit ==
    /\ loop' = "down"
    /\ save' = [w \in Saver |-> "idle"] /\ handle' = [w \in Saver |-> "none"]
    /\ data' = [w \in Saver |-> NewAccumulator] /\ commit' = 0

\* SaveFile returns: Run goes on to the commit, or ends.
Saved(w, h) ==
    IF w = "final"
    THEN Exit
    ELSE /\ save' = [save EXCEPT ![w] = "saved"]
         /\ data' = [data EXCEPT ![w] = NewAccumulator]
         /\ handle' = h
         /\ UNCHANGED <<loop, commit>>

\* The rename takes the file, and whoever has it open, to the other name; it
\* fails when the other goroutine has already renamed it.
Rename(w) ==
    /\ save[w] = "written"
    /\ IF tmp.kind = "none"
       THEN /\ UNCHANGED <<tmp, snap>>
            /\ Saved(w, handle)
       ELSE /\ snap' = tmp /\ tmp' = NoFile
            /\ Saved(w, [v \in Saver |-> CASE handle[v] = "tmp" -> "snap"
                                            [] handle[v] = "snap" -> "none"
                                            [] OTHER -> handle[v]])
    /\ UNCHANGED <<raw, pos, last, acc, committed, stopping, tallies, lost>>

\* Opening, writing or renaming fails; a failed write leaves a part behind.
SaveError(w) ==
    /\ Fault /\ save[w] \in {"opened", "written"}
    /\ IF handle[w] = "tmp" THEN tmp' = Torn ELSE UNCHANGED tmp
    /\ IF handle[w] = "snap" THEN snap' = Torn ELSE UNCHANGED snap
    /\ Saved(w, [handle EXCEPT ![w] = "none"])
    /\ errors' = errors + 1
    /\ UNCHANGED <<raw, pos, last, acc, committed, stopping, crashes, stops, rebalances, lost>>

-----------------------------------------------------------------------------
(* The rest of the ticker goroutine. *)

\* Mutant: the position of the reader stands for the last message observed.
ReadNextToFetch ==
    /\ save["ticker"] = "saved"
    /\ commit' = IF last = 0 THEN 0 ELSE last + 1
    /\ save' = [save EXCEPT !["ticker"] = IF last = 0 THEN "idle" ELSE "commit"]
    /\ UNCHANGED <<raw, fetching, committed, stopping, data, handle, tmp, snap, tallies, lost>>

\* m, ok := last, haveLast, also after a failed save.
ReadLast ==
    /\ save["ticker"] = "saved"
    /\ commit' = last
    /\ save' = [save EXCEPT !["ticker"] = IF last = 0 THEN "idle" ELSE "commit"]
    /\ UNCHANGED <<raw, fetching, committed, stopping, data, handle, tmp, snap, tallies, lost>>

\* Mutant: after a commit the fetched messages count as saved, so the ticker never
\* saves again.
CommitAndRest ==
    /\ save["ticker"] = "commit"
    /\ committed' = commit
    /\ commit' = 0
    /\ save' = [save EXCEPT !["ticker"] = "resting"]
    /\ UNCHANGED <<raw, fetching, stopping, data, handle, tmp, snap, tallies, lost>>

\* Commit; an error is logged, whether or not the offset was stored.
CommitLast ==
    /\ save["ticker"] = "commit"
    /\ committed' \in {commit, committed}
    /\ commit' = 0
    /\ save' = [save EXCEPT !["ticker"] = "idle"]
    /\ UNCHANGED <<raw, fetching, stopping, data, handle, tmp, snap, tallies, lost>>

-----------------------------------------------------------------------------
(* Signals, deaths, restarts, rebalances. *)

CensusSignal ==
    /\ Fault /\ loop # "down" /\ ~stopping
    /\ stopping' = TRUE /\ stops' = stops + 1
    /\ UNCHANGED <<raw, fetching, committed, saving, commit, crashes, rebalances, errors, lost>>

CensusCrash ==
    /\ Fault /\ loop # "down"
    /\ Exit
    /\ crashes' = crashes + 1
    /\ UNCHANGED <<raw, pos, last, acc, committed, stopping, tmp, snap, stops, rebalances,
                   errors, lost>>

\* LoadFile: no file, or one that does not parse, is a fresh start.
LoadFile == IF snap.kind = "whole" THEN snap.acc ELSE NewAccumulator

\* main: the snapshot is loaded, and the group resumes at its offset.
CensusStart ==
    /\ loop = "down"
    /\ acc' = LoadFile
    /\ pos' = committed /\ last' = 0 /\ loop' = "fetch" /\ stopping' = FALSE
    /\ lost' = lost \cup {o \in 1..committed : LoadFile.counts[o] = 0}
    /\ UNCHANGED <<raw, committed, saving, commit, tallies>>

CensusRebalance ==
    /\ Fault /\ loop = "fetch" /\ pos # committed
    /\ pos' = committed /\ rebalances' = rebalances + 1
    /\ UNCHANGED <<raw, last, loop, acc, committed, stopping, saving, commit, crashes, stops,
                   errors, lost>>

Ticker == OpenTmp("ticker") \/ WriteSnapshot("ticker") \/ Rename("ticker") \/ ReadLast \/ CommitLast
FinalSave == OpenTmp("final") \/ WriteSnapshot("final") \/ Rename("final")
FetchLoop == Fetch \/ SetLast \/ StopFetching

CensusNext ==
    \/ FetchLoop \/ Ticker \/ FinalSave
    \/ \E w \in Saver : SaveError(w)
    \/ CensusSignal \/ CensusCrash \/ CensusStart \/ CensusRebalance

-----------------------------------------------------------------------------
CensusTypeOK ==
    /\ pos \in 0..MaxRaw /\ committed \in 0..MaxRaw /\ last \in 0..MaxRaw /\ commit \in 0..MaxRaw
    /\ loop \in {"fetch", "observed", "final", "down"} /\ stopping \in BOOLEAN
    /\ save \in [Saver -> {"idle", "opened", "written", "saved", "commit"}]
    /\ handle \in [Saver -> {"none", "tmp", "snap"}]
    /\ lost \subseteq 1..MaxRaw
    /\ crashes + stops + rebalances + errors \in 0..MaxFaults

\* The observations behind an accumulator, by the ghost counts: a record of the topic r,
\* which of its times, and an element of it.
Seen(r, a) ==
    UNION {{o} \X (1..a.counts[o]) \X (1..Len(Elements(r[o]))) :
               o \in {o \in 1..MaxRaw : a.counts[o] > 0}}
SeenValue(r, a) == [x \in Seen(r, a) |-> Elements(r[x[1]])[x[3]]]

\* A field holds exactly what the observations X of the values v say.
Tallied(f, X, v) ==
    LET values == {u \in Categorical : \E x \in X : v[x] = u}
    IN  /\ f.occurrences = Cardinality(X)
        /\ f.typed = Cardinality({x \in X : v[x] # NoText})
        /\ f.truncated <=> Cardinality(values) > MaxEnum
        /\ f.distinct = (IF f.truncated THEN MaxEnum ELSE Cardinality(values))
        /\ ~f.truncated => f.values = [u \in values |-> Cardinality({x \in X : v[x] = u})]
Consistent(r, a) == Tallied(a.field, Seen(r, a), SeenValue(r, a))

\* A field is what its observations make it, through snapshots, reloads and
\* recounts: every count is exact, and it is free text exactly if more than
\* maxEnum different values were seen.
FieldIsItsObservations == Consistent(raw, acc) /\ Consistent(raw, snap.acc)

\* The offset that is committed covers only records the running census has
\* counted, except those that an earlier restart had already lost.
CommittedCounted ==
    loop # "down" => \A o \in 1..committed : acc.counts[o] > 0 \/ o \in lost

\* The snapshot file is readable as long as no process was told to stop: SaveFile
\* is atomic against deaths and failures until Run and the ticker both run it.
SnapshotReadable == snap.kind \in {"empty", "torn"} => stops > 0

\* The snapshot catches up with the topic again and again: every record is in it
\* sooner or later, or a restart lost it.
SnapshotCatchesUp ==
    []<>(\A o \in 1..MaxRaw : o <= Len(raw) => snap.acc.counts[o] > 0 \/ o \in lost)

\* The inductive invariant behind CommittedCounted: what the reader is past, what was
\* observed last and what is about to be committed are counted like what is committed,
\* and a process that is down has nothing under way.
HasCounts(a) == a.counts \in [1..MaxRaw -> Nat]
Covered(n) == \A o \in 1..n : acc.counts[o] > 0 \/ o \in lost
CountsOK ==
    /\ HasCounts(acc) /\ HasCounts(snap.acc) /\ HasCounts(tmp.acc)
    /\ data = [w \in Saver |-> data[w]] /\ \A w \in Saver : HasCounts(data[w])
    /\ loop # "down" => Covered(committed) /\ Covered(pos) /\ Covered(last) /\ Covered(commit)
    /\ loop = "down" => commit = 0 /\ \A w \in Saver : save[w] = "idle"

\* The one behind SnapshotReadable: until a signal arrives only the ticker saves; what
\* it has open is the temporary file, and what it has written is whole.
OneSaver ==
    /\ stopping = FALSE /\ loop # "final"
    /\ save["final"] = "idle" /\ handle["final"] = "none"
    /\ handle["ticker"] = (IF save["ticker"] = "opened" THEN "tmp" ELSE "none")
    /\ save["ticker"] = "opened" => tmp.kind = "empty"
    /\ save["ticker"] = "written" => tmp.kind = "whole"
    /\ snap.kind \in {"none", "whole"}
CensusInv ==
    /\ CensusTypeOK /\ crashes \in Nat /\ stops \in Nat /\ rebalances \in Nat /\ errors \in Nat
    /\ CountsOK
    /\ stops = 0 => OneSaver

\* The one behind FieldIsItsObservations: every accumulator, in memory, marshalled by
\* a saver or in a file, has observed records of the topic only, and its field is made
\* of them.
IsField(f) ==
    /\ f = [occurrences |-> f.occurrences, typed |-> f.typed, values |-> f.values,
            truncated |-> f.truncated, distinct |-> f.distinct, samples |-> f.samples]
    /\ f.truncated \in BOOLEAN
Sound(r, a) ==
    /\ HasCounts(a) /\ \A o \in 1..MaxRaw : a.counts[o] > 0 => o <= Len(r)
    /\ IsField(a.field) /\ IsFiniteSet(Seen(r, a)) /\ Consistent(r, a)
AccumulatorsSound ==
    /\ Sound(raw, acc) /\ Sound(raw, snap.acc) /\ Sound(raw, tmp.acc)
    /\ \A w \in Saver : Sound(raw, data[w])
=============================================================================
