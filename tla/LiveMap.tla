------------------------------ MODULE LiveMap -------------------------------
(***************************************************************************)
(* The live map: useFlights polls the API at an interval whether or not    *)
(* the answer before has arrived; ListFlights scans Redis for keys and     *)
(* then reads the hashes, while the cache-writer goes on writing.          *)
(***************************************************************************)
EXTENDS Integers, FiniteSets, FiniteSetsExt

CONSTANTS
    Flight,
    Slot,           \* polls that can be under way
    MaxWrites,      \* bound: writes to the cache
    MaxErrors,      \* bound: polls that fail
    MaxTwice        \* bound: keys that one SCAN lists twice

ASSUME LiveAssumption == MaxWrites \in Nat /\ MaxErrors \in Nat /\ MaxTwice \in Nat /\ Slot # {}

VARIABLES
    redis,      \* per flight: the write its hash is from, 0 for no key
    writes,
    poll,       \* per slot: a poll (see Poll)
    shown,      \* the flights on the map, with the write each is from
    error,      \* useFlights: error # null
    errors

mapVars == <<redis, writes, poll, shown, error, errors>>

\* keys: entries of the key list still to be read (SCAN may list a key twice, so an
\* entry is a flight and a count); got: what was read, as flight and write.
\* History: always, the flights cached from the poll's begin on; ever, the flights
\* cached at some time of its scan; fresh, no answer was set since it began.
Poll(where, flights) ==
    [at |-> where, keys |-> {}, got |-> {}, always |-> flights, ever |-> flights, fresh |-> TRUE]
NoPoll == Poll("none", {})
Listed(s) == poll[s].at = "read" /\ poll[s].keys = {}

Cached == {f \in Flight : redis[f] # 0}
Hashes == {<<f, redis[f]>> : f \in Cached}

LiveInit ==
    /\ redis = [f \in Flight |-> 0] /\ writes = 0
    /\ poll = [s \in Slot |-> NoPoll]
    /\ shown = {} /\ error = FALSE /\ errors = 0

-----------------------------------------------------------------------------
\* HSET, DEL or the expiry of a key, as CacheWriter has them.
Write(f) ==
    /\ writes < MaxWrites
    /\ \/ redis' = [redis EXCEPT ![f] = writes + 1]
       \/ redis[f] # 0 /\ redis' = [redis EXCEPT ![f] = 0]
    /\ writes' = writes + 1
    /\ poll' = [s \in Slot |-> CASE poll[s].at = "none" \/ Listed(s) -> poll[s]
                                 [] poll[s].at = "scan" -> [poll[s] EXCEPT !.always = @ \cap Cached',
                                                                           !.ever = @ \cup Cached']
                                 [] OTHER -> [poll[s] EXCEPT !.always = @ \cap Cached']]
    /\ UNCHANGED <<shown, error, errors>>

\* Mutant: a poll joins one that is under way.
BeginJoins(s) ==
    /\ poll[s].at = "none"
    /\ \/ \E t \in Slot : poll[t].at # "none" /\ poll' = [poll EXCEPT ![s] = [poll[t] EXCEPT !.fresh = TRUE]]
       \/ poll' = [poll EXCEPT ![s] = Poll("scan", Cached)]
    /\ UNCHANGED <<redis, writes, shown, error, errors>>

\* The interval passes: poll fetches the flights.
Begin(s) ==
    /\ poll[s].at = "none"
    /\ poll' = [poll EXCEPT ![s] = Poll("scan", Cached)]
    /\ UNCHANGED <<redis, writes, shown, error, errors>>

\* Mutant: one call of SCAN, whose cursor is not followed.
ScanOnce(s) ==
    /\ poll[s].at = "scan"
    /\ \E listed \in SUBSET poll[s].ever :
          poll' = [poll EXCEPT ![s].at = "read", ![s].ever = {}, ![s].keys = listed \X {1}]
    /\ UNCHANGED <<redis, writes, shown, error, errors>>

\* SCAN lists every key that was there from the first call to the last, perhaps
\* others that were there in between, and a key perhaps twice.
Scan(s) ==
    /\ poll[s].at = "scan"
    /\ \E listed \in SUBSET poll[s].ever, twice \in SUBSET Flight :
          /\ poll[s].always \subseteq listed /\ twice \subseteq listed
          /\ Cardinality(twice) <= MaxTwice
          /\ poll' = [poll EXCEPT ![s].at = "read", ![s].ever = {},
                                  ![s].keys = (listed \X {1}) \cup (twice \X {2})]
    /\ UNCHANGED <<redis, writes, shown, error, errors>>

\* One HGETALL of the pipeline; a hash that is gone is skipped.
HGetAll(s) ==
    /\ poll[s].at = "read"
    /\ \E k \in poll[s].keys :
          poll' = [poll EXCEPT ![s].keys = @ \ {k},
                               ![s].got = @ \cup {h \in Hashes : h[1] = k[1]}]
    /\ UNCHANGED <<redis, writes, shown, error, errors>>

\* Mutant: the flights of the answer are added to those on the map.
AnswerAdds(s) ==
    /\ Listed(s)
    /\ shown' = shown \cup poll[s].got /\ error' = FALSE
    /\ poll' = [t \in Slot |-> IF t = s THEN NoPoll ELSE [poll[t] EXCEPT !.fresh = FALSE]]
    /\ UNCHANGED <<redis, writes, errors>>

\* The list is answered: setFlights, setError(null).
Answer(s) ==
    /\ Listed(s)
    /\ shown' = poll[s].got /\ error' = FALSE
    /\ poll' = [t \in Slot |-> IF t = s THEN NoPoll ELSE [poll[t] EXCEPT !.fresh = FALSE]]
    /\ UNCHANGED <<redis, writes, errors>>

\* SCAN or the pipeline fails (502), the request times out, the API is down:
\* setError, and the flights stay.
PollError(s) ==
    /\ poll[s].at # "none" /\ errors < MaxErrors
    /\ poll' = [poll EXCEPT ![s] = NoPoll]
    /\ error' = TRUE /\ errors' = errors + 1
    /\ UNCHANGED <<redis, writes, shown>>

Serve(s) == Scan(s) \/ HGetAll(s) \/ Answer(s)

LiveNext ==
    \/ \E f \in Flight : Write(f)
    \/ \E s \in Slot : Begin(s) \/ Serve(s) \/ PollError(s)

\* The interval goes on for as long as the page is open; a request is answered.
LiveSpec ==
    /\ LiveInit /\ [][LiveNext]_mapVars
    /\ \A s \in Slot : WF_mapVars(Begin(s)) /\ WF_mapVars(Serve(s))

-----------------------------------------------------------------------------
\* A flight that was in the cache throughout the request is in the answer.
AnswerComplete ==
    \A s \in Slot : Listed(s) => poll[s].always \subseteq {h[1] : h \in poll[s].got}

Newest(flights, f) == Max({0} \cup {h[2] : h \in {g \in flights : g[1] = f}})

\* The map goes back to an older position of a flight only with the answer of a poll
\* that overlapped the one shown: a poll that begins after an answer never does.
BackOnlyByOverlap ==
    [][\A f \in Flight : Newest(shown', f) \in 1..(Newest(shown, f) - 1)
                         => \E s \in Slot : poll[s].at = "read" /\ ~poll[s].fresh
                                            /\ poll'[s].at = "none"]_mapVars

\* What web/README.md says of the polls: "no overlapping or stale responses".  The map
\* never goes back to an older position of a flight.
NeverStale ==
    [][\A f \in Flight : Newest(shown', f) \notin 1..(Newest(shown, f) - 1)]_mapVars

\* When the cache is quiet and requests no longer fail, the map shows it exactly,
\* whatever was answered out of order before, and no error.
MapCatchesUp == <>[](shown = Hashes /\ ~error)

\* The inductive invariant behind AnswerComplete: until its last key is read, a poll
\* knows of no flight as always cached that is not cached now, and of those the ones
\* it has not read are still among its keys.
LiveTypeOK ==
    /\ writes \in Nat /\ redis \in [Flight -> Nat]
    /\ poll \in [Slot -> [at : {"none", "scan", "read"}, keys : SUBSET (Flight \X {1, 2}),
                          got : SUBSET (Flight \X Nat), always : SUBSET Flight,
                          ever : SUBSET Flight, fresh : BOOLEAN]]
    /\ shown \subseteq Flight \X Nat
Firsts(pairs) == {h[1] : h \in pairs}
PollOK(s) ==
    /\ poll[s].at = "scan" => poll[s].always \subseteq poll[s].ever
    /\ poll[s].at = "scan" \/ (poll[s].at = "read" /\ poll[s].keys # {})
          => poll[s].always \subseteq Cached
    /\ poll[s].at = "read" => poll[s].always \subseteq Firsts(poll[s].keys) \cup Firsts(poll[s].got)
\* The one behind BackOnlyByOverlap: nothing that was read is newer than the cache,
\* and what a fresh poll has read is no older than what is shown.
NotAhead(h) == h[2] \in 1..writes /\ (redis[h[1]] # 0 => h[2] <= redis[h[1]])
ValuesOK ==
    /\ \A f \in Flight : redis[f] <= writes
    /\ \A h \in shown : NotAhead(h)
    /\ \A s \in Slot : \A h \in poll[s].got :
        /\ NotAhead(h)
        /\ poll[s].fresh => \A g \in shown : g[1] = h[1] => g[2] <= h[2]
LiveInv == LiveTypeOK /\ (\A s \in Slot : PollOK(s)) /\ ValuesOK
=============================================================================
