------------------------------ MODULE Records -------------------------------
(***************************************************************************)
(* A flight's record on its way to the screen: the database-writers        *)
(* migrate the schema and then write rows, the API's GetRecord reads the   *)
(* flight's row and its track in two queries, and the web client's         *)
(* useFlightRecord shows what is answered for the flight that is selected. *)
(* A flight's updates are numbered as they are committed; the row stands   *)
(* for the number of updates it reflects, a position for its update.       *)
(***************************************************************************)
EXTENDS Migrate

CONSTANTS
    Flight,         \* GUFIs
    None,           \* no flight
    Slot,           \* requests that can be under way
    MaxWrites,      \* bound: updates that are written, of all flights
    MaxClicks       \* bound: selections

ASSUME RecordsAssumption ==
    None \notin Flight /\ MaxWrites \in Nat /\ MaxClicks \in Nat /\ Slot # {}

VARIABLES
    written,    \* per flight: updates that its row reflects
    points,     \* per flight: updates with a row in positions
    durable,    \* the API has registered its /durable routes
    request,    \* per slot: a request of fetchFlightRecord
    selected,   \* App: the flight whose panel is open
    data, loading, failed,  \* useFlightRecord: data, loading, error # null
    clicks

tableVars == <<written, points>>
webVars == <<request, selected, data, loading, failed, clicks>>
recordsVars == <<migrateVars, tableVars, durable, webVars>>

Record(f, n, t) == [flight |-> f, row |-> n, track |-> t]
NoRecord == Record(None, 0, {})
Request(f, at_, mine) == [record |-> Record(f, 0, {}), at |-> at_, mine |-> mine]
NoRequest == Request(None, "none", FALSE)

\* main of the API: Postgres is reachable when it starts, or the routes are off.
RecordsInit ==
    /\ MigrateInit
    /\ written = [f \in Flight |-> 0] /\ points = [f \in Flight |-> {}] /\ durable \in BOOLEAN
    /\ request = [s \in Slot |-> NoRequest] /\ selected = None
    /\ data = NoRecord /\ loading = FALSE /\ failed = FALSE /\ clicks = 0

\* A migrated writer commits an update of the flight: its row and, if the message has a
\* position, a row of positions.
RecordBatch(f, hasPosition) ==
    /\ \E w \in Writer : at[w] = "ready"
    /\ MapThenSumSet(LAMBDA g : written[g], Flight) < MaxWrites
    /\ written' = [written EXCEPT ![f] = @ + 1]
    /\ points' = IF hasPosition THEN [points EXCEPT ![f] = @ \cup {written'[f]}] ELSE points
    /\ UNCHANGED <<migrateVars, durable, webVars>>

\* TimescaleDB drops the positions that are older than 90 days; flights stay.  Updates
\* need not have been committed in the order of their times.
Retention(f) ==
    /\ \E old \in SUBSET points[f] : old # {} /\ points' = [points EXCEPT ![f] = @ \ old]
    /\ UNCHANGED <<migrateVars, written, durable, webVars>>

-----------------------------------------------------------------------------
(* The web client. *)

Cancelled == [s \in Slot |-> [request[s] EXCEPT !.mine = FALSE]]

\* Mutant: the cleanup of the effect does not cancel the request before.
SelectUncancelled(f) ==
    /\ clicks < MaxClicks /\ selected # f
    /\ \E s \in Slot : /\ request[s] = NoRequest
                       /\ request' = [request EXCEPT ![s] = Request(f, "row", TRUE)]
    /\ selected' = f /\ loading' = TRUE /\ failed' = FALSE
    /\ clicks' = clicks + 1
    /\ UNCHANGED <<migrateVars, tableVars, durable, data>>

\* A click on the map and the render and effect it leads to, in one step: the effect for
\* the flight before is cleaned up (cancelled, aborted), and a request for the new one
\* begins.  The data stays for now.
Select(f) ==
    /\ clicks < MaxClicks /\ selected # f
    /\ \E s \in Slot : /\ request[s] = NoRequest
                       /\ request' = [Cancelled EXCEPT ![s] = Request(f, "row", TRUE)]
    /\ selected' = f /\ loading' = TRUE /\ failed' = FALSE
    /\ clicks' = clicks + 1
    /\ UNCHANGED <<migrateVars, tableVars, durable, data>>

\* onClose: gufi is null.
Close ==
    /\ selected # None
    /\ request' = Cancelled
    /\ selected' = None /\ data' = NoRecord /\ loading' = FALSE /\ failed' = FALSE
    /\ UNCHANGED <<migrateVars, tableVars, durable, clicks>>

\* The answer arrives; setData, unless the effect was cancelled.
Answered(s) ==
    /\ request[s].at = "answer"
    /\ IF request[s].mine
       THEN data' = request[s].record /\ loading' = FALSE
       ELSE UNCHANGED <<data, loading>>
    /\ request' = [request EXCEPT ![s] = NoRequest]
    /\ UNCHANGED <<migrateVars, tableVars, durable, selected, failed, clicks>>

\* Mutant: the catch shows the error and leaves the panel loading.
RejectedStillLoading(s) ==
    /\ IF request[s].mine THEN failed' = TRUE ELSE UNCHANGED failed
    /\ request' = [request EXCEPT ![s] = NoRequest]
    /\ UNCHANGED <<migrateVars, tableVars, durable, selected, loading, data, clicks>>

\* The request fails: setError, unless cancelled.
Rejected(s) ==
    /\ IF request[s].mine
       THEN failed' = TRUE /\ loading' = FALSE
       ELSE UNCHANGED <<failed, loading>>
    /\ request' = [request EXCEPT ![s] = NoRequest]
    /\ UNCHANGED <<migrateVars, tableVars, durable, selected, data, clicks>>

-----------------------------------------------------------------------------
(* The API. *)

To_(s, place, r) == request' = [request EXCEPT ![s].at = place, ![s].record = r]

\* GetRecord: the flight's row.
QueryFlight(s) ==
    /\ request[s].at = "row" /\ durable /\ Done(1)
    /\ LET r == request[s].record
       IN  written[r.flight] > 0 /\ To_(s, "track", [r EXCEPT !.row = written[r.flight]])
    /\ UNCHANGED <<migrateVars, tableVars, durable, selected, data, loading, failed, clicks>>

\* No route, no table, or no such flight: 404 or 502.
NotServed(s) ==
    /\ request[s].at = "row"
    /\ ~durable \/ ~Done(1) \/ written[request[s].record.flight] = 0
    /\ Rejected(s)

\* Mutant: the query of the track has a limit.
QueryTrackLimited(s) ==
    /\ request[s].at = "track"
    /\ LET r == request[s].record
       IN  \E p \in SUBSET points[r.flight] :
               /\ Cardinality(p) <= 1
               /\ To_(s, "answer", [r EXCEPT !.track = p])
    /\ UNCHANGED <<migrateVars, tableVars, durable, selected, data, loading, failed, clicks>>

\* GetRecord: its track, by a query of its own.
QueryTrack(s) ==
    /\ request[s].at = "track"
    /\ LET r == request[s].record
       IN  To_(s, "answer", [r EXCEPT !.track = points[r.flight]])
    /\ UNCHANGED <<migrateVars, tableVars, durable, selected, data, loading, failed, clicks>>

\* A query fails, the request's timeout passes, or the connection breaks.
RequestError(s) == request[s] # NoRequest /\ Rejected(s)

\* The API is restarted, with Postgres reachable or not.
ApiRestart ==
    /\ \A s \in Slot : request[s] = NoRequest
    /\ durable' \in BOOLEAN
    /\ UNCHANGED <<migrateVars, tableVars, webVars>>

Serve(s) == QueryFlight(s) \/ NotServed(s) \/ QueryTrack(s) \/ Answered(s)

RecordsNext ==
    \/ MigrateNext /\ UNCHANGED <<tableVars, durable, webVars>>
    \/ \E f \in Flight, hasPosition \in BOOLEAN : RecordBatch(f, hasPosition)
    \/ \E f \in Flight : Retention(f) \/ Select(f)
    \/ \E s \in Slot : Serve(s) \/ RequestError(s)
    \/ Close \/ ApiRestart

\* As for the migrations; and a request is answered or times out.
RecordsSpec ==
    /\ RecordsInit /\ [][RecordsNext]_recordsVars
    /\ \A w \in Writer : WF_migrateVars(Run(w))
    /\ WF_migrateVars(EndSession)
    /\ \A s \in Slot : WF_recordsVars(Serve(s))

-----------------------------------------------------------------------------
\* Once loading is over without an error the panel shows the flight that is
\* selected, however answers and clicks interleave; a closed panel shows none.
PanelShowsSelected ==
    /\ selected = None => data = NoRecord
    /\ selected # None /\ ~loading /\ ~failed => data.flight = selected

\* A record's track is no older than its row, although writers commit and retention drops
\* positions between the two queries: of the updates that the row shown reflects, none
\* whose position is in the table is missing from the track.
Covers(r) == \A n \in points[r.flight] : n <= r.row => n \in r.track
TrackCoversRow == data.flight # None => Covers(data)

\* Loading ends: in data, in an error, or by closing.
LoadingEnds == []<>(~loading)

\* The inductive invariant behind the two: a request that is not cancelled is for the
\* flight that is selected, and no row that was read is ahead of what was written, so that
\* no later update is among those it reflects.
RecordsTypeOK ==
    /\ written \in [Flight -> Nat] /\ points \in [Flight -> SUBSET Nat] /\ selected \in Flight \cup {None}
    /\ request \in [Slot -> [record : [flight : Flight \cup {None}, row : Nat, track : SUBSET Nat],
                             at : {"none", "row", "track", "answer"}, mine : BOOLEAN]]
    /\ data \in [flight : Flight \cup {None}, row : Nat, track : SUBSET Nat]
    /\ loading \in BOOLEAN /\ failed \in BOOLEAN /\ durable \in BOOLEAN
    /\ clicks \in 0..MaxClicks
RequestOK(r) ==
    /\ r.at # "none" => r.record.flight \in Flight
    /\ r.mine => r.record.flight = selected /\ selected # None
    /\ r.at \in {"track", "answer"} => r.record.row <= written[r.record.flight]
    /\ r.at = "answer" => Covers(r.record)
WebInv ==
    /\ RecordsTypeOK
    /\ \A s \in Slot : RequestOK(request[s])
    /\ data.flight # None => data.row <= written[data.flight]
    /\ PanelShowsSelected /\ TrackCoversRow
=============================================================================
