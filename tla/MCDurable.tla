----------------------------- MODULE MCDurable ------------------------------
(***************************************************************************)
(* TLC instances of what the durable record is made of, one after the      *)
(* other in one run: the database-writer on a topic ("writer"), and the    *)
(* migrations with the requests of the record panel ("records").  They     *)
(* share no variable; part says which of them a behaviour is of.           *)
(*                                                                         *)
(* The migrations: a rollout, with a writer of the old release and one of  *)
(* the new one.                                                            *)
(***************************************************************************)
EXTENDS MCDatabaseWriter, Records, TLC

CONSTANTS old, new

MCWriter == {old, new}
MCHas == old :> {1, 2} @@ new :> {1, 2, 4}

VARIABLE part

partVars == <<dbVars, recordsVars, part>>

\* The part that does not run has one initial state.
PartsInit ==
    /\ DbInit /\ RecordsInit
    /\ part \in {"writer", "records"}
    /\ part # "records" => ~durable

WriterPart(A) == part = "writer" /\ A /\ UNCHANGED <<recordsVars, part>>

\* All that the panel's requests have to do with the migrations is that rows are written
\* once a writer is ready, so the requests begin when the migrations of all are done.
Untouched == clicks = 0 /\ \A f \in Flight : written[f] = 0
Migration(A) ==
    /\ part = "records" /\ Untouched
    /\ A /\ UNCHANGED <<tableVars, durable, webVars, dbVars, part>>
Requests(A) ==
    /\ part = "records" /\ \A w \in Writer : at[w] = "ready"
    /\ A /\ UNCHANGED <<migrateVars, dbVars, part>>

PartsNext == WriterPart(DbNext) \/ Migration(MigrateNext) \/ Requests(RecordsNext)

\* DbFairness and the fairness of RecordsSpec.  Of the steps in one conjunct that are of
\* the writer, the migrations and the requests no two are ever enabled at once, so that
\* it is as fair to each as a conjunct of its own.
PartsFairness ==
    /\ WF_partVars(WriterPart(FetchFirst) \/ Migration(EndSession))
    /\ WF_partVars(WriterPart(\E b \in BOOLEAN : Parse(b) \/ Commit(b))
                   \/ Migration(Run(old)) \/ Requests(Serve(1)))
    /\ WF_partVars(WriterPart(Flush \/ BeginTx \/ ExecFlight \/ EndTx \/ Start)
                   \/ Migration(Run(new)) \/ Requests(Serve(2)))

PartsSpec == PartsInit /\ [][PartsNext]_partVars /\ PartsFairness

\* EveryReady, in the behaviours that run the migrations.
WritersReady == part = "records" => EveryReady
=============================================================================
