------------------------------- MODULE Ingest -------------------------------
(***************************************************************************)
(* The head of the pipeline: the bridge, live or replaying a seed (ISDEV). *)
(* Live, the census tool reads the topic fixm.raw that the bridge writes.  *)
(***************************************************************************)
EXTENDS Bridge, Replay, Census

CONSTANT MaxTrouble     \* bound: faults of both processes together

\* What the census reads of a message is a sequence of texts.
ASSUME IngestAssumption == \A m \in 1..MaxQueue : Elements(m) \in Seq(STRING)

VARIABLE dev    \* ISDEV: which of the two producers this deployment runs

ingestVars == <<bridgeVars, replayVars, censusVars, dev>>

IngestInit ==
    /\ raw = <<>> /\ dev \in BOOLEAN
    /\ BridgeInit /\ ReplayInit /\ CensusInit

\* Steps of one process leave the others alone.
Live(A) == ~dev /\ A /\ UNCHANGED <<replayVars, censusVars, dev>>
Dev(A) == dev /\ A /\ UNCHANGED <<bridgeVars, censusVars, dev>>
Observing(A) ==
    ~dev /\ A /\ UNCHANGED <<listener, sends, failures, restarts, replayVars, dev>>

Trouble == failures + restarts + crashes + stops + rebalances + errors

IngestNext ==
    /\ Live(BridgeNext) \/ Dev(ReplayNext) \/ Observing(CensusNext)
    /\ Trouble' <= MaxTrouble

\* The producer ends its sends (delivery.timeout.ms); the listener and the
\* goroutines of the census are scheduled; Kubernetes restarts its container.
\* Fetch returns a message that is there: records that rot in Kafka, on which it would
\* stay for ever, are modelled in BatchLoop and DatabaseWriter, not here.
IngestFairness ==
    /\ WF_ingestVars(Live(OnMessage)) /\ WF_ingestVars(Live(Confirm))
    /\ WF_ingestVars(Observing(FetchLoop)) /\ WF_ingestVars(Observing(Ticker))
    /\ WF_ingestVars(Observing(FinalSave)) /\ WF_ingestVars(Observing(CensusStart))

IngestSpec == IngestInit /\ [][IngestNext]_ingestVars /\ IngestFairness

\* In a live deployment every message of the queue reaches fixm.raw, unless one
\* the listener cannot read stands before it.
LiveForwards == ~dev => EveryForwarded
=============================================================================
