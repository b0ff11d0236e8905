------------------------------ MODULE MCInputs ------------------------------
(***************************************************************************)
(* TLC instances of what the filter is given, one after the other in one   *)
(* run: the normalizer with the shared loop ("messages"), and the LADD     *)
(* lists on the filter's volume ("volume").  They share no variable; part  *)
(* says which of them a behaviour is of.                                   *)
(***************************************************************************)
EXTENDS MCNormalizer, LaddLifecycle

VARIABLE part

partVars == <<normVars, lifeVars, part>>

PartsInit ==
    /\ NormInit /\ LifeInit
    /\ part \in {"messages", "volume"}

Messages(A) == part = "messages" /\ A /\ UNCHANGED <<lifeVars, part>>
Volume(A) == part = "volume" /\ A /\ UNCHANGED <<normVars, part>>

PartsNext == Messages(NormNext) \/ Volume(LifeNext)

\* NormFairness and LifeFairness.  Of the steps in one
\* conjunct that are of different parts no two are ever enabled in one behaviour, so that
\* it is as fair to each as a conjunct of its own.
PartsFairness ==
    /\ WF_partVars(\/ Messages((Begin \/ Flush \/ Send \/ SkipCommit \/ Restart) /\ Quiet)
                   \/ Volume(Tick \/ ArchiveOthers \/ Boot))
    /\ WF_partVars(\/ Messages(CommitBatch)
                   \/ Volume(PromoteNothing \/ PromoteError \/ \E s \in Dates : Promote(s)))
    /\ WF_partVars(\/ Messages(FetchError /\ stopping /\ Quiet)
                   \/ Volume(\E ok \in BOOLEAN : Copy(ok) \/ Remove(ok)))
    /\ WF_partVars(Volume(LoadError \/ \E d \in Dates : Load(d)))
    /\ SF_partVars(\/ Messages(FetchFirst /\ Quiet)
                   \/ Volume(\E s \in Dates : PromoteRename(s) \/ PromoteCopy(s)))
    /\ SF_partVars(Volume(\E d \in Dates : Load(d)))
    /\ \A w \in Worker : WF_partVars(Messages(Process(w)))

PartsSpec == PartsInit /\ [][PartsNext]_partVars /\ PartsFairness
=============================================================================
