------------------------------- MODULE MCLive -------------------------------
(***************************************************************************)
(* TLC instances of the ends of the pipeline that people meet, one after   *)
(* the other in one run: the cache-writer on a topic ("cache"), the map's  *)
(* polls on a cache that changes ("map"), Parse on one update ("parse"),   *)
(* and a LADD list on its way from the operator over the admin service and *)
(* the Secret to the filter ("delivery").  They share no variable; part    *)
(* says which of them a behaviour is of.                                   *)
(*                                                                         *)
(* The topic: one flight that moves, hovers without a velocity, sends no   *)
(* position, and lands; a message that does not parse; and a second flight.*)
(* The uploads: a list of day 2, its correction of the same day, one of    *)
(* day 3 that is ahead of the clock at first, and one that the operator    *)
(* did not sign.                                                           *)
(***************************************************************************)
EXTENDS CacheWriter, MCLiveMap, FlightParse, ListDelivery

MCMsg == {"moving", "hovering", "silent", "landed", "other", "junk"}
MCPoison == {"junk"}
MCGufiOf == [m \in Msg |-> IF m = "other" THEN "g2" ELSE "g1"]
MCActive == {"moving", "hovering", "silent", "other"}
MCHasPosition == {"moving", "hovering", "landed", "other"}
MCHasHeading == {"moving", "landed"}

\* One position of the feed.
At(sec, digits, fraction, place, track) ==
    [time |-> [sec |-> sec, digits |-> digits, fraction |-> fraction],
     place |-> place, track |-> track]

\* No time, fractions of different length, equal times, unparsable fields, and the
\* turn at north.
MCPosition == {
    At(0, 0, 0, 1, 0),      At(1, 0, 0, 2, -3),     At(1, 1, 50, 3, 9000),
    At(1, 2, 50, 4, None),  At(1, 2, 57, 5, -9000), At(1, 0, 0, 6, None),
    At(2, 1, 10, 7, 18000), At(2, 1, 90, 8, -17996), At(3, 0, 0, None, 4500)}

MCUpload == 1..4
MCDate == <<2, 2, 3, 1>>
MCEntries == <<1, 1, 1, 0>>

VARIABLE part

partVars == <<cacheVars, mapVars, parseVars, deliveryVars, part>>

PartsInit ==
    /\ CacheInit /\ LiveInit /\ ParseInit /\ DeliveryInit
    /\ part \in {"cache", "map", "parse", "delivery"}

CachePart == part = "cache" /\ CacheNext /\ UNCHANGED <<mapVars, parseVars, deliveryVars, part>>
MapPart(A) == part = "map" /\ A /\ UNCHANGED <<cacheVars, parseVars, deliveryVars, part>>
ParsePart == part = "parse" /\ ParseNext /\ UNCHANGED <<cacheVars, mapVars, deliveryVars, part>>

DeliveryPart(A) ==
    part = "delivery" /\ A /\ UNCHANGED <<cacheVars, mapVars, parseVars, part>>

PartsNext == CachePart \/ MapPart(LiveNext) \/ ParsePart \/ DeliveryPart(DeliveryNext)

\* The fairness of LiveSpec and DeliverySpec.  The steps of one conjunct are of different
\* parts, so that it is as fair to each as a conjunct of its own.
PartsFairness ==
    /\ WF_partVars(MapPart(Begin(s1)) \/ DeliveryPart(\E u \in Upload : Handle(u)))
    /\ WF_partVars(MapPart(Begin(s2)) \/ DeliveryPart(Sync))
    /\ WF_partVars(MapPart(Serve(s1)) \/ DeliveryPart(Reload))
    /\ WF_partVars(MapPart(Serve(s2)))

PartsSpec == PartsInit /\ [][PartsNext]_partVars /\ PartsFairness
=============================================================================
