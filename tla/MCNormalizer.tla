---------------------------- MODULE MCNormalizer ----------------------------
(***************************************************************************)
(* TLC instance of the normalizer: an envelope with two flights, one with  *)
(* an update of the first of them, an empty one, one that is malformed,    *)
(* and one whose record has rotted in Kafka.                               *)
(***************************************************************************)
EXTENDS Normalizer

MCMsg == {"pair", "update", "empty", "junk", "rotten"}
MCTraffic == {"update"}
MCPoison == {"junk"} \cap Msg
MCCorrupt == {"rotten"} \cap Msg
MCFlights == [m \in Msg |->
    CASE m = "pair" -> <<"f1", "f2">> [] m = "update" -> <<"f1">> [] OTHER -> <<>>]
=============================================================================
