------------------------------ MODULE MCFilter ------------------------------
(***************************************************************************)
(* TLC instance of the filter: a flight named in every list (in another    *)
(* spelling), one named in the second list only, by registration, a        *)
(* message that does not parse, and one whose record has rotted in Kafka.  *)
(***************************************************************************)
EXTENDS Filter

MCMsg == {"listed", "late", "junk", "rotten"}
MCLate == {"late"}
MCPoison == {"junk"} \cap Msg
MCCorrupt == {"rotten"} \cap Msg
MCCallSign == [m \in Msg |->
    CASE m = "listed" -> "aal1" [] m = "late" -> "" [] OTHER -> " "]
MCRegistration == [m \in Msg |->
    CASE m = "late" -> " N7 " [] OTHER -> " "]
MCnormalize == [i \in {"aal1", "AAL1", "N7", " N7 ", " ", ""} |->
    CASE i = "aal1" -> "AAL1" [] i = " N7 " -> "N7" [] i = " " -> "" [] OTHER -> i]
First == [date |-> 1, ids |-> {"AAL1", " "}]
Second == [date |-> 2, ids |-> {"AAL1", "N7"}]
MCLists == {First, Second}
MCFirst == {First}
=============================================================================
