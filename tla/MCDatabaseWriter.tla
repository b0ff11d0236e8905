-------------------------- MODULE MCDatabaseWriter --------------------------
(***************************************************************************)
(* TLC instance of the database-writer: one flight that is active, dropped *)
(* and active again, with timestamps that tie and run backwards and route  *)
(* fields that come and change; a message without GUFI, one that does not  *)
(* parse, and one that cannot be read.                                     *)
(***************************************************************************)
EXTENDS DatabaseWriter

\* [status, timestamp, origin, destination]
Feed == [act1 |-> <<"ACTIVE", 1, "KJFK", "none">>,
         drop1 |-> <<"DROPPED", 1, "none", "none">>,
         drop2 |-> <<"DROPPED", 2, "none", "KSEA">>,
         act2 |-> <<"ACTIVE", 2, "KBOS", "KSEA">>,
         blank |-> <<"none", 2, "none", "none">>]
MCMsg == {"act1", "drop1", "drop2", "act2", "nogufi", "junk", "rotten"}
MCTie == {"act1", "drop1"}
Content(m) == IF m \in DOMAIN Feed THEN Feed[m] ELSE Feed["blank"]
MCCorrupt == {"rotten"} \cap Msg
MCPoison == {"junk"} \cap Msg
MCGufiOf == [m \in Msg |-> IF m \in DOMAIN Feed THEN "g" ELSE "none"]
MCStatusOf == [m \in Msg |-> Content(m)[1]]
MCTimeOf == [m \in Msg |-> Content(m)[2]]
MCOriginOf == [m \in Msg |-> Content(m)[3]]
MCDestOf == [m \in Msg |-> Content(m)[4]]
MCHasPosition == {"act1", "act2"} \cap Msg
=============================================================================
