------------------------------ MODULE RawTopic ------------------------------
(***************************************************************************)
(* The topic fixm.raw, which the bridge (or its dev replay) writes and the *)
(* census tool reads: one partition, a sequence of records.                *)
(***************************************************************************)
EXTENDS Naturals, Sequences, FiniteSets

VARIABLE
    \* the records of fixm.raw in offset order
    raw

\* A producer's send is stored at the end of the partition.
Store(record) == raw' = Append(raw, record)
=============================================================================
