------------------------------- MODULE Bridge -------------------------------
(***************************************************************************)
(* bridge: FixmListener.onMessage moves messages from a Solace queue to    *)
(* the topic fixm.raw.  The JMS session is CLIENT_ACKNOWLEDGE with one     *)
(* consumer: acknowledging a message acknowledges all that the session has *)
(* consumed, and an exception out of the listener makes the container      *)
(* recover the session, which delivers from the oldest unacknowledged      *)
(* message again.                                                          *)
(***************************************************************************)
EXTENDS RawTopic

CONSTANTS
    MaxQueue,       \* bound: messages SWIM puts in the queue; message i is the i-th
    MaxFailures,    \* bound: sends and acknowledgements that fail
    MaxRestarts,     \* bound: deaths of the bridge
    Unhandled       \* messages that are neither Text nor Bytes

ASSUME BridgeAssumption ==
    /\ MaxQueue \in Nat /\ MaxFailures \in Nat /\ MaxRestarts \in Nat
    /\ Unhandled \subseteq 1..MaxQueue

VARIABLES
    acked,      \* the queue has dropped messages 1..acked
    consumed,   \* the last message this session was given
    sends,      \* sends the producer has not ended yet, oldest first
    waiting,    \* onMessage is in kafka.send(..).get, for the last of sends
    confirmed,  \* the get has returned: onMessage is about to acknowledge
    failures,   \* the listener's counter, with failed acknowledgements
    restarts     \* deaths of the process

listener == <<acked, consumed, waiting, confirmed>>
bridgeVars == <<raw, listener, sends, failures, restarts>>

BridgeInit ==
    /\ acked = 0 /\ consumed = 0
    /\ sends = <<>> /\ waiting = FALSE /\ confirmed = FALSE
    /\ failures = 0 /\ restarts = 0

BridgeTypeOK ==
    /\ raw \in Seq(1..MaxQueue) /\ sends \in Seq(1..MaxQueue)
    /\ acked \in 0..MaxQueue /\ consumed \in acked..MaxQueue
    /\ waiting \in BOOLEAN /\ confirmed \in BOOLEAN
    /\ failures \in 0..MaxFailures /\ restarts \in 0..MaxRestarts

\* The listener is between two calls of onMessage, and there is a message.
Deliverable == ~waiting /\ ~confirmed /\ consumed < MaxQueue

\* The container recovers the session after an exception: what is not
\* acknowledged is delivered again.
Recover == consumed' = acked /\ waiting' = FALSE /\ confirmed' = FALSE /\ UNCHANGED acked

\* extractBody throws before anything is sent; the message is redelivered.
RejectType ==
    /\ Deliverable /\ consumed + 1 \in Unhandled
    /\ Recover
    /\ UNCHANGED <<raw, sends, failures, restarts>>

\* Mutant: acknowledge as soon as the body is handed over.
SendAndAck ==
    /\ Deliverable /\ consumed + 1 \notin Unhandled
    /\ consumed' = consumed + 1 /\ acked' = consumed + 1
    /\ sends' = Append(sends, consumed + 1)
    /\ UNCHANGED <<raw, waiting, confirmed, failures, restarts>>

\* onMessage hands the body to the producer and waits.
Send ==
    /\ Deliverable /\ consumed + 1 \notin Unhandled
    /\ consumed' = consumed + 1
    /\ sends' = Append(sends, consumed + 1)
    /\ waiting' = TRUE
    /\ UNCHANGED <<raw, acked, confirmed, failures, restarts>>

\* The listener waits for the send that the producer ends next.
Own == waiting /\ Len(sends) = 1

\* The brokers confirm the oldest send.  The producer is idempotent, so it
\* stores what it was given once and in order, its own retries included.  If the
\* listener still waits for it, the get returns.
Confirm ==
    /\ sends # <<>>
    /\ Store(Head(sends))
    /\ sends' = Tail(sends)
    /\ waiting' = (waiting /\ ~Own) /\ confirmed' = (confirmed \/ Own)
    /\ UNCHANGED <<acked, consumed, failures, restarts>>

\* Mutant: the exception is logged and not rethrown, so the session goes on.
CatchSwallows ==
    /\ failures < MaxFailures
    /\ failures' = failures + 1
    /\ waiting' = FALSE /\ confirmed' = FALSE /\ UNCHANGED <<acked, consumed>>

\* The catch of onMessage: count, rethrow.
Catch ==
    /\ failures < MaxFailures
    /\ failures' = failures + 1
    /\ Recover

\* The get gives up after 30 seconds; the producer does not.
Timeout ==
    /\ waiting
    /\ Catch
    /\ UNCHANGED <<raw, sends, restarts>>

\* The producer gives up a send (retries exhausted); the record may have been
\* stored all the same.  Whoever still waits for it gets the exception.
SendError ==
    /\ sends # <<>>
    /\ UNCHANGED raw \/ Store(Head(sends))
    /\ sends' = Tail(sends)
    /\ IF Own THEN Catch ELSE UNCHANGED <<listener, failures>>
    /\ UNCHANGED restarts

\* message.acknowledge(): everything this session consumed.
Acknowledge ==
    /\ confirmed
    /\ acked' = consumed /\ confirmed' = FALSE
    /\ UNCHANGED <<raw, consumed, sends, waiting, failures, restarts>>

\* acknowledge throws: the message is redelivered although it is in Kafka.
AcknowledgeError ==
    /\ confirmed
    /\ Catch
    /\ UNCHANGED <<raw, sends, restarts>>

\* The process dies and a new session begins; the sends it had under way are
\* stored up to some point.
BridgeCrash ==
    /\ restarts < MaxRestarts
    /\ \E n \in 0..Len(sends) : raw' = raw \o SubSeq(sends, 1, n)
    /\ sends' = <<>>
    /\ Recover
    /\ restarts' = restarts + 1
    /\ UNCHANGED failures

OnMessage == RejectType \/ Send \/ Acknowledge

BridgeNext ==
    \/ RejectType \/ Send \/ Confirm \/ Timeout \/ SendError
    \/ Acknowledge \/ AcknowledgeError \/ BridgeCrash

BridgeSpec == raw = <<>> /\ BridgeInit /\ [][BridgeNext]_bridgeVars

-----------------------------------------------------------------------------
\* Every acknowledged message is in Kafka: a crash, a timeout or a failed send
\* at any point never loses one ("never drop data").
AckedIsStored == \A m \in 1..acked : \E k \in DOMAIN raw : raw[k] = m

\* A message first appears in fixm.raw after every message that was before it
\* in the queue, however often sends time out and are redelivered.
FirstCopiesInOrder ==
    \A k \in DOMAIN raw : \A m \in 1..raw[k] : \E l \in 1..k : raw[l] = m

\* Every copy beyond the first stems from a failed wait, a failed
\* acknowledgement or a death: the sends made are the messages acknowledged,
\* the one in hand, and one for each of those.
CopiesAccounted ==
    Len(raw) + Len(sends) <=
        acked + (IF waiting \/ confirmed THEN 1 ELSE 0) + failures + restarts

\* The bridge loses nothing it acknowledged, keeps the queue's order of first copies and
\* makes no copy without cause.  It is inductive with this: the one message consumed
\* and not acknowledged is the one in hand, and what is under way, like what is
\* stored, never runs ahead of what is stored before it.
BridgeInv ==
    /\ BridgeTypeOK
    /\ AckedIsStored /\ FirstCopiesInOrder /\ CopiesAccounted
    /\ ~(waiting /\ confirmed)
    /\ consumed = (IF waiting \/ confirmed THEN acked + 1 ELSE acked)
    /\ confirmed => \E k \in DOMAIN raw : raw[k] = consumed
    /\ waiting => sends # <<>> /\ sends[Len(sends)] = consumed
    /\ \A i \in DOMAIN sends : sends[i] <= acked + 1

\* Every queued message reaches Kafka, unless one the listener cannot read
\* stands before it: that one is redelivered for ever.
EveryForwarded ==
    <>(\A m \in 1..MaxQueue :
           1..m \cap Unhandled = {} => \E k \in DOMAIN raw : raw[k] = m)
=============================================================================
