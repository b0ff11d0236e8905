--------------------------- MODULE Ingest_proofs ---------------------------
(***************************************************************************)
(* The bridge loses no message that it acknowledged and keeps the order of *)
(* first copies, for every queue and every number of failures and deaths.  *)
(* Beside it the census commits only what it has counted, and its snapshot *)
(* file stays readable until a signal arrives, and a field is exactly what *)
(* its observations make it.  What the replay sends in dev mode is the     *)
(* records of the seed in their order, round after round.                  *)
(***************************************************************************)
EXTENDS Ingest, TLAPS, FiniteSetTheorems

\* A set of numbers with an element has a least one, its Min.
LEMMA MinIs ==
    ASSUME NEW S \in SUBSET Nat, S # {}
    PROVE  Min(S) \in S /\ \A y \in S : Min(S) <= y
  <1>1. PICK x \in S : \A y \in S : ~(<<y, x>> \in OpToRel(<, Nat))
    BY NatLessThanWellFounded, WFMin
  <1>2. \A p \in Nat \X Nat : p \in OpToRel(<, Nat) <=> p[1] < p[2]
    BY Zenon DEF OpToRel
  <1>3. \A y \in S : <<y, x>> \in Nat \X Nat /\ <<y, x>>[1] = y /\ <<y, x>>[2] = x
    OBVIOUS
  <1>4. \A y \in S : ~(<<y, x>>[1] < <<y, x>>[2])
    BY <1>1, <1>2, <1>3, Zenon
  <1>5. \A y \in S : x <= y
    BY <1>3, <1>4
  <1> QED BY <1>5 DEF Min

\* A bounded one has a greatest element, its Max.
LEMMA MaxIs ==
    ASSUME NEW n \in Nat, NEW S \in SUBSET (0..n), S # {}
    PROVE  Max(S) \in S /\ \A x \in S : x <= Max(S)
  <1> DEFINE T == {i \in Nat : n - i \in S}
             i == Min(T)
  <1>1. T # {}
    <2>1. PICK x \in S : TRUE
      OBVIOUS
    <2>2. n - x \in Nat /\ n - (n - x) = x
      BY <2>1
    <2> QED BY <2>2
  <1>2. i \in T /\ \A j \in T : i <= j
    <2>1. T \in SUBSET Nat
      OBVIOUS
    <2> HIDE DEF T
    <2> QED BY <1>1, <2>1, MinIs
  <1>3. n - i \in S /\ i \in Nat
    BY <1>2
  <1> HIDE DEF i
  <1>4. ASSUME NEW x \in S PROVE n - i >= x
    <2>1. n - x \in Nat /\ n - (n - x) = x
      OBVIOUS
    <2>2. n - x \in T
      BY <2>1
    <2>3. i <= n - x
      <3> HIDE DEF T
      <3> QED BY <1>2, <2>2
    <2>4. x \in Nat
      OBVIOUS
    <2> QED BY ONLY n \in Nat, <1>3, <2>3, <2>4
  <1>5. \E x \in S : \A y \in S : x >= y
    BY <1>3, <1>4
  <1>6. Max(S) \in S /\ \A y \in S : Max(S) >= y
    BY <1>5 DEF Max
  <1>7. \A y \in S : y \in Nat
    OBVIOUS
  <1> QED BY <1>6, <1>7

\* What AckedIsStored and FirstCopiesInOrder say of a topic and an offset.
Has(r, a) == \A m \in 1..a : \E k \in DOMAIN r : r[k] = m
InOrder(r) == \A k \in DOMAIN r : \A m \in 1..r[k] : \E l \in 1..k : r[l] = m

\* Records no further than one beyond what is acknowledged can be stored behind
\* the others, in any number and order, and no first copy comes too early.
LEMMA StoreMany ==
    ASSUME NEW Q \in Nat, NEW a \in Nat, NEW r \in Seq(1..Q), NEW s \in Seq(1..Q),
           Has(r, a), InOrder(r), \A i \in DOMAIN s : s[i] <= a + 1
    PROVE  Has(r \o s, a) /\ InOrder(r \o s) /\ r \o s \in Seq(1..Q)
  <1>1. /\ r \o s \in Seq(1..Q) /\ DOMAIN (r \o s) = 1..(Len(r) + Len(s))
        /\ DOMAIN r = 1..Len(r) /\ DOMAIN s = 1..Len(s) /\ Len(r) \in Nat /\ Len(s) \in Nat
        /\ \A k \in 1..Len(r) : (r \o s)[k] = r[k]
        /\ \A k \in (Len(r) + 1)..(Len(r) + Len(s)) :
              k - Len(r) \in 1..Len(s) /\ (r \o s)[k] = s[k - Len(r)]
    OBVIOUS
  <1>2. Has(r \o s, a)
    BY <1>1 DEF Has
  <1>3. ASSUME NEW k \in DOMAIN (r \o s), NEW m \in 1..(r \o s)[k]
        PROVE  \E l \in 1..k : (r \o s)[l] = m
    <2>1. CASE k <= Len(r)
      <3>1. PICK l \in 1..k : r[l] = m
        BY <1>1, <1>3, <2>1 DEF InOrder
      <3>2. QED
        BY <1>1, <2>1, <3>1
    <2>2. CASE k > Len(r) /\ m = (r \o s)[k]
      BY <1>1, <2>2
    <2>3. CASE k > Len(r) /\ m # (r \o s)[k]
      <3>1. s[k - Len(r)] \in 1..Q /\ s[k - Len(r)] <= a + 1 /\ (r \o s)[k] = s[k - Len(r)]
        BY <1>1, <2>3
      <3>2. m \in 1..a
        BY <3>1, <2>3
      <3>3. PICK l \in DOMAIN r : r[l] = m
        BY <3>2 DEF Has
      <3>4. QED
        BY <1>1, <2>3, <3>3
    <2>4. k <= Len(r) \/ k > Len(r)
      BY <1>1
    <2>5. QED
      BY <2>1, <2>2, <2>3, <2>4
  <1>4. QED
    BY <1>1, <1>2, <1>3 DEF InOrder

\* The same for one record, which is then there.
LEMMA StoreOne ==
    ASSUME NEW Q \in Nat, NEW a \in Nat, NEW r \in Seq(1..Q), NEW x \in 1..Q,
           Has(r, a), InOrder(r), x <= a + 1
    PROVE  /\ Has(Append(r, x), a) /\ InOrder(Append(r, x)) /\ Append(r, x) \in Seq(1..Q)
           /\ Len(Append(r, x)) = Len(r) + 1
           /\ \E k \in DOMAIN Append(r, x) : Append(r, x)[k] = x
  <1>1. <<x>> \in Seq(1..Q) /\ Append(r, x) = r \o <<x>>
    OBVIOUS
  <1>2. \A i \in DOMAIN <<x>> : <<x>>[i] <= a + 1
    OBVIOUS
  <1>3. Has(r \o <<x>>, a) /\ InOrder(r \o <<x>>)
    BY <1>1, <1>2, StoreMany
  <1>4. Len(r) + 1 \in DOMAIN Append(r, x) /\ Append(r, x)[Len(r) + 1] = x
    OBVIOUS
  <1>5. QED
    BY <1>1, <1>3, <1>4

-----------------------------------------------------------------------------
(* The invariant, as facts about what the two boolean variables stand for. *)

\* One message is in hand, or none.
InHand == IF waiting \/ confirmed THEN 1 ELSE 0

\* The parts of BridgeInv that do not look at waiting and confirmed one by one.
Core ==
    /\ raw \in Seq(1..MaxQueue) /\ sends \in Seq(1..MaxQueue)
    /\ acked \in Nat /\ consumed \in Nat /\ consumed <= MaxQueue
    /\ failures \in 0..MaxFailures /\ restarts \in 0..MaxRestarts
    /\ Has(raw, acked) /\ InOrder(raw)
    /\ Len(raw) + Len(sends) <= acked + InHand + failures + restarts
    /\ InHand \in {0, 1} /\ consumed = acked + InHand
    /\ \A i \in DOMAIN sends : sends[i] <= acked + 1

\* Where onMessage is.
Flags ==
    /\ waiting \in BOOLEAN /\ confirmed \in BOOLEAN
    /\ ~(waiting /\ confirmed)
    /\ confirmed => \E k \in DOMAIN raw : raw[k] = consumed
    /\ waiting => sends # <<>> /\ sends[Len(sends)] = consumed

\* InHand in the two cases.
LEMMA InHandIs ==
    /\ waiting \/ confirmed => InHand = 1
    /\ ~waiting /\ ~confirmed => InHand = 0
    /\ InHand \in {0, 1}
  BY DEF InHand

\* The same after a step.
LEMMA InHandIsNext ==
    /\ waiting' \/ confirmed' => InHand' = 1
    /\ ~waiting' /\ ~confirmed' => InHand' = 0
    /\ InHand' \in {0, 1}
  BY DEF InHand

\* The invariant is these two parts.
LEMMA InvIsParts == BridgeInv <=> Core /\ Flags
  <1>1. ASSUME BridgeInv PROVE Core /\ Flags
    <2>1. consumed = acked + InHand
      BY <1>1, InHandIs DEF BridgeInv, InHand
    <2>2. Len(raw) + Len(sends) <= acked + InHand + failures + restarts
      BY <1>1 DEF BridgeInv, CopiesAccounted, InHand
    <2>3. Flags
      BY <1>1 DEF BridgeInv, BridgeTypeOK, Flags
    <2>4. acked \in Nat /\ consumed \in Nat /\ consumed <= MaxQueue
      BY <1>1, BridgeAssumption DEF BridgeInv, BridgeTypeOK
    <2>5. QED
      BY <1>1, <2>1, <2>2, <2>3, <2>4, InHandIs
         DEF BridgeInv, BridgeTypeOK, Core, Has, InOrder, AckedIsStored, FirstCopiesInOrder
  <1>2. ASSUME Core, Flags PROVE BridgeInv
    <2>1. consumed = (IF waiting \/ confirmed THEN acked + 1 ELSE acked)
      BY <1>2 DEF Core, InHand
    <2>2. CopiesAccounted
      BY <1>2 DEF Core, CopiesAccounted, InHand
    <2>3. acked \in 0..MaxQueue /\ consumed \in acked..MaxQueue
      BY <1>2, BridgeAssumption DEF Core
    <2>4. QED
      BY <1>2, <2>1, <2>2, <2>3
         DEF BridgeInv, BridgeTypeOK, Core, Flags, Has, InOrder, AckedIsStored, FirstCopiesInOrder
  <1>3. QED
    BY <1>1, <1>2

-----------------------------------------------------------------------------
(* One lemma per action. *)

\* Nothing is in hand when onMessage is called.
LEMMA AtRest ==
    ASSUME Core, ~waiting, ~confirmed
    PROVE  consumed = acked /\ InHand = 0
  BY InHandIs DEF Core

\* The session is recovered: redelivery starts behind what is acknowledged.
LEMMA RecoverParts ==
    ASSUME Recover
    PROVE  /\ consumed' = acked /\ acked' = acked /\ InHand' = 0
           /\ waiting' \in BOOLEAN /\ confirmed' \in BOOLEAN /\ ~waiting' /\ ~confirmed'
  BY InHandIsNext DEF Recover

\* extractBody throws: nothing has moved.
LEMMA RejectTypeInv ==
    ASSUME BridgeInv, RejectType PROVE BridgeInv'
  <1>1. Core /\ Flags
    BY InvIsParts
  <1>2. UNCHANGED <<raw, sends, failures, restarts>> /\ Recover /\ ~waiting /\ ~confirmed
    BY DEF RejectType, Deliverable
  <1>3. Core'
    BY <1>1, <1>2, RecoverParts, AtRest DEF Core, Has, InOrder
  <1>4. Flags'
    BY <1>2, RecoverParts DEF Flags
  <1>5. QED
    BY <1>3, <1>4, InvIsParts, PTL

\* A sequence with one more element, none of them beyond a bound.
LEMMA AppendKeeps ==
    ASSUME NEW S, NEW s \in Seq(S), NEW x \in S, NEW b, x <= b, \A i \in DOMAIN s : s[i] <= b
    PROVE  /\ Append(s, x) \in Seq(S) /\ Len(Append(s, x)) = Len(s) + 1 /\ Len(s) \in Nat
           /\ Append(s, x) # <<>> /\ Append(s, x)[Len(Append(s, x))] = x
           /\ \A i \in DOMAIN Append(s, x) : Append(s, x)[i] <= b
  <1>1. /\ Append(s, x) \in Seq(S) /\ Len(Append(s, x)) = Len(s) + 1 /\ Len(s) \in Nat
        /\ Append(s, x)[Len(s) + 1] = x
    OBVIOUS
  <1>2. Append(s, x) # <<>>
    BY <1>1
  <1>3. \A i \in DOMAIN Append(s, x) : Append(s, x)[i] <= b
    OBVIOUS
  <1>4. QED
    BY <1>1, <1>2, <1>3

\* The body of the next message is handed over.
LEMMA SendInv ==
    ASSUME BridgeInv, Send PROVE BridgeInv'
  <1>1. Core /\ Flags
    BY InvIsParts
  <1>2. /\ raw' = raw /\ acked' = acked /\ failures' = failures /\ restarts' = restarts
        /\ consumed < MaxQueue /\ consumed' = consumed + 1
        /\ sends' = Append(sends, consumed + 1)
    BY DEF Send, Deliverable
  <1>3. waiting' /\ ~confirmed' /\ waiting' \in BOOLEAN /\ confirmed' \in BOOLEAN
    BY <1>1 DEF Send, Deliverable, Flags
  <1>4. consumed = acked /\ InHand = 0 /\ InHand' = 1
    BY <1>1, <1>3, AtRest, InHandIsNext DEF Send, Deliverable
  <1>5. /\ consumed + 1 \in 1..MaxQueue /\ sends' \in Seq(1..MaxQueue)
        /\ Len(sends') = Len(sends) + 1 /\ Len(sends) \in Nat
        /\ sends' # <<>> /\ sends'[Len(sends')] = consumed'
        /\ \A i \in DOMAIN sends' : sends'[i] <= acked + 1
    <2>1. /\ sends \in Seq(1..MaxQueue) /\ acked \in Nat /\ consumed + 1 \in 1..MaxQueue
          /\ \A i \in DOMAIN sends : sends[i] <= acked + 1
      BY <1>1, <1>2, BridgeAssumption DEF Core
    <2>2. consumed + 1 <= acked + 1
      BY <1>4, <2>1
    <2>3. QED
      BY <1>2, <2>1, <2>2, AppendKeeps
  <1>6. Len(raw) \in Nat
    BY <1>1 DEF Core
  <1>7. Core'
    BY <1>1, <1>2, <1>4, <1>5, <1>6, BridgeAssumption DEF Core, Has, InOrder
  <1>8. Flags'
    BY <1>3, <1>5 DEF Flags
  <1>9. QED
    BY <1>7, <1>8, InvIsParts, PTL

\* Elements of a sequence are of its type.
LEMMA Member ==
    ASSUME NEW S, NEW s \in Seq(S), NEW i \in DOMAIN s PROVE s[i] \in S
  OBVIOUS

\* The oldest send is a record that may be stored.
LEMMA HeadStorable ==
    ASSUME Core, sends # <<>>
    PROVE  /\ Head(sends) \in 1..MaxQueue /\ Head(sends) <= acked + 1
           /\ Tail(sends) \in Seq(1..MaxQueue) /\ Len(Tail(sends)) = Len(sends) - 1
           /\ Len(sends) \in Nat /\ Len(sends) > 0 /\ Len(raw) \in Nat
           /\ \A i \in DOMAIN Tail(sends) : Tail(sends)[i] <= acked + 1
           /\ Len(sends) = 1 => Head(sends) = sends[Len(sends)]
           /\ Len(sends) # 1 => /\ Tail(sends) # <<>>
                                /\ Tail(sends)[Len(Tail(sends))] = sends[Len(sends)]
  <1>1. sends \in Seq(1..MaxQueue) /\ Len(sends) \in Nat /\ Len(raw) \in Nat /\ acked \in Nat
    BY DEF Core
  <1>2. Len(sends) > 0 /\ 1 \in DOMAIN sends /\ Head(sends) = sends[1]
    BY <1>1
  <1>3. /\ Tail(sends) \in Seq(1..MaxQueue) /\ Len(Tail(sends)) = Len(sends) - 1
        /\ \A i \in 1..(Len(sends) - 1) : Tail(sends)[i] = sends[i + 1] /\ i + 1 \in DOMAIN sends
        /\ DOMAIN Tail(sends) = 1..(Len(sends) - 1)
    BY <1>1, <1>2
  <1>4. Head(sends) \in 1..MaxQueue /\ Head(sends) <= acked + 1
    <2>1. sends[1] \in 1..MaxQueue
      BY <1>1, <1>2, Member
    <2>2. sends[1] <= acked + 1
      BY <1>2 DEF Core
    <2>3. QED
      BY <1>2, <2>1, <2>2
  <1>5. \A i \in DOMAIN Tail(sends) : Tail(sends)[i] <= acked + 1
    BY <1>3 DEF Core
  <1>6. Len(sends) = 1 => Head(sends) = sends[Len(sends)]
    BY <1>2
  <1>7. ASSUME Len(sends) # 1
        PROVE  Tail(sends) # <<>> /\ Tail(sends)[Len(Tail(sends))] = sends[Len(sends)]
    <2>1. Len(sends) - 1 \in 1..(Len(sends) - 1) /\ Len(Tail(sends)) # 0
      BY <1>1, <1>2, <1>3, <1>7
    <2>2. Tail(sends)[Len(sends) - 1] = sends[Len(sends) - 1 + 1]
      BY <1>3, <2>1
    <2>3. Len(sends) - 1 + 1 = Len(sends)
      BY <1>1
    <2>4. Tail(sends) # <<>>
      BY <2>1
    <2>5. QED
      BY <1>3, <2>2, <2>3, <2>4
  <1>8. QED
    BY <1>1, <1>2, <1>3, <1>4, <1>5, <1>6, <1>7

\* Storing it leaves the topic complete and in order.
LEMMA StoreHead ==
    ASSUME Core, sends # <<>>, Store(Head(sends))
    PROVE  /\ raw' \in Seq(1..MaxQueue) /\ Len(raw') = Len(raw) + 1
           /\ Has(raw', acked) /\ InOrder(raw')
           /\ \E k \in DOMAIN raw' : raw'[k] = Head(sends)
           /\ \A m : (\E k \in DOMAIN raw : raw[k] = m) => \E k \in DOMAIN raw' : raw'[k] = m
  <1>1. Head(sends) \in 1..MaxQueue /\ Head(sends) <= acked + 1
    BY HeadStorable
  <1>2. raw' = Append(raw, Head(sends)) /\ raw \in Seq(1..MaxQueue) /\ MaxQueue \in Nat
    BY BridgeAssumption DEF Store, Core
  <1>3. \A m : (\E k \in DOMAIN raw : raw[k] = m) => \E k \in DOMAIN raw' : raw'[k] = m
    BY <1>1, <1>2
  <1>4. acked \in Nat /\ Has(raw, acked) /\ InOrder(raw)
    BY DEF Core
  <1>5. /\ Has(raw', acked) /\ InOrder(raw') /\ raw' \in Seq(1..MaxQueue)
        /\ Len(raw') = Len(raw) + 1 /\ \E k \in DOMAIN raw' : raw'[k] = Head(sends)
    BY <1>1, <1>2, <1>4, StoreOne
  <1>6. QED
    BY <1>3, <1>5

\* A confirmed send is stored, and the listener's own is ready to be acknowledged.
LEMMA ConfirmInv ==
    ASSUME BridgeInv, Confirm PROVE BridgeInv'
  <1>1. Core /\ Flags
    BY InvIsParts
  <1>2. /\ sends # <<>> /\ Store(Head(sends)) /\ sends' = Tail(sends)
        /\ acked' = acked /\ consumed' = consumed /\ failures' = failures /\ restarts' = restarts
    BY DEF Confirm
  <1>3. /\ waiting' = (waiting /\ ~Own) /\ confirmed' = (confirmed \/ Own)
        /\ (Own <=> waiting /\ Len(sends) = 1)
    BY DEF Confirm, Own
  <1>4. /\ waiting' \in BOOLEAN /\ confirmed' \in BOOLEAN /\ ~(waiting' /\ confirmed')
        /\ waiting' => waiting /\ Len(sends) # 1
        /\ confirmed' => confirmed \/ (waiting /\ Len(sends) = 1)
        /\ waiting' \/ confirmed' <=> waiting \/ confirmed
    BY <1>1, <1>3 DEF Flags
  <1>5. InHand' = InHand
    BY <1>4, InHandIs, InHandIsNext
  <1>6. Core'
    BY <1>1, <1>2, <1>5, HeadStorable, StoreHead, BridgeAssumption DEF Core
  <1>7. confirmed' => \E k \in DOMAIN raw' : raw'[k] = consumed'
    <2>1. CASE confirmed
      BY <1>1, <1>2, <2>1, StoreHead DEF Flags
    <2>2. CASE waiting /\ Len(sends) = 1
      <3>1. Head(sends) = consumed
        BY <1>1, <1>2, <2>2, HeadStorable DEF Flags
      <3>2. QED
        BY <1>1, <1>2, <3>1, StoreHead
    <2>3. QED
      BY <1>4, <2>1, <2>2
  <1>8. waiting' => sends' # <<>> /\ sends'[Len(sends')] = consumed'
    BY <1>1, <1>2, <1>4, HeadStorable DEF Flags
  <1>9. Flags'
    BY <1>4, <1>7, <1>8 DEF Flags
  <1>10. QED
    BY <1>6, <1>9, InvIsParts, PTL

\* The catch: one more failure pays for the copy that redelivery makes.
LEMMA CatchInv ==
    ASSUME Core, Catch, raw' \in Seq(1..MaxQueue), sends' \in Seq(1..MaxQueue),
           Has(raw', acked), InOrder(raw'), Len(raw') + Len(sends') <= Len(raw) + Len(sends),
           \A i \in DOMAIN sends' : sends'[i] <= acked + 1, restarts' = restarts
    PROVE  BridgeInv'
  <1>1. Recover /\ failures' = failures + 1 /\ failures < MaxFailures
    BY DEF Catch
  <1>2. Flags'
    BY <1>1, RecoverParts DEF Flags
  <1>3. /\ Len(raw) \in Nat /\ Len(sends) \in Nat /\ Len(raw') \in Nat /\ Len(sends') \in Nat
        /\ failures \in Nat /\ restarts \in Nat /\ MaxFailures \in Nat
    BY BridgeAssumption DEF Core
  <1>4. Core'
    BY <1>1, <1>3, RecoverParts, BridgeAssumption DEF Core
  <1>5. QED
    BY <1>2, <1>4, InvIsParts, PTL

\* The wait or the acknowledgement fails.
LEMMA TimeoutInv ==
    ASSUME BridgeInv, Timeout \/ AcknowledgeError PROVE BridgeInv'
  <1>1. Core
    BY InvIsParts
  <1>2. Catch /\ raw' = raw /\ sends' = sends /\ restarts' = restarts
    BY DEF Timeout, AcknowledgeError
  <1>3. Len(raw') + Len(sends') <= Len(raw) + Len(sends)
    BY <1>1, <1>2 DEF Core
  <1>4. QED
    BY <1>1, <1>2, <1>3, CatchInv DEF Core

\* A send is given up, stored or not.
LEMMA SendErrorInv ==
    ASSUME BridgeInv, SendError PROVE BridgeInv'
  <1>1. Core /\ Flags
    BY InvIsParts
  <1>2. sends # <<>> /\ sends' = Tail(sends) /\ restarts' = restarts
    BY DEF SendError
  <1>3. /\ raw' \in Seq(1..MaxQueue) /\ Has(raw', acked) /\ InOrder(raw')
        /\ Len(raw') \in {Len(raw), Len(raw) + 1}
        /\ \A m : (\E k \in DOMAIN raw : raw[k] = m) => \E k \in DOMAIN raw' : raw'[k] = m
    <2>1. CASE UNCHANGED raw
      BY <1>1, <2>1 DEF Core
    <2>2. CASE Store(Head(sends))
      BY <1>1, <1>2, <2>2, StoreHead
    <2>3. QED
      BY <2>1, <2>2 DEF SendError
  <1>4. /\ sends' \in Seq(1..MaxQueue) /\ \A i \in DOMAIN sends' : sends'[i] <= acked + 1
        /\ Len(sends') = Len(sends) - 1 /\ Len(sends) \in Nat /\ Len(raw) \in Nat
    BY <1>1, <1>2, HeadStorable
  <1>5. Len(raw') + Len(sends') <= Len(raw) + Len(sends)
    BY <1>3, <1>4
  <1>6. CASE Own
    BY <1>1, <1>2, <1>3, <1>4, <1>5, <1>6, CatchInv DEF SendError
  <1>7. CASE ~Own
    <2>1. /\ acked' = acked /\ consumed' = consumed /\ waiting' = waiting
          /\ confirmed' = confirmed /\ failures' = failures
      BY <1>7 DEF SendError, listener
    <2>2. InHand' = InHand
      BY <2>1 DEF InHand
    <2>3. Core'
      BY <1>1, <1>2, <1>3, <1>4, <1>5, <2>1, <2>2 DEF Core
    <2>4. waiting => Len(sends) # 1
      BY <1>7 DEF Own
    <2>5. waiting' => sends' # <<>> /\ sends'[Len(sends')] = consumed'
      BY <1>1, <1>2, <2>1, <2>4, HeadStorable DEF Flags
    <2>6. Flags'
      BY <1>1, <1>3, <2>1, <2>5 DEF Flags
    <2>7. QED
      BY <2>3, <2>6, InvIsParts, PTL
  <1>8. QED
    BY <1>6, <1>7

\* What is in hand is stored, so the queue may drop it.
LEMMA AcknowledgeInv ==
    ASSUME BridgeInv, Acknowledge PROVE BridgeInv'
  <1>1. Core /\ Flags
    BY InvIsParts
  <1>2. /\ raw' = raw /\ sends' = sends /\ consumed' = consumed
        /\ failures' = failures /\ restarts' = restarts /\ acked' = consumed
    BY DEF Acknowledge
  <1>3. /\ ~waiting' /\ ~confirmed' /\ waiting' \in BOOLEAN /\ confirmed' \in BOOLEAN
        /\ waiting \/ confirmed
    BY <1>1 DEF Acknowledge, Flags
  <1>4. InHand = 1 /\ InHand' = 0 /\ acked' = acked + 1
    BY <1>1, <1>2, <1>3, InHandIs, InHandIsNext DEF Core
  <1>5. \E k \in DOMAIN raw : raw[k] = acked + 1
    BY <1>1, <1>2, <1>4 DEF Acknowledge, Flags
  <1>6. Has(raw, acked + 1)
    BY <1>1, <1>5 DEF Core, Has
  <1>7. \A i \in DOMAIN sends : sends[i] <= acked + 1 + 1
    <2>1. sends \in Seq(1..MaxQueue) /\ acked \in Nat
      BY <1>1 DEF Core
    <2>2. \A i \in DOMAIN sends : sends[i] \in 1..MaxQueue /\ sends[i] <= acked + 1
      BY <1>1, <2>1, Member DEF Core
    <2>3. QED
      BY <2>1, <2>2, BridgeAssumption
  <1>8. Len(raw) \in Nat /\ Len(sends) \in Nat
    BY <1>1 DEF Core
  <1>9. Core'
    BY <1>1, <1>2, <1>4, <1>6, <1>7, <1>8 DEF Core, InOrder
  <1>10. Flags'
    BY <1>3 DEF Flags
  <1>11. QED
    BY <1>9, <1>10, InvIsParts, PTL

\* The length of a concatenation.
LEMMA ConcatLen ==
    ASSUME NEW S, NEW r \in Seq(S), NEW s \in Seq(S) PROVE Len(r \o s) = Len(r) + Len(s)
  OBVIOUS

\* A death pays for the copy that redelivery makes, as a failure does.
LEMMA BridgeCrashInv ==
    ASSUME BridgeInv, BridgeCrash PROVE BridgeInv'
  <1>1. Core
    BY InvIsParts
  <1>2. PICK n \in 0..Len(sends) : raw' = raw \o SubSeq(sends, 1, n)
    BY DEF BridgeCrash
  <1>3. /\ sends' = <<>> /\ Recover /\ failures' = failures
        /\ restarts < MaxRestarts /\ restarts' = restarts + 1
    BY DEF BridgeCrash
  <1>4. /\ raw \in Seq(1..MaxQueue) /\ sends \in Seq(1..MaxQueue) /\ acked \in Nat
        /\ Has(raw, acked) /\ InOrder(raw) /\ MaxQueue \in Nat
        /\ Len(raw) \in Nat /\ Len(sends) \in Nat
    BY <1>1, BridgeAssumption DEF Core
  <1>5. /\ SubSeq(sends, 1, n) \in Seq(1..MaxQueue) /\ Len(SubSeq(sends, 1, n)) = n
        /\ \A i \in DOMAIN SubSeq(sends, 1, n) :
              SubSeq(sends, 1, n)[i] = sends[i] /\ i \in DOMAIN sends
    BY <1>2, <1>4
  <1>6. \A i \in DOMAIN SubSeq(sends, 1, n) : SubSeq(sends, 1, n)[i] <= acked + 1
    BY <1>1, <1>5 DEF Core
  <1>7. raw' \in Seq(1..MaxQueue) /\ Has(raw', acked) /\ InOrder(raw')
    BY <1>2, <1>4, <1>5, <1>6, StoreMany
  <1>8. Len(raw') = Len(raw) + n
    BY <1>2, <1>4, <1>5, ConcatLen
  <1>9. sends' \in Seq(1..MaxQueue) /\ Len(sends') = 0 /\ DOMAIN sends' = {}
    BY <1>3
  <1>10. failures \in Nat /\ restarts \in Nat /\ MaxRestarts \in Nat /\ InHand \in {0, 1}
         /\ n \in Nat /\ n <= Len(sends)
    BY <1>1, <1>2, <1>4, BridgeAssumption DEF Core
  <1>11. Core'
    BY <1>1, <1>3, <1>4, <1>7, <1>8, <1>9, <1>10, RecoverParts, BridgeAssumption DEF Core
  <1>12. Flags'
    BY <1>3, RecoverParts DEF Flags
  <1>13. QED
    BY <1>11, <1>12, InvIsParts, PTL

-----------------------------------------------------------------------------

\* An empty topic and an idle listener.
LEMMA BridgeInitInv ==
    ASSUME raw = <<>>, BridgeInit PROVE BridgeInv
  <1>1. Flags
    BY DEF BridgeInit, Flags
  <1>2. InHand = 0
    BY InHandIs DEF BridgeInit
  <1>3. Core
    BY <1>2, BridgeAssumption DEF BridgeInit, Core, Has, InOrder
  <1>4. QED
    BY <1>1, <1>3, InvIsParts

\* Steps that leave the bridge alone.
LEMMA BridgeStutterInv ==
    ASSUME BridgeInv, UNCHANGED bridgeVars PROVE BridgeInv'
  BY DEF BridgeInv, BridgeTypeOK, AckedIsStored, FirstCopiesInOrder, CopiesAccounted,
     bridgeVars, listener

\* Every step of the bridge preserves its invariant.
LEMMA BridgeStep ==
    ASSUME BridgeInv, [BridgeNext]_bridgeVars PROVE BridgeInv'
  BY RejectTypeInv, SendInv, ConfirmInv, TimeoutInv, SendErrorInv, AcknowledgeInv,
     BridgeCrashInv, BridgeStutterInv DEF BridgeNext

\* Whatever the queue delivers and whichever sends, waits and acknowledgements fail
\* in FixmListener.onMessage, the invariant of the bridge holds.
THEOREM BridgeInvHolds == BridgeSpec => []BridgeInv
  <1>1. raw = <<>> /\ BridgeInit => BridgeInv
    BY BridgeInitInv
  <1>2. BridgeInv /\ [BridgeNext]_bridgeVars => BridgeInv'
    BY BridgeStep
  <1>3. QED
    BY <1>1, <1>2, PTL DEF BridgeSpec

\* onMessage acknowledges a message only when it is in Kafka.
THEOREM AckedIsStoredHolds == BridgeSpec => []AckedIsStored
  <1>1. BridgeInv => AckedIsStored
    BY DEF BridgeInv
  <1>2. QED
    BY <1>1, BridgeInvHolds, PTL

\* The first copies of messages are in fixm.raw in the order of the queue.
THEOREM FirstCopiesInOrderHolds == BridgeSpec => []FirstCopiesInOrder
  <1>1. BridgeInv => FirstCopiesInOrder
    BY DEF BridgeInv
  <1>2. QED
    BY <1>1, BridgeInvHolds, PTL

\* onMessage makes no copy beyond one for each failure and each death.
THEOREM CopiesAccountedHolds == BridgeSpec => []CopiesAccounted
  <1>1. BridgeInv => CopiesAccounted
    BY DEF BridgeInv
  <1>2. QED
    BY <1>1, BridgeInvHolds, PTL

-----------------------------------------------------------------------------
(* The census.                                                             *)

\* The numbers and names of CensusInv, and the counts; stopping is apart.
TalliesOK ==
    /\ crashes \in Nat /\ stops \in Nat /\ rebalances \in Nat /\ errors \in Nat
    /\ crashes + stops + rebalances + errors \in 0..MaxFaults
ReaderOK ==
    /\ pos \in 0..MaxRaw /\ committed \in 0..MaxRaw /\ last \in 0..MaxRaw /\ commit \in 0..MaxRaw
    /\ loop \in {"fetch", "observed", "final", "down"}
    /\ lost \subseteq 1..MaxRaw
SaversOK ==
    /\ save \in [Saver -> {"idle", "opened", "written", "saved", "commit"}]
    /\ handle \in [Saver -> {"none", "tmp", "snap"}]
CensusParts ==
    TalliesOK /\ ReaderOK /\ SaversOK /\ CountsOK /\ (stops = 0 => OneSaver)

LEMMA CensusInvIsParts == CensusInv <=> CensusParts /\ stopping \in BOOLEAN
  BY DEF CensusInv, CensusParts, CensusTypeOK, TalliesOK, ReaderOK, SaversOK

\* The census looks at no record beyond the bound, and commits none.
LEMMA SaverIs == "ticker" \in Saver /\ "final" \in Saver /\ \A w \in Saver : w = "ticker" \/ w = "final"
  BY DEF Saver

\* A fresh accumulator has counted nothing.
LEMMA FreshCounts == HasCounts(NewAccumulator)
  BY DEF HasCounts, NewAccumulator

\* An accumulator that counts at least as much covers at least as much.
LEMMA CoveredStable ==
  ASSUME NEW n \in 0..MaxRaw, Covered(n), lost \subseteq lost',
         \A o \in 1..MaxRaw : acc.counts[o] > 0 => acc'.counts[o] > 0
  PROVE  \A o \in 1..n : acc'.counts[o] > 0 \/ o \in lost'
  BY CensusAssumption DEF Covered

\* Observe counts one more record and forgets none.
LEMMA ObserveCounts ==
  ASSUME HasCounts(acc), NEW o \in 1..MaxRaw, Observe(o)
  PROVE  /\ HasCounts(acc)'
         /\ acc'.counts[o] > 0
         /\ \A p \in 1..MaxRaw : acc.counts[p] > 0 => acc'.counts[p] > 0
<1>1. acc'.counts = [acc.counts EXCEPT ![o] = @ + 1]
  BY DEF Observe
<1>2. ASSUME NEW c \in [1..MaxRaw -> Nat], NEW d, d = [c EXCEPT ![o] = @ + 1]
      PROVE  /\ d \in [1..MaxRaw -> Nat] /\ d[o] > 0
             /\ \A p \in 1..MaxRaw : c[p] > 0 => d[p] > 0
  BY <1>2
<1> QED BY <1>1, <1>2 DEF HasCounts

\* Fetch counts the record after the reader's position; SetLast notes it.
LEMMA FetchLoopParts == ASSUME CensusParts, FetchLoop PROVE CensusParts'
<1> USE SaverIs
<1>1. TalliesOK' /\ SaversOK' /\ stops' = stops
  BY DEF CensusParts, TalliesOK, SaversOK, FetchLoop, Fetch, SetLast, StopFetching,
         tallies, saving
<1>2. ReaderOK'
  <2>1. UNCHANGED <<committed, commit, lost>> /\ loop' \in {"fetch", "observed", "final"}
    BY DEF FetchLoop, Fetch, SetLast, StopFetching
  <2>2. pos' \in 0..MaxRaw /\ last' \in 0..MaxRaw
    <3>1. CASE Fetch
      BY <3>1, CensusAssumption DEF CensusParts, ReaderOK, Fetch
    <3>2. CASE SetLast \/ StopFetching
      BY <3>2 DEF CensusParts, ReaderOK, SetLast, StopFetching
    <3> QED BY <3>1, <3>2 DEF FetchLoop
  <2> QED BY <2>1, <2>2 DEF CensusParts, ReaderOK
<1>3. CountsOK'
  <2>1. UNCHANGED <<snap, tmp, data, save, committed, commit, lost>>
    BY DEF FetchLoop, Fetch, SetLast, StopFetching, saving
  <2>2. loop # "down" /\ loop' # "down"
    BY DEF FetchLoop, Fetch, SetLast, StopFetching
  <2>3. CASE Fetch
    <3>1. pos + 1 \in 1..MaxRaw
      BY <2>3, CensusAssumption DEF CensusParts, ReaderOK, Fetch
    <3>2. /\ HasCounts(acc)' /\ acc'.counts[pos + 1] > 0
          /\ \A p \in 1..MaxRaw : acc.counts[p] > 0 => acc'.counts[p] > 0
      BY <2>3, <3>1, ObserveCounts DEF CensusParts, CountsOK, Fetch
    <3>3. \A n \in 0..MaxRaw : Covered(n) =>
             \A o \in 1..n : acc'.counts[o] > 0 \/ o \in lost'
      BY <2>1, <3>2, CoveredStable
    <3>4. Covered(committed)' /\ Covered(last)' /\ Covered(commit)'
      BY <2>1, <2>2, <2>3, <3>3 DEF CensusParts, CountsOK, ReaderOK, Fetch, Covered
    <3>5. Covered(pos)'
      <4>1. \A o \in 1..pos : acc'.counts[o] > 0 \/ o \in lost'
        BY <2>2, <3>3 DEF CensusParts, CountsOK, ReaderOK
      <4>2. pos' = pos + 1 /\ pos \in Nat
        BY <2>3, CensusAssumption DEF Fetch, CensusParts, ReaderOK
      <4> QED BY <3>2, <4>1, <4>2 DEF Covered
    <3> QED BY <2>1, <2>2, <3>2, <3>4, <3>5 DEF CensusParts, CountsOK, HasCounts
  <2>4. CASE SetLast \/ StopFetching
    <3>1. acc' = acc /\ pos' = pos /\ last' \in {last, pos}
      BY <2>4 DEF SetLast, StopFetching
    <3> QED BY <2>1, <2>2, <3>1 DEF CensusParts, CountsOK, HasCounts, Covered
  <2> QED BY <2>3, <2>4 DEF FetchLoop
<1>4. stops' = 0 => OneSaver'
  BY <1>1 DEF CensusParts, OneSaver, FetchLoop, Fetch, SetLast, StopFetching, saving
<1> QED BY <1>1, <1>2, <1>3, <1>4 DEF CensusParts

\* Opening the temporary file and writing it touch neither the counts in memory nor
\* an offset.
LEMMA WriteParts ==
  ASSUME CensusParts, NEW w \in Saver, OpenTmp(w) \/ WriteSnapshot(w)
  PROVE  CensusParts'
<1> USE SaverIs
<1>1. TalliesOK' /\ ReaderOK' /\ stops' = stops
  BY DEF CensusParts, TalliesOK, ReaderOK, OpenTmp, WriteSnapshot, tallies, fetching
<1>2. SaversOK'
  BY DEF CensusParts, SaversOK, OpenTmp, WriteSnapshot
<1>3. CountsOK'
  <2>1. UNCHANGED <<acc, lost, committed, pos, last, commit, loop>> /\ loop # "down"
    BY DEF CensusParts, CountsOK, OpenTmp, WriteSnapshot, fetching, Saver
  <2>2. HasCounts(data[w]) /\ HasCounts(acc) /\ HasCounts(tmp.acc) /\ HasCounts(snap.acc)
    BY DEF CensusParts, CountsOK
  <2>3. HasCounts(tmp.acc)' /\ HasCounts(snap.acc)'
    <3>1. \A f, a : f \in Over(tmp, a) \cup Over(snap, a) \cup {Empty} =>
              f.acc = a \/ f.acc = NewAccumulator
      BY DEF Over, Whole, Torn, Empty, File
    <3>2. tmp' = tmp \/ tmp' = Empty \/ tmp' \in Over(tmp, data[w])
      BY DEF OpenTmp, WriteSnapshot
    <3>3. snap' = snap \/ snap' \in Over(snap, data[w])
      BY DEF OpenTmp, WriteSnapshot
    <3> QED BY <2>2, <3>1, <3>2, <3>3, FreshCounts DEF HasCounts
  <2>4. data' = [v \in Saver |-> data'[v]] /\ \A v \in Saver : HasCounts(data[v])'
    <3>1. data = [v \in Saver |-> data[v]] /\ \A v \in Saver : HasCounts(data[v])
      BY DEF CensusParts, CountsOK
    <3>2. CASE data' = data
      BY <3>1, <3>2 DEF HasCounts
    <3>3. CASE data' = [data EXCEPT ![w] = acc]
      BY <2>2, <3>1, <3>3 DEF HasCounts
    <3> QED BY <3>2, <3>3 DEF OpenTmp, WriteSnapshot
  <2> QED BY <2>1, <2>2, <2>3, <2>4 DEF CensusParts, CountsOK, Covered, HasCounts
<1>4. stops' = 0 => OneSaver'
  <2> SUFFICES ASSUME stops = 0 PROVE OneSaver'
    BY <1>1
  <2>1. OneSaver
    BY DEF CensusParts
  <2>2. CASE OpenTmp(w)
    BY <2>1, <2>2 DEF OneSaver, CensusParts, SaversOK, OpenTmp, Empty, File, fetching
  <2>3. CASE WriteSnapshot(w)
    BY <2>1, <2>3 DEF OneSaver, CensusParts, SaversOK, WriteSnapshot, Over, Whole, File, fetching
  <2> QED BY <2>2, <2>3
<1> QED BY <1>1, <1>2, <1>3, <1>4 DEF CensusParts

\* The end of a process leaves nothing under way.
LEMMA ExitIs ==
  ASSUME Exit
  PROVE  /\ loop' = "down" /\ commit' = 0
         /\ save' = [w \in Saver |-> "idle"] /\ handle' = [w \in Saver |-> "none"]
         /\ \A w \in Saver : save'[w] = "idle" /\ handle'[w] = "none" /\ HasCounts(data'[w])
  BY FreshCounts DEF Exit


\* The counts survive the end of SaveFile and of the process: nothing in memory and no
\* offset changes but the one about to be committed, and files only change places.
LEMMA CountsKept ==
  ASSUME CountsOK, UNCHANGED <<acc, lost, committed, pos, last>>,
         HasCounts(tmp.acc)', HasCounts(snap.acc)',
         data' = [v \in Saver |-> data'[v]], \A v \in Saver : HasCounts(data[v])',
         \/ loop' = loop /\ commit' = commit /\ loop # "down"
         \/ loop' = "down" /\ commit' = 0 /\ \A v \in Saver : save'[v] = "idle"
  PROVE  CountsOK'
  BY DEF CountsOK, HasCounts, Covered

\* SaveFile returns to the ticker, or ends Run, after a rename or an error.
LEMMA SavedParts ==
  ASSUME CensusParts, NEW w \in Saver, Rename(w) \/ SaveError(w)
  PROVE  CensusParts'
<1> USE SaverIs
<1>0. PICK h : Saved(w, h) /\ (SaveError(w) => h = [handle EXCEPT ![w] = "none"])
               /\ h \in [Saver -> {"none", "tmp", "snap"}]
               /\ ((\A v \in Saver : handle[v] = "none") => \A v \in Saver : h[v] = "none")
  <2>1. handle \in [Saver -> {"none", "tmp", "snap"}]
    BY DEF CensusParts, SaversOK
  <2>2. CASE SaveError(w)
    <3>1. Saved(w, [handle EXCEPT ![w] = "none"])
      BY <2>2 DEF SaveError
    <3>2. [handle EXCEPT ![w] = "none"] \in [Saver -> {"none", "tmp", "snap"}]
      BY <2>1
    <3> QED BY <2>1, <3>1, <3>2
  <2>3. CASE Rename(w) /\ ~SaveError(w)
    <3>1. CASE tmp.kind = "none"
      BY <2>1, <2>3, <3>1 DEF Rename
    <3>2. CASE tmp.kind # "none"
      <4> DEFINE g == [v \in Saver |-> CASE handle[v] = "tmp" -> "snap"
                                         [] handle[v] = "snap" -> "none"
                                         [] OTHER -> handle[v]]
      <4>1. Saved(w, g)
        BY <2>3, <3>2 DEF Rename
      <4>2. g \in [Saver -> {"none", "tmp", "snap"}]
        BY <2>1
      <4>3. (\A v \in Saver : handle[v] = "none") => \A v \in Saver : g[v] = "none"
        OBVIOUS
      <4> QED BY <2>3, <4>1, <4>2, <4>3
    <3> QED BY <3>1, <3>2
  <2> QED BY <2>2, <2>3
<1>1. UNCHANGED <<pos, last, acc, committed, stopping, crashes, stops, rebalances, lost>>
  BY DEF Rename, SaveError, tallies
<1>2. TalliesOK'
  BY <1>1, CensusAssumption
  DEF CensusParts, TalliesOK, Rename, SaveError, Fault, tallies
<1>3. loop # "down" /\ save[w] \in {"opened", "written"}
  BY DEF CensusParts, CountsOK, Rename, SaveError
<1>4. \/ Exit
      \/ /\ w = "ticker" /\ loop' = loop /\ commit' = commit
         /\ save' = [save EXCEPT ![w] = "saved"] /\ handle' = h
         /\ data' = [data EXCEPT ![w] = NewAccumulator]
  BY <1>0 DEF Saved
<1>5. SaversOK' /\ ReaderOK'
  <2>1. CASE Exit
    BY <1>1, <2>1, ExitIs, CensusAssumption DEF CensusParts, SaversOK, ReaderOK
  <2>2. CASE ~Exit
    BY <1>0, <1>1, <1>4, <2>2 DEF CensusParts, SaversOK, ReaderOK
  <2> QED BY <2>1, <2>2
<1>6. CountsOK'
  <2>1. HasCounts(tmp.acc)' /\ HasCounts(snap.acc)'
    <3>1. HasCounts(tmp.acc) /\ HasCounts(snap.acc)
      BY DEF CensusParts, CountsOK
    <3>2. NoFile.acc = NewAccumulator /\ Torn.acc = NewAccumulator
      BY DEF NoFile, Torn, File
    <3>3. tmp' = tmp \/ tmp' = NoFile \/ tmp' = Torn
      BY DEF Rename, SaveError
    <3>4. snap' = snap \/ snap' = tmp \/ snap' = Torn
      BY DEF Rename, SaveError
    <3> QED BY <3>1, <3>2, <3>3, <3>4, FreshCounts DEF HasCounts
  <2>2. data' = [v \in Saver |-> data'[v]] /\ \A v \in Saver : HasCounts(data[v])'
    <3>1. CASE Exit
      BY <3>1, FreshCounts DEF Exit, HasCounts
    <3>2. CASE data' = [data EXCEPT ![w] = NewAccumulator]
      BY <3>2, FreshCounts DEF CensusParts, CountsOK, HasCounts
    <3> QED BY <1>4, <3>1, <3>2
  <2>3. \/ loop' = loop /\ commit' = commit /\ loop # "down"
        \/ loop' = "down" /\ commit' = 0 /\ \A v \in Saver : save'[v] = "idle"
    BY <1>3, <1>4, ExitIs
  <2> QED BY <1>1, <2>1, <2>2, <2>3, CountsKept DEF CensusParts
<1>7. stops' = 0 => OneSaver'
  <2> SUFFICES ASSUME stops = 0 PROVE OneSaver'
    BY <1>1
  <2>1. OneSaver
    BY DEF CensusParts
  <2>2. w = "ticker"
    BY <1>3, <2>1 DEF OneSaver
  <2>3. ~Exit
    BY <1>0, <2>1, <2>2 DEF Saved, Exit, OneSaver, CensusParts, SaversOK
  <2>4. save' = [save EXCEPT !["ticker"] = "saved"] /\ loop' = loop /\ handle' = h
    BY <1>4, <2>2, <2>3
  <2>5. snap'.kind \in {"none", "whole"}
    <3>1. CASE Rename(w)
      BY <2>1, <2>2, <3>1 DEF Rename, OneSaver
    <3>2. CASE SaveError(w)
      BY <2>1, <2>2, <3>2 DEF SaveError, OneSaver
    <3> QED BY <3>1, <3>2
  <2>6. h["ticker"] = "none" /\ h["final"] = "none"
    <3>1. CASE Rename(w)
      BY <1>0, <2>1, <2>2, <3>1 DEF Rename, OneSaver
    <3>2. CASE SaveError(w)
      BY <1>0, <2>1, <2>2, <3>2 DEF OneSaver, CensusParts, SaversOK
    <3> QED BY <3>1, <3>2
  <2>7. save'["ticker"] = "saved" /\ save'["final"] = "idle"
    BY <2>1, <2>4 DEF OneSaver, CensusParts, SaversOK
  <2> QED BY <1>1, <2>1, <2>4, <2>5, <2>6, <2>7 DEF OneSaver
<1> QED BY <1>2, <1>5, <1>6, <1>7 DEF CensusParts

\* The ticker commits the last record observed, which is counted.
LEMMA TickerParts == ASSUME CensusParts, ReadLast \/ CommitLast PROVE CensusParts'
<1> USE SaverIs
<1>1. TalliesOK' /\ stops' = stops
  BY DEF CensusParts, TalliesOK, ReadLast, CommitLast, tallies
<1>2. UNCHANGED <<pos, last, loop, acc, stopping, data, handle, tmp, snap, lost>>
  BY DEF ReadLast, CommitLast, fetching
<1>3. SaversOK'
  BY <1>2 DEF CensusParts, SaversOK, ReadLast, CommitLast
<1>4. ReaderOK'
  BY <1>2, CensusAssumption DEF CensusParts, ReaderOK, ReadLast, CommitLast
<1>5. CountsOK'
  <2>1. loop # "down"
    BY DEF CensusParts, CountsOK, ReadLast, CommitLast
  <2>2. committed' \in {committed, commit} /\ commit' \in {last, 0}
    BY DEF ReadLast, CommitLast
  <2>3. Covered(committed)' /\ Covered(pos)' /\ Covered(last)' /\ Covered(commit)'
    BY <1>2, <2>1, <2>2 DEF CensusParts, CountsOK, Covered
  <2> QED BY <1>2, <2>1, <2>3 DEF CensusParts, CountsOK, HasCounts
<1>6. stops' = 0 => OneSaver'
  BY <1>1, <1>2 DEF CensusParts, OneSaver, SaversOK, ReadLast, CommitLast
<1> QED BY <1>1, <1>3, <1>4, <1>5, <1>6 DEF CensusParts

\* A signal, a death, a new process and a rebalance.
LEMMA CensusFaultParts ==
  ASSUME CensusParts, CensusSignal \/ CensusCrash \/ CensusStart \/ CensusRebalance
  PROVE  CensusParts'
<1> USE SaverIs
<1>1. TalliesOK'
  BY CensusAssumption
  DEF CensusParts, TalliesOK, CensusSignal, CensusCrash, CensusStart, CensusRebalance,
      Fault, tallies
<1>2. CASE CensusSignal
  <2>1. UNCHANGED <<pos, last, loop, acc, committed, save, data, handle, tmp, snap, commit, lost>>
        /\ stops' # 0
    BY <1>2 DEF CensusSignal, fetching, saving, CensusParts, TalliesOK
  <2>2. SaversOK' /\ ReaderOK'
    BY <2>1 DEF CensusParts, SaversOK, ReaderOK
  <2>3. CountsOK'
    BY <2>1 DEF CensusParts, CountsOK, HasCounts, Covered
  <2> QED BY <1>1, <2>1, <2>2, <2>3 DEF CensusParts
<1>3. CASE CensusCrash
  <2>1. UNCHANGED <<pos, last, acc, committed, stopping, tmp, snap, stops, lost>> /\ Exit
    BY <1>3 DEF CensusCrash
  <2>2. SaversOK' /\ ReaderOK'
    BY <2>1, ExitIs, CensusAssumption DEF CensusParts, SaversOK, ReaderOK
  <2>3. data' = [v \in Saver |-> data'[v]] /\ \A v \in Saver : HasCounts(data[v])'
    BY <2>1, FreshCounts DEF Exit, HasCounts
  <2>4. HasCounts(tmp.acc)' /\ HasCounts(snap.acc)'
    BY <2>1 DEF CensusParts, CountsOK, HasCounts
  <2>5. CountsOK'
    BY <2>1, <2>3, <2>4, ExitIs, CountsKept DEF CensusParts
  <2>6. stops' = 0 => OneSaver'
    BY <2>1, ExitIs DEF CensusParts, OneSaver
  <2> QED BY <1>1, <2>2, <2>5, <2>6 DEF CensusParts
<1>4. CASE CensusStart
  <2>1. UNCHANGED <<committed, save, data, handle, tmp, snap, commit, stops>>
    BY <1>4 DEF CensusStart, saving, tallies
  <2>2. loop' = "fetch" /\ pos' = committed /\ last' = 0 /\ acc' = LoadFile
    BY <1>4 DEF CensusStart
  <2>3. HasCounts(acc)'
    BY <2>2, FreshCounts DEF LoadFile, CensusParts, CountsOK, HasCounts
  <2>4. lost' = lost \cup {o \in 1..committed : acc'.counts[o] = 0}
    BY <1>4, <2>2 DEF CensusStart
  <2>5. ReaderOK' /\ SaversOK'
    <3>1. lost' \subseteq 1..MaxRaw
      <4>1. 1..committed \subseteq 1..MaxRaw /\ lost \subseteq 1..MaxRaw
        BY CensusAssumption DEF CensusParts, ReaderOK
      <4> QED BY <2>4, <4>1, Zenon
    <3>2. SaversOK'
      BY <2>1 DEF CensusParts, SaversOK
    <3> QED BY <2>1, <2>2, <3>1, <3>2, CensusAssumption DEF CensusParts, ReaderOK
  <2>6. Covered(committed)'
    <3>1. \A o \in 1..committed : acc'.counts[o] \in Nat
      BY <2>3, CensusAssumption DEF HasCounts, CensusParts, ReaderOK
    <3> QED BY <2>1, <2>4, <3>1 DEF Covered
  <2>7. commit' = 0
    BY <1>4, <2>1 DEF CensusStart, CensusParts, CountsOK
  <2>8. CountsOK'
    BY <2>1, <2>2, <2>3, <2>6, <2>7 DEF CensusParts, CountsOK, HasCounts, Covered
  <2>9. stops' = 0 => OneSaver'
    <3>1. stopping' = FALSE
      BY <1>4 DEF CensusStart
    <3> QED BY <2>1, <2>2, <3>1 DEF CensusParts, OneSaver
  <2> QED BY <1>1, <2>5, <2>8, <2>9 DEF CensusParts
<1>5. CASE CensusRebalance
  <2>1. UNCHANGED <<last, loop, acc, committed, stopping, save, data, handle, tmp, snap,
                    commit, stops, lost>>
        /\ pos' = committed
    BY <1>5 DEF CensusRebalance, saving
  <2>2. SaversOK' /\ ReaderOK'
    BY <2>1 DEF CensusParts, SaversOK, ReaderOK
  <2>3. CountsOK'
    BY <2>1 DEF CensusParts, CountsOK, HasCounts, Covered
  <2>4. stops' = 0 => OneSaver'
    BY <2>1 DEF CensusParts, OneSaver
  <2> QED BY <1>1, <2>2, <2>3, <2>4 DEF CensusParts
<1> QED BY <1>2, <1>3, <1>4, <1>5

\* Every step of the census preserves its invariant.
LEMMA CensusStep == ASSUME CensusInv, [CensusNext]_censusVars PROVE CensusInv'
<1>1. CensusParts /\ stopping \in BOOLEAN
  BY CensusInvIsParts
<1>2. stopping' \in BOOLEAN
  BY <1>1, Zenon
  DEF CensusNext, FetchLoop, Ticker, FinalSave, Fetch, SetLast, StopFetching, OpenTmp,
      WriteSnapshot, Rename, SaveError, ReadLast, CommitLast, CensusSignal, CensusCrash,
      CensusStart, CensusRebalance, censusVars
<1>3. CASE CensusNext
  <2> SUFFICES CensusParts'
    BY <1>2 DEF CensusInv, CensusParts, CensusTypeOK, TalliesOK, ReaderOK, SaversOK
  <2>1. CASE FetchLoop
    BY <1>1, <2>1, FetchLoopParts
  <2>2. ASSUME NEW w \in Saver, OpenTmp(w) \/ WriteSnapshot(w) PROVE CensusParts'
    BY <1>1, <2>2, WriteParts
  <2>3. ASSUME NEW w \in Saver, Rename(w) \/ SaveError(w) PROVE CensusParts'
    BY <1>1, <2>3, SavedParts
  <2>4. CASE ReadLast \/ CommitLast
    BY <1>1, <2>4, TickerParts
  <2>5. CASE CensusSignal \/ CensusCrash \/ CensusStart \/ CensusRebalance
    BY <1>1, <2>5, CensusFaultParts
  <2> QED
    BY <1>3, <2>1, <2>2, <2>3, <2>4, <2>5, SaverIs DEF CensusNext, Ticker, FinalSave
<1>4. CASE UNCHANGED censusVars
  BY <1>4
  DEF CensusInv, CensusTypeOK, CountsOK, OneSaver, HasCounts, Covered, censusVars,
      fetching, saving, tallies
<1> QED BY <1>3, <1>4

\* The first start of the census.
LEMMA CensusInitInv == CensusInit => CensusInv
<1> SUFFICES ASSUME CensusInit PROVE CensusInv
  OBVIOUS
<1>1. TalliesOK /\ ReaderOK /\ SaversOK
  BY CensusAssumption DEF CensusInit, TalliesOK, ReaderOK, SaversOK
<1>2. NoFile.acc = NewAccumulator /\ NoFile.kind = "none"
  BY DEF NoFile, File
<1>3. CountsOK
  BY <1>2, FreshCounts DEF CensusInit, CountsOK, HasCounts, Covered
<1>4. OneSaver /\ stopping \in BOOLEAN
  BY <1>2, SaverIs DEF CensusInit, OneSaver
<1> QED BY <1>1, <1>3, <1>4, CensusInvIsParts DEF CensusParts

-----------------------------------------------------------------------------
(* The bridge and the census on the same topic.                            *)

IngestInv == BridgeInv /\ CensusInv

\* A step of one process keeps the invariant of the other: the bridge and the replay
\* leave the state of the census alone, and the census leaves the topic alone.
LEMMA IngestStep == ASSUME IngestInv, [IngestNext]_ingestVars PROVE IngestInv'
<1>1. CASE Live(BridgeNext)
  BY <1>1, BridgeStep, CensusStep DEF IngestInv, Live
<1>2. CASE Dev(ReplayNext) \/ UNCHANGED ingestVars
  BY <1>2, BridgeStep, CensusStep DEF IngestInv, Dev, ingestVars
<1>3. CASE Observing(CensusNext)
  <2>1. raw' = raw
    BY <1>3
    DEF Observing, CensusNext, FetchLoop, Ticker, FinalSave, Fetch, SetLast, StopFetching,
        OpenTmp, WriteSnapshot, Rename, SaveError, ReadLast, CommitLast, CensusSignal,
        CensusCrash, CensusStart, CensusRebalance
  <2>2. UNCHANGED bridgeVars
    BY <1>3, <2>1 DEF Observing, bridgeVars
  <2> QED BY <1>3, <2>2, BridgeStep, CensusStep DEF IngestInv, Observing
<1> QED BY <1>1, <1>2, <1>3 DEF IngestNext

\* The invariants of the bridge and of the census hold together, whichever of the two
\* producers writes fixm.raw and however their faults interleave.
THEOREM IngestInvHolds == IngestSpec => []IngestInv
<1>1. IngestInit => IngestInv
  BY BridgeInitInv, CensusInitInv DEF IngestInit, IngestInv
<1>2. IngestInv /\ [IngestNext]_ingestVars => IngestInv'
  BY IngestStep
<1> QED BY <1>1, <1>2, PTL DEF IngestSpec

\* The bridge's guarantees hold with the census reading the topic it writes.
THEOREM IngestBridgeInv == IngestSpec => []BridgeInv
<1>1. IngestInv => BridgeInv
  BY DEF IngestInv
<1> QED BY <1>1, IngestInvHolds, PTL

\* Type correctness of the census.
THEOREM CensusTypeCorrect == IngestSpec => []CensusTypeOK
<1>1. IngestInv => CensusTypeOK
  BY DEF IngestInv, CensusInv
<1> QED BY <1>1, IngestInvHolds, PTL

\* The census commits only what it has counted, through crashes between SaveFile and
\* the commit, failed saves, rebalances and restarts, except what a restart had lost.
THEOREM CommittedCountedHolds == IngestSpec => []CommittedCounted
<1>1. IngestInv => CommittedCounted
  BY DEF IngestInv, CensusInv, CountsOK, Covered, CommittedCounted
<1> QED BY <1>1, IngestInvHolds, PTL

\* SaveFile is atomic against deaths and failed writes as long as only the ticker runs
\* it: the snapshot file is readable until a process is told to stop.
THEOREM SnapshotReadableHolds == IngestSpec => []SnapshotReadable
<1>1. IngestInv => SnapshotReadable
  <2> SUFFICES ASSUME IngestInv, stops = 0 PROVE snap.kind \notin {"empty", "torn"}
    BY DEF SnapshotReadable, IngestInv, CensusInv
  <2> QED BY DEF IngestInv, CensusInv, OneSaver
<1> QED BY <1>1, IngestInvHolds, PTL

(***************************************************************************)
(* What the census counts.                                                 *)

\* What Tallied compares.
ValuesOf(X, v) == {u \in Categorical : \E x \in X : v[x] = u}
TimesOf(X, v, u) == {x \in X : v[x] = u}
Typed(X, v) == {x \in X : v[x] # NoText}

LEMMA TalliedIs ==
    ASSUME NEW f, NEW X, NEW v
    PROVE  Tallied(f, X, v) <=>
             /\ f.occurrences = Cardinality(X)
             /\ f.typed = Cardinality(Typed(X, v))
             /\ f.truncated <=> Cardinality(ValuesOf(X, v)) > MaxEnum
             /\ f.distinct = (IF f.truncated THEN MaxEnum ELSE Cardinality(ValuesOf(X, v)))
             /\ ~f.truncated => f.values = [u \in ValuesOf(X, v) |-> Cardinality(TimesOf(X, v, u))]
  BY Zenon DEF Tallied, Typed, ValuesOf, TimesOf

\* Finitely many observations have finitely many values.
LEMMA ValuesFinite ==
    ASSUME NEW X, IsFiniteSet(X), NEW v
    PROVE  /\ IsFiniteSet(ValuesOf(X, v)) /\ Cardinality(ValuesOf(X, v)) \in Nat
           /\ IsFiniteSet(Typed(X, v)) /\ \A u : IsFiniteSet(TimesOf(X, v, u))
  <1> DEFINE D == {x \in X : v[x] \in Categorical}
             V == ValuesOf(X, v)
             h == [x \in D |-> v[x]]
  <1>1. IsFiniteSet(D)
    BY FS_Subset
  <1>2. h \in Surjection(D, V)
    BY DEF Surjection, ValuesOf
  <1>3. IsFiniteSet(V)
    <2> HIDE DEF D, V, h
    <2> QED BY <1>1, <1>2, FS_Surjection
  <1>4. IsFiniteSet(Typed(X, v)) /\ \A u : IsFiniteSet(TimesOf(X, v, u))
    BY FS_Subset DEF Typed, TimesOf
  <1> QED BY <1>3, <1>4, FS_CardinalityType

\* What Touch sets.
Known(f) == DOMAIN f.values
With(f, t) ==
    [u \in Known(f) \cup {t} |-> IF u \in Known(f) THEN f.values[u] + (IF u = t THEN 1 ELSE 0) ELSE 1]

TouchSets(f, t, T) ==
    /\ IsField(T)
    /\ T.occurrences = f.occurrences + 1
    /\ T.typed = (IF t = NoText THEN f.typed ELSE f.typed + 1)
    /\ t = NoText \/ t \notin Categorical \/ f.truncated =>
          /\ T.truncated = f.truncated
          /\ T.distinct = f.distinct
          /\ T.values = f.values
    /\ t # NoText /\ t \in Categorical /\ ~f.truncated
          /\ (t \in Known(f) \/ Cardinality(Known(f)) < MaxEnum) =>
          /\ T.truncated = FALSE
          /\ T.distinct = Cardinality(Known(f) \cup {t})
          /\ T.values = With(f, t)
    /\ t # NoText /\ t \in Categorical /\ ~f.truncated
          /\ ~(t \in Known(f) \/ Cardinality(Known(f)) < MaxEnum) =>
          /\ T.truncated = TRUE
          /\ T.distinct = Cardinality(Known(f))

LEMMA TouchIs == ASSUME NEW f, IsField(f), NEW t PROVE TouchSets(f, t, Touch(f, t))
  <1> DEFINE values == Known(f)
             with == With(f, t)
  <1> DEFINE g == [f EXCEPT !.occurrences = @ + 1]
             sm == AddSample(g, t)
             h == [g EXCEPT !.typed = @ + 1, !.samples = sm]
  <1>1. g = [occurrences |-> f.occurrences + 1, typed |-> f.typed, values |-> f.values,
             truncated |-> f.truncated, distinct |-> f.distinct, samples |-> f.samples]
    BY DEF IsField
  <1> HIDE DEF g, sm
  <1>2. h = [occurrences |-> f.occurrences + 1, typed |-> f.typed + 1, values |-> f.values,
             truncated |-> f.truncated, distinct |-> f.distinct, samples |-> sm]
    <2>1. g.typed = f.typed
      BY <1>1
    <2>2. h = [g EXCEPT !.typed = f.typed + 1, !.samples = sm]
      BY <2>1
    <2> DEFINE oc == f.occurrences + 1
               ty == f.typed + 1
    <2>3. h = [g EXCEPT !.typed = ty, !.samples = sm]
      BY <2>2
    <2>4. g = [occurrences |-> oc, typed |-> f.typed, values |-> f.values,
               truncated |-> f.truncated, distinct |-> f.distinct, samples |-> f.samples]
      BY <1>1
    <2> HIDE DEF oc, ty, h
    <2>5. h = [occurrences |-> oc, typed |-> ty, values |-> f.values,
               truncated |-> f.truncated, distinct |-> f.distinct, samples |-> sm]
      BY <2>3, <2>4
    <2> QED BY <2>5 DEF oc, ty
  <1> HIDE DEF h
  <1>3. Touch(f, t) = IF t = NoText THEN g ELSE AddValue(g, t)
    BY DEF Touch, g
  <1>4. AddValue(g, t) = IF t \in Categorical /\ ~f.truncated THEN Enumerate(h, t) ELSE h
    BY <1>1 DEF AddValue, h, sm
  <1>5. DOMAIN with = values \cup {t}
    BY DEF With
  <1>6. t \in values \/ Cardinality(values) < MaxEnum =>
          Enumerate(h, t) = [h EXCEPT !.values = with, !.distinct = Cardinality(values \cup {t})]
    BY <1>2, <1>5 DEF Enumerate, With, Known
  <1>7. ~(t \in values \/ Cardinality(values) < MaxEnum) =>
          Enumerate(h, t) = [h EXCEPT !.truncated = TRUE, !.distinct = Cardinality(values), !.values = <<>>]
    BY <1>2 DEF Enumerate, Known
  <1>8. CASE t = NoText
    BY <1>1, <1>3, <1>8 DEF IsField, TouchSets
  <1>9. CASE t # NoText /\ (t \notin Categorical \/ f.truncated)
    BY <1>2, <1>3, <1>4, <1>9 DEF IsField, TouchSets
  <1>10. CASE t # NoText /\ t \in Categorical /\ ~f.truncated /\ (t \in values \/ Cardinality(values) < MaxEnum)
    <2>1. Touch(f, t) = [h EXCEPT !.values = with, !.distinct = Cardinality(values \cup {t})]
      BY <1>3, <1>4, <1>6, <1>10
    <2>2. Touch(f, t) = [occurrences |-> f.occurrences + 1, typed |-> f.typed + 1, values |-> with,
                         truncated |-> f.truncated, distinct |-> Cardinality(values \cup {t}), samples |-> sm]
      BY <1>2, <2>1
    <2> HIDE DEF h
    <2> QED BY <1>10, <2>2 DEF IsField, TouchSets
  <1>11. CASE t # NoText /\ t \in Categorical /\ ~f.truncated /\ ~(t \in values \/ Cardinality(values) < MaxEnum)
    <2>1. Touch(f, t) = [h EXCEPT !.truncated = TRUE, !.distinct = Cardinality(values), !.values = <<>>]
      BY <1>3, <1>4, <1>7, <1>11
    <2>2. Touch(f, t) = [occurrences |-> f.occurrences + 1, typed |-> f.typed + 1, values |-> <<>>,
                         truncated |-> TRUE, distinct |-> Cardinality(values), samples |-> sm]
      BY <1>2, <2>1
    <2>3. IsField(Touch(f, t))
      BY <2>2 DEF IsField
    <2>4. /\ Touch(f, t).occurrences = f.occurrences + 1 /\ Touch(f, t).typed = f.typed + 1
          /\ Touch(f, t).truncated = TRUE /\ Touch(f, t).distinct = Cardinality(values)
      BY <2>2
    <2> QED BY <1>11, <2>3, <2>4 DEF TouchSets
  <1> QED BY <1>8, <1>9, <1>10, <1>11 DEF IsField

\* An element more is tallied by Touch.
LEMMA TouchTallied ==
    ASSUME NEW f, IsField(f), NEW X, IsFiniteSet(X), NEW v, NEW x, x \notin X, Tallied(f, X, v),
           NEW t, t = v[x]
    PROVE  Tallied(Touch(f, t), X \cup {x}, v) /\ IsField(Touch(f, t))
  <1> DEFINE Y == X \cup {x}
             V == ValuesOf(X, v)
             T == Touch(f, t)
             with == With(f, t)
  <1>1. /\ f.occurrences = Cardinality(X)
        /\ f.typed = Cardinality(Typed(X, v))
        /\ f.truncated <=> Cardinality(V) > MaxEnum
        /\ f.distinct = (IF f.truncated THEN MaxEnum ELSE Cardinality(V))
        /\ ~f.truncated => f.values = [u \in V |-> Cardinality(TimesOf(X, v, u))]
    BY TalliedIs
  <1>2. /\ IsFiniteSet(V) /\ Cardinality(V) \in Nat /\ IsFiniteSet(Typed(X, v))
        /\ \A u : IsFiniteSet(TimesOf(X, v, u))
    BY ValuesFinite
  <1>3. Cardinality(Y) = Cardinality(X) + 1
    BY FS_AddElement
  <1>4. Cardinality(Typed(Y, v)) = IF t = NoText THEN Cardinality(Typed(X, v))
                                   ELSE Cardinality(Typed(X, v)) + 1
    <2>1. CASE t = NoText
      <3>1. Typed(Y, v) = Typed(X, v)
        BY <2>1 DEF Typed
      <3> QED BY <2>1, <3>1
    <2>2. CASE t # NoText
      <3>1. Typed(Y, v) = Typed(X, v) \cup {x} /\ x \notin Typed(X, v)
        BY <2>2 DEF Typed
      <3> QED BY <1>2, <2>2, <3>1, FS_AddElement
    <2> QED BY <2>1, <2>2
  <1>5. \A u : u # t => TimesOf(Y, v, u) = TimesOf(X, v, u)
    BY DEF TimesOf
  <1>6. Cardinality(TimesOf(Y, v, t)) = Cardinality(TimesOf(X, v, t)) + 1
    <2>1. TimesOf(Y, v, t) = TimesOf(X, v, t) \cup {x} /\ x \notin TimesOf(X, v, t)
      BY DEF TimesOf
    <2> QED BY <1>2, <2>1, FS_AddElement
  <1>7. ValuesOf(Y, v) = IF t \in Categorical THEN V \cup {t} ELSE V
    BY DEF ValuesOf
  <1>8. MaxEnum \in Nat \ {0} /\ NoText \notin Categorical
    BY CensusAssumption
  <1>9. /\ IsField(T) /\ T.occurrences = f.occurrences + 1
        /\ T.typed = (IF t = NoText THEN f.typed ELSE f.typed + 1)
        /\ t = NoText \/ t \notin Categorical \/ f.truncated =>
              T.truncated = f.truncated /\ T.distinct = f.distinct /\ T.values = f.values
        /\ t # NoText /\ t \in Categorical /\ ~f.truncated
              /\ (t \in Known(f) \/ Cardinality(Known(f)) < MaxEnum) =>
              /\ T.truncated = FALSE
              /\ T.distinct = Cardinality(Known(f) \cup {t})
              /\ T.values = with
        /\ t # NoText /\ t \in Categorical /\ ~f.truncated
              /\ ~(t \in Known(f) \/ Cardinality(Known(f)) < MaxEnum) =>
              T.truncated = TRUE /\ T.distinct = Cardinality(Known(f))
    <2>1. TouchSets(f, t, Touch(f, t))
      BY TouchIs
    <2> HIDE DEF T
    <2>2. TouchSets(f, t, T)
      BY <2>1 DEF T
    <2> QED BY <2>2 DEF TouchSets
  <1> HIDE DEF T, with, V, Y
  <1>10. T.occurrences = Cardinality(Y) /\ T.typed = Cardinality(Typed(Y, v))
    BY <1>1, <1>3, <1>4, <1>9
  <1>11. CASE t \notin Categorical
    <2>1. ValuesOf(Y, v) = V /\ \A u \in V : TimesOf(Y, v, u) = TimesOf(X, v, u)
      BY <1>5, <1>7, <1>11 DEF V, ValuesOf
    <2>2. [u \in ValuesOf(Y, v) |-> Cardinality(TimesOf(Y, v, u))]
          = [u \in V |-> Cardinality(TimesOf(X, v, u))]
      BY <2>1
    <2>3. T.truncated = f.truncated /\ T.distinct = f.distinct /\ T.values = f.values
      BY <1>9, <1>11
    <2>4. Tallied(T, Y, v)
      BY <1>1, <1>10, <2>1, <2>2, <2>3, TalliedIs
    <2> QED BY <1>9, <2>4 DEF T, Y
  <1>12. CASE t \in Categorical /\ f.truncated
    <2>1. T.truncated = f.truncated /\ T.distinct = f.distinct
      BY <1>9, <1>12
    <2>2. Cardinality(V \cup {t}) = IF t \in V THEN Cardinality(V) ELSE Cardinality(V) + 1
      BY <1>2, FS_AddElement
    <2>3. Cardinality(ValuesOf(Y, v)) > MaxEnum
      BY <1>1, <1>2, <1>7, <1>8, <1>12, <2>2
    <2>4. Tallied(T, Y, v)
      BY <1>1, <1>10, <1>12, <2>1, <2>3, TalliedIs
    <2> QED BY <1>9, <2>4 DEF T, Y
  <1>13. CASE t \in Categorical /\ ~f.truncated
    <2>1. Known(f) = V /\ \A u \in V : f.values[u] = Cardinality(TimesOf(X, v, u))
      BY <1>1, <1>13 DEF Known
    <2>2. Cardinality(V \cup {t}) = IF t \in V THEN Cardinality(V) ELSE Cardinality(V) + 1
      BY <1>2, FS_AddElement
    <2>3. Cardinality(V) <= MaxEnum /\ t # NoText /\ ValuesOf(Y, v) = V \cup {t}
      BY <1>1, <1>2, <1>7, <1>8, <1>13
    <2>4. CASE t \in V \/ Cardinality(V) < MaxEnum
      <3>1. T.truncated = FALSE /\ T.distinct = Cardinality(V \cup {t}) /\ T.values = with
        BY <1>9, <1>13, <2>1, <2>3, <2>4
      <3>2. ~(Cardinality(V \cup {t}) > MaxEnum)
        BY <1>2, <1>8, <2>2, <2>3, <2>4
      <3>3. ASSUME NEW u \in V \cup {t} PROVE with[u] = Cardinality(TimesOf(Y, v, u))
        <4>1. CASE u \in V /\ u # t
          <5>1. with[u] = Cardinality(TimesOf(X, v, u)) + 0
            BY <2>1, <4>1 DEF with, With
          <5>2. Cardinality(TimesOf(X, v, u)) \in Nat /\ TimesOf(Y, v, u) = TimesOf(X, v, u)
            BY <1>2, <1>5, <4>1, FS_CardinalityType
          <5> QED BY <5>1, <5>2
        <4>2. CASE u \in V /\ u = t
          <5>1. with[u] = Cardinality(TimesOf(X, v, u)) + 1
            BY <2>1, <4>2 DEF with, With
          <5> QED BY <1>6, <4>2, <5>1
        <4>3. CASE u \notin V
          <5>1. u = t /\ with[u] = 1
            BY <2>1, <4>3 DEF with, With
          <5>2. TimesOf(X, v, t) = {}
            BY <1>13, <4>3, <5>1 DEF V, ValuesOf, TimesOf
          <5>3. Cardinality(TimesOf(X, v, t)) = 0
            BY <5>2, FS_EmptySet
          <5> QED BY <1>6, <5>1, <5>3
        <4> QED BY <4>1, <4>2, <4>3
      <3>4. with = [u \in ValuesOf(Y, v) |-> Cardinality(TimesOf(Y, v, u))]
        <4>1. with = [u \in V \cup {t} |-> with[u]]
          BY <2>1 DEF with, With
        <4> QED BY <2>3, <3>3, <4>1
      <3>5. Tallied(T, Y, v)
        BY <1>10, <2>3, <3>1, <3>2, <3>4, TalliedIs
      <3> QED BY <1>9, <3>5 DEF T, Y
    <2>5. CASE ~(t \in V \/ Cardinality(V) < MaxEnum)
      <3>1. T.truncated = TRUE /\ T.distinct = Cardinality(V)
        BY <1>9, <1>13, <2>1, <2>3, <2>5
      <3>2. Cardinality(V) = MaxEnum /\ Cardinality(V \cup {t}) > MaxEnum
        BY <1>2, <1>8, <2>2, <2>3, <2>5
      <3>3. Tallied(T, Y, v)
        BY <1>10, <2>3, <3>1, <3>2, TalliedIs
      <3> QED BY <1>9, <3>3 DEF T, Y
    <2> QED BY <2>4, <2>5
  <1> QED BY <1>9, <1>11, <1>12, <1>13 DEF IsField

\* A set of numbers that has 0, and with each number below n the next, has all up to n.
LEMMA UpTo ==
    ASSUME NEW n \in Nat, NEW S, 0 \in S, \A m \in 0..(n - 1) : m \in S => m + 1 \in S
    PROVE  \A m \in 0..n : m \in S
  <1> SUFFICES ASSUME NEW m \in 0..n, m \notin S PROVE FALSE
    OBVIOUS
  <1> DEFINE B == {i \in Nat : i <= n /\ i \notin S}
             b == Min(B)
  <1>1. B \in SUBSET Nat /\ B # {}
    OBVIOUS
  <1>2. b \in B /\ \A y \in B : b <= y
    <2> HIDE DEF B
    <2> QED BY <1>1, MinIs
  <1> HIDE DEF b
  <1>3. b \in Nat /\ b <= n /\ b \notin S /\ b # 0
    BY <1>2
  <1>4. b - 1 \notin B
    BY <1>2, <1>3
  <1>5. b - 1 \in S /\ b - 1 \in 0..(n - 1) /\ (b - 1) + 1 = b
    BY <1>3, <1>4
  <1> QED BY <1>3, <1>5

\* The fields after the first elements of a record, one by one.
AfterEach(g, m, f, s) == g = [n \in 0..m |-> IF n = 0 THEN f ELSE Touch(g[n - 1], s[n])]

LEMMA AfterExists ==
    ASSUME NEW f, NEW s, Len(s) \in Nat
    PROVE  \E g : AfterEach(g, Len(s), f, s)
  <1> DEFINE S == {m \in Nat : \E g : AfterEach(g, m, f, s)}
  <1>1. 0 \in S
    <2> DEFINE g == [n \in 0..0 |-> f]
    <2>1. AfterEach(g, 0, f, s)
      BY DEF AfterEach
    <2> QED BY <2>1
  <1>2. ASSUME NEW m \in 0..(Len(s) - 1), m \in S PROVE m + 1 \in S
    <2>1. PICK g : AfterEach(g, m, f, s)
      BY <1>2
    <2> DEFINE h == [n \in 0..(m + 1) |-> IF n <= m THEN g[n] ELSE Touch(g[m], s[m + 1])]
    <2>2. \A n \in 0..m : g[n] = IF n = 0 THEN f ELSE Touch(g[n - 1], s[n])
      BY <2>1 DEF AfterEach
    <2>3. ASSUME NEW n \in 0..(m + 1) PROVE h[n] = IF n = 0 THEN f ELSE Touch(h[n - 1], s[n])
      <3>1. CASE n <= m
        <4>1. h[n] = g[n] /\ n \in 0..m /\ (n # 0 => h[n - 1] = g[n - 1])
          BY <3>1
        <4> HIDE DEF h
        <4> QED BY <2>2, <4>1
      <3>2. CASE n = m + 1
        <4>1. h[n] = Touch(g[m], s[m + 1]) /\ n # 0 /\ h[n - 1] = g[m]
          BY <3>2
        <4> HIDE DEF h
        <4> QED BY <3>2, <4>1
      <3> QED BY <3>1, <3>2
    <2>4. h = [n \in 0..(m + 1) |-> h[n]]
      OBVIOUS
    <2> HIDE DEF h
    <2>5. AfterEach(h, m + 1, f, s)
      BY <2>3, <2>4 DEF AfterEach
    <2> QED BY <2>5
  <1> HIDE DEF S
  <1>3. \A m \in 0..Len(s) : m \in S
    BY ONLY Len(s) \in Nat, <1>1, <1>2, UpTo
  <1> QED BY <1>3 DEF S

LEMMA TouchAllIs ==
    ASSUME NEW f, NEW s, Len(s) \in Nat
    PROVE  \E g : /\ TouchAll(f, s) = g[Len(s)] /\ g[0] = f
                  /\ \A n \in 1..Len(s) : g[n] = Touch(g[n - 1], s[n])
  <1> DEFINE g == CHOOSE after : AfterEach(after, Len(s), f, s)
  <1>1. AfterEach(g, Len(s), f, s)
    BY AfterExists, Zenon
  <1>2. TouchAll(f, s) = g[Len(s)]
    BY Zenon DEF TouchAll, AfterEach
  <1> HIDE DEF g
  <1>3. \A n \in 0..Len(s) : g[n] = IF n = 0 THEN f ELSE Touch(g[n - 1], s[n])
    BY <1>1 DEF AfterEach
  <1> QED BY <1>2, <1>3

\* A record more is tallied by its elements.
LEMMA RecordTallied ==
    ASSUME NEW f, IsField(f), NEW X, IsFiniteSet(X), NEW v, Tallied(f, X, v),
           NEW s, Len(s) \in Nat, NEW o, NEW c,
           NEW N, N = [n \in 0..Len(s) |-> X \cup {<<o, c, i>> : i \in 1..n}],
           \A i \in 1..Len(s) : <<o, c, i>> \notin X /\ v[<<o, c, i>>] = s[i]
    PROVE  Tallied(TouchAll(f, s), N[Len(s)], v) /\ IsField(TouchAll(f, s)) /\ IsFiniteSet(N[Len(s)])
  <1>1. PICK g : /\ TouchAll(f, s) = g[Len(s)] /\ g[0] = f
                 /\ \A n \in 1..Len(s) : g[n] = Touch(g[n - 1], s[n])
    BY TouchAllIs
  <1> DEFINE S == {n \in 0..Len(s) : Tallied(g[n], N[n], v) /\ IsField(g[n]) /\ IsFiniteSet(N[n])}
  <1>2. 0 \in S
    <2>1. N[0] = X /\ 0 \in 0..Len(s)
      OBVIOUS
    <2>2. Tallied(g[0], N[0], v) /\ IsField(g[0]) /\ IsFiniteSet(N[0])
      BY <1>1, <2>1
    <2> QED BY <2>1, <2>2
  <1>3. ASSUME NEW m \in 0..(Len(s) - 1), m \in S PROVE m + 1 \in S
    <2> DEFINE x == <<o, c, m + 1>>
    <2>1. m + 1 \in 1..Len(s) /\ m + 1 \in 0..Len(s) /\ (m + 1) - 1 = m /\ m \in 0..Len(s)
      OBVIOUS
    <2>2. N[m + 1] = N[m] \cup {x}
      BY <2>1
    <2>3. x \notin N[m]
      <3>1. x \notin X
        BY <2>1
      <3>2. \A i \in 1..m : <<o, c, i>> # x
        OBVIOUS
      <3> QED BY <2>1, <3>1, <3>2
    <2>4. v[x] = s[m + 1]
      BY <2>1
    <2> HIDE DEF x
    <2>5. g[m + 1] = Touch(g[m], v[x])
      BY <1>1, <2>1, <2>4
    <2>6. Tallied(g[m], N[m], v) /\ IsField(g[m]) /\ IsFiniteSet(N[m])
      BY <1>3
    <2> DEFINE G == g[m]
               M == N[m]
    <2> HIDE DEF G, M
    <2> DEFINE u == v[x]
    <2> HIDE DEF u
    <2>7. Tallied(Touch(G, u), M \cup {x}, v) /\ IsField(Touch(G, u)) /\ IsFiniteSet(M \cup {x})
      <3>1. Tallied(G, M, v) /\ IsField(G) /\ IsFiniteSet(M) /\ x \notin M /\ u = v[x]
        BY <2>3, <2>6 DEF G, M, u
      <3> QED BY ONLY <3>1, TouchTallied, FS_AddElement
    <2>8. Tallied(g[m + 1], N[m + 1], v) /\ IsField(g[m + 1]) /\ IsFiniteSet(N[m + 1])
      BY <2>2, <2>5, <2>7 DEF G, M, u
    <2> QED BY <2>1, <2>8
  <1> HIDE DEF S
  <1>4. \A m \in 0..Len(s) : m \in S
    BY ONLY Len(s) \in Nat, <1>2, <1>3, UpTo
  <1>5. Len(s) \in S
    BY <1>4
  <1>6. Tallied(g[Len(s)], N[Len(s)], v) /\ IsField(g[Len(s)]) /\ IsFiniteSet(N[Len(s)])
    BY ONLY <1>5 DEF S
  <1> QED BY ONLY <1>1, <1>6

\* What an observation is.
Observed(r, a, x) ==
    \E o \in 1..MaxRaw : \E k \in 1..a.counts[o], i \in 1..Len(Elements(r[o])) : x = <<o, k, i>>

LEMMA SeenIs == ASSUME NEW r, NEW a, HasCounts(a), NEW x PROVE x \in Seen(r, a) <=> Observed(r, a, x)
  <1>1. ASSUME x \in Seen(r, a) PROVE Observed(r, a, x)
    <2>1. PICK o \in 1..MaxRaw : x \in {o} \X (1..a.counts[o]) \X (1..Len(Elements(r[o])))
      BY <1>1, Zenon DEF Seen
    <2>2. \E k \in 1..a.counts[o], i \in 1..Len(Elements(r[o])) : x = <<o, k, i>>
      BY <2>1
    <2> QED BY <2>2 DEF Observed
  <1>2. ASSUME Observed(r, a, x) PROVE x \in Seen(r, a)
    <2>1. PICK o \in 1..MaxRaw : \E k \in 1..a.counts[o], i \in 1..Len(Elements(r[o])) : x = <<o, k, i>>
      BY <1>2 DEF Observed
    <2>2. PICK k \in 1..a.counts[o], i \in 1..Len(Elements(r[o])) : x = <<o, k, i>>
      BY <2>1
    <2>3. a.counts[o] > 0
      <3>1. a.counts[o] \in Nat
        BY DEF HasCounts
      <3> QED BY <2>2, <3>1
    <2>4. x \in {o} \X (1..a.counts[o]) \X (1..Len(Elements(r[o])))
      BY <2>2
    <2>5. o \in {p \in 1..MaxRaw : a.counts[p] > 0}
      BY <2>3
    <2> QED BY <2>4, <2>5, Zenon DEF Seen
  <1> QED BY <1>1, <1>2

\* A tally looks at the values of its observations only.
LEMMA TalliedSame ==
    ASSUME NEW f, NEW X, NEW v, NEW w, \A x \in X : v[x] = w[x], Tallied(f, X, v)
    PROVE  Tallied(f, X, w)
  <1>1. Typed(X, v) = Typed(X, w)
    BY DEF Typed
  <1>2. ValuesOf(X, v) = ValuesOf(X, w)
    BY DEF ValuesOf
  <1>3. \A u : TimesOf(X, v, u) = TimesOf(X, w, u)
    BY DEF TimesOf
  <1>4. [u \in ValuesOf(X, v) |-> Cardinality(TimesOf(X, v, u))]
        = [u \in ValuesOf(X, w) |-> Cardinality(TimesOf(X, w, u))]
    BY <1>2, <1>3
  <1> QED BY <1>1, <1>2, <1>4, TalliedIs

\* What was observed stays observed as the topic grows.
LEMMA SoundStable ==
    ASSUME NEW r, NEW q, NEW a, Sound(r, a), Len(r) \in Nat, Len(q) \in Nat, Len(r) <= Len(q),
           \A i \in 1..Len(r) : q[i] = r[i]
    PROVE  Sound(q, a)
  <1>1. HasCounts(a) /\ \A o \in 1..MaxRaw : a.counts[o] > 0 => o <= Len(r)
    BY DEF Sound
  <1>2. \A o \in 1..MaxRaw : a.counts[o] > 0 => q[o] = r[o]
    BY <1>1
  <1>3. Seen(q, a) = Seen(r, a)
    <2>1. {{o} \X (1..a.counts[o]) \X (1..Len(Elements(q[o]))) : o \in {p \in 1..MaxRaw : a.counts[p] > 0}}
          = {{o} \X (1..a.counts[o]) \X (1..Len(Elements(r[o]))) : o \in {p \in 1..MaxRaw : a.counts[p] > 0}}
      BY <1>2
    <2> QED BY <2>1, Zenon DEF Seen
  <1>4. SeenValue(q, a) = SeenValue(r, a)
    <2>1. ASSUME NEW x \in Seen(r, a) PROVE Elements(q[x[1]])[x[3]] = Elements(r[x[1]])[x[3]]
      <3>1. Observed(r, a, x)
        BY <1>1, SeenIs
      <3>2. PICK o \in 1..MaxRaw : \E k \in 1..a.counts[o], i \in 1..Len(Elements(r[o])) : x = <<o, k, i>>
        BY <3>1 DEF Observed
      <3>3. PICK k \in 1..a.counts[o], i \in 1..Len(Elements(r[o])) : x = <<o, k, i>>
        BY <3>2
      <3>4. a.counts[o] \in Nat
        BY <1>1 DEF HasCounts
      <3>5. x[1] = o /\ a.counts[o] > 0
        BY <3>3, <3>4
      <3> QED BY <1>2, <3>5
    <2> QED BY <1>3, <2>1 DEF SeenValue
  <1> QED BY <1>1, <1>3, <1>4 DEF Sound, Consistent

\* A fresh accumulator has observed nothing and its field says so.
LEMMA SoundFresh == ASSUME NEW r PROVE Sound(r, NewAccumulator)
  <1> DEFINE v == SeenValue(r, NewAccumulator)
  <1>1. HasCounts(NewAccumulator) /\ \A o \in 1..MaxRaw : ~(NewAccumulator.counts[o] > 0)
    BY FreshCounts DEF NewAccumulator
  <1>2. Seen(r, NewAccumulator) = {}
    BY <1>1, Zenon DEF Seen
  <1>3. /\ NewAccumulator.field.occurrences = 0 /\ NewAccumulator.field.typed = 0
        /\ NewAccumulator.field.truncated = FALSE /\ NewAccumulator.field.distinct = 0
        /\ NewAccumulator.field.values = <<>> /\ IsField(NewAccumulator.field)
    BY DEF NewAccumulator, NewField, IsField
  <1> HIDE DEF v
  <1>4. ValuesOf({}, v) = {} /\ Typed({}, v) = {}
    BY DEF ValuesOf, Typed
  <1>5. Cardinality({}) = 0 /\ IsFiniteSet({}) /\ ~(0 > MaxEnum)
    BY FS_EmptySet, CensusAssumption
  <1>6. <<>> = [u \in {} |-> Cardinality(TimesOf({}, v, u))]
    OBVIOUS
  <1>7. Tallied(NewAccumulator.field, {}, v)
    BY <1>3, <1>4, <1>5, <1>6, TalliedIs
  <1> QED BY <1>1, <1>2, <1>3, <1>5, <1>7 DEF Sound, Consistent, v

\* A record observed is tallied on top of the others.
LEMMA SoundObserve ==
    ASSUME NEW r, NEW a, Sound(r, a), NEW o \in 1..MaxRaw, Len(r) \in Nat, o <= Len(r),
           Len(Elements(r[o])) \in Nat,
           NEW b, b = [field |-> TouchAll(a.field, Elements(r[o])),
                       counts |-> [a.counts EXCEPT ![o] = @ + 1]]
    PROVE  Sound(r, b)
  <1> DEFINE s == Elements(r[o])
             c == a.counts[o] + 1
             X == Seen(r, a)
             N == [n \in 0..Len(s) |-> X \cup {<<o, c, i>> : i \in 1..n}]
             w == SeenValue(r, b)
  <1>1. HasCounts(a) /\ IsField(a.field) /\ IsFiniteSet(X) /\ Tallied(a.field, X, SeenValue(r, a))
    BY DEF Sound, Consistent
  <1>2. /\ HasCounts(b) /\ b.counts[o] = c /\ a.counts[o] \in Nat /\ c \in Nat
        /\ \A p \in 1..MaxRaw : p # o => b.counts[p] = a.counts[p]
        /\ b.field = TouchAll(a.field, s)
    <2>1. b.counts = [a.counts EXCEPT ![o] = c] /\ b.field = TouchAll(a.field, s)
      BY Zenon
    <2>2. a.counts \in [1..MaxRaw -> Nat]
      BY <1>1 DEF HasCounts
    <2>3. ASSUME NEW d \in [1..MaxRaw -> Nat], NEW e, e = [d EXCEPT ![o] = d[o] + 1]
          PROVE  /\ e \in [1..MaxRaw -> Nat] /\ e[o] = d[o] + 1 /\ d[o] \in Nat /\ d[o] + 1 \in Nat
                 /\ \A p \in 1..MaxRaw : p # o => e[p] = d[p]
      BY <2>3
    <2> QED BY <2>1, <2>2, <2>3 DEF HasCounts
  <1>3. \A p \in 1..MaxRaw : b.counts[p] > 0 => p <= Len(r)
    BY <1>2 DEF Sound
  <1> HIDE DEF c
  <1>4. ASSUME NEW i \in 1..Len(s) PROVE <<o, c, i>> \notin X
    <2> SUFFICES ASSUME <<o, c, i>> \in X PROVE FALSE
      OBVIOUS
    <2>1. Observed(r, a, <<o, c, i>>)
      BY <1>1, SeenIs
    <2>2. c \in 1..a.counts[o]
      BY <2>1 DEF Observed
    <2> QED BY <1>2, <2>2 DEF c
  <1>5. Seen(r, b) = N[Len(s)]
    <2>1. ASSUME NEW x \in Seen(r, b) PROVE x \in N[Len(s)]
      <3>1. Observed(r, b, x)
        BY <1>2, <2>1, SeenIs
      <3>2. PICK p \in 1..MaxRaw : \E k \in 1..b.counts[p], i \in 1..Len(Elements(r[p])) : x = <<p, k, i>>
        BY <3>1 DEF Observed
      <3>3. PICK k \in 1..b.counts[p], i \in 1..Len(Elements(r[p])) : x = <<p, k, i>>
        BY <3>2
      <3>4. CASE k \in 1..a.counts[p]
        <4>1. Observed(r, a, x)
          BY <3>3, <3>4 DEF Observed
        <4>2. x \in X
          BY <1>1, <4>1, SeenIs
        <4> QED BY <4>2
      <3>5. CASE k \notin 1..a.counts[p]
        <4>1. p = o /\ k = c
          BY <1>2, <3>5 DEF c
        <4>2. x \in {<<o, c, j>> : j \in 1..Len(s)}
          BY <3>3, <4>1
        <4> QED BY <4>2
      <3> QED BY <3>4, <3>5
    <2>2. ASSUME NEW x \in X PROVE x \in Seen(r, b)
      <3>1. Observed(r, a, x)
        BY <1>1, <2>2, SeenIs
      <3>2. PICK p \in 1..MaxRaw : \E k \in 1..a.counts[p], i \in 1..Len(Elements(r[p])) : x = <<p, k, i>>
        BY <3>1 DEF Observed
      <3>3. 1..a.counts[p] \subseteq 1..b.counts[p]
        BY <1>2 DEF c
      <3>4. Observed(r, b, x)
        BY <3>2, <3>3, Zenon DEF Observed
      <3> QED BY <1>2, <3>4, SeenIs
    <2>3. ASSUME NEW i \in 1..Len(s) PROVE <<o, c, i>> \in Seen(r, b)
      <3>1. c \in 1..b.counts[o]
        BY <1>2 DEF c
      <3>2. Observed(r, b, <<o, c, i>>)
        BY <3>1 DEF Observed
      <3> QED BY <1>2, <3>2, SeenIs
    <2>4. N[Len(s)] = X \cup {<<o, c, i>> : i \in 1..Len(s)}
      OBVIOUS
    <2> HIDE DEF N, X, s
    <2> QED BY <2>1, <2>2, <2>3, <2>4, Zenon
  <1>6. \A i \in 1..Len(s) : <<o, c, i>> \in Seen(r, b) /\ w[<<o, c, i>>] = s[i]
    <2>1. \A i \in 1..Len(s) : <<o, c, i>> \in N[Len(s)]
      OBVIOUS
    <2> HIDE DEF N
    <2> QED BY <1>5, <2>1 DEF SeenValue
  <1>7. Tallied(a.field, X, w)
    <2>1. X \subseteq Seen(r, b)
      <3>1. X \subseteq N[Len(s)]
        OBVIOUS
      <3> QED BY <1>5, <3>1, Zenon
    <2>2. \A x \in X : SeenValue(r, a)[x] = w[x]
      BY <2>1 DEF SeenValue
    <2> HIDE DEF X, w
    <2> QED BY <1>1, <2>2, TalliedSame
  <1>8. N = [n \in 0..Len(s) |-> X \cup {<<o, c, i>> : i \in 1..n}]
    OBVIOUS
  <1>9. Len(s) \in Nat
    OBVIOUS
  <1> DEFINE f == a.field
  <1> HIDE DEF N, X, s, w, f
  <1>10. \A i \in 1..Len(s) : <<o, c, i>> \notin X /\ w[<<o, c, i>>] = s[i]
    BY <1>4, <1>6
  <1>11. IsField(f) /\ IsFiniteSet(X) /\ Tallied(f, X, w)
    BY <1>1, <1>7 DEF f
  <1>12. Tallied(TouchAll(f, s), N[Len(s)], w) /\ IsField(TouchAll(f, s)) /\ IsFiniteSet(N[Len(s)])
    BY ONLY <1>8, <1>9, <1>10, <1>11, RecordTallied
  <1> QED BY <1>2, <1>3, <1>5, <1>12 DEF Sound, Consistent, f, w

\* Apart from Fetch, an accumulator only ever becomes another one, or a fresh one.
LEMMA MovesSound ==
    ASSUME AccumulatorsSound, CensusNext, ~Fetch, raw' = raw, data = [w \in Saver |-> data[w]]
    PROVE  AccumulatorsSound'
  <1>1. \A f, a : f \in Over(tmp, a) \cup Over(snap, a) => f.acc = a \/ f.acc = NewAccumulator
    BY DEF Over, Whole, Torn, File
  <1>2. Empty.acc = NewAccumulator /\ Torn.acc = NewAccumulator /\ NoFile.acc = NewAccumulator
    BY DEF Empty, Torn, NoFile, File
  <1>3. \A a : a \in {acc, snap.acc, tmp.acc, NewAccumulator} \/ (\E w \in Saver : a = data[w])
               => Sound(raw, a)
    BY SoundFresh DEF AccumulatorsSound
  <1>4. acc' \in {acc, snap.acc, NewAccumulator}
    BY Zenon
    DEF CensusNext, FetchLoop, Ticker, FinalSave, SetLast, StopFetching, OpenTmp, WriteSnapshot,
        Rename, SaveError, ReadLast, CommitLast, CensusSignal, CensusCrash, CensusStart,
        CensusRebalance, LoadFile, fetching
  <1>5. tmp' \in {tmp, Empty, NoFile, Torn} \/ (\E w \in Saver : tmp' \in Over(tmp, data[w]))
    BY Zenon, SaverIs
    DEF CensusNext, FetchLoop, Ticker, FinalSave, SetLast, StopFetching, OpenTmp, WriteSnapshot,
        Rename, SaveError, ReadLast, CommitLast, CensusSignal, CensusCrash, CensusStart,
        CensusRebalance, saving
  <1>6. snap' \in {snap, tmp, Torn} \/ (\E w \in Saver : snap' \in Over(snap, data[w]))
    BY Zenon, SaverIs
    DEF CensusNext, FetchLoop, Ticker, FinalSave, SetLast, StopFetching, OpenTmp, WriteSnapshot,
        Rename, SaveError, ReadLast, CommitLast, CensusSignal, CensusCrash, CensusStart,
        CensusRebalance, saving
  <1>7. \/ data' = data \/ data' = [w \in Saver |-> NewAccumulator]
        \/ \E w \in Saver : data' \in {[data EXCEPT ![w] = acc], [data EXCEPT ![w] = NewAccumulator]}
    BY Zenon, SaverIs
    DEF CensusNext, FetchLoop, Ticker, FinalSave, SetLast, StopFetching, OpenTmp, WriteSnapshot,
        Rename, SaveError, ReadLast, CommitLast, CensusSignal, CensusCrash, CensusStart,
        CensusRebalance, saving, Saved, Exit
  <1>8. \A w \in Saver : data'[w] \in {data[w], acc, NewAccumulator}
    BY <1>7
  <1>9. tmp'.acc \in {tmp.acc, NewAccumulator} \/ (\E w \in Saver : tmp'.acc = data[w])
    BY <1>1, <1>2, <1>5
  <1>10. snap'.acc \in {snap.acc, tmp.acc, NewAccumulator} \/ (\E w \in Saver : snap'.acc = data[w])
    BY <1>1, <1>2, <1>6
  <1> QED BY <1>3, <1>4, <1>8, <1>9, <1>10 DEF AccumulatorsSound

\* Fetch observes a record of the topic.
LEMMA FetchSound ==
    ASSUME IngestInv, AccumulatorsSound, Fetch PROVE AccumulatorsSound'
  <1>1. raw \in Seq(1..MaxQueue) /\ Len(raw) \in Nat /\ pos + 1 \in 1..MaxRaw /\ pos + 1 <= Len(raw)
    BY CensusAssumption DEF IngestInv, BridgeInv, BridgeTypeOK, CensusInv, CensusTypeOK, Fetch
  <1>2. Len(Elements(raw[pos + 1])) \in Nat
    <2>1. raw[pos + 1] \in 1..MaxQueue
      <3>1. pos + 1 \in DOMAIN raw
        BY <1>1
      <3> QED BY <1>1, <3>1, Member
    <2>2. Elements(raw[pos + 1]) \in Seq(STRING)
      BY <2>1, IngestAssumption, Zenon
    <2> QED BY <2>2
  <1>3. /\ acc' = [field |-> TouchAll(acc.field, Elements(raw[pos + 1])),
                   counts |-> [acc.counts EXCEPT ![pos + 1] = @ + 1]]
        /\ UNCHANGED <<raw, snap, tmp, data>>
    BY DEF Fetch, Observe, saving
  <1>4. Sound(raw, acc')
    BY <1>1, <1>2, <1>3, SoundObserve DEF AccumulatorsSound
  <1> QED BY <1>3, <1>4 DEF AccumulatorsSound

\* The bridge and what it leaves under way only add to the topic.
LEMMA TopicGrows ==
    ASSUME BridgeInv, BridgeNext
    PROVE  Len(raw) <= Len(raw') /\ \A i \in 1..Len(raw) : raw'[i] = raw[i]
  <1>1. raw \in Seq(1..MaxQueue) /\ sends \in Seq(1..MaxQueue)
    BY DEF BridgeInv, BridgeTypeOK
  <1>2. \/ raw' = raw \/ (sends # <<>> /\ raw' = Append(raw, Head(sends)))
        \/ \E n \in 0..Len(sends) : raw' = raw \o SubSeq(sends, 1, n)
    BY Zenon
    DEF BridgeNext, RejectType, Send, Confirm, Timeout, SendError, Acknowledge, AcknowledgeError,
        BridgeCrash, Store
  <1>3. CASE raw' = raw
    BY <1>1, <1>3
  <1>4. CASE sends # <<>> /\ raw' = Append(raw, Head(sends))
    BY <1>1, <1>4
  <1>5. CASE \E n \in 0..Len(sends) : raw' = raw \o SubSeq(sends, 1, n)
    <2>1. PICK n \in 0..Len(sends) : raw' = raw \o SubSeq(sends, 1, n)
      BY <1>5
    <2>2. Len(sends) \in Nat /\ n \in Nat /\ n <= Len(sends)
      BY <1>1, <2>1
    <2>3. SubSeq(sends, 1, n) \in Seq(1..MaxQueue)
      <3>1. MaxQueue \in Nat /\ sends \in Seq(1..MaxQueue)
        BY <1>1, BridgeAssumption
      <3>2. ASSUME NEW S, NEW s \in Seq(S), NEW m \in Nat, m <= Len(s)
            PROVE  SubSeq(s, 1, m) \in Seq(S)
        BY <3>2
      <3> QED BY <2>2, <3>1, <3>2
    <2> QED BY <1>1, <2>1, <2>3
  <1> QED BY <1>2, <1>3, <1>4, <1>5

\* Every accumulator stays made of its observations.
LEMMA SoundStep ==
    ASSUME IngestInv, AccumulatorsSound, [IngestNext]_ingestVars PROVE AccumulatorsSound'
  <1>1. raw \in Seq(1..MaxQueue) /\ raw' \in Seq(1..MaxQueue)
    BY IngestStep DEF IngestInv, BridgeInv, BridgeTypeOK
  <1>2. ASSUME UNCHANGED <<acc, snap, tmp, data>>, Len(raw) <= Len(raw'),
               \A i \in 1..Len(raw) : raw'[i] = raw[i]
        PROVE  AccumulatorsSound'
    <2>1. \A a : Sound(raw, a) => Sound(raw', a)
      BY <1>1, <1>2, SoundStable
    <2> QED BY <1>2, <2>1 DEF AccumulatorsSound
  <1>3. CASE Live(BridgeNext)
    <2>1. UNCHANGED <<acc, snap, tmp, data>>
      BY <1>3 DEF Live, censusVars, fetching, saving
    <2> QED BY <1>2, <1>3, <2>1, TopicGrows DEF IngestInv, Live
  <1>4. CASE Dev(ReplayNext) \/ UNCHANGED ingestVars
    <2>1. UNCHANGED <<acc, snap, tmp, data, raw>>
      BY <1>4 DEF Dev, ingestVars, bridgeVars, censusVars, fetching, saving
    <2> QED BY <1>1, <1>2, <2>1
  <1>5. CASE Observing(CensusNext)
    <2>1. CASE Fetch
      BY <2>1, FetchSound
    <2>2. CASE ~Fetch
      <3>1. raw' = raw
        BY <1>5, <2>2, Zenon
        DEF Observing, CensusNext, FetchLoop, Ticker, FinalSave, SetLast, StopFetching,
            OpenTmp, WriteSnapshot, Rename, SaveError, ReadLast, CommitLast, CensusSignal,
            CensusCrash, CensusStart, CensusRebalance
      <3>2. data = [w \in Saver |-> data[w]]
        BY DEF IngestInv, CensusInv, CountsOK
      <3> QED BY <1>5, <2>2, <3>1, <3>2, MovesSound DEF Observing
    <2> QED BY <2>1, <2>2
  <1> QED BY <1>3, <1>4, <1>5 DEF IngestNext

\* The census starts without a snapshot.
LEMMA SoundInit == IngestInit => AccumulatorsSound
  <1>1. NoFile.acc = NewAccumulator
    BY DEF NoFile, File
  <1> QED BY <1>1, SoundFresh DEF IngestInit, CensusInit, AccumulatorsSound

\* The census never miscounts: through snapshots, torn files, reloads, rebalances and
\* records observed again, the field in memory and the one in the snapshot are what
\* their observations say, and free text exactly if more than maxEnum values were seen.
THEOREM FieldIsItsObservationsHolds == IngestSpec => []FieldIsItsObservations
<1>1. IngestInv /\ AccumulatorsSound /\ [IngestNext]_ingestVars => AccumulatorsSound'
  BY SoundStep
<1>2. AccumulatorsSound => FieldIsItsObservations
  BY DEF AccumulatorsSound, Sound, FieldIsItsObservations
<1> QED BY <1>1, <1>2, SoundInit, IngestInvHolds, PTL DEF IngestSpec

-----------------------------------------------------------------------------
(* The replay.                                                             *)

Line == {"separator", "blank", "text"}

\* The text from line a to line b is all of the text between two separators or ends of
\* the file.
Spans(lines, a, b) ==
    /\ a \in 1..Len(lines) /\ b \in 1..Len(lines) /\ a <= b
    /\ lines[a] = "text" /\ lines[b] = "text"
    /\ \A k \in a..b : lines[k] # "separator"
    /\ \A k \in (Max({0} \cup {i \in 1..(a - 1) : lines[i] = "separator"}) + 1)..(a - 1) :
         lines[k] # "text"
    /\ \A k \in (b + 1)..(Min({Len(lines) + 1} \cup {i \in b..Len(lines) : lines[i] = "separator"}) - 1) :
         lines[k] # "text"

\* The lines between from and to are a buffer that ended at a separator or with the file.
Chunk(lines, from, to) ==
    /\ from \in Nat /\ to \in 1..(Len(lines) + 1) /\ from < to
    /\ from = 0 \/ (from \in 1..Len(lines) /\ lines[from] = "separator")
    /\ to = Len(lines) + 1 \/ lines[to] = "separator"
    /\ \A i \in (from + 1)..(to - 1) : lines[i] # "separator"

\* What publishRecord makes of a buffer that ends at a separator or with the file.
LEMMA BufferIsRecord ==
    ASSUME NEW lines \in Seq(Line), NEW from, NEW to, Chunk(lines, from, to),
           NEW S, S = {i \in (from + 1)..(to - 1) : lines[i] = "text"}, S # {}
    PROVE  Spans(lines, Min(S), Max(S))
  <1> DEFINE n == Len(lines)
             a == Min(S)
             b == Max(S)
  <1> USE DEF Chunk
  <1>0. n \in Nat
    OBVIOUS
  <1>1. S \in SUBSET (0..n) /\ S \in SUBSET Nat
    BY <1>0
  <1>2. a \in S /\ \A y \in S : a <= y
    BY <1>1, MinIs
  <1>3. b \in S /\ \A y \in S : y <= b
    BY <1>0, <1>1, MaxIs
  <1> HIDE DEF a, b
  <1>4. /\ a \in (from + 1)..(to - 1) /\ b \in (from + 1)..(to - 1)
        /\ lines[a] = "text" /\ lines[b] = "text" /\ a <= b
    BY <1>2, <1>3
  <1>5. a \in 1..n /\ b \in 1..n
    BY <1>0, <1>4
  <1>6. \A k \in a..b : lines[k] # "separator"
    BY <1>4
  <1> DEFINE A == {0} \cup {i \in 1..(a - 1) : lines[i] = "separator"}
             B == {n + 1} \cup {i \in b..n : lines[i] = "separator"}
  <1>7. Max(A) \in Nat /\ from <= Max(A)
    <2>1. A \in SUBSET (0..n) /\ A # {} /\ from \in A
      BY <1>0, <1>4, <1>5
    <2> HIDE DEF A
    <2>2. Max(A) \in A /\ \A x \in A : x <= Max(A)
      BY <1>0, <2>1, MaxIs
    <2>3. \A x \in A : x \in Nat
      BY <1>0, <2>1
    <2> QED BY <2>1, <2>2, <2>3, Zenon
  <1>8. Min(B) \in Nat /\ Min(B) <= to
    <2>1. B \in SUBSET Nat /\ B # {} /\ to \in B
      BY <1>0, <1>4, <1>5
    <2> HIDE DEF B
    <2>2. Min(B) \in B /\ \A x \in B : Min(B) <= x
      BY <2>1, MinIs
    <2> QED BY <2>1, <2>2
  <1>9. ASSUME NEW k \in (Max(A) + 1)..(a - 1) PROVE lines[k] # "text"
    <2> HIDE DEF A
    <2>1. k \in (from + 1)..(to - 1) /\ k < a
      BY <1>4, <1>7
    <2>2. k \notin S
      BY <1>2, <1>4, <2>1
    <2> QED BY <2>1, <2>2
  <1>10. ASSUME NEW k \in (b + 1)..(Min(B) - 1) PROVE lines[k] # "text"
    <2> HIDE DEF B
    <2>1. k \in (from + 1)..(to - 1) /\ k > b
      BY <1>4, <1>8
    <2>2. k \notin S
      BY <1>3, <1>4, <2>1
    <2> QED BY <2>1, <2>2
  <1> QED BY <1>4, <1>5, <1>6, <1>9, <1>10 DEF a, b, Spans

\* Conversely, a record that lies in the buffer is all of the text in it.
LEMMA RecordIsBuffer ==
    ASSUME NEW lines \in Seq(Line), NEW from, NEW to, Chunk(lines, from, to),
           NEW a \in (from + 1)..(to - 1), NEW b \in (from + 1)..(to - 1),
           Spans(lines, a, b),
           NEW S, S = {i \in (from + 1)..(to - 1) : lines[i] = "text"}
    PROVE  a = Min(S) /\ b = Max(S)
  <1> DEFINE n == Len(lines)
             A == {0} \cup {i \in 1..(a - 1) : lines[i] = "separator"}
             B == {n + 1} \cup {i \in b..n : lines[i] = "separator"}
  <1> USE DEF Chunk
  <1>0. n \in Nat /\ a \in Nat /\ b \in Nat /\ a <= n /\ b <= n
    OBVIOUS
  <1>1. Max(A) = from
    <2>1. A \in SUBSET (0..n) /\ A # {} /\ from \in A
      BY <1>0
    <2>2. \A x \in A : x <= from
      BY <1>0
    <2> HIDE DEF A
    <2>3. Max(A) \in A /\ \A x \in A : x <= Max(A)
      BY <1>0, <2>1, MaxIs
    <2>4. Max(A) <= from /\ from <= Max(A)
      BY <2>1, <2>2, <2>3, Zenon
    <2>5. Max(A) \in 0..n
      BY <2>1, <2>3, Zenon
    <2> QED BY <1>0, <2>4, <2>5
  <1>2. Min(B) = to
    <2>1. B \in SUBSET Nat /\ B # {} /\ to \in B
      BY <1>0
    <2>2. \A x \in B : to <= x
      BY <1>0
    <2> HIDE DEF B
    <2>3. Min(B) \in B /\ \A x \in B : Min(B) <= x
      BY <2>1, MinIs
    <2>4. Min(B) <= to /\ to <= Min(B)
      BY <2>1, <2>2, <2>3, Zenon
    <2>5. Min(B) \in Nat
      BY <2>1, <2>3, Zenon
    <2> QED BY <2>4, <2>5
  <1>3. lines[a] = "text" /\ \A k \in (from + 1)..(a - 1) : lines[k] # "text"
    BY <1>1 DEF Spans
  <1>4. lines[b] = "text" /\ \A k \in (b + 1)..(to - 1) : lines[k] # "text"
    BY <1>2 DEF Spans
  <1>5. a \in S /\ b \in S /\ (\A y \in S : a <= y) /\ (\A y \in S : y <= b)
    BY <1>0, <1>3, <1>4
  <1>6. S \in SUBSET (0..n) /\ S \in SUBSET Nat /\ S # {}
    BY <1>0, <1>5
  <1>7. Min(S) \in S /\ \A y \in S : Min(S) <= y
    BY <1>6, MinIs
  <1>8. Max(S) \in S /\ \A y \in S : y <= Max(S)
    BY <1>0, <1>6, MaxIs
  <1>9. a <= Min(S) /\ Min(S) <= a /\ b <= Max(S) /\ Max(S) <= b
    BY <1>5, <1>7, <1>8, Zenon
  <1>10. Min(S) \in Nat /\ Max(S) \in Nat
    BY <1>6, <1>7, <1>8, Zenon
  <1> QED BY <1>0, <1>9, <1>10

\* A seed has finitely many records.
LEMMA RecordsFinite == ASSUME NEW s \in Seq(Seq(Line)) PROVE IsFiniteSet(Records(s))
  <1> DEFINE D == {DOMAIN s[f] : f \in DOMAIN s}
             L == UNION D
             h == [f \in DOMAIN s |-> DOMAIN s[f]]
  <1>1. IsFiniteSet(DOMAIN s)
    <2>1. DOMAIN s = 1..Len(s) /\ Len(s) \in Int /\ 1 \in Int
      OBVIOUS
    <2> QED BY <2>1, FS_Interval
  <1>2. ASSUME NEW f \in DOMAIN s PROVE IsFiniteSet(DOMAIN s[f])
    <2>1. s[f] \in Seq(Line)
      OBVIOUS
    <2>2. DOMAIN s[f] = 1..Len(s[f]) /\ Len(s[f]) \in Int /\ 1 \in Int
      BY <2>1
    <2> QED BY <2>2, FS_Interval
  <1>3. h \in Surjection(DOMAIN s, D)
    BY DEF Surjection
  <1>4. IsFiniteSet(D)
    BY ONLY <1>1, <1>3, FS_Surjection
  <1>5. \A T \in D : IsFiniteSet(T)
    BY <1>2
  <1>6. IsFiniteSet(L)
    <2> HIDE DEF D
    <2> QED BY <1>4, <1>5, FS_UNION
  <1> HIDE DEF L, D, h
  <1> DEFINE F == DOMAIN s
             P == (F \X L) \X L
             g == [t \in F \X L \X L |-> << <<t[1], t[2]>>, t[3] >>]
  <1>7. IsFiniteSet(F \X L)
    BY <1>1, <1>6, FS_Product
  <1>8. IsFiniteSet(P)
    BY <1>6, <1>7, FS_Product
  <1> HIDE DEF F
  <1>9. g \in Injection(F \X L \X L, P)
    <2>1. g \in [F \X L \X L -> P]
      OBVIOUS
    <2>2. ASSUME NEW t \in F \X L \X L, NEW u \in F \X L \X L, g[t] = g[u] PROVE t = u
      <3>1. << <<t[1], t[2]>>, t[3] >> = << <<u[1], u[2]>>, u[3] >>
        BY <2>2
      <3>2. t[1] = u[1] /\ t[2] = u[2] /\ t[3] = u[3]
        BY <3>1
      <3> QED BY <3>2
    <2> HIDE DEF g
    <2> QED BY <2>1, <2>2 DEF Injection, IsInjective
  <1>10. IsFiniteSet(F \X L \X L)
    <2> HIDE DEF g, P
    <2> QED BY ONLY <1>8, <1>9, FS_Injection
  <1>11. Records(s) \in SUBSET (F \X L \X L)
    BY DEF Records, F, L, D
  <1> QED BY ONLY <1>10, <1>11, FS_Subset

\* What a record is, as the lines it names.
LEMMA RecordIs ==
    ASSUME NEW s \in Seq(Seq(Line)), NEW r \in Records(s)
    PROVE  /\ r = <<r[1], r[2], r[3]>> /\ r[1] \in 1..Len(s)
           /\ s[r[1]] \in Seq(Line) /\ Spans(s[r[1]], r[2], r[3])
  <1>1. r = <<r[1], r[2], r[3]>> /\ r[1] \in DOMAIN s /\ {r[2], r[3]} \subseteq DOMAIN s[r[1]]
        /\ IsRecord(s, r)
    BY DEF Records
  <1>2. r[1] \in 1..Len(s) /\ s[r[1]] \in Seq(Line)
    BY <1>1
  <1>3. r[2] \in 1..Len(s[r[1]]) /\ r[3] \in 1..Len(s[r[1]])
    BY <1>1, <1>2
  <1> QED BY <1>1, <1>2, <1>3, Zenon DEF IsRecord, Spans

\* The buffer has ended: at a separator or with the file.
Ended == line = Len(seed[file]) + 1 \/ (line <= Len(seed[file]) /\ seed[file][line] = "separator")
Text == {i \in buffer..(line - 1) : seed[file][i] = "text"}
Buffered == <<file, Min(Text), Max(Text)>>
Upto == {r \in Records(seed) : r[1] < file \/ (r[1] = file /\ r[3] < line)}

\* At the end of a buffer the file being read, and what BufferOK says of it.
LEMMA InFile ==
    ASSUME seed \in Seeds, file \in Nat \ {0}, BufferOK, Reading
    PROVE  /\ seed \in Seq(Seq(Line)) /\ file \in 1..Len(seed) /\ file \in DOMAIN seed
           /\ seed[file] \in Seq(Line) /\ Len(seed[file]) \in Nat
           /\ DOMAIN seed[file] = 1..Len(seed[file])
           /\ line \in 1..(Len(seed[file]) + 1) /\ buffer \in 1..line
           /\ buffer = 1 \/ seed[file][buffer - 1] = "separator"
           /\ \A i \in buffer..(line - 1) : seed[file][i] # "separator"
  <1>1. seed \in Seq(Seq(Line)) /\ file \in 1..Len(seed)
    BY ReplayAssumption DEF Reading, Line
  <1>2. seed[file] \in Seq(Line) /\ file \in DOMAIN seed
    BY <1>1
  <1>3. Len(seed[file]) \in Nat /\ DOMAIN seed[file] = 1..Len(seed[file])
    BY <1>2
  <1> QED BY <1>1, <1>2, <1>3 DEF BufferOK

\* What publishRecord makes of a buffer with text is a record of the seed.
LEMMA BufferedIsRecord ==
    ASSUME seed \in Seeds, file \in Nat \ {0}, BufferOK, Reading, Ended, Text # {}
    PROVE  /\ Buffered \in Records(seed)
           /\ Min(Text) \in buffer..(line - 1) /\ Max(Text) \in buffer..(line - 1)
           /\ \A i \in Text : Min(Text) <= i
  <1> DEFINE lines == seed[file]
             from == buffer - 1
             r == Buffered
  <1>1. /\ seed \in Seq(Seq(Line)) /\ file \in 1..Len(seed) /\ file \in DOMAIN seed
        /\ lines \in Seq(Line) /\ Len(lines) \in Nat /\ DOMAIN lines = 1..Len(lines)
        /\ line \in 1..(Len(lines) + 1) /\ buffer \in 1..line
        /\ buffer = 1 \/ lines[buffer - 1] = "separator"
        /\ \A i \in buffer..(line - 1) : lines[i] # "separator"
    BY InFile
  <1>2. /\ from \in Nat /\ from < line /\ (from = 0 \/ (from \in 1..Len(lines) /\ lines[from] = "separator"))
        /\ from + 1 = buffer /\ (line = Len(lines) + 1 \/ lines[line] = "separator")
    BY <1>1 DEF Ended
  <1>3. Text = {i \in (from + 1)..(line - 1) : lines[i] = "text"}
    BY <1>2 DEF Text
  <1>4. \A i \in (from + 1)..(line - 1) : lines[i] # "separator"
    BY <1>1, <1>2
  <1>5. Text \in SUBSET Nat /\ Text \in SUBSET (0..Len(lines))
    BY <1>1 DEF Text
  <1>6. Min(Text) \in Text /\ (\A i \in Text : Min(Text) <= i) /\ Max(Text) \in Text
    BY <1>1, <1>5, MinIs, MaxIs
  <1>7. Min(Text) \in buffer..(line - 1) /\ Max(Text) \in buffer..(line - 1)
    BY <1>6 DEF Text
  <1> HIDE DEF lines, from
  <1>8. Spans(lines, Min(Text), Max(Text))
    <2>1. Chunk(lines, from, line)
      BY <1>1, <1>2, <1>4 DEF Chunk
    <2>2. lines \in Seq(Line)
      BY <1>1
    <2> QED BY ONLY <1>3, <2>1, <2>2, Text # {}, BufferIsRecord, Zenon
  <1>9. r[1] = file /\ r[2] = Min(Text) /\ r[3] = Max(Text) /\ seed[r[1]] = lines
    BY DEF lines, Buffered
  <1> HIDE DEF r
  <1>10. IsRecord(seed, r)
    BY <1>8, <1>9, Zenon DEF IsRecord, Spans
  <1>11. r[1] \in DOMAIN seed /\ {r[2], r[3]} \subseteq DOMAIN seed[r[1]]
    BY <1>1, <1>8, <1>9 DEF Spans
  <1>12. r \in Records(seed)
    <2> DEFINE F == DOMAIN seed
               L == UNION {DOMAIN seed[f] : f \in DOMAIN seed}
               x == Min(Text)
               y == Max(Text)
    <2>1. file \in F /\ x \in L /\ y \in L
      BY <1>1, <1>9, <1>11
    <2> HIDE DEF F, L, x, y
    <2>2. <<file, x, y>> \in F \X L \X L
      BY <2>1
    <2>3. r = <<file, x, y>>
      BY DEF r, x, y, Buffered
    <2>4. r \in F \X L \X L
      BY <2>2, <2>3, Zenon
    <2> QED BY <1>10, <1>11, <2>4, Zenon DEF Records, F, L
  <1> QED BY <1>6, <1>7, <1>12 DEF r

\* A record of the file that begins in the buffer is the one that is in it.
LEMMA BeginsInBuffer ==
    ASSUME seed \in Seeds, file \in Nat \ {0}, BufferOK, Reading, Ended,
           NEW q \in Records(seed), q[1] = file, q[2] >= buffer, q[2] < line
    PROVE  Text # {} /\ q = Buffered
  <1> DEFINE lines == seed[file]
             from == buffer - 1
  <1>1. /\ seed \in Seq(Seq(Line)) /\ lines \in Seq(Line) /\ Len(lines) \in Nat
        /\ line \in 1..(Len(lines) + 1) /\ buffer \in 1..line
        /\ buffer = 1 \/ lines[buffer - 1] = "separator"
        /\ \A i \in buffer..(line - 1) : lines[i] # "separator"
    BY InFile
  <1>2. /\ from \in Nat /\ from < line /\ (from = 0 \/ (from \in 1..Len(lines) /\ lines[from] = "separator"))
        /\ from + 1 = buffer /\ (line = Len(lines) + 1 \/ lines[line] = "separator")
    BY <1>1 DEF Ended
  <1>3. Text = {i \in (from + 1)..(line - 1) : lines[i] = "text"}
    BY <1>2 DEF Text
  <1>4. /\ q = <<file, q[2], q[3]>>
        /\ Spans(lines, q[2], q[3])
    BY <1>1, RecordIs
  <1>5. /\ q[2] \in 1..Len(lines) /\ q[3] \in 1..Len(lines) /\ q[2] <= q[3]
        /\ lines[q[2]] = "text" /\ \A k \in q[2]..q[3] : lines[k] # "separator"
    BY <1>4 DEF Spans
  <1>6. q[2] \in (from + 1)..(line - 1) /\ q[3] \in (from + 1)..(line - 1)
    <2>1. /\ q[2] \in Nat /\ q[3] \in Nat /\ line \in Nat /\ buffer \in Nat
          /\ q[2] < line /\ buffer <= q[2] /\ q[2] <= q[3] /\ q[3] <= Len(lines)
      BY <1>1, <1>5
    <2>2. ASSUME line <= q[3] PROVE FALSE
      <3>1. line \in q[2]..q[3] /\ line # Len(lines) + 1
        BY <1>1, <2>1, <2>2
      <3> QED BY <1>2, <1>5, <3>1
    <2>3. q[3] < line
      BY <2>1, <2>2
    <2> QED BY <1>1, <2>1, <2>3
  <1>7. \A i \in (from + 1)..(line - 1) : lines[i] # "separator"
    BY <1>1, <1>2
  <1>8. q[2] \in Text
    BY <1>3, <1>5, <1>6
  <1>9. q[2] = Min(Text) /\ q[3] = Max(Text)
    <2> DEFINE a == q[2]
               b == q[3]
    <2>1. a \in (from + 1)..(line - 1) /\ b \in (from + 1)..(line - 1) /\ Spans(lines, a, b)
      BY <1>4, <1>6
    <2> HIDE DEF a, b, lines, from
    <2>0. Chunk(lines, from, line)
      BY <1>1, <1>2, <1>7 DEF Chunk
    <2>2. a = Min(Text) /\ b = Max(Text)
      <3>1. lines \in Seq(Line)
        BY <1>1
      <3> QED BY ONLY <3>1, <1>3, <2>0, <2>1, RecordIsBuffer, SMT
    <2> QED BY <2>2 DEF a, b
  <1> QED BY <1>4, <1>8, <1>9 DEF Buffered

\* One that begins before the buffer ends before it.
LEMMA BeginsBefore ==
    ASSUME seed \in Seeds, file \in Nat \ {0}, BufferOK, Reading,
           NEW q \in Records(seed), q[1] = file, q[2] < buffer
    PROVE  q[3] < buffer
  <1>1. /\ seed \in Seq(Seq(Line)) /\ seed[file] \in Seq(Line) /\ Len(seed[file]) \in Nat
        /\ line \in 1..(Len(seed[file]) + 1) /\ buffer \in 1..line
        /\ buffer = 1 \/ seed[file][buffer - 1] = "separator"
    BY InFile
  <1>2. /\ q[2] \in 1..Len(seed[file]) /\ q[3] \in 1..Len(seed[file]) /\ q[2] <= q[3]
        /\ \A k \in q[2]..q[3] : seed[file][k] # "separator"
    BY <1>1, RecordIs DEF Spans
  <1>3. buffer # 1 /\ buffer - 1 \in Nat /\ q[2] <= buffer - 1
    BY <1>1, <1>2
  <1>4. buffer - 1 \notin q[2]..q[3]
    BY <1>1, <1>2, <1>3
  <1> QED BY <1>1, <1>2, <1>3, <1>4

\* The records up to the line read next are those passed, and the one in the buffer,
\* whose rank is their number.
LEMMA PassedAtEnd ==
    ASSUME seed \in Seeds, file \in Nat \ {0}, BufferOK, Reading, Ended
    PROVE  /\ Text = {} => Upto = Passed
           /\ Text # {} => /\ Buffered \in Records(seed) /\ Buffered \notin Passed
                           /\ Upto = Passed \cup {Buffered}
                           /\ Rank(seed, Buffered) = Cardinality(Upto)
  <1>1. seed \in Seq(Seq(Line)) /\ line \in Nat /\ buffer \in Nat /\ buffer <= line
    BY InFile
  <1>2. ASSUME NEW q \in Records(seed)
        PROVE  q[1] \in Nat /\ q[2] \in Nat /\ q[3] \in Nat /\ q[2] <= q[3]
    BY <1>1, RecordIs DEF Spans
  <1>3. ASSUME NEW q \in Upto PROVE q \in Passed \/ (Text # {} /\ q = Buffered)
    <2>1. q \in Records(seed) /\ (q[1] < file \/ (q[1] = file /\ q[3] < line))
      BY DEF Upto
    <2>2. CASE q[1] < file
      BY <2>1, <2>2 DEF Passed
    <2>3. CASE q[1] = file /\ q[3] < line /\ q[2] < buffer
      BY <2>1, <2>3, BeginsBefore DEF Passed
    <2>4. CASE q[1] = file /\ q[3] < line /\ q[2] >= buffer
      <3>1. q[2] < line
        BY <1>1, <1>2, <2>1, <2>4
      <3> QED BY <2>1, <2>4, <3>1, BeginsInBuffer
    <2> QED BY <1>1, <1>2, <2>1, <2>2, <2>3, <2>4
  <1>4. Passed \subseteq Upto
    <2> SUFFICES ASSUME NEW q \in Passed PROVE q \in Upto
      OBVIOUS
    <2>1. q \in Records(seed) /\ (q[1] < file \/ (q[1] = file /\ q[3] < buffer))
      BY DEF Passed
    <2> QED BY <1>1, <1>2, <2>1 DEF Upto
  <1>5. CASE Text = {}
    BY <1>3, <1>4, <1>5
  <1>6. CASE Text # {}
    <2>1. /\ Buffered \in Records(seed)
          /\ Min(Text) \in buffer..(line - 1) /\ Max(Text) \in buffer..(line - 1)
      BY <1>6, BufferedIsRecord
    <2>2. Buffered[1] = file /\ Buffered[2] = Min(Text) /\ Buffered[3] = Max(Text)
      BY DEF Buffered
    <2>3. Buffered \in Upto /\ Buffered \notin Passed
      BY <1>1, <2>1, <2>2 DEF Upto, Passed
    <2>4. Upto = Passed \cup {Buffered}
      BY <1>3, <1>4, <2>3
    <2>5. {q \in Records(seed) : q[1] < file \/ (q[1] = file /\ q[2] <= Min(Text))} = Upto
      <3>1. ASSUME NEW q \in Records(seed), q[1] < file \/ (q[1] = file /\ q[2] <= Min(Text))
            PROVE  q \in Upto
        <4>1. CASE q[1] < file
          BY <4>1 DEF Upto
        <4>2. CASE q[1] = file /\ q[2] < buffer
          BY <4>2, <1>4, BeginsBefore DEF Passed
        <4>3. CASE q[1] = file /\ q[2] <= Min(Text) /\ q[2] >= buffer
          <5>1. q[2] < line
            BY <1>1, <1>2, <2>1, <4>3
          <5> QED BY <2>3, <4>3, <5>1, BeginsInBuffer
        <4> QED BY <1>1, <1>2, <3>1, <4>1, <4>2, <4>3
      <3>2. ASSUME NEW q \in Upto
            PROVE  q \in Records(seed) /\ (q[1] < file \/ (q[1] = file /\ q[2] <= Min(Text)))
        <4>1. CASE q = Buffered
          BY <2>1, <2>2, <4>1
        <4>2. CASE q \in Passed
          <5>1. q \in Records(seed) /\ (q[1] < file \/ (q[1] = file /\ q[3] < buffer))
            BY <4>2 DEF Passed
          <5> QED BY <1>1, <1>2, <2>1, <5>1
        <4> QED BY <2>4, <4>1, <4>2
      <3> QED BY <3>1, <3>2
    <2>6. Rank(seed, Buffered) = Cardinality(Upto)
      BY <2>2, <2>5, Zenon DEF Rank
    <2> QED BY <1>6, <2>1, <2>3, <2>4, <2>6
  <1> QED BY <1>5, <1>6

LEMMA RecordsCount ==
    ASSUME seed \in Seeds
    PROVE  /\ seed \in Seq(Seq(Line)) /\ IsFiniteSet(Records(seed)) /\ Cardinality(Records(seed)) \in Nat
           /\ IsFiniteSet(Passed) /\ Cardinality(Passed) \in Nat
  <1>1. seed \in Seq(Seq(Line))
    BY ReplayAssumption DEF Line
  <1>2. IsFiniteSet(Records(seed))
    BY <1>1, RecordsFinite
  <1>3. Passed \in SUBSET Records(seed)
    BY DEF Passed
  <1>4. IsFiniteSet(Passed)
    BY <1>2, <1>3, FS_Subset
  <1> QED BY <1>1, <1>2, <1>4, FS_CardinalityType

\* No record begins before the first file and line.
LEMMA NonePassed ==
    ASSUME seed' \in Seeds, file' = 1, buffer' = 1
    PROVE  Passed' = {}
  <1>1. seed' \in Seq(Seq(Line))
    BY ReplayAssumption DEF Line
  <1>2. \A r \in Records(seed') : r[1] \in Nat \ {0} /\ r[3] \in Nat \ {0}
    BY <1>1, RecordIs DEF Spans
  <1> QED BY <1>2 DEF Passed

\* publishRecord counts the record in the buffer, if there is one, and it is the next.
LEMMA PublishInv ==
    ASSUME ReplayInv, Reading, Ended, PublishRecord, seed' = seed
    PROVE  /\ sent' \in Nat /\ ReplaysTheSeed'
           /\ \E round \in 0..sent' : /\ sent' = round * Cardinality(Records(seed)) + Cardinality(Upto)
                                      /\ Loop \/ round = 0
  <1> DEFINE n == Cardinality(Records(seed))
             c == Cardinality(Passed)
  <1>1. seed \in Seeds /\ file \in Nat \ {0} /\ BufferOK /\ sent \in Nat /\ CountOK /\ ReplaysTheSeed
    BY DEF ReplayInv
  <1>2. n \in Nat /\ c \in Nat /\ IsFiniteSet(Passed)
    BY <1>1, RecordsCount
  <1>3. PICK round \in 0..sent : sent = round * n + c /\ (Loop \/ round = 0)
    BY <1>1 DEF CountOK
  <1>4. /\ Text = {} => Upto = Passed
        /\ Text # {} => /\ Buffered \in Records(seed) /\ Buffered \notin Passed
                        /\ Upto = Passed \cup {Buffered}
                        /\ Rank(seed, Buffered) = Cardinality(Upto)
    BY <1>1, PassedAtEnd
  <1>5. CASE Text = {}
    <2>1. UNCHANGED <<sent, latest>>
      BY <1>5 DEF PublishRecord, Text
    <2>2. ReplaysTheSeed'
      BY <1>1, <2>1 DEF ReplaysTheSeed
    <2> QED BY <1>1, <1>3, <1>4, <1>5, <2>1, <2>2
  <1>6. CASE Text # {}
    <2>1. sent' = sent + 1 /\ latest' = Buffered
      BY <1>6 DEF PublishRecord, Text, Buffered
    <2>2. Cardinality(Upto) = c + 1
      BY <1>2, <1>4, <1>6, FS_AddElement
    <2> DEFINE p == round * n
    <2>3. p \in Nat /\ sent = p + c /\ round \in Nat /\ round <= sent /\ c \in Nat
      BY <1>1, <1>2, <1>3
    <2> HIDE DEF p, c
    <2>4. sent' \in Nat /\ sent' = p + Cardinality(Upto) /\ round \in 0..sent' /\ round \in 0..(sent' - 1)
      BY <1>1, <2>1, <2>2, <2>3
    <2>5. Rank(seed, latest') = Cardinality(Upto) /\ latest' \in Records(seed)
      BY <1>4, <1>6, <2>1
    <2>6. ReplaysTheSeed'
      <3>1. sent' = round * n + Rank(seed', latest') /\ latest' \in Records(seed')
        BY <2>4, <2>5 DEF p
      <3> QED BY <1>3, <2>4, <3>1, Zenon DEF ReplaysTheSeed
    <2> QED BY <1>3, <2>4, <2>6 DEF p
  <1> QED BY <1>5, <1>6

\* A file, the next or the first again, is read from its start.
LEMMA AtStart ==
    ASSUME seed' \in Seeds, file' \in Nat \ {0}, line' = 1, buffer' = 1
    PROVE  BufferOK'
  <1> SUFFICES ASSUME Reading' PROVE 1 \in 1..(Len(seed'[file']) + 1)
    BY DEF BufferOK
  <1>1. seed' \in Seq(Seq(Line)) /\ file' \in 1..Len(seed')
    BY ReplayAssumption DEF Reading, Line
  <1>2. Len(seed'[file']) \in Nat
    BY <1>1
  <1> QED BY <1>2

LEMMA RoundsFit ==
    ASSUME NEW m \in Nat, NEW round \in Nat, NEW n \in Nat, m = round * n + n, n # 0
    PROVE  m = (round + 1) * n + 0 /\ round + 1 \in 0..m
  <1>1. round * n >= round
    OBVIOUS
  <1>2. (round + 1) * n = round * n + n
    OBVIOUS
  <1> QED BY <1>1, <1>2

\* The separator.
LEMMA EndRecordInv == ASSUME ReplayInv, EndRecord PROVE ReplayInv'
  <1>0. seed \in Seeds /\ file \in Nat \ {0} /\ BufferOK
    BY DEF ReplayInv
  <1>1. seed' = seed /\ file' = file /\ line' = line + 1 /\ buffer' = line + 1 /\ Reading
        /\ line <= Len(seed[file]) /\ seed[file][line] = "separator" /\ PublishRecord
    BY DEF EndRecord
  <1>2. /\ seed \in Seq(Seq(Line)) /\ Len(seed[file]) \in Nat /\ line \in 1..Len(seed[file])
    BY <1>0, <1>1, InFile
  <1>3. /\ sent' \in Nat /\ ReplaysTheSeed'
        /\ \E round \in 0..sent' : /\ sent' = round * Cardinality(Records(seed)) + Cardinality(Upto)
                                   /\ Loop \/ round = 0
    BY <1>1, PublishInv DEF Ended
  <1>4. BufferOK'
    BY <1>1, <1>2 DEF BufferOK
  <1>5. Passed' = Upto
    <2>1. ASSUME NEW r \in Records(seed)
          PROVE  r[3] \in Nat /\ (r[1] = file => r[3] # line)
      BY <1>1, <1>2, RecordIs DEF Spans
    <2>2. \A r \in Records(seed) :
              (r[1] = file /\ r[3] < line) <=> (r[1] = file /\ r[3] < line + 1)
      BY <1>2, <2>1
    <2> QED BY <1>1, <2>2 DEF Passed, Upto
  <1>6. CountOK'
    BY <1>1, <1>3, <1>5 DEF CountOK
  <1> QED BY <1>0, <1>1, <1>3, <1>4, <1>6 DEF ReplayInv

\* The end of a file.
LEMMA EndFileInv == ASSUME ReplayInv, EndFile PROVE ReplayInv'
  <1>0. seed \in Seeds /\ file \in Nat \ {0} /\ BufferOK
    BY DEF ReplayInv
  <1>1. seed' = seed /\ line' = 1 /\ buffer' = 1 /\ Reading /\ line = Len(seed[file]) + 1 /\ PublishRecord
        /\ file' = IF Loop /\ file = Len(seed) THEN 1 ELSE file + 1
    BY DEF EndFile
  <1>2. file' \in Nat \ {0}
    BY <1>0, <1>1
  <1>3. BufferOK'
    BY <1>0, <1>1, <1>2, AtStart
  <1>4. /\ sent' \in Nat /\ ReplaysTheSeed'
        /\ \E round \in 0..sent' : /\ sent' = round * Cardinality(Records(seed)) + Cardinality(Upto)
                                   /\ Loop \/ round = 0
    BY <1>1, PublishInv DEF Ended
  <1>5. seed \in Seq(Seq(Line)) /\ file \in 1..Len(seed)
    BY <1>0, <1>1, InFile
  <1>6. ASSUME NEW r \in Records(seed)
        PROVE  r[1] \in 1..Len(seed) /\ r[3] \in Nat \ {0} /\ (r[1] = file => r[3] < line)
    <2>1. r[1] \in 1..Len(seed) /\ seed[r[1]] \in Seq(Line) /\ r[3] \in 1..Len(seed[r[1]])
      BY <1>5, RecordIs DEF Spans
    <2>2. Len(seed[r[1]]) \in Nat
      BY <2>1
    <2> QED BY <1>1, <2>1, <2>2
  <1>7. CountOK'
    <2>1. CASE Loop /\ file = Len(seed)
      <3>1. Passed' = {}
        BY <1>0, <1>1, <2>1, NonePassed
      <3>2. Upto = Records(seed)
        BY <1>5, <1>6, <2>1 DEF Upto
      <3>3. PICK round \in 0..sent' : sent' = round * Cardinality(Records(seed)) + Cardinality(Records(seed))
        BY <1>4, <3>2
      <3>4. Cardinality(Passed') = 0 /\ Cardinality(Records(seed)) \in Nat
        BY <1>0, <3>1, RecordsCount, FS_EmptySet
      <3> DEFINE n == Cardinality(Records(seed))
                 m == sent'
      <3>5. m \in Nat /\ n \in Nat /\ round \in Nat /\ m = round * n + n
        BY <1>4, <3>3, <3>4
      <3> HIDE DEF n, m
      <3>6. CASE n = 0
        <4>1. m = 0 * n + 0 /\ 0 \in 0..m
          BY <3>5, <3>6
        <4> QED BY <1>1, <3>4, <4>1 DEF CountOK, n, m
      <3>7. CASE n # 0
        <4>1. m = (round + 1) * n + 0 /\ round + 1 \in 0..m
          BY <3>5, <3>7, RoundsFit
        <4> QED BY <1>1, <2>1, <3>4, <4>1 DEF CountOK, n, m
      <3> QED BY <3>6, <3>7
    <2>2. CASE ~(Loop /\ file = Len(seed))
      <3>0. file' = file + 1
        BY <1>1, <2>2
      <3>1. Passed' = Upto
        <4>1. ASSUME NEW r \in Records(seed)
              PROVE  (r[1] < file + 1 \/ (r[1] = file + 1 /\ r[3] < 1))
                     <=> (r[1] < file \/ (r[1] = file /\ r[3] < line))
          BY <1>5, <1>6
        <4> QED BY <1>1, <3>0, <4>1 DEF Passed, Upto
      <3> QED BY <1>1, <1>4, <3>1 DEF CountOK
    <2> QED BY <2>1, <2>2
  <1> QED BY <1>0, <1>1, <1>2, <1>3, <1>4, <1>7 DEF ReplayInv

\* The start of a process.
LEMMA ReplayFresh ==
    ASSUME seed' \in Seeds, file' = 1, line' = 1, buffer' = 1, sent' = 0
    PROVE  ReplayInv'
  <1>1. BufferOK'
    BY AtStart
  <1>2. Cardinality(Passed') = 0
    BY NonePassed, FS_EmptySet
  <1>3. Cardinality(Records(seed')) \in Nat
    <2>1. seed' \in Seq(Seq(Line))
      BY ReplayAssumption DEF Line
    <2> QED BY <2>1, RecordsFinite, FS_CardinalityType
  <1>4. CountOK'
    BY <1>2, <1>3 DEF CountOK
  <1> QED BY <1>1, <1>4 DEF ReplayInv, ReplaysTheSeed

LEMMA ReplayStep == ASSUME ReplayInv, [ReplayNext]_replayVars PROVE ReplayInv'
  <1>1. CASE BufferLine
    <2>1. seed' = seed /\ file' = file /\ buffer' = buffer /\ sent' = sent /\ latest' = latest
      BY <1>1 DEF BufferLine
    <2>2. BufferOK'
      <3>1. Len(seed[file]) \in Nat /\ line \in Nat /\ buffer \in Nat
        BY <1>1, InFile DEF BufferLine, ReplayInv
      <3> QED BY <1>1, <3>1 DEF BufferLine, ReplayInv, BufferOK, Reading
    <2> QED BY <2>1, <2>2 DEF ReplayInv, CountOK, Passed, ReplaysTheSeed
  <1>2. CASE EndRecord
    BY <1>2, EndRecordInv
  <1>3. CASE EndFile
    BY <1>3, EndFileInv
  <1>4. CASE ReplayRestart
    BY <1>4, ReplayFresh DEF ReplayRestart, ReplayInv
  <1>5. CASE UNCHANGED replayVars
    BY <1>5 DEF replayVars, ReplayInv, BufferOK, Reading, CountOK, Passed, ReplaysTheSeed
  <1> QED BY <1>1, <1>2, <1>3, <1>4, <1>5 DEF ReplayNext

LEMMA ReplayInitInv == ReplayInit => ReplayInv
  <1> SUFFICES ASSUME ReplayInit PROVE ReplayInv
    OBVIOUS
  <1>1. seed \in Seeds /\ file = 1 /\ line = 1 /\ buffer = 1 /\ sent = 0
    BY DEF ReplayInit
  <1>2. seed \in Seq(Seq(Line))
    BY <1>1, ReplayAssumption DEF Line
  <1>3. BufferOK
    <2> SUFFICES ASSUME Reading PROVE 1 \in 1..(Len(seed[file]) + 1)
      BY <1>1 DEF BufferOK
    <2>1. file \in 1..Len(seed)
      BY <1>1, <1>2 DEF Reading
    <2>2. Len(seed[file]) \in Nat
      BY <1>2, <2>1
    <2> QED BY <2>2
  <1>4. \A r \in Records(seed) : r[1] \in Nat \ {0} /\ r[3] \in Nat \ {0}
    BY <1>2, RecordIs DEF Spans
  <1>5. Passed = {}
    BY <1>1, <1>4 DEF Passed
  <1>6. Cardinality(Passed) = 0 /\ Cardinality(Records(seed)) \in Nat
    BY <1>1, <1>5, RecordsCount, FS_EmptySet
  <1>7. CountOK
    BY <1>1, <1>6 DEF CountOK
  <1> QED BY <1>1, <1>3, <1>7 DEF ReplayInv, ReplaysTheSeed

\* In dev mode the n-th record sent to fixm.raw is the n-th of the seed, counted round and
\* round, for every seed: a record is the whole text between two separators or ends of its
\* file, and none is skipped or sent twice at the end of a file, of the directory or after
\* a restart.
THEOREM ReplaysTheSeedHolds == IngestSpec => []ReplaysTheSeed
  <1>1. IngestInit => ReplayInv
    BY ReplayInitInv DEF IngestInit
  <1>2. ReplayInv /\ [IngestNext]_ingestVars => ReplayInv'
    <2>1. [IngestNext]_ingestVars => [ReplayNext]_replayVars
      BY DEF IngestNext, Live, Dev, Observing, ingestVars, replayVars
    <2> QED BY <2>1, ReplayStep
  <1>3. ReplayInv => ReplaysTheSeed
    BY DEF ReplayInv
  <1> QED BY <1>1, <1>2, <1>3, PTL DEF IngestSpec
=============================================================================
